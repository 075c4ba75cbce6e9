--------------------------- MODULE ConnectionPool ---------------------------
(***************************************************************************)
(* The connection pool of src/src/connection/pool.rs: a semaphore with     *)
(* max_size permits in front of a deque of idle connections.  Tasks (the   *)
(* Python threads that share one client, each inside runtime::block_on)    *)
(* run `get`, use the guard and drop it.  Every await point and every      *)
(* lock/unlock of `idle` is a step of its own.                             *)
(***************************************************************************)
EXTENDS Naturals, Sequences, FiniteSets, Functions

CONSTANTS
    Tasks,        \* callers of the pool
    Conns,        \* identities of connections, reused once closed
    NoConn,       \* "no connection": PoolGuard.conn = None
    MaxSize,      \* ConnectionPool.max_size
    IdleTimeout,  \* ConnectionPool.idle_timeout, in clock ticks
    Tls           \* ConnectionConfig.tls

ASSUME PoolAssumption ==
    /\ IsFiniteSet(Tasks)
    /\ NoConn \notin Conns
    /\ MaxSize \in Nat        \* Redis.from_url accepts 0
    /\ IdleTimeout \in Nat
    /\ Tls \in BOOLEAN

VARIABLES
    permits,   \* Semaphore: permits nobody holds
    waiters,   \* Semaphore: FIFO queue of the tasks suspended in acquire()
    idle,      \* ConnectionPool.idle; the back of the deque is the last element
    pc,        \* where each task is in get / PoolGuard::drop
    conn,      \* the connection each task owns (being set up, or in its guard)
    taken,     \* connections moved out of the pool by PoolGuard::take
    elapsed    \* last_used.elapsed() of each connection, capped past the timeout

poolVars == <<permits, waiters, idle, pc, conn, taken, elapsed>>

(***************************************************************************)
(* "outside"      no call in progress                                      *)
(* "waiting"      suspended in semaphore.acquire()                         *)
(* "acquired"     has the permit, has not yet locked `idle`                *)
(* "connecting"   in create_connection, no socket yet                      *)
(* "initializing" in create_connection, socket open, AUTH/SELECT running   *)
(* "guard"        owns a PoolGuard                                         *)
(* "returning"    in return_connection, past the age check                 *)
(* "releasing"    the connection is gone, the permit not yet dropped       *)
(***************************************************************************)
PoolPC == {"outside", "waiting", "acquired", "connecting", "initializing",
           "guard", "returning", "releasing"}

Expired(c) == elapsed[c] > IdleTimeout

Held == {conn[t] : t \in Tasks} \ {NoConn}
Open == Range(idle) \cup Held \cup taken

Goto(t, l) == pc' = [pc EXCEPT ![t] = l]

-----------------------------------------------------------------------------
(* ConnectionPool::new *)
PoolInit ==
    /\ permits = MaxSize
    /\ waiters = <<>>
    /\ idle = <<>>
    /\ pc = [t \in Tasks |-> "outside"]
    /\ conn = [t \in Tasks |-> NoConn]
    /\ taken = {}
    /\ elapsed = [c \in Conns |-> 0]

(***************************************************************************)
(* get: semaphore.acquire().await, taking a permit at once or joining the  *)
(* FIFO queue.  The semaphore is never closed, so the error arm is dead.   *)
(***************************************************************************)
Acquire(t) ==
    /\ pc[t] = "outside"
    /\ \/ /\ permits > 0
          /\ permits' = permits - 1
          /\ Goto(t, "acquired")
          /\ UNCHANGED waiters
       \/ /\ permits = 0
          /\ waiters' = Append(waiters, t)
          /\ Goto(t, "waiting")
          /\ UNCHANGED permits
    /\ UNCHANGED <<idle, conn, taken, elapsed>>

(* Mutant of TakeIdle: the connection is used but stays in the deque. *)
TakeIdleKeeps(t) ==
    /\ pc[t] = "acquired"
    /\ \E i \in DOMAIN idle :
          /\ ~Expired(idle[i])
          /\ \A j \in i+1 .. Len(idle) : Expired(idle[j])
          /\ conn' = [conn EXCEPT ![t] = idle[i]]
          /\ idle' = SubSeq(idle, 1, i)
    /\ Goto(t, "guard")
    /\ UNCHANGED <<permits, waiters, taken, elapsed>>

(***************************************************************************)
(* get: lock idle, take_healthy_connection.  Pop from the back, dropping   *)
(* what is past the idle timeout, until a usable connection turns up.      *)
(***************************************************************************)
TakeIdle(t) ==
    /\ pc[t] = "acquired"
    /\ \E i \in DOMAIN idle :
          /\ ~Expired(idle[i])
          /\ \A j \in i+1 .. Len(idle) : Expired(idle[j])
          /\ conn' = [conn EXCEPT ![t] = idle[i]]
          /\ idle' = SubSeq(idle, 1, i - 1)
    /\ Goto(t, "guard")
    /\ UNCHANGED <<permits, waiters, taken, elapsed>>

(* Mutant of TakeNone: a get may connect without consulting the deque. *)
TakeNoneNoReuse(t) ==
    /\ pc[t] = "acquired"
    /\ Goto(t, "connecting")
    /\ UNCHANGED <<permits, waiters, idle, conn, taken, elapsed>>

TakeNone(t) ==
    /\ pc[t] = "acquired"
    /\ \A i \in DOMAIN idle : Expired(idle[i])
    /\ idle' = <<>>
    /\ Goto(t, "connecting")
    /\ UNCHANGED <<permits, waiters, conn, taken, elapsed>>

(* create_connection: connect_timeout_with_max_buf succeeds *)
Connect(t) ==
    /\ pc[t] = "connecting"
    /\ ~Tls
    /\ \E c \in Conns \ Open :
          /\ conn' = [conn EXCEPT ![t] = c]
          /\ elapsed' = [elapsed EXCEPT ![c] = 0]
    /\ Goto(t, "initializing")
    /\ UNCHANGED <<permits, waiters, idle, taken>>

(* Mutant of ConnectErr: the permit is forgotten on the error path. *)
ConnectErrLeaks(t) ==
    /\ pc[t] = "connecting"
    /\ Goto(t, "outside")
    /\ UNCHANGED <<permits, waiters, idle, conn, taken, elapsed>>

(* create_connection: TLS rejected, connection refused or connect timeout *)
ConnectErr(t) ==
    /\ pc[t] = "connecting"
    /\ Goto(t, "releasing")
    /\ UNCHANGED <<permits, waiters, idle, conn, taken, elapsed>>

(***************************************************************************)
(* create_connection: init() done; get returns the guard.  last_used moves *)
(* only if there was an AUTH or a SELECT to send.                          *)
(***************************************************************************)
InitOk(t) ==
    /\ pc[t] = "initializing"
    /\ elapsed' \in {elapsed, [elapsed EXCEPT ![conn[t]] = 0]}
    /\ Goto(t, "guard")
    /\ UNCHANGED <<permits, waiters, idle, conn, taken>>

(* create_connection: init() fails; the new connection is dropped *)
InitErr(t) ==
    /\ pc[t] = "initializing"
    /\ conn' = [conn EXCEPT ![t] = NoConn]
    /\ Goto(t, "releasing")
    /\ UNCHANGED <<permits, waiters, idle, taken, elapsed>>

(* The guard's owner completes a write or a read: last_used = now *)
Use(t) ==
    /\ pc[t] = "guard"
    /\ elapsed' = [elapsed EXCEPT ![conn[t]] = 0]
    /\ UNCHANGED <<permits, waiters, idle, pc, conn, taken>>

(***************************************************************************)
(* PoolGuard::drop -> return_connection, up to the age check.              *)
(***************************************************************************)
DropStale(t) ==
    /\ pc[t] = "guard"
    /\ Expired(conn[t])
    /\ conn' = [conn EXCEPT ![t] = NoConn]
    /\ Goto(t, "releasing")
    /\ UNCHANGED <<permits, waiters, idle, taken, elapsed>>

DropGuard(t) ==
    /\ pc[t] = "guard"
    /\ ~Expired(conn[t])
    /\ Goto(t, "returning")
    /\ UNCHANGED <<permits, waiters, idle, conn, taken, elapsed>>

(* return_connection: lock idle, push_back unless the deque is full *)
PushIdle(t) ==
    /\ pc[t] = "returning"
    /\ idle' = IF Len(idle) < MaxSize THEN Append(idle, conn[t]) ELSE idle
    /\ conn' = [conn EXCEPT ![t] = NoConn]
    /\ Goto(t, "releasing")
    /\ UNCHANGED <<permits, waiters, taken, elapsed>>

(* PoolGuard::take: the connection leaves the pool for good *)
Take(t) ==
    /\ pc[t] = "guard"
    /\ taken' = taken \cup {conn[t]}
    /\ conn' = [conn EXCEPT ![t] = NoConn]
    /\ Goto(t, "releasing")
    /\ UNCHANGED <<permits, waiters, idle, elapsed>>

CloseTaken(c) ==
    /\ c \in taken
    /\ taken' = taken \ {c}
    /\ UNCHANGED <<permits, waiters, idle, pc, conn, elapsed>>

(* Mutant of Release: nobody is woken. *)
ReleaseNoWake(t) ==
    /\ pc[t] = "releasing"
    /\ permits' = permits + 1
    /\ Goto(t, "outside")
    /\ UNCHANGED <<waiters, idle, conn, taken, elapsed>>

(***************************************************************************)
(* The SemaphorePermit is dropped (the last field of PoolGuard, or the     *)
(* local of a failed get): it goes to the first waiter, else back to the   *)
(* semaphore.                                                              *)
(***************************************************************************)
Release(t) ==
    /\ pc[t] = "releasing"
    /\ \/ /\ waiters = <<>>
          /\ permits' = permits + 1
          /\ Goto(t, "outside")
          /\ UNCHANGED waiters
       \/ /\ waiters # <<>>
          /\ waiters' = Tail(waiters)
          /\ pc' = [pc EXCEPT ![t] = "outside", ![Head(waiters)] = "acquired"]
          /\ UNCHANGED permits
    /\ UNCHANGED <<idle, conn, taken, elapsed>>

(* Time passes. *)
Tick ==
    /\ elapsed' = [c \in Conns |-> IF Expired(c) THEN elapsed[c] ELSE elapsed[c] + 1]
    /\ UNCHANGED <<permits, waiters, idle, pc, conn, taken>>

Get(t) == \/ Acquire(t) \/ TakeIdle(t) \/ TakeNone(t)
          \/ Connect(t) \/ ConnectErr(t) \/ InitOk(t) \/ InitErr(t)
Drop(t) == DropStale(t) \/ DropGuard(t) \/ PushIdle(t) \/ Release(t)

PoolNext ==
    \/ \E t \in Tasks : Get(t) \/ Use(t) \/ Drop(t) \/ Take(t)
    \/ \E c \in Conns : CloseTaken(c)
    \/ Tick

PoolSpec == PoolInit /\ [][PoolNext]_poolVars

(***************************************************************************)
(* Tokio runs every ready task, and a guard lives for one operation, so    *)
(* each step of get and of drop that stays possible is taken: weak         *)
(* fairness per task.  A connect ends in one of its two ways (it has a     *)
(* timeout), and so does a handshake (the read timeout, on by default,     *)
(* applies to it).  New calls, I/O and the clock carry no fairness.        *)
(***************************************************************************)
PoolFairness ==
    \A t \in Tasks :
        /\ WF_poolVars(TakeIdle(t) \/ TakeNone(t))
        /\ WF_poolVars(Connect(t) \/ ConnectErr(t))
        /\ WF_poolVars(InitOk(t) \/ InitErr(t))
        /\ WF_poolVars(Drop(t))

PoolFairSpec == PoolSpec /\ PoolFairness

-----------------------------------------------------------------------------
Lease == INSTANCE LeasePool
    WITH Clients <- Tasks, Limit <- MaxSize,
         kept <- Range(idle), lease <- conn, gone <- taken

(***************************************************************************)
(* The pool implements the abstract contract: exclusive loans of at most   *)
(* max_size connections.                                                   *)
(***************************************************************************)
LeaseContract == Lease!LeaseSpec

PermitHolders == {t \in Tasks : pc[t] \notin {"outside", "waiting"}}
Lessees == {t \in Tasks : pc[t] \in {"connecting", "initializing", "guard", "returning"}}

(* Type correctness of the pool's state. *)
PoolTypeOK ==
    /\ permits \in 0 .. MaxSize
    /\ waiters \in Seq(Tasks)
    /\ idle \in Seq(Conns)
    /\ pc \in [Tasks -> PoolPC]
    /\ conn \in [Tasks -> Conns \cup {NoConn}]
    /\ taken \subseteq Conns
    /\ elapsed \in [Conns -> 0 .. IdleTimeout + 1]

(***************************************************************************)
(* No path through get, a failed connect or handshake, PoolGuard::drop or  *)
(* take loses a permit or releases one twice.                              *)
(***************************************************************************)
PermitConservation == permits + Cardinality(PermitHolders) = MaxSize

(***************************************************************************)
(* Idle connections, connections in use and connects under way never       *)
(* exceed pool_size ("max concurrent connections"), connections moved out  *)
(* with take() excepted.  It rests on two orders in the code: get consults *)
(* `idle` only with a permit in hand, and PoolGuard gives its connection   *)
(* back before its permit.                                                 *)
(***************************************************************************)
PoolBound == Len(idle) + Cardinality(Lessees) <= MaxSize

(***************************************************************************)
(* The "pool is full" arm of return_connection never discards a live       *)
(* connection: whoever is about to push finds room.                        *)
(***************************************************************************)
ReturnFindsRoom ==
    \A t \in Tasks : pc[t] = "returning" => Len(idle) < MaxSize

(***************************************************************************)
(* One owner per connection: what a task owns is neither idle, nor taken,  *)
(* nor owned by another task, and no connection is idle twice.  A task     *)
(* owns one exactly from connect (or reuse) to the end of its guard.       *)
(***************************************************************************)
ExclusiveOwnership ==
    /\ \A t \in Tasks :
          conn[t] # NoConn <=> pc[t] \in {"initializing", "guard", "returning"}
    /\ \A t, u \in Tasks : t # u /\ conn[t] = conn[u] => conn[t] = NoConn
    /\ IsInjective(idle)
    /\ \A i \in DOMAIN idle :
          idle[i] \notin taken /\ \A t \in Tasks : conn[t] # idle[i]
    /\ \A t \in Tasks : conn[t] \notin taken

(***************************************************************************)
(* No lost wake-up: no task sleeps in acquire() while a permit is free,    *)
(* and the queue is exactly the sleeping tasks, each once.                 *)
(***************************************************************************)
NoLostWakeup ==
    /\ waiters # <<>> => permits = 0
    /\ \A t \in Tasks : pc[t] = "waiting" <=> \E i \in DOMAIN waiters : waiters[i] = t
    /\ IsInjective(waiters)

(***************************************************************************)
(* Every get ends, with a guard or an error, as long as guards are dropped *)
(* in turn: the queue is served in order, so nobody starves.               *)
(***************************************************************************)
GetEnds ==
    \A t \in Tasks :
        pc[t] \in {"waiting", "acquired", "connecting", "initializing"}
            ~> pc[t] \in {"guard", "releasing"}
=============================================================================
