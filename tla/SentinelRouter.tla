--------------------------- MODULE SentinelRouter ---------------------------
(***************************************************************************)
(* The Sentinel router (router/sentinel.rs): commands with retries and     *)
(* failover, pipelines without, over servers that crash and change roles   *)
(* and sentinels that learn of it late.                                    *)
(*                                                                         *)
(* A connection is [node, epoch, owed]: it is dead once its node is down   *)
(* or has restarted since it was made (epoch), and owed are the replies    *)
(* that it will deliver, those to abandoned commands included.  A pool has *)
(* a permit for every task; ConnectionPool has the details of permits.     *)
(***************************************************************************)
EXTENDS Naturals, Sequences

CONSTANTS
  Tasks, Nodes,
  SentinelCount,  \* sentinels, in the order of the configuration
  RetryCount,     \* retry_count
  Batch,          \* commands of a pipeline
  Kinds,          \* calls made: "execute", "pipeline"
  Faults,         \* "crash", "restart", "promote", "timeout", "sentinel"
  MaxFaults,      \* bound on crashes and promotions
  MaxCalls        \* bound on the calls of a task

ASSUME SentinelAssumption ==
  /\ SentinelCount \in Nat /\ RetryCount \in Nat /\ Batch \in Nat \ {0} /\ MaxFaults \in Nat /\ MaxCalls \in Nat
  /\ Kinds \subseteq {"execute", "pipeline"}

VARIABLES
  master, up, epoch,   \* the servers
  view,                \* the master a sentinel names
  faults, calm,        \* faults so far; have they ended, with all in agreement?
  paddr, idle,         \* address and idle connections of every pool made
  pool, addr,          \* master_pool, as a number of a pool; master_addr
  pc,                  \* "idle", "resolve", "compare", "swap", "store", "get", "send", "read"
  kind, calls,         \* what a task calls; how often it has
  attempt,             \* of execute_with_retry
  resolved,            \* new_addr in failover
  held, conn,          \* the pool and the connection in use
  left,                \* commands a call has sent and not read the replies to
  result,              \* "ok", "late" (the answer to another command), "error" or "none"
  runs, broke,         \* executions by servers; connections broken after the write
  calmCall             \* did the call begin when all was calm, with a clean pool and no other call under way?

servers == <<master, up, epoch, view, faults, calm>>
router  == <<paddr, idle, pool, addr>>
vars == <<servers, router, pc, kind, calls, attempt, resolved, held, conn, left, result, runs, broke, calmCall>>

NoConn == <<>>

Alive(c) == up[c.node] /\ c.epoch = epoch[c.node]

Size(t) == IF kind[t] = "pipeline" THEN Batch ELSE 1

-----------------------------------------------------------------------------
Init ==
  /\ master \in Nodes
  /\ up = [n \in Nodes |-> TRUE] /\ epoch = [n \in Nodes |-> 0]
  /\ view = [s \in 1..SentinelCount |-> master]
  /\ faults = 0 /\ calm = FALSE
  /\ paddr = <<master>> /\ idle = <<<<>>>> /\ pool = 1 /\ addr = master
  /\ pc = [t \in Tasks |-> "idle"] /\ kind \in [Tasks -> Kinds] /\ calls = [t \in Tasks |-> 0]
  /\ attempt = [t \in Tasks |-> 0] /\ resolved = [t \in Tasks |-> master]
  /\ held = [t \in Tasks |-> 1] /\ conn = [t \in Tasks |-> NoConn]
  /\ left = [t \in Tasks |-> 0]
  /\ result = [t \in Tasks |-> "none"]
  /\ runs = [t \in Tasks |-> 0] /\ broke = [t \in Tasks |-> 0]
  /\ calmCall = [t \in Tasks |-> FALSE]

-----------------------------------------------------------------------------
(* Servers and sentinels *)

Fault(f) == f \in Faults /\ ~calm /\ faults < MaxFaults /\ faults' = faults + 1

NotServers == <<router, pc, kind, calls, attempt, resolved, held, conn, left, result, runs, broke, calmCall>>

Crash(n) == /\ Fault("crash")
            /\ up[n]
            /\ up' = [up EXCEPT ![n] = FALSE]
            /\ UNCHANGED <<master, epoch, view, calm, NotServers>>

Restart(n) == /\ "restart" \in Faults /\ ~calm
              /\ ~up[n]
              /\ up' = [up EXCEPT ![n] = TRUE]
              /\ epoch' = [epoch EXCEPT ![n] = @ + 1]
              /\ UNCHANGED <<master, view, faults, calm, NotServers>>

\* The old master, if it is up, becomes a replica.
Promote(n) == /\ Fault("promote")
              /\ up[n] /\ master # n
              /\ master' = n
              /\ UNCHANGED <<up, epoch, view, calm, NotServers>>

Learn(s) == /\ view[s] # master
            /\ view' = [view EXCEPT ![s] = master]
            /\ UNCHANGED <<master, up, epoch, faults, calm, NotServers>>

CalmDown == /\ ~calm
            /\ up[master] /\ \A s \in DOMAIN view : view[s] = master
            /\ calm' = TRUE
            /\ UNCHANGED <<master, up, epoch, view, faults, NotServers>>

-----------------------------------------------------------------------------
(* The router *)

\* Mutant of Retry: a pipeline is retried like a command.
RetryPipelines(t) ==
  IF attempt[t] < RetryCount
  THEN /\ attempt' = [attempt EXCEPT ![t] = @ + 1]
       /\ pc' = [pc EXCEPT ![t] = "resolve"]
       /\ UNCHANGED result
  ELSE /\ pc' = [pc EXCEPT ![t] = "idle"]
       /\ result' = [result EXCEPT ![t] = "error"]
       /\ UNCHANGED attempt

\* Mutant of Retry: the attempts are not counted.
RetryForever(t) ==
  IF kind[t] = "execute" /\ attempt[t] < RetryCount
  THEN /\ pc' = [pc EXCEPT ![t] = "resolve"]
       /\ UNCHANGED <<attempt, result>>
  ELSE /\ pc' = [pc EXCEPT ![t] = "idle"]
       /\ result' = [result EXCEPT ![t] = "error"]
       /\ UNCHANGED attempt

\* A new iteration of the loop, or the end of it; a pipeline has no other.
Retry(t) ==
  IF kind[t] = "execute" /\ attempt[t] < RetryCount
  THEN /\ attempt' = [attempt EXCEPT ![t] = @ + 1]
       /\ pc' = [pc EXCEPT ![t] = "resolve"]
       /\ UNCHANGED result
  ELSE /\ pc' = [pc EXCEPT ![t] = "idle"]
       /\ result' = [result EXCEPT ![t] = "error"]
       /\ UNCHANGED attempt

\* The guard is dropped: the connection goes back to its pool, dead or alive.
GiveBack(t, c) == /\ idle' = [idle EXCEPT ![held[t]] = Append(@, c)]
                  /\ conn' = [conn EXCEPT ![t] = NoConn]

\* No connection in the pool owes a late reply, or was made to the master before it restarted.
CleanPool == \A k \in DOMAIN idle[pool] :
               LET c == idle[pool][k] IN c.owed = <<>> /\ (c.node = master => Alive(c))

Call(t) == /\ pc[t] = "idle"
           /\ calls[t] < MaxCalls
           /\ calls' = [calls EXCEPT ![t] = @ + 1]
           /\ \E k \in Kinds : kind' = [kind EXCEPT ![t] = k]
           /\ attempt' = [attempt EXCEPT ![t] = 0]
           /\ runs' = [runs EXCEPT ![t] = 0] /\ broke' = [broke EXCEPT ![t] = 0]
           /\ result' = [result EXCEPT ![t] = "none"]
           /\ calmCall' = [calmCall EXCEPT ![t] = calm /\ CleanPool /\ \A u \in Tasks \ {t} : pc[u] = "idle"]
           /\ pc' = [pc EXCEPT ![t] = "get"]
           /\ UNCHANGED <<servers, router, resolved, held, conn, left>>

\* resolve_master: the first sentinel that can be reached and knows.  The read has
\* no timeout: a sentinel that accepts and never answers leaves the task here.
Resolve(t) == /\ pc[t] = "resolve"
              /\ \/ \E s \in DOMAIN view :
                      /\ s = 1 \/ ("sentinel" \in Faults /\ ~calm)
                      /\ resolved' = [resolved EXCEPT ![t] = view[s]]
                      /\ pc' = [pc EXCEPT ![t] = "compare"]
                      /\ UNCHANGED <<attempt, result>>
                 \/ /\ "sentinel" \in Faults /\ ~calm
                    /\ Retry(t)
                    /\ UNCHANGED resolved
              /\ UNCHANGED <<servers, router, kind, calls, held, conn, left, runs, broke, calmCall>>

\* Mutant of Compare: the pool is kept whatever the sentinel says.
CompareKeeps(t) == /\ pc[t] = "compare"
                   /\ pc' = [pc EXCEPT ![t] = "get"]
                   /\ UNCHANGED <<servers, router, kind, calls, attempt, resolved, held, conn, left, result, runs,
                                  broke, calmCall>>

\* failover: master_addr.read() ...
Compare(t) == /\ pc[t] = "compare"
              /\ pc' = [pc EXCEPT ![t] = IF resolved[t] # addr THEN "swap" ELSE "get"]
              /\ UNCHANGED <<servers, router, kind, calls, attempt, resolved, held, conn, left, result, runs,
                             broke, calmCall>>

\* ... create_master_pool, master_pool.write() ...
SwapPool(t) == /\ pc[t] = "swap"
               /\ paddr' = Append(paddr, resolved[t])
               /\ idle' = Append(idle, <<>>)
               /\ pool' = Len(paddr) + 1
               /\ pc' = [pc EXCEPT ![t] = "store"]
               /\ UNCHANGED <<servers, addr, kind, calls, attempt, resolved, held, conn, left, result, runs,
                              broke, calmCall>>

\* ... and master_addr.write()
StoreAddr(t) == /\ pc[t] = "store"
                /\ addr' = resolved[t]
                /\ pc' = [pc EXCEPT ![t] = "get"]
                /\ UNCHANGED <<servers, paddr, idle, pool, kind, calls, attempt, resolved, held, conn, left, result,
                               runs, broke, calmCall>>

\* current_pool() and pool.get(): the last connection returned, or a new one.
Get(t) ==
  LET node == paddr[pool]
      last == Len(idle[pool])
  IN /\ pc[t] = "get"
     /\ left' = [left EXCEPT ![t] = 0]
     /\ IF last > 0
        THEN /\ conn' = [conn EXCEPT ![t] = idle[pool][last]]
             /\ idle' = [idle EXCEPT ![pool] = SubSeq(@, 1, last - 1)]
             /\ held' = [held EXCEPT ![t] = pool]
             /\ pc' = [pc EXCEPT ![t] = "send"]
             /\ UNCHANGED <<attempt, result>>
        ELSE IF up[node]
        THEN /\ conn' = [conn EXCEPT ![t] = [node |-> node, epoch |-> epoch[node], owed |-> <<>>]]
             /\ held' = [held EXCEPT ![t] = pool]
             /\ pc' = [pc EXCEPT ![t] = "send"]
             /\ UNCHANGED <<idle, attempt, result>>
        ELSE Retry(t) /\ UNCHANGED <<idle, held, conn>>
     /\ UNCHANGED <<servers, paddr, pool, addr, kind, calls, resolved, runs, broke, calmCall>>

\* send_raw succeeds, and the server, if it is there, executes or refuses.
\* (A write to a socket whose peer is gone may succeed as well.)
Send(t) ==
  LET c == conn[t]
      answer == IF c.node = master THEN "ok" ELSE "readonly"
  IN /\ pc[t] = "send"
     /\ IF Alive(c)
        THEN /\ conn' = [conn EXCEPT ![t] = [c EXCEPT !.owed = Append(@, answer)]]
             /\ runs' = [runs EXCEPT ![t] = IF answer = "ok" THEN @ + 1 ELSE @]
        ELSE UNCHANGED <<conn, runs>>
     /\ left' = [left EXCEPT ![t] = @ + 1]
     /\ pc' = [pc EXCEPT ![t] = IF left[t] + 1 < Size(t) THEN "send" ELSE "read"]
     /\ UNCHANGED <<servers, router, kind, calls, attempt, resolved, held, result, broke, calmCall>>

SendFails(t) ==
  /\ pc[t] = "send"
  /\ ~Alive(conn[t])
  /\ GiveBack(t, conn[t])
  /\ Retry(t)
  /\ UNCHANGED <<servers, paddr, pool, addr, kind, calls, resolved, held, left, runs, broke, calmCall>>

\* Is the next reply on t's connection one to an earlier command?
Late(t) == Len(conn[t].owed) > left[t]

\* read_response in execute_with_retry: READONLY is retried, anything else returned.
ReadReply(t) ==
  LET rest == [conn[t] EXCEPT !.owed = Tail(@)]
  IN /\ pc[t] = "read"
     /\ kind[t] = "execute"
     /\ Alive(conn[t])
     /\ GiveBack(t, rest)
     /\ IF Head(conn[t].owed) = "readonly" THEN Retry(t)
        ELSE /\ result' = [result EXCEPT ![t] = IF Late(t) THEN "late" ELSE "ok"]
             /\ pc' = [pc EXCEPT ![t] = "idle"]
             /\ UNCHANGED attempt
     /\ UNCHANGED <<servers, paddr, pool, addr, kind, calls, resolved, held, left, runs, broke, calmCall>>

\* Mutant of ReadNext: the pipeline stops at the first READONLY.
ReadNextStops(t) ==
  LET rest == [conn[t] EXCEPT !.owed = Tail(@)]
  IN /\ pc[t] = "read"
     /\ kind[t] = "pipeline"
     /\ Alive(conn[t])
     /\ left' = [left EXCEPT ![t] = @ - 1]
     /\ IF left[t] = 1 \/ Head(conn[t].owed) = "readonly"
        THEN /\ GiveBack(t, rest)
             /\ result' = [result EXCEPT ![t] = IF Late(t) THEN "late" ELSE "ok"]
             /\ pc' = [pc EXCEPT ![t] = "idle"]
        ELSE /\ conn' = [conn EXCEPT ![t] = rest]
             /\ UNCHANGED <<idle, result, pc>>
     /\ UNCHANGED <<servers, paddr, pool, addr, kind, calls, attempt, resolved, held, runs, broke, calmCall>>

\* read_response in pipeline: a READONLY is returned as it is.
ReadNext(t) ==
  LET rest == [conn[t] EXCEPT !.owed = Tail(@)]
  IN /\ pc[t] = "read"
     /\ kind[t] = "pipeline"
     /\ Alive(conn[t])
     /\ left' = [left EXCEPT ![t] = @ - 1]
     /\ IF left[t] = 1
        THEN /\ GiveBack(t, rest)
             /\ result' = [result EXCEPT ![t] = IF Late(t) THEN "late" ELSE "ok"]
             /\ pc' = [pc EXCEPT ![t] = "idle"]
        ELSE /\ conn' = [conn EXCEPT ![t] = rest]
             /\ UNCHANGED <<idle, result, pc>>
     /\ UNCHANGED <<servers, paddr, pool, addr, kind, calls, attempt, resolved, held, runs, broke, calmCall>>

\* PyrsedisError::Connection
ReadBroken(t) ==
  /\ pc[t] = "read"
  /\ ~Alive(conn[t])
  /\ broke' = [broke EXCEPT ![t] = @ + 1]
  /\ GiveBack(t, conn[t])
  /\ Retry(t)
  /\ UNCHANGED <<servers, paddr, pool, addr, kind, calls, resolved, held, left, runs, calmCall>>

\* PyrsedisError::Timeout is returned at once.
ReadTimedOut(t) ==
  /\ pc[t] = "read"
  /\ "timeout" \in Faults /\ ~calm
  /\ GiveBack(t, conn[t])
  /\ result' = [result EXCEPT ![t] = "error"]
  /\ pc' = [pc EXCEPT ![t] = "idle"]
  /\ UNCHANGED <<servers, paddr, pool, addr, kind, calls, attempt, resolved, held, left, runs, broke, calmCall>>

-----------------------------------------------------------------------------
Step(t) == \/ Resolve(t) \/ Compare(t) \/ SwapPool(t) \/ StoreAddr(t)
           \/ Get(t) \/ Send(t) \/ SendFails(t)
           \/ ReadReply(t) \/ ReadNext(t) \/ ReadBroken(t) \/ ReadTimedOut(t)

Environment == \/ \E n \in Nodes : Crash(n) \/ Restart(n) \/ Promote(n)
               \/ \E s \in DOMAIN view : Learn(s)
               \/ CalmDown

Next == Environment \/ \E t \in Tasks : Call(t) \/ Step(t)

Spec == Init /\ [][Next]_vars

\* The runtime polls every task, and a server that is up answers or the read
\* times out; a sentinel owes nothing.
FairSpec == Spec /\ \A t \in Tasks : WF_vars(pc[t] # "resolve" /\ Step(t))

\* Every sentinel that accepts a connection answers or closes it.
AnsweredSpec == FairSpec /\ \A t \in Tasks : WF_vars(Resolve(t))

-----------------------------------------------------------------------------
(* A command is executed once more only for each connection that broke between
   its write and its reply, and the commands of a pipeline are executed at most
   once: no failover and no READONLY repeats the effect of a command.  (Of
   behaviours in which no read times out: after one, a READONLY that comes late
   is taken for the answer to a command that has been executed.) *)
RepeatedOnlyIfBroken ==
  \A t \in Tasks : runs[t] <= IF kind[t] = "pipeline" THEN Batch ELSE 1 + broke[t]

(* No call returns the reply to another command. *)
OwnReplies == \A t \in Tasks : result[t] # "late"

(* "On connection failure or READONLY error, re-resolves the master and
   retries": a command succeeds if it begins when the master is up, all the
   sentinels name it, no earlier call is still failing over, and none has left
   a reply outstanding or a connection from before a restart in the pool. *)
CalmCallsSucceed ==
  \A t \in Tasks : calmCall[t] /\ kind[t] = "execute" /\ pc[t] = "idle" => result[t] # "error"

(* Every call returns, however often it fails over and whichever servers are
   gone, if the sentinels answer: AnsweredSpec.  resolve_master alone can hold a
   call for ever. *)
CallEnds == \A t \in Tasks : pc[t] # "idle" ~> pc[t] = "idle"

=============================================================================
