----------------------- MODULE SentinelRouterFailover -----------------------
(***************************************************************************)
(* Theorems about SentinelRouter for one call at a time, with every fault, *)
(* timeouts included: the pool follows the master, and a command that      *)
(* begins when all is calm succeeds.                                       *)
(***************************************************************************)
EXTENDS SentinelRouter, TLAPS

Conn == [node : Nodes, epoch : Nat, owed : Seq({"ok", "readonly"})]

Steps == {"idle", "resolve", "compare", "swap", "store", "get", "send", "read"}

SentinelTypeOK ==
  /\ master \in Nodes /\ up \in [Nodes -> BOOLEAN] /\ epoch \in [Nodes -> Nat]
  /\ view \in [1..SentinelCount -> Nodes]
  /\ paddr \in Seq(Nodes) /\ idle \in Seq(Seq(Conn)) /\ Len(idle) = Len(paddr)
  /\ pool \in 1..Len(paddr)
  /\ pc \in [Tasks -> Steps] /\ kind \in [Tasks -> {"execute", "pipeline"}]
  /\ resolved \in [Tasks -> Nodes]
  /\ held \in [Tasks -> 1..Len(paddr)] /\ conn \in [Tasks -> Conn \cup {NoConn}]
  /\ left \in [Tasks -> Nat] /\ runs \in [Tasks -> Nat] /\ broke \in [Tasks -> Nat]
  /\ result \in [Tasks -> {"none", "ok", "late", "error"}]

\* A connection was made in this life of its server or an earlier one.
Dated(c) == c.epoch <= epoch[c.node]

-----------------------------------------------------------------------------
LEMMA SequenceDomain ==
  ASSUME NEW S, NEW s \in Seq(S)
  PROVE  DOMAIN s = 1..Len(s)
OBVIOUS

(* What is in a pool is a connection. *)
LEMMA IdleTyped ==
  ASSUME SentinelTypeOK, NEW p \in 1..Len(idle)
  PROVE  idle[p] \in Seq(Conn) /\ \A i \in 1..Len(idle[p]) : idle[p][i] \in Conn
<1>1. idle[p] \in Seq(Conn)
  BY DEF SentinelTypeOK
<1> HIDE DEF Conn
<1> QED
  BY <1>1

(* A dead connection stays dead, whatever the servers do. *)
LEMMA DeadStaysDead ==
  ASSUME SentinelTypeOK, Environment, NEW c \in Conn, Dated(c)
  PROVE  Dated(c)' /\ (Alive(c)' => Alive(c))
<1>1. c.node \in Nodes /\ c.epoch \in Nat
  BY Zenon DEF Conn
<1>2. ASSUME NEW n \in Nodes, Crash(n)  PROVE Dated(c)' /\ (Alive(c)' => Alive(c))
  BY Zenon, <1>1, <1>2 DEF Crash, SentinelTypeOK, Dated, Alive
<1>3. ASSUME NEW n \in Nodes, Restart(n)  PROVE Dated(c)' /\ (Alive(c)' => Alive(c))
  <2>1. epoch[n] \in Nat /\ epoch'[n] = epoch[n] + 1
    BY Zenon, <1>3 DEF Restart, SentinelTypeOK
  <2>2. c.node # n => epoch'[c.node] = epoch[c.node] /\ up'[c.node] = up[c.node]
    BY Zenon, <1>1, <1>3 DEF Restart, SentinelTypeOK
  <2>3. c.epoch <= epoch[n] => c.epoch <= epoch[n] + 1 /\ c.epoch # epoch[n] + 1
    BY <1>1, <2>1
  <2>4. CASE c.node = n
    BY Zenon, <2>1, <2>3, <2>4 DEF Dated, Alive
  <2>5. CASE c.node # n
    BY Zenon, <2>2, <2>5 DEF Dated, Alive
  <2> QED
    BY Zenon, <2>4, <2>5
<1>4. ASSUME NEW n \in Nodes, Promote(n)  PROVE Dated(c)' /\ (Alive(c)' => Alive(c))
  BY Zenon, <1>4 DEF Promote, Dated, Alive
<1>5. ASSUME NEW s \in DOMAIN view, Learn(s)  PROVE Dated(c)' /\ (Alive(c)' => Alive(c))
  BY Zenon, <1>5 DEF Learn, Dated, Alive
<1>6. CalmDown => Dated(c)' /\ (Alive(c)' => Alive(c))
  BY Zenon DEF CalmDown, Dated, Alive
<1> QED
  BY Zenon, <1>2, <1>3, <1>4, <1>5, <1>6 DEF Environment

(* The servers' steps leave the router alone and keep the types. *)
LEMMA EnvironmentTypes ==
  ASSUME SentinelTypeOK, Environment
  PROVE  SentinelTypeOK' /\ UNCHANGED NotServers
<1>1. ASSUME NEW n \in Nodes, Crash(n)  PROVE SentinelTypeOK' /\ UNCHANGED NotServers
  BY Zenon, <1>1 DEF Crash, SentinelTypeOK, NotServers, router
<1>2. ASSUME NEW n \in Nodes, Restart(n)  PROVE SentinelTypeOK' /\ UNCHANGED NotServers
  <2>1. UNCHANGED <<master, view, faults, calm>> /\ UNCHANGED NotServers
    BY Zenon, <1>2 DEF Restart
  <2>2. epoch \in [Nodes -> Nat] /\ epoch' = [epoch EXCEPT ![n] = @ + 1]
    BY Zenon, <1>2 DEF Restart, SentinelTypeOK
  <2>3. epoch' \in [Nodes -> Nat]
    BY <2>2
  <2>4. up' \in [Nodes -> BOOLEAN]
    BY Zenon, <1>2 DEF Restart, SentinelTypeOK
  <2> QED
    BY Zenon, <2>1, <2>3, <2>4 DEF SentinelTypeOK, NotServers, router
<1>3. ASSUME NEW n \in Nodes, Promote(n)  PROVE SentinelTypeOK' /\ UNCHANGED NotServers
  BY Zenon, <1>3 DEF Promote, SentinelTypeOK, NotServers, router
<1>4. ASSUME NEW s \in DOMAIN view, Learn(s)  PROVE SentinelTypeOK' /\ UNCHANGED NotServers
  BY Zenon, <1>4 DEF Learn, SentinelTypeOK, NotServers, router
<1>5. CalmDown => SentinelTypeOK' /\ UNCHANGED NotServers
  BY Zenon DEF CalmDown, SentinelTypeOK, NotServers, router
<1> QED
  BY Zenon, <1>1, <1>2, <1>3, <1>4, <1>5 DEF Environment

(* A retry keeps the types and never yields a reply. *)
LEMMA RetryTyped ==
  ASSUME SentinelTypeOK, NEW t \in Tasks, Retry(t)
  PROVE  /\ pc' \in [Tasks -> Steps] /\ pc'[t] \in {"resolve", "idle"}
         /\ kind[t] = "pipeline" => pc'[t] = "idle"
         /\ result' \in [Tasks -> {"none", "ok", "late", "error"}]
         /\ result'[t] \in {result[t], "error"}
         /\ \A u \in Tasks \ {t} : pc'[u] = pc[u] /\ result'[u] = result[u]
BY ZenonT(20) DEF SentinelTypeOK, Retry, Steps

(* The types hold at the start. *)
LEMMA InitTypes ==
  ASSUME Init
  PROVE  SentinelTypeOK
<1>1. idle = <<<<>>>> /\ paddr = <<master>> /\ master \in Nodes /\ pool = 1
  BY Zenon DEF Init
<1>2. idle \in Seq(Seq(Conn)) /\ paddr \in Seq(Nodes) /\ Len(idle) = 1 /\ Len(paddr) = 1
  BY <1>1
<1>3. kind \in [Tasks -> {"execute", "pipeline"}]
  <2>1. kind \in [Tasks -> Kinds] /\ Kinds \subseteq {"execute", "pipeline"}
    BY Zenon, SentinelAssumption DEF Init
  <2> QED
    BY ONLY <2>1, Zenon
<1>4. held \in [Tasks -> 1..Len(paddr)]
  BY <1>2 DEF Init
<1> QED
  BY <1>1, <1>2, <1>3, <1>4 DEF Init, SentinelTypeOK, Steps

-----------------------------------------------------------------------------
(* A single task, with every fault, timeouts included. *)

\* The connection in use leads where its pool says and owes no less than this
\* call has to read, if it lives.
Backed(t) ==
  pc[t] \in {"send", "read"} =>
    /\ conn[t] \in Conn /\ Dated(conn[t]) /\ conn[t].node = paddr[held[t]]
    /\ Alive(conn[t]) => Len(conn[t].owed) >= left[t]
    /\ pc[t] = "read" => left[t] >= 1

\* A pool holds connections to its address.
PoolsLead ==
  \A p \in 1..Len(idle) : \A i \in 1..Len(idle[p]) : Dated(idle[p][i]) /\ idle[p][i].node = paddr[p]

LentInv(t) == SentinelTypeOK /\ PoolsLead /\ Backed(t)

Fresh(c)     == Alive(c) /\ c.node = master /\ c.owed = <<>>
Answering(c) == Alive(c) /\ c.node = master /\ c.owed = <<"ok">>

\* The pool leads to the master ...
Ready == paddr[pool] = master /\ \A i \in 1..Len(idle[pool]) : Fresh(idle[pool][i])

\* ... or to an earlier one, which the first attempt finds out.
Outdated(t) == attempt[t] = 0 /\ paddr[pool] # master

\* Where a command can be that began when all was calm.
OnCourse(t) ==
  /\ pc[t] = "get" => Ready \/ Outdated(t)
  /\ pc[t] = "send" => Fresh(conn[t]) \/ Outdated(t)
  /\ pc[t] = "read" => Answering(conn[t]) \/ Outdated(t)
  /\ pc[t] \in {"resolve", "compare"} => paddr[pool] # master
  /\ pc[t] \in {"compare", "swap"} => resolved[t] = master
  /\ pc[t] = "store" => Ready
  /\ pc[t] = "idle" => result[t] # "error"

CalmTypeOK == calm \in BOOLEAN /\ calmCall \in [Tasks -> BOOLEAN] /\ attempt \in [Tasks -> Nat]

CalmServers == calm => up[master] /\ \A s \in DOMAIN view : view[s] = master

PoolFollows(t) == paddr[pool] = IF pc[t] = "store" THEN resolved[t] ELSE addr

CalmInv(t) ==
  /\ CalmTypeOK /\ CalmServers /\ PoolFollows(t)
  /\ RetryCount # 0 /\ calmCall[t] /\ kind[t] = "execute" => calm /\ OnCourse(t)

-----------------------------------------------------------------------------
(* The task's connections, whatever fails *)

LEMMA LentEnvironment ==
  ASSUME NEW t \in Tasks, LentInv(t), Environment
  PROVE  LentInv(t)'
<1>1. SentinelTypeOK /\ SentinelTypeOK' /\ UNCHANGED NotServers
  BY Zenon, EnvironmentTypes DEF LentInv
<1>2. UNCHANGED <<paddr, idle, pc, held, conn, left>>
  BY Zenon, <1>1 DEF NotServers, router
<1>3. PoolsLead'
  <2> SUFFICES ASSUME NEW p \in 1..Len(idle), NEW i \in 1..Len(idle[p])
               PROVE  Dated(idle[p][i])' /\ idle[p][i].node = paddr[p]
    BY Zenon, <1>2 DEF PoolsLead
  <2>1. PICK c \in Conn : c = idle[p][i]
    BY Zenon, <1>1, IdleTyped
  <2>2. Dated(c) /\ c.node = paddr[p]
    BY Zenon, <2>1 DEF LentInv, PoolsLead
  <2>3. Dated(c)'
    BY Zenon, <1>1, <2>2, DeadStaysDead
  <2> QED
    BY Zenon, <1>2, <2>1, <2>2, <2>3 DEF Dated
<1>4. Backed(t)'
  <2>1. CASE pc[t] \notin {"send", "read"}
    BY Zenon, <1>2, <2>1 DEF Backed
  <2>2. CASE pc[t] \in {"send", "read"}
    <3>1. PICK c \in Conn : c = conn[t]
      BY Zenon, <2>2 DEF LentInv, Backed
    <3>2. Dated(c)
      BY Zenon, <2>2, <3>1 DEF LentInv, Backed
    <3>3. Dated(c)' /\ (Alive(c)' => Alive(c))
      BY Zenon, <1>1, <3>2, DeadStaysDead
    <3>4. Dated(conn[t])' /\ (Alive(conn[t])' => Alive(conn[t]))
      BY Zenon, <1>2, <3>1, <3>3 DEF Dated, Alive
    <3> QED
      BY Zenon, <1>2, <2>2, <3>4 DEF LentInv, Backed
  <2> QED
    BY Zenon, <2>1, <2>2
<1> QED
  BY Zenon, <1>1, <1>3, <1>4 DEF LentInv

(* The pool and the address change in a failover only. *)
LEMMA PoolStillFollows ==
  ASSUME NEW t \in Tasks, PoolFollows(t), pc[t] # "store", pc'[t] # "store", UNCHANGED <<paddr, pool, addr>>
  PROVE  PoolFollows(t)'
BY Zenon DEF PoolFollows

(* The start of a call and a failover use no connection. *)
LEMMA LentFailover ==
  ASSUME NEW t \in Tasks, LentInv(t), Call(t) \/ Resolve(t) \/ Compare(t) \/ SwapPool(t) \/ StoreAddr(t)
  PROVE  LentInv(t)'
<1> USE DEF router, servers
<1>1. SentinelTypeOK /\ PoolsLead
  BY Zenon DEF LentInv
<1>2. UNCHANGED <<servers, held, conn, left>>
  BY Zenon DEF Call, Resolve, Compare, SwapPool, StoreAddr
<1>3. /\ pc' \in [Tasks -> Steps] /\ pc'[t] \notin {"send", "read"}
      /\ result' \in [Tasks -> {"none", "ok", "late", "error"}]
  <2>1. CASE Call(t)
    BY Zenon, <1>1, <2>1 DEF Call, SentinelTypeOK, Steps
  <2>2. CASE Resolve(t)
    <3>1. CASE Retry(t)
      BY Zenon, <1>1, <3>1, RetryTyped
    <3>2. CASE pc' = [pc EXCEPT ![t] = "compare"] /\ UNCHANGED result
      BY Zenon, <1>1, <3>2 DEF SentinelTypeOK, Steps
    <3> QED
      BY Zenon, <2>2, <3>1, <3>2 DEF Resolve
  <2>3. CASE Compare(t) \/ SwapPool(t) \/ StoreAddr(t)
    BY Zenon, <1>1, <2>3 DEF Compare, SwapPool, StoreAddr, SentinelTypeOK, Steps
  <2> QED
    BY Zenon, <2>1, <2>2, <2>3
<1>4. /\ kind' \in [Tasks -> {"execute", "pipeline"}] /\ resolved' \in [Tasks -> Nodes]
      /\ runs' \in [Tasks -> Nat] /\ broke' \in [Tasks -> Nat]
  <2>1. CASE Call(t)
    <3>1. PICK k \in Kinds : kind' = [kind EXCEPT ![t] = k]
      BY Zenon, <2>1 DEF Call
    <3>2. k \in {"execute", "pipeline"}
      BY Zenon, SentinelAssumption
    <3>3. kind' \in [Tasks -> {"execute", "pipeline"}]
      BY Zenon, <1>1, <3>1, <3>2 DEF SentinelTypeOK
    <3>4. runs' \in [Tasks -> Nat] /\ broke' \in [Tasks -> Nat] /\ resolved' = resolved
      BY Zenon, <1>1, <2>1 DEF Call, SentinelTypeOK
    <3> QED
      BY Zenon, <1>1, <3>3, <3>4 DEF SentinelTypeOK
  <2>2. CASE Resolve(t)
    <3>1. resolved' = resolved \/ \E s \in DOMAIN view : resolved' = [resolved EXCEPT ![t] = view[s]]
      BY Zenon, <2>2 DEF Resolve
    <3>2. resolved' \in [Tasks -> Nodes]
      BY Zenon, <1>1, <3>1 DEF SentinelTypeOK
    <3> QED
      BY Zenon, <1>1, <2>2, <3>2 DEF Resolve, SentinelTypeOK
  <2>3. CASE Compare(t) \/ SwapPool(t) \/ StoreAddr(t)
    BY Zenon, <1>1, <2>3 DEF Compare, SwapPool, StoreAddr, SentinelTypeOK
  <2> QED
    BY Zenon, <2>1, <2>2, <2>3
<1>5. Backed(t)'
  BY Zenon, <1>3 DEF Backed
<1>6. SentinelTypeOK' /\ PoolsLead'
  <2>1. CASE UNCHANGED <<paddr, idle, pool>>
    BY Zenon, <1>1, <1>2, <1>3, <1>4, <2>1 DEF SentinelTypeOK, PoolsLead, Dated
  <2>2. CASE SwapPool(t)
    <3>1. /\ paddr \in Seq(Nodes) /\ idle \in Seq(Seq(Conn)) /\ Len(idle) = Len(paddr)
          /\ resolved[t] \in Nodes
      BY Zenon, <1>1 DEF SentinelTypeOK
    <3>2. paddr' = Append(paddr, resolved[t]) /\ idle' = Append(idle, <<>>) /\ pool' = Len(paddr) + 1
      BY Zenon, <2>2 DEF SwapPool
    <3>3. <<>> \in Seq(Conn)
      OBVIOUS
    <3>4. /\ paddr' \in Seq(Nodes) /\ Len(paddr') = Len(paddr) + 1
          /\ idle' \in Seq(Seq(Conn)) /\ Len(idle') = Len(idle) + 1
      BY <3>1, <3>2, <3>3
    <3>5. held' \in [Tasks -> 1..Len(paddr')] /\ pool' \in 1..Len(paddr')
      <4>1. held \in [Tasks -> 1..Len(paddr)] /\ held' = held /\ Len(paddr) \in Nat
        BY <1>1, <1>2, <3>1 DEF SentinelTypeOK
      <4>2. \A k \in 1..Len(paddr) : k \in 1..Len(paddr')
        BY <3>4, <4>1
      <4> QED
        BY <3>2, <3>4, <4>1, <4>2
    <3>6. SentinelTypeOK'
      BY Zenon, <1>1, <1>2, <1>3, <1>4, <3>1, <3>4, <3>5 DEF SentinelTypeOK
    <3>7. ASSUME NEW p \in 1..Len(idle'), NEW i \in 1..Len(idle'[p])
          PROVE  Dated(idle'[p][i]) /\ idle'[p][i].node = paddr'[p]
      <4>1. p \in 1..Len(idle) /\ idle'[p] = idle[p] /\ paddr'[p] = paddr[p]
        BY <3>1, <3>2, <3>4
      <4> QED
        BY Zenon, <1>1, <4>1 DEF PoolsLead
    <3> QED
      BY Zenon, <1>2, <3>6, <3>7 DEF PoolsLead, Dated
  <2> QED
    BY Zenon, <2>1, <2>2 DEF Call, Resolve, Compare, StoreAddr
<1> QED
  BY Zenon, <1>5, <1>6 DEF LentInv

(* A connection given back to the pool it was made for. *)
LEMMA GiveBackLeads ==
  ASSUME SentinelTypeOK, PoolsLead, UNCHANGED <<servers, paddr>>,
         NEW t \in Tasks, NEW c \in Conn, Dated(c), c.node = paddr[held[t]], GiveBack(t, c)
  PROVE  /\ PoolsLead'
         /\ idle' \in Seq(Seq(Conn)) /\ Len(idle') = Len(paddr')
         /\ conn' \in [Tasks -> Conn \cup {NoConn}]
<1>1. held[t] \in 1..Len(idle) /\ idle \in Seq(Seq(Conn)) /\ Len(idle) = Len(paddr)
  BY Zenon DEF SentinelTypeOK
<1>2. idle' = [idle EXCEPT ![held[t]] = Append(idle[held[t]], c)]
  BY Zenon DEF GiveBack
<1>3. idle[held[t]] \in Seq(Conn)
  BY Zenon, <1>1, IdleTyped
<1>4. Append(idle[held[t]], c) \in Seq(Conn)
  BY <1>3
<1>5. idle' \in Seq(Seq(Conn)) /\ Len(idle') = Len(idle)
  BY <1>1, <1>2, <1>4
<1>6. PoolsLead'
  <2> SUFFICES ASSUME NEW p \in 1..Len(idle'), NEW i \in 1..Len(idle'[p])
               PROVE  Dated(idle'[p][i]) /\ idle'[p][i].node = paddr[p]
    BY Zenon DEF PoolsLead, Dated, servers
  <2>1. CASE p # held[t]
    BY SMTT(20), <1>1, <1>2, <1>5, <2>1 DEF PoolsLead
  <2>2. CASE p = held[t]
    <3>1. idle'[p] = Append(idle[p], c)
      BY SMTT(20), <1>1, <1>2, <2>2
    <3>2. CASE i = Len(idle[p]) + 1
      BY <1>3, <2>2, <3>1, <3>2
    <3>3. CASE i \in 1..Len(idle[p])
      <4>1. idle'[p][i] = idle[p][i]
        BY <1>3, <2>2, <3>1, <3>3
      <4> QED
        BY Zenon, <1>1, <1>5, <3>3, <4>1 DEF PoolsLead
    <3> QED
      BY <1>3, <2>2, <3>1, <3>2, <3>3
  <2> QED
    BY Zenon, <2>1, <2>2
<1>7. conn' \in [Tasks -> Conn \cup {NoConn}]
  BY Zenon DEF GiveBack, SentinelTypeOK
<1> QED
  BY Zenon, <1>1, <1>5, <1>6, <1>7

LEMMA LentGet ==
  ASSUME NEW t \in Tasks, LentInv(t), Get(t)
  PROVE  LentInv(t)'
<1> USE DEF servers
<1> DEFINE last == Len(idle[pool])
           node == paddr[pool]
<1>1. SentinelTypeOK /\ PoolsLead
  BY Zenon DEF LentInv
<1>2. /\ pool \in 1..Len(idle) /\ node \in Nodes /\ idle[pool] \in Seq(Conn)
      /\ idle \in Seq(Seq(Conn)) /\ Len(idle) = Len(paddr) /\ last \in Nat
  <2>1. /\ pool \in 1..Len(idle) /\ node \in Nodes
        /\ idle \in Seq(Seq(Conn)) /\ Len(idle) = Len(paddr)
    BY <1>1 DEF SentinelTypeOK
  <2>2. idle[pool] \in Seq(Conn)
    BY Zenon, <1>1, <2>1, IdleTyped
  <2> HIDE DEF node
  <2> QED
    BY <2>1, <2>2
<1>3. /\ pc[t] = "get" /\ left' = [left EXCEPT ![t] = 0]
      /\ UNCHANGED <<servers, paddr, pool, kind, resolved, runs, broke>>
  BY Zenon DEF Get
<1>4. left' \in [Tasks -> Nat] /\ left'[t] = 0
  BY Zenon, <1>1, <1>3 DEF SentinelTypeOK
<1>5. ASSUME NEW c \in Conn, Dated(c), c.node = node, conn' = [conn EXCEPT ![t] = c],
             held' = [held EXCEPT ![t] = pool], pc' = [pc EXCEPT ![t] = "send"],
             UNCHANGED result, idle' \in Seq(Seq(Conn)), Len(idle') = Len(idle), PoolsLead'
      PROVE  LentInv(t)'
  <2>1. SentinelTypeOK'
    BY Zenon, <1>1, <1>2, <1>3, <1>4, <1>5 DEF SentinelTypeOK, Steps
  <2>2. conn'[t] = c /\ pc'[t] = "send" /\ held'[t] = pool
    BY Zenon, <1>1, <1>5 DEF SentinelTypeOK
  <2>3. Len(c.owed) \in Nat
    BY DEF Conn
  <2>4. Backed(t)'
    BY <1>3, <1>4, <1>5, <2>2, <2>3 DEF Backed, Dated, Alive
  <2> QED
    BY Zenon, <1>5, <2>1, <2>4 DEF LentInv
<1>6. CASE last > 0
  <2>1. /\ conn' = [conn EXCEPT ![t] = idle[pool][last]]
        /\ idle' = [idle EXCEPT ![pool] = SubSeq(idle[pool], 1, last - 1)]
        /\ held' = [held EXCEPT ![t] = pool] /\ pc' = [pc EXCEPT ![t] = "send"] /\ UNCHANGED result
    BY Zenon, <1>6 DEF Get
  <2>2. last \in 1..Len(idle[pool])
    BY <1>2, <1>6
  <2>3. idle[pool][last] \in Conn /\ Dated(idle[pool][last]) /\ idle[pool][last].node = node
    BY Zenon, <1>1, <1>2, <2>2, IdleTyped DEF PoolsLead
  <2>4. /\ SubSeq(idle[pool], 1, last - 1) \in Seq(Conn)
        /\ Len(SubSeq(idle[pool], 1, last - 1)) = last - 1
        /\ \A i \in 1..last - 1 : SubSeq(idle[pool], 1, last - 1)[i] = idle[pool][i]
    BY <1>2, <1>6
  <2>5. idle' \in Seq(Seq(Conn)) /\ Len(idle') = Len(idle)
    BY <1>2, <2>1, <2>4
  <2>6. ASSUME NEW p \in 1..Len(idle), NEW i \in 1..Len(idle'[p])
        PROVE  Dated(idle'[p][i]) /\ idle'[p][i].node = paddr[p]
    <3>1. CASE p # pool
      BY <1>1, <1>2, <2>1, <3>1 DEF PoolsLead
    <3>2. CASE p = pool
      <4>1. i \in 1..last - 1 /\ idle'[p][i] = idle[pool][i]
        BY <1>2, <2>1, <2>4, <3>2
      <4>2. i \in 1..Len(idle[pool])
        BY <1>2, <4>1
      <4> QED
        BY Zenon, <1>1, <1>2, <3>2, <4>1, <4>2 DEF PoolsLead
    <3> QED
      BY Zenon, <3>1, <3>2
  <2>7. PoolsLead'
    BY Zenon, <1>3, <2>5, <2>6 DEF PoolsLead, Dated
  <2> QED
    BY Zenon, <1>5, <2>1, <2>3, <2>5, <2>7
<1>7. CASE ~(last > 0) /\ up[node]
  <2> DEFINE c == [node |-> node, epoch |-> epoch[node], owed |-> <<>>]
  <2>1. /\ conn' = [conn EXCEPT ![t] = c] /\ idle' = idle
        /\ held' = [held EXCEPT ![t] = pool] /\ pc' = [pc EXCEPT ![t] = "send"] /\ UNCHANGED result
    BY Zenon, <1>7 DEF Get
  <2>2. epoch[node] \in Nat
    BY Zenon, <1>1, <1>2 DEF SentinelTypeOK
  <2>3. c \in Conn /\ c.node = node
    BY <1>2, <2>2 DEF Conn
  <2>4. Dated(c)
    BY <2>2 DEF Dated
  <2>5. PoolsLead'
    BY Zenon, <1>1, <1>3, <2>1 DEF PoolsLead, Dated
  <2> HIDE DEF c
  <2> QED
    BY Zenon, <1>2, <1>5, <2>1, <2>3, <2>4, <2>5
<1>8. CASE ~(last > 0) /\ ~up[node]
  <2>1. Retry(t) /\ UNCHANGED <<idle, held, conn>>
    BY Zenon, <1>8 DEF Get
  <2>2. SentinelTypeOK'
    BY Zenon, <1>1, <1>3, <1>4, <2>1, RetryTyped DEF SentinelTypeOK
  <2>3. PoolsLead' /\ Backed(t)'
    BY Zenon, <1>1, <1>3, <2>1, RetryTyped DEF PoolsLead, Backed, Dated
  <2> QED
    BY Zenon, <2>2, <2>3 DEF LentInv
<1> QED
  BY Zenon, <1>6, <1>7, <1>8

LEMMA LentSend ==
  ASSUME NEW t \in Tasks, LentInv(t), Send(t)
  PROVE  LentInv(t)'
<1> USE DEF servers, router
<1> DEFINE answer == IF conn[t].node = master THEN "ok" ELSE "readonly"
<1>1. SentinelTypeOK /\ PoolsLead /\ Backed(t)
  BY Zenon DEF LentInv
<1>2. /\ pc[t] = "send" /\ left' = [left EXCEPT ![t] = left[t] + 1]
      /\ pc' = [pc EXCEPT ![t] = IF left[t] + 1 < Size(t) THEN "send" ELSE "read"]
      /\ UNCHANGED <<servers, router, kind, resolved, held, result, broke>>
  BY Zenon DEF Send
<1>3. /\ conn[t] \in Conn /\ Dated(conn[t]) /\ conn[t].node = paddr[held[t]]
      /\ Alive(conn[t]) => Len(conn[t].owed) >= left[t]
  BY Zenon, <1>1, <1>2 DEF Backed
<1>4. left[t] \in Nat /\ runs[t] \in Nat
  BY Zenon, <1>1 DEF SentinelTypeOK
<1>5. left' \in [Tasks -> Nat] /\ left'[t] = left[t] + 1 /\ pc' \in [Tasks -> Steps]
  BY SMTT(30), <1>1, <1>2, <1>4 DEF SentinelTypeOK, Steps
<1>6. PoolsLead'
  BY Zenon, <1>1, <1>2 DEF PoolsLead, Dated
<1>7. CASE Alive(conn[t])
  <2> DEFINE c == [conn[t] EXCEPT !.owed = Append(conn[t].owed, answer)]
  <2>1. conn' = [conn EXCEPT ![t] = c] /\ runs' = [runs EXCEPT ![t] = IF answer = "ok" THEN runs[t] + 1 ELSE runs[t]]
    BY Zenon, <1>7 DEF Send
  <2>2. /\ c \in Conn /\ c.node = conn[t].node /\ c.epoch = conn[t].epoch
        /\ c.owed = Append(conn[t].owed, answer)
    <3>1. conn[t].owed \in Seq({"ok", "readonly"}) /\ answer \in {"ok", "readonly"}
      BY Zenon, <1>3 DEF Conn
    <3>2. Append(conn[t].owed, answer) \in Seq({"ok", "readonly"})
      BY <3>1
    <3> HIDE DEF answer
    <3> QED
      BY Zenon, <1>3, <3>2 DEF Conn
  <2>3. conn[t].owed \in Seq({"ok", "readonly"})
    BY Zenon, <1>3 DEF Conn
  <2>4. Len(c.owed) >= left[t] + 1
    BY <1>3, <1>4, <1>7, <2>2, <2>3
  <2> HIDE DEF c
  <2>5. conn' \in [Tasks -> Conn \cup {NoConn}] /\ conn'[t] = c
    BY Zenon, <1>1, <2>1, <2>2 DEF SentinelTypeOK
  <2>6. runs' \in [Tasks -> Nat]
    BY SMTT(20), <1>1, <1>4, <2>1 DEF SentinelTypeOK
  <2>7. SentinelTypeOK'
    BY Zenon, <1>1, <1>2, <1>5, <2>5, <2>6 DEF SentinelTypeOK
  <2>8. Dated(conn[t])'
    BY ZenonT(30), <1>2, <1>3, <2>2, <2>5 DEF Dated
  <2>9. Backed(t)'
    BY <1>2, <1>3, <1>4, <1>5, <2>2, <2>4, <2>5, <2>8 DEF Backed
  <2> QED
    BY Zenon, <1>6, <2>7, <2>9 DEF LentInv
<1>8. CASE ~Alive(conn[t])
  <2>1. conn' = conn /\ runs' = runs
    BY Zenon, <1>8 DEF Send
  <2>2. ~Alive(conn[t])' /\ Dated(conn[t])'
    BY Zenon, <1>2, <1>3, <1>8, <2>1 DEF Alive, Dated
  <2>3. Backed(t)'
    BY <1>2, <1>3, <1>4, <1>5, <2>1, <2>2 DEF Backed
  <2>4. SentinelTypeOK'
    BY Zenon, <1>1, <1>2, <1>5, <2>1 DEF SentinelTypeOK
  <2> QED
    BY Zenon, <1>6, <2>3, <2>4 DEF LentInv
<1> QED
  BY Zenon, <1>7, <1>8

(* The end of an attempt, however it ends. *)
LEMMA LentAttemptEnds ==
  ASSUME NEW t \in Tasks, LentInv(t), NEW c \in Conn, Dated(c), c.node = paddr[held[t]], GiveBack(t, c),
         UNCHANGED <<servers, paddr, pool, kind, resolved, held, runs>>,
         pc' \in [Tasks -> Steps], pc'[t] \in {"resolve", "idle"},
         left' \in [Tasks -> Nat], broke' \in [Tasks -> Nat],
         result' \in [Tasks -> {"none", "ok", "late", "error"}]
  PROVE  LentInv(t)'
<1>1. SentinelTypeOK /\ PoolsLead
  BY Zenon DEF LentInv
<1>2. /\ PoolsLead' /\ idle' \in Seq(Seq(Conn)) /\ Len(idle') = Len(paddr')
      /\ conn' \in [Tasks -> Conn \cup {NoConn}]
  BY ZenonT(30), <1>1, GiveBackLeads
<1>3. SentinelTypeOK'
  BY Zenon, <1>1, <1>2 DEF SentinelTypeOK, servers
<1>4. Backed(t)'
  BY Zenon DEF Backed
<1> QED
  BY Zenon, <1>2, <1>3, <1>4 DEF LentInv

LEMMA LentBroken ==
  ASSUME NEW t \in Tasks, LentInv(t), SendFails(t) \/ ReadBroken(t) \/ ReadTimedOut(t)
  PROVE  LentInv(t)'
<1>1. SentinelTypeOK /\ Backed(t)
  BY Zenon DEF LentInv
<1>2. /\ pc[t] \in {"send", "read"} /\ GiveBack(t, conn[t])
      /\ UNCHANGED <<servers, paddr, pool, kind, resolved, held, left, runs>>
  BY Zenon DEF SendFails, ReadBroken, ReadTimedOut
<1>3. PICK c \in Conn : c = conn[t]
  BY ZenonT(30), <1>1, <1>2 DEF Backed
<1>4. Dated(c) /\ c.node = paddr[held[t]] /\ GiveBack(t, c)
  BY Zenon, <1>1, <1>2, <1>3 DEF Backed
<1>5. broke' \in [Tasks -> Nat] /\ left' \in [Tasks -> Nat]
  <2>1. broke \in [Tasks -> Nat] /\ broke[t] + 1 \in Nat /\ left \in [Tasks -> Nat]
    BY SMTT(20), <1>1 DEF SentinelTypeOK
  <2> QED
    BY Zenon, <1>2, <2>1 DEF SendFails, ReadBroken, ReadTimedOut
<1>6. /\ pc' \in [Tasks -> Steps] /\ pc'[t] \in {"resolve", "idle"}
      /\ result' \in [Tasks -> {"none", "ok", "late", "error"}]
  <2>1. CASE Retry(t)
    BY Zenon, <1>1, <2>1, RetryTyped
  <2>2. CASE ReadTimedOut(t)
    BY Zenon, <1>1, <2>2 DEF ReadTimedOut, SentinelTypeOK, Steps
  <2> QED
    BY Zenon, <2>1, <2>2 DEF SendFails, ReadBroken
<1> QED
  BY Zenon, <1>2, <1>4, <1>5, <1>6, LentAttemptEnds

\* What a reply leaves of the connection it is read from.
LEMMA LentRest ==
  ASSUME NEW t \in Tasks, LentInv(t), pc[t] = "read", Alive(conn[t])
  PROVE  LET rest == [conn[t] EXCEPT !.owed = Tail(@)]
         IN /\ rest \in Conn /\ Dated(rest)
            /\ rest.node = paddr[held[t]] /\ rest.epoch = conn[t].epoch
            /\ Len(rest.owed) >= left[t] - 1 /\ left[t] \in Nat /\ left[t] >= 1
<1>1. /\ conn[t] \in Conn /\ Dated(conn[t]) /\ Len(conn[t].owed) >= left[t] /\ left[t] >= 1
      /\ conn[t].node = paddr[held[t]]
  BY Zenon DEF LentInv, Backed
<1>2. left[t] \in Nat
  BY Zenon DEF LentInv, SentinelTypeOK
<1>3. PICK c \in Conn : c = conn[t]
  BY Zenon, <1>1
<1> DEFINE rest == [c EXCEPT !.owed = Tail(c.owed)]
<1>4. c.owed \in Seq({"ok", "readonly"}) /\ c.owed # <<>>
  BY <1>1, <1>2, <1>3 DEF Conn
<1>5. Tail(c.owed) \in Seq({"ok", "readonly"}) /\ Len(Tail(c.owed)) = Len(c.owed) - 1
  BY <1>4
<1>6. rest \in Conn /\ rest.node = c.node /\ rest.epoch = c.epoch /\ rest.owed = Tail(c.owed)
  <2>1. c \in [node : Nodes, epoch : Nat, owed : Seq({"ok", "readonly"})]
    BY Zenon DEF Conn
  <2> QED
    BY Zenon, <1>5, <2>1 DEF Conn
<1>7. Len(c.owed) \in Nat /\ Len(c.owed) >= left[t]
  BY <1>1, <1>3, <1>4
<1>8. Len(rest.owed) >= left[t] - 1 /\ Dated(rest)
  BY <1>1, <1>2, <1>3, <1>5, <1>6, <1>7 DEF Dated
<1> QED
  BY Zenon, <1>1, <1>2, <1>3, <1>6, <1>8

LEMMA LentRead ==
  ASSUME NEW t \in Tasks, LentInv(t), ReadReply(t) \/ ReadNext(t)
  PROVE  LentInv(t)'
<1> DEFINE rest == [conn[t] EXCEPT !.owed = Tail(@)]
<1>1. SentinelTypeOK /\ PoolsLead
  BY Zenon DEF LentInv
<1>2. /\ pc[t] = "read" /\ Alive(conn[t])
      /\ UNCHANGED <<servers, paddr, pool, kind, resolved, held, runs, broke>>
      /\ left' = left \/ left' = [left EXCEPT ![t] = left[t] - 1]
  BY Zenon DEF ReadReply, ReadNext
<1>3. /\ rest \in Conn /\ Dated(rest) /\ rest.node = paddr[held[t]]
      /\ Len(rest.owed) >= left[t] - 1 /\ left[t] \in Nat /\ left[t] >= 1
  BY Zenon, <1>2, LentRest
<1> HIDE DEF rest
<1>4. left' \in [Tasks -> Nat] /\ broke' \in [Tasks -> Nat]
  <2>1. left[t] - 1 \in Nat
    BY <1>3
  <2> QED
    BY ZenonT(40), <1>1, <1>2, <2>1 DEF SentinelTypeOK
<1>5. CASE GiveBack(t, rest)
  <2>1. /\ pc' \in [Tasks -> Steps] /\ pc'[t] \in {"resolve", "idle"}
        /\ result' \in [Tasks -> {"none", "ok", "late", "error"}]
    <3>1. CASE Retry(t)
      BY Zenon, <1>1, <3>1, RetryTyped
    <3>2. CASE /\ pc' = [pc EXCEPT ![t] = "idle"]
               /\ result' = [result EXCEPT ![t] = IF Late(t) THEN "late" ELSE "ok"]
      BY Zenon, <1>1, <3>2 DEF SentinelTypeOK, Steps
    <3>3. CASE conn' = [conn EXCEPT ![t] = rest]
      <4>1. conn'[t] = rest /\ conn'[t] = NoConn
        BY Zenon, <1>1, <1>5, <3>3 DEF GiveBack, SentinelTypeOK
      <4> QED
        BY <1>3, <4>1 DEF Conn, NoConn
    <3> QED
      BY Zenon, <3>1, <3>2, <3>3 DEF ReadReply, ReadNext, rest
  <2> QED
    BY Zenon, <1>2, <1>3, <1>4, <1>5, <2>1, LentAttemptEnds
<1>6. CASE ~GiveBack(t, rest)
  <2>1. /\ left[t] # 1 /\ left' = [left EXCEPT ![t] = left[t] - 1]
        /\ conn' = [conn EXCEPT ![t] = rest] /\ UNCHANGED <<idle, result, pc>>
    BY Zenon, <1>6 DEF ReadReply, ReadNext, rest
  <2>2. conn' \in [Tasks -> Conn \cup {NoConn}] /\ conn'[t] = rest /\ left'[t] = left[t] - 1
    BY Zenon, <1>1, <1>3, <2>1 DEF SentinelTypeOK
  <2>3. SentinelTypeOK'
    BY Zenon, <1>1, <1>2, <1>4, <2>1, <2>2 DEF SentinelTypeOK, servers
  <2>4. PoolsLead'
    BY ZenonT(30), <1>1, <1>2, <2>1 DEF PoolsLead, Dated, servers
  <2>5. Dated(conn[t])'
    BY Zenon, <1>2, <1>3, <2>2 DEF Dated, servers
  <2>6. Backed(t)'
    BY <1>2, <1>3, <2>1, <2>2, <2>5 DEF Backed
  <2> QED
    BY Zenon, <2>3, <2>4, <2>6 DEF LentInv
<1> QED
  BY Zenon, <1>5, <1>6

-----------------------------------------------------------------------------
(* A command that begins when all is calm *)

\* The steps that only count attempts keep the types and the servers.
LEMMA CalmKept ==
  ASSUME NEW t \in Tasks, LentInv(t), CalmInv(t), Call(t) \/ Step(t)
  PROVE  CalmTypeOK' /\ CalmServers' /\ UNCHANGED servers
<1> USE DEF servers
<1>1. UNCHANGED servers
  BY Zenon DEF Call, Step, Resolve, Compare, SwapPool, StoreAddr, Get, Send, SendFails, ReadReply, ReadNext,
         ReadBroken, ReadTimedOut
<1>2. CalmServers'
  BY Zenon, <1>1 DEF CalmInv, CalmServers
<1>3. calm \in BOOLEAN /\ calmCall \in [Tasks -> BOOLEAN] /\ attempt \in [Tasks -> Nat]
  BY Zenon DEF CalmInv, CalmTypeOK
<1>4. attempt' \in [Tasks -> Nat]
  <2>1. CASE Retry(t) \/ UNCHANGED attempt
    <3>1. attempt[t] + 1 \in Nat
      BY <1>3
    <3> QED
      BY Zenon, <1>3, <2>1, <3>1 DEF Retry
  <2>2. CASE Call(t)
    BY Zenon, <1>3, <2>2 DEF Call
  <2> QED
    BY Zenon, <2>1, <2>2 DEF Step, Resolve, Compare, SwapPool, StoreAddr, Get, Send, SendFails, ReadReply,
         ReadNext, ReadBroken, ReadTimedOut
<1>5. calmCall' \in [Tasks -> BOOLEAN]
  <2>1. CASE Call(t)
    BY Zenon, <1>3, <2>1 DEF Call
  <2>2. CASE Step(t)
    BY Zenon, <1>3, <2>2 DEF Step, Resolve, Compare, SwapPool, StoreAddr, Get, Send, SendFails, ReadReply,
         ReadNext, ReadBroken, ReadTimedOut
  <2> QED
    BY Zenon, <2>1, <2>2
<1> QED
  BY Zenon, <1>1, <1>2, <1>3, <1>4, <1>5 DEF CalmTypeOK

(* When all is calm no server takes a step. *)
LEMMA CalmEnvironment ==
  ASSUME NEW t \in Tasks, LentInv(t), CalmInv(t), Environment
  PROVE  CalmInv(t)'
<1>1. UNCHANGED NotServers /\ SentinelTypeOK
  BY Zenon, EnvironmentTypes DEF LentInv
<1>2. UNCHANGED <<paddr, pool, addr, pc, kind, attempt, resolved, calmCall>>
  BY Zenon, <1>1 DEF NotServers, router
<1>3. PoolFollows(t)'
  BY Zenon, <1>2 DEF CalmInv, PoolFollows
<1>4. ~calm
  BY Zenon DEF CalmInv, CalmServers, Environment, Crash, Restart, Promote, Learn, CalmDown, Fault
<1>5. ~(RetryCount # 0 /\ calmCall[t] /\ kind[t] = "execute")'
  BY Zenon, <1>2, <1>4 DEF CalmInv
<1>6. calm' \in BOOLEAN /\ CalmServers'
  <2>1. CASE CalmDown
    BY Zenon, <2>1 DEF CalmDown, CalmServers
  <2>2. CASE calm' = calm
    BY Zenon, <1>4, <2>2 DEF CalmInv, CalmTypeOK, CalmServers
  <2> QED
    BY Zenon, <2>1, <2>2 DEF Environment, Crash, Restart, Promote, Learn
<1> QED
  BY Zenon, <1>2, <1>3, <1>5, <1>6 DEF CalmInv, CalmTypeOK

LEMMA CalmCall ==
  ASSUME NEW t \in Tasks, LentInv(t), CalmInv(t), Call(t)
  PROVE  CalmInv(t)'
<1>1. CalmTypeOK' /\ CalmServers' /\ UNCHANGED servers
  BY Zenon, CalmKept
<1>2. SentinelTypeOK /\ PoolsLead /\ CalmTypeOK
  BY Zenon DEF LentInv, CalmInv
<1>3. /\ pc[t] = "idle" /\ pc'[t] = "get" /\ attempt'[t] = 0
      /\ UNCHANGED <<paddr, idle, pool, addr, resolved, conn>>
  BY Zenon, <1>2 DEF Call, SentinelTypeOK, CalmTypeOK, router
<1>4. PoolFollows(t)'
  BY Zenon, <1>3 DEF CalmInv, PoolFollows
<1>5. ASSUME calmCall'[t]  PROVE calm' /\ OnCourse(t)'
  <2>1. calm /\ CleanPool
    BY Zenon, <1>2, <1>5 DEF Call, CalmTypeOK
  <2>2. calm' = calm /\ master' = master
    BY Zenon, <1>1 DEF servers
  <2>3. CASE paddr[pool] # master
    BY Zenon, <1>3, <2>1, <2>2, <2>3 DEF OnCourse, Outdated
  <2>4. CASE paddr[pool] = master
    <3>1. ASSUME NEW i \in 1..Len(idle[pool])  PROVE Fresh(idle[pool][i])
      <4>1. pool \in 1..Len(idle) /\ idle[pool] \in Seq(Conn)
        <5>1. pool \in 1..Len(idle)
          BY Zenon, <1>2 DEF SentinelTypeOK
        <5> QED
          BY Zenon, <1>2, <5>1, IdleTyped
      <4>2. idle[pool][i].node = master
        BY Zenon, <1>2, <2>4, <4>1 DEF PoolsLead
      <4>3. i \in DOMAIN idle[pool]
        BY Zenon, <4>1, SequenceDomain
      <4> QED
        BY Zenon, <2>1, <4>2, <4>3 DEF CleanPool, Fresh
    <3>2. Ready'
      BY Zenon, <1>1, <1>3, <2>4, <3>1 DEF Ready, Fresh, Alive, servers
    <3> QED
      BY Zenon, <1>3, <2>1, <2>2, <3>2 DEF OnCourse
  <2> QED
    BY Zenon, <2>3, <2>4
<1> QED
  BY Zenon, <1>1, <1>4, <1>5 DEF CalmInv

(* A failed attempt on an earlier master's pool is followed by a failover. *)
LEMMA RetryOnCourse ==
  ASSUME RetryCount # 0, NEW t \in Tasks, LentInv(t), kind[t] = "execute", Outdated(t), Retry(t),
         UNCHANGED <<servers, paddr, pool>>
  PROVE  OnCourse(t)'
<1>1. attempt[t] = 0 /\ attempt[t] < RetryCount /\ paddr[pool] # master
  BY SentinelAssumption DEF Outdated
<1>2. pc'[t] = "resolve"
  BY Zenon, <1>1 DEF Retry, LentInv, SentinelTypeOK
<1>3. paddr'[pool'] # master'
  BY Zenon, <1>1 DEF servers
<1> QED
  BY Zenon, <1>2, <1>3 DEF OnCourse

LEMMA CalmFailover ==
  ASSUME NEW t \in Tasks, LentInv(t), CalmInv(t), Resolve(t) \/ Compare(t) \/ SwapPool(t) \/ StoreAddr(t)
  PROVE  CalmInv(t)'
<1> DEFINE Mine == RetryCount # 0 /\ calmCall[t] /\ kind[t] = "execute"
<1>1. CalmTypeOK' /\ CalmServers' /\ UNCHANGED servers
  BY Zenon, CalmKept DEF Step
<1>2. SentinelTypeOK /\ PoolFollows(t) /\ (Mine => calm /\ OnCourse(t))
  BY Zenon DEF LentInv, CalmInv
<1>3. /\ UNCHANGED <<master, calm, calmCall, kind>>
      /\ up' = up /\ epoch' = epoch
  BY Zenon, <1>1 DEF servers, Resolve, Compare, SwapPool, StoreAddr
\* What is left to show of each step.
<1>4. ASSUME PoolFollows(t)', Mine => OnCourse(t)'  PROVE CalmInv(t)'
  BY Zenon, <1>1, <1>2, <1>3, <1>4 DEF CalmInv
<1>5. CASE Resolve(t)
  <2>1. pc[t] = "resolve" /\ UNCHANGED <<paddr, pool, addr>>
    BY Zenon, <1>5 DEF Resolve, router
  <2>2. pc'[t] # "store"
    <3>1. CASE Retry(t)
      BY Zenon, <1>2, <3>1, RetryTyped
    <3>2. CASE pc' = [pc EXCEPT ![t] = "compare"]
      BY Zenon, <1>2, <3>2 DEF SentinelTypeOK
    <3> QED
      BY Zenon, <1>5, <3>1, <3>2 DEF Resolve
  <2>3. PoolFollows(t)'
    BY Zenon, <1>2, <2>1, <2>2, PoolStillFollows
  <2>4. ASSUME Mine  PROVE OnCourse(t)'
    <3>1. calm /\ paddr[pool] # master
      BY Zenon, <1>2, <2>1, <2>4 DEF OnCourse
    <3>2. PICK s \in DOMAIN view : resolved' = [resolved EXCEPT ![t] = view[s]] /\ pc' = [pc EXCEPT ![t] = "compare"]
      BY Zenon, <1>5, <3>1 DEF Resolve
    <3>3. view[s] = master
      BY Zenon, <3>1 DEF CalmInv, CalmServers
    <3>4. resolved'[t] = master /\ pc'[t] = "compare"
      BY Zenon, <1>2, <3>2, <3>3 DEF SentinelTypeOK
    <3> QED
      BY Zenon, <1>3, <2>1, <3>1, <3>4 DEF OnCourse
  <2> QED
    BY Zenon, <1>4, <2>3, <2>4
<1>6. CASE Compare(t)
  <2>1. /\ pc[t] = "compare" /\ UNCHANGED <<paddr, pool, addr, resolved>>
        /\ pc'[t] = IF resolved[t] # addr THEN "swap" ELSE "get"
    BY Zenon, <1>2, <1>6 DEF Compare, router, SentinelTypeOK
  <2>2. PoolFollows(t)'
    BY Zenon, <1>2, <2>1, PoolStillFollows
  <2>3. ASSUME Mine  PROVE OnCourse(t)'
    <3>1. resolved[t] = master /\ paddr[pool] # master /\ paddr[pool] = addr
      BY Zenon, <1>2, <2>1, <2>3 DEF OnCourse, PoolFollows
    <3> QED
      BY Zenon, <1>3, <2>1, <3>1 DEF OnCourse
  <2> QED
    BY Zenon, <1>4, <2>2, <2>3
<1>7. CASE SwapPool(t)
  <2>1. /\ pc[t] = "swap" /\ resolved' = resolved /\ pc'[t] = "store" /\ pool' = Len(paddr) + 1
        /\ paddr' = Append(paddr, resolved[t]) /\ idle' = Append(idle, <<>>)
    BY Zenon, <1>2, <1>7 DEF SwapPool, SentinelTypeOK
  <2>2. paddr \in Seq(Nodes) /\ idle \in Seq(Seq(Conn)) /\ Len(idle) = Len(paddr) /\ resolved[t] \in Nodes
    BY Zenon, <1>2 DEF SentinelTypeOK
  <2>3. paddr'[pool'] = resolved[t]
    BY <2>1, <2>2
  <2>4. idle'[pool'] = <<>>
    BY <2>1, <2>2
  <2>5. PoolFollows(t)'
    BY Zenon, <2>1, <2>3 DEF PoolFollows
  <2>6. ASSUME Mine  PROVE OnCourse(t)'
    <3>1. resolved[t] = master
      BY Zenon, <1>2, <2>1, <2>6 DEF OnCourse
    <3>2. Ready'
      BY <1>3, <2>3, <2>4, <3>1 DEF Ready
    <3> QED
      BY Zenon, <2>1, <3>2 DEF OnCourse
  <2> QED
    BY Zenon, <1>4, <2>5, <2>6
<1>8. CASE StoreAddr(t)
  <2>1. /\ pc[t] = "store" /\ UNCHANGED <<paddr, idle, pool, resolved>> /\ addr' = resolved[t]
        /\ pc'[t] = "get"
    BY Zenon, <1>2, <1>8 DEF StoreAddr, SentinelTypeOK
  <2>2. PoolFollows(t)'
    BY Zenon, <1>2, <2>1 DEF PoolFollows
  <2>3. ASSUME Mine  PROVE OnCourse(t)'
    <3>1. Ready
      BY Zenon, <1>2, <2>1, <2>3 DEF OnCourse
    <3>2. Ready'
      BY Zenon, <1>3, <2>1, <3>1 DEF Ready, Fresh, Alive
    <3> QED
      BY Zenon, <2>1, <3>2 DEF OnCourse
  <2> QED
    BY Zenon, <1>4, <2>2, <2>3
<1> QED
  BY Zenon, <1>5, <1>6, <1>7, <1>8

LEMMA CalmGet ==
  ASSUME NEW t \in Tasks, LentInv(t), CalmInv(t), Get(t)
  PROVE  CalmInv(t)'
<1> DEFINE last == Len(idle[pool])
           node == paddr[pool]
           Mine == RetryCount # 0 /\ calmCall[t] /\ kind[t] = "execute"
<1>1. CalmTypeOK' /\ CalmServers' /\ UNCHANGED servers
  BY Zenon, CalmKept DEF Step
<1>2. SentinelTypeOK /\ PoolFollows(t) /\ CalmServers /\ (Mine => calm /\ OnCourse(t))
  BY Zenon DEF LentInv, CalmInv
<1>3. pc[t] = "get" /\ UNCHANGED <<paddr, pool, addr, kind, resolved, calmCall>>
  BY Zenon DEF Get
<1>4. UNCHANGED <<master, calm, up, epoch>>
  BY Zenon, <1>1 DEF servers
<1>5. pc'[t] # "store"
  <2>1. CASE Retry(t)
    BY Zenon, <1>2, <2>1, RetryTyped
  <2>2. CASE pc' = [pc EXCEPT ![t] = "send"]
    BY Zenon, <1>2, <2>2 DEF SentinelTypeOK
  <2> QED
    BY Zenon, <2>1, <2>2 DEF Get
<1>6. PoolFollows(t)'
  BY Zenon, <1>2, <1>3, <1>5, PoolStillFollows
<1>7. ASSUME Mine  PROVE OnCourse(t)'
  <2>1. calm /\ up[master] /\ (Ready \/ Outdated(t))
    BY Zenon, <1>2, <1>3, <1>7 DEF OnCourse, CalmServers
  \* Any connection will do from a pool of an earlier master, a fresh one from the master's.
  <2>2. ASSUME pc' = [pc EXCEPT ![t] = "send"], UNCHANGED attempt, Outdated(t) \/ Fresh(conn'[t])
        PROVE  OnCourse(t)'
    <3>1. pc'[t] = "send"
      BY Zenon, <1>2, <2>2 DEF SentinelTypeOK
    <3>2. Outdated(t) => Outdated(t)'
      BY Zenon, <1>3, <1>4, <2>2 DEF Outdated
    <3>3. Fresh(conn'[t]) => Fresh(conn[t])'
      BY Zenon, <1>4 DEF Fresh, Alive
    <3> QED
      BY Zenon, <2>2, <3>1, <3>2, <3>3 DEF OnCourse
  <2>3. CASE last > 0
    <3>1. /\ conn' = [conn EXCEPT ![t] = idle[pool][last]]
          /\ pc' = [pc EXCEPT ![t] = "send"] /\ UNCHANGED attempt
      BY Zenon, <2>3 DEF Get
    <3>2. last \in 1..Len(idle[pool])
      <4>1. pool \in 1..Len(idle)
        BY Zenon, <1>2 DEF SentinelTypeOK
      <4>2. idle[pool] \in Seq(Conn)
        BY Zenon, <1>2, <4>1, IdleTyped
      <4> QED
        BY <2>3, <4>2
    <3>3. conn'[t] = idle[pool][last]
      BY Zenon, <1>2, <3>1 DEF SentinelTypeOK
    <3>4. Ready => Fresh(conn'[t])
      BY Zenon, <3>2, <3>3 DEF Ready
    <3> QED
      BY Zenon, <2>1, <2>2, <3>1, <3>4
  <2>4. CASE ~(last > 0) /\ up[node]
    <3>1. /\ conn' = [conn EXCEPT ![t] = [node |-> node, epoch |-> epoch[node], owed |-> <<>>]]
          /\ pc' = [pc EXCEPT ![t] = "send"] /\ UNCHANGED attempt
      BY Zenon, <2>4 DEF Get
    <3>2. conn'[t] = [node |-> node, epoch |-> epoch[node], owed |-> <<>>]
      BY Zenon, <1>2, <3>1 DEF SentinelTypeOK
    <3>3. Ready => Fresh(conn'[t])
      BY <2>4, <3>2 DEF Ready, Fresh, Alive
    <3> QED
      BY ZenonT(30), <2>1, <2>2, <3>1, <3>3
  <2>5. CASE ~(last > 0) /\ ~up[node]
    <3>1. Retry(t)
      BY Zenon, <2>5 DEF Get
    <3>2. Outdated(t)
      BY Zenon, <2>1, <2>5 DEF Ready
    <3> QED
      BY Zenon, <1>1, <1>3, <1>7, <3>1, <3>2, RetryOnCourse
  <2> QED
    BY ZenonT(30), <2>3, <2>4, <2>5
<1> QED
  BY Zenon, <1>1, <1>2, <1>3, <1>4, <1>6, <1>7 DEF CalmInv

LEMMA CalmSend ==
  ASSUME NEW t \in Tasks, LentInv(t), CalmInv(t), Send(t)
  PROVE  CalmInv(t)'
<1> DEFINE Mine == RetryCount # 0 /\ calmCall[t] /\ kind[t] = "execute"
<1>1. CalmTypeOK' /\ CalmServers' /\ UNCHANGED servers
  BY Zenon, CalmKept DEF Step
<1>2. SentinelTypeOK /\ PoolFollows(t) /\ Backed(t) /\ (Mine => calm /\ OnCourse(t))
  BY Zenon DEF LentInv, CalmInv
<1>3. /\ pc[t] = "send" /\ UNCHANGED <<paddr, pool, addr, kind, attempt, resolved, calmCall>>
      /\ pc' = [pc EXCEPT ![t] = IF left[t] + 1 < Size(t) THEN "send" ELSE "read"]
  BY Zenon DEF Send, router
<1>4. UNCHANGED <<master, calm, up, epoch>>
  BY <1>1 DEF servers
<1>5. pc'[t] = (IF left[t] + 1 < Size(t) THEN "send" ELSE "read") /\ pc'[t] # "store"
  BY Zenon, <1>2, <1>3 DEF SentinelTypeOK
<1>6. PoolFollows(t)'
  BY Zenon, <1>2, <1>3, <1>5, PoolStillFollows
<1>7. ASSUME Mine  PROVE OnCourse(t)'
  <2>1. pc'[t] = "read"
    <3>1. Size(t) = 1 /\ left[t] \in Nat
      BY Zenon, <1>2, <1>7 DEF Size, SentinelTypeOK
    <3> QED
      BY <1>5, <3>1
  <2>2. CASE Outdated(t)
    BY Zenon, <1>3, <1>4, <2>1, <2>2 DEF Outdated, OnCourse
  <2>3. CASE Fresh(conn[t])
    <3>1. Alive(conn[t]) /\ conn[t].node = master /\ conn[t].owed = <<>> /\ conn[t] \in Conn
      BY Zenon, <1>2, <1>3, <2>3 DEF Fresh, Backed
    <3>2. conn' = [conn EXCEPT ![t] = [conn[t] EXCEPT !.owed = Append(<<>>, "ok")]]
      BY Zenon, <3>1 DEF Send
    <3>3. conn'[t] = [conn[t] EXCEPT !.owed = <<"ok">>]
      BY <1>2, <3>2 DEF SentinelTypeOK
    <3>4. conn'[t].node = master /\ conn'[t].epoch = conn[t].epoch /\ conn'[t].owed = <<"ok">>
      BY Zenon, <3>1, <3>3 DEF Conn
    <3>5. Answering(conn[t])'
      BY Zenon, <1>4, <3>1, <3>4 DEF Answering, Alive
    <3> QED
      BY Zenon, <2>1, <3>5 DEF OnCourse
  <2> QED
    BY ZenonT(30), <1>2, <1>3, <1>7, <2>2, <2>3 DEF OnCourse
<1> QED
  BY Zenon, <1>1, <1>2, <1>3, <1>4, <1>6, <1>7 DEF CalmInv

(* In an attempt that fails, the pool is an earlier master's. *)
LEMMA CalmBroken ==
  ASSUME NEW t \in Tasks, LentInv(t), CalmInv(t),
         SendFails(t) \/ ReadBroken(t) \/ ReadTimedOut(t)
  PROVE  CalmInv(t)'
<1> DEFINE Mine == RetryCount # 0 /\ calmCall[t] /\ kind[t] = "execute"
<1>1. CalmTypeOK' /\ CalmServers' /\ UNCHANGED servers
  BY Zenon, CalmKept DEF Step
<1>2. SentinelTypeOK /\ PoolFollows(t) /\ (Mine => calm /\ OnCourse(t))
  BY Zenon DEF LentInv, CalmInv
<1>3. /\ pc[t] \in {"send", "read"} /\ UNCHANGED <<paddr, pool, addr, kind, resolved, calmCall>>
      /\ UNCHANGED calm
  BY Zenon, <1>1 DEF SendFails, ReadBroken, ReadTimedOut, servers
<1>4. pc'[t] # "store"
  <2>1. CASE Retry(t)
    BY Zenon, <1>2, <2>1, RetryTyped
  <2>2. CASE pc' = [pc EXCEPT ![t] = "idle"]
    BY Zenon, <1>2, <2>2 DEF SentinelTypeOK
  <2> QED
    BY Zenon, <2>1, <2>2 DEF SendFails, ReadBroken, ReadTimedOut
<1>5. PoolFollows(t)'
  BY Zenon, <1>2, <1>3, <1>4, PoolStillFollows
<1>6. ASSUME Mine  PROVE OnCourse(t)'
  <2>1. ~ReadTimedOut(t)
    BY Zenon, <1>2, <1>6 DEF ReadTimedOut
  <2>2. Retry(t) /\ ~Alive(conn[t])
    BY Zenon, <2>1 DEF SendFails, ReadBroken
  <2>3. Outdated(t)
    BY Zenon, <1>2, <1>3, <1>6, <2>2 DEF OnCourse, Fresh, Answering
  <2> QED
    BY Zenon, <1>1, <1>3, <1>6, <2>2, <2>3, RetryOnCourse
<1> QED
  BY Zenon, <1>1, <1>2, <1>3, <1>5, <1>6 DEF CalmInv

LEMMA CalmRead ==
  ASSUME NEW t \in Tasks, LentInv(t), CalmInv(t), ReadReply(t) \/ ReadNext(t)
  PROVE  CalmInv(t)'
<1> DEFINE Mine == RetryCount # 0 /\ calmCall[t] /\ kind[t] = "execute"
<1>1. CalmTypeOK' /\ CalmServers' /\ UNCHANGED servers
  BY Zenon, CalmKept DEF Step
<1>2. SentinelTypeOK /\ PoolFollows(t) /\ (Mine => calm /\ OnCourse(t))
  BY Zenon DEF LentInv, CalmInv
<1>3. /\ pc[t] = "read" /\ UNCHANGED <<paddr, pool, addr, kind, resolved, calmCall>>
      /\ UNCHANGED calm
  BY Zenon, <1>1 DEF ReadReply, ReadNext, servers
<1>4. pc'[t] # "store"
  <2>1. CASE Retry(t)
    BY Zenon, <1>2, <2>1, RetryTyped
  <2>2. CASE pc' = [pc EXCEPT ![t] = "idle"] \/ pc' = pc
    BY Zenon, <1>2, <1>3, <2>2 DEF SentinelTypeOK
  <2> QED
    BY Zenon, <2>1, <2>2 DEF ReadReply, ReadNext
<1>5. PoolFollows(t)'
  BY Zenon, <1>2, <1>3, <1>4, PoolStillFollows
<1>6. ASSUME Mine  PROVE OnCourse(t)'
  <2>1. ReadReply(t)
    BY Zenon, <1>6 DEF ReadNext
  <2>2. CASE Head(conn[t].owed) = "readonly"
    <3>1. Retry(t)
      BY Zenon, <2>1, <2>2 DEF ReadReply
    <3>2. ~Answering(conn[t])
      BY <2>2 DEF Answering
    <3>3. Outdated(t)
      BY Zenon, <1>2, <1>3, <1>6, <3>2 DEF OnCourse
    <3> QED
      BY Zenon, <1>1, <1>3, <1>6, <3>1, <3>3, RetryOnCourse
  <2>3. CASE Head(conn[t].owed) # "readonly"
    <3>1. /\ pc' = [pc EXCEPT ![t] = "idle"]
          /\ result' = [result EXCEPT ![t] = IF Late(t) THEN "late" ELSE "ok"]
      BY Zenon, <2>1, <2>3 DEF ReadReply
    <3>2. pc'[t] = "idle" /\ result'[t] # "error"
      BY Zenon, <1>2, <3>1 DEF SentinelTypeOK
    <3> QED
      BY Zenon, <3>2 DEF OnCourse
  <2> QED
    BY Zenon, <2>2, <2>3
<1> QED
  BY Zenon, <1>1, <1>2, <1>3, <1>5, <1>6 DEF CalmInv

-----------------------------------------------------------------------------
LEMMA OneTaskInit ==
  ASSUME NEW t \in Tasks, Init
  PROVE  LentInv(t) /\ CalmInv(t)
<1>1. SentinelTypeOK
  BY Zenon, InitTypes
<1>2. PoolsLead /\ Backed(t)
  BY DEF Init, PoolsLead, Backed
<1>3. CalmTypeOK /\ CalmServers /\ PoolFollows(t) /\ ~calmCall[t]
  BY Zenon DEF Init, CalmTypeOK, CalmServers, PoolFollows
<1> QED
  BY Zenon, <1>1, <1>2, <1>3 DEF LentInv, CalmInv

LEMMA OneTaskLent ==
  ASSUME NEW t, Tasks = {t}, LentInv(t), [Next]_vars
  PROVE  LentInv(t)'
<1>1. CASE Environment
  BY Zenon, <1>1, LentEnvironment
<1>2. CASE Call(t) \/ Step(t)
  BY Zenon, <1>2, LentFailover, LentGet, LentSend, LentBroken, LentRead DEF Step
<1>3. CASE UNCHANGED vars
  <2>1. UNCHANGED servers /\ UNCHANGED router /\ UNCHANGED <<pc, kind, resolved, held, conn, left, result, runs, broke>>
    BY Zenon, <1>3 DEF vars
  <2> QED
    BY Zenon, <2>1 DEF LentInv, SentinelTypeOK, PoolsLead, Backed, Dated, Alive, servers, router
<1> QED
  BY Zenon, <1>1, <1>2, <1>3 DEF Next

LEMMA OneTaskCalm ==
  ASSUME NEW t, Tasks = {t}, LentInv(t), CalmInv(t), [Next]_vars
  PROVE  CalmInv(t)'
<1>1. CASE Environment
  BY Zenon, <1>1, CalmEnvironment
<1>2. CASE Call(t) \/ Step(t)
  BY Zenon, <1>2, CalmCall, CalmFailover, CalmGet, CalmSend, CalmBroken, CalmRead DEF Step
<1>3. CASE UNCHANGED vars
  <2>1. /\ UNCHANGED servers /\ UNCHANGED router
        /\ UNCHANGED <<pc, kind, attempt, resolved, conn, result, calmCall>>
    BY Zenon, <1>3 DEF vars
  <2> QED
    BY Zenon, <2>1 DEF CalmInv, CalmTypeOK, CalmServers, PoolFollows, OnCourse, Ready, Outdated, Fresh,
                       Answering, Alive, servers, router
<1> QED
  BY Zenon, <1>1, <1>2, <1>3 DEF Next

(* A command that begins when the master is up, every sentinel names it and the
   pool is clean does not fail, whatever happened before and however outdated
   the pool: with retry_count at least 1, the first attempt finds the pool
   outdated, and the failover that follows leads to the master.  This is for a
   client with one call at a time. *)
THEOREM SentinelCalmCallsSucceed ==
  ASSUME NEW t, Tasks = {t}, RetryCount # 0
  PROVE  Spec => []CalmCallsSucceed
<1>1. Init => LentInv(t) /\ CalmInv(t)
  BY Zenon, OneTaskInit
<1>2. LentInv(t) /\ CalmInv(t) /\ [Next]_vars => (LentInv(t) /\ CalmInv(t))'
  BY Zenon, OneTaskLent, OneTaskCalm
<1>3. LentInv(t) /\ CalmInv(t) => CalmCallsSucceed
  BY Zenon DEF CalmInv, OnCourse, CalmCallsSucceed
<1> QED
  BY <1>1, <1>2, <1>3, PTL DEF Spec
=============================================================================
