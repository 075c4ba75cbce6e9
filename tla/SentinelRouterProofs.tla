------------------------ MODULE SentinelRouterProofs ------------------------
(***************************************************************************)
(* Theorems about SentinelRouter, for every number of tasks, servers,      *)
(* sentinels, retries and faults, as long as no read times out.            *)
(***************************************************************************)
EXTENDS SentinelRouterFailover

\* A connection between two calls owes nothing, if it lives.
Settled(c) == Dated(c) /\ (Alive(c) => c.owed = <<>>)

PoolsSettled == \A p \in 1..Len(idle) : \A i \in 1..Len(idle[p]) : Settled(idle[p][i])

\* A connection in use owes the replies to the commands of this call, if it lives.
InUse(t) ==
  pc[t] \in {"send", "read"} =>
    /\ conn[t] \in Conn /\ Dated(conn[t])
    /\ Alive(conn[t]) => Len(conn[t].owed) = left[t]
    /\ IF pc[t] = "send" THEN left[t] < Size(t) ELSE left[t] \in 1..Size(t)

\* Between two attempts, every execution has been paid for by a broken connection.
CommandRuns(t) ==
  kind[t] = "execute" =>
    /\ runs[t] <= 1 + broke[t]
    /\ pc[t] \notin {"idle", "read"} => runs[t] <= broke[t]
    /\ pc[t] = "read" /\ Alive(conn[t]) /\ Head(conn[t].owed) = "readonly" => runs[t] <= broke[t]

PipelineRuns(t) ==
  kind[t] = "pipeline" =>
    /\ runs[t] <= Batch
    /\ pc[t] \in {"idle", "get", "send", "read"}
    /\ pc[t] = "get" => runs[t] = 0
    /\ pc[t] = "send" => runs[t] <= left[t]

TaskInv(t) == InUse(t) /\ CommandRuns(t) /\ PipelineRuns(t) /\ result[t] # "late"

SentinelInv == SentinelTypeOK /\ PoolsSettled /\ \A t \in Tasks : TaskInv(t)

-----------------------------------------------------------------------------
LEMMA EnvironmentInv ==
  ASSUME SentinelInv, Environment
  PROVE  SentinelInv'
<1>1. SentinelTypeOK /\ SentinelTypeOK' /\ UNCHANGED NotServers
  BY Zenon, EnvironmentTypes DEF SentinelInv
<1>2. PoolsSettled'
  <2> SUFFICES ASSUME NEW p \in 1..Len(idle), NEW i \in 1..Len(idle[p])
               PROVE  Settled(idle[p][i])'
    BY Zenon, <1>1 DEF PoolsSettled, NotServers, router
  <2>1. idle[p][i] \in Conn /\ Settled(idle[p][i])
    BY Zenon, <1>1, IdleTyped DEF SentinelInv, PoolsSettled
  <2>2. idle' = idle
    BY Zenon, <1>1 DEF NotServers, router
  <2>3. ASSUME NEW c \in Conn, Settled(c)  PROVE Settled(c)'
    BY Zenon, <1>1, <2>3, DeadStaysDead DEF Settled
  <2>4. PICK c \in Conn : c = idle[p][i]
    BY Zenon, <2>1
  <2>5. Settled(c)'
    BY Zenon, <2>1, <2>3, <2>4
  <2> QED
    BY Zenon, <2>2, <2>4, <2>5 DEF Settled, Dated, Alive
<1>3. ASSUME NEW t \in Tasks  PROVE TaskInv(t)'
  <2>1. TaskInv(t)
    BY Zenon DEF SentinelInv
  <2>2. /\ pc' = pc /\ kind' = kind /\ conn' = conn /\ left' = left /\ result' = result
        /\ runs' = runs /\ broke' = broke
    BY Zenon, <1>1 DEF NotServers
  <2>3. CASE pc[t] \notin {"send", "read"}
    BY Zenon, <2>1, <2>2, <2>3 DEF TaskInv, InUse, CommandRuns, PipelineRuns
  <2>4. CASE pc[t] \in {"send", "read"}
    <3>1. PICK c \in Conn : c = conn[t]
      BY Zenon, <2>1, <2>4 DEF TaskInv, InUse
    <3>2. Dated(c)
      BY Zenon, <2>1, <2>4, <3>1 DEF TaskInv, InUse
    <3>3. Dated(c)' /\ (Alive(c)' => Alive(c))
      BY Zenon, <1>1, <3>2, DeadStaysDead
    <3>4. Dated(conn[t])' /\ (Alive(conn[t])' => Alive(conn[t]))
      BY Zenon, <2>2, <3>1, <3>3 DEF Dated, Alive
    <3> QED
      BY Zenon, <2>1, <2>2, <3>4 DEF TaskInv, InUse, CommandRuns, PipelineRuns, Size
  <2> QED
    BY Zenon, <2>3, <2>4
<1> QED
  BY Zenon, <1>1, <1>2, <1>3 DEF SentinelInv

-----------------------------------------------------------------------------
(* A step of one task leaves what is known of the others. *)
LEMMA OthersKept ==
  ASSUME SentinelTypeOK, UNCHANGED servers, NEW u \in Tasks, TaskInv(u),
         pc'[u] = pc[u], kind'[u] = kind[u], conn'[u] = conn[u], left'[u] = left[u],
         runs'[u] = runs[u], broke'[u] = broke[u], result'[u] = result[u]
  PROVE  TaskInv(u)'
<1>1. Alive(conn[u])' = Alive(conn[u]) /\ Dated(conn[u])' = Dated(conn[u])
  BY Zenon DEF servers, Alive, Dated
<1> QED
  BY Zenon, <1>1 DEF TaskInv, InUse, CommandRuns, PipelineRuns, Size

(* A settled connection given back leaves the pools settled. *)
LEMMA GiveBackSettles ==
  ASSUME SentinelTypeOK, PoolsSettled, UNCHANGED <<servers, paddr>>,
         NEW t \in Tasks, NEW c \in Conn, Settled(c), GiveBack(t, c)
  PROVE  /\ PoolsSettled'
         /\ idle' \in Seq(Seq(Conn)) /\ Len(idle') = Len(paddr')
         /\ conn' \in [Tasks -> Conn \cup {NoConn}]
<1>1. held[t] \in 1..Len(idle) /\ idle \in Seq(Seq(Conn)) /\ Len(idle) = Len(paddr)
  BY Zenon DEF SentinelTypeOK
<1>2. idle' = [idle EXCEPT ![held[t]] = Append(idle[held[t]], c)]
  BY Zenon DEF GiveBack
<1>3. idle[held[t]] \in Seq(Conn)
  BY Zenon, <1>1, IdleTyped
<1>4. Append(idle[held[t]], c) \in Seq(Conn)
  BY <1>3
<1>5. idle' \in Seq(Seq(Conn)) /\ Len(idle') = Len(idle)
  BY <1>1, <1>2, <1>4
<1>6. PoolsSettled'
  <2> SUFFICES ASSUME NEW p \in 1..Len(idle'), NEW i \in 1..Len(idle'[p])
               PROVE  Settled(idle'[p][i])
    BY Zenon DEF PoolsSettled, Settled, Dated, Alive, servers
  <2>1. CASE p # held[t]
    BY <1>1, <1>2, <1>5, <2>1 DEF PoolsSettled
  <2>2. CASE p = held[t]
    <3>1. idle'[p] = Append(idle[p], c)
      BY SMTT(20), <1>1, <1>2, <2>2
    <3>2. CASE i = Len(idle[p]) + 1
      BY <1>3, <2>2, <3>1, <3>2
    <3>3. CASE i \in 1..Len(idle[p])
      <4>1. idle'[p][i] = idle[p][i]
        BY <1>3, <2>2, <3>1, <3>3
      <4> QED
        BY Zenon, <1>1, <1>5, <3>3, <4>1 DEF PoolsSettled
    <3> QED
      BY <1>3, <2>2, <3>1, <3>2, <3>3
  <2> QED
    BY Zenon, <2>1, <2>2
<1>7. conn' \in [Tasks -> Conn \cup {NoConn}]
  BY Zenon DEF GiveBack, SentinelTypeOK
<1> QED
  BY Zenon, <1>1, <1>5, <1>6, <1>7

-----------------------------------------------------------------------------
(* One lemma per step of a call. *)

LEMMA CallInv ==
  ASSUME SentinelInv, NEW t \in Tasks, Call(t)
  PROVE  SentinelInv'
<1> USE DEF Call, router, servers
<1>0. kind' \in [Tasks -> {"execute", "pipeline"}]
  <2>1. PICK k \in Kinds : kind' = [kind EXCEPT ![t] = k]
    BY Zenon
  <2> QED
    BY Zenon, <2>1, SentinelAssumption DEF SentinelInv, SentinelTypeOK
<1>1. SentinelTypeOK'
  <2>1. pc' \in [Tasks -> Steps] /\ result' \in [Tasks -> {"none", "ok", "late", "error"}]
    BY Zenon DEF SentinelInv, SentinelTypeOK, Steps
  <2>2. runs' \in [Tasks -> Nat] /\ broke' \in [Tasks -> Nat]
    BY Zenon DEF SentinelInv, SentinelTypeOK
  <2> QED
    BY Zenon, <1>0, <2>1, <2>2 DEF SentinelInv, SentinelTypeOK
<1>2. PoolsSettled'
  BY Zenon DEF SentinelInv, PoolsSettled, Settled, Dated, Alive
<1>3. TaskInv(t)'
  BY SentinelAssumption DEF SentinelInv, SentinelTypeOK, TaskInv, InUse, CommandRuns, PipelineRuns
<1>4. ASSUME NEW u \in Tasks \ {t}  PROVE TaskInv(u)'
  BY Zenon, OthersKept DEF SentinelInv, SentinelTypeOK
<1> QED
  BY Zenon, <1>1, <1>2, <1>3, <1>4 DEF SentinelInv

LEMMA ResolveInv ==
  ASSUME SentinelInv, NEW t \in Tasks, Resolve(t)
  PROVE  SentinelInv'
<1> USE DEF router, servers
<1>1. kind[t] = "execute" /\ runs[t] <= broke[t] /\ runs[t] \in Nat /\ broke[t] \in Nat
  BY Zenon DEF SentinelInv, SentinelTypeOK, TaskInv, CommandRuns, PipelineRuns, Resolve
<1>2. PoolsSettled'
  BY Zenon DEF SentinelInv, PoolsSettled, Settled, Dated, Alive, Resolve
<1>3. ASSUME NEW s \in DOMAIN view, resolved' = [resolved EXCEPT ![t] = view[s]],
             pc' = [pc EXCEPT ![t] = "compare"], UNCHANGED <<attempt, result>>
      PROVE  SentinelInv'
  <2>0. resolved' \in [Tasks -> Nodes] /\ pc' \in [Tasks -> Steps]
    BY Zenon, <1>3 DEF SentinelInv, SentinelTypeOK, Steps
  <2>1. SentinelTypeOK'
    BY Zenon, <1>3, <2>0 DEF SentinelInv, SentinelTypeOK, Resolve
  <2>2. TaskInv(t)'
    BY Zenon, <1>1, <1>3 DEF SentinelInv, SentinelTypeOK, TaskInv, InUse, CommandRuns, PipelineRuns, Resolve
  <2>3. ASSUME NEW u \in Tasks \ {t}  PROVE TaskInv(u)'
    BY Zenon, <1>3, OthersKept DEF SentinelInv, SentinelTypeOK, Resolve
  <2> QED
    BY Zenon, <1>2, <2>1, <2>2, <2>3 DEF SentinelInv
<1>4. CASE Retry(t) /\ UNCHANGED resolved
  <2>1. SentinelTypeOK'
    BY Zenon, <1>4, RetryTyped DEF SentinelInv, SentinelTypeOK, Resolve
  <2>2. TaskInv(t)'
    BY Zenon, <1>1, <1>4, RetryTyped DEF SentinelInv, TaskInv, InUse, CommandRuns, PipelineRuns, Resolve
  <2>3. ASSUME NEW u \in Tasks \ {t}  PROVE TaskInv(u)'
    BY Zenon, <1>4, OthersKept, RetryTyped DEF SentinelInv, Resolve
  <2> QED
    BY Zenon, <1>2, <2>1, <2>2, <2>3 DEF SentinelInv
<1> QED
  BY Zenon, <1>3, <1>4 DEF Resolve

LEMMA FailoverInv ==
  ASSUME SentinelInv, NEW t \in Tasks, Compare(t) \/ SwapPool(t) \/ StoreAddr(t)
  PROVE  SentinelInv'
<1> USE DEF router, servers
<1>1. kind[t] = "execute" /\ runs[t] <= broke[t] /\ runs[t] \in Nat /\ broke[t] \in Nat
  BY Zenon DEF SentinelInv, SentinelTypeOK, TaskInv, CommandRuns, PipelineRuns, Compare, SwapPool, StoreAddr
<1>2. pc' \in [Tasks -> Steps] /\ pc'[t] \in {"swap", "store", "get"}
  BY Zenon DEF SentinelInv, SentinelTypeOK, Steps, Compare, SwapPool, StoreAddr
<1>3. \A u \in Tasks \ {t} : pc'[u] = pc[u]
  BY Zenon DEF SentinelInv, SentinelTypeOK, Compare, SwapPool, StoreAddr
<1>4. UNCHANGED <<servers, kind, resolved, held, conn, left, result, runs, broke>>
  BY Zenon DEF Compare, SwapPool, StoreAddr
<1>5. ASSUME NEW u \in Tasks  PROVE TaskInv(u)'
  <2>1. CASE u = t
    BY Zenon, <1>1, <1>2, <1>4, <2>1 DEF SentinelInv, TaskInv, InUse, CommandRuns, PipelineRuns
  <2>2. CASE u # t
    BY Zenon, <1>3, <1>4, <2>2, OthersKept DEF SentinelInv
  <2> QED
    BY Zenon, <2>1, <2>2
<1>6. SentinelTypeOK' /\ PoolsSettled'
  <2>1. CASE UNCHANGED <<paddr, idle, pool>>
    BY Zenon, <1>2, <1>4, <2>1 DEF SentinelInv, SentinelTypeOK, PoolsSettled, Settled, Dated, Alive
  <2>2. CASE SwapPool(t)
    <3>1. /\ paddr \in Seq(Nodes) /\ idle \in Seq(Seq(Conn)) /\ Len(idle) = Len(paddr)
          /\ resolved[t] \in Nodes
      BY Zenon DEF SentinelInv, SentinelTypeOK
    <3>2. paddr' = Append(paddr, resolved[t]) /\ idle' = Append(idle, <<>>) /\ pool' = Len(paddr) + 1
      BY Zenon, <2>2 DEF SwapPool
    <3>3. <<>> \in Seq(Conn)
      OBVIOUS
    <3>4. /\ paddr' \in Seq(Nodes) /\ Len(paddr') = Len(paddr) + 1
          /\ idle' \in Seq(Seq(Conn)) /\ Len(idle') = Len(idle) + 1
      BY <3>1, <3>2, <3>3
    <3>5. held' \in [Tasks -> 1..Len(paddr')] /\ pool' \in 1..Len(paddr')
      <4>1. held \in [Tasks -> 1..Len(paddr)] /\ held' = held /\ Len(paddr) \in Nat
        BY <1>4, <3>1 DEF SentinelInv, SentinelTypeOK
      <4>2. \A k \in 1..Len(paddr) : k \in 1..Len(paddr')
        BY <3>4, <4>1
      <4> QED
        BY <3>2, <3>4, <4>1, <4>2
    <3>6. SentinelTypeOK'
      BY Zenon, <1>2, <1>4, <3>1, <3>4, <3>5 DEF SentinelInv, SentinelTypeOK
    <3>7. ASSUME NEW p \in 1..Len(idle'), NEW i \in 1..Len(idle'[p])  PROVE Settled(idle'[p][i])
      <4>1. p \in 1..Len(idle) /\ idle'[p] = idle[p]
        BY <3>1, <3>2, <3>4
      <4> QED
        BY Zenon, <4>1 DEF SentinelInv, PoolsSettled
    <3>8. PoolsSettled'
      BY Zenon, <1>4, <3>7 DEF PoolsSettled, Settled, Dated, Alive
    <3> QED
      BY Zenon, <3>6, <3>8
  <2> QED
    BY Zenon, <2>1, <2>2 DEF Compare, StoreAddr
<1> QED
  BY Zenon, <1>5, <1>6 DEF SentinelInv

LEMMA GetInv ==
  ASSUME SentinelInv, NEW t \in Tasks, Get(t)
  PROVE  SentinelInv'
<1> USE DEF servers
<1> DEFINE last == Len(idle[pool])
           node == paddr[pool]
<1>1. SentinelTypeOK /\ PoolsSettled /\ TaskInv(t)
  BY Zenon DEF SentinelInv
<1>2. /\ pool \in 1..Len(idle) /\ node \in Nodes /\ idle[pool] \in Seq(Conn)
      /\ idle \in Seq(Seq(Conn)) /\ Len(idle) = Len(paddr) /\ last \in Nat
  <2>1. /\ pool \in 1..Len(idle) /\ node \in Nodes
        /\ idle \in Seq(Seq(Conn)) /\ Len(idle) = Len(paddr)
    BY <1>1 DEF SentinelTypeOK
  <2>2. idle[pool] \in Seq(Conn)
    BY Zenon, <1>1, <2>1, IdleTyped
  <2> HIDE DEF node
  <2> QED
    BY <2>1, <2>2
<1>3. /\ pc[t] = "get" /\ left' = [left EXCEPT ![t] = 0]
      /\ UNCHANGED <<servers, paddr, pool, kind, resolved, runs, broke>>
  BY Zenon DEF Get
<1>4. kind[t] = "pipeline" => runs[t] = 0
  BY Zenon, <1>1, <1>3 DEF TaskInv, PipelineRuns
<1>5. kind[t] = "execute" => runs[t] <= broke[t]
  BY Zenon, <1>1, <1>3 DEF TaskInv, CommandRuns
<1>6. left' \in [Tasks -> Nat] /\ left'[t] = 0 /\ runs[t] \in Nat /\ broke[t] \in Nat
  BY Zenon, <1>1, <1>3 DEF SentinelTypeOK
\* Whatever settled connection the task gets, it is ready to send.
<1>7. ASSUME NEW c \in Conn, Settled(c), conn' = [conn EXCEPT ![t] = c],
             held' = [held EXCEPT ![t] = pool], pc' = [pc EXCEPT ![t] = "send"],
             UNCHANGED result, idle' \in Seq(Seq(Conn)), Len(idle') = Len(idle), PoolsSettled'
      PROVE  SentinelInv'
  <2>1. SentinelTypeOK'
    BY Zenon, <1>1, <1>2, <1>3, <1>6, <1>7 DEF SentinelTypeOK, Steps
  <2>2. conn'[t] = c /\ pc'[t] = "send" /\ kind'[t] = kind[t] /\ Size(t) \in Nat \ {0}
    BY <1>1, <1>3, <1>7, SentinelAssumption DEF SentinelTypeOK, Size
  <2>3. InUse(t)'
    BY <1>3, <1>6, <1>7, <2>2 DEF InUse, Settled, Dated, Alive, Size
  <2>4. CommandRuns(t)' /\ PipelineRuns(t)' /\ (result[t] # "late")'
    BY <1>1, <1>3, <1>4, <1>5, <1>6, <1>7, <2>2, SentinelAssumption
    DEF TaskInv, CommandRuns, PipelineRuns
  <2>5. ASSUME NEW u \in Tasks \ {t}  PROVE TaskInv(u)'
    BY Zenon, <1>1, <1>3, <1>7, OthersKept DEF SentinelInv, SentinelTypeOK
  <2> QED
    BY Zenon, <1>7, <2>1, <2>3, <2>4, <2>5 DEF SentinelInv, TaskInv
<1>8. CASE last > 0
  <2>1. /\ conn' = [conn EXCEPT ![t] = idle[pool][last]]
        /\ idle' = [idle EXCEPT ![pool] = SubSeq(idle[pool], 1, last - 1)]
        /\ held' = [held EXCEPT ![t] = pool] /\ pc' = [pc EXCEPT ![t] = "send"] /\ UNCHANGED result
    BY Zenon, <1>8 DEF Get
  <2>2. last \in 1..Len(idle[pool])
    BY <1>2, <1>8
  <2>3. idle[pool][last] \in Conn /\ Settled(idle[pool][last])
    BY Zenon, <1>1, <1>2, <2>2, IdleTyped DEF PoolsSettled
  <2>4. /\ SubSeq(idle[pool], 1, last - 1) \in Seq(Conn)
        /\ Len(SubSeq(idle[pool], 1, last - 1)) = last - 1
        /\ \A i \in 1..last - 1 : SubSeq(idle[pool], 1, last - 1)[i] = idle[pool][i]
    BY <1>2, <1>8
  <2>5. idle' \in Seq(Seq(Conn)) /\ Len(idle') = Len(idle)
    BY <1>2, <2>1, <2>4
  <2>6. ASSUME NEW p \in 1..Len(idle), NEW i \in 1..Len(idle'[p])  PROVE Settled(idle'[p][i])
    <3>1. CASE p # pool
      BY <1>1, <1>2, <2>1, <3>1 DEF PoolsSettled
    <3>2. CASE p = pool
      <4>1. i \in 1..last - 1 /\ idle'[p][i] = idle[pool][i]
        BY <1>2, <2>1, <2>4, <3>2
      <4>2. i \in 1..Len(idle[pool])
        BY <1>2, <4>1
      <4> QED
        BY Zenon, <1>1, <1>2, <4>1, <4>2 DEF PoolsSettled
    <3> QED
      BY Zenon, <3>1, <3>2
  <2>7. PoolsSettled'
    BY Zenon, <1>3, <2>5, <2>6 DEF PoolsSettled, Settled, Dated, Alive
  <2> QED
    BY Zenon, <1>7, <2>1, <2>3, <2>5, <2>7
<1>9. CASE ~(last > 0) /\ up[node]
  <2> DEFINE c == [node |-> node, epoch |-> epoch[node], owed |-> <<>>]
  <2>1. /\ conn' = [conn EXCEPT ![t] = c] /\ idle' = idle
        /\ held' = [held EXCEPT ![t] = pool] /\ pc' = [pc EXCEPT ![t] = "send"] /\ UNCHANGED result
    BY Zenon, <1>9 DEF Get
  <2>2. epoch[node] \in Nat
    BY Zenon, <1>1, <1>2 DEF SentinelTypeOK
  <2>3. c \in Conn
    BY <1>2, <2>2 DEF Conn
  <2>4. Settled(c)
    BY <2>2 DEF Settled, Dated
  <2>5. PoolsSettled'
    BY Zenon, <1>1, <1>3, <2>1 DEF PoolsSettled, Settled, Dated, Alive
  <2> HIDE DEF c
  <2> QED
    BY Zenon, <1>2, <1>7, <2>1, <2>3, <2>4, <2>5
<1>10. CASE ~(last > 0) /\ ~up[node]
  <2>1. Retry(t) /\ UNCHANGED <<idle, held, conn>>
    BY Zenon, <1>10 DEF Get
  <2>2. SentinelTypeOK'
    BY Zenon, <1>1, <1>3, <1>6, <2>1, RetryTyped DEF SentinelTypeOK
  <2>3. PoolsSettled'
    BY ZenonT(30), <1>1, <1>3, <2>1 DEF PoolsSettled, Settled, Dated, Alive
  <2>4. TaskInv(t)'
    BY Zenon, <1>1, <1>3, <1>4, <1>5, <1>6, <2>1, RetryTyped, SentinelAssumption
    DEF TaskInv, InUse, CommandRuns, PipelineRuns
  <2>5. ASSUME NEW u \in Tasks \ {t}  PROVE TaskInv(u)'
    BY ZenonT(30), <1>1, <1>3, <2>1, OthersKept, RetryTyped DEF SentinelInv, SentinelTypeOK
  <2> QED
    BY Zenon, <2>2, <2>3, <2>4, <2>5 DEF SentinelInv
<1> QED
  BY Zenon, <1>8, <1>9, <1>10

LEMMA SendInv ==
  ASSUME SentinelInv, NEW t \in Tasks, Send(t)
  PROVE  SentinelInv'
<1> USE DEF servers, router
<1> DEFINE answer == IF conn[t].node = master THEN "ok" ELSE "readonly"
<1>1. SentinelTypeOK /\ PoolsSettled /\ TaskInv(t)
  BY DEF SentinelInv
<1>2. /\ pc[t] = "send" /\ left' = [left EXCEPT ![t] = left[t] + 1]
      /\ pc' = [pc EXCEPT ![t] = IF left[t] + 1 < Size(t) THEN "send" ELSE "read"]
      /\ UNCHANGED <<servers, router, kind, resolved, held, result, broke>>
  BY Zenon DEF Send
<1>3. /\ conn[t] \in Conn /\ Dated(conn[t]) /\ left[t] < Size(t)
      /\ Alive(conn[t]) => Len(conn[t].owed) = left[t]
  BY Zenon, <1>1, <1>2 DEF TaskInv, InUse
<1>4. left[t] \in Nat /\ runs[t] \in Nat /\ broke[t] \in Nat /\ Size(t) \in Nat \ {0}
  BY <1>1, SentinelAssumption DEF SentinelTypeOK, Size
<1>5. /\ left' \in [Tasks -> Nat] /\ left'[t] = left[t] + 1 /\ pc' \in [Tasks -> Steps]
      /\ pc'[t] = IF left[t] + 1 < Size(t) THEN "send" ELSE "read"
  BY SMTT(20), <1>1, <1>2, <1>4 DEF SentinelTypeOK, Steps
<1>6. PoolsSettled'
  BY Zenon, <1>1, <1>2 DEF PoolsSettled, Settled, Dated, Alive
<1>7. \A u \in Tasks \ {t} : conn'[u] = conn[u] /\ runs'[u] = runs[u]
  BY Zenon, <1>1 DEF Send, SentinelTypeOK
<1>8. ASSUME NEW u \in Tasks \ {t}  PROVE TaskInv(u)'
  BY Zenon, <1>1, <1>2, <1>7, OthersKept DEF SentinelInv, SentinelTypeOK
\* What is left to show of the step.
<1>9. ASSUME conn' \in [Tasks -> Conn \cup {NoConn}], runs' \in [Tasks -> Nat], TaskInv(t)'
      PROVE  SentinelInv'
  <2>1. SentinelTypeOK'
    BY Zenon, <1>1, <1>2, <1>5, <1>9 DEF SentinelTypeOK
  <2> QED
    BY Zenon, <1>6, <1>8, <1>9, <2>1 DEF SentinelInv
<1>10. kind[t] = "execute" => left[t] = 0 /\ pc'[t] = "read"
  BY <1>3, <1>4, <1>5 DEF Size
<1>11. kind[t] = "pipeline" => runs[t] <= left[t] /\ Size(t) = Batch
  BY Zenon, <1>1, <1>2 DEF TaskInv, PipelineRuns, Size
<1>12. kind[t] = "execute" => runs[t] <= broke[t]
  BY ZenonT(30), <1>1, <1>2 DEF TaskInv, CommandRuns
<1>13. Size(t)' = Size(t) /\ kind'[t] = kind[t] /\ result'[t] # "late"
  BY Zenon, <1>1, <1>2 DEF Size, TaskInv
<1>14. CASE Alive(conn[t])
  <2> DEFINE c == [conn[t] EXCEPT !.owed = Append(conn[t].owed, answer)]
  <2>1. conn' = [conn EXCEPT ![t] = c] /\ runs' = [runs EXCEPT ![t] = IF answer = "ok" THEN runs[t] + 1 ELSE runs[t]]
    BY Zenon, <1>14 DEF Send
  <2>2. /\ c \in Conn /\ c.node = conn[t].node /\ c.epoch = conn[t].epoch
        /\ c.owed = Append(conn[t].owed, answer)
    <3>1. conn[t].owed \in Seq({"ok", "readonly"}) /\ answer \in {"ok", "readonly"}
      BY Zenon, <1>3 DEF Conn
    <3>2. Append(conn[t].owed, answer) \in Seq({"ok", "readonly"})
      BY <3>1
    <3> HIDE DEF answer
    <3> QED
      BY Zenon, <1>3, <3>2 DEF Conn
  <2>3. conn[t].owed \in Seq({"ok", "readonly"})
    BY Zenon, <1>3 DEF Conn
  <2>4. Len(c.owed) = left[t] + 1 /\ (left[t] = 0 => Head(c.owed) = answer)
    BY <1>3, <1>14, <2>2, <2>3
  <2> HIDE DEF c
  <2>5. conn' \in [Tasks -> Conn \cup {NoConn}] /\ conn'[t] = c
    BY Zenon, <1>1, <2>1, <2>2 DEF SentinelTypeOK
  <2>6. runs' \in [Tasks -> Nat] /\ runs'[t] = IF answer = "ok" THEN runs[t] + 1 ELSE runs[t]
    BY SMTT(20), <1>1, <1>4, <2>1 DEF SentinelTypeOK
  <2>7. InUse(t)'
    <3>1. Dated(conn[t])'
      BY ZenonT(30), <1>2, <1>3, <2>2, <2>5 DEF Dated
    <3> QED
      BY <1>3, <1>4, <1>5, <1>13, <2>2, <2>4, <2>5, <3>1 DEF InUse
  <2>8. CommandRuns(t)'
    BY <1>2, <1>4, <1>10, <1>12, <1>13, <2>4, <2>5, <2>6 DEF CommandRuns
  <2>9. PipelineRuns(t)'
    BY <1>3, <1>4, <1>5, <1>11, <1>13, <2>6 DEF PipelineRuns
  <2> QED
    BY Zenon, <1>9, <1>13, <2>5, <2>6, <2>7, <2>8, <2>9 DEF TaskInv
<1>15. CASE ~Alive(conn[t])
  <2>1. conn' = conn /\ runs' = runs
    BY Zenon, <1>15 DEF Send
  <2>2. ~Alive(conn[t])' /\ Dated(conn[t])'
    BY Zenon, <1>2, <1>3, <1>15, <2>1 DEF Alive, Dated
  <2>3. InUse(t)'
    BY <1>3, <1>4, <1>5, <1>13, <2>1, <2>2 DEF InUse
  <2>4. CommandRuns(t)'
    BY SMTT(20), <1>2, <1>4, <1>10, <1>12, <1>13, <2>1, <2>2 DEF CommandRuns
  <2>5. PipelineRuns(t)'
    BY <1>3, <1>4, <1>5, <1>11, <1>13, <2>1 DEF PipelineRuns
  <2> QED
    BY Zenon, <1>1, <1>9, <1>13, <2>1, <2>3, <2>4, <2>5 DEF TaskInv, SentinelTypeOK
<1> QED
  BY Zenon, <1>14, <1>15

(* The end of an attempt: the connection is settled and what was executed is
   accounted for. *)
LEMMA AttemptEnds ==
  ASSUME SentinelInv, NEW t \in Tasks, NEW c \in Conn, Settled(c), GiveBack(t, c),
         UNCHANGED <<servers, paddr, pool, kind, resolved, held, runs>>,
         pc' \in [Tasks -> Steps], pc'[t] \in {"resolve", "idle"},
         left' \in [Tasks -> Nat], broke' \in [Tasks -> Nat],
         result' \in [Tasks -> {"none", "ok", "late", "error"}], result'[t] # "late",
         \A u \in Tasks \ {t} : /\ pc'[u] = pc[u] /\ left'[u] = left[u]
                               /\ broke'[u] = broke[u] /\ result'[u] = result[u],
         kind[t] = "pipeline" => pc'[t] = "idle",
         kind[t] = "execute" => runs[t] <= 1 + broke'[t],
         kind[t] = "execute" /\ pc'[t] = "resolve" => runs[t] <= broke'[t]
  PROVE  SentinelInv'
<1>1. SentinelTypeOK /\ PoolsSettled /\ TaskInv(t)
  BY Zenon DEF SentinelInv
<1>2. /\ PoolsSettled' /\ idle' \in Seq(Seq(Conn)) /\ Len(idle') = Len(paddr')
      /\ conn' \in [Tasks -> Conn \cup {NoConn}]
  BY ZenonT(30), <1>1, GiveBackSettles
<1>3. SentinelTypeOK'
  BY Zenon, <1>1, <1>2 DEF SentinelTypeOK, servers
<1>4. TaskInv(t)'
  BY Zenon, <1>1 DEF TaskInv, InUse, CommandRuns, PipelineRuns
<1>5. ASSUME NEW u \in Tasks \ {t}  PROVE TaskInv(u)'
  <2>1. conn'[u] = conn[u]
    BY Zenon, <1>1 DEF GiveBack, SentinelTypeOK
  <2> QED
    BY ZenonT(30), <1>1, <2>1, OthersKept DEF SentinelInv
<1> QED
  BY ZenonT(30), <1>2, <1>3, <1>4, <1>5 DEF SentinelInv

LEMMA BrokenInv ==
  ASSUME SentinelInv, NEW t \in Tasks, SendFails(t) \/ ReadBroken(t)
  PROVE  SentinelInv'
<1>1. SentinelTypeOK /\ TaskInv(t)
  BY Zenon DEF SentinelInv
<1>2. /\ pc[t] \in {"send", "read"} /\ ~Alive(conn[t]) /\ GiveBack(t, conn[t]) /\ Retry(t)
      /\ UNCHANGED <<servers, paddr, pool, kind, resolved, held, left, runs>>
  BY Zenon DEF SendFails, ReadBroken
<1>3. PICK c \in Conn : c = conn[t]
  BY ZenonT(30), <1>1, <1>2 DEF TaskInv, InUse
<1>4. Settled(c) /\ GiveBack(t, c)
  BY Zenon, <1>1, <1>2, <1>3 DEF TaskInv, InUse, Settled
<1>5. /\ broke' \in [Tasks -> Nat] /\ \A u \in Tasks \ {t} : broke'[u] = broke[u]
      /\ IF pc[t] = "send" THEN broke'[t] = broke[t] ELSE broke'[t] = broke[t] + 1
  <2>1. broke \in [Tasks -> Nat]
    BY Zenon, <1>1 DEF SentinelTypeOK
  <2>2. CASE SendFails(t)
    BY Zenon, <2>1, <2>2 DEF SendFails
  <2>3. CASE ReadBroken(t)
    <3>1. pc[t] = "read" /\ broke' = [broke EXCEPT ![t] = broke[t] + 1] /\ broke[t] + 1 \in Nat
      BY <2>1, <2>3 DEF ReadBroken
    <3> QED
      BY Zenon, <2>1, <3>1
  <2> QED
    BY Zenon, <2>2, <2>3
<1>6. runs[t] \in Nat /\ broke[t] \in Nat /\ left \in [Tasks -> Nat]
  BY Zenon, <1>1 DEF SentinelTypeOK
<1>7. kind[t] = "execute" => runs[t] <= broke'[t]
  BY <1>1, <1>2, <1>5, <1>6 DEF TaskInv, CommandRuns
<1>8. /\ pc' \in [Tasks -> Steps] /\ pc'[t] \in {"resolve", "idle"}
      /\ kind[t] = "pipeline" => pc'[t] = "idle"
      /\ result' \in [Tasks -> {"none", "ok", "late", "error"}] /\ result'[t] # "late"
      /\ \A u \in Tasks \ {t} : pc'[u] = pc[u] /\ result'[u] = result[u]
  BY ZenonT(30), <1>1, <1>2, RetryTyped DEF TaskInv
<1>9. kind[t] = "execute" => runs[t] <= 1 + broke'[t]
  BY <1>5, <1>6, <1>7
<1> QED
  BY Zenon, <1>2, <1>4, <1>5, <1>6, <1>7, <1>8, <1>9, AttemptEnds

\* The next reply is this call's, and the connection is settled after the last.
LEMMA ReadsOwn ==
  ASSUME SentinelInv, NEW t \in Tasks, pc[t] = "read", Alive(conn[t])
  PROVE  /\ [conn[t] EXCEPT !.owed = Tail(@)] \in Conn
         /\ Len(Tail(conn[t].owed)) = left[t] - 1
         /\ Dated([conn[t] EXCEPT !.owed = Tail(@)])
         /\ left[t] = 1 => Settled([conn[t] EXCEPT !.owed = Tail(@)])
         /\ left[t] \in 1..Size(t)
         /\ ~Late(t)
<1>1. /\ conn[t] \in Conn /\ Dated(conn[t]) /\ Len(conn[t].owed) = left[t] /\ left[t] \in 1..Size(t)
      /\ Size(t) \in Nat
  BY Zenon, SentinelAssumption DEF SentinelInv, TaskInv, InUse, Size
<1>2. conn[t].owed \in Seq({"ok", "readonly"}) /\ conn[t].owed # <<>>
  BY <1>1 DEF Conn
<1>3. /\ Tail(conn[t].owed) \in Seq({"ok", "readonly"}) /\ Len(Tail(conn[t].owed)) = left[t] - 1
      /\ left[t] = 1 => Tail(conn[t].owed) = <<>>
  BY <1>1, <1>2
<1>4. PICK c \in Conn : c = conn[t]
  BY Zenon, <1>1
<1> DEFINE rest == [c EXCEPT !.owed = Tail(c.owed)]
<1>5. rest \in Conn /\ rest.node = c.node /\ rest.epoch = c.epoch /\ rest.owed = Tail(c.owed)
  <2>1. c \in [node : Nodes, epoch : Nat, owed : Seq({"ok", "readonly"})]
    BY Zenon DEF Conn
  <2>2. Tail(c.owed) \in Seq({"ok", "readonly"})
    BY Zenon, <1>3, <1>4
  <2> QED
    BY Zenon, <2>1, <2>2 DEF Conn
<1>6. Dated(rest) /\ (left[t] = 1 => Settled(rest))
  BY Zenon, <1>1, <1>3, <1>4, <1>5 DEF Dated, Settled
<1> QED
  BY <1>1, <1>3, <1>4, <1>5, <1>6 DEF Late

LEMMA ReadReplyInv ==
  ASSUME SentinelInv, NEW t \in Tasks, ReadReply(t)
  PROVE  SentinelInv'
<1> DEFINE rest == [conn[t] EXCEPT !.owed = Tail(@)]
<1>1. SentinelTypeOK /\ TaskInv(t)
  BY Zenon DEF SentinelInv
<1>2. /\ pc[t] = "read" /\ kind[t] = "execute" /\ Alive(conn[t]) /\ GiveBack(t, rest)
      /\ UNCHANGED <<servers, paddr, pool, kind, resolved, held, left, runs, broke>>
  BY Zenon DEF ReadReply
<1>3. left[t] \in 1..Size(t) /\ rest \in Conn /\ (left[t] = 1 => Settled(rest)) /\ ~Late(t)
  BY Zenon, <1>2, ReadsOwn
<1> HIDE DEF rest
<1>4. left[t] = 1
  BY <1>2, <1>3 DEF Size
<1>5. /\ left \in [Tasks -> Nat] /\ broke \in [Tasks -> Nat] /\ runs[t] <= 1 + broke[t]
  BY Zenon, <1>1, <1>2 DEF SentinelTypeOK, TaskInv, CommandRuns
<1>6. CASE Head(conn[t].owed) = "readonly"
  <2>1. Retry(t)
    BY Zenon, <1>6 DEF ReadReply
  <2>2. runs[t] <= broke[t]
    BY ZenonT(30), <1>1, <1>2, <1>6 DEF TaskInv, CommandRuns
  <2>3. /\ pc' \in [Tasks -> Steps] /\ pc'[t] \in {"resolve", "idle"}
        /\ result' \in [Tasks -> {"none", "ok", "late", "error"}] /\ result'[t] # "late"
        /\ \A u \in Tasks \ {t} : pc'[u] = pc[u] /\ result'[u] = result[u]
    BY Zenon, <1>1, <2>1, RetryTyped DEF TaskInv
  <2> QED
    BY Zenon, <1>2, <1>3, <1>4, <1>5, <2>2, <2>3, AttemptEnds
<1>7. CASE Head(conn[t].owed) # "readonly"
  <2>1. result' = [result EXCEPT ![t] = "ok"] /\ pc' = [pc EXCEPT ![t] = "idle"]
    BY Zenon, <1>3, <1>7 DEF ReadReply
  <2>2. /\ pc' \in [Tasks -> Steps] /\ pc'[t] = "idle"
        /\ result' \in [Tasks -> {"none", "ok", "late", "error"}] /\ result'[t] # "late"
        /\ \A u \in Tasks \ {t} : pc'[u] = pc[u] /\ result'[u] = result[u]
    BY Zenon, <1>1, <2>1 DEF SentinelTypeOK, Steps
  <2> QED
    BY Zenon, <1>2, <1>3, <1>4, <1>5, <2>2, AttemptEnds
<1> QED
  BY Zenon, <1>6, <1>7

LEMMA ReadNextInv ==
  ASSUME SentinelInv, NEW t \in Tasks, ReadNext(t)
  PROVE  SentinelInv'
<1> DEFINE rest == [conn[t] EXCEPT !.owed = Tail(@)]
<1>1. SentinelTypeOK /\ PoolsSettled /\ TaskInv(t)
  BY DEF SentinelInv
<1>2. /\ pc[t] = "read" /\ kind[t] = "pipeline" /\ Alive(conn[t])
      /\ left' = [left EXCEPT ![t] = left[t] - 1]
      /\ UNCHANGED <<servers, paddr, pool, kind, resolved, held, runs, broke>>
  BY Zenon DEF ReadNext
<1>3. /\ left[t] \in 1..Size(t) /\ rest \in Conn /\ Dated(rest) /\ (left[t] = 1 => Settled(rest)) /\ ~Late(t)
      /\ Len(rest.owed) = left[t] - 1
  <2>1. conn[t] \in Conn
    BY Zenon, <1>1, <1>2 DEF TaskInv, InUse
  <2>2. rest.owed = Tail(conn[t].owed)
    BY Zenon, <2>1 DEF Conn
  <2> QED
    BY Zenon, <1>2, <2>2, ReadsOwn
<1>4. /\ left' \in [Tasks -> Nat] /\ left'[t] = left[t] - 1 /\ broke \in [Tasks -> Nat]
      /\ \A u \in Tasks \ {t} : left'[u] = left[u]
  <2>1. left[t] - 1 \in Nat
    BY SMTT(20), <1>1, <1>3 DEF SentinelTypeOK
  <2> QED
    BY Zenon, <1>1, <1>2, <2>1 DEF SentinelTypeOK
<1>5. CASE left[t] = 1
  <2>1. GiveBack(t, rest) /\ result' = [result EXCEPT ![t] = "ok"] /\ pc' = [pc EXCEPT ![t] = "idle"]
    BY Zenon, <1>3, <1>5 DEF ReadNext
  <2>2. /\ pc' \in [Tasks -> Steps] /\ pc'[t] = "idle"
        /\ result' \in [Tasks -> {"none", "ok", "late", "error"}] /\ result'[t] # "late"
        /\ \A u \in Tasks \ {t} : pc'[u] = pc[u] /\ result'[u] = result[u]
    BY Zenon, <1>1, <2>1 DEF SentinelTypeOK, Steps
  <2> HIDE DEF rest
  <2> QED
    BY Zenon, <1>2, <1>3, <1>4, <1>5, <2>1, <2>2, AttemptEnds
<1>6. CASE left[t] # 1
  <2>1. conn' = [conn EXCEPT ![t] = rest] /\ UNCHANGED <<idle, result, pc>>
    BY Zenon, <1>6 DEF ReadNext
  <2> HIDE DEF rest
  <2>2. conn' \in [Tasks -> Conn \cup {NoConn}] /\ conn'[t] = rest
    BY Zenon, <1>1, <1>3, <2>1 DEF SentinelTypeOK
  <2>3. SentinelTypeOK'
    BY Zenon, <1>1, <1>2, <1>4, <2>1, <2>2 DEF SentinelTypeOK, servers
  <2>4. PoolsSettled'
    BY ZenonT(30), <1>1, <1>2, <2>1 DEF PoolsSettled, Settled, Dated, Alive, servers
  <2>5. InUse(t)'
    <3>1. Dated(conn[t])' /\ Size(t)' = Size(t) /\ Size(t) \in Nat
      BY Zenon, <1>2, <1>3, <2>2, SentinelAssumption DEF Dated, servers, Size
    <3>2. left'[t] \in 1..Size(t)
      BY <1>3, <1>4, <1>6, <3>1
    <3> QED
      BY Zenon, <1>2, <1>3, <1>4, <2>1, <2>2, <3>1, <3>2 DEF InUse
  <2>6. CommandRuns(t)' /\ PipelineRuns(t)' /\ result'[t] # "late"
    BY Zenon, <1>1, <1>2, <2>1 DEF TaskInv, CommandRuns, PipelineRuns
  <2>7. ASSUME NEW u \in Tasks \ {t}  PROVE TaskInv(u)'
    <3>1. conn'[u] = conn[u]
      BY Zenon, <1>1, <2>1 DEF SentinelTypeOK
    <3> QED
      BY Zenon, <1>1, <1>2, <1>4, <2>1, <3>1, OthersKept DEF SentinelInv
  <2> QED
    BY Zenon, <2>3, <2>4, <2>5, <2>6, <2>7 DEF SentinelInv, TaskInv
<1> QED
  BY Zenon, <1>5, <1>6

-----------------------------------------------------------------------------
LEMMA SentinelInitInv ==
  ASSUME Init
  PROVE  SentinelInv
<1>1. SentinelTypeOK
  BY Zenon, InitTypes
<1>2. PoolsSettled
  BY DEF Init, PoolsSettled
<1>3. ASSUME NEW t \in Tasks  PROVE TaskInv(t)
  BY SentinelAssumption DEF Init, TaskInv, InUse, CommandRuns, PipelineRuns
<1> QED
  BY Zenon, <1>1, <1>2, <1>3 DEF SentinelInv

LEMMA SentinelNextInv ==
  ASSUME "timeout" \notin Faults, SentinelInv, [Next]_vars
  PROVE  SentinelInv'
<1>1. CASE Environment
  BY Zenon, <1>1, EnvironmentInv
<1>2. ASSUME NEW t \in Tasks, Call(t)  PROVE SentinelInv'
  BY Zenon, <1>2, CallInv
<1>3. ASSUME NEW t \in Tasks, Step(t)  PROVE SentinelInv'
  <2>1. ~ReadTimedOut(t)
    BY Zenon DEF ReadTimedOut
  <2> QED
    BY Zenon, <1>3, <2>1, ResolveInv, FailoverInv, GetInv, SendInv, BrokenInv, ReadReplyInv, ReadNextInv
    DEF Step
<1>4. CASE UNCHANGED vars
  <2>1. UNCHANGED servers /\ UNCHANGED router /\ UNCHANGED <<pc, kind, resolved, held, conn, left, result, runs, broke>>
    BY Zenon, <1>4 DEF vars
  <2>2. SentinelTypeOK' /\ PoolsSettled'
    BY ZenonT(40), <2>1 DEF SentinelInv, SentinelTypeOK, PoolsSettled, Settled, Dated, Alive, servers, router
  <2>3. ASSUME NEW u \in Tasks  PROVE TaskInv(u)'
    BY Zenon, <2>1, OthersKept DEF SentinelInv
  <2> QED
    BY Zenon, <2>2, <2>3 DEF SentinelInv
<1> QED
  BY Zenon, <1>1, <1>2, <1>3, <1>4 DEF Next

LEMMA SentinelInvariance ==
  ASSUME "timeout" \notin Faults
  PROVE  Spec => []SentinelInv
<1>1. Init => SentinelInv
  BY Zenon, SentinelInitInv
<1>2. SentinelInv /\ [Next]_vars => SentinelInv'
  BY Zenon, SentinelNextInv
<1> QED
  BY <1>1, <1>2, PTL DEF Spec

(* However often servers crash, restart and change roles, and however many
   tasks fail over at once, execute_with_retry repeats the effect of a command
   only after a connection broke between its write and its reply, and pipeline
   never does. *)
THEOREM SentinelRepeatsOnlyIfBroken ==
  ASSUME "timeout" \notin Faults
  PROVE  Spec => []RepeatedOnlyIfBroken
<1>1. SentinelInv => RepeatedOnlyIfBroken
  BY Zenon, SentinelAssumption
  DEF SentinelInv, SentinelTypeOK, TaskInv, CommandRuns, PipelineRuns, RepeatedOnlyIfBroken
<1> QED
  BY <1>1, SentinelInvariance, PTL

(* No call returns the reply to another command: a connection that goes back to
   a pool with replies outstanding is dead, and stays dead. *)
THEOREM SentinelOwnReplies ==
  ASSUME "timeout" \notin Faults
  PROVE  Spec => []OwnReplies
<1>1. SentinelInv => OwnReplies
  BY Zenon DEF SentinelInv, TaskInv, OwnReplies
<1> QED
  BY <1>1, SentinelInvariance, PTL
=============================================================================
