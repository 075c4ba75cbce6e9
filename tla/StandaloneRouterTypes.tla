----------------------- MODULE StandaloneRouterTypes -----------------------
(***************************************************************************)
(* Proofs about StandaloneRouter, first part: the router uses the pool as  *)
(* the pool allows, its state keeps its type, and the parts of the         *)
(* invariant that concern calls without a guard and closed connections.    *)
(***************************************************************************)
EXTENDS StandaloneRouter, ConnectionPoolProofs

(* Everything the router does to the pool is a step of the pool. *)
LEMMA RouterPoolStep == [Next]_vars => [PoolNext]_poolVars
<1> SUFFICES ASSUME [Next]_vars PROVE [PoolNext]_poolVars
  BY Zenon
<1>1. ASSUME NEW t \in Tasks, Call(t) PROVE PoolNext
  BY Zenon, <1>1 DEF Call, PoolNext, Get
<1>2. ASSUME NEW t \in Tasks, Progress(t) PROVE [PoolNext]_poolVars
  <2>1. CASE Lookup(t) \/ Opened(t) \/ Initialized(t) \/ OpenFailed(t)
    BY Zenon, <2>1 DEF Lookup, Opened, Initialized, OpenFailed, PoolNext, Get
  <2>2. CASE Write(t) \/ ReadSocket(t) \/ ParseReply(t)
    BY Zenon, <2>2 DEF Write, ReadSocket, ParseReply, PoolNext
  <2>3. CASE WriteErr(t) \/ TooLarge(t) \/ ReadTimedOut(t) \/ ReadEof(t) \/ Finish(t)
    BY Zenon, <2>3 DEF WriteErr, TooLarge, ReadTimedOut, ReadEof, Finish, Fail, PoolNext, Drop
  <2>4. CASE GiveBack(t) \/ Return(t)
    BY Zenon, <2>4 DEF GiveBack, Return, PoolNext, Drop
  <2> QED
    BY Zenon, <1>2, <2>1, <2>2, <2>3, <2>4 DEF Progress
<1>3. ASSUME NEW c \in Conns, Serve(c) \/ ServerClose(c) PROVE UNCHANGED poolVars
  BY Zenon, <1>3 DEF Serve, ServerClose
<1>4. CASE Clock
  BY Zenon, <1>4 DEF Clock, PoolNext
<1>5. CASE UNCHANGED vars
  BY Zenon, <1>5 DEF vars
<1> QED
  BY Zenon, <1>1, <1>2, <1>3, <1>4, <1>5 DEF Next

(* The composition implements the pool's specification. *)
LEMMA RouterUsesPool == Spec => PoolSpec
<1>1. Init => PoolInit
  BY Zenon DEF Init
<1> QED
  BY <1>1, RouterPoolStep, PTL DEF Spec, PoolSpec

(* Hence the pool's invariant holds while the router runs. *)
THEOREM RouterPoolInvariance == Spec => []PoolInv
BY RouterUsesPool, PoolInvariance, PTL

-----------------------------------------------------------------------------
(* What holds together in every state of the composition. *)
RouterInv == PoolInv /\ RouterTypeOK /\ StreamsAligned /\ AlignedUnlessTimedOut

(* A task with a guard owns a connection. *)
LEMMA GuardOwns ==
    ASSUME PoolInv, NEW t \in Tasks, pc[t] \in {"initializing", "guard", "returning"}
    PROVE  conn[t] \in Conns
BY Zenon DEF PoolInv, PoolTypeOK, ExclusiveOwnership

(* The types of the streams, *)
LEMMA StreamTypes ==
    ASSUME RouterInv
    PROVE  /\ wire \in [Conns -> Seq(Request)] /\ buffered \in [Conns -> Nat]
           /\ answered \in [Conns -> Nat] /\ big \in [Conns -> SUBSET Request]
           /\ peer \in [Conns -> {"up", "closed", "reset"}]
           /\ failed \in [Conns -> SUBSET {"timeout", "dead", "oversize"}]
BY Zenon DEF RouterInv, RouterTypeOK

(* of the calls, *)
LEMMA CallTypes ==
    ASSUME RouterInv
    PROVE  /\ cmds \in [Tasks -> Seq(Request)] /\ got \in [Tasks -> Seq(Request)]
           /\ wrote \in [Tasks -> Nat]
           /\ outcome \in [Tasks -> {"none", "pending", "ok", "error"}]
BY Zenon DEF RouterInv, RouterTypeOK

(* of the pool, *)
LEMMA PoolTypes ==
    ASSUME RouterInv
    PROVE  PoolInv /\ pc \in [Tasks -> PoolPC] /\ conn \in [Tasks -> Conns \cup {NoConn}]
           /\ idle \in Seq(Conns) /\ waiters \in Seq(Tasks)
BY Zenon DEF RouterInv, PoolInv, PoolTypeOK

(* and the order of the counters of one stream, *)
LEMMA StreamCounts ==
    ASSUME RouterInv, NEW c \in Conns
    PROVE  /\ wire[c] \in Seq(Request) /\ Len(wire[c]) \in Nat
           /\ buffered[c] \in Nat /\ answered[c] \in Nat
           /\ buffered[c] <= answered[c] /\ answered[c] <= Len(wire[c])
BY DEF RouterInv, RouterTypeOK

(* and of one call. *)
LEMMA CallCounts ==
    ASSUME RouterInv, NEW t \in Tasks
    PROVE  /\ cmds[t] \in Seq(Request) /\ got[t] \in Seq(Request)
           /\ Len(cmds[t]) \in Nat /\ Len(got[t]) \in Nat /\ wrote[t] \in Nat
           /\ Len(got[t]) <= wrote[t] /\ wrote[t] <= Len(cmds[t])
BY DEF RouterInv, RouterTypeOK

(* The task that a released permit wakes was waiting for it. *)
LEMMA FirstWaiter ==
    ASSUME PoolInv, waiters # <<>>
    PROVE  Head(waiters) \in Tasks /\ pc[Head(waiters)] = "waiting"
BY DEF PoolInv, PoolTypeOK, NoLostWakeup

(* Sequences with the same elements are equal. *)
LEMMA SameElements ==
    ASSUME NEW S, NEW q \in Seq(S), NEW r \in Seq(S), Len(q) = Len(r),
           \A i \in DOMAIN q : q[i] = r[i]
    PROVE  q = r
<1>1. DOMAIN q = 1 .. Len(q) /\ DOMAIN r = 1 .. Len(r)
  OBVIOUS
<1>2. q = [i \in DOMAIN q |-> q[i]] /\ r = [i \in DOMAIN r |-> r[i]]
  OBVIOUS
<1> QED
  BY Zenon, <1>1, <1>2

(* Type correctness is preserved. *)
LEMMA RouterTypeStep == RouterInv /\ [Next]_vars => RouterTypeOK'
<1> SUFFICES ASSUME PoolInv, RouterTypeOK, StreamsAligned, [Next]_vars
             PROVE  RouterTypeOK'
  BY Zenon DEF RouterInv
<1>0. PoolTypeOK'
  BY Zenon, RouterPoolStep, PoolInvStep DEF PoolInv
<1> USE RouterAssumption, <1>0 DEF RouterTypeOK
<1>1. ASSUME NEW t \in Tasks, Call(t) PROVE RouterTypeOK'
  <2>1. pc[t] = "outside"
    BY Zenon, <1>1 DEF Call, Acquire
  <2>2. wrote[t] = 0 /\ got[t] = <<>>
    BY Zenon, <2>1 DEF StreamsAligned, FreshCalls
  <2>3. PICK n \in 1 .. MaxBatch :
          cmds' = [cmds EXCEPT ![t] = [i \in 1 .. n |-> <<t, calls[t] + 1, i>>]]
    BY Zenon, <1>1 DEF Call
  <2>4. [i \in 1 .. n |-> <<t, calls[t] + 1, i>>] \in Seq(Request)
    BY SMTT(20) DEF Request
  <2>5. cmds' \in [Tasks -> Seq(Request)]
    BY Zenon, <2>3, <2>4
  <2>6. /\ calls' \in [Tasks -> 0 .. MaxCalls]
        /\ outcome' \in [Tasks -> {"none", "pending", "ok", "error"}]
    BY SMTT(20), <1>1 DEF Call
  <2>7. \A u \in Tasks : Len(got[u]) <= wrote[u] /\ wrote[u] <= Len(cmds'[u])
    BY <2>2, <2>3, <2>4, <2>5
  <2> QED
    BY Zenon, <1>1, <2>5, <2>6, <2>7 DEF Call, streamVars
<1>2. ASSUME NEW t \in Tasks, Lookup(t) \/ Initialized(t) \/ GiveBack(t) PROVE RouterTypeOK'
  BY Zenon, <1>2 DEF Lookup, Initialized, GiveBack, taskVars, streamVars
<1>3. ASSUME NEW t \in Tasks, OpenFailed(t) \/ Finish(t) PROVE RouterTypeOK'
  BY Zenon, <1>3 DEF OpenFailed, Finish, streamVars
<1>4. ASSUME NEW t \in Tasks, Opened(t) PROVE RouterTypeOK'
  <2>1. conn'[t] \in Conns
    BY Zenon, <1>4 DEF Opened, Connect, PoolInv, PoolTypeOK
  <2> QED
    BY SMTT(40), <1>4, <2>1 DEF Opened, taskVars
<1>5. ASSUME NEW t \in Tasks, Write(t) PROVE RouterTypeOK'
  <2>1. conn[t] \in Conns /\ wrote[t] + 1 \in 1 .. Len(cmds[t])
    BY <1>5, GuardOwns DEF Write, Sending
  <2>2. cmds[t][wrote[t] + 1] \in Request
    BY <2>1
  <2>3. /\ wrote' \in [Tasks -> Nat]
        /\ \A u \in Tasks : Len(got[u]) <= wrote'[u] /\ wrote'[u] <= Len(cmds[u])
    <3>1. wrote' = [wrote EXCEPT ![t] = wrote[t] + 1]
      BY Zenon, <1>5 DEF Write
    <3> QED
      BY <2>1, <3>1
  <2>4. /\ wire' \in [Conns -> Seq(Request)]
        /\ \A c \in Conns : answered[c] <= Len(wire'[c])
    <3>1. CASE wire' = [wire EXCEPT ![conn[t]] = Append(@, cmds[t][wrote[t] + 1])]
      BY SMTT(20), <2>1, <2>2, <3>1
    <3>2. CASE wire' = wire
      BY Zenon, <3>2
    <3> QED
      BY Zenon, <1>5, <3>1, <3>2 DEF Write
  <2>5. UNCHANGED <<calls, cmds, got, outcome, buffered, answered, big, peer, failed>>
    BY Zenon, <1>5 DEF Write
  <2> QED
    BY Zenon, <2>3, <2>4, <2>5
<1>6. ASSUME NEW t \in Tasks, WriteErr(t) \/ TooLarge(t) \/ ReadTimedOut(t) \/ ReadEof(t)
      PROVE  RouterTypeOK'
  <2>1. conn[t] \in Conns
    BY Zenon, <1>6, GuardOwns DEF WriteErr, TooLarge, ReadTimedOut, ReadEof, Sending, Reading
  <2>2. CASE WriteErr(t)
    <3>1. /\ peer' \in [Conns -> {"up", "closed", "reset"}]
          /\ failed' \in [Conns -> SUBSET {"timeout", "dead", "oversize"}]
          /\ outcome' \in [Tasks -> {"none", "pending", "ok", "error"}]
      BY Zenon, <2>1, <2>2 DEF WriteErr, Fail
    <3> QED
      BY Zenon, <2>2, <3>1 DEF WriteErr, Fail
  <2>3. CASE TooLarge(t) \/ ReadTimedOut(t) \/ ReadEof(t)
    <3>1. PICK how \in {"timeout", "dead", "oversize"} : Fail(t, how)
      BY Zenon, <2>3 DEF TooLarge, ReadTimedOut, ReadEof
    <3>2. UNCHANGED streamVars
      BY Zenon, <2>3 DEF TooLarge, ReadTimedOut, ReadEof
    <3>3. /\ failed' \in [Conns -> SUBSET {"timeout", "dead", "oversize"}]
          /\ outcome' \in [Tasks -> {"none", "pending", "ok", "error"}]
      BY Zenon, <2>1, <3>1 DEF Fail
    <3> QED
      BY Zenon, <3>1, <3>2, <3>3 DEF Fail, streamVars
  <2> QED
    BY Zenon, <1>6, <2>2, <2>3
<1>7. ASSUME NEW t \in Tasks, ReadSocket(t) PROVE RouterTypeOK'
  <2>1. conn[t] \in Conns
    BY Zenon, <1>7, GuardOwns DEF ReadSocket, Reading
  <2>2. PICK n \in 1 .. answered[conn[t]] : buffered' = [buffered EXCEPT ![conn[t]] = n]
    BY Zenon, <1>7 DEF ReadSocket
  <2>3. buffered' \in [Conns -> Nat] /\ \A c \in Conns : buffered'[c] <= answered[c]
    BY SMTT(20), <2>1, <2>2
  <2> QED
    BY Zenon, <1>7, <2>3 DEF ReadSocket, taskVars
<1>8. ASSUME NEW t \in Tasks, ParseReply(t) PROVE RouterTypeOK'
  <2>1. conn[t] \in Conns
    BY Zenon, <1>8, GuardOwns DEF ParseReply, Reading
  <2>2. Len(wire[conn[t]]) > 0 /\ wire[conn[t]] \in Seq(Request) /\ wire[conn[t]] # <<>>
    BY SMTT(20), <1>8, <2>1 DEF ParseReply
  <2>3. /\ Head(wire[conn[t]]) \in Request
        /\ Tail(wire[conn[t]]) \in Seq(Request)
        /\ Len(Tail(wire[conn[t]])) = Len(wire[conn[t]]) - 1
    BY <2>2
  <2>4. /\ wire' \in [Conns -> Seq(Request)]
        /\ buffered' \in [Conns -> Nat]
        /\ answered' \in [Conns -> Nat]
        /\ \A c \in Conns : buffered'[c] <= answered'[c] /\ answered'[c] <= Len(wire'[c])
    <3> DEFINE d == conn[t]
    <3>1. /\ wire' = [wire EXCEPT ![d] = Tail(wire[d])]
          /\ buffered' = [buffered EXCEPT ![d] = buffered[d] - 1]
          /\ answered' = [answered EXCEPT ![d] = answered[d] - 1]
          /\ buffered[d] > 0
      BY Zenon, <1>8 DEF ParseReply, SplitFrame
    <3>2. d \in Conns /\ Tail(wire[d]) \in Seq(Request) /\ Len(Tail(wire[d])) = Len(wire[d]) - 1
      BY Zenon, <2>1, <2>3
    <3> HIDE DEF d
    <3>3. buffered[d] \in Nat /\ answered[d] \in Nat /\ buffered[d] <= answered[d]
      BY Zenon, <3>2
    <3>4. wire' \in [Conns -> Seq(Request)]
      BY Zenon, <3>1, <3>2
    <3>5. buffered' \in [Conns -> Nat] /\ answered' \in [Conns -> Nat]
      BY SMTT(20), <3>1, <3>2, <3>3
    <3>6. ASSUME NEW c \in Conns
          PROVE  buffered'[c] <= answered'[c] /\ answered'[c] <= Len(wire'[c])
      BY SMTT(20), <3>1, <3>2, <3>3
    <3> QED
      BY Zenon, <3>4, <3>5, <3>6
  <2>5. got' \in [Tasks -> Seq(Request)] /\ Len(got'[t]) = Len(got[t]) + 1
    BY SMTT(20), <1>8, <2>3 DEF ParseReply
  <2>6. \A u \in Tasks : Len(got'[u]) <= wrote[u] /\ wrote[u] <= Len(cmds[u])
    BY SMTT(20), <1>8, <2>5 DEF ParseReply, Reading
  <2> QED
    BY Zenon, <1>8, <2>4, <2>5, <2>6 DEF ParseReply, SplitFrame
<1>9. ASSUME NEW t \in Tasks, Return(t) PROVE RouterTypeOK'
  BY <1>9 DEF Return, streamVars
<1>10. ASSUME NEW c \in Conns, Serve(c) PROVE RouterTypeOK'
  <2>1. wire[c][answered[c] + 1] \in Request
    BY <1>10 DEF Serve
  <2>2. big' \in [Conns -> SUBSET Request]
    <3>1. CASE UNCHANGED big
      BY Zenon, <3>1
    <3>2. CASE big' = [big EXCEPT ![c] = @ \cup {wire[c][answered[c] + 1]}]
      BY Zenon, <2>1, <3>2
    <3> QED
      BY Zenon, <1>10, <3>1, <3>2 DEF Serve
  <2>3. answered' \in [Conns -> Nat]
        /\ \A d \in Conns : buffered[d] <= answered'[d] /\ answered'[d] <= Len(wire[d])
    BY SMTT(20), <1>10 DEF Serve
  <2> QED
    BY Zenon, <1>10, <2>2, <2>3 DEF Serve, taskVars
<1>11. ASSUME NEW c \in Conns, ServerClose(c) PROVE RouterTypeOK'
  <2>1. PICK n \in buffered[c] .. answered[c] :
          /\ answered' = [answered EXCEPT ![c] = n]
          /\ wire' = [wire EXCEPT ![c] = SubSeq(@, 1, n)]
    BY Zenon, <1>11 DEF ServerClose
  <2>2. SubSeq(wire[c], 1, n) \in Seq(Request) /\ Len(SubSeq(wire[c], 1, n)) = n
    BY SMTT(20), <2>1
  <2>3. /\ wire' \in [Conns -> Seq(Request)]
        /\ answered' \in [Conns -> Nat]
        /\ \A d \in Conns : buffered[d] <= answered'[d] /\ answered'[d] <= Len(wire'[d])
    BY SMTT(20), <2>1, <2>2
  <2> QED
    BY Zenon, <1>11, <2>3 DEF ServerClose, taskVars
<1>12. CASE Clock \/ UNCHANGED vars
  BY Zenon, <1>12 DEF Clock, vars, taskVars, streamVars
<1> QED
  BY ZenonT(30), <1>1, <1>2, <1>3, <1>4, <1>5, <1>6, <1>7, <1>8, <1>9, <1>10, <1>11, <1>12
     DEF Next, Progress

-----------------------------------------------------------------------------
(* Commands and progress of a call that has no guard yet. *)
LEMMA FreshCallsStep == RouterInv /\ [Next]_vars => FreshCalls'
<1> SUFFICES ASSUME PoolInv, RouterTypeOK, FreshCalls, [Next]_vars PROVE FreshCalls'
  BY Zenon DEF RouterInv, StreamsAligned
<1> USE RouterAssumption DEF RouterTypeOK, PoolTypeOK, PoolPC, FreshCalls, Goto
<1>1. ASSUME NEW t \in Tasks, Call(t) PROVE FreshCalls'
  <2>1. PICK n \in 1 .. MaxBatch :
          cmds' = [cmds EXCEPT ![t] = [i \in 1 .. n |-> <<t, calls[t] + 1, i>>]]
    BY Zenon, <1>1 DEF Call
  <2>2. Len(cmds'[t]) > 0 /\ \A u \in Tasks \ {t} : cmds'[u] = cmds[u]
    BY <2>1
  <2>3. pc[t] = "outside" /\ \A u \in Tasks \ {t} : pc'[u] = pc[u]
    BY Zenon, <1>1 DEF Call, Acquire
  <2> QED
    BY Zenon, <1>1, <2>2, <2>3 DEF Call
<1>2. ASSUME NEW t \in Tasks,
             Lookup(t) \/ Initialized(t) \/ GiveBack(t) \/ OpenFailed(t) \/ Opened(t)
      PROVE  FreshCalls'
  <2>1. UNCHANGED <<cmds, wrote, got>>
    BY Zenon, <1>2 DEF Lookup, Initialized, GiveBack, OpenFailed, Opened, taskVars
  <2>2. /\ pc[t] \notin {"outside", "guard"}
        /\ pc'[t] \in {"guard", "connecting", "initializing", "releasing"}
        /\ \A u \in Tasks \ {t} : pc'[u] = pc[u]
        /\ pc'[t] \in {"connecting", "initializing"} => pc[t] \in {"acquired", "connecting"}
    BY ZenonT(40), <1>2 DEF Lookup, Initialized, GiveBack, OpenFailed, Opened, TakeIdle, TakeNone, InitOk,
                InitErr, ConnectErr, Connect, PushIdle
  <2> QED
    BY Zenon, <2>1, <2>2
<1>3. ASSUME NEW t \in Tasks, Write(t) \/ ReadSocket(t) \/ ParseReply(t) PROVE FreshCalls'
  <2>1. pc[t] = "guard" /\ UNCHANGED <<pc, cmds>>
    BY Zenon, <1>3 DEF Write, ReadSocket, ParseReply, Sending, Reading, Use, poolVars, taskVars
  <2>2. \A u \in Tasks \ {t} : wrote'[u] = wrote[u] /\ got'[u] = got[u]
    BY SMTT(20), <1>3 DEF Write, ReadSocket, ParseReply, taskVars
  <2> QED
    BY Zenon, <2>1, <2>2
<1>4. ASSUME NEW t \in Tasks,
             WriteErr(t) \/ TooLarge(t) \/ ReadTimedOut(t) \/ ReadEof(t) \/ Finish(t)
      PROVE  FreshCalls'
  <2>1. DropStale(t) \/ DropGuard(t)
    BY Zenon, <1>4 DEF WriteErr, TooLarge, ReadTimedOut, ReadEof, Finish, Fail
  <2>2. UNCHANGED <<cmds, wrote, got>>
    BY Zenon, <1>4 DEF WriteErr, TooLarge, ReadTimedOut, ReadEof, Finish, Fail
  <2> QED
    BY SMTT(40), <2>1, <2>2 DEF DropStale, DropGuard
<1>5. ASSUME NEW t \in Tasks, Return(t) PROVE FreshCalls'
  <2>1. pc[t] = "releasing" /\ pc'[t] = "outside"
    BY <1>5 DEF Return, Release, PoolInv, NoLostWakeup
  <2>2. \A u \in Tasks \ {t} : pc'[u] = pc[u] \/ (pc[u] = "waiting" /\ pc'[u] = "acquired")
    <3>1. CASE waiters = <<>>
      BY Zenon, <1>5, <3>1 DEF Return, Release
    <3>2. CASE waiters # <<>>
      <4>1. Head(waiters) \in Tasks /\ pc[Head(waiters)] = "waiting"
        BY Zenon, <3>2, FirstWaiter
      <4> QED
        BY Zenon, <1>5, <3>2, <4>1 DEF Return, Release
    <3> QED
      BY Zenon, <3>1, <3>2
  <2> QED
    BY SMTT(20), <1>5, <2>1, <2>2 DEF Return
<1>6. ASSUME NEW c \in Conns, Serve(c) \/ ServerClose(c) PROVE FreshCalls'
  BY Zenon, <1>6 DEF Serve, ServerClose, poolVars, taskVars
<1>7. CASE Clock \/ UNCHANGED vars
  BY Zenon, <1>7 DEF Clock, Tick, vars, poolVars, taskVars
<1> QED
  BY ZenonT(30), <1>1, <1>2, <1>3, <1>4, <1>5, <1>6, <1>7 DEF Next, Progress

(* On a closed connection nothing waits for an answer. *)
LEMMA DeadDrainedStep == RouterInv /\ [Next]_vars => DeadDrained'
<1> SUFFICES ASSUME PoolInv, RouterTypeOK, DeadDrained, [Next]_vars PROVE DeadDrained'
  BY Zenon DEF RouterInv, StreamsAligned
<1> USE DEF RouterTypeOK, DeadDrained
<1>1. ASSUME NEW t \in Tasks, Opened(t) PROVE DeadDrained'
  BY Zenon, <1>1 DEF Opened, Connect, PoolTypeOK
<1>2. ASSUME NEW t \in Tasks, Write(t) PROVE DeadDrained'
  BY ZenonT(30), <1>2, GuardOwns DEF Write, Sending
<1>3. ASSUME NEW t \in Tasks, WriteErr(t) PROVE DeadDrained'
  BY Zenon, <1>3, GuardOwns DEF WriteErr, Sending
<1>4. ASSUME NEW t \in Tasks, ParseReply(t) PROVE DeadDrained'
  <2>1. conn[t] \in Conns
    BY Zenon, <1>4, GuardOwns DEF ParseReply, Reading
  <2>2. wire[conn[t]] \in Seq(Request) /\ wire[conn[t]] # <<>>
    BY SMTT(20), <1>4, <2>1 DEF ParseReply
  <2>3. Len(Tail(wire[conn[t]])) = Len(wire[conn[t]]) - 1
    BY <2>2
  <2> QED
    BY Zenon, <1>4, <2>1, <2>3 DEF ParseReply, SplitFrame
<1>5. ASSUME NEW c \in Conns, Serve(c) PROVE DeadDrained'
  BY Zenon, <1>5 DEF Serve
<1>6. ASSUME NEW c \in Conns, ServerClose(c) PROVE DeadDrained'
  <2>1. PICK n \in buffered[c] .. answered[c] :
          /\ answered' = [answered EXCEPT ![c] = n]
          /\ wire' = [wire EXCEPT ![c] = SubSeq(@, 1, n)]
    BY Zenon, <1>6 DEF ServerClose
  <2>2. Len(SubSeq(wire[c], 1, n)) = n
    BY <2>1
  <2> QED
    BY Zenon, <1>6, <2>1, <2>2 DEF ServerClose
<1>7. CASE UNCHANGED <<wire, answered, peer>>
  BY Zenon, <1>7
<1> QED
  BY ZenonT(30), <1>1, <1>2, <1>3, <1>4, <1>5, <1>6, <1>7
     DEF Next, Progress, Call, Lookup, Initialized, OpenFailed, ReadSocket, TooLarge,
         ReadTimedOut, ReadEof, Finish, GiveBack, Return, Clock, vars, streamVars
=============================================================================
