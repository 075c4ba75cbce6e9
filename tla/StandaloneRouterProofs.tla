---------------------- MODULE StandaloneRouterProofs ----------------------
(***************************************************************************)
(* Proofs about StandaloneRouter, last part: the inductive invariant and   *)
(* the theorems, for every number of tasks, connections, calls and         *)
(* commands, every pool size and every socket capacity.                    *)
(***************************************************************************)
EXTENDS StandaloneRouterStreams

(* The connection of a guard has outstanding what its call is owed. *)
LEMMA UsedOwedStep == RouterInv /\ [Next]_vars => UsedOwed' /\ AlignedUnlessTimedOut'
<1> SUFFICES ASSUME RouterInv, [Next]_vars,
                    NEW t \in Tasks, NEW c \in Conns, pc'[t] = "guard", conn'[t] = c
             PROVE  InUse(t, c)'
  <2>1. ASSUME RouterInv, [Next]_vars
        PROVE  PoolInv'
    BY Zenon, <2>1, RouterPoolStep, PoolInvStep DEF RouterInv
  <2>2. ASSUME PoolInv', NEW t \in Tasks, pc'[t] = "guard" PROVE conn'[t] \in Conns
    BY Zenon, <2>2 DEF PoolInv, PoolTypeOK, ExclusiveOwnership
  <2> QED
    BY Zenon, <2>1, <2>2 DEF UsedOwed, InUse, AlignedUnlessTimedOut, TimedOut
<1>a. ASSUME pc[t] = "guard", conn[t] = c PROVE InUse(t, c)
  BY Zenon, <1>a DEF RouterInv, StreamsAligned, UsedOwed, InUse, AlignedUnlessTimedOut, TimedOut
<1>b. ASSUME Unused(c) PROVE Quiet(c)
  BY Zenon, <1>b DEF RouterInv, StreamsAligned, UnusedQuiet
<1>c. ASSUME pc[t] = "guard", conn[t] = c, Same(c), UNCHANGED <<cmds, wrote, got>>
      PROVE  InUse(t, c)'
  BY Zenon, <1>a, <1>c, SameInUse
<1> USE DEF Goto
<1>1. ASSUME NEW u \in Tasks, Call(u) \/ Lookup(u) \/ Opened(u) \/ Initialized(u)
                               \/ OpenFailed(u) \/ GiveBack(u) \/ Return(u)
      PROVE  InUse(t, c)'
  <2>1. CASE pc[t] = "guard"
    <3>1. conn[t] = c /\ t # u
      BY Zenon, <1>1, <2>1, PoolTypes DEF Call, Lookup, Opened, Initialized, OpenFailed, GiveBack, Return,
            Acquire, TakeIdle, TakeNone, Connect, InitOk, ConnectErr, InitErr, PushIdle, Release
    <3>2. cmds'[t] = cmds[t] /\ wrote'[t] = wrote[t] /\ got'[t] = got[t]
      <4>1. CASE Call(u)
        BY Zenon, <3>1, <4>1, CallTypes DEF Call
      <4>2. CASE Return(u)
        BY Zenon, <3>1, <4>2, CallTypes DEF Return
      <4> QED
        BY Zenon, <1>1, <4>1, <4>2 DEF Lookup, Opened, Initialized, OpenFailed, GiveBack, taskVars
    <3>3. Same(c)
      <4>1. CASE Opened(u)
        <5>1. PICK d \in Conns \ Open : conn' = [conn EXCEPT ![u] = d]
          BY Zenon, <4>1 DEF Opened, Connect
        <5>2. conn'[u] = d
          BY Zenon, <5>1, PoolTypes
        <5>3. c # d
          <6>1. conn[t] \in Held
            BY Zenon, <3>1, PoolAssumption DEF Held
          <6> QED
            BY Zenon, <3>1, <5>1, <6>1 DEF Open
        <5> QED
          BY Zenon, <4>1, <5>2, <5>3, StreamTypes DEF Opened, Same
      <4>2. CASE UNCHANGED <<streamVars, failed>>
        BY Zenon, <4>2 DEF Same, streamVars
      <4> QED
        BY Zenon, <1>1, <4>1, <4>2 DEF Call, Lookup, Initialized, OpenFailed, GiveBack, Return
    <3> QED
      BY Zenon, <1>a, <2>1, <3>1, <3>2, <3>3, SameInUse
  <2>2. CASE pc[t] # "guard"
    <3>1. TakeIdle(u) \/ InitOk(u)
      <4>1. CASE Return(u)
        <5>1. \A v \in Tasks : pc'[v] \in {pc[v], "outside", "acquired"}
          BY Zenon, <4>1, PoolTypes DEF Return, Release
        <5> QED
          BY Zenon, <5>1, <2>2
      <4> QED
        BY Zenon, <1>1, <2>2, <4>1, PoolTypes DEF Call, Lookup, Opened, Initialized, OpenFailed, GiveBack,
            Acquire, TakeNone, Connect, ConnectErr, InitErr, PushIdle
    <3>2. u = t /\ pc[t] \in {"acquired", "initializing"}
      BY Zenon, <2>2, <3>1, PoolTypes DEF TakeIdle, InitOk
    <3>3. wrote[t] = 0 /\ got[t] = <<>>
      BY Zenon, <3>2 DEF RouterInv, StreamsAligned, FreshCalls
    <3>4. Unused(c)
      BY Zenon, <3>1, <3>2, PoolTypes DEF TakeIdle, InitOk, Unused
    <3>5. UNCHANGED <<streamVars, failed, cmds, wrote, got>>
      BY Zenon, <1>1, <3>1, <3>2 DEF Call, Lookup, Opened, Initialized, OpenFailed, GiveBack, Return,
         Acquire, TakeIdle, TakeNone, Connect, ConnectErr, InitOk, InitErr, PushIdle, Release,
         taskVars
    <3>6. InUse(t, c) /\ Same(c)
      BY Zenon, <1>b, <3>3, <3>4, <3>5, QuietInUse DEF RouterInv, Same, streamVars
    <3> QED
      BY Zenon, <3>5, <3>6, SameInUse
  <2> QED
    BY Zenon, <2>1, <2>2
<1>2. ASSUME NEW u \in Tasks, Write(u) \/ ReadSocket(u) \/ ParseReply(u) PROVE InUse(t, c)'
  <2>1. /\ pc[u] = "guard" /\ UNCHANGED <<pc, conn, cmds, failed>>
        /\ c # conn[u] => Same(c)
    BY Zenon, <1>2, UseLocal
  <2>2. InUse(t, c)
    BY Zenon, <1>a, <2>1
  <2>3. CASE t = u
    <3>1. c = conn[t]
      BY Zenon, <2>1
    <3>2. CASE Write(t)
      BY Zenon, <2>2, <3>1, <3>2, WriteInUse
    <3>3. CASE ParseReply(t)
      BY Zenon, <2>2, <3>1, <3>3, ParseInUse
    <3>4. CASE ReadSocket(t)
      <4>1. /\ UNCHANGED <<taskVars, wire, answered, big, peer, failed>>
            /\ buffered[c] = 0
        BY Zenon, <3>1, <3>4 DEF ReadSocket
      <4>2. ~Jammed(c)
        BY ONLY <4>1 DEF Jammed
      <4> QED
        BY Zenon, <2>2, <4>1, <4>2 DEF InUse, Owed, TimedOut, taskVars
    <3> QED
      BY Zenon, <1>2, <2>3, <3>2, <3>3, <3>4
  <2>4. CASE t # u
    <3>1. c # conn[u]
      BY Zenon, <2>1, <2>4, GuardOwns, PoolTypes, PoolAssumption DEF PoolInv, ExclusiveOwnership
    <3>2. wrote'[t] = wrote[t] /\ got'[t] = got[t]
      <4>1. CASE Write(u)
        BY Zenon, <2>4, <4>1, CallTypes DEF Write
      <4>2. CASE ReadSocket(u)
        BY Zenon, <4>2 DEF ReadSocket, taskVars
      <4>3. CASE ParseReply(u)
        BY Zenon, <2>4, <4>3, CallTypes DEF ParseReply
      <4> QED
        BY Zenon, <1>2, <4>1, <4>2, <4>3
    <3> QED
      BY Zenon, <2>1, <2>2, <3>1, <3>2, SameInUse
  <2> QED
    BY Zenon, <2>3, <2>4
<1>3. ASSUME NEW u \in Tasks,
             WriteErr(u) \/ TooLarge(u) \/ ReadTimedOut(u) \/ ReadEof(u) \/ Finish(u)
      PROVE  InUse(t, c)'
  <2>1. DropStale(u) \/ DropGuard(u)
    BY Zenon, <1>3 DEF WriteErr, TooLarge, ReadTimedOut, ReadEof, Finish, Fail
  <2>2. UNCHANGED <<cmds, wrote, got>>
    BY Zenon, <1>3 DEF WriteErr, TooLarge, ReadTimedOut, ReadEof, Finish, Fail
  <2>3. t # u /\ pc[t] = "guard" /\ conn[t] = c /\ pc[u] = "guard"
    BY Zenon, <2>1, PoolTypes DEF DropStale, DropGuard
  <2>4. c # conn[u]
    BY Zenon, <2>3, GuardOwns, PoolTypes, PoolAssumption DEF PoolInv, ExclusiveOwnership
  <2>5. Same(c)
    BY Zenon, <1>3, <2>4, EndQuiet
  <2> QED
    BY Zenon, <1>c, <2>2, <2>3, <2>5
<1>4. ASSUME NEW d \in Conns, Serve(d) \/ ServerClose(d) PROVE InUse(t, c)'
  <2>1. UNCHANGED <<pc, conn, cmds, wrote, got>>
    BY Zenon, <1>4 DEF Serve, ServerClose, poolVars, taskVars
  <2>2. CASE c = d
    BY Zenon, <1>4, <1>a, <2>1, <2>2, ServerInUse
  <2>3. CASE c # d
    BY Zenon, <1>4, <1>c, <2>1, <2>3, ServerQuiet DEF RouterInv
  <2> QED
    BY Zenon, <2>2, <2>3
<1>5. CASE Clock \/ UNCHANGED vars
  <2>1. UNCHANGED <<pc, conn, cmds, wrote, got, streamVars, failed>>
    BY Zenon, <1>5 DEF Clock, Tick, vars, poolVars, taskVars
  <2> QED
    BY Zenon, <1>c, <2>1 DEF Same, streamVars
<1> QED
  BY Zenon, <1>1, <1>2, <1>3, <1>4, <1>5 DEF Next, Progress

-----------------------------------------------------------------------------
(* The invariant holds when the client is created, and every step keeps it. *)
LEMMA RouterInitInv == Init => RouterInv
<1> SUFFICES ASSUME Init PROVE RouterInv
  BY Zenon
<1>1. PoolInv
  BY Zenon, PoolInitInv DEF Init
<1>2. RouterTypeOK
  BY <1>1, RouterAssumption DEF Init, RouterTypeOK, PoolInv
<1>3. FreshCalls /\ DeadDrained
  BY Zenon DEF Init, PoolInit, FreshCalls, DeadDrained
<1>4. UnusedQuiet /\ UsedOwed /\ AlignedUnlessTimedOut
  BY Zenon DEF Init, PoolInit, UnusedQuiet, Quiet, UsedOwed, AlignedUnlessTimedOut
<1> QED
  BY Zenon, <1>1, <1>2, <1>3, <1>4 DEF RouterInv, StreamsAligned

(* The inductive invariant of the composition. *)
THEOREM RouterInvariance == Spec => []RouterInv
<1>1. RouterInv /\ [Next]_vars => RouterInv'
  <2> SUFFICES ASSUME RouterInv, [Next]_vars PROVE RouterInv'
    BY Zenon
  <2>1. PoolInv'
    BY Zenon, RouterPoolStep, PoolInvStep DEF RouterInv
  <2> QED
    BY Zenon, <2>1, RouterTypeStep, FreshCallsStep, DeadDrainedStep, UnusedQuietStep, UsedOwedStep
       DEF RouterInv, StreamsAligned
<1> QED
  BY RouterInitInv, <1>1, PTL DEF Spec

(* Type correctness of the router's state. *)
THEOREM RouterTypeCorrect == Spec => []RouterTypeOK
BY RouterInvariance, PTL DEF RouterInv

(* Every connection has outstanding just what its owner is owed. *)
THEOREM RouterStreamsAligned == Spec => []StreamsAligned
BY RouterInvariance, PTL DEF RouterInv

(***************************************************************************)
(* Whatever the server closes or oversizes, a call reads the replies to    *)
(* its own commands, in order, on a connection where no read has timed     *)
(* out.                                                                    *)
(***************************************************************************)
THEOREM RouterAligned == Spec => []AlignedUnlessTimedOut
BY RouterInvariance, PTL DEF RouterInv

-----------------------------------------------------------------------------
(* Without read timeouts. *)
NeverTimedOut == \A c \in Conns : ~TimedOut(c)
OkEnded == \A t \in Tasks : outcome[t] = "ok" => pc[t] \in {"returning", "releasing"}
AnswerInv == NeverTimedOut /\ OkEnded /\ AnswersMatch

(* read_timeout_ms = 0: no connection has a timed-out call behind it. *)
LEMMA NeverTimedOutStep ==
    ASSUME ReadTimeout = FALSE
    PROVE  RouterInv /\ NeverTimedOut /\ [Next]_vars => NeverTimedOut'
<1> SUFFICES ASSUME RouterInv, NeverTimedOut, [Next]_vars PROVE NeverTimedOut'
  BY Zenon
<1> USE StreamTypes DEF NeverTimedOut, TimedOut
<1>1. ASSUME NEW t \in Tasks, Opened(t) PROVE NeverTimedOut'
  BY Zenon, <1>1 DEF Opened
<1>2. ASSUME NEW t \in Tasks, WriteErr(t) \/ ReadEof(t) PROVE NeverTimedOut'
  <2>1. failed' = [failed EXCEPT ![conn[t]] = @ \cup {"dead"}]
    BY Zenon, <1>2 DEF WriteErr, ReadEof, Fail
  <2> QED
    BY Zenon, <2>1
<1>3. ASSUME NEW t \in Tasks, TooLarge(t) PROVE NeverTimedOut'
  BY Zenon, <1>3 DEF TooLarge, Fail
<1>4. CASE UNCHANGED failed
  BY Zenon, <1>4
<1> QED
  BY ZenonT(30), <1>1, <1>2, <1>3, <1>4
     DEF Next, Progress, Call, Lookup, Initialized, OpenFailed, Write, ReadSocket, ParseReply,
         ReadTimedOut, Finish, GiveBack, Return, Serve, ServerClose, Clock, vars

(* A call that has ended well keeps its replies until it returns. *)
LEMMA AnswersStep ==
    RouterInv /\ NeverTimedOut /\ OkEnded /\ AnswersMatch /\ [Next]_vars
        => OkEnded' /\ AnswersMatch'
<1> SUFFICES ASSUME RouterInv, NeverTimedOut, OkEnded, AnswersMatch, [Next]_vars,
                    NEW t \in Tasks, outcome'[t] = "ok"
             PROVE  pc'[t] \in {"returning", "releasing"} /\ got'[t] = cmds'[t]
  BY Zenon DEF OkEnded, AnswersMatch
<1> USE DEF Goto
<1>a. ASSUME outcome[t] = "ok", pc'[t] \in {"returning", "releasing"},
             got'[t] = got[t], cmds'[t] = cmds[t]
      PROVE  pc'[t] \in {"returning", "releasing"} /\ got'[t] = cmds'[t]
  BY Zenon, <1>a DEF AnswersMatch
<1>b. outcome[t] = "ok" => pc[t] \in {"returning", "releasing"}
  BY Zenon DEF OkEnded
<1>1. ASSUME NEW u \in Tasks, Call(u) PROVE pc'[t] \in {"returning", "releasing"} /\ got'[t] = cmds'[t]
  <2>1. u # t /\ outcome[t] = "ok"
    BY Zenon, <1>1, CallTypes DEF Call
  <2> QED
    BY Zenon, <1>1, <1>a, <1>b, <2>1, CallTypes, PoolTypes DEF Call, Acquire
<1>2. ASSUME NEW u \in Tasks, Lookup(u) \/ Opened(u) \/ Initialized(u) \/ GiveBack(u)
      PROVE  pc'[t] \in {"returning", "releasing"} /\ got'[t] = cmds'[t]
  <2>1. UNCHANGED <<outcome, got, cmds>>
    BY Zenon, <1>2 DEF Lookup, Opened, Initialized, GiveBack, taskVars
  <2>2. pc[t] \in {"returning", "releasing"} => pc'[t] \in {"returning", "releasing"}
    BY Zenon, <1>2, PoolTypes DEF Lookup, Opened, Initialized, GiveBack, TakeIdle, TakeNone, Connect, InitOk, PushIdle
  <2> QED
    BY Zenon, <1>a, <1>b, <2>1, <2>2
<1>3. ASSUME NEW u \in Tasks, OpenFailed(u) \/ WriteErr(u) \/ TooLarge(u) \/ ReadTimedOut(u) \/ ReadEof(u)
      PROVE  pc'[t] \in {"returning", "releasing"} /\ got'[t] = cmds'[t]
  <2>1. outcome' = [outcome EXCEPT ![u] = "error"] /\ UNCHANGED <<got, cmds>>
    BY Zenon, <1>3 DEF OpenFailed, WriteErr, TooLarge, ReadTimedOut, ReadEof, Fail
  <2>2. u # t /\ outcome[t] = "ok"
    BY Zenon, <2>1, CallTypes
  <2>3. ConnectErr(u) \/ InitErr(u) \/ DropStale(u) \/ DropGuard(u)
    BY Zenon, <1>3 DEF OpenFailed, WriteErr, TooLarge, ReadTimedOut, ReadEof, Fail
  <2>4. pc'[t] = pc[t]
    BY Zenon, <2>2, <2>3, PoolTypes DEF ConnectErr, InitErr, DropStale, DropGuard
  <2> QED
    BY Zenon, <1>a, <1>b, <2>1, <2>2, <2>4
<1>4. ASSUME NEW u \in Tasks, Write(u) \/ ReadSocket(u) \/ ParseReply(u)
      PROVE  pc'[t] \in {"returning", "releasing"} /\ got'[t] = cmds'[t]
  <2>1. pc[u] = "guard" /\ UNCHANGED <<pc, cmds, outcome>>
    BY ZenonT(30), <1>4, UseLocal DEF Write, ReadSocket, ParseReply, taskVars
  <2>2. u # t
    BY Zenon, <1>b, <2>1
  <2>3. got'[t] = got[t]
    BY Zenon, <1>4, <2>2, CallTypes DEF Write, ReadSocket, ParseReply, taskVars
  <2> QED
    BY Zenon, <1>a, <1>b, <2>1, <2>3
<1>5. ASSUME NEW u \in Tasks, Finish(u)
      PROVE  pc'[t] \in {"returning", "releasing"} /\ got'[t] = cmds'[t]
  <2>1. pc[u] = "guard" /\ (DropStale(u) \/ DropGuard(u)) /\ UNCHANGED <<got, cmds>>
    BY Zenon, <1>5 DEF Finish
  <2>2. CASE u = t
    <3>1. pc'[t] \in {"returning", "releasing"}
      BY Zenon, <2>1, <2>2, PoolTypes DEF DropStale, DropGuard
    <3>2. conn[t] \in Conns
      BY Zenon, <2>1, <2>2, GuardOwns, PoolTypes
    <3>3. \A i \in DOMAIN got[t] : got[t][i] = cmds[t][i]
      BY Zenon, <2>1, <2>2, <3>2 DEF RouterInv, AlignedUnlessTimedOut, NeverTimedOut, TimedOut
    <3>4. /\ Len(got[t]) = Len(cmds[t])
          /\ got[t] \in Seq(Request) /\ cmds[t] \in Seq(Request)
      BY Zenon, <1>5, <2>2, CallTypes DEF Finish
    <3>5. got[t] = cmds[t]
      BY ONLY <3>3, <3>4, SameElements
    <3> QED
      BY Zenon, <2>1, <3>1, <3>5
  <2>3. CASE u # t
    <3>1. outcome[t] = "ok"
      BY Zenon, <1>5, <2>3, CallTypes DEF Finish
    <3>2. pc'[t] = pc[t]
      BY Zenon, <2>1, <2>3, PoolTypes DEF DropStale, DropGuard
    <3> QED
      BY Zenon, <1>a, <1>b, <2>1, <3>1, <3>2
  <2> QED
    BY Zenon, <2>2, <2>3
<1>6. ASSUME NEW u \in Tasks, Return(u)
      PROVE  pc'[t] \in {"returning", "releasing"} /\ got'[t] = cmds'[t]
  <2>1. u # t /\ outcome[t] = "ok" /\ got'[t] = got[t] /\ cmds'[t] = cmds[t]
    BY Zenon, <1>6, CallTypes DEF Return
  <2>2. pc'[t] = pc[t] \/ pc[t] = "waiting"
    <3>1. CASE waiters = <<>>
      BY Zenon, <1>6, <2>1, <3>1, PoolTypes DEF Return, Release
    <3>2. CASE waiters # <<>>
      <4>1. Head(waiters) \in Tasks /\ pc[Head(waiters)] = "waiting"
        BY Zenon, <3>2, FirstWaiter, PoolTypes
      <4> QED
        BY Zenon, <1>6, <2>1, <3>2, <4>1, PoolTypes DEF Return, Release
    <3> QED
      BY Zenon, <3>1, <3>2
  <2> QED
    BY Zenon, <1>a, <1>b, <2>1, <2>2
<1>7. CASE (\E c \in Conns : Serve(c) \/ ServerClose(c)) \/ Clock \/ UNCHANGED vars
  <2>1. UNCHANGED <<pc, outcome, got, cmds>>
    BY Zenon, <1>7 DEF Serve, ServerClose, Clock, Tick, vars, poolVars, taskVars
  <2> QED
    BY Zenon, <1>a, <1>b, <2>1
<1> QED
  BY ZenonT(30), <1>1, <1>2, <1>3, <1>4, <1>5, <1>6, <1>7 DEF Next, Progress

(***************************************************************************)
(* With read_timeout_ms = 0, a call that returns Ok returns the replies to *)
(* its own commands in their order: lost connections, failed writes,       *)
(* errors within a pipeline and oversized replies cannot change that.      *)
(***************************************************************************)
THEOREM RouterAnswers ==
    ASSUME ReadTimeout = FALSE
    PROVE  Spec => []AnswersMatch
<1>1. Init => AnswerInv
  BY Zenon DEF Init, AnswerInv, NeverTimedOut, TimedOut, OkEnded, AnswersMatch
<1>2. RouterInv /\ AnswerInv /\ [Next]_vars => AnswerInv'
  BY Zenon, NeverTimedOutStep, AnswersStep DEF AnswerInv
<1>3. AnswerInv => AnswersMatch
  BY Zenon DEF AnswerInv
<1> QED
  BY <1>1, <1>2, <1>3, RouterInvariance, PTL DEF Spec
=============================================================================
