---------------------- MODULE StandaloneRouterStreams ----------------------
(***************************************************************************)
(* Proofs about StandaloneRouter, second part: what one step does to the   *)
(* stream of one connection, unused or in use.                             *)
(***************************************************************************)
EXTENDS StandaloneRouterTypes

(* The stream of c is what it was. *)
Same(c) ==
    /\ wire'[c] = wire[c] /\ buffered'[c] = buffered[c] /\ answered'[c] = answered[c]
    /\ big'[c] = big[c] /\ peer'[c] = peer[c] /\ failed'[c] = failed[c]

(* A stream that does not change stays quiet. *)
LEMMA SameQuiet ==
    ASSUME NEW c \in Conns, Same(c), Quiet(c)
    PROVE  Quiet(c)'
BY Zenon DEF Same, Quiet, TimedOut, Jammed

(* The server cannot disturb a quiet connection, nor unjam one. *)
LEMMA ServerQuiet ==
    ASSUME RouterTypeOK, NEW c \in Conns, Serve(c) \/ ServerClose(c)
    PROVE  /\ \A d \in Conns \ {c} : Same(d)
           /\ failed' = failed
           /\ peer[c] = "up"
           /\ Jammed(c) => Jammed(c)'
           /\ Quiet(c) => Quiet(c)'
<1> USE DEF RouterTypeOK
<1>1. /\ \A d \in Conns \ {c} : Same(d)
      /\ failed' = failed /\ buffered' = buffered
      /\ peer[c] = "up"
  BY Zenon DEF Serve, ServerClose, Same
<1>2. big[c] \subseteq big'[c]
  BY DEF Serve, ServerClose
<1>3. /\ wire[c] = <<>> => wire'[c] = <<>>
      /\ buffered[c] > 0 => Head(wire'[c]) = Head(wire[c])
  <2>1. CASE Serve(c)
    BY Zenon, <2>1 DEF Serve
  <2>2. CASE ServerClose(c)
    <3>1. PICK n \in buffered[c] .. answered[c] : wire' = [wire EXCEPT ![c] = SubSeq(@, 1, n)]
      BY Zenon, <2>2 DEF ServerClose
    <3>2. wire'[c] = SubSeq(wire[c], 1, n)
      BY Zenon, <3>1
    <3>3. n \in Nat /\ n <= Len(wire[c]) /\ wire[c] \in Seq(Request)
      BY <3>1
    <3>4. ASSUME wire[c] = <<>> PROVE wire'[c] = <<>>
      BY <3>2, <3>3, <3>4
    <3>5. ASSUME buffered[c] > 0 PROVE Head(wire'[c]) = Head(wire[c])
      <4>1. n > 0
        BY <3>1, <3>5
      <4>2. SubSeq(wire[c], 1, n)[1] = wire[c][1] /\ Len(SubSeq(wire[c], 1, n)) = n
        BY <4>1, <3>3
      <4> QED
        BY <3>2, <3>3, <4>1, <4>2
    <3> QED
      BY Zenon, <3>4, <3>5
  <2> QED
    BY Zenon, <2>1, <2>2
<1>4. Jammed(c) => Jammed(c)'
  BY Zenon, <1>1, <1>2, <1>3 DEF Jammed
<1>5. Quiet(c) => Quiet(c)'
  BY Zenon, <1>1, <1>3, <1>4 DEF Quiet, TimedOut
<1> QED
  BY Zenon, <1>1, <1>4, <1>5

(* A call that ends leaves a quiet connection behind. *)
LEMMA EndQuiet ==
    ASSUME RouterInv, NEW t \in Tasks,
           WriteErr(t) \/ TooLarge(t) \/ ReadTimedOut(t) \/ ReadEof(t) \/ Finish(t)
    PROVE  /\ conn[t] \in Conns
           /\ \A c \in Conns : c = conn[t] => Quiet(c)'
           /\ \A c \in Conns \ {conn[t]} : Same(c)
<1>1. conn[t] \in Conns /\ pc[t] = "guard"
  BY Zenon, GuardOwns, PoolTypes DEF WriteErr, TooLarge, ReadTimedOut, ReadEof, Finish, Sending, Reading
<1>2. \A c \in Conns \ {conn[t]} : Same(c)
  <2>1. CASE WriteErr(t)
    BY Zenon, <1>1, <2>1, StreamTypes DEF WriteErr, Fail, Same
  <2>2. CASE Finish(t)
    BY Zenon, <2>2 DEF Finish, Same, streamVars
  <2>3. CASE TooLarge(t) \/ ReadTimedOut(t) \/ ReadEof(t)
    <3>1. UNCHANGED streamVars
      BY Zenon, <2>3 DEF TooLarge, ReadTimedOut, ReadEof
    <3>2. PICK how \in {"timeout", "dead", "oversize"} : Fail(t, how)
      BY Zenon, <2>3 DEF TooLarge, ReadTimedOut, ReadEof
    <3> QED
      BY Zenon, <1>1, <3>1, <3>2, StreamTypes DEF Fail, Same, streamVars
  <2> QED
    BY Zenon, <2>1, <2>2, <2>3
<1>3. ASSUME NEW c \in Conns, c = conn[t] PROVE Quiet(c)'
  <2>1. CASE WriteErr(t)
    BY Zenon, <1>3, <2>1, StreamTypes DEF WriteErr, Quiet
  <2>2. CASE TooLarge(t)
    BY Zenon, <1>3, <2>2 DEF TooLarge, Quiet, Jammed, streamVars
  <2>3. CASE ReadTimedOut(t)
    BY Zenon, <1>3, <2>3, StreamTypes DEF ReadTimedOut, Fail, Quiet, TimedOut
  <2>4. CASE ReadEof(t)
    <3>1. Len(wire[c]) = 0 /\ wire[c] \in Seq(Request)
      BY Zenon, <1>3, <2>4, StreamCounts DEF ReadEof, RouterInv, StreamsAligned, DeadDrained
    <3>2. wire'[c] = <<>>
      BY <3>1, <2>4 DEF ReadEof, streamVars
    <3> QED
      BY Zenon, <3>2 DEF Quiet
  <2>5. CASE Finish(t)
    <3>1. Same(c)
      BY Zenon, <2>5 DEF Finish, Same, streamVars
    <3>2. TimedOut(c) \/ Jammed(c) \/ peer[c] = "reset" \/ Owed(t, c)
      BY Zenon, <1>1, <1>3 DEF RouterInv, StreamsAligned, UsedOwed
    <3>3. CASE Owed(t, c)
      <4>1. Len(got[t]) = Len(cmds[t]) /\ Len(got[t]) + Len(wire[c]) <= wrote[t]
        BY Zenon, <2>5, <3>3 DEF Finish, Owed
      <4>2. wire[c] \in Seq(Request) /\ Len(wire[c]) = 0
        <5> DEFINE g == Len(got[t])
                   k == Len(cmds[t])
                   m == Len(wire[c])
                   w == wrote[t]
        <5>1. /\ g \in Nat /\ k \in Nat /\ m \in Nat /\ w \in Nat
              /\ g = k /\ g + m <= w /\ w <= k
          BY Zenon, <4>1, CallCounts, StreamCounts
        <5>2. m = 0
          <6> HIDE DEF g, k, m, w
          <6> QED
            BY ONLY <5>1
        <5> QED
          BY Zenon, <5>2, StreamCounts
      <4>3. wire[c] = <<>>
        BY <4>2
      <4> QED
        BY Zenon, <3>1, <4>3, SameQuiet DEF Quiet
    <3> QED
      BY Zenon, <3>1, <3>2, <3>3, SameQuiet DEF Quiet
  <2> QED
    BY Zenon, <2>1, <2>2, <2>3, <2>4, <2>5
<1> QED
  BY Zenon, <1>1, <1>2, <1>3

(* Reading and writing touch the stream of the guard's connection alone. *)
LEMMA UseLocal ==
    ASSUME RouterInv, NEW t \in Tasks, Write(t) \/ ReadSocket(t) \/ ParseReply(t)
    PROVE  /\ pc[t] = "guard" /\ conn[t] \in Conns
           /\ UNCHANGED <<idle, pc, conn, cmds, failed>>
           /\ \A c \in Conns \ {conn[t]} : Same(c)
<1>1. conn[t] \in Conns /\ pc[t] = "guard"
  BY Zenon, GuardOwns, PoolTypes DEF Write, ReadSocket, ParseReply, Sending, Reading
<1>2. UNCHANGED <<idle, pc, conn, cmds, failed>>
  BY Zenon DEF Write, ReadSocket, ParseReply, Use, poolVars, taskVars
<1>3. \A c \in Conns \ {conn[t]} : Same(c)
  <2>1. CASE Write(t)
    BY Zenon, <1>1, <2>1, StreamTypes DEF Write, Same
  <2>2. CASE ReadSocket(t)
    BY Zenon, <1>1, <2>2, StreamTypes DEF ReadSocket, Same
  <2>3. CASE ParseReply(t)
    BY Zenon, <1>1, <2>3, StreamTypes DEF ParseReply, SplitFrame, Same
  <2> QED
    BY Zenon, <2>1, <2>2, <2>3
<1> QED
  BY Zenon, <1>1, <1>2, <1>3

(* Connections that nobody uses stay quiet. *)
LEMMA UnusedQuietStep == RouterInv /\ [Next]_vars => UnusedQuiet'
<1> SUFFICES ASSUME RouterInv, [Next]_vars,
                    NEW c \in Conns, Unused(c)'
             PROVE  Quiet(c)'
  BY Zenon DEF UnusedQuiet
<1>a. ASSUME Unused(c), Same(c) PROVE Quiet(c)'
  BY Zenon, <1>a, SameQuiet DEF RouterInv, StreamsAligned, UnusedQuiet
<1>b. ASSUME UNCHANGED <<streamVars, failed>> PROVE Same(c)
  BY Zenon, <1>b DEF Same, streamVars
<1> USE DEF PoolTypeOK, PoolPC, Goto
<1>1. ASSUME NEW t \in Tasks, Call(t) \/ Lookup(t) \/ Initialized(t) \/ OpenFailed(t)
                               \/ Return(t) \/ GiveBack(t)
      PROVE  Quiet(c)'
  <2>1. UNCHANGED <<streamVars, failed>>
    BY Zenon, <1>1 DEF Call, Lookup, Initialized, OpenFailed, Return, GiveBack
  <2>2. Unused(c)
    <3> USE DEF RouterInv, PoolInv, Unused
    <3>1. CASE Call(t)
      BY Zenon, <3>1 DEF Call, Acquire
    <3>2. CASE TakeIdle(t)
      <4>1. PICK i \in DOMAIN idle : idle' = SubSeq(idle, 1, i - 1)
        BY Zenon, <3>2 DEF TakeIdle
      <4>2. \A j \in DOMAIN idle' : j \in DOMAIN idle /\ idle'[j] = idle[j]
        BY ZenonT(20), <4>1, PoppedPrefix
      <4> QED
        BY Zenon, <3>2, <4>2 DEF TakeIdle
    <3>3. CASE TakeNone(t)
      BY <3>3 DEF TakeNone
    <3>4. CASE Initialized(t)
      BY Zenon, <3>4 DEF Initialized, InitOk
    <3>5. CASE OpenFailed(t)
      BY Zenon, <3>5 DEF OpenFailed, ConnectErr, InitErr
    <3>6. CASE Return(t)
      <4>1. \A u \in Tasks : pc'[u] \in {pc[u], "outside", "acquired"}
        BY Zenon, <3>6 DEF Return, Release
      <4> QED
        BY Zenon, <3>6, <4>1 DEF Return, Release
    <3>7. CASE GiveBack(t)
      <4>1. pc[t] = "returning" /\ conn'[t] = NoConn /\ pc'[t] = "releasing"
            /\ \A u \in Tasks \ {t} : conn'[u] = conn[u] /\ pc'[u] = pc[u]
        BY Zenon, <3>7 DEF GiveBack, PushIdle
      <4>2. idle' = idle \/ idle' = Append(idle, conn[t])
        BY Zenon, <3>7 DEF GiveBack, PushIdle
      <4>3. \A j \in DOMAIN idle' : (j \in DOMAIN idle /\ idle'[j] = idle[j]) \/ idle'[j] = conn[t]
        <5>1. idle \in Seq(Conns) /\ conn[t] \in Conns
          BY Zenon, <4>1, GuardOwns
        <5>2. CASE idle' = Append(idle, conn[t])
          BY ONLY <5>1, <5>2
        <5> QED
          BY Zenon, <4>2, <5>2
      <4> QED
        BY Zenon, <4>1, <4>3
    <3> QED
      BY ZenonT(20), <1>1, <3>1, <3>2, <3>3, <3>4, <3>5, <3>6, <3>7 DEF Lookup
  <2> QED
    BY Zenon, <2>1, <2>2, <1>a, <1>b
<1>2. ASSUME NEW t \in Tasks, Opened(t) PROVE Quiet(c)'
  <2>1. PICK d \in Conns \ Open : conn' = [conn EXCEPT ![t] = d]
    BY Zenon, <1>2 DEF Opened, Connect
  <2>2. /\ conn'[t] = d
        /\ \A u \in Tasks \ {t} : conn'[u] = conn[u] /\ pc'[u] = pc[u]
        /\ idle' = idle
    BY Zenon, <1>2, <2>1 DEF Opened, Connect, RouterInv, PoolInv
  <2>3. CASE c = d
    <3>1. wire'[d] = <<>>
      BY ZenonT(20), <1>2, <2>2 DEF Opened, RouterInv, RouterTypeOK
    <3> QED
      BY Zenon, <2>3, <3>1 DEF Quiet
  <2>4. CASE c # d
    <3>1. Unused(c)
      BY Zenon, <2>2, <2>4 DEF Unused
    <3>2. Same(c)
      BY ZenonT(30), <1>2, <2>2, <2>4 DEF Opened, Same, RouterInv, RouterTypeOK
    <3> QED
      BY Zenon, <3>1, <3>2, <1>a
  <2> QED
    BY Zenon, <2>3, <2>4
<1>3. ASSUME NEW t \in Tasks, Write(t) \/ ReadSocket(t) \/ ParseReply(t) PROVE Quiet(c)'
  <2>1. /\ pc[t] = "guard" /\ UNCHANGED <<idle, pc, conn>>
        /\ c # conn[t] => Same(c)
    BY Zenon, <1>3, UseLocal
  <2>2. Unused(c)
    BY Zenon, <2>1 DEF Unused
  <2>3. c # conn[t]
    BY Zenon, <2>1, <2>2 DEF Unused, RouterInv, PoolInv, ExclusiveOwnership
  <2> QED
    BY Zenon, <2>1, <2>2, <2>3, <1>a
<1>4. ASSUME NEW t \in Tasks,
             WriteErr(t) \/ TooLarge(t) \/ ReadTimedOut(t) \/ ReadEof(t) \/ Finish(t)
      PROVE  Quiet(c)'
  <2>1. /\ c = conn[t] => Quiet(c)'
        /\ c # conn[t] => Same(c)
    BY Zenon, <1>4, EndQuiet
  <2>2. DropStale(t) \/ DropGuard(t)
    BY Zenon, <1>4 DEF WriteErr, TooLarge, ReadTimedOut, ReadEof, Finish, Fail
  <2>3. c # conn[t] => Unused(c)
    BY Zenon, <2>2 DEF Unused, DropStale, DropGuard, RouterInv, PoolInv
  <2> QED
    BY Zenon, <2>1, <2>3, <1>a
<1>5. ASSUME NEW d \in Conns, Serve(d) \/ ServerClose(d) PROVE Quiet(c)'
  <2>1. Unused(c)
    BY Zenon, <1>5 DEF Unused, Serve, ServerClose, poolVars
  <2>2. Quiet(c)
    BY Zenon, <2>1 DEF RouterInv, StreamsAligned, UnusedQuiet
  <2>3. (c = d => Quiet(c)') /\ (c # d => Same(c))
    BY Zenon, <1>5, <2>2, ServerQuiet DEF RouterInv
  <2> QED
    BY Zenon, <2>1, <2>3, <1>a
<1>6. CASE Clock \/ UNCHANGED vars
  <2>1. Unused(c) /\ UNCHANGED <<streamVars, failed>>
    BY Zenon, <1>6 DEF Clock, Tick, vars, poolVars, Unused
  <2> QED
    BY Zenon, <2>1, <1>a, <1>b
<1> QED
  BY Zenon, <1>1, <1>2, <1>3, <1>4, <1>5, <1>6 DEF Next, Progress

(* What holds of the connection c that the guard of t has: UsedOwed and *)
(* AlignedUnlessTimedOut.                                               *)
InUse(t, c) ==
    /\ peer[c] = "reset" => wrote[t] = 0
    /\ TimedOut(c) \/ Jammed(c) \/ peer[c] = "reset" \/ Owed(t, c)
    /\ TimedOut(c) \/ \A i \in DOMAIN got[t] : got[t][i] = cmds[t][i]

(* A quiet connection is fit for a call that starts. *)
LEMMA QuietInUse ==
    ASSUME RouterTypeOK, NEW t \in Tasks, NEW c \in Conns, Quiet(c),
           wrote[t] = 0, got[t] = <<>>
    PROVE  InUse(t, c)
BY DEF Quiet, InUse, Owed, RouterTypeOK

(* A connection and a call that a step leaves alone. *)
LEMMA SameInUse ==
    ASSUME NEW t \in Tasks, NEW c \in Conns, InUse(t, c), Same(c),
           cmds'[t] = cmds[t], wrote'[t] = wrote[t], got'[t] = got[t]
    PROVE  InUse(t, c)'
BY Zenon DEF Same, InUse, Owed, TimedOut, Jammed

(* Writing: the new command is owed last. *)
LEMMA WriteInUse ==
    ASSUME RouterInv, NEW t \in Tasks, NEW c \in Conns, c = conn[t], InUse(t, c), Write(t)
    PROVE  InUse(t, c)'
<1>1. /\ wrote'[t] = wrote[t] + 1 /\ UNCHANGED <<cmds, got, buffered, big, peer, failed>>
      /\ peer[c] # "reset" /\ wrote[t] \in Nat
  BY Zenon, CallTypes DEF Write
<1>2. CASE peer[c] = "up"
  <2>1. wire'[c] = Append(wire[c], cmds[t][wrote[t] + 1])
    BY Zenon, <1>2, StreamTypes DEF Write
  <2>2. /\ wire[c] \in Seq(Request) /\ got[t] \in Seq(Request) /\ cmds[t] \in Seq(Request)
        /\ cmds[t][wrote[t] + 1] \in Request
    BY CallCounts, StreamCounts DEF Write, Sending
  <2>3. /\ Len(wire'[c]) = Len(wire[c]) + 1
        /\ \A i \in 1 .. Len(wire[c]) : wire'[c][i] = wire[c][i]
        /\ wire'[c][Len(wire[c]) + 1] = cmds[t][wrote[t] + 1]
    BY ONLY <2>1, <2>2
  <2>4. Jammed(c) => Jammed(c)'
    <3>1. ASSUME buffered[c] > 0 PROVE Head(wire'[c]) = Head(wire[c])
      <4>1. Len(wire[c]) > 0 /\ wire'[c] \in Seq(Request)
        BY ONLY SMTT(20), <2>1, <2>2, <3>1, StreamCounts, RouterInv, c \in Conns
      <4> QED
        BY ONLY <2>2, <2>3, <4>1, SMTT(20)
    <3> QED
      BY Zenon, <1>1, <3>1 DEF Jammed
  <2>5. Owed(t, c) => Owed(t, c)'
    <3> SUFFICES ASSUME Owed(t, c) PROVE Owed(t, c)'
      BY Zenon
    <3>1. Len(got[t]) + Len(wire[c]) = wrote[t] /\ Len(got[t]) \in Nat /\ Len(wire[c]) \in Nat
      BY Zenon, <1>2, CallCounts, StreamCounts DEF Owed
    <3>2. \A i \in 1 .. Len(wire'[c]) : wire'[c][i] = cmds[t][Len(got[t]) + i]
      <4> TAKE i \in 1 .. Len(wire'[c])
      <4>1. CASE i \in 1 .. Len(wire[c])
        <5>1. wire[c][i] = cmds[t][Len(got[t]) + i]
          BY Zenon, <4>1 DEF Owed
        <5> QED
          BY ONLY <2>3, <4>1, <5>1
      <4>2. CASE i = Len(wire[c]) + 1
        <5> DEFINE g == Len(got[t])
                   n == Len(wire[c])
                   w == wrote[t]
        <5>1. g \in Nat /\ n \in Nat /\ w = g + n
          BY Zenon, <3>1
        <5>2. g + (n + 1) = w + 1
          <6> HIDE DEF g, n, w
          <6> QED
            BY ONLY <5>1
        <5> QED
          BY ONLY <2>3, <4>2, <5>2, Zenon DEF g, n, w
      <4>3. i \in 1 .. Len(wire[c]) \/ i = Len(wire[c]) + 1
        <5> DEFINE n == Len(wire[c])
        <5>1. n \in Nat /\ i \in 1 .. n + 1
          BY Zenon, <2>3, <3>1
        <5>2. i \in 1 .. n \/ i = n + 1
          <6> HIDE DEF n
          <6> QED
            BY ONLY <5>1
        <5> QED
          BY Zenon, <5>2
      <4> QED
        BY Zenon, <4>1, <4>2, <4>3
    <3>3. Len(got'[t]) + Len(wire'[c]) = wrote'[t]
      <4> DEFINE g == Len(got[t])
                 n == Len(wire[c])
                 w == wrote[t]
      <4>1. g \in Nat /\ n \in Nat /\ g + n = w
        BY Zenon, <3>1
      <4>2. g + (n + 1) = w + 1
        <5> HIDE DEF g, n, w
        <5> QED
          BY ONLY <4>1
      <4> QED
        BY Zenon, <1>1, <2>3, <4>2
    <3>4. wrote'[t] \in Nat
      BY <1>1
    <3>5. Len(got'[t]) + Len(wire'[c]) <= wrote'[t]
      <4> DEFINE x == Len(got'[t]) + Len(wire'[c])
                 y == wrote'[t]
      <4>1. x = y /\ y \in Nat
        BY Zenon, <3>3, <3>4
      <4>2. x <= y
        <5> HIDE DEF x, y
        <5> QED
          BY ONLY <4>1
      <4> QED
        BY Zenon, <4>2
    <3> QED
      BY Zenon, <1>1, <3>2, <3>3, <3>5 DEF Owed
  <2> QED
    BY Zenon, <1>1, <2>4, <2>5 DEF InUse, TimedOut
<1>3. CASE peer[c] = "closed"
  <2>1. wire' = wire
    BY Zenon, <1>3 DEF Write
  <2>2. Owed(t, c) => Owed(t, c)'
    <3> SUFFICES ASSUME Owed(t, c) PROVE Owed(t, c)'
      OBVIOUS
    <3> DEFINE g == Len(got[t])
               n == Len(wire[c])
               w == wrote[t]
    <3>1. g \in Nat /\ n \in Nat /\ w \in Nat /\ g + n <= w
      BY Zenon, CallCounts, StreamCounts DEF Owed
    <3>2. g + n <= w + 1
      <4> HIDE DEF g, n, w
      <4> QED
        BY ONLY <3>1
    <3> QED
      BY Zenon, <1>1, <1>3, <2>1, <3>2 DEF Owed
  <2> QED
    BY Zenon, <1>1, <2>1, <2>2 DEF InUse, TimedOut, Jammed
<1> QED
  BY Zenon, <1>1, <1>2, <1>3, StreamTypes

(* A call that reads has written, so its connection still takes writes. *)
LEMMA ReaderNotReset ==
    ASSUME RouterInv, NEW t \in Tasks, NEW c \in Conns, InUse(t, c), Reading(t)
    PROVE  peer[c] # "reset"
BY CallCounts DEF InUse, Reading, RouterInv, StreamsAligned, FreshCalls

(* Reading: the oldest reply owed is the next one of the call. *)
LEMMA ParseInUse ==
    ASSUME RouterInv, NEW t \in Tasks, NEW c \in Conns, c = conn[t], InUse(t, c),
           ParseReply(t)
    PROVE  /\ InUse(t, c)'
           /\ ~TimedOut(c) => Head(wire[c]) = cmds[t][Len(got[t]) + 1]
<1>1. peer[c] # "reset" /\ ~Jammed(c)
  BY Zenon, ReaderNotReset DEF ParseReply, Jammed
<1>2. /\ wire'[c] = Tail(wire[c]) /\ UNCHANGED <<cmds, wrote, peer, failed>>
      /\ got'[t] = Append(got[t], Head(wire[c]))
  BY Zenon, CallTypes, StreamTypes DEF ParseReply, SplitFrame
<1>3. /\ wire[c] \in Seq(Request) /\ wire[c] # <<>> /\ Len(wire[c]) > 0
      /\ got[t] \in Seq(Request) /\ cmds[t] \in Seq(Request) /\ wrote[t] \in Nat
  BY CallCounts, StreamCounts DEF ParseReply
<1>4. /\ Len(Tail(wire[c])) = Len(wire[c]) - 1
      /\ \A i \in 1 .. Len(wire[c]) - 1 : Tail(wire[c])[i] = wire[c][i + 1]
      /\ Head(wire[c]) = wire[c][1] /\ Head(wire[c]) \in Request
  BY ONLY <1>3
<1>5. Len(got'[t]) = Len(got[t]) + 1 /\ Len(got[t]) \in Nat /\ Len(wire[c]) \in Nat
  BY ONLY SMTT(20), <1>2, <1>3, <1>4
<1>6. ASSUME Owed(t, c) PROVE Owed(t, c)' /\ Head(wire[c]) = cmds[t][Len(got[t]) + 1]
  <2>1. Head(wire[c]) = cmds[t][Len(got[t]) + 1]
    BY SMTT(20), <1>3, <1>4, <1>5, <1>6 DEF Owed
  <2>2. \A i \in 1 .. Len(wire'[c]) : wire'[c][i] = cmds[t][Len(got'[t]) + i]
    <3> TAKE i \in 1 .. Len(wire'[c])
    <3>1. i \in 1 .. Len(wire[c]) - 1 /\ i + 1 \in 1 .. Len(wire[c])
      BY ONLY <1>2, <1>4, <1>5, i \in 1 .. Len(wire'[c])
    <3>2. wire[c][i + 1] = cmds[t][Len(got[t]) + (i + 1)]
      BY Zenon, <3>1, <1>6 DEF Owed
    <3>3. Len(got[t]) + (i + 1) = Len(got'[t]) + i
      <4> DEFINE g == Len(got[t])
      <4>1. g \in Nat /\ Len(got'[t]) = g + 1 /\ i \in Nat
        BY <3>1, <1>5
      <4>2. g + (i + 1) = (g + 1) + i
        <5> HIDE DEF g
        <5> QED
          BY ONLY <4>1
      <4> QED
        BY Zenon, <4>1, <4>2
    <3> QED
      BY ONLY <1>2, <1>4, <3>1, <3>2, <3>3, Zenon
  <2>3. /\ Len(got'[t]) + Len(wire'[c]) <= wrote[t]
        /\ peer[c] = "up" => Len(got'[t]) + Len(wire'[c]) = wrote[t]
    <3>1. Len(got'[t]) + Len(wire'[c]) = Len(got[t]) + Len(wire[c])
      <4> DEFINE g == Len(got[t])
                 n == Len(wire[c])
      <4>1. Len(wire'[c]) = n - 1 /\ Len(got'[t]) = g + 1 /\ g \in Nat /\ n \in Nat
        BY ONLY SMTT(20), <1>2, <1>4, <1>5
      <4>2. (g + 1) + (n - 1) = g + n
        <5> HIDE DEF g, n
        <5> QED
          BY ONLY <4>1
      <4> QED
        BY ONLY <4>1, <4>2, Zenon
    <3>2. /\ Len(got[t]) + Len(wire[c]) <= wrote[t]
          /\ peer[c] = "up" => Len(got[t]) + Len(wire[c]) = wrote[t]
      BY Zenon, <1>6 DEF Owed
    <3> QED
      BY ONLY <3>1, <3>2, Zenon
  <2> QED
    BY ZenonT(20), <1>2, <2>1, <2>2, <2>3 DEF Owed
<1>7. ASSUME ~TimedOut(c) PROVE \A i \in DOMAIN got'[t] : got'[t][i] = cmds[t][i]
  <2>1. Head(wire[c]) = cmds[t][Len(got[t]) + 1]
    BY Zenon, <1>1, <1>6, <1>7 DEF InUse
  <2>2. /\ \A i \in 1 .. Len(got[t]) : got'[t][i] = got[t][i]
        /\ got'[t][Len(got[t]) + 1] = Head(wire[c])
        /\ DOMAIN got'[t] = 1 .. Len(got[t]) + 1
        /\ DOMAIN got[t] = 1 .. Len(got[t])
    BY ONLY <1>2, <1>3, <1>4, SMTT(20)
  <2>3. \A i \in 1 .. Len(got[t]) : got[t][i] = cmds[t][i]
    BY Zenon, <1>7, <2>2 DEF InUse
  <2> TAKE i \in DOMAIN got'[t]
  <2>4. i \in 1 .. Len(got[t]) \/ i = Len(got[t]) + 1
    <3> DEFINE n == Len(got[t])
    <3>1. n \in Nat /\ i \in 1 .. n + 1
      BY Zenon, <1>5, <2>2
    <3>2. i \in 1 .. n \/ i = n + 1
      <4> HIDE DEF n
      <4> QED
        BY ONLY <3>1, SMTT(20)
    <3> QED
      BY Zenon, <3>2
  <2> QED
    BY ONLY SMTT(20), <2>1, <2>2, <2>3, <2>4
<1> QED
  BY Zenon, <1>1, <1>2, <1>6, <1>7 DEF InUse, TimedOut

(* The server: replies arrive, or the connection closes behind some of them. *)
LEMMA ServerInUse ==
    ASSUME RouterInv, NEW t \in Tasks, NEW c \in Conns, pc[t] = "guard", conn[t] = c,
           InUse(t, c), Serve(c) \/ ServerClose(c)
    PROVE  InUse(t, c)'
<1>1. /\ UNCHANGED <<cmds, wrote, got, failed>> /\ peer[c] = "up" /\ peer'[c] # "reset"
      /\ Jammed(c) => Jammed(c)'
  <2>1. UNCHANGED <<cmds, wrote, got, failed>> /\ peer[c] = "up" /\ peer'[c] # "reset"
    BY Zenon, StreamTypes DEF Serve, ServerClose, taskVars
  <2> QED
    BY Zenon, <2>1, ServerQuiet DEF RouterInv
<1>2. ASSUME Owed(t, c) PROVE Owed(t, c)'
  <2>1. CASE Serve(c)
    BY Zenon, <1>1, <1>2, <2>1 DEF Serve, Owed
  <2>2. CASE ServerClose(c)
    <3>1. PICK n \in buffered[c] .. answered[c] : wire' = [wire EXCEPT ![c] = SubSeq(@, 1, n)]
      BY Zenon, <2>2 DEF ServerClose
    <3>2. n \in Nat /\ n <= Len(wire[c]) /\ wire[c] \in Seq(Request) /\ Len(wire[c]) \in Nat
      BY ONLY SMTT(20), <3>1, StreamCounts, RouterInv, c \in Conns
    <3>3. /\ Len(wire'[c]) = n
          /\ \A i \in 1 .. n : wire'[c][i] = wire[c][i]
      <4>1. wire'[c] = SubSeq(wire[c], 1, n)
        BY Zenon, <3>1, StreamTypes
      <4> QED
        BY ONLY <4>1, <3>2
    <3>4. \A i \in 1 .. Len(wire'[c]) : wire'[c][i] = cmds[t][Len(got[t]) + i]
      <4> TAKE i \in 1 .. Len(wire'[c])
      <4>1. i \in 1 .. n /\ i \in 1 .. Len(wire[c])
        BY ONLY SMTT(20), <3>2, <3>3, i \in 1 .. Len(wire'[c])
      <4>2. wire[c][i] = cmds[t][Len(got[t]) + i]
        BY Zenon, <1>2, <4>1 DEF Owed
      <4> QED
        BY ONLY <3>3, <4>1, <4>2, SMTT(20)
    <3>5. Len(got[t]) + Len(wire'[c]) <= wrote[t]
      <4> DEFINE g == Len(got[t])
                 m == Len(wire[c])
                 w == wrote[t]
      <4>1. g + m <= w /\ g \in Nat /\ m \in Nat /\ w \in Nat /\ n \in Nat /\ n <= m
        BY Zenon, <1>2, <3>2, CallCounts DEF Owed
      <4>2. g + n <= w
        <5> HIDE DEF g, m, w
        <5> QED
          BY ONLY <4>1, SMTT(20)
      <4> QED
        BY ONLY <3>3, <4>2 DEF g, w
    <3>6. peer'[c] # "up"
      BY Zenon, <2>2, StreamTypes DEF ServerClose
    <3> QED
      BY Zenon, <1>1, <3>4, <3>5, <3>6 DEF Owed
  <2> QED
    BY Zenon, <2>1, <2>2
<1> QED
  BY Zenon, <1>1, <1>2 DEF InUse, TimedOut
=============================================================================
