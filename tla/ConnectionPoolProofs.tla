----------------------- MODULE ConnectionPoolProofs -----------------------
(***************************************************************************)
(* Proofs about ConnectionPool, for every number of tasks and connections, *)
(* every pool size (0 included) and every idle timeout.                    *)
(***************************************************************************)
EXTENDS ConnectionPool, FiniteSetTheorems, TLAPS

(* The checked invariants are inductive together. *)
PoolInv ==
    /\ PoolTypeOK
    /\ ExclusiveOwnership
    /\ NoLostWakeup
    /\ PermitConservation
    /\ PoolBound

-----------------------------------------------------------------------------
(* Sizes of the sets of tasks are natural numbers. *)
LEMMA TaskSetSize ==
    ASSUME NEW S \in SUBSET Tasks
    PROVE  IsFiniteSet(S) /\ Cardinality(S) \in Nat
BY Zenon, PoolAssumption, FS_Subset, FS_CardinalityType

(* A task that joins a set of tasks adds one to its size. *)
LEMMA TaskSetAdd ==
    ASSUME NEW S \in SUBSET Tasks, NEW t \in Tasks, t \notin S
    PROVE  Cardinality(S \cup {t}) = Cardinality(S) + 1
BY Zenon, TaskSetSize, FS_AddElement

(* A task that leaves a set of tasks takes one from its size. *)
LEMMA TaskSetRemove ==
    ASSUME NEW S \in SUBSET Tasks, NEW t \in S
    PROVE  Cardinality(S \ {t}) = Cardinality(S) - 1 /\ Cardinality(S) > 0
<1>1. Cardinality(S \ {t}) = Cardinality(S) - 1
  BY Zenon, TaskSetSize, FS_RemoveElement
<1>2. S \ {t} \in SUBSET Tasks
  BY Zenon
<1> QED
  BY <1>1, <1>2, TaskSetSize

(* What is left of a sequence once the elements from i on are popped. *)
LEMMA PoppedPrefix ==
    ASSUME NEW S, NEW s \in Seq(S), NEW i \in DOMAIN s
    PROVE  /\ SubSeq(s, 1, i - 1) \in Seq(S)
           /\ Len(SubSeq(s, 1, i - 1)) = i - 1
           /\ \A j \in DOMAIN SubSeq(s, 1, i - 1) :
                 j \in DOMAIN s /\ j # i /\ SubSeq(s, 1, i - 1)[j] = s[j]
<1>1. i \in 1 .. Len(s)
  OBVIOUS
<1>2. SubSeq(s, 1, i - 1) \in Seq(S) /\ Len(SubSeq(s, 1, i - 1)) = i - 1
  BY <1>1
<1>3. DOMAIN SubSeq(s, 1, i - 1) = 1 .. (i - 1)
  BY <1>1, <1>2
<1> QED
  BY <1>1, <1>2, <1>3

-----------------------------------------------------------------------------
(* A new pool satisfies the invariant. *)
LEMMA PoolInitInv == PoolInit => PoolInv
<1> SUFFICES ASSUME PoolInit PROVE PoolInv
  BY Zenon
<1> USE PoolAssumption DEF PoolInit
<1>1. PoolTypeOK
  BY DEF PoolTypeOK, PoolPC
<1>2. PermitHolders = {} /\ Lessees = {}
  BY Zenon DEF PermitHolders, Lessees
<1>3. ExclusiveOwnership
  BY DEF ExclusiveOwnership, IsInjective, Range, Held
<1>4. NoLostWakeup
  BY DEF NoLostWakeup, IsInjective, Range
<1>5. PermitConservation /\ PoolBound
  BY <1>2, FS_EmptySet DEF PermitConservation, PoolBound
<1> QED
  BY Zenon, <1>1, <1>3, <1>4, <1>5 DEF PoolInv

(* Every step keeps the types. *)
LEMMA PoolTypeStep == PoolInv /\ [PoolNext]_poolVars => PoolTypeOK'
<1> SUFFICES ASSUME PoolTypeOK, PermitConservation, NoLostWakeup, ExclusiveOwnership,
                    [PoolNext]_poolVars
             PROVE  PoolTypeOK'
  BY Zenon DEF PoolInv
<1> USE PoolAssumption DEF PoolTypeOK, PoolPC, Goto
<1>1. ASSUME NEW t \in Tasks, Acquire(t) PROVE PoolTypeOK'
  <2>1. CASE permits > 0
    <3>1. /\ permits' = permits - 1
          /\ waiters' = waiters
          /\ pc' = [pc EXCEPT ![t] = "acquired"]
      BY <1>1, <2>1 DEF Acquire
    <3>2. permits' \in 0 .. MaxSize /\ pc' \in [Tasks -> PoolPC]
      BY <2>1, <3>1
    <3> QED
      BY Zenon, <1>1, <3>1, <3>2 DEF Acquire
  <2>2. CASE permits = 0
    <3>1. /\ permits' = permits
          /\ waiters' = Append(waiters, t)
          /\ pc' = [pc EXCEPT ![t] = "waiting"]
      BY <1>1, <2>2 DEF Acquire
    <3>2. waiters' \in Seq(Tasks) /\ pc' \in [Tasks -> PoolPC]
      BY <3>1
    <3> QED
      BY Zenon, <1>1, <3>1, <3>2 DEF Acquire
  <2> QED
    BY <2>1, <2>2
<1>2. ASSUME NEW t \in Tasks, TakeIdle(t) PROVE PoolTypeOK'
  <2>1. PICK i \in DOMAIN idle :
            /\ conn' = [conn EXCEPT ![t] = idle[i]]
            /\ idle' = SubSeq(idle, 1, i - 1)
    BY Zenon, <1>2 DEF TakeIdle
  <2>2. idle' \in Seq(Conns) /\ idle[i] \in Conns
    BY <2>1
  <2> QED
    BY Zenon, <1>2, <2>1, <2>2 DEF TakeIdle
<1>3. ASSUME NEW t \in Tasks, TakeNone(t) PROVE PoolTypeOK'
  BY <1>3 DEF TakeNone
<1>4. ASSUME NEW t \in Tasks, Connect(t) PROVE PoolTypeOK'
  BY <1>4 DEF Connect
<1>5. ASSUME NEW t \in Tasks, ConnectErr(t) \/ DropGuard(t) PROVE PoolTypeOK'
  BY Zenon, <1>5 DEF ConnectErr, DropGuard
<1>6. ASSUME NEW t \in Tasks, InitOk(t) \/ Use(t) PROVE PoolTypeOK'
  <2>1. 0 \in 0 .. IdleTimeout + 1 /\ elapsed \in [Conns -> 0 .. IdleTimeout + 1]
    OBVIOUS
  <2>2. [elapsed EXCEPT ![conn[t]] = 0] \in [Conns -> 0 .. IdleTimeout + 1]
    BY ONLY <2>1, Zenon
  <2> QED
    BY Zenon, <1>6, <2>2 DEF InitOk, Use
<1>7. ASSUME NEW t \in Tasks, InitErr(t) \/ DropStale(t) PROVE PoolTypeOK'
  BY Zenon, <1>7 DEF InitErr, DropStale
<1>8. ASSUME NEW t \in Tasks, PushIdle(t) PROVE PoolTypeOK'
  <2>1. conn[t] \in Conns
    BY Zenon, <1>8 DEF PushIdle, ExclusiveOwnership
  <2> QED
    BY <1>8, <2>1 DEF PushIdle
<1>9. ASSUME NEW t \in Tasks, Take(t) PROVE PoolTypeOK'
  <2>1. conn[t] \in Conns
    BY Zenon, <1>9 DEF Take, ExclusiveOwnership
  <2> QED
    BY Zenon, <1>9, <2>1 DEF Take
<1>10. ASSUME NEW t \in Tasks, Release(t) PROVE PoolTypeOK'
  <2>1. t \in PermitHolders /\ PermitHolders \in SUBSET Tasks
    BY Zenon, <1>10 DEF Release, PermitHolders
  <2>2. Cardinality(PermitHolders) > 0 /\ Cardinality(PermitHolders) \in Nat
    BY ONLY <2>1, TaskSetRemove, TaskSetSize, Zenon
  <2>3. permits < MaxSize
    BY <2>2 DEF PermitConservation
  <2>4. CASE waiters = <<>>
    BY SMTT(20), <1>10, <2>3, <2>4 DEF Release
  <2>5. CASE waiters # <<>>
    <3>1. Tail(waiters) \in Seq(Tasks)
      BY <2>5
    <3>2. pc' = [pc EXCEPT ![t] = "outside", ![Head(waiters)] = "acquired"]
      BY Zenon, <1>10, <2>5 DEF Release
    <3>3. pc' \in [Tasks -> PoolPC]
      BY Zenon, <3>2
    <3> QED
      BY Zenon, <1>10, <2>5, <3>1, <3>3 DEF Release
  <2> QED
    BY Zenon, <2>4, <2>5
<1>11. ASSUME NEW c \in Conns, CloseTaken(c) PROVE PoolTypeOK'
  BY Zenon, <1>11 DEF CloseTaken
<1>12. CASE Tick
  BY <1>12 DEF Tick, Expired
<1>13. CASE UNCHANGED poolVars
  BY Zenon, <1>13 DEF poolVars
<1> QED
  BY Zenon, <1>1, <1>2, <1>3, <1>4, <1>5, <1>6, <1>7, <1>8, <1>9, <1>10, <1>11, <1>12, <1>13
     DEF PoolNext, Get, Drop

(* Every step keeps connections exclusively owned. *)
LEMMA PoolOwnershipStep == PoolInv /\ [PoolNext]_poolVars => ExclusiveOwnership'
<1> SUFFICES ASSUME PoolTypeOK, PoolTypeOK', ExclusiveOwnership, NoLostWakeup,
                    [PoolNext]_poolVars
             PROVE  ExclusiveOwnership'
  BY Zenon, PoolTypeStep DEF PoolInv
<1> USE PoolAssumption DEF PoolTypeOK, PoolPC, Goto, ExclusiveOwnership, IsInjective
<1>1. ASSUME NEW t \in Tasks, Acquire(t) PROVE ExclusiveOwnership'
  BY ZenonT(30), <1>1 DEF Acquire
<1>2. ASSUME NEW t \in Tasks, TakeIdle(t) PROVE ExclusiveOwnership'
  <2>1. PICK i \in DOMAIN idle :
            /\ conn' = [conn EXCEPT ![t] = idle[i]]
            /\ idle' = SubSeq(idle, 1, i - 1)
    BY Zenon, <1>2 DEF TakeIdle
  <2>2. \A j \in DOMAIN idle' : j \in DOMAIN idle /\ j # i /\ idle'[j] = idle[j]
    BY SMTT(20), <2>1, PoppedPrefix
  <2>3. idle[i] \in Conns
    OBVIOUS
  <2> QED
    BY SMTT(20), <1>2, <2>1, <2>2, <2>3 DEF TakeIdle
<1>3. ASSUME NEW t \in Tasks, TakeNone(t) PROVE ExclusiveOwnership'
  BY <1>3 DEF TakeNone
<1>4. ASSUME NEW t \in Tasks, Connect(t) PROVE ExclusiveOwnership'
  BY <1>4 DEF Connect, Open, Range, Held
<1>5. ASSUME NEW t \in Tasks, ConnectErr(t) \/ DropGuard(t) PROVE ExclusiveOwnership'
  BY SMTT(40), <1>5 DEF ConnectErr, DropGuard
<1>6. ASSUME NEW t \in Tasks, InitOk(t) \/ Use(t) PROVE ExclusiveOwnership'
  <2>1. idle' = idle /\ conn' = conn /\ taken' = taken
    BY Zenon, <1>6 DEF InitOk, Use
  <2>2. \A u \in Tasks : pc'[u] \in {"initializing", "guard", "returning"}
                        <=> pc[u] \in {"initializing", "guard", "returning"}
    BY <1>6 DEF InitOk, Use
  <2> QED
    BY Zenon, <2>1, <2>2
<1>7. ASSUME NEW t \in Tasks, InitErr(t) \/ DropStale(t) PROVE ExclusiveOwnership'
  <2>1. /\ idle' = idle /\ taken' = taken
        /\ conn' = [conn EXCEPT ![t] = NoConn]
        /\ pc' = [pc EXCEPT ![t] = "releasing"]
    BY Zenon, <1>7 DEF InitErr, DropStale
  <2> QED
    BY <2>1
<1>8. ASSUME NEW t \in Tasks, PushIdle(t) PROVE ExclusiveOwnership'
  <2>1. conn[t] \in Conns
    BY Zenon, <1>8 DEF PushIdle
  <2>2. CASE Len(idle) < MaxSize
    <3>1. idle' = Append(idle, conn[t])
      BY Zenon, <1>8, <2>2 DEF PushIdle
    <3>2. \A j \in DOMAIN idle' :
             \/ j \in DOMAIN idle /\ idle'[j] = idle[j]
             \/ j = Len(idle) + 1 /\ j \notin DOMAIN idle /\ idle'[j] = conn[t]
      BY SMTT(20), <2>1, <3>1
    <3> QED
      BY SMTT(20), <1>8, <2>1, <3>2 DEF PushIdle
  <2>3. CASE ~(Len(idle) < MaxSize)
    BY <1>8, <2>1, <2>3 DEF PushIdle
  <2> QED
    BY Zenon, <2>2, <2>3
<1>9. ASSUME NEW t \in Tasks, Take(t) PROVE ExclusiveOwnership'
  BY <1>9 DEF Take
<1>10. ASSUME NEW t \in Tasks, Release(t) PROVE ExclusiveOwnership'
  <2>1. CASE waiters = <<>>
    BY Zenon, <1>10, <2>1 DEF Release
  <2>2. CASE waiters # <<>>
    <3>1. Head(waiters) \in Tasks /\ pc[Head(waiters)] = "waiting"
      BY SMTT(20), <2>2 DEF NoLostWakeup
    <3> QED
      BY ZenonT(20), <1>10, <2>2, <3>1 DEF Release
  <2> QED
    BY Zenon, <2>1, <2>2
<1>11. ASSUME NEW c \in Conns, CloseTaken(c) PROVE ExclusiveOwnership'
  BY Zenon, <1>11 DEF CloseTaken
<1>12. CASE Tick
  BY Zenon, <1>12 DEF Tick
<1>13. CASE UNCHANGED poolVars
  BY Zenon, <1>13 DEF poolVars
<1> QED
  BY ZenonT(20), <1>1, <1>2, <1>3, <1>4, <1>5, <1>6, <1>7, <1>8, <1>9, <1>10, <1>11, <1>12, <1>13
     DEF PoolNext, Get, Drop

(* Only acquire() and the drop of a permit touch the semaphore. *)
SemaphoreQuiet ==
    /\ permits' = permits
    /\ waiters' = waiters
    /\ PermitHolders' = PermitHolders
    /\ \A t \in Tasks : pc'[t] = "waiting" <=> pc[t] = "waiting"

(* Only Acquire and Release touch the semaphore. *)
LEMMA SemaphoreSteps ==
    PoolTypeOK /\ [PoolNext]_poolVars
        => SemaphoreQuiet \/ \E t \in Tasks : Acquire(t) \/ Release(t)
<1> SUFFICES ASSUME PoolTypeOK, [PoolNext]_poolVars,
                    ~ \E t \in Tasks : Acquire(t) \/ Release(t)
             PROVE  SemaphoreQuiet
  BY Zenon
<1> USE DEF PoolTypeOK, PoolPC, Goto, SemaphoreQuiet, PermitHolders
<1>1. ASSUME NEW t \in Tasks, TakeIdle(t) \/ TakeNone(t) PROVE SemaphoreQuiet
  BY Zenon, <1>1 DEF TakeIdle, TakeNone
<1>2. ASSUME NEW t \in Tasks, Connect(t) \/ ConnectErr(t) PROVE SemaphoreQuiet
  BY Zenon, <1>2 DEF Connect, ConnectErr
<1>3. ASSUME NEW t \in Tasks, InitOk(t) \/ InitErr(t) PROVE SemaphoreQuiet
  BY Zenon, <1>3 DEF InitOk, InitErr
<1>4. ASSUME NEW t \in Tasks, Use(t) \/ Take(t) PROVE SemaphoreQuiet
  BY Zenon, <1>4 DEF Use, Take
<1>5. ASSUME NEW t \in Tasks, DropStale(t) \/ DropGuard(t) \/ PushIdle(t)
      PROVE SemaphoreQuiet
  BY Zenon, <1>5 DEF DropStale, DropGuard, PushIdle
<1>6. ASSUME NEW c \in Conns, CloseTaken(c) PROVE SemaphoreQuiet
  BY Zenon, <1>6 DEF CloseTaken
<1>7. CASE Tick \/ UNCHANGED poolVars
  BY Zenon, <1>7 DEF Tick, poolVars
<1> QED
  BY Zenon, <1>1, <1>2, <1>3, <1>4, <1>5, <1>6, <1>7 DEF PoolNext, Get, Drop

(* Every step keeps the queue of the semaphore equal to the sleeping tasks. *)
LEMMA PoolWakeupStep == PoolInv /\ [PoolNext]_poolVars => NoLostWakeup'
<1> SUFFICES ASSUME PoolTypeOK, NoLostWakeup, [PoolNext]_poolVars
             PROVE  NoLostWakeup'
  BY Zenon DEF PoolInv
<1> USE PoolAssumption DEF PoolTypeOK, PoolPC, Goto, NoLostWakeup, IsInjective
<1>1. ASSUME NEW t \in Tasks, Acquire(t) PROVE NoLostWakeup'
  <2>1. CASE permits > 0
    <3>1. waiters = <<>> /\ waiters' = waiters
      BY <1>1, <2>1 DEF Acquire
    <3>2. pc[t] = "outside" /\ pc' = [pc EXCEPT ![t] = "acquired"]
      BY <1>1, <2>1 DEF Acquire
    <3> QED
      BY <3>1, <3>2
  <2>2. CASE permits = 0
    <3>1. /\ permits' = 0
          /\ waiters' = Append(waiters, t)
          /\ pc' = [pc EXCEPT ![t] = "waiting"]
          /\ pc[t] = "outside"
      BY <1>1, <2>2 DEF Acquire
    <3>2. /\ DOMAIN waiters' = DOMAIN waiters \cup {Len(waiters) + 1}
          /\ Len(waiters) + 1 \notin DOMAIN waiters
          /\ waiters'[Len(waiters) + 1] = t
          /\ \A i \in DOMAIN waiters : waiters'[i] = waiters[i]
      BY <3>1
    <3> QED
      BY SMTT(20), <3>1, <3>2
  <2> QED
    BY <2>1, <2>2
<1>2. ASSUME NEW t \in Tasks, Release(t) PROVE NoLostWakeup'
  <2>1. CASE waiters = <<>>
    BY <1>2, <2>1 DEF Release
  <2>2. CASE waiters # <<>>
    <3> DEFINE h == Head(waiters)
    <3>1. h = waiters[1] /\ 1 \in DOMAIN waiters /\ h \in Tasks /\ pc[h] = "waiting"
      BY <2>2
    <3>2. /\ permits' = permits
          /\ waiters' = Tail(waiters)
          /\ pc' = [pc EXCEPT ![t] = "outside", ![h] = "acquired"]
          /\ pc[t] = "releasing"
      BY Zenon, <1>2, <2>2 DEF Release
    <3>3. /\ \A i \in DOMAIN waiters' : /\ i + 1 \in DOMAIN waiters /\ i \in Nat /\ i + 1 # 1
                                        /\ waiters'[i] = waiters[i + 1]
          /\ \A j \in DOMAIN waiters : j # 1 => /\ j - 1 \in DOMAIN waiters'
                                                /\ waiters'[j - 1] = waiters[j]
      BY <2>2, <3>2
    <3>4. ASSUME NEW u \in Tasks
          PROVE  pc'[u] = "waiting" <=> \E i \in DOMAIN waiters' : waiters'[i] = u
      <4>1. CASE u = h
        BY <3>1, <3>2, <3>3, <4>1
      <4>2. CASE u # h
        <5>1. pc'[u] = "waiting" <=> pc[u] = "waiting"
          BY Zenon, <3>1, <3>2, <4>2
        <5>2. (\E i \in DOMAIN waiters' : waiters'[i] = u)
                 <=> (\E j \in DOMAIN waiters : waiters[j] = u)
          BY SMTT(20), <3>1, <3>3, <4>2
        <5> QED
          BY Zenon, <5>1, <5>2
      <4> QED
        BY Zenon, <4>1, <4>2
    <3>5. \A i, j \in DOMAIN waiters' : waiters'[i] = waiters'[j] => i = j
      BY <3>3
    <3> QED
      BY Zenon, <2>2, <3>2, <3>4, <3>5
  <2> QED
    BY Zenon, <2>1, <2>2
<1>3. CASE SemaphoreQuiet
  BY Zenon, <1>3 DEF SemaphoreQuiet
<1> QED
  BY Zenon, <1>1, <1>2, <1>3, SemaphoreSteps

(* Every step keeps the count of permits. *)
LEMMA PoolPermitStep == PoolInv /\ [PoolNext]_poolVars => PermitConservation'
<1> SUFFICES ASSUME PoolTypeOK, NoLostWakeup, PermitConservation, [PoolNext]_poolVars
             PROVE  PermitConservation'
  BY Zenon DEF PoolInv
<1> USE PoolAssumption DEF PoolTypeOK, PoolPC, Goto, PermitConservation
<1>0. PermitHolders \in SUBSET Tasks /\ Cardinality(PermitHolders) \in Nat
  BY Zenon, TaskSetSize DEF PermitHolders
<1>1. ASSUME NEW t \in Tasks, Acquire(t) PROVE PermitConservation'
  <2>1. CASE permits > 0
    <3>1. /\ permits' = permits - 1
          /\ pc[t] = "outside"
          /\ pc' = [pc EXCEPT ![t] = "acquired"]
      BY <1>1, <2>1 DEF Acquire
    <3>2. t \notin PermitHolders /\ PermitHolders' = PermitHolders \cup {t}
      BY Zenon, <3>1 DEF PermitHolders
    <3>3. Cardinality(PermitHolders') = Cardinality(PermitHolders) + 1
      BY Zenon, <1>0, <3>2, TaskSetAdd
    <3> QED
      BY <1>0, <3>1, <3>3
  <2>2. CASE permits = 0
    <3>1. /\ permits' = permits
          /\ pc[t] = "outside"
          /\ pc' = [pc EXCEPT ![t] = "waiting"]
      BY <1>1, <2>2 DEF Acquire
    <3>2. PermitHolders' = PermitHolders
      BY Zenon, <3>1 DEF PermitHolders
    <3> QED
      BY Zenon, <3>1, <3>2
  <2> QED
    BY <2>1, <2>2
<1>2. ASSUME NEW t \in Tasks, Release(t) PROVE PermitConservation'
  <2>1. t \in PermitHolders /\ Cardinality(PermitHolders \ {t}) = Cardinality(PermitHolders) - 1
    <3>1. t \in PermitHolders
      BY Zenon, <1>2 DEF Release, PermitHolders
    <3> QED
      BY Zenon, <1>0, <3>1, TaskSetRemove
  <2>2. CASE waiters = <<>>
    <3>1. permits' = permits + 1 /\ pc' = [pc EXCEPT ![t] = "outside"]
      BY Zenon, <1>2, <2>2 DEF Release
    <3>2. PermitHolders' = PermitHolders \ {t}
      BY Zenon, <3>1 DEF PermitHolders
    <3> QED
      BY <1>0, <2>1, <3>1, <3>2
  <2>3. CASE waiters # <<>>
    <3> DEFINE h == Head(waiters)
    <3>1. h \in Tasks /\ pc[h] = "waiting"
      BY <2>3 DEF NoLostWakeup
    <3>2. /\ permits' = permits
          /\ pc' = [pc EXCEPT ![t] = "outside", ![h] = "acquired"]
          /\ pc[t] = "releasing"
      BY Zenon, <1>2, <2>3 DEF Release
    <3>3. h \notin PermitHolders \ {t} /\ PermitHolders' = (PermitHolders \ {t}) \cup {h}
      BY Zenon, <3>1, <3>2 DEF PermitHolders
    <3>4. PermitHolders \ {t} \in SUBSET Tasks
      BY Zenon, <1>0
    <3>5. Cardinality(PermitHolders') = Cardinality(PermitHolders \ {t}) + 1
      BY Zenon, <3>1, <3>3, <3>4, TaskSetAdd
    <3> QED
      BY <1>0, <2>1, <3>2, <3>5
  <2> QED
    BY Zenon, <2>2, <2>3
<1>3. CASE SemaphoreQuiet
  BY Zenon, <1>3 DEF SemaphoreQuiet
<1> QED
  BY Zenon, <1>1, <1>2, <1>3, SemaphoreSteps

(* Every step keeps the bound on connections. *)
LEMMA PoolBoundStep == PoolInv /\ [PoolNext]_poolVars => PoolBound'
<1> SUFFICES ASSUME PoolTypeOK, PoolTypeOK', PermitConservation', NoLostWakeup, PoolBound,
                    [PoolNext]_poolVars
             PROVE  PoolBound'
  BY Zenon, PoolTypeStep, PoolPermitStep DEF PoolInv
<1> USE PoolAssumption DEF PoolTypeOK, PoolPC, Goto, PoolBound
<1>0. /\ Lessees \in SUBSET Tasks /\ Cardinality(Lessees) \in Nat
      /\ Len(idle) \in Nat /\ Len(idle') \in Nat
  BY TaskSetSize DEF Lessees
<1>1. ASSUME Lessees' = Lessees, idle' = idle PROVE PoolBound'
  BY Zenon, <1>1
<1>2. ASSUME NEW t \in Lessees, Lessees' = Lessees \ {t}, Len(idle') <= Len(idle) + 1
      PROVE  PoolBound'
  <2>1. Cardinality(Lessees') = Cardinality(Lessees) - 1
    BY ONLY <1>0, <1>2, TaskSetRemove
  <2> QED
    BY <1>0, <1>2, <2>1
<1>3. ASSUME NEW t \in Tasks, TakeIdle(t) PROVE PoolBound'
  <2>1. Len(idle') <= Len(idle) - 1
    BY <1>3, PoppedPrefix DEF TakeIdle
  <2>2. t \notin Lessees /\ Lessees' = Lessees \cup {t}
    BY SMTT(20), <1>3 DEF TakeIdle, Lessees
  <2>3. Cardinality(Lessees') = Cardinality(Lessees) + 1
    BY ONLY <1>0, <2>2, <1>3, TaskSetAdd
  <2> QED
    BY <1>0, <2>1, <2>3
<1>4. ASSUME NEW t \in Tasks, TakeNone(t) PROVE PoolBound'
  <2>1. Lessees' \in SUBSET PermitHolders' /\ PermitHolders' \in SUBSET Tasks
    BY Zenon DEF Lessees, PermitHolders
  <2>2. Cardinality(Lessees') <= Cardinality(PermitHolders')
    BY Zenon, <2>1, TaskSetSize, FS_Subset
  <2>3. Cardinality(Lessees') \in Nat /\ Cardinality(PermitHolders') \in Nat
    BY Zenon, <2>1, TaskSetSize
  <2>4. Len(idle') = 0
    BY Zenon, <1>4 DEF TakeNone
  <2> QED
    BY <2>2, <2>3, <2>4 DEF PermitConservation
<1>5. ASSUME NEW t \in Tasks, Acquire(t) \/ Release(t) PROVE PoolBound'
  <2>1. idle' = idle
    BY Zenon, <1>5 DEF Acquire, Release
  <2>2. CASE Acquire(t)
    BY Zenon, <1>1, <2>1, <2>2 DEF Acquire, Lessees
  <2>3. CASE Release(t) /\ waiters = <<>>
    BY Zenon, <1>1, <2>1, <2>3 DEF Release, Lessees
  <2>4. CASE Release(t) /\ waiters # <<>>
    <3>1. Head(waiters) \in Tasks /\ pc[Head(waiters)] = "waiting"
      BY <2>4 DEF NoLostWakeup
    <3>2. Lessees' = Lessees
      BY Zenon, <2>4, <3>1 DEF Release, Lessees
    <3> QED
      BY Zenon, <1>1, <2>1, <3>2
  <2> QED
    BY Zenon, <1>5, <2>2, <2>3, <2>4
<1>6. ASSUME NEW t \in Tasks, Connect(t) \/ InitOk(t) \/ Use(t) \/ DropGuard(t)
      PROVE  PoolBound'
  <2>1. Lessees' = Lessees
    BY Zenon, <1>6 DEF Connect, InitOk, Use, DropGuard, Lessees
  <2>2. idle' = idle
    BY Zenon, <1>6 DEF Connect, InitOk, Use, DropGuard
  <2> QED
    BY Zenon, <1>1, <2>1, <2>2
<1>7. ASSUME NEW t \in Tasks, ConnectErr(t) \/ InitErr(t) \/ DropStale(t) \/ Take(t)
      PROVE  PoolBound'
  <2>1. t \in Lessees /\ Lessees' = Lessees \ {t}
    BY Zenon, <1>7 DEF ConnectErr, InitErr, DropStale, Take, Lessees
  <2>2. Len(idle') <= Len(idle) + 1
    BY SMTT(20), <1>0, <1>7 DEF ConnectErr, InitErr, DropStale, Take
  <2> QED
    BY ONLY <1>2, <2>1, <2>2, Zenon
<1>8. ASSUME NEW t \in Tasks, PushIdle(t) PROVE PoolBound'
  <2>1. t \in Lessees /\ Lessees' = Lessees \ {t}
    BY Zenon, <1>8 DEF PushIdle, Lessees
  <2>2. Len(idle') <= Len(idle) + 1
    BY <1>0, <1>8 DEF PushIdle
  <2> QED
    BY Zenon, <1>2, <2>1, <2>2
<1>9. CASE Tick \/ UNCHANGED poolVars \/ \E c \in Conns : CloseTaken(c)
  BY Zenon, <1>1, <1>9 DEF Tick, poolVars, CloseTaken, Lessees
<1> QED
  BY Zenon, <1>3, <1>4, <1>5, <1>6, <1>7, <1>8, <1>9 DEF PoolNext, Get, Drop

(* Every step of the pool preserves the invariant. *)
LEMMA PoolInvStep == PoolInv /\ [PoolNext]_poolVars => PoolInv'
BY Zenon, PoolTypeStep, PoolOwnershipStep, PoolWakeupStep, PoolPermitStep, PoolBoundStep
   DEF PoolInv

-----------------------------------------------------------------------------
(***************************************************************************)
(* The inductive invariant holds throughout: initially, and after every    *)
(* step of every task.                                                     *)
(***************************************************************************)
THEOREM PoolInvariance == PoolSpec => []PoolInv
BY PoolInitInv, PoolInvStep, PTL DEF PoolSpec

(* The pool's state is always of its type. *)
THEOREM PoolTypeCorrect == PoolSpec => []PoolTypeOK
BY PoolInvariance, PTL DEF PoolInv

(* Permits are neither lost nor duplicated by get, drop and take. *)
THEOREM PoolPermitsConserved == PoolSpec => []PermitConservation
BY PoolInvariance, PTL DEF PoolInv

(* At most max_size connections are idle, in use or being opened. *)
THEOREM PoolIsBounded == PoolSpec => []PoolBound
BY PoolInvariance, PTL DEF PoolInv

(* No connection has two owners. *)
THEOREM PoolOwnersExclusive == PoolSpec => []ExclusiveOwnership
BY PoolInvariance, PTL DEF PoolInv

(* No task sleeps in acquire() while a permit is free. *)
THEOREM PoolLosesNoWakeup == PoolSpec => []NoLostWakeup
BY PoolInvariance, PTL DEF PoolInv

(* The "pool is full" arm of return_connection is never taken. *)
THEOREM PoolReturnFindsRoom == PoolSpec => []ReturnFindsRoom
<1>1. PoolInv => ReturnFindsRoom
  <2> SUFFICES ASSUME PoolInv, NEW t \in Tasks, pc[t] = "returning"
               PROVE  Len(idle) < MaxSize
    BY Zenon DEF ReturnFindsRoom
  <2>1. t \in Lessees /\ Lessees \in SUBSET Tasks
    BY Zenon DEF Lessees
  <2>2. Cardinality(Lessees) > 0 /\ Cardinality(Lessees) \in Nat
    BY ONLY <2>1, TaskSetRemove, TaskSetSize, Zenon
  <2> QED
    BY <2>2, PoolAssumption DEF PoolInv, PoolTypeOK, PoolBound
<1> QED
  BY <1>1, PoolInvariance, PTL

-----------------------------------------------------------------------------
(* A sequence has at most as many elements as positions. *)
LEMMA RangeSize ==
    ASSUME NEW S, NEW s \in Seq(S)
    PROVE  /\ Cardinality(Range(s)) <= Len(s)
           /\ Cardinality(Range(s)) \in Nat
<1>1. s \in Surjection(1 .. Len(s), Range(s))
  BY DEF Surjection, Range
<1>2. IsFiniteSet(1 .. Len(s)) /\ Cardinality(1 .. Len(s)) = Len(s)
  <2>1. Len(s) \in Nat /\ 1 \in Int /\ Len(s) \in Int
    OBVIOUS
  <2>2. /\ IsFiniteSet(1 .. Len(s))
        /\ Cardinality(1 .. Len(s)) = IF 1 > Len(s) THEN 0 ELSE Len(s) - 1 + 1
    BY ONLY <2>1, FS_Interval, SMTT(20)
  <2> QED
    BY <2>1, <2>2
<1> QED
  BY <1>1, <1>2, FS_Surjection, FS_CardinalityType

(* A connect fits under the limit of the abstract pool. *)
LEMMA ConnectHasRoom ==
    ASSUME PoolInv, NEW t \in Tasks, pc[t] = "connecting"
    PROVE  Cardinality(Range(idle)) + Cardinality(Lease!Borrowers) < MaxSize
<1> USE DEF PoolInv, PoolTypeOK
<1>1. t \in Lessees /\ Lessees \in SUBSET Tasks
  BY Zenon DEF Lessees
<1>2. Lease!Borrowers \in SUBSET (Lessees \ {t})
  BY Zenon, <1>1 DEF Lease!Borrowers, Lessees, ExclusiveOwnership
<1>3. Cardinality(Lease!Borrowers) <= Cardinality(Lessees \ {t})
  <2>1. IsFiniteSet(Lessees \ {t})
    BY Zenon, <1>1, TaskSetSize
  <2> QED
    BY Zenon, <1>2, <2>1, FS_Subset
<1>4. Cardinality(Lessees \ {t}) = Cardinality(Lessees) - 1
  BY Zenon, <1>1, TaskSetRemove
<1>5. Cardinality(Lessees) \in Nat /\ Cardinality(Lease!Borrowers) \in Nat
  BY Zenon, <1>1, <1>2, TaskSetSize
<1>6. Cardinality(Range(idle)) <= Len(idle) /\ Cardinality(Range(idle)) \in Nat
  BY Zenon, RangeSize
<1> QED
  BY <1>3, <1>4, <1>5, <1>6, PoolAssumption DEF PoolBound

(* Each step of the pool is a step of the abstract pool, or none. *)
LEMMA LeaseStep ==
    PoolInv /\ [PoolNext]_poolVars => [Lease!LeaseNext]_(Lease!leaseVars)
<1> SUFFICES ASSUME PoolInv, [PoolNext]_poolVars
             PROVE  Lease!LeaseNext \/ UNCHANGED <<idle, conn, taken>>
  BY Zenon DEF Lease!leaseVars
<1> USE PoolAssumption DEF PoolInv, PoolTypeOK, PoolPC, Goto
<1>1. ASSUME NEW t \in Tasks, TakeIdle(t) PROVE Lease!Reuse(t)
  <2>1. PICK i \in DOMAIN idle :
            /\ conn' = [conn EXCEPT ![t] = idle[i]]
            /\ idle' = SubSeq(idle, 1, i - 1)
    BY Zenon, <1>1 DEF TakeIdle
  <2>2. \A j \in DOMAIN idle' : j \in DOMAIN idle /\ j # i /\ idle'[j] = idle[j]
    BY ZenonT(20), <2>1, PoppedPrefix
  <2>3. Range(idle)' \in SUBSET (Range(idle) \ {idle[i]}) /\ idle[i] \in Range(idle)
    BY <2>2 DEF Range, ExclusiveOwnership, IsInjective
  <2>4. conn[t] = NoConn /\ taken' = taken
    BY Zenon, <1>1 DEF TakeIdle, ExclusiveOwnership
  <2> QED
    BY Zenon, <2>1, <2>3, <2>4 DEF Lease!Reuse
<1>2. ASSUME NEW t \in Tasks, TakeNone(t) PROVE Lease!Discard
  BY <1>2 DEF TakeNone, Lease!Discard, Range
<1>3. ASSUME NEW t \in Tasks, Connect(t) PROVE Lease!Create(t)
  <2>1. Cardinality(Range(idle)) + Cardinality(Lease!Borrowers) < MaxSize
    BY Zenon, <1>3, ConnectHasRoom DEF Connect
  <2>2. conn[t] = NoConn
    BY Zenon, <1>3 DEF Connect, ExclusiveOwnership
  <2>3. Open = Range(idle) \cup Lease!Lent \cup taken
    BY Zenon DEF Open, Held, Lease!Lent
  <2>4. \E c \in Conns \ Open : conn' = [conn EXCEPT ![t] = c]
    BY Zenon, <1>3 DEF Connect
  <2>5. idle' = idle /\ taken' = taken
    BY Zenon, <1>3 DEF Connect
  <2>6. \A S : Lease!Cardinality(S) = Cardinality(S)
    BY Zenon DEF Cardinality, Lease!Cardinality, IsFiniteSet, Lease!IsFiniteSet
  <2> QED
    BY Zenon, <2>1, <2>2, <2>3, <2>4, <2>5, <2>6 DEF Lease!Create
<1>4. ASSUME NEW t \in Tasks, InitErr(t) \/ DropStale(t) PROVE Lease!GiveBack(t)
  BY Zenon, <1>4 DEF InitErr, DropStale, ExclusiveOwnership, Lease!GiveBack
<1>5. ASSUME NEW t \in Tasks, PushIdle(t) PROVE Lease!GiveBack(t)
  <2>1. conn[t] # NoConn /\ conn[t] \in Conns
    BY Zenon, <1>5 DEF PushIdle, ExclusiveOwnership
  <2>2. CASE idle' = idle
    BY Zenon, <1>5, <2>1, <2>2 DEF PushIdle, Lease!GiveBack
  <2>3. CASE idle' = Append(idle, conn[t])
    <3>1. /\ DOMAIN idle' = DOMAIN idle \cup {Len(idle) + 1}
          /\ idle'[Len(idle) + 1] = conn[t]
          /\ \A i \in DOMAIN idle : idle'[i] = idle[i]
      BY SMTT(20), <2>1, <2>3
    <3>2. Range(idle)' = Range(idle) \cup {conn[t]}
      BY ONLY <3>1, SMTT(20) DEF Range
    <3> QED
      BY Zenon, <1>5, <2>1, <3>2 DEF PushIdle, Lease!GiveBack
  <2> QED
    BY Zenon, <1>5, <2>2, <2>3 DEF PushIdle
<1>6. ASSUME NEW t \in Tasks, Take(t) PROVE Lease!Withdraw(t)
  BY Zenon, <1>6 DEF Take, ExclusiveOwnership, Lease!Withdraw
<1>7. ASSUME NEW c \in Conns, CloseTaken(c) PROVE Lease!Discard
  BY Zenon, <1>7 DEF CloseTaken, Lease!Discard
<1>8. ASSUME NEW t \in Tasks,
             \/ Acquire(t) \/ ConnectErr(t) \/ InitOk(t)
             \/ Use(t) \/ DropGuard(t) \/ Release(t)
      PROVE  UNCHANGED <<idle, conn, taken>>
  BY Zenon, <1>8 DEF Acquire, ConnectErr, InitOk, Use, DropGuard, Release
<1>9. CASE Tick \/ UNCHANGED poolVars
  BY Zenon, <1>9 DEF Tick, poolVars
<1> QED
  BY Zenon, <1>1, <1>2, <1>3, <1>4, <1>5, <1>6, <1>7, <1>8, <1>9
     DEF PoolNext, Get, Drop, Lease!LeaseNext

(* ConnectionPool implements the abstract pool of exclusive, bounded loans. *)
THEOREM PoolImplementsLease == PoolSpec => LeaseContract
<1>1. PoolInit => Lease!LeaseInit
  BY DEF PoolInit, Lease!LeaseInit, Range
<1> QED
  BY <1>1, LeaseStep, PoolInvariance, PTL DEF PoolSpec, LeaseContract, Lease!LeaseSpec
=============================================================================
