---------------------------- MODULE ClientProofs ----------------------------
(***************************************************************************)
(* Theorems about what a client keeps on its own side: the read buffer for *)
(* every capacity, limit, surplus and set of frames; a Pipeline object and *)
(* a Redis object for all threads, replies and methods; and the commands   *)
(* of their methods for all arguments.                                     *)
(***************************************************************************)
EXTENDS Client, TLAPS

-----------------------------------------------------------------------------
(* The read buffer *)

\* An incomplete frame is longer than what is buffered; a refused frame was
\* incomplete in a buffer that had reached the limit.
BufferInv ==
  /\ BufferTypeOK
  /\ pc = "grow" => len < frame
  /\ RoomWithinLimit
  /\ RefusedIsTooLarge

(* What reserving room yields: a capacity for the bytes there are and those to
   come. *)
LEMMA ReservedFits ==
  ASSUME NEW c \in Nat, NEW n \in Nat, n <= c, NEW more \in Int, NEW c2 \in Reserved(c, n, more)
  PROVE  c2 \in Nat /\ c2 >= n /\ c2 - n >= more
<1>1. CASE c - n >= more
  BY Zenon, <1>1 DEF Reserved
<1>2. CASE ~(c - n >= more)
  BY <1>2, BufferAssumption DEF Reserved
<1> QED
  BY Zenon, <1>1, <1>2

(* The capacity a growth aims at is above the present one and within the
   limit, when the growth is not refused. *)
LEMMA TargetAbove ==
  ASSUME BufferTypeOK, NewCap > MaxBufSize => cap < MaxBufSize
  PROVE  LET target == IF NewCap > MaxBufSize THEN MaxBufSize ELSE NewCap
         IN target \in Nat /\ target > cap /\ target <= MaxBufSize
<1>1. NewCap \in Nat /\ NewCap > cap
  BY BufferAssumption DEF BufferTypeOK, NewCap, Larger
<1> QED
  BY <1>1, BufferAssumption DEF BufferTypeOK

(* A growth that aims above the present capacity leaves room. *)
LEMMA GrowthLeavesRoom ==
  ASSUME NEW c \in Nat, NEW n \in Nat, NEW t \in Nat, t > c, NEW c2 \in Nat, c2 - n >= t - c
  PROVE  n < c2
OBVIOUS

(* Initially nothing is buffered. *)
LEMMA BufferInitInv == Init => BufferInv
BY BufferAssumption DEF Init, BufferInv, BufferTypeOK, RoomWithinLimit, RefusedIsTooLarge

(* Every step of the two read loops preserves the invariant. *)
LEMMA BufferNextInv == BufferInv /\ [Next]_vars => BufferInv'
<1> SUFFICES ASSUME BufferInv, [Next]_vars PROVE BufferInv'
  BY Zenon
<1> USE BufferAssumption
<1>1. CASE Call
  BY Zenon, <1>1 DEF Call, BufferInv, BufferTypeOK, RoomWithinLimit, RefusedIsTooLarge
<1>2. CASE ReadResponse
  <2>1. len - frame \in Nat /\ cap - len \in Nat
    BY <1>2 DEF ReadResponse, BufferInv, BufferTypeOK
  <2>2. cap' \in Nat /\ len' <= cap'
    BY <1>2, <2>1, ReservedFits DEF ReadResponse
  <2> QED
    BY Zenon, <1>2, <2>1, <2>2 DEF ReadResponse, BufferInv, BufferTypeOK, RoomWithinLimit, RefusedIsTooLarge
<1>3. CASE ReadRawResponse
  BY <1>3 DEF ReadRawResponse, BufferInv, BufferTypeOK, RoomWithinLimit, RefusedIsTooLarge
<1>4. CASE Restore
  <2>1. cap - len \in Nat /\ len \in Nat
    BY DEF BufferInv, BufferTypeOK
  <2>2. cap' \in Nat /\ len <= cap'
    BY <1>4, <2>1, ReservedFits DEF Restore
  <2> QED
    BY Zenon, <1>4, <2>2 DEF Restore, BufferInv, BufferTypeOK, RoomWithinLimit, RefusedIsTooLarge
<1>5. CASE Unfinished
  BY Zenon, <1>5 DEF Unfinished, BufferInv, BufferTypeOK, RoomWithinLimit, RefusedIsTooLarge
<1>6. CASE TooLarge
  <2>1. frame > MaxBufSize - MinRoom
    BY <1>6 DEF TooLarge, BufferInv, BufferTypeOK
  <2> QED
    BY Zenon, <1>6, <2>1 DEF TooLarge, BufferInv, BufferTypeOK, RoomWithinLimit, RefusedIsTooLarge
<1>7. CASE Grow
  <2>1. CASE cap - len >= MinRoom
    BY <1>7, <2>1 DEF Grow, BufferInv, BufferTypeOK, RoomWithinLimit, RefusedIsTooLarge
  <2>2. CASE ~(cap - len >= MinRoom)
    <3> DEFINE target == IF NewCap > MaxBufSize THEN MaxBufSize ELSE NewCap
    <3>1. /\ NewCap > MaxBufSize => cap < MaxBufSize
          /\ asked' = len + target - cap
          /\ cap' \in Reserved(cap, len, target - cap)
      BY Zenon, <1>7, <2>2 DEF Grow
    <3>2. target \in Nat /\ target > cap /\ target <= MaxBufSize
      BY Zenon, <3>1, TargetAbove DEF BufferInv
    <3>3. UNCHANGED <<len, frame>> /\ pc' = "read"
      BY Zenon, <1>7 DEF Grow
    <3> HIDE DEF target
    <3>4. cap \in Nat /\ len \in Nat /\ len <= cap /\ frame \in FrameSizes
      BY Zenon DEF BufferInv, BufferTypeOK
    <3>5. target - cap \in Int
      BY <3>2, <3>4
    <3>6. cap' \in Nat /\ cap' >= len /\ cap' - len >= target - cap
      BY Zenon, <3>1, <3>4, <3>5, ReservedFits
    <3>7. len < cap'
      BY Zenon, <3>2, <3>4, <3>6, GrowthLeavesRoom
    <3>8. asked' \in Int /\ asked' <= MaxBufSize
      BY <3>1, <3>2, <3>4
    <3> QED
      BY ZenonT(20), <3>3, <3>4, <3>6, <3>7, <3>8 DEF BufferInv, BufferTypeOK, RoomWithinLimit, RefusedIsTooLarge
  <2> QED
    BY Zenon, <2>1, <2>2
<1>8. CASE Read
  BY <1>8 DEF Read, BufferInv, BufferTypeOK, RoomWithinLimit, RefusedIsTooLarge
<1>9. CASE UNCHANGED vars
  BY Zenon, <1>9 DEF vars, BufferInv, BufferTypeOK, RoomWithinLimit, RefusedIsTooLarge
<1> QED
  BY Zenon, <1>1, <1>2, <1>3, <1>4, <1>5, <1>6, <1>7, <1>8, <1>9 DEF Next

LEMMA BufferInvariance == Spec => []BufferInv
<1> QED
  BY BufferInitInv, BufferNextInv, PTL DEF Spec

(* For every buffer capacity, limit and behaviour of the allocator, a read
   finds room in the buffer, and no growth asks for more than max_buf_size
   (growth in read_response, read_raw_response). *)
THEOREM BufferRoomWithinLimit == Spec => []RoomWithinLimit
<1>1. BufferInv => RoomWithinLimit
  BY Zenon DEF BufferInv
<1> QED
  BY <1>1, BufferInvariance, PTL

(* Only frames longer than max_buf_size - 4096 are ever refused as too large
   (the error return of the growth code). *)
THEOREM BufferRefusesOnlyLarge == Spec => []RefusedIsTooLarge
<1>1. BufferInv => RefusedIsTooLarge
  BY Zenon DEF BufferInv
<1> QED
  BY <1>1, BufferInvariance, PTL

-----------------------------------------------------------------------------
(* The Pipeline object *)

Ascending(s) == \A i, j \in DOMAIN s : i < j => s[i] < s[j]

\* The numbers of the commands that calls of execute() have taken.
Taken == UNION {Pipe!Range(b) : b \in batches}

\* The server may execute command x before command y if the calls of execute() have
\* taken B and an exchange has failed (f) or none has.
May(f, B, x, y) == x < y \/ (f /\ x # y /\ ~\E b \in B : x \in Pipe!Range(b) /\ y \in Pipe!Range(b))

\* A thread that is not idle is in execute() and holds the borrow.
PipeTypeOK ==
  /\ commands \in Seq(Nat) /\ executed \in Seq(Nat) /\ accepted \in Nat /\ batches \subseteq Seq(Nat)
  /\ batch \in [Threads -> Seq(Nat)] /\ pconn \in [Threads -> Conns]
  /\ sent \in [Conns -> Seq(Nat)] /\ inbox \in [Conns -> Seq(Nat)] /\ DOMAIN alive = Conns
  /\ DOMAIN replies = Threads /\ DOMAIN presult = Threads
  /\ ppc \in [Threads -> {"idle", "io", "convert"}]
  /\ \A t \in Threads : ppc[t] # "idle" => borrow = <<t>>

\* What is queued comes after all that was ever taken.
Numbered ==
  /\ \A i \in DOMAIN commands : commands[i] <= accepted
  /\ \A x \in Taken : x <= accepted /\ \A i \in DOMAIN commands : x < commands[i]
  /\ \A i \in DOMAIN executed : executed[i] \in Taken
  /\ \A c \in Conns : \A k \in DOMAIN sent[c] : sent[c][k] \in Taken
  /\ Ascending(commands) /\ \A c \in Conns : Ascending(sent[c])

\* What has been executed, what a connection carries and what another one carries may
\* be executed in any order of these.
Ordered ==
  /\ \A i, j \in DOMAIN executed : i < j => May(failed, batches, executed[i], executed[j])
  /\ \A i \in DOMAIN executed, c \in Conns : \A k \in DOMAIN sent[c] : May(failed, batches, executed[i], sent[c][k])
  /\ \A c, d \in Conns : c # d =>
       \A k \in DOMAIN sent[c], l \in DOMAIN sent[d] : May(failed, batches, sent[c][k], sent[d][l])

\* b is q after p.
Carries(p, q, b) ==
  /\ Len(p) + Len(q) = Len(b)
  /\ \A k \in DOMAIN p : p[k] = b[k]
  /\ \A k \in DOMAIN q : q[k] = b[Len(p) + k]

\* As long as no exchange has failed, the connection in use carries the batch, its
\* executed part in the replies, and the others carry nothing.
Clean ==
  ~failed =>
    /\ \A c \in Conns : (\A t \in Threads : ppc[t] = "io" => pconn[t] # c) => sent[c] = <<>> /\ inbox[c] = <<>>
    /\ \A t \in Threads : ppc[t] = "io" => Carries(inbox[pconn[t]], sent[pconn[t]], batch[t])

\* The connection in use is up, and what is converted has a reply for every command.
Answered ==
  \A t \in Threads :
    /\ ppc[t] = "io" => alive[pconn[t]]
    /\ ppc[t] = "convert" =>
         /\ DOMAIN replies[t] = 1..Len(batch[t])
         /\ \A i \in DOMAIN replies[t] : replies[t][i].reply \in Replies
         /\ ~failed => \A i \in DOMAIN replies[t] : replies[t][i].answers = batch[t][i]

PipeInv == PipeTypeOK /\ Numbered /\ Ordered /\ Clean /\ Answered

(* Initially nothing is queued, taken or executed. *)
LEMMA PipeInitInv == Pipe!Init => PipeInv
<1> SUFFICES ASSUME Pipe!Init PROVE PipeInv
  BY Zenon
<1>1. /\ commands = <<>> /\ executed = <<>> /\ accepted = 0 /\ batches = {} /\ failed = FALSE
      /\ batch = [t \in Threads |-> <<>>] /\ sent = [c \in Conns |-> <<>>] /\ inbox = [c \in Conns |-> <<>>]
      /\ DOMAIN alive = Conns /\ DOMAIN replies = Threads /\ DOMAIN presult = Threads
      /\ ppc = [t \in Threads |-> "idle"]
  BY Zenon DEF Pipe!Init
<1>2. pconn \in [Threads -> Conns]
  <2>1. (CHOOSE c \in Conns : TRUE) \in Conns
    BY Zenon, ClientAssumption
  <2> QED
    BY Zenon, <2>1 DEF Pipe!Init
<1>3. DOMAIN <<>> = {} /\ <<>> \in Seq(Nat) /\ 0 \in Nat
  OBVIOUS
<1>4. PipeTypeOK
  BY Zenon, <1>1, <1>2, <1>3 DEF PipeTypeOK
<1>5. Numbered /\ Ordered
  BY Zenon, <1>1, <1>3 DEF Numbered, Ordered, Ascending, Taken
<1>6. Clean /\ Answered
  BY Zenon, <1>1 DEF Clean, Answered
<1> QED
  BY Zenon, <1>4, <1>5, <1>6 DEF PipeInv

(* Every step keeps the types, and one thread at a time is in execute(). *)
LEMMA PipeTypeNext == PipeTypeOK /\ [Pipe!Next]_(Pipe!vars) => PipeTypeOK'
<1> SUFFICES ASSUME PipeTypeOK, [Pipe!Next]_(Pipe!vars) PROVE PipeTypeOK'
  BY Zenon
<1>1. ASSUME NEW t \in Threads, Pipe!Push(t) PROVE PipeTypeOK'
  <2>1. commands' \in Seq(Nat) /\ accepted' \in Nat
    BY <1>1 DEF Pipe!Push, PipeTypeOK
  <2> QED
    BY Zenon, <1>1, <2>1 DEF Pipe!Push, Pipe!server, PipeTypeOK
<1>2. ASSUME NEW t \in Threads, Pipe!AlreadyBorrowed(t) \/ Pipe!ExecuteEmpty(t) PROVE PipeTypeOK'
  BY Zenon, <1>2 DEF Pipe!AlreadyBorrowed, Pipe!ExecuteEmpty, Pipe!server, PipeTypeOK
<1>3. ASSUME NEW t \in Threads, Pipe!reset(t) PROVE PipeTypeOK'
  <2>1. <<>> \in Seq(Nat)
    OBVIOUS
  <2> QED
    BY Zenon, <1>3, <2>1 DEF Pipe!reset, Pipe!server, PipeTypeOK
<1>4. ASSUME NEW t \in Threads, Pipe!Execute(t) PROVE PipeTypeOK'
  <2>1. PICK c \in Conns : Pipe!SendBatch(t, c)
    BY Zenon, <1>4 DEF Pipe!Execute
  <2>2. <<>> \in Seq(Nat) /\ sent[c] \o commands \in Seq(Nat)
    BY DEF PipeTypeOK
  <2>3. /\ borrow = <<>> /\ borrow' = <<t>> /\ ppc' = [ppc EXCEPT ![t] = "io"]
        /\ commands' = <<>> /\ UNCHANGED <<replies, presult, inbox, accepted, executed>>
    BY Zenon, <1>4, <2>1 DEF Pipe!Execute, Pipe!SendBatch, Pipe!Free
  <2>4. \A u \in Threads : ppc[u] = "idle"
    <3>1. \A u \in Threads : borrow # <<u>>
      BY <2>3
    <3> QED
      BY Zenon, <3>1 DEF PipeTypeOK
  <2>5. batch' \in [Threads -> Seq(Nat)] /\ pconn' \in [Threads -> Conns] /\ sent' \in [Conns -> Seq(Nat)]
    BY Zenon, <2>1, <2>2 DEF Pipe!SendBatch, PipeTypeOK
  <2>6. DOMAIN alive' = Conns /\ batches' \subseteq Seq(Nat)
    BY Zenon, <2>1 DEF Pipe!SendBatch, PipeTypeOK
  <2>7. ppc' \in [Threads -> {"idle", "io", "convert"}] /\ \A u \in Threads : ppc'[u] # "idle" => borrow' = <<u>>
    BY Zenon, <2>3, <2>4 DEF PipeTypeOK
  <2> QED
    BY Zenon, <2>2, <2>3, <2>5, <2>6, <2>7 DEF PipeTypeOK
<1>5. ASSUME NEW c \in Conns, Pipe!Serve(c) PROVE PipeTypeOK'
  <2>1. sent[c] # <<>> /\ sent[c] \in Seq(Nat) /\ inbox[c] \in Seq(Nat) /\ executed \in Seq(Nat)
    BY Zenon, <1>5 DEF Pipe!Serve, PipeTypeOK
  <2>2. /\ Head(sent[c]) \in Nat /\ Tail(sent[c]) \in Seq(Nat)
        /\ Append(inbox[c], Head(sent[c])) \in Seq(Nat) /\ Append(executed, Head(sent[c])) \in Seq(Nat)
    BY <2>1
  <2>3. sent' \in [Conns -> Seq(Nat)] /\ inbox' \in [Conns -> Seq(Nat)] /\ executed' \in Seq(Nat)
    BY Zenon, <1>5, <2>2 DEF Pipe!Serve, PipeTypeOK
  <2> QED
    BY Zenon, <1>5, <2>3 DEF Pipe!Serve, PipeTypeOK
<1>6. ASSUME NEW t \in Threads, Pipe!PipelineRaw(t) PROVE PipeTypeOK'
  <2>1. pconn[t] \in Conns /\ inbox[pconn[t]] \in Seq(Nat) /\ batch[t] \in Seq(Nat)
    BY Zenon DEF PipeTypeOK
  <2>2. SubSeq(inbox[pconn[t]], Len(batch[t]) + 1, Len(inbox[pconn[t]])) \in Seq(Nat)
    BY SMTT(20), <2>1
  <2>3. inbox' \in [Conns -> Seq(Nat)] /\ DOMAIN replies' = Threads
    BY Zenon, <1>6, <2>1, <2>2 DEF Pipe!PipelineRaw, PipeTypeOK
  <2>4. ppc' \in [Threads -> {"idle", "io", "convert"}] /\ \A u \in Threads : ppc'[u] # "idle" => ppc[u] # "idle"
    BY Zenon, <1>6 DEF Pipe!PipelineRaw, PipeTypeOK
  <2> QED
    BY Zenon, <1>6, <2>3, <2>4 DEF Pipe!PipelineRaw, PipeTypeOK
<1>7. ASSUME NEW t \in Threads, NEW err, Pipe!Leave(t, err), ppc[t] # "idle",
             inbox' \in [Conns -> Seq(Nat)], sent' \in [Conns -> Seq(Nat)], DOMAIN alive' = Conns
      PROVE  PipeTypeOK'
  <2>1. <<>> \in Seq(Nat)
    OBVIOUS
  <2>2. \A u \in Threads : u # t => ppc[u] = "idle"
    <3>1. borrow = <<t>>
      BY Zenon, <1>7 DEF PipeTypeOK
    <3>2. \A u \in Threads : u # t => borrow # <<u>>
      BY <3>1
    <3> QED
      BY Zenon, <3>2 DEF PipeTypeOK
  <2>3. ppc' \in [Threads -> {"idle", "io", "convert"}] /\ \A u \in Threads : ppc'[u] = "idle"
    BY Zenon, <1>7, <2>2 DEF Pipe!Leave, PipeTypeOK
  <2>4. batch' \in [Threads -> Seq(Nat)] /\ DOMAIN presult' = Threads
    BY Zenon, <1>7, <2>1 DEF Pipe!Leave, PipeTypeOK
  <2> QED
    BY Zenon, <1>7, <2>3, <2>4 DEF Pipe!Leave, PipeTypeOK
<1>8. ASSUME NEW t \in Threads, Pipe!ReadTimedOut(t) PROVE PipeTypeOK'
  <2>1. <<>> \in Seq(Nat)
    OBVIOUS
  <2>2. ppc[t] = "io" /\ Pipe!Leave(t, <<"Timeout">>) /\ UNCHANGED <<sent, alive>> /\ inbox' \in [Conns -> Seq(Nat)]
    BY Zenon, <1>8, <2>1 DEF Pipe!ReadTimedOut, PipeTypeOK
  <2> QED
    BY Zenon, <1>7, <2>2 DEF PipeTypeOK
<1>9. ASSUME NEW t \in Threads, Pipe!Broken(t) PROVE PipeTypeOK'
  <2>1. <<>> \in Seq(Nat)
    OBVIOUS
  <2>2. PICK n \in 0..Len(sent[pconn[t]]) : sent' = [sent EXCEPT ![pconn[t]] = SubSeq(@, 1, n)]
    BY Zenon, <1>9 DEF Pipe!Broken
  <2>3. sent[pconn[t]] \in Seq(Nat)
    BY Zenon DEF PipeTypeOK
  <2>4. SubSeq(sent[pconn[t]], 1, n) \in Seq(Nat)
    BY <2>3
  <2>5. ppc[t] = "io" /\ Pipe!Leave(t, <<"Connection">>) /\ DOMAIN alive' = Conns
    BY Zenon, <1>9 DEF Pipe!Broken, PipeTypeOK
  <2>6. inbox' \in [Conns -> Seq(Nat)] /\ sent' \in [Conns -> Seq(Nat)]
    BY Zenon, <1>9, <2>1, <2>2, <2>4 DEF Pipe!Broken, PipeTypeOK
  <2> QED
    BY Zenon, <1>7, <2>5, <2>6
<1>10. ASSUME NEW t \in Threads, Pipe!Convert(t) PROVE PipeTypeOK'
  <2>1. <<>> \in Seq(Nat)
    OBVIOUS
  <2>2. \A u \in Threads : u # t => ppc[u] = "idle"
    <3>1. borrow = <<t>>
      BY Zenon, <1>10 DEF PipeTypeOK, Pipe!Convert
    <3>2. \A u \in Threads : u # t => borrow # <<u>>
      BY <3>1
    <3> QED
      BY Zenon, <3>2 DEF PipeTypeOK
  <2>3. ppc' \in [Threads -> {"idle", "io", "convert"}] /\ \A u \in Threads : ppc'[u] = "idle"
    BY Zenon, <1>10, <2>2 DEF Pipe!Convert, PipeTypeOK
  <2>4. batch' \in [Threads -> Seq(Nat)] /\ DOMAIN presult' = Threads /\ DOMAIN replies' = Threads
    BY Zenon, <1>10, <2>1 DEF Pipe!Convert, PipeTypeOK
  <2> QED
    BY Zenon, <1>10, <2>3, <2>4 DEF Pipe!Convert, Pipe!server, PipeTypeOK
<1>11. CASE UNCHANGED Pipe!vars
  BY Zenon, <1>11 DEF Pipe!vars, PipeTypeOK
<1> QED
  BY Zenon, <1>1, <1>2, <1>3, <1>4, <1>5, <1>6, <1>8, <1>9, <1>10, <1>11 DEF Pipe!Next, Pipe!Finish

(* A failure only allows more orders. *)
LEMMA MayStays ==
  ASSUME NEW f, NEW g, f => g, NEW B, NEW x, NEW y, May(f, B, x, y)
  PROVE  May(g, B, x, y)
BY Zenon DEF May

(* A step that executes and takes nothing, and after which the connections carry
   no more than before, keeps the order. *)
LEMMA NoMoreSent ==
  ASSUME Ordered, UNCHANGED <<executed, batches>>, failed => failed',
         \A c \in Conns : \A k \in DOMAIN sent'[c] : k \in DOMAIN sent[c] /\ sent'[c][k] = sent[c][k]
  PROVE  Ordered'
<1>1. \A i, j \in DOMAIN executed' : i < j => May(failed', batches', executed'[i], executed'[j])
  BY Zenon, MayStays DEF Ordered
<1>2. \A i \in DOMAIN executed', c \in Conns : \A k \in DOMAIN sent'[c] :
        May(failed', batches', executed'[i], sent'[c][k])
  BY Zenon, MayStays DEF Ordered
<1>3. \A c, d \in Conns : c # d =>
        \A k \in DOMAIN sent'[c], l \in DOMAIN sent'[d] : May(failed', batches', sent'[c][k], sent'[d][l])
  BY ZenonT(20), MayStays DEF Ordered
<1> QED
  BY Zenon, <1>1, <1>2, <1>3 DEF Ordered

LEMMA NoMoreNumbered ==
  ASSUME Numbered, UNCHANGED <<commands, accepted, executed, batches>>, \A c \in Conns : Ascending(sent'[c]),
         \A c \in Conns : \A k \in DOMAIN sent'[c] : k \in DOMAIN sent[c] /\ sent'[c][k] = sent[c][k]
  PROVE  Numbered'
<1>1. Taken' = Taken
  BY Zenon DEF Taken
<1> QED
  BY Zenon, <1>1 DEF Numbered, Ascending

(* A queued command has a number above those of all earlier ones. *)
LEMMA PushNumbered == ASSUME PipeTypeOK, Numbered, NEW t \in Threads, Pipe!Push(t) PROVE Numbered'
<1> DEFINE x == accepted + 1
<1>1. /\ commands \in Seq(Nat) /\ accepted \in Nat /\ \A y \in Taken : y \in Nat
      /\ commands' = Append(commands, x) /\ accepted' = x /\ UNCHANGED <<executed, sent, batches>>
  <2>1. \A b \in batches : b \in Seq(Nat)
    BY Zenon DEF PipeTypeOK
  <2>2. \A b \in Seq(Nat) : Pipe!Range(b) \subseteq Nat
    BY DEF Pipe!Range
  <2> QED
    BY Zenon, <2>1, <2>2 DEF Pipe!Push, Pipe!server, PipeTypeOK, Taken
<1>2. Taken' = Taken
  BY Zenon, <1>1 DEF Taken
<1>3. \A j \in DOMAIN commands' :
        \/ j = Len(commands) + 1 /\ commands'[j] = x
        \/ j \in DOMAIN commands /\ commands'[j] = commands[j] /\ j # Len(commands) + 1 /\ commands[j] \in Nat
  BY <1>1
<1>4. \A j \in DOMAIN commands : commands[j] <= accepted
  BY Zenon DEF Numbered
<1>5. \A j \in DOMAIN commands' : commands'[j] <= accepted'
  BY <1>1, <1>3, <1>4
<1>6. \A y \in Taken : y <= accepted /\ \A j \in DOMAIN commands : y < commands[j]
  BY Zenon DEF Numbered
<1>7. \A y \in Taken : y <= x /\ y < x
  BY <1>1, <1>6
<1>8. \A y \in Taken : y <= accepted' /\ \A j \in DOMAIN commands' : y < commands'[j]
  BY Zenon, <1>1, <1>3, <1>6, <1>7
<1>9. Ascending(commands')
  <2>1. \A i, j \in DOMAIN commands : i < j => commands[i] < commands[j]
    BY Zenon DEF Numbered, Ascending
  <2>2. \A i \in DOMAIN commands : commands[i] < x
    BY <1>1, <1>4
  <2>3. \A i, j \in DOMAIN commands' : i < j => i # Len(commands) + 1
    BY <1>1
  <2> QED
    BY Zenon, <1>3, <2>1, <2>2, <2>3 DEF Ascending
<1> QED
  BY Zenon, <1>1, <1>2, <1>5, <1>8, <1>9 DEF Numbered

(* What execute() takes comes after all that was taken before, and other
   connections carry something only after a failure. *)
LEMMA ExecuteOrdered ==
  ASSUME PipeInv, NEW t \in Threads, Pipe!Execute(t)
  PROVE  Numbered' /\ Ordered'
<1>1. PICK c \in Conns : Pipe!SendBatch(t, c)
  BY Zenon DEF Pipe!Execute
<1>2. /\ commands' = <<>> /\ UNCHANGED <<accepted, executed, failed>> /\ borrow = <<>>
      /\ sent' = [sent EXCEPT ![c] = sent[c] \o commands] /\ batches' = batches \cup {commands}
  BY Zenon, <1>1 DEF Pipe!Execute, Pipe!SendBatch, Pipe!Free
<1>3. /\ commands \in Seq(Nat) /\ sent \in [Conns -> Seq(Nat)] /\ sent[c] \in Seq(Nat) /\ executed \in Seq(Nat)
      /\ Numbered /\ Ordered /\ Clean
  BY Zenon DEF PipeInv, PipeTypeOK
<1> DEFINE q == sent[c] \o commands
<1>4. /\ sent'[c] = q
      /\ \A d \in Conns : d # c => sent'[d] = sent[d]
  BY Zenon, <1>2, <1>3
<1>5. \A k \in DOMAIN q : \/ k \in DOMAIN sent[c] /\ q[k] = sent[c][k] /\ k <= Len(sent[c])
                          \/ k > Len(sent[c]) /\ k - Len(sent[c]) \in DOMAIN commands /\ q[k] = commands[k - Len(sent[c])]
  BY SMTT(20), <1>3
<1> HIDE DEF q
<1>6. Taken' = Taken \cup Pipe!Range(commands)
  BY Zenon, <1>2 DEF Taken
<1>7. /\ \A x \in Taken : x <= accepted /\ \A i \in DOMAIN commands : x < commands[i]
      /\ \A y \in Pipe!Range(commands) : y <= accepted /\ \A x \in Taken : x < y
  BY Zenon, <1>3 DEF Numbered, Pipe!Range
<1>8. \A d \in Conns : \A k \in DOMAIN sent'[d] :
        \/ k \in DOMAIN sent[d] /\ sent'[d][k] = sent[d][k] /\ sent'[d][k] \in Taken
        \/ d = c /\ sent'[d][k] \in Pipe!Range(commands)
  <2>1. \A d \in Conns : \A k \in DOMAIN sent[d] : sent[d][k] \in Taken
    BY Zenon, <1>3 DEF Numbered
  <2>2. \A k \in DOMAIN q : (k \in DOMAIN sent[c] /\ q[k] = sent[c][k]) \/ q[k] \in Pipe!Range(commands)
    BY Zenon, <1>5 DEF Pipe!Range
  <2> SUFFICES ASSUME NEW d \in Conns, NEW k \in DOMAIN sent'[d]
               PROVE  \/ k \in DOMAIN sent[d] /\ sent'[d][k] = sent[d][k] /\ sent'[d][k] \in Taken
                      \/ d = c /\ sent'[d][k] \in Pipe!Range(commands)
    BY Zenon
  <2>3. CASE d = c
    BY Zenon, <1>4, <2>1, <2>2, <2>3
  <2>4. CASE d # c
    BY Zenon, <1>4, <2>1, <2>4
  <2> QED
    BY Zenon, <2>3, <2>4
<1>9. Ascending(q)
  <2> SUFFICES ASSUME NEW i \in DOMAIN q, NEW j \in DOMAIN q, i < j PROVE q[i] < q[j]
    BY Zenon DEF Ascending
  <2>1. i \in Int /\ j \in Int /\ Len(sent[c]) \in Nat
    BY <1>3 DEF q
  <2>2. CASE j <= Len(sent[c])
    <3>1. ~(j > Len(sent[c])) /\ ~(i > Len(sent[c]))
      BY <2>1, <2>2
    <3> QED
      BY Zenon, <1>3, <1>5, <3>1 DEF Numbered, Ascending
  <2>3. CASE i > Len(sent[c])
    <3>1. ~(j <= Len(sent[c])) /\ ~(i <= Len(sent[c])) /\ i - Len(sent[c]) < j - Len(sent[c])
      BY <2>1, <2>3
    <3> QED
      BY Zenon, <1>3, <1>5, <3>1 DEF Numbered, Ascending
  <2>4. CASE i <= Len(sent[c]) /\ j > Len(sent[c])
    <3>1. ~(j <= Len(sent[c])) /\ ~(i > Len(sent[c]))
      BY <2>1, <2>4
    <3> QED
      BY Zenon, <1>3, <1>5, <3>1 DEF Numbered
  <2> QED
    BY SMTT(20), <2>1, <2>2, <2>3, <2>4
<1>10. Numbered'
  <2>1. DOMAIN commands' = {}
    BY <1>2
  <2>2. Ascending(commands') /\ \A d \in Conns : Ascending(sent'[d])
    BY Zenon, <1>3, <1>4, <1>9, <2>1 DEF Numbered, Ascending
  <2>3. \A x \in Taken' : x <= accepted' /\ \A i \in DOMAIN commands' : x < commands'[i]
    BY Zenon, <1>2, <1>6, <1>7, <2>1
  <2>4. \A i \in DOMAIN executed' : executed'[i] \in Taken'
    BY Zenon, <1>2, <1>3, <1>6 DEF Numbered
  <2>5. \A d \in Conns : \A k \in DOMAIN sent'[d] : sent'[d][k] \in Taken'
    BY Zenon, <1>6, <1>8
  <2> QED
    BY Zenon, <2>1, <2>2, <2>3, <2>4, <2>5 DEF Numbered
<1>11. ASSUME NEW x \in Taken, NEW y \in Pipe!Range(commands) PROVE x # y /\ ~(y < x)
  <2>1. x < y
    BY Zenon, <1>7
  <2>2. x \in Nat /\ y \in Nat
    <3>1. \A b \in Seq(Nat) : Pipe!Range(b) \subseteq Nat
      BY DEF Pipe!Range
    <3>2. batches \subseteq Seq(Nat)
      BY Zenon DEF PipeInv, PipeTypeOK
    <3> QED
      BY Zenon, <1>3, <3>1, <3>2 DEF Taken
  <2> QED
    BY <2>1, <2>2
<1>12. ASSUME NEW x \in Taken, NEW y \in Taken, May(failed, batches, x, y) PROVE May(failed', batches', x, y)
  <2>1. x \notin Pipe!Range(commands)
    BY Zenon, <1>11
  <2> QED
    BY Zenon, <1>2, <1>12, <2>1 DEF May
<1>13. ASSUME NEW x \in Taken, NEW y \in Pipe!Range(commands) PROVE May(failed', batches', x, y)
  BY Zenon, <1>7 DEF May
<1>14. ASSUME failed, NEW x \in Taken, NEW y \in Pipe!Range(commands) PROVE May(failed', batches', y, x)
  <2>1. x # y /\ x \notin Pipe!Range(commands) /\ \A b \in batches : y \notin Pipe!Range(b)
    BY Zenon, <1>11 DEF Taken
  <2> QED
    BY Zenon, <1>2, <1>14, <2>1 DEF May
<1>15. \A d \in Conns : ~failed => sent[d] = <<>>
  <2>1. \A u \in Threads : ppc[u] # "io"
    <3>1. \A u \in Threads : borrow # <<u>>
      BY <1>2
    <3> QED
      BY Zenon, <3>1 DEF PipeInv, PipeTypeOK
  <2> QED
    BY Zenon, <1>3, <2>1 DEF Clean
<1>16. \A i, j \in DOMAIN executed' : i < j => May(failed', batches', executed'[i], executed'[j])
  BY Zenon, <1>2, <1>3, <1>12 DEF Ordered, Numbered
<1>17. \A i \in DOMAIN executed', d \in Conns : \A k \in DOMAIN sent'[d] :
         May(failed', batches', executed'[i], sent'[d][k])
  BY ZenonT(40), <1>2, <1>3, <1>8, <1>12, <1>13 DEF Ordered, Numbered
<1>18. ASSUME NEW d \in Conns, NEW e \in Conns, d # e, NEW k \in DOMAIN sent'[d], NEW l \in DOMAIN sent'[e]
       PROVE  May(failed', batches', sent'[d][k], sent'[e][l])
  <2>1. CASE d = c
    <3>1. sent'[e][l] \in Taken /\ l \in DOMAIN sent[e] /\ sent'[e][l] = sent[e][l]
      BY Zenon, <1>8, <1>18, <2>1
    <3>2. failed
      <4>1. sent[e] # <<>>
        BY <3>1
      <4> QED
        BY Zenon, <1>15, <4>1
    <3>3. CASE sent'[d][k] \in Pipe!Range(commands)
      BY Zenon, <1>14, <3>1, <3>2, <3>3
    <3>4. CASE k \in DOMAIN sent[d] /\ sent'[d][k] = sent[d][k] /\ sent'[d][k] \in Taken
      BY Zenon, <1>3, <1>12, <1>18, <3>1, <3>4 DEF Ordered
    <3> QED
      BY Zenon, <1>8, <3>3, <3>4
  <2>2. CASE d # c
    <3>1. sent'[d][k] \in Taken /\ k \in DOMAIN sent[d] /\ sent'[d][k] = sent[d][k]
      BY Zenon, <1>8, <2>2
    <3>2. CASE sent'[e][l] \in Pipe!Range(commands)
      BY Zenon, <1>13, <3>1, <3>2
    <3>3. CASE l \in DOMAIN sent[e] /\ sent'[e][l] = sent[e][l] /\ sent'[e][l] \in Taken
      BY Zenon, <1>3, <1>12, <1>18, <3>1, <3>3 DEF Ordered
    <3> QED
      BY Zenon, <1>8, <3>2, <3>3
  <2> QED
    BY Zenon, <2>1, <2>2
<1>19. Ordered'
  BY Zenon, <1>16, <1>17, <1>18 DEF Ordered
<1> QED
  BY Zenon, <1>10, <1>19

(* The server executes the first command of a connection, after which the rest of
   that connection and those of the others may come. *)
LEMMA ServeOrdered ==
  ASSUME PipeTypeOK, Numbered, Ordered, NEW c \in Conns, Pipe!Serve(c)
  PROVE  Numbered' /\ Ordered'
<1> DEFINE s == sent[c]
           h == Head(s)
           r == Tail(s)
           e == Append(executed, h)
<1>1. /\ sent[c] # <<>> /\ executed' = e /\ sent' = [sent EXCEPT ![c] = r]
      /\ UNCHANGED <<commands, accepted, batches, failed>>
  BY Zenon DEF Pipe!Serve
<1>2. sent \in [Conns -> Seq(Nat)] /\ s \in Seq(Nat) /\ executed \in Seq(Nat)
  BY Zenon DEF PipeTypeOK
<1>3. /\ 1 \in DOMAIN s /\ h = s[1]
      /\ \A k \in DOMAIN r : k + 1 \in DOMAIN s /\ r[k] = s[k + 1] /\ 1 < k + 1
      /\ \A k, l \in DOMAIN r : k < l => k + 1 < l + 1
  BY SMTT(20), <1>1, <1>2
<1>4. /\ \A i \in DOMAIN e : (i \in DOMAIN executed /\ e[i] = executed[i]) \/ (e[i] = h /\ i = Len(executed) + 1)
      /\ \A i, j \in DOMAIN e : i < j => i \in DOMAIN executed
  <2>1. h \in Nat
    BY <1>1, <1>2
  <2> HIDE DEF h
  <2> QED
    BY <1>2, <2>1
<1>5. /\ sent'[c] = r
      /\ \A d \in Conns : d # c => sent'[d] = sent[d]
  BY Zenon, <1>1, <1>2
<1>6. Taken' = Taken
  BY Zenon, <1>1 DEF Taken
<1>7. h \in Taken
  BY Zenon, <1>3 DEF Numbered
<1>8. Numbered'
  <2>1. \A i \in DOMAIN executed' : executed'[i] \in Taken'
    BY Zenon, <1>1, <1>4, <1>6, <1>7 DEF Numbered
  <2>2. \A k \in DOMAIN r : r[k] \in Taken
    BY Zenon, <1>3 DEF Numbered
  <2>3. \A d \in Conns : \A k \in DOMAIN sent'[d] : sent'[d][k] \in Taken'
    BY Zenon, <1>5, <1>6, <2>2 DEF Numbered
  <2>4. Ascending(r)
    BY Zenon, <1>3 DEF Numbered, Ascending
  <2>5. \A d \in Conns : Ascending(sent'[d])
    BY Zenon, <1>5, <2>4 DEF Numbered
  <2> HIDE DEF s, h, r, e
  <2> QED
    BY Zenon, <1>1, <1>6, <2>1, <2>3, <2>5 DEF Numbered, Ascending
<1>9. \A x \in DOMAIN executed : May(failed, batches, executed[x], h)
  BY Zenon, <1>3 DEF Ordered
<1>10. \A k \in DOMAIN r : May(failed, batches, h, r[k])
  BY Zenon, <1>3 DEF Numbered, Ascending, May
<1>11. \A d \in Conns : d # c => \A k \in DOMAIN sent[d] : May(failed, batches, h, sent[d][k])
  BY ZenonT(40), <1>3 DEF Ordered
<1>12. \A x \in DOMAIN executed, k \in DOMAIN r : May(failed, batches, executed[x], r[k])
  BY Zenon, <1>3 DEF Ordered
<1>13. \A d \in Conns : d # c => \A k \in DOMAIN r, l \in DOMAIN sent[d] :
         May(failed, batches, r[k], sent[d][l]) /\ May(failed, batches, sent[d][l], r[k])
  BY ZenonT(40), <1>3 DEF Ordered
<1> HIDE DEF s, h, r, e
<1>14. \A i, j \in DOMAIN e : i < j => May(failed, batches, e[i], e[j])
  <2> SUFFICES ASSUME NEW i \in DOMAIN e, NEW j \in DOMAIN e, i < j PROVE May(failed, batches, e[i], e[j])
    BY Zenon
  <2>1. i \in DOMAIN executed
    BY Zenon, <1>4
  <2>2. e[i] = executed[i]
    <3>1. i # Len(executed) + 1
      BY SMTT(20), <1>2, <2>1
    <3> QED
      BY Zenon, <1>4, <3>1
  <2> QED
    BY Zenon, <1>4, <1>9, <2>1, <2>2 DEF Ordered
<1>15. \A i \in DOMAIN e, d \in Conns : \A k \in DOMAIN sent'[d] : May(failed, batches, e[i], sent'[d][k])
  <2> SUFFICES ASSUME NEW i \in DOMAIN e, NEW d \in Conns, NEW k \in DOMAIN sent'[d]
               PROVE  May(failed, batches, e[i], sent'[d][k])
    BY Zenon
  <2>1. CASE d = c
    BY Zenon, <1>4, <1>5, <1>10, <1>12, <2>1
  <2>2. CASE d # c
    BY ZenonT(20), <1>4, <1>5, <1>11, <2>2 DEF Ordered
  <2> QED
    BY Zenon, <2>1, <2>2
<1>16. \A d, f \in Conns : d # f =>
         \A k \in DOMAIN sent'[d], l \in DOMAIN sent'[f] : May(failed, batches, sent'[d][k], sent'[f][l])
  <2> SUFFICES ASSUME NEW d \in Conns, NEW f \in Conns, d # f, NEW k \in DOMAIN sent'[d], NEW l \in DOMAIN sent'[f]
               PROVE  May(failed, batches, sent'[d][k], sent'[f][l])
    BY Zenon
  <2>1. CASE d = c \/ f = c
    BY Zenon, <1>5, <1>13, <2>1
  <2>2. CASE d # c /\ f # c
    BY Zenon, <1>5, <2>2 DEF Ordered
  <2> QED
    BY Zenon, <2>1, <2>2
<1>17. Ordered'
  BY ZenonT(20), <1>1, <1>14, <1>15, <1>16 DEF Ordered
<1> QED
  BY Zenon, <1>8, <1>17

(* What is left of the commands on a connection that breaks is a part of them. *)
LEMMA BrokenOrdered ==
  ASSUME PipeTypeOK, Numbered, Ordered, NEW t \in Threads, Pipe!Broken(t)
  PROVE  Numbered' /\ Ordered'
<1> DEFINE c == pconn[t]
<1>1. PICK n \in 0..Len(sent[c]) : sent' = [sent EXCEPT ![c] = SubSeq(sent[c], 1, n)]
  BY Zenon DEF Pipe!Broken
<1>2. c \in Conns /\ sent \in [Conns -> Seq(Nat)] /\ sent[c] \in Seq(Nat)
  BY Zenon DEF PipeTypeOK
<1>3. UNCHANGED <<commands, accepted, executed, batches>> /\ failed' = TRUE
  BY Zenon DEF Pipe!Broken, Pipe!Leave
<1> DEFINE q == SubSeq(sent[c], 1, n)
<1>4. \A k \in DOMAIN q : k \in DOMAIN sent[c] /\ q[k] = sent[c][k]
  BY SMTT(20), <1>2
<1>5. sent'[c] = q /\ \A d \in Conns : d # c => sent'[d] = sent[d]
  BY Zenon, <1>1, <1>2
<1> HIDE DEF q, c
<1>6. \A d \in Conns : \A k \in DOMAIN sent'[d] : k \in DOMAIN sent[d] /\ sent'[d][k] = sent[d][k]
  BY Zenon, <1>4, <1>5
<1>7. \A d \in Conns : Ascending(sent'[d])
  BY Zenon, <1>6 DEF Numbered, Ascending
<1> QED
  BY Zenon, <1>3, <1>6, <1>7, NoMoreSent, NoMoreNumbered

(* Every step keeps the numbers and the order. *)
LEMMA PipeOrderNext ==
  ASSUME PipeInv, [Pipe!Next]_(Pipe!vars)
  PROVE  Numbered' /\ Ordered'
<1>1. PipeTypeOK /\ Numbered /\ Ordered
  BY Zenon DEF PipeInv
<1>2. ASSUME UNCHANGED <<executed, batches, sent>>, failed => failed' PROVE Ordered'
  BY Zenon, <1>1, <1>2, NoMoreSent
<1>3. ASSUME UNCHANGED <<commands, accepted, executed, batches, sent>> PROVE Numbered'
  <2>1. \A c \in Conns : Ascending(sent'[c])
    BY Zenon, <1>1, <1>3 DEF Numbered
  <2> QED
    BY Zenon, <1>1, <1>3, <2>1, NoMoreNumbered
<1>4. ASSUME NEW t \in Threads, Pipe!Push(t) PROVE Numbered' /\ Ordered'
  BY Zenon, <1>1, <1>2, <1>4, PushNumbered DEF Pipe!Push, Pipe!server
<1>5. ASSUME NEW t \in Threads, Pipe!AlreadyBorrowed(t) \/ Pipe!ExecuteEmpty(t) \/ Pipe!PipelineRaw(t) \/ Pipe!Convert(t)
      PROVE  Numbered' /\ Ordered'
  BY Zenon, <1>2, <1>3, <1>5 DEF Pipe!AlreadyBorrowed, Pipe!ExecuteEmpty, Pipe!PipelineRaw, Pipe!Convert, Pipe!server
<1>6. ASSUME NEW t \in Threads, Pipe!reset(t) PROVE Numbered' /\ Ordered'
  <2>1. DOMAIN commands' = {}
    BY <1>6 DEF Pipe!reset
  <2>2. UNCHANGED <<accepted, executed, batches, sent, failed>>
    BY Zenon, <1>6 DEF Pipe!reset, Pipe!server
  <2>3. Taken' = Taken
    BY Zenon, <2>2 DEF Taken
  <2>4. Numbered'
    BY Zenon, <1>1, <2>1, <2>2, <2>3 DEF Numbered, Ascending
  <2> QED
    BY Zenon, <1>2, <2>2, <2>4
<1>7. ASSUME NEW t \in Threads, Pipe!ReadTimedOut(t) PROVE Numbered' /\ Ordered'
  BY Zenon, <1>2, <1>3, <1>7 DEF Pipe!ReadTimedOut, Pipe!Leave
<1>8. CASE UNCHANGED Pipe!vars
  BY Zenon, <1>2, <1>3, <1>8 DEF Pipe!vars
<1> QED
  BY ZenonT(20), <1>1, <1>4, <1>5, <1>6, <1>7, <1>8, ExecuteOrdered, ServeOrdered, BrokenOrdered DEF Pipe!Next, Pipe!Finish

(* A batch that has just been sent, one command of which is executed, and all of
   which has been. *)
LEMMA CarriesStart ==
  ASSUME NEW q \in Seq(Nat)
  PROVE  Carries(<<>>, <<>> \o q, q)
BY DEF Carries

LEMMA CarriesServed ==
  ASSUME NEW p \in Seq(Nat), NEW q \in Seq(Nat), NEW b \in Seq(Nat), q # <<>>, Carries(p, q, b)
  PROVE  Carries(Append(p, Head(q)), Tail(q), b)
<1> DEFINE h == Head(q)
           r == Tail(q)
<1>1. h = q[1] /\ h \in Nat /\ r \in Seq(Nat) /\ 1 \in DOMAIN q
  BY SMTT(20)
<1>2. Len(r) = Len(q) - 1 /\ Len(q) \in Nat
  BY SMTT(20)
<1>3. \A k \in DOMAIN r : k \in Nat /\ k + 1 \in DOMAIN q /\ r[k] = q[k + 1]
  BY SMTT(20)
<1> HIDE DEF h, r
<1> DEFINE a == Append(p, h)
<1>4. Len(a) = Len(p) + 1 /\ Len(p) \in Nat
  BY <1>1
<1>5. \A k \in DOMAIN a : (k \in DOMAIN p /\ a[k] = p[k]) \/ (k = Len(p) + 1 /\ a[k] = h)
  BY SMTT(20), <1>1
<1> HIDE DEF a
<1>6. /\ Len(p) + Len(q) = Len(b) /\ \A k \in DOMAIN p : p[k] = b[k]
      /\ \A k \in DOMAIN q : q[k] = b[Len(p) + k]
  BY Zenon DEF Carries
<1>7. Len(a) + Len(r) = Len(b)
  <2>1. \A m, n \in Nat : (m + 1) + (n - 1) = m + n
    OBVIOUS
  <2> QED
    BY Zenon, <1>2, <1>4, <1>6, <2>1
<1>8. \A k \in DOMAIN a : a[k] = b[k]
  BY Zenon, <1>1, <1>5, <1>6
<1>9. \A k \in DOMAIN r : Len(p) + (k + 1) = Len(a) + k
  BY <1>3, <1>4
<1>10. \A k \in DOMAIN r : r[k] = b[Len(a) + k]
  BY ZenonT(20), <1>3, <1>6, <1>9
<1>11. Carries(a, r, b)
  BY Zenon, <1>7, <1>8, <1>10 DEF Carries
<1> QED
  BY Zenon, <1>11 DEF a, h, r

LEMMA CarriesAll ==
  ASSUME NEW p \in Seq(Nat), NEW q \in Seq(Nat), NEW b \in Seq(Nat), Len(b) <= Len(p), Carries(p, q, b)
  PROVE  /\ q = <<>> /\ SubSeq(p, Len(b) + 1, Len(p)) = <<>>
         /\ \A i \in 1..Len(b) : p[i] = b[i]
<1>1. Len(p) + Len(q) = Len(b) /\ \A k \in DOMAIN p : p[k] = b[k]
  BY Zenon DEF Carries
<1>2. Len(q) = 0 /\ Len(b) = Len(p)
  <2>1. Len(p) + Len(q) = Len(b)
    BY Zenon, <1>1
  <2> QED
    BY <2>1
<1>3. q = <<>>
  BY <1>2
<1>4. SubSeq(p, Len(p) + 1, Len(p)) = <<>>
  OBVIOUS
<1>5. DOMAIN p = 1..Len(b)
  BY <1>2
<1> QED
  BY Zenon, <1>1, <1>2, <1>3, <1>4, <1>5

(* One thread at a time is in execute(). *)
LEMMA OneExecutes ==
  ASSUME PipeTypeOK, NEW t \in Threads, NEW u \in Threads, ppc[t] # "idle", ppc[u] # "idle"
  PROVE  t = u
<1>1. borrow = <<t>> /\ borrow = <<u>>
  BY Zenon DEF PipeTypeOK
<1> QED
  BY <1>1

LEMMA NoneExecutes ==
  ASSUME PipeTypeOK, borrow = <<>>, NEW t \in Threads
  PROVE  ppc[t] = "idle"
<1>1. borrow # <<t>>
  BY SMTT(20)
<1> QED
  BY Zenon, <1>1 DEF PipeTypeOK

(* As long as nothing fails, execute() begins with clean connections, ... *)
LEMMA ExecuteClean ==
  ASSUME PipeInv, NEW t \in Threads, Pipe!Execute(t)
  PROVE  Clean' /\ Answered'
<1>1. PICK c \in Conns : Pipe!SendBatch(t, c)
  BY Zenon DEF Pipe!Execute
<1>2. /\ borrow = <<>> /\ UNCHANGED <<failed, inbox>>
      /\ sent' = [sent EXCEPT ![c] = sent[c] \o commands] /\ batch' = [batch EXCEPT ![t] = commands]
      /\ pconn' = [pconn EXCEPT ![t] = c] /\ ppc' = [ppc EXCEPT ![t] = "io"] /\ alive' = [alive EXCEPT ![c] = TRUE]
  BY Zenon, <1>1 DEF Pipe!Execute, Pipe!SendBatch, Pipe!Free
<1>3. /\ commands \in Seq(Nat) /\ DOMAIN sent = Conns /\ DOMAIN batch = Threads /\ DOMAIN pconn = Threads
      /\ DOMAIN ppc = Threads /\ DOMAIN alive = Conns /\ PipeTypeOK /\ Clean
  BY Zenon DEF PipeInv, PipeTypeOK
<1>4. \A u \in Threads : ppc[u] = "idle"
  BY Zenon, <1>2, <1>3, NoneExecutes
<1>5. ~failed => \A d \in Conns : sent[d] = <<>> /\ inbox[d] = <<>>
  BY Zenon, <1>3, <1>4 DEF Clean
<1>6. /\ ppc'[t] = "io" /\ pconn'[t] = c /\ batch'[t] = commands /\ sent'[c] = sent[c] \o commands /\ alive'[c]
      /\ \A u \in Threads : u # t => ppc'[u] = "idle"
      /\ \A d \in Conns : d # c => sent'[d] = sent[d]
  BY Zenon, <1>2, <1>3, <1>4
<1>7. ASSUME ~failed PROVE Carries(inbox'[c], sent'[c], commands)
  <2>1. inbox'[c] = <<>> /\ sent'[c] = <<>> \o commands
    BY Zenon, <1>2, <1>5, <1>6, <1>7
  <2> QED
    BY Zenon, <1>3, <2>1, CarriesStart
<1>8. Clean'
  <2>1. ASSUME ~failed, NEW d \in Conns, \A u \in Threads : ppc'[u] = "io" => pconn'[u] # d
        PROVE  sent'[d] = <<>> /\ inbox'[d] = <<>>
    BY Zenon, <1>2, <1>5, <1>6, <2>1
  <2>2. ASSUME ~failed, NEW u \in Threads, ppc'[u] = "io"
        PROVE  Carries(inbox'[pconn'[u]], sent'[pconn'[u]], batch'[u])
    <3>1. u = t
      BY Zenon, <1>6, <2>2
    <3> QED
      BY Zenon, <1>6, <1>7, <2>2, <3>1
  <2>3. failed' = failed
    BY Zenon, <1>2
  <2> QED
    BY Zenon, <2>1, <2>2, <2>3 DEF Clean
<1>9. Answered'
  BY Zenon, <1>6 DEF Answered
<1> QED
  BY Zenon, <1>8, <1>9

(* ... the server's work moves the batch from the commands to the replies, ... *)
LEMMA ServeClean ==
  ASSUME PipeInv, NEW c \in Conns, Pipe!Serve(c)
  PROVE  Clean' /\ Answered'
<1>1. /\ sent[c] # <<>> /\ sent' = [sent EXCEPT ![c] = Tail(sent[c])]
      /\ inbox' = IF alive[c] THEN [inbox EXCEPT ![c] = Append(inbox[c], Head(sent[c]))] ELSE inbox
      /\ UNCHANGED <<ppc, pconn, batch, replies, alive, failed>>
  BY Zenon DEF Pipe!Serve
<1>2. /\ PipeTypeOK /\ Clean /\ Answered /\ DOMAIN sent = Conns /\ DOMAIN inbox = Conns
      /\ sent[c] \in Seq(Nat) /\ inbox[c] \in Seq(Nat) /\ \A t \in Threads : batch[t] \in Seq(Nat) /\ pconn[t] \in Conns
  BY Zenon DEF PipeInv, PipeTypeOK
<1>3. \A d \in Conns : d # c => sent'[d] = sent[d] /\ inbox'[d] = inbox[d]
  BY Zenon, <1>1, <1>2
<1>4. Answered'
  BY Zenon, <1>1, <1>2 DEF Answered
<1>5. ASSUME ~failed, NEW t \in Threads, ppc[t] = "io" PROVE Carries(inbox'[pconn[t]], sent'[pconn[t]], batch[t])
  <2>1. Carries(inbox[pconn[t]], sent[pconn[t]], batch[t])
    BY Zenon, <1>2, <1>5 DEF Clean
  <2>2. CASE pconn[t] = c
    <3>1. alive[c]
      BY Zenon, <1>2, <1>5, <2>2 DEF Answered
    <3>2. inbox'[c] = Append(inbox[c], Head(sent[c])) /\ sent'[c] = Tail(sent[c])
      BY Zenon, <1>1, <1>2, <3>1
    <3>3. Carries(Append(inbox[c], Head(sent[c])), Tail(sent[c]), batch[t])
      BY Zenon, <1>1, <1>2, <2>1, <2>2, CarriesServed
    <3> QED
      BY Zenon, <2>2, <3>2, <3>3
  <2>3. CASE pconn[t] # c
    BY Zenon, <1>2, <1>3, <2>1, <2>3
  <2> QED
    BY Zenon, <2>2, <2>3
<1>6. Clean'
  BY Zenon, <1>1, <1>2, <1>3, <1>5 DEF Clean
<1> QED
  BY Zenon, <1>4, <1>6

(* ... and pipeline_raw reads the replies to all of it and nothing else. *)
LEMMA PipelineRawClean ==
  ASSUME PipeInv, NEW t \in Threads, Pipe!PipelineRaw(t)
  PROVE  Clean' /\ Answered'
<1> DEFINE c == pconn[t]
           n == Len(batch[t])
<1>1. /\ ppc[t] = "io" /\ n <= Len(inbox[c])
      /\ inbox' = [inbox EXCEPT ![c] = SubSeq(inbox[c], n + 1, Len(inbox[c]))]
      /\ ppc' = [ppc EXCEPT ![t] = "convert"]
      /\ UNCHANGED <<batch, pconn, sent, failed>>
  BY Zenon DEF Pipe!PipelineRaw
<1>2. PICK given \in [1..n -> Replies] :
        replies' = [replies EXCEPT ![t] = [i \in 1..n |-> [answers |-> inbox[c][i], reply |-> given[i]]]]
  BY Zenon DEF Pipe!PipelineRaw
<1>3. /\ PipeTypeOK /\ Clean /\ DOMAIN inbox = Conns /\ DOMAIN ppc = Threads /\ DOMAIN replies = Threads /\ c \in Conns
      /\ sent[c] \in Seq(Nat) /\ inbox[c] \in Seq(Nat) /\ batch[t] \in Seq(Nat)
  BY Zenon DEF PipeInv, PipeTypeOK
<1>4. \A u \in Threads : u # t => ppc[u] = "idle"
  BY Zenon, <1>1, <1>3, OneExecutes
<1>5. ppc'[t] = "convert" /\ \A u \in Threads : u # t => ppc'[u] = "idle"
  BY Zenon, <1>1, <1>3, <1>4
<1>6. ASSUME ~failed
      PROVE  sent[c] = <<>> /\ inbox'[c] = <<>> /\ \A i \in 1..n : inbox[c][i] = batch[t][i]
  <2>1. Carries(inbox[c], sent[c], batch[t])
    BY Zenon, <1>1, <1>3, <1>6 DEF Clean
  <2> QED
    BY ZenonT(40), <1>1, <1>3, <2>1, CarriesAll
<1>7. replies'[t] = [i \in 1..n |-> [answers |-> inbox[c][i], reply |-> given[i]]]
  BY Zenon, <1>2, <1>3
<1>8. DOMAIN replies'[t] = 1..n /\ \A i \in 1..n : replies'[t][i].answers = inbox[c][i] /\ replies'[t][i].reply \in Replies
  BY <1>7
<1>9. Answered'
  <2>1. batch'[t] = batch[t] /\ failed' = failed
    BY Zenon, <1>1
  <2>2. ~failed => \A i \in 1..n : replies'[t][i].answers = batch[t][i]
    BY Zenon, <1>6, <1>8
  <2> QED
    BY Zenon, <1>5, <1>8, <2>1, <2>2 DEF Answered
<1>10. \A d \in Conns : d # c => inbox'[d] = inbox[d]
  BY Zenon, <1>1, <1>3
<1>11. ~failed => \A d \in Conns : sent[d] = <<>> /\ inbox'[d] = <<>>
  BY Zenon, <1>3, <1>4, <1>6, <1>10 DEF Clean
<1>12. Clean'
  BY Zenon, <1>1, <1>5, <1>11 DEF Clean
<1> QED
  BY Zenon, <1>9, <1>12

LEMMA PipeCleanNext ==
  ASSUME PipeInv, [Pipe!Next]_(Pipe!vars)
  PROVE  Clean' /\ Answered'
<1>1. PipeTypeOK /\ Clean /\ Answered
  BY Zenon DEF PipeInv
<1>2. ASSUME UNCHANGED <<ppc, pconn, batch, replies, sent, inbox, alive, failed>> PROVE Clean' /\ Answered'
  BY Zenon, <1>1, <1>2 DEF Clean, Answered
<1>3. ASSUME NEW t \in Threads, ppc[t] # "idle", ppc' = [ppc EXCEPT ![t] = "idle"]
      PROVE  \A u \in Threads : ppc'[u] = "idle" /\ (u # t => ppc[u] = "idle")
  BY Zenon, <1>1, <1>3, OneExecutes DEF PipeTypeOK
<1>4. ASSUME NEW t \in Threads, Pipe!ReadTimedOut(t) \/ Pipe!Broken(t) PROVE Clean' /\ Answered'
  <2>1. ppc[t] # "idle" /\ ppc' = [ppc EXCEPT ![t] = "idle"] /\ failed' = TRUE
    BY Zenon, <1>4 DEF Pipe!ReadTimedOut, Pipe!Broken, Pipe!Leave
  <2>2. \A u \in Threads : ppc'[u] = "idle"
    BY Zenon, <1>3, <2>1
  <2> QED
    BY Zenon, <2>1, <2>2 DEF Clean, Answered
<1>5. ASSUME NEW t \in Threads, Pipe!Convert(t) PROVE Clean' /\ Answered'
  <2>1. /\ ppc[t] = "convert" /\ ppc' = [ppc EXCEPT ![t] = "idle"]
        /\ UNCHANGED <<pconn, sent, inbox, failed>>
    BY Zenon, <1>5 DEF Pipe!Convert, Pipe!server
  <2>2. \A u \in Threads : ppc'[u] = "idle" /\ ppc[u] # "io"
    BY Zenon, <1>3, <2>1
  <2> QED
    BY Zenon, <1>1, <2>1, <2>2 DEF Clean, Answered
<1>6. ASSUME NEW t \in Threads, Pipe!Push(t) \/ Pipe!AlreadyBorrowed(t) \/ Pipe!reset(t) \/ Pipe!ExecuteEmpty(t)
      PROVE  Clean' /\ Answered'
  BY Zenon, <1>2, <1>6 DEF Pipe!Push, Pipe!AlreadyBorrowed, Pipe!reset, Pipe!ExecuteEmpty, Pipe!server
<1>7. CASE UNCHANGED Pipe!vars
  BY Zenon, <1>2, <1>7 DEF Pipe!vars
<1> QED
  BY ZenonT(20), <1>4, <1>5, <1>6, <1>7, ExecuteClean, ServeClean, PipelineRawClean DEF Pipe!Next, Pipe!Finish

LEMMA PipeNextInv == PipeInv /\ [Pipe!Next]_(Pipe!vars) => PipeInv'
<1> SUFFICES ASSUME PipeInv, [Pipe!Next]_(Pipe!vars) PROVE PipeInv'
  BY Zenon
<1>1. PipeTypeOK'
  BY Zenon, PipeTypeNext DEF PipeInv
<1> QED
  BY Zenon, <1>1, PipeOrderNext, PipeCleanNext DEF PipeInv

LEMMA PipeInvariance == Pipe!Spec => []PipeInv
<1> QED
  BY PipeInitInv, PipeNextInv, PTL DEF Pipe!Spec

(* Whatever any number of threads queue, reset and execute on any number of
   connections, and whichever exchanges time out or break, the server executes
   each command of a Pipeline object at most once, those of one execute() in the
   order of queueing, and all of them in that order until an exchange fails
   (client.rs: execute, mem::take of the commands). *)
THEOREM PipelineExecutedOnceInOrder == Pipe!Spec => []ExecutedOnceInOrder
<1>1. PipeInv => ExecutedOnceInOrder
  BY Zenon DEF PipeInv, Ordered, May, ExecutedOnceInOrder, Pipe!ExecutedOnceInOrder, Pipe!SameBatch
<1> QED
  BY <1>1, PipeInvariance, PTL

-----------------------------------------------------------------------------
(* The Redis object *)

ConnType == [authed : BOOLEAN, db : Nat, alive : BOOLEAN, late : BOOLEAN]

SessionTypeOK ==
  /\ spc \in [Threads -> {"idle", "get", "auth", "select_db", "send", "return"}]
  /\ call \in [Threads -> Methods]
  /\ conn \in [Threads -> ConnType] /\ idle \in Seq(ConnType)
  /\ ran \in [Threads -> {<<>>} \cup [value : Session!Replied, db : Nat, wrote : BOOLEAN, own : BOOLEAN]]
  /\ DOMAIN sresult = Threads /\ selected \in BOOLEAN

\* What a reply to set() says of the write.
Truthful(m, value, wrote) ==
  m \in {"set", "set_nx"} => /\ value = <<"simple", "OK">> <=> wrote
                             /\ value = <<"null">> <=> ~wrote /\ value[1] # "error"

\* The record of what the server did belongs to the present call, is true to
\* what set() did, and is what a finished call has converted.
Recorded(t) ==
  /\ spc[t] \in {"get", "auth", "select_db", "send"} => ran[t] = <<>>
  /\ ran[t] # <<>> /\ ran[t].own => Truthful(call[t].method, ran[t].value, ran[t].wrote)
  /\ spc[t] = "idle" /\ ran[t] # <<>> => sresult[t] = Session!ToPython(call[t].method, ran[t].value)

AsConfigured(c) == c.db = Db /\ c.authed = Password

\* Thread t's connection is as the handshake leaves it, or on the way there.
Configured(t) == /\ spc[t] \in {"send", "return"} => AsConfigured(conn[t])
                 /\ spc[t] = "select_db" => conn[t].authed = Password
                 /\ ran[t] # <<>> => ran[t].db = Db
                 /\ spc[t] # "idle" => call[t].method # "select"

AllConfigured == /\ \A t \in Threads : Configured(t)
                 /\ \A k \in DOMAIN idle : AsConfigured(idle[k])

SessionInv == /\ SessionTypeOK
              /\ \A t \in Threads : Recorded(t)
              /\ ~selected => AllConfigured

(* What a step of one thread has to establish: the other threads keep what
   they have. *)
LEMMA ThreadStep ==
  ASSUME SessionInv, SessionTypeOK', NEW t \in Threads, Recorded(t)',
         \A u \in Threads \ {t} : /\ spc'[u] = spc[u] /\ call'[u] = call[u] /\ conn'[u] = conn[u]
                                  /\ ran'[u] = ran[u] /\ sresult'[u] = sresult[u],
         selected => selected',
         AllConfigured /\ ~selected' => Configured(t)' /\ \A k \in DOMAIN idle' : AsConfigured(idle'[k])
  PROVE  SessionInv'
<1>1. ASSUME NEW u \in Threads, u # t
      PROVE  Recorded(u)' /\ (Configured(u)' <=> Configured(u))
  BY Zenon, <1>1 DEF SessionInv, Recorded, Configured, AsConfigured
<1>2. \A u \in Threads : Recorded(u)'
  BY Zenon, <1>1
<1>3. ~selected' => AllConfigured'
  BY Zenon, <1>1 DEF SessionInv, AllConfigured, AsConfigured
<1> QED
  BY Zenon, <1>2, <1>3 DEF SessionInv

(* Initially nothing was called. *)
LEMMA SessionInitInv == Session!Init => SessionInv
<1> SUFFICES ASSUME Session!Init PROVE SessionInv
  OBVIOUS
<1>1. /\ spc = [t \in Threads |-> "idle"] /\ ran = [t \in Threads |-> <<>>] /\ idle = <<>>
      /\ conn = [t \in Threads |-> [authed |-> FALSE, db |-> 0, alive |-> FALSE, late |-> FALSE]]
      /\ sresult = [t \in Threads |-> <<>>] /\ selected = FALSE
      /\ call \in [Threads -> {CHOOSE m \in Methods : TRUE}]
  BY Zenon DEF Session!Init, Session!NoConn
<1>2. (CHOOSE m \in Methods : TRUE) \in Methods
  BY Zenon, ClientAssumption
<1>3. SessionTypeOK
  <2>1. [authed |-> FALSE, db |-> 0, alive |-> FALSE, late |-> FALSE] \in ConnType /\ <<>> \in Seq(ConnType)
    BY DEF ConnType
  <2> QED
    BY Zenon, <1>1, <1>2, <2>1 DEF SessionTypeOK
<1> QED
  BY <1>1, <1>3 DEF SessionInv, Recorded, AllConfigured, Configured

(* A call begins with nothing recorded. *)
LEMMA CallInv == ASSUME SessionInv, NEW t \in Threads, Session!Call(t) PROVE SessionInv'
<1>1. PICK m \in Methods : call' = [call EXCEPT ![t] = m] /\ selected' = (selected \/ m.method = "select")
  BY Zenon DEF Session!Call
<1>2. /\ spc[t] = "idle" /\ spc' = [spc EXCEPT ![t] = "get"] /\ ran' = [ran EXCEPT ![t] = <<>>]
      /\ sresult' = [sresult EXCEPT ![t] = <<>>] /\ UNCHANGED <<idle, conn>>
  BY Zenon DEF Session!Call
<1>3. SessionTypeOK'
  BY Zenon, <1>1, <1>2 DEF SessionInv, SessionTypeOK
<1>4. spc'[t] = "get" /\ ran'[t] = <<>> /\ call'[t] = m
  BY Zenon, <1>1, <1>2 DEF SessionInv, SessionTypeOK
<1>5. \A u \in Threads \ {t} : /\ spc'[u] = spc[u] /\ call'[u] = call[u] /\ conn'[u] = conn[u]
                               /\ ran'[u] = ran[u] /\ sresult'[u] = sresult[u]
  BY Zenon, <1>1, <1>2 DEF SessionInv, SessionTypeOK
<1>6. Recorded(t)' /\ (~selected' => Configured(t)')
  BY Zenon, <1>1, <1>4 DEF Recorded, Configured
<1>7. AllConfigured => \A k \in DOMAIN idle' : AsConfigured(idle'[k])
  BY Zenon, <1>2 DEF AllConfigured
<1> QED
  BY ZenonT(20), <1>1, <1>3, <1>5, <1>6, <1>7, ThreadStep

(* A connection is taken from the stack, where all are as configured, or is
   new. *)
LEMMA GetInv == ASSUME SessionInv, NEW t \in Threads, Session!Get(t) PROVE SessionInv'
<1>1. /\ spc[t] = "get" /\ ran[t] = <<>>
      /\ UNCHANGED <<call, ran, sresult, selected>>
  BY Zenon DEF Session!Get, SessionInv, Recorded
<1>2. PICK k \in 0..Len(idle) :
        \/ /\ idle' = <<>>
           /\ conn' = [conn EXCEPT ![t] = [authed |-> FALSE, db |-> 0, alive |-> TRUE, late |-> FALSE]]
           /\ spc' = [spc EXCEPT ![t] = "auth"]
        \/ /\ k # 0
           /\ idle' = SubSeq(idle, 1, k - 1)
           /\ conn' = [conn EXCEPT ![t] = idle[k]]
           /\ spc' = [spc EXCEPT ![t] = "send"]
  BY Zenon DEF Session!Get, Session!NewConn
<1>3. idle \in Seq(ConnType) /\ DOMAIN idle = 1..Len(idle) /\ Len(idle) \in Nat
  BY DEF SessionInv, SessionTypeOK
<1>5. /\ idle' \in Seq(ConnType)
      /\ \A i \in DOMAIN idle' : i \in DOMAIN idle /\ idle'[i] = idle[i]
  <2>1. CASE idle' = <<>>
    BY <2>1
  <2>2. CASE k # 0 /\ idle' = SubSeq(idle, 1, k - 1)
    BY <1>3, <2>2
  <2> QED
    BY Zenon, <1>2, <2>1, <2>2
<1>6. SessionTypeOK'
  <2>1. [authed |-> FALSE, db |-> 0, alive |-> TRUE, late |-> FALSE] \in ConnType
    BY Zenon DEF ConnType
  <2>2. k # 0 => idle[k] \in ConnType
    BY <1>3
  <2> QED
    BY ZenonT(80), <1>1, <1>2, <1>5, <2>1, <2>2 DEF SessionInv, SessionTypeOK
<1>7. \A u \in Threads \ {t} : /\ spc'[u] = spc[u] /\ call'[u] = call[u] /\ conn'[u] = conn[u]
                               /\ ran'[u] = ran[u] /\ sresult'[u] = sresult[u]
  BY Zenon, <1>1, <1>2 DEF SessionInv, SessionTypeOK
<1>8. /\ spc'[t] \in {"auth", "send"} /\ ran'[t] = <<>>
      /\ spc'[t] = "send" => k \in DOMAIN idle /\ conn'[t] = idle[k]
  BY SMTT(20), <1>1, <1>2, <1>3 DEF SessionInv, SessionTypeOK
<1>9. Recorded(t)'
  BY Zenon, <1>8 DEF Recorded
<1>10. AllConfigured => Configured(t)' /\ \A i \in DOMAIN idle' : AsConfigured(idle'[i])
  BY Zenon, <1>1, <1>5, <1>8 DEF AllConfigured, Configured, AsConfigured
<1> QED
  BY ZenonT(20), <1>1, <1>6, <1>7, <1>9, <1>10, ThreadStep

(* A connection whose handshake fails is dropped. *)
LEMMA HandshakeFailsInv ==
  ASSUME SessionInv, NEW t \in Threads, NEW err, Session!HandshakeFails(t, err),
         spc[t] \in {"auth", "select_db"}, UNCHANGED <<idle, call, ran, selected>>
  PROVE  SessionInv'
<1>1. /\ spc' = [spc EXCEPT ![t] = "idle"] /\ ran[t] = <<>>
      /\ conn' = [conn EXCEPT ![t] = [authed |-> FALSE, db |-> 0, alive |-> FALSE, late |-> FALSE]]
      /\ sresult' = [sresult EXCEPT ![t] = Session!Raise(err)]
  BY Zenon DEF Session!HandshakeFails, Session!NoConn, SessionInv, Recorded
<1>2. SessionTypeOK'
  BY Zenon, <1>1 DEF SessionInv, SessionTypeOK, ConnType
<1>3. \A u \in Threads \ {t} : /\ spc'[u] = spc[u] /\ call'[u] = call[u] /\ conn'[u] = conn[u]
                               /\ ran'[u] = ran[u] /\ sresult'[u] = sresult[u]
  BY Zenon, <1>1 DEF SessionInv, SessionTypeOK
<1>4. spc'[t] = "idle" /\ ran'[t] = <<>>
  BY Zenon, <1>1 DEF SessionInv, SessionTypeOK
<1>5. Recorded(t)' /\ Configured(t)'
  BY Zenon, <1>4 DEF Recorded, Configured
<1>6. AllConfigured => \A k \in DOMAIN idle' : AsConfigured(idle'[k])
  BY Zenon DEF AllConfigured
<1> QED
  BY ZenonT(30), <1>2, <1>3, <1>5, <1>6, ThreadStep

(* AUTH authenticates the connection if a password is configured. *)
LEMMA AuthInv == ASSUME SessionInv, NEW t \in Threads, Session!Auth(t) PROVE SessionInv'
<1>1. spc[t] = "auth" /\ ran[t] = <<>> /\ UNCHANGED <<idle, call, ran, selected>>
  BY Zenon DEF Session!Auth, SessionInv, Recorded
<1>2. CASE /\ conn' = [conn EXCEPT ![t].authed = Password]
           /\ spc' = [spc EXCEPT ![t] = "select_db"]
           /\ UNCHANGED <<permits, sresult>>
  <2>1. SessionTypeOK'
    <3> DEFINE c == [conn[t] EXCEPT !.authed = Password]
    <3>1. c \in ConnType
      <4>1. Password \in BOOLEAN
        BY ClientAssumption, Zenon
      <4>2. conn[t] \in ConnType
        BY Zenon DEF SessionInv, SessionTypeOK
      <4> QED
        BY ONLY <4>1, <4>2, Zenon DEF ConnType, c
    <3>2. conn' = [conn EXCEPT ![t] = c]
      BY Zenon, <1>2
    <3>3. conn' \in [Threads -> ConnType]
      BY <3>1, <3>2, Zenon DEF SessionInv, SessionTypeOK
    <3> HIDE DEF c
    <3> QED
      BY Zenon, <1>1, <1>2, <3>3 DEF SessionInv, SessionTypeOK
  <2>2. \A u \in Threads \ {t} : /\ spc'[u] = spc[u] /\ call'[u] = call[u] /\ conn'[u] = conn[u]
                                 /\ ran'[u] = ran[u] /\ sresult'[u] = sresult[u]
    BY Zenon, <1>1, <1>2 DEF SessionInv, SessionTypeOK
  <2>3. spc'[t] = "select_db" /\ ran'[t] = <<>> /\ conn'[t].authed = Password
    BY ZenonT(20), <1>1, <1>2 DEF SessionInv, SessionTypeOK, ConnType
  <2>4. Recorded(t)'
    BY Zenon, <2>3 DEF Recorded
  <2>5. AllConfigured => Configured(t)' /\ \A k \in DOMAIN idle' : AsConfigured(idle'[k])
    BY Zenon, <1>1, <2>3 DEF AllConfigured, Configured
  <2> QED
    BY Zenon, <1>1, <2>1, <2>2, <2>4, <2>5, ThreadStep
<1>3. CASE \E err : Session!HandshakeFails(t, err)
  BY Zenon, <1>1, <1>3, HandshakeFailsInv
<1> QED
  BY Zenon, <1>2, <1>3 DEF Session!Auth

(* SELECT switches the new connection to the configured database. *)
LEMMA SelectDbInv == ASSUME SessionInv, NEW t \in Threads, Session!SelectDb(t) PROVE SessionInv'
<1>1. spc[t] = "select_db" /\ ran[t] = <<>> /\ UNCHANGED <<idle, call, ran, selected>>
  BY Zenon DEF Session!SelectDb, SessionInv, Recorded
<1>2. CASE /\ conn' = [conn EXCEPT ![t].db = Db]
           /\ spc' = [spc EXCEPT ![t] = "send"]
           /\ UNCHANGED <<permits, sresult>>
  <2>1. SessionTypeOK'
    BY ZenonT(70), <1>1, <1>2, ClientAssumption DEF SessionInv, SessionTypeOK, ConnType
  <2>2. \A u \in Threads \ {t} : /\ spc'[u] = spc[u] /\ call'[u] = call[u] /\ conn'[u] = conn[u]
                                 /\ ran'[u] = ran[u] /\ sresult'[u] = sresult[u]
    BY Zenon, <1>1, <1>2 DEF SessionInv, SessionTypeOK
  <2>3. spc'[t] = "send" /\ ran'[t] = <<>> /\ conn'[t].db = Db /\ conn'[t].authed = conn[t].authed
    BY ZenonT(20), <1>1, <1>2 DEF SessionInv, SessionTypeOK, ConnType
  <2>4. Recorded(t)'
    BY Zenon, <2>3 DEF Recorded
  <2>5. AllConfigured => Configured(t)' /\ \A k \in DOMAIN idle' : AsConfigured(idle'[k])
    BY Zenon, <1>1, <2>3 DEF AllConfigured, Configured, AsConfigured
  <2> QED
    BY ZenonT(20), <1>1, <2>1, <2>2, <2>4, <2>5, ThreadStep
<1>3. CASE \E err : Session!HandshakeFails(t, err)
  BY Zenon, <1>1, <1>3, HandshakeFailsInv
<1> QED
  BY Zenon, <1>2, <1>3 DEF Session!SelectDb

(* What the server may do with a command: only select() switches the connection,
   and the reply to set() is true. *)
LEMMA EffectOf ==
  ASSUME SessionTypeOK, NEW t \in Threads, NEW e \in Session!Effects(t)
  PROVE  /\ e.value \in Session!Replied /\ e.wrote \in BOOLEAN /\ e.db \in Nat
         /\ call[t].method # "select" => e.db = conn[t].db
         /\ Truthful(call[t].method, e.value, e.wrote)
<1> DEFINE m == call[t].method
           d == conn[t].db
           taken == m = "set_nx" /\ store[d]
           Effect(value, wrote, db, key) == [value |-> value, wrote |-> wrote, db |-> db, key |-> key]
<1>1. m \in {"get", "set", "set_nx", "select", "ping"} /\ d \in Nat
  <2>1. call[t] \in Methods /\ conn[t] \in ConnType
    BY Zenon DEF SessionTypeOK
  <2>2. call[t] \in [method : {"get", "set", "set_nx", "select", "ping"}, db : Nat]
    BY Zenon, <2>1, ClientAssumption
  <2> QED
    BY Zenon, <2>1, <2>2 DEF ConnType
<1>2. ASSUME NEW value, NEW wrote, NEW db, NEW key, e = Effect(value, wrote, db, key)
      PROVE  e.value = value /\ e.wrote = wrote /\ e.db = db
  BY Zenon, <1>2
<1> HIDE DEF m, d
<1>3. \/ \E msg \in Errors : e = Effect(<<"error", msg>>, FALSE, d, store[d])
      \/ m \in {"set", "set_nx"} /\ e = Effect(IF taken THEN <<"null">> ELSE <<"simple", "OK">>, ~taken, d, TRUE)
      \/ m = "get" /\ e = Effect(IF store[d] THEN <<"bulk", "value">> ELSE <<"null">>, FALSE, d, store[d])
      \/ m = "ping" /\ e = Effect(<<"simple", "PONG">>, FALSE, d, store[d])
      \/ m = "select" /\ \E db \in Dbs : e = Effect(<<"simple", "OK">>, FALSE, db, store[d])
  BY SMTT(40), <1>1 DEF Session!Effects, m, d
<1> HIDE DEF taken, Effect
<1>4. /\ <<"null">>[1] = "null" /\ <<"null">> # <<"simple", "OK">>
      /\ <<"simple", "OK">>[1] = "simple"
      /\ \A msg : /\ <<"error", msg>>[1] = "error" /\ <<"error", msg>> # <<"null">>
                  /\ <<"error", msg>> # <<"simple", "OK">>
  OBVIOUS
<1>5. /\ <<"null">> \in Session!Replied /\ <<"simple", "OK">> \in Session!Replied
      /\ <<"simple", "PONG">> \in Session!Replied /\ <<"bulk", "value">> \in Session!Replied
      /\ \A msg \in Errors : <<"error", msg>> \in Session!Replied
  BY Zenon DEF Session!Replied
<1> SUFFICES /\ e.value \in Session!Replied /\ e.wrote \in BOOLEAN /\ e.db \in Nat
             /\ m # "select" => e.db = d
             /\ Truthful(m, e.value, e.wrote)
  BY Zenon DEF m, d
<1>6. CASE \E msg \in Errors : e = Effect(<<"error", msg>>, FALSE, d, store[d])
  <2>1. PICK msg \in Errors : e = Effect(<<"error", msg>>, FALSE, d, store[d])
    BY Zenon, <1>6
  <2>2. e.value = <<"error", msg>> /\ e.wrote = FALSE /\ e.db = d
    BY Zenon, <1>2, <2>1
  <2> QED
    BY Zenon, <1>1, <1>4, <1>5, <2>2 DEF Truthful
<1>7. CASE m \in {"set", "set_nx"} /\ e = Effect(IF taken THEN <<"null">> ELSE <<"simple", "OK">>, ~taken, d, TRUE)
  <2>1. e.value = (IF taken THEN <<"null">> ELSE <<"simple", "OK">>) /\ e.wrote = ~taken /\ e.db = d
    BY Zenon, <1>2, <1>7
  <2> QED
    BY Zenon, <1>1, <1>4, <1>5, <2>1 DEF Truthful
<1>8. CASE m = "get" /\ e = Effect(IF store[d] THEN <<"bulk", "value">> ELSE <<"null">>, FALSE, d, store[d])
  <2>1. e.value = (IF store[d] THEN <<"bulk", "value">> ELSE <<"null">>) /\ e.wrote = FALSE /\ e.db = d
    BY Zenon, <1>2, <1>8
  <2> QED
    BY ZenonT(20), <1>1, <1>5, <1>8, <2>1 DEF Truthful
<1>9. CASE m = "ping" /\ e = Effect(<<"simple", "PONG">>, FALSE, d, store[d])
  <2>1. e.value = <<"simple", "PONG">> /\ e.wrote = FALSE /\ e.db = d
    BY Zenon, <1>2, <1>9
  <2> QED
    BY Zenon, <1>1, <1>5, <1>9, <2>1 DEF Truthful
<1>10. CASE m = "select" /\ \E db \in Dbs : e = Effect(<<"simple", "OK">>, FALSE, db, store[d])
  <2>1. PICK db \in Dbs : e = Effect(<<"simple", "OK">>, FALSE, db, store[d])
    BY Zenon, <1>10
  <2>2. e.value = <<"simple", "OK">> /\ e.wrote = FALSE /\ e.db = db /\ db \in Nat
    BY Zenon, <1>2, <2>1, ClientAssumption
  <2> QED
    BY Zenon, <1>5, <1>10, <2>2 DEF Truthful
<1> QED
  BY ZenonT(20), <1>3, <1>6, <1>7, <1>8, <1>9, <1>10

(* A command that has run, or has failed, leaves its thread with the connection as
   configured, unless it was a select(). *)
LEMMA Sent ==
  ASSUME SessionInv, NEW t \in Threads, spc[t] = "send", spc' = [spc EXCEPT ![t] = "return"],
         NEW c \in ConnType, conn' = [conn EXCEPT ![t] = c],
         c.authed = conn[t].authed, call[t].method # "select" => c.db = conn[t].db,
         NEW r \in {<<>>} \cup [value : Session!Replied, db : Nat, wrote : BOOLEAN, own : BOOLEAN],
         ran' = [ran EXCEPT ![t] = r],
         r # <<>> => r.db = conn[t].db /\ (r.own => Truthful(call[t].method, r.value, r.wrote)),
         DOMAIN sresult' = Threads, \A u \in Threads \ {t} : sresult'[u] = sresult[u],
         UNCHANGED <<idle, call, selected>>
  PROVE  SessionInv'
<1>1. SessionTypeOK'
  BY Zenon DEF SessionInv, SessionTypeOK
<1>2. \A u \in Threads \ {t} : /\ spc'[u] = spc[u] /\ call'[u] = call[u] /\ conn'[u] = conn[u]
                               /\ ran'[u] = ran[u] /\ sresult'[u] = sresult[u]
  BY Zenon DEF SessionInv, SessionTypeOK
<1>3. spc'[t] = "return" /\ ran'[t] = r /\ conn'[t] = c /\ call'[t] = call[t]
  BY Zenon DEF SessionInv, SessionTypeOK
<1>4. Recorded(t)'
  BY Zenon, <1>3 DEF Recorded
<1>5. AllConfigured => Configured(t)' /\ \A k \in DOMAIN idle' : AsConfigured(idle'[k])
  BY Zenon, <1>3 DEF AllConfigured, Configured, AsConfigured
<1> QED
  BY Zenon, <1>1, <1>2, <1>4, <1>5, ThreadStep

(* The connection after a step that changes some of its fields. *)
LEMMA ConnWith ==
  ASSUME NEW c \in ConnType, NEW d \in Nat, NEW a \in BOOLEAN, NEW l \in BOOLEAN
  PROVE  /\ [c EXCEPT !.db = d] \in ConnType
         /\ [c EXCEPT !.db = d].db = d /\ [c EXCEPT !.db = d].authed = c.authed
         /\ [c EXCEPT !.alive = a, !.late = l] \in ConnType
         /\ [c EXCEPT !.alive = a, !.late = l].db = c.db /\ [c EXCEPT !.alive = a, !.late = l].authed = c.authed
         /\ [c EXCEPT !.late = l, !.db = d] \in ConnType
         /\ [c EXCEPT !.late = l, !.db = d].db = d /\ [c EXCEPT !.late = l, !.db = d].authed = c.authed
<1>1. [c EXCEPT !.db = d] \in ConnType
  BY Zenon DEF ConnType
<1>2. [c EXCEPT !.alive = a, !.late = l] \in ConnType
  BY Zenon DEF ConnType
<1>3. [c EXCEPT !.late = l, !.db = d] \in ConnType
  BY Zenon DEF ConnType
<1>4. [c EXCEPT !.db = d].db = d /\ [c EXCEPT !.db = d].authed = c.authed
  BY Zenon DEF ConnType
<1>5. [c EXCEPT !.alive = a, !.late = l].db = c.db /\ [c EXCEPT !.alive = a, !.late = l].authed = c.authed
  BY Zenon DEF ConnType
<1>6. [c EXCEPT !.late = l, !.db = d].db = d /\ [c EXCEPT !.late = l, !.db = d].authed = c.authed
  BY Zenon DEF ConnType
<1> QED
  BY Zenon, <1>1, <1>2, <1>3, <1>4, <1>5, <1>6

(* The server does what the method says, and the record says what it did. *)
LEMMA ExecuteInv == ASSUME SessionInv, NEW t \in Threads, Session!Execute(t) PROVE SessionInv'
<1>1. /\ spc[t] = "send" /\ spc' = [spc EXCEPT ![t] = "return"]
      /\ UNCHANGED <<idle, call, sresult, selected>>
  BY Zenon DEF Session!Execute
<1>2. PICK e \in Session!Effects(t) :
        /\ \E value \in IF conn[t].late THEN Session!Replied ELSE {e.value} :
             ran' = [ran EXCEPT ![t] = [value |-> value, db |-> conn[t].db, wrote |-> e.wrote, own |-> ~conn[t].late]]
        /\ conn' = [conn EXCEPT ![t].db = e.db]
  BY Zenon DEF Session!Execute
<1>3. PICK value \in IF conn[t].late THEN Session!Replied ELSE {e.value} :
        /\ ran' = [ran EXCEPT ![t] = [value |-> value, db |-> conn[t].db, wrote |-> e.wrote, own |-> ~conn[t].late]]
        /\ conn' = [conn EXCEPT ![t].db = e.db]
  BY Zenon, <1>2
<1>4. conn[t] \in ConnType /\ DOMAIN sresult = Threads
  BY Zenon DEF SessionInv, SessionTypeOK
<1>5. /\ e.value \in Session!Replied /\ e.wrote \in BOOLEAN /\ e.db \in Nat
      /\ call[t].method # "select" => e.db = conn[t].db
      /\ Truthful(call[t].method, e.value, e.wrote)
  BY Zenon, EffectOf DEF SessionInv
<1> DEFINE c == [conn[t] EXCEPT !.db = e.db]
           r == [value |-> value, db |-> conn[t].db, wrote |-> e.wrote, own |-> ~conn[t].late]
<1>6. conn' = [conn EXCEPT ![t] = c] /\ ran' = [ran EXCEPT ![t] = r]
  BY Zenon, <1>3
<1>7. c \in ConnType /\ c.db = e.db /\ c.authed = conn[t].authed
  BY Zenon, <1>4, <1>5, ConnWith
<1>8. r \in [value : Session!Replied, db : Nat, wrote : BOOLEAN, own : BOOLEAN]
  <2>1. value \in Session!Replied /\ conn[t].db \in Nat /\ (~conn[t].late) \in BOOLEAN
    BY Zenon, <1>3, <1>4, <1>5 DEF ConnType
  <2> QED
    BY Zenon, <1>5, <2>1
<1>9. r.db = conn[t].db /\ (r.own => Truthful(call[t].method, r.value, r.wrote))
  BY Zenon, <1>3, <1>5
<1> HIDE DEF c, r
<1> QED
  BY ZenonT(20), <1>1, <1>4, <1>5, <1>6, <1>7, <1>8, <1>9, Sent

(* A broken connection keeps its database, and a late one has the database its
   command may have switched to. *)
LEMMA ExecuteFailsInv == ASSUME SessionInv, NEW t \in Threads, Session!ExecuteFails(t) PROVE SessionInv'
<1>1. /\ spc[t] = "send" /\ ran[t] = <<>> /\ spc' = [spc EXCEPT ![t] = "return"]
      /\ UNCHANGED <<idle, call, ran, selected>>
  BY Zenon DEF Session!ExecuteFails, SessionInv, Recorded
<1>2. /\ conn[t] \in ConnType /\ DOMAIN sresult = Threads /\ ran' = [ran EXCEPT ![t] = <<>>]
      /\ SessionTypeOK /\ conn[t].db \in Nat
  BY Zenon, <1>1 DEF SessionInv, SessionTypeOK, ConnType
<1>3. PICK e \in [db : {conn[t].db}, key : {store[conn[t].db]}] \cup Session!Effects(t) :
        \/ /\ conn' = [conn EXCEPT ![t] = [conn[t] EXCEPT !.alive = FALSE, !.late = FALSE]]
           /\ sresult' = [sresult EXCEPT ![t] = Session!Raise(<<"Connection">>)]
        \/ /\ conn' = [conn EXCEPT ![t] = [conn[t] EXCEPT !.late = TRUE, !.db = e.db]]
           /\ sresult' = [sresult EXCEPT ![t] = Session!Raise(<<"Timeout">>)]
  BY Zenon DEF Session!ExecuteFails
<1>4. e.db \in Nat /\ (call[t].method # "select" => e.db = conn[t].db)
  <2>1. CASE e \in [db : {conn[t].db}, key : {store[conn[t].db]}]
    BY Zenon, <1>2, <2>1
  <2>2. CASE e \in Session!Effects(t)
    BY ZenonT(20), <1>2, <2>2, EffectOf
  <2> QED
    BY Zenon, <2>1, <2>2
<1>5. DOMAIN sresult' = Threads /\ \A u \in Threads \ {t} : sresult'[u] = sresult[u]
  BY Zenon, <1>2, <1>3
<1>6. PICK c \in ConnType : /\ conn' = [conn EXCEPT ![t] = c] /\ c.authed = conn[t].authed
                            /\ call[t].method # "select" => c.db = conn[t].db
  <2>1. CASE conn' = [conn EXCEPT ![t] = [conn[t] EXCEPT !.alive = FALSE, !.late = FALSE]]
    BY Zenon, <1>2, <2>1, ConnWith
  <2>2. CASE conn' = [conn EXCEPT ![t] = [conn[t] EXCEPT !.late = TRUE, !.db = e.db]]
    <3> DEFINE c == [conn[t] EXCEPT !.late = TRUE, !.db = e.db]
    <3>1. c \in ConnType /\ c.db = e.db /\ c.authed = conn[t].authed
      BY ZenonT(40), <1>2, <1>4, ConnWith
    <3> HIDE DEF c
    <3> QED
      BY Zenon, <1>4, <2>2, <3>1 DEF c
  <2> QED
    BY Zenon, <1>3, <2>1, <2>2
<1> QED
  BY ZenonT(20), <1>1, <1>2, <1>5, <1>6, Sent

(* What goes back to the stack is as configured, unless select() switched it, and
   the call returns what it makes of the record. *)
LEMMA ReturnInv == ASSUME SessionInv, NEW t \in Threads, Session!Return(t) PROVE SessionInv'
<1> DEFINE res == IF ran[t] = <<>> THEN sresult[t] ELSE Session!ToPython(call[t].method, ran[t].value)
<1>1. /\ spc[t] = "return" /\ spc' = [spc EXCEPT ![t] = "idle"]
      /\ idle' \in {idle, Append(idle, conn[t])}
      /\ conn' = [conn EXCEPT ![t] = [authed |-> FALSE, db |-> 0, alive |-> FALSE, late |-> FALSE]]
      /\ sresult' = [sresult EXCEPT ![t] = res]
      /\ UNCHANGED <<call, ran, selected>>
  BY Zenon DEF Session!Return, Session!NoConn
<1>2. conn[t] \in ConnType /\ idle \in Seq(ConnType)
  BY Zenon DEF SessionInv, SessionTypeOK
<1>3. /\ idle' \in Seq(ConnType)
      /\ \A k \in DOMAIN idle' : idle'[k] = conn[t] \/ (k \in DOMAIN idle /\ idle'[k] = idle[k])
  <2>1. CASE idle' = idle
    BY Zenon, <1>2, <2>1
  <2>2. CASE idle' = Append(idle, conn[t])
    BY SMTT(20), <1>2, <2>2
  <2> QED
    BY Zenon, <1>1, <2>1, <2>2
<1>4. SessionTypeOK'
  BY Zenon, <1>1, <1>3 DEF SessionInv, SessionTypeOK, ConnType
<1>5. \A u \in Threads \ {t} : /\ spc'[u] = spc[u] /\ call'[u] = call[u] /\ conn'[u] = conn[u]
                               /\ ran'[u] = ran[u] /\ sresult'[u] = sresult[u]
  BY Zenon, <1>1 DEF SessionInv, SessionTypeOK
<1>6. spc'[t] = "idle" /\ sresult'[t] = res
  BY Zenon, <1>1 DEF SessionInv, SessionTypeOK
<1>7. Recorded(t)'
  BY Zenon, <1>1, <1>6 DEF SessionInv, Recorded
<1>8. AllConfigured => Configured(t)' /\ \A k \in DOMAIN idle' : AsConfigured(idle'[k])
  BY ZenonT(40), <1>1, <1>3, <1>6 DEF AllConfigured, Configured, AsConfigured
<1> QED
  BY Zenon, <1>1, <1>4, <1>5, <1>7, <1>8, ThreadStep

(* Every step of a thread, and of a constructor, preserves the invariant. *)
LEMMA SessionNextInv == SessionInv /\ [Session!Next]_(Session!vars) => SessionInv'
<1> SUFFICES ASSUME SessionInv, [Session!Next]_(Session!vars) PROVE SessionInv'
  OBVIOUS
<1>1. ASSUME UNCHANGED <<idle, spc, call, conn, ran, sresult, selected>> PROVE SessionInv'
  BY Zenon, <1>1 DEF SessionInv, SessionTypeOK, Recorded, AllConfigured, Configured, AsConfigured
<1>2. CASE UNCHANGED Session!vars
  BY Zenon, <1>1, <1>2 DEF Session!vars
<1>3. CASE Session!New \/ Session!FromUrl
  BY Zenon, <1>1, <1>3 DEF Session!New, Session!FromUrl
<1>4. ASSUME NEW t \in Threads, Session!Call(t) \/ Session!Step(t) PROVE SessionInv'
  BY ZenonT(20), <1>4, CallInv, GetInv, AuthInv, SelectDbInv, ExecuteInv, ExecuteFailsInv, ReturnInv DEF Session!Step
<1> QED
  BY Zenon, <1>2, <1>3, <1>4 DEF Session!Next

LEMMA SessionInvariance == Session!Spec => []SessionInv
<1> QED
  BY SessionInitInv, SessionNextInv, PTL DEF Session!Spec

(* For every number of threads, pool size, database and password: until
   somebody calls select(), every command runs in the configured database on a
   connection that is authenticated if there is a password, however many
   handshakes failed and connections broke before (tcp.rs: init; pool.rs). *)
THEOREM SessionConfiguredDb == Session!Spec => []ConfiguredDb
<1>1. SessionInv => ConfiguredDb
  BY Zenon DEF SessionInv, AllConfigured, Configured, AsConfigured, ConfiguredDb, Session!ConfiguredDb
<1> QED
  BY <1>1, SessionInvariance, PTL

(* Whatever the other threads do and however many reads timed out, set() and
   set(nx=True) on a connection without outstanding replies return True exactly if
   the server has set the key by that call, and None exactly if it refused to
   because the key was there (client.rs: set). *)
THEOREM SessionSetTellsTruth == Session!Spec => []SetTellsTruth
<1>1. SessionInv => SetTellsTruth
  <2> SUFFICES ASSUME SessionInv, NEW t \in Threads, spc[t] = "idle", ran[t] # <<>>, ran[t].own,
                      call[t].method \in {"set", "set_nx"}
               PROVE  /\ sresult[t] = <<"ok", <<"bool", TRUE>>>> <=> ran[t].wrote
                      /\ sresult[t] = <<"ok", <<"null">>>> <=> ~ran[t].wrote /\ ran[t].value[1] # "error"
    BY Zenon DEF SetTellsTruth, Session!SetTellsTruth, Session!Finished, Session!Ok
  <2> DEFINE v == ran[t].value
  <2>1. sresult[t] = <<"ok", IF v = <<"null">> THEN v ELSE <<"bool", v = <<"simple", "OK">>>>>>
    BY Zenon DEF SessionInv, Recorded, Session!ToPython, Session!Ok
  <2>2. /\ v = <<"simple", "OK">> <=> ran[t].wrote
        /\ v = <<"null">> <=> ~ran[t].wrote /\ v[1] # "error"
    <3>1. Truthful(call[t].method, v, ran[t].wrote)
      BY Zenon DEF SessionInv, Recorded
    <3> HIDE DEF v
    <3> QED
      BY Zenon, <3>1 DEF Truthful
  <2> HIDE DEF v
  <2>3. v = <<"null">> => v # <<"simple", "OK">>
    OBVIOUS
  <2>4. CASE v = <<"null">>
    <3>1. sresult[t] = <<"ok", <<"null">>>>
      BY Zenon, <2>1, <2>4
    <3>2. sresult[t] # <<"ok", <<"bool", TRUE>>>>
      BY <3>1
    <3> QED
      BY ZenonT(20), <2>2, <2>3, <2>4, <3>1, <3>2 DEF v
  <2>5. CASE v # <<"null">>
    <3>1. sresult[t] = <<"ok", <<"bool", v = <<"simple", "OK">>>>>>
      BY Zenon, <2>1, <2>5
    <3>2. \A b : <<"ok", <<"bool", b>>>> # <<"ok", <<"null">>>>
      OBVIOUS
    <3>3. \A b \in BOOLEAN : <<"ok", <<"bool", b>>>> = <<"ok", <<"bool", TRUE>>>> <=> b
      BY Zenon
    <3>4. sresult[t] # <<"ok", <<"null">>>> /\ (sresult[t] = <<"ok", <<"bool", TRUE>>>> <=> v = <<"simple", "OK">>)
      BY Zenon, <3>1, <3>2, <3>3
    <3> QED
      BY Zenon, <2>2, <2>5, <3>4 DEF v
  <2> QED
    BY Zenon, <2>4, <2>5
<1> QED
  BY <1>1, SessionInvariance, PTL

-----------------------------------------------------------------------------
(* The methods of Redis and of Pipeline *)

(* Which section of Redis sends the command of a call. *)
LEMMA SentBy ==
  ASSUME NEW c
  PROVE  /\ c.method = "set" => Command!RedisCommand(c) = Command!set(c)
         /\ c.method \in Command!Basic => Command!RedisCommand(c) = Command!BasicCommand(c)
         /\ c.method \in Command!Hash => Command!RedisCommand(c) = Command!HashCommand(c)
         /\ c.method \in Command!List => Command!RedisCommand(c) = Command!ListCommand(c)
         /\ c.method \in Command!Sets => Command!RedisCommand(c) = Command!SetCommand(c)
         /\ c.method \in Command!Sorted => Command!RedisCommand(c) = Command!SortedSetCommand(c)
         /\ c.method \in Command!Ranges => Command!RedisCommand(c) = Command!SortedRange(c)
         /\ c.method \in Command!Key => Command!RedisCommand(c) = Command!KeyCommand(c)
         /\ c.method \in Command!Str => Command!RedisCommand(c) = Command!StringCommand(c)
         /\ c.method \in Command!Graph => Command!RedisCommand(c) = Command!GraphCommand(c)
         /\ c.method \in Command!Server => Command!RedisCommand(c) = Command!ServerCommand(c)
<1> USE DEF Command!RedisCommand, Command!Basic, Command!Hash, Command!List, Command!Sets, Command!Sorted,
            Command!Ranges, Command!Key, Command!Str, Command!Script, Command!Graph, Command!Server
<1>1. c.method = "set" => Command!RedisCommand(c) = Command!set(c)
  BY SMTT(20)
<1>2. c.method \in Command!Basic => Command!RedisCommand(c) = Command!BasicCommand(c)
  BY SMTT(20)
<1>3. c.method \in Command!Hash => Command!RedisCommand(c) = Command!HashCommand(c)
  BY SMTT(20)
<1>4. c.method \in Command!List => Command!RedisCommand(c) = Command!ListCommand(c)
  BY SMTT(20)
<1>5. c.method \in Command!Sets => Command!RedisCommand(c) = Command!SetCommand(c)
  BY SMTT(20)
<1>6. c.method \in Command!Sorted => Command!RedisCommand(c) = Command!SortedSetCommand(c)
  BY SMTT(20)
<1>7. c.method \in Command!Ranges => Command!RedisCommand(c) = Command!SortedRange(c)
  BY SMTT(20)
<1>8. c.method \in Command!Key => Command!RedisCommand(c) = Command!KeyCommand(c)
  BY SMTT(20)
<1>9. c.method \in Command!Str => Command!RedisCommand(c) = Command!StringCommand(c)
  BY SMTT(20)
<1>10. c.method \in Command!Graph => Command!RedisCommand(c) = Command!GraphCommand(c)
  BY SMTT(20)
<1>11. c.method \in Command!Server => Command!RedisCommand(c) = Command!ServerCommand(c)
  BY SMTT(20)
<1> QED
  BY ZenonT(20), <1>1, <1>2, <1>3, <1>4, <1>5, <1>6, <1>7, <1>8, <1>9, <1>10, <1>11

(* Which section of Pipeline queues the command of a call. *)
LEMMA QueuedBy ==
  ASSUME NEW c
  PROVE  /\ c.method \in Command!PBasic => Command!PipelineCommand(c) = Command!PipelineBasic(c)
         /\ c.method \in Command!PColls => Command!PipelineCommand(c) = Command!PipelineCollections(c)
         /\ c.method \in Command!PSorted => Command!PipelineCommand(c) = Command!PipelineSorted(c)
         /\ c.method \in Command!PMore => Command!PipelineCommand(c) = Command!PipelineMore(c)
         /\ c.method \in Command!PServer => Command!PipelineCommand(c) = Command!PipelineServer(c)
BY SMTT(30) DEF Command!PipelineCommand, Command!PBasic, Command!PColls, Command!PSorted, Command!PMore, Command!PServer

(* The first methods of Pipeline: what is queued is what Redis sends. *)
LEMMA MirrorsBasic ==
  ASSUME NEW c, c.method \in Command!PBasic
  PROVE  Command!PipelineCommand(c) = Command!RedisCommand(c)
<1>1. \/ c.method \in {"set"}
      \/ c.method \in {"get", "delete", "exists", "expire", "ttl", "incr", "decr"}
      \/ c.method \in {"ping"}
  BY Zenon DEF Command!PBasic
<1>2. CASE c.method \in {"set"}
  BY ZenonT(30), <1>2, SentBy, QueuedBy DEF Command!PipelineBasic, Command!set
<1>3. CASE c.method \in {"get", "delete", "exists", "expire", "ttl", "incr", "decr"}
  BY ZenonT(30), <1>3, SentBy, QueuedBy DEF Command!PipelineBasic, Command!Basic, Command!BasicCommand
<1>4. CASE c.method \in {"ping"}
  BY ZenonT(30), <1>4, SentBy, QueuedBy DEF Command!PipelineBasic, Command!Server, Command!ServerCommand
<1> QED
  BY Zenon, <1>1, <1>2, <1>3, <1>4

(* Hashes, lists and sets: what is queued is what Redis sends. *)
LEMMA MirrorsColls ==
  ASSUME NEW c, c.method \in Command!PColls
  PROVE  Command!PipelineCommand(c) = Command!RedisCommand(c)
<1>1. \/ c.method \in {"hset", "hget", "hgetall"}
      \/ c.method \in {"lpush", "rpush", "lrange"}
      \/ c.method \in {"sadd", "smembers", "scard", "srem", "sismember"}
  BY Zenon DEF Command!PColls
<1>2. CASE c.method \in {"hset", "hget", "hgetall"}
  BY ZenonT(30), <1>2, SentBy, QueuedBy DEF Command!PipelineCollections, Command!Hash, Command!HashCommand
<1>3. CASE c.method \in {"lpush", "rpush", "lrange"}
  BY ZenonT(30), <1>3, SentBy, QueuedBy DEF Command!PipelineCollections, Command!List, Command!ListCommand
<1>4. CASE c.method \in {"sadd", "smembers", "scard", "srem", "sismember"}
  BY ZenonT(30), <1>4, SentBy, QueuedBy DEF Command!PipelineCollections, Command!Sets, Command!SetCommand
<1> QED
  BY Zenon, <1>1, <1>2, <1>3, <1>4

(* Sorted sets: what is queued is what Redis sends. *)
LEMMA MirrorsSorted ==
  ASSUME NEW c, c.method \in Command!PSorted
  PROVE  Command!PipelineCommand(c) = Command!RedisCommand(c)
<1>1. \/ c.method \in {"zscore", "zrank", "zcard", "zrem", "zincrby"}
      \/ c.method \in {"zrange"}
  BY Zenon DEF Command!PSorted
<1>2. CASE c.method \in {"zscore", "zrank", "zcard", "zrem", "zincrby"}
  BY ZenonT(30), <1>2, SentBy, QueuedBy DEF Command!PipelineSorted, Command!Sorted, Command!SortedSetCommand
<1>3. CASE c.method \in {"zrange"}
  BY ZenonT(30), <1>3, SentBy, QueuedBy DEF Command!PipelineSorted, Command!Ranges, Command!SortedRange
<1> QED
  BY Zenon, <1>1, <1>2, <1>3

(* The methods added later: what is queued is what Redis sends. *)
LEMMA MirrorsMore ==
  ASSUME NEW c, c.method \in Command!PMore
  PROVE  Command!PipelineCommand(c) = Command!RedisCommand(c)
<1>1. \/ c.method \in {"incrby"}
      \/ c.method \in {"hexists", "hlen", "hkeys", "hvals", "hdel", "hmget", "hincrby"}
      \/ c.method \in {"lpop", "rpop", "llen", "lindex"}
      \/ c.method \in {"rename", "persist"}
      \/ c.method \in {"append", "strlen", "setnx", "decrby"}
      \/ c.method \in {"key_type", "unlink"}
  BY Zenon DEF Command!PMore
<1>2. CASE c.method \in {"incrby"}
  BY ZenonT(30), <1>2, SentBy, QueuedBy DEF Command!PipelineMore, Command!Basic, Command!BasicCommand
<1>3. CASE c.method \in {"hexists", "hlen", "hkeys", "hvals", "hdel", "hmget", "hincrby"}
  BY ZenonT(30), <1>3, SentBy, QueuedBy DEF Command!PipelineMore, Command!Hash, Command!HashCommand
<1>4. CASE c.method \in {"lpop", "rpop", "llen", "lindex"}
  BY ZenonT(30), <1>4, SentBy, QueuedBy DEF Command!PipelineMore, Command!List, Command!ListCommand
<1>5. CASE c.method \in {"rename", "persist"}
  BY ZenonT(30), <1>5, SentBy, QueuedBy DEF Command!PipelineMore, Command!Key, Command!KeyCommand
<1>6. CASE c.method \in {"append", "strlen", "setnx", "decrby"}
  BY ZenonT(30), <1>6, SentBy, QueuedBy DEF Command!PipelineMore, Command!Str, Command!StringCommand
<1>7. CASE c.method \in {"key_type", "unlink"}
  BY ZenonT(30), <1>7, SentBy, QueuedBy DEF Command!PipelineMore, Command!Server, Command!ServerCommand
<1> QED
  BY ZenonT(30), <1>1, <1>2, <1>3, <1>4, <1>5, <1>6, <1>7

(* Graphs and the server: what is queued is what Redis sends. *)
LEMMA MirrorsServer ==
  ASSUME NEW c, c.method \in Command!PServer
  PROVE  Command!PipelineCommand(c) = Command!RedisCommand(c)
<1>1. \/ c.method \in {"graph_query", "graph_ro_query", "graph_delete", "graph_list"}
      \/ c.method \in {"flushdb", "flushall", "dbsize", "echo", "publish", "time"}
  BY Zenon DEF Command!PServer
<1>2. CASE c.method \in {"graph_query", "graph_ro_query", "graph_delete", "graph_list"}
  BY ZenonT(30), <1>2, SentBy, QueuedBy DEF Command!PipelineServer, Command!Graph, Command!GraphCommand
<1>3. CASE c.method \in {"flushdb", "flushall", "dbsize", "echo", "publish", "time"}
  BY ZenonT(30), <1>3, SentBy, QueuedBy DEF Command!PipelineServer, Command!Server, Command!ServerCommand
<1> QED
  BY Zenon, <1>1, <1>2, <1>3

(* "Convenience commands (mirror Redis methods)": whatever its arguments, a
   method of Pipeline queues the command that the method of Redis with that name
   and those arguments sends (client.rs). *)
THEOREM CommandsMirrored == Command!Spec => []MirrorsRedis
<1>1. MirrorsRedis
  <2> SUFFICES ASSUME method.method \in Command!PipelineMethods
               PROVE  Command!PipelineCommand(method) = Command!RedisCommand(method)
    BY Zenon DEF MirrorsRedis, Command!MirrorsRedis
  <2> QED
    BY ZenonT(20), MirrorsBasic, MirrorsColls, MirrorsSorted, MirrorsMore, MirrorsServer DEF Command!PipelineMethods
<1> QED
  BY <1>1, PTL

-----------------------------------------------------------------------------
(* What Pipeline.execute() returns *)
WF == INSTANCE WellFoundedInduction

(* A set of numbers has a least one. *)
LEMMA Least ==
  ASSUME NEW S \in SUBSET Nat, S # {}
  PROVE  \E x \in S : \A y \in S : x <= y
<1>1. PICK x \in S : \A y \in S : ~(<<y, x>> \in WF!OpToRel(<, Nat))
  BY Zenon, WF!NatLessThanWellFounded, WF!WFMin
<1>2. \A y \in S : ~(y < x)
  BY Zenon, <1>1 DEF WF!OpToRel
<1> QED
  BY SMTT(20), <1>2

\* One step of collect(): g[n - 1] is what the items before item n collect to.
Collect(items, g, n) ==
  IF n = 0 THEN <<"list", <<>>>>
  ELSE IF g[n - 1][1] = "raise" THEN g[n - 1]
  ELSE IF items[n][1] = "raise" THEN items[n]
  ELSE <<"list", Append(g[n - 1][2], items[n])>>

\* g[n] is what the first n items collect to, for n up to m.
Collects(items, g, m) == g = [n \in 0..m |-> Collect(items, g, n)]

(* The recursion of Collected defines a function. *)
LEMMA CollectsExists ==
  ASSUME NEW items, NEW m \in Nat
  PROVE  \E g : Collects(items, g, m)
<1> DEFINE Bad == {k \in Nat : ~\E g : Collects(items, g, k)}
<1> SUFFICES ASSUME Bad # {} PROVE FALSE
  BY Zenon
<1>1. PICK x \in Bad : \A y \in Bad : x <= y
  <2>1. Bad \in SUBSET Nat
    BY Zenon
  <2> HIDE DEF Bad
  <2> QED
    BY Zenon, <2>1, Least
<1>2. x # 0
  <2> DEFINE g == [n \in 0..0 |-> <<"list", <<>>>>]
  <2>1. \A n \in 0..0 : n = 0
    OBVIOUS
  <2>2. g = [n \in 0..0 |-> Collect(items, g, n)]
    BY Zenon, <2>1 DEF Collect
  <2> HIDE DEF g
  <2> QED
    BY Zenon, <1>1, <2>2 DEF Collects
<1>3. x \in Nat /\ x - 1 \in Nat /\ ~(x <= x - 1)
  BY SMTT(20), <1>1, <1>2
<1>4. PICK g : Collects(items, g, x - 1)
  BY Zenon, <1>1, <1>3
<1> DEFINE h == [n \in 0..x |-> IF n = x THEN Collect(items, g, x) ELSE g[n]]
<1>5. ASSUME NEW n \in 0..x PROVE h[n] = Collect(items, h, n)
  <2>1. n # 0 => n - 1 \in 0..x /\ n - 1 # x
    BY <1>3
  <2>2. n # 0 => h[n - 1] = g[n - 1]
    BY Zenon, <2>1
  <2>3. Collect(items, h, n) = Collect(items, g, n)
    <3> HIDE DEF h
    <3> QED
      BY Zenon, <2>2 DEF Collect
  <2>4. CASE n = x
    BY Zenon, <2>3, <2>4
  <2>5. CASE n # x
    <3>1. n \in 0..(x - 1)
      BY SMTT(20), <1>3, <2>5
    <3>2. g[n] = Collect(items, g, n)
      BY Zenon, <1>4, <3>1 DEF Collects
    <3> QED
      BY ZenonT(20), <2>3, <2>5, <3>2
  <2> QED
    BY ZenonT(20), <2>4, <2>5
<1>6. h = [n \in 0..x |-> h[n]]
  BY Zenon
<1> HIDE DEF h
<1>7. Collects(items, h, x)
  BY Zenon, <1>5, <1>6 DEF Collects
<1> QED
  BY ZenonT(20), <1>1, <1>7

LEMMA CollectedIs ==
  ASSUME NEW items, Len(items) \in Nat
  PROVE  \E g : Collects(items, g, Len(items)) /\ Pipe!Collected(items) = g[Len(items)]
<1> DEFINE h == CHOOSE g : Collects(items, g, Len(items))
<1>1. Collects(items, h, Len(items))
  BY Zenon, CollectsExists
<1>2. Pipe!Collected(items) = h[Len(items)]
  BY DEF Pipe!Collected, Collects, Collect
<1> QED
  BY Zenon, <1>1, <1>2

(* collect() returns the first error, or all the items. *)
LEMMA CollectedFirst ==
  ASSUME NEW S, NEW items \in Seq(S)
  PROVE  IF \A i \in DOMAIN items : items[i][1] # "raise"
         THEN Pipe!Collected(items)[1] = "list" /\ Len(Pipe!Collected(items)[2]) = Len(items)
         ELSE \E i \in DOMAIN items :
                /\ items[i][1] = "raise" /\ \A j \in DOMAIN items : items[j][1] = "raise" => i <= j
                /\ Pipe!Collected(items) = items[i]
<1> DEFINE Fine(n) == \A i \in 1..n : items[i][1] # "raise"
           Leads(i, n) == items[i][1] = "raise" /\ \A j \in 1..n : items[j][1] = "raise" => i <= j
<1>1. Len(items) \in Nat /\ DOMAIN items = 1..Len(items) /\ \A i \in 1..Len(items) : items[i] \in S
  OBVIOUS
<1>2. PICK g : Collects(items, g, Len(items)) /\ Pipe!Collected(items) = g[Len(items)]
  BY Zenon, <1>1, CollectedIs
<1>3. \A n \in 0..Len(items) : g[n] = Collect(items, g, n)
  BY Zenon, <1>2 DEF Collects
<1> DEFINE Good(n) == /\ Fine(n) => g[n][1] = "list" /\ g[n][2] \in Seq(S) /\ Len(g[n][2]) = n
                      /\ ~Fine(n) => \E i \in 1..n : Leads(i, n) /\ g[n] = items[i]
           Bad == {n \in 0..Len(items) : ~Good(n)}
<1>4. ASSUME NEW n \in 1..Len(items), Good(n - 1) PROVE Good(n)
  <2>1. /\ n \in 0..Len(items) /\ n # 0 /\ n \in 1..n /\ n - 1 \in Nat
        /\ 1..n = (1..(n - 1)) \cup {n} /\ \A i \in 1..(n - 1) : i <= n
    BY <1>1
  <2>2. g[n] = Collect(items, g, n)
    BY Zenon, <1>3, <2>1
  <2>3. items[n] \in S
    BY Zenon, <1>1
  <2>4. CASE ~Fine(n - 1)
    <3>1. PICK i \in 1..(n - 1) : Leads(i, n - 1) /\ g[n - 1] = items[i]
      BY Zenon, <1>4, <2>4
    <3>2. g[n] = items[i]
      BY ZenonT(20), <2>1, <2>2, <3>1 DEF Collect
    <3>3. Leads(i, n) /\ i \in 1..n
      BY Zenon, <2>1, <3>1
    <3> QED
      BY Zenon, <3>2, <3>3
  <2>5. CASE Fine(n - 1) /\ items[n][1] = "raise"
    <3>1. g[n - 1][1] = "list"
      BY Zenon, <1>4, <2>5
    <3>2. g[n] = items[n]
      BY ZenonT(20), <2>1, <2>2, <2>5, <3>1 DEF Collect
    <3>3. n <= n
      BY <2>1
    <3>4. Leads(n, n)
      BY ZenonT(20), <2>1, <2>5, <3>3
    <3> QED
      BY ZenonT(20), <2>1, <3>2, <3>4
  <2>6. CASE Fine(n - 1) /\ items[n][1] # "raise"
    <3>1. g[n - 1][1] = "list" /\ g[n - 1][2] \in Seq(S) /\ Len(g[n - 1][2]) = n - 1
      BY ZenonT(20), <1>4, <2>6
    <3>2. g[n] = <<"list", Append(g[n - 1][2], items[n])>>
      BY ZenonT(30), <2>1, <2>2, <2>6, <3>1 DEF Collect
    <3>3. Append(g[n - 1][2], items[n]) \in Seq(S) /\ Len(Append(g[n - 1][2], items[n])) = n
      BY SMTT(20), <2>1, <2>3, <3>1
    <3>4. g[n][1] = "list" /\ g[n][2] = Append(g[n - 1][2], items[n])
      BY SMTT(20), <3>2
    <3>5. Fine(n)
      BY ZenonT(20), <2>1, <2>6
    <3> QED
      BY ZenonT(20), <3>3, <3>4, <3>5
  <2> QED
    BY ZenonT(20), <2>4, <2>5, <2>6
<1>5. Good(0)
  <2>1. 0 \in 0..Len(items) /\ 1..0 = {}
    BY <1>1
  <2>2. g[0] = <<"list", <<>>>>
    BY ZenonT(20), <1>3, <2>1 DEF Collect
  <2>3. g[0][1] = "list" /\ g[0][2] \in Seq(S) /\ Len(g[0][2]) = 0
    BY SMTT(20), <2>2
  <2> QED
    BY Zenon, <2>1, <2>3
<1>6. Bad = {}
  <2> SUFFICES ASSUME Bad # {} PROVE FALSE
    BY Zenon
  <2>1. Bad \in SUBSET Nat
    BY SMTT(20), <1>1
  <2> HIDE DEF Good
  <2>2. PICK x \in Bad : \A y \in Bad : x <= y
    <3> HIDE DEF Bad
    <3> QED
      BY ZenonT(20), <2>1, Least
  <2>3. x \in 0..Len(items) /\ ~Good(x)
    BY Zenon, <2>2
  <2>4. x # 0
    BY ZenonT(30), <1>5, <2>3
  <2>5. x \in 1..Len(items) /\ x - 1 \in 0..Len(items) /\ ~(x <= x - 1)
    BY SMTT(20), <1>1, <2>3, <2>4
  <2>6. Good(x - 1)
    BY ZenonT(20), <2>2, <2>5
  <2> QED
    BY ZenonT(20), <1>4, <2>3, <2>5, <2>6
<1>7. Good(Len(items))
  <2> HIDE DEF Good
  <2>1. Len(items) \in 0..Len(items)
    BY SMTT(20), <1>1
  <2> QED
    BY ZenonT(20), <1>6, <2>1
<1> QED
  BY ZenonT(20), <1>1, <1>2, <1>7

(* Pipeline.execute() raises the exception of the first error reply, and otherwise
   returns a result per command, whatever the server replies to batches of any
   length and whatever other threads do; the replies are those to its own commands,
   in their order, until an exchange fails. *)
THEOREM PipelineFirstErrorRaised == Pipe!Spec => FirstErrorRaised
<1>1. ASSUME PipeInv, NEW t \in Threads, Pipe!Convert(t)
      PROVE  LET errors == {i \in DOMAIN replies[t] : replies[t][i].reply[1] = "error"}
             IN /\ IF errors = {} THEN presult'[t][1] = "list" /\ Len(presult'[t][2]) = Len(batch[t])
                   ELSE \E i \in errors : /\ \A j \in errors : i <= j
                                          /\ presult'[t] = Pipe!ToPython(replies[t][i].reply)
                /\ ~failed => [i \in DOMAIN replies[t] |-> replies[t][i].answers] = batch[t]
  <2> DEFINE R == replies[t]
             n == Len(batch[t])
             items == [i \in DOMAIN R |-> Pipe!ToPython(R[i].reply)]
             all == Pipe!Collected(items)
  <2>1. /\ ppc[t] = "convert" /\ batch[t] \in Seq(Nat) /\ DOMAIN presult = Threads
        /\ presult' = [presult EXCEPT ![t] = all]
    BY Zenon, <1>1 DEF Pipe!Convert, PipeInv, PipeTypeOK
  <2>2. /\ DOMAIN R = 1..n /\ \A i \in DOMAIN R : R[i].reply \in Replies
        /\ ~failed => \A i \in DOMAIN R : R[i].answers = batch[t][i]
    BY ZenonT(30), <1>1, <2>1 DEF PipeInv, Answered
  <2> HIDE DEF R
  <2>3. n \in Nat /\ batch[t] = [i \in 1..n |-> batch[t][i]]
    BY SMTT(20), <2>1
  <2>4. ~failed => [i \in DOMAIN R |-> R[i].answers] = batch[t]
    <3> HIDE DEF n
    <3> SUFFICES ASSUME ~failed PROVE [i \in DOMAIN R |-> R[i].answers] = batch[t]
      BY Zenon
    <3>1. [i \in DOMAIN R |-> R[i].answers] = [i \in 1..n |-> batch[t][i]]
      BY Zenon, <2>2
    <3> QED
      BY ZenonT(20), <2>3, <3>1
  <2>5. DOMAIN items = DOMAIN R /\ presult'[t] = all
    BY Zenon, <2>1
  <2>6. \A i \in DOMAIN R : /\ items[i] = Pipe!ToPython(R[i].reply)
                            /\ items[i][1] = "raise" <=> R[i].reply[1] = "error"
    <3> SUFFICES ASSUME NEW i \in DOMAIN R
                 PROVE  items[i] = Pipe!ToPython(R[i].reply) /\ (items[i][1] = "raise" <=> R[i].reply[1] = "error")
      BY Zenon
    <3> DEFINE r == R[i].reply
    <3>1. r[1] # "raise"
      BY ZenonT(20), <2>2, ClientAssumption
    <3>2. items[i] = Pipe!ToPython(r)
      BY Zenon
    <3> HIDE DEF items, r
    <3>3. items[i][1] = "raise" <=> r[1] = "error"
      <4>1. CASE r[1] = "error"
        BY SMTT(20), <3>2, <4>1 DEF Pipe!ToPython
      <4>2. CASE r[1] = "simple"
        BY SMTT(20), <3>2, <4>2 DEF Pipe!ToPython
      <4>3. CASE r[1] \notin {"error", "simple"}
        BY ZenonT(20), <3>1, <3>2, <4>3 DEF Pipe!ToPython
      <4> QED
        BY ZenonT(30), <4>1, <4>2, <4>3
    <3> QED
      BY ZenonT(20), <3>2, <3>3 DEF r
  <2>7. items \in Seq({items[i] : i \in DOMAIN items}) /\ Len(items) = n
    <3>1. DOMAIN items = 1..n
      BY ZenonT(20), <2>2, <2>5
    <3>2. items = [i \in 1..n |-> items[i]]
      BY ZenonT(20), <3>1
    <3> HIDE DEF items, n
    <3>3. [i \in 1..n |-> items[i]] \in Seq({items[i] : i \in DOMAIN items}) /\ Len([i \in 1..n |-> items[i]]) = n
      BY SMTT(20), <2>3, <3>1
    <3> QED
      BY ZenonT(20), <3>2, <3>3
  <2> HIDE DEF items, n
  <2>8. IF \A i \in DOMAIN items : items[i][1] # "raise"
        THEN all[1] = "list" /\ Len(all[2]) = Len(items)
        ELSE \E i \in DOMAIN items :
               /\ items[i][1] = "raise" /\ \A j \in DOMAIN items : items[j][1] = "raise" => i <= j
               /\ all = items[i]
    BY ZenonT(20), <2>7, CollectedFirst
  <2> HIDE DEF all
  <2> DEFINE errors == {i \in DOMAIN R : R[i].reply[1] = "error"}
  <2>9. CASE \A i \in DOMAIN items : items[i][1] # "raise"
    <3>1. errors = {}
      BY ZenonT(20), <2>5, <2>6, <2>9
    <3>2. presult'[t][1] = "list" /\ Len(presult'[t][2]) = n
      BY ZenonT(30), <2>5, <2>7, <2>8, <2>9
    <3> QED
      BY ZenonT(20), <2>4, <3>1, <3>2 DEF R, n
  <2>10. CASE ~\A i \in DOMAIN items : items[i][1] # "raise"
    <3>1. PICK i \in DOMAIN items :
            items[i][1] = "raise" /\ (\A j \in DOMAIN items : items[j][1] = "raise" => i <= j) /\ all = items[i]
      BY ZenonT(20), <2>8, <2>10
    <3>2. i \in errors /\ (\A j \in errors : i <= j) /\ presult'[t] = Pipe!ToPython(R[i].reply)
      BY ZenonT(20), <2>5, <2>6, <3>1
    <3>3. errors # {} /\ \E k \in errors : (\A j \in errors : k <= j) /\ presult'[t] = Pipe!ToPython(R[k].reply)
      BY Zenon, <3>2
    <3> QED
      BY ZenonT(20), <2>4, <3>3 DEF R
  <2> QED
    BY ZenonT(20), <2>9, <2>10
<1>2. PipeInv /\ [Pipe!Next]_(Pipe!vars) => [Pipe!RaisesFirstError]_pipelineVars
  BY Zenon, <1>1 DEF Pipe!RaisesFirstError
<1> QED
  BY <1>2, PipeInvariance, PTL DEF Pipe!Spec, FirstErrorRaised

=============================================================================
