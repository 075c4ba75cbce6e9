----------------------------- MODULE ReadBuffer -----------------------------
(***************************************************************************)
(* The read buffer of a connection: the loops of read_response and         *)
(* read_raw_response (connection/tcp.rs), with the capacity of the         *)
(* BytesMut and the limit max_buf_size.                                    *)
(*                                                                         *)
(* Bytes are counted, not represented: the buffer holds len bytes, the     *)
(* first frame of which is frame bytes long.  The bytes behind it belong   *)
(* to frames whose lengths are chosen when they become the first.          *)
(***************************************************************************)
EXTENDS Integers

CONSTANTS
  DEFAULT_BUF_CAPACITY,
  MaxBufSize,  \* max_buf_size
  MinRoom,     \* room below which the buffer is grown (4096)
  Surplus,     \* bound on what BytesMut allocates beyond what it is asked for
  FrameSizes   \* lengths of frames

ASSUME BufferAssumption ==
  /\ DEFAULT_BUF_CAPACITY \in Nat \ {0}
  /\ MaxBufSize \in Nat
  /\ MinRoom \in Nat \ {0}
  /\ Surplus \in Nat
  /\ FrameSizes \subseteq Nat \ {0}

VARIABLES
  cap, len,    \* buf.capacity(), buf.len()
  frame,       \* length of the first frame that has not been returned
  asked,       \* the capacity the last growth asked for
  pc           \* "idle", "parse", "grow", "read", or "error" (too large)

vars == <<cap, len, frame, asked, pc>>

Larger(a, b) == IF a >= b THEN a ELSE b

\* BytesMut::reserve and extend_from_slice on a buffer of n bytes: room for
\* more bytes, and possibly a surplus.
Reserved(c, n, more) == IF c - n >= more THEN {c} ELSE (n + more)..(n + more + Surplus)

-----------------------------------------------------------------------------
Init == /\ cap \in DEFAULT_BUF_CAPACITY..(DEFAULT_BUF_CAPACITY + Surplus)
        /\ len = 0
        /\ frame \in FrameSizes
        /\ asked = 0
        /\ pc = "idle"

\* A call of either function; one may follow an error, on the same buffer.
Call == /\ pc \in {"idle", "error"}
        /\ pc' = "parse"
        /\ UNCHANGED <<cap, len, frame, asked>>

\* read_response returns a value: split() takes all of the buffer, and the
\* bytes behind the frame are put back.
ReadResponse ==
  /\ pc = "parse"
  /\ len >= frame
  /\ len' = len - frame
  /\ cap' \in Reserved(cap - len, 0, len - frame)
  /\ frame' \in FrameSizes
  /\ pc' = "idle"
  /\ UNCHANGED asked

\* read_raw_response returns a frame: split_to() takes its capacity along.
ReadRawResponse ==
  /\ pc = "parse"
  /\ len >= frame
  /\ len' = len - frame
  /\ cap' = cap - frame
  /\ frame' \in FrameSizes
  /\ pc' = "idle"
  /\ UNCHANGED asked

\* Mutant of Restore: parses again without reading more.
RestoreSpins ==
  /\ pc = "parse"
  /\ len < frame
  /\ cap' \in Reserved(cap - len, 0, len)
  /\ UNCHANGED <<len, frame, asked, pc>>

\* read_response finds the frame incomplete and puts everything back.
Restore ==
  /\ pc = "parse"
  /\ len < frame
  /\ cap' \in Reserved(cap - len, 0, len)
  /\ pc' = "grow"
  /\ UNCHANGED <<len, frame, asked>>

\* read_raw_response finds the frame incomplete.
Unfinished ==
  /\ pc = "parse"
  /\ len < frame
  /\ pc' = "grow"
  /\ UNCHANGED <<cap, len, frame, asked>>

NewCap == Larger(2 * cap, DEFAULT_BUF_CAPACITY)

\* Mutant of TooLarge: refuses as soon as doubling would exceed the limit.
TooLargeEarly ==
  /\ pc = "grow"
  /\ cap - len < MinRoom
  /\ NewCap > MaxBufSize
  /\ pc' = "error"
  /\ UNCHANGED <<cap, len, frame, asked>>

\* "RESP message too large"
TooLarge ==
  /\ pc = "grow"
  /\ cap - len < MinRoom
  /\ NewCap > MaxBufSize
  /\ cap >= MaxBufSize
  /\ pc' = "error"
  /\ UNCHANGED <<cap, len, frame, asked>>

\* Mutant of Grow: an empty buffer of no capacity is doubled.
GrowDoubles ==
  /\ pc = "grow"
  /\ IF cap - len >= MinRoom THEN UNCHANGED <<cap, asked>>
     ELSE LET target == IF 2 * cap > MaxBufSize THEN MaxBufSize ELSE 2 * cap
          IN /\ 2 * cap > MaxBufSize => cap < MaxBufSize
             /\ asked' = len + target - cap
             /\ cap' \in Reserved(cap, len, target - cap)
  /\ pc' = "read"
  /\ UNCHANGED <<len, frame>>

\* Enough room, or growth to the double, the default or the limit.
Grow ==
  /\ pc = "grow"
  /\ IF cap - len >= MinRoom THEN UNCHANGED <<cap, asked>>
     ELSE LET target == IF NewCap > MaxBufSize THEN MaxBufSize ELSE NewCap
          IN /\ NewCap > MaxBufSize => cap < MaxBufSize
             /\ asked' = len + target - cap
             /\ cap' \in Reserved(cap, len, target - cap)
  /\ pc' = "read"
  /\ UNCHANGED <<len, frame>>

\* read_with_timeout: at least one byte, at most what there is room for.
Read ==
  /\ pc = "read"
  /\ len' \in (len + 1)..cap
  /\ pc' = "parse"
  /\ UNCHANGED <<cap, frame, asked>>

Next == Call \/ ReadResponse \/ ReadRawResponse \/ Restore \/ Unfinished \/ TooLarge \/ Grow \/ Read

Spec == Init /\ [][Next]_vars

\* A read goes on as long as the server sends; nobody has to call again.
FairSpec == Spec /\ WF_vars(Next /\ ~Call)

-----------------------------------------------------------------------------
BufferTypeOK ==
  /\ cap \in Nat /\ len \in Nat /\ len <= cap
  /\ frame \in FrameSizes
  /\ asked \in Int
  /\ pc \in {"idle", "parse", "grow", "read", "error"}

(* A read is started with room in the buffer, whatever has been split off it
   before (BytesMut would make room on its own, past any limit), and growing to
   make that room never asks for more than max_buf_size. *)
RoomWithinLimit == (pc = "read" => len < cap) /\ asked <= MaxBufSize

(* Only a frame within MinRoom of the limit, or beyond, is refused as too
   large: splitting and putting back bytes never makes the buffer refuse a
   frame it has been sized for. *)
RefusedIsTooLarge == pc = "error" => frame > MaxBufSize - MinRoom

(* A call returns a frame or an error: growing and putting back make progress
   towards one of them. *)
ReadEnds == pc = "parse" ~> pc \in {"idle", "error"}

=============================================================================
