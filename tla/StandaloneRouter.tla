-------------------------- MODULE StandaloneRouter --------------------------
(***************************************************************************)
(* Commands and pipelines through the standalone router                    *)
(* (src/src/router/standalone.rs) over pooled connections                  *)
(* (src/src/connection/tcp.rs), against a server that answers each         *)
(* connection's requests in order, may be slow, may close a connection and *)
(* may send a reply larger than max_buffer_size.                           *)
(*                                                                         *)
(* The pool's actions are conjoined with what the router does in the same  *)
(* step, so every behaviour here is one of ConnectionPool.                 *)
(***************************************************************************)
EXTENDS ConnectionPool

CONSTANTS
    MaxCalls,     \* bound: calls per task
    MaxBatch,     \* bound: commands per pipeline
    SocketRoom,   \* requests the socket buffers hold before a write blocks
    ReadTimeout,  \* read_timeout_ms > 0
    Faults        \* which of "close" and "oversize" the server may do

ASSUME RouterAssumption ==
    /\ MaxCalls \in Nat /\ MaxBatch \in Nat /\ SocketRoom \in Nat
    /\ ReadTimeout \in BOOLEAN
    /\ Faults \subseteq {"close", "oversize"}

VARIABLES
    calls,     \* number of calls each task has made
    cmds,      \* the commands of the task's current call, in order
    wrote,     \* how many of them are written
    got,       \* the replies read so far, each named by the command it answers
    outcome,   \* how the call ends, "pending" while it runs, "none" outside
    wire,      \* per connection: commands whose reply is not consumed, oldest first
    buffered,  \* how many of these replies are in RedisConnection.buf
    answered,  \* how many of them the server has sent
    big,       \* which of them do not fit max_buf_size
    peer,      \* "up"; "closed": writes are lost; "reset": writes fail
    failed     \* history: how calls failed on the connection

taskVars == <<calls, cmds, wrote, got, outcome>>
streamVars == <<wire, buffered, answered, big, peer>>
vars == <<poolVars, taskVars, streamVars, failed>>

Request == Tasks \X Nat \X Nat

Sending(t) == pc[t] = "guard" /\ wrote[t] < Len(cmds[t])

Reading(t) == pc[t] = "guard" /\ wrote[t] = Len(cmds[t]) /\ Len(got[t]) < Len(cmds[t])

-----------------------------------------------------------------------------
Init ==
    /\ PoolInit
    /\ calls = [t \in Tasks |-> 0]
    /\ cmds = [t \in Tasks |-> <<>>]
    /\ wrote = [t \in Tasks |-> 0]
    /\ got = [t \in Tasks |-> <<>>]
    /\ outcome = [t \in Tasks |-> "none"]
    /\ wire = [c \in Conns |-> <<>>]
    /\ buffered = [c \in Conns |-> 0]
    /\ answered = [c \in Conns |-> 0]
    /\ big = [c \in Conns |-> {}]
    /\ peer = [c \in Conns |-> "up"]
    /\ failed = [c \in Conns |-> {}]

(***************************************************************************)
(* execute / execute_raw (one command) or pipeline / pipeline_raw          *)
(* (several): the call starts with pool.get().                             *)
(***************************************************************************)
Call(t) ==
    /\ calls[t] < MaxCalls
    /\ Acquire(t)
    /\ calls' = [calls EXCEPT ![t] = @ + 1]
    /\ \E n \in 1 .. MaxBatch :
          cmds' = [cmds EXCEPT ![t] = [i \in 1 .. n |-> <<t, calls[t] + 1, i>>]]
    /\ outcome' = [outcome EXCEPT ![t] = "pending"]
    /\ UNCHANGED <<wrote, got, streamVars, failed>>

(* pool.get() makes progress *)
Lookup(t) ==
    /\ TakeIdle(t) \/ TakeNone(t)
    /\ UNCHANGED <<taskVars, streamVars, failed>>

(* connect_with_max_buf: a new stream and an empty buf *)
Opened(t) ==
    /\ Connect(t)
    /\ wire' = [wire EXCEPT ![conn'[t]] = <<>>]
    /\ buffered' = [buffered EXCEPT ![conn'[t]] = 0]
    /\ answered' = [answered EXCEPT ![conn'[t]] = 0]
    /\ big' = [big EXCEPT ![conn'[t]] = {}]
    /\ peer' = [peer EXCEPT ![conn'[t]] = "up"]
    /\ failed' = [failed EXCEPT ![conn'[t]] = {}]
    /\ UNCHANGED taskVars

Initialized(t) ==
    /\ InitOk(t)
    /\ UNCHANGED <<taskVars, streamVars, failed>>

(* pool.get()?: no connection, the call fails *)
OpenFailed(t) ==
    /\ ConnectErr(t) \/ InitErr(t)
    /\ outcome' = [outcome EXCEPT ![t] = "error"]
    /\ UNCHANGED <<calls, cmds, wrote, got, streamVars, failed>>

(***************************************************************************)
(* send_raw: write_all puts the commands into the socket as long as there  *)
(* is room for them; there is no timeout.  last_used moves when all are    *)
(* written.  Bytes written after the peer closed are lost.                 *)
(***************************************************************************)
Write(t) ==
    /\ Sending(t)
    /\ \/ /\ peer[conn[t]] = "up"
          /\ Len(wire[conn[t]]) - answered[conn[t]] < SocketRoom
          /\ wire' = [wire EXCEPT ![conn[t]] = Append(@, cmds[t][wrote[t] + 1])]
       \/ /\ peer[conn[t]] = "closed"
          /\ UNCHANGED wire
    /\ wrote' = [wrote EXCEPT ![t] = @ + 1]
    /\ IF wrote[t] + 1 = Len(cmds[t]) THEN Use(t) ELSE UNCHANGED poolVars
    /\ UNCHANGED <<calls, cmds, got, outcome, buffered, answered, big, peer, failed>>

(***************************************************************************)
(* An error leaves execute or pipeline through `?`; the guard is dropped   *)
(* on the way out and gives the connection back like any other.            *)
(***************************************************************************)
Fail(t, how) ==
    /\ DropStale(t) \/ DropGuard(t)
    /\ outcome' = [outcome EXCEPT ![t] = "error"]
    /\ failed' = [failed EXCEPT ![conn[t]] = @ \cup {how}]
    /\ UNCHANGED <<calls, cmds, wrote, got>>

(* send_raw: broken pipe or connection reset *)
WriteErr(t) ==
    /\ Sending(t)
    /\ peer[conn[t]] # "up"
    /\ Fail(t, "dead")
    /\ peer' = [peer EXCEPT ![conn[t]] = "reset"]
    /\ UNCHANGED <<wire, buffered, answered, big>>

(* read_with_timeout returns: some of the replies under way are now in buf *)
ReadSocket(t) ==
    /\ Reading(t)
    /\ buffered[conn[t]] = 0
    /\ \E n \in 1 .. answered[conn[t]] : buffered' = [buffered EXCEPT ![conn[t]] = n]
    /\ UNCHANGED <<poolVars, taskVars, wire, answered, big, peer, failed>>

(* the first frame of buf leaves it *)
SplitFrame(c) ==
    /\ wire' = [wire EXCEPT ![c] = Tail(@)]
    /\ buffered' = [buffered EXCEPT ![c] = @ - 1]
    /\ answered' = [answered EXCEPT ![c] = @ - 1]
    /\ UNCHANGED <<big, peer>>

(* read_response / read_raw_response: one whole frame *)
ParseReply(t) ==
    /\ Reading(t)
    /\ buffered[conn[t]] > 0
    /\ Head(wire[conn[t]]) \notin big[conn[t]]
    /\ got' = [got EXCEPT ![t] = Append(@, Head(wire[conn[t]]))]
    /\ SplitFrame(conn[t])
    /\ Use(t)
    /\ UNCHANGED <<calls, cmds, wrote, outcome, failed>>

(* Mutant of TooLarge: the unreadable frame is thrown away. *)
TooLargeSkips(t) ==
    /\ Reading(t)
    /\ buffered[conn[t]] > 0
    /\ Head(wire[conn[t]]) \in big[conn[t]]
    /\ Fail(t, "oversize")
    /\ SplitFrame(conn[t])

(***************************************************************************)
(* The frame at the head of buf does not fit max_buf_size: Protocol error, *)
(* and the bytes stay in buf.                                              *)
(***************************************************************************)
TooLarge(t) ==
    /\ Reading(t)
    /\ buffered[conn[t]] > 0
    /\ Head(wire[conn[t]]) \in big[conn[t]]
    /\ Fail(t, "oversize")
    /\ UNCHANGED streamVars

(* Mutant of ReadTimedOut: the timeout is not armed for the first reply. *)
ReadTimedOutLater(t) ==
    /\ Reading(t) /\ ReadTimeout /\ got[t] # <<>>
    /\ answered[conn[t]] = 0 /\ peer[conn[t]] = "up"
    /\ Fail(t, "timeout")
    /\ UNCHANGED streamVars

(* read_with_timeout: nothing arrived within read_timeout *)
ReadTimedOut(t) ==
    /\ Reading(t) /\ ReadTimeout
    /\ answered[conn[t]] = 0 /\ peer[conn[t]] = "up"
    /\ Fail(t, "timeout")
    /\ UNCHANGED streamVars

(* read_with_timeout: end of stream *)
ReadEof(t) ==
    /\ Reading(t)
    /\ answered[conn[t]] = 0 /\ peer[conn[t]] # "up"
    /\ Fail(t, "dead")
    /\ UNCHANGED streamVars

(* Mutant of Finish: a pipeline may return one reply early. *)
FinishShort(t) ==
    /\ pc[t] = "guard"
    /\ wrote[t] = Len(cmds[t]) /\ Len(got[t]) + 1 >= Len(cmds[t])
    /\ DropStale(t) \/ DropGuard(t)
    /\ outcome' = [outcome EXCEPT ![t] = "ok"]
    /\ UNCHANGED <<calls, cmds, wrote, got, streamVars, failed>>

(* All replies are there: Ok, and the guard goes out of scope. *)
Finish(t) ==
    /\ pc[t] = "guard"
    /\ Len(got[t]) = Len(cmds[t])
    /\ DropStale(t) \/ DropGuard(t)
    /\ outcome' = [outcome EXCEPT ![t] = "ok"]
    /\ UNCHANGED <<calls, cmds, wrote, got, streamVars, failed>>

(* The rest of PoolGuard::drop; with the permit, the call's frame is gone. *)
GiveBack(t) ==
    /\ PushIdle(t)
    /\ UNCHANGED <<taskVars, streamVars, failed>>

Return(t) ==
    /\ Release(t)
    /\ cmds' = [cmds EXCEPT ![t] = <<>>]
    /\ wrote' = [wrote EXCEPT ![t] = 0]
    /\ got' = [got EXCEPT ![t] = <<>>]
    /\ outcome' = [outcome EXCEPT ![t] = "none"]
    /\ UNCHANGED <<calls, streamVars, failed>>

-----------------------------------------------------------------------------
(* The server answers the oldest unanswered request of a connection. *)
Serve(c) ==
    /\ c \in Open /\ peer[c] = "up"
    /\ answered[c] < Len(wire[c])
    /\ answered' = [answered EXCEPT ![c] = @ + 1]
    /\ \/ UNCHANGED big
       \/ /\ "oversize" \in Faults
          /\ big' = [big EXCEPT ![c] = @ \cup {wire[c][answered[c] + 1]}]
    /\ UNCHANGED <<poolVars, taskVars, wire, buffered, peer, failed>>

(* The server closes a connection; replies still under way may be lost. *)
ServerClose(c) ==
    /\ "close" \in Faults
    /\ c \in Open /\ peer[c] = "up"
    /\ \E n \in buffered[c] .. answered[c] :
          /\ answered' = [answered EXCEPT ![c] = n]
          /\ wire' = [wire EXCEPT ![c] = SubSeq(@, 1, n)]
    /\ peer' = [peer EXCEPT ![c] = "closed"]
    /\ UNCHANGED <<poolVars, taskVars, buffered, big, failed>>

Clock == Tick /\ UNCHANGED <<taskVars, streamVars, failed>>

Progress(t) ==
    \/ Lookup(t) \/ Opened(t) \/ Initialized(t) \/ OpenFailed(t)
    \/ Write(t) \/ WriteErr(t)
    \/ ReadSocket(t) \/ ParseReply(t) \/ TooLarge(t) \/ ReadTimedOut(t) \/ ReadEof(t)
    \/ Finish(t) \/ GiveBack(t) \/ Return(t)

Next ==
    \/ \E t \in Tasks : Call(t) \/ Progress(t)
    \/ \E c \in Conns : Serve(c) \/ ServerClose(c)
    \/ Clock

Spec == Init /\ [][Next]_vars

(***************************************************************************)
(* A task's thread runs whenever it can: weak fairness on its next step.   *)
(* Where it waits for the server alone, that step is the read timeout.     *)
(* The server owes nothing.                                                *)
(***************************************************************************)
FairSpec == Spec /\ \A t \in Tasks : WF_vars(Progress(t))

-----------------------------------------------------------------------------
(* Type correctness of the router's state. *)
RouterTypeOK ==
    /\ PoolTypeOK
    /\ calls \in [Tasks -> 0 .. MaxCalls]
    /\ cmds \in [Tasks -> Seq(Request)]
    /\ wrote \in [Tasks -> Nat]
    /\ got \in [Tasks -> Seq(Request)]
    /\ \A t \in Tasks : Len(got[t]) <= wrote[t] /\ wrote[t] <= Len(cmds[t])
    /\ outcome \in [Tasks -> {"none", "pending", "ok", "error"}]
    /\ wire \in [Conns -> Seq(Request)]
    /\ buffered \in [Conns -> Nat]
    /\ answered \in [Conns -> Nat]
    /\ \A c \in Conns : buffered[c] <= answered[c] /\ answered[c] <= Len(wire[c])
    /\ big \in [Conns -> SUBSET Request]
    /\ peer \in [Conns -> {"up", "closed", "reset"}]
    /\ failed \in [Conns -> SUBSET {"timeout", "dead", "oversize"}]

(***************************************************************************)
(* docs/advanced/pipelines.md: "Results are returned in the same order as  *)
(* the commands."  A call that returns Ok returns the replies to its own   *)
(* commands, in order.                                                     *)
(***************************************************************************)
AnswersMatch == \A t \in Tasks : outcome[t] = "ok" => got[t] = cmds[t]

(***************************************************************************)
(* A reply is taken for another command's only on a connection on which a  *)
(* read timed out before.  Neither connections that the server closes, nor *)
(* errors in the middle of a pipeline, nor replies too large to read, can  *)
(* shift the replies of a connection against its commands.                 *)
(***************************************************************************)
AlignedUnlessTimedOut ==
    \A t \in Tasks :
        pc[t] = "guard" /\ "timeout" \notin failed[conn[t]]
            => \A i \in DOMAIN got[t] : got[t][i] = cmds[t][i]

TimedOut(c) == "timeout" \in failed[c]
(* the frame at the head of buf can never be split off *)
Jammed(c) == buffered[c] > 0 /\ Head(wire[c]) \in big[c]
(* no later call can take a reply from here for its own *)
Quiet(c) == TimedOut(c) \/ Jammed(c) \/ peer[c] = "reset" \/ wire[c] = <<>>

(* what c has outstanding: t's commands from the next one to be answered on *)
Owed(t, c) ==
    /\ Len(got[t]) + Len(wire[c]) <= wrote[t]
    /\ peer[c] = "up" => Len(got[t]) + Len(wire[c]) = wrote[t]
    /\ \A i \in 1 .. Len(wire[c]) : wire[c][i] = cmds[t][Len(got[t]) + i]

FreshCalls ==
    \A t \in Tasks :
        /\ pc[t] \in {"outside", "waiting", "acquired", "connecting", "initializing"}
              => wrote[t] = 0 /\ got[t] = <<>>
        /\ pc[t] # "outside" => Len(cmds[t]) > 0

DeadDrained == \A c \in Conns : peer[c] # "up" => Len(wire[c]) = answered[c]

Unused(c) ==
    \/ \E i \in DOMAIN idle : idle[i] = c
    \/ \E t \in Tasks : pc[t] \in {"initializing", "returning"} /\ conn[t] = c

UnusedQuiet == \A c \in Conns : Unused(c) => Quiet(c)

UsedOwed ==
    \A t \in Tasks, c \in Conns :
        pc[t] = "guard" /\ conn[t] = c =>
            /\ peer[c] = "reset" => wrote[t] = 0
            /\ TimedOut(c) \/ Jammed(c) \/ peer[c] = "reset" \/ Owed(t, c)

(***************************************************************************)
(* Why that holds.  The replies outstanding on a connection in use are     *)
(* those to its owner's commands, from the next one to be read to the last *)
(* one written; a connection that is not in use has none outstanding, or   *)
(* can deliver none: its buffer is jammed, or its socket refuses writes.   *)
(***************************************************************************)
StreamsAligned == FreshCalls /\ DeadDrained /\ UnusedQuiet /\ UsedOwed

(* write_all waits for room in the socket, with no timeout *)
Blocked(t) ==
    /\ Sending(t)
    /\ peer[conn[t]] = "up"
    /\ Len(wire[conn[t]]) - answered[conn[t]] >= SocketRoom

(***************************************************************************)
(* docs/advanced/errors.md: timeouts "prevent threads from blocking        *)
(* indefinitely on a stalled or unreachable Redis".  With a read timeout   *)
(* every call returns, whatever the server does and however many calls     *)
(* wait for a connection, unless some call stays for ever in write_all, on *)
(* a socket that a server that no longer reads has let fill up.            *)
(***************************************************************************)
ReturnsUnlessBlocked ==
    \/ \A t \in Tasks : outcome[t] = "pending" ~> outcome[t] # "pending"
    \/ <>[](\E t \in Tasks : Blocked(t))
=============================================================================
