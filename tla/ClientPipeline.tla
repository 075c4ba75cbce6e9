--------------------------- MODULE ClientPipeline ---------------------------
(***************************************************************************)
(* A Pipeline object shared by Python threads (client.rs): commands are    *)
(* queued, execute() takes them, releases the GIL while the router sends   *)
(* them and reads the replies, and converts the replies.                   *)
(*                                                                         *)
(* A command is the number of the call that queued it.  A method of a      *)
(* pyclass runs under the GIL and borrows the object; execute() keeps its  *)
(* mutable borrow while the GIL is released, and other calls then raise.   *)
(* The server executes what it has received on a connection in order, even *)
(* if the client has given up waiting for it.                              *)
(***************************************************************************)
EXTENDS RedisErrors, Functions

CONSTANTS
  Threads,
  Conns,         \* connections of the pool, a new one in the place of each that broke
  Replies,       \* replies of the server to a command
  MaxCommands    \* bound on the commands ever queued

VARIABLES
  commands,      \* Pipeline.commands
  borrow,        \* the thread in execute(), or <<>>
  pc,            \* "idle", "io" or "convert"
  batch,         \* the commands a thread's execute() has taken
  conn,          \* the connection it uses
  replies,       \* the replies it has read, each with the command it answers
  result,        \* what a thread's last call returned or raised
  sent,          \* commands on their way to the server, or waiting there
  inbox,         \* executed commands whose replies have not been read
  alive,         \* is the connection of the client's making still up?
  accepted,      \* number of commands queued so far
  executed,      \* commands the server has executed, in order
  batches,       \* what calls of execute() have taken so far
  failed         \* has an exchange failed?

vars == <<commands, borrow, pc, batch, conn, replies, result, sent, inbox, alive, accepted, executed, batches,
          failed>>

server == <<sent, inbox, alive, executed>>

Free == <<>>

Init == /\ commands = <<>> /\ borrow = Free
        /\ pc = [t \in Threads |-> "idle"]
        /\ batch = [t \in Threads |-> <<>>] /\ replies = [t \in Threads |-> <<>>]
        /\ conn \in [Threads -> {CHOOSE c \in Conns : TRUE}]
        /\ result = [t \in Threads |-> <<"none">>]
        /\ sent = [c \in Conns |-> <<>>] /\ inbox = [c \in Conns |-> <<>>]
        /\ alive = [c \in Conns |-> FALSE]
        /\ accepted = 0 /\ executed = <<>> /\ batches = {} /\ failed = FALSE

-----------------------------------------------------------------------------
\* set(), get(), execute_command() and so on
Push(t) == /\ pc[t] = "idle"
           /\ borrow = Free
           /\ accepted < MaxCommands
           /\ commands' = Append(commands, accepted + 1)
           /\ accepted' = accepted + 1
           /\ result' = [result EXCEPT ![t] = <<"self">>]
           /\ UNCHANGED <<borrow, pc, batch, conn, replies, server, batches, failed>>

\* Any method while another thread is in execute()
AlreadyBorrowed(t) ==
  /\ pc[t] = "idle"
  /\ borrow # Free
  /\ result' = [result EXCEPT ![t] = <<"raise", "RuntimeError">>]
  /\ UNCHANGED <<commands, borrow, pc, batch, conn, replies, server, accepted, batches, failed>>

reset(t) == /\ pc[t] = "idle"
            /\ borrow = Free
            /\ commands' = <<>>
            /\ result' = [result EXCEPT ![t] = <<"none">>]
            /\ UNCHANGED <<borrow, pc, batch, conn, replies, server, accepted, batches, failed>>

ExecuteEmpty(t) ==
  /\ pc[t] = "idle"
  /\ borrow = Free
  /\ commands = <<>>
  /\ result' = [result EXCEPT ![t] = <<"list", <<>>>>]
  /\ UNCHANGED <<commands, borrow, pc, batch, conn, replies, server, accepted, batches, failed>>

\* send_raw on a connection of the pool that nobody uses, or on a new one.
SendBatch(t, c) ==
  /\ alive[c] \/ sent[c] = <<>>
  /\ \A u \in Threads \ {t} : pc[u] = "io" => conn[u] # c
  /\ batch' = [batch EXCEPT ![t] = commands]
  /\ conn' = [conn EXCEPT ![t] = c]
  /\ sent' = [sent EXCEPT ![c] = @ \o commands]
  /\ alive' = [alive EXCEPT ![c] = TRUE]
  /\ batches' = batches \cup {commands}
  /\ pc' = [pc EXCEPT ![t] = "io"]

\* Mutant of Execute: the commands stay queued.
ExecuteKeeps(t) == /\ pc[t] = "idle"
                   /\ borrow = Free
                   /\ commands # <<>>
                   /\ \E c \in Conns : SendBatch(t, c)
                   /\ borrow' = <<t>>
                   /\ UNCHANGED <<commands, replies, result, inbox, accepted, executed, failed>>

\* execute(): mem::take, and the GIL is released for router.pipeline_raw.
Execute(t) == /\ pc[t] = "idle"
              /\ borrow = Free
              /\ commands # <<>>
              /\ \E c \in Conns : SendBatch(t, c)
              /\ commands' = <<>>
              /\ borrow' = <<t>>
              /\ UNCHANGED <<replies, result, inbox, accepted, executed, failed>>

\* The server executes a command it has received; a broken connection takes no reply.
Serve(c) == /\ sent[c] # <<>>
            /\ executed' = Append(executed, Head(sent[c]))
            /\ sent' = [sent EXCEPT ![c] = Tail(@)]
            /\ inbox' = IF alive[c] THEN [inbox EXCEPT ![c] = Append(@, Head(sent[c]))] ELSE inbox
            /\ UNCHANGED <<commands, borrow, pc, batch, conn, replies, result, alive, accepted, batches, failed>>

\* pipeline_raw reads as many replies as it has sent commands ...
PipelineRaw(t) ==
  LET c == conn[t]
      n == Len(batch[t])
  IN /\ pc[t] = "io"
     /\ n <= Len(inbox[c])
     /\ \E given \in [1..n -> Replies] :
          replies' = [replies EXCEPT ![t] = [i \in 1..n |-> [answers |-> inbox[c][i], reply |-> given[i]]]]
     /\ inbox' = [inbox EXCEPT ![c] = SubSeq(@, n + 1, Len(@))]
     /\ pc' = [pc EXCEPT ![t] = "convert"]
     /\ UNCHANGED <<commands, borrow, batch, conn, result, sent, alive, accepted, executed, batches, failed>>

\* ... or fails: `?` leaves execute(), and the batch is gone with it.
Leave(t, err) == /\ result' = [result EXCEPT ![t] = <<"raise", PyErr(err)>>]
                 /\ batch' = [batch EXCEPT ![t] = <<>>]
                 /\ borrow' = Free
                 /\ pc' = [pc EXCEPT ![t] = "idle"]
                 /\ failed' = TRUE
                 /\ UNCHANGED <<commands, conn, replies, accepted, executed, batches>>

\* The connection goes back to the pool with the rest of the replies outstanding.
ReadTimedOut(t) == /\ pc[t] = "io"
                   /\ Len(inbox[conn[t]]) < Len(batch[t])
                   /\ inbox' = [inbox EXCEPT ![conn[t]] = <<>>]
                   /\ Leave(t, <<"Timeout">>)
                   /\ UNCHANGED <<sent, alive>>

\* What had not reached the server is lost, and so are the replies.
Broken(t) == /\ pc[t] = "io"
             /\ alive' = [alive EXCEPT ![conn[t]] = FALSE]
             /\ inbox' = [inbox EXCEPT ![conn[t]] = <<>>]
             /\ \E n \in 0..Len(sent[conn[t]]) : sent' = [sent EXCEPT ![conn[t]] = SubSeq(@, 1, n)]
             /\ Leave(t, <<"Connection">>)

\* parse_to_python of a reply
ToPython(reply) == CASE reply[1] = "error"  -> <<"raise", PyErr(redis(reply[2]))>>
                     [] reply[1] = "simple" -> <<"str", reply[2]>>
                     [] OTHER -> reply

\* Mutant of Collected: the last error is raised.
CollectedLast(items) ==
  LET upTo[n \in 0..Len(items)] ==
        IF n = 0 THEN <<"list", <<>>>>
        ELSE IF items[n][1] = "raise" THEN items[n]
        ELSE IF upTo[n - 1][1] = "raise" THEN upTo[n - 1]
        ELSE <<"list", Append(upTo[n - 1][2], items[n])>>
  IN upTo[Len(items)]

\* collect::<PyResult<_>>(): the items, or the first error.
Collected(items) ==
  LET upTo[n \in 0..Len(items)] ==
        IF n = 0 THEN <<"list", <<>>>>
        ELSE IF upTo[n - 1][1] = "raise" THEN upTo[n - 1]
        ELSE IF items[n][1] = "raise" THEN items[n]
        ELSE <<"list", Append(upTo[n - 1][2], items[n])>>
  IN upTo[Len(items)]

Convert(t) ==
  /\ pc[t] = "convert"
  /\ result' = [result EXCEPT ![t] = Collected([i \in DOMAIN replies[t] |-> ToPython(replies[t][i].reply)])]
  /\ batch' = [batch EXCEPT ![t] = <<>>]
  /\ replies' = [replies EXCEPT ![t] = <<>>]
  /\ borrow' = Free
  /\ pc' = [pc EXCEPT ![t] = "idle"]
  /\ UNCHANGED <<commands, conn, server, accepted, batches, failed>>

Finish(t) == PipelineRaw(t) \/ ReadTimedOut(t) \/ Broken(t) \/ Convert(t)

Next == \/ \E t \in Threads : Push(t) \/ AlreadyBorrowed(t) \/ reset(t) \/ ExecuteEmpty(t) \/ Execute(t) \/ Finish(t)
        \/ \E c \in Conns : Serve(c)

Spec == Init /\ [][Next]_vars

-----------------------------------------------------------------------------
SameBatch(x, y) == \E b \in batches : x \in Range(b) /\ y \in Range(b)

(* Whatever threads queue, reset and execute and whichever exchanges time out
   or break, the server executes a command at most once, the commands of one
   execute() in the order of queueing, and all of them in that order as long as
   no exchange has failed.  (After a failure, the server may execute what is
   left of the batch when a later one has begun on another connection.) *)
ExecutedOnceInOrder ==
  \A i, j \in DOMAIN executed : i < j =>
    \/ executed[i] < executed[j]
    \/ failed /\ executed[i] # executed[j] /\ ~SameBatch(executed[i], executed[j])

RaisesFirstError ==
  \A t \in Threads : Convert(t) =>
    LET errors == {i \in DOMAIN replies[t] : replies[t][i].reply[1] = "error"}
    IN /\ IF errors = {} THEN result'[t][1] = "list" /\ Len(result'[t][2]) = Len(batch[t])
          ELSE \E i \in errors : /\ \A j \in errors : i <= j
                                 /\ result'[t] = ToPython(replies[t][i].reply)
       /\ ~failed => [i \in DOMAIN replies[t] |-> replies[t][i].answers] = batch[t]

(* "All commands are sent to the server, but parsing stops at the first error":
   execute() raises the exception of the first error reply, and otherwise
   returns a result per command; the replies are those to its own commands, in
   their order, as long as no exchange has failed. *)
FirstErrorRaised == [][RaisesFirstError]_vars

=============================================================================
