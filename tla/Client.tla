------------------------------- MODULE Client -------------------------------
(***************************************************************************)
(* The state that a client keeps on its own side: the read buffer of a     *)
(* connection (ReadBuffer), a Redis object and a Pipeline object that      *)
(* threads share (ClientSession, ClientPipeline), and a call being written *)
(* of one of their methods (ClientCommands).                               *)
(***************************************************************************)
EXTENDS ReadBuffer, Sequences

CONSTANTS
  Threads,
  Constructions, Password, Db, Dbs, Methods, Errors,   \* of ClientSession
  Conns, Replies, MaxCommands,                         \* of ClientPipeline
  Rests, MaxRest, Numbers                              \* of ClientCommands

ASSUME ClientAssumption ==
  /\ Constructions \subseteq {"new", "from_url"} \X Nat
  /\ Password \in BOOLEAN /\ Db \in Nat /\ Dbs \subseteq Nat /\ 0 \in Dbs
  /\ Methods # {}
  /\ Methods \subseteq [method : {"get", "set", "set_nx", "select", "ping"}, db : Nat]
  /\ \A r \in Replies : r[1] # "raise"
  /\ Conns # {} /\ MaxCommands \in Nat

VARIABLES
  client, permits, idle, spc, call, conn, ran, sresult, store, selected,        \* of ClientSession
  commands, borrow, ppc, batch, pconn, replies, presult, sent, inbox, alive,    \* of ClientPipeline
  accepted, executed, batches, failed,
  method                                                                        \* of ClientCommands

sessionVars  == <<client, permits, idle, spc, call, conn, ran, sresult, store, selected>>
pipelineVars == <<commands, borrow, ppc, batch, pconn, replies, presult, sent, inbox, alive,
                  accepted, executed, batches, failed>>

Session == INSTANCE ClientSession WITH pc <- spc, result <- sresult

Pipe == INSTANCE ClientPipeline WITH pc <- ppc, conn <- pconn, result <- presult

Command == INSTANCE ClientCommands WITH call <- method

-----------------------------------------------------------------------------
(* Until somebody calls select(), every command runs in the configured
   database on an authenticated connection (client.rs, tcp.rs). *)
ConfiguredDb == Session!ConfiguredDb

(* set() returns True exactly if this call set the key, and None exactly if the
   key was there already (client.rs). *)
SetTellsTruth == Session!SetTellsTruth

(* "RedisError - any Redis server error" (docs/advanced/errors.md): an error
   reply is raised, as the exception of the table (client.rs, error.rs). *)
RaisedAsDocumented == Session!RaisedAsDocumented

(* The commands of a pipeline are executed at most once, in order within an
   execute(), and in order altogether until an exchange fails. *)
ExecutedOnceInOrder == Pipe!ExecutedOnceInOrder

(* execute() raises the first error of its batch, or returns all results. *)
FirstErrorRaised == [][Pipe!RaisesFirstError]_pipelineVars

(* Pipeline's methods queue what Redis's methods send (client.rs). *)
MirrorsRedis == Command!MirrorsRedis

=============================================================================
