------------------------------ MODULE MCClient ------------------------------
(***************************************************************************)
(* The client's side, explored one part at a time: the read buffer, the    *)
(* session, the pipeline and the methods of Client, and the algorithms of  *)
(* MCConversions.  The parts that are not explored rest in their initial   *)
(* states, so the state space is the sum of theirs.                        *)
(***************************************************************************)
EXTENDS Client, MCConversions

Sizes == 1..12

Makers == {<<"new", 0>>, <<"new", 2>>, <<"from_url", 2>>}

SomeMethods == [method : {"set_nx", "select"}, db : {0}]
AllMethods  == [method : {"get", "set", "set_nx", "select", "ping"}, db : {0}]

ErrorMessages == {<<"READONLY", "You">>}

PipelineReplies ==
  {<<"bulk", "value">>, <<"error", <<"ERR", "unknown">>>>, <<"error", <<"WRONGTYPE", "Operation">>>>}

\* Every row of the table of docs/advanced/errors.md, and a word that begins with one.
TableErrors ==
  {<<"ERR", "unknown">>, <<"WRONGTYPE", "Operation">>, <<"READONLY", "You">>, <<"NOSCRIPT", "No">>,
   <<"BUSY", "Redis">>, <<"CLUSTERDOWN", "Hash">>, <<"MOVED", "3999", "h:6381">>, <<"LOADING", "Redis">>,
   <<"OOM", "command">>, <<"BUSYGROUP", "Consumer">>}

-----------------------------------------------------------------------------
allVars == <<part, vars, sessionVars, pipelineVars, method, conversionVars>>

MCInit == /\ part \in {"buffer", "session", "pipeline", "method"} \cup Conversions
          /\ Init /\ Session!Init /\ Pipe!Init /\ Command!Init
          /\ part # "buffer" => cap = DEFAULT_BUF_CAPACITY /\ frame = 1
          /\ part # "method" => method.method = "ping" /\ method.n = 0 /\ method.m = 0
          /\ ConversionInit

BufferStep(A) == part = "buffer" /\ A /\ UNCHANGED <<part, sessionVars, pipelineVars, method, conversionVars>>

MCNext == \/ BufferStep(Next)
          \/ part = "session" /\ Session!Next /\ UNCHANGED <<part, vars, pipelineVars, method, conversionVars>>
          \/ part = "pipeline" /\ Pipe!Next /\ UNCHANGED <<part, vars, sessionVars, method, conversionVars>>
          \/ part = "method" /\ Command!Next /\ UNCHANGED <<part, vars, sessionVars, pipelineVars, conversionVars>>
          \/ ConversionNext /\ UNCHANGED <<part, vars, sessionVars, pipelineVars, method>>
          \/ part \in {"method"} \cup Conversions /\ UNCHANGED allVars

\* The session alone and the integers alone.
SessionSpec == part = "session" /\ MCInit /\ [][MCNext]_allVars
IntegersSpec == part = "integers" /\ MCInit /\ [][MCNext]_allVars

MCSpec == MCInit /\ [][MCNext]_allVars /\ WF_vars(BufferStep(Next /\ ~Call))

=============================================================================
