--------------------------- MODULE ClientSession ----------------------------
(***************************************************************************)
(* A Redis object shared by Python threads: its constructors, the          *)
(* handshake of the pool's connections, and what the methods make of the   *)
(* server's replies (client.rs, connection/tcp.rs, error.rs).              *)
(*                                                                         *)
(* The pool is reduced to permits and a stack of idle connections, each    *)
(* [authed, db, alive, late]; ConnectionPool has the details.  A late      *)
(* connection is one on which a read timed out: what is read on it is the  *)
(* reply to some earlier command (StandaloneRouter has the details).  The  *)
(* server keeps one key per database.                                      *)
(***************************************************************************)
EXTENDS RedisErrors

CONSTANTS
  Threads,
  Constructions,  \* how clients are made: pairs of "new" or "from_url" and pool_size
  Password,     \* is a password configured (and required by the server)?
  Db,           \* the configured database
  Dbs,          \* the server's databases
  Methods,      \* of [method : {"get", "set", "set_nx", "select", "ping"}, db : Nat]
  Errors        \* error messages the server may answer with

VARIABLES
  client,       \* "none", "failed" when the constructor raised, or "ready"
  permits, idle,  \* the pool
  pc,           \* "idle", "get", "auth", "select_db", "send" or "return"
  call,         \* the method being called
  conn,         \* the connection held
  ran,          \* the reply read and what the server did: [value, db, wrote, own], or <<>>
  result,       \* what the method returned or raised
  store,        \* is the key of a database set?
  selected      \* has select() been called?

vars == <<client, permits, idle, pc, call, conn, ran, result, store, selected>>

NoConn  == [authed |-> FALSE, db |-> 0, alive |-> FALSE, late |-> FALSE]
NewConn == [authed |-> FALSE, db |-> 0, alive |-> TRUE, late |-> FALSE]

Ok(value)  == <<"ok", value>>
Raise(err) == <<"raise", PyErr(err)>>

-----------------------------------------------------------------------------
Init ==
  /\ client = "none" /\ permits = 0 /\ idle = <<>>
  /\ pc = [t \in Threads |-> "idle"]
  /\ call \in [Threads -> {CHOOSE m \in Methods : TRUE}]
  /\ conn = [t \in Threads |-> NoConn]
  /\ ran = [t \in Threads |-> <<>>]
  /\ result = [t \in Threads |-> <<>>]
  /\ store = [d \in Dbs |-> FALSE]
  /\ selected = FALSE

\* Redis(pool_size=n)
New == \E n \in {c[2] : c \in {c \in Constructions : c[1] = "new"}} :
         /\ client \in {"none", "failed"}
         /\ IF n = 0 THEN client' = "failed" /\ UNCHANGED permits
                     ELSE client' = "ready" /\ permits' = n
         /\ UNCHANGED <<idle, pc, call, conn, ran, result, store, selected>>

\* Redis.from_url(url, pool_size=n)
FromUrl == \E n \in {c[2] : c \in {c \in Constructions : c[1] = "from_url"}} :
             /\ client \in {"none", "failed"}
             /\ client' = "ready"
             /\ permits' = n
             /\ UNCHANGED <<idle, pc, call, conn, ran, result, store, selected>>

Call(t) == /\ client = "ready"
           /\ pc[t] = "idle"
           /\ \E m \in Methods : /\ call' = [call EXCEPT ![t] = m]
                                 /\ selected' = (selected \/ m.method = "select")
           /\ pc' = [pc EXCEPT ![t] = "get"]
           /\ ran' = [ran EXCEPT ![t] = <<>>]
           /\ result' = [result EXCEPT ![t] = <<>>]
           /\ UNCHANGED <<client, permits, idle, conn, store>>

\* pool.get(): the topmost connection that has not expired, or a new one.
Get(t) == /\ pc[t] = "get"
          /\ permits > 0
          /\ permits' = permits - 1
          /\ \E k \in 0..Len(idle) :
               IF k = 0
               THEN /\ idle' = <<>>
                    /\ conn' = [conn EXCEPT ![t] = NewConn]
                    /\ pc' = [pc EXCEPT ![t] = "auth"]
               ELSE /\ idle' = SubSeq(idle, 1, k - 1)
                    /\ conn' = [conn EXCEPT ![t] = idle[k]]
                    /\ pc' = [pc EXCEPT ![t] = "send"]
          /\ UNCHANGED <<client, call, ran, result, store, selected>>

\* The handshake fails: the connection is dropped and the permit released.
HandshakeFails(t, err) == /\ permits' = permits + 1
                          /\ conn' = [conn EXCEPT ![t] = NoConn]
                          /\ result' = [result EXCEPT ![t] = Raise(err)]
                          /\ pc' = [pc EXCEPT ![t] = "idle"]

\* Connect and AUTH, if there is a password.
Auth(t) == /\ pc[t] = "auth"
           /\ \/ /\ conn' = [conn EXCEPT ![t].authed = Password]
                 /\ pc' = [pc EXCEPT ![t] = "select_db"]
                 /\ UNCHANGED <<permits, result>>
              \/ \E msg \in Errors : Password /\ HandshakeFails(t, redis(msg))
              \/ HandshakeFails(t, <<"Connection">>)
           /\ UNCHANGED <<client, idle, call, ran, store, selected>>

\* Mutant of SelectDb: a refused SELECT is ignored.
SelectDbIgnored(t) ==
  /\ pc[t] = "select_db"
  /\ \/ /\ conn' \in {[conn EXCEPT ![t].db = Db], conn}
        /\ pc' = [pc EXCEPT ![t] = "send"]
        /\ UNCHANGED <<permits, result>>
     \/ Db # 0 /\ HandshakeFails(t, <<"Connection">>)
  /\ UNCHANGED <<client, idle, call, ran, store, selected>>

\* SELECT, unless the configured database is 0.
SelectDb(t) ==
  /\ pc[t] = "select_db"
  /\ \/ /\ Db = 0 \/ Db \in Dbs
        /\ conn' = [conn EXCEPT ![t].db = Db]
        /\ pc' = [pc EXCEPT ![t] = "send"]
        /\ UNCHANGED <<permits, result>>
     \/ \E msg \in Errors : Db # 0 /\ HandshakeFails(t, redis(msg))
     \/ Db # 0 /\ HandshakeFails(t, <<"Connection">>)
  /\ UNCHANGED <<client, idle, call, ran, store, selected>>

\* What the server may do with a command: its reply, whether it wrote the key, and the
\* database and the key as they are afterwards.
Effects(t) ==
  LET m == call[t].method
      d == conn[t].db
      taken == m = "set_nx" /\ store[d]
      Effect(value, wrote, db, key) == [value |-> value, wrote |-> wrote, db |-> db, key |-> key]
  IN {Effect(<<"error", msg>>, FALSE, d, store[d]) : msg \in Errors}
     \cup CASE m \in {"set", "set_nx"} ->
                 {Effect(IF taken THEN <<"null">> ELSE <<"simple", "OK">>, ~taken, d, TRUE)}
            [] m = "get" -> {Effect(IF store[d] THEN <<"bulk", "value">> ELSE <<"null">>, FALSE, d, store[d])}
            [] m = "ping" -> {Effect(<<"simple", "PONG">>, FALSE, d, store[d])}
            [] m = "select" -> {Effect(<<"simple", "OK">>, FALSE, db, store[d]) : db \in {call[t].db} \cap Dbs}

\* Replies to other commands, for a connection that is late.
Replied == {<<"null">>, <<"simple", "OK">>, <<"simple", "PONG">>, <<"bulk", "value">>} \cup ({"error"} \X Errors)

\* The server executes the command on the connection's database, and a reply is read.
Execute(t) ==
  /\ pc[t] = "send"
  /\ conn[t].alive
  /\ \E e \in Effects(t) :
       /\ \E value \in IF conn[t].late THEN Replied ELSE {e.value} :
            ran' = [ran EXCEPT ![t] = [value |-> value, db |-> conn[t].db, wrote |-> e.wrote, own |-> ~conn[t].late]]
       /\ store' = [store EXCEPT ![conn[t].db] = e.key]
       /\ conn' = [conn EXCEPT ![t].db = e.db]
  /\ pc' = [pc EXCEPT ![t] = "return"]
  /\ UNCHANGED <<client, permits, idle, call, result, selected>>

\* The read times out, and the connection is late from now on; or the connection breaks,
\* or is found broken.  The server may have executed the command, and the guard returns
\* the connection all the same.
ExecuteFails(t) ==
  /\ pc[t] = "send"
  /\ \E e \in [db : {conn[t].db}, key : {store[conn[t].db]}] \cup (IF conn[t].alive THEN Effects(t) ELSE {}) :
       /\ store' = [store EXCEPT ![conn[t].db] = e.key]
       /\ \/ /\ conn' = [conn EXCEPT ![t] = [@ EXCEPT !.alive = FALSE, !.late = FALSE]]
             /\ result' = [result EXCEPT ![t] = Raise(<<"Connection">>)]
          \/ /\ conn[t].alive
             /\ conn' = [conn EXCEPT ![t] = [@ EXCEPT !.late = TRUE, !.db = e.db]]
             /\ result' = [result EXCEPT ![t] = Raise(<<"Timeout">>)]
  /\ pc' = [pc EXCEPT ![t] = "return"]
  /\ UNCHANGED <<client, permits, idle, call, ran, selected>>

\* exec_raw: an error reply is raised, anything else is a value.
exec_raw(value) == IF value[1] = "error" THEN Raise(redis(value[2])) ELSE Ok(value)

\* Mutant of ToPython: set() returns True unless the reply is null.
ToPythonNotNull(m, value) ==
  CASE m \in {"set", "set_nx"} -> Ok(IF value = <<"null">> THEN value ELSE <<"bool", TRUE>>)
    [] m = "ping" -> Ok(<<"bool", value = <<"simple", "PONG">>>>)
    [] OTHER -> exec_raw(value)

\* set() and ping() look at the raw reply, the other methods use exec_raw.
\* set_nx stands for set(nx=True).
ToPython(m, value) ==
  CASE m \in {"set", "set_nx"} -> Ok(IF value = <<"null">> THEN value ELSE <<"bool", value = <<"simple", "OK">>>>)
    [] m = "ping" -> Ok(<<"bool", value = <<"simple", "PONG">>>>)
    [] OTHER -> exec_raw(value)

\* The guard is dropped: the connection goes to the stack, unless it is too old.  The
\* method converts the reply, if there is one.
Return(t) ==
  /\ pc[t] = "return"
  /\ idle' \in {idle, Append(idle, conn[t])}
  /\ permits' = permits + 1
  /\ conn' = [conn EXCEPT ![t] = NoConn]
  /\ result' = [result EXCEPT ![t] = IF ran[t] = <<>> THEN @ ELSE ToPython(call[t].method, ran[t].value)]
  /\ pc' = [pc EXCEPT ![t] = "idle"]
  /\ UNCHANGED <<client, call, ran, store, selected>>

Step(t) == \/ Get(t) \/ Auth(t) \/ SelectDb(t) \/ Execute(t) \/ ExecuteFails(t) \/ Return(t)

Next == \/ New \/ FromUrl
        \/ \E t \in Threads : Call(t) \/ Step(t)

Spec == Init /\ [][Next]_vars

-----------------------------------------------------------------------------
Finished(t) == pc[t] = "idle" /\ ran[t] # <<>>

\* docs/advanced/errors.md, "Exception mapping"
DocumentedException(word) ==
  CASE word = "WRONGTYPE"   -> "WrongTypeError"
    [] word = "READONLY"    -> "ReadOnlyError"
    [] word = "NOSCRIPT"    -> "NoScriptError"
    [] word = "BUSY"        -> "BusyError"
    [] word = "CLUSTERDOWN" -> "ClusterDownError"
    [] OTHER                -> "ResponseError"

(* "Connections are initialized with AUTH + SELECT on creation": until somebody
   calls select(), every command runs in the configured database on an
   authenticated connection, whichever handshakes failed and whichever reads
   timed out before, and so will the next on an idle connection. *)
ConfiguredDb ==
  ~selected =>
    /\ \A t \in Threads : /\ ran[t] # <<>> => ran[t].db = Db
                          /\ pc[t] = "send" => conn[t].authed = Password
    /\ \A k \in DOMAIN idle : idle[k].db = Db /\ idle[k].authed = Password

(* "``True`` if the key was set, ``None`` if not set (NX/XX conditions)": set()
   returns True exactly if the server has set the key by this call, and None
   exactly if it has not because the key was there, unless an earlier read on
   the connection timed out.  (What it returns for an error reply is the matter
   of RaisedAsDocumented.) *)
SetTellsTruth ==
  \A t \in Threads : Finished(t) /\ ran[t].own /\ call[t].method \in {"set", "set_nx"} =>
    /\ result[t] = Ok(<<"bool", TRUE>>) <=> ran[t].wrote
    /\ result[t] = Ok(<<"null">>) <=> ~ran[t].wrote /\ ran[t].value[1] # "error"

(* "RedisError - any Redis server error": an error reply is raised, whichever
   method reads it, as the exception that the table of docs/advanced/errors.md
   names for the message's first word.  The code departs from it in set(),
   which returns False, in ping(), which does too, and for a word that goes on
   where one of the table ends. *)
RaisedAsDocumented ==
  \A t \in Threads : Finished(t) /\ ran[t].value[1] = "error" =>
    result[t] = <<"raise", DocumentedException(ran[t].value[2][1])>>

=============================================================================
