---------------------------- MODULE RedisErrors -----------------------------
(***************************************************************************)
(* Error replies, their kinds and the Python exceptions they become        *)
(* (error.rs).  An error message is the sequence of its words.             *)
(***************************************************************************)
EXTENDS Naturals, Sequences, TLC

StartsWith(word, prefix) == Len(word) >= Len(prefix) /\ SubSeq(word, 1, Len(prefix)) = prefix

\* The words that str::parse::<u16>() accepts.
U16Words == {ToString(n) : n \in 0..65535}

\* RedisErrorKind::Moved and Ask: "MOVED slot addr"
IsRedirect(msg, verb) == Len(msg) >= 3 /\ msg[1] = verb /\ msg[2] \in U16Words

Redirect(kind, msg) == <<kind, msg[2], SubSeq(msg, 3, Len(msg))>>

\* Kinds recognised by what the message begins with.
PrefixKinds ==
  << <<"WRONGTYPE", "WrongType">>, <<"CLUSTERDOWN", "ClusterDown">>, <<"LOADING", "Loading">>,
     <<"READONLY", "ReadOnly">>, <<"NOSCRIPT", "NoScript">>, <<"BUSY", "Busy">>, <<"TRYAGAIN", "TryAgain">>,
     <<"ERR", "Err">> >>

from_error_msg(msg) ==
  LET known == {i \in DOMAIN PrefixKinds : StartsWith(msg[1], PrefixKinds[i][1])}
  IN CASE IsRedirect(msg, "MOVED") -> Redirect("Moved", msg)
       [] IsRedirect(msg, "ASK")   -> Redirect("Ask", msg)
       [] known # {}               -> <<PrefixKinds[CHOOSE i \in known : \A j \in known : i <= j][2]>>
       [] OTHER                    -> <<"Other", msg[1]>>

\* From<PyrsedisError> for PyErr, for PyrsedisError::Redis ...
KindException(kind) ==
  CASE kind[1] = "WrongType"   -> "WrongTypeError"
    [] kind[1] = "ReadOnly"    -> "ReadOnlyError"
    [] kind[1] = "NoScript"    -> "NoScriptError"
    [] kind[1] = "Busy"        -> "BusyError"
    [] kind[1] = "ClusterDown" -> "ClusterDownError"
    [] OTHER                   -> "ResponseError"

\* ... and for the other errors: "Connection", "Type", <<"Redis", kind>> and so on.
PyErr(err) ==
  CASE err[1] = "Redis"      -> KindException(err[2])
    [] err[1] = "Connection" -> "RedisConnectionError"
    [] err[1] \in {"Protocol", "Incomplete"} -> "ProtocolError"
    [] err[1] = "Timeout"    -> "RedisTimeoutError"
    [] err[1] = "Type"       -> "TypeError"
    [] err[1] = "Graph"      -> "GraphError"
    [] err[1] = "Cluster"    -> "ClusterError"
    [] err[1] = "Sentinel"   -> "SentinelError"

\* PyrsedisError::redis
redis(msg) == <<"Redis", from_error_msg(msg)>>
=============================================================================
