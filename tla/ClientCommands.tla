--------------------------- MODULE ClientCommands ---------------------------
(***************************************************************************)
(* The commands that the methods of Redis send and those that the methods  *)
(* of Pipeline queue (client.rs).                                          *)
(*                                                                         *)
(* The argument passed for a string parameter is the parameter's name.     *)
(* A call [method, given, rest, n, m] says which optional parameters and   *)
(* flags are given, what is passed for a variadic one, and which numbers.  *)
(***************************************************************************)
EXTENDS Naturals, Sequences, TLC

CONSTANTS
  Rests,       \* arguments for a variadic parameter, or members of a dict
  MaxRest,     \* bound on their number
  Numbers      \* numeric arguments

VARIABLE call

If(given, words) == IF given THEN words ELSE <<>>

-----------------------------------------------------------------------------
(* Redis *)

set(c) == <<"SET", "name", "value">>
          \o If("ex" \in c.given, <<"EX", ToString(c.n)>>)
          \o If("px" \in c.given, <<"PX", ToString(c.m)>>)
          \o If("nx" \in c.given, <<"NX">>)
          \o If("xx" \in c.given, <<"XX">>)

BasicCommand(c) ==
  CASE c.method = "get"    -> <<"GET", "name">>
    [] c.method = "delete" -> <<"DEL">> \o c.rest
    [] c.method = "exists" -> <<"EXISTS">> \o c.rest
    [] c.method = "expire" -> <<"EXPIRE", "name", ToString(c.n)>>
    [] c.method = "ttl"    -> <<"TTL", "name">>
    [] c.method = "incr"   -> <<"INCR", "name">>
    [] c.method = "decr"   -> <<"DECR", "name">>
    [] c.method = "incrby" -> <<"INCRBY", "name", ToString(c.n)>>
    [] c.method = "mget"   -> <<"MGET">> \o c.rest
    [] c.method = "mset"   -> <<"MSET">> \o [i \in 1..(2 * Len(c.rest)) |->
                                               IF i % 2 = 1 THEN c.rest[(i + 1) \div 2] ELSE "value"]

HashCommand(c) ==
  CASE c.method = "hset"         -> <<"HSET", "name", "key", "value">>
    [] c.method = "hget"         -> <<"HGET", "name", "key">>
    [] c.method = "hgetall"      -> <<"HGETALL", "name">>
    [] c.method = "hdel"         -> <<"HDEL", "name">> \o c.rest
    [] c.method = "hexists"      -> <<"HEXISTS", "name", "key">>
    [] c.method = "hkeys"        -> <<"HKEYS", "name">>
    [] c.method = "hvals"        -> <<"HVALS", "name">>
    [] c.method = "hlen"         -> <<"HLEN", "name">>
    [] c.method = "hincrby"      -> <<"HINCRBY", "name", "key", ToString(c.n)>>
    [] c.method = "hincrbyfloat" -> <<"HINCRBYFLOAT", "name", "key", ToString(c.n)>>
    [] c.method = "hsetnx"       -> <<"HSETNX", "name", "key", "value">>
    [] c.method = "hmget"        -> <<"HMGET", "name">> \o c.rest

ListCommand(c) ==
  CASE c.method = "lpush"  -> <<"LPUSH", "name">> \o c.rest
    [] c.method = "rpush"  -> <<"RPUSH", "name">> \o c.rest
    [] c.method = "lrange" -> <<"LRANGE", "name", ToString(c.n), ToString(c.m)>>
    [] c.method = "llen"   -> <<"LLEN", "name">>
    [] c.method = "lpop"   -> <<"LPOP", "name">> \o If("count" \in c.given, <<ToString(c.n)>>)
    [] c.method = "rpop"   -> <<"RPOP", "name">> \o If("count" \in c.given, <<ToString(c.n)>>)
    [] c.method = "lindex" -> <<"LINDEX", "name", ToString(c.n)>>
    [] c.method = "lset"   -> <<"LSET", "name", ToString(c.n), "value">>
    [] c.method = "lrem"   -> <<"LREM", "name", ToString(c.n), "value">>

SetCommand(c) ==
  CASE c.method = "sadd"      -> <<"SADD", "name">> \o c.rest
    [] c.method = "smembers"  -> <<"SMEMBERS", "name">>
    [] c.method = "scard"     -> <<"SCARD", "name">>
    [] c.method = "srem"      -> <<"SREM", "name">> \o c.rest
    [] c.method = "sismember" -> <<"SISMEMBER", "name", "value">>
    [] c.method = "spop"      -> <<"SPOP", "name">> \o If("count" \in c.given, <<ToString(c.n)>>)
    [] c.method = "sinter"    -> <<"SINTER">> \o c.rest
    [] c.method = "sunion"    -> <<"SUNION">> \o c.rest
    [] c.method = "sdiff"     -> <<"SDIFF">> \o c.rest

zadd(c) ==
  <<"ZADD", "name">>
  \o If("nx" \in c.given, <<"NX">>) \o If("xx" \in c.given, <<"XX">>)
  \o If("gt" \in c.given, <<"GT">>) \o If("lt" \in c.given, <<"LT">>)
  \o If("ch" \in c.given, <<"CH">>)
  \o [i \in 1..(2 * Len(c.rest)) |-> IF i % 2 = 1 THEN ToString(c.n) ELSE c.rest[i \div 2]]

SortedSetCommand(c) ==
  CASE c.method = "zadd"    -> zadd(c)
    [] c.method = "zrem"    -> <<"ZREM", "name">> \o c.rest
    [] c.method = "zscore"  -> <<"ZSCORE", "name", "member">>
    [] c.method = "zrank"   -> <<"ZRANK", "name", "member">>
    [] c.method = "zcard"   -> <<"ZCARD", "name">>
    [] c.method = "zcount"  -> <<"ZCOUNT", "name", "min", "max">>
    [] c.method = "zincrby" -> <<"ZINCRBY", "name", ToString(c.n), "member">>

SortedRange(c) ==
  LET scores == If("withscores" \in c.given, <<"WITHSCORES">>)
      limit  == If({"offset", "count"} \subseteq c.given, <<"LIMIT", ToString(c.n), ToString(c.m)>>)
  IN CASE c.method = "zrange"           -> <<"ZRANGE", "name", ToString(c.n), ToString(c.m)>> \o scores
       [] c.method = "zrevrange"        -> <<"ZREVRANGE", "name", ToString(c.n), ToString(c.m)>> \o scores
       [] c.method = "zrangebyscore"    -> <<"ZRANGEBYSCORE", "name", "min", "max">> \o scores \o limit
       [] c.method = "zremrangebyscore" -> <<"ZREMRANGEBYSCORE", "name", "min", "max">>
       [] c.method = "zremrangebyrank"  -> <<"ZREMRANGEBYRANK", "name", ToString(c.n), ToString(c.m)>>

KeyCommand(c) ==
  CASE c.method = "rename"  -> <<"RENAME", "src", "dst">>
    [] c.method = "persist" -> <<"PERSIST", "name">>
    [] c.method = "pexpire" -> <<"PEXPIRE", "name", ToString(c.n)>>
    [] c.method = "pttl"    -> <<"PTTL", "name">>
    [] c.method = "scan"    -> <<"SCAN", ToString(c.n)>>
                               \o If("match" \in c.given, <<"MATCH", "match_pattern">>)
                               \o If("count" \in c.given, <<"COUNT", ToString(c.m)>>)

StringCommand(c) ==
  CASE c.method = "append"      -> <<"APPEND", "name", "value">>
    [] c.method = "strlen"      -> <<"STRLEN", "name">>
    [] c.method = "getrange"    -> <<"GETRANGE", "name", ToString(c.n), ToString(c.m)>>
    [] c.method = "getset"      -> <<"GETSET", "name", "value">>
    [] c.method = "getdel"      -> <<"GETDEL", "name">>
    [] c.method = "setnx"       -> <<"SETNX", "name", "value">>
    [] c.method = "setex"       -> <<"SETEX", "name", ToString(c.n), "value">>
    [] c.method = "incrbyfloat" -> <<"INCRBYFLOAT", "name", ToString(c.n)>>
    [] c.method = "decrby"      -> <<"DECRBY", "name", ToString(c.n)>>

ScriptCommand(c) ==
  CASE c.method = "eval"        -> <<"EVAL", "script", ToString(c.n)>> \o c.rest
    [] c.method = "evalsha"     -> <<"EVALSHA", "sha", ToString(c.n)>> \o c.rest
    [] c.method = "script_load" -> <<"SCRIPT", "LOAD", "script">>

GraphCommand(c) ==
  LET timeout == If("timeout" \in c.given, <<"timeout " \o ToString(c.n)>>)
  IN CASE c.method = "graph_query"    -> <<"GRAPH.QUERY", "graph", "query", "--compact">> \o timeout
       [] c.method = "graph_ro_query" -> <<"GRAPH.RO_QUERY", "graph", "query", "--compact">> \o timeout
       [] c.method = "graph_delete"   -> <<"GRAPH.DELETE", "graph">>
       [] c.method = "graph_list"     -> <<"GRAPH.LIST">>
       [] c.method = "graph_explain"  -> <<"GRAPH.EXPLAIN", "graph", "query">>
       [] c.method = "graph_profile"  -> <<"GRAPH.PROFILE", "graph", "query">>
       [] c.method = "graph_slowlog"  -> <<"GRAPH.SLOWLOG", "graph">>
       [] c.method = "graph_config"   -> <<"GRAPH.CONFIG", "action", "name">> \o If("value" \in c.given, <<"value">>)

ServerCommand(c) ==
  CASE c.method = "ping"      -> <<"PING">>
    [] c.method = "select"    -> <<"SELECT", ToString(c.n)>>
    [] c.method = "flushall"  -> <<"FLUSHALL">>
    [] c.method = "randomkey" -> <<"RANDOMKEY">>
    [] c.method = "lastsave"  -> <<"LASTSAVE">>
    [] c.method = "echo"      -> <<"ECHO", "message">>
    [] c.method = "publish"   -> <<"PUBLISH", "channel", "message">>
    [] c.method = "expireat"  -> <<"EXPIREAT", "name", ToString(c.n)>>
    [] c.method = "dump"      -> <<"DUMP", "name">>
    [] c.method = "unlink"    -> <<"UNLINK">> \o c.rest
    [] c.method = "time"      -> <<"TIME">>
    [] c.method = "keys"      -> <<"KEYS", "pattern">>
    [] c.method = "flushdb"   -> <<"FLUSHDB">>
    [] c.method = "info"      -> <<"INFO">> \o If("section" \in c.given, <<"section">>)
    [] c.method = "dbsize"    -> <<"DBSIZE">>
    [] c.method = "key_type"  -> <<"TYPE", "name">>

-----------------------------------------------------------------------------
(* Which section of client.rs defines a method, and the optional parameters
   it has. *)

Basic  == {"get", "delete", "exists", "expire", "ttl", "incr", "decr", "incrby", "mget", "mset"}
Hash   == {"hset", "hget", "hgetall", "hdel", "hexists", "hkeys", "hvals", "hlen", "hincrby", "hincrbyfloat",
           "hsetnx", "hmget"}
List   == {"lpush", "rpush", "lrange", "llen", "lpop", "rpop", "lindex", "lset", "lrem"}
Sets   == {"sadd", "smembers", "scard", "srem", "sismember", "spop", "sinter", "sunion", "sdiff"}
Sorted == {"zadd", "zrem", "zscore", "zrank", "zcard", "zcount", "zincrby"}
Ranges == {"zrange", "zrevrange", "zrangebyscore", "zremrangebyscore", "zremrangebyrank"}
Key    == {"rename", "persist", "pexpire", "pttl", "scan"}
Str    == {"append", "strlen", "getrange", "getset", "getdel", "setnx", "setex", "incrbyfloat", "decrby"}
Script == {"eval", "evalsha", "script_load"}
Graph  == {"graph_query", "graph_ro_query", "graph_delete", "graph_list", "graph_explain", "graph_profile",
           "graph_slowlog", "graph_config"}
Server == {"ping", "select", "flushall", "randomkey", "lastsave", "echo", "publish", "expireat", "dump",
           "unlink", "time", "keys", "flushdb", "info", "dbsize", "key_type"}

RedisMethods == {"set"} \cup Basic \cup Hash \cup List \cup Sets \cup Sorted \cup Ranges \cup Key \cup Str
                \cup Script \cup Graph \cup Server

Variadic == {"delete", "exists", "mget", "mset", "hdel", "hmget", "lpush", "rpush", "sadd", "srem", "sinter",
             "sunion", "sdiff", "zadd", "zrem", "eval", "evalsha", "unlink"}

Options(method) ==
  CASE method = "set" -> {"ex", "px", "nx", "xx"}
    [] method \in {"lpop", "rpop", "spop"} -> {"count"}
    [] method = "zadd" -> {"nx", "xx", "gt", "lt", "ch"}
    [] method \in {"zrange", "zrevrange"} -> {"withscores"}
    [] method = "zrangebyscore" -> {"withscores", "offset", "count"}
    [] method = "scan" -> {"match", "count"}
    [] method \in {"graph_query", "graph_ro_query"} -> {"timeout"}
    [] method = "graph_config" -> {"value"}
    [] method = "info" -> {"section"}
    [] OTHER -> {}

RedisCommand(c) ==
  CASE c.method = "set"    -> set(c)
    [] c.method \in Basic  -> BasicCommand(c)
    [] c.method \in Hash   -> HashCommand(c)
    [] c.method \in List   -> ListCommand(c)
    [] c.method \in Sets   -> SetCommand(c)
    [] c.method \in Sorted -> SortedSetCommand(c)
    [] c.method \in Ranges -> SortedRange(c)
    [] c.method \in Key    -> KeyCommand(c)
    [] c.method \in Str    -> StringCommand(c)
    [] c.method \in Script -> ScriptCommand(c)
    [] c.method \in Graph  -> GraphCommand(c)
    [] c.method \in Server -> ServerCommand(c)

-----------------------------------------------------------------------------
(* Pipeline *)

PipelineBasic(c) ==
  CASE c.method = "ping"   -> <<"PING">>
    [] c.method = "set"    -> <<"SET", "name", "value">>
                              \o If("ex" \in c.given, <<"EX", ToString(c.n)>>)
                              \o If("px" \in c.given, <<"PX", ToString(c.m)>>)
                              \o If("nx" \in c.given, <<"NX">>) \o If("xx" \in c.given, <<"XX">>)
    [] c.method = "get"    -> <<"GET", "name">>
    [] c.method = "delete" -> <<"DEL">> \o c.rest
    [] c.method = "exists" -> <<"EXISTS">> \o c.rest
    [] c.method = "expire" -> <<"EXPIRE", "name", ToString(c.n)>>
    [] c.method = "ttl"    -> <<"TTL", "name">>
    [] c.method = "incr"   -> <<"INCR", "name">>
    [] c.method = "decr"   -> <<"DECR", "name">>

PipelineCollections(c) ==
  CASE c.method = "hset"      -> <<"HSET", "name", "key", "value">>
    [] c.method = "hget"      -> <<"HGET", "name", "key">>
    [] c.method = "hgetall"   -> <<"HGETALL", "name">>
    [] c.method = "lpush"     -> <<"LPUSH", "name">> \o c.rest
    [] c.method = "rpush"     -> <<"RPUSH", "name">> \o c.rest
    [] c.method = "lrange"    -> <<"LRANGE", "name", ToString(c.n), ToString(c.m)>>
    [] c.method = "sadd"      -> <<"SADD", "name">> \o c.rest
    [] c.method = "smembers"  -> <<"SMEMBERS", "name">>
    [] c.method = "scard"     -> <<"SCARD", "name">>
    [] c.method = "srem"      -> <<"SREM", "name">> \o c.rest
    [] c.method = "sismember" -> <<"SISMEMBER", "name", "value">>

\* Mutant of PipelineSorted: the scores are asked for before the range.
PipelineSortedSwapped(c) ==
  CASE c.method = "zscore"  -> <<"ZSCORE", "name", "member">>
    [] c.method = "zrank"   -> <<"ZRANK", "name", "member">>
    [] c.method = "zcard"   -> <<"ZCARD", "name">>
    [] c.method = "zrem"    -> <<"ZREM", "name">> \o c.rest
    [] c.method = "zincrby" -> <<"ZINCRBY", "name", ToString(c.n), "member">>
    [] c.method = "zrange"  -> <<"ZRANGE", "name">> \o If("withscores" \in c.given, <<"WITHSCORES">>)
                               \o <<ToString(c.n), ToString(c.m)>>

PipelineSorted(c) ==
  CASE c.method = "zscore"  -> <<"ZSCORE", "name", "member">>
    [] c.method = "zrank"   -> <<"ZRANK", "name", "member">>
    [] c.method = "zcard"   -> <<"ZCARD", "name">>
    [] c.method = "zrem"    -> <<"ZREM", "name">> \o c.rest
    [] c.method = "zincrby" -> <<"ZINCRBY", "name", ToString(c.n), "member">>
    [] c.method = "zrange"  -> <<"ZRANGE", "name", ToString(c.n), ToString(c.m)>>
                               \o If("withscores" \in c.given, <<"WITHSCORES">>)

PipelineMore(c) ==
  CASE c.method = "lpop"     -> <<"LPOP", "name">> \o If("count" \in c.given, <<ToString(c.n)>>)
    [] c.method = "rpop"     -> <<"RPOP", "name">> \o If("count" \in c.given, <<ToString(c.n)>>)
    [] c.method = "llen"     -> <<"LLEN", "name">>
    [] c.method = "lindex"   -> <<"LINDEX", "name", ToString(c.n)>>
    [] c.method = "hexists"  -> <<"HEXISTS", "name", "key">>
    [] c.method = "hlen"     -> <<"HLEN", "name">>
    [] c.method = "hkeys"    -> <<"HKEYS", "name">>
    [] c.method = "hvals"    -> <<"HVALS", "name">>
    [] c.method = "hdel"     -> <<"HDEL", "name">> \o c.rest
    [] c.method = "hmget"    -> <<"HMGET", "name">> \o c.rest
    [] c.method = "hincrby"  -> <<"HINCRBY", "name", "key", ToString(c.n)>>
    [] c.method = "rename"   -> <<"RENAME", "src", "dst">>
    [] c.method = "persist"  -> <<"PERSIST", "name">>
    [] c.method = "key_type" -> <<"TYPE", "name">>
    [] c.method = "unlink"   -> <<"UNLINK">> \o c.rest
    [] c.method = "append"   -> <<"APPEND", "name", "value">>
    [] c.method = "strlen"   -> <<"STRLEN", "name">>
    [] c.method = "setnx"    -> <<"SETNX", "name", "value">>
    [] c.method = "incrby"   -> <<"INCRBY", "name", ToString(c.n)>>
    [] c.method = "decrby"   -> <<"DECRBY", "name", ToString(c.n)>>

PipelineServer(c) ==
  LET timeout == If("timeout" \in c.given, <<"timeout " \o ToString(c.n)>>)
  IN CASE c.method = "graph_query"    -> <<"GRAPH.QUERY", "graph", "query", "--compact">> \o timeout
       [] c.method = "graph_ro_query" -> <<"GRAPH.RO_QUERY", "graph", "query", "--compact">> \o timeout
       [] c.method = "graph_delete"   -> <<"GRAPH.DELETE", "graph">>
       [] c.method = "graph_list"     -> <<"GRAPH.LIST">>
       [] c.method = "flushdb"        -> <<"FLUSHDB">>
       [] c.method = "flushall"       -> <<"FLUSHALL">>
       [] c.method = "dbsize"         -> <<"DBSIZE">>
       [] c.method = "echo"           -> <<"ECHO", "message">>
       [] c.method = "publish"        -> <<"PUBLISH", "channel", "message">>
       [] c.method = "time"           -> <<"TIME">>

PBasic  == {"ping", "set", "get", "delete", "exists", "expire", "ttl", "incr", "decr"}
PColls  == {"hset", "hget", "hgetall", "lpush", "rpush", "lrange", "sadd", "smembers", "scard", "srem", "sismember"}
PSorted == {"zscore", "zrank", "zcard", "zrem", "zincrby", "zrange"}
PMore   == {"lpop", "rpop", "llen", "lindex", "hexists", "hlen", "hkeys", "hvals", "hdel", "hmget", "hincrby",
            "rename", "persist", "key_type", "unlink", "append", "strlen", "setnx", "incrby", "decrby"}
PServer == {"graph_query", "graph_ro_query", "graph_delete", "graph_list", "flushdb", "flushall", "dbsize",
            "echo", "publish", "time"}

PipelineMethods == PBasic \cup PColls \cup PSorted \cup PMore \cup PServer

PipelineCommand(c) ==
  CASE c.method \in PBasic  -> PipelineBasic(c)
    [] c.method \in PColls  -> PipelineCollections(c)
    [] c.method \in PSorted -> PipelineSorted(c)
    [] c.method \in PMore   -> PipelineMore(c)
    [] c.method \in PServer -> PipelineServer(c)

-----------------------------------------------------------------------------
(* A caller writes a call: the method with its required arguments, then an
   optional or a further variadic argument at a time. *)

Init == \E method \in RedisMethods, n, m \in Numbers :
          call = [method |-> method, given |-> {}, rest |-> <<>>, n |-> n, m |-> m]

Give == \E option \in Options(call.method) \ call.given : call' = [call EXCEPT !.given = @ \cup {option}]

PassOne == /\ call.method \in Variadic
           /\ Len(call.rest) < MaxRest
           /\ \E arg \in Rests : /\ call.method \in {"mset", "zadd"} => \A i \in DOMAIN call.rest : call.rest[i] # arg
                                 /\ call' = [call EXCEPT !.rest = Append(@, arg)]

Next == Give \/ PassOne

Spec == Init /\ [][Next]_call

-----------------------------------------------------------------------------
(* "Convenience commands (mirror Redis methods)": a method of Pipeline queues
   the command that the method of Redis with that name and those arguments
   sends.  The two are written separately. *)
MirrorsRedis == call.method \in PipelineMethods => PipelineCommand(call) = RedisCommand(call)

=============================================================================
