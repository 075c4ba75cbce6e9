------------------------------ MODULE KeySlot -------------------------------
(***************************************************************************)
(* From a command to its hash slot: extract_key and is_read_only_command   *)
(* (router/cluster.rs), extract_hash_tag, crc16 and hash_slot (crc16.rs).  *)
(* A command of some form is given a key, byte by byte.                    *)
(*                                                                         *)
(* An argument is a sequence: of bytes if it is a key, of one word         *)
(* otherwise.  Words are compared in upper case.                           *)
(***************************************************************************)
EXTENDS Naturals, Sequences, SequencesExt, FiniteSetsExt, Bitwise

CONSTANTS
  Forms,       \* commands, as [before, after, keyed, writes]: the arguments around
               \* the key, if there is one, and whether the command may write
  Byte,        \* the bytes of keys, each with its code
  MaxKey       \* bound on the length of a key

VARIABLES form, key

vars == <<form, key>>

None == <<"none">>

-----------------------------------------------------------------------------
(* crc16.rs *)

SLOT_COUNT == 16384
POLYNOMIAL == 4129    \* 0x1021

\* One step of the table's inner loop, on u16.
Shift(crc) == LET left == (2 * crc) % 65536 IN IF crc >= 32768 THEN left ^^ POLYNOMIAL ELSE left

CRC16_TABLE ==
  [i \in 0..255 |-> Shift(Shift(Shift(Shift(Shift(Shift(Shift(Shift(i * 256))))))))]

crc16(data) ==
  FoldLeft(LAMBDA crc, b : ((crc * 256) % 65536) ^^ CRC16_TABLE[(crc \div 256) ^^ Byte[b]], 0, data)

\* Mutant of extract_hash_tag: an empty tag counts as a tag.
extract_hash_tag_empty(k) ==
  LET open  == SelectInSeq(k, LAMBDA b : b = "{")
      close == SelectInSubSeq(k, open + 1, Len(k), LAMBDA b : b = "}")
  IN IF open > 0 /\ close > 0 THEN SubSeq(k, open + 1, close - 1) ELSE k

extract_hash_tag(k) ==
  LET open  == SelectInSeq(k, LAMBDA b : b = "{")
      close == SelectInSubSeq(k, open + 1, Len(k), LAMBDA b : b = "}")
  IN IF open > 0 /\ close > open + 1 THEN SubSeq(k, open + 1, close - 1) ELSE k

hash_slot(k) == crc16(extract_hash_tag(k)) % SLOT_COUNT

-----------------------------------------------------------------------------
(* router/cluster.rs *)

KeylessCommands ==
  {"PING", "INFO", "DBSIZE", "CLUSTER", "CONFIG", "CLIENT", "COMMAND", "TIME", "RANDOMKEY", "WAIT", "SAVE",
   "BGSAVE", "BGREWRITEAOF", "FLUSHALL", "FLUSHDB", "LASTSAVE", "SLOWLOG", "DEBUG", "MULTI", "EXEC", "DISCARD",
   "SCRIPT", "SUBSCRIBE", "UNSUBSCRIBE", "PSUBSCRIBE", "PUNSUBSCRIBE", "QUIT"}

ReadOnlyCommands ==
  {"GET", "MGET", "KEYS", "SCAN", "TYPE", "TTL", "PTTL", "EXISTS", "STRLEN", "GETRANGE", "SUBSTR", "HGET",
   "HMGET", "HGETALL", "HKEYS", "HVALS", "HLEN", "HEXISTS", "HSCAN", "HRANDFIELD", "LRANGE", "LLEN", "LINDEX",
   "LPOS", "SMEMBERS", "SCARD", "SISMEMBER", "SMISMEMBER", "SRANDMEMBER", "SSCAN", "SUNION", "SINTER", "SDIFF",
   "ZRANGE", "ZRANGEBYSCORE", "ZRANGEBYLEX", "ZREVRANGE", "ZREVRANGEBYSCORE", "ZREVRANGEBYLEX", "ZCARD",
   "ZSCORE", "ZMSCORE", "ZCOUNT", "ZLEXCOUNT", "ZRANK", "ZREVRANK", "ZRANDMEMBER", "ZSCAN", "XRANGE",
   "XREVRANGE", "XLEN", "XREAD", "XINFO", "OBJECT", "DEBUG", "BITCOUNT", "BITPOS", "GETBIT", "PFCOUNT",
   "GEODIST", "GEOHASH", "GEOPOS", "GEORADIUS_RO", "GEORADIUSBYMEMBER_RO", "GEOSEARCH", "GRAPH.RO_QUERY"}

\* The first key of a command; the number of keys of an EVAL is "0" or more.
extract_key(args) ==
  LET cmd     == args[1][1]
      streams == SelectInSeq(args, LAMBDA a : a = <<"STREAMS">>)
  IN CASE cmd \in KeylessCommands -> None
       [] cmd \in {"EVAL", "EVALSHA"} -> IF Len(args) >= 4 /\ args[3] # <<"0">> THEN args[4] ELSE None
       [] cmd \in {"XREAD", "XREADGROUP"} -> IF streams > 0 /\ streams < Len(args) THEN args[streams + 1] ELSE None
       [] OTHER -> IF Len(args) >= 2 THEN args[2] ELSE None

\* May the command go to a replica (is_read_only_command)?
ReadOnly(args) == args[1][1] \in ReadOnlyCommands

-----------------------------------------------------------------------------
Args == form.before \o (IF form.keyed THEN <<key>> ELSE <<>>) \o form.after

Init == /\ form \in Forms
        /\ key \in {<<b>> : b \in DOMAIN Byte}

TypeKey == /\ form.keyed
           /\ Len(key) < MaxKey
           /\ \E b \in DOMAIN Byte : key' = Append(key, b)
           /\ UNCHANGED form

Spec == Init /\ [][TypeKey]_vars

-----------------------------------------------------------------------------
(* References: long division of the key's bits, followed by 16 zeros, by
   x^16 + x^12 + x^5 + 1; and the hash tag by its definition. *)

Bits(data) ==
  [i \in 1..(8 * Len(data)) |-> (Byte[data[((i - 1) \div 8) + 1]] \div (2^(7 - ((i - 1) % 8)))) % 2]

Remainder(data) ==
  LET n == 8 * Len(data)
      divide(bits, i) == IF bits[i] = 0 THEN bits
                         ELSE [j \in DOMAIN bits |-> IF j - i \in {0, 4, 11, 16} THEN 1 - bits[j] ELSE bits[j]]
      rest == FoldLeft(divide, Bits(data) \o [i \in 1..16 |-> 0], [i \in 1..n |-> i])
  IN MapThenSumSet(LAMBDA j : rest[n + j] * 2^(16 - j), 1..16)

IsTag(tag, k) ==
  /\ tag # <<>> /\ ~Contains(tag, "}")
  /\ \E i \in 1..(Len(k) - Len(tag) - 1) : /\ ~Contains(SubSeq(k, 1, i - 1), "{")
                                           /\ SubSeq(k, i, i + Len(tag) + 1) = <<"{">> \o tag \o <<"}">>

HashedPart == IF \E i, j \in 1..Len(key) : IsTag(SubSeq(key, i, j), key)
              THEN CHOOSE tag \in {SubSeq(key, i, j) : i, j \in 1..Len(key)} : IsTag(tag, key)
              ELSE key

(* "Most commands have the key at args[1]. Commands with special key positions
   are handled here": of the commands that have their key right after the name,
   after the number of keys (scripts) or after STREAMS, and of those without one
   that extract_key lists, it finds the key and takes nothing else for it, and no
   command that may write, a script or a read that advances a consumer group
   included, counts as one that a replica can answer.  The table-driven CRC over
   the extracted tag is the CRC16-XMODEM remainder of the key's hash tag, so that
   the client and the servers agree on the slot of every key, empty, unclosed and
   nested braces included. *)
CommandsRouted ==
  /\ extract_key(Args) = IF form.keyed THEN key ELSE None
  /\ form.writes => ~ReadOnly(Args)
  /\ hash_slot(key) = Remainder(HashedPart) % SLOT_COUNT

=============================================================================
