------------------------------ MODULE Response ------------------------------
(***************************************************************************)
(* Conversion of replies to Python objects: response.rs.  resp_to_python   *)
(* converts a parsed RespValue; parse_to_python, which the client uses,    *)
(* parses a raw frame and builds the objects in one pass.                  *)
(*                                                                         *)
(* A Python object is a pair of its type and its content; <<"raise", e>>   *)
(* stands for the exception e.  A dict is a set of pairs without its       *)
(* order, a float the text it was read from.  Reference counts are left    *)
(* out.                                                                    *)
(***************************************************************************)
EXTENDS Resp

CONSTANTS MAX_RESP_ELEMENTS, MAX_PARSE_DEPTH, MAX_BIGNUMBER_LEN

ASSUME ResponseAssumption ==
  {MAX_RESP_ELEMENTS, MAX_PARSE_DEPTH, MAX_BIGNUMBER_LEN} \subseteq Nat

PyNone == <<"None", <<>>>>
RaiseRedis    == <<"raise", "redis">>
RaiseProtocol == <<"raise", "protocol">>
RaiseType     == <<"raise", "type">>

Raises(o)   == o[1] = "raise"
Hashable(o) == o[1] \notin {"list", "dict", "set"}

\* int(s), for a validated text.
PyInt(s) ==
  LET n == FoldLeft(LAMBDA a, b : 10 * a + DigitOf[b], 0, Unsigned(s))
  IN <<"int", IF Head(s) = "-" THEN -n ELSE n>>

\* PyString, or PyBytes for data that is not UTF-8 or not to be decoded.
PyText(data, decode) == IF decode /\ Utf8(data) THEN <<"str", data>> ELSE <<"bytes", data>>

-----------------------------------------------------------------------------
(* Containers, from the objects of their elements in order.  The first      *)
(* element that raises ends the conversion, and an unhashable key raises.   *)

PyListOf(items) ==
  IF \E i \in DOMAIN items : Raises(items[i])
  THEN items[SelectInSeq(items, Raises)]
  ELSE <<"list", items>>

PySetOf(items) ==
  FoldLeft(LAMBDA acc, o : IF Raises(acc) THEN acc
                           ELSE IF Raises(o) THEN o
                           ELSE IF Hashable(o) THEN <<"set", acc[2] \cup {o}>> ELSE RaiseType,
           <<"set", {}>>, items)

\* items lists keys and values alternately; a later key replaces an earlier one.
PyDictOf(items) ==
  LET put(acc, k, v) == <<"dict", {p \in acc[2] : p[1] # k} \cup {<<k, v>>}>>
      step(acc, i) ==
        IF Raises(acc) THEN acc
        ELSE IF Raises(items[2 * i - 1]) THEN items[2 * i - 1]
        ELSE IF Raises(items[2 * i]) THEN items[2 * i]
        ELSE IF Hashable(items[2 * i - 1]) THEN put(acc, items[2 * i - 1], items[2 * i])
        ELSE RaiseType
  IN FoldLeft(step, <<"dict", {}>>, [i \in 1..((Len(items) + 1) \div 2) |-> i])

PyAttributeOf(attrs, data) ==
  <<"dict", {<< <<"str", <<"__attrs__">>>>, attrs>>, << <<"str", <<"__data__">>>>, data>>}>>

-----------------------------------------------------------------------------
(* The two-pass path. *)

RECURSIVE resp_to_python(_, _)

\* The scalars, which resp_to_python_decoded leaves to resp_to_python except
\* for bulk strings.
ScalarToPython(value, decode) ==
  LET v == value[2]
  IN CASE value[1] = "simple"                 -> <<"str", v>>
       [] value[1] = "bulk"                   -> PyText(v, decode)
       [] value[1] = "int"                    -> <<"int", v>>
       [] value[1] = "null"                   -> PyNone
       [] value[1] \in {"error", "bulkerror"} -> RaiseRedis
       [] value[1] = "bool"                   -> <<"bool", v>>
       [] value[1] = "double"                 -> <<"float", v>>
       [] value[1] = "big"                    -> PyInt(v)
       [] value[1] = "verbatim"               -> <<"str", SubSeq(v, 5, Len(v))>>

\* resp_to_python and, with decode, resp_to_python_decoded.
resp_to_python(value, decode) ==
  LET v     == value[2]
      items == [i \in DOMAIN v |-> resp_to_python(v[i], decode)]
  IN CASE value[1] = "array" -> PyListOf(items)
       [] value[1] = "push"  -> PyListOf(Tail(items))
       [] value[1] = "set"   -> PySetOf(items)
       [] value[1] = "map"   -> PyDictOf(items)
       [] value[1] = "attr"  -> LET data  == Last(items)
                                    attrs == PyDictOf(Front(items))
                                IN IF Raises(data) THEN data
                                   ELSE IF Raises(attrs) THEN attrs
                                   ELSE PyAttributeOf(attrs, data)
       [] OTHER -> ScalarToPython(value, decode)

-----------------------------------------------------------------------------
(* The single pass. *)

\* fused_parse_int: wrapping arithmetic on validated digits.
fused_parse_int(bytes) ==
  LET n == FoldLeft(LAMBDA a, b : Wrap(10 * a + DigitOf[b]), 0, Unsigned(bytes))
  IN IF AllDigits(Unsigned(bytes))
     THEN Ok(IF Head(bytes) = "-" THEN Wrap(-n) ELSE n, 0)
     ELSE Protocol

\* fused_find_crlf scans short lines byte by byte and finds what find_crlf finds.
fused_read_line(buf, offset) == read_line(buf, offset)

\* fused_read_line followed by fused_parse_int.
FusedInt(buf, pos) ==
  Then(fused_read_line(buf, pos), LAMBDA line : Then(fused_parse_int(line.v), LAMBDA n : Ok(n.v, line.next)))

\* The ? operator: whatever is wrong with the frame at pos is raised.
FusedThen(r, pos, Rest(_)) == IF IsOk(r) THEN Rest(r) ELSE Ok(RaiseProtocol, pos)

validated_count(n) == n \in 0..MAX_RESP_ELEMENTS

\* Line frames: + - : , (
FusedLine(buf, pos) ==
  LET IntOf(n) == IF IsOk(n) THEN <<"int", n.v>> ELSE RaiseProtocol
      ObjectOf(line) ==
        CASE buf[pos] = "+" -> IF Utf8(line) THEN <<"str", line>> ELSE RaiseProtocol
          [] buf[pos] = "-" -> RaiseRedis
          [] buf[pos] = ":" -> IntOf(fused_parse_int(line))
          [] buf[pos] = "," -> IF IsDouble(line) THEN <<"float", line>> ELSE RaiseProtocol
          [] buf[pos] = "(" -> IF Len(line) > MAX_BIGNUMBER_LEN THEN RaiseProtocol
                               ELSE IF AllDigits(Unsigned(line)) THEN PyInt(line) ELSE <<"raise", "value">>
  IN FusedThen(fused_read_line(buf, pos + 1), pos, LAMBDA line : Ok(ObjectOf(line.v), line.next))

\* Length-prefixed frames: $ ! =
FusedBlob(buf, pos, decode) ==
  LET Text(data) == IF Len(data) > 4 /\ data[4] = ":" THEN SubSeq(data, 5, Len(data)) ELSE data
      ObjectOf(data) ==
        CASE buf[pos] = "$" -> PyText(data, decode)
          [] buf[pos] = "!" -> RaiseRedis
          [] buf[pos] = "=" -> IF Utf8(Text(data)) THEN <<"str", Text(data)>> ELSE RaiseProtocol
      Of(len) ==
        LET total == len.next + len.v + 2
        IN IF len.v < 0 THEN Ok(IF buf[pos] = "$" THEN PyNone ELSE RaiseProtocol, len.next)
           ELSE IF Len(buf) < total - 1 THEN Ok(RaiseProtocol, pos)
           ELSE Ok(ObjectOf(SubSeq(buf, len.next, total - 3)), total)
  IN FusedThen(FusedInt(buf, pos + 1), pos, Of)

\* Fixed frames: _ #
FusedFixed(buf, pos) ==
  LET n == IF buf[pos] = "_" THEN 3 ELSE 4
  IN IF Len(buf) < pos + n - 1 THEN Ok(RaiseProtocol, pos)
     ELSE Ok(IF n = 3 THEN PyNone ELSE <<"bool", buf[pos + 1] = "t">>, pos + n)

RECURSIVE parse_inner(_, _, _, _), FusedItems(_, _, _, _, _)

\* The objects of count values, up to the first that raises; build_pylist_ffi
\* and the loops of the other containers.
FusedItems(buf, pos, count, depth, decode) ==
  LET Items(first, rest) == Ok(<<first.v>> \o rest.v, rest.next)
      From(first) == IF Raises(first.v) THEN Ok(<<first.v>>, first.next)
                     ELSE Items(first, FusedItems(buf, first.next, count - 1, depth, decode))
  IN IF count <= 0 THEN Ok(<<>>, pos) ELSE From(parse_inner(buf, pos, depth, decode))

\* Containers: * > ~ % |
FusedContainer(buf, pos, depth, decode) ==
  LET t == buf[pos]
      First(attrs, data) == IF Raises(attrs) THEN attrs ELSE IF Raises(data) THEN data ELSE PyAttributeOf(attrs, data)
      Build(n, objs) == CASE t \in {"*", ">"} -> PyListOf(objs)
                          [] t = "~" -> PySetOf(objs)
                          [] t = "%" -> PyDictOf(objs)
                          [] t = "|" -> First(PyDictOf(SubSeq(objs, 1, Min({2 * n, Len(objs)}))), Last(objs))
      Count(n) == CASE t \in {"*", ">", "~"} -> n [] t = "%" -> 2 * n [] t = "|" -> 2 * n + 1
      Built(n, items) == Ok(Build(n, items.v), items.next)
      Of(n) == IF t = "*" /\ n.v < 0 THEN Ok(PyNone, n.next)
               ELSE IF ~validated_count(n.v) THEN Ok(RaiseProtocol, pos)
               ELSE Built(n.v, FusedItems(buf, n.next, Count(n.v), depth + 1, decode))
  IN FusedThen(FusedInt(buf, pos + 1), pos, Of)

parse_inner(buf, pos, depth, decode) ==
  IF depth > MAX_PARSE_DEPTH \/ pos > Len(buf) THEN Ok(RaiseProtocol, pos)
  ELSE CASE buf[pos] \in {"+", "-", ":", ",", "("} -> FusedLine(buf, pos)
         [] buf[pos] \in {"$", "!", "="}           -> FusedBlob(buf, pos, decode)
         [] buf[pos] \in {"_", "#"}                -> FusedFixed(buf, pos)
         [] buf[pos] \in {"*", ">", "~", "%", "|"} -> FusedContainer(buf, pos, depth, decode)
         [] OTHER                                  -> Ok(RaiseProtocol, pos)

parse_to_python(buf, decode) == parse_inner(buf, 1, 0, decode)

=============================================================================
