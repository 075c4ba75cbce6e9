-------------------------------- MODULE Resp --------------------------------
(***************************************************************************)
(* RESP2/RESP3 framing: resp/parser.rs, resp/writer.rs and the accessors   *)
(* of resp/types.rs.                                                       *)
(*                                                                         *)
(* A byte is a string of one character; CR, LF and Bad (a byte that is not *)
(* valid UTF-8) have names.  A buffer is a sequence of bytes and a parser  *)
(* takes the position at which its frame starts, where the code slices the *)
(* buffer.  A result is ok with a value and the position after it,         *)
(* incomplete, or a protocol error; the error texts are left out.          *)
(*                                                                         *)
(* A RespValue is a pair of its variant's name and its content.  Maps and  *)
(* attributes list keys and values alternately.  i64 has IntBits bits.     *)
(***************************************************************************)
EXTENDS Integers, Sequences, FiniteSetsExt, SequencesExt

CONSTANT IntBits

ASSUME IntBitsAssumption == IntBits \in 5..31

CR  == "CR"
LF  == "LF"
Bad == "x80"

IntMin == -(2^(IntBits - 1))
IntMax == 2^(IntBits - 1) - 1

\* i64 arithmetic of a release build, which wraps; a debug build panics.
Wrap(n) == ((n - IntMin) % (2^IntBits)) + IntMin

DigitSeq == <<"0", "1", "2", "3", "4", "5", "6", "7", "8", "9">>
Digits   == ToSet(DigitSeq)
DigitOf  == [b \in Digits |-> (CHOOSE i \in 1..10 : DigitSeq[i] = b) - 1]
Signs    == {"+", "-"}

Utf8(bytes) == Bad \notin ToSet(bytes)

Ok(v, next) == [st |-> "ok", v |-> v, next |-> next]
Incomplete  == [st |-> "incomplete"]
Protocol    == [st |-> "protocol"]
IsOk(r)     == r.st = "ok"

\* The ? operator: Rest goes on with a result that is ok.
Then(r, Rest(_)) == IF IsOk(r) THEN Rest(r) ELSE r

\* A frame of variant t whose content is r, if it is valid.
Tagged(t, r, Valid(_)) == Then(r, LAMBDA x : IF Valid(x.v) THEN Ok(<<t, x.v>>, x.next) ELSE Protocol)

Anything(v) == TRUE

NullValue == <<"null", <<>>>>

-----------------------------------------------------------------------------
(* Lines and integers. *)

\* find_crlf: the first CR must be followed by LF.
find_crlf(buf, offset) ==
  LET cr == Min({i \in offset..Len(buf) : buf[i] = CR} \cup {Len(buf)})
  IN IF cr = Len(buf) THEN Incomplete
     ELSE IF buf[cr + 1] = LF THEN Ok(cr, cr + 2) ELSE Protocol

read_line(buf, offset) ==
  Then(find_crlf(buf, offset), LAMBDA cr : Ok(SubSeq(buf, offset, cr.v - 1), cr.next))

Unsigned(bytes) == IF bytes # <<>> /\ Head(bytes) \in Signs THEN Tail(bytes) ELSE bytes

AllDigits(bytes) == bytes # <<>> /\ ToSet(bytes) \subseteq Digits

\* -|digits|, or a protocol error as soon as it is below i64::MIN.
NegativeOf(digits) ==
  FoldLeft(LAMBDA a, b : IF ~IsOk(a) THEN a
                         ELSE IF a.v * 10 - DigitOf[b] < IntMin THEN Protocol
                         ELSE Ok(a.v * 10 - DigitOf[b], 0),
           Ok(0, 0), digits)

\* Mutant of parse_int_from_bytes: the magnitude is accumulated as a positive
\* i64, so that i64::MIN is refused.
parse_int_positive(bytes) ==
  IF ~AllDigits(Unsigned(bytes)) THEN Protocol
  ELSE Then(NegativeOf(Unsigned(bytes)),
            LAMBDA n : IF n.v = IntMin THEN Protocol ELSE Ok(IF Head(bytes) = "-" THEN n.v ELSE -n.v, 0))

parse_int_from_bytes(bytes) ==
  IF ~AllDigits(Unsigned(bytes)) THEN Protocol
  ELSE Then(NegativeOf(Unsigned(bytes)), LAMBDA n : Ok(IF Head(bytes) = "-" THEN n.v ELSE Wrap(-n.v), 0))

\* read_line followed by parse_int_from_bytes: the header of most frames.
ReadInt(buf, offset) ==
  Then(read_line(buf, offset),
       LAMBDA line : Then(parse_int_from_bytes(line.v), LAMBDA n : Ok(n.v, line.next)))

-----------------------------------------------------------------------------
(* parse, one definition per group of type parsers. *)

\* parse_simple_string, parse_simple_error, parse_integer
parse_simple(buf, pos) ==
  CASE buf[pos] = "+" -> Tagged("simple", read_line(buf, pos + 1), Utf8)
    [] buf[pos] = "-" -> Tagged("error", read_line(buf, pos + 1), Utf8)
    [] buf[pos] = ":" -> Tagged("int", ReadInt(buf, pos + 1), Anything)

\* The payload of a length-prefixed frame, CRLF checked; nothing if negative.
Payload(buf, pos) ==
  Then(ReadInt(buf, pos + 1),
       LAMBDA len : LET end == len.next + len.v
                    IN IF len.v < 0 THEN Ok(NullValue, len.next)
                       ELSE IF Len(buf) < end + 1 THEN Incomplete
                       ELSE IF buf[end] = CR /\ buf[end + 1] = LF
                            THEN Ok(SubSeq(buf, len.next, end - 1), end + 2)
                            ELSE Protocol)

parse_bulk_string(buf, pos) ==
  Then(Payload(buf, pos), LAMBDA data : IF data.v = NullValue THEN data ELSE Tagged("bulk", data, Anything))

\* parse_null, parse_boolean
parse_fixed(buf, pos) ==
  LET n == IF buf[pos] = "_" THEN 3 ELSE 4
  IN IF Len(buf) < pos + n - 1 THEN Incomplete
     ELSE IF \/ n = 4 /\ buf[pos + 1] \notin {"t", "f"}
             \/ <<buf[pos + n - 2], buf[pos + n - 1]>> # <<CR, LF>> THEN Protocol
     ELSE Ok(IF n = 3 THEN NullValue ELSE <<"bool", buf[pos + 1] = "t">>, pos + n)

\* str::parse::<f64>, on the lines that occur here.
IsDouble(line) == line \in {<<"i", "n", "f">>, <<"1", ".", "5">>} \/ AllDigits(Unsigned(line))

\* parse_double, parse_big_number
parse_number(buf, pos) ==
  IF buf[pos] = ","
  THEN Tagged("double", read_line(buf, pos + 1), LAMBDA line : Utf8(line) /\ IsDouble(line))
  ELSE Tagged("big", read_line(buf, pos + 1), LAMBDA line : AllDigits(Unsigned(line)))

\* parse_bulk_error, parse_verbatim_string
parse_blob(buf, pos) ==
  Then(Payload(buf, pos),
       LAMBDA data : IF data.v = NullValue THEN Protocol
                     ELSE IF buf[pos] = "!" THEN Tagged("bulkerror", data, Utf8)
                     ELSE Tagged("verbatim", data, LAMBDA d : Len(d) >= 4 /\ d[4] = ":" /\ Utf8(d)))

RECURSIVE parse(_, _), ParseMany(_, _, _)

\* count values one after the other; the first that fails ends the loop.
ParseMany(buf, pos, count) ==
  IF count <= 0 THEN Ok(<<>>, pos)
  ELSE Then(parse(buf, pos),
            LAMBDA first : Then(ParseMany(buf, first.next, count - 1),
                                LAMBDA rest : Ok(<<first.v>> \o rest.v, rest.next)))

parse_array(buf, pos) ==
  Then(ReadInt(buf, pos + 1),
       LAMBDA n : IF n.v < 0 THEN Ok(NullValue, n.next) ELSE Tagged("array", ParseMany(buf, n.next, n.v), Anything))

\* parse_map, parse_set, parse_push, parse_attribute: the content of an
\* attribute is its pairs followed by the value they describe, that of a push
\* its kind, a string, followed by its data.
parse_aggregate(buf, pos) ==
  LET Items(t, n, count) == Tagged(t, ParseMany(buf, n.next, count), Anything)
      Push(n, kind) == IF kind.v[1] \in {"simple", "bulk"} /\ Utf8(kind.v[2]) THEN Items("push", n, n.v) ELSE Protocol
  IN Then(ReadInt(buf, pos + 1),
          LAMBDA n : IF n.v < 0 THEN Protocol
                     ELSE CASE buf[pos] = "%" -> Items("map", n, 2 * n.v)
                            [] buf[pos] = "~" -> Items("set", n, n.v)
                            [] buf[pos] = "|" -> Items("attr", n, 2 * n.v + 1)
                            [] buf[pos] = ">" -> IF n.v = 0 THEN Protocol
                                                 ELSE Then(parse(buf, n.next), LAMBDA kind : Push(n, kind)))

parse(buf, pos) ==
  IF pos > Len(buf) THEN Incomplete
  ELSE CASE buf[pos] \in {"+", "-", ":"}      -> parse_simple(buf, pos)
         [] buf[pos] = "$"                    -> parse_bulk_string(buf, pos)
         [] buf[pos] = "*"                    -> parse_array(buf, pos)
         [] buf[pos] \in {"_", "#"}           -> parse_fixed(buf, pos)
         [] buf[pos] \in {",", "("}           -> parse_number(buf, pos)
         [] buf[pos] \in {"!", "="}           -> parse_blob(buf, pos)
         [] buf[pos] \in {"%", "~", ">", "|"} -> parse_aggregate(buf, pos)
         [] OTHER                             -> Protocol

-----------------------------------------------------------------------------
(* resp_frame_len: the length of a frame without its value. *)

RECURSIVE FrameEnd(_, _), FramesEnd(_, _, _)

FramesEnd(buf, pos, count) ==
  IF count <= 0 THEN Ok(pos, pos)
  ELSE Then(FrameEnd(buf, pos), LAMBDA first : FramesEnd(buf, first.v, count - 1))

\* Mutant of FrameEnd: an attribute ends with its pairs; the value that follows
\* is taken for a frame of its own.
FrameEndSplitsAttributes(buf, pos) ==
  IF pos <= Len(buf) /\ buf[pos] = "|"
  THEN Then(ReadInt(buf, pos + 1), LAMBDA n : FramesEnd(buf, n.next, 2 * n.v))
  ELSE Then(parse(buf, pos), LAMBDA r : Ok(r.next, r.next))

FrameEnd(buf, pos) ==
  LET t == buf[pos]
      Upto(last) == IF Len(buf) < last - 1 THEN Incomplete ELSE Ok(last, last)
      PairsEnd(n, count) == IF n.v < 0 THEN Protocol ELSE FramesEnd(buf, n.next, count)
      Counted(n) == CASE t \in {"$", "!", "="} -> IF n.v < 0 THEN Ok(n.next, n.next) ELSE Upto(n.next + n.v + 2)
                      [] t \in {"*", "~", ">"} -> FramesEnd(buf, n.next, n.v)
                      [] t = "%"               -> PairsEnd(n, 2 * n.v)
                      [] t = "|"               -> PairsEnd(n, 2 * n.v + 1)
  IN IF pos > Len(buf) THEN Incomplete
     ELSE CASE t \in {"+", "-", ":", ",", "("} -> Then(find_crlf(buf, pos + 1), LAMBDA end : Ok(end.next, end.next))
            [] t = "_"                         -> Upto(pos + 3)
            [] t = "#"                         -> Upto(pos + 4)
            [] t \in {"$", "!", "=", "*", "~", ">", "%", "|"} -> Then(ReadInt(buf, pos + 1), Counted)
            [] OTHER                           -> Protocol

resp_frame_len(buf) == FrameEnd(buf, 1)

-----------------------------------------------------------------------------
(* The writer. *)

CRLF == <<CR, LF>>

\* itoa::Buffer::format
RECURSIVE Itoa(_)
Itoa(n) == IF n < 0 THEN <<"-">> \o Itoa(-n)
           ELSE IF n < 10 THEN <<DigitSeq[n + 1]>>
           ELSE Append(Itoa(n \div 10), DigitSeq[(n % 10) + 1])

Header(t, n) == <<t>> \o Itoa(n) \o CRLF

\* encode_command, encode_command_str
encode_command(args) ==
  Header("*", Len(args)) \o
  FlattenSeq([i \in 1..Len(args) |-> Header("$", Len(args[i])) \o args[i] \o CRLF])

encode_pipeline(commands) ==
  FlattenSeq([i \in 1..Len(commands) |-> encode_command(commands[i])])

-----------------------------------------------------------------------------
(* RespValue's accessors: the content, or None. *)

None == <<"none">>

as_str(v) == CASE v[1] = "simple" -> v[2]
               [] v[1] = "bulk" /\ Utf8(v[2]) -> v[2]
               [] v[1] = "verbatim" -> SubSeq(v[2], 5, Len(v[2]))
               [] OTHER -> None

\* as_int().unwrap_or(d)
IntOr(v, d) == IF v[1] = "int" THEN v[2] ELSE d

=============================================================================
