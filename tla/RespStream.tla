----------------------------- MODULE RespStream -----------------------------
(***************************************************************************)
(* A connection's byte stream: frames arrive byte by byte and are taken    *)
(* off the buffer by read_response (parse) or read_raw_response            *)
(* (resp_frame_len, then parse_to_python by the client), tcp.rs.           *)
(*                                                                         *)
(* The streams are those of a server's replies, encoded as the RESP        *)
(* specification says, and those that the client's own writer produces.    *)
(* The size limit of the buffer is the subject of ReadBuffer.              *)
(***************************************************************************)
EXTENDS Response

CONSTANTS
  Firsts,      \* the replies a stream may start with,
  Seconds,     \* and those that may follow
  Words,       \* arguments of commands
  MaxArgs      \* arguments of a command

VARIABLES
  stream,      \* [bytes, values]: what is sent, and the values it stands for
  arrived,     \* number of bytes received so far
  buf,         \* RedisConnection.buf
  got          \* values and objects read so far, by either path

vars == <<stream, arrived, buf, got>>

-----------------------------------------------------------------------------
(* The peer's encoding.  "nilbulk" and "nilarray" are RESP2's nulls. *)

RECURSIVE Encode(_)

EncodeAll(vs) == FlattenSeq([i \in DOMAIN vs |-> Encode(vs[i])])

Encode(v) ==
  LET x == v[2]
      Blob(t) == Header(t, Len(x)) \o x \o CRLF
  IN CASE v[1] = "simple"    -> <<"+">> \o x \o CRLF
       [] v[1] = "error"     -> <<"-">> \o x \o CRLF
       [] v[1] = "int"       -> Header(":", x)
       [] v[1] = "bulk"      -> Blob("$")
       [] v[1] = "nilbulk"   -> Header("$", -1)
       [] v[1] = "nilarray"  -> Header("*", -1)
       [] v[1] = "null"      -> <<"_">> \o CRLF
       [] v[1] = "bool"      -> <<"#", IF x THEN "t" ELSE "f">> \o CRLF
       [] v[1] = "double"    -> <<",">> \o x \o CRLF
       [] v[1] = "big"       -> <<"(">> \o x \o CRLF
       [] v[1] = "bulkerror" -> Blob("!")
       [] v[1] = "verbatim"  -> Blob("=")
       [] v[1] = "array"     -> Header("*", Len(x)) \o EncodeAll(x)
       [] v[1] = "set"       -> Header("~", Len(x)) \o EncodeAll(x)
       [] v[1] = "push"      -> Header(">", Len(x)) \o EncodeAll(x)
       [] v[1] = "map"       -> Header("%", Len(x) \div 2) \o EncodeAll(x)
       [] v[1] = "attr"      -> Header("|", Len(x) \div 2) \o EncodeAll(x)

\* The value a reply stands for.
RECURSIVE Meaning(_)
Meaning(v) ==
  CASE v[1] \in {"nilbulk", "nilarray"}                      -> NullValue
    [] v[1] \in {"array", "set", "push", "map", "attr"}      -> <<v[1], [i \in DOMAIN v[2] |-> Meaning(v[2][i])]>>
    [] OTHER                                                 -> v

Command(args) == <<"array", [i \in DOMAIN args |-> <<"bulk", args[i]>>]>>

Commands == UNION {[1..n -> Words] : n \in 1..MaxArgs}

\* What may be sent: two replies, a pipeline of two commands, or one command.
Streams ==
  {[bytes |-> Encode(p[1]) \o Encode(p[2]), values |-> <<Meaning(p[1]), Meaning(p[2])>>] : p \in Firsts \X Seconds}
  \cup {[bytes |-> encode_pipeline(p), values |-> <<Command(p[1]), Command(p[2])>>] : p \in Commands \X Commands}
  \cup {[bytes |-> encode_command(c), values |-> <<Command(c)>>] : c \in Commands}

-----------------------------------------------------------------------------
Init == /\ stream \in Streams
        /\ arrived = 0
        /\ buf = <<>>
        /\ got = <<>>

\* read_with_timeout: one more byte is in the buffer.
Arrive == /\ arrived < Len(stream.bytes)
          /\ arrived' = arrived + 1
          /\ buf' = Append(buf, stream.bytes[arrived'])
          /\ UNCHANGED <<stream, got>>

\* Mutant of ReadResponse: the bytes behind the first frame are dropped.
ReadResponseDrops ==
  LET r == parse(buf, 1)
  IN /\ IsOk(r)
     /\ got' = Append(got, r.v)
     /\ buf' = <<>>
     /\ UNCHANGED <<stream, arrived>>

\* read_response: the first frame is parsed and the rest stays; an incomplete
\* frame is restored unread.
ReadResponse ==
  LET r == parse(buf, 1)
  IN /\ IsOk(r)
     /\ got' = Append(got, r.v)
     /\ buf' = SubSeq(buf, r.next, Len(buf))
     /\ UNCHANGED <<stream, arrived>>

\* read_raw_response: the frame is split off by its length alone, and parsed
\* when it is converted.
ReadRawResponse ==
  LET r     == resp_frame_len(buf)
      frame == parse(SubSeq(buf, 1, r.v - 1), 1)
  IN /\ IsOk(r)
     /\ got' = Append(got, IF IsOk(frame) THEN frame.v ELSE <<"raise", frame.st>>)
     /\ buf' = SubSeq(buf, r.v, Len(buf))
     /\ UNCHANGED <<stream, arrived>>

Next == Arrive \/ ReadResponse \/ ReadRawResponse

Spec == Init /\ [][Next]_vars

-----------------------------------------------------------------------------
(* Whatever the chunks in which a stream arrives and whichever of the two
   read paths takes each frame, the values read are those that were sent, in
   order: payloads with CRLF or type bytes in them, nested frames and the
   writer's commands included.  Once all of a stream has arrived no read asks
   for more: a client that waits for bytes its server will never send waits
   for ever. *)
ReadsWhatWasSent ==
  /\ IsPrefix(got, stream.values)
  /\ arrived = Len(stream.bytes) /\ Len(got) < Len(stream.values) => IsOk(parse(buf, 1))

\* resp_frame_len and parse agree on whether the buffer starts with a complete
\* frame and where it ends; neither reports an error on a stream that follows the protocol.
FrameLenAgrees ==
  LET p == parse(buf, 1)
      f == resp_frame_len(buf)
  IN p.st = f.st /\ p.st # "protocol" /\ (IsOk(p) => p.next = f.v)

\* The single pass keeps the kind of a push, and the format of an empty verbatim string.
BuiltOtherwise(v) == v[1] = "push" \/ (v[1] = "verbatim" /\ Len(v[2]) = 4)

\* On a complete frame the single pass builds the object that parsing and then
\* converting would build, or raises the same exception, and consumes as much.
FusedAgrees ==
  LET p == parse(buf, 1)
  IN IsOk(p) => \A decode \in BOOLEAN :
       LET f == parse_to_python(SubSeq(buf, 1, p.next - 1), decode)
       IN /\ BuiltOtherwise(p.v) \/ f.v = resp_to_python(p.v, decode)
          /\ Raises(f.v) \/ f.next = p.next

(* "We keep the two-pass fallback (resp_to_python) for correctness testing":
   the frame scanner, the parser and the single-pass decoder agree at every
   moment on every buffer, other than on a push and an empty verbatim string. *)
DecodersAgree == FrameLenAgrees /\ FusedAgrees

=============================================================================
