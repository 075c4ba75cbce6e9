--------------------------- MODULE MCConversions ---------------------------
(***************************************************************************)
(* The algorithms of the client: part names the module whose input is      *)
(* being built, step by step, and the variables of the others are Unused.  *)
(***************************************************************************)
EXTENDS Response, TLC

VARIABLES
  part,
  stream, arrived, buf, got,     \* of RespStream
  text,                          \* of RespIntegers
  columns, rows, stats,          \* of GraphResult
  announced,                     \* of ClusterSlots
  form, key,                     \* of KeySlot
  scheme, rest, stage, want      \* of ConnectionUrl

Unused == ""

-----------------------------------------------------------------------------
(* Replies: every type of frame, payloads that contain CRLF, type bytes and
   bytes that are not UTF-8, and nesting. *)

Scalars ==
  { <<"simple", <<"O", "K">>>>, <<"error", <<"E">>>>, <<"int", 0>>, <<"int", IntMin>>, <<"int", IntMax>>,
    <<"bulk", <<>>>>, <<"bulk", <<CR, LF>>>>, <<"bulk", <<"$", "1", CR, LF>>>>, <<"bulk", <<Bad>>>>,
    <<"nilbulk", <<>>>>, <<"nilarray", <<>>>>, NullValue, <<"bool", TRUE>>, <<"bool", FALSE>>,
    <<"double", <<"1", ".", "5">>>>, <<"double", <<"i", "n", "f">>>>, <<"big", <<"-", "1", "2">>>>,
    <<"bulkerror", <<"E", CR, LF>>>>, <<"verbatim", <<"t", "x", "t", ":", "a">>>>,
    <<"verbatim", <<"t", "x", "t", ":">>>> }

Parts == { <<"bulk", <<"a", CR>>>>, <<"int", 12>>, <<"error", <<"E">>>>, <<"nilbulk", <<>>>>,
           <<"array", <<>>>>, <<"array", << <<"bulk", <<"a">>>> >>>> }

Upto2 == UNION {[1..n -> Parts] : n \in 0..2}
Pairs == [1..2 -> Parts] \cup {<< <<"int", 12>>, a, <<"int", 12>>, b>> : a, b \in Parts}

Containers ==
  {<<t, s>> : t \in {"array", "set"}, s \in Upto2}
  \cup {<<"map", s>> : s \in Pairs}
  \cup {<<"attr", Append(s, v)>> : s \in [1..2 -> Parts], v \in {<<"int", 12>>, <<"set", <<>>>>}}
  \cup {<<"push", << <<"simple", <<"m">>>> >> \o s>> : s \in Upto2}

AllReplies == Scalars \cup Containers

Followers == {<<"bulk", <<"+", CR, LF>>>>}

Texts == {<<>>, <<"a">>, <<CR, LF, "$">>}

Stream == INSTANCE RespStream WITH Firsts <- AllReplies, Seconds <- Followers, Words <- Texts, MaxArgs <- 2

\* Lines of numbers: digits next to the ends of the range, and bytes that are not digits.
Numerals == INSTANCE RespIntegers WITH
  Alphabet <- {"+", "-", "0", "1", "2", "7", "8", "9", "a"}, MaxLen <- 4

-----------------------------------------------------------------------------
(* Results of graph queries *)

Flat == {<<"Null", <<>>>>, <<"String", <<>>>>, <<"String", <<"a">>>>, <<"Integer", -3>>, <<"Boolean", TRUE>>,
         <<"Boolean", FALSE>>, <<"Double", <<"1", ".", "5">>>>,
         <<"Point", [latitude |-> <<"1", ".", "5">>, longitude |-> <<"-", "2">>]>>}

Property == {<<>>} \cup {<< <<4, v>> >> : v \in Flat}

NodeOf(ps) == [id |-> 7, labels |-> <<1, 2>>, properties |-> ps]
EdgeOf(ps) == [id |-> 8, relation_type |-> 3, src_node |-> 7, dst_node |-> 9, properties |-> ps]

Composite ==
  {<<"Array", s>> : s \in {<<>>, << <<"Null", <<>>>>, <<"Integer", 1>>>>, << <<"Array", << <<"Null", <<>>>> >>>> >>}}
  \cup {<<"Node", NodeOf(ps)>> : ps \in Property} \cup {<<"Edge", EdgeOf(ps)>> : ps \in Property}
  \cup {<<"Path", [nodes |-> <<NodeOf(<<>>), NodeOf(ps)>>, edges |-> <<EdgeOf(ps)>>]>> : ps \in Property}
  \cup {<<"Map", << <<<<"k">>, v>>, <<<<"l">>, <<"Integer", -3>>>> >>>> : v \in Flat}
  \cup {<<"Node", NodeOf(<< <<4, <<"Map", << <<<<"k">>, v>> >>>> >>, <<5, v>> >>)>> : v \in Flat}

Headers == {<<>>, <<[column_type |-> "Scalar", name |-> <<"x">>]>>,
            <<[column_type |-> "Node", name |-> <<"x">>], [column_type |-> "Relation", name |-> <<"y">>]>>}

Lines == {[text |-> <<"Query time", ":", " ", "0", ":", "1">>, means |-> {<< <<"Query time">>, <<"0", ":", "1">> >>}],
          [text |-> <<" ", "Query time", " ", ":", "2", " ", "ms", " ">>,
           means |-> {<< <<"Query time">>, <<"2", " ", "ms">> >>}],
          [text |-> <<"Cached">>, means |-> {}]}

Graph == INSTANCE GraphResult WITH
  Columns <- Headers, Cells <- Flat \cup Composite, Stats <- Lines, MaxCells <- 2, MaxStats <- 2

-----------------------------------------------------------------------------
(* Replies to CLUSTER SLOTS *)

Host(h) == <<"bulk", <<h>>>>
TwoMasters == {<<Host("a"), 1>>, <<Host("b"), 2>>, <<NullValue, 2>>}
SomeReplicas == {<<>>, << <<NullValue, 3>>, <<Host("d"), 3>> >>, << <<Host("c"), 3>>, <<Host("c"), 4>> >>}

Announced == INSTANCE ClusterSlots WITH
  NoNode <- <<"">>, LastSlot <- 3, Masters <- TwoMasters, ReplicaSets <- SomeReplicas, MaxRanges <- 3

-----------------------------------------------------------------------------
(* Commands with and without a key, one for each place where extract_key looks
   for it, and keys with braces in them.  KEYS, SCAN, OBJECT ENCODING, XINFO and
   BITOP are not among them: extract_key takes their second argument, a pattern,
   a cursor or a subcommand, for the key. *)

Form(before, after, keyed, writes) == [before |-> before, after |-> after, keyed |-> keyed, writes |-> writes]

HandledForms ==
  { Form(<< <<"GET">> >>, <<>>, TRUE, FALSE),
    Form(<< <<"SET">> >>, << <<"v">> >>, TRUE, TRUE),
    Form(<< <<"PING">> >>, <<>>, FALSE, FALSE),
    Form(<< <<"PING">> >>, << <<"hello">> >>, FALSE, FALSE),
    Form(<< <<"EVAL">>, <<"script">>, <<"1">> >>, << <<"arg">> >>, TRUE, TRUE),
    Form(<< <<"EVAL">>, <<"script">>, <<"0">> >>, << <<"arg">> >>, FALSE, TRUE),
    Form(<< <<"EVALSHA">>, <<"sha">>, <<"0">> >>, <<>>, FALSE, TRUE),
    Form(<< <<"XREAD">>, <<"COUNT">>, <<"2">>, <<"STREAMS">> >>, << <<"0-0">> >>, TRUE, FALSE),
    Form(<< <<"XREADGROUP">>, <<"GROUP">>, <<"g">>, <<"c">>, <<"STREAMS">> >>, << <<"0-0">> >>, TRUE, TRUE) }

Keys == INSTANCE KeySlot WITH
  Forms <- HandledForms, MaxKey <- 4, Byte <- ("{" :> 123) @@ ("}" :> 125) @@ ("a" :> 97) @@ ("x80" :> 128)

-----------------------------------------------------------------------------
(* URLs in the documented forms *)

DocumentedHosts ==
  {[text |-> <<"db.local">>, host |-> <<"db.local">>, bare |-> FALSE],
   [text |-> <<>>, host |-> <<"127.0.0.1">>, bare |-> FALSE],
   [text |-> <<"[", ":", ":", "1", "]">>, host |-> <<":", ":", "1">>, bare |-> FALSE],
   [text |-> <<"fe80", ":", ":", "a">>, host |-> <<"fe80", ":", ":", "a">>, bare |-> TRUE]}

Url == INSTANCE ConnectionUrl WITH
  Numbers <- {"0", "1", "6380"}, Hosts <- DocumentedHosts, MaxHosts <- 2,
  Passwords <- {<<"pw">>, <<"p", ":", "w">>, <<"p", "@", "w">>, <<"p", "@", ":">>}

-----------------------------------------------------------------------------
streamVars == <<stream, arrived, buf, got>>
graphVars  == <<columns, rows, stats>>
keyVars    == <<form, key>>
urlVars    == <<scheme, rest, stage, want>>

NoStream  == stream = Unused /\ arrived = Unused /\ buf = Unused /\ got = Unused
NoGraph   == columns = Unused /\ rows = Unused /\ stats = Unused
NoKey     == form = Unused /\ key = Unused
NoUrl     == scheme = Unused /\ rest = Unused /\ stage = Unused /\ want = Unused

conversionVars == <<streamVars, text, graphVars, announced, keyVars, urlVars>>

Conversions == {"stream", "integers", "graph", "slots", "key", "url"}

ConversionInit ==
  /\ IF part = "stream" THEN Stream!Init ELSE NoStream
  /\ IF part = "integers" THEN Numerals!Init ELSE text = Unused
  /\ IF part = "graph" THEN Graph!Init ELSE NoGraph
  /\ IF part = "slots" THEN Announced!Init ELSE announced = Unused
  /\ IF part = "key" THEN Keys!Init ELSE NoKey
  /\ IF part = "url" THEN Url!Init ELSE NoUrl

Resting(p, v) == IF part = p THEN TRUE ELSE UNCHANGED v

ConversionNext ==
  /\ \/ part = "stream" /\ Stream!Next
     \/ part = "integers" /\ Numerals!Extend
     \/ part = "graph" /\ Graph!Next
     \/ part = "slots" /\ Announced!Announce
     \/ part = "key" /\ Keys!TypeKey
     \/ part = "url" /\ Url!Next
  /\ Resting("stream", streamVars) /\ Resting("integers", text) /\ Resting("graph", graphVars) /\ Resting("slots", announced)
  /\ Resting("key", keyVars) /\ Resting("url", urlVars)

-----------------------------------------------------------------------------
(* Both read paths return the values sent, in order, however the stream is cut
   into chunks, and wait for nothing after its last frame (parser.rs,
   writer.rs, response.rs, tcp.rs). *)
ReadsWhatWasSent == part = "stream" => Stream!ReadsWhatWasSent

(* resp_frame_len, parse and the single pass of response.rs agree on every
   prefix of every frame. *)
DecodersAgree == part = "stream" => Stream!DecodersAgree

(* Both integer parsers are exact on all that an i64 can hold, and do what they
   are meant to beyond it but for one number (parser.rs, response.rs). *)
IntegersExact == part = "integers" => Numerals!IntegersExact

(* parse_int_from_bytes refuses what an i64 cannot hold, as a test of parser.rs
   asserts. *)
OverflowRefused == part = "integers" => Numerals!OverflowRefused

(* A graph result is decoded to what the server encoded (graph.rs). *)
GraphRoundTrip == part = "graph" => Graph!GraphRoundTrip

(* The slot map decoded from CLUSTER SLOTS routes as announced (cluster.rs). *)
RoutesAsAnnounced == part = "slots" => Announced!RoutesAsAnnounced

(* The key of a command that has it where extract_key looks is found and hashed
   to its slot, and no command that may write counts as read-only (cluster.rs,
   crc16.rs). *)
CommandsRouted == part = "key" => Keys!CommandsRouted

(* A URL is parsed into the configuration it was written for (config.rs). *)
UrlRoundTrip == part = "url" => Url!UrlRoundTrip

=============================================================================
