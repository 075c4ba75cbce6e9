---------------------------- MODULE GraphResult -----------------------------
(***************************************************************************)
(* FalkorDB's compact results: graph.rs.  A server assembles the result of *)
(* a query column by column and row by row and encodes it; parse_graph_    *)
(* result decodes the RespValue.                                           *)
(*                                                                         *)
(* A GraphValue is a pair of its variant's name and its content: a node is *)
(* [id, labels, properties], an edge [id, relation_type, src_node,         *)
(* dst_node, properties], properties and maps are sequences of pairs.      *)
(* A double is the text it is read from.                                   *)
(***************************************************************************)
EXTENDS Resp

CONSTANTS
  Columns,     \* the headers a result may have: sequences of [column_type, name]
  Cells,       \* GraphValues a cell may hold
  Stats,       \* statistics lines, as [text, means]: the key and the value, if it has them
  MaxCells,    \* bound on the cells of a result
  MaxStats     \* bound on its statistics

VARIABLES columns, rows, stats

vars == <<columns, rows, stats>>

-----------------------------------------------------------------------------
(* The decoder.  Orr(x, d) is x.unwrap_or(d). *)

Orr(x, d) == IF x = None THEN d ELSE x

GNull == <<"Null", <<>>>>

IsArray(resp, n) == resp[1] = "array" /\ Len(resp[2]) >= n

ColumnType(i) == CASE i = 1 -> "Scalar" [] i = 2 -> "Node" [] i = 3 -> "Relation" [] OTHER -> "Unknown"

ScalarTypes == <<"Null", "String", "Integer", "Boolean", "Double", "Array", "Edge", "Node", "Path", "Map", "Point">>

ScalarType(i) == IF i \in DOMAIN ScalarTypes THEN ScalarTypes[i] ELSE "Null"

\* str::parse::<f64>().unwrap_or(0.0)
F64(text) == IF text # None /\ IsDouble(text) THEN text ELSE <<"0">>

\* Of the items of a RESP array those that satisfy Test, each through Op.
Collect(resp, Test(_), Op(_)) ==
  IF resp[1] # "array" THEN <<>>
  ELSE LET items == SelectSeq(resp[2], Test) IN [i \in DOMAIN items |-> Op(items[i])]

Always(x) == TRUE

parse_header(resp) ==
  LET column(item) == IF IsArray(item, 2)
                      THEN [column_type |-> ColumnType(IntOr(item[2][1], 0)),
                            name |-> Orr(as_str(item[2][2]), <<>>)]
                      ELSE [column_type |-> "Unknown", name |-> <<>>]
  IN Collect(resp, Always, column)

RECURSIVE parse_scalar(_, _)

\* Compact cell: [type_id, value]
parse_cell(resp) ==
  CASE IsArray(resp, 2)  -> parse_scalar(ScalarType(IntOr(resp[2][1], 1)), resp[2][2])
    [] resp[1] = "int"   -> <<"Integer", resp[2]>>
    [] OTHER             -> GNull

\* Mutant of parse_properties: a property is read with its value's type as id.
parse_properties_shifted(val) ==
  LET property(item) == <<IntOr(item[2][2], 0), parse_scalar(ScalarType(IntOr(item[2][2], 1)), item[2][3])>>
      triple(item)   == IsArray(item, 3)
  IN Collect(val, triple, property)

\* [[prop_id, type_id, value], ...]; shorter items are skipped.
parse_properties(val) ==
  LET property(item) == <<IntOr(item[2][1], 0), parse_scalar(ScalarType(IntOr(item[2][2], 1)), item[2][3])>>
      triple(item)   == IsArray(item, 3)
  IN Collect(val, triple, property)

parse_node(val) ==
  LET label(v) == IntOr(v, 0)
  IN IF IsArray(val, 3)
     THEN [id |-> IntOr(val[2][1], 0), labels |-> Collect(val[2][2], Always, label),
           properties |-> parse_properties(val[2][3])]
     ELSE [id |-> 0, labels |-> <<>>, properties |-> <<>>]

parse_edge(val) ==
  IF IsArray(val, 5)
  THEN [id |-> IntOr(val[2][1], 0), relation_type |-> IntOr(val[2][2], 0), src_node |-> IntOr(val[2][3], 0),
        dst_node |-> IntOr(val[2][4], 0), properties |-> parse_properties(val[2][5])]
  ELSE [id |-> 0, relation_type |-> 0, src_node |-> 0, dst_node |-> 0, properties |-> <<>>]

\* Of the decoded cells of a path's array, the nodes or the edges.
PathPart(resp, variant) ==
  LET cells == Collect(resp, Always, parse_cell)
      hits  == SelectSeq(cells, LAMBDA c : c[1] = variant)
  IN [i \in DOMAIN hits |-> hits[i][2]]

\* A coordinate is a text or an integer.
Coordinate(v) == IF v[1] = "int" THEN Itoa(v[2]) ELSE F64(as_str(v))

parse_scalar(typ, val) ==
  <<typ,
    CASE typ = "Null"    -> <<>>
      [] typ = "String"  -> Orr(as_str(val), <<>>)
      [] typ = "Integer" -> IntOr(val, 0)
      [] typ = "Boolean" -> as_str(val) = <<"true">>
      [] typ = "Double"  -> F64(as_str(val))
      [] typ = "Array"   -> Collect(val, Always, parse_cell)
      [] typ = "Node"    -> parse_node(val)
      [] typ = "Edge"    -> parse_edge(val)
      [] typ = "Path"    -> IF IsArray(val, 2)
                            THEN [nodes |-> PathPart(val[2][1], "Node"), edges |-> PathPart(val[2][2], "Edge")]
                            ELSE [nodes |-> <<>>, edges |-> <<>>]
      [] typ = "Map"     -> IF ~IsArray(val, 0) THEN <<>>
                            ELSE [i \in 1..(Len(val[2]) \div 2) |->
                                    <<Orr(as_str(val[2][2 * i - 1]), <<>>), parse_cell(val[2][2 * i])>>]
      [] typ = "Point"   -> IF IsArray(val, 2)
                            THEN [latitude |-> Coordinate(val[2][1]), longitude |-> Coordinate(val[2][2])]
                            ELSE [latitude |-> <<"0">>, longitude |-> <<"0">>]>>

\* Rows that are not arrays are skipped.
parse_result_set(resp) ==
  LET row(r) == Collect(r, Always, parse_cell)
      isRow(r) == IsArray(r, 0)
  IN Collect(resp, isRow, row)

\* str::trim
Trim(s) == LET inner == {i \in DOMAIN s : s[i] # " "}
           IN IF inner = {} THEN <<>> ELSE SubSeq(s, Min(inner), Max(inner))

\* "Key: Value" lines become a map in which a later key replaces an earlier one.
parse_stats(resp) ==
  LET isText(v) == as_str(v) # None
      raw == Collect(resp, isText, as_str)
      Key(s) == Trim(SubSeq(s, 1, SelectInSeq(s, LAMBDA b : b = ":") - 1))
      Val(s) == Trim(SubSeq(s, SelectInSeq(s, LAMBDA b : b = ":") + 1, Len(s)))
      put(m, s) == IF ~Contains(s, ":") THEN m
                   ELSE {e \in m : e[1] # Key(s)} \cup {<<Key(s), Val(s)>>}
  IN [raw |-> raw, values |-> FoldLeft(put, {}, raw)]

GraphErr == [st |-> "graph"]

parse_graph_result(resp) ==
  LET top == resp[2]
  IN IF resp[1] # "array" THEN GraphErr
     ELSE IF Len(top) = 1 THEN Ok([columns |-> <<>>, rows |-> <<>>, stats |-> parse_stats(top[1])], 0)
     ELSE IF Len(top) < 3 THEN GraphErr
     ELSE Ok([columns |-> parse_header(top[1]), rows |-> parse_result_set(top[2]), stats |-> parse_stats(top[3])], 0)

-----------------------------------------------------------------------------
(* The server's compact encoding. *)

TypeId(variant) == CHOOSE i \in DOMAIN ScalarTypes : ScalarTypes[i] = variant

Text(s)   == <<"bulk", s>>
Number(n) == <<"int", n>>
Array(s)  == <<"array", s>>

RECURSIVE Compact(_)

CompactCell(v) == Array(<<Number(TypeId(v[1])), Compact(v)>>)

CompactAll(vs) == Array([i \in DOMAIN vs |-> CompactCell(vs[i])])

CompactProperties(ps) ==
  Array([i \in DOMAIN ps |-> Array(<<Number(ps[i][1]), Number(TypeId(ps[i][2][1])), Compact(ps[i][2])>>)])

Compact(v) ==
  LET x == v[2]
  IN CASE v[1] = "Null"    -> NullValue
       [] v[1] = "String"  -> Text(x)
       [] v[1] = "Integer" -> Number(x)
       [] v[1] = "Boolean" -> Text(<<IF x THEN "true" ELSE "false">>)
       [] v[1] = "Double"  -> Text(x)
       [] v[1] = "Array"   -> CompactAll(x)
       [] v[1] = "Node"    -> Array(<<Number(x.id), Array([i \in DOMAIN x.labels |-> Number(x.labels[i])]),
                                      CompactProperties(x.properties)>>)
       [] v[1] = "Edge"    -> Array(<<Number(x.id), Number(x.relation_type), Number(x.src_node),
                                      Number(x.dst_node), CompactProperties(x.properties)>>)
       [] v[1] = "Path"    -> Array(<<CompactAll([i \in DOMAIN x.nodes |-> <<"Node", x.nodes[i]>>]),
                                      CompactAll([i \in DOMAIN x.edges |-> <<"Edge", x.edges[i]>>])>>)
       [] v[1] = "Map"     -> Array(FlattenSeq([i \in DOMAIN x |-> <<Text(x[i][1]), CompactCell(x[i][2])>>]))
       [] v[1] = "Point"   -> Array(<<Text(x.latitude), Text(x.longitude)>>)

CompactHeader ==
  Array([i \in DOMAIN columns |->
           Array(<<Number(CHOOSE n \in 1..3 : ColumnType(n) = columns[i].column_type), Text(columns[i].name)>>)])

CompactStats == Array([i \in DOMAIN stats |-> Text(stats[i].text)])

\* A query without RETURN is answered with its statistics alone.
Reply == IF columns = <<>> THEN Array(<<CompactStats>>)
         ELSE Array(<<CompactHeader, Array([i \in DOMAIN rows |-> CompactAll(rows[i])]), CompactStats>>)

-----------------------------------------------------------------------------
Init == /\ columns \in Columns
        /\ rows = <<>>
        /\ stats = <<>>

AddRow == /\ columns # <<>>
          /\ (Len(rows) + 1) * Len(columns) <= MaxCells
          /\ \E row \in [1..Len(columns) -> Cells] : rows' = Append(rows, row)
          /\ UNCHANGED <<columns, stats>>

AddStat == /\ Len(stats) < MaxStats
           /\ \E s \in Stats : stats' = Append(stats, s)
           /\ UNCHANGED <<columns, rows>>

Next == AddRow \/ AddStat

Spec == Init /\ [][Next]_vars

-----------------------------------------------------------------------------
\* The last value of every key.
StatValues ==
  {kv \in UNION {stats[i].means : i \in DOMAIN stats} :
     \E i \in DOMAIN stats :
       /\ kv \in stats[i].means
       /\ \A k \in DOMAIN stats : k > i => \A later \in stats[k].means : later[1] # kv[1]}

(* Every result that the server can send, however nodes, edges, paths, maps
   and arrays are nested in its cells, is decoded to itself: no row, cell or
   property is lost, shifted or replaced by a default, and a statistic has the
   last value sent for it, without the blanks around it. *)
GraphRoundTrip ==
  parse_graph_result(Reply) =
    Ok([columns |-> columns, rows |-> rows, stats |-> [raw |-> [i \in DOMAIN stats |-> stats[i].text], values |-> StatValues]], 0)

=============================================================================
