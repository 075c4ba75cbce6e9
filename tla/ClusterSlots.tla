---------------------------- MODULE ClusterSlots ----------------------------
(***************************************************************************)
(* The reply to CLUSTER SLOTS and its decoder, SlotMap::from_cluster_slots *)
(* (router/cluster.rs).  A server announces ranges of slots in any order;  *)
(* an address is a pair of host and port, a host NullValue if the server   *)
(* does not know it.                                                       *)
(***************************************************************************)
EXTENDS Resp, SlotMap

CONSTANTS
  LastSlot,    \* the slots are 0..LastSlot
  Masters,     \* addresses of masters
  ReplicaSets, \* sequences of addresses of replicas
  MaxRanges    \* bound on the ranges of a reply

VARIABLE announced   \* SlotRanges, in the order of the reply

-----------------------------------------------------------------------------
(* The decoder.  A result is <<"ok", ...>> or <<"err">>. *)

\* `as u16`
U16(n) == n % 65536

parse_node_addr(val) ==
  IF val[1] = "array" /\ Len(val[2]) >= 2 /\ as_str(val[2][1]) # None /\ val[2][2][1] = "int"
  THEN <<"ok", <<as_str(val[2][1]), val[2][2][2]>>>>
  ELSE <<"err">>

\* The replicas whose address can be read.
parse_replicas(items) ==
  LET read == SelectSeq([i \in DOMAIN items |-> parse_node_addr(items[i])], LAMBDA r : r[1] = "ok")
  IN [i \in DOMAIN read |-> read[i][2]]

parse_range(items) ==
  LET master == parse_node_addr(items[3])
  IN IF items[1][1] # "int" \/ items[2][1] # "int" \/ master[1] = "err" THEN <<"err">>
     ELSE <<"ok", [start |-> U16(items[1][2]), end |-> U16(items[2][2]), master |-> master[2],
                   replicas |-> parse_replicas(SubSeq(items, 4, Len(items)))]>>

\* Mutant of from_cluster_slots: the ranges are left in the order of the reply.
from_cluster_slots_unsorted(resp) ==
  IF resp[1] # "array" THEN <<"err">>
  ELSE LET entries == SelectSeq(resp[2], LAMBDA e : e[1] = "array" /\ Len(e[2]) >= 3)
           ranges == [i \in DOMAIN entries |-> parse_range(entries[i][2])]
       IN IF \E i \in DOMAIN ranges : ranges[i][1] = "err" THEN <<"err">>
          ELSE <<"ok", [i \in DOMAIN ranges |-> ranges[i][2]]>>

from_cluster_slots(resp) ==
  IF resp[1] # "array" THEN <<"err">>
  ELSE LET entries == SelectSeq(resp[2], LAMBDA e : e[1] = "array" /\ Len(e[2]) >= 3)
           ranges == [i \in DOMAIN entries |-> parse_range(entries[i][2])]
       IN IF \E i \in DOMAIN ranges : ranges[i][1] = "err" THEN <<"err">>
          ELSE <<"ok", SortSeq([i \in DOMAIN ranges |-> ranges[i][2]], LAMBDA x, y : x.start < y.start)>>

-----------------------------------------------------------------------------
(* The server *)

Init == announced = <<>>

Announce == /\ Len(announced) < MaxRanges
            /\ \E a, b \in 0..LastSlot, m \in Masters, rs \in ReplicaSets :
                 /\ a <= b
                 /\ \A i \in DOMAIN announced : b < announced[i].start \/ announced[i].end < a
                 /\ announced' = Append(announced, [start |-> a, end |-> b, master |-> m, replicas |-> rs])

Spec == Init /\ [][Announce]_announced

NodeReply(addr) == <<"array", <<addr[1], <<"int", addr[2]>>, <<"bulk", <<"i", "d">>>>>>>>

Reply == <<"array",
           [i \in DOMAIN announced |->
              <<"array", <<<<"int", announced[i].start>>, <<"int", announced[i].end>>, NodeReply(announced[i].master)>>
                         \o [j \in DOMAIN announced[i].replicas |-> NodeReply(announced[i].replicas[j])]>>]>>

Known(addr) == addr[1] # NullValue
Address(addr) == <<addr[1][2], addr[2]>>

(* The slot map is refused only if the address of a master is missing, and
   otherwise gives every slot the master announced for it and one of its
   replicas, in whatever order the ranges came; and the vector is sorted, as
   binary_search_by needs it. *)
RoutesAsAnnounced ==
  LET result == from_cluster_slots(Reply)
      At(s) == {i \in DOMAIN announced : s \in announced[i].start..announced[i].end}
  IN IF \E i \in DOMAIN announced : ~Known(announced[i].master) THEN result = <<"err">>
     ELSE /\ \A i, j \in DOMAIN result[2] : i < j => result[2][i].end < result[2][j].start
          /\ \A s \in 0..LastSlot :
            LET master  == master_for_slot(ToSet(result[2]), s)
                replica == replica_for_slot(ToSet(result[2]), s)
            IN IF At(s) = {} THEN master = NoNode /\ replica = NoNode
               ELSE \E i \in At(s) :
                      LET replicas == {Address(r) : r \in {q \in ToSet(announced[i].replicas) : Known(q)}}
                      IN /\ master = Address(announced[i].master)
                         /\ IF replicas = {} THEN replica = master ELSE replica \in replicas
=============================================================================
