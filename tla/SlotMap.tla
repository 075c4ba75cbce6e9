------------------------------ MODULE SlotMap ------------------------------
(***************************************************************************)
(* The slot map of the cluster router (router/cluster.rs): ranges of slots *)
(* [start, end, master, replicas].  The code keeps them in a vector sorted *)
(* by start, for bisection; here they are a set.                           *)
(***************************************************************************)
EXTENDS Integers, Sequences

CONSTANT NoNode  \* the empty address

\* What binary_search_by finds, one of these, if the vector is sorted.
RangesOf(ranges, slot) == {r \in ranges : slot \in r.start..r.end}

master_for_slot(ranges, slot) ==
  IF RangesOf(ranges, slot) = {} THEN NoNode ELSE (CHOOSE r \in RangesOf(ranges, slot) : TRUE).master

replica_for_slot(ranges, slot) ==
  LET r == CHOOSE r \in RangesOf(ranges, slot) : TRUE
  IN IF RangesOf(ranges, slot) = {} THEN NoNode
     ELSE IF r.replicas = <<>> THEN r.master
     ELSE r.replicas[(slot % Len(r.replicas)) + 1]

\* Mutant of update_slot_master: the slot gets a range of its own, and its old one keeps it.
update_slot_master_pushes(ranges, slot, addr) ==
  ranges \cup {[r EXCEPT !.start = slot, !.end = slot, !.master = addr] : r \in RangesOf(ranges, slot)}

update_slot_master(ranges, slot, addr) ==
  {IF slot \in r.start..r.end THEN [r EXCEPT !.master = addr] ELSE r : r \in ranges}

\* ranges.first()
first_master(ranges) ==
  IF ranges = {} THEN NoNode ELSE (CHOOSE r \in ranges : \A o \in ranges : r.start <= o.start).master
=============================================================================
