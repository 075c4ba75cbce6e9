-------------------------- MODULE MCClusterRouter --------------------------
EXTENDS ClusterRouter, TLC

CONSTANTS n1, n2, n3

Symmetry == Permutations(Tasks)

NoReplicas == [n \in Nodes |-> <<>>]
OneReplica == [n \in Nodes |-> IF n = n1 THEN <<n3>> ELSE <<>>]

TwoSlots == 0..1

\* One range for all slots.
Together == {[s \in Slots |-> n1]}

Writes == {[slot |-> s, read |-> FALSE] : s \in Slots}
EveryKind == {[slot |-> 1, read |-> FALSE], [slot |-> 0, read |-> TRUE], [slot |-> NoSlot, read |-> FALSE]}
=============================================================================
