-------------------------- MODULE MCSentinelRouter --------------------------
EXTENDS SentinelRouter, TLC

Symmetry == Permutations(Tasks)
=============================================================================
