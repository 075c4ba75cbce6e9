------------------------ MODULE MCStandaloneRouter ------------------------
(* Model-checking instances of StandaloneRouter. *)
EXTENDS StandaloneRouter, TLC

(* Tasks and connections are interchangeable (safety runs only). *)
Symmetry == Permutations(Tasks) \cup Permutations(Conns)
=============================================================================
