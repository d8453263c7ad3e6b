-------------------------- MODULE MCExclusiveSlots --------------------------
(* Small instances of ExclusiveSlots for TLC.                                *)
EXTENDS ExclusiveSlots, TLC

\* Calls are interchangeable when their loops close alike, instances always are.
Symmetry ==
  Permutations(Mortal) \cup Permutations(Calls \ Mortal) \cup Permutations(Instances)

=============================================================================
