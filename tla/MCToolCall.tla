------------------------------ MODULE MCToolCall ------------------------------
(* Small instances of ToolCall for TLC.                                      *)
EXTENDS ToolCall, TLC

Symmetry == Permutations(Tasks) \cup Permutations(Conv)

=============================================================================
