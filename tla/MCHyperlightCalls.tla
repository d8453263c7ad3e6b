------------------------- MODULE MCHyperlightCalls -------------------------
(***************************************************************************)
(* HyperlightCalls on a small instance.                                    *)
(***************************************************************************)
EXTENDS HyperlightCalls

\* The calls belong to one router each, or all to one.
OwnOrShared == {[c \in Calls |-> c], [c \in Calls |-> CHOOSE d \in Calls : TRUE]}
=============================================================================
