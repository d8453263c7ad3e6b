------------------------------ MODULE Admission ------------------------------
(***************************************************************************)
(* What the admission table promises the router about one (key, kind)        *)
(* entry, without queues, futures or clocks: ordinary calls overlap, an      *)
(* exclusive one is alone, a condemned instance shuts the entry, and it       *)
(* opens again only when everybody has left and nothing is owed any more.    *)
(* ExclusiveSlots implements this module; SandboxRouter is built on it.       *)
(***************************************************************************)
EXTENDS Naturals

CONSTANTS
  Calls,      \* tool calls
  Instances   \* physical sandbox instances

VARIABLES
  inside,     \* calls whose body, or own cleanup, is running
  alone,      \* the only call inside asked for an exclusive hold
  owed,       \* instances condemned and not yet dealt with
  open        \* new calls are admitted

vars == <<inside, alone, owed, open>>

TypeOK ==
  /\ inside \subseteq Calls
  /\ alone \in BOOLEAN
  /\ owed \subseteq Instances
  /\ open \in BOOLEAN

Init ==
  /\ inside = {}
  /\ alone = FALSE
  /\ owed = {}
  /\ open = TRUE

-----------------------------------------------------------------------------

\* A call is admitted.
Enter(c, exclusively) ==
  /\ open
  /\ c \notin inside
  /\ ~alone
  /\ exclusively => inside = {}
  /\ inside' = inside \cup {c}
  /\ alone' = exclusively
  /\ UNCHANGED <<owed, open>>

\* A call inside condemns an instance.
Condemn(c, i) ==
  /\ c \in inside
  /\ owed' = owed \cup {i}
  /\ open' = FALSE
  /\ UNCHANGED <<inside, alone>>

\* A call inside closes admission without condemning anything yet.
Shut(c) ==
  /\ c \in inside
  /\ open' = FALSE
  /\ UNCHANGED <<inside, alone, owed>>

\* A call leaves; the last one reopens the entry unless a cleanup is owed.
Exit(c) ==
  /\ c \in inside
  /\ inside' = inside \ {c}
  /\ alone' = FALSE
  /\ open' = (open \/ (inside = {c} /\ owed = {}))
  /\ UNCHANGED owed

\* Cleanups end, one way or the other, and only once everybody has left.
Settle(S) ==
  /\ inside = {}
  /\ S \subseteq owed
  /\ owed' = owed \ S
  /\ UNCHANGED <<inside, alone, open>>

\* Nothing is owed any more: the entry opens.
Reopen ==
  /\ inside = {}
  /\ owed = {}
  /\ open' = TRUE
  /\ UNCHANGED <<inside, alone, owed>>

Next ==
  \/ \E c \in Calls :
       \/ \E exclusively \in BOOLEAN : Enter(c, exclusively)
       \/ \E i \in Instances : Condemn(c, i)
       \/ Shut(c)
       \/ Exit(c)
  \/ \E S \in SUBSET Instances : Settle(S)
  \/ Reopen

Spec == Init /\ [][Next]_vars

=============================================================================
