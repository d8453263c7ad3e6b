--------------------------- MODULE MCSandboxRouter ---------------------------
(***************************************************************************)
(* The router and its ledger, on a small instance: SandboxRouter for one    *)
(* backend and kind with the calls that use its instances, DisposalLedger   *)
(* for the ledger alone across backends, kinds and instances.  Each is a    *)
(* model of its own of the key's ledger, so a behaviour explores one and    *)
(* leaves the other at rest.                                                *)
(***************************************************************************)
EXTENDS SandboxRouter, TLC

CONSTANTS
  Backends, Kinds, Ids, Every, Selectors, Workers, Idle \* those of DisposalLedger

ASSUME BackendsAssumption == Backends # {}
ASSUME SelectorAssumption ==
  /\ Every \notin Kinds \cup Ids
  /\ Selectors \subseteq (Kinds \cup {Every}) \X (Ids \cup {Every})
ASSUME IdleAssumption == Idle \notin {<<b, s[1], s[2]>> : b \in Backends, s \in Selectors}

VARIABLES
  flagged, targets, dirty, stage, mode, agenda, deleting, read, reached, \* those of DisposalLedger
  half  \* the half that is explored

L == INSTANCE DisposalLedger WITH
  Instances <- Ids, pc <- stage, at <- deleting, snap <- read, struck <- reached

ledgerVars == <<flagged, targets, dirty, stage, mode, agenda, deleting, read, reached>>

RouterInit ==
  /\ Init /\ L!Init
  /\ half \in {"calls", "ledger"}
  /\ half = "ledger" => setup = CHOOSE s \in Setups : TRUE

RouterNext ==
  /\ \/ half = "calls" /\ Next /\ UNCHANGED ledgerVars
     \/ half = "ledger" /\ L!Next /\ UNCHANGED vars
  /\ UNCHANGED half

RouterSpec == RouterInit /\ [][RouterNext]_<<vars, ledgerVars, half>>

\* DisposalLedger: what was left behind stays marked until a delete of it has gone through.
MarkedUntilGone == L!MarkedUntilGone

\* Every rung, the reset only where the backend has snapshots.
EverySetup == {<<"reclaim", TRUE>>, <<"reset", TRUE>>, <<"dispose", FALSE>>}

\* Everything under the key, everything of a kind, and one instance of it.
EveryShape == {<<Every, Every>>} \cup (Kinds \X ({Every} \cup Ids))

\* The two halves are symmetric apart, so one permutation may act on a set of each.
Identity(p) == \A e \in DOMAIN p : p[e] = e
Symmetry ==
  Permutations(Instances) \cup
  {pair[1] @@ pair[2] : pair \in {both \in Permutations(Calls) \X Permutations(Workers) :
                                   Identity(both[1]) <=> Identity(both[2])}}

=============================================================================
