-------------------------- MODULE MCGuestTransport --------------------------
(***************************************************************************)
(* The two halves of the transport for host tools over exec, on a small    *)
(* instance: HostToolsOverExec serves the program's requests, ProgramStop  *)
(* starts the program and stops it.  They share no state but the end of    *)
(* the run, which either may reach at any point, so a behaviour explores   *)
(* one half and leaves the other at rest.                                  *)
(***************************************************************************)
EXTENDS HostToolsOverExec, FiniteSets

CONSTANTS Kids, Prog, Other, Nobody

ASSUME ProcessesAssumption ==
  /\ Kids \subseteq Nat
  /\ Prog # Other /\ {Prog, Other, Nobody} \cap Kids = {} /\ Nobody \notin {Prog, Other}
  /\ \A seen \in SUBSET (Kids \cup {Prog, Other}) : seen # Nobody

VARIABLES
  alive, begun, parent, member, left, released, stopPc, session, executed, receipt, scan, phase,
  known, inside, latest, incomplete, fate, spared, noted, shown, before, \* those of ProgramStop
  half      \* the half that is explored

Stop == INSTANCE ProgramStop WITH pc <- stopPc

stopVars == <<alive, begun, parent, member, left, released, stopPc, session, executed, receipt,
              scan, phase, known, inside, latest, incomplete, fate, spared, noted, shown, before>>

TransportInit ==
  /\ Init /\ Stop!Init
  /\ half \in {"serve", "stop"} /\ (half = "serve" => session)

\* Bound: a sandbox that will be noted whatever its guest does is only followed to its note.
Settled ==
  /\ stopPc \notin {"before", "upload", "exec"}
  /\ \/ noted \/ incomplete \/ ~receipt
     \/ stopPc \in {"descendants", "verify"} /\ (spared \/ fate \notin {"refused", "sent"})

TransportNext ==
  /\ \/ half = "serve" /\ Next /\ UNCHANGED stopVars
     \/ half = "stop" /\ Stop!Next /\ (Settled => stopPc' # stopPc) /\ UNCHANGED vars
  /\ UNCHANGED half

\* The fairness is that of HostToolsOverExec, the only half with a liveness property; the safety
\* properties of the other are of every step it can take.
TransportSpec == TransportInit /\ [][TransportNext]_<<vars, stopVars, half>> /\ Fairness

\* ProgramStop: a sandbox that was not noted holds no process of the program that a look showed, and
\* of its group only what started after the last look began.
UnnotedIsQuiet == Stop!UnnotedIsQuiet

\* ProgramStop: a process that took the program's number is signalled only where no look could
\* tell, or where a look is reported incomplete.
ReplacementIsSpared == Stop!ReplacementIsSpared

=============================================================================
