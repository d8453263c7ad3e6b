----------------------------- MODULE ProgramStop -----------------------------
(***************************************************************************)
(* Starting and stopping the guest program (host_tool_calls_over_exec and        *)
(* _stop_recorded_processes in _host_tools_over_exec.py, ProcessTracker in       *)
(* _processes.py).  The launcher backgrounds the program behind a gate and        *)
(* prints a receipt with its pid, and its process group where the guest has       *)
(* setsid.  However the supervision of the program ends, the host signals the     *)
(* recorded number, signals the descendants it has seen outside the group, and    *)
(* looks again; what it cannot vouch for it notes, and the router disposes of a   *)
(* sandbox that was noted.                                                    *)
(*                                                                         *)
(* The guest's processes start, end and leave the group between any two of the    *)
(* host's calls, and once the program's number is free another process may get    *)
(* it.  The tracker knows only what its snapshots showed, and the probe that       *)
(* takes one is no photograph: it lists /proc, then reads the processes one by     *)
(* one while they go on.                                                      *)
(***************************************************************************)
EXTENDS Naturals, FiniteSets

CONSTANTS
  Kids,      \* processes the program starts, directly or not, numbered as they start
  Prog,      \* the process whose number is in the receipt
  Other,     \* a process of somebody else that gets that number later
  Nobody     \* init, and the absence of a snapshot

Procs == Kids \cup {Prog, Other}

VARIABLES
  alive,       \* processes that run
  begun,       \* those that were ever started
  parent,      \* the process that forked it; a running one's parent while that runs, init after
  member,      \* processes started in the launcher's process group
  left,        \* members that have left it with setsid
  released,    \* the gate is open: the program's own code may run
  pc,          \* what the host awaits
  session,     \* the guest has setsid
  executed,    \* launcher.executed
  receipt,     \* launcher.pid is set, and launcher.pgid where session
  phase,       \* tracker.phase is before_launch
  scan,        \* the guest as it was when the probe under way began to list /proc
  known,       \* tracker.known: attributed identities
  inside,      \* tracker.observed: those last seen in the launcher's group
  latest,      \* tracker.latest: the last snapshot, Nobody for None
  incomplete,  \* tracker.incomplete, which stays once set
  fate,        \* the signal's outcome
  spared,      \* a descendant could not be signalled
  noted,       \* note_unclean
  shown,       \* history: processes a snapshot showed with their line of parents to the program
  before       \* history: processes started before the look that the signal, or the end, goes by

guest == <<alive, begun, parent, member, left>>
findings == <<phase, known, inside, incomplete, shown>>
tracker == <<findings, latest>>
vars == <<guest, released, pc, session, executed, receipt, scan, tracker, fate, spared, noted, before>>

\* The launcher's group as it is.
grouped == member \ left

Guests == [alive : SUBSET Procs, begun : SUBSET Procs, left : SUBSET Kids]

TypeOK ==
  /\ alive \subseteq begun /\ begun \subseteq Procs
  /\ parent \in [Procs -> Procs \cup {Nobody}]
  /\ member \subseteq Kids \cup {Prog} /\ left \subseteq Kids
  /\ {released, session, executed, receipt, phase, incomplete, spared, noted}
       \subseteq BOOLEAN
  /\ pc \in {"before", "upload", "exec", "gate", "after", "run", "catchUp", "cleanup",
             "signal", "descendants", "verify", "over"}
  /\ scan \in Guests \cup {Nobody}
  /\ known \subseteq Procs /\ inside \subseteq known /\ shown \subseteq Procs /\ before \subseteq Procs
  /\ latest \in (SUBSET Procs) \cup {Nobody}
  /\ fate \in {"none", "unrecorded", "unknown", "refused", "sent", "absent"}

Init ==
  /\ alive = {} /\ begun = {} /\ parent = [p \in Procs |-> Nobody]
  /\ member = {} /\ left = {}
  /\ released = FALSE /\ pc = "before" /\ session \in BOOLEAN
  /\ executed = FALSE /\ receipt = FALSE
  /\ phase = FALSE /\ scan = Nobody /\ known = {} /\ inside = {} /\ shown = {} /\ latest = Nobody
  /\ incomplete = FALSE /\ before = {}
  /\ fate = "none" /\ spared = FALSE /\ noted = FALSE

-----------------------------------------------------------------------------
(* The guest.                                                                *)

host == <<released, pc, session, executed, receipt, scan, tracker, fate, spared, noted, before>>

\* A process of the program forks.
Fork(p, k) ==
  /\ released /\ p \in alive /\ k \in Kids \ begun /\ \A j \in Kids \ begun : k <= j
  /\ alive' = alive \cup {k} /\ begun' = begun \cup {k}
  /\ parent' = [parent EXCEPT ![k] = p]
  /\ member' = IF p \in grouped THEN member \cup {k} ELSE member
  /\ UNCHANGED <<left, host>>

\* A child takes a session of its own.
Escape(k) ==
  /\ k \in alive \cap grouped
  /\ left' = left \cup {k}
  /\ UNCHANGED <<alive, begun, parent, member, host>>

End(p) ==
  /\ p \in alive /\ alive' = alive \ {p}
  /\ UNCHANGED <<begun, parent, member, left, host>>

\* The program's number goes to a process of somebody else.
Reuse ==
  /\ Prog \in begun \ alive /\ Other \notin begun
  /\ alive' = alive \cup {Other} /\ begun' = begun \cup {Other}
  /\ UNCHANGED <<parent, member, left, host>>

Guest ==
  \/ \E p \in Kids \cup {Prog}, k \in Kids : Fork(p, k)
  \/ \E k \in Kids : Escape(k)
  \/ \E p \in Procs : End(p)
  \/ Reuse

-----------------------------------------------------------------------------
(* The tracker.                                                              *)

HasNumber(p) == receipt /\ p \in {Prog, Other}

\* attribute: the recorded number, unless a process is known by it already, and the recorded
\* group; then the descendants of what is known.
Roots(seen, within, old) ==
  {p \in seen : (HasNumber(p) /\ old \cap {Prog, Other} = {})
                \/ (receipt /\ session /\ p \in within)}

\* The roots in a snapshot, and every process that lines of parents within it lead to from them.
Lineage(seen, lines, roots) ==
  LET closed == {s \in SUBSET seen : /\ roots \cap seen \subseteq s
                                     /\ \A p \in lines : parent[p] \in s => p \in s}
  IN {p \in seen : \A s \in closed : p \in s}

Attributed(seen, lines, within, old) ==
  old \cup Lineage(seen, lines, old \cup Roots(seen, within, old))

Survivors(seen, found) == IF seen = Nobody THEN {} ELSE seen \cap found

Look(seen, lines, within) ==
  /\ latest' = seen
  /\ known' = Attributed(seen, lines, within, known)
  /\ shown' = shown \cup Lineage(seen, lines, {Prog})
  /\ inside' = (inside \ seen) \cup (IF receipt /\ session THEN within ELSE {})

LookFails == latest' = Nobody /\ incomplete' = TRUE /\ UNCHANGED <<known, inside, shown>>

\* What a read of each process may find while the probe is at it.
Present == scan.alive \cup (begun \ scan.begun)
Readable(seen) == seen \subseteq Present /\ ~({Prog, Other} \subseteq seen)

\* Its parent's number, while that runs or ran a moment ago; its group, then or now.
Lines(seen) == {p \in seen : parent[p] \in seen}
Within(seen) == (seen \cap member) \ scan.left

\* snapshot: what runs all along is read, or missed and reported so; what starts after the listing
\* is missed unreported, and what ends meanwhile may be reported or not.  Or it fails.
Snapshot(first) ==
  /\ phase' = first
  /\ \/ /\ scan # Nobody
        /\ \E seen \in {s \in SUBSET Present : Readable(s)} :
             /\ \E gone \in SUBSET {p \in Lines(seen) : parent[p] \notin alive},
                  out \in SUBSET (Within(seen) \cap left) :
                  Look(seen, Lines(seen) \ gone, Within(seen) \ out)
             /\ incomplete' \in {incomplete, TRUE}
             /\ ~incomplete' => scan.alive \cap alive \subseteq seen
     \/ LookFails

\* replaced: the recorded number is seen with a process other than the one known under it.
Replaced == receipt /\ Prog \in known /\ latest # Nobody /\ Other \in latest

-----------------------------------------------------------------------------
(* The host: host_tool_calls_over_exec.                                      *)

progress == <<released, session, executed, receipt>>

\* The probe of the look that is due begins: it lists /proc.
List ==
  /\ scan = Nobody
  /\ pc \in {"before", "after", "cleanup", "verify"} \/ (pc = "catchUp" /\ phase)
  /\ scan' = [alive |-> alive, begun |-> begun, left |-> left]
  /\ before' = begun
  /\ UNCHANGED <<guest, progress, pc, tracker, fate, spared, noted>>

BeforeLaunch ==
  /\ pc = "before"
  /\ \/ Snapshot(TRUE) /\ pc' = "upload" /\ UNCHANGED noted
     \/ phase' = TRUE /\ LookFails /\ pc' = "over" /\ noted' = TRUE
  /\ UNCHANGED <<guest, progress, fate, spared>>

\* The launcher is written; a failure leaves with nothing started, and with a note only if the
\* first snapshot could not vouch for the sandbox.
Upload ==
  /\ pc = "upload"
  /\ \/ pc' = "exec" /\ executed' = TRUE /\ UNCHANGED noted
     \/ pc' = "over" /\ noted' = incomplete /\ UNCHANGED executed
  /\ UNCHANGED <<guest, released, session, receipt, tracker, fate, spared>>

Starts ==
  /\ alive' = alive \cup {Prog} /\ begun' = begun \cup {Prog}
  /\ member' = IF session THEN {Prog} ELSE {}
  /\ UNCHANGED <<parent, left>>

\* sandbox.exec of the launcher: it returns with a receipt, or without one, or runs out or fails
\* when it had started the program or had not.
Exec ==
  /\ pc = "exec"
  /\ \/ Starts /\ receipt' = TRUE /\ pc' \in {"gate", "after"}
     \/ (Starts \/ UNCHANGED guest) /\ UNCHANGED receipt /\ pc' \in {"after", "catchUp"}
  /\ UNCHANGED <<released, session, executed, tracker, fate, spared, noted>>

\* The start file: written, and perhaps not heard to be.
Gate ==
  /\ pc = "gate"
  /\ \/ released' = TRUE /\ pc' \in {"after", "catchUp"}
     \/ UNCHANGED released /\ pc' = "catchUp"
  /\ UNCHANGED <<guest, session, executed, receipt, tracker, fate, spared, noted>>

AfterLaunch ==
  /\ pc = "after"
  /\ Snapshot(FALSE)
  /\ pc' = IF released THEN "run" ELSE "catchUp"
  /\ UNCHANGED <<guest, progress, fate, spared, noted>>

\* The loop ends, with the program's result, its deadline or an error: every way out of it leads
\* through the stop.
Leave ==
  /\ pc = "run" /\ pc' = "catchUp"
  /\ UNCHANGED <<guest, progress, tracker, fate, spared, noted>>

Unsent == IF receipt THEN "unknown" ELSE "unrecorded"

\* _stop_recorded_processes, once whichever path gets there (launcher.stopped).  A stop that comes
\* before the second snapshot takes it.
CatchUp ==
  /\ pc = "catchUp"
  /\ IF phase THEN Snapshot(FALSE) ELSE UNCHANGED tracker
  /\ fate' = Unsent
  /\ pc' = "cleanup"
  /\ UNCHANGED <<guest, progress, spared, noted>>

BeforeCleanup ==
  /\ pc = "cleanup"
  /\ Snapshot(FALSE) /\ pc' = "signal"
  /\ UNCHANGED <<guest, progress, fate, spared, noted>>

Target ==
  IF session
  THEN IF grouped \cap alive # {} THEN grouped \cap alive ELSE alive \cap {Other}
  ELSE alive \cap {Prog, Other}

Killed(dead) ==
  /\ alive' = alive \ dead
  /\ UNCHANGED <<begun, parent, member, left>>

\* The signal is accepted, or is refused, fails or runs out; what it reached may be gone or not.
Send ==
  /\ \E dead \in SUBSET Target : Killed(dead)
  /\ fate' \in {"refused"} \cup (IF Target = {} THEN {} ELSE {"sent"})

\* No look is read again before the next has replaced it.
LookIsPast == latest' = Nobody /\ UNCHANGED findings

\* A slip: the number in the receipt is signalled whoever has it.
SignalAnyway ==
  /\ pc = "signal" /\ receipt /\ Send
  /\ pc' = "descendants"
  /\ UNCHANGED <<released, session, executed, receipt, spared, noted>>
  /\ LookIsPast

\* kill -KILL, by group where there is one, never at a number the last look showed with another
\* process, and not at all once the stop's time is up.
Signal ==
  /\ pc = "signal"
  /\ \/ ~receipt /\ UNCHANGED <<fate, guest>>
     \/ receipt /\ Replaced /\ fate' = "refused" /\ UNCHANGED guest
     \/ receipt /\ ~Replaced /\ fate' = "unknown" /\ UNCHANGED guest
     \/ receipt /\ ~Replaced /\ Send
  /\ pc' = "descendants"
  /\ UNCHANGED <<released, session, executed, receipt, spared, noted>>
  /\ LookIsPast

\* stop_descendants: by pid and start time, those last seen outside the group.
Escaped == (known \ inside) \ {Prog, Other}

Descendants ==
  /\ pc = "descendants"
  /\ \E dead \in SUBSET (Escaped \cap alive) : Killed(dead)
  /\ spared' \in (IF Escaped = {} THEN {FALSE} ELSE BOOLEAN)
  /\ pc' = "verify"
  /\ UNCHANGED <<progress, tracker, fate, noted>>

\* A signal that was refused is an absence when every snapshot was complete and the last one
\* shows none of the run's processes, and nobody else under the number.
Verdict ==
  IF /\ fate = "refused" /\ receipt /\ latest' # Nobody /\ ~incomplete'
     /\ Survivors(latest', known') = {}
     /\ ~(Prog \in known' /\ Other \in latest')
  THEN "absent" ELSE fate

\* A slip: a signal that was sent vouches for the sandbox.
NotedByFate == noted \/ fate' \notin {"absent", "sent"}

\* What is noted: a descendant that could not be signalled, a snapshot that could not vouch for
\* what it showed, a known process that runs, a signal that was not sent (_note_unclean_stop).
Noted ==
  \/ noted \/ spared \/ incomplete'
  \/ Survivors(latest', known') # {}
  \/ fate' \notin {"absent", "sent"}

Verify ==
  /\ pc = "verify"
  /\ Snapshot(FALSE)
  /\ fate' = Verdict
  /\ noted' = Noted
  /\ pc' = "over"
  /\ UNCHANGED <<guest, progress, spared>>

\* A cancellation during the stop: what is left of it still runs, and the sandbox is noted.
Interrupt ==
  /\ pc \in {"catchUp", "cleanup", "signal", "descendants"}
  /\ CASE pc = "signal" /\ receipt /\ ~Replaced -> \E dead \in SUBSET Target : Killed(dead)
       [] pc = "descendants" -> \E dead \in SUBSET (Escaped \cap alive) : Killed(dead)
       [] OTHER -> UNCHANGED guest
  /\ IF pc \in {"catchUp", "cleanup"} THEN LookFails /\ phase' = FALSE ELSE LookIsPast
  /\ pc' = IF pc = "descendants" THEN "verify" ELSE "descendants"
  /\ fate' = IF pc = "catchUp" THEN Unsent ELSE fate
  /\ noted' = TRUE
  /\ UNCHANGED <<released, session, executed, receipt, spared>>

\* An error or a cancellation anywhere else, once the launcher may have run.
Raise ==
  /\ pc \in {"gate", "after"}
  /\ IF pc = "after" THEN LookFails /\ phase' = FALSE ELSE UNCHANGED tracker
  /\ pc' = "catchUp"
  /\ UNCHANGED <<guest, progress, fate, spared, noted>>

Step ==
  \/ BeforeLaunch \/ Upload \/ Exec \/ Gate \/ AfterLaunch \/ Leave \/ Raise
  \/ CatchUp \/ BeforeCleanup \/ Signal \/ Descendants \/ Verify \/ Interrupt

\* A look goes by: the history of it is kept for the signal and, of a sandbox that was not noted,
\* for the end.
Host ==
  \/ List
  \/ /\ Step /\ scan' = Nobody
     /\ before' = IF pc' = "signal" \/ (pc' = "over" /\ ~noted') THEN before ELSE {}

Next == Guest \/ Host

Spec == Init /\ [][Next]_vars

-----------------------------------------------------------------------------
(* Properties.                                                               *)

\* A sandbox that was not noted holds no process that any snapshot showed to descend from the
\* program, however it moved on since, and of the program's group, seen or not, only what started
\* after the last look began to list /proc.
UnnotedIsQuiet ==
  pc = "over" /\ executed /\ ~noted =>
    /\ shown \cap alive = {}
    /\ session => grouped \cap alive \cap before = {}

\* A process that took the program's number is signalled only where no look could tell: it started
\* after the last one before the signal had begun, or no look had shown the program under that
\* number, or one of them is reported incomplete, and then the sandbox is not trusted again.
ReplacementIsSpared ==
  [][pc = "signal" /\ Other \in alive \ alive' /\ pc' # pc /\ Prog \in known /\ ~incomplete =>
       Other \notin before]_vars

=============================================================================
