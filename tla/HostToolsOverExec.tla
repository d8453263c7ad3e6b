-------------------------- MODULE HostToolsOverExec --------------------------
(***************************************************************************)
(* Host tools over files (_host_tools_over_exec.py and the guest's shim,        *)
(* _guest/maf_host_tools.py).  The guest program's threads and processes take    *)
(* numbers by creating claim files, publish requests under them and poll for      *)
(* the responses.  The host cannot list a directory: the supervisor probes a      *)
(* window of request names past its frontier, serves what it finds in number      *)
(* order, steps over a number whose claimant seems dead, and watches for the      *)
(* program's exit marker until its deadline.                                   *)
(*                                                                         *)
(* Every file operation of the host is an await of its own, so the guest moves    *)
(* between any two of them.  A request file appears whole (it is renamed into     *)
(* place).  What happens to the guest's processes once the loop has ended is      *)
(* ProgramStop's subject: here the guest stands still from then on.              *)
(***************************************************************************)
EXTENDS Naturals, Sequences, FiniteSetsExt

CONSTANTS
  MaxCalls,    \* max_host_tool_calls_per_run
  MaxWindow,   \* _MAX_SPECULATIVE_REQUESTS
  MaxNumber    \* bound: numbers the program's workers claim between them

ASSUME BoundsAssumption ==
  MaxCalls \in Nat /\ MaxWindow \in Nat \ {0} /\ MaxNumber \in Nat

Numbers == 1..MaxNumber

VARIABLES
  claim,    \* NNNN.claim: absent, or created by a worker that lives or has died since
  req,      \* NNNN.request.json: absent, or what it holds
  resp,     \* NNNN.response.json
  marker,   \* the exit marker
  pc,       \* what the supervisor awaits
  served,   \* the frontier: numbers up to it are dealt with
  base,     \* the frontier when the window's probes were made
  probes,   \* the window: what each probe has found
  off,      \* the slot of the window being served
  window,   \* request_window
  hand,     \* what is about to be published
  hole,     \* hole_since: none, since, or due once the grace has passed
  effects,  \* numbers whose tool ran, in that order
  skipped,  \* history: numbers stepped over
  late,     \* history: numbers published when the request of the next was there already
  expired,  \* the run's deadline has passed
  result    \* how the supervisor left: none while it has not

guest == <<claim, req, late>>
walk == <<base, probes, off>>
vars == <<guest, resp, marker, pc, served, walk, window, hand, hole, effects, skipped, expired,
          result>>

Claimed(n) == n \in Numbers /\ claim[n] # "none"
Arrived(n) == n \in Numbers /\ req[n] # "none"

\* A slip: the request past the cap is not read.
ServingBoundExact == MaxCalls

\* _serving_bound: one request more than the cap, for the refusal that says so.
ServingBound == MaxCalls + 1

TypeOK ==
  /\ claim \in [Numbers -> {"none", "live", "dead"}]
  /\ req \in [Numbers -> {"none", "call", "bad", "abandoned"}]
  /\ resp \in [Numbers -> {"none", "value", "refusal"}]
  /\ marker \in BOOLEAN /\ expired \in BOOLEAN
  /\ pc \in {"poll", "marker", "serve", "body", "call", "publish", "claim?", "next?", "own?",
             "skip", "spent", "look", "over"}
  /\ served \in 0..ServingBound /\ base \in 0..ServingBound
  /\ probes \in Seq({"pending", "hit", "miss"})
  /\ off \in Nat /\ window \in 1..MaxWindow
  /\ hand \in {"none", "value", "refusal"}
  /\ hole \in {"none", "since", "due"}
  /\ effects \in Seq(Numbers) /\ skipped \subseteq Numbers /\ late \subseteq Numbers
  /\ result \in {"none", "completed", "timeout", "failed"}

Init ==
  /\ claim = [n \in Numbers |-> "none"]
  /\ req = [n \in Numbers |-> "none"] /\ resp = [n \in Numbers |-> "none"]
  /\ marker = FALSE /\ expired = FALSE
  /\ pc = "poll" /\ served = 0 /\ base = 0 /\ probes = <<>> /\ off = 1
  /\ window = 1 /\ hand = "none" /\ hole = "none"
  /\ effects = <<>> /\ skipped = {} /\ late = {} /\ result = "none"

-----------------------------------------------------------------------------
(* The guest: maf_host_tools.call in each of the program's threads and processes, by the number  *)
(* it runs under, and the launcher.                                          *)

Running == result = "none"

\* _claim: from the lowest number up, until one is won.  Claims are never removed, so the one
\* O_CREAT | O_EXCL that succeeds takes the lowest number still free.
Claim(n) ==
  /\ claim[n] = "none" /\ \A k \in 1..(n - 1) : claim[k] # "none"
  /\ claim' = [claim EXCEPT ![n] = "live"]
  /\ UNCHANGED <<req, late>>

\* _publish, in whatever order the workers reach it: a call, one the host will not read (too
\* large, or not JSON), or the abandonment of a call that could not be written.
Publish(n, body) ==
  /\ claim[n] = "live" /\ req[n] = "none"
  /\ req' = [req EXCEPT ![n] = body]
  /\ late' = IF Arrived(n + 1) THEN late \cup {n} ELSE late
  /\ UNCHANGED claim

\* A worker is killed with its number claimed and nothing published.
Die(n) ==
  /\ claim[n] = "live" /\ req[n] = "none"
  /\ claim' = [claim EXCEPT ![n] = "dead"]
  /\ UNCHANGED <<req, late>>

host == <<resp, pc, served, walk, window, hand, hole, effects, skipped, result>>

Guest ==
  /\ Running
  /\ \E n \in Numbers :
       \/ Claim(n) \/ Die(n)
       \/ \E body \in {"call", "bad", "abandoned"} : Publish(n, body)
  /\ UNCHANGED <<host, marker, expired>>

\* The launcher's wait returns and it renames the marker into place; processes the program
\* forked may still be running.
Exit ==
  /\ Running /\ ~marker
  /\ marker' = TRUE
  /\ UNCHANGED <<guest, host, expired>>

\* The deadline passes.
Expire ==
  /\ Running /\ ~expired
  /\ expired' = TRUE
  /\ UNCHANGED <<guest, host, marker>>

\* The frontier has been absent for _CLAIM_HOLE_GRACE.
GracePasses ==
  /\ Running /\ hole = "since"
  /\ hole' = "due"
  /\ UNCHANGED <<guest, marker, expired, resp, pc, served, walk, window, hand, effects, skipped,
                 result>>

-----------------------------------------------------------------------------
(* The supervisor: the loop of _supervise.                                   *)

Leave(how) == pc' = "over" /\ result' = how

\* The top of the loop: a deadline that has passed, an allowance that is spent; otherwise probes
\* of the marker and of a window clamped to the allowance.
Poll ==
  /\ pc = "poll"
  /\ \/ expired /\ pc' = "look" /\ UNCHANGED walk
     \/ ~expired /\ served >= ServingBound /\ pc' = "spent" /\ UNCHANGED walk
     \/ /\ ~expired /\ served < ServingBound
        /\ base' = served /\ off' = 1
        /\ probes' = [i \in 1..Min({window, ServingBound - served}) |-> "pending"]
        /\ pc' = "marker"
  /\ UNCHANGED <<resp, served, window, hand, hole, effects, skipped, result>>

\* Each probe of the window answers in its own time: the frontier's with a body, the others
\* with a stat.
ProbeAnswers(i) ==
  /\ pc \in {"marker", "serve", "body", "call", "publish"}
  /\ i \in DOMAIN probes /\ probes[i] = "pending"
  /\ probes' = [probes EXCEPT ![i] = IF Arrived(base + i) THEN "hit" ELSE "miss"]
  /\ UNCHANGED <<resp, pc, served, base, off, window, hand, hole, effects, skipped, result>>

\* The marker's probe is awaited first and ends the run whatever else was found.
ReadMarker ==
  /\ pc \in {"marker", "spent"}
  /\ \/ marker /\ Leave("completed")
     \/ ~marker /\ pc' = (IF pc = "marker" THEN "serve" ELSE "poll") /\ UNCHANGED result
  /\ UNCHANGED <<resp, served, walk, window, hand, hole, effects, skipped>>

\* The walk's own numbering, and not the frontier's: serving advances that.
Identifier == base + off

\* The walk ends at this slot.
Missing == probes' = [probes EXCEPT ![off] = "miss"] /\ pc' = "serve"

\* A body is in hand: nothing starts past the deadline.
Begin ==
  \/ expired /\ Missing
  \/ ~expired /\ pc' = "call" /\ UNCHANGED probes

\* The next slot of the window has answered.  Past the first, its body is read now.
Slot ==
  /\ pc = "serve" /\ off \in DOMAIN probes /\ probes[off] = "hit"
  /\ \/ off = 1 /\ Begin
     \/ off > 1 /\ pc' = "body" /\ UNCHANGED probes
  /\ UNCHANGED <<resp, served, base, off, window, hand, hole, effects, skipped, result>>

ReadBody ==
  /\ pc = "body"
  /\ IF Arrived(Identifier) THEN Begin ELSE Missing
  /\ UNCHANGED <<resp, served, base, off, window, hand, hole, effects, skipped, result>>

Advance == served' = served + 1 /\ off' = off + 1 /\ pc' = "serve"

\* The request reaches its tool: the run's cap has room.
Runs == req[Identifier] = "call" /\ Len(effects) < MaxCalls

\* _answer: an abandoned request has no response, an unreadable one is refused before the door,
\* a call goes through HostToolRun.call, which runs the tool while the run's cap has room.
Answer ==
  /\ pc = "call"
  /\ \/ /\ req[Identifier] = "abandoned"
        /\ Advance /\ UNCHANGED <<hand, effects>>
     \/ /\ req[Identifier] = "bad"
        /\ hand' = "refusal" /\ pc' = "publish" /\ UNCHANGED <<served, off, effects>>
     \/ /\ Runs
        /\ effects' = Append(effects, Identifier)
        /\ hand' = "value" /\ pc' = "publish" /\ UNCHANGED <<served, off>>
     \/ /\ req[Identifier] = "call" /\ Len(effects) >= MaxCalls
        /\ hand' = "refusal" /\ pc' = "publish" /\ UNCHANGED <<served, off, effects>>
  /\ UNCHANGED <<resp, base, probes, window, hole, skipped, result>>

\* The write of an answer reaches the guest.  Where the host gives the write up, at the deadline,
\* with a failure or by its own cancellation, that may be any time later, or never.
Land ==
  /\ hand # "none" /\ resp[Identifier] = "none"
  /\ resp' = [resp EXCEPT ![Identifier] = hand]
  /\ UNCHANGED <<guest, marker, expired, pc, served, walk, window, hand, hole, effects, skipped,
                 result>>

\* publish: the write has returned.
Respond ==
  /\ pc = "publish"
  /\ resp' = [resp EXCEPT ![Identifier] = hand]
  /\ hand' = "none"
  /\ Advance
  /\ UNCHANGED <<base, probes, window, hole, effects, skipped, result>>

\* A slip: the timer starts again at every walk that finds the frontier missing.
TimingRestarts == "none"

\* A frontier that has moved is timed afresh.
Timing == IF served # base THEN "none" ELSE hole

\* The window is served: it doubles if it was the whole window, or a slot was missing: it falls
\* back to one, and a frontier that has been missing for the grace is looked at.
WalkEnds ==
  LET full == off > Len(probes)
      timing == Timing
  IN /\ pc = "serve"
     /\ off \in DOMAIN probes => probes[off] = "miss"
     /\ \/ /\ full
           /\ window' = IF Len(probes) = window /\ served < ServingBound
                        THEN Min({MaxWindow, 2 * window}) ELSE window
           /\ hole' = timing /\ pc' = "poll"
        \/ /\ ~full
           /\ window' = 1
           /\ hole' = IF timing = "none" THEN "since" ELSE timing
           /\ pc' = IF timing = "due" THEN "claim?" ELSE "poll"
     /\ probes' = <<>> /\ off' = 1 /\ base' = served
     /\ UNCHANGED <<resp, served, hand, effects, skipped, result>>

\* _skip_dead_claim_hole: the claim is there, the next request is there, and last of all the
\* frontier's own request still is not.
NotAHole == pc' = "poll" /\ hole' = "since" /\ UNCHANGED <<served, skipped>>

StatClaim ==
  /\ pc = "claim?"
  /\ \/ Claimed(served + 1) /\ pc' = "next?" /\ UNCHANGED <<served, skipped, hole>>
     \/ ~Claimed(served + 1) /\ NotAHole
  /\ UNCHANGED <<resp, walk, window, hand, effects, result>>

StatNext ==
  /\ pc = "next?"
  /\ \/ Arrived(served + 2) /\ pc' = "own?" /\ UNCHANGED <<served, skipped, hole>>
     \/ ~Arrived(served + 2) /\ NotAHole
  /\ UNCHANGED <<resp, walk, window, hand, effects, result>>

\* A slip: the walk's miss is taken for the last word on the frontier's request.
StatOwnNever ==
  /\ pc = "own?" /\ pc' = "skip" /\ UNCHANGED <<served, skipped, hole>>
  /\ UNCHANGED <<resp, walk, window, hand, effects, result>>

StatOwn ==
  /\ pc = "own?"
  /\ \/ Arrived(served + 1) /\ NotAHole
     \/ ~Arrived(served + 1) /\ pc' = "skip" /\ UNCHANGED <<served, skipped, hole>>
  /\ UNCHANGED <<resp, walk, window, hand, effects, result>>

\* The stat's answer is on its way back, and the request may arrive behind it: the number is
\* stepped over all the same.
StepOver ==
  /\ pc = "skip" /\ pc' = "poll"
  /\ served' = served + 1 /\ skipped' = skipped \cup {served + 1}
  /\ hole' = "none"
  /\ UNCHANGED <<resp, walk, window, hand, effects, result>>

\* Two slips: the request whose answer could not be written counts as served, or is run again.
StallCounts ==
  /\ expired /\ pc = "publish"
  /\ pc' = "look" /\ served' = served + 1
  /\ UNCHANGED <<resp, walk, window, hand, hole, effects, skipped, result>>

StallRetried ==
  /\ expired /\ pc = "publish"
  /\ pc' = "call"
  /\ UNCHANGED <<resp, served, walk, window, hand, hole, effects, skipped, result>>

\* A call on the sandbox runs out of what is left of the deadline (_DeadlineExpired).
Stall ==
  /\ expired
  /\ \/ pc \in {"marker", "body", "publish", "claim?", "next?", "own?", "skip",
               "spent"}
     \/ pc = "serve" /\ off \in DOMAIN probes /\ probes[off] = "pending"
  /\ pc' = "look"
  /\ UNCHANGED <<resp, served, walk, window, hand, hole, effects, skipped, result>>

\* _marker_if_present before a run is reported unfinished; a look that fails has seen nothing.
LastLook ==
  /\ pc = "look"
  /\ \/ marker /\ Leave("completed")
     \/ Leave("timeout")
  /\ UNCHANGED <<resp, served, walk, window, hand, hole, effects, skipped>>

\* The backend raises out of one of those calls, the sandbox's activity guard has ended, or the
\* caller is cancelled; a tool that was running may have acted.
Raise ==
  /\ pc # "over"
  /\ Leave("failed")
  /\ \/ UNCHANGED effects
     \/ pc = "call" /\ Runs /\ effects' = Append(effects, Identifier)
  /\ UNCHANGED <<resp, served, walk, window, hand, hole, skipped>>

Step ==
  \/ Poll \/ ReadMarker \/ Slot \/ ReadBody \/ Answer \/ Respond \/ WalkEnds
  \/ StatClaim \/ StatNext \/ StatOwn \/ StepOver \/ LastLook

Supervisor ==
  /\ Running
  /\ \/ Step \/ Stall \/ Raise
     \/ \E i \in 1..MaxWindow : ProbeAnswers(i)
  /\ UNCHANGED <<guest, marker, expired>>

Next == Guest \/ Exit \/ Expire \/ GracePasses \/ Land \/ Supervisor

Spec == Init /\ [][Next]_vars

\* What the schedulers owe while a run lasts: the supervisor's loop turns, the backend answers a
\* probe, the clock moves, and a live worker gets on with the call it has begun.  Nothing makes
\* the deadline pass, a worker die or a call run out.
Fairness ==
  /\ WF_vars(Running /\ Step /\ UNCHANGED <<guest, marker, expired>>)
  /\ \A i \in 1..MaxWindow :
       WF_vars(Running /\ ProbeAnswers(i) /\ UNCHANGED <<guest, marker, expired>>)
  /\ WF_vars(GracePasses)
  /\ \A n \in Numbers :
       WF_vars(Running /\ Publish(n, "call") /\ UNCHANGED <<host, marker, expired>>)

FairSpec == Spec /\ Fairness

-----------------------------------------------------------------------------
(* Properties.                                                               *)

\* The frontier is exact: every number behind it was answered, given up by its worker or stepped
\* over, and never two of these.  Ahead of it nothing was stepped over, and at most the very next
\* number was answered: its answer is being written, or was when the run ended, and nobody knows
\* whether it landed.
FrontierIsExact ==
  /\ \A n \in Numbers : n <= served => resp[n] # "none" \/ req[n] = "abandoned" \/ n \in skipped
  /\ \A n \in Numbers : n > served =>
       /\ n \notin skipped
       /\ resp[n] # "none" => n = served + 1 /\ hand = resp[n] /\ pc \in {"publish", "look", "over"}
  /\ \A n \in skipped : resp[n] = "none"

\* A tool runs at most once for a request and in the order of the numbers, whatever the window
\* found first, whatever ran out; a number stepped over never runs, however late it arrives.
OnceAndInOrder ==
  /\ \A i, j \in DOMAIN effects : i < j => effects[i] < effects[j]
  /\ \A i \in DOMAIN effects : effects[i] \notin skipped

\* When the supervisor stops reading, the guest has been refused at least once, or a number of
\* its allowance went on a hole or an abandonment.
SpentIsTold ==
  served >= ServingBound =>
    \E n \in Numbers : resp[n] = "refusal" \/ n \in skipped \/ req[n] = "abandoned"

\* A number stepped over was claimed and has a later call behind it; if its own request turns up
\* after all, in the middle of the decision or at any time since, it was published after that
\* later one: a worker loses its call only by being overtaken.
OnlyTheOvertakenAreSkipped ==
  \A n \in skipped : Claimed(n) /\ Arrived(n + 1) /\ (Arrived(n) => n \in late)

Hole(n) == n \in Numbers /\ claim[n] = "dead"

\* One dead worker does not strand the others: every request is reached, unless the run ends,
\* the allowance is spent or two workers died at adjacent numbers.
EveryRequestIsReached ==
  \A n \in Numbers :
    Arrived(n) ~> \/ n <= served \/ result # "none" \/ served >= ServingBound
                  \/ \E k \in Numbers : k > served /\ Hole(k) /\ Hole(k + 1)

=============================================================================
