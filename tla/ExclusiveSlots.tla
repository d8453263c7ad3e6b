--------------------------- MODULE ExclusiveSlots ---------------------------
(***************************************************************************)
(* The admission table of the sandbox router (_cleanup.py): who is inside   *)
(* one (key, kind) entry, who waits for it, and which instances its last    *)
(* leaver must clean before anybody else is let in.  Entries of the table    *)
(* never touch one another, so the module follows a single entry.            *)
(*                                                                         *)
(* The guard of the table is a thread lock that is never held across an      *)
(* await: one action is one guarded section, plus the caller's own code up    *)
(* to its next await or guarded section.  Calls run on several event loops,   *)
(* so guarded sections of different calls interleave freely.                 *)
(*                                                                         *)
(* Two abstractions keep the state finite while owners are recycled:         *)
(*   - the waiter list is a set plus, for each waiter, the set registered     *)
(*     ahead of it;                                                         *)
(*   - "generation" is only ever compared with the value a waiter last read,   *)
(*     so it is the set "moved" of the waiters whose reading is out of date.   *)
(***************************************************************************)
EXTENDS Naturals, FiniteSets

CONSTANTS
  Calls,      \* owners: tool calls that may use the entry, again and again
  Mortal,     \* the calls whose event loop may close while they wait
  Instances,  \* physical sandbox instances a call may condemn
  Timeout,    \* the admission bound, in clock ticks
  NoOne       \* slot.exclusive is None

ASSUME CallsAssumption == NoOne \notin Calls /\ Mortal \subseteq Calls
ASSUME TimeoutAssumption == Timeout \in Nat \ {0}

\* CLEANUP_RANK of the rungs that may be queued; 0 stands for "no record".
Reset == 1
Dispose == 2
Ranks == 0..2

VARIABLES
  present,    \* the entry is in the table
  state,      \* "serving", "draining" or "cleaning"
  shared,     \* owners holding it together
  exclusive,  \* the owner holding it alone, or NoOne
  waiting,    \* registered waiters
  aheadOf,    \* for each waiter, the waiters registered before it
  wanting,    \* waiters that asked for an exclusive hold
  woken,      \* waiters whose future is resolved and who have not run since
  moved,      \* waiters that have not yet read the current generation
  waited,     \* ticks of the waiter's bound used up
  quiet,      \* history: ticks since the generation last advanced
  waking,     \* calls that left a guarded section and still owe its _wake
  pending,    \* rank of the cleanup recorded for each instance, 0 for none
  done,       \* instances whose record has been completed
  claimed,    \* the records release handed to the call that cleans
  asked,      \* rank each call asked for, until its record is completed
  pc          \* where each call is

slot == <<present, state, shared, exclusive>>
line == <<waiting, aheadOf, wanting, woken, moved, waited>>
records == <<pending, done, claimed, asked>>
vars == <<slot, line, quiet, waking, records, pc>>

-----------------------------------------------------------------------------

PCs == {"out", "queued", "inside", "cleaning", "awaiting", "refused", "dead"}

Holders == shared \cup (IF exclusive = NoOne THEN {} ELSE {exclusive})

Condemned == {i \in Instances : pending[i] # 0}

Unasked == [i \in Instances |-> 0]

\* Waiters whose event loop is closed: pruned wherever the list is touched.
Closed == {c \in Calls : pc[c] = "dead"}

Init ==
  /\ present = FALSE
  /\ state = "serving"
  /\ shared = {}
  /\ exclusive = NoOne
  /\ waiting = {}
  /\ aheadOf = [c \in Calls |-> {}]
  /\ wanting = {}
  /\ woken = {}
  /\ moved = {}
  /\ waited = [c \in Calls |-> 0]
  /\ quiet = 0
  /\ waking = {}
  /\ pending = Unasked
  /\ done = {}
  /\ claimed = {}
  /\ asked = [c \in Calls |-> Unasked]
  /\ pc = [c \in Calls |-> "out"]

-----------------------------------------------------------------------------
(* Helpers shared by the operations.                                        *)

\* Slips in Free: a shared call looks only at the state, admission stays open while draining, or
\* a shared call does not look at who waits ahead of it.
FreeBesideExclusive(ahead, exclusively) ==
  /\ state = "serving"
  /\ exclusively => exclusive = NoOne /\ shared = {} /\ ahead = {}

FreeWhileDraining(ahead, exclusively) ==
  /\ state # "cleaning"
  /\ exclusive = NoOne
  /\ IF exclusively THEN shared = {} /\ ahead = {}
                    ELSE ahead \cap wanting = {}

FreeOvertaking(ahead, exclusively) ==
  /\ state = "serving"
  /\ exclusive = NoOne
  /\ exclusively => shared = {} /\ ahead = {}

\* Could c be let in now, with the given waiters ahead of it?
Free(ahead, exclusively) ==
  /\ state = "serving"
  /\ exclusive = NoOne
  /\ IF exclusively THEN shared = {} /\ ahead = {}
                    ELSE ahead \cap wanting = {}

\* c becomes a holder.
Admit(c, exclusively) ==
  /\ IF exclusively THEN exclusive' = c /\ UNCHANGED shared
                    ELSE shared' = shared \cup {c} /\ UNCHANGED exclusive
  /\ pc' = [pc EXCEPT ![c] = "inside"]

\* A slip in Keep: the bound is not restarted for a waiter that saw a holder leave.
KeepCharging(W, fresh) ==
  /\ waiting' = W
  /\ aheadOf' = [w \in Calls |-> IF w \in W THEN aheadOf[w] \cap W ELSE {}]
  /\ wanting' = wanting \cap W
  /\ moved' = (moved \cap W) \ fresh
  /\ waited' = [w \in Calls |-> IF w \in W THEN waited[w] ELSE 0]

\* The waiter list becomes the members of W, in the order they had; a waiter in
\* "fresh" reads the generation, and its bound restarts if that had moved.
Keep(W, fresh) ==
  /\ waiting' = W
  /\ aheadOf' = [w \in Calls |-> IF w \in W THEN aheadOf[w] \cap W ELSE {}]
  /\ wanting' = wanting \cap W
  /\ moved' = (moved \cap W) \ fresh
  /\ waited' = [w \in Calls |-> IF w \in W \ (moved \cap fresh) THEN waited[w] ELSE 0]

\* c is appended to the waiters in W.
Join(W, c, exclusively) ==
  /\ waiting' = W \cup {c}
  /\ aheadOf' = [w \in Calls |-> IF w = c THEN W
                                ELSE IF w \in W THEN aheadOf[w] \cap W ELSE {}]
  /\ wanting' = (wanting \cap W) \cup (IF exclusively THEN {c} ELSE {})
  /\ moved' = moved \cap W
  /\ waited' = [w \in Calls |-> IF w \in W THEN waited[w] ELSE 0]

\* _drop_if_idle, given the values the guarded section leaves behind.
DropIfIdle ==
  present' = (present /\ ~(/\ shared' = {}
                           /\ exclusive' = NoOne
                           /\ waiting' = {}
                           /\ pending' = Unasked
                           /\ state' = "serving"))

\* slot.generation += 1
Advance ==
  /\ moved' = waiting
  /\ quiet' = 0

-----------------------------------------------------------------------------
(* take: the first pass registers the caller, every later one follows the     *)
(* resolution of its future.  Every caller in src/ takes an entry once under an  *)
(* owner of its own, so a second take by an owner already inside has no action.  *)

\* First pass of take.
Take(c, exclusively) ==
  /\ pc[c] \in {"out", "refused"}
  /\ c \notin waking
  /\ LET live == waiting \ Closed IN
       /\ \/ /\ Free(live, exclusively)
             /\ Admit(c, exclusively)
             /\ Keep(live, {})
          \/ /\ ~Free(live, exclusively)
             /\ Join(live, c, exclusively)
             /\ pc' = [pc EXCEPT ![c] = "queued"]
             /\ UNCHANGED <<shared, exclusive>>
       /\ woken' = woken \cap live
  /\ present' = TRUE
  /\ UNCHANGED <<state, quiet, waking, records>>

\* A later pass of take, once the future it waits on is resolved.
Retake(c) ==
  /\ pc[c] = "queued"
  /\ c \in woken
  /\ LET live == waiting \ Closed
         ahead == aheadOf[c] \ Closed
     IN
       /\ \/ /\ Free(ahead, c \in wanting)
             /\ Admit(c, c \in wanting)
             /\ Keep(live \ {c}, {})
          \/ /\ ~Free(ahead, c \in wanting)
             /\ Keep(live, {c})
             /\ UNCHANGED <<shared, exclusive, pc>>
       /\ woken' = (woken \cap live) \ {c}
  /\ UNCHANGED <<present, state, quiet, waking, records>>

\* Slips in _forget_waiter: no _wake for the others, or a resolved future left behind.
ForgetSilently(c, then) ==
  /\ pc[c] = "queued"
  /\ Keep(waiting \ {c}, {})
  /\ woken' = woken \ {c}
  /\ pc' = [pc EXCEPT ![c] = then]
  /\ UNCHANGED <<state, shared, exclusive, quiet, waking, records>>
  /\ DropIfIdle

\* _forget_waiter: an abandoned wait, then the _wake it owes the others.
ForgetWaiter(c, then) ==
  /\ pc[c] = "queued"
  /\ Keep(waiting \ {c}, {})
  /\ woken' = woken \ {c}
  /\ pc' = [pc EXCEPT ![c] = then]
  /\ waking' = waking \cup {c}
  /\ UNCHANGED <<state, shared, exclusive, quiet, records>>
  /\ DropIfIdle

\* The timer fires first, even when the future is resolved but not yet seen.
Expire(c) ==
  /\ waited[c] = Timeout
  /\ ForgetWaiter(c, "refused")

\* The waiting task is cancelled.
Cancel(c) == ForgetWaiter(c, "out")

\* The waiter's event loop closes under it; nothing of take runs again.
CloseLoop(c) ==
  /\ c \in Mortal
  /\ pc[c] = "queued"
  /\ pc' = [pc EXCEPT ![c] = "dead"]
  /\ UNCHANGED <<slot, line, quiet, waking, records>>

\* _wake: prune closed loops, drop an idle entry, resolve every other future.
Wake(c) ==
  /\ c \in waking
  /\ waking' = waking \ {c}
  /\ Keep(waiting \ Closed, {})
  /\ woken' = waiting \ Closed
  /\ UNCHANGED <<state, shared, exclusive, quiet, records, pc>>
  /\ DropIfIdle

-----------------------------------------------------------------------------
(* What a holder does.                                                       *)

\* queue: condemn an instance.  A call that no longer holds the entry is refused.
Queue(c, i, rank) ==
  /\ pc[c] \in {"inside", "awaiting"}
  /\ present
  /\ c \in Holders
  /\ pending' = [pending EXCEPT ![i] = IF @ < rank THEN rank ELSE @]
  /\ asked' = [asked EXCEPT ![c][i] = IF @ < rank THEN rank ELSE @]
  /\ state' = "draining"
  /\ UNCHANGED <<present, shared, exclusive, line, quiet, waking, done, claimed, pc>>

\* drain: close admission for a late acquire of a finished call.
Drain(c) ==
  /\ c \in Holders
  /\ state' = "draining"
  /\ UNCHANGED <<present, shared, exclusive, line, quiet, waking, records, pc>>

\* renew, called by a holder between two bounded cleanup steps of its own.
Renew(c) ==
  /\ c \in Holders
  /\ c \notin waking
  /\ Advance
  /\ waking' = waking \cup {c}
  /\ UNCHANGED <<slot, waiting, aheadOf, wanting, woken, waited, records, pc>>

\* The records that release hands to the last one out.
Claim(c) == Condemned

\* release: the last one out claims the pending records, or reopens the entry.
Release(c) ==
  /\ pc[c] = "inside"
  /\ c \in Holders
  /\ c \notin waking
  /\ IF exclusive = c THEN exclusive' = NoOne /\ UNCHANGED shared
                      ELSE shared' = shared \ {c} /\ UNCHANGED exclusive
  /\ Advance
  /\ LET last == shared' = {} /\ exclusive' = NoOne IN
       \/ /\ last /\ Condemned # {}
          /\ state' = "cleaning"
          /\ claimed' = Claim(c)
          /\ pc' = [pc EXCEPT ![c] = "cleaning"]
          /\ UNCHANGED waking
       \/ /\ ~(last /\ Condemned # {})
          /\ state' = IF last THEN "serving" ELSE state
          /\ pc' = [pc EXCEPT ![c] = IF asked[c] = Unasked THEN "out" ELSE "awaiting"]
          /\ waking' = waking \cup {c}
          /\ UNCHANGED claimed
  /\ UNCHANGED <<waiting, aheadOf, wanting, woken, waited, pending, done, asked>>
  /\ DropIfIdle

-----------------------------------------------------------------------------
(* What the last leaver does with the records it claimed.                    *)

\* A slip in complete: the result is delivered, the record itself is not finished.
CompleteUnrecorded(c, i) ==
  /\ pc[c] = "cleaning"
  /\ c \notin waking
  /\ i \in claimed \ done
  /\ asked' = [d \in Calls |-> [asked[d] EXCEPT ![i] = 0]]
  /\ Advance
  /\ waking' = waking \cup {c}
  /\ UNCHANGED <<slot, waiting, aheadOf, wanting, woken, waited, pending, done, claimed, pc>>

\* complete, then renew: one record reached its end, one way or the other.
Complete(c, i) ==
  /\ pc[c] = "cleaning"
  /\ c \notin waking
  /\ i \in claimed \ done
  /\ done' = done \cup {i}
  /\ asked' = [d \in Calls |-> [asked[d] EXCEPT ![i] = 0]]
  /\ Advance
  /\ waking' = waking \cup {c}
  /\ UNCHANGED <<slot, waiting, aheadOf, wanting, woken, waited, pending, claimed, pc>>

\* The cleaning call is cancelled: every unfinished record is completed as failed.
Interrupt(c) ==
  /\ pc[c] = "cleaning"
  /\ c \notin waking
  /\ claimed \ done # {}
  /\ done' = done \cup claimed
  /\ asked' = [d \in Calls |-> [i \in Instances |-> IF i \in claimed THEN 0 ELSE asked[d][i]]]
  /\ UNCHANGED <<slot, line, quiet, waking, pending, claimed, pc>>

\* cleaned: reopen admission.  Records outside the claim would make it raise.
Cleaned(c) ==
  /\ pc[c] = "cleaning"
  /\ c \notin waking
  /\ claimed \subseteq done
  /\ Condemned \subseteq done
  /\ pending' = Unasked
  /\ done' = {}
  /\ claimed' = {}
  /\ state' = "serving"
  /\ Advance
  /\ waking' = waking \cup {c}
  /\ pc' = [pc EXCEPT ![c] = IF asked[c] = Unasked THEN "out" ELSE "awaiting"]
  /\ UNCHANGED <<shared, exclusive, waiting, aheadOf, wanting, woken, waited, asked>>
  /\ DropIfIdle

\* wait: the call leaves with the result of every record it asked for, or gives up.
Wait(c) ==
  /\ pc[c] = "awaiting"
  /\ c \notin waking
  /\ asked[c] = Unasked
  /\ pc' = [pc EXCEPT ![c] = "out"]
  /\ UNCHANGED <<slot, line, quiet, waking, records>>

\* The wait for a sibling's cleanup is bounded as well.
WaitExpires(c) ==
  /\ pc[c] = "awaiting"
  /\ c \notin waking
  /\ asked[c] # Unasked
  /\ asked' = [asked EXCEPT ![c] = Unasked]
  /\ pc' = [pc EXCEPT ![c] = "out"]
  /\ UNCHANGED <<slot, line, quiet, waking, pending, done, claimed>>

\* One tick of time.monotonic() for every waiter.
Tick ==
  /\ \E c \in waiting : waited[c] < Timeout
  /\ waited' = [c \in Calls |-> IF c \in waiting /\ waited[c] < Timeout
                               THEN waited[c] + 1 ELSE waited[c]]
  /\ quiet' = IF quiet < Timeout THEN quiet + 1 ELSE quiet
  /\ UNCHANGED <<slot, waiting, aheadOf, wanting, woken, moved, waking, records, pc>>

-----------------------------------------------------------------------------

Next ==
  \/ \E c \in Calls :
       \/ \E exclusively \in BOOLEAN : Take(c, exclusively)
       \/ Retake(c)
       \/ Expire(c)
       \/ Cancel(c)
       \/ CloseLoop(c)
       \/ Wake(c)
       \/ \E i \in Instances, rank \in {Reset, Dispose} : Queue(c, i, rank)
       \/ Drain(c)
       \/ Renew(c)
       \/ Release(c)
       \/ \E i \in Instances : Complete(c, i)
       \/ Interrupt(c)
       \/ Cleaned(c)
       \/ Wait(c)
       \/ WaitExpires(c)
  \/ Tick

Spec == Init /\ [][Next]_vars

\* What the event loops owe: a resolved future is looked at, an owed _wake runs,
\* bodies and cleanups are bounded, so a cleanup ends and a holder leaves (strongly: it renews
\* its waiters once for each of finitely many steps, and cannot leave in between).
Fairness ==
  \A c \in Calls :
    /\ WF_vars(Retake(c))
    /\ WF_vars(Wake(c))
    /\ SF_vars(Release(c))
    /\ WF_vars(\E i \in Instances : Complete(c, i))
    /\ WF_vars(Cleaned(c))
    /\ WF_vars(Wait(c))

FairSpec == Spec /\ Fairness

-----------------------------------------------------------------------------
(* Invariants.                                                               *)

\* Every variable has its type; what is kept about a waiter exists only while it waits.
TypeOK ==
  /\ present \in BOOLEAN
  /\ state \in {"serving", "draining", "cleaning"}
  /\ shared \subseteq Calls
  /\ exclusive \in Calls \cup {NoOne}
  /\ waiting \subseteq Calls
  /\ aheadOf \in [Calls -> SUBSET Calls]
  /\ wanting \subseteq waiting
  /\ woken \subseteq waiting
  /\ moved \subseteq waiting
  /\ waited \in [Calls -> 0..Timeout]
  /\ quiet \in 0..Timeout
  /\ waking \subseteq Calls
  /\ pending \in [Instances -> Ranks]
  /\ done \subseteq Instances
  /\ claimed \subseteq Instances
  /\ asked \in [Calls -> [Instances -> Ranks]]
  /\ pc \in [Calls -> PCs]

\* An exclusive hold excludes every sibling (_Slot.exclusive: "Never set while shared is
\* non-empty"), and a call runs a cleanup only when no body, and no other cleanup, is inside.
Exclusion ==
  /\ exclusive # NoOne => shared = {}
  /\ \A c, d \in Calls :
       pc[c] = "cleaning" /\ pc[d] \in {"inside", "cleaning"} => c = d

\* From the moment an instance is condemned until its record is completed, the entry admits
\* nobody: no call starts on an instance whose cleanup is still owed.
CondemnedStaysShut == Condemned # {} => state # "serving"

\* queue folds: while a call waits for a cleanup it asked for, the record that will be run is at
\* least as strong, whatever its siblings asked for before or after.
FoldKeepsStrongest ==
  \A c \in Calls, i \in Instances : asked[c][i] <= pending[i]

\* The records release handed to the last leaver are all the records there are when it reopens
\* the entry: "unfinished cleanup cannot reopen admission" is never raised.
ClaimIsComplete ==
  \A c \in Calls : pc[c] = "cleaning" => claimed = Condemned

\* The bound is per call ahead: a waiter that has seen the current generation has not been
\* charged for more time than passed since a holder last left or admission last reopened.
BoundIsPerCallAhead ==
  \A c \in waiting \ moved : waited[c] <= quiet

\* No lost wake-up: a waiter that could be let in has been woken, or somebody is about to run
\* _wake.  A waiter whose loop closed may have taken a wake-up with it, or be pruned by a call
\* that has none to give: then the next _wake, or the waiter's own bound, ends the wait.
NoLostWake ==
  Closed = {} =>
    \A c \in waiting : Free(aheadOf[c], c \in wanting) => c \in woken \/ waking # {}

-----------------------------------------------------------------------------
(* Action properties.                                                        *)

\* A call that waits for an exclusive hold is never overtaken: while it is in the queue, only
\* calls registered before it are let in.
NoOvertaking ==
  [][\A c, d \in Calls :
       /\ pc[c] # "inside" /\ pc'[c] = "inside"
       /\ pc[d] = "queued" /\ pc'[d] = "queued" /\ d \in wanting
       => c \in aheadOf[d]]_vars

-----------------------------------------------------------------------------
(* The abstract specification this module implements.                        *)

A == INSTANCE Admission WITH
       inside <- Holders,
       alone <- exclusive # NoOne,
       owed <- Condemned \ done,
       open <- state = "serving"

\* With its queues, wake-ups, timeouts and folded records, the table keeps the promise of
\* Admission: nobody is let in beside an exclusive call or while an instance is condemned, and
\* admission reopens only after the last leaver dealt with every record.
ImplementsAdmission == A!Spec

-----------------------------------------------------------------------------
(* Liveness.                                                                 *)

\* Admission closed by a condemned instance or a drain reopens.
Reopens == [](state # "serving" => <>(state = "serving"))

\* Without any help from the clock, a call that wants the entry for itself is let in.
ExclusiveIsServed ==
  \A c \in Calls : (pc[c] = "queued" /\ c \in wanting) ~> (pc[c] # "queued")

=============================================================================
