------------------------------- MODULE ToolCall -------------------------------
(***************************************************************************)
(* One tool call of a sandbox session (maf.py): the wrapper reclaiming, the      *)
(* acquires its body makes, from itself or from tasks it leaves behind, and the   *)
(* cleanup passes that follow: the wrapper's own, over every key, and one of each  *)
(* key whose last acquire comes back after the call has closed (retire).          *)
(*                                                                         *)
(* Everything runs on one event loop: cpu is the actor that runs, and an actor    *)
(* is preempted only where its code awaits.  An await may end in a cancellation.   *)
(* The admission table and the router are seen from this call only: the hold it    *)
(* has on a key, the cleanup it queued there, the mark it left.  Sibling calls may  *)
(* be in the same entries, so leaving one may or may not run queued cleanup.        *)
(***************************************************************************)
EXTENDS Naturals, FiniteSets

CONSTANTS
  Tasks,      \* acquirers: the body and the tasks it starts, one acquire at a time each
  Conv,       \* conversation keys
  Own,        \* call-scoped keys: the sandbox is created for this call and deleted with it
  Main,       \* the wrapper's cleanup pass
  None,       \* nobody
  Rungs       \* cleanups an admission may permit: "reclaim", and "whole" for RESET and DISPOSE

Keys == Conv \cup Own
Passes == Tasks \cup {Main}

ASSUME TasksAssumption == {Main, None} \cap (Tasks \cup Keys) = {} /\ Main # None
ASSUME KeysAssumption == Conv \cap Own = {} /\ Rungs \subseteq {"reclaim", "whole"}

VARIABLES
  cpu,        \* the actor running, None while every actor awaits
  closed,     \* call.closed
  pc, key,    \* where each acquirer is, and the key it asked for
  lock,       \* call.admission_locks
  touched,    \* call.touched
  entered,    \* call.entered
  ledger,     \* call.acquired
  served,     \* keys whose admission.served is set
  fresh,      \* acquirers whose create found served unset
  held,       \* keys on which this call is an owner in the admission table
  unclean,    \* conversation sandboxes the call has had and that are not cleaned of it
  owed,       \* keys on which this call's queued cleanup is pending
  marked,     \* keys the router refuses because of this call
  exists,     \* call-scoped sandboxes that exist
  missed,     \* call-scoped keys whose last delete did not land, or was cancelled
  phase,      \* where each cleanup pass is
  todo,       \* what the pass has still to clean
  rel,        \* what it has still to give back
  at,         \* the key it awaits something for
  reports,    \* passes with something to report
  halted,     \* passes interrupted while giving back
  rung        \* the cleanup each conversation key's admission permits (admission.rung)

asks == <<closed, pc, key, lock, touched>>
records == <<entered, ledger, served, fresh>>
fate == <<held, unclean, owed, marked, exists, missed>>
pass == <<phase, todo, rel, at, reports, halted>>
moves == <<cpu, asks, records, fate, pass>>
vars == <<moves, rung>>

InFlight == {"locking", "entering", "adopting", "creating", "lateDispose"}
Awaits == {"reclaiming", "disposing", "leaving", "leavingLast", "reporting"}

TypeOK ==
  /\ cpu \in Passes \cup {None} /\ closed \in BOOLEAN
  /\ pc \in [Tasks -> {"idle", "retiring", "ended"} \cup InFlight]
  /\ key \in [Tasks -> Keys \cup {None}]
  /\ lock \in [Keys -> Tasks \cup {None}] /\ touched \subseteq Keys
  /\ fresh \subseteq Tasks
  /\ entered \subseteq Keys /\ ledger \subseteq Keys /\ served \subseteq Keys
  /\ held \subseteq Keys /\ unclean \subseteq Conv /\ owed \subseteq Conv
  /\ marked \subseteq Conv /\ exists \subseteq Own /\ missed \subseteq Own
  /\ phase \in [Passes -> {"none", "cleaning", "releasing", "last", "done"} \cup Awaits]
  /\ todo \in [Passes -> SUBSET Keys] /\ rel \in [Passes -> SUBSET Keys]
  /\ at \in [Passes -> Keys \cup {None}]
  /\ reports \subseteq Passes /\ halted \subseteq Passes
  /\ rung \in [Conv -> Rungs]

Init ==
  /\ cpu = None /\ closed = FALSE
  /\ pc = [t \in Tasks |-> "idle"] /\ key = [t \in Tasks |-> None]
  /\ lock = [k \in Keys |-> None] /\ touched = {}
  /\ entered = {} /\ ledger = {} /\ served = {} /\ fresh = {}
  /\ held = {} /\ unclean = {} /\ owed = {} /\ marked = {}
  /\ exists = {} /\ missed = {}
  /\ phase = [p \in Passes |-> "none"]
  /\ todo = [p \in Passes |-> {}] /\ rel = [p \in Passes |-> {}]
  /\ at = [p \in Passes |-> None]
  /\ reports = {} /\ halted = {}
  /\ rung \in [Conv -> Rungs]

-----------------------------------------------------------------------------
\* call.acquiring, without what the acquirers of "but" contribute.
AcquiringBut(but) == {key[t] : t \in {u \in Tasks \ but : pc[u] \in InFlight}} \cap Conv

\* The start of _reclaim_the_call for the keys in scope, with ledger l, up to its first await.
BeginPass(p, scope, l, acquiring) ==
  /\ cpu' = p
  /\ IF l = {}
       THEN /\ phase' = [phase EXCEPT ![p] = "last"]
            /\ rel' = [rel EXCEPT ![p] = entered \cap scope]
            /\ ledger' = l
            /\ UNCHANGED todo
       ELSE /\ phase' = [phase EXCEPT ![p] = "cleaning"]
            /\ todo' = [todo EXCEPT ![p] = (l \cap scope) \ acquiring]
            /\ ledger' = l \ ((l \cap scope) \ acquiring)
            /\ UNCHANGED rel
  /\ UNCHANGED <<at, reports, halted>>

\* A slip: only an acquire that came back with a sandbox cleans up.
FinishServed(t, l) ==
  IF closed /\ key[t] \in Conv \ AcquiringBut({t}) /\ l # ledger
    THEN /\ pc' = [pc EXCEPT ![t] = "retiring"]
         /\ BeginPass(t, {key[t]}, l, AcquiringBut({t}))
    ELSE /\ pc' = [pc EXCEPT ![t] = IF closed THEN "ended" ELSE "idle"]
         /\ ledger' = l /\ cpu' = None
         /\ UNCHANGED pass

\* acquire's finally: the last conversation acquire of a closed call cleans up its key.
Finish(t, l) ==
  IF closed /\ key[t] \in Conv \ AcquiringBut({t})
    THEN /\ pc' = [pc EXCEPT ![t] = "retiring"]
         /\ BeginPass(t, {key[t]}, l, AcquiringBut({t}))
    ELSE /\ pc' = [pc EXCEPT ![t] = IF closed THEN "ended" ELSE "idle"]
         /\ ledger' = l /\ cpu' = None
         /\ UNCHANGED pass

-----------------------------------------------------------------------------
Runs(a) == cpu \in {None, a}

\* acquire: refused once the call has closed; a call-scoped key is recorded before it is created.
Acquire(t) ==
  /\ Runs(t) /\ pc[t] = "idle"
  /\ \E k \in Keys :
       /\ key' = [key EXCEPT ![t] = k]
       /\ IF closed
            THEN /\ pc' = [pc EXCEPT ![t] = "ended"]
                 /\ cpu' = None /\ UNCHANGED <<touched, ledger>>
            ELSE /\ pc' = [pc EXCEPT ![t] = "locking"]
                 /\ touched' = touched \cup {k}
                 /\ ledger' = IF k \in Own THEN ledger \cup {k} ELSE ledger
                 /\ cpu' = IF lock[k] = None THEN t ELSE None
  /\ UNCHANGED <<closed, lock, entered, served, fresh, fate, pass>>

\* _admit, under the key's lock: a closed call enters nothing, an admission is shared.
Lock(t) ==
  /\ Runs(t) /\ pc[t] = "locking" /\ lock[key[t]] = None
  /\ \/ /\ closed
        /\ Finish(t, ledger)
        /\ UNCHANGED lock
     \/ /\ ~closed /\ key[t] \in entered
        /\ pc' = [pc EXCEPT ![t] = "adopting"]
        /\ cpu' = None
        /\ UNCHANGED <<lock, ledger, pass>>
     \/ /\ ~closed /\ key[t] \notin entered
        /\ pc' = [pc EXCEPT ![t] = "entering"]
        /\ lock' = [lock EXCEPT ![key[t]] = t]
        /\ cpu' = None
        /\ UNCHANGED <<ledger, pass>>
  /\ UNCHANGED <<closed, touched, key, entered, served, fresh, fate>>

LockCancelled(t) ==
  /\ cpu = None /\ pc[t] = "locking"
  /\ Finish(t, ledger)
  /\ UNCHANGED <<closed, touched, key, lock, entered, served, fresh, fate>>

\* enter_call answered: a call that closed meanwhile leaves again at once.
Entered(t) ==
  /\ Runs(t) /\ pc[t] = "entering"
  /\ lock' = [lock EXCEPT ![key[t]] = None]
  /\ IF closed
       THEN Finish(t, ledger) /\ UNCHANGED <<entered, held>>
       ELSE /\ held' = held \cup {key[t]}
            /\ entered' = entered \cup {key[t]}
            /\ pc' = [pc EXCEPT ![t] = "adopting"]
            /\ cpu' = None
            /\ UNCHANGED <<ledger, pass>>
  /\ UNCHANGED <<closed, touched, key, served, fresh, unclean, owed, marked, exists, missed>>

\* enter_call timed out, refused the workload or was cancelled: nothing is held.
EnterFails(t) ==
  /\ Runs(t) /\ pc[t] = "entering"
  /\ lock' = [lock EXCEPT ![key[t]] = None]
  /\ Finish(t, ledger)
  /\ UNCHANGED <<closed, touched, key, entered, served, fresh, fate>>

\* router.acquire has its turn on the key and asks the backend for the sandbox.
Create(t) ==
  /\ Runs(t) /\ pc[t] = "adopting"
  /\ \A u \in Tasks : pc[u] = "creating" => key[u] # key[t]
  /\ pc' = [pc EXCEPT ![t] = "creating"]
  /\ fresh' = IF key[t] \in served THEN fresh \ {t} ELSE fresh \cup {t}
  /\ served' = served \cup {key[t]}
  /\ cpu' = None
  /\ UNCHANGED <<closed, touched, key, lock, entered, ledger, fate, pass>>

\* The tail of _acquire, with ledger l: what a call-scoped acquire created late is deleted.
Leave(t, l) ==
  IF closed /\ key[t] \in Own
    THEN /\ pc' = [pc EXCEPT ![t] = "lateDispose"]
         /\ ledger' = l /\ cpu' = None
         /\ UNCHANGED pass
    ELSE Finish(t, l)

\* A sandbox comes back: it is recorded for cleanup even when the call has closed.
Created(t) ==
  /\ Runs(t) /\ pc[t] = "creating"
  /\ IF key[t] \in Own
       THEN /\ exists' = exists \cup {key[t]} /\ missed' = missed \ {key[t]}
            /\ UNCHANGED unclean
       ELSE unclean' = unclean \cup {key[t]} /\ UNCHANGED <<exists, missed>>
  /\ Leave(t, IF closed /\ key[t] \in Own THEN ledger ELSE ledger \cup {key[t]})
  /\ UNCHANGED <<closed, touched, key, lock, entered, served, fresh, held, owed, marked>>

\* A slip: only an acquire that succeeded late deletes what it created.
AcquireFailsKept(t) ==
  /\ Runs(t) /\ pc[t] \in {"adopting", "creating"}
  /\ \/ UNCHANGED <<exists, missed>>
     \/ /\ pc[t] = "creating" /\ key[t] \in Own
        /\ exists' = exists \cup {key[t]} /\ missed' = missed \ {key[t]}
  /\ Finish(t, ledger)
  /\ UNCHANGED <<closed, touched, key, lock, entered, served, fresh, held, unclean, owed, marked>>

\* The acquire failed, was refused or was cancelled; a failed create may have left a sandbox.
AcquireFails(t) ==
  /\ Runs(t) /\ pc[t] \in {"adopting", "creating"}
  /\ \/ UNCHANGED <<served, exists, missed>>
     \/ /\ pc[t] = "creating" /\ key[t] \in Own
        /\ exists' = exists \cup {key[t]} /\ missed' = missed \ {key[t]}
        /\ UNCHANGED served
     \/ /\ pc[t] = "creating" /\ t \in fresh       \* SandboxBackendUnavailable
        /\ served' = served \ {key[t]}
        /\ UNCHANGED <<exists, missed>>
  /\ Leave(t, ledger)
  /\ UNCHANGED <<closed, touched, key, lock, entered, fresh, held, unclean, owed, marked>>

\* dispose_call of key k: asks the backend that served it, if one did; lands or does not.
DisposeCall(k, landed) ==
  IF landed
    THEN exists' = (IF k \in served THEN exists \ {k} ELSE exists) /\ UNCHANGED missed
    ELSE k \in served /\ missed' = missed \cup {k} /\ UNCHANGED exists

LateDisposed(t) ==
  /\ Runs(t) /\ pc[t] = "lateDispose"
  /\ \E landed \in BOOLEAN : DisposeCall(key[t], landed)
  /\ Finish(t, ledger)
  /\ UNCHANGED <<closed, touched, key, lock, entered, served, fresh, held, unclean, owed, marked>>

-----------------------------------------------------------------------------
\* The body has returned, raised or been cancelled: close, then clean up everything not in flight.
Close ==
  /\ cpu = None /\ ~closed
  /\ closed' = TRUE
  /\ BeginPass(Main, Keys, ledger, AcquiringBut({}))
  /\ UNCHANGED <<pc, key, lock, touched, entered, served, fresh, fate>>

Goes(p, where) == phase' = [phase EXCEPT ![p] = where]

\* _give_back_the_sandbox begins: a look at the admissions of the keys in scope.
GiveBack(p, where) ==
  /\ Goes(p, where)
  /\ rel' = [rel EXCEPT ![p] = entered \cap (IF p = Main THEN Keys ELSE {key[p]})]

\* queue_cleanup for key k: only a call that holds the entry may record it, else it raises.
QueueCleanup(p, k) ==
  IF k \in held
    THEN /\ owed' = owed \cup {k} /\ reports' = reports \cup {p}
         /\ Goes(p, "cleaning") /\ UNCHANGED rel
    ELSE GiveBack(p, "last") /\ UNCHANGED <<owed, reports>>

\* _clean_each_sandbox, one key up to its await.
CleanNext(p) ==
  /\ cpu = p /\ phase[p] = "cleaning"
  /\ \E k \in todo[p] :
       /\ todo' = [todo EXCEPT ![p] = @ \ {k}]
       /\ \/ /\ k \notin entered \/ (k \in Own /\ k \notin served)
             /\ UNCHANGED <<cpu, phase, rel, at, reports, owed>>
          \/ /\ k \in entered /\ k \in Own \cap served
             /\ Goes(p, "disposing") /\ at' = [at EXCEPT ![p] = k] /\ cpu' = None
             /\ UNCHANGED <<rel, reports, owed>>
          \/ /\ k \in entered /\ k \in Conv /\ rung[k] = "reclaim"
             /\ Goes(p, "reclaiming") /\ at' = [at EXCEPT ![p] = k] /\ cpu' = None
             /\ UNCHANGED <<rel, reports, owed>>
          \/ /\ k \in entered /\ k \in Conv /\ rung[k] = "whole"
             /\ QueueCleanup(p, k)
             /\ UNCHANGED <<cpu, at>>
  /\ UNCHANGED <<asks, records, held, unclean, marked, exists, missed, halted>>

AllCleaned(p) ==
  /\ cpu = p /\ phase[p] = "cleaning" /\ todo[p] = {}
  /\ GiveBack(p, "releasing")
  /\ UNCHANGED <<cpu, asks, records, fate, todo, at, reports, halted>>

\* reclaim_guest_path came back with nothing to report.
Reclaimed(p) ==
  /\ Runs(p) /\ phase[p] = "reclaiming"
  /\ unclean' = unclean \ {at[p]}
  /\ Goes(p, "cleaning") /\ cpu' = p
  /\ UNCHANGED <<asks, records, held, owed, marked, exists, missed, todo, rel, at, reports, halted>>

\* It failed, or a transport noted a program that did not stop: the whole instance has to go.
ReclaimFails(p) ==
  /\ Runs(p) /\ phase[p] = "reclaiming"
  /\ QueueCleanup(p, at[p]) /\ cpu' = p
  /\ UNCHANGED <<asks, records, held, unclean, marked, exists, missed, todo, at, halted>>

\* Cancelled: what is not reclaimed, this key included, is refused to the next call.
ReclaimCancelled(p) ==
  /\ Runs(p) /\ phase[p] = "reclaiming"
  /\ marked' = marked \cup ((todo[p] \cup {at[p]}) \cap Conv)
  /\ GiveBack(p, "last") /\ cpu' = p
  /\ UNCHANGED <<asks, records, held, unclean, owed, exists, missed, todo, at, reports, halted>>

\* The call's own sandbox is deleted, or the host is told that it is not.
Disposed(p) ==
  /\ Runs(p) /\ phase[p] = "disposing"
  /\ \E landed \in BOOLEAN :
       /\ DisposeCall(at[p], landed)
       /\ reports' = IF landed THEN reports ELSE reports \cup {p}
  /\ Goes(p, "cleaning") /\ cpu' = p
  /\ UNCHANGED <<asks, records, held, unclean, owed, marked, todo, rel, at, halted>>

\* Cancelled during the delete: nothing is marked for a key that has no next acquire.
DisposeCancelled(p) ==
  /\ Runs(p) /\ phase[p] = "disposing"
  /\ missed' = missed \cup {at[p]}
  /\ marked' = marked \cup (todo[p] \cap Conv)
  /\ GiveBack(p, "last") /\ cpu' = p
  /\ UNCHANGED <<asks, records, held, unclean, owed, exists, todo, at, reports, halted>>

-----------------------------------------------------------------------------
Giving == {"releasing", "last"}
Leaving == {"leaving", "leavingLast"}

\* A slip: the pass waits for the acquire instead.
KeepHoldWaits(p) ==
  /\ cpu = p /\ phase[p] \in Giving
  /\ rel[p] \cap AcquiringBut({}) # {}
  /\ cpu' = None
  /\ UNCHANGED <<asks, records, fate, pass>>

\* An admission whose key has an acquire in flight is kept, and its entry drained.
KeepHold(p) ==
  /\ cpu = p /\ phase[p] \in Giving
  /\ \E k \in rel[p] \cap AcquiringBut({}) : rel' = [rel EXCEPT ![p] = @ \ {k}]
  /\ UNCHANGED <<cpu, asks, records, fate, phase, todo, at, reports, halted>>

\* release_call that does not await: siblings remain, nothing is queued, or the pass was
\* interrupted and leaves its targets to the ledger.
Release(p) ==
  /\ cpu = p /\ phase[p] \in Giving
  /\ \E k \in rel[p] \ AcquiringBut({}) :
       /\ rel' = [rel EXCEPT ![p] = @ \ {k}]
       /\ held' = held \ {k} /\ entered' = entered \ {k}
       /\ \/ UNCHANGED <<owed, marked>>
          \/ /\ p \in halted /\ k \in owed \cap held
             /\ owed' = owed \ {k} /\ marked' = marked \cup {k}
  /\ UNCHANGED <<cpu, asks, ledger, served, fresh, unclean, exists, missed, phase, todo, at,
                 reports, halted>>

\* release_call that awaits: this call is the last one out of an entry with queued cleanup.
ReleaseAndClean(p) ==
  /\ cpu = p /\ phase[p] \in Giving /\ p \notin halted
  /\ \E k \in rel[p] \ AcquiringBut({}) :
       /\ k \in held
       /\ rel' = [rel EXCEPT ![p] = @ \ {k}]
       /\ held' = held \ {k}
       /\ at' = [at EXCEPT ![p] = k]
  /\ Goes(p, IF phase[p] = "last" THEN "leavingLast" ELSE "leaving")
  /\ cpu' = None
  /\ UNCHANGED <<asks, records, unclean, owed, marked, exists, missed, todo, reports, halted>>

BackToGiving(p) ==
  /\ Goes(p, IF phase[p] = "leavingLast" THEN "last" ELSE "releasing")
  /\ entered' = entered \ {at[p]}
  /\ cpu' = p

Left(p) ==
  /\ Runs(p) /\ phase[p] \in Leaving /\ at[p] \notin owed
  /\ BackToGiving(p)
  /\ UNCHANGED <<asks, ledger, served, fresh, fate, todo, rel, at, reports, halted>>

\* A slip: a cancelled cleanup forgets the targets it had claimed.
LeaveCancelledUnmarked(p) ==
  /\ Runs(p) /\ phase[p] \in Leaving
  /\ owed' = owed \ {at[p]}
  /\ halted' = halted \cup {p}
  /\ BackToGiving(p)
  /\ UNCHANGED <<asks, ledger, served, fresh, held, unclean, marked, exists, missed, todo, rel,
                 at, reports>>

\* Cancelled while it cleans: the unfinished targets are marked, the other holds still go back.
LeaveCancelled(p) ==
  /\ Runs(p) /\ phase[p] \in Leaving
  /\ owed' = owed \ {at[p]}
  /\ marked' = IF at[p] \in owed THEN marked \cup {at[p]} ELSE marked
  /\ halted' = halted \cup {p}
  /\ BackToGiving(p)
  /\ UNCHANGED <<asks, ledger, served, fresh, held, unclean, exists, missed, todo, rel, at, reports>>

\* Everything is given back: report, or look once more at what is left (the finally).
GivenBack(p) ==
  /\ cpu = p /\ phase[p] = "releasing" /\ rel[p] = {}
  /\ IF p \in reports \ halted
       THEN Goes(p, "reporting") /\ cpu' = None /\ UNCHANGED rel
       ELSE GiveBack(p, "last") /\ UNCHANGED cpu
  /\ halted' = halted \ {p}
  /\ UNCHANGED <<asks, records, fate, todo, at, reports>>

\* wait_cleanup and on_reclaim_failure, each bounded, or cancelled.
Reported(p) ==
  /\ Runs(p) /\ phase[p] = "reporting"
  /\ GiveBack(p, "last") /\ cpu' = p
  /\ UNCHANGED <<asks, records, fate, todo, at, reports, halted>>

PassEnds(p) ==
  /\ cpu = p /\ phase[p] = "last" /\ rel[p] = {}
  /\ Goes(p, "done") /\ cpu' = None
  /\ pc' = IF p \in Tasks THEN [pc EXCEPT ![p] = "ended"] ELSE pc
  /\ UNCHANGED <<closed, touched, key, lock, records, fate, todo, rel, at, reports, halted>>

\* Queued cleanup runs once this call has left, here or in the last sibling out.
Settle(k) ==
  /\ cpu = None /\ k \in owed \ held
  /\ owed' = owed \ {k}
  /\ \/ unclean' = unclean \ {k} /\ UNCHANGED marked
     \/ marked' = marked \cup {k} /\ UNCHANGED unclean
  /\ UNCHANGED <<cpu, asks, records, held, exists, missed, pass>>

-----------------------------------------------------------------------------
Acquirer(t) ==
  \/ Acquire(t) \/ Lock(t) \/ LockCancelled(t) \/ Entered(t) \/ EnterFails(t)
  \/ Create(t) \/ Created(t) \/ AcquireFails(t) \/ LateDisposed(t)

Cleaner(p) ==
  \/ CleanNext(p) \/ AllCleaned(p) \/ Reclaimed(p) \/ ReclaimFails(p) \/ ReclaimCancelled(p)
  \/ Disposed(p) \/ DisposeCancelled(p) \/ KeepHold(p) \/ Release(p) \/ ReleaseAndClean(p)
  \/ Left(p) \/ LeaveCancelled(p) \/ GivenBack(p) \/ Reported(p) \/ PassEnds(p)

Next ==
  /\ \/ \E t \in Tasks : Acquirer(t)
     \/ Close
     \/ \E p \in Passes : Cleaner(p)
     \/ \E k \in Conv : Settle(k)
  /\ UNCHANGED rung

Spec == Init /\ [][Next]_vars

\* What runs is not stopped between awaits, and every await of a cleanup pass has a bound of
\* its own; nothing makes an acquire come back.
Fairness ==
  /\ \A t \in Tasks : WF_moves(cpu = t /\ Acquirer(t))
  /\ \A p \in Passes : WF_moves(Cleaner(p))
  /\ \A k \in Conv : WF_moves(Settle(k))
FairSpec == Spec /\ Fairness

-----------------------------------------------------------------------------
AllDone ==
  closed /\ phase[Main] = "done" /\ \A t \in Tasks : pc[t] \in {"idle", "ended"}

\* A sandbox the call has had is cleaned, queued for cleanup or refused before this call's hold
\* on it goes (_SandboxToolCall.acquiring: "Conversation acquires retain their hold until a
\* late result has been cleaned").
HeldUntilClean == unclean \subseteq held \cup owed \cup marked

\* The same where the code delivers it: for the sandbox of a call that reaches no other, and
\* for each one whose cleanup is queued without an await (_clean_each_sandbox's rungs).
SoleOrWholeHeldUntilClean ==
  \A k \in unclean :
    touched = {k} \/ rung[k] = "whole" => k \in held \cup owed \cup marked

\* Once the wrapper and every acquire are over, nothing of the call is left: no admission that would
\* block a key, whatever was refused, late, failed or cancelled, and no sandbox created for the call,
\* unless its last delete did not land or the wrapper's pass was cut short before it came to it.
NothingLeft ==
  AllDone => held = {} /\ entered = {} /\ exists \subseteq missed \cup todo[Main]

\* The wrapper returns, however long an acquire it left behind takes.
CallReturns == closed ~> phase[Main] = "done"

\* In the end a closed call holds only what an acquire that never came back still needs.
HoldsReturned == closed ~> [](held \cap Conv \subseteq AcquiringBut({}))

=============================================================================
