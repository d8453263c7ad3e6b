---------------------------- MODULE SandboxRouter ----------------------------
(***************************************************************************)
(* One conversation key and kind of the sandbox router (_router.py), from a   *)
(* tool call's admission to the cleanup of what it left: acquire and adopt,   *)
(* the ledger of instances known to be unclean, the rung that runs when the    *)
(* last call leaves, the disposals a host asks for, and a restart of the host. *)
(*                                                                         *)
(* An action is the code between two awaits.  Every await of the modelled      *)
(* operations may end in success, in failure (an error or its timeout), or in   *)
(* cancellation, and anybody else's steps may come in between.                *)
(*                                                                         *)
(* Admission is the abstract table; the engine that keeps the instances        *)
(* (src/ calls it through SandboxBackend and Sandbox) is external.            *)
(***************************************************************************)
EXTENDS Naturals, FiniteSets

CONSTANTS
  Calls,      \* tool calls, again and again
  Instances,  \* instance ids the engine can hand out
  Host,       \* the host's own disposals
  Whole,      \* the target that names no instance: everything under the key
  Nothing,    \* no target
  Gone,       \* owner of what calls no longer inside have left behind
  Setups      \* pairs of an admitted cleanup and whether the backend declares SNAPSHOT

ASSUME SetupsAssumption ==
  Setups \subseteq ({"reclaim", "reset", "dispose"} \X BOOLEAN) \ {<<"reset", FALSE>>}

ASSUME NamesAssumption ==
  /\ Host \notin Calls
  /\ Gone \notin Calls
  /\ Whole \notin Instances
  /\ Nothing \notin Instances \cup {Whole}

Targets == Instances \cup {Whole}
Actors == Calls \cup {Host}

VARIABLES
  inside, alone, owed, open,  \* the admission entry (see Admission)
  pc,       \* where each call, and the host, is
  at,       \* the instance, or Whole, its current await is about
  held,     \* instances a call was served
  todo,     \* what is left to do: sandboxes to reclaim, the record being cleaned, targets to retry
  seen,     \* _seen: instances this router has made or cleaned itself
  unclean,  \* _pending_disposals: targets that must land before the key is served
  snap,     \* the ledger objects an attempt will retire if it lands
  struck,   \* attempts whose delete has reached the engine
  live,     \* engine: instances that exist
  dirt,     \* engine: whose data and processes each instance holds
  shun,     \* history: instances that held a departed call's data when the call was admitted
  setup     \* the pair in force: the workload's rung and the backend's capability never change

admission == <<inside, alone, owed, open>>
control == <<pc, at, held, todo>>
ledger == <<unclean, snap, struck>>
engine == <<live, dirt>>
vars == <<admission, control, seen, ledger, engine, shun, setup>>

Rung == setup[1]
Snapshot == setup[2]

A == INSTANCE Admission

-----------------------------------------------------------------------------

\* Calls that hold the adoption slot: only one acquire per (key, kind) at a time.
Adopting ==
  {c \in Calls : pc[c] \in {"acquiring", "restoring", "evicting", "recreating", "refusing"}}

Disposing == {"evicting", "refusing", "disposing", "retrying"}

\* An id nobody refers to any more: engine ids are never used twice.
Fresh(i) ==
  /\ i \notin live \cup seen \cup unclean \cup owed
  /\ \A p \in Actors : i # at[p] /\ i \notin snap[p] \cup todo[p]
  /\ \A c \in Calls : i \notin held[c] \cup shun[c]

Init ==
  /\ A!Init
  /\ pc = [p \in Actors |-> "out"]
  /\ at = [p \in Actors |-> Nothing]
  /\ held = [c \in Calls |-> {}]
  /\ todo = [p \in Actors |-> {}]
  /\ seen = {}
  /\ unclean = {}
  /\ snap = [p \in Actors |-> {}]
  /\ struck = {}
  /\ live = {}
  /\ dirt = [i \in Instances |-> {}]
  /\ shun = [c \in Calls |-> {}]
  /\ setup \in Setups

-----------------------------------------------------------------------------
(* The ledger.                                                               *)

\* mark_unclean: a mark is a new object, which no attempt in flight will retire.
Mark(S) ==
  /\ unclean' = unclean \cup S
  /\ snap' = [p \in Actors |-> snap[p] \ S]

\* Begin a delete of t: the marks it may retire are read before its first await.
\* "reason" marks t first, so that the key is closed while the delete is under way.
Attempt(p, t, reason) ==
  LET marked == IF reason THEN unclean \cup {t} ELSE unclean IN
    /\ unclean' = marked
    /\ snap' = [q \in Actors |->
                  IF q = p THEN (IF t = Whole THEN marked ELSE {t} \cap marked)
                  ELSE IF reason THEN snap[q] \ {t} ELSE snap[q]]
    /\ struck' = struck \ {p}

\* A slip in Land: deleting everything pops the key's whole ledger entry, newer marks included.
LandPopsTheKey(p) ==
  /\ p \in struck
  /\ seen' = IF at[p] = Whole THEN {} ELSE seen \ {at[p]}
  /\ unclean' = IF at[p] = Whole THEN {} ELSE unclean \ {at[p]}
  /\ snap' = [snap EXCEPT ![p] = {}]
  /\ struck' = struck \ {p}

\* The delete landed: forget the instances it covers and the marks it read.
Land(p) ==
  /\ p \in struck
  /\ seen' = IF at[p] = Whole THEN {} ELSE seen \ {at[p]}
  /\ unclean' = unclean \ snap[p]
  /\ snap' = [snap EXCEPT ![p] = {}]
  /\ struck' = struck \ {p}

\* It did not: the exact target is kept for a retry.
Miss(p) ==
  /\ unclean' = unclean \cup {at[p]}
  /\ snap' = [q \in Actors |-> IF q = p THEN {} ELSE snap[q] \ {at[p]}]
  /\ struck' = struck \ {p}
  /\ UNCHANGED seen

-----------------------------------------------------------------------------
(* The engine: what a delete, a get-or-create or a reset does to instances.    *)

Remove(S) ==
  /\ live' = live \ S
  /\ dirt' = [i \in Instances |-> IF i \in S THEN {} ELSE dirt[i]]

\* backend.acquire returns an existing instance, or a new one if there is none.
GetOrCreate(i) ==
  /\ i \in live \/ (live = {} /\ Fresh(i))
  /\ live' = live \cup {i}
  /\ UNCHANGED dirt

\* A reset replaces instance i by j, which holds what is in "left".
Replace(i, j, left) ==
  /\ i \in live /\ Fresh(j)
  /\ live' = (live \ {i}) \cup {j}
  /\ dirt' = [dirt EXCEPT ![i] = {}, ![j] = left]

\* A reset that did not succeed leaves i, or a replacement it has not cleaned.
Unreset(i, j) ==
  \/ j = i /\ UNCHANGED engine
  \/ Replace(i, j, dirt[i])

\* The delete an attempt asked for reaches the engine, before the attempt hears of it.
Strike(p) ==
  /\ pc[p] \in Disposing
  /\ p \notin struck
  /\ Remove(IF at[p] = Whole THEN Instances ELSE {at[p]})
  /\ struck' = struck \cup {p}
  /\ UNCHANGED <<admission, control, seen, unclean, snap, shun>>

\* An instance dies by itself, or by a delete nobody waits for any more.
Vanish(i) ==
  /\ i \in live
  /\ Remove({i})
  /\ UNCHANGED <<admission, control, seen, ledger, shun>>

-----------------------------------------------------------------------------
(* enter_call, and the body.                                                 *)

EnterCall(c, exclusively) ==
  /\ pc[c] = "out"
  /\ A!Enter(c, exclusively)
  /\ pc' = [pc EXCEPT ![c] = "inside"]
  /\ shun' = [shun EXCEPT ![c] = {i \in live : Gone \in dirt[i]}]
  /\ UNCHANGED <<at, held, todo, seen, ledger, engine>>

\* The body writes to, or runs something in, a sandbox it was served.
Use(c, i) ==
  /\ pc[c] = "inside"
  /\ i \in held[c] \cap live
  /\ c \notin dirt[i]
  /\ dirt' = [dirt EXCEPT ![i] = @ \cup {c}]
  /\ UNCHANGED <<admission, control, seen, ledger, live, shun>>

-----------------------------------------------------------------------------
(* acquire, under the adoption slot.                                         *)

\* c goes on to "next", with its await, if any, about t.
Goto(c, next, t) ==
  /\ pc' = [pc EXCEPT ![c] = next]
  /\ at' = [at EXCEPT ![c] = t]

Serve(c, i) ==
  /\ Goto(c, "inside", Nothing)
  /\ held' = [held EXCEPT ![c] = @ \cup {i}]
  /\ UNCHANGED <<ledger, todo>>

\* _refuse_a_key_closed_during_the_create: mark this instance, then delete it.
RefuseTheCreate(c, i) ==
  /\ Attempt(c, i, TRUE)
  /\ Goto(c, "refusing", i)
  /\ UNCHANGED <<held, todo>>

\* A refused key raises SandboxUnclean here and changes nothing.
Acquire(c) ==
  /\ pc[c] = "inside"
  /\ Adopting = {}
  /\ unclean = {}
  /\ Goto(c, "acquiring", Nothing)
  /\ UNCHANGED <<admission, held, todo, seen, ledger, engine, shun>>

\* Slips in _acquire_and_adopt: the ledger is not read again after backend.acquire, or an
\* instance this router does not know is served as it is.
AdoptUnchecked(c, i, flagged) ==
  /\ pc[c] = "acquiring"
  /\ GetOrCreate(i)
  /\ flagged => i \notin live
  /\ \/ /\ i \in seen \/ flagged
        /\ Serve(c, i)
        /\ seen' = seen \cup {i}
     \/ /\ i \notin seen /\ ~flagged
        /\ IF Snapshot THEN Goto(c, "restoring", i) /\ UNCHANGED ledger
                       ELSE Goto(c, "evicting", i) /\ Attempt(c, i, FALSE)
        /\ UNCHANGED <<held, todo, seen>>
  /\ UNCHANGED <<admission, shun>>

AdoptUnfamiliar(c, i, flagged) ==
  /\ pc[c] = "acquiring"
  /\ GetOrCreate(i)
  /\ flagged => i \notin live
  /\ \/ /\ unclean # {}
        /\ RefuseTheCreate(c, i)
        /\ UNCHANGED seen
     \/ /\ unclean = {}
        /\ Serve(c, i)
        /\ seen' = seen \cup {i}
  /\ UNCHANGED <<admission, shun>>

\* backend.acquire returned i: the ledger is read again, then _adopt looks at i.
\* "flagged" is Sandbox.freshly_created.
Adopt(c, i, flagged) ==
  /\ pc[c] = "acquiring"
  /\ GetOrCreate(i)
  /\ flagged => i \notin live
  /\ \/ /\ unclean # {}
        /\ RefuseTheCreate(c, i)
        /\ UNCHANGED seen
     \/ /\ unclean = {}
        /\ i \in seen \/ flagged
        /\ Serve(c, i)
        /\ seen' = seen \cup {i}
     \/ /\ unclean = {}
        /\ i \notin seen /\ ~flagged
        /\ IF Snapshot THEN Goto(c, "restoring", i) /\ UNCHANGED ledger
                       ELSE Goto(c, "evicting", i) /\ Attempt(c, i, FALSE)
        /\ UNCHANGED <<held, todo, seen>>
  /\ UNCHANGED <<admission, shun>>

\* backend.acquire raised or was cancelled, having created an instance or not.
AcquireFails(c) ==
  /\ pc[c] \in {"acquiring", "recreating"}
  /\ Goto(c, "inside", Nothing)
  /\ \/ UNCHANGED engine
     \/ \E i \in Instances : GetOrCreate(i)
  /\ UNCHANGED <<admission, held, todo, seen, ledger, shun>>

\* The unfamiliar instance was reset to its snapshot, under a new id.
Restored(c, j) ==
  /\ pc[c] = "restoring"
  /\ Replace(at[c], j, {})
  /\ \/ /\ unclean # {}
        /\ RefuseTheCreate(c, j)
        /\ UNCHANGED seen
     \/ /\ unclean = {}
        /\ Serve(c, j)
        /\ seen' = (seen \ {at[c]}) \cup {j}
  /\ UNCHANGED <<admission, shun>>

\* It was not: it is deleted instead.
RestoreFails(c, j) ==
  /\ pc[c] = "restoring"
  /\ Unreset(at[c], j)
  /\ Attempt(c, j, FALSE)
  /\ Goto(c, "evicting", j)
  /\ UNCHANGED <<admission, held, todo, seen, shun>>

RestoreCancelled(c, j) ==
  /\ pc[c] = "restoring"
  /\ Unreset(at[c], j)
  /\ Mark({j})
  /\ Goto(c, "inside", Nothing)
  /\ UNCHANGED <<admission, held, todo, seen, struck, shun>>

\* The unfamiliar instance is gone: ask the backend once more.
Evicted(c) ==
  /\ pc[c] = "evicting"
  /\ Land(c)
  /\ Goto(c, "recreating", Nothing)
  /\ UNCHANGED <<admission, held, todo, engine, shun>>

\* The second instance is served without another look at where it came from.
Recreated(c, i) ==
  /\ pc[c] = "recreating"
  /\ GetOrCreate(i)
  /\ \/ /\ unclean # {}
        /\ RefuseTheCreate(c, i)
        /\ UNCHANGED seen
     \/ /\ unclean = {}
        /\ Serve(c, i)
        /\ seen' = seen \cup {i}
  /\ UNCHANGED <<admission, shun>>

\* The refused acquire's own delete landed; the call is told the sandbox is unclean.
Refused(c) ==
  /\ pc[c] = "refusing"
  /\ Land(c)
  /\ Goto(c, "inside", Nothing)
  /\ UNCHANGED <<admission, held, todo, engine, shun>>

\* A delete during acquire failed, timed out or was cancelled.
AcquireDisposalFails(c) ==
  /\ pc[c] \in {"evicting", "refusing"}
  /\ Miss(c)
  /\ Goto(c, "inside", Nothing)
  /\ UNCHANGED <<admission, held, todo, engine, shun>>

-----------------------------------------------------------------------------
(* The end of a call: reclaim or condemn what it was served, then leave.       *)

Close(c) ==
  /\ pc[c] = "inside"
  /\ Goto(c, "closing", Nothing)
  /\ todo' = [todo EXCEPT ![c] = held[c]]
  /\ UNCHANGED <<admission, held, seen, ledger, engine, shun>>

\* A rung above RECLAIM cleans the whole instance once everybody has left.
QueueCleanup(c, i) ==
  /\ pc[c] = "closing"
  /\ Rung # "reclaim"
  /\ i \in todo[c]
  /\ A!Condemn(c, i)
  /\ todo' = [todo EXCEPT ![c] = @ \ {i}]
  /\ UNCHANGED <<pc, at, held, seen, ledger, engine, shun>>

Reclaim(c, i) ==
  /\ pc[c] = "closing"
  /\ Rung = "reclaim"
  /\ i \in todo[c]
  /\ Goto(c, "reclaiming", i)
  /\ UNCHANGED <<admission, held, todo, seen, ledger, engine, shun>>

\* The call's directory is gone and nothing it started survives.
Reclaimed(c) ==
  /\ pc[c] = "reclaiming"
  /\ at[c] \in live
  /\ dirt' = [dirt EXCEPT ![at[c]] = @ \ {c}]
  /\ Goto(c, "closing", Nothing)
  /\ todo' = [todo EXCEPT ![c] = @ \ {at[c]}]
  /\ UNCHANGED <<admission, held, seen, ledger, live, shun>>

\* The removal failed, or a program outlived it: the instance is condemned.
ReclaimFails(c) ==
  /\ pc[c] = "reclaiming"
  /\ A!Condemn(c, at[c])
  /\ Goto(c, "closing", Nothing)
  /\ todo' = [todo EXCEPT ![c] = @ \ {at[c]}]
  /\ UNCHANGED <<held, seen, ledger, engine, shun>>

\* A slip: a cancelled reclaim just goes on to leave.
ReclaimAbandoned(c) ==
  /\ pc[c] = "reclaiming"
  /\ Goto(c, "closing", Nothing)
  /\ todo' = [todo EXCEPT ![c] = {}]
  /\ UNCHANGED <<admission, held, seen, ledger, engine, shun>>

\* _refuse_not_yet_reclaimed: everything the call was served is marked.
ReclaimCancelled(c) ==
  /\ pc[c] = "reclaiming"
  /\ Mark(held[c])
  /\ Goto(c, "closing", Nothing)
  /\ todo' = [todo EXCEPT ![c] = {}]
  /\ UNCHANGED <<admission, held, seen, struck, engine, shun>>

\* release_call: the last one out cleans what is owed.
ReleaseCall(c) ==
  /\ pc[c] = "closing"
  /\ todo[c] = {}
  /\ A!Exit(c)
  /\ pc' = [pc EXCEPT ![c] = IF inside = {c} /\ owed # {} THEN "cleaning" ELSE "out"]
  /\ held' = [held EXCEPT ![c] = {}]
  /\ shun' = [shun EXCEPT ![c] = {}]
  /\ dirt' = [i \in Instances |-> IF c \in dirt[i] THEN (dirt[i] \ {c}) \cup {Gone} ELSE dirt[i]]
  /\ UNCHANGED <<at, todo, seen, ledger, live>>

-----------------------------------------------------------------------------
(* _release_call and _run_the_rung: one record after another.                 *)

\* "noted" stands for PendingCleanup.unclean, which closes the key before the delete.
RunTheRung(c, i, noted) ==
  /\ pc[c] = "cleaning"
  /\ i \in owed
  /\ todo' = [todo EXCEPT ![c] = {i}]
  /\ IF Rung = "reset"
       THEN Goto(c, "resetting", i) /\ UNCHANGED ledger
       ELSE Goto(c, "disposing", i) /\ Attempt(c, i, noted \/ Rung = "reclaim")
  /\ UNCHANGED <<admission, held, seen, engine, shun>>

\* complete: the record in hand is done with.
Completed(c) ==
  /\ A!Settle(todo[c])
  /\ Goto(c, "cleaning", Nothing)
  /\ todo' = [todo EXCEPT ![c] = {}]

ResetDone(c, j) ==
  /\ pc[c] = "resetting"
  /\ Replace(at[c], j, {})
  /\ seen' = (seen \ {at[c]}) \cup {j}
  /\ Completed(c)
  /\ UNCHANGED <<held, ledger, shun>>

\* A failed reset escalates to a delete, of the replacement if there is one.
ResetFails(c, j) ==
  /\ pc[c] = "resetting"
  /\ Unreset(at[c], j)
  /\ seen' = (seen \ {at[c]}) \cup {j}
  /\ Attempt(c, j, TRUE)
  /\ Goto(c, "disposing", j)
  /\ UNCHANGED <<admission, held, todo, shun>>

Disposed(c) ==
  /\ pc[c] = "disposing"
  /\ c \in Calls
  /\ Land(c)
  /\ Completed(c)
  /\ UNCHANGED <<held, engine, shun>>

DisposeFails(c) ==
  /\ pc[c] = "disposing"
  /\ Miss(c)
  /\ Completed(c)
  /\ UNCHANGED <<held, engine, shun>>

\* Cancelled, or called with interrupted=True: every record that is not done is
\* marked, under the id its sandbox has now, and completed as failed.
Interrupted(c, j) ==
  /\ \/ /\ pc[c] = "resetting"
        /\ Unreset(at[c], j)
        /\ seen' = (seen \ {at[c]}) \cup {j}
        /\ Mark((owed \ todo[c]) \cup {j})
     \/ /\ pc[c] = "disposing"
        /\ j = at[c]
        /\ Mark((owed \ todo[c]) \cup {j})
        /\ UNCHANGED <<seen, engine>>
     \/ /\ pc[c] = "cleaning"
        /\ j \in owed
        /\ Mark(owed)
        /\ UNCHANGED <<seen, engine>>
  /\ A!Settle(owed)
  /\ Goto(c, "cleaning", Nothing)
  /\ todo' = [todo EXCEPT ![c] = {}]
  /\ struck' = struck \ {c}
  /\ UNCHANGED <<held, shun>>

\* cleaned
Reopen(c) ==
  /\ pc[c] = "cleaning"
  /\ A!Reopen
  /\ pc' = [pc EXCEPT ![c] = "out"]
  /\ UNCHANGED <<at, held, todo, seen, ledger, engine, shun>>

-----------------------------------------------------------------------------
(* The host: dispose(key), dispose_unclean(key), and a restart.               *)

HostDispose ==
  /\ pc[Host] = "out"
  /\ Attempt(Host, Whole, FALSE)
  /\ Goto(Host, "disposing", Whole)
  /\ UNCHANGED <<admission, held, todo, seen, engine, shun>>

HostDisposed ==
  /\ pc[Host] = "disposing"
  /\ Land(Host)
  /\ Goto(Host, "out", Nothing)
  /\ UNCHANGED <<admission, held, todo, engine, shun>>

\* A host's sweep that fails, or is cancelled, closes nothing.
HostDisposeFails ==
  /\ pc[Host] = "disposing"
  /\ Goto(Host, "out", Nothing)
  /\ snap' = [snap EXCEPT ![Host] = {}]
  /\ struck' = struck \ {Host}
  /\ UNCHANGED <<admission, held, todo, seen, unclean, engine, shun>>

\* dispose_unclean reads the pending targets, marking the whole key if there is none.
DisposeUnclean ==
  /\ pc[Host] = "out"
  /\ LET pending == IF unclean = {} THEN {Whole} ELSE unclean IN
       /\ unclean' = pending
       /\ snap' = [p \in Actors |-> IF p = Host THEN pending
                                     ELSE IF unclean = {} THEN snap[p] \ {Whole} ELSE snap[p]]
       /\ todo' = [todo EXCEPT ![Host] = pending]
  /\ Goto(Host, "choosing", Nothing)
  /\ UNCHANGED <<admission, held, seen, struck, engine, shun>>

RetryTarget(t) ==
  /\ pc[Host] = "choosing"
  /\ t \in todo[Host]
  /\ Goto(Host, "retrying", t)
  /\ todo' = [todo EXCEPT ![Host] = @ \ {t}]
  /\ struck' = struck \ {Host}
  /\ UNCHANGED <<admission, held, seen, unclean, snap, engine, shun>>

\* This target's own object is retired, if nobody has marked it again since.
RetryLands ==
  /\ pc[Host] = "retrying"
  /\ Host \in struck
  /\ seen' = IF at[Host] = Whole THEN {} ELSE seen \ {at[Host]}
  /\ unclean' = unclean \ (snap[Host] \cap {at[Host]})
  /\ snap' = [snap EXCEPT ![Host] = @ \ {at[Host]}]
  /\ struck' = struck \ {Host}
  /\ Goto(Host, "choosing", Nothing)
  /\ UNCHANGED <<admission, held, todo, engine, shun>>

\* setdefault: a target somebody else retired meanwhile is recorded anew.
RetryMisses ==
  /\ pc[Host] = "retrying"
  /\ unclean' = unclean \cup {at[Host]}
  /\ snap' = [p \in Actors |-> IF p = Host \/ at[Host] \notin unclean
                                THEN snap[p] \ {at[Host]} ELSE snap[p]]
  /\ struck' = struck \ {Host}
  /\ Goto(Host, "choosing", Nothing)
  /\ UNCHANGED <<admission, held, todo, seen, engine, shun>>

\* Every target was tried, or the bound of the whole retry expired.
RetryEnds ==
  /\ pc[Host] \in {"choosing", "retrying"}
  /\ pc[Host] = "choosing" => todo[Host] = {}
  /\ Goto(Host, "out", Nothing)
  /\ todo' = [todo EXCEPT ![Host] = {}]
  /\ snap' = [snap EXCEPT ![Host] = {}]
  /\ struck' = struck \ {Host}
  /\ UNCHANGED <<admission, held, seen, unclean, engine, shun>>

\* The host process dies and starts again: only the engine remembers anything.
Restart ==
  /\ inside' = {} /\ alone' = FALSE /\ owed' = {} /\ open' = TRUE
  /\ pc' = [p \in Actors |-> "out"]
  /\ at' = [p \in Actors |-> Nothing]
  /\ held' = [c \in Calls |-> {}]
  /\ todo' = [p \in Actors |-> {}]
  /\ seen' = {}
  /\ unclean' = {}
  /\ snap' = [p \in Actors |-> {}]
  /\ struck' = {}
  /\ dirt' = [i \in Instances |-> IF dirt[i] = {} THEN {} ELSE {Gone}]
  /\ shun' = [c \in Calls |-> {}]
  /\ UNCHANGED live

-----------------------------------------------------------------------------

CallNext(c) ==
  \/ \E exclusively \in BOOLEAN : EnterCall(c, exclusively)
  \/ Acquire(c)
  \/ AcquireFails(c)
  \/ Evicted(c)
  \/ Refused(c)
  \/ AcquireDisposalFails(c)
  \/ Close(c)
  \/ Reclaimed(c)
  \/ ReclaimFails(c)
  \/ ReclaimCancelled(c)
  \/ ReleaseCall(c)
  \/ Disposed(c)
  \/ DisposeFails(c)
  \/ Reopen(c)
  \/ \E i \in Instances :
       \/ Use(c, i)
       \/ \E flagged \in BOOLEAN : Adopt(c, i, flagged)
       \/ Restored(c, i)
       \/ RestoreFails(c, i)
       \/ RestoreCancelled(c, i)
       \/ Recreated(c, i)
       \/ QueueCleanup(c, i)
       \/ Reclaim(c, i)
       \/ \E noted \in BOOLEAN : RunTheRung(c, i, noted)
       \/ ResetDone(c, i)
       \/ ResetFails(c, i)
       \/ Interrupted(c, i)

HostNext ==
  \/ HostDispose
  \/ HostDisposed
  \/ HostDisposeFails
  \/ DisposeUnclean
  \/ \E t \in Targets : RetryTarget(t)
  \/ RetryLands
  \/ RetryMisses
  \/ RetryEnds
  \/ Restart

Next ==
  /\ \/ \E c \in Calls : CallNext(c)
     \/ HostNext
     \/ \E p \in Actors : Strike(p)
     \/ \E i \in Instances : Vanish(i)
  /\ UNCHANGED setup

Spec == Init /\ [][Next]_vars

-----------------------------------------------------------------------------
(* Properties.                                                               *)

PCs == {"out", "inside", "acquiring", "restoring", "evicting", "recreating", "refusing",
        "closing", "reclaiming", "cleaning", "resetting", "disposing", "choosing", "retrying"}

\* Every variable has its type, and admission agrees with where the calls are.
TypeOK ==
  /\ A!TypeOK
  /\ pc \in [Actors -> PCs]
  /\ at \in [Actors -> Targets \cup {Nothing}]
  /\ held \in [Calls -> SUBSET Instances]
  /\ todo \in [Actors -> SUBSET Targets]
  /\ seen \subseteq Instances
  /\ unclean \subseteq Targets
  /\ snap \in [Actors -> SUBSET Targets]
  /\ struck \subseteq Actors
  /\ live \subseteq Instances
  /\ dirt \in [Instances -> SUBSET (Calls \cup {Gone})]
  /\ shun \in [Calls -> SUBSET Instances]
  /\ setup \in Setups

\* No sandbox this router would recognise keeps a departed call's data without somebody owing
\* its cleanup: it is condemned, being cleaned, or in the ledger that refuses the key.
ResidueIsOwed ==
  \A i \in live \cap seen :
    Gone \in dirt[i] =>
      \/ i \in owed \cup unclean
      \/ \E c \in Calls : pc[c] \in {"resetting", "disposing"} /\ at[c] = i

\* No call is served an instance that held, when it was admitted, what a departed call had left
\* behind, unless that instance was cleaned in between: not after a failed, timed out or
\* cancelled cleanup, not across a concurrent disposal, not after a restart.
NoInheritance ==
  \A c \in Calls : held[c] \cap shun[c] = {}

\* A call is never handed a sandbox that holds what a departed call left, with one exception: a
\* call already inside may still be served an instance a sibling condemned on its way out, which
\* is cleaned when the last of them leaves.  So a key closed while backend.acquire was under way
\* does not hand out the instance it was closed for.
ServesNoResidue ==
  [][\A c \in Calls : \A i \in held'[c] \ held[c] : Gone \in dirt'[i] => i \in owed']_vars

\* A mark leaves the ledger only when the instance it names is gone: an attempt that was already
\* under way when the mark was made never retires it (mark_unclean: "A new mark survives a
\* disposal already in flight").
RetiredMeansGone ==
  [][~Restart => \A i \in unclean \ unclean' : i \notin live']_vars

=============================================================================
