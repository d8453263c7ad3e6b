---------------------------- MODULE DisposalLedger ----------------------------
(***************************************************************************)
(* The router's ledger of failed cleanups for one conversation key            *)
(* (_router.py: _unclean, _pending_disposals) and the disposals that retire    *)
(* its entries, across several backends, kinds and instances.                 *)
(*                                                                         *)
(* Disposals overlap: the lock that serializes them is per event loop, and      *)
(* the cleanup of a call and the purge of a scope do not take it.  The code     *)
(* compares ledger entries by identity, so a mark made while a disposal is       *)
(* under way is a new object it will not retire; here a new mark is removed      *)
(* from every snapshot taken before it.  FailedReclaimPolicy is not KEEP.       *)
(***************************************************************************)
EXTENDS Naturals

CONSTANTS
  Backends,   \* registered backends
  Kinds,      \* sandbox kinds
  Instances,  \* instance ids
  Every,      \* None in a selector: all kinds, or all instances
  Selectors,  \* the (kind, instance_id) pairs callers use
  Workers,    \* disposal operations that may be under way at once
  Idle        \* no target

\* A place where something may be left, and what a ledger entry or a delete may name.
Places == Backends \X Kinds \X Instances
Targets == {<<b, s[1], s[2]>> : b \in Backends, s \in Selectors}

VARIABLES
  flagged,    \* the key is in _unclean: acquire refuses it
  targets,    \* _pending_disposals[key]
  dirty,      \* engine: places that hold what a call left and that somebody marked
  pc,         \* each operation: "out", "locking", "choosing" its next delete, or "deleting"
  mode,       \* "sweep", "retry", "instance" (the host's) or "cleanup" (a call's)
  agenda,     \* deletes the operation has still to ask for
  at,         \* the delete it waits for
  snap,       \* ledger objects it has read and may retire
  struck      \* operations whose current delete has reached the engine

ledger == <<flagged, targets>>
vars == <<ledger, dirty, pc, mode, agenda, at, snap, struck>>

\* Does deleting, or marking, t concern place p?
Covers(t, p) ==
  /\ t[1] = p[1]
  /\ t[2] \in {Every, p[2]}
  /\ t[3] \in {Every, p[3]}

\* The same selector on each backend in bs.
On(bs, kind, instance) == {<<b, kind, instance>> : b \in bs}

\* _pending_for: the entries in T that an operation with these selectors may retire.
PendingFor(T, bs, kind, instance) ==
  {t \in T : /\ t[1] \in bs
             /\ kind = Every \/ t[2] = kind
             /\ instance = Every \/ t[3] = instance}

Init ==
  /\ flagged = FALSE
  /\ targets = {}
  /\ dirty = {}
  /\ pc = [w \in Workers |-> "out"]
  /\ mode = [w \in Workers |-> "sweep"]
  /\ agenda = [w \in Workers |-> {}]
  /\ at = [w \in Workers |-> Idle]
  /\ snap = [w \in Workers |-> {}]
  /\ struck = {}

-----------------------------------------------------------------------------
(* The ledger itself.                                                        *)

\* A slip: entries compared by their key rather than by identity.
RenewedNever(S) == snap

\* The snapshots without the entries in S, which are new objects from now on.
Renewed(S) == [w \in Workers |-> snap[w] \ S]

\* _mark_unclean
Mark(S) ==
  /\ targets' = targets \cup S
  /\ flagged' = TRUE

\* mark_unclean by a call that leaves something at p.
MarkUnclean(t, p) ==
  /\ Covers(t, p)
  /\ Mark({t})
  /\ snap' = Renewed({t})
  /\ dirty' = dirty \cup {p}
  /\ UNCHANGED <<pc, mode, agenda, at, struck>>

\* _forget_pending: the key opens when the last entry goes.
ForgetPending(S) ==
  /\ targets' = targets \ S
  /\ flagged' = (flagged /\ targets' # {})

-----------------------------------------------------------------------------
(* Operations: ask for the lock, read the ledger, delete one target after another. *)

Request(w, how, todo) ==
  /\ pc[w] = "out"
  /\ pc' = [pc EXCEPT ![w] = "locking"]
  /\ mode' = [mode EXCEPT ![w] = how]
  /\ agenda' = [agenda EXCEPT ![w] = todo]
  /\ UNCHANGED <<dirty, at, struck>>

\* dispose(key) and dispose_scope (every kind), or dispose_kind(key, kind).
Sweep(w, kind) ==
  /\ Request(w, "sweep", On(Backends, kind, Every))
  /\ UNCHANGED <<ledger, snap>>

\* dispose_kind(key, kind, instance_id): on the backends that served it, or on all of them.
DisposeKindInstance(w, bs, kind, instance) ==
  /\ Request(w, "instance", On(bs, kind, instance))
  /\ UNCHANGED <<ledger, snap>>

\* _run_the_rung's delete, on the one backend that served the call.
CleanUp(w, b, kind, instance) ==
  /\ Request(w, "cleanup", On({b}, kind, instance))
  /\ UNCHANGED <<ledger, snap>>

\* dispose_unclean: a selected target is marked anew, the whole key only if nothing is.
DisposeUnclean(w, bs, kind, instance) ==
  /\ Request(w, "retry", On(bs, kind, instance))
  /\ IF kind = Every /\ instance = Every /\ flagged
       THEN UNCHANGED <<ledger, snap>>
       ELSE Mark(On(bs, kind, instance)) /\ snap' = Renewed(On(bs, kind, instance))

\* The lock is free.  A sweep reads what it may retire; a retry reads what it will delete, and
\* falls back on what it was asked for when somebody else has retired that meanwhile.
Start(w) ==
  /\ pc[w] = "locking"
  /\ pc' = [pc EXCEPT ![w] = "choosing"]
  /\ LET asked == CHOOSE t \in agenda[w] : TRUE
         pending == PendingFor(targets, Backends, asked[2], asked[3])
     IN /\ snap' = [snap EXCEPT ![w] = IF mode[w] \in {"sweep", "retry"} THEN pending ELSE {}]
        /\ agenda' = [agenda EXCEPT ![w] = IF mode[w] = "retry" /\ pending # {}
                                             THEN pending ELSE @]
  /\ UNCHANGED <<ledger, dirty, mode, at, struck>>

\* The next delete begins.  _dispose_the_kind reads the ledger only here, and marks its target
\* first when the call that asked for it had a reason to ("noted").
Choose(w, t, noted) ==
  /\ pc[w] = "choosing"
  /\ t \in agenda[w]
  /\ noted => mode[w] = "cleanup"
  /\ pc' = [pc EXCEPT ![w] = "deleting"]
  /\ at' = [at EXCEPT ![w] = t]
  /\ agenda' = [agenda EXCEPT ![w] = @ \ {t}]
  /\ IF noted THEN Mark({t}) ELSE UNCHANGED ledger
  /\ snap' = [v \in Workers |->
                IF v = w /\ mode[w] \in {"instance", "cleanup"}
                  THEN PendingFor(targets', {t[1]}, t[2], t[3])
                  ELSE IF noted THEN snap[v] \ {t} ELSE snap[v]]
  /\ UNCHANGED <<dirty, mode, struck>>

\* The delete reaches the engine.
Strike(w) ==
  /\ pc[w] = "deleting"
  /\ w \notin struck
  /\ dirty' = {p \in dirty : ~Covers(at[w], p)}
  /\ struck' = struck \cup {w}
  /\ UNCHANGED <<ledger, pc, mode, agenda, at, snap>>

\* Back from the await, to the next delete.
Resume(w) ==
  /\ pc[w] = "deleting"
  /\ pc' = [pc EXCEPT ![w] = "choosing"]
  /\ at' = [at EXCEPT ![w] = Idle]
  /\ struck' = struck \ {w}
  /\ UNCHANGED <<dirty, mode, agenda>>

\* What a delete that landed retires: what was read of this backend; a retry, this entry only.
Retired(w) ==
  IF mode[w] = "retry" THEN snap[w] \cap {at[w]}
                       ELSE {t \in snap[w] : t[1] = at[w][1]}

Land(w) ==
  /\ w \in struck
  /\ ForgetPending(Retired(w))
  /\ Resume(w)
  /\ UNCHANGED snap

\* It failed.  A sweep closes nothing; _dispose_the_kind marks its target; a retry keeps the
\* entry that is there (setdefault), or records a new one.
Miss(w) ==
  /\ IF mode[w] = "sweep"
       THEN UNCHANGED <<ledger, snap>>
       ELSE /\ Mark({at[w]})
            /\ snap' = Renewed(IF mode[w] = "retry" THEN {at[w]} \ targets ELSE {at[w]})
  /\ Resume(w)

Leave(w) ==
  /\ pc' = [pc EXCEPT ![w] = "out"]
  /\ agenda' = [agenda EXCEPT ![w] = {}]
  /\ at' = [at EXCEPT ![w] = Idle]
  /\ mode' = [mode EXCEPT ![w] = "sweep"]
  /\ struck' = struck \ {w}
  /\ UNCHANGED dirty

End(w) ==
  /\ pc[w] = "choosing"
  /\ agenda[w] = {}
  /\ Leave(w)
  /\ snap' = [snap EXCEPT ![w] = {}]
  /\ UNCHANGED ledger

\* What an interrupted operation has to mark: _dispose_the_kind marks the delete in flight, and
\* dispose_kind every backend it has not heard from.
Unheard(w) ==
  (IF pc[w] = "deleting" /\ mode[w] \in {"instance", "cleanup"} THEN {at[w]} ELSE {})
    \cup (IF mode[w] = "instance" THEN agenda[w] ELSE {})

\* Cancelled, or past its bound, while it waits for the lock or for a delete.
Interrupted(w) ==
  /\ pc[w] \in {"locking", "deleting"}
  /\ IF Unheard(w) = {} THEN UNCHANGED ledger ELSE Mark(Unheard(w))
  /\ snap' = [v \in Workers |-> IF v = w THEN {} ELSE snap[v] \ Unheard(w)]
  /\ Leave(w)

-----------------------------------------------------------------------------

Next ==
  \/ \E t \in Targets, p \in Places : MarkUnclean(t, p)
  \/ \E w \in Workers :
       \/ \E s \in Selectors :
            \/ s[2] = Every /\ Sweep(w, s[1])
            \/ \E bs \in (SUBSET Backends) \ {{}} :
                 /\ s[1] # Every /\ s[2] # Every
                 /\ DisposeKindInstance(w, bs, s[1], s[2])
            \/ \E b \in Backends : s[1] # Every /\ CleanUp(w, b, s[1], s[2])
            \/ \E bs \in (SUBSET Backends) \ {{}} :
                 /\ s[2] = Every => bs = Backends
                 /\ DisposeUnclean(w, bs, s[1], s[2])
       \/ Start(w)
       \/ \E t \in agenda[w], noted \in BOOLEAN : Choose(w, t, noted)
       \/ Strike(w)
       \/ Land(w)
       \/ Miss(w)
       \/ End(w)
       \/ Interrupted(w)

Spec == Init /\ [][Next]_vars

-----------------------------------------------------------------------------
(* Properties.                                                               *)

\* Every variable has its type.
TypeOK ==
  /\ flagged \in BOOLEAN
  /\ targets \subseteq Targets
  /\ dirty \subseteq Places
  /\ pc \in [Workers -> {"out", "locking", "choosing", "deleting"}]
  /\ mode \in [Workers -> {"sweep", "retry", "instance", "cleanup"}]
  /\ agenda \in [Workers -> SUBSET Targets]
  /\ at \in [Workers -> Targets \cup {Idle}]
  /\ snap \in [Workers -> SUBSET Targets]
  /\ struck \subseteq Workers

\* The two maps agree: a key is refused exactly while some target is waiting to land, so no
\* disposal leaves a key refused with nothing to retry, or open with something to.
RefusedWhilePending == flagged <=> targets # {}

\* What was left behind and marked stays marked until a delete of that very place has gone
\* through, however many disposals overlap, fail, are cancelled or land late.
MarkedUntilGone ==
  \A p \in dirty : \E t \in targets : Covers(t, p)

=============================================================================
