-------------------------- MODULE HyperlightCalls --------------------------
(***************************************************************************)
(* Calls on the Hyperlight backend: the lease one call holds on a (key,    *)
(* kind) of the process-wide registry, the registry entry itself, and the  *)
(* exchanges a call makes with the worker process of its sandbox.          *)
(*                                                                         *)
(* One (key, kind).  Every call is admitted, acquires the sandbox, which   *)
(* its router resets first unless it knows the identity, runs code once,   *)
(* resets the sandbox, disposes of it where the reset failed, and leaves.  *)
(* Calls belong to routers of different event loops and threads, so a step *)
(* here is what one thread does between two awaits or under one lock.  The *)
(* backend's registry is shared by all of them; the mark that refuses the  *)
(* key, and the identities it has seen, are each router's own.  An         *)
(* exchange is made by a thread of its own, which its caller may leave     *)
(* behind.  A disposal from outside any call may fall anywhere.  A lease   *)
(* is named by the call whose setdefault made it, a permit by its call, an *)
(* instance by the call whose acquire made it, a router by one of its      *)
(* calls.  A policy of KEEP, under which a router marks nothing and serves *)
(* what it could not clean, is left out.                                   *)
(***************************************************************************)
EXTENDS FiniteSets, Naturals

CONSTANTS
    Calls, Outside, None,
    FileOutputs,  \* whether the backend is configured with file outputs
    Routings      \* the ways in which the calls may be those of one router or of several

ASSUME CallsAssumption ==
    IsFiniteSet(Calls) /\ None \notin Calls /\ Outside \notin Calls /\ None # Outside
ASSUME HostAssumption == FileOutputs \in BOOLEAN /\ Routings \subseteq [Calls -> Calls]

VARIABLES
    router,  \* the router of every call
    table,   \* the lease of the (key, kind) in _leases, or None
    lease,   \* lock, permit and users of every lease object
    mine,    \* the lease object a call's admit holds on to
    pc,      \* where a call stands
    gate,    \* the holder of the backend's registry gate, or None
    reg,     \* the instance registered, or None
    inst,    \* the instances: process up, retired, whose state it holds, and the routers that have
             \* seen its present identity
    have,    \* the instance a call acquired, or None
    x,       \* the call's exchange: its instance and thread, withdrawn, deadline passed
    told,    \* what the caller of run_code was told, or of a reset before it that was cancelled
    ran,     \* whether the call's code reached a worker
    unclean, \* the routers whose mark is on the key: they refuse it until they disposed of it
    out,     \* the disposal from outside: "idle" or "stopping"
    covered  \* the router whose mark that disposal will retire

admission == <<table, lease, mine>>
registry  == <<gate, reg, inst>>
results   == <<have, told, ran>>
ledger    == <<unclean, out, covered>>
vars == <<router, admission, pc, registry, results, x, ledger>>

Ops == {"init", "restore", "code", "reset"}
Stop == [init |-> "stop_init", restore |-> "stop_restore", code |-> "stop_code",
         reset |-> "stop_reset"]
Join == [init |-> "join_init", restore |-> "join_restore", code |-> "join_code",
         reset |-> "join_reset"]

\* An exchange goes on for its caller while it waits, stops the worker or joins the thread.
Exchanging == {"init", "stop_init", "join_init", "restore", "stop_restore", "join_restore",
               "code", "stop_code", "join_code", "reset", "stop_reset", "join_reset"}

Places == Exchanging
          \cup {"start", "waiting", "locked", "acquire", "stopping_old", "unprepared", "adopt", "redo",
                "redoing", "again", "run", "cleanup", "dispose", "disposing", "leave", "done"}

TypeOK ==
    /\ router \in [Calls -> Calls]
    /\ unclean \subseteq Calls /\ covered \subseteq Calls
    /\ table \in Calls \cup {None} /\ reg \in Calls \cup {None}
    /\ lease \in [Calls -> [lock: Calls \cup {None}, permit: Calls \cup {None},
                            users: 0 .. Cardinality(Calls)]]
    /\ mine \in [Calls -> Calls \cup {None}]
    /\ pc \in [Calls -> Places]
    /\ gate \in Calls \cup {None, Outside}
    /\ inst \in [Calls -> [up: BOOLEAN, retired: BOOLEAN, dirt: SUBSET Calls,
                           known: SUBSET Calls]]
    /\ have \in [Calls -> Calls \cup {None}]
    /\ x \in [Calls -> [op: Ops, of: Calls \cup {None},
                        thread: {"none", "pending", "running", "answered", "broken", "refused"},
                        withdrawn: BOOLEAN, late: BOOLEAN]]
    /\ told \in [Calls -> {"none", "ok", "queued", "cancelled", "failed"}]
    /\ ran \in [Calls -> BOOLEAN]
    /\ out \in {"idle", "stopping"}

NoExchange == [op |-> "init", of |-> None, thread |-> "none", withdrawn |-> FALSE, late |-> FALSE]

Init ==
    /\ router \in Routings
    /\ table = None
    /\ lease = [c \in Calls |-> [lock |-> None, permit |-> None, users |-> 0]]
    /\ mine = [c \in Calls |-> None]
    /\ pc = [c \in Calls |-> "start"]
    /\ gate = None /\ reg = None
    /\ inst = [c \in Calls |-> [up |-> FALSE, retired |-> FALSE, dirt |-> {}, known |-> {}]]
    /\ have = [c \in Calls |-> None]
    /\ x = [c \in Calls |-> NoExchange]
    /\ told = [c \in Calls |-> "none"]
    /\ ran = [c \in Calls |-> FALSE]
    /\ unclean = {} /\ out = "idle" /\ covered = {}

-----------------------------------------------------------------------------
(***************************************************************************)
(* Admission.                                                              *)
(***************************************************************************)

Goto(c, place) == pc' = [pc EXCEPT ![c] = place]

\* admit: the lease is looked up, or made, and counted in under the guard.
Enter(c) ==
    LET l == IF table = None THEN c ELSE table IN
    /\ pc[c] = "start"
    /\ table' = l
    /\ lease' = [lease EXCEPT ![l].users = @ + 1]
    /\ mine' = [mine EXCEPT ![c] = l]
    /\ Goto(c, "waiting")
    /\ UNCHANGED <<router, registry, results, x, ledger>>

\* The poll that finds the lease's lock free takes it.
Lock(c) ==
    /\ pc[c] = "waiting" /\ lease[mine[c]].lock = None
    /\ lease' = [lease EXCEPT ![mine[c]].lock = c]
    /\ Goto(c, "locked")
    /\ UNCHANGED <<router, table, mine, registry, results, x, ledger>>

\* The permit is published under the guard; the call goes on to acquire.
Permit(c) ==
    /\ pc[c] = "locked"
    /\ lease' = [lease EXCEPT ![mine[c]].permit = c]
    /\ Goto(c, "acquire")
    /\ UNCHANGED <<router, table, mine, registry, results, x, ledger>>

\* The entry of the table goes with its last user.
CountOut(c) ==
    /\ table' = IF lease[mine[c]].users = 1 THEN None ELSE table
    /\ mine' = [mine EXCEPT ![c] = None]

\* The wait's deadline passes, or the waiter is cancelled in its sleep.
GiveUp(c) ==
    /\ pc[c] = "waiting"
    /\ lease' = [lease EXCEPT ![mine[c]].users = @ - 1]
    /\ CountOut(c)
    /\ Goto(c, "done")
    /\ UNCHANGED <<router, registry, results, x, ledger>>

\* The scope is left: the permit expires and the lock is free.  What the call had and was told
\* goes with it.
Leave(c) ==
    /\ pc[c] = "leave"
    /\ lease' = [lease EXCEPT ![mine[c]] =
                    [lock |-> None, permit |-> None, users |-> @.users - 1]]
    /\ CountOut(c)
    /\ have' = [have EXCEPT ![c] = None]
    /\ told' = [told EXCEPT ![c] = "none"]
    /\ ran' = [ran EXCEPT ![c] = FALSE]
    /\ Goto(c, "done")
    /\ UNCHANGED <<router, registry, x, ledger>>

\* require_owner with allow_idle, for a task that is in no call.
Idle == \A l \in Calls : l = table => lease[l].permit = None

-----------------------------------------------------------------------------
(***************************************************************************)
(* Instances and the registry.                                             *)
(***************************************************************************)

Alive(i) == inst[i].up /\ ~inst[i].retired

\* stop retires the instance first.  Worker.close leaves the process reaped, or an error within
\* the cleanup allowance, the process gone or not; what it held goes with it.
Dead(i) == [inst[i] EXCEPT !.up = FALSE, !.dirt = {}]
Retired(i) == [inst[i] EXCEPT !.retired = TRUE]
Closed(i) == [Dead(i) EXCEPT !.retired = TRUE]

\* A thread is asked for an exchange; the exchange returns, its thread done.
Ask(c, op, i) ==
    x' = [x EXCEPT ![c] = [op |-> op, of |-> i, thread |-> "pending", withdrawn |-> FALSE, late |-> FALSE]]
Return(c)  == x' = [x EXCEPT ![c] = NoExchange]

\* The call awaits the backend's acquire: for the first time, its router not refusing the key, or
\* for another instance, once the first could not be reset and was disposed of.
Acquiring(c) == pc[c] = "again" \/ (pc[c] = "acquire" /\ router[c] \notin unclean)

\* What is acquired to replace an instance that was disposed of is remembered as it is.
Remembers(c) == IF pc[c] = "again" THEN {router[c]} ELSE {}

Fresh(c) == [up |-> TRUE, retired |-> FALSE, dirt |-> {}, known |-> Remembers(c)]

\* acquire of the router: an identity it has not seen is reset before anything runs in it.
Adopts(c, i) == IF router[c] \in inst[i].known \cup Remembers(c) THEN "run" ELSE "adopt"

\* A slip: an instance is known by its (key, kind).
AcquireTrusting(c) ==
    /\ Acquiring(c) /\ gate = None
    /\ reg # None /\ Alive(reg)
    /\ have' = [have EXCEPT ![c] = reg]
    /\ Goto(c, "run")
    /\ UNCHANGED <<router, admission, registry, told, ran, x, ledger>>

\* acquire: an instance that is alive is handed out as it is.
AcquireExisting(c) ==
    /\ Acquiring(c) /\ gate = None
    /\ reg # None /\ Alive(reg)
    /\ have' = [have EXCEPT ![c] = reg]
    /\ inst' = [inst EXCEPT ![reg].known = @ \cup Remembers(c)]
    /\ Goto(c, Adopts(c, reg))
    /\ UNCHANGED <<router, admission, gate, reg, told, ran, x, ledger>>

\* acquire: one that is not is stopped first, under the gate.
AcquireOverDead(c) ==
    /\ Acquiring(c) /\ gate = None
    /\ reg # None /\ ~Alive(reg)
    /\ gate' = c
    /\ inst' = [inst EXCEPT ![reg].retired = TRUE]
    /\ Goto(c, "stopping_old")
    /\ UNCHANGED <<router, admission, reg, results, x, ledger>>

\* acquire: with nothing registered a worker is spawned, registered and asked
\* to prepare; or it cannot be spawned.
AcquireNew(c) ==
    /\ Acquiring(c) /\ gate = None /\ reg = None
    /\ \/ /\ inst' = [inst EXCEPT ![c] = Fresh(c)]
          /\ reg' = c /\ gate' = c
          /\ Ask(c, "init", c)
          /\ Goto(c, "init")
       \/ Goto(c, "leave") /\ UNCHANGED <<registry, x>>
    /\ UNCHANGED <<router, admission, results, ledger>>

\* The old worker's close returns.  Confirmed, its entry makes way for the new
\* instance, if one can be spawned; unconfirmed, or with the caller cancelled
\* meanwhile, it stays.
CloseOld(c) ==
    /\ pc[c] = "stopping_old"
    /\ \/ /\ inst' = [inst EXCEPT ![reg] = Closed(reg), ![c] = Fresh(c)]
          /\ reg' = c /\ Ask(c, "init", c) /\ Goto(c, "init") /\ UNCHANGED gate
       \/ /\ inst' = [inst EXCEPT ![reg] = Closed(reg)]
          /\ reg' = None /\ gate' = None /\ Goto(c, "leave") /\ UNCHANGED x
       \/ /\ \E after \in {Closed(reg), Retired(reg)} : inst' = [inst EXCEPT ![reg] = after]
          /\ gate' = None /\ Goto(c, "leave") /\ UNCHANGED <<reg, x>>
    /\ UNCHANGED <<router, admission, results, ledger>>

\* The key is marked unclean, the gate was not had in time, or the call was
\* cancelled while it waited for it.
AcquireRefused(c) ==
    /\ pc[c] \in {"acquire", "again"}
    /\ Goto(c, "leave")
    /\ UNCHANGED <<router, admission, registry, results, x, ledger>>

\* A slip: the entry goes whether or not the stop was confirmed.
ForgetUnprepared(c) ==
    /\ pc[c] = "unprepared"
    /\ \E after \in {Closed(c), Retired(c)} : inst' = [inst EXCEPT ![c] = after]
    /\ reg' = None /\ gate' = None
    /\ Goto(c, "leave")
    /\ UNCHANGED <<router, admission, results, x, ledger>>

\* A preparation that failed stops its instance; the entry goes only with a
\* confirmed stop.
CloseUnprepared(c) ==
    /\ pc[c] = "unprepared"
    /\ \/ inst' = [inst EXCEPT ![c] = Closed(c)] /\ reg' = None
       \/ /\ \E after \in {Closed(c), Retired(c)} : inst' = [inst EXCEPT ![c] = after]
          /\ UNCHANGED reg
    /\ gate' = None
    /\ Goto(c, "leave")
    /\ UNCHANGED <<router, admission, results, x, ledger>>

\* A worker process may end by itself.
WorkerDies(i) ==
    /\ inst[i].up
    /\ inst' = [inst EXCEPT ![i] = Dead(i)]
    /\ UNCHANGED <<router, admission, pc, gate, reg, results, x, ledger>>

-----------------------------------------------------------------------------
(***************************************************************************)
(* Exchanges.                                                              *)
(***************************************************************************)

ThreadDone(c) == x[c].thread \in {"answered", "broken", "refused"}

\* Nobody hears of the end of a thread whose caller has left it behind.
Thread(c, state) ==
    x' = IF pc[c] \in Exchanging
           THEN [x EXCEPT ![c].thread = state]
           ELSE [x EXCEPT ![c] = NoExchange]

\* run_code or reset asks its thread, under the sandbox's own gate.
Begin(c, place, op) ==
    /\ pc[c] = place /\ Alive(have[c])
    /\ Ask(c, op, have[c])
    /\ Goto(c, op)
    /\ UNCHANGED <<router, admission, registry, results, ledger>>

Adopt(c)   == Begin(c, "adopt", "restore")
RunCode(c) == Begin(c, "run", "code")
Reset(c)   == Begin(c, "cleanup", "reset")

\* _exchange refuses a sandbox that is not alive.
RunRefused(c) ==
    /\ pc[c] = "run" /\ ~Alive(have[c])
    /\ told' = [told EXCEPT ![c] = "failed"]
    /\ Goto(c, "cleanup")
    /\ UNCHANGED <<router, admission, registry, have, ran, x, ledger>>

AdoptRefused(c) ==
    /\ pc[c] = "adopt" /\ ~Alive(have[c])
    /\ Goto(c, "redo")
    /\ UNCHANGED <<router, admission, registry, results, x, ledger>>

\* The router's mark, until its disposal of the instance lands.
Mark(c) == unclean' = unclean \cup {router[c]} /\ UNCHANGED <<out, covered>>
Unmark(c) == unclean' = unclean \ {router[c]} /\ UNCHANGED <<out, covered>>

\* The cleanup marks the key before it begins a disposal.
ResetRefused(c) ==
    /\ pc[c] = "cleanup" /\ ~Alive(have[c])
    /\ Goto(c, "dispose") /\ Mark(c)
    /\ UNCHANGED <<router, admission, registry, results, x>>

\* A slip: the thread looks at the clock only.
MayStartInTime(c) == ~x[c].late

\* The thread begins, unless its caller has withdrawn or the deadline has
\* passed: one lock covers this and the caller's withdrawal.
MayStart(c) == ~x[c].withdrawn /\ ~x[c].late

ThreadStarts(c) ==
    /\ x[c].thread = "pending" /\ MayStart(c)
    /\ IF inst[x[c].of].up
         THEN /\ Thread(c, "running")
              /\ IF x[c].op = "code"
                   THEN /\ ran' = [ran EXCEPT ![c] = TRUE]
                        /\ inst' = [inst EXCEPT ![x[c].of].dirt = @ \cup {c}]
                   ELSE UNCHANGED <<ran, inst>>
         ELSE Thread(c, "broken") /\ UNCHANGED <<ran, inst>>
    /\ UNCHANGED <<router, admission, pc, gate, reg, have, told, ledger>>

ThreadRefuses(c) ==
    /\ x[c].thread = "pending" /\ ~MayStart(c)
    /\ Thread(c, "refused")
    /\ UNCHANGED <<router, admission, pc, registry, results, ledger>>

\* The worker answers, having restored its baseline where that was asked.
ThreadAnswers(c) ==
    /\ x[c].thread = "running" /\ inst[x[c].of].up
    /\ Thread(c, "answered")
    /\ inst' = IF x[c].op \in {"restore", "reset"} THEN [inst EXCEPT ![x[c].of].dirt = {}] ELSE inst
    /\ UNCHANGED <<router, admission, pc, gate, reg, results, ledger>>

\* It answers an error, or the pipe ends.
ThreadBreaks(c) ==
    /\ x[c].thread = "running"
    /\ Thread(c, "broken")
    /\ UNCHANGED <<router, admission, pc, registry, results, ledger>>

DeadlinePasses(c) ==
    /\ pc[c] \in Ops /\ ~x[c].late
    /\ x' = [x EXCEPT ![c].late = TRUE]
    /\ UNCHANGED <<router, admission, pc, registry, results, ledger>>

InTime(c, op) == pc[c] = op /\ x[c].thread = "answered" /\ ~x[c].late

Prepared(c) ==
    /\ InTime(c, "init")
    /\ have' = [have EXCEPT ![c] = c]
    /\ gate' = None
    /\ Goto(c, Adopts(c, c))
    /\ Return(c)
    /\ UNCHANGED <<router, admission, reg, inst, told, ran, ledger>>

CodeRan(c) ==
    /\ InTime(c, "code")
    /\ told' = [told EXCEPT ![c] = "ok"]
    /\ Goto(c, "cleanup")
    /\ Return(c)
    /\ UNCHANGED <<router, admission, registry, have, ran, ledger>>

\* A restore is confirmed, unless a disposal retired the instance meanwhile.  The instance has a
\* new identity then, which the router that asked for it has seen and no other.
Renewed(c) == [inst EXCEPT ![have[c]].known = {router[c]}]

Restored(c) ==
    /\ InTime(c, "restore")
    /\ IF inst[have[c]].retired
         THEN Goto(c, "redo") /\ UNCHANGED inst
         ELSE Goto(c, "run") /\ inst' = Renewed(c)
    /\ Return(c)
    /\ UNCHANGED <<router, admission, gate, reg, results, ledger>>

ResetDone(c) ==
    /\ InTime(c, "reset")
    /\ IF inst[have[c]].retired
         THEN Goto(c, "dispose") /\ Mark(c) /\ UNCHANGED inst
         ELSE Goto(c, "leave") /\ inst' = Renewed(c) /\ UNCHANGED ledger
    /\ Return(c)
    /\ UNCHANGED <<router, admission, gate, reg, results>>

\* How an exchange ends for its caller other than by an answer in time: an
\* answer the caller rejects, an error, its deadline, a cancellation.  The
\* cleanup's own exchange runs in a task nobody cancels.
Endings(c) ==
    (IF x[c].thread \in {"answered", "broken"} THEN {"failed"} ELSE {})
    \cup (IF x[c].late \/ x[c].thread = "refused" THEN {"queued"} ELSE {})
    \cup (IF pc[c] # "reset" THEN {"cancelled"} ELSE {})

Started(c) == x[c].thread \in {"running", "answered", "broken"}

\* The caller withdraws.  Work that had started retires the sandbox, and work
\* that had not leaves it in service; a deadline that found no work started
\* is reported as a timeout in the queue.
Withdraw(c) ==
    /\ pc[c] \in Ops
    /\ \E ending \in Endings(c) :
          told' = IF pc[c] = "code" \/ (pc[c] = "restore" /\ ending = "cancelled")
                    THEN [told EXCEPT ![c] =
                            IF ending = "queued" /\ Started(c) THEN "failed" ELSE ending]
                    ELSE told
    /\ x' = [x EXCEPT ![c].withdrawn = TRUE, ![c].late = FALSE]
    /\ IF Started(c)
         THEN /\ inst' = [inst EXCEPT ![x[c].of].retired = TRUE]
              /\ Goto(c, Stop[pc[c]])
         ELSE Goto(c, Join[pc[c]]) /\ UNCHANGED inst
    /\ UNCHANGED <<router, admission, gate, reg, have, ran, ledger>>

AfterFailed == [init |-> "unprepared", restore |-> "redo", code |-> "cleanup",
                reset |-> "dispose"]

\* A failed exchange has ended for its caller: a cleanup marks the key and goes on to a disposal,
\* a reset before use is followed by one, unless it was cancelled: then the key is marked.
Fails(c, op) ==
    LET cut == op = "restore" /\ told[c] = "cancelled" IN
    /\ Goto(c, IF cut THEN "leave" ELSE AfterFailed[op])
    /\ IF cut \/ op = "reset" THEN Mark(c) ELSE UNCHANGED ledger

\* A slip: the thread is waited for even where its worker lives on.
StopAndJoin(c) ==
    \E op \in Ops :
        /\ pc[c] = Stop[op]
        /\ \E after \in {Closed(x[c].of), Retired(x[c].of)} :
              inst' = [inst EXCEPT ![x[c].of] = after]
        /\ Goto(c, Join[op])
        /\ UNCHANGED <<router, admission, gate, reg, results, x, ledger>>

\* The stop of a failed exchange returns.  The thread is waited for only where
\* its worker is gone.
StopReturns(c) ==
    \E op \in Ops :
        /\ pc[c] = Stop[op]
        /\ \E after \in {Closed(x[c].of), Retired(x[c].of)} :
              /\ inst' = [inst EXCEPT ![x[c].of] = after]
              /\ IF after.up THEN Fails(c, op) ELSE Goto(c, Join[op]) /\ UNCHANGED ledger
        /\ UNCHANGED <<router, admission, gate, reg, results, x>>

Joined(c) ==
    \E op \in Ops :
        /\ pc[c] = Join[op] /\ ThreadDone(c)
        /\ Fails(c, op)
        /\ Return(c)
        /\ UNCHANGED <<router, admission, registry, results>>

-----------------------------------------------------------------------------
(***************************************************************************)
(* Disposal.                                                               *)
(***************************************************************************)

\* _dispose claims the gate, retires what is registered and closes it.
Retire(who) ==
    /\ gate = None /\ reg # None
    /\ gate' = who
    /\ inst' = [inst EXCEPT ![reg].retired = TRUE]
    /\ UNCHANGED reg

\* The close returns: the entry goes when it is confirmed, and is kept for a
\* retry when it is not, or when its caller had no time left for it.
CloseRegistered(ok) ==
    /\ gate' = None
    /\ IF ok THEN inst' = [inst EXCEPT ![reg] = Closed(reg)] /\ reg' = None
             ELSE \E after \in {Closed(reg), Retired(reg)} :
                      inst' = [inst EXCEPT ![reg] = after] /\ UNCHANGED reg

\* A disposal has landed: of a cleanup, and the call leaves; of an instance that could not be reset
\* before use, and the call acquires another.
Landed(c) ==
    /\ IF pc[c] \in {"redo", "redoing"}
         THEN Goto(c, "again") /\ have' = [have EXCEPT ![c] = None]
         ELSE Goto(c, "leave") /\ UNCHANGED have
    /\ Unmark(c)

\* The router's disposal of an instance whose reset failed, with the call's own authority; with
\* nothing registered there is nothing to do.
Dispose(c) ==
    /\ pc[c] \in {"dispose", "redo"}
    /\ \/ /\ Retire(c)
          /\ Goto(c, IF pc[c] = "dispose" THEN "disposing" ELSE "redoing")
          /\ UNCHANGED <<have, ledger>>
       \/ gate = None /\ reg = None /\ Landed(c) /\ UNCHANGED registry
    /\ UNCHANGED <<router, admission, told, ran, x>>

\* The gate is not had in time, or a call that has run nothing yet is cancelled: the key is marked.
DisposeLate(c) ==
    /\ pc[c] \in {"dispose", "redo"}
    /\ Goto(c, "leave") /\ Mark(c)
    /\ UNCHANGED <<router, admission, registry, results, x>>

DisposeEnds(c) ==
    /\ pc[c] \in {"disposing", "redoing"}
    /\ \/ CloseRegistered(TRUE) /\ Landed(c)
       \/ CloseRegistered(FALSE) /\ Goto(c, "leave") /\ Mark(c) /\ UNCHANGED have
    /\ UNCHANGED <<router, admission, told, ran, x>>

\* What a router's disposal retires when it lands: its own mark, if it was there when it began.
Covers(marks) == marks \subseteq unclean /\ Cardinality(marks) <= 1

\* A disposal from outside any call; an instance with files is spared while a
\* call holds the lease.
OutsideDispose ==
    /\ out = "idle" /\ Retire(Outside)
    /\ FileOutputs => Idle
    /\ out' = "stopping"
    /\ \E marks \in SUBSET unclean : Covers(marks) /\ covered' = marks
    /\ UNCHANGED <<router, admission, pc, results, x, unclean>>

\* It finds nothing registered, or not the identity its mark names, because the instance has been
\* reset under another since.  (So may, here, a mark of an identity its router never came to know.)
OutsideNothing ==
    /\ out = "idle" /\ gate = None
    /\ \E marks \in SUBSET unclean :
          /\ Covers(marks) /\ unclean' = unclean \ marks
          /\ reg # None => marks \cap inst[reg].known = {}
    /\ UNCHANGED <<router, admission, pc, registry, results, x, out, covered>>

OutsideEnds ==
    /\ out = "stopping"
    /\ \E ok \in BOOLEAN :
          /\ CloseRegistered(ok)
          /\ unclean' = IF ok THEN unclean \ covered ELSE unclean
    /\ out' = "idle" /\ covered' = {}
    /\ UNCHANGED <<router, admission, pc, results, x>>

-----------------------------------------------------------------------------
Admit(c)   == Enter(c) \/ Lock(c) \/ Permit(c) \/ GiveUp(c) \/ Leave(c)
Acquire(c) == AcquireExisting(c) \/ AcquireOverDead(c) \/ AcquireNew(c) \/ CloseOld(c)
              \/ AcquireRefused(c) \/ CloseUnprepared(c) \/ Prepared(c)
              \/ Adopt(c) \/ AdoptRefused(c) \/ Restored(c)
Serve(c)   == RunCode(c) \/ RunRefused(c) \/ CodeRan(c) \/ Reset(c) \/ ResetRefused(c)
              \/ ResetDone(c) \/ StopReturns(c) \/ Joined(c)
              \/ Dispose(c) \/ DisposeLate(c) \/ DisposeEnds(c)

Next ==
    \/ \E c \in Calls :
          \/ Admit(c) \/ Acquire(c) \/ Serve(c) \/ Withdraw(c) \/ DeadlinePasses(c)
          \/ ThreadStarts(c) \/ ThreadRefuses(c) \/ ThreadAnswers(c) \/ ThreadBreaks(c)
          \/ WorkerDies(c)
    \/ OutsideDispose \/ OutsideNothing \/ OutsideEnds

\* Every wait of a call is a poll under a deadline, a close within an
\* allowance, or a thread.  A thread is owed its own beginning, and an end once
\* its worker is gone; a worker that is up owes nothing, and neither does
\* whoever disposes from outside, save for an end to a close it began.
Fairness ==
    /\ \A c \in Calls :
          /\ WF_vars(Lock(c) \/ Permit(c) \/ GiveUp(c) \/ Leave(c))
          /\ WF_vars(Acquire(c)) /\ WF_vars(Serve(c))
          /\ WF_vars(DeadlinePasses(c))
          /\ WF_vars(x[c].late /\ Withdraw(c))
          /\ WF_vars(ThreadStarts(c) \/ ThreadRefuses(c))
          /\ WF_vars(ThreadBreaks(c) /\ ~inst[x[c].of].up)
    /\ WF_vars(OutsideEnds)

Spec == Init /\ [][Next]_vars /\ Fairness

-----------------------------------------------------------------------------
(***************************************************************************)
(* Properties.                                                             *)
(***************************************************************************)

\* A (key, kind) never has two worker processes at once: an entry leaves the
\* registry only over a stop that is confirmed, whether the stop is of a dead
\* predecessor, of a preparation that failed or of a disposal.
OneWorker == Cardinality({i \in Calls : inst[i].up}) <= 1

\* No code runs in the state another call's code left: the lease, the reset, the disposal where
\* the reset fails and the mark where that fails too leave no gap between them for the calls of
\* one router, and the reset of an identity it has not seen leaves none for those of another.
NoResidue == \A i \in Calls : Cardinality(inst[i].dirt) <= 1

\* A run its caller got no result of is known not to have started, or has
\* retired its sandbox: a timeout reported as one of the queue and a
\* cancellation that leaves the sandbox in service never come of code that ran.
UnansweredRetires ==
    \A c \in Calls : told[c] \in {"queued", "cancelled", "failed"} /\ ran[c] =>
        told[c] # "queued" /\ inst[have[c]].retired

\* Every call comes to an end, whatever its worker does and whoever else holds
\* the lease, the gate or an unconfirmed close.
EveryCallEnds == \A c \in Calls : pc[c] # "start" ~> pc[c] = "done"
=============================================================================
