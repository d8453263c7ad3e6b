--------------------------- MODULE WorkloadService ---------------------------
(***************************************************************************)
(* The MCP workload service (workload_service.py): one call at a time over      *)
(* resources that the application owns.  An admitted call runs as a task of its   *)
(* own, which executes the workload and then has every resource of its binding    *)
(* cleaned up; the invocation waits for that task, and on a timeout or a          *)
(* cancellation cancels it once and stays until it has settled.  A cleanup that   *)
(* is not confirmed closes the service for good.                              *)
(*                                                                         *)
(* What a resource holds is modelled by whose work is in it.  Who opens a session  *)
(* and when the service ends is WorkloadHTTP's part, which composes this one.     *)
(***************************************************************************)
EXTENDS Naturals, FiniteSetsExt

CONSTANTS
  Calls,         \* tool calls in progress at a time; each may be made again once it has left
  NumResources,  \* the resources are 1..NumResources, in the order they are registered
  Uses,          \* the resources of the binding a call names
  Nobody         \* no call; also the owner of what no call answers for any more

Resources == 1..NumResources

ASSUME UsesAssumption ==
  /\ NumResources \in Nat \ {0}
  /\ Uses \in [Calls -> (SUBSET Resources) \ {{}}] /\ Nobody \notin Calls

VARIABLES
  life,      \* where the service's lifespan is
  up,        \* how many resources are started
  ready,     \* self.ready
  poisoned,  \* self.poisoned
  active,    \* self.active
  inv,       \* the invocation of each call
  task,      \* the task each invocation made
  told,      \* a cancellation of the task was asked for
  todo,      \* resources a cleanup has still to visit; Nobody's is the lifespan's own
  clean,     \* what a cleanup has visited so far has confirmed
  left       \* whose work each resource holds

service == <<life, up, ready, poisoned, active, inv, task, told, todo, clean, left>>

ServiceTypeOK ==
  /\ life \in {"start", "recover", "up", "retiring", "settle", "cleanup", "close", "over"}
  /\ up \in 0..NumResources
  /\ {ready, poisoned} \subseteq BOOLEAN
  /\ active \in Calls \cup {Nobody}
  /\ inv \in [Calls -> {"none", "queued", "waiting", "timedOut", "cancelled", "ended"}]
  /\ task \in [Calls -> {"none", "made", "execute", "cleanup", "done"}]
  /\ told \in [Calls -> BOOLEAN]
  /\ todo \in [Calls \cup {Nobody} -> SUBSET Resources]
  /\ clean \in [Calls \cup {Nobody} -> BOOLEAN]
  /\ left \in [Resources -> SUBSET (Calls \cup {Nobody})]

ServiceInit ==
  /\ life = "start" /\ up = 0 /\ ready = FALSE /\ poisoned = FALSE /\ active = Nobody
  /\ inv = [c \in Calls |-> "none"] /\ task = [c \in Calls |-> "none"]
  /\ told = [c \in Calls |-> FALSE]
  /\ todo = [o \in Calls \cup {Nobody} |-> {}]
  /\ clean = [o \in Calls \cup {Nobody} |-> TRUE]
  /\ left = [r \in Resources |-> {Nobody}]

Unsettled == {c \in Calls : task[c] \in {"made", "execute", "cleanup"}}

\* _settle's cancellation: asked for once, of a task that has not ended.
Cancelled(c) == [told EXCEPT ![c] = told[c] \/ c \in Unsettled]

-----------------------------------------------------------------------------
(* Cleanup: cleanup(names), by a call's task or by the lifespan.             *)

BeginCleanup(o, names) ==
  /\ todo' = [todo EXCEPT ![o] = names]
  /\ clean' = [clean EXCEPT ![o] = TRUE]

\* A slip: the answer of the last resource is the answer of all.
VisitLast(o) ==
  LET r == Min(todo[o])
      last == todo[o] = {r}
  IN /\ todo[o] # {}
     /\ todo' = [todo EXCEPT ![o] = @ \ {r}]
     /\ \E confirmed \in BOOLEAN :
          /\ left' = [left EXCEPT ![r] = IF confirmed \/ @ = {} THEN {} ELSE {Nobody}]
          /\ clean' = [clean EXCEPT ![o] = TRUE]
          /\ poisoned' = (poisoned \/ (last /\ ~confirmed))

\* One resource is asked, and confirms that it is clean, or does not, or raises: what it holds
\* is nobody's then.  After the last, a cleanup that was not confirmed throughout poisons the
\* service.  Nobody cancels the task it runs in, and a resource is taken not to raise a
\* cancellation of its own: only an Exception is caught.
Visit(o) ==
  LET r == Min(todo[o])
      last == todo[o] = {r}
  IN /\ todo[o] # {}
     /\ todo' = [todo EXCEPT ![o] = @ \ {r}]
     /\ \E confirmed \in BOOLEAN :
          /\ left' = [left EXCEPT ![r] = IF confirmed \/ @ = {} THEN {} ELSE {Nobody}]
          /\ clean' = [clean EXCEPT ![o] = last \/ (@ /\ confirmed)]
          /\ poisoned' = (poisoned \/ (last /\ ~(clean[o] /\ confirmed)))

-----------------------------------------------------------------------------
(* A call: invoke and the task of _execute.                                  *)

\* invoke up to its first await: refused when the service or the session is not open, when a
\* call is active, and for an unknown tool or arguments that do not fit; admitted otherwise.
Invoke(c, open) ==
  /\ inv[c] = "queued"
  /\ \/ /\ inv' = [inv EXCEPT ![c] = "ended"]
        /\ UNCHANGED <<task, active>>
     \/ /\ ready /\ ~poisoned /\ open /\ active = Nobody
        /\ inv' = [inv EXCEPT ![c] = "waiting"]
        /\ task' = [task EXCEPT ![c] = "made"]
        /\ active' = c
  /\ UNCHANGED <<life, up, ready, poisoned, told, todo, clean, left>>

\* The task's first step: it executes, and its work is in its resources from then on; cancelled
\* before it began, it has nothing to clean up.
Begin(c) ==
  /\ task[c] = "made"
  /\ \/ /\ ~told[c]
        /\ task' = [task EXCEPT ![c] = "execute"]
        /\ left' = [r \in Resources |-> IF r \in Uses[c] THEN left[r] \cup {c} ELSE left[r]]
     \/ told[c] /\ task' = [task EXCEPT ![c] = "done"] /\ UNCHANGED left
  /\ UNCHANGED <<life, up, ready, poisoned, active, inv, told, todo, clean>>

\* execute answers, raises, or is unwound by the cancellation: cleanup follows in every case.
ExecuteEnds(c) ==
  /\ task[c] = "execute"
  /\ task' = [task EXCEPT ![c] = "cleanup"]
  /\ BeginCleanup(c, Uses[c])
  /\ UNCHANGED <<life, up, ready, poisoned, active, inv, told, left>>

\* The cleanup task is drained through any cancellation.
CallCleanup(c) ==
  /\ task[c] = "cleanup" /\ Visit(c)
  /\ task' = IF todo'[c] = {} THEN [task EXCEPT ![c] = "done"] ELSE task
  /\ UNCHANGED <<life, up, ready, active, inv, told>>

\* The deadline passes.
Timeout(c) ==
  /\ inv[c] = "waiting"
  /\ inv' = [inv EXCEPT ![c] = "timedOut"]
  /\ told' = Cancelled(c)
  /\ UNCHANGED <<life, up, ready, poisoned, active, task, todo, clean, left>>

\* The invocation is cancelled by whoever awaits it.
CancelInvocation(c) ==
  /\ inv[c] = "waiting"
  /\ inv' = [inv EXCEPT ![c] = "cancelled"]
  /\ told' = Cancelled(c)
  /\ UNCHANGED <<life, up, ready, poisoned, active, task, todo, clean, left>>

\* The task has settled: the invocation leaves, with its result, a failure or the cancellation,
\* and gives up the slot.
Returns(c) ==
  /\ inv[c] \in {"waiting", "timedOut", "cancelled"} /\ task[c] = "done"
  /\ inv' = [inv EXCEPT ![c] = "ended"]
  /\ active' = Nobody
  /\ UNCHANGED <<life, up, ready, poisoned, task, told, todo, clean, left>>

-----------------------------------------------------------------------------
(* lifespan.                                                                 *)

calls == <<active, inv, task>>

\* The next resource is started, or does not start: it is closed with the others either way.
Start ==
  /\ life = "start"
  /\ up' = up + 1
  /\ \/ life' = "recover" /\ BeginCleanup(Nobody, {up'})
     \/ life' = "settle" /\ UNCHANGED <<todo, clean>>
  /\ UNCHANGED <<ready, poisoned, calls, told, left>>

\* What an earlier process left in it is cleaned up before it may be used.
Recover ==
  /\ life = "recover" /\ Visit(Nobody)
  /\ life' = IF poisoned' THEN "settle" ELSE IF up = NumResources THEN "up" ELSE "start"
  /\ ready' = (life' = "up")
  /\ UNCHANGED <<up, calls, told>>

\* finish: the active call, if there is one, is cancelled and waited for.
SettleActive ==
  /\ life = "settle"
  /\ told' = IF active = Nobody THEN told ELSE Cancelled(active)
  /\ active # Nobody => task[active] = "done" \/ ~told[active]
  /\ IF active = Nobody \/ task[active] = "done"
     THEN life' = "cleanup" /\ BeginCleanup(Nobody, 1..up)
     ELSE UNCHANGED <<life, todo, clean>>
  /\ UNCHANGED <<up, ready, poisoned, calls, left>>

FinalCleanup ==
  /\ life = "cleanup" /\ Visit(Nobody)
  /\ life' = IF todo'[Nobody] = {} THEN "close" ELSE life
  /\ UNCHANGED <<up, ready, calls, told>>

\* The resources are closed, the last one first; one that raises leaves the service poisoned.
CloseResource ==
  /\ life = "close"
  /\ up' = up - 1 /\ life' = IF up' = 0 THEN "over" ELSE life
  /\ \E failed \in BOOLEAN : poisoned' = (poisoned \/ failed)
  /\ UNCHANGED <<ready, calls, told, todo, clean, left>>

Lifespan == Start \/ Recover \/ SettleActive \/ FinalCleanup \/ CloseResource

CallStep(c) == Begin(c) \/ ExecuteEnds(c) \/ CallCleanup(c) \/ Timeout(c) \/ Returns(c)

-----------------------------------------------------------------------------
(* Properties.                                                               *)

\* A resource never holds the work of two owners: no call executes over what another call, or an
\* earlier process, left and no cleanup has confirmed gone; and nothing is cleaned up or closed
\* under a call that executes.
OneOwner ==
  /\ \A r \in Resources : Cardinality(left[r]) <= 1
  /\ \A c \in Calls : task[c] = "execute" =>
       /\ \A o \in Calls \cup {Nobody} : todo[o] \cap Uses[c] = {}
       /\ \A r \in Uses[c] : r <= up /\ c \in left[r]

=============================================================================
