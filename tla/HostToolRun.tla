----------------------------- MODULE HostToolRun -----------------------------
(***************************************************************************)
(* One guest program's run of host tools (_host_tools.py): HostToolRun, which  *)
(* counts calls, reserves responses and mints the user's identity, under        *)
(* BoundedHostToolPolicy, which runs each call as a task of its own, cancels it   *)
(* when its time is up and abandons it when it does not stop.                   *)
(*                                                                         *)
(* Calls of one run overlap on one event loop.  An action is the code between    *)
(* two awaits, and time may pass while it runs: the code reads the clock again    *)
(* after encoding a value and again before publishing it, so those readings are   *)
(* parameters of the actions.  The host tool's body, the minter and the           *)
(* transport's publish are the host's: they return, fail, or never end, and they  *)
(* may swallow a cancellation.                                               *)
(***************************************************************************)
EXTENDS Naturals, FiniteSets, Functions

CONSTANTS
  Calls,        \* calls the guest program makes, each once
  UserCalls,    \* those of tools declared to act as the user
  None,         \* no call
  MaxCalls,     \* max_host_tool_calls_per_run
  MaxFiles,     \* response_limits.max_files
  MaxTotal,     \* response_limits.max_total_bytes
  MaxPerFile,   \* response_limits.max_bytes_per_file
  Framing,      \* bytes the transport wraps around a value
  Sizes         \* sizes of the values bodies return

ASSUME CallsAssumption == UserCalls \subseteq Calls /\ None \notin Calls
ASSUME LimitsAssumption ==
  /\ {MaxCalls, MaxFiles, MaxTotal, MaxPerFile, Framing} \subseteq Nat
  /\ Sizes \subseteq Nat \ {0}

VARIABLES
  outer,       \* where BoundedHostToolPolicy.call is with each call
  pc,          \* where the call's task is; once ended, its recorded outcome
  calls,       \* _calls
  ledger,      \* _reserved and _reserved_bytes
  own,         \* called.reserved_bytes of each call
  sent,        \* _delivered and _delivered_bytes
  closed,      \* _closed
  identity,    \* _minted_user_identity, by serial number; 0 is None
  minter,      \* the call holding the mint lock
  minted,      \* identities the host's minter has issued to this run
  handed,      \* history: identities bodies were started with
  late, over,  \* clock: calls past expires_at; past the program's deadline
  expired,     \* calls whose bound.expired is set
  timedOut,    \* calls whose bound.refusal is set
  cancelling,  \* tasks whose cancellation is not yet delivered
  unclean,     \* note_unclean was called
  retained     \* _PENDING_HOST_CALLS

account == <<calls, ledger, own, sent>>
authority == <<closed, identity, minter, minted, handed>>
clock == <<late, over>>
bound == <<expired, timedOut, cancelling>>
leftover == <<unclean, retained>>
vars == <<outer, pc, account, authority, clock, bound, leftover>>

Ended == {"delivered", "refused", "uncertain", "cancelled", "failed"}
Serving == {"lock", "mint", "body"}          \* holding a slot, no bytes yet
Publishing == {"sendValue", "sendRefusal"}
Left == {"returned", "raised"}

TypeOK ==
  /\ outer \in [Calls -> {"idle", "waiting", "grace", "unwinding"} \cup Left]
  /\ pc \in [Calls -> {"idle", "new"} \cup Serving \cup Publishing \cup Ended]
  /\ calls \in Nat
  /\ ledger \in [slots : Nat, bytes : Nat]
  /\ own \in [Calls -> Nat]
  /\ sent \in [count : Nat, bytes : Nat]
  /\ closed \in BOOLEAN /\ over \in BOOLEAN /\ unclean \in BOOLEAN
  /\ identity \in Nat /\ minted \in Nat /\ handed \subseteq Nat
  /\ minter \in Calls \cup {None}
  /\ late \subseteq Calls /\ expired \subseteq Calls /\ timedOut \subseteq Calls
  /\ cancelling \subseteq Calls /\ retained \subseteq Calls

Init ==
  /\ outer = [c \in Calls |-> "idle"] /\ pc = [c \in Calls |-> "idle"]
  /\ calls = 0 /\ ledger = [slots |-> 0, bytes |-> 0]
  /\ own = [c \in Calls |-> 0] /\ sent = [count |-> 0, bytes |-> 0]
  /\ closed = FALSE /\ identity = 0 /\ minter = None /\ minted = 0 /\ handed = {}
  /\ late = {} /\ over = FALSE
  /\ expired = {} /\ timedOut = {} /\ cancelling = {}
  /\ unclean = FALSE /\ retained = {}

-----------------------------------------------------------------------------
\* Clock readings: 0 in time, 1 past the call's bound, 2 past the program's deadline.
Reading(c) == IF over THEN 2 ELSE IF c \in late THEN 1 ELSE 0

ReadClock(c, n) ==
  /\ late' = IF n = 2 THEN Calls ELSE IF n = 1 THEN late \cup {c} ELSE late
  /\ over' = (n = 2)

\* HostToolRun.close
Revoked == closed' = TRUE /\ identity' = 0

Smallest == 1
SlotBack(l) == [l EXCEPT !.slots = @ - 1]

\* A slip: the refund is forgotten.
RefundNever(l, s) == l
\* _refund_prepared_value: a value of s bytes gives back its slot and its bytes.
Refund(l, s) == IF s = 0 THEN l ELSE [slots |-> l.slots - 1, bytes |-> l.bytes - s]

\* What can be known before the body: both ledgers, and the per-response cap.
HasRoom ==
  /\ ledger.slots + 1 <= MaxFiles
  /\ ledger.bytes + Smallest + Framing <= MaxTotal
  /\ Smallest + Framing <= MaxPerFile

\* What needs the response's size.
Fits(s) == s <= MaxPerFile /\ ledger.bytes + s <= MaxTotal

(***************************************************************************)
(* The part of call() after _run_host_tool_call, which ended in a value of s    *)
(* bytes, a refusal, a cancellation or an error, with ledger l and bound.expired e.  *)
(* m and n are the clock when the result is back and when it is published.       *)
(***************************************************************************)
Answer(c, res, s, l, e, m, n) ==
  LET answered == res \in {"value", "refusal"}
      tooLate == e \/ (answered /\ m > 0)
      cut == res = "cancel" \/ (answered /\ tooLate)
      timeout == cut /\ tooLate /\ m < 2
      value == res = "value" /\ ~cut
      lost == res = "error" \/ (cut /\ ~timeout) \/ closed
  IN  /\ ReadClock(c, n)
      /\ expired' = IF tooLate THEN expired \cup {c} ELSE expired
      /\ timedOut' = IF timeout THEN timedOut \cup {c} ELSE timedOut
      /\ cancelling' = cancelling \ {c}
      /\ ledger' = IF value /\ ~lost THEN l ELSE Refund(l, s)
      /\ own' = [own EXCEPT ![c] = IF value /\ ~lost THEN s ELSE 0]
      /\ \/ /\ lost
            /\ pc' = [pc EXCEPT ![c] = IF cut /\ ~timeout THEN "cancelled" ELSE "failed"]
            /\ UNCHANGED <<closed, identity>>
         \/ /\ ~lost /\ n = 2       \* accepted() refuses to publish past the deadline
            /\ pc' = [pc EXCEPT ![c] = "uncertain"]
            /\ Revoked
         \/ /\ ~lost /\ n < 2
            /\ pc' = [pc EXCEPT ![c] = IF value THEN "sendValue" ELSE "sendRefusal"]
            /\ UNCHANGED <<closed, identity>>

\* The last checks before the body, with ledger l and the authority id, and its start.
StartBody(c, l, id, m, n) ==
  \/ /\ closed
     /\ Answer(c, "error", 0, SlotBack(l), c \in expired, m, n)
     /\ UNCHANGED handed
  \/ /\ ~closed /\ (c \in expired \/ Reading(c) > 0)
     /\ Answer(c, "cancel", 0, SlotBack(l), TRUE, m, n)
     /\ UNCHANGED handed
  \/ /\ ~closed /\ c \notin expired /\ Reading(c) = 0
     /\ pc' = [pc EXCEPT ![c] = "body"]
     /\ ledger' = l
     /\ handed' = IF id = 0 THEN handed ELSE handed \cup {id}
     /\ cancelling' = cancelling \ {c}
     /\ UNCHANGED <<own, closed, identity, clock, expired, timedOut>>

-----------------------------------------------------------------------------
\* BoundedHostToolPolicy.call: refuse past the deadline, otherwise start the task.
Call(c) ==
  /\ outer[c] = "idle"
  /\ IF over
       THEN outer' = [outer EXCEPT ![c] = "raised"] /\ UNCHANGED pc
       ELSE outer' = [outer EXCEPT ![c] = "waiting"] /\ pc' = [pc EXCEPT ![c] = "new"]
  /\ UNCHANGED <<account, authority, clock, bound, leftover>>

\* The task was cancelled before its first step, or the run was closed before it.
NeverBegins(c) ==
  /\ pc[c] = "new"
  /\ \/ c \in cancelling /\ pc' = [pc EXCEPT ![c] = "cancelled"]
     \/ c \notin cancelling /\ closed /\ pc' = [pc EXCEPT ![c] = "failed"]
  /\ cancelling' = cancelling \ {c}
  /\ UNCHANGED <<outer, account, authority, clock, expired, timedOut, leftover>>

Begins(c) == pc[c] = "new" /\ c \notin cancelling /\ ~closed /\ calls' = calls + 1

\* Refused before the body: the call cap, an unknown or undeclared tool, bad arguments, a full ledger.
Refuse(c, m, n) ==
  /\ Begins(c)
  /\ Answer(c, "refusal", 0, ledger, c \in expired, m, n)
  /\ UNCHANGED <<outer, sent, minter, minted, handed, leftover>>

Reserved == [ledger EXCEPT !.slots = @ + 1]

\* A slot is taken and held across every await; a call that needs no mint goes to its body.
Serve(c, m, n) ==
  /\ Begins(c) /\ calls < MaxCalls /\ HasRoom
  /\ c \notin UserCalls \/ identity # 0
  /\ StartBody(c, Reserved, IF c \in UserCalls THEN identity ELSE 0, m, n)
  /\ UNCHANGED <<outer, sent, minter, minted, leftover>>

\* A user call without an identity queues for the mint lock, or takes it if nobody has it.
AskIdentity(c) ==
  /\ Begins(c) /\ calls < MaxCalls /\ HasRoom
  /\ c \in UserCalls /\ identity = 0
  /\ ledger' = Reserved
  /\ IF minter = None /\ \A d \in Calls : pc[d] # "lock"
       THEN minter' = c /\ pc' = [pc EXCEPT ![c] = "mint"]
       ELSE UNCHANGED minter /\ pc' = [pc EXCEPT ![c] = "lock"]
  /\ UNCHANGED <<outer, own, sent, closed, identity, minted, handed, clock, bound, leftover>>

\* A slip: the cache is not read again under the lock.
TakeLockUnread(c, m, n) ==
  /\ pc[c] = "lock" /\ minter = None /\ c \notin cancelling /\ ~closed
  /\ minter' = c /\ pc' = [pc EXCEPT ![c] = "mint"]
  /\ UNCHANGED <<outer, account, closed, identity, minted, handed, clock, bound, leftover>>

\* A slip: the run is not looked at again after the wait for the lock.
TakeLockRevoked(c, m, n) ==
  /\ pc[c] = "lock" /\ minter = None /\ c \notin cancelling
  /\ \/ /\ identity # 0
        /\ StartBody(c, ledger, identity, m, n)
        /\ UNCHANGED minter
     \/ /\ identity = 0
        /\ minter' = c /\ pc' = [pc EXCEPT ![c] = "mint"]
        /\ UNCHANGED <<ledger, own, closed, identity, handed, clock, bound>>
  /\ UNCHANGED <<outer, calls, sent, minted, leftover>>

\* Under the lock: a closed run mints nothing, and a minted identity is used as it is.
TakeLock(c, m, n) ==
  /\ pc[c] = "lock" /\ minter = None /\ c \notin cancelling
  /\ \/ /\ closed
        /\ Answer(c, "error", 0, SlotBack(ledger), c \in expired, m, n)
        /\ UNCHANGED <<minter, handed>>
     \/ /\ ~closed /\ identity # 0
        /\ StartBody(c, ledger, identity, m, n)
        /\ UNCHANGED minter
     \/ /\ ~closed /\ identity = 0
        /\ minter' = c /\ pc' = [pc EXCEPT ![c] = "mint"]
        /\ UNCHANGED <<ledger, own, closed, identity, handed, clock, bound>>
  /\ UNCHANGED <<outer, calls, sent, minted, leftover>>

\* A cancellation reaches the wait for the lock.
LockCancelled(c, m, n) ==
  /\ pc[c] = "lock" /\ c \in cancelling
  /\ Answer(c, "cancel", 0, SlotBack(ledger), c \in expired, m, n)
  /\ UNCHANGED <<outer, calls, sent, minter, minted, handed, leftover>>

\* The minter failed, or passed a cancellation on; it may have issued a credential.
MintFails(c, m, n) ==
  /\ pc[c] = "mint"
  /\ minter' = None
  /\ \E res \in {"refusal"} \cup (IF c \in cancelling THEN {"cancel"} ELSE {}) :
       Answer(c, res, 0, SlotBack(ledger), c \in expired, m, n)
  /\ UNCHANGED <<outer, calls, sent, minted, handed, leftover>>

\* The minter answered: the identity is kept only if the run is open and the call in time.
Mint(c, m, n) ==
  /\ pc[c] = "mint"
  /\ minter' = None /\ minted' = minted + 1
  /\ IF closed
       THEN Answer(c, "error", 0, SlotBack(ledger), c \in expired, m, n) /\ UNCHANGED handed
       ELSE IF c \in expired \/ Reading(c) > 0
       THEN Answer(c, "cancel", 0, SlotBack(ledger), TRUE, m, n) /\ UNCHANGED handed
       ELSE /\ identity' = minted'
            /\ pc' = [pc EXCEPT ![c] = "body"]
            /\ handed' = handed \cup {minted'}
            /\ cancelling' = cancelling \ {c}
            /\ UNCHANGED <<ledger, own, closed, clock, expired, timedOut>>
  /\ UNCHANGED <<outer, calls, sent, leftover>>

\* The body returned a value: its framed size is checked and reserved without yielding.
BodyReturns(c, m, n) ==
  /\ pc[c] = "body"
  /\ \E v \in Sizes :
       IF c \in expired \/ Reading(c) > 0
         THEN Answer(c, "cancel", 0, SlotBack(ledger), TRUE, m, n)
         ELSE IF Fits(v + Framing)
         THEN Answer(c, "value", v + Framing,
                     [ledger EXCEPT !.bytes = @ + v + Framing], FALSE, m, n)
         ELSE Answer(c, "refusal", 0, SlotBack(ledger), FALSE, m, n)
  /\ UNCHANGED <<outer, calls, sent, minter, minted, handed, leftover>>

\* The body raised, returned what JSON cannot carry, or passed a cancellation on.
BodyFails(c, m, n) ==
  /\ pc[c] = "body"
  /\ \E res \in {"refusal"} \cup (IF c \in cancelling THEN {"cancel"} ELSE {}) :
       Answer(c, res, 0, SlotBack(ledger), c \in expired, m, n)
  /\ UNCHANGED <<outer, calls, sent, minter, minted, handed, leftover>>

\* The transport accepted the response: only now is a value counted as delivered.
Published(c) ==
  /\ pc[c] \in Publishing
  /\ IF pc[c] = "sendValue"
       THEN /\ pc' = [pc EXCEPT ![c] = "delivered"]
            /\ sent' = [count |-> sent.count + 1, bytes |-> sent.bytes + own[c]]
       ELSE pc' = [pc EXCEPT ![c] = "refused"] /\ UNCHANGED sent
  /\ cancelling' = cancelling \ {c}
  /\ UNCHANGED <<outer, calls, ledger, own, authority, clock, expired, timedOut, leftover>>

\* Publication failed or was cancelled: delivery is uncertain, which revokes the run.
PublishFails(c) ==
  /\ pc[c] \in Publishing
  /\ pc' = [pc EXCEPT ![c] = "uncertain"]
  /\ Revoked
  /\ cancelling' = cancelling \ {c}
  /\ UNCHANGED <<outer, account, minter, minted, handed, clock, expired, timedOut, leftover>>

-----------------------------------------------------------------------------
\* The task ended while it was waited for: its result, or its error after revoking the run.
TaskDone(c) ==
  /\ outer[c] = "waiting" /\ pc[c] \in Ended
  /\ IF pc[c] \in {"delivered", "refused"}
       THEN outer' = [outer EXCEPT ![c] = "returned"] /\ UNCHANGED <<closed, identity>>
       ELSE outer' = [outer EXCEPT ![c] = "raised"] /\ Revoked
  /\ UNCHANGED <<pc, account, minter, minted, handed, clock, bound, leftover>>

\* asyncio.wait timed out: mark the bound, cancel the task, give it a second.
TimeIsUp(c) ==
  /\ outer[c] = "waiting" /\ pc[c] \notin Ended /\ c \in late
  /\ expired' = expired \cup {c} /\ cancelling' = cancelling \cup {c}
  /\ outer' = [outer EXCEPT ![c] = "grace"]
  /\ UNCHANGED <<pc, account, authority, clock, timedOut, leftover>>

\* It stopped: a published timeout refusal lets the program go on, anything else revokes the run.
StoppedInTime(c) ==
  /\ outer[c] = "grace" /\ pc[c] \in Ended
  /\ IF c \in timedOut /\ pc[c] = "refused"
       THEN outer' = [outer EXCEPT ![c] = "returned"] /\ UNCHANGED <<closed, identity>>
       ELSE outer' = [outer EXCEPT ![c] = "raised"] /\ Revoked
  /\ UNCHANGED <<pc, account, minter, minted, handed, clock, bound, leftover>>

\* A slip: only a cancelled caller gives up on its task.
AbandonUnwinding(c) ==
  /\ outer[c] = "unwinding" /\ pc[c] \notin Ended
  /\ Revoked
  /\ unclean' = TRUE /\ retained' = retained \cup {c}
  /\ outer' = [outer EXCEPT ![c] = "raised"]
  /\ UNCHANGED <<pc, account, minter, minted, handed, clock, bound>>

\* It did not stop: revoke, mark the sandbox unclean, keep the task and leave.
Abandon(c) ==
  /\ outer[c] \in {"grace", "unwinding"} /\ pc[c] \notin Ended
  /\ Revoked
  /\ unclean' = TRUE /\ retained' = retained \cup {c}
  /\ outer' = [outer EXCEPT ![c] = "raised"]
  /\ UNCHANGED <<pc, account, minter, minted, handed, clock, bound>>

\* The caller is cancelled: revoke, and give an unfinished task one more second.
CallerCancelled(c) ==
  /\ outer[c] \in {"waiting", "grace"}
  /\ Revoked
  /\ IF pc[c] \in Ended
       THEN outer' = [outer EXCEPT ![c] = "raised"] /\ UNCHANGED cancelling
       ELSE outer' = [outer EXCEPT ![c] = "unwinding"] /\ cancelling' = cancelling \cup {c}
  /\ UNCHANGED <<pc, account, minter, minted, handed, clock, expired, timedOut, leftover>>

Unwound(c) ==
  /\ outer[c] = "unwinding" /\ pc[c] \in Ended
  /\ outer' = [outer EXCEPT ![c] = "raised"]
  /\ UNCHANGED <<pc, account, authority, clock, bound, leftover>>

\* The done callback of a retained task.
Finished(c) ==
  /\ c \in retained /\ pc[c] \in Ended
  /\ retained' = retained \ {c}
  /\ UNCHANGED <<outer, pc, account, authority, clock, bound, unclean>>

\* The transport ends the run, as it does on every way out.
Close ==
  /\ ~closed /\ Revoked
  /\ UNCHANGED <<outer, pc, account, minter, minted, handed, clock, bound, leftover>>

\* Time passes: a call's own bound, then the program's deadline, which no bound outlives.
Elapse(c) ==
  /\ outer[c] \notin Left \cup {"idle"} /\ c \notin late
  /\ ReadClock(c, 1)
  /\ UNCHANGED <<outer, pc, account, authority, bound, leftover>>

DeadlinePasses ==
  /\ ~over /\ \E c \in Calls : ReadClock(c, 2)
  /\ UNCHANGED <<outer, pc, account, authority, bound, leftover>>

-----------------------------------------------------------------------------
Task(c) ==
  \/ NeverBegins(c) \/ AskIdentity(c) \/ Published(c) \/ PublishFails(c)
  \/ \E m \in Reading(c)..2 : \E n \in m..2 :
       \/ Refuse(c, m, n) \/ Serve(c, m, n) \/ TakeLock(c, m, n) \/ LockCancelled(c, m, n)
       \/ MintFails(c, m, n) \/ Mint(c, m, n) \/ BodyReturns(c, m, n) \/ BodyFails(c, m, n)

Bounded(c) ==
  TaskDone(c) \/ TimeIsUp(c) \/ StoppedInTime(c) \/ Abandon(c) \/ Unwound(c)

Next ==
  \/ \E c \in Calls :
       Call(c) \/ Task(c) \/ Bounded(c) \/ CallerCancelled(c) \/ Finished(c) \/ Elapse(c)
  \/ Close \/ DeadlinePasses

Spec == Init /\ [][Next]_vars

\* Timers fire and the event loop runs what is ready; nothing makes a body, a minter or a publish end.
Fairness ==
  /\ \A c \in Calls : WF_vars(Bounded(c))
  /\ WF_vars(DeadlinePasses)
FairSpec == Spec /\ Fairness

-----------------------------------------------------------------------------
\* The ledgers hold exactly the calls being served and the values kept: nothing a refusal, a
\* failure, a timeout or a cancellation ended is still charged, and nothing delivered or in doubt
\* was refunded (_run_host_tool_call's finally, _refund_prepared_value, call's except).
LedgerExact ==
  LET of(phase) == {c \in Calls : pc[c] \in phase}
  IN  /\ ledger.slots = Cardinality(of(Serving)) + Cardinality({c \in Calls : own[c] > 0})
      /\ ledger.bytes = SumFunction(own)
      /\ sent.count = Cardinality(of({"delivered"}))
      /\ sent.bytes = SumFunctionOnSet(own, of({"delivered"}))

\* However calls overlap, the run never promises more responses or bytes than its limits allow,
\* although the body runs between the first check and the reservation (_deliver).
WithinLimits == ledger.slots <= MaxFiles /\ ledger.bytes <= MaxTotal

\* A closed run holds no user identity: a mint that was under way when the run closed is not
\* kept (close, _user_identity).
ClosedHasNoAuthority == closed => identity = 0

\* Overlapping calls of one run act under one identity (_user_identity's second read).
OneIdentity == Cardinality(handed) <= 1

\* Once the run is closed nobody mints, starts a body or publishes, whatever was under way
\* (the checks after each await of call, _user_identity and _deliver).
NothingAfterClose ==
  [][\A c \in Calls :
       closed /\ pc'[c] # pc[c] => pc'[c] \notin {"lock", "mint", "body"} \cup Publishing]_vars

\* A call whose caller has left while its task still runs has revoked the run, marked the
\* sandbox unclean and is kept until it stops (BoundedHostToolPolicy.call).
AbandonedIsOwned ==
  \A c \in Calls :
    outer[c] \in Left /\ pc[c] \notin Ended \cup {"idle"} => closed /\ unclean /\ c \in retained

\* A run that is still open after a call's time was up gave that call a refusal and charges
\* nothing for it (program-channels.md: "Otherwise authority closes").
TimeoutLeavesARefusal ==
  \A c \in Calls :
    c \in expired /\ outer[c] \in Left /\ ~closed => pc[c] = "refused" /\ own[c] = 0

\* Delivery in doubt revokes the run, so no later call can repeat it (call's except).
DoubtRevokes == (\E c \in Calls : pc[c] = "uncertain") => closed

\* A call's caller gets away even from a body, a minter or a transport that never ends
\* (the two bounded waits of BoundedHostToolPolicy.call).
CallersLeave == \A c \in Calls : outer[c] = "waiting" ~> outer[c] \in Left

=============================================================================
