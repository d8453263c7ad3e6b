---------------------------- MODULE WorkloadHTTP -----------------------------
(***************************************************************************)
(* The HTTP transport of the workload service (workload_http.py) composed with   *)
(* the service: sessions, the handlers of their requests, and their retirement.   *)
(* A session is retired by a DELETE, by the idle sweep, when the SDK's session    *)
(* task ends and at shutdown.  It keeps its place in the registry until its call   *)
(* has settled, the SDK's task has ended and its last handler has left.           *)
(*                                                                         *)
(* The SDK is external.  Its session task runs the calls dispatched to it, may    *)
(* cancel one (a client's notification), and ends after its calls have.          *)
(***************************************************************************)
EXTENDS WorkloadService

CONSTANTS
  Sids,          \* sessions at a time; each stands for a new one once it has been retired
  Ids,           \* request ids a client chooses, as numbers
  SessionLimit   \* SESSION_LIMIT

ASSUME LimitAssumption == SessionLimit \in Nat \ {0} /\ Ids \subseteq Nat

\* Where _retire is, when it does not wait for the session's call.
Stages == {"none", "cancel", "started", "terminate", "backoff", "drain", "requests"}

\* Connections, and so calls in progress, are limited; a call is no stage of a retirement.
ASSUME NamesAssumption == IsFiniteSet(Calls) /\ Calls \cap Stages = {} /\ Nobody \notin Sids

VARIABLES
  reg,          \* self.sessions
  run,          \* _start's task: the transport and the SDK's server loop over it
  opener,       \* the handler that initializes the session
  initialized,  \* record.initialized
  closing,      \* record.closing
  retiring,     \* record.retiring: where _retire is; a call is the one it settles
  ids,          \* record.ids
  get,          \* record.get_active
  sess,         \* the session a call was posted to
  rid,          \* the request id it came under
  handler       \* the handler of its POST

http == <<reg, run, opener, initialized, closing, retiring, ids, get, sess, rid, handler>>
vars == <<service, http>>

HTTPTypeOK ==
  /\ reg \subseteq Sids
  /\ run \in [Sids -> {"connecting", "running", "terminated", "done"}]
  /\ opener \in [Sids -> {"wait", "init", "done"}]
  /\ initialized \in [Sids -> BOOLEAN] /\ closing \in [Sids -> BOOLEAN]
  /\ retiring \in [Sids -> Calls \cup Stages]
  /\ ids \in [Sids -> SUBSET Ids] /\ get \in [Sids -> BOOLEAN]
  /\ sess \in [Calls -> Sids \cup {Nobody}] /\ rid \in [Calls -> Ids \cup {Nobody}]
  /\ handler \in [Calls -> {"none", "body", "dispatch", "drain", "left"}]

TypeOK == ServiceTypeOK /\ HTTPTypeOK

Init ==
  /\ ServiceInit
  /\ reg = {} /\ run = [s \in Sids |-> "done"]
  /\ opener = [s \in Sids |-> "done"] /\ initialized = [s \in Sids |-> FALSE]
  /\ closing = [s \in Sids |-> FALSE] /\ retiring = [s \in Sids |-> "none"]
  /\ ids = [s \in Sids |-> {}] /\ get = [s \in Sids |-> FALSE]
  /\ sess = [c \in Calls |-> Nobody] /\ rid = [c \in Calls |-> Nobody]
  /\ handler = [c \in Calls |-> "none"]

CallsOf(s) == {c \in Calls : sess[c] = s}

\* A slip: a session that is being retired is still open to what was queued.
SessionOpenWhileHere(s) == s \in reg /\ initialized[s]

\* session_open: what was queued before a session began to retire is refused.
SessionOpen(s) == s \in reg /\ initialized[s] /\ ~closing[s]

\* record.requests: the handlers that have not left.
Requests(s) ==
  Cardinality({c \in CallsOf(s) : handler[c] \notin {"none", "left"}})
    + (IF opener[s] # "done" THEN 1 ELSE 0)
    + (IF get[s] THEN 1 ELSE 0)

\* A slip: nobody is told of a transport that is not connected, or is no longer.
StartedWhileConnected(s) == run[s] \in {"running", "terminated"}

\* record.started is set once the transport has connected, and also when it has not.
Started(s) == run[s] \in {"running", "terminated", "done"}

\* The client may send to a session.
Reachable(s) == ready /\ s \in reg /\ ~closing[s]

\* retire, of a set of sessions: marked, and a task for each that has none.
Retire(S) ==
  /\ closing' = [s \in Sids |-> closing[s] \/ s \in S]
  /\ retiring' = [s \in Sids |-> IF s \in S /\ retiring[s] = "none" THEN "cancel" ELSE retiring[s]]

-----------------------------------------------------------------------------
(* A session's beginning and its other requests.                             *)

\* A POST of initialize, once its body is read, while there is room.
Open(s) ==
  /\ ready /\ s \notin reg /\ Cardinality(reg) < SessionLimit
  /\ reg' = reg \cup {s} /\ run' = [run EXCEPT ![s] = "connecting"]
  /\ opener' = [opener EXCEPT ![s] = "wait"]
  /\ UNCHANGED <<service, initialized, closing, retiring, ids, get, sess, rid, handler>>

\* _start: the transport connects, or does not: then the service is poisoned and the session
\* retired.
Connect(s) ==
  /\ run[s] = "connecting"
  /\ \/ run' = [run EXCEPT ![s] = "running"] /\ UNCHANGED <<poisoned, closing, retiring>>
     \/ run' = [run EXCEPT ![s] = "done"] /\ poisoned' = TRUE /\ Retire({s})
  /\ UNCHANGED <<life, up, ready, calls, told, todo, clean, left, reg, opener, initialized, ids,
                 get, sess, rid, handler>>

\* The opener goes on once the transport has started, unless the session is retiring by then.
OpenerGoesOn(s) ==
  /\ opener[s] = "wait" /\ Started(s)
  /\ opener' = [opener EXCEPT ![s] = IF closing[s] THEN "done" ELSE "init"]
  /\ UNCHANGED <<service, reg, run, initialized, closing, retiring, ids, get, sess, rid, handler>>

\* initialize is answered, or the session is retired.
OpenerAnswered(s) ==
  /\ opener[s] = "init"
  /\ opener' = [opener EXCEPT ![s] = "done"]
  /\ \/ run[s] = "running" /\ UNCHANGED <<closing, retiring>>
     \/ Retire({s})
  /\ UNCHANGED <<service, reg, run, initialized, ids, get, sess, rid, handler>>

\* notifications/initialized: the SDK has accepted it.
Notified(s) ==
  /\ Reachable(s) /\ opener[s] = "done" /\ run[s] = "running"
  /\ initialized' = [initialized EXCEPT ![s] = TRUE]
  /\ UNCHANGED <<service, reg, run, opener, closing, retiring, ids, get, sess, rid, handler>>

\* The one GET stream of a session, until the client or the transport ends it.
Get(s) ==
  /\ Reachable(s) /\ ~get[s]
  /\ get' = [get EXCEPT ![s] = TRUE]
  /\ UNCHANGED <<service, reg, run, opener, initialized, closing, retiring, ids, sess, rid, handler>>

GetEnds(s) ==
  /\ get[s]
  /\ get' = [get EXCEPT ![s] = FALSE]
  /\ UNCHANGED <<service, reg, run, opener, initialized, closing, retiring, ids, sess, rid, handler>>

-----------------------------------------------------------------------------
(* A tool call's POST.                                                       *)

\* The handler is counted before the body is read.  Ids are interchangeable: the least that no
\* call of the session has stands for all of those.
Post(c, s, i) ==
  /\ handler[c] = "none" /\ Reachable(s)
  /\ \A k \in Ids : k < i => \E d \in CallsOf(s) : rid[d] = k
  /\ handler' = [handler EXCEPT ![c] = "body"]
  /\ sess' = [sess EXCEPT ![c] = s] /\ rid' = [rid EXCEPT ![c] = i]
  /\ UNCHANGED <<service, reg, run, opener, initialized, closing, retiring, ids, get>>

\* The call is over, its handler and its invocation: the client may make it again.
Over(c) ==
  /\ handler' = [handler EXCEPT ![c] = "none"]
  /\ sess' = [sess EXCEPT ![c] = Nobody] /\ rid' = [rid EXCEPT ![c] = Nobody]
  /\ inv' = [inv EXCEPT ![c] = "none"] /\ task' = [task EXCEPT ![c] = "none"]
  /\ told' = [told EXCEPT ![c] = FALSE]

\* The handler leaves, and its invocation may outlast it.
Leaves(c) ==
  IF inv[c] = "ended" THEN Over(c)
  ELSE handler' = [handler EXCEPT ![c] = "left"] /\ UNCHANGED <<sess, rid, inv, task, told>>

Outlasted(c) ==
  /\ handler[c] = "left" /\ inv[c] = "ended" /\ Over(c)
  /\ UNCHANGED <<life, up, ready, poisoned, active, todo, clean, left, reg, run, opener,
                 initialized, closing, retiring, ids, get>>

\* The body is read: refused (too large, too slow, malformed), or the session is asked again, and
\* the id, and the message is the SDK's.
BodyRead(c) ==
  LET s == sess[c]
      accepted == ~closing[s] /\ initialized[s] /\ rid[c] \notin ids[s]
  IN /\ handler[c] = "body"
     /\ \/ Over(c) /\ UNCHANGED ids
        \/ /\ accepted
           /\ handler' = [handler EXCEPT ![c] = "dispatch"]
           /\ ids' = [ids EXCEPT ![s] = @ \cup {rid[c]}]
           /\ inv' = [inv EXCEPT ![c] = "queued"]
           /\ UNCHANGED <<task, told, sess, rid>>
     /\ UNCHANGED <<life, up, ready, poisoned, active, todo, clean, left, reg, run, opener,
                    initialized, closing, retiring, get>>

\* The SDK's session task calls the tool.
Dispatch(c) ==
  /\ inv[c] = "queued" /\ run[sess[c]] \in {"running", "terminated"}
  /\ Invoke(c, SessionOpen(sess[c]))
  /\ UNCHANGED http

\* The SDK cancels a call: one it has not begun is dropped.
SdkCancels(c) ==
  /\ \/ CancelInvocation(c)
     \/ /\ inv[c] = "queued"
        /\ inv' = [inv EXCEPT ![c] = "ended"]
        /\ UNCHANGED <<life, up, ready, poisoned, active, task, told, todo, clean, left>>
  /\ UNCHANGED http

\* handle_request has come back: with the answer, at once for a call that was cancelled, and
\* when the transport has been terminated.
Handled(c) ==
  /\ handler[c] = "dispatch"
  /\ inv[c] \in {"ended", "cancelled"} \/ run[sess[c]] \in {"terminated", "done"}

IdFreed(c) == ids' = [ids EXCEPT ![sess[c]] = @ \ {rid[c]}]

unhandled == <<life, up, ready, poisoned, active, todo, clean, left, reg, run, opener,
               initialized, closing, retiring, get>>

\* A slip: the handler leaves with the response.
HandlerLeavesAtOnce(c) ==
  /\ Handled(c) /\ IdFreed(c) /\ Leaves(c)
  /\ UNCHANGED unhandled

\* dispatch's finally: the task of the call, if it is the active one, is waited for.
HandlerReturns(c) ==
  /\ Handled(c)
  /\ \/ active # c /\ IdFreed(c) /\ Leaves(c)
     \/ /\ active = c /\ handler' = [handler EXCEPT ![c] = "drain"]
        /\ UNCHANGED <<ids, sess, rid, inv, task, told>>
  /\ UNCHANGED unhandled

\* The task has settled: the id is free again and the handler leaves.
HandlerLeaves(c) ==
  /\ handler[c] = "drain" /\ task[c] = "done" /\ IdFreed(c) /\ Leaves(c)
  /\ UNCHANGED unhandled

-----------------------------------------------------------------------------
(* Retirement.                                                               *)

\* DELETE.
Delete(s) ==
  /\ Reachable(s) /\ Retire({s})
  /\ UNCHANGED <<service, reg, run, opener, initialized, ids, get, sess, rid, handler>>

\* _expire: a session without a request but its GET stream, long enough.
Expire(s) ==
  /\ life = "up" /\ s \in reg /\ ~closing[s] /\ ids[s] = {}
  /\ Requests(s) = (IF get[s] THEN 1 ELSE 0)
  /\ active # Nobody => sess[active] # s
  /\ Retire({s})
  /\ UNCHANGED <<service, reg, run, opener, initialized, ids, get, sess, rid, handler>>

\* The SDK's session task ends, when its transport is terminated or by itself, after the calls it
\* began and without those it did not; _start retires a session that was not being retired.
RunEnds(s) ==
  /\ run[s] \in {"running", "terminated"}
  /\ \A c \in CallsOf(s) : inv[c] \in {"none", "queued", "ended"}
  /\ run' = [run EXCEPT ![s] = "done"]
  /\ inv' = [c \in Calls |-> IF sess[c] = s /\ inv[c] = "queued" THEN "ended" ELSE inv[c]]
  /\ poisoned' \in {poisoned, TRUE}
  /\ Retire({s})
  /\ UNCHANGED <<life, up, ready, active, task, told, todo, clean, left, reg, opener, initialized,
                 ids, get, sess, rid, handler>>

Moves(s, where) == retiring' = [retiring EXCEPT ![s] = where]

\* cancel_session: the session's own call is cancelled and waited for.
RetireCancel(s) ==
  /\ retiring[s] = "cancel"
  /\ IF active # Nobody /\ sess[active] = s
     THEN told' = Cancelled(active) /\ Moves(s, active)
     ELSE told' = told /\ Moves(s, "started")
  /\ UNCHANGED <<life, up, ready, poisoned, calls, todo, clean, left, reg, run, opener,
                 initialized, closing, ids, get, sess, rid, handler>>

RetireSettled(s) ==
  /\ retiring[s] \in Calls /\ retiring[s] \notin CallsOf(s) \cap Unsettled
  /\ Moves(s, "started")
  /\ UNCHANGED <<service, reg, run, opener, initialized, closing, ids, get, sess, rid, handler>>

RetireStarted(s) ==
  /\ retiring[s] = "started" /\ Started(s)
  /\ Moves(s, "terminate")
  /\ UNCHANGED <<service, reg, run, opener, initialized, closing, ids, get, sess, rid, handler>>

Terminate(s) ==
  /\ retiring[s] = "terminate"
  /\ run' = [run EXCEPT ![s] = IF @ = "running" THEN "terminated" ELSE @]
  /\ Moves(s, "drain")
  /\ UNCHANGED <<service, reg, opener, initialized, closing, ids, get, sess, rid, handler>>

\* terminate raises: the service is poisoned and the retirement starts again.
TerminateFails(s) ==
  /\ retiring[s] = "terminate"
  /\ poisoned' = TRUE
  /\ Moves(s, "backoff")
  /\ UNCHANGED <<life, up, ready, calls, told, todo, clean, left, reg, run, opener, initialized,
                 closing, ids, get, sess, rid, handler>>

RetireAgain(s) ==
  /\ retiring[s] = "backoff"
  /\ Moves(s, "cancel")
  /\ UNCHANGED <<service, reg, run, opener, initialized, closing, ids, get, sess, rid, handler>>

RetireDrained(s) ==
  /\ retiring[s] = "drain" /\ run[s] = "done"
  /\ Moves(s, "requests")
  /\ UNCHANGED <<service, reg, run, opener, initialized, closing, ids, get, sess, rid, handler>>

\* Out of the registry, when the last handler has left.
RetireLeaves(s) ==
  /\ retiring[s] = "requests" /\ Requests(s) = 0
  /\ reg' = reg \ {s} /\ Moves(s, "none")
  /\ closing' = [closing EXCEPT ![s] = FALSE]
  /\ initialized' = [initialized EXCEPT ![s] = FALSE]
  /\ UNCHANGED <<service, run, opener, ids, get, sess, rid, handler>>

RetireStep(s) ==
  \/ RetireCancel(s) \/ RetireSettled(s) \/ RetireStarted(s) \/ RetireDrained(s)
  \/ RetireAgain(s) \/ RetireLeaves(s)

\* WorkloadServer.shutdown and the end of the application's lifespan: no session opens any more,
\* and all that are registered are retired ...
Shutdown ==
  /\ life = "up"
  /\ life' = "retiring" /\ ready' = FALSE
  /\ Retire(reg)
  /\ UNCHANGED <<up, poisoned, calls, told, todo, clean, left, reg, run, opener, initialized,
                 ids, get, sess, rid, handler>>

\* ... and waited for, before the service's own lifespan ends.
SessionsRetired ==
  /\ life = "retiring" /\ reg = {}
  /\ life' = "settle"
  /\ UNCHANGED <<up, ready, poisoned, calls, told, todo, clean, left, http>>

-----------------------------------------------------------------------------

Session(s) ==
  \/ Open(s) \/ Connect(s) \/ OpenerGoesOn(s) \/ OpenerAnswered(s) \/ Notified(s)
  \/ Get(s) \/ GetEnds(s) \/ Delete(s) \/ Expire(s) \/ RunEnds(s)
  \/ RetireStep(s) \/ Terminate(s) \/ TerminateFails(s)

Request(c) ==
  \/ \E s \in Sids, i \in Ids : Post(c, s, i)
  \/ BodyRead(c) \/ Dispatch(c) \/ SdkCancels(c) \/ HandlerReturns(c) \/ HandlerLeaves(c)
  \/ Outlasted(c)

Next ==
  \/ \E s \in Sids : Session(s)
  \/ \E c \in Calls : Request(c) \/ (CallStep(c) /\ UNCHANGED http)
  \/ Shutdown \/ SessionsRetired
  \/ Lifespan /\ UNCHANGED http

Spec == Init /\ [][Next]_vars

\* A call that can go on does: a task that is ready runs, a cancelled workload unwinds, a cleanup
\* answers, a deadline passes.
CallGoesOn(c) ==
  \/ Begin(c) \/ (told[c] /\ ExecuteEnds(c)) \/ CallCleanup(c) \/ Timeout(c) \/ Returns(c)

\* So does a handler (a body is bounded in time), and the SDK dispatches what it was given.
HandlerGoesOn(c) == BodyRead(c) \/ Dispatch(c) \/ HandlerReturns(c) \/ HandlerLeaves(c)

\* A session starts and is retired; a terminated transport ends its stream and the SDK's task.
SessionGoesOn(s) ==
  \/ Connect(s) \/ OpenerGoesOn(s) \/ OpenerAnswered(s) \/ RetireStep(s)
  \/ run[s] \in {"terminated", "done"} /\ GetEnds(s)
  \/ run[s] = "terminated" /\ RunEnds(s)

\* Nothing makes a client send, a workload end by itself or a session expire.  A termination that
\* is tried again and again succeeds.
Fairness ==
  /\ WF_vars(Lifespan /\ UNCHANGED http) /\ WF_vars(SessionsRetired)
  /\ \A c \in Calls : WF_vars(CallGoesOn(c) /\ UNCHANGED http) /\ WF_vars(HandlerGoesOn(c))
  /\ \A s \in Sids : WF_vars(SessionGoesOn(s)) /\ SF_vars(Terminate(s))

FairSpec == Spec /\ Fairness

-----------------------------------------------------------------------------
(* Properties.                                                               *)

\* Once cancel_session has been through, no task of the session runs or will; once the session is
\* out of the registry nothing of it is left: no task, no SDK loop, no handler.
RetirementIsFinal ==
  \A s \in Sids :
    /\ retiring[s] \in {"started", "terminate", "drain", "requests"} =>
         CallsOf(s) \cap Unsettled = {}
    /\ s \notin reg =>
         /\ run[s] = "done" /\ Requests(s) = 0
         /\ \A c \in CallsOf(s) : inv[c] = "ended"

\* A request id is free again only when the call that came under it has settled, however its
\* response got out: two calls of one session never run under one id.
IdHeldUntilSettled ==
  \A c \in Unsettled :
    /\ rid[c] \in ids[sess[c]]
    /\ \A d \in CallsOf(sess[c]) : handler[d] \in {"dispatch", "drain"} /\ rid[d] = rid[c] => d = c

\* What was begun is brought to an end: an admitted call gives up the one slot, and a session
\* that is being retired, as all are at shutdown, leaves the registry.
EverythingDrains ==
  /\ active # Nobody ~> active = Nobody
  /\ \A s \in Sids : closing[s] ~> s \notin reg

=============================================================================
