------------------------- MODULE SessionPersistence -------------------------
(***************************************************************************)
(* Whole agent sessions loaded, run and saved under a host's lease          *)
(* (SessionPersistence in _persistence.py), with the compaction stacks that *)
(* each replica caches between the phases of a request                      *)
(* (SessionCompactionRegistry in _session.py).                              *)
(*                                                                         *)
(* What compaction has decided in a session is a set: each request that     *)
(* decides something adds itself.  A request is one task; its phases do not *)
(* overlap unless they are nested.  The host's lease may run out under a    *)
(* request, which goes on unaware beside the next one, perhaps on the same  *)
(* replica; such a host hands out tokens and fences its store with them.    *)
(* The agent, its stream and its provider hooks belong to the framework:    *)
(* they answer, fail or are closed.                                         *)
(***************************************************************************)
EXTENDS Naturals, SequencesExt

CONSTANTS
  Requests,   \* each runs once
  Sessions,
  Replicas,   \* processes, each with a registry
  MaxCached,  \* max_cached_sessions
  NoSession,  \* what the store holds of a session never saved
  NoState,    \* a session without a snapshot of its compaction state
  Unreadable, \* a snapshot that restore refuses
  Nobody

VARIABLES
  stored,    \* the compaction state in each session's stored snapshot
  leased,    \* the request that has each session's lease
  at,        \* where a request is
  req,       \* its session, the target of its save, its replica
  base,      \* what its session held when it was loaded
  data,      \* session.state[state_key]
  stack,     \* what the stack of its phase has decided
  answer,    \* its response: completed, failed, closed
  cache,     \* _cache of each replica, least recent first
  active,    \* _active of each replica: the sessions in a phase
  tokens,    \* the host's leases have tokens, and may run out
  overtaken  \* history: requests whose target another one saved after they had its lease

host == <<stored, leased, overtaken>>
registry == <<cache, active>>
session == <<base, data, stack, answer>>
vars == <<tokens, host, at, req, registry, session>>

Decisions == SUBSET Requests
Readable(snapshot) == snapshot \notin {NoState, Unreadable}
Snapshots == {NoState, Unreadable} \cup Decisions

Shapes == [sid : Sessions, to : Sessions, replica : Replicas]
Shapeless == [sid |-> NoSession, to |-> NoSession, replica |-> Nobody]

Places == {"idle", "leased", "loaded", "running", "phase", "saving", "leaving", "over"}

TypeOK ==
  /\ stored \in [Sessions -> {NoSession} \cup Snapshots]
  /\ leased \in [Sessions -> Requests \cup {Nobody}]
  /\ at \in [Requests -> Places]
  /\ req \in [Requests -> Shapes \cup {Shapeless}]
  /\ base \in [Requests -> Snapshots] /\ data \in [Requests -> Snapshots]
  /\ stack \in [Requests -> Decisions]
  /\ answer \in [Requests -> [completed : BOOLEAN, failed : BOOLEAN, closed : BOOLEAN]]
  /\ \A r \in Replicas : Len(cache[r]) <= MaxCached
  /\ active \in [Replicas -> SUBSET Sessions]
  /\ tokens \in BOOLEAN /\ overtaken \subseteq Requests

Unanswered == [completed |-> FALSE, failed |-> FALSE, closed |-> FALSE]

Init ==
  /\ stored \in [Sessions -> {NoSession, Unreadable, {}}]
  /\ tokens \in BOOLEAN
  /\ leased = [s \in Sessions |-> Nobody]
  /\ at = [q \in Requests |-> "idle"]
  /\ req = [q \in Requests |-> Shapeless]
  /\ base = [q \in Requests |-> NoState] /\ data = base
  /\ stack = [q \in Requests |-> {}]
  /\ answer = [q \in Requests |-> Unanswered]
  /\ cache = [r \in Replicas |-> <<>>] /\ active = [r \in Replicas |-> {}]
  /\ overtaken = {}

Goto(q, place) == at' = [at EXCEPT ![q] = place]

-----------------------------------------------------------------------------
(* The registry.                                                             *)

\* The session a request's phases belong to, and its replica's cache without and with it.
Sid(q) == req[q].sid
Evicted(q) == SelectSeq(cache[req[q].replica], LAMBDA entry : entry.sid # Sid(q))
Cached(q) == \E i \in DOMAIN cache[req[q].replica] : cache[req[q].replica][i].sid = Sid(q)
CachedStack(q) ==
  (CHOOSE entry \in ToSet(cache[req[q].replica]) : entry.sid = Sid(q)).decided
Remembered(q, decided) ==
  LET kept == Append(Evicted(q), [sid |-> Sid(q), decided |-> decided])
  IN  IF Len(kept) > MaxCached THEN Tail(kept) ELSE kept

Busy(q) == Sid(q) \in active[req[q].replica]

\* A slip: a cached stack is believed.
DecidedFromCache(q) ==
  IF Cached(q) THEN CachedStack(q) ELSE IF data[q] = NoState THEN {} ELSE data[q]

\* What a phase begins with: a cached stack is overwritten by the snapshot, and without a
\* snapshot a stack is built anew.
Decided(q) == IF data[q] = NoState THEN {} ELSE data[q]

\* activate.  A phase of another request of the session on this replica refuses it, which the
\* agent passes on as a failure or not.
Activate(q) ==
  /\ at[q] = "running" /\ ~answer[q].closed /\ ~Busy(q)
  /\ cache' = [cache EXCEPT ![req[q].replica] = Evicted(q)]
  /\ active' = [active EXCEPT ![req[q].replica] = @ \cup {Sid(q)}]
  /\ stack' = [stack EXCEPT ![q] = Decided(q)]
  /\ Goto(q, "phase")
  /\ UNCHANGED <<tokens, host, req, base, data, answer>>

\* Compaction decides something.
Decide(q) ==
  /\ at[q] = "phase"
  /\ stack' = [stack EXCEPT ![q] = @ \cup {q}]
  /\ UNCHANGED <<tokens, host, at, req, registry, base, data, answer>>

\* The end of a phase nested in another of the same session shows the session what the stack has
\* decided so far.
EndNested(q) ==
  /\ at[q] = "phase"
  /\ data' = [data EXCEPT ![q] = stack[q]]
  /\ UNCHANGED <<tokens, host, at, req, registry, base, stack, answer>>

\* A phase ends, also by an exception: the session has its decisions, the stack is cached.
EndPhase(q) ==
  /\ at[q] = "phase"
  /\ data' = [data EXCEPT ![q] = stack[q]]
  /\ active' = [active EXCEPT ![req[q].replica] = @ \ {Sid(q)}]
  /\ cache' = [cache EXCEPT ![req[q].replica] = Remembered(q, stack[q])]
  /\ stack' = [stack EXCEPT ![q] = {}]
  /\ Goto(q, "running")
  /\ UNCHANGED <<tokens, host, req, base, answer>>

\* The agent's owner resets compaction by removing the snapshot.
RemoveSnapshot(q) ==
  /\ at[q] = "running"
  /\ data' = [data EXCEPT ![q] = NoState]
  /\ UNCHANGED <<tokens, host, at, req, registry, base, stack, answer>>

-----------------------------------------------------------------------------
(* A request.                                                                *)

\* The host's lease covers the session and, with save_as, the target.
Lease(q) ==
  /\ at[q] = "idle"
  /\ \E shape \in Shapes :
       /\ leased[shape.sid] = Nobody /\ leased[shape.to] = Nobody
       /\ req' = [req EXCEPT ![q] = shape]
       /\ leased' = [s \in Sessions |-> IF s \in {shape.sid, shape.to} THEN q ELSE leased[s]]
  /\ Goto(q, "leased")
  /\ UNCHANGED <<tokens, stored, overtaken, registry, session>>

\* A lease with a token may run out under its request.
LeaseRunsOut(q) ==
  /\ tokens /\ \E s \in Sessions : leased[s] = q
  /\ leased' = [s \in Sessions |-> IF leased[s] = q THEN Nobody ELSE leased[s]]
  /\ UNCHANGED <<tokens, stored, overtaken, at, req, registry, session>>

\* The session is loaded, or created where that is allowed.
Load(q) ==
  /\ at[q] = "leased"
  /\ LET found == IF stored[Sid(q)] = NoSession THEN NoState ELSE stored[Sid(q)]
     IN  base' = [base EXCEPT ![q] = found] /\ data' = [data EXCEPT ![q] = found]
  /\ Goto(q, "loaded")
  /\ UNCHANGED <<tokens, host, req, registry, stack, answer>>

\* There is none and none may be created, or load, the migration or the envelope fails.
LoadFails(q) ==
  /\ at[q] = "leased"
  /\ Goto(q, "leaving")
  /\ UNCHANGED <<tokens, host, req, registry, session>>

\* An empty phase validates the compaction state before anything sees the session; a snapshot that
\* restore refuses costs the cached stack.
Validate(q) ==
  /\ at[q] = "loaded" /\ ~Busy(q)
  /\ IF data[q] = Unreadable
       THEN /\ cache' = [cache EXCEPT ![req[q].replica] = Evicted(q)]
            /\ Goto(q, "leaving") /\ UNCHANGED data
       ELSE /\ cache' = [cache EXCEPT ![req[q].replica] = Remembered(q, Decided(q))]
            /\ data' = [data EXCEPT ![q] = Decided(q)]
            /\ Goto(q, "running")
  /\ UNCHANGED <<tokens, host, req, active, base, stack, answer>>

ValidateRefused(q) ==
  /\ at[q] = "loaded" /\ Busy(q)
  /\ Goto(q, "leaving")
  /\ UNCHANGED <<tokens, host, req, registry, session>>

Answer(q, fields) == answer' = [answer EXCEPT ![q] = fields]

\* A request whose response nobody has begun to consume may be one of run, which answers whole.
\* run: the call returns, and its session is to be saved; or it raises.
Returns(q) ==
  /\ at[q] = "running" /\ answer[q] = Unanswered
  /\ Answer(q, [answer[q] EXCEPT !.completed = TRUE])
  /\ Goto(q, "saving")
  /\ UNCHANGED <<tokens, host, req, registry, base, data, stack>>

Raises(q) ==
  /\ at[q] = "running" /\ answer[q] = Unanswered
  /\ Goto(q, "leaving")
  /\ UNCHANGED <<tokens, host, req, registry, session>>

\* get_final_response: the rest is consumed, validated and seen by the hooks, or that fails.
Finish(q) ==
  /\ at[q] = "running"
  /\ Answer(q, IF answer[q].closed \/ answer[q].failed
                 THEN [answer[q] EXCEPT !.failed = TRUE]
                 ELSE [answer[q] EXCEPT !.completed = TRUE])
  /\ UNCHANGED <<tokens, host, at, req, registry, base, data, stack>>

\* A step of the consumption fails, whether or not the consumer catches it.
ConsumeFails(q) ==
  /\ at[q] = "running" /\ ~answer[q].closed
  /\ Answer(q, [answer[q] EXCEPT !.failed = TRUE])
  /\ UNCHANGED <<tokens, host, at, req, registry, base, data, stack>>

\* The consumer closes the response; the framework's close may fail.
CloseStream(q) ==
  /\ at[q] = "running" /\ ~answer[q].closed
  /\ \E fails \in BOOLEAN :
       Answer(q, [answer[q] EXCEPT !.closed = TRUE, !.failed = @ \/ fails])
  /\ UNCHANGED <<tokens, host, at, req, registry, base, data, stack>>

Completed(q) == answer[q].completed /\ ~answer[q].failed

\* The consumer leaves the context cleanly, the response closed.
LeaveCleanly(q) ==
  /\ at[q] = "running" /\ answer[q].closed
  /\ Goto(q, IF Completed(q) THEN "saving" ELSE "leaving")
  /\ UNCHANGED <<tokens, host, req, registry, session>>

\* It leaves by an exception, its own or that of the close.
LeaveRaising(q) ==
  /\ at[q] = "running" /\ answer[q].closed
  /\ Goto(q, "leaving")
  /\ UNCHANGED <<tokens, host, req, registry, session>>

\* The store replaces a snapshot whole, unless it is fenced and the lease is another's.
Replace(q, fenced) ==
  /\ fenced => leased[req[q].to] = q
  /\ stored' = [stored EXCEPT ![req[q].to] = data[q]]
  /\ overtaken' = overtaken \cup
                    {p \in Requests \ {q} : at[p] \notin {"idle", "over"} /\ req[p].to = req[q].to}

\* A slip: the token is not passed on.
CommitUnfenced(q) ==
  /\ at[q] = "saving"
  /\ Replace(q, FALSE)
  /\ Goto(q, "leaving")
  /\ UNCHANGED <<tokens, leased, req, registry, session>>

\* _commit: the token, if there is one, goes with the save.  What follows it, an error after the
\* snapshot was replaced or one of after_save included, changes nothing here.
Commit(q) ==
  /\ at[q] = "saving"
  /\ Replace(q, tokens)
  /\ Goto(q, "leaving")
  /\ UNCHANGED <<tokens, leased, req, registry, session>>

\* The save is refused or fails.
SaveFails(q) ==
  /\ at[q] = "saving"
  /\ Goto(q, "leaving")
  /\ UNCHANGED <<tokens, host, req, registry, session>>

\* The lease is left, and the request's own state with it.
Release(q) ==
  /\ at[q] = "leaving"
  /\ leased' = [s \in Sessions |-> IF leased[s] = q THEN Nobody ELSE leased[s]]
  /\ overtaken' = overtaken \ {q}
  /\ Goto(q, "over")
  /\ req' = [req EXCEPT ![q] = Shapeless]
  /\ base' = [base EXCEPT ![q] = NoState] /\ data' = [data EXCEPT ![q] = NoState]
  /\ stack' = [stack EXCEPT ![q] = {}] /\ answer' = [answer EXCEPT ![q] = Unanswered]
  /\ UNCHANGED <<tokens, stored, registry>>

-----------------------------------------------------------------------------
Phases(q) ==
  \/ Activate(q) \/ Decide(q) \/ EndNested(q) \/ EndPhase(q) \/ RemoveSnapshot(q)

Consumption(q) ==
  \/ Returns(q) \/ Raises(q) \/ Finish(q) \/ ConsumeFails(q) \/ CloseStream(q)
  \/ LeaveCleanly(q) \/ LeaveRaising(q)

Next ==
  \E q \in Requests :
    \/ Lease(q) \/ LeaseRunsOut(q) \/ Load(q) \/ LoadFails(q)
    \/ Validate(q) \/ ValidateRefused(q)
    \/ Phases(q) \/ Consumption(q)
    \/ Commit(q) \/ SaveFails(q) \/ Release(q)

Spec == Init /\ [][Next]_vars

-----------------------------------------------------------------------------
(* Properties.                                                               *)

\* What a request shows its compaction, and may save, was in the session it loaded or is its own
\* decision: a stack cached by a failed or fenced request, by a fork saved elsewhere, or by one that
\* shares the replica after its lease ran out, lends it nothing.
NoForeignDecisions ==
  \A q \in Requests :
    LET own == {q} \cup (IF Readable(base[q]) THEN base[q] ELSE {})
    IN  stack[q] \subseteq own /\ (Readable(data[q]) => data[q] \subseteq own)

\* A stored session changes only by the save of a request that was consumed to its end without a
\* failure, and that has seen every save of that session since it had the lease: output that was
\* cut short is not saved, and a writer whose lease ran out does not undo the next one's save.
SavesFollowOn ==
  [][\A s \in Sessions : stored'[s] # stored[s] =>
       \E q \in Requests : /\ at[q] = "saving" /\ req[q].to = s
                           /\ Completed(q) /\ q \notin overtaken]_vars

=============================================================================
