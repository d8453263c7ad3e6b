-------------------------- MODULE HostStoresProofs --------------------------
(***************************************************************************)
(* What holds of a run's dealings with its host's stores, for any requests, *)
(* sessions and replicas, any paths, reads of a call and changes of them.   *)
(*                                                                         *)
(* The sessions: the properties speak of what a request decided, or saves;  *)
(* SessionInv adds what a request holds at each place of its course, and    *)
(* how a lease that is still its own tells that nobody saved meanwhile.     *)
(*                                                                         *)
(* The files: ReadsInv says where a read is and what its check is about;    *)
(* on it rest TrustInv, what this package's record does not know of has not *)
(* returned; HostInv, a snapshot and a sample of a host record's count are  *)
(* of the bytes that are there; and RefusalInv, a check has as many rounds  *)
(* left as the call's other read has inputs to add.                         *)
(***************************************************************************)
EXTENDS MCHostStores, SequenceTheorems, TLAPS

-----------------------------------------------------------------------------
(* The sessions.                                                             *)

\* The types of what a request keeps; a replica's cache may hold anything, for it is not believed.
RequestTypes(q) ==
  /\ at[q] \in Persistence!Places
  /\ req[q] \in Persistence!Shapes \cup {Persistence!Shapeless}
  /\ base[q] \in Persistence!Snapshots /\ data[q] \in Persistence!Snapshots
  /\ stack[q] \subseteq Requests
  /\ answer[q] \in [completed : BOOLEAN, failed : BOOLEAN, closed : BOOLEAN]

SessionTypes ==
  /\ DOMAIN stored = Sessions /\ \A s \in Sessions : stored[s] \in {NoSession} \cup Persistence!Snapshots
  /\ DOMAIN leased = Sessions /\ \A s \in Sessions : leased[s] \in Requests \cup {Nobody}
  /\ at = [q \in Requests |-> at[q]] /\ req = [q \in Requests |-> req[q]]
  /\ base = [q \in Requests |-> base[q]] /\ data = [q \in Requests |-> data[q]]
  /\ stack = [q \in Requests |-> stack[q]] /\ answer = [q \in Requests |-> answer[q]]
  /\ tokens \in BOOLEAN /\ overtaken \subseteq Requests

Away == {"idle", "over"}

\* What a request holds where it is: nothing of a session before it has loaded one, what it loaded
\* until its first phase, a stack in a phase only, a readable state from then on, and an answer that
\* may be saved when it saves.
Course(q) ==
  /\ at[q] \in Away \cup {"leased"} => base[q] = NoState /\ data[q] = NoState
  /\ at[q] = "loaded" => data[q] = base[q]
  /\ at[q] # "phase" => stack[q] = {}
  /\ at[q] \in {"running", "phase", "saving"} => data[q] # Unreadable
  /\ at[q] \notin Away => req[q] \in Persistence!Shapes
  /\ at[q] = "saving" => Persistence!Completed(q)

\* What it has decided or shows is of the session it loaded, or its own.
Decisions(q) ==
  LET own == {q} \cup (IF Persistence!Readable(base[q]) THEN base[q] ELSE {})
  IN  stack[q] \subseteq own /\ (Persistence!Readable(data[q]) => data[q] \subseteq own)

\* A host without tokens keeps a request's lease for as long as it runs; a request whose lease of its
\* target is its own has not been overtaken there.
Lease(q) ==
  /\ at[q] \in Away => q \notin overtaken
  /\ at[q] \notin Away /\ ~tokens => leased[req[q].to] = q
  /\ at[q] \notin Away /\ leased[req[q].to] = q => q \notin overtaken

SessionInv ==
  SessionTypes /\ \A q \in Requests : RequestTypes(q) /\ Course(q) /\ Decisions(q) /\ Lease(q)

-----------------------------------------------------------------------------

\* What another request keeps while one of them acts.
OthersStand(q) ==
  \A p \in Requests \ {q} :
    /\ at'[p] = at[p] /\ req'[p] = req[p] /\ base'[p] = base[p] /\ data'[p] = data[p]
    /\ stack'[p] = stack[p] /\ answer'[p] = answer[p]

\* Nothing of another request changes with a request's step, but for its lease.
LEMMA OthersKeep ==
  ASSUME NEW q \in Requests, SessionInv, OthersStand(q)
  PROVE  \A p \in Requests \ {q} : RequestTypes(p)' /\ Course(p)' /\ Decisions(p)'
<1> TAKE p \in Requests \ {q}
<1>1. RequestTypes(p) /\ Course(p) /\ Decisions(p)
  BY DEF SessionInv
<1>2. /\ at'[p] = at[p] /\ req'[p] = req[p] /\ base'[p] = base[p] /\ data'[p] = data[p]
      /\ stack'[p] = stack[p] /\ answer'[p] = answer[p]
  BY DEF OthersStand
<1>3. RequestTypes(p)'
  BY <1>1, <1>2 DEF RequestTypes, Persistence!Snapshots, Persistence!Decisions
<1>4. Course(p)'
  BY <1>1, <1>2 DEF Course, Persistence!Completed
<1>5. Decisions(p)'
  BY <1>1, <1>2 DEF Decisions, Persistence!Readable
<1> QED
  BY <1>3, <1>4, <1>5

\* The steps of a phase keep a request's decisions its own.
LEMMA PhaseStep ==
  ASSUME NEW q \in Requests, SessionInv, Persistence!Phases(q)
  PROVE  /\ OthersStand(q) /\ SessionTypes'
         /\ RequestTypes(q)' /\ Course(q)' /\ Decisions(q)'
         /\ at'[q] \notin Away /\ at[q] \notin Away /\ UNCHANGED <<req, leased, overtaken, stored, tokens>>
<1>1. SessionTypes /\ RequestTypes(q) /\ Course(q) /\ Decisions(q)
  BY DEF SessionInv
<1> USE DEF Persistence!Phases, Persistence!Activate, Persistence!Decide, Persistence!EndNested,
            Persistence!EndPhase, Persistence!RemoveSnapshot, Persistence!Goto, Persistence!host
<1>2. at'[q] \in {"running", "phase"} /\ at[q] \in {"running", "phase"}
      /\ UNCHANGED <<req, leased, overtaken, stored, tokens, base, answer>>
  BY <1>1 DEF SessionTypes, Persistence!registry
<1>3. OthersStand(q)
  BY <1>1 DEF SessionTypes, OthersStand, Persistence!registry
<1>4. SessionTypes'
  BY <1>1 DEF SessionTypes, Persistence!registry
<1>5. \/ at'[q] = "phase" /\ at[q] = "running" /\ stack'[q] = Persistence!Decided(q) /\ data' = data
      \/ at'[q] = "phase" /\ at[q] = "phase" /\ stack'[q] = stack[q] \cup {q} /\ data' = data
      \/ at'[q] = "phase" /\ at[q] = "phase" /\ stack'[q] = stack[q] /\ data'[q] = stack[q]
      \/ at'[q] = "running" /\ at[q] = "phase" /\ stack'[q] = {} /\ data'[q] = stack[q]
      \/ at'[q] = "running" /\ at[q] = "running" /\ stack'[q] = stack[q] /\ data'[q] = NoState
  BY <1>1 DEF SessionTypes, Persistence!registry
<1> HIDE DEF Persistence!Phases
<1>6. RequestTypes(q)'
  BY <1>1, <1>2, <1>5 DEF RequestTypes, Course, Persistence!Decided, Persistence!Snapshots,
     Persistence!Decisions, Persistence!Places
<1>7. Course(q)'
  BY <1>1, <1>2, <1>5, SessionsAssumption DEF RequestTypes, Course, Persistence!Decided,
     Persistence!Completed, Away
<1>8. Decisions(q)'
  BY <1>1, <1>2, <1>5, SessionsAssumption DEF RequestTypes, Course, Decisions, Persistence!Decided,
     Persistence!Readable
<1> QED
  BY <1>2, <1>3, <1>4, <1>6, <1>7, <1>8 DEF Away

\* The consumption of a response decides nothing, and a request that is to be saved was answered whole.
LEMMA ConsumptionStep ==
  ASSUME NEW q \in Requests, SessionInv, Persistence!Consumption(q)
  PROVE  /\ OthersStand(q) /\ SessionTypes'
         /\ RequestTypes(q)' /\ Course(q)' /\ Decisions(q)'
         /\ at'[q] \notin Away /\ at[q] \notin Away /\ UNCHANGED <<req, leased, overtaken, stored, tokens>>
<1>1. SessionTypes /\ RequestTypes(q) /\ Course(q) /\ Decisions(q)
  BY DEF SessionInv
<1> USE DEF Persistence!Consumption, Persistence!Returns, Persistence!Raises, Persistence!Finish,
            Persistence!ConsumeFails, Persistence!CloseStream, Persistence!LeaveCleanly,
            Persistence!LeaveRaising, Persistence!Goto, Persistence!Answer, Persistence!host,
            Persistence!registry, Persistence!session
<1>2. /\ at[q] = "running" /\ UNCHANGED <<req, leased, overtaken, stored, tokens, base, data, stack>>
      /\ \/ at' = at
         \/ at' = [at EXCEPT ![q] = "leaving"]
         \/ at' = [at EXCEPT ![q] = "saving"]
  BY <1>1 DEF SessionTypes
<1>3. \/ answer' = answer
      \/ \E fields \in [completed : BOOLEAN, failed : BOOLEAN, closed : BOOLEAN] :
           answer' = [answer EXCEPT ![q] = fields]
  BY <1>1 DEF SessionTypes, RequestTypes
<1>4. at'[q] = "saving" => Persistence!Completed(q)'
  <2>1. ASSUME Persistence!Returns(q) PROVE answer'[q].completed /\ ~answer'[q].failed
    <3>1. answer'[q] = [Persistence!Unanswered EXCEPT !.completed = TRUE]
      BY <1>1, <2>1 DEF SessionTypes
    <3> QED
      BY <3>1 DEF Persistence!Unanswered
  <2>2. ASSUME Persistence!LeaveCleanly(q), at'[q] = "saving" PROVE Persistence!Completed(q) /\ answer' = answer
    BY <1>1, <2>2 DEF SessionTypes
  <2>3. at'[q] = "saving" => Persistence!Returns(q) \/ Persistence!LeaveCleanly(q)
    BY <1>1 DEF SessionTypes
  <2> HIDE DEF Persistence!Returns, Persistence!LeaveCleanly
  <2> QED
    BY <2>1, <2>2, <2>3 DEF Persistence!Completed
<1> HIDE DEF Persistence!Consumption
<1>5. OthersStand(q) /\ SessionTypes'
  BY <1>1, <1>2, <1>3 DEF SessionTypes, OthersStand
<1>6. RequestTypes(q)'
  BY <1>1, <1>2, <1>3 DEF SessionTypes, RequestTypes, Persistence!Places
<1>7. Course(q)'
  BY <1>1, <1>2, <1>4 DEF SessionTypes, Course, Away
<1>8. Decisions(q)'
  BY <1>1, <1>2 DEF SessionTypes, Decisions, Persistence!Readable
<1>9. at'[q] \notin Away
  BY <1>1, <1>2 DEF SessionTypes, Away
<1> QED
  BY <1>2, <1>5, <1>6, <1>7, <1>8, <1>9 DEF Away

\* A request takes its lease, loads and validates its session, saves it and leaves.
LEMMA CourseStep ==
  ASSUME NEW q \in Requests, SessionInv,
         \/ Persistence!Lease(q) \/ Persistence!LeaseRunsOut(q)
         \/ Persistence!Load(q) \/ Persistence!LoadFails(q)
         \/ Persistence!Validate(q) \/ Persistence!ValidateRefused(q)
         \/ Persistence!Commit(q) \/ Persistence!SaveFails(q) \/ Persistence!Release(q)
  PROVE  OthersStand(q) /\ SessionTypes' /\ RequestTypes(q)' /\ Course(q)' /\ Decisions(q)'
<1>1. SessionTypes /\ RequestTypes(q) /\ Course(q) /\ Decisions(q)
  BY DEF SessionInv
<1> USE DEF Persistence!Goto, Persistence!host, Persistence!registry, Persistence!session
<1>2. CASE Persistence!Lease(q)
  <2>1. PICK shape \in Persistence!Shapes :
          /\ req' = [req EXCEPT ![q] = shape]
          /\ leased' = [s \in Sessions |-> IF s \in {shape.sid, shape.to} THEN q ELSE leased[s]]
    BY <1>2 DEF Persistence!Lease
  <2>2. at[q] = "idle" /\ at' = [at EXCEPT ![q] = "leased"]
        /\ UNCHANGED <<tokens, stored, overtaken, base, data, stack, answer>>
    BY <1>2 DEF Persistence!Lease
  <2>3. OthersStand(q) /\ SessionTypes'
    BY <1>1, <2>1, <2>2 DEF SessionTypes, OthersStand
  <2>4. RequestTypes(q)'
    BY <1>1, <2>1, <2>2 DEF SessionTypes, RequestTypes, Persistence!Places
  <2>5. Course(q)' /\ Decisions(q)'
    BY <1>1, <2>1, <2>2 DEF SessionTypes, Course, Decisions, Away, Persistence!Readable
  <2> QED
    BY <2>3, <2>4, <2>5
<1>3. CASE Persistence!LeaseRunsOut(q)
  BY <1>1, <1>3 DEF Persistence!LeaseRunsOut, SessionTypes, OthersStand, RequestTypes, Course,
     Decisions, Persistence!Completed, Persistence!Readable
<1>4. CASE Persistence!Load(q)
  <2>1. PICK found \in Persistence!Snapshots :
          base' = [base EXCEPT ![q] = found] /\ data' = [data EXCEPT ![q] = found]
    <3>1. Persistence!Sid(q) \in Sessions
      BY <1>1, <1>4 DEF Persistence!Load, Persistence!Sid, Persistence!Shapes, Course, Away
    <3> QED
      BY <1>1, <1>4, <3>1 DEF Persistence!Load, SessionTypes, Persistence!Snapshots
  <2>2. at[q] = "leased" /\ at' = [at EXCEPT ![q] = "loaded"]
        /\ UNCHANGED <<tokens, stored, leased, overtaken, req, stack, answer>>
    BY <1>4 DEF Persistence!Load
  <2>3. OthersStand(q) /\ SessionTypes'
    BY <1>1, <2>1, <2>2 DEF SessionTypes, OthersStand
  <2>4. RequestTypes(q)'
    BY <1>1, <2>1, <2>2 DEF SessionTypes, RequestTypes, Persistence!Places
  <2>5. Course(q)' /\ Decisions(q)'
    BY <1>1, <2>1, <2>2 DEF SessionTypes, Course, Decisions, Away, Persistence!Readable
  <2> QED
    BY <2>3, <2>4, <2>5
<1>5. CASE Persistence!Validate(q)
  <2>1. /\ at[q] = "loaded" /\ UNCHANGED <<tokens, stored, leased, overtaken, req, base, stack, answer>>
        /\ \/ at' = [at EXCEPT ![q] = "leaving"] /\ data' = data
           \/ /\ at' = [at EXCEPT ![q] = "running"] /\ data[q] # Unreadable
              /\ data' = [data EXCEPT ![q] = Persistence!Decided(q)]
    BY <1>5 DEF Persistence!Validate
  <2>2. OthersStand(q) /\ SessionTypes'
    BY <1>1, <2>1 DEF SessionTypes, OthersStand
  <2>3. RequestTypes(q)'
    BY <1>1, <2>1 DEF SessionTypes, RequestTypes, Persistence!Places, Persistence!Decided,
       Persistence!Snapshots, Persistence!Decisions
  <2>4. Course(q)' /\ Decisions(q)'
    BY <1>1, <2>1, SessionsAssumption DEF SessionTypes, Course, Decisions, Away,
       Persistence!Readable, Persistence!Decided
  <2> QED
    BY <2>2, <2>3, <2>4
<1>6. CASE \/ Persistence!LoadFails(q) \/ Persistence!ValidateRefused(q)
           \/ Persistence!Commit(q) \/ Persistence!SaveFails(q)
  <2>1. /\ at[q] \notin Away /\ at' = [at EXCEPT ![q] = "leaving"]
        /\ UNCHANGED <<tokens, leased, req, base, data, stack, answer>>
    BY <1>6 DEF Persistence!LoadFails, Persistence!ValidateRefused, Persistence!Commit,
       Persistence!SaveFails, Away
  <2>2. DOMAIN stored' = Sessions /\ \A s \in Sessions : stored'[s] \in {NoSession} \cup Persistence!Snapshots
    BY <1>1, <1>6 DEF Persistence!LoadFails, Persistence!ValidateRefused, Persistence!Commit,
       Persistence!SaveFails, Persistence!Replace, SessionTypes, RequestTypes
  <2>3. overtaken' \subseteq Requests
    BY <1>1, <1>6 DEF Persistence!LoadFails, Persistence!ValidateRefused, Persistence!Commit,
       Persistence!SaveFails, Persistence!Replace, SessionTypes
  <2>4. at[q] # "phase"
    BY <1>6 DEF Persistence!LoadFails, Persistence!ValidateRefused, Persistence!Commit,
       Persistence!SaveFails
  <2>5. OthersStand(q) /\ SessionTypes'
    BY <1>1, <2>1, <2>2, <2>3 DEF SessionTypes, OthersStand
  <2>6. RequestTypes(q)'
    BY <1>1, <2>1 DEF SessionTypes, RequestTypes, Persistence!Places
  <2>7. Course(q)' /\ Decisions(q)'
    BY <1>1, <2>1, <2>4 DEF SessionTypes, Course, Decisions, Away, Persistence!Readable
  <2> QED
    BY <2>5, <2>6, <2>7
<1>7. CASE Persistence!Release(q)
  <2>1. SessionTypes' /\ OthersStand(q)
    BY <1>1, <1>7 DEF Persistence!Release, SessionTypes, OthersStand
  <2>2. RequestTypes(q)'
    BY <1>1, <1>7 DEF Persistence!Release, SessionTypes, RequestTypes, Persistence!Places,
       Persistence!Snapshots, Persistence!Unanswered
  <2>3. Course(q)' /\ Decisions(q)'
    BY <1>1, <1>7 DEF Persistence!Release, SessionTypes, Course, Decisions, Away, Persistence!Readable
  <2> QED
    BY <2>1, <2>2, <2>3
<1> QED
  BY <1>2, <1>3, <1>4, <1>5, <1>6, <1>7

\* A lease goes to a request whose target nobody else has, and a fenced save is of the one who has it:
\* whoever a save overtakes has lost the lease, or there is nobody.
LEMMA LeaseStep ==
  ASSUME NEW q \in Requests, SessionInv,
         OthersStand(q), SessionTypes',
         \/ Persistence!Lease(q) \/ Persistence!LeaseRunsOut(q)
         \/ Persistence!Load(q) \/ Persistence!LoadFails(q)
         \/ Persistence!Validate(q) \/ Persistence!ValidateRefused(q)
         \/ Persistence!Commit(q) \/ Persistence!SaveFails(q) \/ Persistence!Release(q)
  PROVE  \A p \in Requests : Lease(p)'
<1>1. /\ SessionTypes
      /\ \A p \in Requests : Course(p) /\ Lease(p)
  BY DEF SessionInv
<1>2. \A p \in Requests \ {q} : at'[p] = at[p] /\ req'[p] = req[p]
  BY DEF OthersStand
<1>3. \A p \in Requests : at[p] \notin Away => req[p].to \in Sessions
  BY <1>1 DEF Course, Persistence!Shapes
<1>4. Nobody \notin Requests
  BY SessionsAssumption
<1> USE DEF Persistence!Goto, Persistence!host, Persistence!registry, Persistence!session
<1>5. CASE Persistence!Lease(q)
  <2>1. PICK shape \in Persistence!Shapes :
          /\ leased[shape.sid] = Nobody /\ leased[shape.to] = Nobody
          /\ req' = [req EXCEPT ![q] = shape]
          /\ leased' = [s \in Sessions |-> IF s \in {shape.sid, shape.to} THEN q ELSE leased[s]]
    BY <1>5 DEF Persistence!Lease
  <2>2. at[q] = "idle" /\ at' = [at EXCEPT ![q] = "leased"] /\ UNCHANGED <<tokens, overtaken>>
    BY <1>5 DEF Persistence!Lease
  <2>3. Lease(q)'
    BY <1>1, <2>1, <2>2 DEF Lease, SessionTypes, Persistence!Shapes, Away
  <2>4. ASSUME NEW p \in Requests \ {q} PROVE Lease(p)'
    BY <1>1, <1>2, <1>3, <1>4, <2>1, <2>2 DEF Lease
  <2> QED
    BY <2>3, <2>4
<1>6. CASE Persistence!LeaseRunsOut(q)
  <2>1. tokens /\ UNCHANGED <<tokens, overtaken, at, req>>
        /\ leased' = [s \in Sessions |-> IF leased[s] = q THEN Nobody ELSE leased[s]]
    BY <1>6 DEF Persistence!LeaseRunsOut
  <2> QED
    BY <1>1, <1>3, <1>4, <2>1 DEF Lease
<1>7. CASE \/ Persistence!Load(q) \/ Persistence!LoadFails(q) \/ Persistence!Validate(q)
           \/ Persistence!ValidateRefused(q) \/ Persistence!SaveFails(q)
  <2>1. /\ at[q] \notin Away /\ at'[q] \notin Away
        /\ UNCHANGED <<tokens, overtaken, leased, req>>
    BY <1>1, <1>7 DEF Persistence!Load, Persistence!LoadFails, Persistence!Validate,
       Persistence!ValidateRefused, Persistence!SaveFails, Away, SessionTypes
  <2> QED
    BY <1>1, <1>2, <2>1 DEF Lease
<1>8. CASE Persistence!Commit(q)
  <2>1. /\ at[q] \notin Away /\ at'[q] \notin Away
        /\ UNCHANGED <<tokens, leased, req>>
        /\ tokens => leased[req[q].to] = q
        /\ overtaken' = overtaken \cup
             {p \in Requests \ {q} : at[p] \notin Away /\ req[p].to = req[q].to}
    BY <1>1, <1>8 DEF Persistence!Commit, Persistence!Replace, SessionTypes, Away
  <2>2. leased[req[q].to] = q
    BY <1>1, <2>1 DEF Lease
  <2>3. Lease(q)'
    BY <1>1, <2>1 DEF Lease
  <2>4. ASSUME NEW p \in Requests \ {q} PROVE Lease(p)'
    BY <1>1, <1>2, <2>1, <2>2 DEF Lease
  <2> QED
    BY <2>3, <2>4
<1>9. CASE Persistence!Release(q)
  <2>1. /\ at'[q] = "over" /\ overtaken' = overtaken \ {q} /\ tokens' = tokens
        /\ leased' = [s \in Sessions |-> IF leased[s] = q THEN Nobody ELSE leased[s]]
    BY <1>1, <1>9 DEF Persistence!Release, SessionTypes
  <2>2. Lease(q)'
    BY <2>1 DEF Lease, Away
  <2>3. ASSUME NEW p \in Requests \ {q} PROVE Lease(p)'
    BY <1>1, <1>2, <1>3, <1>4, <2>1 DEF Lease
  <2> QED
    BY <2>2, <2>3
<1> QED
  BY <1>5, <1>6, <1>7, <1>8, <1>9

\* Every step of a request keeps the sessions' invariant.
LEMMA SessionStep == SessionInv /\ [Persistence!Next]_(Persistence!vars) => SessionInv'
<1> SUFFICES ASSUME SessionInv, [Persistence!Next]_(Persistence!vars) PROVE SessionInv'
  OBVIOUS
<1>1. ASSUME UNCHANGED Persistence!vars PROVE SessionInv'
  BY <1>1 DEF SessionInv, SessionTypes, RequestTypes, Course, Decisions, Lease, Persistence!Completed,
     Persistence!vars, Persistence!host, Persistence!registry, Persistence!session
<1>2. ASSUME NEW q \in Requests, Persistence!Phases(q) \/ Persistence!Consumption(q) PROVE SessionInv'
  <2>1. /\ OthersStand(q) /\ SessionTypes'
        /\ RequestTypes(q)' /\ Course(q)' /\ Decisions(q)'
        /\ at'[q] \notin Away /\ at[q] \notin Away
        /\ UNCHANGED <<req, leased, overtaken, stored, tokens>>
    BY <1>2, PhaseStep, ConsumptionStep
  <2>2. ASSUME NEW p \in Requests PROVE Lease(p)'
    BY <2>1 DEF Lease, SessionInv, OthersStand
  <2> QED
    BY <2>1, <2>2, OthersKeep DEF SessionInv
<1>3. ASSUME NEW q \in Requests,
             \/ Persistence!Lease(q) \/ Persistence!LeaseRunsOut(q)
             \/ Persistence!Load(q) \/ Persistence!LoadFails(q)
             \/ Persistence!Validate(q) \/ Persistence!ValidateRefused(q)
             \/ Persistence!Commit(q) \/ Persistence!SaveFails(q) \/ Persistence!Release(q)
      PROVE  SessionInv'
  <2>1. OthersStand(q) /\ SessionTypes' /\ RequestTypes(q)' /\ Course(q)' /\ Decisions(q)'
    BY <1>3, CourseStep
  <2>2. \A p \in Requests : Lease(p)'
    BY <1>3, <2>1, LeaseStep
  <2> QED
    BY <2>1, <2>2, OthersKeep DEF SessionInv
<1> QED
  BY <1>1, <1>2, <1>3 DEF Persistence!Next

\* Before any request the invariant holds, whatever the host has stored.
LEMMA SessionInit == Persistence!Init => SessionInv
<1> SUFFICES ASSUME Persistence!Init PROVE SessionInv
  OBVIOUS
<1> USE DEF Persistence!Init
<1>1. SessionTypes
  BY DEF SessionTypes, Persistence!Snapshots, Persistence!Decisions
<1>2. ASSUME NEW q \in Requests PROVE RequestTypes(q) /\ Course(q) /\ Decisions(q) /\ Lease(q)
  BY DEF RequestTypes, Course, Decisions, Lease, Away, Persistence!Places, Persistence!Snapshots,
     Persistence!Unanswered, Persistence!Readable
<1> QED
  BY <1>1, <1>2 DEF SessionInv

\* A behaviour of the stores takes steps of SessionPersistence or leaves its state alone.
LEMMA SessionsOfStores ==
  ASSUME [StoresNext]_<<vars, sessionVars, half>>
  PROVE  [Persistence!Next]_(Persistence!vars)
<1>1. UNCHANGED sessionVars => UNCHANGED Persistence!vars
  BY DEF sessionVars, Persistence!vars, Persistence!host, Persistence!registry, Persistence!session
<1> QED
  BY <1>1 DEF StoresNext

\* The sessions' invariant holds of every behaviour of the stores.
LEMMA SessionsAlways == StoresSpec => []SessionInv
<1>1. StoresInit => SessionInv
  BY SessionInit DEF StoresInit
<1>2. SessionInv /\ [StoresNext]_<<vars, sessionVars, half>> => SessionInv'
  BY SessionsOfStores, SessionStep
<1> QED
  BY <1>1, <1>2, PTL DEF StoresSpec

\* What a request shows its compaction or saves is of the session it loaded or its own decision,
\* whatever its replica has cached.
THEOREM DecisionsAreOwn == StoresSpec => []NoForeignDecisions
<1>1. SessionInv => NoForeignDecisions
  BY DEF SessionInv, Decisions, NoForeignDecisions, Persistence!NoForeignDecisions
<1> QED
  BY <1>1, SessionsAlways, PTL

\* A stored session changes by the save of a request that finished cleanly and has seen every save of
\* that session since it had the lease.
THEOREM SavesAreInOrder == StoresSpec => SavesFollowOn
<1>1. ASSUME SessionInv, Persistence!Next, NEW s \in Sessions, stored'[s] # stored[s]
      PROVE  \E q \in Requests : /\ at[q] = "saving" /\ req[q].to = s
                                 /\ Persistence!Completed(q) /\ q \notin overtaken
  <2>1. \/ stored' = stored
        \/ \E q \in Requests : Persistence!Commit(q)
    <3>1. ASSUME NEW q \in Requests, Persistence!Phases(q) \/ Persistence!Consumption(q)
          PROVE  stored' = stored
      BY <1>1, <3>1, PhaseStep, ConsumptionStep
    <3>2. ASSUME NEW q \in Requests,
                 \/ Persistence!Lease(q) \/ Persistence!LeaseRunsOut(q)
                 \/ Persistence!Load(q) \/ Persistence!LoadFails(q)
                 \/ Persistence!Validate(q) \/ Persistence!ValidateRefused(q)
                 \/ Persistence!SaveFails(q) \/ Persistence!Release(q)
          PROVE  stored' = stored
      BY <3>2 DEF Persistence!Lease, Persistence!LeaseRunsOut, Persistence!Load,
         Persistence!LoadFails, Persistence!Validate, Persistence!ValidateRefused,
         Persistence!SaveFails, Persistence!Release, Persistence!host
    <3> QED
      BY <1>1, <3>1, <3>2 DEF Persistence!Next
  <2>2. PICK q \in Requests : Persistence!Commit(q)
    BY <1>1, <2>1
  <2>3. /\ at[q] = "saving" /\ (tokens => leased[req[q].to] = q)
        /\ stored' = [stored EXCEPT ![req[q].to] = data[q]]
    BY <2>2 DEF Persistence!Commit, Persistence!Replace
  <2>4. req[q].to = s
    BY <1>1, <2>3 DEF SessionInv, SessionTypes
  <2>5. Persistence!Completed(q) /\ q \notin overtaken
    BY <1>1, <2>3 DEF SessionInv, Course, Lease, Away
  <2> QED
    BY <2>3, <2>4, <2>5
<1>2. SessionInv /\ [StoresNext]_<<vars, sessionVars, half>> =>
        [\A s \in Sessions : stored'[s] # stored[s] =>
           \E q \in Requests : /\ at[q] = "saving" /\ req[q].to = s
                               /\ Persistence!Completed(q) /\ q \notin overtaken]_(Persistence!vars)
  BY <1>1, SessionsOfStores
<1> QED
  BY <1>2, SessionsAlways, PTL DEF StoresSpec, SavesFollowOn, Persistence!SavesFollowOn

-----------------------------------------------------------------------------
(* The files: where a read is, and what its check is about.                  *)

Checking == {"collect", "bytes", "reread", "resample"}

\* What the place of a read and its check say about the call: what has begun is tracked by the open
\* window, a check's round is of what was tracked when it began, its samples are of tracked paths, a
\* path is read again only while there is one in doubt and a round left.
Place(r) ==
  /\ chk[r].at # "idle" => path[r] # None
  /\ path[r] # None => open /\ path[r] \in ToSet(tracked) /\ before[r] # None
  /\ chk[r].at \in {"bytes", "reread", "resample"} => chk[r].pending # <<>> /\ chk[r].attempt < 2
  /\ chk[r].at \in {"reread", "resample"} => chk[r].first # None
  /\ chk[r].at \in Checking => chk[r].rev <= revision
  /\ ToSet(chk[r].todo) \subseteq ToSet(tracked)
  /\ \A p \in Paths : chk[r].got[p] # None => p \in ToSet(tracked)

Places == TypeOK /\ \A r \in Reads : Place(r)

\* The first element of a sequence and the others.
LEMMA HeadAndTail ==
  ASSUME NEW S, NEW s \in Seq(S), s # <<>>
  PROVE  /\ Head(s) \in S /\ Head(s) \in ToSet(s)
         /\ Tail(s) \in Seq(S) /\ ToSet(s) = {Head(s)} \cup ToSet(Tail(s))
<1>1. Len(s) \in Nat \ {0} /\ DOMAIN s = 1..Len(s) /\ \A i \in DOMAIN s : s[i] \in S
  OBVIOUS
<1>2. Head(s) = s[1] /\ Tail(s) \in Seq(S) /\ DOMAIN Tail(s) = 1..(Len(s) - 1)
      /\ \A i \in 1..(Len(s) - 1) : Tail(s)[i] = s[i + 1]
  BY <1>1
<1>3. ASSUME NEW i \in DOMAIN s PROVE s[i] \in {s[1]} \cup ToSet(Tail(s))
  <2>1. i = 1 \/ (i - 1 \in DOMAIN Tail(s) /\ Tail(s)[i - 1] = s[i])
    BY <1>1, <1>2
  <2> QED
    BY <2>1 DEF ToSet
<1>4. ASSUME NEW i \in DOMAIN Tail(s) PROVE Tail(s)[i] \in ToSet(s)
  BY <1>1, <1>2 DEF ToSet
<1> QED
  BY <1>1, <1>2, <1>3, <1>4 DEF ToSet

\* A sequence with one more element.
LEMMA Appended ==
  ASSUME NEW S, NEW s \in Seq(S), NEW e \in S
  PROVE  Append(s, e) \in Seq(S) /\ Append(s, e) # <<>> /\ ToSet(Append(s, e)) = ToSet(s) \cup {e}
<1>1. /\ Append(s, e) \in Seq(S) /\ Len(s) \in Nat /\ DOMAIN s = 1..Len(s)
      /\ DOMAIN Append(s, e) = 1..(Len(s) + 1) /\ Append(s, e)[Len(s) + 1] = e
      /\ \A i \in 1..Len(s) : Append(s, e)[i] = s[i]
  OBVIOUS
<1>2. ToSet(Append(s, e)) \subseteq ToSet(s) \cup {e}
  BY <1>1 DEF ToSet
<1>3. ToSet(s) \subseteq ToSet(Append(s, e)) /\ e \in ToSet(Append(s, e))
  BY <1>1 DEF ToSet
<1> QED
  BY <1>1, <1>2, <1>3

\* What a sequence is of.
LEMMA Elements ==
  ASSUME NEW S, NEW s \in Seq(S)
  PROVE  \A i \in DOMAIN s : s[i] \in S
OBVIOUS

\* The sequence of nothing has nothing in it.
LEMMA EmptySet == ToSet(<<>>) = {}
BY DEF ToSet

\* The types of what a record answers and of a fresh check.
LEMMA StateTypes ==
  ASSUME TypeOK
  PROVE  /\ \A p \in Paths : State(p) \in States
         /\ Idle \in Checks
         /\ \A n \in 0..2, then \in {"read", "given", "over"}, paths \in Seq(Paths), rev \in Nat :
              Round(n, then, paths, rev) \in Checks
<1>1. \A p \in Paths : Integrity(p) \in Integrities
  BY DEF Integrity, Integrities
<1>2. \A p \in Paths : State(p) \in States
  BY <1>1 DEF State, States, TypeOK
<1>3. Idle \in Checks
  BY DEF Idle, Checks
<1> QED
  BY <1>2, <1>3 DEF Round, Checks, Idle

\* What a read of the call does to the window and to what other reads go by: it adds to it.
LEMMA OtherPlaces ==
  ASSUME NEW r \in Reads, Places,
         UNCHANGED open, ToSet(tracked) \subseteq ToSet(tracked'),
         revision \in Nat, revision' \in Nat, revision <= revision',
         \A s \in Reads \ {r} : /\ path'[s] = path[s] /\ before'[s] = before[s]
                                /\ chk'[s] = chk[s]
  PROVE  \A s \in Reads \ {r} : Place(s)'
<1> TAKE s \in Reads \ {r}
<1>1. Place(s) /\ chk[s].rev \in Nat
  BY DEF Places, TypeOK, Checks
<1> QED
  BY <1>1 DEF Place

\* A check that moves within the types leaves the call well typed.
LEMMA MoveTyped ==
  ASSUME TypeOK, NEW r \in Reads, NEW c \in Checks, chk' = [chk EXCEPT ![r] = c],
         UNCHANGED <<builtIn, files, open, tracked, revision, path, text, before>>,
         snaps' \in [Paths -> Snapshots \cup {None}], noted' \subseteq Paths, refused' \in BOOLEAN
  PROVE  TypeOK'
<1>1. chk' \in [Reads -> Checks] /\ {builtIn', open', refused'} \subseteq BOOLEAN
  BY DEF TypeOK
<1> QED
  BY <1>1 DEF TypeOK, files

\* A refusal leaves its reader where nothing is checked.
LEMMA RefusalPlaced ==
  ASSUME Places, NEW r \in Reads, NEW about \in SUBSET Paths, Refuses(r, about), chk[r].at # "idle",
         UNCHANGED <<builtIn, files, open, path, text, before>>
  PROVE  TypeOK' /\ Place(r)'
<1> DEFINE c == [Idle EXCEPT !.at = "over"]
<1>1. TypeOK /\ Place(r)
  BY DEF Places
<1>2. c \in Checks /\ c.at = "over" /\ c.todo = <<>> /\ \A p \in Paths : c.got[p] = None
  <2>1. Idle \in Checks /\ Idle.todo = <<>> /\ \A p \in Paths : Idle.got[p] = None
    BY <1>1, StateTypes DEF Idle
  <2> QED
    BY <2>1 DEF Checks
<1>3. chk' = [chk EXCEPT ![r] = c] /\ noted' = noted \cup about /\ refused' = TRUE
      /\ UNCHANGED <<tracked, snaps, revision>>
  BY DEF Refuses, Moves
<1>4. TypeOK'
  <2>1. noted' \subseteq Paths /\ refused' \in BOOLEAN /\ snaps' \in [Paths -> Snapshots \cup {None}]
    BY <1>1, <1>3 DEF TypeOK
  <2> HIDE DEF c
  <2> QED
    BY <1>1, <1>2, <1>3, <2>1, MoveTyped
<1>5. chk'[r] = c
  BY <1>1, <1>3 DEF TypeOK
<1>6. Place(r)'
  <2> HIDE DEF c
  <2> QED
    BY <1>1, <1>2, <1>3, <1>5, EmptySet DEF Place, Checking
<1> QED
  BY <1>4, <1>6

\* A new round samples what is tracked now.
LEMMA RoundPlaced ==
  ASSUME NEW r \in Reads, NEW n \in 0..2, NEW then \in {"read", "given", "over"},
         Place(r), chk[r].at # "idle",
         TypeOK', chk'[r] = Round(n, then, tracked', revision'),
         UNCHANGED <<open, path, before>>, ToSet(tracked) \subseteq ToSet(tracked')
  PROVE  Place(r)'
<1>1. /\ chk'[r].at = "collect" /\ chk'[r].todo = tracked' /\ chk'[r].rev = revision'
      /\ \A p \in Paths : chk'[r].got[p] = None
  BY DEF Round, Idle
<1>2. revision' \in Nat
  BY DEF TypeOK
<1> QED
  BY <1>1, <1>2 DEF Place, Checking

\* Sampling the next path.
LEMMA CollectPlaced ==
  ASSUME Places, NEW r \in Reads, Collect(r), UNCHANGED <<builtIn, files, open, path, text, before>>
  PROVE  TypeOK' /\ Place(r)'
<1> DEFINE c == chk[r]
           p == Head(c.todo)
           state == Sample(r, p)
           next == [c EXCEPT !.todo = Tail(@)]
           more == [next EXCEPT !.got[p] = state,
                      !.pending = IF Settled(p, state) THEN @
                                  ELSE Append(@, [path |-> p, was |-> snaps[p]])]
<1>1. TypeOK /\ Place(r) /\ c \in Checks
  BY DEF Places, TypeOK
<1>2. c.at = "collect" /\ c.todo # <<>> /\ c.todo \in Seq(Paths)
  BY <1>1 DEF Collect, Checks
<1>3. p \in Paths /\ p \in ToSet(c.todo) /\ Tail(c.todo) \in Seq(Paths)
      /\ ToSet(Tail(c.todo)) \subseteq ToSet(c.todo)
  BY <1>2, HeadAndTail
<1>4. CASE \E about \in SUBSET Paths : Refuses(r, about)
  BY <1>2, <1>4, RefusalPlaced
<1>5. CASE Moves(r, next) /\ UNCHANGED window
  <2>1. next \in Checks /\ next.at = "collect" /\ next.todo = Tail(c.todo)
        /\ next.got = c.got /\ next.rev = c.rev
    BY <1>1, <1>2, <1>3 DEF Checks
  <2>2. TypeOK'
    BY <1>1, <1>5, <2>1, MoveTyped DEF Moves, window, TypeOK
  <2>3. chk'[r] = next
    BY <1>1, <1>5 DEF Moves, TypeOK
  <2> HIDE DEF next
  <2>4. Place(r)'
    BY <1>1, <1>2, <1>3, <1>5, <2>1, <2>3 DEF Place, window, Checking
  <2> QED
    BY <2>2, <2>4
<1>6. CASE Moves(r, more) /\ UNCHANGED window /\ snaps[p] # None
  <2>1. state \in States
    BY <1>1, <1>2, <1>3, StateTypes DEF Sample, TypeOK, Place
  <2>2. snaps[p] \in Snapshots
    BY <1>1, <1>3, <1>6 DEF TypeOK
  <2>3. Append(c.pending, [path |-> p, was |-> snaps[p]]) \in Seq([path : Paths, was : Snapshots])
    BY <1>1, <1>3, <2>2, Appended DEF Checks
  <2>4. /\ more \in Checks /\ more.at = "collect" /\ more.todo = Tail(c.todo) /\ more.rev = c.rev
        /\ more.got = [c.got EXCEPT ![p] = state]
    BY <1>1, <1>2, <1>3, <2>1, <2>3 DEF Checks
  <2>5. TypeOK'
    BY <1>1, <1>6, <2>4, MoveTyped DEF Moves, window, TypeOK
  <2>6. chk'[r] = more
    BY <1>1, <1>6 DEF Moves, TypeOK
  <2>7. more.got \in [Paths -> States \cup {None}] /\ c.got \in [Paths -> States \cup {None}]
    BY <1>1, <2>4 DEF Checks
  <2> HIDE DEF more
  <2>8. Place(r)'
    BY <1>1, <1>2, <1>3, <1>6, <2>4, <2>6, <2>7 DEF Place, window, Checking
  <2> QED
    BY <2>5, <2>8
<1> QED
  BY <1>3, <1>4, <1>5, <1>6 DEF Collect

\* What is in doubt is read again while a round is left.
LEMMA DoubtPlaced ==
  ASSUME Places, NEW r \in Reads, Doubt(r), UNCHANGED <<builtIn, files, open, path, text, before>>
  PROVE  TypeOK' /\ Place(r)'
<1> DEFINE c == chk[r]
           bytes == [c EXCEPT !.at = "bytes"]
<1>1. TypeOK /\ Place(r) /\ c \in Checks
  BY DEF Places, TypeOK
<1>2. c.at = "collect" /\ c.pending # <<>>
  BY DEF Doubt
<1>3. CASE Refuses(r, Doubted(c))
  <2>1. \A i \in DOMAIN c.pending : c.pending[i].path \in Paths
    <3>1. c.pending \in Seq([path : Paths, was : Snapshots])
      BY <1>1 DEF Checks
    <3>2. \A i \in DOMAIN c.pending : c.pending[i] \in [path : Paths, was : Snapshots]
      BY <3>1, Elements
    <3> QED
      BY <3>2
  <2>2. Doubted(c) \in SUBSET Paths
    BY <2>1 DEF Doubted
  <2> QED
    BY <1>2, <1>3, <2>2, RefusalPlaced
<1>4. CASE c.attempt < 2 /\ Moves(r, bytes) /\ UNCHANGED window
  <2>1. /\ bytes \in Checks /\ bytes.at = "bytes" /\ bytes.todo = c.todo /\ bytes.got = c.got
        /\ bytes.rev = c.rev /\ bytes.pending = c.pending /\ bytes.attempt = c.attempt
    BY <1>1 DEF Checks
  <2>2. TypeOK'
    BY <1>1, <1>4, <2>1, MoveTyped DEF Moves, window, TypeOK
  <2>3. chk'[r] = bytes
    BY <1>1, <1>4 DEF Moves, TypeOK
  <2> HIDE DEF bytes
  <2>4. Place(r)'
    BY <1>1, <1>2, <1>4, <2>1, <2>3 DEF Place, window, Checking
  <2> QED
    BY <2>2, <2>4
<1> QED
  BY <1>3, <1>4 DEF Doubt

\* The samples are compared: the check passes, begins again or refuses the call.
LEMMA ComparePlaced ==
  ASSUME Places, NEW r \in Reads, Compare(r), UNCHANGED <<builtIn, files, open, path, text, before>>
  PROVE  TypeOK' /\ Place(r)'
<1> DEFINE c == chk[r]
           passed == [Idle EXCEPT !.at = c.then]
           again == Round(c.attempt + 1, c.then, tracked, revision)
<1>1. TypeOK /\ Place(r) /\ c \in Checks
  BY DEF Places, TypeOK
<1>2. c.at = "collect" /\ c.then \in {"read", "given", "over"} /\ c.attempt \in 0..2
  BY <1>1 DEF Compare, Checks
<1>3. CASE Refuses(r, {})
  BY <1>2, <1>3, RefusalPlaced
<1>4. CASE Moves(r, passed) /\ UNCHANGED window
  <2>1. /\ passed \in Checks /\ passed.at = c.then /\ passed.todo = <<>>
        /\ \A p \in Paths : passed.got[p] = None
    <3>1. Idle \in Checks /\ Idle.todo = <<>> /\ \A p \in Paths : Idle.got[p] = None
      BY <1>1, StateTypes DEF Idle
    <3> QED
      BY <1>2, <3>1 DEF Checks
  <2>2. TypeOK'
    BY <1>1, <1>4, <2>1, MoveTyped DEF Moves, window, TypeOK
  <2>3. chk'[r] = passed
    BY <1>1, <1>4 DEF Moves, TypeOK
  <2> HIDE DEF passed
  <2>4. Place(r)'
    BY <1>1, <1>2, <1>4, <2>1, <2>3, EmptySet DEF Place, window, Checking
  <2> QED
    BY <2>2, <2>4
<1>5. CASE c.attempt < 2 /\ Moves(r, again) /\ UNCHANGED window
  <2>1. c.attempt + 1 \in 0..2
    BY <1>2, <1>5
  <2>2. again \in Checks
    BY <1>1, <1>2, <2>1, StateTypes DEF TypeOK
  <2>3. TypeOK'
    BY <1>1, <1>5, <2>2, MoveTyped DEF Moves, window, TypeOK
  <2>4. chk'[r] = Round(c.attempt + 1, c.then, tracked', revision')
    BY <1>1, <1>5 DEF Moves, TypeOK, window
  <2>5. Place(r)'
    BY <1>1, <1>2, <1>5, <2>1, <2>3, <2>4, RoundPlaced DEF window
  <2> QED
    BY <2>3, <2>5
<1> QED
  BY <1>3, <1>4, <1>5 DEF Compare

\* The bytes of a path in doubt are read again between two samples.
LEMMA RereadPlaced ==
  ASSUME Places, NEW r \in Reads, SampleFirst(r) \/ Reread(r),
         UNCHANGED <<builtIn, files, open, path, text, before>>
  PROVE  TypeOK' /\ Place(r)'
<1> DEFINE c == chk[r]
           p == Head(c.pending).path
           first == [c EXCEPT !.at = "reread", !.first = State(p)]
           bytes == [c EXCEPT !.at = "resample", !.again = store[p]]
<1>1. TypeOK /\ Place(r) /\ c \in Checks
  BY DEF Places, TypeOK
<1>2. c.at \in {"bytes", "reread"} /\ c.pending # <<>>
  BY <1>1 DEF SampleFirst, Reread, Place
<1>3. Head(c.pending) \in [path : Paths, was : Snapshots]
  BY <1>1, <1>2, HeadAndTail DEF Checks
<1>4. p \in Paths /\ State(p) \in States /\ store[p] \in Contents
  BY <1>1, <1>3, StateTypes DEF TypeOK
<1>5. CASE Refuses(r, {}) \/ Refuses(r, {p})
  BY <1>2, <1>4, <1>5, RefusalPlaced
<1>6. CASE Moves(r, first) /\ UNCHANGED window /\ c.at = "bytes"
  <2>1. /\ first \in Checks /\ first.at = "reread" /\ first.todo = c.todo /\ first.got = c.got
        /\ first.rev = c.rev /\ first.pending = c.pending /\ first.attempt = c.attempt
        /\ first.first = State(p)
    BY <1>1, <1>4 DEF Checks
  <2>2. TypeOK'
    BY <1>1, <1>6, <2>1, MoveTyped DEF Moves, window, TypeOK
  <2>3. chk'[r] = first
    BY <1>1, <1>6 DEF Moves, TypeOK
  <2> HIDE DEF first, p
  <2>4. Place(r)'
    BY <1>1, <1>2, <1>4, <1>6, <2>1, <2>3, NoneAssumption DEF Place, window, Checking
  <2> QED
    BY <2>2, <2>4
<1>7. CASE Moves(r, bytes) /\ UNCHANGED window /\ c.at = "reread"
  <2>1. /\ bytes \in Checks /\ bytes.at = "resample" /\ bytes.todo = c.todo /\ bytes.got = c.got
        /\ bytes.rev = c.rev /\ bytes.pending = c.pending /\ bytes.attempt = c.attempt
        /\ bytes.first = c.first
    BY <1>1, <1>4 DEF Checks
  <2>2. TypeOK'
    BY <1>1, <1>7, <2>1, MoveTyped DEF Moves, window, TypeOK
  <2>3. chk'[r] = bytes
    BY <1>1, <1>7 DEF Moves, TypeOK
  <2> HIDE DEF bytes, p
  <2>4. Place(r)'
    BY <1>1, <1>2, <1>4, <1>7, <2>1, <2>3 DEF Place, window, Checking
  <2> QED
    BY <2>2, <2>4
<1> QED
  BY <1>5, <1>6, <1>7 DEF SampleFirst, Reread

\* A path that was read again is settled; after the last one a round begins.
LEMMA ResamplePlaced ==
  ASSUME Places, NEW r \in Reads, SampleAgain(r),
         UNCHANGED <<builtIn, files, open, path, text, before>>
  PROVE  TypeOK' /\ Place(r)'
<1> DEFINE c == chk[r]
           p == Head(c.pending).path
           was == Head(c.pending).was
           rest == [c EXCEPT !.at = "bytes", !.pending = Tail(@), !.first = None, !.again = None]
           round == Round(c.attempt + 1, c.then, tracked, revision)
<1>1. TypeOK /\ Place(r) /\ c \in Checks
  BY DEF Places, TypeOK
<1>2. c.at = "resample" /\ c.pending # <<>> /\ c.attempt < 2
  BY <1>1 DEF SampleAgain, Place
<1>3. Head(c.pending) \in [path : Paths, was : Snapshots]
      /\ Tail(c.pending) \in Seq([path : Paths, was : Snapshots])
  BY <1>1, <1>2, HeadAndTail DEF Checks
<1>4. p \in Paths /\ was \in Snapshots
  BY <1>3
<1>5. CASE Refuses(r, {}) \/ Refuses(r, {p})
  BY <1>2, <1>4, <1>5, RefusalPlaced
<1>6. CASE /\ UNCHANGED <<tracked, noted, revision, refused>>
           /\ snaps' = IF c.first.count = epoch /\ snaps[p] = was
                       THEN [snaps EXCEPT ![p].count = epoch] ELSE snaps
           /\ Moves(r, IF rest.pending # <<>> THEN rest ELSE round)
  <2>1. snaps' \in [Paths -> Snapshots \cup {None}]
    BY <1>1, <1>4, <1>6 DEF TypeOK, Snapshots
  <2>2. rest \in Checks /\ rest.at = "bytes" /\ rest.todo = c.todo /\ rest.got = c.got
        /\ rest.rev = c.rev /\ rest.attempt = c.attempt
    BY <1>1, <1>3 DEF Checks
  <2>3. c.attempt + 1 \in 0..2 /\ c.then \in {"read", "given", "over"}
    BY <1>1, <1>2 DEF Checks
  <2>4. round \in Checks
    BY <1>1, <2>3, StateTypes DEF TypeOK
  <2>5. chk'[r] = IF rest.pending # <<>> THEN rest ELSE round
    BY <1>1, <1>6 DEF Moves, TypeOK
  <2>6. TypeOK'
    <3>1. noted' \subseteq Paths /\ refused' \in BOOLEAN
      BY <1>1, <1>6 DEF TypeOK
    <3> HIDE DEF rest, round, p, was
    <3> QED
      BY <1>1, <1>6, <2>1, <2>2, <2>4, <3>1, MoveTyped DEF Moves
  <2>7. CASE rest.pending # <<>>
    <3> HIDE DEF rest, round, p, was
    <3>1. Place(r)'
      BY <1>1, <1>2, <1>6, <2>2, <2>5, <2>7 DEF Place, Checking
    <3> QED
      BY <2>6, <3>1
  <2>8. CASE rest.pending = <<>>
    <3>1. chk'[r] = Round(c.attempt + 1, c.then, tracked', revision')
      BY <1>6, <2>5, <2>8
    <3> HIDE DEF rest, round, p, was
    <3>2. Place(r)'
      BY <1>1, <1>2, <1>6, <2>3, <2>6, <3>1, RoundPlaced
    <3> QED
      BY <2>6, <3>2
  <2> QED
    BY <2>7, <2>8
<1> QED
  BY <1>5, <1>6 DEF SampleAgain

\* A read begins: its path is an input of the call.
LEMMA BeginPlaced ==
  ASSUME Places, NEW r \in Reads, NEW p \in Paths, Begin(r, p)
  PROVE  /\ TypeOK' /\ Place(r)'
         /\ \A s \in Reads \ {r} : path'[s] = path[s] /\ before'[s] = before[s] /\ chk'[s] = chk[s]
         /\ ToSet(tracked') = ToSet(tracked) \cup {p} /\ revision' \in {revision, revision + 1}
         /\ path'[r] = p /\ before'[r] = State(p)
         /\ \/ p \in noted /\ refused' = TRUE /\ chk'[r] = [Idle EXCEPT !.at = "over"]
            \/ p \notin noted /\ refused' = refused /\ chk'[r] = Round(0, "read", tracked', revision')
<1> DEFINE over == [Idle EXCEPT !.at = "over"]
           round == Round(0, "read", tracked', revision')
<1>1. TypeOK /\ Place(r)
  BY DEF Places
<1>2. /\ path' = [path EXCEPT ![r] = p] /\ before' = [before EXCEPT ![r] = State(p)] /\ open
      /\ UNCHANGED <<builtIn, files, open, snaps, noted, text>>
  BY DEF Begin
<1>3. tracked' \in Seq(Paths) /\ ToSet(tracked') = ToSet(tracked) \cup {p}
  BY <1>1, Appended DEF Begin, TypeOK
<1>4. revision' \in {revision, revision + 1} /\ revision \in Nat /\ revision' \in Nat
  BY <1>1 DEF Begin, TypeOK
<1>5. /\ over \in Checks /\ over.at = "over" /\ over.todo = <<>>
      /\ \A q \in Paths : over.got[q] = None
  <2>1. Idle \in Checks /\ Idle.todo = <<>> /\ \A q \in Paths : Idle.got[q] = None
    BY <1>1, StateTypes DEF Idle
  <2> QED
    BY <2>1 DEF Checks
<1>6. round \in Checks /\ round.at = "collect" /\ round.todo = tracked' /\ round.rev = revision'
      /\ \A q \in Paths : round.got[q] = None
  <2>1. round \in Checks
    BY <1>1, <1>3, <1>4, StateTypes
  <2> QED
    BY <2>1 DEF Round, Idle
<1>7. \/ p \in noted /\ refused' = TRUE /\ chk' = [chk EXCEPT ![r] = over]
      \/ p \notin noted /\ refused' = refused /\ chk' = [chk EXCEPT ![r] = round]
  BY DEF Begin, Moves
<1>8. State(p) \in States /\ State(p) # None
  BY <1>1, StateTypes, NoneAssumption
<1> HIDE DEF over, round
<1>9. TypeOK'
  <2>1. path' \in [Reads -> Paths \cup {None}] /\ before' \in [Reads -> States \cup {None}]
    BY <1>1, <1>2, <1>8 DEF TypeOK
  <2>2. chk' \in [Reads -> Checks] /\ refused' \in BOOLEAN
    BY <1>1, <1>5, <1>6, <1>7 DEF TypeOK
  <2>3. {builtIn', open', refused'} \subseteq BOOLEAN
    BY <1>1, <1>2, <2>2 DEF TypeOK
  <2> QED
    BY <1>1, <1>2, <1>3, <1>4, <2>1, <2>2, <2>3 DEF TypeOK, files
<1>10. path'[r] = p /\ before'[r] = State(p) /\ p # None
  BY <1>1, <1>2, NoneAssumption DEF TypeOK
<1>11. /\ \A s \in Reads \ {r} : path'[s] = path[s] /\ before'[s] = before[s] /\ chk'[s] = chk[s]
       /\ \/ p \in noted /\ refused' = TRUE /\ chk'[r] = over
          \/ p \notin noted /\ refused' = refused /\ chk'[r] = round
  BY <1>1, <1>2, <1>7 DEF TypeOK
<1>12. Place(r)'
  BY <1>2, <1>3, <1>4, <1>5, <1>6, <1>8, <1>10, <1>11, EmptySet DEF Place, Checking
<1> QED
  BY <1>3, <1>4, <1>9, <1>10, <1>11, <1>12 DEF over, round

\* The store answers a read, or fails it.
LEMMA StoreReadPlaced ==
  ASSUME Places, NEW r \in Reads, StoreRead(r)
  PROVE  /\ TypeOK' /\ Place(r)' /\ path[r] \in Paths
         /\ \A s \in Reads \ {r} : text'[s] = text[s] /\ chk'[s] = chk[s]
         /\ \/ text'[r] = store[path[r]] /\ chk'[r] = [Idle EXCEPT !.at = "keep"]
            \/ text'[r] = text[r] /\ chk'[r] = Round(0, "over", tracked, revision)
<1> DEFINE keep == [Idle EXCEPT !.at = "keep"]
           round == Round(0, "over", tracked, revision)
<1>1. TypeOK /\ Place(r)
  BY DEF Places
<1>2. UNCHANGED <<builtIn, files, open, window, path, before>> /\ chk[r].at = "read"
  BY DEF StoreRead
<1>3. path[r] \in Paths /\ store[path[r]] \in Contents
  BY <1>1, <1>2 DEF Place, TypeOK
<1>4. /\ keep \in Checks /\ keep.at = "keep" /\ keep.todo = <<>>
      /\ \A q \in Paths : keep.got[q] = None
  <2>1. Idle \in Checks /\ Idle.todo = <<>> /\ \A q \in Paths : Idle.got[q] = None
    BY <1>1, StateTypes DEF Idle
  <2> QED
    BY <2>1 DEF Checks
<1>5. round \in Checks /\ round.at = "collect" /\ round.todo = tracked /\ round.rev = revision
      /\ \A q \in Paths : round.got[q] = None
  <2>1. round \in Checks
    BY <1>1, StateTypes DEF TypeOK
  <2> QED
    BY <2>1 DEF Round, Idle
<1>6. \/ text' = [text EXCEPT ![r] = store[path[r]]] /\ chk' = [chk EXCEPT ![r] = keep]
      \/ text' = text /\ chk' = [chk EXCEPT ![r] = round]
  BY DEF StoreRead, Moves
<1> HIDE DEF keep, round
<1>7. TypeOK'
  <2>1. text' \in [Reads -> Contents \cup {None}] /\ chk' \in [Reads -> Checks]
    BY <1>1, <1>3, <1>4, <1>5, <1>6, SMTT(30) DEF TypeOK
  <2>2. {builtIn', open', refused'} \subseteq BOOLEAN
    BY <1>1, <1>2 DEF TypeOK, window
  <2> QED
    BY <1>1, <1>2, <2>1, <2>2 DEF TypeOK, files, window
<1>8. /\ \A s \in Reads \ {r} : text'[s] = text[s] /\ chk'[s] = chk[s]
      /\ \/ text'[r] = store[path[r]] /\ chk'[r] = keep
         \/ text'[r] = text[r] /\ chk'[r] = round
  BY <1>1, <1>6 DEF TypeOK
<1>9. revision \in Nat
  BY <1>1 DEF TypeOK
<1>10. Place(r)'
  BY <1>1, <1>2, <1>4, <1>5, <1>8, <1>9, EmptySet DEF Place, Checking, window
<1> QED
  BY <1>3, <1>7, <1>8, <1>10 DEF keep, round

\* A read keeps its snapshot, agrees with the one there is, or ends the call.
LEMMA RememberPlaced ==
  ASSUME Places, NEW r \in Reads, Remember(r), text[r] # None
  PROVE  /\ TypeOK' /\ Place(r)' /\ path[r] \in Paths
         /\ \A s \in Reads \ {r} : chk'[s] = chk[s]
         /\ \/ /\ snaps[path[r]] = None /\ revision' = revision + 1 /\ UNCHANGED <<noted, refused>>
               /\ snaps' = [snaps EXCEPT ![path[r]] = [content |-> text[r],
                                integrity |-> before[r].integrity, count |-> before[r].count]]
               /\ snaps'[path[r]] # None
               /\ chk'[r] = Round(0, "given", tracked', revision')
            \/ /\ snaps[path[r]] # None /\ snaps[path[r]].content = text[r]
               /\ UNCHANGED <<snaps, revision, noted, refused>>
               /\ chk'[r] = Round(0, "given", tracked', revision')
            \/ /\ Refuses(r, {path[r]}) /\ chk'[r] = [Idle EXCEPT !.at = "over"]
<1> DEFINE p == path[r]
           candidate == [content |-> text[r], integrity |-> before[r].integrity,
                         count |-> before[r].count]
           round == Round(0, "given", tracked', revision')
<1>1. TypeOK /\ Place(r)
  BY DEF Places
<1>2. UNCHANGED <<builtIn, files, open, path, text, before>> /\ chk[r].at = "keep"
  BY DEF Remember
<1>3. p \in Paths /\ p \in ToSet(tracked) /\ before[r] \in States
  BY <1>1, <1>2 DEF Place, TypeOK
<1>4. candidate \in Snapshots /\ candidate # None
  BY <1>1, <1>3, NoneAssumption DEF TypeOK, States, Snapshots
<1>5. CASE Refuses(r, {p})
  <2>1. chk'[r] = [Idle EXCEPT !.at = "over"] /\ \A s \in Reads \ {r} : chk'[s] = chk[s]
    BY <1>1, <1>5 DEF Refuses, Moves, TypeOK
  <2>2. TypeOK' /\ Place(r)'
    BY <1>2, <1>3, <1>5, RefusalPlaced
  <2> QED
    BY <1>3, <1>5, <2>1, <2>2
<1>6. ASSUME Moves(r, round), UNCHANGED <<tracked, noted, refused>>,
             \/ snaps' = [snaps EXCEPT ![p] = candidate] /\ revision' = revision + 1
             \/ UNCHANGED <<snaps, revision>>
      PROVE  TypeOK' /\ Place(r)' /\ chk'[r] = round /\ \A s \in Reads \ {r} : chk'[s] = chk[s]
  <2>1. tracked' \in Seq(Paths) /\ revision' \in Nat
        /\ snaps' \in [Paths -> Snapshots \cup {None}]
    BY <1>1, <1>4, <1>6, SMTT(30) DEF TypeOK
  <2>2. round \in Checks
    BY <1>1, <2>1, StateTypes
  <2>3. chk'[r] = round /\ (\A s \in Reads \ {r} : chk'[s] = chk[s]) /\ chk' \in [Reads -> Checks]
    BY <1>1, <1>6, <2>2 DEF Moves, TypeOK
  <2>4. {builtIn', open', refused'} \subseteq BOOLEAN
    BY <1>1, <1>2, <1>6 DEF TypeOK
  <2> HIDE DEF round, p, candidate
  <2>5. TypeOK'
    BY <1>1, <1>2, <1>6, <2>1, <2>3, <2>4 DEF TypeOK, files
  <2>6. Place(r)'
    BY <1>1, <1>2, <1>6, <2>3, <2>5, RoundPlaced DEF round
  <2> QED
    BY <2>3, <2>5, <2>6
<1>7. CASE /\ snaps[p] = None /\ snaps' = [snaps EXCEPT ![p] = candidate] /\ revision' = revision + 1
           /\ Moves(r, Round(0, "given", tracked, revision'))
           /\ UNCHANGED <<tracked, noted, refused>>
  <2>1. snaps'[p] # None
    BY <1>1, <1>3, <1>4, <1>7 DEF TypeOK
  <2> QED
    BY <1>3, <1>6, <1>7, <2>1
<1>8. CASE /\ snaps[p] # None /\ snaps[p].content = text[r]
           /\ Moves(r, Round(0, "given", tracked, revision)) /\ UNCHANGED window
  BY <1>3, <1>6, <1>8 DEF window
<1> QED
  BY <1>5, <1>7, <1>8 DEF Remember

\* A read has its text from the store's answer on.
HasRead(r) ==
  chk[r].at \in {"keep", "given"} \/ (chk[r].at \in Checking /\ chk[r].then = "given")

TextOf(r) == (HasRead(r) => text[r] # None) /\ (path[r] = None => text[r] = None)

\* A check adds to what the window has noted, and settles a snapshot at most; it hands over what has
\* been read before it.
LEMMA CheckSteps ==
  ASSUME Places, NEW r \in Reads, Check(r), UNCHANGED <<builtIn, files, open, path, text, before>>
  PROVE  /\ TypeOK' /\ Place(r)'
         /\ \A s \in Reads \ {r} : chk'[s] = chk[s]
         /\ UNCHANGED <<tracked, revision>> /\ noted \subseteq noted'
         /\ \A p \in Paths : /\ snaps'[p] = None <=> snaps[p] = None
                             /\ snaps[p] # None => snaps'[p].content = snaps[p].content
         /\ HasRead(r)' => HasRead(r)
         /\ chk[r].at \in Checking
         /\ \/ chk'[r].at \in {"over", chk[r].then}
            \/ chk'[r].at \in Checking /\ chk'[r].then = chk[r].then
<1>1. TypeOK /\ Place(r) /\ chk[r] \in Checks
  BY DEF Places, TypeOK
<1>2. TypeOK' /\ Place(r)'
  BY CollectPlaced, DoubtPlaced, ComparePlaced, RereadPlaced, ResamplePlaced DEF Check
<1>3. chk[r].at \in Checking /\ UNCHANGED <<tracked, revision>> /\ noted \subseteq noted'
  BY DEF Check, Collect, Doubt, Compare, SampleFirst, Reread, SampleAgain, Checking, Refuses, window
<1>4. \E c : chk' = [chk EXCEPT ![r] = c]
  BY DEF Check, Collect, Doubt, Compare, SampleFirst, Reread, SampleAgain, Refuses, Moves
<1>5. \A s \in Reads \ {r} : chk'[s] = chk[s]
  BY <1>1, <1>4 DEF TypeOK
<1>6. \A p \in Paths : /\ snaps'[p] = None <=> snaps[p] = None
                       /\ snaps[p] # None => snaps'[p].content = snaps[p].content
  <2>1. CASE snaps' = snaps
    BY <2>1
  <2>2. CASE \E p \in Paths : snaps[p] # None /\ snaps' = [snaps EXCEPT ![p].count = epoch]
    <3> PICK p \in Paths : snaps[p] # None /\ snaps' = [snaps EXCEPT ![p].count = epoch]
      BY <2>2
    <3>1. snaps[p] \in Snapshots /\ snaps \in [Paths -> Snapshots \cup {None}]
      BY <1>1 DEF TypeOK
    <3>2. snaps'[p] \in Snapshots /\ snaps'[p].content = snaps[p].content
      BY <1>1, <3>1 DEF Snapshots, TypeOK
    <3>3. \A q \in Paths \ {p} : snaps'[q] = snaps[q]
      BY <3>1
    <3> QED
      BY <3>2, <3>3, NoneAssumption
  <2>3. snaps' = snaps \/ SampleAgain(r)
    BY DEF Check, Collect, Doubt, Compare, SampleFirst, Reread, Refuses, window
  <2>4. ASSUME SampleAgain(r), snaps' # snaps
        PROVE  \E p \in Paths : snaps[p] # None /\ snaps' = [snaps EXCEPT ![p].count = epoch]
    <3>1. chk[r].pending # <<>>
      BY <1>1, <2>4 DEF SampleAgain, Place
    <3>2. Head(chk[r].pending) \in [path : Paths, was : Snapshots]
      BY <1>1, <3>1, HeadAndTail DEF Checks
    <3>3. snaps[Head(chk[r].pending).path] = Head(chk[r].pending).was
          /\ snaps' = [snaps EXCEPT ![Head(chk[r].pending).path].count = epoch]
      BY <2>4 DEF SampleAgain, Refuses
    <3> QED
      BY <3>2, <3>3, NoneAssumption
  <2> QED
    BY <2>1, <2>2, <2>3, <2>4
<1>7. /\ HasRead(r)' => HasRead(r)
      /\ \/ chk'[r].at \in {"over", chk[r].then}
         \/ chk'[r].at \in Checking /\ chk'[r].then = chk[r].then
  <2>1. chk[r].then \in {"read", "given", "over"}
    BY <1>1 DEF Checks
  <2>2. \/ chk'[r].at = "over"
        \/ chk'[r].at = chk[r].then
        \/ chk'[r].at \in Checking /\ chk'[r].then = chk[r].then
    <3>1. ASSUME NEW about, Refuses(r, about) PROVE chk'[r].at = "over"
      <4>1. chk'[r] = [Idle EXCEPT !.at = "over"]
        BY <1>1, <3>1 DEF Refuses, Moves, TypeOK
      <4> QED
        BY <4>1 DEF Idle
    <3>2. ASSUME NEW c, Moves(r, c) PROVE chk'[r] = c
      BY <1>1, <3>2 DEF Moves, TypeOK
    <3>3. CASE Collect(r)
      BY <1>1, <3>1, <3>2, <3>3 DEF Collect, Checks, Checking
    <3>4. CASE Doubt(r)
      BY <1>1, <3>1, <3>2, <3>4 DEF Doubt, Checks, Checking
    <3>5. CASE Compare(r)
      BY <1>1, <3>1, <3>2, <3>5, ZenonT(30) DEF Compare, Round, Idle, Checking
    <3>6. CASE SampleFirst(r) \/ Reread(r)
      BY <1>1, <3>1, <3>2, <3>6 DEF SampleFirst, Reread, Checks, Checking
    <3>7. CASE SampleAgain(r)
      BY <1>1, <3>1, <3>2, <3>7, ZenonT(30) DEF SampleAgain, Checks, Checking, Round, Idle
    <3> QED
      BY <3>3, <3>4, <3>5, <3>6, <3>7 DEF Check
  <2> QED
    BY <1>3, <2>1, <2>2 DEF HasRead, Checking
<1> QED
  BY <1>2, <1>3, <1>5, <1>6, <1>7

ReadsInv == Places /\ \A r \in Reads : TextOf(r)

\* What happens to the store and its record leaves the reads where they are.
LEMMA EnvironmentSteps ==
  ASSUME TypeOK, Environment
  PROVE  TypeOK' /\ UNCHANGED <<builtIn, open, tracked, snaps, revision, refused, reads>>
<1> USE DEF TypeOK, Holds, Noted, Contents, Absent
<1>1. ASSUME NEW p \in Paths, Land(p)
      PROVE  TypeOK' /\ UNCHANGED <<builtIn, open, tracked, snaps, revision, refused, reads>>
  <2>1. UNCHANGED <<builtIn, open, window, reads, entries>>
    BY <1>1 DEF Land
  <2>2. changes' = changes + 1 /\ changes' \in 1..MaxChanges
    BY <1>1, ChangesAssumption DEF Land
  <2>3. store' \in [Paths -> Contents] /\ epoch' \in Nat
    BY <1>1, <2>2, ChangesAssumption DEF Land
  <2>4. inFlight' \subseteq Paths \X (1..MaxChanges)
    BY <1>1, <2>2 DEF Land
  <2>5. past' \subseteq [Paths -> Contents]
    BY <1>1, <2>3 DEF Land
  <2>6. TypeOK'
    BY <2>1, <2>2, <2>3, <2>4, <2>5, ChangesAssumption DEF window, reads
  <2> QED
    BY <2>1, <2>6 DEF window
<1>2. ASSUME NEW p \in Paths, Unlink(p)
      PROVE  TypeOK' /\ UNCHANGED <<builtIn, open, tracked, snaps, revision, refused, reads>>
  <2>1. UNCHANGED <<builtIn, open, window, reads, entries, inFlight>>
    BY <1>2 DEF Unlink
  <2>2. changes' = changes + 1 /\ changes' \in 1..MaxChanges
    BY <1>2, ChangesAssumption DEF Unlink
  <2>3. store' \in [Paths -> Contents] /\ epoch' \in Nat
    BY <1>2, <2>2, ChangesAssumption DEF Unlink
  <2>5. past' \subseteq [Paths -> Contents]
    BY <1>2, <2>3 DEF Unlink
  <2>6. TypeOK'
    BY <2>1, <2>2, <2>3, <2>5, ChangesAssumption DEF window, reads
  <2> QED
    BY <2>1, <2>6 DEF window
<1>3. ASSUME NEW p \in Paths, Forget(p) \/ \E landed \in SUBSET inFlight : Record(p, landed)
      PROVE  TypeOK' /\ UNCHANGED <<builtIn, open, tracked, snaps, revision, refused, reads>>
  <2>1. UNCHANGED <<builtIn, store, changes, epoch, past, open, tracked, snaps, revision, refused, reads>>
    BY <1>3 DEF Forget, Record
  <2>2. inFlight' \subseteq inFlight /\ entries' \subseteq entries \cup {p} /\ noted' \subseteq noted \cup {p}
    BY <1>3 DEF Forget, Record
  <2> QED
    BY <2>1, <2>2 DEF reads
<1>4. Environment =>
        \E p \in Paths : \/ Land(p) \/ Unlink(p) \/ Forget(p)
                         \/ \E landed \in SUBSET inFlight : Record(p, landed)
  BY DEF Environment
<1> QED
  BY <1>1, <1>2, <1>3, <1>4

\* Every step of the call and of the store keeps the reads in their places.
LEMMA ReadsStep == ReadsInv /\ [Next]_vars => ReadsInv'
<1> SUFFICES ASSUME ReadsInv, [Next]_vars PROVE ReadsInv'
  OBVIOUS
<1>1. Places /\ TypeOK /\ \A r \in Reads : Place(r) /\ TextOf(r) /\ chk[r] \in Checks
  BY DEF ReadsInv, Places, TypeOK
<1>2. revision \in Nat
  BY <1>1 DEF TypeOK
<1>3. CASE UNCHANGED vars
  BY <1>1, <1>3 DEF ReadsInv, Places, Place, TextOf, HasRead, TypeOK, vars, files, window, reads
<1>4. CASE Environment
  <2>1. TypeOK' /\ UNCHANGED <<builtIn, open, tracked, snaps, revision, refused, reads>>
    BY <1>1, <1>4, EnvironmentSteps
  <2> QED
    BY <1>1, <2>1 DEF ReadsInv, Places, Place, TextOf, HasRead, reads
<1>5. CASE List
  <2>1. ~open /\ open' = TRUE /\ revision' = 1
        /\ UNCHANGED <<builtIn, store, changes, inFlight, entries, epoch, tracked, snaps, noted,
                       refused, reads>>
    BY <1>5 DEF List
  <2>2. past' \subseteq [Paths -> Contents]
    BY <1>1, <1>5 DEF List, TypeOK
  <2>3. {builtIn', open', refused'} \subseteq BOOLEAN
    BY <1>1, <2>1 DEF TypeOK
  <2>4. TypeOK'
    BY <1>1, <2>1, <2>2, <2>3 DEF TypeOK, reads
  <2>5. ASSUME NEW r \in Reads PROVE Place(r)' /\ TextOf(r)'
    BY <1>1, <2>1 DEF Place, TextOf, HasRead, Checking, reads
  <2> QED
    BY <2>4, <2>5 DEF ReadsInv, Places
<1>6. CASE \E r \in Reads : \E p \in Paths : Begin(r, p)
  <2> PICK r \in Reads, p \in Paths : Begin(r, p)
    BY <1>6
  <2>1. /\ TypeOK' /\ Place(r)'
        /\ \A s \in Reads \ {r} : path'[s] = path[s] /\ before'[s] = before[s] /\ chk'[s] = chk[s]
        /\ ToSet(tracked') = ToSet(tracked) \cup {p} /\ revision' \in {revision, revision + 1}
        /\ path'[r] = p
        /\ chk'[r] \in {[Idle EXCEPT !.at = "over"], Round(0, "read", tracked', revision')}
    BY <1>1, BeginPlaced
  <2>2. UNCHANGED open /\ text' = text
    BY DEF Begin
  <2>3. revision <= revision' /\ revision' \in Nat
    BY <1>2, <2>1
  <2>4. \A s \in Reads \ {r} : Place(s)'
    BY <1>1, <1>2, <2>1, <2>2, <2>3, OtherPlaces
  <2>5. ~HasRead(r)' /\ path'[r] # None
    BY <2>1, NoneAssumption DEF HasRead, Round, Idle, Checking
  <2>6. \A s \in Reads : TextOf(s)'
    BY <1>1, <2>1, <2>2, <2>5 DEF TextOf, HasRead
  <2> QED
    BY <2>1, <2>4, <2>6 DEF ReadsInv, Places
<1>7. CASE \E r \in Reads : StoreRead(r)
  <2> PICK r \in Reads : StoreRead(r)
    BY <1>7
  <2>1. /\ TypeOK' /\ Place(r)' /\ path[r] \in Paths
        /\ \A s \in Reads \ {r} : text'[s] = text[s] /\ chk'[s] = chk[s]
        /\ \/ text'[r] = store[path[r]] /\ chk'[r] = [Idle EXCEPT !.at = "keep"]
           \/ text'[r] = text[r] /\ chk'[r] = Round(0, "over", tracked, revision)
    BY <1>1, StoreReadPlaced
  <2>2. UNCHANGED <<open, tracked, revision, path, before>>
    BY DEF StoreRead, window
  <2>3. \A s \in Reads \ {r} : Place(s)'
    BY <1>1, <1>2, <2>1, <2>2, OtherPlaces
  <2>4. TextOf(r)'
    <3>1. store[path[r]] # None /\ path[r] # None
      BY <1>1, <2>1, NoneAssumption DEF TypeOK
    <3> QED
      BY <2>1, <2>2, <3>1 DEF TextOf, HasRead, Round, Idle, Checking
  <2>5. \A s \in Reads \ {r} : TextOf(s)'
    BY <1>1, <2>1, <2>2 DEF TextOf, HasRead
  <2> QED
    BY <2>1, <2>3, <2>4, <2>5 DEF ReadsInv, Places
<1>8. CASE \E r \in Reads : Remember(r)
  <2> PICK r \in Reads : Remember(r)
    BY <1>8
  <2>1. text[r] # None /\ UNCHANGED <<open, tracked, path, text, before>>
    BY <1>1 DEF Remember, TextOf, HasRead, Refuses, window
  <2>2. /\ TypeOK' /\ Place(r)' /\ path[r] \in Paths
        /\ \A s \in Reads \ {r} : chk'[s] = chk[s]
    BY <1>1, <2>1, RememberPlaced
  <2>3. revision' \in {revision, revision + 1}
    BY DEF Remember, Refuses, window
  <2>4. revision <= revision' /\ revision' \in Nat
    BY <1>2, <2>3
  <2>5. \A s \in Reads \ {r} : Place(s)'
    BY <1>1, <1>2, <2>1, <2>2, <2>4, OtherPlaces
  <2>6. TextOf(r)'
    BY <2>1, <2>2, NoneAssumption DEF TextOf
  <2>7. \A s \in Reads \ {r} : TextOf(s)'
    BY <1>1, <2>1, <2>2 DEF TextOf, HasRead
  <2> QED
    BY <2>2, <2>5, <2>6, <2>7 DEF ReadsInv, Places
<1>9. CASE \E r \in Reads : Check(r) /\ UNCHANGED <<builtIn, files, open, path, text, before>>
  <2> PICK r \in Reads : Check(r) /\ UNCHANGED <<builtIn, files, open, path, text, before>>
    BY <1>9
  <2>1. /\ TypeOK' /\ Place(r)'
        /\ \A s \in Reads \ {r} : chk'[s] = chk[s]
        /\ UNCHANGED <<tracked, revision>>
        /\ HasRead(r)' => HasRead(r)
    BY <1>1, CheckSteps
  <2>2. \A s \in Reads \ {r} : Place(s)'
    BY <1>1, <1>2, <2>1, OtherPlaces
  <2>3. \A s \in Reads : TextOf(s)'
    BY <1>1, <2>1 DEF TextOf, HasRead
  <2> QED
    BY <2>1, <2>2, <2>3 DEF ReadsInv, Places
<1> QED
  BY <1>3, <1>4, <1>5, <1>6, <1>7, <1>8, <1>9 DEF Next, Call

\* Before the call has listed, nothing has been read.
LEMMA ReadsInit == Init => ReadsInv
<1> SUFFICES ASSUME Init PROVE ReadsInv
  OBVIOUS
<1>1. Idle \in Checks
  BY DEF Idle, Checks
<1>2. {builtIn, open, refused} \subseteq BOOLEAN
  BY DEF Init
<1>3. TypeOK
  BY <1>1, <1>2, ChangesAssumption DEF Init, TypeOK, Contents, Absent
<1>4. ASSUME NEW r \in Reads PROVE Place(r) /\ TextOf(r)
  <2>1. chk[r] = Idle /\ path[r] = None /\ text[r] = None
    BY DEF Init
  <2> QED
    BY <2>1, EmptySet DEF Place, TextOf, HasRead, Checking, Idle
<1> QED
  BY <1>3, <1>4 DEF ReadsInv, Places

-----------------------------------------------------------------------------
(* This package's record: what it does not know of has not returned.          *)

\* Bytes that a write tool put somewhere are recorded, or their call has not returned.
Landed ==
  \A p \in Paths : store[p] \in 1..MaxChanges => <<p, store[p]>> \in inFlight \/ p \in entries

\* A path that was trusted when a read of it began, and has not been noted since, is not recorded, so
\* that what the read has found there, if it was a tool's, is of a write that has not returned.
Earned(s) ==
  path[s] # None /\ path[s] \notin noted /\ before[s].integrity = "trusted" =>
    /\ path[s] \notin entries
    /\ text[s] \in 1..MaxChanges => <<path[s], text[s]>> \in inFlight

TrustInv == ReadsInv /\ (builtIn => Landed /\ \A s \in Reads : Earned(s))

\* A write that lands, its record and what a host forgets leave trust as earned as it was: a path
\* that is recorded or forgotten is noted by the window.
LEMMA TrustInEnvironment ==
  ASSUME TrustInv, builtIn, Environment
  PROVE  Landed' /\ \A s \in Reads : Earned(s)'
<1>1. TypeOK /\ (\A s \in Reads : Place(s)) /\ Landed /\ \A s \in Reads : Earned(s)
  BY DEF TrustInv, ReadsInv, Places
<1>2. UNCHANGED <<open, path, text, before>>
  BY <1>1, EnvironmentSteps DEF reads
<1>3. \A s \in Reads : path[s] # None => open /\ path[s] \in Paths
  BY <1>1 DEF Place, TypeOK
<1>4. ASSUME NEW p \in Paths, Land(p) PROVE Landed' /\ \A s \in Reads : Earned(s)'
  <2>1. /\ inFlight' = inFlight \cup {<<p, changes'>>} /\ changes' = changes + 1
        /\ store' = [store EXCEPT ![p] = changes + 1] /\ UNCHANGED <<entries, noted>>
    BY <1>4 DEF Land, Holds, window
  <2>2. store'[p] = changes' /\ \A q \in Paths \ {p} : store'[q] = store[q]
    BY <1>1, <2>1 DEF TypeOK
  <2>3. Landed'
    BY <1>1, <2>1, <2>2 DEF Landed
  <2>4. \A s \in Reads : Earned(s)'
    BY <1>1, <1>2, <2>1 DEF Earned
  <2> QED
    BY <2>3, <2>4
<1>5. ASSUME NEW p \in Paths, Unlink(p) PROVE Landed' /\ \A s \in Reads : Earned(s)'
  <2>1. /\ store' = [store EXCEPT ![p] = Absent] /\ UNCHANGED <<inFlight, entries, noted>>
    BY <1>5 DEF Unlink, Holds, window
  <2>2. store'[p] \notin 1..MaxChanges /\ \A q \in Paths \ {p} : store'[q] = store[q]
    BY <1>1, <2>1, ChangesAssumption DEF TypeOK, Absent
  <2>3. Landed'
    BY <1>1, <2>1, <2>2 DEF Landed
  <2>4. \A s \in Reads : Earned(s)'
    BY <1>1, <1>2, <2>1 DEF Earned
  <2> QED
    BY <2>3, <2>4
<1>6. ASSUME NEW p \in Paths, Forget(p) PROVE Landed' /\ \A s \in Reads : Earned(s)'
  <2>1. /\ store[p] = Absent /\ entries' = entries \ {p} /\ UNCHANGED <<store, inFlight>>
        /\ noted' = Noted(p)
    BY <1>6 DEF Forget
  <2>2. store[p] \notin 1..MaxChanges
    BY <2>1, ChangesAssumption DEF Absent
  <2>3. Landed'
    BY <1>1, <2>1, <2>2 DEF Landed
  <2>4. \A s \in Reads : Earned(s)'
    BY <1>1, <1>2, <2>1 DEF Earned, Noted
  <2> QED
    BY <2>3, <2>4
<1>7. ASSUME NEW p \in Paths, NEW landed \in SUBSET inFlight, \A w \in landed : w[1] = p,
             Record(p, landed)
      PROVE  Landed' /\ \A s \in Reads : Earned(s)'
  <2>1. /\ entries' = entries \cup {p} /\ inFlight' = inFlight \ landed /\ UNCHANGED store
        /\ noted' = Noted(p)
    BY <1>7 DEF Record
  <2>2. \A q \in Paths, n \in 1..MaxChanges :
          q # p /\ <<q, n>> \in inFlight => <<q, n>> \in inFlight'
    <3> TAKE q \in Paths, n \in 1..MaxChanges
    <3>1. <<q, n>> \in landed => q = p
      BY <1>7
    <3> QED
      BY <2>1, <3>1
  <2>3. Landed'
    BY <1>1, <2>1, <2>2 DEF Landed
  <2>4. ASSUME NEW s \in Reads PROVE Earned(s)'
    <3>1. open => p \in noted' /\ noted \subseteq noted'
      BY <2>1 DEF Noted
    <3> QED
      BY <1>1, <1>2, <1>3, <2>1, <2>2, <3>1 DEF Earned
  <2> QED
    BY <2>3, <2>4
<1> QED
  BY <1>4, <1>5, <1>6, <1>7 DEF Environment

\* A read that begins asks the record, and one that reads finds what is recorded or has not returned.
LEMMA TrustStep == TrustInv /\ [Next]_vars => TrustInv'
<1> SUFFICES ASSUME TrustInv, [Next]_vars PROVE TrustInv'
  OBVIOUS
<1>1. ReadsInv /\ ReadsInv'
  BY ReadsStep DEF TrustInv
<1>2. Places /\ TypeOK /\ \A r \in Reads : Place(r) /\ TextOf(r)
  BY <1>1 DEF ReadsInv, Places
<1> SUFFICES ASSUME builtIn' PROVE Landed' /\ \A s \in Reads : Earned(s)'
  BY <1>1 DEF TrustInv
<1>3. builtIn
  BY <1>2, EnvironmentSteps DEF Next, Call, List, Begin, StoreRead, Remember, vars
<1>4. Landed /\ \A s \in Reads : Earned(s)
  BY <1>3 DEF TrustInv
<1>5. CASE UNCHANGED vars
  BY <1>4, <1>5 DEF Landed, Earned, vars, files, window, reads
<1>6. CASE Environment
  BY <1>3, <1>6, TrustInEnvironment
<1>7. CASE List
  BY <1>4, <1>7 DEF List, Landed, Earned, reads
<1>8. CASE \E r \in Reads : \E p \in Paths : Begin(r, p)
  <2> PICK r \in Reads, p \in Paths : Begin(r, p)
    BY <1>8
  <2>1. /\ \A s \in Reads \ {r} : path'[s] = path[s] /\ before'[s] = before[s]
        /\ path'[r] = p /\ before'[r] = State(p)
    BY <1>2, BeginPlaced
  <2>2. path[r] = None /\ UNCHANGED <<builtIn, files, noted, text>>
    BY DEF Begin
  <2>3. text'[r] = None /\ None \notin 1..MaxChanges
    BY <1>2, <2>2, NoneAssumption, ChangesAssumption DEF TextOf, Contents, Absent
  <2>4. Earned(r)'
    BY <1>3, <2>1, <2>2, <2>3 DEF Earned, State, Integrity, files
  <2>5. \A s \in Reads \ {r} : Earned(s)'
    BY <1>4, <2>1, <2>2 DEF Earned, files
  <2> QED
    BY <1>4, <2>2, <2>4, <2>5 DEF Landed, files
<1>9. CASE \E r \in Reads : StoreRead(r)
  <2> PICK r \in Reads : StoreRead(r)
    BY <1>9
  <2>1. /\ path[r] \in Paths /\ \A s \in Reads \ {r} : text'[s] = text[s]
        /\ text'[r] \in {store[path[r]], text[r]}
    BY <1>2, StoreReadPlaced
  <2>2. UNCHANGED <<builtIn, files, window, path, before>>
    BY DEF StoreRead
  <2>3. Earned(r)'
    BY <1>4, <2>1, <2>2 DEF Earned, Landed, files, window
  <2>4. \A s \in Reads \ {r} : Earned(s)'
    BY <1>4, <2>1, <2>2 DEF Earned, files, window
  <2> QED
    BY <1>4, <2>2, <2>3, <2>4 DEF Landed, files
<1>10. CASE \E r \in Reads : \/ Remember(r)
                             \/ Check(r) /\ UNCHANGED <<builtIn, files, open, path, text, before>>
  <2>1. UNCHANGED <<builtIn, files, open, path, text, before>> /\ noted \subseteq noted'
    BY <1>2, <1>10, CheckSteps DEF Remember, Refuses, window
  <2> QED
    BY <1>4, <2>1 DEF Landed, Earned, files
<1> QED
  BY <1>5, <1>6, <1>7, <1>8, <1>9, <1>10 DEF Next, Call

\* A check hands a read over only when nothing the call has read is noted.
LEMMA HandedOver ==
  ASSUME ReadsInv, [Next]_vars, NEW r \in Given' \ Given
  PROVE  /\ Compare(r) /\ UNCHANGED <<builtIn, files, open, window, path, text, before>>
         /\ chk[r].then = "given" /\ Stable(chk[r]) /\ chk[r].pending = <<>> /\ chk[r].todo = <<>>
         /\ ToSet(tracked) \cap noted = {} /\ chk[r].at = "collect"
         /\ \A s \in Given' : s # r => s \in Given
<1>1. Places /\ TypeOK /\ \A s \in Reads : Place(s) /\ chk[s] \in Checks
  BY DEF ReadsInv, Places, TypeOK
<1>2. r \in Reads /\ chk'[r].at = "given" /\ chk[r].at # "given"
  BY DEF Given
<1>3. chk'[r] # chk[r]
  BY <1>2
<1>4. ASSUME NEW c, Moves(r, c) PROVE chk'[r] = c
  BY <1>1, <1>2, <1>4 DEF Moves, TypeOK
<1>5. ~ \E s \in Reads : \/ \E p \in Paths : Begin(s, p)
                         \/ StoreRead(s) \/ Remember(s)
  <2>1. ASSUME NEW s \in Reads, NEW p \in Paths, Begin(s, p) PROVE FALSE
    <3>1. /\ \A q \in Reads \ {s} : chk'[q] = chk[q]
          /\ chk'[s] \in {[Idle EXCEPT !.at = "over"], Round(0, "read", tracked', revision')}
      BY <1>1, <2>1, BeginPlaced
    <3> QED
      BY <1>2, <1>3, <3>1 DEF Round, Idle
  <2>2. ASSUME NEW s \in Reads, StoreRead(s) PROVE FALSE
    <3>1. /\ \A q \in Reads \ {s} : chk'[q] = chk[q]
          /\ chk'[s] \in {[Idle EXCEPT !.at = "keep"], Round(0, "over", tracked, revision)}
      BY <1>1, <2>2, StoreReadPlaced
    <3> QED
      BY <1>2, <1>3, <3>1 DEF Round, Idle
  <2>3. ASSUME NEW s \in Reads, Remember(s) PROVE FALSE
    <3>1. text[s] # None
      BY <2>3 DEF ReadsInv, TextOf, HasRead, Remember
    <3>2. /\ \A q \in Reads \ {s} : chk'[q] = chk[q]
          /\ chk'[s] \in {[Idle EXCEPT !.at = "over"], Round(0, "given", tracked', revision')}
      BY <1>1, <2>3, <3>1, RememberPlaced
    <3> QED
      BY <1>2, <1>3, <3>2 DEF Round, Idle
  <2> QED
    BY <2>1, <2>2, <2>3
<1>6. ~Environment /\ ~List /\ ~UNCHANGED vars
  BY <1>1, <1>3, EnvironmentSteps DEF List, reads, vars
<1>7. PICK s \in Reads : Check(s) /\ UNCHANGED <<builtIn, files, open, path, text, before>>
  BY <1>5, <1>6 DEF Next, Call
<1>8. s = r /\ \A q \in Reads \ {r} : chk'[q] = chk[q]
  BY <1>1, <1>2, <1>3, <1>7, CheckSteps
<1>9. ASSUME NEW about PROVE ~Refuses(r, about)
  BY <1>2, <1>4 DEF Refuses, Idle
<1>10. ~Collect(r) /\ ~Doubt(r) /\ ~SampleFirst(r) /\ ~Reread(r) /\ ~SampleAgain(r)
  <2>1. ~Collect(r)
    BY <1>1, <1>2, <1>4, <1>9 DEF Collect, Checks
  <2>2. ~Doubt(r)
    BY <1>1, <1>2, <1>4, <1>9 DEF Doubt, Checks
  <2>3. ~SampleFirst(r) /\ ~Reread(r)
    BY <1>1, <1>2, <1>4, <1>9 DEF SampleFirst, Reread, Checks
  <2>4. ~SampleAgain(r)
    BY <1>1, <1>2, <1>4, <1>9, ZenonT(30) DEF SampleAgain, Checks, Round, Idle
  <2> QED
    BY <2>1, <2>2, <2>3, <2>4
<1>11. Compare(r)
  BY <1>7, <1>8, <1>10 DEF Check
<1>12. /\ ToSet(tracked) \cap noted = {} /\ Stable(chk[r]) /\ UNCHANGED window
       /\ Moves(r, [Idle EXCEPT !.at = chk[r].then])
  BY <1>2, <1>4, <1>9, <1>11 DEF Compare, Round, Idle
<1>13. chk[r].then = "given"
  BY <1>2, <1>4, <1>12 DEF Idle
<1> QED
  BY <1>2, <1>7, <1>8, <1>11, <1>12, <1>13 DEF Compare, Given

-----------------------------------------------------------------------------
(* A host's record: what has the record's count is what the store holds.      *)

\* A snapshot of the record's count is of the bytes that are there.
Stands(p) ==
  snaps[p] # None =>
    snaps[p].count <= epoch /\ (snaps[p].count = epoch => store[p] = snaps[p].content)

\* A sample of the record's count, when nothing is in doubt, is of a snapshot that is true.
Confirmed(r, p) ==
  chk[r].got[p] # None =>
    /\ chk[r].got[p].count <= epoch
    /\ chk[r].pending = <<>> /\ chk[r].got[p].count = epoch =>
         snaps[p] # None /\ store[p] = snaps[p].content

\* What a read knows of the store: its answers are not ahead of the record, what it has read under
\* the record's count is there, and what it is to give out is in the window.
Knows(r) ==
  /\ path[r] # None => before[r].count <= epoch
  /\ text[r] # None /\ before[r].count = epoch => text[r] = store[path[r]]
  /\ chk[r].at \in {"reread", "resample"} => chk[r].first.count <= epoch
  /\ chk[r].at = "resample" /\ chk[r].first.count = epoch =>
       chk[r].again = store[Head(chk[r].pending).path]
  /\ \A p \in Paths : Confirmed(r, p)
  /\ chk[r].at = "given" \/ (chk[r].at \in Checking /\ chk[r].then = "given") =>
       snaps[path[r]] # None /\ snaps[path[r]].content = text[r]

\* A round that no other read has added to leaves no snapshot out.
Covers(r) ==
  chk[r].at = "collect" /\ chk[r].rev = revision =>
    \A p \in ToSet(tracked) :
      snaps[p] = None \/ p \in ToSet(chk[r].todo) \/ chk[r].got[p] # None

Counted ==
  /\ open => store \in past
  /\ \A p \in Paths : Stands(p)
  /\ \A r \in Reads : Knows(r) /\ Covers(r)

HostInv == ReadsInv /\ InputsCoexisted /\ (~builtIn => Counted)

\* What another read adds to the window takes nothing from what a read knows.
LEMMA OthersKnow ==
  ASSUME ReadsInv, Counted, NEW r \in Reads,
         UNCHANGED <<store, epoch>>,
         revision' \in Nat, revision <= revision',
         \A p \in Paths : snaps[p] # None => snaps'[p] # None /\ snaps'[p].content = snaps[p].content,
         revision' = revision => /\ ToSet(tracked') = ToSet(tracked)
                                 /\ \A p \in Paths : snaps'[p] # None => snaps[p] # None,
         \A s \in Reads \ {r} : /\ path'[s] = path[s] /\ before'[s] = before[s]
                                /\ text'[s] = text[s] /\ chk'[s] = chk[s]
  PROVE  \A s \in Reads \ {r} : Knows(s)' /\ Covers(s)'
<1> TAKE s \in Reads \ {r}
<1>1. Knows(s) /\ Covers(s) /\ Place(s) /\ TextOf(s) /\ TypeOK
  BY DEF ReadsInv, Places, Counted
<1>2. revision \in Nat /\ chk[s].rev \in Nat /\ ToSet(tracked) \subseteq Paths
  <2>1. tracked \in Seq(Paths) /\ revision \in Nat /\ chk[s].rev \in Nat
    BY <1>1 DEF TypeOK, Checks
  <2> QED
    BY <2>1, Elements DEF ToSet
<1>3. \A p \in Paths : Confirmed(s, p)'
  BY <1>1 DEF Knows, Confirmed
<1>4. chk[s].at = "given" \/ (chk[s].at \in Checking /\ chk[s].then = "given") => path[s] \in Paths
  BY <1>1 DEF Place, TypeOK, Checking
<1>5. Knows(s)'
  BY <1>1, <1>3, <1>4 DEF Knows
<1>6. Covers(s)'
  <2> SUFFICES ASSUME chk[s].at = "collect", chk[s].rev = revision'
               PROVE  \A p \in ToSet(tracked') :
                        snaps'[p] = None \/ p \in ToSet(chk[s].todo) \/ chk[s].got[p] # None
    BY DEF Covers
  <2>1. revision' = revision
    BY <1>1, <1>2 DEF Place, Checking
  <2> QED
    BY <1>1, <1>2, <2>1 DEF Covers
<1> QED
  BY <1>5, <1>6

\* A refusal leaves nothing to be known.
LEMMA RefusalKnows ==
  ASSUME ReadsInv, Counted, NEW r \in Reads, NEW about, Refuses(r, about),
         UNCHANGED <<builtIn, files, open, path, text, before>>
  PROVE  Knows(r)' /\ Covers(r)' /\ snaps' = snaps
<1>1. chk'[r] = [Idle EXCEPT !.at = "over"] /\ snaps' = snaps
  BY DEF Refuses, Moves, ReadsInv, Places, TypeOK
<1>2. chk'[r].at = "over" /\ \A p \in Paths : chk'[r].got[p] = None
  BY <1>1 DEF Idle
<1>3. Knows(r)
  BY DEF Counted
<1> QED
  BY <1>1, <1>2, <1>3 DEF Knows, Confirmed, Covers, Checking, files

\* A new round knows what its read knows and is of everything tracked.
LEMMA RoundKnows ==
  ASSUME NEW r \in Reads, Knows(r),
         NEW n, NEW then, chk'[r] = Round(n, then, tracked', revision'),
         UNCHANGED <<store, epoch, path, text, before>>,
         then = "given" => snaps'[path[r]] # None /\ snaps'[path[r]].content = text[r]
  PROVE  Knows(r)' /\ Covers(r)'
<1>1. /\ chk'[r].at = "collect" /\ chk'[r].then = then /\ chk'[r].todo = tracked'
      /\ \A p \in Paths : chk'[r].got[p] = None
  BY DEF Round, Idle
<1> QED
  BY <1>1 DEF Knows, Confirmed, Covers, Checking

\* Sampling a path: a sample of the snapshot's count is of a snapshot that is true, or it is in doubt.
LEMMA CollectKnows ==
  ASSUME ReadsInv, Counted, ~builtIn, NEW r \in Reads, Collect(r),
         UNCHANGED <<builtIn, files, open, path, text, before>>
  PROVE  Knows(r)' /\ Covers(r)' /\ snaps' = snaps
<1> DEFINE c == chk[r]
           p == Head(c.todo)
           state == Sample(r, p)
           next == [c EXCEPT !.todo = Tail(@)]
           more == [next EXCEPT !.got[p] = state,
                      !.pending = IF Settled(p, state) THEN @
                                  ELSE Append(@, [path |-> p, was |-> snaps[p]])]
<1>1. TypeOK /\ Place(r) /\ c \in Checks /\ Knows(r) /\ Covers(r) /\ Stands(p)
  <2>1. c \in Checks /\ TypeOK
    BY DEF ReadsInv, Places, TypeOK
  <2>2. p \in Paths
    BY <2>1, HeadAndTail DEF Collect, Checks
  <2> QED
    BY <2>1, <2>2 DEF ReadsInv, Places, Counted
<1>2. c.at = "collect" /\ c.todo # <<>> /\ c.todo \in Seq(Paths)
  BY <1>1 DEF Collect, Checks
<1>3. p \in Paths /\ ToSet(c.todo) = {p} \cup ToSet(Tail(c.todo))
  BY <1>2, HeadAndTail
<1>4. CASE \E about \in SUBSET Paths : Refuses(r, about)
  BY <1>4, RefusalKnows
<1>5. CASE Moves(r, next) /\ UNCHANGED window /\ snaps[p] = None
  <2>1. /\ chk'[r] = next /\ next.at = "collect" /\ next.todo = Tail(c.todo) /\ next.then = c.then
        /\ next.got = c.got /\ next.rev = c.rev /\ next.pending = c.pending
    BY <1>1, <1>2, <1>5 DEF Moves, TypeOK, Checks
  <2> HIDE DEF next
  <2>2. Knows(r)'
    BY <1>1, <1>2, <1>5, <2>1 DEF Knows, Confirmed, window, files, Checking
  <2>3. Covers(r)'
    BY <1>1, <1>2, <1>3, <1>5, <2>1 DEF Covers, window
  <2> QED
    BY <1>5, <2>2, <2>3 DEF window
<1>6. CASE Moves(r, more) /\ UNCHANGED window /\ snaps[p] # None
  <2>1. state \in States /\ state.count <= epoch
    <3>1. State(p) \in States /\ State(p).count = epoch /\ epoch \in Nat
      BY <1>1, <1>3, StateTypes DEF State, TypeOK
    <3>2. before[r] \in States /\ before[r].count <= epoch
      BY <1>1, <1>2 DEF Place, Knows, TypeOK
    <3> QED
      BY <3>1, <3>2 DEF Sample
  <2>2. snaps[p] \in Snapshots
    BY <1>1, <1>3, <1>6 DEF TypeOK
  <2>3. /\ chk'[r] = more /\ more.at = "collect" /\ more.todo = Tail(c.todo) /\ more.then = c.then
        /\ more.rev = c.rev /\ more.got = [c.got EXCEPT ![p] = state]
        /\ more.pending = IF Settled(p, state) THEN c.pending
                          ELSE Append(c.pending, [path |-> p, was |-> snaps[p]])
    BY <1>1, <1>2, <1>6 DEF Moves, TypeOK, Checks
  <2>4. c.got \in [Paths -> States \cup {None}] /\ c.pending \in Seq([path : Paths, was : Snapshots])
    BY <1>1 DEF Checks
  <2>5. more.pending = <<>> => Settled(p, state) /\ c.pending = <<>>
    <3>1. Append(c.pending, [path |-> p, was |-> snaps[p]]) # <<>>
      <4>1. [path |-> p, was |-> snaps[p]] \in [path : Paths, was : Snapshots]
        BY <1>3, <2>2
      <4> QED
        BY <2>4, <4>1, Appended
    <3> QED
      BY <2>3, <3>1
  <2>6. more.got[p] = state /\ \A q \in Paths \ {p} : more.got[q] = c.got[q]
    BY <1>3, <2>3, <2>4
  <2>7. Settled(p, state) /\ state.count = epoch => store[p] = snaps[p].content
    BY <1>1, <1>6 DEF Settled, Stands
  <2>8. state # None
    BY <2>1, NoneAssumption
  <2> HIDE DEF more, state
  <2>9. \A q \in Paths : Confirmed(r, q)'
    <3> TAKE q \in Paths
    <3>1. CASE q = p
      BY <1>6, <2>1, <2>3, <2>5, <2>6, <2>7, <3>1 DEF Confirmed, window, files
    <3>2. CASE q # p
      BY <1>1, <1>6, <2>3, <2>5, <2>6, <3>2 DEF Knows, Confirmed, window, files
    <3> QED
      BY <3>1, <3>2
  <2>10. Knows(r)'
    BY <1>1, <1>2, <1>6, <2>3, <2>9 DEF Knows, window, files, Checking
  <2>11. Covers(r)'
    <3>1. ToSet(tracked) \subseteq Paths
      BY <1>1, Elements DEF TypeOK, ToSet
    <3> QED
      BY <1>1, <1>2, <1>3, <1>6, <2>3, <2>6, <2>8, <3>1 DEF Covers, window
  <2> QED
    BY <1>6, <2>10, <2>11 DEF window
<1> QED
  BY <1>3, <1>4, <1>5, <1>6 DEF Collect

\* Comparing the samples passes, begins a round or refuses the call.
LEMMA CompareKnows ==
  ASSUME ReadsInv, Counted, NEW r \in Reads, Compare(r),
         UNCHANGED <<builtIn, files, open, path, text, before>>
  PROVE  Knows(r)' /\ Covers(r)' /\ snaps' = snaps
<1> DEFINE c == chk[r]
<1>1. TypeOK /\ c \in Checks /\ Knows(r)
  BY DEF ReadsInv, Places, TypeOK, Counted
<1>2. c.at = "collect" /\ c.then \in {"read", "given", "over"}
  BY <1>1 DEF Compare, Checks
<1>3. CASE Refuses(r, {})
  BY <1>3, RefusalKnows
<1>4. CASE Moves(r, [Idle EXCEPT !.at = c.then]) /\ UNCHANGED window
  <2>1. chk'[r] = [Idle EXCEPT !.at = c.then]
    BY <1>1, <1>4 DEF Moves, TypeOK
  <2>2. chk'[r].at = c.then /\ \A p \in Paths : chk'[r].got[p] = None
    BY <2>1 DEF Idle
  <2> QED
    BY <1>1, <1>2, <1>4, <2>2 DEF Knows, Confirmed, Covers, Checking, files, window
<1>5. CASE Moves(r, Round(c.attempt + 1, c.then, tracked, revision)) /\ UNCHANGED window
  <2>1. chk'[r] = Round(c.attempt + 1, c.then, tracked', revision')
    BY <1>1, <1>5 DEF Moves, TypeOK, window
  <2>2. c.then = "given" => snaps'[path[r]] # None /\ snaps'[path[r]].content = text[r]
    BY <1>1, <1>2, <1>5 DEF Knows, Checking, window
  <2>3. UNCHANGED <<store, epoch, path, text, before>>
    BY DEF files
  <2> QED
    BY <1>1, <1>5, <2>1, <2>2, <2>3, RoundKnows DEF window
<1> QED
  BY <1>3, <1>4, <1>5 DEF Compare

\* On the way to reading again, the sample before the bytes has the record's count only as long as
\* they are there.
LEMMA RereadKnows ==
  ASSUME ReadsInv, Counted, NEW r \in Reads, Doubt(r) \/ SampleFirst(r) \/ Reread(r),
         UNCHANGED <<builtIn, files, open, path, text, before>>
  PROVE  Knows(r)' /\ Covers(r)' /\ snaps' = snaps
<1> DEFINE c == chk[r]
           p == Head(c.pending).path
           bytes == [c EXCEPT !.at = "bytes"]
           first == [c EXCEPT !.at = "reread", !.first = State(p)]
           again == [c EXCEPT !.at = "resample", !.again = store[p]]
<1>1. TypeOK /\ c \in Checks /\ Knows(r) /\ epoch \in Nat
  BY DEF ReadsInv, Places, TypeOK, Counted
<1>2. c.at \in {"collect", "bytes", "reread"}
  BY DEF Doubt, SampleFirst, Reread
<1>3. CASE \E about : Refuses(r, about)
  BY <1>3, RefusalKnows
<1>4. CASE Moves(r, bytes) /\ UNCHANGED window
  <2>1. /\ chk'[r] = bytes /\ bytes.at = "bytes" /\ bytes.then = c.then
        /\ bytes.got = c.got /\ bytes.pending = c.pending
    BY <1>1, <1>4 DEF Moves, TypeOK, Checks
  <2> HIDE DEF bytes
  <2> QED
    BY <1>1, <1>2, <1>4, <2>1 DEF Knows, Confirmed, Covers, window, files, Checking
<1>5. CASE Moves(r, first) /\ UNCHANGED window
  <2>1. /\ chk'[r] = first /\ first.at = "reread" /\ first.then = c.then
        /\ first.got = c.got /\ first.pending = c.pending /\ first.first.count = epoch
    BY <1>1, <1>5 DEF Moves, TypeOK, Checks, State
  <2> HIDE DEF first
  <2> QED
    BY <1>1, <1>2, <1>5, <2>1 DEF Knows, Confirmed, Covers, window, files, Checking
<1>6. CASE Moves(r, again) /\ UNCHANGED window /\ c.at = "reread"
  <2>1. /\ chk'[r] = again /\ again.at = "resample" /\ again.then = c.then
        /\ again.got = c.got /\ again.pending = c.pending /\ again.first = c.first
        /\ again.again = store[p]
    BY <1>1, <1>6 DEF Moves, TypeOK, Checks
  <2> HIDE DEF again
  <2> QED
    BY <1>1, <1>2, <1>6, <2>1 DEF Knows, Confirmed, Covers, window, files, Checking
<1> QED
  BY <1>3, <1>4, <1>5, <1>6 DEF Doubt, SampleFirst, Reread

\* A snapshot is given the record's count when its bytes were read again under that count.
LEMMA ResampleKnows ==
  ASSUME ReadsInv, Counted, NEW r \in Reads, SampleAgain(r),
         UNCHANGED <<builtIn, files, open, path, text, before>>
  PROVE  Knows(r)' /\ Covers(r)' /\ \A q \in Paths : Stands(q)'
<1> DEFINE c == chk[r]
           p == Head(c.pending).path
           was == Head(c.pending).was
           rest == [c EXCEPT !.at = "bytes", !.pending = Tail(@), !.first = None, !.again = None]
           round == Round(c.attempt + 1, c.then, tracked, revision)
<1>1. /\ TypeOK /\ c \in Checks /\ Knows(r) /\ epoch \in Nat /\ Place(r) /\ TextOf(r)
      /\ \A q \in Paths : Stands(q)
  BY DEF ReadsInv, Places, TypeOK, Counted
<1>2. c.at = "resample" /\ c.pending # <<>>
  BY <1>1 DEF SampleAgain, Place
<1>3. p \in Paths /\ was \in Snapshots
  <2>1. Head(c.pending) \in [path : Paths, was : Snapshots]
    BY <1>1, <1>2, HeadAndTail DEF Checks
  <2> QED
    BY <2>1
<1>4. CASE \E about : Refuses(r, about)
  BY <1>1, <1>4, RefusalKnows DEF Stands, files
<1>5. CASE /\ UNCHANGED <<tracked, noted, revision, refused>>
           /\ c.again = was.content
           /\ snaps' = IF c.first.count = epoch /\ snaps[p] = was
                       THEN [snaps EXCEPT ![p].count = epoch] ELSE snaps
           /\ Moves(r, IF rest.pending # <<>> THEN rest ELSE round)
  <2>1. c.first.count = epoch => store[p] = was.content
    BY <1>1, <1>2, <1>5 DEF Knows
  <2>2. \A q \in Paths : /\ Stands(q)'
                         /\ snaps[q] # None => snaps'[q] # None /\ snaps'[q].content = snaps[q].content
                         /\ snaps'[q] # None => snaps[q] # None
    <3>1. CASE snaps' = snaps
      BY <1>1, <3>1 DEF Stands, files
    <3>2. CASE c.first.count = epoch /\ snaps[p] = was /\ snaps' = [snaps EXCEPT ![p].count = epoch]
      <4>1. \A q \in Paths \ {p} : snaps'[q] = snaps[q]
        BY <1>1, <3>2 DEF TypeOK
      <4>2. snaps'[p] = [was EXCEPT !.count = epoch]
        BY <1>1, <1>3, <3>2 DEF TypeOK
      <4>3. snaps'[p] \in Snapshots /\ snaps'[p].count = epoch /\ snaps'[p].content = was.content
        BY <1>1, <1>3, <4>2 DEF Snapshots
      <4>4. snaps'[p] # None /\ was # None
        BY <1>3, <4>3, NoneAssumption
      <4> HIDE DEF p, was
      <4>5. ASSUME NEW q \in Paths, q = p PROVE Stands(q)'
        BY <1>1, <2>1, <3>2, <4>3, <4>5 DEF Stands, files
      <4>6. \A q \in Paths \ {p} : Stands(q)'
        BY <1>1, <4>1 DEF Stands, files
      <4> QED
        BY <3>2, <4>1, <4>3, <4>4, <4>5, <4>6
    <3> QED
      BY <1>5, <3>1, <3>2
  <2>3. chk'[r] = IF rest.pending # <<>> THEN rest ELSE round
    BY <1>1, <1>5 DEF Moves, TypeOK
  <2>4. c.then = "given" => snaps'[path[r]] # None /\ snaps'[path[r]].content = text[r]
    <3>1. path[r] \in Paths
      BY <1>1, <1>2 DEF Place, TypeOK
    <3> QED
      BY <1>1, <1>2, <2>2, <3>1 DEF Knows, Checking
  <2>5. CASE rest.pending # <<>>
    <3>1. rest.at = "bytes" /\ rest.then = c.then /\ rest.got = c.got
      BY <1>1 DEF Checks
    <3> HIDE DEF rest, round, p, was
    <3>2. chk'[r] = rest
      BY <2>3, <2>5
    <3>3. \A q \in Paths : Confirmed(r, q)'
      BY <1>1, <2>5, <3>1, <3>2 DEF Knows, Confirmed, files
    <3>4. Knows(r)' /\ Covers(r)'
      BY <1>1, <2>4, <3>1, <3>2, <3>3 DEF Knows, Covers, files, Checking
    <3> QED
      BY <2>2, <3>4
  <2>6. CASE rest.pending = <<>>
    <3>1. chk'[r] = Round(c.attempt + 1, c.then, tracked', revision')
      BY <1>5, <2>3, <2>6
    <3>2. UNCHANGED <<store, epoch, path, text, before>>
      BY DEF files
    <3> HIDE DEF rest, round, p, was
    <3> QED
      BY <1>1, <2>2, <2>4, <3>1, <3>2, RoundKnows
  <2> QED
    BY <2>5, <2>6
<1> QED
  BY <1>4, <1>5 DEF SampleAgain

\* What a call has been given stays what it was.
LEMMA GivenStays ==
  ASSUME ReadsInv, [Next]_vars, NEW s \in Given
  PROVE  path'[s] = path[s] /\ text'[s] = text[s] /\ builtIn' = builtIn /\ past \subseteq past'
<1>1. Places /\ TypeOK /\ s \in Reads /\ chk[s].at = "given"
  BY DEF ReadsInv, Places, Given
<1>2. path'[s] = path[s] /\ builtIn' = builtIn
  <2>1. ASSUME NEW r \in Reads, NEW p \in Paths, Begin(r, p)
        PROVE  r # s /\ path'[s] = path[s] /\ builtIn' = builtIn
    <3>1. chk[r].at = "idle"
      BY <2>1 DEF Begin, Idle
    <3> QED
      BY <1>1, <2>1, <3>1 DEF Begin, TypeOK
  <2> QED
    BY <1>1, <2>1, EnvironmentSteps DEF Next, Call, List, StoreRead, Remember, vars, reads
<1>3. text'[s] = text[s]
  <2>1. ASSUME NEW r \in Reads, StoreRead(r) PROVE text'[s] = text[s]
    BY <1>1, <2>1 DEF StoreRead, TypeOK
  <2> QED
    BY <1>1, <2>1, EnvironmentSteps DEF Next, Call, List, Begin, Remember, vars, reads
<1>4. past \subseteq past'
  <2>1. ASSUME List PROVE FALSE
    BY <1>1, <2>1 DEF List, Places, Place
  <2>2. ASSUME Environment PROVE past \subseteq past'
    BY <2>2 DEF Environment, Land, Unlink, Forget, Record, Holds
  <2> QED
    BY <2>1, <2>2 DEF Next, Call, Begin, StoreRead, Remember, vars, files
<1> QED
  BY <1>2, <1>3, <1>4

\* A host's record counts what happens to the store: whatever is known has an older count then.
LEMMA CountedInEnvironment ==
  ASSUME ReadsInv, Counted, ~builtIn, Environment
  PROVE  Counted'
<1>1. TypeOK /\ UNCHANGED <<open, tracked, snaps, revision, reads>> /\ epoch \in Nat
  BY EnvironmentSteps DEF ReadsInv, Places, TypeOK
<1>2. epoch' = epoch + 1 /\ past' = IF open THEN past \cup {store'} ELSE past
  BY DEF Environment, Land, Unlink, Forget, Record, Holds
<1>3. ASSUME NEW p \in Paths PROVE Stands(p)'
  <2>1. snaps[p] # None => snaps[p].count <= epoch /\ snaps[p].count \in Nat
    BY <1>1 DEF Counted, Stands, TypeOK, Snapshots
  <2> QED
    BY <1>1, <1>2, <2>1 DEF Stands
<1>4. ASSUME NEW r \in Reads PROVE Knows(r)' /\ Covers(r)'
  <2>1. Knows(r) /\ Covers(r) /\ Place(r) /\ TextOf(r) /\ chk[r] \in Checks
    BY <1>1 DEF Counted, ReadsInv, Places, TypeOK
  <2>2. ASSUME NEW p \in Paths PROVE Confirmed(r, p)'
    <3>1. chk[r].got[p] # None => chk[r].got[p].count <= epoch /\ chk[r].got[p].count \in Nat
      BY <2>1 DEF Knows, Confirmed, Checks, States
    <3> QED
      BY <1>1, <1>2, <3>1 DEF Confirmed, reads
  <2>3. path[r] # None => before[r].count <= epoch /\ before[r].count \in Nat
    BY <1>1, <2>1 DEF Knows, Place, TypeOK, States
  <2>4. chk[r].at \in {"reread", "resample"} => chk[r].first.count <= epoch /\ chk[r].first.count \in Nat
    BY <2>1 DEF Knows, Place, Checks, States
  <2>5. Knows(r)'
    BY <1>1, <1>2, <2>1, <2>2, <2>3, <2>4 DEF Knows, TextOf, reads
  <2>6. Covers(r)'
    BY <1>1, <2>1 DEF Covers, reads
  <2> QED
    BY <2>5, <2>6
<1>5. (open => store \in past)'
  BY <1>1, <1>2
<1> QED
  BY <1>3, <1>4, <1>5 DEF Counted

\* The steps of the call keep what is counted.
LEMMA CountedInCall ==
  ASSUME ReadsInv, ReadsInv', Counted, ~builtIn, Call
  PROVE  Counted'
<1>1. Places /\ TypeOK /\ TypeOK' /\ (\A r \in Reads : Place(r) /\ TextOf(r) /\ Knows(r) /\ Covers(r))
      /\ revision \in Nat /\ revision' \in Nat /\ epoch \in Nat
  BY DEF ReadsInv, Places, Counted, TypeOK
<1>2. CASE List
  <2>1. ~open /\ past' = {store} /\ UNCHANGED <<store, epoch, tracked, snaps, reads>>
    BY <1>2 DEF List
  <2>2. ASSUME NEW r \in Reads PROVE Knows(r)' /\ Covers(r)'
    BY <1>1, <2>1 DEF Knows, Confirmed, Covers, Place, reads, Checking
  <2>3. ASSUME NEW p \in Paths PROVE Stands(p)'
    BY <2>1 DEF Counted, Stands
  <2> QED
    BY <2>1, <2>2, <2>3 DEF Counted
<1>3. CASE \E r \in Reads : \E p \in Paths : Begin(r, p)
  <2> PICK r \in Reads, p \in Paths : Begin(r, p)
    BY <1>3
  <2>1. /\ \A s \in Reads \ {r} : path'[s] = path[s] /\ before'[s] = before[s] /\ chk'[s] = chk[s]
        /\ ToSet(tracked') = ToSet(tracked) \cup {p} /\ revision' \in {revision, revision + 1}
        /\ path'[r] = p /\ before'[r] = State(p)
        /\ chk'[r] \in {[Idle EXCEPT !.at = "over"], Round(0, "read", tracked', revision')}
    BY <1>1, BeginPlaced
  <2>2. path[r] = None /\ UNCHANGED <<builtIn, files, open, snaps, noted, text>>
    BY DEF Begin
  <2>3. UNCHANGED <<store, epoch, past>>
    BY <2>2 DEF files
  <2>4. revision' = revision => ToSet(tracked') = ToSet(tracked)
    BY <1>1, <2>1 DEF Begin
  <2>5. revision <= revision'
    BY <1>1, <2>1
  <2>6. \A s \in Reads \ {r} : Knows(s)' /\ Covers(s)'
    BY <1>1, <2>1, <2>2, <2>3, <2>4, <2>5, OthersKnow
  <2>7. text'[r] = None /\ before'[r].count = epoch
    BY <1>1, <2>1, <2>2 DEF TextOf, State
  <2>8. /\ chk'[r].at \in {"over", "collect"} /\ \A q \in Paths : chk'[r].got[q] = None
        /\ chk'[r].at = "collect" => chk'[r].then = "read" /\ chk'[r].todo = tracked'
    <3>1. CASE chk'[r] = [Idle EXCEPT !.at = "over"]
      BY <3>1 DEF Idle
    <3>2. CASE chk'[r] = Round(0, "read", tracked', revision')
      BY <3>2 DEF Round, Idle
    <3> QED
      BY <2>1, <3>1, <3>2
  <2>9. Knows(r)' /\ Covers(r)'
    BY <1>1, <2>3, <2>7, <2>8 DEF Knows, Confirmed, Covers, Checking
  <2> QED
    BY <2>2, <2>3, <2>6, <2>9 DEF Counted, Stands
<1>4. CASE \E r \in Reads : StoreRead(r)
  <2> PICK r \in Reads : StoreRead(r)
    BY <1>4
  <2>1. /\ path[r] \in Paths
        /\ \A s \in Reads \ {r} : text'[s] = text[s] /\ chk'[s] = chk[s]
        /\ \/ text'[r] = store[path[r]] /\ chk'[r] = [Idle EXCEPT !.at = "keep"]
           \/ text'[r] = text[r] /\ chk'[r] = Round(0, "over", tracked, revision)
    BY <1>1, StoreReadPlaced
  <2>2. UNCHANGED <<builtIn, store, epoch, past, open, tracked, snaps, revision, path, before>>
    BY DEF StoreRead, files, window
  <2>3. \A s \in Reads \ {r} : Knows(s)' /\ Covers(s)'
    BY <1>1, <2>1, <2>2, OthersKnow
  <2>4. /\ chk'[r].at \in {"keep", "collect"} /\ \A q \in Paths : chk'[r].got[q] = None
        /\ chk'[r].at = "collect" => chk'[r].then = "over" /\ chk'[r].todo = tracked
    <3>1. CASE chk'[r] = [Idle EXCEPT !.at = "keep"]
      BY <3>1 DEF Idle
    <3>2. CASE chk'[r] = Round(0, "over", tracked, revision)
      BY <3>2 DEF Round, Idle
    <3> QED
      BY <2>1, <3>1, <3>2
  <2>5. Knows(r)' /\ Covers(r)'
    BY <1>1, <2>1, <2>2, <2>4 DEF Knows, Confirmed, Covers, Checking
  <2> QED
    BY <2>2, <2>3, <2>5 DEF Counted, Stands
<1>5. CASE \E r \in Reads : Remember(r)
  <2> PICK r \in Reads : Remember(r)
    BY <1>5
  <2>1. text[r] # None
    BY <1>1 DEF Remember, TextOf, HasRead
  <2>2. UNCHANGED <<builtIn, store, epoch, past, open, tracked, path, text, before>>
    BY DEF Remember, files, Refuses, window
  <2>3. CASE Refuses(r, {path[r]})
    <3>1. Knows(r)' /\ Covers(r)' /\ snaps' = snaps
      BY <2>3, RefusalKnows DEF Remember
    <3>2. UNCHANGED <<revision, snaps>> /\ \A s \in Reads \ {r} : chk'[s] = chk[s]
      BY <1>1, <2>3 DEF Refuses, Moves, TypeOK
    <3>3. \A s \in Reads \ {r} : Knows(s)' /\ Covers(s)'
      BY <1>1, <2>2, <3>2, OthersKnow
    <3> QED
      BY <2>2, <3>1, <3>3 DEF Counted, Stands
  <2>4. CASE /\ chk'[r] = Round(0, "given", tracked', revision')
             /\ \/ /\ snaps[path[r]] = None /\ revision' = revision + 1 /\ snaps'[path[r]] # None
                   /\ snaps' = [snaps EXCEPT ![path[r]] = [content |-> text[r],
                                    integrity |-> before[r].integrity, count |-> before[r].count]]
                \/ /\ snaps[path[r]] # None /\ snaps[path[r]].content = text[r]
                   /\ UNCHANGED <<snaps, revision>>
    <3>1. path[r] \in Paths /\ \A s \in Reads \ {r} : chk'[s] = chk[s]
      BY <1>1, <2>1, RememberPlaced
    <3>2. /\ snaps'[path[r]] # None /\ snaps'[path[r]].content = text[r]
          /\ \A q \in Paths : snaps[q] # None => snaps'[q] = snaps[q]
          /\ revision' = revision => snaps' = snaps
          /\ revision <= revision'
      BY <1>1, <2>4, <3>1 DEF TypeOK
    <3>3. \A q \in Paths : q # path[r] => snaps'[q] = snaps[q]
      BY <1>1, <2>4, <3>1 DEF TypeOK
    <3>4. ASSUME NEW q \in Paths PROVE Stands(q)'
      <4>1. CASE q = path[r] /\ snaps[q] = None
        <5>1. snaps'[q] = [content |-> text[r], integrity |-> before[r].integrity,
                           count |-> before[r].count]
          BY <1>1, <2>4, <4>1 DEF TypeOK
        <5>2. before[r].count <= epoch /\ (before[r].count = epoch => text[r] = store[path[r]])
          BY <1>1, <2>1, <3>1, NoneAssumption DEF Knows
        <5> QED
          BY <2>2, <4>1, <5>1, <5>2 DEF Stands
      <4>2. CASE snaps'[q] = snaps[q]
        BY <2>2, <4>2 DEF Stands, Counted
      <4> QED
        BY <3>2, <3>3, <4>1, <4>2
    <3>5. Knows(r)' /\ Covers(r)'
      BY <1>1, <2>2, <2>4, <3>2, RoundKnows
    <3>6. \A s \in Reads \ {r} : Knows(s)' /\ Covers(s)'
      BY <1>1, <2>2, <3>1, <3>2, OthersKnow
    <3> QED
      BY <2>2, <3>4, <3>5, <3>6 DEF Counted
  <2> QED
    BY <1>1, <2>1, <2>3, <2>4, RememberPlaced
<1>6. CASE \E r \in Reads : Check(r) /\ UNCHANGED <<builtIn, files, open, path, text, before>>
  <2> PICK r \in Reads : Check(r) /\ UNCHANGED <<builtIn, files, open, path, text, before>>
    BY <1>6
  <2>1. /\ \A s \in Reads \ {r} : chk'[s] = chk[s]
        /\ UNCHANGED <<tracked, revision>>
        /\ \A p \in Paths : /\ snaps'[p] = None <=> snaps[p] = None
                            /\ snaps[p] # None => snaps'[p].content = snaps[p].content
    BY <1>1, CheckSteps
  <2>2. UNCHANGED <<store, epoch, past>>
    BY DEF files
  <2>3. \A s \in Reads \ {r} : Knows(s)' /\ Covers(s)'
    BY <1>1, <2>1, <2>2, OthersKnow
  <2>4. Knows(r)' /\ Covers(r)' /\ \A p \in Paths : Stands(p)'
    <3>1. CASE SampleAgain(r)
      BY <3>1, ResampleKnows
    <3>2. CASE Collect(r) \/ Doubt(r) \/ Compare(r) \/ SampleFirst(r) \/ Reread(r)
      <4>1. Knows(r)' /\ Covers(r)' /\ snaps' = snaps
        BY <3>2, CollectKnows, CompareKnows, RereadKnows
      <4> QED
        BY <2>2, <4>1 DEF Counted, Stands
    <3> QED
      BY <3>1, <3>2 DEF Check
  <2> QED
    BY <2>2, <2>3, <2>4 DEF Counted
<1> QED
  BY <1>2, <1>3, <1>4, <1>5, <1>6 DEF Call

\* With a host's record what the call is given is in the store together whenever a read is handed
\* over: every input has a sample of the record's count, and no snapshot was left out.
LEMMA HostStep == HostInv /\ [Next]_vars => HostInv'
<1> SUFFICES ASSUME HostInv, [Next]_vars PROVE HostInv'
  OBVIOUS
<1>1. ReadsInv /\ ReadsInv' /\ InputsCoexisted
  BY ReadsStep DEF HostInv
<1>2. Places /\ TypeOK /\ \A r \in Reads : Place(r)
  BY <1>1 DEF ReadsInv, Places
<1>3. builtIn' = builtIn
  BY <1>2, EnvironmentSteps DEF Next, Call, List, Begin, StoreRead, Remember, vars
<1>4. ~builtIn' => Counted'
  <2> SUFFICES ASSUME ~builtIn, Counted PROVE Counted'
    BY <1>3 DEF HostInv
  <2>1. CASE UNCHANGED vars
    BY <2>1 DEF Counted, Stands, Knows, Confirmed, Covers, vars, files, window, reads
  <2> QED
    BY <1>1, <2>1, CountedInEnvironment, CountedInCall DEF Next
<1>5. InputsCoexisted'
  <2> SUFFICES ASSUME ~builtIn, Given' # {}
               PROVE  \E h \in past' : \A r \in Given' : h[path'[r]] = text'[r]
    BY <1>3 DEF InputsCoexisted
  <2>1. CASE Given' \subseteq Given
    <3>1. PICK h \in past : \A r \in Given : h[path[r]] = text[r]
      BY <1>1, <2>1 DEF InputsCoexisted
    <3>2. \A r \in Given : path'[r] = path[r] /\ text'[r] = text[r] /\ past \subseteq past'
      BY <1>1, GivenStays
    <3> QED
      BY <2>1, <3>1, <3>2
  <2>2. ASSUME NEW r \in Given' \ Given PROVE \A s \in Given' : store[path[s]] = text[s]
    <3>1. /\ chk[r].then = "given" /\ Stable(chk[r]) /\ chk[r].pending = <<>> /\ chk[r].todo = <<>>
          /\ chk[r].at = "collect" /\ \A s \in Given' : s # r => s \in Given
      BY <1>1, HandedOver
    <3>2. Counted /\ r \in Reads
      BY DEF HostInv, Given
    <3> TAKE s \in Given'
    <3>3. s \in Reads /\ (chk[s].at = "given" \/ (chk[s].at \in Checking /\ chk[s].then = "given"))
      BY <3>1 DEF Given, Checking
    <3>4. snaps[path[s]] # None /\ snaps[path[s]].content = text[s]
      BY <3>2, <3>3 DEF Counted, Knows
    <3>5. path[s] \in Paths /\ path[s] \in ToSet(tracked)
      BY <1>2, <3>3 DEF Place, TypeOK, Checking
    <3>6. chk[r].got[path[s]] # None
      BY <3>1, <3>2, <3>4, <3>5, EmptySet DEF Counted, Covers, Stable
    <3>7. chk[r].got[path[s]].count = epoch
      <4>1. path[s] \in Sampled(chk[r])
        BY <3>5, <3>6 DEF Sampled
      <4>2. State(path[s]) = chk[r].got[path[s]]
        BY <3>1, <4>1 DEF Stable
      <4> QED
        BY <4>2 DEF State
    <3> QED
      BY <3>1, <3>2, <3>4, <3>5, <3>6, <3>7 DEF Counted, Knows, Confirmed
  <2>3. ASSUME NEW r \in Given' \ Given PROVE \A s \in Given' : store[path'[s]] = text'[s]
    <3>1. UNCHANGED <<path, text>>
      BY <1>1, <2>3, HandedOver
    <3> QED
      BY <2>2, <2>3, <3>1
  <2>4. ASSUME NEW r \in Given' \ Given PROVE store \in past'
    <3>1. open /\ past' = past
      BY <1>1, <1>2, <2>4, HandedOver DEF Place, Given, files
    <3> QED
      BY <3>1 DEF HostInv, Counted
  <2> QED
    BY <2>1, <2>3, <2>4
<1> QED
  BY <1>1, <1>4, <1>5 DEF HostInv

-----------------------------------------------------------------------------
(* This package's record: what may refuse a call.                            *)

\* The window is told of every change of an answer: an answer is what it was as long as its path is
\* not noted, and nothing is ever in doubt.
Told(r) ==
  /\ chk[r].pending = <<>> /\ chk[r].at \notin {"bytes", "reread", "resample"}
  /\ path[r] # None /\ path[r] \notin noted => before[r] = State(path[r])
  /\ \A p \in Paths : chk[r].at # "idle" /\ chk[r].got[p] # None /\ p \notin noted =>
                        chk[r].got[p] = State(p)

\* How often a read may still add an input: its path, and its snapshot.
Left(s) ==
  IF path[s] = None THEN 2
  ELSE IF chk[s].at \in {"read", "keep"} \/ (chk[s].at \in Checking /\ chk[s].then = "read")
    THEN 1 ELSE 0

Moved(r) == IF chk[r].rev # revision THEN 1 ELSE 0

\* A round is lost for an input that was added under it, so a check of one of two reads has as many
\* rounds left as the other read has inputs.
RoundsLast(r) ==
  chk[r].at = "collect" =>
    /\ Begun \subseteq {r} => chk[r].attempt = 0 /\ chk[r].rev = revision
    /\ \A s \in Reads \ {r} : Begun \subseteq {r, s} => chk[r].attempt + Left(s) + Moved(r) <= 2

RefusalInv ==
  ReadsInv /\ OnlyInputsRefuse /\ (builtIn => \A r \in Reads : Told(r) /\ RoundsLast(r))

\* What has begun, but for a read that begins.
LEMMA BegunKept ==
  ASSUME UNCHANGED path
  PROVE  Begun' = Begun
BY DEF Begun

\* A step of another read takes from that read's additions what it adds to the call.
LEMMA OthersRounds ==
  ASSUME ReadsInv, NEW r \in Reads, \A s \in Reads : Told(s) /\ RoundsLast(s),
         revision \in Nat, revision' \in {revision, revision + 1},
         path'[r] # None, Left(r)' + (revision' - revision) <= Left(r),
         \A p \in Paths : p \notin noted' => p \notin noted /\ State(p)' = State(p),
         \A s \in Reads \ {r} : /\ path'[s] = path[s] /\ before'[s] = before[s]
                                /\ chk'[s] = chk[s]
  PROVE  \A s \in Reads \ {r} : Told(s)' /\ RoundsLast(s)'
<1> TAKE s \in Reads \ {r}
<1>1. Told(s) /\ RoundsLast(s) /\ chk[s] \in Checks /\ Place(s) /\ path \in [Reads -> Paths \cup {None}]
  BY DEF ReadsInv, Places, TypeOK
<1>2. Told(s)'
  BY <1>1 DEF Told
<1>3. RoundsLast(s)'
  <2> SUFFICES ASSUME chk[s].at = "collect", NEW t \in Reads, t # s, (Begun \subseteq {s, t})'
               PROVE  chk[s].attempt + Left(t)' + Moved(s)' <= 2
    <3>1. ~ (Begun \subseteq {s})'
      BY DEF Begun
    <3>2. Moved(s)' = IF chk[s].rev # revision' THEN 1 ELSE 0
      BY DEF Moved
    <3> QED
      BY <3>1 DEF RoundsLast
  <2>1. t = r
    BY DEF Begun
  <2>2. Begun \subseteq {s, r}
    BY <1>1, <2>1 DEF Begun
  <2>3. chk[s].attempt + Left(r) + Moved(s) <= 2
    BY <1>1, <2>2 DEF RoundsLast
  <2>4. chk[s].rev \in Nat /\ chk[s].attempt \in Nat /\ Left(r) \in Nat /\ Left(r)' \in Nat
        /\ chk[s].rev <= revision
    BY <1>1 DEF Checks, Left, Place, Checking
  <2>5. Moved(s) = (IF chk[s].rev # revision THEN 1 ELSE 0)
        /\ Moved(s)' = IF chk[s].rev # revision' THEN 1 ELSE 0
    BY DEF Moved
  <2>6. CASE revision' = revision
    BY <2>1, <2>3, <2>4, <2>5, <2>6
  <2>7. CASE revision' = revision + 1
    <3>1. Left(r)' + 1 <= Left(r)
      BY <2>7
    <3> QED
      BY <2>1, <2>3, <2>4, <2>5, <3>1
  <2> QED
    BY <2>6, <2>7
<1> QED
  BY <1>2, <1>3

\* A check that has just begun has its rounds before it.
LEMMA FreshRounds ==
  ASSUME NEW r \in Reads, NEW then, chk'[r] = Round(0, then, tracked', revision'),
         path'[r] # None, path'[r] \notin noted' => before'[r] = State(path[r])'
  PROVE  Told(r)' /\ RoundsLast(r)'
<1>1. /\ chk'[r].at = "collect" /\ chk'[r].attempt = 0 /\ chk'[r].rev = revision'
      /\ chk'[r].pending = <<>> /\ \A p \in Paths : chk'[r].got[p] = None
  BY DEF Round, Idle
<1>2. Told(r)'
  BY <1>1 DEF Told
<1>3. \A s \in Reads : Left(s)' \in 0..2
  BY DEF Left
<1>4. Moved(r)' = 0
  BY <1>1 DEF Moved
<1> QED
  BY <1>1, <1>2, <1>3, <1>4 DEF RoundsLast

\* A check of this package's record: a sample is what the record still answers, so that only an
\* input that was added costs it a round, and what refuses the call is noted.
LEMMA CheckRounds ==
  ASSUME ReadsInv, ReadsInv', builtIn, ~refused, NEW r \in Reads, Check(r),
         \A s \in Reads : Told(s) /\ RoundsLast(s),
         UNCHANGED <<builtIn, files, open, path, text, before>>
  PROVE  Told(r)' /\ RoundsLast(r)' /\ OnlyInputsRefuse'
<1> DEFINE c == chk[r]
<1>1. /\ TypeOK /\ Place(r) /\ c \in Checks /\ Told(r) /\ RoundsLast(r)
      /\ revision \in Nat /\ revision' = revision /\ tracked' = tracked /\ noted \subseteq noted'
  BY CheckSteps DEF ReadsInv, Places, TypeOK
<1>2. \A p \in Paths : State(p)' = State(p)
  BY DEF State, Integrity, files
<1>3. path[r] # None /\ path[r] \in Paths /\ c.at = "collect"
  BY <1>1, CheckSteps DEF ReadsInv, Places, Place, TypeOK, Told, Checking
<1>4. Begun' = Begun /\ r \in Begun
  BY <1>3, BegunKept DEF Begun
<1>5. ASSUME NEW about, Refuses(r, about),
             noted' \cap ToSet(tracked) # {} \/ ~ \E a, b \in Reads : Begun \subseteq {a, b}
      PROVE  Told(r)' /\ RoundsLast(r)' /\ OnlyInputsRefuse'
  <2>1. chk'[r] = [Idle EXCEPT !.at = "over"]
    BY <1>1, <1>5 DEF Refuses, Moves, TypeOK
  <2>2. /\ chk'[r].at = "over" /\ chk'[r].pending = <<>> /\ \A p \in Paths : chk'[r].got[p] = None
    BY <2>1 DEF Idle
  <2>3. Told(r)' /\ RoundsLast(r)'
    BY <1>1, <1>2, <1>3, <2>2 DEF Told, RoundsLast
  <2> QED
    BY <1>1, <1>4, <1>5, <2>3 DEF OnlyInputsRefuse
<1>6. ASSUME refused' = refused PROVE OnlyInputsRefuse'
  BY <1>6 DEF OnlyInputsRefuse
<1>7. CASE Collect(r)
  <2> DEFINE p == Head(c.todo)
             state == Sample(r, p)
             next == [c EXCEPT !.todo = Tail(@)]
             more == [next EXCEPT !.got[p] = state,
                        !.pending = IF Settled(p, state) THEN @
                                    ELSE Append(@, [path |-> p, was |-> snaps[p]])]
  <2>1. c.todo # <<>> /\ c.todo \in Seq(Paths)
    BY <1>1, <1>7 DEF Collect, Checks
  <2>2. p \in Paths /\ p \in ToSet(tracked)
    BY <1>1, <2>1, HeadAndTail DEF Place
  <2>3. CASE p \in noted /\ Refuses(r, {})
    BY <1>1, <1>5, <2>2, <2>3
  <2>4. CASE Refuses(r, {p})
    <3>1. p \in noted'
      BY <2>4 DEF Refuses
    <3> QED
      BY <1>5, <2>2, <2>4, <3>1
  <2>5. CASE Moves(r, next) /\ UNCHANGED window
    <3>1. /\ chk'[r] = next /\ next.at = c.at /\ next.attempt = c.attempt /\ next.rev = c.rev
          /\ next.pending = c.pending /\ next.got = c.got /\ next.then = c.then
      BY <1>1, <2>5 DEF Moves, TypeOK, Checks
    <3> HIDE DEF next
    <3>2. Told(r)'
      BY <1>1, <1>2, <1>3, <2>5, <3>1 DEF Told, window
    <3>3. RoundsLast(r)'
      <4>1. ASSUME NEW s \in Reads \ {r} PROVE Left(s)' = Left(s)
        BY CheckSteps DEF Left, ReadsInv
      <4>2. Moved(r)' = Moved(r)
        BY <1>1, <3>1 DEF Moved
      <4> QED
        BY <1>1, <1>3, <1>4, <3>1, <4>1, <4>2 DEF RoundsLast
    <3> QED
      BY <1>6, <2>5, <3>2, <3>3 DEF window
  <2>6. CASE Moves(r, more) /\ UNCHANGED window /\ p \notin noted
    <3>1. Settled(p, state)
      BY DEF Settled
    <3>2. /\ chk'[r] = more /\ more.at = c.at /\ more.attempt = c.attempt /\ more.rev = c.rev
          /\ more.pending = c.pending /\ more.then = c.then /\ more.got = [c.got EXCEPT ![p] = state]
      BY <1>1, <2>6, <3>1 DEF Moves, TypeOK, Checks
    <3>3. state = State(p)
      BY <1>1, <1>3, <2>6 DEF Sample, Told
    <3>4. more.got[p] = State(p) /\ \A q \in Paths \ {p} : more.got[q] = c.got[q]
      BY <1>1, <2>2, <3>2, <3>3 DEF Checks
    <3> HIDE DEF more
    <3>5. Told(r)'
      BY <1>1, <1>2, <1>3, <2>6, <3>2, <3>4 DEF Told, window
    <3>6. RoundsLast(r)'
      <4>1. ASSUME NEW s \in Reads \ {r} PROVE Left(s)' = Left(s)
        BY CheckSteps DEF Left, ReadsInv
      <4>2. Moved(r)' = Moved(r)
        BY <1>1, <3>2 DEF Moved
      <4> QED
        BY <1>1, <1>3, <1>4, <3>2, <4>1, <4>2 DEF RoundsLast
    <3> QED
      BY <1>6, <2>6, <3>5, <3>6 DEF window
  <2> QED
    BY <1>7, <2>3, <2>4, <2>5, <2>6 DEF Collect
<1>8. CASE Compare(r)
  <2>1. c.todo = <<>> /\ c.attempt \in 0..2 /\ c.then \in {"read", "given", "over"}
    BY <1>1, <1>8 DEF Compare, Checks
  <2>2. CASE \E p \in ToSet(tracked) : p \in noted /\ Refuses(r, {})
    BY <1>1, <1>5, <2>2
  <2>3. CASE Moves(r, [Idle EXCEPT !.at = c.then]) /\ UNCHANGED window
    <3>1. chk'[r] = [Idle EXCEPT !.at = c.then]
      BY <1>1, <2>3 DEF Moves, TypeOK
    <3>2. /\ chk'[r].at = c.then /\ chk'[r].pending = <<>> /\ \A p \in Paths : chk'[r].got[p] = None
      BY <3>1 DEF Idle
    <3>3. Told(r)' /\ RoundsLast(r)'
      BY <1>1, <1>2, <1>3, <2>1, <2>3, <3>2 DEF Told, RoundsLast, window
    <3> QED
      BY <1>6, <2>3, <3>3 DEF window
  <2>4. ASSUME ToSet(tracked) \cap noted = {}, ~Stable(c) PROVE Moved(r) = 1
    <3>1. ASSUME NEW p \in Sampled(c) PROVE State(p) = c.got[p]
      <4>1. p \in Paths /\ c.got[p] # None /\ p \in ToSet(tracked)
        BY <1>1 DEF Sampled, Place
      <4> QED
        BY <1>1, <1>3, <2>4, <4>1 DEF Told
    <3> QED
      BY <2>4, <3>1 DEF Stable, Moved
  <2>5. ASSUME NEW s \in Reads \ {r}, Begun \subseteq {r, s}, Moved(r) = 1
        PROVE  c.attempt + Left(s) <= 1
    <3>1. c.attempt + Left(s) + Moved(r) <= 2 /\ Left(s) \in Nat
      BY <1>1, <1>3, <2>5 DEF RoundsLast, Left
    <3> QED
      BY <2>1, <2>5, <3>1
  <2>6. CASE /\ ToSet(tracked) \cap noted = {} /\ ~Stable(c) /\ c.attempt = 2 /\ Refuses(r, {})
    <3>1. ASSUME NEW a \in Reads, NEW b \in Reads, Begun \subseteq {a, b} PROVE FALSE
      <4>1. PICK s \in {a, b} : Begun \subseteq {r, s}
        BY <1>4, <3>1
      <4>2. CASE s = r
        <5>1. c.rev = revision
          BY <1>1, <1>3, <4>1, <4>2 DEF RoundsLast
        <5> QED
          BY <2>4, <2>6, <5>1 DEF Moved
      <4>3. CASE s # r
        <5>1. c.attempt + Left(s) <= 1 /\ Left(s) \in Nat
          BY <2>4, <2>5, <2>6, <4>1, <4>3 DEF Left
        <5> QED
          BY <2>6, <5>1
      <4> QED
        BY <4>2, <4>3
    <3> QED
      BY <1>5, <2>6, <3>1
  <2>7. CASE /\ ToSet(tracked) \cap noted = {} /\ ~Stable(c) /\ c.attempt < 2
             /\ Moves(r, Round(c.attempt + 1, c.then, tracked, revision)) /\ UNCHANGED window
    <3>1. chk'[r] = Round(c.attempt + 1, c.then, tracked, revision)
      BY <1>1, <2>7 DEF Moves, TypeOK
    <3>2. /\ chk'[r].at = "collect" /\ chk'[r].attempt = c.attempt + 1 /\ chk'[r].rev = revision'
          /\ chk'[r].pending = <<>> /\ \A p \in Paths : chk'[r].got[p] = None
      BY <1>1, <3>1 DEF Round, Idle
    <3>3. Told(r)'
      BY <1>1, <1>2, <1>3, <2>7, <3>2 DEF Told, window
    <3>4. Moved(r) = 1 /\ Moved(r)' = 0
      BY <2>4, <2>7, <3>2 DEF Moved
    <3>5. ~ (Begun \subseteq {r})
      BY <1>1, <1>3, <3>4 DEF RoundsLast, Moved
    <3>6. ASSUME NEW s \in Reads \ {r}, Begun \subseteq {r, s}
          PROVE  chk'[r].attempt + Left(s)' + Moved(r)' <= 2
      <4>1. Left(s)' = Left(s) /\ Left(s) \in Nat
        BY CheckSteps DEF Left, ReadsInv
      <4> QED
        BY <2>1, <2>5, <3>2, <3>4, <3>6, <4>1
    <3>7. RoundsLast(r)'
      BY <1>4, <3>5, <3>6 DEF RoundsLast
    <3> QED
      BY <1>6, <2>7, <3>3, <3>7 DEF window
  <2> QED
    BY <1>8, <2>2, <2>3, <2>6, <2>7 DEF Compare
<1>9. ~Doubt(r) /\ ~SampleFirst(r) /\ ~Reread(r) /\ ~SampleAgain(r)
  BY <1>1, <1>3 DEF Doubt, SampleFirst, Reread, SampleAgain, Told
<1> QED
  BY <1>7, <1>8, <1>9 DEF Check

\* What happens to the store and its record is told to the open window, and moves no read.
LEMMA RefusalInEnvironment ==
  ASSUME ReadsInv, builtIn, Environment, \A s \in Reads : Told(s) /\ RoundsLast(s)
  PROVE  \A s \in Reads : Told(s)' /\ RoundsLast(s)'
<1>1. TypeOK /\ \A s \in Reads : Place(s) /\ chk[s] \in Checks
  BY DEF ReadsInv, Places, TypeOK
<1>2. UNCHANGED <<builtIn, open, tracked, snaps, revision, refused, path, text, before, chk>>
  BY <1>1, EnvironmentSteps DEF reads
<1>3. epoch' = epoch
  BY DEF Environment, Land, Unlink, Holds, Forget, Record
<1>4. open => \A p \in Paths : p \notin noted' => p \notin noted /\ State(p)' = State(p)
  <2> SUFFICES ASSUME open, NEW p \in Paths, p \notin noted'
               PROVE  p \notin noted /\ (p \in entries' <=> p \in entries)
    BY <1>2, <1>3 DEF State, Integrity
  <2>1. ASSUME NEW q \in Paths, Land(q) \/ Unlink(q) PROVE UNCHANGED <<noted, entries>>
    BY <2>1 DEF Land, Unlink, window
  <2>2. ASSUME NEW q \in Paths, Forget(q) \/ \E landed : Record(q, landed)
        PROVE  noted' = noted \cup {q} /\ (entries' = entries \cup {q} \/ entries' = entries \ {q})
    BY <2>2 DEF Forget, Record, Noted
  <2>3. CASE UNCHANGED <<noted, entries>>
    BY <2>3
  <2>4. CASE \E q \in Paths : /\ noted' = noted \cup {q}
                              /\ entries' = entries \cup {q} \/ entries' = entries \ {q}
    BY <2>4
  <2> QED
    BY <2>1, <2>2, <2>3, <2>4 DEF Environment
<1> TAKE s \in Reads
<1>5. Told(s)'
  <2>1. path[s] # None => open /\ path[s] \in Paths
    BY <1>1 DEF Place, TypeOK
  <2>2. chk[s].at # "idle" => open
    BY <1>1, <2>1 DEF Place
  <2> QED
    BY <1>2, <1>4, <2>1, <2>2 DEF Told
<1>6. RoundsLast(s)'
  <2>1. Begun' = Begun /\ \A t \in Reads : Left(t)' = Left(t) /\ Moved(t)' = Moved(t)
    BY <1>2, BegunKept DEF Left, Moved
  <2> QED
    BY <1>2, <2>1 DEF RoundsLast
<1> QED
  BY <1>5, <1>6

\* A step of the call refuses it for an input, or leaves every check the rounds it needs.
LEMMA RefusalInCall ==
  ASSUME ReadsInv, ReadsInv', builtIn, ~refused, Call, \A s \in Reads : Told(s) /\ RoundsLast(s)
  PROVE  OnlyInputsRefuse' /\ \A s \in Reads : Told(s)' /\ RoundsLast(s)'
<1>1. Places /\ TypeOK /\ \A s \in Reads : Place(s) /\ TextOf(s) /\ chk[s] \in Checks
  BY DEF ReadsInv, Places, TypeOK
<1>2. revision \in Nat
  BY <1>1 DEF TypeOK
<1>3. ASSUME UNCHANGED refused PROVE OnlyInputsRefuse'
  BY <1>3 DEF OnlyInputsRefuse
<1>4. CASE List
  <2>1. ~open /\ UNCHANGED <<refused, path, before, chk>>
    BY <1>4 DEF List, reads
  <2>2. \A s \in Reads : path[s] = None /\ chk[s].at = "idle"
    BY <1>1, <2>1 DEF Place
  <2>3. \A s \in Reads : Told(s)' /\ RoundsLast(s)'
    BY <2>1, <2>2 DEF Told, RoundsLast
  <2> QED
    BY <1>3, <2>1, <2>3
<1>5. ASSUME UNCHANGED <<builtIn, files>> PROVE \A p \in Paths : State(p)' = State(p)
  BY <1>5 DEF State, Integrity, files
<1>6. CASE \E r \in Reads : \E p \in Paths : Begin(r, p)
  <2> PICK r \in Reads, p \in Paths : Begin(r, p)
    BY <1>6
  <2>1. /\ \A s \in Reads \ {r} : path'[s] = path[s] /\ before'[s] = before[s] /\ chk'[s] = chk[s]
        /\ ToSet(tracked') = ToSet(tracked) \cup {p} /\ revision' \in {revision, revision + 1}
        /\ path'[r] = p /\ before'[r] = State(p)
        /\ \/ p \in noted /\ refused' = TRUE /\ chk'[r] = [Idle EXCEPT !.at = "over"]
           \/ p \notin noted /\ refused' = refused /\ chk'[r] = Round(0, "read", tracked', revision')
    BY <1>1, BeginPlaced
  <2>2. path[r] = None /\ UNCHANGED <<builtIn, files, noted>> /\ path'[r] # None
    BY <2>1, NoneAssumption DEF Begin
  <2>3. \A q \in Paths : q \notin noted' => q \notin noted /\ State(q)' = State(q)
    BY <1>5, <2>2
  <2>4. Left(r) = 2 /\ Left(r)' \in {0, 1}
    BY <2>2 DEF Left
  <2>5. Left(r)' + (revision' - revision) <= Left(r)
    BY <1>2, <2>1, <2>4
  <2>6. \A s \in Reads \ {r} : Told(s)' /\ RoundsLast(s)'
    BY <1>2, <2>1, <2>2, <2>3, <2>5, OthersRounds
  <2>7. ASSUME chk'[r] = Round(0, "read", tracked', revision')
        PROVE  Told(r)' /\ RoundsLast(r)'
    <3>1. before'[r] = State(path[r])'
      BY <1>1, <2>1, <2>2 DEF State, Integrity, files
    <3> QED
      BY <2>2, <2>7, <3>1, FreshRounds
  <2>8. ASSUME p \in noted, chk'[r] = [Idle EXCEPT !.at = "over"]
        PROVE  Told(r)' /\ RoundsLast(r)'
    <3>1. /\ chk'[r].at = "over" /\ chk'[r].pending = <<>> /\ \A q \in Paths : chk'[r].got[q] = None
      BY <2>8 DEF Idle
    <3>2. path'[r] \in noted'
      BY <2>1, <2>2, <2>8
    <3> QED
      BY <3>1, <3>2 DEF Told, RoundsLast
  <2>9. OnlyInputsRefuse'
    BY <1>3, <2>1, <2>2 DEF OnlyInputsRefuse
  <2> QED
    BY <2>1, <2>6, <2>7, <2>8, <2>9
<1>7. CASE \E r \in Reads : StoreRead(r)
  <2> PICK r \in Reads : StoreRead(r)
    BY <1>7
  <2>1. /\ \A s \in Reads \ {r} : chk'[s] = chk[s]
        /\ chk'[r] \in {[Idle EXCEPT !.at = "keep"], Round(0, "over", tracked, revision)}
    BY <1>1, StoreReadPlaced
  <2>2. /\ chk[r].at = "read" /\ path[r] # None
        /\ UNCHANGED <<builtIn, files, tracked, noted, revision, refused, path, before>>
    BY <1>1 DEF StoreRead, Place, window
  <2>3. \A q \in Paths : q \notin noted' => q \notin noted /\ State(q)' = State(q)
    BY <1>5, <2>2
  <2>4. Left(r) = 1 /\ Left(r)' \in {0, 1}
    BY <2>2 DEF Left
  <2>5. \A s \in Reads \ {r} : Told(s)' /\ RoundsLast(s)'
    BY <1>2, <2>1, <2>2, <2>3, <2>4, OthersRounds
  <2>6. path[r] \in Paths /\ (path'[r] \notin noted' => before'[r] = State(path[r])')
    <3>1. path[r] \in Paths
      BY <1>1, <2>2 DEF TypeOK
    <3>2. State(path[r])' = State(path[r])
      BY <2>2 DEF State, Integrity, files
    <3> QED
      BY <2>2, <3>1, <3>2 DEF Told
  <2>7. ASSUME chk'[r] = Round(0, "over", tracked, revision)
        PROVE  Told(r)' /\ RoundsLast(r)'
    <3>1. chk'[r] = Round(0, "over", tracked', revision') /\ path'[r] # None
      BY <2>2, <2>7
    <3> QED
      BY <2>6, <3>1, FreshRounds
  <2>8. ASSUME chk'[r] = [Idle EXCEPT !.at = "keep"]
        PROVE  Told(r)' /\ RoundsLast(r)'
    <3>1. /\ chk'[r].at = "keep" /\ chk'[r].pending = <<>> /\ \A q \in Paths : chk'[r].got[q] = None
      BY <2>8 DEF Idle
    <3>2. Told(r)'
      BY <2>2, <2>6, <3>1 DEF Told
    <3> QED
      BY <3>1, <3>2 DEF RoundsLast
  <2> QED
    BY <1>3, <2>1, <2>2, <2>5, <2>7, <2>8
<1>8. CASE \E r \in Reads : Remember(r)
  <2> PICK r \in Reads : Remember(r)
    BY <1>8
  <2>1. /\ chk[r].at = "keep" /\ path[r] # None /\ text[r] # None
        /\ UNCHANGED <<builtIn, files, path, before, tracked>>
    BY <1>1 DEF Remember, Place, TextOf, HasRead, Refuses, window
  <2>2. /\ path[r] \in Paths /\ \A s \in Reads \ {r} : chk'[s] = chk[s]
        /\ \/ /\ revision' \in {revision, revision + 1} /\ UNCHANGED <<noted, refused>>
              /\ chk'[r] = Round(0, "given", tracked', revision')
           \/ Refuses(r, {path[r]}) /\ chk'[r] = [Idle EXCEPT !.at = "over"]
    BY <1>1, <2>1, RememberPlaced
  <2>3. revision' \in {revision, revision + 1} /\ noted \subseteq noted'
    BY <2>2 DEF Refuses
  <2>4. \A q \in Paths : q \notin noted' => q \notin noted /\ State(q)' = State(q)
    BY <1>5, <2>1, <2>3
  <2>5. Left(r) = 1 /\ Left(r)' = 0
    <3>1. chk'[r].at = "over" \/ (chk'[r].at = "collect" /\ chk'[r].then = "given")
      BY <2>2 DEF Round, Idle
    <3> QED
      BY <2>1, <3>1 DEF Left, Checking
  <2>6. \A s \in Reads \ {r} : Told(s)' /\ RoundsLast(s)'
    BY <1>2, <2>1, <2>2, <2>3, <2>4, <2>5, OthersRounds
  <2>7. path'[r] \notin noted' => before'[r] = State(path[r])'
    <3>1. State(path[r])' = State(path[r])
      BY <2>1 DEF State, Integrity, files
    <3> QED
      BY <2>1, <2>2, <2>3, <3>1 DEF Told
  <2>8. CASE chk'[r] = Round(0, "given", tracked', revision') /\ UNCHANGED refused
    <3>1. Told(r)' /\ RoundsLast(r)'
      BY <2>1, <2>7, <2>8, FreshRounds
    <3> QED
      BY <1>3, <2>6, <2>8, <3>1
  <2>9. CASE Refuses(r, {path[r]}) /\ chk'[r] = [Idle EXCEPT !.at = "over"]
    <3>1. /\ chk'[r].at = "over" /\ chk'[r].pending = <<>> /\ \A q \in Paths : chk'[r].got[q] = None
      BY <2>9 DEF Idle
    <3>2. path[r] \in noted' /\ path[r] \in ToSet(tracked') /\ path'[r] = path[r]
      BY <1>1, <2>1, <2>9 DEF Refuses, Place
    <3>3. OnlyInputsRefuse'
      BY <3>2 DEF OnlyInputsRefuse
    <3> QED
      BY <2>6, <3>1, <3>2, <3>3 DEF Told, RoundsLast
  <2> QED
    BY <2>2, <2>8, <2>9
<1>9. CASE \E r \in Reads : Check(r) /\ UNCHANGED <<builtIn, files, open, path, text, before>>
  <2> PICK r \in Reads : Check(r) /\ UNCHANGED <<builtIn, files, open, path, text, before>>
    BY <1>9
  <2>1. /\ \A s \in Reads \ {r} : chk'[s] = chk[s]
        /\ UNCHANGED <<tracked, revision>> /\ noted \subseteq noted'
        /\ chk[r].at \in Checking
        /\ \/ chk'[r].at \in {"over", chk[r].then}
           \/ chk'[r].at \in Checking /\ chk'[r].then = chk[r].then
    BY <1>1, CheckSteps
  <2>2. path[r] # None /\ chk[r].then \in {"read", "given", "over"}
    BY <1>1, <2>1 DEF Place, Checks, Checking
  <2>3. \A q \in Paths : q \notin noted' => q \notin noted /\ State(q)' = State(q)
    BY <1>5, <2>1
  <2>4. Left(r) \in {0, 1} /\ Left(r)' <= Left(r)
    BY <2>1, <2>2 DEF Left, Checking
  <2>5. Left(r)' + (revision' - revision) <= Left(r)
    <3>1. Left(r)' \in {0, 1}
      BY <2>2 DEF Left
    <3> QED
      BY <1>2, <2>1, <2>4, <3>1
  <2>6. \A s \in Reads \ {r} : Told(s)' /\ RoundsLast(s)'
    BY <1>2, <2>1, <2>2, <2>3, <2>5, OthersRounds
  <2> QED
    BY <2>6, CheckRounds
<1> QED
  BY <1>4, <1>6, <1>7, <1>8, <1>9 DEF Call

\* With this package's record one or two readers are refused for an input only.
LEMMA RefusalStep == RefusalInv /\ [Next]_vars => RefusalInv'
<1> SUFFICES ASSUME RefusalInv, [Next]_vars PROVE RefusalInv'
  OBVIOUS
<1>1. ReadsInv /\ ReadsInv' /\ OnlyInputsRefuse
  BY ReadsStep DEF RefusalInv
<1>2. builtIn' = builtIn
  BY <1>1, EnvironmentSteps
     DEF Next, Call, List, Begin, StoreRead, Remember, vars, ReadsInv, Places
<1>3. CASE ~builtIn
  BY <1>1, <1>2, <1>3 DEF RefusalInv, OnlyInputsRefuse
<1>4. CASE UNCHANGED vars
  <2>1. UNCHANGED <<builtIn, entries, store, epoch, tracked, noted, revision, refused, path, before, chk>>
    BY <1>4 DEF vars, files, window, reads
  <2>2. OnlyInputsRefuse'
    BY <1>1, <2>1 DEF OnlyInputsRefuse, Begun
  <2>3. ASSUME builtIn, NEW r \in Reads PROVE Told(r)' /\ RoundsLast(r)'
    BY <2>1, <2>3 DEF RefusalInv, Told, RoundsLast, State, Integrity, Left, Moved, Begun
  <2> QED
    BY <1>1, <1>2, <2>2, <2>3 DEF RefusalInv
<1>5. CASE builtIn /\ ~refused /\ Environment
  <2>1. refused' = refused
    BY <1>1, <1>5, EnvironmentSteps DEF ReadsInv, Places
  <2>2. OnlyInputsRefuse'
    BY <1>5, <2>1 DEF OnlyInputsRefuse
  <2> QED
    BY <1>1, <1>5, <2>2, RefusalInEnvironment DEF RefusalInv
<1>6. CASE builtIn /\ ~refused /\ Call
  BY <1>1, <1>6, RefusalInCall DEF RefusalInv
<1> QED
  BY <1>3, <1>4, <1>5, <1>6 DEF Next

-----------------------------------------------------------------------------
(* The theorems about the files.                                             *)

\* Before the call has listed, there is nothing to trust, to confirm or to refuse.
LEMMA FilesInit == Init => TrustInv /\ HostInv /\ RefusalInv
<1> SUFFICES ASSUME Init PROVE TrustInv /\ HostInv /\ RefusalInv
  OBVIOUS
<1>1. ReadsInv
  BY ReadsInit
<1>2. \A r \in Reads : chk[r] = Idle /\ path[r] = None /\ Idle.at = "idle" /\ Idle.pending = <<>>
  BY DEF Init, Idle
<1>3. TrustInv
  BY <1>1, <1>2 DEF TrustInv, Landed, Earned, Init
<1>4. Given = {}
  BY <1>2 DEF Given
<1>5. HostInv
  <2>1. ~open /\ \A p \in Paths : Stands(p)
    BY DEF Init, Stands
  <2>2. ASSUME NEW r \in Reads PROVE Knows(r) /\ Covers(r)
    <3>1. text[r] = None /\ \A p \in Paths : Idle.got[p] = None
      BY DEF Init, Idle
    <3> QED
      BY <1>2, <3>1 DEF Knows, Covers, Confirmed, Checking
  <2> QED
    BY <1>1, <1>4, <2>1, <2>2 DEF HostInv, InputsCoexisted, Counted
<1>6. RefusalInv
  BY <1>1, <1>2 DEF RefusalInv, OnlyInputsRefuse, Told, RoundsLast, Init
<1> QED
  BY <1>3, <1>5, <1>6

\* A behaviour of the stores takes steps of FileReads or leaves its state alone.
LEMMA FilesOfStores ==
  ASSUME [StoresNext]_<<vars, sessionVars, half>>
  PROVE  [Next]_vars
BY DEF StoresNext

\* The files' invariants hold of every behaviour of the stores.
LEMMA FilesAlways == StoresSpec => [](TrustInv /\ HostInv /\ RefusalInv)
<1>1. StoresInit => TrustInv /\ HostInv /\ RefusalInv
  BY FilesInit DEF StoresInit
<1>2. TrustInv /\ HostInv /\ RefusalInv /\ [StoresNext]_<<vars, sessionVars, half>> =>
        (TrustInv /\ HostInv /\ RefusalInv)'
  BY FilesOfStores, TrustStep, HostStep, RefusalStep
<1> QED
  BY <1>1, <1>2, PTL DEF StoresSpec

\* With a record that counts every change of its store, whatever a call has been given was in the
\* store together, at one moment since the call listed.
THEOREM InputsAreOneState == StoresSpec => [](TypeOK /\ InputsCoexisted)
<1>1. HostInv => TypeOK /\ InputsCoexisted
  BY DEF HostInv, ReadsInv, Places
<1> QED
  BY <1>1, FilesAlways, PTL

\* With this package's record a call with one or two readers is refused for one of its inputs only.
THEOREM RefusedForInputs == StoresSpec => []OnlyInputsRefuse
<1>1. RefusalInv => OnlyInputsRefuse
  BY DEF RefusalInv
<1> QED
  BY <1>1, FilesAlways, PTL

\* With this package's record a label that is handed over as trusted is on what the host placed, or
\* on what a write that has not returned has put there.
THEOREM TrustIsEarned == StoresSpec => TrustedIsNotRecorded
<1>1. ASSUME TrustInv, [Next]_vars, NEW r \in Given' \ Given, NEW s \in Given',
             builtIn, before'[s].integrity = "trusted", text'[s] \in 1..MaxChanges
      PROVE  <<path'[s], text'[s]>> \in inFlight'
  <2>1. ReadsInv /\ (\A q \in Reads : Place(q) /\ Earned(q))
    BY <1>1 DEF TrustInv, ReadsInv, Places
  <2>2. /\ UNCHANGED <<files, window, path, text, before>>
        /\ ToSet(tracked) \cap noted = {} /\ chk[r].at = "collect"
        /\ \A q \in Given' : q # r => q \in Given
    BY <1>1, <2>1, HandedOver
  <2>3. s \in Reads /\ chk[s].at \in {"collect", "given"}
    BY <1>1, <2>2 DEF Given
  <2>4. path[s] # None /\ path[s] \in ToSet(tracked)
    BY <2>1, <2>3 DEF Place
  <2>5. path[s] \notin noted
    BY <2>2, <2>4
  <2>6. before[s].integrity = "trusted" /\ text[s] \in 1..MaxChanges
    BY <1>1, <2>2
  <2>7. <<path[s], text[s]>> \in inFlight
    BY <2>1, <2>3, <2>4, <2>5, <2>6 DEF Earned
  <2> QED
    BY <2>2, <2>7 DEF files
<1>2. TrustInv /\ [StoresNext]_<<vars, sessionVars, half>> =>
        [\A r \in Given' \ Given : \A s \in Given' :
           builtIn /\ before'[s].integrity = "trusted" /\ text'[s] \in 1..MaxChanges =>
             <<path'[s], text'[s]>> \in inFlight']_vars
  BY <1>1, FilesOfStores
<1> QED
  BY <1>2, FilesAlways, PTL DEF StoresSpec, TrustedIsNotRecorded

=============================================================================
