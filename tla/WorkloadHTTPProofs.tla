------------------------- MODULE WorkloadHTTPProofs --------------------------
(***************************************************************************)
(* The MCP workload service behind its HTTP transport, for any resources and   *)
(* bindings, any finite set of calls and any sessions: whose work a resource    *)
(* holds, what is left of a retired session, and which ids are taken.  The       *)
(* invariant that is inductive adds who has the one slot, what a handler stands  *)
(* for, where a session may be at each stage of its life, and what the cleanup    *)
(* of each resource has still to deal with.                                     *)
(***************************************************************************)
EXTENDS WorkloadHTTP, FiniteSetTheorems, WellFoundedInduction, TLAPS

Busy == {"waiting", "timedOut", "cancelled"}
Answering == {"dispatch", "drain"}

\* The invocation that waits for its task is the active one, and only its task may run.
SlotIsTaken ==
  /\ \A c \in Calls : inv[c] \in Busy <=> active = c
  /\ \A c \in Unsettled : active = c

\* A handler's call has been handed over once its body was read, and keeps its id, which is its
\* own among the handlers of the session, until the task has settled.
Handlers ==
  /\ \A c \in Calls : handler[c] \in {"none", "body"} <=> inv[c] = "none"
  /\ \A c \in Calls : handler[c] = "none" <=> sess[c] = Nobody
  /\ \A c \in Calls : sess[c] # Nobody => rid[c] \in Ids
  /\ \A c \in Unsettled : handler[c] \in Answering
  /\ \A c \in Calls : handler[c] \in Answering => rid[c] \in ids[sess[c]]
  /\ \A c, d \in Calls :
       handler[c] \in Answering /\ handler[d] \in Answering /\ sess[c] = sess[d] /\ rid[c] = rid[d]
         => c = d

\* No request of the session is open: what Requests counts, as a predicate.
Quiet(s) ==
  /\ opener[s] = "done" /\ ~get[s]
  /\ \A c \in Calls : sess[c] = s => handler[c] \in {"none", "left"}

\* Where a session may be: out of the registry it is at rest, and what ends it has marked it.
SessionFits(s) ==
  /\ closing[s] <=> retiring[s] # "none"
  /\ s \notin reg =>
       /\ ~closing[s] /\ ~initialized[s] /\ run[s] = "done" /\ Quiet(s)
       /\ \A c \in Calls : sess[c] = s => inv[c] = "ended"
  /\ s \in reg /\ run[s] = "done" => closing[s]
  /\ run[s] = "terminated" => closing[s]
  /\ run[s] = "connecting" => ~initialized[s]
  /\ retiring[s] = "requests" => run[s] = "done"
  /\ retiring[s] \in {"started", "terminate", "drain", "requests"} =>
       \A c \in Unsettled : sess[c] # s
  /\ retiring[s] \in Calls => \A c \in Unsettled : sess[c] = s => c = retiring[s]

\* A call that is under way is one of a session whose loop runs; a call whose handler has left
\* before it began is one of a session that is closing.
CallFits(c) ==
  /\ inv[c] \in Busy \cup {"queued"} => run[sess[c]] \in {"running", "terminated"}
  /\ inv[c] = "queued" => handler[c] = "dispatch" \/ (handler[c] = "left" /\ closing[sess[c]])

Sessions == (\A s \in Sids : SessionFits(s)) /\ (\A c \in Calls : CallFits(c))

\* When the lifespan lets calls run, and what it cleans up itself.
LifeFits ==
  /\ ready <=> life = "up"
  /\ life \in {"up", "retiring"} => up = NumResources
  /\ life = "start" => up < NumResources
  /\ life \in {"recover", "settle", "cleanup", "close"} => up > 0
  /\ Unsettled # {} => up = NumResources /\ life \in {"up", "retiring", "settle"}
  /\ todo[Nobody] # {} => life \in {"recover", "cleanup"}
  /\ life = "recover" => todo[Nobody] = {up} /\ clean[Nobody]
  /\ life = "start" /\ ~poisoned => \A r \in Resources : r <= up => left[r] = {}
  /\ life = "recover" /\ ~poisoned => \A r \in Resources : r < up => left[r] = {}

\* What a resource holds is the running call's, or has been reported as not confirmed.
WorkIsOwned ==
  /\ \A r \in Resources : \E o \in Calls \cup {Nobody} : left[r] \subseteq {o}
  /\ ready /\ ~poisoned /\ Unsettled = {} => \A r \in Resources : left[r] = {}
  /\ \A c \in Calls :
       /\ task[c] = "made" => \A r \in Resources : left[r] = {}
       /\ task[c] = "execute" =>
            \A r \in Resources : left[r] = IF r \in Uses[c] THEN {c} ELSE {}
       /\ task[c] = "cleanup" /\ clean[c] => \A r \in Resources : r \in todo[c] \/ left[r] = {}
       /\ task[c] = "cleanup" => todo[c] # {}
       /\ todo[c] # {} => task[c] = "cleanup"

Service == SlotIsTaken /\ LifeFits /\ WorkIsOwned

IInv == TypeOK /\ Service /\ Handlers /\ Sessions

-----------------------------------------------------------------------------
(* Sets, requests and the initial state.                                     *)

\* The next resource a cleanup visits is one of those it has still to visit.
LEMMA MinIsIn ==
  ASSUME NEW S \in SUBSET Nat, S # {}
  PROVE  Min(S) \in S
<1> DEFINE R == OpToRel(<, Nat)
<1>1. IsWellFoundedOn(R, Nat) /\ S \subseteq Nat
  BY NatLessThanWellFounded
<1>2. \A x, y \in Nat : x < y => <<x, y>> \in R
  BY DEF OpToRel
<1> HIDE DEF R
<1>3. \E x \in S : \A y \in S : ~(<<y, x>> \in R)
  BY <1>1, WFMin
<1>4. PICK x \in S : \A y \in S : ~(<<y, x>> \in R)
  BY <1>3
<1>5. \A y \in S : x <= y
  <2>1. SUFFICES ASSUME NEW y \in S PROVE ~(y < x)
    BY <1>1
  <2> QED
    BY <1>1, <1>2, <1>4
<1> QED
  BY <1>5 DEF Min

\* The count of a session's requests (record.requests) is zero just when none is open.
LEMMA QuietRequests ==
  ASSUME NEW s \in Sids
  PROVE  Requests(s) = 0 <=> Quiet(s)
<1> DEFINE H == {c \in CallsOf(s) : handler[c] \notin {"none", "left"}}
<1>1. IsFiniteSet(H)
  <2>1. H \in SUBSET Calls
    BY DEF CallsOf
  <2> QED
    BY <2>1, FS_Subset, NamesAssumption
<1>2. Cardinality(H) \in Nat /\ (Cardinality(H) = 0 <=> H = {})
  BY <1>1, FS_CardinalityType, FS_EmptySet
<1>3. H = {} <=> \A c \in Calls : sess[c] = s => handler[c] \in {"none", "left"}
  BY DEF CallsOf
<1> QED
  BY <1>2, <1>3 DEF Requests, Quiet

\* Nothing is registered and nothing started.
LEMMA InitIInv == Init => IInv
<1> SUFFICES ASSUME Init PROVE IInv
  OBVIOUS
<1> USE DEF Init, ServiceInit
<1>1. TypeOK
  <2>0. up \in 0..NumResources
    BY UsesAssumption
  <2>1. ServiceTypeOK
    BY <2>0 DEF ServiceTypeOK
  <2>2. HTTPTypeOK
    BY DEF HTTPTypeOK, Stages
  <2> QED
    BY <2>1, <2>2 DEF TypeOK
<1>2. Unsettled = {}
  BY DEF Unsettled
<1>3. SlotIsTaken
  BY <1>2, UsesAssumption DEF SlotIsTaken, Busy
<1>4. LifeFits
  BY <1>2, UsesAssumption DEF LifeFits, Resources
<1>5. WorkIsOwned
  BY <1>2 DEF WorkIsOwned
<1>6. Handlers
  BY <1>2 DEF Handlers, Answering
<1>7. Sessions
  BY <1>2, NamesAssumption DEF Sessions, SessionFits, CallFits, Quiet, Busy, Stages
<1> QED
  BY <1>1, <1>3, <1>4, <1>5, <1>6, <1>7 DEF IInv, Service

-----------------------------------------------------------------------------
(* Types.                                                                    *)

\* A visit of a cleanup keeps the types, and takes from what is still to be visited.
LEMMA VisitTypes ==
  ASSUME TypeOK, NEW o \in Calls \cup {Nobody}, Visit(o)
  PROVE  /\ todo' \in [Calls \cup {Nobody} -> SUBSET Resources]
         /\ clean' \in [Calls \cup {Nobody} -> BOOLEAN]
         /\ left' \in [Resources -> SUBSET (Calls \cup {Nobody})]
         /\ poisoned' \in BOOLEAN
<1> USE DEF TypeOK, ServiceTypeOK
<1> DEFINE r == Min(todo[o])
<1>1. PICK confirmed \in BOOLEAN :
        /\ left' = [left EXCEPT ![r] = IF confirmed \/ @ = {} THEN {} ELSE {Nobody}]
        /\ clean' = [clean EXCEPT ![o] = todo[o] = {r} \/ (@ /\ confirmed)]
        /\ poisoned' = (poisoned \/ (todo[o] = {r} /\ ~(clean[o] /\ confirmed)))
  BY DEF Visit
<1>2. todo' = [todo EXCEPT ![o] = @ \ {r}]
  BY DEF Visit
<1> HIDE DEF r
<1>3. todo' \in [Calls \cup {Nobody} -> SUBSET Resources]
  BY <1>2
<1>4. clean' \in [Calls \cup {Nobody} -> BOOLEAN]
  BY <1>1
<1>5. left' \in [Resources -> SUBSET (Calls \cup {Nobody})]
  BY <1>1
<1>6. poisoned' \in BOOLEAN
  BY <1>1
<1> QED
  BY <1>3, <1>4, <1>5, <1>6

\* Marking sessions keeps the types.
LEMMA RetireTypes ==
  ASSUME TypeOK, NEW S, Retire(S)
  PROVE  closing' \in [Sids -> BOOLEAN] /\ retiring' \in [Sids -> Calls \cup Stages]
BY DEF TypeOK, HTTPTypeOK, Retire, Stages

\* The steps of a call's task and invocation keep the types.
LEMMA CallTypes ==
  ASSUME TypeOK, NEW c \in Calls,
         \/ CallStep(c) \/ SdkCancels(c) \/ \E open \in BOOLEAN : Invoke(c, open)
  PROVE  ServiceTypeOK'
<1> USE UsesAssumption DEF TypeOK, ServiceTypeOK
<1>1. CASE Begin(c)
  BY <1>1 DEF Begin
<1>2. CASE ExecuteEnds(c)
  BY <1>2 DEF ExecuteEnds, BeginCleanup
<1>3. CASE CallCleanup(c)
  BY <1>3, VisitTypes DEF CallCleanup
<1>4. CASE Timeout(c)
  BY <1>4 DEF Timeout, Cancelled
<1>5. CASE Returns(c)
  BY <1>5 DEF Returns
<1>6. CASE SdkCancels(c)
  BY <1>6 DEF SdkCancels, CancelInvocation, Cancelled
<1>7. ASSUME NEW open \in BOOLEAN, Invoke(c, open) PROVE ServiceTypeOK'
  BY <1>7 DEF Invoke
<1> QED
  BY <1>1, <1>2, <1>3, <1>4, <1>5, <1>6, <1>7 DEF CallStep

\* The steps of the lifespan keep the types.
LEMMA LifespanTypes ==
  ASSUME TypeOK, LifeFits, Lifespan
  PROVE  ServiceTypeOK'
<1> USE UsesAssumption DEF TypeOK, ServiceTypeOK, calls
<1>0. up \in 0..NumResources /\ 1..up \subseteq Resources /\ (life = "start" => up + 1 \in Resources)
  BY DEF LifeFits, Resources
<1>1. CASE Start
  <2>1. up' \in 0..NumResources /\ {up'} \subseteq Resources
    BY <1>0, <1>1 DEF Start, Resources
  <2>2. /\ todo' \in [Calls \cup {Nobody} -> SUBSET Resources]
        /\ clean' \in [Calls \cup {Nobody} -> BOOLEAN]
    <3>1. CASE UNCHANGED <<todo, clean>>
      BY <3>1
    <3>2. CASE BeginCleanup(Nobody, {up'})
      BY <2>1, <3>2 DEF BeginCleanup
    <3> QED
      BY <1>1, <3>1, <3>2 DEF Start
  <2> QED
    BY <1>1, <2>1, <2>2 DEF Start
<1>2. CASE Recover
  BY <1>2, VisitTypes DEF Recover
<1>3. CASE SettleActive
  <2>1. told' \in [Calls -> BOOLEAN]
    BY <1>3 DEF SettleActive, Cancelled
  <2>2. /\ todo' \in [Calls \cup {Nobody} -> SUBSET Resources]
        /\ clean' \in [Calls \cup {Nobody} -> BOOLEAN]
        /\ life' \in {"settle", "cleanup"}
    <3>1. CASE UNCHANGED <<life, todo, clean>>
      BY <1>3, <3>1 DEF SettleActive
    <3>2. CASE life' = "cleanup" /\ BeginCleanup(Nobody, 1..up)
      BY <1>0, <3>2 DEF BeginCleanup
    <3> QED
      BY <1>3, <3>1, <3>2 DEF SettleActive
  <2> QED
    BY <1>3, <2>1, <2>2 DEF SettleActive
<1>4. CASE FinalCleanup
  BY <1>4, VisitTypes DEF FinalCleanup
<1>5. CASE CloseResource
  BY <1>5 DEF CloseResource, LifeFits
<1> QED
  BY <1>1, <1>2, <1>3, <1>4, <1>5 DEF Lifespan

\* A session's steps keep the types.
LEMMA SessionTypes ==
  ASSUME TypeOK, NEW s \in Sids, Session(s)
  PROVE  TypeOK'
<1> USE DEF TypeOK, HTTPTypeOK
<1>0. Stages = {"none", "cancel", "started", "terminate", "backoff", "drain", "requests"}
  BY DEF Stages
<1>1. CASE Open(s)
  BY <1>1 DEF Open, service, ServiceTypeOK
<1>2. CASE Connect(s)
  <2>1. run' \in [Sids -> {"connecting", "running", "terminated", "done"}]
    BY <1>2 DEF Connect
  <2>2. poisoned' \in BOOLEAN /\ closing' \in [Sids -> BOOLEAN] /\ retiring' \in [Sids -> Calls \cup Stages]
    BY <1>2, RetireTypes DEF Connect, ServiceTypeOK
  <2> QED
    BY <1>2, <2>1, <2>2 DEF Connect, ServiceTypeOK, calls
<1>3. CASE OpenerGoesOn(s) \/ Notified(s) \/ Get(s) \/ GetEnds(s)
  <2>1. UNCHANGED service
    BY <1>3 DEF OpenerGoesOn, Notified, Get, GetEnds
  <2>2. ServiceTypeOK'
    BY <2>1 DEF service, ServiceTypeOK
  <2>3. CASE OpenerGoesOn(s) \/ Notified(s)
    BY <2>2, <2>3 DEF OpenerGoesOn, Notified
  <2>4. CASE Get(s) \/ GetEnds(s)
    BY <2>2, <2>4 DEF Get, GetEnds
  <2> QED
    BY <1>3, <2>3, <2>4
<1>4. CASE OpenerAnswered(s)
  <2>1. closing' \in [Sids -> BOOLEAN] /\ retiring' \in [Sids -> Calls \cup Stages]
    BY <1>4, RetireTypes DEF OpenerAnswered
  <2> QED
    BY <1>4, <2>1 DEF OpenerAnswered, service, ServiceTypeOK
<1>5. CASE Delete(s) \/ Expire(s)
  BY <1>5, RetireTypes DEF Delete, Expire, service, ServiceTypeOK
<1>6. CASE RunEnds(s)
  <2>1. closing' \in [Sids -> BOOLEAN] /\ retiring' \in [Sids -> Calls \cup Stages]
    BY <1>6, RetireTypes DEF RunEnds
  <2>2. ServiceTypeOK'
    BY <1>6 DEF RunEnds, ServiceTypeOK
  <2> QED
    BY <1>6, <2>1, <2>2 DEF RunEnds
<1>7. CASE RetireCancel(s)
  <2>1. told' \in [Calls -> BOOLEAN]
    <3>1. told' = told \/ told' = Cancelled(active)
      BY <1>7 DEF RetireCancel
    <3> QED
      BY <3>1 DEF Cancelled, ServiceTypeOK
  <2>2. retiring' \in [Sids -> Calls \cup Stages]
    BY <1>0, <1>7 DEF RetireCancel, Moves, ServiceTypeOK
  <2> QED
    BY <1>7, <2>1, <2>2 DEF RetireCancel, ServiceTypeOK, calls
<1>8. CASE RetireSettled(s) \/ RetireStarted(s) \/ RetireAgain(s) \/ RetireDrained(s)
  BY <1>0, <1>8 DEF RetireSettled, RetireStarted, RetireAgain, RetireDrained, Moves, service, ServiceTypeOK
<1>9. CASE Terminate(s)
  BY <1>0, <1>9 DEF Terminate, Moves, service, ServiceTypeOK
<1>10. CASE TerminateFails(s)
  BY <1>0, <1>10 DEF TerminateFails, Moves, calls, ServiceTypeOK
<1>11. CASE RetireLeaves(s)
  BY <1>0, <1>11 DEF RetireLeaves, Moves, service, ServiceTypeOK
<1> QED
  BY <1>1, <1>2, <1>3, <1>4, <1>5, <1>6, <1>7, <1>8, <1>9, <1>10, <1>11 DEF Session, RetireStep

\* What is left to the call when its handler leaves has its types.
LEMMA LeavesTypes ==
  ASSUME TypeOK, NEW c \in Calls, Leaves(c) \/ Over(c)
  PROVE  /\ handler' \in [Calls -> {"none", "body", "dispatch", "drain", "left"}]
         /\ sess' \in [Calls -> Sids \cup {Nobody}] /\ rid' \in [Calls -> Ids \cup {Nobody}]
         /\ inv' \in [Calls -> {"none", "queued", "waiting", "timedOut", "cancelled", "ended"}]
         /\ task' \in [Calls -> {"none", "made", "execute", "cleanup", "done"}]
         /\ told' \in [Calls -> BOOLEAN]
<1>1. CASE Over(c)
  BY <1>1 DEF TypeOK, HTTPTypeOK, ServiceTypeOK, Over
<1>2. CASE handler' = [handler EXCEPT ![c] = "left"] /\ UNCHANGED <<sess, rid, inv, task, told>>
  BY <1>2 DEF TypeOK, HTTPTypeOK, ServiceTypeOK
<1> QED
  BY <1>1, <1>2 DEF Leaves

\* The steps of a request keep the types.
LEMMA RequestTypes ==
  ASSUME TypeOK, Handlers, NEW c \in Calls, Request(c)
  PROVE  TypeOK'
<1> USE DEF TypeOK, HTTPTypeOK
<1>1. ASSUME NEW s \in Sids, NEW i \in Ids, Post(c, s, i) PROVE TypeOK'
  BY <1>1 DEF Post, service, ServiceTypeOK
<1>2. CASE BodyRead(c) /\ Over(c) /\ UNCHANGED ids
  BY <1>2, LeavesTypes DEF BodyRead, ServiceTypeOK
<1>3. CASE /\ BodyRead(c)
           /\ handler' = [handler EXCEPT ![c] = "dispatch"]
           /\ ids' = [ids EXCEPT ![sess[c]] = @ \cup {rid[c]}]
           /\ inv' = [inv EXCEPT ![c] = "queued"]
           /\ UNCHANGED <<task, told, sess, rid>>
  <2>1. rid[c] \in Ids
    BY <1>3 DEF BodyRead, Handlers
  <2>2. ids' \in [Sids -> SUBSET Ids]
    BY <1>3, <2>1
  <2>3. ServiceTypeOK'
    BY <1>3 DEF BodyRead, ServiceTypeOK
  <2> QED
    BY <1>3, <2>2, <2>3 DEF BodyRead
<1>4. CASE Dispatch(c) \/ SdkCancels(c)
  <2>1. ServiceTypeOK'
    BY <1>4, CallTypes DEF Dispatch, SessionOpen
  <2> QED
    BY <1>4, <2>1 DEF Dispatch, SdkCancels, http
<1>5. CASE HandlerReturns(c) \/ HandlerLeaves(c)
  <2>1. ids' \in [Sids -> SUBSET Ids]
    BY <1>5 DEF HandlerReturns, HandlerLeaves, IdFreed
  <2>2. CASE Leaves(c)
    BY <1>5, <2>1, <2>2, LeavesTypes DEF HandlerReturns, HandlerLeaves, unhandled, ServiceTypeOK
  <2>3. CASE /\ handler' = [handler EXCEPT ![c] = "drain"]
             /\ UNCHANGED <<ids, sess, rid, inv, task, told>>
    BY <1>5, <2>1, <2>3 DEF HandlerReturns, HandlerLeaves, unhandled, ServiceTypeOK
  <2> QED
    BY <1>5, <2>2, <2>3 DEF HandlerReturns, HandlerLeaves
<1>6. CASE Outlasted(c)
  BY <1>6, LeavesTypes DEF Outlasted, ServiceTypeOK
<1> QED
  BY <1>1, <1>2, <1>3, <1>4, <1>5, <1>6 DEF Request, BodyRead

\* Every step keeps the types.
LEMMA TypeStep == ASSUME IInv, [Next]_vars PROVE TypeOK'
<1>0. TypeOK /\ LifeFits /\ Handlers
  BY DEF IInv, Service
<1>1. ASSUME NEW c \in Calls, CallStep(c) /\ UNCHANGED http PROVE TypeOK'
  <2>1. ServiceTypeOK'
    BY <1>0, <1>1, CallTypes
  <2> QED
    BY <1>0, <1>1, <2>1 DEF TypeOK, HTTPTypeOK, http
<1>2. CASE Lifespan /\ UNCHANGED http
  <2>1. ServiceTypeOK'
    BY <1>0, <1>2, LifespanTypes
  <2> QED
    BY <1>0, <1>2, <2>1 DEF TypeOK, HTTPTypeOK, http
<1>3. CASE Shutdown
  <2>1. closing' \in [Sids -> BOOLEAN] /\ retiring' \in [Sids -> Calls \cup Stages]
    BY <1>0, <1>3, RetireTypes DEF Shutdown
  <2> QED
    BY <1>0, <1>3, <2>1 DEF Shutdown, TypeOK, HTTPTypeOK, ServiceTypeOK, calls
<1>4. CASE SessionsRetired \/ UNCHANGED vars
  BY <1>0, <1>4 DEF SessionsRetired, vars, http, service, calls, TypeOK, HTTPTypeOK, ServiceTypeOK
<1> QED
  BY <1>0, <1>1, <1>2, <1>3, <1>4, SessionTypes, RequestTypes DEF Next

-----------------------------------------------------------------------------
(* The service: its slot, its lifespan and whose work its resources hold.    *)

\* A visit asks one of the resources that a cleanup has still to visit.
LEMMA VisitIs ==
  ASSUME TypeOK, NEW o \in Calls \cup {Nobody}, Visit(o)
  PROVE  \E r \in todo[o], confirmed \in BOOLEAN :
           /\ todo' = [todo EXCEPT ![o] = @ \ {r}]
           /\ left' = [left EXCEPT ![r] = IF confirmed \/ @ = {} THEN {} ELSE {Nobody}]
           /\ clean' = [clean EXCEPT ![o] = todo[o] = {r} \/ (@ /\ confirmed)]
           /\ poisoned' = (poisoned \/ (todo[o] = {r} /\ ~(clean[o] /\ confirmed)))
<1>1. todo[o] \in SUBSET Nat /\ todo[o] # {}
  BY UsesAssumption DEF TypeOK, ServiceTypeOK, Resources, Visit
<1>2. Min(todo[o]) \in todo[o]
  BY <1>1, MinIsIn
<1> QED
  BY <1>2 DEF Visit

\* What goes on around the service (sessions, handlers, messages) leaves it as it is.
LEMMA ServiceFrame ==
  ASSUME TypeOK, Service,
         UNCHANGED <<life, up, ready, active, todo, clean, left>>, poisoned => poisoned',
         \A c \in Calls : inv'[c] \in Busy <=> inv[c] \in Busy,
         \A c \in Calls : task'[c] = task[c] \/ {task[c], task'[c]} \subseteq {"none", "done"}
  PROVE  Service'
<1>1. Unsettled' = Unsettled
  BY DEF Unsettled
<1>2. SlotIsTaken'
  BY <1>1 DEF Service, SlotIsTaken
<1>3. LifeFits'
  BY <1>1 DEF Service, LifeFits
<1>4. WorkIsOwned'
  BY <1>1 DEF Service, WorkIsOwned
<1> QED
  BY <1>2, <1>3, <1>4 DEF Service

\* A call is admitted (invoke) where nobody's work is left.
LEMMA ServiceInvoke ==
  ASSUME TypeOK, Service, NEW c \in Calls, NEW open \in BOOLEAN, Invoke(c, open)
  PROVE  Service'
<1>0. c # Nobody /\ TypeOK /\ Service
  BY UsesAssumption
<1>1. CASE inv' = [inv EXCEPT ![c] = "ended"] /\ UNCHANGED <<task, active>>
  BY <1>0, <1>1, ServiceFrame DEF Invoke, Busy, TypeOK, ServiceTypeOK
<1>2. CASE /\ ready /\ ~poisoned /\ active = Nobody
           /\ inv' = [inv EXCEPT ![c] = "waiting"]
           /\ task' = [task EXCEPT ![c] = "made"]
           /\ active' = c
  <2>1. Unsettled = {} /\ Unsettled' = {c}
    BY <1>0, <1>2, UsesAssumption DEF Service, SlotIsTaken, Unsettled, TypeOK, ServiceTypeOK
  <2>2. \A d \in Calls : d # c => task'[d] = task[d] /\ inv'[d] = inv[d] /\ inv[d] \notin Busy
    BY <1>0, <1>2, UsesAssumption DEF Service, SlotIsTaken, TypeOK, ServiceTypeOK
  <2>3. task'[c] = "made" /\ inv'[c] = "waiting"
    BY <1>0, <1>2 DEF TypeOK, ServiceTypeOK
  <2>4. SlotIsTaken'
    BY <1>2, <2>1, <2>2, <2>3 DEF SlotIsTaken, Busy
  <2>5. LifeFits'
    BY <1>0, <1>2, <2>1 DEF Invoke, Service, LifeFits
  <2>6. WorkIsOwned'
    BY <1>0, <1>2, <2>1, <2>2, <2>3 DEF Invoke, Service, WorkIsOwned, Unsettled
  <2> QED
    BY <2>4, <2>5, <2>6 DEF Service
<1> QED
  BY <1>1, <1>2 DEF Invoke

\* The steps of the active call's task and of its invocation.
LEMMA ServiceCall ==
  ASSUME TypeOK, Service, NEW c \in Calls, CallStep(c)
  PROVE  Service'
<1>0. TypeOK /\ Service /\ c # Nobody /\ c \in Calls \cup {Nobody}
  BY UsesAssumption
<1> USE <1>0
<1>1. c \in Unsettled => Unsettled = {c} /\ active = c
  BY DEF Service, SlotIsTaken, Unsettled
<1>2. ASSUME c \in Unsettled, UNCHANGED <<life, up, ready, active, inv>>,
             \A d \in Calls : d # c => task'[d] = task[d]
      PROVE  SlotIsTaken' /\ Unsettled' \subseteq {c} /\ (task'[c] = "done" => Unsettled' = {})
  BY <1>1, <1>2 DEF Service, SlotIsTaken, Unsettled
<1>3. CASE Begin(c) /\ ~told[c] /\ task' = [task EXCEPT ![c] = "execute"]
  <2>1. left' = [r \in Resources |-> IF r \in Uses[c] THEN left[r] \cup {c} ELSE left[r]]
    BY <1>3 DEF Begin
  <2>2. /\ c \in Unsettled /\ task[c] = "made" /\ task'[c] = "execute"
        /\ \A d \in Calls : d # c => task'[d] = task[d]
        /\ UNCHANGED <<life, up, ready, poisoned, active, inv, todo, clean>>
    BY <1>3 DEF Begin, Unsettled, TypeOK, ServiceTypeOK
  <2>3. SlotIsTaken' /\ Unsettled' = {c}
    BY <1>1, <1>2, <2>2 DEF Unsettled
  <2>4. \A r \in Resources : left[r] = {} /\ left'[r] = IF r \in Uses[c] THEN {c} ELSE {}
    BY <2>1, <2>2 DEF Service, WorkIsOwned
  <2>5. LifeFits'
    BY <1>1, <2>2, <2>3 DEF Service, LifeFits
  <2>6. \A d \in Calls : d # c => task[d] \notin {"made", "execute", "cleanup"}
    BY <1>1, <2>2 DEF Unsettled
  <2>7. \A r \in Resources : \E o \in Calls \cup {Nobody} : left'[r] \subseteq {o}
    BY <2>4
  <2>8. todo[c] = {} /\ \A d \in Calls : todo[d] # {} => task[d] = "cleanup"
    BY <2>2 DEF Service, WorkIsOwned
  <2>9. WorkIsOwned'
    BY <2>2, <2>3, <2>4, <2>6, <2>7, <2>8 DEF WorkIsOwned
  <2> QED
    BY <2>3, <2>5, <2>9 DEF Service
<1>4. CASE Begin(c) /\ task' = [task EXCEPT ![c] = "done"] /\ UNCHANGED left
  <2>2. /\ c \in Unsettled /\ task[c] = "made" /\ task'[c] = "done"
        /\ \A d \in Calls : d # c => task'[d] = task[d]
        /\ UNCHANGED <<life, up, ready, poisoned, active, inv, todo, clean, left>>
    BY <1>4 DEF Begin, Unsettled, TypeOK, ServiceTypeOK
  <2>3. SlotIsTaken' /\ Unsettled' = {}
    BY <1>2, <2>2
  <2>5. LifeFits'
    BY <1>1, <2>2, <2>3 DEF Service, LifeFits
  <2>6. \A d \in Calls : d # c => task[d] \notin {"made", "execute", "cleanup"}
    BY <1>1, <2>2 DEF Unsettled
  <2>7. WorkIsOwned'
    BY <2>2, <2>3, <2>6 DEF Service, WorkIsOwned
  <2> QED
    BY <2>3, <2>5, <2>7 DEF Service
<1>5. CASE ExecuteEnds(c)
  <2>2. /\ c \in Unsettled /\ task[c] = "execute" /\ task'[c] = "cleanup"
        /\ \A d \in Calls : d # c => task'[d] = task[d]
        /\ UNCHANGED <<life, up, ready, poisoned, active, inv, left>>
    BY <1>5 DEF ExecuteEnds, Unsettled, TypeOK, ServiceTypeOK
  <2>3. SlotIsTaken' /\ Unsettled' = {c}
    BY <1>1, <1>2, <2>2 DEF Unsettled
  <2>4. /\ todo'[c] = Uses[c] /\ Uses[c] # {} /\ clean'[c] /\ todo'[Nobody] = todo[Nobody]
        /\ clean'[Nobody] = clean[Nobody]
        /\ \A d \in Calls : d # c => todo'[d] = todo[d] /\ clean'[d] = clean[d]
    BY <1>5, UsesAssumption DEF ExecuteEnds, BeginCleanup, TypeOK, ServiceTypeOK
  <2>5. LifeFits'
    BY <1>1, <2>2, <2>3, <2>4 DEF Service, LifeFits
  <2>6. \A d \in Calls : d # c => task[d] \notin {"made", "execute", "cleanup"}
    BY <1>1, <2>2 DEF Unsettled
  <2>7. \A r \in Resources : r \in Uses[c] \/ left[r] = {}
    BY <2>2 DEF Service, WorkIsOwned
  <2>8. \A d \in Calls : todo[d] # {} => task[d] = "cleanup"
    BY DEF Service, WorkIsOwned
  <2>9. \A r \in Resources : \E o \in Calls \cup {Nobody} : left[r] \subseteq {o}
    BY DEF Service, WorkIsOwned
  <2>10. WorkIsOwned'
    BY <2>2, <2>3, <2>4, <2>6, <2>7, <2>8, <2>9 DEF WorkIsOwned
  <2> QED
    BY <2>3, <2>5, <2>10 DEF Service
<1>6. CASE CallCleanup(c)
  <2>1. PICK r \in todo[c], confirmed \in BOOLEAN :
           /\ todo' = [todo EXCEPT ![c] = @ \ {r}]
           /\ left' = [left EXCEPT ![r] = IF confirmed \/ @ = {} THEN {} ELSE {Nobody}]
           /\ clean' = [clean EXCEPT ![c] = todo[c] = {r} \/ (@ /\ confirmed)]
           /\ poisoned' = (poisoned \/ (todo[c] = {r} /\ ~(clean[c] /\ confirmed)))
    BY <1>6, VisitIs DEF CallCleanup
  <2>2. /\ c \in Unsettled /\ task[c] = "cleanup"
        /\ \A d \in Calls : d # c => task'[d] = task[d]
        /\ task'[c] = IF todo'[c] = {} THEN "done" ELSE "cleanup"
        /\ UNCHANGED <<life, up, ready, active, inv>>
    BY <1>6 DEF CallCleanup, Unsettled, TypeOK, ServiceTypeOK
  <2>3. SlotIsTaken' /\ Unsettled' = IF todo'[c] = {} THEN {} ELSE {c}
    BY <1>1, <1>2, <2>2 DEF Unsettled
  <2>4. /\ todo'[c] = todo[c] \ {r} /\ todo'[Nobody] = todo[Nobody]
        /\ clean'[Nobody] = clean[Nobody]
        /\ clean'[c] /\ todo[c] # {r} => clean[c] /\ confirmed
        /\ \A d \in Calls : d # c => todo'[d] = todo[d]
    BY <2>1 DEF TypeOK, ServiceTypeOK
  <2>5. /\ r \in Resources /\ left'[r] \subseteq {Nobody} /\ (confirmed => left'[r] = {})
        /\ \A q \in Resources : q # r => left'[q] = left[q]
        /\ poisoned => poisoned'
        /\ ~poisoned' /\ todo[c] = {r} => clean[c] /\ confirmed
    BY <2>1 DEF TypeOK, ServiceTypeOK
  <2>6. LifeFits'
    BY <1>1, <2>2, <2>3, <2>4 DEF Service, LifeFits
  <2>7. \A d \in Calls : d # c => task[d] \notin {"made", "execute", "cleanup"}
    BY <1>1, <2>2 DEF Unsettled
  <2>8. \A q \in Resources : \E o \in Calls \cup {Nobody} : left'[q] \subseteq {o}
    BY <2>5 DEF Service, WorkIsOwned
  <2>9. clean[c] => \A q \in Resources : q \in todo[c] \/ left[q] = {}
    BY <2>2 DEF Service, WorkIsOwned
  <2>10. ready' /\ ~poisoned' /\ Unsettled' = {} => \A q \in Resources : left'[q] = {}
    BY <2>1, <2>3, <2>4, <2>5, <2>9
  <2>11. WorkIsOwned'
    <3>1. \A d \in Calls : todo'[d] # {} => task'[d] = "cleanup"
      BY <2>2, <2>4 DEF Service, WorkIsOwned
    <3>2. \A d \in Calls : task'[d] \notin {"made", "execute"} /\ (task'[d] = "cleanup" => d = c)
      BY <2>2, <2>7
    <3>3. task'[c] = "cleanup" => todo'[c] # {} /\ todo[c] # {r}
      BY <2>2, <2>4
    <3>4. task'[c] = "cleanup" /\ clean'[c] => \A q \in Resources : q \in todo'[c] \/ left'[q] = {}
      BY <2>4, <2>5, <2>9, <3>3
    <3> QED
      BY <2>8, <2>10, <3>1, <3>2, <3>3, <3>4 DEF WorkIsOwned
  <2> QED
    BY <2>3, <2>6, <2>11 DEF Service
<1>7. CASE Timeout(c)
  BY <1>7, ServiceFrame DEF Timeout, Busy, TypeOK, ServiceTypeOK
<1>8. CASE Returns(c)
  <2>1. /\ \A d \in Calls : d # c => inv'[d] = inv[d]
        /\ inv'[c] = "ended" /\ active' = Nobody /\ active = c
        /\ UNCHANGED <<life, up, ready, poisoned, task, todo, clean, left>>
    BY <1>8 DEF Returns, Service, SlotIsTaken, Busy, TypeOK, ServiceTypeOK
  <2>2. Unsettled' = {} /\ Unsettled = {}
    BY <1>8, <2>1 DEF Returns, Service, SlotIsTaken, Unsettled
  <2>3. SlotIsTaken'
    BY <2>1, <2>2, UsesAssumption DEF Service, SlotIsTaken, Busy
  <2>4. LifeFits' /\ WorkIsOwned'
    BY <2>1, <2>2 DEF Service, LifeFits, WorkIsOwned
  <2> QED
    BY <2>3, <2>4 DEF Service
<1> QED
  BY <1>3, <1>4, <1>5, <1>6, <1>7, <1>8 DEF CallStep, Begin

\* The lifespan: it starts and cleans up what an earlier process left before any call, and cleans
\* up and closes once the last call has settled.
LEMMA ServiceLifespan ==
  ASSUME TypeOK, Service, Lifespan
  PROVE  Service'
<1>0. TypeOK /\ Service /\ Nobody \notin Calls /\ up \in 0..NumResources /\ NumResources \in Nat
  BY UsesAssumption DEF TypeOK, ServiceTypeOK
<1> USE <1>0
<1>1. ASSUME UNCHANGED <<active, inv, task>>
      PROVE  SlotIsTaken' /\ Unsettled' = Unsettled
  BY <1>1 DEF Service, SlotIsTaken, Unsettled
<1>2. ASSUME UNCHANGED <<active, inv, task, left>>,
             \A d \in Calls : todo'[d] = todo[d] /\ clean'[d] = clean[d],
             ready' /\ ~poisoned' => ready /\ ~poisoned
      PROVE  WorkIsOwned'
  BY <1>1, <1>2 DEF Service, WorkIsOwned
<1>3. CASE Start
  <2>1. ~ready /\ Unsettled = {} /\ todo[Nobody] = {} /\ up < NumResources
    BY <1>3 DEF Start, Service, LifeFits
  <2>2. /\ up' = up + 1 /\ UNCHANGED <<ready, poisoned, active, inv, task, told, left>>
        /\ \/ life' = "recover" /\ BeginCleanup(Nobody, {up'})
           \/ life' = "settle" /\ UNCHANGED <<todo, clean>>
    BY <1>3 DEF Start, calls
  <2>3. /\ \A d \in Calls : todo'[d] = todo[d] /\ clean'[d] = clean[d]
        /\ life' = "recover" => todo'[Nobody] = {up'} /\ clean'[Nobody]
        /\ life' # "recover" => life' = "settle" /\ todo'[Nobody] = {}
    BY <2>1, <2>2 DEF BeginCleanup, TypeOK, ServiceTypeOK
  <2>4. SlotIsTaken' /\ Unsettled' = {} /\ WorkIsOwned'
    BY <1>1, <1>2, <2>1, <2>2, <2>3
  <2>5. ~poisoned => \A r \in Resources : r < up' => left[r] = {}
    BY <1>3, <2>2 DEF Start, Service, LifeFits, Resources
  <2>6. LifeFits'
    BY <2>1, <2>2, <2>3, <2>4, <2>5 DEF LifeFits
  <2> QED
    BY <2>4, <2>6 DEF Service
<1>4. CASE Recover
  <2>1. /\ ~ready /\ Unsettled = {} /\ todo[Nobody] = {up} /\ clean[Nobody] /\ up > 0
        /\ ~poisoned => \A r \in Resources : r < up => left[r] = {}
    BY <1>4 DEF Recover, Service, LifeFits
  <2>2. PICK r \in todo[Nobody], confirmed \in BOOLEAN :
           /\ todo' = [todo EXCEPT ![Nobody] = @ \ {r}]
           /\ left' = [left EXCEPT ![r] = IF confirmed \/ @ = {} THEN {} ELSE {Nobody}]
           /\ clean' = [clean EXCEPT ![Nobody] = todo[Nobody] = {r} \/ (@ /\ confirmed)]
           /\ poisoned' = (poisoned \/ (todo[Nobody] = {r} /\ ~(clean[Nobody] /\ confirmed)))
    BY <1>4, VisitIs DEF Recover
  <2>3. /\ r = up /\ up \in Resources /\ todo'[Nobody] = {}
        /\ \A d \in Calls : todo'[d] = todo[d] /\ clean'[d] = clean[d]
        /\ left'[up] \subseteq {Nobody} /\ (confirmed => left'[up] = {})
        /\ \A q \in Resources : q # up => left'[q] = left[q]
        /\ ~poisoned' => ~poisoned /\ confirmed
    BY <2>1, <2>2 DEF TypeOK, ServiceTypeOK
  <2>4. /\ life' = IF poisoned' THEN "settle" ELSE IF up = NumResources THEN "up" ELSE "start"
        /\ ready' = (life' = "up")
        /\ UNCHANGED <<up, active, inv, task, told>>
    BY <1>4 DEF Recover, calls
  <2>5. SlotIsTaken' /\ Unsettled' = {}
    BY <1>1, <2>1, <2>4
  <2>6. ~poisoned' => \A q \in Resources : q <= up => left'[q] = {}
    BY <2>1, <2>3 DEF Resources
  <2>7. \A q \in Resources : \E o \in Calls \cup {Nobody} : left'[q] \subseteq {o}
    BY <2>3 DEF Service, WorkIsOwned
  <2>8. \A d \in Calls : task[d] \notin {"made", "execute", "cleanup"} /\ todo[d] = {}
    BY <2>1 DEF Unsettled, Service, WorkIsOwned
  <2>12. /\ ready' <=> life' = "up"
         /\ life' = "up" => ~poisoned' /\ up = NumResources
         /\ life' = "start" => ~poisoned' /\ up < NumResources
         /\ life' \in {"settle", "up", "start"}
    <3>1. ready' <=> life' = "up"
      BY <2>4, Zenon
    <3>2. CASE poisoned'
      BY <2>4, <3>1, <3>2
    <3>3. CASE ~poisoned' /\ up = NumResources
      BY <2>4, <3>1, <3>3
    <3>4. CASE ~poisoned' /\ up # NumResources
      BY <2>4, <3>1, <3>4
    <3> QED
      BY <3>2, <3>3, <3>4
  <2>9. ready' => ~poisoned' /\ \A q \in Resources : left'[q] = {}
    BY <2>6, <2>12 DEF Resources
  <2>10. WorkIsOwned'
    BY <2>3, <2>4, <2>7, <2>8, <2>9 DEF WorkIsOwned
  <2>11. LifeFits'
    BY <2>1, <2>3, <2>4, <2>5, <2>6, <2>12 DEF LifeFits
  <2> QED
    BY <2>5, <2>10, <2>11 DEF Service
<1>5. CASE SettleActive
  <2>1. ~ready /\ todo[Nobody] = {} /\ up > 0
    BY <1>5 DEF SettleActive, Service, LifeFits
  <2>2. /\ UNCHANGED <<up, ready, poisoned, active, inv, task, left>>
        /\ \/ /\ active = Nobody \/ task[active] = "done"
              /\ life' = "cleanup" /\ BeginCleanup(Nobody, 1..up)
           \/ UNCHANGED <<life, todo, clean>>
    BY <1>5 DEF SettleActive, calls
  <2>3. /\ \A d \in Calls : todo'[d] = todo[d] /\ clean'[d] = clean[d]
        /\ life' = "cleanup" \/ UNCHANGED <<life, todo, clean>>
    BY <2>2 DEF BeginCleanup, TypeOK, ServiceTypeOK
  <2>4. SlotIsTaken' /\ Unsettled' = Unsettled /\ WorkIsOwned'
    BY <1>1, <1>2, <2>2, <2>3
  <2>5. active = Nobody \/ task[active] = "done" => Unsettled = {}
    BY DEF Service, SlotIsTaken, Unsettled
  <2>6. LifeFits'
    BY <1>5, <2>1, <2>2, <2>3, <2>4, <2>5 DEF SettleActive, Service, LifeFits
  <2> QED
    BY <2>4, <2>6 DEF Service
<1>6. CASE FinalCleanup
  <2>1. ~ready /\ Unsettled = {} /\ up > 0
    BY <1>6 DEF FinalCleanup, Service, LifeFits
  <2>2. PICK r \in todo[Nobody], confirmed \in BOOLEAN :
           /\ todo' = [todo EXCEPT ![Nobody] = @ \ {r}]
           /\ left' = [left EXCEPT ![r] = IF confirmed \/ @ = {} THEN {} ELSE {Nobody}]
           /\ clean' = [clean EXCEPT ![Nobody] = todo[Nobody] = {r} \/ (@ /\ confirmed)]
           /\ poisoned' = (poisoned \/ (todo[Nobody] = {r} /\ ~(clean[Nobody] /\ confirmed)))
    BY <1>6, VisitIs DEF FinalCleanup
  <2>3. /\ \A d \in Calls : todo'[d] = todo[d] /\ clean'[d] = clean[d]
        /\ \A q \in Resources : left'[q] \subseteq {Nobody} \/ left'[q] = left[q]
    BY <2>2 DEF TypeOK, ServiceTypeOK
  <2>4. /\ life' = IF todo'[Nobody] = {} THEN "close" ELSE "cleanup"
        /\ UNCHANGED <<up, ready, active, inv, task, told>>
    BY <1>6 DEF FinalCleanup, calls
  <2>5. SlotIsTaken' /\ Unsettled' = {}
    BY <1>1, <2>1, <2>4
  <2>6. LifeFits'
    BY <2>1, <2>4, <2>5 DEF LifeFits
  <2>7. \A q \in Resources : \E o \in Calls \cup {Nobody} : left'[q] \subseteq {o}
    BY <2>3 DEF Service, WorkIsOwned
  <2>8. \A d \in Calls : task[d] \notin {"made", "execute", "cleanup"} /\ todo[d] = {}
    BY <2>1 DEF Unsettled, Service, WorkIsOwned
  <2>9. WorkIsOwned'
    BY <2>1, <2>3, <2>4, <2>7, <2>8 DEF WorkIsOwned
  <2> QED
    BY <2>5, <2>6, <2>9 DEF Service
<1>7. CASE CloseResource
  <2>1. ~ready /\ Unsettled = {} /\ up > 0 /\ todo[Nobody] = {}
    BY <1>7 DEF CloseResource, Service, LifeFits
  <2>2. /\ UNCHANGED <<ready, active, inv, task, todo, clean, left>>
        /\ up' = up - 1 /\ life' = IF up' = 0 THEN "over" ELSE "close"
    BY <1>7 DEF CloseResource, calls
  <2>3. SlotIsTaken' /\ Unsettled' = {} /\ WorkIsOwned'
    BY <1>1, <1>2, <2>1, <2>2
  <2>4. LifeFits'
    BY <2>1, <2>2, <2>3 DEF LifeFits
  <2> QED
    BY <2>3, <2>4 DEF Service
<1> QED
  BY <1>3, <1>4, <1>5, <1>6, <1>7 DEF Lifespan

\* A call that leaves is not the active one.
LEMMA LeaversAreIdle ==
  ASSUME TypeOK, Service, Handlers, NEW c \in Calls,
         (Over(c) /\ inv[c] \notin Busy) \/ Leaves(c)
  PROVE  /\ \A d \in Calls : inv'[d] \in Busy <=> inv[d] \in Busy
         /\ \A d \in Calls : task'[d] = task[d] \/ {task[d], task'[d]} \subseteq {"none", "done"}
<1>1. CASE UNCHANGED <<inv, task>>
  BY <1>1
<1>2. CASE Over(c) /\ inv[c] \notin Busy
  <2>1. c \notin Unsettled
    BY <1>2 DEF Service, SlotIsTaken
  <2>2. task[c] \in {"none", "done"}
    BY <2>1 DEF Unsettled, TypeOK, ServiceTypeOK
  <2> QED
    BY <1>2, <2>2 DEF Over, Busy, TypeOK, ServiceTypeOK
<1> QED
  BY <1>1, <1>2 DEF Leaves, Busy

\* Every step of the service and of the transport around it.
LEMMA ServiceStep == ASSUME IInv, [Next]_vars PROVE Service'
<1>0. TypeOK /\ Service /\ Handlers
  BY DEF IInv
<1> USE <1>0
<1>1. ASSUME NEW s \in Sids, Session(s) PROVE Service'
  <2>1. CASE RunEnds(s)
    <3>1. \A c \in Calls : inv'[c] \in Busy <=> inv[c] \in Busy
      BY <2>1 DEF RunEnds, Busy, TypeOK, ServiceTypeOK
    <3>2. poisoned => poisoned'
      BY <2>1 DEF RunEnds, TypeOK, ServiceTypeOK
    <3> QED
      BY <2>1, <3>1, <3>2, ServiceFrame DEF RunEnds
  <2>2. CASE UNCHANGED <<life, up, ready, active, inv, task, todo, clean, left>> /\ (poisoned => poisoned')
    BY <2>2, ServiceFrame
  <2> QED
    BY <1>1, <2>1, <2>2 DEF Session, RetireStep, Open, Connect, OpenerGoesOn, OpenerAnswered, Notified,
       Get, GetEnds, Delete, Expire, RetireCancel, RetireSettled, RetireStarted, RetireAgain,
       RetireDrained, RetireLeaves, Terminate, TerminateFails, service, calls
<1>2. ASSUME NEW c \in Calls, Request(c) PROVE Service'
  <2>1. ASSUME NEW s \in Sids, NEW i \in Ids, Post(c, s, i) PROVE Service'
    BY <2>1, ServiceFrame DEF Post, service
  <2>2. CASE BodyRead(c)
    <3>1. inv[c] = "none"
      BY <2>2 DEF BodyRead, Handlers
    <3>2. CASE Over(c)
      BY <2>2, <3>1, <3>2, LeaversAreIdle, ServiceFrame DEF BodyRead, Busy
    <3>3. CASE inv' = [inv EXCEPT ![c] = "queued"] /\ UNCHANGED task
      BY <2>2, <3>1, <3>3, ServiceFrame DEF BodyRead, Busy, TypeOK, ServiceTypeOK
    <3> QED
      BY <2>2, <3>2, <3>3 DEF BodyRead
  <2>3. CASE Dispatch(c)
    BY <2>3, ServiceInvoke DEF Dispatch, SessionOpen
  <2>4. CASE SdkCancels(c)
    <3>1. UNCHANGED <<life, up, ready, poisoned, active, task, todo, clean, left>>
      BY <2>4 DEF SdkCancels, CancelInvocation
    <3>2. \A d \in Calls : inv'[d] \in Busy <=> inv[d] \in Busy
      BY <2>4 DEF SdkCancels, CancelInvocation, Busy, TypeOK, ServiceTypeOK
    <3> QED
      BY <3>1, <3>2, ServiceFrame
  <2>5. CASE HandlerReturns(c) \/ HandlerLeaves(c)
    <3>1. UNCHANGED <<life, up, ready, poisoned, active, todo, clean, left>>
      BY <2>5 DEF HandlerReturns, HandlerLeaves, unhandled
    <3>2. CASE Leaves(c)
      BY <3>1, <3>2, LeaversAreIdle, ServiceFrame
    <3>3. CASE UNCHANGED <<inv, task>>
      BY <3>1, <3>3, ServiceFrame
    <3> QED
      BY <2>5, <3>2, <3>3 DEF HandlerReturns, HandlerLeaves
  <2>6. CASE Outlasted(c)
    BY <2>6, LeaversAreIdle, ServiceFrame DEF Outlasted, Busy
  <2> QED
    BY <1>2, <2>1, <2>2, <2>3, <2>4, <2>5, <2>6 DEF Request
<1>3. CASE Shutdown \/ SessionsRetired
  <2>1. /\ UNCHANGED <<up, poisoned, active, inv, task, todo, clean, left>>
        /\ ready' => ready
        /\ \/ life = "up" /\ life' = "retiring" /\ ~ready'
           \/ life = "retiring" /\ life' = "settle" /\ ready' = ready
    BY <1>3 DEF Shutdown, SessionsRetired, calls
  <2>2. Unsettled' = Unsettled
    BY <2>1 DEF Unsettled
  <2>3. SlotIsTaken' /\ WorkIsOwned'
    BY <2>1, <2>2 DEF Service, SlotIsTaken, WorkIsOwned
  <2>4. LifeFits'
    BY <2>1, <2>2, UsesAssumption DEF Service, LifeFits
  <2> QED
    BY <2>3, <2>4 DEF Service
<1>4. CASE UNCHANGED vars
  BY <1>4, ServiceFrame DEF vars, service
<1> QED
  BY <1>1, <1>2, <1>3, <1>4, ServiceCall, ServiceLifespan DEF Next

-----------------------------------------------------------------------------
(* Handlers.                                                                 *)

\* What settles, ends or is retired leaves the handlers as they are.
LEMMA HandlersFrame ==
  ASSUME Handlers, UNCHANGED <<handler, sess, rid, ids>>, Unsettled' \subseteq Unsettled,
         \A c \in Calls : inv'[c] = "none" <=> inv[c] = "none"
  PROVE  Handlers'
BY DEF Handlers

\* The leave of a handler (the finally of dispatch) frees the id of its call, whose task has settled.
LEMMA HandlersLeave ==
  ASSUME IInv, NEW c \in Calls, handler[c] \in Answering, c \notin Unsettled, IdFreed(c), Leaves(c)
  PROVE  Handlers'
<1>0. TypeOK /\ Handlers
  BY DEF IInv
<1>1. sess[c] \in Sids /\ sess[c] # Nobody /\ rid[c] \in Ids /\ inv[c] # "none"
  BY <1>0, NamesAssumption DEF Handlers, Answering, TypeOK, HTTPTypeOK
<1>2. \A s \in Sids : ids'[s] = IF s = sess[c] THEN ids[s] \ {rid[c]} ELSE ids[s]
  BY <1>0, <1>1 DEF IdFreed, TypeOK, HTTPTypeOK
<1>3. \A d \in Calls : d # c => /\ handler'[d] = handler[d] /\ sess'[d] = sess[d]
                                /\ rid'[d] = rid[d] /\ inv'[d] = inv[d] /\ task'[d] = task[d]
  BY <1>0 DEF Leaves, Over, TypeOK, HTTPTypeOK, ServiceTypeOK
<1>4. \/ handler'[c] = "none" /\ sess'[c] = Nobody /\ inv'[c] = "none" /\ task'[c] = "none"
      \/ /\ handler'[c] = "left" /\ sess'[c] = sess[c] /\ inv'[c] = inv[c] /\ task'[c] = task[c]
         /\ rid'[c] = rid[c]
  BY <1>0 DEF Leaves, Over, TypeOK, HTTPTypeOK, ServiceTypeOK
<1>5. Unsettled' \subseteq Unsettled \ {c}
  BY <1>3, <1>4 DEF Unsettled
<1>6. \A d \in Calls : handler'[d] \in Answering => d # c /\ handler[d] \in Answering
  BY <1>3, <1>4 DEF Answering
<1>7. \A d \in Calls : handler[d] \in Answering => sess[d] \in Sids
  BY <1>0 DEF Handlers, Answering, TypeOK, HTTPTypeOK
<1>8. \A d \in Calls : handler'[d] \in Answering => rid'[d] \in ids'[sess'[d]]
  <2> SUFFICES ASSUME NEW d \in Calls, handler'[d] \in Answering PROVE rid[d] \in ids'[sess[d]]
    BY <1>3, <1>6
  <2>1. d # c /\ handler[d] \in Answering /\ rid[d] \in ids[sess[d]] /\ sess[d] \in Sids
    BY <1>0, <1>6, <1>7 DEF Handlers
  <2>2. ~(sess[d] = sess[c] /\ rid[d] = rid[c])
    BY <1>0, <2>1 DEF Handlers
  <2> QED
    BY <1>2, <2>1, <2>2
<1>9. \A d \in Unsettled' : handler'[d] \in Answering
  BY <1>0, <1>3, <1>5 DEF Handlers, Unsettled
<1>10. \A d \in Calls : /\ handler'[d] \in {"none", "body"} <=> inv'[d] = "none"
                        /\ handler'[d] = "none" <=> sess'[d] = Nobody
                        /\ sess'[d] # Nobody => rid'[d] \in Ids
  BY <1>0, <1>1, <1>3, <1>4 DEF Handlers
<1>11. \A d, e \in Calls :
         handler'[d] \in Answering /\ handler'[e] \in Answering /\ sess'[d] = sess'[e] /\ rid'[d] = rid'[e]
           => d = e
  BY <1>0, <1>3, <1>6 DEF Handlers
<1> QED
  BY <1>8, <1>9, <1>10, <1>11 DEF Handlers

\* A call begins as long as its handler answers for it: one whose handler has left is one of a
\* session that is closing.
LEMMA AdmittedIsAnswered ==
  ASSUME IInv, NEW c \in Calls, inv[c] = "queued", SessionOpen(sess[c])
  PROVE  handler[c] = "dispatch"
BY DEF IInv, Sessions, CallFits, SessionOpen

\* A handler that does not answer for its call, before and after a step of it.
LEMMA HandlersAside ==
  ASSUME Handlers, NEW c \in Calls, UNCHANGED ids, Unsettled' \subseteq Unsettled \ {c},
         handler[c] \notin Answering, handler'[c] \notin Answering,
         \A d \in Calls : d # c => /\ handler'[d] = handler[d] /\ sess'[d] = sess[d]
                                  /\ rid'[d] = rid[d] /\ inv'[d] = inv[d],
         handler'[c] \in {"none", "body"} <=> inv'[c] = "none",
         handler'[c] = "none" <=> sess'[c] = Nobody, sess'[c] # Nobody => rid'[c] \in Ids
  PROVE  Handlers'
<1>1. \A d \in Calls : /\ handler'[d] \in {"none", "body"} <=> inv'[d] = "none"
                       /\ handler'[d] = "none" <=> sess'[d] = Nobody
                       /\ sess'[d] # Nobody => rid'[d] \in Ids
  BY DEF Handlers
<1>2. \A d \in Calls : handler'[d] \in Answering => d # c /\ handler[d] \in Answering
  OBVIOUS
<1>3. \A d \in Calls : handler'[d] \in Answering => rid'[d] \in ids'[sess'[d]]
  BY <1>2 DEF Handlers
<1>4. \A d, e \in Calls :
         handler'[d] \in Answering /\ handler'[e] \in Answering /\ sess'[d] = sess'[e] /\ rid'[d] = rid'[e]
           => d = e
  BY <1>2 DEF Handlers
<1>5. \A d \in Unsettled' : handler'[d] \in Answering
  BY DEF Handlers, Unsettled
<1> QED
  BY <1>1, <1>3, <1>4, <1>5 DEF Handlers

\* A handler's own steps.
LEMMA HandlersRequest ==
  ASSUME IInv, NEW c \in Calls, Request(c)
  PROVE  Handlers'
<1>0. TypeOK /\ Handlers /\ Service /\ Nobody \notin Calls
  BY UsesAssumption DEF IInv
<1> USE <1>0
<1>1. ASSUME NEW s \in Sids, NEW i \in Ids, Post(c, s, i) PROVE Handlers'
  <2>1. /\ handler[c] = "none" /\ inv[c] = "none" /\ c \notin Unsettled /\ s # Nobody
        /\ UNCHANGED <<inv, task, ids>>
    BY <1>1, NamesAssumption DEF Post, Handlers, Answering, service
  <2>2. /\ handler'[c] = "body" /\ sess'[c] = s /\ rid'[c] = i
        /\ \A d \in Calls : d # c => /\ handler'[d] = handler[d] /\ sess'[d] = sess[d]
                                     /\ rid'[d] = rid[d]
    BY <1>1 DEF Post, TypeOK, HTTPTypeOK
  <2>3. Unsettled' = Unsettled
    BY <2>1 DEF Unsettled
  <2> QED
    BY <2>1, <2>2, <2>3, HandlersAside DEF Answering
<1>2. CASE BodyRead(c) /\ Over(c) /\ UNCHANGED ids
  <2>1. handler[c] = "body" /\ inv[c] = "none" /\ c \notin Unsettled
    BY <1>2 DEF BodyRead, Handlers, Answering
  <2>2. /\ handler'[c] = "none" /\ sess'[c] = Nobody /\ inv'[c] = "none" /\ task'[c] = "none"
        /\ \A d \in Calls : d # c => /\ handler'[d] = handler[d] /\ sess'[d] = sess[d]
                                     /\ rid'[d] = rid[d] /\ inv'[d] = inv[d] /\ task'[d] = task[d]
    BY <1>2 DEF Over, TypeOK, HTTPTypeOK, ServiceTypeOK
  <2>3. Unsettled' \subseteq Unsettled \ {c}
    BY <2>2 DEF Unsettled
  <2> QED
    BY <1>2, <2>1, <2>2, <2>3, HandlersAside DEF Answering
<1>3. CASE /\ BodyRead(c)
           /\ rid[c] \notin ids[sess[c]]
           /\ handler' = [handler EXCEPT ![c] = "dispatch"]
           /\ ids' = [ids EXCEPT ![sess[c]] = @ \cup {rid[c]}]
           /\ inv' = [inv EXCEPT ![c] = "queued"]
           /\ UNCHANGED <<task, told, sess, rid>>
  <2>1. handler[c] = "body" /\ inv[c] = "none" /\ c \notin Unsettled /\ sess[c] \in Sids
    BY <1>3 DEF BodyRead, Handlers, Answering, TypeOK, HTTPTypeOK
  <2>2. /\ handler'[c] = "dispatch" /\ inv'[c] = "queued"
        /\ \A d \in Calls : d # c => handler'[d] = handler[d] /\ inv'[d] = inv[d]
        /\ \A s \in Sids : ids'[s] = IF s = sess[c] THEN ids[s] \cup {rid[c]} ELSE ids[s]
    BY <1>3, <2>1 DEF TypeOK, HTTPTypeOK, ServiceTypeOK
  <2>3. Unsettled' = Unsettled
    BY <1>3 DEF Unsettled
  <2>4. \A d \in Calls : handler[d] \in Answering =>
          /\ sess[d] \in Sids /\ rid[d] \in ids[sess[d]]
          /\ sess[d] = sess[c] => rid[d] # rid[c]
    BY <1>3 DEF Handlers, Answering, TypeOK, HTTPTypeOK
  <2>5. \A d \in Calls : handler'[d] \in Answering => rid'[d] \in ids'[sess'[d]]
    BY <1>3, <2>1, <2>2, <2>4
  <2>6. \A d, e \in Calls :
          handler'[d] \in Answering /\ handler'[e] \in Answering /\ sess'[d] = sess'[e] /\ rid'[d] = rid'[e]
            => d = e
    BY <1>3, <2>2, <2>4 DEF Handlers
  <2>7. \A d \in Calls : /\ handler'[d] \in {"none", "body"} <=> inv'[d] = "none"
                         /\ handler'[d] = "none" <=> sess'[d] = Nobody
                         /\ sess'[d] # Nobody => rid'[d] \in Ids
    BY <1>3, <2>1, <2>2 DEF Handlers
  <2>8. \A d \in Unsettled' : handler'[d] \in Answering
    BY <2>1, <2>2, <2>3 DEF Handlers, Unsettled
  <2> QED
    BY <2>5, <2>6, <2>7, <2>8 DEF Handlers
<1>4. CASE Dispatch(c)
  <2>1. inv[c] = "queued" /\ Invoke(c, SessionOpen(sess[c])) /\ UNCHANGED <<handler, sess, rid, ids>>
    BY <1>4 DEF Dispatch, http
  <2>2. CASE inv' = [inv EXCEPT ![c] = "ended"] /\ UNCHANGED <<task, active>>
    <3>1. Unsettled' = Unsettled /\ \A d \in Calls : inv'[d] = "none" <=> inv[d] = "none"
      BY <2>1, <2>2 DEF Unsettled, TypeOK, ServiceTypeOK
    <3> QED
      BY <2>1, <3>1, HandlersFrame
  <2>3. CASE SessionOpen(sess[c]) /\ inv' = [inv EXCEPT ![c] = "waiting"]
             /\ task' = [task EXCEPT ![c] = "made"]
    <3>1. handler[c] = "dispatch"
      BY <2>1, <2>3, AdmittedIsAnswered
    <3>2. Unsettled' \subseteq Unsettled \cup {c} /\ \A d \in Calls : inv'[d] = "none" <=> inv[d] = "none"
      BY <2>1, <2>3 DEF Unsettled, TypeOK, ServiceTypeOK
    <3> QED
      BY <2>1, <3>1, <3>2 DEF Handlers, Answering
  <2> QED
    BY <2>1, <2>2, <2>3 DEF Invoke
<1>5. CASE SdkCancels(c)
  <2>1. /\ UNCHANGED <<handler, sess, rid, ids, task>>
        /\ \A d \in Calls : inv'[d] = "none" <=> inv[d] = "none"
    BY <1>5 DEF SdkCancels, CancelInvocation, http, TypeOK, ServiceTypeOK
  <2>2. Unsettled' = Unsettled
    BY <2>1 DEF Unsettled
  <2> QED
    BY <2>1, <2>2, HandlersFrame
<1>6. CASE HandlerReturns(c)
  <2>1. CASE active # c /\ IdFreed(c) /\ Leaves(c)
    <3>1. handler[c] \in Answering /\ c \notin Unsettled
      BY <1>6, <2>1 DEF HandlerReturns, Handled, Answering, Service, SlotIsTaken
    <3> QED
      BY <2>1, <3>1, HandlersLeave
  <2>2. CASE handler' = [handler EXCEPT ![c] = "drain"] /\ UNCHANGED <<ids, sess, rid, inv, task, told>>
    <3>1. handler[c] = "dispatch" /\ handler'[c] = "drain" /\ Unsettled' = Unsettled
          /\ \A d \in Calls : d # c => handler'[d] = handler[d]
      BY <1>6, <2>2 DEF HandlerReturns, Handled, Unsettled, TypeOK, HTTPTypeOK
    <3> QED
      BY <2>2, <3>1 DEF Handlers, Answering
  <2> QED
    BY <1>6, <2>1, <2>2 DEF HandlerReturns
<1>7. CASE HandlerLeaves(c)
  <2>1. handler[c] \in Answering /\ c \notin Unsettled
    BY <1>7 DEF HandlerLeaves, Answering, Unsettled
  <2> QED
    BY <1>7, <2>1, HandlersLeave DEF HandlerLeaves
<1>8. CASE Outlasted(c)
  <2>1. handler[c] = "left" /\ c \notin Unsettled /\ UNCHANGED ids
    BY <1>8 DEF Outlasted, Handlers, Answering
  <2>2. /\ handler'[c] = "none" /\ sess'[c] = Nobody /\ inv'[c] = "none" /\ task'[c] = "none"
        /\ \A d \in Calls : d # c => /\ handler'[d] = handler[d] /\ sess'[d] = sess[d]
                                     /\ rid'[d] = rid[d] /\ inv'[d] = inv[d] /\ task'[d] = task[d]
    BY <1>8 DEF Outlasted, Over, TypeOK, HTTPTypeOK, ServiceTypeOK
  <2>3. Unsettled' \subseteq Unsettled \ {c}
    BY <2>2 DEF Unsettled
  <2> QED
    BY <2>1, <2>2, <2>3, HandlersAside DEF Answering
<1> QED
  BY <1>1, <1>2, <1>3, <1>4, <1>5, <1>6, <1>7, <1>8 DEF Request, BodyRead

\* Every step of the service and of the transport around it.
LEMMA HandlersStep == ASSUME IInv, [Next]_vars PROVE Handlers'
<1>0. TypeOK /\ Handlers /\ Service
  BY DEF IInv
<1>1. ASSUME UNCHANGED <<handler, sess, rid, ids, inv, task>> PROVE Handlers'
  BY <1>0, <1>1, HandlersFrame DEF Unsettled
<1>2. ASSUME NEW s \in Sids, Session(s) PROVE Handlers'
  <2>1. CASE RunEnds(s)
    <3>1. \A c \in Calls : inv'[c] = "none" <=> inv[c] = "none"
      BY <1>0, <2>1 DEF RunEnds, TypeOK, ServiceTypeOK
    <3>2. Unsettled' = Unsettled /\ UNCHANGED <<handler, sess, rid, ids>>
      BY <2>1 DEF RunEnds, Unsettled
    <3> QED
      BY <1>0, <3>1, <3>2, HandlersFrame
  <2> QED
    BY <1>1, <1>2, <2>1 DEF Session, RetireStep, Open, Connect, OpenerGoesOn, OpenerAnswered, Notified,
       Get, GetEnds, Delete, Expire, RetireCancel, RetireSettled, RetireStarted, RetireAgain,
       RetireDrained, RetireLeaves, Terminate, TerminateFails, service, calls
<1>3. ASSUME NEW c \in Calls, CallStep(c) /\ UNCHANGED http PROVE Handlers'
  <2>1. \A d \in Calls : inv'[d] = "none" <=> inv[d] = "none"
    BY <1>0, <1>3 DEF CallStep, Begin, ExecuteEnds, CallCleanup, Timeout, Returns, TypeOK, ServiceTypeOK
  <2>2. Unsettled' \subseteq Unsettled
    BY <1>0, <1>3 DEF CallStep, Begin, ExecuteEnds, CallCleanup, Timeout, Returns, Unsettled, TypeOK,
       ServiceTypeOK
  <2> QED
    BY <1>0, <1>3, <2>1, <2>2, HandlersFrame DEF http
<1>4. CASE Shutdown \/ SessionsRetired \/ (Lifespan /\ UNCHANGED http) \/ UNCHANGED vars
  BY <1>1, <1>4 DEF Shutdown, SessionsRetired, Lifespan, Start, Recover, SettleActive, FinalCleanup,
     CloseResource, calls, http, vars, service
<1> QED
  BY <1>1, <1>2, <1>3, <1>4, HandlersRequest DEF Next

-----------------------------------------------------------------------------
(* Sessions.                                                                 *)

registry == <<reg, run, opener, initialized, closing, retiring, get>>

\* What settles or ends in the service leaves the sessions as they are.
LEMMA SessionsFrame ==
  ASSUME TypeOK, Sessions, UNCHANGED <<registry, sess, handler>>, Unsettled' \subseteq Unsettled,
         \A c \in Calls : inv'[c] \in Busy \cup {"queued"} => inv[c] \in Busy \cup {"queued"},
         \A c \in Calls : inv'[c] = "queued" => inv[c] = "queued",
         \A c \in Calls : inv[c] = "ended" => inv'[c] = "ended"
  PROVE  Sessions'
<1>1. ASSUME NEW s \in Sids PROVE SessionFits(s)'
  BY DEF Sessions, SessionFits, Quiet, registry
<1>2. ASSUME NEW c \in Calls PROVE CallFits(c)'
  BY DEF Sessions, CallFits, registry
<1> QED
  BY <1>1, <1>2 DEF Sessions

\* One call's step: it stays with its session, leaves it, or comes to one in the registry.
LEMMA SessionsCall ==
  ASSUME TypeOK, Sessions, NEW c \in Calls, UNCHANGED registry, Unsettled' \subseteq Unsettled,
         \A d \in Calls : d # c => handler'[d] = handler[d] /\ sess'[d] = sess[d] /\ inv'[d] = inv[d],
         c \in Unsettled' => sess'[c] = sess[c],
         sess'[c] \in Sids => \/ sess'[c] \in reg
                              \/ handler'[c] \in {"none", "left"} /\ inv'[c] = "ended",
         CallFits(c)'
  PROVE  Sessions'
<1>1. ASSUME NEW s \in Sids PROVE SessionFits(s)'
  <2>1. SessionFits(s) /\ Unsettled \subseteq Calls
    BY DEF Sessions, Unsettled
  <2>2. \A d \in Unsettled' : d \in Unsettled /\ sess'[d] = sess[d]
    BY <2>1
  <2>3. s \notin reg => Quiet(s)' /\ \A d \in Calls : sess'[d] = s => inv'[d] = "ended"
    BY <2>1 DEF SessionFits, Quiet, registry
  <2> QED
    BY <2>1, <2>2, <2>3 DEF SessionFits, registry
<1>2. ASSUME NEW d \in Calls PROVE CallFits(d)'
  BY DEF Sessions, CallFits, registry
<1> QED
  BY <1>1, <1>2 DEF Sessions

\* One session's step.
LEMMA SessionsOne ==
  ASSUME TypeOK, Sessions, Handlers, NEW s \in Sids, UNCHANGED <<sess, handler, task>>,
         \A q \in Sids \ {s} :
           /\ q \in reg' <=> q \in reg
           /\ run'[q] = run[q] /\ opener'[q] = opener[q] /\ initialized'[q] = initialized[q]
           /\ closing'[q] = closing[q] /\ retiring'[q] = retiring[q] /\ get'[q] = get[q],
         \A c \in Calls : sess[c] # s => inv'[c] = inv[c],
         SessionFits(s)', \A c \in Calls : sess[c] = s => CallFits(c)'
  PROVE  Sessions'
<1>1. Unsettled' = Unsettled /\ Unsettled \subseteq Calls
  BY DEF Unsettled
<1>2. ASSUME NEW q \in Sids PROVE SessionFits(q)'
  <2>1. CASE q # s
    <3>1. SessionFits(q)
      BY DEF Sessions
    <3>2. Quiet(q)' <=> Quiet(q)
      BY <2>1 DEF Quiet
    <3> QED
      BY <1>1, <2>1, <3>1, <3>2 DEF SessionFits
  <2> QED
    BY <2>1
<1>3. ASSUME NEW c \in Calls PROVE CallFits(c)'
  <2>1. CASE sess[c] \in Sids \ {s}
    BY <2>1 DEF Sessions, CallFits
  <2>2. CASE sess[c] = Nobody
    <3>1. inv[c] = "none" /\ sess[c] # s
      BY <2>2, NamesAssumption DEF Handlers
    <3> QED
      BY <3>1 DEF CallFits, Busy
  <2> QED
    BY <2>1, <2>2 DEF TypeOK, HTTPTypeOK
<1> QED
  BY <1>2, <1>3 DEF Sessions

\* Marking one session leaves the others.
LEMMA RetireOne ==
  ASSUME TypeOK, NEW s \in Sids, Retire({s})
  PROVE  /\ closing'[s] /\ retiring'[s] = IF retiring[s] = "none" THEN "cancel" ELSE retiring[s]
         /\ \A q \in Sids \ {s} : closing'[q] = closing[q] /\ retiring'[q] = retiring[q]
<1>1. \A q \in Sids : /\ closing'[q] = (closing[q] \/ q \in {s})
                      /\ retiring'[q] = IF q \in {s} /\ retiring[q] = "none" THEN "cancel" ELSE retiring[q]
  BY DEF Retire
<1>2. \A q \in Sids : closing[q] \in BOOLEAN /\ closing'[q] \in BOOLEAN
  BY RetireTypes DEF TypeOK, HTTPTypeOK
<1>3. closing'[s]
  BY <1>1
<1>4. \A q \in Sids \ {s} : closing'[q] = closing[q]
  BY <1>1, <1>2
<1> QED
  BY <1>1, <1>3, <1>4

\* A session's own steps: it opens, is used, is retired and leaves the registry.
LEMMA SessionsSession ==
  ASSUME IInv, NEW s \in Sids, Session(s)
  PROVE  Sessions'
<1>0. TypeOK /\ Sessions /\ Handlers /\ Service /\ SessionFits(s)
  BY DEF IInv, Sessions
<1> USE <1>0
<1>a. /\ run[s] \in {"connecting", "running", "terminated", "done"}
      /\ retiring[s] \in Calls \cup Stages /\ closing[s] \in BOOLEAN /\ initialized[s] \in BOOLEAN
      /\ \A c \in Stages : c \notin Calls
      /\ Stages = {"none", "cancel", "started", "terminate", "backoff", "drain", "requests"}
  BY NamesAssumption DEF TypeOK, HTTPTypeOK, Stages
<1>b. \A c \in Calls : sess[c] = s => CallFits(c)
  BY DEF Sessions
<1>c. ASSUME UNCHANGED <<reg, sess, handler, task>>,
             \A q \in Sids \ {s} :
               /\ run'[q] = run[q] /\ opener'[q] = opener[q] /\ initialized'[q] = initialized[q]
               /\ closing'[q] = closing[q] /\ retiring'[q] = retiring[q] /\ get'[q] = get[q],
             \A c \in Calls : sess[c] # s => inv'[c] = inv[c],
             SessionFits(s)', \A c \in Calls : sess[c] = s => CallFits(c)'
      PROVE  Sessions'
  BY <1>c, SessionsOne
<1>d. ASSUME UNCHANGED task PROVE Unsettled' = Unsettled
  BY <1>d DEF Unsettled
<1>1. CASE Open(s)
  <2>1. /\ s \notin reg /\ reg' = reg \cup {s} /\ run'[s] = "connecting"
        /\ \A q \in Sids \ {s} : run'[q] = run[q] /\ opener'[q] = opener[q]
        /\ UNCHANGED <<inv, task, sess, handler, initialized, closing, retiring, get>>
    BY <1>1 DEF Open, service, TypeOK, HTTPTypeOK
  <2>2. SessionFits(s)'
    BY <1>a, <1>d, <2>1 DEF SessionFits
  <2>3. \A c \in Calls : sess[c] = s => CallFits(c)'
    BY <2>1 DEF SessionFits, CallFits, Busy
  <2> QED
    BY <2>1, <2>2, <2>3, SessionsOne
<1>2. CASE Connect(s)
  <2>1. /\ run[s] = "connecting" /\ s \in reg
        /\ UNCHANGED <<reg, inv, task, sess, handler, opener, initialized, get>>
        /\ \A q \in Sids \ {s} : run'[q] = run[q]
    BY <1>2 DEF Connect, calls, SessionFits, TypeOK, HTTPTypeOK
  <2>2. \/ run'[s] = "running" /\ UNCHANGED <<closing, retiring>>
        \/ run'[s] = "done" /\ Retire({s})
    BY <1>2 DEF Connect, TypeOK, HTTPTypeOK
  <2>3. \A q \in Sids \ {s} : closing'[q] = closing[q] /\ retiring'[q] = retiring[q]
    BY <2>2, RetireOne
  <2>4. \/ run'[s] = "running" /\ closing'[s] = closing[s] /\ retiring'[s] = retiring[s]
        \/ /\ run'[s] = "done" /\ closing'[s]
           /\ retiring'[s] = IF retiring[s] = "none" THEN "cancel" ELSE retiring[s]
    BY <2>2, RetireOne
  <2>5. SessionFits(s)'
    BY <1>a, <1>d, <2>1, <2>4 DEF SessionFits
  <2>6. \A c \in Calls : sess[c] = s => CallFits(c)'
    BY <1>b, <2>1 DEF CallFits
  <2> QED
    BY <1>c, <2>1, <2>3, <2>5, <2>6
<1>3. CASE OpenerGoesOn(s) \/ Notified(s) \/ Get(s) \/ GetEnds(s)
  <2>1. /\ UNCHANGED <<reg, inv, task, sess, handler, run, closing, retiring>>
        /\ s \in reg
        /\ initialized'[s] # initialized[s] => run[s] = "running"
        /\ \A q \in Sids \ {s} : /\ opener'[q] = opener[q] /\ initialized'[q] = initialized[q]
                                 /\ get'[q] = get[q]
    BY <1>3 DEF OpenerGoesOn, Notified, Get, GetEnds, Reachable, SessionFits, Quiet, service, TypeOK, HTTPTypeOK
  <2>2. SessionFits(s)'
    BY <1>a, <1>d, <2>1 DEF SessionFits
  <2>3. \A c \in Calls : sess[c] = s => CallFits(c)'
    BY <1>b, <2>1 DEF CallFits
  <2> QED
    BY <1>c, <2>1, <2>2, <2>3
<1>4. CASE OpenerAnswered(s) \/ Delete(s) \/ Expire(s)
  <2>1. /\ UNCHANGED <<reg, inv, task, sess, handler, run, initialized, get>>
        /\ s \in reg
        /\ \A q \in Sids \ {s} : opener'[q] = opener[q]
        /\ UNCHANGED <<closing, retiring>> \/ Retire({s})
    BY <1>4 DEF OpenerAnswered, Delete, Expire, Reachable, SessionFits, Quiet, service, TypeOK, HTTPTypeOK
  <2>2. /\ \A q \in Sids \ {s} : closing'[q] = closing[q] /\ retiring'[q] = retiring[q]
        /\ \/ closing'[s] = closing[s] /\ retiring'[s] = retiring[s]
           \/ closing'[s] /\ retiring'[s] = IF retiring[s] = "none" THEN "cancel" ELSE retiring[s]
    BY <2>1, RetireOne
  <2>3. SessionFits(s)'
    BY <1>a, <1>d, <2>1, <2>2 DEF SessionFits
  <2>4. \A c \in Calls : sess[c] = s => CallFits(c)'
    BY <1>b, <2>1, <2>2 DEF CallFits
  <2> QED
    BY <1>c, <2>1, <2>2, <2>3, <2>4
<1>5. CASE RunEnds(s)
  <2>1. /\ UNCHANGED <<reg, task, sess, handler, opener, initialized, get>>
        /\ s \in reg /\ Retire({s}) /\ run'[s] = "done"
        /\ \A q \in Sids \ {s} : run'[q] = run[q]
    BY <1>5 DEF RunEnds, SessionFits, TypeOK, HTTPTypeOK
  <2>2. /\ \A q \in Sids \ {s} : closing'[q] = closing[q] /\ retiring'[q] = retiring[q]
        /\ closing'[s] /\ retiring'[s] = IF retiring[s] = "none" THEN "cancel" ELSE retiring[s]
    BY <2>1, RetireOne
  <2>3. \A c \in Calls : IF sess[c] = s THEN inv'[c] \in {"none", "ended"} ELSE inv'[c] = inv[c]
    BY <1>5 DEF RunEnds, CallsOf
  <2>4. SessionFits(s)'
    BY <1>a, <1>d, <2>1, <2>2 DEF SessionFits
  <2>5. \A c \in Calls : sess[c] = s => CallFits(c)'
    BY <2>1, <2>3 DEF CallFits, Busy
  <2> QED
    BY <1>c, <2>1, <2>2, <2>3, <2>4, <2>5
<1>6. ASSUME retiring[s] # "none", retiring'[s] # "none",
             UNCHANGED <<reg, inv, task, sess, handler, opener, initialized, get, closing>>,
             \A q \in Sids \ {s} : run'[q] = run[q] /\ retiring'[q] = retiring[q],
             run'[s] = run[s] \/ (run[s] = "running" /\ run'[s] = "terminated"),
             retiring'[s] = "requests" => run'[s] = "done",
             retiring'[s] \in {"started", "terminate", "drain", "requests"} =>
               \A c \in Unsettled : sess[c] # s,
             retiring'[s] \in Calls => \A c \in Unsettled : sess[c] = s => c = retiring'[s]
      PROVE  Sessions'
  <2>1. s \in reg
    BY <1>6 DEF SessionFits
  <2>2. SessionFits(s)'
    BY <1>a, <1>d, <1>6, <2>1 DEF SessionFits
  <2>3. \A c \in Calls : sess[c] = s => CallFits(c)'
    BY <1>b, <1>6 DEF CallFits
  <2> QED
    BY <1>c, <1>6, <2>2, <2>3
<1>7. CASE RetireCancel(s)
  <2>1. /\ retiring[s] = "cancel"
        /\ retiring'[s] = IF active # Nobody /\ sess[active] = s THEN active ELSE "started"
        /\ UNCHANGED <<reg, inv, task, sess, handler, run, opener, initialized, get, closing>>
        /\ \A q \in Sids \ {s} : retiring'[q] = retiring[q]
    BY <1>7 DEF RetireCancel, Moves, calls, TypeOK, HTTPTypeOK
  <2>2. \A c \in Unsettled : c \in Calls /\ c # Nobody /\ active = c
    BY UsesAssumption DEF Service, SlotIsTaken, Unsettled
  <2>3. active # Nobody => active \in Calls
    BY DEF TypeOK, ServiceTypeOK
  <2> QED
    BY <1>a, <1>6, <2>1, <2>2, <2>3
<1>8. CASE RetireSettled(s)
  <2>1. /\ retiring[s] \in Calls /\ retiring[s] \notin CallsOf(s) \cap Unsettled
        /\ retiring'[s] = "started"
        /\ UNCHANGED <<reg, inv, task, sess, handler, run, opener, initialized, get, closing>>
        /\ \A q \in Sids \ {s} : retiring'[q] = retiring[q]
    BY <1>8 DEF RetireSettled, Moves, service, TypeOK, HTTPTypeOK
  <2>2. \A c \in Unsettled : sess[c] # s
    BY <2>1 DEF SessionFits, CallsOf, Unsettled
  <2> QED
    BY <1>a, <1>6, <2>1, <2>2
<1>9. CASE RetireStarted(s) \/ RetireAgain(s) \/ RetireDrained(s) \/ Terminate(s) \/ TerminateFails(s)
  <2>1. /\ UNCHANGED <<reg, inv, task, sess, handler, opener, initialized, get, closing>>
        /\ \A q \in Sids \ {s} : retiring'[q] = retiring[q] /\ run'[q] = run[q]
        /\ run'[s] = run[s] \/ (run[s] = "running" /\ run'[s] = "terminated")
    BY <1>9 DEF RetireStarted, RetireAgain, RetireDrained, Terminate, TerminateFails, Moves, service,
       calls, TypeOK, HTTPTypeOK
  <2>2. \/ retiring[s] \in {"started", "terminate"} /\ retiring'[s] \in {"terminate", "drain"}
        \/ retiring[s] = "drain" /\ retiring'[s] = "requests" /\ run'[s] = "done"
        \/ retiring[s] \in {"terminate", "backoff"} /\ retiring'[s] \in {"backoff", "cancel"}
    BY <1>9 DEF RetireStarted, RetireAgain, RetireDrained, Terminate, TerminateFails, Moves, TypeOK, HTTPTypeOK
  <2> QED
    BY <1>a, <1>6, <2>1, <2>2 DEF SessionFits
<1>10. CASE RetireLeaves(s)
  <2>1. /\ retiring[s] = "requests" /\ Quiet(s)
        /\ reg' = reg \ {s} /\ retiring'[s] = "none" /\ ~closing'[s] /\ ~initialized'[s]
        /\ \A q \in Sids \ {s} : /\ retiring'[q] = retiring[q] /\ closing'[q] = closing[q]
                                 /\ initialized'[q] = initialized[q]
        /\ UNCHANGED <<inv, task, sess, handler, run, opener, get>>
    BY <1>10, QuietRequests DEF RetireLeaves, Moves, service, TypeOK, HTTPTypeOK
  <2>2. run[s] = "done" /\ \A c \in Unsettled : sess[c] # s
    BY <2>1 DEF SessionFits
  <2>3. \A c \in Calls : sess[c] = s => inv[c] = "ended"
    <3> SUFFICES ASSUME NEW c \in Calls, sess[c] = s PROVE inv[c] = "ended"
      OBVIOUS
    <3>1. handler[c] # "none" /\ handler[c] \in {"none", "left"}
      BY <2>1, NamesAssumption DEF Quiet, Handlers
    <3>2. inv[c] # "none" /\ inv[c] \notin Busy \cup {"queued"}
      BY <1>b, <2>2, <3>1 DEF CallFits, Handlers
    <3> QED
      BY <3>2 DEF Busy, TypeOK, ServiceTypeOK
  <2>4. SessionFits(s)'
    BY <1>a, <2>1, <2>2, <2>3 DEF SessionFits, Quiet
  <2>5. \A c \in Calls : sess[c] = s => CallFits(c)'
    BY <2>1, <2>3 DEF CallFits, Busy
  <2> QED
    BY <2>1, <2>4, <2>5, SessionsOne
<1> QED
  BY <1>1, <1>2, <1>3, <1>4, <1>5, <1>7, <1>8, <1>9, <1>10 DEF Session, RetireStep

\* A handler that leaves: its call stays with the session until its invocation is over.
LEMMA SessionsLeave ==
  ASSUME IInv, NEW c \in Calls, handler[c] \notin {"none", "body"}, Leaves(c), UNCHANGED registry,
         inv[c] = "queued" => closing[sess[c]]
  PROVE  Sessions'
<1>0. TypeOK /\ Sessions /\ Handlers /\ CallFits(c)
  BY DEF IInv, Sessions
<1>1. sess[c] \in Sids
  BY <1>0 DEF Handlers, TypeOK, HTTPTypeOK
<1>2. sess[c] \notin reg => inv[c] = "ended"
  BY <1>0, <1>1 DEF Sessions, SessionFits
<1>3. \A d \in Calls : d # c => /\ handler'[d] = handler[d] /\ sess'[d] = sess[d]
                                /\ inv'[d] = inv[d] /\ task'[d] = task[d]
  BY <1>0 DEF Leaves, Over, TypeOK, HTTPTypeOK, ServiceTypeOK
<1>4. \/ /\ handler'[c] = "none" /\ sess'[c] = Nobody /\ inv'[c] = "none" /\ task'[c] = "none"
      \/ handler'[c] = "left" /\ sess'[c] = sess[c] /\ inv'[c] = inv[c] /\ task'[c] = task[c]
  BY <1>0 DEF Leaves, Over, TypeOK, HTTPTypeOK, ServiceTypeOK
<1>5. Unsettled' \subseteq Unsettled /\ (c \in Unsettled' => sess'[c] = sess[c])
  BY <1>3, <1>4 DEF Unsettled
<1>6. CallFits(c)'
  BY <1>0, <1>4 DEF CallFits, registry, Busy
<1> QED
  BY <1>0, <1>1, <1>2, <1>3, <1>4, <1>5, <1>6, NamesAssumption, SessionsCall

\* A request's own steps.
LEMMA SessionsRequest ==
  ASSUME IInv, NEW c \in Calls, Request(c)
  PROVE  Sessions'
<1>0. TypeOK /\ Sessions /\ Handlers /\ Service /\ CallFits(c)
  BY DEF IInv, Sessions
<1> USE <1>0
<1>1. ASSUME NEW s \in Sids, NEW i \in Ids, Post(c, s, i) PROVE Sessions'
  <2>1. inv[c] = "none" /\ c \notin Unsettled /\ s \in reg
    BY <1>1 DEF Post, Reachable, Handlers, Answering
  <2>2. /\ UNCHANGED <<registry, inv, task>> /\ sess'[c] = s
        /\ \A d \in Calls : d # c => handler'[d] = handler[d] /\ sess'[d] = sess[d]
    BY <1>1 DEF Post, service, registry, TypeOK, HTTPTypeOK
  <2>3. Unsettled' = Unsettled
    BY <2>2 DEF Unsettled
  <2>4. CallFits(c)'
    BY <2>1, <2>2 DEF CallFits, Busy
  <2> QED
    BY <2>1, <2>2, <2>3, <2>4, SessionsCall DEF registry
<1>2. CASE (BodyRead(c) \/ Outlasted(c)) /\ Over(c)
  <2>1. UNCHANGED registry
    BY <1>2 DEF BodyRead, Outlasted, registry
  <2>2. /\ sess'[c] = Nobody /\ inv'[c] = "none" /\ task'[c] = "none"
        /\ \A d \in Calls : d # c => /\ handler'[d] = handler[d] /\ sess'[d] = sess[d]
                                     /\ inv'[d] = inv[d] /\ task'[d] = task[d]
    BY <1>2 DEF Over, TypeOK, HTTPTypeOK, ServiceTypeOK
  <2>3. Unsettled' \subseteq Unsettled \ {c}
    BY <2>2 DEF Unsettled
  <2>4. CallFits(c)'
    BY <2>2 DEF CallFits, Busy
  <2> QED
    BY <2>1, <2>2, <2>3, <2>4, NamesAssumption, SessionsCall
<1>3. CASE /\ BodyRead(c)
           /\ ~closing[sess[c]] /\ initialized[sess[c]]
           /\ handler' = [handler EXCEPT ![c] = "dispatch"]
           /\ inv' = [inv EXCEPT ![c] = "queued"]
           /\ UNCHANGED <<task, told, sess, rid>>
  <2>1. sess[c] \in Sids /\ UNCHANGED registry
    BY <1>3 DEF BodyRead, Handlers, registry, TypeOK, HTTPTypeOK
  <2>2. sess[c] \in reg /\ run[sess[c]] \in {"running", "terminated"}
    BY <1>3, <2>1 DEF Sessions, SessionFits, TypeOK, HTTPTypeOK
  <2>3. /\ handler'[c] = "dispatch" /\ inv'[c] = "queued" /\ Unsettled' = Unsettled
        /\ \A d \in Calls : d # c => handler'[d] = handler[d] /\ inv'[d] = inv[d]
    BY <1>3 DEF Unsettled, TypeOK, HTTPTypeOK, ServiceTypeOK
  <2>4. CallFits(c)'
    BY <1>3, <2>1, <2>2, <2>3 DEF CallFits, registry
  <2> QED
    BY <1>3, <2>1, <2>2, <2>3, <2>4, SessionsCall DEF registry
<1>4. CASE Dispatch(c)
  <2>1. /\ inv[c] = "queued" /\ Invoke(c, SessionOpen(sess[c]))
        /\ UNCHANGED <<registry, handler, sess>> /\ run[sess[c]] \in {"running", "terminated"}
    BY <1>4 DEF Dispatch, http, registry
  <2>2. CASE inv' = [inv EXCEPT ![c] = "ended"] /\ UNCHANGED <<task, active>>
    <3>1. /\ inv'[c] = "ended" /\ Unsettled' = Unsettled
          /\ \A d \in Calls : d # c => inv'[d] = inv[d]
      BY <2>1, <2>2 DEF Unsettled, TypeOK, ServiceTypeOK
    <3> QED
      BY <2>1, <3>1, SessionsFrame DEF Busy
  <2>3. CASE /\ SessionOpen(sess[c]) /\ inv' = [inv EXCEPT ![c] = "waiting"]
             /\ task' = [task EXCEPT ![c] = "made"]
    <3>1. sess[c] \in reg /\ sess[c] \in Sids /\ ~closing[sess[c]]
      BY <2>3 DEF SessionOpen, TypeOK, HTTPTypeOK
    <3>2. /\ inv'[c] = "waiting" /\ Unsettled' \subseteq Unsettled \cup {c}
          /\ \A d \in Calls : d # c => inv'[d] = inv[d]
      BY <2>3 DEF Unsettled, TypeOK, ServiceTypeOK
    <3>3. ASSUME NEW s \in Sids PROVE SessionFits(s)'
      <4>1. SessionFits(s)
        BY DEF Sessions
      <4>2. CASE s = sess[c]
        <5>1. retiring'[s] = "none" /\ s \in reg'
          BY <2>1, <3>1, <4>1, <4>2 DEF SessionFits, registry
        <5> QED
          BY <2>1, <3>1, <4>1, <4>2, <5>1, NamesAssumption DEF SessionFits, registry, Stages
      <4>3. CASE s # sess[c]
        <5>1. \A d \in Unsettled' : sess[d] = s => d \in Unsettled
          BY <3>2, <4>3
        <5>2. Quiet(s)' <=> Quiet(s)
          BY <2>1 DEF Quiet, registry
        <5> QED
          BY <2>1, <3>2, <4>1, <4>3, <5>1, <5>2 DEF SessionFits, registry
      <4> QED
        BY <4>2, <4>3
    <3>4. ASSUME NEW d \in Calls PROVE CallFits(d)'
      BY <2>1, <3>2 DEF Sessions, CallFits, registry
    <3> QED
      BY <3>3, <3>4 DEF Sessions
  <2> QED
    BY <2>1, <2>2, <2>3 DEF Invoke
<1>5. CASE SdkCancels(c)
  <2>1. UNCHANGED <<registry, handler, sess, task>>
    BY <1>5 DEF SdkCancels, CancelInvocation, http, registry
  <2>2. /\ inv[c] \in Busy \cup {"queued"} /\ inv'[c] \in {"cancelled", "ended"}
        /\ \A d \in Calls : d # c => inv'[d] = inv[d]
    BY <1>5 DEF SdkCancels, CancelInvocation, Busy, TypeOK, ServiceTypeOK
  <2>3. Unsettled' = Unsettled
    BY <2>1 DEF Unsettled
  <2> QED
    BY <2>1, <2>2, <2>3, SessionsFrame DEF Busy
<1>6. CASE HandlerReturns(c)
  <2>0. handler[c] = "dispatch" /\ UNCHANGED registry /\ sess[c] \in Sids
    BY <1>6 DEF HandlerReturns, Handled, unhandled, registry, Handlers, TypeOK, HTTPTypeOK
  <2>1. CASE Leaves(c)
    <3>1. inv[c] = "queued" => run[sess[c]] = "terminated"
      BY <1>6 DEF HandlerReturns, Handled, CallFits
    <3>2. inv[c] = "queued" => closing[sess[c]]
      BY <2>0, <3>1 DEF Sessions, SessionFits
    <3> QED
      BY <2>0, <2>1, <3>2, SessionsLeave
  <2>2. CASE /\ active = c /\ handler' = [handler EXCEPT ![c] = "drain"]
             /\ UNCHANGED <<ids, sess, rid, inv, task, told>>
    <3>1. inv[c] \in Busy
      BY <2>2 DEF Service, SlotIsTaken
    <3>2. sess[c] \in reg
      BY <2>0, <3>1 DEF Sessions, SessionFits, Busy
    <3>3. CallFits(c)'
      BY <2>0, <2>2, <3>1 DEF CallFits, registry, Busy
    <3>4. Unsettled' = Unsettled /\ \A d \in Calls : d # c => handler'[d] = handler[d]
      BY <2>2 DEF Unsettled, TypeOK, HTTPTypeOK
    <3> QED
      BY <2>0, <2>2, <3>2, <3>3, <3>4, SessionsCall DEF registry
  <2> QED
    BY <1>6, <2>1, <2>2 DEF HandlerReturns
<1>7. CASE HandlerLeaves(c)
  <2>1. handler[c] = "drain" /\ UNCHANGED registry /\ inv[c] # "queued"
    BY <1>7 DEF HandlerLeaves, unhandled, registry, CallFits
  <2> QED
    BY <1>7, <2>1, SessionsLeave DEF HandlerLeaves
<1> QED
  BY <1>1, <1>2, <1>3, <1>4, <1>5, <1>6, <1>7 DEF Request, BodyRead, Outlasted

\* Every step of the service and of the transport around it.
LEMMA SessionsStep == ASSUME IInv, [Next]_vars PROVE Sessions'
<1>0. TypeOK /\ Sessions
  BY DEF IInv
<1>1. ASSUME UNCHANGED <<registry, handler, sess, inv, task>> PROVE Sessions'
  BY <1>0, <1>1, SessionsFrame DEF Unsettled
<1>2. ASSUME NEW c \in Calls, CallStep(c) /\ UNCHANGED http PROVE Sessions'
  <2>1. UNCHANGED <<registry, handler, sess>>
    BY <1>2 DEF http, registry
  <2>2. \A d \in Calls : \/ inv'[d] = inv[d]
                         \/ inv[d] \in Busy /\ inv'[d] \in {"timedOut", "ended"}
    BY <1>0, <1>2 DEF CallStep, Begin, ExecuteEnds, CallCleanup, Timeout, Returns, Busy, TypeOK, ServiceTypeOK
  <2>3. Unsettled' \subseteq Unsettled
    BY <1>0, <1>2 DEF CallStep, Begin, ExecuteEnds, CallCleanup, Timeout, Returns, Unsettled, TypeOK,
       ServiceTypeOK
  <2> QED
    BY <1>0, <2>1, <2>2, <2>3, SessionsFrame DEF Busy
<1>3. CASE Shutdown
  <2>1. /\ UNCHANGED <<reg, run, opener, initialized, get, sess, handler, inv, task>> /\ Retire(reg)
    BY <1>3 DEF Shutdown, calls
  <2>2. Unsettled' = Unsettled
    BY <2>1 DEF Unsettled
  <2>3. ASSUME NEW s \in Sids PROVE SessionFits(s)'
    <3>1. SessionFits(s) /\ (Quiet(s)' <=> Quiet(s))
      BY <1>0, <2>1 DEF Sessions, Quiet
    <3>2. /\ closing'[s] <=> closing[s] \/ s \in reg
          /\ retiring'[s] = IF s \in reg /\ retiring[s] = "none" THEN "cancel" ELSE retiring[s]
      BY <2>1 DEF Retire
    <3> QED
      BY <2>1, <2>2, <3>1, <3>2, NamesAssumption DEF SessionFits, Stages
  <2>4. ASSUME NEW c \in Calls PROVE CallFits(c)'
    <3>1. CallFits(c)
      BY <1>0 DEF Sessions
    <3>2. inv[c] = "queued" => handler[c] = "dispatch" \/ (sess[c] \in Sids /\ closing[sess[c]])
      BY <3>1, NamesAssumption DEF CallFits, IInv, Handlers, TypeOK, HTTPTypeOK
    <3>3. sess[c] \in Sids /\ closing[sess[c]] => closing'[sess[c]]
      BY <2>1 DEF Retire
    <3> QED
      BY <2>1, <3>1, <3>2, <3>3 DEF CallFits
  <2> QED
    BY <2>3, <2>4 DEF Sessions
<1>4. CASE SessionsRetired \/ (Lifespan /\ UNCHANGED http) \/ UNCHANGED vars
  BY <1>1, <1>4 DEF SessionsRetired, Lifespan, Start, Recover, SettleActive, FinalCleanup,
     CloseResource, calls, http, vars, service, registry
<1> QED
  BY <1>1, <1>2, <1>3, <1>4, SessionsRequest, SessionsSession DEF Next

-----------------------------------------------------------------------------
(* The theorem.                                                              *)

\* The invariant is kept by every step.
LEMMA IInvStep == ASSUME IInv, [Next]_vars PROVE IInv'
BY TypeStep, ServiceStep, HandlersStep, SessionsStep DEF IInv

\* A resource holds one owner's work, and that of the call that executes.
LEMMA OneOwnerFollows == IInv => OneOwner
<1> SUFFICES ASSUME IInv PROVE OneOwner
  OBVIOUS
<1>0. TypeOK /\ Service /\ Nobody \notin Calls
  BY UsesAssumption DEF IInv
<1>1. ASSUME NEW r \in Resources PROVE Cardinality(left[r]) <= 1
  <2>1. PICK o \in Calls \cup {Nobody} : left[r] \subseteq {o}
    BY <1>0 DEF Service, WorkIsOwned
  <2>2. left[r] = {} \/ left[r] = {o}
    BY <2>1
  <2> QED
    <3>1. Cardinality({}) = 0
      BY FS_EmptySet
    <3>2. Cardinality({o}) = 1
      BY FS_Singleton
    <3> QED
      BY <2>2, <3>1, <3>2
<1>2. ASSUME NEW c \in Calls, task[c] = "execute"
      PROVE  /\ \A o \in Calls \cup {Nobody} : todo[o] \cap Uses[c] = {}
             /\ \A r \in Uses[c] : r <= up /\ c \in left[r]
  <2>1. Unsettled = {c}
    BY <1>0, <1>2 DEF Service, SlotIsTaken, Unsettled
  <2>2. up = NumResources /\ todo[Nobody] = {}
    BY <1>0, <2>1 DEF Service, LifeFits
  <2>3. \A d \in Calls : todo[d] = {}
    BY <1>0, <1>2, <2>1 DEF Service, WorkIsOwned, Unsettled
  <2>4. \A r \in Uses[c] : r \in Resources /\ r <= NumResources
    BY UsesAssumption DEF Resources
  <2>5. \A r \in Resources : r \in Uses[c] => c \in left[r]
    BY <1>0, <1>2 DEF Service, WorkIsOwned
  <2> QED
    BY <2>2, <2>3, <2>4, <2>5
<1> QED
  BY <1>1, <1>2 DEF OneOwner

\* Nothing of a session runs once it was cancelled, and nothing is left once it is out.
LEMMA RetirementFollows == IInv => RetirementIsFinal
BY QuietRequests DEF IInv, Sessions, SessionFits, RetirementIsFinal, CallsOf, Unsettled

\* A call that has not settled has its id to itself.
LEMMA IdFollows == IInv => IdHeldUntilSettled
BY DEF IInv, Handlers, IdHeldUntilSettled, CallsOf, Unsettled, Answering

\* What the MCP workload service (workload_service.py) and its sessions (workload_http.py) keep to,
\* for any resources, bindings and sessions, and any finite set of calls: a resource holds the work
\* of one owner, nothing of a retired session is left, and an id is taken until its call has settled.
THEOREM ServiceIsSafe == Spec => [](TypeOK /\ OneOwner /\ RetirementIsFinal /\ IdHeldUntilSettled)
<1>1. IInv => TypeOK /\ OneOwner /\ RetirementIsFinal /\ IdHeldUntilSettled
  BY OneOwnerFollows, RetirementFollows, IdFollows DEF IInv
<1> QED
  BY <1>1, InitIInv, IInvStep, PTL DEF Spec

=============================================================================
