------------------------ MODULE HyperlightCallsProofs ------------------------
(***************************************************************************)
(* Safety of calls on the Hyperlight backend for any finite set of calls,   *)
(* of one router or of several: one worker, no residue between calls, no    *)
(* run that started and is said not to have, and code that starts only      *)
(* where nothing is left.  IInv adds how a lease counts its users, who      *)
(* holds the registry gate and over which entry, what a thread was asked    *)
(* for, and why an instance whose identity a router knows is clean.         *)
(***************************************************************************)
EXTENDS HyperlightCalls, FiniteSetTheorems, TLAPS

\* The calls that hold the lease's lock, on their way in, inside or on their way out.
Held == {c \in Calls : pc[c] \notin {"start", "waiting", "done"}}

Users(l) == {c \in Calls : mine[c] = l}

\* Whoever waits for a lease or has it is a user of the one in the table, which counts them all;
\* the lock is that of whoever is past it.
LeaseIsCounted ==
    /\ \A c \in Calls : mine[c] # None <=> pc[c] \notin {"start", "done"}
    /\ \A c \in Calls : mine[c] # None => mine[c] = table
    /\ \A l \in Calls : lease[l].users = Cardinality(Users(l))
    /\ \A c \in Held : lease[mine[c]].lock = c

\* Whoever stops or prepares an instance holds the gate, and the entry stays meanwhile.
Preparing == {"init", "stop_init", "join_init", "unprepared"}
Closing == {"stopping_old", "disposing", "redoing"}
GateIsHeld ==
    /\ \A c \in Calls : pc[c] \in Closing => gate = c /\ reg # None
    /\ \A c \in Calls : pc[c] \in Preparing => gate = c /\ reg = c
    /\ out = "stopping" => gate = Outside /\ reg # None

\* A call that has an instance is making it fit for use, or is served by it.
Adopting == {"adopt", "restore", "stop_restore", "join_restore", "redo", "redoing"}
Served == {"run", "code", "stop_code", "join_code", "cleanup", "reset", "stop_reset", "join_reset",
           "dispose", "disposing"}
HasOne == Adopting \cup Served

\* A worker that is up is the registered one, and nothing is registered once a disposal landed.
InstancesAreMade ==
    /\ \A i \in Calls : inst[i].up => reg = i
    /\ \A c \in Calls : pc[c] = "again" => reg = None
    /\ \A c \in Calls : have[c] # None => pc[c] \in HasOne \cup {"leave"}
    /\ \A c \in Calls : pc[c] \in HasOne => have[c] # None

\* The exchange a call is in is its thread's; a thread that may still start is in that exchange,
\* and one that has answered a reset leaves the instance clean.
ThreadsAreAsked ==
    /\ \A c \in Calls : pc[c] \in Ops => x[c].op = pc[c] /\ ~x[c].withdrawn
    /\ \A c \in Calls : pc[c] \in Ops \ {"init"} => x[c].of = have[c]
    /\ \A c \in Calls : x[c].thread = "pending" => x[c].withdrawn \/ pc[c] = x[c].op
    /\ \A c \in Calls : pc[c] \in Exchanging => x[c].thread # "none"
    /\ \A c \in Calls : x[c].thread # "none" => x[c].of # None
    /\ \A c \in Calls : pc[c] \in {"restore", "reset"} /\ x[c].thread = "answered" =>
                            inst[have[c]].dirt = {}

\* An instance that serves a call holds nothing but what that call left there, nothing at all
\* before its code runs, and no other router knows its identity.
ServesOne ==
    \A c \in Calls : pc[c] \in Served =>
        /\ inst[have[c]].dirt \subseteq {c}
        /\ ~ran[c] => inst[have[c]].dirt = {}
        /\ inst[have[c]].known \subseteq {router[c]}

\* Where a call left something in a live instance, a router that knows its identity refuses the
\* key, or is serving that call still.
DirtIsOwed ==
    /\ \A i \in Calls : \A d, e \in inst[i].dirt : d = e
    /\ \A i \in Calls : \A r, s \in inst[i].known : r = s
    /\ \A c \in Calls : pc[c] \in Preparing => inst[c].dirt = {}
    /\ \A i \in Calls : Alive(i) /\ inst[i].dirt # {} => \A r \in inst[i].known :
            r \in unclean \/ \E c \in Calls : pc[c] \in Served /\ have[c] = i

\* Code runs in the exchange that asked for it, before its caller is told anything.
RunsAreTold ==
    /\ \A c \in Calls : ran[c] => pc[c] \in (Served \ {"run"}) \cup {"leave"} /\ have[c] # None
    /\ \A c \in Calls : told[c] # "none" =>
          pc[c] \in (Served \ {"run", "code"}) \cup {"stop_restore", "join_restore", "leave"}
    /\ \A c \in Calls : pc[c] \in {"stop_restore", "join_restore"} => told[c] \in {"none", "cancelled"}
    /\ \A c \in Calls : pc[c] = "code" /\ ran[c] => Started(c)
    /\ UnansweredRetires

IInv ==
    /\ TypeOK /\ LeaseIsCounted /\ GateIsHeld /\ InstancesAreMade
    /\ ThreadsAreAsked /\ ServesOne /\ DirtIsOwed /\ RunsAreTold

-----------------------------------------------------------------------------
(***************************************************************************)
(* Admission.                                                              *)
(***************************************************************************)

\* A lease can count its users.
LEMMA UsersAreCounted ==
    ASSUME NEW S \in SUBSET Calls
    PROVE  /\ IsFiniteSet(S)
           /\ Cardinality(S) \in 0 .. Cardinality(Calls)
           /\ \A c \in Calls : /\ c \notin S => Cardinality(S \cup {c}) = Cardinality(S) + 1
                               /\ c \in S => Cardinality(S \ {c}) = Cardinality(S) - 1
           /\ \A c \in S : Cardinality(S) = 1 => S = {c}
<1>1. IsFiniteSet(Calls)
  BY CallsAssumption
<1>2. IsFiniteSet(S) /\ Cardinality(S) <= Cardinality(Calls)
  BY <1>1, FS_Subset
<1>3. Cardinality(S) \in Nat /\ Cardinality(Calls) \in Nat
  BY <1>1, <1>2, FS_CardinalityType
<1>4. \A c \in Calls : /\ c \notin S => Cardinality(S \cup {c}) = Cardinality(S) + 1
                       /\ c \in S => Cardinality(S \ {c}) = Cardinality(S) - 1
  BY <1>2, FS_AddElement, FS_RemoveElement
<1>5. \A c \in S : Cardinality(S) = 1 => S = {c}
  BY <1>2, FS_Singleton
<1> QED
  BY <1>2, <1>3, <1>4, <1>5

\* Two calls never hold the lock of the (key, kind) at once.
LEMMA OneHolder ==
    ASSUME LeaseIsCounted, NEW c \in Held, NEW d \in Held
    PROVE  c = d
BY DEF LeaseIsCounted, Held

\* The initial state satisfies the inductive invariant.
LEMMA InitIInv == Init => IInv
<1> SUFFICES ASSUME Init PROVE IInv
  OBVIOUS
<1>1. \A l \in Calls : Users(l) = {} /\ Cardinality(Users(l)) = 0
  BY CallsAssumption, FS_EmptySet DEF Init, Users
<1>2. 0 \in 0 .. Cardinality(Calls)
  BY CallsAssumption, FS_CardinalityType
<1>3. TypeOK
  BY <1>2, HostAssumption DEF Init, TypeOK, Places, Ops, NoExchange
<1>4. LeaseIsCounted
  BY <1>1 DEF Init, LeaseIsCounted, Held
<1>5. GateIsHeld /\ ThreadsAreAsked
  BY DEF Init, GateIsHeld, ThreadsAreAsked, Preparing, Closing, Ops, NoExchange, Exchanging
<1>6. InstancesAreMade
  BY CallsAssumption DEF Init, InstancesAreMade, Adopting, Served, HasOne
<1>7. ServesOne /\ DirtIsOwed /\ RunsAreTold
  BY DEF Init, ServesOne, DirtIsOwed, RunsAreTold, UnansweredRetires, Served, Preparing
<1> QED
  BY <1>3, <1>4, <1>5, <1>6, <1>7 DEF IInv

-----------------------------------------------------------------------------
(***************************************************************************)
(* What a step does to the calls' places.                                  *)
(***************************************************************************)

\* A call inside its body stays there until it leaves.
InBody(c) == pc[c] \notin {"start", "waiting", "locked", "leave", "done"}

\* admit (_admission.py) counts a call in and out under the lease's guard.
LEMMA AdmitKeepsLease ==
    ASSUME TypeOK, LeaseIsCounted, NEW c \in Calls, Admit(c)
    PROVE  /\ LeaseIsCounted'
           /\ table' \in Calls \cup {None} /\ mine' \in [Calls -> Calls \cup {None}]
           /\ lease' \in [Calls -> [lock: Calls \cup {None}, permit: Calls \cup {None},
                                    users: 0 .. Cardinality(Calls)]]
           /\ pc' \in [Calls -> Places]
<1> DEFINE Lease == [lock: Calls \cup {None}, permit: Calls \cup {None},
                    users: 0 .. Cardinality(Calls)]
<1>0. /\ None \notin Calls /\ table \in Calls \cup {None} /\ mine \in [Calls -> Calls \cup {None}]
      /\ lease \in [Calls -> Lease] /\ pc \in [Calls -> Places]
      /\ \A l \in Calls : Users(l) \in SUBSET Calls
  BY CallsAssumption DEF TypeOK, Users
<1> HIDE DEF Lease
<1>1. CASE Enter(c)
  <2> PICK l \in Calls : l = IF table = None THEN c ELSE table
    BY <1>0
  <2>1. mine[c] = None /\ c \notin Users(l)
    BY <1>0, <1>1 DEF Enter, LeaseIsCounted, Users
  <2>2. \A d \in Calls : mine[d] # None => mine[d] = l
    BY <1>0 DEF LeaseIsCounted
  <2>3. /\ table' = l /\ lease' = [lease EXCEPT ![l].users = @ + 1]
        /\ mine' = [mine EXCEPT ![c] = l] /\ pc' = [pc EXCEPT ![c] = "waiting"] /\ pc[c] = "start"
    BY <1>0, <1>1 DEF Enter, Goto
  <2>4. Users(l)' = Users(l) \cup {c} /\ \A k \in Calls : k # l => Users(k)' = Users(k)
    BY <1>0, <2>1, <2>3 DEF Users
  <2>5. Cardinality(Users(l)') = lease[l].users + 1
    <3>1. Cardinality(Users(l) \cup {c}) = Cardinality(Users(l)) + 1
      BY <1>0, <2>1, UsersAreCounted
    <3> QED
      BY <2>4, <3>1 DEF LeaseIsCounted
  <2>6. Users(l)' \subseteq Calls
    BY <1>0 DEF Users
  <2>7. lease[l].users + 1 \in 0 .. Cardinality(Calls)
    BY <1>0, <2>5, <2>6, UsersAreCounted
  <2>8. /\ \A k \in Calls : lease'[k].lock = lease[k].lock
        /\ \A k \in Calls : lease'[k].users = IF k = l THEN lease[k].users + 1 ELSE lease[k].users
        /\ lease' \in [Calls -> Lease]
    BY <1>0, <2>1, <2>3, <2>7 DEF Lease
  <2>9. LeaseIsCounted'
    <3>1. (\A d \in Calls : mine[d] # None <=> pc[d] \notin {"start", "done"})'
      BY <1>0, <2>1, <2>3 DEF LeaseIsCounted
    <3>2. (\A d \in Calls : mine[d] # None => mine[d] = table)'
      BY <1>0, <2>1, <2>2, <2>3
    <3>3. (\A k \in Calls : lease[k].users = Cardinality(Users(k)))'
      BY <1>0, <2>4, <2>5, <2>8 DEF LeaseIsCounted
    <3>4. (\A d \in Held : lease[mine[d]].lock = d)'
      <4>1. \A d \in Held' : d \in Held /\ d # c /\ mine'[d] = mine[d] /\ mine[d] \in Calls
        BY <1>0, <2>3 DEF Held, LeaseIsCounted
      <4> QED
        BY <1>0, <2>8, <4>1 DEF LeaseIsCounted
    <3> QED
      BY <1>0, <3>1, <3>2, <3>3, <3>4 DEF LeaseIsCounted
  <2> QED
    BY <1>0, <2>1, <2>3, <2>8, <2>9 DEF Places, Lease
<1>2. CASE Lock(c) \/ Permit(c)
  <2> PICK l \in Calls : l = mine[c]
    BY <1>0, <1>2 DEF Lock, Permit, LeaseIsCounted
  <2>1. \A d \in Calls : mine[d] # None => mine[d] = l
    BY <1>0, <1>2 DEF Lock, Permit, LeaseIsCounted
  <2>2. /\ UNCHANGED <<table, mine>>
        /\ \A k \in Calls : lease'[k].users = lease[k].users
        /\ \A k \in Calls : k # l => lease'[k] = lease[k]
        /\ \/ lease'[l].lock = c /\ pc[c] = "waiting" /\ lease[l].lock = None
           \/ lease'[l].lock = lease[l].lock /\ pc[c] = "locked"
        /\ \E place \in {"locked", "acquire"} : pc' = [pc EXCEPT ![c] = place]
        /\ lease' \in [Calls -> Lease]
    BY <1>0, <1>2, <2>1 DEF Lock, Permit, Goto, Lease
  <2>3. \A k \in Calls : Users(k)' = Users(k)
    BY <1>0, <2>2 DEF Users
  <2>4. (\A d \in Calls : mine[d] # None <=> pc[d] \notin {"start", "done"})'
    BY <1>0, <1>2, <2>2 DEF LeaseIsCounted, Lock, Permit
  <2>5. (\A d \in Held : lease[mine[d]].lock = d)'
    <3>1. \A d \in Held' : d = c \/ d \in Held
      BY <1>0, <2>2 DEF Held
    <3>2. \A d \in Held : mine[d] = l /\ lease[mine[d]].lock = d /\ d # None
      BY <1>0, <2>1 DEF LeaseIsCounted, Held
    <3>3. pc[c] = "locked" => c \in Held
      BY <1>0 DEF Held
    <3> QED
      BY <1>0, <2>1, <2>2, <3>1, <3>2, <3>3
  <2>6. (\A k \in Calls : lease[k].users = Cardinality(Users(k)))'
    BY <2>2, <2>3 DEF LeaseIsCounted
  <2>7. LeaseIsCounted'
    BY <2>2, <2>4, <2>5, <2>6 DEF LeaseIsCounted
  <2>8. pc' \in [Calls -> Places]
    BY <1>0, <2>2 DEF Places
  <2> QED
    BY <1>0, <2>2, <2>7, <2>8 DEF Lease
<1>3. CASE GiveUp(c) \/ Leave(c)
  <2> PICK l \in Calls : l = mine[c]
    BY <1>0, <1>3 DEF GiveUp, Leave, LeaseIsCounted
  <2>1. c \in Users(l) /\ \A d \in Calls : mine[d] # None => mine[d] = l
    BY <1>0, <1>3 DEF GiveUp, Leave, LeaseIsCounted, Users
  <2>2. lease[l].users = Cardinality(Users(l)) /\ lease[l].users \in Nat
    BY <1>0, <2>1 DEF LeaseIsCounted, Lease
  <2>3. /\ table' = IF lease[l].users = 1 THEN None ELSE table
        /\ mine' = [mine EXCEPT ![c] = None] /\ pc' = [pc EXCEPT ![c] = "done"]
        /\ pc[c] \in {"waiting", "leave"}
    BY <1>0, <1>3 DEF GiveUp, Leave, CountOut, Goto
  <2>4. Users(l)' = Users(l) \ {c} /\ \A k \in Calls : k # l => Users(k)' = Users(k)
    BY <1>0, <2>1, <2>3 DEF Users
  <2>5. Cardinality(Users(l)') = lease[l].users - 1 /\ (lease[l].users = 1 => Users(l) = {c})
    <3>1. /\ Cardinality(Users(l) \ {c}) = Cardinality(Users(l)) - 1
          /\ Cardinality(Users(l)) = 1 => Users(l) = {c}
      BY <1>0, <2>1, UsersAreCounted
    <3> QED
      BY <2>2, <2>4, <3>1
  <2>6. lease[l].users - 1 \in 0 .. Cardinality(Calls)
    <3>1. Users(l)' \subseteq Calls
      BY <1>0 DEF Users
    <3> QED
      BY <1>0, <2>5, <3>1, UsersAreCounted
  <2>7. /\ \A k \in Calls : k # l => lease'[k] = lease[k]
        /\ lease'[l].users = lease[l].users - 1
        /\ pc[c] = "waiting" => lease'[l].lock = lease[l].lock
        /\ lease' \in [Calls -> Lease]
    BY <1>0, <1>3, <2>1, <2>6 DEF GiveUp, Leave, Lease
  <2>8. (\A d \in Calls : mine[d] # None <=> pc[d] \notin {"start", "done"})'
    BY <1>0, <2>3 DEF LeaseIsCounted
  <2>9. (\A d \in Calls : mine[d] # None => mine[d] = table)'
    BY <1>0, <2>1, <2>3, <2>5 DEF LeaseIsCounted, Users
  <2>10. (\A k \in Calls : lease[k].users = Cardinality(Users(k)))'
    <3> SUFFICES ASSUME NEW k \in Calls PROVE lease'[k].users = Cardinality(Users(k)')
      OBVIOUS
    <3>1. CASE k = l
      BY <2>5, <2>7, <3>1
    <3>2. CASE k # l
      BY <2>4, <2>7, <3>2 DEF LeaseIsCounted
    <3> QED
      BY <3>1, <3>2
  <2>11. (\A d \in Held : lease[mine[d]].lock = d)'
    <3>1. \A d \in Held' : d \in Held /\ d # c /\ mine'[d] = l /\ mine[d] = l /\ lease[l].lock = d
      BY <1>0, <2>1, <2>3 DEF Held, LeaseIsCounted
    <3>2. Held' # {} => pc[c] = "waiting"
      BY <1>0, <2>1, <2>3, <3>1 DEF Held, LeaseIsCounted
    <3> QED
      BY <1>0, <2>7, <3>1, <3>2
  <2> QED
    BY <1>0, <2>3, <2>7, <2>8, <2>9, <2>10, <2>11 DEF LeaseIsCounted, Places, Lease
<1> QED
  BY <1>1, <1>2, <1>3 DEF Admit

\* What happens inside a call's body is no concern of the lease.
LEMMA BodyKeepsLease ==
    ASSUME LeaseIsCounted, UNCHANGED admission,
           \A c \in Calls : pc'[c] = pc[c] \/ (InBody(c) /\ pc'[c] \notin {"start", "waiting", "done"})
    PROVE  LeaseIsCounted'
<1>1. \A l \in Calls : Users(l)' = Users(l)
  BY DEF Users, admission
<1>2. Held' = Held /\ \A c \in Calls : pc'[c] \in {"start", "done"} <=> pc[c] \in {"start", "done"}
  BY DEF Held, InBody
<1> QED
  BY <1>1, <1>2 DEF LeaseIsCounted, admission

-----------------------------------------------------------------------------
(***************************************************************************)
(* What keeps each part of the invariant.                                  *)
(***************************************************************************)

\* An instance only wears out: what is not alive is not revived, and what is left in it is left.
Wears(i) ==
    /\ inst'[i].up => inst[i].up
    /\ inst[i].retired => inst'[i].retired
    /\ inst'[i].dirt \subseteq inst[i].dirt
    /\ inst'[i].known \subseteq inst[i].known

AllDown == \A i \in Calls : ~inst[i].up

\* A call goes on where it is, and comes to be served or to prepare by other steps only.
GoesOn(c) ==
    /\ pc'[c] \in Preparing => pc[c] \in Preparing
    /\ pc'[c] \in Adopting => pc[c] \in Adopting
    /\ pc'[c] \in Served => pc[c] \in Served
    /\ pc'[c] = "again" => pc[c] = "again" \/ reg' = None

\* A call keeps what it has and has run, or is left without an instance.
Keeps(c) ==
    \/ /\ have'[c] = have[c] /\ ran'[c] = ran[c]
       /\ pc[c] \in HasOne \cup {"leave"} => pc'[c] \in HasOne \cup {"leave"}
    \/ have'[c] = None /\ ~ran'[c] /\ pc'[c] \in {"again", "done"}

\* A caller is told a failure of code that ran only where the instance is retired.
Unanswered == {"queued", "cancelled", "failed"}
Told == (Served \ {"run", "code"}) \cup {"stop_restore", "join_restore", "leave"}
Tells(c) ==
    \/ told'[c] = told[c] /\ (pc'[c] = "done" => pc[c] = "done")
    \/ told'[c] = "none"
    \/ /\ pc'[c] \in Told /\ (pc'[c] \in {"stop_restore", "join_restore"} => told'[c] = "cancelled")
       /\ ran'[c] /\ told'[c] \in Unanswered => told'[c] # "queued" /\ inst'[have'[c]].retired

\* Instances wear out, and the entry goes only with every worker down.
LEMMA InstancesKept ==
    ASSUME TypeOK, InstancesAreMade, \A i \in Calls : Wears(i) /\ GoesOn(i) /\ Keeps(i),
           reg' = reg \/ (reg' = None /\ AllDown')
    PROVE  InstancesAreMade'
<1>1. \A i \in Calls : inst'[i].up => reg' = i
  BY DEF InstancesAreMade, Wears, AllDown
<1>2. \A c \in Calls : pc'[c] = "again" => reg' = None
  BY DEF InstancesAreMade, GoesOn
<1>3. \A c \in Calls : have'[c] # None => pc'[c] \in HasOne \cup {"leave"}
  BY DEF InstancesAreMade, Keeps
<1>4. ASSUME NEW c \in Calls, pc'[c] \in HasOne PROVE have'[c] # None
  <2>1. pc[c] \in HasOne
    BY <1>4 DEF GoesOn, HasOne
  <2>2. pc'[c] \notin {"again", "done"}
    BY <1>4 DEF HasOne, Adopting, Served
  <2> QED
    BY <2>1, <2>2 DEF InstancesAreMade, Keeps
<1> QED
  BY <1>1, <1>2, <1>3, <1>4 DEF InstancesAreMade

\* A call that stops being served leaves nothing in a live instance that its router would trust,
\* and marks are retired only with every worker down.
LEMMA DirtKept ==
    ASSUME TypeOK, InstancesAreMade, ServesOne, DirtIsOwed, UNCHANGED router,
           \A i \in Calls : Wears(i) /\ GoesOn(i) /\ Keeps(i),
           \A c \in Calls : pc[c] \in Served =>
             \/ pc'[c] \in Served \/ router[c] \in unclean' \/ AllDown'
             \/ inst'[have[c]].dirt = {},
           unclean \subseteq unclean' \/ AllDown'
    PROVE  ServesOne' /\ DirtIsOwed'
<1>1. \A i \in Calls : /\ Alive(i)' => Alive(i) /\ ~AllDown'
                       /\ inst'[i].dirt \subseteq inst[i].dirt /\ inst'[i].known \subseteq inst[i].known
  BY DEF Wears, Alive, AllDown
<1>2. ASSUME NEW c \in Calls, pc'[c] \in Served
      PROVE  pc[c] \in Served /\ have'[c] = have[c] /\ ran'[c] = ran[c] /\ have[c] \in Calls
  <2>1. pc'[c] \notin {"again", "done"} /\ pc[c] \in HasOne
    BY <1>2 DEF Served, GoesOn, HasOne
  <2> QED
    BY <1>2, <2>1 DEF GoesOn, Keeps, InstancesAreMade, TypeOK
<1>3. ServesOne'
  <2> SUFFICES ASSUME NEW c \in Calls, pc'[c] \in Served
               PROVE  /\ inst'[have'[c]].dirt \subseteq {c}
                      /\ ~ran'[c] => inst'[have'[c]].dirt = {}
                      /\ inst'[have'[c]].known \subseteq {router'[c]}
    BY DEF ServesOne
  <2>1. /\ inst[have[c]].dirt \subseteq {c}
        /\ ~ran[c] => inst[have[c]].dirt = {}
        /\ inst[have[c]].known \subseteq {router[c]}
    BY <1>2 DEF ServesOne
  <2>2. /\ inst'[have[c]].dirt \subseteq inst[have[c]].dirt
        /\ inst'[have[c]].known \subseteq inst[have[c]].known
    BY <1>1, <1>2
  <2> QED
    BY <1>2, <2>1, <2>2
<1>4. ASSUME NEW i \in Calls, Alive(i)', inst'[i].dirt # {}, NEW r \in inst'[i].known
      PROVE  r \in unclean' \/ \E c \in Calls : pc'[c] \in Served /\ have'[c] = i
  <2>1. ~AllDown' /\ Alive(i) /\ inst[i].dirt # {} /\ r \in inst[i].known
    BY <1>1, <1>4
  <2>2. CASE r \in unclean
    BY <2>1, <2>2
  <2>3. ASSUME NEW c \in Calls, pc[c] \in Served, have[c] = i
        PROVE  r \in unclean' \/ (pc'[c] \in Served /\ have'[c] = i)
    <3>1. r = router[c]
      BY <2>1, <2>3 DEF ServesOne
    <3>2. pc'[c] \in Served \/ router[c] \in unclean'
      BY <1>4, <2>1, <2>3
    <3>3. pc'[c] \in Served => have'[c] = i
      BY <1>2, <2>3
    <3> QED
      BY <3>1, <3>2, <3>3
  <2>4. r \in unclean \/ \E c \in Calls : pc[c] \in Served /\ have[c] = i
    BY <2>1 DEF DirtIsOwed
  <2> QED
    BY <2>2, <2>3, <2>4
<1>5. \A i \in Calls : /\ \A d, e \in inst'[i].dirt : d = e
                       /\ \A r, s \in inst'[i].known : r = s
  BY <1>1 DEF DirtIsOwed
<1>6. ASSUME NEW c \in Calls, pc'[c] \in Preparing PROVE inst'[c].dirt = {}
  <2>1. inst[c].dirt = {}
    BY <1>6 DEF GoesOn, DirtIsOwed
  <2> QED
    BY <1>1, <2>1
<1>7. DirtIsOwed'
  BY <1>4, <1>5, <1>6 DEF DirtIsOwed
<1> QED
  BY <1>3, <1>7

\* What callers were told stays true while nothing more of their code runs and nothing is revived.
LEMMA RunsKept ==
    ASSUME TypeOK, RunsAreTold, \A i \in Calls : Wears(i) /\ GoesOn(i) /\ Keeps(i) /\ Tells(i),
           \A c \in Calls :
             /\ pc'[c] = "run" => pc[c] = "run"
             /\ pc'[c] = "code" => pc[c] \in {"run", "code"}
             /\ pc[c] = "code" /\ pc'[c] = "code" /\ Started(c) => Started(c)'
             /\ pc[c] \in Served => pc'[c] \in Served \cup {"leave"}
             /\ pc[c] \in {"stop_restore", "join_restore", "leave"} /\ told[c] # "none" =>
                  pc'[c] \in {"stop_restore", "join_restore", "leave", "done"}
    PROVE  RunsAreTold'
<1>1. ASSUME NEW c \in Calls, ran'[c]
      PROVE  /\ ran[c] /\ have'[c] = have[c] /\ have[c] # None
             /\ pc'[c] \in (Served \ {"run"}) \cup {"leave"}
  <2>1. ran[c] /\ have'[c] = have[c] /\ have[c] # None
        /\ pc[c] \in (Served \ {"run"}) \cup {"leave"} /\ pc'[c] \in HasOne \cup {"leave"}
    BY <1>1 DEF Keeps, RunsAreTold, HasOne
  <2>2. pc[c] = "leave" => pc'[c] \in Served \cup {"leave"}
    BY <2>1 DEF GoesOn, HasOne, Served, Adopting
  <2>3. pc'[c] \in Served \cup {"leave"} /\ pc'[c] # "run"
    <3>1. CASE pc[c] \in Served
      BY <2>1, <3>1
    <3>2. CASE pc[c] = "leave"
      BY <2>2, <3>2
    <3> QED
      BY <2>1, <3>1, <3>2
  <2> QED
    BY <2>1, <2>3 DEF Served
<1>2. ASSUME NEW c \in Calls, told'[c] # "none"
      PROVE  pc'[c] \in Told
  <2>1. CASE told'[c] = told[c] /\ (pc'[c] = "done" => pc[c] = "done")
    <3>1. told[c] # "none" /\ pc[c] \in Told
      BY <1>2, <2>1 DEF RunsAreTold, Told
    <3>2. CASE pc[c] \in Served \ {"run", "code"}
      <4>1. pc'[c] \in Served \cup {"leave"}
        BY <3>2
      <4>2. pc'[c] # "run" /\ pc'[c] # "code"
        BY <3>2
      <4> QED
        BY <4>1, <4>2 DEF Told
    <3>3. CASE pc[c] \in {"stop_restore", "join_restore", "leave"}
      BY <2>1, <3>1, <3>3 DEF Told
    <3> QED
      BY <3>1, <3>2, <3>3 DEF Told
  <2> QED
    BY <1>2, <2>1 DEF Tells
<1>2a. ASSUME NEW c \in Calls, pc'[c] \in {"stop_restore", "join_restore"}
       PROVE  told'[c] \in {"none", "cancelled"}
  <2>1. CASE told'[c] = told[c] /\ told[c] # "none"
    <3>1. pc[c] \in Adopting /\ pc[c] \in Told
      BY <1>2a, <2>1 DEF GoesOn, Adopting, RunsAreTold, Told
    <3>2. pc[c] \in {"stop_restore", "join_restore"}
      BY <3>1 DEF Adopting, Told, Served
    <3> QED
      BY <2>1, <3>2 DEF RunsAreTold
  <2> QED
    BY <1>2a, <2>1 DEF Tells
<1>3. ASSUME NEW c \in Calls, pc'[c] = "code", ran'[c] PROVE Started(c)'
  <2>1. ran[c] /\ pc[c] # "run" /\ pc[c] = "code"
    BY <1>1, <1>3 DEF RunsAreTold, Served
  <2> QED
    BY <1>3, <2>1 DEF RunsAreTold
<1>4. UnansweredRetires'
  <2> SUFFICES ASSUME NEW c \in Calls, told'[c] \in Unanswered, ran'[c]
               PROVE  told'[c] # "queued" /\ inst'[have'[c]].retired
    BY DEF UnansweredRetires, Unanswered
  <2>1. ran[c] /\ have'[c] = have[c] /\ have[c] \in Calls
    BY <1>1 DEF TypeOK
  <2>2. CASE told'[c] = told[c]
    <3>1. told[c] # "queued" /\ inst[have[c]].retired
      BY <2>1, <2>2 DEF RunsAreTold, UnansweredRetires, Unanswered
    <3> QED
      BY <2>1, <2>2, <3>1 DEF Wears
  <2> QED
    BY <2>2 DEF Tells, Unanswered
<1> QED
  BY <1>1, <1>2, <1>2a, <1>3, <1>4 DEF RunsAreTold, Told

\* Threads go on as they were asked while their callers' exchanges go on.
LEMMA ThreadsKept ==
    ASSUME TypeOK, InstancesAreMade, ThreadsAreAsked,
           \A i \in Calls : Wears(i) /\ GoesOn(i) /\ Keeps(i),
           \A c \in Calls :
             /\ pc'[c] \in Ops => pc'[c] = pc[c]
             /\ pc'[c] \in Ops => x'[c].op = x[c].op /\ x'[c].of = x[c].of /\ ~x'[c].withdrawn
             /\ x'[c].thread = "pending" =>
                  /\ x[c].thread = "pending" /\ x'[c].op = x[c].op
                  /\ x'[c].withdrawn \/ (pc'[c] = pc[c] /\ ~x[c].withdrawn)
             /\ pc'[c] \in Exchanging => x'[c].thread # "none"
             /\ x'[c].thread # "none" => x[c].thread # "none" /\ x'[c].of = x[c].of
             /\ pc'[c] \in {"restore", "reset"} /\ x'[c].thread = "answered" =>
                  x[c].thread = "answered" \/ inst'[have[c]].dirt = {}
    PROVE  ThreadsAreAsked'
<1>1. \A c \in Calls : pc'[c] \in Ops => x'[c].op = pc'[c] /\ ~x'[c].withdrawn
  BY DEF ThreadsAreAsked
<1>2. ASSUME NEW c \in Calls, pc'[c] \in Ops
      PROVE  pc'[c] = pc[c] /\ have'[c] = have[c] /\ x'[c].of = x[c].of
  <2>1. pc'[c] \notin {"again", "done"}
    BY <1>2 DEF Ops
  <2> QED
    BY <1>2, <2>1 DEF Keeps
<1>3. \A c \in Calls : pc'[c] \in Ops \ {"init"} => x'[c].of = have'[c]
  BY <1>2 DEF ThreadsAreAsked
<1>4. \A c \in Calls : x'[c].thread = "pending" => x'[c].withdrawn \/ pc'[c] = x'[c].op
  BY DEF ThreadsAreAsked
<1>5. \A c \in Calls : x'[c].thread # "none" => x'[c].of # None
  BY DEF ThreadsAreAsked
<1>6. ASSUME NEW c \in Calls, pc'[c] \in {"restore", "reset"}, x'[c].thread = "answered"
      PROVE  inst'[have'[c]].dirt = {}
  <2>1. pc'[c] = pc[c] /\ have'[c] = have[c] /\ have[c] \in Calls
    <3>1. pc'[c] = pc[c] /\ have'[c] = have[c]
      BY <1>2, <1>6 DEF Ops
    <3> QED
      BY <1>6, <3>1 DEF InstancesAreMade, TypeOK, HasOne, Adopting, Served
  <2>2. x[c].thread = "answered" => inst[have[c]].dirt = {}
    BY <1>6, <2>1 DEF ThreadsAreAsked
  <2> QED
    BY <1>6, <2>1, <2>2 DEF Wears
<1> QED
  BY <1>1, <1>3, <1>4, <1>5, <1>6 DEF ThreadsAreAsked

\* A step that touches no thread leaves them as they are, if it moves nobody into an exchange or
\* out of its first place.
LEMMA ThreadsLeft ==
    ASSUME TypeOK, InstancesAreMade, ThreadsAreAsked,
           \A i \in Calls : Wears(i) /\ GoesOn(i) /\ Keeps(i), UNCHANGED x,
           \A c \in Calls : /\ pc'[c] \in Ops \/ pc[c] \in Ops => pc'[c] = pc[c]
                            /\ pc'[c] \in Exchanging => pc[c] \in Exchanging
    PROVE  ThreadsAreAsked'
<1>1. ASSUME NEW c \in Calls
      PROVE  /\ pc'[c] \in Ops => pc'[c] = pc[c] /\ ~x[c].withdrawn
             /\ x[c].thread = "pending" => x[c].withdrawn \/ pc'[c] = pc[c]
             /\ pc'[c] \in Exchanging => x[c].thread # "none"
  <2>1. x[c].op \in Ops
    BY DEF TypeOK
  <2> QED
    BY <2>1 DEF ThreadsAreAsked
<1> QED
  BY <1>1, ThreadsKept

\* Holders of the gate go on, or give it up.
LEMMA GateKept ==
    ASSUME GateIsHeld, UNCHANGED <<gate, reg, out>>,
           \A c \in Calls : /\ pc'[c] \in Closing => pc'[c] = pc[c]
                            /\ pc'[c] \in Preparing => pc[c] \in Preparing
    PROVE  GateIsHeld'
BY DEF GateIsHeld

Instances == [up: BOOLEAN, retired: BOOLEAN, dirt: SUBSET Calls, known: SUBSET Calls]
Threads == [op: Ops, of: Calls \cup {None},
            thread: {"none", "pending", "running", "answered", "broken", "refused"},
            withdrawn: BOOLEAN, late: BOOLEAN]

-----------------------------------------------------------------------------
(***************************************************************************)
(* The steps, action by action.                                            *)
(***************************************************************************)

\* A call on its way into or out of the lease has nothing to do with any instance; what it had and
\* was told goes with it.
LEMMA AdmitStep ==
    ASSUME IInv, NEW c \in Calls, Admit(c)
    PROVE  IInv'
<1>0. /\ UNCHANGED <<router, registry, x, ledger>>
      /\ \/ pc[c] = "start" /\ pc' = [pc EXCEPT ![c] = "waiting"] /\ UNCHANGED results
         \/ pc[c] = "waiting" /\ pc' = [pc EXCEPT ![c] = "locked"] /\ UNCHANGED results
         \/ pc[c] = "locked" /\ pc' = [pc EXCEPT ![c] = "acquire"] /\ UNCHANGED results
         \/ pc[c] = "waiting" /\ pc' = [pc EXCEPT ![c] = "done"] /\ UNCHANGED results
         \/ /\ pc[c] = "leave" /\ pc' = [pc EXCEPT ![c] = "done"]
            /\ have' = [have EXCEPT ![c] = None] /\ told' = [told EXCEPT ![c] = "none"]
            /\ ran' = [ran EXCEPT ![c] = FALSE]
  BY DEF Admit, Enter, Lock, Permit, GiveUp, Leave, Goto
<1>1. LeaseIsCounted' /\ TypeOK'
  BY <1>0, AdmitKeepsLease DEF IInv, TypeOK, registry, results, ledger
<1>2. /\ \A d \in Calls : d # c => pc'[d] = pc[d] /\ have'[d] = have[d] /\ told'[d] = told[d]
                                   /\ ran'[d] = ran[d]
      /\ pc[c] \in {"start", "waiting", "locked", "leave"}
      /\ pc'[c] \in {"waiting", "locked", "acquire", "done"}
      /\ pc'[c] = "done" => pc[c] \in {"waiting", "leave"}
      /\ \/ pc[c] # "leave" /\ have'[c] = have[c] /\ told'[c] = told[c] /\ ran'[c] = ran[c]
         \/ pc'[c] = "done" /\ have'[c] = None /\ told'[c] = "none" /\ ~ran'[c]
  BY <1>0 DEF IInv, TypeOK, results
<1>3. \A d \in Calls : Wears(d) /\ GoesOn(d) /\ Keeps(d) /\ Tells(d)
  <2> SUFFICES ASSUME NEW d \in Calls PROVE Wears(d) /\ GoesOn(d) /\ Keeps(d) /\ Tells(d)
    OBVIOUS
  <2>1. Wears(d) /\ GoesOn(d)
    BY <1>0, <1>2 DEF Wears, GoesOn, Preparing, Adopting, Served, registry
  <2>2. Keeps(d)
    BY <1>2 DEF Keeps, HasOne, Adopting, Served
  <2>3. Tells(d)
    <3>1. pc[c] \in {"start", "waiting", "locked"} => told[c] = "none"
      BY DEF IInv, RunsAreTold, Served
    <3> QED
      BY <1>2, <3>1 DEF Tells
  <2> QED
    BY <2>1, <2>2, <2>3
<1>4. GateIsHeld'
  BY <1>0, <1>2, GateKept DEF IInv, registry, ledger, Preparing, Closing
<1>5. InstancesAreMade'
  BY <1>0, <1>3, InstancesKept DEF IInv, registry
<1>6. ThreadsAreAsked'
  <2>1. \A d \in Calls : /\ pc'[d] \in Ops \/ pc[d] \in Ops => pc'[d] = pc[d]
                         /\ pc'[d] \in Exchanging => pc[d] \in Exchanging
    BY <1>2 DEF Ops, Exchanging
  <2> QED
    BY <1>0, <1>3, <2>1, ThreadsLeft DEF IInv
<1>7. ServesOne' /\ DirtIsOwed'
  <2>1. \A d \in Calls : pc[d] \in Served => pc'[d] \in Served
    BY <1>2 DEF Served
  <2> QED
    BY <1>0, <1>3, <2>1, DirtKept DEF IInv, ledger
<1>8. RunsAreTold'
  <2>1. \A d \in Calls : Started(d)' = Started(d)
    BY <1>0 DEF Started
  <2>2. \A d \in Calls : pc[d] \in Served \cup {"stop_restore", "join_restore"} => pc'[d] = pc[d]
    BY <1>2 DEF Served
  <2>3. \A d \in Calls : pc[d] = "leave" => pc'[d] \in {"leave", "done"}
    BY <1>2
  <2>4. \A d \in Calls : pc'[d] \in {"run", "code"} => pc'[d] = pc[d]
    BY <1>2
  <2> QED
    BY <1>3, <2>1, <2>2, <2>3, <2>4, RunsKept DEF IInv
<1> QED
  BY <1>1, <1>4, <1>5, <1>6, <1>7, <1>8 DEF IInv

\* A reset that is answered after a disposal retired the instance.
RetiredMeanwhile(c) == (Restored(c) \/ ResetDone(c)) /\ inst[have[c]].retired

\* The actions that leave every instance and the registry as they are and ask for no exchange.
Quiet(c) ==
    \/ AcquireRefused(c) \/ AdoptRefused(c) \/ RunRefused(c) \/ ResetRefused(c)
    \/ CodeRan(c) \/ RetiredMeanwhile(c) \/ Joined(c) \/ DisposeLate(c)
    \/ DeadlinePasses(c) \/ ThreadRefuses(c) \/ ThreadBreaks(c)

\* Where those take a call.
QuietMove(from, to) ==
    \/ from \in {"acquire", "again"} /\ to = "leave"
    \/ from = "adopt" /\ to = "redo"
    \/ from = "run" /\ to = "cleanup"
    \/ from = "cleanup" /\ to = "dispose"
    \/ from = "code" /\ to = "cleanup"
    \/ from = "restore" /\ to = "redo"
    \/ from = "reset" /\ to = "dispose"
    \/ from = "join_init" /\ to = "unprepared"
    \/ from = "join_restore" /\ to \in {"redo", "leave"}
    \/ from = "join_code" /\ to = "cleanup"
    \/ from = "join_reset" /\ to = "dispose"
    \/ from \in {"dispose", "redo"} /\ to = "leave"

\* Where an exchange that failed takes its call, and what it marks.
LEMMA FailsMove ==
    ASSUME NEW c \in Calls, NEW op \in Ops, Fails(c, op)
    PROVE  \E to \in Places :
             /\ pc' = [pc EXCEPT ![c] = to]
             /\ \/ op = "init" /\ to = "unprepared"
                \/ op = "restore" /\ to \in {"redo", "leave"}
                \/ op = "code" /\ to = "cleanup"
                \/ op = "reset" /\ to = "dispose"
             /\ unclean' \in {unclean, unclean \cup {router[c]}} /\ UNCHANGED <<out, covered>>
<1> DEFINE to == IF op = "restore" /\ told[c] = "cancelled" THEN "leave" ELSE AfterFailed[op]
<1>1. /\ AfterFailed["init"] = "unprepared" /\ AfterFailed["restore"] = "redo"
      /\ AfterFailed["code"] = "cleanup" /\ AfterFailed["reset"] = "dispose"
  BY DEF AfterFailed
<1>2. to \in Places /\ \/ op = "init" /\ to = "unprepared"
                       \/ op = "restore" /\ to \in {"redo", "leave"}
                       \/ op = "code" /\ to = "cleanup"
                       \/ op = "reset" /\ to = "dispose"
  BY <1>1 DEF Ops, Places
<1>3. pc' = [pc EXCEPT ![c] = to]
  BY DEF Fails, Goto
<1>4. unclean' \in {unclean, unclean \cup {router[c]}} /\ UNCHANGED <<out, covered>>
  BY DEF Fails, Mark, ledger
<1> HIDE DEF to
<1> QED
  BY <1>2, <1>3, <1>4

\* What all of them have in common.
LEMMA QuietShape ==
    ASSUME IInv, NEW c \in Calls, Quiet(c)
    PROVE  /\ UNCHANGED <<router, admission, registry, have, ran, out, covered>>
           /\ \/ pc' = pc
              \/ \E to \in Places : QuietMove(pc[c], to) /\ pc' = [pc EXCEPT ![c] = to]
           /\ unclean' \in {unclean, unclean \cup {router[c]}}
           /\ TypeOK'
<1>1. UNCHANGED <<router, admission, registry, have, ran>>
  BY DEF Quiet, RetiredMeanwhile, Restored, ResetDone, registry, AcquireRefused, AdoptRefused,
     RunRefused, ResetRefused, CodeRan,
     Joined, DisposeLate, DeadlinePasses, ThreadRefuses, ThreadBreaks, results
<1>2. /\ \/ pc' = pc
         \/ \E to \in Places : QuietMove(pc[c], to) /\ pc' = [pc EXCEPT ![c] = to]
      /\ unclean' \in {unclean, unclean \cup {router[c]}} /\ UNCHANGED <<out, covered>>
  <2>1. CASE AcquireRefused(c) \/ AdoptRefused(c) \/ RunRefused(c) \/ ResetRefused(c)
    BY <2>1 DEF AcquireRefused, AdoptRefused, RunRefused, ResetRefused, Mark, Goto, QuietMove,
       Places, ledger
  <2>2. CASE CodeRan(c) \/ DisposeLate(c)
    BY <2>2 DEF CodeRan, DisposeLate, InTime, Mark, Goto, QuietMove, Places, ledger
  <2>2a. CASE RetiredMeanwhile(c)
    BY <2>2a DEF RetiredMeanwhile, Restored, ResetDone, InTime, Mark, Goto, QuietMove, Places,
       ledger
  <2>3. CASE Joined(c)
    <3>1. PICK op \in Ops : pc[c] = Join[op] /\ Fails(c, op)
      BY <2>3 DEF Joined
    <3>2. PICK to \in Places :
             /\ pc' = [pc EXCEPT ![c] = to]
             /\ \/ op = "init" /\ to = "unprepared"
                \/ op = "restore" /\ to \in {"redo", "leave"}
                \/ op = "code" /\ to = "cleanup"
                \/ op = "reset" /\ to = "dispose"
             /\ unclean' \in {unclean, unclean \cup {router[c]}} /\ UNCHANGED <<out, covered>>
      BY <3>1, FailsMove
    <3>3. QuietMove(pc[c], to)
      BY <3>1, <3>2 DEF Join, QuietMove
    <3> QED
      BY <3>2, <3>3
  <2>4. CASE DeadlinePasses(c) \/ ThreadRefuses(c) \/ ThreadBreaks(c)
    BY <2>4 DEF DeadlinePasses, ThreadRefuses, ThreadBreaks, ledger
  <2> QED
    BY <2>1, <2>2, <2>2a, <2>3, <2>4 DEF Quiet
<1>4. pc' \in [Calls -> Places]
  BY <1>2 DEF IInv, TypeOK
<1>5. told' \in [Calls -> {"none", "ok", "queued", "cancelled", "failed"}]
  BY DEF IInv, TypeOK, Quiet, AcquireRefused, AdoptRefused, RunRefused, ResetRefused,
     RetiredMeanwhile, Restored, ResetDone, CodeRan, Joined, DisposeLate, DeadlinePasses,
     ThreadRefuses, ThreadBreaks, results
<1>6. x' \in [Calls -> Threads]
  <2>0. x \in [Calls -> Threads] /\ NoExchange \in Threads
    BY DEF IInv, TypeOK, Threads, NoExchange, Ops
  <2>2. CASE CodeRan(c) \/ Joined(c) \/ RetiredMeanwhile(c)
    <3>1. x' = [x EXCEPT ![c] = NoExchange]
      BY <2>2 DEF CodeRan, Joined, RetiredMeanwhile, Restored, ResetDone, Return
    <3> QED
      BY <2>0, <3>1
  <2>3. CASE DeadlinePasses(c)
    BY <2>0, <2>3 DEF DeadlinePasses, Threads
  <2>3a. CASE ThreadRefuses(c) \/ ThreadBreaks(c)
    <3>1. PICK state \in {"refused", "broken"} :
             \/ x' = [x EXCEPT ![c].thread = state]
             \/ x' = [x EXCEPT ![c] = NoExchange]
      BY <2>3a DEF ThreadRefuses, ThreadBreaks, Thread
    <3>2. CASE x' = [x EXCEPT ![c].thread = state]
      BY <2>0, <3>2 DEF Threads
    <3>3. CASE x' = [x EXCEPT ![c] = NoExchange]
      BY <2>0, <3>3
    <3> QED
      BY <3>1, <3>2, <3>3
  <2>4. CASE AcquireRefused(c) \/ AdoptRefused(c) \/ RunRefused(c) \/ ResetRefused(c) \/ DisposeLate(c)
    BY <2>0, <2>4 DEF AcquireRefused, AdoptRefused, RunRefused, ResetRefused, DisposeLate
  <2> QED
    BY <2>2, <2>3, <2>3a, <2>4 DEF Quiet
<1>7. unclean' \subseteq Calls
  BY <1>2 DEF IInv, TypeOK
<1> QED
  BY <1>1, <1>2, <1>4, <1>5, <1>6, <1>7 DEF IInv, TypeOK, admission, registry, Threads

\* A move inside a call's body: an exchange refused, answered in time or given up, a disposal that
\* is too late, and the threads that run the exchanges.
LEMMA QuietStep ==
    ASSUME IInv, NEW c \in Calls, Quiet(c)
    PROVE  IInv'
<1>0. /\ UNCHANGED <<router, admission, registry, have, ran, out, covered>>
      /\ \/ pc' = pc
         \/ \E to \in Places : QuietMove(pc[c], to) /\ pc' = [pc EXCEPT ![c] = to]
      /\ unclean' \in {unclean, unclean \cup {router[c]}}
      /\ TypeOK'
  BY QuietShape
<1>1. /\ \A d \in Calls : d # c => pc'[d] = pc[d]
      /\ pc'[c] = pc[c] \/ QuietMove(pc[c], pc'[c])
  BY <1>0 DEF IInv, TypeOK
<1>2. \A d \in Calls : Wears(d) /\ GoesOn(d) /\ Keeps(d)
  <2> SUFFICES ASSUME NEW d \in Calls PROVE Wears(d) /\ GoesOn(d) /\ Keeps(d)
    OBVIOUS
  <2>1. Wears(d)
    BY <1>0 DEF Wears, registry
  <2>2. GoesOn(d)
    BY <1>1 DEF GoesOn, QuietMove, Preparing, Adopting, Served
  <2>3. Keeps(d)
    BY <1>0, <1>1 DEF Keeps, QuietMove, HasOne, Adopting, Served
  <2> QED
    BY <2>1, <2>2, <2>3
<1>3. LeaseIsCounted'
  <2>1. \A d \in Calls : pc'[d] = pc[d] \/ (InBody(d) /\ pc'[d] \notin {"start", "waiting", "done"})
    BY <1>1 DEF InBody, QuietMove
  <2> QED
    BY <1>0, <2>1, BodyKeepsLease DEF IInv
<1>4. GateIsHeld'
  <2>1. \A d \in Calls : pc'[d] \in Closing => pc'[d] = pc[d]
    BY <1>1 DEF QuietMove, Closing
  <2> QED
    BY <1>0, <1>2, <2>1, GateKept DEF IInv, GoesOn, registry
<1>5. InstancesAreMade'
  BY <1>0, <1>2, InstancesKept DEF IInv, registry
<1>6. ThreadsAreAsked'
  <2>1. CASE CodeRan(c) \/ Joined(c) \/ RetiredMeanwhile(c)
    <3>1. x' = [x EXCEPT ![c] = NoExchange] /\ pc[c] \in Exchanging /\ pc'[c] \notin Exchanging
      <4>1. CASE CodeRan(c)
        BY <4>1 DEF CodeRan, InTime, Return, Goto, Exchanging, IInv, TypeOK
      <4>2. CASE Joined(c)
        <5>1. PICK op \in Ops : pc[c] = Join[op] /\ Fails(c, op) /\ Return(c)
          BY <4>2 DEF Joined
        <5>2. PICK to \in Places :
             /\ pc' = [pc EXCEPT ![c] = to]
             /\ \/ op = "init" /\ to = "unprepared"
                \/ op = "restore" /\ to \in {"redo", "leave"}
                \/ op = "code" /\ to = "cleanup"
                \/ op = "reset" /\ to = "dispose"
          BY <5>1, FailsMove
        <5>3. pc'[c] = to
          BY <5>2 DEF IInv, TypeOK
        <5> QED
          BY <5>1, <5>2, <5>3 DEF Join, Return, Exchanging
      <4>3. CASE RetiredMeanwhile(c)
        BY <4>3 DEF RetiredMeanwhile, Restored, ResetDone, InTime, Return, Goto, Exchanging, IInv,
           TypeOK
      <4> QED
        BY <2>1, <4>1, <4>2, <4>3
    <3>2. /\ \A d \in Calls : d # c => x'[d] = x[d] /\ pc'[d] = pc[d]
          /\ x'[c].thread = "none" /\ pc'[c] \notin Ops
      BY <1>1, <3>1 DEF IInv, TypeOK, NoExchange, Exchanging, Ops
    <3>3. ASSUME NEW d \in Calls, d # c
          PROVE  /\ pc'[d] \in Ops => ~x[d].withdrawn
                 /\ x[d].thread = "pending" => x[d].withdrawn \/ pc'[d] \in Ops
                 /\ pc'[d] \in Exchanging => x[d].thread # "none"
                 /\ x[d].withdrawn \in BOOLEAN
      BY <3>2, <3>3 DEF IInv, TypeOK, ThreadsAreAsked
    <3>4. ASSUME NEW d \in Calls
          PROVE  /\ pc'[d] \in Ops => pc'[d] = pc[d] /\ x'[d] = x[d] /\ ~x'[d].withdrawn
                 /\ x'[d].thread = "pending" =>
                      x'[d] = x[d] /\ (x'[d].withdrawn \/ (pc'[d] = pc[d] /\ ~x[d].withdrawn))
                 /\ pc'[d] \in Exchanging => x'[d].thread # "none"
                 /\ x'[d].thread # "none" => x'[d] = x[d]
                 /\ pc'[d] \in {"restore", "reset"} => d # c
      BY <3>1, <3>2, <3>3, <3>4 DEF Ops
    <3> QED
      BY <1>2, <3>2, <3>4, ThreadsKept DEF IInv
  <2>2. CASE DeadlinePasses(c)
    <3>1. x' = [x EXCEPT ![c].late = TRUE] /\ pc' = pc
      BY <2>2 DEF DeadlinePasses
    <3>2. \A d \in Calls : /\ x'[d].op = x[d].op /\ x'[d].of = x[d].of
                           /\ x'[d].thread = x[d].thread /\ x'[d].withdrawn = x[d].withdrawn
      BY <3>1 DEF IInv, TypeOK
    <3>3. \A d \in Calls : /\ pc[d] \in Ops => ~x[d].withdrawn
                           /\ pc[d] \in Exchanging => x[d].thread # "none"
                           /\ x[d].withdrawn \in BOOLEAN
      BY DEF IInv, ThreadsAreAsked, TypeOK
    <3> QED
      BY <1>2, <3>1, <3>2, <3>3, ThreadsKept DEF IInv
  <2>3. CASE ThreadRefuses(c) \/ ThreadBreaks(c)
    <3>1. PICK state \in {"refused", "broken"} :
             /\ pc' = pc
             /\ x' = IF pc[c] \in Exchanging THEN [x EXCEPT ![c].thread = state]
                                             ELSE [x EXCEPT ![c] = NoExchange]
      BY <2>3 DEF ThreadRefuses, ThreadBreaks, Thread
    <3>2. x[c].thread \in {"pending", "running"}
      BY <2>3 DEF ThreadRefuses, ThreadBreaks
    <3>3. \A d \in Calls : d # c => x'[d] = x[d]
      BY <3>1 DEF IInv, TypeOK
    <3>4. CASE pc[c] \in Exchanging
      <4>1. x'[c].op = x[c].op /\ x'[c].of = x[c].of /\ x'[c].withdrawn = x[c].withdrawn
            /\ x'[c].thread = state
        BY <3>1, <3>4 DEF IInv, TypeOK
      <4> QED
        BY <1>0, <3>1, <3>2, <3>3, <4>1 DEF IInv, ThreadsAreAsked, registry
    <3>5. CASE pc[c] \notin Exchanging
      <4>1. x'[c].thread = "none" /\ pc[c] \notin Ops
        BY <3>1, <3>5 DEF IInv, TypeOK, NoExchange, Exchanging, Ops
      <4>2. pc[c] \notin {"restore", "reset"}
        BY <3>5 DEF Exchanging
      <4> QED
        BY <1>0, <3>1, <3>3, <3>5, <4>1, <4>2 DEF IInv, ThreadsAreAsked, registry
    <3> QED
      BY <3>4, <3>5
  <2>4. CASE AcquireRefused(c) \/ AdoptRefused(c) \/ RunRefused(c) \/ ResetRefused(c) \/ DisposeLate(c)
    <3>1. x' = x /\ pc[c] \notin Exchanging /\ pc'[c] \notin Exchanging
      BY <2>4 DEF AcquireRefused, AdoptRefused, RunRefused, ResetRefused, DisposeLate, Goto,
         Exchanging, IInv, TypeOK
    <3>2. \A d \in Calls : /\ pc'[d] \in Ops \/ pc[d] \in Ops => pc'[d] = pc[d]
                           /\ pc'[d] \in Exchanging => pc[d] \in Exchanging
      BY <1>1, <3>1 DEF Ops, Exchanging
    <3> QED
      BY <1>2, <3>1, <3>2, ThreadsLeft DEF IInv
  <2> QED
    BY <2>1, <2>2, <2>3, <2>4 DEF Quiet
<1>7. ServesOne' /\ DirtIsOwed'
  <2>1. pc[c] \in Served => pc'[c] \in Served \/ (pc[c] = "dispose" /\ pc'[c] = "leave")
    BY <1>1 DEF QuietMove, Served
  <2>2. pc[c] = "dispose" /\ pc'[c] = "leave" => router[c] \in unclean'
    BY DEF Quiet, AcquireRefused, AdoptRefused, RunRefused, ResetRefused, CodeRan, InTime, Joined,
       RetiredMeanwhile, Restored, ResetDone, Join, Ops, DisposeLate, Mark, DeadlinePasses,
       ThreadRefuses, ThreadBreaks
  <2>3. \A d \in Calls : pc[d] \in Served => pc'[d] \in Served \/ router[d] \in unclean'
    BY <1>1, <2>1, <2>2
  <2> QED
    BY <1>0, <1>2, <2>3, DirtKept DEF IInv
<1>8. RunsAreTold'
  <2>1. \A d \in Calls : Tells(d)
    <3>1. CASE RunRefused(c)
      <4>1. told' = [told EXCEPT ![c] = "failed"] /\ pc[c] = "run" /\ pc'[c] = "cleanup" /\ ~ran'[c]
        BY <1>0, <3>1 DEF RunRefused, Goto, IInv, TypeOK, RunsAreTold
      <4>2. "cleanup" \in Told
        BY DEF Told, Served
      <4> QED
        BY <1>1, <4>1, <4>2 DEF Tells, IInv, TypeOK
    <3>2. CASE CodeRan(c)
      <4>1. told' = [told EXCEPT ![c] = "ok"] /\ pc'[c] = "cleanup"
        BY <3>2 DEF CodeRan, Goto, IInv, TypeOK
      <4>2. "cleanup" \in Told /\ "ok" \notin Unanswered
        BY DEF Told, Served, Unanswered
      <4>3. told'[c] = "ok" /\ \A d \in Calls : d # c => told'[d] = told[d]
        BY <4>1 DEF IInv, TypeOK
      <4> QED
        BY <1>1, <4>1, <4>2, <4>3 DEF Tells
    <3>3. CASE ~RunRefused(c) /\ ~CodeRan(c)
      <4>1. told' = told
        BY <3>3 DEF Quiet, RetiredMeanwhile, Restored, ResetDone, AcquireRefused, AdoptRefused,
           ResetRefused, Joined, DisposeLate,
           DeadlinePasses, ThreadRefuses, ThreadBreaks, results
      <4>2. \A d \in Calls : pc'[d] = "done" => pc[d] = "done"
        BY <1>1 DEF QuietMove
      <4> QED
        BY <4>1, <4>2 DEF Tells
    <3> QED
      BY <3>1, <3>2, <3>3
  <2>2. pc[c] = "code" /\ pc'[c] = "code" /\ Started(c) => Started(c)'
    <3>1. CASE DeadlinePasses(c)
      BY <3>1 DEF DeadlinePasses, Started, IInv, TypeOK
    <3>2. CASE ThreadRefuses(c) \/ ThreadBreaks(c)
      <4>1. CASE ThreadBreaks(c) /\ pc[c] = "code"
        BY <4>1 DEF ThreadBreaks, Thread, Exchanging, Started, IInv, TypeOK
      <4>2. CASE ThreadRefuses(c)
        BY <4>2 DEF ThreadRefuses, Started
      <4> QED
        BY <3>2, <4>1, <4>2
    <3>3. CASE AcquireRefused(c) \/ AdoptRefused(c) \/ RunRefused(c) \/ ResetRefused(c) \/ DisposeLate(c)
      BY <3>3 DEF AcquireRefused, AdoptRefused, RunRefused, ResetRefused, DisposeLate
    <3>4. CASE CodeRan(c) \/ Joined(c) \/ RetiredMeanwhile(c)
      BY <3>4 DEF CodeRan, Joined, RetiredMeanwhile, Restored, ResetDone, InTime, Goto, Join, Ops,
         IInv, TypeOK
    <3> QED
      BY <3>1, <3>2, <3>3, <3>4 DEF Quiet
  <2>3. \A d \in Calls : d # c => Started(d)' = Started(d)
    <3>1. \A d \in Calls : d # c => x'[d] = x[d]
      BY DEF Quiet, AcquireRefused, AdoptRefused, RunRefused, ResetRefused, CodeRan, Joined, Return,
         RetiredMeanwhile, Restored, ResetDone,
         DisposeLate, DeadlinePasses, ThreadRefuses, ThreadBreaks, Thread, IInv, TypeOK
    <3> QED
      BY <3>1 DEF Started
  <2>4. /\ pc'[c] \in {"run", "code"} => pc'[c] = pc[c]
        /\ pc[c] \in Served => pc'[c] \in Served \cup {"leave"}
        /\ pc[c] \in {"stop_restore", "leave"} => pc'[c] = pc[c]
    BY <1>1 DEF QuietMove, Served
  <2>5. pc[c] = "join_restore" /\ told[c] # "none" => pc'[c] \in {"join_restore", "leave"}
    <3> SUFFICES ASSUME pc[c] = "join_restore", told[c] # "none", pc'[c] # "join_restore"
                 PROVE  pc'[c] = "leave"
      OBVIOUS
    <3>1. Joined(c)
      BY DEF Quiet, AcquireRefused, AdoptRefused, RunRefused, ResetRefused, CodeRan, InTime,
         RetiredMeanwhile, Restored, ResetDone, DisposeLate, DeadlinePasses, ThreadRefuses,
         ThreadBreaks
    <3>2. Fails(c, "restore")
      BY <3>1 DEF Joined, Join, Ops
    <3>3. told[c] = "cancelled"
      BY DEF IInv, RunsAreTold
    <3> QED
      BY <3>2, <3>3 DEF Fails, Goto, IInv, TypeOK
  <2> QED
    BY <1>1, <1>2, <2>1, <2>2, <2>3, <2>4, <2>5, RunsKept DEF IInv
<1> QED
  BY <1>0, <1>3, <1>4, <1>5, <1>6, <1>7, <1>8 DEF IInv

\* _exchange (_backend.py) is asked for by a call that has an instance, which stays what it is.
LEMMA BeginStep ==
    ASSUME IInv, NEW c \in Calls, Adopt(c) \/ RunCode(c) \/ Reset(c)
    PROVE  IInv'
<1>0. PICK op \in {"restore", "code", "reset"} :
         /\ \/ op = "restore" /\ pc[c] = "adopt"
            \/ op = "code" /\ pc[c] = "run"
            \/ op = "reset" /\ pc[c] = "cleanup"
         /\ x' = [x EXCEPT ![c] = [op |-> op, of |-> have[c], thread |-> "pending",
                                   withdrawn |-> FALSE, late |-> FALSE]]
         /\ pc' = [pc EXCEPT ![c] = op]
         /\ UNCHANGED <<router, admission, registry, results, ledger>>
  BY DEF Adopt, RunCode, Reset, Begin, Ask, Goto
<1>1. /\ \A d \in Calls : d # c => pc'[d] = pc[d] /\ x'[d] = x[d]
      /\ pc'[c] = op /\ x'[c].op = op /\ x'[c].of = have[c] /\ x'[c].thread = "pending"
      /\ ~x'[c].withdrawn
  BY <1>0 DEF IInv, TypeOK
<1>2. have[c] \in Calls
  BY <1>0 DEF IInv, TypeOK, InstancesAreMade, HasOne, Adopting, Served
<1>3. TypeOK'
  <2>1. x' \in [Calls -> Threads] /\ pc' \in [Calls -> Places]
    <3>1. [op |-> op, of |-> have[c], thread |-> "pending", withdrawn |-> FALSE, late |-> FALSE]
             \in Threads
      BY <1>2 DEF Threads, Ops
    <3>2. x \in [Calls -> Threads] /\ op \in Places
      BY DEF IInv, TypeOK, Threads, Places, Exchanging
    <3> QED
      BY <1>0, <3>1, <3>2 DEF IInv, TypeOK
  <2> QED
    BY <1>0, <2>1 DEF IInv, TypeOK, Threads, admission, registry, results, ledger
<1>4. \A d \in Calls : Wears(d) /\ GoesOn(d) /\ Keeps(d) /\ Tells(d)
  <2> SUFFICES ASSUME NEW d \in Calls PROVE Wears(d) /\ GoesOn(d) /\ Keeps(d) /\ Tells(d)
    OBVIOUS
  <2>1. Wears(d)
    BY <1>0 DEF Wears, registry
  <2>2. GoesOn(d)
    BY <1>0, <1>1 DEF GoesOn, Preparing, Adopting, Served
  <2>3. Keeps(d) /\ Tells(d)
    BY <1>0, <1>1 DEF Keeps, Tells, HasOne, Adopting, Served, results
  <2> QED
    BY <2>1, <2>2, <2>3
<1>5. LeaseIsCounted'
  <2>1. \A d \in Calls : pc'[d] = pc[d] \/ (InBody(d) /\ pc'[d] \notin {"start", "waiting", "done"})
    BY <1>0, <1>1 DEF InBody
  <2> QED
    BY <1>0, <2>1, BodyKeepsLease DEF IInv
<1>6. GateIsHeld'
  <2>1. \A d \in Calls : pc'[d] \in Closing => pc'[d] = pc[d]
    BY <1>1 DEF Closing
  <2> QED
    BY <1>0, <1>4, <2>1, GateKept DEF IInv, GoesOn, registry, ledger
<1>7. InstancesAreMade'
  BY <1>0, <1>4, InstancesKept DEF IInv, registry
<1>8. ThreadsAreAsked'
  <2>1. have' = have /\ inst' = inst /\ have[c] # None
    BY <1>0, <1>2, CallsAssumption DEF registry, results
  <2> QED
    BY <1>1, <2>1 DEF IInv, ThreadsAreAsked, Ops
<1>9. ServesOne' /\ DirtIsOwed'
  <2>1. \A d \in Calls : pc[d] \in Served => pc'[d] \in Served
    BY <1>0, <1>1 DEF Served
  <2> QED
    BY <1>0, <1>4, <2>1, DirtKept DEF IInv, ledger
<1>10. RunsAreTold'
  <2>1. \A d \in Calls : d # c => Started(d)' = Started(d)
    BY <1>1 DEF Started
  <2>2. /\ pc'[c] # "run" /\ pc[c] # "code" /\ pc[c] \notin {"stop_restore", "join_restore", "leave"}
        /\ pc'[c] = "code" => pc[c] = "run"
        /\ pc[c] \in Served => pc'[c] \in Served
    BY <1>0, <1>1 DEF Served
  <2> QED
    BY <1>1, <1>4, <2>1, <2>2, RunsKept DEF IInv
<1> QED
  BY <1>3, <1>5, <1>6, <1>7, <1>8, <1>9, <1>10 DEF IInv

\* A confirmed reset (reset of _backend.py) gives the instance a new identity, which only the router
\* that asked knows, and nothing is left in it.
LEMMA RenewedStep ==
    ASSUME IInv, NEW c \in Calls, Restored(c) \/ ResetDone(c), ~inst[have[c]].retired
    PROVE  IInv'
<1>0. PICK to \in {"run", "leave"} :
      /\ \/ pc[c] = "restore" /\ to = "run"
         \/ pc[c] = "reset" /\ to = "leave"
      /\ pc' = [pc EXCEPT ![c] = to] /\ x' = [x EXCEPT ![c] = NoExchange]
      /\ x[c].thread = "answered"
      /\ inst' = [inst EXCEPT ![have[c]].known = {router[c]}]
      /\ UNCHANGED <<router, admission, gate, reg, results, ledger>>
  BY DEF Restored, ResetDone, InTime, Goto, Return, Renewed
<1>1. /\ \A d \in Calls : d # c => pc'[d] = pc[d] /\ x'[d] = x[d]
      /\ pc'[c] = to /\ x'[c].thread = "none"
  BY <1>0 DEF IInv, TypeOK, NoExchange
<1> PICK i \in Calls : i = have[c]
  BY <1>0 DEF IInv, TypeOK, InstancesAreMade, HasOne, Adopting, Served
<1>2. inst[i].dirt = {} /\ c \in Held /\ \A d \in Held : d = c
  <2>1. c \in Held
    BY <1>0 DEF Held
  <2> QED
    BY <1>0, <2>1, OneHolder DEF IInv, ThreadsAreAsked
<1>3. /\ inst' \in [Calls -> Instances]
      /\ \A j \in Calls : /\ inst'[j].up = inst[j].up /\ inst'[j].retired = inst[j].retired
                          /\ inst'[j].dirt = inst[j].dirt
                          /\ j # i => inst'[j].known = inst[j].known
      /\ inst'[i].known = {router[c]}
  <2>1. inst \in [Calls -> Instances] /\ router[c] \in Calls
    BY DEF IInv, TypeOK, Instances
  <2> QED
    BY <1>0, <2>1 DEF Instances
<1>4. TypeOK'
  <2>1. x' \in [Calls -> Threads] /\ pc' \in [Calls -> Places]
    <3>1. NoExchange \in Threads /\ x \in [Calls -> Threads] /\ to \in Places
      BY DEF IInv, TypeOK, Threads, Places, NoExchange, Ops
    <3> QED
      BY <1>0, <3>1 DEF IInv, TypeOK
  <2> QED
    BY <1>0, <1>3, <2>1 DEF IInv, TypeOK, Threads, Instances, admission, results, ledger
<1>5. LeaseIsCounted'
  <2>1. \A d \in Calls : pc'[d] = pc[d] \/ (InBody(d) /\ pc'[d] \notin {"start", "waiting", "done"})
    BY <1>0, <1>1 DEF InBody
  <2> QED
    BY <1>0, <2>1, BodyKeepsLease DEF IInv
<1>6. GateIsHeld'
  <2>1. \A d \in Calls : /\ pc'[d] \in Closing => pc'[d] = pc[d]
                         /\ pc'[d] \in Preparing => pc[d] \in Preparing
    BY <1>1 DEF Closing, Preparing
  <2> QED
    BY <1>0, <2>1, GateKept DEF IInv, ledger
<1>7. InstancesAreMade'
  <2>1. pc[c] \in HasOne /\ pc'[c] \in HasOne \cup {"leave"} /\ pc'[c] # "again"
    BY <1>0, <1>1 DEF HasOne, Adopting, Served
  <2>2. have' = have /\ reg' = reg
    BY <1>0 DEF results
  <2> QED
    BY <1>1, <1>3, <2>1, <2>2 DEF IInv, InstancesAreMade
<1>8. ThreadsAreAsked'
  <2>1. pc'[c] \notin Exchanging /\ pc'[c] \notin Ops /\ pc'[c] \notin {"restore", "reset"}
    BY <1>1 DEF Exchanging, Ops
  <2>2. have' = have
    BY <1>0 DEF results
  <2>3. \A d \in Calls : pc[d] \in {"restore", "reset"} => have[d] \in Calls
    BY DEF IInv, TypeOK, InstancesAreMade, HasOne, Adopting, Served
  <2>4. \A d \in Calls : pc'[d] \in {"restore", "reset"} /\ x'[d].thread = "answered" =>
                            inst'[have'[d]].dirt = {}
    <3> SUFFICES ASSUME NEW d \in Calls, pc'[d] \in {"restore", "reset"}, x'[d].thread = "answered"
                 PROVE  inst'[have'[d]].dirt = {}
      OBVIOUS
    <3>1. d # c /\ pc'[d] = pc[d] /\ x'[d] = x[d] /\ have[d] \in Calls
      BY <1>1, <2>1, <2>3
    <3>2. inst[have[d]].dirt = {}
      BY <3>1 DEF IInv, ThreadsAreAsked
    <3> QED
      BY <1>3, <2>2, <3>1, <3>2
  <2>5. \A d \in Calls : d # c => pc'[d] = pc[d] /\ x'[d] = x[d] /\ have'[d] = have[d]
    BY <1>1, <2>2
  <2>6. \A d \in Calls : /\ pc'[d] \in Ops \cup Exchanging => d # c
                         /\ x'[d].thread # "none" => d # c
    BY <1>1, <2>1
  <2>7. ThreadsAreAsked
    BY DEF IInv
  <2>8. /\ \A d \in Calls : pc'[d] \in Ops => x'[d].op = pc'[d] /\ ~x'[d].withdrawn
        /\ \A d \in Calls : pc'[d] \in Ops \ {"init"} => x'[d].of = have'[d]
    BY <2>5, <2>6, <2>7 DEF ThreadsAreAsked
  <2>9. /\ \A d \in Calls : x'[d].thread = "pending" => x'[d].withdrawn \/ pc'[d] = x'[d].op
        /\ \A d \in Calls : pc'[d] \in Exchanging => x'[d].thread # "none"
        /\ \A d \in Calls : x'[d].thread # "none" => x'[d].of # None
    BY <2>5, <2>6, <2>7 DEF ThreadsAreAsked
  <2> QED
    BY <2>4, <2>8, <2>9 DEF ThreadsAreAsked
<1>9. ServesOne'
  <2>1. \A d \in Calls : pc'[d] \in Served => d = c /\ have'[d] = i
    <3>1. \A d \in Calls : pc[d] \in Served => d = c
      BY <1>2 DEF Held, Served
    <3> QED
      BY <1>0, <1>1, <3>1 DEF results
  <2> QED
    BY <1>0, <1>2, <1>3, <2>1 DEF ServesOne
<1>10. DirtIsOwed'
  <2>1. ASSUME NEW j \in Calls, Alive(j)', inst'[j].dirt # {}, NEW r \in inst'[j].known
        PROVE  r \in unclean' \/ \E d \in Calls : pc'[d] \in Served /\ have'[d] = j
    <3>1. j # i /\ Alive(j) /\ r \in inst[j].known /\ inst[j].dirt # {}
      BY <1>2, <1>3, <2>1 DEF Alive
    <3>2. \A d \in Calls : pc[d] \in Served /\ have[d] = j => pc'[d] \in Served /\ have'[d] = j
      BY <1>0, <1>1, <3>1 DEF results
    <3> QED
      BY <1>0, <3>1, <3>2 DEF IInv, DirtIsOwed, ledger
  <2>2. \A d \in Calls : pc'[d] \in Preparing => pc[d] \in Preparing
    BY <1>1 DEF Preparing
  <2>3. \A j \in Calls : \A d, e \in inst'[j].dirt : d = e
    BY <1>3 DEF IInv, DirtIsOwed
  <2>4. \A j \in Calls : \A r, s \in inst'[j].known : r = s
    BY <1>3 DEF IInv, DirtIsOwed
  <2>5. \A d \in Calls : pc'[d] \in Preparing => inst'[d].dirt = {}
    BY <1>3, <2>2 DEF IInv, DirtIsOwed
  <2> QED
    BY <2>1, <2>3, <2>4, <2>5 DEF DirtIsOwed
<1>11. RunsAreTold'
  <2>1. \A d \in Calls : d # c => Started(d)' = Started(d)
    BY <1>1 DEF Started
  <2>2. UNCHANGED <<have, told, ran>>
    BY <1>0 DEF results
  <2>3. pc[c] = "restore" => told[c] = "none" /\ ~ran[c]
    BY DEF IInv, RunsAreTold, Served
  <2>4. UnansweredRetires'
    <3> SUFFICES ASSUME NEW d \in Calls, told[d] \in {"queued", "cancelled", "failed"}, ran[d]
                 PROVE  told[d] # "queued" /\ inst'[have[d]].retired
      BY <2>2 DEF UnansweredRetires
    <3>1. have[d] \in Calls /\ told[d] # "queued" /\ inst[have[d]].retired
      BY DEF IInv, RunsAreTold, UnansweredRetires, TypeOK
    <3> QED
      BY <1>3, <3>1
  <2>5. /\ ran[c] => pc'[c] = "leave"
        /\ told[c] # "none" => pc'[c] = "leave"
        /\ pc'[c] # "code" /\ pc'[c] \notin {"stop_restore", "join_restore"}
    BY <1>0, <1>1, <2>3
  <2> QED
    BY <1>1, <2>1, <2>2, <2>4, <2>5 DEF IInv, RunsAreTold
<1> QED
  BY <1>4, <1>5, <1>6, <1>7, <1>8, <1>9, <1>10, <1>11 DEF IInv

-----------------------------------------------------------------------------
(***************************************************************************)
(* Acquiring: an instance handed out, or made.                             *)
(***************************************************************************)

\* Where the other calls are as they were, a call's own exchange decides.
LEMMA ThreadsOfOthers ==
    ASSUME TypeOK, InstancesAreMade, ThreadsAreAsked, NEW c \in Calls,
           \A d \in Calls : d # c => pc'[d] = pc[d] /\ x'[d] = x[d] /\ have'[d] = have[d],
           \A d \in Calls : d # c /\ have[d] # None => inst'[have[d]].dirt \subseteq inst[have[d]].dirt,
           pc'[c] \in Ops => x'[c].op = pc'[c] /\ ~x'[c].withdrawn,
           pc'[c] \in Ops \ {"init"} => x'[c].of = have'[c],
           x'[c].thread = "pending" => x'[c].withdrawn \/ pc'[c] = x'[c].op,
           pc'[c] \in Exchanging => x'[c].thread # "none",
           x'[c].thread # "none" => x'[c].of # None,
           pc'[c] \in {"restore", "reset"} /\ x'[c].thread = "answered" => inst'[have'[c]].dirt = {}
    PROVE  ThreadsAreAsked'
<1>1. /\ \A d \in Calls : pc'[d] \in Ops => x'[d].op = pc'[d] /\ ~x'[d].withdrawn
      /\ \A d \in Calls : pc'[d] \in Ops \ {"init"} => x'[d].of = have'[d]
  BY DEF ThreadsAreAsked
<1>2. /\ \A d \in Calls : x'[d].thread = "pending" => x'[d].withdrawn \/ pc'[d] = x'[d].op
      /\ \A d \in Calls : pc'[d] \in Exchanging => x'[d].thread # "none"
      /\ \A d \in Calls : x'[d].thread # "none" => x'[d].of # None
  BY DEF ThreadsAreAsked
<1>3. ASSUME NEW d \in Calls, pc'[d] \in {"restore", "reset"}, x'[d].thread = "answered"
      PROVE  inst'[have'[d]].dirt = {}
  <2>1. CASE d # c
    <3>1. pc[d] \in {"restore", "reset"} /\ x[d].thread = "answered" /\ have'[d] = have[d]
      BY <1>3, <2>1
    <3>2. inst[have[d]].dirt = {} /\ have[d] # None
      BY <3>1 DEF ThreadsAreAsked, InstancesAreMade, HasOne, Adopting, Served
    <3> QED
      BY <2>1, <3>1, <3>2
  <2> QED
    BY <1>3, <2>1
<1> QED
  BY <1>1, <1>2, <1>3 DEF ThreadsAreAsked

\* A call is handed an instance: to serve it at once only where nothing is left in it.
LEMMA TakeStep ==
    ASSUME IInv, TypeOK', GateIsHeld', NEW c \in Calls, pc[c] \in {"acquire", "init"},
           NEW i \in Calls, have' = [have EXCEPT ![c] = i],
           NEW to \in {"run", "adopt"}, pc' = [pc EXCEPT ![c] = to],
           x' = x \/ x' = [x EXCEPT ![c] = NoExchange], pc[c] = "init" => x' # x,
           to = "run" => inst[i].dirt = {} /\ inst[i].known \subseteq {router[c]},
           UNCHANGED <<router, admission, reg, inst, told, ran, ledger>>
    PROVE  IInv'
<1>1. /\ \A d \in Calls : d # c => pc'[d] = pc[d] /\ have'[d] = have[d] /\ x'[d] = x[d]
      /\ pc'[c] = to /\ have'[c] = i
      /\ (x'[c] = x[c] /\ pc[c] = "acquire") \/ x'[c].thread = "none"
  BY DEF IInv, TypeOK, NoExchange
<1>2. \A d \in Held : d = c
  <2>1. c \in Held
    BY DEF Held
  <2> QED
    BY <2>1, OneHolder DEF IInv
<1>3. LeaseIsCounted'
  <2>1. \A d \in Calls : pc'[d] = pc[d] \/ (InBody(d) /\ pc'[d] \notin {"start", "waiting", "done"})
    BY <1>1 DEF InBody
  <2> QED
    BY <2>1, BodyKeepsLease DEF IInv
<1>4. InstancesAreMade'
  <2>1. i # None /\ to \in HasOne /\ to # "again"
    BY CallsAssumption DEF HasOne, Adopting, Served
  <2> QED
    BY <1>1, <2>1 DEF IInv, InstancesAreMade
<1>5. ThreadsAreAsked'
  <2>1. to \notin Ops /\ to \notin Exchanging /\ to \notin {"restore", "reset"}
    BY DEF Ops, Exchanging
  <2>2. x'[c].thread = "pending" => x'[c].withdrawn
    <3>1. x[c].op # "acquire"
      BY DEF IInv, TypeOK, Ops
    <3> QED
      BY <1>1, <3>1 DEF IInv, ThreadsAreAsked
  <2>3. x'[c].thread # "none" => x'[c].of # None
    BY <1>1 DEF IInv, ThreadsAreAsked
  <2> QED
    BY <1>1, <2>1, <2>2, <2>3, ThreadsOfOthers DEF IInv
<1>6. \A d \in Calls : pc[d] \notin Served
  BY <1>2 DEF Held, Served
<1>7. ServesOne'
  BY <1>1, <1>6 DEF ServesOne, Served
<1>8. DirtIsOwed'
  <2>1. \A d \in Calls : pc'[d] \in Preparing => pc[d] \in Preparing
    BY <1>1 DEF Preparing
  <2>2. \A j \in Calls : Alive(j)' = Alive(j)
    BY DEF Alive
  <2> QED
    BY <1>6, <2>1, <2>2 DEF IInv, DirtIsOwed, ledger
<1>9. RunsAreTold'
  <2>1. ~ran[c] /\ told[c] = "none"
    BY DEF IInv, RunsAreTold, Served
  <2>2. \A d \in Calls : d # c => Started(d)' = Started(d)
    BY <1>1 DEF Started
  <2>3. to \notin {"code", "stop_restore", "join_restore"}
    OBVIOUS
  <2>4. UnansweredRetires'
    <3> SUFFICES ASSUME NEW d \in Calls, told[d] \in {"queued", "cancelled", "failed"}, ran[d]
                 PROVE  told[d] # "queued" /\ inst[have'[d]].retired
      BY DEF UnansweredRetires
    <3> QED
      BY <1>1, <2>1 DEF IInv, RunsAreTold, UnansweredRetires
  <2>5. \A d \in Calls : ran'[d] \/ told'[d] # "none" => d # c
    BY <2>1
  <2> QED
    BY <1>1, <2>2, <2>3, <2>4, <2>5 DEF IInv, RunsAreTold
<1> QED
  BY <1>3, <1>4, <1>5, <1>7, <1>8, <1>9 DEF IInv

\* acquire (_backend.py) hands out a live instance as it is; its router trusts it only where it
\* knows the identity, and then nothing is left in it: the router would refuse the key, or be
\* serving a call that still holds the lease.
LEMMA AcquireExistingStep ==
    ASSUME IInv, NEW c \in Calls, AcquireExisting(c)
    PROVE  IInv'
<1>1. /\ pc[c] = "acquire" /\ router[c] \notin unclean /\ gate = None /\ reg \in Calls /\ Alive(reg)
      /\ Remembers(c) = {}
  BY DEF AcquireExisting, Acquiring, Remembers, IInv, TypeOK, InstancesAreMade
<1> PICK i \in Calls : i = reg
  BY <1>1
<1> PICK to \in {"run", "adopt"} : to = Adopts(c, i)
  BY DEF Adopts
<1>2. /\ have' = [have EXCEPT ![c] = i] /\ pc' = [pc EXCEPT ![c] = to]
      /\ UNCHANGED <<router, admission, gate, reg, told, ran, x, ledger>>
  BY DEF AcquireExisting, Goto
<1>3. inst' = inst
  <2>1. inst' = [inst EXCEPT ![i].known = @ \cup {}]
    BY <1>1 DEF AcquireExisting
  <2>2. inst \in [Calls -> Instances]
    BY DEF IInv, TypeOK, Instances
  <2>3. [inst[i] EXCEPT !.known = inst[i].known \cup {}] = inst[i]
    BY <2>2 DEF Instances
  <2> QED
    BY <2>1, <2>2, <2>3
<1>4. to = "run" => inst[i].dirt = {} /\ inst[i].known \subseteq {router[c]}
  <2> SUFFICES ASSUME to = "run" PROVE inst[i].dirt = {} /\ inst[i].known \subseteq {router[c]}
    OBVIOUS
  <2>1. router[c] \in inst[i].known
    BY <1>1 DEF Adopts
  <2>2. \A d \in Calls : pc[d] \notin Served
    <3>1. c \in Held
      BY <1>1 DEF Held
    <3> QED
      BY <1>1, <3>1, OneHolder DEF IInv, Held, Served
  <2>3. inst[i].dirt = {}
    BY <1>1, <2>1, <2>2 DEF IInv, DirtIsOwed
  <2> QED
    BY <2>1, <2>3 DEF IInv, DirtIsOwed
<1>5. TypeOK'
  BY <1>2, <1>3 DEF IInv, TypeOK, Places, admission, ledger
<1>6. GateIsHeld'
  <2>1. \A d \in Calls : /\ pc'[d] \in Closing => pc'[d] = pc[d]
                         /\ pc'[d] \in Preparing => pc[d] \in Preparing
    BY <1>2 DEF IInv, TypeOK, Closing, Preparing
  <2> QED
    BY <1>2, <2>1, GateKept DEF IInv, ledger
<1> QED
  BY <1>1, <1>2, <1>3, <1>4, <1>5, <1>6, TakeStep

\* One that has answered its preparation is its maker's, and has nothing in it.
LEMMA PreparedStep ==
    ASSUME IInv, NEW c \in Calls, Prepared(c)
    PROVE  IInv'
<1> PICK to \in {"run", "adopt"} : to = Adopts(c, c)
  BY DEF Adopts
<1>1. /\ pc[c] = "init" /\ pc' = [pc EXCEPT ![c] = to] /\ have' = [have EXCEPT ![c] = c]
      /\ gate' = None /\ x' = [x EXCEPT ![c] = NoExchange]
      /\ UNCHANGED <<router, admission, reg, inst, told, ran, ledger>>
  BY DEF Prepared, InTime, Goto, Return
<1>2. x' # x
  <2>1. x[c].thread = "answered" /\ x'[c].thread = "none"
    BY <1>1 DEF Prepared, InTime, IInv, TypeOK, NoExchange
  <2> QED
    BY <2>1
<1>3. to = "run" => inst[c].dirt = {} /\ inst[c].known \subseteq {router[c]}
  <2> SUFFICES ASSUME to = "run" PROVE inst[c].dirt = {} /\ inst[c].known \subseteq {router[c]}
    OBVIOUS
  <2>1. router[c] \in inst[c].known
    BY <1>1 DEF Adopts, Remembers
  <2> QED
    BY <1>1, <2>1 DEF IInv, DirtIsOwed, Preparing
<1>4. TypeOK'
  <2>1. x' \in [Calls -> Threads]
    BY <1>1 DEF IInv, TypeOK, Threads, NoExchange, Ops
  <2> QED
    BY <1>1, <2>1 DEF IInv, TypeOK, Places, Threads, admission, ledger
<1>5. GateIsHeld'
  <2>1. gate = c
    BY <1>1 DEF IInv, GateIsHeld, Preparing
  <2>2. /\ \A d \in Calls : d # c => pc'[d] = pc[d]
        /\ pc'[c] \notin Closing \cup Preparing
    BY <1>1 DEF IInv, TypeOK, Closing, Preparing
  <2> QED
    BY <1>1, <2>1, <2>2, CallsAssumption DEF IInv, GateIsHeld, ledger
<1> QED
  BY <1>1, <1>2, <1>3, <1>4, <1>5, TakeStep

\* A new instance is registered for its maker alone, which holds the gate; the one that was
\* registered is down.
LEMMA MakeStep ==
    ASSUME IInv, NEW c \in Calls, pc[c] \in {"acquire", "again", "stopping_old"},
           gate = None \/ gate = c, gate' = c, reg' = c,
           inst' \in [Calls -> Instances], inst'[c] = Fresh(c),
           \A i \in Calls : i # c => Wears(i) /\ ~inst'[i].up,
           Ask(c, "init", c), Goto(c, "init"),
           UNCHANGED <<router, admission, results, ledger>>
    PROVE  IInv'
<1>0. /\ \A d \in Calls : d # c => pc'[d] = pc[d] /\ x'[d] = x[d]
      /\ pc'[c] = "init" /\ x'[c].op = "init" /\ x'[c].of = c /\ x'[c].thread = "pending"
      /\ ~x'[c].withdrawn
      /\ UNCHANGED <<have, told, ran, unclean, out, covered>>
  BY DEF IInv, TypeOK, Ask, Goto, results, ledger
<1>1. TypeOK'
  <2>1. x' \in [Calls -> Threads] /\ pc' \in [Calls -> Places]
    <3>1. [op |-> "init", of |-> c, thread |-> "pending", withdrawn |-> FALSE, late |-> FALSE]
             \in Threads
      BY DEF Threads, Ops
    <3>2. x \in [Calls -> Threads] /\ "init" \in Places
      BY DEF IInv, TypeOK, Threads, Places, Exchanging
    <3> QED
      BY <3>1, <3>2 DEF IInv, TypeOK, Ask, Goto
  <2> QED
    BY <1>0, <2>1 DEF IInv, TypeOK, Threads, Instances, admission
<1>2. \A d \in Held : d = c
  <2>1. c \in Held
    BY DEF Held
  <2> QED
    BY <2>1, OneHolder DEF IInv
<1>3. LeaseIsCounted'
  <2>1. \A d \in Calls : pc'[d] = pc[d] \/ (InBody(d) /\ pc'[d] \notin {"start", "waiting", "done"})
    BY <1>0 DEF InBody
  <2> QED
    BY <2>1, BodyKeepsLease DEF IInv
<1>4. GateIsHeld'
  <2>1. \A d \in Calls : d # c => pc[d] \notin Closing \cup Preparing
    BY <1>2 DEF Held, Closing, Preparing
  <2>2. out # "stopping"
    BY CallsAssumption DEF IInv, GateIsHeld
  <2> QED
    BY <1>0, <2>1, <2>2, CallsAssumption DEF GateIsHeld, Closing
<1>5. have[c] = None /\ ~ran[c] /\ told[c] = "none"
  BY DEF IInv, InstancesAreMade, RunsAreTold, HasOne, Adopting, Served
<1>6. InstancesAreMade'
  <2>1. \A d \in Calls : d # c => pc[d] # "again"
    BY <1>2 DEF Held
  <2>2. "init" \notin HasOne
    BY DEF HasOne, Adopting, Served
  <2> QED
    BY <1>0, <1>5, <2>1, <2>2 DEF IInv, InstancesAreMade
<1>7. \A d \in Calls : d # c => pc'[d] \notin Served \cup Preparing \cup {"restore", "reset"}
  BY <1>0, <1>2 DEF Held, Served, Preparing
<1>8. ThreadsAreAsked'
  <2>1. \A d \in Calls : d # c /\ have[d] # None => inst'[have[d]].dirt \subseteq inst[have[d]].dirt
    <3>1. \A d \in Calls : have[d] # None => d \in Held
      BY DEF IInv, InstancesAreMade, Held, HasOne, Adopting, Served
    <3> QED
      BY <1>2, <3>1
  <2> QED
    BY <1>0, <2>1, CallsAssumption, ThreadsOfOthers DEF IInv
<1>9. ServesOne'
  <2>1. pc'[c] \notin Served
    BY <1>0 DEF Served
  <2> QED
    BY <1>7, <2>1 DEF ServesOne
<1>10. DirtIsOwed'
  <2>1. /\ \A i \in Calls : i # c => /\ inst'[i].dirt \subseteq inst[i].dirt
                                     /\ inst'[i].known \subseteq inst[i].known /\ ~Alive(i)'
    BY DEF Wears, Alive
  <2>2. inst'[c].dirt = {} /\ inst'[c].known \subseteq {router[c]}
    BY DEF Fresh, Remembers
  <2>3. \A i \in Calls : \A d, e \in inst'[i].dirt : d = e
    BY <2>1, <2>2 DEF IInv, DirtIsOwed
  <2>4. \A i \in Calls : \A r, s \in inst'[i].known : r = s
    BY <2>1, <2>2 DEF IInv, DirtIsOwed
  <2>5. \A i \in Calls : ~(Alive(i)' /\ inst'[i].dirt # {})
    BY <2>1, <2>2
  <2> QED
    BY <1>7, <2>2, <2>3, <2>4, <2>5 DEF DirtIsOwed
<1>11. RunsAreTold'
  <2>1. \A d \in Calls : ~ran[d]
    <3>1. \A d \in Calls : ran[d] => d \in Held
      BY DEF IInv, RunsAreTold, Served, Held
    <3> QED
      BY <1>2, <1>5, <3>1
  <2>2. \A d \in Calls : told[d] # "none" => d # c
    BY <1>5
  <2> QED
    BY <1>0, <2>1, <2>2 DEF IInv, RunsAreTold, UnansweredRetires
<1> QED
  BY <1>1, <1>3, <1>4, <1>6, <1>8, <1>9, <1>10, <1>11 DEF IInv

\* acquire with nothing registered.
LEMMA AcquireNewStep ==
    ASSUME IInv, NEW c \in Calls, AcquireNew(c)
    PROVE  IInv'
<1>1. CASE AcquireRefused(c)
  BY <1>1, QuietStep DEF Quiet
<1>2. CASE /\ inst' = [inst EXCEPT ![c] = Fresh(c)] /\ reg' = c /\ gate' = c
           /\ Ask(c, "init", c) /\ Goto(c, "init")
  <2>1. /\ pc[c] \in {"acquire", "again"} /\ gate = None /\ reg = None
        /\ UNCHANGED <<router, admission, results, ledger>>
    BY DEF AcquireNew, Acquiring
  <2>2. /\ inst'[c] = Fresh(c) /\ \A i \in Calls : i # c => inst'[i] = inst[i]
        /\ inst' \in [Calls -> Instances]
    <3>1. inst \in [Calls -> Instances] /\ Fresh(c) \in Instances
      BY DEF IInv, TypeOK, Fresh, Remembers, Instances
    <3> QED
      BY <1>2, <3>1
  <2>3. \A i \in Calls : i # c => Wears(i) /\ ~inst'[i].up
    BY <2>1, <2>2, CallsAssumption DEF IInv, InstancesAreMade, Wears
  <2> QED
    BY <1>2, <2>1, <2>2, <2>3, MakeStep
<1>3. AcquireRefused(c) \/ (inst' = [inst EXCEPT ![c] = Fresh(c)] /\ reg' = c /\ gate' = c
                            /\ Ask(c, "init", c) /\ Goto(c, "init"))
  BY DEF AcquireNew, AcquireRefused, Acquiring
<1> QED
  BY <1>1, <1>2, <1>3


-----------------------------------------------------------------------------
(***************************************************************************)
(* Stopping and disposing: instances wear out.                             *)
(***************************************************************************)

\* Where a step that wears an instance takes a call.
WornMove(from, to) ==
    \/ from \in {"acquire", "again"} /\ to = "stopping_old"
    \/ from \in {"stopping_old", "unprepared", "disposing", "dispose", "redoing"} /\ to = "leave"
    \/ from = "dispose" /\ to = "disposing"
    \/ from = "redo" /\ to = "redoing"
    \/ from \in {"redo", "redoing"} /\ to = "again"
    \/ from = "stop_init" /\ to \in {"join_init", "unprepared"}
    \/ from = "stop_restore" /\ to \in {"join_restore", "redo", "leave"}
    \/ from = "stop_code" /\ to \in {"join_code", "cleanup"}
    \/ from = "stop_reset" /\ to \in {"join_reset", "dispose"}

\* A stop, a close or the end of a worker keeps the invariant, if the entry and the marks go only
\* with every worker down, and a call that is no longer served leaves a mark behind.
LEMMA WornStep ==
    ASSUME IInv, TypeOK', GateIsHeld', UNCHANGED <<router, admission, told, ran, x>>,
           \A i \in Calls : Wears(i),
           reg' = reg \/ (reg' = None /\ AllDown'),
           unclean \subseteq unclean' \/ AllDown',
           \A d \in Calls :
             /\ pc'[d] = pc[d] \/ WornMove(pc[d], pc'[d])
             /\ IF pc'[d] = "again" /\ pc[d] # "again"
                  THEN have'[d] = None /\ reg' = None
                  ELSE have'[d] = have[d]
             /\ pc[d] \in {"dispose", "disposing"} /\ pc'[d] = "leave" =>
                  router[d] \in unclean' \/ AllDown'
             /\ pc[d] = "stop_restore" /\ told[d] = "cancelled" => pc'[d] # "redo"
    PROVE  IInv'
<1>1. \A d \in Calls : GoesOn(d) /\ Keeps(d) /\ Tells(d)
  <2> SUFFICES ASSUME NEW d \in Calls PROVE GoesOn(d) /\ Keeps(d) /\ Tells(d)
    OBVIOUS
  <2>1. GoesOn(d)
    BY DEF GoesOn, WornMove, Preparing, Adopting, Served
  <2>2. Keeps(d)
    <3>1. CASE pc'[d] = "again" /\ pc[d] # "again"
      <4>1. pc[d] \in {"redo", "redoing"}
        BY <3>1 DEF WornMove
      <4>2. ~ran[d]
        BY <4>1 DEF IInv, RunsAreTold, Served
      <4> QED
        BY <3>1, <4>2 DEF Keeps
    <3>2. CASE ~(pc'[d] = "again" /\ pc[d] # "again")
      <4>1. pc[d] \in HasOne \cup {"leave"} => pc'[d] \in HasOne \cup {"leave"}
        BY <3>2 DEF WornMove, HasOne, Adopting, Served
      <4> QED
        BY <3>2, <4>1 DEF Keeps
    <3> QED
      BY <3>1, <3>2
  <2>3. Tells(d)
    BY DEF Tells, WornMove
  <2> QED
    BY <2>1, <2>2, <2>3
<1>2. LeaseIsCounted'
  <2>1. \A d \in Calls : pc'[d] = pc[d] \/ (InBody(d) /\ pc'[d] \notin {"start", "waiting", "done"})
    BY DEF InBody, WornMove
  <2> QED
    BY <2>1, BodyKeepsLease DEF IInv
<1>3. InstancesAreMade'
  BY <1>1, InstancesKept DEF IInv
<1>4. ThreadsAreAsked'
  <2>1. \A d \in Calls : /\ pc'[d] \in Ops \/ pc[d] \in Ops => pc'[d] = pc[d]
                         /\ pc'[d] \in Exchanging => pc[d] \in Exchanging
    BY DEF WornMove, Ops, Exchanging
  <2> QED
    BY <1>1, <2>1, ThreadsLeft DEF IInv
<1>5. ServesOne' /\ DirtIsOwed'
  <2>1. \A d \in Calls : pc[d] \in Served => pc'[d] \in Served \/ router[d] \in unclean' \/ AllDown'
    <3> SUFFICES ASSUME NEW d \in Calls, pc[d] \in Served
                 PROVE  pc'[d] \in Served \/ router[d] \in unclean' \/ AllDown'
      OBVIOUS
    <3>1. pc'[d] \in Served \/ (pc[d] \in {"dispose", "disposing"} /\ pc'[d] = "leave")
      BY DEF WornMove, Served
    <3> QED
      BY <3>1
  <2> QED
    BY <1>1, <2>1, DirtKept DEF IInv
<1>6. RunsAreTold'
  <2>1. \A d \in Calls : Started(d)' = Started(d)
    BY DEF Started
  <2>2. \A d \in Calls : /\ pc'[d] \in {"run", "code"} => pc'[d] = pc[d]
                         /\ pc[d] \in Served => pc'[d] \in Served \cup {"leave"}
                         /\ pc[d] \in {"join_restore", "leave"} => pc'[d] = pc[d]
    BY DEF WornMove, Served
  <2>3. ASSUME NEW d \in Calls, pc[d] = "stop_restore", told[d] # "none"
        PROVE  pc'[d] \in {"stop_restore", "join_restore", "leave"}
    <3>1. told[d] = "cancelled"
      BY <2>3 DEF IInv, RunsAreTold
    <3> QED
      BY <2>3, <3>1 DEF WornMove
  <2>4. \A d \in Calls :
             /\ pc'[d] = "run" => pc[d] = "run"
             /\ pc'[d] = "code" => pc[d] \in {"run", "code"}
             /\ pc[d] = "code" /\ pc'[d] = "code" /\ Started(d) => Started(d)'
             /\ pc[d] \in Served => pc'[d] \in Served \cup {"leave"}
             /\ pc[d] \in {"stop_restore", "join_restore", "leave"} /\ told[d] # "none" =>
                  pc'[d] \in {"stop_restore", "join_restore", "leave", "done"}
    <3> SUFFICES ASSUME NEW d \in Calls
                 PROVE  pc[d] \in {"stop_restore", "join_restore", "leave"} /\ told[d] # "none" =>
                          pc'[d] \in {"stop_restore", "join_restore", "leave", "done"}
      BY <2>1, <2>2
    <3> QED
      BY <2>2, <2>3
  <2> QED
    BY <1>1, <2>4, RunsKept DEF IInv
<1> QED
  BY <1>1, <1>2, <1>3, <1>4, <1>5, <1>6 DEF IInv

\* What a stop, a close or the end of a process makes of an instance.
LEMMA OneWears ==
    ASSUME IInv, NEW i \in Calls, NEW after \in {Closed(i), Retired(i), Dead(i)},
           inst' = [inst EXCEPT ![i] = after]
    PROVE  /\ inst' \in [Calls -> Instances]
           /\ \A j \in Calls : Wears(j)
           /\ inst'[i] = after /\ \A j \in Calls : j # i => inst'[j] = inst[j]
           /\ ~Closed(i).up /\ ~Dead(i).up
<1>1. inst \in [Calls -> Instances]
  BY DEF IInv, TypeOK, Instances
<1>2. /\ after \in Instances /\ ~Closed(i).up /\ ~Dead(i).up
      /\ after.up => inst[i].up
      /\ inst[i].retired => after.retired
      /\ after.dirt \subseteq inst[i].dirt /\ after.known \subseteq inst[i].known
  <2> DEFINE old == inst[i]
  <2>1. old \in Instances
    BY <1>1
  <2>2. /\ Dead(i) = [old EXCEPT !.up = FALSE, !.dirt = {}] /\ Retired(i) = [old EXCEPT !.retired = TRUE]
        /\ Closed(i) = [Dead(i) EXCEPT !.retired = TRUE]
    BY DEF Closed, Retired, Dead
  <2> HIDE DEF old
  <2>3. Dead(i) \in Instances /\ ~Dead(i).up /\ Dead(i).dirt = {}
        /\ Dead(i).retired = old.retired /\ Dead(i).known = old.known
    BY <2>1, <2>2 DEF Instances
  <2>4. Closed(i) \in Instances /\ ~Closed(i).up /\ Closed(i).dirt = {}
        /\ Closed(i).retired /\ Closed(i).known = old.known
    BY <2>2, <2>3 DEF Instances
  <2>5. Retired(i) \in Instances /\ Retired(i).up = old.up /\ Retired(i).dirt = old.dirt
        /\ Retired(i).retired /\ Retired(i).known = old.known
    BY <2>1, <2>2 DEF Instances
  <2> QED
    BY <2>3, <2>4, <2>5 DEF old
<1>3. inst' \in [Calls -> Instances] /\ inst'[i] = after /\ \A j \in Calls : j # i => inst'[j] = inst[j]
  BY <1>1, <1>2
<1>4. \A j \in Calls : Wears(j)
  BY <1>2, <1>3 DEF Wears
<1> QED
  BY <1>2, <1>3, <1>4

\* With the registered worker down, all are.
LEMMA EntryDown ==
    ASSUME IInv, \A j \in Calls : Wears(j), reg \in Calls => ~inst'[reg].up
    PROVE  AllDown'
<1> SUFFICES ASSUME NEW i \in Calls, inst'[i].up PROVE FALSE
  BY DEF AllDown
<1>1. reg = i
  BY DEF Wears, IInv, InstancesAreMade
<1> QED
  BY <1>1

\* A worker process that ends by itself leaves its entry.
LEMMA WorkerDiesStep ==
    ASSUME IInv, NEW i \in Calls, WorkerDies(i)
    PROVE  IInv'
<1>1. /\ inst' = [inst EXCEPT ![i] = Dead(i)]
      /\ UNCHANGED <<router, admission, pc, gate, reg, results, x, ledger>>
  BY DEF WorkerDies
<1>2. inst' \in [Calls -> Instances] /\ \A j \in Calls : Wears(j)
  BY <1>1, OneWears
<1>3. TypeOK'
  BY <1>1, <1>2 DEF IInv, TypeOK, Instances, admission, results, ledger
<1>4. GateIsHeld'
  BY <1>1, GateKept DEF IInv, ledger
<1> QED
  BY <1>1, <1>2, <1>3, <1>4, WornStep DEF results, ledger

\* acquire over an instance that is not alive retires it and keeps the gate.
LEMMA AcquireOverDeadStep ==
    ASSUME IInv, NEW c \in Calls, AcquireOverDead(c)
    PROVE  IInv'
<1>1. /\ pc[c] \in {"acquire", "again"} /\ gate = None /\ reg \in Calls
      /\ gate' = c /\ inst' = [inst EXCEPT ![reg] = Retired(reg)]
      /\ pc' = [pc EXCEPT ![c] = "stopping_old"]
      /\ UNCHANGED <<router, admission, reg, results, x, ledger>>
  BY DEF AcquireOverDead, Acquiring, Goto, Retired, IInv, TypeOK
<1>2. inst' \in [Calls -> Instances] /\ \A j \in Calls : Wears(j)
  BY <1>1, OneWears
<1>3. pc'[c] = "stopping_old" /\ \A d \in Calls : d # c => pc'[d] = pc[d]
  BY <1>1 DEF IInv, TypeOK
<1>4. TypeOK'
  BY <1>1, <1>2 DEF IInv, TypeOK, Places, Instances, admission, results, ledger
<1>5. GateIsHeld'
  <2>1. out # "stopping" /\ \A d \in Calls : pc[d] \notin Closing \cup Preparing
    BY <1>1, CallsAssumption DEF IInv, GateIsHeld
  <2> QED
    BY <1>1, <1>3, <2>1, CallsAssumption DEF GateIsHeld, Preparing, ledger
<1>6. \A d \in Calls : pc'[d] = pc[d] \/ WornMove(pc[d], pc'[d])
  BY <1>1, <1>3 DEF WornMove
<1> QED
  BY <1>1, <1>2, <1>3, <1>4, <1>5, <1>6, WornStep DEF results, ledger

\* Whoever gives up the gate is the one who held it.
LEMMA GateGivenUp ==
    ASSUME IInv, NEW c \in Calls, gate = c, gate' = None, out' = out,
           \A d \in Calls : d # c => pc'[d] = pc[d], pc'[c] \notin Closing \cup Preparing
    PROVE  GateIsHeld'
<1>1. /\ out # "stopping"
      /\ \A d \in Calls : d # c => pc[d] \notin Closing \cup Preparing
  BY CallsAssumption DEF IInv, GateIsHeld
<1> QED
  BY <1>1 DEF GateIsHeld

\* A call stops its instance, gives up the gate and leaves; the entry goes only over a close that
\* is confirmed.
LEMMA StopAndLeave ==
    ASSUME IInv, NEW c \in Calls, pc[c] \in {"stopping_old", "unprepared"}, gate = c,
           NEW i \in Calls, reg = i, NEW after \in {Closed(i), Retired(i)},
           inst' = [inst EXCEPT ![i] = after], reg' = reg \/ (reg' = None /\ after = Closed(i)),
           gate' = None, Goto(c, "leave"), UNCHANGED <<router, admission, results, x, ledger>>
    PROVE  IInv'
<1>1. /\ inst' \in [Calls -> Instances] /\ \A j \in Calls : Wears(j)
      /\ after = Closed(i) => ~inst'[i].up
  BY OneWears
<1>2. reg' = reg \/ (reg' = None /\ AllDown')
  BY <1>1, EntryDown
<1>3. pc'[c] = "leave" /\ \A d \in Calls : d # c => pc'[d] = pc[d]
  BY DEF Goto, IInv, TypeOK
<1>4. TypeOK'
  BY <1>1 DEF IInv, TypeOK, Goto, Places, Instances, admission, results, ledger
<1>5. GateIsHeld'
  BY <1>3, GateGivenUp DEF Closing, Preparing, ledger
<1>6. \A d \in Calls : pc'[d] = pc[d] \/ WornMove(pc[d], pc'[d])
  BY <1>3 DEF WornMove
<1> QED
  BY <1>1, <1>2, <1>3, <1>4, <1>5, <1>6, WornStep DEF results, ledger

\* The old worker's close (acquire of _backend.py) makes way for a new instance only when it is
\* confirmed.
LEMMA CloseOldStep ==
    ASSUME IInv, NEW c \in Calls, CloseOld(c)
    PROVE  IInv'
<1>1. pc[c] = "stopping_old" /\ UNCHANGED <<router, admission, results, ledger>>
  BY DEF CloseOld
<1> PICK i \in Calls : i = reg
  BY <1>1 DEF IInv, TypeOK, GateIsHeld, Closing
<1>2. gate = c
  BY <1>1 DEF IInv, GateIsHeld, Closing
<1>3. CASE /\ inst' = [inst EXCEPT ![i] = Closed(i), ![c] = Fresh(c)] /\ gate' = gate
           /\ reg' = c /\ Ask(c, "init", c) /\ Goto(c, "init")
  <2>0. inst \in [Calls -> Instances] /\ Fresh(c) \in Instances
    BY DEF IInv, TypeOK, Instances, Fresh, Remembers
  <2>1. /\ [inst EXCEPT ![i] = Closed(i)] \in [Calls -> Instances]
        /\ ~Closed(i).up /\ Closed(i).retired /\ Closed(i).dirt = {} /\ Closed(i).known = inst[i].known
    BY <2>0 DEF Closed, Dead, Instances
  <2>2. /\ inst' \in [Calls -> Instances] /\ inst'[c] = Fresh(c)
        /\ \A j \in Calls : j # c => inst'[j] = IF j = i THEN Closed(i) ELSE inst[j]
    BY <1>3, <2>0, <2>1
  <2>3. \A j \in Calls : j # i => ~inst[j].up
    BY DEF IInv, InstancesAreMade
  <2>4. \A j \in Calls : j # c => Wears(j) /\ ~inst'[j].up
    BY <2>1, <2>2, <2>3 DEF Wears
  <2> QED
    BY <1>1, <1>2, <1>3, <2>2, <2>4, MakeStep
<1>4. CASE \E after \in {Closed(i), Retired(i)} :
             /\ inst' = [inst EXCEPT ![i] = after]
             /\ reg' = reg \/ (reg' = None /\ after = Closed(i))
             /\ gate' = None /\ Goto(c, "leave") /\ UNCHANGED x
  BY <1>1, <1>2, <1>4, StopAndLeave
<1>5. \/ /\ inst' = [inst EXCEPT ![i] = Closed(i), ![c] = Fresh(c)] /\ gate' = gate
         /\ reg' = c /\ Ask(c, "init", c) /\ Goto(c, "init")
      \/ \E after \in {Closed(i), Retired(i)} :
             /\ inst' = [inst EXCEPT ![i] = after]
             /\ reg' = reg \/ (reg' = None /\ after = Closed(i))
             /\ gate' = None /\ Goto(c, "leave") /\ UNCHANGED x
  BY DEF CloseOld
<1> QED
  BY <1>3, <1>4, <1>5

\* A preparation that failed (acquire of _backend.py) forgets its instance only once it is down.
LEMMA CloseUnpreparedStep ==
    ASSUME IInv, NEW c \in Calls, CloseUnprepared(c)
    PROVE  IInv'
<1>1. /\ pc[c] = "unprepared" /\ gate' = None /\ Goto(c, "leave")
      /\ UNCHANGED <<router, admission, results, x, ledger>>
  BY DEF CloseUnprepared
<1>2. gate = c /\ reg = c
  BY <1>1 DEF IInv, GateIsHeld, Preparing
<1>3. PICK after \in {Closed(c), Retired(c)} :
         /\ inst' = [inst EXCEPT ![c] = after]
         /\ reg' = reg \/ (reg' = None /\ after = Closed(c))
  BY DEF CloseUnprepared
<1> QED
  BY <1>1, <1>2, <1>3, StopAndLeave

\* The stop of a failed exchange (_exchange of _backend.py) returns, confirmed or not.
LEMMA StopReturnsStep ==
    ASSUME IInv, NEW c \in Calls, StopReturns(c)
    PROVE  IInv'
<1>1. PICK op \in Ops, after \in {Closed(x[c].of), Retired(x[c].of)} :
         /\ pc[c] = Stop[op]
         /\ inst' = [inst EXCEPT ![x[c].of] = after]
         /\ IF after.up THEN Fails(c, op) ELSE Goto(c, Join[op]) /\ UNCHANGED ledger
         /\ UNCHANGED <<router, admission, gate, reg, results, x>>
  BY DEF StopReturns
<1>2. PICK i \in Calls : i = x[c].of
  <2>1. pc[c] \in Exchanging
    BY <1>1 DEF Stop, Ops, Exchanging
  <2> QED
    BY <2>1 DEF IInv, TypeOK, ThreadsAreAsked
<1>3. inst' \in [Calls -> Instances] /\ \A j \in Calls : Wears(j)
  BY <1>1, <1>2, OneWears
<1>4. PICK to \in Places :
         /\ pc' = [pc EXCEPT ![c] = to] /\ WornMove(pc[c], to)
         /\ pc[c] = "stop_restore" /\ told[c] = "cancelled" => to # "redo"
         /\ to \in Preparing => pc[c] \in Preparing
         /\ to \notin Closing /\ to # "again" /\ pc[c] \notin {"dispose", "disposing"}
         /\ unclean' \in {unclean, unclean \cup {router[c]}} /\ UNCHANGED <<out, covered>>
  <2>1. CASE after.up
    <3>1. PICK to \in Places :
             /\ pc' = [pc EXCEPT ![c] = to]
             /\ \/ op = "init" /\ to = "unprepared"
                \/ op = "restore" /\ to \in {"redo", "leave"}
                \/ op = "code" /\ to = "cleanup"
                \/ op = "reset" /\ to = "dispose"
             /\ unclean' \in {unclean, unclean \cup {router[c]}} /\ UNCHANGED <<out, covered>>
      BY <1>1, <2>1, FailsMove
    <3>2. WornMove(pc[c], to) /\ to \notin Closing /\ (to \in Preparing => pc[c] \in Preparing)
          /\ to # "again" /\ pc[c] \notin {"dispose", "disposing"}
      BY <1>1, <3>1 DEF WornMove, Stop, Closing, Preparing
    <3>3. ASSUME pc[c] = "stop_restore", told[c] = "cancelled" PROVE to # "redo"
      <4>1. op = "restore"
        BY <1>1, <3>3 DEF Stop, Ops
      <4>2. pc' = [pc EXCEPT ![c] = "leave"]
        BY <1>1, <2>1, <3>3, <4>1 DEF Fails, Goto
      <4>3. pc'[c] = to /\ pc'[c] = "leave"
        BY <3>1, <4>2 DEF IInv, TypeOK
      <4> QED
        BY <4>3
    <3> QED
      BY <3>1, <3>2, <3>3
  <2>2. CASE ~after.up
    <3>1. pc' = [pc EXCEPT ![c] = Join[op]] /\ UNCHANGED ledger
      BY <1>1, <2>2 DEF Goto
    <3>2. /\ Join[op] \in Places /\ WornMove(pc[c], Join[op]) /\ Join[op] \notin Closing
          /\ Join[op] \notin {"again", "redo"} /\ (Join[op] \in Preparing => pc[c] \in Preparing)
          /\ pc[c] \notin {"dispose", "disposing"}
      BY <1>1 DEF Join, Stop, Ops, Places, Exchanging, WornMove, Closing, Preparing
    <3> QED
      BY <3>1, <3>2 DEF ledger
  <2> QED
    BY <2>1, <2>2
<1>5. pc'[c] = to /\ \A d \in Calls : d # c => pc'[d] = pc[d]
  BY <1>4 DEF IInv, TypeOK
<1>6. TypeOK'
  BY <1>1, <1>3, <1>4 DEF IInv, TypeOK, Instances, admission, results
<1>7. GateIsHeld'
  <2>1. \A d \in Calls : /\ pc'[d] \in Closing => pc'[d] = pc[d]
                         /\ pc'[d] \in Preparing => pc[d] \in Preparing
    BY <1>4, <1>5
  <2> QED
    BY <1>1, <1>4, <2>1, GateKept DEF IInv
<1>8. \A d \in Calls :
         /\ pc'[d] = pc[d] \/ WornMove(pc[d], pc'[d])
         /\ ~(pc'[d] = "again" /\ pc[d] # "again")
         /\ ~(pc[d] \in {"dispose", "disposing"} /\ pc'[d] = "leave")
         /\ pc[d] = "stop_restore" /\ told[d] = "cancelled" => pc'[d] # "redo"
  BY <1>4, <1>5
<1>9. unclean \subseteq unclean'
  BY <1>4
<1> QED
  BY <1>1, <1>3, <1>6, <1>7, <1>8, <1>9, WornStep DEF results

\* Who takes a free gate over an entry closes it.
LEMMA GateTaken ==
    ASSUME IInv, gate = None
    PROVE  out # "stopping" /\ \A d \in Calls : pc[d] \notin Closing \cup Preparing
BY CallsAssumption DEF IInv, GateIsHeld

\* A disposal that has landed leaves no worker and no mark of its router.
LEMMA LandedStep ==
    ASSUME IInv, NEW c \in Calls, pc[c] \in {"dispose", "redo", "disposing", "redoing"}, Landed(c),
           inst' \in [Calls -> Instances], \A j \in Calls : Wears(j), AllDown', reg' = None,
           gate = None \/ gate = c, gate' = None, UNCHANGED <<router, admission, told, ran, x>>
    PROVE  IInv'
<1>1. PICK to \in {"again", "leave"} :
         /\ pc' = [pc EXCEPT ![c] = to]
         /\ to = "again" => pc[c] \in {"redo", "redoing"} /\ have' = [have EXCEPT ![c] = None]
         /\ to = "leave" => pc[c] \in {"dispose", "disposing"} /\ have' = have
         /\ unclean' = unclean \ {router[c]} /\ UNCHANGED <<out, covered>>
  BY DEF Landed, Goto, Unmark
<1>2. pc'[c] = to /\ \A d \in Calls : d # c => pc'[d] = pc[d]
  BY <1>1 DEF IInv, TypeOK, Places
<1>3. have' \in [Calls -> Calls \cup {None}]
  BY <1>1 DEF IInv, TypeOK
<1>4. TypeOK'
  BY <1>1, <1>3 DEF IInv, TypeOK, Places, Instances, admission
<1>5. GateIsHeld'
  <2>1. pc'[c] \notin Closing \cup Preparing
    BY <1>2 DEF Closing, Preparing
  <2>2. CASE gate = c
    BY <1>1, <1>2, <2>1, <2>2, GateGivenUp
  <2>3. CASE gate = None
    BY <1>1, <1>2, <2>1, <2>3, GateTaken DEF GateIsHeld
  <2> QED
    BY <2>2, <2>3
<1>6. ASSUME NEW d \in Calls
      PROVE  /\ pc'[d] = pc[d] \/ WornMove(pc[d], pc'[d])
             /\ IF pc'[d] = "again" /\ pc[d] # "again"
                  THEN have'[d] = None /\ reg' = None
                  ELSE have'[d] = have[d]
             /\ pc[d] = "stop_restore" => pc'[d] # "redo"
  <2>1. CASE d = c
    BY <1>1, <1>2, <2>1 DEF WornMove, IInv, TypeOK
  <2>2. CASE d # c
    BY <1>1, <1>2, <2>2 DEF IInv, TypeOK
  <2> QED
    BY <2>1, <2>2
<1> QED
  BY <1>4, <1>5, <1>6, WornStep

\* _dispose_the_kind (_router.py) asks the backend for a disposal, which retires what is registered
\* and keeps the gate; with nothing registered it has landed.
LEMMA DisposeStep ==
    ASSUME IInv, NEW c \in Calls, Dispose(c)
    PROVE  IInv'
<1>1. pc[c] \in {"dispose", "redo"} /\ gate = None /\ UNCHANGED <<router, admission, told, ran, x>>
  BY DEF Dispose, Retire
<1>2. CASE reg = None /\ Landed(c) /\ UNCHANGED registry
  <2>1. inst' \in [Calls -> Instances] /\ \A j \in Calls : Wears(j)
    BY <1>2 DEF IInv, TypeOK, Instances, Wears, registry
  <2>2. AllDown'
    BY <1>2, <2>1, CallsAssumption, EntryDown
  <2> QED
    BY <1>1, <1>2, <2>1, <2>2, LandedStep DEF registry
<1>3. CASE Retire(c) /\ UNCHANGED <<have, ledger>>
           /\ Goto(c, IF pc[c] = "dispose" THEN "disposing" ELSE "redoing")
  <2> PICK i \in Calls : i = reg
    BY <1>3 DEF Retire, IInv, TypeOK
  <2>1. inst' = [inst EXCEPT ![i] = Retired(i)] /\ gate' = c /\ reg' = reg
    BY <1>3 DEF Retire, Retired
  <2>2. inst' \in [Calls -> Instances] /\ \A j \in Calls : Wears(j)
    BY <2>1, OneWears
  <2> PICK to \in {"disposing", "redoing"} :
             /\ to = IF pc[c] = "dispose" THEN "disposing" ELSE "redoing"
             /\ pc' = [pc EXCEPT ![c] = to]
    BY <1>3 DEF Goto
  <2>3. pc'[c] = to /\ \A d \in Calls : d # c => pc'[d] = pc[d]
    BY DEF IInv, TypeOK
  <2>4. TypeOK'
    BY <1>1, <1>3, <2>1, <2>2 DEF IInv, TypeOK, Places, Instances, admission, ledger
  <2>5. GateIsHeld'
    <3>1. pc'[c] \notin Preparing
      BY <2>3 DEF Preparing
    <3> QED
      BY <1>1, <1>3, <2>1, <2>3, <3>1, GateTaken, CallsAssumption DEF GateIsHeld, ledger
  <2>6. \A d \in Calls : pc'[d] = pc[d] \/ WornMove(pc[d], pc'[d])
    BY <1>1, <2>3 DEF WornMove
  <2> QED
    BY <1>1, <1>3, <2>1, <2>2, <2>3, <2>4, <2>5, <2>6, WornStep DEF ledger
<1> QED
  BY <1>2, <1>3 DEF Dispose

\* What a close of the registered instance does, confirmed or not.
LEMMA RegisteredCloses ==
    ASSUME IInv, NEW i \in Calls, reg = i, NEW ok \in BOOLEAN, CloseRegistered(ok)
    PROVE  /\ gate' = None
           /\ inst' \in [Calls -> Instances] /\ \A j \in Calls : Wears(j)
           /\ IF ok THEN reg' = None /\ AllDown' ELSE reg' = reg
<1>1. PICK after \in {Closed(i), Retired(i)} :
         /\ inst' = [inst EXCEPT ![i] = after] /\ gate' = None
         /\ IF ok THEN reg' = None /\ after = Closed(i) ELSE reg' = reg
  BY DEF CloseRegistered
<1>2. /\ inst' \in [Calls -> Instances] /\ \A j \in Calls : Wears(j)
      /\ after = Closed(i) => ~inst'[i].up
  BY <1>1, OneWears
<1> QED
  BY <1>1, <1>2, EntryDown

\* The close that a call's disposal makes returns: the mark goes with a confirmed one only.
LEMMA DisposeEndsStep ==
    ASSUME IInv, NEW c \in Calls, DisposeEnds(c)
    PROVE  IInv'
<1>1. pc[c] \in {"disposing", "redoing"} /\ UNCHANGED <<router, admission, told, ran, x>>
  BY DEF DisposeEnds
<1>2. gate = c /\ reg \in Calls
  BY <1>1 DEF IInv, TypeOK, GateIsHeld, Closing
<1>3. CASE CloseRegistered(TRUE) /\ Landed(c)
  <2>1. /\ gate' = None /\ inst' \in [Calls -> Instances] /\ \A j \in Calls : Wears(j)
        /\ reg' = None /\ AllDown'
    BY <1>2, <1>3, RegisteredCloses
  <2> QED
    BY <1>1, <1>2, <1>3, <2>1, LandedStep
<1>4. CASE CloseRegistered(FALSE) /\ Goto(c, "leave") /\ Mark(c) /\ UNCHANGED have
  <2>1. /\ gate' = None /\ inst' \in [Calls -> Instances] /\ \A j \in Calls : Wears(j)
        /\ reg' = reg
    BY <1>2, <1>4, RegisteredCloses
  <2>2. pc'[c] = "leave" /\ \A d \in Calls : d # c => pc'[d] = pc[d]
    BY <1>4 DEF Goto, IInv, TypeOK
  <2>3. TypeOK'
    BY <1>1, <1>4, <2>1 DEF IInv, TypeOK, Goto, Mark, Places, Instances, admission
  <2>4. GateIsHeld'
    BY <1>2, <1>4, <2>1, <2>2, GateGivenUp DEF Closing, Preparing, Mark
  <2>5. \A d \in Calls : pc'[d] = pc[d] \/ WornMove(pc[d], pc'[d])
    BY <1>1, <2>2 DEF WornMove
  <2>6. unclean \subseteq unclean' /\ router[c] \in unclean'
    BY <1>4 DEF Mark
  <2> QED
    BY <1>1, <1>4, <2>1, <2>2, <2>3, <2>4, <2>5, <2>6, WornStep
<1> QED
  BY <1>3, <1>4 DEF DisposeEnds

\* A disposal from outside any call (dispose_scope of _router.py): one that begins, one that finds
\* nothing of its own, and one whose close returns.
LEMMA OutsideStep ==
    ASSUME IInv, OutsideDispose \/ OutsideNothing \/ OutsideEnds
    PROVE  IInv'
<1>1. /\ UNCHANGED <<router, admission, pc, results, x>>
  BY DEF OutsideDispose, OutsideNothing, OutsideEnds
<1>2. CASE OutsideDispose
  <2> PICK i \in Calls : i = reg
    BY <1>2 DEF OutsideDispose, Retire, IInv, TypeOK
  <2>1. /\ inst' = [inst EXCEPT ![i] = Retired(i)] /\ gate = None /\ gate' = Outside /\ reg' = reg
        /\ out' = "stopping" /\ unclean' = unclean /\ covered' \subseteq unclean
    BY <1>2 DEF OutsideDispose, Retire, Retired, Covers
  <2>2. inst' \in [Calls -> Instances] /\ \A j \in Calls : Wears(j)
    BY <2>1, OneWears
  <2>3. TypeOK'
    BY <1>1, <2>1, <2>2 DEF IInv, TypeOK, Instances, admission, results
  <2>4. GateIsHeld'
    BY <1>1, <2>1, GateTaken, CallsAssumption DEF GateIsHeld
  <2> QED
    BY <1>1, <2>1, <2>2, <2>3, <2>4, WornStep DEF results
<1>3. CASE OutsideNothing
  <2>1. PICK marks \in SUBSET unclean :
          /\ unclean' = unclean \ marks
          /\ reg # None => marks \cap inst[reg].known = {}
    BY <1>3 DEF OutsideNothing
  <2>2. UNCHANGED <<registry, out, covered>>
    BY <1>3 DEF OutsideNothing
  <2>3. TypeOK'
    BY <1>1, <2>1, <2>2 DEF IInv, TypeOK, admission, results, registry
  <2>4. LeaseIsCounted' /\ GateIsHeld' /\ InstancesAreMade' /\ ThreadsAreAsked' /\ ServesOne'
    <3>1. LeaseIsCounted'
      BY <1>1 DEF IInv, LeaseIsCounted, Users, Held, admission
    <3>2. GateIsHeld'
      BY <1>1, <2>2 DEF IInv, GateIsHeld, registry
    <3>3. InstancesAreMade'
      BY <1>1, <2>2 DEF IInv, InstancesAreMade, registry, results
    <3>4. ThreadsAreAsked'
      BY <1>1, <2>2 DEF IInv, ThreadsAreAsked, registry, results
    <3>5. ServesOne'
      BY <1>1, <2>2 DEF IInv, ServesOne, registry, results
    <3> QED
      BY <3>1, <3>2, <3>3, <3>4, <3>5
  <2>5. RunsAreTold'
    <3>1. \A c \in Calls : Started(c)' = Started(c)
      BY <1>1 DEF Started
    <3>2. UnansweredRetires'
      BY <1>1, <2>2 DEF IInv, RunsAreTold, UnansweredRetires, registry, results
    <3> QED
      BY <1>1, <3>1, <3>2 DEF IInv, RunsAreTold, results
  <2>6. ASSUME NEW i \in Calls, Alive(i)', inst'[i].dirt # {}, NEW r \in inst'[i].known
        PROVE  r \in unclean' \/ \E c \in Calls : pc'[c] \in Served /\ have'[c] = i
    <3>1. Alive(i) /\ inst[i].dirt # {} /\ r \in inst[i].known
      BY <2>2, <2>6 DEF Alive, registry
    <3>2. reg = i /\ i # None
      BY <3>1, CallsAssumption DEF Alive, IInv, InstancesAreMade
    <3>3. r \notin marks
      BY <2>1, <3>1, <3>2
    <3>4. r \in unclean \/ \E c \in Calls : pc[c] \in Served /\ have[c] = i
      BY <3>1 DEF IInv, DirtIsOwed
    <3> QED
      BY <1>1, <2>1, <3>3, <3>4 DEF results
  <2>7. DirtIsOwed'
    BY <1>1, <2>2, <2>6 DEF IInv, DirtIsOwed, registry
  <2> QED
    BY <2>3, <2>4, <2>5, <2>7 DEF IInv
<1>4. CASE OutsideEnds
  <2>1. PICK ok \in BOOLEAN : CloseRegistered(ok) /\ unclean' = IF ok THEN unclean \ covered ELSE unclean
    BY <1>4 DEF OutsideEnds
  <2>2. out = "stopping" /\ out' = "idle" /\ covered' = {} /\ gate = Outside /\ reg \in Calls
    BY <1>4 DEF OutsideEnds, IInv, GateIsHeld, TypeOK
  <2>3. /\ gate' = None /\ inst' \in [Calls -> Instances] /\ \A j \in Calls : Wears(j)
        /\ IF ok THEN reg' = None /\ AllDown' ELSE reg' = reg
    BY <2>1, <2>2, RegisteredCloses
  <2>4. unclean' \subseteq unclean /\ (ok \/ unclean' = unclean)
    BY <2>1
  <2>5. reg' \in Calls \cup {None}
    BY <2>2, <2>3
  <2>6. TypeOK'
    BY <1>1, <2>2, <2>3, <2>4, <2>5 DEF IInv, TypeOK, Instances, admission, results
  <2>7. GateIsHeld'
    <3>1. \A d \in Calls : pc[d] \notin Closing \cup Preparing
      BY <2>2, CallsAssumption DEF IInv, GateIsHeld
    <3> QED
      BY <1>1, <2>2, <3>1 DEF GateIsHeld
  <2>8. reg' = reg \/ (reg' = None /\ AllDown')
    BY <2>3
  <2>9. unclean \subseteq unclean' \/ AllDown'
    BY <2>3, <2>4
  <2> QED
    BY <1>1, <2>3, <2>6, <2>7, <2>8, <2>9, WornStep DEF results
<1> QED
  BY <1>2, <1>3, <1>4

-----------------------------------------------------------------------------
(***************************************************************************)
(* Threads, and the callers that withdraw from them.                       *)
(***************************************************************************)

\* A step of one thread: its caller stays where it is, and no instance is revived or soiled.
LEMMA ThreadStep ==
    ASSUME IInv, NEW c \in Calls, inst' \in [Calls -> Instances], \A i \in Calls : Wears(i),
           NEW state \in {"running", "answered", "broken"}, Thread(c, state),
           x[c].thread \in {"pending", "running"},
           state = "answered" /\ pc[c] \in {"restore", "reset"} => inst'[x[c].of].dirt = {},
           UNCHANGED <<router, admission, pc, gate, reg, results, ledger>>
    PROVE  IInv'
<1>0. x' = IF pc[c] \in Exchanging THEN [x EXCEPT ![c].thread = state] ELSE [x EXCEPT ![c] = NoExchange]
  BY DEF Thread
<1>1. /\ \A d \in Calls : d # c => x'[d] = x[d]
      /\ pc[c] \in Exchanging => x'[c].op = x[c].op /\ x'[c].of = x[c].of /\ x'[c].thread = state
                                 /\ x'[c].withdrawn = x[c].withdrawn
      /\ pc[c] \notin Exchanging => x'[c].thread = "none"
  BY <1>0 DEF IInv, TypeOK, NoExchange
<1>2. TypeOK'
  <2>1. x' \in [Calls -> Threads]
    <3>1. NoExchange \in Threads /\ x \in [Calls -> Threads]
      BY DEF IInv, TypeOK, Threads, NoExchange, Ops
    <3>2. [x[c] EXCEPT !.thread = state] \in Threads
      <4>1. x[c] \in Threads
        BY <3>1
      <4> QED
        BY <4>1 DEF Threads
    <3> QED
      BY <1>0, <3>1, <3>2
  <2> QED
    BY <2>1 DEF IInv, TypeOK, Threads, Instances, admission, results, ledger
<1>3. \A d \in Calls : GoesOn(d) /\ Keeps(d) /\ Tells(d)
  BY DEF GoesOn, Keeps, Tells, results
<1>4. LeaseIsCounted'
  BY BodyKeepsLease DEF IInv
<1>5. GateIsHeld'
  BY GateKept DEF IInv, ledger
<1>6. InstancesAreMade'
  BY <1>3, InstancesKept DEF IInv
<1>7. ThreadsAreAsked'
  <2>1. \A d \in Calls : /\ pc[d] \in Ops => ~x[d].withdrawn
                         /\ pc[d] \in Ops => d # c \/ pc[d] \in Exchanging
                         /\ pc[d] \in Exchanging => x[d].thread # "none"
                         /\ x[d].thread = "pending" => x[d].withdrawn \/ pc[d] = x[d].op
                         /\ x[d].withdrawn \in BOOLEAN /\ x[d].op \in Ops
    BY DEF IInv, TypeOK, ThreadsAreAsked, Ops, Exchanging
  <2>2. pc[c] \in {"restore", "reset"} => x[c].of = have[c] /\ pc[c] \in Exchanging
    BY DEF IInv, ThreadsAreAsked, Ops, Exchanging
  <2>3. ASSUME NEW d \in Calls, pc'[d] \in {"restore", "reset"}, x'[d].thread = "answered"
        PROVE  x[d].thread = "answered" \/ inst'[have[d]].dirt = {}
    BY <1>1, <2>2, <2>3
  <2>4. ASSUME NEW d \in Calls, pc'[d] \in Ops
        PROVE  pc'[d] = pc[d] /\ x'[d].op = x[d].op /\ x'[d].of = x[d].of /\ ~x'[d].withdrawn
    BY <1>1, <2>1, <2>4
  <2>5. ASSUME NEW d \in Calls, x'[d].thread = "pending"
        PROVE  /\ x[d].thread = "pending" /\ x'[d].op = x[d].op
               /\ x'[d].withdrawn \/ (pc'[d] = pc[d] /\ ~x[d].withdrawn)
    <3>1. d # c
      BY <1>1, <2>5
    <3> QED
      BY <1>1, <2>1, <2>5, <3>1
  <2>6. ASSUME NEW d \in Calls
        PROVE  /\ pc'[d] \in Exchanging => x'[d].thread # "none"
               /\ x'[d].thread # "none" => x[d].thread # "none" /\ x'[d].of = x[d].of
    BY <1>1, <2>1
  <2> QED
    BY <1>3, <2>3, <2>4, <2>5, <2>6, ThreadsKept DEF IInv
<1>8. ServesOne' /\ DirtIsOwed'
  BY <1>3, DirtKept DEF IInv, ledger
<1>9. RunsAreTold'
  <2>1. \A d \in Calls : pc[d] = "code" /\ Started(d) => Started(d)'
    BY <1>1 DEF Started, Exchanging
  <2> QED
    BY <1>3, <2>1, RunsKept DEF IInv
<1> QED
  BY <1>2, <1>4, <1>5, <1>6, <1>7, <1>8, <1>9 DEF IInv

\* A thread that may begin is that of the exchange its caller is in: one lock covers its beginning
\* and the caller's withdrawal (_exchange of _backend.py).
LEMMA StartsForItsCaller ==
    ASSUME IInv, NEW c \in Calls, ThreadStarts(c)
    PROVE  /\ pc[c] = x[c].op /\ pc[c] \in Ops
           /\ x[c].op = "code" =>
                x[c].of = have[c] /\ have[c] \in Calls /\ inst[have[c]].dirt \subseteq {c}
<1>1. x[c].thread = "pending" /\ ~x[c].withdrawn
  BY DEF ThreadStarts, MayStart
<1>2. pc[c] = x[c].op /\ pc[c] \in Ops
  BY <1>1 DEF IInv, TypeOK, ThreadsAreAsked
<1>3. ASSUME x[c].op = "code"
      PROVE  x[c].of = have[c] /\ have[c] \in Calls /\ inst[have[c]].dirt \subseteq {c}
  <2>1. pc[c] \in Ops \ {"init"} /\ pc[c] \in Served /\ pc[c] \in HasOne
    BY <1>2, <1>3 DEF Served, HasOne, Ops
  <2> QED
    BY <2>1 DEF IInv, TypeOK, ThreadsAreAsked, InstancesAreMade, ServesOne
<1> QED
  BY <1>2, <1>3

\* A thread that begins finds its worker gone or sets it to work; code makes the instance the call's.
LEMMA ThreadStartsStep ==
    ASSUME IInv, NEW c \in Calls, ThreadStarts(c)
    PROVE  IInv'
<1>0. /\ x[c].thread = "pending" /\ pc[c] = x[c].op /\ pc[c] \in Ops
      /\ UNCHANGED <<router, admission, pc, gate, reg, have, told, ledger>>
  BY StartsForItsCaller DEF ThreadStarts
<1>1. CASE UNCHANGED <<ran, inst>>
  <2>1. PICK state \in {"running", "broken"} : Thread(c, state)
    BY DEF ThreadStarts
  <2>2. inst' \in [Calls -> Instances] /\ \A i \in Calls : Wears(i)
    BY <1>1 DEF IInv, TypeOK, Instances, Wears
  <2> QED
    BY <1>0, <1>1, <2>1, <2>2, ThreadStep DEF results
<1>2. CASE /\ x[c].op = "code" /\ Thread(c, "running") /\ ran' = [ran EXCEPT ![c] = TRUE]
           /\ inst' = [inst EXCEPT ![x[c].of].dirt = @ \cup {c}]
  <2> PICK i \in Calls : i = have[c]
    BY <1>2, StartsForItsCaller
  <2>1. pc[c] = "code" /\ x[c].of = i /\ inst[i].dirt \subseteq {c}
    BY <1>0, <1>2, StartsForItsCaller
  <2>2. pc[c] \in Exchanging /\ pc[c] \in Served
    BY <2>1 DEF Exchanging, Served
  <2>3. x' = [x EXCEPT ![c].thread = "running"]
    BY <1>2, <2>2 DEF Thread
  <2>4. /\ \A d \in Calls : d # c => x'[d] = x[d]
        /\ x'[c].op = "code" /\ x'[c].of = i /\ x'[c].thread = "running"
        /\ x'[c].withdrawn = x[c].withdrawn
    BY <1>2, <2>1, <2>3 DEF IInv, TypeOK
  <2>5. inst \in [Calls -> Instances]
    BY DEF IInv, TypeOK, Instances
  <2>6. /\ inst' \in [Calls -> Instances]
        /\ \A j \in Calls : j # i => inst'[j] = inst[j]
        /\ inst'[i].up = inst[i].up /\ inst'[i].retired = inst[i].retired
        /\ inst'[i].known = inst[i].known /\ inst'[i].dirt = {c}
    BY <1>2, <2>1, <2>5 DEF Instances
  <2>7. /\ \A d \in Calls : d # c => ran'[d] = ran[d]
        /\ ran'[c] /\ ran' \in [Calls -> BOOLEAN]
    BY <1>2 DEF IInv, TypeOK
  <2>8. \A d \in Held : d = c
    <3>1. c \in Held
      BY <2>1 DEF Held
    <3> QED
      BY <3>1, OneHolder DEF IInv
  <2>9. TypeOK'
    <3>1. x' \in [Calls -> Threads]
      <4>1. x \in [Calls -> Threads]
        BY DEF IInv, TypeOK, Threads
      <4>2. [x[c] EXCEPT !.thread = "running"] \in Threads
        <5>1. x[c] \in Threads
          BY <4>1
        <5> QED
          BY <5>1 DEF Threads
      <4> QED
        BY <2>3, <4>1, <4>2
    <3> QED
      BY <1>0, <2>6, <2>7, <3>1 DEF IInv, TypeOK, Threads, Instances, admission, ledger
  <2>10. LeaseIsCounted'
    BY <1>0, BodyKeepsLease DEF IInv
  <2>11. GateIsHeld'
    BY <1>0, GateKept DEF IInv, ledger
  <2>12. InstancesAreMade'
    BY <1>0, <2>6 DEF IInv, InstancesAreMade
  <2>13. ThreadsAreAsked'
    <3>1. \A d \in Calls : d # c => have[d] = None
      BY <2>8 DEF IInv, InstancesAreMade, Held, HasOne, Adopting, Served
    <3>2. ~x[c].withdrawn /\ pc[c] \notin {"restore", "reset"} /\ i # None
      BY <1>0, <2>1, CallsAssumption DEF IInv, ThreadsAreAsked
    <3> QED
      BY <1>0, <2>1, <2>4, <3>1, <3>2, ThreadsOfOthers DEF IInv
  <2>14. \A d \in Calls : d # c => pc[d] \notin Served \cup Preparing
    BY <2>8 DEF Held, Served, Preparing
  <2>15. ServesOne'
    <3>1. inst[i].known \subseteq {router[c]}
      BY <2>2 DEF IInv, ServesOne
    <3> QED
      BY <1>0, <2>6, <2>7, <2>14, <3>1 DEF ServesOne
  <2>16. DirtIsOwed'
    <3>1. /\ \A j \in Calls : \A d, e \in inst'[j].dirt : d = e
          /\ \A j \in Calls : \A r, s \in inst'[j].known : r = s
      BY <2>6 DEF IInv, DirtIsOwed
    <3>2. pc[c] \notin Preparing
      BY <2>1 DEF Preparing
    <3>3. ASSUME NEW j \in Calls, Alive(j)', inst'[j].dirt # {}, NEW r \in inst'[j].known
          PROVE  r \in unclean \/ \E d \in Calls : pc[d] \in Served /\ have[d] = j
      <4>1. CASE j = i
        BY <2>2, <4>1
      <4>2. CASE j # i
        BY <2>6, <3>3, <4>2 DEF IInv, DirtIsOwed, Alive
      <4> QED
        BY <4>1, <4>2
    <3> QED
      BY <1>0, <2>14, <3>1, <3>2, <3>3 DEF DirtIsOwed, ledger
  <2>17. RunsAreTold'
    <3>1. told[c] = "none" /\ pc[c] \in Served \ {"run"}
      BY <2>1 DEF IInv, RunsAreTold, Served
    <3>2. \A d \in Calls : pc[d] = "code" /\ ran'[d] => Started(d)'
      BY <2>1, <2>4, <2>7 DEF IInv, RunsAreTold, Started
    <3>3. UnansweredRetires'
      <4> SUFFICES ASSUME NEW d \in Calls, told[d] \in {"queued", "cancelled", "failed"}, ran'[d]
                   PROVE  told[d] # "queued" /\ inst'[have[d]].retired
        BY <1>0 DEF UnansweredRetires
      <4>1. d # c /\ ran[d]
        BY <2>7, <3>1
      <4>2. told[d] # "queued" /\ inst[have[d]].retired /\ have[d] \in Calls
        BY <4>1 DEF IInv, TypeOK, RunsAreTold, UnansweredRetires
      <4> QED
        BY <2>6, <4>2
    <3>4. have[c] # None
      BY CallsAssumption
    <3> QED
      BY <1>0, <2>7, <3>1, <3>2, <3>3, <3>4 DEF IInv, RunsAreTold
  <2> QED
    BY <2>9, <2>10, <2>11, <2>12, <2>13, <2>15, <2>16, <2>17 DEF IInv
<1> QED
  BY <1>1, <1>2 DEF ThreadStarts

\* A worker that answers a reset has restored its baseline: nothing is left in it.
LEMMA ThreadAnswersStep ==
    ASSUME IInv, NEW c \in Calls, ThreadAnswers(c)
    PROVE  IInv'
<1>0. /\ x[c].thread = "running" /\ Thread(c, "answered")
      /\ UNCHANGED <<router, admission, pc, gate, reg, results, ledger>>
      /\ inst' = IF x[c].op \in {"restore", "reset"} THEN [inst EXCEPT ![x[c].of].dirt = {}] ELSE inst
  BY DEF ThreadAnswers
<1>1. inst \in [Calls -> Instances]
  BY DEF IInv, TypeOK, Instances
<1> PICK i \in Calls : i = x[c].of
  BY <1>0 DEF IInv, TypeOK, ThreadsAreAsked
<1>2. inst' \in [Calls -> Instances] /\ \A j \in Calls : Wears(j)
  <2>1. CASE inst' = inst
    BY <1>1, <2>1 DEF Wears
  <2>2. CASE inst' = [inst EXCEPT ![i].dirt = {}]
    BY <1>1, <2>2 DEF Wears, Instances
  <2> QED
    BY <1>0, <2>1, <2>2
<1>3. pc[c] \in {"restore", "reset"} => inst'[i].dirt = {}
  <2> SUFFICES ASSUME pc[c] \in {"restore", "reset"} PROVE inst'[i].dirt = {}
    OBVIOUS
  <2>1. x[c].op = pc[c]
    BY DEF IInv, ThreadsAreAsked, Ops
  <2> QED
    BY <1>0, <1>1, <2>1 DEF Instances
<1> QED
  BY <1>0, <1>2, <1>3, ThreadStep

\* A caller that withdraws (_exchange of _backend.py) retires the instance where its work had started,
\* and says that it was still queued only where it had not.
LEMMA WithdrawStep ==
    ASSUME IInv, NEW c \in Calls, Withdraw(c)
    PROVE  IInv'
<1>0. /\ pc[c] \in Ops
      /\ x' = [x EXCEPT ![c].withdrawn = TRUE, ![c].late = FALSE]
      /\ UNCHANGED <<router, admission, gate, reg, have, ran, ledger>>
  BY DEF Withdraw
<1>1. PICK to \in {Stop[pc[c]], Join[pc[c]]} :
         /\ pc' = [pc EXCEPT ![c] = to]
         /\ IF Started(c) THEN inst' = [inst EXCEPT ![x[c].of].retired = TRUE] ELSE inst' = inst
  BY DEF Withdraw, Goto
<1>2. \/ pc[c] = "init" /\ to \in {"stop_init", "join_init"}
      \/ pc[c] = "restore" /\ to \in {"stop_restore", "join_restore"}
      \/ pc[c] = "code" /\ to \in {"stop_code", "join_code"}
      \/ pc[c] = "reset" /\ to \in {"stop_reset", "join_reset"}
  BY <1>0 DEF Ops, Stop, Join
<1>3. to \in Places /\ to \in Exchanging /\ to \notin Ops
  BY <1>2 DEF Places, Exchanging, Ops
<1>4. pc'[c] = to /\ \A d \in Calls : d # c => pc'[d] = pc[d]
  BY <1>1, <1>3 DEF IInv, TypeOK
<1>5. /\ \A d \in Calls : d # c => x'[d] = x[d]
      /\ x'[c].op = x[c].op /\ x'[c].of = x[c].of /\ x'[c].thread = x[c].thread /\ x'[c].withdrawn
  BY <1>0 DEF IInv, TypeOK
<1>6. x[c].thread # "none" /\ x[c].of \in Calls /\ (pc[c] = "code" => x[c].of = have[c])
  <2>1. pc[c] \in Exchanging /\ (pc[c] = "code" => pc[c] \in Ops \ {"init"})
    BY <1>0 DEF Ops, Exchanging
  <2> QED
    BY <2>1 DEF IInv, TypeOK, ThreadsAreAsked
<1> PICK i \in Calls : i = x[c].of
  BY <1>6
<1>7. /\ inst' \in [Calls -> Instances] /\ \A j \in Calls : Wears(j)
      /\ Started(c) => inst'[i].retired
  <2>1. CASE inst' = inst /\ ~Started(c)
    BY <2>1 DEF IInv, TypeOK, Instances, Wears
  <2>2. CASE inst' = [inst EXCEPT ![i] = Retired(i)]
    <3>1. inst' \in [Calls -> Instances] /\ (\A j \in Calls : Wears(j)) /\ inst'[i] = Retired(i)
      BY <2>2, OneWears
    <3>2. Retired(i).retired
      <4>1. inst[i] \in Instances
        BY DEF IInv, TypeOK, Instances
      <4> QED
        BY <4>1 DEF Retired, Instances
    <3> QED
      BY <3>1, <3>2
  <2> QED
    BY <1>1, <2>1, <2>2 DEF Retired
<1>8. PICK end \in {"queued", "cancelled", "failed"} :
         /\ told' \in {told, [told EXCEPT ![c] = end]}
         /\ pc[c] \in {"init", "reset"} => told' = told
         /\ pc[c] = "restore" /\ told' # told => end = "cancelled"
         /\ Started(c) => end # "queued"
  <2>1. PICK ending \in Endings(c) :
           told' = IF pc[c] = "code" \/ (pc[c] = "restore" /\ ending = "cancelled")
                    THEN [told EXCEPT ![c] =
                            IF ending = "queued" /\ Started(c) THEN "failed" ELSE ending]
                    ELSE told
    BY DEF Withdraw
  <2>2. ending \in {"queued", "cancelled", "failed"}
    BY <2>1 DEF Endings
  <2>3. CASE ending = "queued" /\ Started(c)
    BY <2>1, <2>3
  <2>4. CASE ~(ending = "queued" /\ Started(c))
    <3>1. Started(c) => ending # "queued"
      BY <2>4
    <3>2. told' \in {told, [told EXCEPT ![c] = ending]}
      BY <2>1, <2>4
    <3>3. pc[c] \in {"init", "reset"} => told' = told
      BY <2>1
    <3>4. pc[c] = "restore" /\ told' # told => ending = "cancelled"
      BY <2>1
    <3> QED
      BY <2>2, <3>1, <3>2, <3>3, <3>4
  <2> QED
    BY <2>3, <2>4
<1>9. TypeOK'
  <2>1. x' \in [Calls -> Threads]
    <3>1. x \in [Calls -> Threads]
      BY DEF IInv, TypeOK, Threads
    <3>2. [[x[c] EXCEPT !.withdrawn = TRUE] EXCEPT !.late = FALSE] \in Threads
      <4>1. x[c] \in Threads
        BY <3>1
      <4> QED
        BY <4>1 DEF Threads
    <3> QED
      BY <1>0, <3>1, <3>2
  <2>2. told' \in [Calls -> {"none", "ok", "queued", "cancelled", "failed"}]
    BY <1>8 DEF IInv, TypeOK
  <2>3. pc' \in [Calls -> Places]
    BY <1>1, <1>3 DEF IInv, TypeOK
  <2> QED
    BY <1>0, <1>7, <2>1, <2>2, <2>3 DEF IInv, TypeOK, Threads, Instances, admission, ledger
<1>10. \A d \in Calls : GoesOn(d) /\ Keeps(d) /\ Tells(d)
  <2> SUFFICES ASSUME NEW d \in Calls PROVE GoesOn(d) /\ Keeps(d) /\ Tells(d)
    OBVIOUS
  <2>1. GoesOn(d)
    BY <1>2, <1>4 DEF GoesOn, Preparing, Adopting, Served
  <2>2. Keeps(d)
    BY <1>0, <1>2, <1>4 DEF Keeps, HasOne, Adopting, Served
  <2>3. Tells(d)
    <3>1. pc'[d] = "done" => pc[d] = "done"
      BY <1>2, <1>4
    <3>2. CASE told'[d] = told[d]
      BY <3>1, <3>2 DEF Tells
    <3>3. CASE told'[d] # told[d]
      <4>1. d = c /\ told'[c] = end /\ told' # told
        BY <1>8, <3>3 DEF IInv, TypeOK
      <4>2. CASE pc[c] = "restore"
        <5>1. ~ran'[c] /\ pc'[c] \in Told /\ end = "cancelled"
          BY <1>0, <1>2, <1>4, <1>8, <4>1, <4>2 DEF Told, IInv, RunsAreTold, Served
        <5> QED
          BY <4>1, <5>1 DEF Tells
      <4>3. CASE pc[c] = "code"
        <5>1. pc'[c] \in Told /\ pc'[c] \notin {"stop_restore", "join_restore"}
          BY <1>2, <1>4, <4>3 DEF Told, Served
        <5>2. ran'[c] => Started(c) /\ have'[c] = i
          BY <1>0, <1>6, <4>3 DEF IInv, RunsAreTold
        <5> QED
          BY <1>7, <1>8, <4>1, <5>1, <5>2 DEF Tells
      <4> QED
        BY <1>2, <1>8, <4>1, <4>2, <4>3
    <3> QED
      BY <3>2, <3>3
  <2> QED
    BY <2>1, <2>2, <2>3
<1>11. LeaseIsCounted'
  <2>1. \A d \in Calls : pc'[d] = pc[d] \/ (InBody(d) /\ pc'[d] \notin {"start", "waiting", "done"})
    BY <1>2, <1>4 DEF InBody
  <2> QED
    BY <1>0, <2>1, BodyKeepsLease DEF IInv
<1>12. GateIsHeld'
  <2>1. \A d \in Calls : pc'[d] \in Closing => pc'[d] = pc[d]
    BY <1>2, <1>4 DEF Closing
  <2> QED
    BY <1>0, <1>10, <2>1, GateKept DEF IInv, GoesOn, ledger
<1>13. InstancesAreMade'
  BY <1>0, <1>7, <1>10, InstancesKept DEF IInv
<1>14. ThreadsAreAsked'
  <2>1. \A d \in Calls : x[d].thread = "pending" /\ ~x[d].withdrawn => pc[d] = x[d].op
    BY DEF IInv, ThreadsAreAsked
  <2>2. \A d \in Calls : /\ pc[d] \in Ops => ~x[d].withdrawn
                         /\ pc[d] \in Exchanging => x[d].thread # "none"
                         /\ x[d].withdrawn \in BOOLEAN
    BY DEF IInv, TypeOK, ThreadsAreAsked
  <2>3. to \notin {"restore", "reset"}
    BY <1>3 DEF Ops
  <2> QED
    BY <1>3, <1>4, <1>5, <1>6, <1>7, <1>10, <2>1, <2>2, <2>3, ThreadsKept DEF IInv
<1>15. ServesOne' /\ DirtIsOwed'
  <2>1. \A d \in Calls : pc[d] \in Served => pc'[d] \in Served
    BY <1>2, <1>4 DEF Served
  <2> QED
    BY <1>0, <1>7, <1>10, <2>1, DirtKept DEF IInv, ledger
<1>16. RunsAreTold'
  <2>1. \A d \in Calls : d # c => Started(d)' = Started(d)
    BY <1>5 DEF Started
  <2>2. /\ pc'[c] \notin {"run", "code"} /\ pc[c] \notin {"stop_restore", "join_restore", "leave"}
        /\ pc[c] \in Served => pc'[c] \in Served
    BY <1>2, <1>4 DEF Served
  <2> QED
    BY <1>4, <1>7, <1>10, <2>1, <2>2, RunsKept DEF IInv
<1> QED
  BY <1>9, <1>11, <1>12, <1>13, <1>14, <1>15, <1>16 DEF IInv

-----------------------------------------------------------------------------
(***************************************************************************)
(* The theorems.                                                           *)
(***************************************************************************)

\* Every step preserves the inductive invariant.
LEMMA NextIInv == IInv /\ [Next]_vars => IInv'
<1> SUFFICES ASSUME IInv, [Next]_vars PROVE IInv'
  OBVIOUS
<1>1. CASE UNCHANGED vars
  <2>1. UNCHANGED <<router, table, lease, mine, pc, gate, reg, inst, have, told, ran, x,
                    unclean, out, covered>>
    BY <1>1 DEF vars, admission, registry, results, ledger
  <2>2. TypeOK' /\ GateIsHeld' /\ InstancesAreMade'
    BY <2>1 DEF IInv, TypeOK, GateIsHeld, InstancesAreMade
  <2>3. LeaseIsCounted'
    BY <2>1, BodyKeepsLease DEF IInv, admission
  <2>4. ThreadsAreAsked' /\ ServesOne'
    BY <2>1 DEF IInv, ThreadsAreAsked, ServesOne
  <2>5. DirtIsOwed' /\ RunsAreTold'
    BY <2>1 DEF IInv, DirtIsOwed, Alive, RunsAreTold, Started, UnansweredRetires
  <2> QED
    BY <2>2, <2>3, <2>4, <2>5 DEF IInv
<1>2. ASSUME NEW c \in Calls, Admit(c) PROVE IInv'
  BY <1>2, AdmitStep
<1>3. ASSUME NEW c \in Calls, Acquire(c) PROVE IInv'
  <2>1. CASE AcquireRefused(c) \/ AdoptRefused(c)
    BY <2>1, QuietStep DEF Quiet
  <2>2. CASE Restored(c)
    <3>1. CASE inst[have[c]].retired
      BY <2>2, <3>1, QuietStep DEF Quiet, RetiredMeanwhile
    <3>2. CASE ~inst[have[c]].retired
      BY <2>2, <3>2, RenewedStep
    <3> QED
      BY <3>1, <3>2
  <2> QED
    BY <1>3, <2>1, <2>2, AcquireExistingStep, AcquireOverDeadStep, AcquireNewStep, CloseOldStep,
       CloseUnpreparedStep, PreparedStep, BeginStep DEF Acquire
<1>4. ASSUME NEW c \in Calls, Serve(c) PROVE IInv'
  <2>1. CASE RunRefused(c) \/ CodeRan(c) \/ ResetRefused(c) \/ Joined(c) \/ DisposeLate(c)
    BY <2>1, QuietStep DEF Quiet
  <2>2. CASE ResetDone(c)
    <3>1. CASE inst[have[c]].retired
      BY <2>2, <3>1, QuietStep DEF Quiet, RetiredMeanwhile
    <3>2. CASE ~inst[have[c]].retired
      BY <2>2, <3>2, RenewedStep
    <3> QED
      BY <3>1, <3>2
  <2> QED
    BY <1>4, <2>1, <2>2, BeginStep, StopReturnsStep, DisposeStep, DisposeEndsStep DEF Serve
<1>5. ASSUME NEW c \in Calls, DeadlinePasses(c) \/ ThreadRefuses(c) \/ ThreadBreaks(c) PROVE IInv'
  BY <1>5, QuietStep DEF Quiet
<1> QED
  BY <1>1, <1>2, <1>3, <1>4, <1>5, WithdrawStep, ThreadStartsStep, ThreadAnswersStep,
     WorkerDiesStep, OutsideStep DEF Next

\* Every reachable state satisfies it.
LEMMA Invariant == Spec => []IInv
BY InitIInv, NextIInv, PTL DEF Spec

\* What two cannot be in has at most one.
LEMMA AtMostOne ==
    ASSUME NEW S, \A d, e \in S : d = e
    PROVE  Cardinality(S) <= 1
<1>1. CASE S = {}
  BY <1>1, FS_EmptySet
<1>2. CASE S # {}
  <2>1. PICK d \in S : S = {d}
    BY <1>2
  <2> QED
    BY <2>1, FS_Singleton
<1> QED
  BY <1>1, <1>2

\* For every finite set of calls, of one router or of several: a (key, kind) never has two worker
\* processes, no code runs in the state another call's code left, and a run its caller got no result
\* of did not start or has retired its sandbox (acquire, _dispose, reset and _exchange of
\* _backend.py, close of _process.py; _adopt and the mark of _router.py).
THEOREM CallsAreSafe == Spec => [](TypeOK /\ OneWorker /\ NoResidue /\ UnansweredRetires)
<1>1. IInv => TypeOK /\ OneWorker /\ NoResidue /\ UnansweredRetires
  <2> SUFFICES ASSUME IInv PROVE TypeOK /\ OneWorker /\ NoResidue /\ UnansweredRetires
    OBVIOUS
  <2>1. OneWorker
    <3>1. \A d, e \in {i \in Calls : inst[i].up} : d = e
      BY DEF IInv, InstancesAreMade
    <3> QED
      BY <3>1, AtMostOne DEF OneWorker
  <2>2. NoResidue
    BY AtMostOne DEF NoResidue, IInv, DirtIsOwed
  <2> QED
    BY <2>1, <2>2 DEF IInv, RunsAreTold
<1> QED
  BY <1>1, Invariant, PTL

\* Code starts only in an instance that holds nothing of any call: what acquire of _backend.py hands
\* out as it is has been reset since its identity was given to a router (_adopt of _router.py, the
\* rotation in reset of _backend.py), or its router would have refused the key.
THEOREM ServedClean ==
    Spec => [][\A c \in Calls : ran'[c] /\ ~ran[c] => inst[have[c]].dirt = {}]_vars
<1>1. ASSUME IInv, Next, NEW c \in Calls, ran'[c], ~ran[c]
      PROVE  inst[have[c]].dirt = {}
  <2>1. pc[c] = "code"
    <3>a. \A d \in Calls : Acquire(d) => ran' = ran
      BY DEF Acquire, AcquireExisting, AcquireOverDead, AcquireNew, CloseOld, AcquireRefused,
         CloseUnprepared, Prepared, Adopt, AdoptRefused, Restored, Begin, results
    <3>b. \A d \in Calls : Serve(d) => ran' = ran
      BY DEF Serve, RunCode, Reset, Begin, RunRefused, CodeRan, ResetRefused, ResetDone,
         StopReturns, Joined, Dispose, DisposeLate, DisposeEnds, results
    <3>c. \A d \in Calls : Withdraw(d) \/ DeadlinePasses(d) \/ ThreadRefuses(d) \/ ThreadAnswers(d)
                           \/ ThreadBreaks(d) \/ WorkerDies(d) => ran' = ran
      BY DEF Withdraw, DeadlinePasses, ThreadRefuses, ThreadAnswers, ThreadBreaks, WorkerDies,
         results
    <3>d. OutsideDispose \/ OutsideNothing \/ OutsideEnds => ran' = ran
      BY DEF OutsideDispose, OutsideNothing, OutsideEnds, results
    <3>e. \A d \in Calls : Admit(d) => ran' = ran \/ ran' = [ran EXCEPT ![d] = FALSE]
      BY DEF Admit, Enter, Lock, Permit, GiveUp, Leave, results
    <3>f. \A d \in Calls : ThreadStarts(d) =>
             ran' = ran \/ (ran' = [ran EXCEPT ![d] = TRUE] /\ x[d].op = "code")
      BY DEF ThreadStarts
    <3>g. ran' # ran /\ \A d \in Calls : ran' # [ran EXCEPT ![d] = FALSE]
      BY <1>1 DEF IInv, TypeOK
    <3>1. PICK d \in Calls : ThreadStarts(d) /\ ran' = [ran EXCEPT ![d] = TRUE] /\ x[d].op = "code"
      BY <1>1, <3>a, <3>b, <3>c, <3>d, <3>e, <3>f, <3>g DEF Next
    <3>2. d = c
      BY <1>1, <3>1 DEF IInv, TypeOK
    <3> QED
      BY <1>1, <3>1, <3>2, StartsForItsCaller
  <2>2. pc[c] \in Served
    BY <2>1 DEF Served
  <2> QED
    BY <1>1, <2>2 DEF IInv, ServesOne
<1>2. IInv /\ [Next]_vars => [\A c \in Calls : ran'[c] /\ ~ran[c] => inst[have[c]].dirt = {}]_vars
  BY <1>1
<1> QED
  BY <1>2, Invariant, PTL DEF Spec

=============================================================================
