------------------------ MODULE ExclusiveSlotsProofs ------------------------
(***************************************************************************)
(* Safety of the admission table for any set of calls, of instances and any  *)
(* bound.  The safety properties of ExclusiveSlots are not inductive; IInv    *)
(* adds what ties the table to the calls' own control state.                  *)
(***************************************************************************)
EXTENDS ExclusiveSlots, TLAPS

\* A call is a holder exactly while its body runs.
HoldersAreInside ==
  \A c \in Calls : c \in Holders <=> pc[c] = "inside"

\* The entry is cleaning exactly while one call cleans, and then nobody holds it; records are
\* claimed and completed only during that time.
OneCleaner ==
  /\ \A c \in Calls : pc[c] = "cleaning" => state = "cleaning"
  /\ \A c, d \in Calls : pc[c] = "cleaning" /\ pc[d] = "cleaning" => c = d
  /\ state = "cleaning" => Holders = {} /\ claimed = Condemned
  /\ state # "cleaning" => claimed = {}
  /\ done \subseteq claimed

\* Somebody is inside while the entry drains, so a release will end the draining.
DrainingIsHeld == state = "draining" => Holders # {}

\* A completed record has been reported to everybody who asked for it.
DoneIsReported ==
  \A c \in Calls, i \in Instances : i \in done => asked[c][i] = 0

IInv ==
  /\ TypeOK
  /\ exclusive # NoOne => shared = {}
  /\ HoldersAreInside
  /\ OneCleaner
  /\ DrainingIsHeld
  /\ CondemnedStaysShut
  /\ FoldKeepsStrongest
  /\ DoneIsReported

-----------------------------------------------------------------------------

\* The initial state, with an empty table, satisfies the inductive invariant.
LEMMA InitIInv == Init => IInv
<1> SUFFICES ASSUME Init PROVE IInv
  OBVIOUS
<1>1. TypeOK
  <2>1. Unasked \in [Instances -> Ranks]
    BY DEF Unasked, Ranks
  <2>2. 0 \in 0..Timeout
    BY TimeoutAssumption
  <2> QED
    BY <2>1, <2>2 DEF Init, TypeOK, PCs
<1>2. Holders = {} /\ Condemned = {}
  BY DEF Init, Holders, Condemned, Unasked
<1> QED
  BY <1>1, <1>2 DEF Init, IInv, HoldersAreInside, OneCleaner, DrainingIsHeld,
     CondemnedStaysShut, FoldKeepsStrongest, DoneIsReported, Unasked

\* Every guarded section of the table keeps the types.
LEMMA TypeStep == TypeOK /\ [Next]_vars => TypeOK'
<1> SUFFICES ASSUME TypeOK, [Next]_vars PROVE TypeOK'
  OBVIOUS
<1> USE CallsAssumption, TimeoutAssumption
<1>1. ASSUME NEW c \in Calls, NEW e \in BOOLEAN, Take(c, e) PROVE TypeOK'
  <2> DEFINE live == waiting \ Closed
  <2> USE DEF TypeOK, records, PCs
  <2>1. live \subseteq Calls /\ live \subseteq waiting /\ 0 \in 0..Timeout
    OBVIOUS
  <2> HIDE DEF live
  <2>2. CASE Admit(c, e) /\ Keep(live, {})
    BY <1>1, <2>1, <2>2 DEF Take, Admit, Keep, live
  <2>3. CASE Join(live, c, e) /\ pc' = [pc EXCEPT ![c] = "queued"] /\ UNCHANGED <<shared, exclusive>>
    BY <1>1, <2>1, <2>3 DEF Take, Join, live
  <2> QED
    BY <1>1, <2>2, <2>3 DEF Take, live
<1>2. ASSUME NEW c \in Calls, Retake(c) PROVE TypeOK'
  <2> DEFINE live == waiting \ Closed
  <2> USE DEF TypeOK, records, PCs
  <2>1. live \subseteq Calls /\ live \subseteq waiting /\ 0 \in 0..Timeout
    OBVIOUS
  <2> HIDE DEF live
  <2>2. CASE Admit(c, c \in wanting) /\ Keep(live \ {c}, {})
    BY <1>2, <2>1, <2>2 DEF Retake, Admit, Keep, live
  <2>3. CASE Keep(live, {c}) /\ UNCHANGED <<shared, exclusive, pc>>
    BY <1>2, <2>1, <2>3 DEF Retake, Keep, live
  <2> QED
    BY <1>2, <2>2, <2>3 DEF Retake, live
<1>3. ASSUME NEW c \in Calls, NEW then \in {"refused", "out"}, ForgetWaiter(c, then)
      PROVE TypeOK'
  BY <1>3 DEF ForgetWaiter, Keep, DropIfIdle, TypeOK, records, PCs
<1>4. ASSUME NEW c \in Calls, CloseLoop(c) PROVE TypeOK'
  BY <1>4 DEF CloseLoop, TypeOK, slot, line, records, PCs
<1>5. ASSUME NEW c \in Calls, Wake(c) PROVE TypeOK'
  BY <1>5 DEF Wake, Keep, DropIfIdle, TypeOK, records
<1>6. ASSUME NEW c \in Calls, NEW i \in Instances, NEW r \in {Reset, Dispose}, Queue(c, i, r)
      PROVE TypeOK'
  BY <1>6 DEF Queue, TypeOK, line, Reset, Dispose, Ranks
<1>7. ASSUME NEW c \in Calls, Drain(c) PROVE TypeOK'
  BY <1>7 DEF Drain, TypeOK, line, records
<1>8. ASSUME NEW c \in Calls, Renew(c) PROVE TypeOK'
  BY <1>8 DEF Renew, Advance, TypeOK, slot, records
<1>9. ASSUME NEW c \in Calls, Release(c) PROVE TypeOK'
  <2> USE <1>9 DEF TypeOK
  <2>1. (shared \subseteq Calls /\ exclusive \in Calls \cup {NoOne})'
    BY DEF Release
  <2>2. pc' \in [Calls -> PCs] /\ waking' \subseteq Calls
    BY DEF Release, PCs
  <2>3. (present \in BOOLEAN /\ state \in {"serving", "draining", "cleaning"})'
    BY DEF Release, DropIfIdle
  <2>4. moved' \subseteq waiting' /\ quiet' \in 0..Timeout
    BY DEF Release, Advance
  <2>5. done' \subseteq Instances /\ claimed' \subseteq Instances
    BY DEF Release, Claim, Condemned
  <2> QED
    BY <2>1, <2>2, <2>3, <2>4, <2>5 DEF Release
<1>10. ASSUME NEW c \in Calls, NEW i \in Instances, Complete(c, i) PROVE TypeOK'
  BY <1>10 DEF Complete, Advance, TypeOK, slot, Ranks
<1>11. ASSUME NEW c \in Calls, Interrupt(c) PROVE TypeOK'
  BY <1>11 DEF Interrupt, TypeOK, slot, line, Ranks
<1>12. ASSUME NEW c \in Calls, Cleaned(c) PROVE TypeOK'
  BY <1>12 DEF Cleaned, Advance, DropIfIdle, Unasked, TypeOK, PCs, Ranks
<1>13. ASSUME NEW c \in Calls, Wait(c) \/ WaitExpires(c) PROVE TypeOK'
  BY <1>13 DEF Wait, WaitExpires, Unasked, TypeOK, slot, line, records, PCs, Ranks
<1>14. CASE Tick
  BY <1>14 DEF Tick, TypeOK, slot, records
<1>15. CASE UNCHANGED vars
  BY <1>15 DEF vars, slot, line, records, TypeOK
<1> QED
  BY <1>1, <1>2, <1>3, <1>4, <1>5, <1>6, <1>7, <1>8, <1>9, <1>10, <1>11, <1>12, <1>13, <1>14,
     <1>15 DEF Next, Expire, Cancel

-----------------------------------------------------------------------------

\* Who holds the entry after an admission or a release.
LEMMA HoldersAfter ==
  ASSUME TypeOK, exclusive # NoOne => shared = {}, NEW c \in Calls
  PROVE  /\ \A e \in BOOLEAN : Admit(c, e) /\ exclusive = NoOne => Holders' = Holders \cup {c}
         /\ Release(c) => Holders' = Holders \ {c}
         /\ UNCHANGED <<shared, exclusive>> => Holders' = Holders
BY CallsAssumption DEF TypeOK, Holders, Admit, Release

\* An admission happens only into a serving entry that nobody holds exclusively, and that
\* nobody holds at all if it is to be exclusive.
LEMMA AdmitStep ==
  ASSUME IInv, TypeOK', NEW c \in Calls, NEW e \in BOOLEAN, NEW ahead, Free(ahead, e),
         Admit(c, e), pc[c] # "cleaning", pc[c] # "inside",
         UNCHANGED <<state, pending, done, claimed, asked>>
  PROVE  IInv'
<1>1. Holders' = Holders \cup {c}
  BY HoldersAfter DEF IInv, Free
<1>2. Condemned' = Condemned
  BY DEF Condemned
<1>3. exclusive' # NoOne => shared' = {}
  BY CallsAssumption DEF Free, Admit, IInv, TypeOK
<1>4. HoldersAreInside'
  BY <1>1 DEF IInv, HoldersAreInside, Admit, TypeOK
<1>5. OneCleaner'
  BY <1>2 DEF IInv, OneCleaner, Admit, Free, TypeOK
<1> QED
  BY <1>1, <1>2, <1>3, <1>4, <1>5 DEF IInv, DrainingIsHeld, CondemnedStaysShut, Free,
     FoldKeepsStrongest, DoneIsReported

\* Steps that only move waiters, futures, clocks or loops do not touch what IInv is about.
LEMMA QueueStep ==
  ASSUME IInv, TypeOK', UNCHANGED <<state, shared, exclusive, records>>,
         \A c \in Calls : \/ pc'[c] = pc[c]
                          \/ {pc[c], pc'[c]} \cap {"inside", "cleaning"} = {}
  PROVE  IInv'
<1>1. Holders' = Holders /\ Condemned' = Condemned
  BY DEF Holders, Condemned, records
<1>2. \A c \in Calls : /\ pc'[c] = "inside" <=> pc[c] = "inside"
                       /\ pc'[c] = "cleaning" <=> pc[c] = "cleaning"
  OBVIOUS
<1> QED
  BY <1>1, <1>2 DEF IInv, HoldersAreInside, OneCleaner, DrainingIsHeld, CondemnedStaysShut,
     FoldKeepsStrongest, DoneIsReported, records

\* Every guarded section keeps the inductive invariant.
LEMMA IInvStep == IInv /\ [Next]_vars => IInv'
<1> SUFFICES ASSUME IInv, [Next]_vars PROVE IInv'
  OBVIOUS
<1>0. TypeOK /\ TypeOK'
  BY TypeStep DEF IInv
<1>1. ASSUME NEW c \in Calls, NEW e \in BOOLEAN, Take(c, e) PROVE IInv'
  <2>1. CASE Free(waiting \ Closed, e) /\ Admit(c, e)
    BY <1>0, <1>1, <2>1, AdmitStep DEF Take, records
  <2>2. CASE pc' = [pc EXCEPT ![c] = "queued"] /\ UNCHANGED <<shared, exclusive>>
    BY <1>0, <1>1, <2>2, QueueStep DEF Take, TypeOK
  <2> QED
    BY <1>1, <2>1, <2>2 DEF Take
<1>2. ASSUME NEW c \in Calls, Retake(c) PROVE IInv'
  <2>1. CASE Free(aheadOf[c] \ Closed, c \in wanting) /\ Admit(c, c \in wanting)
    <3>1. \E e \in BOOLEAN : Free(aheadOf[c] \ Closed, e) /\ Admit(c, e)
      BY <2>1 DEF Free, Admit
    <3> QED
      BY <1>0, <1>2, <3>1, AdmitStep DEF Retake, records
  <2>2. CASE UNCHANGED <<shared, exclusive, pc>>
    BY <1>0, <1>2, <2>2, QueueStep DEF Retake
  <2> QED
    BY <1>2, <2>1, <2>2 DEF Retake
<1>3. ASSUME NEW c \in Calls, NEW then \in {"refused", "out"}, ForgetWaiter(c, then)
      PROVE IInv'
  BY <1>0, <1>3, QueueStep DEF ForgetWaiter, TypeOK
<1>4. ASSUME NEW c \in Calls, CloseLoop(c) PROVE IInv'
  BY <1>0, <1>4, QueueStep DEF CloseLoop, TypeOK, slot
<1>5. ASSUME NEW c \in Calls, Wake(c) \/ Renew(c) PROVE IInv'
  BY <1>0, <1>5, QueueStep DEF Wake, Renew, slot
<1>6. ASSUME NEW c \in Calls, NEW i \in Instances, NEW r \in {Reset, Dispose}, Queue(c, i, r)
      PROVE IInv'
  <2> USE <1>0, <1>6
  <2>1. Holders' = Holders /\ c \in Holders
    BY DEF Queue, Holders
  <2>2. state # "cleaning" /\ done = {} /\ claimed = {}
    BY <2>1 DEF IInv, OneCleaner
  <2>3. HoldersAreInside' /\ DrainingIsHeld' /\ CondemnedStaysShut'
    BY <2>1 DEF Queue, IInv, HoldersAreInside, DrainingIsHeld, CondemnedStaysShut
  <2>4. OneCleaner'
    BY <2>2 DEF Queue, IInv, OneCleaner
  <2>5. FoldKeepsStrongest'
    BY DEF Queue, IInv, FoldKeepsStrongest, TypeOK, Ranks, Reset, Dispose
  <2>6. DoneIsReported'
    BY <2>2 DEF Queue, DoneIsReported
  <2> QED
    BY <2>3, <2>4, <2>5, <2>6 DEF IInv, Queue
<1>7. ASSUME NEW c \in Calls, Drain(c) PROVE IInv'
  <2>1. Holders' = Holders /\ c \in Holders /\ Condemned' = Condemned
    BY <1>7 DEF Drain, Holders, Condemned, records
  <2> QED
    BY <1>0, <1>7, <2>1 DEF Drain, IInv, HoldersAreInside, OneCleaner, DrainingIsHeld,
       CondemnedStaysShut, FoldKeepsStrongest, DoneIsReported, records
<1>8. ASSUME NEW c \in Calls, Release(c) PROVE IInv'
  <2> USE <1>0, <1>8
  <2>1. Holders' = Holders \ {c} /\ c \in Holders
    BY HoldersAfter DEF IInv, Release
  <2>2. Condemned' = Condemned
    BY DEF Release, Claim, Condemned
  <2>3. exclusive' # NoOne => shared' = {}
    BY DEF Release, IInv
  <2>4. state # "cleaning" /\ done = {} /\ claimed = {}
    BY <2>1 DEF IInv, OneCleaner
  <2>5. Holders' = {} <=> shared' = {} /\ exclusive' = NoOne
    BY DEF Holders
  <2>6. HoldersAreInside'
    BY <2>1 DEF Release, IInv, HoldersAreInside, TypeOK
  <2>7. OneCleaner'
    <3>1. \A d \in Calls : pc[d] # "cleaning"
      BY <2>4 DEF IInv, OneCleaner
    <3> QED
      BY <2>2, <2>4, <2>5, <3>1 DEF Release, Claim, OneCleaner, TypeOK
  <2>8. DrainingIsHeld' /\ CondemnedStaysShut'
    BY <2>2, <2>5 DEF Release, IInv, DrainingIsHeld, CondemnedStaysShut
  <2>9. FoldKeepsStrongest' /\ DoneIsReported'
    BY DEF Release, IInv, FoldKeepsStrongest, DoneIsReported
  <2> QED
    BY <2>3, <2>6, <2>7, <2>8, <2>9 DEF IInv
<1>9. ASSUME NEW c \in Calls, pc[c] = "cleaning", UNCHANGED <<slot, pending, claimed, pc>>,
             done \subseteq done', done' \subseteq claimed,
             asked' = [d \in Calls |-> [j \in Instances |->
                          IF j \in done' \ done THEN 0 ELSE asked[d][j]]]
      PROVE IInv'
  <2> USE <1>0, <1>9
  <2>1. Holders' = Holders /\ Condemned' = Condemned
    BY DEF Holders, Condemned, slot
  <2>2. HoldersAreInside' /\ OneCleaner' /\ DrainingIsHeld' /\ CondemnedStaysShut'
    BY <2>1 DEF IInv, HoldersAreInside, OneCleaner, DrainingIsHeld, CondemnedStaysShut, slot
  <2>3. FoldKeepsStrongest'
    <3>1. \A d \in Calls, j \in Instances : asked'[d][j] \in {0, asked[d][j]}
      OBVIOUS
    <3>2. \A j \in Instances : pending[j] \in 0..2 /\ pending' = pending
      BY DEF TypeOK, Ranks
    <3> QED
      BY <3>1, <3>2 DEF IInv, FoldKeepsStrongest
  <2>4. DoneIsReported'
    BY DEF IInv, DoneIsReported
  <2> QED
    BY <2>2, <2>3, <2>4 DEF IInv, slot
<1>10. ASSUME NEW c \in Calls, NEW i \in Instances, Complete(c, i) PROVE IInv'
  <2>1. done' \ done = {i} /\ done \subseteq done'
    BY <1>10 DEF Complete
  <2>2. asked' = [d \in Calls |-> [j \in Instances |->
                     IF j \in done' \ done THEN 0 ELSE asked[d][j]]]
    BY <1>0, <1>10, <2>1 DEF Complete, TypeOK
  <2> QED
    BY <1>9, <1>10, <2>1, <2>2 DEF Complete, slot, IInv, OneCleaner
<1>11. ASSUME NEW c \in Calls, Interrupt(c) PROVE IInv'
  <2>1. done' \ done = claimed \ done /\ done \subseteq done' /\ done' \subseteq claimed
    BY <1>11 DEF Interrupt, IInv, OneCleaner
  <2>2. asked' = [d \in Calls |-> [j \in Instances |->
                     IF j \in done' \ done THEN 0 ELSE asked[d][j]]]
    BY <1>11, <2>1 DEF Interrupt, IInv, DoneIsReported
  <2> QED
    BY <1>9, <1>11, <2>1, <2>2 DEF Interrupt, slot
<1>12. ASSUME NEW c \in Calls, Cleaned(c) PROVE IInv'
  <2> USE <1>0, <1>12
  <2>1. Holders' = Holders /\ Holders = {} /\ Condemned' = {} /\ claimed = Condemned
    BY DEF Cleaned, Holders, Condemned, Unasked, IInv, OneCleaner
  <2>2. \A d \in Calls, i \in Instances : asked[d][i] = 0
    <3>1. \A i \in Instances : i \in done \/ pending[i] = 0
      BY DEF Cleaned, Condemned
    <3> QED
      BY <3>1 DEF IInv, DoneIsReported, FoldKeepsStrongest, TypeOK, Ranks
  <2>3. HoldersAreInside' /\ DrainingIsHeld' /\ CondemnedStaysShut'
    BY <2>1 DEF Cleaned, IInv, HoldersAreInside, DrainingIsHeld, CondemnedStaysShut, TypeOK
  <2>4. OneCleaner'
    BY <2>1 DEF Cleaned, IInv, OneCleaner, TypeOK
  <2>5. FoldKeepsStrongest' /\ DoneIsReported'
    BY <2>2 DEF Cleaned, FoldKeepsStrongest, DoneIsReported, Unasked
  <2> QED
    BY <2>3, <2>4, <2>5 DEF Cleaned, IInv
<1>13. ASSUME NEW c \in Calls, Wait(c) PROVE IInv'
  BY <1>0, <1>13, QueueStep DEF Wait, TypeOK, slot
<1>14. ASSUME NEW c \in Calls, WaitExpires(c) PROVE IInv'
  <2> USE <1>0, <1>14
  <2>1. Holders' = Holders /\ Condemned' = Condemned
    BY DEF WaitExpires, Holders, Condemned, slot
  <2>2. \A d \in Calls : /\ pc'[d] = "inside" <=> pc[d] = "inside"
                         /\ pc'[d] = "cleaning" <=> pc[d] = "cleaning"
    BY DEF WaitExpires, TypeOK
  <2>3. \A d \in Calls, i \in Instances : asked'[d][i] \in {0, asked[d][i]}
    BY DEF WaitExpires, Unasked, TypeOK
  <2>4. FoldKeepsStrongest' /\ DoneIsReported'
    <3>1. \A j \in Instances : pending[j] \in 0..2
      BY DEF TypeOK, Ranks
    <3>2. pending' = pending /\ done' = done
      BY DEF WaitExpires
    <3> QED
      BY <2>3, <3>1, <3>2 DEF IInv, FoldKeepsStrongest, DoneIsReported
  <2> QED
    BY <2>1, <2>2, <2>4 DEF WaitExpires, IInv, HoldersAreInside, OneCleaner, DrainingIsHeld,
       CondemnedStaysShut, slot
<1>15. CASE Tick
  BY <1>0, <1>15, QueueStep DEF Tick, slot
<1>16. CASE UNCHANGED vars
  BY <1>0, <1>16, QueueStep DEF vars, slot
<1> QED
  BY <1>1, <1>2, <1>3, <1>4, <1>5, <1>6, <1>7, <1>8, <1>10, <1>11, <1>12, <1>13, <1>14, <1>15,
     <1>16 DEF Next, Expire, Cancel

\* The safety of the admission table (ExclusiveSlots in _cleanup.py), for any number of calls
\* and instances: exclusive holds exclude, cleanups run alone, a condemned instance keeps the
\* entry shut, folding never weakens a cleanup, and reopening never meets an unfinished record.
THEOREM SlotsSafety ==
  Spec => [](TypeOK /\ Exclusion /\ CondemnedStaysShut /\ FoldKeepsStrongest /\ ClaimIsComplete)
<1>1. IInv => TypeOK /\ Exclusion /\ CondemnedStaysShut /\ FoldKeepsStrongest /\ ClaimIsComplete
  BY DEF IInv, Exclusion, ClaimIsComplete, HoldersAreInside, OneCleaner
<1> QED
  BY <1>1, InitIInv, IInvStep, PTL DEF Spec

-----------------------------------------------------------------------------
(* The waiter list.                                                          *)

\* The list holds every queued call, and besides them only calls whose loop closed while they
\* waited; of any two waiters one registered before the other.
LineIsOrdered ==
  /\ \A c \in Calls : pc[c] = "queued" => c \in waiting
  /\ \A c \in waiting : pc[c] \in {"queued", "dead"}
  /\ \A c \in Calls : aheadOf[c] \subseteq waiting
  /\ \A c, d \in waiting : c = d \/ c \in aheadOf[d] \/ d \in aheadOf[c]

\* Shortening the list (slot.waiters in _cleanup.py) keeps it ordered, if nobody is left out that
\* still waits.
LEMMA KeepIsOrdered ==
  ASSUME TypeOK, LineIsOrdered, NEW W \in SUBSET waiting, NEW fresh, Keep(W, fresh),
         \A c \in Calls : pc'[c] = "queued" => c \in W,
         \A c \in W : pc'[c] \in {"queued", "dead"}
  PROVE  LineIsOrdered'
BY DEF TypeOK, LineIsOrdered, Keep

\* Steps that leave the list alone, and nobody begins or ends a wait by.
LEMMA SameLine ==
  ASSUME LineIsOrdered, UNCHANGED <<waiting, aheadOf>>,
         \A c \in Calls : \/ pc'[c] = pc[c]
                          \/ {pc[c], pc'[c]} \cap {"queued", "dead"} = {}
                          \/ pc[c] = "queued" /\ pc'[c] = "dead",
         TypeOK
  PROVE  LineIsOrdered'
BY DEF TypeOK, LineIsOrdered

\* Every guarded section keeps the waiter list ordered.
LEMMA LineStep == TypeOK /\ LineIsOrdered /\ [Next]_vars => LineIsOrdered'
<1> SUFFICES ASSUME TypeOK, LineIsOrdered, [Next]_vars PROVE LineIsOrdered'
  OBVIOUS
<1>1. ASSUME NEW c \in Calls, NEW e \in BOOLEAN, Take(c, e) PROVE LineIsOrdered'
  <2> DEFINE live == waiting \ Closed
  <2>1. /\ live \subseteq waiting /\ c \notin waiting
        /\ \A d \in Calls : d \in live <=> pc[d] = "queued"
    BY <1>1 DEF Take, Closed, LineIsOrdered, TypeOK
  <2>2. CASE Admit(c, e) /\ Keep(live, {})
    BY <2>1, <2>2, KeepIsOrdered DEF Admit, TypeOK
  <2>3. CASE Join(live, c, e) /\ pc' = [pc EXCEPT ![c] = "queued"]
    <3> HIDE DEF live
    <3> QED
      BY <2>1, <2>3 DEF Join, TypeOK, LineIsOrdered
  <2> QED
    BY <1>1, <2>2, <2>3 DEF Take
<1>2. ASSUME NEW c \in Calls, Retake(c) PROVE LineIsOrdered'
  <2> DEFINE live == waiting \ Closed
  <2>1. /\ live \subseteq waiting
        /\ \A d \in Calls : d \in live <=> pc[d] = "queued"
    BY DEF Closed, LineIsOrdered, TypeOK
  <2>2. CASE Admit(c, c \in wanting) /\ Keep(live \ {c}, {})
    BY <2>1, <2>2, KeepIsOrdered DEF Admit, TypeOK
  <2>3. CASE Keep(live, {c}) /\ UNCHANGED pc
    BY <2>1, <2>3, KeepIsOrdered DEF TypeOK
  <2> QED
    BY <1>2, <2>2, <2>3 DEF Retake
<1>3. ASSUME NEW c \in Calls, NEW then \in {"refused", "out"}, ForgetWaiter(c, then)
      PROVE LineIsOrdered'
  <2>1. /\ Keep(waiting \ {c}, {})
        /\ \A d \in Calls : pc'[d] = "queued" => d \in waiting \ {c}
        /\ \A d \in waiting \ {c} : pc'[d] \in {"queued", "dead"}
    BY <1>3 DEF ForgetWaiter, TypeOK, LineIsOrdered
  <2> QED
    BY <2>1, KeepIsOrdered
<1>4. ASSUME NEW c \in Calls, CloseLoop(c) PROVE LineIsOrdered'
  BY <1>4, SameLine DEF CloseLoop, line, TypeOK
<1>5. ASSUME NEW c \in Calls, Wake(c) PROVE LineIsOrdered'
  <2>1. \A d \in Calls : d \in waiting \ Closed <=> pc[d] = "queued"
    BY DEF Closed, LineIsOrdered, TypeOK
  <2> QED
    BY <1>5, <2>1, KeepIsOrdered DEF Wake, TypeOK
<1>6. ASSUME NEW c \in Calls, \/ \E i \in Instances, r \in {Reset, Dispose} : Queue(c, i, r)
                             \/ Drain(c) \/ Renew(c) \/ Release(c)
      PROVE LineIsOrdered'
  BY <1>6, SameLine DEF Queue, Drain, Renew, Release, line, TypeOK
<1>7. ASSUME NEW c \in Calls, \/ \E i \in Instances : Complete(c, i)
                             \/ Interrupt(c) \/ Cleaned(c) \/ Wait(c) \/ WaitExpires(c)
      PROVE LineIsOrdered'
  BY <1>7, SameLine DEF Complete, Interrupt, Cleaned, Wait, WaitExpires, line, TypeOK
<1>8. CASE Tick \/ UNCHANGED vars
  BY <1>8, SameLine DEF Tick, vars, line
<1> QED
  BY <1>1, <1>2, <1>3, <1>4, <1>5, <1>6, <1>7, <1>8 DEF Next, Expire, Cancel

\* A step that lets a call in leaves the exclusive waiters that registered before it queued no
\* longer: take (_cleanup.py) looks at everybody ahead.
LEMMA AdmissionRespectsLine ==
  ASSUME TypeOK, LineIsOrdered, [Next]_vars, NEW c \in Calls, NEW d \in Calls,
         pc[c] # "inside", pc'[c] = "inside",
         pc[d] = "queued", pc'[d] = "queued", d \in wanting
  PROVE  c \in aheadOf[d]
<1> USE DEF TypeOK
<1>0. d \in waiting /\ d \notin Closed /\ c # d
  BY DEF LineIsOrdered, Closed
<1>1. ASSUME NEW b \in Calls, NEW e \in BOOLEAN, Take(b, e) PROVE FALSE
  <2>1. b = c /\ Free(waiting \ Closed, e)
    BY <1>1 DEF Take, Admit
  <2> QED
    BY <1>0, <2>1 DEF Free
<1>2. ASSUME NEW b \in Calls, Retake(b) PROVE c \in aheadOf[d]
  <2>1. b = c /\ Free(aheadOf[c] \ Closed, c \in wanting) /\ pc[c] = "queued"
    BY <1>2 DEF Retake, Admit
  <2>2. d \notin aheadOf[c]
    BY <1>0, <2>1 DEF Free
  <2> QED
    BY <1>0, <2>1, <2>2 DEF LineIsOrdered
<1>3. ASSUME NEW b \in Calls, \/ \E then \in {"refused", "out"} : ForgetWaiter(b, then)
                             \/ CloseLoop(b) \/ Wake(b)
      PROVE FALSE
  BY <1>3 DEF ForgetWaiter, CloseLoop, Wake
<1>4. ASSUME NEW b \in Calls, \/ \E i \in Instances, r \in {Reset, Dispose} : Queue(b, i, r)
                             \/ Drain(b) \/ Renew(b) \/ Release(b)
      PROVE FALSE
  BY <1>4 DEF Queue, Drain, Renew, Release
<1>5. ASSUME NEW b \in Calls, \/ \E i \in Instances : Complete(b, i)
                             \/ Interrupt(b) \/ Cleaned(b) \/ Wait(b) \/ WaitExpires(b)
      PROVE FALSE
  BY <1>5 DEF Complete, Interrupt, Cleaned, Wait, WaitExpires
<1>6. CASE Tick \/ UNCHANGED vars
  BY <1>6 DEF Tick, vars
<1> QED
  BY <1>1, <1>2, <1>3, <1>4, <1>5, <1>6 DEF Next, Expire, Cancel

\* The waiter list is empty to begin with, and stays ordered.
LEMMA LineInvariant == Spec => [](TypeOK /\ LineIsOrdered)
<1>1. Init => TypeOK /\ LineIsOrdered
  BY InitIInv DEF Init, IInv, LineIsOrdered
<1>2. TypeOK /\ LineIsOrdered /\ [Next]_vars => TypeOK' /\ LineIsOrdered'
  BY TypeStep, LineStep
<1> QED
  BY <1>1, <1>2, PTL DEF Spec

\* take lets nobody past a call that waits for an exclusive hold, for any number of calls: not
\* one that arrives, not one that was woken first, whoever gives up or dies in between.
THEOREM NeverOvertaken == Spec => NoOvertaking
<1>1. TypeOK /\ LineIsOrdered /\ [Next]_vars =>
        [\A c, d \in Calls :
           /\ pc[c] # "inside" /\ pc'[c] = "inside"
           /\ pc[d] = "queued" /\ pc'[d] = "queued" /\ d \in wanting
           => c \in aheadOf[d]]_vars
  BY AdmissionRespectsLine
<1> QED
  BY <1>1, LineInvariant, PTL DEF Spec, NoOvertaking

-----------------------------------------------------------------------------
(* Wake-ups and the bound.                                                   *)

\* A step that leaves no _wake owed loses none if every waiter that could be let in after it is
\* woken, or could be let in before it and has not been put back to sleep.
LEMMA StillFree ==
  ASSUME NoLostWake, TypeOK, Closed' = {} => Closed = {}, waking' = waking,
         \A c \in waiting' : Free(aheadOf[c], c \in wanting)' /\ Closed = {} =>
           \/ c \in woken'
           \/ c \in waiting /\ Free(aheadOf[c], c \in wanting) /\ (c \in woken => c \in woken')
  PROVE  NoLostWake'
BY DEF NoLostWake

\* Every guarded section leaves a _wake owed, or no waiter that could be let in and does not know.
LEMMA WakeStep ==
  TypeOK /\ LineIsOrdered /\ NoLostWake /\ [Next]_vars => NoLostWake'
<1> SUFFICES ASSUME TypeOK, LineIsOrdered, NoLostWake, [Next]_vars, Closed' = {}
             PROVE  NoLostWake'
  BY DEF NoLostWake
<1> USE CallsAssumption DEF TypeOK
<1>1. ASSUME NEW c \in Calls, NEW e \in BOOLEAN, Take(c, e) PROVE NoLostWake'
  <2> USE <1>1
  <2>1. Closed = {} /\ waiting \ Closed = waiting
    BY DEF Take, Admit, Join, Closed
  <2>2. c \notin waiting
    BY DEF Take, LineIsOrdered
  <2>3. /\ \A d \in waiting : aheadOf[d] \cap waiting = aheadOf[d]
        /\ wanting \cap waiting = wanting /\ woken \cap waiting = woken
    BY DEF LineIsOrdered
  <2>4. CASE Free(waiting, e) /\ Admit(c, e) /\ Keep(waiting, {})
    <3>1. /\ \A d \in waiting : aheadOf'[d] = aheadOf[d]
          /\ waiting' = waiting /\ wanting' = wanting /\ woken' = woken
          /\ state' = state /\ waking' = waking
      BY <2>1, <2>3, <2>4 DEF Take, Keep
    <3>2. (exclusive' = NoOne => exclusive = NoOne) /\ (shared' = {} => shared = {})
      BY <2>4 DEF Admit
    <3> QED
      BY <2>1, <3>1, <3>2, StillFree DEF Free
  <2>5. CASE ~Free(waiting, e) /\ Join(waiting, c, e) /\ UNCHANGED <<shared, exclusive>>
    <3>1. /\ aheadOf'[c] = waiting /\ \A d \in waiting : aheadOf'[d] = aheadOf[d]
          /\ waiting' = waiting \cup {c} /\ woken' = woken
          /\ state' = state /\ waking' = waking
      BY <2>1, <2>2, <2>3, <2>5 DEF Take, Join
    <3>2. /\ c \in wanting' <=> e
          /\ \A d \in waiting : d \in wanting' <=> d \in wanting
      BY <2>2, <2>3, <2>5 DEF Join
    <3>3. ~Free(aheadOf[c], c \in wanting)'
      BY <2>5, <3>1, <3>2 DEF Free
    <3>4. \A d \in waiting : Free(aheadOf[d], d \in wanting)' => Free(aheadOf[d], d \in wanting)
      <4>1. \A d \in waiting : aheadOf[d] \cap wanting' = aheadOf[d] \cap wanting
        BY <3>2 DEF LineIsOrdered
      <4> QED
        BY <2>5, <3>1, <3>2, <4>1 DEF Free
    <3> QED
      BY <2>1, <3>1, <3>3, <3>4, StillFree
  <2> QED
    BY <2>1, <2>4, <2>5 DEF Take
<1>2. ASSUME NEW c \in Calls, Retake(c) PROVE NoLostWake'
  <2> USE <1>2
  <2>1. Closed = {} /\ waiting \ Closed = waiting /\ aheadOf[c] \ Closed = aheadOf[c]
    BY DEF Retake, Admit, Closed
  <2>2. /\ \A d \in waiting : aheadOf[d] \cap waiting = aheadOf[d]
        /\ wanting \cap waiting = wanting /\ woken \cap waiting = woken
    BY DEF LineIsOrdered
  <2>3. CASE /\ Free(aheadOf[c], c \in wanting) /\ Admit(c, c \in wanting)
             /\ Keep(waiting \ {c}, {})
    <3>1. /\ \A d \in waiting \ {c} : aheadOf'[d] = aheadOf[d] \ {c}
          /\ waiting' = waiting \ {c} /\ wanting' = wanting \ {c} /\ woken' = woken \ {c}
          /\ state' = state /\ waking' = waking
      BY <2>1, <2>2, <2>3 DEF Retake, Keep
    <3>2. exclusive' = NoOne => exclusive = NoOne /\ c \notin wanting /\ shared' # {}
      BY <2>3 DEF Admit
    <3>3. \A d \in waiting' : Free(aheadOf[d], d \in wanting)' => Free(aheadOf[d], d \in wanting)
      BY <3>1, <3>2 DEF Free
    <3> QED
      BY <2>1, <3>1, <3>3, StillFree
  <2>4. CASE ~Free(aheadOf[c], c \in wanting) /\ Keep(waiting, {c}) /\ UNCHANGED <<shared, exclusive>>
    <3>1. /\ \A d \in waiting : aheadOf'[d] = aheadOf[d]
          /\ waiting' = waiting /\ wanting' = wanting /\ woken' = woken \ {c}
          /\ state' = state /\ waking' = waking
      BY <2>1, <2>2, <2>4 DEF Retake, Keep
    <3>2. \A d \in waiting : Free(aheadOf[d], d \in wanting)' =>
             Free(aheadOf[d], d \in wanting) /\ d # c
      BY <2>4, <3>1 DEF Free
    <3> QED
      BY <2>1, <3>1, <3>2, StillFree
  <2> QED
    BY <2>1, <2>3, <2>4 DEF Retake
<1>3. ASSUME NEW c \in waking' PROVE NoLostWake'
  BY <1>3 DEF NoLostWake
<1>4. ASSUME NEW c \in Calls, CloseLoop(c) PROVE NoLostWake'
  BY <1>4 DEF CloseLoop, Closed
<1>5. ASSUME NEW c \in Calls, Wake(c) PROVE NoLostWake'
  BY <1>5 DEF Wake, Keep, NoLostWake
<1>6. ASSUME state' # "serving" PROVE NoLostWake'
  BY <1>6 DEF NoLostWake, Free
<1>7. ASSUME NEW c \in Calls, Release(c) PROVE NoLostWake'
  BY <1>3, <1>6, <1>7 DEF Release
<1>8. ASSUME NEW c \in Calls, Interrupt(c) \/ Wait(c) \/ WaitExpires(c) PROVE NoLostWake'
  <2>1. UNCHANGED <<slot, line, waking>> /\ (Closed' = {} => Closed = {})
    BY <1>8 DEF Interrupt, Wait, WaitExpires, Closed
  <2> QED
    BY <2>1, StillFree DEF slot, line, Free
<1>9. CASE Tick \/ UNCHANGED vars
  <2>1. UNCHANGED <<slot, waiting, aheadOf, wanting, woken, waking, pc>>
    BY <1>9 DEF Tick, vars, line
  <2> QED
    BY <2>1, StillFree DEF slot, Free, Closed
<1> HIDE CallsAssumption DEF TypeOK
<1>10. ASSUME NEW c \in Calls, \E i \in Instances, r \in {Reset, Dispose} : Queue(c, i, r)
       PROVE NoLostWake'
  BY <1>6, <1>10 DEF Queue
<1>11. ASSUME NEW c \in Calls, Drain(c) PROVE NoLostWake'
  BY <1>6, <1>11 DEF Drain
<1>12. ASSUME NEW c \in Calls, Expire(c) \/ Cancel(c) \/ Renew(c) \/ Cleaned(c)
       PROVE NoLostWake'
  BY <1>3, <1>12 DEF Expire, Cancel, ForgetWaiter, Renew, Cleaned
<1>13. ASSUME NEW c \in Calls, \E i \in Instances : Complete(c, i) PROVE NoLostWake'
  BY <1>3, <1>13 DEF Complete
<1> QED
  BY <1>1, <1>2, <1>4, <1>5, <1>7, <1>8, <1>9, <1>10, <1>11, <1>12, <1>13 DEF Next

\* A waiter whose reading of the generation is current is charged no more than the time since
\* the generation advanced (_Waiter.generation in _cleanup.py).
LEMMA BoundStep == TypeOK /\ LineIsOrdered /\ BoundIsPerCallAhead /\ [Next]_vars => BoundIsPerCallAhead'
<1> SUFFICES ASSUME TypeOK, LineIsOrdered, BoundIsPerCallAhead, [Next]_vars
             PROVE  BoundIsPerCallAhead'
  OBVIOUS
<1> USE TimeoutAssumption DEF TypeOK
<1>1. ASSUME NEW W \in SUBSET waiting, NEW fresh \in SUBSET Calls, Keep(W, fresh),
             UNCHANGED quiet
      PROVE  BoundIsPerCallAhead'
  BY <1>1 DEF Keep, BoundIsPerCallAhead
<1>2. ASSUME Advance, UNCHANGED waiting PROVE BoundIsPerCallAhead'
  BY <1>2 DEF Advance, BoundIsPerCallAhead
<1>3. ASSUME UNCHANGED <<line, quiet>> PROVE BoundIsPerCallAhead'
  BY <1>3 DEF line, BoundIsPerCallAhead
<1>4. ASSUME NEW c \in Calls, NEW e \in BOOLEAN, Take(c, e) PROVE BoundIsPerCallAhead'
  <2> DEFINE live == waiting \ Closed
  <2>1. CASE Keep(live, {})
    BY <1>1, <1>4, <2>1 DEF Take
  <2>2. CASE Join(live, c, e)
    BY <1>4, <2>2 DEF Take, Join, BoundIsPerCallAhead, LineIsOrdered
  <2> QED
    BY <1>4, <2>1, <2>2 DEF Take
<1>5. ASSUME NEW c \in Calls, \/ Retake(c) \/ Wake(c)
                             \/ \E then \in {"refused", "out"} : ForgetWaiter(c, then)
      PROVE BoundIsPerCallAhead'
  <2>1. CASE Retake(c)
    <3>1. Keep((waiting \ Closed) \ {c}, {}) \/ Keep(waiting \ Closed, {c})
      BY <2>1 DEF Retake
    <3>2. UNCHANGED quiet
      BY <2>1 DEF Retake
    <3>3. /\ (waiting \ Closed) \ {c} \in SUBSET waiting /\ waiting \ Closed \in SUBSET waiting
          /\ {} \in SUBSET Calls /\ {c} \in SUBSET Calls
      OBVIOUS
    <3>4. CASE Keep((waiting \ Closed) \ {c}, {})
      BY ONLY <1>1, <3>2, <3>3, <3>4
    <3>5. CASE Keep(waiting \ Closed, {c})
      BY ONLY <1>1, <3>2, <3>3, <3>5
    <3> QED
      BY <3>1, <3>4, <3>5
  <2>2. CASE Wake(c)
    BY <1>1, <2>2 DEF Wake
  <2>3. CASE \E then \in {"refused", "out"} : ForgetWaiter(c, then)
    BY <1>1, <2>3 DEF ForgetWaiter
  <2> QED
    BY <1>5, <2>1, <2>2, <2>3
<1>6. ASSUME NEW c \in Calls, \/ Renew(c) \/ Release(c) \/ Cleaned(c)
                             \/ \E i \in Instances : Complete(c, i)
      PROVE BoundIsPerCallAhead'
  BY <1>2, <1>6 DEF Renew, Release, Cleaned, Complete
<1>7. ASSUME NEW c \in Calls, \/ CloseLoop(c) \/ Drain(c) \/ Interrupt(c)
                             \/ Wait(c) \/ WaitExpires(c)
                             \/ \E i \in Instances, r \in {Reset, Dispose} : Queue(c, i, r)
      PROVE BoundIsPerCallAhead'
  BY <1>3, <1>7 DEF CloseLoop, Drain, Interrupt, Wait, WaitExpires, Queue
<1>8. CASE Tick
  BY <1>8 DEF Tick, BoundIsPerCallAhead
<1>9. CASE UNCHANGED vars
  BY <1>3, <1>9 DEF vars
<1> QED
  BY <1>4, <1>5, <1>6, <1>7, <1>8, <1>9 DEF Next, Expire, Cancel

\* What the waiters of an entry are promised (ExclusiveSlots in _cleanup.py), for any number of
\* calls and any bound: a waiter that could be let in is woken or about to be, unless a closed
\* loop took the wake-up; and no waiter is charged for the time of a holder that has left.
THEOREM WaitersAreServed == Spec => [](NoLostWake /\ BoundIsPerCallAhead)
<1>1. Init => NoLostWake /\ BoundIsPerCallAhead
  BY DEF Init, NoLostWake, BoundIsPerCallAhead
<1>2. /\ TypeOK /\ LineIsOrdered /\ NoLostWake /\ BoundIsPerCallAhead
      /\ [Next]_vars
      => NoLostWake' /\ BoundIsPerCallAhead'
  BY WakeStep, BoundStep
<1> QED
  BY <1>1, <1>2, LineInvariant, PTL DEF Spec

-----------------------------------------------------------------------------
(* The table implements Admission.                                           *)

\* Steps that move waiters, futures, clocks or results are none of Admission's business.
LEMMA Stutters ==
  UNCHANGED <<state, shared, exclusive, pending, done>> => UNCHANGED A!vars
BY DEF A!vars, Holders, Condemned

\* An admission by take enters a call.
LEMMA AdmitEnters ==
  ASSUME IInv, NEW c \in Calls, NEW e \in BOOLEAN, NEW ahead, Free(ahead, e), Admit(c, e),
         pc[c] # "inside", UNCHANGED <<state, pending, done>>
  PROVE  A!Enter(c, e)
<1>1. Holders' = Holders \cup {c} /\ c \notin Holders
  BY HoldersAfter DEF IInv, Free, HoldersAreInside
<1>2. (exclusive' # NoOne) = e
  BY CallsAssumption DEF Free, Admit
<1>3. e => Holders = {}
  BY DEF Free, Holders
<1>4. Condemned' = Condemned
  BY DEF Condemned
<1> QED
  BY <1>1, <1>2, <1>3, <1>4 DEF A!Enter, Free

\* What a call that releases, condemns or shuts does is what Admission lets a call inside do.
LEMMA HolderImplements ==
  ASSUME IInv, NEW c \in Calls
  PROVE  /\ \A i \in Instances, r \in {Reset, Dispose} : Queue(c, i, r) => A!Condemn(c, i)
         /\ Drain(c) => A!Shut(c)
         /\ Release(c) => A!Exit(c)
<1>1. ASSUME NEW i \in Instances, NEW r \in {Reset, Dispose}, Queue(c, i, r)
      PROVE  A!Condemn(c, i)
  <2>1. c \in Holders /\ Holders' = Holders
    BY <1>1 DEF Queue, Holders
  <2>2. Condemned' = Condemned \cup {i}
    BY <1>1 DEF Queue, Condemned, IInv, TypeOK, Ranks, Reset, Dispose
  <2>3. done = {} /\ done' = {}
    BY <1>1, <2>1 DEF Queue, IInv, OneCleaner
  <2> QED
    BY <1>1, <2>1, <2>2, <2>3 DEF A!Condemn, Queue
<1>2. ASSUME Drain(c) PROVE A!Shut(c)
  BY <1>2 DEF Drain, A!Shut, Holders, Condemned, records
<1>3. ASSUME Release(c) PROVE A!Exit(c)
  <2>1. c \in Holders /\ Holders' = Holders \ {c}
    BY <1>3, HoldersAfter DEF IInv, Release
  <2>2. exclusive' = NoOne
    BY <1>3, CallsAssumption DEF Release, IInv, Holders
  <2>3. Condemned' = Condemned /\ done' = done /\ done = {} /\ state # "cleaning"
    BY <1>3, <2>1 DEF Release, Condemned, IInv, OneCleaner
  <2>4. (shared' = {} /\ exclusive' = NoOne) <=> Holders = {c}
    BY <2>1, <2>2 DEF Holders
  <2>5. state = "serving" => Condemned = {}
    BY DEF IInv, CondemnedStaysShut
  <2>6. (state' = "serving") = (state = "serving" \/ (Holders = {c} /\ Condemned = {}))
    BY <1>3, <2>4, <2>5 DEF Release
  <2> QED
    BY <2>1, <2>2, <2>3, <2>6 DEF A!Exit
<1> QED
  BY <1>1, <1>2, <1>3

\* Records that reach their end settle what is owed, and cleaned reopens the entry.
LEMMA CleanerImplements ==
  ASSUME IInv, NEW c \in Calls
  PROVE  /\ \A i \in Instances : Complete(c, i) => A!Settle({i})
         /\ Interrupt(c) => A!Settle(claimed \ done)
         /\ Cleaned(c) => A!Reopen
<1>1. ASSUME pc[c] = "cleaning"
      PROVE  Holders = {} /\ exclusive = NoOne /\ claimed = Condemned
  BY <1>1, CallsAssumption DEF IInv, OneCleaner, Holders
<1>2. ASSUME NEW S \in SUBSET Instances, pc[c] = "cleaning", S \subseteq claimed \ done,
             done' = done \cup S, UNCHANGED <<state, shared, exclusive, pending>>
      PROVE  A!Settle(S)
  BY <1>1, <1>2 DEF A!Settle, Holders, Condemned
<1>3. ASSUME NEW i \in Instances, Complete(c, i) PROVE A!Settle({i})
  BY <1>2, <1>3 DEF Complete, slot
<1>4. ASSUME Interrupt(c) PROVE A!Settle(claimed \ done)
  <2>1. done \subseteq claimed /\ claimed \subseteq Instances
    BY DEF IInv, OneCleaner, TypeOK
  <2> QED
    BY <1>2, <1>4, <2>1 DEF Interrupt, slot
<1>5. ASSUME Cleaned(c) PROVE A!Reopen
  <2>1. Condemned \ done = {} /\ Condemned' = {}
    BY <1>5 DEF Cleaned, Condemned, Unasked
  <2> QED
    BY <1>1, <1>5, <2>1 DEF A!Reopen, Cleaned, Holders
<1> QED
  BY <1>3, <1>4, <1>5

\* Every guarded section is a step of Admission or none.
LEMMA StepImplements == IInv /\ [Next]_vars => [A!Next]_(A!vars)
<1> SUFFICES ASSUME IInv, [Next]_vars PROVE A!Next \/ UNCHANGED A!vars
  OBVIOUS
<1>1. ASSUME NEW c \in Calls, NEW e \in BOOLEAN, Take(c, e)
      PROVE  A!Next \/ UNCHANGED A!vars
  <2>1. CASE Free(waiting \ Closed, e) /\ Admit(c, e)
    BY <1>1, <2>1, AdmitEnters DEF Take, records, A!Next
  <2>2. CASE UNCHANGED <<shared, exclusive>>
    BY <1>1, <2>2, Stutters DEF Take, records
  <2> QED
    BY <1>1, <2>1, <2>2 DEF Take
<1>2. ASSUME NEW c \in Calls, Retake(c) PROVE A!Next \/ UNCHANGED A!vars
  <2>1. CASE Free(aheadOf[c] \ Closed, c \in wanting) /\ Admit(c, c \in wanting)
    <3>1. PICK e \in BOOLEAN : Free(aheadOf[c] \ Closed, e) /\ Admit(c, e)
      BY <2>1 DEF Free, Admit
    <3> QED
      BY <1>2, <3>1, AdmitEnters DEF Retake, records, A!Next
  <2>2. CASE UNCHANGED <<shared, exclusive>>
    BY <1>2, <2>2, Stutters DEF Retake, records
  <2> QED
    BY <1>2, <2>1, <2>2 DEF Retake
<1>3. ASSUME NEW c \in Calls, \/ \E i \in Instances, r \in {Reset, Dispose} : Queue(c, i, r)
                             \/ Drain(c) \/ Release(c)
      PROVE A!Next
  BY <1>3, HolderImplements DEF A!Next
<1>4. ASSUME NEW c \in Calls, (\E i \in Instances : Complete(c, i)) \/ Interrupt(c) \/ Cleaned(c)
      PROVE A!Next
  <2>1. claimed \ done \subseteq Instances
    BY DEF IInv, TypeOK
  <2> QED
    BY <1>4, <2>1, CleanerImplements DEF A!Next
<1>5. ASSUME NEW c \in Calls, \/ Expire(c) \/ Cancel(c) \/ CloseLoop(c) \/ Wake(c) \/ Renew(c)
                             \/ Wait(c) \/ WaitExpires(c)
      PROVE UNCHANGED A!vars
  BY <1>5, Stutters DEF Expire, Cancel, ForgetWaiter, CloseLoop, Wake, Renew, Wait, WaitExpires,
     slot, records
<1>6. CASE Tick \/ UNCHANGED vars
  BY <1>6, Stutters DEF Tick, vars, slot, records
<1> QED
  BY <1>1, <1>2, <1>3, <1>4, <1>5, <1>6 DEF Next

\* The admission table (ExclusiveSlots in _cleanup.py) implements Admission, for any number of
\* calls and instances: whatever queues, wake-ups, timeouts and folded records do, nobody enters
\* beside an exclusive call or while an instance is condemned, and the entry opens again only
\* once the last leaver has dealt with every record.
THEOREM TableImplementsAdmission == Spec => ImplementsAdmission
<1>1. Init => A!Init
  BY DEF Init, A!Init, Holders, Condemned, Unasked
<1> QED
  BY <1>1, InitIInv, IInvStep, StepImplements, PTL DEF Spec, ImplementsAdmission, A!Spec

=============================================================================
