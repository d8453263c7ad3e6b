---------------------------- MODULE ToolCallProofs ----------------------------
(***************************************************************************)
(* One tool call for any number of acquirers, keys and rungs: what it leaves  *)
(* when it is over, and when its hold on a sandbox may go.  The invariant that  *)
(* is inductive adds who looks after each key at every moment: an acquire in     *)
(* flight, the wrapper's pass, or the one pass its last acquire leaves behind.   *)
(***************************************************************************)
EXTENDS ToolCall, TLAPS

Running == {"cleaning", "releasing", "last"}
Cleaning == {"cleaning", "reclaiming", "disposing"}

\* Acquirers in flight for a conversation key, and passes leaving a key's entry.
InPlay(t) == pc[t] \in InFlight \cup {"retiring"}
Acquires(t, k) == pc[t] \in InFlight /\ key[t] = k
Acquired(k) == k \in Conv /\ \E t \in Tasks : Acquires(t, k)
Retires(t, k) == pc[t] = "retiring" /\ key[t] = k
IsLeft(k) == \E p \in Passes : phase[p] \in Leaving /\ at[p] = k

\* What runs has the processor, and a pass is where its acquirer is.
Scheduling ==
  /\ \A p \in Passes : phase[p] \in Running => cpu = p
  /\ \A t \in Tasks : pc[t] = "retiring" <=> phase[t] \notin {"none", "done"}
  /\ \A t \in Tasks : pc[t] \notin {"retiring", "ended"} => phase[t] = "none" /\ todo[t] = {} /\ rel[t] = {}
  /\ phase[Main] = "none" <=> ~closed
  /\ \A t \in Tasks : InPlay(t) => key[t] \in touched
  /\ \A t \in Tasks : pc[t] = "lateDispose" => closed /\ key[t] \in Own
  /\ \A p \in Passes : phase[p] = "reclaiming" => at[p] \in Conv
  /\ \A p \in Passes : phase[p] = "disposing" => at[p] \in Own

\* An acquirer's pass is the only one of its key, which nobody acquires any more.
Retiring ==
  \A t \in Tasks : pc[t] = "retiring" =>
    /\ closed /\ key[t] \in Conv /\ ~Acquired(key[t])
    /\ todo[t] \subseteq {key[t]} /\ rel[t] \subseteq {key[t]}
    /\ phase[t] # "disposing"
    /\ phase[t] \in {"reclaiming"} \cup Leaving => at[t] = key[t]
    /\ \A u \in Tasks : Retires(u, key[t]) => u = t

\* What the wrapper's pass has to clean is no other's.
MainsOwn ==
  /\ phase[Main] = "none" => todo[Main] = {} /\ Main \notin reports
  /\ \A t \in Tasks : InPlay(t) /\ key[t] \in Conv =>
       key[t] \notin todo[Main] /\ (phase[Main] = "reclaiming" => at[Main] # key[t])

\* Holds stay while somebody needs them.
Holds ==
  /\ held \subseteq entered /\ entered \subseteq touched /\ ledger \subseteq touched
  /\ \A k \in held : ~IsLeft(k)
  /\ \A t \in Tasks : pc[t] \in {"adopting", "creating"} /\ key[t] \in Conv => key[t] \in held
  /\ ~closed => held = entered
  /\ phase[Main] \in Cleaning => entered \cap todo[Main] \cap Conv \subseteq held
  /\ phase[Main] = "reclaiming" => at[Main] \in held

\* Every admission has somebody who will give it back.
Covered ==
  /\ \A t \in Tasks : pc[t] = "retiring" /\ phase[t] \in {"last", "leavingLast"} /\ key[t] \in entered =>
       key[t] \in rel[t] \/ IsLeft(key[t])
  /\ phase[Main] \in {"last", "leavingLast", "done"} =>
       \A k \in entered :
         \/ IsLeft(k) \/ Acquired(k)
         \/ phase[Main] # "done" /\ k \in rel[Main]
         \/ \E t \in Tasks : Retires(t, k)

\* A sandbox created for the call has somebody who will delete it, or has missed its delete.
OwnIsDeleted ==
  /\ exists \subseteq served
  /\ \A t \in Tasks : pc[t] = "creating" =>
       /\ t \in fresh => key[t] \notin exists
       /\ key[t] \in served
       /\ \A u \in Tasks : pc[u] = "creating" /\ key[u] = key[t] => u = t
  /\ phase[Main] \in {"none"} \cup Cleaning =>
       /\ exists \subseteq entered
       /\ \A t \in Tasks : pc[t] \in {"adopting", "creating"} => key[t] \in entered
  /\ ~closed => /\ exists \subseteq ledger
                /\ \A t \in Tasks : pc[t] \in InFlight /\ key[t] \in Own => key[t] \in ledger
  /\ closed => \A k \in exists :
       \/ k \in missed \/ k \in todo[Main]
       \/ phase[Main] = "disposing" /\ at[Main] = k
       \/ \E t \in Tasks : pc[t] = "lateDispose" /\ key[t] = k

\* A call that reaches one key only is cleaned by one pass: while that key is acquired the wrapper's
\* pass has nothing to wait for, and it is over before the acquirer's begins.
MainIsQuiet ==
  \/ phase[Main] = "done"
  \/ phase[Main] \in Running /\ todo[Main] = {} /\ Main \notin reports

SoleIsQuiet ==
  \A k \in Conv : touched = {k} /\ closed =>
    /\ Acquired(k) => MainIsQuiet
    /\ \A t \in Tasks : pc[t] = "retiring" => phase[Main] = "done"

\* Who sees to the cleanup of key k.
SeenTo(k) ==
  \/ k \in ledger /\ Acquired(k)
  \/ k \in todo[Main] /\ phase[Main] \in Cleaning
  \/ phase[Main] = "reclaiming" /\ at[Main] = k
  \/ \E t \in Tasks : /\ Retires(t, k)
                      /\ \/ phase[t] = "cleaning" /\ k \in todo[t]
                         \/ phase[t] = "reclaiming" /\ touched = {k}

\* The only key of the call, or one whose whole instance goes.
SoleOrWhole(k) == touched = {k} \/ rung[k] = "whole"

UncleanIsKnown ==
  /\ ~closed => unclean \subseteq ledger \cap held
  /\ closed => \A k \in unclean \ (owed \cup marked) : SoleOrWhole(k) => k \in held /\ SeenTo(k)

\* All of it but the types and the sandboxes created for the call.
Order ==
  /\ Scheduling /\ Retiring /\ MainsOwn /\ Holds /\ Covered /\ SoleIsQuiet /\ UncleanIsKnown

IInv == TypeOK /\ Order /\ OwnIsDeleted

-----------------------------------------------------------------------------
(* The operators, and the initial state.                                     *)

\* call.acquiring, without some of its acquirers.
LEMMA AcquiringIs ==
  \A S \in SUBSET Tasks : \A k : k \in AcquiringBut(S) <=> k \in Conv /\ \E t \in Tasks \ S : Acquires(t, k)
BY DEF AcquiringBut, Acquires

\* Nobody is left out of call.acquiring: the conversation keys that some acquirer is at.
LEMMA AcquiringAll == \A k : k \in AcquiringBut({}) <=> Acquired(k)
<1>1. {} \in SUBSET Tasks /\ Tasks \ {} = Tasks
  OBVIOUS
<1> QED
  BY <1>1, AcquiringIs DEF Acquired

\* Nothing is asked for, held or created.
LEMMA InitIInv == Init => IInv
<1> SUFFICES ASSUME Init PROVE IInv
  OBVIOUS
<1> USE DEF Init
<1>0. Tasks \subseteq Passes /\ Main \in Passes /\ Main \notin Tasks
  BY TasksAssumption DEF Passes
<1>1. TypeOK
  BY DEF TypeOK
<1>2. Scheduling /\ Retiring /\ MainsOwn
  BY <1>0 DEF Scheduling, Retiring, MainsOwn, InPlay, InFlight, Running
<1>3. Holds /\ Covered
  BY <1>0 DEF Holds, Covered, Cleaning
<1>4. OwnIsDeleted
  BY <1>0 DEF OwnIsDeleted, InFlight
<1>5. SoleIsQuiet /\ UncleanIsKnown
  BY <1>0 DEF SoleIsQuiet, UncleanIsKnown
<1> QED
  BY <1>1, <1>2, <1>3, <1>4, <1>5 DEF IInv, Order

-----------------------------------------------------------------------------
(* Acquirers, where no cleanup pass moves.                                   *)

\* A step of one acquirer leaves the others where they are.
OthersStay(t) == \A u \in Tasks : u # t => pc'[u] = pc[u] /\ key'[u] = key[u]

\* Whatever an acquirer does that begins no pass: what it asks, holds and records grows before the
\* call closes, and afterwards it only comes to its end, not as the last one on its key.
LEMMA AcquirerStep ==
  ASSUME IInv, TypeOK', NEW t \in Tasks, OthersStay(t), UNCHANGED <<pass, closed, owed, marked, rung>>,
         cpu \in {None, t},
         pc[t] \in {"idle"} \cup InFlight, pc'[t] \in {"idle", "ended"} \cup InFlight,
         pc[t] # "idle" => key'[t] = key[t],
         closed => UNCHANGED <<touched, entered, held>> /\ (pc'[t] \in InFlight => pc[t] \in InFlight),
         closed /\ pc[t] \in InFlight /\ key[t] \in Conv =>
           pc'[t] \in InFlight \/ \E u \in Tasks \ {t} : Acquires(u, key[t]),
         pc'[t] \in InFlight => key'[t] \in touched',
         pc'[t] = "lateDispose" => closed /\ key'[t] \in Own,
         pc'[t] \in {"adopting", "creating"} =>
           key'[t] \in held' \/ (pc[t] \in {"adopting", "creating"} /\ held' = held),
         touched \subseteq touched', ledger \subseteq ledger', ledger' \subseteq touched',
         held \subseteq held', held' \subseteq entered', entered' \subseteq touched',
         ~closed => held' = entered',
         \A k \in unclean' : k \in unclean \/ (k \in ledger' /\ k \in held' /\ (closed => Acquired(k)'))
  PROVE  Order'
<1>0. /\ Tasks \subseteq Passes /\ Main \in Passes /\ Main \notin Tasks /\ None \notin Passes
      /\ t \in Passes /\ Passes = Tasks \cup {Main}
      /\ UNCHANGED <<phase, todo, rel, at, reports, halted, closed, owed, marked, rung>>
      /\ Conv \cap Own = {}
  BY TasksAssumption, KeysAssumption DEF Passes, pass
<1>1. TypeOK /\ Scheduling /\ Retiring /\ MainsOwn /\ Holds /\ Covered /\ SoleIsQuiet /\ UncleanIsKnown
  BY DEF IInv, Order
<1>2. phase[t] = "none" /\ pc[t] # "retiring" /\ pc'[t] # "retiring" /\ todo[t] = {} /\ rel[t] = {}
  BY <1>0, <1>1 DEF Scheduling, InFlight
<1>3. \A u \in Tasks : pc'[u] = "retiring" => u # t /\ pc[u] = "retiring" /\ key'[u] = key[u]
  BY <1>2 DEF OthersStay
<1>4. \A u \in Tasks : pc[u] = "retiring" => u # t /\ pc'[u] = "retiring" /\ key'[u] = key[u]
  BY <1>2 DEF OthersStay
<1>5. \A k : \A u \in Tasks : Retires(u, k)' <=> Retires(u, k)
  BY <1>3, <1>4 DEF Retires
<1>6. closed => \A u \in Tasks : InPlay(u)' => InPlay(u) /\ key'[u] = key[u]
  BY <1>2 DEF OthersStay, InPlay, InFlight
<1>7. closed => \A k : Acquired(k)' <=> Acquired(k)
  <2>1. ASSUME closed, NEW k, Acquired(k)' PROVE Acquired(k)
    <3>1. PICK u \in Tasks : Acquires(u, k)'
      BY <2>1 DEF Acquired
    <3> QED
      BY <2>1, <3>1, <1>2 DEF Acquired, Acquires, OthersStay, InFlight
  <2>2. ASSUME closed, NEW k, Acquired(k) PROVE Acquired(k)'
    <3>1. PICK u \in Tasks : Acquires(u, k)
      BY <2>2 DEF Acquired
    <3>2. CASE u # t
      BY <2>2, <3>1, <3>2 DEF Acquired, Acquires, OthersStay
    <3>3. CASE u = t /\ pc'[t] \in InFlight
      BY <2>2, <3>1, <3>3 DEF Acquired, Acquires, InFlight
    <3>4. CASE u = t /\ pc'[t] \notin InFlight
      <4>1. PICK v \in Tasks \ {t} : Acquires(v, key[t])
        BY <2>2, <3>1, <3>4 DEF Acquired, Acquires
      <4> QED
        BY <2>2, <3>1, <3>4, <4>1 DEF Acquired, Acquires, OthersStay
    <3> QED
      BY <3>2, <3>3, <3>4
  <2> QED
    BY <2>1, <2>2
<1>8. \A k : IsLeft(k)' <=> IsLeft(k)
  BY <1>0 DEF IsLeft
<1>9. ~closed => \A k : ~IsLeft(k)
  <2>1. \A u \in Tasks : phase[u] \in Leaving => closed
    BY <1>1 DEF Scheduling, Retiring, Leaving
  <2> QED
    BY <1>0, <1>1, <2>1 DEF IsLeft, Scheduling, Leaving
<1>10. \A p \in Passes : phase[p] \notin Running
  BY <1>0, <1>1, <1>2 DEF Scheduling, Running
<1>11. Scheduling'
  <2>1. \A u \in Tasks : InPlay(u)' => (key[u] \in touched)' \* an acquirer's key is the call's
    BY <1>1, <1>2 DEF Scheduling, OthersStay, InPlay, InFlight
  <2>2. \A u \in Tasks : (pc[u] = "retiring" <=> phase[u] \notin {"none", "done"})'
    BY <1>0, <1>1, <1>3, <1>4 DEF Scheduling
  <2>3. \A u \in Tasks : (pc[u] \notin {"retiring", "ended"} => phase[u] = "none" /\ todo[u] = {} /\ rel[u] = {})'
    BY <1>0, <1>1, <1>2 DEF Scheduling, OthersStay
  <2>4. \A u \in Tasks : (pc[u] = "lateDispose" => closed /\ key[u] \in Own)'
    BY <1>0, <1>1 DEF Scheduling, OthersStay
  <2> QED
    BY <1>0, <1>1, <1>10, <2>1, <2>2, <2>3, <2>4 DEF Scheduling
<1>12. Retiring'
  BY <1>0, <1>1, <1>3, <1>5, <1>7 DEF Retiring
<1>13. MainsOwn'
  BY <1>0, <1>1, <1>6 DEF MainsOwn, Scheduling
<1>14. Holds'
  <2>1. \A k \in held' : ~IsLeft(k)'
    BY <1>0, <1>1, <1>8, <1>9 DEF Holds
  <2>2. \A u \in Tasks : (pc[u] \in {"adopting", "creating"} /\ key[u] \in Conv => key[u] \in held)'
    BY <1>0, <1>1, <1>2 DEF Holds, OthersStay, InFlight
  <2>3. phase[Main] # "none" => entered' = entered /\ held' = held
    BY <1>1 DEF Scheduling
  <2>4. /\ (phase[Main] \in Cleaning => entered \cap todo[Main] \cap Conv \subseteq held)'
        /\ (phase[Main] = "reclaiming" => at[Main] \in held)'
    BY <1>0, <1>1, <2>3 DEF Holds, Cleaning
  <2> QED
    BY <1>0, <2>1, <2>2, <2>4 DEF Holds
<1>15. Covered'
  <2>1. ASSUME NEW u \in Tasks, (pc[u] = "retiring" /\ phase[u] \in {"last", "leavingLast"} /\ key[u] \in entered)'
        PROVE  (key[u] \in rel[u] \/ IsLeft(key[u]))'
    <3>1. closed /\ pc[u] = "retiring" /\ key'[u] = key[u] /\ entered' = entered
      BY <1>1, <1>3, <2>1 DEF Retiring
    <3> QED
      BY <1>0, <1>1, <1>8, <2>1, <3>1 DEF Covered
  <2>2. ASSUME phase'[Main] \in {"last", "leavingLast", "done"}, NEW k \in entered'
        PROVE  (\/ IsLeft(k) \/ Acquired(k)
                \/ phase[Main] # "done" /\ k \in rel[Main]
                \/ \E u \in Tasks : Retires(u, k))'
    <3>1. closed /\ entered' = entered
      BY <1>0, <1>1, <2>2 DEF Scheduling
    <3> QED
      BY <1>0, <1>1, <1>5, <1>7, <1>8, <2>2, <3>1 DEF Covered
  <2> QED
    BY <2>1, <2>2 DEF Covered
<1>16. SoleIsQuiet'
  BY <1>0, <1>1, <1>3, <1>7 DEF SoleIsQuiet, MainIsQuiet
<1>17. UncleanIsKnown'
  <2>1. ~closed => (unclean \subseteq ledger \cap held)'
    BY <1>1 DEF UncleanIsKnown
  <2>2. ASSUME closed, NEW k \in unclean', k \notin owed' \cup marked', SoleOrWhole(k)'
        PROVE  (k \in held /\ SeenTo(k))'
    <3>1. CASE k \in unclean
      <4>1. k \in held /\ SeenTo(k)
        BY <1>0, <1>1, <2>2, <3>1 DEF UncleanIsKnown, SoleOrWhole
      <4>2. SeenTo(k)'
        BY <1>0, <1>5, <1>7, <2>2, <4>1 DEF SeenTo
      <4> QED
        BY <4>1, <4>2
    <3>2. CASE k \notin unclean
      BY <2>2, <3>2 DEF SeenTo
    <3> QED
      BY <3>1, <3>2
  <2> QED
    BY <1>0, <2>1, <2>2 DEF UncleanIsKnown
<1> QED
  BY <1>11, <1>12, <1>13, <1>14, <1>15, <1>16, <1>17 DEF Order

\* The last conversation acquire of a closed call comes back, and its pass over its key begins.
LEMMA PassBegins ==
  ASSUME IInv, TypeOK', NEW t \in Tasks, NEW l \in SUBSET Keys,
         closed, cpu \in {None, t}, pc[t] \in InFlight, key[t] \in Conv,
         \A u \in Tasks \ {t} : ~Acquires(u, key[t]),
         pc' = [pc EXCEPT ![t] = "retiring"],
         UNCHANGED <<closed, touched, key, entered, held, owed, marked, rung>>,
         ledger \subseteq l, l \subseteq ledger \cup {key[t]},
         BeginPass(t, {key[t]}, l, AcquiringBut({t})),
         unclean' \subseteq unclean \cup {key[t]},
         key[t] \in unclean' \ unclean => key[t] \in l /\ key[t] \in held
  PROVE  Order'
<1>0. /\ Tasks \subseteq Passes /\ Main \in Passes /\ Main \notin Tasks /\ None \notin Passes
      /\ t \in Passes /\ Passes = Tasks \cup {Main} /\ Main # t
      /\ UNCHANGED <<at, reports, halted, closed, touched, key, entered, held, owed, marked, rung>>
  BY TasksAssumption DEF Passes, BeginPass
<1>1. TypeOK /\ Scheduling /\ Retiring /\ MainsOwn /\ Holds /\ Covered /\ SoleIsQuiet /\ UncleanIsKnown
  BY DEF IInv, Order
<1>2. phase[t] = "none" /\ pc[t] # "retiring" /\ todo[t] = {} /\ rel[t] = {}
  BY <1>1 DEF Scheduling, InFlight
<1>3. /\ pc \in [Tasks -> {"idle", "retiring", "ended"} \cup InFlight] /\ key[t] \in Keys
      /\ phase \in [Passes -> {"none", "cleaning", "releasing", "last", "done"} \cup Awaits]
      /\ todo \in [Passes -> SUBSET Keys] /\ rel \in [Passes -> SUBSET Keys]
  BY <1>1, KeysAssumption DEF TypeOK, Keys
<1>4. pc'[t] = "retiring" /\ \A u \in Tasks : u # t => pc'[u] = pc[u]
  BY <1>3
<1>5. \A p \in Passes : p # t => phase'[p] = phase[p] /\ todo'[p] = todo[p] /\ rel'[p] = rel[p]
  BY <1>3 DEF BeginPass
<1>6. key[t] \notin AcquiringBut({t})
  BY AcquiringIs
<1>7. cpu' = t /\ ledger' \subseteq l
  BY DEF BeginPass
<1>8. \/ /\ l = {} /\ phase'[t] = "last" /\ rel'[t] = entered \cap {key[t]} /\ todo'[t] = {} /\ ledger' = {}
      \/ /\ l # {} /\ phase'[t] = "cleaning" /\ rel'[t] = {} /\ todo'[t] = l \cap {key[t]}
         /\ ledger' = l \ {key[t]}
  <2>1. CASE l = {}
    BY <1>0, <1>2, <1>3, <2>1 DEF BeginPass
  <2>2. CASE l # {}
    <3>1. (l \cap {key[t]}) \ AcquiringBut({t}) = l \cap {key[t]} /\ l \ (l \cap {key[t]}) = l \ {key[t]}
      BY <1>6
    <3>2. phase'[t] = "cleaning" /\ rel' = rel /\ todo'[t] = l \cap {key[t]} /\ ledger' = l \ {key[t]}
      BY <1>0, <1>3, <2>2, <3>1 DEF BeginPass
    <3> QED
      BY <1>2, <2>2, <3>2
  <2> QED
    BY <2>1, <2>2
<1>9. Acquired(key[t])
  BY DEF Acquired, Acquires
<1>10. \A k : Acquired(k)' <=> Acquired(k) /\ k # key[t]
  <2>1. \A u \in Tasks : \A k : Acquires(u, k)' <=> u # t /\ Acquires(u, k)
    BY <1>0, <1>4 DEF Acquires, InFlight
  <2> QED
    BY <2>1 DEF Acquired, Acquires
<1>11. \A u \in Tasks : \A k : Retires(u, k)' <=> Retires(u, k) \/ (u = t /\ k = key[t])
  BY <1>0, <1>2, <1>4 DEF Retires
<1>12. \A u \in Tasks : ~Retires(u, key[t])
  BY <1>1, <1>9 DEF Retiring, Retires
<1>13. \A k : IsLeft(k)' <=> IsLeft(k)
  <2>1. \A p \in Passes : phase'[p] \in Leaving <=> phase[p] \in Leaving
    BY <1>2, <1>5, <1>8 DEF Leaving
  <2> QED
    BY <1>0, <2>1 DEF IsLeft
<1>14. \A p \in Passes : phase[p] \notin Running
  BY <1>0, <1>1, <1>2 DEF Scheduling, Running
<1>15. key[t] \notin todo[Main] /\ (phase[Main] = "reclaiming" => at[Main] # key[t]) /\ key[t] \in touched
  BY <1>1 DEF MainsOwn, Scheduling, InPlay
<1>16. Scheduling'
  <2>1. \A p \in Passes : phase'[p] \in Running => p = t
    BY <1>5, <1>14
  <2>2. \A u \in Tasks : (pc[u] = "retiring" <=> phase[u] \notin {"none", "done"})'
    BY <1>0, <1>1, <1>4, <1>5, <1>8 DEF Scheduling
  <2>3. \A u \in Tasks : (pc[u] \notin {"retiring", "ended"} => phase[u] = "none" /\ todo[u] = {} /\ rel[u] = {})'
    BY <1>0, <1>1, <1>4, <1>5 DEF Scheduling
  <2>4. \A u \in Tasks : (InPlay(u) => key[u] \in touched)'
    BY <1>0, <1>1, <1>4, <1>15 DEF Scheduling, InPlay
  <2>5. \A p \in Passes : /\ (phase[p] = "reclaiming" => at[p] \in Conv)'
                          /\ (phase[p] = "disposing" => at[p] \in Own)'
    BY <1>0, <1>1, <1>5, <1>8 DEF Scheduling
  <2>6. \A u \in Tasks : (pc[u] = "lateDispose" => closed /\ key[u] \in Own)'
    BY <1>0, <1>1, <1>4 DEF Scheduling
  <2> QED
    BY <1>0, <1>1, <1>5, <1>7, <2>1, <2>2, <2>3, <2>4, <2>5, <2>6 DEF Scheduling
<1>17. Retiring'
  <2>1. ASSUME NEW u \in Tasks, pc'[u] = "retiring", u # t
        PROVE  /\ closed' /\ key'[u] \in Conv /\ ~Acquired(key[u])'
               /\ todo'[u] \subseteq {key'[u]} /\ rel'[u] \subseteq {key'[u]}
               /\ phase'[u] # "disposing"
               /\ phase'[u] \in {"reclaiming"} \cup Leaving => at'[u] = key'[u]
               /\ \A v \in Tasks : Retires(v, key[u])' => v = u
    <3>1. pc[u] = "retiring" /\ key[u] # key[t]
      BY <1>4, <1>12, <2>1 DEF Retires
    <3>2. key'[u] = key[u] /\ \A v \in Tasks : Retires(v, key[u])' => Retires(v, key[u])
      BY <1>0, <1>11, <3>1
    <3> QED
      BY <1>0, <1>1, <1>5, <1>10, <2>1, <3>1, <3>2 DEF Retiring
  <2>2. /\ closed' /\ key'[t] \in Conv /\ ~Acquired(key[t])'
        /\ todo'[t] \subseteq {key'[t]} /\ rel'[t] \subseteq {key'[t]}
        /\ phase'[t] # "disposing"
        /\ phase'[t] \in {"reclaiming"} \cup Leaving => at'[t] = key'[t]
        /\ \A v \in Tasks : Retires(v, key[t])' => v = t
    BY <1>0, <1>8, <1>10, <1>11, <1>12 DEF Leaving
  <2> QED
    BY <2>1, <2>2 DEF Retiring
<1>18. MainsOwn'
  <2>1. \A u \in Tasks : InPlay(u)' => InPlay(u)
    BY <1>4 DEF InPlay
  <2> QED
    BY <1>0, <1>1, <1>5, <2>1 DEF MainsOwn
<1>19. Holds'
  <2>1. ledger' \subseteq touched
    BY <1>1, <1>7, <1>15 DEF Holds
  <2>2. \A u \in Tasks : (pc[u] \in {"adopting", "creating"} /\ key[u] \in Conv => key[u] \in held)'
    BY <1>0, <1>1, <1>4 DEF Holds
  <2> QED
    BY <1>0, <1>1, <1>5, <1>13, <2>1, <2>2 DEF Holds, Cleaning
<1>20. Covered'
  <2>1. ASSUME NEW u \in Tasks, (pc[u] = "retiring" /\ phase[u] \in {"last", "leavingLast"} /\ key[u] \in entered)'
        PROVE  (key[u] \in rel[u] \/ IsLeft(key[u]))'
    BY <1>0, <1>1, <1>4, <1>5, <1>8, <1>13, <2>1 DEF Covered
  <2>2. ASSUME phase'[Main] \in {"last", "leavingLast", "done"}, NEW k \in entered'
        PROVE  (\/ IsLeft(k) \/ Acquired(k)
                \/ phase[Main] # "done" /\ k \in rel[Main]
                \/ \E u \in Tasks : Retires(u, k))'
    BY <1>0, <1>1, <1>5, <1>10, <1>11, <1>13, <2>2 DEF Covered
  <2> QED
    BY <2>1, <2>2 DEF Covered
<1>21. SoleIsQuiet'
  <2>1. ASSUME NEW k \in Conv, touched = {k} PROVE phase'[Main] = "done" /\ ~Acquired(k)'
    <3>1. k = key[t]
      BY <1>15, <2>1
    <3>2. MainIsQuiet
      BY <1>1, <1>9, <2>1, <3>1 DEF SoleIsQuiet
    <3> QED
      BY <1>0, <1>5, <1>10, <1>14, <3>1, <3>2 DEF MainIsQuiet
  <2> QED
    BY <1>0, <2>1 DEF SoleIsQuiet
<1>22. UncleanIsKnown'
  <2>1. ASSUME NEW k \in unclean', k \notin owed' \cup marked', SoleOrWhole(k)'
        PROVE  (k \in held /\ SeenTo(k))'
    <3>0. SoleOrWhole(k)
      BY <1>0, <2>1 DEF SoleOrWhole
    <3>1. k \in unclean => k \in held /\ SeenTo(k)
      BY <1>0, <1>1, <2>1, <3>0 DEF UncleanIsKnown
    <3>2. CASE k = key[t]
      <4>1. k \in held /\ k \in l
        <5>1. CASE k \in unclean
          <6>1. k \in ledger
            BY <1>12, <1>15, <3>1, <3>2, <5>1 DEF SeenTo
          <6> QED
            BY <3>1, <5>1, <6>1
        <5>2. CASE k \notin unclean
          BY <2>1, <3>2, <5>2
        <5> QED
          BY <5>1, <5>2
      <4>2. phase'[t] = "cleaning" /\ k \in todo'[t]
        BY <1>8, <3>2, <4>1
      <4> QED
        BY <1>0, <1>11, <3>2, <4>1, <4>2 DEF SeenTo
    <3>3. CASE k # key[t]
      <4>1. k \in held /\ SeenTo(k)
        BY <2>1, <3>1, <3>3
      <4>2. k \in ledger /\ Acquired(k) => k \in ledger' /\ Acquired(k)'
        BY <1>8, <1>10, <3>3
      <4>3. \A u \in Tasks : Retires(u, k) =>
              Retires(u, k)' /\ phase'[u] = phase[u] /\ todo'[u] = todo[u]
        BY <1>0, <1>2, <1>5, <1>11 DEF Retires
      <4> QED
        BY <1>0, <1>5, <4>1, <4>2, <4>3 DEF SeenTo
    <3> QED
      BY <3>2, <3>3
  <2> QED
    BY <1>0, <2>1 DEF UncleanIsKnown
<1> QED
  BY <1>16, <1>17, <1>18, <1>19, <1>20, <1>21, <1>22 DEF Order

\* An acquire of a call in flight comes to its end, with what it recorded.
LEMMA AcquireEnds ==
  ASSUME IInv, TypeOK', NEW t \in Tasks, NEW l \in SUBSET Keys, Finish(t, l),
         cpu \in {None, t}, pc[t] \in InFlight,
         UNCHANGED <<closed, touched, key, entered, held, owed, marked, rung>>,
         ledger \subseteq l, l \subseteq ledger \cup {key[t]},
         unclean' \subseteq unclean \cup {key[t]},
         key[t] \in unclean' \ unclean => key[t] \in l /\ key[t] \in held /\ key[t] \in Conv
  PROVE  Order'
<1>0. /\ pc \in [Tasks -> {"idle", "retiring", "ended"} \cup InFlight]
      /\ {t} \in SUBSET Tasks
  BY DEF IInv, TypeOK
<1>1. \A k : k \in AcquiringBut({t}) <=> k \in Conv /\ \E u \in Tasks \ {t} : Acquires(u, k)
  BY <1>0, AcquiringIs
<1>2. CASE closed /\ key[t] \in Conv \ AcquiringBut({t})
  <2>1. pc' = [pc EXCEPT ![t] = "retiring"] /\ BeginPass(t, {key[t]}, l, AcquiringBut({t}))
    BY <1>2 DEF Finish
  <2>2. \A u \in Tasks \ {t} : ~Acquires(u, key[t])
    BY <1>1, <1>2
  <2> QED
    BY <1>2, <2>1, <2>2, PassBegins
<1>3. CASE ~(closed /\ key[t] \in Conv \ AcquiringBut({t}))
  <2>1. /\ pc' = [pc EXCEPT ![t] = IF closed THEN "ended" ELSE "idle"]
        /\ ledger' = l /\ cpu' = None /\ UNCHANGED pass
    BY <1>3 DEF Finish
  <2>2. /\ pc'[t] \in {"idle", "ended"} /\ (closed <=> pc'[t] = "ended")
        /\ \A u \in Tasks : u # t => pc'[u] = pc[u]
    BY <1>0, <2>1
  <2>3. OthersStay(t) /\ pc'[t] \notin InFlight /\ pc'[t] \notin {"lateDispose", "adopting", "creating"}
    BY <2>2 DEF OthersStay, InFlight
  <2>4. Holds /\ key[t] \in touched /\ pc[t] # "idle"
    BY DEF IInv, Order, Scheduling, InPlay, InFlight
  <2>5. closed /\ key[t] \in Conv => \E u \in Tasks \ {t} : Acquires(u, key[t])
    BY <1>1, <1>3
  <2>6. closed /\ key[t] \in Conv => Acquired(key[t])'
    BY <2>2, <2>5 DEF Acquired, Acquires
  <2>7. /\ ledger \subseteq ledger' /\ ledger' \subseteq touched' /\ held' \subseteq entered'
        /\ entered' \subseteq touched' /\ (~closed => held' = entered')
    BY <2>1, <2>4 DEF Holds
  <2>8. \A k \in unclean' : k \in unclean \/ (k \in ledger' /\ k \in held' /\ (closed => Acquired(k)'))
    BY <2>1, <2>6
  <2> QED
    BY <2>1, <2>2, <2>3, <2>4, <2>5, <2>7, <2>8, AcquirerStep
<1> QED
  BY <1>2, <1>3

-----------------------------------------------------------------------------
(* The wrapper's pass begins, and what a cleanup pass does up to its last key. *)

\* Nothing is left behind yet when the call closes: all of its record is to be cleaned but what
\* an acquire in flight will bring back.
LEMMA CloseStep == ASSUME IInv, TypeOK', Close, UNCHANGED rung PROVE Order'
<1>0. /\ Tasks \subseteq Passes /\ Main \in Passes /\ Main \notin Tasks /\ None \notin Passes
      /\ Passes = Tasks \cup {Main} /\ Conv \cap Own = {}
      /\ UNCHANGED <<pc, key, touched, entered, at, reports, halted, held, unclean, owed, marked, rung>>
  BY TasksAssumption, KeysAssumption DEF Passes, Close, BeginPass, fate
<1>1. TypeOK /\ Scheduling /\ Retiring /\ MainsOwn /\ Holds /\ Covered /\ SoleIsQuiet /\ UncleanIsKnown
  BY DEF IInv, Order
<1>2. cpu = None /\ ~closed /\ closed' /\ cpu' = Main
  BY DEF Close, BeginPass
<1>3. /\ phase \in [Passes -> {"none", "cleaning", "releasing", "last", "done"} \cup Awaits]
      /\ todo \in [Passes -> SUBSET Keys] /\ rel \in [Passes -> SUBSET Keys]
      /\ ledger \subseteq Keys /\ entered \subseteq Keys
  BY <1>1 DEF TypeOK
<1>4. \A p \in Passes : p # Main => phase'[p] = phase[p] /\ todo'[p] = todo[p] /\ rel'[p] = rel[p]
  BY <1>3 DEF Close, BeginPass
<1>5. \A u \in Tasks : pc[u] # "retiring" /\ pc[u] # "lateDispose" /\ phase[u] \in {"none", "done"}
  BY <1>1, <1>2 DEF Retiring, Scheduling
<1>6. phase[Main] = "none" /\ todo[Main] = {} /\ Main \notin reports
  BY <1>1, <1>2 DEF Scheduling, MainsOwn
<1>7. \A k : k \in AcquiringBut({}) <=> Acquired(k)
  BY AcquiringAll
<1>8. \/ ledger = {} /\ phase'[Main] = "last" /\ rel'[Main] = entered /\ todo'[Main] = {} /\ ledger' = {}
      \/ /\ ledger # {} /\ phase'[Main] = "cleaning"
         /\ todo'[Main] = ledger \ AcquiringBut({}) /\ ledger' = ledger \ (ledger \ AcquiringBut({}))
  <2>1. ledger \cap Keys = ledger /\ entered \cap Keys = entered
    BY <1>3
  <2>2. BeginPass(Main, Keys, ledger, AcquiringBut({}))
    BY DEF Close
  <2>3. CASE ledger = {}
    BY <1>0, <1>3, <1>6, <2>1, <2>2, <2>3 DEF BeginPass
  <2>4. CASE ledger # {}
    BY <1>0, <1>3, <2>1, <2>2, <2>4 DEF BeginPass
  <2> QED
    BY <2>3, <2>4
<1>9. \A k : Acquired(k)' <=> Acquired(k)
  BY <1>0 DEF Acquired, Acquires
<1>10. \A k : ~IsLeft(k)'
  BY <1>0, <1>4, <1>5, <1>8 DEF IsLeft, Leaving
<1>11. \A u \in Tasks : InPlay(u) /\ key[u] \in Conv => Acquired(key[u])
  BY <1>5 DEF InPlay, Acquired, Acquires
<1>12. Scheduling'
  <2>1. \A p \in Passes : phase'[p] \in Running => p = Main
    BY <1>0, <1>4, <1>5 DEF Running
  <2>2. \A u \in Tasks : InPlay(u)' <=> InPlay(u)
    BY <1>0 DEF InPlay
  <2> QED
    BY <1>0, <1>1, <1>2, <1>4, <1>5, <1>8, <2>1, <2>2 DEF Scheduling
<1>13. Retiring'
  BY <1>0, <1>5 DEF Retiring
<1>14. MainsOwn'
  <2>1. \A u \in Tasks : InPlay(u)' <=> InPlay(u)
    BY <1>0 DEF InPlay
  <2> QED
    BY <1>0, <1>7, <1>8, <1>11, <2>1 DEF MainsOwn
<1>15. Holds'
  BY <1>0, <1>1, <1>2, <1>8, <1>10 DEF Holds, Cleaning
<1>16. Covered'
  BY <1>0, <1>5, <1>8 DEF Covered
<1>17. SoleIsQuiet'
  <2>1. ASSUME NEW k \in Conv, touched = {k}, Acquired(k) PROVE MainIsQuiet'
    BY <1>0, <1>1, <1>6, <1>7, <1>8, <2>1 DEF MainIsQuiet, Running, Holds
  <2> QED
    BY <1>0, <1>5, <1>9, <2>1 DEF SoleIsQuiet
<1>18. UncleanIsKnown'
  <2>1. ASSUME NEW k \in unclean PROVE (k \in held /\ SeenTo(k))'
    <3>1. k \in ledger /\ k \in held
      BY <1>1, <1>2, <2>1 DEF UncleanIsKnown
    <3>2. CASE Acquired(k)
      BY <1>0, <1>7, <1>8, <1>9, <3>1, <3>2 DEF SeenTo
    <3>3. CASE ~Acquired(k)
      BY <1>0, <1>7, <1>8, <3>1, <3>3 DEF SeenTo, Cleaning
    <3> QED
      BY <3>2, <3>3
  <2> QED
    BY <1>0, <1>2, <2>1 DEF UncleanIsKnown
<1> QED
  BY <1>12, <1>13, <1>14, <1>15, <1>16, <1>17, <1>18 DEF Order

\* The keys a pass gives back, and what the pass has in hand to clean.
Scope(p) == IF p = Main THEN Keys ELSE {key[p]}
InHand(p, k) == k \in todo[p] \/ (phase[p] = "reclaiming" /\ at[p] = k)

\* One step of a pass that cleans: it takes from what it has to clean, or is through and looks at
\* what to give back; what it drops is clean, queued or marked.
LEMMA CleaningStep ==
  ASSUME IInv, TypeOK', NEW p \in Passes,
         UNCHANGED <<asks, records, held, rung>>,
         cpu \in {None, p}, phase[p] \in Cleaning,
         phase'[p] \in Cleaning \cup {"releasing", "last"}, phase'[p] \in Running => cpu' = p,
         \A q \in Passes : q # p => phase'[q] = phase[q] /\ todo'[q] = todo[q] /\ rel'[q] = rel[q] /\ at'[q] = at[q],
         reports \subseteq reports', reports' \subseteq reports \cup {p},
         todo'[p] \subseteq todo[p],
         phase'[p] \in {"releasing", "last"} => rel'[p] = entered \cap Scope(p),
         phase'[p] \in Cleaning => rel'[p] = rel[p],
         phase'[p] = "reclaiming" => at'[p] \in todo[p] \cap Conv \cap entered,
         phase'[p] = "disposing" => at'[p] \in todo[p] \cap Own,
         phase[p] = "cleaning" /\ todo[p] = {} => phase'[p] = "releasing" /\ reports' = reports,
         unclean' \subseteq unclean, owed \subseteq owed', marked \subseteq marked',
         \A k \in unclean' \ (owed' \cup marked') : k \in held =>
           /\ p = Main /\ InHand(p, k) => phase'[p] \in Cleaning /\ InHand(p, k)'
           /\ p \in Tasks /\ Retires(p, k) /\ SoleOrWhole(k) /\ InHand(p, k) =>
                \/ phase'[p] = "cleaning" /\ k \in todo'[p]
                \/ phase'[p] = "reclaiming" /\ touched = {k}
  PROVE  Order'
<1>0. /\ Tasks \subseteq Passes /\ Main \in Passes /\ Main \notin Tasks /\ None \notin Passes
      /\ Passes = Tasks \cup {Main} /\ Conv \cap Own = {}
      /\ UNCHANGED <<closed, pc, key, touched, entered, ledger, held, rung>>
  BY TasksAssumption, KeysAssumption DEF Passes, asks, records
<1>1. TypeOK /\ Scheduling /\ Retiring /\ MainsOwn /\ Holds /\ Covered /\ SoleIsQuiet /\ UncleanIsKnown
  BY DEF IInv, Order
<1>2. /\ unclean \subseteq Conv /\ entered \subseteq Keys
  BY <1>1 DEF TypeOK
<1>3. /\ phase[p] \notin {"none", "done"} \cup Leaving /\ phase'[p] \notin {"none", "done"} \cup Leaving
      /\ (p \in Tasks => pc[p] = "retiring" /\ p # Main)
  BY <1>0, <1>1 DEF Cleaning, Leaving, Scheduling
<1>4. closed
  BY <1>0, <1>1, <1>3 DEF Scheduling, Retiring
<1>5. /\ \A k : Acquired(k)' <=> Acquired(k)
      /\ \A u \in Tasks : \A k : Retires(u, k)' <=> Retires(u, k)
      /\ \A u \in Tasks : InPlay(u)' <=> InPlay(u)
  BY <1>0 DEF Acquired, Acquires, Retires, InPlay
<1>6. \A k : IsLeft(k)' <=> IsLeft(k)
  BY <1>3 DEF IsLeft
<1>7. Scheduling'
  <2>1. \A q \in Passes : phase'[q] \in Running => cpu' = q
    BY <1>0, <1>1 DEF Scheduling
  <2>2. \A u \in Tasks : (pc[u] = "retiring" <=> phase[u] \notin {"none", "done"})'
    BY <1>0, <1>1, <1>3 DEF Scheduling
  <2>3. \A u \in Tasks : (pc[u] \notin {"retiring", "ended"} => phase[u] = "none" /\ todo[u] = {} /\ rel[u] = {})'
    BY <1>0, <1>1, <1>3 DEF Scheduling
  <2>4. \A q \in Passes : /\ (phase[q] = "reclaiming" => at[q] \in Conv)'
                          /\ (phase[q] = "disposing" => at[q] \in Own)'
    BY <1>1 DEF Scheduling
  <2>5. (phase[Main] = "none" <=> ~closed)'
    BY <1>0, <1>1, <1>3 DEF Scheduling
  <2> QED
    BY <1>0, <1>1, <1>5, <2>1, <2>2, <2>3, <2>4, <2>5 DEF Scheduling
<1>8. Retiring'
  <2>1. ASSUME NEW u \in Tasks, pc[u] = "retiring"
        PROVE  /\ todo'[u] \subseteq {key[u]} /\ rel'[u] \subseteq {key[u]}
               /\ phase'[u] # "disposing"
               /\ phase'[u] \in {"reclaiming"} \cup Leaving => at'[u] = key[u]
    <3>1. /\ todo[u] \subseteq {key[u]} /\ rel[u] \subseteq {key[u]} /\ key[u] \in Conv
          /\ phase[u] # "disposing"
          /\ phase[u] \in {"reclaiming"} \cup Leaving => at[u] = key[u]
      BY <1>1, <2>1 DEF Retiring
    <3>2. CASE u # p
      BY <1>0, <3>1, <3>2
    <3>3. CASE u = p
      BY <1>0, <1>3, <3>1, <3>3 DEF Scope
    <3> QED
      BY <3>2, <3>3
  <2> QED
    BY <1>0, <1>1, <1>5, <2>1 DEF Retiring
<1>9. MainsOwn'
  <2>1. phase'[Main] # "none"
    BY <1>0, <1>1, <1>3, <1>4 DEF Scheduling
  <2>2. todo'[Main] \subseteq todo[Main] /\ (phase'[Main] = "reclaiming" =>
          at'[Main] \in todo[Main] \/ (phase[Main] = "reclaiming" /\ at'[Main] = at[Main]))
    BY <1>0
  <2> QED
    BY <1>0, <1>1, <1>5, <2>1, <2>2 DEF MainsOwn
<1>10. Holds'
  <2>1. phase'[Main] \in Cleaning => entered \cap todo'[Main] \cap Conv \subseteq held
    BY <1>0, <1>1 DEF Holds
  <2>2. phase'[Main] = "reclaiming" => at'[Main] \in held
    BY <1>0, <1>1 DEF Holds
  <2> QED
    BY <1>0, <1>1, <1>4, <1>6, <2>1, <2>2 DEF Holds
<1>11. Covered'
  <2>1. ASSUME NEW u \in Tasks, pc[u] = "retiring", phase'[u] \in {"last", "leavingLast"}, key[u] \in entered
        PROVE  key[u] \in rel'[u] \/ IsLeft(key[u])
    <3>1. CASE u # p
      BY <1>0, <1>1, <2>1, <3>1 DEF Covered
    <3>2. CASE u = p
      BY <1>0, <1>3, <2>1, <3>2 DEF Scope, Leaving
    <3> QED
      BY <3>1, <3>2
  <2>2. ASSUME phase'[Main] \in {"last", "leavingLast", "done"}, NEW k \in entered
        PROVE  \/ IsLeft(k) \/ Acquired(k)
               \/ phase'[Main] # "done" /\ k \in rel'[Main]
               \/ \E u \in Tasks : Retires(u, k)
    <3>1. CASE Main # p
      BY <1>0, <1>1, <2>2, <3>1 DEF Covered
    <3>2. CASE Main = p
      BY <1>2, <1>3, <2>2, <3>2 DEF Scope, Leaving
    <3> QED
      BY <3>1, <3>2
  <2> QED
    BY <1>0, <1>5, <1>6, <2>1, <2>2 DEF Covered
<1>12. SoleIsQuiet'
  <2>1. ASSUME NEW k \in Conv, touched = {k}, Acquired(k) PROVE MainIsQuiet'
    <3>1. MainIsQuiet
      BY <1>1, <1>4, <2>1 DEF SoleIsQuiet
    <3>2. CASE Main # p
      BY <1>0, <3>1, <3>2 DEF MainIsQuiet
    <3>3. CASE Main = p
      <4>1. phase[Main] = "cleaning" /\ todo[Main] = {} /\ Main \notin reports
        BY <1>3, <3>1, <3>3 DEF MainIsQuiet, Running, Cleaning
      <4> QED
        BY <3>3, <4>1 DEF MainIsQuiet, Running
    <3> QED
      BY <3>2, <3>3
  <2>2. ASSUME NEW k \in Conv, touched = {k}, NEW u \in Tasks, pc[u] = "retiring" PROVE phase'[Main] = "done"
    BY <1>0, <1>1, <1>3, <1>4, <2>2 DEF SoleIsQuiet
  <2> QED
    BY <1>0, <1>5, <2>1, <2>2 DEF SoleIsQuiet
<1>13. UncleanIsKnown'
  <2>1. ASSUME NEW k \in unclean', k \notin owed' \cup marked', SoleOrWhole(k)'
        PROVE  (k \in held /\ SeenTo(k))'
    <3>1. k \in held /\ SeenTo(k) /\ SoleOrWhole(k)
      BY <1>0, <1>1, <1>4, <2>1 DEF UncleanIsKnown, SoleOrWhole
    <3>2. /\ p = Main /\ InHand(p, k) => phase'[p] \in Cleaning /\ InHand(p, k)'
          /\ p \in Tasks /\ Retires(p, k) /\ InHand(p, k) =>
                \/ phase'[p] = "cleaning" /\ k \in todo'[p]
                \/ phase'[p] = "reclaiming" /\ touched = {k}
      BY <2>1, <3>1
    <3>3. CASE k \in ledger /\ Acquired(k)
      BY <1>0, <1>5, <3>1, <3>3 DEF SeenTo
    <3>4. CASE (k \in todo[Main] /\ phase[Main] \in Cleaning) \/ (phase[Main] = "reclaiming" /\ at[Main] = k)
      <4>1. phase'[Main] \in Cleaning /\ InHand(Main, k)'
        BY <1>0, <3>2, <3>4 DEF InHand, Cleaning
      <4> QED
        BY <1>0, <3>1, <4>1 DEF SeenTo, InHand, Cleaning
    <3>5. CASE \E u \in Tasks : /\ Retires(u, k)
                      /\ \/ phase[u] = "cleaning" /\ k \in todo[u]
                         \/ phase[u] = "reclaiming" /\ touched = {k}
      <4>1. PICK u \in Tasks : /\ Retires(u, k)
                      /\ \/ phase[u] = "cleaning" /\ k \in todo[u]
                         \/ phase[u] = "reclaiming" /\ touched = {k}
        BY <3>5
      <4>2. CASE u # p
        BY <1>0, <1>5, <3>1, <4>1, <4>2 DEF SeenTo
      <4>3. CASE u = p
        <5>1. InHand(p, k)
          BY <1>1, <4>1, <4>3 DEF InHand, Retires, Retiring
        <5> QED
          BY <1>0, <1>5, <3>1, <3>2, <4>1, <4>3, <5>1 DEF SeenTo
      <4> QED
        BY <4>2, <4>3
    <3> QED
      BY <3>1, <3>3, <3>4, <3>5 DEF SeenTo
  <2> QED
    BY <1>0, <1>4, <2>1 DEF UncleanIsKnown
<1> QED
  BY <1>7, <1>8, <1>9, <1>10, <1>11, <1>12, <1>13 DEF Order

-----------------------------------------------------------------------------
(* Giving back.                                                              *)

\* One step of a pass that gives back: what is released is nobody's in flight, and an entry that
\* is being left is no longer held.
LEMMA GivingStep ==
  ASSUME IInv, TypeOK', NEW p \in Passes,
         UNCHANGED <<asks, ledger, unclean, todo, reports, rung>>,
         cpu \in {None, p}, phase[p] \in Giving \cup Leaving \cup {"reporting"},
         phase'[p] \in Giving \cup Leaving \cup {"reporting"}, phase'[p] \in Giving => cpu' = p,
         \A q \in Passes : q # p => phase'[q] = phase[q] /\ rel'[q] = rel[q] /\ at'[q] = at[q],
         rel'[p] \subseteq rel[p] \/ rel'[p] = entered \cap Scope(p),
         held' \subseteq held, held' \subseteq entered', entered' \subseteq entered,
         phase[p] \in Leaving => phase'[p] \in Giving /\ at[p] \notin entered',
         phase'[p] \in Leaving => at'[p] \in (rel[p] \cap held) \ held' /\ ~Acquired(at'[p]),
         \A k \in held \ held' : k \in rel[p] /\ ~Acquired(k),
         \A k \in entered \ entered' : (phase[p] \in Leaving /\ at[p] = k) \/ (k \in rel[p] /\ ~Acquired(k)),
         owed \cup marked \subseteq owed' \cup marked',
         phase'[p] \in {"last", "leavingLast"} =>
           \/ rel'[p] = entered \cap Scope(p)
           \/ /\ phase[p] \in {"last", "leavingLast"}
              /\ \A k \in rel[p] \cap entered' :
                   k \in rel'[p] \/ (phase'[p] \in Leaving /\ at'[p] = k) \/ Acquired(k),
         phase'[p] = "reporting" => p \in reports
  PROVE  Order'
<1>0. /\ Tasks \subseteq Passes /\ Main \in Passes /\ Main \notin Tasks /\ None \notin Passes
      /\ Passes = Tasks \cup {Main} /\ Conv \cap Own = {}
      /\ UNCHANGED <<closed, pc, key, touched, ledger, unclean, todo, reports, rung>>
  BY TasksAssumption, KeysAssumption DEF Passes, asks
<1>1. TypeOK /\ Scheduling /\ Retiring /\ MainsOwn /\ Holds /\ Covered /\ SoleIsQuiet /\ UncleanIsKnown
  BY DEF IInv, Order
<1>2. unclean \subseteq Conv /\ entered \subseteq Keys
  BY <1>1 DEF TypeOK
<1>3. /\ phase[p] \notin {"none", "done"} \cup Cleaning /\ phase'[p] \notin {"none", "done"} \cup Cleaning
      /\ (p \in Tasks => pc[p] = "retiring" /\ p # Main)
  BY <1>0, <1>1 DEF Cleaning, Giving, Leaving, Scheduling
<1>4. closed
  BY <1>0, <1>1, <1>3 DEF Scheduling, Retiring
<1>5. /\ \A k : Acquired(k)' <=> Acquired(k)
      /\ \A u \in Tasks : \A k : Retires(u, k)' <=> Retires(u, k)
      /\ \A u \in Tasks : InPlay(u)' <=> InPlay(u)
  BY <1>0 DEF Acquired, Acquires, Retires, InPlay
<1>6. \A k : /\ IsLeft(k) => IsLeft(k)' \/ (phase[p] \in Leaving /\ at[p] = k)
             /\ IsLeft(k)' => IsLeft(k) \/ (phase'[p] \in Leaving /\ at'[p] = k)
             /\ phase'[p] \in Leaving /\ at'[p] = k => IsLeft(k)'
  BY DEF IsLeft
<1>7. p \in Tasks => /\ rel[p] \subseteq {key[p]} /\ ~Acquired(key[p]) /\ key[p] \in Conv
                     /\ Retires(p, key[p])
                     /\ (phase[p] \in Leaving => at[p] = key[p])
  BY <1>1, <1>3 DEF Retiring, Retires
<1>8. p \in Tasks => \A k : k \in entered \ entered' \/ k \in held \ held' => k = key[p]
  BY <1>7
<1>9. Scheduling'
  <2>1. \A q \in Passes : phase'[q] \in Running => cpu' = q
    BY <1>0, <1>1, <1>3 DEF Scheduling, Running, Giving, Leaving
  <2>2. \A u \in Tasks : (pc[u] = "retiring" <=> phase[u] \notin {"none", "done"})'
    BY <1>0, <1>1, <1>3 DEF Scheduling
  <2>3. \A u \in Tasks : (pc[u] \notin {"retiring", "ended"} => phase[u] = "none" /\ todo[u] = {} /\ rel[u] = {})'
    BY <1>0, <1>1, <1>3 DEF Scheduling
  <2>4. \A q \in Passes : /\ (phase[q] = "reclaiming" => at[q] \in Conv)'
                          /\ (phase[q] = "disposing" => at[q] \in Own)'
    BY <1>1, <1>3 DEF Scheduling, Cleaning
  <2>5. (phase[Main] = "none" <=> ~closed)'
    BY <1>0, <1>1, <1>3 DEF Scheduling
  <2> QED
    BY <1>0, <1>1, <1>5, <2>1, <2>2, <2>3, <2>4, <2>5 DEF Scheduling
<1>10. Retiring'
  <2>1. ASSUME NEW u \in Tasks, pc[u] = "retiring"
        PROVE  /\ rel'[u] \subseteq {key[u]}
               /\ phase'[u] # "disposing"
               /\ phase'[u] \in {"reclaiming"} \cup Leaving => at'[u] = key[u]
    <3>1. CASE u # p
      BY <1>0, <1>1, <2>1, <3>1 DEF Retiring
    <3>2. CASE u = p
      BY <1>0, <1>3, <1>7, <2>1, <3>2 DEF Scope, Cleaning
    <3> QED
      BY <3>1, <3>2
  <2> QED
    BY <1>0, <1>1, <1>5, <2>1 DEF Retiring
<1>11. MainsOwn'
  <2>1. phase'[Main] # "none"
    BY <1>0, <1>1, <1>3, <1>4 DEF Scheduling
  <2>2. phase'[Main] = "reclaiming" => phase[Main] = "reclaiming" /\ at'[Main] = at[Main]
    BY <1>0, <1>3 DEF Cleaning
  <2> QED
    BY <1>0, <1>1, <1>5, <2>1, <2>2 DEF MainsOwn
<1>12. phase'[Main] \in Cleaning => p \in Tasks /\ phase'[Main] = phase[Main] /\ at'[Main] = at[Main]
  BY <1>0, <1>3
<1>13. p \in Tasks => key[p] \notin todo[Main] /\ (phase[Main] = "reclaiming" => at[Main] # key[p])
  BY <1>1, <1>3, <1>7 DEF MainsOwn, InPlay
<1>14. Holds'
  <2>1. \A k \in held' : ~IsLeft(k)'
    BY <1>1, <1>6 DEF Holds
  <2>2. ASSUME NEW u \in Tasks, pc[u] \in {"adopting", "creating"}, key[u] \in Conv PROVE key[u] \in held'
    <3>1. key[u] \in held /\ Acquired(key[u])
      BY <1>1, <2>2 DEF Holds, Acquired, Acquires, InFlight
    <3> QED
      BY <3>1
  <2>3. phase'[Main] \in Cleaning => entered' \cap todo[Main] \cap Conv \subseteq held'
    BY <1>1, <1>8, <1>12, <1>13 DEF Holds
  <2>4. phase'[Main] = "reclaiming" => at'[Main] \in held'
    BY <1>1, <1>8, <1>12, <1>13 DEF Holds, Cleaning
  <2> QED
    BY <1>0, <1>1, <1>4, <2>1, <2>2, <2>3, <2>4 DEF Holds
<1>15. Covered'
  <2>1. ASSUME NEW u \in Tasks, pc[u] = "retiring", phase'[u] \in {"last", "leavingLast"}, key[u] \in entered'
        PROVE  key[u] \in rel'[u] \/ IsLeft(key[u])'
    <3>1. CASE u # p
      <4>1. key[u] \in rel[u] \/ IsLeft(key[u])
        BY <1>0, <1>1, <2>1, <3>1 DEF Covered
      <4> QED
        BY <1>0, <1>6, <2>1, <3>1, <4>1
    <3>2. CASE u = p
      <4>1. CASE rel'[p] = entered \cap Scope(p)
        BY <1>3, <2>1, <3>2, <4>1 DEF Scope
      <4>2. CASE /\ phase[p] \in {"last", "leavingLast"}
                 /\ \A k \in rel[p] \cap entered' :
                      k \in rel'[p] \/ (phase'[p] \in Leaving /\ at'[p] = k) \/ Acquired(k)
        <5>1. key[u] \in rel[u] \/ IsLeft(key[u])
          BY <1>0, <1>1, <2>1, <3>2, <4>2 DEF Covered
        <5>2. ~Acquired(key[p]) /\ key[p] \in entered'
          BY <1>7, <2>1, <3>2
        <5>3. key[p] \in rel[p] =>
                key[p] \in rel'[p] \/ (phase'[p] \in Leaving /\ at'[p] = key[p]) \/ Acquired(key[p])
          BY <4>2, <5>2
        <5>4. IsLeft(key[p]) => IsLeft(key[p])'
          BY <1>0, <1>6, <5>2
        <5>5. key[p] \in rel'[p] \/ IsLeft(key[p])'
          BY <1>0, <1>6, <3>2, <5>1, <5>2, <5>3, <5>4
        <5> QED
          BY <3>2, <5>5, <1>0
      <4> QED
        BY <2>1, <3>2, <4>1, <4>2
    <3> QED
      BY <3>1, <3>2
  <2>2. ASSUME phase'[Main] \in {"last", "leavingLast", "done"}, NEW k \in entered'
        PROVE  \/ IsLeft(k)' \/ Acquired(k)
               \/ phase'[Main] # "done" /\ k \in rel'[Main]
               \/ \E u \in Tasks : Retires(u, k)
    <3>1. CASE Main # p
      <4>1. \/ IsLeft(k) \/ Acquired(k)
            \/ phase[Main] # "done" /\ k \in rel[Main]
            \/ \E u \in Tasks : Retires(u, k)
        BY <1>0, <1>1, <2>2, <3>1 DEF Covered
      <4> QED
        BY <1>0, <1>6, <2>2, <3>1, <4>1
    <3>2. CASE Main = p
      <4>1. CASE rel'[p] = entered \cap Scope(p)
        BY <1>2, <1>3, <2>2, <3>2, <4>1 DEF Scope
      <4>2. CASE /\ phase[p] \in {"last", "leavingLast"}
                 /\ \A j \in rel[p] \cap entered' :
                      j \in rel'[p] \/ (phase'[p] \in Leaving /\ at'[p] = j) \/ Acquired(j)
        <5>1. \/ IsLeft(k) \/ Acquired(k)
              \/ phase[Main] # "done" /\ k \in rel[Main]
              \/ \E u \in Tasks : Retires(u, k)
          BY <1>1, <2>2, <3>2, <4>2 DEF Covered
        <5> QED
          BY <1>3, <1>6, <2>2, <3>2, <4>2, <5>1
      <4> QED
        BY <1>3, <2>2, <3>2, <4>1, <4>2
    <3> QED
      BY <3>1, <3>2
  <2> QED
    BY <1>0, <1>5, <2>1, <2>2 DEF Covered
<1>16. SoleIsQuiet'
  <2>1. ASSUME NEW k \in Conv, touched = {k}, Acquired(k) PROVE MainIsQuiet'
    <3>1. MainIsQuiet
      BY <1>1, <1>4, <2>1 DEF SoleIsQuiet
    <3>2. CASE Main # p
      BY <1>0, <3>1, <3>2 DEF MainIsQuiet
    <3>3. CASE Main = p
      <4>1. todo[Main] = {} /\ Main \notin reports
        BY <1>3, <3>1, <3>3 DEF MainIsQuiet
      <4>2. phase'[Main] \notin Leaving
        BY <1>1, <2>1, <3>3 DEF Holds
      <4>3. phase'[Main] \in Running
        BY <3>3, <4>1, <4>2 DEF Running, Giving
      <4> QED
        BY <1>0, <4>1, <4>3 DEF MainIsQuiet
    <3> QED
      BY <3>2, <3>3
  <2>2. ASSUME NEW k \in Conv, touched = {k}, NEW u \in Tasks, pc[u] = "retiring" PROVE phase'[Main] = "done"
    BY <1>0, <1>1, <1>3, <1>4, <2>2 DEF SoleIsQuiet
  <2> QED
    BY <1>0, <1>5, <2>1, <2>2 DEF SoleIsQuiet
<1>17. UncleanIsKnown'
  <2>1. ASSUME NEW k \in unclean, k \notin owed' \cup marked', SoleOrWhole(k)'
        PROVE  (k \in held /\ SeenTo(k))'
    <3>1. k \in held /\ SeenTo(k) /\ SoleOrWhole(k) /\ k \in Conv
      BY <1>0, <1>1, <1>2, <1>4, <2>1 DEF UncleanIsKnown, SoleOrWhole
    <3>2. CASE k \in ledger /\ Acquired(k)
      BY <1>0, <1>5, <3>1, <3>2 DEF SeenTo
    <3>3. CASE (k \in todo[Main] /\ phase[Main] \in Cleaning) \/ (phase[Main] = "reclaiming" /\ at[Main] = k)
      <4>1. p \in Tasks /\ phase'[Main] = phase[Main] /\ at'[Main] = at[Main]
        BY <1>0, <1>3, <3>3 DEF Cleaning
      <4>2. k # key[p]
        BY <1>13, <3>3, <4>1
      <4>3. k \in held'
        BY <1>8, <3>1, <4>1, <4>2
      <4>4. SeenTo(k)'
        BY <1>0, <3>3, <4>1 DEF SeenTo
      <4> QED
        BY <4>3, <4>4
    <3>4. CASE \E u \in Tasks : /\ Retires(u, k)
                      /\ \/ phase[u] = "cleaning" /\ k \in todo[u]
                         \/ phase[u] = "reclaiming" /\ touched = {k}
      <4>1. PICK u \in Tasks : /\ Retires(u, k)
                      /\ \/ phase[u] = "cleaning" /\ k \in todo[u]
                         \/ phase[u] = "reclaiming" /\ touched = {k}
        BY <3>4
      <4>2. u # p /\ phase'[u] = phase[u]
        BY <1>0, <1>3, <4>1 DEF Cleaning
      <4>3. SeenTo(k)'
        BY <1>0, <1>5, <4>1, <4>2 DEF SeenTo
      <4>4. CASE p \in Tasks
        <5>1. k # key[p]
          BY <1>1, <1>7, <4>1, <4>2, <4>4 DEF Retiring, Retires
        <5> QED
          BY <1>8, <3>1, <4>3, <4>4, <5>1
      <4>5. CASE p = Main
        <5>1. phase[u] # "reclaiming"
          BY <1>1, <1>3, <1>4, <3>1, <4>1, <4>5 DEF SoleIsQuiet, Retires
        <5>2. cpu = u
          BY <1>0, <1>1, <4>1, <5>1 DEF Scheduling, Running
        <5> QED
          BY <1>0, <4>2, <5>2
      <4> QED
        BY <1>0, <4>4, <4>5
    <3> QED
      BY <3>1, <3>2, <3>3, <3>4 DEF SeenTo
  <2> QED
    BY <1>0, <1>4, <2>1 DEF UncleanIsKnown
<1> QED
  BY <1>9, <1>10, <1>11, <1>14, <1>15, <1>16, <1>17 DEF Order

\* A pass is over once nothing is left to give back.
LEMMA PassEndsStep == ASSUME IInv, TypeOK', NEW p \in Passes, PassEnds(p), UNCHANGED rung PROVE Order'
<1>0. /\ Tasks \subseteq Passes /\ Main \in Passes /\ Main \notin Tasks /\ None \notin Passes
      /\ Passes = Tasks \cup {Main} /\ Conv \cap Own = {}
      /\ UNCHANGED <<closed, touched, key, entered, ledger, held, unclean, owed, marked, todo, rel, at,
                     reports, rung>>
      /\ phase[p] = "last" /\ rel[p] = {} /\ cpu = p /\ cpu' = None
  BY TasksAssumption, KeysAssumption DEF Passes, PassEnds, records, fate
<1>1. TypeOK /\ Scheduling /\ Retiring /\ MainsOwn /\ Holds /\ Covered /\ SoleIsQuiet /\ UncleanIsKnown
  BY DEF IInv, Order
<1>2. /\ pc \in [Tasks -> {"idle", "retiring", "ended"} \cup InFlight]
      /\ phase \in [Passes -> {"none", "cleaning", "releasing", "last", "done"} \cup Awaits]
  BY <1>1 DEF TypeOK
<1>3. /\ phase'[p] = "done" /\ \A q \in Passes : q # p => phase'[q] = phase[q]
      /\ (p \in Tasks => pc'[p] = "ended") /\ \A u \in Tasks : u # p => pc'[u] = pc[u]
  BY <1>0, <1>2 DEF PassEnds, Goes
<1>4. p \in Tasks => pc[p] = "retiring" /\ p # Main
  BY <1>0, <1>1 DEF Scheduling
<1>5. closed
  BY <1>0, <1>1, <1>4 DEF Scheduling, Retiring
<1>6. \A u \in Tasks : pc'[u] = pc[u] \/ (pc[u] = "retiring" /\ pc'[u] = "ended" /\ u = p)
  BY <1>3, <1>4
<1>7. /\ \A k : Acquired(k)' <=> Acquired(k)
      /\ \A u \in Tasks : \A k : Retires(u, k)' <=> Retires(u, k) /\ u # p
      /\ \A u \in Tasks : InPlay(u)' => InPlay(u)
  BY <1>0, <1>3, <1>4, <1>6 DEF Acquired, Acquires, Retires, InPlay, InFlight
<1>8. \A k : IsLeft(k)' <=> IsLeft(k)
  BY <1>0, <1>3 DEF IsLeft, Leaving
<1>9. Scheduling'
  <2>1. \A q \in Passes : phase'[q] \notin Running
    BY <1>0, <1>1, <1>3 DEF Scheduling, Running
  <2>2. \A u \in Tasks : (pc[u] = "retiring" <=> phase[u] \notin {"none", "done"})'
    BY <1>0, <1>1, <1>3 DEF Scheduling
  <2>3. \A u \in Tasks : (pc[u] \notin {"retiring", "ended"} => phase[u] = "none" /\ todo[u] = {} /\ rel[u] = {})'
    BY <1>0, <1>1, <1>3 DEF Scheduling
  <2>4. \A q \in Passes : /\ (phase[q] = "reclaiming" => at[q] \in Conv)'
                          /\ (phase[q] = "disposing" => at[q] \in Own)'
    BY <1>0, <1>1, <1>3 DEF Scheduling
  <2>5. (phase[Main] = "none" <=> ~closed)'
    BY <1>0, <1>1, <1>3, <1>5 DEF Scheduling
  <2>6. \A u \in Tasks : (pc[u] = "lateDispose" => closed /\ key[u] \in Own)'
    BY <1>0, <1>1, <1>6 DEF Scheduling
  <2> QED
    BY <1>0, <1>1, <1>7, <2>1, <2>2, <2>3, <2>4, <2>5, <2>6 DEF Scheduling
<1>10. Retiring'
  BY <1>0, <1>1, <1>3, <1>6, <1>7 DEF Retiring
<1>11. MainsOwn'
  BY <1>0, <1>1, <1>3, <1>7 DEF MainsOwn
<1>12. Holds'
  BY <1>0, <1>1, <1>3, <1>5, <1>6, <1>8 DEF Holds, Cleaning
<1>13. Covered'
  <2>1. ASSUME NEW u \in Tasks, pc'[u] = "retiring", phase'[u] \in {"last", "leavingLast"}, key[u] \in entered
        PROVE  key[u] \in rel[u] \/ IsLeft(key[u])
    BY <1>0, <1>1, <1>3, <1>6, <2>1 DEF Covered
  <2>2. ASSUME phase'[Main] \in {"last", "leavingLast", "done"}, NEW k \in entered
        PROVE  \/ IsLeft(k) \/ Acquired(k)
               \/ phase'[Main] # "done" /\ k \in rel[Main]
               \/ \E u \in Tasks : Retires(u, k) /\ u # p
    <3>1. \/ IsLeft(k) \/ Acquired(k)
          \/ phase[Main] # "done" /\ k \in rel[Main]
          \/ \E u \in Tasks : Retires(u, k)
      BY <1>0, <1>1, <1>3, <2>2 DEF Covered
    <3>2. p \in Tasks /\ Retires(p, k) => IsLeft(k)
      BY <1>0, <1>1, <2>2 DEF Covered, Retires
    <3> QED
      BY <1>0, <1>3, <3>1, <3>2
  <2> QED
    BY <1>0, <1>7, <1>8, <2>1, <2>2 DEF Covered
<1>14. SoleIsQuiet'
  BY <1>0, <1>1, <1>3, <1>6, <1>7 DEF SoleIsQuiet, MainIsQuiet
<1>15. UncleanIsKnown'
  <2>1. \A k : SeenTo(k) => SeenTo(k)'
    BY <1>0, <1>3, <1>7 DEF SeenTo, Cleaning
  <2> QED
    BY <1>0, <1>1, <1>5, <2>1 DEF UncleanIsKnown, SoleOrWhole
<1> QED
  BY <1>9, <1>10, <1>11, <1>12, <1>13, <1>14, <1>15 DEF Order

\* Queued cleanup that runs once the call has left is of an entry the call no longer holds.
LEMMA SettleStep == ASSUME IInv, TypeOK', NEW k \in Conv, Settle(k), UNCHANGED rung PROVE Order'
<1>1. /\ UNCHANGED <<cpu, asks, records, held, exists, missed, pass, rung>>
      /\ owed' = owed \ {k} /\ k \notin held /\ unclean' \subseteq unclean
      /\ (k \notin unclean' \/ k \in marked') /\ marked \subseteq marked'
  BY DEF Settle
<1>2. Scheduling /\ Retiring /\ MainsOwn /\ Holds /\ Covered /\ SoleIsQuiet /\ UncleanIsKnown
  BY DEF IInv, Order
<1>3. UNCHANGED <<cpu, closed, pc, key, touched, entered, ledger, held, phase, todo, rel, at, reports, rung>>
  BY <1>1 DEF asks, records, pass
<1>4. /\ \A j : Acquired(j)' <=> Acquired(j)
      /\ \A u \in Tasks : \A j : Retires(u, j)' <=> Retires(u, j)
      /\ \A u \in Tasks : InPlay(u)' <=> InPlay(u)
      /\ \A j : IsLeft(j)' <=> IsLeft(j)
      /\ \A j : SeenTo(j)' <=> SeenTo(j)
  BY <1>3 DEF Acquired, Acquires, Retires, InPlay, IsLeft, SeenTo
<1>5. Scheduling' /\ MainsOwn' /\ Holds'
  BY <1>2, <1>3, <1>4 DEF Scheduling, MainsOwn, Holds
<1>6. Retiring' /\ Covered' /\ SoleIsQuiet'
  BY <1>2, <1>3, <1>4 DEF Retiring, Covered, SoleIsQuiet, MainIsQuiet
<1>7. UncleanIsKnown'
  BY <1>1, <1>2, <1>3, <1>4 DEF UncleanIsKnown, SoleOrWhole
<1> QED
  BY <1>5, <1>6, <1>7 DEF Order

-----------------------------------------------------------------------------
(* Types.                                                                    *)

PCs == {"idle", "retiring", "ended"} \cup InFlight
Phases == {"none", "cleaning", "releasing", "last", "done"} \cup Awaits

\* The types of what a cleanup pass moves.
PassOK ==
  /\ cpu \in Passes \cup {None}
  /\ phase \in [Passes -> Phases] /\ todo \in [Passes -> SUBSET Keys] /\ rel \in [Passes -> SUBSET Keys]
  /\ at \in [Passes -> Keys \cup {None}] /\ reports \subseteq Passes /\ halted \subseteq Passes

\* The beginning of a pass, and the end of an acquire.
LEMMA BeginPassTypes ==
  ASSUME TypeOK, NEW p \in Passes, NEW scope, NEW l \in SUBSET Keys, NEW acquiring,
         BeginPass(p, scope, l, acquiring)
  PROVE  PassOK' /\ ledger' \subseteq Keys
<1>1. PassOK /\ entered \subseteq Keys
  BY DEF TypeOK, PassOK, Phases
<1>2. phase' \in [Passes -> Phases] /\ ledger' \subseteq Keys /\ cpu' = p
      /\ UNCHANGED <<at, reports, halted>>
  BY <1>1 DEF BeginPass, PassOK, Phases
<1>3. todo' \in [Passes -> SUBSET Keys]
  BY <1>1 DEF BeginPass, PassOK
<1>4. rel' \in [Passes -> SUBSET Keys]
  BY <1>1 DEF BeginPass, PassOK
<1> QED
  BY <1>1, <1>2, <1>3, <1>4 DEF PassOK

\* The end of an acquire keeps the types.
LEMMA FinishTypes ==
  ASSUME TypeOK, NEW t \in Tasks, NEW l \in SUBSET Keys, Finish(t, l)
  PROVE  PassOK' /\ ledger' \subseteq Keys /\ pc' \in [Tasks -> PCs]
<1>1. pc \in [Tasks -> PCs] /\ PassOK /\ t \in Passes
  BY DEF TypeOK, PassOK, PCs, Phases, Passes
<1>2. pc' \in [Tasks -> PCs]
  BY <1>1 DEF Finish, PCs
<1>3. CASE closed /\ key[t] \in Conv \ AcquiringBut({t})
  BY <1>1, <1>2, <1>3, BeginPassTypes DEF Finish
<1>4. CASE ~(closed /\ key[t] \in Conv \ AcquiringBut({t}))
  BY <1>1, <1>2, <1>4 DEF Finish, PassOK, pass
<1> QED
  BY <1>3, <1>4

\* Where an acquirer is bound to be has its key.
LEMMA KeysAsked ==
  ASSUME IInv, NEW t \in Tasks, pc[t] \in InFlight
  PROVE  key[t] \in Keys /\ key[t] \in touched /\ (key[t] \in Own <=> key[t] \notin Conv)
BY KeysAssumption DEF IInv, TypeOK, Order, Scheduling, InPlay, Keys

\* Leaving call.acquiring, with or without a pass, keeps the types.
LEMMA LeaveTypes ==
  ASSUME TypeOK, NEW t \in Tasks, NEW l \in SUBSET Keys, Leave(t, l)
  PROVE  PassOK' /\ ledger' \subseteq Keys /\ pc' \in [Tasks -> PCs]
<1>1. pc \in [Tasks -> PCs] /\ PassOK
  BY DEF TypeOK, PassOK, PCs, Phases
<1>2. CASE closed /\ key[t] \in Own
  BY <1>1, <1>2 DEF Leave, PassOK, pass, PCs, InFlight
<1>3. CASE ~(closed /\ key[t] \in Own)
  BY <1>3, FinishTypes DEF Leave
<1> QED
  BY <1>2, <1>3

\* Every step keeps every variable in its type.
LEMMA AcquirerTypes == ASSUME IInv, NEW t \in Tasks, Acquirer(t), UNCHANGED rung PROVE TypeOK'
<1>0. /\ TypeOK /\ t \in Passes /\ Conv \subseteq Keys /\ Own \subseteq Keys /\ Main \in Passes
      /\ ledger \in SUBSET Keys
  BY DEF IInv, TypeOK, Passes, Keys
<1>1. CASE Acquire(t)
  <2>1. cpu' \in Passes \cup {None} /\ pc' \in [Tasks -> PCs] /\ key' \in [Tasks -> Keys \cup {None}]
    BY <1>0, <1>1 DEF Acquire, TypeOK, PCs, InFlight
  <2>2. touched' \subseteq Keys /\ ledger' \subseteq Keys
    BY <1>0, <1>1 DEF Acquire, TypeOK
  <2> QED
    BY <1>0, <1>1, <2>1, <2>2 DEF Acquire, TypeOK, PCs, fate, pass
<1>2. CASE Lock(t)
  <2>0. key[t] \in Keys
    BY <1>2, KeysAsked DEF Lock, InFlight
  <2>1. PassOK' /\ ledger' \subseteq Keys /\ pc' \in [Tasks -> PCs]
    <3>1. CASE Finish(t, ledger)
      BY <1>0, <3>1, FinishTypes
    <3>2. CASE ~Finish(t, ledger)
      BY <1>0, <1>2, <3>2 DEF Lock, TypeOK, PassOK, pass, PCs, Phases, InFlight
    <3> QED
      BY <3>1, <3>2
  <2>2. lock' \in [Keys -> Tasks \cup {None}]
    BY <1>0, <1>2, <2>0 DEF Lock, TypeOK
  <2> QED
    BY <1>0, <1>2, <2>1, <2>2 DEF Lock, TypeOK, PassOK, PCs, Phases, fate
<1>3. CASE LockCancelled(t)
  <2>1. PassOK' /\ ledger' \subseteq Keys /\ pc' \in [Tasks -> PCs]
    BY <1>0, <1>3, FinishTypes DEF LockCancelled
  <2> QED
    BY <1>0, <1>3, <2>1 DEF LockCancelled, TypeOK, PassOK, PCs, Phases, fate
<1>4. CASE Entered(t) \/ EnterFails(t)
  <2>0. key[t] \in Keys
    BY <1>4, KeysAsked DEF Entered, EnterFails, InFlight
  <2>1. PassOK' /\ ledger' \subseteq Keys /\ pc' \in [Tasks -> PCs]
    <3>1. CASE Finish(t, ledger)
      BY <1>0, <3>1, FinishTypes
    <3>2. CASE ~Finish(t, ledger)
      BY <1>0, <1>4, <3>2 DEF Entered, EnterFails, TypeOK, PassOK, pass, PCs, Phases, InFlight
    <3> QED
      BY <3>1, <3>2
  <2>2. /\ lock' \in [Keys -> Tasks \cup {None}] /\ held' \subseteq Keys /\ entered' \subseteq Keys
        /\ UNCHANGED <<closed, touched, key, served, fresh, unclean, owed, marked, exists, missed>>
    BY <1>0, <1>4, <2>0 DEF Entered, EnterFails, TypeOK, fate
  <2> QED
    BY <1>0, <2>1, <2>2 DEF TypeOK, PassOK, PCs, Phases
<1>5. CASE Create(t)
  <2>0. key[t] \in Keys
    BY <1>5, KeysAsked DEF Create, InFlight
  <2> QED
    BY <1>0, <1>5, <2>0 DEF Create, TypeOK, InFlight, fate, pass
<1>6. CASE Created(t)
  <2>0. key[t] \in Keys /\ (key[t] \notin Own => key[t] \in Conv)
    BY <1>6, KeysAsked DEF Created, InFlight
  <2>1. PassOK' /\ ledger' \subseteq Keys /\ pc' \in [Tasks -> PCs]
    <3>1. PICK l \in SUBSET Keys : Leave(t, l)
      BY <1>0, <1>6, <2>0 DEF Created
    <3> QED
      BY <1>0, <3>1, LeaveTypes
  <2>2. exists' \subseteq Own /\ missed' \subseteq Own /\ unclean' \subseteq Conv
    BY <1>0, <1>6, <2>0 DEF Created, TypeOK
  <2> QED
    BY <1>0, <1>6, <2>1, <2>2 DEF Created, TypeOK, PassOK, PCs, Phases
<1>7. CASE AcquireFails(t)
  <2>1. PassOK' /\ ledger' \subseteq Keys /\ pc' \in [Tasks -> PCs]
    BY <1>0, <1>7, LeaveTypes DEF AcquireFails
  <2>2. exists' \subseteq Own /\ missed' \subseteq Own /\ served' \subseteq Keys
    BY <1>0, <1>7 DEF AcquireFails, TypeOK
  <2> QED
    BY <1>0, <1>7, <2>1, <2>2 DEF AcquireFails, TypeOK, PassOK, PCs, Phases
<1>8. CASE LateDisposed(t)
  <2>0. key[t] \in Own
    BY <1>8 DEF LateDisposed, IInv, Order, Scheduling
  <2>1. PassOK' /\ ledger' \subseteq Keys /\ pc' \in [Tasks -> PCs]
    BY <1>0, <1>8, FinishTypes DEF LateDisposed
  <2>2. exists' \subseteq Own /\ missed' \subseteq Own
    BY <1>0, <1>8, <2>0 DEF LateDisposed, DisposeCall, TypeOK
  <2> QED
    BY <1>0, <1>8, <2>1, <2>2 DEF LateDisposed, TypeOK, PassOK, PCs, Phases
<1> QED
  BY <1>1, <1>2, <1>3, <1>4, <1>5, <1>6, <1>7, <1>8 DEF Acquirer

\* Each step of a cleanup pass keeps the types.
LEMMA CleanerTypes == ASSUME IInv, NEW p \in Passes, Cleaner(p), UNCHANGED rung PROVE TypeOK'
<1>0. /\ TypeOK /\ Tasks \subseteq Passes /\ Conv \subseteq Keys /\ Own \subseteq Keys /\ Main \in Passes
      /\ (phase[p] = "reclaiming" => at[p] \in Conv) /\ (phase[p] = "disposing" => at[p] \in Own)
  BY DEF IInv, Order, Scheduling, Passes, Keys, TypeOK
<1> USE DEF TypeOK, Awaits, Goes, GiveBack, QueueCleanup
<1>1. CASE CleanNext(p)
  <2>1. PICK k \in todo[p] :
       /\ todo' = [todo EXCEPT ![p] = @ \ {k}]
       /\ \/ UNCHANGED <<cpu, phase, rel, at, reports, owed>>
          \/ /\ \/ Goes(p, "disposing") \/ Goes(p, "reclaiming")
             /\ at' = [at EXCEPT ![p] = k] /\ cpu' = None /\ UNCHANGED <<rel, reports, owed>>
          \/ k \in Conv /\ QueueCleanup(p, k) /\ UNCHANGED <<cpu, at>>
    BY <1>1 DEF CleanNext
  <2>2. k \in Keys
    BY <1>0, <2>1
  <2>3. /\ todo' \in [Passes -> SUBSET Keys] /\ rel' \in [Passes -> SUBSET Keys]
        /\ phase' \in [Passes -> {"none", "cleaning", "releasing", "last", "done"} \cup Awaits]
    BY <1>0, <2>1, <2>2
  <2>4. /\ at' \in [Passes -> Keys \cup {None}] /\ cpu' \in Passes \cup {None}
        /\ reports' \subseteq Passes /\ owed' \subseteq Conv
    BY <1>0, <2>1, <2>2
  <2> QED
    BY <1>0, <1>1, <2>3, <2>4 DEF CleanNext, asks, records
<1>2. CASE AllCleaned(p)
  BY <1>0, <1>2 DEF AllCleaned, asks, records, fate
<1>3. CASE Reclaimed(p)
  BY <1>0, <1>3 DEF Reclaimed, asks, records
<1>4. CASE ReclaimFails(p)
  BY <1>0, <1>4 DEF ReclaimFails, asks, records
<1>5. CASE ReclaimCancelled(p)
  BY <1>0, <1>5 DEF ReclaimCancelled, asks, records
<1>6. CASE Disposed(p)
  BY <1>0, <1>6 DEF Disposed, DisposeCall, asks, records
<1>7. CASE DisposeCancelled(p)
  BY <1>0, <1>7 DEF DisposeCancelled, asks, records
<1>8. CASE KeepHold(p)
  BY <1>0, <1>8 DEF KeepHold, asks, records, fate
<1>9. CASE Release(p)
  <2>1. /\ rel' \in [Passes -> SUBSET Keys] /\ held' \subseteq Keys /\ entered' \subseteq Keys
        /\ owed' \subseteq Conv /\ marked' \subseteq Conv
    BY <1>0, <1>9 DEF Release
  <2> QED
    BY <1>0, <1>9, <2>1 DEF Release, asks
<1>10. CASE ReleaseAndClean(p)
  <2>1. /\ rel' \in [Passes -> SUBSET Keys] /\ held' \subseteq Keys /\ at' \in [Passes -> Keys \cup {None}]
    BY <1>0, <1>10 DEF ReleaseAndClean
  <2> QED
    BY <1>0, <1>10, <2>1 DEF ReleaseAndClean, asks, records
<1>11. CASE Left(p)
  BY <1>0, <1>11 DEF Left, BackToGiving, asks, fate
<1>12. CASE LeaveCancelled(p)
  BY <1>0, <1>12 DEF LeaveCancelled, BackToGiving, asks
<1>13. CASE GivenBack(p)
  <2>1. /\ rel' \in [Passes -> SUBSET Keys] /\ cpu' \in Passes \cup {None} /\ halted' \subseteq Passes
        /\ phase' \in [Passes -> {"none", "cleaning", "releasing", "last", "done"} \cup Awaits]
    BY <1>0, <1>13 DEF GivenBack
  <2> QED
    BY <1>0, <1>13, <2>1 DEF GivenBack, asks, records, fate
<1>14. CASE Reported(p)
  BY <1>0, <1>14 DEF Reported, asks, records, fate
<1>15. CASE PassEnds(p)
  BY <1>0, <1>15 DEF PassEnds, records, fate
<1> QED
  BY <1>1, <1>2, <1>3, <1>4, <1>5, <1>6, <1>7, <1>8, <1>9, <1>10, <1>11, <1>12, <1>13, <1>14, <1>15
  DEF Cleaner

\* Every step keeps the types.
LEMMA TypeStep == ASSUME IInv, [Next]_vars PROVE TypeOK'
<1>1. CASE UNCHANGED vars
  BY <1>1 DEF IInv, TypeOK, vars, moves, asks, records, fate, pass
<1>2. CASE Close /\ UNCHANGED rung
  <2>1. Main \in Passes /\ TypeOK /\ ledger \in SUBSET Keys
    BY DEF IInv, TypeOK, Passes
  <2>2. PassOK' /\ ledger' \subseteq Keys
    BY <1>2, <2>1, BeginPassTypes DEF Close
  <2> QED
    BY <1>2, <2>1, <2>2 DEF Close, TypeOK, PassOK, Phases, fate
<1>3. ASSUME NEW k \in Conv, Settle(k), UNCHANGED rung PROVE TypeOK'
  BY <1>3 DEF Settle, IInv, TypeOK, asks, records, pass
<1> QED
  BY <1>1, <1>2, <1>3, AcquirerTypes, CleanerTypes DEF Next

-----------------------------------------------------------------------------
(* The order, action by action.                                              *)

\* What an acquirer does, whether it goes on, ends quietly or leaves a pass behind.
LEMMA AcquirerOrder ==
  ASSUME IInv, TypeOK', NEW t \in Tasks, Acquirer(t), UNCHANGED rung PROVE Order'
<1>0. /\ TypeOK /\ Holds /\ t \in Passes /\ ledger \in SUBSET Keys /\ ledger \subseteq ledger
      /\ pc \in [Tasks -> PCs] /\ key \in [Tasks -> Keys \cup {None}]
      /\ ledger \subseteq ledger \cup {key[t]} /\ {t} \in SUBSET Tasks
      /\ held \subseteq entered /\ entered \subseteq touched /\ ledger \subseteq touched
      /\ (~closed => held = entered)
  BY DEF IInv, Order, TypeOK, Passes, PCs, Holds
<1>1. CASE Acquire(t)
  <2>1. PICK k \in Keys :
       /\ key' = [key EXCEPT ![t] = k]
       /\ IF closed
            THEN /\ pc' = [pc EXCEPT ![t] = "ended"]
                 /\ cpu' = None /\ UNCHANGED <<touched, ledger>>
            ELSE /\ pc' = [pc EXCEPT ![t] = "locking"]
                 /\ touched' = touched \cup {k}
                 /\ ledger' = IF k \in Own THEN ledger \cup {k} ELSE ledger
                 /\ cpu' = IF lock[k] = None THEN t ELSE None
    BY <1>1 DEF Acquire
  <2>2. /\ OthersStay(t) /\ key'[t] = k /\ pc[t] = "idle" /\ cpu \in {None, t}
        /\ UNCHANGED <<pass, closed, owed, marked, rung, entered, held, unclean>>
        /\ pc'[t] \in {"ended", "locking"} /\ (pc'[t] = "locking" => ~closed)
    BY <1>0, <1>1, <2>1 DEF Acquire, OthersStay, Runs, fate
  <2>3. /\ touched \subseteq touched' /\ ledger \subseteq ledger' /\ ledger' \subseteq touched'
        /\ (pc'[t] = "locking" => k \in touched') /\ (closed => touched' = touched)
    BY <1>0, <2>1, <2>2
  <2>4. /\ pc[t] \in {"idle"} \cup InFlight /\ pc'[t] \in {"idle", "ended"} \cup InFlight
        /\ pc[t] \notin InFlight /\ (pc'[t] \in InFlight => pc'[t] = "locking")
        /\ pc'[t] \notin {"lateDispose", "adopting", "creating"}
    BY <2>2 DEF InFlight
  <2>5. /\ held \subseteq held' /\ held' \subseteq entered' /\ entered' \subseteq touched'
        /\ (~closed => held' = entered')
    BY <1>0, <2>2, <2>3
  <2> QED
    BY <2>2, <2>3, <2>4, <2>5, AcquirerStep
<1>2. CASE Lock(t)
  <2>1. /\ cpu \in {None, t} /\ pc[t] = "locking" /\ pc[t] \in InFlight
        /\ UNCHANGED <<closed, touched, key, entered, held, owed, marked, rung, unclean>>
    BY <1>2 DEF Lock, Runs, InFlight, fate
  <2>2. key[t] \in touched
    BY <2>1, KeysAsked
  <2>3. CASE Finish(t, ledger)
    BY <1>0, <2>1, <2>3, AcquireEnds
  <2>4. CASE ~Finish(t, ledger)
    <3>1. /\ ~closed /\ ledger' = ledger /\ UNCHANGED pass
          /\ \/ key[t] \in entered /\ pc' = [pc EXCEPT ![t] = "adopting"]
             \/ pc' = [pc EXCEPT ![t] = "entering"]
      BY <1>2, <2>4 DEF Lock
    <3>2. /\ OthersStay(t) /\ key'[t] = key[t]
          /\ pc'[t] \in {"adopting", "entering"} /\ (pc'[t] = "adopting" => key[t] \in held)
      BY <1>0, <2>1, <3>1 DEF OthersStay
    <3>3. pc'[t] \in {"idle", "ended"} \cup InFlight /\ pc'[t] \notin {"lateDispose", "creating"}
      BY <3>2 DEF InFlight
    <3> QED
      BY <1>0, <2>1, <2>2, <3>1, <3>2, <3>3, AcquirerStep
  <2> QED
    BY <2>3, <2>4
<1>3. CASE LockCancelled(t) \/ EnterFails(t) \/ LateDisposed(t)
  <2>1. /\ cpu \in {None, t} /\ pc[t] \in InFlight /\ Finish(t, ledger)
        /\ UNCHANGED <<closed, touched, key, entered, held, owed, marked, rung, unclean>>
    BY <1>3 DEF LockCancelled, EnterFails, LateDisposed, Runs, InFlight, fate
  <2> QED
    BY <1>0, <2>1, AcquireEnds
<1>4. CASE Entered(t)
  <2>1. /\ cpu \in {None, t} /\ pc[t] = "entering" /\ pc[t] \in InFlight
        /\ UNCHANGED <<closed, touched, key, owed, marked, rung, unclean>>
    BY <1>4 DEF Entered, Runs, InFlight
  <2>2. key[t] \in touched
    BY <2>1, KeysAsked
  <2>3. CASE closed
    <3>1. Finish(t, ledger) /\ UNCHANGED <<entered, held>>
      BY <1>4, <2>3 DEF Entered
    <3> QED
      BY <1>0, <2>1, <3>1, AcquireEnds
  <2>4. CASE ~closed
    <3>1. /\ held' = held \cup {key[t]} /\ entered' = entered \cup {key[t]}
          /\ pc' = [pc EXCEPT ![t] = "adopting"] /\ ledger' = ledger /\ UNCHANGED pass
      BY <1>4, <2>4 DEF Entered
    <3>2. OthersStay(t) /\ key'[t] = key[t] /\ pc'[t] = "adopting"
      BY <1>0, <2>1, <3>1 DEF OthersStay
    <3>3. /\ pc'[t] \in {"idle", "ended"} \cup InFlight /\ pc'[t] # "lateDispose"
          /\ pc[t] \in {"idle"} \cup InFlight
      BY <2>1, <3>2 DEF InFlight
    <3>4. /\ held \subseteq held' /\ held' \subseteq entered' /\ entered' \subseteq touched'
          /\ held' = entered' /\ key'[t] \in held'
      BY <1>0, <2>1, <2>2, <2>4, <3>1
    <3> QED
      BY <1>0, <2>1, <2>2, <2>4, <3>1, <3>2, <3>3, <3>4, AcquirerStep
  <2> QED
    BY <2>3, <2>4
<1>5. CASE Create(t)
  <2>1. /\ cpu \in {None, t} /\ pc[t] = "adopting" /\ pc[t] \in InFlight
        /\ UNCHANGED <<closed, touched, key, entered, held, owed, marked, rung, unclean, ledger, pass>>
        /\ pc' = [pc EXCEPT ![t] = "creating"]
    BY <1>5 DEF Create, Runs, InFlight, fate
  <2>2. key[t] \in touched
    BY <2>1, KeysAsked
  <2>3. OthersStay(t) /\ key'[t] = key[t] /\ pc'[t] = "creating"
    BY <1>0, <2>1 DEF OthersStay
  <2>4. pc'[t] \in InFlight /\ pc'[t] # "lateDispose"
    BY <2>3 DEF InFlight
  <2> QED
    BY <1>0, <2>1, <2>2, <2>3, <2>4, AcquirerStep
<1>6. CASE Created(t) \/ AcquireFails(t)
  <2>1. /\ cpu \in {None, t} /\ pc[t] \in {"adopting", "creating"} /\ pc[t] \in InFlight
        /\ UNCHANGED <<closed, touched, key, entered, held, owed, marked, rung>>
    BY <1>6 DEF Created, AcquireFails, Runs, InFlight
  <2>2. key[t] \in touched /\ key[t] \in Keys /\ (key[t] \in Own <=> key[t] \notin Conv)
    BY <2>1, KeysAsked
  <2>3. PICK l \in SUBSET Keys :
          /\ Leave(t, l) /\ ledger \subseteq l /\ l \subseteq ledger \cup {key[t]}
          /\ unclean' \subseteq unclean \cup {key[t]}
          /\ key[t] \in unclean' \ unclean => key[t] \in l /\ key[t] \in Conv
    <3>1. CASE Created(t)
      <4>1. PICK l \in SUBSET Keys : /\ Leave(t, l)
                                     /\ l = IF closed /\ key[t] \in Own THEN ledger ELSE ledger \cup {key[t]}
        BY <1>0, <2>2, <3>1 DEF Created
      <4> QED
        BY <2>2, <3>1, <4>1 DEF Created
    <3>2. CASE AcquireFails(t)
      BY <1>0, <3>2 DEF AcquireFails
    <3> QED
      BY <1>6, <3>1, <3>2
  <2>4. key[t] \in Conv => key[t] \in held
    BY <1>0, <2>1 DEF Holds
  <2>5. CASE closed /\ key[t] \in Own
    <3>1. /\ pc' = [pc EXCEPT ![t] = "lateDispose"]
          /\ ledger' = l /\ UNCHANGED pass
      BY <2>3, <2>5 DEF Leave
    <3>2. OthersStay(t) /\ key'[t] = key[t] /\ pc'[t] = "lateDispose"
      BY <1>0, <2>1, <3>1 DEF OthersStay
    <3>3. pc'[t] \in InFlight /\ pc'[t] \notin {"adopting", "creating"}
      BY <3>2 DEF InFlight
    <3>4. ledger \subseteq ledger' /\ ledger' \subseteq touched' /\ unclean' \subseteq unclean
      BY <1>0, <2>1, <2>2, <2>3, <2>5, <3>1
    <3> QED
      BY <1>0, <2>1, <2>2, <2>5, <3>1, <3>2, <3>3, <3>4, AcquirerStep
  <2>6. CASE ~(closed /\ key[t] \in Own)
    <3>1. Finish(t, l)
      BY <2>3, <2>6 DEF Leave
    <3> QED
      BY <2>1, <2>3, <2>4, <3>1, AcquireEnds
  <2> QED
    BY <2>5, <2>6
<1> QED
  BY <1>1, <1>2, <1>3, <1>4, <1>5, <1>6 DEF Acquirer

\* A key queued for the cleanup of its whole instance is held, or the pass gives up what is left.
LEMMA Queued ==
  ASSUME IInv, NEW p \in Passes, NEW k, QueueCleanup(p, k)
  PROVE  /\ \A q \in Passes : q # p => phase'[q] = phase[q] /\ rel'[q] = rel[q]
         /\ reports \subseteq reports' /\ reports' \subseteq reports \cup {p} /\ owed \subseteq owed'
         /\ k \in held => k \in owed' /\ phase'[p] = "cleaning" /\ rel'[p] = rel[p]
         /\ k \notin held => phase'[p] = "last" /\ rel'[p] = entered \cap Scope(p)
<1>1. /\ phase \in [Passes -> {"none", "cleaning", "releasing", "last", "done"} \cup Awaits]
      /\ rel \in [Passes -> SUBSET Keys]
  BY DEF IInv, TypeOK
<1>2. CASE k \in held
  BY <1>1, <1>2 DEF QueueCleanup, Goes
<1>3. CASE k \notin held
  BY <1>1, <1>3 DEF QueueCleanup, GiveBack, Goes, Scope
<1> QED
  BY <1>2, <1>3

\* The beginning of giving back looks at what the pass has entered.
LEMMA GivesBack ==
  ASSUME IInv, NEW p \in Passes, NEW where, GiveBack(p, where)
  PROVE  /\ \A q \in Passes : q # p => phase'[q] = phase[q] /\ rel'[q] = rel[q]
         /\ phase'[p] = where /\ rel'[p] = entered \cap Scope(p)
BY DEF IInv, TypeOK, GiveBack, Goes, Scope

\* What a pass does up to its last key (_clean_each_sandbox).
LEMMA CleaningOrder ==
  ASSUME IInv, TypeOK', NEW p \in Passes, UNCHANGED rung,
         \/ CleanNext(p) \/ AllCleaned(p) \/ Reclaimed(p) \/ ReclaimFails(p) \/ ReclaimCancelled(p)
         \/ Disposed(p) \/ DisposeCancelled(p)
  PROVE  Order'
<1>0. /\ TypeOK /\ Scheduling /\ Retiring /\ Holds
      /\ phase \in [Passes -> {"none", "cleaning", "releasing", "last", "done"} \cup Awaits]
      /\ todo \in [Passes -> SUBSET Keys] /\ rel \in [Passes -> SUBSET Keys]
      /\ at \in [Passes -> Keys \cup {None}] /\ unclean \subseteq Conv
      /\ held \subseteq entered /\ Conv \cap Own = {} /\ Passes = Tasks \cup {Main} /\ Main \notin Tasks
  BY KeysAssumption, TasksAssumption DEF IInv, Order, TypeOK, Holds, Passes
<1>1. \A k : p \in Tasks /\ Retires(p, k) =>
             p # Main /\ k = key[p] /\ todo[p] \subseteq {k} /\ pc[p] = "retiring"
  BY <1>0 DEF Retires, Retiring
<1>2. CASE CleanNext(p)
  <2>1. PICK k \in todo[p] :
       /\ todo' = [todo EXCEPT ![p] = @ \ {k}]
       /\ \/ /\ k \notin entered \/ (k \in Own /\ k \notin served)
             /\ UNCHANGED <<cpu, phase, rel, at, reports, owed>>
          \/ /\ k \in entered /\ k \in Own \cap served
             /\ Goes(p, "disposing") /\ at' = [at EXCEPT ![p] = k] /\ cpu' = None
             /\ UNCHANGED <<rel, reports, owed>>
          \/ /\ k \in entered /\ k \in Conv /\ rung[k] = "reclaim"
             /\ Goes(p, "reclaiming") /\ at' = [at EXCEPT ![p] = k] /\ cpu' = None
             /\ UNCHANGED <<rel, reports, owed>>
          \/ /\ k \in entered /\ k \in Conv /\ rung[k] = "whole"
             /\ QueueCleanup(p, k)
             /\ UNCHANGED <<cpu, at>>
    BY <1>2 DEF CleanNext
  <2>2. /\ UNCHANGED <<asks, records, held, rung, unclean, marked>> /\ cpu = p /\ phase[p] = "cleaning"
    BY <1>2 DEF CleanNext
  <2>3. /\ todo'[p] = todo[p] \ {k} /\ \A q \in Passes : q # p => todo'[q] = todo[q]
    BY <1>0, <2>1
  <2>4. \A j : InHand(p, j) <=> j \in todo[p]
    BY <2>2 DEF InHand
  <2>5. phase[p] \in Cleaning /\ cpu \in {None, p} /\ todo'[p] \subseteq todo[p] /\ todo[p] # {}
    BY <2>1, <2>2, <2>3 DEF Cleaning
  <2>6. CASE /\ k \notin entered \/ (k \in Own /\ k \notin served)
             /\ UNCHANGED <<cpu, phase, rel, at, reports, owed>>
    <3>1. \A j \in unclean : j \in held => j # k
      BY <1>0, <2>6
    <3>2. \A j \in unclean' \ (owed' \cup marked') : j \in held =>
           /\ p = Main /\ InHand(p, j) => phase'[p] \in Cleaning /\ InHand(p, j)'
           /\ p \in Tasks /\ Retires(p, j) /\ SoleOrWhole(j) /\ InHand(p, j) =>
                \/ phase'[p] = "cleaning" /\ j \in todo'[p]
                \/ phase'[p] = "reclaiming" /\ touched = {j}
      BY <2>2, <2>3, <2>4, <2>6, <3>1 DEF InHand, Cleaning
    <3>3. /\ phase'[p] = "cleaning" /\ cpu' = p /\ rel'[p] = rel[p] /\ phase'[p] \in Cleaning
      BY <2>2, <2>6 DEF Cleaning
    <3> QED
      BY <2>2, <2>3, <2>5, <2>6, <3>2, <3>3, CleaningStep
  <2>7. CASE /\ k \in entered /\ k \in Own \cap served
             /\ Goes(p, "disposing") /\ at' = [at EXCEPT ![p] = k] /\ cpu' = None
             /\ UNCHANGED <<rel, reports, owed>>
    <3>1. /\ phase'[p] = "disposing" /\ at'[p] = k /\ phase'[p] \in Cleaning /\ phase'[p] \notin Running
          /\ \A q \in Passes : q # p => phase'[q] = phase[q] /\ at'[q] = at[q]
      BY <1>0, <2>7 DEF Goes, Cleaning, Running
    <3>2. \A j \in unclean : j # k
      BY <1>0, <2>7
    <3>3. \A j \in unclean' \ (owed' \cup marked') : j \in held =>
           /\ p = Main /\ InHand(p, j) => phase'[p] \in Cleaning /\ InHand(p, j)'
           /\ p \in Tasks /\ Retires(p, j) /\ SoleOrWhole(j) /\ InHand(p, j) =>
                \/ phase'[p] = "cleaning" /\ j \in todo'[p]
                \/ phase'[p] = "reclaiming" /\ touched = {j}
      <4>1. ASSUME NEW j \in unclean, p \in Tasks, Retires(p, j) PROVE j \notin todo[p]
        BY <1>1, <2>1, <3>2, <4>1
      <4> QED
        BY <2>2, <2>3, <2>4, <3>1, <3>2, <4>1 DEF InHand
    <3> QED
      BY <2>2, <2>3, <2>5, <2>7, <3>1, <3>3, CleaningStep
  <2>8. CASE /\ k \in entered /\ k \in Conv /\ rung[k] = "reclaim"
             /\ Goes(p, "reclaiming") /\ at' = [at EXCEPT ![p] = k] /\ cpu' = None
             /\ UNCHANGED <<rel, reports, owed>>
    <3>1. /\ phase'[p] = "reclaiming" /\ at'[p] = k /\ phase'[p] \in Cleaning /\ phase'[p] \notin Running
          /\ \A q \in Passes : q # p => phase'[q] = phase[q] /\ at'[q] = at[q]
      BY <1>0, <2>8 DEF Goes, Cleaning, Running
    <3>2. \A j \in unclean' \ (owed' \cup marked') : j \in held =>
           /\ p = Main /\ InHand(p, j) => phase'[p] \in Cleaning /\ InHand(p, j)'
           /\ p \in Tasks /\ Retires(p, j) /\ SoleOrWhole(j) /\ InHand(p, j) =>
                \/ phase'[p] = "cleaning" /\ j \in todo'[p]
                \/ phase'[p] = "reclaiming" /\ touched = {j}
      <4>1. ASSUME NEW j, p \in Tasks, Retires(p, j), SoleOrWhole(j), j \in todo[p] PROVE touched = {j}
        BY <1>1, <2>1, <2>8, <4>1 DEF SoleOrWhole
      <4> QED
        BY <2>2, <2>3, <2>4, <3>1, <4>1 DEF InHand
    <3> QED
      BY <2>1, <2>2, <2>3, <2>5, <2>8, <3>1, <3>2, CleaningStep
  <2>9. CASE /\ k \in entered /\ k \in Conv /\ rung[k] = "whole"
             /\ QueueCleanup(p, k)
             /\ UNCHANGED <<cpu, at>>
    <3>1. /\ \A q \in Passes : q # p => phase'[q] = phase[q] /\ rel'[q] = rel[q]
          /\ reports \subseteq reports' /\ reports' \subseteq reports \cup {p} /\ owed \subseteq owed'
          /\ k \in held => k \in owed' /\ phase'[p] = "cleaning" /\ rel'[p] = rel[p]
          /\ k \notin held => phase'[p] = "last" /\ rel'[p] = entered \cap Scope(p)
      BY <2>9, Queued
    <3>2. p = Main => k \in held
      BY <1>0, <2>1, <2>5, <2>9 DEF Holds
    <3>3. phase'[p] \in {"cleaning", "last"} /\ cpu' = p
      BY <2>2, <2>9, <3>1
    <3>4. \A j \in unclean' \ (owed' \cup marked') : j \in held =>
           /\ p = Main /\ InHand(p, j) => phase'[p] \in Cleaning /\ InHand(p, j)'
           /\ p \in Tasks /\ Retires(p, j) /\ SoleOrWhole(j) /\ InHand(p, j) =>
                \/ phase'[p] = "cleaning" /\ j \in todo'[p]
                \/ phase'[p] = "reclaiming" /\ touched = {j}
      <4>1. ASSUME NEW j, p \in Tasks, Retires(p, j), j \in todo[p] PROVE j = k
        BY <1>1, <2>1, <4>1
      <4> QED
        BY <2>2, <2>3, <2>4, <3>1, <3>2, <4>1 DEF InHand, Cleaning
    <3>5. /\ phase'[p] \in Cleaning => phase'[p] = "cleaning" /\ k \in held
          /\ phase'[p] \in {"releasing", "last"} => k \notin held
          /\ phase'[p] \in Cleaning \cup {"releasing", "last"}
      BY <3>1, <3>3 DEF Cleaning
    <3> QED
      BY <2>2, <2>3, <2>5, <2>9, <3>1, <3>3, <3>4, <3>5, CleaningStep
  <2> QED
    BY <2>1, <2>6, <2>7, <2>8, <2>9
<1>3. CASE AllCleaned(p)
  <2>1. /\ UNCHANGED <<asks, records, held, rung, unclean, marked, owed, todo, at, reports>>
        /\ cpu = p /\ cpu' = p /\ phase[p] = "cleaning" /\ todo[p] = {} /\ GiveBack(p, "releasing")
    BY <1>3 DEF AllCleaned, fate
  <2>2. /\ \A q \in Passes : q # p => phase'[q] = phase[q] /\ rel'[q] = rel[q]
        /\ phase'[p] = "releasing" /\ rel'[p] = entered \cap Scope(p)
    BY <2>1, GivesBack
  <2>3. phase'[p] \notin Cleaning /\ phase[p] \in Cleaning /\ \A k : ~InHand(p, k)
    BY <2>1, <2>2 DEF Cleaning, InHand
  <2> QED
    BY <2>1, <2>2, <2>3, CleaningStep
<1>4. CASE Reclaimed(p)
  <2>1. /\ UNCHANGED <<asks, records, held, rung, marked, owed, todo, rel, at, reports>>
        /\ cpu \in {None, p} /\ cpu' = p /\ phase[p] = "reclaiming" /\ unclean' = unclean \ {at[p]}
        /\ phase' = [phase EXCEPT ![p] = "cleaning"]
    BY <1>4 DEF Reclaimed, Runs, Goes
  <2>2. phase'[p] = "cleaning" /\ \A q \in Passes : q # p => phase'[q] = phase[q]
    BY <1>0, <2>1
  <2>3. \A k : InHand(p, k) => k \in todo[p] \/ k \notin unclean'
    BY <2>1 DEF InHand
  <2>4. \A j \in unclean' \ (owed' \cup marked') : j \in held =>
           /\ p = Main /\ InHand(p, j) => phase'[p] \in Cleaning /\ InHand(p, j)'
           /\ p \in Tasks /\ Retires(p, j) /\ SoleOrWhole(j) /\ InHand(p, j) =>
                \/ phase'[p] = "cleaning" /\ j \in todo'[p]
                \/ phase'[p] = "reclaiming" /\ touched = {j}
    BY <2>1, <2>2, <2>3 DEF InHand, Cleaning
  <2>5. phase[p] \in Cleaning /\ phase'[p] \in Cleaning
    BY <2>1, <2>2 DEF Cleaning
  <2> QED
    BY <2>1, <2>2, <2>4, <2>5, CleaningStep
<1>5. CASE ReclaimFails(p)
  <2>1. /\ UNCHANGED <<asks, records, held, rung, unclean, marked, todo, at>>
        /\ cpu \in {None, p} /\ cpu' = p /\ phase[p] = "reclaiming" /\ QueueCleanup(p, at[p])
    BY <1>5 DEF ReclaimFails, Runs
  <2>2. /\ \A q \in Passes : q # p => phase'[q] = phase[q] /\ rel'[q] = rel[q]
        /\ reports \subseteq reports' /\ reports' \subseteq reports \cup {p} /\ owed \subseteq owed'
        /\ at[p] \in held => at[p] \in owed' /\ phase'[p] = "cleaning" /\ rel'[p] = rel[p]
        /\ at[p] \notin held => phase'[p] = "last" /\ rel'[p] = entered \cap Scope(p)
    BY <2>1, Queued
  <2>3. p = Main => at[p] \in held
    BY <1>0, <2>1 DEF Holds
  <2>4. \A j \in unclean' \ (owed' \cup marked') : j \in held =>
           /\ p = Main /\ InHand(p, j) => phase'[p] \in Cleaning /\ InHand(p, j)'
           /\ p \in Tasks /\ Retires(p, j) /\ SoleOrWhole(j) /\ InHand(p, j) =>
                \/ phase'[p] = "cleaning" /\ j \in todo'[p]
                \/ phase'[p] = "reclaiming" /\ touched = {j}
    <3>1. ASSUME NEW j, p \in Tasks, Retires(p, j) PROVE at[p] = j
      BY <1>0, <1>1, <2>1, <3>1 DEF Retiring
    <3> QED
      BY <2>1, <2>2, <2>3, <3>1 DEF InHand, Cleaning
  <2>5. /\ phase[p] \in Cleaning /\ phase[p] # "cleaning"
        /\ phase'[p] \in {"cleaning", "last"}
        /\ phase'[p] \in Cleaning => phase'[p] = "cleaning" /\ at[p] \in held
        /\ phase'[p] \in {"releasing", "last"} => at[p] \notin held
    BY <2>1, <2>2 DEF Cleaning
  <2>6. phase'[p] \in Cleaning \cup {"releasing", "last"} /\ phase'[p] \notin {"reclaiming", "disposing"}
    BY <2>5 DEF Cleaning
  <2> QED
    BY <2>1, <2>2, <2>4, <2>5, <2>6, CleaningStep
<1>6. CASE ReclaimCancelled(p)
  <2>1. /\ UNCHANGED <<asks, records, held, rung, unclean, owed, todo, at, reports>>
        /\ cpu \in {None, p} /\ cpu' = p /\ phase[p] = "reclaiming" /\ GiveBack(p, "last")
        /\ marked' = marked \cup ((todo[p] \cup {at[p]}) \cap Conv)
    BY <1>6 DEF ReclaimCancelled, Runs
  <2>2. /\ \A q \in Passes : q # p => phase'[q] = phase[q] /\ rel'[q] = rel[q]
        /\ phase'[p] = "last" /\ rel'[p] = entered \cap Scope(p)
    BY <2>1, GivesBack
  <2>3. phase'[p] \notin Cleaning /\ phase[p] \in Cleaning /\ phase[p] # "cleaning"
    BY <2>1, <2>2 DEF Cleaning
  <2>4. \A j \in unclean' \ (owed' \cup marked') : ~InHand(p, j)
    BY <1>0, <2>1 DEF InHand
  <2> QED
    BY <2>1, <2>2, <2>3, <2>4, CleaningStep
<1>7. CASE Disposed(p)
  <2>1. /\ UNCHANGED <<asks, records, held, rung, unclean, owed, marked, todo, rel, at>>
        /\ cpu \in {None, p} /\ cpu' = p /\ phase[p] = "disposing"
        /\ reports \subseteq reports' /\ reports' \subseteq reports \cup {p}
        /\ phase' = [phase EXCEPT ![p] = "cleaning"]
    BY <1>7 DEF Disposed, Runs, Goes
  <2>2. phase'[p] = "cleaning" /\ \A q \in Passes : q # p => phase'[q] = phase[q]
    BY <1>0, <2>1
  <2>3. \A k : InHand(p, k) => k \in todo[p]
    BY <2>1 DEF InHand
  <2>4. \A j \in unclean' \ (owed' \cup marked') : j \in held =>
           /\ p = Main /\ InHand(p, j) => phase'[p] \in Cleaning /\ InHand(p, j)'
           /\ p \in Tasks /\ Retires(p, j) /\ SoleOrWhole(j) /\ InHand(p, j) =>
                \/ phase'[p] = "cleaning" /\ j \in todo'[p]
                \/ phase'[p] = "reclaiming" /\ touched = {j}
    BY <2>1, <2>2, <2>3 DEF InHand, Cleaning
  <2>5. phase[p] \in Cleaning /\ phase'[p] \in Cleaning
    BY <2>1, <2>2 DEF Cleaning
  <2> QED
    BY <2>1, <2>2, <2>4, <2>5, CleaningStep
<1>8. CASE DisposeCancelled(p)
  <2>1. /\ UNCHANGED <<asks, records, held, rung, unclean, owed, todo, at, reports>>
        /\ cpu \in {None, p} /\ cpu' = p /\ phase[p] = "disposing" /\ GiveBack(p, "last")
        /\ marked' = marked \cup (todo[p] \cap Conv)
    BY <1>8 DEF DisposeCancelled, Runs
  <2>2. /\ \A q \in Passes : q # p => phase'[q] = phase[q] /\ rel'[q] = rel[q]
        /\ phase'[p] = "last" /\ rel'[p] = entered \cap Scope(p)
    BY <2>1, GivesBack
  <2>3. phase'[p] \notin Cleaning /\ phase[p] \in Cleaning /\ phase[p] # "cleaning"
    BY <2>1, <2>2 DEF Cleaning
  <2>4. \A j \in unclean' \ (owed' \cup marked') : ~InHand(p, j)
    BY <1>0, <2>1 DEF InHand
  <2> QED
    BY <2>1, <2>2, <2>3, <2>4, CleaningStep
<1> QED
  BY <1>2, <1>3, <1>4, <1>5, <1>6, <1>7, <1>8

\* What a pass does while it gives back (_give_back_the_sandbox, release_call).
LEMMA GivingOrder ==
  ASSUME IInv, TypeOK', NEW p \in Passes, UNCHANGED rung,
         \/ KeepHold(p) \/ Release(p) \/ ReleaseAndClean(p) \/ Left(p) \/ LeaveCancelled(p)
         \/ GivenBack(p) \/ Reported(p)
  PROVE  Order'
<1>0. /\ phase \in [Passes -> {"none", "cleaning", "releasing", "last", "done"} \cup Awaits]
      /\ rel \in [Passes -> SUBSET Keys] /\ at \in [Passes -> Keys \cup {None}]
      /\ held \subseteq entered
      /\ \A k \in held : ~IsLeft(k)
  BY DEF IInv, Order, TypeOK, Holds
<1>1. \A k : k \in AcquiringBut({}) <=> Acquired(k)
  BY AcquiringAll
<1>2. CASE KeepHold(p)
  <2>1. PICK k \in rel[p] : Acquired(k) /\ rel' = [rel EXCEPT ![p] = @ \ {k}]
    BY <1>1, <1>2 DEF KeepHold
  <2>2. /\ UNCHANGED <<asks, ledger, unclean, todo, reports, rung, phase, at, held, entered, owed, marked>>
        /\ cpu = p /\ cpu' = p /\ phase[p] \in Giving /\ phase[p] \notin Leaving
    BY <1>2 DEF KeepHold, records, fate, Giving, Leaving
  <2>3. /\ rel'[p] = rel[p] \ {k} /\ \A q \in Passes : q # p => rel'[q] = rel[q]
        /\ phase'[p] # "reporting" /\ phase'[p] # "leavingLast"
    BY <1>0, <2>1, <2>2 DEF Giving
  <2> QED
    BY <1>0, <2>1, <2>2, <2>3, GivingStep
<1>3. CASE Release(p)
  <2>1. PICK k \in rel[p] \ AcquiringBut({}) :
          /\ rel' = [rel EXCEPT ![p] = @ \ {k}]
          /\ held' = held \ {k} /\ entered' = entered \ {k}
          /\ owed \cup marked \subseteq owed' \cup marked'
    BY <1>3 DEF Release
  <2>2. /\ UNCHANGED <<asks, ledger, unclean, todo, reports, rung, phase, at>>
        /\ cpu = p /\ cpu' = p /\ phase[p] \in Giving /\ phase[p] \notin Leaving
    BY <1>3 DEF Release, Giving, Leaving
  <2>3. /\ rel'[p] = rel[p] \ {k} /\ \A q \in Passes : q # p => rel'[q] = rel[q]
        /\ phase'[p] # "reporting" /\ phase'[p] # "leavingLast" /\ ~Acquired(k)
    BY <1>0, <1>1, <2>1, <2>2 DEF Giving
  <2> QED
    BY <1>0, <2>1, <2>2, <2>3, GivingStep
<1>4. CASE ReleaseAndClean(p)
  <2>1. PICK k \in rel[p] \ AcquiringBut({}) :
          /\ k \in held
          /\ rel' = [rel EXCEPT ![p] = @ \ {k}]
          /\ held' = held \ {k}
          /\ at' = [at EXCEPT ![p] = k]
    BY <1>4 DEF ReleaseAndClean
  <2>2. /\ UNCHANGED <<asks, ledger, unclean, todo, reports, rung, entered, owed, marked>>
        /\ cpu = p /\ phase[p] \in Giving /\ phase[p] \notin Leaving
        /\ phase' = [phase EXCEPT ![p] = IF phase[p] = "last" THEN "leavingLast" ELSE "leaving"]
    BY <1>4 DEF ReleaseAndClean, Giving, Leaving, Goes, records
  <2>3. /\ rel'[p] = rel[p] \ {k} /\ at'[p] = k
        /\ \A q \in Passes : q # p => phase'[q] = phase[q] /\ rel'[q] = rel[q] /\ at'[q] = at[q]
        /\ ~Acquired(k)
    BY <1>0, <1>1, <2>1, <2>2
  <2>4. /\ phase'[p] \in Leaving /\ phase'[p] \notin Giving /\ phase'[p] \notin {"reporting", "last"}
        /\ (phase'[p] = "leavingLast" => phase[p] = "last")
    BY <1>0, <2>2 DEF Leaving, Giving
  <2> QED
    BY <1>0, <2>1, <2>2, <2>3, <2>4, GivingStep
<1>5. CASE Left(p) \/ LeaveCancelled(p)
  <2>1. /\ UNCHANGED <<asks, ledger, unclean, todo, reports, rung, held, rel, at>>
        /\ cpu \in {None, p} /\ cpu' = p /\ phase[p] \in Leaving
        /\ owed \cup marked \subseteq owed' \cup marked'
        /\ entered' = entered \ {at[p]}
        /\ phase' = [phase EXCEPT ![p] = IF phase[p] = "leavingLast" THEN "last" ELSE "releasing"]
    BY <1>5 DEF Left, LeaveCancelled, BackToGiving, Goes, Runs, fate
  <2>2. /\ phase'[p] \in Giving /\ phase'[p] \notin Leaving /\ phase'[p] \notin {"reporting", "leavingLast"}
        /\ (phase'[p] = "last" => phase[p] = "leavingLast")
        /\ \A q \in Passes : q # p => phase'[q] = phase[q]
    BY <1>0, <2>1 DEF Leaving, Giving
  <2>3. held' \subseteq entered'
    BY <1>0, <2>1 DEF IsLeft
  <2> QED
    BY <2>1, <2>2, <2>3, GivingStep
<1>6. CASE GivenBack(p) /\ p \in reports \ halted
  <2>1. /\ UNCHANGED <<asks, ledger, unclean, todo, reports, rung, held, entered, owed, marked, at, rel>>
        /\ cpu = p /\ phase[p] \in Giving /\ phase[p] \notin Leaving /\ rel[p] = {}
        /\ phase' = [phase EXCEPT ![p] = "reporting"]
    BY <1>6 DEF GivenBack, Goes, Giving, Leaving, records, fate
  <2>2. /\ phase'[p] = "reporting" /\ phase'[p] \notin Leaving /\ phase'[p] \notin Giving
        /\ \A q \in Passes : q # p => phase'[q] = phase[q]
    BY <1>0, <2>1 DEF Leaving, Giving
  <2> QED
    BY <1>0, <1>6, <2>1, <2>2, GivingStep
<1>7. CASE Reported(p) \/ (GivenBack(p) /\ p \notin reports \ halted)
  <2>1. /\ UNCHANGED <<asks, ledger, unclean, todo, reports, rung, held, entered, owed, marked, at>>
        /\ cpu \in {None, p} /\ cpu' = p /\ phase[p] \in Giving \cup {"reporting"}
        /\ phase[p] \notin Leaving /\ GiveBack(p, "last")
    BY <1>7 DEF Reported, GivenBack, Giving, Leaving, Runs, records, fate
  <2>2. /\ \A q \in Passes : q # p => phase'[q] = phase[q] /\ rel'[q] = rel[q]
        /\ phase'[p] = "last" /\ rel'[p] = entered \cap Scope(p)
    BY <2>1, GivesBack
  <2>3. phase'[p] \in Giving /\ phase'[p] \notin Leaving
    BY <2>2 DEF Giving, Leaving
  <2> QED
    BY <1>0, <2>1, <2>2, <2>3, GivingStep
<1> QED
  BY <1>2, <1>3, <1>4, <1>5, <1>6, <1>7

\* Every step of the call keeps the order.
LEMMA OrderStep == ASSUME IInv, TypeOK', [Next]_vars PROVE Order'
<1>1. CASE UNCHANGED vars
  <2>1. UNCHANGED <<cpu, closed, pc, key, touched, entered, ledger, held, unclean, owed, marked, phase, todo,
                    rel, at, reports, rung>>
    BY <1>1 DEF vars, moves, asks, records, fate, pass
  <2>2. Scheduling /\ Retiring /\ MainsOwn /\ Holds /\ Covered /\ SoleIsQuiet /\ UncleanIsKnown
    BY DEF IInv, Order
  <2>3. /\ \A j : Acquired(j)' <=> Acquired(j)
        /\ \A u \in Tasks : \A j : Retires(u, j)' <=> Retires(u, j)
        /\ \A u \in Tasks : InPlay(u)' <=> InPlay(u)
        /\ \A j : IsLeft(j)' <=> IsLeft(j)
        /\ \A j : SeenTo(j)' <=> SeenTo(j)
    BY <2>1 DEF Acquired, Acquires, Retires, InPlay, IsLeft, SeenTo
  <2>4. Scheduling' /\ MainsOwn' /\ Holds'
    BY <2>1, <2>2, <2>3 DEF Scheduling, MainsOwn, Holds
  <2>5. Retiring' /\ Covered' /\ SoleIsQuiet'
    BY <2>1, <2>2, <2>3 DEF Retiring, Covered, SoleIsQuiet, MainIsQuiet
  <2>6. UncleanIsKnown'
    BY <2>1, <2>2, <2>3 DEF UncleanIsKnown, SoleOrWhole
  <2> QED
    BY <2>4, <2>5, <2>6 DEF Order
<1>2. ASSUME NEW p \in Passes, Cleaner(p), UNCHANGED rung PROVE Order'
  BY <1>2, CleaningOrder, GivingOrder, PassEndsStep DEF Cleaner
<1> QED
  BY <1>1, <1>2, AcquirerOrder, CloseStep, SettleStep DEF Next

-----------------------------------------------------------------------------
(* Sandboxes created for the call.                                           *)

\* An acquirer leaves what exists recorded: before the call closes in the ledger, afterwards with
\* itself, until its delete has been tried.
LEMMA OwnByAcquirer ==
  ASSUME IInv, NEW t \in Tasks, OthersStay(t), UNCHANGED closed,
         pc[t] # "idle" => key'[t] = key[t],
         phase'[Main] = phase[Main], todo'[Main] = todo[Main], at'[Main] = at[Main],
         \A u \in Tasks : u # t => (u \in fresh' <=> u \in fresh),
         entered \subseteq entered', ~closed => ledger \subseteq ledger',
         exists' \subseteq served',
         pc'[t] = "creating" =>
           /\ t \in fresh' => key'[t] \notin exists'
           /\ key'[t] \in served'
           /\ \A u \in Tasks \ {t} : ~(pc[u] = "creating" /\ key[u] = key'[t]),
         \A k \in exists' \ exists :
           /\ k = key[t] /\ pc[t] = "creating"
           /\ IF closed THEN pc'[t] = "lateDispose" ELSE k \in ledger',
         \A k \in served \ served' : k = key[t] /\ pc[t] = "creating",
         pc'[t] \in {"adopting", "creating"} => key'[t] \in entered' \/ pc[t] \in {"adopting", "creating"},
         ~closed /\ pc'[t] \in InFlight /\ key'[t] \in Own => key'[t] \in ledger',
         \A k \in missed \ missed' : closed => pc'[t] = "lateDispose" /\ k = key'[t],
         pc[t] = "lateDispose" => pc'[t] = "lateDispose" \/ key[t] \in missed' \/ key[t] \notin exists'
  PROVE  OwnIsDeleted'
<1>1. OwnIsDeleted
  BY DEF IInv
<1>2. \A u \in Tasks : u # t => pc'[u] = pc[u] /\ key'[u] = key[u]
  BY DEF OthersStay
<1>3. pc[t] = "creating" => /\ key[t] \in served
                            /\ \A u \in Tasks : pc[u] = "creating" /\ key[u] = key[t] => u = t
  BY <1>1 DEF OwnIsDeleted
<1>4. ASSUME NEW u \in Tasks, pc'[u] = "creating"
      PROVE  /\ u \in fresh' => key'[u] \notin exists'
             /\ key'[u] \in served'
             /\ \A v \in Tasks : pc'[v] = "creating" /\ key'[v] = key'[u] => v = u
  <2>1. CASE u = t
    BY <1>2, <1>4, <2>1
  <2>2. CASE u # t
    <3>1. pc[u] = "creating" /\ key'[u] = key[u]
      BY <1>2, <1>4, <2>2
    <3>2. /\ u \in fresh => key[u] \notin exists
          /\ key[u] \in served
          /\ \A v \in Tasks : pc[v] = "creating" /\ key[v] = key[u] => v = u
      BY <1>1, <3>1 DEF OwnIsDeleted
    <3>3. pc[t] = "creating" => key[t] # key[u]
      BY <1>3, <2>2, <3>1
    <3>4. \A v \in Tasks : pc'[v] = "creating" /\ key'[v] = key'[u] => v = u
      BY <1>2, <2>2, <3>1, <3>2
    <3> QED
      BY <2>2, <3>1, <3>2, <3>3, <3>4
  <2> QED
    BY <2>1, <2>2
<1>5. ASSUME phase'[Main] \in {"none"} \cup Cleaning
      PROVE  /\ exists' \subseteq entered'
             /\ \A u \in Tasks : pc'[u] \in {"adopting", "creating"} => key'[u] \in entered'
  <2>1. /\ exists \subseteq entered
        /\ \A u \in Tasks : pc[u] \in {"adopting", "creating"} => key[u] \in entered
    BY <1>1, <1>5 DEF OwnIsDeleted
  <2> QED
    BY <1>2, <2>1
<1>6. ASSUME ~closed
      PROVE  /\ exists' \subseteq ledger'
             /\ \A u \in Tasks : pc'[u] \in InFlight /\ key'[u] \in Own => key'[u] \in ledger'
  <2>1. /\ exists \subseteq ledger
        /\ \A u \in Tasks : pc[u] \in InFlight /\ key[u] \in Own => key[u] \in ledger
    BY <1>1, <1>6 DEF OwnIsDeleted
  <2> QED
    BY <1>2, <1>6, <2>1
<1>7. ASSUME closed, NEW k \in exists'
      PROVE  \/ k \in missed' \/ k \in todo[Main]
             \/ phase[Main] = "disposing" /\ at[Main] = k
             \/ \E u \in Tasks : pc'[u] = "lateDispose" /\ key'[u] = k
  <2>1. CASE k \notin exists
    BY <1>7, <2>1
  <2>2. CASE k \in exists
    <3>1. \/ k \in missed \/ k \in todo[Main]
          \/ phase[Main] = "disposing" /\ at[Main] = k
          \/ \E u \in Tasks : pc[u] = "lateDispose" /\ key[u] = k
      BY <1>1, <1>7, <2>2 DEF OwnIsDeleted
    <3>2. CASE k \in missed
      <4>1. k \in missed' \/ (pc'[t] = "lateDispose" /\ k = key'[t])
        BY <1>7, <3>2
      <4> QED
        BY <4>1
    <3>3. CASE \E u \in Tasks : pc[u] = "lateDispose" /\ key[u] = k
      <4>1. PICK u \in Tasks : pc[u] = "lateDispose" /\ key[u] = k
        BY <3>3
      <4>2. CASE u # t
        BY <1>2, <4>1, <4>2
      <4>3. CASE u = t
        BY <1>7, <4>1, <4>3
      <4> QED
        BY <4>2, <4>3
    <3> QED
      BY <3>1, <3>2, <3>3
  <2> QED
    BY <2>1, <2>2
<1> QED
  BY <1>4, <1>5, <1>6, <1>7 DEF OwnIsDeleted

\* A pass deletes what exists, or the delete is missed, or the pass is cut short with the key still
\* to do; it gives back no key whose sandbox is still to be seen to.
LEMMA OwnByPass ==
  ASSUME IInv, closed, UNCHANGED <<closed, key, served, fresh>>,
         \A u \in Tasks : pc'[u] = pc[u] \/ (pc[u] = "retiring" /\ pc'[u] = "ended"),
         exists' \subseteq exists, missed \subseteq missed',
         phase'[Main] # "none",
         phase'[Main] \in Cleaning =>
           phase[Main] \in Cleaning /\ \A k \in entered \ entered' : k \in Conv /\ ~Acquired(k),
         \A k \in exists' :
           /\ k \in todo[Main] => k \in todo'[Main] \/ (phase'[Main] = "disposing" /\ at'[Main] = k)
           /\ phase[Main] = "disposing" /\ at[Main] = k =>
                k \in missed' \/ (phase'[Main] = "disposing" /\ at'[Main] = k)
  PROVE  OwnIsDeleted'
<1>1. OwnIsDeleted /\ exists \subseteq Own /\ Conv \cap Own = {}
  BY KeysAssumption DEF IInv, TypeOK
<1>2. /\ \A u \in Tasks : pc'[u] \in InFlight => pc[u] \in InFlight /\ pc'[u] = pc[u]
      /\ \A u \in Tasks : pc[u] = "lateDispose" => pc'[u] = "lateDispose"
      /\ \A u \in Tasks : pc'[u] \in {"adopting", "creating"} => pc'[u] \in InFlight
  BY DEF InFlight
<1>3. \A u \in Tasks : pc'[u] = "creating" => pc[u] = "creating"
  OBVIOUS
<1>4. ASSUME phase'[Main] \in Cleaning
      PROVE  /\ exists' \subseteq entered'
             /\ \A u \in Tasks : pc'[u] \in {"adopting", "creating"} => key[u] \in entered'
  <2>1. /\ exists \subseteq entered
        /\ \A u \in Tasks : pc[u] \in {"adopting", "creating"} => key[u] \in entered
    BY <1>1, <1>4 DEF OwnIsDeleted
  <2>2. \A u \in Tasks : pc[u] \in InFlight /\ key[u] \in Conv => Acquired(key[u])
    BY DEF Acquired, Acquires
  <2> QED
    BY <1>1, <1>2, <1>4, <2>1, <2>2
<1>5. \A k \in exists' :
        \/ k \in missed' \/ k \in todo'[Main]
        \/ phase'[Main] = "disposing" /\ at'[Main] = k
        \/ \E u \in Tasks : pc'[u] = "lateDispose" /\ key[u] = k
  BY <1>1, <1>2 DEF OwnIsDeleted
<1> QED
  BY <1>1, <1>3, <1>4, <1>5 DEF OwnIsDeleted

\* Where an acquire that comes to its end goes, and that it moves no other's pass.
LEMMA FinishGoes ==
  ASSUME IInv, NEW t \in Tasks, NEW l, Finish(t, l), UNCHANGED key
  PROVE  /\ OthersStay(t) /\ pc'[t] \in {"retiring", "ended", "idle"} /\ pc'[t] \notin InFlight
         /\ phase'[Main] = phase[Main] /\ todo'[Main] = todo[Main] /\ at'[Main] = at[Main]
         /\ ~closed => ledger' = l
<1>1. /\ pc \in [Tasks -> {"idle", "retiring", "ended"} \cup InFlight] /\ Main # t /\ Main \in Passes
      /\ phase \in [Passes -> {"none", "cleaning", "releasing", "last", "done"} \cup Awaits]
      /\ todo \in [Passes -> SUBSET Keys]
  BY TasksAssumption DEF IInv, TypeOK, Passes
<1>2. OthersStay(t) /\ pc'[t] \in {"retiring", "ended", "idle"}
  BY <1>1 DEF Finish, OthersStay
<1>3. phase'[Main] = phase[Main] /\ todo'[Main] = todo[Main] /\ at'[Main] = at[Main]
  BY <1>1 DEF Finish, BeginPass, pass
<1>4. ~closed => ledger' = l
  BY DEF Finish
<1>5. pc'[t] \notin InFlight
  BY <1>2 DEF InFlight
<1> QED
  BY <1>2, <1>3, <1>4, <1>5

\* The same of the tail of _acquire, which deletes what was created late.
LEMMA LeaveGoes ==
  ASSUME IInv, NEW t \in Tasks, NEW l, Leave(t, l), UNCHANGED key
  PROVE  /\ OthersStay(t) /\ pc'[t] \in {"retiring", "ended", "idle", "lateDispose"}
         /\ (closed /\ key[t] \in Own => pc'[t] = "lateDispose")
         /\ phase'[Main] = phase[Main] /\ todo'[Main] = todo[Main] /\ at'[Main] = at[Main]
         /\ ~closed => ledger' = l /\ pc'[t] \notin InFlight
<1>1. CASE closed /\ key[t] \in Own
  BY <1>1 DEF Leave, OthersStay, pass, IInv, TypeOK
<1>2. CASE ~(closed /\ key[t] \in Own)
  BY <1>2, FinishGoes DEF Leave
<1> QED
  BY <1>1, <1>2

\* Acquirers, action by action: a create is recorded, a late one is deleted.
LEMMA OwnAcquirer == ASSUME IInv, NEW t \in Tasks, Acquirer(t) PROVE OwnIsDeleted'
<1>0. /\ pc \in [Tasks -> PCs] /\ key \in [Tasks -> Keys \cup {None}]
      /\ ledger \subseteq ledger \cup {key[t]} /\ entered \subseteq entered
      /\ exists \subseteq served /\ fresh \subseteq Tasks
      /\ (~closed => held = entered) /\ Conv \cap Own = {}
      /\ exists \subseteq Own
  BY KeysAssumption DEF IInv, Order, Holds, TypeOK, PCs, OwnIsDeleted
<1>1. CASE Acquire(t)
  <2>1. /\ OthersStay(t) /\ pc[t] = "idle" /\ pc'[t] \in {"ended", "locking"}
        /\ UNCHANGED <<closed, entered, served, fresh, exists, missed, phase, todo, at>>
        /\ ledger \subseteq ledger'
        /\ ~closed /\ key'[t] \in Own => key'[t] \in ledger'
    BY <1>0, <1>1 DEF Acquire, OthersStay, fate, pass
  <2> QED
    BY <1>0, <2>1, OwnByAcquirer
<1>2. CASE Lock(t)
  <2>1. /\ UNCHANGED <<closed, key, entered, served, fresh, exists, missed>> /\ pc[t] = "locking"
        /\ pc[t] \in InFlight
    BY <1>2 DEF Lock, fate, InFlight
  <2>2. /\ OthersStay(t) /\ phase'[Main] = phase[Main] /\ todo'[Main] = todo[Main] /\ at'[Main] = at[Main]
        /\ pc'[t] \notin {"creating", "lateDispose"}
        /\ (~closed => ledger' = ledger) /\ (pc'[t] = "adopting" => key[t] \in entered)
    <3>1. CASE Finish(t, ledger)
      BY <2>1, <3>1, FinishGoes
    <3>2. CASE ~Finish(t, ledger)
      BY <1>0, <1>2, <2>1, <3>2 DEF Lock, OthersStay, pass
    <3> QED
      BY <3>1, <3>2
  <2>3. ~closed /\ key[t] \in Own => key[t] \in ledger
    BY <2>1 DEF IInv, OwnIsDeleted
  <2> QED
    BY <1>0, <2>1, <2>2, <2>3, OwnByAcquirer
<1>3. CASE LockCancelled(t) \/ EnterFails(t)
  <2>1. /\ UNCHANGED <<closed, key, entered, served, fresh, exists, missed>>
        /\ pc[t] \in {"locking", "entering"} /\ Finish(t, ledger)
    BY <1>3 DEF LockCancelled, EnterFails, fate
  <2>2. /\ OthersStay(t) /\ phase'[Main] = phase[Main] /\ todo'[Main] = todo[Main] /\ at'[Main] = at[Main]
        /\ pc'[t] \notin InFlight /\ pc'[t] \notin {"creating", "lateDispose", "adopting"}
        /\ (~closed => ledger' = ledger)
    BY <2>1, FinishGoes
  <2> QED
    BY <1>0, <2>1, <2>2, OwnByAcquirer
<1>4. CASE Entered(t)
  <2>1. /\ UNCHANGED <<closed, key, served, fresh, exists, missed>> /\ pc[t] = "entering"
        /\ pc[t] \in InFlight
    BY <1>4 DEF Entered, fate, InFlight
  <2>2. ~closed /\ key[t] \in Own => key[t] \in ledger
    BY <2>1 DEF IInv, OwnIsDeleted
  <2>3. CASE closed
    <3>1. Finish(t, ledger) /\ UNCHANGED entered
      BY <1>4, <2>3 DEF Entered
    <3>2. /\ OthersStay(t) /\ phase'[Main] = phase[Main] /\ todo'[Main] = todo[Main] /\ at'[Main] = at[Main]
          /\ pc'[t] \notin InFlight /\ pc'[t] \notin {"creating", "lateDispose", "adopting"}
      BY <2>1, <3>1, FinishGoes
    <3> QED
      BY <1>0, <2>1, <2>3, <3>1, <3>2, OwnByAcquirer
  <2>4. CASE ~closed
    <3>1. /\ OthersStay(t) /\ UNCHANGED <<phase, todo, at, ledger>> /\ pc'[t] = "adopting"
          /\ entered' = entered \cup {key[t]}
      BY <1>0, <1>4, <2>1, <2>4 DEF Entered, OthersStay, pass
    <3> QED
      BY <1>0, <2>1, <2>2, <2>4, <3>1, OwnByAcquirer
  <2> QED
    BY <2>3, <2>4
<1>5. CASE Create(t)
  <2>1. /\ UNCHANGED <<closed, key, entered, ledger, exists, missed, phase, todo, at>>
        /\ pc[t] = "adopting" /\ pc'[t] = "creating" /\ OthersStay(t) /\ pc[t] \in InFlight
        /\ served' = served \cup {key[t]}
        /\ \A u \in Tasks : u # t => (u \in fresh' <=> u \in fresh)
        /\ t \in fresh' => key[t] \notin served
        /\ \A u \in Tasks : pc[u] = "creating" => key[u] # key[t]
    BY <1>0, <1>5 DEF Create, OthersStay, fate, pass, InFlight
  <2>2. ~closed /\ key[t] \in Own => key[t] \in ledger
    BY <2>1 DEF IInv, OwnIsDeleted
  <2> QED
    BY <1>0, <2>1, <2>2, OwnByAcquirer
<1>6. CASE Created(t)
  <2>1. /\ UNCHANGED <<closed, key, entered, served, fresh>> /\ pc[t] = "creating" /\ pc[t] \in InFlight
        /\ exists' = (IF key[t] \in Own THEN exists \cup {key[t]} ELSE exists)
        /\ missed' = (IF key[t] \in Own THEN missed \ {key[t]} ELSE missed)
    BY <1>6 DEF Created, InFlight
  <2>2. PICK l : Leave(t, l) /\ (~closed => l = ledger \cup {key[t]})
    BY <1>6 DEF Created
  <2>3. /\ OthersStay(t) /\ pc'[t] \in {"retiring", "ended", "idle", "lateDispose"}
        /\ (closed /\ key[t] \in Own => pc'[t] = "lateDispose")
        /\ phase'[Main] = phase[Main] /\ todo'[Main] = todo[Main] /\ at'[Main] = at[Main]
        /\ (~closed => ledger' = ledger \cup {key[t]} /\ pc'[t] \notin InFlight)
    BY <2>1, <2>2, LeaveGoes
  <2>4. key[t] \in served
    BY <2>1 DEF IInv, OwnIsDeleted
  <2> QED
    BY <1>0, <2>1, <2>3, <2>4, OwnByAcquirer
<1>7. CASE AcquireFails(t)
  <2>1. /\ UNCHANGED <<closed, key, entered, fresh>> /\ pc[t] \in {"adopting", "creating"}
        /\ pc[t] \in InFlight /\ Leave(t, ledger)
        /\ \/ UNCHANGED <<served, exists, missed>>
           \/ /\ pc[t] = "creating" /\ key[t] \in Own
              /\ exists' = exists \cup {key[t]} /\ missed' = missed \ {key[t]}
              /\ UNCHANGED served
           \/ /\ pc[t] = "creating" /\ t \in fresh
              /\ served' = served \ {key[t]}
              /\ UNCHANGED <<exists, missed>>
    BY <1>7 DEF AcquireFails, InFlight
  <2>2. /\ OthersStay(t) /\ pc'[t] \in {"retiring", "ended", "idle", "lateDispose"}
        /\ (closed /\ key[t] \in Own => pc'[t] = "lateDispose")
        /\ phase'[Main] = phase[Main] /\ todo'[Main] = todo[Main] /\ at'[Main] = at[Main]
        /\ (~closed => ledger' = ledger /\ pc'[t] \notin InFlight)
    BY <2>1, LeaveGoes
  <2>3. pc[t] = "creating" => key[t] \in served /\ (t \in fresh => key[t] \notin exists)
    BY <2>1 DEF IInv, OwnIsDeleted
  <2>4. ~closed /\ key[t] \in Own => key[t] \in ledger
    BY <2>1 DEF IInv, OwnIsDeleted
  <2>5. exists' \subseteq served'
    BY <1>0, <2>1, <2>3
  <2> QED
    BY <1>0, <2>1, <2>2, <2>3, <2>4, <2>5, OwnByAcquirer
<1>8. CASE LateDisposed(t)
  <2>1. /\ UNCHANGED <<closed, key, entered, served, fresh>> /\ pc[t] = "lateDispose" /\ Finish(t, ledger)
        /\ exists' \subseteq exists /\ missed \subseteq missed'
        /\ key[t] \in missed' \/ key[t] \notin exists'
    BY <1>0, <1>8 DEF LateDisposed, DisposeCall
  <2>2. /\ OthersStay(t) /\ phase'[Main] = phase[Main] /\ todo'[Main] = todo[Main] /\ at'[Main] = at[Main]
        /\ pc'[t] \notin InFlight /\ pc'[t] \notin {"creating", "lateDispose", "adopting"}
        /\ (~closed => ledger' = ledger)
    BY <2>1, FinishGoes
  <2> QED
    BY <1>0, <2>1, <2>2, OwnByAcquirer
<1> QED
  BY <1>1, <1>2, <1>3, <1>4, <1>5, <1>6, <1>7, <1>8 DEF Acquirer

\* Passes, action by action: only the wrapper's has anything to delete.
LEMMA OwnCleaner == ASSUME IInv, NEW p \in Passes, Cleaner(p) PROVE OwnIsDeleted'
<1>0. /\ phase \in [Passes -> {"none", "cleaning", "releasing", "last", "done"} \cup Awaits]
      /\ todo \in [Passes -> SUBSET Keys] /\ rel \in [Passes -> SUBSET Keys]
      /\ at \in [Passes -> Keys \cup {None}] /\ pc \in [Tasks -> {"idle", "retiring", "ended"} \cup InFlight]
      /\ exists \subseteq Own /\ exists \subseteq served /\ Conv \cap Own = {}
      /\ Main \in Passes /\ Passes = Tasks \cup {Main} /\ Main \notin Tasks
  BY KeysAssumption, TasksAssumption DEF IInv, TypeOK, Passes, OwnIsDeleted
<1>1. Scheduling /\ Retiring
  BY DEF IInv, Order
<1>2. phase[p] \notin {"none", "done"}
  BY DEF Cleaner, CleanNext, AllCleaned, Reclaimed, ReclaimFails, ReclaimCancelled, Disposed, DisposeCancelled,
     KeepHold, Release, ReleaseAndClean, Left, LeaveCancelled, GivenBack, Reported, PassEnds, Giving, Leaving
<1>3. closed /\ phase[Main] # "none" /\ (p # Main => pc[p] = "retiring")
  BY <1>0, <1>1, <1>2 DEF Scheduling, Retiring
<1>4. \A k \in exists : phase[Main] \in Cleaning => k \in entered
  BY DEF IInv, OwnIsDeleted
<1>5. p # Main => /\ phase[p] # "disposing" /\ key[p] \in Conv /\ ~Acquired(key[p])
                  /\ rel[p] \subseteq {key[p]} /\ (phase[p] \in Leaving => at[p] = key[p])
  BY <1>0, <1>1, <1>3 DEF Retiring
<1>6. CASE CleanNext(p)
  <2>1. PICK k \in todo[p] :
       /\ todo' = [todo EXCEPT ![p] = @ \ {k}]
       /\ \/ /\ k \notin entered \/ (k \in Own /\ k \notin served)
             /\ UNCHANGED <<cpu, phase, rel, at, reports, owed>>
          \/ /\ k \in entered /\ k \in Own \cap served
             /\ Goes(p, "disposing") /\ at' = [at EXCEPT ![p] = k] /\ cpu' = None
             /\ UNCHANGED <<rel, reports, owed>>
          \/ /\ k \in entered /\ k \in Conv /\ rung[k] = "reclaim"
             /\ Goes(p, "reclaiming") /\ at' = [at EXCEPT ![p] = k] /\ cpu' = None
             /\ UNCHANGED <<rel, reports, owed>>
          \/ /\ k \in entered /\ k \in Conv /\ rung[k] = "whole"
             /\ QueueCleanup(p, k)
             /\ UNCHANGED <<cpu, at>>
    BY <1>6 DEF CleanNext
  <2>2. /\ UNCHANGED <<closed, key, pc, entered, served, fresh, exists, missed>> /\ phase[p] = "cleaning"
    BY <1>6 DEF CleanNext, asks, records
  <2>3. \A q \in Passes : q # p => phase'[q] = phase[q] /\ at'[q] = at[q] /\ todo'[q] = todo[q]
    BY <1>0, <2>1 DEF Goes, QueueCleanup, GiveBack
  <2>4. /\ todo'[p] = todo[p] \ {k} /\ phase'[p] \in {"cleaning", "disposing", "reclaiming", "last"}
    BY <1>0, <2>1, <2>2 DEF Goes, QueueCleanup, GiveBack
  <2>5. p = Main /\ k \in exists => phase'[p] = "disposing" /\ at'[p] = k
    <3>1. p = Main /\ k \in exists => k \in entered /\ k \in Own \cap served /\ k \notin Conv
      BY <1>0, <1>4, <2>2 DEF Cleaning
    <3> QED
      BY <1>0, <2>1, <3>1 DEF Goes
  <2>6. phase'[Main] # "none" /\ (phase'[Main] \in Cleaning => phase[Main] \in Cleaning)
    BY <1>0, <1>3, <2>2, <2>3, <2>4 DEF Cleaning
  <2>7. \A j \in exists :
          /\ j \in todo[Main] => j \in todo'[Main] \/ (phase'[Main] = "disposing" /\ at'[Main] = j)
          /\ phase[Main] = "disposing" /\ at[Main] = j => (phase'[Main] = "disposing" /\ at'[Main] = j)
    BY <1>0, <2>2, <2>3, <2>4, <2>5
  <2> QED
    BY <1>3, <2>2, <2>6, <2>7, OwnByPass
<1>7. CASE AllCleaned(p) \/ Reclaimed(p) \/ ReclaimFails(p) \/ ReclaimCancelled(p)
  <2>1. /\ UNCHANGED <<closed, key, pc, entered, served, fresh, exists, missed, todo, at>>
        /\ phase[p] \in {"cleaning", "reclaiming"}
    BY <1>7 DEF AllCleaned, Reclaimed, ReclaimFails, ReclaimCancelled, asks, records, fate
  <2>2. \E w \in {"cleaning", "releasing", "last"} : phase' = [phase EXCEPT ![p] = w]
    BY <1>7 DEF AllCleaned, Reclaimed, ReclaimFails, ReclaimCancelled, Goes, GiveBack, QueueCleanup
  <2>3. /\ phase'[Main] # "none" /\ (phase'[Main] \in Cleaning => phase[Main] \in Cleaning)
        /\ (phase[Main] = "disposing" => phase'[Main] = "disposing")
    BY <1>0, <1>3, <2>1, <2>2 DEF Cleaning
  <2> QED
    BY <1>3, <2>1, <2>3, OwnByPass
<1>8. CASE Disposed(p) \/ DisposeCancelled(p)
  <2>1. /\ UNCHANGED <<closed, key, pc, entered, served, fresh, todo, at>> /\ phase[p] = "disposing"
        /\ p = Main
    BY <1>5, <1>8 DEF Disposed, DisposeCancelled, asks, records
  <2>2. \E w \in {"cleaning", "last"} : phase' = [phase EXCEPT ![p] = w]
    BY <1>8 DEF Disposed, DisposeCancelled, Goes, GiveBack
  <2>3. exists' \subseteq exists /\ missed \subseteq missed' /\ (at[p] \in exists' => at[p] \in missed')
    BY <1>0, <1>8 DEF Disposed, DisposeCancelled, DisposeCall
  <2>4. phase'[Main] \in {"cleaning", "last"} /\ phase[Main] \in Cleaning
    BY <1>0, <2>1, <2>2 DEF Cleaning
  <2> QED
    BY <1>3, <2>1, <2>3, <2>4, OwnByPass
<1>9. CASE KeepHold(p) \/ Release(p) \/ ReleaseAndClean(p) \/ Left(p) \/ LeaveCancelled(p)
           \/ GivenBack(p) \/ Reported(p)
  <2>1. /\ UNCHANGED <<closed, key, pc, served, fresh, exists, missed, todo>>
        /\ phase[p] \in Giving \cup Leaving \cup {"reporting"}
    <3>1. CASE KeepHold(p) \/ GivenBack(p) \/ Reported(p)
      BY <3>1 DEF KeepHold, GivenBack, Reported, Giving, asks, records, fate
    <3>2. CASE Release(p) \/ ReleaseAndClean(p)
      BY <3>2 DEF Release, ReleaseAndClean, asks, records
    <3>3. CASE Left(p) \/ LeaveCancelled(p)
      BY <3>3 DEF Left, LeaveCancelled, asks, fate
    <3> QED
      BY <1>9, <3>1, <3>2, <3>3
  <2>2. \E w \in Giving \cup Leaving \cup {"reporting"} : phase' = [phase EXCEPT ![p] = w]
    <3>1. phase = [phase EXCEPT ![p] = phase[p]]
      BY <1>0
    <3>2. CASE KeepHold(p) \/ Release(p)
      BY <2>1, <3>1, <3>2 DEF KeepHold, Release
    <3>3. CASE ~(KeepHold(p) \/ Release(p))
      BY <1>9, <3>3 DEF ReleaseAndClean, Left, LeaveCancelled, GivenBack, Reported, BackToGiving, GiveBack,
         Goes, Giving, Leaving
    <3> QED
      BY <3>2, <3>3
  <2>3. \A q \in Passes : q # p => at'[q] = at[q]
    BY <1>0, <1>9 DEF KeepHold, Release, ReleaseAndClean, Left, LeaveCancelled, GivenBack, Reported
  <2>4. \A k \in entered \ entered' : k \in rel[p] \/ (phase[p] \in Leaving /\ k = at[p])
    <3>1. CASE Release(p)
      BY <3>1 DEF Release
    <3>2. CASE Left(p) \/ LeaveCancelled(p)
      BY <3>2 DEF Left, LeaveCancelled, BackToGiving
    <3>3. CASE KeepHold(p) \/ ReleaseAndClean(p) \/ GivenBack(p) \/ Reported(p)
      BY <3>3 DEF KeepHold, ReleaseAndClean, GivenBack, Reported, records
    <3> QED
      BY <1>9, <3>1, <3>2, <3>3
  <2>5. phase'[p] \in Giving \cup Leaving \cup {"reporting"} /\ \A q \in Passes : q # p => phase'[q] = phase[q]
    BY <1>0, <2>2
  <2>6. /\ phase[p] \notin Cleaning \cup {"none"} /\ phase'[p] \notin Cleaning \cup {"none"}
        /\ "disposing" \in Cleaning
    BY <2>1, <2>5 DEF Cleaning, Giving, Leaving
  <2>7. CASE p = Main
    BY <1>3, <2>1, <2>6, <2>7, OwnByPass
  <2>8. CASE p # Main
    <3>1. \A k \in entered \ entered' : k \in Conv /\ ~Acquired(k)
      BY <1>5, <2>4, <2>8
    <3> QED
      BY <1>0, <1>3, <2>1, <2>3, <2>5, <2>8, <3>1, OwnByPass
  <2> QED
    BY <2>7, <2>8
<1>10. CASE PassEnds(p)
  <2>1. /\ UNCHANGED <<closed, key, entered, served, fresh, exists, missed, todo, at>>
        /\ phase[p] = "last" /\ phase' = [phase EXCEPT ![p] = "done"]
        /\ pc' = (IF p \in Tasks THEN [pc EXCEPT ![p] = "ended"] ELSE pc)
    BY <1>10 DEF PassEnds, Goes, records, fate
  <2>2. \A u \in Tasks : pc'[u] = pc[u] \/ (pc[u] = "retiring" /\ pc'[u] = "ended")
    BY <1>0, <1>3, <2>1
  <2>3. /\ phase'[Main] # "none" /\ (phase'[Main] \in Cleaning => phase[Main] \in Cleaning)
        /\ (phase[Main] = "disposing" => phase'[Main] = "disposing")
    BY <1>0, <1>3, <2>1 DEF Cleaning
  <2> QED
    BY <1>3, <2>1, <2>2, <2>3, OwnByPass
<1> QED
  BY <1>6, <1>7, <1>8, <1>9, <1>10 DEF Cleaner

\* The wrapper's pass begins with everything the call has recorded of its own.
LEMMA OwnClose == ASSUME IInv, Close PROVE OwnIsDeleted'
<1>1. /\ OwnIsDeleted /\ ~closed /\ closed' /\ exists \subseteq Own /\ Conv \cap Own = {}
      /\ UNCHANGED <<pc, key, entered, served, fresh, exists, missed>>
      /\ BeginPass(Main, Keys, ledger, AcquiringBut({}))
      /\ phase \in [Passes -> {"none", "cleaning", "releasing", "last", "done"} \cup Awaits]
      /\ todo \in [Passes -> SUBSET Keys] /\ Main \in Passes /\ phase[Main] = "none" /\ Own \subseteq Keys
  BY KeysAssumption DEF IInv, Order, Scheduling, TypeOK, Close, fate, Passes, Keys
<1>2. exists \subseteq ledger /\ exists \cap AcquiringBut({}) = {}
  BY <1>1, AcquiringAll DEF OwnIsDeleted, Acquired
<1>3. phase'[Main] \in {"cleaning", "last"}
  BY <1>1 DEF BeginPass
<1>4. \A k \in exists : k \in todo'[Main]
  <2>1. ASSUME NEW k \in exists PROVE ledger # {}
    BY <1>2, <2>1
  <2> QED
    BY <1>1, <1>2, <2>1 DEF BeginPass
<1>5. /\ exists \subseteq entered
      /\ \A t \in Tasks : pc[t] \in {"adopting", "creating"} => key[t] \in entered
  BY <1>1 DEF OwnIsDeleted
<1> QED
  BY <1>1, <1>4, <1>5 DEF OwnIsDeleted

-----------------------------------------------------------------------------
(* The theorem.                                                              *)

\* The invariant is kept by every step.
LEMMA IInvStep == ASSUME IInv, [Next]_vars PROVE IInv'
<1>1. TypeOK' /\ Order'
  BY TypeStep, OrderStep
<1>2. ASSUME UNCHANGED <<closed, pc, key, entered, ledger, served, fresh, exists, missed, phase, todo, at>>
      PROVE  OwnIsDeleted'
  BY <1>2 DEF IInv, OwnIsDeleted
<1>3. ASSUME NEW k \in Conv, Settle(k) PROVE OwnIsDeleted'
  BY <1>2, <1>3 DEF Settle, asks, records, pass
<1>4. ASSUME UNCHANGED vars PROVE OwnIsDeleted'
  BY <1>2, <1>4 DEF vars, moves, asks, records, fate, pass
<1>5. OwnIsDeleted'
  BY <1>3, <1>4, OwnAcquirer, OwnCleaner, OwnClose DEF Next
<1> QED
  BY <1>1, <1>5 DEF IInv

\* Residue that nobody has queued or marked is held, where one pass cleans it.
LEMMA HeldFollows == IInv => SoleOrWholeHeldUntilClean
BY DEF IInv, Order, UncleanIsKnown, SoleOrWhole, SoleOrWholeHeldUntilClean

\* When the wrapper and the acquirers are over nobody is left who could give anything back.
LEMMA NothingLeftFollows == IInv => NothingLeft
<1> SUFFICES ASSUME IInv, AllDone PROVE held = {} /\ entered = {} /\ exists \subseteq missed \cup todo[Main]
  BY DEF NothingLeft
<1>1. Scheduling /\ Holds /\ Covered /\ OwnIsDeleted /\ Passes = Tasks \cup {Main}
  BY DEF IInv, Order, Passes
<1>2. closed /\ phase[Main] = "done" /\ \A t \in Tasks : pc[t] \notin {"retiring"} \cup InFlight
  BY DEF AllDone, InFlight
<1>3. \A p \in Passes : phase[p] \notin Leaving
  BY <1>1, <1>2 DEF Scheduling, Leaving
<1>4. entered = {}
  BY <1>1, <1>2, <1>3 DEF Covered, IsLeft, Acquired, Acquires, Retires
<1>5. exists \subseteq missed \cup todo[Main]
  BY <1>1, <1>2 DEF OwnIsDeleted, InFlight
<1> QED
  BY <1>1, <1>4, <1>5 DEF Holds

\* What a tool call promises the sandboxes it used (_SandboxToolCall and the wrapper reclaiming of
\* maf.py), for any number of acquirers, keys and rungs: the hold on a sandbox outlasts what the
\* call left in it, where one pass cleans it, and once all is over no admission is kept and no
\* sandbox made for the call is forgotten.
THEOREM CallIsSafe == Spec => [](TypeOK /\ SoleOrWholeHeldUntilClean /\ NothingLeft)
<1>1. IInv => TypeOK /\ SoleOrWholeHeldUntilClean /\ NothingLeft
  BY HeldFollows, NothingLeftFollows DEF IInv
<1> QED
  BY <1>1, InitIInv, IInvStep, PTL DEF Spec

=============================================================================
