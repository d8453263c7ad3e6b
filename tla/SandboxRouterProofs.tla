------------------------- MODULE SandboxRouterProofs -------------------------
(***************************************************************************)
(* The sandbox router for any calls, instances and rungs: no call is served  *)
(* what a departed call left, what is left is owed a cleanup, and a mark      *)
(* goes only with its instance.  The invariant that is inductive adds who      *)
(* may be where at once, what a delete that has reached the engine leaves     *)
(* there, and whose data an instance can still hold.                          *)
(*                                                                         *)
(* Then its ledger alone, for any backends, kinds, instances and number of   *)
(* overlapping disposals: the key is refused exactly while a target is       *)
(* pending, and what was left behind stays marked until it is gone.          *)
(***************************************************************************)
EXTENDS MCSandboxRouter, TLAPS

Within == {"inside", "acquiring", "restoring", "evicting", "recreating", "refusing",
           "closing", "reclaiming"}
Cleaning == {"cleaning", "resetting", "disposing"}

\* Admission agrees with where the calls are: whoever cleans does so alone, behind a shut entry,
\* and whoever adopts is the only one to.
EntryAgrees ==
  /\ \A c \in Calls : c \in inside <=> pc[c] \in Within
  /\ \A c \in Calls : pc[c] \in Within \cup Cleaning \cup {"out"}
  /\ \A c \in Calls : pc[c] \in Cleaning => inside = {} /\ ~open
  /\ \A c, d \in Calls : pc[c] \in Cleaning /\ pc[d] \in Cleaning => c = d
  /\ \A c, d \in Adopting : c = d
  /\ owed # {} => ~open
  /\ pc[Host] \in {"out", "disposing", "choosing", "retrying"}

\* An await is about an instance of its own, except for the host's.
AwaitsOne ==
  /\ \A p \in Actors : pc[p] \in Disposing => at[p] \in Targets
  /\ \A c \in Calls :
       pc[c] \in {"restoring", "evicting", "refusing", "reclaiming", "resetting", "disposing"} =>
         at[c] \in Instances

\* A delete that has reached the engine left nothing of what its attempt may retire, and an
\* attempt on one instance may retire the marks of no other.
StruckIsGone ==
  /\ \A p \in struck : pc[p] \in Disposing
  /\ \A p \in Actors : pc[p] \in Disposing \ {"retrying"} /\ at[p] # Whole => snap[p] \subseteq {at[p]}
  /\ \A p \in struck : at[p] \notin live
  /\ \A p \in struck : at[p] = Whole => snap[p] \cap live = {}

\* The engine keeps one instance, and holds data in no other.
OneLive ==
  /\ \A i, j \in live : i = j
  /\ \A i \in Instances : dirt[i] # {} => i \in live

\* Whoever adopts looks at the only instance there is, and after its eviction there is none.
AdoptsTheOne ==
  /\ \A c \in Calls : pc[c] \in {"restoring", "evicting"} => live \subseteq {at[c]}
  /\ \A c \in Calls : pc[c] = "recreating" => live = {}

\* Data in a sandbox the router knows is that of a call inside which was served it and has yet to
\* reclaim it, where nobody owes its cleanup.
DirtIsHeld ==
  /\ \A i \in Instances : \A c \in dirt[i] : c = Gone \/ c \in inside
  /\ \A i \in live \cap seen : \A c \in dirt[i] \ {Gone} :
       /\ i \in held[c]
       /\ pc[c] \in {"closing", "reclaiming"} => i \in todo[c] \cup owed \cup unclean

\* The record in hand is of the instance its await is about, or of one that instance replaced.
RecordInHand ==
  \A c \in Calls : pc[c] \in {"resetting", "disposing"} =>
    \E k \in owed : /\ todo[c] = {k}
                    /\ k = at[c] \/ (pc[c] = "disposing" /\ k \notin live)

\* What was tainted when a call was admitted stays away from it: unknown to the router, or marked.
ShunIsOut ==
  /\ \A c \in Calls \ inside : held[c] = {} /\ shun[c] = {}
  /\ \A c \in inside : \A i \in shun[c] \cap live : i \notin seen \/ i \in unclean

IInv ==
  /\ TypeOK /\ EntryAgrees /\ AwaitsOne /\ StruckIsGone /\ OneLive /\ AdoptsTheOne
  /\ DirtIsHeld /\ RecordInHand /\ ShunIsOut /\ ResidueIsOwed /\ NoInheritance

-----------------------------------------------------------------------------
(* The initial state.                                                        *)

\* Nobody is inside, nothing is known, and nothing exists.
LEMMA InitIInv == Init => IInv
<1> SUFFICES ASSUME Init PROVE IInv
  OBVIOUS
<1>1. TypeOK
  BY DEF Init, A!Init, TypeOK, A!TypeOK, PCs
<1>2. EntryAgrees
  BY NamesAssumption DEF Init, A!Init, EntryAgrees, Within, Cleaning, Adopting, Actors
<1>3. AwaitsOne /\ StruckIsGone /\ OneLive /\ AdoptsTheOne
  BY DEF Init, AwaitsOne, StruckIsGone, OneLive, AdoptsTheOne, Disposing, Actors
<1>4. DirtIsHeld /\ RecordInHand /\ ShunIsOut
  BY DEF Init, A!Init, DirtIsHeld, RecordInHand, ShunIsOut, Actors
<1>5. ResidueIsOwed /\ NoInheritance
  BY DEF Init, ResidueIsOwed, NoInheritance
<1> QED
  BY <1>1, <1>2, <1>3, <1>4, <1>5 DEF IInv

-----------------------------------------------------------------------------
(* Types.                                                                    *)

\* The ledger's operations.
LEMMA LedgerTypes ==
  ASSUME TypeOK, NEW p \in Actors
  PROVE  /\ \A S \in SUBSET Targets : Mark(S) =>
              unclean' \subseteq Targets /\ snap' \in [Actors -> SUBSET Targets]
         /\ \A t \in Targets, reason \in BOOLEAN : Attempt(p, t, reason) =>
              /\ unclean' \subseteq Targets /\ snap' \in [Actors -> SUBSET Targets]
              /\ struck' \subseteq Actors
         /\ Land(p) => /\ unclean' \subseteq Targets /\ snap' \in [Actors -> SUBSET Targets]
                       /\ struck' \subseteq Actors /\ seen' \subseteq Instances
         /\ at[p] \in Targets /\ Miss(p) =>
              /\ unclean' \subseteq Targets /\ snap' \in [Actors -> SUBSET Targets]
              /\ struck' \subseteq Actors /\ seen' \subseteq Instances
<1>0. /\ unclean \subseteq Targets /\ snap \in [Actors -> SUBSET Targets]
      /\ struck \subseteq Actors /\ seen \subseteq Instances
  BY DEF TypeOK
<1>1. ASSUME NEW S \in SUBSET Targets, Mark(S)
      PROVE  unclean' \subseteq Targets /\ snap' \in [Actors -> SUBSET Targets]
  BY <1>0, <1>1 DEF Mark
<1>2. ASSUME NEW t \in Targets, NEW reason \in BOOLEAN, Attempt(p, t, reason)
      PROVE  /\ unclean' \subseteq Targets /\ snap' \in [Actors -> SUBSET Targets]
             /\ struck' \subseteq Actors
  BY <1>0, <1>2 DEF Attempt
<1>3. ASSUME Land(p)
      PROVE  /\ unclean' \subseteq Targets /\ snap' \in [Actors -> SUBSET Targets]
             /\ struck' \subseteq Actors /\ seen' \subseteq Instances
  BY <1>0, <1>3 DEF Land
<1>4. ASSUME at[p] \in Targets, Miss(p)
      PROVE  /\ unclean' \subseteq Targets /\ snap' \in [Actors -> SUBSET Targets]
             /\ struck' \subseteq Actors /\ seen' \subseteq Instances
  BY <1>0, <1>4 DEF Miss
<1> QED
  BY <1>1, <1>2, <1>3, <1>4

\* The engine's, and what they have in common: only what nobody refers to comes to live.
LEMMA EngineTypes ==
  ASSUME TypeOK, NEW i \in Instances
  PROVE  /\ GetOrCreate(i) => /\ live' \subseteq Instances
                              /\ dirt' = dirt /\ i \in live' /\ (i \notin live => Fresh(i) /\ live = {})
                              /\ live' = live \cup {i}
         /\ \A S : Remove(S) => /\ live' = live \ S
                                /\ dirt' \in [Instances -> SUBSET (Calls \cup {Gone})]
                                /\ \A k \in Instances : dirt'[k] = IF k \in S THEN {} ELSE dirt[k]
         /\ \A j \in Instances, left \in SUBSET (Calls \cup {Gone}) : Replace(i, j, left) =>
              /\ i # j /\ i \in live /\ j \notin live /\ Fresh(j)
              /\ live' = (live \ {i}) \cup {j}
              /\ dirt' \in [Instances -> SUBSET (Calls \cup {Gone})]
              /\ \A k \in Instances : dirt'[k] = IF k = j THEN left ELSE IF k = i THEN {} ELSE dirt[k]
         /\ \A j \in Instances : Unreset(i, j) => j = i \/ Replace(i, j, dirt[i])
<1>0. live \subseteq Instances /\ dirt \in [Instances -> SUBSET (Calls \cup {Gone})]
  BY DEF TypeOK
<1>1. ASSUME GetOrCreate(i)
      PROVE  /\ live' \subseteq Instances
             /\ dirt' = dirt /\ i \in live' /\ (i \notin live => Fresh(i) /\ live = {})
             /\ live' = live \cup {i}
  BY <1>0, <1>1 DEF GetOrCreate
<1>2. ASSUME NEW S, Remove(S)
      PROVE  /\ live' = live \ S
             /\ dirt' \in [Instances -> SUBSET (Calls \cup {Gone})]
             /\ \A k \in Instances : dirt'[k] = IF k \in S THEN {} ELSE dirt[k]
  BY <1>0, <1>2 DEF Remove
<1>3. ASSUME NEW j \in Instances, NEW left \in SUBSET (Calls \cup {Gone}), Replace(i, j, left)
      PROVE  /\ i # j /\ i \in live /\ j \notin live /\ Fresh(j)
             /\ live' = (live \ {i}) \cup {j}
             /\ dirt' \in [Instances -> SUBSET (Calls \cup {Gone})]
             /\ \A k \in Instances : dirt'[k] = IF k = j THEN left ELSE IF k = i THEN {} ELSE dirt[k]
  <2>1. i # j /\ i \in live /\ j \notin live /\ Fresh(j)
    BY <1>3 DEF Replace, Fresh
  <2> QED
    BY <1>0, <1>3, <2>1 DEF Replace
<1>4. \A j \in Instances : Unreset(i, j) => j = i \/ Replace(i, j, dirt[i])
  BY DEF Unreset
<1> QED
  BY <1>1, <1>2, <1>3, <1>4

-----------------------------------------------------------------------------
(* What keeps each part of the invariant.                                    *)

\* Only an id nobody refers to comes to live.
NoneReturns == \A i \in Instances : i \in live' /\ i \notin live => Fresh(i)

\* A mark goes only with its instance.
MarksStay == \A i \in unclean : i \notin unclean' => i \notin live'

\* What may happen to the engine, but for what a call does in a sandbox it was served.
EngineMoves ==
  \/ UNCHANGED engine
  \/ \E i \in Instances : GetOrCreate(i)
  \/ \E S \in SUBSET Instances : Remove(S)
  \/ \E i, j \in Instances : Replace(i, j, {}) \/ Replace(i, j, dirt[i])

\* The engine goes on keeping one instance, and data gets to no other than a reset's replacement.
LEMMA EngineKept ==
  ASSUME TypeOK, OneLive, EngineMoves
  PROVE  /\ live' \subseteq Instances
         /\ dirt' \in [Instances -> SUBSET (Calls \cup {Gone})]
         /\ NoneReturns /\ OneLive'
         /\ \A i \in Instances : \E k \in Instances : dirt'[i] \subseteq dirt[k]
         /\ \A i \in live' \cap live : dirt'[i] \subseteq dirt[i]
<1>0. live \subseteq Instances /\ dirt \in [Instances -> SUBSET (Calls \cup {Gone})]
  BY DEF TypeOK
<1>1. CASE UNCHANGED engine
  BY <1>0, <1>1 DEF engine, NoneReturns, OneLive
<1>2. ASSUME NEW i \in Instances, GetOrCreate(i)
      PROVE  /\ live' \subseteq Instances /\ dirt' = dirt /\ NoneReturns /\ OneLive'
  <2>1. /\ dirt' = dirt /\ (i \notin live => Fresh(i) /\ live = {}) /\ live' = live \cup {i}
    BY <1>2, EngineTypes
  <2> QED
    BY <1>0, <2>1 DEF NoneReturns, OneLive
<1>3. ASSUME NEW S \in SUBSET Instances, Remove(S)
      PROVE  /\ live' \subseteq Instances
             /\ dirt' \in [Instances -> SUBSET (Calls \cup {Gone})]
             /\ NoneReturns /\ OneLive'
             /\ \A k \in Instances : dirt'[k] \subseteq dirt[k]
  <2>1. /\ live' = live \ S /\ dirt' \in [Instances -> SUBSET (Calls \cup {Gone})]
        /\ \A k \in Instances : dirt'[k] = IF k \in S THEN {} ELSE dirt[k]
    BY <1>3, EngineTypes DEF Remove, TypeOK
  <2> QED
    BY <1>0, <2>1 DEF NoneReturns, OneLive
<1>4. ASSUME NEW i \in Instances, NEW j \in Instances, NEW left \in {{}, dirt[i]}, Replace(i, j, left)
      PROVE  /\ live' \subseteq Instances
             /\ dirt' \in [Instances -> SUBSET (Calls \cup {Gone})]
             /\ NoneReturns /\ OneLive'
             /\ \A k \in Instances : \E l \in Instances : dirt'[k] \subseteq dirt[l]
             /\ \A k \in live' \cap live : dirt'[k] \subseteq dirt[k]
  <2>1. left \in SUBSET (Calls \cup {Gone}) /\ left \subseteq dirt[i]
    BY <1>0
  <2>2. /\ i # j /\ i \in live /\ j \notin live /\ Fresh(j)
        /\ live' = (live \ {i}) \cup {j}
        /\ dirt' \in [Instances -> SUBSET (Calls \cup {Gone})]
        /\ \A k \in Instances : dirt'[k] = IF k = j THEN left ELSE IF k = i THEN {} ELSE dirt[k]
    BY <1>4, <2>1, EngineTypes
  <2>3. NoneReturns
    BY <1>0, <2>2 DEF NoneReturns
  <2>4. live' = {j}
    BY <1>0, <2>2 DEF OneLive
  <2>5. OneLive'
    BY <1>0, <2>2, <2>4 DEF OneLive
  <2>6. \A k \in Instances : \E l \in Instances : dirt'[k] \subseteq dirt[l]
    <3> SUFFICES ASSUME NEW k \in Instances PROVE dirt'[k] \subseteq dirt[i] \/ dirt'[k] \subseteq dirt[k]
      OBVIOUS
    <3> QED
      BY <2>1, <2>2
  <2> QED
    BY <1>0, <2>2, <2>3, <2>4, <2>5, <2>6
<1> QED
  <2>1. CASE \E i \in Instances : GetOrCreate(i)
    BY <1>0, <1>2, <2>1
  <2>2. CASE \E S \in SUBSET Instances : Remove(S)
    BY <1>0, <1>3, <2>2
  <2>3. CASE \E i, j \in Instances : Replace(i, j, {}) \/ Replace(i, j, dirt[i])
    BY <1>4, <2>3
  <2>4. CASE UNCHANGED engine
    BY <1>0, <1>1, <2>4 DEF engine
  <2> QED
    BY <2>1, <2>2, <2>3, <2>4 DEF EngineMoves

\* A step of one actor leaves the others where they are, and takes no mark into their snapshots.
OthersKept(p) ==
  /\ \A q \in Actors : q # p =>
       /\ pc'[q] = pc[q] /\ at'[q] = at[q] /\ todo'[q] = todo[q]
       /\ snap'[q] \subseteq snap[q]
       /\ q \in struck' => q \in struck
  /\ \A d \in Calls : d # p => held'[d] = held[d] /\ shun'[d] = shun[d]

\* Whoever has struck stays struck at an instance that does not come back.
LEMMA StruckKept ==
  ASSUME TypeOK, TypeOK', AwaitsOne, StruckIsGone, NoneReturns, NEW p \in Actors, OthersKept(p),
         p \in struck' => p \in struck /\ pc'[p] = pc[p] /\ at'[p] = at[p] /\ snap'[p] \subseteq snap[p],
         pc'[p] \in Disposing \ {"retrying"} /\ at'[p] # Whole => snap'[p] \subseteq {at'[p]}
  PROVE  StruckIsGone'
<1>0. struck' \subseteq Actors /\ live' \subseteq Instances /\ \A q \in Actors : snap[q] \subseteq Targets
  BY DEF TypeOK
<1>1. \A q \in struck' : q \in struck /\ pc'[q] = pc[q] /\ at'[q] = at[q] /\ snap'[q] \subseteq snap[q]
  BY <1>0 DEF OthersKept
<1>2. \A q \in struck' : at'[q] \notin live'
  BY <1>0, <1>1 DEF StruckIsGone, NoneReturns, Fresh
<1>3. \A q \in struck' : at'[q] = Whole => snap'[q] \cap live' = {}
  BY <1>0, <1>1 DEF StruckIsGone, NoneReturns, Fresh
<1>4. \A q \in Actors : pc'[q] \in Disposing \ {"retrying"} /\ at'[q] # Whole => snap'[q] \subseteq {at'[q]}
  BY DEF StruckIsGone, OthersKept
<1>5. \A q \in struck' : pc'[q] \in Disposing
  BY <1>1 DEF StruckIsGone
<1> QED
  BY <1>2, <1>3, <1>4, <1>5 DEF StruckIsGone, Disposing

\* A call goes about its own business inside; at most it condemns an instance.
LEMMA EntryKept ==
  ASSUME EntryAgrees, NEW c \in Calls, OthersKept(c), pc[c] \in Within, pc'[c] \in Within,
         UNCHANGED <<inside, alone>>,
         UNCHANGED <<owed, open>> \/ open' = FALSE,
         c \in Adopting' => c \in Adopting \/ Adopting = {}
  PROVE  EntryAgrees'
<1>0. \A d \in Actors : d # c => pc'[d] = pc[d]
  BY DEF OthersKept
<1>1. c # Host /\ Host \in Actors /\ Calls \subseteq Actors
  BY NamesAssumption DEF Actors
<1>2. \A d \in Calls : d # c => (d \in Adopting' <=> d \in Adopting)
  BY <1>0, <1>1 DEF Adopting
<1>3. \A d \in Calls : pc[d] \notin Cleaning /\ pc'[d] \notin Cleaning
  <2>1. c \in inside
    BY DEF EntryAgrees
  <2>2. Within \cap Cleaning = {}
    BY DEF Within, Cleaning
  <2> QED
    BY <1>0, <1>1, <2>1, <2>2 DEF EntryAgrees
<1>4. \A d, e \in Adopting' : d = e
  BY <1>2 DEF EntryAgrees, Adopting
<1>5. \A d \in Calls : d \in inside' <=> pc'[d] \in Within
  BY <1>0, <1>1 DEF EntryAgrees
<1>6. \A d \in Calls : pc'[d] \in Within \cup Cleaning \cup {"out"}
  BY <1>0, <1>1 DEF EntryAgrees
<1> QED
  BY <1>0, <1>1, <1>3, <1>4, <1>5, <1>6 DEF EntryAgrees

\* Whoever cleans goes on cleaning, and owes no more than before.
LEMMA EntryCleaned ==
  ASSUME EntryAgrees, NEW c \in Calls, OthersKept(c), pc[c] \in Cleaning, pc'[c] \in Cleaning,
         UNCHANGED <<inside, alone, open>>, owed' \subseteq owed
  PROVE  EntryAgrees'
<1>0. \A d \in Actors : d # c => pc'[d] = pc[d]
  BY DEF OthersKept
<1>1. c # Host /\ Host \in Actors /\ Calls \subseteq Actors
  BY NamesAssumption DEF Actors
<1>2. Within \cap Cleaning = {}
  BY DEF Within, Cleaning
<1>3. \A d \in Calls : d \in inside' <=> pc'[d] \in Within
  BY <1>0, <1>1, <1>2 DEF EntryAgrees
<1>4. \A d \in Calls : pc'[d] \notin Within
  BY <1>2, <1>3 DEF EntryAgrees
<1>5. Adopting' = {}
  BY <1>4 DEF Adopting, Within
<1>6. \A d \in Calls : pc'[d] \in Within \cup Cleaning \cup {"out"}
  BY <1>0, <1>1 DEF EntryAgrees
<1>7. \A d \in Calls : pc'[d] \in Cleaning => d = c
  BY <1>0, <1>1 DEF EntryAgrees
<1> QED
  BY <1>0, <1>1, <1>3, <1>5, <1>6, <1>7 DEF EntryAgrees

\* Nothing is forgotten that is owed, and nobody's data gets where it was not, but for a sandbox
\* the router takes as unknown.
Calm ==
  /\ inside \subseteq inside' /\ owed \subseteq owed'
  /\ NoneReturns /\ MarksStay
  /\ \A d \in Calls : pc[d] \in {"resetting", "disposing"} =>
       pc'[d] = pc[d] /\ at'[d] = at[d] /\ todo'[d] = todo[d]
  /\ \A d \in Calls : pc'[d] \in {"resetting", "disposing"} => pc'[d] = pc[d]
  /\ \A i \in Instances : \E k \in Instances : dirt'[i] \subseteq dirt[k]
  /\ \A i \in live' \cap seen' :
       dirt'[i] = {} \/ (i \in live /\ i \in seen /\ dirt'[i] \subseteq dirt[i])
  /\ \A d \in Calls : held[d] \subseteq held'[d]
  /\ \A d \in Calls : pc'[d] \in {"closing", "reclaiming"} =>
       \A i \in held[d] : \/ i \in todo'[d] \cup owed' \cup unclean'
                          \/ i \in live' /\ d \notin dirt'[i]
                          \/ pc[d] \in {"closing", "reclaiming"} /\ i \notin todo[d]

\* A calm step keeps what is said of data: whose it is, who owes its cleanup, and the record in hand.
LEMMA CalmKeeps ==
  ASSUME TypeOK, DirtIsHeld, RecordInHand, ResidueIsOwed, Calm, live' \subseteq Instances
  PROVE  DirtIsHeld' /\ RecordInHand' /\ ResidueIsOwed'
<1>0. owed \subseteq Instances /\ live \subseteq Instances
  BY DEF TypeOK, A!TypeOK
<1>1. \A i \in Instances : \A c \in dirt'[i] : c = Gone \/ c \in inside'
  BY DEF DirtIsHeld, Calm
<1>2. ASSUME NEW i \in live', i \in seen', NEW c \in dirt'[i], c # Gone
      PROVE  /\ i \in held'[c]
             /\ pc'[c] \in {"closing", "reclaiming"} => i \in todo'[c] \cup owed' \cup unclean'
  <2>1. i \in live /\ i \in seen /\ c \in dirt[i]
    BY <1>2 DEF Calm
  <2>2. c \in Calls
    BY <1>0, <1>2, <2>1 DEF TypeOK
  <2>3. i \in held[c] /\ (pc[c] \in {"closing", "reclaiming"} => i \in todo[c] \cup owed \cup unclean)
    BY <1>2, <2>1 DEF DirtIsHeld
  <2>4. i \in unclean => i \in unclean'
    BY <1>2 DEF Calm, MarksStay
  <2> QED
    BY <1>2, <2>2, <2>3, <2>4 DEF Calm
<1>3. RecordInHand'
  <2> SUFFICES ASSUME NEW c \in Calls, pc'[c] \in {"resetting", "disposing"}
               PROVE  \E k \in owed' : /\ todo'[c] = {k}
                                       /\ k = at'[c] \/ (pc'[c] = "disposing" /\ k \notin live')
    BY DEF RecordInHand
  <2>1. pc'[c] = pc[c] /\ at'[c] = at[c] /\ todo'[c] = todo[c]
    BY DEF Calm
  <2>2. PICK k \in owed : todo[c] = {k} /\ (k = at[c] \/ (pc[c] = "disposing" /\ k \notin live))
    BY <2>1 DEF RecordInHand
  <2>3. ~Fresh(k)
    BY <2>2 DEF Fresh
  <2>4. k \in owed' /\ (k \notin live => k \notin live')
    BY <1>0, <2>2, <2>3 DEF Calm, NoneReturns
  <2> QED
    BY <2>1, <2>2, <2>4
<1>4. ResidueIsOwed'
  <2> SUFFICES ASSUME NEW i \in live', i \in seen', Gone \in dirt'[i]
               PROVE  \/ i \in owed' \cup unclean'
                      \/ \E c \in Calls : pc'[c] \in {"resetting", "disposing"} /\ at'[c] = i
    BY DEF ResidueIsOwed
  <2>1. i \in live /\ i \in seen /\ Gone \in dirt[i]
    BY DEF Calm
  <2>2. i \in owed \/ i \in unclean \/ \E c \in Calls : pc[c] \in {"resetting", "disposing"} /\ at[c] = i
    BY <2>1 DEF ResidueIsOwed
  <2> QED
    BY <2>2 DEF Calm, MarksStay
<1> QED
  BY <1>1, <1>2, <1>3, <1>4 DEF DirtIsHeld

\* What is new to the router is clean, and who comes in has nothing yet.
LEMMA ShunKept ==
  ASSUME TypeOK, ShunIsOut, NoneReturns, MarksStay, live' \subseteq Instances,
         \A i \in seen' : i \in seen \/ Fresh(i),
         \A d \in Calls : d \in inside' => d \in inside /\ shun'[d] \subseteq shun[d],
         \A d \in Calls : d \notin inside' => held'[d] = {} /\ shun'[d] = {},
         inside' \subseteq Calls
  PROVE  ShunIsOut'
<1> SUFFICES ASSUME NEW d \in inside', NEW i \in shun'[d], i \in live'
             PROVE  i \notin seen' \/ i \in unclean'
  BY DEF ShunIsOut
<1>1. d \in Calls /\ d \in inside /\ i \in shun[d] /\ ~Fresh(i)
  BY DEF Fresh
<1>2. i \in live
  BY <1>1 DEF NoneReturns
<1>3. i \notin seen \/ i \in unclean
  BY <1>1, <1>2 DEF ShunIsOut
<1> QED
  BY <1>1, <1>3 DEF MarksStay

\* A call is served what is new, or what the router knows while no mark is on the key.
LEMMA InheritanceKept ==
  ASSUME ShunIsOut, NoInheritance,
         \A d \in Calls : shun'[d] \subseteq shun[d],
         \A d \in Calls : \A i \in held'[d] : \/ i \in held[d]
                                              \/ Fresh(i)
                                              \/ i \in live /\ i \in seen /\ unclean = {}
  PROVE  NoInheritance'
<1> SUFFICES ASSUME NEW d \in Calls, NEW i \in held'[d], i \in shun[d], i \notin held[d] PROVE FALSE
  BY DEF NoInheritance
<1>1. d \in inside /\ ~Fresh(i)
  BY DEF ShunIsOut, Fresh
<1> QED
  BY <1>1 DEF ShunIsOut

-----------------------------------------------------------------------------
(* A call inside: acquiring, adopting, and handing back what it was served.    *)

Awaiting == {"restoring", "evicting", "refusing", "reclaiming", "resetting", "disposing"}

\* What a step of a call inside must be to preserve the invariant.
LEMMA WithinStep ==
  ASSUME IInv, TypeOK', NEW c \in Calls, OthersKept(c), pc[c] \in Within, pc'[c] \in Within,
         EngineMoves, live' \subseteq live \/ c \in Adopting, MarksStay,
         UNCHANGED <<inside, alone>>,
         UNCHANGED <<owed, open>> \/ (open' = FALSE /\ owed \subseteq owed'),
         c \in Adopting' => c \in Adopting \/ Adopting = {},
         pc'[c] \in Awaiting => at'[c] \in Instances,
         pc'[c] \in {"restoring", "evicting"} => live' \subseteq {at'[c]},
         pc'[c] = "recreating" => live' = {},
         c \in struck' => c \in struck /\ pc'[c] = pc[c] /\ at'[c] = at[c] /\ snap'[c] \subseteq snap[c],
         pc'[c] \in Disposing => snap'[c] \subseteq {at'[c]},
         \A i \in seen' : i \in seen \/ Fresh(i),
         \A i \in live' \cap seen' : dirt'[i] = {} \/ (i \in live /\ i \in seen),
         shun' = shun, held[c] \subseteq held'[c],
         \A i \in held'[c] : i \in held[c] \/ Fresh(i) \/ (i \in live /\ i \in seen /\ unclean = {}),
         pc'[c] \in {"closing", "reclaiming"} =>
           \A i \in held[c] : \/ i \in todo'[c] \cup owed' \cup unclean'
                              \/ pc[c] \in {"closing", "reclaiming"} /\ i \notin todo[c]
  PROVE  IInv'
<1>0. /\ c \in Actors /\ c # Host /\ Calls \subseteq Actors /\ Actors = Calls \cup {Host}
      /\ c \in inside
  BY NamesAssumption DEF Actors, IInv, EntryAgrees
<1>1. /\ live' \subseteq Instances /\ NoneReturns /\ OneLive'
      /\ \A i \in Instances : \E k \in Instances : dirt'[i] \subseteq dirt[k]
      /\ \A i \in live' \cap live : dirt'[i] \subseteq dirt[i]
  BY EngineKept DEF IInv
<1>2. EntryAgrees'
  BY EntryKept DEF IInv
<1>3. AwaitsOne'
  <2>1. \A d \in Calls : pc'[d] \in Awaiting => at'[d] \in Instances
    BY <1>0 DEF IInv, AwaitsOne, OthersKept, Awaiting
  <2>2. \A p \in Actors : pc'[p] \in Disposing => at'[p] \in Targets
    <3>1. pc'[c] \in Disposing => pc'[c] \in Awaiting \/ pc'[c] = "retrying"
      BY DEF Disposing, Awaiting
    <3>2. pc'[c] # "retrying"
      BY DEF Within
    <3> QED
      BY <1>0, <2>1, <3>1, <3>2 DEF IInv, AwaitsOne, OthersKept, Targets
  <2> QED
    BY <2>1, <2>2 DEF AwaitsOne, Awaiting
<1>4. StruckIsGone'
  BY <1>0, <1>1, StruckKept DEF IInv
<1>5. AdoptsTheOne'
  <2> SUFFICES ASSUME NEW d \in Calls, d # c
               PROVE  /\ pc'[d] \in {"restoring", "evicting"} => live' \subseteq {at'[d]}
                      /\ pc'[d] = "recreating" => live' = {}
    BY DEF AdoptsTheOne
  <2>1. pc'[d] = pc[d] /\ at'[d] = at[d]
    BY <1>0 DEF OthersKept
  <2>2. pc[d] \in {"restoring", "evicting", "recreating"} => c \notin Adopting
    BY DEF IInv, EntryAgrees, Adopting
  <2> QED
    BY <2>1, <2>2 DEF IInv, AdoptsTheOne
<1>6. Calm
  <2>1. \A d \in Calls : pc[d] \notin {"resetting", "disposing"} /\ pc'[d] \notin {"resetting", "disposing"}
    <3>1. \A d \in Calls : pc[d] \notin {"resetting", "disposing"}
      BY <1>0 DEF IInv, EntryAgrees, Cleaning
    <3>2. pc'[c] \notin {"resetting", "disposing"}
      BY DEF Within
    <3> QED
      BY <1>0, <3>1, <3>2 DEF OthersKept
  <2>2. \A d \in Calls : held[d] \subseteq held'[d]
    BY DEF OthersKept
  <2>3. \A d \in Calls : d # c /\ pc'[d] \in {"closing", "reclaiming"} =>
           pc[d] \in {"closing", "reclaiming"} /\ todo'[d] = todo[d]
    BY <1>0 DEF OthersKept
  <2>4. inside \subseteq inside' /\ owed \subseteq owed'
    OBVIOUS
  <2>5. \A i \in live' \cap seen' :
           dirt'[i] = {} \/ (i \in live /\ i \in seen /\ dirt'[i] \subseteq dirt[i])
    BY <1>1
  <2>6. \A d \in Calls : pc'[d] \in {"closing", "reclaiming"} =>
           \A i \in held[d] : \/ i \in todo'[d] \cup owed' \cup unclean'
                              \/ pc[d] \in {"closing", "reclaiming"} /\ i \notin todo[d]
    BY <2>3
  <2> QED
    BY <1>1, <2>1, <2>2, <2>4, <2>5, <2>6 DEF Calm
<1>7. DirtIsHeld' /\ RecordInHand' /\ ResidueIsOwed'
  BY <1>1, <1>6, CalmKeeps DEF IInv
<1>8. ShunIsOut'
  <2>1. \A d \in Calls : d \notin inside' => held'[d] = {} /\ shun'[d] = {}
    BY <1>0 DEF IInv, ShunIsOut, OthersKept
  <2>2. inside' \subseteq Calls
    BY DEF TypeOK, A!TypeOK
  <2> QED
    BY <1>1, <2>1, <2>2, ShunKept DEF IInv
<1>9. NoInheritance'
  <2>1. \A d \in Calls : \A i \in held'[d] : \/ i \in held[d]
                                             \/ Fresh(i)
                                             \/ i \in live /\ i \in seen /\ unclean = {}
    BY DEF OthersKept
  <2> QED
    BY <2>1, InheritanceKept DEF IInv
<1> QED
  BY <1>1, <1>2, <1>3, <1>4, <1>5, <1>7, <1>8, <1>9 DEF IInv

\* What the ledger's operations do to the marks, the snapshots and the attempts of others.
LEMMA LedgerMoves ==
  ASSUME TypeOK, StruckIsGone, NEW p \in Actors
  PROVE  /\ \A t, reason : Attempt(p, t, reason) =>
              /\ unclean \subseteq unclean' /\ struck' = struck \ {p}
              /\ \A q \in Actors : q # p => snap'[q] \subseteq snap[q]
              /\ t # Whole => snap'[p] \subseteq {t}
         /\ \A S : Mark(S) => /\ unclean' = unclean \cup S
                              /\ \A q \in Actors : snap'[q] \subseteq snap[q]
         /\ Land(p) => /\ \A i \in unclean : i \notin unclean' => i \in snap[p]
                       /\ struck' = struck \ {p} /\ p \in struck /\ seen' \subseteq seen
                       /\ at[p] \notin seen'
                       /\ \A q \in Actors : snap'[q] \subseteq snap[q] /\ snap'[p] = {}
         /\ Miss(p) => /\ unclean \subseteq unclean' /\ struck' = struck \ {p} /\ seen' = seen
                       /\ at[p] \in unclean'
                       /\ \A q \in Actors : snap'[q] \subseteq snap[q] /\ snap'[p] = {}
<1>0. snap \in [Actors -> SUBSET Targets] /\ seen \subseteq Instances
  BY DEF TypeOK
<1>1. ASSUME NEW t, NEW reason, Attempt(p, t, reason)
      PROVE  /\ unclean \subseteq unclean' /\ struck' = struck \ {p}
             /\ \A q \in Actors : q # p => snap'[q] \subseteq snap[q]
             /\ t # Whole => snap'[p] \subseteq {t}
  BY <1>0, <1>1 DEF Attempt
<1>2. ASSUME NEW S, Mark(S)
      PROVE  unclean' = unclean \cup S /\ \A q \in Actors : snap'[q] \subseteq snap[q]
  BY <1>0, <1>2 DEF Mark
<1>3. ASSUME Land(p)
      PROVE  /\ \A i \in unclean : i \notin unclean' => i \in snap[p]
             /\ struck' = struck \ {p} /\ p \in struck /\ seen' \subseteq seen
             /\ at[p] \notin seen'
             /\ \A q \in Actors : snap'[q] \subseteq snap[q] /\ snap'[p] = {}
  BY <1>0, <1>3 DEF Land
<1>4. ASSUME Miss(p)
      PROVE  /\ unclean \subseteq unclean' /\ struck' = struck \ {p} /\ seen' = seen
             /\ at[p] \in unclean'
             /\ \A q \in Actors : snap'[q] \subseteq snap[q] /\ snap'[p] = {}
  BY <1>0, <1>4 DEF Miss
<1> QED
  BY <1>1, <1>2, <1>3, <1>4

\* A call's delete that has landed retires the marks of the one instance it deleted.
LEMMA LandingRetires ==
  ASSUME TypeOK, AwaitsOne, StruckIsGone, NEW p \in Actors, pc[p] \in Disposing \ {"retrying"},
         Land(p), live' = live
  PROVE  MarksStay
<1>1. \A i \in unclean : i \notin unclean' => i \in snap[p]
  BY LedgerMoves
<1>2. p \in struck
  BY DEF Land
<1>3. CASE at[p] = Whole
  BY <1>1, <1>2, <1>3 DEF StruckIsGone, MarksStay
<1>4. CASE at[p] # Whole
  BY <1>1, <1>2, <1>4 DEF StruckIsGone, MarksStay
<1> QED
  BY <1>3, <1>4

\* A key is refused, or backend.acquire is asked under the adoption slot.
LEMMA AcquireStep ==
  ASSUME IInv, NEW c \in Calls, Acquire(c), UNCHANGED setup
  PROVE  IInv'
<1>0. /\ pc[c] = "inside" /\ Adopting = {}
      /\ pc' = [pc EXCEPT ![c] = "acquiring"] /\ at' = [at EXCEPT ![c] = Nothing]
      /\ UNCHANGED <<inside, alone, owed, open, held, todo, seen, unclean, snap, struck, live, dirt, shun>>
      /\ TypeOK /\ c \in Actors
  BY DEF Acquire, Goto, admission, ledger, engine, IInv, Actors
<1>1. pc'[c] = "acquiring" /\ \A q \in Actors : q # c => pc'[q] = pc[q] /\ at'[q] = at[q]
  BY <1>0 DEF TypeOK
<1>2. TypeOK'
  BY <1>0 DEF TypeOK, A!TypeOK, PCs
<1>3. OthersKept(c)
  BY <1>0, <1>1 DEF OthersKept
<1>4. EngineMoves /\ MarksStay
  BY <1>0 DEF EngineMoves, MarksStay, engine
<1>5. c \notin struck
  BY <1>0 DEF IInv, StruckIsGone, Disposing
<1> QED
  BY <1>0, <1>1, <1>2, <1>3, <1>4, <1>5, WithinStep DEF Within, Awaiting, Disposing

\* What every adoption of a served instance shares (the branches of _acquire_and_adopt that end in
\* a sandbox for the call).
LEMMA ServeStep ==
  ASSUME IInv, NEW c \in Adopting, pc[c] \notin Disposing,
         NEW i \in Instances, Serve(c, i), UNCHANGED <<setup, shun, admission>>,
         EngineMoves, unclean = {}, i \in live',
         Fresh(i) \/ (i \in live /\ i \in seen), Fresh(i) => dirt'[i] = {},
         seen' \subseteq seen \cup {i}, seen' \subseteq Instances,
         live' \subseteq Instances, dirt' \in [Instances -> SUBSET (Calls \cup {Gone})]
  PROVE  IInv'
<1>0. /\ pc' = [pc EXCEPT ![c] = "inside"] /\ at' = [at EXCEPT ![c] = Nothing]
      /\ held' = [held EXCEPT ![c] = @ \cup {i}]
      /\ UNCHANGED <<inside, alone, owed, open, todo, unclean, snap, struck, shun>>
      /\ TypeOK /\ c \in Actors /\ c \in Calls /\ pc[c] \in Within
  BY DEF Serve, Goto, admission, ledger, IInv, Actors, Adopting, Within
<1>1. /\ pc'[c] = "inside" /\ \A q \in Actors : q # c => pc'[q] = pc[q] /\ at'[q] = at[q]
      /\ held'[c] = held[c] \cup {i} /\ \A d \in Calls : d # c => held'[d] = held[d]
  BY <1>0 DEF TypeOK
<1>2. TypeOK'
  BY <1>0 DEF TypeOK, A!TypeOK, PCs
<1>3. OthersKept(c)
  BY <1>0, <1>1 DEF OthersKept
<1>4. MarksStay
  BY <1>0 DEF MarksStay
<1>5. c \in struck' => FALSE
  BY <1>0 DEF IInv, StruckIsGone
<1>6. \A k \in live' \cap seen' : dirt'[k] = {} \/ (k \in live /\ k \in seen)
  <2> SUFFICES ASSUME NEW k \in live', k \in seen', k # i PROVE dirt'[k] = {} \/ (k \in live /\ k \in seen)
    OBVIOUS
  <2>1. OneLive'
    BY EngineKept DEF IInv
  <2> QED
    BY <2>1 DEF OneLive
<1> QED
  BY <1>0, <1>1, <1>2, <1>3, <1>4, <1>5, <1>6, WithinStep DEF Within, Awaiting, Disposing

\* What every delete an acquire asks for shares: of the instance in hand, marked or not.
LEMMA AskStep ==
  ASSUME IInv, NEW c \in Adopting, pc[c] \notin Disposing, NEW i \in Instances,
         NEW reason \in BOOLEAN, Attempt(c, i, reason),
         NEW next \in {"evicting", "refusing"}, Goto(c, next, i),
         UNCHANGED <<setup, shun, admission, held, todo, seen>>,
         EngineMoves, next = "evicting" => live' \subseteq {i},
         live' \subseteq Instances, dirt' \in [Instances -> SUBSET (Calls \cup {Gone})]
  PROVE  IInv'
<1>0. /\ pc' = [pc EXCEPT ![c] = next] /\ at' = [at EXCEPT ![c] = i]
      /\ UNCHANGED <<inside, alone, owed, open, todo, held, seen, shun>>
      /\ TypeOK /\ c \in Actors /\ c \in Calls /\ pc[c] \in Within /\ i \in Targets /\ i # Whole
  BY NamesAssumption DEF Goto, admission, IInv, Actors, Adopting, Within, Targets
<1>1. /\ pc'[c] = next /\ at'[c] = i
      /\ \A q \in Actors : q # c => pc'[q] = pc[q] /\ at'[q] = at[q]
  BY <1>0 DEF TypeOK
<1>2. /\ unclean \subseteq unclean' /\ struck' = struck \ {c}
      /\ \A q \in Actors : q # c => snap'[q] \subseteq snap[q]
      /\ snap'[c] \subseteq {i}
  BY <1>0, LedgerMoves DEF IInv
<1>3. TypeOK'
  <2>1. unclean' \subseteq Targets /\ snap' \in [Actors -> SUBSET Targets] /\ struck' \subseteq Actors
    BY <1>0, LedgerTypes
  <2> QED
    BY <1>0, <2>1 DEF TypeOK, A!TypeOK, PCs
<1>4. OthersKept(c)
  BY <1>0, <1>1, <1>2 DEF OthersKept
<1>5. MarksStay
  BY <1>2 DEF MarksStay
<1>6. \A k \in live' \cap seen' : k \in live /\ k \in seen
  <2>1. NoneReturns
    BY EngineKept DEF IInv
  <2> QED
    BY <1>0, <2>1 DEF NoneReturns, Fresh
<1> QED
  BY <1>0, <1>1, <1>2, <1>3, <1>4, <1>5, <1>6, WithinStep DEF Within, Awaiting, Adopting

\* backend.acquire returned an instance.
LEMMA AdoptStep ==
  ASSUME IInv, NEW c \in Calls, NEW i \in Instances, NEW marked \in BOOLEAN, Adopt(c, i, marked),
         UNCHANGED setup
  PROVE  IInv'
<1>0. /\ pc[c] = "acquiring" /\ c \in Adopting /\ pc[c] \notin Disposing
      /\ GetOrCreate(i) /\ (marked => i \notin live) /\ UNCHANGED <<admission, shun>>
      /\ TypeOK /\ live' \subseteq Instances /\ dirt' = dirt
      /\ dirt' \in [Instances -> SUBSET (Calls \cup {Gone})]
  BY EngineTypes DEF Adopt, Adopting, Disposing, IInv, TypeOK
<1>1. EngineMoves
  BY <1>0 DEF EngineMoves
<1>2. /\ i \in live' /\ (i \notin live => Fresh(i)) /\ (Fresh(i) => i \notin live)
      /\ (i \notin live => live = {}) /\ live' = live \cup {i}
  BY <1>0, EngineTypes DEF Fresh
<1>3. Fresh(i) => dirt'[i] = {}
  BY <1>0, <1>2 DEF IInv, OneLive
<1>4. CASE unclean # {} /\ RefuseTheCreate(c, i) /\ UNCHANGED seen
  BY <1>0, <1>1, <1>4, AskStep DEF RefuseTheCreate
<1>5. CASE unclean = {} /\ (i \in seen \/ marked) /\ Serve(c, i) /\ seen' = seen \cup {i}
  <2>1. Fresh(i) \/ (i \in live /\ i \in seen)
    BY <1>0, <1>2, <1>5
  <2>2. seen' \subseteq Instances
    BY <1>0, <1>5 DEF TypeOK
  <2> QED
    BY <1>0, <1>1, <1>2, <1>3, <1>5, <2>1, <2>2, ServeStep
<1>6. CASE unclean = {} /\ Goto(c, "restoring", i) /\ UNCHANGED <<ledger, held, todo, seen>>
  <2>1. /\ pc'[c] = "restoring" /\ at'[c] = i
        /\ \A q \in Actors : q # c => pc'[q] = pc[q] /\ at'[q] = at[q]
        /\ UNCHANGED <<inside, alone, owed, open, todo, held, seen, unclean, snap, struck, shun>>
        /\ c \in Actors /\ pc[c] \in Within
    BY <1>0, <1>6 DEF TypeOK, Goto, admission, ledger, Actors, Within
  <2>2. TypeOK'
    BY <1>0, <1>6, <2>1 DEF TypeOK, A!TypeOK, PCs, Targets, Goto
  <2>3. OthersKept(c)
    BY <2>1 DEF OthersKept
  <2>4. MarksStay
    BY <2>1 DEF MarksStay
  <2>5. live' \subseteq {i}
    BY <1>0, <1>2 DEF IInv, OneLive, TypeOK
  <2>6. c \notin struck'
    BY <1>0, <2>1 DEF IInv, StruckIsGone
  <2>7. \A k \in live' \cap seen' : dirt'[k] = {} \/ (k \in live /\ k \in seen)
    BY <1>2, <1>3, <2>1, <2>5
  <2> QED
    BY <1>0, <1>1, <2>1, <2>2, <2>3, <2>4, <2>5, <2>6, <2>7, WithinStep DEF Within, Awaiting, Disposing
<1>7. CASE unclean = {} /\ Goto(c, "evicting", i) /\ Attempt(c, i, FALSE) /\ UNCHANGED <<held, todo, seen>>
  <2>1. live' \subseteq {i}
    BY <1>0, <1>2 DEF IInv, OneLive, TypeOK
  <2> QED
    BY <1>0, <1>1, <1>7, <2>1, AskStep
<1> QED
  BY <1>4, <1>5, <1>6, <1>7 DEF Adopt

\* What every end of an await of acquire shares, where the call is served nothing.
LEMMA ReturnStep ==
  ASSUME IInv, NEW c \in Adopting, NEW next \in {"inside", "recreating"}, Goto(c, next, Nothing),
         UNCHANGED <<setup, shun, admission, held, todo>>,
         EngineMoves, live' \subseteq Instances, dirt' \in [Instances -> SUBSET (Calls \cup {Gone})],
         next = "recreating" => live' = {},
         MarksStay, seen' \subseteq seen, unclean' \subseteq Targets,
         snap' \in [Actors -> SUBSET Targets], \A q \in Actors : snap'[q] \subseteq snap[q],
         struck' \subseteq struck \ {c}
  PROVE  IInv'
<1>0. /\ pc' = [pc EXCEPT ![c] = next] /\ at' = [at EXCEPT ![c] = Nothing]
      /\ UNCHANGED <<inside, alone, owed, open, todo, held, shun>>
      /\ TypeOK /\ c \in Actors /\ c \in Calls /\ pc[c] \in Within
  BY DEF Goto, admission, IInv, Actors, Adopting, Within
<1>1. pc'[c] = next /\ \A q \in Actors : q # c => pc'[q] = pc[q] /\ at'[q] = at[q]
  BY <1>0 DEF TypeOK
<1>2. TypeOK'
  BY <1>0 DEF TypeOK, A!TypeOK, PCs
<1>3. OthersKept(c)
  BY <1>0, <1>1 DEF OthersKept
<1>4. \A k \in live' \cap seen' : k \in live /\ k \in seen
  <2>1. NoneReturns
    BY EngineKept DEF IInv
  <2> QED
    BY <1>0, <2>1 DEF NoneReturns, Fresh
<1> QED
  BY <1>0, <1>1, <1>2, <1>3, <1>4, WithinStep DEF Within, Awaiting, Disposing, Adopting

\* backend.acquire raised or was cancelled.
LEMMA AcquireFailsStep ==
  ASSUME IInv, NEW c \in Calls, AcquireFails(c), UNCHANGED setup
  PROVE  IInv'
<1>0. /\ c \in Adopting /\ Goto(c, "inside", Nothing) /\ TypeOK
      /\ UNCHANGED <<admission, held, todo, seen, unclean, snap, struck, shun>>
      /\ pc[c] \notin Disposing
  BY DEF AcquireFails, Adopting, ledger, IInv, Disposing
<1>1. EngineMoves
  BY DEF AcquireFails, EngineMoves
<1>2. live' \subseteq Instances /\ dirt' \in [Instances -> SUBSET (Calls \cup {Gone})]
  BY <1>1, EngineKept DEF IInv
<1>3. MarksStay
  BY <1>0 DEF MarksStay
<1>4. struck' \subseteq struck \ {c}
  BY <1>0 DEF IInv, StruckIsGone
<1>5. snap' \in [Actors -> SUBSET Targets] /\ unclean' \subseteq Targets
  BY <1>0 DEF TypeOK
<1> QED
  BY <1>0, <1>1, <1>2, <1>3, <1>4, <1>5, ReturnStep

\* The unfamiliar instance was reset.
LEMMA RestoredStep ==
  ASSUME IInv, NEW c \in Calls, NEW j \in Instances, Restored(c, j), UNCHANGED setup
  PROVE  IInv'
<1>0. /\ pc[c] = "restoring" /\ c \in Adopting /\ pc[c] \notin Disposing
      /\ Replace(at[c], j, {}) /\ UNCHANGED <<admission, shun>>
      /\ TypeOK /\ at[c] \in Instances /\ {} \in SUBSET (Calls \cup {Gone})
  BY DEF Restored, Adopting, Disposing, IInv, AwaitsOne
<1>1. EngineMoves
  BY <1>0 DEF EngineMoves
<1>2. /\ Fresh(j) /\ j \in live' /\ dirt'[j] = {} /\ live' \subseteq Instances
      /\ dirt' \in [Instances -> SUBSET (Calls \cup {Gone})]
  <2>1. /\ Fresh(j) /\ live' = (live \ {at[c]}) \cup {j}
        /\ dirt' \in [Instances -> SUBSET (Calls \cup {Gone})]
        /\ \A k \in Instances : dirt'[k] = IF k = j THEN {} ELSE IF k = at[c] THEN {} ELSE dirt[k]
    BY <1>0, EngineTypes
  <2> QED
    BY <1>0, <2>1 DEF TypeOK
<1>3. CASE unclean # {} /\ RefuseTheCreate(c, j) /\ UNCHANGED seen
  BY <1>0, <1>1, <1>2, <1>3, AskStep DEF RefuseTheCreate
<1>4. CASE unclean = {} /\ Serve(c, j) /\ seen' = (seen \ {at[c]}) \cup {j}
  <2>1. seen' \subseteq Instances /\ seen' \subseteq seen \cup {j}
    BY <1>0, <1>4 DEF TypeOK
  <2> QED
    BY <1>0, <1>1, <1>2, <1>4, <2>1, ServeStep
<1> QED
  BY <1>3, <1>4 DEF Restored

\* A reset that did not succeed leaves the instance itself or its replacement, and no other.
LEMMA UnresetLeaves ==
  ASSUME IInv, NEW c \in Calls, at[c] \in Instances, NEW j \in Instances, Unreset(at[c], j)
  PROVE  /\ EngineMoves /\ live' \subseteq Instances
         /\ dirt' \in [Instances -> SUBSET (Calls \cup {Gone})]
         /\ live \subseteq {at[c]} => live' \subseteq {j}
         /\ j = at[c] \/ (Fresh(j) /\ at[c] \notin live' /\ dirt'[j] = dirt[at[c]])
         /\ j = at[c] => UNCHANGED engine
<1>1. CASE j = at[c] /\ UNCHANGED engine
  BY <1>1 DEF EngineMoves, engine, IInv, TypeOK
<1>2. CASE Replace(at[c], j, dirt[at[c]])
  <2>1. dirt[at[c]] \in SUBSET (Calls \cup {Gone})
    BY DEF IInv, TypeOK
  <2>2. /\ at[c] # j /\ Fresh(j) /\ live' = (live \ {at[c]}) \cup {j}
        /\ dirt' \in [Instances -> SUBSET (Calls \cup {Gone})]
        /\ \A k \in Instances : dirt'[k] = IF k = j THEN dirt[at[c]] ELSE IF k = at[c] THEN {} ELSE dirt[k]
    BY <1>2, <2>1, EngineTypes DEF IInv
  <2> QED
    BY <1>2, <2>2 DEF EngineMoves, IInv, TypeOK
<1> QED
  BY <1>1, <1>2 DEF Unreset

\* A reset that failed, or was cancelled, under the adoption slot.
LEMMA RestoreFailsStep ==
  ASSUME IInv, NEW c \in Calls, NEW j \in Instances, RestoreFails(c, j), UNCHANGED setup
  PROVE  IInv'
<1>0. /\ pc[c] = "restoring" /\ c \in Adopting /\ pc[c] \notin Disposing /\ TypeOK
      /\ at[c] \in Instances /\ live \subseteq {at[c]}
  BY DEF RestoreFails, Adopting, Disposing, IInv, AwaitsOne, AdoptsTheOne
<1>1. /\ Unreset(at[c], j) /\ Attempt(c, j, FALSE) /\ Goto(c, "evicting", j)
      /\ UNCHANGED <<admission, held, todo, seen, shun>>
  BY DEF RestoreFails
<1>2. /\ EngineMoves /\ live' \subseteq Instances /\ live' \subseteq {j}
      /\ dirt' \in [Instances -> SUBSET (Calls \cup {Gone})]
  BY <1>0, <1>1, UnresetLeaves
<1> QED
  BY <1>0, <1>1, <1>2, AskStep

\* A cancelled reset under the adoption slot marks the instance it leaves.
LEMMA RestoreCancelledStep ==
  ASSUME IInv, NEW c \in Calls, NEW j \in Instances, RestoreCancelled(c, j), UNCHANGED setup
  PROVE  IInv'
<1>0. /\ pc[c] = "restoring" /\ c \in Adopting /\ pc[c] \notin Disposing /\ TypeOK
      /\ at[c] \in Instances /\ c \in Actors /\ {j} \in SUBSET Targets
  BY DEF RestoreCancelled, Adopting, Disposing, IInv, AwaitsOne, Actors, Targets
<1>1. /\ Unreset(at[c], j) /\ Mark({j}) /\ Goto(c, "inside", Nothing)
      /\ UNCHANGED <<admission, held, todo, seen, struck, shun>>
  BY DEF RestoreCancelled
<1>2. /\ EngineMoves /\ live' \subseteq Instances
      /\ dirt' \in [Instances -> SUBSET (Calls \cup {Gone})]
  BY <1>0, <1>1, UnresetLeaves
<1>3. unclean' \subseteq Targets /\ snap' \in [Actors -> SUBSET Targets]
  BY <1>0, <1>1, LedgerTypes
<1>4. unclean' = unclean \cup {j} /\ \A q \in Actors : snap'[q] \subseteq snap[q]
  BY <1>0, <1>1, LedgerMoves DEF IInv
<1>5. MarksStay
  BY <1>4 DEF MarksStay
<1>6. struck' \subseteq struck \ {c}
  BY <1>0, <1>1 DEF IInv, StruckIsGone
<1> QED
  BY <1>0, <1>1, <1>2, <1>3, <1>4, <1>5, <1>6, ReturnStep

\* The unfamiliar instance is gone.
LEMMA EvictedStep ==
  ASSUME IInv, NEW c \in Calls, Evicted(c), UNCHANGED setup
  PROVE  IInv'
<1>0. /\ pc[c] = "evicting" /\ c \in Adopting /\ pc[c] \in Disposing \ {"retrying"} /\ TypeOK
      /\ c \in Actors /\ at[c] \in Instances
  BY DEF Evicted, Adopting, Disposing, IInv, AwaitsOne, Actors
<1>1. /\ Land(c) /\ Goto(c, "recreating", Nothing)
      /\ UNCHANGED <<admission, held, todo, engine, live, dirt, shun>>
  BY DEF Evicted, engine
<1>2. live' = {}
  BY <1>0, <1>1 DEF IInv, AdoptsTheOne, StruckIsGone, Land
<1>3. unclean' \subseteq Targets /\ snap' \in [Actors -> SUBSET Targets]
  BY <1>0, <1>1, LedgerTypes
<1>4. /\ struck' = struck \ {c} /\ seen' \subseteq seen
      /\ \A q \in Actors : snap'[q] \subseteq snap[q]
  BY <1>0, <1>1, LedgerMoves DEF IInv
<1>5. MarksStay
  BY <1>0, <1>1, LandingRetires DEF IInv
<1>6. EngineMoves /\ live' \subseteq Instances /\ dirt' \in [Instances -> SUBSET (Calls \cup {Gone})]
  BY <1>0, <1>1 DEF EngineMoves, TypeOK
<1> QED
  BY <1>0, <1>1, <1>2, <1>3, <1>4, <1>5, <1>6, ReturnStep

\* A refused acquire's own delete landed.
LEMMA RefusedStep ==
  ASSUME IInv, NEW c \in Calls, Refused(c), UNCHANGED setup
  PROVE  IInv'
<1>0. /\ pc[c] = "refusing" /\ c \in Adopting /\ pc[c] \in Disposing \ {"retrying"} /\ TypeOK
      /\ c \in Actors /\ at[c] \in Instances
  BY DEF Refused, Adopting, Disposing, IInv, AwaitsOne, Actors
<1>1. /\ Land(c) /\ Goto(c, "inside", Nothing)
      /\ UNCHANGED <<admission, held, todo, engine, live, dirt, shun>>
  BY DEF Refused, engine
<1>3. unclean' \subseteq Targets /\ snap' \in [Actors -> SUBSET Targets]
  BY <1>0, <1>1, LedgerTypes
<1>4. /\ struck' = struck \ {c} /\ seen' \subseteq seen
      /\ \A q \in Actors : snap'[q] \subseteq snap[q]
  BY <1>0, <1>1, LedgerMoves DEF IInv
<1>5. MarksStay
  BY <1>0, <1>1, LandingRetires DEF IInv
<1>6. EngineMoves /\ live' \subseteq Instances /\ dirt' \in [Instances -> SUBSET (Calls \cup {Gone})]
  BY <1>0, <1>1 DEF EngineMoves, TypeOK
<1> QED
  BY <1>0, <1>1, <1>3, <1>4, <1>5, <1>6, ReturnStep

\* A delete during acquire did not land.
LEMMA AcquireDisposalFailsStep ==
  ASSUME IInv, NEW c \in Calls, AcquireDisposalFails(c), UNCHANGED setup
  PROVE  IInv'
<1>0. /\ pc[c] \in {"evicting", "refusing"} /\ c \in Adopting /\ TypeOK
      /\ c \in Actors /\ at[c] \in Instances /\ at[c] \in Targets
  BY DEF AcquireDisposalFails, Adopting, IInv, AwaitsOne, Actors, Targets
<1>1. /\ Miss(c) /\ Goto(c, "inside", Nothing)
      /\ UNCHANGED <<admission, held, todo, engine, live, dirt, shun>>
  BY DEF AcquireDisposalFails, engine
<1>3. unclean' \subseteq Targets /\ snap' \in [Actors -> SUBSET Targets]
  BY <1>0, <1>1, LedgerTypes
<1>4. /\ struck' = struck \ {c} /\ seen' = seen /\ unclean \subseteq unclean'
      /\ \A q \in Actors : snap'[q] \subseteq snap[q]
  BY <1>0, <1>1, LedgerMoves DEF IInv
<1>5. MarksStay
  BY <1>4 DEF MarksStay
<1>6. EngineMoves /\ live' \subseteq Instances /\ dirt' \in [Instances -> SUBSET (Calls \cup {Gone})]
  BY <1>0, <1>1 DEF EngineMoves, TypeOK
<1> QED
  BY <1>0, <1>1, <1>3, <1>4, <1>5, <1>6, ReturnStep

\* The second instance, which is always a new one.
LEMMA RecreatedStep ==
  ASSUME IInv, NEW c \in Calls, NEW i \in Instances, Recreated(c, i), UNCHANGED setup
  PROVE  IInv'
<1>0. /\ pc[c] = "recreating" /\ c \in Adopting /\ pc[c] \notin Disposing
      /\ GetOrCreate(i) /\ UNCHANGED <<admission, shun>> /\ live = {} /\ TypeOK
  BY DEF Recreated, Adopting, Disposing, IInv, AdoptsTheOne
<1>1. /\ i \in live' /\ Fresh(i) /\ live' \subseteq Instances /\ dirt' = dirt
      /\ dirt' \in [Instances -> SUBSET (Calls \cup {Gone})]
  BY <1>0, EngineTypes DEF TypeOK
<1>2. dirt'[i] = {} /\ EngineMoves
  BY <1>0, <1>1 DEF IInv, OneLive, EngineMoves
<1>3. CASE unclean # {} /\ RefuseTheCreate(c, i) /\ UNCHANGED seen
  BY <1>0, <1>1, <1>2, <1>3, AskStep DEF RefuseTheCreate
<1>4. CASE unclean = {} /\ Serve(c, i) /\ seen' = seen \cup {i}
  <2>1. seen' \subseteq Instances
    BY <1>0, <1>4 DEF TypeOK
  <2> QED
    BY <1>0, <1>1, <1>2, <1>4, <2>1, ServeStep
<1> QED
  BY <1>3, <1>4 DEF Recreated

\* What every step of a call that hands back shares, but for a reclaim that succeeds.
LEMMA ClosingStep ==
  ASSUME IInv, NEW c \in Calls, pc[c] \in {"inside", "closing", "reclaiming"},
         NEW next \in {"closing", "reclaiming"}, NEW t \in Targets \cup {Nothing}, Goto(c, next, t),
         next = "reclaiming" => t \in Instances,
         UNCHANGED <<setup, inside, alone, held, seen, struck, live, dirt, shun>>,
         UNCHANGED <<owed, open>> \/ (open' = FALSE /\ owed \subseteq owed' /\ owed' \subseteq Instances),
         NEW left \in SUBSET Targets, todo' = [todo EXCEPT ![c] = left],
         unclean \subseteq unclean', unclean' \subseteq Targets,
         snap' \in [Actors -> SUBSET Targets], \A q \in Actors : snap'[q] \subseteq snap[q],
         \A i \in held[c] : \/ i \in left \cup owed' \cup unclean'
                            \/ pc[c] \in {"closing", "reclaiming"} /\ i \notin todo[c]
  PROVE  IInv'
<1>0. /\ pc' = [pc EXCEPT ![c] = next] /\ at' = [at EXCEPT ![c] = t]
      /\ TypeOK /\ c \in Actors /\ pc[c] \in Within /\ pc[c] \notin Disposing
  BY DEF Goto, IInv, Actors, Within, Disposing
<1>1. /\ pc'[c] = next /\ at'[c] = t /\ todo'[c] = left
      /\ \A q \in Actors : q # c => pc'[q] = pc[q] /\ at'[q] = at[q] /\ todo'[q] = todo[q]
  BY <1>0 DEF TypeOK
<1>2. TypeOK'
  <2>1. /\ pc' \in [Actors -> PCs] /\ at' \in [Actors -> Targets \cup {Nothing}]
        /\ todo' \in [Actors -> SUBSET Targets]
    BY <1>0 DEF TypeOK, PCs, Targets
  <2>2. owed' \subseteq Instances /\ open' \in BOOLEAN
    BY <1>0 DEF TypeOK, A!TypeOK
  <2> QED
    BY <1>0, <2>1, <2>2 DEF TypeOK, A!TypeOK
<1>3. OthersKept(c)
  BY <1>0, <1>1 DEF OthersKept
<1>4. EngineMoves /\ MarksStay
  BY DEF EngineMoves, MarksStay, engine
<1>5. c \notin struck'
  BY <1>0 DEF IInv, StruckIsGone
<1>6. c \notin Adopting' /\ owed \subseteq owed'
  BY <1>1 DEF Adopting
<1> QED
  BY <1>0, <1>1, <1>2, <1>3, <1>4, <1>5, <1>6, WithinStep DEF Within, Awaiting, Disposing

\* A call queues, reclaims or condemns what it was served, or is cancelled while it does.
LEMMA HandBackStep ==
  ASSUME IInv, NEW c \in Calls, UNCHANGED setup,
         \/ Close(c) \/ ReclaimFails(c) \/ ReclaimCancelled(c)
         \/ \E i \in Instances : QueueCleanup(c, i) \/ Reclaim(c, i)
  PROVE  IInv'
<1>0. /\ TypeOK /\ c \in Actors
      /\ held[c] \subseteq Instances /\ todo[c] \subseteq Targets /\ owed \subseteq Instances
      /\ unclean \subseteq Targets /\ snap \in [Actors -> SUBSET Targets]
      /\ pc[c] = "reclaiming" => at[c] \in Instances
      /\ held \in [Calls -> SUBSET Instances] /\ todo \in [Actors -> SUBSET Targets]
  BY DEF IInv, TypeOK, A!TypeOK, Actors, AwaitsOne
<1>1. CASE Close(c)
  <2>1. held[c] \in SUBSET Targets
    BY <1>0 DEF Targets
  <2> QED
    BY <1>0, <1>1, <2>1, ClosingStep DEF Close, admission, ledger, engine
<1>2. CASE ReclaimFails(c)
  <2> DEFINE left == todo[c] \ {at[c]}
  <2>1. /\ pc[c] = "reclaiming" /\ at[c] \in Instances
        /\ owed' = owed \cup {at[c]} /\ open' = FALSE /\ UNCHANGED <<inside, alone>>
        /\ Goto(c, "closing", Nothing) /\ todo' = [todo EXCEPT ![c] = left]
        /\ UNCHANGED <<held, seen, unclean, snap, struck, live, dirt, shun>>
    BY <1>0, <1>2 DEF ReclaimFails, A!Condemn, ledger, engine
  <2>2. left \in SUBSET Targets /\ owed' \subseteq Instances
    BY <1>0, <2>1
  <2>3. \A i \in held[c] : \/ i \in left \cup owed' \cup unclean'
                           \/ pc[c] \in {"closing", "reclaiming"} /\ i \notin todo[c]
    BY <2>1
  <2> HIDE DEF left
  <2> QED
    BY <1>0, <2>1, <2>2, <2>3, ClosingStep
<1>3. CASE ReclaimCancelled(c)
  <2>1. /\ pc[c] = "reclaiming" /\ Mark(held[c])
        /\ Goto(c, "closing", Nothing) /\ todo' = [todo EXCEPT ![c] = {}]
        /\ UNCHANGED <<inside, alone, owed, open, held, seen, struck, live, dirt, shun>>
    BY <1>3 DEF ReclaimCancelled, admission, engine
  <2>2. held[c] \in SUBSET Targets /\ {} \in SUBSET Targets
    BY <1>0 DEF Targets
  <2>3. unclean' = unclean \cup held[c] /\ \A q \in Actors : snap'[q] \subseteq snap[q]
    BY <1>0, <2>1, LedgerMoves DEF IInv
  <2>4. unclean' \subseteq Targets /\ snap' \in [Actors -> SUBSET Targets]
    BY <1>0, <2>1, <2>2, LedgerTypes
  <2> QED
    BY <1>0, <2>1, <2>2, <2>3, <2>4, ClosingStep
<1>4. ASSUME NEW i \in Instances, QueueCleanup(c, i)
      PROVE  IInv'
  <2> DEFINE left == todo[c] \ {i}
  <2>1. /\ pc[c] = "closing" /\ UNCHANGED <<pc, at>> /\ i \in todo[c]
        /\ owed' = owed \cup {i} /\ open' = FALSE /\ UNCHANGED <<inside, alone>>
        /\ todo' = [todo EXCEPT ![c] = left]
        /\ UNCHANGED <<held, seen, unclean, snap, struck, live, dirt, shun>>
    BY <1>0, <1>4 DEF QueueCleanup, A!Condemn, ledger, engine
  <2>2. left \in SUBSET Targets /\ owed' \subseteq Instances
    BY <1>0, <2>1
  <2>3. at[c] \in Targets \cup {Nothing}
    BY <1>0 DEF TypeOK
  <2>4. Goto(c, "closing", at[c])
    BY <1>0, <2>1 DEF Goto, TypeOK
  <2> QED
    BY <1>0, <2>1, <2>2, <2>3, <2>4, ClosingStep
<1>5. ASSUME NEW i \in Instances, Reclaim(c, i)
      PROVE  IInv'
  <2>1. /\ pc[c] = "closing" /\ Goto(c, "reclaiming", i) /\ todo' = [todo EXCEPT ![c] = todo[c]]
        /\ UNCHANGED <<inside, alone, owed, open, held, seen, unclean, snap, struck, live, dirt, shun>>
    BY <1>0, <1>5 DEF Reclaim, admission, ledger, engine
  <2>2. todo[c] \in SUBSET Targets /\ i \in Targets \cup {Nothing}
    BY <1>0 DEF Targets
  <2>3. \A k \in held[c] : \/ k \in todo[c] \cup owed' \cup unclean'
                           \/ pc[c] \in {"closing", "reclaiming"} /\ k \notin todo[c]
    BY <2>1
  <2>4. \A q \in Actors : snap'[q] \subseteq snap[q]
    BY <2>1
  <2> QED
    BY <1>0, <2>1, <2>2, <2>3, <2>4, ClosingStep
<1> QED
  BY <1>1, <1>2, <1>3, <1>4, <1>5

\* enter_call: the key is open, so nothing is owed and nobody cleans.
LEMMA EnterStep ==
  ASSUME IInv, NEW c \in Calls, NEW exclusively \in BOOLEAN, EnterCall(c, exclusively), UNCHANGED setup
  PROVE  IInv'
<1>0. /\ pc[c] = "out" /\ open /\ c \notin inside /\ inside' = inside \cup {c} /\ alone' = exclusively
      /\ pc' = [pc EXCEPT ![c] = "inside"]
      /\ shun' = [shun EXCEPT ![c] = {i \in live : Gone \in dirt[i]}]
      /\ UNCHANGED <<owed, open, at, held, todo, seen, unclean, snap, struck, live, dirt>>
      /\ TypeOK /\ c \in Actors /\ c # Host /\ Actors = Calls \cup {Host}
  BY NamesAssumption DEF EnterCall, A!Enter, ledger, engine, IInv, Actors
<1>1. /\ pc'[c] = "inside" /\ \A q \in Actors : q # c => pc'[q] = pc[q]
      /\ shun'[c] = {i \in live : Gone \in dirt[i]}
      /\ \A d \in Calls : d # c => shun'[d] = shun[d]
  BY <1>0 DEF TypeOK
<1>2. TypeOK'
  BY <1>0 DEF TypeOK, A!TypeOK, PCs
<1>3. OthersKept(c)
  BY <1>0, <1>1 DEF OthersKept
<1>4. owed = {} /\ \A d \in Calls : pc[d] \notin Cleaning
  BY <1>0 DEF IInv, EntryAgrees
<1>5. EntryAgrees'
  <2>1. Adopting' = Adopting
    BY <1>0, <1>1 DEF Adopting
  <2>2. \A d \in Calls : pc'[d] \notin Cleaning
    BY <1>0, <1>1, <1>4 DEF Cleaning
  <2>3. \A d \in Calls : d \in inside' <=> pc'[d] \in Within
    BY <1>0, <1>1 DEF IInv, EntryAgrees, Within
  <2>4. \A d \in Calls : pc'[d] \in Within \cup Cleaning \cup {"out"}
    BY <1>0, <1>1 DEF IInv, EntryAgrees, Within
  <2> QED
    BY <1>0, <1>1, <1>4, <2>1, <2>2, <2>3, <2>4 DEF IInv, EntryAgrees
<1>6. AwaitsOne' /\ AdoptsTheOne' /\ OneLive'
  <2>1. \A q \in Actors : pc'[q] = pc[q] \/ pc'[q] = "inside"
    BY <1>1
  <2> QED
    BY <1>0, <2>1 DEF IInv, AwaitsOne, AdoptsTheOne, OneLive, Disposing
<1>7. StruckIsGone'
  <2>1. c \notin struck
    BY <1>0 DEF IInv, StruckIsGone, Disposing
  <2>2. \A q \in Actors : pc'[q] = pc[q] \/ pc'[q] = "inside"
    BY <1>1
  <2>3. \A q \in struck : pc'[q] = pc[q]
    BY <1>1, <2>1 DEF IInv, TypeOK
  <2> QED
    BY <1>0, <2>2, <2>3 DEF IInv, StruckIsGone, Disposing
<1>8. DirtIsHeld' /\ RecordInHand' /\ ResidueIsOwed'
  <2>1. NoneReturns /\ MarksStay
    BY <1>0 DEF NoneReturns, MarksStay
  <2>2. Calm
    BY <1>0, <1>1, <1>4, <2>1 DEF Calm, Cleaning
  <2> QED
    BY <1>0, <2>2, CalmKeeps DEF IInv, TypeOK
<1>9. ShunIsOut'
  <2>1. \A d \in Calls : d \notin inside' => held'[d] = {} /\ shun'[d] = {}
    BY <1>0, <1>1 DEF IInv, ShunIsOut
  <2>2. \A i \in shun'[c] \cap live' : i \notin seen' \/ i \in unclean'
    BY <1>0, <1>1, <1>4 DEF IInv, ResidueIsOwed, Cleaning
  <2>3. \A d \in inside' : d # c => \A i \in shun'[d] \cap live' : i \notin seen' \/ i \in unclean'
    BY <1>0, <1>1 DEF IInv, ShunIsOut, TypeOK, A!TypeOK
  <2> QED
    BY <2>1, <2>2, <2>3 DEF ShunIsOut
<1>10. NoInheritance'
  BY <1>0, <1>1 DEF IInv, ShunIsOut, NoInheritance
<1> QED
  BY <1>2, <1>5, <1>6, <1>7, <1>8, <1>9, <1>10 DEF IInv

\* The body works in a sandbox it was served.
LEMMA UseStep ==
  ASSUME IInv, NEW c \in Calls, NEW i \in Instances, Use(c, i), UNCHANGED setup
  PROVE  IInv'
<1>0. /\ pc[c] = "inside" /\ i \in held[c] /\ i \in live /\ dirt' = [dirt EXCEPT ![i] = @ \cup {c}]
      /\ UNCHANGED <<inside, alone, owed, open, pc, at, held, todo, seen, unclean, snap, struck, live, shun>>
      /\ TypeOK /\ c \in inside /\ c # Gone
  BY NamesAssumption DEF Use, admission, control, ledger, IInv, EntryAgrees, Within
<1>1. dirt'[i] = dirt[i] \cup {c} /\ \A k \in Instances : k # i => dirt'[k] = dirt[k]
  BY <1>0 DEF TypeOK
<1>2. TypeOK'
  BY <1>0 DEF TypeOK, A!TypeOK
<1>3. EntryAgrees' /\ AwaitsOne' /\ StruckIsGone' /\ AdoptsTheOne' /\ RecordInHand' /\ ShunIsOut' /\ NoInheritance'
  <2>1. EntryAgrees' /\ AwaitsOne'
    BY <1>0 DEF IInv, EntryAgrees, AwaitsOne, Adopting
  <2>2. StruckIsGone' /\ AdoptsTheOne' /\ RecordInHand'
    BY <1>0 DEF IInv, StruckIsGone, AdoptsTheOne, RecordInHand
  <2> QED
    BY <1>0, <2>1, <2>2 DEF IInv, ShunIsOut, NoInheritance
<1>4. OneLive'
  BY <1>0, <1>1 DEF IInv, OneLive
<1>5. ResidueIsOwed'
  <2>1. \A k \in Instances : Gone \in dirt'[k] => Gone \in dirt[k]
    BY <1>0, <1>1
  <2> QED
    BY <1>0, <2>1 DEF IInv, ResidueIsOwed, TypeOK
<1>6. DirtIsHeld'
  <2>1. \A k \in Instances : \A d \in dirt'[k] : d \in dirt[k] \/ (k = i /\ d = c)
    BY <1>1
  <2> QED
    BY <1>0, <2>1 DEF IInv, DirtIsHeld, TypeOK
<1> QED
  BY <1>2, <1>3, <1>4, <1>5, <1>6 DEF IInv

\* A reclaim that succeeds leaves nothing of the call in that instance.
LEMMA ReclaimedStep ==
  ASSUME IInv, NEW c \in Calls, Reclaimed(c), UNCHANGED setup
  PROVE  IInv'
<1>0. /\ pc[c] = "reclaiming" /\ at[c] \in live /\ at[c] \in Instances
      /\ dirt' = [dirt EXCEPT ![at[c]] = @ \ {c}]
      /\ pc' = [pc EXCEPT ![c] = "closing"] /\ at' = [at EXCEPT ![c] = Nothing]
      /\ todo' = [todo EXCEPT ![c] = @ \ {at[c]}]
      /\ UNCHANGED <<inside, alone, owed, open, held, seen, unclean, snap, struck, live, shun>>
      /\ TypeOK /\ c \in Actors /\ c \in inside
  BY DEF Reclaimed, Goto, admission, ledger, IInv, AwaitsOne, Actors, EntryAgrees, Within
<1>1. /\ pc'[c] = "closing" /\ \A q \in Actors : q # c => pc'[q] = pc[q] /\ at'[q] = at[q] /\ todo'[q] = todo[q]
      /\ todo'[c] = todo[c] \ {at[c]}
      /\ dirt'[at[c]] = dirt[at[c]] \ {c} /\ \A k \in Instances : k # at[c] => dirt'[k] = dirt[k]
  BY <1>0 DEF TypeOK
<1>2. TypeOK'
  BY <1>0 DEF TypeOK, A!TypeOK, PCs
<1>3. OthersKept(c) /\ NoneReturns /\ MarksStay
  BY <1>0, <1>1 DEF OthersKept, NoneReturns, MarksStay
<1>4. EntryAgrees'
  BY <1>0, <1>1, <1>3, EntryKept DEF IInv, Within, Adopting
<1>5. AwaitsOne' /\ AdoptsTheOne' /\ OneLive'
  BY <1>0, <1>1 DEF IInv, AwaitsOne, AdoptsTheOne, OneLive, Disposing, Actors
<1>6. StruckIsGone'
  <2>1. c \notin struck
    BY <1>0 DEF IInv, StruckIsGone, Disposing
  <2> QED
    BY <1>0, <1>1, <1>2, <1>3, <2>1, StruckKept DEF IInv, Disposing
<1>7. DirtIsHeld' /\ RecordInHand' /\ ResidueIsOwed'
  <2>1. \A k \in Instances : dirt'[k] \subseteq dirt[k]
    BY <1>1
  <2>2. \A d \in Calls : pc'[d] \in {"closing", "reclaiming"} =>
          \A i \in held[d] : \/ i \in todo'[d] \cup owed' \cup unclean'
                             \/ i \in live' /\ d \notin dirt'[i]
                             \/ pc[d] \in {"closing", "reclaiming"} /\ i \notin todo[d]
    BY <1>0, <1>1 DEF Actors
  <2>3. \A d \in Calls : pc[d] \notin {"resetting", "disposing"} /\ pc'[d] \notin {"resetting", "disposing"}
    BY <1>0, <1>1 DEF IInv, EntryAgrees, Cleaning, Actors
  <2>4. Calm
    BY <1>0, <1>3, <2>1, <2>2, <2>3 DEF Calm, TypeOK
  <2> QED
    BY <1>2, <2>4, CalmKeeps DEF IInv, TypeOK
<1>8. ShunIsOut' /\ NoInheritance'
  BY <1>0 DEF IInv, ShunIsOut, NoInheritance
<1> QED
  BY <1>2, <1>4, <1>5, <1>6, <1>7, <1>8 DEF IInv

\* release_call: what the call leaves behind is in an instance that is owed a cleanup.
LEMMA ReleaseStep ==
  ASSUME IInv, NEW c \in Calls, ReleaseCall(c), UNCHANGED setup
  PROVE  IInv'
<1>0. /\ pc[c] = "closing" /\ todo[c] = {} /\ c \in inside
      /\ inside' = inside \ {c} /\ alone' = FALSE
      /\ open' = (open \/ (inside = {c} /\ owed = {}))
      /\ pc' = [pc EXCEPT ![c] = IF inside = {c} /\ owed # {} THEN "cleaning" ELSE "out"]
      /\ held' = [held EXCEPT ![c] = {}] /\ shun' = [shun EXCEPT ![c] = {}]
      /\ dirt' = [i \in Instances |-> IF c \in dirt[i] THEN (dirt[i] \ {c}) \cup {Gone} ELSE dirt[i]]
      /\ UNCHANGED <<owed, at, todo, seen, unclean, snap, struck, live>>
      /\ TypeOK /\ c \in Actors /\ c # Host /\ c # Gone /\ Actors = Calls \cup {Host}
  BY NamesAssumption DEF ReleaseCall, A!Exit, ledger, IInv, Actors
<1>1. /\ pc'[c] \in {"cleaning", "out"} /\ (pc'[c] = "cleaning" => inside = {c} /\ owed # {})
      /\ \A q \in Actors : q # c => pc'[q] = pc[q]
      /\ held'[c] = {} /\ shun'[c] = {}
      /\ \A d \in Calls : d # c => held'[d] = held[d] /\ shun'[d] = shun[d]
  BY <1>0 DEF TypeOK
<1>2. TypeOK'
  <2>1. dirt' \in [Instances -> SUBSET (Calls \cup {Gone})]
    BY <1>0 DEF TypeOK
  <2>2. open' \in BOOLEAN /\ inside' \subseteq Calls /\ alone' \in BOOLEAN
    BY <1>0 DEF TypeOK, A!TypeOK
  <2>3. /\ pc' \in [Actors -> PCs] /\ held' \in [Calls -> SUBSET Instances]
        /\ shun' \in [Calls -> SUBSET Instances]
    BY <1>0 DEF TypeOK, PCs
  <2> QED
    BY <1>0, <2>1, <2>2, <2>3 DEF TypeOK, A!TypeOK
<1>3. OthersKept(c) /\ NoneReturns /\ MarksStay
  BY <1>0, <1>1 DEF OthersKept, NoneReturns, MarksStay
<1>4. \A d \in Calls : pc[d] \notin Cleaning
  BY <1>0 DEF IInv, EntryAgrees
<1>5. EntryAgrees'
  <2>1. Adopting' = Adopting
    BY <1>0, <1>1 DEF Adopting
  <2>2. \A d \in Calls : pc'[d] \in Cleaning => d = c /\ pc'[c] = "cleaning"
    BY <1>0, <1>1, <1>4 DEF Cleaning
  <2>3. pc'[c] = "cleaning" => inside' = {} /\ ~open'
    BY <1>0, <1>1 DEF IInv, EntryAgrees
  <2>4. owed' # {} => ~open'
    BY <1>0 DEF IInv, EntryAgrees
  <2>5. \A d \in Calls : d \in inside' <=> pc'[d] \in Within
    BY <1>0, <1>1 DEF IInv, EntryAgrees, Within
  <2>6. \A d \in Calls : pc'[d] \in Within \cup Cleaning \cup {"out"}
    BY <1>0, <1>1 DEF IInv, EntryAgrees, Cleaning
  <2> QED
    BY <1>0, <1>1, <2>1, <2>2, <2>3, <2>4, <2>5, <2>6 DEF IInv, EntryAgrees
<1>6. AwaitsOne' /\ AdoptsTheOne'
  BY <1>0, <1>1 DEF IInv, AwaitsOne, AdoptsTheOne, Disposing
<1>7. StruckIsGone'
  <2>1. c \notin struck
    BY <1>0 DEF IInv, StruckIsGone, Disposing
  <2> QED
    BY <1>0, <1>1, <1>2, <1>3, <2>1, StruckKept DEF IInv, Disposing
<1>8. /\ \A i \in Instances : dirt'[i] # {} => dirt[i] # {}
      /\ \A i \in Instances : \A d \in dirt'[i] : d # Gone => d \in dirt[i] /\ d # c
      /\ \A i \in Instances : Gone \in dirt'[i] => Gone \in dirt[i] \/ c \in dirt[i]
  BY <1>0
<1>9. OneLive'
  BY <1>0, <1>8 DEF IInv, OneLive
<1>10. DirtIsHeld'
  <2>1. \A i \in Instances : \A d \in dirt'[i] : d = Gone \/ d \in inside'
    BY <1>0, <1>8 DEF IInv, DirtIsHeld
  <2>2. ASSUME NEW i \in live', i \in seen', NEW d \in dirt'[i], d # Gone
        PROVE  /\ i \in held'[d]
               /\ pc'[d] \in {"closing", "reclaiming"} => i \in todo'[d] \cup owed' \cup unclean'
    <3>1. i \in Instances /\ i \in live /\ i \in seen /\ d \in dirt[i] /\ d # c
      BY <1>0, <1>8, <2>2 DEF TypeOK
    <3>2. d \in Calls
      BY <2>2, <3>1 DEF IInv, TypeOK
    <3>3. i \in held[d] /\ (pc[d] \in {"closing", "reclaiming"} => i \in todo[d] \cup owed \cup unclean)
      BY <2>2, <3>1 DEF IInv, DirtIsHeld
    <3> QED
      BY <1>0, <1>1, <3>1, <3>2, <3>3
  <2> QED
    BY <2>1, <2>2 DEF DirtIsHeld
<1>11. RecordInHand'
  BY <1>0, <1>1, <1>4 DEF RecordInHand, Cleaning
<1>12. ResidueIsOwed'
  <2> SUFFICES ASSUME NEW i \in live', i \in seen', Gone \in dirt'[i] PROVE i \in owed' \cup unclean'
    BY DEF ResidueIsOwed
  <2>1. i \in Instances /\ i \in live /\ i \in seen
    BY <1>0 DEF TypeOK
  <2>2. CASE Gone \in dirt[i]
    BY <1>0, <1>4, <2>1, <2>2 DEF IInv, ResidueIsOwed, Cleaning
  <2>3. CASE c \in dirt[i]
    BY <1>0, <2>1, <2>3 DEF IInv, DirtIsHeld
  <2> QED
    BY <1>8, <2>1, <2>2, <2>3
<1>13. ShunIsOut' /\ NoInheritance'
  <2>1. \A d \in inside' : d \in inside /\ d \in Calls /\ shun'[d] = shun[d]
    BY <1>0, <1>1 DEF TypeOK, A!TypeOK
  <2>2. ShunIsOut'
    BY <1>0, <1>1, <2>1 DEF IInv, ShunIsOut
  <2> QED
    BY <1>1, <2>2 DEF IInv, NoInheritance
<1> QED
  BY <1>2, <1>5, <1>6, <1>7, <1>9, <1>10, <1>11, <1>12, <1>13 DEF IInv

-----------------------------------------------------------------------------
(* The last one out: cleaning what is owed, behind a shut entry.              *)

\* What a step of whoever cleans must be to preserve the invariant.
LEMMA CleaningStep ==
  ASSUME IInv, TypeOK', NEW c \in Calls, OthersKept(c), pc[c] \in Cleaning, pc'[c] \in Cleaning,
         EngineMoves, UNCHANGED <<inside, alone, open, held, shun>>, owed' \subseteq owed,
         pc'[c] \in Awaiting => at'[c] \in Instances,
         c \in struck' => c \in struck /\ pc'[c] = pc[c] /\ at'[c] = at[c] /\ snap'[c] \subseteq snap[c],
         pc'[c] \in Disposing => snap'[c] \subseteq {at'[c]},
         pc'[c] \in {"resetting", "disposing"} =>
           \E k \in owed' : /\ todo'[c] = {k}
                            /\ k = at'[c] \/ (pc'[c] = "disposing" /\ k \notin live'),
         \A i \in live' \cap seen' : Gone \in dirt'[i] =>
            \/ i \in owed' \cup unclean'
            \/ pc'[c] \in {"resetting", "disposing"} /\ at'[c] = i
  PROVE  IInv'
<1>0. /\ c \in Actors /\ c # Host /\ Calls \subseteq Actors /\ Actors = Calls \cup {Host}
      /\ inside = {}
  BY NamesAssumption DEF Actors, IInv, EntryAgrees
<1>1. /\ live' \subseteq Instances /\ NoneReturns /\ OneLive'
      /\ \A i \in Instances : \E k \in Instances : dirt'[i] \subseteq dirt[k]
  BY EngineKept DEF IInv
<1>2. EntryAgrees'
  BY EntryCleaned DEF IInv
<1>3. AwaitsOne'
  <2>1. \A d \in Calls : pc'[d] \in Awaiting => at'[d] \in Instances
    BY <1>0 DEF IInv, AwaitsOne, OthersKept, Awaiting
  <2>2. pc'[c] \in Disposing => pc'[c] \in Awaiting
    BY DEF Disposing, Awaiting, Cleaning
  <2>3. \A p \in Actors : pc'[p] \in Disposing => at'[p] \in Targets
    BY <1>0, <2>1, <2>2 DEF IInv, AwaitsOne, OthersKept, Targets
  <2> QED
    BY <2>1, <2>3 DEF AwaitsOne, Awaiting
<1>4. StruckIsGone'
  BY <1>0, <1>1, StruckKept DEF IInv
<1>5. \A d \in Calls : pc'[d] \notin Within
  BY <1>0, <1>2 DEF EntryAgrees
<1>6. AdoptsTheOne'
  BY <1>5 DEF AdoptsTheOne, Within
<1>7. \A d \in Calls : d # c => pc'[d] \notin Cleaning
  BY <1>2 DEF EntryAgrees
<1>8. RecordInHand'
  BY <1>7 DEF RecordInHand, Cleaning
<1>9. ResidueIsOwed'
  BY DEF ResidueIsOwed
<1>10. DirtIsHeld'
  <2>1. \A i \in Instances : dirt'[i] \subseteq {Gone}
    BY <1>0, <1>1 DEF IInv, DirtIsHeld
  <2> QED
    BY <1>1, <2>1 DEF DirtIsHeld
<1>11. ShunIsOut' /\ NoInheritance'
  BY <1>0 DEF IInv, ShunIsOut, NoInheritance
<1> QED
  BY <1>1, <1>2, <1>3, <1>4, <1>6, <1>8, <1>9, <1>10, <1>11 DEF IInv

\* What holds of whoever cleans.
LEMMA InHand ==
  ASSUME IInv, NEW c \in Calls, pc[c] \in Cleaning
  PROVE  /\ TypeOK /\ c \in Actors /\ owed \subseteq Instances /\ owed \subseteq Targets /\ Instances \subseteq Targets
         /\ \A i \in live \cap seen : Gone \in dirt[i] =>
              \/ i \in owed \cup unclean
              \/ pc[c] \in {"resetting", "disposing"} /\ at[c] = i
         /\ pc[c] \in {"resetting", "disposing"} =>
              /\ at[c] \in Instances
              /\ \E k \in owed : /\ todo[c] = {k}
                                 /\ k = at[c] \/ (pc[c] = "disposing" /\ k \notin live)
<1>1. \A d \in Calls : pc[d] \in {"resetting", "disposing"} => d = c
  BY DEF IInv, EntryAgrees, Cleaning
<1>2. TypeOK /\ c \in Actors /\ owed \subseteq Instances /\ owed \subseteq Targets /\ Instances \subseteq Targets
  BY DEF IInv, TypeOK, A!TypeOK, Actors, Targets
<1> QED
  BY <1>1, <1>2 DEF IInv, ResidueIsOwed, AwaitsOne, RecordInHand

\* One record after another.
LEMMA RunTheRungStep ==
  ASSUME IInv, NEW c \in Calls, NEW i \in Instances, NEW noted \in BOOLEAN, RunTheRung(c, i, noted),
         UNCHANGED setup
  PROVE  IInv'
<1>0. /\ pc[c] = "cleaning" /\ pc[c] \in Cleaning /\ i \in owed /\ todo' = [todo EXCEPT ![c] = {i}]
      /\ UNCHANGED <<inside, alone, owed, open, held, seen, live, dirt, shun>>
      /\ i # Whole
  BY NamesAssumption DEF RunTheRung, admission, engine, Cleaning
<1>1. TypeOK /\ c \in Actors /\ i \in Targets /\ {i} \in SUBSET Targets
  BY <1>0, InHand
<1>2. EngineMoves
  BY <1>0 DEF EngineMoves, engine
<1>3. c \notin struck
  BY <1>0 DEF IInv, StruckIsGone, Disposing
<1>4. ASSUME NEW next \in {"resetting", "disposing"}, Goto(c, next, i),
             unclean \subseteq unclean', unclean' \subseteq Targets, struck' = struck \ {c},
             snap' \in [Actors -> SUBSET Targets], \A q \in Actors : q # c => snap'[q] \subseteq snap[q],
             next = "disposing" => snap'[c] \subseteq {i}
      PROVE  IInv'
  <2>1. /\ pc' = [pc EXCEPT ![c] = next] /\ at' = [at EXCEPT ![c] = i]
        /\ pc'[c] = next /\ at'[c] = i /\ todo'[c] = {i}
        /\ \A q \in Actors : q # c => pc'[q] = pc[q] /\ at'[q] = at[q] /\ todo'[q] = todo[q]
    BY <1>0, <1>1, <1>4 DEF Goto, TypeOK
  <2>2. TypeOK'
    BY <1>0, <1>1, <1>4, <2>1 DEF TypeOK, A!TypeOK, PCs
  <2>3. OthersKept(c)
    BY <1>0, <1>4, <2>1 DEF OthersKept
  <2>4. \A k \in live' \cap seen' : Gone \in dirt'[k] => k \in owed' \cup unclean'
    BY <1>0, <1>4, InHand
  <2> QED
    BY <1>0, <1>1, <1>2, <1>4, <2>1, <2>2, <2>3, <2>4, CleaningStep DEF Cleaning, Disposing
<1>5. CASE Goto(c, "resetting", i) /\ UNCHANGED ledger
  <2>1. UNCHANGED <<unclean, snap, struck>> /\ struck' = struck \ {c}
    BY <1>3, <1>5 DEF ledger
  <2>2. unclean' \subseteq Targets /\ snap' \in [Actors -> SUBSET Targets]
    BY <1>1, <2>1 DEF TypeOK
  <2> QED
    BY <1>4, <1>5, <2>1, <2>2
<1>6. CASE Goto(c, "disposing", i) /\ Attempt(c, i, noted \/ Rung = "reclaim")
  <2> DEFINE reason == noted \/ Rung = "reclaim"
  <2>1. reason \in BOOLEAN /\ Attempt(c, i, reason)
    BY <1>6
  <2> HIDE DEF reason
  <2>2. /\ unclean \subseteq unclean' /\ struck' = struck \ {c}
        /\ \A q \in Actors : q # c => snap'[q] \subseteq snap[q]
        /\ snap'[c] \subseteq {i}
    BY <1>0, <1>1, <2>1, LedgerMoves DEF IInv
  <2>3. unclean' \subseteq Targets /\ snap' \in [Actors -> SUBSET Targets]
    BY <1>1, <2>1, LedgerTypes
  <2> QED
    BY <1>4, <1>6, <2>2, <2>3
<1> QED
  BY <1>5, <1>6 DEF RunTheRung

\* What every end of a cleanup shares: the records in S are done with.
LEMMA SettleStep ==
  ASSUME IInv, NEW c \in Calls, pc[c] \in Cleaning, NEW S \in SUBSET owed, A!Settle(S),
         Goto(c, "cleaning", Nothing), todo' = [todo EXCEPT ![c] = {}],
         UNCHANGED <<setup, held, shun>>, EngineMoves,
         seen' \subseteq Instances, unclean' \subseteq Targets, struck' = struck \ {c},
         snap' \in [Actors -> SUBSET Targets], \A q \in Actors : snap'[q] \subseteq snap[q],
         \A i \in live' \cap seen' : Gone \in dirt'[i] => i \in (owed \ S) \cup unclean'
  PROVE  IInv'
<1>1. /\ owed' = owed \ S /\ UNCHANGED <<inside, alone, open>>
      /\ pc' = [pc EXCEPT ![c] = "cleaning"] /\ at' = [at EXCEPT ![c] = Nothing]
      /\ TypeOK /\ c \in Actors /\ owed \subseteq Instances
      /\ live' \subseteq Instances /\ dirt' \in [Instances -> SUBSET (Calls \cup {Gone})]
  BY InHand, EngineKept DEF A!Settle, Goto, IInv
<1>2. /\ pc'[c] = "cleaning" /\ at'[c] = Nothing
      /\ \A q \in Actors : q # c => pc'[q] = pc[q] /\ at'[q] = at[q] /\ todo'[q] = todo[q]
  BY <1>1 DEF TypeOK
<1>3. TypeOK'
  BY <1>1 DEF TypeOK, A!TypeOK, PCs
<1>4. OthersKept(c)
  BY <1>1, <1>2 DEF OthersKept
<1> QED
  BY <1>1, <1>2, <1>3, <1>4, CleaningStep DEF Cleaning, Awaiting, Disposing

\* The rung reset the instance: a clean one has taken its place.
LEMMA ResetDoneStep ==
  ASSUME IInv, NEW c \in Calls, NEW j \in Instances, ResetDone(c, j), UNCHANGED setup
  PROVE  IInv'
<1>0. /\ pc[c] = "resetting" /\ pc[c] \in Cleaning /\ Replace(at[c], j, {})
      /\ seen' = (seen \ {at[c]}) \cup {j} /\ Completed(c)
      /\ UNCHANGED <<held, unclean, snap, struck, shun>> /\ {} \in SUBSET (Calls \cup {Gone})
  BY DEF ResetDone, Cleaning, ledger
<1>1. TypeOK /\ c \in Actors /\ at[c] \in Instances /\ todo[c] \in SUBSET owed
  BY <1>0, InHand
<1>2. EngineMoves
  BY <1>0, <1>1 DEF EngineMoves
<1>3. /\ live' = (live \ {at[c]}) \cup {j} /\ dirt'[j] = {} /\ at[c] \in live
  BY <1>0, <1>1, EngineTypes
<1>4. live' = {j}
  BY <1>3 DEF IInv, OneLive
<1>5. c \notin struck
  BY <1>0 DEF IInv, StruckIsGone, Disposing
<1>6. /\ seen' \subseteq Instances /\ unclean' \subseteq Targets
      /\ snap' \in [Actors -> SUBSET Targets] /\ struck' = struck \ {c}
  BY <1>0, <1>1, <1>5 DEF TypeOK
<1> QED
  BY <1>0, <1>1, <1>2, <1>3, <1>4, <1>6, SettleStep DEF Completed

\* A failed reset goes on to delete what it left.
LEMMA ResetFailsStep ==
  ASSUME IInv, NEW c \in Calls, NEW j \in Instances, ResetFails(c, j), UNCHANGED setup
  PROVE  IInv'
<1>0. /\ pc[c] = "resetting" /\ pc[c] \in Cleaning /\ Unreset(at[c], j)
      /\ seen' = (seen \ {at[c]}) \cup {j} /\ Attempt(c, j, TRUE)
      /\ pc' = [pc EXCEPT ![c] = "disposing"] /\ at' = [at EXCEPT ![c] = j]
      /\ UNCHANGED <<inside, alone, owed, open, held, todo, shun>>
      /\ j # Whole /\ j \in Targets
  BY NamesAssumption DEF ResetFails, Cleaning, Goto, admission, Targets
<1>1. TypeOK /\ c \in Actors /\ at[c] \in Instances
  BY <1>0, InHand
<1>2. /\ pc'[c] = "disposing" /\ at'[c] = j
      /\ \A q \in Actors : q # c => pc'[q] = pc[q] /\ at'[q] = at[q]
  BY <1>0, <1>1 DEF TypeOK
<1>3. /\ EngineMoves /\ live' \subseteq Instances
      /\ dirt' \in [Instances -> SUBSET (Calls \cup {Gone})]
      /\ j = at[c] \/ (Fresh(j) /\ at[c] \notin live' /\ dirt'[j] = dirt[at[c]])
      /\ j = at[c] => UNCHANGED <<live, dirt>>
  BY <1>0, <1>1, UnresetLeaves DEF engine
<1>4. /\ unclean \subseteq unclean' /\ struck' = struck \ {c}
      /\ \A q \in Actors : q # c => snap'[q] \subseteq snap[q]
      /\ snap'[c] \subseteq {j}
  BY <1>0, <1>1, LedgerMoves DEF IInv
<1>5. unclean' \subseteq Targets /\ snap' \in [Actors -> SUBSET Targets] /\ struck' \subseteq Actors
  BY <1>0, <1>1, LedgerTypes
<1>6. TypeOK'
  <2>1. seen' \subseteq Instances
    BY <1>0, <1>1 DEF TypeOK
  <2> QED
    BY <1>0, <1>1, <1>3, <1>5, <2>1 DEF TypeOK, A!TypeOK, PCs
<1>7. OthersKept(c)
  BY <1>0, <1>2, <1>4 DEF OthersKept
<1>8. \E k \in owed' : todo'[c] = {k} /\ (k = at'[c] \/ k \notin live')
  <2>1. PICK k \in owed : todo[c] = {k} /\ k = at[c]
    BY <1>0, InHand
  <2> QED
    BY <1>0, <1>2, <1>3, <2>1
<1>9. ASSUME NEW i \in live', i \in seen', Gone \in dirt'[i], i # j
      PROVE  i \in owed' \cup unclean'
  <2>1. NoneReturns /\ \A k \in live' \cap live : dirt'[k] \subseteq dirt[k]
    BY <1>3, EngineKept DEF IInv
  <2>2. i \in Instances /\ i \in seen /\ i # at[c]
    BY <1>0, <1>3, <1>9
  <2>3. i \in live /\ Gone \in dirt[i]
    BY <1>9, <2>1, <2>2 DEF NoneReturns, Fresh
  <2>4. i \in owed \cup unclean
    BY <1>0, <2>2, <2>3, InHand
  <2> QED
    BY <1>0, <1>4, <2>4
<1> QED
  BY <1>0, <1>2, <1>3, <1>4, <1>6, <1>7, <1>8, <1>9, CleaningStep DEF Cleaning

\* The delete of the record in hand landed.
LEMMA DisposedStep ==
  ASSUME IInv, NEW c \in Calls, Disposed(c), UNCHANGED setup
  PROVE  IInv'
<1>0. /\ pc[c] = "disposing" /\ pc[c] \in Cleaning /\ pc[c] \in Disposing \ {"retrying"}
      /\ Land(c) /\ Completed(c) /\ UNCHANGED <<held, live, dirt, shun>>
  BY DEF Disposed, Cleaning, Disposing, engine
<1>1. TypeOK /\ c \in Actors /\ at[c] \in Instances /\ todo[c] \in SUBSET owed
  BY <1>0, InHand
<1>2. EngineMoves
  BY <1>0 DEF EngineMoves, engine
<1>3. at[c] \notin live
  BY <1>0, <1>1, LedgerMoves DEF IInv, StruckIsGone
<1>4. todo[c] \cap live = {}
  BY <1>0, <1>3, InHand
<1>5. MarksStay
  BY <1>0, <1>1, LandingRetires DEF IInv
<1>6. /\ unclean' \subseteq Targets /\ snap' \in [Actors -> SUBSET Targets] /\ seen' \subseteq Instances
  BY <1>0, <1>1, LedgerTypes
<1>7. /\ struck' = struck \ {c} /\ seen' \subseteq seen /\ \A q \in Actors : snap'[q] \subseteq snap[q]
  BY <1>0, <1>1, LedgerMoves DEF IInv
<1>8. ASSUME NEW i \in live', i \in seen', Gone \in dirt'[i]
      PROVE  i \in (owed \ todo[c]) \cup unclean'
  <2>1. i \in live /\ i \in seen /\ Gone \in dirt[i]
    BY <1>0, <1>7, <1>8
  <2>2. i \in owed \/ i \in unclean
    BY <1>0, <1>3, <2>1, InHand
  <2> QED
    BY <1>4, <1>5, <1>8, <2>1, <2>2 DEF MarksStay
<1> QED
  BY <1>0, <1>1, <1>2, <1>6, <1>7, <1>8, SettleStep DEF Completed

\* It did not: the instance is marked instead.
LEMMA DisposeFailsStep ==
  ASSUME IInv, NEW c \in Calls, DisposeFails(c), UNCHANGED setup
  PROVE  IInv'
<1>0. /\ pc[c] = "disposing" /\ pc[c] \in Cleaning
      /\ Miss(c) /\ Completed(c) /\ UNCHANGED <<held, live, dirt, shun>>
  BY DEF DisposeFails, Cleaning, engine
<1>1. TypeOK /\ c \in Actors /\ at[c] \in Instances /\ at[c] \in Targets /\ todo[c] \in SUBSET owed
  BY <1>0, InHand
<1>2. EngineMoves
  BY <1>0 DEF EngineMoves, engine
<1>3. /\ unclean' \subseteq Targets /\ snap' \in [Actors -> SUBSET Targets] /\ seen' \subseteq Instances
  BY <1>0, <1>1, LedgerTypes
<1>4. /\ struck' = struck \ {c} /\ seen' = seen /\ unclean \subseteq unclean' /\ at[c] \in unclean'
      /\ \A q \in Actors : snap'[q] \subseteq snap[q]
  BY <1>0, <1>1, LedgerMoves DEF IInv
<1>5. ASSUME NEW i \in live', i \in seen', Gone \in dirt'[i]
      PROVE  i \in (owed \ todo[c]) \cup unclean'
  <2>1. i \in owed \cup unclean \/ i = at[c]
    BY <1>0, <1>4, <1>5, InHand
  <2>2. i \in todo[c] => i = at[c]
    BY <1>0, <1>5, InHand
  <2> QED
    BY <1>4, <2>1, <2>2
<1> QED
  BY <1>0, <1>1, <1>2, <1>3, <1>4, <1>5, SettleStep DEF Completed

\* A cancelled cleanup marks everything that is not done.
LEMMA InterruptedStep ==
  ASSUME IInv, NEW c \in Calls, NEW j \in Instances, Interrupted(c, j), UNCHANGED setup
  PROVE  IInv'
<1>0. /\ pc[c] \in Cleaning /\ A!Settle(owed) /\ Goto(c, "cleaning", Nothing)
      /\ todo' = [todo EXCEPT ![c] = {}] /\ struck' = struck \ {c} /\ UNCHANGED <<held, shun>>
  BY DEF Interrupted, Cleaning
<1>1. /\ TypeOK /\ c \in Actors /\ owed \in SUBSET owed /\ owed \subseteq Targets /\ j \in Targets
      /\ seen \subseteq Instances
  BY <1>0, InHand DEF TypeOK
<1>2. ASSUME NEW S \in SUBSET Targets, Mark(S), EngineMoves, seen' \subseteq Instances,
             \A i \in live' \cap seen' : Gone \in dirt'[i] => i \in S \cup unclean
      PROVE  IInv'
  <2>1. unclean' \subseteq Targets /\ snap' \in [Actors -> SUBSET Targets]
    BY <1>1, <1>2, LedgerTypes
  <2>2. unclean' = unclean \cup S /\ \A q \in Actors : snap'[q] \subseteq snap[q]
    BY <1>1, <1>2, LedgerMoves DEF IInv
  <2>3. \A i \in live' \cap seen' : Gone \in dirt'[i] => i \in (owed \ owed) \cup unclean'
    BY <1>2, <2>2
  <2> QED
    BY <1>0, <1>1, <1>2, <2>1, <2>2, <2>3, SettleStep
<1>3. CASE /\ pc[c] = "resetting" /\ Unreset(at[c], j)
           /\ seen' = (seen \ {at[c]}) \cup {j} /\ Mark((owed \ todo[c]) \cup {j})
  <2>1. at[c] \in Instances /\ todo[c] = {at[c]}
    BY <1>0, <1>3, InHand
  <2>2. /\ EngineMoves
        /\ j = at[c] \/ (Fresh(j) /\ at[c] \notin live' /\ dirt'[j] = dirt[at[c]])
    BY <1>3, <2>1, UnresetLeaves
  <2>3. NoneReturns /\ \A k \in live' \cap live : dirt'[k] \subseteq dirt[k]
    BY <2>2, EngineKept DEF IInv
  <2>4. ASSUME NEW i \in live', i \in seen', Gone \in dirt'[i], i # j
        PROVE  i \in (owed \ todo[c]) \cup unclean
    <3>1. i \in Instances /\ i \in seen /\ i # at[c]
      BY <1>1, <1>3, <2>2, <2>4
    <3>2. i \in live /\ Gone \in dirt[i]
      BY <2>3, <2>4, <3>1 DEF NoneReturns, Fresh
    <3> QED
      BY <1>0, <2>1, <3>1, <3>2, InHand
  <2>5. seen' \subseteq Instances /\ (owed \ todo[c]) \cup {j} \in SUBSET Targets
    BY <1>1, <1>3
  <2>6. \A i \in live' \cap seen' : Gone \in dirt'[i] => i \in ((owed \ todo[c]) \cup {j}) \cup unclean
    BY <2>4
  <2> QED
    BY <1>2, <1>3, <2>2, <2>5, <2>6
<1>4. CASE /\ pc[c] = "disposing" /\ j = at[c] /\ Mark((owed \ todo[c]) \cup {j})
           /\ UNCHANGED <<seen, engine>>
  <2>1. EngineMoves /\ seen' \subseteq Instances /\ (owed \ todo[c]) \cup {j} \in SUBSET Targets
    BY <1>1, <1>4 DEF EngineMoves
  <2>2. UNCHANGED <<seen, live, dirt>>
    BY <1>4 DEF engine
  <2>3. ASSUME NEW i \in live', i \in seen', Gone \in dirt'[i]
        PROVE  i \in ((owed \ todo[c]) \cup {j}) \cup unclean
    <3>1. i \in owed \cup unclean \/ i = j
      BY <1>0, <1>4, <2>2, <2>3, InHand
    <3>2. i \in todo[c] => i = j
      BY <1>0, <1>4, <2>2, <2>3, InHand
    <3> QED
      BY <3>1, <3>2
  <2> QED
    BY <1>2, <1>4, <2>1, <2>3
<1>5. CASE /\ pc[c] = "cleaning" /\ j \in owed /\ Mark(owed) /\ UNCHANGED <<seen, engine>>
  <2>1. EngineMoves /\ seen' \subseteq Instances /\ owed \in SUBSET Targets
    BY <1>1, <1>5 DEF EngineMoves
  <2>2. UNCHANGED <<seen, live, dirt>>
    BY <1>5 DEF engine
  <2>3. \A i \in live' \cap seen' : Gone \in dirt'[i] => i \in owed \cup unclean
    BY <1>0, <1>5, <2>2, InHand
  <2> QED
    BY <1>2, <1>5, <2>1, <2>3
<1> QED
  BY <1>3, <1>4, <1>5 DEF Interrupted

\* Nothing is owed any more: the key opens.
LEMMA ReopenStep ==
  ASSUME IInv, NEW c \in Calls, Reopen(c), UNCHANGED setup
  PROVE  IInv'
<1>0. /\ pc[c] = "cleaning" /\ inside = {} /\ owed = {} /\ open' = TRUE
      /\ pc' = [pc EXCEPT ![c] = "out"]
      /\ UNCHANGED <<inside, alone, owed, at, held, todo, seen, unclean, snap, struck, live, dirt, shun>>
      /\ TypeOK /\ c \in Actors /\ c # Host /\ Actors = Calls \cup {Host}
  BY NamesAssumption DEF Reopen, A!Reopen, ledger, engine, IInv, Actors
<1>1. pc'[c] = "out" /\ \A q \in Actors : q # c => pc'[q] = pc[q]
  BY <1>0 DEF TypeOK
<1>2. TypeOK'
  BY <1>0 DEF TypeOK, A!TypeOK, PCs
<1>3. OthersKept(c) /\ NoneReturns /\ MarksStay
  BY <1>0, <1>1 DEF OthersKept, NoneReturns, MarksStay
<1>4. \A d \in Calls : d # c => pc[d] = "out"
  BY <1>0 DEF IInv, EntryAgrees, Cleaning
<1>5. \A d \in Calls : pc'[d] = "out"
  BY <1>0, <1>1, <1>4
<1>6. EntryAgrees'
  BY <1>0, <1>1, <1>5 DEF IInv, EntryAgrees, Within, Cleaning, Adopting
<1>7. AwaitsOne' /\ AdoptsTheOne' /\ RecordInHand'
  BY <1>0, <1>1, <1>5 DEF IInv, AwaitsOne, AdoptsTheOne, RecordInHand, Disposing
<1>8. StruckIsGone'
  <2>1. c \notin struck
    BY <1>0 DEF IInv, StruckIsGone, Disposing
  <2> QED
    BY <1>0, <1>1, <1>2, <1>3, <2>1, StruckKept DEF IInv, Disposing
<1>9. OneLive' /\ DirtIsHeld' /\ ShunIsOut' /\ NoInheritance'
  <2>1. OneLive' /\ ShunIsOut' /\ NoInheritance'
    BY <1>0 DEF IInv, OneLive, ShunIsOut, NoInheritance
  <2>2. \A i \in Instances : dirt'[i] \subseteq {Gone}
    BY <1>0 DEF IInv, DirtIsHeld
  <2> QED
    BY <1>0, <2>1, <2>2 DEF DirtIsHeld, TypeOK
<1>10. ResidueIsOwed'
  BY <1>0, <1>4 DEF IInv, ResidueIsOwed
<1> QED
  BY <1>2, <1>6, <1>7, <1>8, <1>9, <1>10 DEF IInv

-----------------------------------------------------------------------------
(* The host, the engine's own steps, and a restart.                           *)

\* What a step that moves no call must be to preserve the invariant.
LEMMA HostStep ==
  ASSUME IInv, TypeOK', StruckIsGone', MarksStay,
         \A c \in Calls : pc'[c] = pc[c] /\ at'[c] = at[c] /\ todo'[c] = todo[c],
         UNCHANGED <<inside, alone, owed, open, held, shun>>,
         pc'[Host] \in {"out", "disposing", "choosing", "retrying"},
         pc'[Host] \in Disposing => at'[Host] \in Targets,
         live' \subseteq live, seen' \subseteq seen,
         \A i \in Instances : dirt'[i] \subseteq dirt[i] /\ (i \notin live' => dirt'[i] = {})
  PROVE  IInv'
<1>0. live \subseteq Instances /\ Actors = Calls \cup {Host}
  BY DEF IInv, TypeOK, Actors
<1>1. EntryAgrees'
  <2>1. Adopting' = Adopting
    BY DEF Adopting
  <2> QED
    BY <2>1 DEF IInv, EntryAgrees
<1>2. AwaitsOne'
  BY <1>0 DEF IInv, AwaitsOne
<1>3. AdoptsTheOne'
  BY DEF IInv, AdoptsTheOne
<1>4. OneLive'
  BY DEF IInv, OneLive
<1>5. NoneReturns
  BY DEF NoneReturns
<1>6. Calm
  <2>1. \A i \in live' \cap seen' : i \in live /\ i \in seen /\ dirt'[i] \subseteq dirt[i]
    BY <1>0
  <2> QED
    BY <1>5, <2>1 DEF Calm
<1>7. DirtIsHeld' /\ RecordInHand' /\ ResidueIsOwed'
  BY <1>0, <1>6, CalmKeeps DEF IInv
<1>8. ShunIsOut' /\ NoInheritance'
  BY DEF IInv, ShunIsOut, NoInheritance, MarksStay, NoneReturns, TypeOK, A!TypeOK
<1> QED
  BY <1>1, <1>2, <1>3, <1>4, <1>7, <1>8 DEF IInv

\* The host's own disposals and retries.
LEMMA HostLedgerStep ==
  ASSUME IInv, NEW next \in {"out", "disposing", "choosing", "retrying"},
         NEW t \in Targets \cup {Nothing}, Goto(Host, next, t),
         next \in Disposing => t \in Targets, next = "disposing" => t = Whole,
         \A q \in Actors : q # Host => todo'[q] = todo[q], todo' \in [Actors -> SUBSET Targets],
         UNCHANGED <<setup, inside, alone, owed, open, held, live, dirt, shun>>,
         MarksStay, seen' \subseteq seen, unclean' \subseteq Targets, struck' \subseteq struck \ {Host},
         snap' \in [Actors -> SUBSET Targets], \A q \in Actors : q # Host => snap'[q] \subseteq snap[q]
  PROVE  IInv'
<1>0. /\ pc' = [pc EXCEPT ![Host] = next] /\ at' = [at EXCEPT ![Host] = t] /\ TypeOK
      /\ Host \in Actors /\ Host \notin Calls /\ Actors = Calls \cup {Host}
  BY NamesAssumption DEF Goto, IInv, Actors
<1>1. /\ pc'[Host] = next /\ at'[Host] = t
      /\ \A q \in Actors : q # Host => pc'[q] = pc[q] /\ at'[q] = at[q]
  BY <1>0 DEF TypeOK
<1>2. TypeOK'
  BY <1>0 DEF TypeOK, A!TypeOK, PCs
<1>3. OthersKept(Host) /\ NoneReturns
  BY <1>0, <1>1 DEF OthersKept, NoneReturns
<1>4. StruckIsGone'
  <2>1. next \in Disposing \ {"retrying"} => t = Whole
    BY DEF Disposing
  <2> QED
    BY <1>0, <1>1, <1>2, <1>3, <2>1, StruckKept DEF IInv
<1>5. \A i \in Instances : i \notin live' => dirt'[i] = {}
  BY DEF IInv, OneLive
<1> QED
  BY <1>0, <1>1, <1>2, <1>4, <1>5, HostStep

\* dispose(key), and how it ends.
LEMMA HostDisposeStep ==
  ASSUME IInv, HostDispose \/ HostDisposed \/ HostDisposeFails, UNCHANGED setup
  PROVE  IInv'
<1>0. TypeOK /\ Host \in Actors /\ Whole \in Targets /\ FALSE \in BOOLEAN
  BY DEF IInv, Actors, Targets
<1>1. CASE HostDispose
  <2>1. /\ Attempt(Host, Whole, FALSE) /\ Goto(Host, "disposing", Whole)
        /\ UNCHANGED <<inside, alone, owed, open, held, todo, seen, live, dirt, shun>>
    BY <1>1 DEF HostDispose, admission, engine
  <2>2. /\ unclean \subseteq unclean' /\ struck' = struck \ {Host}
        /\ \A q \in Actors : q # Host => snap'[q] \subseteq snap[q]
    BY <1>0, <2>1, LedgerMoves DEF IInv
  <2>3. unclean' \subseteq Targets /\ snap' \in [Actors -> SUBSET Targets]
    BY <1>0, <2>1, LedgerTypes
  <2>4. MarksStay /\ todo' \in [Actors -> SUBSET Targets]
    BY <1>0, <2>1, <2>2 DEF MarksStay, TypeOK
  <2> QED
    BY <1>0, <2>1, <2>2, <2>3, <2>4, HostLedgerStep
<1>2. CASE HostDisposed
  <2>1. /\ pc[Host] \in Disposing \ {"retrying"} /\ Land(Host) /\ Goto(Host, "out", Nothing)
        /\ UNCHANGED <<inside, alone, owed, open, held, todo, live, dirt, shun>>
    BY <1>2 DEF HostDisposed, admission, engine, Disposing
  <2>2. /\ seen' \subseteq seen /\ struck' = struck \ {Host}
        /\ \A q \in Actors : snap'[q] \subseteq snap[q]
    BY <1>0, <2>1, LedgerMoves DEF IInv
  <2>3. unclean' \subseteq Targets /\ snap' \in [Actors -> SUBSET Targets]
    BY <1>0, <2>1, LedgerTypes
  <2>4. MarksStay
    BY <1>0, <2>1, LandingRetires DEF IInv
  <2>5. todo' \in [Actors -> SUBSET Targets] /\ "out" \notin Disposing
    BY <1>0, <2>1 DEF TypeOK, Disposing
  <2> QED
    BY <1>0, <2>1, <2>2, <2>3, <2>4, <2>5, HostLedgerStep
<1>3. CASE HostDisposeFails
  <2>1. /\ Goto(Host, "out", Nothing) /\ snap' = [snap EXCEPT ![Host] = {}] /\ struck' = struck \ {Host}
        /\ UNCHANGED <<inside, alone, owed, open, held, todo, seen, unclean, live, dirt, shun>>
    BY <1>3 DEF HostDisposeFails, admission, engine
  <2>2. /\ MarksStay /\ todo' \in [Actors -> SUBSET Targets] /\ "out" \notin Disposing
        /\ snap' \in [Actors -> SUBSET Targets] /\ \A q \in Actors : snap'[q] \subseteq snap[q]
        /\ unclean' \subseteq Targets
    BY <1>0, <2>1 DEF MarksStay, TypeOK, Disposing
  <2> QED
    BY <1>0, <2>1, <2>2, HostLedgerStep
<1> QED
  BY <1>1, <1>2, <1>3

\* dispose_unclean(key), target by target.
LEMMA HostRetryStep ==
  ASSUME IInv, UNCHANGED setup,
         \/ DisposeUnclean \/ RetryLands \/ RetryMisses \/ RetryEnds
         \/ \E t \in Targets : RetryTarget(t)
  PROVE  IInv'
<1>0. /\ TypeOK /\ Host \in Actors /\ Whole \in Targets
      /\ unclean \subseteq Targets /\ snap \in [Actors -> SUBSET Targets]
      /\ todo \in [Actors -> SUBSET Targets]
      /\ "out" \notin Disposing /\ "choosing" \notin Disposing
  BY DEF IInv, Actors, Targets, TypeOK, Disposing
<1>1. CASE DisposeUnclean
  <2>1. PICK pending \in SUBSET Targets :
          /\ unclean \subseteq pending /\ unclean' = pending
          /\ snap' = [p \in Actors |-> IF p = Host THEN pending
                                        ELSE IF unclean = {} THEN snap[p] \ {Whole} ELSE snap[p]]
          /\ todo' = [todo EXCEPT ![Host] = pending]
    BY <1>0, <1>1 DEF DisposeUnclean
  <2>2. /\ Goto(Host, "choosing", Nothing)
        /\ UNCHANGED <<inside, alone, owed, open, held, seen, struck, live, dirt, shun>>
        /\ pc[Host] = "out"
    BY <1>1 DEF DisposeUnclean, admission, engine
  <2>3. /\ snap' \in [Actors -> SUBSET Targets] /\ todo' \in [Actors -> SUBSET Targets]
        /\ \A q \in Actors : q # Host => snap'[q] \subseteq snap[q] /\ todo'[q] = todo[q]
    BY <1>0, <2>1
  <2>4. MarksStay /\ struck' \subseteq struck \ {Host}
    BY <1>0, <2>1, <2>2 DEF MarksStay, IInv, StruckIsGone
  <2> QED
    BY <1>0, <2>1, <2>2, <2>3, <2>4, HostLedgerStep
<1>2. ASSUME NEW t \in Targets, RetryTarget(t)
      PROVE  IInv'
  <2>1. /\ Goto(Host, "retrying", t) /\ todo' = [todo EXCEPT ![Host] = todo[Host] \ {t}]
        /\ struck' = struck \ {Host}
        /\ UNCHANGED <<inside, alone, owed, open, held, seen, unclean, snap, live, dirt, shun>>
    BY <1>2 DEF RetryTarget, admission, engine
  <2>2. /\ todo' \in [Actors -> SUBSET Targets] /\ \A q \in Actors : q # Host => todo'[q] = todo[q]
        /\ MarksStay
    BY <1>0, <2>1 DEF MarksStay
  <2> QED
    BY <1>0, <1>2, <2>1, <2>2, HostLedgerStep
<1>3. CASE RetryLands
  <2>1. /\ Goto(Host, "choosing", Nothing) /\ struck' = struck \ {Host} /\ Host \in struck
        /\ unclean' = unclean \ (snap[Host] \cap {at[Host]})
        /\ snap' = [snap EXCEPT ![Host] = snap[Host] \ {at[Host]}]
        /\ seen' = IF at[Host] = Whole THEN {} ELSE seen \ {at[Host]}
        /\ UNCHANGED <<inside, alone, owed, open, held, todo, live, dirt, shun>>
    BY <1>3 DEF RetryLands, admission, engine
  <2>2. MarksStay
    BY <2>1 DEF MarksStay, IInv, StruckIsGone
  <2>3. /\ snap' \in [Actors -> SUBSET Targets] /\ unclean' \subseteq Targets
        /\ \A q \in Actors : q # Host => snap'[q] \subseteq snap[q]
        /\ seen' \subseteq seen
    BY <1>0, <2>1
  <2> QED
    BY <1>0, <2>1, <2>2, <2>3, HostLedgerStep
<1>4. CASE RetryMisses
  <2>1. /\ Goto(Host, "choosing", Nothing) /\ struck' = struck \ {Host}
        /\ unclean' = unclean \cup {at[Host]} /\ pc[Host] = "retrying"
        /\ snap' = [p \in Actors |-> IF p = Host \/ at[Host] \notin unclean
                                      THEN snap[p] \ {at[Host]} ELSE snap[p]]
        /\ UNCHANGED <<inside, alone, owed, open, held, todo, seen, live, dirt, shun>>
    BY <1>4 DEF RetryMisses, admission, engine
  <2>2. at[Host] \in Targets
    BY <1>0, <2>1 DEF IInv, AwaitsOne, Disposing
  <2>3. /\ snap' \in [Actors -> SUBSET Targets] /\ unclean' \subseteq Targets
        /\ \A q \in Actors : q # Host => snap'[q] \subseteq snap[q]
        /\ MarksStay
    BY <1>0, <2>1, <2>2 DEF MarksStay
  <2> QED
    BY <1>0, <2>1, <2>3, HostLedgerStep
<1>5. CASE RetryEnds
  <2>1. /\ Goto(Host, "out", Nothing) /\ struck' = struck \ {Host}
        /\ todo' = [todo EXCEPT ![Host] = {}] /\ snap' = [snap EXCEPT ![Host] = {}]
        /\ UNCHANGED <<inside, alone, owed, open, held, seen, unclean, live, dirt, shun>>
    BY <1>5 DEF RetryEnds, admission, engine
  <2>2. /\ snap' \in [Actors -> SUBSET Targets] /\ todo' \in [Actors -> SUBSET Targets]
        /\ \A q \in Actors : q # Host => snap'[q] \subseteq snap[q] /\ todo'[q] = todo[q]
        /\ MarksStay
    BY <1>0, <2>1 DEF MarksStay
  <2> QED
    BY <1>0, <2>1, <2>2, HostLedgerStep
<1> QED
  BY <1>1, <1>2, <1>3, <1>4, <1>5

\* The engine hears of a delete, or an instance dies.
LEMMA EngineStep ==
  ASSUME IInv, UNCHANGED setup, (\E p \in Actors : Strike(p)) \/ (\E i \in Instances : Vanish(i))
  PROVE  IInv'
<1>0. TypeOK /\ live \subseteq Instances /\ Instances \subseteq Targets
  BY DEF IInv, TypeOK, Targets
<1>1. ASSUME NEW S \in SUBSET Instances, Remove(S), struck' \subseteq Actors, StruckIsGone',
             UNCHANGED <<inside, alone, owed, open, pc, at, held, todo, seen, unclean, snap, shun>>
      PROVE  IInv'
  <2>1. /\ live' = live \ S /\ dirt' \in [Instances -> SUBSET (Calls \cup {Gone})]
        /\ \A k \in Instances : dirt'[k] = IF k \in S THEN {} ELSE dirt[k]
    BY <1>0, <1>1 DEF Remove, TypeOK
  <2>2. TypeOK' /\ MarksStay
    BY <1>0, <1>1, <2>1 DEF TypeOK, A!TypeOK, MarksStay
  <2>3. \A i \in Instances : dirt'[i] \subseteq dirt[i] /\ (i \notin live' => dirt'[i] = {})
    BY <2>1 DEF IInv, OneLive
  <2>4. Host \in Actors /\ (pc[Host] \in Disposing => at[Host] \in Targets)
    BY DEF IInv, AwaitsOne, Actors
  <2>5. pc'[Host] \in {"out", "disposing", "choosing", "retrying"}
    BY <1>1 DEF IInv, EntryAgrees
  <2> QED
    BY <1>1, <2>1, <2>2, <2>3, <2>4, <2>5, HostStep
<1>2. ASSUME NEW p \in Actors, Strike(p)
      PROVE  IInv'
  <2> DEFINE S == IF at[p] = Whole THEN Instances ELSE {at[p]}
  <2>1. /\ pc[p] \in Disposing /\ Remove(S) /\ struck' = struck \cup {p}
        /\ UNCHANGED <<inside, alone, owed, open, pc, at, held, todo, seen, unclean, snap, shun>>
    BY <1>2 DEF Strike, admission, control
  <2>2. at[p] \in Targets
    BY <2>1 DEF IInv, AwaitsOne
  <2>3. S \in SUBSET Instances
    BY <2>2 DEF Targets
  <2>4. live' = live \ S
    BY <2>1 DEF Remove
  <2>5. at[p] \notin live' /\ (at[p] = Whole => live' = {})
    BY <1>0, <2>2, <2>4, NamesAssumption
  <2> HIDE DEF S
  <2>6. StruckIsGone'
    BY <2>1, <2>4, <2>5 DEF IInv, StruckIsGone
  <2>7. struck' \subseteq Actors
    BY <1>0, <2>1 DEF TypeOK
  <2> QED
    BY <1>1, <2>1, <2>3, <2>6, <2>7
<1>3. ASSUME NEW i \in Instances, Vanish(i)
      PROVE  IInv'
  <2>1. /\ Remove({i}) /\ {i} \in SUBSET Instances
        /\ UNCHANGED <<inside, alone, owed, open, pc, at, held, todo, seen, unclean, snap, struck, shun>>
    BY <1>3 DEF Vanish, admission, control, ledger
  <2>2. live' \subseteq live
    BY <2>1 DEF Remove
  <2>3. StruckIsGone'
    BY <2>1, <2>2 DEF IInv, StruckIsGone
  <2>4. struck' \subseteq Actors
    BY <1>0, <2>1 DEF TypeOK
  <2> QED
    BY <1>1, <2>1, <2>3, <2>4
<1> QED
  BY <1>2, <1>3

\* A restart of the host forgets everything, but what instances hold.
LEMMA RestartStep ==
  ASSUME IInv, Restart, UNCHANGED setup
  PROVE  IInv'
<1>0. /\ TypeOK /\ Host \in Actors /\ Calls \subseteq Actors /\ live \subseteq Instances
      /\ live' = live /\ \A i \in Instances : dirt'[i] \subseteq {Gone} /\ (dirt'[i] # {} => dirt[i] # {})
  BY DEF Restart, IInv, TypeOK, Actors
<1>1. /\ \A p \in Actors : pc'[p] = "out"
      /\ \A c \in Calls : held'[c] = {} /\ shun'[c] = {}
      /\ inside' = {} /\ owed' = {} /\ seen' = {} /\ struck' = {}
  BY DEF Restart
<1>2. TypeOK'
  <2>1. dirt' \in [Instances -> SUBSET (Calls \cup {Gone})]
    BY DEF Restart
  <2> QED
    BY <1>0, <2>1 DEF Restart, TypeOK, A!TypeOK, PCs
<1>3. EntryAgrees'
  BY <1>0, <1>1 DEF EntryAgrees, Within, Cleaning, Adopting
<1>4. AwaitsOne' /\ StruckIsGone' /\ AdoptsTheOne' /\ RecordInHand'
  BY <1>0, <1>1 DEF AwaitsOne, StruckIsGone, AdoptsTheOne, RecordInHand, Disposing
<1>5. OneLive'
  BY <1>0 DEF IInv, OneLive
<1>6. DirtIsHeld' /\ ShunIsOut' /\ ResidueIsOwed' /\ NoInheritance'
  BY <1>0, <1>1 DEF DirtIsHeld, ShunIsOut, ResidueIsOwed, NoInheritance
<1> QED
  BY <1>2, <1>3, <1>4, <1>5, <1>6 DEF IInv

-----------------------------------------------------------------------------
(* The theorems.                                                             *)

\* Every step of the router, the host and the engine keeps the invariant.
LEMMA NextIInv == IInv /\ [Next]_vars => IInv'
<1> SUFFICES ASSUME IInv, [Next]_vars PROVE IInv'
  OBVIOUS
<1>1. CASE UNCHANGED vars
  <2>1. UNCHANGED <<inside, alone, owed, open, pc, at, held, todo, seen, unclean, snap, struck, live,
                    dirt, shun, setup>>
    BY <1>1 DEF vars, admission, control, ledger, engine
  <2>2. /\ (TypeOK <=> TypeOK') /\ (EntryAgrees <=> EntryAgrees') /\ (AwaitsOne <=> AwaitsOne')
        /\ (StruckIsGone <=> StruckIsGone')
    BY <2>1 DEF TypeOK, A!TypeOK, EntryAgrees, Adopting, AwaitsOne, StruckIsGone
  <2>3. /\ (OneLive <=> OneLive') /\ (AdoptsTheOne <=> AdoptsTheOne') /\ (DirtIsHeld <=> DirtIsHeld')
        /\ (RecordInHand <=> RecordInHand')
    BY <2>1 DEF OneLive, AdoptsTheOne, DirtIsHeld, RecordInHand
  <2>4. /\ (ShunIsOut <=> ShunIsOut') /\ (ResidueIsOwed <=> ResidueIsOwed')
        /\ (NoInheritance <=> NoInheritance')
    BY <2>1 DEF ShunIsOut, ResidueIsOwed, NoInheritance
  <2> QED
    BY <2>2, <2>3, <2>4 DEF IInv
<1>2. ASSUME NEW c \in Calls, CallNext(c), UNCHANGED setup
      PROVE  IInv'
  <2>1. CASE \E exclusively \in BOOLEAN : EnterCall(c, exclusively)
    BY <1>2, <2>1, EnterStep
  <2>2. CASE Acquire(c) \/ AcquireFails(c) \/ Evicted(c) \/ Refused(c) \/ AcquireDisposalFails(c)
    BY <1>2, <2>2, AcquireStep, AcquireFailsStep, EvictedStep, RefusedStep, AcquireDisposalFailsStep
  <2>3. CASE Close(c) \/ ReclaimFails(c) \/ ReclaimCancelled(c)
    BY <1>2, <2>3, HandBackStep
  <2>4. CASE Reclaimed(c) \/ ReleaseCall(c)
    BY <1>2, <2>4, ReclaimedStep, ReleaseStep
  <2>5. CASE Disposed(c) \/ DisposeFails(c) \/ Reopen(c)
    BY <1>2, <2>5, DisposedStep, DisposeFailsStep, ReopenStep
  <2>6. ASSUME NEW i \in Instances,
               \/ Use(c, i) \/ \E marked \in BOOLEAN : Adopt(c, i, marked)
               \/ Restored(c, i) \/ RestoreFails(c, i) \/ RestoreCancelled(c, i) \/ Recreated(c, i)
        PROVE  IInv'
    BY <1>2, <2>6, UseStep, AdoptStep, RestoredStep, RestoreFailsStep, RestoreCancelledStep, RecreatedStep
  <2>7. ASSUME NEW i \in Instances,
               \/ \E noted \in BOOLEAN : RunTheRung(c, i, noted)
               \/ ResetDone(c, i) \/ ResetFails(c, i) \/ Interrupted(c, i)
        PROVE  IInv'
    BY <1>2, <2>7, RunTheRungStep, ResetDoneStep, ResetFailsStep, InterruptedStep
  <2>8. ASSUME NEW i \in Instances, QueueCleanup(c, i) \/ Reclaim(c, i)
        PROVE  IInv'
    BY <1>2, <2>8, HandBackStep
  <2> QED
    BY <1>2, <2>1, <2>2, <2>3, <2>4, <2>5, <2>6, <2>7, <2>8 DEF CallNext
<1>3. ASSUME HostNext, UNCHANGED setup
      PROVE  IInv'
  BY <1>3, HostDisposeStep, HostRetryStep, RestartStep DEF HostNext
<1> QED
  BY <1>1, <1>2, <1>3, EngineStep DEF Next

\* The invariant holds in every reachable state.
LEMMA Invariant == Spec => []IInv
  BY InitIInv, NextIInv, PTL DEF Spec

\* For every number of calls and instances, and whatever rung: what a departed call left in a
\* sandbox the router would recognise is owed a cleanup or refuses the key, and no call is served
\* what held a departed call's data when it was admitted - over failed, cancelled and concurrent
\* cleanups and disposals, and restarts.
THEOREM NothingIsInherited == Spec => [](TypeOK /\ ResidueIsOwed /\ NoInheritance)
<1>1. IInv => TypeOK /\ ResidueIsOwed /\ NoInheritance
  BY DEF IInv
<1> QED
  BY <1>1, Invariant, PTL

\* A call that goes on, but for one that is handed a sandbox, has what it had or nothing.
LEMMA ServedStep ==
  ASSUME IInv, Next, NEW c \in Calls, NEW i \in held'[c], i \notin held[c], Gone \in dirt'[i]
  PROVE  i \in owed'
<1>0. held \in [Calls -> SUBSET Instances] /\ TypeOK
  BY DEF IInv, TypeOK
<1>1. held' # held /\ held'[c] # {}
  OBVIOUS
<1>2. ASSUME NEW d \in Calls, NEW k \in Instances, Serve(d, k),
             k \in live' => (dirt'[k] = {} \/ (k \in live /\ k \in seen /\ dirt' = dirt)),
             unclean = {}, pc[d] \in Within, OneLive', UNCHANGED admission
      PROVE  i \in owed'
  <2>1. d = c /\ i = k
    BY <1>0, <1>2 DEF Serve
  <2>2. i \in live'
    BY <1>0, <1>2, <2>1 DEF OneLive
  <2>3. i \in live /\ i \in seen /\ Gone \in dirt[i]
    BY <1>2, <2>1, <2>2
  <2>4. \A e \in Calls : pc[e] \notin {"resetting", "disposing"}
    BY <1>2 DEF IInv, EntryAgrees, Cleaning
  <2> QED
    BY <1>2, <2>3, <2>4 DEF IInv, ResidueIsOwed, admission
<1>3. OneLive' /\ TypeOK'
  BY NextIInv DEF IInv
<1>4. ASSUME NEW d \in Calls, NEW k \in Instances, NEW marked \in BOOLEAN, Adopt(d, k, marked)
      PROVE  i \in owed'
  <2>1. /\ pc[d] \in Within /\ GetOrCreate(k) /\ UNCHANGED admission /\ (marked => k \notin live)
    BY <1>4 DEF Adopt, Within
  <2>2. /\ unclean = {} /\ (k \in seen \/ marked) /\ Serve(d, k)
    BY <1>1, <1>4 DEF Adopt, RefuseTheCreate
  <2>3. dirt' = dirt /\ (k \notin live => Fresh(k))
    BY <1>0, <2>1, EngineTypes
  <2>4. dirt'[k] = {} \/ (k \in live /\ k \in seen)
    BY <2>1, <2>2, <2>3 DEF IInv, OneLive
  <2> QED
    BY <1>2, <1>3, <2>1, <2>2, <2>3, <2>4
<1>5. ASSUME NEW d \in Calls, NEW k \in Instances, Restored(d, k)
      PROVE  i \in owed'
  <2>1. pc[d] \in Within /\ Replace(at[d], k, {}) /\ UNCHANGED admission /\ at[d] \in Instances
    BY <1>5 DEF Restored, Within, IInv, AwaitsOne
  <2>2. unclean = {} /\ Serve(d, k)
    BY <1>1, <1>5 DEF Restored, RefuseTheCreate
  <2>3. {} \in SUBSET (Calls \cup {Gone})
    OBVIOUS
  <2>4. dirt'[k] = {}
    BY <1>0, <2>1, <2>3, EngineTypes
  <2> QED
    BY <1>2, <1>3, <2>1, <2>2, <2>4
<1>6. ASSUME NEW d \in Calls, NEW k \in Instances, Recreated(d, k)
      PROVE  i \in owed'
  <2>1. pc[d] \in Within /\ GetOrCreate(k) /\ UNCHANGED admission /\ live = {}
    BY <1>6 DEF Recreated, Within, IInv, AdoptsTheOne
  <2>2. unclean = {} /\ Serve(d, k)
    BY <1>1, <1>6 DEF Recreated, RefuseTheCreate
  <2>3. dirt'[k] = {}
    BY <1>0, <2>1, EngineTypes DEF IInv, OneLive
  <2> QED
    BY <1>2, <1>3, <2>1, <2>2, <2>3
<1>7. ASSUME NEW d \in Calls, ReleaseCall(d)
      PROVE  FALSE
  BY <1>0, <1>7 DEF ReleaseCall
<1>8. ~Restart
  BY <1>1 DEF Restart
<1>9. ~HostNext
  BY <1>1, <1>8 DEF HostNext, HostDispose, HostDisposed, HostDisposeFails, DisposeUnclean, RetryTarget,
       RetryLands, RetryMisses, RetryEnds
<1>10. ~(\E p \in Actors : Strike(p)) /\ ~(\E k \in Instances : Vanish(k))
  BY <1>1 DEF Strike, Vanish, control
<1>11. PICK d \in Calls : CallNext(d)
  BY <1>9, <1>10 DEF Next
<1>12. /\ ~(\E exclusively \in BOOLEAN : EnterCall(d, exclusively)) /\ ~Acquire(d) /\ ~AcquireFails(d)
       /\ ~Evicted(d) /\ ~Refused(d) /\ ~AcquireDisposalFails(d)
  BY <1>1 DEF EnterCall, Acquire, AcquireFails, Evicted, Refused, AcquireDisposalFails
<1>13. /\ ~Close(d) /\ ~Reclaimed(d) /\ ~ReclaimFails(d) /\ ~ReclaimCancelled(d) /\ ~Disposed(d)
       /\ ~DisposeFails(d) /\ ~Reopen(d)
  BY <1>1 DEF Close, Reclaimed, ReclaimFails, ReclaimCancelled, Disposed, DisposeFails, Reopen
<1>14. ASSUME NEW k \in Instances
       PROVE  /\ ~Use(d, k) /\ ~RestoreFails(d, k) /\ ~RestoreCancelled(d, k) /\ ~QueueCleanup(d, k)
              /\ ~Reclaim(d, k) /\ ~(\E noted \in BOOLEAN : RunTheRung(d, k, noted)) /\ ~ResetDone(d, k)
              /\ ~ResetFails(d, k) /\ ~Interrupted(d, k)
  BY <1>1 DEF Use, RestoreFails, RestoreCancelled, QueueCleanup, Reclaim, RunTheRung, ResetDone, ResetFails,
       Interrupted, control
<1> QED
  BY <1>4, <1>5, <1>6, <1>7, <1>11, <1>12, <1>13, <1>14 DEF CallNext

\* What the router hands a call holds nothing a departed call left, but for an instance a sibling
\* condemned on its way out.
THEOREM ServedIsClean == Spec => ServesNoResidue
<1>1. ASSUME IInv, [Next]_vars
      PROVE  [\A c \in Calls : \A i \in held'[c] \ held[c] : Gone \in dirt'[i] => i \in owed']_vars
  BY <1>1, ServedStep
<1> QED
  BY <1>1, Invariant, PTL DEF Spec, ServesNoResidue

\* Only a delete that has landed takes a mark, and only a mark of what it deleted.
LEMMA RetiresWhatIsGone ==
  ASSUME IInv, Next, ~Restart
  PROVE  MarksStay
<1>0. TypeOK
  BY DEF IInv
<1>1. unclean \subseteq unclean' => MarksStay
  BY DEF MarksStay
<1>2. \A p \in Actors : \A t, reason : Attempt(p, t, reason) => MarksStay
  BY <1>0, <1>1, LedgerMoves DEF IInv
<1>3. \A S : Mark(S) => MarksStay
  BY <1>1 DEF Mark
<1>4. \A p \in Actors : Miss(p) => MarksStay
  BY <1>0, <1>1, LedgerMoves DEF IInv
<1>5. \A p \in Actors : pc[p] \in Disposing \ {"retrying"} /\ Land(p) /\ live' = live => MarksStay
  BY <1>0, LandingRetires DEF IInv
<1>6. ASSUME NEW c \in Calls, CallNext(c)
      PROVE  MarksStay
  <2>0. c \in Actors
    BY DEF Actors
  <2>1. CASE \/ \E exclusively \in BOOLEAN : EnterCall(c, exclusively)
             \/ Acquire(c) \/ AcquireFails(c) \/ Close(c) \/ Reclaimed(c) \/ ReclaimFails(c)
             \/ ReleaseCall(c) \/ Reopen(c)
    BY <1>1, <2>1 DEF EnterCall, Acquire, AcquireFails, Close, Reclaimed, ReclaimFails, ReleaseCall, Reopen,
         ledger
  <2>2. CASE Evicted(c) \/ Refused(c) \/ Disposed(c)
    BY <1>5, <2>0, <2>2 DEF Evicted, Refused, Disposed, Disposing, engine
  <2>3. CASE AcquireDisposalFails(c) \/ DisposeFails(c) \/ ReclaimCancelled(c)
    BY <1>3, <1>4, <2>0, <2>3 DEF AcquireDisposalFails, DisposeFails, ReclaimCancelled
  <2>4. ASSUME NEW i \in Instances, Use(c, i) \/ QueueCleanup(c, i) \/ Reclaim(c, i) \/ ResetDone(c, i)
        PROVE  MarksStay
    BY <1>1, <2>4 DEF Use, QueueCleanup, Reclaim, ResetDone, ledger
  <2>5. ASSUME NEW i \in Instances, \E marked \in BOOLEAN : Adopt(c, i, marked)
        PROVE  MarksStay
    BY <1>1, <1>2, <2>0, <2>5 DEF Adopt, Serve, RefuseTheCreate, ledger
  <2>6. ASSUME NEW i \in Instances,
               Restored(c, i) \/ RestoreFails(c, i) \/ RestoreCancelled(c, i) \/ Recreated(c, i)
        PROVE  MarksStay
    BY <1>1, <1>2, <1>3, <2>0, <2>6 DEF Restored, RestoreFails, RestoreCancelled, Recreated, Serve,
         RefuseTheCreate, ledger
  <2>7. ASSUME NEW i \in Instances, NEW noted \in BOOLEAN, RunTheRung(c, i, noted)
        PROVE  MarksStay
    BY <1>1, <1>2, <2>0, <2>7 DEF RunTheRung, ledger
  <2>8. ASSUME NEW i \in Instances, ResetFails(c, i) \/ Interrupted(c, i)
        PROVE  MarksStay
    BY <1>2, <1>3, <2>0, <2>8 DEF ResetFails, Interrupted
  <2> QED
    BY <1>6, <2>1, <2>2, <2>3, <2>4, <2>5, <2>6, <2>7, <2>8 DEF CallNext
<1>7. ASSUME HostNext
      PROVE  MarksStay
  <2>0. Host \in Actors
    BY DEF Actors
  <2>1. CASE HostDispose
    BY <1>2, <2>0, <2>1 DEF HostDispose
  <2>2. CASE HostDisposed
    BY <1>5, <2>0, <2>2 DEF HostDisposed, Disposing, engine
  <2>3. CASE \/ HostDisposeFails \/ DisposeUnclean \/ RetryMisses \/ RetryEnds
             \/ \E t \in Targets : RetryTarget(t)
    BY <1>1, <2>3 DEF HostDisposeFails, DisposeUnclean, RetryMisses, RetryEnds, RetryTarget
  <2>4. CASE RetryLands
    BY <2>4 DEF RetryLands, MarksStay, IInv, StruckIsGone, engine
  <2> QED
    BY <1>7, <2>1, <2>2, <2>3, <2>4 DEF HostNext
<1>8. CASE (\E p \in Actors : Strike(p)) \/ (\E i \in Instances : Vanish(i))
  BY <1>1, <1>8 DEF Strike, Vanish, ledger
<1> QED
  BY <1>6, <1>7, <1>8 DEF Next

\* A mark leaves the ledger only when the instance it names is gone: an attempt already under way
\* when the mark was made never retires it, whatever lands, fails or is retried meanwhile.
THEOREM MarksOutliveAttempts == Spec => RetiredMeansGone
<1>1. ASSUME IInv, [Next]_vars
      PROVE  [~Restart => \A i \in unclean \ unclean' : i \notin live']_vars
  <2>1. Next /\ ~Restart => \A i \in unclean \ unclean' : i \notin live'
    BY <1>1, RetiresWhatIsGone DEF MarksStay
  <2> QED
    BY <1>1, <2>1
<1> QED
  BY <1>1, Invariant, PTL DEF Spec, RetiredMeansGone

-----------------------------------------------------------------------------
(* The ledger: DisposalLedger.                                               *)

\* What a landing delete retires lies within what it deleted.
RetiresWhatItDeleted ==
  \A w \in Workers : stage[w] = "deleting" =>
    /\ deleting[w] \in L!Targets
    /\ \A t \in L!Retired(w), p \in L!Places : L!Covers(t, p) => L!Covers(deleting[w], p)

\* Whatever a sweep read of a backend lies within the delete it has still to ask of it.
AgendaCoversSnapshot ==
  \A w \in Workers : mode[w] = "sweep" /\ stage[w] \in {"choosing", "deleting"} =>
    \A a \in agenda[w], t \in read[w], p \in L!Places :
      t[1] = a[1] /\ L!Covers(t, p) => L!Covers(a, p)

\* An operation that waits for the lock has one request, addressed to one or more backends.
OneRequest ==
  \A w \in Workers : stage[w] = "locking" =>
    /\ agenda[w] # {}
    /\ \A a, b \in agenda[w] : a[2] = b[2] /\ a[3] = b[3]

\* Each place that is still dirty has a mark that no delete already past it will retire.
SafelyMarked ==
  \A p \in dirty : \E t \in targets :
    /\ L!Covers(t, p)
    /\ \A w \in reached : L!Covers(deleting[w], p) => t \notin read[w]

\* A delete reaches the engine only while its operation waits for it.
StruckIsDeleting == \A w \in reached : stage[w] = "deleting"

LedgerInv ==
  /\ L!TypeOK
  /\ L!RefusedWhilePending
  /\ RetiresWhatItDeleted
  /\ AgendaCoversSnapshot
  /\ OneRequest
  /\ SafelyMarked
  /\ StruckIsDeleting

-----------------------------------------------------------------------------
(* Targets and what they cover.                                              *)

\* A target is a backend with one of the selectors in use.
LEMMA TargetShape ==
  ASSUME NEW t \in L!Targets
  PROVE  /\ t[1] \in Backends
         /\ <<t[2], t[3]>> \in Selectors
         /\ t = <<t[1], t[2], t[3]>>
<1>1. PICK b \in Backends, s \in Selectors : t = <<b, s[1], s[2]>>
  BY DEF L!Targets
<1>2. PICK k \in Kinds \cup {Every}, i \in Ids \cup {Every} : s = <<k, i>>
  BY SelectorAssumption
<1> QED
  BY <1>1, <1>2

\* The same selector on registered backends makes targets, all alike but for the backend.
LEMMA OnTargets ==
  ASSUME NEW bs \in SUBSET Backends, NEW s \in Selectors
  PROVE  /\ L!On(bs, s[1], s[2]) \subseteq L!Targets
         /\ \A a, b \in L!On(bs, s[1], s[2]) : a[2] = b[2] /\ a[3] = b[3]
         /\ bs # {} => L!On(bs, s[1], s[2]) # {}
<1>1. L!On(bs, s[1], s[2]) \subseteq L!Targets
  BY DEF L!On, L!Targets
<1>2. \A a \in L!On(bs, s[1], s[2]) : a[2] = s[1] /\ a[3] = s[2]
  BY DEF L!On
<1>3. ASSUME bs # {} PROVE L!On(bs, s[1], s[2]) # {}
  <2>1. PICK b \in bs : TRUE
    BY <1>3
  <2>2. <<b, s[1], s[2]>> \in L!On(bs, s[1], s[2])
    BY DEF L!On
  <2> QED
    BY <2>2
<1> QED
  BY <1>1, <1>2, <1>3

\* _pending_for never returns more than a delete with the same selectors removes.
LEMMA PendingCovered ==
  ASSUME NEW T, NEW bs, NEW a, NEW t \in L!PendingFor(T, bs, a[2], a[3]), NEW p,
         t[1] = a[1], L!Covers(t, p)
  PROVE  L!Covers(a, p)
BY DEF L!PendingFor, L!Covers

-----------------------------------------------------------------------------
(* The inductive invariant.                                                  *)

LEMMA LedgerInvInit == L!Init => LedgerInv
BY DEF L!Init, LedgerInv, L!TypeOK, L!RefusedWhilePending, RetiresWhatItDeleted,
       AgendaCoversSnapshot, OneRequest, SafelyMarked, StruckIsDeleting

\* Types, one operation at a time.
LEMMA LedgerTypeStep ==
  L!TypeOK /\ OneRequest /\ RetiresWhatItDeleted /\ [L!Next]_(L!vars) => L!TypeOK'
<1> SUFFICES ASSUME L!TypeOK, OneRequest, RetiresWhatItDeleted, [L!Next]_(L!vars)
             PROVE  L!TypeOK'
  OBVIOUS
<1> USE DEF L!TypeOK
<1>1. ASSUME NEW t \in L!Targets, NEW p \in L!Places, L!MarkUnclean(t, p)
      PROVE  L!TypeOK'
  BY <1>1 DEF L!MarkUnclean, L!Mark, L!Renewed
<1>2. ASSUME NEW w \in Workers, NEW s \in Selectors, L!Sweep(w, s[1]), s[2] = Every
      PROVE  L!TypeOK'
  BY <1>2, OnTargets DEF L!Sweep, L!Request, L!ledger
<1>3. ASSUME NEW w \in Workers, NEW s \in Selectors, NEW bs \in SUBSET Backends,
             L!DisposeKindInstance(w, bs, s[1], s[2])
      PROVE  L!TypeOK'
  BY <1>3, OnTargets DEF L!DisposeKindInstance, L!Request, L!ledger
<1>4. ASSUME NEW w \in Workers, NEW s \in Selectors, NEW b \in Backends,
             L!CleanUp(w, b, s[1], s[2])
      PROVE  L!TypeOK'
  <2>1. L!On({b}, s[1], s[2]) \subseteq L!Targets
    BY OnTargets
  <2> QED
    BY <1>4, <2>1 DEF L!CleanUp, L!Request, L!ledger
<1>5. ASSUME NEW w \in Workers, NEW s \in Selectors, NEW bs \in SUBSET Backends,
             L!DisposeUnclean(w, bs, s[1], s[2])
      PROVE  L!TypeOK'
  <2>1. L!On(bs, s[1], s[2]) \subseteq L!Targets
    BY OnTargets
  <2> QED
    BY <1>5, <2>1 DEF L!DisposeUnclean, L!Request, L!Mark, L!Renewed, L!ledger
<1>6. ASSUME NEW w \in Workers, L!Start(w)
      PROVE  L!TypeOK'
  BY <1>6 DEF L!Start, L!PendingFor, L!ledger
<1>7. ASSUME NEW w \in Workers, NEW t \in agenda[w], NEW noted \in BOOLEAN, L!Choose(w, t, noted)
      PROVE  L!TypeOK'
  <2>1. t \in L!Targets
    OBVIOUS
  <2>2. targets' \subseteq L!Targets /\ flagged' \in BOOLEAN
    BY <1>7, <2>1 DEF L!Choose, L!Mark, L!ledger
  <2>3. read' \in [Workers -> SUBSET L!Targets]
    BY <1>7, <2>2 DEF L!Choose, L!PendingFor
  <2> QED
    BY <1>7, <2>1, <2>2, <2>3 DEF L!Choose
<1>8. ASSUME NEW w \in Workers, L!Strike(w)
      PROVE  L!TypeOK'
  BY <1>8 DEF L!Strike, L!ledger
<1>9. ASSUME NEW w \in Workers, L!Land(w)
      PROVE  L!TypeOK'
  BY <1>9 DEF L!Land, L!ForgetPending, L!Resume
<1>10. ASSUME NEW w \in Workers, L!Miss(w)
       PROVE  L!TypeOK'
  <2>1. deleting[w] \in L!Targets
    BY <1>10 DEF L!Miss, L!Resume, RetiresWhatItDeleted
  <2> QED
    BY <1>10, <2>1, ZenonT(30) DEF L!Miss, L!Resume, L!Mark, L!Renewed, L!ledger
<1>11. ASSUME NEW w \in Workers, L!End(w)
       PROVE  L!TypeOK'
  BY <1>11 DEF L!End, L!Leave, L!ledger
<1>12. ASSUME NEW w \in Workers, L!Interrupted(w)
       PROVE  L!TypeOK'
  <2>1. stage[w] = "deleting" => deleting[w] \in L!Targets
    BY DEF RetiresWhatItDeleted
  <2> QED
    BY <1>12, <2>1 DEF L!Interrupted, L!Unheard, L!Leave, L!Mark, L!ledger
<1>13. ASSUME UNCHANGED L!vars
       PROVE  L!TypeOK'
  BY <1>13 DEF L!vars, L!ledger
<1> QED
  BY <1>1, <1>2, <1>3, <1>4, <1>5, <1>6, <1>7, <1>8, <1>9, <1>10, <1>11, <1>12, <1>13, ZenonT(30)
  DEF L!Next

\* The two maps of the ledger stay in step.
LEMMA RefusedWhileStep ==
  L!TypeOK /\ OneRequest /\ L!RefusedWhilePending /\ [L!Next]_(L!vars) => L!RefusedWhilePending'
<1> SUFFICES ASSUME L!TypeOK, OneRequest, L!RefusedWhilePending, [L!Next]_(L!vars)
             PROVE  L!RefusedWhilePending'
  OBVIOUS
<1> USE DEF L!RefusedWhilePending
<1>1. CASE UNCHANGED L!ledger
  BY <1>1 DEF L!ledger
<1>2. ASSUME NEW S, S # {}, L!Mark(S)
      PROVE  L!RefusedWhilePending'
  BY <1>2 DEF L!Mark
<1>3. ASSUME NEW S, L!ForgetPending(S)
      PROVE  L!RefusedWhilePending'
  <2>1. CASE flagged
    BY <1>3, <2>1 DEF L!ForgetPending
  <2>2. CASE ~flagged
    BY <1>3, <2>2 DEF L!ForgetPending
  <2> QED
    BY <2>1, <2>2
<1>4. ASSUME NEW w \in Workers, NEW s \in Selectors, NEW bs \in (SUBSET Backends) \ {{}},
             L!DisposeUnclean(w, bs, s[1], s[2])
      PROVE  L!RefusedWhilePending'
  <2>1. L!On(bs, s[1], s[2]) # {}
    BY OnTargets
  <2> QED
    BY <1>1, <1>2, <1>4, <2>1 DEF L!DisposeUnclean, L!ledger
<1>5. ASSUME NEW w \in Workers, L!Interrupted(w)
      PROVE  L!RefusedWhilePending'
  BY <1>1, <1>2, <1>5 DEF L!Interrupted, L!ledger
<1>6. ASSUME NEW w \in Workers, NEW t \in agenda[w], NEW noted \in BOOLEAN, L!Choose(w, t, noted)
      PROVE  L!RefusedWhilePending'
  BY <1>1, <1>2, <1>6 DEF L!Choose, L!ledger
<1>7. ASSUME NEW w \in Workers, L!Miss(w)
      PROVE  L!RefusedWhilePending'
  BY <1>1, <1>2, <1>7 DEF L!Miss, L!ledger
<1>8. ASSUME NEW t \in L!Targets, NEW p \in L!Places, L!MarkUnclean(t, p)
      PROVE  L!RefusedWhilePending'
  BY <1>2, <1>8 DEF L!MarkUnclean
<1>9. ASSUME NEW w \in Workers, L!Land(w)
      PROVE  L!RefusedWhilePending'
  BY <1>3, <1>9 DEF L!Land
<1> QED
  BY <1>1, <1>4, <1>5, <1>6, <1>7, <1>8, <1>9
  DEF L!Next, L!vars, L!Sweep, L!DisposeKindInstance, L!CleanUp, L!Start, L!Strike, L!End

\* Requests, and deletes that have reached the engine.
LEMMA LedgerControlStep ==
  L!TypeOK /\ OneRequest /\ StruckIsDeleting /\ [L!Next]_(L!vars)
    => OneRequest' /\ StruckIsDeleting'
<1> SUFFICES ASSUME L!TypeOK, OneRequest, StruckIsDeleting, [L!Next]_(L!vars)
             PROVE  OneRequest' /\ StruckIsDeleting'
  OBVIOUS
<1> USE DEF L!TypeOK, OneRequest, StruckIsDeleting
<1>1. ASSUME NEW w \in Workers, NEW how, NEW s \in Selectors, NEW bs \in (SUBSET Backends) \ {{}},
             L!Request(w, how, L!On(bs, s[1], s[2]))
      PROVE  OneRequest' /\ StruckIsDeleting'
  <2>1. /\ L!On(bs, s[1], s[2]) # {}
        /\ \A a, b \in L!On(bs, s[1], s[2]) : a[2] = b[2] /\ a[3] = b[3]
    BY OnTargets, SMTT(30)
  <2> QED
    BY <1>1, <2>1 DEF L!Request
<1>2. ASSUME NEW w \in Workers, NEW s \in Selectors, L!Sweep(w, s[1]), s[2] = Every
      PROVE  OneRequest' /\ StruckIsDeleting'
  <2>1. L!Request(w, "sweep", L!On(Backends, s[1], s[2]))
    BY <1>2 DEF L!Sweep
  <2>2. Backends \in (SUBSET Backends) \ {{}}
    BY BackendsAssumption
  <2> QED
    BY <1>1, <2>1, <2>2
<1>3. ASSUME NEW w \in Workers, NEW s \in Selectors, NEW bs \in (SUBSET Backends) \ {{}},
             L!DisposeKindInstance(w, bs, s[1], s[2]) \/ L!DisposeUnclean(w, bs, s[1], s[2])
      PROVE  OneRequest' /\ StruckIsDeleting'
  BY <1>1, <1>3 DEF L!DisposeKindInstance, L!DisposeUnclean
<1>4. ASSUME NEW w \in Workers, NEW s \in Selectors, NEW b \in Backends,
             L!CleanUp(w, b, s[1], s[2])
      PROVE  OneRequest' /\ StruckIsDeleting'
  <2>1. {b} \in (SUBSET Backends) \ {{}}
    OBVIOUS
  <2> QED
    BY <1>1, <1>4, <2>1 DEF L!CleanUp
<1>5. ASSUME NEW w \in Workers,
             \/ L!Start(w)
             \/ \E t \in agenda[w], noted \in BOOLEAN : L!Choose(w, t, noted)
             \/ L!Strike(w)
      PROVE  OneRequest' /\ StruckIsDeleting'
  <2>1. CASE L!Start(w)
    BY <2>1 DEF L!Start
  <2>2. ASSUME NEW t \in agenda[w], NEW noted \in BOOLEAN, L!Choose(w, t, noted)
        PROVE  OneRequest' /\ StruckIsDeleting'
    BY <2>2 DEF L!Choose
  <2>3. CASE L!Strike(w)
    BY <2>3 DEF L!Strike
  <2> QED
    BY <1>5, <2>1, <2>2, <2>3
<1>6. ASSUME NEW w \in Workers, L!Resume(w) \/ L!Leave(w)
      PROVE  OneRequest' /\ StruckIsDeleting'
  BY <1>6 DEF L!Resume, L!Leave
<1>7. CASE \E t \in L!Targets, p \in L!Places : L!MarkUnclean(t, p)
  BY <1>7 DEF L!MarkUnclean
<1>8. CASE UNCHANGED L!vars
  BY <1>8 DEF L!vars
<1> QED
  BY <1>2, <1>3, <1>4, <1>5, <1>6, <1>7, <1>8 DEF L!Next, L!Land, L!Miss, L!End, L!Interrupted

\* What an operation may retire stays within what it deletes.
LEMMA CoverStep ==
  L!TypeOK /\ OneRequest /\ AgendaCoversSnapshot /\ RetiresWhatItDeleted /\ [L!Next]_(L!vars)
    => AgendaCoversSnapshot' /\ RetiresWhatItDeleted'
<1> SUFFICES ASSUME L!TypeOK, OneRequest, AgendaCoversSnapshot, RetiresWhatItDeleted,
                    [L!Next]_(L!vars)
             PROVE  AgendaCoversSnapshot' /\ RetiresWhatItDeleted'
  OBVIOUS
<1> USE DEF L!TypeOK, AgendaCoversSnapshot, RetiresWhatItDeleted
<1>1. ASSUME \A v \in Workers : \/ stage'[v] \notin {"choosing", "deleting"}
                              \/ /\ stage'[v] = stage[v] /\ mode'[v] = mode[v]
                                 /\ agenda'[v] = agenda[v] /\ deleting'[v] = deleting[v]
                                 /\ read'[v] \subseteq read[v]
      PROVE  AgendaCoversSnapshot' /\ RetiresWhatItDeleted'
  BY <1>1 DEF L!Retired
<1>2. ASSUME NEW w \in Workers, NEW how, NEW request, L!Request(w, how, request),
             \A v \in Workers : read'[v] \subseteq read[v]
      PROVE  AgendaCoversSnapshot' /\ RetiresWhatItDeleted'
  BY <1>1, <1>2 DEF L!Request
<1>3. ASSUME NEW w \in Workers, NEW s \in Selectors, L!Sweep(w, s[1])
      PROVE  AgendaCoversSnapshot' /\ RetiresWhatItDeleted'
  BY <1>2, <1>3 DEF L!Sweep
<1>4. ASSUME NEW w \in Workers, NEW s \in Selectors, NEW bs \in (SUBSET Backends) \ {{}},
             L!DisposeKindInstance(w, bs, s[1], s[2]) \/ L!DisposeUnclean(w, bs, s[1], s[2])
      PROVE  AgendaCoversSnapshot' /\ RetiresWhatItDeleted'
  BY <1>2, <1>4 DEF L!DisposeKindInstance, L!DisposeUnclean, L!Renewed
<1>5. ASSUME NEW w \in Workers, NEW s \in Selectors, NEW b \in Backends,
             L!CleanUp(w, b, s[1], s[2])
      PROVE  AgendaCoversSnapshot' /\ RetiresWhatItDeleted'
  BY <1>2, <1>5 DEF L!CleanUp
<1>6. ASSUME NEW w \in Workers, L!Start(w)
      PROVE  AgendaCoversSnapshot' /\ RetiresWhatItDeleted'
  <2> DEFINE asked == CHOOSE t \in agenda[w] : TRUE
  <2>1. \A a \in agenda[w] : a[2] = asked[2] /\ a[3] = asked[3]
    BY <1>6 DEF L!Start, OneRequest
  <2>2. ASSUME mode[w] = "sweep", NEW a \in agenda[w], NEW t \in read'[w], NEW p \in L!Places,
               t[1] = a[1], L!Covers(t, p)
        PROVE  L!Covers(a, p)
    <3>1. t \in L!PendingFor(targets, Backends, a[2], a[3])
      BY <1>6, <2>1, <2>2 DEF L!Start
    <3> QED
      BY <2>2, <3>1, PendingCovered
  <2>3. mode[w] = "sweep" => agenda'[w] = agenda[w]
    BY <1>6 DEF L!Start
  <2>4. /\ mode' = mode /\ deleting' = deleting /\ stage'[w] = "choosing"
        /\ \A v \in Workers \ {w} :
             stage'[v] = stage[v] /\ agenda'[v] = agenda[v] /\ read'[v] = read[v]
    BY <1>6 DEF L!Start
  <2>5. AgendaCoversSnapshot'
    BY <2>2, <2>3, <2>4
  <2>6. RetiresWhatItDeleted'
    BY <2>4 DEF L!Retired
  <2> QED
    BY <2>5, <2>6
<1>7. ASSUME NEW w \in Workers, NEW t \in agenda[w], NEW noted \in BOOLEAN, L!Choose(w, t, noted)
      PROVE  AgendaCoversSnapshot' /\ RetiresWhatItDeleted'
  <2>1. /\ stage[w] = "choosing" /\ stage'[w] = "deleting" /\ mode' = mode /\ deleting'[w] = t
        /\ t \in L!Targets /\ agenda'[w] \subseteq agenda[w]
        /\ \A v \in Workers \ {w} : /\ stage'[v] = stage[v] /\ agenda'[v] = agenda[v]
                                   /\ deleting'[v] = deleting[v] /\ read'[v] \subseteq read[v]
    BY <1>7 DEF L!Choose
  <2>2. mode[w] \notin {"instance", "cleanup"} => read'[w] \subseteq read[w]
    BY <1>7 DEF L!Choose
  <2>3. mode[w] \in {"instance", "cleanup"} =>
          read'[w] = L!PendingFor(targets', {t[1]}, t[2], t[3])
    BY <1>7 DEF L!Choose
  <2>4. AgendaCoversSnapshot'
    BY <2>1, <2>2
  <2>5. ASSUME NEW u \in L!Retired(w)', NEW p \in L!Places, L!Covers(u, p)
        PROVE  L!Covers(t, p)
    <3>1. CASE mode[w] = "retry"
      BY <2>1, <2>5, <3>1 DEF L!Retired
    <3>2. CASE mode[w] = "sweep"
      BY <2>1, <2>2, <2>5, <3>2 DEF L!Retired
    <3>3. CASE mode[w] \in {"instance", "cleanup"}
      <4>1. u \in L!PendingFor(targets', {t[1]}, t[2], t[3]) /\ u[1] = t[1]
        BY <2>1, <2>3, <2>5, <3>3 DEF L!Retired
      <4> QED
        BY <2>5, <4>1 DEF L!PendingFor, L!Covers
    <3> QED
      BY <3>1, <3>2, <3>3
  <2>6. RetiresWhatItDeleted'
    BY <2>1, <2>5 DEF L!Retired
  <2> QED
    BY <2>4, <2>6
<1>8. ASSUME NEW w \in Workers, L!Resume(w), \A v \in Workers : read'[v] \subseteq read[v]
      PROVE  AgendaCoversSnapshot' /\ RetiresWhatItDeleted'
  <2>1. AgendaCoversSnapshot'
    BY <1>8 DEF L!Resume
  <2>2. RetiresWhatItDeleted'
    BY <1>8 DEF L!Resume, L!Retired
  <2> QED
    BY <2>1, <2>2
<1>9. ASSUME NEW w \in Workers, L!Land(w) \/ L!Miss(w)
      PROVE  AgendaCoversSnapshot' /\ RetiresWhatItDeleted'
  BY <1>8, <1>9 DEF L!Land, L!Miss, L!Renewed
<1>10. ASSUME NEW w \in Workers, L!Strike(w)
       PROVE  AgendaCoversSnapshot' /\ RetiresWhatItDeleted'
  BY <1>1, <1>10 DEF L!Strike
<1>11. ASSUME NEW w \in Workers, L!End(w) \/ L!Interrupted(w)
       PROVE  AgendaCoversSnapshot' /\ RetiresWhatItDeleted'
  <2>1. L!Leave(w) /\ \A v \in Workers : read'[v] \subseteq read[v]
    BY <1>11 DEF L!End, L!Interrupted
  <2> QED
    BY <1>1, <2>1 DEF L!Leave
<1>12. CASE \E t \in L!Targets, p \in L!Places : L!MarkUnclean(t, p)
  BY <1>1, <1>12 DEF L!MarkUnclean, L!Renewed
<1>13. CASE UNCHANGED L!vars
  BY <1>1, <1>13 DEF L!vars
<1> HIDE DEF L!TypeOK, AgendaCoversSnapshot, RetiresWhatItDeleted
<1> QED
  BY <1>3, <1>4, <1>5, <1>6, <1>7, <1>9, <1>10, <1>11, <1>12, <1>13 DEF L!Next

\* A step that makes nothing dirty and retires nothing keeps every mark safe.
LEMMA MarksKept ==
  ASSUME SafelyMarked,
         dirty' \subseteq dirty,
         targets \subseteq targets',
         \A w \in reached' :
           w \in reached /\ deleting'[w] = deleting[w] /\ read'[w] \subseteq read[w]
  PROVE  SafelyMarked'
BY DEF SafelyMarked

\* The heart of the argument: a mark is retired only together with what it stands for.
LEMMA MarkedStep ==
  ASSUME L!TypeOK, OneRequest, RetiresWhatItDeleted, StruckIsDeleting, SafelyMarked,
         [L!Next]_(L!vars)
  PROVE  SafelyMarked'
<1> USE DEF L!TypeOK
<1>1. ASSUME NEW t \in L!Targets, NEW p \in L!Places, L!MarkUnclean(t, p)
      PROVE  SafelyMarked'
  <2>1. /\ targets' = targets \cup {t} /\ dirty' = dirty \cup {p} /\ L!Covers(t, p)
        /\ reached' = reached /\ deleting' = deleting
        /\ \A w \in Workers : read'[w] = read[w] \ {t}
    BY <1>1 DEF L!MarkUnclean, L!Mark, L!Renewed
  <2>2. ASSUME NEW q \in dirty', q # p
        PROVE  \E u \in targets' : /\ L!Covers(u, q)
                                  /\ \A w \in reached' :
                                       L!Covers(deleting'[w], q) => u \notin read'[w]
    BY <2>1, <2>2 DEF SafelyMarked
  <2>3. \A w \in reached' : t \notin read'[w]
    BY <2>1
  <2> QED
    BY <2>1, <2>2, <2>3 DEF SafelyMarked
<1>2. ASSUME NEW w \in Workers, L!Strike(w)
      PROVE  SafelyMarked'
  BY <1>2 DEF L!Strike, SafelyMarked, L!ledger
<1>3. ASSUME NEW w \in Workers, L!Land(w)
      PROVE  SafelyMarked'
  <2>1. /\ w \in reached /\ reached' = reached \ {w} /\ dirty' = dirty /\ read' = read
        /\ targets' = targets \ L!Retired(w)
        /\ \A v \in Workers \ {w} : deleting'[v] = deleting[v]
    BY <1>3 DEF L!Land, L!ForgetPending, L!Resume
  <2>2. SUFFICES ASSUME NEW p \in dirty
                 PROVE  \E t \in targets' :
                          /\ L!Covers(t, p)
                          /\ \A v \in reached' : L!Covers(deleting'[v], p) => t \notin read'[v]
    BY <2>1 DEF SafelyMarked
  <2>3. PICK t \in targets : /\ L!Covers(t, p)
                            /\ \A v \in reached : L!Covers(deleting[v], p) => t \notin read[v]
    BY DEF SafelyMarked
  <2>4. t \notin L!Retired(w)
    <3>1. ASSUME t \in L!Retired(w) PROVE FALSE
      <4>1. L!Covers(deleting[w], p)
        BY <2>1, <2>3, <3>1 DEF RetiresWhatItDeleted, StruckIsDeleting
      <4> QED
        BY <2>1, <2>3, <3>1, <4>1 DEF L!Retired
    <3> QED
      BY <3>1
  <2> QED
    BY <2>1, <2>3, <2>4
<1>4. ASSUME NEW w \in Workers, L!Request(w, mode'[w], agenda'[w]), targets \subseteq targets',
             \A v \in Workers : read'[v] \subseteq read[v]
      PROVE  SafelyMarked'
  BY <1>4, MarksKept DEF L!Request
<1>5. ASSUME NEW w \in Workers, NEW s \in Selectors,
             \/ L!Sweep(w, s[1])
             \/ \E bs \in (SUBSET Backends) \ {{}} : \/ L!DisposeKindInstance(w, bs, s[1], s[2])
                                                   \/ L!DisposeUnclean(w, bs, s[1], s[2])
             \/ \E b \in Backends : L!CleanUp(w, b, s[1], s[2])
      PROVE  SafelyMarked'
  <2>1. \A how, request : L!Request(w, how, request) => L!Request(w, mode'[w], agenda'[w])
    BY DEF L!Request
  <2> QED
    BY <1>4, <1>5, <2>1
    DEF L!Sweep, L!DisposeKindInstance, L!DisposeUnclean, L!CleanUp, L!Mark, L!Renewed, L!ledger
<1>6. ASSUME NEW w \in Workers, L!Start(w)
      PROVE  SafelyMarked'
  <2>1. w \notin reached
    BY <1>6 DEF L!Start, StruckIsDeleting
  <2> QED
    BY <1>6, <2>1, MarksKept DEF L!Start, L!ledger
<1>7. ASSUME NEW w \in Workers, NEW t \in agenda[w], NEW noted \in BOOLEAN, L!Choose(w, t, noted)
      PROVE  SafelyMarked'
  <2>1. w \notin reached
    BY <1>7 DEF L!Choose, StruckIsDeleting
  <2> QED
    BY <1>7, <2>1, MarksKept DEF L!Choose, L!Mark, L!ledger
<1>8. ASSUME NEW w \in Workers, L!Miss(w)
      PROVE  SafelyMarked'
  BY <1>8, MarksKept DEF L!Miss, L!Resume, L!Mark, L!Renewed, L!ledger
<1>9. ASSUME NEW w \in Workers, L!End(w) \/ L!Interrupted(w)
      PROVE  SafelyMarked'
  BY <1>9, MarksKept DEF L!End, L!Interrupted, L!Leave, L!Mark, L!ledger
<1>10. CASE UNCHANGED L!vars
  BY <1>10, MarksKept DEF L!vars, L!ledger
<1> HIDE DEF L!TypeOK
<1> QED
  BY <1>1, <1>2, <1>3, <1>5, <1>6, <1>7, <1>8, <1>9, <1>10 DEF L!Next

-----------------------------------------------------------------------------
(* The result.                                                               *)

\* A behaviour of the composition is one of the calls, and what holds of SandboxRouter holds of it.
LEMMA CallsOfRouter == RouterSpec => Spec
<1>1. RouterInit => Init
  BY DEF RouterInit
<1>2. [RouterNext]_<<vars, ledgerVars, half>> => [Next]_vars
  BY DEF RouterNext, vars
<1> QED
  BY <1>1, <1>2, PTL DEF RouterSpec, Spec

\* A behaviour of the composition takes steps of the ledger or leaves its state alone.
LEMMA LedgerOfRouter ==
  ASSUME [RouterNext]_<<vars, ledgerVars, half>>
  PROVE  [L!Next]_(L!vars)
<1>1. UNCHANGED ledgerVars => UNCHANGED L!vars
  BY DEF ledgerVars, L!vars, L!ledger
<1> QED
  BY <1>1 DEF RouterNext

\* However many disposals of a key overlap, fail, are cancelled or answer late, on however many
\* backends: acquire refuses the key exactly while _pending_disposals holds a target, and nothing
\* marked leaves the ledger before a delete of it has gone through.
THEOREM LedgerSafety == RouterSpec => [](L!TypeOK /\ L!RefusedWhilePending /\ MarkedUntilGone)
<1>1. RouterInit => LedgerInv
  BY LedgerInvInit DEF RouterInit
<1>2. LedgerInv /\ [RouterNext]_<<vars, ledgerVars, half>> => LedgerInv'
  BY LedgerOfRouter, LedgerTypeStep, RefusedWhileStep, LedgerControlStep, CoverStep, MarkedStep
  DEF LedgerInv
<1>3. LedgerInv => L!TypeOK /\ L!RefusedWhilePending /\ MarkedUntilGone
  BY DEF LedgerInv, SafelyMarked, L!MarkedUntilGone, MarkedUntilGone
<1> QED
  BY <1>1, <1>2, <1>3, PTL DEF RouterSpec

=============================================================================
