------------------------ MODULE GuestTransportProofs ------------------------
(***************************************************************************)
(* What holds of the transport for host tools over exec, for any cap on the *)
(* calls, any window, any number of claims and any processes of the guest.  *)
(*                                                                         *)
(* The order in which the supervisor serves a program: the properties of    *)
(* HostToolsOverExec speak of the frontier, the responses and the tools     *)
(* that ran; IInv adds where the walk of a window stands relative to the    *)
(* frontier, what each stage of it has seen of the guest's files, which     *)
(* answer may still land, and how far the tools that ran may be ahead.      *)
(*                                                                         *)
(* The stop of the program: the properties speak of what a snapshot ever    *)
(* showed below the program and of what ran when a look began, the signal   *)
(* and the last look of what the tracker knows; StopInv adds that with a    *)
(* receipt the tracker knows whatever was shown, that without one no signal *)
(* is taken for sent, and what the listing of a probe says of the guest     *)
(* while the probe reads on.                                                *)
(***************************************************************************)
EXTENDS MCGuestTransport, SequenceTheorems, TLAPS

Walking == pc \in {"marker", "serve", "body", "call", "publish"}

\* The slot being served is the one just past the frontier and within the allowance; past each
\* stage of serving a slot, or of looking at a hole, what the stage found is still there.
WalkFollowsFrontier ==
  /\ Walking => /\ base + off = served + 1 /\ off \in 1..(Len(probes) + 1)
                /\ base + Len(probes) <= ServingBound
  /\ pc \in {"body", "call", "publish"} => off <= Len(probes)
  /\ pc \in {"call", "publish"} => Arrived(Identifier)
  /\ pc = "publish" => hand # "none"
  /\ pc \in {"claim?", "next?", "own?", "skip"} => served < ServingBound
  /\ pc \in {"next?", "own?", "skip"} => Claimed(served + 1)
  /\ pc \in {"own?", "skip"} => Arrived(served + 2)
  /\ pc = "skip" => (Arrived(served + 1) => served + 1 \in late)

\* The answer that may still land is to the request just past the frontier.
HandIsNext ==
  hand # "none" =>
    pc \in {"publish", "look", "over"} /\ Identifier = served + 1 /\ Arrived(Identifier)

\* A request that a probe found is there.
HitsAreThere == \A i \in DOMAIN probes : probes[i] = "hit" => Arrived(base + i)

\* No tool runs ahead of the frontier by more than the call whose response is being published,
\* or was when the run ended.
EffectsAreBehind ==
  /\ Len(effects) <= MaxCalls
  /\ \A i \in DOMAIN effects :
       /\ effects[i] <= served + 1
       /\ effects[i] = served + 1 => pc \in {"publish", "look", "over"}

\* As long as every number behind the frontier has got a value, a tool has run for each.
ValuesAreEffects ==
  (\A n \in Numbers : n <= served => resp[n] = "value") =>
    served <= Len(effects) /\ (pc = "publish" /\ hand = "value" => served < Len(effects))

Outcomes ==
  FrontierIsExact /\ OnceAndInOrder /\ EffectsAreBehind /\ ValuesAreEffects /\ HandIsNext
  /\ OnlyTheOvertakenAreSkipped

IInv == TypeOK /\ WalkFollowsFrontier /\ HitsAreThere /\ Outcomes

-----------------------------------------------------------------------------

\* What the clamps of the window compute.
LEMMA MinOfTwo ==
  ASSUME NEW a \in Nat, NEW b \in Nat
  PROVE  Min({a, b}) \in {a, b} /\ Min({a, b}) <= a /\ Min({a, b}) <= b
<1>1. \E m \in {a, b} : \A n \in {a, b} : m <= n
  <2>1. CASE a <= b
    BY <2>1
  <2>2. CASE b <= a
    BY <2>2
  <2> QED
    BY <2>1, <2>2
<1>2. Min({a, b}) \in {a, b} /\ \A n \in {a, b} : Min({a, b}) <= n
  BY <1>1 DEF Min
<1> QED
  BY <1>2

\* The window of probes that the top of the loop makes.
LEMMA Probes ==
  ASSUME NEW n \in Nat
  PROVE  /\ [i \in 1..n |-> "pending"] \in Seq({"pending", "hit", "miss"})
         /\ Len([i \in 1..n |-> "pending"]) = n
         /\ DOMAIN [i \in 1..n |-> "pending"] = 1..n
OBVIOUS

\* What an answer to a probe makes of the window.
LEMMA ProbeAnswered ==
  ASSUME NEW s \in Seq({"pending", "hit", "miss"}), NEW i \in DOMAIN s, NEW found \in {"hit", "miss"}
  PROVE  /\ [s EXCEPT ![i] = found] \in Seq({"pending", "hit", "miss"})
         /\ Len([s EXCEPT ![i] = found]) = Len(s)
         /\ DOMAIN [s EXCEPT ![i] = found] = DOMAIN s
         /\ \A j \in DOMAIN s : [s EXCEPT ![i] = found][j] = IF j = i THEN found ELSE s[j]
<1>1. i \in 1..Len(s) /\ found \in {"pending", "hit", "miss"} /\ DOMAIN s = 1..Len(s)
  OBVIOUS
<1> QED
  BY <1>1, ExceptSeq

\* A run begins with nothing claimed, probed, served or run.
LEMMA InitIInv == Init => IInv
<1> SUFFICES ASSUME Init PROVE IInv
  OBVIOUS
<1>1. TypeOK
  <2>1. <<>> \in Seq({"pending", "hit", "miss"}) /\ <<>> \in Seq(Numbers)
    OBVIOUS
  <2>2. 0 \in 0..ServingBound /\ 1 \in 1..MaxWindow
    BY BoundsAssumption DEF ServingBound
  <2> QED
    BY <2>1, <2>2 DEF Init, TypeOK
<1>2. WalkFollowsFrontier /\ HitsAreThere
  BY BoundsAssumption DEF Init, WalkFollowsFrontier, Walking, HitsAreThere, ServingBound
<1>3. Outcomes
  BY BoundsAssumption DEF Init, Outcomes, FrontierIsExact, OnceAndInOrder, EffectsAreBehind,
     ValuesAreEffects, HandIsNext, OnlyTheOvertakenAreSkipped, Numbers
<1> QED
  BY <1>1, <1>2, <1>3 DEF IInv

-----------------------------------------------------------------------------
(* The guest, the launcher and the clock.                                    *)

\* Claims and requests are never taken back, and a request behind a later one is noted as late.
Grows ==
  /\ late \subseteq late'
  /\ \A n \in Numbers :
       /\ claim[n] # "none" => claim'[n] # "none"
       /\ req[n] # "none" => req'[n] = req[n]
       /\ req[n] = "none" /\ req'[n] # "none" /\ Arrived(n + 1) => n \in late'

\* _claim and _publish (maf_host_tools.py) only create files.
LEMMA GuestGrows ==
  ASSUME TypeOK
  PROVE  /\ Guest => Grows /\ UNCHANGED <<host, marker, expired>>
         /\ UNCHANGED guest => Grows
BY DEF TypeOK, Guest, Claim, Publish, Die, Grows, guest

\* Whatever the supervisor has seen of the guest's files stays so while the guest goes on.
LEMMA GuestKeeps ==
  ASSUME IInv, TypeOK', Grows,
         UNCHANGED <<resp, pc, served, walk, hand, effects, skipped>>
  PROVE  IInv'
<1>1. /\ \A n : Arrived(n) => Arrived(n)' /\ req'[n] = req[n]
      /\ \A n : Claimed(n) => Claimed(n)'
  BY DEF Grows, Arrived, Claimed
<1>2. WalkFollowsFrontier' /\ HitsAreThere'
  <2>1. ASSUME NEW n, Arrived(n)', Arrived(n + 1), Arrived(n) => n \in late
        PROVE  n \in late'
    BY <2>1 DEF Grows, Arrived
  <2>2. /\ UNCHANGED <<pc, served, base, off, probes, hand>>
        /\ pc = "skip" => Arrived(served + 1 + 1)
    BY DEF IInv, TypeOK, WalkFollowsFrontier, walk
  <2>3. pc = "skip" => (Arrived(served + 1)' => (served + 1 \in late)')
    BY <2>1, <2>2 DEF IInv, WalkFollowsFrontier
  <2> QED
    BY <1>1, <2>2, <2>3 DEF IInv, WalkFollowsFrontier, Walking, HitsAreThere, Identifier
<1>3. FrontierIsExact'
  BY DEF IInv, Outcomes, FrontierIsExact, Grows
<1>4. OnceAndInOrder' /\ EffectsAreBehind' /\ ValuesAreEffects'
  BY DEF IInv, Outcomes, OnceAndInOrder, EffectsAreBehind, ValuesAreEffects
<1>5. HandIsNext'
  BY <1>1 DEF IInv, Outcomes, HandIsNext, Identifier, walk
<1>6. OnlyTheOvertakenAreSkipped'
  BY <1>1 DEF IInv, Outcomes, OnlyTheOvertakenAreSkipped, Grows, Arrived
<1> QED
  BY <1>2, <1>3, <1>4, <1>5, <1>6 DEF IInv, Outcomes

-----------------------------------------------------------------------------
(* The supervisor.                                                           *)

\* Steps that publish nothing, run nothing and leave the frontier where it is keep the outcomes,
\* if they do not begin a publication and do not leave one but for the end of the run.
LEMMA OutcomesKept ==
  ASSUME Outcomes, UNCHANGED <<claim, req, late, resp, served, hand, effects, skipped>>,
         \/ pc' \in {"look", "over"} /\ UNCHANGED <<base, off>>
         \/ pc' = pc /\ UNCHANGED <<base, off>>
         \/ pc \notin {"publish", "look", "over"} /\ pc' # "publish"
  PROVE  Outcomes'
<1>1. FrontierIsExact' /\ OnceAndInOrder'
  BY DEF Outcomes, FrontierIsExact, OnceAndInOrder
<1>2. EffectsAreBehind' /\ ValuesAreEffects'
  BY DEF Outcomes, EffectsAreBehind, ValuesAreEffects
<1>3. HandIsNext'
  BY DEF Outcomes, HandIsNext, Identifier, Arrived
<1>4. OnlyTheOvertakenAreSkipped'
  BY DEF Outcomes, OnlyTheOvertakenAreSkipped, Claimed, Arrived
<1> QED
  BY <1>1, <1>2, <1>3, <1>4 DEF Outcomes

\* The files of the guest are as they were after a step of the supervisor.
LEMMA GuestStands ==
  ASSUME UNCHANGED guest
  PROVE  /\ \A n : Arrived(n)' = Arrived(n) /\ Claimed(n)' = Claimed(n)
         /\ UNCHANGED <<claim, req, late>>
BY DEF guest, Arrived, Claimed

\* The top of the loop begins a walk at the frontier, within the allowance.
LEMMA PollStep ==
  ASSUME IInv, Poll, UNCHANGED <<guest, marker, expired>>
  PROVE  IInv'
<1> DEFINE n == Min({window, ServingBound - served})
<1>0. UNCHANGED <<claim, req, late>> /\ ServingBound \in Nat
  BY GuestStands, BoundsAssumption DEF ServingBound
<1>1. CASE UNCHANGED walk /\ pc' \in {"look", "spent"}
  <2>1. TypeOK'
    BY <1>0, <1>1 DEF IInv, TypeOK, Poll, walk
  <2>2. WalkFollowsFrontier' /\ HitsAreThere'
    BY <1>0, <1>1, GuestStands DEF IInv, WalkFollowsFrontier, Walking, HitsAreThere, walk
  <2>3. Outcomes'
    BY <1>0, <1>1, OutcomesKept DEF IInv, Poll, walk
  <2> QED
    BY <2>1, <2>2, <2>3 DEF IInv
<1>2. CASE /\ served < ServingBound /\ base' = served /\ off' = 1 /\ pc' = "marker"
           /\ probes' = [i \in 1..n |-> "pending"]
  <2>1. window \in Nat /\ served \in 0..ServingBound
    BY BoundsAssumption DEF IInv, TypeOK
  <2>2. n \in Nat /\ n <= ServingBound - served
    BY <1>0, <1>2, <2>1, MinOfTwo
  <2> HIDE DEF n
  <2>3. /\ probes' \in Seq({"pending", "hit", "miss"}) /\ Len(probes') = n
        /\ \A i \in DOMAIN probes' : probes'[i] = "pending"
    BY <1>2, <2>2, Probes
  <2>4. TypeOK'
    BY <1>0, <1>2, <2>1, <2>3 DEF IInv, TypeOK, Poll
  <2>5. WalkFollowsFrontier' /\ HitsAreThere'
    BY <1>0, <1>2, <2>1, <2>2, <2>3 DEF Poll, WalkFollowsFrontier, Walking, HitsAreThere
  <2>6. Outcomes'
    BY <1>0, <1>2, OutcomesKept DEF IInv, Poll
  <2> QED
    BY <2>4, <2>5, <2>6 DEF IInv
<1> QED
  BY <1>1, <1>2 DEF Poll

\* The probes answer, and the walk moves on to the slot they were made for.
LEMMA WalkStep ==
  ASSUME IInv, UNCHANGED <<guest, marker, expired>>,
         (\E i \in 1..MaxWindow : ProbeAnswers(i)) \/ Slot \/ ReadBody
  PROVE  IInv'
<1>0. UNCHANGED <<claim, req, late>> /\ \A n : Arrived(n)' = Arrived(n) /\ Claimed(n)' = Claimed(n)
  BY GuestStands
<1>1. ASSUME UNCHANGED <<resp, served, base, off, window, hand, hole, effects, skipped, result>>,
             \/ UNCHANGED probes
             \/ \E i \in DOMAIN probes, found \in {"hit", "miss"} :
                  /\ probes' = [probes EXCEPT ![i] = found]
                  /\ found = "hit" => Arrived(base + i),
             \/ pc' = pc
             \/ pc \in {"serve", "body"} /\ pc' \in {"serve", "body", "call"},
             pc' \in {"body", "call"} => pc = pc' \/ off \in DOMAIN probes,
             pc' = "call" => pc = pc' \/ Arrived(Identifier)
      PROVE  IInv'
  <2>1. /\ probes' \in Seq({"pending", "hit", "miss"}) /\ Len(probes') = Len(probes)
        /\ HitsAreThere'
    <3>1. CASE UNCHANGED probes
      BY <1>0, <1>1, <3>1 DEF IInv, TypeOK, HitsAreThere
    <3>2. CASE \E i \in DOMAIN probes, found \in {"hit", "miss"} :
                 /\ probes' = [probes EXCEPT ![i] = found]
                 /\ found = "hit" => Arrived(base + i)
      BY <1>0, <1>1, <3>2, ProbeAnswered DEF IInv, TypeOK, HitsAreThere
    <3> QED
      BY <1>1, <3>1, <3>2
  <2>2. TypeOK'
    BY <1>0, <1>1, <2>1 DEF IInv, TypeOK
  <2>3. DOMAIN probes = 1..Len(probes)
    BY DEF IInv, TypeOK
  <2>4. WalkFollowsFrontier'
    BY <1>0, <1>1, <2>1, <2>3 DEF IInv, WalkFollowsFrontier, Walking, Identifier
  <2>5. Outcomes'
    BY <1>0, <1>1, OutcomesKept DEF IInv
  <2> QED
    BY <2>1, <2>2, <2>4, <2>5 DEF IInv
<1>2. ASSUME NEW i \in 1..MaxWindow, ProbeAnswers(i) PROVE IInv'
  BY <1>1, <1>2 DEF ProbeAnswers
<1>3. CASE Slot
  <2>1. off \in DOMAIN probes /\ Arrived(Identifier)
    BY <1>3 DEF Slot, IInv, HitsAreThere, Identifier
  <2> QED
    BY <1>1, <1>3, <2>1 DEF Slot, Begin, Missing
<1>4. CASE ReadBody
  <2>1. off \in DOMAIN probes
    BY <1>4 DEF ReadBody, IInv, WalkFollowsFrontier, Walking, TypeOK
  <2> QED
    BY <1>1, <1>4, <2>1 DEF ReadBody, Begin, Missing
<1> QED
  BY <1>2, <1>3, <1>4

\* A tool that runs for the request at the frontier adds its number after all the others.
LEMMA ToolRuns ==
  ASSUME IInv, pc = "call", Runs, effects' = Append(effects, Identifier),
         UNCHANGED <<served, skipped>>
  PROVE  /\ effects' \in Seq(Numbers) /\ Len(effects') = Len(effects) + 1
         /\ Len(effects) \in Nat /\ Len(effects') <= MaxCalls
         /\ \A i \in DOMAIN effects' : effects'[i] <= served + 1
         /\ OnceAndInOrder'
<1>1. /\ served \in Nat /\ MaxNumber \in Nat /\ Identifier = served + 1 /\ Identifier \in Numbers
  BY BoundsAssumption DEF IInv, TypeOK, WalkFollowsFrontier, Walking, Arrived, Identifier
<1>2. /\ effects \in Seq(Numbers) /\ effects' \in Seq(Numbers)
      /\ Len(effects') = Len(effects) + 1 /\ Len(effects) \in Nat
      /\ DOMAIN effects = 1..Len(effects) /\ DOMAIN effects' = 1..(Len(effects) + 1)
      /\ \A i \in 1..Len(effects) : effects'[i] = effects[i]
      /\ effects'[Len(effects) + 1] = served + 1
  BY <1>1, AppendProperties DEF IInv, TypeOK
<1>3. \A i \in DOMAIN effects : effects[i] \in Nat /\ effects[i] <= served
  BY <1>1 DEF IInv, TypeOK, Outcomes, EffectsAreBehind, Numbers
<1>4. Len(effects') <= MaxCalls /\ \A i \in DOMAIN effects' : effects'[i] <= served + 1
  BY <1>1, <1>2, <1>3, BoundsAssumption DEF Runs
<1>5. OnceAndInOrder'
  <2>1. served + 1 \notin skipped
    BY <1>1 DEF IInv, Outcomes, FrontierIsExact
  <2> QED
    BY <1>1, <1>2, <1>3, <2>1 DEF IInv, Outcomes, OnceAndInOrder
<1> QED
  BY <1>2, <1>4, <1>5

\* The steps by which the supervisor waits, gives up or leaves; a tool that was running when it
\* left may have acted.
LEMMA LeavingStep ==
  ASSUME IInv, UNCHANGED <<guest, marker, expired>>, ReadMarker \/ Stall \/ LastLook \/ Raise
  PROVE  IInv'
<1>0. UNCHANGED <<claim, req, late>> /\ \A n : Arrived(n)' = Arrived(n) /\ Claimed(n)' = Claimed(n)
  BY GuestStands
<1>1. /\ UNCHANGED <<resp, served, base, probes, off, window, hand, hole, skipped>>
      /\ result' \in {"none", "completed", "timeout", "failed"}
      /\ \/ pc' \in {"look", "over"} /\ UNCHANGED effects
         \/ pc = "marker" /\ pc' = "serve" /\ UNCHANGED effects
         \/ pc = "spent" /\ pc' = "poll" /\ UNCHANGED effects
         \/ pc = "call" /\ pc' = "over" /\ Runs /\ effects' = Append(effects, Identifier)
  BY DEF ReadMarker, Stall, LastLook, Raise, Leave, walk, IInv, TypeOK
<1>2. TypeOK' /\ HitsAreThere'
  <2>1. effects' \in Seq(Numbers)
    BY <1>1, ToolRuns DEF IInv, TypeOK
  <2> QED
    BY <1>0, <1>1, <2>1 DEF IInv, TypeOK, HitsAreThere
<1>3. WalkFollowsFrontier'
  BY <1>0, <1>1 DEF IInv, WalkFollowsFrontier, Walking
<1>4. CASE UNCHANGED effects
  <2>1. Outcomes'
    BY <1>0, <1>1, <1>4, OutcomesKept DEF IInv
  <2> QED
    BY <1>2, <1>3, <2>1 DEF IInv
<1>5. CASE pc = "call" /\ pc' = "over" /\ Runs /\ effects' = Append(effects, Identifier)
  <2>1. /\ Len(effects') = Len(effects) + 1 /\ Len(effects) \in Nat /\ served \in Nat
        /\ Len(effects') <= MaxCalls /\ \A i \in DOMAIN effects' : effects'[i] <= served + 1
        /\ OnceAndInOrder'
    BY <1>1, <1>5, ToolRuns DEF IInv, TypeOK
  <2>2. FrontierIsExact' /\ HandIsNext' /\ OnlyTheOvertakenAreSkipped'
    BY <1>0, <1>1, <1>5 DEF IInv, Outcomes, FrontierIsExact, HandIsNext, OnlyTheOvertakenAreSkipped
  <2>3. EffectsAreBehind'
    BY <1>1, <1>5, <2>1 DEF EffectsAreBehind
  <2>4. ValuesAreEffects'
    BY <1>1, <1>5, <2>1 DEF IInv, Outcomes, ValuesAreEffects
  <2> QED
    BY <1>2, <1>3, <2>1, <2>2, <2>3, <2>4 DEF IInv, Outcomes
<1> QED
  BY <1>1, <1>4, <1>5

\* The walk ends short of its window only where a slot is missing, which is where a hole is timed.
LEMMA WalkEndsStep ==
  ASSUME IInv, WalkEnds, UNCHANGED <<guest, marker, expired>>
  PROVE  IInv'
<1>0. UNCHANGED <<claim, req, late>> /\ window \in Nat /\ MaxWindow \in Nat
  BY GuestStands, BoundsAssumption DEF IInv, TypeOK
<1>1. window' \in 1..MaxWindow
  <2>1. Min({MaxWindow, 2 * window}) \in 1..MaxWindow
    BY <1>0, MinOfTwo, BoundsAssumption DEF IInv, TypeOK
  <2> QED
    BY <2>1, BoundsAssumption DEF WalkEnds, IInv, TypeOK
<1>2. /\ hole' \in {"none", "since", "due"} /\ pc' \in {"poll", "claim?"}
      /\ probes' = <<>> /\ <<>> \in Seq({"pending", "hit", "miss"})
  BY DEF WalkEnds, Timing, IInv, TypeOK
<1>3. TypeOK'
  BY <1>0, <1>1, <1>2 DEF WalkEnds, IInv, TypeOK
<1>4. WalkFollowsFrontier' /\ HitsAreThere'
  <2>1. CASE off > Len(probes)
    BY <1>0, <1>2, <2>1 DEF WalkEnds, WalkFollowsFrontier, Walking, HitsAreThere
  <2>2. CASE ~(off > Len(probes))
    <3>1. served < ServingBound
      BY <2>2, BoundsAssumption DEF WalkEnds, IInv, TypeOK, WalkFollowsFrontier, Walking, ServingBound
    <3> QED
      BY <1>2, <3>1 DEF WalkEnds, WalkFollowsFrontier, Walking, HitsAreThere
  <2> QED
    BY <2>1, <2>2
<1>5. Outcomes'
  BY <1>0, <1>2, OutcomesKept DEF WalkEnds, IInv
<1> QED
  BY <1>3, <1>4, <1>5 DEF IInv

\* _skip_dead_claim_hole: each look finds something or gives the hole up; after the last one the
\* number is stepped over, which nothing was answered or run for.
LEMMA HoleStep ==
  ASSUME IInv, UNCHANGED <<guest, marker, expired>>, StatClaim \/ StatNext \/ StatOwn \/ StepOver
  PROVE  IInv'
<1>0. UNCHANGED <<claim, req, late>> /\ \A n : Arrived(n)' = Arrived(n) /\ Claimed(n)' = Claimed(n)
  BY GuestStands
<1>1. ServingBound \in Nat /\ MaxNumber \in Nat /\ served \in Nat /\ served < ServingBound
  BY BoundsAssumption
  DEF StatClaim, StatNext, StatOwn, StepOver, IInv, TypeOK, ServingBound, WalkFollowsFrontier
<1>2. CASE StatClaim \/ StatNext \/ StatOwn
  <2>1. /\ UNCHANGED <<served, skipped, resp, base, probes, off, window, hand, effects, result>>
        /\ pc \in {"claim?", "next?", "own?"}
        /\ hole' \in {hole, "since"}
        /\ \/ pc' = "poll"
           \/ pc' = "next?" /\ Claimed(served + 1)
           \/ pc = "next?" /\ pc' = "own?" /\ Arrived(served + 2)
           \/ pc = "own?" /\ pc' = "skip" /\ ~Arrived(served + 1)
    BY <1>1, <1>2 DEF StatClaim, StatNext, StatOwn, NotAHole, walk, IInv, TypeOK
  <2>2. TypeOK' /\ HitsAreThere'
    BY <1>0, <2>1 DEF IInv, TypeOK, HitsAreThere
  <2>3. WalkFollowsFrontier'
    BY <1>0, <1>1, <2>1 DEF IInv, WalkFollowsFrontier, Walking
  <2>4. Outcomes'
    BY <1>0, <2>1, OutcomesKept DEF IInv
  <2> QED
    BY <2>2, <2>3, <2>4 DEF IInv
<1>3. CASE StepOver
  <2>1. /\ UNCHANGED <<resp, base, probes, off, window, hand, effects, result>>
        /\ pc = "skip" /\ pc' = "poll" /\ hole' = "none"
        /\ served' = served + 1 /\ skipped' = skipped \cup {served + 1}
    BY <1>3 DEF StepOver, walk
  <2>2. served + 1 \in Numbers
    BY <2>1 DEF IInv, WalkFollowsFrontier, Claimed
  <2>3. TypeOK' /\ HitsAreThere'
    BY <1>0, <1>1, <2>1, <2>2 DEF IInv, TypeOK, HitsAreThere
  <2>4. WalkFollowsFrontier'
    BY <2>1 DEF WalkFollowsFrontier, Walking
  <2>5. resp[served + 1] = "none" /\ served + 1 \notin skipped /\ hand = "none"
    BY <1>1, <2>1, <2>2 DEF IInv, Outcomes, FrontierIsExact, HandIsNext
  <2>6. FrontierIsExact'
    BY <1>0, <1>1, <2>1, <2>2, <2>5 DEF IInv, TypeOK, Outcomes, FrontierIsExact, Numbers
  <2>7. \A i \in DOMAIN effects : effects[i] \in Nat /\ effects[i] <= served
    BY <1>1, <2>1 DEF IInv, TypeOK, Outcomes, EffectsAreBehind, Numbers
  <2>8. OnceAndInOrder' /\ EffectsAreBehind'
    BY <1>1, <2>1, <2>7 DEF IInv, Outcomes, OnceAndInOrder, EffectsAreBehind
  <2>9. ValuesAreEffects' /\ HandIsNext'
    BY <1>1, <2>1, <2>2, <2>5 DEF ValuesAreEffects, HandIsNext
  <2>10. OnlyTheOvertakenAreSkipped'
    <3>1. Claimed(served + 1) /\ Arrived(served + 1 + 1) /\ (Arrived(served + 1) => served + 1 \in late)
      BY <1>1, <2>1 DEF IInv, WalkFollowsFrontier
    <3> QED
      BY <1>0, <2>1, <3>1 DEF IInv, Outcomes, OnlyTheOvertakenAreSkipped
  <2> QED
    BY <2>3, <2>4, <2>6, <2>8, <2>9, <2>10 DEF IInv, Outcomes
<1> QED
  BY <1>2, <1>3

\* The write of an answer lands, while the host waits for it or when it no longer does: it is the
\* answer to the request just past the frontier.
LEMMA LandStep ==
  ASSUME IInv, Land
  PROVE  IInv'
<1>0. /\ UNCHANGED <<claim, req, late>> /\ \A n : Arrived(n)' = Arrived(n) /\ Claimed(n)' = Claimed(n)
      /\ UNCHANGED <<marker, expired, pc, served, base, probes, off, window, hand, hole, effects,
                     skipped, result>>
  BY GuestStands DEF Land, walk
<1>1. /\ hand # "none" /\ pc \in {"publish", "look", "over"} /\ served \in Nat
      /\ Identifier = served + 1 /\ Identifier \in Numbers /\ hand \in {"none", "value", "refusal"}
  BY DEF Land, IInv, TypeOK, Outcomes, HandIsNext, Arrived
<1>2. /\ resp' \in [Numbers -> {"none", "value", "refusal"}] /\ resp'[served + 1] = hand
      /\ \A n \in Numbers : n # served + 1 => resp'[n] = resp[n]
  BY <1>1 DEF Land, IInv, TypeOK
<1>3. TypeOK' /\ HitsAreThere' /\ WalkFollowsFrontier'
  BY <1>0, <1>2 DEF IInv, TypeOK, HitsAreThere, WalkFollowsFrontier, Walking, Identifier
<1>4. FrontierIsExact'
  <2>1. \A n \in Numbers : n <= served => n # served + 1
    BY <1>1
  <2>2. served + 1 \notin skipped
    BY <1>1 DEF IInv, Outcomes, FrontierIsExact
  <2>3. skipped \subseteq Numbers
    BY DEF IInv, TypeOK
  <2> QED
    BY <1>0, <1>1, <1>2, <2>1, <2>2, <2>3 DEF IInv, Outcomes, FrontierIsExact
<1>5. OnceAndInOrder' /\ EffectsAreBehind' /\ HandIsNext' /\ OnlyTheOvertakenAreSkipped'
  BY <1>0 DEF IInv, Outcomes, OnceAndInOrder, EffectsAreBehind, HandIsNext, Identifier,
     OnlyTheOvertakenAreSkipped
<1>6. ValuesAreEffects'
  <2>1. \A n \in Numbers : n <= served => resp'[n] = resp[n]
    BY <1>1, <1>2
  <2> QED
    BY <1>0, <2>1 DEF IInv, Outcomes, ValuesAreEffects
<1> QED
  BY <1>3, <1>4, <1>5, <1>6 DEF IInv, Outcomes

\* publish, or an abandoned request that has no response: the frontier moves past a number
\* that is dealt with.
LEMMA FrontierAdvances ==
  ASSUME IInv, UNCHANGED <<guest, marker, expired>>, Advance, pc \in {"call", "publish"},
         UNCHANGED <<base, probes, window, hole, effects, skipped, result>>,
         \/ pc = "call" /\ req[Identifier] = "abandoned" /\ UNCHANGED <<resp, hand>>
         \/ pc = "publish" /\ resp' = [resp EXCEPT ![Identifier] = hand] /\ hand' = "none"
  PROVE  IInv'
<1>0. UNCHANGED <<claim, req, late>> /\ \A n : Arrived(n)' = Arrived(n) /\ Claimed(n)' = Claimed(n)
  BY GuestStands
<1>1. /\ served \in Nat /\ MaxNumber \in Nat /\ Identifier = served + 1 /\ Identifier \in Numbers
      /\ served < ServingBound /\ ServingBound \in Nat /\ off \in 1..Len(probes)
  BY BoundsAssumption DEF IInv, TypeOK, WalkFollowsFrontier, Walking, Arrived, Identifier, ServingBound
<1>2. TypeOK' /\ HitsAreThere'
  <2>1. hand' \in {"none", "value", "refusal"}
    BY DEF IInv, TypeOK
  <2>2. resp' \in [Numbers -> {"none", "value", "refusal"}]
    BY DEF IInv, TypeOK
  <2> QED
    BY <1>0, <1>1, <2>1, <2>2 DEF IInv, TypeOK, HitsAreThere, Advance
<1>3. WalkFollowsFrontier'
  BY <1>1 DEF IInv, TypeOK, WalkFollowsFrontier, Walking, Advance
<1>4. /\ served + 1 \notin skipped /\ hand' = "none"
      /\ pc = "call" => resp[served + 1] = "none"
  BY <1>1 DEF IInv, Outcomes, FrontierIsExact, HandIsNext
<1>5. /\ \A n \in Numbers : n # served + 1 => resp'[n] = resp[n]
      /\ pc = "publish" => resp'[served + 1] = hand /\ hand # "none"
  BY <1>1 DEF IInv, TypeOK, WalkFollowsFrontier
<1>6. FrontierIsExact' /\ HandIsNext' /\ OnlyTheOvertakenAreSkipped'
  <2>1. FrontierIsExact'
    <3>1. /\ served' = served + 1 /\ UNCHANGED <<req, skipped>>
          /\ \A n \in Numbers : n \in Nat /\ (n <= served \/ n = served + 1 \/ n > served + 1)
      BY <1>0, <1>1 DEF Advance, Numbers
    <3>2. resp'[served + 1] # "none" \/ req[served + 1] = "abandoned"
      BY <1>1, <1>5
    <3>3. \A n \in Numbers : n > served + 1 => n \notin skipped /\ resp'[n] = "none"
      BY <1>1, <1>5, <3>1 DEF IInv, Outcomes, FrontierIsExact
    <3>4. \A n \in skipped : n \in Numbers /\ n # served + 1 /\ resp'[n] = "none"
      BY <1>4, <1>5 DEF IInv, TypeOK, Outcomes, FrontierIsExact
    <3>5. \A n \in Numbers : n <= served => resp'[n] # "none" \/ req[n] = "abandoned" \/ n \in skipped
      BY <1>1, <1>5, <3>1 DEF IInv, Outcomes, FrontierIsExact
    <3> QED
      BY <1>1, <3>1, <3>2, <3>3, <3>4, <3>5 DEF FrontierIsExact
  <2> QED
    BY <1>0, <1>4, <2>1 DEF IInv, Outcomes, HandIsNext, OnlyTheOvertakenAreSkipped
<1>7. \A i \in DOMAIN effects : effects[i] \in Nat /\ effects[i] <= served + 1
  BY <1>1 DEF IInv, TypeOK, Outcomes, EffectsAreBehind, Numbers
<1>8. OnceAndInOrder' /\ EffectsAreBehind'
  BY <1>1, <1>7 DEF IInv, Outcomes, OnceAndInOrder, EffectsAreBehind, Advance
<1>9. ValuesAreEffects'
  <2> SUFFICES ASSUME \A n \in Numbers : n <= served + 1 => resp'[n] = "value"
               PROVE  served + 1 <= Len(effects)
    BY DEF ValuesAreEffects, Advance
  <2>1. pc = "publish" /\ hand = "value"
    BY <1>1, <1>4, <1>5
  <2>2. \A n \in Numbers : n <= served => resp[n] = "value"
    BY <1>1, <1>5 DEF Numbers
  <2> QED
    BY <1>1, <2>1, <2>2 DEF IInv, TypeOK, Outcomes, ValuesAreEffects
<1> QED
  BY <1>2, <1>3, <1>6, <1>8, <1>9 DEF IInv, Outcomes

\* _answer takes a request into its response: a call runs its tool, once, or is refused.
LEMMA AnswerStep ==
  ASSUME IInv, UNCHANGED <<guest, marker, expired>>, Answer
  PROVE  IInv'
<1>0. UNCHANGED <<claim, req, late>> /\ \A n : Arrived(n)' = Arrived(n) /\ Claimed(n)' = Claimed(n)
  BY GuestStands
<1>1. /\ served \in Nat /\ MaxNumber \in Nat /\ Identifier = served + 1 /\ Identifier \in Numbers
  BY BoundsAssumption DEF Answer, IInv, TypeOK, WalkFollowsFrontier, Walking, Arrived, Identifier
<1>2. CASE req[Identifier] = "abandoned" /\ Advance /\ UNCHANGED <<hand, effects>>
  BY <1>2, FrontierAdvances DEF Answer
<1>3. CASE pc' = "publish" /\ hand' = "refusal" /\ UNCHANGED <<served, off, effects>>
  <2>1. UNCHANGED <<resp, base, probes, window, hole, skipped, result>> /\ pc = "call"
    BY DEF Answer
  <2>2. TypeOK' /\ HitsAreThere'
    BY <1>0, <1>3, <2>1 DEF IInv, TypeOK, HitsAreThere
  <2>3. WalkFollowsFrontier'
    BY <1>0, <1>3, <2>1 DEF IInv, WalkFollowsFrontier, Walking, Identifier
  <2>4. FrontierIsExact' /\ OnceAndInOrder' /\ EffectsAreBehind' /\ ValuesAreEffects'
    BY <1>0, <1>3, <2>1 DEF IInv, Outcomes, FrontierIsExact, OnceAndInOrder, EffectsAreBehind,
       ValuesAreEffects
  <2>5. HandIsNext' /\ OnlyTheOvertakenAreSkipped'
    BY <1>0, <1>1, <1>3, <2>1 DEF IInv, Outcomes, WalkFollowsFrontier, HandIsNext, Identifier,
       OnlyTheOvertakenAreSkipped
  <2> QED
    BY <2>2, <2>3, <2>4, <2>5 DEF IInv, Outcomes
<1>4. CASE /\ Runs /\ effects' = Append(effects, Identifier)
           /\ hand' = "value" /\ pc' = "publish" /\ UNCHANGED <<served, off>>
  <2>1. UNCHANGED <<resp, base, probes, window, hole, skipped, result>> /\ pc = "call"
    BY DEF Answer
  <2>2. /\ effects' \in Seq(Numbers) /\ Len(effects') = Len(effects) + 1 /\ Len(effects) \in Nat
        /\ Len(effects') <= MaxCalls /\ \A i \in DOMAIN effects' : effects'[i] <= served + 1
        /\ OnceAndInOrder'
    BY <1>4, <2>1, ToolRuns
  <2>3. TypeOK' /\ HitsAreThere'
    BY <1>0, <1>4, <2>1, <2>2 DEF IInv, TypeOK, HitsAreThere
  <2>4. WalkFollowsFrontier'
    BY <1>0, <1>4, <2>1 DEF IInv, WalkFollowsFrontier, Walking, Identifier
  <2>5. FrontierIsExact'
    BY <1>0, <1>1, <1>4, <2>1 DEF IInv, Outcomes, FrontierIsExact, HandIsNext
  <2>6. EffectsAreBehind'
    BY <1>4, <2>2 DEF EffectsAreBehind
  <2>7. ValuesAreEffects'
    BY <1>1, <1>4, <2>1, <2>2 DEF IInv, Outcomes, ValuesAreEffects
  <2>8. HandIsNext' /\ OnlyTheOvertakenAreSkipped'
    BY <1>0, <1>1, <1>4, <2>1 DEF IInv, Outcomes, WalkFollowsFrontier, HandIsNext, Identifier,
       OnlyTheOvertakenAreSkipped
  <2> QED
    BY <2>2, <2>3, <2>4, <2>5, <2>6, <2>7, <2>8 DEF IInv, Outcomes
<1> QED
  BY <1>2, <1>3, <1>4 DEF Answer

\* Every step of the guest, the clock and the supervisor keeps the inductive invariant.
LEMMA IInvStep == IInv /\ [Next]_vars => IInv'
<1> SUFFICES ASSUME IInv, [Next]_vars PROVE IInv'
  OBVIOUS
<1>1. CASE Guest \/ Exit \/ Expire \/ GracePasses \/ UNCHANGED vars
  <2>1. /\ UNCHANGED <<resp, pc, served, walk, window, hand, effects, skipped, result>>
        /\ Grows
    BY <1>1, GuestGrows DEF Exit, Expire, GracePasses, vars, host, IInv
  <2>2. TypeOK'
    <3>1. (claim \in [Numbers -> {"none", "live", "dead"}])'
      BY <1>1 DEF Guest, Claim, Publish, Die, Exit, Expire, GracePasses, vars, guest, IInv, TypeOK
    <3>2. (req \in [Numbers -> {"none", "call", "bad", "abandoned"}])'
      BY <1>1 DEF Guest, Claim, Publish, Die, Exit, Expire, GracePasses, vars, guest, IInv, TypeOK
    <3>4. late' \subseteq Numbers
      BY <1>1 DEF Guest, Claim, Publish, Die, Exit, Expire, GracePasses, vars, guest, IInv, TypeOK
    <3>3. marker' \in BOOLEAN /\ expired' \in BOOLEAN /\ hole' \in {"none", "since", "due"}
      BY <1>1 DEF Guest, Exit, Expire, GracePasses, vars, host, IInv, TypeOK
    <3> QED
      BY <2>1, <3>1, <3>2, <3>3, <3>4 DEF walk, IInv, TypeOK
  <2> QED
    BY <2>1, <2>2, GuestKeeps
<1>2. CASE Supervisor
  <2>1. UNCHANGED <<guest, marker, expired>>
    BY <1>2 DEF Supervisor
  <2>2. CASE Respond
    BY <2>1, <2>2, FrontierAdvances DEF Respond
  <2> QED
    BY <1>2, <2>1, <2>2, PollStep, WalkStep, LeavingStep, WalkEndsStep, HoleStep, AnswerStep
       DEF Supervisor, Step
<1>3. CASE Land
  BY <1>3, LandStep
<1> QED
  BY <1>1, <1>2, <1>3 DEF Next

-----------------------------------------------------------------------------

\* When the allowance is spent the guest has been told, or lost a number of it: otherwise as many
\* tools as numbers would have run, which is one more than the cap.
LEMMA SpentFollows == IInv => SpentIsTold
<1> SUFFICES ASSUME IInv, served >= ServingBound,
                    \A n \in Numbers : resp[n] # "refusal" /\ n \notin skipped /\ req[n] # "abandoned"
             PROVE  FALSE
  BY DEF SpentIsTold
<1>1. \A n \in Numbers : n <= served => resp[n] = "value"
  BY DEF IInv, TypeOK, Outcomes, FrontierIsExact
<1>2. served <= Len(effects) /\ Len(effects) <= MaxCalls /\ Len(effects) \in Nat /\ served \in Nat
  BY <1>1 DEF IInv, TypeOK, Outcomes, ValuesAreEffects, EffectsAreBehind
<1> QED
  BY <1>2, BoundsAssumption DEF ServingBound

\* Order and completeness of host tools over exec (_host_tools_over_exec.py), for any cap, window
\* and number of claims: the frontier is exact, no tool runs twice, out of order or for a number
\* stepped over, and a guest whose allowance is spent has been refused or has lost a number.
THEOREM TransportSafety == Spec => [](TypeOK /\ FrontierIsExact /\ OnceAndInOrder /\ SpentIsTold)
<1>1. IInv => TypeOK /\ FrontierIsExact /\ OnceAndInOrder /\ SpentIsTold
  BY SpentFollows DEF IInv, Outcomes
<1> QED
  BY <1>1, InitIInv, IInvStep, PTL DEF Spec

\* _skip_dead_claim_hole, for any cap, window and number of claims: a number that was stepped over
\* was claimed and a later call was waiting behind it, and a request that turns up under it after
\* all, even while the last stat is on its way back, was published after that later one.
THEOREM SkipsOnlyTheOvertaken == Spec => []OnlyTheOvertakenAreSkipped
<1>1. IInv => OnlyTheOvertakenAreSkipped
  BY DEF IInv, Outcomes
<1> QED
  BY <1>1, InitIInv, IInvStep, PTL DEF Spec

-----------------------------------------------------------------------------
(* The stop: ProgramStop.                                                    *)

\* What a look can have shown, and when the program's number can have passed on.
ShownIsPast ==
  /\ shown \cup known \cup member \cup before \subseteq begun
  /\ Other \in begun => Prog \in begun /\ Prog \notin alive

\* While a probe is under way: what has changed since it listed /proc, and what the looks before
\* it showed.
ScanIsPast ==
  scan # Nobody =>
    /\ scan.alive \subseteq scan.begun /\ scan.begun \subseteq begun /\ scan.left \subseteq left
    /\ alive \cap scan.begun \subseteq scan.alive
    /\ Other \in scan.begun => Prog \in scan.begun /\ Prog \notin scan.alive
    /\ shown \cup known \subseteq scan.begun /\ before = scan.begun

\* Nothing has run before the launcher is executed.
NothingBefore ==
  /\ stopPc \in {"before", "upload"} => ~executed
  /\ stopPc \in {"before", "upload", "exec"} => begun = {} /\ ~receipt /\ fate = "none"

\* With a receipt, the tracker knows whatever a look showed below the program; without one
\* nothing is signalled.
ReceiptKnows ==
  /\ receipt => shown \subseteq known
  /\ fate \in {"sent", "absent"} => receipt

\* Where the signal is sent, the last look shows whoever had the program's number when it began.
LookIsSound ==
  stopPc = "signal" /\ receipt /\ Prog \in known /\ ~incomplete /\ Other \in before \cap alive =>
    Stop!Replaced

StopInv ==
  /\ Stop!TypeOK /\ ShownIsPast /\ ScanIsPast /\ NothingBefore /\ ReceiptKnows /\ LookIsSound
  /\ Stop!UnnotedIsQuiet

-----------------------------------------------------------------------------

\* A look's lineage is of the processes it shows, and has every root it shows.
LEMMA LineageHasRoots ==
  ASSUME NEW seen, NEW lines, NEW roots
  PROVE  /\ Stop!Lineage(seen, lines, roots) \subseteq seen
         /\ roots \cap seen \subseteq Stop!Lineage(seen, lines, roots)
BY DEF Stop!Lineage

\* More roots, more lineage: a line of parents from a root the tracker has leads to what it has.
LEMMA LineageGrows ==
  ASSUME NEW seen, NEW lines, NEW a, NEW b, a \cap seen \subseteq b
  PROVE  Stop!Lineage(seen, lines, a) \subseteq Stop!Lineage(seen, lines, b)
<1>1. ASSUME NEW s \in SUBSET seen, b \cap seen \subseteq s PROVE a \cap seen \subseteq s
  BY <1>1
<1> QED
  BY <1>1 DEF Stop!Lineage

\* Nobody descends from a process that is not there.
LEMMA LineageOfNone ==
  ASSUME NEW seen, NEW lines, NEW roots, roots \cap seen = {}
  PROVE  Stop!Lineage(seen, lines, roots) = {}
<1>1. {} \in SUBSET seen /\ roots \cap seen \subseteq {} /\ \A p \in lines : parent[p] \in {} => p \in {}
  OBVIOUS
<1> QED
  BY <1>1 DEF Stop!Lineage

\* What a look leaves the tracker with: with a receipt it knows whatever it showed below the
\* program, and whatever it read in the program's group.
LEMMA LookKnows ==
  ASSUME Stop!TypeOK, ShownIsPast, ScanIsPast, ReceiptKnows, scan # Nobody,
         NEW seen \in SUBSET Stop!Present, Stop!Readable(seen), NEW lines,
         NEW within \in SUBSET seen, within \subseteq Kids \cup {Prog}, Stop!Look(seen, lines, within)
  PROVE  /\ latest' = seen /\ inside' \subseteq known'
         /\ shown' \cup known' \subseteq begun
         /\ shown' \subseteq shown \cup seen
         /\ receipt => shown' \subseteq known'
         /\ receipt /\ session => within \subseteq known'
<1> DEFINE roots == known \cup Stop!Roots(seen, within, known)
<1>1. /\ latest' = seen /\ known' = known \cup Stop!Lineage(seen, lines, roots)
      /\ shown' = shown \cup Stop!Lineage(seen, lines, {Prog})
      /\ inside' = (inside \ seen) \cup (IF receipt /\ session THEN within ELSE {})
  BY DEF Stop!Look, Stop!Attributed
<1>2. /\ Stop!Lineage(seen, lines, roots) \subseteq seen
      /\ roots \cap seen \subseteq Stop!Lineage(seen, lines, roots)
  BY LineageHasRoots
<1>3. Stop!Lineage(seen, lines, {Prog}) \subseteq seen
  BY LineageHasRoots
<1>4. seen \subseteq begun /\ inside \subseteq known
  BY DEF Stop!TypeOK, Stop!Present, ScanIsPast
<1>5. receipt /\ session => within \subseteq known'
  BY <1>1, <1>2 DEF Stop!Roots
<1>6. inside' \subseteq known'
  BY <1>1, <1>4, <1>5
<1>7. ASSUME receipt PROVE Stop!Lineage(seen, lines, {Prog}) \subseteq known'
  <2>1. CASE Prog \notin seen
    BY <2>1, LineageOfNone
  <2>2. CASE Prog \in seen
    <3>1. Other \notin known
      <4>1. CASE Prog \in scan.alive
        BY <4>1 DEF ScanIsPast
      <4>2. CASE Prog \in begun \ scan.begun
        BY <4>2 DEF ScanIsPast
      <4> QED
        BY <2>2, <4>1, <4>2 DEF Stop!Present
    <3>2. Prog \in roots
      BY <2>2, <3>1, <1>7 DEF Stop!Roots, Stop!HasNumber
    <3>3. {Prog} \cap seen \subseteq roots
      BY <3>2
    <3> QED
      BY <3>3, LineageGrows, <1>1
  <2> QED
    BY <2>1, <2>2
<1> QED
  BY <1>1, <1>2, <1>3, <1>4, <1>5, <1>6, <1>7 DEF ShownIsPast, ReceiptKnows

\* What a complete look leaves: it shows whatever ran when it began and still does, and knows those
\* of them that are in the program's group.
Vouched ==
  /\ scan # Nobody /\ latest' # Nobody
  /\ alive \cap scan.begun \subseteq latest'
  /\ shown' \subseteq shown \cup latest'
  /\ receipt /\ session => alive \cap scan.begun \cap (member \ left) \subseteq known'

\* A look or one that fails, as the tracker's invariants see it.
TrackerAfter ==
  /\ latest' \in (SUBSET Stop!Procs) \cup {Nobody} /\ incomplete' \in BOOLEAN
  /\ inside' \subseteq known' /\ shown' \cup known' \subseteq begun
  /\ receipt => shown' \subseteq known'
  /\ incomplete => incomplete'
  /\ ~incomplete' => Vouched

\* A look that fails, or that ends, leaves the tracker (_processes.py) in such a state.
LEMMA TrackerStep ==
  ASSUME Stop!TypeOK, ShownIsPast, ScanIsPast, ReceiptKnows,
         Stop!LookFails \/ (\E first \in BOOLEAN : Stop!Snapshot(first))
  PROVE  TrackerAfter
<1>1. CASE Stop!LookFails
  BY <1>1 DEF Stop!LookFails, Stop!TypeOK, ShownIsPast, ReceiptKnows, TrackerAfter
<1>2. ASSUME NEW seen \in SUBSET Stop!Present, Stop!Readable(seen), scan # Nobody,
             NEW gone, NEW out \in SUBSET (Stop!Within(seen) \cap left),
             Stop!Look(seen, Stop!Lines(seen) \ gone, Stop!Within(seen) \ out),
             incomplete' \in {incomplete, TRUE},
             ~incomplete' => scan.alive \cap alive \subseteq seen
      PROVE  TrackerAfter
  <2> DEFINE within == Stop!Within(seen) \ out
             lines == Stop!Lines(seen) \ gone
  <2>1. within \subseteq seen /\ within \subseteq Kids \cup {Prog}
    BY DEF Stop!Within, Stop!TypeOK
  <2>2. Stop!Look(seen, lines, within)
    BY <1>2
  <2>3. /\ latest' = seen /\ inside' \subseteq known' /\ shown' \cup known' \subseteq begun
        /\ shown' \subseteq shown \cup seen
        /\ receipt => shown' \subseteq known'
        /\ receipt /\ session => within \subseteq known'
    <3> HIDE DEF within, lines
    <3> QED
      BY <1>2, <2>1, <2>2, LookKnows
  <2>4. seen \subseteq Stop!Procs /\ seen # Nobody
    <3>1. seen \subseteq Stop!Procs
      BY <1>2 DEF Stop!TypeOK, Stop!Present, ScanIsPast
    <3> QED
      BY <3>1, ProcessesAssumption DEF Stop!Procs
  <2>5. incomplete' \in BOOLEAN /\ (incomplete => incomplete')
    <3>1. incomplete \in BOOLEAN
      BY DEF Stop!TypeOK
    <3>2. incomplete' = incomplete \/ incomplete' = TRUE
      BY <1>2
    <3> QED
      BY <3>1, <3>2
  <2>6. ASSUME ~incomplete' PROVE Vouched
    <3>1. alive \cap scan.begun \subseteq seen
      BY <1>2, <2>6 DEF ScanIsPast
    <3>2. alive \cap scan.begun \cap (member \ left) \subseteq within
      BY <1>2, <3>1 DEF Stop!Within, ScanIsPast
    <3> HIDE DEF within
    <3> QED
      BY <1>2, <2>3, <2>4, <3>1, <3>2 DEF Vouched
  <2> QED
    BY <2>3, <2>4, <2>5, <2>6 DEF TrackerAfter
<1> QED
  BY <1>1, <1>2 DEF Stop!Snapshot

-----------------------------------------------------------------------------
(* The guest between any two of the host's calls.                            *)

\* What a step of the guest may do: nothing that ever ran comes back, and what starts is new.
GuestMoves ==
  /\ UNCHANGED Stop!host
  /\ begun \subseteq begun' /\ alive' \subseteq begun' /\ alive' \cap begun \subseteq alive
  /\ member \subseteq member' /\ member' \cap begun \subseteq member /\ member' \subseteq begun'
  /\ left \subseteq left'
  /\ Other \in begun' => Prog \in begun' /\ Prog \notin alive'

\* A fork, an escape, an end and the reuse of the program's number are such steps.
LEMMA GuestMovesOn ==
  ASSUME Stop!TypeOK, ShownIsPast, Stop!Guest
  PROVE  GuestMoves /\ Stop!TypeOK'
<1>1. ASSUME NEW p \in Kids \cup {Prog}, NEW k \in Kids, Stop!Fork(p, k)
      PROVE GuestMoves /\ Stop!TypeOK'
  <2>1. /\ UNCHANGED Stop!host /\ UNCHANGED left
        /\ p \in alive /\ k \notin begun /\ alive' = alive \cup {k} /\ begun' = begun \cup {k}
        /\ member' \subseteq member \cup {k} /\ member \subseteq member'
        /\ alive \subseteq begun /\ k # Prog /\ k # Other
        /\ parent' = [parent EXCEPT ![k] = p]
    BY <1>1, ProcessesAssumption DEF Stop!Fork, Stop!TypeOK
  <2>2. GuestMoves
    BY <2>1 DEF GuestMoves, ShownIsPast
  <2>3. parent' \in [Stop!Procs -> Stop!Procs \cup {Nobody}]
    BY <2>1 DEF Stop!TypeOK, Stop!Procs
  <2>4. Stop!TypeOK'
    BY <2>1, <2>3 DEF Stop!TypeOK, Stop!host, Stop!tracker, Stop!findings, Stop!Procs, Stop!Guests
  <2> QED
    BY <2>2, <2>4
<1>2. ASSUME NEW k \in Kids, Stop!Escape(k) PROVE GuestMoves /\ Stop!TypeOK'
  BY <1>2 DEF Stop!Escape, Stop!TypeOK, Stop!host, Stop!tracker, Stop!findings, Stop!Procs,
     Stop!Guests, GuestMoves, ShownIsPast
<1>3. ASSUME NEW p \in Stop!Procs, Stop!End(p) PROVE GuestMoves /\ Stop!TypeOK'
  BY <1>3 DEF Stop!End, Stop!TypeOK, Stop!host, Stop!tracker, Stop!findings, Stop!Procs,
     Stop!Guests, GuestMoves, ShownIsPast
<1>4. ASSUME Stop!Reuse PROVE GuestMoves /\ Stop!TypeOK'
  BY <1>4, ProcessesAssumption DEF Stop!Reuse, Stop!TypeOK, Stop!host, Stop!tracker, Stop!findings,
     Stop!Procs, Stop!Guests, GuestMoves, ShownIsPast
<1> QED
  BY <1>1, <1>2, <1>3, <1>4 DEF Stop!Guest

\* A step of the guest leaves what the host has and knows, and what it could vouch for.
LEMMA GuestStep ==
  ASSUME StopInv, Stop!Guest
  PROVE  StopInv'
<1>1. /\ Stop!TypeOK /\ ShownIsPast /\ ScanIsPast /\ NothingBefore /\ ReceiptKnows /\ LookIsSound
      /\ Stop!UnnotedIsQuiet
  BY DEF StopInv
<1>2. GuestMoves /\ Stop!TypeOK'
  BY <1>1, GuestMovesOn
<1>3. UNCHANGED <<released, stopPc, session, executed, receipt, scan, known, inside, latest,
                  incomplete, fate, spared, noted, shown, before>>
  BY <1>2 DEF GuestMoves, Stop!host, Stop!tracker, Stop!findings
<1>4. ShownIsPast'
  BY <1>1, <1>2, <1>3 DEF ShownIsPast, GuestMoves
<1>5. ScanIsPast'
  BY <1>1, <1>2, <1>3 DEF ScanIsPast, GuestMoves
<1>6. NothingBefore'
  BY <1>1, <1>3 DEF NothingBefore, Stop!Guest, Stop!Fork, Stop!Escape, Stop!End, Stop!Reuse,
     Stop!TypeOK
<1>7. ReceiptKnows'
  BY <1>1, <1>3 DEF ReceiptKnows
<1>8. LookIsSound'
  BY <1>1, <1>2, <1>3 DEF LookIsSound, Stop!Replaced, GuestMoves, ShownIsPast
<1>9. Stop!UnnotedIsQuiet'
  BY <1>1, <1>2, <1>3 DEF Stop!UnnotedIsQuiet, Stop!grouped, GuestMoves, ShownIsPast
<1> QED
  BY <1>2, <1>4, <1>5, <1>6, <1>7, <1>8, <1>9 DEF StopInv

-----------------------------------------------------------------------------
(* The host.                                                                 *)

\* The stop's own steps on the guest: nothing, or a signal to processes that run.
LEMMA StopKills ==
  ASSUME Stop!TypeOK, Stop!Signal \/ Stop!Descendants \/ Stop!Interrupt
  PROVE  alive' \subseteq alive /\ UNCHANGED <<begun, parent, member, left>>
<1>1. ASSUME NEW dead, Stop!Killed(dead)
      PROVE  alive' \subseteq alive /\ UNCHANGED <<begun, parent, member, left>>
  BY <1>1 DEF Stop!Killed
<1>2. CASE UNCHANGED Stop!guest
  BY <1>2 DEF Stop!guest
<1>3. CASE Stop!Signal
  BY <1>1, <1>2, <1>3 DEF Stop!Signal, Stop!Send
<1>4. CASE Stop!Descendants
  BY <1>1, <1>4 DEF Stop!Descendants
<1>5. CASE Stop!Interrupt
  BY <1>1, <1>2, <1>5 DEF Stop!Interrupt
<1> QED
  BY <1>3, <1>4, <1>5

Settles == scan' = Nobody /\ before' \in {before, {}}

\* A step of the host that is not the beginning of a probe ends the one that was under way.
LEMMA HostSettles ==
  ASSUME Stop!Host, ~Stop!List
  PROVE  Stop!Step /\ Settles
BY DEF Stop!Host, Settles

\* What is enough of a step of the host after which nothing more runs than before.
LEMMA HostFrame ==
  ASSUME StopInv, Settles,
         alive' \subseteq alive, UNCHANGED <<begun, parent, member, left, receipt, session>>,
         latest' \in (SUBSET Stop!Procs) \cup {Nobody}, inside' \subseteq known',
         shown' \cup known' \subseteq begun, receipt => shown' \subseteq known',
         {released', executed', phase', incomplete', spared', noted'} \subseteq BOOLEAN,
         stopPc' \in {"before", "upload", "exec", "gate", "after", "run", "catchUp", "cleanup",
                      "signal", "descendants", "verify", "over"},
         fate' \in {"none", "unrecorded", "unknown", "refused", "sent", "absent"},
         fate' \in {"sent", "absent"} => receipt,
         stopPc' \in {"before", "upload"} => ~executed',
         stopPc' \in {"before", "upload", "exec"} =>
           stopPc \in {"before", "upload", "exec"} /\ fate' = fate,
         stopPc' = "signal" => LookIsSound',
         stopPc' = "over" /\ executed' => Stop!UnnotedIsQuiet'
  PROVE  StopInv'
<1>1. Stop!TypeOK /\ ShownIsPast /\ NothingBefore /\ ReceiptKnows
  BY DEF StopInv
<1>2. /\ receipt \in BOOLEAN /\ session \in BOOLEAN /\ begun \subseteq Stop!Procs /\ alive \subseteq begun
      /\ member \subseteq Kids \cup {Prog} /\ left \subseteq Kids
      /\ parent \in [Stop!Procs -> Stop!Procs \cup {Nobody}]
  BY <1>1 DEF Stop!TypeOK
<1>3. before' \subseteq begun
  BY <1>1 DEF ShownIsPast, Settles
<1>4. Stop!TypeOK'
  BY <1>2, <1>3 DEF Stop!TypeOK, Settles
<1>5. ShownIsPast' /\ ScanIsPast'
  BY <1>1, <1>3 DEF ShownIsPast, ScanIsPast, Settles
<1>6. NothingBefore'
  BY <1>1 DEF NothingBefore
<1>7. ReceiptKnows' /\ LookIsSound'
  BY DEF ReceiptKnows, LookIsSound
<1>8. Stop!UnnotedIsQuiet'
  BY DEF Stop!UnnotedIsQuiet
<1> QED
  BY <1>4, <1>5, <1>6, <1>7, <1>8 DEF StopInv

\* The listing that begins a probe.
LEMMA ListStep ==
  ASSUME StopInv, Stop!List
  PROVE  StopInv'
<1>1. /\ Stop!TypeOK /\ ShownIsPast /\ NothingBefore /\ ReceiptKnows /\ LookIsSound
      /\ Stop!UnnotedIsQuiet
  BY DEF StopInv
<1>2. /\ UNCHANGED <<alive, begun, parent, member, left, released, stopPc, session, executed, receipt,
                     phase, known, inside, latest, incomplete, fate, spared, noted, shown>>
      /\ scan' = [alive |-> alive, begun |-> begun, left |-> left] /\ before' = begun
      /\ stopPc \notin {"signal", "over"}
  BY DEF Stop!List, Stop!guest, Stop!progress, Stop!tracker, Stop!findings
<1>3. scan' \in Stop!Guests
  BY <1>1, <1>2 DEF Stop!TypeOK, Stop!Guests
<1>4. Stop!TypeOK'
  BY <1>1, <1>2, <1>3 DEF Stop!TypeOK
<1>5. ShownIsPast' /\ NothingBefore' /\ ReceiptKnows' /\ LookIsSound' /\ Stop!UnnotedIsQuiet'
  BY <1>1, <1>2 DEF ShownIsPast, NothingBefore, ReceiptKnows, LookIsSound, Stop!UnnotedIsQuiet
<1>6. ScanIsPast'
  <2>1. /\ scan'.alive = alive /\ scan'.begun = begun /\ scan'.left = left
    BY <1>2
  <2> QED
    BY <1>1, <1>2, <2>1 DEF ScanIsPast, ShownIsPast, Stop!TypeOK
<1> QED
  BY <1>4, <1>5, <1>6 DEF StopInv

\* The launcher's exec starts the program, or fails before it did.
LEMMA ExecStep ==
  ASSUME StopInv, Stop!Exec, Settles
  PROVE  StopInv'
<1>1. Stop!TypeOK /\ ShownIsPast /\ NothingBefore /\ ReceiptKnows
  BY DEF StopInv
<1>2. /\ begun = {} /\ alive = {} /\ known = {} /\ shown = {} /\ member = {} /\ before = {}
      /\ ~receipt /\ fate = "none"
  BY <1>1 DEF Stop!Exec, NothingBefore, ShownIsPast, Stop!TypeOK
<1>3. /\ stopPc' \in {"gate", "after", "catchUp"} /\ receipt' \in BOOLEAN
      /\ UNCHANGED <<released, session, executed, Stop!tracker, fate, spared, noted>>
  BY <1>1 DEF Stop!Exec, Stop!TypeOK
<1>4. /\ \/ alive' = {Prog} /\ begun' = {Prog} /\ member' \subseteq {Prog}
         \/ alive' = {} /\ begun' = {} /\ member' = {}
      /\ UNCHANGED <<parent, left>>
  BY <1>2 DEF Stop!Exec, Stop!Starts, Stop!guest
<1>5. begun' \subseteq {Prog} /\ alive' = begun' /\ member' \subseteq begun'
  <2>1. session \in BOOLEAN
    BY <1>1 DEF Stop!TypeOK
  <2> QED
    BY <1>2, <1>4, <2>1 DEF Stop!Exec, Stop!Starts, Stop!guest
<1>6. known' = {} /\ shown' = {} /\ fate' = "none" /\ before' = {} /\ scan' = Nobody
  BY <1>2, <1>3 DEF Stop!tracker, Stop!findings, Settles
<1>7. Stop!TypeOK'
  BY <1>1, <1>3, <1>4, <1>5, <1>6 DEF Stop!TypeOK, Stop!tracker, Stop!findings, Stop!Procs
<1>8. ShownIsPast' /\ ScanIsPast' /\ NothingBefore' /\ ReceiptKnows' /\ LookIsSound'
      /\ Stop!UnnotedIsQuiet'
  <2>1. Other \notin begun'
    BY <1>5, ProcessesAssumption
  <2> QED
    BY <1>3, <1>5, <1>6, <2>1 DEF ShownIsPast, ScanIsPast, NothingBefore, ReceiptKnows, LookIsSound,
       Stop!UnnotedIsQuiet
<1> QED
  BY <1>7, <1>8 DEF StopInv

\* The steps before the stop.
LEMMA StartStep ==
  ASSUME StopInv, Settles,
         Stop!BeforeLaunch \/ Stop!Upload \/ Stop!Gate \/ Stop!AfterLaunch \/ Stop!Leave
           \/ Stop!Raise
  PROVE  StopInv'
<1>1. Stop!TypeOK /\ ShownIsPast /\ ScanIsPast /\ NothingBefore /\ ReceiptKnows
  BY DEF StopInv
<1>2. CASE Stop!BeforeLaunch
  <2>1. Stop!LookFails \/ (\E first \in BOOLEAN : Stop!Snapshot(first))
    BY <1>2 DEF Stop!BeforeLaunch
  <2>2. /\ phase' = TRUE /\ noted' \in BOOLEAN /\ stopPc' \in {"upload", "over"} /\ stopPc = "before"
        /\ UNCHANGED <<alive, begun, parent, member, left, released, session, executed, receipt, fate,
                       spared>>
    BY <1>1, <1>2 DEF Stop!BeforeLaunch, Stop!Snapshot, Stop!TypeOK, Stop!guest, Stop!progress
  <2>3. ~executed'
    BY <1>1, <2>2 DEF NothingBefore
  <2> QED
    BY <1>1, <2>1, <2>2, <2>3, TrackerStep, HostFrame DEF Stop!TypeOK, ReceiptKnows, TrackerAfter
<1>3. CASE Stop!Upload
  <2>1. ~executed /\ executed \in BOOLEAN /\ incomplete \in BOOLEAN /\ noted \in BOOLEAN /\ stopPc = "upload"
    BY <1>1, <1>3 DEF Stop!Upload, Stop!TypeOK, NothingBefore
  <2>2. \/ stopPc' = "exec" /\ executed' = TRUE /\ noted' = noted
        \/ stopPc' = "over" /\ executed' = executed /\ noted' = incomplete
    BY <1>3 DEF Stop!Upload
  <2>3. UNCHANGED <<alive, begun, parent, member, left, released, session, receipt, Stop!tracker, fate,
                    spared>>
    BY <1>3 DEF Stop!Upload, Stop!guest
  <2>4. executed' \in BOOLEAN
    BY <2>1, <2>2
  <2>5. noted' \in BOOLEAN
    BY <2>1, <2>2
  <2>6. stopPc' = "over" => ~executed'
    BY <2>1, <2>2
  <2>7. stopPc' \in {"exec", "over"}
    BY <2>2
  <2> QED
    BY <1>1, <2>1, <2>3, <2>4, <2>5, <2>6, <2>7, HostFrame
    DEF Stop!TypeOK, ShownIsPast, ReceiptKnows, Stop!tracker, Stop!findings
<1>4. CASE Stop!Gate
  <2>1. /\ stopPc' \in {"after", "catchUp"} /\ released' \in BOOLEAN
        /\ UNCHANGED <<alive, begun, parent, member, left, session, executed, receipt, Stop!tracker,
                       fate, spared, noted>>
    BY <1>1, <1>4 DEF Stop!Gate, Stop!guest, Stop!TypeOK
  <2> QED
    BY <1>1, <2>1, HostFrame
    DEF Stop!TypeOK, ShownIsPast, ReceiptKnows, Stop!tracker, Stop!findings
<1>5. CASE Stop!AfterLaunch
  <2>1. Stop!Snapshot(FALSE)
    BY <1>5 DEF Stop!AfterLaunch
  <2>2. /\ stopPc' \in {"run", "catchUp"} /\ phase' = FALSE
        /\ UNCHANGED <<alive, begun, parent, member, left, released, session, executed, receipt, fate,
                       spared, noted>>
    BY <1>5 DEF Stop!AfterLaunch, Stop!Snapshot, Stop!guest, Stop!progress
  <2> QED
    BY <1>1, <2>1, <2>2, TrackerStep, HostFrame DEF Stop!TypeOK, ReceiptKnows, TrackerAfter
<1>6. CASE Stop!Leave
  <2>1. /\ stopPc' = "catchUp"
        /\ UNCHANGED <<alive, begun, parent, member, left, released, session, executed, receipt,
                       Stop!tracker, fate, spared, noted>>
    BY <1>6 DEF Stop!Leave, Stop!guest, Stop!progress
  <2> QED
    BY <1>1, <2>1, HostFrame
    DEF Stop!TypeOK, ShownIsPast, ReceiptKnows, Stop!tracker, Stop!findings
<1>7. CASE Stop!Raise
  <2>1. /\ stopPc' = "catchUp"
        /\ UNCHANGED <<alive, begun, parent, member, left, released, session, executed, receipt, fate,
                       spared, noted>>
        /\ (Stop!LookFails /\ phase' = FALSE) \/ UNCHANGED Stop!tracker
    BY <1>7 DEF Stop!Raise, Stop!guest, Stop!progress
  <2>2. CASE Stop!LookFails /\ phase' = FALSE
    BY <1>1, <2>1, <2>2, TrackerStep, HostFrame DEF Stop!TypeOK, ReceiptKnows, TrackerAfter
  <2>3. CASE UNCHANGED Stop!tracker
    BY <1>1, <2>1, <2>3, HostFrame
    DEF Stop!TypeOK, ShownIsPast, ReceiptKnows, Stop!tracker, Stop!findings
  <2> QED
    BY <2>1, <2>2, <2>3
<1> QED
  BY <1>2, <1>3, <1>4, <1>5, <1>6, <1>7

\* The look before the signal: where it is complete, a process that had the program's number when
\* it began, and runs, is in it.
LEMMA LookBeforeSignal ==
  ASSUME StopInv, Settles, Stop!BeforeCleanup
  PROVE  StopInv'
<1>1. Stop!TypeOK /\ ShownIsPast /\ ScanIsPast /\ NothingBefore /\ ReceiptKnows
  BY DEF StopInv
<1>2. /\ stopPc' = "signal" /\ phase' = FALSE /\ Stop!Snapshot(FALSE)
      /\ UNCHANGED <<alive, begun, parent, member, left, released, session, executed, receipt, fate,
                     spared, noted>>
  BY DEF Stop!BeforeCleanup, Stop!Snapshot, Stop!guest, Stop!progress
<1>3. TrackerAfter
  BY <1>1, <1>2, TrackerStep
<1>4. LookIsSound'
  <2> SUFFICES ASSUME receipt, (Prog \in known)', ~incomplete', Other \in before', Other \in alive
               PROVE  Other \in latest' /\ latest' # Nobody
    BY <1>2 DEF LookIsSound, Stop!Replaced
  <2>1. Vouched /\ before = scan.begun
    BY <1>1, <1>3 DEF TrackerAfter, Vouched, ScanIsPast
  <2>2. Other \in before
    BY DEF Settles
  <2> QED
    BY <2>1, <2>2 DEF Vouched
<1> QED
  BY <1>1, <1>2, <1>3, <1>4, HostFrame DEF Stop!TypeOK, ReceiptKnows, TrackerAfter

\* The other steps of the stop, up to its last look.
LEMMA StopStep ==
  ASSUME StopInv, Settles, Stop!CatchUp \/ Stop!Signal \/ Stop!Descendants \/ Stop!Interrupt
  PROVE  StopInv'
<1>1. Stop!TypeOK /\ ShownIsPast /\ ScanIsPast /\ NothingBefore /\ ReceiptKnows
  BY DEF StopInv
<1>2. ASSUME Stop!LookIsPast
      PROVE  /\ latest' = Nobody /\ UNCHANGED <<phase, known, inside, incomplete, shown>>
  BY <1>2 DEF Stop!LookIsPast, Stop!findings
<1>3. CASE Stop!CatchUp
  <2>1. /\ stopPc' = "cleanup" /\ fate' \in {"unknown", "unrecorded"}
        /\ UNCHANGED <<alive, begun, parent, member, left, released, session, executed, receipt,
                       spared, noted>>
        /\ (Stop!Snapshot(FALSE) /\ phase' = FALSE) \/ UNCHANGED Stop!tracker
    BY <1>3 DEF Stop!CatchUp, Stop!Snapshot, Stop!guest, Stop!progress, Stop!Unsent
  <2>2. CASE Stop!Snapshot(FALSE) /\ phase' = FALSE
    BY <1>1, <2>1, <2>2, TrackerStep, HostFrame DEF Stop!TypeOK, ReceiptKnows, TrackerAfter
  <2>3. CASE UNCHANGED Stop!tracker
    BY <1>1, <2>1, <2>3, HostFrame
    DEF Stop!TypeOK, ShownIsPast, ReceiptKnows, Stop!tracker, Stop!findings
  <2> QED
    BY <2>1, <2>2, <2>3
<1>4. CASE Stop!Signal
  <2>1. /\ stopPc' = "descendants" /\ fate' \in {fate, "refused", "unknown", "sent"}
        /\ (fate' = "sent" /\ fate # "sent" => receipt)
        /\ UNCHANGED <<released, session, executed, receipt, spared, noted>>
        /\ latest' = Nobody /\ UNCHANGED <<phase, known, inside, incomplete, shown>>
    BY <1>2, <1>4 DEF Stop!Signal, Stop!Send
  <2> QED
    BY <1>1, <1>4, <2>1, StopKills, HostFrame DEF Stop!TypeOK, ShownIsPast, ReceiptKnows
<1>5. CASE Stop!Descendants
  <2>1. /\ stopPc' = "verify" /\ spared' \in BOOLEAN
        /\ UNCHANGED <<released, session, executed, receipt, Stop!tracker, fate, noted>>
    BY <1>5 DEF Stop!Descendants, Stop!progress
  <2> QED
    BY <1>1, <1>5, <2>1, StopKills, HostFrame
    DEF Stop!TypeOK, ShownIsPast, ReceiptKnows, Stop!tracker, Stop!findings
<1>6. CASE Stop!Interrupt
  <2>1. /\ stopPc' \in {"verify", "descendants"} /\ fate' \in {fate, "unknown", "unrecorded"}
        /\ noted' = TRUE /\ UNCHANGED <<released, session, executed, receipt, spared>>
        /\ (Stop!LookFails /\ phase' = FALSE) \/ Stop!LookIsPast
    BY <1>6 DEF Stop!Interrupt, Stop!Unsent
  <2>2. CASE Stop!LookFails /\ phase' = FALSE
    BY <1>1, <1>6, <2>1, <2>2, StopKills, TrackerStep, HostFrame
    DEF Stop!TypeOK, ReceiptKnows, TrackerAfter
  <2>3. CASE Stop!LookIsPast
    BY <1>1, <1>2, <1>6, <2>1, <2>3, StopKills, HostFrame
    DEF Stop!TypeOK, ShownIsPast, ReceiptKnows
  <2> QED
    BY <2>1, <2>2, <2>3
<1> QED
  BY <1>3, <1>4, <1>5, <1>6

\* The last look: what leads to no note is a complete look that shows nothing the tracker knows,
\* after a signal that had the receipt's number.
LEMMA VerifyStep ==
  ASSUME StopInv, Settles, Stop!Verify
  PROVE  StopInv'
<1>1. Stop!TypeOK /\ ShownIsPast /\ ScanIsPast /\ NothingBefore /\ ReceiptKnows
  BY DEF StopInv
<1>2. /\ stopPc' = "over" /\ phase' = FALSE /\ Stop!Snapshot(FALSE)
      /\ fate' = Stop!Verdict /\ noted' = Stop!Noted
      /\ UNCHANGED <<alive, begun, parent, member, left, released, session, executed, receipt, spared>>
  BY DEF Stop!Verify, Stop!Snapshot, Stop!guest, Stop!progress
<1>3. fate' \in {fate, "absent"} /\ (fate' = "absent" => fate = "absent" \/ receipt)
  BY <1>2 DEF Stop!Verdict
<1>4. noted' \in BOOLEAN
  BY <1>1, <1>2 DEF Stop!Noted, Stop!TypeOK
<1>5. TrackerAfter
  BY <1>1, <1>2, TrackerStep
<1>6. ASSUME ~noted'
      PROVE  shown' \cap alive = {} /\ (session => (member \ left) \cap alive \cap before' = {})
  <2>1. ~incomplete' /\ Stop!Survivors(latest', known') = {} /\ fate' \in {"absent", "sent"}
    BY <1>2, <1>6 DEF Stop!Noted
  <2>2. receipt
    BY <1>1, <1>3, <2>1 DEF ReceiptKnows
  <2>3. Vouched /\ shown' \subseteq known'
    BY <1>5, <2>1, <2>2 DEF TrackerAfter
  <2>4. latest' \cap known' = {}
    BY <2>1, <2>3 DEF Stop!Survivors, Vouched
  <2>5. shown \subseteq scan.begun /\ before = scan.begun
    BY <1>1, <2>3 DEF Vouched, ScanIsPast
  <2>6. shown' \cap alive = {}
    BY <2>3, <2>4, <2>5 DEF Vouched
  <2>7. ASSUME session, NEW p \in (member \ left) \cap alive \cap before' PROVE FALSE
    <3>1. p \in scan.begun
      BY <2>5, <2>7 DEF Settles
    <3>2. p \in latest' /\ p \in known'
      BY <2>2, <2>3, <2>7, <3>1 DEF Vouched
    <3> QED
      BY <2>4, <3>2
  <2> QED
    BY <2>6, <2>7
<1>7. Stop!UnnotedIsQuiet'
  BY <1>2, <1>6 DEF Stop!UnnotedIsQuiet, Stop!grouped
<1> QED
  BY <1>1, <1>2, <1>3, <1>4, <1>5, <1>7, HostFrame DEF Stop!TypeOK, ReceiptKnows, TrackerAfter

\* The invariant of the stop, over every step of the guest and of the host.
LEMMA StopInvStep ==
  ASSUME StopInv, [Stop!Next]_(Stop!vars)
  PROVE  StopInv'
<1>1. CASE Stop!Guest
  BY <1>1, GuestStep
<1>2. CASE Stop!List
  BY <1>2, ListStep
<1>3. CASE Stop!Host /\ ~Stop!List
  <2>1. Stop!Step /\ Settles
    BY <1>3, HostSettles
  <2> QED
    BY <2>1, ExecStep, StartStep, LookBeforeSignal, StopStep, VerifyStep DEF Stop!Step
<1>4. CASE UNCHANGED Stop!vars
  BY <1>4 DEF StopInv, Stop!TypeOK, ShownIsPast, ScanIsPast, NothingBefore, ReceiptKnows, LookIsSound,
     Stop!UnnotedIsQuiet, Stop!grouped, Stop!Replaced, Stop!Guests, Stop!Procs, Stop!vars, Stop!guest,
     Stop!tracker, Stop!findings
<1> QED
  BY <1>1, <1>2, <1>3, <1>4 DEF Stop!Next

\* It holds before anything has run.
LEMMA StopInvInit == Stop!Init => StopInv
BY DEF Stop!Init, StopInv, Stop!TypeOK, ShownIsPast, ScanIsPast, NothingBefore, ReceiptKnows,
   LookIsSound, Stop!UnnotedIsQuiet, Stop!Procs

-----------------------------------------------------------------------------

\* A behaviour of the transport, with its bound, is one of the supervisor and one of the stop: what
\* holds of HostToolsOverExec and of ProgramStop holds of it.
LEMMA HalvesOfTransport == TransportSpec => Spec /\ Stop!Spec
<1>1. TransportInit => Init /\ Stop!Init
  BY DEF TransportInit
<1>2. [TransportNext]_<<vars, stopVars, half>> => [Next]_vars
  BY DEF TransportNext, vars
<1>3. [TransportNext]_<<vars, stopVars, half>> => [Stop!Next]_(Stop!vars)
  <2>1. UNCHANGED stopVars => UNCHANGED Stop!vars
    BY DEF stopVars, Stop!vars, Stop!guest, Stop!tracker, Stop!findings
  <2> QED
    BY <2>1 DEF TransportNext
<1> QED
  BY <1>1, <1>2, <1>3, PTL DEF TransportSpec, Spec, Stop!Spec

\* _stop_recorded_processes and ProcessTracker, for any number of processes and without the run's
\* bound: a sandbox that was not noted holds no process of the program that a look showed, and of
\* the program's group only what started after the last look had begun to list /proc.
THEOREM UnnotedSandboxIsQuiet == Stop!Spec => []UnnotedIsQuiet
<1>1. StopInv /\ [Stop!Next]_(Stop!vars) => StopInv'
  BY StopInvStep
<1>2. StopInv => UnnotedIsQuiet
  BY DEF StopInv, UnnotedIsQuiet
<1> QED
  BY <1>1, <1>2, StopInvInit, PTL DEF Stop!Spec

\* _signal_program and the looks before it, for any number of processes: after complete looks, one
\* of which knew the program by its number, a process that has taken the number since is signalled
\* only if it started after the last of them had begun, however the looks and the reuse interleave.
THEOREM OnlyTheUnseenIsHit == Stop!Spec => ReplacementIsSpared
<1> DEFINE Spared == stopPc = "signal" /\ Other \in alive \ alive' /\ stopPc' # stopPc
                       /\ Prog \in known /\ ~incomplete => Other \notin before
<1>1. StopInv /\ [Stop!Next]_(Stop!vars) => [Spared]_(Stop!vars)
  <2> SUFFICES ASSUME StopInv, Stop!Next, stopPc = "signal", Other \in alive \ alive', stopPc' # stopPc,
                      Prog \in known, ~incomplete, Other \in before
               PROVE  FALSE
    OBVIOUS
  <2>1. ~Stop!Guest /\ ~Stop!List
    BY DEF Stop!Guest, Stop!Fork, Stop!Escape, Stop!End, Stop!Reuse, Stop!host, Stop!List
  <2>2. Stop!Signal \/ Stop!Interrupt
    BY <2>1 DEF Stop!Next, Stop!Host, Stop!Step, Stop!BeforeLaunch, Stop!Upload, Stop!Exec, Stop!Gate,
       Stop!AfterLaunch, Stop!Leave, Stop!Raise, Stop!CatchUp, Stop!BeforeCleanup, Stop!Descendants,
       Stop!Verify
  <2>3. receipt /\ ~Stop!Replaced
    BY <2>2 DEF Stop!Signal, Stop!Interrupt, Stop!guest
  <2> QED
    BY <2>3 DEF StopInv, LookIsSound
<1>2. StopInv /\ [Stop!Next]_(Stop!vars) => StopInv'
  BY StopInvStep
<1> QED
  BY <1>1, <1>2, StopInvInit, PTL DEF Stop!Spec, ReplacementIsSpared, Stop!ReplacementIsSpared

=============================================================================
