-------------------------- MODULE HostToolRunProofs --------------------------
(***************************************************************************)
(* Proofs about HostToolRun, for any number of calls and any limits.           *)
(***************************************************************************)
EXTENDS HostToolRun, FiniteSetTheorems, TLAPS

\* What the proof needs of the types.  That the ledgers never go below zero rests on a sum over
\* the calls, which is left to TLC (LedgerExact).
Typed ==
  /\ outer \in [Calls -> {"idle", "waiting", "grace", "unwinding"} \cup Left]
  /\ pc \in [Calls -> {"idle", "new"} \cup Serving \cup Publishing \cup Ended]
  /\ ledger \in [slots : Int, bytes : Int]
  /\ own \in [Calls -> Nat]
  /\ closed \in BOOLEAN
  /\ identity \in Nat /\ minted \in Nat
  /\ expired \subseteq Calls /\ retained \subseteq Calls /\ unclean \in BOOLEAN

\* The lock is what makes the identity single: while a call mints there is none.
OneMinter == \A c \in Calls : pc[c] = "mint" => minter = c /\ identity = 0

\* While the run is open, bodies were given the identity the run still holds.
HandedIsHeld ==
  /\ ~closed => handed \subseteq {identity} \ {0}
  /\ \A x, y \in handed : x = y

\* Only a value that is being published, was delivered or is in doubt has bytes of its own.
ChargedIsKept ==
  \A c \in Calls : pc[c] \notin {"sendValue", "delivered", "uncertain"} => own[c] = 0

\* A bound that expired under a call still waited for has stopped its value from being published.
ExpiredSendsNoValue ==
  \A c \in Calls :
    c \in expired /\ outer[c] \in {"idle", "waiting"} => pc[c] \notin {"sendValue", "delivered"}

\* A task, and its bound, exist only once it was called for.
NotCalled == \A c \in Calls : outer[c] = "idle" => pc[c] = "idle" /\ c \notin expired

\* A cancelled caller revokes the run before it waits for its task.
UnwindsRevoked == \A c \in Calls : outer[c] = "unwinding" => closed

IInv ==
  /\ Typed /\ WithinLimits /\ ClosedHasNoAuthority /\ OneMinter /\ HandedIsHeld
  /\ AbandonedIsOwned /\ TimeoutLeavesARefusal /\ DoubtRevokes
  /\ ChargedIsKept /\ ExpiredSendsNoValue /\ NotCalled /\ UnwindsRevoked

-----------------------------------------------------------------------------
(***************************************************************************)
(* What a step of a call's task may do, whatever the step is: move the task to   *)
(* phase x with o bytes of its own, within the limits, and close the run at most.  *)
(***************************************************************************)
Ledgers == [slots : Int, bytes : Int]

Ends(c, x, o) ==
  /\ pc' = [pc EXCEPT ![c] = x]
  /\ own' = [own EXCEPT ![c] = o]
  /\ o \in Nat /\ (x \notin {"sendValue", "delivered", "uncertain"} => o = 0)
  /\ x = "uncertain" => closed'
  /\ closed' \in BOOLEAN /\ (closed => closed')
  /\ expired \subseteq expired' /\ expired' \subseteq expired \cup {c}
  /\ x = "sendValue" => c \notin expired'
  /\ closed => x \notin {"lock", "mint", "body"} \cup Publishing

Moves(c, x, o) ==
  /\ pc[c] \notin Ended \cup {"idle"}
  /\ x \in Serving \cup Publishing \cup Ended
  /\ Ends(c, x, o)
  /\ x = "delivered" => pc[c] = "sendValue" /\ expired' = expired
  /\ ledger' \in Ledgers /\ ledger'.slots <= MaxFiles /\ ledger'.bytes <= MaxTotal
  /\ identity' \in Nat /\ (closed' => identity' = 0) /\ minted' \in Nat
  /\ UNCHANGED <<outer, unclean, retained>>

\* What answering a call does: it ends in phase x, never delivered or refused yet, and gives back
\* what it does not keep.
LEMMA AnswerEnds ==
  ASSUME Typed, ClosedHasNoAuthority, NEW c \in Calls, NEW res, NEW s \in Nat, NEW l \in Ledgers,
         NEW e \in BOOLEAN, NEW m \in 0..2, NEW n \in 0..2,
         c \in expired => e, res # "value" => s = 0,
         Answer(c, res, s, l, e, m, n)
  PROVE  /\ \E x \in (Publishing \cup Ended) \ {"delivered", "refused"}, o \in {0, s} : Ends(c, x, o)
         /\ ledger' \in Ledgers /\ ledger'.slots <= l.slots /\ ledger'.bytes <= l.bytes
         /\ identity' \in Nat /\ (closed' => identity' = 0) /\ (~closed' => identity' = identity)
<1> DEFINE answered == res \in {"value", "refusal"}
           tooLate == e \/ (answered /\ m > 0)
           cut == res = "cancel" \/ (answered /\ tooLate)
           timeout == cut /\ tooLate /\ m < 2
           value == res = "value" /\ ~cut
           lost == res = "error" \/ (cut /\ ~timeout) \/ closed
           keep == value /\ ~lost
           o == IF keep THEN s ELSE 0
<1>1. /\ expired' = IF tooLate THEN expired \cup {c} ELSE expired
      /\ ledger' = IF keep THEN l ELSE Refund(l, s)
      /\ own' = [own EXCEPT ![c] = o]
  BY DEF Answer
<1>2. \/ /\ lost
         /\ pc' = [pc EXCEPT ![c] = IF cut /\ ~timeout THEN "cancelled" ELSE "failed"]
         /\ UNCHANGED <<closed, identity>>
      \/ /\ ~lost /\ n = 2 /\ pc' = [pc EXCEPT ![c] = "uncertain"] /\ Revoked
      \/ /\ ~lost /\ n < 2
         /\ pc' = [pc EXCEPT ![c] = IF value THEN "sendValue" ELSE "sendRefusal"]
         /\ UNCHANGED <<closed, identity>>
  BY DEF Answer
<1>3. ledger' \in Ledgers /\ ledger'.slots <= l.slots /\ ledger'.bytes <= l.bytes
  BY <1>1 DEF Refund, Ledgers
<1>4. closed' \in BOOLEAN /\ (closed => closed') /\ (lost \/ ~closed)
  BY <1>2 DEF Revoked, Typed
<1>5. identity' \in Nat /\ (closed' => identity' = 0) /\ (~closed' => identity' = identity)
  BY <1>2 DEF Revoked, Typed, ClosedHasNoAuthority
<1>6. /\ expired \subseteq expired' /\ expired' \subseteq expired \cup {c}
      /\ value => c \notin expired'
      /\ value => answered /\ ~tooLate
  BY <1>1
<1>7. o \in Nat /\ o \in {0, s} /\ (~keep => o = 0)
  OBVIOUS
<1>8. \E x \in (Publishing \cup Ended) \ {"delivered", "refused"} : Ends(c, x, o)
  <2>1. CASE lost
    <3>1. UNCHANGED <<closed, identity>>
      BY <1>2, <2>1
    <3>2. \E x \in {"cancelled", "failed"} : pc' = [pc EXCEPT ![c] = x]
      BY <1>2, <2>1
    <3> QED  BY <3>1, <3>2, <1>1, <1>4, <1>6, <1>7, <2>1 DEF Ends, Ended, Publishing
  <2>2. CASE ~lost /\ n = 2
    BY <1>1, <1>2, <1>4, <1>6, <1>7, <2>2 DEF Ends, Ended, Publishing, Revoked
  <2>3. CASE ~lost /\ n < 2
    <3>1. CASE value
      BY <1>1, <1>2, <1>4, <1>6, <1>7, <2>3, <3>1 DEF Ends, Ended, Publishing
    <3>2. CASE ~value
      BY <1>1, <1>2, <1>4, <1>6, <1>7, <2>3, <3>2 DEF Ends, Ended, Publishing
    <3> QED  BY <3>1, <3>2
  <2> QED  BY <1>2, <2>1, <2>2, <2>3
<1> QED  BY <1>3, <1>5, <1>7, <1>8

LEMMA ReadingType == ASSUME NEW c PROVE Reading(c) \in 0..2
  BY DEF Reading

LEMMA SlotBackType ==
  ASSUME NEW l \in Ledgers
  PROVE  SlotBack(l) \in Ledgers /\ SlotBack(l).slots <= l.slots /\ SlotBack(l).bytes = l.bytes
  BY DEF SlotBack, Ledgers

\* An answer within the limits is a move of the task.
LEMMA AnswerMoves ==
  ASSUME Typed, ClosedHasNoAuthority, NEW c \in Calls, NEW res, NEW s \in Nat, NEW l \in Ledgers,
         NEW e \in BOOLEAN, NEW m \in 0..2, NEW n \in 0..2,
         c \in expired => e, res # "value" => s = 0,
         l.slots <= MaxFiles, l.bytes <= MaxTotal, pc[c] \notin Ended \cup {"idle"},
         Answer(c, res, s, l, e, m, n), minted' \in Nat, UNCHANGED <<outer, unclean, retained>>
  PROVE  \E x, o : Moves(c, x, o)
<1>1. PICK x \in (Publishing \cup Ended) \ {"delivered", "refused"}, o \in {0, s} : Ends(c, x, o)
  BY AnswerEnds
<1>2. /\ ledger' \in Ledgers /\ ledger'.slots <= l.slots /\ ledger'.bytes <= l.bytes
      /\ identity' \in Nat /\ (closed' => identity' = 0)
  BY AnswerEnds
<1>3. ledger'.slots <= MaxFiles /\ ledger'.bytes <= MaxTotal
  BY <1>2, LimitsAssumption DEF Ledgers
<1> QED  BY <1>1, <1>2, <1>3 DEF Moves

LEMMA StartBodyMoves ==
  ASSUME Typed, ClosedHasNoAuthority, ChargedIsKept, NEW c \in Calls, NEW l \in Ledgers, NEW id,
         NEW m \in 0..2, NEW n \in 0..2,
         l.slots <= MaxFiles, l.bytes <= MaxTotal, pc[c] \in {"new", "lock"},
         StartBody(c, l, id, m, n), minted' \in Nat, UNCHANGED <<outer, unclean, retained>>
  PROVE  \E x, o : Moves(c, x, o)
<1>1. pc[c] \notin Ended \cup {"idle"}
  BY DEF Ended
<1>2. SlotBack(l) \in Ledgers /\ SlotBack(l).slots <= MaxFiles /\ SlotBack(l).bytes <= MaxTotal
  BY SlotBackType, LimitsAssumption DEF Ledgers
<1>3. CASE closed
  <2>1. Answer(c, "error", 0, SlotBack(l), c \in expired, m, n)
    BY <1>3 DEF StartBody
  <2>2. (c \in expired) \in BOOLEAN
    OBVIOUS
  <2> QED  BY <1>1, <1>2, <2>1, <2>2, AnswerMoves
<1>4. CASE ~closed /\ (c \in expired \/ Reading(c) > 0)
  <2>1. ~(c \notin expired /\ Reading(c) = 0)
    BY <1>4
  <2>2. Answer(c, "cancel", 0, SlotBack(l), TRUE, m, n)
    BY <1>4, <2>1, Zenon DEF StartBody
  <2> QED  BY <1>1, <1>2, <2>2, AnswerMoves
<1>5. CASE ~closed /\ c \notin expired /\ ~(Reading(c) > 0)
  <2>1. /\ pc' = [pc EXCEPT ![c] = "body"] /\ ledger' = l
        /\ UNCHANGED <<own, closed, identity, expired>>
    BY <1>5, ReadingType DEF StartBody
  <2>2. own' = [own EXCEPT ![c] = 0]
    BY <2>1 DEF ChargedIsKept, Typed
  <2>3. Moves(c, "body", 0)
    BY <1>1, <1>5, <2>1, <2>2 DEF Moves, Ends, Serving, Publishing, Typed
  <2> QED  BY <2>3
<1> QED  BY <1>3, <1>4, <1>5

LEMMA ReservedType ==
  ASSUME Typed, WithinLimits, HasRoom
  PROVE  Reserved \in Ledgers /\ Reserved.slots <= MaxFiles /\ Reserved.bytes <= MaxTotal
  BY DEF Typed, WithinLimits, HasRoom, Reserved, Ledgers

LEMMA TaskMoves ==
  ASSUME IInv, NEW c \in Calls, Task(c)
  PROVE  \E x, o : Moves(c, x, o)
<1> USE DEF IInv
<1>1. ledger \in Ledgers /\ ledger.slots <= MaxFiles /\ ledger.bytes <= MaxTotal
  BY DEF Typed, WithinLimits, Ledgers
<1>2. /\ SlotBack(ledger) \in Ledgers
      /\ SlotBack(ledger).slots <= MaxFiles /\ SlotBack(ledger).bytes <= MaxTotal
  BY <1>1, SlotBackType, LimitsAssumption DEF Ledgers
<1>3. (pc[c] \notin {"sendValue", "delivered", "uncertain"}) => own = [own EXCEPT ![c] = 0]
  BY DEF ChargedIsKept, Typed
<1>4. CASE NeverBegins(c)
  <2>1. \E x \in {"cancelled", "failed"} : pc' = [pc EXCEPT ![c] = x]
    BY <1>4 DEF NeverBegins
  <2> QED  BY <1>1, <1>3, <1>4, <2>1
           DEF NeverBegins, Moves, Ends, Ended, Publishing, Typed, account, authority, leftover, clock,
               ClosedHasNoAuthority
<1>5. CASE AskIdentity(c)
  <2>1. \E x \in {"lock", "mint"} : pc' = [pc EXCEPT ![c] = x]
    BY <1>5 DEF AskIdentity
  <2>2. ~closed /\ ledger' = Reserved /\ pc[c] = "new" /\ HasRoom
    BY <1>5 DEF AskIdentity, Begins
  <2>3. ledger' \in Ledgers /\ ledger'.slots <= MaxFiles /\ ledger'.bytes <= MaxTotal
    BY <2>2, ReservedType
  <2> QED  BY <1>3, <1>5, <2>1, <2>2, <2>3
           DEF AskIdentity, Moves, Ends, Ended, Publishing, Serving, Typed, leftover, bound
<1>6. CASE Published(c)
  <2>1. /\ pc[c] \in Publishing
        /\ UNCHANGED <<outer, ledger, own, authority, expired, leftover>>
        /\ pc' = [pc EXCEPT ![c] = IF pc[c] = "sendValue" THEN "delivered" ELSE "refused"]
    BY <1>6 DEF Published
  <2>2. CASE pc[c] = "sendValue"
    <3>1. Moves(c, "delivered", own[c])
      BY <1>1, <2>1, <2>2 DEF Moves, Ends, Ended, Publishing, Typed, authority, leftover, ClosedHasNoAuthority
    <3> QED  BY <3>1
  <2>3. CASE pc[c] # "sendValue"
    <3>1. Moves(c, "refused", 0)
      BY <1>1, <1>3, <2>1, <2>3
         DEF Moves, Ends, Ended, Publishing, Typed, authority, leftover, ClosedHasNoAuthority
    <3> QED  BY <3>1
  <2> QED  BY <2>2, <2>3
<1>7. CASE PublishFails(c)
  <2>1. Moves(c, "uncertain", own[c])
    BY <1>1, <1>7 DEF PublishFails, Moves, Ends, Ended, Publishing, Typed, leftover, account, Revoked
  <2> QED  BY <2>1
<1>8. ASSUME NEW m \in Reading(c)..2, NEW n \in m..2,
             \/ Refuse(c, m, n) \/ Serve(c, m, n) \/ TakeLock(c, m, n) \/ LockCancelled(c, m, n)
             \/ MintFails(c, m, n) \/ Mint(c, m, n) \/ BodyReturns(c, m, n) \/ BodyFails(c, m, n)
      PROVE  \E x, o : Moves(c, x, o)
  <2>1. m \in 0..2 /\ n \in 0..2
    BY ReadingType
  <2>2. (c \in expired) \in BOOLEAN /\ minted \in Nat
    BY DEF Typed
  <2>3. CASE Refuse(c, m, n)
    BY <1>1, <2>1, <2>2, <2>3, AnswerMoves DEF Refuse, Begins, Ended, leftover
  <2>4. CASE Serve(c, m, n)
    BY <2>1, <2>2, <2>4, ReservedType, StartBodyMoves DEF Serve, Begins, leftover
  <2>5. CASE TakeLock(c, m, n)
    <3>1. pc[c] = "lock" /\ minted' \in Nat /\ UNCHANGED <<outer, unclean, retained>>
      BY <2>2, <2>5 DEF TakeLock, leftover
    <3>2. CASE closed
      BY <1>2, <2>1, <2>2, <2>5, <3>1, <3>2, AnswerMoves DEF TakeLock, Ended
    <3>3. CASE ~closed /\ identity # 0
      BY <1>1, <2>1, <2>2, <2>5, <3>1, <3>3, StartBodyMoves DEF TakeLock
    <3>4. CASE ~closed /\ identity = 0
      <4>1. Moves(c, "mint", 0)
        BY <1>1, <1>3, <2>5, <3>1, <3>4
           DEF TakeLock, Moves, Ends, Ended, Serving, Publishing, Typed, bound
      <4> QED  BY <4>1
    <3> QED  BY <3>2, <3>3, <3>4
  <2>6. CASE LockCancelled(c, m, n)
    BY <1>2, <2>1, <2>2, <2>6, AnswerMoves DEF LockCancelled, Ended, leftover
  <2>7. CASE MintFails(c, m, n)
    BY <1>2, <2>1, <2>2, <2>7, AnswerMoves DEF MintFails, Ended, leftover
  <2>8. CASE Mint(c, m, n)
    <3>1. /\ pc[c] = "mint" /\ minted' = minted + 1 /\ minted' \in Nat
          /\ UNCHANGED <<outer, unclean, retained>>
      BY <2>2, <2>8 DEF Mint, leftover
    <3>2. CASE closed
      BY <1>2, <2>1, <2>2, <2>8, <3>1, <3>2, AnswerMoves DEF Mint, Ended
    <3>3. CASE ~closed /\ (c \in expired \/ Reading(c) > 0)
      BY <1>2, <2>1, <2>2, <2>8, <3>1, <3>3, AnswerMoves DEF Mint, Ended
    <3>4. CASE ~closed /\ ~(c \in expired \/ Reading(c) > 0)
      <4>1. /\ identity' = minted' /\ pc' = [pc EXCEPT ![c] = "body"]
            /\ UNCHANGED <<ledger, own, closed, expired>>
        BY <2>8, <3>4 DEF Mint
      <4>2. Moves(c, "body", 0)
        BY <1>1, <1>3, <3>1, <3>4, <4>1 DEF Moves, Ends, Ended, Serving, Publishing, Typed
      <4> QED  BY <4>2
    <3> QED  BY <3>2, <3>3, <3>4
  <2>9. CASE BodyReturns(c, m, n)
    <3>1. pc[c] = "body" /\ pc[c] \notin Ended \cup {"idle"} /\ UNCHANGED <<outer, unclean, retained, minted>>
      BY <2>9 DEF BodyReturns, Ended, leftover
    <3>2. CASE c \in expired \/ Reading(c) > 0
      <4>1. Answer(c, "cancel", 0, SlotBack(ledger), TRUE, m, n)
        BY <2>9, <3>2 DEF BodyReturns
      <4> QED  BY <1>2, <2>1, <2>2, <3>1, <4>1, AnswerMoves
    <3>3. CASE ~(c \in expired \/ Reading(c) > 0)
      <4>1. PICK v \in Sizes :
              IF Fits(v + Framing)
                THEN Answer(c, "value", v + Framing,
                            [ledger EXCEPT !.bytes = @ + v + Framing], FALSE, m, n)
                ELSE Answer(c, "refusal", 0, SlotBack(ledger), FALSE, m, n)
        BY <2>9, <3>3 DEF BodyReturns
      <4>2. v + Framing \in Nat
        BY LimitsAssumption
      <4>3. CASE Fits(v + Framing)
        <5> DEFINE l == [ledger EXCEPT !.bytes = @ + v + Framing]
        <5>1. l \in Ledgers /\ l.slots <= MaxFiles /\ l.bytes <= MaxTotal
          BY <1>1, <4>2, <4>3, LimitsAssumption DEF Fits, Ledgers
        <5>2. Answer(c, "value", v + Framing, l, FALSE, m, n)
          BY <4>1, <4>3
        <5> HIDE DEF l
        <5> QED  BY <2>1, <2>2, <3>1, <3>3, <4>2, <5>1, <5>2, AnswerMoves
      <4>4. CASE ~Fits(v + Framing)
        BY <1>2, <2>1, <2>2, <3>1, <3>3, <4>1, <4>4, AnswerMoves
      <4> QED  BY <4>3, <4>4
    <3> QED  BY <3>2, <3>3
  <2>10. CASE BodyFails(c, m, n)
    BY <1>2, <2>1, <2>2, <2>10, AnswerMoves DEF BodyFails, Ended, leftover
  <2> QED  BY <1>8, <2>3, <2>4, <2>5, <2>6, <2>7, <2>8, <2>9, <2>10
<1> QED  BY <1>4, <1>5, <1>6, <1>7, <1>8 DEF Task

-----------------------------------------------------------------------------
\* A move keeps everything but the single identity, which depends on which move it is.
Accounts ==
  /\ Typed /\ WithinLimits /\ ClosedHasNoAuthority
  /\ AbandonedIsOwned /\ TimeoutLeavesARefusal /\ DoubtRevokes
  /\ ChargedIsKept /\ ExpiredSendsNoValue /\ NotCalled /\ UnwindsRevoked

LEMMA MovesKeepAccounts ==
  ASSUME Accounts, NEW c \in Calls, NEW x, NEW o, Moves(c, x, o)
  PROVE  Accounts'
<1> USE DEF Accounts
<1>1. /\ pc' = [pc EXCEPT ![c] = x] /\ own' = [own EXCEPT ![c] = o] /\ o \in Nat
      /\ x \in Serving \cup Publishing \cup Ended
      /\ x \notin {"sendValue", "delivered", "uncertain"} => o = 0
      /\ x = "uncertain" => closed'
      /\ closed' \in BOOLEAN /\ (closed => closed')
      /\ expired \subseteq expired' /\ expired' \subseteq expired \cup {c}
      /\ x = "sendValue" => c \notin expired'
  BY DEF Moves, Ends
<1>2. /\ pc[c] \notin Ended \cup {"idle"}
      /\ x = "delivered" => pc[c] = "sendValue" /\ expired' = expired
      /\ UNCHANGED <<outer, unclean, retained>>
  BY DEF Moves
<1>3. Typed' /\ WithinLimits' /\ ClosedHasNoAuthority'
  BY <1>1, <1>2 DEF Moves, Typed, WithinLimits, ClosedHasNoAuthority, Ledgers
<1>4. outer[c] # "idle"
  BY <1>2 DEF NotCalled
<1>5. outer[c] \in Left => closed /\ unclean /\ c \in retained
  BY <1>2 DEF AbandonedIsOwned
<1>6. AbandonedIsOwned'
  BY <1>1, <1>2, <1>5 DEF AbandonedIsOwned, Typed
<1>7. TimeoutLeavesARefusal'
  BY <1>1, <1>2, <1>5 DEF TimeoutLeavesARefusal, Typed
<1>8. DoubtRevokes'
  BY <1>1 DEF DoubtRevokes, Typed
<1>9. ChargedIsKept'
  BY <1>1 DEF ChargedIsKept, Typed
<1>10. ExpiredSendsNoValue'
  BY <1>1, <1>2 DEF ExpiredSendsNoValue, Typed
<1>11. NotCalled' /\ UnwindsRevoked'
  BY <1>1, <1>2, <1>4 DEF NotCalled, UnwindsRevoked, Typed
<1> QED  BY <1>3, <1>6, <1>7, <1>8, <1>9, <1>10, <1>11

\* An answer starts no mint and hands out nothing; it keeps or revokes the identity.
LEMMA AnswerKeepsIdentity ==
  ASSUME IInv, NEW c \in Calls, NEW res, NEW s \in Nat, NEW l \in Ledgers,
         NEW e \in BOOLEAN, NEW m \in 0..2, NEW n \in 0..2,
         c \in expired => e, res # "value" => s = 0,
         Answer(c, res, s, l, e, m, n), handed' = handed,
         minter' = minter \/ (pc[c] = "mint" /\ minter' = None)
  PROVE  OneMinter' /\ HandedIsHeld'
<1>1. PICK x \in (Publishing \cup Ended) \ {"delivered", "refused"}, o \in {0, s} : Ends(c, x, o)
  BY AnswerEnds DEF IInv
<1>2. (~closed' => identity' = identity) /\ (closed' => identity' = 0)
  BY AnswerEnds DEF IInv
<1>3. pc' = [pc EXCEPT ![c] = x] /\ closed' \in BOOLEAN /\ (closed => closed')
  BY <1>1 DEF Ends
<1>4. x # "mint"
  BY DEF Publishing, Ended
<1>5. OneMinter'
  BY <1>2, <1>3, <1>4 DEF OneMinter, IInv, Typed
<1>6. HandedIsHeld'
  BY <1>2, <1>3 DEF HandedIsHeld, IInv
<1> QED  BY <1>5, <1>6

LEMMA TaskKeepsIdentity ==
  ASSUME IInv, NEW c \in Calls, Task(c)
  PROVE  OneMinter' /\ HandedIsHeld'
<1> USE DEF IInv
<1>1. ledger \in Ledgers /\ SlotBack(ledger) \in Ledgers /\ (c \in expired) \in BOOLEAN
  BY SlotBackType DEF Typed, Ledgers
<1>2. CASE NeverBegins(c) \/ Published(c)
  <2>1. \E x \in Ended : pc' = [pc EXCEPT ![c] = x]
    BY <1>2 DEF NeverBegins, Published, Ended
  <2>2. UNCHANGED authority
    BY <1>2 DEF NeverBegins, Published
  <2> QED  BY <2>1, <2>2 DEF authority, OneMinter, HandedIsHeld, Typed, Ended
<1>3. CASE PublishFails(c)
  BY <1>3 DEF PublishFails, Revoked, OneMinter, HandedIsHeld, Typed
<1>4. CASE AskIdentity(c)
  BY <1>4, CallsAssumption DEF AskIdentity, Begins, OneMinter, HandedIsHeld, Typed
<1>5. ASSUME NEW m \in Reading(c)..2, NEW n \in m..2,
             \/ Refuse(c, m, n) \/ Serve(c, m, n) \/ TakeLock(c, m, n) \/ LockCancelled(c, m, n)
             \/ MintFails(c, m, n) \/ Mint(c, m, n) \/ BodyReturns(c, m, n) \/ BodyFails(c, m, n)
      PROVE  OneMinter' /\ HandedIsHeld'
  <2>1. m \in 0..2 /\ n \in 0..2
    BY ReadingType
  <2>2. ASSUME NEW l \in Ledgers, NEW id, StartBody(c, l, id, m, n), minter' = minter,
               ~closed => id \in {0, identity}
        PROVE  OneMinter' /\ HandedIsHeld'
    <3>1. CASE closed
      <4>1. Answer(c, "error", 0, SlotBack(l), c \in expired, m, n) /\ handed' = handed
        BY <2>2, <3>1 DEF StartBody
      <4> QED  BY <1>1, <2>1, <2>2, <4>1, SlotBackType, AnswerKeepsIdentity
    <3>2. CASE ~closed /\ ~(c \notin expired /\ Reading(c) = 0)
      <4>1. Answer(c, "cancel", 0, SlotBack(l), TRUE, m, n) /\ handed' = handed
        BY <2>2, <3>2, Zenon DEF StartBody
      <4> QED  BY <2>1, <2>2, <4>1, SlotBackType, AnswerKeepsIdentity
    <3>3. CASE ~closed /\ c \notin expired /\ Reading(c) = 0
      <4>1. ~(c \in expired \/ Reading(c) > 0)
        BY <3>3
      <4>2. /\ pc' = [pc EXCEPT ![c] = "body"] /\ UNCHANGED <<own, closed, identity, clock, expired, timedOut>>
            /\ handed' = IF id = 0 THEN handed ELSE handed \cup {id}
        BY <2>2, <3>3, <4>1, Zenon DEF StartBody
      <4> QED  BY <2>2, <3>3, <4>2 DEF OneMinter, HandedIsHeld, Typed
    <3> QED  BY <3>1, <3>2, <3>3
  <2>3. CASE Refuse(c, m, n)
    BY <1>1, <2>1, <2>3, AnswerKeepsIdentity DEF Refuse
  <2>4. CASE Serve(c, m, n)
    BY <2>2, <2>4, ReservedType DEF Serve
  <2>5. CASE TakeLock(c, m, n)
    <3>1. CASE closed
      BY <1>1, <2>1, <2>5, <3>1, AnswerKeepsIdentity DEF TakeLock
    <3>2. CASE ~closed /\ identity # 0
      BY <1>1, <2>2, <2>5, <3>2 DEF TakeLock
    <3>3. CASE ~closed /\ identity = 0
      BY <2>5, <3>3, CallsAssumption DEF TakeLock, OneMinter, HandedIsHeld, Typed
    <3> QED  BY <3>1, <3>2, <3>3
  <2>6. CASE LockCancelled(c, m, n)
    BY <1>1, <2>1, <2>6, AnswerKeepsIdentity DEF LockCancelled
  <2>7. CASE MintFails(c, m, n)
    BY <1>1, <2>1, <2>7, AnswerKeepsIdentity DEF MintFails
  <2>8. CASE Mint(c, m, n)
    <3>1. pc[c] = "mint" /\ minter' = None /\ minter = c /\ identity = 0
      BY <2>8 DEF Mint, OneMinter
    <3>2. CASE closed
      BY <1>1, <2>1, <2>8, <3>1, <3>2, AnswerKeepsIdentity DEF Mint
    <3>3. CASE ~closed /\ (c \in expired \/ Reading(c) > 0)
      BY <1>1, <2>1, <2>8, <3>1, <3>3, AnswerKeepsIdentity DEF Mint
    <3>4. CASE ~closed /\ ~(c \in expired \/ Reading(c) > 0)
      <4>1. /\ identity' = minted + 1 /\ pc' = [pc EXCEPT ![c] = "body"]
            /\ handed' = handed \cup {minted + 1} /\ closed' = closed
        BY <2>8, <3>4 DEF Mint
      <4>2. handed = {} /\ minted + 1 # 0
        BY <3>1, <3>4 DEF HandedIsHeld, Typed
      <4> QED  BY <3>1, <4>1, <4>2 DEF OneMinter, HandedIsHeld, Typed
    <3> QED  BY <3>2, <3>3, <3>4
  <2>9. CASE BodyReturns(c, m, n)
    <3>1. CASE c \in expired \/ Reading(c) > 0
      <4>1. Answer(c, "cancel", 0, SlotBack(ledger), TRUE, m, n)
        BY <2>9, <3>1 DEF BodyReturns
      <4> QED  BY <1>1, <2>1, <2>9, <4>1, AnswerKeepsIdentity DEF BodyReturns
    <3>2. CASE ~(c \in expired \/ Reading(c) > 0)
      <4>1. PICK v \in Sizes :
              IF Fits(v + Framing)
                THEN Answer(c, "value", v + Framing,
                            [ledger EXCEPT !.bytes = @ + v + Framing], FALSE, m, n)
                ELSE Answer(c, "refusal", 0, SlotBack(ledger), FALSE, m, n)
        BY <2>9, <3>2 DEF BodyReturns
      <4>2. handed' = handed /\ minter' = minter /\ v + Framing \in Nat
        BY <2>9, LimitsAssumption DEF BodyReturns
      <4>3. CASE Fits(v + Framing)
        <5> DEFINE l == [ledger EXCEPT !.bytes = @ + v + Framing]
        <5>1. l \in Ledgers
          BY <1>1, <4>2, LimitsAssumption DEF Ledgers
        <5>2. Answer(c, "value", v + Framing, l, FALSE, m, n)
          BY <4>1, <4>3
        <5> HIDE DEF l
        <5> QED  BY <2>1, <3>2, <4>2, <5>1, <5>2, AnswerKeepsIdentity
      <4>4. CASE ~Fits(v + Framing)
        BY <1>1, <2>1, <3>2, <4>1, <4>2, <4>4, AnswerKeepsIdentity
      <4> QED  BY <4>3, <4>4
    <3> QED  BY <3>1, <3>2
  <2>10. CASE BodyFails(c, m, n)
    BY <1>1, <2>1, <2>10, AnswerKeepsIdentity DEF BodyFails
  <2> QED  BY <1>5, <2>3, <2>4, <2>5, <2>6, <2>7, <2>8, <2>9, <2>10
<1> QED  BY <1>2, <1>3, <1>4, <1>5 DEF Task

-----------------------------------------------------------------------------
\* The steps of the policy around the task: none of them moves the task's phase except its start.
LEMMA PolicyKeepsIInv ==
  ASSUME IInv, NEW c \in Calls,
         \/ Call(c) \/ Bounded(c) \/ CallerCancelled(c) \/ Finished(c) \/ Elapse(c)
         \/ Close \/ DeadlinePasses
  PROVE  IInv'
<1> USE DEF IInv
<1>1. CASE Call(c)
  <2>1. UNCHANGED <<account, authority, clock, bound, leftover>> /\ outer[c] = "idle" /\ pc[c] = "idle"
    BY <1>1 DEF Call, NotCalled
  <2>2. \/ outer' = [outer EXCEPT ![c] = "raised"] /\ pc' = pc
        \/ outer' = [outer EXCEPT ![c] = "waiting"] /\ pc' = [pc EXCEPT ![c] = "new"]
    BY <1>1 DEF Call
  <2>3. own[c] = 0
    BY <2>1 DEF ChargedIsKept
  <2>4. c \notin expired \/ closed \/ outer[c] = "idle"
    BY <2>1
  <2>5. Typed' /\ WithinLimits' /\ ClosedHasNoAuthority'
    BY <2>1, <2>2 DEF Typed, WithinLimits, ClosedHasNoAuthority, account, authority, bound, leftover, Left
  <2>6. OneMinter' /\ HandedIsHeld' /\ DoubtRevokes'
    BY <2>1, <2>2 DEF Typed, OneMinter, HandedIsHeld, DoubtRevokes, authority
  <2>7. AbandonedIsOwned' /\ NotCalled' /\ UnwindsRevoked'
    BY <2>1, <2>2 DEF Typed, AbandonedIsOwned, NotCalled, UnwindsRevoked, authority, leftover, bound, Left
  <2>8. ChargedIsKept' /\ ExpiredSendsNoValue'
    BY <2>1, <2>2, <2>3 DEF Typed, ChargedIsKept, ExpiredSendsNoValue, account, bound
  <2>9. TimeoutLeavesARefusal'
    BY <2>1, <2>2 DEF Typed, TimeoutLeavesARefusal, account, authority, bound, Left, NotCalled
  <2> QED  BY <2>5, <2>6, <2>7, <2>8, <2>9
<1>2. ASSUME NEW x \in Left \cup {"grace", "unwinding"}, outer' = [outer EXCEPT ![c] = x],
             outer[c] \notin Left \cup {"idle"}, UNCHANGED <<pc, account, minter, minted, handed>>,
             \/ UNCHANGED <<closed, identity>>
             \/ Revoked,
             expired \subseteq expired', expired' \subseteq expired \cup {c},
             x \notin Left => UNCHANGED <<unclean, retained>>, x = "unwinding" => closed',
             retained \subseteq retained', retained' \subseteq Calls, unclean' \in BOOLEAN, unclean => unclean',
             x \in Left => expired' = expired,
             x \in Left => pc[c] \in Ended \/ (closed' /\ unclean' /\ c \in retained'),
             x \in Left /\ c \in expired => closed' \/ pc[c] = "refused"
      PROVE  IInv'
  <2>1. closed' \in BOOLEAN /\ (closed => closed') /\ (closed' => identity' = 0) /\ identity' \in Nat
        /\ (~closed' => identity' = identity) /\ identity' \in {0, identity}
    <3>1. CASE UNCHANGED <<closed, identity>>
      BY <3>1 DEF Typed, ClosedHasNoAuthority
    <3>2. CASE Revoked
      BY <3>2 DEF Revoked, Typed
    <3> QED  BY <1>2, <3>1, <3>2
  <2>2. Typed' /\ WithinLimits' /\ ClosedHasNoAuthority'
    BY <1>2, <2>1 DEF Typed, WithinLimits, ClosedHasNoAuthority, account, Left
  <2>3. OneMinter' /\ HandedIsHeld' /\ DoubtRevokes'
    BY <1>2, <2>1 DEF Typed, OneMinter, HandedIsHeld, DoubtRevokes
  <2>4. AbandonedIsOwned' /\ NotCalled' /\ UnwindsRevoked'
    BY <1>2, <2>1 DEF Typed, AbandonedIsOwned, NotCalled, UnwindsRevoked, Left
  <2>5. ChargedIsKept' /\ ExpiredSendsNoValue'
    BY <1>2 DEF Typed, ChargedIsKept, ExpiredSendsNoValue, account, Left
  <2>6. TimeoutLeavesARefusal'
    BY <1>2, <2>1 DEF Typed, TimeoutLeavesARefusal, ChargedIsKept, account, Left
  <2> QED  BY <2>2, <2>3, <2>4, <2>5, <2>6
<1>3. CASE TaskDone(c)
  BY <1>2, <1>3 DEF TaskDone, ExpiredSendsNoValue, Left, Ended, bound, leftover, Typed, Revoked
<1>4. CASE TimeIsUp(c)
  BY <1>2, <1>4 DEF TimeIsUp, Left, authority, leftover, Typed
<1>5. CASE StoppedInTime(c)
  BY <1>2, <1>5 DEF StoppedInTime, Left, Ended, bound, leftover, Typed, Revoked
<1>6. CASE Abandon(c)
  BY <1>2, <1>6 DEF Abandon, Left, bound, Typed, Revoked
<1>7. CASE CallerCancelled(c)
  BY <1>2, <1>7 DEF CallerCancelled, Left, leftover, Typed, Revoked
<1>8. CASE Unwound(c)
  BY <1>2, <1>8 DEF Unwound, UnwindsRevoked, Left, authority, bound, leftover, Typed
<1>9. CASE Finished(c)
  BY <1>9 DEF Finished, Typed, WithinLimits, ClosedHasNoAuthority, OneMinter, HandedIsHeld, AbandonedIsOwned,
    TimeoutLeavesARefusal, DoubtRevokes, ChargedIsKept, ExpiredSendsNoValue, NotCalled, UnwindsRevoked, account, authority, bound
<1>10. CASE Close
  BY <1>10 DEF Close, Revoked, Typed, WithinLimits, ClosedHasNoAuthority, OneMinter, HandedIsHeld,
    AbandonedIsOwned, TimeoutLeavesARefusal, DoubtRevokes, ChargedIsKept, ExpiredSendsNoValue, NotCalled, UnwindsRevoked,
    account, bound, leftover
<1>11. CASE Elapse(c) \/ DeadlinePasses
  <2>1. UNCHANGED <<outer, pc, account, authority, bound, leftover>>
    BY <1>11 DEF Elapse, DeadlinePasses
  <2> QED
    BY <2>1 DEF Typed, WithinLimits, ClosedHasNoAuthority, OneMinter, HandedIsHeld, AbandonedIsOwned,
      TimeoutLeavesARefusal, DoubtRevokes, ChargedIsKept, ExpiredSendsNoValue, NotCalled, UnwindsRevoked,
      account, authority, bound, leftover
<1> QED  BY <1>1, <1>3, <1>4, <1>5, <1>6, <1>7, <1>8, <1>9, <1>10, <1>11 DEF Bounded

LEMMA InitHolds == Init => IInv
<1> SUFFICES ASSUME Init PROVE IInv
  OBVIOUS
<1> USE DEF Init
<1>1. Typed
  <2>1. outer \in [Calls -> {"idle", "waiting", "grace", "unwinding"} \cup Left]
    OBVIOUS
  <2>2. pc \in [Calls -> {"idle", "new"} \cup Serving \cup Publishing \cup Ended]
    OBVIOUS
  <2>3. ledger \in [slots : Int, bytes : Int] /\ own \in [Calls -> Nat]
    OBVIOUS
  <2>4. closed \in BOOLEAN /\ unclean \in BOOLEAN
    OBVIOUS
  <2>5. identity \in Nat /\ minted \in Nat /\ expired \subseteq Calls /\ retained \subseteq Calls
    OBVIOUS
  <2> QED  BY <2>1, <2>2, <2>3, <2>4, <2>5, Zenon DEF Typed
<1>2. WithinLimits /\ ClosedHasNoAuthority /\ OneMinter /\ HandedIsHeld
  BY LimitsAssumption DEF WithinLimits, ClosedHasNoAuthority, OneMinter, HandedIsHeld
<1>3. AbandonedIsOwned /\ TimeoutLeavesARefusal /\ DoubtRevokes
  BY DEF AbandonedIsOwned, TimeoutLeavesARefusal, DoubtRevokes, Left
<1>4. ChargedIsKept /\ ExpiredSendsNoValue /\ NotCalled /\ UnwindsRevoked
  BY DEF ChargedIsKept, ExpiredSendsNoValue, NotCalled, UnwindsRevoked
<1> QED  BY <1>1, <1>2, <1>3, <1>4 DEF IInv

LEMMA NextKeepsIInv == IInv /\ [Next]_vars => IInv'
<1> SUFFICES ASSUME IInv, [Next]_vars PROVE IInv'
  OBVIOUS
<1>1. CASE UNCHANGED vars
  BY <1>1 DEF vars, account, authority, clock, bound, leftover, IInv, Typed, WithinLimits,
    ClosedHasNoAuthority, OneMinter, HandedIsHeld, AbandonedIsOwned, TimeoutLeavesARefusal, DoubtRevokes,
    ChargedIsKept, ExpiredSendsNoValue, NotCalled, UnwindsRevoked
<1>2. ASSUME NEW c \in Calls, Task(c) PROVE IInv'
  <2>1. PICK x, o : Moves(c, x, o)
    BY <1>2, TaskMoves
  <2>2. Accounts
    BY DEF IInv, Accounts
  <2>3. Accounts'
    BY <2>1, <2>2, MovesKeepAccounts
  <2>4. OneMinter' /\ HandedIsHeld'
    BY <1>2, TaskKeepsIdentity
  <2> QED  BY <2>3, <2>4 DEF IInv, Accounts
<1>3. CASE Close \/ DeadlinePasses
  <2>1. CASE \E c \in Calls : TRUE
    BY <1>3, <2>1, PolicyKeepsIInv
  <2>2. CASE Calls = {}
    BY <1>3, <2>2 DEF Close, DeadlinePasses, Revoked, IInv, Typed, WithinLimits, ClosedHasNoAuthority, OneMinter,
      HandedIsHeld, AbandonedIsOwned, TimeoutLeavesARefusal, DoubtRevokes, ChargedIsKept,
      ExpiredSendsNoValue, NotCalled, UnwindsRevoked, account, bound, leftover
  <2> QED  BY <2>1, <2>2
<1> QED  BY <1>1, <1>2, <1>3, PolicyKeepsIInv DEF Next

-----------------------------------------------------------------------------
\* At most one element: what HandedIsHeld says of the identities bodies were given.
LEMMA AtMostOne ==
  ASSUME NEW S, \A x, y \in S : x = y
  PROVE  Cardinality(S) <= 1
<1>1. CASE S = {}
  BY <1>1, FS_EmptySet
<1>2. CASE S # {}
  <2>1. PICK x : S = {x}
    BY <1>2
  <2> QED  BY <2>1, FS_Singleton
<1> QED  BY <1>1, <1>2

\* For any calls and limits: a run of host tools never promises more than its limits, hands out
\* one user identity and none once it is closed, owns every task its callers gave up on, charges
\* a timed-out call nothing unless it closes, and closes when a delivery is in doubt
\* (HostToolRun and BoundedHostToolPolicy.call).
THEOREM RunSafety ==
  Spec => [](/\ WithinLimits /\ ClosedHasNoAuthority /\ OneIdentity
             /\ AbandonedIsOwned /\ TimeoutLeavesARefusal /\ DoubtRevokes)
<1>1. IInv => OneIdentity
  BY AtMostOne DEF IInv, HandedIsHeld, OneIdentity
<1>2. IInv => /\ WithinLimits /\ ClosedHasNoAuthority
              /\ AbandonedIsOwned /\ TimeoutLeavesARefusal /\ DoubtRevokes
  BY DEF IInv
<1> QED  BY InitHolds, NextKeepsIInv, <1>1, <1>2, PTL DEF Spec

\* For any calls and limits: no step after the run is closed mints, starts a body or publishes
\* (the checks call, _user_identity and _deliver make after each await).
THEOREM RevocationHolds == Spec => NothingAfterClose
<1> DEFINE Quiet == \A c \in Calls :
             closed /\ pc'[c] # pc[c] => pc'[c] \notin {"lock", "mint", "body"} \cup Publishing
<1>1. ASSUME IInv, [Next]_vars PROVE [Quiet]_vars
  <2>1. CASE UNCHANGED vars
    BY <2>1
  <2>2. ASSUME NEW c \in Calls, Task(c) PROVE Quiet
    <3>1. PICK x, o : Moves(c, x, o)
      BY <1>1, <2>2, TaskMoves
    <3> QED  BY <1>1, <3>1 DEF Moves, Ends, IInv, Typed
  <2>3. ASSUME NEW c \in Calls, Call(c) PROVE Quiet
    BY <1>1, <2>3 DEF Call, IInv, Typed, Publishing
  <2>4. ASSUME NEW c \in Calls, Bounded(c) \/ CallerCancelled(c) \/ Finished(c) \/ Elapse(c) PROVE Quiet
    BY <2>4 DEF Bounded, TaskDone, TimeIsUp, StoppedInTime, Abandon, Unwound, CallerCancelled, Finished, Elapse
  <2>5. CASE Close \/ DeadlinePasses
    BY <2>5 DEF Close, DeadlinePasses
  <2> QED  BY <1>1, <2>1, <2>2, <2>3, <2>4, <2>5 DEF Next
<1> QED  BY InitHolds, NextKeepsIInv, <1>1, PTL DEF Spec, NothingAfterClose

=============================================================================
