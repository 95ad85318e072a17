--------------------------- MODULE RateGateProofs ---------------------------
(***************************************************************************)
(* Proofs about RateGate and its observer RateWindow, for any number of       *)
(* callers, any limit and any delay smaller than it.                         *)
(***************************************************************************)
EXTENDS RateWindow, FiniteSetTheorems, TLAPS

(* The row lock is held exactly by the caller between FOR UPDATE and commit.   *)
LockHeld ==
  \A c \in Caller : pc[c] = "locked" <=> lock = c

(* While the lock is held the row cannot move, so the claim computed from it   *)
(* is still a free slot at the commit.                                         *)
LockedClaim ==
  \A c \in Caller : pc[c] = "locked" => /\ claim[c] >= last + Limit
                                        /\ claim[c] >= start[c]

(* What Advance grants: nobody is later than MaxDelay.                         *)
Timely ==
  \A c \in Caller : pc[c] # "idle" => now <= Due(c) + MaxDelay

(* The row is ahead of every slot handed out, used or not.                     *)
RowAhead ==
  /\ reqClaim <= last
  /\ \A c \in Caller : pc[c] = "asleep" => claim[c] <= last

LastRequest == lastReq <= reqClaim + MaxDelay

IInv == TypeOK /\ LockHeld /\ LockedClaim /\ Timely /\ RowAhead /\ LastRequest
        /\ SleepersApart

(* The initial state satisfies the inductive invariant.                        *)
LEMMA InitIInv == Init => IInv
  BY RateGateAssumption, SMT
  DEF Init, IInv, TypeOK, PC, LockHeld, LockedClaim, Timely, RowAhead, LastRequest,
      SleepersApart

(* Every step of every caller, a crash and the clock preserve it.              *)
LEMMA StepIInv == IInv /\ [Next]_vars => IInv'
<1> SUFFICES ASSUME IInv, [Next]_vars PROVE IInv'
  OBVIOUS
<1> USE RateGateAssumption
<1> USE DEF IInv, TypeOK, PC
<1>1. ASSUME NEW c \in Caller, Ask(c) PROVE IInv'
  BY <1>1, SMT DEF Ask, LockHeld, LockedClaim, Timely, Due, RowAhead, LastRequest, SleepersApart
<1>2. ASSUME NEW c \in Caller, LockRow(c) PROVE IInv'
  BY <1>2, SMT DEF LockRow, ClaimTs, LockHeld, LockedClaim, Timely, Due, RowAhead,
                   LastRequest, SleepersApart
<1>3. ASSUME NEW c \in Caller, CommitClaim(c) PROVE IInv'
  <2>1. (TypeOK /\ LockHeld /\ LockedClaim)'
    BY <1>3, SMT DEF CommitClaim, LockHeld, LockedClaim
  <2>2. (Timely /\ RowAhead /\ LastRequest)'
    BY <1>3, SMT DEF CommitClaim, LockedClaim, Timely, Due, RowAhead, LastRequest
  <2>3. SleepersApart'
    BY <1>3, SMT DEF CommitClaim, LockedClaim, RowAhead, SleepersApart
  <2> QED BY <2>1, <2>2, <2>3
<1>4. ASSUME NEW c \in Caller, Send(c) PROVE IInv'
  <2>1. (TypeOK /\ LockHeld /\ LockedClaim)'
    BY <1>4, SMT DEF Send, LockHeld, LockedClaim
  <2>2. (Timely /\ RowAhead /\ LastRequest)'
    BY <1>4, SMT DEF Send, Timely, Due, RowAhead, LastRequest
  <2>3. ASSUME NEW d \in Caller, d # c, pc[d] = "asleep"
        PROVE  claim[d] >= claim[c] + Limit
    \* otherwise d, whose slot came first, would be later than MaxDelay
    BY <1>4, <2>3, SMT DEF Send, SleepersApart, Timely, Due
  <2>4. SleepersApart'
    BY <1>4, <2>3, SMT DEF Send, SleepersApart
  <2> QED BY <2>1, <2>2, <2>4
<1>5. ASSUME NEW c \in Caller, RollBack(c) PROVE IInv'
  BY <1>5, SMT DEF RollBack, LockHeld, LockedClaim, Timely, Due, RowAhead,
                   LastRequest, SleepersApart
<1>6. CASE Crash
  BY <1>6, SMT DEF Crash, LockHeld, LockedClaim, Timely, Due, RowAhead,
                   LastRequest, SleepersApart
<1>7. CASE Advance
  BY <1>7, SMT DEF Advance, LockHeld, LockedClaim, Timely, Due, RowAhead,
                   LastRequest, SleepersApart
<1>8. CASE UNCHANGED vars
  BY <1>8, SMT DEF vars, LockHeld, LockedClaim, Timely, Due, RowAhead,
                   LastRequest, SleepersApart
<1> QED BY <1>1, <1>2, <1>3, <1>4, <1>5, <1>6, <1>7, <1>8 DEF Next, Step

(* The inductive invariant holds throughout. *)
THEOREM Invariance == Spec => []IInv
  BY InitIInv, StepIInv, PTL DEF Spec

(* Type correctness of the gate. *)
THEOREM TypeCorrect == Spec => []TypeOK
  BY Invariance, PTL DEF IInv

(* Sleeping callers own distinct slots, Limit apart, and none that is used.    *)
THEOREM SleepersApartAlways == Spec => []SleepersApart
  BY Invariance, PTL DEF IInv

(* mono_rate_state.last_acquired_at moves forward by at least Limit whenever   *)
(* it moves: restarts and concurrent callers never share a slot.               *)
THEOREM SlotsAlwaysSpaced == Spec => SlotsSpaced
<1>1. IInv /\ [Next]_vars => [last' # last => last' >= last + Limit]_vars
  BY RateGateAssumption, SMT
  DEF IInv, TypeOK, LockedClaim, Next, Step, Ask, LockRow, CommitClaim, Send, RollBack,
      Crash, Advance, vars
<1> QED BY <1>1, Invariance, PTL DEF Spec, SlotsSpaced

(* The gate keeps the request budget: requests leave at least Limit - MaxDelay *)
(* apart.                                                                      *)
THEOREM KeepsBudget == Spec => ImplementsBudget
<1>1. Init => Budget!Init
  BY RateGateAssumption, SMT DEF Init, Budget!Init
<1>2. IInv /\ [Next]_vars => [Budget!Next]_(Budget!vars)
  <2> SUFFICES ASSUME IInv, [Next]_vars PROVE [Budget!Next]_(Budget!vars)
    OBVIOUS
  <2> USE RateGateAssumption
  <2>1. ASSUME NEW c \in Caller, Send(c) PROVE Budget!Request
    BY <2>1, SMT DEF IInv, TypeOK, PC, Send, SleepersApart, LastRequest, Budget!Request
  <2>2. CASE Advance
    BY <2>2, SMT DEF IInv, TypeOK, Advance, Budget!Advance, Budget!Next
  <2>3. CASE Crash \/ UNCHANGED vars \/ \E c \in Caller : Ask(c) \/ LockRow(c)
                 \/ CommitClaim(c) \/ RollBack(c)
    BY <2>3 DEF Crash, vars, Ask, LockRow, CommitClaim, RollBack, Budget!vars
  <2> QED BY <2>1, <2>2, <2>3 DEF Next, Step, Budget!Next
<1> QED BY <1>1, <1>2, Invariance, PTL DEF Spec, ImplementsBudget, Budget!Spec
-----------------------------------------------------------------------------
(* How far the row runs ahead of the clock.                                    *)

(* Those that sleep for a later slot than c.                                   *)
Behind(c) == {d \in Asleep : claim[d] > claim[c]}
Lost == crashes * Cardinality(Caller)

(* A slot n callers behind t.                                                  *)
Within(t, n) == last <= t + Limit * (n + Lost)

(* The clock is read on entry; the claim is a slot after the row or that time. *)
ClaimFromRow ==
  \A c \in Caller : /\ start[c] <= now
                    /\ pc[c] = "locked" => claim[c] \in {last + Limit, start[c]}

(* When c is gone, what remains of the queue starts at its slot or now.        *)
QueueBehind ==
  \A c \in Asleep : \E t \in {now, claim[c]} : Within(t, Cardinality(Behind(c)))

BInv == IInv /\ ClaimFromRow /\ BacklogBounded /\ QueueBehind

(* The slots of n callers.                                                     *)
LEMMA SlotsAdd ==
  ASSUME NEW n \in Nat, NEW m \in Nat, NEW k \in Nat, n <= m
  PROVE  /\ Limit * (n + k) \in Nat
         /\ Limit * (n + k) <= Limit * (m + k)
         /\ Limit * ((n + 1) + k) = Limit * (n + k) + Limit
<1>1. Limit \in Nat  BY RateGateAssumption
<1>2. PICK d \in Nat : m = n + d
  <2>1. m - n \in Nat /\ m = n + (m - n)  OBVIOUS
  <2> QED  BY <2>1
<1>3. Limit * (m + k) = Limit * (n + k) + Limit * d
  BY <1>1, <1>2
<1>4. Limit * d \in Nat /\ Limit * (n + k) \in Nat
  BY <1>1, <1>2
<1>5. Limit * ((n + 1) + k) = Limit * (n + k) + Limit
  BY <1>1
<1> QED  BY <1>3, <1>4, <1>5

(* Sets of callers are finite.                                                 *)
LEMMA Callers ==
  ASSUME NEW S \in SUBSET Caller
  PROVE  /\ IsFiniteSet(S) /\ Cardinality(S) \in Nat
         /\ Cardinality(S) <= Cardinality(Caller)
         /\ \A c \in Caller \ S : Cardinality(S \cup {c}) = Cardinality(S) + 1
         /\ \A T \in SUBSET S : Cardinality(T) <= Cardinality(S)
  BY RateGateAssumption, FS_Subset, FS_CardinalityType, FS_AddElement

(* The sets of sleepers are sets of callers.                                   *)
LEMMA Sleepers ==
  ASSUME TypeOK
  PROVE  /\ Asleep \in SUBSET Caller /\ \A c : Behind(c) \in SUBSET Asleep
         /\ Lost \in Nat
<1>1. Cardinality(Caller) \in Nat
  BY Callers
<1> QED  BY <1>1 DEF Asleep, Behind, Lost, TypeOK

(* Steps that leave the sleepers, their slots and the row alone.               *)
LEMMA SameQueue ==
  ASSUME BInv, IInv', now' \in {now, now + 1}, last' = last, crashes' = crashes,
         Asleep' = Asleep, \A c \in Asleep : claim'[c] = claim[c]
  PROVE  (BacklogBounded /\ QueueBehind)'
<1>1. Lost' = Lost /\ \A c \in Asleep : Behind(c)' = Behind(c)
  BY DEF Lost, Behind
<1>2. now \in Nat /\ last \in Nat  BY DEF BInv, IInv, TypeOK
<1>3. Asleep \in SUBSET Caller /\ Lost \in Nat /\ \A c : Behind(c) \in SUBSET Caller
  BY Sleepers DEF BInv, IInv
<1>4. \A n \in Nat : Limit * (n + Lost) \in Nat
  BY <1>3, SlotsAdd
<1>5. BacklogBounded'
  <2>1. Cardinality(Asleep) \in Nat  BY <1>3, Callers
  <2>2. Limit * (Cardinality(Asleep) + Lost) \in Nat  BY <1>4, <2>1
  <2>3. last <= now + Limit * (Cardinality(Asleep) + Lost)
    BY DEF BInv, BacklogBounded, Lost
  <2> DEFINE X == Limit * (Cardinality(Asleep) + Lost)
  <2>4. X \in Nat /\ last <= now + X  BY <2>2, <2>3
  <2> HIDE DEF X
  <2>a. last <= now + X /\ last <= (now + 1) + X
    BY <1>2, <2>4
  <2>5. last' <= now' + X
    <3>1. CASE now' = now  BY <2>a, <3>1
    <3>2. CASE now' = now + 1  BY <2>a, <3>2
    <3> QED  BY <3>1, <3>2
  <2> QED  BY <1>1, <2>5 DEF BacklogBounded, Lost, X
<1>6. ASSUME NEW c \in Asleep PROVE \E t \in {now', claim'[c]} : Within(t, Cardinality(Behind(c)))'
  <2> DEFINE X == Limit * (Cardinality(Behind(c)) + Lost)
  <2>1. Cardinality(Behind(c)) \in Nat  BY <1>3, Callers
  <2>2. X \in Nat  BY <1>4, <2>1
  <2>3. PICK t \in {now, claim[c]} : last <= t + X
    BY <1>6 DEF BInv, QueueBehind, Within
  <2>4. Limit * (Cardinality(Behind(c)) + Lost)' = X
    BY <1>1
  <2> HIDE DEF X
  <2>5. \E u \in {now', claim'[c]} : last' <= u + X
    BY <1>2, <2>2, <2>3
  <2> QED  BY <2>4, <2>5, <1>1 DEF Within, X
<1> QED  BY <1>5, <1>6 DEF QueueBehind
(* Every step preserves the invariant.                                         *)
LEMMA StepBInv == BInv /\ [Next]_vars => BInv'
<1> SUFFICES ASSUME BInv, [Next]_vars PROVE BInv'
  OBVIOUS
<1> USE RateGateAssumption
<1>a. IInv' /\ IInv /\ TypeOK  BY StepIInv DEF BInv, IInv
<1>b. /\ Asleep \in SUBSET Caller /\ Lost \in Nat /\ now \in Nat /\ last \in Nat
      /\ \A c : Behind(c) \in SUBSET Asleep
  BY <1>a, Sleepers DEF TypeOK
<1>c. ClaimFromRow'
  BY <1>a DEF BInv, ClaimFromRow, TypeOK, PC, LockHeld, IInv, Next, Step, vars, Ask, LockRow, ClaimTs,
     CommitClaim, Send, RollBack, Crash, Advance
<1>d. \A c \in Asleep : claim[c] <= last /\ claim[c] \in Nat
  BY <1>a DEF Asleep, IInv, RowAhead, TypeOK
<1>1. ASSUME \/ Advance \/ UNCHANGED vars
             \/ \E c \in Caller : Ask(c) \/ LockRow(c) \/ RollBack(c)
      PROVE  (BacklogBounded /\ QueueBehind)'
  <2>1. /\ now' \in {now, now + 1} /\ last' = last /\ crashes' = crashes
        /\ Asleep' = Asleep /\ \A c \in Asleep : claim'[c] = claim[c]
    BY <1>1, <1>a DEF TypeOK, PC, Asleep, vars, Ask, LockRow, RollBack, Advance
  <2> QED  BY <1>a, <2>1, SameQueue
<1>2. ASSUME NEW c \in Caller, CommitClaim(c) PROVE (BacklogBounded /\ QueueBehind)'
  <2>1. /\ last' = claim[c] /\ now' = now /\ claim' = claim /\ crashes' = crashes
        /\ Asleep' = Asleep \cup {c} /\ c \notin Asleep
    BY <1>2, <1>a DEF CommitClaim, Asleep, TypeOK, PC
  <2>2. claim[c] = last + Limit \/ claim[c] <= now
    BY <1>2 DEF CommitClaim, BInv, ClaimFromRow
  <2>3. claim[c] >= last + Limit /\ claim[c] \in Nat
    BY <1>2, <1>a DEF CommitClaim, IInv, LockedClaim, TypeOK
  <2>4. Lost' = Lost  BY <2>1 DEF Lost
  <2>5. QueueBehind'
    <3>1. ASSUME NEW d \in Asleep
          PROVE  \E t \in {now', claim'[d]} : Within(t, Cardinality(Behind(d)))'
      <4>1. Behind(d)' = Behind(d) \cup {c} /\ c \notin Behind(d)
        BY <2>1, <2>3, <1>d, <3>1, <1>b DEF Behind
      <4> DEFINE n == Cardinality(Behind(d))
      <4>2. n \in Nat /\ Cardinality(Behind(d)') = n + 1
        BY <4>1, <1>b, Callers
      <4>3. /\ Limit * (n + Lost) \in Nat
            /\ Limit * ((n + 1) + Lost) = Limit * (n + Lost) + Limit
        BY <4>2, <1>b, SlotsAdd
      <4>4. PICK t \in {now, claim[d]} : last <= t + Limit * (n + Lost)
        BY <3>1 DEF BInv, QueueBehind, Within
      <4> DEFINE X == Limit * (n + Lost)
      <4>5. X \in Nat /\ last <= t + X /\ Limit * ((n + 1) + Lost) = X + Limit
        BY <4>3, <4>4
      <4> HIDE DEF X, n
      <4>6. \E u \in {now, claim[d]} : claim[c] <= u + (X + Limit)
        BY <4>4, <4>5, <2>2, <1>b, <1>d, <2>3, <3>1
      <4> QED  BY <2>1, <2>4, <4>2, <4>5, <4>6 DEF Within
    <3>2. \E t \in {now', claim'[c]} : Within(t, Cardinality(Behind(c)))'
      <4>1. Behind(c)' \in SUBSET Caller  BY <2>1, <1>b DEF Behind
      <4>2. Cardinality(Behind(c)') \in Nat  BY <4>1, Callers
      <4>3. Limit * (Cardinality(Behind(c)') + Lost) \in Nat
        BY <4>2, <1>b, SlotsAdd
      <4>4. claim[c] <= claim[c] + Limit * (Cardinality(Behind(c)') + Lost)
        BY <4>3, <2>3
      <4> QED  BY <2>1, <2>4, <4>4 DEF Within
    <3> QED  BY <2>1, <3>1, <3>2 DEF QueueBehind
  <2>6. BacklogBounded'
    <3> DEFINE n == Cardinality(Asleep)
               X == Limit * (n + Lost)
    <3>1. n \in Nat /\ Cardinality(Asleep') = n + 1
      BY <2>1, <1>b, Callers
    <3>2. X \in Nat /\ Limit * ((n + 1) + Lost) = X + Limit
      BY <3>1, <1>b, SlotsAdd
    <3>3. last <= now + X
      BY DEF BInv, BacklogBounded, Lost
    <3> HIDE DEF X, n
    <3>4. claim[c] <= now + (X + Limit)
      BY <3>2, <3>3, <2>2, <2>3, <1>b
    <3> QED  BY <2>1, <2>4, <3>1, <3>2, <3>4 DEF BacklogBounded, Lost
  <2> QED  BY <2>5, <2>6
<1>3. ASSUME NEW c \in Caller, Send(c) PROVE (BacklogBounded /\ QueueBehind)'
  <2>1. /\ last' = last /\ now' = now /\ crashes' = crashes /\ claim[c] <= now
        /\ Asleep' = Asleep \ {c} /\ c \in Asleep
        /\ \A d \in Asleep' : claim'[d] = claim[d]
    BY <1>3, <1>a DEF Send, Asleep, TypeOK, PC
  <2>2. ASSUME NEW d \in Asleep, d # c PROVE claim[d] > claim[c]
    \* otherwise d, whose slot came first, would be later than MaxDelay
    BY <1>3, <2>2, <1>a, SMT
    DEF Send, IInv, SleepersApart, Timely, Due, TypeOK, PC, Asleep
  <2>3. Lost' = Lost  BY <2>1 DEF Lost
  <2>4. QueueBehind'
    <3>1. ASSUME NEW d \in Asleep'
          PROVE  \E t \in {now', claim'[d]} : Within(t, Cardinality(Behind(d)))'
      <4>1. Behind(d)' = Behind(d)
        <5>1. c \notin Behind(d)
          BY <2>1, <2>2, <1>d, <3>1 DEF Behind
        <5> QED  BY <2>1, <5>1, <3>1 DEF Behind
      <4>2. \E t \in {now, claim[d]} : Within(t, Cardinality(Behind(d)))
        BY <2>1, <3>1 DEF BInv, QueueBehind
      <4> QED  BY <2>1, <2>3, <4>1, <4>2, <3>1 DEF Within
    <3> QED  BY <3>1 DEF QueueBehind
  <2>5. BacklogBounded'
    <3> DEFINE n == Cardinality(Behind(c))
               m == Cardinality(Asleep')
               X == Limit * (n + Lost)
               Y == Limit * (m + Lost)
    <3>1. Behind(c) \in SUBSET Asleep' /\ Asleep' \in SUBSET Caller
      BY <1>b, <1>d, <2>1 DEF Behind
    <3>2. n \in Nat /\ m \in Nat /\ n <= m
      BY <3>1, Callers
    <3>3. X \in Nat /\ X <= Y
      BY <3>2, <1>b, SlotsAdd
    <3>4. Y \in Nat
      BY <3>2, <1>b, SlotsAdd
    <3>5. PICK t \in {now, claim[c]} : last <= t + X
      BY <2>1 DEF BInv, QueueBehind, Within
    <3> HIDE DEF X, Y, n, m
    <3>6. last <= now + Y
      BY <3>3, <3>4, <3>5, <2>1, <1>b, <1>d
    <3> QED  BY <2>1, <2>3, <3>6 DEF BacklogBounded, Lost, Y, m
  <2> QED  BY <2>4, <2>5
<1>4. ASSUME Crash PROVE (BacklogBounded /\ QueueBehind)'
  <2>1. last' = last /\ now' = now /\ Asleep' = {} /\ crashes' = crashes + 1
    BY <1>4 DEF Crash, Asleep
  <2> DEFINE n == Cardinality(Asleep)
             N == Cardinality(Caller)
  <2>2. n \in Nat /\ N \in Nat /\ n <= N
    BY <1>b, Callers
  <2>3. Lost' = N + Lost
    BY <1>a, <2>1, <2>2 DEF Lost, TypeOK
  <2>4. /\ Limit * (n + Lost) \in Nat /\ Limit * (N + Lost) \in Nat
        /\ Limit * (n + Lost) <= Limit * (N + Lost)
    BY <2>2, <1>b, SlotsAdd
  <2>5. last <= now + Limit * (n + Lost)
    BY DEF BInv, BacklogBounded, Lost
  <2> DEFINE X == Limit * (n + Lost)
             Y == Limit * (N + Lost)
  <2>6. X \in Nat /\ Y \in Nat /\ X <= Y /\ last <= now + X
    BY <2>4, <2>5
  <2>7. Cardinality(Asleep') = 0  BY <2>1, FS_EmptySet
  <2>8. Limit * (Cardinality(Asleep') + Lost') = Y
    BY <2>2, <2>3, <2>7, <1>b
  <2> HIDE DEF X, Y, n, N
  <2>9. last <= now + Y
    BY <2>6, <1>b
  <2>10. BacklogBounded'
    BY <2>1, <2>8, <2>9 DEF BacklogBounded, Lost
  <2>11. QueueBehind'
    BY <2>1 DEF QueueBehind
  <2> QED  BY <2>10, <2>11
<1>5. (BacklogBounded /\ QueueBehind)'
  BY <1>1, <1>2, <1>3, <1>4 DEF Next, Step
<1> QED  BY <1>a, <1>c, <1>5 DEF BInv

(* The row never runs further ahead of the clock than the slots of those that  *)
(* sleep, and of those that died asleep.                                       *)
THEOREM BacklogAlwaysBounded == Spec => []BacklogBounded
<1>1. Init => BInv
  <2>1. ASSUME Init PROVE BInv
    <3>1. IInv /\ Asleep = {} /\ last = 0 /\ now = Limit /\ ClaimFromRow
      BY <2>1, InitIInv, RateGateAssumption DEF Init, Asleep, ClaimFromRow
    <3>2. TypeOK  BY <3>1 DEF IInv
    <3>3. Lost \in Nat  BY <3>2, Sleepers
    <3>4. Cardinality(Asleep) = 0  BY <3>1, FS_EmptySet
    <3>5. Limit * (Cardinality(Asleep) + Lost) \in Nat  BY <3>3, <3>4, SlotsAdd
    <3>6. 0 <= Limit + Limit * (Cardinality(Asleep) + Lost)
      BY <3>5, RateGateAssumption
    <3> QED  BY <3>1, <3>6 DEF BInv, BacklogBounded, QueueBehind, Lost
  <2> QED  BY <2>1
<1> QED  BY <1>1, StepBInv, PTL DEF Spec, BInv
-----------------------------------------------------------------------------
(* What the bank sees over many requests.                                      *)

(* The observer only watches: with it the gate does what it does without, so   *)
(* all that is proved of RateGate holds beside it.                             *)
THEOREM WindowKeepsGate == WSpec => Spec
<1>1. WInit => Init
  BY DEF WInit
<1>2. [WNext]_wvars => [Next]_vars
  BY DEF WNext, Unseen, Request, Next, Step, wvars
<1> QED BY <1>1, <1>2, PTL DEF WSpec, Spec

(* The requests counted own slots that are Limit apart, whatever restarts lie   *)
(* between; only the first of them can have been late on its own account.      *)
SlotOfLatest ==
  /\ since \in Nat /\ sent \in Nat
  /\ reqClaim <= lastReq
  /\ sent > 0 => since + (sent - 1) * Limit <= reqClaim + MaxDelay

(* One request more is one slot more.                                          *)
LEMMA OneSlotMore ==
  ASSUME NEW n \in Nat, n > 0
  PROVE  (n - 1) * Limit \in Nat /\ n * Limit = (n - 1) * Limit + Limit
<1>1. Limit \in Nat  BY RateGateAssumption
<1>2. PICK k \in Nat : n = k + 1
  <2>1. n - 1 \in Nat /\ n = (n - 1) + 1  OBVIOUS
  <2> QED  BY <2>1
<1>3. n - 1 = k  BY <1>2
<1>4. k * Limit \in Nat /\ (k + 1) * Limit = k * Limit + Limit
  BY <1>1, <1>2
<1> QED  BY <1>2, <1>3, <1>4

(* Every step of the gate and of its observer preserves it.                    *)
LEMMA StepSlotOfLatest ==
  ASSUME IInv, SlotOfLatest, [WNext]_wvars
  PROVE  SlotOfLatest'
<1> USE RateGateAssumption
<1>1. ASSUME NEW c \in Caller, Request(c) PROVE SlotOfLatest'
  <2>1. /\ lastReq' = now /\ reqClaim' = claim[c] /\ now \in Nat /\ claim[c] \in Nat
        /\ claim[c] <= now /\ now <= claim[c] + MaxDelay
        /\ claim[c] >= reqClaim + Limit
    BY <1>1, SMT DEF Request, Send, IInv, TypeOK, PC, SleepersApart, Timely, Due
  <2>2. CASE since' = now /\ sent' = 1
    <3>1. (sent' - 1) * Limit = 0  BY <2>2
    <3> QED  BY <2>1, <2>2, <3>1 DEF SlotOfLatest
  <2>3. CASE sent > 0 /\ since' = since /\ sent' = sent + 1
    <3> DEFINE X == (sent - 1) * Limit
    <3>1. X \in Nat /\ sent * Limit = X + Limit
      BY <2>3, OneSlotMore DEF SlotOfLatest
    <3>2. since + X <= reqClaim + MaxDelay /\ since \in Nat /\ sent \in Nat
      BY <2>3 DEF SlotOfLatest
    <3>3. reqClaim \in Nat  BY DEF IInv, TypeOK
    <3> HIDE DEF X
    <3>4. since + (X + Limit) <= claim[c] + MaxDelay
      BY <2>1, <3>1, <3>2, <3>3
    <3>5. sent' - 1 = sent  BY <2>3, <3>2
    <3>6. (sent' - 1) * Limit = X + Limit  BY <3>1, <3>5
    <3> QED  BY <2>1, <2>3, <3>2, <3>4, <3>6 DEF SlotOfLatest
  <2> QED  BY <1>1, <2>2, <2>3 DEF Request
<1>2. ASSUME \/ UNCHANGED wvars
             \/ Unseen /\ \/ \E c \in Caller : \/ Ask(c) \/ LockRow(c)
                                              \/ CommitClaim(c) \/ RollBack(c)
                          \/ Crash \/ Advance
      PROVE  SlotOfLatest'
  <2>1. UNCHANGED <<since, sent, lastReq, reqClaim>>
    BY <1>2 DEF Unseen, wvars, vars, Ask, LockRow, CommitClaim, RollBack, Crash, Advance
  <2> QED  BY <2>1 DEF SlotOfLatest
<1> QED  BY <1>1, <1>2 DEF WNext

(* Any n requests in a row take at least (n - 1) * Limit - MaxDelay: lateness   *)
(* never adds up, whoever calls and however often the process dies.            *)
THEOREM WindowBudgetAlways == WSpec => []WindowBudget
<1>1. WInit => SlotOfLatest
  BY DEF WInit, Init, SlotOfLatest
<1>2. IInv /\ SlotOfLatest /\ [WNext]_wvars => SlotOfLatest'
  BY StepSlotOfLatest
<1>3. IInv /\ SlotOfLatest => WindowBudget
  <2> SUFFICES ASSUME IInv, SlotOfLatest, sent > 0
               PROVE  since + (sent - 1) * Limit <= lastReq + MaxDelay
    BY DEF WindowBudget
  <2> DEFINE X == (sent - 1) * Limit
  <2>1. X \in Nat /\ since + X <= reqClaim + MaxDelay /\ reqClaim <= lastReq
    BY OneSlotMore DEF SlotOfLatest
  <2>2. since \in Nat /\ reqClaim \in Nat /\ lastReq \in Nat /\ MaxDelay \in Nat
    BY RateGateAssumption DEF IInv, TypeOK, SlotOfLatest
  <2> HIDE DEF X
  <2>3. since + X <= lastReq + MaxDelay  BY <2>1, <2>2
  <2> QED  BY <2>3 DEF X
<1> QED  BY <1>1, <1>2, <1>3, Invariance, WindowKeepsGate, PTL DEF WSpec
=============================================================================
