------------------------------ MODULE Extrema ------------------------------
(* A nonempty set of integers with a bound has a greatest, or a least, element *)
(* (what ORDER BY ... LIMIT 1 and "first match in priority order" rely on).    *)
(* The induction behind it is that of the library on finite sets: the parts of *)
(* a finite interval are well founded under strict inclusion.                  *)
EXTENDS Integers, TLAPS, FiniteSetTheorems, WellFoundedInduction

(* A nonempty family of parts of a finite set has a minimal member.            *)
LEMMA MinimalPart ==
  ASSUME NEW S, IsFiniteSet(S), NEW F \in SUBSET (SUBSET S), F # {}
  PROVE  \E A \in F : \A B \in F : ~(B \subseteq A /\ B # A)
<1>1. IsWellFoundedOn(StrictSubsetOrdering(S), SUBSET S)
  BY FS_StrictSubsetOrderingWellFounded, FS_FiniteSubsetsOfFinite
<1>2. \E A \in F : \A B \in F : ~(<<B, A>> \in StrictSubsetOrdering(S))
  BY <1>1, WFMin
<1>3. \A A \in SUBSET S, B \in SUBSET S :
        B \subseteq A /\ B # A => <<B, A>> \in StrictSubsetOrdering(S)
  BY DEF StrictSubsetOrdering
<1> QED  BY <1>2, <1>3

(* A nonempty set of integers bounded above has a greatest element.            *)
LEMMA Greatest ==
  ASSUME NEW T \in SUBSET Int, T # {}, NEW hi \in Int, \A t \in T : t <= hi
  PROVE  \E m \in T : \A t \in T : t <= m
<1>1. PICK lo \in T : TRUE  OBVIOUS
<1> DEFINE Above(n) == (n + 1)..hi
           S == Above(lo)
           late == {t \in T : lo <= t}
           F == {Above(n) : n \in late}
<1>2. IsFiniteSet(S)  BY FS_Interval
<1>3. F \in SUBSET (SUBSET S) /\ F # {}  BY <1>1
<1>4. \E A \in F : \A B \in F : ~(B \subseteq A /\ B # A)
  <2> HIDE DEF F, S
  <2> QED  BY <1>2, <1>3, MinimalPart
<1>5. PICK A \in F : \A B \in F : ~(B \subseteq A /\ B # A)  BY <1>4
<1>6. PICK m \in late : A = Above(m)  OBVIOUS
<1>7. ASSUME NEW t \in T, ~(t <= m) PROVE FALSE
  <2>1. t \in late /\ m < t /\ t <= hi  BY <1>7, <1>6
  <2>2. Above(t) \subseteq Above(m)  BY <2>1
  <2>3. t \in Above(m) /\ t \notin Above(t)  BY <2>1
  <2>4. Above(t) \in F  BY <2>1
  <2> QED  BY <1>5, <1>6, <2>2, <2>3, <2>4
<1> QED  BY <1>6, <1>7

(* A nonempty set of integers bounded below has a least element.               *)
LEMMA Least ==
  ASSUME NEW T \in SUBSET Int, T # {}, NEW lo \in Int, \A t \in T : lo <= t
  PROVE  \E m \in T : \A t \in T : m <= t
<1> DEFINE N == {0 - t : t \in T}
<1>1. N \in SUBSET Int /\ N # {} /\ 0 - lo \in Int
  <2>1. \A t \in T : 0 - t \in Int  OBVIOUS
  <2>2. \A n \in N : n \in Int  BY <2>1
  <2>3. N # {}  OBVIOUS
  <2> QED  BY <2>2, <2>3
<1>2. \A n \in N : n <= 0 - lo  OBVIOUS
<1>3. \E m \in N : \A n \in N : n <= m
  <2> HIDE DEF N
  <2> QED  BY <1>1, <1>2, Greatest
<1>4. PICK m \in T : \A t \in T : 0 - t <= 0 - m  BY <1>3
<1> QED  BY <1>4
=============================================================================
