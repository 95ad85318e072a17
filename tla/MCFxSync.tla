------------------------------ MODULE MCFxSync ------------------------------
(* Instances of FxSync for TLC: currency 1 comes first in every loop, days and *)
(* windows are scaled down; day 3 is the first day the program runs.           *)
EXTENDS FxRead

(* HalfEven against its definition: nothing is nearer, and a tie goes to the   *)
(* even neighbour.                                                             *)
ASSUME RoundingAssumption ==
  \A n \in -30..30, d \in 1..8 :
    LET h == HalfEven(n, d)
        off(k) == IF n > k * d THEN n - k * d ELSE k * d - n
    IN /\ \A k \in (h - 2)..(h + 2) : off(h) <= off(k)
       /\ \A k \in {h - 1, h + 1} : off(k) = off(h) => h % 2 = 0
=============================================================================
