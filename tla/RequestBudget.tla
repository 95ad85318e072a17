---------------------------- MODULE RequestBudget ----------------------------
(***************************************************************************)
(* What the rate-limit gate promises to the bank: two requests that bear    *)
(* the token are at least Gap apart, whoever sends them and whatever stops  *)
(* and restarts in between.  RateGate implements this specification.        *)
(***************************************************************************)
EXTENDS Naturals

CONSTANT Gap

VARIABLES
  now,      \* the clock
  lastReq   \* when the latest request left, 0 before the first

vars == <<now, lastReq>>

Init == /\ lastReq = 0
        /\ now \in Nat
        /\ now >= Gap

Advance == /\ now' \in Nat
           /\ now' > now
           /\ UNCHANGED lastReq

Request == /\ now >= lastReq + Gap
           /\ lastReq' = now
           /\ UNCHANGED now

Next == Advance \/ Request

Spec == Init /\ [][Next]_vars
=============================================================================
