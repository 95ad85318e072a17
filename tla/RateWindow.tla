----------------------------- MODULE RateWindow -----------------------------
(***************************************************************************)
(* RateGate as the bank sees it: an observer that may start to count at any *)
(* request and counts every one that follows, through crashes and restarts. *)
(* since and sent are history: the program never reads them.                 *)
(***************************************************************************)
EXTENDS RateGate

VARIABLES
  since,  \* when the first request counted left
  sent    \* how many were counted, that one included; 0 before

wvars == <<vars, since, sent>>

WInit == Init /\ since = 0 /\ sent = 0

(* monobank.py: what follows `await self._gate.acquire` reaches the bank.      *)
Request(c) ==
  /\ Send(c)
  /\ \/ since' = now /\ sent' = 1
     \/ sent > 0 /\ since' = since /\ sent' = sent + 1

(* Everything else is out of the bank's sight.                                 *)
Unseen == UNCHANGED <<since, sent>>

WNext ==
  \/ \E c \in Caller : \/ Request(c)
                       \/ Ask(c) /\ Unseen
                       \/ LockRow(c) /\ Unseen
                       \/ CommitClaim(c) /\ Unseen
                       \/ RollBack(c) /\ Unseen
  \/ Crash /\ Unseen
  \/ Advance /\ Unseen

WSpec == WInit /\ [][WNext]_wvars

-----------------------------------------------------------------------------
(* Properties *)

(* The lateness of callers does not add up: n requests, whoever sends them and  *)
(* whatever restarts in between, take at least n - 1 limits less one MaxDelay.  *)
(* ImplementsBudget alone would let every one of them be MaxDelay early.       *)
WindowBudget ==
  sent > 0 => since + (sent - 1) * Limit <= lastReq + MaxDelay
=============================================================================
