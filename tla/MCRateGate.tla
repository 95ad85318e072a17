----------------------------- MODULE MCRateGate -----------------------------
(* Instances of RateGate and its observer for TLC, with seconds scaled down. *)
EXTENDS RateWindow, TLC

CallerSymmetry == Permutations(Caller)
=============================================================================
