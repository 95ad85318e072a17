---------------------------- MODULE MCScheduler ----------------------------
(* Instances of Scheduler for TLC.  Accounts that are not Pollable stand for   *)
(* jars and FOPs, which the scheduler discovers and never polls.               *)
EXTENDS ImportStatus, TLC

(* Clients differ in their names only. *)
ClientSymmetry == Permutations(Client)
=============================================================================
