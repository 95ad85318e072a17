------------------------------ MODULE RateGate ------------------------------
(***************************************************************************)
(* RateLimitGate.acquire (importers/rate_limit.py) over mono_rate_state      *)
(* (db/rate_state_repo.py), and the request that MonobankImporter sends as   *)
(* soon as acquire returns (importers/monobank.py).  One token, one row; any *)
(* number of tasks may call, and the process may die anywhere: the row is    *)
(* all that survives.                                                        *)
(*                                                                           *)
(* acquire reads the clock, then opens a transaction, locks the row (SELECT  *)
(* ... FOR UPDATE), writes its claim and commits, then sleeps until the      *)
(* claim.  Each of these is a step, and time may pass between any two.       *)
(***************************************************************************)
EXTENDS Integers, FiniteSets

CONSTANTS
  Caller,      \* tasks that call acquire
  NoCaller,    \* the row lock is free
  Limit,       \* MONO_RATE_LIMIT_SECONDS
  MaxDelay,    \* environment: a caller is at most this late (see Advance)
  MaxNow,      \* bound: the clock
  MaxCrashes   \* bound: times the process dies

ASSUME RateGateAssumption ==
  /\ IsFiniteSet(Caller)
  /\ NoCaller \notin Caller
  /\ Limit \in Nat
  /\ MaxDelay \in Nat
  /\ MaxDelay < Limit
  /\ MaxNow \in Nat
  /\ MaxCrashes \in Nat

VARIABLES
  now,       \* datetime.now(UTC)
  last,      \* mono_rate_state.last_acquired_at; 0 is the 1970 sentinel
  lock,      \* the caller whose transaction holds the row lock, or NoCaller
  pc,        \* where each caller stands
  start,     \* acquire's local `now`, read before the transaction
  claim,     \* acquire's local `claim_ts`; a local that is dead is 0
  lastReq,   \* history: when the latest request left
  reqClaim,  \* history: the claim it was sent under
  crashes

vars == <<now, last, lock, pc, start, claim, lastReq, reqClaim, crashes>>

(* idle: not in acquire.  asked: has read the clock, waits for the row lock.   *)
(* locked: between FOR UPDATE and commit.  asleep: committed, request to send. *)
PC == {"idle", "asked", "locked", "asleep"}

Init ==
  /\ now = Limit
  /\ last = 0
  /\ lock = NoCaller
  /\ pc = [c \in Caller |-> "idle"]
  /\ start = [c \in Caller |-> 0]
  /\ claim = [c \in Caller |-> 0]
  /\ lastReq = 0 /\ reqClaim = 0
  /\ crashes = 0

(* acquire: now = datetime.now(UTC) *)
Ask(c) ==
  /\ pc[c] = "idle"
  /\ pc' = [pc EXCEPT ![c] = "asked"]
  /\ start' = [start EXCEPT ![c] = now]
  /\ UNCHANGED <<now, last, lock, claim, lastReq, reqClaim, crashes>>

(* Variant: the caller who has to wait writes now, not its forward-dated slot. *)
ClaimNow(seen, t) == t

(* Variant: the row gets the wait, not the time at which it ends. *)
ClaimWait(seen, t) == seen + Limit - t

(* next_allowed, wait_until and claim_ts from the row just read and the clock  *)
(* read on entry.                                                              *)
ClaimTs(seen, t) == IF seen + Limit > t THEN seen + Limit ELSE t

(* Variant: no FOR UPDATE, the row is read without waiting for its holder.     *)
ReadUnlocked(c) ==
  /\ pc[c] = "asked"
  /\ lock' = c
  /\ claim' = [claim EXCEPT ![c] = ClaimTs(last, start[c])]
  /\ pc' = [pc EXCEPT ![c] = "locked"]
  /\ UNCHANGED <<now, last, start, lastReq, reqClaim, crashes>>

(* ensure_row and select_for_update: either blocks while another transaction   *)
(* has the row; the row read is the latest committed one.                      *)
LockRow(c) ==
  /\ pc[c] = "asked"
  /\ lock = NoCaller
  /\ lock' = c
  /\ claim' = [claim EXCEPT ![c] = ClaimTs(last, start[c])]
  /\ pc' = [pc EXCEPT ![c] = "locked"]
  /\ UNCHANGED <<now, last, start, lastReq, reqClaim, crashes>>

(* upsert and commit *)
CommitClaim(c) ==
  /\ pc[c] = "locked"
  /\ last' = claim[c]
  /\ lock' = NoCaller
  /\ pc' = [pc EXCEPT ![c] = "asleep"]
  /\ start' = [start EXCEPT ![c] = 0]
  /\ UNCHANGED <<now, claim, lastReq, reqClaim, crashes>>

(* Variant: the claim is written outside the transaction and outlives it.     *)
RollBackKeepsClaim(c) ==
  /\ pc[c] \in {"asked", "locked"}
  /\ last' = IF lock = c THEN claim[c] ELSE last
  /\ lock' = IF lock = c THEN NoCaller ELSE lock
  /\ pc' = [pc EXCEPT ![c] = "idle"]
  /\ start' = [start EXCEPT ![c] = 0]
  /\ claim' = [claim EXCEPT ![c] = 0]
  /\ UNCHANGED <<now, lastReq, reqClaim, crashes>>

(* The transaction fails before it commits; acquire raises.                    *)
RollBack(c) ==
  /\ pc[c] \in {"asked", "locked"}
  /\ lock' = IF lock = c THEN NoCaller ELSE lock
  /\ pc' = [pc EXCEPT ![c] = "idle"]
  /\ start' = [start EXCEPT ![c] = 0]
  /\ claim' = [claim EXCEPT ![c] = 0]
  /\ UNCHANGED <<now, last, lastReq, reqClaim, crashes>>

(* Variant: the request goes out without the sleep. *)
SendAtOnce(c) ==
  /\ pc[c] = "asleep"
  /\ lastReq' = now
  /\ reqClaim' = claim[c]
  /\ pc' = [pc EXCEPT ![c] = "idle"]
  /\ claim' = [claim EXCEPT ![c] = 0]
  /\ UNCHANGED <<now, last, lock, start, crashes>>

(* The sleep is over, acquire returns and the request leaves.                  *)
Send(c) ==
  /\ pc[c] = "asleep"
  /\ now >= claim[c]
  /\ lastReq' = now
  /\ reqClaim' = claim[c]
  /\ pc' = [pc EXCEPT ![c] = "idle"]
  /\ claim' = [claim EXCEPT ![c] = 0]
  /\ UNCHANGED <<now, last, lock, start, crashes>>

(* The process dies: open transactions roll back, claims committed but not     *)
(* used stay in the row.                                                       *)
Crash ==
  /\ crashes < MaxCrashes
  /\ lock' = NoCaller
  /\ pc' = [c \in Caller |-> "idle"]
  /\ start' = [c \in Caller |-> 0]
  /\ claim' = [c \in Caller |-> 0]
  /\ crashes' = crashes + 1
  /\ UNCHANGED <<now, last, lastReq, reqClaim>>

(* The moment from which a caller that could act is late.                      *)
Due(c) == IF pc[c] = "asleep" THEN claim[c] ELSE start[c]

(* Time passes.  The environment's part of the bargain is MaxDelay: a caller   *)
(* gets from reading the clock to its claim, and from its claim to the wire,   *)
(* with at most MaxDelay in all.                                               *)
Advance ==
  /\ now < MaxNow
  /\ \A c \in Caller : pc[c] # "idle" => now < Due(c) + MaxDelay
  /\ now' = now + 1
  /\ UNCHANGED <<last, lock, pc, start, claim, lastReq, reqClaim, crashes>>

Step(c) == LockRow(c) \/ CommitClaim(c) \/ Send(c)

Next == \/ \E c \in Caller : Ask(c) \/ Step(c) \/ RollBack(c)
        \/ Crash \/ Advance

Spec == Init /\ [][Next]_vars

-----------------------------------------------------------------------------
(* Properties *)

TypeOK ==
  /\ now \in Nat
  /\ last \in Nat
  /\ lock \in Caller \cup {NoCaller}
  /\ pc \in [Caller -> PC]
  /\ start \in [Caller -> Nat]
  /\ claim \in [Caller -> Nat]
  /\ lastReq \in Nat /\ reqClaim \in Nat
  /\ crashes \in Nat

(* The slots written to mono_rate_state are at least Limit apart, concurrent   *)
(* callers and restarts included: no two callers ever own the same slot.       *)
SlotsSpaced == [][last' # last => last' >= last + Limit]_vars

(* Two sleeping callers own slots at least Limit apart, and neither owns one    *)
(* that a request has already used.                                            *)
SleepersApart ==
  \A c, d \in Caller :
    pc[c] = "asleep" =>
      /\ claim[c] >= reqClaim + Limit
      /\ pc[d] = "asleep" /\ c # d =>
           claim[c] >= claim[d] + Limit \/ claim[d] >= claim[c] + Limit

(* The gate implements the budget: requests leave at least Limit - MaxDelay     *)
(* apart.  With 65 s for a limit of 60 s that is the bank's rule as long as     *)
(* callers are no more than 5 s late.                                          *)
Budget == INSTANCE RequestBudget WITH Gap <- Limit - MaxDelay
ImplementsBudget == Budget!Spec

(* How far the row can run ahead of the clock, which is how long the next       *)
(* caller sleeps: a slot per sleeping caller, and after a crash the slots of    *)
(* the callers it killed.                                                      *)
Asleep == {c \in Caller : pc[c] = "asleep"}
BacklogBounded ==
  last <= now + Limit * (Cardinality(Asleep) + crashes * Cardinality(Caller))
=============================================================================
