--------------------------- MODULE SchedulerProofs ---------------------------
(***************************************************************************)
(* Proofs about Scheduler, for any accounts, clients, backfill length and    *)
(* any number of runs, crashes and faults.                                   *)
(***************************************************************************)
EXTENDS Scheduler, SequenceTheorems, TLAPS

(* A request has inserted pending rows only. *)
BufPending ==
  \A q \in Client : \A i \in DOMAIN req[q].buf : req[q].buf[i].status = "pending"

(* insert_many is committed for rows of the table only. *)
StoredKnown == stored \subseteq Ids

(* The card the tick is about to enqueue is a card. *)
PickedKnown == pc = "enqueue" => picked \in Account

(* The cached state never lags behind the disk while the process serves. *)
CacheAgrees == proc = "up" => cached = state

(* A tick runs in a serving process that believes it may poll. *)
TickInRunningProcess == pc # "idle" => proc = "up" /\ cached = "running"

(* Each 401 is on its way to the disk, on it, or was lost to a crash or fault. *)
Reported == IF pc \in {"mark_auth", "stick"} THEN 1 ELSE 0
Recorded == IF state = "auth_failed" THEN 1 ELSE 0
RejectionsAccounted == denied <= Reported + Recorded + crashes + faults

IInv == /\ TypeOK /\ BufPending /\ StoredKnown /\ PickedKnown
        /\ TickHoldsItsRow /\ DoneIffStored
        /\ CacheAgrees /\ TickInRunningProcess /\ RejectionsAccounted

-----------------------------------------------------------------------------
(* Facts about the table. *)

(* A function on the ids of a sequence is a sequence. *)
LEMMA SameIds ==
  ASSUME NEW S, NEW s \in Seq(S), NEW f,
         f = [i \in DOMAIN s |-> f[i]],
         \A i \in DOMAIN s : f[i] \in S
  PROVE  f \in Seq(S) /\ DOMAIN f = DOMAIN s /\ Len(f) = Len(s)
<1>1. DOMAIN s = 1..Len(s) /\ Len(s) \in Nat
  OBVIOUS
<1>2. f \in [1..Len(s) -> S]
  BY <1>1
<1> QED BY <1>1, <1>2

(* So is a sequence with one row replaced. *)
LEMMA OneRow ==
  ASSUME NEW S, NEW s \in Seq(S), NEW r \in DOMAIN s, NEW row \in S
  PROVE  /\ [s EXCEPT ![r] = row] \in Seq(S)
         /\ DOMAIN [s EXCEPT ![r] = row] = DOMAIN s
         /\ [s EXCEPT ![r] = row][r] = row
         /\ \A i \in DOMAIN s \ {r} : [s EXCEPT ![r] = row][i] = s[i]
  OBVIOUS

(* recover_in_flight touches no row but those in flight, and sends them back.  *)
LEMMA RecoverRows ==
  ASSUME runs \in Seq(Run)
  PROVE  /\ RecoverInFlight \in Seq(Run)
         /\ DOMAIN RecoverInFlight = Ids
         /\ \A r \in Ids : \/ RecoverInFlight[r] = runs[r]
                           \/ /\ runs[r].status = "in_flight"
                              /\ runs[r].age = "stale"
                              /\ RecoverInFlight[r].status = "pending"
                              /\ RecoverInFlight[r].completed = runs[r].completed
<1> DEFINE Back(row) == [row EXCEPT !.status = "pending", !.age = "null"]
<1>1. \A row \in Run : /\ Back(row) \in Run
                       /\ Back(row).status = "pending"
                       /\ Back(row).completed = row.completed
  BY DEF Run, Status, Age
<1>2. \A r \in Ids : /\ runs[r] \in Run
                     /\ \/ RecoverInFlight[r] = runs[r]
                        \/ /\ runs[r].status = "in_flight" /\ runs[r].age = "stale"
                           /\ RecoverInFlight[r] = Back(runs[r])
  BY DEF RecoverInFlight, Ids
<1> HIDE DEF Back
<1>3. \A r \in Ids : RecoverInFlight[r] \in Run
  BY <1>1, <1>2
<1>4. RecoverInFlight = [r \in DOMAIN runs |-> RecoverInFlight[r]]
  BY DEF RecoverInFlight, Ids
<1>5. RecoverInFlight \in Seq(Run) /\ DOMAIN RecoverInFlight = Ids
  BY <1>3, <1>4, SameIds DEF Ids
<1> QED BY <1>1, <1>2, <1>5

(* mark_done and mark_error touch one row. *)
LEMMA MarkedRows ==
  ASSUME runs \in Seq(Run), clock \in Nat, NEW r \in Ids
  PROVE  /\ MarkDone(r) \in Seq(Run) /\ MarkError(r) \in Seq(Run)
         /\ DOMAIN MarkDone(r) = Ids /\ DOMAIN MarkError(r) = Ids
         /\ MarkDone(r)[r].status = "done" /\ MarkError(r)[r].status = "error"
         /\ \A s \in Ids \ {r} : MarkDone(r)[s] = runs[s] /\ MarkError(r)[s] = runs[s]
<1>1. runs[r] \in Run
  BY DEF Ids
<1> DEFINE Done == [runs[r] EXCEPT !.status = "done", !.completed = clock]
           Error == [runs[r] EXCEPT !.status = "error", !.completed = clock]
<1>2. Done \in Run /\ Done.status = "done" /\ Error \in Run /\ Error.status = "error"
  BY <1>1 DEF Run, Status
<1>3. MarkDone(r) = [runs EXCEPT ![r] = Done] /\ MarkError(r) = [runs EXCEPT ![r] = Error]
  BY DEF MarkDone, MarkError
<1> HIDE DEF Done, Error
<1> QED BY <1>2, <1>3, OneRow DEF Ids

(* claim_next_pending touches one row, which was pending. *)
ClaimedRows(r) ==
  [runs EXCEPT ![r] = [@ EXCEPT !.status = "in_flight", !.age = "recent"]]

(* A claim leaves a table in which that row alone is another, and in flight.   *)
LEMMA ClaimRows ==
  ASSUME runs \in Seq(Run), NEW r \in Ids
  PROVE  /\ ClaimedRows(r) \in Seq(Run)
         /\ DOMAIN ClaimedRows(r) = Ids
         /\ ClaimedRows(r)[r].status = "in_flight"
         /\ \A s \in Ids \ {r} : ClaimedRows(r)[s] = runs[s]
<1>1. runs[r] \in Run
  BY DEF Ids
<1> DEFINE Taken == [runs[r] EXCEPT !.status = "in_flight", !.age = "recent"]
<1>2. Taken \in Run /\ Taken.status = "in_flight"
  BY <1>1 DEF Run, Status, Age
<1>3. ClaimedRows(r) = [runs EXCEPT ![r] = Taken]
  BY DEF ClaimedRows
<1> HIDE DEF Taken
<1> QED BY <1>2, <1>3, OneRow DEF Ids

(* Time moves started_at into the past and nothing else. *)
AgedRows == [r \in Ids |-> IF runs[r].status = "in_flight"
                             THEN [runs[r] EXCEPT !.age = "stale"]
                             ELSE runs[r]]

(* Time passing leaves a table with the statuses and completions it had.       *)
LEMMA ElapseRows ==
  ASSUME runs \in Seq(Run)
  PROVE  /\ AgedRows \in Seq(Run)
         /\ DOMAIN AgedRows = Ids
         /\ \A r \in Ids : /\ AgedRows[r].status = runs[r].status
                           /\ AgedRows[r].completed = runs[r].completed
<1> DEFINE Aged(row) == [row EXCEPT !.age = "stale"]
<1>1. \A row \in Run : /\ Aged(row) \in Run
                       /\ Aged(row).status = row.status
                       /\ Aged(row).completed = row.completed
  BY DEF Run, Age
<1>2. \A r \in Ids : /\ runs[r] \in Run
                     /\ AgedRows[r] = runs[r] \/ AgedRows[r] = Aged(runs[r])
  BY DEF AgedRows, Ids
<1> HIDE DEF Aged
<1>3. \A r \in Ids : AgedRows[r] \in Run
  BY <1>1, <1>2
<1>4. AgedRows = [r \in DOMAIN runs |-> AgedRows[r]]
  BY DEF AgedRows, Ids
<1>5. AgedRows \in Seq(Run) /\ DOMAIN AgedRows = Ids
  BY <1>3, <1>4, SameIds DEF Ids
<1> QED BY <1>1, <1>2, <1>5

(* An INSERT keeps the rows there are and adds pending ones. *)
LEMMA InsertRows ==
  ASSUME runs \in Seq(Run), NEW new \in Seq(Run),
         \A i \in DOMAIN new : new[i].status = "pending"
  PROVE  /\ runs \o new \in Seq(Run)
         /\ Ids \subseteq DOMAIN (runs \o new)
         /\ \A r \in Ids : (runs \o new)[r] = runs[r]
         /\ \A r \in DOMAIN (runs \o new) \ Ids : (runs \o new)[r].status = "pending"
<1>1. /\ runs \o new \in Seq(Run)
      /\ Len(runs \o new) = Len(runs) + Len(new)
      /\ \A i \in 1..(Len(runs) + Len(new)) :
           (runs \o new)[i] = IF i <= Len(runs) THEN runs[i] ELSE new[i - Len(runs)]
  BY ConcatProperties
<1>2. /\ Ids = 1..Len(runs) /\ Len(runs) \in Nat
      /\ DOMAIN new = 1..Len(new) /\ Len(new) \in Nat
      /\ DOMAIN (runs \o new) = 1..(Len(runs) + Len(new))
  BY <1>1 DEF Ids
<1> QED BY <1>1, <1>2

(* What the loop body of a route inserts: pending rows. *)
LEMMA RowsPending ==
  ASSUME NEW c \in Account, NEW kind \in Kind, NEW stamp \in Nat
  PROVE  NewRow(c, kind, stamp) \in Run /\ NewRow(c, kind, stamp).status = "pending"
  BY DEF NewRow, Run, Status, Age

(* What a request inserts for a card is rows of import_runs, all pending.      *)
LEMMA InsertedRows ==
  ASSUME NEW q \in Client, NEW c \in Account
  PROVE  /\ Inserted(q, c) \in Seq(Run)
         /\ \A i \in DOMAIN Inserted(q, c) : Inserted(q, c)[i].status = "pending"
<1>1. ASSUME NEW n \in Nat, NEW kind \in Kind
      PROVE  /\ NewRows(c, kind, 0, n) \in Seq(Run)
             /\ \A i \in DOMAIN NewRows(c, kind, 0, n) :
                  NewRows(c, kind, 0, n)[i].status = "pending"
  BY RowsPending DEF NewRows
<1>2. <<>> \in Seq(Run) /\ \A i \in DOMAIN <<>> : <<>>[i].status = "pending"
  OBVIOUS
<1> QED BY <1>1, <1>2, SchedulerAssumption DEF Inserted, Kind

(* Rows keep their status when the commit stamps them. *)
LEMMA StampedRows ==
  ASSUME clock \in Nat, NEW buf \in Seq(Run),
         \A i \in DOMAIN buf : buf[i].status = "pending"
  PROVE  /\ Stamped(buf) \in Seq(Run)
         /\ \A i \in DOMAIN Stamped(buf) : Stamped(buf)[i].status = "pending"
<1> DEFINE Stamp(row) == [row EXCEPT !.created = clock]
<1>1. \A row \in Run : Stamp(row) \in Run /\ Stamp(row).status = row.status
  BY DEF Run
<1>2. Stamped(buf) = [i \in DOMAIN buf |-> Stamp(buf[i])]
  BY DEF Stamped
<1> HIDE DEF Stamp
<1>3. \A i \in DOMAIN buf : buf[i] \in Run /\ Stamped(buf)[i] = Stamp(buf[i])
  BY <1>2
<1>4. Stamped(buf) \in Seq(Run) /\ DOMAIN Stamped(buf) = DOMAIN buf
  BY <1>1, <1>2, <1>3, SameIds
<1> QED BY <1>1, <1>3, <1>4

(* enqueue_live adds one pending row and changes no other.                     *)
LEMMA AppendRow ==
  ASSUME runs \in Seq(Run), NEW row \in Run, row.status = "pending"
  PROVE  /\ Append(runs, row) \in Seq(Run)
         /\ Ids \subseteq DOMAIN Append(runs, row)
         /\ \A r \in Ids : Append(runs, row)[r] = runs[r]
         /\ \A r \in DOMAIN Append(runs, row) \ Ids : Append(runs, row)[r].status = "pending"
  BY DEF Ids

-----------------------------------------------------------------------------
(* The inductive invariant. *)

(* The program starts with empty tables. *)
LEMMA InitIInv == Init => IInv
  BY SchedulerAssumption
  DEF Init, IInv, TypeOK, PC, Request, Op, NoRequest, NoId, BufPending, StoredKnown,
      PickedKnown, TickHoldsItsRow, HoldsRow, DoneIffStored, Ids, CacheAgrees,
      TickInRunningProcess, RejectionsAccounted, Reported, Recorded

(* The lifespan, crashes, time and the token. *)
LEMMA ProcessStep ==
  ASSUME IInv, Start \/ BootRecover \/ BootRead \/ Crash \/ Elapse \/ RevokeToken
               \/ RotateToken
  PROVE  IInv'
<1> USE SchedulerAssumption
<1> USE DEF IInv
<1>1. CASE Start
  BY <1>1 DEF Start, dbVars, tickVars, envVars, TypeOK, PC, BufPending, StoredKnown,
     PickedKnown, TickHoldsItsRow, DoneIffStored, Ids, CacheAgrees, TickInRunningProcess,
     RejectionsAccounted, Reported, Recorded
<1>2. CASE BootRecover
  <2>1. TypeOK' /\ BufPending' /\ StoredKnown' /\ PickedKnown'
    BY <1>2, RecoverRows DEF BootRecover, tickVars, envVars, TypeOK, BufPending,
       StoredKnown, PickedKnown, Ids
  <2>2. TickHoldsItsRow' /\ DoneIffStored'
    BY <1>2, RecoverRows DEF BootRecover, tickVars, envVars, TypeOK, TickHoldsItsRow,
       HoldsRow, DoneIffStored, Ids, TickInRunningProcess
  <2>3. CacheAgrees' /\ TickInRunningProcess' /\ RejectionsAccounted'
    BY <1>2 DEF BootRecover, tickVars, envVars, CacheAgrees, TickInRunningProcess,
       RejectionsAccounted, Reported, Recorded
  <2> QED BY <2>1, <2>2, <2>3
<1>3. CASE BootRead
  BY <1>3 DEF BootRead, dbVars, tickVars, envVars, TypeOK, PC, BufPending, StoredKnown,
     PickedKnown, TickHoldsItsRow, DoneIffStored, Ids, CacheAgrees, TickInRunningProcess,
     RejectionsAccounted, Reported, Recorded
<1>4. CASE Crash
  <2>1. NoRequest \in Request /\ NoRequest.buf = <<>>
    BY DEF NoRequest, Request, Op
  <2> QED
    BY <1>4, <2>1 DEF Crash, dbVars, TypeOK, PC, BufPending, StoredKnown, NoId,
       PickedKnown, TickHoldsItsRow, HoldsRow, DoneIffStored, Ids, CacheAgrees,
       TickInRunningProcess, RejectionsAccounted, Reported, Recorded
<1>5. CASE Elapse
  <2>0. runs' = AgedRows
    BY <1>5 DEF Elapse, AgedRows
  <2>1. TypeOK' /\ BufPending' /\ StoredKnown' /\ PickedKnown'
    BY <1>5, <2>0, ElapseRows DEF Elapse, tickVars, envVars, TypeOK, BufPending,
       StoredKnown, PickedKnown, Ids
  <2>2. TickHoldsItsRow' /\ DoneIffStored'
    BY <1>5, <2>0, ElapseRows DEF Elapse, tickVars, envVars, TypeOK, TickHoldsItsRow,
       DoneIffStored, Ids
  <2>3. CacheAgrees' /\ TickInRunningProcess' /\ RejectionsAccounted'
    BY <1>5 DEF Elapse, tickVars, envVars, CacheAgrees, TickInRunningProcess,
       RejectionsAccounted, Reported, Recorded
  <2> QED BY <2>1, <2>2, <2>3
<1>6. CASE RevokeToken \/ RotateToken
  BY <1>6 DEF RevokeToken, RotateToken, dbVars, tickVars, TypeOK, PC, BufPending,
     StoredKnown, PickedKnown, TickHoldsItsRow, DoneIffStored, Ids, CacheAgrees,
     TickInRunningProcess, RejectionsAccounted, Reported, Recorded
<1> QED BY <1>1, <1>2, <1>3, <1>4, <1>5, <1>6

(* The steps of a tick that leave import_runs alone. *)
LEMMA TickControlStep ==
  ASSUME IInv, TickStart \/ EnsureAccountsDiscovered \/ DiscoverAnswer \/ SaveAccounts
               \/ PickNextActiveCard \/ FetchAnswer \/ SetStateAuthFailed
  PROVE  IInv'
<1> USE SchedulerAssumption
<1> USE DEF IInv, dbVars, tickVars, envVars, TypeOK, PC, BufPending, StoredKnown,
     PickedKnown, TickHoldsItsRow, HoldsRow, DoneIffStored, Ids, CacheAgrees,
     TickInRunningProcess, RejectionsAccounted, Reported, Recorded
<1>1. CASE TickStart
  BY <1>1 DEF TickStart
<1>2. CASE EnsureAccountsDiscovered
  BY <1>2 DEF EnsureAccountsDiscovered
<1>3. CASE DiscoverAnswer
  BY <1>3 DEF DiscoverAnswer
<1>4. CASE SaveAccounts
  BY <1>4 DEF SaveAccounts
<1>5. CASE PickNextActiveCard
  <2>1. NextCard \subseteq Account
    BY DEF NextCard
  <2> QED BY <1>5, <2>1 DEF PickNextActiveCard
<1>6. CASE FetchAnswer
  BY <1>6 DEF FetchAnswer
<1>7. CASE SetStateAuthFailed
  BY <1>7 DEF SetStateAuthFailed
<1> QED BY <1>1, <1>2, <1>3, <1>4, <1>5, <1>6, <1>7

(* The steps of a tick that write import_runs. *)
LEMMA TickTableStep ==
  ASSUME IInv, TickSweep \/ ClaimNextPending \/ EnqueueLive \/ SaveStatement
               \/ MarkRunError
  PROVE  IInv'
<1> USE SchedulerAssumption
<1> USE DEF IInv, envVars
<1>1. CASE TickSweep
  <2>1. job = NoId /\ runs' = RecoverInFlight
    BY <1>1 DEF TickSweep, TickHoldsItsRow, HoldsRow
  <2>2. TypeOK' /\ BufPending' /\ StoredKnown' /\ PickedKnown'
    BY <1>1, RecoverRows DEF TickSweep, TypeOK, PC, BufPending, StoredKnown, PickedKnown, Ids
  <2>3. TickHoldsItsRow' /\ DoneIffStored'
    BY <1>1, <2>1, RecoverRows DEF TickSweep, TypeOK, TickHoldsItsRow, HoldsRow,
       DoneIffStored, Ids
  <2>4. CacheAgrees' /\ TickInRunningProcess' /\ RejectionsAccounted'
    BY <1>1 DEF TickSweep, CacheAgrees, TickInRunningProcess, RejectionsAccounted,
       Reported, Recorded
  <2> QED BY <2>2, <2>3, <2>4
<1>2. CASE ClaimNextPending
  <2>1. ASSUME NEW r \in OldestPending, runs' = ClaimedRows(r), job' = r, pc' = "fetch"
        PROVE  IInv'
    <3>1. r \in Ids /\ runs[r].status = "pending" /\ r \in Nat
      BY DEF OldestPending, Ids, TypeOK
    <3>0. /\ runs' \in Seq(Run) /\ DOMAIN runs' = Ids
          /\ runs'[r].status = "in_flight"
          /\ \A s \in Ids \ {r} : runs'[s] = runs[s]
      BY <2>1, <3>1, ClaimRows DEF TypeOK
    <3>2. TypeOK' /\ BufPending' /\ StoredKnown' /\ PickedKnown'
      BY <1>2, <2>1, <3>0, <3>1 DEF ClaimNextPending, TypeOK, PC, BufPending,
         StoredKnown, PickedKnown, Ids
    <3>3. TickHoldsItsRow' /\ DoneIffStored'
      <4>1. r # NoId
        BY <3>1 DEF Ids, NoId, TypeOK
      <4>2. TickHoldsItsRow'
        BY <2>1, <3>0, <3>1, <4>1 DEF TickHoldsItsRow, HoldsRow, Ids
      <4>3. DoneIffStored'
        BY <1>2, <3>0, <3>1 DEF ClaimNextPending, DoneIffStored, Ids
      <4> QED BY <4>2, <4>3
    <3>4. CacheAgrees' /\ TickInRunningProcess' /\ RejectionsAccounted'
      BY <1>2, <2>1 DEF ClaimNextPending, CacheAgrees, TickInRunningProcess,
         RejectionsAccounted, Reported, Recorded
    <3> QED BY <3>2, <3>3, <3>4
  <2>2. ASSUME pc' = "pick", UNCHANGED <<runs, job>> PROVE IInv'
    BY <1>2, <2>2 DEF ClaimNextPending, TypeOK, PC, BufPending, StoredKnown, PickedKnown,
       TickHoldsItsRow, HoldsRow, DoneIffStored, Ids, CacheAgrees, TickInRunningProcess,
       RejectionsAccounted, Reported, Recorded
  <2> QED BY <1>2, <2>1, <2>2 DEF ClaimNextPending, ClaimedRows
<1>3. CASE EnqueueLive
  <2> DEFINE row == NewRow(picked, "live", clock)
  <2>1. row \in Run /\ row.status = "pending"
    BY <1>3, RowsPending DEF EnqueueLive, PickedKnown, TypeOK, Kind
  <2> HIDE DEF row
  <2>2. \/ runs' = Append(runs, row) /\ clock' = clock + 1
        \/ UNCHANGED <<runs, clock>>
    BY <1>3 DEF EnqueueLive, row
  <2>3. job = NoId
    BY <1>3 DEF EnqueueLive, TickHoldsItsRow, HoldsRow
  <2>4. TypeOK' /\ BufPending' /\ StoredKnown' /\ PickedKnown'
    <3>1. /\ runs' \in Seq(Run) /\ Ids \subseteq DOMAIN runs'
          /\ clock' \in Nat \ {0}
      <4>1. runs \in Seq(Run) /\ clock \in Nat \ {0}
        BY DEF TypeOK
      <4>2. CASE runs' = Append(runs, row) /\ clock' = clock + 1
        BY ONLY <2>1, <4>1, <4>2, AppendRow DEF Ids
      <4>3. CASE UNCHANGED <<runs, clock>>
        BY ONLY <4>1, <4>3 DEF Ids
      <4> QED BY <2>2, <4>2, <4>3
    <3>2. TypeOK'
      BY <1>3, <3>1 DEF EnqueueLive, TypeOK, PC
    <3> QED BY <1>3, <3>1, <3>2 DEF EnqueueLive, BufPending, StoredKnown, PickedKnown, Ids
  <2>5. TickHoldsItsRow' /\ DoneIffStored'
    BY <1>3, <2>1, <2>2, <2>3, AppendRow DEF EnqueueLive, TypeOK, TickHoldsItsRow,
       HoldsRow, StoredKnown, DoneIffStored, Ids
  <2>6. CacheAgrees' /\ TickInRunningProcess' /\ RejectionsAccounted'
    BY <1>3 DEF EnqueueLive, CacheAgrees, TickInRunningProcess, RejectionsAccounted,
       Reported, Recorded
  <2> QED BY <2>4, <2>5, <2>6
<1>4. CASE SaveStatement
  <2>1. job \in Ids /\ runs[job].status = "in_flight" /\ job \in Nat
    BY <1>4 DEF SaveStatement, TickHoldsItsRow, HoldsRow, TypeOK
  <2>2. runs' \in Seq(Run) /\ DOMAIN runs' = Ids
    BY <1>4, <2>1, MarkedRows DEF SaveStatement, TypeOK
  <2>3. TypeOK'
    BY <1>4, <2>1, <2>2 DEF SaveStatement, TypeOK, PC, NoId
  <2>4. BufPending' /\ StoredKnown' /\ PickedKnown'
    BY <1>4, <2>1, <2>2 DEF SaveStatement, BufPending, StoredKnown, PickedKnown, Ids
  <2>5. TickHoldsItsRow' /\ DoneIffStored'
    BY <1>4, <2>1, MarkedRows DEF SaveStatement, TypeOK, TickHoldsItsRow, HoldsRow,
       DoneIffStored, Ids
  <2>6. CacheAgrees' /\ TickInRunningProcess' /\ RejectionsAccounted'
    BY <1>4 DEF SaveStatement, CacheAgrees, TickInRunningProcess, RejectionsAccounted,
       Reported, Recorded
  <2> QED BY <2>3, <2>4, <2>5, <2>6
<1>5. CASE MarkRunError
  <2>1. job \in Ids /\ runs[job].status = "in_flight" /\ job \in Nat
    BY <1>5 DEF MarkRunError, TickHoldsItsRow, HoldsRow, TypeOK
  <2>2. runs' \in Seq(Run) /\ DOMAIN runs' = Ids
    BY <1>5, <2>1, MarkedRows DEF MarkRunError, TypeOK
  <2>3. TypeOK'
    BY <1>5, <2>1, <2>2 DEF MarkRunError, TypeOK, PC, NoId
  <2>4. BufPending' /\ StoredKnown' /\ PickedKnown'
    BY <1>5, <2>1, <2>2 DEF MarkRunError, BufPending, StoredKnown, PickedKnown, Ids
  <2>5. TickHoldsItsRow' /\ DoneIffStored'
    BY <1>5, <2>1, MarkedRows DEF MarkRunError, TypeOK, TickHoldsItsRow, HoldsRow,
       DoneIffStored, Ids
  <2>6. CacheAgrees' /\ TickInRunningProcess' /\ RejectionsAccounted'
    BY <1>5 DEF MarkRunError, CacheAgrees, TickInRunningProcess, RejectionsAccounted,
       Reported, Recorded
  <2> QED BY <2>3, <2>4, <2>5, <2>6
<1> QED BY <1>1, <1>2, <1>3, <1>4, <1>5

(* A failed transaction of the tick. *)
LEMMA FaultStep == ASSUME IInv, TickFault PROVE IInv'
<1>1. pc' \in PC /\ pc' \in {"discover", "mark_error", "idle"}
  BY DEF TickFault, AfterFault, PC
<1>2. pc' = "mark_error" => pc = "save"
  BY DEF TickFault, AfterFault
<1>3. pc' = "discover" => pc = "sweep"
  BY DEF TickFault, AfterFault
<1>4. pc # "idle"
  BY DEF TickFault, AfterFault
<1> QED
  BY <1>1, <1>2, <1>3, <1>4, SchedulerAssumption
  DEF TickFault, IInv, dbVars, TypeOK, BufPending, StoredKnown, PickedKnown, NoId,
      TickHoldsItsRow, HoldsRow, DoneIffStored, Ids, CacheAgrees, TickInRunningProcess,
      RejectionsAccounted, Reported, Recorded

(* The routes. *)
LEMMA RequestStep == ASSUME IInv, Requests PROVE IInv'
<1> USE SchedulerAssumption
<1> USE DEF IInv, tickVars, envVars
<1>0. NoRequest \in Request /\ NoRequest.buf = <<>>
  BY DEF NoRequest, Request, Op
<1>1. ASSUME NEW q \in Client, NEW op \in Op, NEW cards \in SUBSET Account,
             BeginRequest(q, op, cards)
      PROVE  IInv'
  <2> DEFINE new == [op |-> op, todo |-> cards, buf |-> <<>>]
  <2>1. new \in Request /\ new.buf = <<>>
    BY DEF Request
  <2>2. req' = [req EXCEPT ![q] = new]
    BY <1>1 DEF BeginRequest
  <2> HIDE DEF new
  <2> QED BY <1>1, <2>1, <2>2 DEF BeginRequest, dbVars, TypeOK, BufPending, StoredKnown,
     PickedKnown, TickHoldsItsRow, DoneIffStored, Ids, CacheAgrees, TickInRunningProcess,
     RejectionsAccounted, Reported, Recorded
<1>2. ASSUME NEW q \in Client, PostImport(q) \/ PostBackfill(q) PROVE IInv'
  BY <1>1, <1>2 DEF PostImport, PostBackfill, Op, TypeOK
<1>3. ASSUME NEW q \in Client, EnqueueForCard(q) PROVE IInv'
  <2>1. PICK c \in req[q].todo :
          req' = [req EXCEPT ![q] = [op |-> @.op, todo |-> @.todo \ {c},
                                     buf |-> @.buf \o Inserted(q, c)]]
    BY <1>3 DEF EnqueueForCard
  <2>2. req[q] \in Request /\ c \in Account
    BY DEF TypeOK, Request
  <2>3. /\ req[q].buf \in Seq(Run)
        /\ \A i \in DOMAIN req[q].buf : req[q].buf[i].status = "pending"
    BY <2>2 DEF Request, BufPending
  <2> DEFINE buf == req[q].buf \o Inserted(q, c)
             new == [op |-> req[q].op, todo |-> req[q].todo \ {c}, buf |-> buf]
  <2>4. buf \in Seq(Run) /\ \A i \in DOMAIN buf : buf[i].status = "pending"
    <3>1. /\ Inserted(q, c) \in Seq(Run)
          /\ \A i \in DOMAIN Inserted(q, c) : Inserted(q, c)[i].status = "pending"
      BY <2>2, InsertedRows
    <3> QED BY <2>3, <3>1, ConcatProperties
  <2>5. new \in Request /\ new.buf = buf
    BY <2>2, <2>4 DEF Request
  <2>6. req' = [req EXCEPT ![q] = new]
    BY <2>1
  <2> HIDE DEF new, buf
  <2>7. TypeOK' /\ BufPending' /\ StoredKnown' /\ PickedKnown'
    BY <1>3, <2>4, <2>5, <2>6 DEF EnqueueForCard, dbVars, TypeOK, BufPending,
       StoredKnown, PickedKnown, Ids
  <2>8. /\ TickHoldsItsRow' /\ DoneIffStored' /\ CacheAgrees'
        /\ TickInRunningProcess' /\ RejectionsAccounted'
    BY <1>3 DEF EnqueueForCard, dbVars, TickHoldsItsRow, HoldsRow, DoneIffStored, Ids,
       CacheAgrees, TickInRunningProcess, RejectionsAccounted, Reported, Recorded
  <2> QED BY <2>7, <2>8
<1>4. ASSUME NEW q \in Client, CommitRequest(q) PROVE IInv'
  <2>1. /\ req[q].buf \in Seq(Run)
        /\ \A i \in DOMAIN req[q].buf : req[q].buf[i].status = "pending"
    BY DEF TypeOK, Request, BufPending
  <2> DEFINE new == Stamped(req[q].buf)
  <2>2. /\ new \in Seq(Run) /\ \A i \in DOMAIN new : new[i].status = "pending"
    BY <2>1, StampedRows DEF TypeOK
  <2>3. runs' = runs \o new
    BY <1>4 DEF CommitRequest
  <2> HIDE DEF new
  <2>4. /\ runs' \in Seq(Run) /\ Ids \subseteq DOMAIN runs'
        /\ \A r \in Ids : runs'[r] = runs[r]
        /\ \A r \in DOMAIN runs' \ Ids : runs'[r].status = "pending"
    BY <2>2, <2>3, InsertRows DEF TypeOK
  <2>5. TypeOK' /\ BufPending' /\ StoredKnown' /\ PickedKnown'
    BY <1>0, <1>4, <2>4 DEF CommitRequest, TypeOK, BufPending, StoredKnown, PickedKnown, Ids
  <2>6. TickHoldsItsRow' /\ DoneIffStored'
    BY <1>4, <2>4 DEF CommitRequest, TypeOK, TickHoldsItsRow, StoredKnown, DoneIffStored, Ids
  <2>7. CacheAgrees' /\ TickInRunningProcess' /\ RejectionsAccounted'
    BY <1>4 DEF CommitRequest, CacheAgrees, TickInRunningProcess, RejectionsAccounted,
       Reported, Recorded
  <2> QED BY <2>5, <2>6, <2>7
<1>5. ASSUME NEW q \in Client, AbortRequest(q) PROVE IInv'
  BY <1>0, <1>5 DEF AbortRequest, dbVars, TypeOK, BufPending, StoredKnown,
     PickedKnown, TickHoldsItsRow, DoneIffStored, Ids, CacheAgrees, TickInRunningProcess,
     RejectionsAccounted, Reported, Recorded
<1> QED BY <1>2, <1>3, <1>4, <1>5 DEF Requests

(* A step that changes nothing preserves the invariant. *)
LEMMA StutterStep == ASSUME IInv, UNCHANGED vars PROVE IInv'
  BY DEF vars, IInv, TypeOK, BufPending, StoredKnown, PickedKnown, TickHoldsItsRow,
     DoneIffStored, Ids, CacheAgrees, TickInRunningProcess, RejectionsAccounted, Reported,
     Recorded

(* The invariant is inductive. *)
LEMMA StepIInv == IInv /\ [Next]_vars => IInv'
  BY ProcessStep, TickControlStep, TickTableStep, FaultStep, RequestStep, StutterStep
  DEF Next, Tick

-----------------------------------------------------------------------------
(* What the steps do to the rows of import_runs.                               *)

SameRow(a, b) == a.account = b.account /\ a.kind = b.kind /\ a.created = b.created

(* Rows are never deleted and never change hands; only a saved statement makes *)
(* one done; a new one is pending.                                             *)
RowsKept ==
  /\ \A r \in Ids : /\ r \in DOMAIN runs' /\ SameRow(runs'[r], runs[r])
                    /\ runs'[r].status = "done" /\ runs[r].status # "done"
                         => SaveStatement /\ r = job
  /\ \A r \in DOMAIN runs' \ Ids : runs'[r].status = "pending"

(* The updates keep the rows apart from status, age and completed_at.          *)
LEMMA UpdatesKeep ==
  ASSUME runs \in Seq(Run), clock \in Nat
  PROVE  /\ \A r \in Ids : /\ SameRow(RecoverInFlight[r], runs[r])
                           /\ RecoverInFlight[r].status = "done" => runs[r].status = "done"
                           /\ SameRow(AgedRows[r], runs[r])
         /\ \A j \in Ids : \A r \in Ids :
              /\ SameRow(MarkDone(j)[r], runs[r]) /\ SameRow(MarkError(j)[r], runs[r])
              /\ SameRow(ClaimedRows(j)[r], runs[r])
<1> DEFINE Back(row)    == [row EXCEPT !.status = "pending", !.age = "null"]
           Aged(row)    == [row EXCEPT !.age = "stale"]
           Taken(row)   == [row EXCEPT !.status = "in_flight", !.age = "recent"]
           Ended(row)   == [row EXCEPT !.status = "done", !.completed = clock]
           Erred(row)   == [row EXCEPT !.status = "error", !.completed = clock]
<1>1. \A r \in Ids : runs[r] \in Run  BY DEF Ids
<1>2. \A row \in Run :
        /\ SameRow(Back(row), row) /\ Back(row).status = "pending"
        /\ SameRow(Aged(row), row) /\ SameRow(Taken(row), row)
        /\ SameRow(Ended(row), row) /\ SameRow(Erred(row), row) /\ SameRow(row, row)
  BY DEF SameRow, Run
<1>3. \A r \in Ids :
        /\ RecoverInFlight[r] = runs[r] \/ RecoverInFlight[r] = Back(runs[r])
        /\ AgedRows[r] = runs[r] \/ AgedRows[r] = Aged(runs[r])
  BY DEF RecoverInFlight, AgedRows
<1>4. \A j, r \in Ids :
        /\ MarkDone(j)[r] = IF r = j THEN Ended(runs[r]) ELSE runs[r]
        /\ MarkError(j)[r] = IF r = j THEN Erred(runs[r]) ELSE runs[r]
        /\ ClaimedRows(j)[r] = IF r = j THEN Taken(runs[r]) ELSE runs[r]
  BY DEF MarkDone, MarkError, ClaimedRows, Ids
<1> HIDE DEF Back, Aged, Taken, Ended, Erred
<1>5. \A r \in Ids : /\ SameRow(RecoverInFlight[r], runs[r])
                     /\ RecoverInFlight[r].status = "done" => runs[r].status = "done"
                     /\ SameRow(AgedRows[r], runs[r])
  BY <1>1, <1>2, <1>3
<1>6. \A j, r \in Ids :
        /\ SameRow(MarkDone(j)[r], runs[r]) /\ SameRow(MarkError(j)[r], runs[r])
        /\ SameRow(ClaimedRows(j)[r], runs[r])
  BY <1>1, <1>2, <1>4
<1> QED  BY <1>5, <1>6

(* Every step of Scheduler keeps them.                                         *)
LEMMA SchedulerKeeps ==
  ASSUME IInv, [Next]_vars PROVE RowsKept
<1>0. runs \in Seq(Run) /\ clock \in Nat /\ \A r \in Ids : SameRow(runs[r], runs[r])
  BY DEF IInv, TypeOK, SameRow
<1>1. CASE UNCHANGED runs  BY <1>0, <1>1 DEF RowsKept, Ids
<1>2. CASE Elapse
  <2>1. runs' = AgedRows  BY <1>2 DEF Elapse, AgedRows
  <2> QED  BY <1>0, <2>1, UpdatesKeep, ElapseRows DEF RowsKept
<1>3. CASE BootRecover \/ TickSweep
  <2>1. runs' = RecoverInFlight  BY <1>3 DEF BootRecover, TickSweep
  <2> QED  BY <1>0, <2>1, UpdatesKeep, RecoverRows DEF RowsKept
<1>4. CASE ClaimNextPending /\ runs' # runs
  <2>1. PICK r \in Ids : runs' = ClaimedRows(r)
    BY <1>4 DEF ClaimNextPending, ClaimedRows, OldestPending
  <2> QED  BY <1>0, <2>1, UpdatesKeep, ClaimRows DEF RowsKept
<1>5. CASE EnqueueLive /\ runs' # runs
  <2>1. /\ runs' = Append(runs, NewRow(picked, "live", clock))
        /\ picked \in Account
    BY <1>5 DEF EnqueueLive, IInv, PickedKnown
  <2>2. NewRow(picked, "live", clock) \in Run /\ NewRow(picked, "live", clock).status = "pending"
    BY <1>0, <2>1, RowsPending DEF Kind
  <2> QED  BY <1>0, <2>1, <2>2, AppendRow DEF RowsKept
<1>6. ASSUME NEW q \in Client, CommitRequest(q) PROVE RowsKept
  <2> DEFINE new == Stamped(req[q].buf)
  <2>1. /\ req[q].buf \in Seq(Run)
        /\ \A i \in DOMAIN req[q].buf : req[q].buf[i].status = "pending"
    BY DEF IInv, TypeOK, Request, BufPending
  <2>2. new \in Seq(Run) /\ \A i \in DOMAIN new : new[i].status = "pending"
    BY <1>0, <2>1, StampedRows
  <2>3. runs' = runs \o new  BY <1>6 DEF CommitRequest
  <2> HIDE DEF new
  <2> QED  BY <1>0, <2>2, <2>3, InsertRows DEF RowsKept
<1>7. CASE SaveStatement \/ MarkRunError
  <2>1. job \in Ids  BY <1>7 DEF SaveStatement, MarkRunError, IInv, TickHoldsItsRow, HoldsRow
  <2>2. (runs' = MarkDone(job) /\ SaveStatement) \/ runs' = MarkError(job)
    BY <1>7 DEF SaveStatement, MarkRunError
  <2> QED  BY <1>0, <2>1, <2>2, UpdatesKeep, MarkedRows DEF RowsKept
<1> QED
  BY <1>1, <1>2, <1>3, <1>4, <1>5, <1>6, <1>7
  DEF Next, vars, dbVars, Tick, TickFault, Requests, Start, BootRead, Crash, RevokeToken,
      RotateToken, TickStart, EnsureAccountsDiscovered, DiscoverAnswer, SaveAccounts,
      PickNextActiveCard, FetchAnswer, SetStateAuthFailed, PostImport, PostBackfill,
      BeginRequest, EnqueueForCard, AbortRequest

-----------------------------------------------------------------------------
(* The inductive invariant holds throughout. *)
THEOREM Invariance == Spec => []IInv
  BY InitIInv, StepIInv, PTL DEF Spec

(* Type correctness of the tables and of every task's locals. *)
THEOREM TypeCorrect == Spec => []TypeOK
  BY Invariance, PTL DEF IInv

(* The row a tick claimed stays in_flight until that tick ends it.             *)
THEOREM TickAlwaysHoldsItsRow == Spec => []TickHoldsItsRow
  BY Invariance, PTL DEF IInv

(* A run is done exactly when its statement is stored, whatever crashes.       *)
THEOREM DoneAlwaysStored == Spec => []DoneIffStored
  BY Invariance, PTL DEF IInv

(* No step of a tick happens once auth_failed is on disk, across restarts.     *)
THEOREM NoTickAfterAuthFailed == Spec => []TickOnlyWhileRunning
<1>1. IInv => TickOnlyWhileRunning
  BY DEF IInv, CacheAgrees, TickInRunningProcess, TickOnlyWhileRunning
<1> QED BY <1>1, Invariance, PTL

(* The bank rejects the token at most once, plus once per crash and per fault. *)
THEOREM RejectionsAlwaysBounded == Spec => []RejectionsBounded
<1>1. IInv => RejectionsBounded
  <2> SUFFICES ASSUME IInv PROVE RejectionsBounded
    OBVIOUS
  <2>1. Reported + Recorded <= 1 /\ Reported \in Nat /\ Recorded \in Nat
    \* a tick on its way to the disk runs in a process that is not stuck yet
    BY DEF IInv, CacheAgrees, TickInRunningProcess, Reported, Recorded
  <2> QED BY <2>1 DEF IInv, TypeOK, RejectionsAccounted, RejectionsBounded
<1> QED BY <1>1, Invariance, PTL
-----------------------------------------------------------------------------
(* The times of a row tell the same as its status.                             *)

(* Rows as they are inserted, and rows of the table when the clock shows t.     *)
Fresh == {row \in Run : row.status = "pending" /\ row.age = "null" /\ row.completed = 0}
Told(t) == {row \in Run : /\ row.age = "null" <=> row.status = "pending"
                          /\ row.completed = 0 <=> row.status \in {"pending", "in_flight"}
                          /\ row.created < t
                          /\ row.completed # 0 => row.created < row.completed}

StampInv == /\ runs \in Seq(Told(clock))
            /\ \A q \in Client : req[q].buf \in Seq(Fresh)

(* What time proves once it proves for good.                                   *)
LEMMA ToldLater ==
  ASSUME NEW t \in Nat, NEW u \in Nat, t <= u, NEW table \in Seq(Told(t))
  PROVE  table \in Seq(Told(u))
<1>1. Told(t) \subseteq Told(u)  BY DEF Told, Run
<1>2. table \in [1..Len(table) -> Told(t)] /\ Len(table) \in Nat  OBVIOUS
<1>3. table \in [1..Len(table) -> Told(u)]
  <2> HIDE DEF Told
  <2> QED  BY <1>1, <1>2
<1> QED  BY <1>2, <1>3

(* A new row, and a row of a request once the commit has stamped it.           *)
LEMMA FreshRow ==
  ASSUME NEW c \in Account, NEW kind \in Kind, NEW stamp \in Nat
  PROVE  NewRow(c, kind, stamp) \in Fresh /\ NewRow(c, kind, stamp).created = stamp
  BY DEF NewRow, Fresh, Run, Status, Age
LEMMA StampedRow ==
  ASSUME NEW t \in Nat, NEW row \in Fresh
  PROVE  [row EXCEPT !.created = t] \in Told(t + 1)
<1> DEFINE new == [row EXCEPT !.created = t]
<1>1. /\ new \in Run /\ new.status = "pending" /\ new.age = "null"
      /\ new.completed = 0 /\ new.created = t
  BY DEF Fresh, Run
<1> HIDE DEF new
<1>2. new \in Told(t + 1)  BY <1>1 DEF Told
<1> QED  BY <1>2 DEF new

(* What the updates make of a row.                                             *)
LEMMA ToldUpdates ==
  ASSUME NEW t \in Nat \ {0}, NEW row \in Told(t)
  PROVE  /\ row.status = "in_flight" =>
              /\ [row EXCEPT !.status = "pending", !.age = "null"] \in Told(t)
              /\ [row EXCEPT !.age = "stale"] \in Told(t)
              /\ [row EXCEPT !.status = "done", !.completed = t] \in Told(t + 1)
              /\ [row EXCEPT !.status = "error", !.completed = t] \in Told(t + 1)
         /\ row.status = "pending" =>
              [row EXCEPT !.status = "in_flight", !.age = "recent"] \in Told(t)
<1>0. row \in Run  BY DEF Told
<1>1. ASSUME row.status = "in_flight"
      PROVE  [row EXCEPT !.status = "pending", !.age = "null"] \in Told(t)
  <2> DEFINE new == [row EXCEPT !.status = "pending", !.age = "null"]
  <2>1. /\ new \in Run /\ new.status = "pending" /\ new.age = "null"
        /\ new.completed = row.completed /\ new.created = row.created
    BY <1>0 DEF Run, Status, Age
  <2> HIDE DEF new
  <2>2. new \in Told(t)  BY <1>1, <2>1 DEF Told
  <2> QED  BY <2>2 DEF new
<1>2. ASSUME row.status = "in_flight" PROVE [row EXCEPT !.age = "stale"] \in Told(t)
  <2> DEFINE new == [row EXCEPT !.age = "stale"]
  <2>1. /\ new \in Run /\ new.status = row.status /\ new.age = "stale"
        /\ new.completed = row.completed /\ new.created = row.created
    BY <1>0 DEF Run, Age
  <2> HIDE DEF new
  <2>2. new \in Told(t)  BY <1>2, <2>1 DEF Told
  <2> QED  BY <2>2 DEF new
<1>3. ASSUME row.status = "in_flight", NEW end \in {"done", "error"}
      PROVE  [row EXCEPT !.status = end, !.completed = t] \in Told(t + 1)
  <2> DEFINE new == [row EXCEPT !.status = end, !.completed = t]
  <2>1. /\ new \in Run /\ new.status = end /\ new.age = row.age
        /\ new.completed = t /\ new.created = row.created
    BY <1>0 DEF Run, Status
  <2>2. row.created \in Nat /\ row.created < t /\ row.age # "null"
    BY <1>0, <1>3 DEF Told, Run
  <2> HIDE DEF new
  <2>3. new \in Told(t + 1)  BY <1>3, <2>1, <2>2 DEF Told
  <2> QED  BY <2>3 DEF new
<1>4. ASSUME row.status = "pending"
      PROVE  [row EXCEPT !.status = "in_flight", !.age = "recent"] \in Told(t)
  <2> DEFINE new == [row EXCEPT !.status = "in_flight", !.age = "recent"]
  <2>1. /\ new \in Run /\ new.status = "in_flight" /\ new.age = "recent"
        /\ new.completed = row.completed /\ new.created = row.created
    BY <1>0 DEF Run, Status, Age
  <2> HIDE DEF new
  <2>2. new \in Told(t)  BY <1>4, <2>1 DEF Told
  <2> QED  BY <2>2 DEF new
<1> QED  BY <1>1, <1>2, <1>3, <1>4

(* The rows in the table after a step.                                         *)
LEMMA StampTable ==
  ASSUME IInv, StampInv, [Next]_vars
  PROVE  runs' \in Seq(Told(clock'))
<1> USE SchedulerAssumption
<1>0. /\ runs \in Seq(Run) /\ runs \in Seq(Told(clock)) /\ clock \in Nat \ {0}
      /\ Ids = DOMAIN runs /\ \A r \in Ids : runs[r] \in Told(clock)
  BY DEF IInv, TypeOK, StampInv, Ids
<1>1. ASSUME runs' = runs, clock' = clock PROVE runs' \in Seq(Told(clock'))
  BY <1>0, <1>1
<1>2. ASSUME runs' = RecoverInFlight, clock' = clock PROVE runs' \in Seq(Told(clock'))
  <2>1. \A r \in Ids : RecoverInFlight[r] \in Told(clock)
    BY <1>0, ToldUpdates DEF RecoverInFlight
  <2>2. RecoverInFlight = [r \in DOMAIN runs |-> RecoverInFlight[r]]
    BY DEF RecoverInFlight, Ids
  <2> QED  BY <1>0, <1>2, <2>1, <2>2, SameIds
<1>3. ASSUME Elapse PROVE runs' \in Seq(Told(clock'))
  <2>1. \A r \in Ids : AgedRows[r] \in Told(clock)
    BY <1>0, ToldUpdates DEF AgedRows
  <2>2. AgedRows = [r \in DOMAIN runs |-> AgedRows[r]]
    BY DEF AgedRows, Ids
  <2>3. runs' = AgedRows /\ clock' = clock  BY <1>3 DEF Elapse, AgedRows
  <2> QED  BY <1>0, <2>1, <2>2, <2>3, SameIds
<1>4. ASSUME ClaimNextPending PROVE runs' \in Seq(Told(clock'))
  <2>1. ASSUME NEW r \in OldestPending, runs' = ClaimedRows(r)
        PROVE  runs' \in Seq(Told(clock))
    <3> DEFINE new == [runs[r] EXCEPT !.status = "in_flight", !.age = "recent"]
    <3>1. r \in Ids /\ new \in Told(clock)
      BY <1>0, <2>1, ToldUpdates DEF OldestPending
    <3>2. runs' = [runs EXCEPT ![r] = new]  BY <2>1 DEF ClaimedRows
    <3> HIDE DEF new
    <3> QED  BY <1>0, <3>1, <3>2, OneRow
  <2> QED  BY <1>0, <1>4, <2>1 DEF ClaimNextPending, ClaimedRows
<1>5. ASSUME SaveStatement \/ MarkRunError PROVE runs' \in Seq(Told(clock'))
  <2>1. /\ job \in Ids /\ runs[job].status = "in_flight" /\ clock' = clock + 1
        /\ runs' \in {MarkDone(job), MarkError(job)}
    BY <1>5 DEF SaveStatement, MarkRunError, IInv, TickHoldsItsRow, HoldsRow
  <2>2. PICK end \in {"done", "error"} :
          runs' = [runs EXCEPT ![job] = [runs[job] EXCEPT !.status = end, !.completed = clock]]
    BY <2>1 DEF MarkDone, MarkError
  <2> DEFINE new == [runs[job] EXCEPT !.status = end, !.completed = clock]
  <2>3. new \in Told(clock + 1)
    BY <1>0, <2>1, ToldUpdates
  <2>4. runs \in Seq(Told(clock + 1))
    BY <1>0, ToldLater
  <2> HIDE DEF new
  <2>5. [runs EXCEPT ![job] = new] \in Seq(Told(clock + 1))
    BY <1>0, <2>1, <2>3, <2>4, OneRow
  <2> QED  BY <2>1, <2>2, <2>5 DEF new
<1>6. ASSUME EnqueueLive PROVE runs' \in Seq(Told(clock'))
  <2> DEFINE row == NewRow(picked, "live", clock)
  <2>1. row \in Fresh /\ row.created = clock
    BY <1>0, <1>6, FreshRow DEF EnqueueLive, IInv, PickedKnown, Kind
  <2>2. row \in Told(clock + 1)
    <3> HIDE DEF row
    <3> QED  BY <1>0, <2>1 DEF Fresh, Told
  <2>3. runs \in Seq(Told(clock + 1))
    BY <1>0, ToldLater
  <2> HIDE DEF row
  <2>4. Append(runs, row) \in Seq(Told(clock + 1))
    BY <2>2, <2>3
  <2> QED  BY <1>0, <1>6, <2>4 DEF EnqueueLive, row
<1>7. ASSUME NEW q \in Client, CommitRequest(q) PROVE runs' \in Seq(Told(clock'))
  <2> DEFINE buf == req[q].buf
             new == Stamped(buf)
  <2>1. buf \in Seq(Fresh)  BY DEF StampInv
  <2>2. runs' = runs \o new /\ clock' = IF buf = <<>> THEN clock ELSE clock + 1
    BY <1>7 DEF CommitRequest
  <2>3. CASE buf = <<>>
    <3>1. new = <<>>  BY <2>3 DEF Stamped
    <3> HIDE DEF buf, new
    <3> QED  BY <1>0, <2>2, <2>3, <3>1
  <2>4. CASE buf # <<>>
    <3> HIDE DEF buf
    <3>1. new = [i \in DOMAIN buf |-> [buf[i] EXCEPT !.created = clock]]
      BY DEF Stamped
    <3>2. \A i \in DOMAIN buf : [buf[i] EXCEPT !.created = clock] \in Told(clock + 1)
      BY <1>0, <2>1, StampedRow
    <3> HIDE DEF new
    <3>3. \A i \in DOMAIN buf : new[i] \in Told(clock + 1)
      BY <3>1, <3>2
    <3>4. new = [i \in DOMAIN buf |-> new[i]]
      BY <3>1
    <3>5. new \in Seq(Told(clock + 1))
      BY <2>1, <3>3, <3>4, SameIds
    <3>6. runs \in Seq(Told(clock + 1))
      BY <1>0, ToldLater
    <3>7. runs \o new \in Seq(Told(clock + 1))
      BY <3>5, <3>6, ConcatProperties
    <3> QED  BY <2>2, <2>4, <3>7
  <2> QED  BY <2>3, <2>4
<1>8. CASE Start \/ BootRead \/ RevokeToken \/ RotateToken \/ TickStart \/ Crash \/ TickFault
           \/ EnsureAccountsDiscovered \/ DiscoverAnswer \/ SaveAccounts
           \/ PickNextActiveCard \/ FetchAnswer \/ SetStateAuthFailed \/ UNCHANGED vars
  BY <1>1, <1>8 DEF Start, BootRead, RevokeToken, RotateToken, TickStart, Crash, TickFault,
     EnsureAccountsDiscovered, DiscoverAnswer, SaveAccounts, PickNextActiveCard,
     FetchAnswer, SetStateAuthFailed, vars, dbVars
<1>9. ASSUME NEW q \in Client,
             PostImport(q) \/ PostBackfill(q) \/ EnqueueForCard(q) \/ AbortRequest(q)
      PROVE  runs' \in Seq(Told(clock'))
  BY <1>1, <1>9 DEF PostImport, PostBackfill, BeginRequest, EnqueueForCard, AbortRequest, dbVars
<1>10. CASE BootRecover \/ TickSweep
  BY <1>2, <1>10 DEF BootRecover, TickSweep
<1> QED  BY <1>3, <1>4, <1>5, <1>6, <1>7, <1>8, <1>9, <1>10 DEF Next, Tick, Requests

(* A request that has not begun has inserted nothing.                          *)
LEMMA NothingInserted ==
  /\ NoRequest.buf \in Seq(Fresh)
  /\ \A op, cards : [op |-> op, todo |-> cards, buf |-> <<>>].buf \in Seq(Fresh)
<1>1. ASSUME NEW S PROVE <<>> \in Seq(S)
  OBVIOUS
<1>2. <<>> \in Seq(Fresh)
  BY <1>1
<1> QED  BY <1>2 DEF NoRequest

(* The rows a request has yet to commit after a step.                          *)
LEMMA StampBuffers ==
  ASSUME IInv, StampInv, [Next]_vars
  PROVE  \A q \in Client : req'[q].buf \in Seq(Fresh)
<1> USE SchedulerAssumption
<1>0. \A q \in Client : req[q] \in Request /\ req[q].buf \in Seq(Fresh)
  BY DEF IInv, TypeOK, StampInv
<1>1. CASE req' = req
  BY <1>0, <1>1
<1>2. ASSUME Crash PROVE \A q \in Client : req'[q].buf \in Seq(Fresh)
  BY <1>2, NothingInserted DEF Crash
<1>3. ASSUME NEW q \in Client, NEW new, req' = [req EXCEPT ![q] = new], new.buf \in Seq(Fresh)
      PROVE  \A p \in Client : req'[p].buf \in Seq(Fresh)
  BY <1>0, <1>3 DEF IInv, TypeOK
<1>4. ASSUME NEW q \in Client, NEW op \in Op, NEW cards, BeginRequest(q, op, cards)
      PROVE  \A p \in Client : req'[p].buf \in Seq(Fresh)
  BY <1>3, <1>4, NothingInserted DEF BeginRequest
<1>5. ASSUME NEW q \in Client, EnqueueForCard(q)
      PROVE  \A p \in Client : req'[p].buf \in Seq(Fresh)
  <2>1. PICK c \in req[q].todo :
          req' = [req EXCEPT ![q] = [op |-> @.op, todo |-> @.todo \ {c},
                                     buf |-> @.buf \o Inserted(q, c)]]
    BY <1>5 DEF EnqueueForCard
  <2>2. c \in Account  BY <1>0 DEF Request
  <2>3. ASSUME NEW n \in Nat, NEW kind \in Kind PROVE NewRows(c, kind, 0, n) \in Seq(Fresh)
    BY <2>2, FreshRow DEF NewRows
  <2>4. Inserted(q, c) \in Seq(Fresh)
    BY <2>3 DEF Inserted, Kind
  <2>5. req[q].buf \o Inserted(q, c) \in Seq(Fresh)
    BY <1>0, <2>4, ConcatProperties
  <2> DEFINE new == [op |-> req[q].op, todo |-> req[q].todo \ {c},
                     buf |-> req[q].buf \o Inserted(q, c)]
  <2>6. new.buf \in Seq(Fresh) /\ req' = [req EXCEPT ![q] = new]
    BY <2>1, <2>5 DEF IInv, TypeOK
  <2> HIDE DEF new
  <2> QED  BY <1>3, <2>6
<1>6. ASSUME NEW q \in Client, CommitRequest(q) \/ AbortRequest(q)
      PROVE  \A p \in Client : req'[p].buf \in Seq(Fresh)
  BY <1>3, <1>6, NothingInserted DEF CommitRequest, AbortRequest
<1>7. ASSUME NEW q \in Client, PostImport(q) \/ PostBackfill(q)
      PROVE  \A p \in Client : req'[p].buf \in Seq(Fresh)
  BY <1>4, <1>7 DEF PostImport, PostBackfill, Op
<1>8. ASSUME \/ Start \/ BootRecover \/ BootRead \/ Elapse \/ RevokeToken \/ RotateToken
             \/ TickStart \/ Tick \/ TickFault \/ UNCHANGED vars
      PROVE  req' = req
  BY <1>8 DEF Start, BootRecover, BootRead, Elapse, RevokeToken, RotateToken, TickStart,
     Tick, TickSweep, EnsureAccountsDiscovered, DiscoverAnswer, SaveAccounts,
     ClaimNextPending, PickNextActiveCard, EnqueueLive, FetchAnswer, SaveStatement,
     MarkRunError, SetStateAuthFailed, TickFault, vars
<1> QED  BY <1>1, <1>2, <1>5, <1>6, <1>7, <1>8 DEF Next, Requests

(* started_at and completed_at say what the status says, whatever is claimed,   *)
(* swept, lost or failed: an orphan has a started_at that the sweep compares.  *)
THEOREM StampsAlwaysAgree == Spec => []StampsAgree
<1>1. Init => StampInv
  <2>1. ASSUME NEW S PROVE <<>> \in Seq(S)
    OBVIOUS
  <2>2. <<>> \in Seq(Told(clock))
    BY <2>1
  <2> QED  BY <2>2, NothingInserted DEF Init, StampInv
<1>2. IInv /\ StampInv /\ [Next]_vars => StampInv'
  BY StampTable, StampBuffers DEF StampInv
<1>3. StampInv => StampsAgree
  <2> SUFFICES ASSUME StampInv, NEW r \in Ids
               PROVE  /\ runs[r].age = "null" <=> runs[r].status = "pending"
                      /\ runs[r].completed = 0 <=> Active(runs[r])
                      /\ Terminal(runs[r]) => runs[r].created < runs[r].completed
    BY DEF StampsAgree
  <2>1. runs[r] \in Told(clock)  BY DEF StampInv, Ids
  <2> QED  BY <2>1 DEF Told, Active, Terminal
<1> QED  BY <1>1, <1>2, <1>3, Invariance, PTL DEF Spec
=============================================================================
