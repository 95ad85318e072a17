------------------------ MODULE SchedulerQueueProofs ------------------------
(***************************************************************************)
(* Scheduler implements JobQueue, a finished run stays finished, and what the *)
(* status route tells the user of both goes forward only.  These follow from *)
(* one lemma, TableStep: whatever the step, import_runs changes in one of    *)
(* six ways.  The bounds on what a card can have waiting follow from another, *)
(* TallyStep, on the runs of one kind that a card has and the requests that  *)
(* may still commit some.                                                    *)
(***************************************************************************)
EXTENDS SchedulerProofs, ImportStatus, Extrema

Claimable(r) == r \in Ids /\ runs[r].status = "pending"

(* Nothing a queue could see. *)
Same == /\ DOMAIN runs' = Ids
        /\ \A r \in Ids : /\ runs'[r].status = runs[r].status
                          /\ runs'[r].completed = runs[r].completed
        /\ job' = job

(* The tick is gone, its row stays behind. *)
Drops == runs' = runs /\ job' = NoId

(* A sweep, while no row is held. *)
Sweeps == runs' = RecoverInFlight /\ job = NoId /\ job' = NoId

Claims(r) == /\ Claimable(r) /\ job = NoId
             /\ runs' = ClaimedRows(r) /\ job' = r

Inserts == /\ Ids \subseteq DOMAIN runs'
           /\ DOMAIN runs' \subseteq 1..MaxRuns
           /\ \A r \in Ids : runs'[r] = runs[r]
           /\ \A r \in DOMAIN runs' \ Ids : runs'[r].status = "pending"
           /\ job' = job

Finishes == /\ job \in Ids /\ runs[job].status = "in_flight"
            /\ runs' \in {MarkDone(job), MarkError(job)}
            /\ job' = NoId

(* The bound on the table. *)
RunsBounded == Ids \subseteq 1..MaxRuns

(* Every step does one of six things to the table and the row the tick holds.  *)
LEMMA TableStep ==
  ASSUME IInv, RunsBounded, [Next]_vars
  PROVE  Same \/ Drops \/ Sweeps \/ (\E r \in Ids : Claims(r)) \/ Inserts \/ Finishes
<1> USE SchedulerAssumption
<1>a. pc \notin HoldsRow => job = NoId
  BY DEF IInv, TickHoldsItsRow
<1>b. pc \in HoldsRow => job \in Ids /\ runs[job].status = "in_flight"
  BY DEF IInv, TickHoldsItsRow
<1>1. CASE Start \/ BootRead \/ RevokeToken \/ RotateToken \/ TickStart
           \/ EnsureAccountsDiscovered \/ DiscoverAnswer \/ SaveAccounts
           \/ PickNextActiveCard \/ FetchAnswer \/ SetStateAuthFailed
           \/ UNCHANGED vars
  <2>1. runs' = runs /\ job' = job
    BY <1>1 DEF Start, BootRead, RevokeToken, RotateToken, TickStart,
       EnsureAccountsDiscovered, DiscoverAnswer, SaveAccounts, PickNextActiveCard,
       FetchAnswer, SetStateAuthFailed, vars, dbVars, tickVars
  <2> QED BY <2>1 DEF Same, Ids
<1>2. CASE Crash \/ TickFault
  <2>1. runs' = runs /\ (job' = job \/ job' = NoId)
    BY <1>2 DEF Crash, TickFault, dbVars
  <2> QED BY <2>1 DEF Same, Drops, Ids
<1>3. CASE Elapse
  <2>1. runs' = AgedRows /\ job' = job
    BY <1>3 DEF Elapse, AgedRows, tickVars
  <2> QED BY <2>1, ElapseRows DEF Same, IInv, TypeOK
<1>4. CASE BootRecover \/ TickSweep
  <2>1. pc \notin HoldsRow
    BY <1>4 DEF BootRecover, TickSweep, IInv, TickInRunningProcess, HoldsRow
  <2> QED BY <1>4, <1>a, <2>1 DEF BootRecover, TickSweep, tickVars, Sweeps
<1>5. CASE ClaimNextPending
  <2>1. job = NoId
    BY <1>5, <1>a DEF ClaimNextPending, HoldsRow
  <2>2. ASSUME NEW r \in OldestPending, runs' = ClaimedRows(r), job' = r
        PROVE  \E s \in Ids : Claims(s)
    BY <2>1, <2>2 DEF Claims, Claimable, OldestPending
  <2>3. ASSUME runs' = runs, job' = job PROVE Same
    BY <2>3 DEF Same, Ids
  <2> QED BY <1>5, <2>2, <2>3 DEF ClaimNextPending, ClaimedRows
<1>6. CASE EnqueueLive
  <2> DEFINE row == NewRow(picked, "live", clock)
  <2>1. row \in Run /\ row.status = "pending" /\ runs \in Seq(Run)
    BY <1>6, RowsPending DEF EnqueueLive, IInv, PickedKnown, TypeOK, Kind
  <2> HIDE DEF row
  <2>2. ASSUME Len(runs) < MaxRuns, runs' = Append(runs, row) PROVE Inserts
    <3>1. DOMAIN runs' \subseteq 1..MaxRuns
      BY <2>1, <2>2
    <3> QED BY <1>6, <2>1, <2>2, <3>1, AppendRow DEF Inserts, EnqueueLive
  <2>3. ASSUME runs' = runs PROVE Same
    BY <1>6, <2>3 DEF Same, Ids, EnqueueLive
  <2> QED BY <1>6, <2>2, <2>3 DEF EnqueueLive, row
<1>7. CASE SaveStatement \/ MarkRunError
  BY <1>7, <1>b DEF SaveStatement, MarkRunError, HoldsRow, Finishes
<1>8. CASE Requests
  <2>1. PICK q \in Client : \/ PostImport(q) \/ PostBackfill(q) \/ EnqueueForCard(q)
                            \/ CommitRequest(q) \/ AbortRequest(q)
    BY <1>8 DEF Requests
  <2>2. CASE ~CommitRequest(q)
    <3>1. runs' = runs /\ job' = job
      BY <2>1, <2>2 DEF PostImport, PostBackfill, BeginRequest, EnqueueForCard,
         AbortRequest, dbVars, tickVars
    <3> QED BY <3>1 DEF Same, Ids
  <2>3. CASE CommitRequest(q)
    <3> DEFINE new == Stamped(req[q].buf)
    <3>1. /\ runs \in Seq(Run) /\ clock \in Nat /\ req[q].buf \in Seq(Run)
          /\ \A i \in DOMAIN req[q].buf : req[q].buf[i].status = "pending"
      BY DEF IInv, TypeOK, Request, BufPending
    <3>2. /\ new \in Seq(Run) /\ \A i \in DOMAIN new : new[i].status = "pending"
          /\ Len(new) = Len(req[q].buf)
      <4>1. DOMAIN new = DOMAIN req[q].buf
        BY DEF Stamped
      <4> HIDE DEF new
      <4>2. new \in Seq(Run) /\ \A i \in DOMAIN new : new[i].status = "pending"
        BY <3>1, StampedRows DEF new
      <4> QED BY <3>1, <4>1, <4>2
    <3>3. runs' = runs \o new /\ Len(runs) + Len(new) <= MaxRuns /\ job' = job
      BY <2>3, <3>2 DEF CommitRequest, tickVars
    <3> HIDE DEF new
    <3>4. DOMAIN runs' \subseteq 1..MaxRuns
      <4>1. runs' \in Seq(Run) /\ Len(runs') = Len(runs) + Len(new)
        BY <3>1, <3>2, <3>3, ConcatProperties
      <4> QED BY <3>3, <4>1
    <3> QED BY <3>1, <3>2, <3>3, <3>4, InsertRows DEF Inserts
  <2> QED BY <2>2, <2>3
<1> QED BY <1>1, <1>2, <1>3, <1>4, <1>5, <1>6, <1>7, <1>8 DEF Next, Tick

(* No step inserts beyond MaxRuns. *)
LEMMA RunsBoundedStep ==
  ASSUME IInv, RunsBounded, [Next]_vars PROVE RunsBounded'
<1>0. runs \in Seq(Run) /\ clock \in Nat
  BY DEF IInv, TypeOK
<1>1. DOMAIN runs' = Ids \/ DOMAIN runs' \subseteq 1..MaxRuns
  BY <1>0, TableStep, RecoverRows, ClaimRows, MarkedRows
  DEF Same, Drops, Sweeps, Claims, Inserts, Finishes, Ids
<1> QED BY <1>1 DEF RunsBounded, Ids

(* The table never has more than MaxRuns rows, as the actions that insert say. *)
THEOREM BoundedTable == Spec => [](IInv /\ RunsBounded)
<1>1. Init => RunsBounded
  BY DEF Init, RunsBounded, Ids
<1> QED BY <1>1, InitIInv, StepIInv, RunsBoundedStep, PTL DEF Spec

(* What is done or in error stays as it is.                                    *)
TerminalKept == \A r \in Ids : Terminal(runs[r]) =>
                  /\ r \in DOMAIN runs'
                  /\ runs'[r].status = runs[r].status
                  /\ runs'[r].completed = runs[r].completed

(* Every step keeps it.                                                        *)
LEMMA TerminalStep == ASSUME IInv, RunsBounded, [Next]_vars PROVE TerminalKept
<1>0. runs \in Seq(Run) /\ clock \in Nat
  BY DEF IInv, TypeOK
<1>1. CASE Same \/ Drops \/ Inserts
  BY <1>1 DEF Same, Drops, Inserts, Ids, TerminalKept
<1>2. CASE Sweeps
  BY <1>0, <1>2, RecoverRows DEF Sweeps, Terminal, TerminalKept
<1>3. ASSUME NEW r \in Ids, Claims(r) PROVE TerminalKept
  BY <1>0, <1>3, ClaimRows DEF Claims, Claimable, Terminal, TerminalKept
<1>4. CASE Finishes
  BY <1>0, <1>4, MarkedRows DEF Finishes, Terminal, TerminalKept
<1> QED BY <1>1, <1>2, <1>3, <1>4, TableStep

(* A run that is done or in error keeps status and completed_at for good.      *)
THEOREM TerminalAlwaysFinal == Spec => TerminalIsFinal
<1>1. IInv /\ RunsBounded /\ [Next]_vars => [TerminalKept]_vars
  BY TerminalStep
<1>2. TerminalKept => \A r \in Ids : Terminal(runs[r]) =>
                  /\ r \in DOMAIN runs'
                  /\ runs'[r].status = runs[r].status
                  /\ runs'[r].completed = runs[r].completed
  BY DEF TerminalKept
<1> QED BY <1>1, <1>2, BoundedTable, PTL DEF Spec, TerminalIsFinal, TerminalKept

(* The import_runs table is an at-least-once queue with a single worker.       *)
THEOREM QueueImplemented == Spec => ImplementsQueue
<1>1. Init => Queue!Init
  BY DEF Init, Queue!Init, Waiting, Current, Abandoned, Finished, Ids, NoId
<1>2. ASSUME IInv, RunsBounded, [Next]_vars PROVE [Queue!Next]_(Queue!vars)
  <2>0. runs \in Seq(Run) /\ clock \in Nat /\ job \in Nat
    BY <1>2 DEF IInv, TypeOK
  <2>a. \A r \in Ids : r # NoId
    BY <1>2, SchedulerAssumption DEF RunsBounded, NoId
  <2>b. job # NoId => job \in Ids /\ runs[job].status = "in_flight"
    BY <1>2 DEF IInv, TickHoldsItsRow
  <2>1. CASE Same
    <3>1. UNCHANGED <<Waiting, Current, Abandoned, Finished>>
      BY <2>1 DEF Same, Waiting, Current, Abandoned, Finished, Terminal, Ids
    <3> QED BY <3>1 DEF Queue!vars
  <2>2. CASE Drops /\ job # NoId
    <3>1. Current = {job} /\ Current' = {} /\ UNCHANGED <<Waiting, Finished>>
      BY <2>2 DEF Drops, Waiting, Current, Finished, Terminal, Ids
    <3>2. Abandoned' = Abandoned \cup Current
      BY <2>2, <2>b, <3>1 DEF Drops, Abandoned, Ids
    <3> QED BY <3>1, <3>2 DEF Queue!Abandon, Queue!Next
  <2>3. CASE Sweeps
    <3> DEFINE back == {r \in Ids : RecoverInFlight[r] # runs[r]}
    <3>1. /\ DOMAIN runs' = Ids /\ job = NoId /\ job' = NoId
          /\ \A r \in Ids : r \notin back => runs'[r] = runs[r]
          /\ \A r \in back : runs[r].status = "in_flight" /\ runs'[r].status = "pending"
      BY <2>0, <2>3, RecoverRows DEF Sweeps
    <3> HIDE DEF back
    <3>2. back \subseteq Ids
      BY DEF back
    <3>3. back \in SUBSET Abandoned /\ UNCHANGED <<Current, Finished>>
      BY <3>1, <3>2 DEF Abandoned, Current, Finished, Terminal, Ids
    <3>4. Waiting' = Waiting \cup back /\ Abandoned' = Abandoned \ back
      BY <3>1, <3>2 DEF Waiting, Abandoned, Current, Ids
    <3>5. CASE back = {}
      BY <3>3, <3>4, <3>5 DEF Queue!vars
    <3>6. CASE back # {}
      BY <3>3, <3>4, <3>6 DEF Queue!Requeue, Queue!Next
    <3> QED BY <3>5, <3>6
  <2>4. ASSUME NEW r \in Ids, Claims(r) PROVE Queue!Take
    <3>1. /\ DOMAIN runs' = Ids /\ runs'[r].status = "in_flight"
          /\ \A s \in Ids \ {r} : runs'[s] = runs[s]
          /\ runs[r].status = "pending" /\ job = NoId /\ job' = r
      BY <2>0, <2>4, ClaimRows DEF Claims, Claimable
    <3>2. r \in Waiting /\ Current = {} /\ Current' = {r}
      BY <2>a, <3>1 DEF Waiting, Current
    <3>3. Waiting' = Waiting \ {r} /\ UNCHANGED <<Abandoned, Finished>>
      BY <3>1, <3>2 DEF Waiting, Abandoned, Finished, Terminal, Ids
    <3> QED BY <3>2, <3>3 DEF Queue!Take
  <2>5. CASE Inserts
    <3> DEFINE new == DOMAIN runs' \ Ids
    <3>1. UNCHANGED <<Current, Abandoned, Finished>> /\ Waiting' = Waiting \cup new
      BY <2>5 DEF Inserts, Waiting, Current, Abandoned, Finished, Terminal, Ids
    <3>2. new \in SUBSET (1..MaxRuns \ Queue!Submitted)
      <4>1. Queue!Submitted \subseteq Ids
        BY <2>b DEF Queue!Submitted, Waiting, Current, Abandoned, Finished
      <4> QED BY <2>5, <4>1 DEF Inserts
    <3>3. CASE new = {}
      BY <3>1, <3>3 DEF Queue!vars
    <3>4. CASE new # {}
      BY <3>1, <3>2, <3>4 DEF Queue!Submit, Queue!Next
    <3> QED BY <3>3, <3>4
  <2>6. CASE Finishes
    <3>1. /\ DOMAIN runs' = Ids /\ runs'[job].status \in {"done", "error"}
          /\ \A s \in Ids \ {job} : runs'[s] = runs[s]
          /\ job \in Ids /\ runs[job].status = "in_flight" /\ job' = NoId
      BY <2>0, <2>6, MarkedRows DEF Finishes
    <3>2. Current = {job} /\ Current' = {}
      BY <2>a, <3>1 DEF Current
    <3>3. Finished' = Finished \cup Current /\ UNCHANGED <<Waiting, Abandoned>>
      BY <3>1, <3>2 DEF Waiting, Abandoned, Finished, Terminal, Ids
    <3> QED BY <3>2, <3>3 DEF Queue!Finish, Queue!Next
  <2>7. CASE Drops /\ job = NoId
    BY <2>7 DEF Drops, Waiting, Current, Abandoned, Finished, Terminal, Ids, Queue!vars
  <2> QED BY <1>2, <2>1, <2>2, <2>3, <2>4, <2>5, <2>6, <2>7, TableStep DEF Queue!Next
<1> QED BY <1>1, <1>2, BoundedTable, PTL DEF Spec, ImplementsQueue, Queue!Spec

-----------------------------------------------------------------------------
(* GET /api/import/status.                                                     *)

(* import_runs is finite, now and after a step. *)
LEMMA FiniteTable == ASSUME NEW table \in Seq(Run) PROVE IsFiniteSet(DOMAIN table)
<1>1. DOMAIN table = 1..Len(table) /\ Len(table) \in Int /\ 1 \in Int
  OBVIOUS
<1> QED  BY <1>1, FS_Interval

(* What last_polled_at ranges over. *)
EndedPolls(c) == {r \in LiveRuns(c) : Terminal(runs[r])}

(* completed_at is a time. *)
LEMMA CompletedIsTime ==
  ASSUME runs \in Seq(Run), NEW r \in Ids PROVE runs[r].completed \in Nat
<1>1. runs[r] \in Run  BY DEF Ids
<1> QED  BY <1>1 DEF Run

(* Among the completed polls of a card one is the latest.                      *)
LEMMA LatestExists ==
  ASSUME runs \in Seq(Run), NEW c, EndedPolls(c) # {}
  PROVE  LastPoll(c) # {}
<1> DEFINE E == EndedPolls(c)
           At(r) == runs[r].completed
           After(r) == {s \in E : At(r) < At(s)}
           F == {After(r) : r \in E}
<1>1. E \subseteq Ids /\ IsFiniteSet(E)
  BY FiniteTable, FS_Subset DEF EndedPolls, LiveRuns, Ids
<1>2. \A r \in E : At(r) \in Nat
  BY <1>1, CompletedIsTime
<1>3. F \in SUBSET (SUBSET E) /\ F # {}
  OBVIOUS
<1>4. LastPoll(c) = {r \in E : \A s \in E : At(s) <= At(r)}
  BY DEF LastPoll, EndedPolls
<1> HIDE DEF E, At
<1>5. \E A \in F : \A B \in F : ~(B \subseteq A /\ B # A)
  <2> HIDE DEF F
  <2> QED  BY <1>1, <1>3, MinimalPart
<1> HIDE DEF After
<1>6. PICK r \in E : \A s \in E : ~(After(s) \subseteq After(r) /\ After(s) # After(r))
  <2>1. PICK A \in F : \A B \in F : ~(B \subseteq A /\ B # A)  BY <1>5
  <2>2. PICK r \in E : A = After(r)  OBVIOUS
  <2>3. \A s \in E : After(s) \in F  OBVIOUS
  <2>4. \A s \in E : ~(After(s) \subseteq After(r) /\ After(s) # After(r))
    BY <2>1, <2>2, <2>3
  <2> QED  BY <2>2, <2>4
<1>7. ASSUME NEW s \in E, ~(At(s) <= At(r)) PROVE FALSE
  <2>1. s \in After(r) /\ s \notin After(s) /\ After(s) \subseteq After(r)
    BY <1>2, <1>6, <1>7 DEF After
  <2> QED  BY <1>6, <2>1
<1> QED  BY <1>4, <1>6, <1>7

(* The answer is the greatest completed_at of them, or NULL.                   *)
IsLatest(c) == /\ EndedPolls(c) = {} => LastPolledAt(c) = NoPoll
               /\ EndedPolls(c) # {} =>
                    \E r \in EndedPolls(c) : LastPolledAt(c) = runs[r].completed
               /\ \A s \in EndedPolls(c) : runs[s].completed <= LastPolledAt(c)
AnswersLatest == \A c \in Account : IsLatest(c)

(* The route's query computes it.                                              *)
LEMMA LatestValue == ASSUME runs \in Seq(Run), NEW c PROVE IsLatest(c)
<1>1. CASE EndedPolls(c) = {}
  BY <1>1 DEF LastPolledAt, LastPoll, EndedPolls, IsLatest
<1>2. CASE EndedPolls(c) # {}
  <2>1. LastPoll(c) # {}  BY <1>2, LatestExists
  <2> DEFINE r == CHOOSE x \in LastPoll(c) : TRUE
  <2>2. r \in LastPoll(c)  BY <2>1
  <2>3. LastPolledAt(c) = runs[r].completed  BY <2>1 DEF LastPolledAt
  <2> HIDE DEF r
  <2>4. r \in EndedPolls(c) /\ \A s \in EndedPolls(c) : runs[s].completed <= runs[r].completed
    BY <2>2 DEF LastPoll, EndedPolls
  <2> QED  BY <1>2, <2>3, <2>4 DEF IsLatest
<1> QED  BY <1>1, <1>2

(* A card is never forgotten: upsert_many adds accounts and removes none.      *)
LEMMA AccountsStay == ASSUME [Next]_vars PROVE accounts \subseteq accounts'
  BY DEF Next, vars, dbVars, Tick, TickFault, Requests, Start, BootRecover, BootRead, Crash,
     Elapse, RevokeToken, RotateToken, TickStart, TickSweep, EnsureAccountsDiscovered,
     DiscoverAnswer, SaveAccounts, ClaimNextPending, PickNextActiveCard, EnqueueLive,
     FetchAnswer, SaveStatement, MarkRunError, SetStateAuthFailed, PostImport, PostBackfill,
     BeginRequest, EnqueueForCard, CommitRequest, AbortRequest

(* A step leaves the latest completed poll where it was, or finds a later one. *)
LEMMA LastPollStep ==
  ASSUME runs \in Seq(Run), runs' \in Seq(Run), TerminalKept, RowsKept,
         AnswersLatest, AnswersLatest', NEW c \in Account
  PROVE  LastPolledAt(c) <= LastPolledAt(c)'
<1>1. ASSUME NEW r \in EndedPolls(c)
      PROVE  r \in EndedPolls(c)' /\ runs'[r].completed = runs[r].completed
  BY <1>1 DEF EndedPolls, LiveRuns, TerminalKept, RowsKept, SameRow, Terminal, Ids
<1>2. /\ EndedPolls(c)' = {} => LastPolledAt(c)' = NoPoll
      /\ EndedPolls(c)' # {} =>
           \E r \in EndedPolls(c)' : LastPolledAt(c)' = runs'[r].completed
      /\ \A s \in EndedPolls(c)' : runs'[s].completed <= LastPolledAt(c)'
  BY DEF AnswersLatest, IsLatest
<1>3. CASE EndedPolls(c) = {}
  <2>1. LastPolledAt(c) = NoPoll  BY <1>3 DEF AnswersLatest, IsLatest
  <2>2. LastPolledAt(c)' \in Nat
    <3>1. CASE EndedPolls(c)' = {}  BY <1>2, <3>1 DEF NoPoll
    <3>2. ASSUME NEW r \in EndedPolls(c)', LastPolledAt(c)' = runs'[r].completed
          PROVE  LastPolledAt(c)' \in Nat
      <4>1. r \in DOMAIN runs' /\ runs'[r] \in Run
        BY DEF EndedPolls, LiveRuns, Ids
      <4> QED  BY <3>2, <4>1 DEF Run
    <3> QED  BY <1>2, <3>1, <3>2
  <2> QED  BY <2>1, <2>2 DEF NoPoll
<1>4. CASE EndedPolls(c) # {}
  <2>1. PICK r \in EndedPolls(c) : LastPolledAt(c) = runs[r].completed
    BY <1>4 DEF AnswersLatest, IsLatest
  <2> QED  BY <1>1, <1>2, <2>1
<1> QED  BY <1>3, <1>4

(* The arithmetic of the counts below. *)
LEMMA Counting ==
  ASSUME NEW n \in Nat, NEW m \in Nat, NEW t \in Nat, NEW u \in Nat
  PROVE  /\ m <= n + (u - t) /\ m > 0 /\ ~(n > 0) => t < u
         /\ \A k : u = t + n - k /\ k = 0 => u = t + n
  OBVIOUS

(* Backfill rows that remain become more by new rows only.                     *)
LEMMA BackfillCounts ==
  ASSUME runs \in Seq(Run), runs' \in Seq(Run), TerminalKept, RowsKept,
         accounts \subseteq accounts'
  PROVE  /\ RunsRemaining' <= RunsRemaining + (RunsTotal' - RunsTotal)
         /\ RunsRemaining \in Nat /\ RunsRemaining' \in Nat
         /\ RunsTotal \in Nat /\ RunsTotal' \in Nat
<1> DEFINE B == BackfillRows
           A == {r \in BackfillRows : Active(runs[r])}
           new == B' \ B
<1>1. IsFiniteSet(B) /\ IsFiniteSet(B')
  <2>1. IsFiniteSet(DOMAIN runs) /\ IsFiniteSet(DOMAIN runs')
    BY FiniteTable
  <2>2. B \subseteq DOMAIN runs /\ B' \subseteq DOMAIN runs'
    BY DEF BackfillRows, Ids
  <2> QED  BY <2>1, <2>2, FS_Subset
<1>2. B \subseteq B'
  BY DEF BackfillRows, RowsKept, SameRow, Ids
<1>3. A \subseteq B /\ A' \subseteq B'
  OBVIOUS
<1>4. A' \subseteq A \cup new
  <2>1. ASSUME NEW r \in A', r \in B PROVE r \in A
    <3>1. r \in Ids /\ runs[r] \in Run /\ Active(runs'[r])
      BY <2>1 DEF BackfillRows, Ids
    <3>2. ~Terminal(runs[r])
      BY <3>1 DEF TerminalKept, Terminal, Active
    <3>3. runs[r].status \in Status  BY <3>1 DEF Run
    <3> QED  BY <2>1, <3>2, <3>3 DEF Active, Terminal, Status
  <2> QED  BY <2>1
<1>5. RunsTotal = Cardinality(B) /\ RunsTotal' = Cardinality(B')
  BY DEF RunsTotal
<1>6. RunsRemaining = Cardinality(A) /\ RunsRemaining' = Cardinality(A')
  BY DEF RunsRemaining
<1> HIDE DEF A, B
<1>a. B' \ B = new  OBVIOUS
<1>7. IsFiniteSet(A) /\ IsFiniteSet(A') /\ IsFiniteSet(new)
  BY <1>1, <1>3, FS_Subset
<1>8. /\ Cardinality(A) \in Nat /\ Cardinality(A') \in Nat
      /\ Cardinality(B) \in Nat /\ Cardinality(B') \in Nat /\ Cardinality(new) \in Nat
  BY <1>1, <1>7, FS_CardinalityType
<1>9. Cardinality(B') = Cardinality(B) + Cardinality(new)
  <2>1. B \cup new = B' /\ B \cap new = {}  BY <1>2
  <2>2. Cardinality(B \cup new) = Cardinality(B) + Cardinality(new) - Cardinality(B \cap new)
    BY <1>1, <1>7, FS_Union
  <2>3. Cardinality(B \cap new) = 0
    BY <2>1, FS_EmptySet
  <2>4. Cardinality(B \cup new) = Cardinality(B')
    BY <2>1
  <2>5. Cardinality(B') = Cardinality(B) + Cardinality(new) - Cardinality(B \cap new)
    BY <2>2, <2>4
  <2> HIDE DEF new
  <2> QED  BY <1>8, <2>3, <2>5, Counting
<1>10. Cardinality(A') <= Cardinality(A) + Cardinality(new)
  <2>1. IsFiniteSet(A \cup new) /\ Cardinality(A') <= Cardinality(A \cup new)
    BY <1>4, <1>7, FS_Union, FS_Subset
  <2>2. /\ Cardinality(A \cup new) =
             Cardinality(A) + Cardinality(new) - Cardinality(A \cap new)
        /\ Cardinality(A \cap new) \in Nat
    BY <1>7, FS_Union, FS_Intersection, FS_CardinalityType
  <2> QED  BY <1>8, <2>1, <2>2
<1> QED  BY <1>5, <1>6, <1>8, <1>9, <1>10

(* What the status route answers of a card's last poll never goes back.        *)
THEOREM LastPollOnlyAdvances == Spec => LastPollNeverGoesBack
<1> DEFINE Kept == \A c \in Account : LastPolledAt(c) <= LastPolledAt(c)'
<1>1. IInv => AnswersLatest
  BY LatestValue DEF IInv, TypeOK, AnswersLatest
<1>2. ASSUME IInv, RunsBounded, [Next]_vars, AnswersLatest, AnswersLatest', NEW c \in Account
      PROVE  LastPolledAt(c) <= LastPolledAt(c)'
  <2>1. runs \in Seq(Run) /\ runs' \in Seq(Run)
    BY <1>2, StepIInv DEF IInv, TypeOK
  <2>2. TerminalKept /\ RowsKept
    BY <1>2, TerminalStep, SchedulerKeeps
  <2> QED  BY <1>2, <2>1, <2>2, LastPollStep
<1>3. IInv /\ RunsBounded /\ AnswersLatest /\ AnswersLatest' /\ [Next]_vars => [Kept]_vars
  BY <1>2
<1> QED  BY <1>1, <1>3, BoundedTable, PTL DEF Spec, LastPollNeverGoesBack

(* No restart, sweep or poll makes the backfill the user watches go back.      *)
THEOREM BackfillNeverGoesBack == Spec => BackfillOnlyProgresses
<1> DEFINE Kept ==
      /\ RunsRemaining' <= RunsRemaining + (RunsTotal' - RunsTotal)
      /\ BackfillState = "idle" /\ BackfillState' = "running" => RunsTotal < RunsTotal'
<1>1. ASSUME IInv, RunsBounded, [Next]_vars PROVE Kept
  <2>1. runs \in Seq(Run) /\ runs' \in Seq(Run)
    BY <1>1, StepIInv DEF IInv, TypeOK
  <2>2. TerminalKept /\ RowsKept /\ accounts \subseteq accounts'
    BY <1>1, TerminalStep, SchedulerKeeps, AccountsStay
  <2>3. /\ RunsRemaining' <= RunsRemaining + (RunsTotal' - RunsTotal)
        /\ RunsRemaining \in Nat /\ RunsRemaining' \in Nat
        /\ RunsTotal \in Nat /\ RunsTotal' \in Nat
    BY <2>1, <2>2, BackfillCounts
  <2>4. BackfillState = "idle" => ~(RunsRemaining > 0)
    BY DEF BackfillState
  <2>5. BackfillState' = "running" => RunsRemaining' > 0
    BY DEF BackfillState
  <2>6. RunsRemaining' > 0 /\ ~(RunsRemaining > 0) => RunsTotal < RunsTotal'
    BY <2>3, Counting
  <2> QED  BY <2>3, <2>4, <2>5, <2>6
<1>2. IInv /\ RunsBounded /\ [Next]_vars => [Kept]_vars
  BY <1>1
<1> QED  BY <1>2, BoundedTable, PTL DEF Spec, BackfillOnlyProgresses
-----------------------------------------------------------------------------
(* How many runs a card can have waiting: what the guards of BL-01 and WR-04   *)
(* leave to requests that overlap, and to crashes.                             *)

ActiveRuns(c, kind) ==
  {r \in Ids : runs[r].account = c /\ runs[r].kind = kind /\ Active(runs[r])}

(* What a request is about to commit for a card.                               *)
Buffered(q, c, kind) ==
  {i \in DOMAIN req[q].buf : req[q].buf[i].account = c /\ req[q].buf[i].kind = kind}

(* The requests that are about to commit nothing for it.                       *)
Outside(c, kind) == {q \in Client : Buffered(q, c, kind) = {}}

Size(kind) == IF kind = "live" THEN 1 ELSE Chunks

(* A request inserts one block of rows for a card, when it comes to it.        *)
OneBlock ==
  \A q \in Client, c \in Account, kind \in Kind :
    /\ \E lo \in Nat : Buffered(q, c, kind) \subseteq (lo + 1)..(lo + Size(kind))
    /\ c \in req[q].todo => Buffered(q, c, kind) = {}

BufInv == IInv /\ RunsBounded /\ OneBlock

(* What a step can do to the runs of one kind that a card has waiting: take    *)
(* some away, nothing where there is none, commit a block a request had in     *)
(* hand, or insert the live run the tick has picked the card for.              *)
Shrinks(c, kind) == /\ ActiveRuns(c, kind)' \subseteq ActiveRuns(c, kind)
                    /\ Outside(c, kind) \subseteq Outside(c, kind)'
StaysEmpty(c, kind) == ActiveRuns(c, kind) = {} /\ ActiveRuns(c, kind)' = {}
Grows(c, kind, n) == Cardinality(ActiveRuns(c, kind)') <= Cardinality(ActiveRuns(c, kind)) + n
CommitsBlock(c, kind) ==
  /\ Grows(c, kind, Size(kind))
  /\ Cardinality(Outside(c, kind)') = Cardinality(Outside(c, kind)) + 1
  /\ UNCHANGED <<pc, crashes, faults>>
InsertsPicked(c, kind) ==
  /\ EnqueueLive /\ kind = "live" /\ Grows(c, kind, 1)
  /\ Outside(c, kind)' = Outside(c, kind)

(* The block sizes are positive.                                               *)
LEMMA SizeType == \A kind \in Kind : Size(kind) \in Nat /\ Size(kind) >= 1
  BY SchedulerAssumption DEF Size, Kind

(* The sets that are counted are finite.                                       *)
LEMMA Countable ==
  ASSUME NEW table \in Seq(Run), NEW A \in SUBSET (DOMAIN table), NEW O \in SUBSET Client
  PROVE  /\ IsFiniteSet(A) /\ Cardinality(A) \in Nat
         /\ \A B \in SUBSET A : Cardinality(B) <= Cardinality(A)
         /\ IsFiniteSet(O) /\ Cardinality(O) \in Nat
         /\ \A P \in SUBSET O : Cardinality(P) <= Cardinality(O)
         /\ Cardinality(O) <= Cardinality(Client) /\ Cardinality(Client) \in Nat
<1>1. IsFiniteSet(A)  BY FiniteTable, FS_Subset
<1>2. IsFiniteSet(O) /\ Cardinality(O) <= Cardinality(Client)
  BY SchedulerAssumption, FS_Subset
<1>3. \A B \in SUBSET A : Cardinality(B) <= Cardinality(A)
  BY <1>1, FS_Subset
<1>4. \A P \in SUBSET O : Cardinality(P) <= Cardinality(O)
  BY <1>2, FS_Subset
<1> QED  BY <1>1, <1>2, <1>3, <1>4, SchedulerAssumption, FS_CardinalityType

(* They are sets of rows and of requests, before and after a step.             *)
LEMMA Counted ==
  /\ \A c, kind : ActiveRuns(c, kind) \subseteq DOMAIN runs /\ Outside(c, kind) \subseteq Client
  /\ \A c, kind : ActiveRuns(c, kind)' \subseteq DOMAIN runs' /\ Outside(c, kind)' \subseteq Client
  BY DEF ActiveRuns, Outside, Ids

(* Multiples of Chunks.                                                        *)
LEMMA Blocks ==
  ASSUME NEW n \in Nat, NEW m \in Nat, n <= m
  PROVE  /\ Chunks * n \in Nat /\ Chunks * m \in Nat /\ Chunks * n <= Chunks * m
         /\ Chunks * (n + 1) = Chunks * n + Chunks
<1>1. Chunks \in Nat  BY SchedulerAssumption
<1>2. PICK d \in Nat : m = n + d
  <2>1. m - n \in Nat /\ m = n + (m - n)  OBVIOUS
  <2> QED  BY <2>1
<1>3. Chunks * m = Chunks * n + Chunks * d  BY <1>1, <1>2
<1>4. Chunks * d \in Nat /\ Chunks * n \in Nat /\ Chunks * m \in Nat  BY <1>1, <1>2
<1> QED  BY <1>1, <1>3, <1>4

(* A row that was there is active only if it was before.                       *)
LEMMA OldRuns ==
  ASSUME runs \in Seq(Run), TerminalKept, RowsKept, NEW c, NEW kind, NEW r \in Ids,
         r \in ActiveRuns(c, kind)'
  PROVE  r \in ActiveRuns(c, kind)
<1>1. runs[r] \in Run /\ Active(runs'[r]) /\ SameRow(runs'[r], runs[r])
      /\ runs'[r].account = c /\ runs'[r].kind = kind
  BY DEF ActiveRuns, RowsKept, Ids
<1>2. ~Terminal(runs[r])
  BY <1>1 DEF TerminalKept, Terminal, Active
<1>3. Active(runs[r])
  BY <1>1, <1>2 DEF Run, Status, Active, Terminal
<1> QED  BY <1>1, <1>3 DEF ActiveRuns, SameRow

(* Apart from the commit of a request only EnqueueLive inserts, a live row.    *)
LEMMA OthersInsertNone ==
  ASSUME IInv, [Next]_vars, \A q \in Client : ~CommitRequest(q)
  PROVE  \/ DOMAIN runs' = Ids
         \/ /\ EnqueueLive /\ DOMAIN runs' = 1..(Len(runs) + 1)
            /\ runs'[Len(runs) + 1].kind = "live"
<1>0. runs \in Seq(Run) /\ clock \in Nat
  BY DEF IInv, TypeOK
<1>1. CASE runs' = runs  BY <1>1 DEF Ids
<1>2. CASE Elapse
  <2>1. runs' = AgedRows  BY <1>2 DEF Elapse, AgedRows
  <2> QED  BY <1>0, <2>1, ElapseRows
<1>3. CASE BootRecover \/ TickSweep
  BY <1>0, <1>3, RecoverRows DEF BootRecover, TickSweep
<1>4. CASE ClaimNextPending
  <2>1. runs' = runs \/ \E r \in Ids : runs' = ClaimedRows(r)
    BY <1>4 DEF ClaimNextPending, ClaimedRows, OldestPending
  <2> QED  BY <1>0, <2>1, ClaimRows DEF Ids
<1>5. CASE EnqueueLive /\ runs' # runs
  <2> DEFINE row == NewRow(picked, "live", clock)
  <2>1. runs' = Append(runs, row)  BY <1>5 DEF EnqueueLive
  <2>2. row.kind = "live"  BY DEF NewRow
  <2> HIDE DEF row
  <2> QED  BY <1>0, <1>5, <2>1, <2>2
<1>6. CASE SaveStatement \/ MarkRunError
  <2>1. job \in Ids  BY <1>6 DEF SaveStatement, MarkRunError, IInv, TickHoldsItsRow, HoldsRow
  <2>2. runs' = MarkDone(job) \/ runs' = MarkError(job)
    BY <1>6 DEF SaveStatement, MarkRunError
  <2> QED  BY <1>0, <2>1, <2>2, MarkedRows
<1> QED
  BY <1>1, <1>2, <1>3, <1>4, <1>5, <1>6
  DEF Next, vars, dbVars, Tick, TickFault, Requests, Start, BootRead, Crash, RevokeToken,
      RotateToken, TickStart, EnsureAccountsDiscovered, DiscoverAnswer, SaveAccounts,
      PickNextActiveCard, FetchAnswer, SetStateAuthFailed, PostImport, PostBackfill,
      BeginRequest, EnqueueForCard, AbortRequest

(* The requests that a step leaves alone, or empties.                          *)
LEMMA CalmBuffers ==
  ASSUME OneBlock, \A q \in Client : req'[q] = req[q] \/ req'[q].buf = <<>>
  PROVE  OneBlock' /\ \A c, kind : Outside(c, kind) \subseteq Outside(c, kind)'
<1>1. \A q \in Client : \A c, kind :
        \/ Buffered(q, c, kind)' = {}
        \/ req'[q] = req[q] /\ Buffered(q, c, kind)' = Buffered(q, c, kind)
  BY DEF Buffered
<1>2. OneBlock'
  <2>1. ASSUME NEW q \in Client, NEW c \in Account, NEW kind \in Kind
        PROVE  /\ \E lo \in Nat : Buffered(q, c, kind)' \subseteq (lo + 1)..(lo + Size(kind))
               /\ c \in req'[q].todo => Buffered(q, c, kind)' = {}
    <3>1. CASE Buffered(q, c, kind)' = {}
      <4>1. 0 \in Nat  OBVIOUS
      <4> QED  BY <3>1, <4>1
    <3>2. CASE req'[q] = req[q] /\ Buffered(q, c, kind)' = Buffered(q, c, kind)
      BY <3>2 DEF OneBlock
    <3> QED  BY <1>1, <3>1, <3>2
  <2> QED  BY <2>1 DEF OneBlock, Size
<1>3. \A c, kind : Outside(c, kind) \subseteq Outside(c, kind)'
  BY <1>1 DEF Outside
<1> QED  BY <1>2, <1>3

(* A step other than a request's work on a card and its commit.                *)
LEMMA CalmStep ==
  ASSUME BufInv, [Next]_vars, \A q \in Client : ~EnqueueForCard(q) /\ ~CommitRequest(q)
  PROVE  /\ OneBlock'
         /\ \A c \in Account, kind \in Kind : Shrinks(c, kind) \/ InsertsPicked(c, kind)
<1>1. /\ runs \in Seq(Run) /\ runs' \in Seq(Run) /\ req \in [Client -> Request]
      /\ TerminalKept /\ RowsKept
  BY StepIInv, TerminalStep, SchedulerKeeps DEF BufInv, IInv, TypeOK
<1>2. ASSUME NEW q \in Client PROVE req'[q] = req[q] \/ req'[q].buf = <<>>
  <2>2. ASSUME NEW p \in Client, PostImport(p) \/ PostBackfill(p) \/ AbortRequest(p)
        PROVE  req'[q] = req[q] \/ req'[q].buf = <<>>
    <3>1. PICK op, cards : \/ req' = [req EXCEPT ![p] = [op |-> op, todo |-> cards, buf |-> <<>>]]
                           \/ req' = [req EXCEPT ![p] = NoRequest]
      BY <2>2 DEF PostImport, PostBackfill, BeginRequest, AbortRequest
    <3> QED  BY <1>1, <3>1 DEF NoRequest
  <2>3. CASE Crash
    BY <2>3 DEF Crash, NoRequest
  <2>4. CASE req' = req
    BY <2>4
  <2> QED
    BY <2>2, <2>3, <2>4
    DEF Next, vars, Tick, TickFault, Requests, Start, BootRecover, BootRead, Elapse,
        RevokeToken, RotateToken, TickStart, TickSweep, EnsureAccountsDiscovered,
        DiscoverAnswer, SaveAccounts, ClaimNextPending, PickNextActiveCard, EnqueueLive,
        FetchAnswer, SaveStatement, MarkRunError, SetStateAuthFailed
<1>3. OneBlock' /\ \A c, kind : Outside(c, kind) \subseteq Outside(c, kind)'
  BY <1>2, CalmBuffers DEF BufInv
<1>4. \A c, kind : ActiveRuns(c, kind)' \cap Ids \subseteq ActiveRuns(c, kind)
  BY <1>1, OldRuns
<1>5. CASE DOMAIN runs' = Ids
  BY <1>3, <1>4, <1>5, Counted DEF Shrinks
<1>6. CASE /\ EnqueueLive /\ DOMAIN runs' = 1..(Len(runs) + 1)
           /\ runs'[Len(runs) + 1].kind = "live"
  <2> DEFINE row == Len(runs) + 1
  <2>1. \A c, kind : Outside(c, kind)' = Outside(c, kind)
    BY <1>6 DEF EnqueueLive, Outside, Buffered
  <2>2. \A r \in DOMAIN runs' : r \in Ids \/ r = row
    BY <1>1, <1>6 DEF Ids
  <2>3. \A c, kind : ActiveRuns(c, kind)' \subseteq ActiveRuns(c, kind) \cup {row}
    BY <1>4, <2>2, Counted
  <2> HIDE DEF row
  <2>4. ASSUME NEW c \in Account, NEW kind \in Kind PROVE Shrinks(c, kind) \/ InsertsPicked(c, kind)
    <3>1. CASE kind = "live"
      <4> DEFINE A == ActiveRuns(c, kind)
      <4>1. IsFiniteSet(A) /\ Cardinality(A) \in Nat
        BY <1>1, Counted, Countable
      <4>2. IsFiniteSet(A \cup {row}) /\ Cardinality(A \cup {row}) <= Cardinality(A) + 1
        <5>1. CASE row \in A
          <6>1. A \cup {row} = A  BY <5>1
          <6> QED  BY <4>1, <6>1
        <5>2. CASE row \notin A
          <6>1. IsFiniteSet(A \cup {row}) /\ Cardinality(A \cup {row}) = Cardinality(A) + 1
            BY <4>1, <5>2, FS_AddElement
          <6> QED  BY <4>1, <6>1
        <5> QED  BY <5>1, <5>2
      <4>3. Cardinality(A') <= Cardinality(A \cup {row}) /\ Cardinality(A') \in Nat
            /\ Cardinality(A \cup {row}) \in Nat
        BY <2>3, <4>2, FS_Subset, FS_CardinalityType
      <4>4. Cardinality(A') <= Cardinality(A) + 1
        BY <4>1, <4>2, <4>3
      <4> QED  BY <1>6, <2>1, <3>1, <4>4 DEF InsertsPicked, Grows
    <3>2. CASE kind # "live"
      <4>1. row \notin ActiveRuns(c, kind)'
        BY <1>6, <3>2 DEF ActiveRuns, row
      <4> QED  BY <2>1, <2>3, <4>1 DEF Shrinks
    <3> QED  BY <3>1, <3>2
  <2> QED  BY <1>3, <2>4
<1>7. \A q \in Client : ~CommitRequest(q)  OBVIOUS
<1> QED  BY <1>5, <1>6, <1>7, OthersInsertNone DEF BufInv

(* What a concatenation holds.                                                 *)
LEMMA Joined ==
  ASSUME NEW s \in Seq(Run), NEW t \in Seq(Run)
  PROVE  /\ s \o t \in Seq(Run) /\ Len(s) \in Nat /\ Len(t) \in Nat
         /\ DOMAIN s = 1..Len(s) /\ DOMAIN t = 1..Len(t)
         /\ DOMAIN (s \o t) = 1..(Len(s) + Len(t))
         /\ \A i \in 1..Len(s) : (s \o t)[i] = s[i]
         /\ \A i \in (Len(s) + 1)..(Len(s) + Len(t)) : (s \o t)[i] = t[i - Len(s)]
<1>1. /\ s \o t \in Seq(Run) /\ Len(s \o t) = Len(s) + Len(t)
      /\ \A i \in 1..(Len(s) + Len(t)) :
           (s \o t)[i] = IF i <= Len(s) THEN s[i] ELSE t[i - Len(s)]
  BY ConcatProperties
<1>2. Len(s) \in Nat /\ Len(t) \in Nat /\ DOMAIN s = 1..Len(s) /\ DOMAIN t = 1..Len(t)
  OBVIOUS
<1>3. DOMAIN (s \o t) = 1..Len(s \o t)
  BY <1>1
<1>4. \A i \in 1..Len(s) : i \in 1..(Len(s) + Len(t)) /\ i <= Len(s)
  BY <1>2
<1>5. \A i \in (Len(s) + 1)..(Len(s) + Len(t)) : i \in 1..(Len(s) + Len(t)) /\ ~(i <= Len(s))
  BY <1>2
<1> QED  BY <1>1, <1>2, <1>3, <1>4, <1>5

(* What a request inserts when it comes to a card: one block of one kind, and  *)
(* of a kind the card has none of.                                             *)
LEMMA InsertedBlock ==
  ASSUME NEW q \in Client, NEW c \in Account
  PROVE  /\ Inserted(q, c) \in Seq(Run)
         /\ \A i \in DOMAIN Inserted(q, c) : Inserted(q, c)[i].account = c
         /\ \/ Inserted(q, c) = <<>>
            \/ \E kind \in Kind :
                 /\ \A i \in DOMAIN Inserted(q, c) : Inserted(q, c)[i].kind = kind
                 /\ Len(Inserted(q, c)) = Size(kind)
                 /\ ActiveRuns(c, kind) = {}
<1> DEFINE new == Inserted(q, c)
<1>1. \/ new = <<>>
      \/ new = NewRows(c, "live", 0, 1) /\ ActiveLives(c) = {}
      \/ new = NewRows(c, "backfill", 0, Chunks) /\ ActiveBackfills(c) = {}
  BY DEF Inserted
<1>2. new \in Seq(Run)  BY InsertedRows
<1>3. ActiveLives(c) = ActiveRuns(c, "live") /\ ActiveBackfills(c) = ActiveRuns(c, "backfill")
  BY DEF ActiveLives, ActiveBackfills, ActiveRuns
<1> HIDE DEF new
<1>4. ASSUME NEW kind \in Kind, NEW n \in Nat, new = NewRows(c, kind, 0, n)
      PROVE  /\ \A i \in DOMAIN new : new[i].account = c /\ new[i].kind = kind
             /\ Len(new) = n
  <2> DEFINE row == NewRow(c, kind, 0)
  <2>1. row.account = c /\ row.kind = kind  BY DEF NewRow
  <2>2. new = [i \in 1..n |-> row]  BY <1>4 DEF NewRows
  <2> HIDE DEF row
  <2>3. DOMAIN new = 1..n /\ \A i \in DOMAIN new : new[i] = row  BY <2>2
  <2>4. DOMAIN new = 1..Len(new) /\ Len(new) \in Nat  BY <1>2
  <2>5. Len(new) = n  BY <2>3, <2>4
  <2> QED  BY <2>1, <2>3, <2>5
<1>5. CASE new = <<>>
  BY <1>2, <1>5 DEF new
<1>6. CASE new = NewRows(c, "live", 0, 1) /\ ActiveLives(c) = {}
  BY <1>2, <1>3, <1>4, <1>6 DEF Kind, Size, new
<1>7. CASE new = NewRows(c, "backfill", 0, Chunks) /\ ActiveBackfills(c) = {}
  BY <1>2, <1>3, <1>4, <1>7, SchedulerAssumption DEF Kind, Size, new
<1> QED  BY <1>1, <1>5, <1>6, <1>7

(* A request goes on to its next card.                                         *)
LEMMA ForCardStep ==
  ASSUME BufInv, NEW q \in Client, EnqueueForCard(q)
  PROVE  /\ OneBlock'
         /\ \A c \in Account, kind \in Kind : Shrinks(c, kind) \/ StaysEmpty(c, kind)
<1>1. PICK c \in req[q].todo :
        req' = [req EXCEPT ![q] = [op |-> @.op, todo |-> @.todo \ {c},
                                   buf |-> @.buf \o Inserted(q, c)]]
  BY DEF EnqueueForCard
<1>2. /\ req \in [Client -> Request] /\ runs' = runs
      /\ c \in Account /\ req[q].buf \in Seq(Run)
  BY DEF BufInv, IInv, TypeOK, Request, EnqueueForCard, dbVars
<1> DEFINE buf == req[q].buf
           new == Inserted(q, c)
           late == (Len(buf) + 1)..(Len(buf) + Len(new))
<1>3. /\ \A p \in Client : p # q => req'[p] = req[p]
      /\ req'[q].buf = buf \o new /\ req'[q].todo = req[q].todo \ {c}
  BY <1>1, <1>2
<1>5. /\ new \in Seq(Run) /\ \A i \in DOMAIN new : new[i].account = c
      /\ \/ new = <<>>
         \/ \E kind \in Kind : /\ \A i \in DOMAIN new : new[i].kind = kind
                               /\ Len(new) = Size(kind) /\ ActiveRuns(c, kind) = {}
  BY <1>2, InsertedBlock
<1> HIDE DEF new
<1>6. /\ Len(buf) \in Nat /\ Len(new) \in Nat /\ DOMAIN buf = 1..Len(buf)
      /\ DOMAIN new = 1..Len(new) /\ DOMAIN (buf \o new) = 1..(Len(buf) + Len(new))
      /\ \A i \in 1..Len(buf) : (buf \o new)[i] = buf[i]
      /\ \A i \in late : (buf \o new)[i] = new[i - Len(buf)]
  BY <1>2, <1>5, Joined
<1> HIDE DEF buf
<1>a. \A i \in late : /\ i - Len(buf) \in DOMAIN new
                      /\ (buf \o new)[i].account = c
                      /\ (buf \o new)[i].kind = new[i - Len(buf)].kind
  <2>1. \A i \in late : i - Len(buf) \in 1..Len(new)
    BY <1>6
  <2>2. \A i \in late : i - Len(buf) \in DOMAIN new
    BY <1>6, <2>1
  <2> QED  BY <1>5, <1>6, <2>2
<1>b. \A i \in 1..(Len(buf) + Len(new)) : i \in 1..Len(buf) \/ i \in late
  BY <1>6
<1>c. \A i \in 1..Len(buf) : i \in 1..(Len(buf) + Len(new))
  BY <1>6
<1>d. \A d, kind :
        /\ Buffered(q, d, kind)' =
             {i \in DOMAIN (buf \o new) : (buf \o new)[i].account = d /\ (buf \o new)[i].kind = kind}
        /\ Buffered(q, d, kind) = {i \in DOMAIN buf : buf[i].account = d /\ buf[i].kind = kind}
  BY <1>3 DEF Buffered, buf
<1>7. ASSUME NEW p \in Client, NEW d, NEW kind, p # q \/ d # c
      PROVE  Buffered(p, d, kind)' = Buffered(p, d, kind)
  <2>1. CASE p # q  BY <1>3, <2>1 DEF Buffered
  <2>2. CASE p = q /\ d # c
    <3>1. /\ Buffered(q, d, kind)' = {i \in 1..(Len(buf) + Len(new)) :
                (buf \o new)[i].account = d /\ (buf \o new)[i].kind = kind}
          /\ Buffered(q, d, kind) =
                {i \in 1..Len(buf) : buf[i].account = d /\ buf[i].kind = kind}
      BY <1>d, <1>6
    <3>2. Buffered(q, d, kind)' \subseteq Buffered(q, d, kind)
      BY <3>1, <1>b, <1>6, <1>a, <2>2
    <3>3. Buffered(q, d, kind) \subseteq Buffered(q, d, kind)'
      BY <3>1, <1>c, <1>6
    <3>4. Buffered(q, d, kind)' = Buffered(q, d, kind)  BY <3>2, <3>3
    <3>5. /\ Buffered(p, d, kind) = Buffered(q, d, kind)
          /\ Buffered(p, d, kind)' = Buffered(q, d, kind)'
      BY <2>2 DEF Buffered
    <3> QED  BY <3>4, <3>5
  <2> QED  BY <1>7, <2>1, <2>2
<1>8. \A kind \in Kind : Buffered(q, c, kind) = {}
  BY <1>1, <1>2 DEF BufInv, OneBlock
<1>9. ASSUME NEW kind \in Kind
      PROVE  /\ Buffered(q, c, kind)' \subseteq late
             /\ \A i \in Buffered(q, c, kind)' :
                  i - Len(buf) \in DOMAIN new /\ new[i - Len(buf)].kind = kind
  <2>1. \A i \in DOMAIN buf : ~(buf[i].account = c /\ buf[i].kind = kind)
    <3>1. {i \in DOMAIN buf : buf[i].account = c /\ buf[i].kind = kind} = {}
      BY <1>8, <1>d
    <3> QED  BY <3>1
  <2>2. Buffered(q, c, kind)' \subseteq late
    BY <1>b, <1>d, <1>6, <2>1
  <2>3. \A i \in Buffered(q, c, kind)' : (buf \o new)[i].kind = kind
    BY <1>d
  <2> QED  BY <1>a, <2>2, <2>3
<1>10. ASSUME NEW kind \in Kind
       PROVE  \/ Buffered(q, c, kind)' = {}
              \/ Len(new) = Size(kind) /\ ActiveRuns(c, kind) = {}
  <2>1. CASE new = <<>>
    BY <1>9, <2>1
  <2>2. ASSUME NEW k \in Kind, \A i \in DOMAIN new : new[i].kind = k,
               Len(new) = Size(k), ActiveRuns(c, k) = {}
        PROVE  \/ Buffered(q, c, kind)' = {}
               \/ Len(new) = Size(kind) /\ ActiveRuns(c, kind) = {}
    BY <1>9, <2>2
  <2> QED  BY <1>5, <2>1, <2>2
<1>11. OneBlock'
  <2>1. ASSUME NEW p \in Client, NEW d \in Account, NEW kind \in Kind
        PROVE  /\ \E lo \in Nat : Buffered(p, d, kind)' \subseteq (lo + 1)..(lo + Size(kind))
               /\ d \in req'[p].todo => Buffered(p, d, kind)' = {}
    <3>1. CASE p # q \/ d # c
      <4>1. Buffered(p, d, kind)' = Buffered(p, d, kind) /\ req'[p].todo \subseteq req[p].todo
        BY <1>3, <1>7, <3>1
      <4> QED  BY <4>1 DEF BufInv, OneBlock
    <3>2. CASE p = q /\ d = c
      <4>1. d \notin req'[p].todo  BY <1>3, <3>2
      <4>2. Buffered(q, c, kind)' = {}
            \/ Buffered(q, c, kind)' \subseteq (Len(buf) + 1)..(Len(buf) + Size(kind))
        BY <1>9, <1>10
      <4>3. \E lo \in Nat : Buffered(q, c, kind)' \subseteq (lo + 1)..(lo + Size(kind))
        BY <1>6, <4>2
      <4> QED  BY <3>2, <4>1, <4>3
    <3> QED  BY <3>1, <3>2
  <2> QED  BY <2>1 DEF OneBlock, Size
<1>12. ASSUME NEW d \in Account, NEW kind \in Kind
       PROVE  Shrinks(d, kind) \/ StaysEmpty(d, kind)
  <2>1. ActiveRuns(d, kind)' = ActiveRuns(d, kind)
    BY <1>2 DEF ActiveRuns, Ids
  <2>2. CASE d # c \/ Buffered(q, c, kind)' = {}
    <3>1. Outside(d, kind) \subseteq Outside(d, kind)'
      BY <1>7, <2>2 DEF Outside
    <3> QED  BY <2>1, <3>1 DEF Shrinks
  <2>3. CASE d = c /\ ActiveRuns(c, kind) = {}
    BY <2>1, <2>3 DEF StaysEmpty
  <2> QED  BY <1>10, <2>2, <2>3
<1> QED  BY <1>11, <1>12

(* A request commits: its block of rows becomes active.                        *)
LEMMA CommitStep ==
  ASSUME BufInv, [Next]_vars, NEW q \in Client, CommitRequest(q)
  PROVE  /\ OneBlock'
         /\ \A c \in Account, kind \in Kind : Shrinks(c, kind) \/ CommitsBlock(c, kind)
<1>1. /\ req \in [Client -> Request] /\ runs \in Seq(Run) /\ runs' \in Seq(Run)
      /\ clock \in Nat /\ req[q].buf \in Seq(Run)
      /\ \A i \in DOMAIN req[q].buf : req[q].buf[i].status = "pending"
      /\ TerminalKept /\ RowsKept
  BY StepIInv, TerminalStep, SchedulerKeeps DEF BufInv, IInv, TypeOK, Request, BufPending
<1> DEFINE buf == req[q].buf
           new == Stamped(buf)
<1>2. /\ req' = [req EXCEPT ![q] = NoRequest] /\ runs' = runs \o new
      /\ UNCHANGED <<pc, crashes, faults>>
  BY DEF CommitRequest, tickVars, envVars
<1>3. /\ \A p \in Client : p # q => req'[p] = req[p]
      /\ req'[q].buf = <<>> /\ req'[q].todo = {}
  BY <1>1, <1>2 DEF NoRequest
<1>4. \A p \in Client : \A c, kind :
        /\ p # q => Buffered(p, c, kind)' = Buffered(p, c, kind)
        /\ Buffered(q, c, kind)' = {}
  BY <1>3 DEF Buffered
<1>5. OneBlock'
  <2>1. \A p \in Client : req'[p] = req[p] \/ req'[p].buf = <<>>
    BY <1>3
  <2> QED  BY <2>1, CalmBuffers DEF BufInv
<1>6. /\ new \in Seq(Run) /\ DOMAIN new = DOMAIN buf
      /\ \A i \in DOMAIN buf : new[i].account = buf[i].account /\ new[i].kind = buf[i].kind
  <2>1. new \in Seq(Run)  BY <1>1, StampedRows
  <2>2. \A row \in Run : /\ [row EXCEPT !.created = clock].account = row.account
                         /\ [row EXCEPT !.created = clock].kind = row.kind
    BY DEF Run
  <2>3. DOMAIN new = DOMAIN buf /\ \A i \in DOMAIN buf : new[i] = [buf[i] EXCEPT !.created = clock]
    BY DEF Stamped
  <2>4. \A i \in DOMAIN buf : buf[i] \in Run  BY <1>1
  <2> HIDE DEF new, buf
  <2> QED  BY <2>1, <2>2, <2>3, <2>4
<1> HIDE DEF new
<1>7. /\ Len(runs) \in Nat /\ Len(new) \in Nat /\ Ids = 1..Len(runs) /\ DOMAIN new = 1..Len(new)
      /\ DOMAIN runs' = 1..(Len(runs) + Len(new))
      /\ \A i \in (Len(runs) + 1)..(Len(runs) + Len(new)) : runs'[i] = new[i - Len(runs)]
  BY <1>1, <1>2, <1>6, Joined DEF Ids
<1>8. ASSUME NEW c \in Account, NEW kind \in Kind,
             NEW r \in ActiveRuns(c, kind)', r \notin ActiveRuns(c, kind)
      PROVE  r - Len(runs) \in Buffered(q, c, kind) /\ r \in Int
  <2>1. r \in DOMAIN runs' /\ runs'[r].account = c /\ runs'[r].kind = kind
    BY <1>8 DEF ActiveRuns, Ids
  <2>2. r \notin Ids
    BY <1>1, <1>8, OldRuns
  <2>3. r \in (Len(runs) + 1)..(Len(runs) + Len(new)) /\ r - Len(runs) \in 1..Len(new)
    BY <1>7, <2>1, <2>2
  <2>4. r - Len(runs) \in DOMAIN buf /\ runs'[r] = new[r - Len(runs)]
    BY <1>6, <1>7, <2>3
  <2>5. /\ buf[r - Len(runs)].account = c /\ buf[r - Len(runs)].kind = kind
    BY <1>6, <2>1, <2>4
  <2> QED  BY <2>3, <2>4, <2>5 DEF Buffered
<1>9. ASSUME NEW c \in Account, NEW kind \in Kind
      PROVE  Shrinks(c, kind) \/ CommitsBlock(c, kind)
  <2> DEFINE A == ActiveRuns(c, kind)
             O == Outside(c, kind)
  <2>1. CASE Buffered(q, c, kind) = {}
    <3>1. A' \subseteq A
      BY <1>8, <2>1
    <3>2. O \subseteq O'
      BY <1>4 DEF Outside
    <3> QED  BY <3>1, <3>2 DEF Shrinks
  <2>2. CASE Buffered(q, c, kind) # {}
    <3>1. O' = O \cup {q} /\ q \notin O
      BY <1>4, <2>2 DEF Outside
    <3>2. PICK lo \in Nat : Buffered(q, c, kind) \subseteq (lo + 1)..(lo + Size(kind))
      BY DEF BufInv, OneBlock
    <3> DEFINE first == Len(runs) + lo + 1
               last == Len(runs) + lo + Size(kind)
               block == first..last
    <3>3. A' \subseteq A \cup block
      <4>1. ASSUME NEW r \in A', r \notin A PROVE r \in block
        <5>1. r - Len(runs) \in (lo + 1)..(lo + Size(kind)) /\ r \in Int
          BY <1>8, <3>2, <4>1
        <5> QED  BY <5>1, <1>7, SizeType
      <4> QED  BY <4>1
    <3>4. IsFiniteSet(block) /\ Cardinality(block) = Size(kind)
      <4>1. first \in Int /\ last \in Int /\ ~(first > last) /\ last - first + 1 = Size(kind)
        BY <1>7, SizeType
      <4> HIDE DEF first, last
      <4> QED  BY <4>1, FS_Interval
    <3>5. /\ IsFiniteSet(A) /\ Cardinality(A) \in Nat /\ IsFiniteSet(O) /\ Cardinality(O) \in Nat
      BY <1>1, Counted, Countable
    <3> HIDE DEF block, A, O
    <3>6. /\ IsFiniteSet(A \cup block)
          /\ Cardinality(A \cup block) = Cardinality(A) + Size(kind) - Cardinality(A \cap block)
          /\ Cardinality(A \cap block) \in Nat
      BY <3>4, <3>5, FS_Union, FS_Intersection, FS_CardinalityType
    <3>7. Cardinality(A') \in Nat /\ Cardinality(A') <= Cardinality(A \cup block)
      BY <3>3, <3>6, FS_Subset, FS_CardinalityType
    <3>8. Cardinality(O') = Cardinality(O) + 1
      BY <3>1, <3>5, FS_AddElement
    <3> DEFINE a == Cardinality(A)
               b == Cardinality(A')
               k == Cardinality(A \cap block)
    <3>10. /\ a \in Nat /\ b \in Nat /\ k \in Nat /\ Size(kind) \in Nat
           /\ b <= a + Size(kind) - k
      BY <3>5, <3>6, <3>7, SizeType
    <3> HIDE DEF a, b, k
    <3>11. b <= a + Size(kind)  BY <3>10
    <3> QED  BY <1>2, <3>8, <3>11 DEF b, a, A, O, CommitsBlock, Grows
  <2> QED  BY <2>1, <2>2
<1> QED  BY <1>5, <1>9

(* Every step does one of four things to the runs a card has waiting.          *)
LEMMA TallyStep ==
  ASSUME BufInv, [Next]_vars
  PROVE  /\ BufInv'
         /\ \A c \in Account, kind \in Kind :
              \/ Shrinks(c, kind) \/ StaysEmpty(c, kind)
              \/ CommitsBlock(c, kind) \/ InsertsPicked(c, kind)
<1>1. IInv' /\ RunsBounded'
  BY StepIInv, RunsBoundedStep DEF BufInv
<1> QED  BY <1>1, ForCardStep, CommitStep, CalmStep DEF BufInv
(* Each request that has nothing more to commit accounts for one backfill.     *)
BackfillsCounted ==
  \A c \in Account :
    Cardinality(ActiveRuns(c, "backfill")) <= Chunks * Cardinality(Outside(c, "backfill"))

(* What has failed so far: it only grows, and by one at a time.                *)
Failed == crashes + faults

(* Rows in flight that no tick holds were orphaned by a crash or a fault.      *)
InFlight == {r \in Ids : runs[r].status = "in_flight"}
OrphansCounted ==
  Cardinality(InFlight) <= (IF pc \in HoldsRow THEN 1 ELSE 0) + Failed

(* Each request that has nothing more to commit accounts for one live run, so  *)
(* does each orphan, and the tick for one more, that it has yet to insert when *)
(* it has found nothing pending.                                               *)
LivesCounted ==
  \A c \in Account :
    Cardinality(ActiveRuns(c, "live")) <=
      (IF pc \in {"pick", "enqueue"} THEN 0 ELSE 1) + Failed + Cardinality(Outside(c, "live"))

CountInv == BufInv /\ BackfillsCounted /\ OrphansCounted /\ LivesCounted

(* The counts are numbers.                                                     *)
LEMMA CountsAreNat ==
  ASSUME IInv
  PROVE  \A c, kind : /\ Cardinality(ActiveRuns(c, kind)) \in Nat
                      /\ Cardinality(Outside(c, kind)) \in Nat
                      /\ Cardinality(Outside(c, kind)) <= Cardinality(Client)
                      /\ Cardinality(Client) \in Nat
  BY Counted, Countable DEF IInv, TypeOK

(* They shrink with the sets.                                                  *)
LEMMA ShrinkingCounts ==
  ASSUME IInv, IInv', NEW c, NEW kind, Shrinks(c, kind)
  PROVE  /\ Cardinality(ActiveRuns(c, kind)') <= Cardinality(ActiveRuns(c, kind))
         /\ Cardinality(Outside(c, kind)) <= Cardinality(Outside(c, kind)')
         /\ Cardinality(ActiveRuns(c, kind)') \in Nat
         /\ Cardinality(Outside(c, kind)') \in Nat
<1>1. runs \in Seq(Run) /\ runs' \in Seq(Run)  BY DEF IInv, TypeOK
<1>2. /\ ActiveRuns(c, kind) \subseteq DOMAIN runs /\ Outside(c, kind)' \subseteq Client
      /\ ActiveRuns(c, kind)' \subseteq DOMAIN runs' /\ Outside(c, kind) \subseteq Client
  BY Counted
<1>3. Cardinality(ActiveRuns(c, kind)') <= Cardinality(ActiveRuns(c, kind))
  BY <1>1, <1>2, Countable DEF Shrinks
<1>4. Cardinality(Outside(c, kind)) <= Cardinality(Outside(c, kind)')
  BY <1>1, <1>2, Countable DEF Shrinks
<1>5. Cardinality(ActiveRuns(c, kind)') \in Nat /\ Cardinality(Outside(c, kind)') \in Nat
  BY <1>1, <1>2, Countable
<1> QED  BY <1>3, <1>4, <1>5

(* Backfills.                                                                  *)
LEMMA BackfillsStep ==
  ASSUME CountInv, BufInv', NEW c \in Account,
         \/ Shrinks(c, "backfill") \/ StaysEmpty(c, "backfill")
         \/ CommitsBlock(c, "backfill") \/ InsertsPicked(c, "backfill")
  PROVE  Cardinality(ActiveRuns(c, "backfill")') <= Chunks * Cardinality(Outside(c, "backfill")')
<1> DEFINE a == Cardinality(ActiveRuns(c, "backfill"))
           b == Cardinality(ActiveRuns(c, "backfill")')
           n == Cardinality(Outside(c, "backfill"))
           m == Cardinality(Outside(c, "backfill")')
<1>1. IInv /\ IInv' /\ a <= Chunks * n
  BY DEF CountInv, BufInv, BackfillsCounted
<1>2. a \in Nat /\ n \in Nat
  BY <1>1, CountsAreNat
<1>3. b \in Nat /\ m \in Nat
  <2>1. runs' \in Seq(Run)  BY <1>1 DEF IInv, TypeOK
  <2> QED  BY <2>1, Counted, Countable
<1>4. Chunks \in Nat  BY SchedulerAssumption
<1>5. CASE Shrinks(c, "backfill")
  <2>1. b <= a /\ n <= m
    BY <1>1, <1>5, ShrinkingCounts
  <2>2. Chunks * n \in Nat /\ Chunks * m \in Nat /\ Chunks * n <= Chunks * m
    BY <1>2, <1>3, <2>1, Blocks
  <2> DEFINE x == Chunks * n
             y == Chunks * m
  <2>3. x \in Nat /\ y \in Nat /\ x <= y /\ a <= x  BY <2>2, <1>1
  <2> HIDE DEF x, y, a, b, n, m
  <2>4. b <= y  BY <1>2, <1>3, <2>1, <2>3
  <2> QED  BY <2>4 DEF b, y, m
<1>6. CASE StaysEmpty(c, "backfill")
  <2>1. b = 0  BY <1>6, FS_EmptySet DEF StaysEmpty
  <2>2. Chunks * m \in Nat  BY <1>3, Blocks
  <2> QED  BY <2>1, <2>2
<1>7. CASE CommitsBlock(c, "backfill")
  <2>1. b <= a + Chunks /\ m = n + 1
    BY <1>7 DEF CommitsBlock, Grows, Size
  <2>2. Chunks * n \in Nat /\ Chunks * (n + 1) = Chunks * n + Chunks
    BY <1>2, Blocks
  <2> DEFINE x == Chunks * n
  <2>3. x \in Nat /\ a <= x /\ Chunks * m = x + Chunks
    BY <1>1, <2>1, <2>2
  <2> HIDE DEF x, a, b, n, m
  <2>4. b <= x + Chunks  BY <1>2, <1>3, <1>4, <2>1, <2>3
  <2> QED  BY <2>3, <2>4 DEF b, m
<1>8. ~InsertsPicked(c, "backfill")
  BY DEF InsertsPicked
<1> QED  BY <1>5, <1>6, <1>7, <1>8
(* claim_next_pending finds a row when one is pending.                         *)
LEMMA NothingPending ==
  ASSUME runs \in Seq(Run), OldestPending = {}
  PROVE  \A r \in Ids : runs[r].status # "pending"
<1> DEFINE P == {r \in Ids : runs[r].status = "pending"}
           T == {runs[r].created : r \in P}
<1>1. \A r \in P : runs[r].created \in Nat
  <2>1. \A r \in Ids : runs[r] \in Run  BY DEF Ids
  <2> QED  BY <2>1 DEF Run
<1>2. T \in SUBSET Int /\ 0 \in Int /\ \A t \in T : 0 <= t
  BY <1>1
<1>3. ASSUME P # {} PROVE FALSE
  <2>1. T # {}  BY <1>3
  <2>2. PICK t \in T : \A u \in T : t <= u
    <3> HIDE DEF T
    <3> QED  BY <1>2, <2>1, Least
  <2>3. PICK r \in P : t = runs[r].created  OBVIOUS
  <2>4. \A s \in P : runs[r].created <= runs[s].created
    BY <2>2, <2>3
  <2>5. r \in OldestPending  BY <2>3, <2>4 DEF OldestPending
  <2> QED  BY <2>5
<1> QED  BY <1>3

(* Rows come to be in flight when the tick claims them, and not otherwise.     *)
LEMMA InFlightStays ==
  ASSUME IInv, RunsBounded, [Next]_vars, job' \in {job, NoId}
  PROVE  InFlight' \subseteq InFlight /\ (Finishes => InFlight' \subseteq InFlight \ {job})
<1>1. runs \in Seq(Run) /\ clock \in Nat  BY DEF IInv, TypeOK
<1>2. CASE Same \/ Drops \/ Inserts
  <2>1. InFlight' \subseteq InFlight
    BY <1>2 DEF Same, Drops, Inserts, InFlight, Ids
  <2>2. ASSUME Finishes PROVE InFlight' \subseteq InFlight \ {job}
    BY <1>1, <2>2, MarkedRows DEF Finishes, InFlight, Ids
  <2> QED  BY <2>1, <2>2
<1>3. CASE Sweeps
  <2>1. InFlight' \subseteq InFlight
    BY <1>1, <1>3, RecoverRows DEF Sweeps, InFlight, Ids
  <2>2. ~Finishes
    BY <1>3, SchedulerAssumption DEF Sweeps, Finishes, RunsBounded, NoId
  <2> QED  BY <2>1, <2>2
<1>4. ~ \E r \in Ids : Claims(r)
  BY SchedulerAssumption DEF Claims, RunsBounded, NoId
<1>5. CASE Finishes
  BY <1>1, <1>5, MarkedRows DEF Finishes, InFlight, Ids
<1> QED  BY <1>2, <1>3, <1>4, <1>5, TableStep

(* What a step does to the place of the tick, the row it holds and the count   *)
(* of what has failed.                                                         *)
LEMMA TickPlaces ==
  ASSUME IInv, [Next]_vars
  PROVE  /\ \/ crashes' = crashes /\ faults' = faults
            \/ (crashes' = crashes + 1 /\ faults' = faults)
            \/ (crashes' = crashes /\ faults' = faults + 1)
         /\ \/ pc \in HoldsRow => pc' \in HoldsRow
            \/ crashes' # crashes \/ faults' # faults
            \/ Finishes
         /\ job' \in {job, NoId} \/ (job' \in Ids /\ pc = "claim" /\ pc' = "fetch"
                                     /\ crashes' = crashes /\ faults' = faults
                                     /\ runs' = ClaimedRows(job'))
         /\ \/ pc' \in {"pick", "enqueue"} => pc \in {"pick", "enqueue"}
            \/ pc = "claim" /\ OldestPending = {} /\ runs' = runs /\ UNCHANGED <<crashes, faults>>
<1>a. pc \in HoldsRow => job \in Ids /\ runs[job].status = "in_flight"
  BY DEF IInv, TickHoldsItsRow
<1> USE DEF HoldsRow
<1>1. CASE Start \/ BootRecover \/ BootRead \/ Elapse \/ RevokeToken \/ RotateToken \/ TickStart
           \/ Requests \/ UNCHANGED vars
  <2>1. /\ crashes' = crashes /\ faults' = faults /\ job' = job
        /\ pc' = pc \/ (pc = "idle" /\ pc' = "sweep")
    BY <1>1 DEF Start, BootRecover, BootRead, Elapse, RevokeToken, RotateToken, TickStart,
       Requests, PostImport, PostBackfill, BeginRequest, EnqueueForCard, CommitRequest,
       AbortRequest, vars, dbVars, tickVars, envVars
  <2> QED  BY <2>1
<1>2. CASE Crash
  BY <1>2 DEF Crash, NoId
<1>3. CASE TickFault
  <2>1. crashes' = crashes /\ faults' = faults + 1 /\ job' \in {job, NoId} /\ faults \in Nat
    BY <1>3 DEF TickFault, IInv, TypeOK
  <2>2. pc' \in {"idle", "discover", "mark_error"}
    BY <1>3 DEF TickFault, AfterFault
  <2> QED  BY <2>1, <2>2
<1>4. CASE ClaimNextPending
  <2>1. crashes' = crashes /\ faults' = faults /\ pc = "claim"
    BY <1>4 DEF ClaimNextPending, envVars
  <2>2. ASSUME NEW r \in OldestPending, runs' = ClaimedRows(r), job' = r, pc' = "fetch"
        PROVE  r \in Ids /\ runs' = ClaimedRows(job')
    BY <2>2 DEF OldestPending
  <2>3. \/ job' \in Ids /\ runs' = ClaimedRows(job') /\ pc' = "fetch"
        \/ OldestPending = {} /\ runs' = runs /\ job' = job /\ pc' = "pick"
    BY <1>4, <2>2 DEF ClaimNextPending, ClaimedRows
  <2> QED  BY <2>1, <2>3
<1>5. CASE SaveStatement \/ MarkRunError
  <2>1. Finishes /\ crashes' = crashes /\ faults' = faults /\ job' = NoId
        /\ pc' \in {"idle", "stick"}
    BY <1>5, <1>a DEF SaveStatement, MarkRunError, Finishes, envVars
  <2> QED  BY <2>1
<1>6. CASE TickSweep \/ EnsureAccountsDiscovered \/ DiscoverAnswer \/ SaveAccounts
           \/ PickNextActiveCard \/ EnqueueLive \/ FetchAnswer \/ SetStateAuthFailed
  <2>1. /\ crashes' = crashes /\ faults' = faults /\ job' = job
        /\ pc \in HoldsRow => pc' \in HoldsRow
        /\ pc' \in {"pick", "enqueue"} => pc \in {"pick", "enqueue"}
    BY <1>6 DEF TickSweep, EnsureAccountsDiscovered, DiscoverAnswer, SaveAccounts,
       PickNextActiveCard, EnqueueLive, FetchAnswer, SetStateAuthFailed, envVars
  <2> QED  BY <2>1
<1> QED  BY <1>1, <1>2, <1>3, <1>4, <1>5, <1>6 DEF Next, Tick

(* A step counts what it makes fail.                                           *)
LEMMA FailedStep ==
  ASSUME IInv, [Next]_vars
  PROVE  /\ Failed \in Nat /\ Failed' \in Nat /\ Failed <= Failed'
         /\ crashes' # crashes \/ faults' # faults => Failed' = Failed + 1
         /\ crashes' = crashes /\ faults' = faults => Failed' = Failed
<1>1. crashes \in Nat /\ faults \in Nat
  BY DEF IInv, TypeOK
<1>2. \/ crashes' = crashes /\ faults' = faults
      \/ crashes' = crashes + 1 /\ faults' = faults
      \/ crashes' = crashes /\ faults' = faults + 1
  BY TickPlaces
<1>3. CASE crashes' = crashes /\ faults' = faults
  BY <1>1, <1>3 DEF Failed
<1>4. CASE crashes' = crashes + 1 /\ faults' = faults
  BY <1>1, <1>4 DEF Failed
<1>5. CASE crashes' = crashes /\ faults' = faults + 1
  BY <1>1, <1>5 DEF Failed
<1> QED  BY <1>2, <1>3, <1>4, <1>5

(* Orphans.                                                                    *)
LEMMA OrphansStep ==
  ASSUME CountInv, BufInv', [Next]_vars PROVE OrphansCounted'
<1>1. /\ IInv /\ RunsBounded /\ runs \in Seq(Run) /\ runs' \in Seq(Run)
  BY DEF CountInv, BufInv, IInv, TypeOK
<1>0. /\ Failed \in Nat /\ Failed' \in Nat /\ Failed <= Failed'
      /\ crashes' # crashes \/ faults' # faults => Failed' = Failed + 1
      /\ crashes' = crashes /\ faults' = faults => Failed' = Failed
  BY <1>1, FailedStep
<1> DEFINE f == Cardinality(InFlight)
           g == Cardinality(InFlight')
           held == IF pc \in HoldsRow THEN 1 ELSE 0
           holds == IF pc' \in HoldsRow THEN 1 ELSE 0
           e == Failed
           d == Failed'
<1>2. InFlight \subseteq DOMAIN runs /\ InFlight' \subseteq DOMAIN runs'
  BY DEF InFlight, Ids
<1>3. IsFiniteSet(InFlight) /\ IsFiniteSet(InFlight') /\ f \in Nat /\ g \in Nat
  BY <1>1, <1>2, FiniteTable, FS_Subset, FS_CardinalityType
<1>4. f <= held + e + 0
  BY <1>0, <1>3 DEF CountInv, OrphansCounted
<1>5. held \in Nat /\ holds \in Nat /\ held <= 1
  OBVIOUS
<1>a. e \in Nat /\ d \in Nat /\ e <= d
  BY <1>0
<1>6. CASE job' \in {job, NoId}
  <2>1. InFlight' \subseteq InFlight /\ (Finishes => InFlight' \subseteq InFlight \ {job})
    BY <1>1, <1>6, InFlightStays
  <2>2. g <= f  BY <1>3, <2>1, FS_Subset
  <2>3. CASE Finishes
    <3>1. job \in InFlight /\ pc \in HoldsRow
      <4>1. job \in Ids /\ runs[job].status = "in_flight"
        BY <2>3 DEF Finishes
      <4>2. job # NoId
        BY <1>1, <4>1, SchedulerAssumption DEF RunsBounded, NoId
      <4> QED  BY <1>1, <4>1, <4>2 DEF InFlight, IInv, TickHoldsItsRow
    <3>2. Cardinality(InFlight \ {job}) = f - 1 /\ IsFiniteSet(InFlight \ {job})
      BY <1>3, <3>1, FS_RemoveElement
    <3>3. g <= f - 1
      BY <2>1, <2>3, <3>2, FS_Subset
    <3> HIDE DEF f, g, held, holds, e, d
    <3>4. g + 1 <= f /\ held <= holds + 1
      BY <1>3, <1>5, <3>3
    <3>5. g <= holds + d + 0
      BY <1>a, <1>3, <1>4, <1>5, <3>4
    <3> QED  BY <3>5, <1>5, <1>0 DEF g, holds, d, OrphansCounted
  <2>4. CASE crashes' # crashes \/ faults' # faults
    <3> HIDE DEF f, g, holds, held, e, d
    <3>1. e + 1 <= d /\ held <= holds + 1
      BY <1>0, <1>5, <2>4 DEF e, d
    <3>2. g <= holds + d + 0
      BY <1>a, <1>3, <1>4, <1>5, <2>2, <3>1
    <3> QED  BY <3>2, <1>5, <1>0 DEF g, holds, d, OrphansCounted
  <2>5. CASE (pc \in HoldsRow => pc' \in HoldsRow) /\ crashes' = crashes /\ faults' = faults
    <3>1. held <= holds  BY <2>5
    <3> HIDE DEF f, g, holds, held, e, d
    <3>2. g <= holds + d + 0
      BY <1>a, <1>3, <1>4, <1>5, <2>2, <3>1
    <3> QED  BY <3>2, <1>5, <1>0 DEF g, holds, d, OrphansCounted
  <2> QED  BY <1>1, <2>3, <2>4, <2>5, TickPlaces
<1>7. CASE job' \in Ids /\ pc = "claim" /\ pc' = "fetch" /\ crashes' = crashes /\ faults' = faults
           /\ runs' = ClaimedRows(job')
  <2>1. InFlight' \subseteq InFlight \cup {job'}
    BY <1>1, <1>7, ClaimRows DEF InFlight, Ids
  <2>2. IsFiniteSet(InFlight \cup {job'}) /\ Cardinality(InFlight \cup {job'}) <= f + 1
    <3>1. CASE job' \in InFlight
      <4>1. InFlight \cup {job'} = InFlight  BY <3>1
      <4>2. f <= f + 1
        <5> HIDE DEF f
        <5> QED  BY <1>3
      <4> QED  BY <1>3, <4>1, <4>2
    <3>2. CASE job' \notin InFlight
      <4>1. IsFiniteSet(InFlight \cup {job'}) /\ Cardinality(InFlight \cup {job'}) = f + 1
        BY <1>3, <3>2, FS_AddElement
      <4>2. f + 1 <= f + 1
        <5> HIDE DEF f
        <5> QED  BY <1>3
      <4> QED  BY <4>1, <4>2
    <3> QED  BY <3>1, <3>2
  <2>3. g <= Cardinality(InFlight \cup {job'}) /\ Cardinality(InFlight \cup {job'}) \in Nat
    BY <2>1, <2>2, FS_Subset, FS_CardinalityType
  <2>4. held = 0 /\ holds = 1
    BY <1>7 DEF HoldsRow
  <2> DEFINE u == Cardinality(InFlight \cup {job'})
  <2>5. u \in Nat /\ g <= u /\ u <= f + 1  BY <2>2, <2>3
  <2> HIDE DEF f, g, holds, held, u, e, d
  <2>a. g <= f + 1 /\ held + 1 <= holds
    BY <1>3, <2>4, <2>5
  <2>6. g <= holds + d + 0
    BY <1>a, <1>3, <1>4, <1>5, <2>a
  <2> QED  BY <2>6, <1>5, <1>0 DEF g, holds, d, OrphansCounted
<1> QED  BY <1>1, <1>6, <1>7, TickPlaces

(* Live runs.                                                                  *)
LEMMA LivesStep ==
  ASSUME CountInv, BufInv', [Next]_vars, NEW c \in Account,
         \/ Shrinks(c, "live") \/ StaysEmpty(c, "live")
         \/ CommitsBlock(c, "live") \/ InsertsPicked(c, "live")
  PROVE  Cardinality(ActiveRuns(c, "live")') <=
           (IF pc' \in {"pick", "enqueue"} THEN 0 ELSE 1) + Failed'
             + Cardinality(Outside(c, "live")')
<1>1. /\ IInv /\ IInv' /\ RunsBounded /\ runs \in Seq(Run) /\ runs' \in Seq(Run)
  BY DEF CountInv, BufInv, IInv, TypeOK
<1>0. /\ Failed \in Nat /\ Failed' \in Nat /\ Failed <= Failed'
      /\ crashes' # crashes \/ faults' # faults => Failed' = Failed + 1
      /\ crashes' = crashes /\ faults' = faults => Failed' = Failed
  BY <1>1, FailedStep
<1> DEFINE a == Cardinality(ActiveRuns(c, "live"))
           b == Cardinality(ActiveRuns(c, "live")')
           n == Cardinality(Outside(c, "live"))
           m == Cardinality(Outside(c, "live")')
           x == IF pc \in {"pick", "enqueue"} THEN 0 ELSE 1
           e == Failed
           d == Failed'
           y == IF pc' \in {"pick", "enqueue"} THEN 0 ELSE 1
<1>2. a \in Nat /\ n \in Nat /\ b \in Nat /\ m \in Nat
  BY <1>1, Counted, Countable
<1>3. a <= x + e + n
  BY DEF CountInv, LivesCounted
<1>4. x \in Nat /\ y \in Nat
  OBVIOUS
<1>a. e \in Nat /\ d \in Nat /\ e <= d
  BY <1>0
<1>5. CASE Shrinks(c, "live") /\ (pc' \in {"pick", "enqueue"} => pc \in {"pick", "enqueue"})
  <2>1. b <= a /\ n <= m  BY <1>1, <1>5, ShrinkingCounts
  <2>2. x <= y  BY <1>5
  <2> HIDE DEF a, b, n, m, x, y, e, d
  <2>4. b <= y + d + m
    BY <1>a, <1>2, <1>3, <1>4, <2>1, <2>2
  <2> QED  BY <2>4 DEF b, y, m, d
<1>6. CASE /\ pc = "claim" /\ OldestPending = {} /\ runs' = runs
           /\ UNCHANGED <<crashes, faults>>
  <2>1. ActiveRuns(c, "live")' \subseteq InFlight
    BY <1>1, <1>6, NothingPending DEF ActiveRuns, InFlight, Active, Ids
  <2>2. IsFiniteSet(InFlight) /\ Cardinality(InFlight) \in Nat
    <3>1. InFlight \subseteq DOMAIN runs  BY DEF InFlight, Ids
    <3> QED  BY <1>1, <3>1, FiniteTable, FS_Subset, FS_CardinalityType
  <2>3. b <= Cardinality(InFlight)  BY <2>1, <2>2, FS_Subset
  <2>4. Cardinality(InFlight) <= 0 + e + 0
    BY <1>0, <1>6, <2>2 DEF CountInv, OrphansCounted, HoldsRow
  <2> HIDE DEF b, m, y, e, d
  <2>6. 0 <= y /\ 0 <= m  BY <1>2, <1>4
  <2>7. b <= y + d + m
    BY <1>a, <1>2, <1>4, <2>2, <2>3, <2>4, <2>6
  <2> QED  BY <2>7 DEF b, y, m, d
<1>7. CASE StaysEmpty(c, "live")
  <2>1. b = 0  BY <1>7, FS_EmptySet DEF StaysEmpty
  <2> HIDE DEF b, m, y, e, d
  <2>2. b <= y + d + m
    BY <1>a, <1>2, <1>4, <2>1
  <2> QED  BY <2>2 DEF b, y, m, d
<1>8. CASE CommitsBlock(c, "live")
  <2>1. b <= a + 1 /\ m = n + 1 /\ x = y
    BY <1>8 DEF CommitsBlock, Grows, Size
  <2> HIDE DEF a, b, n, m, x, y, e, d
  <2>2. x <= y /\ n + 1 <= m  BY <1>2, <1>4, <2>1
  <2>3. b <= y + d + m
    BY <1>a, <1>2, <1>3, <1>4, <2>1, <2>2
  <2> QED  BY <2>3 DEF b, y, m, d
<1>9. CASE InsertsPicked(c, "live")
  <2>1. b <= a + 1 /\ m = n /\ x = 0 /\ y = 1
    BY <1>9 DEF InsertsPicked, Grows, EnqueueLive
  <2> HIDE DEF a, b, n, m, x, y, e, d
  <2>2. x + 1 <= y /\ n <= m  BY <1>2, <2>1
  <2>3. b <= y + d + m
    BY <1>a, <1>2, <1>3, <1>4, <2>1, <2>2
  <2> QED  BY <2>3 DEF b, y, m, d
<1> QED  BY <1>1, <1>5, <1>6, <1>7, <1>8, <1>9, TickPlaces
(* Every step preserves the counts.                                            *)
LEMMA StepCountInv == CountInv /\ [Next]_vars => CountInv'
<1> SUFFICES ASSUME CountInv, [Next]_vars PROVE CountInv'
  OBVIOUS
<1>1. /\ BufInv'
      /\ \A c \in Account, kind \in Kind :
           \/ Shrinks(c, kind) \/ StaysEmpty(c, kind)
           \/ CommitsBlock(c, kind) \/ InsertsPicked(c, kind)
  BY TallyStep DEF CountInv
<1>2. BackfillsCounted'
  BY <1>1, BackfillsStep DEF BackfillsCounted, Kind
<1>3. LivesCounted'
  BY <1>1, LivesStep DEF LivesCounted, Kind
<1>4. OrphansCounted'
  BY <1>1, OrphansStep
<1> QED  BY <1>1, <1>2, <1>3, <1>4 DEF CountInv

(* They hold of the empty tables.                                              *)
LEMMA InitCountInv == Init => CountInv
<1> SUFFICES ASSUME Init PROVE CountInv
  OBVIOUS
<1>1. IInv /\ RunsBounded
  BY InitIInv DEF Init, RunsBounded, Ids
<1>2. \A q \in Client : req[q].buf = <<>> /\ req[q].todo = {}
  BY DEF Init, NoRequest
<1>3. \A q \in Client : \A c, kind : Buffered(q, c, kind) = {}
  BY <1>2 DEF Buffered
<1>4. OneBlock
  <2>1. 0 \in Nat  OBVIOUS
  <2> QED  BY <1>2, <1>3, <2>1 DEF OneBlock
<1>5. /\ Failed = 0 /\ pc \notin HoldsRow /\ pc \notin {"pick", "enqueue"} /\ InFlight = {}
      /\ \A c, kind : ActiveRuns(c, kind) = {}
  BY DEF Init, Failed, HoldsRow, InFlight, ActiveRuns, Ids
<1>6. \A c, kind : /\ Cardinality(ActiveRuns(c, kind)) = 0
                   /\ Cardinality(Outside(c, kind)) \in Nat
  BY <1>1, <1>5, CountsAreNat, FS_EmptySet
<1>7. BackfillsCounted
  <2>1. ASSUME NEW c \in Account
        PROVE  Cardinality(ActiveRuns(c, "backfill"))
                 <= Chunks * Cardinality(Outside(c, "backfill"))
    <3>1. Cardinality(Outside(c, "backfill")) \in Nat  BY <1>6
    <3>2. Chunks * Cardinality(Outside(c, "backfill")) \in Nat  BY <3>1, Blocks
    <3>3. Cardinality(ActiveRuns(c, "backfill")) = 0  BY <1>6
    <3> QED  BY <3>2, <3>3
  <2> QED  BY <2>1 DEF BackfillsCounted
<1>8. OrphansCounted
  BY <1>5, FS_EmptySet DEF OrphansCounted
<1>9. LivesCounted
  BY <1>5, <1>6 DEF LivesCounted
<1> QED  BY <1>1, <1>4, <1>7, <1>8, <1>9 DEF CountInv, BufInv

(* The counts are true throughout.                                             *)
THEOREM CountsHold == Spec => []CountInv
  BY InitCountInv, StepCountInv, PTL DEF Spec

(* A card never has more active backfill rows than Client requests can insert. *)
THEOREM ActiveBackfillsAlwaysBounded == Spec => []ActiveBackfillsBounded
<1>1. CountInv => ActiveBackfillsBounded
  <2> SUFFICES ASSUME CountInv, NEW c \in Account
               PROVE  Cardinality(ActiveBackfills(c)) <= Chunks * Cardinality(Client)
    BY DEF ActiveBackfillsBounded
  <2>0. ActiveBackfills(c) = ActiveRuns(c, "backfill")
    BY DEF ActiveBackfills, ActiveRuns
  <2> DEFINE a == Cardinality(ActiveRuns(c, "backfill"))
             n == Cardinality(Outside(c, "backfill"))
             m == Cardinality(Client)
             x == Chunks * n
             y == Chunks * m
  <2>1. a \in Nat /\ n \in Nat /\ m \in Nat /\ n <= m
    BY CountsAreNat DEF CountInv, BufInv
  <2>2. x \in Nat /\ y \in Nat /\ x <= y  BY <2>1, Blocks
  <2>3. a <= x  BY DEF CountInv, BackfillsCounted
  <2> HIDE DEF a, n, m, x, y
  <2>4. a <= y  BY <2>1, <2>2, <2>3
  <2> QED  BY <2>0, <2>4 DEF a, m, y
<1> QED  BY <1>1, CountsHold, PTL

(* A card never has more active live runs than one, one more for each request  *)
(* that overlaps, and one for each crash and each failed transaction.          *)
THEOREM ActiveLivesAlwaysBounded == Spec => []ActiveLivesBounded
<1>1. CountInv => ActiveLivesBounded
  <2> SUFFICES ASSUME CountInv, NEW c \in Account
               PROVE  Cardinality(ActiveLives(c)) <= 1 + Cardinality(Client) + crashes + faults
    BY DEF ActiveLivesBounded
  <2>0. ActiveLives(c) = ActiveRuns(c, "live")
    BY DEF ActiveLives, ActiveRuns
  <2> DEFINE a == Cardinality(ActiveRuns(c, "live"))
             n == Cardinality(Outside(c, "live"))
             m == Cardinality(Client)
             x == IF pc \in {"pick", "enqueue"} THEN 0 ELSE 1
  <2>1. a \in Nat /\ n \in Nat /\ m \in Nat /\ n <= m /\ x \in Nat /\ x <= 1
    BY CountsAreNat DEF CountInv, BufInv
  <2>2. crashes \in Nat /\ faults \in Nat
    BY DEF CountInv, BufInv, IInv, TypeOK
  <2>3. a <= x + (crashes + faults) + n
    BY DEF CountInv, LivesCounted, Failed
  <2> HIDE DEF a, n, m, x
  <2>4. a <= 1 + m + crashes + faults
    BY <2>1, <2>2, <2>3
  <2> QED  BY <2>0, <2>4 DEF a, m
<1> QED  BY <1>1, CountsHold, PTL
=============================================================================
