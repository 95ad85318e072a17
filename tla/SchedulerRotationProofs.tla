----------------------- MODULE SchedulerRotationProofs -----------------------
(***************************************************************************)
(* Round robin keeps the cards level, for any accounts and any number of    *)
(* polls.  Beside the tick nothing writes import_runs, so rows are enqueued *)
(* one at a time: each has ended, and its completed_at is in the table,      *)
(* before the next is inserted.  The order of the ids is then the order of   *)
(* the polls, and the card whose last poll is the oldest has no more polls   *)
(* than any other.                                                           *)
(***************************************************************************)
EXTENDS SchedulerQueueProofs

Cards == accounts \cap Pollable
Polls(c) == Cardinality(LiveRuns(c))
Behind(c, d) == \E s \in LiveRuns(d) : \A r \in LiveRuns(c) : r < s

(* Only the last row can be active, and rows complete in the order of their ids. *)
OneByOne ==
  \A r, s \in Ids : r < s =>
    /\ Terminal(runs[r])
    /\ Terminal(runs[s]) => runs[r].completed < runs[s].completed
EndedInThePast == \A r \in Ids : Terminal(runs[r]) => runs[r].completed < clock

(* A row in flight is the tick's, and while the tick picks a card none is active. *)
NoOrphans == \A r \in Ids : runs[r].status = "in_flight" => r = job
AllEnded == pc \in {"pick", "enqueue"} => \A r \in Ids : Terminal(runs[r])

(* Accounts are discovered once, before anything is enqueued.                  *)
CardsFirst ==
  /\ accounts = {} => Ids = {}
  /\ pc \in {"client_info", "save_accounts"} => accounts = {}
  /\ pc = "enqueue" => picked \in Cards

(* The card picked has no more polls than any other; a card that was polled    *)
(* before another was has no more polls than that one.                         *)
PicksTheLeast == pc = "enqueue" => \A d \in Cards : Polls(picked) <= Polls(d)
InTurn ==
  \A c, d \in Cards : /\ Polls(c) <= Polls(d) + 1
                      /\ Behind(c, d) => Polls(c) <= Polls(d)

InOrder == OneByOne /\ EndedInThePast /\ NoOrphans /\ AllEnded
Undisturbed == Client = {} /\ crashes + faults = 0
Rotation == Undisturbed => InOrder /\ CardsFirst /\ PicksTheLeast /\ InTurn

(* A step before which something was disturbed is not our concern.             *)
LEMMA UndisturbedBefore ==
  ASSUME IInv, [Next]_vars, Undisturbed'
  PROVE  /\ Undisturbed /\ Failed' = Failed /\ UNCHANGED <<crashes, faults>>
         /\ ~Crash /\ ~TickFault /\ ~Requests
<1>1. /\ crashes \in Nat /\ faults \in Nat /\ Client = {} /\ crashes' + faults' = 0
      /\ crashes' \in Nat /\ faults' \in Nat
  BY StepIInv DEF IInv, TypeOK, Undisturbed
<1>2. crashes' = crashes /\ faults' = faults
  <2>1. \/ crashes' = crashes /\ faults' = faults
        \/ crashes' = crashes + 1 /\ faults' = faults
        \/ crashes' = crashes /\ faults' = faults + 1
    BY TickPlaces
  <2>2. CASE crashes' = crashes + 1 /\ faults' = faults
    BY <1>1, <2>2
  <2>3. CASE crashes' = crashes /\ faults' = faults + 1
    BY <1>1, <2>3
  <2> QED  BY <2>1, <2>2, <2>3
<1>3. ~Crash /\ ~TickFault
  BY <1>1, <1>2 DEF Crash, TickFault
<1>4. ~Requests
  BY <1>1 DEF Requests
<1> QED  BY <1>1, <1>2, <1>3, <1>4 DEF Undisturbed, Failed

(* A step that ends no row and adds none leaves the order of the rows alone.   *)
LEMMA OrderKept ==
  ASSUME OneByOne, EndedInThePast, DOMAIN runs' = Ids, clock' = clock,
         \A r \in Ids : /\ Terminal(runs'[r]) <=> Terminal(runs[r])
                        /\ runs'[r].completed = runs[r].completed
  PROVE  OneByOne' /\ EndedInThePast'
  BY DEF OneByOne, EndedInThePast, Ids

(* A mark_* gives the last row the latest completed_at.                        *)
LEMMA OrderMarked ==
  ASSUME IInv, InOrder, job \in Ids, runs[job].status = "in_flight",
         runs' \in {MarkDone(job), MarkError(job)}, clock' = clock + 1,
         job' = NoId, pc' \notin {"pick", "enqueue"}
  PROVE  InOrder'
<1>1. runs \in Seq(Run) /\ clock \in Nat /\ Ids = 1..Len(runs) /\ Len(runs) \in Nat
  BY DEF IInv, TypeOK, Ids
<1>2. /\ DOMAIN runs' = Ids
      /\ runs'[job].status \in {"done", "error"}
      /\ \A s \in Ids \ {job} : runs'[s] = runs[s]
  BY <1>1, MarkedRows
<1>3. runs'[job].completed = clock
  <2>1. runs[job] \in Run  BY DEF IInv, TypeOK, Ids
  <2> DEFINE D == [runs[job] EXCEPT !.status = "done", !.completed = clock]
             E == [runs[job] EXCEPT !.status = "error", !.completed = clock]
  <2>2. D.completed = clock /\ E.completed = clock  BY <2>1 DEF Run
  <2>3. MarkDone(job)[job] = D /\ MarkError(job)[job] = E
    BY DEF MarkDone, MarkError, Ids
  <2> HIDE DEF D, E
  <2> QED  BY <2>2, <2>3
<1>4. \A s \in Ids : ~(job < s)
  BY DEF InOrder, OneByOne, Terminal
<1>5. \A r \in Ids \ {job} : r < job /\ Terminal(runs[r]) /\ runs[r].completed < clock
  BY <1>1, <1>4 DEF InOrder, OneByOne, EndedInThePast
<1>6. \A r \in Ids : Terminal(runs'[r]) /\ runs'[r].completed < clock'
  BY <1>1, <1>2, <1>3, <1>5, CompletedIsTime DEF Terminal
<1>7. OneByOne'
  BY <1>1, <1>2, <1>3, <1>5, <1>6 DEF InOrder, OneByOne, Ids
<1>8. EndedInThePast' /\ NoOrphans'
  BY <1>2, <1>6 DEF EndedInThePast, NoOrphans, Terminal, Ids
<1> QED  BY <1>7, <1>8 DEF InOrder, AllEnded

(* A row inserted when all others have ended comes last.                       *)
LEMMA OrderAppended ==
  ASSUME IInv, InOrder, pc = "enqueue", NEW row \in Run, row.status = "pending",
         runs' = Append(runs, row), clock' = clock + 1, job' = job, pc' = "idle"
  PROVE  InOrder'
<1>1. runs \in Seq(Run) /\ clock \in Nat /\ Ids = 1..Len(runs) /\ Len(runs) \in Nat
  BY DEF IInv, TypeOK, Ids
<1>2. /\ DOMAIN runs' = 1..(Len(runs) + 1)
      /\ runs'[Len(runs) + 1] = row
      /\ \A r \in Ids : runs'[r] = runs[r]
  BY <1>1
<1>3. ~Terminal(row)
  BY DEF Terminal
<1>4. \A r \in Ids : Terminal(runs[r])
  BY DEF InOrder, AllEnded
<1>5. OneByOne'
  BY <1>1, <1>2, <1>3, <1>4 DEF InOrder, OneByOne, Ids
<1>6. EndedInThePast'
  <2>1. ASSUME NEW r \in Ids PROVE runs[r].completed < clock'
    <3>1. runs[r].completed \in Nat  BY <1>1, CompletedIsTime
    <3> QED  BY <1>1, <1>4, <3>1 DEF InOrder, EndedInThePast
  <2> QED  BY <1>1, <1>2, <1>3, <2>1 DEF EndedInThePast, Ids
<1>7. NoOrphans'
  BY <1>1, <1>2 DEF InOrder, NoOrphans, Ids
<1> QED  BY <1>5, <1>6, <1>7 DEF InOrder, AllEnded

(* The order of the rows survives every step.                                  *)
LEMMA OrderStep ==
  ASSUME IInv, InOrder, [Next]_vars, Undisturbed'
  PROVE  InOrder'
<1>1. runs \in Seq(Run) /\ clock \in Nat
  BY DEF IInv, TypeOK
<1>2. /\ pc \in HoldsRow => job \in Ids /\ runs[job].status = "in_flight"
      /\ pc \notin HoldsRow => job = NoId
  BY DEF IInv, TickHoldsItsRow
<1>3. CASE /\ UNCHANGED <<runs, job, clock>>
           /\ pc' \in {"pick", "enqueue"} => pc \in {"pick", "enqueue"}
  BY <1>3 DEF InOrder, OneByOne, EndedInThePast, NoOrphans, AllEnded, Ids
<1>4. CASE Elapse
  <2>1. runs' = AgedRows /\ UNCHANGED <<job, clock, pc>>
    BY <1>4 DEF Elapse, AgedRows, tickVars
  <2>2. /\ DOMAIN runs' = Ids
        /\ \A r \in Ids : /\ runs'[r].status = runs[r].status
                          /\ runs'[r].completed = runs[r].completed
    BY <1>1, <2>1, ElapseRows
  <2>3. OneByOne' /\ EndedInThePast'
    BY <2>1, <2>2, OrderKept DEF InOrder, Terminal
  <2>4. NoOrphans' /\ AllEnded'
    BY <2>1, <2>2 DEF InOrder, NoOrphans, AllEnded, Terminal, Ids
  <2> QED  BY <2>3, <2>4 DEF InOrder
<1>5. CASE BootRecover \/ TickSweep
  <2>1. /\ runs' = RecoverInFlight /\ UNCHANGED <<job, clock>>
        /\ pc' \notin {"pick", "enqueue"}
    BY <1>5 DEF BootRecover, TickSweep, tickVars, IInv, TickInRunningProcess
  <2>2. /\ DOMAIN runs' = Ids
        /\ \A r \in Ids : \/ runs'[r] = runs[r]
                          \/ /\ runs[r].status = "in_flight"
                             /\ runs'[r].status = "pending"
                             /\ runs'[r].completed = runs[r].completed
    BY <1>1, <2>1, RecoverRows
  <2>3. OneByOne' /\ EndedInThePast'
    BY <2>1, <2>2, OrderKept DEF InOrder, Terminal
  <2>4. NoOrphans' /\ AllEnded'
    BY <2>1, <2>2 DEF InOrder, NoOrphans, AllEnded, Ids
  <2> QED  BY <2>3, <2>4 DEF InOrder
<1>6. CASE ClaimNextPending /\ job' # job
  <2>1. /\ job' \in Ids /\ runs' = ClaimedRows(job') /\ pc' = "fetch" /\ clock' = clock
        /\ runs[job'].status = "pending" /\ pc = "claim"
    BY <1>6 DEF ClaimNextPending, ClaimedRows, OldestPending
  <2>2. /\ DOMAIN runs' = Ids /\ runs'[job'].status = "in_flight"
        /\ \A r \in Ids \ {job'} : runs'[r] = runs[r]
        /\ \A r \in Ids : runs'[r].completed = runs[r].completed
    <3>1. /\ DOMAIN runs' = Ids /\ runs'[job'].status = "in_flight"
          /\ \A r \in Ids \ {job'} : runs'[r] = runs[r]
      BY <1>1, <2>1, ClaimRows
    <3>2. runs[job'] \in Run  BY <1>1, <2>1 DEF Ids
    <3> DEFINE T == [runs[job'] EXCEPT !.status = "in_flight", !.age = "recent"]
    <3>3. T.completed = runs[job'].completed  BY <3>2 DEF Run
    <3>4. runs'[job'] = T  BY <2>1 DEF ClaimedRows, Ids
    <3> HIDE DEF T
    <3> QED  BY <3>1, <3>3, <3>4
  <2>3. OneByOne' /\ EndedInThePast'
    BY <2>1, <2>2, OrderKept DEF InOrder, Terminal
  <2>4. \A r \in Ids : runs[r].status # "in_flight"
    BY <1>2, <2>1, SchedulerAssumption, <1>1 DEF InOrder, NoOrphans, HoldsRow, NoId, Ids
  <2>5. NoOrphans' /\ AllEnded'
    BY <2>1, <2>2, <2>4 DEF NoOrphans, AllEnded, Ids
  <2> QED  BY <2>3, <2>5 DEF InOrder
<1>7. CASE ClaimNextPending /\ job' = job
  <2>1. UNCHANGED <<runs, job, clock>> /\ OldestPending = {} /\ pc = "claim"
    <3>1. \A r \in OldestPending : r # NoId
      BY <1>1 DEF OldestPending, NoId, Ids
    <3> QED  BY <1>2, <1>7, <3>1 DEF ClaimNextPending, HoldsRow
  <2>2. \A r \in Ids : Terminal(runs[r])
    <3>1. \A r \in Ids : runs[r] \in Run  BY <1>1 DEF Ids
    <3>2. \A r \in Ids : runs[r].status \notin {"pending", "in_flight"}
      BY <1>1, <1>2, <2>1, NothingPending DEF InOrder, NoOrphans, HoldsRow, NoId, Ids
    <3> QED  BY <3>1, <3>2 DEF Run, Status, Terminal
  <2> QED  BY <2>1, <2>2 DEF InOrder, OneByOne, EndedInThePast, NoOrphans, AllEnded, Ids
<1>8. CASE EnqueueLive /\ runs' # runs
  <2> DEFINE row == NewRow(picked, "live", clock)
  <2>1. row \in Run /\ row.status = "pending"
    BY <1>1, <1>8, RowsPending DEF EnqueueLive, IInv, PickedKnown, Kind
  <2>2. /\ pc = "enqueue" /\ runs' = Append(runs, row) /\ clock' = clock + 1
        /\ job' = job /\ pc' = "idle"
    BY <1>8 DEF EnqueueLive
  <2> HIDE DEF row
  <2> QED  BY <2>1, <2>2, OrderAppended
<1>9. CASE SaveStatement \/ MarkRunError
  <2>1. /\ job \in Ids /\ runs[job].status = "in_flight"
        /\ runs' \in {MarkDone(job), MarkError(job)} /\ clock' = clock + 1
        /\ job' = NoId /\ pc' \notin {"pick", "enqueue"}
    BY <1>2, <1>9 DEF SaveStatement, MarkRunError, HoldsRow
  <2> QED  BY <2>1, OrderMarked
<1>10. CASE \/ Start \/ BootRead \/ RevokeToken \/ RotateToken \/ TickStart
            \/ EnsureAccountsDiscovered \/ DiscoverAnswer \/ SaveAccounts
            \/ PickNextActiveCard \/ FetchAnswer \/ SetStateAuthFailed
            \/ EnqueueLive /\ runs' = runs
            \/ UNCHANGED vars
  <2>1. /\ UNCHANGED <<runs, job>>
        /\ pc' \in {"pick", "enqueue"} => pc \in {"pick", "enqueue"}
    BY <1>10 DEF Start, BootRead, RevokeToken, RotateToken, TickStart,
       EnsureAccountsDiscovered, DiscoverAnswer, SaveAccounts, PickNextActiveCard,
       FetchAnswer, SetStateAuthFailed, EnqueueLive, vars, dbVars, tickVars
  <2>2. clock' = clock
    <3>1. \A row : Append(runs, row) # runs
      <4>1. \A row : Len(Append(runs, row)) = Len(runs) + 1 /\ Len(runs) \in Nat
        BY <1>1
      <4> QED  BY <4>1
    <3> QED
      BY <1>10, <3>1 DEF Start, BootRead, RevokeToken, RotateToken, TickStart,
       EnsureAccountsDiscovered, DiscoverAnswer, SaveAccounts, PickNextActiveCard,
       FetchAnswer, SetStateAuthFailed, EnqueueLive, vars, dbVars, tickVars
  <2> QED  BY <1>3, <2>1, <2>2
<1> QED
  BY <1>4, <1>5, <1>6, <1>7, <1>8, <1>9, <1>10, UndisturbedBefore DEF Next, Tick

(* Only the tick's enqueue_live inserts.                                       *)
LEMMA NoInsert ==
  ASSUME IInv, [Next]_vars, Undisturbed', ~EnqueueLive
  PROVE  DOMAIN runs' = Ids
<1>1. runs \in Seq(Run)
  BY DEF IInv, TypeOK
<1>2. CASE Elapse \/ BootRecover \/ TickSweep
  BY <1>1, <1>2, ElapseRows, RecoverRows DEF Elapse, AgedRows, BootRecover, TickSweep
<1>3. CASE ClaimNextPending
  <2>1. ASSUME NEW r \in OldestPending, runs' = ClaimedRows(r) PROVE DOMAIN runs' = Ids
    BY <1>1, <2>1, ClaimRows DEF OldestPending
  <2> QED  BY <1>3, <2>1 DEF ClaimNextPending, ClaimedRows, Ids
<1>4. CASE SaveStatement \/ MarkRunError
  <2>1. job \in Ids
    BY <1>4 DEF SaveStatement, MarkRunError, IInv, TickHoldsItsRow, HoldsRow
  <2> QED  BY <1>1, <1>4, <2>1, MarkedRows DEF SaveStatement, MarkRunError, IInv, TypeOK
<1>5. CASE UNCHANGED runs
  BY <1>5 DEF Ids
<1> QED
  BY <1>2, <1>3, <1>4, <1>5, UndisturbedBefore
  DEF Next, Tick, vars, dbVars, Start, BootRead, RevokeToken, RotateToken, TickStart,
      EnsureAccountsDiscovered, DiscoverAnswer, SaveAccounts, PickNextActiveCard,
      FetchAnswer, SetStateAuthFailed

(* Accounts are saved while there are none, and cards picked from those saved. *)
LEMMA CardsFirstStep ==
  ASSUME IInv, CardsFirst, [Next]_vars, Undisturbed'
  PROVE  CardsFirst' /\ (accounts' = accounts \/ (accounts = {} /\ pc' = "claim"))
<1> DEFINE Goal == CardsFirst' /\ (accounts' = accounts \/ (accounts = {} /\ pc' = "claim"))
<1>1. ASSUME DOMAIN runs' = Ids,
             \/ UNCHANGED <<accounts, pc, picked>>
             \/ accounts' = accounts /\ pc' \notin {"client_info", "save_accounts", "enqueue"}
             \/ accounts' = accounts /\ accounts = {} /\ pc' = "client_info"
             \/ accounts' = accounts /\ pc = "client_info" /\ pc' # "enqueue"
             \/ pc = "save_accounts" /\ accounts' # {} /\ pc' = "claim"
             \/ accounts' = accounts /\ pc' = "enqueue" /\ picked' \in NextCard
      PROVE  Goal
  <2>1. NextCard \subseteq Cards  BY DEF NextCard, Eligible, Cards
  <2> QED  BY <1>1, <2>1 DEF CardsFirst, Cards, Ids
<1>2. CASE EnqueueLive
  <2>1. accounts' = accounts /\ accounts # {} /\ pc' = "idle"
    BY <1>2 DEF EnqueueLive, CardsFirst, Cards
  <2> QED  BY <2>1 DEF CardsFirst
<1>3. CASE ~EnqueueLive
  <2>1. DOMAIN runs' = Ids
    BY <1>3, NoInsert
  <2>2. CASE TickStart \/ EnsureAccountsDiscovered \/ DiscoverAnswer \/ SaveAccounts
             \/ PickNextActiveCard \/ FetchAnswer \/ SetStateAuthFailed
    BY <1>1, <2>1, <2>2
    DEF TickStart, EnsureAccountsDiscovered, DiscoverAnswer, SaveAccounts,
        PickNextActiveCard, FetchAnswer, SetStateAuthFailed, dbVars
  <2>3. CASE TickSweep \/ ClaimNextPending \/ SaveStatement \/ MarkRunError
    BY <1>1, <2>1, <2>3 DEF TickSweep, ClaimNextPending, SaveStatement, MarkRunError
  <2>4. CASE Start \/ BootRecover \/ BootRead \/ Elapse \/ RevokeToken \/ RotateToken
             \/ UNCHANGED vars
    BY <1>1, <2>1, <2>4
    DEF Start, BootRecover, BootRead, Elapse, RevokeToken, RotateToken, dbVars, tickVars, vars
  <2> QED
    BY <1>3, <2>2, <2>3, <2>4, UndisturbedBefore DEF Next, Tick
<1> QED  BY <1>2, <1>3

(* _pick_next_active_card returns a card that was polled before all others, or *)
(* never.                                                                      *)
LEMMA PickedLeast ==
  ASSUME IInv, InOrder, InTurn, pc = "pick", NEW c \in NextCard, NEW d \in Cards
  PROVE  Polls(c) <= Polls(d)
<1>1. runs \in Seq(Run) /\ \A r \in Ids : Terminal(runs[r]) /\ ~Active(runs[r])
  BY DEF IInv, TypeOK, InOrder, AllEnded, Terminal, Active
<1>2. \A x : /\ LiveRuns(x) \subseteq Ids /\ IsFiniteSet(LiveRuns(x))
             /\ Polls(x) \in Nat
  <2>1. \A x : LiveRuns(x) \subseteq Ids /\ IsFiniteSet(Ids)
    BY <1>1, FiniteTable DEF LiveRuns, Ids
  <2> QED  BY <2>1, FS_Subset, FS_CardinalityType DEF Polls
<1>3. c \in Cards /\ Eligible(d)
  BY <1>1 DEF NextCard, Eligible, Cards, ActiveBackfills, LastLive, LiveRuns
<1>4. CASE NeverPolled(c)
  BY <1>2, <1>4, FS_EmptySet DEF NeverPolled, Polls
<1>5. CASE c = d
  BY <1>2, <1>5
<1>6. CASE ~NeverPolled(c) /\ c # d
  <2>1. LiveRuns(c) # {} /\ LiveRuns(d) # {} /\ PolledNoLaterThan(c, d)
    BY <1>3, <1>6, SchedulerAssumption DEF NextCard, NeverPolled, Cards
  <2>2. \A x : LastPoll(x) = LastLive(x) /\ EndedPolls(x) = LiveRuns(x)
    BY <1>1, <1>2 DEF LastPoll, LastLive, EndedPolls, LiveRuns
  <2>3. LastLive(c) # {} /\ LastLive(d) # {}
    BY <1>1, <2>1, <2>2, LatestExists
  <2>4. PICK r \in LastLive(c) : TRUE  BY <2>3
  <2>5. PICK s \in LastLive(d) : TRUE  BY <2>3
  <2>6. /\ r \in LiveRuns(c) /\ s \in LiveRuns(d)
        /\ runs[r].completed <= runs[s].completed
        /\ \A t \in LiveRuns(c) : runs[t].completed <= runs[r].completed
    BY <2>1, <2>4, <2>5 DEF PolledNoLaterThan, LastLive
  <2>7. \A t \in LiveRuns(c) : runs[t].completed \in Nat /\ t \in Nat /\ t # s
    BY <1>1, <1>2, <1>6, <2>6, CompletedIsTime DEF LiveRuns, Ids
  <2>8. runs[s].completed \in Nat /\ s \in Nat /\ s \in Ids
    BY <1>1, <1>2, <2>6, CompletedIsTime DEF Ids
  <2>9. ASSUME NEW t \in LiveRuns(c) PROVE t < s
    <3>1. runs[t].completed <= runs[s].completed
      <4>1. /\ runs[t].completed \in Nat /\ runs[r].completed \in Nat
            /\ runs[t].completed <= runs[r].completed
        BY <2>6, <2>7
      <4> QED  BY <2>6, <2>8, <4>1
    <3>2. t \in Ids /\ t \in Nat /\ t # s /\ runs[t].completed \in Nat
      BY <1>2, <2>7
    <3>3. CASE s < t
      <4>1. runs[s].completed < runs[t].completed
        BY <1>1, <2>8, <3>2, <3>3 DEF InOrder, OneByOne
      <4> QED  BY <2>8, <3>1, <3>2, <4>1
    <3> QED  BY <2>8, <3>2, <3>3
  <2>10. Behind(c, d)  BY <2>6, <2>9 DEF Behind
  <2> QED  BY <1>3, <2>10 DEF InTurn
<1> QED  BY <1>4, <1>5, <1>6

(* The number of polls of a card is finite, and 0 for a card never polled.     *)
LEMMA PollsAreNat ==
  ASSUME runs \in Seq(Run)
  PROVE  \A c : Polls(c) \in Nat /\ (LiveRuns(c) = {} => Polls(c) = 0)
<1>1. \A c : LiveRuns(c) \subseteq Ids /\ IsFiniteSet(Ids)
  BY FiniteTable DEF LiveRuns, Ids
<1>2. \A c : IsFiniteSet(LiveRuns(c))
  BY <1>1, FS_Subset
<1> QED  BY <1>2, FS_CardinalityType, FS_EmptySet DEF Polls

(* A poll of the card with the fewest leaves the cards level.                  *)
LEMMA LevelEnqueue ==
  ASSUME IInv, CardsFirst, PicksTheLeast, InTurn, EnqueueLive, runs' # runs
  PROVE  InTurn'
<1>0. PICK p : p = picked  OBVIOUS
<1> DEFINE n == Len(runs) + 1
           row == NewRow(p, "live", clock)
<1>1. /\ runs \in Seq(Run) /\ clock \in Nat /\ Ids = 1..Len(runs) /\ Len(runs) \in Nat
      /\ n \in Nat /\ n \notin Ids /\ p \in Cards /\ accounts' = accounts
      /\ runs' = Append(runs, row) /\ pc = "enqueue"
  BY <1>0 DEF IInv, TypeOK, Ids, CardsFirst, EnqueueLive
<1>2. /\ DOMAIN runs' = Ids \cup {n} /\ runs'[n] = row
      /\ \A r \in Ids : runs'[r] = runs[r]
      /\ row.account = p /\ row.kind = "live"
  <2>1. row.account = p /\ row.kind = "live"
    BY DEF NewRow
  <2> HIDE DEF row
  <2> QED  BY <1>1, <2>1
<1> HIDE DEF n, row
<1>3. /\ LiveRuns(p)' = LiveRuns(p) \cup {n}
      /\ \A d : d # p => LiveRuns(d)' = LiveRuns(d)
      /\ \A d : LiveRuns(d) \subseteq Ids
  BY <1>1, <1>2 DEF LiveRuns, Ids
<1>4. \A d : Polls(d) \in Nat /\ IsFiniteSet(LiveRuns(d))
  <2>1. \A d : IsFiniteSet(LiveRuns(d))
    BY <1>1, <1>3, FiniteTable, FS_Subset DEF Ids
  <2> QED  BY <1>1, <2>1, PollsAreNat
<1>5. /\ Polls(p)' = Polls(p) + 1
      /\ \A d : d # p => Polls(d)' = Polls(d)
  <2>1. n \notin LiveRuns(p)  BY <1>1, <1>3
  <2> QED  BY <1>3, <1>4, <2>1, FS_AddElement DEF Polls
<1>6. \A d \in Cards : Polls(p) <= Polls(d) /\ Polls(d) <= Polls(p) + 1
  BY <1>0, <1>1 DEF PicksTheLeast, InTurn
<1>7. ASSUME NEW d \in Cards, d # p, Behind(p, d)' PROVE FALSE
  \* the new row comes after all others
  <2>1. PICK s \in LiveRuns(d)' : \A r \in LiveRuns(p)' : r < s
    BY <1>7 DEF Behind
  <2>2. s \in Ids /\ n < s  BY <1>3, <1>7, <2>1
  <2> QED  BY <1>1, <2>2 DEF n
<1>8. ASSUME NEW c \in Cards, NEW d \in Cards
      PROVE  /\ Polls(c)' <= Polls(d)' + 1
             /\ Behind(c, d)' => Polls(c)' <= Polls(d)'
  <2>0. Polls(c) \in Nat /\ Polls(d) \in Nat /\ Polls(p) \in Nat  BY <1>4
  <2>1. CASE c = p /\ d = p
    BY <1>5, <2>0, <2>1
  <2>2. CASE c = p /\ d # p
    BY <1>5, <1>6, <1>7, <2>0, <2>2
  <2>3. CASE c # p /\ d = p
    BY <1>5, <1>6, <2>0, <2>3
  <2>4. CASE c # p /\ d # p
    <3>1. LiveRuns(c)' = LiveRuns(c) /\ LiveRuns(d)' = LiveRuns(d)
      BY <1>3, <2>4
    <3>2. Behind(c, d)' => Behind(c, d)
      BY <3>1 DEF Behind
    <3>3. Polls(c) <= Polls(d) + 1 /\ (Behind(c, d) => Polls(c) <= Polls(d))
      BY DEF InTurn
    <3> QED  BY <1>5, <2>4, <3>2, <3>3
  <2> QED  BY <2>1, <2>2, <2>3, <2>4
<1> QED  BY <1>1, <1>8 DEF InTurn, Cards

(* The steps that insert no row keep the cards level.                          *)
LEMMA LevelStep ==
  ASSUME IInv, InOrder, CardsFirst, PicksTheLeast, InTurn, [Next]_vars, Undisturbed'
  PROVE  PicksTheLeast' /\ InTurn'
<1>1. /\ runs \in Seq(Run) /\ runs' \in Seq(Run) /\ RowsKept
      /\ CardsFirst' /\ (accounts' = accounts \/ (accounts = {} /\ pc' = "claim"))
  BY StepIInv, SchedulerKeeps, CardsFirstStep DEF IInv, TypeOK
<1>2. CASE EnqueueLive /\ runs' # runs
  BY <1>2, LevelEnqueue DEF EnqueueLive, PicksTheLeast
<1>3. CASE DOMAIN runs' = Ids
  <2>1. \A c : LiveRuns(c)' = LiveRuns(c) /\ Polls(c)' = Polls(c)
    BY <1>1, <1>3 DEF RowsKept, SameRow, LiveRuns, Polls, Ids
  <2>2. CASE accounts = {} /\ pc' = "claim"
    <3>1. \A c : LiveRuns(c) = {} /\ Polls(c) = 0 /\ Polls(c) \in Nat
      BY <1>1, <2>2, PollsAreNat DEF CardsFirst, LiveRuns
    <3> QED  BY <2>1, <2>2, <3>1 DEF InTurn, PicksTheLeast, Behind
  <2>3. CASE accounts' = accounts
    <3>1. InTurn'
      BY <2>1, <2>3 DEF InTurn, Cards, Behind
    <3>2. CASE pc' # "enqueue"
      BY <3>1, <3>2 DEF PicksTheLeast
    <3>3. CASE pc = "enqueue" /\ picked' = picked
      BY <2>1, <2>3, <3>1, <3>3 DEF PicksTheLeast, Cards
    <3>4. CASE PickNextActiveCard
      <4>1. ASSUME pc' = "enqueue" PROVE pc = "pick" /\ picked' \in NextCard
        BY <3>4, <4>1 DEF PickNextActiveCard
      <4> QED  BY <2>1, <2>3, <3>1, <4>1, PickedLeast DEF PicksTheLeast, Cards
    <3>5. pc' = "enqueue" => (pc = "enqueue" /\ picked' = picked) \/ PickNextActiveCard
      BY UndisturbedBefore
      DEF Next, Tick, vars, dbVars, tickVars, Start, BootRecover, BootRead, Elapse, RevokeToken,
          RotateToken, TickStart, TickSweep, EnsureAccountsDiscovered, DiscoverAnswer,
          SaveAccounts, ClaimNextPending, EnqueueLive, FetchAnswer, SaveStatement,
          MarkRunError, SetStateAuthFailed
    <3> QED  BY <3>2, <3>3, <3>4, <3>5
  <2> QED  BY <1>1, <2>2, <2>3
<1>4. DOMAIN runs' = Ids \/ (EnqueueLive /\ runs' # runs)
  <2>1. CASE ~EnqueueLive
    BY <2>1, NoInsert
  <2>2. CASE EnqueueLive /\ runs' = runs
    BY <2>2 DEF Ids
  <2> QED  BY <2>1, <2>2
<1> QED  BY <1>2, <1>3, <1>4

-----------------------------------------------------------------------------
(* The invariant survives every step.                                          *)
LEMMA RotationStep == IInv /\ Rotation /\ [Next]_vars => Rotation'
<1> SUFFICES ASSUME IInv, Rotation, [Next]_vars, Undisturbed'
             PROVE  InOrder' /\ CardsFirst' /\ PicksTheLeast' /\ InTurn'
  BY DEF Rotation
<1>1. InOrder /\ CardsFirst /\ PicksTheLeast /\ InTurn
  BY UndisturbedBefore DEF Rotation
<1> QED  BY <1>1, OrderStep, CardsFirstStep, LevelStep

(* It holds of the empty tables. *)
LEMMA RotationInit == Init => Rotation
<1> SUFFICES ASSUME Init PROVE Rotation
  OBVIOUS
<1>1. Ids = {} /\ Cards = {} /\ accounts = {} /\ pc = "idle"
  BY DEF Init, Ids, Cards
<1> QED
  BY <1>1 DEF Rotation, InOrder, OneByOne, EndedInThePast, NoOrphans, AllEnded, CardsFirst,
     PicksTheLeast, InTurn

(* The order of the polls is kept throughout. *)
THEOREM RotationHolds == Spec => []Rotation
  BY RotationInit, RotationStep, Invariance, PTL DEF Spec

(* With nothing but the tick at work, and until something fails, no card is    *)
(* ever more than one poll ahead of another.                                   *)
THEOREM CardsStayLevel == Spec => []RotationLevel
<1>1. Rotation => RotationLevel
  BY DEF Rotation, Undisturbed, InTurn, RotationLevel, Cards, Polls
<1> QED  BY <1>1, RotationHolds, PTL
=============================================================================
