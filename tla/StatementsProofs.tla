-------------------------- MODULE StatementsProofs --------------------------
(***************************************************************************)
(* Proofs about Statements, for any items, accounts, clients, page size and  *)
(* lengths of windows: what a completed run has stored of the window it was  *)
(* given.  Statements refines Scheduler, so the invariant proved there holds *)
(* here too and is used throughout.                                          *)
(***************************************************************************)
EXTENDS Statements, SchedulerQueueProofs

USE SchedulerAssumption, StatementsAssumption

-----------------------------------------------------------------------------
(* Every step of Statements is one of Scheduler, or leaves it alone.           *)
LEMMA StepRefines == SNext => [Next]_vars
<1> SUFFICES ASSUME SNext PROVE [Next]_vars  OBVIOUS
<1>1. CASE Pass \/ \E i \in Item : Post(i) \/ Clear(i)  BY <1>1 DEF Pass, Post, Clear
<1>2. CASE EnqueueLiveWindow \/ FetchStatement \/ SaveItems \/ CrashItems \/ TickFaultItems
  BY <1>2 DEF EnqueueLiveWindow, FetchStatement, SaveItems, CrashItems, TickFaultItems,
     Next, Tick
<1>3. ASSUME NEW q \in Client, Ask(q) \/ CommitWindows(q) \/ AbortWindows(q) PROVE Next
  BY <1>3 DEF Ask, CommitWindows, AbortWindows, Next, Requests
<1>4. CASE Elsewhere  BY <1>4 DEF Elsewhere, Next, Tick, Requests
<1> QED  BY <1>1, <1>2, <1>3, <1>4 DEF SNext

(* The scheduler with its data is a refinement of the scheduler without.       *)
THEOREM RefinesScheduler == SSpec => Spec
<1>1. SInit => Init  BY DEF SInit
<1>2. [SNext]_allVars => [Next]_vars  BY StepRefines DEF allVars
<1> QED  BY <1>1, <1>2, PTL DEF SSpec, Spec

(* Everything SchedulerProofs proves therefore holds with the data.            *)
THEOREM SchedulerInvariant == SSpec => []IInv
  BY RefinesScheduler, Invariance, PTL

(* So does the queue: windows, statements and rows come and go by its steps.    *)
(* A statement is fetched for a run by one holder, and a run is finished once.  *)
THEOREM StatementsKeepTheQueue == SSpec => ImplementsQueue /\ TerminalIsFinal
  BY RefinesScheduler, QueueImplemented, TerminalAlwaysFinal, PTL

(* And what the user is told: a poll that is committed with its items is never  *)
(* taken back, and a backfill whose chunks are fetched never starts again.      *)
THEOREM StatementsKeepTheStatus == SSpec => LastPollNeverGoesBack /\ BackfillOnlyProgresses
  BY RefinesScheduler, LastPollOnlyAdvances, BackfillNeverGoesBack, PTL

(* And the bounds on what can pile up for a card.                              *)
THEOREM StatementsKeepTheBounds ==
  SSpec => [](ActiveLivesBounded /\ ActiveBackfillsBounded /\ RejectionsBounded)
  BY RefinesScheduler, ActiveLivesAlwaysBounded, ActiveBackfillsAlwaysBounded,
     RejectionsAlwaysBounded, PTL

-----------------------------------------------------------------------------
(* The invariant of the data.                                                  *)

(* A request asked in the past for rows of its own kind.                       *)
AskedPast == \A q \in Client : asked[q] <= now
KindOf(op) == IF op = "import" THEN "live" ELSE "backfill"
BufKinds ==
  \A q \in Client : \A k \in DOMAIN req[q].buf : req[q].buf[k].kind = KindOf(req[q].op)

(* Live windows are as long as LIVE_POLL_LOOKBACK.                             *)
LiveWindows ==
  \A r \in Ids : runs[r].kind = "live" => window[r].from = window[r].to - Lookback

(* The bank reports the past, and an item clears no earlier than it happens.   *)
Past == \A i \in Item : /\ time[i] <= now /\ cleared[i] <= now
                        /\ cleared[i] # 0 => time[i] # 0 /\ time[i] <= cleared[i]

(* What a window holds that its end cannot have missed: an item of the very    *)
(* instant the window ends may be reported after the answer.                   *)
Reach(r) == {i \in InWindow(r) : time[i] < window[r].to}

AnswerInSave == pc # "save" => answer = Nothing
Fetched ==
  \A r \in Ids : pc = "save" /\ r = job /\ ~Cut(r) => Reach(r) \subseteq DOMAIN answer
StoredWhole == \A r \in Ids : Done(r) /\ ~Cut(r) => Reach(r) \subseteq DOMAIN rows

(* An answer in hand is newer than every window already stored.                *)
FreshAnswer ==
  \A i \in DOMAIN answer : answer[i] /\ cleared[i] # 0 =>
    \A r \in Ids : Done(r) \/ r = job => window[r].to <= cleared[i]

SInv == /\ IInv /\ STypeOK /\ AskedPast /\ BufKinds /\ LiveWindows /\ Past
        /\ AnswerInSave /\ Fetched /\ StoredWhole /\ FreshAnswer /\ StaleHoldOutOfReach

-----------------------------------------------------------------------------
(* Requests.                                                                   *)

(* Sequences over the same indices are equally long.                           *)
LEMMA SameInterval ==
  ASSUME NEW m \in Nat, NEW n \in Nat, 1..m = 1..n
  PROVE  m = n
<1>1. m = 0 \/ m \in 1..n
  <2>1. m = 0 \/ m \in 1..m  OBVIOUS
  <2> QED  BY <2>1
<1>2. n = 0 \/ n \in 1..m
  <2>1. n = 0 \/ n \in 1..n  OBVIOUS
  <2> QED  BY <2>1
<1>3. \A k \in 1..n : k <= n  OBVIOUS
<1>4. \A k \in 1..m : k <= m  OBVIOUS
<1> QED  BY <1>1, <1>2, <1>3, <1>4

(* Rows inserted for a card are of the kind the request asked for.             *)
LEMMA InsertedKind ==
  ASSUME NEW q \in Client, NEW c \in Account
  PROVE  \A k \in DOMAIN Inserted(q, c) : Inserted(q, c)[k].kind = KindOf(req[q].op)
<1>1. \A n \in Nat, kind \in Kind : \A k \in DOMAIN NewRows(c, kind, 0, n) :
        NewRows(c, kind, 0, n)[k].kind = kind
  BY DEF NewRows, NewRow
<1>2. DOMAIN <<>> = {}  OBVIOUS
<1> QED  BY <1>1, <1>2 DEF Inserted, KindOf, Kind

(* No step of the scheduler mixes kinds in one request.                        *)
LEMMA BufKindsStep ==
  ASSUME IInv, BufKinds, [Next]_vars PROVE BufKinds'
<1>0. req \in [Client -> Request]  BY DEF IInv, TypeOK
<1>1. CASE UNCHANGED req  BY <1>1 DEF BufKinds
<1>2. CASE Crash
  <2>1. \A q \in Client : req'[q].buf = <<>>  BY <1>2 DEF Crash, NoRequest
  <2> QED  BY <2>1 DEF BufKinds
<1>3. ASSUME NEW q \in Client,
             PostImport(q) \/ PostBackfill(q) \/ CommitRequest(q) \/ AbortRequest(q)
      PROVE  BufKinds'
  <2>1. /\ req'[q].buf = <<>>
        /\ \A p \in Client \ {q} : req'[p] = req[p]
    BY <1>0, <1>3 DEF PostImport, PostBackfill, BeginRequest, CommitRequest, AbortRequest,
       NoRequest
  <2> QED  BY <2>1 DEF BufKinds
<1>4. ASSUME NEW q \in Client, EnqueueForCard(q) PROVE BufKinds'
  <2>1. PICK c \in req[q].todo :
          req' = [req EXCEPT ![q] = [op |-> @.op, todo |-> @.todo \ {c},
                                     buf |-> @.buf \o Inserted(q, c)]]
    BY <1>4 DEF EnqueueForCard
  <2> DEFINE new == Inserted(q, c)
  <2>2. c \in Account /\ req[q].buf \in Seq(Run)  BY <1>0 DEF Request
  <2>3. new \in Seq(Run) /\ \A k \in DOMAIN new : new[k].kind = KindOf(req[q].op)
    BY <2>2, InsertedRows, InsertedKind
  <2>4. /\ req'[q].op = req[q].op /\ req'[q].buf = req[q].buf \o new
        /\ \A p \in Client \ {q} : req'[p] = req[p]
    BY <1>0, <2>1
  <2> HIDE DEF new
  <2>5. \A k \in DOMAIN (req[q].buf \o new) :
          (req[q].buf \o new)[k].kind = KindOf(req[q].op)
    <3>1. \A k \in DOMAIN req[q].buf : req[q].buf[k].kind = KindOf(req[q].op)
      BY DEF BufKinds
    <3> QED  BY <2>2, <2>3, <3>1
  <2> QED  BY <2>4, <2>5 DEF BufKinds
<1> QED
  BY <1>1, <1>2, <1>3, <1>4
  DEF Next, vars, Tick, TickFault, Requests, Start, BootRecover, BootRead, Elapse,
      RevokeToken, RotateToken, TickStart, TickSweep, EnsureAccountsDiscovered,
      DiscoverAnswer, SaveAccounts, ClaimNextPending, PickNextActiveCard, EnqueueLive,
      FetchAnswer, SaveStatement, MarkRunError, SetStateAuthFailed

(* The windows a request inserts end when it was asked or before, and those of *)
(* live rows reach LIVE_POLL_LOOKBACK back.                                    *)
LEMMA RequestWindows ==
  ASSUME NEW q \in Client, req[q].buf \in Seq(Run), asked[q] \in Nat
  PROVE  /\ Windows(q) \in Seq(Window) /\ Len(Windows(q)) = Len(req[q].buf)
         /\ \A k \in DOMAIN Windows(q) :
              /\ Windows(q)[k].to <= asked[q]
              /\ req[q].op = "import" => Windows(q)[k].from = Windows(q)[k].to - Lookback
<1> DEFINE b == req[q].buf
<1>1. \A k \in DOMAIN b : k \in Nat \ {0}  OBVIOUS
<1>2. \A t \in Nat : /\ LiveWindow(t) \in Window /\ LiveWindow(t).to = t
                     /\ LiveWindow(t).from = t - Lookback
  BY DEF LiveWindow, Window
<1>3. ASSUME NEW t \in Nat, NEW k \in Nat \ {0}
      PROVE  BackfillChunk(t, k) \in Window /\ BackfillChunk(t, k).to <= t
  <2>1. (k - 1) * ChunkLength \in Nat  OBVIOUS
  <2>2. k * ChunkLength \in Int  OBVIOUS
  <2> DEFINE m == (k - 1) * ChunkLength
             n == k * ChunkLength
  <2>3. BackfillChunk(t, k) = [from |-> t - n, to |-> t - m]  BY DEF BackfillChunk
  <2>4. m \in Nat /\ n \in Int  BY <2>1, <2>2
  <2> HIDE DEF m, n
  <2>5. t - n \in Int /\ t - m \in Int /\ t - m <= t  BY <2>4
  <2> QED  BY <2>3, <2>5 DEF Window
<1>4. \A k \in Nat \ {0} : ((k - 1) % Chunks) + 1 \in Nat \ {0}  OBVIOUS
<1> DEFINE w(k) == IF req[q].op = "import" THEN LiveWindow(asked[q])
                     ELSE BackfillChunk(asked[q], ((k - 1) % Chunks) + 1)
<1>5. \A k \in DOMAIN b : /\ w(k) \in Window /\ w(k).to <= asked[q]
                          /\ req[q].op = "import" => w(k).from = w(k).to - Lookback
  <2> SUFFICES ASSUME NEW k \in DOMAIN b
               PROVE  /\ w(k) \in Window /\ w(k).to <= asked[q]
                      /\ req[q].op = "import" => w(k).from = w(k).to - Lookback
    OBVIOUS
  <2> DEFINE n == ((k - 1) % Chunks) + 1
  <2>1. n \in Nat \ {0}  BY <1>1, <1>4
  <2>2. w(k) = IF req[q].op = "import" THEN LiveWindow(asked[q])
                                       ELSE BackfillChunk(asked[q], n)
    OBVIOUS
  <2> HIDE DEF w, n
  <2> QED  BY <1>2, <1>3, <2>1, <2>2
<1>6. Windows(q) = [k \in DOMAIN b |-> w(k)]  BY DEF Windows
<1> HIDE DEF w
<1>7. DOMAIN b = 1..Len(b) /\ Len(b) \in Nat  OBVIOUS
<1> HIDE DEF b
<1>8. Windows(q) \in [1..Len(b) -> Window]  BY <1>5, <1>6, <1>7
<1> QED  BY <1>5, <1>6, <1>7, <1>8 DEF b

-----------------------------------------------------------------------------
(* The steps.                                                                  *)

(* The scheduler's half of a step.                                             *)
SchedulerStep == /\ IInv' /\ RowsKept /\ BufKinds'

(* It keeps the invariant of Scheduler and the facts about its rows.           *)
LEMMA SchedulerHalf == ASSUME SInv, [Next]_vars PROVE SchedulerStep
  BY StepIInv, SchedulerKeeps, BufKindsStep DEF SInv, SchedulerStep

(* Windows keep to their rows; those of new rows end in the past.              *)
WindowsKept ==
  /\ window' \in Seq(Window) /\ Len(window') = Len(runs')
  /\ \A r \in Ids : window'[r] = window[r]
  /\ \A r \in DOMAIN runs' \ Ids :
       /\ window'[r].to <= now
       /\ runs'[r].kind = "live" => window'[r].from = window'[r].to - Lookback

(* What the invariant says of rows and windows.                                *)
LEMMA RowsAndWindows ==
  ASSUME SInv
  PROVE  /\ runs \in Seq(Run) /\ window \in Seq(Window) /\ DOMAIN window = Ids
         /\ \A r \in Ids : /\ window[r].from \in Int /\ window[r].to \in Int
                           /\ window[r].to <= now /\ runs[r].account \in Account
         /\ pc = "save" => job \in Ids
<1>1. runs \in Seq(Run) /\ window \in Seq(Window) /\ Len(window) = Len(runs)
  BY DEF SInv, IInv, TypeOK, STypeOK
<1>2. DOMAIN window = Ids  BY <1>1 DEF Ids
<1>3. \A r \in Ids : window[r] \in Window /\ runs[r] \in Run  BY <1>1, <1>2 DEF Ids
<1>4. \A r \in Ids : window[r].to <= now  BY DEF SInv, STypeOK
<1>5. pc = "save" => job \in Ids  BY DEF SInv, IInv, TickHoldsItsRow, HoldsRow
<1> QED  BY <1>1, <1>2, <1>3, <1>4, <1>5 DEF Window, Run

(* While the bank and the windows stand still, so does what each window holds. *)
LEMMA SameStatements ==
  ASSUME SInv, RowsKept, time' = time, \A r \in Ids : window'[r] = window[r],
         NEW r \in Ids
  PROVE  InWindow(r)' = InWindow(r) /\ (Cut(r)' <=> Cut(r)) /\ Reach(r)' = Reach(r)
<1>1. runs'[r].account = runs[r].account /\ window'[r] = window[r]
  BY DEF RowsKept, SameRow
<1>2. InWindow(r)' = InWindow(r)  BY <1>1 DEF InWindow
<1> QED  BY <1>1, <1>2 DEF Cut, Reach

(* No answer is an answer without items.                                       *)
LEMMA NothingHeld == DOMAIN Nothing = {} /\ Nothing \in Holds
<1>1. DOMAIN Nothing = {}  BY DEF Nothing
<1>2. Nothing \in [{} -> BOOLEAN]  BY DEF Nothing
<1> QED  BY <1>1, <1>2 DEF Holds

(* A step that saves nothing and leaves the bank and the table of transactions *)
(* alone keeps the invariant, whether the tick keeps its answer or loses it.    *)
LEMMA FrameStep ==
  ASSUME SInv, SchedulerStep, WindowsKept, ~SaveStatement,
         UNCHANGED <<now, time, cleared, rows>>,
         asked' \in [Client -> Nat], \A q \in Client : asked'[q] <= now,
         \/ answer' = answer /\ pc' = pc /\ job' = job
         \/ answer' = Nothing /\ pc' # "save"
  PROVE  SInv'
<1> USE DEF SInv
<1>1. IInv' /\ BufKinds' /\ RowsKept  BY DEF SchedulerStep
<1>2. /\ Ids \subseteq Ids' /\ window' \in Seq(Window)
      /\ \A r \in Ids : window'[r] = window[r] /\ SameRow(runs'[r], runs[r])
      /\ \A r \in Ids : Done(r)' => Done(r)
      /\ \A r \in Ids' \ Ids : ~(Done(r)')
  BY <1>1 DEF RowsKept, WindowsKept, Ids, Done
<1>3. \A r \in Ids : InWindow(r)' = InWindow(r) /\ (Cut(r)' <=> Cut(r)) /\ Reach(r)' = Reach(r)
  BY <1>1, <1>2, SameStatements
<1>4. DOMAIN Nothing = {} /\ Nothing \in Holds  BY NothingHeld
<1>5. STypeOK'
  <2>1. answer' \in Holds /\ DOMAIN answer' \subseteq DOMAIN answer
    BY <1>4 DEF STypeOK
  <2>2. \A r \in Ids' : window'[r].to <= now'
    BY <1>2, RowsAndWindows DEF WindowsKept, Ids
  <2> QED  BY <2>1, <2>2 DEF STypeOK, WindowsKept
<1>6. AskedPast' /\ Past'  BY DEF AskedPast, Past
<1>7. LiveWindows'  BY <1>2 DEF LiveWindows, WindowsKept, Ids, SameRow
<1>8. AnswerInSave'  BY DEF AnswerInSave
<1>9. Fetched'
  <2> SUFFICES ASSUME NEW r \in Ids', pc' = "save", r = job', ~(Cut(r)')
               PROVE  Reach(r)' \subseteq DOMAIN answer'
    BY DEF Fetched
  <2>1. pc = "save" /\ r = job /\ answer' = answer /\ r \in Ids
    BY RowsAndWindows
  <2> QED  BY <1>3, <2>1 DEF Fetched
<1>10. StoredWhole'  BY <1>2, <1>3 DEF StoredWhole
<1>11. FreshAnswer'
  <2> SUFFICES ASSUME NEW i \in DOMAIN answer', answer'[i], cleared'[i] # 0,
                      NEW r \in Ids', Done(r)' \/ r = job'
               PROVE  window'[r].to <= cleared'[i]
    BY DEF FreshAnswer
  <2>1. answer' = answer /\ pc' = pc /\ job' = job  BY <1>4
  <2>2. pc = "save"  BY <1>4, <2>1 DEF AnswerInSave
  <2>3. r \in Ids  BY <1>2, <2>1, <2>2, RowsAndWindows
  <2> QED  BY <1>2, <2>1, <2>3 DEF FreshAnswer
<1>12. StaleHoldOutOfReach'
  <2> SUFFICES ASSUME NEW i \in DOMAIN rows, NEW r \in Ids', rows[i], cleared[i] # 0,
                      Done(r)', runs'[r].account = Owner[i], ~(Cut(r)'),
                      window'[r].from <= time[i], time[i] <= window'[r].to
               PROVE  window'[r].to <= cleared[i]
    BY DEF StaleHoldOutOfReach
  <2>1. r \in Ids /\ Done(r)  BY <1>2
  <2>2. runs[r].account = Owner[i] /\ ~Cut(r) /\ window'[r] = window[r]
    BY <1>2, <1>3, <2>1 DEF SameRow
  <2> QED  BY <2>1, <2>2 DEF StaleHoldOutOfReach
<1> QED  BY <1>1, <1>5, <1>6, <1>7, <1>8, <1>9, <1>10, <1>11, <1>12

(* A step of the clock or the bank: what it may do to times and clearings.     *)
BankMoves ==
  /\ UNCHANGED <<vars, window, asked, answer, rows>> /\ now <= now' /\ now' \in Nat \ {0}
  /\ time' \in [Item -> Nat] /\ cleared' \in [Item -> Nat]
  /\ \A i \in Item : /\ time'[i] = time[i] \/ (time[i] = 0 /\ time'[i] = now)
                     /\ \/ cleared'[i] = cleared[i]
                        \/ cleared[i] = 0 /\ cleared'[i] = now
                        \/ time[i] = 0
                     /\ cleared'[i] <= now' /\ time'[i] <= now'
                     /\ cleared'[i] # 0 => time'[i] # 0 /\ time'[i] <= cleared'[i]

(* They move that way.                                                         *)
LEMMA BankMovesOn ==
  ASSUME STypeOK, Past, Pass \/ \E i \in Item : Post(i) \/ Clear(i)
  PROVE  BankMoves
<1>1. now \in Nat \ {0} /\ time \in [Item -> Nat] /\ cleared \in [Item -> Nat]
  BY DEF STypeOK
<1>2. \A i \in Item : /\ time[i] \in Nat /\ cleared[i] \in Nat
                      /\ time[i] <= now /\ cleared[i] <= now
                      /\ cleared[i] # 0 => time[i] # 0 /\ time[i] <= cleared[i]
  BY <1>1 DEF Past
<1>3. CASE Pass
  <2>1. /\ now' = now + 1 /\ time' = time /\ cleared' = cleared
        /\ UNCHANGED <<vars, window, asked, answer, rows>>
    BY <1>3 DEF Pass, bankVars
  <2> QED  BY <1>1, <1>2, <2>1 DEF BankMoves
<1>4. ASSUME NEW j \in Item, Post(j) \/ Clear(j) PROVE BankMoves
  <2>1. now' = now /\ UNCHANGED <<vars, window, asked, answer, rows>>
    BY <1>4 DEF Post, Clear
  <2>2. CASE Post(j)
    <3>1. PICK since \in {0, now} : cleared' = [cleared EXCEPT ![j] = since]
      BY <2>2 DEF Post
    <3>2. time' = [time EXCEPT ![j] = now] /\ time[j] = 0  BY <2>2 DEF Post
    <3>3. cleared[j] = 0  BY <1>2, <3>2
    <3> QED  BY <1>1, <1>2, <2>1, <3>1, <3>2, <3>3 DEF BankMoves
  <2>3. CASE Clear(j)
    <3>1. /\ time' = time /\ cleared' = [cleared EXCEPT ![j] = now]
          /\ time[j] # 0 /\ cleared[j] = 0
      BY <2>3 DEF Clear
    <3> QED  BY <1>1, <1>2, <2>1, <3>1 DEF BankMoves
  <2> QED  BY <1>4, <2>2, <2>3
<1> QED  BY <1>3, <1>4

(* What the bank does later adds to no window that has ended but at its very   *)
(* end, and nothing clears before now.                                         *)
LEMMA BankStep ==
  ASSUME SInv, Pass \/ \E i \in Item : Post(i) \/ Clear(i)
  PROVE  SInv'
<1> USE DEF SInv
<1>1. BankMoves  BY BankMovesOn DEF SInv
<1>2. /\ runs' = runs /\ pc' = pc /\ job' = job /\ window' = window /\ Ids' = Ids
      /\ answer' = answer /\ rows' = rows /\ asked' = asked
  BY <1>1 DEF BankMoves, vars, Ids
<1>3. IInv' /\ BufKinds'  BY <1>1, StepIInv, BufKindsStep DEF BankMoves
<1>4. \A r \in Ids : /\ window[r].to \in Int /\ window[r].to <= now
                     /\ runs'[r] = runs[r] /\ window'[r] = window[r]
  BY <1>2, RowsAndWindows
<1>5. now \in Nat /\ \A i \in Item : time[i] \in Nat /\ cleared[i] \in Nat
  BY DEF STypeOK
<1>6. ASSUME NEW r \in Ids
      PROVE  /\ InWindow(r) \subseteq InWindow(r)' /\ Reach(r)' \subseteq Reach(r)
             /\ Cut(r) => Cut(r)'
             /\ Done(r)' <=> Done(r)
  <2>1. InWindow(r) \subseteq InWindow(r)'  BY <1>1, <1>4 DEF BankMoves, InWindow
  <2>2. Reach(r)' \subseteq Reach(r)  BY <1>1, <1>4, <1>5 DEF BankMoves, Reach, InWindow
  <2>3. IsFiniteSet(InWindow(r)')
    BY FS_Subset, StatementsAssumption DEF InWindow
  <2>4. /\ Cardinality(InWindow(r)) <= Cardinality(InWindow(r)')
        /\ Cardinality(InWindow(r)) \in Nat /\ Cardinality(InWindow(r)') \in Nat
    BY <2>1, <2>3, FS_Subset, FS_CardinalityType
  <2> QED  BY <1>2, <2>1, <2>2, <2>4 DEF Cut, Done
<1>7. \A i \in DOMAIN answer \cup DOMAIN rows : i \in Item /\ time[i] # 0
  BY DEF STypeOK, Holds
<1>8. STypeOK'
  <2>1. \A r \in Ids' : window'[r].to <= now'  BY <1>1, <1>2, <1>4, <1>5 DEF BankMoves
  <2>2. \A i \in DOMAIN answer' \cup DOMAIN rows' : time'[i] # 0  BY <1>1, <1>2, <1>7 DEF BankMoves
  <2> QED  BY <1>1, <1>2, <2>1, <2>2 DEF BankMoves, STypeOK
<1>9. AskedPast'
  <2>1. \A q \in Client : asked[q] \in Nat /\ asked[q] <= now  BY DEF AskedPast, STypeOK
  <2> QED  BY <1>1, <1>2, <1>5, <2>1 DEF BankMoves, AskedPast
<1>10. LiveWindows' /\ Past' /\ AnswerInSave'
  BY <1>1, <1>2, <1>4 DEF BankMoves, LiveWindows, Past, AnswerInSave
<1>11. Fetched' /\ StoredWhole'
  BY <1>2, <1>6 DEF Fetched, StoredWhole
<1>12. FreshAnswer'
  <2> SUFFICES ASSUME NEW i \in DOMAIN answer, answer[i], cleared'[i] # 0,
                      NEW r \in Ids, Done(r) \/ r = job
               PROVE  window[r].to <= cleared'[i]
    BY <1>2, <1>6 DEF FreshAnswer
  <2>1. i \in Item /\ time[i] # 0  BY <1>7
  <2>2. CASE cleared'[i] = cleared[i]  BY <2>2 DEF FreshAnswer
  <2>3. CASE cleared'[i] = now  BY <1>4, <2>3
  <2> QED  BY <1>1, <2>1, <2>2, <2>3 DEF BankMoves
<1>13. StaleHoldOutOfReach'
  <2> SUFFICES ASSUME NEW i \in DOMAIN rows, NEW r \in Ids, rows[i], cleared'[i] # 0,
                      Done(r), runs[r].account = Owner[i], ~(Cut(r)'),
                      window[r].from <= time'[i], time'[i] <= window[r].to
               PROVE  window[r].to <= cleared'[i]
    BY <1>2, <1>4, <1>6 DEF StaleHoldOutOfReach
  <2>1. i \in Item /\ time'[i] = time[i]  BY <1>1, <1>7 DEF BankMoves
  <2>2. CASE cleared'[i] = cleared[i]
    BY <1>6, <2>1, <2>2 DEF StaleHoldOutOfReach
  <2>3. CASE cleared'[i] = now  BY <1>4, <2>3
  <2> QED  BY <1>1, <1>7, <2>1, <2>2, <2>3 DEF BankMoves
<1> QED  BY <1>3, <1>8, <1>9, <1>10, <1>11, <1>12, <1>13

(* An answer that is not cut short is the window.                              *)
LEMMA WholePage ==
  ASSUME NEW r, NEW P \in Pages(r), ~Cut(r)
  PROVE  P = InWindow(r)
<1>1. IsFiniteSet(InWindow(r)) /\ P \subseteq InWindow(r)
  BY FS_Subset, StatementsAssumption DEF InWindow, Pages
<1>2. /\ Cardinality(InWindow(r)) \in Nat /\ IsFiniteSet(P) /\ Cardinality(P) \in Nat
      /\ Cardinality(P) <= Cardinality(InWindow(r))
      /\ Cardinality(P) = Cardinality(InWindow(r)) => P = InWindow(r)
  BY <1>1, FS_Subset, FS_CardinalityType
<1>3. ~(Cardinality(InWindow(r)) > PageSize)  BY DEF Cut
<1>4. P = InWindow(r) \/ Cardinality(P) = PageSize  BY DEF Pages
<1> QED  BY <1>2, <1>3, <1>4

(* A statement in hand is the window it was asked for, unless it was cut.      *)
LEMMA AnswerStep ==
  ASSUME SInv, FetchStatement, pc' = "save" PROVE SInv'
<1> USE DEF SInv
<1>1. /\ UNCHANGED <<now, time, cleared, window, asked, rows, runs>> /\ job' = job
      /\ Ids' = Ids /\ pc = "fetch" /\ FetchAnswer
      /\ \E P \in Pages(job) : answer' = [i \in P |-> cleared[i] = 0]
  BY DEF FetchStatement, FetchAnswer, bankVars, dbVars, Ids
<1>2. PICK P \in Pages(job) : answer' = [i \in P |-> cleared[i] = 0]  BY <1>1
<1>3. [Next]_vars  BY <1>1 DEF Next, Tick
<1>4. IInv' /\ BufKinds' /\ RowsKept  BY <1>3, SchedulerHalf DEF SchedulerStep
<1>5. /\ P \subseteq InWindow(job) /\ P \subseteq Item /\ DOMAIN answer' = P
      /\ \A i \in P : time[i] # 0 /\ (answer'[i] <=> cleared[i] = 0)
  BY <1>2 DEF Pages, InWindow
<1>6. answer' \in Holds
  <2>1. answer' \in [P -> BOOLEAN]  BY <1>2
  <2> QED  BY <1>5, <2>1 DEF Holds
<1>7. \A r \in Ids : /\ InWindow(r)' = InWindow(r) /\ (Cut(r)' <=> Cut(r))
                     /\ Reach(r)' = Reach(r) /\ (Done(r)' <=> Done(r))
  BY <1>1, <1>4, SameStatements DEF Done
<1>8. STypeOK' /\ AskedPast' /\ LiveWindows' /\ Past' /\ AnswerInSave'
  BY <1>1, <1>5, <1>6 DEF STypeOK, AskedPast, LiveWindows, Past, AnswerInSave
<1>9. Fetched'
  <2>1. ~Cut(job) => P = InWindow(job)  BY WholePage
  <2>2. Reach(job) \subseteq InWindow(job)  BY DEF Reach
  <2> QED  BY <1>1, <1>5, <1>7, <2>1, <2>2 DEF Fetched
<1>10. StoredWhole'  BY <1>1, <1>7 DEF StoredWhole
<1>11. FreshAnswer'  BY <1>1, <1>5 DEF FreshAnswer
<1>12. StaleHoldOutOfReach'  BY <1>1, <1>7 DEF StaleHoldOutOfReach
<1> QED  BY <1>4, <1>8, <1>9, <1>10, <1>11, <1>12

(* Saving keeps what is stored, adds the answer, and brings back no old hold.   *)
LEMMA SaveStep ==
  ASSUME SInv, SaveItems PROVE SInv'
<1> USE DEF SInv
<1>1. /\ UNCHANGED <<now, time, cleared, window, asked>> /\ pc = "save" /\ pc' = "idle"
      /\ SaveStatement /\ rows' = Upsert /\ answer' = Nothing /\ runs' = MarkDone(job)
      /\ job' = NoId
  BY DEF SaveItems, SaveStatement, bankVars
<1>2. [Next]_vars  BY <1>1 DEF Next, Tick
<1>3. IInv' /\ BufKinds' /\ RowsKept  BY <1>2, SchedulerHalf DEF SchedulerStep
<1>4. job \in Ids /\ runs \in Seq(Run) /\ clock \in Nat
  BY <1>1, RowsAndWindows DEF IInv, TypeOK
<1>5. Ids' = Ids /\ Len(runs') = Len(runs)
  <2>1. DOMAIN runs' = Ids /\ runs' \in Seq(Run)  BY <1>1, <1>4, MarkedRows
  <2> QED  BY <1>4, <2>1 DEF Ids
<1>6. \A r \in Ids : /\ InWindow(r)' = InWindow(r) /\ (Cut(r)' <=> Cut(r))
                     /\ Reach(r)' = Reach(r) /\ (Done(r)' => Done(r) \/ r = job)
                     /\ SameRow(runs'[r], runs[r])
  BY <1>1, <1>3, SameStatements DEF Done, RowsKept
<1>7. /\ DOMAIN rows' = DOMAIN rows \cup DOMAIN answer
      /\ \A i \in DOMAIN rows' :
           rows'[i] = IF i \in DOMAIN answer THEN answer[i] ELSE rows[i]
  BY <1>1 DEF Upsert
<1>8. rows' \in Holds
  <2>1. /\ DOMAIN rows \subseteq Item /\ DOMAIN answer \subseteq Item
        /\ \A i \in DOMAIN rows : rows[i] \in BOOLEAN
        /\ \A i \in DOMAIN answer : answer[i] \in BOOLEAN
    BY DEF STypeOK, Holds
  <2>2. rows' = [i \in DOMAIN rows' |-> rows'[i]]  BY <1>1 DEF Upsert
  <2>3. \A i \in DOMAIN rows' : rows'[i] \in BOOLEAN  BY <1>7, <2>1
  <2>4. rows' \in [DOMAIN rows' -> BOOLEAN]  BY <2>2, <2>3
  <2> QED  BY <1>7, <2>1, <2>4 DEF Holds
<1>9. STypeOK'
  BY <1>1, <1>5, <1>7, <1>8, NothingHeld DEF STypeOK
<1>10. AskedPast' /\ Past' /\ AnswerInSave' /\ LiveWindows'
  BY <1>1, <1>5, <1>6 DEF AskedPast, Past, AnswerInSave, LiveWindows, SameRow
<1>11. Fetched' /\ FreshAnswer'
  BY <1>1, NothingHeld DEF Fetched, FreshAnswer
<1>12. StoredWhole'
  <2> SUFFICES ASSUME NEW r \in Ids, Done(r)', ~Cut(r)
               PROVE  Reach(r) \subseteq DOMAIN rows'
    BY <1>5, <1>6 DEF StoredWhole
  <2>1. CASE r = job  BY <1>1, <1>7, <2>1 DEF Fetched
  <2>2. CASE Done(r)  BY <1>7, <2>2 DEF StoredWhole
  <2> QED  BY <1>6, <2>1, <2>2
<1>13. StaleHoldOutOfReach'
  <2> SUFFICES ASSUME NEW i \in DOMAIN rows', NEW r \in Ids', rows'[i], cleared'[i] # 0,
                      Done(r)', runs'[r].account = Owner[i], ~(Cut(r)'),
                      window'[r].from <= time'[i], time'[i] <= window'[r].to
               PROVE  window'[r].to <= cleared'[i]
    BY DEF StaleHoldOutOfReach
  <2>0. /\ r \in Ids /\ (Done(r) \/ r = job) /\ runs[r].account = Owner[i] /\ ~Cut(r)
        /\ window' = window /\ time' = time /\ cleared' = cleared
    BY <1>1, <1>5, <1>6 DEF SameRow
  <2>1. CASE i \in DOMAIN answer  BY <1>7, <2>0, <2>1 DEF FreshAnswer
  <2>2. CASE i \notin DOMAIN answer /\ Done(r)
    BY <1>7, <2>0, <2>2 DEF StaleHoldOutOfReach
  <2>3. CASE i \notin DOMAIN answer /\ r = job
    <3>1. i \in Item /\ time[i] # 0 /\ time[i] \in Nat /\ cleared[i] \in Nat
      BY <1>7, <2>3 DEF STypeOK, Holds
    <3>2. i \in InWindow(r)  BY <2>0, <3>1 DEF InWindow
    <3>3. ASSUME time[i] < window[r].to PROVE FALSE
      <4>1. i \in Reach(r)  BY <3>2, <3>3 DEF Reach
      <4>2. Reach(r) \subseteq DOMAIN answer  BY <1>1, <2>0, <2>3 DEF Fetched
      <4> QED  BY <2>3, <4>1, <4>2
    <3>4. time[i] <= cleared[i]  BY <2>0, <3>1 DEF Past
    <3>5. window[r].to \in Int  BY <2>0, RowsAndWindows
    <3> QED  BY <2>0, <3>1, <3>3, <3>4, <3>5
  <2> QED  BY <2>0, <2>1, <2>2, <2>3
<1> QED  BY <1>3, <1>9, <1>10, <1>11, <1>12, <1>13

(* Everything else: Frame steps.                                               *)
LEMMA OtherSteps ==
  ASSUME SInv,
         \/ EnqueueLiveWindow \/ CrashItems \/ TickFaultItems \/ Elsewhere
         \/ (FetchStatement /\ pc' # "save")
         \/ \E q \in Client : Ask(q) \/ CommitWindows(q) \/ AbortWindows(q)
         \/ UNCHANGED allVars
  PROVE  SInv'
<1> USE DEF SInv
<1>0. /\ asked \in [Client -> Nat] /\ \A q \in Client : asked[q] <= now
      /\ now \in Nat /\ window \in Seq(Window) /\ Len(window) = Len(runs)
      /\ runs \in Seq(Run) /\ clock \in Nat /\ req \in [Client -> Request]
  BY DEF STypeOK, AskedPast, IInv, TypeOK
<1>1. SNext \/ UNCHANGED vars
  <2>1. CASE UNCHANGED allVars  BY <2>1 DEF allVars
  <2> QED  BY <2>1 DEF SNext
<1>2. [Next]_vars  BY <1>1, StepRefines
<1>3. SchedulerStep  BY <1>2, SchedulerHalf
<1>4. CASE EnqueueLiveWindow
  <2>1. /\ UNCHANGED <<now, time, cleared, asked, answer, rows>> /\ EnqueueLive
        /\ window' = IF Len(runs') > Len(runs) THEN Append(window, LiveWindow(now)) ELSE window
        /\ pc = "enqueue" /\ pc' = "idle" /\ answer = Nothing
    BY <1>4 DEF EnqueueLiveWindow, EnqueueLive, AnswerInSave, bankVars
  <2>2. LiveWindow(now) \in Window /\ LiveWindow(now).to = now
        /\ LiveWindow(now).from = now - Lookback
    BY <1>0 DEF LiveWindow, Window
  <2>3. ASSUME runs' = runs PROVE WindowsKept
    <3>1. window' = window  BY <1>0, <2>1, <2>3
    <3> QED  BY <1>0, <2>3, <3>1 DEF WindowsKept, Ids
  <2>4. ASSUME runs' # runs PROVE WindowsKept
    <3>1. runs' = Append(runs, NewRow(picked, "live", clock))
      BY <2>1, <2>4 DEF EnqueueLive
    <3>2. Len(runs') = Len(runs) + 1 /\ DOMAIN runs' = 1..(Len(runs) + 1)
      BY <1>0, <3>1
    <3>3. window' = Append(window, LiveWindow(now))  BY <1>0, <2>1, <3>2
    <3>4. Ids = 1..Len(runs) /\ DOMAIN runs' \ Ids = {Len(runs) + 1}
      BY <1>0, <3>2 DEF Ids
    <3>5. /\ window' \in Seq(Window) /\ Len(window') = Len(runs) + 1
          /\ \A r \in 1..Len(runs) : window'[r] = window[r]
          /\ window'[Len(runs) + 1] = LiveWindow(now)
      BY <1>0, <2>2, <3>3
    <3> QED  BY <1>0, <2>2, <3>2, <3>4, <3>5 DEF WindowsKept
  <2>5. WindowsKept  BY <2>3, <2>4
  <2>6. ~SaveStatement  BY <2>1 DEF SaveStatement
  <2> QED  BY <1>0, <1>3, <2>1, <2>5, <2>6, FrameStep
<1>5. ASSUME NEW q \in Client, CommitWindows(q) PROVE SInv'
  <2> DEFINE new == Windows(q)
  <2>1. /\ UNCHANGED <<now, time, cleared, answer, rows, pc, job>> /\ CommitRequest(q)
        /\ window' = window \o new /\ asked' = [asked EXCEPT ![q] = 0]
        /\ runs' = runs \o Stamped(req[q].buf)
    BY <1>5 DEF CommitWindows, CommitRequest, bankVars, tickVars
  <2>2. req[q].buf \in Seq(Run)  BY <1>0 DEF Request
  <2>3. /\ new \in Seq(Window) /\ Len(new) = Len(req[q].buf)
        /\ \A k \in DOMAIN new : /\ new[k].to <= now
                                 /\ req[q].op = "import" => new[k].from = new[k].to - Lookback
    <3>1. /\ Windows(q) \in Seq(Window) /\ Len(Windows(q)) = Len(req[q].buf)
          /\ \A k \in DOMAIN Windows(q) :
               /\ Windows(q)[k].to <= asked[q]
               /\ req[q].op = "import" => Windows(q)[k].from = Windows(q)[k].to - Lookback
      BY <1>0, <2>2, RequestWindows
    <3> HIDE DEF new
    <3>2. \A k \in DOMAIN new : new[k] \in Window  BY <3>1 DEF new
    <3> QED  BY <1>0, <3>1, <3>2 DEF new, Window
  <2> DEFINE ins == Stamped(req[q].buf)
  <2>4. /\ ins \in Seq(Run) /\ Len(ins) = Len(req[q].buf)
        /\ \A k \in DOMAIN ins : ins[k].kind = "live" => req[q].op = "import"
    <3>1. ins \in Seq(Run)
      BY <1>0, <2>2, StampedRows DEF IInv, BufPending
    <3>2. DOMAIN ins = DOMAIN req[q].buf  BY DEF Stamped
    <3>3. \A row \in Run : [row EXCEPT !.created = clock].kind = row.kind  BY DEF Run
    <3>4. \A k \in DOMAIN ins : ins[k].kind = req[q].buf[k].kind
      BY <2>2, <3>2, <3>3 DEF Stamped
    <3>5. \A k \in DOMAIN req[q].buf : req[q].buf[k].kind = KindOf(req[q].op)
      BY DEF BufKinds
    <3>6. KindOf(req[q].op) = "live" => req[q].op = "import"  BY DEF KindOf
    <3>7. \A k \in DOMAIN ins : ins[k].kind = "live" => req[q].op = "import"
      BY <3>2, <3>4, <3>5, <3>6
    <3> HIDE DEF ins
    <3>8. DOMAIN ins = 1..Len(ins) /\ DOMAIN req[q].buf = 1..Len(req[q].buf)
          /\ Len(ins) \in Nat /\ Len(req[q].buf) \in Nat
      BY <2>2, <3>1
    <3>9. Len(ins) = Len(req[q].buf)  BY <3>2, <3>8, SameInterval
    <3> QED  BY <3>1, <3>7, <3>9
  <2> HIDE DEF new, ins
  <2>5. WindowsKept
    <3>1. /\ window \o new \in Seq(Window) /\ Len(window \o new) = Len(runs) + Len(new)
          /\ \A k \in 1..(Len(runs) + Len(new)) :
               (window \o new)[k] = IF k <= Len(runs) THEN window[k] ELSE new[k - Len(runs)]
      <4>1. window \in Seq(Window) /\ new \in Seq(Window) /\ Len(window) = Len(runs)
        BY <1>0, <2>3
      <4>2. /\ window \o new \in Seq(Window)
            /\ Len(window \o new) = Len(window) + Len(new)
            /\ \A k \in 1..(Len(window) + Len(new)) :
                 (window \o new)[k] = IF k <= Len(window) THEN window[k] ELSE new[k - Len(window)]
        BY <4>1, ConcatProperties
      <4> QED  BY <4>1, <4>2
    <3>2. /\ Len(runs \o ins) = Len(runs) + Len(new)
          /\ DOMAIN (runs \o ins) = 1..(Len(runs) + Len(new))
          /\ \A k \in 1..(Len(runs) + Len(new)) :
               (runs \o ins)[k] = IF k <= Len(runs) THEN runs[k] ELSE ins[k - Len(runs)]
      <4>1. runs \in Seq(Run) /\ ins \in Seq(Run) /\ Len(ins) = Len(new)
        BY <1>0, <2>3, <2>4
      <4>2. /\ runs \o ins \in Seq(Run)
            /\ Len(runs \o ins) = Len(runs) + Len(ins)
            /\ \A k \in 1..(Len(runs) + Len(ins)) :
                 (runs \o ins)[k] = IF k <= Len(runs) THEN runs[k] ELSE ins[k - Len(runs)]
        BY <4>1, ConcatProperties
      <4> QED  BY <4>1, <4>2
    <3>3. /\ Ids = 1..Len(runs) /\ Len(runs) \in Nat /\ Len(new) \in Nat
          /\ DOMAIN new = 1..Len(new) /\ DOMAIN ins = 1..Len(new)
      BY <1>0, <2>3, <2>4 DEF Ids
    <3>4. runs' = runs \o ins /\ window' = window \o new  BY <2>1 DEF ins
    <3>5. ASSUME NEW r \in DOMAIN runs' \ Ids
          PROVE  /\ window'[r].to <= now
                 /\ runs'[r].kind = "live" => window'[r].from = window'[r].to - Lookback
      <4>1. r - Len(runs) \in 1..Len(new) /\ r > Len(runs) /\ r \in 1..(Len(runs) + Len(new))
        BY <3>2, <3>3, <3>4, <3>5
      <4>2. window'[r] = new[r - Len(runs)] /\ runs'[r] = ins[r - Len(runs)]
        BY <3>1, <3>2, <3>3, <3>4, <4>1
      <4>3. r - Len(runs) \in DOMAIN new /\ r - Len(runs) \in DOMAIN ins  BY <3>3, <4>1
      <4> DEFINE k == r - Len(runs)
      <4>4. /\ new[k].to <= now
            /\ ins[k].kind = "live" => new[k].from = new[k].to - Lookback
        BY <2>3, <2>4, <4>3
      <4> QED  BY <4>2, <4>4
    <3>6. \A r \in Ids : window'[r] = window[r]
      BY <3>1, <3>3, <3>4
    <3> QED  BY <3>1, <3>2, <3>4, <3>5, <3>6 DEF WindowsKept
  <2>6. asked' \in [Client -> Nat] /\ \A p \in Client : asked'[p] <= now
    BY <1>0, <2>1
  <2>7. ~SaveStatement
    <3>1. proc' = proc /\ pc' = pc /\ stored' = stored  BY <2>1 DEF CommitRequest, tickVars
    <3> QED  BY <3>1 DEF SaveStatement
  <2> QED  BY <1>3, <2>1, <2>5, <2>6, <2>7, FrameStep
<1>6. ASSUME UNCHANGED <<now, time, cleared, window, rows>>, Len(runs') = Len(runs),
             ~SaveStatement, asked' \in [Client -> Nat],
             \A q \in Client : asked'[q] <= now,
             \/ answer' = answer /\ pc' = pc /\ job' = job
             \/ answer' = Nothing /\ pc' # "save"
      PROVE  SInv'
  <2>1. IInv'  BY <1>3 DEF SchedulerStep
  <2>2. runs' \in Seq(Run)  BY <2>1 DEF IInv, TypeOK
  <2>3. DOMAIN runs' = Ids  BY <1>0, <1>6, <2>2 DEF Ids
  <2>4. WindowsKept  BY <1>0, <1>6, <2>3 DEF WindowsKept
  <2> QED  BY <1>3, <1>6, <2>4, FrameStep
<1>7. CASE CrashItems
  <2>1. /\ runs' = runs /\ pc' = "idle" /\ answer' = Nothing /\ stored' = stored
        /\ asked' = [q \in Client |-> 0] /\ UNCHANGED <<now, time, cleared, window, rows>>
        /\ proc' # proc
    BY <1>7 DEF CrashItems, Crash, dbVars, bankVars
  <2>2. ~SaveStatement  BY <2>1 DEF SaveStatement
  <2> QED  BY <1>0, <1>6, <2>1, <2>2
<1>8. CASE TickFaultItems
  <2>1. /\ runs' = runs /\ pc' # "save" /\ answer' = Nothing /\ faults' = faults + 1
        /\ faults \in Nat
        /\ UNCHANGED <<now, time, cleared, window, rows, asked>>
    BY <1>8 DEF TickFaultItems, TickFault, AfterFault, dbVars, bankVars, IInv, TypeOK
  <2>2. ~SaveStatement  BY <2>1 DEF SaveStatement, envVars
  <2> QED  BY <1>0, <1>6, <2>1, <2>2
<1>9. CASE FetchStatement /\ pc' # "save"
  <2>1. /\ runs' = runs /\ pc = "fetch" /\ answer' = answer /\ answer = Nothing
        /\ UNCHANGED <<now, time, cleared, window, rows, asked>>
    BY <1>9 DEF FetchStatement, FetchAnswer, dbVars, bankVars, AnswerInSave
  <2>2. ~SaveStatement  BY <2>1 DEF SaveStatement
  <2> QED  BY <1>0, <1>6, <1>9, <2>1, <2>2
<1>10. ASSUME NEW q \in Client, Ask(q) PROVE SInv'
  <2>1. /\ UNCHANGED <<now, time, cleared, window, rows, answer, runs, stored, pc, job>>
        /\ asked' = [asked EXCEPT ![q] = now]
    BY <1>10 DEF Ask, PostImport, PostBackfill, BeginRequest, dbVars, tickVars, bankVars
  <2>2. ~SaveStatement  BY <2>1 DEF SaveStatement
  <2>3. asked' \in [Client -> Nat] /\ \A p \in Client : asked'[p] <= now
    BY <1>0, <2>1
  <2> QED  BY <1>0, <1>6, <2>1, <2>2, <2>3
<1>11. ASSUME NEW q \in Client, AbortWindows(q) PROVE SInv'
  <2>1. /\ UNCHANGED <<now, time, cleared, window, rows, answer, runs, stored, pc, job>>
        /\ asked' = [asked EXCEPT ![q] = 0]
    BY <1>11 DEF AbortWindows, AbortRequest, dbVars, tickVars, bankVars
  <2>2. ~SaveStatement  BY <2>1 DEF SaveStatement
  <2>3. asked' \in [Client -> Nat] /\ \A p \in Client : asked'[p] <= now
    BY <1>0, <2>1
  <2> QED  BY <1>0, <1>6, <2>1, <2>2, <2>3
<1>12. CASE Elsewhere \/ UNCHANGED allVars
  <2>1. UNCHANGED <<now, time, cleared, window, rows, answer, asked>>
    BY <1>12 DEF Elsewhere, allVars, dataVars
  <2>2. /\ Len(runs') = Len(runs) /\ ~SaveStatement
        /\ (pc' = pc /\ job' = job) \/ (pc # "save" /\ pc' # "save")
    <3>1. CASE UNCHANGED allVars
      BY <3>1 DEF allVars, vars, SaveStatement
    <3>2. CASE Start \/ BootRead \/ RevokeToken \/ RotateToken \/ TickStart
               \/ EnsureAccountsDiscovered \/ DiscoverAnswer \/ SaveAccounts
               \/ PickNextActiveCard \/ SetStateAuthFailed
               \/ \E q \in Client : EnqueueForCard(q)
      BY <3>2 DEF Start, BootRead, RevokeToken, RotateToken, TickStart,
         EnsureAccountsDiscovered, DiscoverAnswer, SaveAccounts, PickNextActiveCard,
         SetStateAuthFailed, EnqueueForCard, SaveStatement, dbVars, tickVars
    <3>3. CASE BootRecover \/ TickSweep
      <4>1. runs' = RecoverInFlight  BY <3>3 DEF BootRecover, TickSweep
      <4>2. Len(runs') = Len(runs)  BY <1>0, <4>1, RecoverRows DEF Ids
      <4> QED  BY <3>3, <4>2 DEF BootRecover, TickSweep, SaveStatement, tickVars
    <3>4. CASE Elapse
      <4>1. runs' = AgedRows  BY <3>4 DEF Elapse, AgedRows
      <4>2. Len(runs') = Len(runs)  BY <1>0, <4>1, ElapseRows DEF Ids
      <4> QED  BY <3>4, <4>2 DEF Elapse, SaveStatement, tickVars
    <3>5. CASE ClaimNextPending
      <4>1. runs' = runs \/ \E r \in Ids : runs' = ClaimedRows(r)
        BY <3>5 DEF ClaimNextPending, ClaimedRows, OldestPending
      <4>2. Len(runs') = Len(runs)  BY <1>0, <4>1, ClaimRows DEF Ids
      <4> QED  BY <3>5, <4>2 DEF ClaimNextPending, SaveStatement
    <3>6. CASE MarkRunError
      <4>1. runs' = MarkError(job) /\ job \in Ids
        BY <3>6 DEF MarkRunError, IInv, TickHoldsItsRow, HoldsRow
      <4>2. Len(runs') = Len(runs)  BY <1>0, <4>1, MarkedRows DEF Ids
      <4> QED  BY <3>6, <4>2 DEF MarkRunError, SaveStatement
    <3> QED  BY <1>12, <3>1, <3>2, <3>3, <3>4, <3>5, <3>6 DEF Elsewhere
  <2>3. \/ answer' = answer /\ pc' = pc /\ job' = job
        \/ answer' = Nothing /\ pc' # "save"
    BY <2>1, <2>2 DEF AnswerInSave
  <2> QED  BY <1>0, <1>6, <2>1, <2>2, <2>3
<1> QED  BY <1>4, <1>5, <1>7, <1>8, <1>9, <1>10, <1>11, <1>12

-----------------------------------------------------------------------------
(* It starts with an empty bank and empty tables.                              *)
LEMMA InitSInv == SInit => SInv
<1> SUFFICES ASSUME SInit PROVE SInv  OBVIOUS
<1>1. IInv  BY InitIInv DEF SInit
<1>2. /\ Ids = {} /\ runs = <<>> /\ pc = "idle" /\ \A q \in Client : req[q].buf = <<>>
      /\ now = 1 /\ time = [i \in Item |-> 0] /\ cleared = [i \in Item |-> 0]
      /\ window = <<>> /\ asked = [q \in Client |-> 0]
      /\ answer = Nothing /\ rows = Nothing
  BY DEF SInit, Init, Ids, NoRequest
<1>3. STypeOK  BY <1>2, NothingHeld DEF STypeOK
<1>4. AskedPast /\ BufKinds /\ LiveWindows /\ Past /\ AnswerInSave
  BY <1>2 DEF AskedPast, BufKinds, LiveWindows, Past, AnswerInSave
<1>5. Fetched /\ StoredWhole /\ FreshAnswer /\ StaleHoldOutOfReach
  BY <1>2, NothingHeld DEF Fetched, StoredWhole, FreshAnswer, StaleHoldOutOfReach
<1> QED  BY <1>1, <1>3, <1>4, <1>5 DEF SInv

(* Every step keeps it.                                                        *)
LEMMA StepSInv == SInv /\ [SNext]_allVars => SInv'
<1> SUFFICES ASSUME SInv, [SNext]_allVars PROVE SInv'  OBVIOUS
<1>1. CASE Pass \/ \E i \in Item : Post(i) \/ Clear(i)  BY <1>1, BankStep
<1>2. CASE FetchStatement /\ pc' = "save"  BY <1>2, AnswerStep
<1>3. CASE SaveItems  BY <1>3, SaveStep
<1>4. CASE \/ EnqueueLiveWindow \/ CrashItems \/ TickFaultItems \/ Elsewhere
           \/ (FetchStatement /\ pc' # "save")
           \/ \E q \in Client : Ask(q) \/ CommitWindows(q) \/ AbortWindows(q)
           \/ UNCHANGED allVars
  BY <1>4, OtherSteps
<1> QED  BY <1>1, <1>2, <1>3, <1>4 DEF SNext

(* The invariant of the scheduler with its data.                               *)
THEOREM StatementsInvariance == SSpec => []SInv
  BY InitSInv, StepSInv, PTL DEF SSpec

(* Each row of import_runs has a window that has ended, and what is fetched    *)
(* and stored has been reported by the bank.                                   *)
THEOREM StatementsTypeCorrect == SSpec => []STypeOK
<1>1. SInv => STypeOK  BY DEF SInv
<1> QED  BY <1>1, StatementsInvariance, PTL

(* LIVE_POLL_LOOKBACK: a purchase within an hour before a poll that is done is *)
(* stored, whatever crashed, failed or was claimed late in between.            *)
THEOREM OnlyGapsLoseItems == SSpec => []MissedOnlyInGaps
<1>1. ASSUME SInv PROVE MissedOnlyInGaps
  <2> SUFFICES ASSUME NEW i \in Unstored, NEW r \in Ids, Done(r), runs[r].kind = "live",
                      runs[r].account = Owner[i], ~Cut(r),
                      time[i] < window[r].to, window[r].to <= time[i] + Lookback
               PROVE  FALSE
    BY DEF MissedOnlyInGaps
  <2>1. i \in Item /\ time[i] # 0 /\ i \notin DOMAIN rows  BY DEF Unstored
  <2>2. /\ window[r].from = window[r].to - Lookback
        /\ window[r].to \in Int /\ time[i] \in Nat
    BY <1>1, <2>1, RowsAndWindows DEF SInv, LiveWindows, STypeOK
  <2>3. i \in Reach(r)  BY <2>1, <2>2 DEF Reach, InWindow
  <2>4. Reach(r) \subseteq DOMAIN rows  BY <1>1 DEF SInv, StoredWhole
  <2> QED  BY <2>1, <2>3, <2>4
<1> QED  BY <1>1, StatementsInvariance, PTL

(* insert_many's ON CONFLICT DO UPDATE, with one row in flight at a time:       *)
(* nothing fetched earlier overwrites what was fetched later.                  *)
THEOREM StaleHoldsAreOutOfReach == SSpec => []StaleHoldOutOfReach
<1>1. SInv => StaleHoldOutOfReach  BY DEF SInv
<1> QED  BY <1>1, StatementsInvariance, PTL

-----------------------------------------------------------------------------
(* Backfills.                                                                  *)

(* The chunks of one card stand together in what a request will insert, and   *)
(* its rows are a whole number of such blocks.                                *)
Base(b) == \E n \in Nat : b = n * Chunks
Blocked(buf) ==
  /\ Base(Len(buf))
  /\ \A p \in DOMAIN buf : \E b \in Nat :
       /\ Base(b) /\ b + Chunks <= Len(buf)
       /\ \A k \in 1..Chunks : buf[b + k].account = buf[p].account
BufBlocks == \A q \in Client : req[q].op = "backfill" => Blocked(req[q].buf)

(* Each backfill row has beside it a sibling for every chunk.                 *)
Whole(r) ==
  \E t \in Nat : /\ \E k \in 1..Chunks : window[r] = BackfillChunk(t, k)
                 /\ \A k \in 1..Chunks :
                      \E s \in Siblings(r) : window[s] = BackfillChunk(t, k)
WholeBackfills == \A r \in Ids : runs[r].kind = "backfill" => Whole(r)

(* Dividing an instant's distance by the length of a chunk finds its chunk.    *)
LEMMA Quotient ==
  ASSUME NEW x \in Nat, NEW c \in Nat \ {0}
  PROVE  \E d \in Nat : d * c <= x /\ x < d * c + c
<1> DEFINE d == x \div c
           r == x % c
<1>1. d \in Int /\ r \in 0..(c - 1) /\ x = c * d + r  OBVIOUS
<1>2. d >= 0
  <2>1. CASE d <= -1
    <3>1. c * d <= -c  BY <1>1, <2>1
    <3> QED  BY <1>1, <3>1
  <2> QED  BY <1>1, <2>1
<1>3. d \in Nat /\ c * d = d * c  BY <1>1, <1>2
<1> HIDE DEF d, r
<1>4. d * c \in Int /\ x = d * c + r  BY <1>1, <1>3
<1> DEFINE e == d * c
<1>5. e <= x /\ x < e + c
  <2>1. e \in Int /\ x = e + r /\ r \in 0..(c - 1)  BY <1>1, <1>4
  <2> HIDE DEF e
  <2> QED  BY <2>1
<1> QED  BY <1>3, <1>5

(* Counting on from a base, the remainder counts the chunks.                   *)
LEMMA Remainder ==
  ASSUME NEW b \in Nat, Base(b), NEW k \in 1..Chunks
  PROVE  ((b + k - 1) % Chunks) + 1 = k
<1>1. PICK n \in Nat : b = n * Chunks  BY DEF Base
<1> DEFINE x == b + k - 1
           d == x \div Chunks
           r == x % Chunks
<1>2. /\ x \in Nat /\ d \in Int /\ r \in 0..(Chunks - 1) /\ x = Chunks * d + r
      /\ Chunks \in Nat \ {0}
  OBVIOUS
<1> HIDE DEF d, r
<1>3. (n - d) * Chunks = r - (k - 1)
  <2>1. (n - d) * Chunks = n * Chunks - Chunks * d  BY <1>2
  <2> QED  BY <1>1, <1>2, <2>1
<1>4. CASE n - d >= 1
  <2>1. (n - d) * Chunks >= Chunks  BY <1>2, <1>4
  <2> QED  BY <1>2, <1>3, <2>1
<1>5. CASE n - d <= -1
  <2>1. (n - d) * Chunks <= -Chunks  BY <1>2, <1>5
  <2> QED  BY <1>2, <1>3, <2>1
<1>6. CASE n - d = 0
  <2>1. (n - d) * Chunks = 0  BY <1>2, <1>6
  <2>2. r = k - 1  BY <1>2, <1>3, <2>1
  <2> QED  BY <2>2 DEF r
<1> QED  BY <1>2, <1>4, <1>5, <1>6

(* One more card is one more block.                                            *)
LEMMA AppendBlock ==
  ASSUME NEW buf \in Seq(Run), Blocked(buf), NEW c \in Account
  PROVE  Blocked(buf \o NewRows(c, "backfill", 0, Chunks))
<1> DEFINE new == NewRows(c, "backfill", 0, Chunks)
           all == buf \o new
<1>1. /\ new \in Seq(Run) /\ Len(new) = Chunks
      /\ \A k \in 1..Chunks : new[k].account = c
  <2>1. NewRow(c, "backfill", 0) \in Run /\ NewRow(c, "backfill", 0).account = c
    BY RowsPending DEF NewRow, Kind
  <2> DEFINE row == NewRow(c, "backfill", 0)
  <2>2. new = [i \in 1..Chunks |-> row]  BY DEF NewRows
  <2> HIDE DEF row, new
  <2>3. new \in [1..Chunks -> Run] /\ Chunks \in Nat  BY <2>1, <2>2 DEF row
  <2> QED  BY <2>1, <2>2, <2>3 DEF row
<1> HIDE DEF new
<1>2. /\ Len(all) = Len(buf) + Chunks /\ Len(buf) \in Nat /\ DOMAIN buf = 1..Len(buf)
      /\ DOMAIN all = 1..(Len(buf) + Chunks)
      /\ \A p \in 1..Len(buf) : all[p] = buf[p]
      /\ \A k \in 1..Chunks : all[Len(buf) + k].account = c
  <2>1. /\ Len(all) = Len(buf) + Chunks /\ Len(buf) \in Nat /\ DOMAIN buf = 1..Len(buf)
        /\ DOMAIN all = 1..(Len(buf) + Chunks) /\ DOMAIN new = 1..Chunks
    <3>0. \A x \in Seq(Run), y \in Seq(Run) :
            x \o y \in Seq(Run) /\ Len(x \o y) = Len(x) + Len(y)
      OBVIOUS
    <3>1. all \in Seq(Run) /\ Len(all) = Len(buf) + Len(new)  BY <1>1, <3>0
    <3>2. \A x \in Seq(Run) : DOMAIN x = 1..Len(x) /\ Len(x) \in Nat  OBVIOUS
    <3> HIDE DEF all
    <3> QED  BY <1>1, <3>1, <3>2
  <2>2. \A p \in 1..Len(buf) : all[p] = buf[p]  BY <1>1
  <2>3. \A k \in 1..Chunks : all[Len(buf) + k] = new[k]
    <3> SUFFICES ASSUME NEW k \in 1..Chunks PROVE all[Len(buf) + k] = new[k]  OBVIOUS
    <3>1. Len(buf) + k \in 1..(Len(buf) + Chunks) /\ Len(buf) + k > Len(buf)
          /\ Len(buf) + k - Len(buf) = k
      BY <2>1
    <3> QED  BY <1>1, <2>1, <3>1
  <2> HIDE DEF all
  <2> QED  BY <1>1, <2>1, <2>2, <2>3
<1> HIDE DEF all
<1>3. Base(Len(all))
  <2>1. PICK n \in Nat : Len(buf) = n * Chunks  BY DEF Blocked, Base
  <2>2. (n + 1) * Chunks = n * Chunks + Chunks  OBVIOUS
  <2>3. n + 1 \in Nat /\ Len(all) = (n + 1) * Chunks  BY <1>2, <2>1, <2>2
  <2> QED  BY <2>3 DEF Base
<1>4. ASSUME NEW p \in 1..Len(buf)
      PROVE  \E b \in Nat : /\ Base(b) /\ b + Chunks <= Len(all)
                            /\ \A k \in 1..Chunks : all[b + k].account = all[p].account
  <2>1. PICK b \in Nat : /\ Base(b) /\ b + Chunks <= Len(buf)
                         /\ \A k \in 1..Chunks : buf[b + k].account = buf[p].account
    BY <1>2 DEF Blocked
  <2>2. \A k \in 1..Chunks : b + k \in 1..Len(buf)  BY <1>2, <2>1
  <2>3. \A k \in 1..Chunks : all[b + k].account = all[p].account  BY <1>2, <2>1, <2>2
  <2>4. b + Chunks <= Len(all)  BY <1>2, <2>1
  <2> QED  BY <2>1, <2>3, <2>4
<1>5. ASSUME NEW p \in (Len(buf) + 1)..(Len(buf) + Chunks)
      PROVE  \E b \in Nat : /\ Base(b) /\ b + Chunks <= Len(all)
                            /\ \A k \in 1..Chunks : all[b + k].account = all[p].account
  <2>1. p - Len(buf) \in 1..Chunks /\ p = Len(buf) + (p - Len(buf))  BY <1>2
  <2>2. all[p].account = c  BY <1>2, <2>1
  <2>3. Base(Len(buf))  BY DEF Blocked
  <2>4. \A k \in 1..Chunks : all[Len(buf) + k].account = all[p].account  BY <1>2, <2>2
  <2>5. Len(buf) \in Nat /\ Len(buf) + Chunks <= Len(all)  BY <1>2
  <2> QED  BY <2>3, <2>4, <2>5
<1>6. \A p \in DOMAIN all : p \in 1..Len(buf) \/ p \in (Len(buf) + 1)..(Len(buf) + Chunks)
  BY <1>2
<1>7. Blocked(all)  BY <1>3, <1>4, <1>5, <1>6 DEF Blocked
<1> QED  BY <1>7 DEF all, new

(* A request lists its cards and inserts block after block.                    *)
LEMMA BufBlocksStep ==
  ASSUME IInv, BufBlocks, [Next]_vars PROVE BufBlocks'
<1>0. req \in [Client -> Request]  BY DEF IInv, TypeOK
<1>e. Blocked(<<>>)
  <2>1. 0 = 0 * Chunks /\ Len(<<>>) = 0  OBVIOUS
  <2>2. Base(0)  BY <2>1 DEF Base
  <2> QED  BY <2>1, <2>2 DEF Blocked
<1>1. CASE UNCHANGED req  BY <1>1 DEF BufBlocks
<1>2. CASE Crash
  <2>1. \A q \in Client : req'[q].buf = <<>>  BY <1>2 DEF Crash, NoRequest
  <2> QED  BY <1>e, <2>1 DEF BufBlocks
<1>3. ASSUME NEW q \in Client,
             PostImport(q) \/ PostBackfill(q) \/ CommitRequest(q) \/ AbortRequest(q)
      PROVE  BufBlocks'
  <2>1. /\ req'[q].buf = <<>>
        /\ \A p \in Client \ {q} : req'[p] = req[p]
    BY <1>0, <1>3 DEF PostImport, PostBackfill, BeginRequest, CommitRequest, AbortRequest,
       NoRequest
  <2> QED  BY <1>e, <2>1 DEF BufBlocks
<1>4. ASSUME NEW q \in Client, EnqueueForCard(q) PROVE BufBlocks'
  <2>1. PICK c \in req[q].todo :
          req' = [req EXCEPT ![q] = [op |-> @.op, todo |-> @.todo \ {c},
                                     buf |-> @.buf \o Inserted(q, c)]]
    BY <1>4 DEF EnqueueForCard
  <2>2. c \in Account /\ req[q].buf \in Seq(Run) /\ req[q].op # "none"
    BY <1>0, <1>4 DEF Request, EnqueueForCard
  <2>3. /\ req'[q].op = req[q].op /\ req'[q].buf = req[q].buf \o Inserted(q, c)
        /\ \A p \in Client \ {q} : req'[p] = req[p]
    BY <1>0, <2>1
  <2>4. ASSUME req[q].op = "backfill" PROVE Blocked(req[q].buf \o Inserted(q, c))
    <3>1. Blocked(req[q].buf)  BY <2>4 DEF BufBlocks
    <3>2. Inserted(q, c) \in {<<>>, NewRows(c, "backfill", 0, Chunks)}
      BY <2>4 DEF Inserted
    <3>3. req[q].buf \o <<>> = req[q].buf  BY <2>2
    <3> QED  BY <2>2, <3>1, <3>2, <3>3, AppendBlock
  <2> QED  BY <2>3, <2>4 DEF BufBlocks
<1> QED
  BY <1>1, <1>2, <1>3, <1>4
  DEF Next, vars, Tick, TickFault, Requests, Start, BootRecover, BootRead, Elapse,
      RevokeToken, RotateToken, TickStart, TickSweep, EnsureAccountsDiscovered,
      DiscoverAnswer, SaveAccounts, ClaimNextPending, PickNextActiveCard, EnqueueLive,
      FetchAnswer, SaveStatement, MarkRunError, SetStateAuthFailed

(* While windows stand still a backfill that is whole stays whole.             *)
LEMMA WholeStays ==
  ASSUME RowsKept, \A r \in Ids : window'[r] = window[r], NEW r \in Ids, Whole(r)
  PROVE  Whole(r)'
<1>1. PICK t \in Nat : /\ \E k \in 1..Chunks : window[r] = BackfillChunk(t, k)
                       /\ \A k \in 1..Chunks :
                            \E s \in Siblings(r) : window[s] = BackfillChunk(t, k)
  BY DEF Whole
<1>2. \A s \in Siblings(r) : s \in Siblings(r)' /\ window'[s] = window[s]
  BY DEF Siblings, RowsKept, SameRow, Ids
<1>3. \A k \in 1..Chunks : \E s \in Siblings(r)' : window'[s] = BackfillChunk(t, k)
  BY <1>1, <1>2
<1>4. \E k \in 1..Chunks : window'[r] = BackfillChunk(t, k)  BY <1>1
<1>5. \A k \in 1..Chunks : BackfillChunk(t, k)' = BackfillChunk(t, k)  BY DEF BackfillChunk
<1> QED  BY <1>1, <1>3, <1>4, <1>5 DEF Whole

(* A backfill that is committed is whole.                                      *)
LEMMA CommitWhole ==
  ASSUME SInv, BufBlocks, NEW q \in Client, CommitWindows(q),
         NEW r \in DOMAIN runs' \ Ids, runs'[r].kind = "backfill"
  PROVE  Whole(r)'
<1> DEFINE buf == req[q].buf
           L == Len(runs)
           t == asked[q]
<1>1. /\ buf \in Seq(Run) /\ runs \in Seq(Run) /\ t \in Nat /\ clock \in Nat
      /\ window \in Seq(Window) /\ Len(window) = L /\ L \in Nat
      /\ \A p \in DOMAIN buf : buf[p].kind = KindOf(req[q].op)
      /\ req[q].op \in Op /\ req[q].op # "none"
  BY DEF SInv, IInv, TypeOK, STypeOK, Request, BufKinds, CommitWindows, CommitRequest
<1>2. /\ runs' = runs \o Stamped(buf) /\ window' = window \o Windows(q)
  BY DEF CommitWindows, CommitRequest
<1> HIDE DEF buf
<1>3. /\ DOMAIN buf = 1..Len(buf) /\ Len(buf) \in Nat
      /\ Stamped(buf) \in Seq(Run) /\ Len(Stamped(buf)) = Len(buf)
      /\ \A p \in DOMAIN buf : /\ Stamped(buf)[p].account = buf[p].account
                               /\ Stamped(buf)[p].kind = buf[p].kind
                               /\ Stamped(buf)[p].created = clock
  <2> DEFINE Stamp(row) == [row EXCEPT !.created = clock]
  <2>1. \A row \in Run : /\ Stamp(row) \in Run /\ Stamp(row).account = row.account
                         /\ Stamp(row).kind = row.kind /\ Stamp(row).created = clock
    BY <1>1 DEF Run
  <2>2. Stamped(buf) = [p \in DOMAIN buf |-> Stamp(buf[p])]  BY DEF Stamped
  <2>3. DOMAIN buf = 1..Len(buf) /\ Len(buf) \in Nat /\ \A p \in DOMAIN buf : buf[p] \in Run
    BY <1>1
  <2> HIDE DEF Stamp
  <2>4. Stamped(buf) \in [1..Len(buf) -> Run]  BY <2>1, <2>2, <2>3
  <2> QED  BY <2>1, <2>2, <2>3, <2>4
<1>4. /\ Windows(q) \in Seq(Window) /\ Len(Windows(q)) = Len(buf)
  BY <1>1, RequestWindows DEF buf
<1>5. \A p \in 1..Len(buf) : /\ L + p \in DOMAIN runs' \ Ids
                             /\ runs'[L + p] = Stamped(buf)[p]
                             /\ window'[L + p] = Windows(q)[p]
  <2> SUFFICES ASSUME NEW p \in 1..Len(buf)
               PROVE  /\ L + p \in DOMAIN runs' \ Ids
                      /\ runs'[L + p] = Stamped(buf)[p]
                      /\ window'[L + p] = Windows(q)[p]
    OBVIOUS
  <2>1. L + p > L /\ L + p - L = p /\ L + p \in 1..(L + Len(buf)) /\ p \in Nat
    BY <1>1, <1>3
  <2>2. L + p \in DOMAIN runs' \ Ids  BY <1>1, <1>2, <1>3, <2>1 DEF Ids
  <2>3. runs'[L + p] = Stamped(buf)[p]  BY <1>1, <1>2, <1>3, <2>1
  <2>4. window'[L + p] = Windows(q)[p]  BY <1>1, <1>2, <1>4, <2>1
  <2> QED  BY <2>2, <2>3, <2>4
<1>6. PICK p \in 1..Len(buf) : r = L + p
  <2>1. r \in 1..(L + Len(buf)) /\ r \notin 1..L  BY <1>1, <1>2, <1>3 DEF Ids
  <2>2. r - L \in 1..Len(buf) /\ r = L + (r - L)  BY <1>1, <1>3, <2>1
  <2> QED  BY <2>2
<1>7. req[q].op = "backfill"
  <2>1. buf[p].kind = "backfill"  BY <1>3, <1>5, <1>6
  <2> QED  BY <1>1, <1>3, <2>1 DEF KindOf, Op
<1>8. \A n \in 1..Len(buf) : Windows(q)[n] = BackfillChunk(t, ((n - 1) % Chunks) + 1)
  BY <1>3, <1>7 DEF Windows, buf
<1>9. PICK b \in Nat : /\ Base(b) /\ b + Chunks <= Len(buf)
                       /\ \A k \in 1..Chunks : buf[b + k].account = buf[p].account
  BY <1>3, <1>7 DEF BufBlocks, Blocked, buf
<1>10. ASSUME NEW k \in 1..Chunks
       PROVE  \E s \in Siblings(r)' : window'[s] = BackfillChunk(t, k)
  <2>1. b + k \in 1..Len(buf)  BY <1>3, <1>9
  <2>2. window'[L + (b + k)] = BackfillChunk(t, k)
    <3>1. ((b + k - 1) % Chunks) + 1 = k  BY <1>9, Remainder
    <3> QED  BY <1>5, <1>8, <2>1, <3>1
  <2>3. L + (b + k) \in Siblings(r)'
    <3>1. /\ runs'[L + (b + k)] = Stamped(buf)[b + k] /\ runs'[r] = Stamped(buf)[p]
          /\ L + (b + k) \in DOMAIN runs'
      BY <1>5, <1>6, <2>1
    <3>2. /\ buf[b + k].account = buf[p].account /\ buf[b + k].kind = buf[p].kind
      BY <1>1, <1>3, <1>9, <2>1
    <3> QED  BY <1>3, <2>1, <3>1, <3>2 DEF Siblings, Ids
  <2> QED  BY <2>2, <2>3
<1>11. \E k \in 1..Chunks : window'[r] = BackfillChunk(t, k)
  <2>1. ((p - 1) % Chunks) + 1 \in 1..Chunks  BY <1>3
  <2> QED  BY <1>5, <1>6, <1>8, <2>1
<1> QED  BY <1>1, <1>10, <1>11 DEF Whole, BackfillChunk

(* Every step keeps backfills whole.                                           *)
LEMMA WholeStep ==
  ASSUME SInv, BufBlocks, WholeBackfills, [SNext]_allVars
  PROVE  (BufBlocks /\ WholeBackfills)'
<1>1. [Next]_vars
  <2>1. CASE UNCHANGED allVars  BY <2>1 DEF allVars
  <2> QED  BY <2>1, StepRefines
<1>2. SInv' /\ SchedulerStep  BY <1>1, StepSInv, SchedulerHalf
<1>3. BufBlocks'  BY <1>1, BufBlocksStep DEF SInv
<1>4. /\ runs \in Seq(Run) /\ window \in Seq(Window) /\ Len(window) = Len(runs)
      /\ runs' \in Seq(Run) /\ window' \in Seq(Window) /\ Len(window') = Len(runs')
      /\ Ids = 1..Len(runs) /\ DOMAIN runs' = 1..Len(runs') /\ Len(runs) \in Nat
  BY <1>2 DEF SInv, IInv, TypeOK, STypeOK, Ids
<1>5. ASSUME \A r \in Ids : window'[r] = window[r],
             \A r \in DOMAIN runs' \ Ids : runs'[r].kind = "backfill" => Whole(r)'
      PROVE  WholeBackfills'
  <2>1. ASSUME NEW r \in Ids, runs'[r].kind = "backfill" PROVE Whole(r)'
    <3>1. runs[r].kind = "backfill"  BY <1>2, <2>1 DEF SchedulerStep, RowsKept, SameRow
    <3>2. Whole(r)  BY <3>1 DEF WholeBackfills
    <3> QED  BY <1>2, <1>5, <3>2, WholeStays DEF SchedulerStep
  <2> QED  BY <1>5, <2>1 DEF WholeBackfills, Ids
<1>6. CASE window' = window
  <2>1. DOMAIN runs' = Ids  BY <1>4, <1>6
  <2> QED  BY <1>3, <1>5, <1>6, <2>1
<1>7. CASE EnqueueLiveWindow /\ window' # window
  <2>1. /\ runs' = Append(runs, NewRow(picked, "live", clock))
        /\ window' = Append(window, LiveWindow(now))
    BY <1>7 DEF EnqueueLiveWindow, EnqueueLive
  <2>2. \A r \in Ids : window'[r] = window[r]  BY <1>4, <2>1
  <2>3. \A r \in DOMAIN runs' \ Ids : runs'[r].kind = "live"
    <3>1. \A r \in DOMAIN runs' \ Ids : r = Len(runs) + 1  BY <1>4, <2>1
    <3>2. runs'[Len(runs) + 1] = NewRow(picked, "live", clock)  BY <1>4, <2>1
    <3> QED  BY <3>1, <3>2 DEF NewRow
  <2> QED  BY <1>3, <1>5, <2>2, <2>3
<1>8. ASSUME NEW q \in Client, CommitWindows(q) PROVE WholeBackfills'
  <2>1. window' = window \o Windows(q)  BY <1>8 DEF CommitWindows
  <2>2. Windows(q) \in Seq(Window)
    <3>1. req[q].buf \in Seq(Run) /\ asked[q] \in Nat
      BY DEF SInv, IInv, TypeOK, STypeOK, Request
    <3> QED  BY <3>1, RequestWindows
  <2>3. \A r \in Ids : window'[r] = window[r]  BY <1>4, <2>1, <2>2
  <2> QED  BY <1>5, <1>8, <2>3, CommitWhole
<1>9. window' = window \/ EnqueueLiveWindow \/ \E q \in Client : CommitWindows(q)
  BY DEF SNext, allVars, dataVars, Pass, Post, Clear, FetchStatement, SaveItems, CrashItems,
     TickFaultItems, Ask, AbortWindows, Elsewhere
<1> QED  BY <1>3, <1>6, <1>7, <1>8, <1>9

(* window.py:21-23: the chunks of a backfill meet at their seams and reach as  *)
(* far back as was asked; when all of them are done, nothing in between is      *)
(* missing, in whatever order they came and whatever happened in between.      *)
THEOREM BackfillsLeaveNoSeam == SSpec => []BackfillCoversItsMonths
<1>1. SInit => BufBlocks /\ WholeBackfills
  <2>1. ASSUME SInit PROVE Ids = {} /\ \A q \in Client : req[q].op = "none"
    BY <2>1 DEF SInit, Init, Ids, NoRequest
  <2> QED  BY <2>1 DEF BufBlocks, WholeBackfills
<1>2. ASSUME SInv, WholeBackfills PROVE BackfillCoversItsMonths
  <2> SUFFICES ASSUME NEW i \in Unstored, NEW r \in Ids,
                      runs[r].kind = "backfill", runs[r].account = Owner[i],
                      \A s \in Siblings(r) : Done(s) /\ ~Cut(s) /\ window[s].to <= window[r].to,
                      window[r].to - Chunks * ChunkLength <= time[i],
                      time[i] < window[r].to
               PROVE  FALSE
    BY DEF BackfillCoversItsMonths
  <2>1. i \in Item /\ time[i] # 0 /\ i \notin DOMAIN rows /\ time[i] \in Nat
    BY <1>2 DEF Unstored, SInv, STypeOK
  <2>2. PICK t \in Nat : /\ \E k \in 1..Chunks : window[r] = BackfillChunk(t, k)
                         /\ \A k \in 1..Chunks :
                              \E s \in Siblings(r) : window[s] = BackfillChunk(t, k)
    BY <1>2 DEF WholeBackfills, Whole
  <2>3. window[r].to = t
    <3>1. PICK k \in 1..Chunks : window[r] = BackfillChunk(t, k)  BY <2>2
    <3>2. (k - 1) * ChunkLength \in Nat  OBVIOUS
    <3>3. window[r].to = t - (k - 1) * ChunkLength  BY <3>1 DEF BackfillChunk
    <3>4. PICK s \in Siblings(r) : window[s] = BackfillChunk(t, 1)  BY <2>2
    <3>5. (1 - 1) * ChunkLength = 0  OBVIOUS
    <3>6. window[s].to = t  BY <3>4, <3>5 DEF BackfillChunk
    <3>7. t <= window[r].to  BY <3>4, <3>6
    <3> QED  BY <3>2, <3>3, <3>7
  <2>4. PICK d \in Nat : /\ d * ChunkLength <= t - 1 - time[i]
                         /\ t - 1 - time[i] < d * ChunkLength + ChunkLength
    <3>1. t - 1 - time[i] \in Nat  BY <2>1, <2>3
    <3> QED  BY <3>1, Quotient
  <2>5. d + 1 \in 1..Chunks
    <3>1. CASE d >= Chunks
      <4>1. d * ChunkLength >= Chunks * ChunkLength  BY <3>1
      <4> QED  BY <2>1, <2>3, <2>4, <4>1
    <3> QED  BY <3>1
  <2>6. PICK s \in Siblings(r) : window[s] = BackfillChunk(t, d + 1)  BY <2>2, <2>5
  <2>7. window[s].from <= time[i] /\ time[i] < window[s].to
    <3>1. /\ (d + 1) * ChunkLength = d * ChunkLength + ChunkLength
          /\ (d + 1 - 1) * ChunkLength = d * ChunkLength
      OBVIOUS
    <3>2. /\ window[s].from = t - (d * ChunkLength + ChunkLength)
          /\ window[s].to = t - d * ChunkLength
      BY <2>6, <3>1 DEF BackfillChunk
    <3> QED  BY <2>1, <2>4, <3>2
  <2>8. s \in Ids /\ runs[s].account = Owner[i] /\ Done(s) /\ ~Cut(s)  BY DEF Siblings
  <2>9. window[s].to \in Int  BY <1>2, <2>8, RowsAndWindows
  <2>10. i \in Reach(s)  BY <2>1, <2>7, <2>8, <2>9 DEF Reach, InWindow
  <2> QED  BY <1>2, <2>1, <2>8, <2>10 DEF SInv, StoredWhole
<1> DEFINE Both == BufBlocks /\ WholeBackfills
<1>3. ASSUME SInv, Both, [SNext]_allVars PROVE Both'  BY <1>3, WholeStep
<1>4. SInv /\ Both => BackfillCoversItsMonths  BY <1>2
<1>5. SInit => Both  BY <1>1
<1> HIDE DEF Both
<1> QED  BY <1>3, <1>4, <1>5, StatementsInvariance, PTL DEF SSpec
=============================================================================
