----------------------------- MODULE Statements -----------------------------
(***************************************************************************)
(* The scheduler with the data it moves: the time window of each import_runs *)
(* row (scheduler/window.py, LIVE_POLL_LOOKBACK), the statement the bank     *)
(* answers for it (importers/monobank.py) and the transactions rows it       *)
(* becomes (TransactionRepo.insert_many).  Every step is one of Scheduler    *)
(* with what it does to the data, or a step of the bank or of the clock.     *)
(*                                                                           *)
(* An item has one time for ever, as Monobank reports a hold that clears     *)
(* under its id and `time`; the window is compared with that time.           *)
(***************************************************************************)
EXTENDS Scheduler, Integers

CONSTANTS
  Item,         \* statement items the bank will report
  Owner,        \* the account of each
  Code,         \* its currencyCode: that of the operation (PITFALLS.md:230)
  Mapped,       \* codes numeric_to_alpha knows
  Lookback,     \* LIVE_POLL_LOOKBACK
  ChunkLength,  \* MONO_STATEMENT_BACKFILL_WINDOW_DAYS
  PageSize,     \* the most items of one answer (FEATURES.md:108)
  Occurs,       \* bound: the instants at which each item may happen
  LastNow       \* bound: how long the model runs

ASSUME StatementsAssumption ==
  /\ IsFiniteSet(Item)
  /\ Owner \in [Item -> Account]
  /\ Code \in [Item -> Nat]
  /\ Mapped \subseteq Nat
  /\ Lookback \in Nat \ {0} /\ ChunkLength \in Nat \ {0}
  /\ PageSize \in Nat \ {0}
  /\ Occurs \in [Item -> SUBSET Nat] /\ LastNow \in Nat

VARIABLES
  now,       \* datetime.now(UTC)
  time,      \* the bank: when each item happened, 0 while it has not
  cleared,   \* the bank: since when it is no hold, 0 while it is one
  window,    \* import_runs: window_from and window_to
  asked,     \* `now` of each HTTP request being served
  answer,    \* the tick's local `items`: item |-> hold
  rows       \* transactions: item |-> hold

bankVars == <<time, cleared>>
dataVars == <<now, time, cleared, window, asked, answer, rows>>
allVars  == <<vars, dataVars>>

Window  == [from : Int, to : Int]
Nothing == [i \in {} |-> TRUE]
Holds   == UNION {[D -> BOOLEAN] : D \in SUBSET Item}

SInit ==
  /\ Init
  /\ now = 1
  /\ time = [i \in Item |-> 0] /\ cleared = [i \in Item |-> 0]
  /\ window = <<>>
  /\ asked = [q \in Client |-> 0]
  /\ answer = Nothing /\ rows = Nothing

-----------------------------------------------------------------------------
(* The clock and the bank *)

Pass ==
  /\ now < LastNow
  /\ now' = now + 1
  /\ UNCHANGED <<vars, bankVars, window, asked, answer, rows>>

Post(i) ==
  /\ time[i] = 0 /\ now \in Occurs[i]
  /\ time' = [time EXCEPT ![i] = now]
  /\ \E since \in {0, now} : cleared' = [cleared EXCEPT ![i] = since]
  /\ UNCHANGED <<vars, now, window, asked, answer, rows>>

Clear(i) ==
  /\ time[i] # 0 /\ cleared[i] = 0
  /\ cleared' = [cleared EXCEPT ![i] = now]
  /\ UNCHANGED <<vars, now, time, window, asked, answer, rows>>

-----------------------------------------------------------------------------
(* Windows *)

(* Variant: the window starts a unit late. *)
LiveWindowLate(t) == [from |-> t - Lookback + 1, to |-> t]

LiveWindow(t) == [from |-> t - Lookback, to |-> t]

(* Variant: the loop variable is forgotten, every chunk is the newest.        *)
BackfillChunkStuck(t, k) == [from |-> t - ChunkLength, to |-> t]

(* Variant: k counts from 1 where the formula counts from 0.                  *)
BackfillChunkAhead(t, k) ==
  [from |-> t + ChunkLength - k * ChunkLength, to |-> t + 2 * ChunkLength - k * ChunkLength]

(* backfill_chunks(now, months): the k-th, newest first.                     *)
BackfillChunk(t, k) == [from |-> t - k * ChunkLength, to |-> t - (k - 1) * ChunkLength]

(* The windows of the rows a request inserts, card after card.               *)
Windows(q) ==
  [k \in DOMAIN req[q].buf |->
     IF req[q].op = "import" THEN LiveWindow(asked[q])
                             ELSE BackfillChunk(asked[q], ((k - 1) % Chunks) + 1)]

EnqueueLiveWindow ==
  /\ EnqueueLive
  /\ window' = IF Len(runs') > Len(runs) THEN Append(window, LiveWindow(now)) ELSE window
  /\ UNCHANGED <<now, bankVars, asked, answer, rows>>

Ask(q) ==
  /\ PostImport(q) \/ PostBackfill(q)
  /\ asked' = [asked EXCEPT ![q] = now]
  /\ UNCHANGED <<now, bankVars, window, answer, rows>>

CommitWindows(q) ==
  /\ CommitRequest(q)
  /\ window' = window \o Windows(q)
  /\ asked' = [asked EXCEPT ![q] = 0]
  /\ UNCHANGED <<now, bankVars, answer, rows>>

AbortWindows(q) ==
  /\ AbortRequest(q)
  /\ asked' = [asked EXCEPT ![q] = 0]
  /\ UNCHANGED <<now, bankVars, window, answer, rows>>

-----------------------------------------------------------------------------
(* Statements *)

InWindow(r) ==
  {i \in Item : /\ time[i] # 0 /\ Owner[i] = runs[r].account
                /\ window[r].from <= time[i] /\ time[i] <= window[r].to}

(* The answer: all of the window, or the newest PageSize of it.              *)
Pages(r) ==
  {P \in SUBSET InWindow(r) :
     \/ P = InWindow(r) /\ Cardinality(P) <= PageSize
     \/ /\ Cardinality(P) = PageSize
        /\ \A i \in P, j \in InWindow(r) \ P : time[j] <= time[i]}

(* fetch_statement; numeric_to_alpha raises on the first unknown code, which  *)
(* loses the whole statement: the error of FetchAnswer.                      *)
FetchStatement ==
  /\ FetchAnswer
  /\ \/ /\ pc' = "save"
        /\ \E P \in Pages(job) :
             /\ \A i \in P : Code[i] \in Mapped
             /\ answer' = [i \in P |-> cleared[i] = 0]
     \/ pc' # "save" /\ UNCHANGED answer
  /\ UNCHANGED <<now, bankVars, window, asked, rows>>

(* Variant: ON CONFLICT DO NOTHING. *)
UpsertNewOnly == [i \in DOMAIN rows \cup DOMAIN answer |->
                    IF i \in DOMAIN rows THEN rows[i] ELSE answer[i]]

(* insert_many: hold is among the columns ON CONFLICT DO UPDATE sets.         *)
Upsert == [i \in DOMAIN rows \cup DOMAIN answer |->
             IF i \in DOMAIN answer THEN answer[i] ELSE rows[i]]

SaveItems ==
  /\ SaveStatement
  /\ rows' = Upsert
  /\ answer' = Nothing
  /\ UNCHANGED <<now, bankVars, window, asked>>

(* The locals of a tick and of the requests are gone.                        *)
CrashItems ==
  /\ Crash
  /\ answer' = Nothing /\ asked' = [q \in Client |-> 0]
  /\ UNCHANGED <<now, bankVars, window, rows>>

TickFaultItems ==
  /\ TickFault
  /\ answer' = Nothing
  /\ UNCHANGED <<now, bankVars, window, asked, rows>>

(* Steps of Scheduler that touch none of the data.                           *)
Elsewhere ==
  /\ \/ Start \/ BootRecover \/ BootRead \/ Elapse \/ RevokeToken \/ RotateToken
     \/ TickStart \/ TickSweep \/ EnsureAccountsDiscovered \/ DiscoverAnswer
     \/ SaveAccounts \/ ClaimNextPending \/ PickNextActiveCard \/ MarkRunError
     \/ SetStateAuthFailed
     \/ \E q \in Client : EnqueueForCard(q)
  /\ UNCHANGED dataVars

SNext ==
  \/ Pass \/ \E i \in Item : Post(i) \/ Clear(i)
  \/ EnqueueLiveWindow \/ FetchStatement \/ SaveItems \/ CrashItems \/ TickFaultItems
  \/ \E q \in Client : Ask(q) \/ CommitWindows(q) \/ AbortWindows(q)
  \/ Elsewhere

SSpec == SInit /\ [][SNext]_allVars

-----------------------------------------------------------------------------
(* Properties *)

(* The windows are those of the rows, what a tick holds and what is stored    *)
(* are items the bank has reported, and no run is claimed before its window    *)
(* has ended.                                                                 *)
STypeOK ==
  /\ now \in Nat \ {0}
  /\ time \in [Item -> Nat] /\ cleared \in [Item -> Nat]
  /\ window \in Seq(Window) /\ Len(window) = Len(runs)
  /\ asked \in [Client -> Nat]
  /\ answer \in Holds /\ rows \in Holds
  /\ \A i \in DOMAIN answer \cup DOMAIN rows : time[i] # 0
  /\ \A r \in Ids : window[r].to <= now

Done(r)  == runs[r].status = "done"
Cut(r)   == Cardinality(InWindow(r)) > PageSize
Unstored == {i \in Item : time[i] # 0 /\ i \notin DOMAIN rows}

(* What live polling guarantees, through crashes, failed saves and late        *)
(* claims: a purchase is stored by the first poll done that was enqueued       *)
(* within Lookback after it, unless the bank cut that answer short.            *)
MissedOnlyInGaps ==
  \A i \in Unstored, r \in Ids :
    Done(r) /\ runs[r].kind = "live" /\ runs[r].account = Owner[i] /\ ~Cut(r)
      => ~(time[i] < window[r].to /\ window[r].to <= time[i] + Lookback)

(* Chunks inserted by one transaction for one card.                           *)
Siblings(r) == {s \in Ids : /\ runs[s].kind = runs[r].kind
                            /\ runs[s].account = runs[r].account
                            /\ runs[s].created = runs[r].created}

(* window.py:21-23: the chunks of a backfill cover everything from its months  *)
(* back until it was asked for.  Once they are all done, in whatever order,     *)
(* nothing in between is missing, at the seams neither.                         *)
BackfillCoversItsMonths ==
  \A i \in Unstored, r \in Ids :
    /\ runs[r].kind = "backfill" /\ runs[r].account = Owner[i]
    /\ \A s \in Siblings(r) : Done(s) /\ ~Cut(s) /\ window[s].to <= window[r].to
    => ~(window[r].to - Chunks * ChunkLength <= time[i] /\ time[i] < window[r].to)

(* A stored hold that has cleared at the bank is one that no run enqueued      *)
(* since then has reached back to: nothing older overwrites what is newer.     *)
StaleHoldOutOfReach ==
  \A i \in DOMAIN rows, r \in Ids :
    /\ rows[i] /\ cleared[i] # 0
    /\ Done(r) /\ runs[r].account = Owner[i] /\ ~Cut(r)
    /\ window[r].from <= time[i] /\ time[i] <= window[r].to
    => window[r].to <= cleared[i]

(* runner.py:41-43: the live window is "large enough that a missed tick        *)
(* doesn't lose transactions"; 02-CONTEXT.md:93 (D-16) has it start at          *)
(* last_polled_at - 1h.  Between two live polls done no purchase is lost.      *)
PollsLoseNothing ==
  \A i \in Unstored, r, s \in Ids :
    /\ runs[r].kind = "live" /\ runs[s].kind = "live"
    /\ runs[r].account = Owner[i] /\ runs[s].account = Owner[i]
    /\ Done(r) /\ Done(s)
    => ~(window[r].to <= time[i] /\ time[i] < window[s].to)
=============================================================================
