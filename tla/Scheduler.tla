------------------------------ MODULE Scheduler ------------------------------
(***************************************************************************)
(* The sync core of finance-bro: SchedulerRunner (scheduler/runner.py), the  *)
(* import_runs, scheduler_state and accounts tables it works on, the two     *)
(* routes that enqueue work beside it (POST /api/import, POST                *)
(* /api/backfill), and the lifespan of the process that hosts them.          *)
(*                                                                           *)
(* Every `async with session.begin()` block of the code is one step: the     *)
(* process can stop, and any other task can run, between two of them.  The   *)
(* transactions of the routes are finer, one step per card, because READ     *)
(* COMMITTED lets others commit between their reads and their own commit.    *)
(***************************************************************************)
EXTENDS Naturals, Sequences, FiniteSets

CONSTANTS
  Account,     \* ids of the accounts Mono reports (cards, jars, FOPs)
  Pollable,    \* those AccountRepo.list_pollable_cards returns
  Client,      \* HTTP requests that can be served at the same time
  Chunks,      \* 30-day chunks of one backfill, as many as the months asked for
  MaxRuns,     \* bound: rows ever inserted into import_runs
  MaxCrashes,  \* bound: times the process dies
  MaxFaults,   \* bound: database transactions of the tick that fail
  Revocable    \* whether the bank ever withdraws the token

ASSUME SchedulerAssumption ==
  /\ Account \subseteq Nat
  /\ Pollable \subseteq Account
  /\ IsFiniteSet(Client)
  /\ Chunks \in Nat \ {0}
  /\ MaxRuns \in Nat
  /\ MaxCrashes \in Nat
  /\ MaxFaults \in Nat
  /\ Revocable \in BOOLEAN

VARIABLES
  runs,      \* import_runs, a sequence: the index is the row's id
  accounts,  \* accounts
  state,     \* scheduler_state.state, on disk
  stored,    \* ids of the runs whose statement insert_many has committed
  clock,     \* number of commits that stamped a created_at or completed_at
  proc,      \* the process: "down", lifespan steps "recover", "read", "up"
  cached,    \* runner._cached_state[0]
  pc,        \* where the running tick() stands; "idle" between two ticks
  job,       \* tick's local `run.id`, 0 when it holds no row
  picked,    \* tick's local `card.id`, 0 when it has none
  req,       \* transactions of the HTTP requests being served
  token,     \* MONO_TOKEN: "good", "revoked" by the bank, "rotated" by the user
  crashes, faults,  \* how many so far
  denied     \* how many 401 answers the bank has had to give

dbVars   == <<runs, accounts, state, stored, clock>>
tickVars == <<pc, job, picked>>
envVars  == <<token, crashes, faults, denied>>
vars == <<runs, accounts, state, stored, clock, proc, cached, pc, job, picked,
          req, token, crashes, faults, denied>>

NoId == 0   \* neither a row nor a card

Kind   == {"live", "backfill"}
Status == {"pending", "in_flight", "done", "error"}
(* started_at: NULL, within the last 300 s, or older than that *)
Age    == {"null", "recent", "stale"}

(* One row.  created and completed are created_at and completed_at as the     *)
(* value of clock; completed is 0 for NULL.                                   *)
Run == [account : Account, kind : Kind, status : Status, age : Age,
        created : Nat, completed : Nat]

Op == {"none", "import", "backfill"}
Request == [op : Op, todo : SUBSET Account, buf : Seq(Run)]
NoRequest == [op |-> "none", todo |-> {}, buf |-> <<>>]

-----------------------------------------------------------------------------
(* ImportRunRepo: queries *)

Ids == DOMAIN runs
Active(row)   == row.status \in {"pending", "in_flight"}
Terminal(row) == row.status \in {"done", "error"}

ActiveBackfills(c) ==
  {r \in Ids : runs[r].account = c /\ runs[r].kind = "backfill" /\ Active(runs[r])}
ActiveLives(c) ==
  {r \in Ids : runs[r].account = c /\ runs[r].kind = "live" /\ Active(runs[r])}
LiveRuns(c) == {r \in Ids : runs[r].account = c /\ runs[r].kind = "live"}

(* last_live_per_account: DISTINCT ON (account_id) ... ORDER BY completed_at   *)
(* DESC NULLS LAST.  The rows it may return for c: one when c has a completed  *)
(* run, any of them when all are still to complete.                            *)
LastLive(c) ==
  {r \in LiveRuns(c) :
     \A s \in LiveRuns(c) : runs[s].completed <= runs[r].completed}

(* The rows claim_next_pending may take: pending with the least created_at;    *)
(* rows of one backfill carry the same created_at, so the choice is open.      *)
OldestPending ==
  {r \in Ids : /\ runs[r].status = "pending"
               /\ \A s \in Ids : runs[s].status = "pending"
                                   => runs[r].created <= runs[s].created}

(* ImportRunRepo: updates *)

NewRow(c, kind, stamp) ==
  [account |-> c, kind |-> kind, status |-> "pending", age |-> "null",
   created |-> stamp, completed |-> 0]

NewRows(c, kind, stamp, n) == [i \in 1..n |-> NewRow(c, kind, stamp)]

(* Variant: the sweep forgets `WHERE status='in_flight'`. *)
RecoverAnyStale ==
  [r \in Ids |-> IF runs[r].age = "stale"
                   THEN [runs[r] EXCEPT !.status = "pending", !.age = "null"]
                   ELSE runs[r]]

(* Variant: the sweep forgets `started_at=NULL`. *)
RecoverKeepsStart ==
  [r \in Ids |-> IF runs[r].status = "in_flight" /\ runs[r].age = "stale"
                   THEN [runs[r] EXCEPT !.status = "pending"]
                   ELSE runs[r]]

(* recover_in_flight(300) *)
RecoverInFlight ==
  [r \in Ids |-> IF runs[r].status = "in_flight" /\ runs[r].age = "stale"
                   THEN [runs[r] EXCEPT !.status = "pending", !.age = "null"]
                   ELSE runs[r]]

(* mark_done and mark_error: WHERE id = :id, whatever the status was. *)
MarkDone(r) ==
  [runs EXCEPT ![r] = [@ EXCEPT !.status = "done", !.completed = clock]]
MarkError(r) ==
  [runs EXCEPT ![r] = [@ EXCEPT !.status = "error", !.completed = clock]]

-----------------------------------------------------------------------------
Init ==
  /\ runs = <<>> /\ accounts = {} /\ state = "running" /\ stored = {}
  /\ clock = 1
  /\ proc = "down" /\ cached = "running"
  /\ pc = "idle" /\ job = NoId /\ picked = NoId
  /\ req = [q \in Client |-> NoRequest]
  /\ token = "good" /\ crashes = 0 /\ faults = 0 /\ denied = 0

-----------------------------------------------------------------------------
(* The process: lifespan startup, crash, passing time, the token.             *)

(* The container starts (compose.yml: restart: unless-stopped). *)
Start ==
  /\ proc = "down"
  /\ proc' = "recover"
  /\ UNCHANGED <<dbVars, cached, tickVars, req, envVars>>

(* lifespan: await runner.recover_in_flight() *)
BootRecover ==
  /\ proc = "recover"
  /\ runs' = RecoverInFlight
  /\ proc' = "read"
  /\ UNCHANGED <<accounts, state, stored, clock, cached, tickVars, req, envVars>>

(* Variant: the lifespan does not consult the sticky state on disk. *)
BootForgetsState ==
  /\ proc = "read"
  /\ cached' = "running"
  /\ proc' = "up"
  /\ UNCHANGED <<dbVars, tickVars, req, envVars>>

(* lifespan: await runner.read_state(); the tick job is added only when the   *)
(* state is "running", which TickStart expresses by its guard on cached.      *)
BootRead ==
  /\ proc = "read"
  /\ cached' = state
  /\ proc' = "up"
  /\ UNCHANGED <<dbVars, tickVars, req, envVars>>

(* The process dies or is stopped; open transactions roll back.  A lifespan    *)
(* whose own database calls fail ends the same way.                            *)
Crash ==
  /\ crashes < MaxCrashes
  /\ proc # "down"
  /\ proc' = "down"
  /\ cached' = "running"
  /\ pc' = "idle" /\ job' = NoId /\ picked' = NoId
  /\ req' = [q \in Client |-> NoRequest]
  /\ crashes' = crashes + 1
  /\ UNCHANGED <<dbVars, token, faults, denied>>

(* RECOVER_THRESHOLD_SECONDS pass.  Only rows in flight are looked at for it.  *)
Elapse ==
  /\ \E r \in Ids : runs[r].status = "in_flight" /\ runs[r].age = "recent"
  /\ runs' = [r \in Ids |-> IF runs[r].status = "in_flight"
                              THEN [runs[r] EXCEPT !.age = "stale"]
                              ELSE runs[r]]
  /\ UNCHANGED <<accounts, state, stored, clock, proc, cached, tickVars, req, envVars>>

(* The bank withdraws the token; the user edits .env and restarts.            *)
RevokeToken ==
  /\ Revocable /\ token = "good"
  /\ token' = "revoked"
  /\ UNCHANGED <<dbVars, proc, cached, tickVars, req, crashes, faults, denied>>

RotateToken ==
  /\ token = "revoked" /\ proc = "down"
  /\ token' = "rotated"
  /\ UNCHANGED <<dbVars, proc, cached, tickVars, req, crashes, faults, denied>>

-----------------------------------------------------------------------------
(* tick(): one transaction or one HTTP exchange per action.  max_instances=1   *)
(* is the guard pc = "idle" of TickStart.                                      *)

TickStart ==
  /\ proc = "up" /\ cached = "running" /\ pc = "idle"
  /\ pc' = "sweep"
  /\ UNCHANGED <<dbVars, proc, cached, job, picked, req, envVars>>

(* Variant: rows are swept at process start only. *)
TickSkipsSweep ==
  /\ pc = "sweep"
  /\ pc' = "discover"
  /\ UNCHANGED <<dbVars, proc, cached, job, picked, req, envVars>>

(* Variant: the sweep is a job of its own and runs beside the tick. *)
SweepBesideTick ==
  /\ proc = "up"
  /\ runs' = RecoverInFlight
  /\ pc' = IF pc = "sweep" THEN "discover" ELSE pc
  /\ UNCHANGED <<accounts, state, stored, clock, proc, cached, job, picked, req, envVars>>

TickSweep ==
  /\ pc = "sweep"
  /\ runs' = RecoverInFlight
  /\ pc' = "discover"
  /\ UNCHANGED <<accounts, state, stored, clock, proc, cached, job, picked, req, envVars>>

(* _ensure_accounts_discovered: AccountRepo.list_all *)
EnsureAccountsDiscovered ==
  /\ pc = "discover"
  /\ pc' = IF accounts # {} THEN "claim" ELSE "client_info"
  /\ UNCHANGED <<dbVars, proc, cached, job, picked, req, envVars>>

(* The answer to GET /personal/client-info; an exception other than 401 ends   *)
(* the tick, by the `except` or by escaping it.                                *)
DiscoverAnswer ==
  /\ pc = "client_info"
  /\ \/ /\ token = "revoked"
        /\ denied' = denied + 1
        /\ pc' = "stick"
     \/ /\ token # "revoked"
        /\ pc' \in {"save_accounts", "claim"}     \* "claim": nothing discovered
        /\ UNCHANGED denied
     \/ /\ pc' = "idle"                           \* 429, 5xx, transport, decoding
        /\ UNCHANGED denied
  /\ UNCHANGED <<dbVars, proc, cached, job, picked, req, token, crashes, faults>>

(* AccountRepo.upsert_many(discovered) *)
SaveAccounts ==
  /\ pc = "save_accounts"
  /\ \E found \in SUBSET Account :
       found # {} /\ accounts' = accounts \cup found
  /\ pc' = "claim"
  /\ UNCHANGED <<runs, state, stored, clock, proc, cached, job, picked, req, envVars>>

(* Variant: claim_next_pending has lost its `status='pending'` filter for rows *)
(* that are in flight.                                                         *)
ClaimAnyActive ==
  /\ pc = "claim"
  /\ \/ \E r \in Ids :
          /\ Active(runs[r])
          /\ runs' = [runs EXCEPT ![r] = [@ EXCEPT !.status = "in_flight", !.age = "recent"]]
          /\ job' = r
          /\ pc' = "fetch"
     \/ /\ \A r \in Ids : ~Active(runs[r])
        /\ pc' = "pick"
        /\ UNCHANGED <<runs, job>>
  /\ UNCHANGED <<accounts, state, stored, clock, proc, cached, picked, req, envVars>>

(* claim_next_pending, and the branch on its result *)
ClaimNextPending ==
  /\ pc = "claim"
  /\ \/ \E r \in OldestPending :
          /\ runs' = [runs EXCEPT ![r] = [@ EXCEPT !.status = "in_flight", !.age = "recent"]]
          /\ job' = r
          /\ pc' = "fetch"
     \/ /\ OldestPending = {}
        /\ pc' = "pick"
        /\ UNCHANGED <<runs, job>>
  /\ UNCHANGED <<accounts, state, stored, clock, proc, cached, picked, req, envVars>>

(* _pick_next_active_card *)
Eligible(c) ==
  /\ c \in accounts \cap Pollable
  /\ ActiveBackfills(c) = {}
  /\ \A r \in LastLive(c) : ~Active(runs[r])

NeverPolled(c) == LiveRuns(c) = {}

PolledNoLaterThan(c, d) ==
  \A r \in LastLive(c), s \in LastLive(d) : runs[r].completed <= runs[s].completed

(* Variant: always the eligible card with the least id, whatever was polled.  *)
NextCardLowest == {c \in Account : Eligible(c) /\ \A d \in Account : Eligible(d) => c <= d}

NextCard ==
  {c \in Account : Eligible(c) /\
     \A d \in Account : Eligible(d) =>
       IF NeverPolled(c) THEN NeverPolled(d) => c <= d
                         ELSE ~NeverPolled(d) /\ PolledNoLaterThan(c, d)}

(* Variant: `if card is None: return` is missing. *)
PickUnchecked ==
  /\ pc = "pick"
  /\ IF NextCard = {} THEN picked' = NoId ELSE picked' \in NextCard
  /\ pc' = "enqueue"
  /\ UNCHANGED <<dbVars, proc, cached, job, req, envVars>>

PickNextActiveCard ==
  /\ pc = "pick"
  /\ \/ \E c \in NextCard : picked' = c /\ pc' = "enqueue"
     \/ NextCard = {} /\ pc' = "idle" /\ UNCHANGED picked
  /\ UNCHANGED <<dbVars, proc, cached, job, req, envVars>>

(* The tick's own enqueue_live, in a transaction of its own.                  *)
EnqueueLive ==
  /\ pc = "enqueue"
  /\ \/ /\ Len(runs) < MaxRuns
        /\ runs' = Append(runs, NewRow(picked, "live", clock))
        /\ clock' = clock + 1
     \/ /\ Len(runs) >= MaxRuns                   \* only the bound MaxRuns
        /\ UNCHANGED <<runs, clock>>
  /\ pc' = "idle" /\ picked' = NoId
  /\ UNCHANGED <<accounts, state, stored, proc, cached, job, req, envVars>>

(* Variant: mark_done is sent as soon as the statement has arrived.           *)
FetchMarksDone ==
  /\ pc = "fetch"
  /\ token # "revoked"
  /\ runs' = MarkDone(job)
  /\ clock' = clock + 1
  /\ pc' = "save"
  /\ UNCHANGED <<accounts, state, stored, proc, cached, job, picked, req, envVars>>

(* fetch_statement: the answer of the bank to GET /personal/statement         *)
FetchAnswer ==
  /\ pc = "fetch"
  /\ \/ /\ token = "revoked"                      \* MonoAuthError
        /\ denied' = denied + 1
        /\ pc' = "mark_auth"
     \/ /\ token # "revoked"
        /\ pc' = "save"
        /\ UNCHANGED denied
     \/ /\ pc' = "mark_error"                     \* every other exception
        /\ UNCHANGED denied
  /\ UNCHANGED <<dbVars, proc, cached, job, picked, req, token, crashes, faults>>

(* One transaction: insert_many and mark_done. *)
SaveStatement ==
  /\ pc = "save"
  /\ stored' = stored \cup {job}
  /\ runs' = MarkDone(job)
  /\ clock' = clock + 1
  /\ pc' = "idle" /\ job' = NoId
  /\ UNCHANGED <<accounts, state, proc, cached, picked, req, envVars>>

(* _mark_error; after a 401 the tick goes on to _set_state_auth_failed.       *)
MarkRunError ==
  /\ pc \in {"mark_error", "mark_auth"}
  /\ runs' = MarkError(job)
  /\ clock' = clock + 1
  /\ pc' = IF pc = "mark_auth" THEN "stick" ELSE "idle"
  /\ job' = NoId
  /\ UNCHANGED <<accounts, state, stored, proc, cached, picked, req, envVars>>

(* Variant: the 401 is remembered on disk only, the cached copy stays.        *)
StickOnDiskOnly ==
  /\ pc = "stick"
  /\ state' = "auth_failed"
  /\ pc' = "idle"
  /\ UNCHANGED <<runs, accounts, stored, clock, proc, cached, job, picked, req, envVars>>

(* _set_state_auth_failed: the row, then the cached copy; nothing can run     *)
(* between the commit and the assignment that reads either.                   *)
SetStateAuthFailed ==
  /\ pc = "stick"
  /\ state' = "auth_failed"
  /\ cached' = "auth_failed"
  /\ pc' = "idle"
  /\ UNCHANGED <<runs, accounts, stored, clock, proc, job, picked, req, envVars>>

(* A database transaction of the tick fails and rolls back.  Where the        *)
(* exception lands: the sweep is guarded, a failed save becomes mark_error,    *)
(* anything else escapes the tick and leaves a claimed row in_flight.          *)
AfterFault == [p \in {"sweep", "discover", "save_accounts", "claim", "pick", "enqueue",
                      "save", "mark_error", "mark_auth", "stick"} |->
                 CASE p = "sweep" -> "discover"
                   [] p = "save"  -> "mark_error"
                   [] OTHER       -> "idle"]

TickFault ==
  /\ faults < MaxFaults
  /\ pc \in DOMAIN AfterFault
  /\ pc' = AfterFault[pc]
  /\ job' = IF pc' = "idle" THEN NoId ELSE job
  /\ picked' = IF pc' = "idle" THEN NoId ELSE picked
  /\ faults' = faults + 1
  /\ UNCHANGED <<dbVars, proc, cached, req, token, crashes, denied>>

Tick == \/ TickSweep \/ EnsureAccountsDiscovered \/ DiscoverAnswer \/ SaveAccounts
        \/ ClaimNextPending \/ PickNextActiveCard \/ EnqueueLive \/ FetchAnswer
        \/ SaveStatement \/ MarkRunError \/ SetStateAuthFailed

-----------------------------------------------------------------------------
(* The routes.  enqueue_live_for_all_active_cards and enqueue_backfill are one *)
(* transaction each: list the cards, then per card in id order count and       *)
(* insert, then commit.  Rows get their created_at at the commit: transactions    *)
(* that overlap are ordered by it, where the database compares their starts.   *)

BeginRequest(q, op, cards) ==
  /\ proc = "up" /\ req[q].op = "none"
  /\ req' = [req EXCEPT ![q] = [op |-> op, todo |-> cards, buf |-> <<>>]]
  /\ UNCHANGED <<dbVars, proc, cached, tickVars, envVars>>

PostImport(q) == BeginRequest(q, "import", accounts \cap Pollable)

(* account_id given or not; an account that is not pollable is answered 404.   *)
PostBackfill(q) ==
  \E cards \in {accounts \cap Pollable} \cup {{c} : c \in accounts \cap Pollable} :
    BeginRequest(q, "backfill", cards)

(* Variant: BL-01 and WR-04 are gone, every request enqueues. *)
InsertedUnguarded(q, c) ==
  IF req[q].op = "import" THEN NewRows(c, "live", 0, 1)
                          ELSE NewRows(c, "backfill", 0, Chunks)

(* What the loop body inserts for card c.                                      *)
Inserted(q, c) ==
  IF req[q].op = "import"
    THEN IF ActiveBackfills(c) = {} /\ ActiveLives(c) = {}
           THEN NewRows(c, "live", 0, 1) ELSE <<>>
    ELSE IF ActiveBackfills(c) = {}
           THEN NewRows(c, "backfill", 0, Chunks) ELSE <<>>

EnqueueForCard(q) ==
  /\ req[q].op # "none"
  /\ \E c \in req[q].todo :
       /\ \A d \in req[q].todo : c <= d
       /\ req' = [req EXCEPT ![q] = [op |-> @.op, todo |-> @.todo \ {c},
                                     buf |-> @.buf \o Inserted(q, c)]]
  /\ UNCHANGED <<dbVars, proc, cached, tickVars, envVars>>

Stamped(buf) == [i \in DOMAIN buf |-> [buf[i] EXCEPT !.created = clock]]

CommitRequest(q) ==
  /\ req[q].op # "none" /\ req[q].todo = {}
  /\ Len(runs) + Len(req[q].buf) <= MaxRuns
  /\ runs' = runs \o Stamped(req[q].buf)
  /\ clock' = IF req[q].buf = <<>> THEN clock ELSE clock + 1
  /\ req' = [req EXCEPT ![q] = NoRequest]
  /\ UNCHANGED <<accounts, state, stored, proc, cached, tickVars, envVars>>

(* The transaction fails, or the bound MaxRuns would be exceeded.              *)
AbortRequest(q) ==
  /\ req[q].op # "none"
  /\ req' = [req EXCEPT ![q] = NoRequest]
  /\ UNCHANGED <<dbVars, proc, cached, tickVars, envVars>>

Requests == \E q \in Client : \/ PostImport(q) \/ PostBackfill(q)
                              \/ EnqueueForCard(q) \/ CommitRequest(q) \/ AbortRequest(q)

-----------------------------------------------------------------------------
Next == \/ Start \/ BootRecover \/ BootRead \/ Crash \/ Elapse
        \/ RevokeToken \/ RotateToken
        \/ TickStart \/ Tick \/ TickFault \/ Requests

Spec == Init /\ [][Next]_vars

(* APScheduler keeps firing the tick, an await of the tick ends (httpx has     *)
(* timeouts), Docker restarts the container, time passes.  Nothing is assumed  *)
(* of requests, faults, crashes and of the token.                              *)
Fairness == /\ WF_vars(TickStart) /\ WF_vars(Tick)
            /\ WF_vars(Start) /\ WF_vars(BootRecover) /\ WF_vars(BootRead)
            /\ WF_vars(Elapse)

FairSpec == Spec /\ Fairness

-----------------------------------------------------------------------------
(* Properties *)

PC == {"idle", "sweep", "discover", "client_info", "save_accounts", "claim", "pick",
       "enqueue", "fetch", "save", "mark_error", "mark_auth", "stick"}
HoldsRow == {"fetch", "save", "mark_error", "mark_auth"}

(* The tables and the locals of the tasks have the shape the code gives them. *)
TypeOK ==
  /\ runs \in Seq(Run)
  /\ accounts \subseteq Account
  /\ state \in {"running", "auth_failed"}
  /\ stored \subseteq Nat
  /\ clock \in Nat \ {0}
  /\ proc \in {"down", "recover", "read", "up"}
  /\ cached \in {"running", "auth_failed"}
  /\ pc \in PC
  /\ job \in Nat
  /\ picked \in Account \cup {NoId}
  /\ req \in [Client -> Request]
  /\ token \in {"good", "revoked", "rotated"}
  /\ crashes \in Nat /\ faults \in Nat /\ denied \in Nat

(* From the claim to the mark_* that ends it, the row a tick works on stays     *)
(* in_flight: no sweep, request or restart takes it away, which is why          *)
(* mark_done and mark_error need no status in their WHERE clause.               *)
TickHoldsItsRow ==
  IF pc \in HoldsRow THEN job \in Ids /\ runs[job].status = "in_flight"
                     ELSE job = NoId

(* A run is done exactly when its statement is in the transactions table,      *)
(* wherever the tick failed or the process died between fetch and commit.      *)
DoneIffStored == \A r \in Ids : runs[r].status = "done" <=> r \in stored

(* Some queries go by the status and some by a time: the sweep by started_at,   *)
(* DISTINCT ON ... NULLS LAST by completed_at.  Through claims, sweeps and       *)
(* crashes the two tell the same: a row in flight has a started_at for the sweep *)
(* to find it by, and completed_at is set when a run is over, after created_at.  *)
StampsAgree ==
  \A r \in Ids : /\ runs[r].age = "null" <=> runs[r].status = "pending"
                 /\ runs[r].completed = 0 <=> Active(runs[r])
                 /\ Terminal(runs[r]) => runs[r].created < runs[r].completed

(* The sticky 401: no step of a tick, in this process or a later one, happens  *)
(* once auth_failed is on disk.                                                *)
TickOnlyWhileRunning == pc # "idle" => state = "running"

(* A revoked token is presented to the bank once, plus once for every time     *)
(* the process died or the database failed before the 401 was on disk.         *)
RejectionsBounded == denied <= 1 + crashes + faults

(* BL-01 as far as it holds: a card has one active live run, and one more for  *)
(* each request that counted before another's commit, each crash and each      *)
(* failed transaction; repeated POST /api/import does not pile up more.        *)
ActiveLivesBounded ==
  \A c \in Account :
    Cardinality(ActiveLives(c)) <= 1 + Cardinality(Client) + crashes + faults

(* WR-04 as far as it holds: only requests that overlap can double a backfill. *)
ActiveBackfillsBounded ==
  \A c \in Account : Cardinality(ActiveBackfills(c)) <= Chunks * Cardinality(Client)

(* With nothing but the tick at work, and until something fails, round robin   *)
(* keeps the cards level.                                                      *)
RotationLevel ==
  Client = {} /\ crashes + faults = 0 =>
    \A c, d \in accounts \cap Pollable :
      Cardinality(LiveRuns(c)) <= Cardinality(LiveRuns(d)) + 1

(* A run that is done or in error keeps its status and its completed_at.       *)
TerminalIsFinal ==
  [][\A r \in Ids : Terminal(runs[r]) =>
       /\ r \in DOMAIN runs'
       /\ runs'[r].status = runs[r].status
       /\ runs'[r].completed = runs[r].completed]_vars

Settled(r) == r \in Ids /\ Terminal(runs[r])

(* Every enqueued run reaches done or error, orphans of crashes and of failed  *)
(* mark_error calls included, unless polling has stopped on a 401.             *)
EveryRunSettles ==
  \A r \in 1..MaxRuns : r \in Ids ~> Settled(r) \/ state = "auth_failed"

(* Every card discovered is polled.                                            *)
EveryCardPolled ==
  \A c \in Pollable :
    c \in accounts ~> (\E r \in LiveRuns(c) : Settled(r)) \/ state = "auth_failed"

(* runner.py:208: cards whose most recent live run is pending or in_flight are *)
(* skipped, as another live row would be a duplicate.                          *)
OneActiveLivePerCard == \A c \in Account : Cardinality(ActiveLives(c)) <= 1

(* 02-CONTEXT.md:92 (D-15): polling stops "until app restart"; a new token in  *)
(* .env and a restart resume it.                                               *)
RotationResumesPolling == token = "rotated" ~> (proc = "up" /\ cached = "running")

(* The import_runs table as a queue with one worker.                           *)
Waiting   == {r \in Ids : runs[r].status = "pending"}
Current   == IF job = NoId THEN {} ELSE {job}
Abandoned == {r \in Ids : runs[r].status = "in_flight"} \ Current
Finished  == {r \in Ids : Terminal(runs[r])}

Queue == INSTANCE JobQueue WITH Job <- 1..MaxRuns, waiting <- Waiting,
           current <- Current, abandoned <- Abandoned, finished <- Finished

(* Scheduler implements JobQueue: at most one holder, finished at most once,   *)
(* abandoned work comes back through the sweep only.                           *)
ImplementsQueue == Queue!Spec
=============================================================================
