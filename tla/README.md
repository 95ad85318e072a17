# finance-bro in TLA+

finance-bro is a self-hosted program that copies one person's bank transactions
from Monobank into PostgreSQL, keeps NBU exchange rates beside them and gives
each transaction a category by rules. It is one asyncio process (FastAPI and
APScheduler) in a container that Docker restarts, and a database. The code under
`src/src/finance_bro/` is small; what is hard about it is that everything is
asynchronous: ticks, HTTP requests and background tasks interleave at every
`await`, each `async with session.begin()` is a transaction at READ COMMITTED,
and the process may die between any two of them.

This directory models that: the components as TLA+ modules, a composition of the
scheduler with the data it moves, two abstract specifications of what components
promise, TLC runs on small instances, and proofs checked by TLAPS for every value
of the constants. In what follows paths of code are relative to `src/finance_bro/` of the
repository.

## 1. Inventory

| part | state | operations | hard behaviour | what makes it correct |
|---|---|---|---|---|
| **Scheduler tick** `scheduler/runner.py`, `db/import_run_repo.py`, `db/scheduler_state_repo.py`, `db/account_repo.py` | `import_runs`, `accounts`, `scheduler_state`, its cached copy | every 10 s, never twice at once: sweep stale rows, discover accounts, claim the oldest pending row, or pick a card and enqueue one; fetch, save, mark | death between claim and mark, a mark that fails, a 401, requests between pick and enqueue | one holder per row, done means stored, finished is final, a 401 stops polling, every row ends, every card has its turn |
| **Enqueue routes** `api/routes_import.py`, `api/routes_backfill.py` | rows of `import_runs` | POST /api/import, POST /api/backfill | count-then-insert in transactions that overlap | duplicates stay bounded |
| **Windows and statements** `scheduler/window.py`, `importers/monobank.py`, `insert_many` in `db/transaction_repo.py` | `window_from`, `window_to` of a run, `transactions` | a live window, the chunks of a backfill, an answer, an upsert | late polls, gaps, seams, chunks in any order, holds that clear, answers cut at 500 items, a code nobody mapped | what happened is stored, nothing older overwrites what is newer |
| **Import status** `api/routes_status.py` | none | GET /api/import/status | reads beside orphans, sweeps and new rows | what the user is told does not go back |
| **Lifespan** `main.py` | the process | recover, read state, start the jobs | order of recovery, sticky state, jobs | no polling after a 401 |
| **Rate-limit gate** `importers/rate_limit.py`, `db/rate_state_repo.py` | `mono_rate_state`, one row per token | acquire | stale clock reads, slots dated ahead, slots abandoned by a crash | requests keep their distance, the backlog is bounded |
| **Rules over history** `services/rules_history.py`, `categorizer/engine.py`, `db/transaction_repo.py` | `transactions`, the token a browser holds | preview, commit | statements with different snapshots, row locks, stale tokens, deadlocks | a commit writes what rules say of the rows, no further than its preview |
| **Editors** `db/rule_repo.py`, `db/category_repo.py`, `api/routes_rules.py`, `api/routes_categories.py` | `rules`, `categories` | create, update, delete, reorder | check-then-delete, partial reorders | nothing refers to what is gone, no rule is lost |
| **FX sync** `services/fx_bootstrap.py`, `fx_tick` in `scheduler/runner.py`, `db/fx_rate_repo.py`, `db/tracked_fx_currency_repo.py`, `importers/nbu.py` | `fx_rates`, `tracked_fx_currencies` | bootstrap task at startup, cron job at 16:00 | two tasks on the same currencies, a flag and a count that may disagree, answers with days left out, outages | flag and rates agree, holes are bounded, every currency gets there |
| **Categorizer** `categorizer/` | none | seven conditions, first match in priority order | absent fields, precedence, frozen and mutable columns | the first match wins; what a rule reads decides what a preview is worth |
| **UAH rollup** `services/fx_rollup.py`, `ROLLUP_SQL` in `db/transaction_repo.py`, `api/routes_transactions.py` | none, computed on read | carry a rate forward, convert, round | reads while rates are written, holes, ties | half-even, a rate shown never gets worse, how old it can be |

The tick calls the Monobank client, which acquires the gate before each request, and
writes `transactions`. The rollup reads `transactions` and `fx_rates`, the status
route `accounts` and `import_runs`. Rules over history reads and updates the same
rows. A 401 seen by the tick reaches FX sync through `scheduler_state` at the next
start. `PROJECT.json` lists every part, the parts left out, and under `hazards` what
in this code a test would hardly reach, at its line, with the property that covers
it.

## 2. Modules

| module | what it is |
|---|---|
| `Scheduler` | tick, routes, lifespan over `import_runs`; implements `JobQueue` |
| `JobQueue` | what `import_runs` promises: an at-least-once queue with one worker |
| `ImportStatus` | what GET /api/import/status says of the tables of `Scheduler` |
| `Statements` | `Scheduler` with a clock, windows, the bank's statements and `transactions`; refines `Scheduler` |
| `RateGate` | `acquire` and the request after it; implements `RequestBudget` |
| `RateWindow` | `RateGate` with an observer that counts the requests the bank gets |
| `RequestBudget` | what the gate promises the bank: a distance between requests |
| `Categorizer` | fields, conditions and verdict of the rule engine, pure |
| `RulesHistory` | preview and commit with `Categorizer`, beside the tick's upserts and both editors |
| `FxSync` | the bootstrap task and the daily tick over days and outages |
| `FxRollup` | carried rate, rounding and staleness, pure |
| `FxRead` | the rates of `FxSync` as a reader of `FxRollup` sees them |
| `MCScheduler`, `MCStatements`, `MCRateGate`, `MCRulesHistory`, `MCFxSync` | symmetry sets and small values for TLC |
| `SchedulerProofs`, `SchedulerQueueProofs`, `SchedulerRotationProofs`, `StatementsProofs`, `RateGateProofs`, `RulesHistoryProofs`, `FxSyncProofs` | theorems and proofs |
| `Extrema` | greatest and least elements of finite sets of integers, by induction |

The modules use no RECURSIVE operator, so each can be proved about. Operators
commented "Variant" are wrong versions of the definition that follows them: they
are what the properties were tried against (`mutants` in `PROJECT.json`) and no
specification uses them.

### Scheduler

One action per transaction or HTTP exchange of `tick()`; `pc` is the await at
which it stands, `job` and `picked` are its locals. `max_instances=1` is the guard
`pc = "idle"` of `TickStart`. `TickFault` lets any transaction fail and follows
the `try` blocks: a failed sweep is survived, a failed save becomes `mark_error`,
anything else escapes and leaves a claimed row in flight. In the 401 handler
`_mark_error` comes first, so its failure loses the 401. Rows are never removed,
so `runs` is a sequence and the index is the id.

`created_at` and `completed_at` are the values of a counter of commits (`clock`);
`started_at` is kept as NULL, within the 300 s of the sweep, or older (`Elapse`).
`LastLive` is what `DISTINCT ON (account_id) ... ORDER BY completed_at DESC NULLS
LAST` may return, with its freedom when nothing has completed. A request is a
begin, a step per card that counts what is committed then, and a commit.
Two actions take one snapshot where the code takes several: `PickNextActiveCard`
merges the three statements of `_pick_next_active_card` (runner.py:214-244), and
`Inserted` the two counts of POST /api/import (runner.py:170, 174). A request that
commits between them is ordered before or after all of them.
Transactions that overlap are ordered by commit where the database would compare
their starts. Left out here: windows and items, which `Statements` adds. Left out
altogether: error texts, attempts, statement counts.

### Statements

A superposition: every action of `Scheduler` appears with what it does to the data
(`EnqueueLive` also gives the row a window, `FetchAnswer` also brings items,
`SaveStatement` also upserts them, a crash forgets what was in memory), or in
`Elsewhere` when it does nothing to it; beside them the clock passes, the bank
reports purchases and clears holds. That a step of `Statements` is a step of
`Scheduler` or leaves it alone is a theorem. An item keeps its time when its hold
clears, as the bank reports it under the same id and `time`. An answer has all items
of the window or, when there are more than `PageSize`, the newest of them: nothing in
the client splits a window. A code outside the map raises and loses the whole
statement. A live window is `Lookback` long and ends when the row is enqueued, not
when it is claimed. The widths are in units of the clock; a purchase in the second
of a boundary belongs to both windows, as the bank's interval is closed.

### ImportStatus

Operators over the tables, as the route changes none: the latest terminal live row
of a card, the counts of its backfill rows, the state made of them. The properties
compare what two requests in a row may be told.

### RateGate

`Ask` reads the clock, `LockRow` waits for the row and computes the claim from the
clock read before, `CommitClaim` writes it, `Send` is the end of the sleep and the
request. Time passes in between. `MaxDelay` is what the environment grants: from
reading the clock to the commit, and from the claim to the wire, a caller is at
most that late. Without such a bound no gate of this kind keeps a distance; with
the 65 s of the code and the 60 s of the bank it is 5 s. Clocks do not go back.
`RateWindow` adds two history variables, the time of some request and how many have
left since, so that a property can speak of more than two requests.

### RulesHistory

A statement at READ COMMITTED sees what is committed when it starts, so preview is
two steps, and commit is: read the rules, fix the snapshot of the FOR UPDATE (in any
order of rows, as it has no ORDER BY), lock row by row, then compare the token and
write. An upsert locks row by row too and commits at the end; on conflict it sets
hold, amount_minor and raw_payload, keeps the other columns and never touches the
category. The content of a row is a `RowView` of `Categorizer`, a predicate a set of
its conditions; texts are tokens, and that one contains another, case folded, is a
relation. A field that is absent, or an originalMcc that is no number, satisfies no
condition. The token is the rules and the categories of the rows, with the hash
taken as injective. A rule is known by its priority, which is UNIQUE; `reorder` with
partial lists, unknown ids and duplicates included. Rows are those of the first
card, none is locked by the user (nothing in the code sets is_user_locked), a
statement names an item once, and reads of several statements of one transaction are
the steps shown. Locks of `rules` and `categories` rows are held within one step, as
each route is one transaction over them that waits for nobody. `Init` has one rule
and the category it names; what else the migration seeds is what `CreateCategory`
and `CreateRule` add.

### FxSync

Two tasks in one process, each a loop over the tracked currencies (the constant
`Currency`, as nothing registers another one) with its transactions and fetches as
steps. `today` is read where the code reads it: once by `fx_tick`, once per currency
by `maybe_bootstrap_fx`. A fetch returns one of `Answers`, nothing, or an exception,
whatever the currency. An answer has the days of its range but for some that NBU
left out: `Missing` lists what it may leave out, and `Gap` how many days in a row
that can be. The repository says two things of it:
`.planning/phases/03-uah-truth/03-RESEARCH.md:117-124` found a row for every day,
weekends included, while the comments of `importers/nbu.py:8-10` and
`services/fx_bootstrap.py:34-36` speak of business days. Both are instances. No code
looks which days came, so one rate is enough for `bootstrap_done`; the comment that
so many rows in the window mean that it "is backfilled" is no property of the code,
which may count them after an outage or in answers with holes. What does hold is
`DoneIffRates`, and `CarriedRateAge` for what a reader sees. A bootstrap that got
too few rates is repeated at the next start, by the count. `latest` and `outage` are
history variables for the property about carried rates: the last day fetched, and
the longest time between two fetches that were saved.

### FxRollup and FxRead

Amounts are minor units and a rate is a fraction. `Carried` is the lateral join,
`HalfEven` the quantization, `FxStale` the flag. The label `fx_source` is left out
(section 6). A read is one statement, so `FxRead` adds no step to `FxSync`: it asks
of every state which rate a row of a day would be shown with, and of every step
whether a reader before and one after it may disagree.

## 3. Runs

| run | instance | what it asks | result |
|---|---|---|---|
| `SchedulerRequests` | a card, one request at a time beside the tick, 2 chunks, 4 rows, 1 crash | types, times that agree with the status, how many active live rows per card, `TerminalIsFinal`, `ImplementsQueue`, what the status route tells | holds |
| `OverlappingRequests` | a card, two requests at a time beside the tick, 1 chunk, 3 rows, 1 crash | one backfill at most for each request that overlaps | holds |
| `SchedulerLiveness` | 2 cards and a jar, 3 rows, 1 crash, 1 failed transaction, token may be revoked | `TickHoldsItsRow`, `DoneIffStored`, no tick after a 401 and a bounded number of them, cards stay level; every row reaches done or error; every card is polled, or a 401 has stopped all | holds, liveness under fairness |
| `Statements` | a card, a request, 2 chunks, 2 rows, 1 purchase, lookback and chunk 1, time 1..3, 1 crash, 1 failed transaction | what a done poll and a finished backfill have stored, what a stored hold can be | holds |
| `RateGateSafety` | 3 callers, limit 3, delay 1, 14 ticks, 2 crashes | spacing of slots and requests, of any two and of any number, backlog | holds |
| `RulesHistory` | 2 browsers, 2 rows, 1 place for a rule, 2 predicates, 2 categories, 2 edits | foreign keys, the handshake, who may categorize, rules over frozen columns | holds |
| `RulesHistoryEnds` | 1 browser and the tick, 2 rows, 2 rules, 2 categories, 2 edits | lock waits and deadlocks end; a commit converges; reorder loses no rule | holds, the first under fairness |
| `FxSync` | 2 currencies, the first not published, 4 days, answers empty or with one day left out, 1 crash, 1 failed transaction | flag and rates agree, bootstraps are done in the end, carried rates only improve and are as old as outages made them | holds, liveness under fairness |

Four more runs end in a counterexample; section 4 is about them.

Why these bounds are enough for what is asked. The hazards of the tick need a row
that a crash has orphaned, an older row of the same card and a tick that claims
again: three rows and one crash give all of that, and a failed transaction lets the
recovery itself be disturbed. A count-then-insert race needs the tick and one
request. A doubled backfill needs two requests that both count before either
commits: `OverlappingRequests` has them, with a third row so that one request too
many would show, and clients that are interchangeable. More chunks than one, a
second card or a fourth row beside two requests is beyond minutes and left to the
theorem. `RotationLevel` is claimed for a system without requests, crashes and
faults only: each of them may hand a card a poll out of turn. In `Statements` two
rows are two polls or the two chunks of one backfill, three instants put a purchase
inside a window, on its seam or in a gap, and one purchase is enough as the
properties speak of one at a time; an answer cut short and a code that is not mapped
need a second item and are beyond the instance: the theorems about
`MissedOnlyInGaps` and `StaleHoldOutOfReach` cover both. The gate needs three
callers so that one can sleep, one hold the lock and one wait with an old clock, and
a second crash to abandon slots behind abandoned ones. Two rows are the least that
can be locked in opposite orders, two browsers the least for two sweeps over the
same rows. The two predicates read a frozen and a mutable column, and the bank
reports an item as a hold and then cleared under another description. `MaxEdits`
counts edits of rules and statements saved (creating, counting and deleting
categories is free): two allow a statement and an edit of a rule between a preview
and its commit. Two rules are the least with a precedence, and are in
`RulesHistoryEnds`; that the handshake holds for any number is a theorem. In
`FxSync` four days (3 to 6) and scaled windows (3, 2 and 2 days for 366, 365 and 3,
a threshold of 3 for 250) let the program be down long enough for a hole to fall out
of the trailing window; a day that is left out (`Missing` is day 3 or day 4, `Gap`
1) can be the last of a bootstrap, the first of a trailing window or inside one, and
makes the count fall short of the threshold where the flag is set. Longer gaps are
left to the theorem. `MaxRuns`, `MaxCrashes`, `MaxFaults`, `MaxEdits`, `MaxNow`,
`MaxPriority`, `MaxCategory`, `LastNow`, `Occurs` in `Statements` (through
`LastPost`) and `LastDay` are bounds of the models, not of the code: an action
beyond them is not taken, or a request is rolled back, or days pass uncounted.

Deadlock is not checked where the system may stop: after a 401 nothing is left
to do, and the gate's clock ends. Symmetry is used with safety properties only.

### Fairness

* `Scheduler`: APScheduler fires the tick again and again; an await of a tick ends
  since httpx has timeouts; `compose.yml` restarts the container; time passes.
  Nothing is assumed of requests, of faults, of the token.
* `RulesHistory`: a transaction that can go on does so (strong fairness, as a row
  lock that is free again and again is granted: PostgreSQL queues the waiters), and
  the database breaks deadlocks. Nothing forces a browser to commit.
* `FxSync`: restarts, days, the cron trigger and awaits as above, and NBU sends
  rates, some of them at least, in the end to whoever asks again and again for a
  currency that it publishes (strong fairness of `FetchRows`). No currency could be
  bootstrapped without that.
* Nothing is assumed in `Statements` and `RateGate`, whose properties are safety.

## 4. What the code does not do

Four runs state what a comment or a document says and show that the code does
otherwise, and one passing run shows what it does instead; `findings` in
`PROJECT.json` quotes each.

* `DuplicateAfterCrash`: the filter against duplicate live rows looks at the
  latest completed run of a card, and does not see a newer one left in flight.
* `RotationStaysStuck`: after a 401, neither a new token nor a restart resumes
  polling, as nothing resets `scheduler_state`.
* `StaleDiffCommitted`: the token does not cover what predicates read, so a commit
  may write a diff that was never shown. What the handshake does guarantee is
  `CommitFollowsPreview`, and that is proved.
* `GapLosesItems`: a live window reaches one hour back from when the row is enqueued,
  not from the last poll, so two polls further apart leave purchases that no window
  covers. What live polling does guarantee is `MissedOnlyInGaps`, and that is proved.
* `RulesHistory` (`OnlyCommitsCategorize`):
  `.planning/phases/04-categorized-spending/04-CONTEXT.md:14` and `:44-45` (D-10,
  D-11) say that rules run on every import tick, over the rows it touched, and the
  tests compose that by hand. The tick calls `insert_many` and nothing else
  (runner.py:330-340); the code that would categorize,
  `services/import_service.py:95-112`, is reached by no route, as
  `get_import_service` (`api/deps.py:50`) has no caller. So transactions arrive
  without a category and stay so until a commit, which is what the property states
  and the run and the theorem show.

The models show other departures that have no run of their own. Days lost to an
outage longer than the trailing window of three days are never asked for again; a
reader is shown an older rate for them, and `CarriedRateAge` says how old. Pick and
enqueue are two transactions, so a POST /api/import or /api/backfill that commits in
between leaves a second live row, or a live row beside a backfill; the bounds of
`SchedulerRequests` and `OverlappingRequests` are what remains true: one duplicate
per request that overlaps, per crash and per failed transaction. A failed daily
fetch is not recorded in `last_error`. Nothing calls `upsert_currency`, so only the
seeded currencies are ever tracked.

## 5. Proofs

Each proof module shows, for all values of the constants and with no bound on time,
rows, crashes or faults beyond the parameters, that an inductive invariant holds
(`IInv`, `SInv` or `RInv`: initial, kept by every step, therefore always) and takes
the theorems from it. The assumptions are those stated with the constants
(`SchedulerAssumption`, `StatementsAssumption`, `RateGateAssumption`,
`CategorizerAssumption`, `RulesHistoryAssumption`, `FxSyncAssumption`,
`FxReadAssumption`): ids are numbers, bounds are natural, windows are not empty, a
delay is smaller than the limit, NBU leaves out no more than `Gap` days in a row,
the tick is not a browser, and there are finitely many browsers and finitely many
callers of the bank.

* **`SchedulerProofs`**: `TickHoldsItsRow`, `DoneIffStored`, `TickOnlyWhileRunning`
  and `RejectionsBounded`. None of them is inductive alone: the invariant adds that
  an uncommitted request holds pending rows only, that what is stored is a row of
  the table, that the cached state equals the one on disk in a serving process,
  that a tick runs only in a process that is up and may poll, and an account of
  every 401: it is on its way to the disk, on it, or was lost to a crash or a fault.
  `StampsAgree` is proved with the rows as members of a set of rows that tell the
  truth (`Told`), which every update is shown to stay in. It is the safety half of
  `EveryRunSettles`: no orphan has a NULL where the sweep compares a time.
* **`SchedulerQueueProofs`**: one lemma, `TableStep`, says that every step changes
  the table in one of six ways; `TerminalIsFinal` and `ImplementsQueue` (a refinement
  mapping from rows by status, and the held row, to the queue) follow from it. So do
  `LastPollNeverGoesBack` and `BackfillOnlyProgresses`: rows are never lost, a finished
  one never changes, and the greatest `completed_at` of a finite set of polls exists.
  A second lemma, `TallyStep`, follows the runs of one kind a card has waiting, and
  carries the induction for `ActiveBackfillsBounded` and `ActiveLivesBounded`: each
  request that has nothing left to commit for the card accounts for one block of runs,
  an orphan in flight is paid for by the crash or fault that made it, and the tick
  accounts for the one live run it is about to insert, having found none pending.
* **`SchedulerRotationProofs`**: `RotationLevel`. While nothing but the tick enqueues
  and nothing fails, rows are enqueued one at a time: each has ended before the next
  is inserted, so `completed_at` grows with the ids, and the order of the ids is the
  order of the polls (`InOrder`). A card that was polled before another one has no
  more polls than it, and the card the tick picks has no more than any (`InTurn`,
  `PicksTheLeast`); one poll more therefore leaves the cards level. The invariant
  says this of behaviours with no request, crash or fault so far and nothing of the
  others; accounts are discovered before anything is enqueued (`CardsFirst`), which
  is why no card can join late.
* **`StatementsProofs`**: `StepRefines` says that a step is one of `Scheduler` or
  leaves it alone; `RefinesScheduler` follows, and with it the invariant of
  `SchedulerProofs` holds of the composition, by PTL, and so do the job queue, the
  status and the bounds of `SchedulerQueueProofs` (`StatementsKeepTheQueue` and the
  two theorems after it). On top of it `SInv` says for every run that is done, and
  for the answer the tick holds, what a purchase inside the window and reported
  before its end has come to: it is in the rows (in the answer), and a hold among
  them that has cleared cleared no earlier than the window ended. Three facts make
  that inductive: a window ends no later than now, so it is over before its row is
  claimed; an item never changes its time; and what is upserted later was fetched
  later. `MissedOnlyInGaps` and `StaleHoldOutOfReach` are read off.
  `BackfillCoversItsMonths` has an invariant of its own: the buffer of a backfill
  request is, for each card, whole blocks of one row per chunk, so that every
  backfill row in the table has a sibling for every chunk of its history; the chunk
  of an instant is found by division.
* **`RateGateProofs`**: the invariant says who holds the row lock, that a claim
  computed under it is still free at the commit, that the row is ahead of every slot
  handed out, and how late anybody is. `SleepersApart`, `SlotsSpaced` and
  `ImplementsBudget` follow. For `BacklogBounded` it counts: the row is ahead of a
  sleeper's slot by at most one limit for each sleeper behind it and one for each
  caller that was killed asleep. `WindowBudget` is about `RateWindow`, which refines
  `RateGate` (`WindowKeepsGate`): the slots of the requests counted are Limit apart
  (`SlotOfLatest`), so n requests take n - 1 limits less one delay, where
  `ImplementsBudget` alone would allow each of them to be early.
* **`FxSyncProofs`**: beside the two properties the invariant says what a task is
  about to save (`Sound`): an answer to the range it asked for, not empty, and a
  short one only for a currency that is bootstrapped already. `HalfEvenIsNearest` is
  arithmetic. For the rates a reader sees (`FxRead`) the invariant `Covered` relates
  the days of a currency to `latest` and `outage`: every gap between them is
  accounted for by what NBU leaves out (`AnswerDense`: in an answer a rate is never
  more than `Gap` days away) or by an outage beyond the trailing window, with such a
  gap at both of its ends. `CarriedRateAge` follows from it, and
  `RollupOnlyImproves` from the fact that rates are added and never removed. Both
  need the greatest day of a set, which exists when the set is finite: `Extrema`
  proves that from the well-foundedness of the subset order.
* **`RulesHistoryProofs`**: the invariant adds that a row a sweep has seen is locked
  by it and still as it saw it, and the like for the items of an upsert. From it
  follow `CommitConverges`, `CommitFollowsPreview` and `OnlyCommitsCategorize`;
  `NoDanglingCategory` is inductive with the types. `FrozenRulesWriteTheShownDiff`
  adds that a predicate over frozen columns gives the same verdict on a row before
  and after an upsert: under such rules the handshake shows exactly what is written.
  `ReorderRenumbersOnly` says that `reorder` gives every rule a place of its own,
  whatever the list it is sent repeats, forgets or invents.

Only model-checked: every liveness property (`EveryRunSettles`, `EveryCardPolled`,
`EveryTransactionEnds`, `EveryCurrencyBootstrapped`), which the proof system does
not reach: they rest on fairness, and on when an action is enabled. Every other
property of a passing run is stated by a theorem.

## 6. Not modelled

`services/import_service.py` and `TransactionRepo.fetch_for_categorize` are reached
from tests only. GET /api/accounts and /api/health are projections of a table and a
constant. HTTP plumbing, settings, logging, migrations and deployment carry no
protocol of their own; the seeds of the migrations are initial states here, and the
restart policy of `compose.yml` is the fairness of `Start`. `PATCH /api/categories`
changes names and colours, which no property is about. Rows locked by the user and
rows deleted are columns that nothing in the code sets. Parsing of the answers of
the bank and of NBU, and the retries inside the NBU client, are abstracted to their
outcomes.

The label `fx_source` of a row is not modelled. It is meant to tell a purchase in
the currency of its card (`mono_card`) from one converted by NBU's rate, but
`importers/monobank.py:137` stores the `currencyCode` of the operation as that of
the transaction, and the rollup compares it with the same code from the raw payload:
no row is ever labelled `mono_card`, and the amount, which is in the account's
currency, is multiplied by the rate of the operation's.
`.planning/phases/03-uah-truth/03-CONTEXT.md:57` (D-11), the pitfalls document
(`.planning/research/PITFALLS.md:230`) and `tests/test_fx_on_card.py:6-9` expect
otherwise. One import and one read show it; no interleaving is involved.

## 7. Plan

Done, in this order: `RateGate`, `Scheduler` with `JobQueue`, `RulesHistory`,
`FxSync`, `Statements`, `Categorizer`, `FxRollup` with `FxRead`, `ImportStatus`, and
their proofs. What would come next, most important first:

1. `Scheduler` and `RateGate` composed: two processes that share a token during a
   restart, and a tick that sleeps in the gate for longer than the sweep's threshold.
2. Two browsers with two rules in one instance, two requests with two chunks, and
   `Statements` with two purchases, once somebody can wait longer than minutes for a
   run.
