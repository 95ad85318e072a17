------------------------------- MODULE FxSync -------------------------------
(***************************************************************************)
(* How NBU rates get into fx_rates: the bootstrap task the lifespan starts   *)
(* (FxBootstrapService, services/fx_bootstrap.py) and the daily cron job     *)
(* (SchedulerRunner.fx_tick, scheduler/runner.py).  They run beside each     *)
(* other in one process that can die at any await, and share the tables      *)
(* fx_rates and tracked_fx_currencies.                                       *)
(*                                                                           *)
(* A rate is known here by its currency and its day: NBU never changes one   *)
(* and upsert_many never overwrites one.  NBU may leave out days of a range, *)
(* or all of it; no code looks which days came.  A database transaction is   *)
(* one step, an HTTP exchange another.                                       *)
(***************************************************************************)
EXTENDS Integers, FiniteSets

CONSTANTS
  Currency,     \* tracked_fx_currencies: codes, as numbers, in the order of
                \* list_currencies; migration 0003 seeds them, no code adds one
  Published,    \* those NBU publishes; it answers [] for the others
  Missing,      \* days it may leave out of an answer, alternatives
  Gap,          \* of which at most so many in a row
  Window,       \* BOOTSTRAP_WINDOW, in days
  Freshness,    \* FRESHNESS_WINDOW
  Threshold,    \* BOOTSTRAP_THRESHOLD
  Lookback,     \* FX_TICK_LOOKBACK
  FirstDay, LastDay,  \* bound: the days on which the program runs
  MaxCrashes,   \* bound: times the process dies
  MaxFaults     \* bound: database transactions that fail

ASSUME FxSyncAssumption ==
  /\ Currency \subseteq Nat /\ Published \subseteq Currency
  /\ Window \in Nat /\ Freshness \in Nat /\ Lookback \in Nat
  /\ Lookback <= Window /\ Threshold \in Nat \ {0}
  /\ Gap \in Nat
  /\ \A out \in Missing : out \subseteq Int /\ \A d \in out : ~((d - Gap)..d \subseteq out)
  /\ FirstDay \in Nat /\ LastDay \in Nat /\ FirstDay <= LastDay
  /\ MaxCrashes \in Nat /\ MaxFaults \in Nat

VARIABLES
  today,    \* datetime.now(UTC).date()
  rates,    \* fx_rates: the days of each currency
  done,     \* tracked_fx_currencies.bootstrap_done
  err,      \* whether tracked_fx_currencies.last_error is set
  state,    \* scheduler_state.state, which the Mono tick alone writes
  up,       \* the process is up
  cron,     \* this process has the fx_tick job
  fired,    \* the job has had its 16:00 of today
  job,      \* the two tasks
  latest,   \* history: the day the latest rates of a currency were fetched on
  outage,   \* history: the most days between a fetch and the latest before it
  crashes, faults

dbVars   == <<rates, done, err>>
procVars == <<up, cron, fired>>
history  == <<latest, outage>>
limits   == <<crashes, faults>>
vars == <<today, rates, done, err, state, up, cron, fired, job, latest, outage,
          crashes, faults>>

Job  == {"boot", "tick"}
Day  == Int

(* Where a task stands on its currency `cur`; `day` is the today of fx_tick,     *)
(* `base` that of the fetch under way, `got` the days of its rows.              *)
PC == {"idle", "list", "next", "get", "count", "long", "short", "save_long",
       "save_short", "mark", "except"}
NoCurrency == -1
Idle == [pc |-> "idle", todo |-> {}, cur |-> NoCurrency, day |-> 0, base |-> 0,
         got |-> {}]

(* A task is done with its currency: the locals of the round are gone.         *)
Onward(t) == [t EXCEPT !.pc = "next", !.cur = NoCurrency, !.base = 0, !.got = {}]

Init ==
  /\ today = FirstDay
  /\ rates = [c \in Currency |-> {}]
  /\ done = [c \in Currency |-> FALSE]
  /\ err = [c \in Currency |-> FALSE]
  /\ state = "running"
  /\ up = FALSE /\ cron = FALSE /\ fired = FALSE
  /\ job = [j \in Job |-> Idle]
  /\ latest = [c \in Currency |-> FirstDay] /\ outage = [c \in Currency |-> 0]
  /\ crashes = 0 /\ faults = 0

-----------------------------------------------------------------------------
(* The process, the calendar and the rest of the program *)

(* lifespan: the cron job and the bootstrap task exist only if polling was not *)
(* stopped; it may start after 16:00.                                          *)
Start ==
  /\ ~up
  /\ up' = TRUE
  /\ cron' = (state = "running")
  /\ job' = IF state = "running" THEN [job EXCEPT !["boot"].pc = "list"] ELSE job
  /\ fired' \in {fired, TRUE}
  /\ UNCHANGED <<today, dbVars, state, history, limits>>

(* The process dies, or is stopped: the bootstrap task is cancelled.           *)
Crash ==
  /\ up /\ crashes < MaxCrashes
  /\ up' = FALSE /\ cron' = FALSE
  /\ job' = [j \in Job |-> Idle]
  /\ crashes' = crashes + 1
  /\ UNCHANGED <<today, dbVars, state, fired, history, faults>>

(* The day ends, in a process with the cron job not before 16:00.  Beyond      *)
(* LastDay days still pass, only their number is not kept.  A task may span     *)
(* midnight, on a machine that sleeps.                                         *)
NewDay ==
  /\ cron => fired
  /\ today' = IF today < LastDay THEN today + 1 ELSE today
  /\ fired' = FALSE
  /\ UNCHANGED <<dbVars, state, up, cron, job, history, limits>>

(* The tick of the Mono scheduler gets a 401. *)
AuthFailed ==
  /\ up /\ state = "running"
  /\ state' = "auth_failed"
  /\ UNCHANGED <<today, dbVars, procVars, job, history, limits>>

-----------------------------------------------------------------------------
(* The two loops *)

(* CronTrigger at 16:00; with max_instances=1 a firing that finds the tick     *)
(* still running is skipped.                                                   *)
FxTick ==
  /\ cron /\ ~fired
  /\ fired' = TRUE
  /\ job' = IF job["tick"].pc = "idle"
              THEN [job EXCEPT !["tick"] = [Idle EXCEPT !.pc = "list", !.day = today]]
              ELSE job
  /\ UNCHANGED <<today, dbVars, state, up, cron, history, limits>>

ListCurrencies(j) ==
  /\ job[j].pc = "list"
  /\ job' = [job EXCEPT ![j].pc = "next", ![j].todo = Currency]
  /\ UNCHANGED <<today, dbVars, state, procVars, history, limits>>

(* Variant: the loop takes a currency without looking whether one is left.     *)
NextUnchecked(j) ==
  /\ job[j].pc = "next"
  /\ \E c \in job[j].todo \cup {NoCurrency} :
       /\ \A d \in job[j].todo : c = d \/ (c # NoCurrency /\ c <= d)
       /\ job' = [job EXCEPT ![j].pc = "count", ![j].todo = @ \ {c}, ![j].cur = c]
  /\ UNCHANGED <<today, dbVars, state, procVars, history, limits>>

(* for currency in currencies; maybe_bootstrap_fx reads the clock itself.      *)
NextCurrency(j) ==
  /\ job[j].pc = "next"
  /\ \/ /\ job[j].todo = {}
        /\ job' = [job EXCEPT ![j] = Idle]
     \/ \E c \in job[j].todo :
          /\ \A d \in job[j].todo : c <= d
          /\ job' = [job EXCEPT ![j].pc = IF j = "boot" THEN "count" ELSE "get",
                                ![j].todo = @ \ {c}, ![j].cur = c]
  /\ UNCHANGED <<today, dbVars, state, procVars, history, limits>>

(* _fx_tick_currency: get(currency).bootstrap_done *)
GetTracked ==
  /\ job["tick"].pc = "get"
  /\ job' = [job EXCEPT !["tick"].pc = IF done[job["tick"].cur] THEN "short" ELSE "count",
                        !["tick"].base = job["tick"].day]
  /\ UNCHANGED <<today, dbVars, state, procVars, history, limits>>

(* maybe_bootstrap_fx: count_in_window against the threshold *)
InWindow(c) == {d \in rates[c] : d >= today - Freshness}

CountInWindow(j) ==
  /\ job[j].pc = "count"
  /\ job' = [job EXCEPT ![j] = IF Cardinality(InWindow(@.cur)) >= Threshold
                                 THEN Onward(@) ELSE [@ EXCEPT !.pc = "long", !.base = today]]
  /\ UNCHANGED <<today, dbVars, state, procVars, history, limits>>

(* Variant: the trailing window starts a day late. *)
FirstOffByOne(j) == job[j].base - (IF job[j].pc = "long" THEN Window ELSE Lookback) + 1

(* fetch_range(currency, base - BOOTSTRAP_WINDOW, base), or the short range of *)
(* fx_tick, with its retries: rows, no rows, or an exception, which only       *)
(* maybe_bootstrap_fx catches on the spot.                                     *)
FirstOf(j) == job[j].base - (IF job[j].pc = "long" THEN Window ELSE Lookback)

(* The lists NBU may send for a range; 03-RESEARCH.md:117-124 found all of it,  *)
(* the comments of nbu.py and fx_bootstrap.py speak of business days.          *)
Answers(first, last) == {(first..last) \ out : out \in Missing}

FetchRows(j) ==
  /\ job[j].pc \in {"long", "short"} /\ job[j].cur \in Published
  /\ \E days \in Answers(FirstOf(j), job[j].base) :
       /\ days # {}
       /\ job' = [job EXCEPT ![j].got = days,
                             ![j].pc = IF @ = "long" THEN "save_long" ELSE "save_short"]
  /\ UNCHANGED <<today, dbVars, state, procVars, history, limits>>

(* [] : a currency NBU does not know, a range it has no rates for.             *)
FetchNothing(j) ==
  /\ job[j].pc \in {"long", "short"}
  /\ job' = [job EXCEPT ![j].pc = "mark"]
  /\ UNCHANGED <<today, dbVars, state, procVars, history, limits>>

(* Variant: no handler, a failed fetch ends the task. *)
FetchFailsAborts(j) ==
  /\ job[j].pc \in {"long", "short"}
  /\ job' = [job EXCEPT ![j] = Idle]
  /\ UNCHANGED <<today, dbVars, state, procVars, history, limits>>

FetchFails(j) ==
  /\ job[j].pc \in {"long", "short"}
  /\ job' = [job EXCEPT ![j].pc = IF @ = "long" THEN "mark" ELSE "except"]
  /\ UNCHANGED <<today, dbVars, state, procVars, history, limits>>

MarkAttempted(j) ==
  /\ job[j].pc = "mark"
  /\ err' = [err EXCEPT ![job[j].cur] = TRUE]
  /\ job' = [job EXCEPT ![j] = Onward(@)]
  /\ UNCHANGED <<today, rates, done, state, procVars, history, limits>>

(* Variant: set_bootstrap_done is missing. *)
SaveRatesOnly(j) ==
  /\ job[j].pc \in {"save_long", "save_short"}
  /\ rates' = [rates EXCEPT ![job[j].cur] = @ \cup job[j].got]
  /\ err' = [err EXCEPT ![job[j].cur] = FALSE]
  /\ job' = [job EXCEPT ![j] = Onward(@)]
  /\ UNCHANGED <<today, done, state, procVars, history, limits>>

(* Variant: the fetched range replaces what the table has. *)
SaveRatesOver(j) ==
  /\ job[j].pc \in {"save_long", "save_short"}
  /\ rates' = [rates EXCEPT ![job[j].cur] = job[j].got]
  /\ done' = [done EXCEPT ![job[j].cur] = @ \/ job[j].pc = "save_long"]
  /\ job' = [job EXCEPT ![j] = Onward(@)]
  /\ UNCHANGED <<today, err, state, procVars, history, limits>>

(* upsert_many, mark_attempted(None) and, after a bootstrap,                   *)
(* set_bootstrap_done, in one transaction.                                     *)
SaveRates(j) ==
  /\ job[j].pc \in {"save_long", "save_short"}
  /\ LET c == job[j].cur
         wait == job[j].base - latest[c]
         apart == IF wait > 0 THEN wait ELSE -wait
     IN /\ rates' = [rates EXCEPT ![c] = @ \cup job[j].got]
        /\ done' = [done EXCEPT ![c] = @ \/ job[j].pc = "save_long"]
        /\ err' = [err EXCEPT ![c] = FALSE]
        /\ latest' = [latest EXCEPT ![c] = IF wait > 0 \/ rates[c] = {} THEN job[j].base ELSE @]
        /\ outage' = [outage EXCEPT ![c] = IF rates[c] # {} /\ apart > @ THEN apart ELSE @]
  /\ job' = [job EXCEPT ![j] = Onward(@)]
  /\ UNCHANGED <<today, state, procVars, limits>>

(* The handler around one currency: log and continue with the next.           *)
CurrencyFailed(j) ==
  /\ job[j].pc = "except"
  /\ job' = [job EXCEPT ![j] = Onward(@)]
  /\ UNCHANGED <<today, dbVars, state, procVars, history, limits>>

(* A database transaction fails: the one that lists the currencies ends the    *)
(* task, any other lands in the handler.                                       *)
DatabaseFails(j) ==
  /\ faults < MaxFaults
  /\ job[j].pc \in {"list", "get", "count", "save_long", "save_short", "mark"}
  /\ job' = IF job[j].pc = "list" THEN [job EXCEPT ![j] = Idle]
            ELSE [job EXCEPT ![j].pc = "except", ![j].got = {}]
  /\ faults' = faults + 1
  /\ UNCHANGED <<today, dbVars, state, procVars, history, crashes>>

-----------------------------------------------------------------------------
Work(j) == \/ ListCurrencies(j) \/ NextCurrency(j) \/ (j = "tick" /\ GetTracked)
           \/ CountInWindow(j) \/ FetchRows(j) \/ FetchNothing(j) \/ FetchFails(j)
           \/ MarkAttempted(j) \/ SaveRates(j) \/ CurrencyFailed(j)

Next == \/ Start \/ Crash \/ NewDay \/ AuthFailed \/ FxTick
        \/ \E j \in Job : Work(j) \/ DatabaseFails(j)

Spec == Init /\ [][Next]_vars

(* Docker restarts the process, days pass, cron fires, awaits end, and NBU     *)
(* sends rates in the end to whoever asks again for a currency it publishes.   *)
Fairness ==
  /\ WF_vars(Start) /\ WF_vars(NewDay) /\ WF_vars(FxTick)
  /\ \A j \in Job : WF_vars(Work(j))
  /\ \A c \in Published : SF_vars(\E j \in Job : job[j].cur = c /\ FetchRows(j))

FairSpec == Spec /\ Fairness

-----------------------------------------------------------------------------
(* Properties *)

(* The tables and the locals of the tasks have the shape the code gives them,  *)
(* and a task past the head of its loop works on a currency.                   *)
TypeOK ==
  /\ today \in Nat
  /\ rates \in [Currency -> SUBSET Day]
  /\ done \in [Currency -> BOOLEAN]
  /\ err \in [Currency -> BOOLEAN]
  /\ state \in {"running", "auth_failed"}
  /\ up \in BOOLEAN /\ cron \in BOOLEAN /\ fired \in BOOLEAN
  /\ job \in [Job -> [pc : PC, todo : SUBSET Currency, cur : Currency \cup {NoCurrency},
                      day : Nat, base : Nat, got : SUBSET Day]]
  /\ \A j \in Job : job[j].pc \notin {"idle", "list", "next"} => job[j].cur # NoCurrency
  /\ latest \in [Currency -> Nat] /\ outage \in [Currency -> Nat]
  /\ crashes \in Nat /\ faults \in Nat

(* The flag tells the truth whatever is interrupted and whichever task gets    *)
(* there first, and however few rates NBU has sent: a currency is bootstrapped *)
(* exactly when it has rates, so the threshold can never skip one that is not. *)
DoneIffRates == \A c \in Currency : done[c] <=> rates[c] # {}

(* Every currency NBU publishes is bootstrapped, whatever the others do, unless *)
(* a 401 has stopped the program.                                              *)
EveryCurrencyBootstrapped ==
  \A c \in Published : <>(done[c] \/ state = "auth_failed")
=============================================================================
