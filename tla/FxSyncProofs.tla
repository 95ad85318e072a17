---------------------------- MODULE FxSyncProofs ----------------------------
(* Proofs about FxSync, the tasks that fetch rates, and FxRead, what a reader  *)
(* of the rates is shown: for every set of currencies, every choice of         *)
(* windows, any number of days, crashes, failures and outages.                 *)
EXTENDS FxRead, Extrema

USE FxSyncAssumption

Task == [pc : PC, todo : SUBSET Currency, cur : Currency \cup {NoCurrency},
         day : Nat, base : Nat, got : SUBSET Day]

(* A task past the head of its loop has a currency; rates about to be saved    *)
(* are an answer to the range it asked for, and not empty; the short range is  *)
(* asked for only for a currency bootstrapped before.                          *)
Sound(t) ==
  /\ t.pc \notin {"idle", "list", "next"} => t.cur # NoCurrency
  /\ t.pc = "save_long" => t.got \in Answers(t.base - Window, t.base)
  /\ t.pc = "save_short" => t.got \in Answers(t.base - Lookback, t.base)
  /\ t.pc \in {"save_long", "save_short"} => t.got # {}
  /\ t.pc \in {"short", "save_short"} => done[t.cur]

IInv == TypeOK /\ DoneIffRates /\ \A j \in Job : Sound(job[j])

(* The record of a task that does nothing. *)
LEMMA IdleTask == Idle \in Task /\ Sound(Idle)
  BY DEF Idle, Task, Sound, PC, NoCurrency, Day

(* A task that goes on to its next currency keeps nothing of the last.         *)
LEMMA OnwardTask ==
  ASSUME NEW t \in Task PROVE Onward(t) \in Task /\ Sound(Onward(t))
<1> DEFINE u == Onward(t)
<1>1. u \in Task  BY DEF Onward, Task, PC, NoCurrency, Day
<1>2. u.pc = "next"  BY DEF Onward, Task
<1> QED  BY <1>1, <1>2 DEF Sound

(* The tasks have the shape of Task. *)
LEMMA TaskTyped == ASSUME IInv PROVE job \in [Job -> Task] /\ \A j \in Job : job[j] \in Task
  BY DEF IInv, TypeOK, Task

(* The program starts with no rates and no currency bootstrapped. *)
LEMMA InitIInv == Init => IInv
<1> SUFFICES ASSUME Init PROVE IInv  OBVIOUS
<1>1. job \in [Job -> Task] /\ \A j \in Job : Sound(job[j])  BY IdleTask DEF Init
<1>2. TypeOK
  <2>1. \A j \in Job : job[j].pc = "idle"  BY DEF Init, Idle
  <2> QED  BY <1>1, <2>1 DEF Init, TypeOK, Task, Day
<1> QED  BY <1>1, <1>2 DEF Init, IInv, DoneIffRates

(* The tasks move on with the tables as they are: what holds of the tables     *)
(* still does, so only the tasks' own part is to be shown.                     *)
LEMMA TasksMove ==
  ASSUME IInv, UNCHANGED <<rates, done, latest, outage>>,
         job' \in [Job -> Task], \A j \in Job : Sound(job'[j]),
         today' \in Nat, err' \in [Currency -> BOOLEAN], state' \in {"running", "auth_failed"},
         up' \in BOOLEAN, cron' \in BOOLEAN, fired' \in BOOLEAN,
         crashes' \in Nat, faults' \in Nat
  PROVE  IInv'
<1>1. DoneIffRates'  BY DEF IInv, DoneIffRates
<1>2. TypeOK'
  <2>1. \A j \in Job : job'[j].pc \notin {"idle", "list", "next"} => job'[j].cur # NoCurrency
    BY DEF Sound
  <2> QED  BY <2>1 DEF IInv, TypeOK, Task
<1>3. \A j \in Job : Sound(job[j])'  BY DEF Sound
<1> QED  BY <1>1, <1>2, <1>3 DEF IInv

(* One task moves to t and may leave a note in last_error. *)
LEMMA TaskMoves ==
  ASSUME IInv, NEW j \in Job, NEW t \in Task, Sound(t), job' = [job EXCEPT ![j] = t],
         UNCHANGED <<today, rates, done, state, up, cron, fired, latest, outage, crashes>>,
         err' \in [Currency -> BOOLEAN], faults' \in Nat
  PROVE  IInv'
<1>1. job' \in [Job -> Task]  BY TaskTyped
<1>2. \A k \in Job : Sound(job'[k])  BY TaskTyped DEF IInv
<1>3. /\ today' \in Nat /\ state' \in {"running", "auth_failed"} /\ up' \in BOOLEAN
      /\ cron' \in BOOLEAN /\ fired' \in BOOLEAN /\ crashes' \in Nat
  BY DEF IInv, TypeOK
<1> QED  BY <1>1, <1>2, <1>3, TasksMove

(* The process, the calendar and the rest of the program preserve the invariant. *)
LEMMA OutsideStep ==
  ASSUME IInv, Start \/ Crash \/ NewDay \/ AuthFailed \/ FxTick
  PROVE  IInv'
<1> USE DEF dbVars, procVars, history, limits
<1>1. job \in [Job -> Task] /\ \A j \in Job : Sound(job[j])  BY TaskTyped DEF IInv
<1>2. CASE Start
  <2> DEFINE t == [job["boot"] EXCEPT !.pc = "list"]
  <2>1. t \in Task /\ Sound(t)  BY <1>1 DEF Task, Sound, Job, PC
  <2>2. job' = job \/ job' = [job EXCEPT !["boot"] = t]  BY <1>2, <1>1 DEF Start, Task, Job
  <2>3. job' \in [Job -> Task] /\ \A j \in Job : Sound(job'[j])
    BY <1>1, <2>1, <2>2 DEF Job
  <2> QED  BY <1>2, <2>3, TasksMove DEF IInv, TypeOK, Start
<1>3. CASE Crash
  <2>1. job' \in [Job -> Task] /\ \A j \in Job : Sound(job'[j])  BY <1>3, IdleTask DEF Crash
  <2>2. crashes' \in Nat  BY <1>3 DEF IInv, TypeOK, Crash
  <2> QED  BY <1>3, <2>1, <2>2, TasksMove DEF IInv, TypeOK, Crash
<1>4. CASE NewDay
  <2>1. today' \in Nat  BY <1>4 DEF IInv, TypeOK, NewDay
  <2> QED  BY <1>4, <1>1, <2>1, TasksMove DEF IInv, TypeOK, NewDay
<1>5. CASE AuthFailed  BY <1>5, <1>1, TasksMove DEF IInv, TypeOK, AuthFailed
<1>6. CASE FxTick
  <2> DEFINE t == [Idle EXCEPT !.pc = "list", !.day = today]
  <2>1. t \in Task /\ Sound(t)  BY IdleTask DEF IInv, TypeOK, Idle, Task, Sound, PC, NoCurrency
  <2>2. job' = job \/ job' = [job EXCEPT !["tick"] = t]  BY <1>6 DEF FxTick
  <2>3. job' \in [Job -> Task] /\ \A j \in Job : Sound(job'[j])
    BY <1>1, <2>1, <2>2 DEF Job
  <2> QED  BY <1>6, <2>3, TasksMove DEF IInv, TypeOK, FxTick
<1> QED  BY <1>2, <1>3, <1>4, <1>5, <1>6

(* The loop and the reads of a task preserve the invariant. *)
LEMMA ReadStep ==
  ASSUME IInv, NEW j \in Job,
         ListCurrencies(j) \/ NextCurrency(j) \/ (j = "tick" /\ GetTracked) \/ CountInWindow(j)
  PROVE  IInv'
<1> USE DEF dbVars, procVars, history, limits
<1>1. job \in [Job -> Task] /\ job[j] \in Task /\ Sound(job[j])  BY TaskTyped DEF IInv
<1>2. err \in [Currency -> BOOLEAN] /\ faults \in Nat /\ today \in Nat  BY DEF IInv, TypeOK
<1>3. CASE ListCurrencies(j)
  <2> DEFINE t == [job[j] EXCEPT !.pc = "next", !.todo = Currency]
  <2>1. t \in Task /\ Sound(t)  BY <1>1 DEF Task, Sound, PC
  <2>2. job' = [job EXCEPT ![j] = t]  BY <1>3, <1>1 DEF ListCurrencies, Task
  <2> QED  BY <1>2, <1>3, <2>1, <2>2, TaskMoves DEF ListCurrencies
<1>4. CASE NextCurrency(j)
  <2>1. CASE job' = [job EXCEPT ![j] = Idle]
    BY <1>2, <1>4, <2>1, IdleTask, TaskMoves DEF NextCurrency
  <2>2. CASE job' # [job EXCEPT ![j] = Idle]
    <3> DEFINE p == IF j = "boot" THEN "count" ELSE "get"
    <3>1. PICK c \in job[j].todo :
            job' = [job EXCEPT ![j].pc = p, ![j].todo = @ \ {c}, ![j].cur = c]
      BY <1>4, <2>2 DEF NextCurrency
    <3> DEFINE t == [job[j] EXCEPT !.pc = p, !.todo = @ \ {c}, !.cur = c]
    <3>2. c \in Currency /\ c # NoCurrency  BY <1>1 DEF Task, NoCurrency
    <3>3. t \in Task /\ Sound(t)  BY <1>1, <3>2 DEF Task, Sound, PC
    <3>4. job' = [job EXCEPT ![j] = t]  BY <3>1, <1>1 DEF Task
    <3> QED  BY <1>2, <1>4, <3>3, <3>4, TaskMoves DEF NextCurrency
  <2> QED  BY <2>1, <2>2
<1>5. CASE j = "tick" /\ GetTracked
  <2> DEFINE t == [job[j] EXCEPT !.pc = IF done[job[j].cur] THEN "short" ELSE "count",
                                 !.base = job[j].day]
  <2>1. t \in Task /\ Sound(t)  BY <1>5, <1>1 DEF Task, Sound, PC, GetTracked
  <2>2. job' = [job EXCEPT ![j] = t]  BY <1>5, <1>1 DEF GetTracked, Task
  <2> QED  BY <1>2, <1>5, <2>1, <2>2, TaskMoves DEF GetTracked
<1>6. CASE CountInWindow(j)
  <2> DEFINE t == [job[j] EXCEPT !.pc = "long", !.base = today]
  <2>1. t \in Task /\ Sound(t)  BY <1>6, <1>1, <1>2 DEF Task, Sound, PC, CountInWindow
  <2>2. job' = [job EXCEPT ![j] = t] \/ job' = [job EXCEPT ![j] = Onward(job[j])]
    BY <1>6, <1>1 DEF CountInWindow, Task
  <2> QED  BY <1>1, <1>2, <1>6, <2>1, <2>2, OnwardTask, TaskMoves DEF CountInWindow
<1> QED  BY <1>3, <1>4, <1>5, <1>6

(* A fetch, whatever NBU answers, and what a task does about a failure preserve *)
(* the invariant.                                                              *)
LEMMA FetchStep ==
  ASSUME IInv, NEW j \in Job,
         \/ FetchRows(j) \/ FetchNothing(j) \/ FetchFails(j)
         \/ MarkAttempted(j) \/ CurrencyFailed(j) \/ DatabaseFails(j)
  PROVE  IInv'
<1> USE DEF dbVars, procVars, history, limits
<1>1. job \in [Job -> Task] /\ job[j] \in Task /\ Sound(job[j])  BY TaskTyped DEF IInv
<1>2. err \in [Currency -> BOOLEAN] /\ faults \in Nat  BY DEF IInv, TypeOK
<1>3. CASE FetchRows(j)
  <2>1. PICK days \in Answers(FirstOf(j), job[j].base) :
          /\ days # {}
          /\ job' = [job EXCEPT ![j].got = days,
                                ![j].pc = IF @ = "long" THEN "save_long" ELSE "save_short"]
    BY <1>3 DEF FetchRows
  <2> DEFINE p == IF job[j].pc = "long" THEN "save_long" ELSE "save_short"
             t == [job[j] EXCEPT !.got = days, !.pc = p]
  <2>2. days \subseteq Int  BY <1>1 DEF Answers, FirstOf, Task
  <2>3. t \in Task  BY <2>2, <1>1 DEF Task, PC, Day
  <2>4. Sound(t)  BY <1>3, <1>1, <2>1 DEF Sound, FetchRows, FirstOf, Task
  <2>5. job' = [job EXCEPT ![j] = t]  BY <2>1, <1>1 DEF Task
  <2> QED  BY <1>2, <1>3, <2>3, <2>4, <2>5, TaskMoves DEF FetchRows
<1>4. CASE FetchNothing(j)
  <2> DEFINE t == [job[j] EXCEPT !.pc = "mark"]
  <2>1. t \in Task /\ Sound(t)  BY <1>4, <1>1 DEF Task, Sound, PC, FetchNothing
  <2>2. job' = [job EXCEPT ![j] = t]  BY <1>4, <1>1 DEF FetchNothing, Task
  <2> QED  BY <1>2, <1>4, <2>1, <2>2, TaskMoves DEF FetchNothing
<1>5. CASE FetchFails(j)
  <2> DEFINE t == [job[j] EXCEPT !.pc = IF @ = "long" THEN "mark" ELSE "except"]
  <2>1. t \in Task /\ Sound(t)  BY <1>5, <1>1 DEF Task, Sound, PC, FetchFails
  <2>2. job' = [job EXCEPT ![j] = t]  BY <1>5, <1>1 DEF FetchFails, Task
  <2> QED  BY <1>2, <1>5, <2>1, <2>2, TaskMoves DEF FetchFails
<1>6. CASE MarkAttempted(j)
  <2>1. job' = [job EXCEPT ![j] = Onward(job[j])]  BY <1>6, <1>1 DEF MarkAttempted
  <2>2. err' \in [Currency -> BOOLEAN]  BY <1>6, <1>2 DEF MarkAttempted
  <2> QED  BY <1>1, <1>2, <1>6, <2>1, <2>2, OnwardTask, TaskMoves DEF MarkAttempted
<1>7. CASE CurrencyFailed(j)
  <2>1. job' = [job EXCEPT ![j] = Onward(job[j])]  BY <1>7, <1>1 DEF CurrencyFailed
  <2> QED  BY <1>1, <1>2, <1>7, <2>1, OnwardTask, TaskMoves DEF CurrencyFailed
<1>8. CASE DatabaseFails(j)
  <2> DEFINE t == [job[j] EXCEPT !.pc = "except", !.got = {}]
  <2>0. faults' \in Nat  BY <1>2, <1>8 DEF DatabaseFails
  <2>1. CASE job[j].pc = "list"
    BY <1>2, <1>8, <2>1, <2>0, IdleTask, TaskMoves DEF DatabaseFails
  <2>2. CASE job[j].pc # "list"
    <3>1. t \in Task /\ Sound(t)  BY <1>8, <2>2, <1>1 DEF Task, Sound, PC, DatabaseFails
    <3>2. job' = [job EXCEPT ![j] = t]  BY <1>8, <2>2, <1>1 DEF DatabaseFails, Task
    <3> QED  BY <1>2, <1>8, <2>0, <3>1, <3>2, TaskMoves DEF DatabaseFails
  <2> QED  BY <2>1, <2>2
<1> QED  BY <1>3, <1>4, <1>5, <1>6, <1>7, <1>8

(* Saving rates sets the flag with the first of them, in one transaction.      *)
LEMMA SaveStep ==
  ASSUME IInv, NEW j \in Job, SaveRates(j) PROVE IInv'
<1> USE DEF dbVars, procVars, history, limits
<1> DEFINE c == job[j].cur
           long == job[j].pc = "save_long"
           wait == job[j].base - latest[c]
           apart == IF wait > 0 THEN wait ELSE -wait
<1>1. job \in [Job -> Task] /\ job[j] \in Task /\ Sound(job[j])  BY TaskTyped DEF IInv
<1>2. c \in Currency /\ job[j].base \in Nat  BY <1>1 DEF SaveRates, Sound, Task
<1>3. job[j].got # {} /\ job[j].got \subseteq Int
  BY <1>1 DEF SaveRates, Sound, Task, Day
<1>4. /\ rates \in [Currency -> SUBSET Int] /\ done \in [Currency -> BOOLEAN]
      /\ latest \in [Currency -> Nat] /\ outage \in [Currency -> Nat]
  BY DEF IInv, TypeOK, Day
<1>5. /\ rates' = [rates EXCEPT ![c] = @ \cup job[j].got]
      /\ done' = [done EXCEPT ![c] = @ \/ long]
  BY DEF SaveRates
<1>6. /\ rates' \in [Currency -> SUBSET Int] /\ done' \in [Currency -> BOOLEAN]
      /\ rates'[c] = rates[c] \cup job[j].got /\ (done'[c] <=> done[c] \/ long)
      /\ \A d \in Currency \ {c} : rates'[d] = rates[d] /\ done'[d] = done[d]
  BY <1>2, <1>3, <1>4, <1>5
<1>7. \A d \in Currency : done[d] => done'[d]  BY <1>6
<1>8. /\ job' \in [Job -> Task] /\ \A k \in Job : Sound(job[k])'
  <2> DEFINE t == Onward(job[j])
  <2>1. t \in Task /\ t.pc = "next"  BY <1>1, OnwardTask DEF Onward, Task
  <2>2. job' = [job EXCEPT ![j] = t]  BY DEF SaveRates
  <2> HIDE DEF t
  <2>3. ASSUME NEW k \in Job PROVE Sound(job[k])'
    <3>1. CASE k = j  BY <3>1, <2>1, <2>2, <1>1 DEF Sound
    <3>2. CASE k # j
      <4>1. job'[k] = job[k] /\ job[k] \in Task /\ Sound(job[k])
        BY <3>2, <2>2, <1>1 DEF IInv
      <4>2. job[k].pc \in {"short", "save_short"} => job[k].cur \in Currency
        BY <4>1 DEF Sound, Task
      <4> QED  BY <4>1, <4>2, <1>7 DEF Sound
    <3> QED  BY <3>1, <3>2
  <2> QED  BY <1>1, <2>1, <2>2, <2>3
<1>9. latest' \in [Currency -> Nat] /\ outage' \in [Currency -> Nat]
  <2>1. latest' = [latest EXCEPT ![c] = IF wait > 0 \/ rates[c] = {} THEN job[j].base ELSE @]
    BY DEF SaveRates
  <2>2. outage' = [outage EXCEPT ![c] = IF rates[c] # {} /\ apart > @ THEN apart ELSE @]
    BY DEF SaveRates
  <2>3. latest[c] \in Nat /\ outage[c] \in Nat  BY <1>2, <1>4
  <2>4. (IF rates[c] # {} /\ apart > outage[c] THEN apart ELSE outage[c]) \in Nat
    BY <1>2, <2>3
  <2> QED  BY <1>2, <1>4, <2>1, <2>2, <2>4
<1>10. TypeOK'
  <2>1. \A k \in Job : job'[k].pc \notin {"idle", "list", "next"} => job'[k].cur # NoCurrency
    BY <1>8 DEF Sound
  <2>2. err' \in [Currency -> BOOLEAN]  BY <1>2 DEF IInv, TypeOK, SaveRates
  <2> QED  BY <1>6, <1>8, <1>9, <2>1, <2>2 DEF IInv, TypeOK, SaveRates, Task, Day
<1>11. DoneIffRates'
  <2>1. done'[c] <=> rates'[c] # {}
    <3>1. done'[c]  BY <1>1, <1>6 DEF Sound, SaveRates
    <3> QED  BY <3>1, <1>3, <1>6
  <2> QED  BY <2>1, <1>6 DEF IInv, DoneIffRates
<1> QED  BY <1>8, <1>10, <1>11 DEF IInv

(* The invariant is inductive. *)
LEMMA StepIInv == IInv /\ [Next]_vars => IInv'
<1> SUFFICES ASSUME IInv, [Next]_vars PROVE IInv'
  OBVIOUS
<1>1. CASE UNCHANGED vars
  <2>1. UNCHANGED <<today, rates, done, err, state, up, cron, fired, job, latest,
                    outage, crashes, faults>>
    BY <1>1 DEF vars
  <2> QED  BY <2>1, TaskTyped, TasksMove DEF IInv, TypeOK
<1>2. CASE Start \/ Crash \/ NewDay \/ AuthFailed \/ FxTick
  BY <1>2, OutsideStep
<1>3. ASSUME NEW j \in Job, Work(j) \/ DatabaseFails(j) PROVE IInv'
  <2>1. CASE SaveRates(j)  BY <2>1, SaveStep
  <2>2. CASE ~SaveRates(j)  BY <1>3, <2>2, ReadStep, FetchStep DEF Work
  <2> QED  BY <2>1, <2>2
<1> QED  BY <1>1, <1>2, <1>3 DEF Next

(* Both FX tasks, in any interleaving, keep the shape of the tables, and       *)
(* everything else the invariant says.                                         *)
THEOREM Invariance == Spec => []IInv
  BY InitIInv, StepIInv, PTL DEF Spec

(* The fields of fx_rates, tracked_fx_currencies and of both tasks.            *)
THEOREM TypeCorrect == Spec => []TypeOK
<1>1. IInv => TypeOK  BY DEF IInv
<1> QED  BY <1>1, Invariance, PTL

(* bootstrap_done is true exactly of the currencies that have rates, although  *)
(* fx_tick and the startup task both write it.                                 *)
THEOREM FlagTellsTheTruth == Spec => []DoneIffRates
<1>1. IInv => DoneIffRates  BY DEF IInv
<1> QED  BY <1>1, Invariance, PTL

-----------------------------------------------------------------------------
(* What a reader is shown *)

USE FxReadAssumption

(* The arithmetic of one amount *)

(* HalfEven(n, d) is the nearest integer to n / d, and the even one of two that *)
(* are equally near: no amount shown in UAH is more than half a kopeck off.    *)
THEOREM HalfEvenIsNearest ==
  ASSUME NEW n \in Int, NEW d \in Nat \ {0}
  PROVE  LET h == HalfEven(n, d)
         IN /\ h \in Int
            /\ -d <= 2 * (h * d - n) /\ 2 * (h * d - n) <= d
            /\ 2 * (h * d - n) = d \/ 2 * (h * d - n) = -d => h % 2 = 0
<1> DEFINE q == n \div d
           r == n % d
<1>1. q \in Int /\ r \in Int /\ n = d * q + r /\ 0 <= r /\ r < d  OBVIOUS
<1>2. HalfEven(n, d) = IF 2 * r < d \/ (2 * r = d /\ q % 2 = 0) THEN q ELSE q + 1
  BY DEF HalfEven
<1> HIDE DEF q, r
<1>3. q * d - n = -r /\ (q + 1) * d - n = d - r
  <2>1. q * d = d * q /\ (q + 1) * d = d * q + d  BY <1>1
  <2> QED  BY <1>1, <2>1
<1>4. q % 2 = 0 \/ (q + 1) % 2 = 0  BY <1>1
<1> QED  BY <1>1, <1>2, <1>3, <1>4

-----------------------------------------------------------------------------
(* NULL is a number below that of every day.                                   *)
LEMMA NullBelow == Null \in Int /\ Null < -Window /\ Null < 0
  BY SMT DEF Null

(* What the LATERAL join returns: the latest rate that is not after the day.   *)
LEMMA CarriedIsLatest ==
  ASSUME NEW days \in SUBSET Int, NEW day \in Int, \E d \in days : d <= day
  PROVE  /\ Carried(days, day) \in days /\ Carried(days, day) <= day
         /\ \A e \in days : e <= day => e <= Carried(days, day)
<1> DEFINE before == {d \in days : d <= day}
<1>1. before \in SUBSET Int /\ before # {} /\ \A d \in before : d <= day  OBVIOUS
<1>2. \E m \in before : \A e \in before : e <= m
  <2> HIDE DEF before
  <2> QED  BY <1>1, Greatest
<1>3. \E d \in days : d <= day /\ \A e \in days : e <= day => e <= d  BY <1>2
<1> QED  BY <1>3 DEF Carried

(* More rates carry a later rate to a day, never an older one.                 *)
LEMMA CarriedGrows ==
  ASSUME NEW more \in SUBSET Int, NEW days \in SUBSET more, NEW day \in Int,
         \A d \in more : Null < d
  PROVE  /\ Carried(days, day) <= Carried(more, day)
         /\ Carried(days, day) = Null \/ (Null < Carried(days, day) /\ Carried(days, day) <= day)
<1>1. CASE \E d \in days : d <= day
  <2>1. Carried(days, day) \in days /\ Carried(days, day) <= day  BY <1>1, CarriedIsLatest
  <2>2. Carried(more, day) \in more /\ Carried(days, day) <= Carried(more, day)
    BY <1>1, <2>1, CarriedIsLatest
  <2> QED  BY <2>1, <2>2
<1>2. CASE ~\E d \in days : d <= day
  <2>1. Carried(days, day) = Null  BY <1>2 DEF Carried
  <2>2. Carried(more, day) = Null \/ Carried(more, day) \in more
    BY CarriedIsLatest DEF Carried
  <2>3. Null <= Carried(more, day)
    <3>1. CASE Carried(more, day) = Null  BY <3>1, NullBelow
    <3>2. CASE Carried(more, day) \in more
      <4>1. Null < Carried(more, day) /\ Carried(more, day) \in Int  BY <3>2
      <4> QED  BY <4>1, NullBelow
    <3> QED  BY <2>2, <3>1, <3>2
  <2> QED  BY <2>1, <2>3
<1> QED  BY <1>1, <1>2

-----------------------------------------------------------------------------
(* NBU leaves out at most Gap days in a row: an answer of k + 1 days up to b    *)
(* that is not empty has a rate among the last of them, and one shortly before *)
(* every day that is not at its very beginning.                                *)
LEMMA AnswerDense ==
  ASSUME NEW b \in Nat, NEW k \in Nat, NEW A \in Answers(b - k, b), A # {}
  PROVE  /\ A \in SUBSET Int /\ \A d \in A : b - k <= d /\ d <= b
         /\ \E e \in A : b - Gap <= e
         /\ \A d \in (b - k + Gap)..b : \E e \in A : d - Gap <= e /\ e <= d
<1>1. PICK out \in Missing : A = ((b - k)..b) \ out  BY DEF Answers
<1>2. A \in SUBSET Int /\ \A d \in A : b - k <= d /\ d <= b  BY <1>1
<1>3. ASSUME NEW d \in (b - k + Gap)..b PROVE \E e \in A : d - Gap <= e /\ e <= d
  <2>1. d \in Int /\ b - k <= d - Gap /\ d <= b /\ Gap \in Nat  BY <1>3
  <2>2. ~((d - Gap)..d \subseteq out)
    <3>1. out \subseteq Int /\ \A x \in out : ~((x - Gap)..x \subseteq out)  OBVIOUS
    <3>2. d \in (d - Gap)..d  BY <2>1
    <3> QED  BY <3>1, <3>2
  <2>3. PICK e \in (d - Gap)..d : e \notin out  BY <2>2
  <2>4. e \in Int /\ d - Gap <= e /\ e <= d  BY <2>1, <2>3
  <2>5. e \in (b - k)..b  BY <2>1, <2>4
  <2> QED  BY <1>1, <2>3, <2>4, <2>5
<1>4. \E e \in A : b - Gap <= e
  <2>1. CASE k >= Gap  BY <1>3, <2>1
  <2>2. CASE k < Gap
    <3>1. PICK e \in A : TRUE  OBVIOUS
    <3>2. e \in Int /\ b - k <= e  BY <1>2
    <3> QED  BY <2>2, <3>2
  <2> QED  BY <2>1, <2>2
<1> QED  BY <1>2, <1>3, <1>4

(* What one fetch of the days up to b, reaching back k, does to the rates R of *)
(* a currency whose latest fetch was on day L, with outages of O days at most. *)
(* A day is near to its rate if only NBU's own days are missing between them,  *)
(* or the days an outage lasted beyond the trailing window.                    *)
Near(d, e, O) == e <= d /\ (d - e <= Gap \/ d - e <= O - (Lookback + 1) + 2 * Gap)

Covered(R, L, O) ==
  R # {} =>
    /\ \A e \in R : e <= L
    /\ \E e \in R : L - Gap <= e
    /\ \A d \in (L - Lookback + Gap)..L : \E e \in R : d - Gap <= e /\ e <= d
    /\ \A d \in Int : (\E e \in R : e < d) /\ (\E e \in R : d < e) =>
         \E e \in R : Near(d, e, O)

(* Saving an answer to the k + 1 days that end with b keeps the rates covered. *)
LEMMA FetchCovers ==
  ASSUME NEW R \in SUBSET Int, NEW L \in Nat, NEW O \in Nat, Covered(R, L, O),
         NEW b \in Nat, NEW k \in Nat, Lookback <= k,
         NEW A \in Answers(b - k, b), A # {},
         NEW L1 \in Nat, NEW O1 \in Nat,
         L1 = (IF b - L > 0 \/ R = {} THEN b ELSE L),
         O <= O1, R # {} => b - L <= O1 /\ L - b <= O1
  PROVE  Covered(R \cup A, L1, O1)
<1> DEFINE R1 == R \cup A
<1>1. /\ A \in SUBSET Int /\ \A d \in A : b - k <= d /\ d <= b
      /\ \E e \in A : b - Gap <= e
      /\ \A d \in (b - k + Gap)..b : \E e \in A : d - Gap <= e /\ e <= d
  <2>1. b \in Nat /\ k \in Nat /\ A \in Answers(b - k, b) /\ A # {}  OBVIOUS
  <2> QED  BY ONLY <2>1, AnswerDense
<1>2. Lookback \in Nat /\ Gap \in Nat /\ R1 \in SUBSET Int  BY <1>1
<1>3. R # {} => /\ \A e \in R : e <= L
                /\ \E e \in R : L - Gap <= e
                /\ \A d \in (L - Lookback + Gap)..L : \E e \in R : d - Gap <= e /\ e <= d
                /\ \A d \in Int : (\E e \in R : e < d) /\ (\E e \in R : d < e) =>
                     \E e \in R : Near(d, e, O)
  BY DEF Covered
<1>4. L1 = b \/ (L1 = L /\ R # {} /\ b <= L)  OBVIOUS
<1>5. ASSUME NEW e \in R1 PROVE e <= L1
  <2>1. CASE e \in R
    <3>1. e <= L /\ L <= L1 /\ e \in Int  BY <1>3, <2>1
    <3> QED  BY <3>1
  <2>2. CASE e \in A
    <3>1. e <= b /\ b <= L1 /\ e \in Int  BY <1>1, <1>4, <2>2
    <3> QED  BY <3>1
  <2> QED  BY <2>1, <2>2
<1>6. \E e \in R1 : L1 - Gap <= e  BY <1>1, <1>3, <1>4
<1>7. ASSUME NEW d \in (L1 - Lookback + Gap)..L1
      PROVE  \E e \in R1 : d - Gap <= e /\ e <= d
  <2>1. CASE L1 = b
    <3>1. d \in (b - k + Gap)..b  BY <1>2, <1>7, <2>1
    <3> QED  BY <1>1, <3>1
  <2>2. CASE L1 # b  BY <1>3, <1>4, <1>7, <2>2
  <2> QED  BY <2>1, <2>2
<1>8. ASSUME NEW d \in Int, NEW e \in R1, e < d, NEW f \in R1, d < f
      PROVE  \E x \in R1 : Near(d, x, O1)
  <2>1. CASE (\E x \in R : x < d) /\ (\E x \in R : d < x)
    <3>1. PICK x \in R : Near(d, x, O)  BY <1>3, <2>1
    <3>2. Near(d, x, O1)  BY <1>2, <3>1 DEF Near
    <3> QED  BY <3>2
  <2>2. CASE d \in R1
    <3>1. Near(d, d, O1)  BY <1>2 DEF Near
    <3> QED  BY <2>2, <3>1
  <2>3. CASE d <= b /\ \E x \in A : x <= d
    <3>1. CASE b - k + Gap <= d
      <4>1. d \in (b - k + Gap)..b  BY <1>2, <2>3, <3>1
      <4>2. PICK x \in A : d - Gap <= x /\ x <= d  BY <1>1, <4>1
      <4>3. Near(d, x, O1)  BY <1>1, <1>2, <4>2 DEF Near
      <4> QED  BY <4>3
    <3>2. CASE d < b - k + Gap
      <4>1. PICK x \in A : x <= d  BY <2>3
      <4>2. x \in Int /\ b - k <= x  BY <1>1
      <4>3. Near(d, x, O1)  BY <1>2, <3>2, <4>1, <4>2 DEF Near
      <4> QED  BY <4>3
    <3> QED  BY <1>2, <3>1, <3>2
  <2>4. CASE ~\E x \in A : x <= d
    <3>1. e \in R /\ f \in A \cup R  BY <1>8, <2>4
    <3>2. CASE \E x \in R : d < x  BY <1>8, <2>1, <3>1, <3>2
    <3>3. CASE ~\E x \in R : d < x
      <4>1. d < b  BY <1>1, <1>8, <3>1, <3>3
      <4>2. d < b - k + Gap
        <5>1. d \notin (b - k + Gap)..b  BY <1>1, <2>4
        <5> QED  BY <1>2, <4>1, <5>1
      <4>3. PICK m \in R : L - Gap <= m  BY <1>3, <3>1
      <4>4. m \in Int /\ m <= d  BY <3>3
      <4>5. b - L <= O1  BY <3>1
      <4>6. Near(d, m, O1)  BY <1>2, <4>2, <4>3, <4>4, <4>5 DEF Near
      <4> QED  BY <4>6
    <3> QED  BY <3>2, <3>3
  <2>5. CASE d \notin R1 /\ b < d /\ ~\E x \in R : x < d
    <3>1. f \in R  BY <1>1, <1>8, <2>5
    <3>2. f <= L /\ d < L  BY <1>3, <1>8, <3>1
    <3>3. d < L - Lookback + Gap
      <4>1. ~\E x \in R : x <= d  BY <2>5
      <4>2. d \notin (L - Lookback + Gap)..L  BY <1>3, <3>1, <4>1
      <4> QED  BY <1>2, <3>2, <4>2
    <3>4. PICK m \in A : b - Gap <= m  BY <1>1
    <3>5. m \in Int /\ m <= b  BY <1>1
    <3>6. L - b <= O1  BY <3>1
    <3>7. Near(d, m, O1)  BY <1>2, <2>5, <3>3, <3>4, <3>5, <3>6 DEF Near
    <3> QED  BY <3>7
  <2>6. CASE b < d /\ \E x \in R : x < d
    <3>1. f \in R  BY <1>1, <1>8, <2>6
    <3> QED  BY <1>8, <2>1, <2>6, <3>1
  <2> QED  BY <2>2, <2>3, <2>4, <2>5, <2>6
<1>9. \A d \in Int : (\E e \in R1 : e < d) /\ (\E e \in R1 : d < e) =>
        \E e \in R1 : Near(d, e, O1)
  BY <1>8
<1> HIDE DEF R1
<1> QED  BY <1>5, <1>6, <1>7, <1>9 DEF Covered, R1

-----------------------------------------------------------------------------
(* The invariant of the rates on top of that of the tasks.                     *)
RInv == \A c \in Currency : /\ Covered(rates[c], latest[c], outage[c])
                            /\ \A d \in rates[c] : Null < d

(* It holds before any rate is there.                                          *)
LEMMA RInvInit == Init => RInv
  BY DEF Init, RInv, Covered

(* One step changes the rates of a currency only by a fetch that is saved.     *)
LEMMA RatesStep ==
  ASSUME IInv, [Next]_vars, NEW c \in Currency,
         <<rates, latest, outage>>' # <<rates, latest, outage>>
  PROVE  \E j \in Job : SaveRates(j)
<1> USE DEF dbVars, procVars, history, limits
<1>1. ~(Start \/ Crash \/ NewDay \/ AuthFailed \/ FxTick)
  BY DEF Start, Crash, NewDay, AuthFailed, FxTick
<1>2. \A j \in Job : ~(\/ ListCurrencies(j) \/ NextCurrency(j) \/ GetTracked
                       \/ CountInWindow(j) \/ FetchRows(j) \/ FetchNothing(j)
                       \/ FetchFails(j) \/ MarkAttempted(j) \/ CurrencyFailed(j)
                       \/ DatabaseFails(j))
  BY DEF ListCurrencies, NextCurrency, GetTracked, CountInWindow, FetchRows, FetchNothing,
         FetchFails, MarkAttempted, CurrencyFailed, DatabaseFails
<1> QED  BY <1>1, <1>2 DEF Next, Work, vars

(* What a saved fetch of the k + 1 days up to b adds to the rates of currency c, *)
(* and the history it leaves.                                                  *)
Fetched(c, b, k, A) ==
  /\ A # {}
  /\ rates' = [rates EXCEPT ![c] = @ \cup A]
  /\ latest' = [latest EXCEPT ![c] = IF b - latest[c] > 0 \/ rates[c] = {} THEN b ELSE @]
  /\ outage' \in [Currency -> Nat]
  /\ \A d \in Currency : outage[d] <= outage'[d] /\ (d # c => outage'[d] = outage[d])
  /\ rates[c] # {} => b - latest[c] <= outage'[c] /\ latest[c] - b <= outage'[c]

LEMMA SavedFetch ==
  ASSUME IInv, NEW j \in Job, SaveRates(j)
  PROVE  \E c \in Currency, b \in Nat, k \in {Lookback, Window} :
           \E A \in Answers(b - k, b) : Fetched(c, b, k, A)
<1> DEFINE c == job[j].cur
           b == job[j].base
           wait == b - latest[c]
           apart == IF wait > 0 THEN wait ELSE -wait
<1>1. job[j] \in Task /\ Sound(job[j])  BY TaskTyped DEF IInv
<1>2. c \in Currency /\ b \in Nat  BY <1>1 DEF SaveRates, Sound, Task
<1>3. /\ job[j].got # {}
      /\ \E k \in {Lookback, Window} : job[j].got \in Answers(b - k, b)
  BY <1>1 DEF SaveRates, Sound
<1>4. latest \in [Currency -> Nat] /\ outage \in [Currency -> Nat]  BY DEF IInv, TypeOK
<1>5. /\ rates' = [rates EXCEPT ![c] = @ \cup job[j].got]
      /\ latest' = [latest EXCEPT ![c] = IF wait > 0 \/ rates[c] = {} THEN b ELSE @]
      /\ outage' = [outage EXCEPT ![c] = IF rates[c] # {} /\ apart > @ THEN apart ELSE @]
  BY DEF SaveRates
<1> HIDE DEF c, b
<1>6. latest[c] \in Nat /\ outage[c] \in Nat /\ wait \in Int /\ apart \in Nat
      /\ wait <= apart /\ -wait <= apart
  BY <1>2, <1>4
<1> HIDE DEF apart
<1>7. /\ outage'[c] = IF rates[c] # {} /\ apart > outage[c] THEN apart ELSE outage[c]
      /\ \A d \in Currency \ {c} : outage'[d] = outage[d]
      /\ DOMAIN outage' = Currency /\ outage' = [d \in Currency |-> outage'[d]]
  BY <1>2, <1>4, <1>5
<1>8. outage'[c] \in Nat /\ outage[c] <= outage'[c] /\ (rates[c] # {} => apart <= outage'[c])
  BY <1>6, <1>7
<1>9. outage' \in [Currency -> Nat]  BY <1>4, <1>7, <1>8
<1>10. \A d \in Currency : outage[d] <= outage'[d] /\ (d # c => outage'[d] = outage[d])
  BY <1>4, <1>7, <1>8
<1>11. rates[c] # {} => b - latest[c] <= outage'[c] /\ latest[c] - b <= outage'[c]
  BY <1>2, <1>6, <1>8
<1>12. \A k \in {Lookback, Window} : Fetched(c, b, k, job[j].got)
  BY <1>3, <1>5, <1>9, <1>10, <1>11 DEF Fetched
<1> QED  BY <1>2, <1>3, <1>12

(* Rates are only ever added, and the rates stay covered.                      *)
LEMMA RInvStep ==
  ASSUME IInv, RInv, [Next]_vars
  PROVE  RInv' /\ \A c \in Currency : rates[c] \subseteq rates'[c] /\ rates'[c] \subseteq Int
<1>1. /\ rates \in [Currency -> SUBSET Int] /\ latest \in [Currency -> Nat]
      /\ outage \in [Currency -> Nat]
  BY DEF IInv, TypeOK, Day
<1>2. CASE <<rates, latest, outage>>' = <<rates, latest, outage>>
  BY <1>1, <1>2 DEF RInv, Covered, Near
<1>3. ASSUME NEW j \in Job, SaveRates(j)
      PROVE  RInv' /\ \A c \in Currency : rates[c] \subseteq rates'[c] /\ rates'[c] \subseteq Int
  <2>1. PICK c \in Currency, b \in Nat, k \in {Lookback, Window} :
           \E A \in Answers(b - k, b) : Fetched(c, b, k, A)
    BY <1>3, SavedFetch
  <2>0. PICK A \in Answers(b - k, b) : Fetched(c, b, k, A)  BY <2>1
  <2>2. /\ rates'[c] = rates[c] \cup A /\ A # {}
        /\ latest'[c] = IF b - latest[c] > 0 \/ rates[c] = {} THEN b ELSE latest[c]
        /\ latest'[c] \in Nat /\ outage'[c] \in Nat /\ outage[c] <= outage'[c]
        /\ rates[c] # {} => b - latest[c] <= outage'[c] /\ latest[c] - b <= outage'[c]
        /\ \A d \in Currency \ {c} :
             rates'[d] = rates[d] /\ latest'[d] = latest[d] /\ outage'[d] = outage[d]
    BY <1>1, <2>0 DEF Fetched
  <2>3. k \in Nat /\ Lookback <= k  OBVIOUS
  <2>4. Covered(rates'[c], latest'[c], outage'[c])
    <3>1. Covered(rates[c], latest[c], outage[c])  BY <1>3 DEF RInv
    <3>2. rates[c] \in SUBSET Int /\ latest[c] \in Nat /\ outage[c] \in Nat  BY <1>1
    <3>3. Covered(rates[c] \cup A, latest'[c], outage'[c])
      BY <2>2, <2>3, <3>1, <3>2, FetchCovers
    <3> QED  BY <2>2, <3>3
  <2>5. \A d \in A : d \in Int /\ Null < d
    <3>1. A \in SUBSET Int /\ \A d \in A : b - k <= d  BY <2>2, <2>3, AnswerDense
    <3>2. k <= Window  OBVIOUS
    <3> QED  BY <2>3, <3>1, <3>2, NullBelow
  <2>6. RInv'
    <3>1. ASSUME NEW d \in Currency
          PROVE  Covered(rates'[d], latest'[d], outage'[d]) /\ \A x \in rates'[d] : Null < x
      <4>1. CASE d = c  BY <4>1, <2>2, <2>4, <2>5 DEF RInv
      <4>2. CASE d # c  BY <4>2, <2>2 DEF RInv
      <4> QED  BY <4>1, <4>2
    <3> QED  BY <3>1 DEF RInv, Covered, Near
  <2> QED  BY <1>1, <2>2, <2>5, <2>6
<1>4. CASE Currency = {}  BY <1>4 DEF RInv
<1> QED  BY <1>2, <1>3, <1>4, RatesStep

(* The rates a reader can find are those of the tasks' invariant and covered.  *)
THEOREM RatesCovered == Spec => [](IInv /\ RInv)
<1>1. IInv /\ RInv /\ [Next]_vars => (IInv /\ RInv)'  BY StepIInv, RInvStep
<1> QED  BY <1>1, InitIInv, RInvInit, PTL DEF Spec

(* Whatever the two tasks do, in any order and across restarts, no row loses a *)
(* rate it has been shown with or is shown with an older one.                  *)
THEOREM ReadersNeverLose == Spec => RollupOnlyImproves
<1>1. ASSUME IInv, RInv, [Next]_vars, NEW c \in Currency, NEW day \in Days
      PROVE  /\ ~Stale(c, day) => ~Stale(c, day)'
             /\ RateDate(c, day) <= RateDate(c, day)'
  <2>1. RInv' /\ rates[c] \subseteq rates'[c] /\ rates'[c] \subseteq Int  BY <1>1, RInvStep
  <2>2. day \in Int  BY DEF Days
  <2>3. \A d \in rates'[c] : Null < d  BY <2>1 DEF RInv
  <2>4. /\ Carried(rates[c], day) <= Carried(rates'[c], day)
        /\ \/ Carried(rates[c], day) = Null
           \/ Null < Carried(rates[c], day) /\ Carried(rates[c], day) <= day
        /\ \/ Carried(rates'[c], day) = Null
           \/ Null < Carried(rates'[c], day) /\ Carried(rates'[c], day) <= day
    BY <2>1, <2>2, <2>3, CarriedGrows
  <2> DEFINE x == Carried(rates[c], day)
             y == Carried(rates'[c], day)
  <2>5. x \in Int /\ y \in Int
    <3>1. ASSUME NEW days \in SUBSET Int PROVE Carried(days, day) \in Int
      <4>1. CASE \E d \in days : d <= day
        <5>1. Carried(days, day) \in days  BY <2>2, <4>1, CarriedIsLatest
        <5> QED  BY <5>1
      <4>2. CASE ~ \E d \in days : d <= day
        BY <4>2, NullBelow DEF Carried
      <4> QED  BY <4>1, <4>2
    <3>2. rates[c] \in SUBSET Int /\ rates'[c] \in SUBSET Int  BY <2>1
    <3> QED  BY <3>1, <3>2
  <2> HIDE DEF x, y
  <2>6. ~FxStale(c, x, day) => ~FxStale(c, y, day)
    BY <2>2, <2>4, <2>5, NullBelow DEF FxStale, x, y
  <2> QED  BY <2>4, <2>6 DEF Stale, RateDate, x, y
<1>2. IInv /\ RInv /\ [Next]_vars =>
        [\A c \in Currency : rates'[c] # rates[c] =>
           \A day \in Days : /\ ~Stale(c, day) => ~Stale(c, day)'
                             /\ RateDate(c, day) <= RateDate(c, day)']_vars
  BY <1>1
<1> QED  BY <1>2, RatesCovered, PTL DEF Spec, RollupOnlyImproves

(* The rate carried to a day in a hole is older than the day by no more than   *)
(* what NBU leaves out, or by no more than the days by which the longest       *)
(* outage exceeded the trailing window and what NBU left out at both its ends. *)
THEOREM CarriedRatesAge == Spec => []CarriedRateAge
<1>1. ASSUME IInv, RInv, NEW c \in Currency, NEW day \in Hole(c)
      PROVE  \/ day - RateDate(c, day) <= Gap
             \/ day - RateDate(c, day) <= outage[c] - (Lookback + 1) + 2 * Gap
  <2>1. /\ rates[c] \in SUBSET Int /\ outage[c] \in Nat /\ day \in Int
        /\ (\E e \in rates[c] : e < day) /\ (\E e \in rates[c] : day < e)
    BY <1>1 DEF IInv, TypeOK, Day, Hole, Days
  <2>2. PICK e \in rates[c] : Near(day, e, outage[c])
    <3>1. Covered(rates[c], latest[c], outage[c])  BY <1>1 DEF RInv
    <3> QED  BY <2>1, <3>1 DEF Covered
  <2>3. e <= Carried(rates[c], day) /\ Carried(rates[c], day) \in Int
    BY <2>1, <2>2, CarriedIsLatest DEF Near
  <2>4. day - Carried(rates[c], day) <= day - e  BY <2>1, <2>3
  <2> QED  BY <2>1, <2>2, <2>3, <2>4 DEF RateDate, Near
<1>2. IInv /\ RInv => CarriedRateAge  BY <1>1 DEF CarriedRateAge
<1> QED  BY <1>2, RatesCovered, PTL
=============================================================================
