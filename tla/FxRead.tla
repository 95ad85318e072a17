------------------------------- MODULE FxRead -------------------------------
(***************************************************************************)
(* The rates of FxSync as GET /api/transactions reads them: for a row of a   *)
(* currency and a day, the rate FxRollup carries forward to it.  The read is *)
(* one statement and changes nothing; what it shows depends on which fetches *)
(* have been saved, by which task, after which outages.                      *)
(***************************************************************************)
EXTENDS FxSync, FxRollup

(* Every day is a number above the one that stands for NULL.                  *)
ASSUME FxReadAssumption == Window < -Null

(* The days a row can be attributed to: those of the first window and those   *)
(* the program runs on.                                                       *)
Days == (FirstDay - Window)..LastDay

RateDate(c, day) == Carried(rates[c], day)
Stale(c, day)    == FxStale(c, RateDate(c, day), day)

(* A day between two rates without a rate of its own.                         *)
Hole(c) == {day \in Days \ rates[c] : /\ \E e \in rates[c] : e < day
                                      /\ \E e \in rates[c] : day < e}

-----------------------------------------------------------------------------
(* Properties *)

(* fx_stale and fx_rate_date of a row only get better: no late task, repeated  *)
(* bootstrap or restart takes away a rate a row has been shown with, or puts   *)
(* an older one in its place.                                                  *)
RollupOnlyImproves ==
  [][\A c \in Currency : rates'[c] # rates[c] =>
       \A day \in Days : /\ ~Stale(c, day) => ~Stale(c, day)'
                         /\ RateDate(c, day) <= RateDate(c, day)']_vars

(* How old a carried rate can be.  A rate carried into a hole is older than    *)
(* the row by no more than what NBU leaves out, or by no more than the days an *)
(* outage lasted beyond the trailing window, with what NBU leaves out at both  *)
(* ends: where it leaves out nothing, fetches no more than Lookback + 1 days   *)
(* apart leave no hole.                                                        *)
CarriedRateAge ==
  \A c \in Currency : \A day \in Hole(c) :
    \/ day - RateDate(c, day) <= Gap
    \/ day - RateDate(c, day) <= outage[c] - (Lookback + 1) + 2 * Gap
=============================================================================
