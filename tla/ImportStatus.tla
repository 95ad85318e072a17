---------------------------- MODULE ImportStatus ----------------------------
(***************************************************************************)
(* GET /api/import/status (api/routes_status.py): what the user is told of   *)
(* the tables of Scheduler.  The route changes nothing, so it is operators   *)
(* over the state, and the properties compare answers a poller of the route  *)
(* can get one after the other.  Names, texts and counts of items are left   *)
(* out; every account of the model is a card the query lists.                *)
(***************************************************************************)
EXTENDS Scheduler

NoPoll == 0   \* a card without a completed poll: ll.completed_at of the LEFT JOIN

(* Variant: the newest row, without WR-05's filter on status.                  *)
NewestPoll(c) == {r \in LiveRuns(c) : \A s \in LiveRuns(c) : s <= r}

(* last_live: DISTINCT ON over the terminal rows, completed_at DESC.           *)
LastPoll(c) ==
  LET ended == {r \in LiveRuns(c) : Terminal(runs[r])}
  IN {r \in ended : \A s \in ended : runs[s].completed <= runs[r].completed}

LastPolledAt(c) ==
  IF LastPoll(c) = {} THEN NoPoll ELSE runs[CHOOSE r \in LastPoll(c) : TRUE].completed

(* backfill_pending and backfill_total, summed over the cards by the handler   *)
BackfillRows  == {r \in Ids : runs[r].account \in accounts /\ runs[r].kind = "backfill"}
RunsTotal     == Cardinality(BackfillRows)
RunsRemaining == Cardinality({r \in BackfillRows : Active(runs[r])})
BackfillState == IF RunsRemaining > 0 THEN "running" ELSE "idle"

-----------------------------------------------------------------------------
(* Properties *)

(* routes_status.py:40-46 (WR-05): last_polled_at is the latest COMPLETED      *)
(* poll.  Whatever is enqueued, claimed, swept or lost between two requests,   *)
(* it never goes back and never disappears.                                    *)
LastPollNeverGoesBack ==
  [][\A c \in Account : LastPolledAt(c) <= LastPolledAt(c)']_vars

(* What the user watches a backfill by: rows that remain become more only by    *)
(* rows that are new, and "idle" turns into "running" for those only: never     *)
(* because of a restart, a sweep or a poll.                                     *)
BackfillOnlyProgresses ==
  [][/\ RunsRemaining' <= RunsRemaining + (RunsTotal' - RunsTotal)
     /\ BackfillState = "idle" /\ BackfillState' = "running" => RunsTotal < RunsTotal']_vars
=============================================================================
