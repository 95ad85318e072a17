------------------------------ MODULE JobQueue ------------------------------
(***************************************************************************)
(* What the import_runs table promises, without accounts, windows, HTTP,    *)
(* ticks or processes: an at-least-once work queue with one worker.  A job  *)
(* is submitted once, held by at most one worker at a time, finished at     *)
(* most once, and a job whose worker vanished is found again only by way of *)
(* the queue.  Scheduler implements this specification.                     *)
(***************************************************************************)
EXTENDS Naturals

CONSTANT Job   \* identifiers of import_runs rows

VARIABLES
  waiting,     \* rows with status 'pending'
  current,     \* the row the running tick has claimed, at most one
  abandoned,   \* rows left 'in_flight' by a tick that is gone
  finished     \* rows with status 'done' or 'error'

vars == <<waiting, current, abandoned, finished>>

Submitted == waiting \cup current \cup abandoned \cup finished

Init == /\ waiting = {}
        /\ current = {}
        /\ abandoned = {}
        /\ finished = {}

(* POST /api/import, POST /api/backfill or the tick inserts rows. *)
Submit == \E new \in SUBSET (Job \ Submitted) :
            /\ new # {}
            /\ waiting' = waiting \cup new
            /\ UNCHANGED <<current, abandoned, finished>>

(* A tick claims one row, and only when it holds none. *)
Take == \E j \in waiting :
          /\ current = {}
          /\ current' = {j}
          /\ waiting' = waiting \ {j}
          /\ UNCHANGED <<abandoned, finished>>

(* The holder, and nobody else, finishes the row. *)
Finish == /\ current # {}
          /\ finished' = finished \cup current
          /\ current' = {}
          /\ UNCHANGED <<waiting, abandoned>>

(* The holder disappears: the process died or its last write failed. *)
Abandon == /\ current # {}
           /\ abandoned' = abandoned \cup current
           /\ current' = {}
           /\ UNCHANGED <<waiting, finished>>

(* The recovery sweep returns some abandoned rows, never the held one. *)
Requeue == \E back \in SUBSET abandoned :
             /\ back # {}
             /\ waiting' = waiting \cup back
             /\ abandoned' = abandoned \ back
             /\ UNCHANGED <<current, finished>>

Next == Submit \/ Take \/ Finish \/ Abandon \/ Requeue

Spec == Init /\ [][Next]_vars
=============================================================================
