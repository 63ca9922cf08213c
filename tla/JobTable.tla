------------------------------ MODULE JobTable ------------------------------
(***************************************************************************)
(* The background_jobs table of PostgreSQL: what each statement of the     *)
(* repository (internal/jobs/infrastructure/postgres/jobs.go) does to the  *)
(* row of one job.  The control plane and the job worker both write this   *)
(* table, and its WHERE clauses are all that orders their writes.          *)
(*                                                                         *)
(* A row keeps the columns that decide something: status, current_attempt  *)
(* and max_attempts.  Timestamps, messages and results are left out.  A    *)
(* job without a row has the status "absent".                              *)
(***************************************************************************)
EXTENDS Integers

FinalStatuses == {"succeeded", "failed"}

OpenStatuses == {"publishing", "publish_failed", "queued", "processing", "retrying"}

RowStatuses == OpenStatuses \cup FinalStatuses

Row == [status : RowStatuses \cup {"absent"}, attempt : Nat, max : Nat]

NoRow == [status |-> "absent", attempt |-> 0, max |-> 0]

Final(r) == r.status \in FinalStatuses

(* Mutant: current_attempt is not capped by max_attempts.                  *)
UncappedAttempt(a, b) == a

Least(a, b) == IF a <= b THEN a ELSE b

-----------------------------------------------------------------------------
(* Statements of the control plane.                                        *)

(* INSERT of the row NewPublishingJob builds.                              *)
CreateJob(max) == [status |-> "publishing", attempt |-> 0, max |-> max]

(* Mutant: the update does not look at the status.                         *)
MarkQueuedAlways(r) == [r EXCEPT !.status = "queued"]

MarkQueued(r) ==
  IF r.status = "publishing" THEN [r EXCEPT !.status = "queued"] ELSE r

MarkSubmissionFailed(r) ==
  IF r.status = "publishing" THEN [r EXCEPT !.status = "publish_failed"] ELSE r

-----------------------------------------------------------------------------
(* Statements of the job worker.                                           *)

(* Mutant: the upsert has no WHERE clause.                                 *)
PrepareAttemptAlways(r, attempt, max) ==
  [status |-> "processing", attempt |-> Least(attempt, max), max |-> max]

(* INSERT ... ON CONFLICT DO UPDATE ... WHERE status NOT IN (final).       *)
PrepareAttempt(r, attempt, max) ==
  IF r.status = "absent"
  THEN [status |-> "processing", attempt |-> Least(attempt, max), max |-> max]
  ELSE IF Final(r) THEN r
  ELSE [r EXCEPT !.status = "processing", !.attempt = Least(attempt, r.max)]

(* The three statements that close an attempt return the id of the row     *)
(* they match, and the repository turns "no row" into an error             *)
(* (scanRequiredID).                                                       *)
OpenRow(r) == r.status \in OpenStatuses

MatchesMark(r, status) ==
  IF status = "failed" THEN r.status \notin {"absent", "succeeded"} ELSE OpenRow(r)

Mark(r, status, attempt) ==
  IF MatchesMark(r, status)
  THEN [r EXCEPT !.status = status, !.attempt = Least(attempt, r.max)]
  ELSE r
=============================================================================
