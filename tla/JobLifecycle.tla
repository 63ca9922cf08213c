---------------------------- MODULE JobLifecycle ----------------------------
(***************************************************************************)
(* What the background-job API promises of one job, whoever writes its row *)
(* and however often its message is delivered: the recorded status only    *)
(* moves along the arrows below, a final status is never left, and the     *)
(* message leaves the queue once, by the door its status names: completed  *)
(* when it succeeded, dead-lettered when it failed.                        *)
(***************************************************************************)
CONSTANT Jobs

VARIABLES status, delivery

vars == <<status, delivery>>

(* The arrows of the job status.  A worker may meet a job before its       *)
(* submission is recorded as queued, or after it was recorded as           *)
(* publish_failed; retrying leads to an outcome directly when a second     *)
(* worker still runs the job.                                              *)
Arrows == {<<"absent", "publishing">>, <<"absent", "processing">>,
           <<"publishing", "queued">>, <<"publishing", "publish_failed">>,
           <<"publishing", "processing">>, <<"queued", "processing">>,
           <<"publish_failed", "processing">>,
           <<"processing", "retrying">>, <<"retrying", "processing">>,
           <<"processing", "succeeded">>, <<"processing", "failed">>,
           <<"retrying", "succeeded">>, <<"retrying", "failed">>}

Init ==
  /\ status = [j \in Jobs |-> "absent"]
  /\ delivery = [j \in Jobs |-> "none"]

Move(j) ==
  /\ \E arrow \in Arrows : /\ status[j] = arrow[1]
                           /\ status' = [status EXCEPT ![j] = arrow[2]]
  /\ UNCHANGED delivery

Enqueue(j) ==
  /\ delivery[j] = "none"
  /\ delivery' = [delivery EXCEPT ![j] = "pending"]
  /\ UNCHANGED status

Complete(j) ==
  /\ delivery[j] = "pending" /\ status[j] = "succeeded"
  /\ delivery' = [delivery EXCEPT ![j] = "completed"]
  /\ UNCHANGED status

DeadLetter(j) ==
  /\ delivery[j] = "pending" /\ status[j] = "failed"
  /\ delivery' = [delivery EXCEPT ![j] = "dead"]
  /\ UNCHANGED status

Next == \E j \in Jobs : Move(j) \/ Enqueue(j) \/ Complete(j) \/ DeadLetter(j)

Spec == Init /\ [][Next]_vars
=============================================================================
