-------------------------------- MODULE Jobs --------------------------------
(***************************************************************************)
(* The background-job pipeline: a control-plane request records a job,     *)
(* publishes its envelope to a RabbitMQ quorum queue and waits for the     *)
(* confirmation; job workers take deliveries from the queue, record every  *)
(* attempt in background_jobs, run the job and settle the delivery.        *)
(*                                                                         *)
(* The three actors share two things only: the rows of background_jobs     *)
(* (module JobTable) and the broker's messages.  A job has one request     *)
(* and one message: ids are random and nothing publishes a job twice.      *)
(*                                                                         *)
(* What fails: a statement (applied or not, the caller sees an error), a   *)
(* client that goes away (its request context is cancelled), the           *)
(* publisher's channel, a worker's connection, either process.  MaxFaults  *)
(* bounds the failures of one behaviour.                                   *)
(***************************************************************************)
EXTENDS Integers, Sequences, FiniteSets, JobTable

CONSTANTS
  Jobs,                 \* ids of jobs
  Foreign,              \* those whose message does not come from the control plane
  Workers,              \* job worker processes
  NoJob, NoWorker,
  Requested,            \* values of max_attempts a client may send
  DefaultMaxAttempts,   \* 5 in the code
  MaxMaxAttempts,       \* 10 in the code
  Prefetch,             \* JOBS_WORKER_PREFETCH
  MaxFaults

ASSUME NoJobAssumption == NoJob \notin Jobs
ASSUME ForeignAssumption == Foreign \subseteq Jobs
ASSUME NoWorkerAssumption == NoWorker \notin Workers
ASSUME WorkersAssumption == IsFiniteSet(Workers)
ASSUME AttemptsAssumption ==
  /\ Requested \subseteq Int
  /\ DefaultMaxAttempts \in Nat \ {0}
  /\ MaxMaxAttempts \in Nat
  /\ DefaultMaxAttempts <= MaxMaxAttempts
ASSUME BoundsAssumption == Prefetch \in Nat \ {0} /\ MaxFaults \in Nat

VARIABLES
  row,      \* background_jobs
  req,      \* the control-plane request that submits the job
  pub,      \* the control plane's Publisher: mutex holder, channel open
  msg,      \* the broker's message of the job
  policy,   \* the dead-letter and delayed-retry policy is on the queue
  wk,       \* per worker: program counter, connection, delivery in hand
  inbox,    \* per worker: deliveries prefetched and not yet taken
  faults,   \* failures so far
  runs,     \* per job: executions started (history)
  returns   \* per job: deliveries a lost connection returned (history)

tableVars  == row
submitVars == <<req, pub>>
brokerVars == <<msg, policy>>
workerVars == <<wk, inbox>>
histVars   == <<runs, returns>>
vars == <<row, req, pub, msg, policy, wk, inbox, faults, runs, returns>>

-----------------------------------------------------------------------------
Phases == {"idle", "create", "lock", "publish", "confirm",
           "markQueued", "markFailed", "done"}

Replies == {"none", "202", "400", "503", "lost"}

Places == {"none", "sent", "refused", "ready", "unacked", "acked", "dead", "dropped"}

(* The steps of Consumer.Run, handleDelivery and the worker's start.       *)
Counters == {"down", "starting", "idle", "snapshot", "upsert", "process",
             "persist", "ack", "reject", "requeue", "exit"}

Handling == {"snapshot", "upsert", "process", "persist", "ack", "reject", "requeue"}

Delivery == [job : Jobs, attempt : Nat \ {0}]

Request == [phase : Phases, max : Nat, cancelled : BOOLEAN,
            confirm : {"none", "acked", "nacked"}, reply : Replies]

Message == [place : Places, count : Nat, owner : Workers \cup {NoWorker},
            max : Nat, valid : BOOLEAN]

Worker == [pc : Counters, conn : BOOLEAN, job : Jobs \cup {NoJob},
           attempt : Nat, seen : RowStatuses \cup {"absent"},
           outcome : {"none", "succeeded", "failed", "retrying"},
           late : BOOLEAN]

Down == [pc |-> "down", conn |-> FALSE, job |-> NoJob, attempt |-> 0,
         seen |-> "absent", outcome |-> "none", late |-> FALSE]

Init ==
  /\ row = [j \in Jobs |-> NoRow]
  /\ req = [j \in Jobs |-> [phase |-> "idle", max |-> 0, cancelled |-> FALSE,
                            confirm |-> "none", reply |-> "none"]]
  /\ pub = [holder |-> NoJob, open |-> TRUE]
  /\ msg = [j \in Jobs |-> [place |-> "none", count |-> 0, owner |-> NoWorker,
                            max |-> 0, valid |-> TRUE]]
  /\ policy = FALSE
  /\ wk = [w \in Workers |-> Down]
  /\ inbox = [w \in Workers |-> <<>>]
  /\ faults = 0
  /\ runs = [j \in Jobs |-> 0]
  /\ returns = [j \in Jobs |-> 0]

Fault == faults < MaxFaults /\ faults' = faults + 1

NoFault == UNCHANGED faults

-----------------------------------------------------------------------------
(* The control plane: one request per job.                                 *)

At(j, phase) == [req[j] EXCEPT !.phase = phase]

Validated(j, max) == [req[j] EXCEPT !.phase = "create", !.max = max]

Answered(j, code) == [req[j] EXCEPT !.phase = "done", !.reply = code]

Cancelled(j) == [req[j] EXCEPT !.cancelled = TRUE]

ValidMaxAttempts(value) == value \in 0 .. MaxMaxAttempts

NormalizeMaxAttempts(value) == IF value = 0 THEN DefaultMaxAttempts ELSE value

(* A client posts a job; a payload or a number of attempts that does not   *)
(* pass validation is answered 400 before anything is kept.                *)
Submit(j) ==
  /\ j \notin Foreign
  /\ req[j].phase = "idle"
  /\ \E value \in Requested, payloadValid \in BOOLEAN :
       req' = [req EXCEPT ![j] =
                 IF payloadValid /\ ValidMaxAttempts(value)
                 THEN Validated(j, NormalizeMaxAttempts(value)) ELSE Answered(j, "400")]
  /\ UNCHANGED <<pub, tableVars, brokerVars, workerVars, faults, histVars>>

(* The client goes away while its request runs: the request's context,     *)
(* which every call of submit uses, is cancelled.                          *)
Cancel(j) ==
  /\ req[j].phase \notin {"idle", "done"}
  /\ ~req[j].cancelled
  /\ req' = [req EXCEPT ![j] = Cancelled(j)]
  /\ UNCHANGED <<pub, tableVars, brokerVars, workerVars, faults, histVars>>

(* A statement that fails, because its context is cancelled or because the *)
(* database call breaks; it may have been applied all the same.            *)
StatementFails(j, applied) ==
  /\ IF req[j].cancelled THEN NoFault ELSE Fault
  /\ row' \in {row, [row EXCEPT ![j] = applied]}

Create(j) ==
  /\ req[j].phase = "create"
  /\ \/ /\ ~req[j].cancelled
        /\ row' = [row EXCEPT ![j] = CreateJob(req[j].max)]
        /\ req' = [req EXCEPT ![j] = At(j, "lock")]
        /\ NoFault
     \/ /\ StatementFails(j, CreateJob(req[j].max))
        /\ req' = [req EXCEPT ![j] = Answered(j, "503")]
  /\ UNCHANGED <<pub, brokerVars, workerVars, histVars>>

(* Mutant: the mutex is not taken.                                         *)
PublishUnlocked(j) ==
  /\ req[j].phase = "lock"
  /\ req' = [req EXCEPT ![j] = At(j, "publish")]
  /\ UNCHANGED <<pub, tableVars, brokerVars, workerVars, faults, histVars>>

(* The message of a job, at a place of the broker.                         *)
Published(j, place, max, valid) ==
  [msg[j] EXCEPT !.place = place, !.max = max, !.valid = valid]

Put(j, place) == [msg[j] EXCEPT !.place = place, !.owner = NoWorker]

Held(j, w) == [msg[j] EXCEPT !.place = "unacked", !.owner = w]

Requeued(j, n) == [msg[j] EXCEPT !.place = "ready", !.owner = NoWorker, !.count = @ + n]

(* Publish takes the publisher's mutex; waiting for it ignores the context.*)
Lock(j) ==
  /\ req[j].phase = "lock"
  /\ pub.holder = NoJob
  /\ pub' = [pub EXCEPT !.holder = j]
  /\ req' = [req EXCEPT ![j] = At(j, "publish")]
  /\ UNCHANGED <<tableVars, brokerVars, workerVars, faults, histVars>>

(* Mutant: an early return forgets the mutex.                              *)
PublishReturnsLocked(j, phase) ==
  /\ req' = [req EXCEPT ![j] = At(j, phase)]
  /\ UNCHANGED pub

(* Publish returns and releases the mutex.                                 *)
PublishReturns(j, phase) ==
  /\ req' = [req EXCEPT ![j] = At(j, phase)]
  /\ pub' = [pub EXCEPT !.holder = NoJob]

Publish(j) ==
  /\ req[j].phase = "publish"
  /\ \/ /\ pub.open
        /\ msg' = [msg EXCEPT ![j] = Published(j, "sent", req[j].max, TRUE)]
        /\ req' = [req EXCEPT ![j] = At(j, "confirm")]
        /\ UNCHANGED pub
     \/ /\ ~pub.open
        /\ PublishReturns(j, "markFailed")
        /\ UNCHANGED msg
  /\ UNCHANGED <<tableVars, policy, workerVars, faults, histVars>>

(* Mutant: the submission does not wait for the confirmation.              *)
ConfirmedEarly(j) ==
  /\ req[j].phase = "confirm"
  /\ PublishReturns(j, "markQueued")
  /\ UNCHANGED <<tableVars, brokerVars, workerVars, faults, histVars>>

(* WaitContext: the confirmation, its refusal, the publish timeout, the    *)
(* cancelled request or the closed channel.  The timeout may always fire.  *)
Confirmed(j) ==
  /\ req[j].phase = "confirm"
  /\ req[j].confirm = "acked"
  /\ PublishReturns(j, "markQueued")
  /\ UNCHANGED <<tableVars, brokerVars, workerVars, faults, histVars>>

Unconfirmed(j) ==
  /\ req[j].phase = "confirm"
  /\ PublishReturns(j, "markFailed")
  /\ UNCHANGED <<tableVars, brokerVars, workerVars, faults, histVars>>

(* Both updates ignore their error: the answer depends on Publish alone.   *)
RecordAndAnswer(j, phase, updated, code) ==
  /\ req[j].phase = phase
  /\ \/ ~req[j].cancelled /\ NoFault /\ row' = [row EXCEPT ![j] = updated]
     \/ StatementFails(j, updated)
  /\ req' = [req EXCEPT ![j] = Answered(j, code)]
  /\ UNCHANGED <<pub, brokerVars, workerVars, histVars>>

RecordQueued(j) == RecordAndAnswer(j, "markQueued", MarkQueued(row[j]), "202")

RecordFailure(j) == RecordAndAnswer(j, "markFailed", MarkSubmissionFailed(row[j]), "503")

(* The channel closes; the Publisher never opens another one.              *)
PublisherLost ==
  /\ pub.open
  /\ Fault
  /\ pub' = [pub EXCEPT !.open = FALSE]
  /\ UNCHANGED <<req, tableVars, brokerVars, workerVars, histVars>>

(* The control plane dies with its requests and comes back connected.      *)
ControlPlaneRestart ==
  /\ Fault
  /\ req' = [j \in Jobs |-> IF req[j].phase \in {"idle", "done"} THEN req[j]
                            ELSE Answered(j, "lost")]
  /\ pub' = [holder |-> NoJob, open |-> TRUE]
  /\ UNCHANGED <<tableVars, brokerVars, workerVars, histVars>>

-----------------------------------------------------------------------------
(* The broker (RabbitMQ, external).                                        *)

(* Confirmations travel on the channel the request still waits on.         *)
WithConfirm(j, answer) == [req[j] EXCEPT !.confirm = answer]

Confirm(j, answer) ==
  req' = IF pub.open /\ req[j].phase = "confirm"
         THEN [req EXCEPT ![j] = WithConfirm(j, answer)] ELSE req

BrokerAccepts(j) ==
  /\ msg[j].place = "sent"
  /\ msg' = [msg EXCEPT ![j] = Put(j, "ready")]
  /\ Confirm(j, "acked")
  /\ UNCHANGED <<pub, tableVars, policy, workerVars, faults, histVars>>

BrokerRefuses(j) ==
  /\ msg[j].place = "sent"
  /\ msg' = [msg EXCEPT ![j] = Put(j, "refused")]
  /\ Confirm(j, "nacked")
  /\ UNCHANGED <<pub, tableVars, policy, workerVars, faults, histVars>>

(* Some other client of the exchange puts a message with this id on the    *)
(* queue: one the worker can decode, for a job without a row, or not.      *)
ForeignMessage(j) ==
  /\ j \in Foreign
  /\ msg[j].place = "none"
  /\ \E valid \in BOOLEAN :
       msg' = [msg EXCEPT ![j] = Published(j, "ready", DefaultMaxAttempts, valid)]
  /\ UNCHANGED <<submitVars, tableVars, policy, workerVars, faults, histVars>>

Unacked(w) == {j \in Jobs : msg[j].place = "unacked" /\ msg[j].owner = w}

(* A consumer holds at most Prefetch unsettled deliveries.  The attempt    *)
(* the worker will read is x-delivery-count + 1 (deliveryAttempt).         *)
Deliver(w, j) ==
  /\ wk[w].conn
  /\ wk[w].pc \notin {"down", "starting"}
  /\ msg[j].place = "ready"
  /\ Cardinality(Unacked(w)) < Prefetch
  /\ msg' = [msg EXCEPT ![j] = Held(j, w)]
  /\ inbox' = [inbox EXCEPT ![w] = Append(@, [job |-> j, attempt |-> msg[j].count + 1])]
  /\ UNCHANGED <<submitVars, tableVars, policy, wk, faults, histVars>>

(* The broker puts a worker's unsettled deliveries back on the queue.      *)
(* Whether a delivery lost this way counts in x-delivery-count is the      *)
(* broker's affair: both are allowed.                                      *)
ReturnUnacked(w) ==
  /\ \E counted \in {0, 1} :
       msg' = [j \in Jobs |->
                 IF j \in Unacked(w) THEN Requeued(j, counted) ELSE msg[j]]
  /\ returns' = [j \in Jobs |-> IF j \in Unacked(w) THEN returns[j] + 1 ELSE returns[j]]

-----------------------------------------------------------------------------
(* The job worker.                                                         *)

(* The states a worker moves to.                                           *)
Goto(w, pc) == [wk[w] EXCEPT !.pc = pc]

Connected(w) == [wk[w] EXCEPT !.pc = "starting", !.conn = TRUE]

Disconnected(w) == [wk[w] EXCEPT !.conn = FALSE]

Took(w, d, pc) == [wk[w] EXCEPT !.pc = pc, !.job = d.job, !.attempt = d.attempt,
                                !.late = Final(row[d.job])]

Saw(w, status) == [wk[w] EXCEPT !.pc = "upsert", !.seen = status]

Decided(w, outcome) == [wk[w] EXCEPT !.pc = "persist", !.outcome = outcome]

Idle(w) == [wk[w] EXCEPT !.pc = "idle", !.job = NoJob, !.attempt = 0,
                         !.seen = "absent", !.outcome = "none", !.late = FALSE]

(* Connect and declare the topology, then install the policy, then consume.*)
Start(w) ==
  /\ wk[w].pc = "down"
  /\ wk' = [wk EXCEPT ![w] = Connected(w)]
  /\ UNCHANGED <<submitVars, tableVars, brokerVars, inbox, faults, histVars>>

InstallPolicy(w) ==
  /\ wk[w].pc = "starting"
  /\ \/ NoFault /\ policy' = TRUE /\ wk' = [wk EXCEPT ![w] = Goto(w, "idle")]
     \/ Fault /\ policy' \in {policy, TRUE} /\ wk' = [wk EXCEPT ![w] = Goto(w, "exit")]
  /\ UNCHANGED <<submitVars, tableVars, msg, inbox, histVars>>

(* A malformed or invalid envelope is rejected at once.                    *)
AfterDecode(m) == IF m.valid THEN "snapshot" ELSE "reject"

(* Run receives the next delivery.  "late" remembers, for FinishedNotRerun,*)
(* that the job was already finished.                                      *)
Take(w) ==
  /\ wk[w].pc = "idle"
  /\ inbox[w] # <<>>
  /\ LET d == Head(inbox[w]) IN
       wk' = [wk EXCEPT ![w] = Took(w, d, AfterDecode(msg[d.job]))]
  /\ inbox' = [inbox EXCEPT ![w] = Tail(@)]
  /\ UNCHANGED <<submitVars, tableVars, brokerVars, faults, histVars>>

(* PrepareAttempt is one statement whose SELECT reads the snapshot taken   *)
(* when it starts, while its upsert acts on the row as it is by then.      *)
Snapshot(w) ==
  /\ wk[w].pc = "snapshot"
  /\ wk' = [wk EXCEPT ![w] = Saw(w, row[wk[w].job].status)]
  /\ UNCHANGED <<submitVars, tableVars, brokerVars, inbox, faults, histVars>>

Prepared(w) == PrepareAttempt(row[wk[w].job], wk[w].attempt, msg[wk[w].job].max)

(* Mutant: the worker trusts the upsert and ignores what it returned.      *)
UpsertedStatus(w) == "processing"

(* The status PrepareAttempt returns: the upserted one, else the snapshot's*)
PreparedStatus(w) == IF Final(row[wk[w].job]) THEN wk[w].seen ELSE "processing"

(* Mutant: a finished job is acknowledged, failed or not.                  *)
AckFinished(status) ==
  IF status \in FinalStatuses THEN "ack" ELSE "process"

AfterPrepare(status) ==
  CASE status = "succeeded" -> "ack"
    [] status = "failed"    -> "reject"
    [] status = "absent"    -> "exit"
    [] OTHER                -> "process"

Upsert(w) ==
  LET j == wk[w].job
      next == AfterPrepare(PreparedStatus(w))
  IN
  /\ wk[w].pc = "upsert"
  /\ \/ /\ NoFault
        /\ row' = [row EXCEPT ![j] = Prepared(w)]
        /\ wk' = [wk EXCEPT ![w] = Goto(w, next)]
        /\ runs' = [runs EXCEPT ![j] = IF next = "process" THEN @ + 1 ELSE @]
     \/ /\ Fault
        /\ row' \in {row, [row EXCEPT ![j] = Prepared(w)]}
        /\ wk' = [wk EXCEPT ![w] = Goto(w, "exit")]
        /\ UNCHANGED runs
  /\ UNCHANGED <<submitVars, brokerVars, inbox, returns>>

(* Mutant: one attempt too many.                                           *)
OutcomeOffByOne(w, result) ==
  IF result = "ok" THEN "succeeded"
  ELSE IF result = "permanent" \/ wk[w].attempt > msg[wk[w].job].max THEN "failed"
  ELSE "retrying"

(* What handleDelivery makes of the result of Process.                     *)
Outcome(w, result) ==
  IF result = "ok" THEN "succeeded"
  ELSE IF result = "permanent" \/ wk[w].attempt >= msg[wk[w].job].max THEN "failed"
  ELSE "retrying"

Process(w) ==
  /\ wk[w].pc = "process"
  /\ \E result \in {"ok", "permanent", "transient"} :
       wk' = [wk EXCEPT ![w] = Decided(w, Outcome(w, result))]
  /\ UNCHANGED <<submitVars, tableVars, brokerVars, inbox, faults, histVars>>

Settle(outcome) ==
  CASE outcome = "succeeded" -> "ack"
    [] outcome = "failed"    -> "reject"
    [] OTHER                 -> "requeue"

(* MarkSucceeded, MarkFailed or MarkRetrying; matching no row is an error, *)
(* and an error of any kind ends Run.                                      *)
Persist(w) ==
  LET j == wk[w].job
      marked == [row EXCEPT ![j] = Mark(row[j], wk[w].outcome, wk[w].attempt)]
  IN
  /\ wk[w].pc = "persist"
  /\ \/ /\ NoFault
        /\ row' = marked
        /\ wk' = [wk EXCEPT ![w] = Goto(w, IF MatchesMark(row[j], wk[w].outcome)
                                            THEN Settle(wk[w].outcome) ELSE "exit")]
     \/ /\ Fault
        /\ row' \in {row, marked}
        /\ wk' = [wk EXCEPT ![w] = Goto(w, "exit")]
  /\ UNCHANGED <<submitVars, brokerVars, inbox, histVars>>

(* Ack, Reject(false) and Reject(true).  On a lost connection the call     *)
(* fails, or succeeds when the loss is not noticed yet; the broker has     *)
(* returned the delivery already and hears nothing.                        *)
SettleDelivery(w, pc, settled) ==
  /\ wk[w].pc = pc
  /\ \/ /\ wk[w].conn
        /\ msg' = [msg EXCEPT ![wk[w].job] = settled]
        /\ wk' = [wk EXCEPT ![w] = Idle(w)]
     \/ /\ ~wk[w].conn
        /\ UNCHANGED msg
        /\ \/ wk' = [wk EXCEPT ![w] = Idle(w)]
           \/ wk' = [wk EXCEPT ![w] = Goto(w, "exit")]
  /\ UNCHANGED <<submitVars, tableVars, policy, inbox, faults, histVars>>

Ack(w) ==
  SettleDelivery(w, "ack", Put(wk[w].job, "acked"))

(* A rejected message goes to the dead-letter exchange the policy names.   *)
Reject(w) ==
  SettleDelivery(w, "reject", Put(wk[w].job, IF policy THEN "dead" ELSE "dropped"))

(* Delayed retry: the delay is arbitrary, the delivery is counted.         *)
Requeue(w) ==
  SettleDelivery(w, "requeue", Requeued(wk[w].job, 1))

(* The connection drops under a worker that goes on with what it holds.    *)
ConnectionLost(w) ==
  /\ wk[w].conn
  /\ wk[w].pc \notin {"down", "exit"}
  /\ Fault
  /\ ReturnUnacked(w)
  /\ wk' = [wk EXCEPT ![w] = Disconnected(w)]
  /\ UNCHANGED <<submitVars, tableVars, policy, inbox, runs>>

(* Run sees the closed channel (or finds its deliveries closed).           *)
NoticeClosed(w) ==
  /\ wk[w].pc = "idle"
  /\ ~wk[w].conn
  /\ wk' = [wk EXCEPT ![w] = Goto(w, "exit")]
  /\ UNCHANGED <<submitVars, tableVars, brokerVars, inbox, faults, histVars>>

(* The process ends: Close drops the connection and all it still held.     *)
Terminate(w) ==
  /\ ReturnUnacked(w)
  /\ wk' = [wk EXCEPT ![w] = Down]
  /\ inbox' = [inbox EXCEPT ![w] = <<>>]
  /\ UNCHANGED <<submitVars, tableVars, policy, runs>>

(* Mutant: Run has failed and the process stays up, still connected.       *)
Lingers(w) == wk[w].pc = "exit" /\ UNCHANGED vars

Exit(w) == wk[w].pc = "exit" /\ NoFault /\ Terminate(w)

(* A signal or a crash, at any point.                                      *)
Stop(w) == wk[w].pc \notin {"down", "exit"} /\ Fault /\ Terminate(w)

-----------------------------------------------------------------------------
RequestStep(j) ==
  \/ Create(j) \/ Lock(j) \/ Publish(j) \/ Confirmed(j) \/ Unconfirmed(j)
  \/ RecordQueued(j) \/ RecordFailure(j)

BrokerStep(j) == BrokerAccepts(j) \/ BrokerRefuses(j)

WorkerStep(w) ==
  \/ Start(w) \/ InstallPolicy(w) \/ Take(w) \/ Snapshot(w) \/ Upsert(w) \/ Process(w)
  \/ Persist(w) \/ Ack(w) \/ Reject(w) \/ Requeue(w) \/ NoticeClosed(w) \/ Exit(w)

Next ==
  \/ \E j \in Jobs : Submit(j) \/ Cancel(j) \/ RequestStep(j) \/ BrokerStep(j) \/ ForeignMessage(j)
  \/ \E w \in Workers : WorkerStep(w) \/ ConnectionLost(w) \/ Stop(w)
  \/ \E w \in Workers, j \in Jobs : Deliver(w, j)
  \/ PublisherLost
  \/ ControlPlaneRestart

(* Requests and workers are goroutines that keep running, PostgreSQL and   *)
(* RabbitMQ answer, the broker delivers what is ready to a connected       *)
(* consumer and a worker that stopped is restarted.  No fairness is        *)
(* assumed of clients or of failures.                                      *)
Fairness ==
  /\ \A j \in Jobs : /\ WF_vars(RequestStep(j))
                     /\ WF_vars(BrokerStep(j))
                     /\ WF_vars(\E w \in Workers : Deliver(w, j))
  /\ \A w \in Workers : WF_vars(WorkerStep(w))

Spec == Init /\ [][Next]_vars

FairSpec == Spec /\ Fairness

-----------------------------------------------------------------------------
(* Properties.                                                             *)

(* Every variable has its type, and a row respects the CHECK constraint of *)
(* the table: current_attempt never exceeds max_attempts.                  *)
TypeOK ==
  /\ row \in [Jobs -> Row]
  /\ \A j \in Jobs : row[j].attempt <= row[j].max
  /\ req \in [Jobs -> Request]
  /\ pub \in [holder : Jobs \cup {NoJob}, open : BOOLEAN]
  /\ msg \in [Jobs -> Message]
  /\ policy \in BOOLEAN
  /\ wk \in [Workers -> Worker]
  /\ inbox \in [Workers -> Seq(Delivery)]
  /\ faults \in 0 .. MaxFaults
  /\ runs \in [Jobs -> Nat]
  /\ returns \in [Jobs -> Nat]

(* A message leaves the queue only by the door its recorded status names:  *)
(* acknowledged means "succeeded" is in the table, dead-lettered means     *)
(* "failed" is (or nobody could decode it), and none is ever dropped, not  *)
(* even when two workers handled deliveries of the same job.               *)
SettledAsRecorded ==
  \A j \in Jobs :
    /\ msg[j].place = "acked" => row[j].status = "succeeded"
    /\ msg[j].place = "dead" /\ msg[j].valid => row[j].status = "failed"
    /\ msg[j].place # "dropped"

(* A job whose submission was answered 202 is never lost: its row exists   *)
(* and its message is on the queue, with a worker, or settled.             *)
AcceptedNotLost ==
  \A j \in Jobs : req[j].reply = "202" =>
    /\ row[j].status # "absent"
    /\ msg[j].place \in {"ready", "unacked", "acked", "dead"}

(* A delivery taken after its job had finished never executes the job      *)
(* again, whatever a slower worker wrote in the meantime.                  *)
FinishedNotRerun == \A w \in Workers : wk[w].pc = "process" => ~wk[w].late

(* A job is executed at most max_attempts times, and once more for each    *)
(* delivery that a lost connection or a stopped worker gave back.          *)
RunsWithinBudget ==
  \A j \in Jobs : msg[j].max > 0 => runs[j] <= msg[j].max + returns[j]

(* One request at a time is inside Publish: the deferred confirmations of  *)
(* the channel are awaited one by one, whatever returns or restarts.       *)
OnePublisher ==
  \A j, k \in Jobs : req[j].phase \in {"publish", "confirm"} /\ req[k].phase \in {"publish", "confirm"}
                     => j = k

(* The pipeline implements the lifecycle the API promises.                 *)
DeliveryOf(m) ==
  IF ~m.valid \/ m.place \in {"none", "sent", "refused"} THEN "none"
  ELSE IF m.place \in {"ready", "unacked"} THEN "pending"
  ELSE IF m.place = "acked" THEN "completed"
  ELSE m.place

Lifecycle == INSTANCE JobLifecycle WITH
  status <- [j \in Jobs |-> row[j].status],
  delivery <- [j \in Jobs |-> DeliveryOf(msg[j])]

ImplementsLifecycle == Lifecycle!Spec

(* With one worker the status moves only along the arrows of the README's  *)
(* diagram (and straight from publishing or publish_failed to processing,  *)
(* as its text says): no submission step that comes late takes it back.    *)
DiagramArrows == Lifecycle!Arrows \ {<<"retrying", "succeeded">>}

StatusFollowsDiagram ==
  [][\A j \in Jobs : \/ row'[j].status = row[j].status
                     \/ <<row[j].status, row'[j].status>> \in DiagramArrows]_vars

(* Every message the broker accepted is settled in the end, even when its  *)
(* confirmation was lost: no failure leaves it waiting for ever.           *)
QueuedIsSettled ==
  \A j \in Jobs : msg[j].place = "ready" ~> msg[j].place \in {"acked", "dead"}

(* Every submission is answered: no request waits for ever for the mutex   *)
(* or for a confirmation.                                                  *)
RequestsAnswered ==
  \A j \in Jobs : req[j].phase = "create" ~> req[j].phase = "done"

(* What README.md:524 says of an unconfirmed publication: the record gets  *)
(* publish_failed (or a worker has moved it on).                           *)
UnconfirmedIsMarked ==
  \A j \in Jobs : req[j].reply = "503" /\ msg[j].place # "none"
                    => row[j].status # "publishing"
=============================================================================
