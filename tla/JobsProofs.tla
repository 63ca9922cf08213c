----------------------------- MODULE JobsProofs -----------------------------
(***************************************************************************)
(* Proofs about the job pipeline, for every set of jobs and workers, every *)
(* limit on attempts and any number of failures: types, the publisher's    *)
(* mutex, and the moves of a worker, on which JobsRefinement builds.       *)
(***************************************************************************)
EXTENDS Jobs, TLAPS

(* What one statement of the table makes of a row is again a row that      *)
(* respects the CHECK constraint.                                          *)
LEMMA TableTypes ==
  ASSUME NEW r \in Row, r.attempt <= r.max,
         NEW attempt \in Nat, NEW max \in Nat,
         NEW status \in {"succeeded", "failed", "retrying"}
  PROVE  /\ CreateJob(max) \in Row /\ CreateJob(max).attempt <= CreateJob(max).max
         /\ MarkQueued(r) \in Row /\ MarkQueued(r).attempt <= MarkQueued(r).max
         /\ MarkSubmissionFailed(r) \in Row
         /\ MarkSubmissionFailed(r).attempt <= MarkSubmissionFailed(r).max
         /\ PrepareAttempt(r, attempt, max) \in Row
         /\ PrepareAttempt(r, attempt, max).attempt <= PrepareAttempt(r, attempt, max).max
         /\ Mark(r, status, attempt) \in Row
         /\ Mark(r, status, attempt).attempt <= Mark(r, status, attempt).max
<1>1. CreateJob(max) \in Row /\ CreateJob(max).attempt <= CreateJob(max).max
  BY DEF CreateJob, Row, RowStatuses, OpenStatuses
<1>2. MarkQueued(r) \in Row /\ MarkQueued(r).attempt <= MarkQueued(r).max
  BY DEF MarkQueued, Row, RowStatuses, OpenStatuses
<1>3. /\ MarkSubmissionFailed(r) \in Row
      /\ MarkSubmissionFailed(r).attempt <= MarkSubmissionFailed(r).max
  BY DEF MarkSubmissionFailed, Row, RowStatuses, OpenStatuses
<1>4. /\ PrepareAttempt(r, attempt, max) \in Row
      /\ PrepareAttempt(r, attempt, max).attempt <= PrepareAttempt(r, attempt, max).max
  <2>1. /\ Least(attempt, max) \in Nat /\ Least(attempt, max) <= max
        /\ Least(attempt, r.max) \in Nat /\ Least(attempt, r.max) <= r.max
    BY DEF Least, Row
  <2>2. CASE r.status = "absent"
    BY <2>1, <2>2, Zenon DEF PrepareAttempt, Row, RowStatuses, OpenStatuses
  <2>3. CASE r.status # "absent" /\ Final(r)
    BY <2>3 DEF PrepareAttempt
  <2>4. CASE r.status # "absent" /\ ~Final(r)
    BY <2>1, <2>4, Zenon DEF PrepareAttempt, Row, RowStatuses, OpenStatuses
  <2> QED BY <2>2, <2>3, <2>4
<1>5. /\ Mark(r, status, attempt) \in Row
      /\ Mark(r, status, attempt).attempt <= Mark(r, status, attempt).max
  <2>1. Least(attempt, r.max) \in Nat /\ Least(attempt, r.max) <= r.max
    BY DEF Least, Row
  <2>2. CASE MatchesMark(r, status)
    BY <2>1, <2>2, Zenon DEF Mark, Row, RowStatuses, OpenStatuses, FinalStatuses
  <2>3. CASE ~MatchesMark(r, status)
    BY <2>3 DEF Mark
  <2> QED BY <2>2, <2>3
<1> QED BY <1>1, <1>2, <1>3, <1>4, <1>5, Zenon

(* What taking the first delivery of an inbox, or adding one, leaves of it.*)
LEMMA TakeFirst ==
  ASSUME NEW S, NEW s \in Seq(S), s # <<>>
  PROVE  /\ Head(s) \in S /\ Tail(s) \in Seq(S)
         /\ Head(s) = s[1] /\ 1 \in 1 .. Len(s)
         /\ \A i \in 1 .. Len(Tail(s)) : i + 1 \in 1 .. Len(s) /\ Tail(s)[i] = s[i + 1]
OBVIOUS

(* A delivery that is appended comes last, and the others stay in place.   *)
LEMMA AddLast ==
  ASSUME NEW S, NEW s \in Seq(S), NEW d \in S
  PROVE  /\ Append(s, d) \in Seq(S)
         /\ Len(Append(s, d)) = Len(s) + 1 /\ Len(s) \in Nat
         /\ \A i \in 1 .. Len(s) : Append(s, d)[i] = s[i]
         /\ Append(s, d)[Len(s) + 1] = d
OBVIOUS

(* The records an action writes: their type and their fields.              *)
LEMMA WorkerRecords ==
  ASSUME wk \in [Workers -> Worker], NEW w \in Workers
  PROVE  /\ Down \in Worker /\ Down.pc = "down" /\ Down.conn = FALSE
         /\ Idle(w) \in Worker /\ Idle(w).pc = "idle" /\ Idle(w).conn = wk[w].conn
         /\ Connected(w) \in Worker /\ Connected(w).pc = "starting"
         /\ Disconnected(w) \in Worker /\ Disconnected(w).conn = FALSE
         /\ Disconnected(w).pc = wk[w].pc /\ Disconnected(w).job = wk[w].job
         /\ Disconnected(w).attempt = wk[w].attempt /\ Disconnected(w).seen = wk[w].seen
         /\ Disconnected(w).outcome = wk[w].outcome /\ Disconnected(w).late = wk[w].late
<1>1. wk[w] \in Worker
  OBVIOUS
<1> QED BY <1>1, Zenon DEF Down, Idle, Connected, Disconnected, Worker, Counters, RowStatuses

(* A step to another place changes nothing else a worker holds.            *)
LEMMA GotoRecord ==
  ASSUME wk \in [Workers -> Worker], NEW w \in Workers, NEW c \in Counters
  PROVE  /\ Goto(w, c) \in Worker
         /\ Goto(w, c).pc = c
         /\ Goto(w, c).conn = wk[w].conn /\ Goto(w, c).job = wk[w].job
         /\ Goto(w, c).attempt = wk[w].attempt /\ Goto(w, c).seen = wk[w].seen
         /\ Goto(w, c).outcome = wk[w].outcome /\ Goto(w, c).late = wk[w].late
<1>1. wk[w] \in Worker
  OBVIOUS
<1> QED BY <1>1 DEF Goto, Worker

(* What a worker holds once it has taken a delivery (handleDelivery).      *)
LEMMA TookRecord ==
  ASSUME wk \in [Workers -> Worker], NEW w \in Workers, NEW c \in Counters, NEW d \in Delivery
  PROVE  /\ Took(w, d, c) \in Worker
         /\ Took(w, d, c).pc = c
         /\ Took(w, d, c).conn = wk[w].conn /\ Took(w, d, c).job = d.job
         /\ Took(w, d, c).attempt = d.attempt /\ Took(w, d, c).late = Final(row[d.job])
<1>1. wk[w] \in Worker /\ d.job \in Jobs /\ d.attempt \in Nat
  BY DEF Delivery
<1>2. Final(row[d.job]) \in BOOLEAN
  BY DEF Final
<1> QED BY <1>1, <1>2, Zenon DEF Took, Worker

(* What a worker holds once it has read the status of the job.             *)
LEMMA SawRecord ==
  ASSUME wk \in [Workers -> Worker], NEW w \in Workers, NEW x \in RowStatuses \cup {"absent"}
  PROVE  /\ Saw(w, x) \in Worker
         /\ Saw(w, x).pc = "upsert" /\ Saw(w, x).seen = x
         /\ Saw(w, x).conn = wk[w].conn /\ Saw(w, x).job = wk[w].job
         /\ Saw(w, x).attempt = wk[w].attempt /\ Saw(w, x).late = wk[w].late
<1>1. wk[w] \in Worker
  OBVIOUS
<1> QED BY <1>1, Zenon DEF Saw, Worker, Counters

(* What a worker holds once the job has ended in some outcome.             *)
LEMMA DecidedRecord ==
  ASSUME wk \in [Workers -> Worker], NEW w \in Workers, NEW x \in {"succeeded", "failed", "retrying"}
  PROVE  /\ Decided(w, x) \in Worker
         /\ Decided(w, x).pc = "persist" /\ Decided(w, x).outcome = x
         /\ Decided(w, x).conn = wk[w].conn /\ Decided(w, x).job = wk[w].job
         /\ Decided(w, x).attempt = wk[w].attempt /\ Decided(w, x).late = wk[w].late
<1>1. wk[w] \in Worker
  OBVIOUS
<1> QED BY <1>1, Zenon DEF Decided, Worker, Counters

(* What publication, delivery and return make of a message.                *)
LEMMA MessageRecords ==
  ASSUME msg \in [Jobs -> Message], NEW j \in Jobs, NEW x \in Places
  PROVE  /\ Put(j, x) \in Message
         /\ Put(j, x).place = x /\ Put(j, x).owner = NoWorker
         /\ Put(j, x).max = msg[j].max /\ Put(j, x).valid = msg[j].valid
         /\ \A n \in Nat, b \in BOOLEAN :
              /\ Published(j, x, n, b) \in Message
              /\ Published(j, x, n, b).place = x /\ Published(j, x, n, b).valid = b
              /\ Published(j, x, n, b).max = n /\ Published(j, x, n, b).owner = msg[j].owner
         /\ \A w \in Workers :
              /\ Held(j, w) \in Message
              /\ Held(j, w).place = "unacked" /\ Held(j, w).owner = w
              /\ Held(j, w).max = msg[j].max /\ Held(j, w).valid = msg[j].valid
         /\ \A n \in Nat :
              /\ Requeued(j, n) \in Message
              /\ Requeued(j, n).place = "ready" /\ Requeued(j, n).owner = NoWorker
              /\ Requeued(j, n).max = msg[j].max /\ Requeued(j, n).valid = msg[j].valid
<1>1. msg[j] \in Message
  OBVIOUS
<1>2. /\ Put(j, x) \in Message
      /\ Put(j, x).place = x /\ Put(j, x).owner = NoWorker
      /\ Put(j, x).max = msg[j].max /\ Put(j, x).valid = msg[j].valid
  BY <1>1, Zenon DEF Put, Message
<1>3. ASSUME NEW n \in Nat, NEW b \in BOOLEAN
      PROVE  /\ Published(j, x, n, b) \in Message
             /\ Published(j, x, n, b).place = x /\ Published(j, x, n, b).valid = b
             /\ Published(j, x, n, b).max = n /\ Published(j, x, n, b).owner = msg[j].owner
  BY <1>1, Zenon DEF Published, Message
<1>4. ASSUME NEW w \in Workers
      PROVE  /\ Held(j, w) \in Message
             /\ Held(j, w).place = "unacked" /\ Held(j, w).owner = w
             /\ Held(j, w).max = msg[j].max /\ Held(j, w).valid = msg[j].valid
  BY <1>1, Zenon DEF Held, Message, Places
<1>5. ASSUME NEW n \in Nat
      PROVE  /\ Requeued(j, n) \in Message
             /\ Requeued(j, n).place = "ready" /\ Requeued(j, n).owner = NoWorker
             /\ Requeued(j, n).max = msg[j].max /\ Requeued(j, n).valid = msg[j].valid
  <2>1. msg[j].count + n \in Nat
    BY <1>1 DEF Message
  <2> QED BY <1>1, <2>1, Zenon DEF Requeued, Message, Places
<1> QED BY <1>2, <1>3, <1>4, <1>5, Zenon

(* What each step of submit makes of its request.                          *)
LEMMA RequestRecords ==
  ASSUME req \in [Jobs -> Request], NEW j \in Jobs
  PROVE  /\ \A x \in Phases :
              /\ At(j, x) \in Request /\ At(j, x).phase = x
              /\ At(j, x).max = req[j].max /\ At(j, x).confirm = req[j].confirm
              /\ At(j, x).reply = req[j].reply
         /\ \A n \in Nat :
              /\ Validated(j, n) \in Request /\ Validated(j, n).phase = "create"
              /\ Validated(j, n).confirm = req[j].confirm /\ Validated(j, n).reply = req[j].reply
         /\ \A x \in Replies :
              /\ Answered(j, x) \in Request /\ Answered(j, x).phase = "done"
              /\ Answered(j, x).confirm = req[j].confirm /\ Answered(j, x).reply = x
         /\ Cancelled(j) \in Request /\ Cancelled(j).phase = req[j].phase
         /\ Cancelled(j).confirm = req[j].confirm /\ Cancelled(j).reply = req[j].reply
         /\ \A x \in {"acked", "nacked"} :
              /\ WithConfirm(j, x) \in Request /\ WithConfirm(j, x).phase = req[j].phase
              /\ WithConfirm(j, x).confirm = x /\ WithConfirm(j, x).reply = req[j].reply
<1>1. req[j] \in Request
  OBVIOUS
<1>2. ASSUME NEW x \in Phases
      PROVE  /\ At(j, x) \in Request /\ At(j, x).phase = x
             /\ At(j, x).max = req[j].max /\ At(j, x).confirm = req[j].confirm
             /\ At(j, x).reply = req[j].reply
  BY <1>1 DEF At, Request
<1>3. ASSUME NEW n \in Nat
      PROVE  /\ Validated(j, n) \in Request /\ Validated(j, n).phase = "create"
             /\ Validated(j, n).confirm = req[j].confirm /\ Validated(j, n).reply = req[j].reply
  BY <1>1, Zenon DEF Validated, Request, Phases
<1>4. ASSUME NEW x \in Replies
      PROVE  /\ Answered(j, x) \in Request /\ Answered(j, x).phase = "done"
             /\ Answered(j, x).confirm = req[j].confirm /\ Answered(j, x).reply = x
  BY <1>1, Zenon DEF Answered, Request, Phases
<1>5. /\ Cancelled(j) \in Request /\ Cancelled(j).phase = req[j].phase
      /\ Cancelled(j).confirm = req[j].confirm /\ Cancelled(j).reply = req[j].reply
  BY <1>1, Zenon DEF Cancelled, Request
<1>6. ASSUME NEW x \in {"acked", "nacked"}
      PROVE  /\ WithConfirm(j, x) \in Request /\ WithConfirm(j, x).phase = req[j].phase
             /\ WithConfirm(j, x).confirm = x /\ WithConfirm(j, x).reply = req[j].reply
  BY <1>1 DEF WithConfirm, Request
<1> QED BY <1>2, <1>3, <1>4, <1>5, <1>6, Zenon

(* A worker that handles a delivery has a job in hand, and an outcome when *)
(* it comes to record one.                                                 *)
HasDelivery ==
  \A w \in Workers : /\ wk[w].pc \in Handling => wk[w].job \in Jobs
                     /\ wk[w].pc = "persist" => wk[w].outcome # "none"

TypeInv == TypeOK /\ HasDelivery

(* The initial state has its types.                                        *)
LEMMA TypeInit == Init => TypeInv
<1> SUFFICES ASSUME Init PROVE TypeInv
  OBVIOUS
<1>1. NoRow \in Row /\ NoRow.attempt <= NoRow.max
  BY DEF NoRow, Row
<1>2. Down \in Worker
  BY DEF Down, Worker, Counters, RowStatuses
<1>3. [phase |-> "idle", max |-> 0, cancelled |-> FALSE, confirm |-> "none", reply |-> "none"] \in Request
  BY DEF Request, Phases, Replies
<1>4. [place |-> "none", count |-> 0, owner |-> NoWorker, max |-> 0, valid |-> TRUE] \in Message
  BY DEF Message, Places
<1>5. TypeOK
  <2>1. row \in [Jobs -> Row] /\ \A j \in Jobs : row[j].attempt <= row[j].max
    BY <1>1 DEF Init
  <2>2. req \in [Jobs -> Request] /\ msg \in [Jobs -> Message] /\ wk \in [Workers -> Worker]
    BY <1>2, <1>3, <1>4, Zenon DEF Init
  <2>3. pub \in [holder : Jobs \cup {NoJob}, open : BOOLEAN]
    BY DEF Init
  <2>4. inbox \in [Workers -> Seq(Delivery)]
    BY DEF Init
  <2>5. policy \in BOOLEAN
    BY Zenon DEF Init
  <2>6. faults \in 0 .. MaxFaults /\ runs \in [Jobs -> Nat] /\ returns \in [Jobs -> Nat]
    BY BoundsAssumption DEF Init
  <2> QED BY <2>1, <2>2, <2>3, <2>4, <2>5, <2>6, Zenon DEF TypeOK
<1>6. HasDelivery
  BY Zenon DEF Init, HasDelivery, Down, Handling
<1> QED BY <1>5, <1>6 DEF TypeInv

(* The type invariant is preserved by every step.                          *)
LEMMA TypeStep == TypeInv /\ [Next]_vars => TypeInv'
<1> SUFFICES ASSUME TypeInv, [Next]_vars PROVE TypeInv'
  OBVIOUS
<1>1. row \in [Jobs -> Row] /\ \A j \in Jobs : row[j].attempt <= row[j].max
  BY DEF TypeInv, TypeOK
<1>2. req \in [Jobs -> Request]
  BY DEF TypeInv, TypeOK
<1>3. pub \in [holder : Jobs \cup {NoJob}, open : BOOLEAN]
  BY DEF TypeInv, TypeOK
<1>4. msg \in [Jobs -> Message]
  BY DEF TypeInv, TypeOK
<1>5. wk \in [Workers -> Worker]
  BY DEF TypeInv, TypeOK
<1>6. inbox \in [Workers -> Seq(Delivery)]
  BY DEF TypeInv, TypeOK
<1>7. faults \in 0 .. MaxFaults /\ runs \in [Jobs -> Nat] /\ returns \in [Jobs -> Nat] /\ policy \in BOOLEAN
  BY Zenon DEF TypeInv, TypeOK
<1>8. \A w \in Workers : /\ wk[w].pc \in Handling => wk[w].job \in Jobs
                         /\ wk[w].pc = "persist" => wk[w].outcome # "none"
  BY DEF TypeInv, HasDelivery
<1>9. (Fault \/ NoFault) => faults' \in 0 .. MaxFaults
  BY <1>7, BoundsAssumption DEF Fault, NoFault
<1>99. ASSUME NEW w \in Workers, ReturnUnacked(w)
       PROVE  msg' \in [Jobs -> Message] /\ returns' \in [Jobs -> Nat]
  <2>1. msg' \in [Jobs -> Message]
    BY <1>99, <1>4, MessageRecords DEF ReturnUnacked, Places
  <2>2. returns' \in [Jobs -> Nat]
    BY <1>99, <1>7 DEF ReturnUnacked
  <2> QED BY <2>1, <2>2, Zenon
<1>10. ASSUME NEW j \in Jobs, Submit(j) PROVE TypeInv'
  <2>1. req' \in [Jobs -> Request]
    BY <1>10, <1>2, RequestRecords, AttemptsAssumption
    DEF Submit, ValidMaxAttempts, NormalizeMaxAttempts, Phases, Replies
  <2> QED BY <2>1, <1>10, Zenon
    DEF TypeInv, TypeOK, HasDelivery, Submit, tableVars, submitVars, brokerVars, workerVars, histVars
<1>11. ASSUME NEW j \in Jobs, Cancel(j) PROVE TypeInv'
  <2>1. req' \in [Jobs -> Request]
    BY <1>11, <1>2, RequestRecords, Zenon DEF Cancel
  <2> QED BY <2>1, <1>11, Zenon
    DEF TypeInv, TypeOK, HasDelivery, Cancel, tableVars, submitVars, brokerVars, workerVars, histVars
<1>12. ASSUME NEW j \in Jobs, Create(j) PROVE TypeInv'
  <2>1. req' \in [Jobs -> Request]
    BY <1>12, <1>2, RequestRecords DEF Create, Phases, Replies
  <2>2. req[j].max \in Nat
    BY <1>2 DEF Request
  <2>3. row' \in [Jobs -> Row] /\ \A i \in Jobs : row'[i].attempt <= row'[i].max
    BY <1>12, <2>2, <1>1, TableTypes DEF Create, StatementFails
  <2>4. faults' \in 0 .. MaxFaults
    BY <1>12, <1>9, Zenon DEF Create, StatementFails
  <2> QED BY <2>1, <2>2, <2>3, <2>4, <1>12, Zenon
    DEF TypeInv, TypeOK, HasDelivery, Create, tableVars, submitVars, brokerVars, workerVars, histVars
<1>13. ASSUME NEW j \in Jobs, Lock(j) PROVE TypeInv'
  <2>1. req' \in [Jobs -> Request]
    BY <1>13, <1>2, RequestRecords, Zenon DEF Lock, Phases
  <2>2. pub' \in [holder : Jobs \cup {NoJob}, open : BOOLEAN]
    BY <1>13, <1>3, Zenon DEF Lock
  <2> QED BY <2>1, <2>2, <1>13, Zenon
    DEF TypeInv, TypeOK, HasDelivery, Lock, tableVars, submitVars, brokerVars, workerVars, histVars
<1>14. ASSUME NEW j \in Jobs, Publish(j) PROVE TypeInv'
  <2>1. req' \in [Jobs -> Request]
    <3>1. \/ req' = [req EXCEPT ![j] = At(j, "confirm")]
          \/ req' = [req EXCEPT ![j] = At(j, "markFailed")]
      BY <1>14, Zenon DEF Publish, PublishReturns
    <3>2. At(j, "confirm") \in Request /\ At(j, "markFailed") \in Request
      BY <1>2, RequestRecords, Zenon DEF Phases
    <3> QED BY <1>2, <3>1, <3>2
  <2>2. req[j].max \in Nat
    BY <1>2 DEF Request
  <2>3. Published(j, "sent", req[j].max, TRUE) \in Message
    <3>1. "sent" \in Places
      BY DEF Places
    <3> QED BY <1>4, <2>2, <3>1, MessageRecords, Zenon
  <2>4. msg' \in [Jobs -> Message]
    BY <1>14, <2>3, <1>4, Zenon DEF Publish
  <2>5. pub' \in [holder : Jobs \cup {NoJob}, open : BOOLEAN]
    BY <1>14, <1>3, Zenon DEF Publish, PublishReturns
  <2> QED BY <2>1, <2>2, <2>3, <2>4, <2>5, <1>14, Zenon
    DEF TypeInv, TypeOK, HasDelivery, Publish, tableVars, submitVars, brokerVars, workerVars, histVars
<1>15. ASSUME NEW j \in Jobs, Confirmed(j) PROVE TypeInv'
  <2>1. req' \in [Jobs -> Request]
    BY <1>15, <1>2, RequestRecords, Zenon DEF Confirmed, PublishReturns, Phases
  <2>2. pub' \in [holder : Jobs \cup {NoJob}, open : BOOLEAN]
    BY <1>15, <1>3, Zenon DEF Confirmed, PublishReturns
  <2> QED BY <2>1, <2>2, <1>15, Zenon
    DEF TypeInv, TypeOK, HasDelivery, Confirmed, tableVars, submitVars, brokerVars, workerVars, histVars
<1>16. ASSUME NEW j \in Jobs, Unconfirmed(j) PROVE TypeInv'
  <2>1. req' \in [Jobs -> Request]
    BY <1>16, <1>2, RequestRecords, Zenon DEF Unconfirmed, PublishReturns, Phases
  <2>2. pub' \in [holder : Jobs \cup {NoJob}, open : BOOLEAN]
    BY <1>16, <1>3 DEF Unconfirmed, PublishReturns
  <2> QED BY <2>1, <2>2, <1>16, Zenon
    DEF TypeInv, TypeOK, HasDelivery, Unconfirmed, tableVars, submitVars, brokerVars, workerVars, histVars
<1>17. ASSUME NEW j \in Jobs, RecordQueued(j) PROVE TypeInv'
  <2>1. req' \in [Jobs -> Request]
    BY <1>17, <1>2, RequestRecords, Zenon DEF RecordQueued, RecordAndAnswer, Replies
  <2>2. row' \in [Jobs -> Row] /\ \A i \in Jobs : row'[i].attempt <= row'[i].max
    <3>1. row' = row \/ row' = [row EXCEPT ![j] = MarkQueued(row[j])]
      BY <1>17 DEF RecordQueued, RecordAndAnswer, StatementFails
    <3>2. MarkQueued(row[j]) \in Row /\ MarkQueued(row[j]).attempt <= MarkQueued(row[j]).max
      BY <1>1, TableTypes, Zenon
    <3> QED BY <1>1, <3>1, <3>2, Zenon
  <2>3. faults' \in 0 .. MaxFaults
    BY <1>17, <1>9 DEF RecordQueued, RecordAndAnswer, StatementFails
  <2> QED BY <2>1, <2>2, <2>3, <1>17, Zenon
    DEF TypeInv, TypeOK, HasDelivery, RecordQueued, RecordAndAnswer, tableVars, submitVars, brokerVars, workerVars, histVars
<1>18. ASSUME NEW j \in Jobs, RecordFailure(j) PROVE TypeInv'
  <2>1. req' \in [Jobs -> Request]
    BY <1>18, <1>2, RequestRecords, Zenon DEF RecordFailure, RecordAndAnswer, Replies
  <2>2. row' \in [Jobs -> Row] /\ \A i \in Jobs : row'[i].attempt <= row'[i].max
    <3>1. row' = row \/ row' = [row EXCEPT ![j] = MarkSubmissionFailed(row[j])]
      BY <1>18 DEF RecordFailure, RecordAndAnswer, StatementFails
    <3>2. MarkSubmissionFailed(row[j]) \in Row /\ MarkSubmissionFailed(row[j]).attempt <= MarkSubmissionFailed(row[j]).max
      BY <1>1, TableTypes
    <3> QED BY <1>1, <3>1, <3>2, Zenon
  <2>3. faults' \in 0 .. MaxFaults
    BY <1>18, <1>9 DEF RecordFailure, RecordAndAnswer, StatementFails
  <2> QED BY <2>1, <2>2, <2>3, <1>18, Zenon
    DEF TypeInv, TypeOK, HasDelivery, RecordFailure, RecordAndAnswer, tableVars, submitVars, brokerVars, workerVars, histVars
<1>19. ASSUME NEW j \in Jobs, BrokerAccepts(j) PROVE TypeInv'
  <2>1. req' \in [Jobs -> Request]
    BY <1>19, <1>2, RequestRecords, Zenon DEF BrokerAccepts, Confirm
  <2>2. msg' \in [Jobs -> Message]
    BY <1>19, <1>4, MessageRecords, Zenon DEF BrokerAccepts, Places
  <2> QED BY <2>1, <2>2, <1>19, Zenon
    DEF TypeInv, TypeOK, HasDelivery, BrokerAccepts, tableVars, submitVars, brokerVars, workerVars, histVars
<1>20. ASSUME NEW j \in Jobs, BrokerRefuses(j) PROVE TypeInv'
  <2>1. req' \in [Jobs -> Request]
    BY <1>20, <1>2, RequestRecords, Zenon DEF BrokerRefuses, Confirm
  <2>2. msg' \in [Jobs -> Message]
    BY <1>20, <1>4, MessageRecords DEF BrokerRefuses, Places
  <2> QED BY <2>1, <2>2, <1>20, Zenon
    DEF TypeInv, TypeOK, HasDelivery, BrokerRefuses, tableVars, submitVars, brokerVars, workerVars, histVars
<1>21. ASSUME NEW j \in Jobs, ForeignMessage(j) PROVE TypeInv'
  <2>1. msg' \in [Jobs -> Message]
    BY <1>21, <1>4, MessageRecords, AttemptsAssumption DEF ForeignMessage, Places
  <2> QED BY <2>1, <1>21, Zenon
    DEF TypeInv, TypeOK, HasDelivery, ForeignMessage, tableVars, submitVars, brokerVars, workerVars, histVars
<1>22. ASSUME NEW w \in Workers, Start(w) PROVE TypeInv'
  <2>1. wk' \in [Workers -> Worker]
    BY <1>22, <1>5, WorkerRecords, Zenon DEF Start
  <2>2. HasDelivery'
    BY <1>22, <1>5, <1>8, WorkerRecords, Zenon DEF Start, Handling, HasDelivery
  <2> QED BY <2>1, <2>2, <1>22, Zenon
    DEF TypeInv, TypeOK, HasDelivery, Start, tableVars, submitVars, brokerVars, workerVars, histVars
<1>23. ASSUME NEW w \in Workers, InstallPolicy(w) PROVE TypeInv'
  <2>1. wk' = [wk EXCEPT ![w] = Goto(w, "idle")] \/ wk' = [wk EXCEPT ![w] = Goto(w, "exit")]
    BY <1>23, Zenon DEF InstallPolicy
  <2>2. /\ Goto(w, "idle") \in Worker /\ Goto(w, "exit") \in Worker
        /\ Goto(w, "idle").pc = "idle" /\ Goto(w, "exit").pc = "exit"
    BY <1>5, GotoRecord DEF Counters
  <2>3. wk' \in [Workers -> Worker]
    BY <2>1, <2>2, <1>5
  <2>4. HasDelivery'
    <3>1. \A v \in Workers : wk'[v] = wk[v] \/ wk'[v].pc \in {"idle", "exit"}
      BY <2>1, <2>2, <1>5
    <3> QED BY <3>1, <1>8 DEF Handling, HasDelivery
  <2>5. faults' \in 0 .. MaxFaults
    BY <1>23, <1>9, Zenon DEF InstallPolicy
  <2>6. policy' \in BOOLEAN
    BY <1>23, <1>7, Zenon DEF InstallPolicy
  <2> QED BY <2>3, <2>4, <2>5, <2>6, <1>23, Zenon
    DEF TypeInv, TypeOK, HasDelivery, InstallPolicy, tableVars, submitVars, brokerVars, workerVars, histVars
<1>24. ASSUME NEW w \in Workers, Take(w) PROVE TypeInv'
  <2>1. Head(inbox[w]) \in Delivery /\ Tail(inbox[w]) \in Seq(Delivery)
    BY <1>24, <1>6, TakeFirst, Zenon DEF Take
  <2>2. Head(inbox[w]).job \in Jobs /\ Head(inbox[w]).attempt \in Nat
    BY <2>1 DEF Delivery
  <2>3. PICK pc \in {"snapshot", "reject"} : wk' = [wk EXCEPT ![w] = Took(w, Head(inbox[w]), pc)]
    BY <1>24, Zenon DEF Take, AfterDecode
  <2>4. /\ Took(w, Head(inbox[w]), pc) \in Worker
        /\ Took(w, Head(inbox[w]), pc).job \in Jobs
        /\ Took(w, Head(inbox[w]), pc).pc # "persist"
    BY <2>1, <2>2, <1>5, TookRecord DEF Counters
  <2>5. wk' \in [Workers -> Worker]
    BY <2>3, <2>4, <1>5, Zenon
  <2>6. HasDelivery'
    BY <2>3, <2>4, <1>5, <1>8, Zenon DEF HasDelivery
  <2>7. inbox' \in [Workers -> Seq(Delivery)]
    BY <1>24, <2>1, <1>6, Zenon DEF Take
  <2>8. UNCHANGED <<row, req, pub, msg, policy, faults, runs, returns>>
    BY <1>24 DEF Take, tableVars, submitVars, brokerVars, histVars
  <2> QED BY <2>5, <2>6, <2>7, <2>8, Zenon DEF TypeInv, TypeOK
<1>25. ASSUME NEW w \in Workers, Snapshot(w) PROVE TypeInv'
  <2>1. wk[w].job \in Jobs
    BY <1>25, <1>8 DEF Snapshot, Handling
  <2>2. row[wk[w].job].status \in RowStatuses \cup {"absent"}
    BY <2>1, <1>1, Zenon DEF Row
  <2>3. wk' \in [Workers -> Worker]
    BY <1>25, <2>2, <1>5, SawRecord, Zenon DEF Snapshot
  <2>4. HasDelivery'
    BY <1>25, <2>1, <2>2, <1>5, <1>8, SawRecord DEF Snapshot, Handling, HasDelivery
  <2> QED BY <2>1, <2>2, <2>3, <2>4, <1>25, Zenon
    DEF TypeInv, TypeOK, HasDelivery, Snapshot, tableVars, submitVars, brokerVars, workerVars, histVars
<1>26. ASSUME NEW w \in Workers, Upsert(w) PROVE TypeInv'
  <2>1. wk[w].job \in Jobs
    BY <1>26, <1>8, Zenon DEF Upsert, Handling
  <2>2. wk[w].attempt \in Nat /\ msg[wk[w].job].max \in Nat
    BY <2>1, <1>4, <1>5, Zenon DEF Worker, Message
  <2>3. Prepared(w) \in Row /\ Prepared(w).attempt <= Prepared(w).max
    BY <2>1, <2>2, <1>1, TableTypes, Zenon DEF Prepared
  <2>4. row' \in [Jobs -> Row] /\ \A i \in Jobs : row'[i].attempt <= row'[i].max
    BY <1>26, <2>1, <2>3, <1>1, Zenon DEF Upsert
  <2>5. AfterPrepare(PreparedStatus(w)) \in {"ack", "reject", "exit", "process"}
    BY DEF AfterPrepare
  <2>6. wk' \in [Workers -> Worker] /\ HasDelivery'
    <3>1. PICK c \in {"ack", "reject", "exit", "process"} : wk' = [wk EXCEPT ![w] = Goto(w, c)]
      BY <1>26, <2>5, Zenon DEF Upsert
    <3>2. Goto(w, c) \in Worker /\ Goto(w, c).pc = c /\ Goto(w, c).job = wk[w].job
      BY <1>5, GotoRecord DEF Counters
    <3> QED BY <3>1, <3>2, <2>1, <1>5, <1>8 DEF HasDelivery
  <2>8. faults' \in 0 .. MaxFaults
    BY <1>26, <1>9, Zenon DEF Upsert
  <2>9. runs' \in [Jobs -> Nat]
    BY <1>26, <1>7 DEF Upsert
  <2>10. UNCHANGED <<req, pub, msg, policy, inbox, returns>>
    BY <1>26, Zenon DEF Upsert, submitVars, brokerVars
  <2> QED BY <2>4, <2>6, <2>8, <2>9, <2>10, Zenon DEF TypeInv, TypeOK
<1>27. ASSUME NEW w \in Workers, Process(w) PROVE TypeInv'
  <2>1. \A r \in {"ok", "permanent", "transient"} : Outcome(w, r) \in {"succeeded", "failed", "retrying"}
    BY DEF Outcome
  <2>2. wk' \in [Workers -> Worker]
    BY <1>27, <2>1, <1>5, DecidedRecord DEF Process
  <2>3. HasDelivery'
    BY <1>27, <2>1, <1>5, <1>8, DecidedRecord DEF Process, Handling, HasDelivery
  <2> QED BY <2>1, <2>2, <2>3, <1>27, Zenon
    DEF TypeInv, TypeOK, HasDelivery, Process, tableVars, submitVars, brokerVars, workerVars, histVars
<1>28. ASSUME NEW w \in Workers, Persist(w) PROVE TypeInv'
  <2>1. wk[w].job \in Jobs /\ wk[w].outcome # "none"
    BY <1>28, <1>8, Zenon DEF Persist, Handling
  <2>2. wk[w].attempt \in Nat /\ wk[w].outcome \in {"succeeded", "failed", "retrying"}
    BY <2>1, <1>5, Zenon DEF Worker
  <2>3. Mark(row[wk[w].job], wk[w].outcome, wk[w].attempt) \in Row /\ Mark(row[wk[w].job], wk[w].outcome, wk[w].attempt).attempt
          <= Mark(row[wk[w].job], wk[w].outcome, wk[w].attempt).max
    BY <2>1, <2>2, <1>1, TableTypes, Zenon
  <2>4. row' \in [Jobs -> Row] /\ \A i \in Jobs : row'[i].attempt <= row'[i].max
    BY <1>28, <2>1, <2>3, <1>1, Zenon DEF Persist
  <2>5. Settle(wk[w].outcome) \in {"ack", "reject", "requeue"}
    BY DEF Settle
  <2>6. wk' \in [Workers -> Worker] /\ HasDelivery'
    <3>1. PICK c \in {"ack", "reject", "requeue", "exit"} : wk' = [wk EXCEPT ![w] = Goto(w, c)]
      BY <1>28, <2>5, Zenon DEF Persist
    <3>2. Goto(w, c) \in Worker /\ Goto(w, c).pc = c /\ Goto(w, c).job = wk[w].job
      BY <1>5, GotoRecord DEF Counters
    <3> QED BY <3>1, <3>2, <2>1, <1>5, <1>8 DEF HasDelivery
  <2>8. faults' \in 0 .. MaxFaults
    BY <1>28, <1>9, Zenon DEF Persist
  <2>9. UNCHANGED <<req, pub, msg, policy, inbox, runs, returns>>
    BY <1>28, Zenon DEF Persist, submitVars, brokerVars, histVars
  <2> QED BY <2>4, <2>6, <2>8, <2>9, Zenon DEF TypeInv, TypeOK
<1>29. ASSUME NEW w \in Workers, Ack(w) PROVE TypeInv'
  <2>1. wk[w].job \in Jobs /\ msg[wk[w].job] \in Message
    BY <1>29, <1>4, <1>8, Zenon DEF Ack, SettleDelivery, Handling
  <2>2. msg' \in [Jobs -> Message]
    BY <1>29, <2>1, <1>4, MessageRecords DEF Ack, SettleDelivery, Places
  <2>3. wk' = [wk EXCEPT ![w] = Idle(w)] \/ wk' = [wk EXCEPT ![w] = Goto(w, "exit")]
    BY <1>29, Zenon DEF Ack, SettleDelivery
  <2>4. /\ Idle(w) \in Worker /\ Goto(w, "exit") \in Worker
        /\ Idle(w).pc = "idle" /\ Goto(w, "exit").pc = "exit"
    BY <1>5, GotoRecord, WorkerRecords, ZenonT(30) DEF Counters
  <2>5. wk' \in [Workers -> Worker]
    BY <2>3, <2>4, <1>5, Zenon
  <2>6. \A v \in Workers : wk'[v] = wk[v] \/ wk'[v].pc \in {"idle", "exit"}
    BY <2>3, <2>4, <1>5, Zenon
  <2>7. HasDelivery'
    BY <2>6, <1>8, Zenon DEF Handling, HasDelivery
  <2>8. UNCHANGED <<row, req, pub, policy, inbox, faults, runs, returns>>
    BY <1>29, Zenon DEF Ack, SettleDelivery, tableVars, submitVars, histVars
  <2> QED BY <2>2, <2>5, <2>7, <2>8, Zenon DEF TypeInv, TypeOK
<1>30. ASSUME NEW w \in Workers, Reject(w) PROVE TypeInv'
  <2>1. wk[w].job \in Jobs /\ msg[wk[w].job] \in Message
    BY <1>30, <1>4, <1>8, Zenon DEF Reject, SettleDelivery, Handling
  <2>2. msg' \in [Jobs -> Message]
    BY <1>30, <2>1, <1>4, MessageRecords DEF Reject, SettleDelivery, Places
  <2>3. wk' = [wk EXCEPT ![w] = Idle(w)] \/ wk' = [wk EXCEPT ![w] = Goto(w, "exit")]
    BY <1>30, Zenon DEF Reject, SettleDelivery
  <2>4. /\ Idle(w) \in Worker /\ Goto(w, "exit") \in Worker
        /\ Idle(w).pc = "idle" /\ Goto(w, "exit").pc = "exit"
    BY <1>5, GotoRecord, WorkerRecords, ZenonT(30) DEF Counters
  <2>5. wk' \in [Workers -> Worker]
    BY <2>3, <2>4, <1>5, Zenon
  <2>6. \A v \in Workers : wk'[v] = wk[v] \/ wk'[v].pc \in {"idle", "exit"}
    BY <2>3, <2>4, <1>5, Zenon
  <2>7. HasDelivery'
    BY <2>6, <1>8, Zenon DEF Handling, HasDelivery
  <2>8. UNCHANGED <<row, req, pub, policy, inbox, faults, runs, returns>>
    BY <1>30, Zenon DEF Reject, SettleDelivery, tableVars, submitVars, histVars
  <2> QED BY <2>2, <2>5, <2>7, <2>8, Zenon DEF TypeInv, TypeOK
<1>31. ASSUME NEW w \in Workers, Requeue(w) PROVE TypeInv'
  <2>1. wk[w].job \in Jobs /\ msg[wk[w].job] \in Message
    BY <1>31, <1>4, <1>8, Zenon DEF Requeue, SettleDelivery, Handling
  <2>2. msg' \in [Jobs -> Message]
    BY <1>31, <2>1, <1>4, MessageRecords DEF Requeue, SettleDelivery, Places
  <2>3. wk' = [wk EXCEPT ![w] = Idle(w)] \/ wk' = [wk EXCEPT ![w] = Goto(w, "exit")]
    BY <1>31, Zenon DEF Requeue, SettleDelivery
  <2>4. /\ Idle(w) \in Worker /\ Goto(w, "exit") \in Worker
        /\ Idle(w).pc = "idle" /\ Goto(w, "exit").pc = "exit"
    BY <1>5, GotoRecord, WorkerRecords, ZenonT(30) DEF Counters
  <2>5. wk' \in [Workers -> Worker]
    BY <2>3, <2>4, <1>5, Zenon
  <2>6. \A v \in Workers : wk'[v] = wk[v] \/ wk'[v].pc \in {"idle", "exit"}
    BY <2>3, <2>4, <1>5, Zenon
  <2>7. HasDelivery'
    BY <2>6, <1>8, Zenon DEF Handling, HasDelivery
  <2>8. UNCHANGED <<row, req, pub, policy, inbox, faults, runs, returns>>
    BY <1>31, Zenon DEF Requeue, SettleDelivery, tableVars, submitVars, histVars
  <2> QED BY <2>2, <2>5, <2>7, <2>8, Zenon DEF TypeInv, TypeOK
<1>32. ASSUME NEW w \in Workers, NoticeClosed(w) PROVE TypeInv'
  <2>1. wk' \in [Workers -> Worker]
    BY <1>32, <1>5, GotoRecord, Zenon DEF NoticeClosed, Counters
  <2>2. HasDelivery'
    BY <1>32, <1>5, <1>8, GotoRecord DEF NoticeClosed, Counters, Handling, HasDelivery
  <2> QED BY <2>1, <2>2, <1>32, Zenon
    DEF TypeInv, TypeOK, HasDelivery, NoticeClosed, tableVars, submitVars, brokerVars, workerVars, histVars
<1>33. ASSUME NEW w \in Workers, Exit(w) PROVE TypeInv'
  <2>1. msg' \in [Jobs -> Message] /\ returns' \in [Jobs -> Nat]
    BY <1>33, <1>99, Zenon DEF Exit, Terminate
  <2>2. wk' \in [Workers -> Worker]
    BY <1>33, <1>5, WorkerRecords, Zenon DEF Exit, Terminate
  <2>3. inbox' \in [Workers -> Seq(Delivery)]
    BY <1>33, <1>6 DEF Exit, Terminate
  <2>4. HasDelivery'
    BY <1>33, <1>5, <1>8, WorkerRecords, Zenon DEF Exit, Terminate, Handling, HasDelivery
  <2>5. faults' \in 0 .. MaxFaults
    BY <1>33, <1>9, Zenon DEF Exit
  <2> QED BY <2>1, <2>2, <2>3, <2>4, <2>5, <1>33, Zenon
    DEF TypeInv, TypeOK, HasDelivery, Exit, Terminate, tableVars, submitVars, brokerVars, workerVars, histVars
<1>34. ASSUME NEW w \in Workers, Stop(w) PROVE TypeInv'
  <2>1. msg' \in [Jobs -> Message] /\ returns' \in [Jobs -> Nat]
    BY <1>34, <1>99, Zenon DEF Stop, Terminate
  <2>2. wk' \in [Workers -> Worker]
    BY <1>34, <1>5, WorkerRecords, Zenon DEF Stop, Terminate
  <2>3. inbox' \in [Workers -> Seq(Delivery)]
    BY <1>34, <1>6 DEF Stop, Terminate
  <2>4. HasDelivery'
    BY <1>34, <1>5, <1>8, WorkerRecords, Zenon DEF Stop, Terminate, Handling, HasDelivery
  <2>5. faults' \in 0 .. MaxFaults
    BY <1>34, <1>9, Zenon DEF Stop
  <2> QED BY <2>1, <2>2, <2>3, <2>4, <2>5, <1>34, Zenon
    DEF TypeInv, TypeOK, HasDelivery, Stop, Terminate, tableVars, submitVars, brokerVars, workerVars, histVars
<1>35. ASSUME NEW w \in Workers, ConnectionLost(w) PROVE TypeInv'
  <2>1. msg' \in [Jobs -> Message] /\ returns' \in [Jobs -> Nat]
    BY <1>35, <1>99, Zenon DEF ConnectionLost
  <2>2. wk' \in [Workers -> Worker]
    BY <1>35, <1>5, WorkerRecords, Zenon DEF ConnectionLost
  <2>3. HasDelivery'
    BY <1>35, <1>5, <1>8, WorkerRecords, ZenonT(30) DEF ConnectionLost, HasDelivery
  <2>4. faults' \in 0 .. MaxFaults
    BY <1>35, <1>9, Zenon DEF ConnectionLost
  <2> QED BY <2>1, <2>2, <2>3, <2>4, <1>35, Zenon
    DEF TypeInv, TypeOK, HasDelivery, ConnectionLost, tableVars, submitVars, brokerVars, workerVars, histVars
<1>36. ASSUME NEW w \in Workers, NEW j \in Jobs, Deliver(w, j) PROVE TypeInv'
  <2>1. [job |-> j, attempt |-> msg[j].count + 1] \in Delivery
    BY <1>4 DEF Delivery, Message
  <2>2. msg' \in [Jobs -> Message]
    <3>1. Held(j, w) \in Message
      BY <1>4, MessageRecords DEF Places
    <3> QED BY <1>36, <1>4, <3>1, Zenon DEF Deliver
  <2>3. inbox' \in [Workers -> Seq(Delivery)]
    BY <1>36, <2>1, <1>6, AddLast, Zenon DEF Deliver
  <2>4. UNCHANGED <<row, req, pub, policy, wk, faults, runs, returns>>
    BY <1>36, Zenon DEF Deliver, tableVars, submitVars, histVars
  <2>5. HasDelivery'
    BY <2>4, <1>8, Zenon DEF HasDelivery
  <2> QED BY <2>2, <2>3, <2>4, <2>5, Zenon DEF TypeInv, TypeOK
<1>37. CASE PublisherLost
  <2>1. pub' \in [holder : Jobs \cup {NoJob}, open : BOOLEAN]
    BY <1>37, <1>3, Zenon DEF PublisherLost
  <2>2. faults' \in 0 .. MaxFaults
    BY <1>37, <1>9, Zenon DEF PublisherLost
  <2> QED BY <2>1, <2>2, <1>37, Zenon
    DEF TypeInv, TypeOK, HasDelivery, PublisherLost, tableVars, submitVars, brokerVars, workerVars, histVars
<1>38. CASE ControlPlaneRestart
  <2>1. req' \in [Jobs -> Request]
    BY <1>38, <1>2, RequestRecords, Zenon DEF ControlPlaneRestart, Phases, Replies
  <2>2. pub' \in [holder : Jobs \cup {NoJob}, open : BOOLEAN]
    BY <1>38, Zenon DEF ControlPlaneRestart
  <2>3. faults' \in 0 .. MaxFaults
    BY <1>38, <1>9, Zenon DEF ControlPlaneRestart
  <2> QED BY <2>1, <2>2, <2>3, <1>38, Zenon
    DEF TypeInv, TypeOK, HasDelivery, ControlPlaneRestart, tableVars, submitVars, brokerVars, workerVars, histVars
<1>39. CASE UNCHANGED vars
  <2> QED BY <1>39, Zenon
    DEF TypeInv, TypeOK, HasDelivery, vars, tableVars, submitVars, brokerVars, workerVars, histVars
<1> QED
  BY <1>10, <1>11, <1>12, <1>13, <1>14, <1>15, <1>16, <1>17, <1>18, <1>19, <1>20, <1>21, <1>22, <1>23, <1>24, <1>25, <1>26, <1>27, <1>28, <1>29, <1>30, <1>31, <1>32, <1>33, <1>34, <1>35, <1>36, <1>37, <1>38, <1>39
  DEF Next, RequestStep, BrokerStep, WorkerStep

(* Type correctness: every variable keeps its type, current_attempt stays  *)
(* within max_attempts.                                                    *)
THEOREM TypeCorrect == Spec => []TypeOK
<1>1. Spec => []TypeInv
  BY TypeInit, TypeStep, PTL DEF Spec
<1> QED BY <1>1, PTL DEF TypeInv

(* A request inside Publish holds the publisher's mutex.                   *)
Publishing == {"publish", "confirm"}

MutexHeld == \A j \in Jobs : req[j].phase \in Publishing => pub.holder = j

(* A step of one request that does not touch the mutex.                    *)
LEMMA MutexKept ==
  ASSUME MutexHeld, NEW j \in Jobs, pub' = pub, \A i \in Jobs \ {j} : req'[i] = req[i],
         req'[j].phase \in Publishing => req[j].phase \in Publishing
  PROVE  MutexHeld'
BY Zenon DEF MutexHeld

(* Publish returns: nobody else was inside.                                *)
LEMMA MutexReleased ==
  ASSUME TypeInv, MutexHeld, NEW j \in Jobs, req[j].phase \in Publishing,
         NEW x \in {"markQueued", "markFailed"}, PublishReturns(j, x)
  PROVE  MutexHeld'
<1>1. req \in [Jobs -> Request]
  BY Zenon DEF TypeInv, TypeOK
<1>2. req'[j].phase \notin Publishing /\ \A i \in Jobs \ {j} : req'[i] = req[i]
  BY <1>1, RequestRecords DEF PublishReturns, Phases, Publishing
<1>3. \A i \in Jobs \ {j} : req[i].phase \notin Publishing
  BY DEF MutexHeld
<1> QED BY <1>2, <1>3, Zenon DEF MutexHeld

LEMMA MutexStep == TypeInv /\ MutexHeld /\ [Next]_vars => MutexHeld'
<1> SUFFICES ASSUME TypeInv, MutexHeld, [Next]_vars PROVE MutexHeld'
  OBVIOUS
<1>1. req \in [Jobs -> Request] /\ pub \in [holder : Jobs \cup {NoJob}, open : BOOLEAN]
  BY DEF TypeInv, TypeOK
<1>2. ASSUME NEW j \in Jobs, NEW r, req' = [req EXCEPT ![j] = r], pub' = pub,
             r.phase \in Publishing => req[j].phase \in Publishing
      PROVE  MutexHeld'
  <2>1. req'[j] = r /\ \A i \in Jobs \ {j} : req'[i] = req[i]
    BY <1>1, <1>2
  <2> QED BY <1>2, <2>1, MutexKept, Zenon
<1>3. ASSUME NEW j \in Jobs, Submit(j) PROVE MutexHeld'
  <2>1. PICK value \in Requested, payloadValid \in BOOLEAN :
          req' = [req EXCEPT ![j] = IF payloadValid /\ ValidMaxAttempts(value)
                                    THEN Validated(j, NormalizeMaxAttempts(value))
                                    ELSE Answered(j, "400")]
    BY <1>3, Zenon DEF Submit
  <2>2. ValidMaxAttempts(value) => NormalizeMaxAttempts(value) \in Nat
    BY AttemptsAssumption DEF ValidMaxAttempts, NormalizeMaxAttempts
  <2>3. /\ ValidMaxAttempts(value) => Validated(j, NormalizeMaxAttempts(value)).phase = "create"
        /\ Answered(j, "400").phase = "done"
    BY <1>1, <2>2, RequestRecords DEF Replies
  <2>4. pub' = pub
    BY <1>3, Zenon DEF Submit
  <2> QED BY <1>2, <2>1, <2>3, <2>4, Zenon DEF Publishing
<1>4. ASSUME NEW j \in Jobs, Cancel(j) PROVE MutexHeld'
  BY <1>1, <1>2, <1>4, RequestRecords, Zenon DEF Cancel
<1>5. ASSUME NEW j \in Jobs, Create(j) PROVE MutexHeld'
  <2>1. At(j, "lock").phase = "lock" /\ Answered(j, "503").phase = "done"
    BY <1>1, RequestRecords DEF Phases, Replies
  <2> QED BY <1>2, <1>5, <2>1, Zenon DEF Create, Publishing
<1>6. ASSUME NEW j \in Jobs, Lock(j) PROVE MutexHeld'
  <2>1. pub.holder = NoJob /\ pub'.holder = j /\ \A i \in Jobs \ {j} : req'[i] = req[i]
    BY <1>1, <1>6 DEF Lock
  <2>2. \A i \in Jobs : req[i].phase \notin Publishing
    BY <2>1, NoJobAssumption, Zenon DEF MutexHeld
  <2> QED BY <2>1, <2>2, Zenon DEF MutexHeld
<1>7. ASSUME NEW j \in Jobs, Publish(j) PROVE MutexHeld'
  <2>1. req[j].phase \in Publishing
    BY <1>7, Zenon DEF Publish, Publishing
  <2>2. CASE req' = [req EXCEPT ![j] = At(j, "confirm")] /\ pub' = pub
    BY <1>2, <2>1, <2>2, Zenon
  <2>3. CASE PublishReturns(j, "markFailed")
    BY <2>1, <2>3, MutexReleased, Zenon
  <2> QED BY <1>7, <2>2, <2>3, Zenon DEF Publish
<1>8. ASSUME NEW j \in Jobs, Confirmed(j) \/ Unconfirmed(j) PROVE MutexHeld'
  BY <1>8, MutexReleased, Zenon DEF Confirmed, Unconfirmed, Publishing
<1>9. ASSUME NEW j \in Jobs, RecordQueued(j) \/ RecordFailure(j) PROVE MutexHeld'
  <2>1. Answered(j, "202").phase = "done" /\ Answered(j, "503").phase = "done"
    BY <1>1, RequestRecords, Zenon DEF Replies
  <2>2. pub' = pub /\ \E c \in {"202", "503"} : req' = [req EXCEPT ![j] = Answered(j, c)]
    BY <1>9, Zenon DEF RecordQueued, RecordFailure, RecordAndAnswer
  <2> QED BY <1>2, <2>1, <2>2, Zenon DEF Publishing
<1>10. ASSUME NEW j \in Jobs, BrokerAccepts(j) \/ BrokerRefuses(j) PROVE MutexHeld'
  <2>1. pub' = pub /\ (Confirm(j, "acked") \/ Confirm(j, "nacked"))
    BY <1>10, Zenon DEF BrokerAccepts, BrokerRefuses
  <2>2. WithConfirm(j, "acked").phase = req[j].phase /\ WithConfirm(j, "nacked").phase = req[j].phase
    BY <1>1, RequestRecords, Zenon
  <2>3. req' = req => MutexHeld'
    BY <2>1, Zenon DEF MutexHeld
  <2> QED BY <1>2, <2>1, <2>2, <2>3, Zenon DEF Confirm
<1>11. CASE ControlPlaneRestart
  <2>1. \A j \in Jobs : req'[j].phase \in {"idle", "done"}
    BY <1>1, <1>11, RequestRecords, Zenon DEF ControlPlaneRestart, Replies
  <2> QED BY <2>1 DEF MutexHeld, Publishing
<1>12. CASE PublisherLost
  <2>1. req' = req /\ pub'.holder = pub.holder
    BY <1>1, <1>12, Zenon DEF PublisherLost
  <2> QED BY <2>1 DEF MutexHeld
<1>13. UNCHANGED <<req, pub>> => MutexHeld'
  BY DEF MutexHeld
<1>14. /\ \A j \in Jobs : ForeignMessage(j) => UNCHANGED <<req, pub>>
       /\ UNCHANGED vars => UNCHANGED <<req, pub>>
  BY Zenon DEF ForeignMessage, submitVars, vars
<1>15. \A w \in Workers :
         /\ WorkerStep(w) \/ ConnectionLost(w) \/ Stop(w) => UNCHANGED <<req, pub>>
         /\ \A j \in Jobs : Deliver(w, j) => UNCHANGED <<req, pub>>
  BY Zenon DEF WorkerStep, Start, InstallPolicy, Take, Snapshot, Upsert, Process, Persist, Ack, Reject,
         Requeue, SettleDelivery, NoticeClosed, Exit, ConnectionLost, Stop, Terminate, Deliver,
         submitVars
<1> QED
  BY <1>3, <1>4, <1>5, <1>6, <1>7, <1>8, <1>9, <1>10, <1>11, <1>12, <1>13, <1>14, <1>15, Zenon
  DEF Next, RequestStep, BrokerStep

(* At most one request at a time is inside Publish, whoever returns early, *)
(* goes away or restarts.                                                  *)
THEOREM OnePublisherCorrect == Spec => []OnePublisher
<1>1. Init => MutexHeld
  BY DEF Init, MutexHeld, Publishing
<1>2. MutexHeld => OnePublisher
  BY DEF MutexHeld, OnePublisher, Publishing
<1>3. Spec => []TypeInv
  BY TypeInit, TypeStep, PTL DEF Spec
<1> QED BY <1>1, <1>2, <1>3, MutexStep, PTL DEF Spec
-----------------------------------------------------------------------------
(* The steps of a request, or of the broker that serves it, and those of a *)
(* worker.                                                                 *)
RequestAction(j) ==
  Submit(j) \/ Cancel(j) \/ RequestStep(j) \/ BrokerStep(j) \/ ForeignMessage(j)

WorkerAction(w) ==
  WorkerStep(w) \/ ConnectionLost(w) \/ Stop(w) \/ \E j \in Jobs : Deliver(w, j)

(* As far as deliveries go, a worker has five moves.  It goes on with the  *)
(* job in hand, or drops it; it takes a delivery; it settles the one in    *)
(* hand; it loses what it holds; it receives another.  What a move does to *)
(* the worker is said of the two records, a before it and b after it.      *)
Unprepared == {"snapshot", "upsert"}

Retries(v) == v.pc = "requeue" \/ (v.pc = "persist" /\ v.outcome = "retrying")

StepsOn(a, b, m) ==
  /\ b.pc # "down"
  /\ b.conn = a.conn \/ (a.pc = "down" /\ b.pc = "starting")
  /\ b.pc \in Handling => a.pc \in Handling /\ b.job = a.job /\ b.attempt = a.attempt
  /\ b.pc \in Unprepared => a.pc \in Unprepared
  /\ Retries(b) => Retries(a) \/ b.attempt < m[b.job].max

TookFrom(a, b, d) ==
  /\ b.pc \in {"snapshot", "reject"} /\ b.conn = a.conn
  /\ b.job = d.job /\ b.attempt = d.attempt

LostBy(a, b) ==
  /\ a.pc # "down" /\ ~b.conn
  /\ b.pc = a.pc /\ b.job = a.job /\ b.attempt = a.attempt /\ b.outcome = a.outcome

Keeps(w) ==
  /\ UNCHANGED <<msg, inbox, returns>>
  /\ StepsOn(wk[w], wk'[w], msg)
  /\ \/ UNCHANGED runs
     \/ /\ wk[w].pc = "upsert" /\ wk'[w].pc = "process"
        /\ runs' = [runs EXCEPT ![wk[w].job] = runs[wk[w].job] + 1]

Takes(w) ==
  /\ UNCHANGED <<msg, returns, runs>>
  /\ inbox[w] # <<>> /\ inbox'[w] = Tail(inbox[w])
  /\ TookFrom(wk[w], wk'[w], Head(inbox[w]))

Settles(w, pc, settled) ==
  /\ UNCHANGED <<row, inbox, returns, runs>>
  /\ wk[w].pc = pc /\ wk'[w].pc \in {"idle", "exit"} /\ wk'[w].conn = wk[w].conn
  /\ msg' = IF wk[w].conn THEN [msg EXCEPT ![wk[w].job] = settled] ELSE msg

Loses(w) ==
  /\ ReturnUnacked(w) /\ UNCHANGED runs
  /\ \/ wk'[w].pc = "down" /\ wk'[w].conn = FALSE /\ inbox'[w] = <<>>
     \/ LostBy(wk[w], wk'[w]) /\ inbox' = inbox

WorkerMove(w) ==
  \/ Keeps(w) \/ Takes(w) \/ Loses(w)
  \/ Settles(w, "ack", Put(wk[w].job, "acked"))
  \/ Settles(w, "reject", Put(wk[w].job, IF policy THEN "dead" ELSE "dropped"))
  \/ Settles(w, "requeue", Requeued(wk[w].job, 1))
  \/ \E j \in Jobs : Deliver(w, j)

(* A worker that goes to some place with what it has in hand.              *)
LEMMA GoesOn ==
  ASSUME TypeInv, NEW w \in Workers, NEW c \in Counters, wk' = [wk EXCEPT ![w] = Goto(w, c)],
         c # "down", c \in Handling => wk[w].pc \in Handling,
         c \in Unprepared => wk[w].pc \in Unprepared,
         c \in {"persist", "requeue"} => Retries(wk[w])
  PROVE  StepsOn(wk[w], wk'[w], msg) /\ wk'[w].pc = c
<1>1. wk \in [Workers -> Worker]
  BY Zenon DEF TypeInv, TypeOK
<1>2. wk'[w] = Goto(w, c)
  BY <1>1, Zenon
<1>3. /\ wk'[w].pc = c /\ wk'[w].conn = wk[w].conn
      /\ wk'[w].job = wk[w].job /\ wk'[w].attempt = wk[w].attempt
  BY <1>1, <1>2, GotoRecord
<1>4. Retries(wk'[w]) => c \in {"persist", "requeue"}
  BY <1>3, Zenon DEF Retries
<1> QED BY <1>3, <1>4, Zenon DEF StepsOn

(* What each action of a worker amounts to.                                *)
LEMMA WorkerMoves ==
  ASSUME TypeInv, NEW w \in Workers, WorkerAction(w)
  PROVE  WorkerMove(w)
<1>1. /\ wk \in [Workers -> Worker] /\ inbox \in [Workers -> Seq(Delivery)]
      /\ runs \in [Jobs -> Nat] /\ msg \in [Jobs -> Message] /\ row \in [Jobs -> Row]
  BY Zenon DEF TypeInv, TypeOK
<1>2. wk[w].pc \in Handling => wk[w].job \in Jobs
  BY Zenon DEF TypeInv, HasDelivery
<1>3. CASE Start(w)
  <2>1. /\ UNCHANGED <<msg, inbox, returns, runs>>
        /\ wk'[w].pc = "starting" /\ wk[w].pc = "down"
    BY <1>1, <1>3, WorkerRecords, Zenon DEF Start, brokerVars, histVars
  <2>2. StepsOn(wk[w], wk'[w], msg)
    BY <2>1, Zenon DEF StepsOn, Handling, Unprepared, Retries
  <2> QED BY <2>1, <2>2, Zenon DEF Keeps, WorkerMove
<1>4. CASE InstallPolicy(w) \/ NoticeClosed(w)
  <2>1. /\ UNCHANGED <<msg, inbox, returns, runs>>
        /\ wk' = [wk EXCEPT ![w] = Goto(w, "exit")] \/ wk' = [wk EXCEPT ![w] = Goto(w, "idle")]
    BY <1>4, Zenon DEF InstallPolicy, NoticeClosed, brokerVars, histVars
  <2>2. StepsOn(wk[w], wk'[w], msg)
    BY <2>1, GoesOn, Zenon DEF Handling, Unprepared, Counters
  <2> QED BY <2>1, <2>2, Zenon DEF Keeps, WorkerMove
<1>5. CASE Snapshot(w)
  <2> DEFINE x == row[wk[w].job].status
  <2>1. wk[w].job \in Jobs /\ x \in RowStatuses \cup {"absent"}
    BY <1>1, <1>2, <1>5, Zenon DEF Snapshot, Handling, Row
  <2>2. /\ UNCHANGED <<msg, inbox, returns, runs>> /\ wk[w].pc = "snapshot"
        /\ wk' = [wk EXCEPT ![w] = Saw(w, x)]
    BY <1>5, Zenon DEF Snapshot, brokerVars, histVars
  <2> HIDE DEF x
  <2>3. wk'[w] = Saw(w, x)
    BY <1>1, <2>2, Zenon
  <2>4. /\ wk'[w].pc = "upsert" /\ wk'[w].conn = wk[w].conn
        /\ wk'[w].job = wk[w].job /\ wk'[w].attempt = wk[w].attempt
    BY <1>1, <2>1, <2>3, SawRecord
  <2>5. StepsOn(wk[w], wk'[w], msg)
    BY <2>2, <2>4, Zenon DEF StepsOn, Handling, Unprepared, Retries
  <2> QED BY <2>2, <2>5, Zenon DEF Keeps, WorkerMove
<1>6. CASE Process(w)
  <2>1. PICK r \in {"ok", "permanent", "transient"} :
          wk' = [wk EXCEPT ![w] = Decided(w, Outcome(w, r))]
    BY <1>6, Zenon DEF Process
  <2>2. /\ Outcome(w, r) \in {"succeeded", "failed", "retrying"}
        /\ Outcome(w, r) = "retrying" => ~(wk[w].attempt >= msg[wk[w].job].max)
    BY <2>1, Zenon DEF Outcome
  <2>3. /\ UNCHANGED <<msg, inbox, returns, runs>> /\ wk[w].pc = "process"
    BY <1>6, Zenon DEF Process, brokerVars, histVars
  <2> DEFINE x == Outcome(w, r)
  <2> HIDE DEF x
  <2>4. wk'[w] = Decided(w, x) /\ x \in {"succeeded", "failed", "retrying"}
    BY <1>1, <2>1, <2>2, Zenon DEF x
  <2>5. /\ wk'[w].pc = "persist" /\ wk'[w].outcome = x
        /\ wk'[w].conn = wk[w].conn /\ wk'[w].job = wk[w].job /\ wk'[w].attempt = wk[w].attempt
    BY <1>1, <2>4, DecidedRecord
  <2>6. wk[w].attempt \in Nat /\ msg[wk[w].job].max \in Nat
    BY <1>1, <1>2, <2>3, Zenon DEF Worker, Message, Handling
  <2>7. x = "retrying" => wk[w].attempt < msg[wk[w].job].max
    BY <2>2, <2>6 DEF x
  <2>8. StepsOn(wk[w], wk'[w], msg)
    BY <2>3, <2>5, <2>7, Zenon DEF StepsOn, Handling, Unprepared, Retries
  <2> QED BY <2>3, <2>8, Zenon DEF Keeps, WorkerMove
<1>7. CASE Persist(w)
  <2>1. Settle(wk[w].outcome) \in {"ack", "reject", "requeue"}
    BY DEF Settle
  <2>2. /\ UNCHANGED <<msg, inbox, returns, runs>> /\ wk[w].pc = "persist"
        /\ \E c \in {"ack", "reject", "exit", "requeue"} :
             wk' = [wk EXCEPT ![w] = Goto(w, c)] /\ (c = "requeue" => Settle(wk[w].outcome) = c)
    BY <1>7, <2>1, Zenon DEF Persist, brokerVars, histVars
  <2>3. Settle(wk[w].outcome) = "requeue" => Retries(wk[w])
    <3>1. wk[w].outcome \in {"succeeded", "failed", "retrying"}
      BY <1>1, <2>2, Zenon DEF TypeInv, HasDelivery, Worker
    <3> QED BY <2>2, <3>1, Zenon DEF Settle, Retries
  <2>4. StepsOn(wk[w], wk'[w], msg)
    BY <2>2, <2>3, GoesOn, Zenon DEF Handling, Unprepared, Counters
  <2> QED BY <2>2, <2>4, Zenon DEF Keeps, WorkerMove
<1>8. CASE Upsert(w)
  <2> DEFINE next == AfterPrepare(PreparedStatus(w))
             j == wk[w].job
  <2>1. next \in {"ack", "reject", "exit", "process"}
    BY DEF AfterPrepare
  <2>2. /\ UNCHANGED <<msg, inbox, returns>> /\ wk[w].pc = "upsert" /\ j \in Jobs
        /\ \/ /\ wk' = [wk EXCEPT ![w] = Goto(w, next)]
              /\ runs' = [runs EXCEPT ![j] = IF next = "process" THEN runs[j] + 1 ELSE runs[j]]
           \/ wk' = [wk EXCEPT ![w] = Goto(w, "exit")] /\ runs' = runs
    BY <1>2, <1>8, Zenon DEF Upsert, Handling, brokerVars
  <2> HIDE DEF next
  <2>3. PICK c \in {"ack", "reject", "exit", "process"} :
          /\ wk' = [wk EXCEPT ![w] = Goto(w, c)]
          /\ runs' = runs \/ (c = "process" /\ runs' = [runs EXCEPT ![j] = runs[j] + 1])
    <3>1. [runs EXCEPT ![j] = runs[j]] = runs
      BY <1>1, <2>2, Zenon
    <3> QED BY <2>1, <2>2, <3>1, Zenon
  <2>4. StepsOn(wk[w], wk'[w], msg) /\ wk'[w].pc = c
    BY <2>2, <2>3, GoesOn, Zenon DEF Handling, Unprepared, Counters
  <2> QED BY <2>2, <2>3, <2>4, Zenon DEF Keeps, WorkerMove
<1>9. CASE Take(w)
  <2> DEFINE d == Head(inbox[w])
             c == AfterDecode(msg[d.job])
  <2>1. c \in {"snapshot", "reject"}
    BY Zenon DEF AfterDecode
  <2>2. /\ UNCHANGED <<msg, returns, runs>> /\ inbox[w] # <<>>
        /\ wk' = [wk EXCEPT ![w] = Took(w, d, c)]
        /\ inbox' = [inbox EXCEPT ![w] = Tail(inbox[w])]
    BY <1>9, Zenon DEF Take, brokerVars, histVars
  <2>3. d \in Delivery
    BY <1>1, <2>2, TakeFirst, Zenon
  <2> HIDE DEF d, c
  <2>4. wk'[w] = Took(w, d, c) /\ inbox'[w] = Tail(inbox[w])
    BY <1>1, <2>2, Zenon
  <2>5. TookFrom(wk[w], wk'[w], d)
    <3>1. c \in Counters
      BY <2>1 DEF Counters
    <3> QED BY <1>1, <2>1, <2>3, <2>4, <3>1, TookRecord DEF TookFrom
  <2> QED BY <2>2, <2>4, <2>5, Zenon DEF Takes, WorkerMove, d
<1>10. ASSUME NEW pc, NEW settled, SettleDelivery(w, pc, settled)
       PROVE  Settles(w, pc, settled)
  <2>1. /\ UNCHANGED <<row, inbox, returns, runs>> /\ wk[w].pc = pc
        /\ msg' = IF wk[w].conn THEN [msg EXCEPT ![wk[w].job] = settled] ELSE msg
        /\ wk' = [wk EXCEPT ![w] = Idle(w)] \/ wk' = [wk EXCEPT ![w] = Goto(w, "exit")]
    BY <1>10, Zenon DEF SettleDelivery, tableVars, histVars
  <2>2. wk'[w] = Idle(w) \/ wk'[w] = Goto(w, "exit")
    BY <1>1, <2>1, Zenon
  <2>3. Idle(w).pc = "idle" /\ Idle(w).conn = wk[w].conn
    BY <1>1, WorkerRecords, Zenon
  <2>4. Goto(w, "exit").pc = "exit" /\ Goto(w, "exit").conn = wk[w].conn
    BY <1>1, GotoRecord, Zenon DEF Counters
  <2>5. wk'[w].pc \in {"idle", "exit"} /\ wk'[w].conn = wk[w].conn
    <3>1. CASE wk'[w] = Idle(w)
      BY <2>3, <3>1, Zenon
    <3>2. CASE wk'[w] = Goto(w, "exit")
      BY <2>4, <3>2, Zenon
    <3> QED BY <2>2, <3>1, <3>2, Zenon
  <2> QED BY <2>1, <2>5, Zenon DEF Settles
<1>11. CASE Ack(w) \/ Reject(w) \/ Requeue(w)
  BY <1>10, <1>11, Zenon DEF Ack, Reject, Requeue, WorkerMove
<1>12. CASE Exit(w) \/ Stop(w)
  <2>1. /\ ReturnUnacked(w) /\ wk' = [wk EXCEPT ![w] = Down]
        /\ inbox' = [inbox EXCEPT ![w] = <<>>] /\ runs' = runs
    BY <1>12, Zenon DEF Exit, Stop, Terminate
  <2>2. wk'[w] = Down /\ inbox'[w] = <<>>
    BY <1>1, <2>1, Zenon
  <2> QED BY <1>1, <2>1, <2>2, WorkerRecords, Zenon DEF Loses, WorkerMove
<1>13. CASE ConnectionLost(w)
  <2>1. /\ ReturnUnacked(w) /\ wk' = [wk EXCEPT ![w] = Disconnected(w)]
        /\ inbox' = inbox /\ runs' = runs /\ wk[w].pc # "down"
    BY <1>13, Zenon DEF ConnectionLost
  <2>2. wk'[w] = Disconnected(w)
    BY <1>1, <2>1, Zenon
  <2>3. LostBy(wk[w], wk'[w])
    BY <1>1, <2>1, <2>2, WorkerRecords, Zenon DEF LostBy
  <2> QED BY <2>1, <2>3, Zenon DEF Loses, WorkerMove
<1> QED
  BY <1>3, <1>4, <1>5, <1>6, <1>7, <1>8, <1>9, <1>11, <1>12, <1>13, Zenon
  DEF WorkerAction, WorkerStep, WorkerMove

(* What the broker's steps make of the number of a delivery.               *)
LEMMA CountRecords ==
  ASSUME msg \in [Jobs -> Message], NEW j \in Jobs
  PROVE  /\ \A x \in Places : Put(j, x).count = msg[j].count
         /\ \A x \in Places, n \in Nat, b \in BOOLEAN : Published(j, x, n, b).count = msg[j].count
         /\ \A w \in Workers : Held(j, w).count = msg[j].count
         /\ \A n \in Nat : Requeued(j, n).count = msg[j].count + n
<1>1. msg[j] \in Message
  OBVIOUS
<1> QED BY <1>1, Zenon DEF Put, Published, Held, Requeued, Message

(* The types later proofs need.                                             *)
LEMMA Typed ==
  ASSUME TypeInv
  PROVE  /\ row \in [Jobs -> Row] /\ req \in [Jobs -> Request] /\ msg \in [Jobs -> Message]
         /\ wk \in [Workers -> Worker] /\ inbox \in [Workers -> Seq(Delivery)]
         /\ runs \in [Jobs -> Nat] /\ returns \in [Jobs -> Nat]
         /\ \A w \in Workers : wk[w].pc \in Handling => wk[w].job \in Jobs
BY Zenon DEF TypeInv, TypeOK, HasDelivery

LEMMA TypedNext ==
  ASSUME TypeInv'
  PROVE  row' \in [Jobs -> Row] /\ msg' \in [Jobs -> Message] /\ returns' \in [Jobs -> Nat]
BY Zenon DEF TypeInv, TypeOK

(* Submission executes nothing, and publishes a message not delivered yet. *)
LEMMA RequestBudget ==
  ASSUME TypeInv, NEW j \in Jobs, RequestAction(j)
  PROVE  runs' = runs /\ returns' = returns /\ msg'[j].count = msg[j].count
<1>1. msg \in [Jobs -> Message] /\ req[j].max \in Nat
  BY Zenon DEF TypeInv, TypeOK, Request
<1>2. /\ \A x \in {"ready", "refused"} : Put(j, x).count = msg[j].count
      /\ \A x \in {"sent", "ready"}, n \in Nat, b \in BOOLEAN :
           Published(j, x, n, b).count = msg[j].count
  BY <1>1, CountRecords DEF Places
<1>3. runs' = runs /\ returns' = returns
  BY Zenon DEF RequestAction, RequestStep, BrokerStep, Submit, Cancel, Create, Lock, Publish, Confirmed,
         Unconfirmed, RecordQueued, RecordFailure, RecordAndAnswer, BrokerAccepts, BrokerRefuses,
         ForeignMessage, histVars
<1>4. CASE Publish(j)
  <2>1. msg' = msg \/ msg' = [msg EXCEPT ![j] = Published(j, "sent", req[j].max, TRUE)]
    BY <1>4, Zenon DEF Publish
  <2>2. Published(j, "sent", req[j].max, TRUE).count = msg[j].count
    BY <1>1, <1>2, Zenon
  <2> QED BY <1>1, <1>3, <2>1, <2>2, Zenon
<1>5. CASE BrokerAccepts(j) \/ BrokerRefuses(j)
  <2>1. \E x \in {"ready", "refused"} : msg' = [msg EXCEPT ![j] = Put(j, x)]
    BY <1>5, Zenon DEF BrokerAccepts, BrokerRefuses
  <2> QED BY <1>1, <1>2, <1>3, <2>1, Zenon
<1>6. CASE ForeignMessage(j)
  BY <1>1, <1>2, <1>3, <1>6, AttemptsAssumption DEF ForeignMessage
<1>7. CASE \/ Submit(j) \/ Cancel(j) \/ Create(j) \/ Lock(j) \/ Confirmed(j) \/ Unconfirmed(j)
           \/ RecordQueued(j) \/ RecordFailure(j)
  BY <1>3, <1>7, Zenon DEF Submit, Cancel, Create, Lock, Confirmed, Unconfirmed, RecordQueued, RecordFailure,
              RecordAndAnswer, brokerVars
<1> QED BY <1>3, <1>4, <1>5, <1>6, <1>7, Zenon DEF RequestAction, RequestStep, BrokerStep
=============================================================================
