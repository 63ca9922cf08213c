----------------------------- MODULE JobsSafety -----------------------------
(***************************************************************************)
(* The safety of the job pipeline, proved for every set of jobs and        *)
(* workers and any number of failures: what leaves the queue is what the   *)
(* table says, an accepted job is never lost, and a finished one is never  *)
(* executed again.  With one worker, statuses follow the README's diagram. *)
(*                                                                         *)
(* The inductive invariant has four parts, one per actor or boundary:      *)
(* submissions, deliveries in hand, outcomes recorded, messages settled.   *)
(* A step of a worker is first seen from outside it: what it does to its   *)
(* row, to the messages, and to what the worker holds.                     *)
(***************************************************************************)
EXTENDS JobsProofs

(* Places of a message the broker has accepted.                            *)
Live == {"ready", "unacked", "acked", "dead", "dropped"}

(* Statuses of a job whose attempt has been prepared.                      *)
Worked == {"processing", "retrying", "succeeded", "failed"}

(* A submission is recorded before it is published, published once, and    *)
(* counted as confirmed only when the broker has its message.              *)
SubmittedAt(j) ==
  /\ j \in Foreign => /\ req[j].phase = "idle" /\ req[j].reply = "none"
                      /\ req[j].confirm = "none"
  /\ j \notin Foreign /\ req[j].phase \in {"idle", "create"} => row[j].status = "absent"
  /\ j \notin Foreign /\ req[j].phase \in {"idle", "create", "lock", "publish"}
       => msg[j].place = "none"
  /\ req[j].phase \in {"lock", "publish", "confirm", "markQueued", "markFailed"}
       => row[j].status # "absent"
  /\ req[j].reply = "202" => row[j].status # "absent"
  /\ req[j].confirm = "acked" => msg[j].place \in Live
  /\ req[j].phase = "markQueued" => msg[j].place \in Live
  /\ req[j].reply = "202" => msg[j].place \in Live

Submitted == \A j \in Jobs : SubmittedAt(j)

(* Workers only ever hold jobs the broker has, and consume under the       *)
(* policy; a job is executed after its attempt was prepared.               *)
InHandOf(v, box, m, r, p) ==
  /\ v.pc \in Handling => m[v.job].place \in Live
  /\ v.pc \in Handling \cup {"idle"} => p
  /\ \A i \in 1 .. Len(box) : m[box[i].job].place \in Live
  /\ v.pc \in {"process", "persist"} => r[v.job].status \in Worked

InHandAt(w) == InHandOf(wk[w], inbox[w], msg, row, policy)

InHand == \A w \in Workers : InHandAt(w)

(* What a worker is about to tell the broker is what the table says, and   *)
(* what it saw of a finished job is still true.                            *)
RecordedOf(v, m, r) ==
  /\ v.pc \in Handling \ {"reject"} => m[v.job].valid
  /\ v.pc = "ack" => r[v.job].status = "succeeded"
  /\ v.pc = "reject" /\ m[v.job].valid => r[v.job].status = "failed"
  /\ v.pc = "upsert" /\ v.seen \in FinalStatuses
       => r[v.job].status = v.seen
  /\ v.pc = "snapshot" /\ v.late => r[v.job].status \in FinalStatuses
  /\ v.pc = "upsert" /\ v.late => v.seen \in FinalStatuses
  /\ v.pc = "process" => ~v.late

RecordedAt(w) == RecordedOf(wk[w], msg, row)

Recorded == \A w \in Workers : RecordedAt(w)

SafeInv == TypeInv /\ Submitted /\ InHand /\ Recorded /\ SettledAsRecorded

-----------------------------------------------------------------------------
(* What one step does, seen from a job's request and from a worker.        *)

Advances(from, to) == from = to \/ <<from, to>> \in Lifecycle!Arrows

(* A step of the request, or of the broker that serves it, touches one job *)
(* and no worker, and no message that is live.                             *)
JobEffect(j) ==
  /\ wk' = wk /\ inbox' = inbox /\ policy' = policy
  /\ \A i \in Jobs \ {j} : req'[i] = req[i] /\ row'[i] = row[i] /\ msg'[i] = msg[i]
  /\ Advances(row[j].status, row'[j].status)
  /\ \/ msg'[j] = msg[j]
     \/ /\ row'[j] = row[j] /\ msg[j].place \notin Live
        /\ msg'[j].place \in {"sent", "refused", "ready"}
  /\ SubmittedAt(j)'

(* A step of a worker, or of the broker that serves it, touches live       *)
(* messages and the row of the job in hand only.                           *)
RowEffect(w) ==
  \/ row' = row
  \/ /\ msg' = msg /\ wk[w].pc \in Handling
     /\ \A i \in Jobs \ {wk[w].job} : row'[i] = row[i]
     /\ Advances(row[wk[w].job].status, row'[wk[w].job].status)

MsgEffect ==
  \A j \in Jobs :
    \/ msg'[j] = msg[j]
    \/ /\ msg[j].place \in Live /\ msg'[j].place \in Live
       /\ msg'[j].valid = msg[j].valid
       /\ msg'[j].place = "acked" => row'[j].status = "succeeded"
       /\ msg'[j].place = "dead" /\ msg'[j].valid => row'[j].status = "failed"
       /\ msg'[j].place # "dropped"

WorkerEffect(w) ==
  /\ req' = req
  /\ policy => policy'
  /\ \A v \in Workers \ {w} : wk'[v] = wk[v] /\ inbox'[v] = inbox[v]
  /\ RowEffect(w)
  /\ MsgEffect
  /\ InHandAt(w)'
  /\ RecordedAt(w)'

(* What each statement of the table does to the status of a row.           *)
LEMMA StatusFacts ==
  ASSUME NEW r \in Row, NEW attempt \in Nat, NEW max \in Nat,
         NEW status \in {"succeeded", "failed", "retrying"}
  PROVE  /\ CreateJob(max).status = "publishing"
         /\ MarkQueued(r).status = IF r.status = "publishing" THEN "queued" ELSE r.status
         /\ MarkSubmissionFailed(r).status
              = IF r.status = "publishing" THEN "publish_failed" ELSE r.status
         /\ PrepareAttempt(r, attempt, max).status
              = IF Final(r) THEN r.status ELSE "processing"
         /\ Mark(r, status, attempt).status
              = IF MatchesMark(r, status) THEN status ELSE r.status
<1>1. CreateJob(max).status = "publishing"
  BY DEF CreateJob
<1>2. MarkQueued(r).status = IF r.status = "publishing" THEN "queued" ELSE r.status
  BY DEF MarkQueued, Row
<1>3. MarkSubmissionFailed(r).status
        = IF r.status = "publishing" THEN "publish_failed" ELSE r.status
  BY DEF MarkSubmissionFailed, Row
<1>4. PrepareAttempt(r, attempt, max).status = IF Final(r) THEN r.status ELSE "processing"
  BY DEF PrepareAttempt, Row, Final, FinalStatuses
<1>5. Mark(r, status, attempt).status = IF MatchesMark(r, status) THEN status ELSE r.status
  BY DEF Mark, Row
<1> QED BY <1>1, <1>2, <1>3, <1>4, <1>5, Zenon

(* Deliveries given back are live before and after.                        *)
LEMMA ReturnEffect ==
  ASSUME TypeInv, NEW w \in Workers, ReturnUnacked(w)
  PROVE  MsgEffect
<1>1. msg \in [Jobs -> Message]
  BY Typed
<1>2. ASSUME NEW j \in Jobs, NEW n \in {0, 1}
      PROVE  Requeued(j, n).place = "ready" /\ Requeued(j, n).valid = msg[j].valid
  <2>1. msg[j] \in Message
    BY <1>1
  <2> QED BY <2>1 DEF Requeued, Message
<1>3. ASSUME NEW j \in Jobs
      PROVE  \/ msg'[j] = msg[j]
             \/ /\ msg[j].place = "unacked" /\ msg'[j].place = "ready"
                /\ msg'[j].valid = msg[j].valid
  BY <1>2 DEF ReturnUnacked, Unacked
<1> QED BY <1>3, Zenon DEF MsgEffect, Live

(* What a worker goes on with while the broker moves live messages: the    *)
(* parts of the invariant that do not read its inbox.                      *)
HandKept(w) ==
  /\ wk[w].pc \in Handling => wk[w].job \in Jobs
  /\ wk'[w].pc = wk[w].pc /\ wk'[w].job = wk[w].job
  /\ wk'[w].seen = wk[w].seen /\ wk'[w].late = wk[w].late
  /\ row' = row /\ policy' = policy
  /\ \A i \in Jobs : msg[i].place \in Live => msg'[i].place \in Live /\ msg'[i].valid = msg[i].valid

(* The job in hand stays live and stays recorded as it was.                *)
LEMMA KeepHand ==
  ASSUME NEW w, HandKept(w), InHandAt(w), RecordedAt(w),
         \A i \in 1 .. Len(inbox'[w]) : msg'[inbox'[w][i].job].place \in Live
  PROVE  InHandAt(w)' /\ RecordedAt(w)'
<1>1. InHandAt(w)'
  BY Zenon DEF HandKept, InHandAt, InHandOf, Handling
<1>2. RecordedAt(w)'
  BY Zenon DEF HandKept, InHandAt, InHandOf, RecordedAt, RecordedOf, Handling
<1> QED BY <1>1, <1>2, Zenon

(* Each step of a worker keeps the worker's part of the invariant.         *)
LEMMA WorkerStepEffect ==
  ASSUME TypeInv, InHand, Recorded, NEW w \in Workers, WorkerAction(w)
  PROVE  WorkerEffect(w)
<1>1. /\ row \in [Jobs -> Row] /\ msg \in [Jobs -> Message] /\ wk \in [Workers -> Worker]
      /\ inbox \in [Workers -> Seq(Delivery)]
  BY Typed
<1>2. wk[w] \in Worker /\ (wk[w].pc \in Handling => wk[w].job \in Jobs)
  BY <1>1, Typed, Zenon
<1>3. InHandAt(w) /\ RecordedAt(w)
  BY DEF InHand, Recorded
<1>4. ASSUME NEW c \in Counters
      PROVE  /\ Goto(w, c).pc = c /\ Goto(w, c).job = wk[w].job
             /\ Goto(w, c).seen = wk[w].seen /\ Goto(w, c).late = wk[w].late
  BY <1>1, GotoRecord
<1>20. \A i \in 1 .. Len(inbox[w]) : inbox[w][i].job \in Jobs
  <2> TAKE i \in 1 .. Len(inbox[w])
  <2>1. inbox[w][i] \in Delivery
    BY <1>1
  <2> QED BY <2>1, Zenon DEF Delivery
<1>5. CASE Start(w)
  <2>1. wk'[w].pc = "starting"
    BY <1>1, <1>5, WorkerRecords, Zenon DEF Start
  <2>2. InHandAt(w)' /\ RecordedAt(w)'
    BY <1>3, <1>5, <2>1, Zenon
       DEF Start, InHandAt, InHandOf, RecordedAt, RecordedOf, Handling, brokerVars, tableVars
  <2> QED BY <1>1, <1>5, <2>2, Zenon
    DEF Start, WorkerEffect, RowEffect, MsgEffect, submitVars, brokerVars, tableVars
<1>6. CASE InstallPolicy(w)
  <2>1. wk'[w].pc = "exit" \/ (wk'[w].pc = "idle" /\ policy')
    BY <1>1, <1>4, <1>6, Zenon DEF InstallPolicy, Counters
  <2>2. InHandAt(w)' /\ RecordedAt(w)'
    BY <1>3, <1>6, <2>1, Zenon
       DEF InstallPolicy, InHandAt, InHandOf, RecordedAt, RecordedOf, Handling, tableVars
  <2>3. policy => policy'
    BY <1>6, Zenon DEF InstallPolicy
  <2>4. /\ req' = req /\ row' = row /\ msg' = msg /\ inbox' = inbox
        /\ \A v \in Workers \ {w} : wk'[v] = wk[v]
    BY <1>1, <1>6, Zenon DEF InstallPolicy, submitVars, tableVars
  <2> QED BY <2>2, <2>3, <2>4, Zenon DEF WorkerEffect, RowEffect, MsgEffect
<1>7. CASE Take(w)
  <2> DEFINE d == Head(inbox[w])
  <2>1. inbox[w] \in Seq(Delivery) /\ inbox[w] # <<>>
    BY <1>1, <1>7, Zenon DEF Take
  <2>11. d \in Delivery /\ d.job \in Jobs
    <3>1. d \in Delivery
      BY <2>1, TakeFirst, Zenon
    <3> QED BY <3>1 DEF Delivery
  <2>2. /\ d = inbox[w][1] /\ 1 \in 1 .. Len(inbox[w])
        /\ \A i \in 1 .. Len(Tail(inbox[w])) :
             i + 1 \in 1 .. Len(inbox[w]) /\ Tail(inbox[w])[i] = inbox[w][i + 1]
    BY <2>1, TakeFirst, Zenon
  <2>3. /\ wk'[w].pc = (IF msg[d.job].valid THEN "snapshot" ELSE "reject")
        /\ wk'[w].job = d.job /\ wk'[w].late = Final(row[d.job])
    <3>1. /\ AfterDecode(msg[d.job]) \in Counters
          /\ AfterDecode(msg[d.job]) = (IF msg[d.job].valid THEN "snapshot" ELSE "reject")
      BY DEF AfterDecode, Counters
    <3>2. wk'[w] = Took(w, d, AfterDecode(msg[d.job]))
      BY <1>1, <1>7, Zenon DEF Take
    <3> QED BY <1>1, <2>11, <3>1, <3>2, TookRecord
  <2>4. /\ inbox'[w] = Tail(inbox[w]) /\ wk[w].pc = "idle"
        /\ row' = row /\ msg' = msg /\ policy' = policy
    BY <1>1, <1>7, Zenon DEF Take, brokerVars, tableVars
  <2>7. \A i \in 1 .. Len(inbox'[w]) : msg'[inbox'[w][i].job].place \in Live
    BY <1>3, <2>2, <2>4, Zenon DEF InHandAt, InHandOf
  <2>8. msg[d.job].place \in Live /\ policy
    BY <1>3, <2>2, <2>4, Zenon DEF InHandAt, InHandOf
  <2>5. InHandAt(w)'
    BY <2>3, <2>4, <2>7, <2>8, Zenon DEF InHandAt, InHandOf
  <2>6. RecordedAt(w)'
    <3>1. CASE msg[d.job].valid
      <4>1. wk'[w].pc = "snapshot" /\ wk'[w].job = d.job
        BY <2>3, <3>1, Zenon
      <4>2. wk'[w].late => row[d.job].status \in FinalStatuses
        BY <2>3, Zenon DEF Final
      <4> QED BY <2>4, <3>1, <4>1, <4>2, Zenon DEF RecordedAt, RecordedOf
    <3>2. CASE ~msg[d.job].valid
      <4>1. wk'[w].pc = "reject" /\ wk'[w].job = d.job
        BY <2>3, <3>2, Zenon
      <4> QED BY <2>4, <3>2, <4>1, Zenon DEF RecordedAt, RecordedOf
    <3> QED BY <3>1, <3>2, Zenon
  <2> QED BY <1>1, <1>7, <2>5, <2>6, Zenon
    DEF Take, WorkerEffect, RowEffect, MsgEffect, submitVars, brokerVars, tableVars
<1>8. CASE Snapshot(w)
  <2>1. wk[w].job \in Jobs /\ row[wk[w].job].status \in RowStatuses \cup {"absent"}
    BY <1>1, <1>2, <1>8, Zenon DEF Snapshot, Handling, Row
  <2>2. /\ wk'[w].pc = "upsert" /\ wk'[w].job = wk[w].job /\ wk'[w].late = wk[w].late
        /\ wk'[w].seen = row[wk[w].job].status
    BY <1>1, <1>8, <2>1, SawRecord, Zenon DEF Snapshot
  <2>3. InHandAt(w)' /\ RecordedAt(w)'
    BY <1>3, <1>8, <2>2, Zenon DEF Snapshot, InHandAt, InHandOf, RecordedAt, RecordedOf, Handling, brokerVars, tableVars
  <2> QED BY <1>1, <1>8, <2>3, Zenon
    DEF Snapshot, WorkerEffect, RowEffect, MsgEffect, submitVars, brokerVars, tableVars
<1>9. CASE Upsert(w)
  <2> DEFINE j == wk[w].job
             next == AfterPrepare(PreparedStatus(w))
  <2>1. /\ j \in Jobs /\ row[j] \in Row /\ row[j].status \in RowStatuses \cup {"absent"}
        /\ wk[w].attempt \in Nat /\ msg[j].max \in Nat
    BY <1>1, <1>2, <1>9, Zenon DEF Upsert, Handling, Row, Worker, Message
  <2>2. Prepared(w).status = IF Final(row[j]) THEN row[j].status ELSE "processing"
    BY <2>1, StatusFacts, Zenon DEF Prepared
  <2>3. /\ row' = row \/ row' = [row EXCEPT ![j] = Prepared(w)]
        /\ msg' = msg /\ policy' = policy /\ req' = req /\ inbox' = inbox
    BY <1>9, Zenon DEF Upsert, submitVars, brokerVars
  <2>4. Advances(row[j].status, row'[j].status)
    BY <1>1, <2>1, <2>2, <2>3, Zenon
    DEF Advances, Final, RowStatuses, OpenStatuses, FinalStatuses, Lifecycle!Arrows
  <2>5. RowEffect(w)
    BY <1>1, <1>9, <2>3, <2>4, Zenon DEF Upsert, RowEffect, Handling
  <2>6. wk[w].pc = "upsert"
    BY <1>9, Zenon DEF Upsert
  <2>7. \/ wk' = [wk EXCEPT ![w] = Goto(w, "exit")]
        \/ wk' = [wk EXCEPT ![w] = Goto(w, next)] /\ row' = [row EXCEPT ![j] = Prepared(w)]
    BY <1>9, Zenon DEF Upsert
  <2>8. CASE wk' = [wk EXCEPT ![w] = Goto(w, "exit")]
    <3>1. wk'[w].pc = "exit"
      BY <1>1, <1>4, <2>8, Zenon DEF Counters
    <3> QED BY <1>1, <1>3, <2>3, <2>5, <2>8, <3>1, Zenon
      DEF WorkerEffect, MsgEffect, InHandAt, InHandOf, RecordedAt, RecordedOf, Handling
  <2>9. CASE wk' = [wk EXCEPT ![w] = Goto(w, next)] /\ row' = [row EXCEPT ![j] = Prepared(w)]
    <3>1. next \in Counters
      BY DEF AfterPrepare, Counters
    <3>2. /\ wk'[w].pc = next /\ wk'[w].job = j /\ wk'[w].seen = wk[w].seen
          /\ wk'[w].late = wk[w].late
      BY <1>1, <1>4, <2>9, <3>1, Zenon
    <3>3. row'[j].status = IF Final(row[j]) THEN row[j].status ELSE "processing"
      BY <1>1, <2>1, <2>2, <2>9, Zenon
    <3>4. CASE Final(row[j])
      <4>1. next = AfterPrepare(wk[w].seen)
        BY <3>4 DEF PreparedStatus
      <4>2. next \in {"ack", "reject", "exit", "process"}
        BY DEF AfterPrepare
      <4>3. /\ next = "ack" => wk[w].seen = "succeeded"
            /\ next = "reject" => wk[w].seen = "failed"
            /\ next = "process" => wk[w].seen \notin FinalStatuses
        BY <4>1 DEF AfterPrepare, FinalStatuses
      <4>4. row'[j].status = row[j].status /\ row[j].status \in FinalStatuses
        BY <3>3, <3>4, Zenon DEF Final
      <4>5. InHandAt(w)'
        BY <1>3, <2>3, <2>6, <3>2, <4>2, <4>4, Zenon
           DEF InHandAt, InHandOf, Handling, FinalStatuses, Worked
      <4>6. RecordedAt(w)'
        BY <1>3, <2>3, <2>6, <3>2, <4>2, <4>3, <4>4, Zenon
           DEF RecordedAt, RecordedOf, Handling, FinalStatuses
      <4> QED BY <1>1, <2>3, <2>5, <2>9, <4>5, <4>6, Zenon DEF WorkerEffect, MsgEffect
    <3>5. CASE ~Final(row[j])
      <4>1. next = "process"
        BY <3>5 DEF PreparedStatus, AfterPrepare
      <4>2. row'[j].status = "processing" /\ row[j].status \notin FinalStatuses
        BY <3>3, <3>5, Zenon DEF Final
      <4>3. InHandAt(w)'
        BY <1>3, <2>3, <2>6, <3>2, <4>1, <4>2, Zenon DEF InHandAt, InHandOf, Handling, Worked
      <4>4. RecordedAt(w)'
        BY <1>3, <2>3, <2>6, <3>2, <4>1, <4>2, Zenon DEF RecordedAt, RecordedOf, Handling
      <4> QED BY <1>1, <2>3, <2>5, <2>9, <4>3, <4>4, Zenon DEF WorkerEffect, MsgEffect
    <3> QED BY <3>4, <3>5, Zenon
  <2> QED BY <2>7, <2>8, <2>9, Zenon
<1>10. CASE Process(w)
  <2>1. \A r \in {"ok", "permanent", "transient"} : Outcome(w, r) \in {"succeeded", "failed", "retrying"}
    BY DEF Outcome
  <2>2. wk'[w].pc = "persist" /\ wk'[w].job = wk[w].job
    BY <1>1, <1>10, <2>1, DecidedRecord DEF Process
  <2>3. InHandAt(w)' /\ RecordedAt(w)'
    BY <1>3, <1>10, <2>2, Zenon
       DEF Process, InHandAt, InHandOf, RecordedAt, RecordedOf, Handling, brokerVars, tableVars
  <2> QED BY <1>1, <1>10, <2>3, Zenon
    DEF Process, WorkerEffect, RowEffect, MsgEffect, submitVars, brokerVars, tableVars
<1>11. CASE Persist(w)
  <2> DEFINE j == wk[w].job
             o == wk[w].outcome
             marked == [row EXCEPT ![j] = Mark(row[j], o, wk[w].attempt)]
             next == IF MatchesMark(row[j], o) THEN Settle(o) ELSE "exit"
  <2>1. wk[w].pc = "persist" /\ o # "none"
    BY <1>11, Zenon DEF Persist, TypeInv, HasDelivery
  <2>2. /\ j \in Jobs /\ row[j] \in Row /\ wk[w].attempt \in Nat
        /\ o \in {"succeeded", "failed", "retrying"} /\ row[j].status \in Worked
    BY <1>1, <1>2, <1>3, <2>1, Zenon DEF Handling, Worker, InHandAt, InHandOf
  <2>3. Mark(row[j], o, wk[w].attempt).status
          = IF MatchesMark(row[j], o) THEN o ELSE row[j].status
    BY <2>2, StatusFacts, Zenon
  <2>4. /\ row' = row \/ row' = marked
        /\ msg' = msg /\ policy' = policy /\ req' = req /\ inbox' = inbox
    BY <1>11, Zenon DEF Persist, submitVars, brokerVars
  <2>5. Advances(row[j].status, row'[j].status) /\ row'[j].status \in Worked
    BY <1>1, <2>2, <2>3, <2>4, Zenon
    DEF Advances, Worked, MatchesMark, OpenRow, OpenStatuses, Lifecycle!Arrows
  <2>6. RowEffect(w)
    BY <1>1, <2>1, <2>4, <2>5, Zenon DEF RowEffect, Handling
  <2>7. \/ wk' = [wk EXCEPT ![w] = Goto(w, "exit")]
        \/ wk' = [wk EXCEPT ![w] = Goto(w, next)] /\ row' = marked
    BY <1>11, Zenon DEF Persist
  <2>8. next \in {"ack", "reject", "requeue", "exit"}
    BY DEF Settle
  <2>9. /\ wk'[w].job = j /\ wk'[w].pc \in {"ack", "reject", "requeue", "exit"}
        /\ wk'[w].pc = "exit" \/ (wk'[w].pc = next /\ row' = marked)
    BY <1>1, <1>4, <2>7, <2>8 DEF Counters
  <2>10. /\ wk'[w].pc = "ack" => row'[j].status = "succeeded"
         /\ wk'[w].pc = "reject" => row'[j].status = "failed"
    BY <1>1, <2>2, <2>3, <2>9, Zenon DEF Settle
  <2>11. InHandAt(w)' /\ RecordedAt(w)'
    BY <1>3, <2>1, <2>4, <2>9, <2>10, Zenon DEF InHandAt, InHandOf, RecordedAt, RecordedOf, Handling
  <2> QED BY <1>1, <2>4, <2>6, <2>7, <2>11, Zenon DEF WorkerEffect, MsgEffect
<1>12. ASSUME NEW pc \in {"ack", "reject", "requeue"}, NEW settled \in Message,
              SettleDelivery(w, pc, settled), settled.place \in Live \ {"dropped"},
              settled.valid = msg[wk[w].job].valid,
              settled.place = "acked" => row[wk[w].job].status = "succeeded",
              settled.place = "dead" /\ settled.valid => row[wk[w].job].status = "failed"
       PROVE  WorkerEffect(w)
  <2>1. wk[w].pc = pc /\ wk[w].job \in Jobs /\ msg[wk[w].job].place \in Live
    BY <1>2, <1>3, <1>12, Zenon DEF SettleDelivery, Handling, InHandAt, InHandOf
  <2>2. /\ row' = row /\ req' = req /\ policy' = policy /\ inbox' = inbox
        /\ msg' = msg \/ msg' = [msg EXCEPT ![wk[w].job] = settled]
        /\ wk' = [wk EXCEPT ![w] = Idle(w)] \/ wk' = [wk EXCEPT ![w] = Goto(w, "exit")]
    BY <1>12, Zenon DEF SettleDelivery, submitVars, tableVars
  <2>3. wk'[w].pc \in {"idle", "exit"}
    <3>1. Idle(w).pc = "idle" /\ Goto(w, "exit").pc = "exit"
      BY <1>1, <1>4, WorkerRecords, Zenon DEF Counters
    <3> QED BY <1>1, <2>2, <3>1, Zenon
  <2>4. MsgEffect
    BY <1>1, <1>12, <2>1, <2>2, Zenon DEF MsgEffect
  <2>5. \A j \in Jobs : msg[j].place \in Live => msg'[j].place \in Live
    BY <2>4, Zenon DEF MsgEffect
  <2>6. \A i \in 1 .. Len(inbox[w]) : inbox[w][i].job \in Jobs
    BY <1>20, Zenon
  <2>7. InHandAt(w)' /\ RecordedAt(w)'
    BY <1>3, <1>12, <2>1, <2>2, <2>3, <2>5, <2>6, Zenon DEF InHandAt, InHandOf, RecordedAt, RecordedOf, Handling
  <2> QED BY <1>1, <2>2, <2>4, <2>7, Zenon DEF WorkerEffect, RowEffect
<1>13. CASE Ack(w)
  <2>1. wk[w].pc = "ack" /\ wk[w].job \in Jobs /\ row[wk[w].job].status = "succeeded"
    BY <1>2, <1>3, <1>13, Zenon DEF Ack, SettleDelivery, Handling, RecordedAt, RecordedOf
  <2>2. /\ Put(wk[w].job, "acked") \in Message /\ Put(wk[w].job, "acked").place = "acked"
        /\ Put(wk[w].job, "acked").valid = msg[wk[w].job].valid
    BY <1>1, <2>1, MessageRecords DEF Places
  <2> QED BY <1>12, <1>13, <2>1, <2>2, Zenon DEF Ack, Live
<1>14. CASE Reject(w)
  <2>1. /\ wk[w].pc = "reject" /\ wk[w].job \in Jobs /\ policy
        /\ msg[wk[w].job].valid => row[wk[w].job].status = "failed"
    BY <1>2, <1>3, <1>14, Zenon
       DEF Reject, SettleDelivery, Handling, RecordedAt, RecordedOf, InHandAt, InHandOf
  <2>2. /\ Put(wk[w].job, "dead") \in Message /\ Put(wk[w].job, "dead").place = "dead"
        /\ Put(wk[w].job, "dead").valid = msg[wk[w].job].valid
    BY <1>1, <2>1, MessageRecords DEF Places
  <2>3. SettleDelivery(w, "reject", Put(wk[w].job, "dead"))
    BY <1>14, <2>1, Zenon DEF Reject
  <2> QED BY <1>12, <2>1, <2>2, <2>3, Zenon DEF Live
<1>15. CASE Requeue(w)
  <2>1. wk[w].pc = "requeue" /\ wk[w].job \in Jobs
    BY <1>2, <1>15, Zenon DEF Requeue, SettleDelivery, Handling
  <2>2. /\ Requeued(wk[w].job, 1) \in Message /\ Requeued(wk[w].job, 1).place = "ready"
        /\ Requeued(wk[w].job, 1).valid = msg[wk[w].job].valid
    BY <1>1, <2>1, MessageRecords DEF Places
  <2> QED BY <1>12, <1>15, <2>1, <2>2, Zenon DEF Requeue, Live
<1>16. CASE NoticeClosed(w)
  <2>1. wk'[w].pc = "exit"
    BY <1>1, <1>4, <1>16, Zenon DEF NoticeClosed, Counters
  <2>2. InHandAt(w)' /\ RecordedAt(w)'
    BY <1>3, <1>16, <2>1, Zenon
       DEF NoticeClosed, InHandAt, InHandOf, RecordedAt, RecordedOf, Handling, brokerVars, tableVars
  <2> QED BY <1>1, <1>16, <2>2, Zenon
    DEF NoticeClosed, WorkerEffect, RowEffect, MsgEffect, submitVars, brokerVars, tableVars
<1>17. CASE Exit(w) \/ Stop(w)
  <2>1. /\ ReturnUnacked(w) /\ wk' = [wk EXCEPT ![w] = Down]
        /\ inbox' = [inbox EXCEPT ![w] = <<>>]
        /\ row' = row /\ req' = req /\ policy' = policy
    BY <1>17 DEF Exit, Stop, Terminate, submitVars, tableVars
  <2>2. wk'[w].pc = "down" /\ inbox'[w] = <<>>
    BY <1>1, <2>1, Zenon DEF Down
  <2>3. InHandAt(w)' /\ RecordedAt(w)'
    BY <2>2 DEF InHandAt, InHandOf, RecordedAt, RecordedOf, Handling
  <2>4. MsgEffect
    BY <2>1, ReturnEffect, Zenon
  <2> QED BY <1>1, <2>1, <2>3, <2>4, Zenon DEF WorkerEffect, RowEffect
<1>18. CASE ConnectionLost(w)
  <2>1. /\ ReturnUnacked(w) /\ wk' = [wk EXCEPT ![w] = Disconnected(w)]
        /\ row' = row /\ req' = req /\ policy' = policy /\ inbox' = inbox
    BY <1>18, Zenon DEF ConnectionLost, submitVars, tableVars
  <2>2. /\ wk'[w].pc = wk[w].pc /\ wk'[w].job = wk[w].job /\ wk'[w].seen = wk[w].seen
        /\ wk'[w].late = wk[w].late
    BY <1>1, <2>1, WorkerRecords, Zenon
  <2>3. MsgEffect
    BY <2>1, ReturnEffect, Zenon
  <2>4. \A j \in Jobs : msg[j].place \in Live => msg'[j].place \in Live /\ msg'[j].valid = msg[j].valid
    BY <2>3, Zenon DEF MsgEffect
  <2>5. \A i \in 1 .. Len(inbox[w]) : inbox[w][i].job \in Jobs
    BY <1>20, Zenon
  <2>6. \A i \in 1 .. Len(inbox'[w]) : msg'[inbox'[w][i].job].place \in Live
    BY <1>3, <2>1, <2>4, <2>5, Zenon DEF InHandAt, InHandOf
  <2>7. HandKept(w)
    BY <1>2, <2>1, <2>2, <2>4, Zenon DEF HandKept
  <2>8. InHandAt(w)' /\ RecordedAt(w)'
    BY <1>3, <2>6, <2>7, KeepHand, Zenon
  <2> QED BY <1>1, <2>1, <2>3, <2>8, Zenon DEF WorkerEffect, RowEffect
<1>19. ASSUME NEW j \in Jobs, Deliver(w, j) PROVE WorkerEffect(w)
  <2> DEFINE d == [job |-> j, attempt |-> msg[j].count + 1]
  <2>1. /\ msg' = [msg EXCEPT ![j] = Held(j, w)] /\ msg[j].place = "ready"
        /\ inbox' = [inbox EXCEPT ![w] = Append(inbox[w], d)]
        /\ row' = row /\ req' = req /\ policy' = policy /\ wk' = wk
    BY <1>19, Zenon DEF Deliver, submitVars, tableVars
  <2>2. msg'[j].place = "unacked" /\ msg'[j].valid = msg[j].valid
    BY <1>1, <2>1, MessageRecords DEF Places
  <2>3. MsgEffect
    BY <1>1, <2>1, <2>2, Zenon DEF MsgEffect, Live
  <2>4. \A i \in Jobs : msg[i].place \in Live => msg'[i].place \in Live /\ msg'[i].valid = msg[i].valid
    BY <2>3 DEF MsgEffect
  <2>5. d \in Delivery /\ d.job = j
    BY <1>1 DEF Delivery, Message
  <2>6. /\ Len(inbox'[w]) = Len(inbox[w]) + 1 /\ Len(inbox[w]) \in Nat
        /\ \A i \in 1 .. Len(inbox[w]) : inbox'[w][i] = inbox[w][i]
        /\ inbox'[w][Len(inbox[w]) + 1] = d
    BY <1>1, <2>1, <2>5, AddLast
  <2>7. \A i \in 1 .. Len(inbox'[w]) : msg'[inbox'[w][i].job].place \in Live
    <3> TAKE i \in 1 .. Len(inbox'[w])
    <3>1. CASE i \in 1 .. Len(inbox[w])
      BY <1>3, <1>20, <2>4, <2>6, <3>1, Zenon DEF InHandAt, InHandOf
    <3>2. CASE i = Len(inbox[w]) + 1
      BY <2>2, <2>5, <2>6, <3>2, Zenon DEF Live
    <3> QED BY <2>6, <3>1, <3>2
  <2>8. HandKept(w)
    BY <1>2, <2>1, <2>4, Zenon DEF HandKept
  <2>9. InHandAt(w)' /\ RecordedAt(w)'
    BY <1>3, <2>7, <2>8, KeepHand, Zenon
  <2> QED BY <1>1, <2>1, <2>3, <2>9, Zenon DEF WorkerEffect, RowEffect
<1> QED
  BY <1>5, <1>6, <1>7, <1>8, <1>9, <1>10, <1>11, <1>13, <1>14, <1>15, <1>16, <1>17, <1>18, <1>19, Zenon
  DEF WorkerAction, WorkerStep

(* Each step of a request keeps the submission's part of the invariant.    *)
LEMMA RequestEffect ==
  ASSUME TypeInv, Submitted, NEW j \in Jobs, RequestAction(j)
  PROVE  JobEffect(j)
<1>1. /\ row \in [Jobs -> Row] /\ req \in [Jobs -> Request] /\ msg \in [Jobs -> Message]
      /\ row[j] \in Row /\ req[j].max \in Nat
      /\ row[j].status \in RowStatuses \cup {"absent"}
  BY Typed, Zenon DEF Request, Row
<1>2. SubmittedAt(j)
  BY DEF Submitted
<1>3. CASE Submit(j)
  <2>1. req'[j].phase \in {"create", "done"} /\ req'[j].confirm = req[j].confirm
        /\ (req'[j].reply = req[j].reply \/ req'[j].reply = "400")
    <3>1. PICK value \in Requested, payloadValid \in BOOLEAN :
            req' = [req EXCEPT ![j] =
                      IF payloadValid /\ ValidMaxAttempts(value)
                      THEN Validated(j, NormalizeMaxAttempts(value)) ELSE Answered(j, "400")]
      BY <1>3, Zenon DEF Submit
    <3>2. ValidMaxAttempts(value) => NormalizeMaxAttempts(value) \in Nat
      BY AttemptsAssumption DEF ValidMaxAttempts, NormalizeMaxAttempts
    <3>4. req'[j] = Answered(j, "400") \/ \E n \in Nat : req'[j] = Validated(j, n)
      BY <1>1, <3>1, <3>2, Zenon
    <3>3. "400" \in Replies
      BY DEF Replies
    <3> QED BY <1>1, <3>3, <3>4, RequestRecords
  <2>2. SubmittedAt(j)'
    BY <1>2, <1>3, <2>1, Zenon DEF Submit, SubmittedAt, tableVars, brokerVars
  <2> QED BY <1>1, <1>3, <2>2, Zenon
    DEF Submit, JobEffect, Advances, tableVars, brokerVars, workerVars
<1>4. CASE Cancel(j)
  <2>1. /\ req'[j].phase = req[j].phase /\ req'[j].confirm = req[j].confirm
        /\ req'[j].reply = req[j].reply
    BY <1>1, <1>4, RequestRecords, Zenon DEF Cancel
  <2>2. SubmittedAt(j)'
    BY <1>2, <1>4, <2>1, Zenon DEF Cancel, SubmittedAt, tableVars, brokerVars
  <2> QED BY <1>1, <1>4, <2>2, Zenon
    DEF Cancel, JobEffect, Advances, tableVars, brokerVars, workerVars
<1>5. CASE Create(j)
  <2>1. /\ req'[j].confirm = req[j].confirm
        /\ \/ req'[j].phase = "lock" /\ req'[j].reply = req[j].reply
              /\ row'[j].status = "publishing"
           \/ req'[j].phase = "done" /\ req'[j].reply = "503"
              /\ row'[j].status \in {row[j].status, "publishing"}
    BY <1>1, <1>5, RequestRecords, StatusFacts DEF Create, StatementFails, Phases, Replies
  <2>2. SubmittedAt(j)' /\ Advances(row[j].status, row'[j].status)
    BY <1>2, <1>5, <2>1, Zenon DEF Create, SubmittedAt, Advances, Lifecycle!Arrows, brokerVars
  <2> QED BY <1>1, <1>5, <2>2, Zenon
    DEF Create, StatementFails, JobEffect, brokerVars, workerVars
<1>6. CASE Lock(j)
  <2>1. /\ req'[j].phase = "publish" /\ req'[j].confirm = req[j].confirm
        /\ req'[j].reply = req[j].reply
    BY <1>1, <1>6, RequestRecords DEF Lock, Phases
  <2>2. SubmittedAt(j)'
    BY <1>2, <1>6, <2>1, Zenon DEF Lock, SubmittedAt, tableVars, brokerVars
  <2> QED BY <1>1, <1>6, <2>2, Zenon
    DEF Lock, JobEffect, Advances, tableVars, brokerVars, workerVars
<1>7. CASE Publish(j)
  <2>1. /\ req'[j].phase \in {"confirm", "markFailed"} /\ req'[j].confirm = req[j].confirm
        /\ req'[j].reply = req[j].reply
    <3>1. \A x \in {"confirm", "markFailed"} :
            /\ At(j, x).phase = x /\ At(j, x).confirm = req[j].confirm
            /\ At(j, x).reply = req[j].reply
      BY <1>1, RequestRecords DEF Phases
    <3>2. req' = [req EXCEPT ![j] = At(j, "confirm")] \/ req' = [req EXCEPT ![j] = At(j, "markFailed")]
      BY <1>7, Zenon DEF Publish, PublishReturns
    <3> QED BY <1>1, <3>1, <3>2, Zenon
  <2>2. Published(j, "sent", req[j].max, TRUE).place = "sent"
    <3>1. msg[j] \in Message
      BY <1>1
    <3> QED BY <3>1, Zenon DEF Published, Message
  <2>3. msg'[j] = msg[j] \/ msg'[j].place = "sent"
    BY <1>1, <1>7, <2>2, Zenon DEF Publish
  <2>4. msg[j].place = "none"
    BY <1>2, <1>7, Zenon DEF Publish, SubmittedAt
  <2>5. SubmittedAt(j)'
    BY <1>2, <1>7, <2>1, <2>3, <2>4, Zenon DEF Publish, SubmittedAt, Live, tableVars
  <2> QED BY <1>1, <1>7, <2>3, <2>4, <2>5, Zenon
    DEF Publish, PublishReturns, JobEffect, Advances, Live, tableVars, workerVars
<1>8. CASE Confirmed(j)
  <2>1. /\ req'[j].phase = "markQueued" /\ req'[j].confirm = req[j].confirm
        /\ req'[j].reply = req[j].reply
    BY <1>1, <1>8, RequestRecords DEF Confirmed, PublishReturns, Phases
  <2>2. SubmittedAt(j)'
    BY <1>2, <1>8, <2>1, Zenon DEF Confirmed, SubmittedAt, tableVars, brokerVars
  <2> QED BY <1>1, <1>8, <2>2, Zenon
    DEF Confirmed, PublishReturns, JobEffect, Advances, tableVars, brokerVars, workerVars
<1>9. CASE Unconfirmed(j)
  <2>1. /\ req'[j].phase = "markFailed" /\ req'[j].confirm = req[j].confirm
        /\ req'[j].reply = req[j].reply
    BY <1>1, <1>9, RequestRecords DEF Unconfirmed, PublishReturns, Phases
  <2>2. SubmittedAt(j)'
    BY <1>2, <1>9, <2>1, Zenon DEF Unconfirmed, SubmittedAt, tableVars, brokerVars
  <2> QED BY <1>1, <1>9, <2>2, Zenon
    DEF Unconfirmed, PublishReturns, JobEffect, Advances, tableVars, brokerVars, workerVars
<1>10. CASE RecordQueued(j)
  <2>1. /\ req'[j].phase = "done" /\ req'[j].confirm = req[j].confirm
        /\ req'[j].reply = "202"
    BY <1>1, <1>10, RequestRecords DEF RecordQueued, RecordAndAnswer, Replies
  <2>2. \/ row'[j].status = row[j].status
        \/ row[j].status = "publishing" /\ row'[j].status = "queued"
    BY <1>1, <1>10, StatusFacts DEF RecordQueued, RecordAndAnswer, StatementFails
  <2>3. SubmittedAt(j)' /\ Advances(row[j].status, row'[j].status)
    BY <1>2, <1>10, <2>1, <2>2, Zenon
    DEF RecordQueued, RecordAndAnswer, SubmittedAt, Advances, Lifecycle!Arrows, brokerVars
  <2> QED BY <1>1, <1>10, <2>3, Zenon
    DEF RecordQueued, RecordAndAnswer, StatementFails, JobEffect, brokerVars, workerVars
<1>11. CASE RecordFailure(j)
  <2>1. /\ req'[j].phase = "done" /\ req'[j].confirm = req[j].confirm
        /\ req'[j].reply = "503"
    BY <1>1, <1>11, RequestRecords, Zenon DEF RecordFailure, RecordAndAnswer, Replies
  <2>2. \/ row'[j].status = row[j].status
        \/ row[j].status = "publishing" /\ row'[j].status = "publish_failed"
    BY <1>1, <1>11, StatusFacts DEF RecordFailure, RecordAndAnswer, StatementFails
  <2>3. SubmittedAt(j)' /\ Advances(row[j].status, row'[j].status)
    BY <1>2, <1>11, <2>1, <2>2, Zenon
    DEF RecordFailure, RecordAndAnswer, SubmittedAt, Advances, Lifecycle!Arrows, brokerVars
  <2> QED BY <1>1, <1>11, <2>3, Zenon
    DEF RecordFailure, RecordAndAnswer, StatementFails, JobEffect, brokerVars, workerVars
<1>12. CASE BrokerAccepts(j)
  <2>1. msg[j].place = "sent" /\ msg'[j].place = "ready"
    BY <1>1, <1>12, MessageRecords DEF BrokerAccepts, Places
  <2>2. /\ req'[j].phase = req[j].phase /\ req'[j].reply = req[j].reply
        /\ req'[j].confirm \in {req[j].confirm, "acked"}
        /\ j \in Foreign => req'[j].confirm = req[j].confirm
    BY <1>1, <1>2, <1>12, RequestRecords, Zenon DEF BrokerAccepts, Confirm, SubmittedAt
  <2>3. SubmittedAt(j)'
    BY <1>2, <1>12, <2>1, <2>2, Zenon DEF BrokerAccepts, SubmittedAt, Live, tableVars
  <2> QED BY <1>1, <1>12, <2>1, <2>3
    DEF BrokerAccepts, Confirm, JobEffect, Advances, Live, tableVars, workerVars
<1>13. CASE BrokerRefuses(j)
  <2>1. msg[j].place = "sent" /\ msg'[j].place = "refused"
    BY <1>1, <1>13, MessageRecords DEF BrokerRefuses, Places
  <2>2. /\ req'[j].phase = req[j].phase /\ req'[j].reply = req[j].reply
        /\ req'[j].confirm \in {req[j].confirm, "nacked"}
        /\ j \in Foreign => req'[j].confirm = req[j].confirm
    BY <1>1, <1>2, <1>13, RequestRecords, Zenon DEF BrokerRefuses, Confirm, SubmittedAt
  <2>3. SubmittedAt(j)'
    BY <1>2, <1>13, <2>1, <2>2, Zenon DEF BrokerRefuses, SubmittedAt, Live, tableVars
  <2> QED BY <1>1, <1>13, <2>1, <2>3, Zenon
    DEF BrokerRefuses, Confirm, JobEffect, Advances, Live, tableVars, workerVars
<1>14. CASE ForeignMessage(j)
  <2>1. msg[j].place = "none" /\ msg'[j].place = "ready" /\ j \in Foreign
    BY <1>1, <1>14, MessageRecords, AttemptsAssumption DEF ForeignMessage, Places
  <2>2. SubmittedAt(j)'
    BY <1>2, <1>14, <2>1, Zenon DEF ForeignMessage, SubmittedAt, Live, submitVars, tableVars
  <2> QED BY <1>1, <1>14, <2>1, <2>2, Zenon
    DEF ForeignMessage, JobEffect, Advances, Live, submitVars, tableVars, workerVars
<1> QED
  BY <1>3, <1>4, <1>5, <1>6, <1>7, <1>8, <1>9, <1>10, <1>11, <1>12, <1>13, <1>14, Zenon
  DEF RequestAction, RequestStep, BrokerStep

-----------------------------------------------------------------------------
(* The invariant.                                                          *)

(* Along an arrow a final status stays, and nothing is unrecorded.         *)
LEMMA AdvanceFacts ==
  ASSUME NEW a, NEW b, Advances(a, b)
  PROVE  /\ a \in FinalStatuses => b = a
         /\ a \in Worked => b \in Worked
         /\ a # "absent" => b # "absent"
BY DEF Advances, FinalStatuses, Worked, Lifecycle!Arrows

(* Other actors cannot invalidate what a worker knows, given its record,   *)
(* its inbox, the messages and the rows: messages stay live and statuses   *)
(* only advance.                                                           *)
LEMMA InHandStill ==
  ASSUME NEW v, NEW box \in Seq(Delivery), NEW m, NEW n, NEW r, NEW s, NEW p, NEW q, p => q,
         InHandOf(v, box, m, r, p), v.pc \in Handling => v.job \in Jobs,
         \A i \in Jobs : m[i].place \in Live => n[i].place \in Live /\ n[i].valid = m[i].valid,
         \A i \in Jobs : Advances(r[i].status, s[i].status)
  PROVE  InHandOf(v, box, n, s, q)
<1>1. \A i \in 1 .. Len(box) : n[box[i].job].place \in Live
  <2> TAKE i \in 1 .. Len(box)
  <2>1. box[i] \in Delivery
    OBVIOUS
  <2>2. box[i].job \in Jobs
    BY <2>1, Zenon DEF Delivery
  <2> QED BY <2>2, Zenon DEF InHandOf
<1>2. v.pc \in {"process", "persist"} => s[v.job].status \in Worked
  BY AdvanceFacts, Zenon DEF InHandOf, Handling
<1> QED BY <1>1, <1>2, Zenon DEF InHandOf

LEMMA RecordedStill ==
  ASSUME NEW v, NEW box, NEW m, NEW n, NEW r, NEW s, NEW p,
         InHandOf(v, box, m, r, p), RecordedOf(v, m, r), v.pc \in Handling => v.job \in Jobs,
         \A i \in Jobs : m[i].place \in Live => n[i].place \in Live /\ n[i].valid = m[i].valid,
         \A i \in Jobs : Advances(r[i].status, s[i].status)
  PROVE  RecordedOf(v, n, s)
<1>1. v.pc \in Handling =>
        /\ n[v.job].valid = m[v.job].valid
        /\ r[v.job].status \in FinalStatuses => s[v.job].status = r[v.job].status
  BY AdvanceFacts, Zenon DEF InHandOf
<1> QED BY <1>1, Zenon DEF RecordedOf, Handling, FinalStatuses

(* So what a worker knows stays true while it does not move.               *)
LEMMA KeepWorker ==
  ASSUME TypeInv, NEW v \in Workers, InHandAt(v), RecordedAt(v),
         wk'[v] = wk[v], inbox'[v] = inbox[v], policy => policy',
         \A i \in Jobs : msg[i].place \in Live
                           => msg'[i].place \in Live /\ msg'[i].valid = msg[i].valid,
         \A i \in Jobs : Advances(row[i].status, row'[i].status)
  PROVE  InHandAt(v)' /\ RecordedAt(v)'
<1>1. inbox[v] \in Seq(Delivery) /\ (wk[v].pc \in Handling => wk[v].job \in Jobs)
  BY Typed, Zenon
<1>2. InHandOf(wk[v], inbox[v], msg', row', policy')
  BY <1>1, InHandStill DEF InHandAt
<1>3. RecordedOf(wk[v], msg', row')
  BY <1>1, RecordedStill, Zenon DEF InHandAt, RecordedAt
<1> QED BY <1>2, <1>3, Zenon DEF InHandAt, RecordedAt

(* The initial state satisfies the invariant.                              *)
LEMMA SafeInit == Init => SafeInv
<1> SUFFICES ASSUME Init PROVE SafeInv
  OBVIOUS
<1>1. TypeInv
  BY TypeInit, Zenon
<1>2. Submitted
  BY Zenon DEF Init, Submitted, SubmittedAt, NoRow
<1>3. InHand /\ Recorded
  BY DEF Init, InHand, InHandAt, InHandOf, Recorded, RecordedAt, RecordedOf, Down, Handling
<1>4. SettledAsRecorded
  BY Zenon DEF Init, SettledAsRecorded
<1> QED BY <1>1, <1>2, <1>3, <1>4, Zenon DEF SafeInv

(* The invariant is preserved by every step.                               *)
LEMMA SafeStep == SafeInv /\ [Next]_vars => SafeInv'
<1> SUFFICES ASSUME SafeInv, [Next]_vars PROVE SafeInv'
  OBVIOUS
<1>1. TypeInv /\ Submitted /\ InHand /\ Recorded /\ SettledAsRecorded
  BY DEF SafeInv
<1>2. TypeInv'
  BY <1>1, TypeStep, Zenon
<1>3. ASSUME NEW j \in Jobs, RequestAction(j) PROVE SafeInv'
  <2>1. JobEffect(j)
    BY <1>1, <1>3, RequestEffect, Zenon
  <2>2. Submitted'
    <3>1. ASSUME NEW i \in Jobs \ {j} PROVE SubmittedAt(i)'
      <4>1. req'[i] = req[i] /\ row'[i] = row[i] /\ msg'[i] = msg[i] /\ SubmittedAt(i)
        BY <1>1, <2>1, Zenon DEF JobEffect, Submitted
      <4> QED BY <4>1, Zenon DEF SubmittedAt
    <3> QED BY <2>1, <3>1, Zenon DEF JobEffect, Submitted
  <2>3. ASSUME NEW i \in Jobs
        PROVE  /\ Advances(row[i].status, row'[i].status)
               /\ msg[i].place \in Live => msg'[i] = msg[i]
               /\ msg'[i] = msg[i] \/ msg'[i].place \in {"sent", "refused", "ready"}
    BY <2>1, Zenon DEF JobEffect, Advances
  <2>4. InHand' /\ Recorded'
    <3>1. ASSUME NEW v \in Workers PROVE InHandAt(v)' /\ RecordedAt(v)'
      BY <1>1, <2>1, <2>3, KeepWorker, Zenon DEF JobEffect, InHand, Recorded
    <3> QED BY <3>1, Zenon DEF InHand, Recorded
  <2>5. SettledAsRecorded'
    BY <1>1, <2>3, AdvanceFacts DEF SettledAsRecorded, FinalStatuses
  <2> QED BY <1>2, <2>2, <2>4, <2>5, Zenon DEF SafeInv
<1>4. ASSUME NEW w \in Workers, WorkerAction(w) PROVE SafeInv'
  <2>1. WorkerEffect(w)
    BY <1>1, <1>4, WorkerStepEffect, Zenon
  <2>2. wk[w].pc \in Handling => wk[w].job \in Jobs /\ msg[wk[w].job].place \in Live
    BY <1>1, Typed, Zenon DEF InHand, InHandAt, InHandOf
  <2>3. ASSUME NEW i \in Jobs
        PROVE  /\ Advances(row[i].status, row'[i].status)
               /\ msg[i].place \notin Live => row'[i] = row[i] /\ msg'[i] = msg[i]
               /\ msg[i].place \in Live => msg'[i].place \in Live /\ msg'[i].valid = msg[i].valid
    BY <2>1, <2>2, Zenon DEF WorkerEffect, RowEffect, MsgEffect, Advances
  <2>4. Submitted'
    <3>1. ASSUME NEW i \in Jobs PROVE SubmittedAt(i)'
      <4>1. req'[i] = req[i] /\ SubmittedAt(i)
        BY <1>1, <2>1, Zenon DEF WorkerEffect, Submitted
      <4>2. row[i].status # "absent" => row'[i].status # "absent"
        BY <2>3, AdvanceFacts, Zenon
      <4> QED BY <2>3, <4>1, <4>2, Zenon DEF SubmittedAt, Live
    <3> QED BY <3>1 DEF Submitted
  <2>5. InHand' /\ Recorded'
    <3>1. ASSUME NEW v \in Workers \ {w} PROVE InHandAt(v)' /\ RecordedAt(v)'
      <4>1. /\ wk'[v] = wk[v] /\ inbox'[v] = inbox[v]
            /\ policy => policy'
            /\ InHandAt(v) /\ RecordedAt(v)
        BY <1>1, <2>1, Zenon DEF WorkerEffect, InHand, Recorded
      <4> QED BY <1>1, <2>3, <4>1, KeepWorker, Zenon
    <3> QED BY <2>1, <3>1, Zenon DEF WorkerEffect, InHand, Recorded
  <2>6. SettledAsRecorded'
    <3>1. ASSUME NEW i \in Jobs, msg'[i] = msg[i]
          PROVE  /\ msg'[i].place = "acked" => row'[i].status = "succeeded"
                 /\ msg'[i].place = "dead" /\ msg'[i].valid => row'[i].status = "failed"
                 /\ msg'[i].place # "dropped"
      BY <1>1, <2>3, <3>1, AdvanceFacts DEF SettledAsRecorded, FinalStatuses
    <3> QED BY <2>1, <3>1, Zenon DEF WorkerEffect, MsgEffect, SettledAsRecorded
  <2> QED BY <1>2, <2>4, <2>5, <2>6, Zenon DEF SafeInv
<1>5. CASE ControlPlaneRestart
  <2>1. UNCHANGED <<row, msg, policy, wk, inbox>>
    BY <1>5 DEF ControlPlaneRestart, tableVars, brokerVars, workerVars
  <2>2. ASSUME NEW i \in Jobs PROVE SubmittedAt(i)'
    <3>1. \/ req'[i] = req[i]
          \/ /\ req[i].phase # "idle"
             /\ req'[i].phase = "done" /\ req'[i].reply = "lost"
             /\ req'[i].confirm = req[i].confirm
      <4>1. req \in [Jobs -> Request]
        BY <1>1, Typed, Zenon
      <4> QED BY <1>5, <4>1, RequestRecords, Zenon DEF ControlPlaneRestart, Replies
    <3>2. SubmittedAt(i)
      BY <1>1, Zenon DEF Submitted
    <3> QED BY <2>1, <3>1, <3>2, Zenon DEF SubmittedAt
  <2>3. Submitted' /\ InHand' /\ Recorded' /\ SettledAsRecorded'
    BY <1>1, <2>1, <2>2, Zenon DEF Submitted, InHand, InHandAt, Recorded, RecordedAt, SettledAsRecorded
  <2> QED BY <1>2, <2>3, Zenon DEF SafeInv
<1>6. CASE PublisherLost \/ UNCHANGED vars
  <2>1. UNCHANGED <<row, req, msg, policy, wk, inbox>>
    BY <1>6, Zenon DEF PublisherLost, vars, tableVars, brokerVars, workerVars
  <2>2. Submitted' /\ InHand' /\ Recorded' /\ SettledAsRecorded'
    BY <1>1, <2>1, Zenon DEF Submitted, SubmittedAt, InHand, InHandAt, Recorded, RecordedAt,
                             SettledAsRecorded
  <2> QED BY <1>2, <2>2 DEF SafeInv
<1> QED BY <1>3, <1>4, <1>5, <1>6, Zenon DEF Next, RequestAction, WorkerAction

(* The invariant holds in every reachable state.                           *)
LEMMA SafeInvariant == Spec => []SafeInv
BY SafeInit, SafeStep, PTL DEF Spec

(* A message leaves the queue only by the door its recorded status names,  *)
(* whatever fails between recording an outcome and settling the delivery,  *)
(* and however many workers hold deliveries of the job.                    *)
THEOREM SettledCorrect == Spec => []SettledAsRecorded
<1>1. SafeInv => SettledAsRecorded
  BY DEF SafeInv
<1> QED BY <1>1, SafeInvariant, PTL

(* A submission answered 202 has a row, and a message the broker keeps.    *)
THEOREM AcceptedCorrect == Spec => []AcceptedNotLost
<1>1. SafeInv => AcceptedNotLost
  BY Zenon DEF SafeInv, Submitted, SubmittedAt, SettledAsRecorded, AcceptedNotLost, Live
<1> QED BY <1>1, SafeInvariant, PTL

(* A delivery taken after its job had finished never executes it again.    *)
THEOREM FinishedCorrect == Spec => []FinishedNotRerun
<1>1. SafeInv => FinishedNotRerun
  BY Zenon DEF SafeInv, Recorded, RecordedAt, RecordedOf, FinishedNotRerun
<1> QED BY <1>1, SafeInvariant, PTL
-----------------------------------------------------------------------------
(* With one worker the status follows the README's diagram.  Nobody else   *)
(* then closes the attempt the worker is at: the row is "processing" while *)
(* it executes, and if the job has finished by the upsert, the snapshot    *)
(* said so.                                                                *)
AttendedOf(v, r) ==
  /\ v.pc = "upsert" /\ r[v.job].status \in FinalStatuses => v.seen \in FinalStatuses
  /\ v.pc \in {"process", "persist"} => r[v.job].status = "processing"

Attended == \A w \in Workers : AttendedOf(wk[w], row)

(* The statuses a submission writes.                                       *)
Submission == {"publishing", "queued", "publish_failed"}

(* A step of a request leaves every status alone, or writes one of its own.*)
LEMMA RequestStatus ==
  ASSUME TypeInv, Submitted, NEW j \in Jobs, RequestAction(j), NEW i \in Jobs
  PROVE  row'[i].status = row[i].status \/ row'[i].status \in Submission
<1>1. row \in [Jobs -> Row] /\ row[j] \in Row /\ req[j].max \in Nat
  BY Typed, Zenon DEF Request
<1>2. PICK r : /\ row' = row \/ row' = [row EXCEPT ![j] = r]
               /\ r \in {CreateJob(req[j].max), MarkQueued(row[j]), MarkSubmissionFailed(row[j])}
  <2>1. \/ row' = row
        \/ \E r \in {CreateJob(req[j].max), MarkQueued(row[j]), MarkSubmissionFailed(row[j])} :
             row' = [row EXCEPT ![j] = r]
    BY Zenon DEF RequestAction, RequestStep, BrokerStep, Submit, Cancel, Create, Lock, Publish, Confirmed,
        Unconfirmed, RecordQueued, RecordFailure, RecordAndAnswer, StatementFails,
        BrokerAccepts, BrokerRefuses, ForeignMessage, tableVars
  <2> QED BY <2>1, Zenon
<1>3. r.status \in Submission \/ r.status = row[j].status
  <2>1. /\ CreateJob(req[j].max).status = "publishing"
        /\ MarkQueued(row[j]).status \in {"queued", row[j].status}
        /\ MarkSubmissionFailed(row[j]).status \in {"publish_failed", row[j].status}
    BY <1>1 DEF CreateJob, MarkQueued, MarkSubmissionFailed, Row
  <2> QED BY <1>2, <2>1, Zenon DEF Submission
<1> QED BY <1>1, <1>2, <1>3, Zenon

(* A lone worker's attempt stays attended through its own steps, and it    *)
(* records no success for a job it has recorded for a retry.               *)
LEMMA AttendedMove ==
  ASSUME TypeInv, NEW w \in Workers, WorkerAction(w), AttendedOf(wk[w], row)
  PROVE  /\ AttendedOf(wk'[w], row')
         /\ \A i \in Jobs : row[i].status = "retrying" => row'[i].status # "succeeded"
<1>1. row \in [Jobs -> Row] /\ wk \in [Workers -> Worker] /\ msg \in [Jobs -> Message]
  BY Typed, Zenon
<1>2. wk[w].pc \in Handling => wk[w].job \in Jobs
  BY Typed, Zenon
<1>3. ASSUME row' = row, wk'[w].pc \notin {"upsert", "process", "persist"}
      PROVE  AttendedOf(wk'[w], row')
  BY <1>3, Zenon DEF AttendedOf
<1>4. CASE Snapshot(w)
  <2> DEFINE x == row[wk[w].job].status
  <2>1. wk[w].job \in Jobs /\ x \in RowStatuses \cup {"absent"}
    BY <1>1, <1>2, <1>4, Zenon DEF Snapshot, Handling, Row
  <2>2. row' = row /\ wk' = [wk EXCEPT ![w] = Saw(w, x)]
    BY <1>4, Zenon DEF Snapshot, tableVars
  <2> HIDE DEF x
  <2>3. wk'[w] = Saw(w, x)
    BY <1>1, <2>2, Zenon
  <2>4. wk'[w].pc = "upsert" /\ wk'[w].job = wk[w].job /\ wk'[w].seen = x
    <3>1. Saw(w, x).pc = "upsert" /\ Saw(w, x).job = wk[w].job /\ Saw(w, x).seen = x
      BY <1>1, <2>1, SawRecord, Zenon
    <3> QED BY <2>3, <3>1, Zenon
  <2>5. AttendedOf(wk'[w], row')
    BY <2>2, <2>4, Zenon DEF AttendedOf, x
  <2> QED BY <2>2, <2>5, Zenon
<1>5. CASE Process(w)
  <2>1. PICK r \in {"ok", "permanent", "transient"} :
          wk' = [wk EXCEPT ![w] = Decided(w, Outcome(w, r))]
    BY <1>5, Zenon DEF Process
  <2> DEFINE x == Outcome(w, r)
  <2>2. x \in {"succeeded", "failed", "retrying"} /\ row' = row /\ wk[w].pc = "process"
    BY <1>5, Zenon DEF Process, Outcome, tableVars
  <2> HIDE DEF x
  <2>3. wk'[w] = Decided(w, x)
    BY <1>1, <2>1, Zenon DEF x
  <2>4. wk'[w].pc = "persist" /\ wk'[w].job = wk[w].job
    BY <1>1, <2>2, <2>3, DecidedRecord
  <2>5. AttendedOf(wk'[w], row')
    BY <2>2, <2>4, Zenon DEF AttendedOf
  <2> QED BY <2>2, <2>5, Zenon
<1>6. CASE Upsert(w)
  <2> DEFINE j == wk[w].job
             next == AfterPrepare(PreparedStatus(w))
  <2>1. wk[w].pc = "upsert" /\ j \in Jobs /\ row[j] \in Row
    BY <1>1, <1>2, <1>6, Zenon DEF Upsert, Handling
  <2>2. next \in {"ack", "reject", "exit", "process"}
    BY Zenon DEF AfterPrepare
  <2>3. Prepared(w).status = IF Final(row[j]) THEN row[j].status ELSE "processing"
    <3>1. wk[w].attempt \in Nat /\ msg[j].max \in Nat
      BY <1>1, <2>1, Zenon DEF Worker, Message
    <3> QED BY <2>1, <3>1, StatusFacts, Zenon DEF Prepared
  <2>4. next = "process" => ~Final(row[j])
    BY <2>1, Zenon DEF AttendedOf, AfterPrepare, PreparedStatus, Final, FinalStatuses
  <2>5. /\ row' = row \/ row' = [row EXCEPT ![j] = Prepared(w)]
        /\ \/ wk' = [wk EXCEPT ![w] = Goto(w, next)] /\ row' = [row EXCEPT ![j] = Prepared(w)]
           \/ wk' = [wk EXCEPT ![w] = Goto(w, "exit")]
    BY <1>6, Zenon DEF Upsert
  <2> HIDE DEF next
  <2>6. wk'[w].job = j
        /\ \/ wk'[w].pc = next /\ row' = [row EXCEPT ![j] = Prepared(w)]
           \/ wk'[w].pc = "exit"
    <3>1. next \in Counters /\ "exit" \in Counters
      BY <2>2, Zenon DEF Counters
    <3>2. /\ Goto(w, next).pc = next /\ Goto(w, next).job = j
          /\ Goto(w, "exit").pc = "exit" /\ Goto(w, "exit").job = j
      BY <1>1, <3>1, GotoRecord, Zenon
    <3>3. \/ wk'[w] = Goto(w, next) /\ row' = [row EXCEPT ![j] = Prepared(w)]
          \/ wk'[w] = Goto(w, "exit")
      BY <1>1, <2>5, Zenon
    <3> QED BY <3>2, <3>3, Zenon
  <2>7. AttendedOf(wk'[w], row')
    BY <1>1, <2>1, <2>2, <2>3, <2>4, <2>6, Zenon DEF AttendedOf
  <2>8. \A i \in Jobs : row[i].status = "retrying" => row'[i].status # "succeeded"
    BY <1>1, <2>1, <2>3, <2>5, Zenon DEF Final, FinalStatuses
  <2> QED BY <2>7, <2>8, Zenon
<1>7. CASE Persist(w)
  <2> DEFINE j == wk[w].job
             r == Mark(row[j], wk[w].outcome, wk[w].attempt)
  <2>1. wk[w].pc = "persist" /\ j \in Jobs /\ row[j].status = "processing"
    BY <1>2, <1>7, Zenon DEF Persist, Handling, AttendedOf
  <2>2. row' = row \/ row' = [row EXCEPT ![j] = r]
    BY <1>7, Zenon DEF Persist
  <2>3. \E c \in {"ack", "reject", "requeue", "exit"} : wk' = [wk EXCEPT ![w] = Goto(w, c)]
    BY <1>7, Zenon DEF Persist, Settle
  <2>4. wk'[w].pc \in {"ack", "reject", "requeue", "exit"}
    BY <1>1, <2>3, GotoRecord DEF Counters
  <2>5. AttendedOf(wk'[w], row')
    BY <2>4, Zenon DEF AttendedOf
  <2>6. \A i \in Jobs : row[i].status = "retrying" => row'[i].status # "succeeded"
    BY <1>1, <2>1, <2>2, Zenon
  <2> QED BY <2>5, <2>6, Zenon
<1>8. CASE ConnectionLost(w)
  <2>1. row' = row /\ wk' = [wk EXCEPT ![w] = Disconnected(w)]
    BY <1>8, Zenon DEF ConnectionLost, tableVars
  <2>2. wk'[w] = Disconnected(w)
    BY <1>1, <2>1, Zenon
  <2>3. wk'[w].pc = wk[w].pc /\ wk'[w].job = wk[w].job /\ wk'[w].seen = wk[w].seen
    BY <1>1, <2>2 DEF Disconnected, Worker
  <2> QED BY <2>1, <2>3, Zenon DEF AttendedOf
<1>9. CASE \E j \in Jobs : Deliver(w, j)
  BY <1>9, Zenon DEF Deliver, AttendedOf, tableVars
<1>10. CASE Exit(w) \/ Stop(w)
  <2>1. row' = row /\ wk' = [wk EXCEPT ![w] = Down]
    BY <1>10, Zenon DEF Exit, Stop, Terminate, tableVars
  <2>2. wk'[w].pc = "down"
    BY <1>1, <2>1, Zenon DEF Down
  <2> QED BY <1>3, <2>1, <2>2, Zenon
<1>11. CASE Start(w) \/ InstallPolicy(w) \/ NoticeClosed(w) \/ Ack(w) \/ Reject(w) \/ Requeue(w)
  <2>1. /\ row' = row
        /\ \/ wk' = [wk EXCEPT ![w] = Connected(w)]
           \/ wk' = [wk EXCEPT ![w] = Idle(w)]
           \/ wk' = [wk EXCEPT ![w] = Goto(w, "idle")]
           \/ wk' = [wk EXCEPT ![w] = Goto(w, "exit")]
    BY <1>11, Zenon DEF Start, InstallPolicy, NoticeClosed, Ack, Reject, Requeue,
                        SettleDelivery, tableVars
  <2>2. wk'[w] \in {Connected(w), Idle(w), Goto(w, "idle"), Goto(w, "exit")}
    BY <1>1, <2>1, Zenon
  <2>3. wk'[w].pc \in {"starting", "idle", "exit"}
    <3>1. Connected(w).pc = "starting" /\ Idle(w).pc = "idle"
      BY <1>1, WorkerRecords, Zenon
    <3>2. Goto(w, "idle").pc = "idle" /\ Goto(w, "exit").pc = "exit"
      BY <1>1, GotoRecord, Zenon DEF Counters
    <3> QED BY <2>2, <3>1, <3>2, Zenon
  <2> QED BY <1>3, <2>1, <2>3, Zenon
<1>12. CASE Take(w)
  <2> DEFINE d == Head(inbox[w])
             c == AfterDecode(msg[d.job])
  <2>1. c \in {"snapshot", "reject"}
    BY DEF AfterDecode
  <2>2. row' = row /\ inbox[w] # <<>> /\ wk' = [wk EXCEPT ![w] = Took(w, d, c)]
    BY <1>12, Zenon DEF Take, tableVars
  <2>3. d \in Delivery
    BY <2>2, TakeFirst, Typed, Zenon
  <2> HIDE DEF d, c
  <2>4. wk'[w] = Took(w, d, c)
    BY <1>1, <2>2, Zenon
  <2>5. wk'[w].pc = c
    <3>1. c \in Counters
      BY <2>1, Zenon DEF Counters
    <3>2. Took(w, d, c).pc = c
      BY <1>1, <2>3, <3>1, TookRecord, Zenon
    <3> QED BY <2>4, <3>2, Zenon
  <2> QED BY <1>3, <2>1, <2>2, <2>5, Zenon
<1> QED
  BY <1>4, <1>5, <1>6, <1>7, <1>8, <1>9, <1>10, <1>11, <1>12, Zenon DEF WorkerAction, WorkerStep

(* Every step of a pipeline with one worker follows the diagram, and       *)
(* leaves the worker's attempt attended.                                   *)
LEMMA AttendedStep ==
  ASSUME \A v, w \in Workers : v = w, SafeInv, Attended, [Next]_vars
  PROVE  /\ Attended'
         /\ \A i \in Jobs : \/ row'[i].status = row[i].status
                            \/ <<row[i].status, row'[i].status>> \in DiagramArrows
<1>1. TypeInv /\ Submitted /\ InHand /\ Recorded
  BY DEF SafeInv
<1>2. ASSUME \A i \in Jobs : Advances(row[i].status, row'[i].status),
             \A i \in Jobs : row[i].status = "retrying" => row'[i].status # "succeeded"
      PROVE  \A i \in Jobs : \/ row'[i].status = row[i].status
                             \/ <<row[i].status, row'[i].status>> \in DiagramArrows
  BY <1>2, Zenon DEF Advances, DiagramArrows
<1>3. ASSUME NEW j \in Jobs, RequestAction(j)
      PROVE  /\ Attended'
             /\ \A i \in Jobs : Advances(row[i].status, row'[i].status)
             /\ \A i \in Jobs : row[i].status = "retrying" => row'[i].status # "succeeded"
  <2>1. JobEffect(j)
    BY <1>1, <1>3, RequestEffect, Zenon
  <2>2. ASSUME NEW i \in Jobs
        PROVE  /\ Advances(row[i].status, row'[i].status)
               /\ row'[i].status = row[i].status \/ row'[i].status \in Submission
    BY <1>1, <1>3, <2>1, RequestStatus, Zenon DEF JobEffect, Advances
  <2>3. ASSUME NEW i \in Jobs
        PROVE  /\ row[i].status = "processing" => row'[i].status = "processing"
               /\ row'[i].status \in FinalStatuses => row[i].status \in FinalStatuses
               /\ row[i].status = "retrying" => row'[i].status # "succeeded"
    BY <2>2, Zenon DEF Advances, Lifecycle!Arrows, Submission, FinalStatuses
  <2>4. ASSUME NEW w \in Workers PROVE AttendedOf(wk[w], row')
    <3>1. AttendedOf(wk[w], row) /\ (wk[w].pc \in Handling => wk[w].job \in Jobs)
      BY <1>1, Typed, Zenon DEF Attended
    <3> QED BY <2>3, <3>1, Zenon DEF AttendedOf, Handling
  <2> QED BY <2>1, <2>2, <2>3, <2>4, Zenon DEF Attended, JobEffect
<1>4. ASSUME NEW w \in Workers, WorkerAction(w)
      PROVE  /\ Attended'
             /\ \A i \in Jobs : Advances(row[i].status, row'[i].status)
             /\ \A i \in Jobs : row[i].status = "retrying" => row'[i].status # "succeeded"
  <2>1. WorkerEffect(w)
    BY <1>1, <1>4, WorkerStepEffect, Zenon
  <2>2. \A i \in Jobs : Advances(row[i].status, row'[i].status)
    BY <2>1, Zenon DEF WorkerEffect, RowEffect, Advances
  <2>3. /\ AttendedOf(wk'[w], row')
        /\ \A i \in Jobs : row[i].status = "retrying" => row'[i].status # "succeeded"
    BY <1>1, <1>4, AttendedMove, Zenon DEF Attended
  <2>4. Attended'
    BY <2>3, Zenon DEF Attended
  <2> QED BY <2>2, <2>3, <2>4, Zenon
<1>5. CASE ControlPlaneRestart \/ PublisherLost \/ UNCHANGED vars
  <2>1. UNCHANGED <<row, wk>>
    BY <1>5, Zenon DEF ControlPlaneRestart, PublisherLost, vars, tableVars, workerVars
  <2> QED BY <2>1, Zenon DEF Attended
<1> QED BY <1>2, <1>3, <1>4, <1>5, Zenon DEF Next, RequestAction, WorkerAction

(* With one worker, however often it is restarted, loses its connection or *)
(* is given a job again, and however late a submission records its result, *)
(* the status of a job follows the README's diagram.                       *)
THEOREM DiagramCorrect ==
  ASSUME \A v, w \in Workers : v = w
  PROVE  Spec => StatusFollowsDiagram
<1>1. Init => Attended
  BY DEF Init, Attended, AttendedOf, Down
<1>2. SafeInv /\ Attended /\ [Next]_vars => Attended'
  BY AttendedStep
<1>3. SafeInv /\ Attended /\ [Next]_vars
        => [\A j \in Jobs : \/ row'[j].status = row[j].status
                            \/ <<row[j].status, row'[j].status>> \in DiagramArrows]_vars
  BY AttendedStep, Zenon
<1>4. Spec => []Attended
  BY <1>1, <1>2, SafeInvariant, PTL DEF Spec
<1> QED BY <1>3, <1>4, SafeInvariant, PTL DEF Spec, StatusFollowsDiagram
=============================================================================
