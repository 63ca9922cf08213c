--------------------------- MODULE JobsRefinement ---------------------------
(***************************************************************************)
(* The job pipeline implements the lifecycle of the API, for every set of  *)
(* jobs and workers and any number of failures.                            *)
(*                                                                         *)
(* The invariant of JobsSafety does not say who holds a delivery, and a    *)
(* message that leaves the queue must be one that was still in it: a       *)
(* fifth part, ownership, is needed.  With it, each job also stays within  *)
(* its budget of executions: that invariant counts the executions a job    *)
(* had, the deliveries in hand that may start another and those its        *)
(* message may still have.  Both are shown move by move, for the five      *)
(* moves of a worker that JobsProofs distinguishes.                        *)
(***************************************************************************)
EXTENDS JobsSafety

(* Who holds what.  A worker holds at most one delivery of a job, and owns *)
(* what it holds while it is connected.  Said of a worker's record, its    *)
(* inbox and the messages.                                                 *)
Mine(w, m, j) == m[j].place = "unacked" /\ m[j].owner = w

Holds(w, v, box, m) ==
  /\ v.pc = "down" => box = <<>>
  /\ v.conn /\ v.pc \in Handling => Mine(w, m, v.job)
  /\ \A i \in 1 .. Len(box) :
       /\ v.conn => Mine(w, m, box[i].job)
       /\ v.pc \in Handling => v.job # box[i].job
       /\ \A k \in 1 .. Len(box) : box[i].job = box[k].job => i = k

OwnedAt(w) == Holds(w, wk[w], inbox[w], msg)

Owned == \A w \in Workers : OwnedAt(w)

(* Deliveries are of jobs.                                                 *)
LEMMA BoxJobs ==
  ASSUME NEW box \in Seq(Delivery), NEW i \in 1 .. Len(box)
  PROVE  box[i].job \in Jobs
<1>1. box[i] \in Delivery
  OBVIOUS
<1> QED BY <1>1, Zenon DEF Delivery

(* Ownership, move by move: a step with the job in hand,                   *)
LEMMA HoldsOn ==
  ASSUME NEW w, NEW a, NEW b, NEW box, NEW m, Holds(w, a, box, m), StepsOn(a, b, m)
  PROVE  Holds(w, b, box, m)
BY DEF Holds, StepsOn, Handling

(* the start of the next delivery,                                         *)
LEMMA HoldsTaken ==
  ASSUME NEW w, NEW a, NEW b, NEW box \in Seq(Delivery), NEW m,
         Holds(w, a, box, m), box # <<>>, TookFrom(a, b, Head(box))
  PROVE  Holds(w, b, Tail(box), m)
<1> DEFINE rest == Tail(box)
<1>1. /\ Head(box) = box[1] /\ 1 \in 1 .. Len(box)
      /\ \A i \in 1 .. Len(rest) : i + 1 \in 1 .. Len(box) /\ rest[i] = box[i + 1]
  BY TakeFirst, Zenon
<1>2. Len(rest) \in Nat
  BY TakeFirst
<1> HIDE DEF rest
<1>3. ASSUME NEW i \in 1 .. Len(rest)
      PROVE  /\ b.conn => Mine(w, m, rest[i].job)
             /\ b.job # rest[i].job
             /\ \A k \in 1 .. Len(rest) : rest[i].job = rest[k].job => i = k
  <2>1. i + 1 \in 1 .. Len(box) /\ rest[i] = box[i + 1] /\ i + 1 # 1
    BY <1>1, <1>2
  <2>2. ASSUME NEW k \in 1 .. Len(rest), rest[i].job = rest[k].job PROVE i = k
    <3>1. k + 1 \in 1 .. Len(box) /\ rest[k] = box[k + 1]
      BY <1>1
    <3>2. i + 1 = k + 1
      BY <2>1, <2>2, <3>1, Zenon DEF Holds
    <3> QED BY <1>2, <3>2
  <2>3. b.conn => Mine(w, m, rest[i].job)
    BY <2>1, Zenon DEF Holds, TookFrom
  <2>4. b.job # rest[i].job
    <3>1. box[1].job # box[i + 1].job
      BY <1>1, <2>1, Zenon DEF Holds
    <3> QED BY <1>1, <2>1, <3>1, Zenon DEF TookFrom
  <2> QED BY <2>2, <2>3, <2>4, Zenon
<1>4. b.conn => Mine(w, m, b.job)
  BY <1>1, Zenon DEF Holds, TookFrom
<1>5. b.pc # "down"
  BY DEF TookFrom
<1> QED BY <1>3, <1>4, <1>5, Zenon DEF Holds, rest

(* the end of the one in hand,                                             *)
LEMMA HoldsSettled ==
  ASSUME NEW w, NEW a, NEW b, NEW box \in Seq(Delivery), NEW m, NEW n,
         Holds(w, a, box, m), a.pc \in Handling, b.pc \in {"idle", "exit"}, b.conn = a.conn,
         \A i \in Jobs \ {a.job} : n[i] = m[i]
  PROVE  Holds(w, b, box, n)
<1>1. \A i \in 1 .. Len(box) : box[i].job \in Jobs \ {a.job}
  BY BoxJobs, Zenon DEF Holds
<1>2. \A i \in 1 .. Len(box) : n[box[i].job] = m[box[i].job]
  BY <1>1, Zenon
<1> QED BY <1>2 DEF Holds, Mine, Handling

(* the loss of the connection,                                             *)
LEMMA HoldsLost ==
  ASSUME NEW w, NEW a, NEW b, NEW box, NEW m, NEW n, Holds(w, a, box, m), LostBy(a, b)
  PROVE  Holds(w, b, box, n)
BY Zenon DEF Holds, LostBy

(* another delivery,                                                       *)
LEMMA HoldsReceived ==
  ASSUME NEW w, NEW v, NEW box \in Seq(Delivery), NEW m, NEW n, NEW d \in Delivery,
         Holds(w, v, box, m), v.conn, v.pc # "down", v.pc \in Handling => v.job \in Jobs,
         m[d.job].place = "ready", Mine(w, n, d.job), \A i \in Jobs \ {d.job} : n[i] = m[i]
  PROVE  Holds(w, v, Append(box, d), n)
<1> DEFINE more == Append(box, d)
           last == Len(box) + 1
<1>1. /\ Len(more) = last /\ last - 1 = Len(box) /\ Len(box) \in Nat /\ more[last] = d
      /\ \A i \in 1 .. Len(box) : more[i] = box[i]
  BY AddLast
<1>2. \A i \in 1 .. Len(more) : i \in 1 .. Len(box) \/ i = last
  BY <1>1
<1>3. \A i \in 1 .. Len(box) : Mine(w, m, box[i].job) /\ box[i].job \in Jobs \ {d.job}
  BY BoxJobs, Zenon DEF Holds, Mine
<1> HIDE DEF more, last
<1>4. \A i \in 1 .. Len(box) : Mine(w, n, more[i].job) /\ more[i].job # d.job
  <2>1. \A i \in 1 .. Len(box) : n[box[i].job] = m[box[i].job]
    BY <1>3, Zenon
  <2>2. \A i \in 1 .. Len(box) : Mine(w, n, box[i].job) /\ box[i].job # d.job
    BY <1>3, <2>1, Zenon DEF Mine
  <2> QED BY <1>1, <2>2, Zenon
<1>5. v.pc \in Handling => Mine(w, m, v.job) /\ v.job \in Jobs \ {d.job}
  BY Zenon DEF Holds, Mine
<1>6. v.pc \in Handling => Mine(w, n, v.job)
  BY <1>5, Zenon DEF Mine
<1>7. ASSUME NEW i \in 1 .. Len(more)
      PROVE  /\ Mine(w, n, more[i].job)
             /\ v.pc \in Handling => v.job # more[i].job
             /\ \A k \in 1 .. Len(more) : more[i].job = more[k].job => i = k
  <2>1. CASE i \in 1 .. Len(box)
    <3>1. v.pc \in Handling => v.job # more[i].job
      BY <1>1, <2>1, Zenon DEF Holds
    <3>2. ASSUME NEW k \in 1 .. Len(more), more[i].job = more[k].job PROVE i = k
      <4>1. k \in 1 .. Len(box)
        BY <1>1, <1>2, <1>4, <2>1, <3>2, Zenon
      <4>2. box[i].job = box[k].job
        BY <1>1, <2>1, <3>2, <4>1, Zenon
      <4> QED BY <2>1, <4>1, <4>2, Zenon DEF Holds
    <3> QED BY <1>4, <2>1, <3>1, <3>2, Zenon
  <2>2. CASE i = last
    <3>1. ASSUME NEW k \in 1 .. Len(more), more[i].job = more[k].job PROVE i = k
      BY <1>1, <1>2, <1>4, <2>2, <3>1, Zenon
    <3> QED BY <1>1, <1>5, <2>2, <3>1, Zenon
  <2> QED BY <1>2, <2>1, <2>2, Zenon
<1> QED BY <1>6, <1>7, Zenon DEF Holds, more

(* and the steps of others, which leave its messages alone.                *)
LEMMA HoldsStill ==
  ASSUME NEW w, NEW v, NEW box \in Seq(Delivery), NEW m, NEW n,
         Holds(w, v, box, m), v.pc \in Handling => v.job \in Jobs,
         \A i \in Jobs : Mine(w, m, i) => n[i] = m[i]
  PROVE  Holds(w, v, box, n)
<1>1. \A i \in 1 .. Len(box) : box[i].job \in Jobs
  BY BoxJobs, Zenon
<1>2. \A i \in Jobs : Mine(w, m, i) => Mine(w, n, i)
  BY Zenon DEF Mine
<1> QED BY <1>1, <1>2, Zenon DEF Holds

(* What a worker's step does to deliveries: it leaves those of connected   *)
(* others alone, and takes at most one message off the queue, by the door  *)
(* its status names.                                                       *)
OthersKept(w) ==
  \A i \in Jobs : msg[i].place = "unacked" /\ msg[i].owner # w => msg'[i] = msg[i]

DeliveriesKept == \A i \in Jobs : DeliveryOf(msg'[i]) = DeliveryOf(msg[i])

OneSettled ==
  /\ row' = row
  /\ \E j \in Jobs :
       /\ \A i \in Jobs \ {j} : msg'[i] = msg[i]
       /\ DeliveryOf(msg[j]) = "pending"
       /\ \/ row[j].status = "succeeded" /\ DeliveryOf(msg'[j]) = "completed"
          \/ row[j].status = "failed" /\ DeliveryOf(msg'[j]) = "dead"

OwnedEffect(w) ==
  /\ OthersKept(w)
  /\ DeliveriesKept \/ OneSettled
  /\ OwnedAt(w)'

(* A closed connection returns the deliveries of its worker and no others. *)
LEMMA ReturnKept ==
  ASSUME TypeInv, NEW w \in Workers, ReturnUnacked(w)
  PROVE  OthersKept(w) /\ DeliveriesKept
<1>1. msg \in [Jobs -> Message]
  BY Typed, Zenon
<1>2. ASSUME NEW j \in Jobs, NEW n \in {0, 1}
      PROVE  Requeued(j, n).place = "ready" /\ Requeued(j, n).valid = msg[j].valid
  <2>1. msg[j] \in Message
    BY <1>1
  <2> QED BY <2>1 DEF Requeued, Message
<1>3. ASSUME NEW j \in Jobs
      PROVE  \/ msg'[j] = msg[j]
             \/ /\ msg[j].place = "unacked" /\ msg[j].owner = w
                /\ msg'[j].place = "ready" /\ msg'[j].valid = msg[j].valid
  BY <1>2 DEF ReturnUnacked, Unacked
<1>4. OthersKept(w)
  BY <1>3, Zenon DEF OthersKept
<1>5. DeliveriesKept
  BY <1>3, Zenon DEF DeliveriesKept, DeliveryOf
<1> QED BY <1>4, <1>5, Zenon

(* The message in hand leaves the queue by the door its status names, or   *)
(* goes back to it.                                                        *)
LEMMA SettledOut ==
  ASSUME TypeInv, NEW w \in Workers, OwnedAt(w), NEW pc \in Handling, NEW settled,
         Settles(w, pc, settled), settled.valid = msg[wk[w].job].valid,
         \/ settled.place = "ready"
         \/ settled.place = "acked" /\ row[wk[w].job].status = "succeeded"
         \/ settled.place = "dead" /\ (settled.valid => row[wk[w].job].status = "failed")
  PROVE  OwnedEffect(w)
<1> DEFINE j == wk[w].job
           x == msg[j]
<1>1. /\ msg \in [Jobs -> Message] /\ inbox[w] \in Seq(Delivery)
      /\ wk[w].pc \in Handling /\ j \in Jobs
  BY Typed, Zenon DEF Settles
<1>2. /\ row' = row /\ inbox' = inbox /\ wk'[w].pc \in {"idle", "exit"} /\ wk'[w].conn = wk[w].conn
      /\ msg' = IF wk[w].conn THEN [msg EXCEPT ![j] = settled] ELSE msg
  BY Zenon DEF Settles
<1>3. \A i \in Jobs \ {j} : msg'[i] = msg[i]
  BY <1>1, <1>2, Zenon
<1>4. wk[w].conn => msg'[j] = settled /\ x.place = "unacked" /\ x.owner = w
  <2>1. wk[w].conn => msg'[j] = settled
    BY <1>1, <1>2, Zenon
  <2>2. wk[w].conn => x.place = "unacked" /\ x.owner = w
    BY <1>1, Zenon DEF OwnedAt, Holds, Mine
  <2> QED BY <2>1, <2>2, Zenon
<1>5. OwnedAt(w)'
  BY <1>1, <1>2, <1>3, HoldsSettled, Zenon DEF OwnedAt
<1>6. OthersKept(w)
  BY <1>2, <1>3, <1>4, Zenon DEF OthersKept
<1>7. DeliveriesKept \/ OneSettled
  <2>1. CASE ~wk[w].conn
    BY <1>2, <2>1, Zenon DEF DeliveriesKept
  <2>2. CASE wk[w].conn /\ DeliveryOf(msg'[j]) = DeliveryOf(x)
    BY <1>3, <2>2, Zenon DEF DeliveriesKept
  <2>3. CASE wk[w].conn /\ DeliveryOf(msg'[j]) # DeliveryOf(x)
    <3> HIDE DEF x
    <3>1. settled.valid = x.valid
      BY Zenon DEF x
    <3>2. settled.valid /\ settled.place # "ready" /\ DeliveryOf(x) = "pending"
      BY <1>4, <2>3, <3>1, Zenon DEF DeliveryOf
    <3>3. \/ row[j].status = "succeeded" /\ DeliveryOf(msg'[j]) = "completed"
          \/ row[j].status = "failed" /\ DeliveryOf(msg'[j]) = "dead"
      BY <1>4, <2>3, <3>2, Zenon DEF DeliveryOf
    <3> QED BY <1>1, <1>2, <1>3, <3>2, <3>3, Zenon DEF OneSettled, x
  <2> QED BY <2>1, <2>2, <2>3, Zenon
<1> QED BY <1>5, <1>6, <1>7, Zenon DEF OwnedEffect

(* What a step of a worker leaves of the deliveries it holds.              *)
LEMMA OwnedStepEffect ==
  ASSUME SafeInv, Owned, NEW w \in Workers, WorkerAction(w)
  PROVE  OwnedEffect(w)
<1>1. /\ TypeInv /\ msg \in [Jobs -> Message] /\ inbox \in [Workers -> Seq(Delivery)]
      /\ inbox[w] \in Seq(Delivery) /\ wk[w].pc \in Handling => wk[w].job \in Jobs
  BY Typed, Zenon DEF SafeInv
<1>2. OwnedAt(w) /\ InHandAt(w) /\ RecordedAt(w)
  BY DEF Owned, SafeInv, InHand, Recorded
<1>3. ASSUME msg' = msg, OwnedAt(w)' PROVE OwnedEffect(w)
  BY <1>3, Zenon DEF OwnedEffect, OthersKept, DeliveriesKept
<1>4. CASE Keeps(w)
  BY <1>2, <1>3, <1>4, HoldsOn, Zenon DEF Keeps, OwnedAt
<1>5. CASE Takes(w)
  BY <1>1, <1>2, <1>3, <1>5, HoldsTaken, Zenon DEF Takes, OwnedAt
<1>6. CASE Loses(w)
  <2>1. OwnedAt(w)'
    <3>1. CASE wk'[w].pc = "down" /\ wk'[w].conn = FALSE /\ inbox'[w] = <<>>
      BY <3>1 DEF OwnedAt, Holds, Handling
    <3>2. CASE LostBy(wk[w], wk'[w]) /\ inbox' = inbox
      BY <1>2, <3>2, HoldsLost, Zenon DEF OwnedAt
    <3> QED BY <1>6, <3>1, <3>2, Zenon DEF Loses
  <2> QED BY <1>1, <1>6, <2>1, ReturnKept, Zenon DEF Loses, OwnedEffect
<1>7. CASE Settles(w, "ack", Put(wk[w].job, "acked"))
  <2>1. wk[w].pc = "ack" /\ wk[w].job \in Jobs /\ row[wk[w].job].status = "succeeded"
    BY <1>1, <1>2, <1>7, Zenon DEF Settles, Handling, RecordedAt, RecordedOf
  <2>2. /\ Put(wk[w].job, "acked").place = "acked"
        /\ Put(wk[w].job, "acked").valid = msg[wk[w].job].valid
    BY <1>1, <2>1, MessageRecords DEF Places
  <2> QED BY <1>1, <1>2, <1>7, <2>1, <2>2, SettledOut, Zenon DEF Handling
<1>8. CASE Settles(w, "reject", Put(wk[w].job, IF policy THEN "dead" ELSE "dropped"))
  <2>1. /\ wk[w].pc = "reject" /\ wk[w].job \in Jobs /\ policy
        /\ msg[wk[w].job].valid => row[wk[w].job].status = "failed"
    BY <1>1, <1>2, <1>8, Zenon DEF Settles, Handling, RecordedAt, RecordedOf, InHandAt, InHandOf
  <2>2. /\ Put(wk[w].job, "dead").place = "dead"
        /\ Put(wk[w].job, "dead").valid = msg[wk[w].job].valid
    BY <1>1, <2>1, MessageRecords DEF Places
  <2>3. Settles(w, "reject", Put(wk[w].job, "dead"))
    BY <1>8, <2>1, Zenon
  <2> QED BY <1>1, <1>2, <2>1, <2>2, <2>3, SettledOut, Zenon DEF Handling
<1>9. CASE Settles(w, "requeue", Requeued(wk[w].job, 1))
  <2>1. wk[w].job \in Jobs
    BY <1>1, <1>9, Zenon DEF Settles, Handling
  <2>2. /\ Requeued(wk[w].job, 1).place = "ready"
        /\ Requeued(wk[w].job, 1).valid = msg[wk[w].job].valid
    BY <1>1, <2>1, MessageRecords DEF Places
  <2> QED BY <1>1, <1>2, <1>9, <2>2, SettledOut, Zenon DEF Handling
<1>10. ASSUME NEW j \in Jobs, Deliver(w, j) PROVE OwnedEffect(w)
  <2> DEFINE d == [job |-> j, attempt |-> msg[j].count + 1]
  <2>1. /\ msg' = [msg EXCEPT ![j] = Held(j, w)] /\ msg[j].place = "ready"
        /\ inbox' = [inbox EXCEPT ![w] = Append(inbox[w], d)]
        /\ wk' = wk /\ wk[w].conn /\ wk[w].pc # "down"
    BY <1>10, Zenon DEF Deliver
  <2>2. d \in Delivery /\ d.job = j
    BY <1>1 DEF Delivery, Message
  <2> HIDE DEF d
  <2>3. msg'[j] = Held(j, w) /\ inbox'[w] = Append(inbox[w], d) /\ \A i \in Jobs \ {j} : msg'[i] = msg[i]
    BY <1>1, <2>1, Zenon
  <2>4. msg'[j].place = "unacked" /\ msg'[j].valid = msg[j].valid /\ msg'[j].owner = w
    BY <1>1, <2>3, MessageRecords DEF Places
  <2>5. OthersKept(w)
    BY <2>1, <2>3, Zenon DEF OthersKept
  <2>6. DeliveriesKept
    BY <2>1, <2>3, <2>4 DEF DeliveriesKept, DeliveryOf
  <2>7. Mine(w, msg', d.job)
    BY <2>2, <2>4, Zenon DEF Mine
  <2>8. OwnedAt(w)'
    BY <1>1, <1>2, <2>1, <2>2, <2>3, <2>7, HoldsReceived, Zenon DEF OwnedAt
  <2> QED BY <2>5, <2>6, <2>8, Zenon DEF OwnedEffect
<1>11. WorkerMove(w)
  BY <1>1, WorkerMoves, Zenon
<1> QED BY <1>4, <1>5, <1>6, <1>7, <1>8, <1>9, <1>10, <1>11, Zenon DEF WorkerMove

(* Initially no worker holds a delivery.                                   *)
LEMMA OwnedInit == Init => Owned
BY DEF Init, Owned, OwnedAt, Holds, Down

(* Every step keeps the deliveries with their owners.                      *)
LEMMA OwnedStep == SafeInv /\ Owned /\ [Next]_vars => Owned'
<1> SUFFICES ASSUME SafeInv, Owned, [Next]_vars PROVE Owned'
  OBVIOUS
<1>1. TypeInv /\ Submitted
  BY DEF SafeInv
<1>2. ASSUME NEW v \in Workers, wk'[v] = wk[v], inbox'[v] = inbox[v],
             \A i \in Jobs : msg[i].place = "unacked" /\ msg[i].owner = v => msg'[i] = msg[i]
      PROVE  OwnedAt(v)'
  <2>1. /\ OwnedAt(v) /\ inbox[v] \in Seq(Delivery)
        /\ wk[v].pc \in Handling => wk[v].job \in Jobs
    BY <1>1, Typed, Zenon DEF Owned
  <2>2. \A i \in Jobs : Mine(v, msg, i) => msg'[i] = msg[i]
    BY <1>2, Zenon DEF Mine
  <2> QED BY <1>2, <2>1, <2>2, HoldsStill, Zenon DEF OwnedAt
<1>3. ASSUME NEW j \in Jobs, RequestAction(j) PROVE Owned'
  <2>1. JobEffect(j)
    BY <1>1, <1>3, RequestEffect, Zenon
  <2>2. \A i \in Jobs : msg[i].place = "unacked" => msg'[i] = msg[i]
    BY <2>1 DEF JobEffect, Live
  <2> QED BY <1>2, <2>1, <2>2, Zenon DEF JobEffect, Owned
<1>4. ASSUME NEW w \in Workers, WorkerAction(w) PROVE Owned'
  <2>1. WorkerEffect(w) /\ OwnedEffect(w)
    BY <1>4, WorkerStepEffect, OwnedStepEffect, Zenon DEF SafeInv
  <2>2. ASSUME NEW v \in Workers \ {w} PROVE OwnedAt(v)'
    BY <1>2, <2>1, Zenon DEF WorkerEffect, OwnedEffect, OthersKept
  <2> QED BY <2>1, <2>2, Zenon DEF Owned, OwnedEffect
<1>5. CASE ControlPlaneRestart \/ PublisherLost \/ UNCHANGED vars
  <2>1. UNCHANGED <<msg, wk, inbox>>
    BY <1>5 DEF ControlPlaneRestart, PublisherLost, vars, brokerVars, workerVars
  <2> QED BY <2>1 DEF Owned, OwnedAt
<1> QED BY <1>3, <1>4, <1>5, Zenon DEF Next, RequestAction, WorkerAction

(* A step that advances the status of one job is a step of the lifecycle,  *)
(* or none.                                                                *)
LEMMA MoveSimulated ==
  ASSUME TypeInv, TypeInv', NEW j \in Jobs, DeliveriesKept,
         \A i \in Jobs \ {j} : row'[i] = row[i],
         Advances(row[j].status, row'[j].status)
  PROVE  [Lifecycle!Next]_(Lifecycle!vars)
<1> DEFINE st == [i \in Jobs |-> row[i].status]
           de == [i \in Jobs |-> DeliveryOf(msg[i])]
<1>1. de' = de
  BY DEF DeliveriesKept
<1>2. st' = [st EXCEPT ![j] = row'[j].status]
  BY Zenon
<1>3. CASE row'[j].status = row[j].status
  <2>1. st' = st
    BY <1>3, Zenon
  <2> QED BY <1>1, <2>1, Zenon DEF Lifecycle!vars
<1>4. CASE <<row[j].status, row'[j].status>> \in Lifecycle!Arrows
  <2>1. \E arrow \in Lifecycle!Arrows : st[j] = arrow[1] /\ st' = [st EXCEPT ![j] = arrow[2]]
    <3>1. /\ st[j] = <<row[j].status, row'[j].status>>[1]
          /\ st' = [st EXCEPT ![j] = <<row[j].status, row'[j].status>>[2]]
      BY <1>2, Zenon
    <3> QED BY <1>4, <3>1, Zenon
  <2>2. Lifecycle!Move(j)
    BY <1>1, <2>1, Zenon DEF Lifecycle!Move
  <2> QED BY <2>2, Zenon DEF Lifecycle!Next
<1> QED BY <1>3, <1>4, Zenon DEF Advances

(* A step that changes no row and the delivery of one job.                 *)
LEMMA DeliverySimulated ==
  ASSUME NEW j \in Jobs, row' = row, \A i \in Jobs \ {j} : msg'[i] = msg[i],
         \/ DeliveryOf(msg'[j]) = DeliveryOf(msg[j])
         \/ DeliveryOf(msg[j]) = "none" /\ DeliveryOf(msg'[j]) = "pending"
         \/ /\ DeliveryOf(msg[j]) = "pending" /\ row[j].status = "succeeded"
            /\ DeliveryOf(msg'[j]) = "completed"
         \/ /\ DeliveryOf(msg[j]) = "pending" /\ row[j].status = "failed"
            /\ DeliveryOf(msg'[j]) = "dead"
  PROVE  [Lifecycle!Next]_(Lifecycle!vars)
<1> DEFINE st == [i \in Jobs |-> row[i].status]
           de == [i \in Jobs |-> DeliveryOf(msg[i])]
<1>1. st' = st
  OBVIOUS
<1>2. de' = [de EXCEPT ![j] = DeliveryOf(msg'[j])]
  BY Zenon
<1>3. CASE DeliveryOf(msg'[j]) = DeliveryOf(msg[j])
  <2>1. de' = de
    BY <1>3
  <2> QED BY <1>1, <2>1, Zenon DEF Lifecycle!vars
<1>4. CASE DeliveryOf(msg[j]) = "none" /\ DeliveryOf(msg'[j]) = "pending"
  <2>1. Lifecycle!Enqueue(j)
    BY <1>1, <1>2, <1>4, Zenon DEF Lifecycle!Enqueue
  <2> QED BY <2>1 DEF Lifecycle!Next
<1>5. CASE /\ DeliveryOf(msg[j]) = "pending" /\ row[j].status = "succeeded"
           /\ DeliveryOf(msg'[j]) = "completed"
  <2>1. Lifecycle!Complete(j)
    BY <1>1, <1>2, <1>5, Zenon DEF Lifecycle!Complete
  <2> QED BY <2>1 DEF Lifecycle!Next
<1>6. CASE /\ DeliveryOf(msg[j]) = "pending" /\ row[j].status = "failed"
           /\ DeliveryOf(msg'[j]) = "dead"
  <2>1. Lifecycle!DeadLetter(j)
    BY <1>1, <1>2, <1>6, Zenon DEF Lifecycle!DeadLetter
  <2> QED BY <2>1 DEF Lifecycle!Next
<1> QED BY <1>3, <1>4, <1>5, <1>6, Zenon

(* A step of the pipeline is a step of the lifecycle, or changes nothing in it. *)
LEMMA LifecycleStep ==
  SafeInv /\ Owned /\ [Next]_vars => [Lifecycle!Next]_(Lifecycle!vars)
<1> SUFFICES ASSUME SafeInv, Owned, [Next]_vars
             PROVE  [Lifecycle!Next]_(Lifecycle!vars)
  OBVIOUS
<1>1. TypeInv /\ Submitted /\ InHand /\ Recorded
  BY DEF SafeInv
<1>2. TypeInv' /\ row \in [Jobs -> Row] /\ row' \in [Jobs -> Row]
  BY <1>1, TypeStep, Typed, TypedNext, Zenon
<1>3. ASSUME NEW j \in Jobs, RequestAction(j) PROVE [Lifecycle!Next]_(Lifecycle!vars)
  <2>1. JobEffect(j)
    BY <1>1, <1>3, RequestEffect, Zenon
  <2>2. CASE msg'[j] = msg[j]
    <3>1. DeliveriesKept
      BY <2>1, <2>2, Zenon DEF JobEffect, DeliveriesKept
    <3> QED BY <1>1, <1>2, <2>1, <3>1, MoveSimulated, Zenon DEF JobEffect
  <2>3. CASE msg'[j] # msg[j]
    <3>1. /\ msg[j].place \notin Live /\ msg'[j].place \in {"sent", "refused", "ready"}
          /\ \A i \in Jobs : row'[i] = row[i]
      BY <2>1, <2>3, Zenon DEF JobEffect
    <3>2. row' = row
      BY <1>2, <3>1
    <3>3. msg[j].place \in {"none", "sent", "refused"}
      BY <1>1, <3>1, Typed, Zenon DEF Message, Places, Live
    <3>4. DeliveryOf(msg[j]) = "none" /\ DeliveryOf(msg'[j]) \in {"none", "pending"}
      BY <3>1, <3>3, Zenon DEF DeliveryOf
    <3> QED BY <2>1, <3>2, <3>4, DeliverySimulated, Zenon DEF JobEffect
  <2> QED BY <2>2, <2>3, Zenon
<1>4. ASSUME NEW w \in Workers, WorkerAction(w) PROVE [Lifecycle!Next]_(Lifecycle!vars)
  <2>1. WorkerEffect(w) /\ OwnedEffect(w)
    BY <1>1, <1>4, WorkerStepEffect, OwnedStepEffect, Zenon
  <2>2. CASE row' = row /\ DeliveriesKept
    BY <2>2 DEF DeliveriesKept, Lifecycle!vars
  <2>3. CASE OneSettled
    BY <2>3, DeliverySimulated, Zenon DEF OneSettled
  <2>4. CASE row' # row
    <3>1. /\ msg' = msg /\ wk[w].pc \in Handling
          /\ \A i \in Jobs \ {wk[w].job} : row'[i] = row[i]
          /\ Advances(row[wk[w].job].status, row'[wk[w].job].status)
      BY <2>1, <2>4, Zenon DEF WorkerEffect, RowEffect
    <3>2. wk[w].job \in Jobs /\ DeliveriesKept
      BY <1>1, <3>1, Typed, Zenon DEF DeliveriesKept
    <3> QED BY <1>1, <1>2, <3>1, <3>2, MoveSimulated, Zenon
  <2> QED BY <2>1, <2>2, <2>3, <2>4, Zenon DEF OwnedEffect
<1>5. CASE ControlPlaneRestart \/ PublisherLost \/ UNCHANGED vars
  <2>1. UNCHANGED <<row, msg>>
    BY <1>5, Zenon DEF ControlPlaneRestart, PublisherLost, vars, brokerVars, tableVars
  <2> QED BY <2>1, Zenon DEF Lifecycle!vars
<1> QED BY <1>3, <1>4, <1>5, Zenon DEF Next, RequestAction, WorkerAction

(* The pipeline implements the lifecycle: every behaviour of requests,     *)
(* broker and workers, with all their failures, is one in which statuses   *)
(* move along the arrows, a final status is never left and a message       *)
(* leaves the queue once, by the door its status names.                    *)
THEOREM LifecycleCorrect == Spec => ImplementsLifecycle
<1>1. Init => Lifecycle!Init
  BY DEF Init, Lifecycle!Init, DeliveryOf, NoRow
<1>2. Spec => []Owned
  BY OwnedInit, OwnedStep, SafeInvariant, PTL DEF Spec
<1> QED
  BY <1>1, <1>2, SafeInvariant, LifecycleStep, PTL DEF Spec, ImplementsLifecycle, Lifecycle!Spec
-----------------------------------------------------------------------------
(* Executions stay within the budget.  A job spends it in three ways: on   *)
(* the executions it had, on deliveries in hand that may start another,    *)
(* and on the deliveries its message may still have.                       *)

(* A worker may execute a job it holds a delivery of: the one in hand,     *)
(* until its attempt is prepared, or one it has not taken yet.             *)
Startable(v, box, j) ==
  \/ v.job = j /\ v.pc \in Unprepared
  \/ \E i \in 1 .. Len(box) : box[i].job = j

MayRun(w, j) == Startable(wk[w], inbox[w], j)

(* The deliveries a message may still have.                                *)
Rest(m) == IF m.count + 1 < m.max THEN m.max - (m.count + 1) ELSE 0

Due(m) ==
  IF m.place = "ready" THEN 1 + Rest(m) ELSE IF m.place = "unacked" THEN Rest(m) ELSE 0

(* A connected worker knows the number of each delivery it holds, and one  *)
(* that asks for another is below the limit.                               *)
Numbered(v, box, m) ==
  /\ v.conn => \A i \in 1 .. Len(box) : box[i].attempt = m[box[i].job].count + 1
  /\ v.conn /\ v.pc \in Handling => v.attempt = m[v.job].count + 1
  /\ Retries(v) => v.attempt < m[v.job].max

CountedAt(w) == Numbered(wk[w], inbox[w], msg)

Pending(j) == {w \in Workers : MayRun(w, j)}

BudgetAt(j) ==
  /\ msg[j].max > 0 => runs[j] + Cardinality(Pending(j)) + Due(msg[j]) <= msg[j].max + returns[j]
  /\ msg[j].place \notin Live => runs[j] = 0 /\ msg[j].count = 0

BudgetInv == (\A j \in Jobs : BudgetAt(j)) /\ (\A w \in Workers : CountedAt(w))

(* What a step of a worker spends of a job's budget: nothing that was not  *)
(* returned, an execution the worker was free to start, or a delivery.     *)
BudgetStep(w, i) ==
  /\ msg'[i].max = msg[i].max
  /\ \/ /\ runs'[i] = runs[i] /\ (MayRun(w, i)' => MayRun(w, i))
        /\ Due(msg'[i]) + returns[i] <= Due(msg[i]) + returns'[i]
     \/ /\ runs'[i] = runs[i] + 1 /\ returns'[i] = returns[i] /\ Due(msg'[i]) = Due(msg[i])
        /\ MayRun(w, i) /\ ~MayRun(w, i)'
     \/ /\ runs'[i] = runs[i] /\ returns'[i] = returns[i] /\ Due(msg[i]) = Due(msg'[i]) + 1

BudgetEffect(w) == (\A i \in Jobs : BudgetStep(w, i)) /\ CountedAt(w)'

(* A return costs what it gives back, a counted retry nothing.             *)
LEMMA DueFacts ==
  ASSUME NEW m \in Message, NEW n \in Message, n.max = m.max
  PROVE  /\ Due(m) \in Nat
         /\ m.place \notin {"ready", "unacked"} => Due(m) = 0
         /\ m.place = "ready" /\ m.count = 0 /\ m.max > 0 => Due(m) = m.max
         /\ m.place = "ready" /\ n.place = "unacked" /\ n.count = m.count => Due(m) = Due(n) + 1
         /\ m.place = "unacked" /\ n.place = "ready" /\ n.count \in {m.count, m.count + 1}
              => Due(n) <= Due(m) + 1
         /\ (/\ m.place = "unacked" /\ n.place = "ready" /\ n.count = m.count + 1
             /\ m.count + 1 < m.max) => Due(n) = Due(m)
<1>1. m.count \in Nat /\ m.max \in Nat /\ n.count \in Nat
  BY DEF Message
<1>2. Rest(m) \in Nat /\ Rest(n) \in Nat
  BY <1>1 DEF Rest
<1>3. n.count = m.count => Rest(n) = Rest(m)
  BY DEF Rest
<1>4. n.count = m.count + 1
        => Rest(n) <= Rest(m) /\ (m.count + 1 < m.max => Rest(m) = Rest(n) + 1)
  BY <1>1 DEF Rest
<1>5. m.count = 0 /\ m.max > 0 => 1 + Rest(m) = m.max
  BY <1>1 DEF Rest
<1> QED BY <1>2, <1>3, <1>4, <1>5 DEF Due

(* What may be started, move by move: nothing new, but for a delivery      *)
(* received.                                                               *)
LEMMA StartableOn ==
  ASSUME NEW a, NEW b, NEW box, NEW m, StepsOn(a, b, m), NEW j, Startable(b, box, j)
  PROVE  Startable(a, box, j)
BY Zenon DEF Startable, StepsOn, Unprepared, Handling

LEMMA StartableTaken ==
  ASSUME NEW a, NEW b, NEW box \in Seq(Delivery), box # <<>>, TookFrom(a, b, Head(box)),
         NEW j, Startable(b, Tail(box), j)
  PROVE  Startable(a, box, j)
<1>1. /\ Head(box) = box[1] /\ 1 \in 1 .. Len(box)
      /\ \A i \in 1 .. Len(Tail(box)) : i + 1 \in 1 .. Len(box) /\ Tail(box)[i] = box[i + 1]
  BY TakeFirst, Zenon
<1> QED BY <1>1, Zenon DEF Startable, TookFrom

LEMMA StartableReceived ==
  ASSUME NEW v, NEW box \in Seq(Delivery), NEW d \in Delivery,
         NEW j, j # d.job, Startable(v, Append(box, d), j)
  PROVE  Startable(v, box, j)
<1>1. /\ \A i \in 1 .. Len(box) : Append(box, d)[i] = box[i]
      /\ Append(box, d)[Len(box) + 1] = d
      /\ \A i \in 1 .. Len(Append(box, d)) : i \in 1 .. Len(box) \/ i = Len(box) + 1
  BY AddLast
<1> QED BY <1>1, Zenon DEF Startable

LEMMA StartableStarted ==
  ASSUME NEW w, NEW a, NEW b, NEW box, NEW m, Holds(w, a, box, m),
         a.pc = "upsert", b.pc = "process", b.job = a.job
  PROVE  Startable(a, box, a.job) /\ ~Startable(b, box, a.job)
BY Zenon DEF Startable, Holds, Unprepared, Handling

(* The numbers of deliveries, move by move.                                *)
LEMMA NumberedOn ==
  ASSUME NEW w, NEW a, NEW b, NEW box, NEW m,
         Holds(w, a, box, m), Numbered(a, box, m), StepsOn(a, b, m)
  PROVE  Numbered(b, box, m)
<1>1. b.conn => \A i \in 1 .. Len(box) : box[i].attempt = m[box[i].job].count + 1
  <2>1. CASE b.conn = a.conn
    BY <2>1, Zenon DEF Numbered
  <2>2. CASE a.pc = "down"
    BY <2>2 DEF Holds
  <2> QED BY <2>1, <2>2, Zenon DEF StepsOn
<1>2. b.conn /\ b.pc \in Handling => b.attempt = m[b.job].count + 1
  BY Zenon DEF Numbered, StepsOn, Handling
<1>3. Retries(b) => b.attempt < m[b.job].max
  <2>1. Retries(b) => b.pc \in Handling
    BY DEF Retries, Handling
  <2> QED BY <2>1, Zenon DEF Numbered, StepsOn
<1> QED BY <1>1, <1>2, <1>3, Zenon DEF Numbered

LEMMA NumberedTaken ==
  ASSUME NEW a, NEW b, NEW box \in Seq(Delivery), NEW m, Numbered(a, box, m),
         box # <<>>, TookFrom(a, b, Head(box))
  PROVE  Numbered(b, Tail(box), m)
<1>1. /\ Head(box) = box[1] /\ 1 \in 1 .. Len(box)
      /\ \A i \in 1 .. Len(Tail(box)) : i + 1 \in 1 .. Len(box) /\ Tail(box)[i] = box[i + 1]
  BY TakeFirst, Zenon
<1>2. ~Retries(b)
  BY Zenon DEF Retries, TookFrom
<1> QED BY <1>1, <1>2, Zenon DEF Numbered, TookFrom

LEMMA NumberedSettled ==
  ASSUME NEW w, NEW a, NEW b, NEW box \in Seq(Delivery), NEW m, NEW n,
         Holds(w, a, box, m), Numbered(a, box, m),
         a.pc \in Handling, b.pc \in {"idle", "exit"}, b.conn = a.conn,
         \A i \in Jobs \ {a.job} : n[i] = m[i]
  PROVE  Numbered(b, box, n)
<1>1. \A i \in 1 .. Len(box) : box[i].job \in Jobs \ {a.job}
  BY BoxJobs, Zenon DEF Holds
<1>2. \A i \in 1 .. Len(box) : n[box[i].job] = m[box[i].job]
  BY <1>1, Zenon
<1>3. ~Retries(b) /\ b.pc \notin Handling
  BY Zenon DEF Retries, Handling
<1> QED BY <1>2, <1>3, Zenon DEF Numbered

LEMMA NumberedLost ==
  ASSUME NEW a, NEW b, NEW box, NEW m, NEW n, Numbered(a, box, m), LostBy(a, b),
         a.pc \in Handling => n[a.job].max = m[a.job].max
  PROVE  Numbered(b, box, n)
<1>1. Retries(b) => Retries(a) /\ a.pc \in Handling
  BY Zenon DEF Retries, LostBy, Handling
<1> QED BY <1>1, Zenon DEF Numbered, LostBy

LEMMA NumberedReceived ==
  ASSUME NEW v, NEW box \in Seq(Delivery), NEW m, NEW n, NEW d \in Delivery, Numbered(v, box, m),
         v.conn, v.pc \in Handling => v.job \in Jobs, d.attempt = n[d.job].count + 1,
         \A i \in Jobs : n[i].count = m[i].count /\ n[i].max = m[i].max
  PROVE  Numbered(v, Append(box, d), n)
<1>1. /\ \A i \in 1 .. Len(box) : Append(box, d)[i] = box[i]
      /\ Append(box, d)[Len(box) + 1] = d
      /\ \A i \in 1 .. Len(Append(box, d)) : i \in 1 .. Len(box) \/ i = Len(box) + 1
  BY AddLast
<1>2. \A i \in 1 .. Len(box) : box[i].attempt = n[box[i].job].count + 1
  BY BoxJobs, Zenon DEF Numbered
<1>3. Retries(v) => v.pc \in Handling
  BY Zenon DEF Retries, Handling
<1> QED BY <1>1, <1>2, <1>3, Zenon DEF Numbered

LEMMA NumberedStill ==
  ASSUME NEW w, NEW v, NEW box \in Seq(Delivery), NEW m, NEW n,
         Holds(w, v, box, m), Numbered(v, box, m), v.pc \in Handling => v.job \in Jobs,
         \A i \in Jobs : Mine(w, m, i) => n[i] = m[i],
         v.pc \in Handling => n[v.job].max = m[v.job].max
  PROVE  Numbered(v, box, n)
<1>1. v.conn => \A i \in 1 .. Len(box) : n[box[i].job] = m[box[i].job]
  BY BoxJobs, Zenon DEF Holds
<1>2. v.conn /\ v.pc \in Handling => n[v.job] = m[v.job]
  BY Zenon DEF Holds
<1>3. Retries(v) => v.pc \in Handling
  BY Zenon DEF Retries, Handling
<1> QED BY <1>1, <1>2, <1>3, Zenon DEF Numbered

(* A step that costs no execution and adds no delivery to what is due.     *)
LEMMA QuietStep ==
  ASSUME TypeInv, NEW w \in Workers, runs' = runs, returns' = returns,
         \A i \in Jobs : msg'[i] = msg[i] /\ (MayRun(w, i)' => MayRun(w, i))
  PROVE  \A i \in Jobs : BudgetStep(w, i)
<1> TAKE i \in Jobs
<1>1. msg[i] \in Message /\ returns[i] \in Nat
  BY Typed, Zenon
<1>2. Due(msg[i]) \in Nat
  BY <1>1, DueFacts, Zenon
<1> QED BY <1>1, <1>2 DEF BudgetStep

(* The delivery in hand is settled.                                        *)
LEMMA SettledBudget ==
  ASSUME TypeInv, NEW w \in Workers, OwnedAt(w), CountedAt(w), NEW pc \in Handling,
         NEW settled \in Message, Settles(w, pc, settled), settled.max = msg[wk[w].job].max,
         wk[w].conn => Due(settled) <= Due(msg[wk[w].job])
  PROVE  BudgetEffect(w)
<1> DEFINE j == wk[w].job
<1>0. Holds(w, wk[w], inbox[w], msg) /\ Numbered(wk[w], inbox[w], msg)
  BY Zenon DEF OwnedAt, CountedAt
<1>1. /\ msg \in [Jobs -> Message] /\ inbox[w] \in Seq(Delivery) /\ returns \in [Jobs -> Nat]
      /\ wk[w].pc \in Handling /\ j \in Jobs
  BY Typed, Zenon DEF Settles
<1>2. /\ inbox' = inbox /\ runs' = runs /\ returns' = returns
      /\ wk'[w].pc \in {"idle", "exit"} /\ wk'[w].conn = wk[w].conn
      /\ msg' = IF wk[w].conn THEN [msg EXCEPT ![j] = settled] ELSE msg
  BY Zenon DEF Settles
<1>3. \A i \in Jobs : msg'[i] = IF wk[w].conn /\ i = j THEN settled ELSE msg[i]
  BY <1>1, <1>2, Zenon
<1>4. CountedAt(w)'
  <2>1. \A i \in Jobs \ {j} : msg'[i] = msg[i]
    BY <1>3, Zenon
  <2>2. Numbered(wk'[w], inbox[w], msg')
    BY <1>1, <1>2, <2>1, <1>0, NumberedSettled, Zenon
  <2> QED BY <1>2, <2>2, Zenon DEF CountedAt
<1>5. ASSUME NEW i \in Jobs PROVE BudgetStep(w, i)
  <2>1. MayRun(w, i)' => MayRun(w, i)
    BY <1>2, Zenon DEF MayRun, Startable, Unprepared
  <2>2. Due(msg[i]) \in Nat /\ Due(settled) \in Nat /\ returns[i] \in Nat
    BY <1>1, DueFacts, Zenon
  <2>3. msg'[i].max = msg[i].max /\ Due(msg'[i]) \in Nat /\ Due(msg'[i]) <= Due(msg[i])
    BY <1>3, <2>2
  <2>4. Due(msg'[i]) + returns[i] <= Due(msg[i]) + returns'[i]
    BY <1>2, <2>2, <2>3
  <2> QED BY <1>2, <2>1, <2>3, <2>4, Zenon DEF BudgetStep
<1> QED BY <1>4, <1>5, Zenon DEF BudgetEffect

(* A message that goes back to the queue, and one that is delivered.       *)
LEMMA RequeuedRecord ==
  ASSUME msg \in [Jobs -> Message], NEW j \in Jobs, NEW n \in Nat
  PROVE  /\ Requeued(j, n) \in Message /\ Requeued(j, n).place = "ready"
         /\ Requeued(j, n).max = msg[j].max /\ Requeued(j, n).count = msg[j].count + n
<1>1. msg[j] \in Message /\ msg[j].count + n \in Nat
  BY DEF Message
<1> QED BY <1>1, Zenon DEF Requeued, Message, Places

LEMMA HeldRecord ==
  ASSUME msg \in [Jobs -> Message], NEW j \in Jobs, NEW w \in Workers
  PROVE  /\ Held(j, w) \in Message /\ Held(j, w).place = "unacked"
         /\ Held(j, w).max = msg[j].max /\ Held(j, w).count = msg[j].count
<1>1. msg[j] \in Message
  BY Zenon
<1> QED BY <1>1, Zenon DEF Held, Message, Places

(* A closed connection gives back at most one delivery for each return.    *)
LEMMA ReturnBudget ==
  ASSUME TypeInv, NEW w \in Workers, ReturnUnacked(w), runs' = runs,
         NEW i \in Jobs, MayRun(w, i)' => MayRun(w, i)
  PROVE  BudgetStep(w, i)
<1>1. msg \in [Jobs -> Message] /\ msg[i] \in Message /\ returns[i] \in Nat
  BY Typed, Zenon
<1>2. Due(msg[i]) \in Nat
  BY <1>1, DueFacts, Zenon
<1>3. CASE i \notin Unacked(w)
  <2>1. msg'[i] = msg[i] /\ returns'[i] = returns[i]
    BY <1>3, Zenon DEF ReturnUnacked
  <2> QED BY <1>1, <1>2, <2>1 DEF BudgetStep
<1>4. CASE i \in Unacked(w)
  <2>1. PICK n \in {0, 1} : msg'[i] = Requeued(i, n)
    BY <1>4, Zenon DEF ReturnUnacked
  <2>2. /\ msg'[i] \in Message /\ msg'[i].place = "ready" /\ msg'[i].max = msg[i].max
        /\ msg'[i].count = msg[i].count + n
    BY <1>1, <2>1, RequeuedRecord
  <2>3. msg[i].place = "unacked" /\ msg'[i].count \in {msg[i].count, msg[i].count + 1}
    BY <1>1, <1>4, <2>1, <2>2 DEF Unacked, Message
  <2>4. Due(msg'[i]) <= Due(msg[i]) + 1 /\ Due(msg'[i]) \in Nat
    BY <1>1, <2>2, <2>3, DueFacts, Zenon
  <2>5. returns'[i] = returns[i] + 1
    BY <1>4, Zenon DEF ReturnUnacked
  <2>6. Due(msg'[i]) + returns[i] <= Due(msg[i]) + returns'[i]
    BY <1>1, <1>2, <2>4, <2>5
  <2> QED BY <2>2, <2>6, Zenon DEF BudgetStep
<1> QED BY <1>3, <1>4, Zenon

(* What each step of a worker spends.                                      *)
LEMMA BudgetStepEffect ==
  ASSUME TypeInv, NEW w \in Workers, OwnedAt(w), CountedAt(w), WorkerAction(w)
  PROVE  BudgetEffect(w)
<1>0. Holds(w, wk[w], inbox[w], msg) /\ Numbered(wk[w], inbox[w], msg)
  BY Zenon DEF OwnedAt, CountedAt
<1>1. /\ msg \in [Jobs -> Message] /\ inbox \in [Workers -> Seq(Delivery)]
      /\ inbox[w] \in Seq(Delivery) /\ runs \in [Jobs -> Nat] /\ returns \in [Jobs -> Nat]
      /\ wk[w].pc \in Handling => wk[w].job \in Jobs
  BY Typed, Zenon
<1>2. CASE Keeps(w)
  <2> DEFINE j == wk[w].job
  <2>1. /\ msg' = msg /\ inbox' = inbox /\ returns' = returns /\ StepsOn(wk[w], wk'[w], msg)
        /\ \/ runs' = runs
           \/ /\ wk[w].pc = "upsert" /\ wk'[w].pc = "process"
              /\ runs' = [runs EXCEPT ![j] = runs[j] + 1]
    BY <1>2, Zenon DEF Keeps
  <2>2. CountedAt(w)'
    BY <2>1, NumberedOn, Zenon DEF OwnedAt, CountedAt
  <2>3. \A i \in Jobs : MayRun(w, i)' => MayRun(w, i)
    BY <2>1, StartableOn, Zenon DEF MayRun
  <2>4. CASE runs' = runs
    BY <2>1, <2>2, <2>3, <2>4, QuietStep, Zenon DEF BudgetEffect
  <2>5. CASE /\ wk[w].pc = "upsert" /\ wk'[w].pc = "process"
             /\ runs' = [runs EXCEPT ![j] = runs[j] + 1]
    <3>1. wk'[w].job = j /\ j \in Jobs
      BY <1>1, <2>1, <2>5, Zenon DEF StepsOn, Handling
    <3>2. \A i \in Jobs : i = j => MayRun(w, i) /\ ~MayRun(w, i)'
      <4>1. Startable(wk[w], inbox[w], j) /\ ~Startable(wk'[w], inbox[w], j)
        BY <1>0, <2>5, <3>1, StartableStarted, Zenon
      <4> QED BY <2>1, <4>1, Zenon DEF MayRun
    <3>3. \A i \in Jobs : runs'[i] = IF i = j THEN runs[i] + 1 ELSE runs[i]
      BY <1>1, <2>5, <3>1, Zenon
    <3>4. \A i \in Jobs : Due(msg[i]) \in Nat /\ returns[i] \in Nat
      BY <1>1, DueFacts, Zenon
    <3>5. \A i \in Jobs : Due(msg'[i]) + returns[i] <= Due(msg[i]) + returns'[i]
      BY <2>1, <3>4
    <3>6. ASSUME NEW i \in Jobs PROVE BudgetStep(w, i)
      <4>1. CASE i = j
        BY <2>1, <3>2, <3>3, <4>1, Zenon DEF BudgetStep
      <4>2. CASE i # j
        BY <2>1, <2>3, <3>3, <3>5, <4>2, Zenon DEF BudgetStep
      <4> QED BY <4>1, <4>2, Zenon
    <3> QED BY <2>2, <3>6, Zenon DEF BudgetEffect
  <2> QED BY <2>1, <2>4, <2>5, Zenon
<1>3. CASE Takes(w)
  <2>1. /\ msg' = msg /\ runs' = runs /\ returns' = returns
        /\ inbox[w] # <<>> /\ inbox'[w] = Tail(inbox[w]) /\ TookFrom(wk[w], wk'[w], Head(inbox[w]))
    BY <1>3, Zenon DEF Takes
  <2>2. CountedAt(w)'
    BY <1>1, <2>1, NumberedTaken, Zenon DEF CountedAt
  <2>3. \A i \in Jobs : MayRun(w, i)' => MayRun(w, i)
    <3>1. \A i \in Jobs : Startable(wk'[w], Tail(inbox[w]), i) => Startable(wk[w], inbox[w], i)
      BY <1>1, <2>1, StartableTaken, Zenon
    <3> QED BY <2>1, <3>1, Zenon DEF MayRun
  <2> QED BY <2>1, <2>2, <2>3, QuietStep, Zenon DEF BudgetEffect
<1>4. CASE Loses(w)
  <2>1. \A i \in Jobs : MayRun(w, i)' => MayRun(w, i)
    BY <1>4 DEF Loses, LostBy, MayRun, Startable, Unprepared
  <2>2. \A i \in Jobs : BudgetStep(w, i)
    BY <1>4, <2>1, ReturnBudget, Zenon DEF Loses
  <2>3. CountedAt(w)'
    <3>1. CASE wk'[w].pc = "down" /\ wk'[w].conn = FALSE /\ inbox'[w] = <<>>
      BY <3>1, Zenon DEF CountedAt, Numbered, Retries
    <3>2. CASE LostBy(wk[w], wk'[w]) /\ inbox' = inbox
      <4>1. wk[w].pc \in Handling => msg'[wk[w].job].max = msg[wk[w].job].max
        BY <1>1, <2>2, Zenon DEF BudgetStep
      <4> QED BY <3>2, <4>1, NumberedLost, Zenon DEF CountedAt
    <3> QED BY <1>4, <3>1, <3>2, Zenon DEF Loses
  <2> QED BY <2>2, <2>3, Zenon DEF BudgetEffect
<1>5. ASSUME NEW pc \in {"ack", "reject"}, NEW x \in {"acked", "dead", "dropped"},
             Settles(w, pc, Put(wk[w].job, x))
      PROVE  BudgetEffect(w)
  <2> DEFINE j == wk[w].job
             s == Put(j, x)
  <2>1. pc \in Handling /\ j \in Jobs /\ x \in Places
    BY <1>1, <1>5, Zenon DEF Settles, Handling, Places
  <2>2. s \in Message /\ s.place = x /\ s.max = msg[j].max
    BY <1>1, <2>1, MessageRecords
  <2>3. Settles(w, pc, s)
    BY <1>5, Zenon
  <2> HIDE DEF s
  <2>4. Due(s) = 0 /\ Due(msg[j]) \in Nat
    BY <1>1, <2>1, <2>2, DueFacts, Zenon
  <2>5. Due(s) <= Due(msg[j])
    BY <2>4
  <2> QED BY <2>1, <2>2, <2>3, <2>5, SettledBudget, Zenon
<1>6. CASE Settles(w, "requeue", Requeued(wk[w].job, 1))
  <2> DEFINE j == wk[w].job
             s == Requeued(j, 1)
  <2>1. wk[w].pc = "requeue" /\ wk[w].pc \in Handling /\ j \in Jobs /\ msg[j] \in Message
    BY <1>1, <1>6, Zenon DEF Settles, Handling
  <2>2. s \in Message /\ s.place = "ready" /\ s.max = msg[j].max /\ s.count = msg[j].count + 1
    BY <1>1, <2>1, RequeuedRecord, Zenon
  <2>3. wk[w].conn => msg[j].place = "unacked" /\ msg[j].count + 1 < msg[j].max
    BY <2>1, Zenon DEF OwnedAt, Holds, Mine, CountedAt, Numbered, Retries
  <2> HIDE DEF s
  <2>4. Due(msg[j]) \in Nat /\ (wk[w].conn => Due(s) = Due(msg[j]))
    BY <2>1, <2>2, <2>3, DueFacts, Zenon
  <2>5. wk[w].conn => Due(s) <= Due(msg[j])
    BY <2>4
  <2>6. Settles(w, "requeue", s) /\ "requeue" \in Handling
    BY <1>6, <2>1, Zenon DEF s
  <2> QED BY <2>2, <2>5, <2>6, SettledBudget, Zenon
<1>7. ASSUME NEW j \in Jobs, Deliver(w, j) PROVE BudgetEffect(w)
  <2> DEFINE d == [job |-> j, attempt |-> msg[j].count + 1]
  <2>1. /\ msg' = [msg EXCEPT ![j] = Held(j, w)] /\ msg[j].place = "ready"
        /\ inbox' = [inbox EXCEPT ![w] = Append(inbox[w], d)]
        /\ wk' = wk /\ wk[w].conn /\ runs' = runs /\ returns' = returns
    BY <1>7, Zenon DEF Deliver, histVars
  <2>2. d \in Delivery /\ d.job = j /\ d.attempt = msg[j].count + 1
    BY <1>1 DEF Delivery, Message
  <2> HIDE DEF d
  <2>3. msg'[j] = Held(j, w) /\ inbox'[w] = Append(inbox[w], d) /\ \A i \in Jobs \ {j} : msg'[i] = msg[i]
    BY <1>1, <2>1, Zenon
  <2>4. /\ msg'[j] \in Message /\ msg'[j].place = "unacked" /\ msg'[j].max = msg[j].max
        /\ msg'[j].count = msg[j].count
    BY <1>1, <2>3, HeldRecord
  <2>5. \A i \in Jobs : msg'[i].count = msg[i].count /\ msg'[i].max = msg[i].max
    BY <2>3, <2>4, Zenon
  <2>6. CountedAt(w)'
    <3>1. d.attempt = msg'[d.job].count + 1
      BY <2>2, <2>4, Zenon
    <3>2. Numbered(wk[w], Append(inbox[w], d), msg')
      BY <1>0, <1>1, <2>1, <2>2, <2>5, <3>1, NumberedReceived, Zenon
    <3> QED BY <2>1, <2>3, <3>2, Zenon DEF CountedAt
  <2>7. ASSUME NEW i \in Jobs PROVE BudgetStep(w, i)
    <3>1. CASE i = j
      <4>1. Due(msg[i]) = Due(msg'[i]) + 1
        BY <1>1, <2>1, <2>4, <3>1, DueFacts, Zenon
      <4> QED BY <2>1, <2>4, <3>1, <4>1, Zenon DEF BudgetStep
    <3>2. CASE i # j
      <4>1. msg'[i] = msg[i] /\ msg[i] \in Message /\ returns[i] \in Nat
        BY <1>1, <2>3, <3>2, Zenon
      <4>2. Due(msg[i]) \in Nat
        BY <4>1, DueFacts, Zenon
      <4>3. Due(msg'[i]) + returns[i] <= Due(msg[i]) + returns'[i]
        BY <2>1, <4>1, <4>2
      <4>4. MayRun(w, i)' => MayRun(w, i)
        BY <1>1, <2>1, <2>2, <2>3, <3>2, StartableReceived, Zenon DEF MayRun
      <4> QED BY <2>1, <4>1, <4>3, <4>4, Zenon DEF BudgetStep
    <3> QED BY <3>1, <3>2, Zenon
  <2> QED BY <2>6, <2>7, Zenon DEF BudgetEffect
<1>8. WorkerMove(w)
  BY WorkerMoves, Zenon
<1> QED BY <1>2, <1>3, <1>4, <1>5, <1>6, <1>7, <1>8, Zenon DEF WorkerMove

(* A job that no broker has is in no worker's hands.                       *)
LEMMA PendingLive ==
  ASSUME TypeInv, InHand, NEW j \in Jobs, msg[j].place \notin Live
  PROVE  Pending(j) = {}
<1>1. ASSUME NEW w \in Workers PROVE ~MayRun(w, j)
  BY Zenon DEF InHand, InHandAt, InHandOf, MayRun, Startable, Unprepared, Handling
<1> QED BY <1>1, Zenon DEF Pending

(* The facts about sets of workers that counting needs.                    *)
SetsOfWorkers ==
  /\ Cardinality({}) = 0
  /\ \A S \in SUBSET Workers : Cardinality(S) \in Nat
  /\ \A S \in SUBSET Workers, T \in SUBSET Workers : S \subseteq T => Cardinality(S) <= Cardinality(T)
  /\ \A S \in SUBSET Workers : \A w \in Workers \ S : Cardinality(S \cup {w}) = Cardinality(S) + 1

(* Pending changes by at most the worker that moves.                       *)
LEMMA PendingMoves ==
  ASSUME SetsOfWorkers, NEW P \in SUBSET Workers, NEW Q \in SUBSET Workers, NEW w \in Workers,
         \A v \in Workers \ {w} : v \in Q => v \in P
  PROVE  /\ Cardinality(P) \in Nat /\ Cardinality(Q) \in Nat
         /\ (w \in Q => w \in P) => Cardinality(Q) <= Cardinality(P)
         /\ w \in P /\ w \notin Q => Cardinality(Q) + 1 <= Cardinality(P)
         /\ Cardinality(Q) <= Cardinality(P) + 1
<1>1. Cardinality(P) \in Nat /\ Cardinality(Q) \in Nat
  BY Zenon DEF SetsOfWorkers
<1>2. (w \in Q => w \in P) => Cardinality(Q) <= Cardinality(P)
  <2>1. (w \in Q => w \in P) => Q \subseteq P
    BY Zenon
  <2> QED BY <2>1, Zenon DEF SetsOfWorkers
<1>3. w \in P /\ w \notin Q => Cardinality(Q) + 1 <= Cardinality(P)
  <2> SUFFICES ASSUME w \in P, w \notin Q PROVE Cardinality(Q) + 1 <= Cardinality(P)
    BY Zenon
  <2>1. w \in Workers \ Q /\ Q \cup {w} \in SUBSET Workers /\ Q \cup {w} \subseteq P
    BY Zenon
  <2>2. Cardinality(Q \cup {w}) = Cardinality(Q) + 1 /\ Cardinality(Q \cup {w}) <= Cardinality(P)
    BY <2>1, Zenon DEF SetsOfWorkers
  <2> QED BY <2>2, Zenon
<1>4. Cardinality(Q) <= Cardinality(P) + 1
  <2>1. CASE w \in P
    BY <1>1, <1>2, <2>1
  <2>2. CASE w \notin P
    <3>1. w \in Workers \ P /\ P \cup {w} \in SUBSET Workers /\ Q \subseteq P \cup {w}
      BY <2>2, Zenon
    <3>2. /\ Cardinality(P \cup {w}) = Cardinality(P) + 1
          /\ Cardinality(Q) <= Cardinality(P \cup {w})
      BY <3>1, Zenon DEF SetsOfWorkers
    <3> QED BY <3>2, Zenon
  <2> QED BY <2>1, <2>2, Zenon
<1> QED BY <1>1, <1>2, <1>3, <1>4, Zenon

(* A worker's step keeps every job within its budget.                      *)
LEMMA BudgetKept ==
  ASSUME SetsOfWorkers, TypeInv, TypeInv', InHand, NEW w \in Workers, NEW i \in Jobs,
         BudgetAt(i), BudgetStep(w, i), MsgEffect,
         \A v \in Workers \ {w} : wk'[v] = wk[v] /\ inbox'[v] = inbox[v]
  PROVE  BudgetAt(i)'
<1> DEFINE P == Pending(i)
           Q == Pending(i)'
<1>1. P \in SUBSET Workers /\ Q \in SUBSET Workers
  BY DEF Pending
<1>2. \A v \in Workers \ {w} : v \in Q => v \in P
  BY DEF Pending, MayRun
<1>3. (w \in P <=> MayRun(w, i)) /\ (w \in Q <=> MayRun(w, i)')
  BY DEF Pending
<1> HIDE DEF P, Q
<1>4. /\ Cardinality(P) \in Nat /\ Cardinality(Q) \in Nat
      /\ (MayRun(w, i)' => MayRun(w, i)) => Cardinality(Q) <= Cardinality(P)
      /\ MayRun(w, i) /\ ~MayRun(w, i)' => Cardinality(Q) + 1 <= Cardinality(P)
      /\ Cardinality(Q) <= Cardinality(P) + 1
  BY <1>1, <1>2, <1>3, PendingMoves, Zenon
<1>5. /\ runs[i] \in Nat /\ returns[i] \in Nat /\ returns'[i] \in Nat
      /\ msg[i] \in Message /\ msg'[i] \in Message /\ msg[i].max \in Nat
  BY Typed, TypedNext, Zenon DEF Message
<1>6. Due(msg[i]) \in Nat /\ Due(msg'[i]) \in Nat
  BY <1>5, DueFacts, Zenon
<1>7. msg[i].max > 0 => runs[i] + Cardinality(P) + Due(msg[i]) <= msg[i].max + returns[i]
  BY Zenon DEF BudgetAt, P
<1>8. msg'[i].max = msg[i].max
  BY Zenon DEF BudgetStep
<1>9. \/ /\ runs'[i] = runs[i] /\ Cardinality(Q) <= Cardinality(P)
         /\ Due(msg'[i]) + returns[i] <= Due(msg[i]) + returns'[i]
      \/ /\ runs'[i] = runs[i] + 1 /\ Cardinality(Q) + 1 <= Cardinality(P)
         /\ returns'[i] = returns[i] /\ Due(msg'[i]) = Due(msg[i])
      \/ /\ runs'[i] = runs[i] /\ Cardinality(Q) <= Cardinality(P) + 1
         /\ returns'[i] = returns[i] /\ Due(msg[i]) = Due(msg'[i]) + 1
  BY <1>4, Zenon DEF BudgetStep
<1> DEFINE r == runs[i]          s == runs'[i]
           p == Cardinality(P)   q == Cardinality(Q)
           d == Due(msg[i])      e == Due(msg'[i])
           x == returns[i]       y == returns'[i]
           max == msg[i].max
<1>10. /\ r \in Nat /\ p \in Nat /\ q \in Nat /\ d \in Nat /\ e \in Nat
       /\ x \in Nat /\ y \in Nat /\ max \in Nat
       /\ max > 0 => r + p + d <= max + x
       /\ \/ s = r /\ q <= p /\ e + x <= d + y
          \/ s = r + 1 /\ q + 1 <= p /\ y = x /\ e = d
          \/ s = r /\ q <= p + 1 /\ y = x /\ d = e + 1
  BY <1>4, <1>5, <1>6, <1>7, <1>9, Zenon
<1>11. msg'[i].max > 0 => runs'[i] + Cardinality(Q) + Due(msg'[i]) <= msg'[i].max + returns'[i]
  <2> HIDE DEF r, s, p, q, d, e, x, y, max
  <2>1. max > 0 => s + q + e <= max + y
    BY <1>10
  <2> QED BY <1>8, <2>1, Zenon DEF s, q, e, max, y
<1>12. msg'[i].place \notin Live => runs'[i] = 0 /\ msg'[i].count = 0
  <2> SUFFICES ASSUME msg'[i].place \notin Live PROVE runs'[i] = 0 /\ msg'[i].count = 0
    OBVIOUS
  <2>1. msg'[i] = msg[i] /\ msg[i].place \notin Live
    BY Zenon DEF MsgEffect
  <2>2. runs[i] = 0 /\ msg[i].count = 0
    BY <2>1, Zenon DEF BudgetAt
  <2>3. ~MayRun(w, i)
    BY <2>1, PendingLive, Zenon DEF Pending
  <2>4. runs'[i] = runs[i]
    BY <2>3, Zenon DEF BudgetStep
  <2> QED BY <2>1, <2>2, <2>4, Zenon
<1> QED BY <1>11, <1>12, Zenon DEF BudgetAt, Q

(* A submission's step keeps every job within its budget.                  *)
LEMMA BudgetPublished ==
  ASSUME SetsOfWorkers, TypeInv, TypeInv', InHand, NEW j \in Jobs, BudgetAt(j),
         JobEffect(j), runs' = runs, returns' = returns, msg'[j].count = msg[j].count
  PROVE  BudgetAt(j)'
<1>1. Pending(j)' = Pending(j)
  BY Zenon DEF Pending, MayRun, JobEffect
<1>2. CASE msg'[j] = msg[j]
  BY <1>1, <1>2, Zenon DEF BudgetAt
<1>3. CASE msg'[j] # msg[j]
  <2>1. msg[j].place \notin Live /\ msg'[j].place \in {"sent", "refused", "ready"}
    BY <1>3, Zenon DEF JobEffect
  <2>2. runs'[j] = 0 /\ msg'[j].count = 0 /\ Cardinality(Pending(j)') = 0
    BY <1>1, <2>1, PendingLive, Zenon DEF BudgetAt, SetsOfWorkers
  <2>3. msg'[j] \in Message /\ msg'[j].max \in Nat /\ returns'[j] \in Nat
    BY TypedNext, Zenon DEF Message
  <2>4. msg'[j].max > 0 => Due(msg'[j]) \in Nat /\ Due(msg'[j]) <= msg'[j].max
    BY <2>1, <2>2, <2>3, DueFacts
  <2> QED BY <2>2, <2>3, <2>4 DEF BudgetAt
<1> QED BY <1>2, <1>3, Zenon

(* What a worker knows of numbers stays true while others move: the        *)
(* messages of its deliveries are its own, and limits never change.        *)
LEMMA CountKept ==
  ASSUME TypeInv, NEW v \in Workers, OwnedAt(v), InHandAt(v), CountedAt(v),
         wk'[v] = wk[v], inbox'[v] = inbox[v],
         \A i \in Jobs : msg[i].place = "unacked" /\ msg[i].owner = v => msg'[i] = msg[i],
         \A i \in Jobs : msg[i].place \in Live => msg'[i].max = msg[i].max
  PROVE  CountedAt(v)'
<1>1. inbox[v] \in Seq(Delivery) /\ (wk[v].pc \in Handling => wk[v].job \in Jobs)
  BY Typed, Zenon
<1>2. wk[v].pc \in Handling => msg'[wk[v].job].max = msg[wk[v].job].max
  BY <1>1, Zenon DEF InHandAt, InHandOf
<1>3. \A i \in Jobs : Mine(v, msg, i) => msg'[i] = msg[i]
  BY Zenon DEF Mine
<1>4. Holds(v, wk[v], inbox[v], msg) /\ Numbered(wk[v], inbox[v], msg)
  BY Zenon DEF OwnedAt, CountedAt
<1>5. Numbered(wk[v], inbox[v], msg')
  BY <1>1, <1>2, <1>3, <1>4, NumberedStill
<1> QED BY <1>5, Zenon DEF CountedAt

(* Initially nothing is spent.                                             *)
LEMMA BudgetInit == SetsOfWorkers /\ Init => BudgetInv
<1> SUFFICES ASSUME SetsOfWorkers, Init PROVE BudgetInv
  OBVIOUS
<1>1. \A w \in Workers : CountedAt(w)
  BY Zenon DEF Init, CountedAt, Numbered, Retries, Down
<1>2. ASSUME NEW j \in Jobs PROVE BudgetAt(j)
  <2>1. msg[j].max = 0 /\ msg[j].count = 0 /\ runs[j] = 0
    BY Zenon DEF Init
  <2> QED BY <2>1 DEF BudgetAt
<1> QED BY <1>1, <1>2, Zenon DEF BudgetInv

(* Every step keeps the budget.                                            *)
LEMMA BudgetNext == SetsOfWorkers /\ SafeInv /\ Owned /\ BudgetInv /\ [Next]_vars => BudgetInv'
<1> SUFFICES ASSUME SetsOfWorkers, SafeInv, Owned, BudgetInv, [Next]_vars PROVE BudgetInv'
  OBVIOUS
<1>1. TypeInv /\ Submitted /\ InHand /\ Recorded
  BY DEF SafeInv
<1>2. TypeInv'
  BY <1>1, TypeStep, Zenon
<1>3. ASSUME NEW j \in Jobs, RequestAction(j) PROVE BudgetInv'
  <2>1. JobEffect(j) /\ runs' = runs /\ returns' = returns /\ msg'[j].count = msg[j].count
    BY <1>1, <1>3, RequestEffect, RequestBudget, Zenon
  <2>2. BudgetAt(j)'
    BY <1>1, <1>2, <2>1, BudgetPublished, Zenon DEF BudgetInv
  <2>3. ASSUME NEW i \in Jobs \ {j} PROVE BudgetAt(i)'
    <3>1. msg'[i] = msg[i] /\ wk' = wk /\ inbox' = inbox /\ BudgetAt(i)
      BY <2>1, Zenon DEF JobEffect, BudgetInv
    <3>2. Pending(i)' = Pending(i)
      BY <3>1, Zenon DEF Pending, MayRun
    <3> QED BY <2>1, <3>1, <3>2, Zenon DEF BudgetAt
  <2>4. ASSUME NEW v \in Workers PROVE CountedAt(v)'
    <3>1. \A i \in Jobs : msg[i].place \in Live => msg'[i] = msg[i]
      BY <2>1, Zenon DEF JobEffect
    <3>2. /\ OwnedAt(v) /\ InHandAt(v) /\ CountedAt(v)
          /\ wk'[v] = wk[v] /\ inbox'[v] = inbox[v]
      BY <1>1, <2>1, Zenon DEF JobEffect, Owned, InHand, BudgetInv
    <3> QED BY <1>1, <3>1, <3>2, CountKept, Zenon DEF Live
  <2> QED BY <2>2, <2>3, <2>4, Zenon DEF BudgetInv
<1>4. ASSUME NEW w \in Workers, WorkerAction(w) PROVE BudgetInv'
  <2>1. CountedAt(w)
    BY DEF BudgetInv
  <2>2. WorkerEffect(w) /\ OwnedEffect(w) /\ BudgetEffect(w)
    BY <1>1, <1>4, <2>1, WorkerStepEffect, OwnedStepEffect, BudgetStepEffect, Zenon DEF Owned
  <2>3. ASSUME NEW i \in Jobs PROVE BudgetAt(i)'
    <3>1. BudgetAt(i) /\ BudgetStep(w, i)
      BY <2>2, Zenon DEF BudgetInv, BudgetEffect
    <3>2. MsgEffect /\ \A v \in Workers \ {w} : wk'[v] = wk[v] /\ inbox'[v] = inbox[v]
      BY <2>2, Zenon DEF WorkerEffect
    <3> QED BY <1>1, <1>2, <3>1, <3>2, BudgetKept, Zenon
  <2>4. ASSUME NEW v \in Workers \ {w} PROVE CountedAt(v)'
    <3>1. \A i \in Jobs : msg[i].place = "unacked" /\ msg[i].owner = v => msg'[i] = msg[i]
      BY <2>2, Zenon DEF OwnedEffect, OthersKept
    <3>2. \A i \in Jobs : msg'[i].max = msg[i].max
      BY <2>2, Zenon DEF BudgetEffect, BudgetStep
    <3>3. /\ OwnedAt(v) /\ InHandAt(v) /\ CountedAt(v)
          /\ wk'[v] = wk[v] /\ inbox'[v] = inbox[v]
      BY <1>1, <2>2, Zenon DEF WorkerEffect, Owned, InHand, BudgetInv
    <3> QED BY <1>1, <3>1, <3>2, <3>3, CountKept, Zenon
  <2> QED BY <2>2, <2>3, <2>4, Zenon DEF BudgetInv, BudgetEffect
<1>5. CASE ControlPlaneRestart \/ PublisherLost \/ UNCHANGED vars
  <2>1. UNCHANGED <<msg, wk, inbox, runs, returns>>
    BY <1>5, Zenon DEF ControlPlaneRestart, PublisherLost, vars, brokerVars, workerVars, histVars
  <2>2. \A j \in Jobs : Pending(j)' = Pending(j)
    BY <2>1, Zenon DEF Pending, MayRun
  <2> QED BY <2>1, <2>2, Zenon DEF BudgetInv, BudgetAt, CountedAt
<1> QED BY <1>3, <1>4, <1>5, Zenon DEF Next, RequestAction, WorkerAction

(* There are finitely many workers, so sets of them can be counted.        *)
Finite == INSTANCE FiniteSetTheorems

LEMMA SameIsFinite == ASSUME NEW S PROVE Finite!IsFiniteSet(S) = IsFiniteSet(S)
BY DEF Finite!IsFiniteSet, IsFiniteSet

LEMMA SameCardinality == ASSUME NEW S PROVE Finite!Cardinality(S) = Cardinality(S)
BY Zenon DEF Finite!Cardinality, Cardinality

LEMMA WorkersFinite == SetsOfWorkers
<1>1. \A S \in SUBSET Workers : Finite!IsFiniteSet(S)
  BY WorkersAssumption, SameIsFinite, Finite!FS_Subset, Zenon
<1>2. Cardinality({}) = 0
  BY SameCardinality, Finite!FS_EmptySet, Zenon
<1>3. \A S \in SUBSET Workers : Cardinality(S) \in Nat
  BY <1>1, SameCardinality, Finite!FS_CardinalityType, Zenon
<1>4. \A S \in SUBSET Workers, T \in SUBSET Workers : S \subseteq T => Cardinality(S) <= Cardinality(T)
  BY <1>1, SameCardinality, Finite!FS_Subset, Zenon
<1>5. \A S \in SUBSET Workers : \A w \in Workers \ S : Cardinality(S \cup {w}) = Cardinality(S) + 1
  BY <1>1, SameCardinality, Finite!FS_AddElement, Zenon
<1> QED BY <1>2, <1>3, <1>4, <1>5, Zenon DEF SetsOfWorkers

(* Whatever connections are lost and however many workers hold deliveries  *)
(* of a job, it is executed at most max_attempts times, and once more for  *)
(* each delivery given back unsettled.                                     *)
THEOREM BudgetCorrect == Spec => []RunsWithinBudget
<1>1. SafeInv /\ BudgetInv => RunsWithinBudget
  <2> SUFFICES ASSUME SafeInv, BudgetInv, NEW j \in Jobs, msg[j].max > 0
               PROVE  runs[j] <= msg[j].max + returns[j]
    BY Zenon DEF RunsWithinBudget
  <2>1. /\ msg[j] \in Message /\ msg[j].max \in Nat /\ runs[j] \in Nat /\ returns[j] \in Nat
    BY Typed, Zenon DEF SafeInv, Message
  <2>2. Cardinality(Pending(j)) \in Nat /\ Due(msg[j]) \in Nat
    BY <2>1, WorkersFinite, DueFacts, Zenon DEF SetsOfWorkers, Pending
  <2>3. runs[j] + Cardinality(Pending(j)) + Due(msg[j]) <= msg[j].max + returns[j]
    BY Zenon DEF BudgetInv, BudgetAt
  <2> QED BY <2>1, <2>2, <2>3
<1>2. Spec => [](SafeInv /\ Owned)
  BY OwnedInit, OwnedStep, SafeInvariant, PTL DEF Spec
<1>3. Init => BudgetInv
  BY BudgetInit, WorkersFinite, Zenon
<1>4. SafeInv /\ Owned /\ BudgetInv /\ [Next]_vars => BudgetInv'
  BY BudgetNext, WorkersFinite, Zenon
<1> QED BY <1>1, <1>2, <1>3, <1>4, PTL DEF Spec
=============================================================================
