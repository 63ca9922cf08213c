---- MODULE AccessPipeline ----
(***************************************************************************)
(* The path of an access event: the gateways' asynchronous Kafka producer, *)
(* the topic, and the analytics consumers that store each record in        *)
(* PostgreSQL and then commit its offset.                                  *)
(*                                                                         *)
(* Kafka is external: the topic, the group coordinator that assigns        *)
(* partitions and fences commits of members it has expelled, and the       *)
(* client library are modelled from how the code uses them.  PostgreSQL    *)
(* runs the transactions at READ COMMITTED: an INSERT of a key that an     *)
(* open transaction has inserted, and an upsert of a row that one has      *)
(* updated, wait for that transaction to end.                              *)
(***************************************************************************)
EXTENDS HourlyStats, Sequences

CONSTANTS Gateways,       \* gateway processes
          Consumers,      \* analytics processes
          Partitions,     \* partitions of the topic
          Events,         \* the access events the gateways build
          Traffic,        \* the sets of records that may be produced
          Unstorable,     \* events Validate accepts and a column refuses
          PartitionOf(_), \* the partition of an event's record key
          Nobody,         \* no consumer
          Malformed,      \* a record that is not a valid event
          MaxBuffered,    \* MaxBufferedRecords of the producer
          MaxAttempts,    \* MaxProcessAttempts
          RetryMin,       \* ANALYTICS_RETRY_MIN
          RetryMax,       \* ANALYTICS_RETRY_MAX
          Filters,        \* the filters of the statistics queries
          PageLimit,      \* the greatest limit of the hourly list, 1000 in the code
          MaxFaults       \* bound: failures of Kafka, PostgreSQL, processes

\* The conditions config.Load and consumer.New check.
ASSUME RetryAssumption ==
  /\ RetryMin \in Nat \ {0}
  /\ RetryMax \in Nat
  /\ RetryMax >= RetryMin
  /\ MaxAttempts \in Nat \ {0}
ASSUME BoundAssumption == {MaxBuffered, MaxFaults} \subseteq Nat
ASSUME NobodyAssumption == Nobody \notin Consumers
ASSUME MalformedAssumption == Malformed \notin Events
ASSUME UnstorableAssumption == Unstorable \subseteq Events
ASSUME EventAssumption == \A e \in Events : e.ms \in Int /\ e.bytes \in Int
ASSUME TrafficAssumption == \A records \in Traffic : records \subseteq Events \cup {Malformed}
ASSUME PartitionAssumption == \A e \in Events : PartitionOf(e) \in Partitions

VARIABLES todo,       \* the records still to be produced
          buffer,     \* gateway -> events in its producer's buffer
          log,        \* partition -> its records
          committed,  \* partition -> the group's committed offset
          owner,      \* partition -> the member it is assigned to
          position,   \* partition -> the next offset its owner fetches
          consumer,   \* consumer -> state of its Run loop
          rows,       \* gateway_access_events
          hourly,     \* gateway_route_stats_hourly
          faults      \* failures so far

vars == <<todo, buffer, log, committed, owner, position, consumer, rows, hourly, faults>>
kafka == <<log, committed, owner, position>>
tables == <<rows, hourly>>

\* A consumer's place in Run, handleRecord and StoreGatewayAccess:
\*   down      the process is not running
\*   poll      in PollRecords
\*   insert    about to insert the event row (a transaction of its own)
\*   upsert    inserted, about to update the hourly row
\*   txCommit  about to commit the transaction
\*   wait      the timer between two attempts
\*   offset    about to commit the record's offset
PCs == {"down", "poll", "insert", "upsert", "txCommit", "wait", "offset"}

Idle(pc) == [pc |-> pc, part |-> Nobody, offset |-> 0, attempt |-> 0, delay |-> 0]

Init ==
  /\ todo \in Traffic
  /\ buffer = [g \in Gateways |-> {}]
  /\ log = [p \in Partitions |-> <<>>]
  /\ committed = [p \in Partitions |-> 0]
  /\ owner = [p \in Partitions |-> Nobody]
  /\ position = [p \in Partitions |-> 0]
  /\ consumer = [c \in Consumers |-> Idle("down")]
  /\ rows = {}
  /\ hourly = [k \in {} |-> 0]
  /\ faults = 0

Fault == faults < MaxFaults /\ faults' = faults + 1

----------------------------------------------------------------------------
(* The gateway's producer.                                                 *)

\* A request completes: the AccessEvents middleware builds its event, and
\* PublishGatewayAccess validates it and hands it to TryProduce, which drops
\* it at once when the buffer is full.
Publish(g) ==
  /\ \E e \in todo \ {Malformed} :
       /\ todo' = todo \ {e}
       /\ buffer' = IF Validate(e) /\ Cardinality(buffer[g]) < MaxBuffered
                    THEN [buffer EXCEPT ![g] = @ \cup {e}]
                    ELSE buffer
  /\ UNCHANGED <<kafka, consumer, tables, faults>>

\* Kafka appends a buffered record to the partition of its key.
Deliver(g) ==
  /\ \E e \in buffer[g] :
       /\ buffer' = [buffer EXCEPT ![g] = @ \ {e}]
       /\ log' = [log EXCEPT ![PartitionOf(e)] = Append(@, e)]
  /\ UNCHANGED <<todo, committed, owner, position, consumer, tables, faults>>

\* Records leave the buffer unwritten: RecordDeliveryTimeout has passed, the
\* flush of Close has timed out, or the gateway has crashed.
Discard(g) ==
  /\ \E lost \in SUBSET buffer[g] \ {{}} : buffer' = [buffer EXCEPT ![g] = @ \ lost]
  /\ UNCHANGED <<todo, kafka, consumer, tables, faults>>

\* Another producer writes a record that does not decode to a valid event.
WriteMalformed(p) ==
  /\ Malformed \in todo
  /\ todo' = todo \ {Malformed}
  /\ log' = [log EXCEPT ![p] = Append(@, Malformed)]
  /\ UNCHANGED <<buffer, committed, owner, position, consumer, tables, faults>>

----------------------------------------------------------------------------
(* The consumer group.                                                     *)

\* The coordinator gives a free partition to a member.  Joining waits while
\* BlockRebalanceOnPoll holds the member, which is from the return of
\* PollRecords to AllowRebalance.
Assign(p) ==
  /\ owner[p] = Nobody
  /\ \E c \in Consumers :
       /\ consumer[c].pc = "poll"
       /\ owner' = [owner EXCEPT ![p] = c]
  /\ position' = [position EXCEPT ![p] = committed[p]]
  /\ UNCHANGED <<todo, buffer, log, committed, consumer, tables, faults>>

\* The partition is taken from a member: in a rebalance, or because a record
\* takes the member longer than the rebalance timeout.
Revoke(p) ==
  /\ owner[p] # Nobody
  /\ owner' = [owner EXCEPT ![p] = Nobody]
  /\ Fault
  /\ UNCHANGED <<todo, buffer, log, committed, position, consumer, tables>>

\* The process ends; sooner or later the coordinator misses it.
Leave(c) ==
  /\ consumer' = [consumer EXCEPT ![c] = Idle("down")]
  /\ owner' = [p \in Partitions |-> IF owner[p] = c THEN Nobody ELSE owner[p]]

----------------------------------------------------------------------------
(* The analytics process.                                                  *)

Goto(c, pc) == consumer' = [consumer EXCEPT ![c].pc = pc]

Record(c) == log[consumer[c].part][consumer[c].offset + 1]

Start(c) ==
  /\ consumer[c].pc = "down"
  /\ Goto(c, "poll")
  /\ UNCHANGED <<todo, buffer, kafka, tables, faults>>

\* Mutant: an invalid record's offset is not committed.
AfterDecodeUncommitted(record) == IF record = Malformed THEN "poll" ELSE "insert"

\* decodeGatewayAccessEvent: handleRecord skips an invalid record straight to
\* the commit of its offset.
AfterDecode(record) == IF record = Malformed THEN "offset" ELSE "insert"

\* PollRecords returns one record, which handleRecord decodes.
Poll(c) ==
  /\ consumer[c].pc = "poll"
  /\ \E p \in Partitions :
       /\ owner[p] = c
       /\ position[p] < Len(log[p])
       /\ position' = [position EXCEPT ![p] = @ + 1]
       /\ consumer' = [consumer EXCEPT ![c] =
            [pc      |-> AfterDecode(log[p][position[p] + 1]),
             part    |-> p,
             offset  |-> position[p],
             attempt |-> 1,
             delay   |-> RetryMin]]
  /\ UNCHANGED <<todo, buffer, log, committed, owner, tables, faults>>

\* The consumers whose open transaction has inserted e, or updated e's bucket.
Inserting(e) ==
  {c \in Consumers : consumer[c].pc \in {"upsert", "txCommit"} /\ Record(c) = e}

Updating(bucket) ==
  {c \in Consumers : /\ consumer[c].pc = "txCommit"
                     /\ ShouldAggregate(Record(c))
                     /\ BucketOf(Record(c)) = bucket}

\* Mutant: a duplicate is counted again.
AfterInsertBlind(e) == IF ShouldAggregate(e) THEN "upsert" ELSE "txCommit"

\* INSERT ... ON CONFLICT DO NOTHING RETURNING: no row means a duplicate, and
\* the transaction is rolled back with nothing in it.
AfterInsert(e) ==
  IF e \in rows THEN "offset"
  ELSE IF ShouldAggregate(e) THEN "upsert"
  ELSE "txCommit"

Insert(c) ==
  /\ consumer[c].pc = "insert"
  /\ Record(c) \notin Unstorable
  /\ Inserting(Record(c)) = {}
  /\ Goto(c, AfterInsert(Record(c)))
  /\ UNCHANGED <<todo, buffer, kafka, tables, faults>>

Upsert(c) ==
  /\ consumer[c].pc = "upsert"
  /\ Updating(BucketOf(Record(c))) = {}
  /\ Goto(c, "txCommit")
  /\ UNCHANGED <<todo, buffer, kafka, tables, faults>>

\* Both tables change at the commit.  The bucket is locked since the upsert,
\* so the counters the upsert read are still the committed ones.
Stored(e) == rows' = rows \cup {e} /\ hourly' = Aggregated(hourly, e)

TxCommit(c) ==
  /\ consumer[c].pc = "txCommit"
  /\ Stored(Record(c))
  /\ Goto(c, "offset")
  /\ UNCHANGED <<todo, buffer, kafka, faults>>

\* Mutant: the doubled delay is not capped.
NextRetryDelayUncapped(current, maximum) ==
  IF current >= maximum THEN maximum ELSE current * 2

NextRetryDelay(current, maximum) ==
  IF current >= maximum \/ current > maximum \div 2 THEN maximum ELSE current * 2

\* Mutant: the last attempt gives the record up.
AfterFailureSkips(c) ==
  \/ /\ consumer[c].attempt < MaxAttempts
     /\ Goto(c, "wait")
     /\ UNCHANGED owner
  \/ /\ consumer[c].attempt = MaxAttempts
     /\ Goto(c, "offset")
     /\ UNCHANGED owner

\* processWithRetry after an error: another attempt, or Run returns the error
\* and the process exits.
AfterFailure(c) ==
  \/ /\ consumer[c].attempt < MaxAttempts
     /\ Goto(c, "wait")
     /\ UNCHANGED owner
  \/ /\ consumer[c].attempt = MaxAttempts
     /\ Leave(c)

\* A statement fails and the transaction is rolled back; or its COMMIT is
\* applied and the answer to it is lost.
StoreFails(c) ==
  /\ consumer[c].pc \in {"insert", "upsert", "txCommit"}
  /\ \/ UNCHANGED tables
     \/ consumer[c].pc = "txCommit" /\ Stored(Record(c))
  /\ AfterFailure(c)
  /\ Fault
  /\ UNCHANGED <<todo, buffer, log, committed, position>>

\* PostgreSQL refuses the event itself, at this and at every other attempt.
StoreRefused(c) ==
  /\ consumer[c].pc = "insert"
  /\ Record(c) \in Unstorable
  /\ AfterFailure(c)
  /\ UNCHANGED <<todo, buffer, log, committed, position, tables, faults>>

Retry(c) ==
  /\ consumer[c].pc = "wait"
  /\ consumer' = [consumer EXCEPT ![c].pc = "insert", ![c].attempt = @ + 1,
                                  ![c].delay = NextRetryDelay(@, RetryMax)]
  /\ UNCHANGED <<todo, buffer, kafka, tables, faults>>

\* commitRecord, by a member the coordinator still knows; then Run polls again.
CommitRecord(c) ==
  /\ consumer[c].pc = "offset"
  /\ owner[consumer[c].part] = c
  /\ committed' = [committed EXCEPT ![consumer[c].part] = consumer[c].offset + 1]
  /\ consumer' = [consumer EXCEPT ![c] = Idle("poll")]
  /\ UNCHANGED <<todo, buffer, log, owner, position, tables, faults>>

\* commitRecord fails, and Run returns the error: the coordinator has expelled
\* the member, or the request failed, applied or not.
CommitFails(c) ==
  /\ consumer[c].pc = "offset"
  /\ \/ /\ owner[consumer[c].part] # c
        /\ UNCHANGED <<committed, faults>>
     \/ /\ owner[consumer[c].part] = c
        /\ committed' \in {committed,
              [committed EXCEPT ![consumer[c].part] = consumer[c].offset + 1]}
        /\ Fault
  /\ Leave(c)
  /\ UNCHANGED <<todo, buffer, log, position, tables>>

\* A crash, or SIGTERM: the context is cancelled and Run returns wherever it
\* is.  A COMMIT on its way to PostgreSQL may still be applied.
Stop(c) ==
  /\ consumer[c].pc # "down"
  /\ \/ UNCHANGED tables
     \/ consumer[c].pc = "txCommit" /\ Stored(Record(c))
  /\ Leave(c)
  /\ Fault
  /\ UNCHANGED <<todo, buffer, log, committed, position>>

Work(c) ==
  Start(c) \/ Poll(c) \/ Insert(c) \/ Upsert(c) \/ TxCommit(c) \/ StoreRefused(c)
    \/ Retry(c) \/ CommitRecord(c) \/ CommitFails(c)

Next ==
  \/ \E g \in Gateways : Publish(g) \/ Deliver(g) \/ Discard(g)
  \/ \E p \in Partitions : WriteMalformed(p) \/ Assign(p) \/ Revoke(p)
  \/ \E c \in Consumers : Work(c) \/ StoreFails(c) \/ Stop(c)

Spec == Init /\ [][Next]_vars

\* The Go scheduler runs a process that can move, Kubernetes restarts one that
\* has exited, and the coordinator assigns partitions nobody owns.  Nothing
\* obliges a gateway's record to be delivered.
FairSpec ==
  /\ Spec
  /\ \A c \in Consumers : WF_vars(Work(c))
  /\ \A p \in Partitions : WF_vars(Assign(p))

----------------------------------------------------------------------------
(* Properties.                                                             *)

\* Every variable has its type, and the delay before a retry stays between
\* RetryMin and RetryMax whatever doubling and halving do.
TypeOK ==
  /\ todo \subseteq Events \cup {Malformed}
  /\ buffer \in [Gateways -> SUBSET Events]
  /\ log \in [Partitions -> Seq(Events \cup {Malformed})]
  /\ committed \in [Partitions -> Nat]
  /\ owner \in [Partitions -> Consumers \cup {Nobody}]
  /\ position \in [Partitions -> Nat]
  /\ consumer \in [Consumers -> [pc : PCs, part : Partitions \cup {Nobody}, offset : Nat,
                                 attempt : 0..MaxAttempts, delay : {0} \cup RetryMin..RetryMax]]
  /\ rows \subseteq Events
  /\ faults \in 0..MaxFaults

\* The sum of the natural numbers f[x]: the number of all their units.
Units(f) == UNION {{x} \X (1..f[x]) : x \in DOMAIN f}

Total(f) == Cardinality(Units(f))

\* The hourly row of a set of events, and what the hourly table should hold,
\* counted afresh from the event table.
RowOf(S) ==
  [requests |-> Cardinality(S),
   classes  |-> [class \in 1..5 |-> Cardinality({e \in S : e.status \div 100 = class})],
   limited  |-> Cardinality({e \in S : e.limited}),
   ms       |-> Total([e \in S |-> e.ms]),
   maxMs    |-> Max({e.ms : e \in S}),
   bytes    |-> Total([e \in S |-> e.bytes])]

InBucket(stored, k) == {e \in stored : ShouldAggregate(e) /\ BucketOf(e) = k}

Recount(stored) ==
  [k \in {BucketOf(e) : e \in {x \in stored : ShouldAggregate(x)}} |-> RowOf(InBucket(stored, k))]

\* The two tables agree: each stored event is counted in its bucket once,
\* however often its record is delivered, retried after an ambiguous COMMIT,
\* or handled by a second consumer at the same time.
CountedOnce == hourly = Recount(rows)

\* No record is lost by a commit: below the committed offset of a partition
\* every valid event is in gateway_access_events.
CommittedStored ==
  \A p \in Partitions :
    /\ committed[p] <= Len(log[p])
    /\ \A i \in 1..committed[p] : log[p][i] = Malformed \/ log[p][i] \in rows

\* Some instant of the requested interval lies in the hour of the event.
SharesHour(e, f) == \E t \in f.from..(f.to - 1) : Truncate(t) = Truncate(e.at)

Wanted(f) ==
  {e \in rows : /\ ShouldAggregate(e)
                /\ e.project = f.project
                /\ f.route = "" \/ e.route = f.route
                /\ f.method = "" \/ e.method = f.method
                /\ SharesHour(e, f)}

\* The requests in those rows of a page that belong to hours before t.
CountedBefore(page, t) ==
  LET early == {k \in page : k.start < t}
  IN  SumOf([k \in early |-> hourly[k].requests], early)

\* The summary of an accepted filter is, column by column, what the stored
\* events of the hours the requested interval touches amount to, each under
\* one status class.  A page of the hourly list that is not full adds up to
\* the summary; a full one is complete for every hour before that of its last
\* row, so that a client may go on from there.
SummaryExact ==
  \A f \in Filters : ~FilterRefused(f) =>
    LET summary == GetRouteStatsSummary(hourly, f)
    IN  /\ IF Wanted(f) = {} THEN summary.requests = 0 ELSE summary = RowOf(Wanted(f))
        /\ summary.requests = MapThenSumSet(LAMBDA class : summary.classes[class], 1..5)
        /\ \A limit \in 1..PageLimit : \A page \in ListRouteStatsHourly(hourly, f, limit) :
             IF Cardinality(page) < limit
             THEN CountedBefore(page, CeilHour(f.to)) = summary.requests
             ELSE LET last == Max({k.start : k \in page})
                  IN  CountedBefore(page, last) = Cardinality({e \in Wanted(f) : e.at < last})

\* Every record of the topic is eventually settled, its offset committed, if
\* failures are finitely many, or the topic holds an event PostgreSQL refuses:
\* a record that does not decode, a retry, a rebalance or a restart holds up a
\* partition only for a while.  (An event that is refused for ever ends every
\* process that takes it, whichever other partitions the process has.)
EventuallyConsumed ==
  \A p \in Partitions : \A n \in 1..Max({Cardinality(records) : records \in Traffic}) :
    (Len(log[p]) >= n)
      ~> \/ committed[p] >= n
         \/ \E q \in Partitions : \E i \in 1..Len(log[q]) : log[q][i] \in Unstorable

\* The pipeline implements the ledger: each event is stored once and counted
\* with it, and offsets advance one by one over what is stored.
Abstract == INSTANCE Ledger
ImplementsLedger == Abstract!Spec
====
