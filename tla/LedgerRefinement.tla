---- MODULE LedgerRefinement ----
(***************************************************************************)
(* AccessPipeline implements Ledger, for any number of consumers,          *)
(* partitions, events and failures: with it nothing committed is lost, and *)
(* the hourly counters are those of the stored events.                     *)
(***************************************************************************)
EXTENDS AccessPipeline, TLAPS

InTransaction(c) == consumer[c].pc \in {"upsert", "txCommit"}
Busy(c) == consumer[c].pc \notin {"down", "poll"}
Settled(record) == record = Malformed \/ record \in rows

States == [pc : PCs, part : Partitions \cup {Nobody}, offset : Nat,
           attempt : 0..MaxAttempts, delay : {0} \cup RetryMin..RetryMax]

\* The events that PublishGatewayAccess lets through.
Valid == {e \in Events : Validate(e)}

\* The parts of the state the argument is about, with their types.
Types ==
  /\ todo \subseteq Events \cup {Malformed}
  /\ buffer \in [Gateways -> SUBSET Valid]
  /\ log \in [Partitions -> Seq(Valid \cup {Malformed})]
  /\ committed \in [Partitions -> Nat]
  /\ owner \in [Partitions -> Consumers \cup {Nobody}]
  /\ position \in [Partitions -> Nat]
  /\ consumer \in [Consumers -> States]

\* A consumer that handles a record has one, of the kind its place says.
HasRecord ==
  \A c \in Consumers : Busy(c) =>
    /\ consumer[c].part \in Partitions
    /\ consumer[c].offset < Len(log[consumer[c].part])
    /\ consumer[c].pc # "offset" => Record(c) \in Valid
    /\ consumer[c].pc = "offset" => Settled(Record(c))
    /\ InTransaction(c) => Record(c) \notin rows
    /\ consumer[c].pc = "wait" => consumer[c].attempt < MaxAttempts

\* Two open transactions never insert the same event.
Exclusive ==
  \A c, d \in Consumers :
    c # d /\ InTransaction(c) /\ InTransaction(d) => Record(c) # Record(d)

\* The owner of a partition either handles the record at the committed offset
\* or is about to fetch it.
InStep ==
  \A p \in Partitions : owner[p] # Nobody =>
    /\ consumer[owner[p]].pc # "down"
    /\ IF Busy(owner[p]) /\ consumer[owner[p]].part = p
       THEN consumer[owner[p]].offset = committed[p] /\ position[p] = committed[p] + 1
       ELSE position[p] = committed[p]

IInv == Types /\ HasRecord /\ Exclusive /\ InStep /\ CommittedStored

----------------------------------------------------------------------------
(* Facts about the log and the consumers' records.                         *)

LEMMA LogFacts ==
  ASSUME Types, NEW p \in Partitions
  PROVE  /\ Len(log[p]) \in Nat
         /\ \A i \in 1..Len(log[p]) : log[p][i] \in Valid \cup {Malformed}
  BY DEF Types

LEMMA IdleFacts ==
  ASSUME NEW pc \in PCs
  PROVE  /\ Idle(pc).pc = pc
         /\ Idle(pc) \in States
  BY RetryAssumption DEF Idle, States

\* The doubled delay stays within its limits: halving the maximum first keeps
\* the product below it.
LEMMA DelayFacts ==
  ASSUME NEW d \in {0} \cup RetryMin..RetryMax
  PROVE  NextRetryDelay(d, RetryMax) \in {0} \cup RetryMin..RetryMax
  <1>1. ~(d > RetryMax \div 2) => d * 2 <= RetryMax
    BY RetryAssumption
  <1> QED
    BY <1>1, RetryAssumption DEF NextRetryDelay

\* The initial state satisfies the invariant.
LEMMA InitIInv == Init => IInv
  <1> SUFFICES ASSUME Init PROVE IInv
    OBVIOUS
  <1>1. "down" \in PCs
    BY DEF PCs
  <1>2. \A c \in Consumers : consumer[c].pc = "down"
    BY <1>1, IdleFacts DEF Init
  <1>3. consumer \in [Consumers -> States]
    BY <1>1, IdleFacts DEF Init
  <1>4. Types
    BY <1>3, TrafficAssumption DEF Init, Types
  <1>5. HasRecord /\ Exclusive
    BY <1>2 DEF HasRecord, Exclusive, Busy, InTransaction
  <1>6. InStep
    BY DEF Init, InStep
  <1>7. CommittedStored
    BY DEF Init, CommittedStored
  <1> QED
    BY <1>4, <1>5, <1>6, <1>7 DEF IInv

\* A record is appended: what the consumers have in hand stays where it is.
LEMMA AppendStep ==
  ASSUME IInv, NEW p \in Partitions, NEW r \in Valid \cup {Malformed},
         log' = [log EXCEPT ![p] = Append(@, r)],
         UNCHANGED <<committed, owner, position, consumer, rows>>,
         todo' \subseteq todo, buffer' \in [Gateways -> SUBSET Valid]
  PROVE  IInv'
  <1>1. \A q \in Partitions :
          /\ Len(log'[q]) \in Nat /\ Len(log[q]) <= Len(log'[q])
          /\ \A i \in 1..Len(log[q]) : log'[q][i] = log[q][i]
    BY DEF IInv, Types
  <1>2. \A c \in Consumers : Busy(c) => Record(c)' = Record(c)
    <2> SUFFICES ASSUME NEW c \in Consumers, Busy(c) PROVE Record(c)' = Record(c)
      BY Zenon
    <2>1. /\ consumer[c].part \in Partitions /\ consumer[c].offset \in Nat
          /\ consumer[c].offset < Len(log[consumer[c].part])
      BY Zenon DEF IInv, HasRecord, Types, States
    <2>2. consumer[c].offset + 1 \in 1..Len(log[consumer[c].part])
      BY <2>1, LogFacts DEF IInv
    <2> QED
      BY <1>1, <2>1, <2>2 DEF Record
  <1>3. Types'
    BY DEF IInv, Types
  <1>4. HasRecord'
    <2>1. \A c \in Consumers : Busy(c) => consumer[c].offset < Len(log'[consumer[c].part])
      <3>1. \A c \in Consumers : consumer[c].offset \in Nat
        BY Zenon DEF IInv, Types, States
      <3>2. \A q \in Partitions : Len(log[q]) \in Nat
        BY LogFacts DEF IInv
      <3> QED
        BY <1>1, <3>1, <3>2 DEF IInv, HasRecord
    <2> QED
      BY <1>2, <2>1, Zenon DEF IInv, HasRecord, Busy, InTransaction, Settled
  <1>5. Exclusive'
    BY <1>2, Zenon DEF IInv, Exclusive, Busy, InTransaction
  <1>6. InStep'
    BY Zenon DEF IInv, InStep, Busy
  <1>7. CommittedStored'
    <2>1. ASSUME NEW q \in Partitions
          PROVE  /\ committed'[q] <= Len(log'[q])
                 /\ \A i \in 1..committed'[q] : log'[q][i] = Malformed \/ log'[q][i] \in rows'
      <3>1. /\ committed[q] \in Nat /\ Len(log[q]) \in Nat /\ committed[q] <= Len(log[q])
            /\ \A i \in 1..committed[q] : log[q][i] = Malformed \/ log[q][i] \in rows
        BY LogFacts, Zenon DEF IInv, CommittedStored, Types
      <3> QED
        BY <1>1, <3>1
    <2> QED
      BY <2>1, Zenon DEF CommittedStored
  <1> QED
    BY <1>3, <1>4, <1>5, <1>6, <1>7, Zenon DEF IInv

\* A consumer that ends frees its partitions; an unfinished transaction of its
\* own is gone, or has stored its event.
LEMMA LeaveStep ==
  ASSUME IInv, NEW c \in Consumers, Leave(c),
         UNCHANGED <<todo, buffer, log, position>>,
         \/ UNCHANGED <<rows, hourly, committed>>
         \/ UNCHANGED committed /\ consumer[c].pc = "txCommit" /\ Stored(Record(c))
         \/ /\ UNCHANGED <<rows, hourly>>
            /\ consumer[c].pc = "offset" /\ owner[consumer[c].part] = c
            /\ committed' = [committed EXCEPT ![consumer[c].part] = consumer[c].offset + 1]
  PROVE  IInv'
  <1>1. /\ consumer' = [consumer EXCEPT ![c] = Idle("down")]
        /\ consumer'[c].pc = "down"
        /\ Idle("down") \in States
    BY IdleFacts DEF Leave, PCs, IInv, Types
  <1>2. \A d \in Consumers \ {c} : consumer'[d] = consumer[d] /\ Record(d)' = Record(d)
    BY <1>1 DEF IInv, Types, Record
  <1>3. rows \subseteq rows' /\ \A d \in Consumers \ {c} : InTransaction(d) => Record(d) \notin rows'
    BY Zenon DEF IInv, HasRecord, Exclusive, Stored, InTransaction, Busy
  <1>4. committed' \in [Partitions -> Nat]
    <2>1. consumer[c].offset + 1 \in Nat
      BY DEF IInv, Types, States
    <2> QED
      BY <2>1, Zenon DEF IInv, Types
  <1>5. Types'
    BY <1>1, <1>4 DEF IInv, Types, Leave
  <1>6. HasRecord'
    BY <1>1, <1>2, <1>3 DEF IInv, HasRecord, Busy, InTransaction, Settled
  <1>7. Exclusive'
    BY <1>1, <1>2 DEF IInv, Exclusive, InTransaction
  <1>8. \A p \in Partitions : owner'[p] # Nobody => owner'[p] = owner[p] /\ owner[p] # c
    BY Zenon DEF IInv, Types, Leave
  <1>9. \A p \in Partitions : owner'[p] # Nobody => committed'[p] = committed[p]
    BY <1>8, Zenon DEF IInv, Types
  <1>10. InStep'
    BY <1>2, <1>8, <1>9 DEF IInv, InStep, Busy, Types
  <1>11. CommittedStored'
    <2>1. CASE committed' = committed
      BY <2>1, <1>3, Zenon DEF IInv, CommittedStored
    <2>2. CASE /\ consumer[c].pc = "offset" /\ owner[consumer[c].part] = c
               /\ committed' = [committed EXCEPT ![consumer[c].part] = consumer[c].offset + 1]
      <3>1. /\ consumer[c].part \in Partitions
            /\ consumer[c].offset = committed[consumer[c].part]
            /\ committed[consumer[c].part] < Len(log[consumer[c].part])
            /\ Settled(log[consumer[c].part][committed[consumer[c].part] + 1])
        BY <2>2, NobodyAssumption, Zenon DEF IInv, HasRecord, InStep, Busy, Record
      <3> DEFINE p == consumer[c].part
      <3>2. committed[p] \in Nat /\ Len(log[p]) \in Nat
        BY <3>1, LogFacts, Zenon DEF IInv, Types
      <3>3. /\ committed'[p] = committed[p] + 1
            /\ \A q \in Partitions \ {p} : committed'[q] = committed[q]
        BY <2>2, <3>1, Zenon DEF IInv, Types
      <3>4. \A i \in 1..committed'[p] : Settled(log[p][i])
        BY <3>1, <3>2, <3>3 DEF IInv, CommittedStored, Settled
      <3> HIDE DEF p
      <3>5. ASSUME NEW q \in Partitions
            PROVE  /\ committed'[q] <= Len(log'[q])
                   /\ \A i \in 1..committed'[q] : log'[q][i] = Malformed \/ log'[q][i] \in rows'
        <4>1. CASE q = p
          BY <1>3, <3>1, <3>2, <3>3, <3>4, <4>1 DEF Settled, p
        <4>2. CASE q # p
          BY <1>3, <3>3, <4>2, Zenon DEF IInv, CommittedStored
        <4> QED
          BY <4>1, <4>2, Zenon
      <3> QED
        BY <3>5, Zenon DEF CommittedStored
    <2> QED
      BY <2>1, <2>2, Zenon
  <1> QED
    BY <1>5, <1>6, <1>7, <1>10, <1>11, Zenon DEF IInv

\* A consumer goes on with the record it has in hand.
LEMMA MoveStep ==
  ASSUME IInv, NEW c \in Consumers, Busy(c), NEW s,
         consumer' = [consumer EXCEPT ![c] = s],
         s \in States,
         s.part = consumer[c].part, s.offset = consumer[c].offset,
         s.pc \notin {"down", "poll"},
         UNCHANGED <<todo, buffer, log, committed, owner, position>>,
         rows \subseteq rows',
         s.pc # "offset" => Record(c) \in Valid,
         s.pc = "offset" => Record(c) = Malformed \/ Record(c) \in rows',
         \A d \in Consumers \ {c} : InTransaction(d) => Record(d) \notin rows',
         s.pc \in {"upsert", "txCommit"} =>
           /\ Record(c) \notin rows'
           /\ \A d \in Consumers \ {c} : InTransaction(d) => Record(d) # Record(c),
         s.pc = "wait" => s.attempt < MaxAttempts
  PROVE  IInv'
  <1>1. consumer'[c] = s /\ Record(c)' = Record(c)
    BY Zenon DEF IInv, Types, Record
  <1>2. \A d \in Consumers \ {c} : consumer'[d] = consumer[d] /\ Record(d)' = Record(d)
    BY Zenon DEF IInv, Types, Record
  <1>3. Types'
    BY Zenon DEF IInv, Types
  <1>4. HasRecord'
    <2>1. ASSUME NEW d \in Consumers \ {c}, Busy(d)'
          PROVE  /\ consumer'[d].part \in Partitions
                 /\ consumer'[d].offset < Len(log'[consumer'[d].part])
                 /\ consumer'[d].pc # "offset" => Record(d)' \in Valid
                 /\ consumer'[d].pc = "offset" => Settled(Record(d))'
                 /\ InTransaction(d)' => Record(d)' \notin rows'
                 /\ consumer'[d].pc = "wait" => consumer'[d].attempt < MaxAttempts
      BY <2>1, <1>2, Zenon DEF IInv, HasRecord, Busy, InTransaction, Settled
    <2>2. /\ consumer'[c].part \in Partitions
          /\ consumer'[c].offset < Len(log'[consumer'[c].part])
      BY <1>1, Zenon DEF IInv, HasRecord
    <2>3. /\ consumer'[c].pc # "offset" => Record(c)' \in Valid
          /\ consumer'[c].pc = "offset" => Settled(Record(c))'
          /\ InTransaction(c)' => Record(c)' \notin rows'
          /\ consumer'[c].pc = "wait" => consumer'[c].attempt < MaxAttempts
      BY <1>1, Zenon DEF Settled, InTransaction
    <2> QED
      BY <2>1, <2>2, <2>3, Zenon DEF HasRecord
  <1>5. Exclusive'
    BY <1>1, <1>2 DEF IInv, Exclusive, InTransaction
  <1>6. InStep'
    BY <1>1, <1>2, NobodyAssumption DEF IInv, InStep, Busy, Types
  <1>7. CommittedStored'
    BY Zenon DEF IInv, CommittedStored
  <1> QED
    BY <1>3, <1>4, <1>5, <1>6, <1>7, Zenon DEF IInv

----------------------------------------------------------------------------
(* Every step keeps the invariant, and is a step of the ledger or none.    *)

Simulated == IInv' /\ [Abstract!Next]_(Abstract!ledger)

LEMMA ProducerSteps ==
  ASSUME IInv, NEW g \in Gateways, Publish(g) \/ Deliver(g) \/ Discard(g)
  PROVE  Simulated
  <1>1. CASE Publish(g) \/ Discard(g)
    <2>1. UNCHANGED <<kafka, consumer, tables>> /\ todo' \subseteq todo
      BY <1>1, Zenon DEF Publish, Discard
    <2>2. buffer' \in [Gateways -> SUBSET Valid]
      <3>1. buffer \in [Gateways -> SUBSET Valid]
        BY DEF IInv, Types
      <3>2. CASE Publish(g)
        <4>1. PICK e \in todo \ {Malformed} :
                buffer' = buffer \/ (Validate(e) /\ buffer' = [buffer EXCEPT ![g] = @ \cup {e}])
          BY <3>2, Zenon DEF Publish
        <4>2. Validate(e) => e \in Valid
          BY <4>1 DEF IInv, Types, Valid
        <4> QED
          BY <3>1, <4>1, <4>2, Zenon
      <3>3. CASE Discard(g)
        BY <3>1, <3>3 DEF Discard
      <3> QED
        BY <1>1, <3>2, <3>3
    <2>3. Types'
      BY <2>1, <2>2, Zenon DEF IInv, Types, kafka
    <2>4. IInv'
      BY <2>1, <2>3 DEF IInv, kafka, tables, HasRecord, Exclusive, InStep, CommittedStored,
                        Busy, InTransaction, Record, Settled
    <2> QED
      BY <2>1, <2>4 DEF Simulated, Abstract!ledger, kafka, tables
  <1>2. CASE Deliver(g)
    <2>1. PICK e \in buffer[g] : /\ buffer' = [buffer EXCEPT ![g] = @ \ {e}]
                                 /\ log' = [log EXCEPT ![PartitionOf(e)] = Append(@, e)]
      BY <1>2, Zenon DEF Deliver
    <2>2. e \in Valid /\ e \in Events /\ PartitionOf(e) \in Partitions
      BY PartitionAssumption DEF IInv, Types, Valid
    <2>3. UNCHANGED <<todo, committed, owner, position, consumer, tables>>
      BY <1>2, Zenon DEF Deliver
    <2>4. buffer' \in [Gateways -> SUBSET Valid]
      BY <2>1, Zenon DEF IInv, Types
    <2>5. IInv'
      BY <2>1, <2>2, <2>3, <2>4, AppendStep, Zenon DEF tables
    <2>6. Abstract!Write(PartitionOf(e), e)
      BY <2>1, <2>3, Zenon DEF Abstract!Write, tables
    <2> QED
      BY <2>2, <2>5, <2>6 DEF Simulated, Abstract!Next
  <1> QED
    BY <1>1, <1>2

LEMMA TopicSteps ==
  ASSUME IInv, NEW p \in Partitions, WriteMalformed(p) \/ Assign(p) \/ Revoke(p)
  PROVE  Simulated
  <1>1. CASE WriteMalformed(p)
    <2>1. IInv'
      BY <1>1, AppendStep, Zenon DEF WriteMalformed, tables, IInv, Types
    <2>2. Abstract!Write(p, Malformed)
      BY <1>1 DEF WriteMalformed, Abstract!Write, tables
    <2> QED
      BY <2>1, <2>2 DEF Simulated, Abstract!Next
  <1>2. CASE Assign(p) \/ Revoke(p)
    <2>1. UNCHANGED <<todo, buffer, log, committed, consumer, tables>>
      BY <1>2, Zenon DEF Assign, Revoke
    <2>2. Types'
      BY <1>2, <2>1, Zenon DEF IInv, Types, Assign, Revoke
    <2>3. InStep'
      <3>1. \A q \in Partitions \ {p} : owner'[q] = owner[q] /\ position'[q] = position[q]
        BY <1>2, Zenon DEF Assign, Revoke, IInv, Types
      <3>2. \/ owner'[p] = Nobody
            \/ consumer[owner'[p]].pc = "poll" /\ position'[p] = committed[p]
        BY <1>2, Zenon DEF Assign, Revoke, IInv, Types
      <3> QED
        BY <2>1, <3>1, <3>2 DEF IInv, InStep, Busy
    <2>4. HasRecord' /\ Exclusive' /\ CommittedStored'
      BY <2>1, Zenon DEF IInv, tables, HasRecord, Exclusive, CommittedStored,
                  Busy, InTransaction, Record, Settled
    <2> QED
      BY <2>1, <2>2, <2>3, <2>4, Zenon DEF Simulated, IInv, Abstract!ledger, tables
  <1> QED
    BY <1>1, <1>2

\* What MoveStep needs to know of a consumer whose place alone changes.
LEMMA GotoFacts ==
  ASSUME Types, NEW c \in Consumers, NEW pc \in PCs, Goto(c, pc)
  PROVE  \E s \in States :
           /\ consumer' = [consumer EXCEPT ![c] = s]
           /\ s.pc = pc /\ s.part = consumer[c].part /\ s.offset = consumer[c].offset
           /\ s.attempt = consumer[c].attempt
  <1>1. [consumer[c] EXCEPT !.pc = pc]
          \in States
    BY Zenon DEF Types, States
  <1>2. consumer' = [consumer EXCEPT ![c] = [consumer[c] EXCEPT !.pc = pc]]
    BY DEF Goto, Types
  <1> QED
    BY <1>1, <1>2, Zenon DEF Types, States

\* Start, and the poll that takes a record in hand.
LEMMA PollSteps ==
  ASSUME IInv, NEW c \in Consumers, Start(c) \/ Poll(c)
  PROVE  Simulated
  <1>1. CASE Start(c)
    <2>1. "poll" \in PCs /\ UNCHANGED <<todo, buffer, kafka, tables>>
      BY <1>1 DEF Start, PCs
    <2>2. PICK s \in States :
             consumer' = [consumer EXCEPT ![c] = s] /\ s.pc = "poll"
      BY <1>1, <2>1, GotoFacts DEF Start, IInv
    <2>3. /\ consumer'[c].pc = "poll"
          /\ \A d \in Consumers \ {c} : consumer'[d] = consumer[d] /\ Record(d)' = Record(d)
      BY <2>1, <2>2, Zenon DEF IInv, Types, Record, kafka
    <2>4. Types'
      BY <2>1, <2>2, Zenon DEF IInv, Types, kafka
    <2>5. HasRecord' /\ Exclusive' /\ CommittedStored'
      BY <2>1, <2>3 DEF IInv, kafka, tables, HasRecord, Exclusive, CommittedStored,
                        Busy, InTransaction, Settled
    <2>6. InStep'
      <3>1. \A q \in Partitions : owner[q] # Nobody => owner[q] \in Consumers \ {c}
        BY <1>1, Zenon DEF Start, IInv, InStep, Types
      <3> QED
        BY <2>1, <2>3, <3>1 DEF IInv, kafka, InStep, Busy
    <2> QED
      BY <2>1, <2>4, <2>5, <2>6, Zenon DEF Simulated, IInv, Abstract!ledger, kafka, tables
  <1>2. CASE Poll(c)
    <2>1. PICK p \in Partitions :
            /\ owner[p] = c
            /\ position[p] < Len(log[p])
            /\ position' = [position EXCEPT ![p] = @ + 1]
            /\ consumer' = [consumer EXCEPT ![c] =
                 [pc |-> AfterDecode(log[p][position[p] + 1]), part |-> p,
                  offset |-> position[p], attempt |-> 1, delay |-> RetryMin]]
      BY <1>2, Zenon DEF Poll
    <2>2. consumer[c].pc = "poll" /\ UNCHANGED <<todo, buffer, log, committed, owner, tables>>
      BY <1>2, Zenon DEF Poll
    <2>3. /\ log[p][position[p] + 1] \in Valid \cup {Malformed}
          /\ position[p] = committed[p]
      BY <2>1, <2>2, LogFacts, NobodyAssumption DEF IInv, Types, InStep, Busy
    <2>4. /\ consumer'[c].pc = AfterDecode(log[p][position[p] + 1])
          /\ consumer'[c].part = p /\ consumer'[c].offset = position[p]
          /\ Record(c)' = log[p][position[p] + 1]
      BY <2>1, <2>2, Zenon DEF IInv, Types, Record
    <2>5. \A d \in Consumers \ {c} : consumer'[d] = consumer[d] /\ Record(d)' = Record(d)
      BY <2>1, <2>2, Zenon DEF IInv, Types, Record
    <2>6. Types'
      <3>1. /\ AfterDecode(log[p][position[p] + 1]) \in PCs
            /\ RetryMin \in {0} \cup RetryMin..RetryMax /\ 1 \in 0..MaxAttempts
        BY RetryAssumption DEF AfterDecode, PCs
      <3>2. consumer' \in [Consumers -> States]
        BY <2>1, <3>1, Zenon DEF IInv, Types, States
      <3> QED
        BY <2>1, <2>2, <3>2 DEF IInv, Types
    <2>7. HasRecord' /\ Exclusive' /\ CommittedStored'
      <3>1. /\ ~InTransaction(c)' /\ consumer'[c].pc # "wait"
            /\ consumer'[c].pc # "offset" => Record(c)' \in Valid
            /\ consumer'[c].pc = "offset" => Settled(Record(c))'
        BY <2>3, <2>4, MalformedAssumption, Zenon DEF AfterDecode, InTransaction, Settled
      <3>2. HasRecord'
        <4>1. ASSUME NEW d \in Consumers \ {c}, Busy(d)'
              PROVE  /\ consumer'[d].part \in Partitions
                     /\ consumer'[d].offset < Len(log'[consumer'[d].part])
                     /\ consumer'[d].pc # "offset" => Record(d)' \in Valid
                     /\ consumer'[d].pc = "offset" => Settled(Record(d))'
                     /\ InTransaction(d)' => Record(d)' \notin rows'
                     /\ consumer'[d].pc = "wait" => consumer'[d].attempt < MaxAttempts
          BY <2>2, <2>5, <4>1, Zenon DEF IInv, HasRecord, Busy, InTransaction, Settled, tables
        <4>2. consumer'[c].part \in Partitions /\ consumer'[c].offset < Len(log'[consumer'[c].part])
          BY <2>1, <2>2, <2>4, Zenon
        <4> QED
          BY <3>1, <4>1, <4>2, Zenon DEF HasRecord
      <3>3. Exclusive' /\ CommittedStored'
        BY <2>2, <2>5, <3>1, Zenon DEF IInv, Exclusive, CommittedStored, InTransaction, tables
      <3> QED
        BY <3>2, <3>3
    <2>8. InStep'
      <3>1. consumer'[c].pc \notin {"down", "poll"}
        BY <2>4, Zenon DEF AfterDecode
      <3> QED
        BY <2>1, <2>2, <2>3, <2>4, <2>5, <3>1 DEF IInv, InStep, Busy, Types
    <2> QED
      BY <2>2, <2>6, <2>7, <2>8, Zenon DEF Simulated, IInv, Abstract!ledger, tables
  <1> QED
    BY <1>1, <1>2

\* The statements of the transaction, and the timer.
LEMMA TransactionSteps ==
  ASSUME IInv, NEW c \in Consumers, Insert(c) \/ Upsert(c) \/ TxCommit(c) \/ Retry(c)
  PROVE  Simulated
  <1>1. CASE Insert(c)
    <2>1. /\ consumer[c].pc = "insert" /\ Inserting(Record(c)) = {}
          /\ Goto(c, AfterInsert(Record(c))) /\ UNCHANGED <<todo, buffer, kafka, tables>>
      BY <1>1 DEF Insert
    <2>2. AfterInsert(Record(c)) \in PCs \ {"down", "poll"}
      BY DEF AfterInsert, PCs
    <2>3. Busy(c) /\ Record(c) \in Valid
      BY <2>1, Zenon DEF IInv, HasRecord, Busy
    <2>4. \A d \in Consumers \ {c} : InTransaction(d) => Record(d) \notin rows /\ Record(d) # Record(c)
      BY <2>1, Zenon DEF Inserting, InTransaction, IInv, HasRecord, Busy
    <2>5. /\ AfterInsert(Record(c)) # "wait"
          /\ AfterInsert(Record(c)) = "offset" => Record(c) \in rows
          /\ AfterInsert(Record(c)) \in {"upsert", "txCommit"} => Record(c) \notin rows
      BY DEF AfterInsert
    <2>6. PICK s \in States :
            /\ consumer' = [consumer EXCEPT ![c] = s]
            /\ s.pc = AfterInsert(Record(c)) /\ s.part = consumer[c].part /\ s.offset = consumer[c].offset
      BY <2>1, <2>2, GotoFacts DEF IInv
    <2>7. IInv'
      BY <2>1, <2>2, <2>3, <2>4, <2>5, <2>6, MoveStep, Zenon DEF kafka, tables
    <2> QED
      BY <2>1, <2>7 DEF Simulated, Abstract!ledger, kafka, tables
  <1>2. CASE Upsert(c)
    <2>1. /\ consumer[c].pc = "upsert" /\ Goto(c, "txCommit")
          /\ UNCHANGED <<todo, buffer, kafka, tables>> /\ "txCommit" \in PCs
      BY <1>2 DEF Upsert, PCs
    <2>2. Busy(c) /\ Record(c) \in Valid /\ Record(c) \notin rows
      BY <2>1, Zenon DEF IInv, HasRecord, Busy, InTransaction
    <2>3. \A d \in Consumers \ {c} : InTransaction(d) => Record(d) \notin rows /\ Record(d) # Record(c)
      BY <2>1, Zenon DEF InTransaction, IInv, HasRecord, Exclusive, Busy
    <2>4. PICK s \in States :
            /\ consumer' = [consumer EXCEPT ![c] = s]
            /\ s.pc = "txCommit" /\ s.part = consumer[c].part /\ s.offset = consumer[c].offset
      BY <2>1, GotoFacts DEF IInv
    <2>5. IInv'
      BY <2>1, <2>2, <2>3, <2>4, MoveStep, Zenon DEF kafka, tables
    <2> QED
      BY <2>1, <2>5, Zenon DEF Simulated, Abstract!ledger, kafka, tables
  <1>3. CASE TxCommit(c)
    <2>1. /\ consumer[c].pc = "txCommit" /\ Goto(c, "offset") /\ Stored(Record(c))
          /\ UNCHANGED <<todo, buffer, kafka>> /\ "offset" \in PCs
      BY <1>3, Zenon DEF TxCommit, PCs
    <2>2. Busy(c) /\ Record(c) \in Valid /\ Record(c) \notin rows
      BY <2>1, Zenon DEF IInv, HasRecord, Busy, InTransaction
    <2>3. \A d \in Consumers \ {c} : InTransaction(d) => Record(d) \notin rows'
      BY <2>1, Zenon DEF InTransaction, IInv, HasRecord, Exclusive, Busy, Stored
    <2>4. PICK s \in States :
            /\ consumer' = [consumer EXCEPT ![c] = s]
            /\ s.pc = "offset" /\ s.part = consumer[c].part /\ s.offset = consumer[c].offset
      BY <2>1, GotoFacts DEF IInv
    <2>5. rows \subseteq rows' /\ Record(c) \in rows'
      BY <2>1 DEF Stored
    <2>6. IInv'
      BY <2>1, <2>2, <2>3, <2>4, <2>5, MoveStep, Zenon DEF kafka
    <2>7. Abstract!Enter(Record(c)) /\ Record(c) \in Events
      BY <2>1, <2>2, Zenon DEF Abstract!Enter, Stored, kafka, Valid
    <2> QED
      BY <2>6, <2>7 DEF Simulated, Abstract!Next
  <1>4. CASE Retry(c)
    <2> DEFINE s == [consumer[c] EXCEPT !.pc = "insert", !.attempt = @ + 1,
                                        !.delay = NextRetryDelay(@, RetryMax)]
    <2>1. consumer[c].pc = "wait" /\ UNCHANGED <<todo, buffer, kafka, tables>>
      BY <1>4 DEF Retry
    <2>2. consumer' = [consumer EXCEPT ![c] = s]
      BY <1>4, Zenon DEF Retry, IInv, Types
    <2>3. NextRetryDelay(consumer[c].delay, RetryMax) \in {0} \cup RetryMin..RetryMax
      <3>1. consumer[c].delay \in {0} \cup RetryMin..RetryMax
        BY DEF IInv, Types, States
      <3> QED
        BY <3>1, DelayFacts
    <2>4. /\ s \in States
          /\ s.pc = "insert" /\ s.part = consumer[c].part /\ s.offset = consumer[c].offset
      <3>1. /\ consumer[c] \in States
            /\ consumer[c].attempt + 1 \in 0..MaxAttempts
        <4>1. consumer[c] \in States /\ consumer[c].attempt < MaxAttempts
          BY <2>1, Zenon DEF IInv, Types, HasRecord, Busy
        <4>2. consumer[c].attempt \in 0..MaxAttempts
          BY <4>1, Zenon DEF States
        <4> QED
          BY <4>1, <4>2, RetryAssumption
      <3>2. "insert" \in PCs
        BY DEF PCs
      <3> QED
        BY <2>3, <3>1, <3>2, Zenon DEF States
    <2>5. Busy(c) /\ Record(c) \in Valid
      BY <2>1 DEF IInv, HasRecord, Busy
    <2>6. \A d \in Consumers \ {c} : InTransaction(d) => Record(d) \notin rows
      BY DEF InTransaction, IInv, HasRecord, Busy
    <2> HIDE DEF s
    <2>7. IInv'
      BY <2>1, <2>2, <2>4, <2>5, <2>6, MoveStep, Zenon DEF kafka, tables
    <2> QED
      BY <2>1, <2>7 DEF Simulated, Abstract!ledger, kafka, tables
  <1> QED
    BY <1>1, <1>2, <1>3, <1>4, Zenon

\* A failed statement: nothing is stored, or the event is although the answer
\* to its COMMIT is lost; then the timer, or the end of the process.
LEMMA FailureStep ==
  ASSUME IInv, NEW c \in Consumers, consumer[c].pc \in {"insert", "upsert", "txCommit"},
         AfterFailure(c), UNCHANGED <<todo, buffer, log, committed, position>>,
         \/ UNCHANGED tables
         \/ consumer[c].pc = "txCommit" /\ Stored(Record(c))
  PROVE  IInv'
  <1>1. CASE Leave(c)
    BY <1>1, LeaveStep, Zenon DEF tables
  <1>2. CASE Goto(c, "wait") /\ UNCHANGED owner /\ consumer[c].attempt < MaxAttempts
    <2>1. Busy(c) /\ Record(c) \in Valid /\ "wait" \in PCs
      BY Zenon DEF IInv, HasRecord, Busy, PCs
    <2>2. rows \subseteq rows' /\ \A d \in Consumers \ {c} : InTransaction(d) => Record(d) \notin rows'
      BY Zenon DEF IInv, HasRecord, Exclusive, Stored, InTransaction, Busy, tables
    <2>3. PICK s \in States :
            /\ consumer' = [consumer EXCEPT ![c] = s]
            /\ s.pc = "wait" /\ s.part = consumer[c].part /\ s.offset = consumer[c].offset
            /\ s.attempt = consumer[c].attempt
      BY <1>2, <2>1, GotoFacts, Zenon DEF IInv
    <2> QED
      BY <1>2, <2>1, <2>2, <2>3, MoveStep, Zenon
  <1> QED
    BY <1>1, <1>2 DEF AfterFailure

\* An event that is entered, by a COMMIT whose answer arrives or not.
LEMMA Enters ==
  ASSUME IInv, NEW c \in Consumers, consumer[c].pc = "txCommit", Stored(Record(c)),
         UNCHANGED <<log, committed>>
  PROVE  Abstract!Next
  <1>1. Record(c) \in Events /\ Record(c) \notin rows
    BY Zenon DEF IInv, HasRecord, Busy, InTransaction, Valid
  <1>2. Abstract!Enter(Record(c))
    BY <1>1 DEF Abstract!Enter, Stored
  <1> QED
    BY <1>1, <1>2, Zenon DEF Abstract!Next

LEMMA StoreSteps ==
  ASSUME IInv, NEW c \in Consumers, StoreFails(c) \/ StoreRefused(c) \/ Stop(c)
  PROVE  Simulated
  <1>1. /\ UNCHANGED <<todo, buffer, log, committed, position>>
        /\ \/ UNCHANGED tables
           \/ consumer[c].pc = "txCommit" /\ Stored(Record(c))
    BY DEF StoreFails, StoreRefused, Stop
  <1>2. [Abstract!Next]_(Abstract!ledger)
    BY <1>1, Enters DEF Abstract!ledger, tables
  <1>3. CASE StoreFails(c) \/ StoreRefused(c)
    <2>1. consumer[c].pc \in {"insert", "upsert", "txCommit"} /\ AfterFailure(c)
      BY <1>3 DEF StoreFails, StoreRefused
    <2> QED
      BY <1>1, <1>2, <2>1, FailureStep, Zenon DEF Simulated
  <1>4. CASE Stop(c)
    <2>1. Leave(c)
      BY <1>4 DEF Stop
    <2> QED
      BY <1>1, <1>2, <2>1, LeaveStep, Zenon DEF Simulated, tables
  <1> QED
    BY <1>3, <1>4

\* The record at the committed offset is settled when its consumer commits it.
LEMMA Advances ==
  ASSUME IInv, NEW c \in Consumers, consumer[c].pc = "offset", owner[consumer[c].part] = c,
         committed' = [committed EXCEPT ![consumer[c].part] = consumer[c].offset + 1],
         UNCHANGED <<log, rows, hourly>>
  PROVE  Abstract!Next
  <1>1. /\ consumer[c].part \in Partitions
        /\ consumer[c].offset = committed[consumer[c].part]
        /\ committed[consumer[c].part] < Len(log[consumer[c].part])
        /\ Settled(log[consumer[c].part][committed[consumer[c].part] + 1])
    BY NobodyAssumption, Zenon DEF IInv, HasRecord, InStep, Busy, Record
  <1>2. Abstract!Advance(consumer[c].part)
    BY <1>1, Zenon DEF Abstract!Advance, Settled
  <1> QED
    BY <1>1, <1>2, Zenon DEF Abstract!Next

LEMMA OffsetSteps ==
  ASSUME IInv, NEW c \in Consumers, CommitRecord(c) \/ CommitFails(c)
  PROVE  Simulated
  <1>1. CASE CommitFails(c)
    <2>1. /\ consumer[c].pc = "offset" /\ Leave(c)
          /\ UNCHANGED <<todo, buffer, log, position, tables>>
          /\ \/ UNCHANGED committed
             \/ /\ owner[consumer[c].part] = c
                /\ committed' = [committed EXCEPT ![consumer[c].part] = consumer[c].offset + 1]
      BY <1>1, Zenon DEF CommitFails
    <2>2. IInv'
      BY <2>1, LeaveStep, Zenon DEF tables
    <2> QED
      BY <2>1, <2>2, Advances, Zenon DEF Simulated, Abstract!ledger, tables
  <1>2. CASE CommitRecord(c)
    <2> DEFINE p == consumer[c].part
    <2>1. /\ consumer[c].pc = "offset" /\ owner[p] = c
          /\ committed' = [committed EXCEPT ![p] = consumer[c].offset + 1]
          /\ consumer' = [consumer EXCEPT ![c] = Idle("poll")]
          /\ UNCHANGED <<todo, buffer, log, owner, position, rows, hourly>>
      BY <1>2, Zenon DEF CommitRecord, tables
    <2>2. /\ p \in Partitions
          /\ consumer[c].offset = committed[p] /\ position[p] = committed[p] + 1
          /\ committed[p] < Len(log[p]) /\ Settled(log[p][committed[p] + 1])
      BY <2>1, NobodyAssumption, Zenon DEF IInv, HasRecord, InStep, Busy, Record
    <2> HIDE DEF p
    <2>3. /\ consumer'[c].pc = "poll" /\ consumer' \in [Consumers -> States]
          /\ \A d \in Consumers \ {c} : consumer'[d] = consumer[d] /\ Record(d)' = Record(d)
      <3>1. "poll" \in PCs
        BY DEF PCs
      <3> QED
        BY <2>1, <3>1, IdleFacts, Zenon DEF IInv, Types, Record
    <2>4. /\ committed' \in [Partitions -> Nat] /\ committed'[p] = committed[p] + 1
          /\ \A q \in Partitions \ {p} : committed'[q] = committed[q]
      BY <2>1, <2>2, Zenon DEF IInv, Types
    <2>5. Types'
      BY <2>1, <2>3, <2>4, Zenon DEF IInv, Types
    <2>6. HasRecord' /\ Exclusive'
      BY <2>1, <2>3 DEF IInv, HasRecord, Exclusive, Busy, InTransaction, Settled
    <2>7. InStep'
      <3>1. \A q \in Partitions \ {p} : owner[q] = c => position[q] = committed[q]
        BY <2>1, NobodyAssumption, Zenon DEF IInv, InStep, p
      <3>2. owner'[p] = c /\ ~Busy(c)' /\ position'[p] = committed'[p]
        BY <2>1, <2>2, <2>3, <2>4, Zenon DEF Busy
      <3>3. \A q \in Partitions \ {p} : /\ owner'[q] = owner[q] /\ position'[q] = position[q]
                                        /\ committed'[q] = committed[q]
        BY <2>1, <2>4, Zenon
      <3>4. \A q \in Partitions : owner[q] \in Consumers \/ owner[q] = Nobody
        BY Zenon DEF IInv, Types
      <3>5. \A q \in Partitions \ {p} : owner[q] = c => ~Busy(c)' /\ position'[q] = committed'[q]
        BY <3>1, <3>2, <3>3, Zenon
      <3> SUFFICES ASSUME NEW q \in Partitions, owner'[q] # Nobody
                   PROVE  /\ consumer'[owner'[q]].pc # "down"
                          /\ IF Busy(owner[q])' /\ consumer'[owner'[q]].part = q
                             THEN /\ consumer'[owner'[q]].offset = committed'[q]
                                  /\ position'[q] = committed'[q] + 1
                             ELSE position'[q] = committed'[q]
        BY Zenon DEF InStep
      <3>6. CASE q = p \/ owner[q] = c
        <4>1. owner'[q] = c /\ ~Busy(c)' /\ position'[q] = committed'[q]
          BY <3>2, <3>3, <3>5, <3>6, Zenon
        <4> QED
          BY <2>3, <4>1, Zenon DEF Busy
      <3>7. CASE q # p /\ owner[q] \in Consumers \ {c}
        <4>1. /\ owner'[q] = owner[q] /\ owner[q] # Nobody /\ position'[q] = position[q]
              /\ committed'[q] = committed[q] /\ consumer'[owner[q]] = consumer[owner[q]]
          BY <2>3, <3>3, <3>7, Zenon
        <4>2. /\ consumer[owner[q]].pc # "down"
              /\ IF Busy(owner[q]) /\ consumer[owner[q]].part = q
                 THEN consumer[owner[q]].offset = committed[q] /\ position[q] = committed[q] + 1
                 ELSE position[q] = committed[q]
          BY <4>1, Zenon DEF IInv, InStep
        <4> QED
          BY <4>1, <4>2, Zenon DEF Busy
      <3> QED
        BY <2>1, <3>4, <3>6, <3>7, Zenon
    <2>8. CommittedStored'
      <3>1. \A q \in Partitions : Len(log[q]) \in Nat /\ committed[q] \in Nat
        BY LogFacts, Zenon DEF IInv, Types
      <3>2. \A i \in 1..committed'[p] : i \in 1..committed[p] \/ i = committed[p] + 1
        BY <2>2, <2>4, <3>1
      <3>3. committed'[p] <= Len(log[p])
        BY <2>2, <2>4, <3>1
      <3> QED
        BY <2>1, <2>2, <2>4, <3>2, <3>3, Zenon DEF IInv, CommittedStored, Settled
    <2>9. Abstract!Next
      BY <2>1, Advances, Zenon DEF p
    <2> QED
      BY <2>5, <2>6, <2>7, <2>8, <2>9, Zenon DEF Simulated, IInv
  <1> QED
    BY <1>1, <1>2

----------------------------------------------------------------------------

LEMMA NextStep == IInv /\ [Next]_vars => Simulated
  <1> SUFFICES ASSUME IInv, [Next]_vars PROVE Simulated
    OBVIOUS
  <1>1. CASE UNCHANGED vars
    BY <1>1, Zenon DEF Simulated, vars, IInv, Types, HasRecord, Exclusive, InStep, CommittedStored,
                       Busy, InTransaction, Record, Settled, Abstract!ledger
  <1>2. CASE Next
    BY <1>2, ProducerSteps, TopicSteps, PollSteps, TransactionSteps, StoreSteps, OffsetSteps, Zenon
    DEF Next, Work
  <1> QED
    BY <1>1, <1>2

\* Nothing committed is lost: below a committed offset every valid event is in
\* gateway_access_events, for any number of consumers, partitions and failures.
THEOREM CommittedIsStored == Spec => []CommittedStored
  <1>1. IInv /\ [Next]_vars => IInv'
    BY NextStep DEF Simulated
  <1>2. IInv => CommittedStored
    BY DEF IInv
  <1> QED
    BY InitIInv, <1>1, <1>2, PTL DEF Spec

\* The consumers implement the ledger: each event enters the tables once, with
\* its counters, and offsets advance record by record over what has entered.
THEOREM PipelineImplementsLedger == Spec => ImplementsLedger
  <1>1. Init => Abstract!Init
    BY DEF Init, Abstract!Init
  <1>2. IInv /\ [Next]_vars => IInv' /\ [Abstract!Next]_(Abstract!ledger)
    BY NextStep DEF Simulated
  <1> QED
    BY InitIInv, <1>1, <1>2, PTL DEF Spec, ImplementsLedger, Abstract!Spec

----------------------------------------------------------------------------
(* Types, and the counters of the hourly table.                            *)

\* A step leaves both tables alone, or stores an event they do not have yet.
LEMMA TablesStep ==
  ASSUME IInv, [Next]_vars
  PROVE  UNCHANGED <<rows, hourly>> \/ \E e \in Valid \ rows : Stored(e)
  <1>1. ASSUME NEW c \in Consumers, consumer[c].pc = "txCommit"
        PROVE  Record(c) \in Valid \ rows
    BY <1>1 DEF IInv, HasRecord, Busy, InTransaction
  <1>2. CASE \E c \in Consumers : TxCommit(c) \/ StoreFails(c) \/ Stop(c)
    BY <1>1, <1>2, Zenon DEF TxCommit, StoreFails, Stop, tables
  <1>3. CASE \E c \in Consumers : \/ Start(c) \/ Poll(c) \/ Insert(c) \/ Upsert(c) \/ StoreRefused(c)
                                  \/ Retry(c) \/ CommitRecord(c) \/ CommitFails(c)
    BY <1>3, Zenon DEF Start, Poll, Insert, Upsert, StoreRefused, Retry, CommitRecord, CommitFails, tables
  <1>4. CASE \E g \in Gateways : Publish(g) \/ Deliver(g) \/ Discard(g)
    BY <1>4, Zenon DEF Publish, Deliver, Discard, tables
  <1>5. CASE \E p \in Partitions : WriteMalformed(p) \/ Assign(p) \/ Revoke(p)
    BY <1>5, Zenon DEF WriteMalformed, Assign, Revoke, tables
  <1>6. CASE UNCHANGED vars
    BY <1>6, Zenon DEF vars
  <1> QED
    BY <1>2, <1>3, <1>4, <1>5, <1>6, Zenon DEF Next, Work

\* Failures are counted up to their bound.
LEMMA FaultsStep ==
  ASSUME [Next]_vars, faults \in 0..MaxFaults
  PROVE  faults' \in 0..MaxFaults
  <1>1. UNCHANGED faults \/ Fault
    <2>1. CASE \E g \in Gateways : Publish(g) \/ Deliver(g) \/ Discard(g)
      BY <2>1, Zenon DEF Publish, Deliver, Discard
    <2>2. CASE \E p \in Partitions : WriteMalformed(p) \/ Assign(p) \/ Revoke(p)
      BY <2>2, Zenon DEF WriteMalformed, Assign, Revoke
    <2>3. CASE \E c \in Consumers : Work(c) \/ StoreFails(c) \/ Stop(c)
      BY <2>3, Zenon DEF Work, Start, Poll, Insert, Upsert, TxCommit, StoreRefused, Retry,
                         CommitRecord, CommitFails, StoreFails, Stop
    <2>4. CASE UNCHANGED vars
      BY <2>4, Zenon DEF vars
    <2> QED
      BY <2>1, <2>2, <2>3, <2>4, Zenon DEF Next
  <1> QED
    BY <1>1, BoundAssumption DEF Fault

\* Every variable has its type; attempts and delays stay within their limits
\* however often a statement fails.
THEOREM PipelineTypeCorrect == Spec => []TypeOK
  <1> DEFINE Kept == rows \subseteq Valid /\ faults \in 0..MaxFaults
  <1>1. Init => Kept
    BY BoundAssumption DEF Init
  <1>2. IInv /\ Kept /\ [Next]_vars => IInv' /\ Kept'
    <2> SUFFICES ASSUME IInv, Kept, [Next]_vars PROVE IInv' /\ Kept'
      OBVIOUS
    <2>1. IInv'
      BY NextStep DEF Simulated
    <2>2. rows' \subseteq Valid
      BY TablesStep DEF Stored
    <2> QED
      BY <2>1, <2>2, FaultsStep
  <1>3. IInv /\ Kept => TypeOK
    <2> SUFFICES ASSUME IInv, Kept PROVE TypeOK
      OBVIOUS
    <2>1. Types /\ Valid \subseteq Events
      BY DEF IInv, Valid
    <2>2. buffer \in [Gateways -> SUBSET Events]
      BY <2>1 DEF Types
    <2>3. log \in [Partitions -> Seq(Events \cup {Malformed})]
      <3>1. \A p \in Partitions : log[p] \in Seq(Events \cup {Malformed})
        BY <2>1 DEF Types
      <3> QED
        BY <2>1, <3>1, Zenon DEF Types
    <2> QED
      BY <2>1, <2>2, <2>3, Zenon DEF Types, TypeOK, States
  <1> HIDE DEF Kept
  <1> QED
    BY InitIInv, <1>1, <1>2, <1>3, PTL DEF Spec

----------------------------------------------------------------------------
(* The counters of the hourly table.  Counting is done by the steps of the *)
(* pipeline, one event at a time, and so is the induction: what has to be  *)
(* known of a set of events is what one more event does to it.             *)

Finite == INSTANCE FiniteSetTheorems

LEMMA SameIsFinite == ASSUME NEW S PROVE Finite!IsFiniteSet(S) = IsFiniteSet(S)
  BY Zenon DEF Finite!IsFiniteSet, IsFiniteSet

LEMMA SameCardinality == ASSUME NEW S PROVE Finite!Cardinality(S) = Cardinality(S)
  BY Zenon DEF Finite!Cardinality, Cardinality

LEMMA EmptyCount == IsFiniteSet({}) /\ Cardinality({}) = 0
  BY SameIsFinite, SameCardinality, Finite!FS_EmptySet, Zenon

LEMMA CountSubset ==
  ASSUME NEW S, IsFiniteSet(S), NEW T \in SUBSET S
  PROVE  IsFiniteSet(T) /\ Cardinality(T) \in Nat
  <1>1. Finite!IsFiniteSet(T)
    BY SameIsFinite, Finite!FS_Subset, Zenon
  <1>2. Finite!Cardinality(T) \in Nat
    BY <1>1, Finite!FS_CardinalityType, Zenon
  <1> QED
    BY <1>1, <1>2, SameIsFinite, SameCardinality, Zenon

LEMMA CountOneMore ==
  ASSUME NEW S, IsFiniteSet(S), NEW x, x \notin S
  PROVE  IsFiniteSet(S \cup {x}) /\ Cardinality(S \cup {x}) = Cardinality(S) + 1
  <1>1. Finite!IsFiniteSet(S)
    BY SameIsFinite, Zenon
  <1>2. Finite!IsFiniteSet(S \cup {x}) /\ Finite!Cardinality(S \cup {x}) = Finite!Cardinality(S) + 1
    BY <1>1, Finite!FS_AddElement, Zenon
  <1> QED
    BY <1>2, SameIsFinite, SameCardinality, Zenon

\* The units of one number.
LEMMA CountBar ==
  ASSUME NEW x, NEW n \in Nat
  PROVE  IsFiniteSet({x} \X (1..n)) /\ Cardinality({x} \X (1..n)) = n
  <1>1. Finite!IsFiniteSet(1..n) /\ Finite!Cardinality(1..n) = n
    BY Finite!FS_Interval
  <1>2. Finite!IsFiniteSet({x}) /\ Finite!Cardinality({x}) = 1
    BY Finite!FS_Singleton, Zenon
  <1>3. /\ Finite!IsFiniteSet({x} \X (1..n))
        /\ Finite!Cardinality({x} \X (1..n)) = 1 * n
    <2> DEFINE A == {x}
               B == 1..n
    <2>1. Finite!IsFiniteSet(A) /\ Finite!IsFiniteSet(B)
      BY <1>1, <1>2, Zenon
    <2> HIDE DEF A, B
    <2>2. /\ Finite!IsFiniteSet(A \X B)
          /\ Finite!Cardinality(A \X B) = Finite!Cardinality(A) * Finite!Cardinality(B)
      BY <2>1, Finite!FS_Product, Zenon
    <2> QED
      BY <1>1, <1>2, <2>2, Zenon DEF A, B
  <1>4. 1 * n = n
    OBVIOUS
  <1> QED
    BY <1>3, <1>4, SameIsFinite, SameCardinality, Zenon

LEMMA CountUnion ==
  ASSUME NEW S, IsFiniteSet(S), NEW T, IsFiniteSet(T), S \cap T = {}
  PROVE  /\ IsFiniteSet(S \cup T)
         /\ Cardinality(S \cup T) = Cardinality(S) + Cardinality(T)
  <1>1. Finite!IsFiniteSet(S) /\ Finite!IsFiniteSet(T)
    BY SameIsFinite, Zenon
  <1>2. /\ Finite!IsFiniteSet(S \cup T)
        /\ Finite!Cardinality(S \cup T)
             = Finite!Cardinality(S) + Finite!Cardinality(T) - Finite!Cardinality(S \cap T)
    BY <1>1, Finite!FS_Union, Zenon
  <1>3. Finite!Cardinality(S \cap T) = 0
    BY Finite!FS_EmptySet, Zenon
  <1>4. Finite!Cardinality(S) \in Nat /\ Finite!Cardinality(T) \in Nat
    BY <1>1, Finite!FS_CardinalityType, Zenon
  <1>5. Finite!Cardinality(S \cup T) = Finite!Cardinality(S) + Finite!Cardinality(T)
    BY <1>2, <1>3, <1>4
  <1> QED
    BY <1>2, <1>5, SameIsFinite, SameCardinality, Zenon

\* One more number in a sum: f adds e to the arguments of g.
Extends(f, g, S, e) ==
  /\ DOMAIN f = S \cup {e} /\ DOMAIN g = S /\ e \notin S
  /\ \A x \in S : g[x] = f[x]
  /\ f[e] \in Nat

LEMMA TotalOneMore ==
  ASSUME NEW S, NEW e, NEW f, NEW g, Extends(f, g, S, e), IsFiniteSet(Units(g))
  PROVE  IsFiniteSet(Units(f)) /\ Total(f) = Total(g) + f[e]
  <1> USE DEF Extends
  <1> DEFINE bar == {e} \X (1..f[e])
  <1>1. IsFiniteSet(bar) /\ Cardinality(bar) = f[e]
    BY CountBar, Zenon
  <1>2. Units(f) = Units(g) \cup bar
    <2>1. \A u : u \in Units(f) <=> \E x \in S \cup {e} : u \in {x} \X (1..f[x])
      BY Zenon DEF Units
    <2>2. \A u : u \in Units(g) <=> \E x \in S : u \in {x} \X (1..g[x])
      BY Zenon DEF Units
    <2> QED
      BY <2>1, <2>2, Zenon
  <1>3. Units(g) \cap bar = {}
    <2> SUFFICES ASSUME NEW u \in Units(g), u \in bar PROVE FALSE
      BY Zenon
    <2>1. PICK x \in S : u \in {x} \X (1..g[x])
      BY Zenon DEF Units
    <2>2. u[1] = x /\ u[1] = e
      BY <2>1, Zenon
    <2> QED
      BY <2>2, Zenon
  <1> HIDE DEF bar
  <1>4. /\ IsFiniteSet(Units(g) \cup bar)
        /\ Cardinality(Units(g) \cup bar) = Cardinality(Units(g)) + f[e]
    BY <1>1, <1>3, CountUnion, Zenon
  <1> QED
    BY <1>2, <1>4, Zenon DEF Total

\* Sets of events that can be counted.
Milliseconds(S) == [e \in S |-> e.ms]

Bytes(S) == [e \in S |-> e.bytes]

Countable(S) ==
  /\ S \subseteq Valid
  /\ IsFiniteSet(S)
  /\ IsFiniteSet(Units(Milliseconds(S)))
  /\ IsFiniteSet(Units(Bytes(S)))
  /\ \A T \in SUBSET S : T # {} => \E e \in T : \A x \in T : x.ms <= e.ms

LEMMA ValidFacts == \A e \in Valid : e.ms \in Nat /\ e.bytes \in Nat
  BY EventAssumption DEF Valid, Validate

LEMMA CountableEmpty == Countable({})
  <1>1. Units(Milliseconds({})) = {} /\ Units(Bytes({})) = {}
    BY Zenon DEF Units, Milliseconds, Bytes
  <1> QED
    BY <1>1, EmptyCount, Zenon DEF Countable

LEMMA CountableSubset ==
  ASSUME NEW S, Countable(S), NEW T \in SUBSET S
  PROVE  Countable(T)
  <1>1. Units(Milliseconds(T)) \subseteq Units(Milliseconds(S))
    BY Zenon DEF Units, Milliseconds
  <1>2. Units(Bytes(T)) \subseteq Units(Bytes(S))
    BY Zenon DEF Units, Bytes
  <1>3. /\ IsFiniteSet(T) /\ IsFiniteSet(Units(Milliseconds(T)))
        /\ IsFiniteSet(Units(Bytes(T)))
    BY <1>1, <1>2, CountSubset, Zenon DEF Countable
  <1>4. T \subseteq Valid /\ \A U \in SUBSET T : U \in SUBSET S
    BY Zenon DEF Countable
  <1> QED
    BY <1>3, <1>4, Zenon DEF Countable

\* What one more event does to both sums, and that it can still be counted.
LEMMA CountableOneMore ==
  ASSUME NEW S, Countable(S), NEW e \in Valid, e \notin S
  PROVE  /\ Countable(S \cup {e})
         /\ Total(Milliseconds(S \cup {e})) = Total(Milliseconds(S)) + e.ms
         /\ Total(Bytes(S \cup {e})) = Total(Bytes(S)) + e.bytes
  <1>1. S \subseteq Valid /\ IsFiniteSet(S)
    BY Zenon DEF Countable
  <1>2. \A x \in S \cup {e} : x.ms \in Nat /\ x.bytes \in Nat
    BY <1>1, ValidFacts, Zenon
  <1>3. /\ IsFiniteSet(Units(Milliseconds(S \cup {e})))
        /\ Total(Milliseconds(S \cup {e})) = Total(Milliseconds(S)) + e.ms
    <2> DEFINE f == Milliseconds(S \cup {e})
               g == Milliseconds(S)
    <2>1. Extends(f, g, S, e) /\ f[e] = e.ms
      BY <1>2, Zenon DEF Extends, Milliseconds
    <2>2. IsFiniteSet(Units(g))
      BY Zenon DEF Countable
    <2> HIDE DEF f, g
    <2>3. IsFiniteSet(Units(f)) /\ Total(f) = Total(g) + f[e]
      BY <2>1, <2>2, TotalOneMore, Zenon
    <2> QED
      BY <2>1, <2>3, Zenon DEF f, g
  <1>4. /\ IsFiniteSet(Units(Bytes(S \cup {e})))
        /\ Total(Bytes(S \cup {e})) = Total(Bytes(S)) + e.bytes
    <2> DEFINE f == Bytes(S \cup {e})
               g == Bytes(S)
    <2>1. Extends(f, g, S, e) /\ f[e] = e.bytes
      BY <1>2, Zenon DEF Extends, Bytes
    <2>2. IsFiniteSet(Units(g))
      BY Zenon DEF Countable
    <2> HIDE DEF f, g
    <2>3. IsFiniteSet(Units(f)) /\ Total(f) = Total(g) + f[e]
      BY <2>1, <2>2, TotalOneMore, Zenon
    <2> QED
      BY <2>1, <2>3, Zenon DEF f, g
  <1>5. ASSUME NEW T \in SUBSET (S \cup {e}), T # {}
        PROVE  \E y \in T : \A x \in T : x.ms <= y.ms
    <2>1. \A x \in T : x.ms \in Nat
      BY <1>2, Zenon
    <2>2. CASE T \subseteq S
      BY <1>5, <2>2, Zenon DEF Countable
    <2>3. CASE e \in T /\ T \ {e} = {}
      <3>1. e.ms <= e.ms
        BY <2>1, <2>3
      <3>2. \A x \in T : x = e
        BY <2>3, Zenon
      <3> QED
        BY <2>3, <3>1, <3>2, Zenon
    <2>4. CASE e \in T /\ T \ {e} # {}
      <3>1. PICK y \in T \ {e} : \A x \in T \ {e} : x.ms <= y.ms
        BY <2>4, Zenon DEF Countable
      <3> QED
        BY <2>1, <2>4, <3>1
    <2> QED
      BY <2>2, <2>3, <2>4, Zenon
  <1>6. S \cup {e} \subseteq Valid /\ IsFiniteSet(S \cup {e})
    BY <1>1, CountOneMore, Zenon
  <1> QED
    BY <1>3, <1>4, <1>5, <1>6, Zenon DEF Countable

\* The row of one event, and of one more event.
LEMMA RowOfOne ==
  ASSUME NEW e \in Valid
  PROVE  RowOf({e}) = FreshRow(e)
  <1>1. Cardinality({}) = 0 /\ Cardinality({e}) = 1
    <2>1. {} \cup {e} = {e} /\ e \notin {}
      OBVIOUS
    <2> QED
      BY <2>1, EmptyCount, CountOneMore
  <1>2. [class \in 1..5 |-> Cardinality({x \in {e} : x.status \div 100 = class})]
          = StatusClassCounts(e.status)
    <2>1. ASSUME NEW class \in 1..5
          PROVE  Cardinality({x \in {e} : x.status \div 100 = class})
                   = IF e.status \div 100 = class THEN 1 ELSE 0
      <3>1. {x \in {e} : x.status \div 100 = class}
              = IF e.status \div 100 = class THEN {e} ELSE {}
        BY Zenon
      <3> QED
        BY <1>1, <3>1, Zenon
    <2> QED
      BY <2>1, Zenon DEF StatusClassCounts
  <1>3. Cardinality({x \in {e} : x.limited}) = IF e.limited THEN 1 ELSE 0
    <2>1. {x \in {e} : x.limited} = IF e.limited THEN {e} ELSE {}
      BY Zenon
    <2> QED
      BY <1>1, <2>1, Zenon
  <1>4. Total(Milliseconds({e})) = e.ms /\ Total(Bytes({e})) = e.bytes
    <2>1. {} \cup {e} = {e} /\ e \notin {}
      BY Zenon
    <2>2. Total(Milliseconds({})) = 0 /\ Total(Bytes({})) = 0
      <3>1. Units(Milliseconds({})) = {} /\ Units(Bytes({})) = {}
        BY Zenon DEF Units, Milliseconds, Bytes
      <3> QED
        BY <3>1, EmptyCount, Zenon DEF Total
    <2>3. /\ Total(Milliseconds({e})) = Total(Milliseconds({})) + e.ms
          /\ Total(Bytes({e})) = Total(Bytes({})) + e.bytes
      BY <2>1, CountableEmpty, CountableOneMore, Zenon
    <2>4. e.ms \in Nat /\ e.bytes \in Nat
      BY ValidFacts, Zenon
    <2> QED
      BY <2>2, <2>3, <2>4
  <1>5. Max({x.ms : x \in {e}}) = e.ms
    <2>1. {x.ms : x \in {e}} = {e.ms} /\ e.ms \in Nat
      BY ValidFacts, Zenon
    <2> QED
      BY <2>1 DEF Max
  <1> QED
    BY <1>1, <1>2, <1>3, <1>4, <1>5, Zenon DEF RowOf, FreshRow, Milliseconds, Bytes

\* The greatest of a set of numbers with a greatest one.
LEMMA MaxIs ==
  ASSUME NEW A \in SUBSET Int, NEW m \in A, \A x \in A : x <= m
  PROVE  Max(A) = m
  <1>1. \A x \in A : m >= x
    BY Zenon
  <1> DEFINE n == Max(A)
  <1>2. n \in A /\ \A x \in A : n >= x
    BY <1>1, Zenon DEF Max
  <1> HIDE DEF n
  <1>3. n \in Int /\ m \in Int /\ n >= m /\ m >= n
    BY <1>1, <1>2, Zenon
  <1>4. n = m
    BY <1>3
  <1> QED
    BY <1>4, Zenon DEF n

\* One more event in a set that a comparison selects.
LEMMA SelectedOneMore ==
  ASSUME NEW S, IsFiniteSet(S), NEW e, e \notin S,
         NEW T \in SUBSET S, NEW U, U = T \/ U = T \cup {e}
  PROVE  Cardinality(U) = IF e \in U THEN Cardinality(T) + 1 ELSE Cardinality(T)
  <1>1. IsFiniteSet(T) /\ e \notin T
    BY CountSubset, Zenon
  <1>2. CASE U = T
    BY <1>1, <1>2, Zenon
  <1>3. CASE U = T \cup {e}
    BY <1>1, <1>3, CountOneMore, Zenon
  <1> QED
    BY <1>2, <1>3, Zenon

LEMMA RowOneMore ==
  ASSUME NEW S, Countable(S), S # {}, NEW e \in Valid, e \notin S
  PROVE  RowOf(S \cup {e}) = UpdatedRow(RowOf(S), FreshRow(e))
  <1> DEFINE S1 == S \cup {e}
  <1>1. S \subseteq Valid /\ IsFiniteSet(S)
    BY Zenon DEF Countable
  <1>2. Cardinality(S1) = Cardinality(S) + 1
    BY <1>1, CountOneMore, Zenon
  <1>3. ASSUME NEW class \in 1..5
        PROVE  Cardinality({x \in S1 : x.status \div 100 = class})
                 = Cardinality({x \in S : x.status \div 100 = class})
                     + StatusClassCounts(e.status)[class]
    <2> DEFINE T == {x \in S : x.status \div 100 = class}
               U == {x \in S1 : x.status \div 100 = class}
    <2>1. T \in SUBSET S /\ (U = T \/ U = T \cup {e}) /\ (e \in U <=> e.status \div 100 = class)
      BY Zenon
    <2>2. StatusClassCounts(e.status)[class] = IF e \in U THEN 1 ELSE 0
      BY <2>1, Zenon DEF StatusClassCounts
    <2>3. Cardinality(T) \in Nat
      BY <1>1, <2>1, CountSubset, Zenon
    <2> HIDE DEF T, U
    <2>4. Cardinality(U) = IF e \in U THEN Cardinality(T) + 1 ELSE Cardinality(T)
      BY <1>1, <2>1, SelectedOneMore
    <2>5. Cardinality(U) = Cardinality(T) + StatusClassCounts(e.status)[class]
      BY <2>2, <2>3, <2>4
    <2> QED
      BY <2>5, Zenon DEF T, U
  <1>4. Cardinality({x \in S1 : x.limited})
          = Cardinality({x \in S : x.limited}) + (IF e.limited THEN 1 ELSE 0)
    <2> DEFINE T == {x \in S : x.limited}
               U == {x \in S1 : x.limited}
    <2>1. T \in SUBSET S /\ (U = T \/ U = T \cup {e}) /\ (e \in U <=> e.limited)
      BY Zenon
    <2>2. (IF e.limited THEN 1 ELSE 0) = IF e \in U THEN 1 ELSE 0
      BY <2>1, Zenon
    <2>3. Cardinality(T) \in Nat
      BY <1>1, <2>1, CountSubset, Zenon
    <2> HIDE DEF T, U
    <2>4. Cardinality(U) = IF e \in U THEN Cardinality(T) + 1 ELSE Cardinality(T)
      BY <1>1, <2>1, SelectedOneMore, Zenon
    <2>5. Cardinality(U) = Cardinality(T) + (IF e.limited THEN 1 ELSE 0)
      BY <2>2, <2>3, <2>4
    <2> QED
      BY <2>5, Zenon DEF T, U
  <1>5. /\ Total(Milliseconds(S1)) = Total(Milliseconds(S)) + e.ms
        /\ Total(Bytes(S1)) = Total(Bytes(S)) + e.bytes
    BY CountableOneMore, Zenon
  <1>6. Max({x.ms : x \in S1}) = Greatest(Max({x.ms : x \in S}), e.ms)
    <2>1. \A x \in S1 : x.ms \in Nat
      BY <1>1, ValidFacts, Zenon
    <2>2. PICK y \in S : \A x \in S : x.ms <= y.ms
      BY Zenon DEF Countable
    <2>3. Max({x.ms : x \in S}) = y.ms
      <3> DEFINE A == {x.ms : x \in S}
      <3>1. A \in SUBSET Int /\ y.ms \in A /\ \A a \in A : a <= y.ms
        BY <2>1, <2>2
      <3> HIDE DEF A
      <3>2. Max(A) = y.ms
        BY <3>1, MaxIs, Zenon
      <3> QED
        BY <3>2, Zenon DEF A
    <2>4. Max({x.ms : x \in S1}) = Greatest(y.ms, e.ms)
      <3> DEFINE A == {x.ms : x \in S1}
                 m == Greatest(y.ms, e.ms)
      <3>1. y.ms \in Nat /\ e.ms \in Nat /\ y.ms \in A /\ e.ms \in A
        BY <2>1, Zenon
      <3>2. m \in A /\ m >= y.ms /\ m >= e.ms /\ m \in Nat
        BY <3>1 DEF Greatest
      <3>3. \A x \in S1 : x.ms <= m
        <4> HIDE DEF m
        <4> QED
          BY <2>1, <2>2, <3>1, <3>2
      <3>4. A \in SUBSET Int /\ \A a \in A : a <= m
        BY <2>1, <3>3
      <3> HIDE DEF A, m
      <3>5. Max(A) = m
        BY <3>2, <3>4, MaxIs, Zenon
      <3> QED
        BY <3>5, Zenon DEF A, m
    <2> QED
      BY <2>3, <2>4, Zenon
  <1> DEFINE old == RowOf(S)
             new == FreshRow(e)
  <1>7. /\ old.requests = Cardinality(S) /\ old.limited = Cardinality({x \in S : x.limited})
        /\ old.ms = Total(Milliseconds(S)) /\ old.bytes = Total(Bytes(S))
        /\ old.maxMs = Max({x.ms : x \in S})
        /\ \A class \in 1..5 :
             old.classes[class] = Cardinality({x \in S : x.status \div 100 = class})
    BY Zenon DEF RowOf, Milliseconds, Bytes
  <1>8. /\ new.limited = (IF e.limited THEN 1 ELSE 0) /\ new.ms = e.ms /\ new.maxMs = e.ms
        /\ new.bytes = e.bytes /\ new.classes = StatusClassCounts(e.status)
    BY Zenon DEF FreshRow
  <1>9. [class \in 1..5 |-> Cardinality({x \in S1 : x.status \div 100 = class})]
          = [class \in 1..5 |-> old.classes[class] + new.classes[class]]
    BY <1>3, <1>7, <1>8, Zenon
  <1>10. RowOf(S1) = [requests |-> Cardinality(S1),
                      classes  |-> [class \in 1..5 |-> Cardinality({x \in S1 : x.status \div 100 = class})],
                      limited  |-> Cardinality({x \in S1 : x.limited}),
                      ms       |-> Total(Milliseconds(S1)),
                      maxMs    |-> Max({x.ms : x \in S1}),
                      bytes    |-> Total(Bytes(S1))]
    BY Zenon DEF RowOf, Milliseconds, Bytes
  <1> HIDE DEF old, new, S1
  <1>11. RowOf(S1) = UpdatedRow(old, new)
    BY <1>2, <1>4, <1>5, <1>6, <1>7, <1>8, <1>9, <1>10, Zenon DEF UpdatedRow
  <1> QED
    BY <1>11, Zenon DEF old, new, S1

\* What the upsert leaves is what counting afresh with the event would give.
LEMMA RecountOneMore ==
  ASSUME NEW S, Countable(S), NEW e \in Valid, e \notin S
  PROVE  Recount(S \cup {e}) = Aggregated(Recount(S), e)
  <1> DEFINE S1 == S \cup {e}
             keys(T) == {BucketOf(x) : x \in {y \in T : ShouldAggregate(y)}}
  <1>1. \A T : Recount(T) = [k \in keys(T) |-> RowOf(InBucket(T, k))]
    BY Zenon DEF Recount
  <1>2. CASE ~ ShouldAggregate(e)
    <2>1. keys(S1) = keys(S) /\ \A k : InBucket(S1, k) = InBucket(S, k)
      BY <1>2, Zenon DEF InBucket
    <2> HIDE DEF keys, S1
    <2>2. Recount(S1) = Recount(S)
      BY <1>1, <2>1, Zenon
    <2> QED
      BY <1>2, <2>2, Zenon DEF Aggregated, S1
  <1>3. CASE ShouldAggregate(e)
    <2> DEFINE key == BucketOf(e)
               h == Recount(S)
    <2>1. keys(S1) = keys(S) \cup {key}
      BY <1>3, Zenon
    <2>2. \A k : k # key => InBucket(S1, k) = InBucket(S, k)
      BY Zenon DEF InBucket
    <2>3. InBucket(S1, key) = InBucket(S, key) \cup {e} /\ e \notin InBucket(S, key)
      BY <1>3, Zenon DEF InBucket
    <2>4. key \in keys(S) <=> InBucket(S, key) # {}
      BY Zenon DEF InBucket
    <2>5. Countable(InBucket(S, key))
      BY CountableSubset, Zenon DEF InBucket
    <2>6. Aggregated(h, e) = [k \in DOMAIN h \cup {key} |->
                                IF k # key THEN h[k]
                                ELSE IF k \in DOMAIN h THEN UpdatedRow(h[k], FreshRow(e))
                                ELSE FreshRow(e)]
      BY <1>3, Zenon DEF Aggregated, UpsertHourly
    <2> HIDE DEF keys, S1, key
    <2>7. DOMAIN h = keys(S) /\ \A k \in keys(S) : h[k] = RowOf(InBucket(S, k))
      BY <1>1, Zenon
    <2>8. InBucket(S, key) = {} => RowOf(InBucket(S1, key)) = FreshRow(e)
      <3>1. InBucket(S, key) = {} => InBucket(S1, key) = {e}
        BY <2>3, Zenon
      <3> QED
        BY <3>1, RowOfOne, Zenon
    <2>9. InBucket(S, key) # {}
            => RowOf(InBucket(S1, key)) = UpdatedRow(RowOf(InBucket(S, key)), FreshRow(e))
      BY <2>3, <2>5, RowOneMore, Zenon
    <2> HIDE DEF h
    <2>10. \A k \in keys(S1) :
             RowOf(InBucket(S1, k)) = IF k # key THEN h[k]
                                      ELSE IF k \in DOMAIN h THEN UpdatedRow(h[k], FreshRow(e))
                                      ELSE FreshRow(e)
      BY <2>1, <2>2, <2>4, <2>7, <2>8, <2>9, Zenon
    <2>11. Recount(S1) = Aggregated(h, e)
      BY <1>1, <2>1, <2>6, <2>7, <2>10, Zenon
    <2> QED
      BY <2>11, Zenon DEF h, S1
  <1> QED
    BY <1>2, <1>3, Zenon

\* The hourly counters are exactly what counting the event table afresh would
\* give, however often a record was delivered: StoreGatewayAccess upserts them
\* in the transaction that inserts the row, and only if the row was new.
THEOREM CountedOnceCorrect == Spec => []CountedOnce
  <1> DEFINE Kept == Countable(rows) /\ CountedOnce
  <1>1. Init => Kept
    <2>1. Recount({}) = [k \in {} |-> 0]
      BY Zenon DEF Recount
    <2> QED
      BY <2>1, CountableEmpty, Zenon DEF Init, CountedOnce
  <1>2. IInv /\ Kept /\ [Next]_vars => IInv' /\ Kept'
    <2> SUFFICES ASSUME IInv, Kept, [Next]_vars PROVE IInv' /\ Kept'
      OBVIOUS
    <2>1. IInv'
      BY NextStep, Zenon DEF Simulated
    <2>2. CASE UNCHANGED <<rows, hourly>>
      <3>1. Countable(rows') /\ CountedOnce'
        BY <2>2, Zenon DEF CountedOnce
      <3> QED
        BY <2>1, <2>2, <3>1, Zenon
    <2>3. CASE \E e \in Valid \ rows : Stored(e)
      <3>1. PICK e \in Valid \ rows : Stored(e)
        BY <2>3, Zenon
      <3>2. rows' = rows \cup {e} /\ hourly' = Aggregated(hourly, e)
        BY <3>1, Zenon DEF Stored
      <3>3. hourly' = Recount(rows')
        BY <3>2, RecountOneMore, Zenon DEF CountedOnce
      <3>4. Countable(rows')
        BY <3>2, CountableOneMore, Zenon
      <3> QED
        BY <2>1, <3>3, <3>4, Zenon DEF CountedOnce
    <2> QED
      BY <2>2, <2>3, TablesStep, Zenon
  <1> QED
    BY InitIInv, <1>1, <1>2, PTL DEF Spec
====
