---- MODULE Ledger ----
(***************************************************************************)
(* What the analytics service promises: every record of the topic that is  *)
(* an event is entered once, its hourly counters with it, and a            *)
(* partition's offset moves on by one record at a time, over records that  *)
(* are entered or are no events.  AccessPipeline implements it.            *)
(***************************************************************************)
EXTENDS Integers, Sequences

CONSTANTS Partitions, Events, Malformed,
          Aggregated(_, _)  \* the counters after an event is counted in them

VARIABLES log, committed, rows, hourly

ledger == <<log, committed, rows, hourly>>

Init ==
  /\ log = [p \in Partitions |-> <<>>]
  /\ committed = [p \in Partitions |-> 0]
  /\ rows = {}
  /\ hourly = [k \in {} |-> 0]

Write(p, record) ==
  /\ log' = [log EXCEPT ![p] = Append(@, record)]
  /\ UNCHANGED <<committed, rows, hourly>>

Enter(e) ==
  /\ e \notin rows
  /\ rows' = rows \cup {e}
  /\ hourly' = Aggregated(hourly, e)
  /\ UNCHANGED <<log, committed>>

Advance(p) ==
  /\ committed[p] < Len(log[p])
  /\ log[p][committed[p] + 1] \in rows \cup {Malformed}
  /\ committed' = [committed EXCEPT ![p] = @ + 1]
  /\ UNCHANGED <<log, rows, hourly>>

Next ==
  \/ \E p \in Partitions, record \in Events \cup {Malformed} : Write(p, record)
  \/ \E e \in Events : Enter(e)
  \/ \E p \in Partitions : Advance(p)

Spec == Init /\ [][Next]_ledger
====
