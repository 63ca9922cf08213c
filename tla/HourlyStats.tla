---- MODULE HourlyStats ----
(***************************************************************************)
(* The analytics tables and the two queries over them, as operators:       *)
(*                                                                         *)
(*   rows    gateway_access_events, a set of events (one per event_id);    *)
(*   hourly  gateway_route_stats_hourly, a function from the primary key   *)
(*           of that table to the counters of the row.                     *)
(*                                                                         *)
(* An event is a record; project, route and prefix are "" when the request *)
(* matched no route, or a route of the static file, which has no project.  *)
(* Time is counted in units of which an hour has Hour.                     *)
(***************************************************************************)
EXTENDS Integers, FiniteSets, FiniteSetsExt

CONSTANTS Hour,      \* time units in an hour
          MaxRange   \* maxAnalyticsRange, 90 days in the code

ASSUME HourAssumption == Hour \in Nat \ {0}
ASSUME MaxRangeAssumption == MaxRange \in Nat

\* What events.GatewayAccessEvent.Validate looks at that a gateway's event
\* can fail: the gateway fills the other fields itself.
Validate(e) ==
  /\ e.status \in 100..599
  /\ e.ms >= 0
  /\ e.bytes >= 0

\* time.Time.Truncate(time.Hour).
Truncate(t) == t - (t % Hour)

\* Mutant: the end of the range is rounded down.
CeilHourDown(t) == Truncate(t)

CeilHour(t) == IF t = Truncate(t) THEN Truncate(t) ELSE Truncate(t) + Hour

ShouldAggregate(e) == e.project # "" /\ e.route # "" /\ e.prefix # ""

BucketOf(e) ==
  [start |-> Truncate(e.at), project |-> e.project, route |-> e.route,
   prefix |-> e.prefix, method |-> e.method]

StatusClassCounts(status) ==
  [class \in 1..5 |-> IF status \div 100 = class THEN 1 ELSE 0]

\* The VALUES of the upsert.
FreshRow(e) ==
  [requests |-> 1, classes |-> StatusClassCounts(e.status),
   limited |-> IF e.limited THEN 1 ELSE 0,
   ms |-> e.ms, maxMs |-> e.ms, bytes |-> e.bytes]

Greatest(a, b) == IF a >= b THEN a ELSE b

\* Its ON CONFLICT DO UPDATE: the row it finds, and the row it would insert.
UpdatedRow(old, new) ==
  [requests |-> old.requests + 1,
   classes  |-> [class \in 1..5 |-> old.classes[class] + new.classes[class]],
   limited  |-> old.limited + new.limited,
   ms       |-> old.ms + new.ms,
   maxMs    |-> Greatest(old.maxMs, new.maxMs),
   bytes    |-> old.bytes + new.bytes]

UpsertHourly(hourly, e) ==
  LET key == BucketOf(e)
  IN  [k \in DOMAIN hourly \cup {key} |->
         IF k # key THEN hourly[k]
         ELSE IF k \in DOMAIN hourly THEN UpdatedRow(hourly[k], FreshRow(e))
         ELSE FreshRow(e)]

\* The effect of the transaction of StoreGatewayAccess on the second table.
Aggregated(hourly, e) ==
  IF ShouldAggregate(e) THEN UpsertHourly(hourly, e) ELSE hourly

----------------------------------------------------------------------------
(* Reading the statistics.  A filter is [project, from, to, route, method];*)
(* route and method are "" when the query does not restrict them.          *)

\* normalizeStatsFilter refuses these with 400.
FilterRefused(f) == ~(f.from < f.to) \/ f.to - f.from > MaxRange

NormalizeStatsFilter(f) ==
  [f EXCEPT !.from = Truncate(@), !.to = CeilHour(@)]

\* The WHERE clause of both queries.
Selected(hourly, f) ==
  {k \in DOMAIN hourly :
     /\ k.project = f.project
     /\ k.start >= f.from /\ k.start < f.to
     /\ f.route = "" \/ k.route = f.route
     /\ f.method = "" \/ k.method = f.method}

\* SUM over one column of the selected rows.
SumOf(column, keys) == MapThenSumSet(LAMBDA k : column[k], keys)

GetRouteStatsSummary(hourly, filter) ==
  LET keys == Selected(hourly, NormalizeStatsFilter(filter))
  IN  [requests |-> SumOf([k \in keys |-> hourly[k].requests], keys),
       classes  |-> [class \in 1..5 |-> SumOf([k \in keys |-> hourly[k].classes[class]], keys)],
       limited  |-> SumOf([k \in keys |-> hourly[k].limited], keys),
       ms       |-> SumOf([k \in keys |-> hourly[k].ms], keys),
       maxMs    |-> Max({hourly[k].maxMs : k \in keys} \cup {0}),
       bytes    |-> SumOf([k \in keys |-> hourly[k].bytes], keys)]

\* The pages ListRouteStatsHourly may return: the first rows by bucket_start
\* and, within a bucket, in an order that this model leaves open.
ListRouteStatsHourly(hourly, filter, limit) ==
  LET keys == Selected(hourly, NormalizeStatsFilter(filter))
  IN  {page \in SUBSET keys :
         /\ \/ page = keys /\ Cardinality(keys) <= limit
            \/ Cardinality(page) = limit
         /\ \A k \in page, l \in keys \ page : k.start <= l.start}
====
