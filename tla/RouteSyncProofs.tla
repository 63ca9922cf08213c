---- MODULE RouteSyncProofs ----
(***************************************************************************)
(* What a gateway serves, for any number of gateways, projects, services   *)
(* and routes: a whole snapshot, in which a path has one route, and never  *)
(* fewer routes than before.                                               *)
(***************************************************************************)
EXTENDS RouteSync, TLAPS

----------------------------------------------------------------------------
(* The invariant.                                                          *)

\* A row of the route table.
Row == [service : Services, name : STRING, prefix : Seq(STRING), strip : BOOLEAN,
        timeout : Int, enabled : BOOLEAN, limit : Policy]

\* The response that was read from the first n rows, and its routes.
Listed(n) == ListGatewayRoutes(SubSeq(table, 1, n))
Snapshot(n) == ResponseToDomain(Listed(n))

\* The routes of a running gateway are those of the YAML file, or of a response
\* that was accepted, which is no younger than the one on its way.
Origin(s) ==
  \/ s.routes = Static
  \/ \E n \in 0..Len(table) : /\ ResponseAccepted(Listed(n))
                              /\ s.routes = Snapshot(n)
                              /\ s.fetched # Unread => n <= s.fetched

State == [pc : PCs, fetched : Unread..Len(table), routes : {{}} \cup Snapshots]

Inv ==
  /\ TypeOK
  /\ table \in Seq(Row)
  /\ gateway \in [Gateways -> State]
  /\ \A g \in Gateways : gateway[g].pc # "down" => Origin(gateway[g])

----------------------------------------------------------------------------
(* The control plane.                                                      *)

\* What is stored of a route that was asked for.
LEMMA NewRouteFacts ==
  ASSUME NEW input \in Inputs, RouteValid(input)
  PROVE  /\ NewRoute(input) \in Row
         /\ NewRoute(input).service = input.service
         /\ StoredRoute(NewRoute(input))
<1>1. /\ input \in Row
  BY InputAssumption DEF Row
<1> DEFINE limit == NewRateLimitPolicy(input.limit)
           timeout == IF input.timeout <= 0 THEN DefaultRouteTimeoutMS ELSE input.timeout
<1>2. limit \in Policy /\ PolicyAccepted(limit)
  BY <1>1 DEF Row, Policy, NewRateLimitPolicy, PolicyAccepted, RouteValid, RateLimitValid
<1>3. timeout \in Int /\ timeout > 0
  BY <1>1 DEF Row, DefaultRouteTimeoutMS
<1>4. NewRoute(input) = [input EXCEPT !.limit = limit, !.timeout = timeout]
  BY DEF NewRoute
<1>5. IsPrefix(Slash, input.prefix)
  BY DEF RouteValid
<1> HIDE DEF limit, timeout
<1>6. /\ NewRoute(input) \in Row
      /\ NewRoute(input).service = input.service
      /\ NewRoute(input).prefix = input.prefix
      /\ NewRoute(input).limit = limit
      /\ NewRoute(input).timeout = timeout
  BY <1>1, <1>2, <1>3, <1>4, Zenon DEF Row
<1> QED
  BY <1>2, <1>3, <1>5, <1>6, Zenon DEF StoredRoute

\* A response that was read stays what it was when the table grows.
LEMMA TableGrows ==
  ASSUME table \in Seq(Row), NEW row \in Row, table' = Append(table, row)
  PROVE  /\ table' \in Seq(Row) /\ Len(table') = Len(table) + 1 /\ Len(table) \in Nat
         /\ \A i \in 1..Len(table) : table'[i] = table[i]
         /\ table'[Len(table) + 1] = row
         /\ \A n \in 0..Len(table) : Listed(n)' = Listed(n) /\ Snapshot(n)' = Snapshot(n)
<1>1. /\ table' \in Seq(Row) /\ Len(table') = Len(table) + 1 /\ Len(table) \in Nat
      /\ \A i \in 1..Len(table) : table'[i] = table[i]
      /\ table'[Len(table) + 1] = row
  OBVIOUS
<1>2. ASSUME NEW n \in 0..Len(table)
      PROVE  SubSeq(table', 1, n) = SubSeq(table, 1, n)
  <2>1. /\ SubSeq(table', 1, n) = [i \in 1..n |-> table'[i]]
        /\ SubSeq(table, 1, n) = [i \in 1..n |-> table[i]]
    BY <1>1
  <2> QED
    BY <1>1, <2>1
<1> QED
  BY <1>1, <1>2, Zenon DEF Listed, Snapshot

\* The response that was read from the first n rows, row by row.
LEMMA ListedRows ==
  ASSUME table \in Seq(Row), NEW n \in 0..Len(table)
  PROVE  /\ \A i : i \in DOMAIN Listed(n) <=> i \in 1..n /\ table[i].enabled
         /\ \A i \in DOMAIN Listed(n) : Listed(n)[i] = GatewayRoute(table[i])
<1> DEFINE first == SubSeq(table, 1, n)
<1>1. Len(first) = n /\ \A i \in 1..n : first[i] = table[i]
  OBVIOUS
<1> HIDE DEF first
<1>2. Listed(n) = [i \in {i \in 1..Len(first) : first[i].enabled} |-> GatewayRoute(first[i])]
  BY Zenon DEF first, Listed, ListGatewayRoutes
<1> QED
  BY <1>1, <1>2, Zenon

\* A later response has all the routes of an earlier one.
LEMMA SnapshotsGrow ==
  ASSUME table \in Seq(Row), NEW m \in 0..Len(table), NEW n \in 0..Len(table), m <= n
  PROVE  Snapshot(m) \subseteq Snapshot(n)
<1>1. Len(table) \in Nat
  OBVIOUS
<1>2. ASSUME NEW i \in DOMAIN Listed(m)
      PROVE  i \in DOMAIN Listed(n) /\ Listed(n)[i] = Listed(m)[i]
  <2>1. i \in 1..m /\ table[i].enabled /\ Listed(m)[i] = GatewayRoute(table[i])
    BY ListedRows, Zenon
  <2>2. i \in 1..n
    BY <1>1, <2>1
  <2> QED
    BY <2>1, <2>2, ListedRows, Zenon
<1> QED
  BY <1>2, Zenon DEF Snapshot, ResponseToDomain

----------------------------------------------------------------------------
(* Every step keeps the invariant.                                         *)

\* The routes of a response that was accepted, and those of the YAML file.
LEMMA OriginAccepted ==
  ASSUME NEW s, Origin(s), NEW r \in s.routes
  PROVE  r \in Static \/ RouteAccepted(r)
<1>1. CASE s.routes = Static
  BY <1>1, Zenon
<1>2. ASSUME NEW n \in 0..Len(table), ResponseAccepted(Listed(n)), s.routes = Snapshot(n)
      PROVE  RouteAccepted(r)
  BY <1>2, Zenon DEF Snapshot, ResponseToDomain, ResponseAccepted
<1> QED
  BY <1>1, <1>2, Zenon DEF Origin

\* A gateway comes into another state while the tables stay.
LEMMA GatewayStep ==
  ASSUME Inv, NEW g \in Gateways, NEW s \in State,
         s.pc # "down" => Origin(s), Origin(s) \/ s.routes = {},
         Set(g, s), UNCHANGED database, faults' \in 0..MaxFaults
  PROVE  Inv'
<1>1. /\ projects' = projects /\ services' = services /\ table' = table
      /\ gateway' = [gateway EXCEPT ![g] = s]
  BY DEF database, Set
<1>2. State' = State
  BY <1>1 DEF State, Snapshots
<1>3. gateway' \in [Gateways -> State]
  BY <1>1 DEF Inv
<1>4. \A h \in Gateways : gateway'[h].pc # "down" => Origin(gateway'[h])
  BY <1>1 DEF Inv
<1>5. \A r : Origin(r)' = Origin(r)
  BY <1>1 DEF Origin, Listed, Snapshot
<1>6. ASSUME NEW h \in Gateways, NEW r \in gateway'[h].routes
      PROVE  r \in Static \/ RouteAccepted(r)
  <2>1. CASE h = g
    BY <1>1, <1>6, <2>1, OriginAccepted DEF Inv
  <2>2. CASE h # g
    BY <1>1, <1>6, <2>2, Zenon DEF Inv, TypeOK
  <2> QED
    BY <2>1, <2>2
<1>7. \A h \in Gateways : gateway'[h].pc \in PCs /\ gateway'[h].fetched \in Unread..Len(table)
  BY <1>3 DEF State
<1>8. TypeOK'
  BY <1>1, <1>6, <1>7, Zenon DEF Inv, TypeOK
<1> QED
  BY <1>1, <1>2, <1>3, <1>4, <1>5, <1>8, Zenon DEF Inv

\* The control plane changes a table, and no gateway moves.
LEMMA CreateStep ==
  ASSUME Inv, \/ \E p \in Projects : CreateProject(p)
              \/ \E v \in Services : CreateService(v)
  PROVE  Inv'
<1>1. /\ projects' \subseteq Projects /\ services' \subseteq Services
      /\ services \subseteq services'
      /\ \A v \in services' : v.project \in projects' /\ ServiceValid(v)
      /\ UNCHANGED <<table, gateway, faults>>
  BY DEF Inv, TypeOK, CreateProject, CreateService
<1>2. State' = State /\ \A r : Origin(r)' = Origin(r)
  BY <1>1 DEF State, Snapshots, Origin, Listed, Snapshot
<1>3. TypeOK'
  BY <1>1 DEF Inv, TypeOK
<1> QED
  BY <1>1, <1>2, <1>3, Zenon DEF Inv

LEMMA CreateRouteStep ==
  ASSUME Inv, NEW input \in Inputs, CreateRoute(input)
  PROVE  Inv'
<1> DEFINE row == NewRoute(input)
<1>1. /\ row \in Row /\ row.service \in services /\ StoredRoute(row)
      /\ table' = Append(table, row) /\ table \in Seq(Row)
      /\ UNCHANGED <<projects, services, gateway, faults>>
  BY NewRouteFacts DEF CreateRoute, Inv
<1> HIDE DEF row
<1>2. /\ table' \in Seq(Row) /\ Len(table') = Len(table) + 1 /\ Len(table) \in Nat
      /\ \A i \in 1..Len(table) : table'[i] = table[i]
      /\ table'[Len(table) + 1] = row
      /\ \A n \in 0..Len(table) : Listed(n)' = Listed(n) /\ Snapshot(n)' = Snapshot(n)
  BY <1>1, TableGrows
<1>3. Snapshots \subseteq Snapshots'
  <2>1. Snapshots = {Static} \cup {Snapshot(n) : n \in 0..Len(table)}
    BY DEF Snapshots, Snapshot, Listed
  <2>2. Snapshots' = {Static} \cup {Snapshot(n)' : n \in 0..Len(table')}
    BY DEF Snapshots, Snapshot, Listed
  <2>3. \A n \in 0..Len(table) : n \in 0..Len(table')
    BY <1>2
  <2> QED
    BY <1>2, <2>1, <2>2, <2>3, Zenon
<1>4. gateway' \in [Gateways -> State']
  <2>1. State \subseteq State'
    BY <1>2, <1>3 DEF State, Unread
  <2> QED
    BY <1>1, <2>1 DEF Inv
<1>5. ASSUME NEW g \in Gateways, gateway[g].pc # "down"
      PROVE  Origin(gateway[g])'
  <2>1. CASE gateway[g].routes = Static
    BY <1>1, <2>1, Zenon DEF Origin
  <2>2. ASSUME NEW n \in 0..Len(table), ResponseAccepted(Listed(n)),
               gateway[g].routes = Snapshot(n), gateway[g].fetched # Unread => n <= gateway[g].fetched
        PROVE  Origin(gateway[g])'
    <3>1. n \in 0..Len(table') /\ Listed(n)' = Listed(n) /\ Snapshot(n)' = Snapshot(n)
      BY <1>2
    <3>2. ResponseAccepted(Listed(n))'
      BY <2>2, <3>1, Zenon DEF ResponseAccepted
    <3> QED
      BY <1>1, <2>2, <3>1, <3>2, Zenon DEF Origin
  <2> QED
    BY <1>5, <2>1, <2>2, Zenon DEF Inv, Origin
<1>6. TypeOK'
  <2>1. \A i \in 1..Len(table') : table'[i].service \in services /\ StoredRoute(table'[i])
    <3>1. \A i \in 1..Len(table') : i \in 1..Len(table) \/ i = Len(table) + 1
      BY <1>2
    <3> QED
      BY <1>1, <1>2, <3>1, Zenon DEF Inv, TypeOK
  <2>2. \A g \in Gateways : gateway[g].pc \in PCs /\ gateway[g].fetched \in Unread..Len(table')
    BY <1>2 DEF Inv, TypeOK, Unread
  <2> QED
    BY <1>1, <2>1, <2>2, Zenon DEF Inv, TypeOK
<1> QED
  BY <1>1, <1>2, <1>4, <1>5, <1>6, Zenon DEF Inv

\* A gateway starts, asks, is answered or gives up.
LEMMA WorkStep ==
  ASSUME Inv, NEW g \in Gateways,
         Start(g) \/ Fire(g) \/ Answer(g) \/ RefreshFails(g) \/ Stop(g)
  PROVE  Inv'
<1> DEFINE s == gateway[g]
<1>1. /\ s \in State /\ (s.pc # "down" => Origin(s)) /\ table \in Seq(Row)
      /\ faults \in 0..MaxFaults /\ MaxFaults \in Nat
  BY FaultAssumption DEF Inv, TypeOK
<1>2. Len(table) \in Nat /\ Unread \in Unread..Len(table) /\ Len(table) \in Unread..Len(table)
  BY <1>1 DEF Unread
<1>3. Static \in Snapshots
  BY DEF Snapshots
<1>4. CASE Start(g)
  <2> DEFINE n == [pc |-> "starting", fetched |-> Unread, routes |-> Static]
  <2>1. n \in State /\ Origin(n)
    BY <1>2, <1>3 DEF State, Origin, PCs
  <2>2. Set(g, n) /\ UNCHANGED database /\ faults' \in 0..MaxFaults
    BY <1>1, <1>4 DEF Start
  <2> HIDE DEF n
  <2> QED
    BY <2>1, <2>2, GatewayStep, Zenon
<1>5. CASE Fire(g)
  <2> DEFINE n == [s EXCEPT !.pc = "fetching"]
  <2>1. n \in State /\ n.routes = s.routes /\ n.fetched = s.fetched /\ s.pc # "down"
    BY <1>1, <1>5, Zenon DEF State, PCs, Fire
  <2>2. Set(g, n) /\ UNCHANGED database /\ faults' \in 0..MaxFaults
    BY <1>1, <1>5, Zenon DEF Fire
  <2> HIDE DEF n
  <2>3. Origin(n)
    BY <1>1, <2>1, Zenon DEF Origin
  <2> QED
    BY <2>1, <2>2, <2>3, GatewayStep, Zenon
<1>6. CASE Answer(g)
  <2> DEFINE n == [s EXCEPT !.fetched = Len(table)]
  <2>1. n \in State /\ n.routes = s.routes /\ n.fetched = Len(table) /\ s.pc # "down"
    BY <1>1, <1>2, <1>6, Zenon DEF State, PCs, Answer
  <2>2. Set(g, n) /\ UNCHANGED database /\ faults' \in 0..MaxFaults
    BY <1>1, <1>6 DEF Answer
  <2> HIDE DEF n
  <2>3. Origin(n)
    <3>1. \A m \in 0..Len(table) : m <= Len(table)
      BY <1>2
    <3> QED
      BY <1>1, <2>1, <3>1, Zenon DEF Origin
  <2> QED
    BY <2>1, <2>2, <2>3, GatewayStep, Zenon
<1>7. CASE RefreshFails(g)
  <2> DEFINE n == [pc |-> "idle", fetched |-> Unread, routes |-> s.routes]
  <2>1. n \in State /\ n.routes = s.routes /\ n.fetched = Unread /\ s.pc # "down"
    BY <1>1, <1>2, <1>7, Zenon DEF State, PCs, RefreshFails
  <2>2. Set(g, n) /\ UNCHANGED database /\ faults' \in 0..MaxFaults
    BY <1>1, <1>7 DEF RefreshFails, KeepRoutes
  <2> HIDE DEF n
  <2>3. Origin(n)
    BY <1>1, <2>1, Zenon DEF Origin
  <2> QED
    BY <2>1, <2>2, <2>3, GatewayStep, Zenon
<1>8. CASE Stop(g)
  <2>1. Down \in State /\ Down.pc = "down" /\ Down.routes = {}
    BY <1>2 DEF Down, State, PCs
  <2>2. Set(g, Down) /\ UNCHANGED database /\ faults' \in 0..MaxFaults
    BY <1>1, <1>8 DEF Stop
  <2> QED
    BY <2>1, <2>2, GatewayStep, Zenon
<1> QED
  BY <1>4, <1>5, <1>6, <1>7, <1>8, Zenon

\* A response arrives: it was read after the one whose routes are served.
LEMMA RefreshStep ==
  ASSUME Inv, NEW g \in Gateways, Refresh(g)
  PROVE  /\ Inv'
         /\ gateway[g].routes # Static => gateway[g].routes \subseteq gateway'[g].routes
         /\ \A h \in Gateways : h # g => gateway'[h] = gateway[h]
<1> DEFINE s == gateway[g]
           m == s.fetched
           accepted == Decodes(Response(g)) /\ ResponseAccepted(Response(g))
           routes == IF accepted THEN ReplaceRoutes(s.routes, Response(g)) ELSE KeepRoutes(s.routes)
           n == [pc |-> "idle", fetched |-> Unread, routes |-> routes]
<1>1. /\ s \in State /\ Origin(s) /\ table \in Seq(Row) /\ m \in 0..Len(table)
      /\ gateway \in [Gateways -> State]
  <2>1. s \in State /\ s.pc # "down" /\ m # Unread
    BY DEF Inv, Refresh
  <2> QED
    BY <2>1 DEF Inv, State, Unread
<1>2. Response(g) = Listed(m)
  BY DEF Response, Listed
<1>3. Set(g, n) /\ UNCHANGED database /\ faults' \in 0..MaxFaults
  BY DEF Refresh, Inv, TypeOK
<1>4. routes = s.routes \/ (ResponseAccepted(Listed(m)) /\ routes = Snapshot(m))
  BY <1>2 DEF ReplaceRoutes, KeepRoutes, Snapshot
<1> HIDE DEF routes
<1>5. Len(table) \in Nat /\ Unread \in Unread..Len(table)
  BY <1>1 DEF Unread
<1>6. Snapshot(m) \in Snapshots
  BY <1>1 DEF Snapshots, Snapshot, Listed
<1>7. n \in State /\ n.routes = routes /\ n.fetched = Unread
  BY <1>1, <1>4, <1>5, <1>6, Zenon DEF State, PCs
<1>8. gateway' = [gateway EXCEPT ![g] = n]
  BY <1>3 DEF Set
<1> HIDE DEF n
<1>9. Origin(n)
  BY <1>1, <1>4, <1>7, Zenon DEF Origin
<1>10. Inv'
  BY <1>3, <1>7, <1>9, GatewayStep, Zenon
<1>11. gateway'[g].routes = routes /\ \A h \in Gateways : h # g => gateway'[h] = gateway[h]
  BY <1>1, <1>7, <1>8, Zenon
<1>12. ASSUME s.routes # Static PROVE s.routes \subseteq routes
  <2>1. PICK k \in 0..Len(table) : s.routes = Snapshot(k) /\ k <= m
    BY <1>1, <1>12, <1>5 DEF Origin, Unread
  <2>2. Snapshot(k) \subseteq Snapshot(m)
    BY <1>1, <2>1, SnapshotsGrow, Zenon
  <2> QED
    BY <1>4, <2>1, <2>2, Zenon
<1> QED
  BY <1>10, <1>11, <1>12, Zenon

LEMMA InitInv == Init => Inv
<1> SUFFICES ASSUME Init PROVE Inv
  OBVIOUS
<1>1. /\ projects = {} /\ services = {} /\ table = <<>> /\ faults = 0
      /\ gateway = [g \in Gateways |-> Down]
  BY DEF Init
<1>2. Len(table) = 0 /\ table \in Seq(Row) /\ 1..Len(table) = {}
  BY <1>1
<1>3. Down \in State /\ Down.pc = "down" /\ Down.routes = {}
  BY <1>2 DEF Down, State, PCs, Unread
<1>4. /\ gateway \in [Gateways -> State]
      /\ \A g \in Gateways : gateway[g].pc = "down" /\ gateway[g].routes = {}
  BY <1>1, <1>3, Zenon
<1>5. TypeOK
  <2>1. \A g \in Gateways : gateway[g].pc \in PCs /\ gateway[g].fetched \in Unread..Len(table)
    BY <1>4 DEF State
  <2>2. faults \in 0..MaxFaults
    BY <1>1, FaultAssumption
  <2> QED
    BY <1>1, <1>2, <1>4, <2>1, <2>2, Zenon DEF TypeOK
<1> QED
  BY <1>2, <1>4, <1>5, Zenon DEF Inv

LEMMA NextInv == Inv /\ [Next]_vars => Inv'
<1> SUFFICES ASSUME Inv, [Next]_vars PROVE Inv'
  OBVIOUS
<1>1. CASE (\E p \in Projects : CreateProject(p)) \/ (\E v \in Services : CreateService(v))
  BY <1>1, CreateStep, Zenon
<1>2. CASE \E i \in Inputs : CreateRoute(i)
  BY <1>2, CreateRouteStep, Zenon
<1>3. ASSUME NEW g \in Gateways, Work(g) \/ RefreshFails(g) \/ Stop(g) PROVE Inv'
  BY <1>3, WorkStep, RefreshStep, Zenon DEF Work
<1>4. CASE UNCHANGED vars
  <2>1. State' = State /\ \A r : Origin(r)' = Origin(r)
    BY <1>4 DEF vars, State, Snapshots, Origin, Listed, Snapshot
  <2> QED
    BY <1>4, <2>1, Zenon DEF vars, Inv, TypeOK
<1> QED
  BY <1>1, <1>2, <1>3, <1>4, Zenon DEF Next

LEMMA Invariant == Spec => []Inv
BY InitInv, NextInv, PTL DEF Spec

----------------------------------------------------------------------------
(* What follows.                                                           *)

\* Every variable keeps its type, every route has a service that exists, and
\* the policies in the table are ones the gateway accepts.
THEOREM RoutesTypeCorrect == Spec => []TypeOK
<1>1. Inv => TypeOK
  BY DEF Inv
<1> QED
  BY <1>1, Invariant, PTL

\* A gateway serves the YAML routes, or the enabled routes of the control plane
\* at one moment, and never a mixture.
THEOREM SnapshotCorrect == Spec => []WholeSnapshot
<1>1. Inv => WholeSnapshot
  BY DEF Inv, WholeSnapshot, Serving, Origin, Snapshots, Snapshot, Listed
<1> QED
  BY <1>1, Invariant, PTL

\* A running gateway loses no route of the control plane that it served:
\* responses are applied in the order in which they were read.
THEOREM KeepsServingCorrect == Spec => KeepsServing
<1> DEFINE Kept == \A g \in Gateways :
             Serving(g) /\ Serving(g)' /\ gateway[g].routes # Static
               => gateway[g].routes \subseteq gateway[g].routes'
<1>1. ASSUME Inv, [Next]_vars PROVE [Kept]_vars
  <2>1. CASE gateway' = gateway
    BY <2>1
  <2>2. ASSUME NEW g \in Gateways, Refresh(g) PROVE Kept
    <3>1. /\ gateway[g].routes # Static => gateway[g].routes \subseteq gateway'[g].routes
          /\ \A h \in Gateways : h # g => gateway'[h] = gateway[h]
      BY <1>1, <2>2, RefreshStep, Zenon
    <3> QED
      BY <3>1
  <2>3. ASSUME NEW g \in Gateways,
               Start(g) \/ Fire(g) \/ Answer(g) \/ RefreshFails(g) \/ Stop(g)
        PROVE  Kept
    <3>1. /\ gateway[g] \in State /\ gateway \in [Gateways -> State]
      BY <1>1 DEF Inv
    <3>2. /\ \A h \in Gateways : h # g => gateway'[h] = gateway[h]
          /\ \/ ~Serving(g) \/ ~Serving(g)' \/ gateway'[g].routes = gateway[g].routes
      BY <2>3, <3>1 DEF Start, Fire, Answer, RefreshFails, Stop, Set, KeepRoutes, Serving, State, Down
    <3> QED
      BY <3>2
  <2> QED
    BY <1>1, <2>1, <2>2, <2>3, Zenon
    DEF Next, Work, CreateProject, CreateService, CreateRoute, vars
<1> QED
  BY <1>1, Invariant, PTL DEF Spec, KeepsServing

----------------------------------------------------------------------------
(* One route for every path.                                               *)

WellFounded == INSTANCE WellFoundedInduction

\* A set of numbers with a bound has a greatest one.
LEMMA MaxOfBounded ==
  ASSUME NEW n \in Nat, NEW S, S \subseteq 0..n, S # {}
  PROVE  Max(S) \in S /\ \A i \in S : i <= Max(S)
<1> DEFINE R == WellFounded!OpToRel(<, Nat)
           T == {n - i : i \in S}
<1>1. T \subseteq Nat /\ T # {}
  <2>1. \A i \in S : n - i \in Nat
    OBVIOUS
  <2> HIDE DEF R
  <2>2. T \subseteq Nat
    BY <2>1, Zenon
  <2>3. T # {}
    BY Zenon
  <2> QED
    BY <2>2, <2>3, Zenon
<1>2. \E x \in T : \A y \in T : ~ (<<y, x>> \in R)
  <2>1. WellFounded!IsWellFoundedOn(R, Nat)
    BY WellFounded!NatLessThanWellFounded, Zenon
  <2> HIDE DEF R, T
  <2> QED
    BY <1>1, <2>1, WellFounded!WFMin, Zenon
<1>3. PICK x \in T : \A y \in T : ~ (y < x)
  BY <1>1, <1>2, Zenon DEF WellFounded!OpToRel
<1>4. PICK i \in S : x = n - i
  OBVIOUS
<1>5. \A k \in S : i >= k
  <2> SUFFICES ASSUME NEW k \in S PROVE i >= k
    OBVIOUS
  <2>1. n - k \in T
    OBVIOUS
  <2>2. ~(n - k < n - i)
    BY <1>3, <1>4, <2>1, Zenon
  <2> QED
    BY <2>2
<1> HIDE DEF T, R
<1> QED
  BY <1>5, Zenon DEF Max

\* What strings.TrimRight leaves: the sequence up to the last other character.
LEMMA Trimmed ==
  ASSUME NEW s \in Seq(STRING)
  PROVE  \E k \in 0..Len(s) : /\ TrimRight(s) = SubSeq(s, 1, k)
                              /\ k > 0 => s[k] # "/"
                              /\ \A i \in 1..Len(s) : s[i] # "/" => i <= k
<1> DEFINE S == {0} \cup {i \in 1..Len(s) : s[i] # "/"}
<1>1. Len(s) \in Nat /\ S \subseteq 0..Len(s) /\ S # {}
  OBVIOUS
<1>2. Max(S) \in S /\ \A i \in S : i <= Max(S)
  <2> HIDE DEF S
  <2> QED
    BY <1>1, MaxOfBounded, Zenon
<1>3. TrimRight(s) = SubSeq(s, 1, Max(S))
  BY DEF TrimRight
<1>4. Max(S) \in 0..Len(s) /\ (Max(S) > 0 => s[Max(S)] # "/")
      /\ \A i \in 1..Len(s) : s[i] # "/" => i <= Max(S)
  BY <1>1, <1>2
<1> QED
  BY <1>3, <1>4, Zenon

\* A prefix as the gateway keeps it: the root, or one without a slash at its end.
Normalized(p) ==
  /\ p \in Seq(STRING)
  /\ p = Slash \/ (Len(p) >= 2 /\ p[Len(p)] # "/")

LEMMA NormalizedPrefix ==
  ASSUME NEW s \in Seq(STRING), IsPrefix(Slash, NormalizePathPrefix(s))
  PROVE  Normalized(NormalizePathPrefix(s))
<1>1. CASE s = Slash
  BY <1>1, Zenon DEF NormalizePathPrefix, Normalized
<1>2. CASE s # Slash
  <2>1. PICK k \in 0..Len(s) : TrimRight(s) = SubSeq(s, 1, k) /\ (k > 0 => s[k] # "/")
    BY Trimmed, Zenon
  <2> DEFINE p == SubSeq(s, 1, k)
  <2>2. NormalizePathPrefix(s) = p
    BY <1>2, <2>1, Zenon DEF NormalizePathPrefix
  <2>3. p \in Seq(STRING) /\ Len(p) = k /\ \A i \in 1..k : p[i] = s[i]
    OBVIOUS
  <2> HIDE DEF p
  <2>4. Len(Slash) = 1 /\ 1 <= Len(p) /\ SubSeq(Slash, 1, 1) = SubSeq(p, 1, 1)
    BY <2>2, Zenon DEF IsPrefix, Slash
  <2>5. p[1] = "/"
    <3>1. SubSeq(Slash, 1, 1)[1] = "/" /\ SubSeq(p, 1, 1)[1] = p[1]
      BY <2>3, <2>4 DEF Slash
    <3> QED
      BY <2>4, <3>1, Zenon
  <2>6. k >= 2 /\ p[k] # "/"
    BY <2>1, <2>3, <2>4, <2>5
  <2> QED
    BY <2>2, <2>3, <2>6, Zenon DEF Normalized
<1> QED
  BY <1>1, <1>2, Zenon

\* One more character.
LEMMA WithSlash ==
  ASSUME NEW T, NEW p \in Seq(T), NEW c \in T
  PROVE  LET q == p \o <<c>>
         IN  q \in Seq(T) /\ Len(q) = Len(p) + 1 /\ \A i \in 1..Len(p) : q[i] = p[i]
<1> DEFINE w == <<c>>
<1>1. w \in Seq(T) /\ Len(w) = 1
  OBVIOUS
<1> HIDE DEF w
<1>2. p \o w \in Seq(T)
  BY <1>1
<1>3. Len(p \o w) = Len(p) + 1
  <2>1. w \in Seq(T)
    BY <1>1, Zenon
  <2>2. Len(p \o w) = Len(p) + Len(w)
    BY <2>1
  <2> QED
    BY <1>1, <2>2, Zenon
<1>4. \A i \in 1..Len(p) : (p \o w)[i] = p[i]
  BY <1>1
<1> QED
  BY <1>2, <1>3, <1>4, Zenon DEF w

\* A path that matches a prefix other than the root begins with it.
LEMMA MatchBegins ==
  ASSUME NEW r, Normalized(r.prefix), r.prefix # Slash,
         NEW path \in Seq(STRING), Matches(r, path)
  PROVE  \A i \in 1..Len(r.prefix) : path[i] = r.prefix[i]
<1> DEFINE p == r.prefix
           q == p \o Slash
<1>1. p \in Seq(STRING) /\ Len(p) \in Nat /\ Len(p) >= 2 /\ p[Len(p)] # "/"
  BY DEF Normalized
<1>2. TrimRight(p) = p
  <2> HIDE DEF p
  <2>1. PICK k \in 0..Len(p) : /\ TrimRight(p) = SubSeq(p, 1, k)
                               /\ \A i \in 1..Len(p) : p[i] # "/" => i <= k
    BY <1>1, Trimmed, Zenon
  <2>2. k = Len(p)
    BY <1>1, <2>1
  <2> QED
    BY <1>1, <2>1, <2>2
<1>3. path = p \/ IsPrefix(q, path)
  BY <1>2, Zenon DEF Matches
<1>4. /\ q \in Seq(STRING \cup {"/"}) /\ Len(q) = Len(p) + 1
      /\ \A i \in 1..Len(p) : q[i] = p[i]
  <2> DEFINE T == STRING \cup {"/"}
             c == "/"
  <2>1. c \in T
    OBVIOUS
  <2> HIDE DEF p
  <2>2. p \in Seq(T)
    BY <1>1
  <2>3. q = p \o <<c>>
    BY DEF Slash
  <2> HIDE DEF T, c, q
  <2>4. q \in Seq(T) /\ Len(q) = Len(p) + 1 /\ \A i \in 1..Len(p) : q[i] = p[i]
    BY <2>1, <2>2, <2>3, WithSlash, Zenon
  <2> QED
    BY <2>4, Zenon DEF T
<1> HIDE DEF p, q
<1>5. ASSUME IsPrefix(q, path), NEW i \in 1..Len(p) PROVE path[i] = p[i]
  <2>1. Len(q) <= Len(path) /\ SubSeq(q, 1, Len(q)) = SubSeq(path, 1, Len(q))
    BY <1>5, Zenon DEF IsPrefix
  <2>2. SubSeq(q, 1, Len(q))[i] = q[i] /\ SubSeq(path, 1, Len(q))[i] = path[i]
    BY <1>1, <1>4, <2>1
  <2> QED
    BY <1>4, <2>1, <2>2, Zenon
<1>6. \A i \in 1..Len(p) : path[i] = p[i]
  BY <1>3, <1>5, Zenon
<1> QED
  BY <1>6, Zenon DEF p

\* Two routes of one length that match one path have one prefix.
LEMMA OnePrefix ==
  ASSUME NEW path \in Seq(STRING), NEW r, NEW s,
         Normalized(r.prefix), Normalized(s.prefix),
         Matches(r, path), Matches(s, path), Len(r.prefix) = Len(s.prefix)
  PROVE  r.prefix = s.prefix
<1>1. Len(Slash) = 1
  BY DEF Slash
<1>2. r.prefix \in Seq(STRING) /\ s.prefix \in Seq(STRING)
  BY DEF Normalized
<1>3. CASE r.prefix = Slash \/ s.prefix = Slash
  BY <1>1, <1>3 DEF Normalized
<1>4. CASE r.prefix # Slash /\ s.prefix # Slash
  <2>1. \A i \in 1..Len(r.prefix) : r.prefix[i] = s.prefix[i]
    BY <1>4, MatchBegins, Zenon
  <2> QED
    BY <1>2, <2>1
<1> QED
  BY <1>3, <1>4, Zenon

\* A snapshot that was accepted has one route for every path.
LEMMA SnapshotResolves ==
  ASSUME table \in Seq(Row), NEW n \in 0..Len(table), ResponseAccepted(Listed(n)),
         NEW path \in Paths,
         NEW r \in ResolveRoute(Snapshot(n), path), NEW s \in ResolveRoute(Snapshot(n), path)
  PROVE  r = s
<1> DEFINE items == Listed(n)
<1>1. \A i \in DOMAIN items : items[i].prefix \in Seq(STRING) /\ "prefix" \in DOMAIN items[i]
  <2>1. \A i \in DOMAIN items : i \in 1..n /\ items[i] = GatewayRoute(table[i])
    BY ListedRows, Zenon
  <2>2. \A i \in 1..n : table[i] \in Row
    OBVIOUS
  <2> HIDE DEF items
  <2>3. \A i \in DOMAIN items : \E row \in Row : items[i] = GatewayRoute(row)
    BY <2>1, <2>2, Zenon
  <2>4. \A row \in Row : GatewayRoute(row).prefix \in Seq(STRING) /\ "prefix" \in DOMAIN GatewayRoute(row)
    BY DEF GatewayRoute, Row
  <2> QED
    BY <2>3, <2>4
<1>2. PICK a \in DOMAIN items : r = ToDomain(items[a])
  BY Zenon DEF ResolveRoute, Snapshot, ResponseToDomain
<1>3. PICK b \in DOMAIN items : s = ToDomain(items[b])
  BY Zenon DEF ResolveRoute, Snapshot, ResponseToDomain
<1>4. r \in Snapshot(n) /\ s \in Snapshot(n) /\ Matches(r, path) /\ Matches(s, path)
      /\ Len(r.prefix) <= Len(s.prefix) /\ Len(s.prefix) <= Len(r.prefix)
  BY Zenon DEF ResolveRoute
<1>5. IsPrefix(Slash, r.prefix) /\ IsPrefix(Slash, s.prefix)
  BY <1>2, <1>3, Zenon DEF ResponseAccepted, RouteAccepted
<1> HIDE DEF items
<1>6. r.prefix = NormalizePathPrefix(items[a].prefix)
      /\ s.prefix = NormalizePathPrefix(items[b].prefix)
  BY <1>1, <1>2, <1>3 DEF ToDomain
<1>7. Normalized(r.prefix) /\ Normalized(s.prefix)
  BY <1>1, <1>5, <1>6, NormalizedPrefix, Zenon
<1>8. Len(r.prefix) = Len(s.prefix)
  BY <1>4, <1>7 DEF Normalized
<1>9. r.prefix = s.prefix
  BY <1>4, <1>7, <1>8, PathAssumption, OnePrefix, Zenon
<1>10. a = b
  BY <1>2, <1>3, <1>9, Zenon DEF ResponseAccepted, items
<1> QED
  BY <1>2, <1>3, <1>10, Zenon

\* The routes of the YAML file, which the gateway does not check, have one
\* route for every path.
StaticResolves == \A path \in Paths : \A r, s \in ResolveRoute(Static, path) : r = s

\* If the YAML file has one route for every path, so has every snapshot that a
\* gateway serves: ResolveRoute never depends on the order of the routes.
THEOREM UnambiguousCorrect ==
  ASSUME StaticResolves
  PROVE  Spec => []Unambiguous
<1>1. Inv => Unambiguous
  <2> SUFFICES ASSUME Inv, NEW g \in Gateways, Serving(g), NEW path \in Paths,
                      NEW r \in ResolveRoute(gateway[g].routes, path),
                      NEW s \in ResolveRoute(gateway[g].routes, path)
               PROVE  r = s
    BY DEF Unambiguous
  <2>1. Origin(gateway[g]) /\ table \in Seq(Row)
    BY DEF Inv, Serving
  <2>2. CASE gateway[g].routes = Static
    BY <2>2, Zenon DEF StaticResolves
  <2>3. ASSUME NEW n \in 0..Len(table), ResponseAccepted(Listed(n)),
               gateway[g].routes = Snapshot(n)
        PROVE  r = s
    BY <2>1, <2>3, SnapshotResolves, Zenon
  <2> QED
    BY <2>1, <2>2, <2>3, Zenon DEF Origin
<1> QED
  BY <1>1, Invariant, PTL
====
