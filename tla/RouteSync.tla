---- MODULE RouteSync ----
(***************************************************************************)
(* Routes on their way from the control plane to the gateways: projects,   *)
(* services and routes are created in PostgreSQL, and every gateway loads  *)
(* the enabled routes when it starts and at every tick of its refresh      *)
(* timer, replacing its snapshot as a whole.  Until its first success it   *)
(* serves the routes of its YAML file.                                     *)
(*                                                                         *)
(* The repository has no operation that updates or deletes a route, so the *)
(* table only grows and a gateway's response is an initial part of it.     *)
(***************************************************************************)
EXTENDS RouteTable

CONSTANTS Gateways,
          Projects,
          Services,   \* services a client may ask for
          Inputs,     \* routes a client may ask for
          Static,     \* the routes of the YAML file
          Paths,      \* request paths
          MaxRoutes,  \* the routes that fit into maxResponseSize
          MaxFaults   \* bound: failed refreshes and gateway restarts

ASSUME FaultAssumption == {MaxRoutes, MaxFaults} \subseteq Nat
ASSUME ServiceAssumption ==
  Services \subseteq [id : Nat, project : Projects, scheme : STRING, base : Seq(STRING)]
ASSUME InputAssumption ==
  Inputs \subseteq [service : Services, name : STRING, prefix : Seq(STRING), strip : BOOLEAN,
                   timeout : Int, enabled : BOOLEAN, limit : Policy]
ASSUME PathAssumption == Paths \subseteq Seq(STRING)

VARIABLES projects,  \* the projects table
          services,  \* the services table
          table,     \* the routes table, in the order of creation
          gateway,   \* gateway -> [pc, fetched, routes]
          faults     \* failures so far

vars == <<projects, services, table, gateway, faults>>
database == <<projects, services, table>>

\* A gateway's place:
\*   down      not running
\*   starting  in the refresh of Run, before the server listens
\*   idle      waiting for the ticker
\*   fetching  the ticker has fired, ListRoutes waits for the response
\* fetched is the length of the table its response was read from, or -1 while
\* the control plane has not run the query yet.
PCs == {"down", "starting", "idle", "fetching"}

Unread == -1

Down == [pc |-> "down", fetched |-> Unread, routes |-> {}]

Init ==
  /\ projects = {}
  /\ services = {}
  /\ table = <<>>
  /\ gateway = [g \in Gateways |-> Down]
  /\ faults = 0

----------------------------------------------------------------------------
(* The control plane.                                                      *)

CreateProject(p) ==
  /\ p \notin projects
  /\ projects' = projects \cup {p}
  /\ UNCHANGED <<services, table, gateway, faults>>

CreateService(s) ==
  /\ ServiceValid(s)
  /\ s.project \in projects
  /\ s \notin services
  /\ services' = services \cup {s}
  /\ UNCHANGED <<projects, table, gateway, faults>>

CreateRoute(input) ==
  /\ RouteValid(input)
  /\ input.service \in services
  /\ \A i \in 1..Len(table) : ~Conflicts(NewRoute(input), table[i])
  /\ table' = Append(table, NewRoute(input))
  /\ UNCHANGED <<projects, services, gateway, faults>>

----------------------------------------------------------------------------
(* The gateway.                                                            *)

Set(g, state) == gateway' = [gateway EXCEPT ![g] = state]

\* Run loads the YAML file and calls RefreshRoutes.
Start(g) ==
  /\ gateway[g].pc = "down"
  /\ Set(g, [pc |-> "starting", fetched |-> Unread, routes |-> Static])
  /\ UNCHANGED <<database, faults>>

\* The ticker fires.
Fire(g) ==
  /\ gateway[g].pc = "idle"
  /\ Set(g, [gateway[g] EXCEPT !.pc = "fetching"])
  /\ UNCHANGED <<database, faults>>

\* The control plane answers GET /internal/.../routes.
Answer(g) ==
  /\ gateway[g].pc \in {"starting", "fetching"}
  /\ gateway[g].fetched = Unread
  /\ Set(g, [gateway[g] EXCEPT !.fetched = Len(table)])
  /\ UNCHANGED <<database, faults>>

Response(g) == ListGatewayRoutes(SubSeq(table, 1, gateway[g].fetched))

\* Mutant: the snapshot is added to the old one.
ReplaceRoutesMerges(old, response) == old \cup ResponseToDomain(response)

\* RefreshRoutes after ListRoutes has returned routes.
ReplaceRoutes(old, response) == ResponseToDomain(response)

\* Mutant: after an error the YAML routes come back.
KeepRoutesFallback(old) == Static

\* RefreshRoutes after an error.
KeepRoutes(old) == old

\* ListRoutes: a response that the LimitReader cuts does not decode.
Decodes(response) == Cardinality(DOMAIN response) <= MaxRoutes

\* The response arrives; it is refused as a whole, or replaces the snapshot.
Refresh(g) ==
  /\ gateway[g].pc \in {"starting", "fetching"}
  /\ gateway[g].fetched # Unread
  /\ Set(g, [pc |-> "idle", fetched |-> Unread,
             routes |-> IF Decodes(Response(g)) /\ ResponseAccepted(Response(g))
                        THEN ReplaceRoutes(gateway[g].routes, Response(g))
                        ELSE KeepRoutes(gateway[g].routes)])
  /\ UNCHANGED <<database, faults>>

\* The control plane cannot be reached, answers late or not with 200.
RefreshFails(g) ==
  /\ gateway[g].pc \in {"starting", "fetching"}
  /\ Set(g, [pc |-> "idle", fetched |-> Unread, routes |-> KeepRoutes(gateway[g].routes)])
  /\ faults < MaxFaults
  /\ faults' = faults + 1
  /\ UNCHANGED database

Stop(g) ==
  /\ gateway[g].pc # "down"
  /\ Set(g, Down)
  /\ faults < MaxFaults
  /\ faults' = faults + 1
  /\ UNCHANGED database

Work(g) == Start(g) \/ Fire(g) \/ Answer(g) \/ Refresh(g)

Next ==
  \/ \E p \in Projects : CreateProject(p)
  \/ \E s \in Services : CreateService(s)
  \/ \E i \in Inputs : CreateRoute(i)
  \/ \E g \in Gateways : Work(g) \/ RefreshFails(g) \/ Stop(g)

Spec == Init /\ [][Next]_vars

\* The ticker fires again and again, the HTTP client's timeout ends every call,
\* and Kubernetes restarts a gateway.  No client is obliged to create anything.
FairSpec == Spec /\ \A g \in Gateways : WF_vars(Work(g))

----------------------------------------------------------------------------
(* Properties.                                                             *)

\* A row as NewRoute and the CHECKs of the table leave it.
StoredRoute(row) ==
  IsPrefix(Slash, row.prefix) /\ row.timeout > 0 /\ PolicyAccepted(row.limit)

\* Every variable has its type.  A service belongs to a project that exists; a
\* route of the table to such a service, and it is as NewRoute leaves it; a
\* route a gateway holds is one of its file or one that toDomain accepts.
TypeOK ==
  /\ projects \subseteq Projects
  /\ services \subseteq Services
  /\ \A s \in services : s.project \in projects /\ ServiceValid(s)
  /\ \A i \in 1..Len(table) : table[i].service \in services /\ StoredRoute(table[i])
  /\ \A g \in Gateways : /\ gateway[g].pc \in PCs
                         /\ gateway[g].fetched \in Unread..Len(table)
                         /\ \A r \in gateway[g].routes : r \in Static \/ RouteAccepted(r)
  /\ faults \in 0..MaxFaults

\* The snapshots a gateway may hold: the YAML routes, or the enabled routes of
\* the control plane at one moment.
Snapshots ==
  {Static} \cup {ResponseToDomain(ListGatewayRoutes(SubSeq(table, 1, n))) : n \in 0..Len(table)}

Serving(g) == gateway[g].pc \in {"idle", "fetching"}

\* A gateway never serves a mixture: neither of two responses nor of a
\* response and the YAML file, whatever fails in between.
WholeSnapshot == \A g \in Gateways : Serving(g) => gateway[g].routes \in Snapshots

\* For every path at most one route has the longest prefix, so the choice of
\* ResolveRoute does not depend on the order of the routes.
Unambiguous ==
  \A g \in Gateways : Serving(g) =>
    \A path \in Paths : \A r, s \in ResolveRoute(gateway[g].routes, path) : r = s

\* The names between the slashes of a path, in their order.
Segments(path) ==
  LET starts == {i \in 1..Len(path) : path[i] # "/" /\ (i = 1 \/ path[i - 1] = "/")}
      ends == {i \in 1..Len(path) : path[i] # "/" /\ (i = Len(path) \/ path[i + 1] = "/")}
      order == SetToSortSeq(starts, <)
  IN  [n \in 1..Len(order) |-> SubSeq(path, order[n], Min({e \in ends : e >= order[n]}))]

\* A proxied request reaches the upstream at the names of the service's URL
\* followed by those of its own path, less those of the prefix if the route
\* strips it: matching, stripping and joining never split a name, lose one or
\* glue two together, wherever the slashes are.
RewritesNames ==
  \A g \in Gateways : Serving(g) =>
    \A path \in Paths : \A r \in ResolveRoute(gateway[g].routes, path) :
      LET stripped == IF r.strip THEN Len(Segments(r.prefix)) ELSE 0
      IN  /\ IsPrefix(Segments(r.prefix), Segments(path))
          /\ Segments(ProxyPath(r, path)) =
               Segments(r.base) \o SubSeq(Segments(path), stripped + 1, Len(Segments(path)))

\* A running gateway that has left the YAML routes never goes back: a refresh
\* that fails, is refused or overtaken loses no route it served before.
KeepsServing ==
  [][\A g \in Gateways :
       Serving(g) /\ Serving(g)' /\ gateway[g].routes # Static
         => gateway[g].routes \subseteq gateway[g].routes']_vars

\* An enabled route of the table is served by g.
Served(i, g) ==
  i \in 1..Len(table) =>
    \/ ~table[i].enabled
    \/ ResponseToDomain(ListGatewayRoutes(<<table[i]>>)) \subseteq gateway[g].routes

\* What an operator must keep to: http upstreams, prefixes that differ by more
\* than their trailing slashes, and no more routes than a response can hold.
WellKept ==
  LET on == {i \in 1..Len(table) : table[i].enabled}
  IN  /\ \A i \in on : /\ table[i].service.scheme \in {"http", "https"}
                       /\ NormalizePathPrefix(table[i].prefix) # <<>>
      /\ \A i, j \in on :
           NormalizePathPrefix(table[i].prefix) = NormalizePathPrefix(table[j].prefix) => i = j
      /\ Cardinality(on) <= MaxRoutes

\* Every gateway picks up every enabled route, or the table is not well kept:
\* nothing else the control plane accepts is refused by the gateway.
PickedUpIfWellKept ==
  \A g \in Gateways : \A i \in 1..Cardinality(Inputs) :
    (i \in 1..Len(table)) ~> (Served(i, g) \/ ~WellKept)

\* Every gateway picks up every enabled route the control plane has accepted,
\* as the README says of a route that has been created.
PickedUp ==
  \A g \in Gateways : \A i \in 1..Cardinality(Inputs) :
    (i \in 1..Len(table)) ~> Served(i, g)
====
