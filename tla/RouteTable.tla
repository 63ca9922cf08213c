---- MODULE RouteTable ----
(***************************************************************************)
(* What the control plane accepts as a project, a service and a route, what*)
(* the gateway accepts as a snapshot of routes, and the path that a proxied*)
(* request has upstream, as operators.                                     *)
(*                                                                         *)
(* A path, or a path prefix, is the sequence of its characters: where      *)
(* slashes are and are not is what these functions are about.  A service   *)
(* is [id, project, scheme, base], its upstream URL being                  *)
(* scheme://host<base>; a rate limit is [on, requests, window].            *)
(***************************************************************************)
EXTENDS Integers, Sequences, SequencesExt

Slash == <<"/">>

Policy == [on : BOOLEAN, requests : Int, window : Int]

\* strings.TrimRight(s, "/") and strings.TrimPrefix.
TrimRight(s) == SubSeq(s, 1, Max({0} \cup {i \in 1..Len(s) : s[i] # "/"}))

TrimPrefix(s, prefix) ==
  IF IsPrefix(prefix, s) THEN SubSeq(s, Len(prefix) + 1, Len(s)) ELSE s

----------------------------------------------------------------------------
(* The control plane.                                                      *)

DefaultRouteTimeoutMS == 3000

\* domain.NewService: some scheme and some host.
ServiceValid(s) == s.scheme # ""

\* NewRateLimitPolicy: a policy that is off loses its numbers.
RateLimitValid(limit) == limit.on => limit.requests > 0 /\ limit.window > 0

\* Mutant: the numbers of a policy that is off stay.
NewRateLimitPolicyVerbatim(limit) == limit

NewRateLimitPolicy(limit) ==
  IF limit.on THEN limit ELSE [on |-> FALSE, requests |-> 0, window |-> 0]

\* domain.NewRoute refuses the others with 400.
RouteValid(input) ==
  /\ IsPrefix(Slash, input.prefix)
  /\ RateLimitValid(input.limit)

\* Mutant: a missing timeout is stored as it is.
NewRouteNoDefault(input) == [input EXCEPT !.limit = NewRateLimitPolicy(@)]

NewRoute(input) ==
  [input EXCEPT !.limit = NewRateLimitPolicy(@),
                !.timeout = IF @ <= 0 THEN DefaultRouteTimeoutMS ELSE @]

\* UNIQUE(service_id, name) and UNIQUE(service_id, path_prefix).
Conflicts(row, other) ==
  /\ row.service = other.service
  /\ row.name = other.name \/ row.prefix = other.prefix

\* An item of the response: a route and its service.
GatewayRoute(row) ==
  [project |-> row.service.project, name |-> row.name, prefix |-> row.prefix,
   scheme |-> row.service.scheme, base |-> row.service.base, strip |-> row.strip,
   timeout |-> row.timeout, limit |-> row.limit]

\* ListGatewayRoutes: one item for every enabled row, also where two rows have
\* equal items; the place of a row in the table stands for its id.
ListGatewayRoutes(table) ==
  [i \in {i \in 1..Len(table) : table[i].enabled} |-> GatewayRoute(table[i])]

----------------------------------------------------------------------------
(* The gateway: what it accepts.                                           *)

NormalizePathPrefix(prefix) == IF prefix = Slash THEN prefix ELSE TrimRight(prefix)

\* toRateLimitPolicy.
PolicyAccepted(limit) ==
  IF limit.on THEN limit.requests > 0 /\ limit.window > 0
              ELSE limit.requests = 0 /\ limit.window = 0

\* toDomain: the route, and the conditions on it.
ToDomain(item) == [item EXCEPT !.prefix = NormalizePathPrefix(@)]

RouteAccepted(route) ==
  /\ IsPrefix(Slash, route.prefix)
  /\ route.scheme \in {"http", "https"}
  /\ route.timeout > 0
  /\ PolicyAccepted(route.limit)

\* Mutant: prefixes are compared as they were sent.
ResponseAcceptedRaw(response) ==
  /\ \A i \in DOMAIN response : RouteAccepted(ToDomain(response[i]))
  /\ \A i, j \in DOMAIN response : response[i].prefix = response[j].prefix => i = j

\* responseToDomain: one bad item, or one prefix twice, refuses the snapshot.
ResponseAccepted(response) ==
  /\ \A i \in DOMAIN response : RouteAccepted(ToDomain(response[i]))
  /\ \A i, j \in DOMAIN response :
       ToDomain(response[i]).prefix = ToDomain(response[j]).prefix => i = j

ResponseToDomain(response) == {ToDomain(response[i]) : i \in DOMAIN response}

----------------------------------------------------------------------------
(* The gateway: which route a path takes, and where to.                    *)

\* Mutant: a prefix need not end at a slash of the path.
MatchesAnywhere(route, path) == IsPrefix(TrimRight(route.prefix), path)

\* Route.Matches: the prefix itself, or the prefix and a slash, begin the path.
Matches(route, path) ==
  \/ route.prefix = Slash
  \/ path = TrimRight(route.prefix)
  \/ IsPrefix(TrimRight(route.prefix) \o Slash, path)

\* ResolveRoute: the routes it may return for a path; more than one if the
\* choice depends on their order.
ResolveRoute(routes, path) ==
  {r \in routes : /\ Matches(r, path)
                  /\ \A other \in routes :
                       Matches(other, path) => Len(other.prefix) <= Len(r.prefix)}

\* Route.UpstreamPath.
UpstreamPath(route, path) ==
  LET rest == TrimPrefix(path, TrimRight(route.prefix))
  IN  IF ~route.strip THEN path
      ELSE IF IsPrefix(Slash, rest) THEN rest
      ELSE Slash \o rest

\* joinPaths.
JoinPaths(a, b) ==
  IF a = <<>> \/ b = <<>> THEN a \o b
  ELSE IF IsSuffix(Slash, a) /\ IsPrefix(Slash, b) THEN a \o Tail(b)
  ELSE IF ~IsSuffix(Slash, a) /\ ~IsPrefix(Slash, b) THEN a \o Slash \o b
  ELSE a \o b

\* The path the Director gives the upstream request.
ProxyPath(route, path) == JoinPaths(route.base, UpstreamPath(route, path))
====
