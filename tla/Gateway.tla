---- MODULE Gateway ----
(***************************************************************************)
(* A request through the gateway: resolve its route, validate its API key  *)
(* in the auth service, count it in Redis, and proxy it.  The requests may *)
(* be in different gateway processes, which share nothing but the auth     *)
(* service's table and Redis; keys are created and revoked beside them.    *)
(* All processes read one clock.                                           *)
(***************************************************************************)
EXTENDS FixedWindow, FiniteSets

CONSTANTS Requests,    \* requests, each made once
          Routes,      \* the gateway's snapshot: [name, project, auth, limit, window]
          Keys,        \* API keys
          Projects,
          Null,        \* no route, no key, no expiry
          KeyLife,     \* the lifetimes a key may be created with
          Configured,  \* the optional services with a URL: "auth", "redis"
          MaxTime      \* bound: the clock stops here

\* A policy that is off has limit 0, as toRateLimitPolicy makes it; the window
\* of one that is on is positive.
ASSUME RouteAssumption ==
  \A route \in Routes :
    route.auth \in BOOLEAN /\ route.limit \in Nat /\ (route.limit > 0 => route.window \in Nat \ {0})

\* The name stands for project, name and prefix, which CheckRateLimit joins; a
\* snapshot has no prefix twice (Unambiguous of RouteSync).
ASSUME NameAssumption == \A a, b \in Routes : a.name = b.name => a = b
ASSUME RequestsAssumption == IsFiniteSet(Requests)
ASSUME NullAssumption == Null \notin Routes \cup Keys \cup Nat
ASSUME LifeAssumption == KeyLife \subseteq Nat \cup {Null}
ASSUME ConfiguredAssumption == Configured \subseteq {"auth", "redis"}
ASSUME TimeAssumption == MaxTime \in Nat

VARIABLES clock,
          keys,      \* api_keys: key -> row, for the rows there are
          counters,  \* Redis: <<route, client, window>> -> counter
          req,       \* request -> its state
          barred     \* request -> keys revoked before it was authorized

vars == <<clock, keys, counters, req, barred>>

\* A request's place in proxyRequest:
\*   new       not made yet
\*   validate  the auth service is about to read the key
\*   touch     the key was active, last_used_at is about to be set
\*   limit     authorized, about to check the rate limit
\*   eval      the script is on its way to Redis
\*   verdict   the script has run, its result is on its way back
\*   proxy     about to be proxied
\*   done      answered
PCs == {"new", "validate", "touch", "limit", "eval", "verdict", "proxy", "done"}

Unauthorized == {"new", "validate", "touch"}

Fresh == [pc |-> "new", route |-> Null, key |-> Null, now |-> 0,
          ran |-> Null, late |-> FALSE, count |-> 0, status |-> 0]

Init ==
  /\ clock = 0
  /\ keys = [k \in {} |-> Null]
  /\ counters = [c \in {} |-> NoCounter]
  /\ req = [r \in Requests |-> Fresh]
  /\ barred = [r \in Requests |-> {}]

Set(r, state) == req' = [req EXCEPT ![r] = state]
Goto(r, pc) == Set(r, [req[r] EXCEPT !.pc = pc])
Answer(r, status) == Set(r, [req[r] EXCEPT !.pc = "done", !.status = status])

\* An answer before the request has been counted: the rest is forgotten.
Refused(status) == [Fresh EXCEPT !.pc = "done", !.status = status]

----------------------------------------------------------------------------
(* The auth service's key table.                                           *)

\* CreateAPIKey; an expiry that is not in the future is refused.
CreateAPIKey(k) ==
  /\ k \notin DOMAIN keys
  /\ \E p \in Projects, life \in KeyLife :
       /\ life # Null => life > 0
       /\ keys' = [j \in DOMAIN keys \cup {k} |->
                     IF j # k THEN keys[j]
                     ELSE [project |-> p, enabled |-> TRUE,
                           expires |-> IF life = Null THEN Null ELSE clock + life]]
  /\ UNCHANGED <<clock, counters, req, barred>>

\* DisableAPIKey: the key of another project is not found.
RevokeAPIKey(k, p) ==
  /\ k \in DOMAIN keys
  /\ keys[k].project = p
  /\ keys' = [keys EXCEPT ![k].enabled = FALSE]
  /\ barred' = [r \in Requests |->
                  IF req[r].pc \in Unauthorized THEN barred[r] \cup {k} ELSE barred[r]]
  /\ UNCHANGED <<clock, counters, req>>

IsActive(row, now) == row.enabled /\ (row.expires = Null \/ now < row.expires)

----------------------------------------------------------------------------
(* Authorization.                                                          *)

\* ResolveRoute, and AuthorizeRoute up to its call of the auth service.
Arrive(r) ==
  /\ req[r].pc = "new"
  /\ \E route \in Routes \cup {Null}, key \in Keys \cup {Null} :
       Set(r, IF route = Null THEN Refused(404)
              ELSE IF ~route.auth THEN [Fresh EXCEPT !.pc = "limit", !.route = route]
              ELSE IF key = Null THEN Refused(401)
              ELSE IF "auth" \notin Configured THEN Refused(503)
              ELSE [Fresh EXCEPT !.pc = "validate", !.route = route, !.key = key])
  /\ UNCHANGED <<clock, keys, counters, barred>>

\* GetAPIKeyByPrefix and IsActive.
Validate(r) ==
  /\ req[r].pc = "validate"
  /\ IF req[r].key \in DOMAIN keys /\ IsActive(keys[req[r].key], clock)
     THEN Goto(r, "touch")
     ELSE Set(r, Refused(401))
  /\ UNCHANGED <<clock, keys, counters, barred>>

\* Mutant: last_used_at is set whether the key is enabled or not.
TouchedAlways(k) == k \in DOMAIN keys

\* updateAPIKeyLastUsedAtQuery finds its row.
Touched(k) == k \in DOMAIN keys /\ keys[k].enabled

\* UpdateAPIKeyLastUsedAt; then, in the gateway, the project of the principal.
UpdateLastUsed(r) ==
  /\ req[r].pc = "touch"
  /\ IF ~Touched(req[r].key) THEN Set(r, Refused(401))
     ELSE IF keys[req[r].key].project # req[r].route.project THEN Set(r, Refused(403))
     ELSE Goto(r, "limit")
  /\ UNCHANGED <<clock, keys, counters, barred>>

\* The auth service fails or does not answer in time.
AuthFails(r) ==
  /\ req[r].pc \in {"validate", "touch"}
  /\ Set(r, Refused(503))
  /\ UNCHANGED <<clock, keys, counters, barred>>

----------------------------------------------------------------------------
(* Rate limiting.                                                          *)

\* rateLimitClientID: the key of a protected route, else the one address the
\* requests come from.
Client(r) == IF req[r].route.auth THEN req[r].key ELSE "ip"

CounterKey(r) ==
  <<req[r].route.name, Client(r), CurrentWindow(req[r].now, req[r].route.window)>>

\* Without REDIS_URL the usecase holds a nil *Limiter in a non-nil interface:
\* Allow panics, and the Recover middleware answers.
CheckRateLimit(r) ==
  /\ req[r].pc = "limit"
  /\ IF req[r].route.limit = 0 THEN Goto(r, "proxy")
     ELSE IF "redis" \notin Configured THEN Answer(r, 500)
     ELSE Set(r, [req[r] EXCEPT !.pc = "eval", !.now = clock])
  /\ UNCHANGED <<clock, keys, counters, barred>>

CounterNow(c) == IF c \in DOMAIN counters THEN counters[c] ELSE NoCounter

\* The counter of a request after the script.
Counted(r) ==
  FixedWindowScript(CounterNow(CounterKey(r)), TTL(req[r].now, req[r].route.window), clock)

\* Redis runs the script.
RunScript(r) ==
  counters' = [c \in DOMAIN counters \cup {CounterKey(r)} |->
                 IF c = CounterKey(r) THEN Counted(r) ELSE counters[c]]

Eval(r) ==
  /\ req[r].pc = "eval"
  /\ RunScript(r)
  /\ Set(r, [req[r] EXCEPT !.pc = "verdict", !.ran = clock, !.count = Counted(r).count])
  /\ UNCHANGED <<clock, keys, barred>>

\* The script of a request that has stopped waiting for it.
LateEval(r) ==
  /\ req[r].late
  /\ RunScript(r)
  /\ Set(r, [req[r] EXCEPT !.late = FALSE, !.ran = clock])
  /\ UNCHANGED <<clock, keys, barred>>

Verdict(r) ==
  /\ req[r].pc = "verdict"
  /\ IF Allowed(req[r].count, req[r].route.limit)
     THEN Goto(r, "proxy")
     ELSE Answer(r, 429)
  /\ UNCHANGED <<clock, keys, counters, barred>>

\* Redis fails or its answer does not arrive in time: fail-open, whether the
\* script has run, never will, or will only run later.
LimiterFails(r) ==
  /\ req[r].pc \in {"eval", "verdict"}
  /\ \E late \in BOOLEAN :
       /\ late => req[r].pc = "eval"
       /\ Set(r, [req[r] EXCEPT !.pc = "proxy", !.count = 0, !.late = late])
  /\ UNCHANGED <<clock, keys, counters, barred>>

----------------------------------------------------------------------------

\* ServeHTTP; 200 stands for what the upstream answers, and for the 502 of the
\* ErrorHandler.
Proxy(r) ==
  /\ req[r].pc = "proxy"
  /\ Answer(r, 200)
  /\ UNCHANGED <<clock, keys, counters, barred>>

Tick ==
  /\ clock < MaxTime
  /\ clock' = clock + 1
  /\ UNCHANGED <<keys, counters, req, barred>>

Next ==
  \/ \E k \in Keys : CreateAPIKey(k) \/ \E p \in Projects : RevokeAPIKey(k, p)
  \/ \E r \in Requests :
       \/ Arrive(r) \/ Validate(r) \/ UpdateLastUsed(r) \/ AuthFails(r)
       \/ CheckRateLimit(r) \/ Eval(r) \/ LateEval(r) \/ Verdict(r) \/ LimiterFails(r) \/ Proxy(r)
  \/ Tick

Spec == Init /\ [][Next]_vars

----------------------------------------------------------------------------
(* Properties.                                                             *)

\* Every variable has its type; a counter in Redis always has a time to expire.
TypeOK ==
  /\ clock \in 0..MaxTime
  /\ \A k \in DOMAIN keys :
       k \in Keys /\ keys[k] \in [project : Projects, enabled : BOOLEAN, expires : Nat \cup {Null}]
  /\ \A c \in DOMAIN counters : counters[c] \in [count : Nat \ {0}, until : Nat]
  /\ req \in [Requests -> [pc : PCs, route : Routes \cup {Null}, key : Keys \cup {Null},
                           now : 0..MaxTime, ran : 0..MaxTime \cup {Null}, late : BOOLEAN,
                           count : Nat, status : {0, 200, 401, 403, 404, 429, 500, 503}]]
  /\ barred \in [Requests -> SUBSET Keys]

Admitted(r) == req[r].pc = "proxy" \/ req[r].status = 200

\* A request that reaches the upstream of a protected route carries a key of
\* the route's project, and that key had not been revoked when the auth
\* service answered: the revocation may fall between its two statements.
OnlyAuthorized ==
  \A r \in Requests : Admitted(r) /\ req[r].route.auth =>
    /\ req[r].key \in DOMAIN keys
    /\ keys[req[r].key].project = req[r].route.project
    /\ req[r].key \notin barred[r]

\* The requests that Redis counted for a counter before the window was over.
InTime(c) ==
  {r \in Requests : /\ req[r].ran # Null
                    /\ CounterKey(r) = c
                    /\ req[r].ran < WindowEnd(c[3], req[r].route.window)}

\* Of the requests of one client counted within a window, at most the limit
\* are let through: no rounding of the TTL drops the counter before the
\* window is over.  A request whose script runs after the end of its window
\* finds a new counter, and one that Redis does not answer is let through.
WithinLimit ==
  \A c \in DOMAIN counters :
    LET allowed == {r \in InTime(c) : Admitted(r) /\ req[r].count > 0}
    IN  \A r \in allowed : Cardinality(allowed) <= req[r].route.limit

\* 429 is honest: at least the limit of other requests of the same client were
\* counted in the same window.
RefusedOverLimit ==
  \A r \in Requests : req[r].status = 429 =>
    req[r].route.limit <=
      Cardinality({s \in Requests \ {r} : req[s].ran # Null /\ CounterKey(s) = CounterKey(r)})

\* A route that asks for a limit is still served when the limiter cannot
\* decide: no request ends with an internal error.
FailsOpen == \A r \in Requests : req[r].status # 500
====
