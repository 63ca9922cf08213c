# Verification of EdgeGuard

TLA+ modules beside the Go services of EdgeGuard: the background-job pipeline and
the execution of jobs, the access-event analytics, sessions and access tokens,
the distribution of routes, and the request path of the gateway. TLC checks them
on small instances; TLAPS proves nearly all of their safety for every value of the
constants, and the two refinements. Liveness and two properties that compute with
sums and with sequences are left to TLC.

## 1. The system

| part | code (`internal/`) | state | operations | talks to |
|---|---|---|---|---|
| control plane, catalogue | `controlplane` | tables `projects`, `services`, `routes` | create, list | PostgreSQL, gateways poll it |
| control plane, jobs | `jobs` | table `background_jobs`, publisher channel and its mutex | submit webhook/report/cleanup, get | PostgreSQL, RabbitMQ |
| job worker | `jobworker` | deliveries in hand, policy on the queue | take, prepare, execute, record, settle | RabbitMQ, PostgreSQL, webhooks, report files |
| auth, sessions | `auth` | tables `users`, `refresh_tokens` | register, login, refresh, logout, guard of the API key routes | PostgreSQL |
| auth, API keys | `auth` | table `api_keys` | create, list, revoke, validate | PostgreSQL, gateways call it |
| gateway, routes | `gateway` | in-memory snapshot | start, refresh, resolve | control plane |
| gateway, requests | `gateway` | Redis counters | resolve, authorize, limit, proxy, publish event | auth, Redis, Kafka, upstream |
| analytics worker | `analytics` | offsets, tables `gateway_access_events`, `gateway_route_stats_hourly` | consume, store, query | Kafka, PostgreSQL |
| platform, demo, config | `platform`, `demo` | none that matters here | | |

What makes it hard: a request context that is cancelled in the middle of a
submission; publisher confirmations that come late, negative or never; a worker
that goes on executing after RabbitMQ gave its delivery to another; statements
that are applied although they report an error; a statement whose SELECT reads an
older snapshot than its upsert; a Kafka partition that moves while its record is
being stored; a report published by two executions at once or lost with the
power; several handlers that present the same refresh token; access tokens that
outlive the user's rights; a revocation between two statements of one validation;
three truncations to milliseconds in one rate limiter, whose script may run after
the gateway has given up on it; one bad route that refuses a whole snapshot. `hazards` in
`PROJECT.json` lists each at its line.

## 2. Modules

```
JobTable ── Jobs ──(refines)── JobLifecycle
              └ JobsProofs ── JobsSafety ── JobsRefinement
HourlyStats ┬ AccessPipeline ──(refines)── Ledger
            │     └ LedgerRefinement
            └ JobExecution ── JobExecutionProofs
Sessions ── AccessTokens ── SessionsProofs
RouteTable ── RouteSync ── RouteSyncProofs
FixedWindow ── Gateway ── GatewayProofs
MC<module>: instances for TLC
```

A module of operators (JobTable, HourlyStats, RouteTable, FixedWindow) translates
statements, queries and pure functions; the module over it has the processes.

### Jobs: submission, broker and workers

* `JobTable`: one operator per statement of `jobs/infrastructure/postgres/jobs.go`,
  each from a row to a row with the WHERE clause as its condition.
* `Jobs`: `req[j]` is the request that submits `j`, at a `phase` of `submit`;
  `pub` the `Publisher` with its mutex; `msg[j]` the broker's message; `wk[w]` the
  worker at a step of `handleDelivery`; `inbox[w]` what it has prefetched.
  `Snapshot` and `Upsert` are the two reads of `PrepareAttempt`, which is one
  statement but sees two states. `Persist` records the outcome; `Ack`, `Reject`,
  `Requeue` settle. A statement may fail applied or not; a client may go away
  (`Cancel`), a channel or connection close, either process stop and restart.
  `Foreign` jobs have messages from other producers, decodable or not.
  `runs`, `returns` and the field `late` of a worker are history.
* `JobLifecycle`: what the API promises of a job. Its status moves along the
  arrows, never leaves a final status, and its message leaves the queue once, by
  the door the status names. `Jobs` refines it (`ImplementsLifecycle`).

External: RabbitMQ's quorum queue, confirmations, delivery counts and dead
letters. Delayed retry is a message that is ready and delivered at any time.

### JobExecution: reports and webhooks

`Jobs` chooses an outcome for an execution; here are the steps that lead to it.
`exec[w]` is at a step of `Process`: the checks of the payload, then for a report
the query, `CreateTemp`, the writes, `Sync`, `Close` and `Rename`, any of which may
fail, and for a webhook the check of the URL, the lookup, the check of every
address, the dial and the answer, whose status is whatever net/http lets through
(any three digits; of the informational ones only 101). The dialer's comparison of
hosts fails for a name that is not ASCII, which net/http dials in another spelling
(`Respelled`). `file` has what the processes see and what is on disk: a file is `synced`
or not, and after `PowerLoss` a name refers to one of the `lasting` files, whole
only if it was synced. Two executions of one job overlap as the two workers of
`Jobs` may. Reports query the same hourly table as the statistics API, which new
events change meanwhile. The cleanup's DELETE is in Sessions.

### HourlyStats, AccessPipeline and Ledger: access events

The gateway's producer drops events when its buffer is full and loses them when
it crashes; the topic, the group coordinator and the client library are external,
with an idempotent producer and fenced commits. `consumer[c]` is at a step of
`Run`, `handleRecord`, `processWithRetry` or the transaction of
`StoreGatewayAccess`. Both tables change at `TxCommit`; `Inserting` and
`Updating` are the waits PostgreSQL imposes on concurrent transactions.
`StoreFails`, `CommitFails`, `Stop` are the failures, an ambiguous COMMIT among
them; `Unstorable` are events that `Validate` accepts and a column refuses.
HourlyStats has the upsert, the rounding of the filter and both queries.
`Ledger` is what the service promises: each event is entered once, with its
counters, and offsets advance one record at a time over what is entered.

### Sessions and AccessTokens

`req[r]` is a handler between two statements of `Login` or `Refresh`. A login
compares the password after it has read the user and reads the clock after that, so
that its token may begin at any time from the read of the user to the insertion. The
rotation is one transaction whose UPDATE evaluates its WHERE again after waiting
for a lock. `session` is not a column: it names the login a token descends from.
`known` are the tokens a reply has delivered, and `Reply` may lose one. The
cleanup job deletes with the candidates, order and limit of its statement.
Nothing in the repository disables a user or changes a role: `DisableUser` and
`Promote` are an operator's acts.

AccessTokens extends Sessions: every step is a step of Sessions with what it does
to access tokens, or leaves Sessions' variables alone. `access[t]` is the JWT
that was handed out with refresh token `t`; its claims are cut to whole seconds,
the expiry in the reply is not. `call[c]` is a call of an API key route between
`ParseAccessToken`, the second read of the user and the handler. `read[r]` is the
role a login or a refresh has read and puts into the token some steps later.
The signature is taken to be unforgeable.

### RouteTable and RouteSync: routes

A path is the sequence of its characters. RouteTable has the validation
and defaults of the control plane, the unique constraints, the validation of the
gateway's client, longest-prefix resolution, and `UpstreamPath` and `joinPaths`
with which the proxy rewrites a path. RouteSync has the tables and,
per gateway, its start with the YAML routes, the refresh before it listens, the
ticker, the moment the control plane reads the table, and what becomes of the
response, which a limit on its size (`MaxRoutes`) may cut. A response has one item
per enabled row, whether or not items are equal: the gateway refuses a prefix that
comes twice even then. The repository never updates or deletes a route.

### FixedWindow and Gateway: a request

FixedWindow computes with a time unit finer than a millisecond, since the window
number, the TTL and the clock of Redis are truncated to milliseconds. Gateway
takes a request through `proxyRequest`: route, key (two statements of the auth
service), counter, upstream, with every early return. When Redis does not answer
in time the request is let through; the script has then run (`Eval`), never runs,
or runs later (`late`, `LateEval`) and still counts against the client's others.
`barred[r]` is history: keys revoked before `r` was authorized. All processes read
one clock.

## 3. Runs

| run | states | time | bounds |
|---|---|---|---|
| `jobs_two_workers` | 1,305,476 | 40 s | 1 job, 2 workers, 2 failures, attempts 1 to 3 |
| `jobs_recovery` | 288,690 | 25 s | a submitted and a foreign job, 1 worker, 1 failure |
| `jobs_submission` | 19,084 | 5 s | 2 submissions, 2 failures |
| `jobs_unconfirmed` | violation | | 1 submission, no failure |
| `job_execution` | 1,190,902 | 70 s | 2 workers, 3 executions, 2 crashes or losses of power, eight sets of jobs, nine statuses |
| `analytics` | 234,557 | 175 s | 2 consumers, 2 partitions, four mixes of records, 2 failures, 2 attempts, pages of 1 to 3 rows |
| `sessions` | 1,739,671 | 90 s | 1 user, 3 tokens of one session, 2 handlers, 1 guarded call, lifetimes and second of 2, 2 ticks |
| `sessions_cleanup` | violation | | 1 user, 2 tokens, 1 handler |
| `routes_sync` | 31,044 | 30 s | 1 gateway, 2 services, 6 inputs, 2 routes to a response, 2 failures |
| `routes_picked_up` | violation | | 1 gateway, 2 services of one project that differ in their id, no failure |
| `gateway` | 1,242,723 | 35 s | 3 requests, 2 routes, 1 key, limit 1, a window of 4 units |
| `gateway_no_redis` | violation | | as above, without Redis |

**Jobs.** Acknowledged means recorded as succeeded, dead-lettered means recorded
as failed, nothing is dropped (`SettledAsRecorded`); a submission answered 202 is
never lost (`AcceptedNotLost`); a job that had finished when its delivery was
taken is not executed again (`FinishedNotRerun`); executions stay within
`max_attempts` plus one per delivery given back (`RunsWithinBudget`); with one
worker the status follows the README's diagram (`StatusFollowsDiagram`); every
queued message is settled (`QueuedIsSettled`); the mutex excludes and every
request is answered (`OnePublisher`, `RequestsAnswered`). Two workers and two
failures are what it takes for a redelivery to overtake its first execution and
for one of the two to fail again; the third attempt is where `attempt >= max`
bites.

**Execution of jobs.** Under the name of a report there is nothing or a whole file
with the statistics of one moment, rounded as the API rounds, through overlapping
executions, crashes and losses of power (`ReportWhole`); a report recorded as
generated is there (`SucceededHasReport`); only crashes leave temporary files
(`NoStrayTemps`); the worker connects only to addresses that were checked
(`DialsChecked`); a webhook is delivered or given up only on the receiver's word, or
when nothing was sent (`GivenUpForAReason`). Each behaviour starts with one of eight
sets of jobs, so that the kinds need not be multiplied; three executions are two
that overlap and one after a crash.

**Analytics.** The hourly table equals a recount of the stored events
(`CountedOnce`); below a committed offset every valid event is stored
(`CommittedStored`); a summary is, in all its columns, what the events of the hours
its interval touches amount to, a page of the hourly list that is not full adds up to
it, and a full one is complete up to the hour of its last row (`SummaryExact`); every record is settled
in the end, unless PostgreSQL refuses an event for ever (`EventuallyConsumed`); and
the pipeline implements the ledger (`ImplementsLedger`). A behaviour has one of
four mixes of records: two events of a bucket with one of another partition;
records that are skipped or do not count; an event that is refused; and events of
three buckets, in two hours and of two routes. The last makes sums add rows, and a
page of one or two rows cut the list within an hour or at its end. The intervals
begin and end on and off the hour.

**Sessions.** A session has at most one token that is not revoked
(`OneLiveToken`), and once it has none it never has one again
(`SessionStaysEnded`). A guarded handler runs only for a user who was enabled, and
had the token's role, at some time since the call arrived, and only if it arrived
before the expiry the client was told (`ServesCurrentUsers`): to disable a user
ends its calls at once, to end a session does so within the lifetime of an access
token. Two handlers and three tokens are what a race on one token takes: the token
of a login and a replacement from each handler, of which only one may come to be.
Only one of the three may come from a login (`LoginTokens`), so that the run has one
session with up to two rotations; several sessions side by side and longer chains are
covered by the proofs. Tokens issued on and off
a whole second and a call at the second they expire all fall within two ticks.

**Routes.** A gateway serves the YAML routes or the table of one moment
(`WholeSnapshot`), resolution never depends on the order of routes
(`Unambiguous`), a proxied request keeps the names of its path one by one, wherever
the slashes are (`RewritesNames`), a failed or refused refresh loses nothing
(`KeepsServing`), and if the table is well kept every enabled route is served in the
end (`PickedUpIfWellKept`). Gateways share only the table, so one is enough. The
inputs include prefixes that collide only after normalisation and more routes than
a response holds; the other tables a gateway refuses (an upstream that is not
http(s), a prefix of slashes only) appear in `WellKept` and not among the inputs.

**Gateway.** A request that passes a protected route carries a key of the route's
project that had not been revoked when the auth service answered
(`OnlyAuthorized`); of the requests Redis counts for a client within a window no
more than the limit are let through (`WithinLimit`); a 429 has the limit of other
requests to show for it (`RefusedOverLimit`). Two time units make a millisecond,
so that requests fall between the truncations.

Deadlock is not checked: all of these systems rest when there is nothing to do,
and the bounds on failures, clocks and inputs end a behaviour.

### Fairness

* `Jobs!Fairness`: weak fairness of the steps of a request, of the broker's answer,
  of delivery to a connected worker, and of a worker's steps with its restart.
  Goroutines run, PostgreSQL and RabbitMQ answer or the timeouts of the code end
  the wait, and Kubernetes restarts a process that exits. None of clients.
* `AccessPipeline!FairSpec`: the same for a consumer and for the coordinator's
  assignment. None for the delivery of a gateway's record.
* `JobExecution`, `AccessTokens` and `Gateway` state no liveness and no fairness.
* `RouteSync!FairSpec`: a gateway's start, ticker, and the end of each call, which
  the HTTP client's timeout gives.

Failures are bounded by `MaxFaults`, so liveness reads: if failures stop.

### Disagreements

* `jobs_unconfirmed`: the update after an unconfirmed publication runs on the
  request's context; if the client has gone the row stays in `publishing`
  (README.md:524 says it gets `publish_failed`).
* `sessions_cleanup`: a cleanup job with `before` in the future deletes active
  tokens (README.md:538 says expired and long revoked ones).
* `routes_picked_up`: two services with one path prefix stop all further pickup
  (README.md:710 says a created route is picked up).
* `gateway_no_redis`: without `REDIS_URL` a nil limiter inside an interface is
  called and panics; limited routes answer 500 (`handlers.go:74` says fail-open).

## 4. Proofs

All proofs are for arbitrary constants, under the named assumptions of the modules.
These are the types of the constants and distinct "no job", "no worker" and NULL
values, and the following, which the code or its deployment gives:

* workers and requests are finitely many (`WorkersAssumption`,
  `RequestsAssumption`), because the proofs count them;
* bounds are natural numbers, and positive where the code divides by them or rejects
  zero; `DefaultMaxAttempts <= MaxMaxAttempts`;
* the tokens logins make are some of the tokens (`LoginAssumption`), all of them in the
  strongest reading of the theorems;
* an event's duration and size are integers (`EventAssumption`);
* routes differ in the name their counters have (`NameAssumption`, which
  `Unambiguous` justifies), and jobs in their id (`JobAssumption`).

No bound of a run is used. Two theorems have a hypothesis of their own:
`DiagramCorrect` is about one worker, `UnambiguousCorrect` about a YAML file that has
one route for every path.

| module | theorem | states |
|---|---|---|
| JobsProofs | `TypeCorrect`, `OnePublisherCorrect` | `TypeOK`, `OnePublisher` |
| JobsSafety | `SettledCorrect`, `AcceptedCorrect`, `FinishedCorrect` | `SettledAsRecorded`, `AcceptedNotLost`, `FinishedNotRerun` |
| | `DiagramCorrect` | `StatusFollowsDiagram`, for one worker |
| JobsRefinement | `LifecycleCorrect`, `BudgetCorrect` | `ImplementsLifecycle`, `RunsWithinBudget` |
| JobExecutionProofs | `ExecutionTypeCorrect`, `ReportCorrect`, `SucceededCorrect` | `TypeOK`, `ReportWhole`, `SucceededHasReport` |
| | `TempsCorrect`, `DialsCorrect`, `GivenUpCorrect` | `NoStrayTemps`, `DialsChecked`, `GivenUpForAReason` |
| LedgerRefinement | `PipelineTypeCorrect`, `CommittedIsStored` | `TypeOK`, `CommittedStored` |
| | `PipelineImplementsLedger`, `CountedOnceCorrect` | `ImplementsLedger`, `CountedOnce` |
| SessionsProofs | `SessionsTypeCorrect`, `OneLiveCorrect`, `EndedCorrect` | `TypeOK`, `OneLiveToken`, `SessionStaysEnded` |
| | `AccessImplementsSessions`, `ServesCurrentCorrect` | `AuthSpec => Spec`, `ServesCurrentUsers` |
| RouteSyncProofs | `RoutesTypeCorrect`, `SnapshotCorrect`, `KeepsServingCorrect` | `TypeOK`, `WholeSnapshot`, `KeepsServing` |
| | `UnambiguousCorrect` | `Unambiguous`, given the file |
| GatewayProofs | `GatewayTypeCorrect`, `AuthorizedCorrect` | `TypeOK`, `OnlyAuthorized` |
| | `WithinLimitCorrect`, `RefusedCorrect` | `WithinLimit`, `RefusedOverLimit` |

**JobsProofs.** `TypeOK` alone is not inductive: a worker that handles a delivery
must hold a job, and one about to persist must hold an outcome (`TypeInv`). For the
mutex, a request publishes exactly while it holds it. The module also sorts the
actions of a worker into a few moves, by what each does to the worker's record, its
inbox and the messages; the modules above reason about moves.

**JobsSafety.** The invariant (`SafeInv`) has one part per actor or boundary:
`Submitted` (recorded before published, confirmed only when the broker has it),
`InHand` (workers hold only jobs the broker has, under the policy, and execute
only prepared ones), `Recorded` (what a worker is about to tell the broker is in
the table, and a final status it saw is still there), and that settled messages agree
with the table. Steps are reduced to their effect on a job and on a worker
(`JobEffect`, `WorkerEffect`) and the invariant is proved from the effects. For
`DiagramCorrect` it is not enough that statuses advance: the diagram has no arrow from
`retrying` to `succeeded`, which a second worker can take. `Attended` says that
nobody else finishes the job of a worker in an attempt: at the upsert a final status
is one the worker has seen, and from there to recording the outcome the row says
`processing`. Requests keep this, as they do not touch a row a worker has moved on.

**JobsRefinement.** `Owned` is added: a connected worker owns each delivery it holds,
each of another job, so that settling moves one message that was still in the
queue; every step then is a step of `JobLifecycle` or a stutter. The budget is an
invariant that counts (`BudgetInv`): the executions a job had, the deliveries in hand
that may still start one, and the deliveries its message is still due, add up to at
most `max_attempts` plus the deliveries given back. A step moves one unit from one
term to another, or pays for it with a return.

**JobExecutionProofs.** An execution under way has a number no other has, and holds
what its step needs (`Running`, `Doing`); each file a name may refer to after a loss
of power is whole and synced (`Files`), because `Rename` follows `Sync` and `Close`;
temporary files belong to an execution that is writing or to one that was abandoned
(`Temps`); results were justified when they were returned (`Results`). That the
report's query selects what the statistics API does is a lemma (`RowsGenuine`).

**LedgerRefinement.** `CommittedStored` is not inductive: a commit moves the offset
over the record the consumer holds, so that must be stored, and be the one at the
committed offset. The invariant adds `HasRecord` (a consumer about to commit an offset
holds a record that is stored or malformed, one in a transaction an event that is not
stored yet), `Exclusive` (no two open transactions insert one event, as the unique
index makes the second wait), and `InStep` (the owner of a partition handles the
record at the committed offset, or will fetch it next). `TxCommit` is then `Enter` and
`CommitRecord` is `Advance`.

`CountedOnce` compares the hourly table with a recount of the stored events. The
recount adds durations and sizes, and a sum over a set would need induction over the
set. Two things avoid that. A sum of natural numbers is the size of a disjoint union
of intervals (`Units`, `Total`), so that the facts of the library about cardinality
apply; and the table grows by one event at a time (`TablesStep`), so that the
induction is the one over the steps of the specification. It carries `Countable`: the
stored events and the units of their sums are finite, and every nonempty set of them
has a longest. `RecountOneMore` then is the statement about the code: the upsert of
`StoreGatewayAccess` leaves what counting afresh with the new event would give, in a
new bucket (`RowOfOne`) and in an old one (`RowOneMore`).

**SessionsProofs.** `OneLiveToken` needs `Rooted` (a session is named after a token
that was made, so a login cannot land in an old session) and `Handling` (a handler
has a registered user and a token that was made). A rotation removes the only live
token and adds one; all other steps only shrink the set of live tokens. These hold of
AccessTokens too, whose steps are steps of Sessions or leave its variables alone
(`AccessImplementsSessions`). For the guarded calls, `AccessInv` says that a call which
was stale when it arrived is still outdated at the second read of the user, because
nothing undoes a disabled user, a promotion or an expiry (`Forward`); past that read no
call is stale.

**RouteSyncProofs.** The routes of a running gateway come from the YAML file or from
an accepted response, whose routes all satisfy the conditions of `toDomain`
(`OriginAccepted`; with the conditions `NewRoute` leaves on stored rows this is the
substance of `RoutesTypeCorrect`), and that response is no younger than the one on its way
(`Origin`): calls do not overlap, so responses are applied in the order in which they
were read. For `Unambiguous`, two prefixes that match one path and are equally long
once normalised are equal, and the gateway's client refuses a response with two equal
ones; YAML routes are not checked by the code, hence the hypothesis.

**GatewayProofs.** `TTLCovers` is the arithmetic: with window, TTL and clock each
truncated to milliseconds, a counter that is started at any time after the gateway
read its clock lives to the last millisecond of the window. From it comes `Window`:
while the window of a counted request lasts, its counter is there and at least the
number the request was given, so that no two requests counted within the window have
the same number; the limit follows because those let through have numbers from 1 to
the limit. `Honest` is the other direction, for 429: a number is at most the count of
the requests Redis has counted, late scripts included. Steps are reduced to four kinds
(a request moves on, Redis counts one, the key table changes, time passes), each of
which keeps the invariant.

Only model-checked:

* liveness under fairness (`QueuedIsSettled`, `RequestsAnswered`,
  `EventuallyConsumed`, `PickedUpIfWellKept`), which this prover does not do;
* `SummaryExact`, whose sums over the rows of a query are folds of the library, and
  what a fold computes needs induction over data;
* `RewritesNames`, about the names between the slashes of a path, for the same reason.

## 5. Not modelled

* Cryptography: passwords, signatures, hashes of tokens and keys. A hash names its
  value, a random value is fresh, a signature is not forged.
* Percent-encoded paths (`RawPath`) and the headers the proxy copies; parsing,
  formatting and DTOs.
* That a rename may be undone by a loss of power, because the directory is not
  synced, is modelled; what the job's record then says is not repaired by the code,
  and `SucceededHasReport` leaves the case out. An execution that read older
  statistics may publish last; `ReportWhole` asks for one moment, not the latest.
* The time zone of `date_trunc`: sessions of PostgreSQL are taken to be in a zone of
  whole hours.
* Clock skew between gateways, which number windows by their own clocks; the
  proofs of the limiter are for one clock.
* The broker's default delivery limit, which applies because the policy names none;
  Kafka's retention.
* Logout with a token that was already exchanged answers 204 and leaves the
  session's present token live. The code promises no more, and no property asks it.
* `X-RateLimit-*` headers, metrics, traces, probes, configuration, the demo
  backend.

## 6. Plan

1. Done: jobs and their execution, analytics, sessions and access tokens, routes,
   gateway, and proofs for all of them.
2. Model next: gateways with clocks of their own against a limit that allows for
   the skew.
3. Prove next: the requests of `SummaryExact`, once the sums over the hourly rows are
   stated as cardinalities like those of `Recount`.
