---- MODULE JobExecution ----
(***************************************************************************)
(* What a worker does between taking a job and recording its outcome:      *)
(* usecase.Process with the report generator and the webhook sender.  Jobs *)
(* only chooses among the three outcomes; here are the steps that lead to  *)
(* them, for executions that may overlap (a worker that has lost its       *)
(* connection goes on while another runs the same job), crash, or end with *)
(* a loss of power.                                                        *)
(*                                                                         *)
(* A job is [id, type, decodes, project, from, to, format, batch, host,    *)
(* method]; fields its type does not use are "" or 0.  An address is [n,   *)
(* class].  A file is [whole, rows, synced]: one that is not whole may be  *)
(* anything from empty to all but a byte.  Executions are numbered, and a  *)
(* number also names the one temporary file the execution creates.         *)
(***************************************************************************)
EXTENDS HourlyStats, Sequences

CONSTANTS Workers,
          JobSets,      \* the jobs there are: a member is chosen at the start
          Projects,     \* ids in the projects table
          Events,       \* the access events, in the order they are stored
          AllowedHosts, \* JOBS_WEBHOOK_ALLOWED_HOSTS
          Literal,      \* hosts that are addresses -> the address
          DnsAnswers,   \* address lists a lookup may return
          Respelled,    \* hosts net/http dials under another spelling: not ASCII
          Statuses,     \* statuses a receiver may answer with
          MaxStarts,    \* bound: executions
          MaxCrashes    \* bound: process crashes and losses of power

Address == [n : Nat, class : STRING]

ASSUME BoundAssumption == {MaxStarts, MaxCrashes} \subseteq Nat
\* What net/http returns as the status of an answer: any three digits, but of
\* the informational ones only 101.
ASSUME StatusAssumption == Statuses \subseteq 0..999 \ (100..199 \ {101})
ASSUME JobAssumption == \A set \in JobSets : \A j, k \in set : j.id = k.id => j = k
ASSUME AddressAssumption ==
  /\ DnsAnswers \subseteq Seq(Address)
  /\ \A host \in DOMAIN Literal : Literal[host] \in Address

VARIABLES jobs,      \* the jobs of this behaviour
          moments,   \* the contents of gateway_route_stats_hourly, latest last
          exec,      \* worker -> its execution
          started,   \* executions so far
          file,      \* number -> file
          temps,     \* numbers whose temporary name is in the directory
          report,    \* job -> number of the file under its final name, or 0
          lasting,   \* job -> the numbers it may have after a loss of power
          results,   \* job -> the outcomes recorded for it
          dialled,   \* pairs <<job, address>> that were dialled
          crashes,   \* crashes so far
          powerLost, \* whether the power has failed
          abandoned  \* numbers of executions that crashed

directory == <<file, temps, report, lasting>>
faultVars == <<crashes, powerLost, abandoned>>
vars == <<jobs, moments, exec, started, directory, results, dialled, faultVars>>

None == 0
\* In the place of a status: no request was sent, or it was not answered.
NotSent == 1000
Unanswered == 1001

\* A worker's place:
\*   idle     no execution
\*   project rows create write sync rename   before that call of Generate
\*   resolve dial answer                     before that call of Deliver
\*   clean                                   before CleanupExpiredTokens
\*   return   the outcome is known and not recorded yet
PCs == {"idle", "project", "rows", "create", "write", "sync", "rename",
        "resolve", "dial", "answer", "clean", "return"}

Idle == [pc |-> "idle", job |-> None, n |-> 0, items |-> <<>>, addresses |-> <<>>,
         result |-> "none", sent |-> NotSent]

Fresh == [whole |-> FALSE, rows |-> <<>>, synced |-> FALSE]

Init ==
  /\ jobs \in JobSets
  /\ moments = <<<<>>>>
  /\ exec = [w \in Workers |-> Idle]
  /\ started = 0
  /\ file = [n \in 1..MaxStarts |-> Fresh]
  /\ temps = {}
  /\ report = [j \in jobs |-> None]
  /\ lasting = [j \in jobs |-> {None}]
  /\ results = [j \in jobs |-> {}]
  /\ dialled = {}
  /\ crashes = 0
  /\ powerLost = FALSE
  /\ abandoned = {}

----------------------------------------------------------------------------
(* The analytics consumer stores an event; the table of reports grows.     *)

hourly == moments[Len(moments)]

StoreEvent ==
  /\ Len(moments) <= Len(Events)
  /\ moments' = Append(moments, Aggregated(hourly, Events[Len(moments)]))
  /\ UNCHANGED <<jobs, exec, started, directory, results, dialled, faultVars>>

----------------------------------------------------------------------------
(* Process.                                                                *)

\* Generate and Process refuse these payloads before they do anything.
PayloadValid(j) ==
  /\ j.decodes
  /\ CASE j.type = "report"  -> j.from < j.to /\ j.format \in {"json", "csv"}
       [] j.type = "cleanup" -> j.batch \in 1..5000
       [] OTHER              -> TRUE

FirstStep(j) ==
  CASE j.type = "webhook" -> "resolve"
    [] j.type = "report"  -> "project"
    [] j.type = "cleanup" -> "clean"

Supported == {"webhook", "report", "cleanup"}

\* Returning from Process with this outcome.
Returning(w, result) ==
  [Idle EXCEPT !.pc = "return", !.job = exec[w].job, !.n = exec[w].n, !.result = result]

\* The worker takes a job whose row is not final, whoever else is at it.
Begin(w, j) ==
  /\ exec[w].pc = "idle"
  /\ \A r \in results[j] : r.result = "transient"
  /\ started < MaxStarts
  /\ started' = started + 1
  /\ LET taken == [Idle EXCEPT !.job = j.id, !.n = started + 1]
     IN  exec' = [exec EXCEPT ![w] =
           IF j.type \in Supported /\ PayloadValid(j)
           THEN [taken EXCEPT !.pc = FirstStep(j)]
           ELSE [taken EXCEPT !.pc = "return", !.result = "permanent"]]
  /\ UNCHANGED <<jobs, moments, directory, results, dialled, faultVars>>

JobOf(w) == CHOOSE j \in jobs : j.id = exec[w].job

At(w, pc) == exec[w].pc = pc

Goto(w, pc) == exec' = [exec EXCEPT ![w].pc = pc]

Return(w, result) == exec' = [exec EXCEPT ![w] = Returning(w, result)]

outside == <<jobs, moments, started, results, faultVars>>

\* CleanupExpiredTokens, which Sessions models.
Clean(w) ==
  /\ At(w, "clean")
  /\ \E result \in {"succeeded", "transient"} : Return(w, result)
  /\ UNCHANGED <<outside, directory, dialled>>

----------------------------------------------------------------------------
(* Generate.                                                               *)

\* Mutant: the temporary file stays behind when Generate fails.
RemovedNever(n) == temps

\* The deferred Remove of the temporary name.
Removed(n) == temps \ {n}

\* Mutant: the error of Rename is dropped.
FailureResultIgnored(w) == IF At(w, "rename") THEN "succeeded" ELSE "transient"

\* An error of any call is returned as it is, which makes it transient.
FailureResult(w) == "transient"

GenerateFails(w) ==
  /\ exec[w].pc \in {"project", "rows", "create", "write", "sync", "rename"}
  /\ Return(w, FailureResult(w))
  /\ temps' = Removed(exec[w].n)
  /\ UNCHANGED <<outside, file, report, lasting, dialled>>

ProjectExists(w) ==
  /\ At(w, "project")
  /\ IF JobOf(w).project \in Projects THEN Goto(w, "rows") ELSE Return(w, "permanent")
  /\ UNCHANGED <<outside, directory, dialled>>

\* Mutant: an end on the hour adds an hour.
ReportEndAlwaysLater(to) == Truncate(to) + Hour

\* The CASE of the query.
ReportEnd(to) == IF to = Truncate(to) THEN to ELSE Truncate(to) + Hour

\* The rows the query returns for a job.
ReportRows(j) ==
  LET keys == {k \in DOMAIN hourly : /\ k.project = j.project
                                     /\ k.start >= Truncate(j.from)
                                     /\ k.start < ReportEnd(j.to)}
  IN  [k \in keys |-> hourly[k]]

LoadRows(w) ==
  /\ At(w, "rows")
  /\ exec' = [exec EXCEPT ![w].pc = "create", ![w].items = ReportRows(JobOf(w))]
  /\ UNCHANGED <<outside, directory, dialled>>

CreateTemp(w) ==
  /\ At(w, "create")
  /\ temps' = temps \cup {exec[w].n}
  /\ Goto(w, "write")
  /\ UNCHANGED <<outside, file, report, lasting, dialled>>

\* writeJSON or writeCSV.
WriteItems(w) ==
  /\ At(w, "write")
  /\ file' = [file EXCEPT ![exec[w].n].whole = TRUE, ![exec[w].n].rows = exec[w].items]
  /\ exec' = [exec EXCEPT ![w].pc = "sync", ![w].items = <<>>]
  /\ UNCHANGED <<outside, temps, report, lasting, dialled>>

\* Mutant: the file is closed and not synced.
SyncedNever(n) == file

Synced(n) == [file EXCEPT ![n].synced = TRUE]

\* Sync and Close.
Sync(w) ==
  /\ At(w, "sync")
  /\ file' = Synced(exec[w].n)
  /\ Goto(w, "rename")
  /\ UNCHANGED <<outside, temps, report, lasting, dialled>>

\* Rename, which replaces what an earlier execution published; nothing syncs
\* the directory, so after a loss of power the old name may be back.
Rename(w) ==
  /\ At(w, "rename")
  /\ temps' = temps \ {exec[w].n}
  /\ report' = [report EXCEPT ![JobOf(w)] = exec[w].n]
  /\ lasting' = [lasting EXCEPT ![JobOf(w)] = @ \cup {exec[w].n}]
  /\ Return(w, "succeeded")
  /\ UNCHANGED <<outside, file, dialled>>

----------------------------------------------------------------------------
(* Deliver.                                                                *)

BlockedIP(a) ==
  a.class \in {"loopback", "private", "unspecified", "multicast",
               "linkLocalUnicast", "linkLocalMulticast"}

\* Mutant: a lookup without addresses is no error.
TargetEmpty(j, addresses) ==
  IF j.host = "" THEN "permanent"
  ELSE IF j.host \notin AllowedHosts /\ \E a \in Range(addresses) : BlockedIP(a) THEN "permanent"
  ELSE IF j.method \notin {"POST", "PUT", "PATCH"} THEN "permanent"
  ELSE "dial"

\* resolveTarget with the addresses of one lookup, then the method.  The host is
\* "" for an URL that resolveTarget refuses: one that does not parse, has no
\* host or has a user, or whose scheme is not http or https.
Target(j, addresses) ==
  IF j.host = "" THEN "permanent"
  ELSE IF addresses = <<>> THEN "transient"
  ELSE IF j.host \notin AllowedHosts /\ \E a \in Range(addresses) : BlockedIP(a) THEN "permanent"
  ELSE IF j.method \notin {"POST", "PUT", "PATCH"} THEN "permanent"
  ELSE "dial"

\* net.ParseIP, or a lookup, whose answers may differ from one to the next.
Lookup(host) == IF host \in DOMAIN Literal THEN {<<Literal[host]>>} ELSE DnsAnswers

Resolve(w) ==
  /\ At(w, "resolve")
  /\ \E addresses \in Lookup(JobOf(w).host) :
       exec' = [exec EXCEPT ![w] =
         IF Target(JobOf(w), addresses) = "dial"
         THEN [@ EXCEPT !.pc = "dial", !.addresses = addresses]
         ELSE Returning(w, Target(JobOf(w), addresses))]
  /\ UNCHANGED <<outside, directory, dialled>>

\* Mutant: the dialer looks the name up again.
DialTargetLookedUp(w) == UNION {Range(addresses) : addresses \in Lookup(JobOf(w).host)}

\* fixedDialer: the addresses that were checked, one after the other.
DialTarget(w) == {Head(exec[w].addresses)}

\* fixedDialer is asked for another host than it was made for.
UnexpectedHost(w) ==
  /\ At(w, "dial")
  /\ JobOf(w).host \in Respelled
  /\ Return(w, "permanent")
  /\ UNCHANGED <<outside, directory, dialled>>

\* One round of the loop: a connection, or the next address, or none is left.
Dial(w) ==
  /\ At(w, "dial")
  /\ JobOf(w).host \notin Respelled
  /\ \E a \in DialTarget(w) : dialled' = dialled \cup {<<exec[w].job, a>>}
  /\ \/ exec' = [exec EXCEPT ![w].pc = "answer", ![w].addresses = <<>>]
     \/ /\ Len(exec[w].addresses) > 1
        /\ exec' = [exec EXCEPT ![w].addresses = Tail(@)]
     \/ /\ Len(exec[w].addresses) = 1
        /\ Return(w, "transient")
  /\ UNCHANGED <<outside, directory>>

\* Mutant: only the server's own failures are worth another attempt.
RetryableStatusServer(status) == status >= 500

RetryableStatus(status) == status \in {408, 425, 429} \/ status >= 500

\* Deliver's outcome for an answer; redirects are not followed.
OutcomeOf(status) ==
  IF status \in 200..299 THEN "succeeded"
  ELSE IF RetryableStatus(status) THEN "transient"
  ELSE "permanent"

\* The request is on its way, and the answer arrives.
Answered(w) ==
  /\ At(w, "answer")
  /\ \E status \in Statuses :
       exec' = [exec EXCEPT ![w] = [Returning(w, OutcomeOf(status)) EXCEPT !.sent = status]]
  /\ UNCHANGED <<outside, directory, dialled>>

\* The lookup fails, or client.Do ends without an answer, the timeout included.
DeliverFails(w) ==
  /\ exec[w].pc \in {"resolve", "dial", "answer"}
  /\ At(w, "resolve") => JobOf(w).host \notin DOMAIN Literal \cup {""}
  /\ exec' = [exec EXCEPT ![w] =
       [Returning(w, "transient") EXCEPT !.sent = IF At(w, "answer") THEN Unanswered ELSE NotSent]]
  /\ UNCHANGED <<outside, directory, dialled>>

----------------------------------------------------------------------------
(* The outcome reaches the consumer, or the process ends before.           *)

Record(w) ==
  /\ At(w, "return")
  /\ results' = [results EXCEPT ![JobOf(w)] =
       @ \cup {[result |-> exec[w].result, sent |-> exec[w].sent]}]
  /\ exec' = [exec EXCEPT ![w] = Idle]
  /\ UNCHANGED <<jobs, moments, started, directory, dialled, faultVars>>

\* The worker's process dies; the files are as they are.
Crash(w) ==
  /\ ~At(w, "idle")
  /\ crashes < MaxCrashes
  /\ crashes' = crashes + 1
  /\ abandoned' = abandoned \cup {exec[w].n}
  /\ exec' = [exec EXCEPT ![w] = Idle]
  /\ UNCHANGED <<jobs, moments, started, directory, results, dialled, powerLost>>

\* The node dies with all its workers.  A file that was not synced may have
\* lost content, and names that were changed may be as they were before.
PowerLoss ==
  /\ crashes < MaxCrashes
  /\ crashes' = crashes + 1
  /\ powerLost' = TRUE
  /\ abandoned' = 1..started
  /\ exec' = [w \in Workers |-> Idle]
  /\ \E torn \in SUBSET {n \in 1..started : ~file[n].synced} :
       file' = [n \in DOMAIN file |->
                  IF n \in torn THEN [Fresh EXCEPT !.synced = TRUE]
                  ELSE [file[n] EXCEPT !.synced = n <= started]]
  /\ \E chosen \in [jobs -> 0..started] :
       /\ \A j \in jobs : chosen[j] \in lasting[j]
       /\ report' = chosen
       /\ lasting' = [j \in jobs |-> {chosen[j]}]
       /\ temps' = (temps \cup UNION {lasting[j] : j \in jobs}) \ ({None} \cup {chosen[j] : j \in jobs})
  /\ UNCHANGED <<jobs, moments, started, results, dialled>>

Generate(w) ==
  \/ ProjectExists(w) \/ LoadRows(w) \/ CreateTemp(w) \/ WriteItems(w)
  \/ Sync(w) \/ Rename(w) \/ GenerateFails(w)

Deliver(w) == Resolve(w) \/ UnexpectedHost(w) \/ Dial(w) \/ Answered(w) \/ DeliverFails(w)

Next ==
  \/ StoreEvent
  \/ \E w \in Workers :
       \/ \E j \in jobs : Begin(w, j)
       \/ Generate(w) \/ Deliver(w) \/ Clean(w)
       \/ Record(w) \/ Crash(w)
  \/ PowerLoss

Spec == Init /\ [][Next]_vars

----------------------------------------------------------------------------
(* Properties.                                                             *)

\* Every variable has its type; an execution has an outcome when it returns and
\* not before, and an address whenever it dials.
TypeOK ==
  /\ \A w \in Workers : /\ exec[w].pc \in PCs
                        /\ exec[w].n \in 0..started
                        /\ At(w, "return") <=> exec[w].result # "none"
                        /\ At(w, "dial") => exec[w].addresses # <<>>
  /\ started \in 0..MaxStarts
  /\ temps \subseteq 1..started
  /\ \A j \in jobs : report[j] \in lasting[j] /\ lasting[j] \subseteq 0..started

\* What the statistics API would list for the interval of a report.
Statistics(table, j) ==
  LET keys == Selected(table, NormalizeStatsFilter(
                [project |-> j.project, from |-> j.from, to |-> j.to, route |-> "", method |-> ""]))
  IN  [k \in keys |-> table[k]]

\* A report is published atomically: under its final name there is nothing, or
\* a whole file with what the statistics were at one moment, whichever
\* executions overlap, fail or crash, and also after a loss of power.
ReportWhole ==
  \A j \in jobs : report[j] # None =>
    /\ file[report[j]].whole
    /\ \E table \in Range(moments) : file[report[j]].rows = Statistics(table, j)

\* A report that is recorded as generated is there, unless the power failed.
SucceededHasReport ==
  \A j \in jobs :
    j.type = "report" /\ (\E r \in results[j] : r.result = "succeeded") /\ ~powerLost
      => report[j] # None

\* Only executions that are under way or that crashed leave temporary files.
NoStrayTemps ==
  temps \subseteq abandoned \cup {exec[w].n : w \in Workers}

\* The worker only connects to addresses that the check has passed, unless the
\* host is on the allow-list, however the name resolves at a later lookup.
DialsChecked ==
  \A j \in jobs : j.host \notin AllowedHosts =>
    \A d \in dialled : d[1] = j.id => ~BlockedIP(d[2])

\* A webhook counts as delivered only if the receiver has said so, and is
\* given up only if the receiver has answered, neither with success nor with a
\* failure that may pass, or has not been sent anything: a request whose answer
\* was lost or asks for patience is retried.
GivenUpForAReason ==
  \A j \in jobs : j.type = "webhook" => \A r \in results[j] :
    /\ r.result = "succeeded" => r.sent \in 200..299
    /\ r.result = "permanent" =>
         r.sent = NotSent \/ r.sent \in (0..499 \ (200..299 \cup {408, 425, 429}))
====
