---- MODULE JobExecutionProofs ----
(***************************************************************************)
(* What executions leave behind, for any jobs, workers and events: whole   *)
(* reports, no stray files, connections to checked addresses only, and     *)
(* outcomes that have a reason.                                            *)
(***************************************************************************)
EXTENDS JobExecution, TLAPS

----------------------------------------------------------------------------
(* The invariant.                                                          *)

\* The rows are what the statistics of the report's interval were at a moment.
Genuine(rows, j) == \E table \in Range(moments) : rows = Statistics(table, j)

ContentsOf(tables, set) == {<<>>} \cup {Statistics(table, j) : table \in tables, j \in set}

Contents == ContentsOf(Range(moments), jobs)

Outcomes == {"none", "succeeded", "permanent", "transient"}

Execution ==
  [pc : PCs, job : {None} \cup {j.id : j \in jobs}, n : 0..started, items : Contents,
   addresses : Seq(Address), result : Outcomes, sent : Nat]

File == [whole : BOOLEAN, rows : Contents, synced : BOOLEAN]

Generating == {"project", "rows", "create", "write", "sync", "rename"}
Writing == {"write", "sync", "rename"}
Delivering == {"resolve", "dial", "answer"}

\* A file that may carry the name of a report.
Publishable(n, j) == file[n].whole /\ file[n].synced /\ Genuine(file[n].rows, j)

\* No address among these was refused.
Checked(addresses, j) ==
  j.host \notin AllowedHosts => \A a \in Range(addresses) : ~BlockedIP(a)

\* What may be recorded for a job.
Justified(result, sent, j) ==
  /\ j.type = "report" /\ result = "succeeded" /\ ~powerLost => report[j] # None
  /\ j.type = "webhook" /\ result = "succeeded" => sent \in 200..299
  /\ j.type = "webhook" /\ result = "permanent" =>
       sent = NotSent \/ sent \in (0..499 \ (200..299 \cup {408, 425, 429}))

\* What is known of an execution of j at each place.
Doing(e, j) ==
  /\ e.pc \in Generating => j.type = "report" /\ \A k \in jobs : e.n \notin lasting[k]
  /\ e.pc \in {"create", "write"} => Genuine(e.items, j)
  /\ e.pc \in {"sync", "rename"} => file[e.n].whole /\ Genuine(file[e.n].rows, j)
  /\ e.pc = "rename" => file[e.n].synced
  /\ e.pc \in Delivering => j.type = "webhook"
  /\ e.pc = "dial" => Checked(e.addresses, j) /\ e.addresses # <<>>
  /\ e.pc = "clean" => j.type = "cleanup"
  /\ e.pc = "return" <=> e.result # "none"
  /\ e.pc = "return" => Justified(e.result, e.sent, j)

\* An execution has a number that no other has, and a job.
Running(e) ==
  /\ e.n \in 1..started /\ e.n \notin abandoned
  /\ \E j \in jobs : e.job = j.id /\ Doing(e, j)

Executions ==
  /\ exec \in [Workers -> Execution]
  /\ \A w \in Workers : exec[w] = Idle \/ (exec[w].pc # "idle" /\ Running(exec[w]))
  /\ \A v, w \in Workers : exec[v].n = exec[w].n /\ v # w => exec[v].n = 0

Files ==
  /\ file \in [1..MaxStarts -> File]
  /\ report \in [jobs -> 0..started]
  /\ lasting \in [jobs -> SUBSET (0..started)]
  /\ \A j \in jobs : /\ report[j] \in lasting[j]
                     /\ \A n \in lasting[j] : n # None => Publishable(n, j)

Temps ==
  /\ temps \subseteq 1..started
  /\ \A t \in temps : \/ t \in abandoned
                      \/ \E w \in Workers : exec[w].n = t /\ exec[w].pc \in Writing

Results ==
  /\ results \in [jobs -> SUBSET [result : Outcomes, sent : Nat]]
  /\ \A j \in jobs : \A r \in results[j] : Justified(r.result, r.sent, j)
  /\ DialsChecked

Base ==
  /\ jobs \in JobSets
  /\ moments \in Seq(Range(moments)) /\ moments # <<>>
  /\ started \in 0..MaxStarts
  /\ abandoned \subseteq 1..started

Inv == Base /\ Executions /\ Files /\ Temps /\ Results

----------------------------------------------------------------------------
(* The rows of a report.                                                   *)

\* The query of the report generator selects what the statistics API does.
LEMMA RowsGenuine ==
  ASSUME Base, NEW j \in jobs
  PROVE  Genuine(ReportRows(j), j)
<1>1. hourly \in Range(moments)
  <2>1. Len(moments) \in 1..Len(moments)
    BY DEF Base
  <2> QED
    BY <2>1 DEF hourly, Range
<1>2. ReportRows(j) = Statistics(hourly, j)
  <2> DEFINE f == [project |-> j.project, from |-> j.from, to |-> j.to, route |-> "", method |-> ""]
           g == NormalizeStatsFilter(f)
  <2>1. /\ g.project = j.project /\ g.from = Truncate(j.from) /\ g.to = CeilHour(j.to)
        /\ g.route = "" /\ g.method = ""
    BY DEF NormalizeStatsFilter
  <2>2. CeilHour(j.to) = ReportEnd(j.to)
    BY DEF CeilHour, ReportEnd
  <2> HIDE DEF g
  <2>3. Selected(hourly, g) =
          {k \in DOMAIN hourly : /\ k.project = j.project
                                 /\ k.start >= Truncate(j.from)
                                 /\ k.start < ReportEnd(j.to)}
    BY <2>1, <2>2, Zenon DEF Selected
  <2> QED
    BY <2>3, Zenon DEF ReportRows, Statistics, g
<1> QED
  BY <1>1, <1>2 DEF Genuine

\* The table is one the statistics had, for good.
LEMMA MomentsGrow ==
  ASSUME Base, StoreEvent
  PROVE  /\ moments' \in Seq(Range(moments')) /\ moments' # <<>>
         /\ Range(moments) \subseteq Range(moments')
<1> DEFINE new == Aggregated(hourly, Events[Len(moments)])
           all == Range(moments) \cup {new}
<1>1. moments' = Append(moments, new) /\ moments \in Seq(all) /\ new \in all
  BY DEF Base, StoreEvent
<1> HIDE DEF new, all
<1>2. /\ moments' \in Seq(all) /\ Len(moments') = Len(moments) + 1 /\ Len(moments) \in Nat
      /\ \A i \in 1..Len(moments) : moments'[i] = moments[i]
      /\ moments'[Len(moments) + 1] = new
  BY <1>1
<1>3. Range(moments) \subseteq Range(moments') /\ new \in Range(moments')
  BY <1>1, <1>2 DEF Range
<1>4. moments' \in Seq(Range(moments'))
  BY <1>2, <1>3 DEF all
<1> QED
  BY <1>2, <1>3, <1>4

LEMMA GenuineStays ==
  ASSUME Range(moments) \subseteq Range(moments')
  PROVE  \A rows, j : Genuine(rows, j) => \E table \in Range(moments') : rows = Statistics(table, j)
BY Zenon DEF Genuine

\* Types depend on the jobs, the moments and the number of executions only.
LEMMA SameTypes ==
  ASSUME jobs' = jobs, moments' = moments, started' = started
  PROVE  Contents' = Contents /\ Execution' = Execution /\ File' = File
<1>1. Contents' = Contents
  BY Zenon DEF Contents
<1> QED
  BY <1>1, Zenon DEF Execution, File

LEMMA ContentsStay ==
  ASSUME Range(moments) \subseteq Range(moments'), jobs' = jobs
  PROVE  Contents \subseteq Contents'
BY DEF Contents, ContentsOf

\* The job of an execution is found by its id.
LEMMA JobOfIs ==
  ASSUME Base, NEW w \in Workers, NEW j \in jobs, exec[w].job = j.id
  PROVE  JobOf(w) = j
BY JobAssumption, Zenon DEF Base, JobOf

----------------------------------------------------------------------------
(* A step of one worker, seen by the others.                               *)

\* The step touches no file but the one with this number, and takes no report
\* away.
Frame(own) ==
  /\ jobs' = jobs
  /\ started' \in started..MaxStarts
  /\ Range(moments) \subseteq Range(moments')
  /\ abandoned' \subseteq abandoned \cup {own}
  /\ \A m \in 1..MaxStarts : m # own => file'[m] = file[m]
  /\ \A j \in jobs : lasting'[j] \subseteq lasting[j] \cup {own}
  /\ \A j \in jobs : report[j] # None => report'[j] # None
  /\ powerLost' = powerLost

LEMMA JustifiedStays ==
  ASSUME jobs' = jobs, powerLost' = powerLost, \A j \in jobs : report[j] # None => report'[j] # None
  PROVE  \A result, sent : \A j \in jobs : Justified(result, sent, j) => Justified(result, sent, j)'
BY DEF Justified

LEMMA OtherRuns ==
  ASSUME Inv, NEW own, Frame(own), NEW v \in Workers, exec[v].n # own, exec'[v] = exec[v],
         exec[v].pc # "idle"
  PROVE  Running(exec[v])'
<1> DEFINE e == exec[v]
           m == exec[v].n
<1>1. Base /\ Running(e) /\ e \in Execution
  BY DEF Inv, Executions, Idle
<1>2. m \in 1..started /\ m \notin abandoned /\ started \in 0..MaxStarts /\ MaxStarts \in Nat
  BY <1>1, BoundAssumption, Zenon DEF Running, Base
<1>3. m # own
  OBVIOUS
<1>4. PICK j \in jobs : e.job = j.id /\ Doing(e, j)
  BY <1>1, Zenon DEF Running
<1>5. m \in 1..started' /\ m \notin abandoned' /\ file'[m] = file[m]
      /\ \A k \in jobs : lasting'[k] \subseteq lasting[k] \cup {own}
  BY <1>2, <1>3 DEF Frame
<1>6. \A rows : Genuine(rows, j) => \E table \in Range(moments') : rows = Statistics(table, j)
  BY GenuineStays, Zenon DEF Frame
<1>7. Doing(exec[v], j)'
  <2>1. /\ e.pc \in Generating => j.type = "report" /\ \A k \in jobs' : e.n \notin lasting'[k]
    BY <1>3, <1>4, <1>5, Zenon DEF Doing, Frame
  <2>2. /\ e.pc \in {"create", "write"} => \E table \in Range(moments') : e.items = Statistics(table, j)
        /\ e.pc \in {"sync", "rename"} =>
             /\ file'[m].whole
             /\ \E table \in Range(moments') : file'[m].rows = Statistics(table, j)
        /\ e.pc = "rename" => file'[m].synced
    BY <1>4, <1>5, <1>6, Zenon DEF Doing
  <2>3. /\ e.pc \in Delivering => j.type = "webhook"
        /\ e.pc = "dial" => Checked(e.addresses, j) /\ e.addresses # <<>>
        /\ e.pc = "clean" => j.type = "cleanup"
        /\ e.pc = "return" <=> e.result # "none"
    BY <1>4, Zenon DEF Doing
  <2>4. e.pc = "return" => Justified(e.result, e.sent, j)
    BY <1>4, Zenon DEF Doing
  <2>5. e.pc = "return" => Justified(exec[v].result, exec[v].sent, j)'
    BY <2>4, JustifiedStays, Zenon DEF Frame
  <2> QED
    BY <2>1, <2>2, <2>3, <2>5, Zenon DEF Doing, Genuine, Checked
<1> QED
  BY <1>4, <1>5, <1>7, Zenon DEF Running, Frame

LEMMA ExecutionsStay ==
  ASSUME Base, jobs' = jobs, started' \in started..MaxStarts, Range(moments) \subseteq Range(moments')
  PROVE  Execution \subseteq Execution' /\ File \subseteq File' /\ Contents \subseteq Contents'
<1>1. Contents \subseteq Contents'
  BY ContentsStay
<1>2. 0..started \subseteq 0..started'
  BY BoundAssumption DEF Base
<1> QED
  BY <1>1, <1>2 DEF Execution, File

\* A step of one worker keeps what is known of all executions.
LEMMA ExecutionStep ==
  ASSUME Inv, NEW w \in Workers, Frame(exec[w].n), exec' = [exec EXCEPT ![w] = exec'[w]],
         exec'[w] \in Execution',
         exec'[w] = Idle \/ (exec'[w].pc # "idle" /\ Running(exec[w])'),
         exec'[w].n \in {0, exec[w].n, started + 1}
  PROVE  Executions'
<1>1. /\ Base /\ exec \in [Workers -> Execution]
      /\ \A v \in Workers : exec[v].n \in 0..started
      /\ \A v, u \in Workers : exec[v].n = exec[u].n /\ v # u => exec[v].n = 0
  BY Zenon DEF Inv, Executions, Execution
<1>2. Execution \subseteq Execution'
  BY <1>1, ExecutionsStay, Zenon DEF Frame
<1>3. exec' \in [Workers -> Execution'] /\ \A v \in Workers : v # w => exec'[v] = exec[v]
  BY <1>1, <1>2, Zenon
<1>4. ASSUME NEW v \in Workers
      PROVE  exec'[v] = Idle \/ (exec'[v].pc # "idle" /\ Running(exec[v])')
  <2>1. CASE v = w
    BY <2>1, Zenon
  <2>2. CASE v # w /\ exec[v] = Idle
    BY <1>3, <2>2, Zenon
  <2>3. CASE v # w /\ exec[v] # Idle
    <3>1. exec[v].pc # "idle"
      BY <2>3, Zenon DEF Inv, Executions
    <3>2. exec[v].n \in 1..started
      BY <2>3, Zenon DEF Inv, Executions, Running
    <3>3. exec[v].n # exec[w].n
      BY <1>1, <2>3, <3>2
    <3>4. Running(exec[v])' /\ exec'[v] = exec[v]
      BY <1>3, <2>3, <3>1, <3>3, OtherRuns, Zenon
    <3> QED
      BY <3>1, <3>4, Zenon
  <2> QED
    BY <2>1, <2>2, <2>3, Zenon
<1>5. ASSUME NEW v \in Workers, NEW u \in Workers, v # u, exec'[v].n = exec'[u].n
      PROVE  exec'[v].n = 0
  <2>1. started + 1 \notin 0..started /\ started \in Nat
    BY <1>1, BoundAssumption DEF Base
  <2>2. CASE v # w /\ u # w
    BY <1>1, <1>3, <1>5, <2>2
  <2>3. ASSUME NEW x \in Workers, x # w, exec'[x].n = exec'[w].n PROVE exec'[w].n = 0
    BY <1>1, <1>3, <2>1, <2>3
  <2> QED
    BY <1>5, <2>2, <2>3, Zenon
<1> QED
  BY <1>3, <1>4, <1>5, Zenon DEF Executions

\* Reports that have a name keep their content.
LEMMA PublishedStay ==
  ASSUME Inv, Range(moments) \subseteq Range(moments'), jobs' = jobs,
         NEW j \in jobs, NEW n \in lasting[j], n # None, file'[n] = file[n]
  PROVE  Publishable(n, j)'
<1>1. Publishable(n, j)
  BY DEF Inv, Files
<1>2. \A rows : Genuine(rows, j) => \E table \in Range(moments') : rows = Statistics(table, j)
  BY GenuineStays
<1> QED
  BY <1>1, <1>2, Zenon DEF Publishable, Genuine

\* The temporary file of a running execution is one it is writing.
LEMMA OwnTemp ==
  ASSUME Inv, NEW w \in Workers, exec[w].pc # "idle", exec[w].n \in temps
  PROVE  exec[w].pc \in Writing
<1>1. exec[w].n \in 1..started /\ exec[w].n \notin abandoned
  BY DEF Inv, Executions, Idle, Running
<1>2. PICK v \in Workers : exec[v].n = exec[w].n /\ exec[v].pc \in Writing
  BY <1>1, Zenon DEF Inv, Temps
<1>3. exec[w].n # 0
  BY <1>1
<1> QED
  BY <1>2, <1>3, Zenon DEF Inv, Executions

\* A worker creates, removes or goes on with the temporary file of its own.
LEMMA TempStep ==
  ASSUME Inv, NEW w \in Workers, exec[w].pc # "idle",
         started' = started, abandoned' = abandoned,
         \A v \in Workers : v # w => exec'[v] = exec[v],
         exec'[w].n = exec[w].n,
         \/ temps' = temps /\ (exec[w].pc \in Writing => exec'[w].pc \in Writing)
         \/ temps' = temps \ {exec[w].n}
         \/ temps' = temps \cup {exec[w].n} /\ exec'[w].pc \in Writing
  PROVE  Temps'
<1> DEFINE n == exec[w].n
<1>1. n \in 1..started
  BY DEF Inv, Executions, Idle, Running
<1>2. temps' \subseteq temps \cup {n} /\ temps \subseteq 1..started
  BY Zenon DEF Inv, Temps
<1>3. n \in temps' => exec'[w].pc \in Writing
  BY OwnTemp, Zenon
<1>4. ASSUME NEW t \in temps'
      PROVE  t \in abandoned' \/ \E v \in Workers : exec'[v].n = t /\ exec'[v].pc \in Writing
  <2>1. CASE t = n
    BY <1>3, <2>1, Zenon
  <2>2. CASE t # n
    <3>1. t \in abandoned \/ \E v \in Workers : exec[v].n = t /\ exec[v].pc \in Writing
      BY <1>2, <2>2, Zenon DEF Inv, Temps
    <3> QED
      BY <2>2, <3>1, Zenon
  <2> QED
    BY <2>1, <2>2, Zenon
<1>5. temps' \subseteq 1..started'
  BY <1>1, <1>2, Zenon
<1> QED
  BY <1>4, <1>5, Zenon DEF Temps

\* Nothing is recorded, and what is dialled was checked.
LEMMA ResultsStay ==
  ASSUME Inv, jobs' = jobs, powerLost' = powerLost, UNCHANGED results,
         UNCHANGED dialled \/ DialsChecked',
         \A j \in jobs : report[j] # None => report'[j] # None
  PROVE  Results'
<1>1. Results
  BY DEF Inv
<1>2. \A j \in jobs : \A r \in results[j] : Justified(r.result, r.sent, j)'
  BY <1>1, JustifiedStays, Zenon DEF Results
<1>3. DialsChecked'
  BY <1>1 DEF Results, DialsChecked
<1> QED
  BY <1>1, <1>2, <1>3, Zenon DEF Results

\* The step of a worker that changes its own state and no file.
LEMMA QuietStep ==
  ASSUME Inv, NEW w \in Workers, exec[w].pc # "idle",
         UNCHANGED <<outside, file, report, lasting>>, UNCHANGED dialled \/ DialsChecked',
         exec' = [exec EXCEPT ![w] = exec'[w]], exec'[w] \in Execution, exec'[w].pc # "idle",
         exec'[w].n = exec[w].n, exec'[w].job = exec[w].job, Doing(exec'[w], JobOf(w)),
         \/ temps' = temps /\ (exec[w].pc \in Writing => exec'[w].pc \in Writing)
         \/ temps' = temps \ {exec[w].n}
         \/ temps' = temps \cup {exec[w].n} /\ exec'[w].pc \in Writing
  PROVE  Inv'
<1>1. Base /\ Running(exec[w]) /\ started \in 0..MaxStarts
  BY DEF Inv, Executions, Idle, Base
<1>2. PICK j \in jobs : exec[w].job = j.id
  BY <1>1, Zenon DEF Running
<1>3. JobOf(w) = j
  BY <1>1, <1>2, JobOfIs, Zenon
<1>4. /\ jobs' = jobs /\ moments' = moments /\ started' = started /\ file' = file
      /\ report' = report /\ lasting' = lasting /\ abandoned' = abandoned
      /\ powerLost' = powerLost /\ results' = results
  BY Zenon DEF outside, faultVars
<1>5. started' \in started..MaxStarts
  BY <1>1, <1>4, BoundAssumption
<1>6. Frame(exec[w].n)
  BY <1>4, <1>5, Zenon DEF Frame
<1>7. Running(exec[w])'
  <2>1. Doing(exec'[w], j)
    BY <1>3, Zenon
  <2>2. \A rows : (\E table \in Range(moments') : rows = Statistics(table, j)) <=> Genuine(rows, j)
    BY <1>4, Zenon DEF Genuine
  <2>3. Justified(exec'[w].result, exec'[w].sent, j) => Justified(exec[w].result, exec[w].sent, j)'
    BY <1>4, JustifiedStays
  <2>4. Doing(exec[w], j)'
    BY <1>4, <2>1, <2>2, <2>3, Zenon DEF Doing, Genuine, Checked
  <2> QED
    BY <1>1, <1>2, <1>4, <2>4, Zenon DEF Running
<1>8. Executions'
  <2>1. Execution' = Execution
    BY <1>4, SameTypes, Zenon
  <2> QED
    BY <1>6, <1>7, <2>1, ExecutionStep, Zenon
<1>9. Base'
  BY <1>1, <1>4, Zenon DEF Base
<1>10. Files'
  <2>1. Files /\ File' = File
    BY <1>4, SameTypes, Zenon DEF Inv
  <2>2. \A n, k : Publishable(n, k) => Publishable(n, k)'
    BY <1>4, Zenon DEF Publishable, Genuine
  <2> QED
    BY <1>4, <2>1, <2>2 DEF Files
<1>11. \A v \in Workers : v # w => exec'[v] = exec[v]
  BY Zenon DEF Inv, Executions
<1>12. Temps'
  BY <1>4, <1>11, TempStep, Zenon
<1>13. Results'
  BY <1>4, ResultsStay, Zenon
<1> QED
  BY <1>8, <1>9, <1>10, <1>12, <1>13, Zenon DEF Inv

----------------------------------------------------------------------------
(* Process and Generate.                                                   *)

\* What is known of an execution under way.
LEMMA UnderWay ==
  ASSUME Inv, NEW w \in Workers, exec[w].pc # "idle"
  PROVE  /\ exec[w] \in Execution /\ exec \in [Workers -> Execution]
         /\ exec[w].n \in 1..started /\ exec[w].n \notin abandoned
         /\ JobOf(w) \in jobs /\ exec[w].job = JobOf(w).id /\ Doing(exec[w], JobOf(w))
<1>1. Base /\ Running(exec[w]) /\ exec[w] \in Execution /\ exec \in [Workers -> Execution]
  BY DEF Inv, Executions, Idle
<1>2. PICK j \in jobs : exec[w].job = j.id /\ Doing(exec[w], j)
  BY <1>1, Zenon DEF Running
<1>3. JobOf(w) = j
  BY <1>1, <1>2, JobOfIs, Zenon
<1> QED
  BY <1>1, <1>2, <1>3, Zenon DEF Running

LEMMA IdleIsExecution ==
  ASSUME Base
  PROVE  Idle \in Execution
<1>1. started \in Nat /\ <<>> \in Contents
  BY BoundAssumption DEF Base, Contents, ContentsOf
<1> QED
  BY <1>1 DEF Idle, Execution, PCs, Outcomes, NotSent, None

LEMMA ReturningIs ==
  ASSUME Base, NEW w \in Workers, exec[w] \in Execution, NEW result \in Outcomes
  PROVE  /\ Returning(w, result) \in Execution
         /\ Returning(w, result).sent = NotSent
         /\ [Returning(w, result) EXCEPT !.sent = NotSent] = Returning(w, result)
<1>1. Idle \in Execution
  BY IdleIsExecution
<1>2. Returning(w, result) \in Execution
  BY <1>1, Zenon DEF Returning, Execution, PCs
<1>3. Returning(w, result).sent = NotSent
  BY DEF Returning, Idle
<1> QED
  BY <1>2, <1>3 DEF Execution

\* Process returns.
LEMMA ReturnStep ==
  ASSUME Inv, NEW w \in Workers, exec[w].pc # "idle",
         UNCHANGED <<outside, file, report, lasting>>, UNCHANGED dialled \/ DialsChecked',
         NEW result \in Outcomes \ {"none"}, NEW sent \in Nat,
         exec' = [exec EXCEPT ![w] = [Returning(w, result) EXCEPT !.sent = sent]],
         Justified(result, sent, JobOf(w)),
         \/ temps' = temps /\ exec[w].pc \notin Writing
         \/ temps' = temps \ {exec[w].n}
  PROVE  Inv'
<1> DEFINE e == [Returning(w, result) EXCEPT !.sent = sent]
<1>1. exec[w] \in Execution /\ exec \in [Workers -> Execution] /\ <<>> \in Seq(Address)
  BY UnderWay
<1>2. /\ e.pc = "return" /\ e.n = exec[w].n /\ e.job = exec[w].job /\ e.result = result
      /\ e.sent = sent /\ e.items = <<>> /\ e.addresses = <<>>
  BY DEF Returning, Idle
<1>3. e \in Execution
  <2>1. Returning(w, result) \in Execution
    BY <1>1, ReturningIs DEF Inv
  <2> QED
    BY <2>1, Zenon DEF Execution
<1> HIDE DEF e
<1>4. exec'[w] = e
  BY <1>1 DEF e
<1>5. exec' = [exec EXCEPT ![w] = exec'[w]]
  BY <1>4, Zenon DEF e
<1>6. Doing(e, JobOf(w))
  BY <1>2 DEF Doing, Generating, Delivering
<1> QED
  BY <1>2, <1>3, <1>4, <1>5, <1>6, QuietStep, Zenon

LEMMA ReturnPlain ==
  ASSUME Inv, NEW w \in Workers, exec[w].pc # "idle",
         NEW result \in Outcomes \ {"none"}, Return(w, result)
  PROVE  exec' = [exec EXCEPT ![w] = [Returning(w, result) EXCEPT !.sent = NotSent]]
<1>1. Returning(w, result) = [Returning(w, result) EXCEPT !.sent = NotSent]
  BY UnderWay, ReturningIs DEF Inv
<1> QED
  BY <1>1, Zenon DEF Return

\* CleanupExpiredTokens, or an error of Generate.
LEMMA CleanStep ==
  ASSUME Inv, NEW w \in Workers, Clean(w)
  PROVE  Inv'
<1>1. exec[w].pc = "clean" /\ UNCHANGED <<outside, directory, dialled>>
  BY DEF Clean, At
<1>2. PICK result \in {"succeeded", "transient"} : Return(w, result)
  BY DEF Clean
<1>3. JobOf(w).type = "cleanup"
  BY <1>1, UnderWay, Zenon DEF Doing
<1>4. Justified(result, NotSent, JobOf(w))
  BY <1>3 DEF Justified
<1>5. result \in Outcomes \ {"none"} /\ NotSent \in Nat
  BY DEF Outcomes, NotSent
<1>6. exec' = [exec EXCEPT ![w] = [Returning(w, result) EXCEPT !.sent = NotSent]]
  BY <1>1, <1>2, <1>5, ReturnPlain
<1>7. UNCHANGED <<outside, file, report, lasting>> /\ dialled' = dialled /\ temps' = temps
  BY <1>1 DEF directory
<1> QED
  BY <1>1, <1>4, <1>5, <1>6, <1>7, ReturnStep, Zenon DEF Writing

LEMMA GenerateFailsStep ==
  ASSUME Inv, NEW w \in Workers, GenerateFails(w)
  PROVE  Inv'
<1>1. /\ exec[w].pc # "idle" /\ temps' = temps \ {exec[w].n} /\ Return(w, "transient")
      /\ UNCHANGED <<outside, file, report, lasting>> /\ dialled' = dialled
  BY DEF GenerateFails, Removed, FailureResult
<1>2. Justified("transient", NotSent, JobOf(w))
  BY DEF Justified
<1>3. "transient" \in Outcomes \ {"none"} /\ NotSent \in Nat
  BY DEF Outcomes, NotSent
<1>4. exec' = [exec EXCEPT ![w] = [Returning(w, "transient") EXCEPT !.sent = NotSent]]
  BY <1>1, <1>3, ReturnPlain, Zenon
<1> QED
  BY <1>1, <1>2, <1>3, <1>4, ReturnStep, Zenon

\* The worker goes on to another place.
LEMMA GotoIs ==
  ASSUME Inv, NEW w \in Workers, exec[w].pc # "idle", NEW pc \in PCs, Goto(w, pc)
  PROVE  /\ exec' = [exec EXCEPT ![w] = exec'[w]] /\ exec'[w] \in Execution
         /\ exec'[w].pc = pc /\ exec'[w].n = exec[w].n /\ exec'[w].job = exec[w].job
         /\ exec'[w].items = exec[w].items /\ exec'[w].addresses = exec[w].addresses
         /\ exec'[w].result = exec[w].result /\ exec'[w].sent = exec[w].sent
<1> DEFINE e == [exec[w] EXCEPT !.pc = pc]
<1>1. exec[w] \in Execution /\ exec \in [Workers -> Execution]
  BY UnderWay
<1>2. exec' = [exec EXCEPT ![w] = e]
  BY DEF Goto
<1>3. /\ e \in Execution
      /\ e.pc = pc /\ e.n = exec[w].n /\ e.job = exec[w].job
      /\ e.items = exec[w].items /\ e.addresses = exec[w].addresses
      /\ e.result = exec[w].result /\ e.sent = exec[w].sent
  BY <1>1, Zenon DEF Execution
<1> HIDE DEF e
<1>4. exec'[w] = e
  BY <1>1, <1>2, Zenon
<1> QED
  BY <1>2, <1>3, <1>4, Zenon

LEMMA ProjectExistsStep ==
  ASSUME Inv, NEW w \in Workers, ProjectExists(w)
  PROVE  Inv'
<1>1. /\ exec[w].pc = "project" /\ exec[w].pc # "idle" /\ exec[w].pc \notin Writing
      /\ UNCHANGED <<outside, file, report, lasting>> /\ dialled' = dialled /\ temps' = temps
  BY DEF ProjectExists, At, directory, Writing
<1>2. /\ JobOf(w).type = "report" /\ exec[w].result = "none"
      /\ \A k \in jobs : exec[w].n \notin lasting[k]
  BY <1>1, UnderWay, Zenon DEF Doing, Generating
<1>3. CASE Goto(w, "rows")
  <2>1. /\ exec' = [exec EXCEPT ![w] = exec'[w]] /\ exec'[w] \in Execution
        /\ exec'[w].pc = "rows" /\ exec'[w].n = exec[w].n /\ exec'[w].job = exec[w].job
        /\ exec'[w].result = exec[w].result
    BY <1>1, <1>3, GotoIs, Zenon DEF PCs
  <2>2. Doing(exec'[w], JobOf(w))
    BY <1>2, <2>1, Zenon DEF Doing, Generating, Delivering
  <2> QED
    BY <1>1, <2>1, <2>2, QuietStep, Zenon
<1>4. CASE Return(w, "permanent")
  <2>1. Justified("permanent", NotSent, JobOf(w))
    BY <1>2 DEF Justified
  <2>2. "permanent" \in Outcomes \ {"none"} /\ NotSent \in Nat
    BY DEF Outcomes, NotSent
  <2>3. exec' = [exec EXCEPT ![w] = [Returning(w, "permanent") EXCEPT !.sent = NotSent]]
    BY <1>1, <1>4, <2>2, ReturnPlain, Zenon
  <2> QED
    BY <1>1, <2>1, <2>2, <2>3, ReturnStep, Zenon
<1> QED
  BY <1>3, <1>4 DEF ProjectExists

LEMMA LoadRowsStep ==
  ASSUME Inv, NEW w \in Workers, LoadRows(w)
  PROVE  Inv'
<1> DEFINE j == JobOf(w)
           e == [exec[w] EXCEPT !.pc = "create", !.items = ReportRows(j)]
<1>1. /\ exec[w].pc = "rows" /\ exec[w].pc # "idle" /\ exec[w].pc \notin Writing
      /\ UNCHANGED <<outside, file, report, lasting>> /\ dialled' = dialled /\ temps' = temps
  BY DEF LoadRows, At, directory, Writing
<1>2. /\ exec[w] \in Execution /\ exec \in [Workers -> Execution] /\ j \in jobs
      /\ j.type = "report" /\ exec[w].result = "none"
      /\ \A k \in jobs : exec[w].n \notin lasting[k]
  BY <1>1, UnderWay, Zenon DEF Doing, Generating
<1>3. exec' = [exec EXCEPT ![w] = e]
  BY Zenon DEF LoadRows
<1>4. Genuine(ReportRows(j), j)
  BY <1>2, RowsGenuine, Zenon DEF Inv
<1> HIDE DEF j
<1>5. ReportRows(j) \in Contents
  BY <1>2, <1>4 DEF Genuine, Contents, ContentsOf
<1>6. /\ e \in Execution /\ e.pc = "create" /\ e.n = exec[w].n /\ e.job = exec[w].job
      /\ e.items = ReportRows(j) /\ e.result = exec[w].result
  BY <1>2, <1>5, Zenon DEF Execution, PCs
<1> HIDE DEF e
<1>7. exec'[w] = e
  BY <1>2, <1>3
<1>8. Doing(e, j)
  BY <1>2, <1>4, <1>6, Zenon DEF Doing, Generating, Delivering
<1> QED
  BY <1>1, <1>3, <1>6, <1>7, <1>8, QuietStep, Zenon DEF j

LEMMA CreateTempStep ==
  ASSUME Inv, NEW w \in Workers, CreateTemp(w)
  PROVE  Inv'
<1>1. /\ exec[w].pc = "create" /\ exec[w].pc # "idle"
      /\ UNCHANGED <<outside, file, report, lasting>> /\ dialled' = dialled
      /\ temps' = temps \cup {exec[w].n} /\ Goto(w, "write")
  BY DEF CreateTemp, At
<1>2. /\ JobOf(w).type = "report" /\ exec[w].result = "none"
      /\ Genuine(exec[w].items, JobOf(w))
      /\ \A k \in jobs : exec[w].n \notin lasting[k]
  BY <1>1, UnderWay, Zenon DEF Doing, Generating
<1>3. /\ exec' = [exec EXCEPT ![w] = exec'[w]] /\ exec'[w] \in Execution
      /\ exec'[w].pc = "write" /\ exec'[w].n = exec[w].n /\ exec'[w].job = exec[w].job
      /\ exec'[w].items = exec[w].items /\ exec'[w].result = exec[w].result
  BY <1>1, GotoIs, Zenon DEF PCs
<1>4. Doing(exec'[w], JobOf(w))
  BY <1>2, <1>3, Zenon DEF Doing, Generating, Delivering
<1> QED
  BY <1>1, <1>3, <1>4, QuietStep, Zenon DEF Writing

\* A worker changes its own file, which is not yet anybody's report.
LEMMA FileStep ==
  ASSUME Inv, NEW w \in Workers, exec[w].pc \in {"write", "sync"},
         UNCHANGED <<outside, temps, report, lasting, dialled>>,
         exec' = [exec EXCEPT ![w] = exec'[w]], exec'[w] \in Execution,
         exec'[w].pc \in {"sync", "rename"}, exec'[w].n = exec[w].n,
         exec'[w].job = exec[w].job, exec'[w].result = exec[w].result,
         file' = [file EXCEPT ![exec[w].n] = file'[exec[w].n]], file'[exec[w].n] \in File,
         file'[exec[w].n].whole, Genuine(file'[exec[w].n].rows, JobOf(w)),
         exec'[w].pc = "rename" => file'[exec[w].n].synced
  PROVE  Inv'
<1> DEFINE n == exec[w].n
<1>1. /\ jobs' = jobs /\ moments' = moments /\ started' = started
      /\ report' = report /\ lasting' = lasting /\ abandoned' = abandoned /\ temps' = temps
      /\ powerLost' = powerLost /\ results' = results /\ dialled' = dialled
  BY Zenon DEF outside, faultVars
<1>2. /\ exec[w].pc # "idle" /\ Base /\ exec \in [Workers -> Execution]
      /\ n \in 1..started /\ n \notin abandoned /\ started \in 0..MaxStarts
  BY UnderWay, Zenon DEF Inv, Base
<1> PICK j \in jobs : j = JobOf(w) /\ exec[w].job = j.id
  BY <1>2, UnderWay, Zenon
<1>3. /\ j.type = "report" /\ exec[w].result = "none" /\ \A k \in jobs : n \notin lasting[k]
  BY <1>2, UnderWay, Zenon DEF Doing, Generating
<1>4. /\ file \in [1..MaxStarts -> File] /\ MaxStarts \in Nat
      /\ lasting \in [jobs -> SUBSET (0..started)]
  BY BoundAssumption, Zenon DEF Inv, Files
<1>5. file' \in [1..MaxStarts -> File] /\ \A m \in 1..MaxStarts : m # n => file'[m] = file[m]
  <2>1. n \in 1..MaxStarts
    BY <1>2, <1>4
  <2> QED
    BY <1>4, <2>1, Zenon
<1>6. Frame(exec[w].n)
  <2>1. started' \in started..MaxStarts
    BY <1>1, <1>2, <1>4
  <2> QED
    BY <1>1, <1>5, <2>1, Zenon DEF Frame
<1>7. Execution' = Execution /\ File' = File
  BY <1>1, SameTypes, Zenon
<1>8. Running(exec[w])'
  <2>1. Doing(exec[w], j)'
    BY <1>1, <1>3, Zenon DEF Doing, Generating, Delivering, Genuine
  <2> QED
    BY <1>1, <1>2, <2>1, Zenon DEF Running
<1>9. Executions'
  BY <1>6, <1>7, <1>8, ExecutionStep, Zenon
<1>10. Base'
  BY <1>1, <1>2, Zenon DEF Base
<1>11. Files'
  <2>1. ASSUME NEW k \in jobs, NEW m \in lasting[k], m # None PROVE Publishable(m, k)'
    <3>1. m \in 1..MaxStarts /\ m # n
      BY <1>2, <1>3, <1>4, <2>1 DEF None
    <3> QED
      BY <1>1, <1>5, <2>1, <3>1, PublishedStay, Zenon
  <2> QED
    BY <1>1, <1>5, <1>7, <2>1, Zenon DEF Inv, Files
<1>12. Temps'
  <2>1. \A v \in Workers : v # w => exec'[v] = exec[v]
    BY <1>2, Zenon
  <2> QED
    BY <1>1, <1>2, <2>1, TempStep, Zenon DEF Writing
<1>13. Results'
  BY <1>1, ResultsStay, Zenon
<1> QED
  BY <1>9, <1>10, <1>11, <1>12, <1>13, Zenon DEF Inv

LEMMA WriteItemsStep ==
  ASSUME Inv, NEW w \in Workers, WriteItems(w)
  PROVE  Inv'
<1> DEFINE n == exec[w].n
           f == [file[n] EXCEPT !.whole = TRUE, !.rows = exec[w].items]
           none == <<>>
           e == [exec[w] EXCEPT !.pc = "sync", !.items = none]
<1>1. /\ exec[w].pc = "write" /\ exec[w].pc # "idle"
      /\ UNCHANGED <<outside, temps, report, lasting, dialled>>
      /\ file' = [file EXCEPT ![n] = f] /\ exec' = [exec EXCEPT ![w] = e]
  BY Zenon DEF WriteItems, At
<1>2. /\ exec[w] \in Execution /\ exec \in [Workers -> Execution] /\ n \in 1..started
      /\ Genuine(exec[w].items, JobOf(w)) /\ started \in 0..MaxStarts /\ MaxStarts \in Nat
  BY <1>1, UnderWay, BoundAssumption, Zenon DEF Doing, Inv, Base
<1>3. file \in [1..MaxStarts -> File] /\ file[n] \in File /\ exec[w].items \in Contents
  BY <1>2 DEF Inv, Files, Execution
<1>4. f \in File /\ f.whole /\ f.rows = exec[w].items
  BY <1>3, Zenon DEF File
<1>5. none \in Contents
  BY DEF Contents, ContentsOf
<1> HIDE DEF none
<1>6. /\ e \in Execution /\ e.pc = "sync" /\ e.n = n /\ e.job = exec[w].job
      /\ e.result = exec[w].result
  BY <1>2, <1>5, Zenon DEF Execution, PCs
<1> HIDE DEF e, f
<1>7. exec'[w] = e /\ file'[n] = f
  BY <1>1, <1>2, <1>3
<1> QED
  BY <1>1, <1>2, <1>4, <1>6, <1>7, FileStep, Zenon

LEMMA SyncStep ==
  ASSUME Inv, NEW w \in Workers, Sync(w)
  PROVE  Inv'
<1> DEFINE n == exec[w].n
           f == [file[n] EXCEPT !.synced = TRUE]
<1>1. /\ exec[w].pc = "sync" /\ exec[w].pc # "idle" /\ Goto(w, "rename")
      /\ UNCHANGED <<outside, temps, report, lasting, dialled>>
      /\ file' = [file EXCEPT ![n] = f]
  BY Zenon DEF Sync, At, Synced
<1>2. /\ n \in 1..started /\ started \in 0..MaxStarts /\ MaxStarts \in Nat
      /\ file[n].whole /\ Genuine(file[n].rows, JobOf(w))
  BY <1>1, UnderWay, BoundAssumption, Zenon DEF Doing, Inv, Base
<1>3. file \in [1..MaxStarts -> File] /\ file[n] \in File
  BY <1>2 DEF Inv, Files
<1>4. f \in File /\ f.whole /\ f.synced /\ f.rows = file[n].rows
  BY <1>2, <1>3, Zenon DEF File
<1> HIDE DEF f
<1>5. file'[n] = f
  BY <1>1, <1>2, <1>3
<1>6. /\ exec' = [exec EXCEPT ![w] = exec'[w]] /\ exec'[w] \in Execution
      /\ exec'[w].pc = "rename" /\ exec'[w].n = n /\ exec'[w].job = exec[w].job
      /\ exec'[w].result = exec[w].result
  BY <1>1, GotoIs, Zenon DEF PCs
<1> QED
  BY <1>1, <1>2, <1>4, <1>5, <1>6, FileStep, Zenon

\* The report gets its name, and the file under it is whole and synced.
LEMMA RenameStep ==
  ASSUME Inv, NEW w \in Workers, Rename(w)
  PROVE  Inv'
<1> DEFINE n == exec[w].n
           e == Returning(w, "succeeded")
<1>1. /\ jobs' = jobs /\ moments' = moments /\ started' = started /\ file' = file
      /\ abandoned' = abandoned /\ powerLost' = powerLost /\ results' = results
      /\ dialled' = dialled /\ temps' = temps \ {n} /\ exec[w].pc = "rename"
      /\ exec[w].pc # "idle" /\ exec' = [exec EXCEPT ![w] = e]
  BY DEF Rename, outside, faultVars, At, Return
<1>2. /\ Base /\ exec[w] \in Execution /\ exec \in [Workers -> Execution]
      /\ n \in 1..started /\ n \notin abandoned /\ started \in 0..MaxStarts /\ MaxStarts \in Nat
  BY <1>1, UnderWay, BoundAssumption, Zenon DEF Inv, Base
<1> PICK j \in jobs : j = JobOf(w) /\ exec[w].job = j.id
  BY <1>1, UnderWay, Zenon
<1>3. Publishable(n, j) /\ j.type = "report" /\ \A k \in jobs : n \notin lasting[k]
  BY <1>1, UnderWay, Zenon DEF Doing, Generating, Publishable
<1>4. /\ report' = [report EXCEPT ![j] = n]
      /\ lasting' = [lasting EXCEPT ![j] = lasting[j] \cup {n}]
  BY DEF Rename
<1>5. /\ file \in [1..MaxStarts -> File] /\ report \in [jobs -> 0..started]
      /\ lasting \in [jobs -> SUBSET (0..started)]
      /\ \A k \in jobs : report[k] \in lasting[k]
  BY DEF Inv, Files
<1>6. /\ report' \in [jobs -> 0..started] /\ lasting' \in [jobs -> SUBSET (0..started)]
      /\ report'[j] = n /\ lasting'[j] = lasting[j] \cup {n}
      /\ \A k \in jobs : k # j => report'[k] = report[k] /\ lasting'[k] = lasting[k]
      /\ n # None
  BY <1>2, <1>4, <1>5 DEF None
<1>7. Frame(exec[w].n)
  <2>1. started' \in started..MaxStarts
    BY <1>1, <1>2
  <2>2. \A k \in jobs : lasting'[k] \subseteq lasting[k] \cup {n}
    BY <1>6, Zenon
  <2>3. \A k \in jobs : report[k] # None => report'[k] # None
    BY <1>6, Zenon
  <2> QED
    BY <1>1, <2>1, <2>2, <2>3, Zenon DEF Frame
<1>8. /\ e \in Execution /\ e.pc = "return" /\ e.n = n /\ e.job = exec[w].job
      /\ e.result = "succeeded" /\ e.sent = NotSent
  <2>1. e \in Execution /\ e.sent = NotSent
    BY <1>2, ReturningIs, Zenon DEF Outcomes
  <2>2. /\ e.pc = "return" /\ e.n = n /\ e.job = exec[w].job /\ e.result = "succeeded"
    BY DEF Returning, Idle
  <2> QED
    BY <2>1, <2>2, Zenon
<1> HIDE DEF e
<1>9. exec'[w] = e
  BY <1>1, <1>2, Zenon
<1>10. Execution' = Execution /\ File' = File
  BY <1>1, SameTypes, Zenon
<1>11. Running(exec[w])'
  <2>1. Justified(exec[w].result, exec[w].sent, j)'
    BY <1>3, <1>6, <1>8, <1>9 DEF Justified
  <2>2. Doing(exec[w], j)'
    BY <1>8, <1>9, <2>1, Zenon DEF Doing, Generating, Delivering
  <2> QED
    BY <1>1, <1>2, <1>8, <1>9, <2>2, Zenon DEF Running
<1>12. Executions'
  <2>1. exec' = [exec EXCEPT ![w] = exec'[w]]
    BY <1>1, <1>9, Zenon
  <2> QED
    BY <1>7, <1>8, <1>9, <1>10, <1>11, <2>1, ExecutionStep, Zenon
<1>13. Base'
  BY <1>1, <1>2, Zenon DEF Base
<1>14. Files'
  <2>1. ASSUME NEW k \in jobs, NEW m \in lasting'[k], m # None PROVE Publishable(m, k)'
    <3>1. CASE m \in lasting[k]
      BY <1>1, <2>1, <3>1, PublishedStay, Zenon
    <3>2. CASE m \notin lasting[k]
      <4>1. m = n /\ k = j
        BY <1>6, <3>2, Zenon
      <4> QED
        BY <1>1, <1>3, <4>1, Zenon DEF Publishable, Genuine
    <3> QED
      BY <3>1, <3>2, Zenon
  <2>2. \A k \in jobs : report'[k] \in lasting'[k]
    BY <1>5, <1>6, Zenon
  <2> QED
    BY <1>1, <1>5, <1>6, <1>10, <2>1, <2>2, Zenon DEF Files
<1>15. Temps'
  <2>1. \A v \in Workers : v # w => exec'[v] = exec[v]
    BY <1>1, <1>2, Zenon
  <2> QED
    BY <1>1, <1>8, <1>9, <2>1, TempStep, Zenon
<1>16. Results'
  BY <1>1, <1>6, ResultsStay, Zenon
<1> QED
  BY <1>12, <1>13, <1>14, <1>15, <1>16, Zenon DEF Inv

----------------------------------------------------------------------------
(* Deliver.                                                                *)

LEMMA LookupAddresses ==
  ASSUME NEW host, NEW addresses \in Lookup(host)
  PROVE  addresses \in Seq(Address)
<1>1. CASE host \in DOMAIN Literal
  <2> DEFINE a == Literal[host]
  <2>1. a \in Address /\ addresses = <<a>>
    BY <1>1, AddressAssumption DEF Lookup
  <2> HIDE DEF a
  <2> QED
    BY <2>1
<1>2. CASE host \notin DOMAIN Literal
  BY <1>2, AddressAssumption, Zenon DEF Lookup
<1> QED
  BY <1>1, <1>2

LEMMA ResolveStep ==
  ASSUME Inv, NEW w \in Workers, Resolve(w)
  PROVE  Inv'
<1> DEFINE j == JobOf(w)
<1>1. /\ exec[w].pc = "resolve" /\ exec[w].pc # "idle" /\ exec[w].pc \notin Writing
      /\ UNCHANGED <<outside, file, report, lasting>> /\ dialled' = dialled /\ temps' = temps
  BY DEF Resolve, At, directory, Writing
<1>2. /\ exec[w] \in Execution /\ exec \in [Workers -> Execution]
      /\ j.type = "webhook" /\ exec[w].result = "none"
  BY <1>1, UnderWay, Zenon DEF Doing, Delivering
<1>3. PICK addresses \in Lookup(j.host) :
        exec' = [exec EXCEPT ![w] =
          IF Target(j, addresses) = "dial"
          THEN [exec[w] EXCEPT !.pc = "dial", !.addresses = addresses]
          ELSE Returning(w, Target(j, addresses))]
  BY <1>2, Zenon DEF Resolve
<1>4. addresses \in Seq(Address)
  BY LookupAddresses
<1> HIDE DEF j
<1>5. CASE Target(j, addresses) = "dial"
  <2> DEFINE e == [exec[w] EXCEPT !.pc = "dial", !.addresses = addresses]
  <2>1. addresses # <<>> /\ Checked(addresses, j)
    BY <1>5, Zenon DEF Target, Checked
  <2>2. exec' = [exec EXCEPT ![w] = e]
    BY <1>3, <1>5, Zenon
  <2>3. /\ e \in Execution /\ e.pc = "dial" /\ e.n = exec[w].n /\ e.job = exec[w].job
        /\ e.addresses = addresses /\ e.result = exec[w].result
    BY <1>2, <1>4, Zenon DEF Execution, PCs
  <2> HIDE DEF e
  <2>4. exec'[w] = e
    BY <1>2, <2>2, Zenon
  <2>5. Doing(e, j)
    BY <1>2, <2>1, <2>3, Zenon DEF Doing, Generating, Delivering
  <2> QED
    BY <1>1, <2>2, <2>3, <2>4, <2>5, QuietStep, Zenon DEF j
<1>6. CASE Target(j, addresses) # "dial"
  <2> DEFINE r == Target(j, addresses)
  <2>1. r \in {"transient", "permanent"} /\ NotSent \in Nat
    <3>1. NotSent \in Nat
      BY DEF NotSent
    <3>2. CASE j.host = ""
      BY <3>1, <3>2, Zenon DEF Target
    <3>3. CASE j.host # "" /\ addresses = <<>>
      BY <3>1, <3>3, Zenon DEF Target
    <3>4. CASE j.host # "" /\ addresses # <<>>
      BY <1>6, <3>1, <3>4, Zenon DEF Target
    <3> QED
      BY <3>2, <3>3, <3>4, Zenon
  <2>2. exec' = [exec EXCEPT ![w] = Returning(w, r)]
    BY <1>3, <1>6, Zenon
  <2> HIDE DEF r
  <2>3. r \in Outcomes \ {"none"}
    BY <2>1 DEF Outcomes
  <2>4. exec' = [exec EXCEPT ![w] = [Returning(w, r) EXCEPT !.sent = NotSent]]
    BY <1>1, <2>2, <2>3, ReturnPlain, Zenon DEF Return
  <2>5. Justified(r, NotSent, j)
    BY <1>2, <2>1 DEF Justified
  <2> QED
    BY <1>1, <2>1, <2>3, <2>4, <2>5, ReturnStep, Zenon DEF j
<1> QED
  BY <1>5, <1>6, Zenon

\* The dialer refuses the host.
LEMMA UnexpectedHostStep ==
  ASSUME Inv, NEW w \in Workers, UnexpectedHost(w)
  PROVE  Inv'
<1>1. /\ exec[w].pc = "dial" /\ exec[w].pc # "idle" /\ exec[w].pc \notin Writing
      /\ UNCHANGED <<outside, file, report, lasting>> /\ dialled' = dialled /\ temps' = temps
      /\ Return(w, "permanent")
  BY Zenon DEF UnexpectedHost, At, directory, Writing
<1>2. Justified("permanent", NotSent, JobOf(w))
  <2>1. JobOf(w).type = "webhook"
    BY <1>1, UnderWay, Zenon DEF Doing, Delivering
  <2> QED
    BY <2>1 DEF Justified
<1>3. "permanent" \in Outcomes \ {"none"} /\ NotSent \in Nat
  BY DEF Outcomes, NotSent
<1>4. exec' = [exec EXCEPT ![w] = [Returning(w, "permanent") EXCEPT !.sent = NotSent]]
  BY <1>1, <1>3, ReturnPlain, Zenon
<1> QED
  BY <1>1, <1>2, <1>3, <1>4, ReturnStep, Zenon

\* One round of the dialer's loop.
LEMMA DialStep ==
  ASSUME Inv, NEW w \in Workers, Dial(w)
  PROVE  Inv'
<1> DEFINE j == JobOf(w)
           all == exec[w].addresses
           a == Head(all)
           none == <<>>
<1>1. /\ exec[w].pc = "dial" /\ exec[w].pc # "idle" /\ exec[w].pc \notin Writing
      /\ UNCHANGED <<outside, file, report, lasting>> /\ temps' = temps /\ jobs' = jobs
      /\ dialled' = dialled \cup {<<exec[w].job, a>>}
  BY Zenon DEF Dial, At, directory, Writing, outside, DialTarget
<1>2. /\ exec[w] \in Execution /\ exec \in [Workers -> Execution] /\ j \in jobs
      /\ j.type = "webhook" /\ exec[w].result = "none" /\ exec[w].job = j.id
      /\ Checked(all, j) /\ all # <<>> /\ all \in Seq(Address)
  BY <1>1, UnderWay, Zenon DEF Doing, Delivering, Execution
<1>3. /\ a \in Range(all) /\ Tail(all) \in Seq(Address)
      /\ Len(all) > 1 => Tail(all) # <<>> /\ Range(Tail(all)) \subseteq Range(all)
  <2> HIDE DEF all
  <2>1. Len(all) \in Nat /\ Len(all) >= 1 /\ Tail(all) \in Seq(Address)
        /\ Len(Tail(all)) = Len(all) - 1 /\ a = all[1]
        /\ \A i \in 1..Len(Tail(all)) : Tail(all)[i] = all[i + 1] /\ i + 1 \in 1..Len(all)
    BY <1>2
  <2> QED
    BY <2>1 DEF Range
<1>4. DialsChecked'
  <2> SUFFICES ASSUME NEW k \in jobs, k.host \notin AllowedHosts, NEW d \in dialled', d[1] = k.id
               PROVE  ~BlockedIP(d[2])
    BY <1>1, Zenon DEF DialsChecked
  <2>1. CASE d \in dialled
    BY <2>1, Zenon DEF Inv, Results, DialsChecked
  <2>2. CASE d = <<exec[w].job, a>>
    <3> HIDE DEF a, all, j
    <3>1. d[1] = exec[w].job /\ d[2] = a
      BY <2>2, Zenon
    <3>2. k = j
      BY <1>2, <3>1, JobAssumption, Zenon DEF Inv, Base
    <3> QED
      BY <1>2, <1>3, <3>1, <3>2, Zenon DEF Checked
  <2> QED
    BY <1>1, <2>1, <2>2, Zenon
<1> HIDE DEF j, all, a, none
<1>5. CASE exec' = [exec EXCEPT ![w].pc = "answer", ![w].addresses = <<>>]
  <2> DEFINE e == [exec[w] EXCEPT !.pc = "answer", !.addresses = none]
  <2>1. exec' = [exec EXCEPT ![w] = e]
    BY <1>5, Zenon DEF none
  <2>2. none \in Seq(Address)
    BY DEF none
  <2>3. /\ e \in Execution /\ e.pc = "answer" /\ e.n = exec[w].n /\ e.job = exec[w].job
        /\ e.result = exec[w].result
    BY <1>2, <2>2, Zenon DEF Execution, PCs
  <2> HIDE DEF e
  <2>4. exec'[w] = e
    BY <1>2, <2>1, Zenon
  <2>5. Doing(e, j)
    BY <1>2, <2>3, Zenon DEF Doing, Generating, Delivering
  <2> QED
    BY <1>1, <1>4, <2>1, <2>3, <2>4, <2>5, QuietStep, Zenon DEF j
<1>6. CASE Len(all) > 1 /\ exec' = [exec EXCEPT ![w].addresses = Tail(@)]
  <2> DEFINE e == [exec[w] EXCEPT !.addresses = Tail(all)]
  <2>1. exec' = [exec EXCEPT ![w] = e]
    BY <1>6, Zenon DEF all
  <2>2. /\ e \in Execution /\ e.pc = "dial" /\ e.n = exec[w].n /\ e.job = exec[w].job
        /\ e.result = exec[w].result /\ e.addresses = Tail(all)
    BY <1>1, <1>2, <1>3, Zenon DEF Execution, PCs
  <2> HIDE DEF e
  <2>3. exec'[w] = e
    BY <1>2, <2>1, Zenon
  <2>4. Checked(Tail(all), j)
    BY <1>2, <1>3, <1>6, Zenon DEF Checked
  <2>5. Doing(e, j)
    BY <1>2, <1>3, <1>6, <2>2, <2>4, Zenon DEF Doing, Generating, Delivering
  <2> QED
    BY <1>1, <1>4, <2>1, <2>2, <2>3, <2>5, QuietStep, Zenon DEF j
<1>7. CASE Return(w, "transient")
  <2>1. Justified("transient", NotSent, j)
    BY DEF Justified
  <2>2. "transient" \in Outcomes \ {"none"} /\ NotSent \in Nat
    BY DEF Outcomes, NotSent
  <2>3. exec' = [exec EXCEPT ![w] = [Returning(w, "transient") EXCEPT !.sent = NotSent]]
    BY <1>1, <1>7, <2>2, ReturnPlain, Zenon
  <2> QED
    BY <1>1, <1>4, <2>1, <2>2, <2>3, ReturnStep, Zenon DEF j
<1> QED
  BY <1>5, <1>6, <1>7, Zenon DEF Dial, all

\* The answer arrives, or does not.
LEMMA AnswerStep ==
  ASSUME Inv, NEW w \in Workers, Answered(w) \/ DeliverFails(w)
  PROVE  Inv'
<1> DEFINE j == JobOf(w)
<1>1. /\ exec[w].pc \in Delivering /\ exec[w].pc # "idle" /\ exec[w].pc \notin Writing
      /\ UNCHANGED <<outside, file, report, lasting>> /\ dialled' = dialled /\ temps' = temps
  <2>1. exec[w].pc \in Delivering /\ UNCHANGED <<outside, directory, dialled>>
    BY Zenon DEF Answered, DeliverFails, At, Delivering
  <2> QED
    BY <2>1, Zenon DEF directory, Writing, Delivering
<1>2. j.type = "webhook"
  BY <1>1, UnderWay, Zenon DEF Doing
<1> HIDE DEF j
<1>3. ASSUME NEW result \in {"succeeded", "transient", "permanent"}, NEW sent \in Nat,
             exec' = [exec EXCEPT ![w] = [Returning(w, result) EXCEPT !.sent = sent]],
             Justified(result, sent, j)
      PROVE  Inv'
  <2>1. result \in Outcomes \ {"none"}
    BY <1>3 DEF Outcomes
  <2> QED
    BY <1>1, <1>3, <2>1, ReturnStep, Zenon DEF j
<1>4. CASE Answered(w)
  <2>1. PICK status \in Statuses :
          exec' = [exec EXCEPT ![w] = [Returning(w, OutcomeOf(status)) EXCEPT !.sent = status]]
    BY <1>4, Zenon DEF Answered
  <2>2. status \in 0..999 /\ status \in Nat
    BY StatusAssumption
  <2>3. OutcomeOf(status) \in {"succeeded", "transient", "permanent"}
    BY Zenon DEF OutcomeOf
  <2>4. /\ OutcomeOf(status) = "succeeded" => status \in 200..299
        /\ OutcomeOf(status) = "permanent" => status \in (0..499 \ (200..299 \cup {408, 425, 429}))
    BY <2>2 DEF OutcomeOf, RetryableStatus
  <2>5. Justified(OutcomeOf(status), status, j)
    BY <1>2, <2>4 DEF Justified
  <2>6. status \in Nat
    BY <2>2
  <2> QED
    BY <1>3, <2>1, <2>3, <2>5, <2>6, Zenon
<1>5. CASE DeliverFails(w)
  <2> DEFINE sent == IF At(w, "answer") THEN Unanswered ELSE NotSent
  <2>1. exec' = [exec EXCEPT ![w] = [Returning(w, "transient") EXCEPT !.sent = sent]]
    BY <1>5, Zenon DEF DeliverFails
  <2>2. sent \in Nat
    BY DEF Unanswered, NotSent
  <2> HIDE DEF sent
  <2>3. Justified("transient", sent, j)
    BY DEF Justified
  <2> QED
    BY <1>3, <2>1, <2>2, <2>3, Zenon
<1> QED
  BY <1>4, <1>5, Zenon

----------------------------------------------------------------------------
(* Executions begin and end.                                               *)

\* The worker records the outcome of the execution.
Recorded(w) ==
  /\ exec[w].pc = "return"
  /\ results' = [results EXCEPT ![JobOf(w)] =
       @ \cup {[result |-> exec[w].result, sent |-> exec[w].sent]}]

\* A worker without an execution has no file.
LEMMA IdleStep ==
  ASSUME Inv, NEW w \in Workers, exec[w].pc # "idle", exec' = [exec EXCEPT ![w] = Idle],
         UNCHANGED <<jobs, moments, started, file, temps, report, lasting, dialled, powerLost>>,
         \/ abandoned' = abandoned /\ exec[w].pc \notin Writing
         \/ abandoned' = abandoned \cup {exec[w].n},
         results' = results \/ Recorded(w)
  PROVE  Inv'
<1> DEFINE n == exec[w].n
<1>1. /\ Base /\ exec[w] \in Execution /\ exec \in [Workers -> Execution] /\ Idle \in Execution
      /\ n \in 1..started /\ started \in 0..MaxStarts /\ MaxStarts \in Nat
      /\ abandoned \subseteq 1..started /\ abandoned' \subseteq abandoned \cup {n}
      /\ abandoned \subseteq abandoned'
  BY UnderWay, IdleIsExecution, BoundAssumption, Zenon DEF Inv, Base
<1> PICK j \in jobs : j = JobOf(w) /\ exec[w].job = j.id
  BY UnderWay, Zenon
<1>2. Frame(exec[w].n)
  <2>1. started' \in started..MaxStarts
    BY <1>1
  <2> QED
    BY <1>1, <2>1, Zenon DEF Frame
<1>3. exec'[w] = Idle /\ \A v \in Workers : v # w => exec'[v] = exec[v]
  BY <1>1, Zenon
<1>4. Execution' = Execution /\ File' = File
  BY SameTypes, Zenon
<1>5. Executions'
  <2>1. Idle.n = 0
    BY Zenon DEF Idle
  <2> QED
    BY <1>1, <1>2, <1>3, <1>4, <2>1, ExecutionStep, Zenon
<1>6. Base'
  <2>1. abandoned' \subseteq 1..started
    BY <1>1, Zenon
  <2> QED
    BY <1>1, <2>1, Zenon DEF Base
<1>7. Files'
  BY <1>4, Zenon DEF Inv, Files, Publishable, Genuine
<1>8. Temps'
  <2>1. ASSUME NEW t \in temps
        PROVE  t \in abandoned' \/ \E v \in Workers : exec'[v].n = t /\ exec'[v].pc \in Writing
    <3>1. CASE t \in abandoned
      BY <1>1, <3>1, Zenon
    <3>2. CASE t = n
      BY <2>1, <3>2, OwnTemp, Zenon
    <3>3. ASSUME NEW v \in Workers, exec[v].n = t, exec[v].pc \in Writing, t # n
          PROVE  exec'[v].n = t /\ exec'[v].pc \in Writing
      BY <1>3, <3>3, Zenon
    <3> QED
      BY <3>1, <3>2, <3>3, Zenon DEF Inv, Temps
  <2> QED
    BY <2>1, Zenon DEF Inv, Temps
<1>9. Results'
  <2>1. CASE results' = results
    BY <2>1, ResultsStay, Zenon
  <2>2. CASE results' # results
    <3> DEFINE r == [result |-> exec[w].result, sent |-> exec[w].sent]
    <3>1. results' = [results EXCEPT ![j] = results[j] \cup {r}] /\ exec[w].pc = "return"
      BY <2>2, Zenon DEF Recorded
    <3>2. Justified(exec[w].result, exec[w].sent, j)
      BY <3>1, UnderWay, Zenon DEF Doing
    <3>3. /\ r.result = exec[w].result /\ r.sent = exec[w].sent
          /\ r \in [result : Outcomes, sent : Nat]
      BY <1>1, Zenon DEF Execution
    <3> HIDE DEF r
    <3>4. /\ results \in [jobs -> SUBSET [result : Outcomes, sent : Nat]] /\ DialsChecked
          /\ \A k \in jobs : \A x \in results[k] : Justified(x.result, x.sent, k)
      BY Zenon DEF Inv, Results
    <3>5. /\ results' \in [jobs -> SUBSET [result : Outcomes, sent : Nat]]
          /\ \A k \in jobs : \A x \in results'[k] : x \in results[k] \/ (k = j /\ x = r)
      BY <3>1, <3>3, <3>4, Zenon
    <3>6. \A k \in jobs : \A x \in results'[k] : Justified(x.result, x.sent, k)
      BY <3>2, <3>3, <3>4, <3>5, Zenon
    <3>7. \A k \in jobs : \A x \in results'[k] : Justified(x.result, x.sent, k)'
      BY <3>6, JustifiedStays, Zenon
    <3>8. DialsChecked'
      BY <3>4, Zenon DEF DialsChecked
    <3> QED
      BY <3>5, <3>7, <3>8, Zenon DEF Results
  <2> QED
    BY <2>1, <2>2, Zenon
<1> QED
  BY <1>5, <1>6, <1>7, <1>8, <1>9, Zenon DEF Inv

LEMMA RecordStep ==
  ASSUME Inv, NEW w \in Workers, Record(w)
  PROVE  Inv'
BY IdleStep, Zenon DEF Record, Recorded, At, directory, faultVars, Writing

LEMMA CrashStep ==
  ASSUME Inv, NEW w \in Workers, Crash(w)
  PROVE  Inv'
BY IdleStep, Zenon DEF Crash, At, directory

\* A worker takes a job, with a number nobody has had.
LEMMA BeginStep ==
  ASSUME Inv, NEW w \in Workers, NEW j \in jobs, Begin(w, j)
  PROVE  Inv'
<1> DEFINE n == started + 1
           taken == [Idle EXCEPT !.job = j.id, !.n = n]
           e == IF j.type \in Supported /\ PayloadValid(j)
                THEN [taken EXCEPT !.pc = FirstStep(j)]
                ELSE [taken EXCEPT !.pc = "return", !.result = "permanent"]
<1>1. /\ exec[w].pc = "idle" /\ started < MaxStarts /\ started' = n
      /\ exec' = [exec EXCEPT ![w] = e] /\ jobs' = jobs /\ moments' = moments
      /\ file' = file /\ temps' = temps /\ report' = report /\ lasting' = lasting
      /\ results' = results /\ dialled' = dialled /\ abandoned' = abandoned
      /\ powerLost' = powerLost
  BY Zenon DEF Begin, directory, faultVars
<1>2. /\ Base /\ started \in 0..MaxStarts /\ MaxStarts \in Nat /\ n \in 1..started'
      /\ exec \in [Workers -> Execution] /\ exec[w] = Idle /\ exec[w].n = 0
      /\ abandoned \subseteq 1..started
  BY <1>1, BoundAssumption DEF Inv, Base, Executions, Idle
<1>3. started' \in 0..MaxStarts /\ started' \in started..MaxStarts /\ n \notin 0..started
      /\ 0..started \subseteq 0..started' /\ 1..started \subseteq 1..started'
  BY <1>1, <1>2
<1>4. Frame(exec[w].n)
  BY <1>1, <1>3, Zenon DEF Frame
<1>5. /\ Execution \subseteq Execution' /\ File \subseteq File'
  BY <1>1, <1>2, <1>3, ExecutionsStay, Zenon
<1>6. /\ taken \in Execution' /\ taken.n = n /\ taken.job = j.id /\ taken.result = "none"
      /\ taken.sent = NotSent
  <2>1. Idle \in Execution'
    BY <1>2, <1>5, IdleIsExecution, Zenon
  <2>2. Idle.result = "none" /\ Idle.sent = NotSent
    BY Zenon DEF Idle
  <2>3. j.id \in {k.id : k \in jobs'} /\ n \in 0..started'
    BY <1>1, <1>2
  <2> HIDE DEF n
  <2> QED
    BY <2>1, <2>2, <2>3, Zenon DEF Execution
<1> HIDE DEF taken
<1>7. /\ e \in Execution' /\ e.n = n /\ e.job = j.id /\ e.sent = NotSent
      /\ \/ e.pc = "return" /\ e.result = "permanent"
         \/ /\ e.result = "none"
            /\ \/ e.pc = "project" /\ j.type = "report"
               \/ e.pc = "resolve" /\ j.type = "webhook"
               \/ e.pc = "clean" /\ j.type = "cleanup"
  <2>1. CASE j.type \in Supported /\ PayloadValid(j)
    <3>1. \/ FirstStep(j) = "project" /\ j.type = "report"
          \/ FirstStep(j) = "resolve" /\ j.type = "webhook"
          \/ FirstStep(j) = "clean" /\ j.type = "cleanup"
      BY <2>1, Zenon DEF FirstStep, Supported
    <3>2. e = [taken EXCEPT !.pc = FirstStep(j)] /\ FirstStep(j) \in PCs
      BY <2>1, <3>1, Zenon DEF PCs
    <3> HIDE DEF e
    <3> QED
      BY <1>6, <3>1, <3>2, Zenon DEF Execution
  <2>2. CASE ~(j.type \in Supported /\ PayloadValid(j))
    <3>1. e = [taken EXCEPT !.pc = "return", !.result = "permanent"]
      BY <2>2
    <3> HIDE DEF e
    <3> QED
      BY <1>6, <3>1, Zenon DEF Execution, PCs, Outcomes
  <2> QED
    BY <2>1, <2>2, Zenon
<1> HIDE DEF e
<1>8. exec'[w] = e /\ exec' = [exec EXCEPT ![w] = exec'[w]]
      /\ \A v \in Workers : v # w => exec'[v] = exec[v]
  BY <1>1, <1>2, Zenon
<1>9. Running(exec[w])'
  <2>1. \A k \in jobs : n \notin lasting[k]
    BY <1>3, Zenon DEF Inv, Files
  <2>2. Justified("permanent", NotSent, j)'
    BY DEF Justified
  <2>3. Doing(exec[w], j)'
    BY <1>1, <1>7, <1>8, <2>1, <2>2 DEF Doing, Generating, Delivering, NotSent
  <2>4. n \notin abandoned
    BY <1>2, <1>3
  <2> QED
    BY <1>1, <1>2, <1>7, <1>8, <2>3, <2>4, Zenon DEF Running
<1>10. Executions'
  BY <1>1, <1>4, <1>7, <1>8, <1>9, ExecutionStep, Zenon
<1>11. Base'
  BY <1>1, <1>2, <1>3, Zenon DEF Base
<1>12. Files'
  <2>1. \A k \in jobs : \A m \in lasting[k] : m # None => Publishable(m, k)'
    BY <1>1, PublishedStay, Zenon
  <2> QED
    BY <1>1, <1>3, <1>5, <2>1, Zenon DEF Inv, Files
<1>13. Temps'
  <2>1. \A t \in temps : \/ t \in abandoned
                         \/ \E v \in Workers : exec'[v].n = t /\ exec'[v].pc \in Writing
    BY <1>1, <1>8 DEF Inv, Temps, Writing
  <2> QED
    BY <1>1, <1>3, <2>1 DEF Inv, Temps
<1>14. Results'
  BY <1>1, ResultsStay, Zenon
<1> QED
  BY <1>10, <1>11, <1>12, <1>13, <1>14, Zenon DEF Inv

\* The statistics move on under the executions, or nothing does.
LEMMA OnlyMoments ==
  ASSUME Inv, moments' \in Seq(Range(moments')), moments' # <<>>,
         Range(moments) \subseteq Range(moments'),
         UNCHANGED <<jobs, exec, started, file, temps, report, lasting, results, dialled,
                     abandoned, powerLost>>
  PROVE  Inv'
<1>1. /\ jobs' = jobs /\ exec' = exec /\ started' = started /\ file' = file /\ temps' = temps
      /\ report' = report /\ lasting' = lasting /\ results' = results /\ dialled' = dialled
      /\ abandoned' = abandoned /\ powerLost' = powerLost
  BY Zenon
<1>2. /\ Base /\ started \in 0..MaxStarts /\ MaxStarts \in Nat
      /\ moments' \in Seq(Range(moments')) /\ moments' # <<>>
      /\ Range(moments) \subseteq Range(moments')
  BY BoundAssumption, Zenon DEF Inv, Base
<1>3. started' \in started..MaxStarts
  BY <1>1, <1>2
<1>4. Frame(0)
  BY <1>1, <1>2, <1>3, Zenon DEF Frame
<1>5. Execution \subseteq Execution' /\ File \subseteq File'
  BY <1>1, <1>2, <1>3, ExecutionsStay, Zenon
<1>6. Executions'
  <2>1. ASSUME NEW v \in Workers
        PROVE  exec'[v] = Idle \/ (exec'[v].pc # "idle" /\ Running(exec[v])')
    <3>1. CASE exec[v] = Idle
      BY <1>1, <3>1, Zenon
    <3>2. CASE exec[v] # Idle
      <4>1. exec[v].pc # "idle" /\ exec[v].n \in 1..started
        BY <3>2, Zenon DEF Inv, Executions, Running
      <4>2. exec[v].n # 0
        BY <4>1
      <4> QED
        BY <1>1, <1>4, <4>1, <4>2, OtherRuns, Zenon
    <3> QED
      BY <3>1, <3>2, Zenon
  <2>2. exec' \in [Workers -> Execution']
    BY <1>1, <1>5, Zenon DEF Inv, Executions
  <2> QED
    BY <1>1, <2>1, <2>2, Zenon DEF Inv, Executions
<1>7. Base'
  BY <1>1, <1>2, Zenon DEF Base
<1>8. Files'
  <2>1. \A k \in jobs : \A m \in lasting[k] : m # None => Publishable(m, k)'
    BY <1>1, <1>2, PublishedStay, Zenon
  <2> QED
    BY <1>1, <1>5, <2>1, Zenon DEF Inv, Files
<1>9. Temps'
  BY <1>1, Zenon DEF Inv, Temps
<1>10. Results'
  BY <1>1, ResultsStay, Zenon
<1> QED
  BY <1>6, <1>7, <1>8, <1>9, <1>10, Zenon DEF Inv

LEMMA StoreEventStep ==
  ASSUME Inv, StoreEvent
  PROVE  Inv'
<1>1. /\ moments' \in Seq(Range(moments')) /\ moments' # <<>>
      /\ Range(moments) \subseteq Range(moments')
  BY MomentsGrow DEF Inv
<1> QED
  BY <1>1, OnlyMoments, Zenon DEF StoreEvent, directory, faultVars

LEMMA StutterStep ==
  ASSUME Inv, UNCHANGED vars
  PROVE  Inv'
<1>1. moments' = moments
  BY DEF vars
<1>2. /\ moments' \in Seq(Range(moments')) /\ moments' # <<>>
      /\ Range(moments) \subseteq Range(moments')
  BY <1>1, Zenon DEF Inv, Base
<1> QED
  BY <1>2, OnlyMoments, Zenon DEF vars, directory, faultVars

LEMMA FreshIsFile == Fresh \in File
<1> DEFINE none == <<>>
<1>1. none \in Contents
  BY DEF Contents, ContentsOf
<1> HIDE DEF none
<1>2. [whole |-> FALSE, rows |-> none, synced |-> FALSE] \in File
  BY <1>1 DEF File
<1> QED
  BY <1>2, Zenon DEF none, Fresh

\* After a loss of power a report has a name it may have had, and a file with a
\* name was synced before it got it.
LEMMA PowerLossStep ==
  ASSUME Inv, PowerLoss
  PROVE  Inv'
<1>1. /\ jobs' = jobs /\ moments' = moments /\ started' = started
      /\ results' = results /\ dialled' = dialled /\ powerLost' = TRUE
      /\ abandoned' = 1..started /\ exec' = [w \in Workers |-> Idle]
  BY DEF PowerLoss
<1>2. /\ Base /\ started \in 0..MaxStarts /\ MaxStarts \in Nat /\ Idle \in Execution
      /\ file \in [1..MaxStarts -> File] /\ lasting \in [jobs -> SUBSET (0..started)]
      /\ temps \subseteq 1..started
  <2>1. Base /\ file \in [1..MaxStarts -> File] /\ lasting \in [jobs -> SUBSET (0..started)]
        /\ temps \subseteq 1..started
    BY Zenon DEF Inv, Files, Temps
  <2> QED
    BY <2>1, IdleIsExecution, BoundAssumption, Zenon DEF Base
<1>3. Execution' = Execution /\ File' = File
  BY <1>1, SameTypes, Zenon
<1>4. PICK torn \in SUBSET {n \in 1..started : ~file[n].synced} :
        file' = [n \in DOMAIN file |-> IF n \in torn THEN [Fresh EXCEPT !.synced = TRUE]
                                       ELSE [file[n] EXCEPT !.synced = n <= started]]
  BY Zenon DEF PowerLoss
<1>5. PICK chosen \in [jobs -> 0..started] :
        /\ \A j \in jobs : chosen[j] \in lasting[j]
        /\ report' = chosen
        /\ lasting' = [j \in jobs |-> {chosen[j]}]
        /\ temps' = (temps \cup UNION {lasting[j] : j \in jobs})
                      \ ({None} \cup {chosen[j] : j \in jobs})
  BY Zenon DEF PowerLoss
<1>6. Executions'
  <2>1. Idle.n = 0
    BY Zenon DEF Idle
  <2>2. exec' \in [Workers -> Execution] /\ \A v \in Workers : exec'[v] = Idle
    BY <1>1, <1>2, Zenon
  <2> QED
    BY <1>3, <2>1, <2>2, Zenon DEF Executions
<1>7. Base'
  BY <1>1, <1>2, Zenon DEF Base
<1>8. file' \in [1..MaxStarts -> File]
  <2>1. [Fresh EXCEPT !.synced = TRUE] \in File
    <3>1. Fresh \in File
      BY FreshIsFile, Zenon
    <3> QED
      BY <3>1, Zenon DEF File
  <2>2. ASSUME NEW n \in 1..MaxStarts PROVE [file[n] EXCEPT !.synced = n <= started] \in File
    <3> DEFINE b == n <= started
    <3>1. b \in BOOLEAN /\ file[n] \in File
      BY <1>2
    <3> HIDE DEF b
    <3>2. [file[n] EXCEPT !.synced = b] \in File
      BY <3>1, Zenon DEF File
    <3> QED
      BY <3>2, Zenon DEF b
  <2> QED
    BY <1>2, <1>4, <2>1, <2>2, Zenon
<1>9. ASSUME NEW k \in jobs, chosen[k] # None PROVE Publishable(chosen[k], k)'
  <2> DEFINE m == chosen[k]
  <2>1. m \in lasting[k] /\ m \in 1..MaxStarts /\ m <= started
    BY <1>2, <1>5, <1>9 DEF None
  <2>2. Publishable(m, k)
    BY <1>9, <2>1, Zenon DEF Inv, Files
  <2>3. file'[m] = [file[m] EXCEPT !.synced = m <= started] /\ file[m] \in File
    BY <1>2, <1>4, <2>1, <2>2, Zenon DEF Publishable
  <2>4. file'[m].whole = file[m].whole /\ file'[m].rows = file[m].rows /\ file'[m].synced
    BY <2>1, <2>3, Zenon DEF File
  <2>5. \A n : n = m => Publishable(n, k)'
    BY <1>1, <2>2, <2>4, Zenon DEF Publishable, Genuine
  <2> QED
    BY <1>5, <2>5, Zenon
<1>10. Files'
  <2>1. /\ report' \in [jobs -> 0..started] /\ lasting' \in [jobs -> SUBSET (0..started)]
        /\ \A k \in jobs : report'[k] = chosen[k] /\ lasting'[k] = {chosen[k]}
    BY <1>5, Zenon
  <2>2. \A k \in jobs : report'[k] \in lasting'[k]
    BY <2>1, Zenon
  <2>3. ASSUME NEW k \in jobs, NEW m \in lasting'[k], m # None PROVE Publishable(m, k)'
    <3>1. m = chosen[k]
      BY <2>1, Zenon
    <3> QED
      BY <1>9, <2>3, <3>1, Zenon
  <2> QED
    BY <1>1, <1>3, <1>8, <2>1, <2>2, <2>3, Zenon DEF Files
<1>11. Temps'
  <2> DEFINE named == UNION {lasting[j] : j \in jobs}
  <2>1. named \subseteq 0..started
    BY <1>2, Zenon
  <2>2. ASSUME NEW t \in temps' PROVE t \in 1..started
    <3>1. t \in temps \/ t \in named
      BY <1>5, Zenon
    <3> HIDE DEF named
    <3>2. t # None
      BY <1>5, Zenon
    <3>3. CASE t \in temps
      BY <1>2, <3>3, Zenon
    <3>4. CASE t \in named
      <4>1. t \in 0..started
        BY <2>1, <3>4, Zenon
      <4> QED
        BY <1>2, <3>2, <4>1 DEF None
    <3> QED
      BY <3>1, <3>3, <3>4, Zenon
  <2> QED
    BY <1>1, <2>2, Zenon DEF Temps
<1>12. Results'
  <2>1. \A result, sent : \A j \in jobs : Justified(result, sent, j) => Justified(result, sent, j)'
    BY <1>1 DEF Justified
  <2>2. Results
    BY Zenon DEF Inv
  <2>3. DialsChecked'
    BY <1>1, <2>2, Zenon DEF Results, DialsChecked
  <2> QED
    BY <1>1, <2>1, <2>2, <2>3, Zenon DEF Results
<1> QED
  BY <1>6, <1>7, <1>10, <1>11, <1>12, Zenon DEF Inv

----------------------------------------------------------------------------
(* The invariant holds.                                                    *)

LEMMA InitInv == Init => Inv
<1> SUFFICES ASSUME Init PROVE Inv
  OBVIOUS
<1> DEFINE none == <<>>
<1>1. /\ jobs \in JobSets /\ moments = <<none>> /\ exec = [w \in Workers |-> Idle]
      /\ started = 0 /\ file = [n \in 1..MaxStarts |-> Fresh] /\ temps = {}
      /\ report = [j \in jobs |-> None] /\ lasting = [j \in jobs |-> {None}]
      /\ results = [j \in jobs |-> {}] /\ dialled = {} /\ abandoned = {}
  BY Zenon DEF Init
<1>2. Base
  <2> HIDE DEF none
  <2>1. moments[1] = none /\ Len(moments) = 1 /\ moments \in Seq({none})
    BY <1>1
  <2>2. none \in Range(moments)
    BY <2>1 DEF Range
  <2>3. moments \in Seq(Range(moments)) /\ moments # <<>>
    BY <2>1, <2>2
  <2> QED
    BY <1>1, <2>3, BoundAssumption DEF Base
<1> HIDE DEF none
<1>3. Idle \in Execution /\ Fresh \in File /\ Idle.n = 0
  BY <1>2, IdleIsExecution, FreshIsFile, Zenon DEF Idle
<1>4. Executions
  <2>1. exec \in [Workers -> Execution] /\ \A w \in Workers : exec[w] = Idle
    BY <1>1, <1>3, Zenon
  <2> QED
    BY <1>3, <2>1, Zenon DEF Executions
<1>5. Files
  <2>1. file \in [1..MaxStarts -> File]
    BY <1>1, <1>3, Zenon
  <2>2. None \in 0..started
    BY <1>1 DEF None
  <2>3. /\ report \in [jobs -> 0..started] /\ lasting \in [jobs -> SUBSET (0..started)]
        /\ \A j \in jobs : report[j] = None /\ lasting[j] = {None}
    BY <1>1, <2>2, Zenon
  <2> QED
    BY <2>1, <2>3, Zenon DEF Files
<1>6. Temps
  BY <1>1, Zenon DEF Temps
<1>7. Results
  BY <1>1, Zenon DEF Results, DialsChecked
<1> QED
  BY <1>2, <1>4, <1>5, <1>6, <1>7, Zenon DEF Inv

LEMMA NextInv == Inv /\ [Next]_vars => Inv'
<1> SUFFICES ASSUME Inv, [Next]_vars PROVE Inv'
  OBVIOUS
<1>1. CASE StoreEvent
  BY <1>1, StoreEventStep, Zenon
<1>2. CASE PowerLoss
  BY <1>2, PowerLossStep, Zenon
<1>3. ASSUME NEW w \in Workers, NEW j \in jobs, Begin(w, j) PROVE Inv'
  BY <1>3, BeginStep, Zenon
<1>4. ASSUME NEW w \in Workers, Generate(w) PROVE Inv'
  BY <1>4, ProjectExistsStep, LoadRowsStep, CreateTempStep, WriteItemsStep, SyncStep, RenameStep,
     GenerateFailsStep, Zenon DEF Generate
<1>5. ASSUME NEW w \in Workers, Deliver(w) PROVE Inv'
  BY <1>5, ResolveStep, UnexpectedHostStep, DialStep, AnswerStep, Zenon DEF Deliver
<1>6. ASSUME NEW w \in Workers, Clean(w) \/ Record(w) \/ Crash(w) PROVE Inv'
  BY <1>6, CleanStep, RecordStep, CrashStep, Zenon
<1>7. CASE UNCHANGED vars
  BY <1>7, StutterStep, Zenon
<1> QED
  BY <1>1, <1>2, <1>3, <1>4, <1>5, <1>6, <1>7, Zenon DEF Next

LEMMA Invariant == Spec => []Inv
BY InitInv, NextInv, PTL DEF Spec

----------------------------------------------------------------------------
(* What follows.                                                           *)

\* Every variable keeps its type: an execution has an outcome when it returns
\* and not before, and an address whenever it dials.
THEOREM ExecutionTypeCorrect == Spec => []TypeOK
<1>1. Inv => TypeOK
  <2> SUFFICES ASSUME Inv PROVE TypeOK
    OBVIOUS
  <2>1. ASSUME NEW w \in Workers
        PROVE  /\ exec[w].pc \in PCs /\ exec[w].n \in 0..started
               /\ exec[w].pc = "return" <=> exec[w].result # "none"
               /\ exec[w].pc = "dial" => exec[w].addresses # <<>>
    <3>1. exec[w].pc \in PCs /\ exec[w].n \in 0..started
      BY Zenon DEF Inv, Executions, Execution
    <3>2. CASE exec[w] = Idle
      BY <3>1, <3>2 DEF Idle
    <3>3. CASE exec[w] # Idle
      BY <3>1, <3>3, UnderWay, Zenon DEF Inv, Executions, Doing
    <3> QED
      BY <3>2, <3>3, Zenon
  <2> QED
    BY <2>1, Zenon DEF TypeOK, At, Inv, Base, Files, Temps
<1> QED
  BY <1>1, Invariant, PTL

\* Under the final name of a report there is nothing, or a whole file with what
\* the statistics were at one moment, whatever overlaps, fails or crashes.
THEOREM ReportCorrect == Spec => []ReportWhole
<1>1. Inv => ReportWhole
  <2> SUFFICES ASSUME Inv, NEW j \in jobs, report[j] # None
               PROVE  /\ file[report[j]].whole
                      /\ \E table \in Range(moments) : file[report[j]].rows = Statistics(table, j)
    BY Zenon DEF ReportWhole
  <2>1. Publishable(report[j], j)
    BY Zenon DEF Inv, Files
  <2> QED
    BY <2>1, Zenon DEF Publishable, Genuine
<1> QED
  BY <1>1, Invariant, PTL

\* A report recorded as generated is there, unless the power failed.
THEOREM SucceededCorrect == Spec => []SucceededHasReport
<1>1. Inv => SucceededHasReport
  <2>1. Inv => \A j \in jobs : \A r \in results[j] : Justified(r.result, r.sent, j)
    BY Zenon DEF Inv, Results
  <2> QED
    BY <2>1 DEF Justified, SucceededHasReport
<1> QED
  BY <1>1, Invariant, PTL

\* Only executions that are under way or crashed leave temporary files.
THEOREM TempsCorrect == Spec => []NoStrayTemps
<1>1. Inv => NoStrayTemps
  BY Zenon DEF Inv, Temps, NoStrayTemps
<1> QED
  BY <1>1, Invariant, PTL

\* Every address dialled for a host that is not on the allow-list is one that
\* the check has passed.
THEOREM DialsCorrect == Spec => []DialsChecked
<1>1. Inv => DialsChecked
  BY Zenon DEF Inv, Results
<1> QED
  BY <1>1, Invariant, PTL

\* A webhook counts as delivered, or is given up, only for a reason.
THEOREM GivenUpCorrect == Spec => []GivenUpForAReason
<1>1. Inv => GivenUpForAReason
  <2> SUFFICES ASSUME Inv, NEW j \in jobs, j.type = "webhook", NEW r \in results[j]
               PROVE  /\ r.result = "succeeded" => r.sent \in 200..299
                      /\ r.result = "permanent" =>
                           r.sent = NotSent \/ r.sent \in (0..499 \ (200..299 \cup {408, 425, 429}))
    BY Zenon DEF GivenUpForAReason
  <2>1. Justified(r.result, r.sent, j)
    BY Zenon DEF Inv, Results
  <2> QED
    BY <2>1 DEF Justified
<1> QED
  BY <1>1, Invariant, PTL
====
