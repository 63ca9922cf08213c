---- MODULE MCJobExecution ----
(* A small instance of JobExecution. *)
EXTENDS JobExecution, TLC

Public(n) == [n |-> n, class |-> "public"]
Private(n) == [n |-> n, class |-> "private"]

\* A name that resolves to two public addresses, to a private one among others,
\* to a private one only, or to none.
Answers == {<<Public(1), Public(2)>>, <<Public(1), Private(3)>>, <<Private(3)>>, <<>>}

Loopback == "127.0.0.1" :> [n |-> 4, class |-> "loopback"]

\* An event at each side of the hour.
Event(at, ms) ==
  [at |-> at, project |-> "p", route |-> "r", prefix |-> "/r", method |-> "GET",
   status |-> 200, limited |-> FALSE, ms |-> ms, bytes |-> 1]

TwoEvents == <<Event(1, 1), Event(4, 2)>>

Unused == [id |-> 0, type |-> "other", decodes |-> TRUE, project |-> "", from |-> 0, to |-> 0,
           format |-> "", batch |-> 0, host |-> "", method |-> ""]

Report(id, project, from, to) ==
  [Unused EXCEPT !.id = id, !.type = "report", !.project = project, !.from = from, !.to = to,
                 !.format = "json"]

Webhook(id, host, method) ==
  [Unused EXCEPT !.id = id, !.type = "webhook", !.host = host, !.method = method]

Cleanup(id, batch) == [Unused EXCEPT !.id = id, !.type = "cleanup", !.batch = batch]

\* Reports that end on the hour and within it; hosts that must be checked, that
\* are allowed, that are addresses and that are not ASCII; URLs and methods that
\* Deliver refuses and jobs that Process refuses.
Scenarios ==
  {{Report(1, "p", 0, 4)},
   {Report(1, "p", 1, 3)},
   {Webhook(1, "hook", "PUT")},
   {Webhook(1, "inside", "POST")},
   {Webhook(1, "127.0.0.1", "POST"), Webhook(2, "hook", "GET"), Webhook(3, "", "POST")},
   {Webhook(1, "idn", "POST")},
   {Report(1, "q", 0, 4), Cleanup(2, 500)},
   {Cleanup(1, 0), Unused, [Report(2, "p", 0, 4) EXCEPT !.decodes = FALSE], Report(3, "p", 4, 4)}}

AnyWorker == Permutations(Workers)
====
