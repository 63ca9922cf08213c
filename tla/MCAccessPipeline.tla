---- MODULE MCAccessPipeline ----
(* Small instances of AccessPipeline: an hour of two time units.           *)
EXTENDS AccessPipeline, TLC

Event(id, at, project, route, method, status, ms, limited) ==
  [id |-> id, at |-> at, project |-> project, route |-> route, prefix |-> "/o",
   method |-> method, status |-> status, ms |-> ms, bytes |-> ms + 1, limited |-> limited]

e1 == Event("e1", 3, "shop", "orders", "GET", 200, 5, FALSE)
e2 == Event("e2", 2, "shop", "orders", "GET", 429, 2, TRUE)
e3 == Event("e3", 4, "blog", "orders", "POST", 200, 0, FALSE)
e4 == Event("e4", 3, "", "orders", "GET", 503, 1, FALSE)
e5 == Event("e5", 3, "shop", "orders", "GET", 999, 1, FALSE)
e6 == Event("e6", 2, "blog", "orders", "GET", 200, 1, FALSE)
e7 == Event("e7", 4, "shop", "orders", "GET", 404, 3, FALSE)
e8 == Event("e8", 5, "shop", "items", "GET", 200, 1, FALSE)

Requests == {e1, e2, e3, e4, e5, e6, e7, e8}

\* A value of e6 is one that PostgreSQL refuses.
Refused == {e6}

\* Two events of one bucket and one of another project and partition; a request
\* outside any project, a status Validate refuses and a malformed record; an
\* event PostgreSQL refuses; three buckets of one project, in two hours and, in
\* the second hour, of two routes.
Mixed == {{e1, e2, e3}, {e4, e5, Malformed}, {e1, e6}, {e1, e7, e8}}

ByProject(e) == IF e.project = "blog" THEN 2 ELSE 1

\* Intervals of one hour and of several that begin and end on the hour and
\* within it, and one that is longer than MaxRange.
Intervals ==
  [project : {"shop"}, from : {1, 3}, to : {2, 4, 5}, route : {""}, method : {""}]
    \cup [project : {"shop"}, from : {0, 2}, to : {3, 5}, route : {"orders"}, method : {"GET"}]
====
