---- MODULE GatewayProofs ----
(***************************************************************************)
(* What the gateway promises of a request, for any number of requests,     *)
(* routes and keys and for any clock.  The first half is the inductive     *)
(* invariant and the kinds of step that keep it: a request moves on, Redis *)
(* counts a request, the key table changes, and time passes.  The second   *)
(* shows that every action is of one of these kinds, and draws the         *)
(* conclusions.                                                            *)
(*                                                                         *)
(* WithinLimit is not inductive.  The requests that Redis counted within a *)
(* window were given different numbers because the counter lived through   *)
(* the window, and it did because the time to live covers the rest of the  *)
(* window in spite of being truncated (TTLCovers).                         *)
(***************************************************************************)
EXTENDS Gateway, TLAPS

----------------------------------------------------------------------------
(* Truncated time.                                                         *)

\* What truncation to milliseconds loses is less than a millisecond.
LEMMA UnixMilliBounds ==
  ASSUME NEW t \in Nat
  PROVE  /\ UnixMilli(t) \in Nat
         /\ Millisecond * UnixMilli(t) <= t
         /\ t < Millisecond * UnixMilli(t) + Millisecond
BY MillisecondAssumption DEF UnixMilli

\* A time before the end of a whole number of milliseconds is truncated to an
\* earlier one, and a time at or after it is not.
LEMMA UnixMilliOrder ==
  ASSUME NEW t \in Nat, NEW k \in Nat
  PROVE  /\ t < Millisecond * k => UnixMilli(t) < k
         /\ t >= Millisecond * k => UnixMilli(t) >= k
<1> DEFINE q == UnixMilli(t)
<1>1. q \in Nat /\ Millisecond * q <= t /\ t < Millisecond * q + Millisecond
  BY UnixMilliBounds
<1>2. Millisecond \in Nat \ {0}
  BY MillisecondAssumption
<1> HIDE DEF q
<1>3. q >= k => Millisecond * q >= Millisecond * k
  BY <1>1, <1>2
<1>4. q + 1 <= k => Millisecond * (q + 1) <= Millisecond * k
  BY <1>1, <1>2
<1>5. Millisecond * (q + 1) = Millisecond * q + Millisecond
  BY <1>1, <1>2
<1>6. Millisecond * q \in Nat /\ Millisecond * k \in Nat
  BY <1>1, <1>2
<1>7. t < Millisecond * k => q < k
  BY <1>1, <1>2, <1>3, <1>6
<1>8. t >= Millisecond * k => q >= k
  BY <1>1, <1>2, <1>4, <1>5, <1>6
<1> QED
  BY <1>7, <1>8 DEF q

\* The milliseconds of the end of a window.
EndMilli(now, window) == (CurrentWindow(now, window) + 1) * window

\* A window ends after the time it was numbered by.
LEMMA WindowFacts ==
  ASSUME NEW now \in Nat, NEW window \in Nat \ {0}
  PROVE  /\ CurrentWindow(now, window) \in Nat
         /\ EndMilli(now, window) \in Nat
         /\ UnixMilli(now) < EndMilli(now, window)
         /\ WindowEnd(CurrentWindow(now, window), window) = Millisecond * EndMilli(now, window)
         /\ now < WindowEnd(CurrentWindow(now, window), window)
<1> DEFINE u == UnixMilli(now)
           w == CurrentWindow(now, window)
           e == EndMilli(now, window)
<1>1. u \in Nat /\ now < Millisecond * u + Millisecond
  BY UnixMilliBounds
<1>2. Millisecond \in Nat \ {0}
  BY MillisecondAssumption
<1>3. w \in Nat /\ u < window * w + window
  <2> HIDE DEF u
  <2>1. w = u \div window
    BY DEF CurrentWindow, u
  <2> QED
    BY <1>1, <2>1
<1>4. e = (w + 1) * window
  BY DEF EndMilli
<1>5. WindowEnd(w, window) = (w + 1) * window * Millisecond
  BY DEF WindowEnd
<1> HIDE DEF u, w, e
<1>6. e = window * w + window /\ e \in Nat
  BY <1>3, <1>4
<1>7. u + 1 <= e
  BY <1>1, <1>3, <1>6
<1>8. WindowEnd(w, window) = Millisecond * e
  BY <1>2, <1>3, <1>4, <1>5, <1>6
<1>9. Millisecond * (u + 1) <= Millisecond * e
  BY <1>1, <1>2, <1>6, <1>7
<1>10. Millisecond * (u + 1) = Millisecond * u + Millisecond
  BY <1>1, <1>2
<1>11. now < Millisecond * e
  BY <1>1, <1>2, <1>6, <1>9, <1>10
<1> QED
  BY <1>3, <1>6, <1>7, <1>8, <1>11 DEF u, w, e

\* The time to live that is sent covers the rest of the window up to its last
\* millisecond, in spite of the truncations, when Redis runs the script no
\* earlier than the gateway has read its clock.
LEMMA TTLCovers ==
  ASSUME NEW now \in Nat, NEW window \in Nat \ {0}, NEW t \in Nat, now <= t
  PROVE  /\ TTL(now, window) \in Nat
         /\ UnixMilli(t) + TTL(now, window) >= EndMilli(now, window) - 1
<1> DEFINE u == UnixMilli(now)
           e == EndMilli(now, window)
           left == WindowEnd(CurrentWindow(now, window), window) - now
           rest == IF left < Millisecond THEN Millisecond ELSE left
<1>1. /\ u \in Nat /\ e \in Nat /\ u < e
      /\ WindowEnd(CurrentWindow(now, window), window) = Millisecond * e
      /\ now < Millisecond * e
      /\ Millisecond * u <= now
      /\ now < Millisecond * u + Millisecond
  BY WindowFacts, UnixMilliBounds
<1>2. Millisecond \in Nat \ {0}
  BY MillisecondAssumption
<1>3. left = Millisecond * e - now
  BY <1>1, Zenon
<1>4. TTL(now, window) = UnixMilli(rest)
  BY DEF TTL
<1>5. UnixMilli(t) \in Nat /\ UnixMilli(t) >= u
  <2>1. Millisecond * u <= t
    <3> HIDE DEF u
    <3> QED BY <1>1, <1>2
  <2> QED
    BY <2>1, <1>1, UnixMilliOrder, UnixMilliBounds
<1> HIDE DEF u, e, left
<1>6. Millisecond * (e - u - 1) = Millisecond * e - Millisecond * u - Millisecond
  BY <1>1, <1>2
<1>7. /\ Millisecond * e \in Nat /\ Millisecond * u \in Nat
      /\ e - u - 1 \in Nat
  BY <1>1, <1>2
<1>8. left >= Millisecond * (e - u - 1) /\ left \in Nat
  BY <1>1, <1>2, <1>3, <1>6, <1>7
<1>9. rest \in Nat /\ rest >= left
  BY <1>2, <1>8
<1> HIDE DEF rest
<1>10. rest >= Millisecond * (e - u - 1)
  BY <1>2, <1>7, <1>8, <1>9
<1>11. UnixMilli(rest) \in Nat /\ UnixMilli(rest) >= e - u - 1
  BY <1>7, <1>9, <1>10, UnixMilliOrder, UnixMilliBounds
<1> QED
  BY <1>1, <1>4, <1>5, <1>11 DEF e, rest

----------------------------------------------------------------------------
(* The inductive invariant.                                                *)

Statuses == {0, 200, 401, 403, 404, 429, 500, 503}

States == [pc : PCs, route : Routes \cup {Null}, key : Keys \cup {Null},
           now : 0..MaxTime, ran : 0..MaxTime \cup {Null}, late : BOOLEAN,
           count : Nat, status : Statuses]

\* The request is one of a route with a limit, and its clock was read by t.
Limited(s, t) == s.route \in Routes /\ s.route.limit > 0 /\ s.now <= t

\* What the place of a request says of the rest of its state.
Consistent(s, t) ==
  /\ s.pc \notin {"new", "done"} => s.route \in Routes
  /\ s.status # 0 => s.pc = "done"
  /\ s.pc \in {"new", "validate", "touch", "limit", "eval"} =>
       s.ran = Null /\ ~s.late /\ s.count = 0
  /\ s.pc = "eval" => Limited(s, t)
  /\ s.pc = "verdict" => s.ran # Null
  /\ s.late => s.ran = Null /\ s.count = 0 /\ Limited(s, t)
  /\ s.ran # Null => s.ran <= t /\ Limited(s, t)
  /\ s.count > 0 => s.ran # Null
  /\ s.pc = "proxy" \/ s.status = 200 =>
       s.route \in Routes /\ (s.count > 0 => s.count <= s.route.limit)
  /\ s.status = 429 => s.ran # Null /\ s.count > s.route.limit

AllConsistent == \A r \in Requests : Consistent(req[r], clock)

\* The request has been authorized, and not been refused since.
Passed(s) == s.pc \in {"limit", "eval", "verdict", "proxy"} \/ s.status = 200

Vouched(r, s) ==
  s.route.auth => /\ s.key \in DOMAIN keys
                  /\ keys[s.key].project = s.route.project
                  /\ s.key \notin barred[r]

\* A key that bars a request is disabled, and stays so.
Authorized ==
  /\ \A r \in Requests : Passed(req[r]) => Vouched(r, req[r])
  /\ \A r \in Requests : \A k \in barred[r] : k \in DOMAIN keys /\ ~keys[k].enabled

\* The counter of a request, and the end of its window.
KeyOf(s) ==
  <<s.route.name, IF s.route.auth THEN s.key ELSE "ip", CurrentWindow(s.now, s.route.window)>>

EndOf(s) == Millisecond * EndMilli(s.now, s.route.window)

\* The requests a counter has counted, in this window or late.
Ran(c) == {r \in Requests : req[r].ran # Null /\ KeyOf(req[r]) = c}

\* While the window of a counted request lasts, its counter lives to the last
\* millisecond of it and is no smaller than the number the request was given;
\* so that no two requests counted in time were given the same number.
Window ==
  /\ \A c \in DOMAIN counters : Ran(c) # {}
  /\ \A r \in Requests : req[r].ran # Null /\ clock < EndOf(req[r]) =>
       /\ KeyOf(req[r]) \in DOMAIN counters
       /\ counters[KeyOf(req[r])].until >= EndMilli(req[r].now, req[r].route.window) - 1
       /\ req[r].count <= counters[KeyOf(req[r])].count
  /\ \A r, q \in Requests :
       /\ req[r].ran # Null /\ req[r].ran < EndOf(req[r]) /\ req[r].count > 0
       /\ req[q].ran # Null /\ req[q].ran < EndOf(req[q]) /\ req[q].count > 0
       /\ KeyOf(req[r]) = KeyOf(req[q])
       /\ req[r].count = req[q].count
       => r = q

\* A counter, and the number a request was given, is at most the number of
\* requests that were counted.
Honest ==
  /\ \A c \in DOMAIN counters : counters[c].count <= Cardinality(Ran(c))
  /\ \A r \in Requests :
       req[r].ran # Null => req[r].count <= Cardinality(Ran(KeyOf(req[r])))

\* What Honest counts are sets of requests, of which there are finitely many.
\* The fact is rigid, and the invariant carries it from the initial states on.
SetsOfRequests ==
  \A S \in SUBSET Requests :
    /\ Cardinality(S) \in Nat
    /\ \A r \in Requests \ S : Cardinality(S \cup {r}) = Cardinality(S) + 1
    /\ \A n \in Nat : \A f \in [S -> 1..n] :
         (\A p, q \in S : f[p] = f[q] => p = q) => Cardinality(S) <= n

Inv == TypeOK /\ AllConsistent /\ Authorized /\ Window /\ Honest /\ SetsOfRequests

LEMMA Rigid == SetsOfRequests => SetsOfRequests'
BY DEF SetsOfRequests

\* TypeOK in the vocabulary of this module.
KeysOK ==
  \A k \in DOMAIN keys :
    k \in Keys /\ keys[k] \in [project : Projects, enabled : BOOLEAN, expires : Nat \cup {Null}]

CounterType == [count : Nat \ {0}, until : Nat]

CountersOK == \A c \in DOMAIN counters : counters[c] \in CounterType

LEMMA TypeParts ==
  TypeOK <=> /\ clock \in 0..MaxTime /\ KeysOK /\ CountersOK
             /\ req \in [Requests -> States]
             /\ barred \in [Requests -> SUBSET Keys]
BY DEF TypeOK, KeysOK, CountersOK, CounterType, States, Statuses

LEMMA CounterKeyIsKeyOf ==
  ASSUME NEW r \in Requests
  PROVE  CounterKey(r) = KeyOf(req[r])
BY DEF CounterKey, Client, KeyOf

\* The end of the window of a request of a limited route.
LEMMA EndFacts ==
  ASSUME NEW s \in States, NEW t, Limited(s, t)
  PROVE  /\ s.now \in Nat
         /\ s.route.limit \in Nat \ {0}
         /\ s.route.window \in Nat \ {0}
         /\ EndMilli(s.now, s.route.window) \in Nat
         /\ EndOf(s) = WindowEnd(KeyOf(s)[3], s.route.window)
         /\ EndOf(s) \in Nat
<1>1. s.now \in Nat /\ s.route.limit \in Nat \ {0} /\ s.route.window \in Nat \ {0}
  BY RouteAssumption, TimeAssumption DEF States, Limited
<1>2. /\ EndMilli(s.now, s.route.window) \in Nat
      /\ WindowEnd(CurrentWindow(s.now, s.route.window), s.route.window)
           = Millisecond * EndMilli(s.now, s.route.window)
  BY <1>1, WindowFacts, Zenon
<1>3. KeyOf(s)[3] = CurrentWindow(s.now, s.route.window)
  BY DEF KeyOf
<1>4. EndOf(s) \in Nat
  <2> HIDE DEF EndMilli
  <2> QED BY <1>2, MillisecondAssumption DEF EndOf
<1> QED
  BY <1>1, <1>2, <1>3, <1>4, Zenon DEF EndOf

\* Requests with the same counter are of one route and of one window.
LEMMA SameKey ==
  ASSUME NEW s \in States, NEW q \in States, s.route \in Routes, q.route \in Routes,
         KeyOf(s) = KeyOf(q)
  PROVE  /\ s.route = q.route
         /\ EndMilli(s.now, s.route.window) = EndMilli(q.now, q.route.window)
         /\ EndOf(s) = EndOf(q)
<1>1. /\ s.route.name = q.route.name
      /\ CurrentWindow(s.now, s.route.window) = CurrentWindow(q.now, q.route.window)
  BY Zenon DEF KeyOf
<1>2. s.route = q.route
  BY <1>1, NameAssumption, Zenon
<1> QED
  BY <1>1, <1>2 DEF EndMilli, EndOf

----------------------------------------------------------------------------
(* Steps of one request that leave the counters alone.                     *)

\* Request r comes into state s, which agrees with what Redis has counted.
Moves(r, s) ==
  /\ s \in States /\ Consistent(s, clock)
  /\ Passed(s) => Vouched(r, s)
  /\ s.ran = req[r].ran
  /\ s.ran # Null => /\ s.now = req[r].now /\ s.route = req[r].route /\ s.key = req[r].key
                     /\ s.count \in {req[r].count, 0}
  /\ Set(r, s)
  /\ UNCHANGED <<clock, keys, counters, barred>>

\* Ran in the next state.
RanNext(c) == {r \in Requests : req'[r].ran # Null /\ KeyOf(req'[r]) = c}

LEMMA SetFacts ==
  ASSUME req \in [Requests -> States], NEW r \in Requests, NEW s \in States, Set(r, s)
  PROVE  /\ req' \in [Requests -> States]
         /\ req'[r] = s
         /\ \A q \in Requests : q # r => req'[q] = req[q]
BY DEF Set

LEMMA MovesInv ==
  ASSUME Inv, NEW r \in Requests, NEW s, Moves(r, s)
  PROVE  Inv'
<1>1. /\ clock \in 0..MaxTime /\ KeysOK /\ CountersOK
      /\ req \in [Requests -> States] /\ barred \in [Requests -> SUBSET Keys]
  BY TypeParts DEF Inv
<1>2. s \in States /\ Set(r, s) /\ UNCHANGED <<clock, keys, counters, barred>>
  BY Zenon DEF Moves
<1>3. /\ req' \in [Requests -> States] /\ req'[r] = s
      /\ \A q \in Requests : q # r => req'[q] = req[q]
  BY <1>1, <1>2, SetFacts, Zenon
<1>4. TypeOK'
  BY <1>1, <1>2, <1>3, TypeParts DEF TypeOK, KeysOK, CountersOK, CounterType, States, Statuses
<1>5. AllConsistent'
  BY <1>2, <1>3 DEF Inv, AllConsistent, Moves, Consistent, Limited
<1>6. Authorized'
  BY <1>2, <1>3 DEF Inv, Authorized, Moves, Vouched
\* What Redis has counted is as it was.
<1>7. \A q \in Requests :
        /\ req'[q].ran = req[q].ran
        /\ req[q].ran # Null => /\ KeyOf(req'[q]) = KeyOf(req[q])
                                /\ EndOf(req'[q]) = EndOf(req[q])
                                /\ EndMilli(req'[q].now, req'[q].route.window)
                                     = EndMilli(req[q].now, req[q].route.window)
                                /\ req'[q].count \in {req[q].count, 0}
  BY <1>3, Zenon DEF Moves, KeyOf, EndOf
<1>8. \A c : RanNext(c) = Ran(c)
  BY <1>7, Zenon DEF Ran, RanNext
<1>9. \A q \in Requests : req[q].count \in Nat /\ req'[q].count \in Nat
  BY <1>1, <1>3, Zenon DEF States
<1>10. Window'
  <2>1. \A c \in DOMAIN counters' : RanNext(c) # {}
    BY <1>2, <1>8, Zenon DEF Inv, Window
  <2>2. ASSUME NEW q \in Requests, req'[q].ran # Null, clock' < EndOf(req'[q])
        PROVE  /\ KeyOf(req'[q]) \in DOMAIN counters'
               /\ counters'[KeyOf(req'[q])].until >= EndMilli(req'[q].now, req'[q].route.window) - 1
               /\ req'[q].count <= counters'[KeyOf(req'[q])].count
    <3>1. /\ KeyOf(req[q]) \in DOMAIN counters
          /\ counters[KeyOf(req[q])].until >= EndMilli(req[q].now, req[q].route.window) - 1
          /\ req[q].count <= counters[KeyOf(req[q])].count
      BY <1>2, <1>7, <2>2, Zenon DEF Inv, Window
    <3>2. counters[KeyOf(req[q])].count \in Nat
      BY <1>1, <3>1, Zenon DEF CountersOK, CounterType
    <3> QED
      BY <1>2, <1>7, <1>9, <2>2, <3>1, <3>2
  <2>3. ASSUME NEW q \in Requests, NEW p \in Requests,
               req'[q].ran # Null, req'[q].ran < EndOf(req'[q]), req'[q].count > 0,
               req'[p].ran # Null, req'[p].ran < EndOf(req'[p]), req'[p].count > 0,
               KeyOf(req'[q]) = KeyOf(req'[p]), req'[q].count = req'[p].count
        PROVE  q = p
    <3>1. req'[q].count = req[q].count /\ req'[p].count = req[p].count
      BY <1>7, <1>9, <2>3
    <3> QED
      BY <1>7, <2>3, <3>1, Zenon DEF Inv, Window
  <2> QED
    BY <2>1, <2>2, <2>3, Zenon DEF Window, Ran, RanNext
<1>11. Honest'
  <2>1. \A c \in DOMAIN counters' : counters'[c].count <= Cardinality(RanNext(c))
    BY <1>2, <1>8, Zenon DEF Inv, Honest
  <2>2. ASSUME NEW q \in Requests, req'[q].ran # Null
        PROVE  req'[q].count <= Cardinality(RanNext(KeyOf(req'[q])))
    <3>1. req[q].count <= Cardinality(Ran(KeyOf(req[q])))
      BY <1>7, <2>2, Zenon DEF Inv, Honest
    <3>2. Cardinality(Ran(KeyOf(req[q]))) \in Nat
      BY DEF Inv, SetsOfRequests, Ran
    <3> QED
      BY <1>7, <1>8, <1>9, <2>2, <3>1, <3>2
  <2> QED
    BY <2>1, <2>2 DEF Honest, Ran, RanNext
<1> QED
  BY <1>4, <1>5, <1>6, <1>10, <1>11, Rigid DEF Inv

----------------------------------------------------------------------------
(* Redis runs the script of a request.                                     *)

\* Request r is counted, and comes into state s.
Counts(r, s) ==
  /\ req[r].ran = Null /\ Limited(req[r], clock)
  /\ s \in States /\ Consistent(s, clock)
  /\ Passed(s) => Vouched(r, s)
  /\ s.ran = clock /\ s.now = req[r].now /\ s.route = req[r].route /\ s.key = req[r].key
  /\ s.count \in {Counted(r).count, 0}
  /\ RunScript(r)
  /\ Set(r, s)
  /\ UNCHANGED <<clock, keys, barred>>

\* The script either starts a counter or adds one to a living one.
LEMMA CountedFacts ==
  ASSUME Inv, NEW r \in Requests, Limited(req[r], clock)
  PROVE  LET k == KeyOf(req[r])
             ttl == TTL(req[r].now, req[r].route.window)
             old == counters[k]
         IN  /\ \/ /\ Counted(r).count = 1 /\ Counted(r).until = UnixMilli(clock) + ttl
                   /\ k \in DOMAIN counters => UnixMilli(clock) > old.until
                \/ /\ k \in DOMAIN counters /\ UnixMilli(clock) <= old.until
                   /\ Counted(r).count = old.count + 1 /\ Counted(r).until = old.until
             /\ Counted(r) \in CounterType
             /\ ttl \in Nat
             /\ UnixMilli(clock) + ttl >= EndMilli(req[r].now, req[r].route.window) - 1
<1> DEFINE k == KeyOf(req[r])
           ttl == TTL(req[r].now, req[r].route.window)
           old == counters[k]
           u == UnixMilli(clock)
<1>1. clock \in Nat /\ CountersOK /\ req[r] \in States
  BY TypeParts, TimeAssumption DEF Inv
<1>2. req[r].now \in Nat /\ req[r].now <= clock /\ req[r].route.window \in Nat \ {0}
  BY <1>1, EndFacts DEF Limited
<1>3. ttl \in Nat /\ u + ttl >= EndMilli(req[r].now, req[r].route.window) - 1 /\ u \in Nat
  BY <1>1, <1>2, TTLCovers, UnixMilliBounds, Zenon
<1>4. Counted(r) = FixedWindowScript(IF k \in DOMAIN counters THEN old ELSE NoCounter, ttl, clock)
  BY CounterKeyIsKeyOf DEF Counted, CounterNow
<1> HIDE DEF u, ttl, k
<1>5. CASE k \notin DOMAIN counters
  <2>1. Counted(r) = [count |-> 1, until |-> u + ttl]
    BY <1>3, <1>4, <1>5 DEF FixedWindowScript, Expired, NoCounter, u
  <2> QED
    BY <1>3, <1>5, <2>1 DEF CounterType, u, ttl, k
<1>6. CASE k \in DOMAIN counters
  <2>1. old \in CounterType
    BY <1>1, <1>6 DEF CountersOK
  <2>2. CASE u > old.until
    <3>1. Counted(r) = [count |-> 1, until |-> u + ttl]
      BY <1>4, <1>6, <2>2 DEF FixedWindowScript, Expired, u
    <3> QED
      BY <1>3, <1>6, <2>2, <3>1 DEF CounterType, u, ttl, k
  <2>3. CASE ~(u > old.until)
    <3>1. Counted(r) = [old EXCEPT !.count = @ + 1]
      BY <1>4, <1>6, <2>3 DEF FixedWindowScript, Expired, u
    <3> HIDE DEF old
    <3>2. /\ Counted(r).count = old.count + 1 /\ Counted(r).until = old.until
          /\ Counted(r) \in CounterType /\ old.until \in Nat
      BY <2>1, <3>1 DEF CounterType
    <3> QED
      BY <1>3, <1>6, <2>3, <3>2 DEF u, ttl, k, old
  <2> QED
    BY <2>2, <2>3, Zenon
<1> QED
  BY <1>5, <1>6, Zenon

\* Before the end of its window, a request is given a number above the ones
\* given before it, by a counter that lives to the end of the window.
LEMMA CountedInTime ==
  ASSUME Inv, NEW r \in Requests, Limited(req[r], clock), clock < EndOf(req[r])
  PROVE  /\ Counted(r).until >= EndMilli(req[r].now, req[r].route.window) - 1
         /\ \A q \in Ran(KeyOf(req[r])) : req[q].count < Counted(r).count
<1> DEFINE k == KeyOf(req[r])
           e == EndMilli(req[r].now, req[r].route.window)
<1>1. clock \in Nat /\ CountersOK /\ req \in [Requests -> States]
  BY TypeParts, TimeAssumption DEF Inv
<1>2. e \in Nat /\ EndOf(req[r]) = Millisecond * e
  BY <1>1, EndFacts, Zenon DEF EndOf
<1>3. UnixMilli(clock) < e /\ UnixMilli(clock) \in Nat
  BY <1>1, <1>2, UnixMilliOrder, UnixMilliBounds
<1>4. CASE Ran(k) = {}
  <2>1. k \notin DOMAIN counters
    BY <1>4 DEF Inv, Window
  <2> QED
    BY <1>4, <2>1, CountedFacts, Zenon
<1>5. CASE Ran(k) # {}
  <2>1. ASSUME NEW q \in Ran(k)
        PROVE  /\ k \in DOMAIN counters /\ counters[k].until >= e - 1
               /\ req[q].count <= counters[k].count
    <3>1. q \in Requests /\ req[q].ran # Null /\ KeyOf(req[q]) = k
      BY DEF Ran
    <3>2. req[q].route \in Routes /\ req[r].route \in Routes
      BY <3>1, Zenon DEF Inv, AllConsistent, Consistent, Limited
    <3>3. /\ EndMilli(req[q].now, req[q].route.window) = e
          /\ EndOf(req[q]) = EndOf(req[r])
      BY <1>1, <3>1, <3>2, SameKey, Zenon
    <3> QED
      BY <3>1, <3>3, Zenon DEF Inv, Window
  <2>2. k \in DOMAIN counters /\ counters[k].until >= e - 1
    BY <1>5, <2>1, Zenon
  <2>3. counters[k].until \in Nat /\ counters[k].count \in Nat
    BY <1>1, <2>2 DEF CountersOK, CounterType
  <2>4. UnixMilli(clock) <= counters[k].until
    BY <1>2, <1>3, <2>2, <2>3
  <2>5. Counted(r).count = counters[k].count + 1 /\ Counted(r).until = counters[k].until
    BY <1>3, <2>2, <2>3, <2>4, CountedFacts
  <2>6. \A q \in Ran(k) : req[q].count \in Nat
    BY <1>1 DEF Ran, States
  <2> QED
    BY <2>1, <2>2, <2>3, <2>5, <2>6
<1> QED
  BY <1>4, <1>5, Zenon

LEMMA CountsInv ==
  ASSUME Inv, NEW r \in Requests, NEW s, Counts(r, s)
  PROVE  Inv'
<1> DEFINE k == KeyOf(req[r])
           new == Counted(r)
<1>1. /\ clock \in 0..MaxTime /\ KeysOK /\ CountersOK
      /\ req \in [Requests -> States] /\ barred \in [Requests -> SUBSET Keys]
  BY TypeParts DEF Inv
<1>2. /\ s \in States /\ Set(r, s) /\ UNCHANGED <<clock, keys, barred>>
      /\ Limited(req[r], clock) /\ req[r].ran = Null /\ s.ran = clock /\ s.ran # Null
  BY <1>1, TimeAssumption, NullAssumption DEF Counts
<1>3. /\ req' \in [Requests -> States] /\ req'[r] = s
      /\ \A q \in Requests : q # r => req'[q] = req[q]
  BY <1>1, <1>2, SetFacts
<1>4. new \in CounterType /\ k = CounterKey(r)
  BY <1>2, CountedFacts, CounterKeyIsKeyOf, Zenon
<1>5. /\ DOMAIN counters' = DOMAIN counters \cup {k} /\ counters'[k] = new
      /\ \A c \in DOMAIN counters : c # k => counters'[c] = counters[c]
  BY <1>4 DEF Counts, RunScript
<1>6. /\ KeyOf(s) = k /\ EndOf(s) = EndOf(req[r])
      /\ EndMilli(s.now, s.route.window) = EndMilli(req[r].now, req[r].route.window)
  BY DEF Counts, KeyOf, EndOf
<1>7. r \notin Ran(k) /\ RanNext(k) = Ran(k) \cup {r}
  BY <1>2, <1>3, <1>6, Zenon DEF Ran, RanNext
<1>8. \A c : c # k => RanNext(c) = Ran(c)
  BY <1>2, <1>3, <1>6, Zenon DEF Ran, RanNext
<1>9. s.count \in {new.count, 0}
  BY DEF Counts
<1> HIDE DEF k, new
<1>10. TypeOK'
  <2>1. CountersOK'
    BY <1>1, <1>4, <1>5 DEF CountersOK
  <2> QED
    BY <1>1, <1>2, <1>3, <2>1 DEF TypeOK, KeysOK, CountersOK, CounterType, States, Statuses
<1>11. AllConsistent'
  BY <1>2, <1>3 DEF Inv, AllConsistent, Counts, Consistent, Limited
<1>12. Authorized'
  BY <1>2, <1>3 DEF Inv, Authorized, Counts, Vouched
\* Requests with the counter of r, and the others.
<1>13. ASSUME NEW q \in Requests, q # r, req[q].ran # Null
       PROVE  /\ KeyOf(req[q]) = k =>
                   /\ q \in Ran(k) /\ EndOf(req[q]) = EndOf(s)
                   /\ EndMilli(req[q].now, req[q].route.window) = EndMilli(s.now, s.route.window)
              /\ req[q].ran <= clock /\ req[q].ran \in Nat /\ req[q].count \in Nat
              /\ EndOf(req[q]) \in Nat
  <2>1. req[q] \in States /\ Limited(req[q], clock) /\ req[q].ran <= clock
    BY <1>1, <1>13 DEF Inv, AllConsistent, Consistent
  <2>2. req[q].route \in Routes /\ req[r].route \in Routes
    BY <1>2, <2>1 DEF Limited
  <2>3. KeyOf(req[q]) = k =>
          /\ EndOf(req[q]) = EndOf(s)
          /\ EndMilli(req[q].now, req[q].route.window) = EndMilli(s.now, s.route.window)
    BY <1>1, <1>6, <2>1, <2>2, SameKey, Zenon DEF k
  <2>4. KeyOf(req[q]) = k => q \in Ran(k)
    BY <1>13 DEF Ran
  <2>5. req[q].ran \in Nat /\ req[q].count \in Nat
    BY <1>13, <2>1, TimeAssumption DEF States
  <2>6. EndOf(req[q]) \in Nat
    BY <2>1, EndFacts
  <2> QED
    BY <2>1, <2>3, <2>4, <2>5, <2>6, Zenon
<1>14. clock < EndOf(s) =>
         /\ new.until >= EndMilli(s.now, s.route.window) - 1
         /\ \A q \in Ran(k) : req[q].count < new.count
  BY <1>2, <1>6, CountedInTime, Zenon DEF k, new
<1>15. new.count \in Nat \ {0} /\ s.count \in Nat /\ clock \in Nat /\ EndOf(s) \in Nat
  <2>1. EndOf(req[r]) \in Nat
    BY <1>1, <1>2, EndFacts, Zenon
  <2> QED
    BY <1>1, <1>2, <1>4, <1>6, <2>1, TimeAssumption DEF CounterType, States, Statuses
<1>16. Window'
  <2>1. \A c \in DOMAIN counters' : RanNext(c) # {}
    BY <1>5, <1>7, <1>8, Zenon DEF Inv, Window
  <2>2. ASSUME NEW q \in Requests, req'[q].ran # Null, clock' < EndOf(req'[q])
        PROVE  /\ KeyOf(req'[q]) \in DOMAIN counters'
               /\ counters'[KeyOf(req'[q])].until >= EndMilli(req'[q].now, req'[q].route.window) - 1
               /\ req'[q].count <= counters'[KeyOf(req'[q])].count
    <3>1. CASE q = r
      BY <1>2, <1>3, <1>5, <1>6, <1>9, <1>14, <1>15, <2>2, <3>1
    <3>2. CASE q # r /\ KeyOf(req[q]) = k
      <4>1. req'[q] = req[q] /\ clock' = clock
        BY <1>2, <1>3, <3>2, Zenon
      <4>2. q \in Ran(k) /\ EndOf(req[q]) = EndOf(s) /\ req[q].count \in Nat
            /\ EndMilli(req[q].now, req[q].route.window) = EndMilli(s.now, s.route.window)
        BY <1>13, <2>2, <3>2, <4>1, Zenon
      <4>3. clock < EndOf(s)
        BY <2>2, <4>1, <4>2, Zenon
      <4>4. req[q].count <= new.count
        BY <1>14, <1>15, <4>2, <4>3
      <4> QED
        BY <1>5, <1>14, <3>2, <4>1, <4>2, <4>3, <4>4, Zenon
    <3>3. CASE q # r /\ KeyOf(req[q]) # k
      <4>1. req'[q] = req[q] /\ clock' = clock
        BY <1>2, <1>3, <3>3, Zenon
      <4>2. /\ KeyOf(req[q]) \in DOMAIN counters
            /\ counters[KeyOf(req[q])].until >= EndMilli(req[q].now, req[q].route.window) - 1
            /\ req[q].count <= counters[KeyOf(req[q])].count
        BY <2>2, <4>1, Zenon DEF Inv, Window
      <4> QED
        BY <1>5, <3>3, <4>1, <4>2, Zenon
    <3> QED
      BY <3>1, <3>2, <3>3, Zenon
  <2>3. ASSUME NEW q \in Requests, q # r, req[q].ran # Null, KeyOf(req[q]) = k,
               clock < EndOf(s), s.count > 0, req[q].count = s.count
        PROVE  FALSE
    <3>1. q \in Ran(k) /\ req[q].count \in Nat
      BY <1>13, <2>3, Zenon
    <3>2. req[q].count < new.count
      BY <1>14, <2>3, <3>1, Zenon
    <3> QED
      BY <1>9, <1>15, <2>3, <3>1, <3>2
  <2>4. ASSUME NEW q \in Requests, NEW p \in Requests,
               req'[q].ran # Null, req'[q].ran < EndOf(req'[q]), req'[q].count > 0,
               req'[p].ran # Null, req'[p].ran < EndOf(req'[p]), req'[p].count > 0,
               KeyOf(req'[q]) = KeyOf(req'[p]), req'[q].count = req'[p].count
        PROVE  q = p
    <3>1. CASE q # r /\ p # r
      <4>1. req'[q] = req[q] /\ req'[p] = req[p]
        BY <1>3, <3>1, Zenon
      <4> QED
        BY <2>4, <4>1, Zenon DEF Inv, Window
    <3>2. CASE q = r /\ p # r
      <4>1. req'[q] = s /\ req'[p] = req[p]
        BY <1>3, <3>2, Zenon
      <4> QED
        BY <1>2, <1>6, <2>3, <2>4, <3>2, <4>1, Zenon
    <3>3. CASE q # r /\ p = r
      <4>1. req'[q] = req[q] /\ req'[p] = s
        BY <1>3, <3>3, Zenon
      <4> QED
        BY <1>2, <1>6, <2>3, <2>4, <3>3, <4>1, Zenon
    <3> QED
      BY <3>1, <3>2, <3>3, Zenon
  <2> QED
    BY <2>1, <2>2, <2>4, Zenon DEF Window, Ran, RanNext
<1>17. Honest'
  <2>1. /\ \A c : Cardinality(Ran(c)) \in Nat
        /\ Cardinality(Ran(k) \cup {r}) = Cardinality(Ran(k)) + 1
    <3>1. \A c : Ran(c) \in SUBSET Requests
      BY DEF Ran
    <3> QED
      BY <1>7, <3>1 DEF Inv, SetsOfRequests
  <2>2. new.count <= Cardinality(RanNext(k))
    <3>1. \/ new.count = 1
          \/ k \in DOMAIN counters /\ new.count = counters[k].count + 1
      BY <1>2, CountedFacts, Zenon DEF k, new
    <3>2. k \in DOMAIN counters =>
            counters[k].count <= Cardinality(Ran(k)) /\ counters[k].count \in Nat
      BY <1>1, Zenon DEF Inv, Honest, CountersOK, CounterType
    <3> QED
      BY <1>7, <2>1, <3>1, <3>2
  <2>3. \A c \in DOMAIN counters' : counters'[c].count <= Cardinality(RanNext(c))
    BY <1>5, <1>8, <2>2, Zenon DEF Inv, Honest
  <2>4. ASSUME NEW q \in Requests, req'[q].ran # Null
        PROVE  req'[q].count <= Cardinality(RanNext(KeyOf(req'[q])))
    <3>1. CASE q = r
      <4>1. req'[q] = s /\ KeyOf(req'[q]) = k
        BY <1>3, <1>6, <3>1, Zenon
      <4>2. Cardinality(RanNext(k)) \in Nat
        BY <1>7, <2>1
      <4>3. s.count <= Cardinality(RanNext(k))
        BY <1>9, <1>15, <2>2, <4>2
      <4> QED
        BY <4>1, <4>3, Zenon
    <3>2. CASE q # r
      <4>1. req'[q] = req[q] /\ req[q].count <= Cardinality(Ran(KeyOf(req[q])))
        BY <1>3, <2>4, <3>2, Zenon DEF Inv, Honest
      <4>2. req[q].count \in Nat
        BY <1>13, <2>4, <3>2, <4>1, Zenon
      <4>3. CASE KeyOf(req[q]) = k
        <5>1. Cardinality(Ran(k)) \in Nat /\ Cardinality(RanNext(k)) = Cardinality(Ran(k)) + 1
          BY <1>7, <2>1
        <5> QED
          BY <4>1, <4>2, <4>3, <5>1
      <4>4. CASE KeyOf(req[q]) # k
        BY <1>8, <4>1, <4>4
      <4> QED
        BY <4>3, <4>4, Zenon
    <3> QED
      BY <3>1, <3>2, Zenon
  <2> QED
    BY <2>3, <2>4, Zenon DEF Honest, Ran, RanNext
<1> QED
  BY <1>10, <1>11, <1>12, <1>16, <1>17, Rigid, Zenon DEF Inv

----------------------------------------------------------------------------
(* Steps of the key table and the clock.                                   *)

\* Keys come, and go for good; requests that are authorized are not barred.
KeysMove ==
  /\ KeysOK' /\ barred' \in [Requests -> SUBSET Keys]
  /\ DOMAIN keys \subseteq DOMAIN keys'
  /\ \A k \in DOMAIN keys : keys'[k].project = keys[k].project
                           /\ (~keys[k].enabled => ~keys'[k].enabled)
  /\ \A r \in Requests : \A k \in barred'[r] \ barred[r] :
       req[r].pc \in Unauthorized /\ k \in DOMAIN keys' /\ ~keys'[k].enabled
  /\ UNCHANGED <<clock, counters, req>>

LEMMA KeysMoveInv == Inv /\ KeysMove => Inv'
<1> SUFFICES ASSUME Inv, KeysMove PROVE Inv'
  OBVIOUS
<1>1. TypeOK'
  BY TypeParts DEF Inv, KeysMove, TypeOK, KeysOK, CountersOK, CounterType, States, Statuses
<1>2. AllConsistent'
  BY DEF Inv, KeysMove, AllConsistent, Consistent, Limited
<1>3. Authorized'
  <2>1. ASSUME NEW r \in Requests, Passed(req[r])
        PROVE  req[r].pc \notin Unauthorized
    BY <2>1 DEF Inv, AllConsistent, Consistent, Passed, Unauthorized
  <2>2. \A r \in Requests : Passed(req[r]) => Vouched(r, req[r])'
    BY <2>1, Zenon DEF Inv, Authorized, KeysMove, Vouched
  <2>3. \A r \in Requests : \A k \in barred'[r] : k \in DOMAIN keys' /\ ~keys'[k].enabled
    BY DEF Inv, Authorized, KeysMove
  <2> QED
    BY <2>2, <2>3, Zenon DEF Authorized, KeysMove
<1>4. Window'
  BY Zenon DEF Inv, KeysMove, Window, Ran
<1>5. Honest'
  BY Zenon DEF Inv, KeysMove, Honest, Ran
<1> QED
  BY <1>1, <1>2, <1>3, <1>4, <1>5, Rigid, Zenon DEF Inv

LEMMA CreateInv ==
  ASSUME Inv, NEW k \in Keys, CreateAPIKey(k)
  PROVE  Inv'
<1>1. clock \in Nat /\ KeysOK /\ barred \in [Requests -> SUBSET Keys]
  BY TypeParts, TimeAssumption DEF Inv
<1>2. PICK p \in Projects, life \in KeyLife :
        keys' = [j \in DOMAIN keys \cup {k} |->
                   IF j # k THEN keys[j]
                   ELSE [project |-> p, enabled |-> TRUE,
                         expires |-> IF life = Null THEN Null ELSE clock + life]]
  BY Zenon DEF CreateAPIKey
<1>3. (IF life = Null THEN Null ELSE clock + life) \in Nat \cup {Null}
  BY <1>1, LifeAssumption
<1>4. k \notin DOMAIN keys /\ UNCHANGED <<clock, counters, req, barred>>
  BY Zenon DEF CreateAPIKey
<1>5. DOMAIN keys' = DOMAIN keys \cup {k} /\ \A j \in DOMAIN keys : keys'[j] = keys[j]
  BY <1>2, <1>4
<1>6. keys'[k] \in [project : Projects, enabled : BOOLEAN, expires : Nat \cup {Null}]
  BY <1>2, <1>3
<1>7. KeysOK'
  BY <1>1, <1>5, <1>6, Zenon DEF KeysOK
<1>8. KeysMove
  BY <1>1, <1>4, <1>5, <1>7, Zenon DEF KeysMove
<1> QED
  BY <1>8, KeysMoveInv

LEMMA RevokeInv ==
  ASSUME Inv, NEW k \in Keys, NEW p \in Projects, RevokeAPIKey(k, p)
  PROVE  Inv'
<1>1. KeysOK /\ barred \in [Requests -> SUBSET Keys]
  BY TypeParts DEF Inv
<1>2. k \in DOMAIN keys /\ UNCHANGED <<clock, counters, req>>
  BY DEF RevokeAPIKey
<1>3. /\ DOMAIN keys' = DOMAIN keys
      /\ \A j \in DOMAIN keys : j # k => keys'[j] = keys[j]
      /\ keys'[k] = [keys[k] EXCEPT !.enabled = FALSE]
  BY <1>2 DEF RevokeAPIKey
<1>4. /\ keys'[k] \in [project : Projects, enabled : BOOLEAN, expires : Nat \cup {Null}]
      /\ keys'[k].project = keys[k].project /\ ~keys'[k].enabled
  BY <1>1, <1>2, <1>3, Zenon DEF KeysOK
<1>5. KeysOK'
  BY <1>1, <1>3, <1>4 DEF KeysOK
<1>6. barred' = [r \in Requests |->
                   IF req[r].pc \in Unauthorized THEN barred[r] \cup {k} ELSE barred[r]]
  BY DEF RevokeAPIKey
<1>7. barred' \in [Requests -> SUBSET Keys]
  BY <1>1, <1>6
<1>8. \A r \in Requests : \A j \in barred'[r] \ barred[r] : req[r].pc \in Unauthorized /\ j = k
  BY <1>6
<1>9. KeysMove
  BY <1>2, <1>3, <1>4, <1>5, <1>7, <1>8, Zenon DEF KeysMove
<1> QED
  BY <1>9, KeysMoveInv

LEMMA TickInv == Inv /\ Tick => Inv'
<1> SUFFICES ASSUME Inv, Tick PROVE Inv'
  OBVIOUS
<1>1. /\ clock \in Nat /\ clock' = clock + 1 /\ clock' \in 0..MaxTime
      /\ UNCHANGED <<keys, counters, req, barred>> /\ req \in [Requests -> States]
  BY TypeParts, TimeAssumption DEF Inv, Tick
<1>2. TypeOK'
  BY <1>1, TypeParts DEF Inv, TypeOK, KeysOK, CountersOK, CounterType, States, Statuses
<1>3. \A r \in Requests : Limited(req[r], clock) => Limited(req[r], clock + 1)
  BY <1>1, TimeAssumption DEF Limited, States
<1>4. \A r \in Requests : req[r].ran # Null /\ req[r].ran <= clock => req[r].ran <= clock + 1
  BY <1>1, TimeAssumption DEF States
<1>5. AllConsistent'
  BY <1>1, <1>3, <1>4 DEF Inv, AllConsistent, Consistent
<1>6. Authorized'
  BY <1>1, Zenon DEF Inv, Authorized, Vouched
<1>7. \A r \in Requests : req[r].ran # Null /\ clock + 1 < EndOf(req[r]) => clock < EndOf(req[r])
  <2> SUFFICES ASSUME NEW r \in Requests, req[r].ran # Null, clock + 1 < EndOf(req[r])
               PROVE  clock < EndOf(req[r])
    BY Zenon
  <2>1. EndOf(req[r]) \in Nat
    BY <1>1, EndFacts DEF Inv, AllConsistent, Consistent
  <2> QED
    BY <1>1, <2>1
<1>8. Window'
  BY <1>1, <1>7, Zenon DEF Inv, Window, Ran
<1>9. Honest'
  BY <1>1, Zenon DEF Inv, Honest, Ran
<1> QED
  BY <1>2, <1>5, <1>6, <1>8, <1>9, Rigid, Zenon DEF Inv

----------------------------------------------------------------------------
(* The steps of a request.                                                 *)

\* The prover takes an EXCEPT of a state field by field.
LEMMA Set_pc ==
  ASSUME NEW s \in States, NEW v \in PCs
  PROVE  LET n == [s EXCEPT !.pc = v]
         IN  /\ n \in States /\ n.pc = v /\ n.route = s.route /\ n.key = s.key /\ n.now = s.now
             /\ n.ran = s.ran /\ n.late = s.late /\ n.count = s.count /\ n.status = s.status
BY Zenon DEF States

LEMMA Set_route ==
  ASSUME NEW s \in States, NEW v \in Routes
  PROVE  LET n == [s EXCEPT !.route = v]
         IN  /\ n \in States /\ n.route = v /\ n.pc = s.pc /\ n.key = s.key /\ n.now = s.now
             /\ n.ran = s.ran /\ n.late = s.late /\ n.count = s.count /\ n.status = s.status
BY Zenon DEF States

LEMMA Set_key ==
  ASSUME NEW s \in States, NEW v \in Keys
  PROVE  LET n == [s EXCEPT !.key = v]
         IN  /\ n \in States /\ n.key = v /\ n.pc = s.pc /\ n.route = s.route /\ n.now = s.now
             /\ n.ran = s.ran /\ n.late = s.late /\ n.count = s.count /\ n.status = s.status
BY Zenon DEF States

LEMMA Set_now ==
  ASSUME NEW s \in States, NEW v \in 0..MaxTime
  PROVE  LET n == [s EXCEPT !.now = v]
         IN  /\ n \in States /\ n.now = v /\ n.pc = s.pc /\ n.route = s.route /\ n.key = s.key
             /\ n.ran = s.ran /\ n.late = s.late /\ n.count = s.count /\ n.status = s.status
BY Zenon DEF States

LEMMA Set_ran ==
  ASSUME NEW s \in States, NEW v \in 0..MaxTime
  PROVE  LET n == [s EXCEPT !.ran = v]
         IN  /\ n \in States /\ n.ran = v /\ n.pc = s.pc /\ n.route = s.route /\ n.key = s.key
             /\ n.now = s.now /\ n.late = s.late /\ n.count = s.count /\ n.status = s.status
BY DEF States

LEMMA Set_late ==
  ASSUME NEW s \in States, NEW v \in BOOLEAN
  PROVE  LET n == [s EXCEPT !.late = v]
         IN  /\ n \in States /\ n.late = v /\ n.pc = s.pc /\ n.route = s.route /\ n.key = s.key
             /\ n.now = s.now /\ n.ran = s.ran /\ n.count = s.count /\ n.status = s.status
BY Zenon DEF States

LEMMA Set_count ==
  ASSUME NEW s \in States, NEW v \in Nat
  PROVE  LET n == [s EXCEPT !.count = v]
         IN  /\ n \in States /\ n.count = v /\ n.pc = s.pc /\ n.route = s.route /\ n.key = s.key
             /\ n.now = s.now /\ n.ran = s.ran /\ n.late = s.late /\ n.status = s.status
BY Zenon DEF States

LEMMA Set_status ==
  ASSUME NEW s \in States, NEW v \in Statuses
  PROVE  LET n == [s EXCEPT !.status = v]
         IN  /\ n \in States /\ n.status = v /\ n.pc = s.pc /\ n.route = s.route /\ n.key = s.key
             /\ n.now = s.now /\ n.ran = s.ran /\ n.late = s.late /\ n.count = s.count
BY DEF States

\* A new request, and one that was refused before it was counted.
LEMMA FreshFacts ==
  /\ Fresh \in States /\ Fresh.pc = "new" /\ Fresh.route = Null /\ Fresh.key = Null
  /\ Fresh.ran = Null /\ Fresh.late = FALSE /\ Fresh.count = 0 /\ Fresh.status = 0
BY TimeAssumption DEF Fresh, States, PCs, Statuses

LEMMA RefusedFacts ==
  ASSUME NEW status \in {401, 403, 404, 503}, NEW t
  PROVE  /\ Refused(status) \in States /\ Refused(status).ran = Null
         /\ Consistent(Refused(status), t) /\ ~Passed(Refused(status))
<1> DEFINE m == [Fresh EXCEPT !.pc = "done"]
           n == [m EXCEPT !.status = status]
<1>1. /\ m \in States /\ m.pc = "done" /\ m.ran = Null /\ m.late = FALSE /\ m.count = 0
  BY FreshFacts, Set_pc, Zenon DEF PCs
<1>2. Refused(status) = n /\ status \in Statuses
  BY DEF Refused, Statuses
<1> HIDE DEF m
<1>3. /\ n \in States /\ n.pc = "done" /\ n.ran = Null /\ n.late = FALSE /\ n.count = 0
      /\ n.status = status
  BY <1>1, <1>2, Set_status
<1> HIDE DEF n
<1>4. Consistent(n, t) /\ ~Passed(n)
  BY <1>3 DEF Consistent, Passed
<1> QED
  BY <1>2, <1>3, <1>4

\* A step that refuses a request before it has been counted.
LEMMA RefusedInv ==
  ASSUME Inv, NEW r \in Requests, NEW status \in {401, 403, 404, 503},
         req[r].ran = Null, Set(r, Refused(status)), UNCHANGED <<clock, keys, counters, barred>>
  PROVE  Inv'
<1>1. Moves(r, Refused(status))
  BY RefusedFacts DEF Moves
<1> QED
  BY <1>1, MovesInv

LEMMA ArriveInv ==
  ASSUME Inv, NEW r \in Requests, Arrive(r)
  PROVE  Inv'
<1>1. /\ req[r].pc = "new" /\ req[r].ran = Null
      /\ UNCHANGED <<clock, keys, counters, barred>>
  <2>1. req[r].pc = "new" /\ UNCHANGED <<clock, keys, counters, barred>>
    BY DEF Arrive
  <2>2. Consistent(req[r], clock)
    BY Zenon DEF Inv, AllConsistent
  <2> QED
    BY <2>1, <2>2, Zenon DEF Consistent
<1>2. PICK route \in Routes \cup {Null}, key \in Keys \cup {Null} :
        Set(r, IF route = Null THEN Refused(404)
               ELSE IF ~route.auth THEN [Fresh EXCEPT !.pc = "limit", !.route = route]
               ELSE IF key = Null THEN Refused(401)
               ELSE IF "auth" \notin Configured THEN Refused(503)
               ELSE [Fresh EXCEPT !.pc = "validate", !.route = route, !.key = key])
  BY Zenon DEF Arrive
<1>3. CASE \E status \in {401, 404, 503} : Set(r, Refused(status))
  BY <1>1, <1>3, RefusedInv
<1>4. CASE /\ route \in Routes /\ ~route.auth
           /\ Set(r, [Fresh EXCEPT !.pc = "limit", !.route = route])
  <2> DEFINE n == [Fresh EXCEPT !.pc = "limit", !.route = route]
  <2>1. /\ n \in States /\ n.pc = "limit" /\ n.route = route /\ n.ran = Null
        /\ n.late = FALSE /\ n.count = 0 /\ n.status = 0
    <3> DEFINE m == [Fresh EXCEPT !.pc = "limit"]
    <3>1. /\ m \in States /\ m.pc = "limit" /\ m.ran = Null /\ m.late = FALSE
          /\ m.count = 0 /\ m.status = 0
      BY FreshFacts, Set_pc, Zenon DEF PCs
    <3>2. n = [m EXCEPT !.route = route]
      OBVIOUS
    <3> HIDE DEF m, n
    <3> QED
      BY <1>4, <3>1, <3>2, Set_route, Zenon
  <2>2. Set(r, n)
    BY <1>4, Zenon
  <2> HIDE DEF n
  <2>3. Consistent(n, clock)
    BY <1>4, <2>1 DEF Consistent
  <2>4. Vouched(r, n)
    BY <1>4, <2>1, Zenon DEF Vouched
  <2>5. Moves(r, n)
    BY <1>1, <2>1, <2>2, <2>3, <2>4, Zenon DEF Moves
  <2> QED
    BY <2>5, MovesInv, Zenon
<1>5. CASE /\ route \in Routes /\ key \in Keys
           /\ Set(r, [Fresh EXCEPT !.pc = "validate", !.route = route, !.key = key])
  <2> DEFINE n == [Fresh EXCEPT !.pc = "validate", !.route = route, !.key = key]
  <2>1. /\ n \in States /\ n.pc = "validate" /\ n.route = route /\ n.ran = Null
        /\ n.late = FALSE /\ n.count = 0 /\ n.status = 0
    <3> DEFINE m == [Fresh EXCEPT !.pc = "validate"]
    <3>1. /\ m \in States /\ m.pc = "validate" /\ m.ran = Null /\ m.late = FALSE
          /\ m.count = 0 /\ m.status = 0
      BY FreshFacts, Set_pc, Zenon DEF PCs
    <3> DEFINE o == [m EXCEPT !.route = route]
    <3>2. n = [o EXCEPT !.key = key]
      BY Zenon
    <3> HIDE DEF m, n
    <3>3. /\ o \in States /\ o.pc = "validate" /\ o.route = route /\ o.ran = Null
          /\ o.late = FALSE /\ o.count = 0 /\ o.status = 0
      BY <1>5, <3>1, Set_route, Zenon
    <3> HIDE DEF o
    <3> QED
      BY <1>5, <3>2, <3>3, Set_key
  <2>2. Set(r, n)
    BY <1>5
  <2> HIDE DEF n
  <2>3. Consistent(n, clock) /\ ~Passed(n)
    BY <1>5, <2>1 DEF Consistent, Passed
  <2>4. Moves(r, n)
    BY <1>1, <2>1, <2>2, <2>3, Zenon DEF Moves
  <2> QED
    BY <2>4, MovesInv, Zenon
<1> QED
  <2>1. CASE route = Null
    BY <1>2, <1>3, <2>1
  <2>2. CASE route # Null /\ ~route.auth
    BY <1>2, <1>4, <2>2, Zenon
  <2>3. CASE route # Null /\ route.auth /\ key = Null
    BY <1>2, <1>3, <2>3
  <2>4. CASE route # Null /\ route.auth /\ key # Null /\ "auth" \notin Configured
    BY <1>2, <1>3, <2>4
  <2>5. CASE route # Null /\ route.auth /\ key # Null /\ "auth" \in Configured
    BY <1>2, <1>5, <2>5
  <2> QED
    BY <2>1, <2>2, <2>3, <2>4, <2>5, Zenon

LEMMA AuthorizeInv ==
  ASSUME Inv, NEW r \in Requests, Validate(r) \/ UpdateLastUsed(r) \/ AuthFails(r)
  PROVE  Inv'
<1> DEFINE s == req[r]
<1>1. /\ s \in States /\ Consistent(s, clock) /\ s.pc \in {"validate", "touch"}
      /\ UNCHANGED <<clock, keys, counters, barred>>
  BY TypeParts DEF Inv, AllConsistent, Validate, UpdateLastUsed, AuthFails
<1>2. s.ran = Null /\ s.route \in Routes
  BY <1>1 DEF Consistent
<1>3. CASE \E status \in {401, 403, 503} : Set(r, Refused(status))
  BY <1>1, <1>2, <1>3, RefusedInv
<1>4. CASE Goto(r, "touch")
  <2> DEFINE n == [s EXCEPT !.pc = "touch"]
  <2>1. /\ n \in States /\ n.pc = "touch" /\ n.route = s.route
        /\ n.ran = s.ran /\ n.late = s.late /\ n.count = s.count /\ n.status = s.status
    BY <1>1, Set_pc, Zenon DEF PCs
  <2>2. Set(r, n)
    BY <1>4, Zenon DEF Goto
  <2> HIDE DEF n
  <2>3. Consistent(n, clock) /\ ~Passed(n)
    BY <1>1, <1>2, <2>1 DEF Consistent, Passed
  <2>4. Moves(r, n)
    BY <1>1, <1>2, <2>1, <2>2, <2>3, Zenon DEF Moves
  <2> QED
    BY <2>4, MovesInv, Zenon
<1>5. CASE /\ Goto(r, "limit") /\ Touched(s.key)
           /\ keys[s.key].project = s.route.project
  <2> DEFINE n == [s EXCEPT !.pc = "limit"]
  <2>1. /\ n \in States /\ n.pc = "limit" /\ n.route = s.route /\ n.key = s.key
        /\ n.ran = s.ran /\ n.late = s.late /\ n.count = s.count /\ n.status = s.status
    BY <1>1, Set_pc, Zenon DEF PCs
  <2>2. Set(r, n)
    BY <1>5, Zenon DEF Goto
  <2> HIDE DEF n
  <2>3. Consistent(n, clock)
    BY <1>1, <1>2, <2>1 DEF Consistent
  \* A key that bars the request is disabled, and would not have been touched.
  <2>4. Vouched(r, n)
    BY <1>5, <2>1, Zenon DEF Vouched, Touched, Inv, Authorized
  <2>5. Moves(r, n)
    BY <1>1, <1>2, <2>1, <2>2, <2>3, <2>4, Zenon DEF Moves
  <2> QED
    BY <2>5, MovesInv, Zenon
<1> QED
  BY <1>3, <1>4, <1>5 DEF Validate, UpdateLastUsed, AuthFails

\* An authorized request moves on with its route, its key and its count.
LEMMA OnwardInv ==
  ASSUME Inv, NEW r \in Requests, NEW n \in States, Consistent(n, clock), Passed(req[r]),
         n.route = req[r].route, n.key = req[r].key, n.ran = req[r].ran,
         n.ran # Null => n.now = req[r].now /\ n.count \in {req[r].count, 0},
         Set(r, n), UNCHANGED <<clock, keys, counters, barred>>
  PROVE  Inv'
<1>1. Vouched(r, n)
  BY Zenon DEF Inv, Authorized, Vouched
<1>2. Moves(r, n)
  BY <1>1, Zenon DEF Moves
<1> QED
  BY <1>2, MovesInv, Zenon

\* An authorized request is answered.
LEMMA AnsweredInv ==
  ASSUME Inv, NEW r \in Requests, NEW status \in {200, 429, 500}, Answer(r, status),
         Passed(req[r]), UNCHANGED <<clock, keys, counters, barred>>,
         status = 200 => req[r].pc = "proxy",
         status = 429 => req[r].ran # Null /\ req[r].count > req[r].route.limit
  PROVE  Inv'
<1> DEFINE s == req[r]
           m == [s EXCEPT !.pc = "done"]
           n == [m EXCEPT !.status = status]
<1>1. s \in States /\ Consistent(s, clock) /\ status \in Statuses /\ "done" \in PCs
  BY TypeParts DEF Inv, AllConsistent, Statuses, PCs
<1>2. Set(r, n)
  BY DEF Answer
<1> HIDE DEF s
<1>3. /\ m \in States /\ m.pc = "done" /\ m.route = s.route /\ m.key = s.key
      /\ m.now = s.now /\ m.ran = s.ran /\ m.late = s.late /\ m.count = s.count
  BY <1>1, Set_pc
<1> HIDE DEF m
<1>4. /\ n \in States /\ n.pc = "done" /\ n.route = s.route /\ n.key = s.key
      /\ n.now = s.now /\ n.ran = s.ran /\ n.late = s.late /\ n.count = s.count
      /\ n.status = status
  BY <1>1, <1>3, Set_status
<1> HIDE DEF n
<1>5. Consistent(n, clock)
  BY <1>1, <1>4 DEF Consistent, Limited, s
<1> QED
  BY <1>2, <1>4, <1>5, OnwardInv DEF s

LEMMA CheckRateLimitInv ==
  ASSUME Inv, NEW r \in Requests, CheckRateLimit(r)
  PROVE  Inv'
<1> DEFINE s == req[r]
<1>1. /\ s \in States /\ Consistent(s, clock) /\ s.pc = "limit" /\ Passed(s)
      /\ UNCHANGED <<clock, keys, counters, barred>> /\ clock \in 0..MaxTime
  BY TypeParts, Zenon DEF Inv, AllConsistent, CheckRateLimit, Passed
<1>2. /\ s.ran = Null /\ s.late = FALSE /\ s.count = 0 /\ s.status = 0 /\ s.route \in Routes
  BY <1>1, Zenon DEF Consistent, States
<1>3. CASE Goto(r, "proxy")
  <2> DEFINE n == [s EXCEPT !.pc = "proxy"]
  <2>1. /\ n \in States /\ n.pc = "proxy" /\ n.route = s.route /\ n.key = s.key
        /\ n.ran = Null /\ n.late = FALSE /\ n.count = 0 /\ n.status = 0
    BY <1>1, <1>2, Set_pc, Zenon DEF PCs
  <2>2. Set(r, n)
    BY <1>3, Zenon DEF Goto
  <2> HIDE DEF n
  <2>3. Consistent(n, clock)
    BY <1>2, <2>1 DEF Consistent
  <2> QED
    BY <1>1, <1>2, <2>1, <2>2, <2>3, OnwardInv, Zenon
<1>4. CASE Answer(r, 500)
  BY <1>1, <1>4, AnsweredInv
<1>5. CASE s.route.limit # 0 /\ Set(r, [s EXCEPT !.pc = "eval", !.now = clock])
  <2> DEFINE m == [s EXCEPT !.pc = "eval"]
             n == [m EXCEPT !.now = clock]
  <2>1. /\ m \in States /\ m.pc = "eval" /\ m.route = s.route /\ m.key = s.key
        /\ m.ran = Null /\ m.late = FALSE /\ m.count = 0 /\ m.status = 0
    BY <1>1, <1>2, Set_pc, Zenon DEF PCs
  <2>2. Set(r, n)
    BY <1>5, Zenon
  <2> HIDE DEF m
  <2>3. /\ n \in States /\ n.pc = "eval" /\ n.route = s.route /\ n.key = s.key /\ n.now = clock
        /\ n.ran = Null /\ n.late = FALSE /\ n.count = 0 /\ n.status = 0
    BY <1>1, <2>1, Set_now
  <2> HIDE DEF n
  <2>4. Limited(n, clock)
    BY <1>1, <1>2, <1>5, <2>3, RouteAssumption, TimeAssumption DEF Limited
  <2>5. Consistent(n, clock)
    BY <1>2, <2>3, <2>4 DEF Consistent
  <2> QED
    BY <1>1, <1>2, <2>2, <2>3, <2>5, OnwardInv, Zenon
<1> QED
  BY <1>3, <1>4, <1>5 DEF CheckRateLimit

LEMMA VerdictInv ==
  ASSUME Inv, NEW r \in Requests, Verdict(r)
  PROVE  Inv'
<1> DEFINE s == req[r]
<1>1. /\ s \in States /\ Consistent(s, clock) /\ s.pc = "verdict" /\ Passed(s)
      /\ UNCHANGED <<clock, keys, counters, barred>>
  BY TypeParts DEF Inv, AllConsistent, Verdict, Passed
<1>2. /\ s.ran # Null /\ s.late = FALSE /\ s.status = 0 /\ s.route \in Routes
      /\ s.ran <= clock /\ Limited(s, clock) /\ s.count \in Nat /\ s.route.limit \in Nat
  BY <1>1, RouteAssumption, Zenon DEF Consistent, States
<1>3. CASE Goto(r, "proxy") /\ s.count <= s.route.limit
  <2> DEFINE n == [s EXCEPT !.pc = "proxy"]
  <2>1. /\ n \in States /\ n.pc = "proxy" /\ n.route = s.route /\ n.key = s.key /\ n.now = s.now
        /\ n.ran = s.ran /\ n.late = FALSE /\ n.count = s.count /\ n.status = 0
    BY <1>1, <1>2, Set_pc, Zenon DEF PCs
  <2>2. Set(r, n)
    BY <1>3, Zenon DEF Goto
  <2> HIDE DEF n
  <2>3. Consistent(n, clock)
    BY <1>2, <1>3, <2>1 DEF Consistent, Limited
  <2> QED
    BY <1>1, <1>2, <2>1, <2>2, <2>3, OnwardInv, Zenon
<1>4. CASE Answer(r, 429) /\ s.count > s.route.limit
  BY <1>1, <1>2, <1>4, AnsweredInv
<1> QED
  BY <1>2, <1>3, <1>4 DEF Verdict, Allowed

LEMMA LimiterFailsInv ==
  ASSUME Inv, NEW r \in Requests, LimiterFails(r)
  PROVE  Inv'
<1> DEFINE s == req[r]
<1>1. /\ s \in States /\ Consistent(s, clock) /\ s.pc \in {"eval", "verdict"} /\ Passed(s)
      /\ UNCHANGED <<clock, keys, counters, barred>>
  BY TypeParts, Zenon DEF Inv, AllConsistent, LimiterFails, Passed
<1>2. /\ s.status = 0 /\ s.route \in Routes /\ Limited(s, clock)
      /\ s.ran # Null => s.ran <= clock
  BY <1>1 DEF Consistent
<1>3. PICK late \in BOOLEAN :
        /\ late => s.pc = "eval"
        /\ Set(r, [s EXCEPT !.pc = "proxy", !.count = 0, !.late = late])
  BY Zenon DEF LimiterFails
<1> DEFINE m == [s EXCEPT !.pc = "proxy"]
           o == [m EXCEPT !.count = 0]
           n == [o EXCEPT !.late = late]
<1>4. late => s.ran = Null
  BY <1>1, <1>3, Zenon DEF Consistent
<1>5. /\ m \in States /\ m.pc = "proxy" /\ m.route = s.route /\ m.key = s.key /\ m.now = s.now
      /\ m.ran = s.ran /\ m.status = 0
  BY <1>1, <1>2, Set_pc, Zenon DEF PCs
<1>6. Set(r, n)
  BY <1>3
<1> HIDE DEF m
<1>7. /\ o \in States /\ o.pc = "proxy" /\ o.route = s.route /\ o.key = s.key /\ o.now = s.now
      /\ o.ran = s.ran /\ o.status = 0 /\ o.count = 0
  BY <1>5, Set_count
<1> HIDE DEF o
<1>8. /\ n \in States /\ n.pc = "proxy" /\ n.route = s.route /\ n.key = s.key /\ n.now = s.now
      /\ n.ran = s.ran /\ n.status = 0 /\ n.count = 0 /\ n.late = late
  BY <1>7, Set_late
<1> HIDE DEF n
<1>9. Limited(n, clock)
  BY <1>2, <1>8, Zenon DEF Limited
<1>10. Consistent(n, clock)
  BY <1>2, <1>4, <1>8, <1>9 DEF Consistent
<1> QED
  BY <1>1, <1>6, <1>8, <1>10, OnwardInv, Zenon

LEMMA ProxyInv ==
  ASSUME Inv, NEW r \in Requests, Proxy(r)
  PROVE  Inv'
BY AnsweredInv DEF Proxy, Passed

\* The script runs, in time to be waited for or late.
LEMMA ClockOrder == ASSUME Inv PROVE clock <= clock
BY TypeParts, TimeAssumption DEF Inv

LEMMA EvalInv ==
  ASSUME Inv, NEW r \in Requests, Eval(r)
  PROVE  Inv'
<1> DEFINE s == req[r]
           m == [s EXCEPT !.pc = "verdict"]
           o == [m EXCEPT !.ran = clock]
           n == [o EXCEPT !.count = Counted(r).count]
<1>1. /\ s \in States /\ Consistent(s, clock) /\ s.pc = "eval" /\ Passed(s)
      /\ UNCHANGED <<clock, keys, barred>> /\ RunScript(r) /\ Set(r, n)
      /\ clock \in 0..MaxTime /\ clock # Null
  BY TypeParts, TimeAssumption, NullAssumption DEF Inv, AllConsistent, Eval, Passed
<1>2. /\ s.status = 0 /\ s.route \in Routes /\ s.ran = Null /\ s.late = FALSE
      /\ Limited(s, clock)
  BY <1>1, Zenon DEF Consistent, States
<1>3. Counted(r).count \in Nat
  BY <1>2, CountedFacts, Zenon DEF CounterType
<1>4. /\ m \in States /\ m.pc = "verdict" /\ m.route = s.route /\ m.key = s.key
      /\ m.now = s.now /\ m.late = FALSE /\ m.status = 0
  BY <1>1, <1>2, Set_pc, Zenon DEF PCs
<1> HIDE DEF m
<1>5. /\ o \in States /\ o.pc = "verdict" /\ o.route = s.route /\ o.key = s.key
      /\ o.now = s.now /\ o.late = FALSE /\ o.status = 0 /\ o.ran = clock
  BY <1>1, <1>4, Set_ran
<1> HIDE DEF o
<1>6. /\ n \in States /\ n.pc = "verdict" /\ n.route = s.route /\ n.key = s.key
      /\ n.now = s.now /\ n.late = FALSE /\ n.status = 0 /\ n.ran = clock
      /\ n.count = Counted(r).count
  BY <1>3, <1>5, Set_count, Zenon
<1> HIDE DEF n
<1>7. Limited(n, clock)
  BY <1>2, <1>6, Zenon DEF Limited
<1>8. clock <= clock
  BY ClockOrder, Zenon
<1>9. Consistent(n, clock)
  BY <1>1, <1>2, <1>6, <1>7, <1>8 DEF Consistent
<1>10. Vouched(r, n)
  BY <1>1, <1>6, Zenon DEF Inv, Authorized, Vouched
<1>11. Counts(r, n)
  BY <1>1, <1>2, <1>6, <1>9, <1>10, Zenon DEF Counts
<1> QED
  BY <1>11, CountsInv, Zenon

LEMMA LateEvalInv ==
  ASSUME Inv, NEW r \in Requests, LateEval(r)
  PROVE  Inv'
<1> DEFINE s == req[r]
           m == [s EXCEPT !.late = FALSE]
           n == [m EXCEPT !.ran = clock]
<1>1. /\ s \in States /\ Consistent(s, clock) /\ s.late
      /\ UNCHANGED <<clock, keys, barred>> /\ RunScript(r) /\ Set(r, n)
      /\ clock \in 0..MaxTime /\ clock # Null
  BY TypeParts, TimeAssumption, NullAssumption DEF Inv, AllConsistent, LateEval
<1>2. /\ s.ran = Null /\ s.count = 0 /\ Limited(s, clock)
      /\ s.pc \notin {"new", "validate", "touch", "limit", "eval", "verdict"}
  BY <1>1, Zenon DEF Consistent
<1>3. /\ m \in States /\ m.pc = s.pc /\ m.route = s.route /\ m.key = s.key
      /\ m.now = s.now /\ m.late = FALSE /\ m.status = s.status /\ m.count = 0
  BY <1>1, <1>2, Set_late, Zenon
<1> HIDE DEF m
<1>4. /\ n \in States /\ n.pc = s.pc /\ n.route = s.route /\ n.key = s.key
      /\ n.now = s.now /\ n.late = FALSE /\ n.status = s.status /\ n.count = 0
      /\ n.ran = clock
  BY <1>1, <1>3, Set_ran
<1> HIDE DEF n
<1>5. Limited(n, clock)
  BY <1>2, <1>4, Zenon DEF Limited
<1>6. clock <= clock
  BY ClockOrder
<1>7. s.status # 429
  BY <1>1, <1>2, Zenon DEF Consistent
<1>8. Consistent(n, clock)
  BY <1>1, <1>2, <1>4, <1>5, <1>6, <1>7 DEF Consistent
<1>9. Passed(n) => Vouched(r, n)
  BY <1>4 DEF Inv, Authorized, Vouched, Passed
<1>10. Counts(r, n)
  BY <1>1, <1>2, <1>4, <1>8, <1>9, Zenon DEF Counts
<1> QED
  BY <1>10, CountsInv

----------------------------------------------------------------------------
(* The invariant, and what follows from it.                                *)

LEMMA NextInv == Inv /\ [Next]_vars => Inv'
<1> SUFFICES ASSUME Inv, [Next]_vars PROVE Inv'
  OBVIOUS
<1>1. ASSUME NEW k \in Keys, CreateAPIKey(k) PROVE Inv'
  BY <1>1, CreateInv
<1>2. ASSUME NEW k \in Keys, NEW p \in Projects, RevokeAPIKey(k, p) PROVE Inv'
  BY <1>2, RevokeInv
<1>3. ASSUME NEW r \in Requests, Arrive(r) PROVE Inv'
  BY <1>3, ArriveInv, Zenon
<1>4. ASSUME NEW r \in Requests, Validate(r) \/ UpdateLastUsed(r) \/ AuthFails(r) PROVE Inv'
  BY <1>4, AuthorizeInv, Zenon
<1>5. ASSUME NEW r \in Requests, CheckRateLimit(r) PROVE Inv'
  BY <1>5, CheckRateLimitInv
<1>6. ASSUME NEW r \in Requests, Eval(r) PROVE Inv'
  BY <1>6, EvalInv
<1>7. ASSUME NEW r \in Requests, LateEval(r) PROVE Inv'
  BY <1>7, LateEvalInv
<1>8. ASSUME NEW r \in Requests, Verdict(r) PROVE Inv'
  BY <1>8, VerdictInv
<1>9. ASSUME NEW r \in Requests, LimiterFails(r) PROVE Inv'
  BY <1>9, LimiterFailsInv
<1>10. ASSUME NEW r \in Requests, Proxy(r) PROVE Inv'
  BY <1>10, ProxyInv
<1>11. CASE Tick
  BY <1>11, TickInv
<1>12. CASE UNCHANGED vars
  <2>1. KeysOK /\ barred \in [Requests -> SUBSET Keys]
    BY TypeParts DEF Inv
  <2>2. KeysMove
    BY <1>12, <2>1 DEF vars, KeysMove, KeysOK
  <2> QED
    BY <2>2, KeysMoveInv
<1> QED
  BY <1>1, <1>2, <1>3, <1>4, <1>5, <1>6, <1>7, <1>8, <1>9, <1>10, <1>11, <1>12, Zenon DEF Next

\* A request that was counted in time and let through was given a number
\* between one and the limit.
LEMMA InTimeFacts ==
  ASSUME Inv, NEW c, NEW q \in InTime(c), Admitted(q), req[q].count > 0
  PROVE  /\ q \in Requests /\ req[q].ran # Null /\ KeyOf(req[q]) = c
         /\ req[q].route \in Routes /\ req[q].ran < EndOf(req[q])
         /\ req[q].count \in 1..req[q].route.limit
         /\ req[q].route.limit \in Nat
<1>1. /\ q \in Requests /\ req[q].ran # Null /\ CounterKey(q) = c
      /\ req[q].ran < WindowEnd(c[3], req[q].route.window)
  BY DEF InTime
<1>2. KeyOf(req[q]) = c
  BY <1>1, CounterKeyIsKeyOf
<1>3. req[q] \in States
  BY <1>1, TypeParts DEF Inv
<1>4. Consistent(req[q], clock)
  BY <1>1 DEF Inv, AllConsistent
<1>5. Limited(req[q], clock)
  BY <1>1, <1>4, Zenon DEF Consistent
<1>6. /\ EndOf(req[q]) = WindowEnd(c[3], req[q].route.window)
      /\ req[q].route.limit \in Nat
  BY <1>2, <1>3, <1>5, EndFacts
<1>7. req[q].count <= req[q].route.limit
  BY <1>4 DEF Consistent, Admitted
<1>8. req[q].count \in Nat
  BY <1>3 DEF States
<1> QED
  BY <1>1, <1>2, <1>5, <1>6, <1>7, <1>8 DEF Limited

\* The requests of one client let through in a window were given different
\* numbers, none above the limit.
LEMMA WithinLimitHolds == Inv => WithinLimit
<1>1. ASSUME Inv, NEW c \in DOMAIN counters,
             NEW r \in {q \in InTime(c) : Admitted(q) /\ req[q].count > 0}
      PROVE  Cardinality({q \in InTime(c) : Admitted(q) /\ req[q].count > 0})
               <= req[r].route.limit
  <2> DEFINE allowed == {q \in InTime(c) : Admitted(q) /\ req[q].count > 0}
             limit == req[r].route.limit
             number == [q \in allowed |-> req[q].count]
  <2>1. req \in [Requests -> States]
    BY <1>1, TypeParts DEF Inv
  <2>2. ASSUME NEW q \in allowed
        PROVE  /\ q \in Requests /\ req[q].ran # Null /\ KeyOf(req[q]) = c
               /\ req[q].route \in Routes /\ req[q].ran < EndOf(req[q])
               /\ req[q].count \in 1..req[q].route.limit
               /\ req[q].route.limit \in Nat
    BY <1>1, InTimeFacts
  <2>3. \A q \in allowed : req[q].route = req[r].route
    <3> SUFFICES ASSUME NEW q \in allowed PROVE req[q].route = req[r].route
      OBVIOUS
    <3> QED
      BY <1>1, <2>1, <2>2, SameKey, Zenon
  <2>4. number \in [allowed -> 1..limit]
    BY <2>2, <2>3, Zenon
  <2>5. ASSUME NEW p \in allowed, NEW q \in allowed, number[p] = number[q]
        PROVE  p = q
    <3>1. req[p].count = req[q].count /\ req[p].count > 0 /\ req[q].count > 0
      BY <2>2, <2>5, Zenon
    <3> QED
      BY <1>1, <2>2, <3>1, Zenon DEF Inv, Window
  <2>6. limit \in Nat
    BY <1>1, <2>2
  <2>7. allowed \in SUBSET Requests
    BY <2>2
  <2> QED
    BY <1>1, <2>4, <2>5, <2>6, <2>7, Zenon DEF Inv, SetsOfRequests
<1> QED
  BY <1>1 DEF WithinLimit

\* A request over the limit was counted after as many others as it allows.
LEMMA RefusedHolds == Inv => RefusedOverLimit
<1>1. ASSUME Inv, NEW r \in Requests, req[r].status = 429
      PROVE  req[r].route.limit <=
               Cardinality({s \in Requests \ {r} : req[s].ran # Null /\ CounterKey(s) = CounterKey(r)})
  <2> DEFINE ran == Ran(KeyOf(req[r]))
  <2>1. req[r] \in States /\ Consistent(req[r], clock)
    BY <1>1, TypeParts DEF Inv, AllConsistent
  <2>2. /\ req[r].ran # Null /\ req[r].count > req[r].route.limit /\ req[r].count \in Nat
        /\ Limited(req[r], clock)
    BY <1>1, <2>1, Zenon DEF Consistent, States
  <2>3. req[r].route.limit \in Nat
    BY <2>1, <2>2, EndFacts
  <2>4. r \in ran /\ req[r].count <= Cardinality(ran)
    BY <1>1, <2>2 DEF Inv, Honest, Ran
  <2>5. {s \in Requests \ {r} : req[s].ran # Null /\ CounterKey(s) = CounterKey(r)} = ran \ {r}
    BY CounterKeyIsKeyOf DEF Ran
  <2>6. ran \in SUBSET Requests
    BY DEF Ran
  <2> HIDE DEF ran
  <2>7. Cardinality(ran \ {r}) \in Nat /\ Cardinality(ran) = Cardinality(ran \ {r}) + 1
    <3>1. ran \ {r} \in SUBSET Requests /\ r \in Requests \ (ran \ {r}) /\ (ran \ {r}) \cup {r} = ran
      BY <2>4, <2>6
    <3> QED
      BY <1>1, <3>1, Zenon DEF Inv, SetsOfRequests
  <2>8. req[r].route.limit <= Cardinality(ran \ {r})
    BY <2>2, <2>3, <2>4, <2>7
  <2> QED
    BY <2>5, <2>8, Zenon
<1> QED
  BY <1>1, Zenon DEF RefusedOverLimit

\* The facts about finite sets that the invariant carries.
Finite == INSTANCE FiniteSetTheorems

LEMMA SameIsFinite ==
  ASSUME NEW S
  PROVE  Finite!IsFiniteSet(S) = IsFiniteSet(S)
BY Zenon DEF Finite!IsFiniteSet, IsFiniteSet

LEMMA SameCardinality ==
  ASSUME NEW S
  PROVE  Finite!Cardinality(S) = Cardinality(S)
BY Zenon DEF Finite!Cardinality, Cardinality

LEMMA RequestsFinite == SetsOfRequests
<1> SUFFICES ASSUME NEW S \in SUBSET Requests
             PROVE  /\ Cardinality(S) \in Nat
                    /\ \A r \in Requests \ S : Cardinality(S \cup {r}) = Cardinality(S) + 1
                    /\ \A n \in Nat : \A f \in [S -> 1..n] :
                         (\A p, q \in S : f[p] = f[q] => p = q) => Cardinality(S) <= n
  BY Zenon DEF SetsOfRequests
<1>1. Finite!IsFiniteSet(S)
  BY RequestsAssumption, SameIsFinite, Finite!FS_Subset, Zenon
<1>2. Cardinality(S) \in Nat
  BY <1>1, SameCardinality, Finite!FS_CardinalityType, Zenon
<1>3. \A r \in Requests \ S : Cardinality(S \cup {r}) = Cardinality(S) + 1
  BY <1>1, SameCardinality, Finite!FS_AddElement, Zenon
<1>4. ASSUME NEW n \in Nat, NEW f \in [S -> 1..n], \A p, q \in S : f[p] = f[q] => p = q
      PROVE  Cardinality(S) <= n
  <2>1. f \in Finite!Injection(S, 1..n)
    BY <1>4, Zenon DEF Finite!Injection, Finite!IsInjective
  <2>2. Finite!IsFiniteSet(1..n) /\ Finite!Cardinality(1..n) = n
    BY <1>4, Finite!FS_Interval
  <2>3. Finite!Cardinality(S) <= n
    BY <2>1, <2>2, Finite!FS_Injection
  <2> QED
    BY <2>3, SameCardinality, Zenon
<1> QED
  BY <1>2, <1>3, <1>4, Zenon

LEMMA InitInv == Init => Inv
<1> SUFFICES ASSUME Init PROVE Inv
  BY Zenon
<1>1. /\ clock = 0 /\ DOMAIN keys = {} /\ DOMAIN counters = {}
      /\ req = [r \in Requests |-> Fresh] /\ barred = [r \in Requests |-> {}]
  BY DEF Init
<1>2. TypeOK
  BY <1>1, FreshFacts, TimeAssumption, TypeParts DEF KeysOK, CountersOK
<1>3. Consistent(Fresh, 0) /\ ~Passed(Fresh)
  BY FreshFacts DEF Consistent, Passed
<1>4. AllConsistent
  BY <1>1, <1>3, Zenon DEF AllConsistent
<1>5. Authorized
  BY <1>1, <1>3, Zenon DEF Authorized
<1>6. Window /\ Honest
  BY <1>1, FreshFacts, Zenon DEF Window, Honest
<1> QED
  BY <1>2, <1>4, <1>5, <1>6, RequestsFinite, Zenon DEF Inv

LEMMA Invariant == Spec => []Inv
BY InitInv, NextInv, PTL DEF Spec

\* Every variable of Gateway keeps its type; a counter in Redis always has a
\* time to expire, whichever request has started it.
THEOREM GatewayTypeCorrect == Spec => []TypeOK
<1>1. Inv => TypeOK
  BY Zenon DEF Inv
<1> QED
  BY <1>1, Invariant, PTL

\* No request reaches a protected upstream without a key of its project that
\* had not been revoked when the auth service answered.
THEOREM AuthorizedCorrect == Spec => []OnlyAuthorized
<1>1. Inv => OnlyAuthorized
  BY Zenon DEF Inv, OnlyAuthorized, Authorized, Admitted, Passed, Vouched
<1> QED
  BY <1>1, Invariant, PTL

\* Of the requests of one client counted within a window, at most the limit
\* are let through, whatever the window, the limit and the resolution of the
\* clocks: they were given different numbers, none above the limit.
THEOREM WithinLimitCorrect == Spec => []WithinLimit
BY WithinLimitHolds, Invariant, PTL

\* A request that is answered 429 was counted after at least as many others of
\* its client and window as the limit allows.
THEOREM RefusedCorrect == Spec => []RefusedOverLimit
BY RefusedHolds, Invariant, PTL
====
