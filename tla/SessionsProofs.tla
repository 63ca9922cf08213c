---- MODULE SessionsProofs ----
(***************************************************************************)
(* Type correctness of Sessions, and the two promises of token rotation,   *)
(* for any number of users, tokens and concurrent handlers.                *)
(*                                                                         *)
(* OneLiveToken is not inductive.  A login must find no live token under   *)
(* the session it starts, which needs that a session is named after a      *)
(* token that was made (Rooted); and a rotation must know that the token   *)
(* it names was made, although it may be gone by now (Handling).           *)
(*                                                                         *)
(* The guarded calls of AccessTokens come last.  A call that was stale     *)
(* when it arrived is refused by the second read of the user, because no   *)
(* step takes back what made it stale (AccessInv, Forward).                *)
(***************************************************************************)
EXTENDS AccessTokens, TLAPS

RowType == [user : Users, expires : Nat, revoked : Nat \cup {Null}, created : Nat]

ReqType == [pc : PCs, user : Users \cup {Null}, token : Tokens \cup {Null}, now : Nat]

\* A session is named after the token that it began with.
Rooted == \A t \in Made : session[t] \in Made /\ session[session[t]] = session[t]

\* A handler at work has a registered user; one that refreshes, a token too.
Handling ==
  \A r \in Requests : req[r].pc # "idle" =>
    /\ req[r].user \in Users
    /\ users[req[r].user] # "absent"
    /\ req[r].pc \in {"user", "rotate"} => req[r].token \in Made

\* The state of the tables, as far as it can be stated without the handlers.
RowsOK ==
  /\ DOMAIN rows \subseteq Made
  /\ \A t \in DOMAIN rows : rows[t] \in RowType /\ users[rows[t].user] # "absent"

Inv == TypeOK /\ Handling /\ Rooted /\ OneLiveToken

\* The row an INSERT adds has its type.
LEMMA RowTyped ==
  ASSUME NEW u \in Users, NEW e \in Nat, NEW c \in Nat
  PROVE  /\ Row(u, e, c) \in RowType
         /\ Row(u, e, c).user = u
         /\ Row(u, e, c).revoked = Null
BY DEF Row, RowType

\* A revocation keeps the type of the row and everything but revoked.
LEMMA RevokeFacts ==
  ASSUME NEW t \in DOMAIN rows, NEW v \in Nat \cup {Null}, RowsOK
  PROVE  LET new == [rows EXCEPT ![t].revoked = v]
         IN  /\ DOMAIN new = DOMAIN rows
             /\ \A s \in DOMAIN rows : new[s] \in RowType /\ new[s].user = rows[s].user
             /\ new[t].revoked = v
             /\ \A s \in DOMAIN rows : s # t => new[s] = rows[s]
BY DEF RowsOK, RowType

\* Init establishes the invariant.
LEMMA InitInv == Init => Inv
<1> SUFFICES ASSUME Init PROVE Inv
  OBVIOUS
<1>1. Made = {} /\ DOMAIN rows = {}
  BY NullAssumption DEF Init, Made
<1>2. Idle \in ReqType /\ Idle.pc = "idle"
  BY DEF Idle, ReqType, PCs
<1>3. TypeOK
  BY <1>1, <1>2, TimeAssumption DEF Init, TypeOK, ReqType
<1>4. Handling
  BY <1>2 DEF Init, Handling
<1> QED
  BY <1>1, <1>3, <1>4 DEF Inv, Rooted, OneLiveToken, Live

\* TypeOK in the vocabulary of this module.
LEMMA TypeParts ==
  TypeOK <=> /\ clock \in 0..MaxTime
             /\ users \in [Users -> {"absent", "enabled", "disabled"}]
             /\ RowsOK
             /\ session \in [Tokens -> Tokens \cup {Null}]
             /\ known \subseteq Made
             /\ req \in [Requests -> ReqType]
BY DEF TypeOK, RowsOK, RowType, ReqType

\* A new token under a session: the effect of CreateRefreshToken and Rotate on
\* the tables, where `base` is the table the INSERT finds.
Inserts(t, root, u, e, base) ==
  /\ t \in Tokens \ Made /\ root \in Tokens /\ u \in Users /\ e \in Nat
  /\ users[u] # "absent"
  /\ DOMAIN base = DOMAIN rows
  /\ \A s \in DOMAIN rows : base[s] \in RowType /\ base[s].user = rows[s].user
  /\ rows' = InsertRefreshToken(base, t, u, e)
  /\ session' = [session EXCEPT ![t] = root]
  /\ users' = users
  /\ known' \in {known, known \cup {t}}

\* Such an insertion keeps the types and touches no other token.
LEMMA InsertStep ==
  ASSUME TypeOK, NEW t, NEW root, NEW u, NEW e, NEW base, Inserts(t, root, u, e, base)
  PROVE  /\ RowsOK'
         /\ session' \in [Tokens -> Tokens \cup {Null}]
         /\ known' \subseteq Made'
         /\ Made' = Made \cup {t}
         /\ t \notin DOMAIN rows
         /\ DOMAIN rows' = DOMAIN rows \cup {t}
         /\ rows'[t].revoked = Null
         /\ \A s \in DOMAIN rows : rows'[s] = base[s]
         /\ session'[t] = root
         /\ \A s \in Tokens : s # t => session'[s] = session[s]
<1> USE DEF Inserts
<1>1. /\ clock \in Nat /\ RowsOK /\ session \in [Tokens -> Tokens \cup {Null}]
      /\ known \subseteq Made
  BY TypeParts, TimeAssumption
<1>2. session'[t] = root /\ \A s \in Tokens : s # t => session'[s] = session[s]
  BY <1>1
<1>3. session' \in [Tokens -> Tokens \cup {Null}]
  BY <1>1
<1>4. Made' = Made \cup {t}
  BY <1>2, NullAssumption DEF Made
<1>5. t \notin DOMAIN rows
  BY <1>1 DEF RowsOK
<1>6. /\ DOMAIN rows' = DOMAIN rows \cup {t}
      /\ rows'[t] = Row(u, e, clock)
      /\ \A s \in DOMAIN rows : rows'[s] = base[s]
  BY <1>5 DEF InsertRefreshToken
<1>7. rows'[t] \in RowType /\ rows'[t].user = u /\ rows'[t].revoked = Null
  BY <1>1, <1>6, RowTyped
<1>8. \A s \in DOMAIN rows' : rows'[s] \in RowType /\ users'[rows'[s].user] # "absent"
  BY <1>1, <1>6, <1>7 DEF RowsOK
<1>9. RowsOK'
  BY <1>1, <1>4, <1>6, <1>8 DEF RowsOK, Made
<1> QED
  BY <1>1, <1>2, <1>3, <1>4, <1>5, <1>6, <1>7, <1>9

\* What a step does to the handlers, given that it leaves the others alone.
LEMMA HandlerStep ==
  ASSUME TypeOK, Handling, Made \subseteq Made', NEW r \in Requests, NEW state \in ReqType,
         req' = [req EXCEPT ![r] = state],
         \A u \in Users : users[u] # "absent" => users'[u] # "absent",
         state.pc # "idle" =>
           /\ state.user \in Users
           /\ users'[state.user] # "absent"
           /\ state.pc \in {"user", "rotate"} => state.token \in Made'
  PROVE  req' \in [Requests -> ReqType] /\ Handling'
<1>1. req \in [Requests -> ReqType]
  BY TypeParts
<1>2. req' \in [Requests -> ReqType]
  BY <1>1
<1>3. \A q \in Requests : req'[q] = IF q = r THEN state ELSE req[q]
  BY <1>1
<1> QED
  BY <1>2, <1>3 DEF Handling

\* A step that makes no token and leaves users enough of themselves.
LEMMA HandlersKept ==
  ASSUME TypeOK, Handling, session' = session, req' = req,
         \A u \in Users : users[u] # "absent" => users'[u] # "absent"
  PROVE  Made' = Made /\ req' \in [Requests -> ReqType] /\ Handling'
<1>1. Made' = Made /\ req' \in [Requests -> ReqType]
  BY TypeParts DEF Made
<1> QED
  BY <1>1 DEF Handling

\* Sessions named after a made token stay so when no token is made.
LEMMA RootedKept == Rooted /\ session' = session => Rooted'
BY DEF Rooted, Made

\* No session gets a live token by a step that makes none and revives none.
LEMMA LiveShrinks ==
  ASSUME session' = session, DOMAIN rows' \subseteq DOMAIN rows,
         \A t \in DOMAIN rows' : rows'[t].revoked = Null => rows[t].revoked = Null
  PROVE  \A s \in Tokens : Live(s)' \subseteq Live(s)
BY DEF Live

\* The state a handler returns to.
LEMMA IdleTyped == Idle \in ReqType /\ Idle.pc = "idle"
BY DEF Idle, ReqType, PCs

\* What a step owes: the invariant, and that ended sessions stay ended.
EndedStaysEnded == \A s \in Made : Live(s) = {} => Live(s)' = {}

StepOK == Inv' /\ EndedStaysEnded

\* A step that makes no token owes only the types and the handlers.
LEMMA ShrinkStep ==
  ASSUME Inv, TypeOK', Handling', session' = session,
         \A s \in Tokens : Live(s)' \subseteq Live(s)
  PROVE  StepOK
<1>1. Rooted'
  BY RootedKept DEF Inv
<1>2. OneLiveToken'
  BY DEF Inv, OneLiveToken
<1>3. EndedStaysEnded
  BY DEF EndedStaysEnded, Made
<1> QED
  BY <1>1, <1>2, <1>3 DEF StepOK, Inv

\* Steps of a handler that touch neither the tables nor the users.
LEMMA HandlerOnly ==
  ASSUME Inv, NEW r \in Requests, NEW state \in ReqType,
         req' = [req EXCEPT ![r] = state],
         UNCHANGED <<clock, users, rows, session, known>>,
         state.pc # "idle" =>
           /\ state.user \in Users
           /\ users[state.user] # "absent"
           /\ state.pc \in {"user", "rotate"} => state.token \in Made
  PROVE  StepOK
<1>1. Made' = Made
  BY DEF Made
<1>2. req' \in [Requests -> ReqType] /\ Handling'
  BY <1>1, HandlerStep, Zenon DEF Inv
<1>3. TypeOK'
  <2>1. RowsOK' /\ known' \subseteq Made'
    BY <1>1, TypeParts DEF Inv, RowsOK
  <2> QED
    BY <1>2, <2>1, TypeParts DEF Inv, TypeOK, RowsOK, RowType, ReqType
<1>4. \A s \in Tokens : Live(s)' \subseteq Live(s)
  BY DEF Live
<1> QED
  BY <1>2, <1>3, <1>4, ShrinkStep

\* Steps that change the users or remove or revoke rows.
LEMMA TableOnly ==
  ASSUME Inv, UNCHANGED <<session, known, req>>, clock' \in 0..MaxTime,
         users' \in [Users -> {"absent", "enabled", "disabled"}],
         \A u \in Users : users[u] # "absent" => users'[u] # "absent",
         DOMAIN rows' \subseteq DOMAIN rows,
         \A t \in DOMAIN rows' :
           /\ rows'[t] \in RowType /\ rows'[t].user = rows[t].user
           /\ rows'[t].revoked = Null => rows[t].revoked = Null
  PROVE  StepOK
<1>1. Made' = Made /\ req' \in [Requests -> ReqType] /\ Handling'
  BY HandlersKept DEF Inv
<1>2. RowsOK'
  <2>1. \A t \in DOMAIN rows : rows[t].user \in Users /\ users[rows[t].user] # "absent"
    BY TypeParts DEF Inv, RowsOK, RowType
  <2> QED
    BY <1>1, <2>1, TypeParts DEF Inv, RowsOK
<1>3. TypeOK'
  BY <1>1, <1>2, TypeParts DEF Inv, TypeOK, RowsOK, RowType, ReqType
<1> QED
  BY <1>1, <1>3, LiveShrinks, ShrinkStep

\* A login starts a session under a name no token bears.
LEMMA CreateStep ==
  ASSUME Inv, NEW r \in Requests, NEW now \in 0..clock, CreateRefreshToken(r, now)
  PROVE  StepOK
<1>1. PICK t \in Tokens \ Made :
        /\ rows' = InsertRefreshToken(rows, t, req[r].user, now + TTL)
        /\ session' = [session EXCEPT ![t] = t]
        /\ known' \in {known, known \cup {t}}
  BY LoginAssumption, Zenon DEF CreateRefreshToken, Reply
<1>2. /\ req' = [req EXCEPT ![r] = Idle] /\ UNCHANGED <<clock, users>>
      /\ req[r].pc = "login"
  BY Zenon DEF CreateRefreshToken, Goto
<1>3. PICK u, e, base : u = req[r].user /\ e = now + TTL /\ base = rows
  BY Zenon
<1>4. u \in Users /\ users[u] # "absent" /\ e \in Nat
  BY <1>2, <1>3, TypeParts, TimeAssumption DEF Inv, Handling, ReqType
<1>12. TypeOK /\ Inserts(t, t, u, e, base)
  BY <1>1, <1>2, <1>3, <1>4, TypeParts DEF Inv, RowsOK, Inserts
<1>5. /\ RowsOK'
      /\ session' \in [Tokens -> Tokens \cup {Null}]
      /\ known' \subseteq Made'
      /\ Made' = Made \cup {t}
      /\ t \notin DOMAIN rows
      /\ DOMAIN rows' = DOMAIN rows \cup {t}
      /\ \A s \in DOMAIN rows : rows'[s] = base[s]
      /\ session'[t] = t
      /\ \A s \in Tokens : s # t => session'[s] = session[s]
      /\ rows'[t].revoked = Null
  BY <1>12, InsertStep
<1>6. req' \in [Requests -> ReqType] /\ Handling'
  BY <1>2, <1>5, IdleTyped, HandlerStep, Zenon DEF Inv
<1>7. TypeOK'
  BY <1>2, <1>5, <1>6, TypeParts, Zenon DEF Inv, TypeOK, RowsOK, RowType, ReqType
<1>8. Made \subseteq Tokens /\ \A s \in Made : session[s] \in Made /\ session[session[s]] = session[s]
  BY DEF Inv, Rooted, Made
<1>9. Rooted'
  BY <1>5, <1>8 DEF Rooted
<1>10. \A s \in Tokens : s # t => Live(s)' = Live(s)
  BY <1>3, <1>5, <1>8, TypeParts DEF Live, Inv, RowsOK
<1>11. Live(t)' = {t}
  <2>1. \A s \in DOMAIN rows : s \in Made /\ session'[s] # t
    BY <1>5, <1>8, TypeParts DEF Inv, RowsOK
  <2> QED
    BY <1>5, <2>1 DEF Live
<1> QED
  BY <1>6, <1>7, <1>8, <1>9, <1>10, <1>11
  DEF StepOK, Inv, OneLiveToken, EndedStaysEnded

\* A rotation revokes the one live token of its session and adds one in its
\* place; a rotation that the UPDATE refuses changes no table.
LEMMA RotateStep ==
  ASSUME Inv, NEW r \in Requests, Rotate(r)
  PROVE  StepOK
<1>1. req[r].pc = "rotate" /\ req' = [req EXCEPT ![r] = Idle] /\ UNCHANGED <<clock, users>>
  BY DEF Rotate, Goto
<1>2. PICK old, u, now : old = req[r].token /\ u = req[r].user /\ now = req[r].now
  BY Zenon
<1>3. old \in Made /\ u \in Users /\ users[u] # "absent" /\ now \in Nat
  BY <1>1, <1>2, TypeParts DEF Inv, Handling, ReqType
<1>4. CASE ~Rotatable(old, now)
  <2>1. UNCHANGED <<rows, session, known>>
    BY <1>2, <1>4, Zenon DEF Rotate, RotateRefreshToken
  <2> QED
    BY <1>1, <2>1, IdleTyped, HandlerOnly, Zenon
<1>5. CASE Rotatable(old, now)
  <2>1. PICK new \in Tokens \ Made :
          /\ rows' = InsertRefreshToken([rows EXCEPT ![old].revoked = now], new, u, now + TTL)
          /\ session' = [session EXCEPT ![new] = session[old]]
          /\ known' \in {known, known \cup {new}}
    BY <1>2, <1>5, Zenon DEF Rotate, RotateRefreshToken, Reply
  <2>2. PICK root, e, base :
          root = session[old] /\ e = now + TTL /\ base = [rows EXCEPT ![old].revoked = now]
    BY Zenon
  <2>3. Made \subseteq Tokens /\ \A s \in Made : session[s] \in Made /\ session[session[s]] = session[s]
    BY DEF Inv, Rooted, Made
  <2>4. root \in Made /\ session[root] = root /\ e \in Nat
    BY <1>3, <2>2, <2>3, TimeAssumption
  <2>5. old \in DOMAIN rows /\ rows[old].revoked = Null /\ old \in Live(root)
    BY <1>5, <2>2 DEF Rotatable, Live
  <2>6. RowsOK
    BY TypeParts DEF Inv
  <2>7. /\ DOMAIN base = DOMAIN rows
        /\ \A s \in DOMAIN rows : base[s] \in RowType /\ base[s].user = rows[s].user
        /\ base[old].revoked = now
        /\ \A s \in DOMAIN rows : s # old => base[s] = rows[s]
    BY <1>3, <2>2, <2>5, <2>6, RevokeFacts
  <2>8. TypeOK /\ Inserts(new, root, u, e, base)
    BY <1>1, <1>3, <2>1, <2>2, <2>3, <2>4, <2>7, Zenon DEF Inv, Inserts
  <2>9. /\ RowsOK'
        /\ session' \in [Tokens -> Tokens \cup {Null}]
        /\ known' \subseteq Made'
        /\ Made' = Made \cup {new}
        /\ new \notin DOMAIN rows
        /\ DOMAIN rows' = DOMAIN rows \cup {new}
        /\ \A s \in DOMAIN rows : rows'[s] = base[s]
        /\ session'[new] = root
        /\ \A s \in Tokens : s # new => session'[s] = session[s]
    BY <2>8, InsertStep, ZenonT(30)
  <2>10. req' \in [Requests -> ReqType] /\ Handling'
    BY <1>1, <2>9, IdleTyped, HandlerStep, Zenon DEF Inv
  <2>11. TypeOK'
    BY <1>1, <2>9, <2>10, TypeParts, Zenon DEF Inv, TypeOK, RowsOK, RowType, ReqType
  <2>12. Rooted'
    BY <2>3, <2>4, <2>9 DEF Rooted
  <2>13. \A s \in Tokens : s # root => Live(s)' = Live(s)
    BY <2>2, <2>3, <2>5, <2>6, <2>7, <2>9 DEF Live, RowsOK
  <2>14. \A s \in Live(root) : s = old
    BY <2>3, <2>4, <2>5 DEF Inv, OneLiveToken
  <2>15. \A s \in Live(root)' : s = new
    <3>1. now # Null
      BY <1>3, NullAssumption
    <3>2. \A s \in DOMAIN rows : s \in Tokens /\ s # new /\ session'[s] = session[s]
      BY <2>1, <2>3, <2>6, <2>9 DEF RowsOK
    <3> QED
      BY <2>7, <2>9, <2>14, <3>1, <3>2 DEF Live
  <2> QED
    BY <2>3, <2>5, <2>10, <2>11, <2>12, <2>13, <2>15
    DEF StepOK, Inv, OneLiveToken, EndedStaysEnded
<1> QED
  BY <1>4, <1>5

\* A handler that begins a login.
LEMMA LoginStep ==
  ASSUME Inv, NEW r \in Requests, NEW u \in Users, Login(r, u)
  PROVE  StepOK
<1>1. PICK state : state = [Idle EXCEPT !.pc = "login", !.user = u, !.now = clock]
  OBVIOUS
<1>2. clock \in Nat
  BY TypeParts, TimeAssumption DEF Inv
<1>3. state \in ReqType /\ state.pc = "login" /\ state.user = u
  BY <1>1, <1>2, Zenon DEF Idle, ReqType, PCs
<1>4. /\ req' = [req EXCEPT ![r] = state] /\ users[u] # "absent"
      /\ UNCHANGED <<clock, users, rows, session, known>>
  BY <1>1 DEF Login, Goto
<1> QED
  BY <1>3, <1>4, HandlerOnly, Zenon

\* A handler that begins a refresh has a made token and its registered user.
LEMMA RefreshStep ==
  ASSUME Inv, NEW r \in Requests, NEW t \in Tokens, Refresh(r, t)
  PROVE  StepOK
<1>1. PICK u : u = rows[t].user
  OBVIOUS
<1>2. t \in Made /\ u \in Users /\ users[u] # "absent" /\ clock \in Nat
  BY <1>1, TypeParts, TimeAssumption DEF Refresh, Inv, RowsOK, RowType
<1>3. PICK state : state = [pc |-> "user", user |-> u, token |-> t, now |-> clock]
  BY Zenon
<1>4. state \in ReqType /\ state.pc = "user" /\ state.user = u /\ state.token = t
  BY <1>2, <1>3 DEF ReqType, PCs
<1>5. /\ req' = [req EXCEPT ![r] = state]
      /\ UNCHANGED <<clock, users, rows, session, known>>
  BY <1>1, <1>3 DEF Refresh, Goto
<1> QED
  BY <1>2, <1>4, <1>5, HandlerOnly, Zenon

\* A handler that goes on to the rotation, or gives up.
LEMMA UserStep ==
  ASSUME Inv, NEW r \in Requests, GetUserByID(r) \/ Abandon(r)
  PROVE  StepOK
<1>1. PICK state : state = [req[r] EXCEPT !.pc = "rotate"]
  BY Zenon
<1>2. req[r] \in ReqType
  BY TypeParts DEF Inv
<1>3. /\ state \in ReqType /\ state.pc = "rotate"
      /\ state.user = req[r].user /\ state.token = req[r].token
  BY <1>1, <1>2 DEF ReqType, PCs
<1>4. UNCHANGED <<clock, users, rows, session, known>>
  BY DEF GetUserByID, Abandon
<1>5. CASE req' = [req EXCEPT ![r] = Idle]
  BY <1>4, <1>5, IdleTyped, HandlerOnly, Zenon
<1>6. CASE req[r].pc = "user" /\ req' = [req EXCEPT ![r] = state]
  <2>1. /\ state.user \in Users /\ users[state.user] # "absent"
        /\ state.token \in Made
    BY <1>3, <1>6 DEF Inv, Handling
  <2> QED
    BY <1>3, <1>4, <1>6, <2>1, HandlerOnly, Zenon
<1> QED
  BY <1>1, <1>5, <1>6 DEF GetUserByID, Abandon, Goto

\* Registration, an operator, logout, the cleanup job and the clock make no
\* token and revive none.
LEMMA TableStep ==
  ASSUME Inv,
         \/ \E u \in Users : Register(u) \/ DisableUser(u)
         \/ \E t \in Tokens : Logout(t)
         \/ CleanupExpiredTokens
         \/ Tick
  PROVE  StepOK
<1>1. /\ clock \in 0..MaxTime /\ clock \in Nat /\ RowsOK
      /\ users \in [Users -> {"absent", "enabled", "disabled"}]
  BY TypeParts, TimeAssumption DEF Inv
<1>2. UNCHANGED <<session, known, req>>
  BY DEF Register, DisableUser, Logout, CleanupExpiredTokens, Tick
<1>3. clock' \in 0..MaxTime
  BY <1>1, TimeAssumption DEF Register, DisableUser, Logout, CleanupExpiredTokens, Tick
<1>4. /\ users' \in [Users -> {"absent", "enabled", "disabled"}]
      /\ \A u \in Users : users[u] # "absent" => users'[u] # "absent"
  BY <1>1 DEF Register, DisableUser, Logout, CleanupExpiredTokens, Tick
<1>5. /\ DOMAIN rows' \subseteq DOMAIN rows
      /\ \A t \in DOMAIN rows' :
           /\ rows'[t] \in RowType /\ rows'[t].user = rows[t].user
           /\ rows'[t].revoked = Null => rows[t].revoked = Null
  <2>1. CASE rows' = rows
    BY <1>1, <2>1 DEF RowsOK
  <2>2. ASSUME NEW t \in Tokens, Logout(t) PROVE <1>5
    <3>1. PICK v : v = IF rows[t].revoked = Null THEN clock ELSE rows[t].revoked
      OBVIOUS
    <3>2. t \in DOMAIN rows /\ rows' = [rows EXCEPT ![t].revoked = v]
      BY <2>2, <3>1 DEF Logout
    <3>3. v \in Nat \cup {Null} /\ v # Null
      BY <1>1, <3>1, <3>2, NullAssumption DEF RowsOK, RowType
    <3>4. /\ DOMAIN rows' = DOMAIN rows
          /\ \A s \in DOMAIN rows : rows'[s] \in RowType /\ rows'[s].user = rows[s].user
          /\ rows'[t].revoked = v
          /\ \A s \in DOMAIN rows : s # t => rows'[s] = rows[s]
      BY <1>1, <3>2, <3>3, RevokeFacts
    <3> QED
      BY <3>3, <3>4
  <2>3. ASSUME CleanupExpiredTokens PROVE <1>5
    <3>1. PICK batch : rows' = [t \in DOMAIN rows \ batch |-> rows[t]]
      BY <2>3 DEF CleanupExpiredTokens
    <3> QED
      BY <1>1, <3>1 DEF RowsOK
  <2> QED
    BY <2>1, <2>2, <2>3 DEF Register, DisableUser, Tick
<1> QED
  BY <1>2, <1>3, <1>4, <1>5, TableOnly

\* Every step keeps the invariant and leaves ended sessions ended.
LEMMA StepCorrect == Inv /\ [Next]_vars => Inv' /\ (EndedStaysEnded \/ UNCHANGED vars)
<1>1. ASSUME Inv, Next PROVE StepOK
  <2>1. CASE \/ \E u \in Users : Register(u) \/ DisableUser(u)
             \/ \E t \in Tokens : Logout(t)
             \/ CleanupExpiredTokens
             \/ Tick
    BY <1>1, <2>1, TableStep
  <2>2. ASSUME NEW r \in Requests,
               \/ \E u \in Users : Login(r, u)
               \/ \E t \in Tokens : Refresh(r, t)
               \/ \E now \in 0..clock : CreateRefreshToken(r, now)
               \/ GetUserByID(r) \/ Rotate(r) \/ Abandon(r)
        PROVE  StepOK
    BY <1>1, <2>2, LoginStep, RefreshStep, CreateStep, UserStep, RotateStep
  <2> QED
    BY <1>1, <2>1, <2>2 DEF Next
<1>2. ASSUME Inv, UNCHANGED vars PROVE Inv'
  <2>1. /\ clock' = clock /\ users' = users /\ rows' = rows
        /\ session' = session /\ known' = known /\ req' = req
    BY <1>2 DEF vars
  <2>2. TypeOK'
    BY <1>2, <2>1 DEF Inv, TypeOK, Made
  <2>3. Handling' /\ Rooted' /\ OneLiveToken'
    BY <1>2, <2>1 DEF Inv, Handling, Rooted, OneLiveToken, Live, Made
  <2> QED
    BY <2>2, <2>3 DEF Inv
<1> QED
  BY <1>1, <1>2 DEF StepOK

\* The variables of the auth service's token tables and handlers keep their
\* types, however many users, tokens and concurrent handlers there are.
THEOREM SessionsTypeCorrect == Spec => []TypeOK
<1>1. Inv => TypeOK
  BY DEF Inv
<1> QED
  BY <1>1, InitInv, StepCorrect, PTL DEF Spec

\* RotateRefreshToken leaves at most one token of a session unrevoked, for any
\* number of handlers that present the same token.
THEOREM OneLiveCorrect == Spec => []OneLiveToken
<1>1. Inv => OneLiveToken
  BY DEF Inv
<1> QED
  BY <1>1, InitInv, StepCorrect, PTL DEF Spec

\* A session that logout or the cleanup job has ended gets no live token again:
\* the WHERE of the rotation's UPDATE stops a refresh that read the token before.
THEOREM EndedCorrect == Spec => SessionStaysEnded
<1>1. Inv /\ [Next]_vars => [\A s \in Made : Live(s) = {} => Live(s)' = {}]_vars
  BY StepCorrect DEF EndedStaysEnded
<1>2. Inv /\ [Next]_vars => Inv'
  BY StepCorrect
<1> QED
  BY <1>1, <1>2, InitInv, PTL DEF Spec, SessionStaysEnded

----------------------------------------------------------------------------
(* Access tokens.                                                          *)

\* Every step of the composition is one of Sessions or leaves its variables
\* alone, so what is proved of Sessions holds beside the guarded calls.
THEOREM AccessImplementsSessions == AuthSpec => Spec
<1>1. AuthInit => Init
  BY DEF AuthInit
<1>2. [AuthNext]_authVars => [Next]_vars
  <2>1. ASSUME AuthNext PROVE Next \/ UNCHANGED vars
    BY <2>1, Zenon
    DEF AuthNext, Next, LoginUser, RefreshUser, HandOut, GiveUp, Promote,
        ParseAccessToken, AuthenticateAccessToken, EndCall
  <2> QED
    BY <2>1 DEF authVars
<1> QED
  BY <1>1, <1>2, PTL DEF AuthSpec, Spec

Roles == {"member", "admin"}

AccessType == [user : Users, role : Roles, exp : Int, from : Int, told : Int]

CallType == [pc : {"idle", "user", "serve"}, token : Tokens \cup {Null}, stale : BOOLEAN]

AccessTypeOK ==
  /\ role \in [Users -> Roles]
  /\ read \in [Requests -> Roles]
  /\ access = [t \in Tokens |-> access[t]]
  /\ call \in [Calls -> CallType]

\* A handler that has read the role admin works for a user who still has it.
ReadCurrent ==
  \A r \in Requests : read[r] = "admin" =>
    req[r].pc # "idle" /\ req[r].user \in Users /\ role[req[r].user] = "admin"

\* A token is in a client's hands, has a registered user, does not outlive what
\* the client was told, and names no role its user has yet to get.
Issued(t) ==
  /\ t \in known
  /\ access[t] \in AccessType
  /\ access[t].exp <= access[t].told
  /\ users[access[t].user] # "absent"
  /\ access[t].role = "admin" => role[access[t].user] = "admin"

\* The user of a token is disabled or has outgrown the role: for good.
Outdated(t) ==
  \/ users[access[t].user] = "disabled"
  \/ access[t].role = "member" /\ role[access[t].user] = "admin"

CallOK(c) ==
  /\ call[c].pc # "idle" => call[c].token \in Tokens /\ access[call[c].token] # Null
  /\ call[c].pc = "user" /\ call[c].stale => Outdated(call[c].token)
  /\ call[c].pc = "serve" => ~call[c].stale

AccessInv ==
  /\ AccessTypeOK
  /\ ReadCurrent
  /\ \A t \in Tokens : access[t] # Null => Issued(t)
  /\ \A c \in Calls : CallOK(c)

\* NewNumericDate never rounds up.
LEMMA NumericDateFloor ==
  ASSUME NEW t \in Nat
  PROVE  NumericDate(t) \in Int /\ NumericDate(t) <= t
BY AccessAssumption DEF NumericDate

\* What no step takes back: registrations, disabled users, promotions, tokens
\* that clients know, and the access tokens handed out.
Forward ==
  /\ \A u \in Users : users[u] # "absent" => users'[u] # "absent"
  /\ \A u \in Users : users[u] = "disabled" => users'[u] = "disabled"
  /\ \A u \in Users : role[u] = "admin" => role'[u] = "admin"
  /\ known \subseteq known'
  /\ \A t \in Tokens : access[t] # Null => access'[t] = access[t]

\* Going forward keeps what is known of an issued token.
LEMMA IssuedKept ==
  ASSUME Forward, NEW t \in Tokens, access[t] # Null, Issued(t)
  PROVE  Issued(t)'
<1>1. access'[t] = access[t] /\ access[t].user \in Users
  BY DEF Forward, Issued, AccessType
<1> QED
  BY <1>1 DEF Forward, Issued

\* Going forward keeps what is known of a call that the step leaves alone.
LEMMA CallKept ==
  ASSUME Forward, AccessInv, NEW c \in Calls, call'[c] = call[c]
  PROVE  CallOK(c)'
<1>1. CallOK(c)
  BY DEF AccessInv
<1>2. CASE call[c].pc = "idle"
  BY <1>2, Zenon DEF CallOK
<1>3. CASE call[c].pc # "idle"
  <2>1. PICK t \in Tokens : t = call[c].token /\ access[t] # Null /\ Issued(t)
    BY <1>1, <1>3 DEF CallOK, AccessInv
  <2>2. access'[t] = access[t] /\ access[t].user \in Users
    BY <2>1, Zenon DEF Forward, Issued, AccessType
  <2>3. Outdated(t) => Outdated(t)'
    BY <2>2 DEF Forward, Outdated
  <2> QED
    BY <1>1, <2>1, <2>2, <2>3, Zenon DEF CallOK, Outdated
<1> QED
  BY <1>2, <1>3

\* What a step owes: types, roles that were read, and what is new.
LEMMA AccessStep ==
  ASSUME AccessInv, Forward, AccessTypeOK', ReadCurrent',
         \A t \in Tokens : access[t] = Null /\ access'[t] # Null => Issued(t)',
         \A c \in Calls : call'[c] = call[c] \/ CallOK(c)'
  PROVE  AccessInv'
<1>1. ASSUME NEW t \in Tokens, access'[t] # Null PROVE Issued(t)'
  BY <1>1, IssuedKept DEF AccessInv
<1>2. ASSUME NEW c \in Calls PROVE CallOK(c)'
  BY <1>2, CallKept
<1> QED
  BY <1>1, <1>2 DEF AccessInv

\* Every step of Sessions goes forward.
LEMMA SessionsForward ==
  ASSUME Inv, [Next]_vars, role' = role, access' = access
  PROVE  Forward
<1>1. users \in [Users -> {"absent", "enabled", "disabled"}]
  BY Zenon DEF Inv, TypeOK
<1>2. CASE \E u \in Users : Register(u) \/ DisableUser(u)
  BY <1>1, <1>2 DEF Register, DisableUser, Forward
<1>3. CASE UNCHANGED users /\ known \subseteq known'
  BY <1>3, Zenon DEF Forward
<1>4. ASSUME ~\E u \in Users : Register(u) \/ DisableUser(u)
      PROVE  UNCHANGED users /\ known \subseteq known'
  BY <1>4, Zenon DEF Next, vars, Login, Logout, Refresh, CreateRefreshToken, GetUserByID, Rotate,
     RotateRefreshToken, Abandon, CleanupExpiredTokens, Tick, Reply
<1> QED
  BY <1>2, <1>3, <1>4

\* Steps that leave the access tokens and the guarded calls alone, and of the
\* handlers at most those that have read no role.
LEMMA OtherStep ==
  ASSUME Inv, AccessInv, UNCHANGED accessVars,
         \/ \E u \in Users : Register(u) \/ DisableUser(u)
         \/ \E t \in Tokens : Logout(t) \/ \E r \in Requests : Refresh(r, t)
         \/ CleanupExpiredTokens
         \/ Tick
         \/ UNCHANGED vars
  PROVE  AccessInv'
<1>1. role' = role /\ read' = read /\ access' = access /\ call' = call
  BY DEF accessVars
<1>2. Forward
  <2>1. [Next]_vars
    BY DEF Next
  <2> QED
    BY <1>1, <2>1, SessionsForward
<1>3. AccessTypeOK'
  BY <1>1 DEF AccessInv, AccessTypeOK
<1>4. ReadCurrent'
  <2>1. ASSUME NEW r \in Requests, read[r] = "admin" PROVE req'[r] = req[r]
    <3>1. req[r].pc # "idle" /\ req \in [Requests -> ReqType]
      BY <2>1, TypeParts DEF Inv, AccessInv, ReadCurrent
    <3> QED
      BY <3>1, Zenon
         DEF Register, DisableUser, Logout, Refresh, Goto, CleanupExpiredTokens, Tick, vars
  <2> QED
    BY <1>1, <2>1 DEF AccessInv, ReadCurrent
<1> QED
  BY <1>1, <1>2, <1>3, <1>4, AccessStep, Zenon

\* Steps of one handler: it reads a role, or returns with or without tokens.
LEMMA ReadStep ==
  ASSUME Inv, AccessInv, NEW r \in Requests, role' = role,
         NEW v \in Roles, read' = [read EXCEPT ![r] = v],
         \A q \in Requests : q # r => req'[q] = req[q],
         v = "admin" => req'[r].pc # "idle" /\ req'[r].user \in Users /\ role[req'[r].user] = "admin"
  PROVE  read' \in [Requests -> Roles] /\ ReadCurrent'
<1>1. read \in [Requests -> Roles]
  BY DEF AccessInv, AccessTypeOK
<1>2. read' \in [Requests -> Roles] /\ \A q \in Requests : read'[q] = IF q = r THEN v ELSE read[q]
  BY <1>1
<1> QED
  BY <1>2 DEF AccessInv, ReadCurrent

\* A login or a refresh that has read its user, or gives up.
LEMMA UserRead ==
  ASSUME Inv, AccessInv, NEW r \in Requests,
         (\E u \in Users : LoginUser(r, u)) \/ RefreshUser(r) \/ GiveUp(r)
  PROVE  AccessInv'
<1>1. role' = role /\ access' = access /\ call' = call
  BY DEF LoginUser, RefreshUser, GiveUp
<1>2. role \in [Users -> Roles] /\ req \in [Requests -> ReqType]
  BY TypeParts DEF AccessInv, AccessTypeOK, Inv
<1> DEFINE Reads(v) ==
      /\ read' = [read EXCEPT ![r] = v]
      /\ v = "admin" => /\ req'[r].pc # "idle" /\ req'[r].user \in Users
                        /\ role[req'[r].user] = "admin"
<1>3. \E v \in Roles : Reads(v)
  <2>1. ASSUME NEW u \in Users, LoginUser(r, u) PROVE \E v \in Roles : Reads(v)
    <3>1. req'[r].pc = "login" /\ req'[r].user = u /\ read' = [read EXCEPT ![r] = role[u]]
      BY <1>2, <2>1, Zenon DEF LoginUser, Login, Goto, Idle
    <3> QED
      BY <1>2, <3>1, Zenon
  <2>2. CASE RefreshUser(r)
    <3>1. req[r].user \in Users /\ req[r] \in ReqType
      BY <1>2, <2>2, Zenon DEF RefreshUser, GetUserByID, Inv, Handling
    <3>2. req'[r].pc = "rotate" => req'[r].user = req[r].user
      BY <1>2, <2>2, <3>1, IdleTyped DEF RefreshUser, GetUserByID, Goto, ReqType
    <3>3. read' = [read EXCEPT ![r] =
                     IF req'[r].pc = "rotate" THEN role[req[r].user] ELSE "member"]
      BY <2>2 DEF RefreshUser
    <3>4. CASE req'[r].pc = "rotate"
      BY <1>2, <3>1, <3>2, <3>3, <3>4, Zenon
    <3>5. CASE req'[r].pc # "rotate"
      BY <3>3, <3>5 DEF Roles
    <3> QED
      BY <3>4, <3>5
  <2>3. CASE GiveUp(r)
    BY <2>3 DEF GiveUp, Roles
  <2> QED
    BY <2>1, <2>2, <2>3, Zenon
<1>4. [Next]_vars /\ \A q \in Requests : q # r => req'[q] = req[q]
  BY <1>2, Zenon
  DEF LoginUser, RefreshUser, GiveUp, Login, GetUserByID, Abandon, Goto, Next
<1>5. Forward
  BY <1>1, <1>4, SessionsForward
<1>6. read' \in [Requests -> Roles] /\ ReadCurrent'
  BY <1>1, <1>3, <1>4, ReadStep, Zenon
<1>7. AccessTypeOK'
  BY <1>1, <1>6 DEF AccessInv, AccessTypeOK
<1> QED
  BY <1>1, <1>5, <1>6, <1>7, AccessStep

\* A reply with tokens: the access token is made for the user and with the role
\* that the handler has read, from the time it has read on the clock.
LEMMA HandOutStep ==
  ASSUME Inv, AccessInv, NEW r \in Requests, NEW now \in 0..clock, HandOut(r, now)
  PROVE  AccessInv'
<1> DEFINE new == IssueAccessToken(req[r].user, read[r], now)
<1>1. /\ role' = role /\ call' = call
      /\ access' = [t \in Tokens |-> IF t \in known' \ known THEN new ELSE access[t]]
      /\ read' = [read EXCEPT ![r] = "member"]
      /\ UNCHANGED users
      /\ req[r].pc # "idle"
  BY DEF HandOut, CreateRefreshToken, Rotate
<1>2. /\ role \in [Users -> Roles] /\ read \in [Requests -> Roles]
      /\ req \in [Requests -> ReqType] /\ users \in [Users -> {"absent", "enabled", "disabled"}]
  BY TypeParts DEF AccessInv, AccessTypeOK, Inv
<1>3. [Next]_vars /\ known \subseteq known' /\ \A q \in Requests : q # r => req'[q] = req[q]
  <2>1. [Next]_vars
    BY Zenon DEF HandOut, Next
  <2>2. known \subseteq known'
    BY Zenon DEF HandOut, CreateRefreshToken, Rotate, RotateRefreshToken, Reply
  <2>3. req' = [req EXCEPT ![r] = Idle]
    BY DEF HandOut, CreateRefreshToken, Rotate, Goto
  <2> QED
    BY <1>2, <2>1, <2>2, <2>3
<1>4. \A t \in Tokens : access[t] # Null => t \in known
  BY DEF AccessInv, Issued
<1>5. Forward
  BY <1>1, <1>3, <1>4 DEF Forward
<1>6. read' \in [Requests -> Roles] /\ ReadCurrent'
  BY <1>1, <1>3, ReadStep, Zenon DEF Roles
<1>7. AccessTypeOK'
  BY <1>1, <1>6 DEF AccessInv, AccessTypeOK
<1>8. /\ req[r].user \in Users /\ users[req[r].user] # "absent"
      /\ read[r] = "admin" => role[req[r].user] = "admin"
  BY <1>1, <1>2, Zenon DEF Inv, Handling, AccessInv, ReadCurrent, ReqType
<1>9. /\ new \in AccessType /\ new.exp <= new.told
      /\ new.user = req[r].user /\ new.role = read[r]
  <2>1. now \in Nat /\ now + AccessTTL \in Nat
    BY AccessAssumption
  <2>2. /\ NumericDate(now + AccessTTL) \in Int /\ NumericDate(now) \in Int
        /\ NumericDate(now + AccessTTL) <= now + AccessTTL
    BY <2>1, NumericDateFloor
  <2> QED
    BY <1>2, <1>8, <2>1, <2>2 DEF IssueAccessToken, AccessType
<1>10. ASSUME NEW t \in Tokens, access[t] = Null, access'[t] # Null PROVE Issued(t)'
  <2>1. t \in known' /\ access'[t] = new
    BY <1>1, <1>10
  <2> HIDE DEF new
  <2> QED
    BY <1>1, <1>8, <1>9, <2>1, Zenon DEF Issued
<1> QED
  BY <1>1, <1>5, <1>6, <1>7, <1>10, AccessStep, Zenon

\* A promotion: no role that was read or issued is taken back by it.
LEMMA PromoteStep ==
  ASSUME Inv, AccessInv, NEW u \in Users, Promote(u)
  PROVE  AccessInv'
<1>1. /\ role' = [role EXCEPT ![u] = "admin"]
      /\ users' = users /\ known' = known /\ req' = req
      /\ read' = read /\ access' = access /\ call' = call
  BY DEF Promote, vars
<1>2. role \in [Users -> Roles]
  BY DEF AccessInv, AccessTypeOK
<1>3. role' \in [Users -> Roles] /\ \A v \in Users : role[v] = "admin" => role'[v] = "admin"
  BY <1>1, <1>2 DEF Roles
<1>4. Forward
  BY <1>1, <1>3 DEF Forward
<1>5. AccessTypeOK'
  BY <1>1, <1>3 DEF AccessInv, AccessTypeOK
<1>6. ReadCurrent'
  BY <1>1, <1>3 DEF AccessInv, ReadCurrent
<1> QED
  BY <1>1, <1>4, <1>5, <1>6, AccessStep

\* Steps of a guarded call change the call only.
LEMMA CallOnly ==
  ASSUME AccessInv, UNCHANGED <<vars, role, read, access>>, NEW c \in Calls,
         NEW state \in CallType, call' = [call EXCEPT ![c] = state],
         /\ state.pc # "idle" => state.token \in Tokens /\ access[state.token] # Null
         /\ state.pc = "user" /\ state.stale => Outdated(state.token)
         /\ state.pc = "serve" => ~state.stale
  PROVE  AccessInv'
<1>1. /\ users' = users /\ known' = known /\ req' = req
      /\ role' = role /\ read' = read /\ access' = access
  BY DEF vars
<1>2. call \in [Calls -> CallType]
  BY DEF AccessInv, AccessTypeOK
<1>3. Forward
  BY <1>1 DEF Forward
<1>4. AccessTypeOK' /\ ReadCurrent'
  BY <1>1, <1>2, Zenon DEF AccessInv, AccessTypeOK, ReadCurrent
<1>5. call'[c] = state /\ \A d \in Calls : d # c => call'[d] = call[d]
  BY <1>2
<1>6. CallOK(c)'
  BY <1>1, <1>5, Zenon DEF CallOK, Outdated
<1> QED
  BY <1>1, <1>3, <1>4, <1>5, <1>6, AccessStep, Zenon

\* A parsed token has not outlived what the client was told, so a call that is
\* stale has a user who is no longer what the token says.
LEMMA ParseStep ==
  ASSUME Inv, AccessInv, NEW c \in Calls, NEW t \in Tokens, ParseAccessToken(c, t)
  PROVE  AccessInv'
<1> DEFINE old == \/ users[access[t].user] # "enabled"
                  \/ role[access[t].user] # access[t].role
                  \/ access[t].told <= clock
           state == [pc |-> "user", token |-> t, stale |-> old]
<1>1. /\ call' = [call EXCEPT ![c] = state] /\ access[t] # Null
      /\ Parses(access[t], clock) /\ UNCHANGED <<vars, role, read, access>>
  BY DEF ParseAccessToken
<1>2. old \in BOOLEAN
  OBVIOUS
<1>3. old => Outdated(t)
  <2>1. Issued(t)
    BY <1>1 DEF AccessInv
  <2>2. /\ access[t].exp \in Int /\ access[t].told \in Int
        /\ access[t].user \in Users /\ access[t].role \in Roles
    BY <2>1 DEF Issued, AccessType
  <2>3. clock \in Int /\ users \in [Users -> {"absent", "enabled", "disabled"}]
    BY TypeParts DEF Inv
  <2>4. role \in [Users -> Roles]
    BY DEF AccessInv, AccessTypeOK
  <2>5. ~(access[t].told <= clock)
    BY <1>1, <2>1, <2>2, <2>3 DEF Parses, Issued
  <2>6. users[access[t].user] # "enabled" => users[access[t].user] = "disabled"
    BY <2>1, <2>2, <2>3, Zenon DEF Issued
  <2>7. role[access[t].user] # access[t].role =>
          access[t].role = "member" /\ role[access[t].user] = "admin"
    <3>1. access[t].role \in Roles /\ role[access[t].user] \in Roles
      BY <2>2, <2>4
    <3> QED
      BY <2>1, <3>1 DEF Issued, Roles
  <2> QED
    BY <2>5, <2>6, <2>7, Zenon DEF Outdated
<1> HIDE DEF old
<1>4. state \in CallType /\ state.pc = "user" /\ state.token = t /\ state.stale = old
  BY <1>2 DEF CallType
<1> HIDE DEF state
<1> QED
  BY <1>1, <1>3, <1>4, CallOnly, Zenon

\* The second look at the user lets no stale call on to the handler.
LEMMA AuthenticateStep ==
  ASSUME Inv, AccessInv, NEW c \in Calls, AuthenticateAccessToken(c) \/ EndCall(c)
  PROVE  AccessInv'
<1>1. UNCHANGED <<vars, role, read, access>>
  BY DEF AuthenticateAccessToken, EndCall
<1>2. NoCall \in CallType /\ NoCall.pc = "idle"
  BY DEF NoCall, CallType
<1>3. CASE call' = [call EXCEPT ![c] = NoCall]
  BY <1>1, <1>2, <1>3, CallOnly, Zenon
<1>4. CASE /\ call[c].pc = "user" /\ Current(access[call[c].token])
           /\ call' = [call EXCEPT ![c] = [call[c] EXCEPT !.pc = "serve"]]
  <2> DEFINE state == [call[c] EXCEPT !.pc = "serve"]
  <2>1. call[c] \in CallType /\ CallOK(c)
    BY DEF AccessInv, AccessTypeOK
  <2>2. /\ state \in CallType /\ state.pc = "serve"
        /\ state.token = call[c].token /\ state.stale = call[c].stale
    BY <2>1 DEF CallType
  <2>3. call[c].token \in Tokens /\ access[call[c].token] # Null
    BY <1>4, <2>1 DEF CallOK
  <2>4. ~Outdated(call[c].token)
    BY <1>4, Zenon DEF Current, Outdated
  <2>5. ~call[c].stale
    BY <1>4, <2>1, <2>4 DEF CallOK
  <2> HIDE DEF state
  <2> QED
    BY <1>1, <1>4, <2>2, <2>3, <2>5, CallOnly, Zenon DEF state
<1> QED
  BY <1>3, <1>4 DEF AuthenticateAccessToken, EndCall

\* A guarded handler runs only for a user who, since the call arrived, was
\* enabled and had the role of the token, and only if the call arrived before
\* the expiry the client was told: AuthenticateAccessToken reads the user again,
\* and NumericDate only shortens a token's life.
THEOREM ServesCurrentCorrect == AuthSpec => []ServesCurrentUsers
<1>1. AuthInit => AccessInv
  BY DEF AuthInit, AccessInv, AccessTypeOK, ReadCurrent, CallOK, NoCall, CallType, Roles
<1>2. ASSUME Inv, AccessInv, [AuthNext]_authVars PROVE AccessInv'
  <2>1. ASSUME NEW c \in Calls,
               \/ AuthenticateAccessToken(c) \/ EndCall(c)
               \/ \E t \in Tokens : ParseAccessToken(c, t)
        PROVE  AccessInv'
    BY <1>2, <2>1, ParseStep, AuthenticateStep
  <2>2. ASSUME NEW r \in Requests,
               \/ \E u \in Users : LoginUser(r, u)
               \/ RefreshUser(r) \/ GiveUp(r) \/ \E now \in 0..clock : HandOut(r, now)
        PROVE  AccessInv'
    BY <1>2, <2>2, UserRead, HandOutStep
  <2>3. CASE UNCHANGED authVars
    BY <1>2, <2>3, OtherStep DEF authVars
  <2> QED
    BY <1>2, <2>1, <2>2, <2>3, OtherStep, PromoteStep, Zenon DEF AuthNext
<1>3. AccessInv => ServesCurrentUsers
  BY DEF AccessInv, CallOK, ServesCurrentUsers
<1>4. Spec => []Inv
  BY InitInv, StepCorrect, PTL DEF Spec
<1> QED
  BY <1>1, <1>2, <1>3, <1>4, AccessImplementsSessions, PTL DEF AuthSpec
====
