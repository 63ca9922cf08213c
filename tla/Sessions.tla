---- MODULE Sessions ----
(***************************************************************************)
(* Users and their refresh tokens in the auth service: Register, Login,    *)
(* Refresh and Logout, run by concurrent handlers over the tables users    *)
(* and refresh_tokens, with the cleanup job of the worker deleting rows    *)
(* beside them.  Nothing in the repository disables a user: an operator    *)
(* does it in the database.                                                *)
(*                                                                         *)
(* A login starts a session: the chain of tokens that rotation makes of    *)
(* the first one.  The session of a token is not a column; it is kept here *)
(* to state what rotation promises.                                        *)
(***************************************************************************)
EXTENDS Integers, FiniteSets

CONSTANTS Users,
          Tokens,      \* refresh tokens, each made at most once
          LoginTokens, \* bound: the tokens that logins make
          Requests,    \* handlers that may run at the same time
          Null,        \* SQL NULL, and no token
          TTL,         \* the lifetime of a refresh token
          BatchSize,   \* the batch of a cleanup job
          Ahead,       \* how far a cleanup job's `before` may lie ahead of now
          MaxTime      \* bound: the clock stops here

\* usecase.New replaces a TTL that is not positive.
ASSUME TimeAssumption == TTL \in Nat \ {0} /\ {MaxTime, Ahead, BatchSize} \subseteq Nat
ASSUME LoginAssumption == LoginTokens \subseteq Tokens
ASSUME NullAssumption == Null \notin Nat \cup Tokens \cup Users

VARIABLES clock,    \* the time all processes read
          users,    \* user -> "absent", "enabled" or "disabled"
          rows,     \* refresh_tokens: token -> row, for the rows there are
          session,  \* token -> the login token its session began with
          known,    \* tokens that a reply has handed to a client
          req       \* handler -> its state

vars == <<clock, users, rows, session, known, req>>

\* A handler's place:
\*   idle    no request
\*   login   Login: the user was read, the token is about to be inserted
\*   user    Refresh: the token was active, the user is about to be read
\*   rotate  Refresh: the user is enabled, the rotation is about to run
PCs == {"idle", "login", "user", "rotate"}

Idle == [pc |-> "idle", user |-> Null, token |-> Null, now |-> 0]

Row(user, expires, created) ==
  [user |-> user, expires |-> expires, revoked |-> Null, created |-> created]

Init ==
  /\ clock = 0
  /\ users = [u \in Users |-> "absent"]
  /\ rows = [t \in {} |-> Null]
  /\ session = [t \in Tokens |-> Null]
  /\ known = {}
  /\ req = [r \in Requests |-> Idle]

Goto(r, state) == req' = [req EXCEPT ![r] = state]

Made == {t \in Tokens : session[t] # Null}

IsActive(row, now) == row.revoked = Null /\ now < row.expires

\* CHECK (expires_at > created_at): a handler so slow gets an error instead.
Insertable(expires) == clock < expires

\* INSERT INTO refresh_tokens with a token GenerateRefreshToken has just made.
InsertRefreshToken(table, t, user, expires) ==
  [s \in DOMAIN table \cup {t} |-> IF s = t THEN Row(user, expires, clock) ELSE table[s]]

\* The reply reaches the client, or it is lost: the connection has broken, or
\* the statement was applied although it reports an error.
Reply(t) == known' \in {known, known \cup {t}}

----------------------------------------------------------------------------
(* Users.                                                                  *)

\* Register: the unique index refuses an email that exists (409).
Register(u) ==
  /\ users[u] = "absent"
  /\ users' = [users EXCEPT ![u] = "enabled"]
  /\ UNCHANGED <<clock, rows, session, known, req>>

DisableUser(u) ==
  /\ users[u] = "enabled"
  /\ users' = [users EXCEPT ![u] = "disabled"]
  /\ UNCHANGED <<clock, rows, session, known, req>>

----------------------------------------------------------------------------
(* Login: GetUserByEmail, then CreateRefreshToken.                         *)

\* Mutant: a user that is not found passes.
LoginUnknown(r, u) ==
  /\ req[r].pc = "idle"
  /\ users[u] # "disabled"
  /\ Goto(r, [Idle EXCEPT !.pc = "login", !.user = u, !.now = clock])
  /\ UNCHANGED <<clock, users, rows, session, known>>

\* Without an enabled user and its password the answer is 401 or 403.
Login(r, u) ==
  /\ req[r].pc = "idle"
  /\ users[u] = "enabled"
  /\ Goto(r, [Idle EXCEPT !.pc = "login", !.user = u, !.now = clock])
  /\ UNCHANGED <<clock, users, rows, session, known>>

\* Login has read the clock, `now`, between the user and this INSERT: the
\* comparison of the password takes its time.
CreateRefreshToken(r, now) ==
  /\ req[r].pc = "login"
  /\ now \in req[r].now..clock
  /\ Insertable(now + TTL)
  /\ \E t \in LoginTokens \ Made :
       /\ rows' = InsertRefreshToken(rows, t, req[r].user, now + TTL)
       /\ session' = [session EXCEPT ![t] = t]
       /\ Reply(t)
  /\ Goto(r, Idle)
  /\ UNCHANGED <<clock, users>>

----------------------------------------------------------------------------
(* Refresh: GetRefreshTokenByHash, GetUserByID, RotateRefreshToken.        *)

\* A token that is not in the table, or not active, is answered 401.
Refresh(r, t) ==
  /\ req[r].pc = "idle"
  /\ t \in known \cap DOMAIN rows
  /\ IsActive(rows[t], clock)
  /\ Goto(r, [pc |-> "user", user |-> rows[t].user, token |-> t, now |-> clock])
  /\ UNCHANGED <<clock, users, rows, session, known>>

\* A disabled user is answered 403.
GetUserByID(r) ==
  /\ req[r].pc = "user"
  /\ IF users[req[r].user] = "enabled"
     THEN Goto(r, [req[r] EXCEPT !.pc = "rotate"])
     ELSE Goto(r, Idle)
  /\ UNCHANGED <<clock, users, rows, session, known>>

\* The WHERE of revokeRefreshTokenByIDQuery; `now` was read by Refresh.
Rotatable(t, now) ==
  /\ t \in DOMAIN rows
  /\ rows[t].revoked = Null
  /\ rows[t].expires > now

\* Mutant: the replacement is inserted although the UPDATE has found no token.
RotateRefreshTokenBlind(r) ==
  LET t == req[r].token
      revoked == IF t \in DOMAIN rows
                 THEN [rows EXCEPT ![t].revoked = req[r].now] ELSE rows
  IN  /\ Insertable(req[r].now + TTL)
      /\ \E new \in Tokens \ Made :
           /\ rows' = InsertRefreshToken(revoked, new, req[r].user, req[r].now + TTL)
           /\ session' = [session EXCEPT ![new] = session[t]]
           /\ Reply(new)

\* One transaction: the UPDATE locks the row until the COMMIT, and a second
\* UPDATE that has waited for it evaluates its WHERE again.
RotateRefreshToken(r) ==
  LET t == req[r].token
      revoked == [rows EXCEPT ![t].revoked = req[r].now]
  IN  \/ /\ Rotatable(t, req[r].now)
         /\ Insertable(req[r].now + TTL)
         /\ \E new \in Tokens \ Made :
              /\ rows' = InsertRefreshToken(revoked, new, req[r].user, req[r].now + TTL)
              /\ session' = [session EXCEPT ![new] = session[t]]
              /\ Reply(new)
      \/ /\ ~Rotatable(t, req[r].now)
         /\ UNCHANGED <<rows, session, known>>

Rotate(r) ==
  /\ req[r].pc = "rotate"
  /\ RotateRefreshToken(r)
  /\ Goto(r, Idle)
  /\ UNCHANGED <<clock, users>>

\* A query fails or is refused, the client goes away or the process stops: the
\* handler ends and an open transaction is rolled back.
Abandon(r) ==
  /\ req[r].pc # "idle"
  /\ Goto(r, Idle)
  /\ UNCHANGED <<clock, users, rows, session, known>>

----------------------------------------------------------------------------
(* Logout, the cleanup job and the clock.                                  *)

\* SET revoked_at = COALESCE(revoked_at, now); a missing row is answered 401.
Logout(t) ==
  /\ t \in known \cap DOMAIN rows
  /\ rows' = [rows EXCEPT ![t].revoked = IF @ = Null THEN clock ELSE @]
  /\ UNCHANGED <<clock, users, session, known, req>>

\* The CTE of CleanupExpiredTokens.
Candidates(before) ==
  {t \in DOMAIN rows : \/ rows[t].expires < before
                       \/ rows[t].revoked # Null /\ rows[t].revoked < before}

\* ORDER BY created_at LIMIT BatchSize.
Batch(candidates) ==
  {batch \in SUBSET candidates :
     /\ \/ batch = candidates /\ Cardinality(batch) <= BatchSize
        \/ Cardinality(batch) = BatchSize
     /\ \A t \in batch, s \in candidates \ batch : rows[t].created <= rows[s].created}

\* NewCleanupPayload asks only that `before` is there.
CleanupExpiredTokens ==
  /\ \E before \in 0..(clock + Ahead) : \E batch \in Batch(Candidates(before)) :
       /\ batch # {}
       /\ rows' = [t \in DOMAIN rows \ batch |-> rows[t]]
  /\ UNCHANGED <<clock, users, session, known, req>>

Tick ==
  /\ clock < MaxTime
  /\ clock' = clock + 1
  /\ UNCHANGED <<users, rows, session, known, req>>

Next ==
  \/ \E u \in Users : Register(u) \/ DisableUser(u) \/ \E r \in Requests : Login(r, u)
  \/ \E t \in Tokens : Logout(t) \/ \E r \in Requests : Refresh(r, t)
  \/ \E r \in Requests :
       \/ \E now \in 0..clock : CreateRefreshToken(r, now)
       \/ GetUserByID(r) \/ Rotate(r) \/ Abandon(r)
  \/ CleanupExpiredTokens
  \/ Tick

Spec == Init /\ [][Next]_vars

----------------------------------------------------------------------------
(* Properties.                                                             *)

\* Every variable has its type; a row belongs to a user that was registered.
TypeOK ==
  /\ clock \in 0..MaxTime
  /\ users \in [Users -> {"absent", "enabled", "disabled"}]
  /\ DOMAIN rows \subseteq Made
  /\ \A t \in DOMAIN rows :
       /\ rows[t] \in [user : Users, expires : Nat, revoked : Nat \cup {Null}, created : Nat]
       /\ users[rows[t].user] # "absent"
  /\ session \in [Tokens -> Tokens \cup {Null}]
  /\ known \subseteq Made
  /\ req \in [Requests -> [pc : PCs, user : Users \cup {Null},
                           token : Tokens \cup {Null}, now : Nat]]

\* The tokens of the session that began with s and that nobody has revoked.
Live(s) == {t \in DOMAIN rows : session[t] = s /\ rows[t].revoked = Null}

\* A session has at most one token that has not been revoked, however many
\* requests exchange the same token at once, retry, or lose their reply.
OneLiveToken == \A s \in Tokens : \A t, u \in Live(s) : t = u

\* A session that has ended, by logout or because its last token was deleted,
\* never has a live token again: not from a refresh that had read the token
\* before the logout either.
SessionStaysEnded ==
  [][\A s \in Made : Live(s) = {} => Live(s)' = {}]_vars

\* The cleanup job deletes tokens that have expired or been revoked, as the
\* README says of it; nothing else deletes one.
CleanupOnlyEnded ==
  [][\A t \in DOMAIN rows \ DOMAIN rows' : ~IsActive(rows[t], clock)]_vars
====
