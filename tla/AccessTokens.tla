---- MODULE AccessTokens ----
(***************************************************************************)
(* Access tokens beside the sessions of Sessions: a JWT is issued with     *)
(* every refresh token, and the routes under /api/v1/projects, which       *)
(* create, list and revoke API keys, are guarded by it.  The server keeps  *)
(* no access token: what it can still do about one is to read the user     *)
(* again at every call.                                                    *)
(*                                                                         *)
(* A step here is a step of Sessions with what it does to access tokens,   *)
(* or a step that Sessions does not see.                                   *)
(***************************************************************************)
EXTENDS Sessions

CONSTANTS Calls,      \* handlers of guarded routes
          AccessTTL,  \* the lifetime of an access token
          Second      \* time units in a second

ASSUME AccessAssumption == {AccessTTL, Second} \subseteq Nat \ {0}

VARIABLES role,    \* user -> the role in its row
          read,    \* request -> the role it has read with its user
          access,  \* refresh token -> the access token handed out with it
          call     \* guarded handler -> its state

accessVars == <<role, read, access, call>>
authVars == <<vars, accessVars>>

\* A guarded handler's place, `pc`:
\*   idle   no call
\*   user   the token was parsed, the user is about to be read
\*   serve  authenticated, the handler behind the middleware is about to run
\* A call is `stale`, which is kept to state what it may rely on, if when it
\* arrived its user was disabled or had another role, or the expiry that the
\* client had been told was past.
NoCall == [pc |-> "idle", token |-> Null, stale |-> FALSE]

AuthInit ==
  /\ Init
  /\ role = [u \in Users |-> "member"]
  /\ read = [r \in Requests |-> "member"]
  /\ access = [t \in Tokens |-> Null]
  /\ call = [c \in Calls |-> NoCall]

----------------------------------------------------------------------------
(* Issuing: the steps of Sessions that read a user or hand out tokens.     *)

\* jwt.NewNumericDate keeps whole seconds.
NumericDate(t) == (t \div Second) * Second

\* Mutant: the expiry is rounded up, past what the client is told.
IssueAccessTokenLonger(user, r, now) ==
  [user |-> user, role |-> r, exp |-> NumericDate(now + AccessTTL + Second),
   from |-> NumericDate(now), told |-> now + AccessTTL]

\* IssueAccessToken: `from` is iat and nbf, `told` the ExpiresAt of the reply.
IssueAccessToken(user, r, now) ==
  [user |-> user, role |-> r, exp |-> NumericDate(now + AccessTTL),
   from |-> NumericDate(now), told |-> now + AccessTTL]

LoginUser(r, u) ==
  /\ Login(r, u)
  /\ read' = [read EXCEPT ![r] = role[u]]
  /\ UNCHANGED <<role, access, call>>

RefreshUser(r) ==
  /\ GetUserByID(r)
  /\ read' = [read EXCEPT ![r] = IF req'[r].pc = "rotate" THEN role[req[r].user] ELSE "member"]
  /\ UNCHANGED <<role, access, call>>

\* The reply of Login or Refresh carries both tokens; a lost one is forgotten.
HandOut(r, now) ==
  /\ CreateRefreshToken(r, now) \/ (Rotate(r) /\ now = req[r].now)
  /\ access' = [t \in Tokens |->
                  IF t \in known' \ known
                  THEN IssueAccessToken(req[r].user, read[r], now) ELSE access[t]]
  /\ read' = [read EXCEPT ![r] = "member"]
  /\ UNCHANGED <<role, call>>

GiveUp(r) ==
  /\ Abandon(r)
  /\ read' = [read EXCEPT ![r] = "member"]
  /\ UNCHANGED <<role, access, call>>

\* An operator gives a user another role, in the database.
Promote(u) ==
  /\ users[u] # "absent"
  /\ role[u] = "member"
  /\ role' = [role EXCEPT ![u] = "admin"]
  /\ UNCHANGED <<vars, read, access, call>>

----------------------------------------------------------------------------
(* A guarded call: requireAccessToken, then the handler.                   *)

\* ParseAccessToken: the signature, and exp, iat and nbf against the clock.
Parses(token, now) == token.from <= now /\ now < token.exp

\* Mutant: the user is not looked at again.
CurrentAlways(token) == TRUE

\* The user is still there, enabled, and has the role of the token.
Current(token) == users[token.user] = "enabled" /\ role[token.user] = token.role

\* A token that does not parse is answered 401.
ParseAccessToken(c, t) ==
  /\ call[c].pc = "idle"
  /\ access[t] # Null
  /\ Parses(access[t], clock)
  /\ call' = [call EXCEPT ![c] =
                [pc |-> "user", token |-> t,
                 stale |-> \/ users[access[t].user] # "enabled"
                           \/ role[access[t].user] # access[t].role
                           \/ access[t].told <= clock]]
  /\ UNCHANGED <<vars, role, read, access>>

\* GetUserByID, by AuthenticateAccessToken: 401, 403, or on to the handler.
AuthenticateAccessToken(c) ==
  /\ call[c].pc = "user"
  /\ call' = [call EXCEPT ![c] =
                IF Current(access[call[c].token]) THEN [call[c] EXCEPT !.pc = "serve"] ELSE NoCall]
  /\ UNCHANGED <<vars, role, read, access>>

\* The handler runs (Gateway models what it does to a key), or the call ends
\* before it does.
EndCall(c) ==
  /\ call[c].pc # "idle"
  /\ call' = [call EXCEPT ![c] = NoCall]
  /\ UNCHANGED <<vars, role, read, access>>

----------------------------------------------------------------------------

AuthNext ==
  \/ /\ \/ \E u \in Users : Register(u) \/ DisableUser(u)
        \/ \E t \in Tokens : Logout(t) \/ \E r \in Requests : Refresh(r, t)
        \/ CleanupExpiredTokens
        \/ Tick
     /\ UNCHANGED accessVars
  \/ \E u \in Users : Promote(u) \/ \E r \in Requests : LoginUser(r, u)
  \/ \E r \in Requests :
       RefreshUser(r) \/ GiveUp(r) \/ \E now \in 0..clock : HandOut(r, now)
  \/ \E c \in Calls :
       AuthenticateAccessToken(c) \/ EndCall(c) \/ \E t \in Tokens : ParseAccessToken(c, t)

AuthSpec == AuthInit /\ [][AuthNext]_authVars

----------------------------------------------------------------------------
(* Properties.                                                             *)

\* A handler behind the middleware runs only for a user who was enabled, and
\* had the role the token names, at some time since the call arrived, and only
\* if it arrived before the expiry that the client was told.  To disable a
\* user thus ends all its calls at once, whichever tokens are still valid; to
\* end a session ends them within the lifetime of an access token.
ServesCurrentUsers ==
  \A c \in Calls : call[c].pc = "serve" => ~call[c].stale
====
