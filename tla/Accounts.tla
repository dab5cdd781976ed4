------------------------------ MODULE Accounts ------------------------------
(***************************************************************************)
(* Accounts and the credentials that act for them: session cookies and API *)
(* tokens, src/app/auth/{sessions,api_tokens,bearer,csrf_middleware}.py,   *)
(* src/app/api/deps.py and the handlers of /auth/logout, /me and           *)
(* /me/tokens.  A request passes three steps, each with a database         *)
(* transaction of its own or none: the middleware, the dependencies, the   *)
(* handler.  Other requests, sign-ins, the session sweep, a restart under  *)
(* new settings and the clock fall between any two of them.                *)
(***************************************************************************)
EXTENDS Integers, Sequences, FiniteSets

CONSTANTS
    Users,            \* the ids user rows get; an account that comes back gets another
    Requests,
    AllowLists,       \* the allow-lists the process is started with
    SessionTtl, Grace,
    TokenKinds,       \* the scopes and lifetimes tokens are asked for with
    None, Never,
    MaxSessions, MaxTokens, MaxTime      \* bounds of the model

ASSUME AccountsAssumption ==
    /\ SessionTtl \in Nat \ {0} /\ Grace \in Nat
    /\ TokenKinds \subseteq [scope : {"read", "full"}, ttl : (Nat \ {0}) \cup {Never}]
    /\ AllowLists \subseteq SUBSET Users
    /\ None \notin Nat /\ None \notin Users /\ Never \notin Nat
    /\ MaxSessions \in Nat /\ MaxTokens \in Nat /\ MaxTime \in Nat

VARIABLES
    now, allowed,
    users,       \* the users table
    rows,        \* the users who own other rows: preferences, bookmarks, marks
    sessions,    \* the sessions table, by id; a deleted row is kept as not here
    tokens,      \* the api_tokens table, likewise
    used,        \* the tokens whose last_used_at is set
    requests,
    sweep        \* the moment the running prune-sessions took, or None

tables == <<users, rows, sessions, tokens>>
vars == <<now, allowed, users, rows, sessions, tokens, used, requests, sweep>>

Time == 0..MaxTime
UserStates == {"none", "here", "gone"}    \* an id not given yet, a row, a deleted row
Moment == Nat \cup {Never}
SessionIds == 1..MaxSessions
TokenIds == 1..MaxTokens

UserSession == [here : BOOLEAN, owner : Users, expires : Nat, revoked : Time \cup {Never}]
ApiToken == [here : BOOLEAN, owner : Users, scope : {"read", "full"},
             expires : Moment, revoked : Time \cup {Never}]

Safe == {"get"}
Interactive == {"mint", "revoke"}
Ops == Safe \cup Interactive \cup {"put", "delete", "logout"}

(* What a request carries: the session cookie, the Authorization header, and the
   session that the CSRF token echoed in cookie and header was minted for. *)
Sent == [op : Ops, cookie : SessionIds \cup {None}, bearer : TokenIds \cup {None},
         echo : SessionIds \cup {None}]

(* "live" is history: whether the credential was good when the request arrived. *)
Request == [pc : {"admitted", "known"}, sent : Sent, live : BOOLEAN,
            identified : BOOLEAN, user : Users \cup {None}]

Init ==
    /\ now = 0 /\ allowed \in AllowLists
    /\ users = [u \in Users |-> "none"]
    /\ rows = {}
    /\ sessions = <<>> /\ tokens = <<>> /\ used = {}
    /\ requests = [r \in Requests |-> None]
    /\ sweep = None

-----------------------------------------------------------------------------
SessionLiveRevoked(s) == sessions[s].here /\ sessions[s].expires > now

(* resolve_session: not revoked, not expired. *)
SessionLive(s) ==
    sessions[s].here /\ sessions[s].revoked = Never /\ sessions[s].expires > now

(* resolve_token. *)
TokenLive(t) ==
    /\ tokens[t].here /\ tokens[t].revoked = Never
    /\ tokens[t].expires = Never \/ tokens[t].expires > now

IsAuthorised(u) == allowed # {} /\ u \in allowed

(* authenticate: the token's owner is still on the allow-list. *)
Authenticates(t) ==
    /\ TokenLive(t)
    /\ users[tokens[t].owner] = "here"
    /\ IsAuthorised(tokens[t].owner)

CsrfValidUnbound(q) == q.echo # None

(* require_csrf: an echoed token verifies against the session it was minted for. *)
CsrfValid(q) == q.echo = q.cookie

SessionRevokedLate(s) == [sessions EXCEPT ![s].revoked = sessions[s].expires]

(* revoke_session: an UPDATE of a row that is there and not revoked yet. *)
SessionRevoked(s) ==
    IF sessions[s].here /\ sessions[s].revoked = Never
    THEN [sessions EXCEPT ![s].revoked = now] ELSE sessions

(* revoke_token: only one's own. *)
TokenRevoked(u, t) ==
    IF tokens[t].here /\ tokens[t].owner = u /\ tokens[t].revoked = Never
    THEN [tokens EXCEPT ![t].revoked = now] ELSE tokens

(* A deleted row: nothing of it is left but, for this model, whose it was. *)
Gone(row) == [row EXCEPT !.here = FALSE, !.expires = 0, !.revoked = Never]

CascadedNever(table, u) == table

(* The foreign key to users.id, ON DELETE CASCADE. *)
Cascaded(table, u) == [i \in DOMAIN table |->
    IF table[i].owner = u THEN Gone(table[i]) ELSE table[i]]

-----------------------------------------------------------------------------
UpsertUser(u) == [users EXCEPT ![u] = "here"]

(* A completed sign-in (SignIn.tla): the user's row and a new session, and the
   session the browser came with revoked. *)
SignIn(u) ==
    /\ IsAuthorised(u) /\ users[u] # "gone"
    /\ Len(sessions) < MaxSessions
    /\ users' = UpsertUser(u)
    /\ rows' = rows \cup {u}
    /\ \E s \in DOMAIN sessions \cup {None} :
         sessions' = Append(IF s = None THEN sessions ELSE SessionRevoked(s),
                            [here |-> TRUE, owner |-> u, expires |-> now + SessionTtl,
                             revoked |-> Never])
    /\ UNCHANGED <<now, allowed, tokens, used, requests, sweep>>

(* History only: the credential a request comes with, and whether it is good. *)
Presented(q) == IF q.cookie # None THEN sessions[q.cookie] ELSE tokens[q.bearer]
Valid(row) ==
    /\ row.here /\ row.revoked = Never
    /\ row.expires = Never \/ now < row.expires
    /\ "scope" \in DOMAIN row => row.owner \in allowed

(* ApiTokenMiddleware looks at the header only when there is no session cookie. *)
Identified(q) == q.cookie = None /\ q.bearer # None /\ Authenticates(q.bearer)

(* A read-only token may not use an unsafe method; an unsafe method with the session
   cookie needs its CSRF token. *)
ScopeRefused(q) ==
    Identified(q) /\ tokens[q.bearer].scope = "read" /\ q.op \notin Safe
CsrfRefused(q) == q.op \notin Safe /\ q.cookie # None /\ ~ CsrfValid(q)

(* A request arrives and passes both middlewares; last_used_at is committed before the
   scope is looked at, and a refused request is answered 403 at once. *)
Admit(r) ==
    \E q \in [op : Ops, cookie : DOMAIN sessions \cup {None},
              bearer : DOMAIN tokens \cup {None}, echo : DOMAIN sessions \cup {None}] :
        /\ requests[r] = None
        /\ q.cookie # None \/ q.bearer # None
        /\ q.cookie = None \/ q.op \in Safe => q.echo = None
        /\ used' = IF Identified(q) THEN used \cup {q.bearer} ELSE used
        /\ IF ScopeRefused(q) \/ CsrfRefused(q) THEN UNCHANGED requests
           ELSE requests' = [requests EXCEPT ![r] =
                    [pc |-> "admitted", sent |-> q, live |-> Valid(Presented(q)),
                     identified |-> Identified(q), user |-> None]]
        /\ UNCHANGED <<now, allowed, tables, sweep>>

At(r, pc) == requests[r] # None /\ requests[r].pc = pc
End(r) == requests' = [requests EXCEPT ![r] = None]

(* get_current_user: the identity's user is loaded again, in the request's own
   database session; without an identity the cookie's session is resolved. *)
CurrentUser(request) ==
    LET q == request.sent IN
    IF request.identified
    THEN LET u == tokens[q.bearer].owner IN IF users[u] = "here" THEN u ELSE None
    ELSE IF q.cookie # None /\ SessionLive(q.cookie) THEN sessions[q.cookie].owner
    ELSE None

(* require_interactive_session. *)
TokenRefused(request) == request.sent.op \in Interactive /\ request.identified

(* The dependencies of the route: 403, 401, or the user is known.  logout has none. *)
Depend(r) ==
    LET request == requests[r]
        user == CurrentUser(request) IN
    /\ At(r, "admitted")
    /\ IF request.sent.op # "logout" /\ (TokenRefused(request) \/ user = None) THEN End(r)
       ELSE requests' = [requests EXCEPT ![r].pc = "known", ![r].user = user]
    /\ UNCHANGED <<now, allowed, tables, used, sweep>>

-----------------------------------------------------------------------------
(* What the handlers write: one transaction each. *)

(* The foreign keys to users.id: a row of a user who is gone is refused, a 500. *)
References(u) == users[u] = "here"

(* Any handler that writes a row of the user's. *)
WriteRow(u) ==
    /\ rows' = IF References(u) THEN rows \cup {u} ELSE rows
    /\ UNCHANGED <<users, sessions, tokens>>

CreateToken(u) ==
    /\ Len(tokens) < MaxTokens
    /\ \E kind \in TokenKinds :
         tokens' = IF References(u)
                   THEN Append(tokens, [here |-> TRUE, owner |-> u, scope |-> kind.scope,
                                        expires |-> IF kind.ttl = Never THEN Never
                                                    ELSE now + kind.ttl,
                                        revoked |-> Never])
                   ELSE tokens
    /\ UNCHANGED <<users, rows, sessions>>

RevokeToken(u) ==
    /\ \E t \in DOMAIN tokens : tokens' = TokenRevoked(u, t)
    /\ UNCHANGED <<users, rows, sessions>>

(* delete_me: one DELETE, and every foreign key cascades. *)
DeleteUser(u) ==
    /\ users' = [users EXCEPT ![u] = "gone"]
    /\ rows' = rows \ {u}
    /\ sessions' = Cascaded(sessions, u)
    /\ tokens' = Cascaded(tokens, u)

RevokeSession(s) ==
    /\ sessions' = IF s = None THEN sessions ELSE SessionRevoked(s)
    /\ UNCHANGED <<users, rows, tokens>>

(* The handlers.  logout asks for no user: the cookie's session, whatever its state. *)
Handle(r) ==
    LET op == requests[r].sent.op
        user == requests[r].user IN
    /\ At(r, "known")
    /\ \/ op = "get" /\ UNCHANGED tables
       \/ op = "put" /\ WriteRow(user)
       \/ op = "mint" /\ CreateToken(user)
       \/ op = "revoke" /\ RevokeToken(user)
       \/ op = "delete" /\ DeleteUser(user)
       \/ op = "logout" /\ RevokeSession(requests[r].sent.cookie)
    /\ End(r)
    /\ UNCHANGED <<now, allowed, used, sweep>>

(* Another request of a user's, served between two steps of those that are followed. *)
Elsewhere(u) ==
    /\ users[u] = "here"
    /\ \/ CreateToken(u) \/ RevokeToken(u) \/ DeleteUser(u)
       \/ \E s \in DOMAIN sessions : sessions[s].owner = u /\ RevokeSession(s)
    /\ UNCHANGED <<now, allowed, used, requests, sweep>>

-----------------------------------------------------------------------------
DeadAnyway(row, moment) ==
    row.expires <= moment \/ (row.revoked # Never /\ row.revoked <= moment - Grace)

(* The operator's prune-sessions: the moment is taken first, then the DELETE judges
   each row as it finds it. *)
Dead(row, moment) ==
    \/ row.revoked = Never /\ row.expires <= moment
    \/ row.revoked # Never /\ row.revoked <= moment - Grace

StartSweep ==
    /\ sweep = None
    /\ sweep' = now
    /\ UNCHANGED <<now, allowed, tables, used, requests>>

EndSweep ==
    /\ sweep # None
    /\ sessions' = [s \in DOMAIN sessions |->
         IF Dead(sessions[s], sweep) THEN Gone(sessions[s])
         ELSE sessions[s]]
    /\ sweep' = None
    /\ UNCHANGED <<now, allowed, users, rows, tokens, used, requests>>

Tick ==
    /\ now < MaxTime
    /\ now' = now + 1
    /\ UNCHANGED <<allowed, tables, used, requests, sweep>>

(* A request whose process or connection dies leaves nothing behind. *)
Restart ==
    /\ allowed' \in AllowLists
    /\ requests' = [r \in Requests |-> None]
    /\ UNCHANGED <<now, tables, used, sweep>>

Next ==
    \/ \E u \in Users : SignIn(u) \/ Elsewhere(u)
    \/ \E r \in Requests :
          Admit(r) \/ Depend(r) \/ Handle(r)
    \/ StartSweep \/ EndSweep \/ Tick \/ Restart

Spec == Init /\ [][Next]_vars

-----------------------------------------------------------------------------
TypeOK ==
    /\ now \in Time /\ allowed \in AllowLists
    /\ users \in [Users -> UserStates] /\ rows \subseteq Users
    /\ sessions \in Seq(UserSession) /\ Len(sessions) <= MaxSessions
    /\ tokens \in Seq(ApiToken) /\ Len(tokens) <= MaxTokens
    /\ used \subseteq TokenIds
    /\ requests \in [Requests -> Request \cup {None}]
    /\ sweep \in Time \cup {None}

(* No session, token or other row outlives its account, also when a handler that knew
   the user commits after the account was deleted (delete_me: "the database removes"). *)
DeletedLeavesNothing ==
    /\ rows \subseteq {u \in Users : users[u] = "here"}
    /\ \A table \in {sessions, tokens} : \A i \in DOMAIN table :
          table[i].here => users[table[i].owner] = "here"

Acts(r) == requests[r] # None /\ requests'[r] = None /\ tables' # tables

(* Judged by what was sent and not by how it was handled: a request that changes a table
   carried a session and that session's CSRF token, or no session and a full token and
   asked nothing about tokens; and it changes rows of its credential's owner only. *)
EffectsAreEntitled ==
    [][\A r \in Requests : Acts(r) =>
        LET q == requests[r].sent IN
        /\ IF q.cookie # None THEN q.echo = q.cookie
           ELSE tokens[q.bearer].scope = "full" /\ q.op \notin Interactive
        /\ \A u \in Users \ {Presented(q).owner} :
              /\ users'[u] = users[u]
              /\ u \in rows' <=> u \in rows
              /\ \A s \in DOMAIN sessions : sessions[s].owner = u => sessions'[s] = sessions[s]
              /\ \A t \in DOMAIN tokens' :
                    tokens'[t].owner = u => t \in DOMAIN tokens /\ tokens'[t] = tokens[t]]_vars

(* A credential that was revoked, expired, deleted or off the allow-list when the request
   was sent changes nothing, but for a logout, which may date the end of its session. *)
DeadCredentialsDoNothing ==
    [][\A r \in Requests :
        Acts(r) /\ ~ requests[r].live => requests[r].sent.op = "logout"]_vars

(* prune_sessions: what it removes could authenticate nothing, and a revocation stays on
   record for the grace period, whatever logs out while the sweep runs. *)
SweepSpares ==
    [][\A s \in DOMAIN sessions :
        EndSweep /\ sessions[s].here /\ ~ sessions'[s].here =>
            /\ ~ SessionLive(s)
            /\ sessions[s].revoked # Never => sessions[s].revoked + Grace <= now]_vars
=============================================================================
