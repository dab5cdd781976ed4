--------------------------- MODULE Accounts_proofs ---------------------------
(***************************************************************************)
(* Accounts, sessions and tokens, for any users, requests and bounds.      *)
(***************************************************************************)
EXTENDS Accounts, TLAPS, SequenceTheorems

(* A table's row at a place is never another row later: it keeps its owner *)
(* and, once it is dead, stays dead.                                       *)
SessionsGoOn ==
  /\ sessions' \in Seq(UserSession) /\ Len(sessions') <= MaxSessions
  /\ \A s \in DOMAIN sessions :
       /\ s \in DOMAIN sessions' /\ sessions'[s].owner = sessions[s].owner
       /\ SessionLive(s)' => SessionLive(s)

TokensGoOn ==
  /\ tokens' \in Seq(ApiToken) /\ Len(tokens') <= MaxTokens
  /\ \A t \in DOMAIN tokens :
       /\ t \in DOMAIN tokens' /\ tokens'[t].owner = tokens[t].owner
       /\ tokens'[t].scope = tokens[t].scope

UsersTyped == users \in [Users -> UserStates] /\ rows \subseteq Users

TablesGoOn == SessionsGoOn /\ TokensGoOn /\ UsersTyped' /\ DeletedLeavesNothing'

(* What a request that passed the middlewares, and then the dependencies,  *)
(* is known to carry.                                                      *)
Passed(request) ==
  LET q == request.sent IN
  /\ q.cookie \in DOMAIN sessions \cup {None}
  /\ q.bearer \in DOMAIN tokens \cup {None}
  /\ q.cookie # None /\ q.op \notin Safe => q.echo = q.cookie
  /\ request.identified =>
       /\ q.cookie = None /\ q.bearer # None /\ request.live
       /\ q.op \notin Safe => tokens[q.bearer].scope = "full"
  /\ ~request.live /\ q.cookie # None => ~SessionLive(q.cookie)

Known(request) ==
  LET q == request.sent IN
  /\ request.user \in Users
  /\ request.identified \/ q.cookie # None
  /\ request.user = Presented(q).owner
  /\ request.live
  /\ request.identified => q.op \notin Interactive

RequestInv ==
  \A r \in Requests : requests[r] # None =>
    /\ Passed(requests[r])
    /\ requests[r].pc = "known" /\ requests[r].sent.op # "logout" => Known(requests[r])

(* The moment of a sweep is not ahead of the clock.                        *)
SweepInv == sweep # None => sweep <= now

AccountsInv == TypeOK /\ DeletedLeavesNothing /\ RequestInv /\ SweepInv

-----------------------------------------------------------------------------
(* A table whose places are the same is a table of the same length.        *)
LEMMA SameShape ==
  ASSUME NEW S, NEW s \in Seq(S), NEW t \in [DOMAIN s -> S]
  PROVE  t \in Seq(S) /\ Len(t) = Len(s) /\ DOMAIN t = DOMAIN s
<1>1. DOMAIN s = 1 .. Len(s) /\ Len(s) \in Nat
  BY LenProperties
<1>2. t \in [1 .. Len(s) -> S]
  BY <1>1
<1>3. t \in Seq(S)
  BY <1>1, <1>2, SeqDef
<1>4. DOMAIN t = 1 .. Len(t) /\ Len(t) \in Nat
  BY <1>3, LenProperties
<1> QED
  BY <1>1, <1>2, <1>3, <1>4

(* Every row is typed, and so is its owner.                                *)
LEMMA TypedRows ==
  ASSUME TypeOK
  PROVE  /\ \A i \in DOMAIN sessions : sessions[i] \in UserSession /\ sessions[i].owner \in Users
         /\ \A i \in DOMAIN tokens : tokens[i] \in ApiToken /\ tokens[i].owner \in Users
<1>1. sessions \in Seq(UserSession) /\ tokens \in Seq(ApiToken)
  BY DEF TypeOK
<1>2. \A i \in DOMAIN sessions : sessions[i] \in UserSession
  BY <1>1, ElementOfSeq, LenProperties
<1>3. \A i \in DOMAIN tokens : tokens[i] \in ApiToken
  BY <1>1, ElementOfSeq, LenProperties
<1> QED
  BY <1>2, <1>3 DEF UserSession, ApiToken

(* revoke_session changes at most the date at which a live row was revoked.*)
LEMMA SessionRevokedRows ==
  ASSUME TypeOK, NEW s
  PROVE  /\ SessionRevoked(s) \in Seq(UserSession)
         /\ Len(SessionRevoked(s)) = Len(sessions)
         /\ DOMAIN SessionRevoked(s) = DOMAIN sessions
         /\ \A i \in DOMAIN sessions :
              LET new == SessionRevoked(s)[i] IN
              /\ new.here = sessions[i].here /\ new.owner = sessions[i].owner
              /\ new.expires = sessions[i].expires
              /\ new = sessions[i] \/ (i = s /\ new.revoked = now)
<1> DEFINE table == SessionRevoked(s)
<1>1. sessions \in Seq(UserSession) /\ now \in Time
  BY DEF TypeOK
<1>2. \A i \in DOMAIN sessions : sessions[i] \in UserSession
  BY <1>1, ElementOfSeq, LenProperties
<1>3. DOMAIN table = DOMAIN sessions
  BY DEF SessionRevoked
<1>4. ASSUME NEW i \in DOMAIN sessions
      PROVE  /\ table[i] \in UserSession
             /\ table[i].here = sessions[i].here /\ table[i].owner = sessions[i].owner
             /\ table[i].expires = sessions[i].expires
             /\ table[i] = sessions[i] \/ (i = s /\ table[i].revoked = now)
  <2>1. table[i] = sessions[i] \/ (i = s /\ table[i] = [sessions[i] EXCEPT !.revoked = now])
    BY DEF SessionRevoked
  <2> HIDE DEF table
  <2> QED
    BY <2>1, <1>1, <1>2 DEF UserSession
<1>5. table = [i \in DOMAIN sessions |-> table[i]]
  BY <1>1 DEF SessionRevoked
<1> HIDE DEF table
<1>6. table \in [DOMAIN sessions -> UserSession]
  BY <1>4, <1>5
<1>7. table \in Seq(UserSession) /\ Len(table) = Len(sessions)
  BY <1>1, <1>6, SameShape
<1> QED
  BY <1>3, <1>4, <1>7 DEF table

(* A session that can still act is one that could act before: its row is   *)
(* there and typed, and nothing but the end of its life was written to it. *)
LEMMA RevokedGoOn ==
  ASSUME TypeOK, now' = now, NEW s, sessions' = SessionRevoked(s)
  PROVE  /\ SessionsGoOn
         /\ \A i \in DOMAIN sessions' :
              i \in DOMAIN sessions /\ sessions'[i].here = sessions[i].here
<1>1. \A i \in DOMAIN sessions : sessions[i] \in UserSession
  BY TypedRows
<1>2. /\ sessions' \in Seq(UserSession) /\ Len(sessions') = Len(sessions)
      /\ DOMAIN sessions' = DOMAIN sessions
      /\ \A i \in DOMAIN sessions :
           /\ sessions'[i].here = sessions[i].here /\ sessions'[i].owner = sessions[i].owner
           /\ sessions'[i].expires = sessions[i].expires
           /\ sessions'[i] = sessions[i] \/ sessions'[i].revoked = now
  BY SessionRevokedRows
<1>3. ASSUME NEW i \in DOMAIN sessions, SessionLive(i)'
      PROVE  SessionLive(i)
  <2>1. sessions'[i].revoked = Never
    BY <1>3 DEF SessionLive
  <2>2. sessions'[i].revoked # now
    BY <2>1, AccountsAssumption DEF TypeOK, Time
  <2> QED
    BY <1>2, <1>3, <2>2 DEF SessionLive
<1> QED
  BY <1>2, <1>3 DEF SessionsGoOn, TypeOK

LEMMA TokenRevokedRows ==
  ASSUME TypeOK, NEW u \in Users, NEW t
  PROVE  /\ TokenRevoked(u, t) \in Seq(ApiToken)
         /\ Len(TokenRevoked(u, t)) = Len(tokens)
         /\ DOMAIN TokenRevoked(u, t) = DOMAIN tokens
         /\ \A i \in DOMAIN tokens :
              LET new == TokenRevoked(u, t)[i] IN
              /\ new.here = tokens[i].here /\ new.owner = tokens[i].owner
              /\ new.scope = tokens[i].scope
              /\ tokens[i].owner # u => new = tokens[i]
<1> DEFINE table == TokenRevoked(u, t)
<1>1. tokens \in Seq(ApiToken) /\ now \in Time
  BY DEF TypeOK
<1>2. \A i \in DOMAIN tokens : tokens[i] \in ApiToken
  BY <1>1, ElementOfSeq, LenProperties
<1>3. DOMAIN table = DOMAIN tokens
  BY DEF TokenRevoked
<1>4. ASSUME NEW i \in DOMAIN tokens
      PROVE  /\ table[i] \in ApiToken
             /\ table[i].here = tokens[i].here /\ table[i].owner = tokens[i].owner
             /\ table[i].scope = tokens[i].scope
             /\ tokens[i].owner # u => table[i] = tokens[i]
  <2>1. \/ table[i] = tokens[i]
        \/ table[i] = [tokens[i] EXCEPT !.revoked = now] /\ tokens[i].owner = u
    BY DEF TokenRevoked
  <2> HIDE DEF table
  <2> QED
    BY <2>1, <1>1, <1>2 DEF ApiToken
<1>5. table = [i \in DOMAIN tokens |-> table[i]]
  BY <1>1 DEF TokenRevoked
<1> HIDE DEF table
<1>6. table \in [DOMAIN tokens -> ApiToken]
  BY <1>4, <1>5
<1>7. table \in Seq(ApiToken) /\ Len(table) = Len(tokens)
  BY <1>1, <1>6, SameShape
<1> QED
  BY <1>3, <1>4, <1>7 DEF table

(* A deleted row keeps only whose it was.                                  *)
LEMMA GoneSession ==
  ASSUME NEW row \in UserSession
  PROVE  Gone(row) \in UserSession /\ ~Gone(row).here /\ Gone(row).owner = row.owner
BY DEF Gone, UserSession

LEMMA GoneToken ==
  ASSUME NEW row \in ApiToken
  PROVE  /\ Gone(row) \in ApiToken /\ ~Gone(row).here /\ Gone(row).owner = row.owner
         /\ Gone(row).scope = row.scope
BY AccountsAssumption DEF Gone, ApiToken, Moment

(* The two tables go on when nothing of them changes but, perhaps, a       *)
(* clock that moves on.                                                    *)
LEMMA SameSessionsGoOn ==
  ASSUME TypeOK, sessions' = sessions, now' \in Nat, now' >= now
  PROVE  SessionsGoOn
<1>1. \A i \in DOMAIN sessions : sessions[i] \in UserSession
  BY TypedRows
<1>2. now \in Nat
  BY DEF TypeOK, Time
<1>3. ASSUME NEW i \in DOMAIN sessions, SessionLive(i)'
      PROVE  SessionLive(i)
  BY <1>1, <1>2, <1>3 DEF SessionLive, UserSession
<1> QED
  BY <1>3 DEF SessionsGoOn, TypeOK

LEMMA SameTokensGoOn ==
  ASSUME TypeOK, tokens' = tokens
  PROVE  TokensGoOn
BY DEF TokensGoOn, TypeOK

(* Appending a row of a user who is here.                                  *)
LEMMA AppendedGoOn ==
  ASSUME TypeOK, now' = now, NEW row \in UserSession,
         Len(sessions) < MaxSessions, NEW table, sessions' = Append(table, row),
         table \in Seq(UserSession), Len(table) = Len(sessions), DOMAIN table = DOMAIN sessions,
         \A i \in DOMAIN sessions :
           /\ table[i].owner = sessions[i].owner /\ table[i].here = sessions[i].here
           /\ table[i].expires = sessions[i].expires
           /\ table[i] = sessions[i] \/ table[i].revoked = now
  PROVE  /\ SessionsGoOn
         /\ \A i \in DOMAIN sessions' : \/ i \in DOMAIN sessions /\ sessions'[i] = table[i]
                                        \/ sessions'[i] = row
<1>1. /\ sessions' \in Seq(UserSession) /\ Len(sessions') = Len(sessions) + 1
      /\ \A i \in DOMAIN sessions : i \in DOMAIN sessions' /\ sessions'[i] = table[i]
      /\ \A i \in DOMAIN sessions' : i \in DOMAIN sessions \/ sessions'[i] = row
  BY AppendProperties, LenProperties
<1>2. ASSUME NEW i \in DOMAIN sessions, SessionLive(i)'
      PROVE  SessionLive(i)
  <2>1. sessions'[i].revoked = Never /\ sessions'[i] = table[i]
    BY <1>1, <1>2 DEF SessionLive
  <2>2. table[i] = sessions[i]
    BY <2>1, AccountsAssumption DEF TypeOK, Time
  <2> QED
    BY <1>2, <2>1, <2>2 DEF SessionLive
<1> QED
  BY <1>1, <1>2, LenProperties, AccountsAssumption DEF SessionsGoOn, TypeOK

-----------------------------------------------------------------------------
(* What each transaction does to the tables.                               *)
LEMMA SignInTables ==
  ASSUME TypeOK, DeletedLeavesNothing, NEW u \in Users, SignIn(u)
  PROVE  TablesGoOn
<1>1. users' = [users EXCEPT ![u] = "here"] /\ rows' = rows \cup {u}
  BY DEF SignIn, UpsertUser
<1>2. UsersTyped'
  BY <1>1 DEF UsersTyped, TypeOK, UserStates
<1>3. now' = now /\ tokens' = tokens
  BY DEF SignIn
<1>4. TokensGoOn
  BY <1>3, SameTokensGoOn
<1> DEFINE row == [here |-> TRUE, owner |-> u, expires |-> now + SessionTtl, revoked |-> Never]
<1>5. row \in UserSession /\ row.owner = u
  BY AccountsAssumption DEF UserSession, TypeOK, Time
<1> HIDE DEF row
<1>6. PICK table :
        /\ sessions' = Append(table, row)
        /\ table \in Seq(UserSession) /\ Len(table) = Len(sessions)
        /\ DOMAIN table = DOMAIN sessions
        /\ \A i \in DOMAIN sessions :
             /\ table[i].owner = sessions[i].owner /\ table[i].here = sessions[i].here
             /\ table[i].expires = sessions[i].expires
             /\ table[i] = sessions[i] \/ table[i].revoked = now
  <2>1. PICK s : sessions' = Append(IF s = None THEN sessions ELSE SessionRevoked(s), row)
    BY DEF SignIn, row
  <2>2. CASE s = None
    <3>1. sessions \in Seq(UserSession) /\ sessions' = Append(sessions, row)
      BY <2>1, <2>2 DEF TypeOK
    <3> QED
      BY <3>1
  <2>3. CASE s # None
    <3>1. sessions' = Append(SessionRevoked(s), row)
      BY <2>1, <2>3
    <3> QED
      BY <3>1, SessionRevokedRows
  <2> QED
    BY <2>2, <2>3
<1>7. /\ SessionsGoOn
      /\ \A i \in DOMAIN sessions' : \/ i \in DOMAIN sessions /\ sessions'[i] = table[i]
                                     \/ sessions'[i] = row
  BY <1>3, <1>5, <1>6, AppendedGoOn DEF SignIn
<1>8. ASSUME NEW i \in DOMAIN sessions', sessions'[i].here
      PROVE  users'[sessions'[i].owner] = "here"
  <2>1. CASE i \in DOMAIN sessions /\ sessions'[i] = table[i]
    <3>1. sessions'[i].owner = sessions[i].owner /\ sessions[i].here
      BY <1>6, <1>8, <2>1
    <3>2. users[sessions[i].owner] = "here"
      BY <2>1, <3>1 DEF DeletedLeavesNothing
    <3>3. sessions[i].owner \in Users
      BY <2>1, TypedRows
    <3> QED
      BY <1>1, <3>1, <3>2, <3>3 DEF TypeOK
  <2>2. CASE sessions'[i] = row
    BY <1>1, <1>5, <2>2 DEF TypeOK
  <2> QED
    BY <1>7, <2>1, <2>2
<1>9. ASSUME NEW i \in DOMAIN tokens', tokens'[i].here
      PROVE  users'[tokens'[i].owner] = "here"
  <2>1. users[tokens[i].owner] = "here"
    BY <1>3, <1>9 DEF DeletedLeavesNothing
  <2>2. tokens[i].owner \in Users
    BY <1>3, TypedRows
  <2> QED
    BY <1>1, <1>3, <2>1, <2>2 DEF TypeOK
<1>10. rows' \subseteq {v \in Users : users'[v] = "here"}
  BY <1>1 DEF TypeOK, DeletedLeavesNothing
<1>11. DeletedLeavesNothing'
  BY <1>8, <1>9, <1>10 DEF DeletedLeavesNothing
<1> QED
  BY <1>2, <1>4, <1>7, <1>11 DEF TablesGoOn

LEMMA WriteRowTables ==
  ASSUME TypeOK, DeletedLeavesNothing, NEW u \in Users, WriteRow(u), now' = now
  PROVE  TablesGoOn
<1>1. SessionsGoOn /\ TokensGoOn
  BY SameSessionsGoOn, SameTokensGoOn DEF WriteRow, TypeOK, Time
<1>2. UsersTyped'
  BY DEF WriteRow, UsersTyped, TypeOK
<1>3. rows' \subseteq {v \in Users : users[v] = "here"}
  BY DEF WriteRow, References, DeletedLeavesNothing
<1>4. DeletedLeavesNothing'
  BY <1>3 DEF WriteRow, DeletedLeavesNothing
<1> QED
  BY <1>1, <1>2, <1>4 DEF TablesGoOn

LEMMA CreateTokenTables ==
  ASSUME TypeOK, DeletedLeavesNothing, NEW u \in Users, CreateToken(u), now' = now
  PROVE  /\ TablesGoOn
         /\ \A v \in Users \ {u} : \A t \in DOMAIN tokens' :
              tokens'[t].owner = v => t \in DOMAIN tokens /\ tokens'[t] = tokens[t]
<1>1. UNCHANGED <<users, rows, sessions>> /\ Len(tokens) < MaxTokens
  BY DEF CreateToken
<1>2. SessionsGoOn /\ UsersTyped'
  BY <1>1, SameSessionsGoOn DEF TypeOK, Time, UsersTyped
<1>3. PICK kind \in TokenKinds :
        tokens' = IF References(u)
                  THEN Append(tokens, [here |-> TRUE, owner |-> u, scope |-> kind.scope,
                                       expires |-> IF kind.ttl = Never THEN Never
                                                   ELSE now + kind.ttl,
                                       revoked |-> Never])
                  ELSE tokens
  BY DEF CreateToken
<1> DEFINE expires == IF kind.ttl = Never THEN Never ELSE now + kind.ttl
<1>4. expires \in Moment
  BY AccountsAssumption DEF TypeOK, Time, Moment
<1> HIDE DEF expires
<1> DEFINE row == [here |-> TRUE, owner |-> u, scope |-> kind.scope, expires |-> expires,
                   revoked |-> Never]
<1>5. row \in ApiToken /\ row.owner = u
  BY <1>4, AccountsAssumption DEF ApiToken
<1>6. tokens' = IF References(u) THEN Append(tokens, row) ELSE tokens
  BY <1>3 DEF expires
<1> HIDE DEF row
<1>7. CASE ~References(u)
  <2>1. tokens' = tokens
    BY <1>6, <1>7
  <2>2. TokensGoOn
    BY <2>1, SameTokensGoOn
  <2>3. DeletedLeavesNothing'
    BY <1>1, <2>1 DEF DeletedLeavesNothing
  <2> QED
    BY <1>2, <2>1, <2>2, <2>3 DEF TablesGoOn
<1>8. CASE References(u)
  <2>1. tokens \in Seq(ApiToken) /\ tokens' = Append(tokens, row)
    BY <1>6, <1>8 DEF TypeOK
  <2>2. /\ tokens' \in Seq(ApiToken) /\ Len(tokens') = Len(tokens) + 1
        /\ \A i \in DOMAIN tokens : i \in DOMAIN tokens' /\ tokens'[i] = tokens[i]
        /\ \A i \in DOMAIN tokens' :
             \/ i \in DOMAIN tokens /\ tokens'[i] = tokens[i]
             \/ tokens'[i] = row
    BY <1>5, <2>1, AppendProperties, LenProperties
  <2>3. TokensGoOn
    BY <1>1, <2>1, <2>2, LenProperties, AccountsAssumption DEF TokensGoOn
  <2>4. ASSUME NEW i \in DOMAIN tokens', tokens'[i].here
        PROVE  users'[tokens'[i].owner] = "here"
    BY <1>1, <1>5, <1>8, <2>2, <2>4 DEF References, DeletedLeavesNothing
  <2>5. DeletedLeavesNothing'
    BY <1>1, <2>4 DEF DeletedLeavesNothing
  <2> QED
    BY <1>2, <1>5, <2>2, <2>3, <2>5 DEF TablesGoOn
<1> QED
  BY <1>7, <1>8

LEMMA RevokeTokenTables ==
  ASSUME TypeOK, DeletedLeavesNothing, NEW u \in Users, RevokeToken(u), now' = now
  PROVE  /\ TablesGoOn
         /\ \A v \in Users \ {u} : \A t \in DOMAIN tokens' :
              tokens'[t].owner = v => t \in DOMAIN tokens /\ tokens'[t] = tokens[t]
<1>1. UNCHANGED <<users, rows, sessions>>
  BY DEF RevokeToken
<1>2. SessionsGoOn /\ UsersTyped'
  BY <1>1, SameSessionsGoOn DEF TypeOK, Time, UsersTyped
<1>3. PICK t \in DOMAIN tokens : tokens' = TokenRevoked(u, t)
  BY DEF RevokeToken
<1>4. /\ tokens' \in Seq(ApiToken) /\ Len(tokens') = Len(tokens)
      /\ DOMAIN tokens' = DOMAIN tokens
      /\ \A i \in DOMAIN tokens :
           /\ tokens'[i].here = tokens[i].here /\ tokens'[i].owner = tokens[i].owner
           /\ tokens'[i].scope = tokens[i].scope
           /\ tokens[i].owner # u => tokens'[i] = tokens[i]
  BY <1>3, TokenRevokedRows
<1>5. TokensGoOn
  BY <1>4 DEF TokensGoOn, TypeOK
<1>6. DeletedLeavesNothing'
  BY <1>1, <1>4 DEF DeletedLeavesNothing
<1> QED
  BY <1>2, <1>4, <1>5, <1>6 DEF TablesGoOn

LEMMA DeleteUserTables ==
  ASSUME TypeOK, DeletedLeavesNothing, NEW u \in Users, DeleteUser(u), now' = now
  PROVE  /\ TablesGoOn
         /\ \A i \in DOMAIN sessions : sessions[i].owner # u => sessions'[i] = sessions[i]
         /\ \A t \in DOMAIN tokens' :
              /\ t \in DOMAIN tokens
              /\ tokens'[t].owner # u => tokens'[t] = tokens[t]
<1>1. /\ users' = [users EXCEPT ![u] = "gone"] /\ rows' = rows \ {u}
      /\ sessions' = [i \in DOMAIN sessions |->
            IF sessions[i].owner = u THEN Gone(sessions[i]) ELSE sessions[i]]
      /\ tokens' = [i \in DOMAIN tokens |->
            IF tokens[i].owner = u THEN Gone(tokens[i]) ELSE tokens[i]]
  BY DEF DeleteUser, Cascaded
<1>2. /\ \A i \in DOMAIN sessions : sessions[i] \in UserSession /\ sessions[i].owner \in Users
      /\ \A i \in DOMAIN tokens : tokens[i] \in ApiToken /\ tokens[i].owner \in Users
  BY TypedRows
<1>3. UsersTyped'
  BY <1>1 DEF UsersTyped, TypeOK, UserStates
<1>4. \A i \in DOMAIN sessions :
        /\ sessions'[i] \in UserSession /\ sessions'[i].owner = sessions[i].owner
        /\ sessions[i].owner = u => ~sessions'[i].here
        /\ sessions[i].owner # u => sessions'[i] = sessions[i]
  BY <1>1, <1>2, GoneSession
<1>5. \A i \in DOMAIN tokens :
        /\ tokens'[i] \in ApiToken /\ tokens'[i].owner = tokens[i].owner
        /\ tokens'[i].scope = tokens[i].scope
        /\ tokens[i].owner = u => ~tokens'[i].here
        /\ tokens[i].owner # u => tokens'[i] = tokens[i]
  BY <1>1, <1>2, GoneToken
<1>6. /\ sessions' \in Seq(UserSession) /\ Len(sessions') = Len(sessions)
      /\ DOMAIN sessions' = DOMAIN sessions
  <2>1. sessions' \in [DOMAIN sessions -> UserSession]
    BY <1>1, <1>4
  <2> QED
    BY <2>1, SameShape DEF TypeOK
<1>7. /\ tokens' \in Seq(ApiToken) /\ Len(tokens') = Len(tokens)
      /\ DOMAIN tokens' = DOMAIN tokens
  <2>1. tokens' \in [DOMAIN tokens -> ApiToken]
    BY <1>1, <1>5
  <2> QED
    BY <2>1, SameShape DEF TypeOK
<1>8. SessionsGoOn
  BY <1>4, <1>6 DEF SessionsGoOn, SessionLive, TypeOK
<1>9. TokensGoOn
  BY <1>5, <1>7 DEF TokensGoOn, TypeOK
<1>10. ASSUME NEW i \in DOMAIN sessions', sessions'[i].here
       PROVE  users'[sessions'[i].owner] = "here"
  BY <1>1, <1>2, <1>4, <1>6, <1>10 DEF DeletedLeavesNothing, TypeOK
<1>11. ASSUME NEW i \in DOMAIN tokens', tokens'[i].here
       PROVE  users'[tokens'[i].owner] = "here"
  BY <1>1, <1>2, <1>5, <1>7, <1>11 DEF DeletedLeavesNothing, TypeOK
<1>12. rows' \subseteq {v \in Users : users'[v] = "here"}
  BY <1>1 DEF DeletedLeavesNothing, TypeOK
<1>13. DeletedLeavesNothing'
  BY <1>10, <1>11, <1>12 DEF DeletedLeavesNothing
<1> QED
  BY <1>3, <1>4, <1>5, <1>7, <1>8, <1>9, <1>13 DEF TablesGoOn

LEMMA RevokeSessionTables ==
  ASSUME TypeOK, DeletedLeavesNothing, NEW s, RevokeSession(s), now' = now
  PROVE  /\ TablesGoOn
         /\ \A i \in DOMAIN sessions : i = s \/ sessions'[i] = sessions[i]
<1>1. UNCHANGED <<users, rows, tokens>>
  BY DEF RevokeSession
<1>2. TokensGoOn /\ UsersTyped'
  BY <1>1, SameTokensGoOn DEF UsersTyped, TypeOK
<1>3. CASE s = None
  <2>1. sessions' = sessions
    BY <1>3 DEF RevokeSession
  <2>2. SessionsGoOn
    BY <2>1, SameSessionsGoOn DEF TypeOK, Time
  <2>3. DeletedLeavesNothing'
    BY <1>1, <2>1 DEF DeletedLeavesNothing
  <2> QED
    BY <1>2, <2>1, <2>2, <2>3 DEF TablesGoOn
<1>4. CASE s # None
  <2>1. sessions' = SessionRevoked(s)
    BY <1>4 DEF RevokeSession
  <2>2. SessionsGoOn
    BY <2>1, RevokedGoOn
  <2>3. /\ DOMAIN sessions' = DOMAIN sessions
        /\ \A i \in DOMAIN sessions :
             /\ sessions'[i].here = sessions[i].here /\ sessions'[i].owner = sessions[i].owner
             /\ sessions'[i] = sessions[i] \/ i = s
    BY <2>1, SessionRevokedRows
  <2>4. DeletedLeavesNothing'
    BY <1>1, <2>3 DEF DeletedLeavesNothing
  <2> QED
    BY <1>2, <2>2, <2>3, <2>4 DEF TablesGoOn
<1> QED
  BY <1>3, <1>4

LEMMA EndSweepTables ==
  ASSUME TypeOK, DeletedLeavesNothing, SweepInv, EndSweep
  PROVE  /\ TablesGoOn
         /\ \A s \in DOMAIN sessions : sessions[s].here /\ ~sessions'[s].here =>
              /\ ~SessionLive(s)
              /\ sessions[s].revoked # Never => sessions[s].revoked + Grace <= now
<1>1. /\ sweep \in Nat /\ now \in Nat /\ sweep <= now
      /\ UNCHANGED <<now, users, rows, tokens>>
  BY DEF EndSweep, TypeOK, Time, SweepInv
<1>2. sessions' = [s \in DOMAIN sessions |->
        IF Dead(sessions[s], sweep) THEN Gone(sessions[s]) ELSE sessions[s]]
  BY DEF EndSweep
<1>3. \A s \in DOMAIN sessions : sessions[s] \in UserSession
  BY TypedRows
<1>4. \A s \in DOMAIN sessions :
        /\ sessions'[s] \in UserSession /\ sessions'[s].owner = sessions[s].owner
        /\ \/ sessions'[s] = sessions[s]
           \/ ~sessions'[s].here /\ Dead(sessions[s], sweep)
  BY <1>2, <1>3, GoneSession
<1>5. /\ sessions' \in Seq(UserSession) /\ Len(sessions') = Len(sessions)
      /\ DOMAIN sessions' = DOMAIN sessions
  <2>1. sessions' \in [DOMAIN sessions -> UserSession]
    BY <1>2, <1>4
  <2> QED
    BY <2>1, SameShape DEF TypeOK
<1>6. SessionsGoOn
  BY <1>1, <1>4, <1>5 DEF SessionsGoOn, SessionLive, TypeOK
<1>7. TokensGoOn /\ UsersTyped'
  BY <1>1, SameTokensGoOn DEF UsersTyped, TypeOK
<1>8. DeletedLeavesNothing'
  BY <1>1, <1>4, <1>5 DEF DeletedLeavesNothing
<1>9. ASSUME NEW s \in DOMAIN sessions, sessions[s].here, ~sessions'[s].here
      PROVE  /\ ~SessionLive(s)
             /\ sessions[s].revoked # Never => sessions[s].revoked + Grace <= now
  <2>1. Dead(sessions[s], sweep)
    BY <1>4, <1>9
  <2>2. sessions[s].expires \in Nat /\ sessions[s].revoked \in Nat \cup {Never}
    BY <1>3 DEF UserSession, Time
  <2> QED
    BY <1>1, <2>1, <2>2, AccountsAssumption DEF Dead, SessionLive
<1> QED
  BY <1>6, <1>7, <1>8, <1>9 DEF TablesGoOn

LEMMA SameTables ==
  ASSUME TypeOK, DeletedLeavesNothing, UNCHANGED tables, now' \in Nat, now' >= now
  PROVE  TablesGoOn
<1>1. SessionsGoOn /\ TokensGoOn
  BY SameSessionsGoOn, SameTokensGoOn DEF tables
<1> QED
  BY <1>1 DEF tables, TablesGoOn, UsersTyped, TypeOK, DeletedLeavesNothing

-----------------------------------------------------------------------------
(* What holds of a request goes on to hold while others write.             *)
LEMMA PassedGoesOn ==
  ASSUME SessionsGoOn, TokensGoOn, NEW request, Passed(request),
         None \notin DOMAIN sessions, None \notin DOMAIN tokens
  PROVE  Passed(request)'
<1> DEFINE q == request.sent
<1>1. q.cookie \in DOMAIN sessions' \cup {None} /\ q.bearer \in DOMAIN tokens' \cup {None}
  BY DEF Passed, SessionsGoOn, TokensGoOn
<1>2. request.identified =>
        /\ q.cookie = None /\ q.bearer # None /\ request.live
        /\ q.op \notin Safe => tokens'[q.bearer].scope = "full"
  BY DEF Passed, TokensGoOn
<1>3. ~request.live /\ q.cookie # None => ~SessionLive(q.cookie)'
  BY DEF Passed, SessionsGoOn
<1> QED
  BY <1>1, <1>2, <1>3 DEF Passed

LEMMA KnownGoesOn ==
  ASSUME SessionsGoOn, TokensGoOn, NEW request, Passed(request), Known(request)
  PROVE  Known(request)'
<1> DEFINE q == request.sent
<1>1. request.user = (IF q.cookie # None THEN sessions'[q.cookie] ELSE tokens'[q.bearer]).owner
  <2>1. CASE q.cookie # None
    BY <2>1 DEF Passed, Known, Presented, SessionsGoOn
  <2>2. CASE q.cookie = None
    BY <2>2 DEF Passed, Known, Presented, TokensGoOn
  <2> QED
    BY <2>1, <2>2
<1> QED
  BY <1>1 DEF Known, Presented

LEMMA RequestGoesOn ==
  ASSUME TypeOK, RequestInv, SessionsGoOn, TokensGoOn, NEW r \in Requests,
         requests'[r] = requests[r], requests[r] # None
  PROVE  /\ Passed(requests[r])'
         /\ (requests[r].pc = "known" /\ requests[r].sent.op # "logout" =>
               Known(requests[r]))'
<1>1. None \notin DOMAIN sessions /\ None \notin DOMAIN tokens
  BY AccountsAssumption, LenProperties DEF TypeOK
<1>2. PICK request : request = requests[r]
  OBVIOUS
<1>3. /\ Passed(request)
      /\ request.pc = "known" /\ request.sent.op # "logout" => Known(request)
  BY <1>2 DEF RequestInv
<1>4. Passed(request)'
  BY <1>1, <1>3, PassedGoesOn
<1>5. request.pc = "known" /\ request.sent.op # "logout" => Known(request)'
  BY <1>3, KnownGoesOn
<1>6. Passed(requests[r])'
  BY <1>2, <1>4 DEF Passed, SessionLive
<1>7. (requests[r].pc = "known" /\ requests[r].sent.op # "logout" => Known(requests[r]))'
  BY <1>2, <1>5 DEF Known, Presented
<1> QED
  BY <1>6, <1>7

(* The requests that neither arrive nor go on.                             *)
LEMMA RequestsGoOn ==
  ASSUME TypeOK, RequestInv, SessionsGoOn, TokensGoOn,
         \A r \in Requests : requests'[r] = requests[r] \/ requests'[r] = None
  PROVE  RequestInv'
<1> SUFFICES ASSUME NEW r \in Requests, requests'[r] # None
             PROVE  /\ Passed(requests[r])'
                    /\ (requests[r].pc = "known" /\ requests[r].sent.op # "logout" =>
                          Known(requests[r]))'
  BY DEF RequestInv
<1>1. requests'[r] = requests[r] /\ requests[r] # None
  OBVIOUS
<1> QED
  BY <1>1, RequestGoesOn

(* A credential that authenticates is good, by the record as well.         *)
LEMMA LiveByRecord ==
  ASSUME TypeOK
  PROVE  /\ \A s \in DOMAIN sessions : Valid(sessions[s]) <=> SessionLive(s)
         /\ \A t \in DOMAIN tokens : Authenticates(t) => Valid(tokens[t])
<1>1. ASSUME NEW s \in DOMAIN sessions
      PROVE  Valid(sessions[s]) <=> SessionLive(s)
  <2>1. sessions[s] \in UserSession
    BY <1>1, TypedRows
  <2>2. "scope" \notin DOMAIN sessions[s] /\ sessions[s].expires \in Nat /\ now \in Nat
    BY <2>1 DEF UserSession, TypeOK, Time
  <2> QED
    BY <2>2, AccountsAssumption DEF Valid, SessionLive
<1>2. ASSUME NEW t \in DOMAIN tokens, Authenticates(t)
      PROVE  Valid(tokens[t])
  <2>1. tokens[t] \in ApiToken
    BY <1>2, TypedRows
  <2>2. tokens[t].expires \in Nat \cup {Never} /\ now \in Nat
    BY <2>1 DEF ApiToken, Moment, TypeOK, Time
  <2> QED
    BY <1>2, <2>2 DEF Valid, Authenticates, TokenLive, IsAuthorised
<1> QED
  BY <1>1, <1>2

(* What the two middlewares let through.                                   *)
LEMMA AdmitKeeps ==
  ASSUME AccountsInv, NEW r \in Requests, Admit(r)
  PROVE  AccountsInv'
<1>1. PICK q \in [op : Ops, cookie : DOMAIN sessions \cup {None},
                  bearer : DOMAIN tokens \cup {None}, echo : DOMAIN sessions \cup {None}] :
        /\ q.cookie # None \/ q.bearer # None
        /\ used' = IF Identified(q) THEN used \cup {q.bearer} ELSE used
        /\ IF ScopeRefused(q) \/ CsrfRefused(q) THEN UNCHANGED requests
           ELSE requests' = [requests EXCEPT ![r] =
                    [pc |-> "admitted", sent |-> q, live |-> Valid(Presented(q)),
                     identified |-> Identified(q), user |-> None]]
        /\ UNCHANGED <<now, allowed, tables, sweep>>
  BY DEF Admit
<1>2. TypeOK /\ RequestInv /\ DeletedLeavesNothing /\ SweepInv
  BY DEF AccountsInv
<1>3. UNCHANGED <<now, allowed, users, rows, sessions, tokens, sweep>>
  BY <1>1 DEF tables
<1>4. SessionsGoOn /\ TokensGoOn
  BY <1>2, <1>3, SameSessionsGoOn, SameTokensGoOn DEF TypeOK, Time
<1>5. DOMAIN sessions \subseteq SessionIds /\ DOMAIN tokens \subseteq TokenIds
  BY <1>2, LenProperties, AccountsAssumption DEF TypeOK, SessionIds, TokenIds
<1>6. q \in Sent
  BY <1>5 DEF Sent
<1>7. used' \subseteq TokenIds
  BY <1>1, <1>2, <1>5 DEF TypeOK, Identified
<1> DEFINE new == [pc |-> "admitted", sent |-> q, live |-> Valid(Presented(q)),
                   identified |-> Identified(q), user |-> None]
<1>8. CASE UNCHANGED requests
  <2>1. RequestInv'
    BY <1>2, <1>4, <1>8, RequestsGoOn
  <2>2. TypeOK'
    BY <1>2, <1>3, <1>7, <1>8 DEF TypeOK
  <2> QED
    BY <1>2, <1>3, <2>1, <2>2 DEF AccountsInv, DeletedLeavesNothing, SweepInv
<1>9. CASE ~ScopeRefused(q) /\ ~CsrfRefused(q) /\ requests' = [requests EXCEPT ![r] = new]
  <2>1. new \in Request
    BY <1>6 DEF Request, Valid, Identified, Authenticates
  <2>2. new.pc = "admitted" /\ Passed(new)
    <3>1. CASE q.cookie # None
      BY <1>1, <1>2, <1>9, <3>1, LiveByRecord
         DEF Passed, Presented, Identified, CsrfRefused, CsrfValid
    <3>2. CASE q.cookie = None
      <4>1. Identified(q) => Valid(tokens[q.bearer]) /\ q.bearer \in DOMAIN tokens
        BY <1>1, <1>2, <3>2, LiveByRecord DEF Identified
      <4>2. Identified(q) /\ q.op \notin Safe => tokens[q.bearer].scope = "full"
        BY <1>2, <1>9, <4>1, TypedRows DEF ScopeRefused, ApiToken
      <4> QED
        BY <1>1, <3>2, <4>1, <4>2 DEF Passed, Presented, Identified
    <3> QED
      BY <3>1, <3>2
  <2> HIDE DEF new
  <2>3. requests'[r] = new /\ \A p \in Requests \ {r} : requests'[p] = requests[p]
    BY <1>2, <1>9 DEF TypeOK
  <2>4. ASSUME NEW p \in Requests, requests'[p] # None
        PROVE  /\ Passed(requests[p])'
               /\ (requests[p].pc = "known" /\ requests[p].sent.op # "logout" =>
                     Known(requests[p]))'
    <3>1. CASE p = r
      <4>1. PICK request : request = new
        OBVIOUS
      <4>2. Passed(request)
        BY <2>2, <4>1
      <4>3. requests'[p] = request /\ request.pc = "admitted"
        BY <2>2, <2>3, <3>1, <4>1
      <4>4. Passed(requests[p])'
        BY <1>3, <4>2, <4>3 DEF Passed, SessionLive
      <4> QED
        BY <4>3, <4>4
    <3>2. CASE p # r
      <4>1. requests'[p] = requests[p] /\ requests[p] # None
        BY <2>3, <2>4, <3>2
      <4> QED
        BY <1>2, <1>4, <4>1, RequestGoesOn
    <3> QED
      BY <3>1, <3>2
  <2>5. RequestInv'
    BY <2>4 DEF RequestInv
  <2>6. TypeOK'
    BY <1>2, <1>3, <1>7, <1>9, <2>1 DEF TypeOK
  <2> QED
    BY <1>2, <1>3, <2>5, <2>6 DEF AccountsInv, DeletedLeavesNothing, SweepInv
<1> QED
  BY <1>1, <1>8, <1>9

(* What the dependencies of a route let through.                           *)
LEMMA DependKeeps ==
  ASSUME AccountsInv, NEW r \in Requests, Depend(r)
  PROVE  AccountsInv'
<1> DEFINE request == requests[r]
           q == request.sent
           user == CurrentUser(request)
           new == [request EXCEPT !.pc = "known", !.user = user]
<1>1. TypeOK /\ RequestInv /\ DeletedLeavesNothing /\ SweepInv
  BY DEF AccountsInv
<1>2. UNCHANGED <<now, allowed, users, rows, sessions, tokens, used, sweep>>
  BY DEF Depend, tables
<1>3. SessionsGoOn /\ TokensGoOn
  BY <1>1, <1>2, SameSessionsGoOn, SameTokensGoOn DEF TypeOK, Time
<1>4. request # None /\ request \in Request /\ request.pc = "admitted" /\ Passed(request)
  BY <1>1 DEF Depend, At, RequestInv, TypeOK
<1>5. CASE requests' = [requests EXCEPT ![r] = None]
  <2>1. RequestInv'
    <3>1. \A p \in Requests : requests'[p] = requests[p] \/ requests'[p] = None
      BY <1>1, <1>5 DEF TypeOK
    <3> QED
      BY <1>1, <1>3, <3>1, RequestsGoOn
  <2>2. TypeOK'
    BY <1>1, <1>2, <1>5 DEF TypeOK
  <2> QED
    BY <1>1, <1>2, <2>1, <2>2 DEF AccountsInv, DeletedLeavesNothing, SweepInv
<1>6. CASE /\ q.op = "logout" \/ (~TokenRefused(request) /\ user # None)
           /\ requests' = [requests EXCEPT ![r] = new]
  <2>1. q.cookie \in DOMAIN sessions \cup {None} /\ q.bearer \in DOMAIN tokens \cup {None}
    BY <1>4 DEF Passed
  <2>2. /\ user \in Users \cup {None}
        /\ user # None =>
             /\ user = Presented(q).owner
             /\ request.identified \/ q.cookie # None
             /\ request.live
    <3>1. CASE request.identified
      <4>1. q.cookie = None /\ q.bearer \in DOMAIN tokens /\ request.live
        BY <1>4, <3>1 DEF Passed
      <4>2. tokens[q.bearer].owner \in Users
        BY <1>1, <4>1, TypedRows
      <4> QED
        BY <3>1, <4>1, <4>2 DEF CurrentUser, Presented
    <3>2. CASE ~request.identified /\ q.cookie # None /\ SessionLive(q.cookie)
      <4>1. q.cookie \in DOMAIN sessions /\ request.live \in BOOLEAN
        BY <1>4, <2>1, <3>2 DEF Request
      <4>2. request.live
        BY <1>4, <3>2, <4>1 DEF Passed
      <4>3. sessions[q.cookie].owner \in Users
        BY <1>1, <4>1, TypedRows
      <4> QED
        BY <3>2, <4>1, <4>2, <4>3 DEF CurrentUser, Presented
    <3>3. CASE ~request.identified /\ ~(q.cookie # None /\ SessionLive(q.cookie))
      BY <3>3 DEF CurrentUser
    <3> QED
      BY <3>1, <3>2, <3>3
  <2>3. /\ new \in Request
        /\ new.sent = q /\ new.live = request.live /\ new.identified = request.identified
        /\ new.user = user
    <3> HIDE DEF user
    <3> QED
      BY <1>4, <2>2 DEF Request
  <2>4. Passed(new)
    BY <1>4, <2>3 DEF Passed
  <2>5. new.sent.op # "logout" => Known(new)
    <3>1. SUFFICES ASSUME q.op # "logout"
                   PROVE  Known(new)
      BY <2>3
    <3>2. user # None /\ ~TokenRefused(request)
      BY <1>6, <3>1
    <3>3. user \in Users
      BY <2>2, <3>2
    <3>4. request.identified => q.op \notin Interactive
      BY <3>2 DEF TokenRefused
    <3> HIDE DEF new, user
    <3> QED
      BY <2>2, <2>3, <3>2, <3>3, <3>4 DEF Known
  <2> HIDE DEF new, user
  <2>6. requests'[r] = new /\ \A p \in Requests \ {r} : requests'[p] = requests[p]
    BY <1>1, <1>6 DEF TypeOK
  <2>7. ASSUME NEW p \in Requests, requests'[p] # None
        PROVE  /\ Passed(requests[p])'
               /\ (requests[p].pc = "known" /\ requests[p].sent.op # "logout" =>
                     Known(requests[p]))'
    <3>1. CASE p = r
      <4>1. PICK known : known = new
        OBVIOUS
      <4>2. Passed(known) /\ (known.sent.op # "logout" => Known(known))
        BY <2>4, <2>5, <4>1
      <4>3. requests'[p] = known
        BY <2>6, <3>1, <4>1
      <4>4. Passed(requests[p])'
        BY <1>2, <4>2, <4>3 DEF Passed, SessionLive
      <4>5. (requests[p].pc = "known" /\ requests[p].sent.op # "logout" =>
               Known(requests[p]))'
        BY <1>2, <4>2, <4>3 DEF Known, Presented
      <4> QED
        BY <4>4, <4>5
    <3>2. CASE p # r
      <4>1. requests'[p] = requests[p] /\ requests[p] # None
        BY <2>6, <2>7, <3>2
      <4> QED
        BY <1>1, <1>3, <4>1, RequestGoesOn
    <3> QED
      BY <3>1, <3>2
  <2>8. RequestInv'
    BY <2>7 DEF RequestInv
  <2>9. TypeOK'
    BY <1>1, <1>2, <1>6, <2>3 DEF TypeOK
  <2> QED
    BY <1>1, <1>2, <2>8, <2>9 DEF AccountsInv, DeletedLeavesNothing, SweepInv
<1>7. \/ requests' = [requests EXCEPT ![r] = None]
      \/ /\ q.op = "logout" \/ (~TokenRefused(request) /\ user # None)
         /\ requests' = [requests EXCEPT ![r].pc = "known", ![r].user = user]
  BY DEF Depend, End
<1>8. [requests EXCEPT ![r].pc = "known", ![r].user = user] = [requests EXCEPT ![r] = new]
  BY <1>1 DEF TypeOK
<1> QED
  BY <1>5, <1>6, <1>7, <1>8

(* Whatever only writes the tables, and ends requests, keeps the           *)
(* invariant.                                                              *)
LEMMA WritesKeep ==
  ASSUME AccountsInv, TablesGoOn, UNCHANGED <<allowed, used>>,
         now' \in Time, sweep' \in Time \cup {None}, SweepInv',
         DOMAIN requests' = Requests, requests' = [r \in Requests |-> requests'[r]],
         \A r \in Requests : requests'[r] = requests[r] \/ requests'[r] = None
  PROVE  AccountsInv'
<1>1. RequestInv'
  BY RequestsGoOn DEF AccountsInv, TablesGoOn
<1>2. requests' \in [Requests -> Request \cup {None}]
  BY DEF AccountsInv, TypeOK
<1>3. TypeOK'
  BY <1>2 DEF AccountsInv, TypeOK, TablesGoOn, SessionsGoOn, TokensGoOn, UsersTyped
<1> QED
  BY <1>1, <1>3 DEF AccountsInv, TablesGoOn

-----------------------------------------------------------------------------
(* What a request may do to the tables, as EffectsAreEntitled has it.      *)
Entitled(q) ==
  /\ IF q.cookie # None THEN q.echo = q.cookie
     ELSE tokens[q.bearer].scope = "full" /\ q.op \notin Interactive
  /\ \A u \in Users \ {Presented(q).owner} :
        /\ users'[u] = users[u]
        /\ u \in rows' <=> u \in rows
        /\ \A s \in DOMAIN sessions : sessions[s].owner = u => sessions'[s] = sessions[s]
        /\ \A t \in DOMAIN tokens' :
              tokens'[t].owner = u => t \in DOMAIN tokens /\ tokens'[t] = tokens[t]

(* Every handler writes the rows of the owner of the credential only, and  *)
(* only for a credential that was good when the request was sent; logout   *)
(* writes its own session only.                                            *)
LEMMA HandleEffects ==
  ASSUME AccountsInv, NEW r \in Requests, Handle(r)
  PROVE  /\ TablesGoOn
         /\ tables' # tables =>
              /\ Entitled(requests[r].sent)
              /\ requests[r].live \/ requests[r].sent.op = "logout"
<1> DEFINE request == requests[r]
           q == request.sent
           user == request.user
<1>1. /\ TypeOK /\ DeletedLeavesNothing /\ RequestInv
      /\ now' = now /\ now \in Nat
  BY DEF AccountsInv, Handle, TypeOK, Time
<1>2. request # None /\ request.pc = "known" /\ Passed(request)
  BY <1>1 DEF Handle, At, RequestInv
<1>3. ASSUME q.op # "logout", q.op \notin Safe
      PROVE  /\ user \in Users /\ user = Presented(q).owner /\ request.live
             /\ IF q.cookie # None THEN q.echo = q.cookie
                ELSE tokens[q.bearer].scope = "full" /\ q.op \notin Interactive
  <2>1. Known(request)
    BY <1>1, <1>2, <1>3 DEF RequestInv
  <2> QED
    BY <1>2, <1>3, <2>1 DEF Known, Passed
<1>4. CASE q.op = "get" /\ UNCHANGED tables
  BY <1>1, <1>4, SameTables
<1>5. CASE q.op = "put" /\ WriteRow(user)
  <2>1. user \in Users
    BY <1>3, <1>5 DEF Safe
  <2>2. TablesGoOn
    BY <1>1, <1>5, <2>1, WriteRowTables
  <2>3. UNCHANGED <<users, sessions, tokens>> /\ rows' \subseteq rows \cup {user} /\ rows \subseteq rows'
    BY <1>5 DEF WriteRow
  <2>4. Entitled(q) /\ request.live
    BY <1>3, <1>5, <2>3 DEF Entitled, Safe
  <2> QED
    BY <2>2, <2>4
<1>6. CASE q.op = "mint" /\ CreateToken(user)
  <2>1. user \in Users
    BY <1>3, <1>6 DEF Safe
  <2>2. /\ TablesGoOn
        /\ \A v \in Users \ {user} : \A t \in DOMAIN tokens' :
             tokens'[t].owner = v => t \in DOMAIN tokens /\ tokens'[t] = tokens[t]
    BY <1>1, <1>6, <2>1, CreateTokenTables
  <2>3. UNCHANGED <<users, rows, sessions>>
    BY <1>6 DEF CreateToken
  <2>4. Entitled(q) /\ request.live
    BY <1>3, <1>6, <2>2, <2>3 DEF Entitled, Safe
  <2> QED
    BY <2>2, <2>4
<1>7. CASE q.op = "revoke" /\ RevokeToken(user)
  <2>1. user \in Users
    BY <1>3, <1>7 DEF Safe
  <2>2. /\ TablesGoOn
        /\ \A v \in Users \ {user} : \A t \in DOMAIN tokens' :
             tokens'[t].owner = v => t \in DOMAIN tokens /\ tokens'[t] = tokens[t]
    BY <1>1, <1>7, <2>1, RevokeTokenTables
  <2>3. UNCHANGED <<users, rows, sessions>>
    BY <1>7 DEF RevokeToken
  <2>4. Entitled(q) /\ request.live
    BY <1>3, <1>7, <2>2, <2>3 DEF Entitled, Safe
  <2> QED
    BY <2>2, <2>4
<1>8. CASE q.op = "delete" /\ DeleteUser(user)
  <2>1. user \in Users
    BY <1>3, <1>8 DEF Safe
  <2>2. /\ TablesGoOn
        /\ \A i \in DOMAIN sessions : sessions[i].owner # user => sessions'[i] = sessions[i]
        /\ \A t \in DOMAIN tokens' :
             /\ t \in DOMAIN tokens
             /\ tokens'[t].owner # user => tokens'[t] = tokens[t]
    BY <1>1, <1>8, <2>1, DeleteUserTables
  <2>3. /\ \A v \in Users \ {user} : users'[v] = users[v]
        /\ rows' = rows \ {user}
    BY <1>1, <1>8 DEF DeleteUser, TypeOK
  <2>4. Entitled(q) /\ request.live
    BY <1>3, <1>8, <2>2, <2>3 DEF Entitled, Safe
  <2> QED
    BY <2>2, <2>4
<1>9. CASE q.op = "logout" /\ RevokeSession(q.cookie)
  <2>1. /\ TablesGoOn
        /\ \A i \in DOMAIN sessions : i = q.cookie \/ sessions'[i] = sessions[i]
    BY <1>1, <1>9, RevokeSessionTables
  <2>2. UNCHANGED <<users, rows, tokens>>
    BY <1>9 DEF RevokeSession
  <2>3. CASE q.cookie = None
    <3>1. UNCHANGED tables
      BY <1>9, <2>3 DEF RevokeSession, tables
    <3> QED
      BY <2>1, <3>1
  <2>4. CASE q.cookie # None
    <3>1. q.echo = q.cookie
      BY <1>2, <1>9, <2>4 DEF Passed, Safe
    <3>2. Presented(q).owner = sessions[q.cookie].owner
      BY <2>4 DEF Presented
    <3>3. Entitled(q)
      BY <2>1, <2>2, <2>4, <3>1, <3>2 DEF Entitled
    <3> QED
      BY <1>9, <2>1, <3>3
  <2> QED
    BY <2>3, <2>4
<1> QED
  BY <1>4, <1>5, <1>6, <1>7, <1>8, <1>9 DEF Handle

(* A step that changes a table and ends a request is that request's        *)
(* handler.                                                                *)
LEMMA EveryStep ==
  ASSUME AccountsInv, [Next]_vars
  PROVE  /\ AccountsInv'
         /\ \A r \in Requests : Acts(r) =>
              /\ Entitled(requests[r].sent)
              /\ requests[r].live \/ requests[r].sent.op = "logout"
<1>1. TypeOK /\ DeletedLeavesNothing /\ RequestInv /\ SweepInv /\ now \in Nat
  BY DEF AccountsInv, TypeOK, Time
<1>2. /\ now \in Time /\ sweep \in Time \cup {None}
      /\ requests = [r \in Requests |-> requests[r]] /\ DOMAIN requests = Requests
  BY <1>1 DEF TypeOK
<1>3. ASSUME NEW u \in Users, SignIn(u)
      PROVE  AccountsInv' /\ \A r \in Requests : ~Acts(r)
  <2>1. TablesGoOn
    BY <1>1, <1>3, SignInTables
  <2>2. UNCHANGED <<now, allowed, used, requests, sweep>>
    BY <1>3 DEF SignIn
  <2> QED
    BY <1>1, <1>2, <2>1, <2>2, WritesKeep DEF Acts, SweepInv
<1>4. ASSUME NEW u \in Users, Elsewhere(u)
      PROVE  AccountsInv' /\ \A r \in Requests : ~Acts(r)
  <2>1. UNCHANGED <<now, allowed, used, requests, sweep>>
    BY <1>4 DEF Elsewhere
  <2>2. TablesGoOn
    <3>1. CASE CreateToken(u)
      BY <1>1, <2>1, <3>1, CreateTokenTables
    <3>2. CASE RevokeToken(u)
      BY <1>1, <2>1, <3>2, RevokeTokenTables
    <3>3. CASE DeleteUser(u)
      BY <1>1, <2>1, <3>3, DeleteUserTables
    <3>4. ASSUME NEW s \in DOMAIN sessions, RevokeSession(s)
          PROVE  TablesGoOn
      BY <1>1, <2>1, <3>4, RevokeSessionTables
    <3> QED
      BY <1>4, <3>1, <3>2, <3>3, <3>4 DEF Elsewhere
  <2> QED
    BY <1>1, <1>2, <2>1, <2>2, WritesKeep DEF Acts, SweepInv
<1>5. ASSUME NEW r \in Requests, Admit(r)
      PROVE  AccountsInv' /\ \A p \in Requests : ~Acts(p)
  <2>1. AccountsInv'
    BY <1>5, AdmitKeeps
  <2>2. UNCHANGED tables
    BY <1>5 DEF Admit
  <2> QED
    BY <2>1, <2>2 DEF Acts
<1>6. ASSUME NEW r \in Requests, Depend(r)
      PROVE  AccountsInv' /\ \A p \in Requests : ~Acts(p)
  <2>1. AccountsInv'
    BY <1>6, DependKeeps
  <2>2. UNCHANGED tables
    BY <1>6 DEF Depend
  <2> QED
    BY <2>1, <2>2 DEF Acts
<1>7. ASSUME NEW r \in Requests, Handle(r)
      PROVE  /\ AccountsInv'
             /\ \A p \in Requests : Acts(p) =>
                  /\ Entitled(requests[p].sent)
                  /\ requests[p].live \/ requests[p].sent.op = "logout"
  <2>1. /\ TablesGoOn
        /\ tables' # tables =>
             /\ Entitled(requests[r].sent)
             /\ requests[r].live \/ requests[r].sent.op = "logout"
    BY <1>7, HandleEffects
  <2>2. requests' = [requests EXCEPT ![r] = None] /\ UNCHANGED <<now, allowed, used, sweep>>
    BY <1>7 DEF Handle, End
  <2>3. AccountsInv'
    BY <1>1, <1>2, <2>1, <2>2, WritesKeep DEF SweepInv
  <2>4. \A p \in Requests : Acts(p) => p = r
    BY <1>2, <2>2 DEF Acts
  <2> QED
    BY <2>1, <2>3, <2>4 DEF Acts
<1>8. CASE StartSweep
  <2>1. /\ sweep' = now /\ UNCHANGED <<now, allowed, used, requests>>
        /\ UNCHANGED tables
    BY <1>8 DEF StartSweep
  <2>2. TablesGoOn
    BY <1>1, <2>1, SameTables
  <2> QED
    BY <1>1, <1>2, <2>1, <2>2, WritesKeep DEF Acts, SweepInv
<1>9. CASE EndSweep
  <2>1. sweep' = None /\ UNCHANGED <<now, allowed, used, requests>>
    BY <1>9 DEF EndSweep
  <2>2. TablesGoOn
    BY <1>1, <1>9, EndSweepTables
  <2> QED
    BY <1>1, <1>2, <2>1, <2>2, WritesKeep DEF Acts, SweepInv
<1>10. CASE Tick
  <2>1. /\ now' = now + 1 /\ now < MaxTime /\ UNCHANGED <<allowed, used, requests, sweep>>
        /\ UNCHANGED tables
    BY <1>10 DEF Tick
  <2>2. now' \in Time /\ SweepInv'
    BY <1>1, <1>2, <2>1, AccountsAssumption DEF Time, SweepInv
  <2>3. TablesGoOn
    BY <1>1, <2>1, SameTables
  <2> QED
    BY <1>2, <2>1, <2>2, <2>3, WritesKeep DEF Acts
<1>11. CASE Restart
  <2>1. /\ allowed' \in AllowLists /\ requests' = [r \in Requests |-> None]
        /\ UNCHANGED <<now, users, rows, sessions, tokens, used, sweep>>
    BY <1>11 DEF Restart, tables
  <2>2. AccountsInv'
    BY <1>1, <2>1 DEF AccountsInv, TypeOK, DeletedLeavesNothing, RequestInv, SweepInv
  <2>3. UNCHANGED tables
    BY <2>1 DEF tables
  <2> QED
    BY <2>2, <2>3 DEF Acts
<1>12. CASE UNCHANGED vars
  <2>1. UNCHANGED tables /\ UNCHANGED <<now, allowed, used, requests, sweep>>
    BY <1>12 DEF vars, tables
  <2>2. TablesGoOn
    BY <1>1, <2>1, SameTables
  <2> QED
    BY <1>1, <1>2, <2>1, <2>2, WritesKeep DEF Acts, SweepInv
<1> QED
  BY <1>3, <1>4, <1>5, <1>6, <1>7, <1>8, <1>9, <1>10, <1>11, <1>12 DEF Next

LEMMA AccountsInvHolds == Spec => []AccountsInv
<1>1. Init => AccountsInv
  <2> SUFFICES ASSUME Init
               PROVE  AccountsInv
    OBVIOUS
  <2>1. sessions \in Seq(UserSession) /\ tokens \in Seq(ApiToken) /\ Len(sessions) = 0 /\ Len(tokens) = 0
    BY DEF Init
  <2>2. DOMAIN sessions = {} /\ DOMAIN tokens = {}
    BY DEF Init
  <2>3. TypeOK
    BY <2>1, AccountsAssumption DEF Init, TypeOK, Time, UserStates
  <2>4. DeletedLeavesNothing
    BY <2>2 DEF Init, DeletedLeavesNothing
  <2>5. RequestInv /\ SweepInv
    BY DEF Init, RequestInv, SweepInv
  <2> QED
    BY <2>3, <2>4, <2>5 DEF AccountsInv
<1> QED
  BY <1>1, EveryStep, PTL DEF Spec

(* Every variable keeps to its set; no table grows past its bound.         *)
THEOREM AccountsTyped == Spec => []TypeOK
BY AccountsInvHolds, PTL DEF AccountsInv

(* delete_me: nothing in the database outlives its account, although       *)
(* handlers that knew the user commit after the deletion.                  *)
THEOREM NothingOutlivesItsAccount == Spec => []DeletedLeavesNothing
BY AccountsInvHolds, PTL DEF AccountsInv

(* The middlewares and dependencies together: a request changes what its   *)
(* own credential entitles it to, and no other user's rows, however many   *)
(* requests, sign-ins, sweeps and restarts fall between its steps.         *)
THEOREM RequestsAreEntitled == Spec => EffectsAreEntitled
<1>1. AccountsInv /\ [Next]_vars =>
        [\A r \in Requests : Acts(r) => Entitled(requests[r].sent)]_vars
  BY EveryStep
<1>2. AccountsInv /\ [Next]_vars =>
        [\A r \in Requests : Acts(r) =>
          LET q == requests[r].sent IN
          /\ IF q.cookie # None THEN q.echo = q.cookie
             ELSE tokens[q.bearer].scope = "full" /\ q.op \notin Interactive
          /\ \A u \in Users \ {Presented(q).owner} :
                /\ users'[u] = users[u]
                /\ u \in rows' <=> u \in rows
                /\ \A s \in DOMAIN sessions : sessions[s].owner = u => sessions'[s] = sessions[s]
                /\ \A t \in DOMAIN tokens' :
                      tokens'[t].owner = u => t \in DOMAIN tokens /\ tokens'[t] = tokens[t]]_vars
  BY <1>1 DEF Entitled
<1> QED
  BY <1>2, AccountsInvHolds, PTL DEF Spec, EffectsAreEntitled

(* resolve_session and authenticate: a credential that was dead when the   *)
(* request was sent changes nothing, unless a session logs itself out.     *)
THEOREM TheDeadDoNothing == Spec => DeadCredentialsDoNothing
<1>1. AccountsInv /\ [Next]_vars =>
        [\A r \in Requests : Acts(r) /\ ~requests[r].live => requests[r].sent.op = "logout"]_vars
  BY EveryStep
<1> QED
  BY <1>1, AccountsInvHolds, PTL DEF Spec, DeadCredentialsDoNothing

(* prune_sessions: a session that is removed could not authenticate, and a *)
(* revoked one has been on record for the grace period.                    *)
THEOREM SweepRemovesTheDead == Spec => SweepSpares
<1>1. AccountsInv /\ [Next]_vars =>
        [\A s \in DOMAIN sessions :
          EndSweep /\ sessions[s].here /\ ~sessions'[s].here =>
            /\ ~SessionLive(s)
            /\ sessions[s].revoked # Never => sessions[s].revoked + Grace <= now]_vars
  BY EndSweepTables DEF AccountsInv
<1> QED
  BY <1>1, AccountsInvHolds, PTL DEF Spec, SweepSpares
=============================================================================
