------------------------------- MODULE SignIn -------------------------------
(***************************************************************************)
(* Signing in through GitHub: src/app/api/v1/auth.py, src/app/auth/flow.py *)
(* and the in-process stores they use.  A browser starts a sign-in, GitHub *)
(* sends it back to the callback, and each callback runs on a thread of    *)
(* its own: it checks the failure budget, redeems the state, asks GitHub   *)
(* who this is, commits a session, and answers.  Other callbacks, starts,  *)
(* sign-outs and a restart fall between any two of these steps.            *)
(***************************************************************************)
EXTENDS SlidingWindow

CONSTANTS
    Browsers, People, Ips,
    Calls,            \* the threads that handle callbacks
    Ip,               \* the address each browser connects from
    AllowLists,       \* the values ALLOWED_GITHUB_IDS is given, one per start
    Ttl,              \* DEFAULT_TTL_SECONDS of a state
    MaxOutstanding,   \* _MAX_OUTSTANDING states kept
    StartLimit, StartWindow, FailureLimit, FailureWindow,
    None,
    MaxStates, MaxSessions, MaxTime      \* bounds of the model

ASSUME SignInAssumption ==
    /\ Ip \in [Browsers -> Ips]
    /\ Ttl \in Nat /\ MaxOutstanding \in Nat \ {0}
    /\ MaxStates \in Nat /\ MaxSessions \in Nat /\ MaxTime \in Nat
    /\ StartLimit \in Nat \ {0} /\ StartWindow \in Nat \ {0}
    /\ FailureLimit \in Nat \ {0} /\ FailureWindow \in Nat \ {0}
    /\ IsFiniteSet(Calls)
    /\ AllowLists \subseteq SUBSET People
    /\ None \notin People /\ None \notin Nat /\ None \notin Ips

VARIABLES
    now,
    allowed,      \* settings.allowed_github_ids of the running process
    issued,       \* the states handed out: the browser and the expiry signed into each
    outstanding,  \* StateStore._outstanding, the states that may still be redeemed
    starts,       \* start_limiter's table
    failures,     \* callback_failure_limiter's table
    jar,          \* each browser's state and session cookies
    calls,        \* the callbacks being handled that came with a code and a state
    declined,     \* the other callbacks past the check of the budget, by their address
    sessions,     \* the rows of the sessions table, in the order of their creation
    redeemed,     \* history: who redeemed each state, and when
    forgotten,    \* history: the states issued before the last restart
    overrun,      \* history: failures of an address since its last recorded one
    given,        \* history: the browser each session's cookie was set in
    overlapped    \* history: the browsers that had two callbacks handled at once

limiters == <<starts, failures>>
tickets == <<issued, redeemed, forgotten>>
memory == <<declined, given, overlapped>>
vars == <<now, allowed, outstanding, starts, failures, jar, calls, declined, sessions,
          issued, redeemed, forgotten, overrun, given, overlapped>>

States == 1..MaxStates
SessionIds == 1..MaxSessions

Session == [owner : People, revoked : BOOLEAN]
Call == [pc : {"checked", "exchange", "denied", "invited", "committed"},
         browser : Browsers,
         state : States,                  \* the query parameter
         cookie : States \cup {None},     \* the state cookie it came with
         presented : SessionIds \cup {None},
         person : People \cup {None},
         session : SessionIds \cup {None}]

-----------------------------------------------------------------------------
Idle == [c \in Calls |-> None]
NoOverrun == [i \in Ips |-> 0]

Init ==
    /\ outstanding = {}
    /\ starts = NoEvents /\ failures = NoEvents
    /\ calls = Idle /\ declined = Idle
    /\ overrun = NoOverrun
    /\ now = 0
    /\ allowed \in AllowLists
    /\ issued = <<>>
    /\ jar = [b \in Browsers |-> [state |-> None, session |-> None]]
    /\ sessions = <<>>
    /\ redeemed = [n \in States |-> <<>>]
    /\ forgotten = 0
    /\ given = <<>>
    /\ overlapped = {}

-----------------------------------------------------------------------------
(* The state store. *)

Expired(n) == issued[n].expires <= now

Unexpired == {n \in outstanding : ~ Expired(n)}    \* _purge_locked

IssuedUnbounded(n) == Unexpired \cup {n}

(* issue: at capacity the oldest state outstanding makes room. *)
Issued(n) ==
    LET kept == IF Cardinality(Unexpired) >= MaxOutstanding
                THEN Unexpired \ {CHOOSE o \in Unexpired : \A p \in Unexpired : o <= p}
                ELSE Unexpired
    IN  kept \cup {n}

ConsumedKept(n) == IF Expired(n) THEN outstanding ELSE Unexpired

(* consume: the popped state is gone for every later caller. *)
Redeemable(n) == ~ Expired(n) /\ n \in Unexpired
Consumed(n) == IF Expired(n) THEN outstanding ELSE Unexpired \ {n}

-----------------------------------------------------------------------------
(* github_start. *)

StartRefused(b) ==
    \E table \in Pruned(starts, Ip[b], now, StartWindow) :
        /\ Limited(table, Ip[b], StartLimit)
        /\ starts' = table
        /\ UNCHANGED <<now, allowed, outstanding, failures, jar, calls, sessions, tickets, overrun, memory>>

Start(b) ==
    LET n == Len(issued) + 1 IN
    /\ n <= MaxStates
    /\ \E table \in Pruned(starts, Ip[b], now, StartWindow) :
        /\ ~ Limited(table, Ip[b], StartLimit)
        /\ starts' = Hit(table, Ip[b], now, StartLimit)
    /\ issued' = Append(issued, [to |-> b, expires |-> now + Ttl])
    /\ outstanding' = Issued(n)
    /\ jar' = [jar EXCEPT ![b].state = n]
    /\ UNCHANGED <<now, allowed, failures, calls, sessions, redeemed, forgotten, overrun, memory>>

-----------------------------------------------------------------------------
(* github_callback. *)

WithinBudgetLate(table, i) == Len(table[i]) <= FailureLimit

WithinBudget(table, i) == ~ Limited(table, i, FailureLimit)

(* The budget is read first; an address over it is answered 429. *)
CallbackLimited(b) ==
    \E table \in Pruned(failures, Ip[b], now, FailureWindow) :
        /\ ~ WithinBudget(table, Ip[b])
        /\ failures' = table
        /\ UNCHANGED <<now, allowed, outstanding, starts, jar, calls, sessions, tickets, overrun, memory>>

(* A failure is recorded in a table pruned at that moment. *)
CountFailure(i, table) ==
    \E pruned \in Pruned(table, i, now, FailureWindow) :
        /\ failures' = Hit(pruned, i, now, FailureLimit)
        /\ overrun' = [overrun EXCEPT ![i] =
                         IF Limited(pruned, i, FailureLimit) THEN @ + 1 ELSE 0]

Free(c) == calls[c] = None /\ declined[c] = None

(* GitHub reports a refusal, or sends no code or no state: from any address.  The budget
   is read here and spent in a step of its own, as for the other callbacks. *)
ArriveDeclined(c, i) ==
    /\ Free(c)
    /\ \E table \in Pruned(failures, i, now, FailureWindow) :
        /\ WithinBudget(table, i)
        /\ failures' = table
    /\ declined' = [declined EXCEPT ![c] = i]
    /\ UNCHANGED <<now, allowed, outstanding, starts, jar, calls, sessions, tickets, overrun, given, overlapped>>

CallbackDeclined(c) ==
    /\ declined[c] # None
    /\ CountFailure(declined[c], failures)
    /\ declined' = [declined EXCEPT ![c] = None]
    /\ UNCHANGED <<now, allowed, outstanding, starts, jar, calls, sessions, tickets, given, overlapped>>

(* A code and a state: any state handed out, this browser's or another's. *)
Arrive(c, b) ==
    /\ Free(c)
    /\ \E table \in Pruned(failures, Ip[b], now, FailureWindow) :
        /\ WithinBudget(table, Ip[b])
        /\ failures' = table
    /\ \E n \in DOMAIN issued :
         calls' = [calls EXCEPT ![c] =
            [pc |-> "checked", browser |-> b, state |-> n, cookie |-> jar[b].state,
             presented |-> jar[b].session, person |-> None, session |-> None]]
    /\ overlapped' = IF \E d \in Calls : calls[d] # None /\ calls[d].browser = b
                     THEN overlapped \cup {b} ELSE overlapped
    /\ UNCHANGED <<now, allowed, outstanding, starts, jar, sessions, tickets, overrun, declined, given>>

At(c, pc) == calls[c] # None /\ calls[c].pc = pc
Goto(c, pc) == calls' = [calls EXCEPT ![c].pc = pc]
End(c) == calls' = [calls EXCEPT ![c] = None]

(* _validate_state: the cookie binds the state to the browser, then the
   store gives it up once. *)
Bound(call) == call.cookie = call.state

ValidateState(c) ==
    LET call == calls[c] IN
    /\ At(c, "checked")
    /\ Bound(call) /\ Redeemable(call.state)
    /\ outstanding' = Consumed(call.state)
    /\ redeemed' = [redeemed EXCEPT ![call.state] =
                      Append(@, [by |-> call.browser, at |-> now])]
    /\ Goto(c, "exchange")
    /\ UNCHANGED <<now, allowed, limiters, jar, sessions, issued, forgotten, overrun, memory>>

RefuseStatePopFirst(c) ==
    LET call == calls[c] IN
    /\ At(c, "checked")
    /\ ~ (Bound(call) /\ Redeemable(call.state))
    /\ outstanding' = Consumed(call.state)
    /\ Goto(c, "denied")
    /\ UNCHANGED <<now, allowed, limiters, jar, sessions, tickets, overrun, memory>>

RefuseState(c) ==
    LET call == calls[c] IN
    /\ At(c, "checked")
    /\ ~ (Bound(call) /\ Redeemable(call.state))
    /\ outstanding' = IF Bound(call) THEN Consumed(call.state) ELSE outstanding
    /\ Goto(c, "denied")
    /\ UNCHANGED <<now, allowed, limiters, jar, sessions, tickets, overrun, memory>>

IsAuthorisedOpen(p) == allowed # {} => p \in allowed

(* is_authorised: an empty list admits nobody. *)
IsAuthorised(p) == allowed # {} /\ p \in allowed

(* GitHub names the person who approved the code, or fails. *)
Identify(c, p) ==
    /\ At(c, "exchange")
    /\ calls' = [calls EXCEPT ![c].person = p,
                              ![c].pc = IF IsAuthorised(p) THEN "invited" ELSE "denied"]
    /\ UNCHANGED <<now, allowed, outstanding, limiters, jar, sessions, tickets, overrun, memory>>

GitHubFails(c) ==
    /\ At(c, "exchange")
    /\ Goto(c, "denied")
    /\ UNCHANGED <<now, allowed, outstanding, limiters, jar, sessions, tickets, overrun, memory>>

(* SignInDenied: rolled back, and counted only now. *)
Deny(c) ==
    /\ At(c, "denied")
    /\ CountFailure(Ip[calls[c].browser], failures)
    /\ End(c)
    /\ UNCHANGED <<now, allowed, outstanding, starts, jar, sessions, tickets, memory>>

RotatedNever(rows, presented) == rows

(* revoke_session of the session the browser came with, if it is still live. *)
Rotated(rows, presented) ==
    IF presented = None THEN rows ELSE [rows EXCEPT ![presented].revoked = TRUE]

NewSession(p) == [owner |-> p, revoked |-> FALSE]

(* upsert_user, ensure_profile, rotation and create_session in one transaction. *)
Commit(c) ==
    /\ At(c, "invited")
    /\ Len(sessions) < MaxSessions
    /\ sessions' = Append(Rotated(sessions, calls[c].presented),
                          NewSession(calls[c].person))
    /\ calls' = [calls EXCEPT ![c].pc = "committed", ![c].session = Len(sessions) + 1]
    /\ given' = Append(given, None)
    /\ UNCHANGED <<now, allowed, outstanding, limiters, jar, tickets, overrun, declined, overlapped>>

(* Any database error is a 500: nothing is written and no failure counted. *)
CommitFails(c) ==
    /\ At(c, "invited")
    /\ End(c)
    /\ UNCHANGED <<now, allowed, outstanding, limiters, jar, sessions, tickets, overrun, memory>>

(* The answer sets the session's cookie and clears the state's. *)
Answer(c) ==
    /\ At(c, "committed")
    /\ jar' = [jar EXCEPT ![calls[c].browser] =
                 [state |-> None, session |-> calls[c].session]]
    /\ given' = [given EXCEPT ![calls[c].session] = calls[c].browser]
    /\ End(c)
    /\ UNCHANGED <<now, allowed, outstanding, limiters, sessions, tickets, overrun, declined, overlapped>>

AnswerLost(c) ==
    /\ At(c, "committed")
    /\ End(c)
    /\ UNCHANGED <<now, allowed, outstanding, limiters, jar, sessions, tickets, overrun, memory>>

-----------------------------------------------------------------------------
(* logout, behind the CSRF check. *)
Logout(b) ==
    /\ jar[b].session # None
    /\ sessions' = [sessions EXCEPT ![jar[b].session].revoked = TRUE]
    /\ jar' = [jar EXCEPT ![b].session = None]
    /\ UNCHANGED <<now, allowed, outstanding, limiters, calls, tickets, overrun, memory>>

Tick ==
    /\ now < MaxTime
    /\ now' = now + 1
    /\ UNCHANGED <<allowed, outstanding, limiters, jar, calls, sessions, tickets, overrun, memory>>

(* Everything in memory is lost; the settings may be new ones. *)
Restart ==
    /\ outstanding' = {}
    /\ starts' = NoEvents /\ failures' = NoEvents
    /\ calls' = Idle /\ declined' = Idle
    /\ overrun' = NoOverrun
    /\ allowed' \in AllowLists
    /\ forgotten' = Len(issued)
    /\ UNCHANGED <<now, jar, sessions, issued, redeemed, given, overlapped>>

Next ==
    \/ \E b \in Browsers :
          \/ StartRefused(b) \/ Start(b) \/ CallbackLimited(b) \/ Logout(b)
    \/ \E c \in Calls :
          \/ \E b \in Browsers : Arrive(c, b)
          \/ \E i \in Ips : ArriveDeclined(c, i)
          \/ CallbackDeclined(c)
          \/ ValidateState(c) \/ RefuseState(c)
          \/ \E p \in People : Identify(c, p)
          \/ GitHubFails(c) \/ Deny(c) \/ Commit(c) \/ CommitFails(c)
          \/ Answer(c) \/ AnswerLost(c)
    \/ Tick \/ Restart

Spec == Init /\ [][Next]_vars

-----------------------------------------------------------------------------
(* The shape of the state; the store never holds more than it may. *)
TypeOK ==
    /\ now \in 0..MaxTime
    /\ allowed \in AllowLists
    /\ issued \in Seq([to : Browsers, expires : Nat])
    /\ outstanding \subseteq DOMAIN issued /\ Cardinality(outstanding) <= MaxOutstanding
    /\ \A table \in {starts, failures} :
          DOMAIN table \subseteq Ips /\ \A i \in DOMAIN table : table[i] \in Seq(0..now)
    /\ jar \in [Browsers -> [state : States \cup {None}, session : SessionIds \cup {None}]]
    /\ calls \in [Calls -> Call \cup {None}] /\ declined \in [Calls -> Ips \cup {None}]
    /\ sessions \in Seq(Session) /\ Len(given) = Len(sessions)

(* A state is redeemed at most once, by the browser it was issued to and before it
   expires: consume pops under the lock, and _validate_state compares the cookie. *)
RedeemedOnceByItsBrowser ==
    \A n \in States :
        \/ redeemed[n] = <<>>
        \/ /\ Len(redeemed[n]) = 1
           /\ redeemed[n][1].by = issued[n].to
           /\ redeemed[n][1].at < issued[n].expires

(* A state leaves the store unused and unexpired only because MaxOutstanding newer
   ones came after it, or because the process restarted. *)
DroppedOnlyAtCapacity ==
    \A n \in DOMAIN issued :
        \/ n \in outstanding \/ Expired(n) \/ redeemed[n] # <<>> \/ n <= forgotten
        \/ Len(issued) - n >= MaxOutstanding

(* The budget is read before a callback is looked at and spent when it has failed, in two
   critical sections: an address over its budget gets at most the callbacks that were
   in flight past the check beside the one that spent it, fewer than there are threads. *)
OverrunBounded == \A i \in Ips : overrun[i] = 0 \/ overrun[i] < Cardinality(Calls)

(* A session is created only for a person on the allow-list of the running process. *)
NewSessionsAreInvited ==
    [][\A s \in DOMAIN sessions' \ DOMAIN sessions : sessions'[s].owner \in allowed]_vars

(* Rotation: a browser that has its callbacks handled one at a time leaves no live
   session behind; all it was ever given but the one it holds are dead. *)
NoSessionLeftBehind ==
    \A s \in DOMAIN sessions :
        LET b == given[s] IN
        b # None /\ b \notin overlapped /\ jar[b].session # s => sessions[s].revoked
=============================================================================
