---------------------------- MODULE SignIn_proofs ----------------------------
(***************************************************************************)
(* Sign-in, for any number of browsers, callbacks at once and states.      *)
(***************************************************************************)
EXTENDS SignIn, TLAPS, FiniteSetTheorems, SequenceTheorems, WellFoundedInduction

(* The states handed out, and whom the cookies and callbacks name.         *)
IssuedInv ==
  /\ now \in Nat /\ allowed \in AllowLists
  /\ issued \in Seq([to : Browsers, expires : Nat]) /\ Len(issued) <= MaxStates
  /\ outstanding \subseteq DOMAIN issued
  /\ jar \in [Browsers -> [state : Nat \cup {None}, session : Nat \cup {None}]]
  /\ \A b \in Browsers : jar[b].state # None =>
       jar[b].state \in DOMAIN issued /\ issued[jar[b].state].to = b

Callback == [pc : {"checked", "exchange", "denied", "invited", "committed"},
             browser : Browsers, state : Nat, cookie : Nat \cup {None},
             presented : Nat \cup {None}, person : People \cup {None},
             session : Nat \cup {None}]

Sound(call) ==
  /\ call \in Callback
  /\ call.state \in DOMAIN issued
  /\ call.cookie # None =>
       call.cookie \in DOMAIN issued /\ issued[call.cookie].to = call.browser
  /\ call.pc = "invited" => call.person \in allowed

CallInv ==
  /\ DOMAIN calls = Calls /\ calls = [c \in Calls |-> calls[c]]
  /\ \A c \in Calls : calls[c] # None => Sound(calls[c])

(* A state that is outstanding has not been redeemed.                      *)
RedeemedInv ==
  /\ redeemed \in [States -> Seq([by : Browsers, at : Nat])]
  /\ \A n \in outstanding : redeemed[n] = <<>>
  /\ \A n \in States : redeemed[n] # <<>> => n \in DOMAIN issued
  /\ RedeemedOnceByItsBrowser

DroppedInv == forgotten \in Nat /\ DroppedOnlyAtCapacity

SignInInv == IssuedInv /\ CallInv /\ RedeemedInv /\ DroppedInv

-----------------------------------------------------------------------------
(* A set of naturals that is not empty has a least one.                    *)
LEMMA Oldest ==
  ASSUME NEW S \in SUBSET Nat, S # {}
  PROVE  \E o \in S : \A p \in S : o <= p
<1>1. \E o \in S : \A p \in S : ~ (<<p, o>> \in OpToRel(<, Nat))
  BY NatLessThanWellFounded, WFMin, Zenon
<1>2. PICK o \in S : \A p \in S : ~ (<<p, o>> \in OpToRel(<, Nat))
  BY <1>1, Zenon
<1>3. ASSUME NEW p \in S
      PROVE  o <= p
  <2>1. ~ (p < o)
    BY <1>2, <1>3, Zenon DEF OpToRel
  <2> QED
    BY <2>1
<1> QED
  BY <1>3

(* Of at least MaxOutstanding states, the oldest has as many after it.     *)
LEMMA OldestIsFar ==
  ASSUME NEW S, NEW n \in Nat, S \subseteq 1 .. n, Cardinality(S) >= MaxOutstanding
  PROVE  LET oldest == CHOOSE o \in S : \A p \in S : o <= p IN
           oldest \in S /\ n + 1 - oldest >= MaxOutstanding
<1> DEFINE oldest == CHOOSE o \in S : \A p \in S : o <= p
<1>0. MaxOutstanding \in Nat \ {0}
  BY SignInAssumption
<1>1. S # {}
  BY <1>0, FS_EmptySet
<1>2. \E o \in S : \A p \in S : o <= p
  BY <1>1, Oldest
<1>3. oldest \in S /\ \A p \in S : oldest <= p
  BY <1>2, Zenon
<1> HIDE DEF oldest
<1>4. oldest \in 1 .. n /\ S \subseteq oldest .. n
  BY <1>3
<1>5. IsFiniteSet(oldest .. n) /\ Cardinality(oldest .. n) = n - oldest + 1
  BY <1>4, FS_Interval
<1>6. Cardinality(S) <= Cardinality(oldest .. n)
  BY <1>4, <1>5, FS_Subset
<1>7. Cardinality(S) \in Nat
  BY <1>4, <1>5, FS_Subset, FS_CardinalityType
<1> QED
  BY <1>3, <1>4, <1>5, <1>6, <1>7, SignInAssumption DEF oldest

LEMMA FreshSignIn == Init => SignInInv
<1> SUFFICES ASSUME Init
             PROVE  SignInInv
  OBVIOUS
<1>1. issued = <<>> /\ DOMAIN issued = {} /\ outstanding = {}
  BY DEF Init
<1>2. IssuedInv
  BY <1>1, SignInAssumption DEF Init, IssuedInv
<1>3. CallInv
  BY DEF Init, Idle, CallInv
<1>4. RedeemedInv
  BY <1>1 DEF Init, RedeemedInv, RedeemedOnceByItsBrowser
<1>5. DroppedInv
  BY <1>1 DEF Init, DroppedInv, DroppedOnlyAtCapacity
<1> QED
  BY <1>2, <1>3, <1>4, <1>5 DEF SignInInv

-----------------------------------------------------------------------------
(* No state is redeemed, dropped or handed out.                            *)
LEMMA QuietStates ==
  ASSUME SignInInv, UNCHANGED <<outstanding, issued, redeemed, forgotten>>,
         now' \in Nat, now' >= now
  PROVE  RedeemedInv' /\ DroppedInv'
<1>1. RedeemedInv'
  BY DEF SignInInv, RedeemedInv, RedeemedOnceByItsBrowser
<1>2. \A n \in DOMAIN issued : Expired(n) => Expired(n)'
  <2>0. issued \in Seq([to : Browsers, expires : Nat])
    BY DEF SignInInv, IssuedInv
  <2>1. \A n \in DOMAIN issued : issued[n] \in [to : Browsers, expires : Nat]
    BY <2>0, ElementOfSeq, LenProperties
  <2> QED
    BY <2>1 DEF SignInInv, IssuedInv, Expired
<1>3. DroppedInv'
  BY <1>2 DEF SignInInv, DroppedInv, DroppedOnlyAtCapacity
<1> QED
  BY <1>1, <1>3

(* The cookies of browsers that are given no new state.                    *)
LEMMA QuietCookies ==
  ASSUME SignInInv, UNCHANGED <<outstanding, issued, allowed>>, now' \in Nat,
         jar' \in [Browsers -> [state : Nat \cup {None}, session : Nat \cup {None}]],
         \A b \in Browsers : jar'[b].state = jar[b].state \/ jar'[b].state = None
  PROVE  IssuedInv'
BY DEF SignInInv, IssuedInv

(* The calls, of which at most one goes on.                                *)
LEMMA QuietCalls ==
  ASSUME SignInInv, UNCHANGED <<issued, allowed>>, NEW c \in Calls, NEW x,
         x = None \/ Sound(x), calls' = [calls EXCEPT ![c] = x]
  PROVE  CallInv'
<1>1. /\ calls'[c] = x /\ \A d \in Calls \ {c} : calls'[d] = calls[d]
      /\ DOMAIN calls' = Calls /\ calls' = [d \in Calls |-> calls'[d]]
  BY DEF SignInInv, CallInv
<1>2. ASSUME NEW d \in Calls, calls'[d] # None
      PROVE  Sound(calls[d])'
  <2>1. PICK call : call = calls'[d]
    OBVIOUS
  <2>2. Sound(call)
    BY <1>1, <1>2, <2>1 DEF SignInInv, CallInv
  <2> QED
    BY <2>1, <2>2 DEF Sound
<1> QED
  BY <1>1, <1>2 DEF CallInv

LEMMA SameCalls ==
  ASSUME SignInInv, UNCHANGED calls, allowed' = allowed,
         \A n \in DOMAIN issued : n \in DOMAIN issued' /\ issued'[n] = issued[n]
  PROVE  CallInv'
<1>1. ASSUME NEW d \in Calls, calls'[d] # None
      PROVE  Sound(calls[d])'
  <2>1. Sound(calls[d])
    BY <1>1 DEF SignInInv, CallInv
  <2> QED
    BY <2>1 DEF Sound
<1> QED
  BY <1>1 DEF SignInInv, CallInv

LEMMA SameCookies ==
  ASSUME SignInInv, UNCHANGED <<jar, outstanding, issued, allowed>>, now' \in Nat
  PROVE  IssuedInv'
BY DEF SignInInv, IssuedInv

(* github_start: the new state is nobody's yet, and makes room if it must. *)
LEMMA StartKeeps ==
  ASSUME SignInInv, NEW b \in Browsers, Start(b)
  PROVE  SignInInv'
<1> DEFINE n == Len(issued) + 1
           row == [to |-> b, expires |-> now + Ttl]
<1>1. /\ n <= MaxStates /\ issued' = Append(issued, row)
      /\ outstanding' = Issued(n) /\ jar' = [jar EXCEPT ![b].state = n]
      /\ UNCHANGED <<now, allowed, calls, redeemed, forgotten>>
  BY DEF Start
<1>2. row \in [to : Browsers, expires : Nat] /\ now \in Nat /\ row.to = b
  BY SignInAssumption DEF SignInInv, IssuedInv
<1>3. /\ Len(issued) \in Nat /\ DOMAIN issued = 1 .. Len(issued) /\ n \notin DOMAIN issued
  BY LenProperties DEF SignInInv, IssuedInv
<1> HIDE DEF row
<1>4. /\ issued' \in Seq([to : Browsers, expires : Nat]) /\ Len(issued') = n
      /\ DOMAIN issued' = 1 .. n
      /\ \A i \in DOMAIN issued : i \in DOMAIN issued' /\ issued'[i] = issued[i]
      /\ issued'[n] = row
  BY <1>1, <1>2, <1>3, AppendProperties, LenProperties DEF SignInInv, IssuedInv
<1>5. /\ outstanding' \subseteq Unexpired \cup {n} /\ n \in outstanding'
      /\ \A i \in Unexpired : i \notin outstanding' => n - i >= MaxOutstanding
  <2>1. CASE Cardinality(Unexpired) >= MaxOutstanding
    <3> DEFINE oldest == CHOOSE o \in Unexpired : \A p \in Unexpired : o <= p
    <3>1. Unexpired \subseteq 1 .. Len(issued)
      BY <1>3 DEF Unexpired, SignInInv, IssuedInv
    <3>2. oldest \in Unexpired /\ Len(issued) + 1 - oldest >= MaxOutstanding
      BY <1>3, <2>1, <3>1, OldestIsFar
    <3>3. outstanding' = (Unexpired \ {oldest}) \cup {n}
      BY <1>1, <2>1 DEF Issued
    <3> HIDE DEF oldest
    <3>4. \A i \in Unexpired : i \notin outstanding' => i = oldest
      BY <3>3
    <3>5. n - oldest >= MaxOutstanding
      BY <1>3, <3>1, <3>2
    <3> QED
      BY <3>3, <3>4, <3>5, Zenon
  <2>2. CASE ~(Cardinality(Unexpired) >= MaxOutstanding)
    BY <1>1, <2>2 DEF Issued
  <2> QED
    BY <2>1, <2>2
<1>6. Unexpired \subseteq outstanding /\ \A i \in outstanding \ Unexpired : Expired(i)
  BY DEF Unexpired
<1>7. IssuedInv'
  <2>1. /\ jar' \in [Browsers -> [state : Nat \cup {None}, session : Nat \cup {None}]]
        /\ jar'[b].state = n /\ \A d \in Browsers \ {b} : jar'[d] = jar[d]
    BY <1>1, <1>3 DEF SignInInv, IssuedInv
  <2>2. outstanding' \subseteq DOMAIN issued'
    BY <1>3, <1>4, <1>5, <1>6 DEF SignInInv, IssuedInv
  <2>3. \A d \in Browsers : jar'[d].state # None =>
          jar'[d].state \in DOMAIN issued' /\ issued'[jar'[d].state].to = d
    <3>1. jar'[b].state \in DOMAIN issued' /\ issued'[jar'[b].state].to = b
      BY <1>2, <1>3, <1>4, <2>1
    <3>2. ASSUME NEW d \in Browsers \ {b}, jar'[d].state # None
          PROVE  jar'[d].state \in DOMAIN issued' /\ issued'[jar'[d].state].to = d
      BY <1>4, <2>1, <3>2 DEF SignInInv, IssuedInv
    <3> QED
      BY <3>1, <3>2
  <2> QED
    BY <1>1, <1>4, <2>1, <2>2, <2>3 DEF SignInInv, IssuedInv
<1>8. CallInv'
  BY <1>1, <1>4, SameCalls
<1>9. RedeemedInv'
  <2>1. n \in States
    BY <1>1, <1>3, SignInAssumption DEF States
  <2>2. redeemed[n] = <<>>
    BY <1>3, <2>1 DEF SignInInv, RedeemedInv
  <2>3. \A i \in outstanding' : redeemed'[i] = <<>>
    BY <1>1, <1>5, <1>6, <2>2 DEF SignInInv, RedeemedInv
  <2>4. \A i \in States : redeemed'[i] # <<>> => i \in DOMAIN issued'
    BY <1>1, <1>4 DEF SignInInv, RedeemedInv
  <2>5. RedeemedOnceByItsBrowser'
    <3>1. ASSUME NEW i \in States, redeemed'[i] # <<>>
          PROVE  /\ Len(redeemed'[i]) = 1 /\ redeemed'[i][1].by = issued'[i].to
                 /\ redeemed'[i][1].at < issued'[i].expires
      <4>1. redeemed[i] # <<>> /\ i \in DOMAIN issued /\ issued'[i] = issued[i]
        BY <1>1, <1>4, <3>1 DEF SignInInv, RedeemedInv
      <4> QED
        BY <1>1, <4>1 DEF SignInInv, RedeemedInv, RedeemedOnceByItsBrowser
    <3> QED
      BY <3>1 DEF RedeemedOnceByItsBrowser
  <2> QED
    BY <1>1, <2>3, <2>4, <2>5 DEF SignInInv, RedeemedInv
<1>10. DroppedInv'
  <2>1. ASSUME NEW i \in DOMAIN issued', i # n, i \notin outstanding'
        PROVE  \/ Expired(i)' \/ redeemed'[i] # <<>> \/ i <= forgotten'
               \/ Len(issued') - i >= MaxOutstanding
    <3>1. i \in DOMAIN issued /\ issued'[i] = issued[i] /\ i \in Nat
      BY <1>3, <1>4, <2>1
    <3>2. CASE i \in outstanding
      <4>1. i \in Unexpired \/ Expired(i)
        BY <1>6, <3>2
      <4> QED
        BY <1>1, <1>4, <1>5, <2>1, <3>1, <4>1 DEF Expired
    <3>3. CASE i \notin outstanding
      <4>1. \/ Expired(i) \/ redeemed[i] # <<>> \/ i <= forgotten
            \/ Len(issued) - i >= MaxOutstanding
        BY <3>1, <3>3 DEF SignInInv, DroppedInv, DroppedOnlyAtCapacity
      <4> QED
        BY <1>1, <1>3, <1>4, <3>1, <4>1, SignInAssumption DEF Expired
    <3> QED
      BY <3>2, <3>3
  <2> QED
    BY <1>1, <1>5, <2>1 DEF SignInInv, DroppedInv, DroppedOnlyAtCapacity
<1> QED
  BY <1>7, <1>8, <1>9, <1>10 DEF SignInInv

(* _validate_state: popping under the lock is what makes it once.          *)
LEMMA ValidateStateKeeps ==
  ASSUME SignInInv, NEW c \in Calls, ValidateState(c)
  PROVE  SignInInv'
<1> DEFINE call == calls[c]
           n == call.state
           by == [by |-> call.browser, at |-> now]
<1>1. /\ call # None /\ call.cookie = n /\ ~Expired(n) /\ n \in Unexpired
      /\ outstanding' = Consumed(n)
      /\ redeemed' = [redeemed EXCEPT ![n] = Append(@, by)]
      /\ calls' = [calls EXCEPT ![c].pc = "exchange"]
      /\ UNCHANGED <<now, allowed, jar, issued, forgotten>>
  BY DEF ValidateState, At, Bound, Redeemable, Goto
<1>2. Sound(call) /\ now \in Nat
  BY <1>1 DEF SignInInv, IssuedInv, CallInv
<1>3. outstanding' = Unexpired \ {n}
  BY <1>1 DEF Consumed
<1>4. n \in DOMAIN issued /\ issued[n].to = call.browser /\ n \in outstanding
  BY <1>1, <1>2, SignInAssumption DEF Sound, Callback, Unexpired
<1>5. now < issued[n].expires
  <2>1. issued \in Seq([to : Browsers, expires : Nat])
    BY DEF SignInInv, IssuedInv
  <2>2. issued[n] \in [to : Browsers, expires : Nat]
    BY <1>4, <2>1, ElementOfSeq, LenProperties
  <2> QED
    BY <1>1, <1>2, <2>2 DEF Expired
<1>6. n \in States
  BY <1>4, LenProperties, SignInAssumption DEF SignInInv, IssuedInv, States
<1>7. by \in [by : Browsers, at : Nat] /\ by.by = call.browser /\ by.at = now
  BY <1>2 DEF Sound, Callback
<1> HIDE DEF by
<1>8. /\ redeemed'[n] \in Seq([by : Browsers, at : Nat])
      /\ Len(redeemed'[n]) = 1 /\ redeemed'[n][1] = by
  <2>1. redeemed[n] = <<>> /\ redeemed'[n] = Append(<<>>, by)
    BY <1>1, <1>4, <1>6 DEF SignInInv, RedeemedInv
  <2> QED
    BY <1>7, <2>1
<1>9. \A i \in States \ {n} : redeemed'[i] = redeemed[i]
  BY <1>1 DEF SignInInv, RedeemedInv
<1>10. RedeemedInv'
  <2>1. redeemed' \in [States -> Seq([by : Browsers, at : Nat])]
    BY <1>1, <1>6, <1>8, <1>9 DEF SignInInv, RedeemedInv
  <2>2. \A i \in outstanding' : redeemed'[i] = <<>>
    BY <1>1, <1>3 DEF SignInInv, RedeemedInv, Unexpired
  <2>3. \A i \in States : redeemed'[i] # <<>> => i \in DOMAIN issued'
    BY <1>1, <1>4, <1>9 DEF SignInInv, RedeemedInv
  <2>4. ASSUME NEW i \in States, redeemed'[i] # <<>>
        PROVE  /\ Len(redeemed'[i]) = 1 /\ redeemed'[i][1].by = issued'[i].to
               /\ redeemed'[i][1].at < issued'[i].expires
    <3>1. CASE i = n
      BY <1>1, <1>4, <1>5, <1>7, <1>8, <3>1
    <3>2. CASE i # n
      <4>1. redeemed'[i] = redeemed[i] /\ issued'[i] = issued[i]
        BY <1>1, <1>9, <3>2
      <4> QED
        BY <2>4, <4>1 DEF SignInInv, RedeemedInv, RedeemedOnceByItsBrowser
    <3> QED
      BY <3>1, <3>2
  <2>5. RedeemedOnceByItsBrowser'
    BY <2>4 DEF RedeemedOnceByItsBrowser
  <2> QED
    BY <2>1, <2>2, <2>3, <2>5 DEF RedeemedInv
<1>11. DroppedInv'
  <2>1. ASSUME NEW i \in DOMAIN issued, i \notin outstanding'
        PROVE  \/ Expired(i)' \/ redeemed'[i] # <<>> \/ i <= forgotten'
               \/ Len(issued') - i >= MaxOutstanding
    <3>1. CASE i = n
      <4>1. Len(redeemed'[i]) = 1 /\ Len(<<>>) = 0
        BY <1>8, <3>1
      <4>2. ASSUME redeemed'[i] = <<>>
            PROVE  FALSE
        <5>1. Len(redeemed'[i]) = Len(<<>>)
          BY <4>2
        <5> QED
          BY <4>1, <5>1
      <4> QED
        BY <4>2
    <3>2. CASE i # n
      <4>1. i \in States
        BY LenProperties, SignInAssumption DEF SignInInv, IssuedInv, States
      <4>2. redeemed'[i] = redeemed[i] /\ i \notin Unexpired
        BY <1>3, <1>9, <2>1, <3>2, <4>1
      <4>3. i \notin outstanding \/ Expired(i)
        BY <4>2 DEF Unexpired
      <4>4. \/ Expired(i) \/ redeemed[i] # <<>> \/ i <= forgotten
            \/ Len(issued) - i >= MaxOutstanding
        BY <4>3 DEF SignInInv, DroppedInv, DroppedOnlyAtCapacity
      <4>5. Expired(i) => Expired(i)'
        BY <1>1 DEF Expired
      <4> QED
        BY <1>1, <4>2, <4>4, <4>5
    <3> QED
      BY <3>1, <3>2
  <2> QED
    BY <1>1, <2>1 DEF SignInInv, DroppedInv, DroppedOnlyAtCapacity
<1>12. IssuedInv'
  BY <1>1, <1>3 DEF SignInInv, IssuedInv, Unexpired
<1>13. CallInv'
  <2> DEFINE x == [call EXCEPT !.pc = "exchange"]
  <2>1. Sound(x)
    BY <1>2 DEF Sound, Callback
  <2>2. calls' = [calls EXCEPT ![c] = x]
    BY <1>1
  <2> HIDE DEF x
  <2> QED
    BY <1>1, <2>1, <2>2, QuietCalls
<1> QED
  BY <1>10, <1>11, <1>12, <1>13 DEF SignInInv

(* A state that cannot be redeemed is not taken from anybody.              *)
LEMMA RefuseStateKeeps ==
  ASSUME SignInInv, NEW c \in Calls, RefuseState(c)
  PROVE  SignInInv'
<1> DEFINE call == calls[c]
           n == call.state
<1>1. /\ call # None /\ ~(Bound(call) /\ Redeemable(n))
      /\ outstanding' = IF Bound(call) THEN Consumed(n) ELSE outstanding
      /\ calls' = [calls EXCEPT ![c].pc = "denied"]
      /\ UNCHANGED <<now, allowed, jar, issued, redeemed, forgotten>>
  BY DEF RefuseState, At, Goto, tickets
<1>2. Unexpired \subseteq outstanding' /\ outstanding' \subseteq outstanding
  BY <1>1 DEF Redeemable, Consumed, Unexpired
<1>3. \A i \in outstanding \ outstanding' : Expired(i)
  BY <1>2 DEF Unexpired
<1>4. RedeemedInv'
  BY <1>1, <1>2 DEF SignInInv, RedeemedInv, RedeemedOnceByItsBrowser
<1>5. DroppedInv'
  BY <1>1, <1>3 DEF SignInInv, DroppedInv, DroppedOnlyAtCapacity, Expired
<1>6. IssuedInv'
  BY <1>1, <1>2 DEF SignInInv, IssuedInv
<1>7. CallInv'
  <2> DEFINE x == [call EXCEPT !.pc = "denied"]
  <2>1. Sound(call)
    BY <1>1 DEF SignInInv, CallInv
  <2>2. Sound(x)
    BY <2>1 DEF Sound, Callback
  <2>3. calls' = [calls EXCEPT ![c] = x]
    BY <1>1
  <2> HIDE DEF x
  <2> QED
    BY <1>1, <2>2, <2>3, QuietCalls
<1> QED
  BY <1>4, <1>5, <1>6, <1>7 DEF SignInInv

(* The process forgets its states, and issues none of them again.          *)
LEMMA RestartKeeps ==
  ASSUME SignInInv, Restart
  PROVE  SignInInv'
<1>1. /\ outstanding' = {} /\ calls' = [c \in Calls |-> None] /\ allowed' \in AllowLists
      /\ forgotten' = Len(issued) /\ UNCHANGED <<now, jar, issued, redeemed>>
  BY DEF Restart, Idle
<1>2. Len(issued) \in Nat /\ DOMAIN issued = 1 .. Len(issued)
  BY LenProperties DEF SignInInv, IssuedInv
<1>3. IssuedInv'
  BY <1>1 DEF SignInInv, IssuedInv
<1>4. CallInv'
  BY <1>1 DEF CallInv
<1>5. RedeemedInv'
  BY <1>1 DEF SignInInv, RedeemedInv, RedeemedOnceByItsBrowser
<1>6. DroppedInv'
  BY <1>1, <1>2 DEF DroppedInv, DroppedOnlyAtCapacity
<1> QED
  BY <1>3, <1>4, <1>5, <1>6 DEF SignInInv

(* A callback that arrives, goes on or ends without touching a state.      *)
LEMMA CallbackKeeps ==
  ASSUME SignInInv, Len(sessions) \in Nat, NEW c \in Calls,
         \/ \E b \in Browsers : Arrive(c, b)
         \/ \E p \in People : Identify(c, p)
         \/ GitHubFails(c) \/ Deny(c) \/ Commit(c) \/ CommitFails(c)
         \/ Answer(c) \/ AnswerLost(c)
  PROVE  SignInInv'
<1>1. UNCHANGED <<now, allowed, outstanding, issued, redeemed, forgotten>>
  BY DEF Arrive, Identify, GitHubFails, Deny, Commit, CommitFails, Answer, AnswerLost, tickets
<1>2. now \in Nat
  BY DEF SignInInv, IssuedInv
<1>3. RedeemedInv' /\ DroppedInv'
  BY <1>1, <1>2, QuietStates
<1>4. ASSUME calls[c] # None
      PROVE  Sound(calls[c])
  BY <1>4 DEF SignInInv, CallInv
<1>5. CASE \E b \in Browsers : Arrive(c, b)
  <2>1. PICK b \in Browsers : Arrive(c, b)
    BY <1>5
  <2>2. PICK n \in DOMAIN issued :
          calls' = [calls EXCEPT ![c] =
            [pc |-> "checked", browser |-> b, state |-> n, cookie |-> jar[b].state,
             presented |-> jar[b].session, person |-> None, session |-> None]]
    BY <2>1 DEF Arrive
  <2> DEFINE x == [pc |-> "checked", browser |-> b, state |-> n, cookie |-> jar[b].state,
                   presented |-> jar[b].session, person |-> None, session |-> None]
  <2>3. n \in Nat
    BY LenProperties DEF SignInInv, IssuedInv
  <2>4. x \in Callback
    BY <2>3 DEF Callback, SignInInv, IssuedInv
  <2>5. Sound(x)
    BY <2>4 DEF Sound, SignInInv, IssuedInv
  <2> HIDE DEF x
  <2>6. calls' = [calls EXCEPT ![c] = x]
    BY <2>2 DEF x
  <2>7. UNCHANGED jar
    BY <2>1 DEF Arrive
  <2> QED
    BY <1>1, <1>2, <1>3, <2>5, <2>6, <2>7, QuietCalls, SameCookies DEF SignInInv
<1>6. CASE \E p \in People : Identify(c, p)
  <2>1. PICK p \in People : Identify(c, p)
    BY <1>6
  <2> DEFINE pc == IF IsAuthorised(p) THEN "invited" ELSE "denied"
             x == [calls[c] EXCEPT !.person = p, !.pc = pc]
  <2>2. pc \in {"invited", "denied"} /\ (pc = "invited" => p \in allowed)
    BY DEF IsAuthorised
  <2>3. calls' = [calls EXCEPT ![c] = x] /\ calls[c] # None /\ UNCHANGED jar
    BY <2>1 DEF Identify, At
  <2> HIDE DEF pc
  <2>4. x \in Callback /\ x.state = calls[c].state /\ x.cookie = calls[c].cookie
        /\ x.browser = calls[c].browser /\ x.pc = pc /\ x.person = p
    BY <1>4, <2>2, <2>3 DEF Sound, Callback
  <2>5. Sound(x)
    BY <1>4, <2>2, <2>3, <2>4 DEF Sound
  <2> HIDE DEF x
  <2> QED
    BY <1>1, <1>2, <1>3, <2>3, <2>5, QuietCalls, SameCookies DEF SignInInv
<1>7. CASE GitHubFails(c)
  <2> DEFINE x == [calls[c] EXCEPT !.pc = "denied"]
  <2>1. calls' = [calls EXCEPT ![c] = x] /\ calls[c] # None /\ UNCHANGED jar
    BY <1>7 DEF GitHubFails, At, Goto
  <2>2. Sound(x)
    BY <1>4, <2>1 DEF Sound, Callback
  <2> HIDE DEF x
  <2> QED
    BY <1>1, <1>2, <1>3, <2>1, <2>2, QuietCalls, SameCookies DEF SignInInv
<1>8. CASE Commit(c)
  <2> DEFINE s == Len(sessions) + 1
             x == [calls[c] EXCEPT !.pc = "committed", !.session = s]
  <2>0. s \in Nat
    OBVIOUS
  <2>1. calls' = [calls EXCEPT ![c] = x] /\ calls[c] # None /\ UNCHANGED jar
    BY <1>8 DEF Commit, At
  <2> HIDE DEF s
  <2>2. Sound(x)
    BY <1>4, <2>0, <2>1 DEF Sound, Callback
  <2> HIDE DEF x
  <2> QED
    BY <1>1, <1>2, <1>3, <2>1, <2>2, QuietCalls, SameCookies DEF SignInInv
<1>9. CASE Answer(c)
  <2>1. calls' = [calls EXCEPT ![c] = None] /\ calls[c] # None
        /\ jar' = [jar EXCEPT ![calls[c].browser] =
                     [state |-> None, session |-> calls[c].session]]
    BY <1>9 DEF Answer, At, End
  <2>2. calls[c].session \in Nat \cup {None}
    BY <1>4, <2>1 DEF Sound, Callback
  <2>3. /\ jar' \in [Browsers -> [state : Nat \cup {None}, session : Nat \cup {None}]]
        /\ \A b \in Browsers : jar'[b].state = jar[b].state \/ jar'[b].state = None
    BY <2>1, <2>2 DEF SignInInv, IssuedInv
  <2> QED
    BY <1>1, <1>2, <1>3, <2>1, <2>3, QuietCalls, QuietCookies DEF SignInInv
<1>10. CASE Deny(c) \/ CommitFails(c) \/ AnswerLost(c)
  <2>1. calls' = [calls EXCEPT ![c] = None] /\ UNCHANGED jar
    BY <1>10 DEF Deny, CommitFails, AnswerLost, End
  <2> QED
    BY <1>1, <1>2, <1>3, <2>1, QuietCalls, SameCookies DEF SignInInv
<1> QED
  BY <1>5, <1>6, <1>7, <1>8, <1>9, <1>10

(* The limiters, the clock and a sign-out touch no state and no callback.  *)
LEMMA OthersKeep ==
  ASSUME SignInInv,
         \/ \E b \in Browsers : StartRefused(b) \/ CallbackLimited(b) \/ Logout(b)
         \/ \E c \in Calls : CallbackDeclined(c) \/ \E i \in Ips : ArriveDeclined(c, i)
         \/ Tick \/ UNCHANGED vars
  PROVE  SignInInv'
<1>1. UNCHANGED <<allowed, outstanding, issued, redeemed, forgotten, calls>>
  BY DEF StartRefused, CallbackLimited, Logout, ArriveDeclined, CallbackDeclined, Tick, vars, tickets
<1>2. now \in Nat /\ now' \in {now, now + 1}
  BY DEF SignInInv, IssuedInv, StartRefused, CallbackLimited, Logout, ArriveDeclined, CallbackDeclined,
         Tick, vars
<1>3. RedeemedInv' /\ DroppedInv'
  BY <1>1, <1>2, QuietStates
<1>4. CallInv'
  BY <1>1, SameCalls
<1>5. /\ jar' \in [Browsers -> [state : Nat \cup {None}, session : Nat \cup {None}]]
      /\ \A b \in Browsers : jar'[b].state = jar[b].state \/ jar'[b].state = None
  <2>1. CASE UNCHANGED jar
    BY <2>1 DEF SignInInv, IssuedInv
  <2>2. ASSUME NEW b \in Browsers, Logout(b)
        PROVE  /\ jar' \in [Browsers -> [state : Nat \cup {None}, session : Nat \cup {None}]]
               /\ \A d \in Browsers : jar'[d].state = jar[d].state
    BY <2>2 DEF Logout, SignInInv, IssuedInv
  <2> QED
    BY <2>1, <2>2 DEF StartRefused, CallbackLimited, ArriveDeclined, CallbackDeclined, Tick, vars
<1>6. IssuedInv'
  BY <1>1, <1>2, <1>5, QuietCookies
<1> QED
  BY <1>3, <1>4, <1>6 DEF SignInInv

LEMMA StatesKept ==
  ASSUME SignInInv, Len(sessions) \in Nat, [Next]_vars
  PROVE  SignInInv'
BY StartKeeps, ValidateStateKeeps, RefuseStateKeeps, RestartKeeps, CallbackKeeps, OthersKeep
   DEF Next

-----------------------------------------------------------------------------
(* A browser whose callbacks are handled one at a time: the call under way *)
(* came with the cookie the browser still has, unless it signed out, and   *)
(* has revoked that session once it has committed another.                 *)
OneAtATime(c) ==
  LET b == calls[c].browser IN
  b \notin overlapped =>
    /\ \A d \in Calls \ {c} : calls[d] # None => calls[d].browser # b
    /\ jar[b].session # None => jar[b].session = calls[c].presented
    /\ calls[c].pc = "committed" /\ calls[c].presented # None =>
         sessions[calls[c].presented].revoked

SessionInv ==
  /\ sessions \in Seq(Session)
  /\ given \in Seq(Browsers \cup {None}) /\ Len(given) = Len(sessions)
  /\ \A b \in Browsers : jar[b].session # None => jar[b].session \in DOMAIN sessions
  /\ \A c \in Calls : calls[c] # None =>
       /\ calls[c].presented # None => calls[c].presented \in DOMAIN sessions
       /\ calls[c].pc = "committed" =>
            /\ calls[c].session \in DOMAIN sessions /\ given[calls[c].session] = None
            /\ \A d \in Calls \ {c} : calls[d] # None /\ calls[d].pc = "committed" =>
                 calls[d].session # calls[c].session
       /\ OneAtATime(c)
  /\ NoSessionLeftBehind

(* Steps that give no session and end no session.                          *)
LEMMA QuietSessions ==
  ASSUME SignInInv, SessionInv, UNCHANGED <<sessions, jar, given, overlapped>>,
         \A c \in Calls : calls'[c] # None =>
           /\ calls[c] # None
           /\ calls'[c].pc = "committed" => calls'[c] = calls[c]
           /\ calls'[c].browser = calls[c].browser /\ calls'[c].presented = calls[c].presented
  PROVE  SessionInv'
<1>1. ASSUME NEW c \in Calls, calls'[c] # None
      PROVE  /\ calls'[c].presented # None => calls'[c].presented \in DOMAIN sessions'
             /\ calls'[c].pc = "committed" =>
                  /\ calls'[c].session \in DOMAIN sessions' /\ given'[calls'[c].session] = None
                  /\ \A d \in Calls \ {c} : calls'[d] # None /\ calls'[d].pc = "committed" =>
                       calls'[d].session # calls'[c].session
             /\ OneAtATime(c)'
  <2>1. calls[c] # None
    BY <1>1
  <2>2. calls'[c].presented # None => calls'[c].presented \in DOMAIN sessions'
    BY <1>1, <2>1 DEF SessionInv
  <2>3. calls'[c].pc = "committed" =>
          /\ calls'[c].session \in DOMAIN sessions' /\ given'[calls'[c].session] = None
          /\ \A d \in Calls \ {c} : calls'[d] # None /\ calls'[d].pc = "committed" =>
               calls'[d].session # calls'[c].session
    BY <1>1, <2>1 DEF SessionInv
  <2>4. OneAtATime(c)'
    BY <1>1, <2>1 DEF SessionInv, OneAtATime
  <2> QED
    BY <2>2, <2>3, <2>4
<1> QED
  BY <1>1 DEF SessionInv, NoSessionLeftBehind

(* A callback comes with the cookie its browser has.                       *)
LEMMA ArriveSessions ==
  ASSUME SignInInv, SessionInv, NEW c \in Calls, NEW b \in Browsers, Arrive(c, b)
  PROVE  SessionInv'
<1>1. /\ calls[c] = None /\ UNCHANGED <<sessions, jar, given>>
      /\ overlapped' = IF \E d \in Calls : calls[d] # None /\ calls[d].browser = b
                       THEN overlapped \cup {b} ELSE overlapped
  BY DEF Arrive, Free
<1>2. \E x : /\ calls' = [calls EXCEPT ![c] = x]
             /\ x.pc = "checked" /\ x.browser = b /\ x.presented = jar[b].session
  <2>1. PICK n \in DOMAIN issued :
          calls' = [calls EXCEPT ![c] =
            [pc |-> "checked", browser |-> b, state |-> n, cookie |-> jar[b].state,
             presented |-> jar[b].session, person |-> None, session |-> None]]
    BY DEF Arrive
  <2> DEFINE x == [pc |-> "checked", browser |-> b, state |-> n, cookie |-> jar[b].state,
                   presented |-> jar[b].session, person |-> None, session |-> None]
  <2>2. x.pc = "checked" /\ x.browser = b /\ x.presented = jar[b].session
    OBVIOUS
  <2>3. calls' = [calls EXCEPT ![c] = x]
    BY <2>1
  <2> HIDE DEF x
  <2> QED
    BY <2>2, <2>3
<1>2a. PICK x : /\ calls' = [calls EXCEPT ![c] = x]
               /\ x.pc = "checked" /\ x.browser = b /\ x.presented = jar[b].session
  BY <1>2
<1>3. calls'[c] = x /\ \A d \in Calls \ {c} : calls'[d] = calls[d]
  BY <1>2a DEF SignInInv, CallInv
<1>4. ASSUME NEW d \in Calls, calls'[d] # None
      PROVE  /\ calls'[d].presented # None => calls'[d].presented \in DOMAIN sessions'
             /\ calls'[d].pc = "committed" =>
                  /\ calls'[d].session \in DOMAIN sessions' /\ given'[calls'[d].session] = None
                  /\ \A e \in Calls \ {d} : calls'[e] # None /\ calls'[e].pc = "committed" =>
                       calls'[e].session # calls'[d].session
             /\ OneAtATime(d)'
  <2>1. CASE d = c
    <3>1. calls'[d].presented # None => calls'[d].presented \in DOMAIN sessions'
      BY <1>1, <1>2a, <1>3, <2>1 DEF SessionInv
    <3>2. OneAtATime(d)'
      BY <1>1, <1>2a, <1>3, <2>1 DEF OneAtATime
    <3> QED
      BY <1>2a, <1>3, <2>1, <3>1, <3>2
  <2>2. CASE d # c
    <3>1. calls'[d] = calls[d] /\ calls[d] # None
      BY <1>3, <1>4, <2>2
    <3>2. OneAtATime(d)'
      BY <1>1, <1>2a, <1>3, <2>2, <3>1 DEF OneAtATime, SessionInv
    <3>3. calls'[d].pc = "committed" =>
            \A e \in Calls \ {d} : calls'[e] # None /\ calls'[e].pc = "committed" =>
              calls'[e].session # calls'[d].session
      BY <1>1, <1>2a, <1>3, <3>1 DEF SessionInv
    <3> QED
      BY <1>1, <3>1, <3>2, <3>3 DEF SessionInv
  <2> QED
    BY <2>1, <2>2
<1>5. NoSessionLeftBehind'
  BY <1>1 DEF SessionInv, NoSessionLeftBehind
<1> QED
  BY <1>1, <1>4, <1>5 DEF SessionInv

(* Rotation: the presented session is revoked with the new one's row.      *)
LEMMA CommitSessions ==
  ASSUME SignInInv, SessionInv, NEW c \in Calls, Commit(c)
  PROVE  /\ SessionInv'
         /\ \A s \in DOMAIN sessions' \ DOMAIN sessions : sessions'[s].owner \in allowed
<1> DEFINE call == calls[c]
           n == Len(sessions) + 1
           table == Rotated(sessions, call.presented)
           new == NewSession(call.person)
<1>1. /\ call # None /\ call.pc = "invited"
      /\ sessions' = Append(table, new) /\ given' = Append(given, None)
      /\ calls' = [calls EXCEPT ![c].pc = "committed", ![c].session = n]
      /\ UNCHANGED <<jar, overlapped>>
  BY DEF Commit, At
<1>2. call.person \in allowed /\ call.person \in People /\ call \in Callback
  BY <1>1, SignInAssumption DEF SignInInv, IssuedInv, CallInv, Sound
<1>3. new \in Session /\ new.owner = call.person
  BY <1>2 DEF NewSession, Session
<1>4. \A s \in DOMAIN sessions : sessions[s] \in Session
  BY ElementOfSeq, LenProperties DEF SessionInv
<1>5. /\ DOMAIN table = DOMAIN sessions
      /\ \A s \in DOMAIN sessions :
           /\ table[s] \in Session /\ table[s].owner = sessions[s].owner
           /\ sessions[s].revoked => table[s].revoked
      /\ call.presented # None => table[call.presented].revoked
  <2>1. CASE call.presented = None
    BY <1>4, <2>1 DEF Rotated
  <2>2. CASE call.presented # None
    <3>1. call.presented \in DOMAIN sessions
      BY <1>1, <2>2 DEF SessionInv
    <3>2. table = [sessions EXCEPT ![call.presented] =
                     [sessions[call.presented] EXCEPT !.revoked = TRUE]]
      BY <2>2, <3>1 DEF Rotated
    <3> DEFINE row == [sessions[call.presented] EXCEPT !.revoked = TRUE]
    <3>3. row \in Session /\ row.owner = sessions[call.presented].owner /\ row.revoked
      BY <1>4, <3>1 DEF Session
    <3> HIDE DEF row, table
    <3>4. table = [sessions EXCEPT ![call.presented] = row]
      BY <3>2 DEF row
    <3> QED
      BY <1>4, <3>1, <3>3, <3>4
  <2> QED
    BY <2>1, <2>2
<1> HIDE DEF table, new
<1>6. /\ Len(sessions) \in Nat /\ DOMAIN sessions = 1 .. Len(sessions)
      /\ table \in Seq(Session) /\ Len(table) = Len(sessions)
  <2>1. Len(sessions) \in Nat /\ DOMAIN sessions = 1 .. Len(sessions)
    BY LenProperties DEF SessionInv
  <2>2. table = [s \in DOMAIN sessions |-> table[s]]
    <3>1. sessions = [s \in DOMAIN sessions |-> sessions[s]]
      BY DEF SessionInv
    <3>2. table = sessions \/ table = [sessions EXCEPT ![call.presented].revoked = TRUE]
      BY DEF Rotated, table
    <3> QED
      BY <1>5, <3>1, <3>2
  <2>3. table \in [1 .. Len(sessions) -> Session]
    BY <1>5, <2>1, <2>2
  <2>4. table \in Seq(Session)
    BY <2>1, <2>3, SeqDef
  <2>5. DOMAIN table = 1 .. Len(table) /\ Len(table) \in Nat
    BY <2>4, LenProperties
  <2> QED
    BY <1>5, <2>1, <2>4, <2>5
<1>7. /\ sessions' \in Seq(Session) /\ Len(sessions') = n /\ DOMAIN sessions' = 1 .. n
      /\ \A s \in DOMAIN sessions : s \in DOMAIN sessions' /\ sessions'[s] = table[s]
      /\ sessions'[n] = new
  BY <1>1, <1>3, <1>6, AppendProperties, LenProperties
<1>8. /\ given' \in Seq(Browsers \cup {None}) /\ Len(given') = n
      /\ \A s \in DOMAIN sessions : given'[s] = given[s]
      /\ given'[n] = None
  <2>1. given \in Seq(Browsers \cup {None}) /\ Len(given) = Len(sessions)
        /\ None \in Browsers \cup {None}
    BY DEF SessionInv
  <2> QED
    BY <1>1, <1>6, <2>1, AppendProperties, LenProperties
<1>9. /\ \A d \in Calls \ {c} : calls'[d] = calls[d]
      /\ calls'[c].pc = "committed" /\ calls'[c].session = n
      /\ calls'[c].browser = call.browser /\ calls'[c].presented = call.presented
  BY <1>1, <1>2 DEF SignInInv, CallInv, Callback
<1>10. n \notin DOMAIN sessions /\ n \in DOMAIN sessions'
  BY <1>6, <1>7
<1> HIDE DEF n
<1>11. ASSUME NEW d \in Calls, calls'[d] # None
       PROVE  /\ calls'[d].presented # None => calls'[d].presented \in DOMAIN sessions'
              /\ calls'[d].pc = "committed" =>
                   /\ calls'[d].session \in DOMAIN sessions' /\ given'[calls'[d].session] = None
                   /\ \A e \in Calls \ {d} : calls'[e] # None /\ calls'[e].pc = "committed" =>
                        calls'[e].session # calls'[d].session
              /\ OneAtATime(d)'
  <2>1. calls[d] # None /\ calls'[d].browser = calls[d].browser
        /\ calls'[d].presented = calls[d].presented
    BY <1>1, <1>9, <1>11
  <2>2. calls'[d].presented # None => calls'[d].presented \in DOMAIN sessions'
    BY <1>7, <2>1 DEF SessionInv
  <2>3. calls'[d].pc = "committed" =>
          /\ calls'[d].session \in DOMAIN sessions' /\ given'[calls'[d].session] = None
          /\ \A e \in Calls \ {d} : calls'[e] # None /\ calls'[e].pc = "committed" =>
               calls'[e].session # calls'[d].session
    <3>1. CASE d = c
      BY <1>8, <1>9, <1>10, <3>1 DEF SessionInv
    <3>2. CASE d # c
      <4>1. calls'[d] = calls[d]
        BY <1>9, <3>2
      <4>2. SUFFICES ASSUME calls[d].pc = "committed"
                     PROVE  /\ calls[d].session \in DOMAIN sessions'
                            /\ given'[calls[d].session] = None
                            /\ \A e \in Calls \ {d} : calls'[e] # None /\ calls'[e].pc = "committed"
                                 => calls'[e].session # calls[d].session
        BY <4>1
      <4>3. calls[d].session \in DOMAIN sessions /\ given[calls[d].session] = None
        BY <2>1, <4>2 DEF SessionInv
      <4>4. \A e \in Calls \ {d} : calls[e] # None /\ calls[e].pc = "committed" =>
              calls[e].session # calls[d].session
        BY <2>1, <4>2 DEF SessionInv
      <4>5. \A e \in Calls \ {d} : calls'[e] # None /\ calls'[e].pc = "committed" =>
              calls'[e].session # calls[d].session
        BY <1>9, <1>10, <4>3, <4>4
      <4> QED
        BY <1>7, <1>8, <4>3, <4>5
    <3> QED
      BY <3>1, <3>2
  <2>4. OneAtATime(d)'
    <3>1. OneAtATime(d)
      BY <2>1 DEF SessionInv
    <3>2. calls'[d].pc = "committed" /\ calls'[d].presented # None
            /\ calls[d].browser \notin overlapped => sessions'[calls'[d].presented].revoked
      <4>1. CASE d = c
        BY <1>1, <1>5, <1>7, <2>1, <4>1 DEF SessionInv
      <4>2. CASE d # c
        BY <1>5, <1>7, <1>9, <2>1, <3>1, <4>2 DEF SessionInv, OneAtATime
      <4> QED
        BY <4>1, <4>2
    <3>3. calls[d].browser \notin overlapped =>
            \A e \in Calls \ {d} : calls'[e] # None => calls'[e].browser # calls[d].browser
      BY <1>1, <1>9, <2>1, <3>1 DEF OneAtATime
    <3>4. calls[d].browser \notin overlapped =>
            (jar'[calls[d].browser].session # None =>
               jar'[calls[d].browser].session = calls'[d].presented)
      BY <1>1, <2>1, <3>1 DEF OneAtATime
    <3>5. overlapped' = overlapped /\ calls'[d].browser = calls[d].browser
      BY <1>1, <2>1
    <3> QED
      BY <3>2, <3>3, <3>4, <3>5 DEF OneAtATime
  <2> QED
    BY <2>2, <2>3, <2>4
<1>12. NoSessionLeftBehind'
  <2>1. ASSUME NEW s \in DOMAIN sessions', given'[s] # None, given'[s] \notin overlapped,
               jar[given'[s]].session # s
        PROVE  sessions'[s].revoked
    <3>1. s # n
      BY <1>8, <2>1
    <3>2. s \in DOMAIN sessions
      BY <1>6, <1>7, <2>1, <3>1 DEF n
    <3> QED
      BY <1>5, <1>7, <1>8, <2>1, <3>2 DEF SessionInv, NoSessionLeftBehind
  <2> QED
    BY <1>1, <2>1 DEF NoSessionLeftBehind
<1>13. \A b \in Browsers : jar'[b].session # None => jar'[b].session \in DOMAIN sessions'
  BY <1>1, <1>7 DEF SessionInv
<1>14. SessionInv'
  BY <1>7, <1>8, <1>11, <1>12, <1>13 DEF SessionInv
<1>15. \A s \in DOMAIN sessions' \ DOMAIN sessions : sessions'[s].owner \in allowed
  BY <1>2, <1>3, <1>6, <1>7 DEF n
<1> QED
  BY <1>14, <1>15

(* The answer replaces the browser's cookie.                               *)
LEMMA AnswerSessions ==
  ASSUME SignInInv, SessionInv, NEW c \in Calls, Answer(c)
  PROVE  SessionInv'
<1> DEFINE call == calls[c]
           b == call.browser
           n == call.session
<1>1. /\ call # None /\ call.pc = "committed"
      /\ jar' = [jar EXCEPT ![b] = [state |-> None, session |-> n]]
      /\ given' = [given EXCEPT ![n] = b]
      /\ calls' = [calls EXCEPT ![c] = None]
      /\ UNCHANGED <<sessions, overlapped>>
  BY DEF Answer, At, End
<1>2. /\ b \in Browsers /\ n \in DOMAIN sessions /\ given[n] = None /\ OneAtATime(c)
  BY <1>1 DEF SignInInv, CallInv, Sound, Callback, SessionInv
<1>3. /\ jar'[b].session = n
      /\ \A d \in Browsers \ {b} : jar'[d] = jar[d]
  BY <1>1, <1>2 DEF SignInInv, IssuedInv
<1>4. /\ calls'[c] = None /\ \A d \in Calls \ {c} : calls'[d] = calls[d]
  BY <1>1 DEF SignInInv, CallInv
<1>5. /\ given' \in Seq(Browsers \cup {None}) /\ Len(given') = Len(given)
      /\ given'[n] = b
      /\ \A s \in DOMAIN sessions \ {n} : given'[s] = given[s]
  <2>1. given \in Seq(Browsers \cup {None}) /\ DOMAIN given = DOMAIN sessions
        /\ DOMAIN given = 1 .. Len(given) /\ Len(given) \in Nat
    BY LenProperties DEF SessionInv
  <2>2. given' \in [1 .. Len(given) -> Browsers \cup {None}]
    BY <1>1, <1>2, <2>1, ElementOfSeq
  <2>3. given' \in Seq(Browsers \cup {None})
    BY <2>1, <2>2, SeqDef
  <2>4. DOMAIN given' = 1 .. Len(given') /\ Len(given') \in Nat
    BY <2>3, LenProperties
  <2>5. Len(given') = Len(given)
    BY <2>1, <2>2, <2>4
  <2> QED
    BY <1>1, <1>2, <2>1, <2>3, <2>5
<1> HIDE DEF b, n
<1>6. ASSUME NEW d \in Calls, calls'[d] # None
      PROVE  /\ calls'[d].presented # None => calls'[d].presented \in DOMAIN sessions'
             /\ calls'[d].pc = "committed" =>
                  /\ calls'[d].session \in DOMAIN sessions' /\ given'[calls'[d].session] = None
                  /\ \A e \in Calls \ {d} : calls'[e] # None /\ calls'[e].pc = "committed" =>
                       calls'[e].session # calls'[d].session
             /\ OneAtATime(d)'
  <2>1. d # c /\ calls'[d] = calls[d] /\ calls[d] # None
    BY <1>4, <1>6
  <2>2. calls[d].pc = "committed" => calls[d].session # n
    BY <1>1, <2>1 DEF SessionInv, n
  <2>3. calls'[d].pc = "committed" =>
          calls'[d].session \in DOMAIN sessions' /\ given'[calls'[d].session] = None
    BY <1>1, <1>5, <2>1, <2>2 DEF SessionInv
  <2>4. calls'[d].pc = "committed" =>
          \A e \in Calls \ {d} : calls'[e] # None /\ calls'[e].pc = "committed" =>
            calls'[e].session # calls'[d].session
    BY <1>4, <2>1 DEF SessionInv
  <2>5. OneAtATime(d)'
    <3>1. OneAtATime(d)
      BY <2>1 DEF SessionInv
    <3>2. calls[d].browser \notin overlapped => calls[d].browser # b
      BY <1>1, <2>1, <3>1 DEF OneAtATime, b
    <3>3. calls[d].browser \in Browsers
      BY <2>1 DEF SignInInv, CallInv, Sound, Callback
    <3>4. calls[d].browser \notin overlapped =>
            jar'[calls[d].browser] = jar[calls[d].browser]
      BY <1>3, <3>2, <3>3
    <3> QED
      BY <1>1, <1>4, <2>1, <3>1, <3>4 DEF OneAtATime
  <2> QED
    BY <1>1, <2>1, <2>3, <2>4, <2>5 DEF SessionInv
<1>7. NoSessionLeftBehind'
  <2>1. ASSUME NEW s \in DOMAIN sessions, given'[s] # None, given'[s] \notin overlapped,
               jar'[given'[s]].session # s
        PROVE  sessions[s].revoked
    <3>1. s # n
      BY <1>3, <1>5, <2>1
    <3>2. given'[s] = given[s]
      BY <1>5, <2>1, <3>1
    <3>3. CASE jar[given[s]].session # s
      BY <2>1, <3>2, <3>3 DEF SessionInv, NoSessionLeftBehind
    <3>4. CASE jar[given[s]].session = s
      <4>1. given[s] \in Browsers
        <5>1. given \in Seq(Browsers \cup {None}) /\ s \in DOMAIN given
          BY LenProperties DEF SessionInv
        <5>2. given[s] \in Browsers \cup {None}
          BY <5>1, ElementOfSeq, LenProperties
        <5> QED
          BY <2>1, <3>2, <5>2
      <4>2. given[s] = b
        BY <1>3, <2>1, <3>2, <3>4, <4>1
      <4>3. s # None
        BY LenProperties, SignInAssumption DEF SessionInv
      <4> QED
        BY <1>1, <1>2, <2>1, <3>2, <3>4, <4>2, <4>3 DEF OneAtATime, b
    <3> QED
      BY <3>3, <3>4
  <2> QED
    BY <1>1, <2>1 DEF NoSessionLeftBehind
<1>8. \A d \in Browsers : jar'[d].session # None => jar'[d].session \in DOMAIN sessions'
  BY <1>1, <1>2, <1>3 DEF SessionInv
<1> QED
  BY <1>1, <1>5, <1>6, <1>7, <1>8 DEF SessionInv

(* Signing out revokes the session the browser gives up.                   *)
LEMMA LogoutSessions ==
  ASSUME SignInInv, SessionInv, NEW b \in Browsers, Logout(b)
  PROVE  SessionInv' /\ DOMAIN sessions' = DOMAIN sessions
<1> DEFINE n == jar[b].session
           row == [sessions[n] EXCEPT !.revoked = TRUE]
<1>1. /\ n # None /\ sessions' = [sessions EXCEPT ![n].revoked = TRUE]
      /\ jar' = [jar EXCEPT ![b].session = None]
      /\ UNCHANGED <<calls, given, overlapped>>
  BY DEF Logout, memory
<1>2. n \in DOMAIN sessions
  BY <1>1 DEF SessionInv
<1>3. \A s \in DOMAIN sessions : sessions[s] \in Session
  BY ElementOfSeq, LenProperties DEF SessionInv
<1>4. row \in Session /\ row.revoked
  BY <1>2, <1>3 DEF Session
<1>5. sessions' = [sessions EXCEPT ![n] = row]
  BY <1>1, <1>2
<1>6. jar'[b].session = None /\ \A d \in Browsers \ {b} : jar'[d] = jar[d]
  BY <1>1 DEF SignInInv, IssuedInv
<1> HIDE DEF n, row
<1>7. /\ DOMAIN sessions' = DOMAIN sessions
      /\ \A s \in DOMAIN sessions :
           sessions'[s] \in Session /\ (sessions[s].revoked \/ s = n => sessions'[s].revoked)
  BY <1>2, <1>3, <1>4, <1>5
<1>8. sessions' \in Seq(Session) /\ Len(sessions') = Len(sessions)
  <2>1. DOMAIN sessions = 1 .. Len(sessions) /\ Len(sessions) \in Nat
    BY LenProperties DEF SessionInv
  <2>2. sessions' \in [1 .. Len(sessions) -> Session]
    BY <1>5, <1>7, <2>1
  <2>3. sessions' \in Seq(Session)
    BY <2>1, <2>2, SeqDef
  <2>4. DOMAIN sessions' = 1 .. Len(sessions') /\ Len(sessions') \in Nat
    BY <2>3, LenProperties
  <2> QED
    BY <1>7, <2>1, <2>3, <2>4
<1>9. ASSUME NEW d \in Calls, calls'[d] # None
      PROVE  /\ calls'[d].presented # None => calls'[d].presented \in DOMAIN sessions'
             /\ calls'[d].pc = "committed" =>
                  /\ calls'[d].session \in DOMAIN sessions' /\ given'[calls'[d].session] = None
                  /\ \A e \in Calls \ {d} : calls'[e] # None /\ calls'[e].pc = "committed" =>
                       calls'[e].session # calls'[d].session
             /\ OneAtATime(d)'
  <2>1. OneAtATime(d) /\ calls[d].browser \in Browsers
    BY <1>1, <1>9 DEF SignInInv, CallInv, Sound, Callback, SessionInv
  <2>2. calls[d].presented # None => calls[d].presented \in DOMAIN sessions
    BY <1>1, <1>9 DEF SessionInv
  <2>3. OneAtATime(d)'
    BY <1>1, <1>6, <1>7, <2>1, <2>2 DEF OneAtATime
  <2>4. calls'[d].pc = "committed" =>
          /\ calls'[d].session \in DOMAIN sessions' /\ given'[calls'[d].session] = None
          /\ \A e \in Calls \ {d} : calls'[e] # None /\ calls'[e].pc = "committed" =>
               calls'[e].session # calls'[d].session
    BY <1>1, <1>7, <1>9 DEF SessionInv
  <2> QED
    BY <1>1, <1>7, <2>2, <2>3, <2>4
<1>10. NoSessionLeftBehind'
  <2>1. ASSUME NEW s \in DOMAIN sessions, given[s] # None, given[s] \notin overlapped,
               jar'[given[s]].session # s
        PROVE  sessions'[s].revoked
    <3>1. CASE s = n
      BY <1>7, <3>1
    <3>2. CASE s # n
      <4>1. given[s] \in Browsers
        <5>1. given \in Seq(Browsers \cup {None}) /\ s \in DOMAIN given
          BY LenProperties DEF SessionInv
        <5>2. given[s] \in Browsers \cup {None}
          BY <5>1, ElementOfSeq, LenProperties
        <5> QED
          BY <2>1, <5>2
      <4>2. jar[given[s]].session # s
        BY <1>6, <2>1, <3>2, <4>1 DEF n
      <4> QED
        BY <1>7, <2>1, <4>2 DEF SessionInv, NoSessionLeftBehind
    <3> QED
      BY <3>1, <3>2
  <2> QED
    BY <1>1, <1>7, <2>1 DEF NoSessionLeftBehind
<1>11. \A d \in Browsers : jar'[d].session # None => jar'[d].session \in DOMAIN sessions'
  BY <1>6, <1>7 DEF SessionInv
<1> QED
  BY <1>1, <1>7, <1>8, <1>9, <1>10, <1>11 DEF SessionInv

LEMMA SessionsKept ==
  ASSUME SignInInv, SessionInv, [Next]_vars
  PROVE  /\ SessionInv'
         /\ \A s \in DOMAIN sessions' \ DOMAIN sessions : sessions'[s].owner \in allowed
<1>1. \A c \in Calls : calls[c] # None => calls[c] \in Callback
  BY DEF SignInInv, CallInv, Sound
<1>2. ASSUME NEW c \in Calls, calls[c] # None, NEW x, calls' = [calls EXCEPT ![c] = x],
             UNCHANGED <<sessions, jar, given, overlapped>>,
             \/ x = None
             \/ /\ x.pc # "committed"
                /\ x.browser = calls[c].browser /\ x.presented = calls[c].presented
      PROVE  SessionInv'
  <2>1. calls'[c] = x /\ \A d \in Calls \ {c} : calls'[d] = calls[d]
    BY <1>2 DEF SignInInv, CallInv
  <2> QED
    BY <1>2, <2>1, QuietSessions
<1>3. ASSUME NEW c \in Calls, ValidateState(c) \/ RefuseState(c) \/ GitHubFails(c)
      PROVE  SessionInv' /\ UNCHANGED sessions
  <2>1. /\ calls[c] # None /\ UNCHANGED <<sessions, jar, given, overlapped>>
        /\ \E pc \in {"exchange", "denied"} : calls' = [calls EXCEPT ![c].pc = pc]
    BY <1>3 DEF ValidateState, RefuseState, GitHubFails, At, Goto, memory
  <2>2. PICK pc \in {"exchange", "denied"} : calls' = [calls EXCEPT ![c].pc = pc]
    BY <2>1
  <2> DEFINE x == [calls[c] EXCEPT !.pc = pc]
  <2>3. x.pc # "committed" /\ x.browser = calls[c].browser /\ x.presented = calls[c].presented
    BY <1>1, <2>1 DEF Callback
  <2>4. calls' = [calls EXCEPT ![c] = x]
    BY <2>2
  <2> HIDE DEF x
  <2> QED
    BY <1>2, <2>1, <2>3, <2>4
<1>4. ASSUME NEW c \in Calls, NEW p \in People, Identify(c, p)
      PROVE  SessionInv' /\ UNCHANGED sessions
  <2> DEFINE pc == IF IsAuthorised(p) THEN "invited" ELSE "denied"
             x == [calls[c] EXCEPT !.person = p, !.pc = pc]
  <2>1. /\ calls[c] # None /\ UNCHANGED <<sessions, jar, given, overlapped>>
        /\ calls' = [calls EXCEPT ![c] = x]
    BY <1>4 DEF Identify, At, memory
  <2>2. pc # "committed"
    OBVIOUS
  <2> HIDE DEF pc
  <2>3. x.pc # "committed" /\ x.browser = calls[c].browser /\ x.presented = calls[c].presented
    BY <1>1, <2>1, <2>2 DEF Callback
  <2> HIDE DEF x
  <2> QED
    BY <1>2, <2>1, <2>3
<1>5. ASSUME NEW c \in Calls, Deny(c) \/ CommitFails(c) \/ AnswerLost(c)
      PROVE  SessionInv' /\ UNCHANGED sessions
  <2>1. /\ calls[c] # None /\ UNCHANGED <<sessions, jar, given, overlapped>>
        /\ calls' = [calls EXCEPT ![c] = None]
    BY <1>5 DEF Deny, CommitFails, AnswerLost, At, End, memory
  <2> QED
    BY <1>2, <2>1
<1>6. ASSUME NEW c \in Calls, NEW b \in Browsers, Arrive(c, b)
      PROVE  SessionInv' /\ UNCHANGED sessions
  BY <1>6, ArriveSessions DEF Arrive
<1>7. ASSUME NEW c \in Calls, Commit(c)
      PROVE  /\ SessionInv'
             /\ \A s \in DOMAIN sessions' \ DOMAIN sessions : sessions'[s].owner \in allowed
  BY <1>7, CommitSessions
<1>8. ASSUME NEW c \in Calls, Answer(c)
      PROVE  SessionInv' /\ UNCHANGED sessions
  BY <1>8, AnswerSessions DEF Answer
<1>9. ASSUME NEW b \in Browsers, Logout(b)
      PROVE  SessionInv' /\ DOMAIN sessions' = DOMAIN sessions
  BY <1>9, LogoutSessions
<1>10. ASSUME UNCHANGED <<sessions, jar, given, overlapped, calls>>
       PROVE  SessionInv'
  BY <1>10, QuietSessions
<1>11. ASSUME NEW b \in Browsers, StartRefused(b) \/ CallbackLimited(b)
       PROVE  SessionInv' /\ UNCHANGED sessions
  BY <1>10, <1>11 DEF StartRefused, CallbackLimited, memory
<1>12. ASSUME NEW b \in Browsers, Start(b)
       PROVE  SessionInv' /\ UNCHANGED sessions
  <2>1. UNCHANGED <<sessions, calls, given, overlapped>>
    BY <1>12 DEF Start, memory
  <2>2. jar' = [jar EXCEPT ![b].state = Len(issued) + 1]
    BY <1>12 DEF Start
  <2>3. \A d \in Browsers : jar'[d].session = jar[d].session
    BY <2>2 DEF SignInInv, IssuedInv
  <2>4. \A c \in Calls : calls[c] # None => calls[c].browser \in Browsers
    BY <1>1 DEF Callback
  <2>5. \A c \in Calls : calls[c] # None => OneAtATime(c)'
    BY <2>1, <2>3, <2>4 DEF SessionInv, OneAtATime
  <2>6. NoSessionLeftBehind'
    <3>1. given \in Seq(Browsers \cup {None}) /\ DOMAIN given = DOMAIN sessions
      BY LenProperties DEF SessionInv
    <3>2. \A s \in DOMAIN sessions : given[s] \in Browsers \cup {None}
      BY <3>1, ElementOfSeq, LenProperties
    <3> QED
      BY <2>1, <2>3, <3>2 DEF SessionInv, NoSessionLeftBehind
  <2> QED
    BY <2>1, <2>3, <2>5, <2>6 DEF SessionInv
<1>13. ASSUME NEW c \in Calls, CallbackDeclined(c) \/ \E i \in Ips : ArriveDeclined(c, i)
       PROVE  SessionInv' /\ UNCHANGED sessions
  BY <1>10, <1>13 DEF ArriveDeclined, CallbackDeclined
<1>14. CASE Tick
  BY <1>10, <1>14 DEF Tick, memory
<1>15. CASE Restart
  <2>1. calls' = [c \in Calls |-> None] /\ UNCHANGED <<sessions, jar, given, overlapped>>
    BY <1>15 DEF Restart, Idle, memory
  <2> QED
    BY <2>1, QuietSessions
<1>16. CASE UNCHANGED vars
  BY <1>10, <1>16 DEF vars
<1> QED
  BY <1>3, <1>4, <1>5, <1>6, <1>7, <1>8, <1>9, <1>11, <1>12, <1>13, <1>14, <1>15, <1>16 DEF Next

LEMMA SignInInvHolds == Spec => [](SignInInv /\ SessionInv)
<1>1. Init => SessionInv
  <2> SUFFICES ASSUME Init
               PROVE  SessionInv
    OBVIOUS
  <2>1. sessions = <<>> /\ given = <<>> /\ DOMAIN sessions = {}
    BY DEF Init
  <2>2. \A b \in Browsers : jar[b].session = None
    BY DEF Init
  <2>3. \A c \in Calls : calls[c] = None
    BY DEF Init, Idle
  <2> QED
    BY <2>1, <2>2, <2>3 DEF SessionInv, NoSessionLeftBehind
<1>2. SessionInv => Len(sessions) \in Nat
  BY LenProperties DEF SessionInv
<1>3. (SignInInv /\ SessionInv) /\ [Next]_vars => (SignInInv /\ SessionInv)'
  BY <1>2, StatesKept, SessionsKept
<1> QED
  BY <1>1, <1>3, FreshSignIn, PTL DEF Spec

(* StateStore.consume and _validate_state: a state is redeemed at most     *)
(* once, by the browser it was issued to and before it expires, however    *)
(* many callbacks carry it at once.                                        *)
THEOREM StateRedeemedOnce == Spec => []RedeemedOnceByItsBrowser
BY SignInInvHolds, PTL DEF SignInInv, RedeemedInv

(* StateStore.issue: a state that may still be redeemed is dropped only    *)
(* when as many newer ones as the store holds were issued.                 *)
THEOREM StateDroppedAtCapacity == Spec => []DroppedOnlyAtCapacity
BY SignInInvHolds, PTL DEF SignInInv, DroppedInv

(* is_authorised: nobody gets a session whom the running process does not  *)
(* allow, whenever the settings changed.                                   *)
THEOREM SessionsAreForTheInvited == Spec => NewSessionsAreInvited
<1>1. (SignInInv /\ SessionInv) /\ [Next]_vars =>
        [\A s \in DOMAIN sessions' \ DOMAIN sessions : sessions'[s].owner \in allowed]_vars
  BY SessionsKept
<1> QED
  BY <1>1, SignInInvHolds, PTL DEF Spec, NewSessionsAreInvited

(* Rotation: of the sessions a browser was given, all but the one it holds *)
(* are revoked, as long as its callbacks are handled one at a time.        *)
THEOREM RotationRevokes == Spec => []NoSessionLeftBehind
BY SignInInvHolds, PTL DEF SessionInv

-----------------------------------------------------------------------------
(***************************************************************************)
(* The limiters' tables.                                                   *)
(***************************************************************************)
LEMMA PoppedIs ==
  ASSUME NEW events \in Seq(Nat), NEW cutoff \in Int
  PROVE  LET n == Popped(events, cutoff) IN
         /\ n \in 0 .. Len(events)
         /\ \A i \in 1 .. n : events[i] <= cutoff
         /\ n < Len(events) => events[n + 1] > cutoff
<1> DEFINE Stops == {n \in 0 .. Len(events) : n < Len(events) => events[n + 1] > cutoff}
<1>1. Len(events) \in Nat /\ \A i \in 1 .. Len(events) : events[i] \in Nat
  OBVIOUS
<1>2. Stops \in SUBSET Nat /\ Len(events) \in Stops
  BY <1>1
<1>3. PICK n \in Stops : \A m \in Stops : n <= m
  BY <1>2, Oldest
<1> HIDE DEF Stops
<1>4. ASSUME NEW i \in 1 .. n PROVE events[i] <= cutoff
  <2>1. n \in 0 .. Len(events)
    BY <1>3 DEF Stops
  <2>2. i - 1 \in 0 .. Len(events) /\ i - 1 < n /\ i - 1 + 1 = i
    BY <2>1, <1>1
  <2>3. i - 1 \notin Stops
    BY <2>1, <2>2, <1>3
  <2> QED
    BY <2>2, <2>3, <1>1 DEF Stops
<1>5. \E m \in 0 .. Len(events) : /\ \A i \in 1 .. m : events[i] <= cutoff
                                  /\ m < Len(events) => events[m + 1] > cutoff
  BY <1>3, <1>4 DEF Stops
<1> QED
  BY <1>5 DEF Popped

LEMMA RecentIs ==
  ASSUME NEW T \in SUBSET Nat, NEW events \in Seq(T), NEW cutoff \in Int
  PROVE  LET n == Popped(events, cutoff) IN
         /\ Recent(events, cutoff) \in Seq(T)
         /\ Len(Recent(events, cutoff)) = Len(events) - n
         /\ \A i \in 1 .. Len(events) - n : Recent(events, cutoff)[i] = events[n + i]
<1> DEFINE n == Popped(events, cutoff)
<1>1. Len(events) \in Nat /\ \A i \in 1 .. Len(events) : events[i] \in T
  BY LenProperties, ElementOfSeq
<1>2. events \in Seq(Nat)
  BY SeqMonotonic
<1>3. n \in 0 .. Len(events)
  BY <1>2, PoppedIs
<1>4. Recent(events, cutoff) = SubSeq(events, n + 1, Len(events))
  BY DEF Recent
<1> HIDE DEF n
<1>5. \A i \in n + 1 .. Len(events) : events[i] \in T
  BY <1>1, <1>3
<1> DEFINE m == Len(events)
           first == n + 1
           r == SubSeq(events, first, m)
<1>6. first \in Int /\ m \in Int
  BY <1>1, <1>3
<1> HIDE DEF m, first
<1>7. \A i \in first .. m : events[i] \in T
  BY <1>5 DEF m, first
<1>8. /\ r \in Seq(T) /\ Len(r) = IF first <= m THEN m - first + 1 ELSE 0
      /\ \A i \in 1 .. m - first + 1 : r[i] = events[first + i - 1]
  BY <1>6, <1>7, SubSeqProperties
<1>9. Recent(events, cutoff) = r
  BY <1>4 DEF m, first
<1> HIDE DEF r
<1> QED
  BY <1>1, <1>3, <1>8, <1>9 DEF n, m, first

(* The later it is, the fewer hits are recent.                             *)
LEMMA RecentShrinks ==
  ASSUME NEW events \in Seq(Nat), NEW cutoff \in Int, NEW later \in Int, cutoff <= later
  PROVE  Len(Recent(events, later)) <= Len(Recent(events, cutoff))
<1> DEFINE n == Popped(events, cutoff)
           m == Popped(events, later)
<1>1. n \in 0 .. Len(events) /\ \A i \in 1 .. n : events[i] <= cutoff
  BY PoppedIs
<1>2. m \in 0 .. Len(events) /\ (m < Len(events) => events[m + 1] > later)
  BY PoppedIs
<1>3. Len(Recent(events, cutoff)) = Len(events) - n /\ Len(Recent(events, later)) = Len(events) - m
  BY RecentIs
<1> HIDE DEF n, m
<1>4. n <= m
  <2> SUFFICES ASSUME m < n PROVE FALSE
    BY <1>1, <1>2
  <2>1. m + 1 \in 1 .. n /\ m < Len(events) /\ events[m + 1] \in Nat
    BY <1>1, <1>2
  <2> QED
    BY <2>1, <1>1, <1>2
<1> QED
  BY <1>1, <1>2, <1>3, <1>4

(* Pruning twice at one moment is pruning once.                            *)
LEMMA RecentAgain ==
  ASSUME NEW events \in Seq(Nat), NEW cutoff \in Int
  PROVE  Len(Recent(Recent(events, cutoff), cutoff)) = Len(Recent(events, cutoff))
<1> DEFINE n == Popped(events, cutoff)
           r == Recent(events, cutoff)
           m == Popped(r, cutoff)
<1>1. n \in 0 .. Len(events) /\ (n < Len(events) => events[n + 1] > cutoff)
  BY PoppedIs
<1>2. /\ r \in Seq(Nat) /\ Len(r) = Len(events) - n
      /\ \A i \in 1 .. Len(events) - n : r[i] = events[n + i]
  BY RecentIs
<1> HIDE DEF r
<1>3. m \in 0 .. Len(r) /\ \A i \in 1 .. m : r[i] <= cutoff
  BY <1>2, PoppedIs
<1>4. Len(Recent(r, cutoff)) = Len(r) - m
  BY <1>2, RecentIs
<1> HIDE DEF n, m
<1>5. m = 0
  <2> SUFFICES ASSUME m # 0 PROVE FALSE
    OBVIOUS
  <2>1. 1 \in 1 .. m /\ 1 \in 1 .. Len(events) - n /\ n < Len(events)
    BY <1>1, <1>2, <1>3
  <2>2. r[1] = events[n + 1] /\ events[n + 1] \in Nat
    BY <2>1, <1>1, <1>2
  <2> QED
    BY <2>1, <2>2, <1>1, <1>3
<1> QED
  BY <1>2, <1>4, <1>5 DEF r

IsTable(table, t) == DOMAIN table \subseteq Ips /\ \A i \in DOMAIN table : table[i] \in Seq(0 .. t)

(* _prune_locked, whichever keys it evicts.                                *)
LEMMA PrunedIs ==
  ASSUME NEW table, NEW key, NEW t, NEW window, NEW new \in Pruned(table, key, t, window)
  PROVE  /\ key \in DOMAIN new /\ DOMAIN new \subseteq DOMAIN table \cup {key}
         /\ \A k \in DOMAIN new :
              new[k] = IF k \in DOMAIN table THEN Recent(table[k], t - window) ELSE <<>>
BY DEF Pruned

LEMMA PrunedTyped ==
  ASSUME NEW t \in Nat, NEW window \in Nat, NEW table, IsTable(table, t), NEW key \in Ips,
         NEW new \in Pruned(table, key, t, window)
  PROVE  IsTable(new, t) /\ key \in DOMAIN new
<1>1. /\ key \in DOMAIN new /\ DOMAIN new \subseteq DOMAIN table \cup {key}
      /\ \A k \in DOMAIN new :
            new[k] = IF k \in DOMAIN table THEN Recent(table[k], t - window) ELSE <<>>
  BY PrunedIs
<1>2. ASSUME NEW k \in DOMAIN table PROVE Recent(table[k], t - window) \in Seq(0 .. t)
  <2>1. table[k] \in Seq(0 .. t) /\ 0 .. t \in SUBSET Nat /\ t - window \in Int
    BY DEF IsTable
  <2> QED
    BY <2>1, RecentIs
<1>3. <<>> \in Seq(0 .. t)
  OBVIOUS
<1> QED
  BY <1>1, <1>2, <1>3 DEF IsTable

LEMMA HitTyped ==
  ASSUME NEW t \in Nat, NEW table, IsTable(table, t), NEW key \in DOMAIN table, NEW limit
  PROVE  IsTable(Hit(table, key, t, limit), t)
<1>1. table[key] \in Seq(0 .. t) /\ t \in 0 .. t
  BY DEF IsTable
<1>2. Append(table[key], t) \in Seq(0 .. t)
  BY <1>1
<1>3. /\ DOMAIN Hit(table, key, t, limit) = DOMAIN table
      /\ \A k \in DOMAIN table : Hit(table, key, t, limit)[k] = table[k]
                                 \/ (k = key /\ Hit(table, key, t, limit)[k] = Append(table[key], t))
  BY DEF Hit
<1> QED
  BY <1>2, <1>3 DEF IsTable

-----------------------------------------------------------------------------
(* What the types need beyond the invariants above.                        *)
BoundsInv ==
  /\ now \in 0 .. MaxTime /\ Cardinality(outstanding) <= MaxOutstanding
  /\ IsTable(starts, now) /\ IsTable(failures, now)
  /\ Len(sessions) <= MaxSessions
  /\ \A c \in Calls : calls[c] # None /\ calls[c].session # None =>
       calls[c].session \in DOMAIN sessions

(* A thread handles one callback at a time.                                *)
DeclinedInv ==
  /\ declined \in [Calls -> Ips \cup {None}]
  /\ \A c \in Calls : declined[c] = None \/ calls[c] = None

LEMMA TypesFollow == SignInInv /\ SessionInv /\ BoundsInv /\ DeclinedInv => TypeOK
<1> SUFFICES ASSUME SignInInv, SessionInv, BoundsInv, DeclinedInv PROVE TypeOK
  OBVIOUS
<1>1. /\ issued \in Seq([to : Browsers, expires : Nat]) /\ Len(issued) <= MaxStates
      /\ Len(issued) \in Nat /\ DOMAIN issued = 1 .. Len(issued) /\ DOMAIN issued \subseteq States
  BY LenProperties, SignInAssumption DEF SignInInv, IssuedInv, States
<1>2. /\ sessions \in Seq(Session) /\ Len(sessions) \in Nat
      /\ DOMAIN sessions \subseteq SessionIds /\ Len(given) = Len(sessions)
  BY LenProperties, SignInAssumption DEF SessionInv, BoundsInv, SessionIds
<1>3. jar \in [Browsers -> [state : States \cup {None}, session : SessionIds \cup {None}]]
  <2>1. jar \in [Browsers -> [state : Nat \cup {None}, session : Nat \cup {None}]]
    BY DEF SignInInv, IssuedInv
  <2>2. ASSUME NEW b \in Browsers
        PROVE  jar[b] \in [state : States \cup {None}, session : SessionIds \cup {None}]
    <3>1. jar[b].state # None => jar[b].state \in States
      BY <1>1 DEF SignInInv, IssuedInv
    <3>2. jar[b].session # None => jar[b].session \in SessionIds
      BY <1>2 DEF SessionInv
    <3> QED
      BY <2>1, <3>1, <3>2
  <2> QED
    BY <2>1, <2>2
<1>4. calls \in [Calls -> Call \cup {None}]
  <2>1. ASSUME NEW c \in Calls, calls[c] # None PROVE calls[c] \in Call
    <3>1. Sound(calls[c]) /\ calls[c] \in Callback
      BY <2>1 DEF SignInInv, CallInv, Sound
    <3>2. calls[c].state \in States /\ calls[c].cookie \in States \cup {None}
      BY <3>1, <1>1 DEF Sound
    <3>3. /\ calls[c].presented \in SessionIds \cup {None}
          /\ calls[c].session \in SessionIds \cup {None}
      BY <2>1, <1>2 DEF SessionInv, BoundsInv
    <3> QED
      BY <3>1, <3>2, <3>3 DEF Callback, Call
  <2> QED
    BY <2>1 DEF SignInInv, CallInv
<1>5. \A table \in {starts, failures} :
         DOMAIN table \subseteq Ips /\ \A i \in DOMAIN table : table[i] \in Seq(0 .. now)
  BY DEF BoundsInv, IsTable
<1> QED
  BY <1>1, <1>2, <1>3, <1>4, <1>5 DEF TypeOK, BoundsInv, DeclinedInv, SignInInv, IssuedInv

(* issue: room is made before the new state comes in.                      *)
LEMMA StoreBounded ==
  ASSUME SignInInv, BoundsInv
  PROVE  /\ \A n : Cardinality(Issued(n)) <= MaxOutstanding
         /\ \A n : Cardinality(Consumed(n)) <= MaxOutstanding
         /\ Cardinality(outstanding) \in Nat
<1>1. IsFiniteSet(outstanding) /\ outstanding \subseteq Nat
  <2>1. Len(issued) \in Nat /\ DOMAIN issued = 1 .. Len(issued)
    BY LenProperties DEF SignInInv, IssuedInv
  <2>2. IsFiniteSet(1 .. Len(issued))
    BY <2>1, FS_Interval
  <2> QED
    BY <2>1, <2>2, FS_Subset DEF SignInInv, IssuedInv
<1>2. /\ IsFiniteSet(Unexpired) /\ Unexpired \in SUBSET Nat
      /\ Cardinality(Unexpired) <= Cardinality(outstanding)
  BY <1>1, FS_Subset DEF Unexpired
<1>3. Cardinality(outstanding) \in Nat /\ Cardinality(Unexpired) \in Nat
  BY <1>1, <1>2, FS_CardinalityType
<1>4. Cardinality(outstanding) <= MaxOutstanding /\ MaxOutstanding \in Nat \ {0}
  BY SignInAssumption DEF BoundsInv
<1>5. ASSUME NEW n PROVE Cardinality(Consumed(n)) <= MaxOutstanding
  <2>1. CASE Expired(n)
    BY <1>4, <2>1 DEF Consumed
  <2>2. CASE ~ Expired(n)
    <3>1. Cardinality(Unexpired \ {n}) <= Cardinality(Unexpired)
          /\ Cardinality(Unexpired \ {n}) \in Nat
      BY <1>2, FS_Subset, FS_CardinalityType
    <3> QED
      BY <1>2, <1>3, <1>4, <2>2, <3>1 DEF Consumed
  <2> QED
    BY <2>1, <2>2
<1>6. ASSUME NEW n PROVE Cardinality(Issued(n)) <= MaxOutstanding
  <2> DEFINE oldest == CHOOSE o \in Unexpired : \A p \in Unexpired : o <= p
             kept == IF Cardinality(Unexpired) >= MaxOutstanding THEN Unexpired \ {oldest}
                     ELSE Unexpired
  <2>1. IsFiniteSet(kept) /\ Cardinality(kept) \in Nat /\ Cardinality(kept) < MaxOutstanding
    <3>1. CASE Cardinality(Unexpired) >= MaxOutstanding
      <4>1. Unexpired # {}
        BY <3>1, <1>4, FS_EmptySet
      <4>2. \E o \in Unexpired : \A p \in Unexpired : o <= p
        BY <4>1, <1>2, Oldest
      <4>3. oldest \in Unexpired
        BY <4>2, Zenon
      <4> HIDE DEF oldest
      <4>4. /\ IsFiniteSet(Unexpired \ {oldest})
            /\ Cardinality(Unexpired \ {oldest}) = Cardinality(Unexpired) - 1
        BY <4>3, <1>2, FS_RemoveElement
      <4> QED
        BY <4>4, <3>1, <1>2, <1>3, <1>4
    <3>2. CASE ~ (Cardinality(Unexpired) >= MaxOutstanding)
      <4> HIDE DEF oldest
      <4> QED
        BY <3>2, <1>2, <1>3, <1>4
    <3> QED
      BY <3>1, <3>2
  <2>2. Issued(n) = kept \cup {n}
    BY DEF Issued
  <2> HIDE DEF kept
  <2>4. \/ Cardinality(kept \cup {n}) = Cardinality(kept) + 1
        \/ Cardinality(kept \cup {n}) = Cardinality(kept)
    BY <2>1, FS_AddElement
  <2> QED
    BY <2>1, <2>2, <2>4, <1>4
<1> QED
  BY <1>3, <1>5, <1>6

(* The part of the bounds that most steps leave alone.                     *)
LEMMA QuietBounds ==
  ASSUME SignInInv, BoundsInv, UNCHANGED <<now, sessions>>,
         outstanding' = outstanding \/ \E n : outstanding' \in {Issued(n), Consumed(n)},
         IsTable(starts', now), IsTable(failures', now),
         \A c \in Calls : \/ calls'[c] \in {calls[c], None}
                          \/ calls'[c].session = None
                          \/ calls[c] # None /\ calls'[c].session = calls[c].session
  PROVE  BoundsInv'
<1>1. Cardinality(outstanding') <= MaxOutstanding
  BY StoreBounded DEF BoundsInv
<1>2. \A c \in Calls : calls'[c] # None /\ calls'[c].session # None =>
        calls'[c].session \in DOMAIN sessions
  BY DEF BoundsInv
<1> QED
  BY <1>1, <1>2 DEF BoundsInv, IsTable

LEMMA CountFailureTyped ==
  ASSUME now \in Nat, NEW i \in Ips, NEW table, IsTable(table, now), CountFailure(i, table)
  PROVE  IsTable(failures', now)
<1>1. PICK pruned \in Pruned(table, i, now, FailureWindow) :
         failures' = Hit(pruned, i, now, FailureLimit)
  BY DEF CountFailure
<1>2. IsTable(pruned, now) /\ i \in DOMAIN pruned
  BY PrunedTyped, SignInAssumption
<1> QED
  BY <1>1, <1>2, HitTyped

LEMMA DeclinedKept ==
  ASSUME SignInInv, DeclinedInv, [Next]_vars
  PROVE  DeclinedInv'
<1>1. calls = [c \in Calls |-> calls[c]]
  BY DEF SignInInv, CallInv
<1>2. ASSUME NEW c \in Calls, UNCHANGED declined, declined[c] = None \/ calls'[c] = None,
             \A d \in Calls \ {c} : calls'[d] = calls[d]
      PROVE  DeclinedInv'
  BY <1>2 DEF DeclinedInv
<1>3. ASSUME NEW c \in Calls, calls[c] # None, UNCHANGED declined,
             \E x : calls' = [calls EXCEPT ![c] = x]
      PROVE  DeclinedInv'
  BY <1>1, <1>2, <1>3 DEF DeclinedInv
<1>4. ASSUME UNCHANGED <<declined, calls>> PROVE DeclinedInv'
  BY <1>4 DEF DeclinedInv
<1>5. ASSUME NEW b \in Browsers, StartRefused(b) \/ Start(b) \/ CallbackLimited(b) \/ Logout(b)
      PROVE  DeclinedInv'
  BY <1>4, <1>5 DEF StartRefused, Start, CallbackLimited, Logout, memory
<1>6. ASSUME NEW c \in Calls, NEW i \in Ips, ArriveDeclined(c, i) PROVE DeclinedInv'
  BY <1>6 DEF ArriveDeclined, Free, DeclinedInv
<1>7. ASSUME NEW c \in Calls, CallbackDeclined(c) PROVE DeclinedInv'
  BY <1>7 DEF CallbackDeclined, DeclinedInv
<1>8. ASSUME NEW c \in Calls, NEW b \in Browsers, Arrive(c, b) PROVE DeclinedInv'
  <2>1. declined[c] = None /\ UNCHANGED declined /\ \E x : calls' = [calls EXCEPT ![c] = x]
    BY <1>8 DEF Arrive, Free
  <2> QED
    BY <1>1, <1>2, <2>1
<1>9. ASSUME NEW c \in Calls, NEW p \in People, Identify(c, p) PROVE DeclinedInv'
  <2>1. /\ calls[c] # None /\ UNCHANGED declined
        /\ calls' = [calls EXCEPT ![c] = [@ EXCEPT !.person = p,
                        !.pc = IF IsAuthorised(p) THEN "invited" ELSE "denied"]]
    BY <1>1, <1>9 DEF Identify, At, memory
  <2> QED
    BY <1>3, <2>1
<1>10. ASSUME NEW c \in Calls, ValidateState(c) \/ RefuseState(c) \/ GitHubFails(c)
       PROVE  DeclinedInv'
  <2>1. calls[c] # None /\ UNCHANGED declined /\ \E pc : calls' = [calls EXCEPT ![c].pc = pc]
    BY <1>10 DEF ValidateState, RefuseState, GitHubFails, At, Goto, memory
  <2> QED
    BY <1>3, <2>1
<1>11. ASSUME NEW c \in Calls, Commit(c) PROVE DeclinedInv'
  <2>1. /\ calls[c] # None /\ UNCHANGED declined
        /\ calls' = [calls EXCEPT ![c] = [@ EXCEPT !.pc = "committed", !.session = Len(sessions) + 1]]
    BY <1>1, <1>11 DEF Commit, At
  <2> QED
    BY <1>3, <2>1
<1>12. ASSUME NEW c \in Calls, Deny(c) \/ CommitFails(c) \/ Answer(c) \/ AnswerLost(c)
       PROVE  DeclinedInv'
  <2>1. calls[c] # None /\ UNCHANGED declined /\ calls' = [calls EXCEPT ![c] = None]
    BY <1>12 DEF Deny, CommitFails, Answer, AnswerLost, At, End, memory
  <2> QED
    BY <1>3, <2>1
<1>13. CASE Tick
  BY <1>4, <1>13 DEF Tick, memory
<1>14. CASE Restart
  BY <1>14 DEF Restart, Idle, DeclinedInv
<1>15. CASE UNCHANGED vars
  BY <1>4, <1>15 DEF vars
<1> QED
  BY <1>5, <1>6, <1>7, <1>8, <1>9, <1>10, <1>11, <1>12, <1>13, <1>14, <1>15 DEF Next

LEMMA BoundsKept ==
  ASSUME SignInInv, SessionInv, BoundsInv, DeclinedInv, [Next]_vars
  PROVE  BoundsInv'
<1>1. /\ calls = [c \in Calls |-> calls[c]] /\ \A c \in Calls : calls[c] # None => calls[c] \in Callback
      /\ now \in Nat /\ IsTable(starts, now) /\ IsTable(failures, now)
      /\ Ip \in [Browsers -> Ips] /\ StartWindow \in Nat /\ FailureWindow \in Nat
  BY SignInAssumption DEF SignInInv, IssuedInv, CallInv, Sound, BoundsInv
<1>2. ASSUME NEW c \in Calls, NEW x, calls' = [calls EXCEPT ![c] = x],
             x = None \/ x.session = None \/ (calls[c] # None /\ x.session = calls[c].session)
      PROVE  \A d \in Calls : \/ calls'[d] \in {calls[d], None}
                              \/ calls'[d].session = None
                              \/ calls[d] # None /\ calls'[d].session = calls[d].session
  BY <1>1, <1>2
<1>3. ASSUME NEW c \in Calls, NEW pc, calls[c] # None, calls' = [calls EXCEPT ![c].pc = pc]
      PROVE  \A d \in Calls : \/ calls'[d] \in {calls[d], None}
                              \/ calls'[d].session = None
                              \/ calls[d] # None /\ calls'[d].session = calls[d].session
  <2> DEFINE x == [calls[c] EXCEPT !.pc = pc]
  <2>1. calls' = [calls EXCEPT ![c] = x] /\ x.session = calls[c].session
    BY <1>1, <1>3 DEF Callback
  <2> HIDE DEF x
  <2> QED
    BY <2>1, <1>2, <1>3
<1>4. ASSUME NEW b \in Browsers, StartRefused(b) \/ Start(b) \/ CallbackLimited(b)
      PROVE  BoundsInv'
  <2>1. IsTable(starts', now) /\ IsTable(failures', now)
    BY <1>1, <1>4, PrunedTyped, HitTyped DEF StartRefused, Start, CallbackLimited
  <2>2. UNCHANGED <<now, sessions, calls>>
    BY <1>4 DEF StartRefused, Start, CallbackLimited
  <2>3. outstanding' = outstanding \/ \E n : outstanding' = Issued(n)
    BY <1>4 DEF StartRefused, Start, CallbackLimited
  <2> QED
    BY <2>1, <2>2, <2>3, QuietBounds
<1>5. ASSUME NEW c \in Calls, CallbackDeclined(c) \/ \E i \in Ips : ArriveDeclined(c, i)
      PROVE  BoundsInv'
  <2>1. CASE CallbackDeclined(c)
    <3>1. declined[c] \in Ips /\ CountFailure(declined[c], failures)
      BY <2>1 DEF CallbackDeclined, DeclinedInv
    <3>2. UNCHANGED <<now, sessions, calls, outstanding, starts>>
      BY <2>1 DEF CallbackDeclined
    <3> QED
      BY <1>1, <3>1, <3>2, CountFailureTyped, QuietBounds
  <2>2. ASSUME NEW i \in Ips, ArriveDeclined(c, i) PROVE BoundsInv'
    <3>1. IsTable(failures', now)
      BY <1>1, <2>2, PrunedTyped DEF ArriveDeclined
    <3>2. UNCHANGED <<now, sessions, calls, outstanding, starts>>
      BY <2>2 DEF ArriveDeclined
    <3> QED
      BY <1>1, <3>1, <3>2, QuietBounds
  <2> QED
    BY <1>5, <2>1, <2>2
<1>6. ASSUME NEW c \in Calls, NEW b \in Browsers, Arrive(c, b) PROVE BoundsInv'
  <2>1. IsTable(failures', now)
    BY <1>1, <1>6, PrunedTyped DEF Arrive
  <2>2. UNCHANGED <<now, sessions, outstanding, starts>>
    BY <1>6 DEF Arrive
  <2>3. PICK n \in DOMAIN issued : calls' = [calls EXCEPT ![c] =
            [pc |-> "checked", browser |-> b, state |-> n, cookie |-> jar[b].state,
             presented |-> jar[b].session, person |-> None, session |-> None]]
    BY <1>6 DEF Arrive
  <2>4. \A d \in Calls : calls'[d] = calls[d] \/ calls'[d].session = None
    BY <2>3, <1>1
  <2> QED
    BY <1>1, <2>1, <2>2, <2>4, QuietBounds
<1>7. ASSUME NEW c \in Calls, ValidateState(c) \/ RefuseState(c) \/ GitHubFails(c)
      PROVE  BoundsInv'
  <2>1. /\ calls[c] # None /\ UNCHANGED <<now, sessions, starts, failures>>
        /\ \E pc : calls' = [calls EXCEPT ![c].pc = pc]
    BY <1>7 DEF ValidateState, RefuseState, GitHubFails, At, Goto, limiters
  <2>2. outstanding' = outstanding \/ \E n : outstanding' = Consumed(n)
    BY <1>7 DEF ValidateState, RefuseState, GitHubFails
  <2> QED
    BY <1>1, <1>3, <2>1, <2>2, QuietBounds
<1>8. ASSUME NEW c \in Calls, NEW p \in People, Identify(c, p) PROVE BoundsInv'
  <2> DEFINE x == [calls[c] EXCEPT !.person = p,
                                   !.pc = IF IsAuthorised(p) THEN "invited" ELSE "denied"]
  <2>1. /\ calls[c] # None /\ UNCHANGED <<now, sessions, starts, failures, outstanding>>
        /\ calls' = [calls EXCEPT ![c] = x] /\ x.session = calls[c].session
    BY <1>1, <1>8 DEF Identify, At, limiters, Callback
  <2> HIDE DEF x
  <2> QED
    BY <1>1, <1>2, <2>1, QuietBounds
<1>9. ASSUME NEW c \in Calls, Deny(c) PROVE BoundsInv'
  <2>1. /\ calls[c] # None /\ UNCHANGED <<now, sessions, starts, outstanding>>
        /\ calls' = [calls EXCEPT ![c] = None]
        /\ CountFailure(Ip[calls[c].browser], failures)
    BY <1>9 DEF Deny, At, End
  <2>2. Ip[calls[c].browser] \in Ips
    BY <1>1, <2>1 DEF Callback
  <2>3. IsTable(failures', now)
    BY <1>1, <2>1, <2>2, CountFailureTyped
  <2> QED
    BY <1>1, <1>2, <2>1, <2>3, QuietBounds
<1>10. ASSUME NEW c \in Calls, CommitFails(c) \/ Answer(c) \/ AnswerLost(c)
       PROVE  BoundsInv'
  <2>1. /\ UNCHANGED <<now, sessions, starts, failures, outstanding>>
        /\ calls' = [calls EXCEPT ![c] = None]
    BY <1>10 DEF CommitFails, Answer, AnswerLost, End, limiters
  <2> QED
    BY <1>1, <1>2, <2>1, QuietBounds
<1>11. ASSUME NEW c \in Calls, Commit(c) PROVE BoundsInv'
  <2> DEFINE rows == Rotated(sessions, calls[c].presented)
             row == NewSession(calls[c].person)
  <2>1. /\ calls[c] # None /\ Len(sessions) < MaxSessions /\ sessions' = Append(rows, row)
        /\ calls' = [calls EXCEPT ![c].pc = "committed", ![c].session = Len(sessions) + 1]
        /\ UNCHANGED <<now, starts, failures, outstanding>>
    BY <1>11 DEF Commit, At, limiters
  <2>2. /\ Len(sessions) \in Nat /\ DOMAIN sessions = 1 .. Len(sessions)
        /\ sessions \in Seq(Session)
    BY LenProperties DEF SessionInv
  <2>3. DOMAIN rows = 1 .. Len(sessions) /\ rows = [s \in 1 .. Len(sessions) |-> rows[s]]
    BY <2>2, LenProperties DEF Rotated
  <2>4. Len(sessions') = Len(sessions) + 1 /\ DOMAIN sessions' = 1 .. Len(sessions) + 1
    <3> DEFINE T == {rows[s] : s \in 1 .. Len(sessions)} \cup {row}
    <3>1. rows \in [1 .. Len(sessions) -> T] /\ row \in T
      BY <2>3
    <3> HIDE DEF T
    <3>2. rows \in Seq(T) /\ Len(rows) = Len(sessions)
      BY <3>1, <2>2
    <3> QED
      BY <2>1, <2>2, <3>1, <3>2, AppendProperties
  <2>5. Len(sessions') <= MaxSessions
    BY <2>1, <2>2, <2>4, SignInAssumption
  <2>6. \A d \in Calls : calls'[d] = calls[d] \/ (d = c /\ calls'[d].session = Len(sessions) + 1)
    BY <1>1, <2>1 DEF Callback
  <2>7. \A d \in Calls : calls'[d] # None /\ calls'[d].session # None =>
           calls'[d].session \in DOMAIN sessions'
    BY <2>2, <2>4, <2>6 DEF BoundsInv
  <2> QED
    BY <1>1, <2>1, <2>5, <2>7 DEF BoundsInv, IsTable
<1>12. ASSUME NEW b \in Browsers, Logout(b) PROVE BoundsInv'
  <2>1. /\ sessions' = [sessions EXCEPT ![jar[b].session].revoked = TRUE]
        /\ UNCHANGED <<now, starts, failures, outstanding, calls>>
    BY <1>12 DEF Logout, limiters
  <2>2. Len(sessions') = Len(sessions) /\ DOMAIN sessions' = DOMAIN sessions
    <3>1. jar[b].session \in DOMAIN sessions /\ sessions \in Seq(Session)
      BY <1>12 DEF Logout, SessionInv
    <3> QED
      BY <2>1, <3>1
  <2> QED
    BY <2>1, <2>2 DEF BoundsInv, IsTable
<1>13. CASE Tick
  <2>1. now' = now + 1 /\ now < MaxTime /\ UNCHANGED <<sessions, starts, failures, outstanding, calls>>
    BY <1>13 DEF Tick, limiters
  <2>2. now' \in 0 .. MaxTime /\ 0 .. now \subseteq 0 .. now'
    BY <1>1, <2>1, SignInAssumption
  <2>3. ASSUME NEW table, IsTable(table, now) PROVE IsTable(table, now')
    BY <2>2, <2>3, SeqMonotonic DEF IsTable
  <2> QED
    BY <1>1, <2>1, <2>2, <2>3 DEF BoundsInv
<1>14. CASE Restart
  <2>1. /\ outstanding' = {} /\ starts' = NoEvents /\ failures' = NoEvents
        /\ calls' = [c \in Calls |-> None] /\ UNCHANGED <<now, sessions>>
    BY <1>14 DEF Restart, Idle
  <2>2. Cardinality({}) <= MaxOutstanding
    BY FS_EmptySet, SignInAssumption
  <2>3. IsTable(NoEvents, now)
    BY DEF NoEvents, IsTable
  <2> QED
    BY <2>1, <2>2, <2>3 DEF BoundsInv
<1>15. CASE UNCHANGED vars
  BY <1>15 DEF vars, BoundsInv, IsTable
<1> QED
  BY <1>4, <1>5, <1>6, <1>7, <1>8, <1>9, <1>10, <1>11, <1>12, <1>13, <1>14, <1>15 DEF Next

-----------------------------------------------------------------------------
(* An address whose budget is spent at this moment: what it has failed     *)
(* since the last failure recorded and the callbacks of it that are still  *)
(* in flight are together fewer than there can be callbacks at once: one   *)
(* more was the failure recorded.                                          *)
Spent(table, i, t) ==
  i \in DOMAIN table /\ Len(Recent(table[i], t - FailureWindow)) >= FailureLimit

InFlight(i) == {c \in Calls : declined[c] = i \/ (calls[c] # None /\ Ip[calls[c].browser] = i)}

OverrunInv ==
  /\ overrun \in [Ips -> Nat]
  /\ \A i \in Ips :
       /\ overrun[i] = 0 \/ overrun[i] < Cardinality(Calls)
       /\ Spent(failures, i, now) => overrun[i] + Cardinality(InFlight(i)) < Cardinality(Calls)

LEMMA InFlightCounted ==
  /\ Cardinality(Calls) \in Nat
  /\ \A i : /\ IsFiniteSet(InFlight(i)) /\ Cardinality(InFlight(i)) \in Nat
            /\ Cardinality(InFlight(i)) <= Cardinality(Calls)
BY SignInAssumption, FS_Subset, FS_CardinalityType DEF InFlight

(* An address is limited when its budget is spent; pruning spends nobody's.*)
LEMMA PrunedSpends ==
  ASSUME NEW t \in Nat, NEW table, IsTable(table, t), NEW key \in Ips,
         NEW new \in Pruned(table, key, t, FailureWindow)
  PROVE  /\ IsTable(new, t) /\ key \in DOMAIN new
         /\ Limited(new, key, FailureLimit) <=> Spent(table, key, t)
         /\ \A i \in Ips : Spent(new, i, t) => Spent(table, i, t)
         /\ Spent(new, key, t) <=> Limited(new, key, FailureLimit)
<1> DEFINE cutoff == t - FailureWindow
<1>1. /\ key \in DOMAIN new /\ DOMAIN new \subseteq DOMAIN table \cup {key}
      /\ \A k \in DOMAIN new :
           new[k] = IF k \in DOMAIN table THEN Recent(table[k], cutoff) ELSE <<>>
  BY PrunedIs
<1>2. FailureWindow \in Nat /\ FailureLimit \in Nat \ {0} /\ cutoff \in Int
  BY SignInAssumption
<1>3. IsTable(new, t)
  BY <1>2, PrunedTyped
<1> HIDE DEF cutoff
<1>4. \A k \in DOMAIN table : table[k] \in Seq(Nat)
  <2>1. 0 .. t \subseteq Nat
    OBVIOUS
  <2> QED
    BY <2>1, SeqMonotonic DEF IsTable
<1>5. \A k \in DOMAIN table :
        Len(Recent(Recent(table[k], cutoff), cutoff)) = Len(Recent(table[k], cutoff))
  BY <1>2, <1>4, RecentAgain
<1>6. Len(Recent(<<>>, cutoff)) = 0 /\ Len(<<>>) = 0
  <2>1. <<>> \in Seq(Nat) /\ Len(<<>>) = 0 /\ Nat \in SUBSET Nat
    OBVIOUS
  <2>2. /\ Popped(<<>>, cutoff) \in 0 .. 0
        /\ Len(Recent(<<>>, cutoff)) = 0 - Popped(<<>>, cutoff)
    BY <1>2, <2>1, PoppedIs, RecentIs
  <2> QED
    BY <2>1, <2>2
<1>7. \A k \in DOMAIN new : Len(Recent(new[k], cutoff)) = Len(new[k])
  BY <1>1, <1>5, <1>6
<1>8. \A k \in DOMAIN new : Len(new[k]) >= FailureLimit =>
        k \in DOMAIN table /\ Len(Recent(table[k], cutoff)) >= FailureLimit
  BY <1>1, <1>2, <1>6
<1>9. Spent(table, key, t) => Len(new[key]) >= FailureLimit
  BY <1>1 DEF Spent, cutoff
<1> QED
  BY <1>1, <1>3, <1>7, <1>8, <1>9 DEF Spent, Limited, cutoff

(* Steps that record no failure.                                           *)
LEMMA QuietOverrun ==
  ASSUME OverrunInv, UNCHANGED <<overrun, now>>,
         \A i \in Ips : Spent(failures', i, now) => Spent(failures, i, now),
         \A i \in Ips : Spent(failures', i, now) => InFlight(i)' \subseteq InFlight(i)
  PROVE  OverrunInv'
<1>1. ASSUME NEW i \in Ips, Spent(failures', i, now)
      PROVE  /\ overrun[i] + Cardinality(InFlight(i)) < Cardinality(Calls)
             /\ Cardinality(InFlight(i)') <= Cardinality(InFlight(i))
             /\ Cardinality(InFlight(i)') \in Nat
  <2>1. overrun[i] + Cardinality(InFlight(i)) < Cardinality(Calls)
    BY <1>1 DEF OverrunInv
  <2>2. IsFiniteSet(InFlight(i)) /\ InFlight(i)' \subseteq InFlight(i)
    BY <1>1, InFlightCounted
  <2> QED
    BY <2>1, <2>2, FS_Subset, FS_CardinalityType
<1>2. overrun' \in [Ips -> Nat] /\ \A i \in Ips : (overrun'[i] = 0 \/ overrun'[i] < Cardinality(Calls))
  BY DEF OverrunInv
<1>3. ASSUME NEW i \in Ips, Spent(failures', i, now')
      PROVE  overrun'[i] + Cardinality(InFlight(i)') < Cardinality(Calls)
  BY <1>1, <1>3, InFlightCounted DEF OverrunInv
<1> QED
  BY <1>2, <1>3 DEF OverrunInv

(* A failure is recorded, and with it the overrun starts again; or the     *)
(* budget is spent, and one callback less is in flight.                    *)
LEMMA FailureCounted ==
  ASSUME OverrunInv, now \in Nat, now' = now, NEW i \in Ips, NEW table, IsTable(table, now),
         CountFailure(i, table),
         \A j \in Ips : Spent(table, j, now) => Spent(failures, j, now),
         \A j \in Ips : InFlight(j)' \subseteq InFlight(j),
         \E c \in InFlight(i) : InFlight(i)' = InFlight(i) \ {c}
  PROVE  OverrunInv'
<1>1. PICK pruned \in Pruned(table, i, now, FailureWindow) :
         /\ failures' = Hit(pruned, i, now, FailureLimit)
         /\ overrun' = [overrun EXCEPT ![i] =
                          IF Limited(pruned, i, FailureLimit) THEN @ + 1 ELSE 0]
  BY DEF CountFailure
<1>2. /\ i \in DOMAIN pruned /\ (Limited(pruned, i, FailureLimit) <=> Spent(table, i, now))
      /\ \A j \in Ips : Spent(pruned, j, now) => Spent(table, j, now)
  BY PrunedSpends
<1>3. \A j \in Ips \ {i} : Spent(failures', j, now) => Spent(pruned, j, now)
  BY <1>1 DEF Hit, Spent
<1>4. \A j \in Ips : /\ overrun[j] \in Nat /\ (overrun[j] = 0 \/ overrun[j] < Cardinality(Calls))
                     /\ Cardinality(InFlight(j)') <= Cardinality(InFlight(j))
                     /\ Cardinality(InFlight(j)) <= Cardinality(Calls)
                     /\ Cardinality(InFlight(j)') \in Nat /\ Cardinality(InFlight(j)) \in Nat
  BY InFlightCounted, FS_Subset, FS_CardinalityType DEF OverrunInv
<1>5. Cardinality(Calls) \in Nat /\ overrun \in [Ips -> Nat]
  BY InFlightCounted DEF OverrunInv
<1>6. \A j \in Ips \ {i} : overrun'[j] = overrun[j]
  BY <1>1, <1>5
<1>7. ASSUME NEW j \in Ips \ {i}, Spent(failures', j, now')
      PROVE  overrun'[j] + Cardinality(InFlight(j)') < Cardinality(Calls)
  <2>1. overrun[j] + Cardinality(InFlight(j)) < Cardinality(Calls)
    BY <1>2, <1>3, <1>7 DEF OverrunInv
  <2> QED
    BY <2>1, <1>4, <1>5, <1>6
<1>10. Cardinality(InFlight(i)') = Cardinality(InFlight(i)) - 1
  BY InFlightCounted, FS_RemoveElement
<1>8. CASE Spent(table, i, now)
  <2>1. overrun'[i] = overrun[i] + 1
    BY <1>1, <1>2, <1>5, <1>8
  <2>3. overrun[i] + Cardinality(InFlight(i)) < Cardinality(Calls)
    BY <1>8 DEF OverrunInv
  <2>4. /\ overrun'[i] \in Nat /\ (overrun'[i] = 0 \/ overrun'[i] < Cardinality(Calls))
        /\ overrun'[i] + Cardinality(InFlight(i)') < Cardinality(Calls)
    <3>1. overrun[i] \in Nat /\ Cardinality(InFlight(i)) \in Nat /\ Cardinality(InFlight(i)') \in Nat
      BY <1>4
    <3> QED
      BY <2>1, <2>3, <1>5, <1>10, <3>1
  <2> QED
    BY <2>4, <1>1, <1>4, <1>5, <1>6, <1>7 DEF OverrunInv
<1>9. CASE ~ Spent(table, i, now)
  <2>1. overrun'[i] = 0
    BY <1>1, <1>2, <1>5, <1>9
  <2>2. /\ overrun'[i] \in Nat /\ (overrun'[i] = 0 \/ overrun'[i] < Cardinality(Calls))
        /\ overrun'[i] + Cardinality(InFlight(i)') < Cardinality(Calls)
    BY <2>1, <1>4, <1>5, <1>10
  <2> QED
    BY <2>2, <1>1, <1>4, <1>5, <1>6, <1>7 DEF OverrunInv
<1> QED
  BY <1>8, <1>9

LEMMA OverrunKept ==
  ASSUME SignInInv, BoundsInv, DeclinedInv, OverrunInv, [Next]_vars
  PROVE  OverrunInv'
<1>1. /\ calls = [c \in Calls |-> calls[c]] /\ \A c \in Calls : calls[c] # None => calls[c] \in Callback
      /\ now \in Nat /\ IsTable(failures, now)
      /\ Ip \in [Browsers -> Ips] /\ FailureWindow \in Nat
  BY SignInAssumption DEF SignInInv, IssuedInv, CallInv, Sound, BoundsInv
<1>2. ASSUME NEW c \in Calls, NEW x, calls' = [calls EXCEPT ![c] = x], UNCHANGED declined,
             x = None \/ (calls[c] # None /\ x.browser = calls[c].browser)
      PROVE  \A i \in Ips : InFlight(i)' \subseteq InFlight(i)
  BY <1>1, <1>2 DEF InFlight
<1>3. ASSUME NEW c \in Calls, calls[c] # None, NEW x, calls' = [calls EXCEPT ![c] = x],
             x = None \/ x.browser = calls[c].browser, UNCHANGED <<now, failures, overrun, declined>>
      PROVE  OverrunInv'
  BY <1>2, <1>3, QuietOverrun
<1>4. ASSUME UNCHANGED <<now, failures, overrun, calls, declined>> PROVE OverrunInv'
  BY <1>4, QuietOverrun DEF InFlight
<1>5. ASSUME NEW b \in Browsers, StartRefused(b) \/ Start(b) \/ Logout(b) PROVE OverrunInv'
  BY <1>4, <1>5 DEF StartRefused, Start, Logout, limiters, memory
<1>6. ASSUME NEW b \in Browsers, CallbackLimited(b) PROVE OverrunInv'
  <2>1. /\ failures' \in Pruned(failures, Ip[b], now, FailureWindow)
        /\ UNCHANGED <<now, calls, overrun, declined>>
    BY <1>6 DEF CallbackLimited, memory
  <2>2. \A i \in Ips : Spent(failures', i, now) => Spent(failures, i, now)
    BY <1>1, <2>1, PrunedSpends
  <2> QED
    BY <2>1, <2>2, QuietOverrun DEF InFlight
<1>7. ASSUME NEW c \in Calls, CallbackDeclined(c) PROVE OverrunInv'
  <2>1. /\ declined[c] # None /\ UNCHANGED <<now, calls>>
        /\ CountFailure(declined[c], failures) /\ declined' = [declined EXCEPT ![c] = None]
    BY <1>7 DEF CallbackDeclined
  <2>2. PICK i \in Ips : i = declined[c] /\ c \in InFlight(i)
    BY <2>1 DEF DeclinedInv, InFlight
  <2>3. InFlight(i)' = InFlight(i) \ {c} /\ \A j \in Ips : InFlight(j)' \subseteq InFlight(j)
    BY <1>1, <2>1, SignInAssumption DEF InFlight, DeclinedInv
  <2> QED
    BY <1>1, <2>1, <2>2, <2>3, FailureCounted
<1>17. ASSUME NEW c \in Calls, NEW i \in Ips, ArriveDeclined(c, i) PROVE OverrunInv'
  <2>1. /\ failures' \in Pruned(failures, i, now, FailureWindow)
        /\ ~ Limited(failures', i, FailureLimit)
        /\ UNCHANGED <<now, overrun, calls>> /\ declined' = [declined EXCEPT ![c] = i]
    BY <1>17 DEF ArriveDeclined, WithinBudget
  <2>2. /\ ~ Spent(failures', i, now)
        /\ \A j \in Ips : Spent(failures', j, now) => Spent(failures, j, now)
    BY <1>1, <2>1, PrunedSpends
  <2>3. \A j \in Ips \ {i} : InFlight(j)' \subseteq InFlight(j)
    BY <2>1 DEF InFlight, DeclinedInv
  <2> QED
    BY <2>1, <2>2, <2>3, QuietOverrun
<1>8. ASSUME NEW c \in Calls, NEW b \in Browsers, Arrive(c, b) PROVE OverrunInv'
  <2>1. /\ failures' \in Pruned(failures, Ip[b], now, FailureWindow)
        /\ ~ Limited(failures', Ip[b], FailureLimit)
        /\ UNCHANGED <<now, overrun, declined>>
    BY <1>8 DEF Arrive, WithinBudget
  <2>2. /\ ~ Spent(failures', Ip[b], now)
        /\ \A i \in Ips : Spent(failures', i, now) => Spent(failures, i, now)
    BY <1>1, <2>1, PrunedSpends
  <2>3. PICK n \in DOMAIN issued : calls' = [calls EXCEPT ![c] =
            [pc |-> "checked", browser |-> b, state |-> n, cookie |-> jar[b].state,
             presented |-> jar[b].session, person |-> None, session |-> None]]
    BY <1>8 DEF Arrive
  <2>4. \A i \in Ips \ {Ip[b]} : InFlight(i)' \subseteq InFlight(i)
    BY <1>1, <2>1, <2>3 DEF InFlight
  <2> QED
    BY <2>1, <2>2, <2>4, QuietOverrun
<1>9. ASSUME NEW c \in Calls, ValidateState(c) \/ RefuseState(c) \/ GitHubFails(c)
      PROVE  OverrunInv'
  <2>1. /\ calls[c] # None /\ UNCHANGED <<now, failures, overrun, declined>>
        /\ \E pc : calls' = [calls EXCEPT ![c].pc = pc]
    BY <1>9 DEF ValidateState, RefuseState, GitHubFails, At, Goto, limiters, memory
  <2>2. PICK pc : calls' = [calls EXCEPT ![c].pc = pc]
    BY <2>1
  <2> DEFINE x == [calls[c] EXCEPT !.pc = pc]
  <2>3. calls' = [calls EXCEPT ![c] = x] /\ x.browser = calls[c].browser
    BY <1>1, <2>1, <2>2 DEF Callback
  <2> HIDE DEF x
  <2> QED
    BY <1>3, <2>1, <2>3
<1>10. ASSUME NEW c \in Calls, NEW p \in People, Identify(c, p) PROVE OverrunInv'
  <2> DEFINE x == [calls[c] EXCEPT !.person = p,
                                   !.pc = IF IsAuthorised(p) THEN "invited" ELSE "denied"]
  <2>1. /\ calls[c] # None /\ UNCHANGED <<now, failures, overrun, declined>>
        /\ calls' = [calls EXCEPT ![c] = x] /\ x.browser = calls[c].browser
    BY <1>1, <1>10 DEF Identify, At, limiters, memory, Callback
  <2> HIDE DEF x
  <2> QED
    BY <1>3, <2>1
<1>11. ASSUME NEW c \in Calls, Commit(c) PROVE OverrunInv'
  <2> DEFINE x == [calls[c] EXCEPT !.pc = "committed", !.session = Len(sessions) + 1]
  <2>1. /\ calls[c] # None /\ UNCHANGED <<now, failures, overrun, declined>>
        /\ calls' = [calls EXCEPT ![c] = x] /\ x.browser = calls[c].browser
    BY <1>1, <1>11 DEF Commit, At, limiters, Callback
  <2> HIDE DEF x
  <2> QED
    BY <1>3, <2>1
<1>12. ASSUME NEW c \in Calls, CommitFails(c) \/ Answer(c) \/ AnswerLost(c)
       PROVE  OverrunInv'
  <2>1. /\ calls[c] # None /\ UNCHANGED <<now, failures, overrun, declined>>
        /\ calls' = [calls EXCEPT ![c] = None]
    BY <1>12 DEF CommitFails, Answer, AnswerLost, At, End, limiters, memory
  <2> QED
    BY <1>3, <2>1
<1>13. ASSUME NEW c \in Calls, Deny(c) PROVE OverrunInv'
  <2>1. /\ calls[c] # None /\ UNCHANGED <<now, declined>> /\ calls' = [calls EXCEPT ![c] = None]
        /\ CountFailure(Ip[calls[c].browser], failures)
    BY <1>13 DEF Deny, At, End, memory
  <2>2. PICK i \in Ips : i = Ip[calls[c].browser] /\ c \in InFlight(i)
    BY <1>1, <2>1 DEF Callback, InFlight
  <2>3. InFlight(i)' = InFlight(i) \ {c} /\ \A j \in Ips : InFlight(j)' \subseteq InFlight(j)
    BY <1>1, <2>1, <2>2, SignInAssumption DEF InFlight, DeclinedInv
  <2> QED
    BY <1>1, <2>1, <2>2, <2>3, FailureCounted
<1>14. CASE Tick
  <2>1. now' = now + 1 /\ UNCHANGED <<failures, calls, overrun, declined>>
    BY <1>14 DEF Tick, limiters, memory
  <2>2. ASSUME NEW i \in Ips, Spent(failures, i, now') PROVE Spent(failures, i, now)
    <3>1. failures[i] \in Seq(Nat)
      <4>1. 0 .. now \subseteq Nat /\ failures[i] \in Seq(0 .. now)
        BY <1>1, <2>2 DEF IsTable, Spent
      <4> QED
        BY <4>1, SeqMonotonic
    <3>2. /\ now - FailureWindow \in Int /\ now' - FailureWindow \in Int
          /\ now - FailureWindow <= now' - FailureWindow
      BY <1>1, <2>1
    <3>3. Len(Recent(failures[i], now' - FailureWindow)) <= Len(Recent(failures[i], now - FailureWindow))
      BY <3>1, <3>2, RecentShrinks
    <3>4. /\ Len(Recent(failures[i], now' - FailureWindow)) \in Nat
          /\ Len(Recent(failures[i], now - FailureWindow)) \in Nat
      BY <3>1, <3>2, RecentIs
    <3> QED
      BY <2>2, <3>3, <3>4, SignInAssumption DEF Spent
  <2> QED
    BY <2>1, <2>2 DEF OverrunInv, InFlight
<1>15. CASE Restart
  <2>1. /\ failures' = NoEvents /\ overrun' = [i \in Ips |-> 0] /\ now' = now
    BY <1>15 DEF Restart, NoOverrun
  <2>2. \A i \in Ips : ~ Spent(failures', i, now')
    BY <2>1 DEF Spent, NoEvents
  <2> QED
    BY <2>1, <2>2, InFlightCounted DEF OverrunInv
<1>16. CASE UNCHANGED vars
  BY <1>4, <1>16 DEF vars
<1> QED
  BY <1>5, <1>6, <1>7, <1>8, <1>9, <1>10, <1>11, <1>12, <1>13, <1>14, <1>15, <1>16, <1>17 DEF Next

LEMMA AllSignInHolds == Spec => [](SignInInv /\ SessionInv /\ BoundsInv /\ DeclinedInv /\ OverrunInv)
<1>1. Init => BoundsInv /\ DeclinedInv /\ OverrunInv
  <2> SUFFICES ASSUME Init PROVE BoundsInv /\ DeclinedInv /\ OverrunInv
    OBVIOUS
  <2>1. \A i \in Ips : ~ Spent(failures, i, now)
    BY DEF Init, Spent, NoEvents
  <2>2. OverrunInv
    BY <2>1, InFlightCounted DEF Init, NoOverrun, OverrunInv
  <2>3. Cardinality({}) <= MaxOutstanding /\ Len(<<>>) <= MaxSessions /\ 0 \in 0 .. MaxTime
    BY FS_EmptySet, SignInAssumption
  <2>4. BoundsInv
    BY <2>3 DEF Init, Idle, NoEvents, BoundsInv, IsTable
  <2>5. DeclinedInv
    BY DEF Init, Idle, DeclinedInv
  <2> QED
    BY <2>2, <2>4, <2>5
<1>2. (SignInInv /\ SessionInv /\ BoundsInv /\ DeclinedInv /\ OverrunInv) /\ [Next]_vars
        => (BoundsInv /\ DeclinedInv /\ OverrunInv)'
  BY BoundsKept, DeclinedKept, OverrunKept
<1> QED
  BY <1>1, <1>2, SignInInvHolds, PTL DEF Spec

(* The shape of the state, and that the store of states never holds more   *)
(* than MaxOutstanding.                                                    *)
THEOREM SignInTypes == Spec => []TypeOK
<1>1. SignInInv /\ SessionInv /\ BoundsInv /\ DeclinedInv => TypeOK
  BY TypesFollow
<1> QED
  BY <1>1, AllSignInHolds, PTL

(* github_callback: is_limited before a callback is looked at, hit when it *)
(* has failed: an address goes over its budget by fewer callbacks than     *)
(* there are threads to handle them.                                       *)
THEOREM OverrunIsBounded == Spec => []OverrunBounded
<1>1. OverrunInv => OverrunBounded
  BY DEF OverrunInv, OverrunBounded
<1> QED
  BY <1>1, AllSignInHolds, PTL
=============================================================================
