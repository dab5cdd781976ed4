--------------------------- MODULE Services_proofs ---------------------------
(***************************************************************************)
(* Proofs about the services of the backend: fetching a feed, answering    *)
(* the readiness probe, exporting the public snapshot, and the facts of a  *)
(* KEV entry that travel through a summary into that snapshot.             *)
(***************************************************************************)
EXTENDS FeedFetch, Readiness, Snapshots, KevText, TLAPS, FiniteSetTheorems, SequenceTheorems,
        WellFoundedInduction

(***************************************************************************)
(* Fetching a feed, for any links, addresses, answers and limits.          *)
(***************************************************************************)

Under == {"check", "resolve", "wait", "send", "sent", "read", "fetched"}

(* A fetch under way; its fields are those of StartFetch.                  *)
FetchRecord == [pc : Under, link : Links, hop : Nat, deadline : Nat,
                address : Addresses \cup {""}, size : Nat]

SlotsTyped == slots \in [DOMAIN slots -> Nat]

(* A request that was sent.                                                *)
Request == [link : Links, address : Addresses, at : Nat, turn : Nat]

(* What has been sent: one request for each hop that is over, and one for  *)
(* this hop once it is sent, each at its turn, the turns of a host apart,  *)
(* and none later than the host's slot.                                    *)
Guarded(m) ==
  /\ sent[m].link \in Supported /\ sent[m].address \in Public
  /\ sent[m].turn <= sent[m].at
  /\ HostOf[sent[m].link] \in DOMAIN slots
  /\ sent[m].turn <= slots[HostOf[sent[m].link]]
  /\ \A n \in 1 .. (m - 1) : HostOf[sent[m].link] = HostOf[sent[n].link] =>
       sent[m].turn - sent[n].turn >= MinInterval

SentInv ==
  /\ sent \in Seq(Request)
  /\ Len(sent) <= MaxRedirects + 1
  /\ sent # <<>> => sent[1].link \in FeedLinks
  /\ \A m \in DOMAIN sent : Guarded(m)

(* The hop under way was checked before it waits, and waits until its      *)
(* turn, which the host's slot has reserved.                               *)
HopInv ==
  fetch.pc \notin {"idle", "failed"} =>
    /\ fetch \in FetchRecord
    /\ fetch.hop <= MaxRedirects
    /\ Len(sent) = fetch.hop + (IF fetch.pc \in {"sent", "read", "fetched"} THEN 1 ELSE 0)
    /\ \A m \in DOMAIN sent : sent[m].at < fetch.deadline
    /\ fetch.pc \notin {"check"} =>
         fetch.link \in Supported /\ (fetch.hop = 0 => fetch.link \in FeedLinks)
    /\ fetch.pc \in {"wait", "send"} => fetch.address \in Public
    /\ fetch.pc = "send" =>
         /\ TargetHost \in DOMAIN slots /\ slots[TargetHost] <= clock
         /\ \A n \in DOMAIN sent : HostOf[sent[n].link] = TargetHost =>
              slots[TargetHost] - sent[n].turn >= MinInterval
    /\ fetch.size <= MaxBytes

FetchInv == clock \in Nat /\ SlotsTyped /\ SentInv /\ HopInv

-----------------------------------------------------------------------------
LEMMA SentTyped ==
  ASSUME FetchInv
  PROVE  /\ sent \in Seq(Request) /\ Len(sent) \in Nat /\ DOMAIN sent = 1 .. Len(sent)
         /\ \A m \in DOMAIN sent : sent[m] \in Request
BY LenProperties, ElementOfSeq DEF FetchInv, SentInv

(* A step that sends nothing and reserves no turn keeps what was sent.     *)
LEMMA SentKeeps ==
  ASSUME FetchInv, UNCHANGED <<slots, sent>>, clock' \in Nat, HopInv'
  PROVE  FetchInv'
BY DEF FetchInv, SlotsTyped, SentInv, Guarded

(* A fetch that has ended keeps what was sent.                             *)
LEMMA OverKeeps ==
  ASSUME FetchInv, UNCHANGED <<slots, sent>>, clock' \in Nat, fetch'.pc \in {"idle", "failed"}
  PROVE  FetchInv'
BY SentKeeps DEF HopInv

LEMMA RaiseKeeps ==
  ASSUME FetchInv, UNCHANGED <<slots, sent>>, clock' \in Nat, NEW error, Raise(error)
  PROVE  FetchInv'
BY OverKeeps DEF Raise

(* A step of the fetch under way that sends nothing and takes no turn.     *)
LEMMA HopKeeps ==
  ASSUME FetchInv, UNCHANGED <<slots, sent>>, clock' \in Nat,
         fetch.pc \in Under, NEW x, fetch' = x, x \in FetchRecord, x.pc # "send",
         x.deadline = fetch.deadline, x.hop <= MaxRedirects, x.size <= MaxBytes,
         Len(sent) = x.hop + (IF x.pc \in {"sent", "read", "fetched"} THEN 1 ELSE 0),
         x.pc # "check" => x.link \in Supported /\ (x.hop = 0 => x.link \in FeedLinks),
         x.pc = "wait" => x.address \in Public
  PROVE  FetchInv'
<1>1. \A m \in DOMAIN sent : sent[m].at < fetch.deadline
  BY DEF FetchInv, HopInv, Under
<1> QED
  BY <1>1, SentKeeps DEF HopInv

(* What the invariant says of a fetch under way.                           *)
LEMMA UnderWay ==
  ASSUME FetchInv, fetch.pc \in Under
  PROVE  /\ fetch \in FetchRecord /\ fetch.hop <= MaxRedirects /\ fetch.size <= MaxBytes
         /\ fetch.hop \in Nat /\ fetch.deadline \in Nat /\ fetch.size \in Nat
         /\ Len(sent) = fetch.hop + (IF fetch.pc \in {"sent", "read", "fetched"} THEN 1 ELSE 0)
         /\ fetch.pc \notin {"check"} =>
              fetch.link \in Supported /\ (fetch.hop = 0 => fetch.link \in FeedLinks)
         /\ fetch.pc = "wait" => fetch.address \in Public
BY DEF FetchInv, HopInv, Under, FetchRecord

LEMMA ClockMoves ==
  ASSUME FetchInv, TimePasses
  PROVE  clock' \in Nat
BY DEF FetchInv, TimePasses

-----------------------------------------------------------------------------
LEMMA StartKeeps ==
  ASSUME FetchInv, StartFetch
  PROVE  FetchInv'
<1>1. PICK link \in Links :
        fetch' = [pc |-> "check", link |-> link, hop |-> 0, deadline |-> clock + Timeout,
                  address |-> "", size |-> 0]
  BY DEF StartFetch
<1>2. sent' = <<>> /\ clock' = clock /\ slots' = slots /\ clock \in Nat /\ SlotsTyped
  BY DEF StartFetch, FetchInv
<1>3. fetch' \in FetchRecord
  <2>1. clock + Timeout \in Nat /\ "" \in Addresses \cup {""} /\ "check" \in Under
    BY <1>2, FetchAssumption DEF Under
  <2> QED
    BY <1>1, <2>1 DEF FetchRecord
<1>4. HopInv'
  <2>1. /\ fetch'.pc = "check" /\ fetch'.hop = 0 /\ fetch'.size = 0
    BY <1>1
  <2>2. Len(sent') = 0 /\ \A m : m \notin DOMAIN sent'
    BY <1>2
  <2> QED
    BY <1>3, <2>1, <2>2, FetchAssumption DEF HopInv
<1>5. SentInv'
  BY <1>2, FetchAssumption DEF SentInv
<1> QED
  BY <1>2, <1>4, <1>5 DEF FetchInv, SlotsTyped

LEMMA CheckKeeps ==
  ASSUME FetchInv, CheckTarget
  PROVE  FetchInv'
<1>1. /\ fetch.pc = "check" /\ fetch.pc \in Under
      /\ UNCHANGED <<slots, sent>> /\ clock' = clock /\ clock' \in Nat
  BY DEF CheckTarget, FetchAt, Under, FetchInv
<1>2. fetch \in FetchRecord
  BY <1>1, UnderWay
<1>3. CASE fetch'.pc = "failed"
  BY <1>1, <1>3, OverKeeps
<1>4. CASE /\ Acceptable /\ TargetHost \in Addresses /\ TargetHost \in Public
           /\ fetch' = [fetch EXCEPT !.pc = "wait", !.address = TargetHost]
  <2> DEFINE x == [fetch EXCEPT !.pc = "wait", !.address = TargetHost]
  <2>1. /\ x \in FetchRecord /\ x.pc = "wait" /\ x.address = TargetHost /\ x.link = fetch.link
        /\ x.hop = fetch.hop /\ x.deadline = fetch.deadline /\ x.size = fetch.size
    BY <1>2, <1>4 DEF FetchRecord, Under
  <2> HIDE DEF x
  <2>2. fetch' = x
    BY <1>4 DEF x
  <2> QED
    BY <1>1, <1>4, <2>1, <2>2, UnderWay, HopKeeps DEF Acceptable
<1>5. CASE Acceptable /\ fetch' = [fetch EXCEPT !.pc = "resolve"]
  <2> DEFINE x == [fetch EXCEPT !.pc = "resolve"]
  <2>1. /\ x \in FetchRecord /\ x.pc = "resolve" /\ x.link = fetch.link
        /\ x.hop = fetch.hop /\ x.deadline = fetch.deadline /\ x.size = fetch.size
    BY <1>2 DEF FetchRecord, Under
  <2> HIDE DEF x
  <2>2. fetch' = x
    BY <1>5 DEF x
  <2> QED
    BY <1>1, <1>5, <2>1, <2>2, UnderWay, HopKeeps DEF Acceptable
<1> QED
  BY <1>3, <1>4, <1>5 DEF CheckTarget, Raise, Goes, IsLiteral, Allowed

LEMMA ResolveKeeps ==
  ASSUME FetchInv, Resolve
  PROVE  FetchInv'
<1>1. /\ fetch.pc = "resolve" /\ fetch.pc \in Under
      /\ UNCHANGED <<slots, sent>> /\ clock' \in Nat
  BY ClockMoves DEF Resolve, FetchAt, Under
<1>2. fetch \in FetchRecord
  BY <1>1, UnderWay
<1>3. PICK answers \in {<<>>} \cup (Addresses \X Addresses) :
        IF answers = <<>> \/ \E i \in DOMAIN answers : ~ Allowed(answers[i])
        THEN Raise("UnsafeTargetError")
        ELSE fetch' = [fetch EXCEPT !.pc = "wait", !.address = answers[1]]
  BY DEF Resolve
<1>4. CASE answers = <<>> \/ \E i \in DOMAIN answers : ~ Allowed(answers[i])
  <2>1. Raise("UnsafeTargetError")
    BY <1>3, <1>4
  <2> QED
    BY <1>1, <2>1, RaiseKeeps
<1>5. CASE ~ (answers = <<>> \/ \E i \in DOMAIN answers : ~ Allowed(answers[i]))
  <2> DEFINE a == answers[1]
             x == [fetch EXCEPT !.pc = "wait", !.address = a]
  <2>1. a \in Addresses /\ a \in Public
    BY <1>5 DEF Allowed
  <2>2. fetch' = x
    BY <1>3, <1>5
  <2> HIDE DEF a
  <2>3. /\ x \in FetchRecord /\ x.pc = "wait" /\ x.address = a /\ x.link = fetch.link
        /\ x.hop = fetch.hop /\ x.deadline = fetch.deadline /\ x.size = fetch.size
    BY <1>2, <2>1 DEF FetchRecord, Under
  <2> HIDE DEF x
  <2> QED
    BY <1>1, <2>1, <2>2, <2>3, UnderWay, HopKeeps
<1> QED
  BY <1>4, <1>5

LEMMA TooSlowKeeps ==
  ASSUME FetchInv, ResolveTooSlow
  PROVE  FetchInv'
<1>1. fetch.pc \in Under /\ UNCHANGED <<slots, sent>> /\ clock' = fetch.deadline
  BY DEF ResolveTooSlow, FetchAt, Under
<1>2. clock' \in Nat
  BY <1>1, UnderWay
<1> QED
  BY <1>1, <1>2, RaiseKeeps DEF ResolveTooSlow

(* A turn is the interval after the one before it, and becomes the slot.   *)
LEMMA WaitKeeps ==
  ASSUME FetchInv, WaitTurn
  PROVE  FetchInv'
<1> DEFINE host == TargetHost
           turn == Later(clock, NextFree(host))
           x == [fetch EXCEPT !.pc = "send"]
<1>1. /\ fetch.pc = "wait" /\ fetch.pc \in Under /\ clock \in Nat /\ clock' \in Nat
      /\ turn <= clock' /\ sent' = sent /\ fetch' = x
      /\ slots' = [h \in DOMAIN slots \cup {host} |-> IF h = host THEN turn ELSE slots[h]]
  BY ClockMoves DEF WaitTurn, FetchAt, Under, FetchInv, Goes
<1>2. fetch \in FetchRecord
  BY <1>1, UnderWay
<1>3. \A h \in DOMAIN slots : slots[h] \in Nat
  BY DEF FetchInv, SlotsTyped
<1>4. /\ turn \in Nat
      /\ host \in DOMAIN slots => turn - slots[host] >= MinInterval
  BY <1>1, <1>3, FetchAssumption DEF Later, NextFree
<1> HIDE DEF turn
<1>5. /\ DOMAIN slots' = DOMAIN slots \cup {host}
      /\ slots'[host] = turn
      /\ \A h \in DOMAIN slots : h # host => slots'[h] = slots[h]
  BY <1>1
<1> HIDE DEF host
<1>6. SlotsTyped'
  <2>1. \A h \in DOMAIN slots' : slots'[h] \in Nat
    BY <1>3, <1>4, <1>5
  <2>2. slots' = [h \in DOMAIN slots' |-> slots'[h]]
    BY <1>1, <1>5
  <2> QED
    BY <2>1, <2>2 DEF SlotsTyped
<1>7. ASSUME NEW m \in DOMAIN sent
      PROVE  /\ Guarded(m)'
             /\ HostOf[sent[m].link] = host => turn - sent[m].turn >= MinInterval
  <2> DEFINE h == HostOf[sent[m].link]
  <2>1. /\ Guarded(m) /\ sent[m].turn \in Nat
    BY SentTyped DEF FetchInv, SentInv, Request
  <2>2. h \in DOMAIN slots /\ sent[m].turn <= slots[h] /\ slots[h] \in Nat
    BY <1>3, <2>1 DEF Guarded
  <2>3. h \in DOMAIN slots' /\ sent[m].turn <= slots'[h]
    <3>1. CASE h = host
      BY <1>4, <1>5, <2>1, <2>2, <3>1, FetchAssumption
    <3>2. CASE h # host
      BY <1>5, <2>2, <3>2
    <3> QED
      BY <3>1, <3>2
  <2>4. h = host => turn - sent[m].turn >= MinInterval
    BY <1>4, <2>1, <2>2, FetchAssumption
  <2> QED
    BY <1>1, <2>1, <2>3, <2>4 DEF Guarded
<1>8. SentInv'
  BY <1>1, <1>7 DEF FetchInv, SentInv
<1>9. /\ x \in FetchRecord /\ x.pc = "send" /\ x.address = fetch.address
      /\ x.link = fetch.link /\ x.hop = fetch.hop /\ x.deadline = fetch.deadline
      /\ x.size = fetch.size
  BY <1>2 DEF FetchRecord, Under
<1> HIDE DEF x
<1>10. TargetHost' = host
  BY <1>1, <1>9 DEF TargetHost, host
<1>11. \A m \in DOMAIN sent : sent[m].at < fetch.deadline
  BY <1>1 DEF FetchInv, HopInv
<1>12. HopInv'
  <2>1. /\ x.hop <= MaxRedirects /\ x.size <= MaxBytes /\ Len(sent) = x.hop + 0
        /\ x.link \in Supported /\ (x.hop = 0 => x.link \in FeedLinks)
        /\ x.address \in Public
    BY <1>1, <1>9, UnderWay
  <2>2. TargetHost' \in DOMAIN slots' /\ slots'[TargetHost'] <= clock'
    BY <1>1, <1>5, <1>10
  <2>3. \A n \in DOMAIN sent : HostOf[sent[n].link] = TargetHost' =>
          slots'[TargetHost'] - sent[n].turn >= MinInterval
    BY <1>5, <1>7, <1>10
  <2> QED
    BY <1>1, <1>9, <1>11, <2>1, <2>2, <2>3 DEF HopInv
<1> QED
  BY <1>1, <1>6, <1>8, <1>12 DEF FetchInv

LEMMA LateKeeps ==
  ASSUME FetchInv, SendLate
  PROVE  FetchInv'
BY RaiseKeeps DEF SendLate, FetchInv

(* A request is sent at its turn, before the deadline.                     *)
LEMMA SendKeeps ==
  ASSUME FetchInv, Send
  PROVE  FetchInv'
<1> DEFINE x == [fetch EXCEPT !.pc = "sent"]
           host == TargetHost
           turn == slots[host]
           r == [link |-> fetch.link, address |-> fetch.address, at |-> clock, turn |-> turn]
           top == Len(sent)
<1>1. /\ fetch.pc = "send" /\ fetch.pc \in Under /\ clock \in Nat /\ Remaining > 0
      /\ clock' = clock /\ slots' = slots /\ sent' = Append(sent, r) /\ fetch' = x
  BY DEF Send, FetchAt, Under, FetchInv, Goes
<1>2. fetch \in FetchRecord /\ fetch.deadline \in Nat /\ fetch.hop \in Nat
  BY <1>1, UnderWay
<1>3. /\ fetch.address \in Public /\ host \in DOMAIN slots /\ turn <= clock /\ turn \in Nat
      /\ fetch.link \in Supported /\ (fetch.hop = 0 => fetch.link \in FeedLinks)
      /\ top = fetch.hop
      /\ \A n \in DOMAIN sent : HostOf[sent[n].link] = host => turn - sent[n].turn >= MinInterval
      /\ \A n \in DOMAIN sent : sent[n].at < fetch.deadline
  BY <1>1, <1>2 DEF FetchInv, HopInv, SlotsTyped
<1>4. /\ r \in Request /\ r.link = fetch.link /\ r.address = fetch.address
      /\ r.at = clock /\ r.turn = turn
  BY <1>1, <1>3, FetchAssumption DEF Request
<1>5. HostOf[r.link] = host
  BY <1>4 DEF TargetHost
<1> HIDE DEF r, turn, host
<1>6. /\ sent' \in Seq(Request) /\ Len(sent') = top + 1 /\ top \in Nat
      /\ sent'[top + 1] = r
      /\ \A n \in 1 .. top : sent'[n] = sent[n]
      /\ DOMAIN sent = 1 .. top /\ DOMAIN sent' = 1 .. (top + 1)
  BY <1>1, <1>4, SentTyped, AppendProperties, LenProperties
<1> HIDE DEF top
<1>7. ASSUME NEW m \in DOMAIN sent'
      PROVE  Guarded(m)' /\ sent'[m].at < fetch.deadline
  <2>1. CASE m \in 1 .. top
    <3>1. /\ sent'[m] = sent[m] /\ \A n \in 1 .. (m - 1) : sent'[n] = sent[n]
      BY <1>6, <2>1
    <3>2. Guarded(m) /\ sent[m].at < fetch.deadline
      BY <1>3, <1>6, <2>1 DEF FetchInv, SentInv
    <3> QED
      BY <1>1, <3>1, <3>2 DEF Guarded
  <2>2. CASE m = top + 1
    <3>1. sent'[m] = r
      BY <1>6, <2>2
    <3>2. \A n \in 1 .. (m - 1) : n \in DOMAIN sent /\ sent'[n] = sent[n]
      BY <1>6, <2>2
    <3>3. \A n \in 1 .. (m - 1) : HostOf[r.link] = HostOf[sent'[n].link] =>
            r.turn - sent'[n].turn >= MinInterval
      BY <1>3, <1>4, <1>5, <3>2
    <3>4. clock < fetch.deadline
      BY <1>1, <1>2 DEF Remaining
    <3> QED
      BY <1>1, <1>3, <1>4, <1>5, <3>1, <3>3, <3>4 DEF Guarded, turn
  <2> QED
    BY <1>6, <2>1, <2>2
<1>8. SentInv'
  <2>1. Len(sent') <= MaxRedirects + 1
    BY <1>1, <1>2, <1>3, <1>6, UnderWay, FetchAssumption
  <2>2. sent'[1].link \in FeedLinks
    <3>1. CASE top = 0
      BY <1>3, <1>4, <1>6, <3>1
    <3>2. CASE top # 0
      <4>1. 1 \in 1 .. top
        BY <1>6, <3>2
      <4>2. sent # <<>> /\ sent'[1] = sent[1]
        BY <1>6, <4>1
      <4> QED
        BY <4>2 DEF FetchInv, SentInv
    <3> QED
      BY <3>1, <3>2
  <2> QED
    BY <1>6, <1>7, <2>1, <2>2 DEF SentInv
<1>9. /\ x \in FetchRecord /\ x.pc = "sent" /\ x.link = fetch.link /\ x.hop = fetch.hop
      /\ x.deadline = fetch.deadline /\ x.size = fetch.size
  BY <1>2 DEF FetchRecord, Under
<1> HIDE DEF x
<1>10. HopInv'
  <2>1. /\ x.hop <= MaxRedirects /\ x.size <= MaxBytes /\ Len(sent') = x.hop + 1
        /\ x.link \in Supported /\ (x.hop = 0 => x.link \in FeedLinks)
    BY <1>1, <1>3, <1>6, <1>9, UnderWay
  <2>2. \A m \in DOMAIN sent' : sent'[m].at < x.deadline
    BY <1>7, <1>9
  <2> QED
    BY <1>1, <1>9, <2>1, <2>2 DEF HopInv
<1> QED
  BY <1>1, <1>8, <1>10 DEF FetchInv, SlotsTyped

LEMMA FailsKeeps ==
  ASSUME FetchInv, Fails
  PROVE  FetchInv'
BY ClockMoves, RaiseKeeps DEF Fails

(* A hop follows only while redirects are left.                            *)
LEMMA RedirectKeeps ==
  ASSUME FetchInv, Redirected
  PROVE  FetchInv'
<1>1. /\ fetch.pc = "sent" /\ fetch.pc \in Under
      /\ UNCHANGED <<slots, sent>> /\ clock' \in Nat
  BY ClockMoves DEF Redirected, FetchAt, Under
<1>2. CASE fetch.hop = HopsAllowed
  BY <1>1, <1>2, RaiseKeeps DEF Redirected
<1>3. CASE fetch.hop # HopsAllowed
  <2>1. PICK link \in Links :
          fetch' = [fetch EXCEPT !.pc = "check", !.link = link, !.hop = @ + 1, !.address = ""]
    BY <1>3 DEF Redirected
  <2> DEFINE x == [fetch EXCEPT !.pc = "check", !.link = link, !.hop = @ + 1, !.address = ""]
  <2>2. /\ fetch \in FetchRecord /\ fetch.hop \in Nat /\ fetch.hop <= MaxRedirects
        /\ fetch.hop # MaxRedirects /\ Len(sent) = fetch.hop + 1
    BY <1>1, <1>3, UnderWay DEF HopsAllowed
  <2>3. /\ x \in FetchRecord /\ x.pc = "check" /\ x.hop = fetch.hop + 1
        /\ x.deadline = fetch.deadline /\ x.size = fetch.size
    <3>1. fetch.hop + 1 \in Nat /\ "" \in Addresses \cup {""} /\ "check" \in Under
      BY <2>2 DEF Under
    <3> QED
      BY <2>2, <3>1 DEF FetchRecord
  <2>4. fetch' = x
    BY <2>1
  <2> HIDE DEF x
  <2>5. x.hop <= MaxRedirects
    BY <2>2, <2>3, FetchAssumption
  <2> QED
    BY <1>1, <2>2, <2>3, <2>4, <2>5, UnderWay, HopKeeps
<1> QED
  BY <1>2, <1>3

(* A fetch that has its answer and goes on to pc keeps everything else.    *)
LEMMA ReadKeeps ==
  ASSUME FetchInv, UNCHANGED <<slots, sent>>, clock' \in Nat,
         fetch.pc \in {"sent", "read"}, NEW pc \in {"read", "fetched"},
         NEW size \in Nat, size <= MaxBytes,
         fetch' = [fetch EXCEPT !.pc = pc, !.size = size]
  PROVE  FetchInv'
<1> DEFINE x == [fetch EXCEPT !.pc = pc, !.size = size]
<1>1. fetch.pc \in Under
  BY DEF Under
<1>2. fetch \in FetchRecord
  BY <1>1, UnderWay
<1>3. /\ x \in FetchRecord /\ x.pc = pc /\ x.link = fetch.link /\ x.hop = fetch.hop
      /\ x.deadline = fetch.deadline /\ x.size = size
  BY <1>2 DEF FetchRecord, Under
<1> HIDE DEF x
<1>4. fetch' = x
  BY DEF x
<1> QED
  BY <1>1, <1>3, <1>4, UnderWay, HopKeeps

LEMMA SameSize ==
  ASSUME FetchInv, fetch.pc \in Under, NEW pc
  PROVE  [fetch EXCEPT !.pc = pc] = [fetch EXCEPT !.pc = pc, !.size = fetch.size]
BY UnderWay DEF FetchRecord

LEMMA AnsweredKeeps ==
  ASSUME FetchInv, Answered
  PROVE  FetchInv'
<1>1. /\ fetch.pc = "sent" /\ fetch.pc \in Under
      /\ UNCHANGED <<slots, sent>> /\ clock' \in Nat
  BY ClockMoves DEF Answered, FetchAt, Under
<1>2. CASE Raise("ResponseTooLargeError")
  BY <1>1, <1>2, RaiseKeeps
<1>3. CASE fetch' = [fetch EXCEPT !.pc = "read"]
  <2>1. fetch' = [fetch EXCEPT !.pc = "read", !.size = fetch.size]
    BY <1>1, <1>3, SameSize
  <2> QED
    BY <1>1, <2>1, UnderWay, ReadKeeps
<1> QED
  BY <1>2, <1>3 DEF Answered, Goes

LEMMA ChunkKeeps ==
  ASSUME FetchInv, ReadChunk
  PROVE  FetchInv'
<1>1. /\ fetch.pc = "read" /\ fetch.pc \in Under
      /\ UNCHANGED <<slots, sent>> /\ clock' \in Nat
  BY ClockMoves DEF ReadChunk, FetchAt, Under
<1>2. PICK n \in 1 .. MaxBytes :
        IF fetch.deadline <= clock' THEN Raise("FetchTimeoutError")
        ELSE IF fetch.size + n > MaxBytes THEN Raise("ResponseTooLargeError")
        ELSE fetch' = [fetch EXCEPT !.size = @ + n]
  BY DEF ReadChunk
<1>3. CASE Raise("FetchTimeoutError") \/ Raise("ResponseTooLargeError")
  BY <1>1, <1>3, RaiseKeeps
<1>4. CASE ~ (fetch.size + n > MaxBytes) /\ fetch' = [fetch EXCEPT !.size = @ + n]
  <2>1. /\ fetch \in FetchRecord /\ fetch.size + n \in Nat /\ fetch.size + n <= MaxBytes
    BY <1>1, <1>4, UnderWay, FetchAssumption
  <2>2. fetch' = [fetch EXCEPT !.pc = "read", !.size = fetch.size + n]
    BY <1>1, <1>4, <2>1 DEF FetchRecord
  <2> QED
    BY <1>1, <2>1, <2>2, ReadKeeps
<1> QED
  BY <1>2, <1>3, <1>4

LEMMA EndOfBodyKeeps ==
  ASSUME FetchInv, EndOfBody
  PROVE  FetchInv'
<1>1. /\ fetch.pc = "read" /\ fetch.pc \in Under /\ fetch' = [fetch EXCEPT !.pc = "fetched"]
      /\ UNCHANGED <<slots, sent>> /\ clock' \in Nat
  BY ClockMoves DEF EndOfBody, FetchAt, Under, Goes
<1>2. fetch' = [fetch EXCEPT !.pc = "fetched", !.size = fetch.size]
  BY <1>1, SameSize
<1> QED
  BY <1>1, <1>2, UnderWay, ReadKeeps

LEMMA EndKeeps ==
  ASSUME FetchInv, EndFetch
  PROVE  FetchInv'
BY OverKeeps DEF EndFetch, NoFetch, FetchInv

(* Nothing has been sent and no turn is taken.                             *)
LEMMA FreshHolds ==
  ASSUME clock = 0, slots = <<>>, fetch = NoFetch, sent = <<>>
  PROVE  FetchInv
<1>1. SlotsTyped /\ HopInv
  BY DEF SlotsTyped, HopInv, NoFetch
<1>2. SentInv
  BY FetchAssumption DEF SentInv
<1> QED
  BY <1>1, <1>2 DEF FetchInv

LEMMA RestartKeeps ==
  ASSUME FetchRestart
  PROVE  FetchInv'
<1>1. SlotsTyped' /\ HopInv'
  BY DEF SlotsTyped, HopInv, NoFetch, FetchRestart
<1>2. SentInv'
  BY FetchAssumption DEF SentInv, FetchRestart
<1> QED
  BY <1>1, <1>2 DEF FetchInv, FetchRestart

LEMMA FetchInvHolds == FetchSpec => []FetchInv
<1>1. FetchInit => FetchInv
  BY FreshHolds DEF FetchInit
<1>2. FetchInv /\ UNCHANGED fetchVars => FetchInv'
  BY DEF fetchVars, FetchInv, SlotsTyped, SentInv, Guarded, HopInv, TargetHost
<1>3. FetchInv /\ [FetchNext]_fetchVars => FetchInv'
  BY <1>2, StartKeeps, CheckKeeps, ResolveKeeps, TooSlowKeeps, WaitKeeps, LateKeeps, SendKeeps,
     FailsKeeps, RedirectKeeps, AnsweredKeeps, ChunkKeeps, EndOfBodyKeeps, EndKeeps,
     RestartKeeps DEF FetchNext
<1> QED
  BY <1>1, <1>3, PTL DEF FetchSpec

(* FeedFetcher.fetch, whatever DNS and the servers answer: every request   *)
(* goes to a supported link at a public address, before the deadline and   *)
(* not before its turn, within the redirects; turns of a host are spaced;  *)
(* no body over the cap is returned.                                       *)
THEOREM RequestsAreGuarded == FetchSpec => []RequestsStayGuarded
<1>1. FetchInv => RequestsStayGuarded
  <2> SUFFICES ASSUME FetchInv
               PROVE  RequestsStayGuarded
    OBVIOUS
  <2>1. FetchAt("fetched") => fetch.size <= MaxBytes
    BY DEF FetchAt, FetchInv, HopInv
  <2>2. ASSUME NEW m \in DOMAIN sent
        PROVE  /\ Guarded(m)
               /\ fetch.pc \notin {"idle", "failed"} => sent[m].at < fetch.deadline
    BY DEF FetchInv, SentInv, HopInv
  <2> QED
    BY <2>1, <2>2 DEF RequestsStayGuarded, Guarded, FetchInv, SentInv
<1> QED
  BY <1>1, FetchInvHolds, PTL

-----------------------------------------------------------------------------
(***************************************************************************)
(* The readiness probe, for any number of requests at once and of checks.  *)
(***************************************************************************)

Caller == [pc : {"away", "waiting", "woken", "answered"}, from : Nat,
           answer : {"none", "ok", "failed", "timeout"}, at : Nat]

(* Nobody who has gone away is owed anything.                              *)
LEMMA AwayCaller == Away \in Caller /\ Away.pc = "away" /\ Away.from = 0
BY DEF Away, Caller

ProbeTypeOK ==
  /\ running \in BOOLEAN /\ done \in BOOLEAN
  /\ result \in [ok : BOOLEAN, at : Nat]
  /\ prober \in [Probers -> Caller]
  /\ ended \in Nat

(* A thread is in the database exactly while a check is running, and then  *)
(* the event is clear.                                                     *)
OneCheck ==
  /\ running => ~done /\ \E w : workers = {w}
  /\ ~running => workers = {}

(* What a caller may conclude: a set event, and a wake-up, mean that a     *)
(* check has ended since the caller came.                                  *)
EndedSince ==
  \A p \in Probers :
    /\ prober[p].from <= ended
    /\ prober[p].pc = "waiting" /\ done => prober[p].from < ended
    /\ prober[p].pc = "woken" => prober[p].from < ended
    /\ prober[p].pc = "answered" /\ prober[p].answer # "timeout" =>
         prober[p].from < prober[p].at

(* The stored result is that of the last check that ended.                 *)
ProbeInv == ProbeTypeOK /\ OneCheck /\ result.at = ended /\ EndedSince

(* A process begins with no check, no caller and no result.                *)
LEMMA FreshProbe ==
  ASSUME running = FALSE, done = FALSE, result = NotYetChecked, workers = {},
         prober = [p \in Probers |-> Away], ended = 0
  PROVE  ProbeInv
<1>1. /\ prober \in [Probers -> Caller]
      /\ \A p \in Probers : prober[p].pc = "away" /\ prober[p].from = 0
  BY AwayCaller
<1>2. result \in [ok : BOOLEAN, at : Nat] /\ result.at = 0
  BY DEF NotYetChecked
<1>3. ProbeTypeOK
  BY <1>1, <1>2 DEF ProbeTypeOK
<1>4. OneCheck
  BY DEF OneCheck
<1>5. EndedSince
  BY <1>1 DEF EndedSince
<1> QED
  BY <1>2, <1>3, <1>4, <1>5 DEF ProbeInv

(* A step of one caller leaves the result and the count of ended checks.   *)
LEMMA CallerKeeps ==
  ASSUME ProbeInv, NEW p \in Probers,
         Probe(p) \/ Wake(p) \/ TimeOut(p) \/ ReadResult(p) \/ Respond(p)
  PROVE  ProbeInv'
<1>1. CASE Probe(p)
  <2> DEFINE new == [Away EXCEPT !.pc = "waiting", !.from = ended]
  <2>0. /\ new \in Caller
        /\ new.pc = "waiting" /\ new.from = ended
    BY DEF Away, Caller, ProbeInv, ProbeTypeOK
  <2>1. prober' = [prober EXCEPT ![p] = new] /\ UNCHANGED <<result, ended>>
    BY <1>1 DEF Probe
  <2> HIDE DEF new
  <2>2. ~done' /\ done' \in BOOLEAN /\ running' = TRUE
    BY <1>1 DEF Probe, Cleared, ProbeInv, ProbeTypeOK, OneCheck
  <2>3. OneCheck'
    <3>1. CASE running
      BY <1>1, <3>1 DEF Probe, ProbeInv, OneCheck
    <3>2. CASE ~running
      BY <1>1, <2>2, <3>2 DEF Probe, ProbeInv, OneCheck
    <3> QED
      BY <3>1, <3>2
  <2>4. ProbeTypeOK'
    BY <2>0, <2>1, <2>2 DEF ProbeInv, ProbeTypeOK
  <2>5. EndedSince'
    BY <2>0, <2>1, <2>2 DEF ProbeInv, ProbeTypeOK, EndedSince, Caller
  <2> QED
    BY <2>1, <2>3, <2>4, <2>5 DEF ProbeInv
<1>2. CASE Wake(p)
  <2>1. prober[p].from < ended
    BY <1>2 DEF Wake, ProbeInv, ProbeTypeOK, EndedSince, Caller
  <2> QED
    BY <1>2, <2>1 DEF Wake, ProbeInv, ProbeTypeOK, OneCheck, EndedSince, Caller
<1>3. CASE TimeOut(p)
  BY <1>3 DEF TimeOut, ProbeInv, ProbeTypeOK, OneCheck, EndedSince, Caller
<1>4. CASE ReadResult(p)
  <2>1. prober[p].from < result.at
    BY <1>4 DEF ReadResult, ProbeInv, EndedSince
  <2>2. ProbeTypeOK'
    <3> DEFINE answer == IF result.ok THEN "ok" ELSE "failed"
               new == [prober[p] EXCEPT !.pc = "answered", !.answer = answer, !.at = result.at]
    <3>1. answer \in {"ok", "failed"} /\ result.at \in Nat /\ prober[p] \in Caller
      BY DEF ProbeInv, ProbeTypeOK
    <3> HIDE DEF answer
    <3>2. new \in Caller
      BY <3>1 DEF Caller
    <3>3. prober' = [prober EXCEPT ![p] = new]
      BY <1>4, <3>1 DEF ReadResult, ProbeInv, ProbeTypeOK, answer, Caller
    <3> HIDE DEF new
    <3> QED
      BY <1>4, <3>2, <3>3 DEF ReadResult, ProbeInv, ProbeTypeOK
  <2>3. OneCheck'
    BY <1>4 DEF ReadResult, ProbeInv, OneCheck
  <2>4. EndedSince'
    BY <1>4, <2>1 DEF ReadResult, ProbeInv, ProbeTypeOK, Caller, EndedSince
  <2> QED
    BY <1>4, <2>2, <2>3, <2>4 DEF ReadResult, ProbeInv
<1>5. CASE Respond(p)
  <2>1. prober' = [prober EXCEPT ![p] = Away] /\ UNCHANGED <<running, done, result, workers, ended>>
    BY <1>5 DEF Respond
  <2>2. ProbeTypeOK'
    BY <2>1, AwayCaller DEF ProbeInv, ProbeTypeOK
  <2>3. OneCheck'
    BY <2>1 DEF ProbeInv, OneCheck
  <2>4. EndedSince'
    BY <2>1, AwayCaller DEF ProbeInv, ProbeTypeOK, EndedSince
  <2> QED
    BY <2>1, <2>2, <2>3, <2>4 DEF ProbeInv
<1> QED
  BY <1>1, <1>2, <1>3, <1>4, <1>5

(* The end of the check: there is no other thread to be left over, and     *)
(* every caller came before it.                                            *)
LEMMA EndCheckKeeps ==
  ASSUME ProbeInv, NEW w \in workers, EndCheck(w)
  PROVE  ProbeInv'
<1>1. workers' = {} /\ ~running' /\ done'
  BY DEF ProbeInv, OneCheck, EndCheck
<1>2. ended' = ended + 1 /\ result'.at = ended' /\ UNCHANGED prober
  BY DEF EndCheck
<1>3. ProbeTypeOK'
  <2>1. PICK ok \in BOOLEAN : result' = [ok |-> ok, at |-> ended + 1]
    BY DEF EndCheck
  <2>2. result' \in [ok : BOOLEAN, at : Nat]
    BY <2>1 DEF ProbeInv, ProbeTypeOK
  <2> QED
    BY <1>1, <1>2, <2>2 DEF ProbeInv, ProbeTypeOK, EndCheck
<1>4. OneCheck'
  BY <1>1 DEF OneCheck
<1>5. EndedSince'
  BY <1>2 DEF ProbeInv, ProbeTypeOK, EndedSince, Caller
<1> QED
  BY <1>2, <1>3, <1>4, <1>5 DEF ProbeInv

LEMMA ProbeInvHolds == ProbeSpec => []ProbeInv
<1>1. ProbeInit => ProbeInv
  BY FreshProbe DEF ProbeInit
<1>2. ProbeInv /\ [ProbeNext]_probeVars => ProbeInv'
  <2> SUFFICES ASSUME ProbeInv, [ProbeNext]_probeVars
               PROVE  ProbeInv'
    OBVIOUS
  <2>1. ASSUME NEW p \in Probers,
               Probe(p) \/ Wake(p) \/ TimeOut(p) \/ ReadResult(p) \/ Respond(p)
        PROVE  ProbeInv'
    BY <2>1, CallerKeeps
  <2>2. ASSUME NEW w \in workers, EndCheck(w)
        PROVE  ProbeInv'
    BY <2>2, EndCheckKeeps
  <2>3. CASE ProbeRestart
    <3>1. /\ prober' \in [Probers -> Caller]
          /\ \A p \in Probers : prober'[p].pc = "away" /\ prober'[p].from = 0
      BY <2>3, AwayCaller DEF ProbeRestart
    <3>2. result' \in [ok : BOOLEAN, at : Nat] /\ result'.at = 0
      BY <2>3 DEF ProbeRestart, NotYetChecked
    <3>3. ProbeTypeOK'
      BY <2>3, <3>1, <3>2 DEF ProbeRestart, ProbeTypeOK
    <3>4. OneCheck'
      BY <2>3 DEF ProbeRestart, OneCheck
    <3>5. EndedSince'
      BY <2>3, <3>1 DEF ProbeRestart, EndedSince
    <3> QED
      BY <2>3, <3>2, <3>3, <3>4, <3>5 DEF ProbeRestart, ProbeInv
  <2>4. CASE UNCHANGED probeVars
    BY <2>4 DEF probeVars, ProbeInv, ProbeTypeOK, OneCheck, EndedSince, Caller
  <2> QED
    BY <2>1, <2>2, <2>3, <2>4 DEF ProbeNext
<1> QED
  BY <1>1, <1>2, PTL DEF ProbeSpec

(* BoundedCheck: whatever the database and the threads do, an answer of    *)
(* "ok" or "failed" is the outcome of a check that ended after the request *)
(* came, and at most one thread is in the database.                        *)
THEOREM ProbeAnswersFresh == ProbeSpec => []AnswersAreFresh
<1>1. ProbeInv => AnswersAreFresh
  <2> SUFFICES ASSUME ProbeInv
               PROVE  AnswersAreFresh
    OBVIOUS
  <2>1. Cardinality(workers) <= 1
    <3>1. CASE ~running
      BY <3>1, FS_EmptySet DEF ProbeInv, OneCheck
    <3>2. CASE running
      <4>1. PICK w : workers = {w}
        BY <3>2 DEF ProbeInv, OneCheck
      <4>2. Cardinality({w}) = 1
        BY FS_Singleton
      <4> QED
        BY <4>1, <4>2
    <3> QED
      BY <3>1, <3>2
  <2> QED
    BY <2>1 DEF ProbeInv, ProbeTypeOK, EndedSince, AnswersAreFresh
<1> QED
  BY <1>1, ProbeInvHolds, PTL

-----------------------------------------------------------------------------
(***************************************************************************)
(* The exports of the snapshot, for any number of them at once, any files. *)
(***************************************************************************)

Export == [pc : {"idle", "compare", "written", "flushed", "replaced"}, todo : Seq(Names),
           doc : Documents \cup {""}, flushed : BOOLEAN, place : Nat]

(* Content that was flushed before it took its name.                       *)
Version == [doc : Documents, flushed : {TRUE}]

(* What an export under way has to do, and what it has done of it: its     *)
(* document is flushed before it takes a name, and the place it took is    *)
(* among those of the name.                                                *)
ExportInv(e) ==
  /\ exporter[e] \in Export
  /\ exporter[e].pc # "idle" => exporter[e].todo # <<>>
  /\ exporter[e].pc \in {"written", "flushed"} => exporter[e].doc \in Documents
  /\ exporter[e].pc = "flushed" => exporter[e].flushed
  /\ exporter[e].pc = "replaced" => exporter[e].place \in 0 .. Len(files[Name(e)])

(* What a name was given was flushed by then, so that a power loss takes   *)
(* replacements and never content.                                         *)
FilesInv ==
  /\ files \in [Names -> Seq(Version)]
  /\ durable \in [Names -> Nat] /\ reported \in [Names -> Nat]
  /\ \A n \in Names : reported[n] <= durable[n] /\ durable[n] <= Len(files[n])

SnapInv ==
  /\ FilesInv
  /\ DOMAIN exporter = Exporters /\ exporter = [e \in Exporters |-> exporter[e]]
  /\ \A e \in Exporters : ExportInv(e)

-----------------------------------------------------------------------------
(* A job names only files that are exported.                               *)
LEMMA JobNames ==
  ASSUME NEW job \in Jobs
  PROVE  job \in Seq(Names) /\ job # <<>>
<1>1. job \in Seq({job[i] : i \in DOMAIN job}) /\ Len(job) > 0
  BY SnapAssumption
<1>2. {job[i] : i \in DOMAIN job} \subseteq Names
  BY DEF Names
<1>3. job \in Seq(Names)
  BY <1>1, <1>2, SeqMonotonic
<1>4. job # <<>>
  BY <1>1
<1> QED
  BY <1>3, <1>4

(* A step of one export that leaves the files alone.                       *)
LEMMA ExportKeeps ==
  ASSUME SnapInv, NEW e \in Exporters, NEW x, exporter' = [exporter EXCEPT ![e] = x],
         UNCHANGED <<files, durable, reported>>,
         x \in Export,
         x.pc # "idle" => x.todo # <<>>,
         x.pc \in {"written", "flushed"} => x.doc \in Documents,
         x.pc = "flushed" => x.flushed,
         x.pc # "replaced"
  PROVE  SnapInv'
<1>1. exporter'[e] = x /\ \A d \in Exporters \ {e} : exporter'[d] = exporter[d]
  BY DEF SnapInv
<1>2. ASSUME NEW d \in Exporters
      PROVE  ExportInv(d)'
  <2>1. CASE d = e
    BY <1>1, <2>1 DEF ExportInv
  <2>2. CASE d # e
    BY <1>1, <2>2 DEF SnapInv, ExportInv, Name
  <2> QED
    BY <2>1, <2>2
<1>3. FilesInv'
  BY DEF SnapInv, FilesInv
<1> QED
  BY <1>2, <1>3 DEF SnapInv

LEMMA NoExportTyped == NoExport \in Export /\ NoExport.pc = "idle"
BY EmptySeq DEF NoExport, Export

(* A fresh export of the files that are to do.                             *)
LEMMA CompareTyped ==
  ASSUME NEW todo \in Seq(Names)
  PROVE  LET x == [NoExport EXCEPT !.pc = "compare", !.todo = todo] IN
           x \in Export /\ x.pc = "compare" /\ x.todo = todo
BY NoExportTyped DEF Export

(* After a file an export goes on to the next one, or ends.                *)
LEMMA NextFileSound ==
  ASSUME SnapInv, NEW e \in Exporters, exporter[e].pc # "idle"
  PROVE  /\ NextFile(e) \in Export /\ NextFile(e).pc \in {"idle", "compare"}
         /\ NextFile(e).pc # "idle" => NextFile(e).todo # <<>>
<1> DEFINE todo == exporter[e].todo
<1>1. todo \in Seq(Names) /\ todo # <<>>
  BY DEF SnapInv, ExportInv, Export
<1>2. CASE Len(todo) = 1
  <2>1. NextFile(e) = NoExport
    BY <1>2 DEF NextFile
  <2> QED
    BY <2>1, NoExportTyped
<1>3. CASE Len(todo) # 1
  <2>1. Tail(todo) \in Seq(Names) /\ Len(Tail(todo)) = Len(todo) - 1 /\ Len(todo) \in Nat \ {0}
    BY <1>1, HeadTailProperties, LenProperties, EmptySeq
  <2>2. Tail(todo) # <<>>
    <3>1. Len(Tail(todo)) # 0
      BY <1>3, <2>1
    <3> QED
      BY <2>1, <3>1, EmptySeq
  <2>3. NextFile(e) = [NoExport EXCEPT !.pc = "compare", !.todo = Tail(todo)]
    BY <1>3 DEF NextFile
  <2> QED
    BY <2>1, <2>2, <2>3, CompareTyped
<1> QED
  BY <1>2, <1>3

LEMMA BuildKeeps ==
  ASSUME SnapInv, NEW e \in Exporters, BuildDocuments(e)
  PROVE  SnapInv'
<1>1. PICK job \in Jobs :
        exporter' = [exporter EXCEPT ![e] = [NoExport EXCEPT !.pc = "compare", !.todo = job]]
  BY DEF BuildDocuments
<1> DEFINE x == [NoExport EXCEPT !.pc = "compare", !.todo = job]
<1>2. x \in Export /\ x.pc = "compare" /\ x.todo = job /\ job # <<>>
  BY JobNames, CompareTyped
<1>3. exporter' = [exporter EXCEPT ![e] = x] /\ UNCHANGED <<files, durable, reported>>
  BY <1>1 DEF BuildDocuments
<1> HIDE DEF x
<1> QED
  BY <1>2, <1>3, ExportKeeps

LEMMA CompareKeeps ==
  ASSUME SnapInv, NEW e \in Exporters, CompareFile(e)
  PROVE  SnapInv'
<1>1. /\ exporter[e].pc = "compare" /\ UNCHANGED <<files, durable, reported>>
      /\ exporter[e] \in Export /\ exporter[e].todo # <<>>
  BY DEF CompareFile, ExportAt, SnapInv, ExportInv
<1>2. PICK doc \in Documents :
        exporter' = [exporter EXCEPT ![e] =
            IF Seen(Name(e)) = doc THEN NextFile(e)
            ELSE [exporter[e] EXCEPT !.pc = "written", !.doc = doc]]
  BY DEF CompareFile
<1>3. CASE Seen(Name(e)) = doc
  <2>1. exporter' = [exporter EXCEPT ![e] = NextFile(e)]
    BY <1>2, <1>3
  <2>2. exporter[e].pc # "idle"
    BY <1>1
  <2> QED
    BY <1>1, <2>1, <2>2, NextFileSound, ExportKeeps
<1>4. CASE Seen(Name(e)) # doc
  <2> DEFINE x == [exporter[e] EXCEPT !.pc = "written", !.doc = doc]
  <2>1. exporter' = [exporter EXCEPT ![e] = x]
    BY <1>2, <1>4
  <2>2. x \in Export /\ x.pc = "written" /\ x.doc = doc /\ x.todo = exporter[e].todo
    BY <1>1 DEF Export
  <2> HIDE DEF x
  <2> QED
    BY <1>1, <2>1, <2>2, ExportKeeps
<1> QED
  BY <1>3, <1>4

LEMMA FlushFileKeeps ==
  ASSUME SnapInv, NEW e \in Exporters, FlushFile(e)
  PROVE  SnapInv'
<1> DEFINE x == [exporter[e] EXCEPT !.pc = "flushed", !.flushed = TRUE]
<1>1. /\ exporter[e].pc = "written" /\ UNCHANGED <<files, durable, reported>>
      /\ exporter[e] \in Export /\ exporter[e].todo # <<>> /\ exporter[e].doc \in Documents
  BY DEF FlushFile, ExportAt, SnapInv, ExportInv
<1>2. exporter' = [exporter EXCEPT ![e] = x]
  BY DEF FlushFile, Flushed
<1>3. /\ x \in Export /\ x.pc = "flushed" /\ x.flushed
      /\ x.doc = exporter[e].doc /\ x.todo = exporter[e].todo
  BY <1>1 DEF Export
<1> HIDE DEF x
<1> QED
  BY <1>1, <1>2, <1>3, ExportKeeps

LEMMA ExportDiesKeeps ==
  ASSUME SnapInv, NEW e \in Exporters, ExportDies(e)
  PROVE  SnapInv'
BY NoExportTyped, ExportKeeps DEF ExportDies

(* os.replace appends a flushed document to what the name was given.       *)
LEMMA ReplaceKeeps ==
  ASSUME SnapInv, NEW e \in Exporters, ReplaceFile(e)
  PROVE  SnapInv'
<1> DEFINE n == Name(e)
           row == [doc |-> exporter[e].doc, flushed |-> exporter[e].flushed]
           top == Len(files'[n])
           x == [exporter[e] EXCEPT !.pc = "replaced", !.place = top]
<1>1. /\ exporter[e].pc = "flushed" /\ exporter[e] \in Export /\ exporter[e].todo # <<>>
      /\ exporter[e].doc \in Documents /\ exporter[e].flushed
  BY DEF ReplaceFile, ExportAt, SnapInv, ExportInv
<1>2. n \in Names
  <2>1. exporter[e].todo \in Seq(Names)
    BY <1>1 DEF Export
  <2> QED
    BY <1>1, <2>1, HeadTailProperties DEF Name
<1>3. row \in Version
  BY <1>1 DEF Export, Version
<1>3a. /\ files' = [files EXCEPT ![n] = Append(@, row)]
       /\ exporter' = [exporter EXCEPT ![e].pc = "replaced", ![e].place = Len(files'[n])]
       /\ UNCHANGED <<durable, reported>>
  BY DEF ReplaceFile
<1>3b. [exporter EXCEPT ![e].pc = "replaced", ![e].place = Len(files'[n])]
         = [exporter EXCEPT ![e] = x]
  OBVIOUS
<1>4. /\ files' = [files EXCEPT ![n] = Append(files[n], row)]
      /\ exporter' = [exporter EXCEPT ![e] = x] /\ UNCHANGED <<durable, reported>>
  BY <1>3a, <1>3b
<1> HIDE DEF row
<1>5. /\ files[n] \in Seq(Version)
      /\ files'[n] = Append(files[n], row)
      /\ \A m \in Names \ {n} : files'[m] = files[m]
  BY <1>2, <1>4 DEF SnapInv, FilesInv
<1>6. /\ files'[n] \in Seq(Version)
      /\ Len(files'[n]) = Len(files[n]) + 1 /\ Len(files[n]) \in Nat
  BY <1>3, <1>5, AppendProperties, LenProperties
<1>7. FilesInv'
  <2>1. files' \in [Names -> Seq(Version)]
    BY <1>2, <1>4, <1>5, <1>6 DEF SnapInv, FilesInv
  <2>2. ASSUME NEW m \in Names
        PROVE  reported[m] <= durable[m] /\ durable[m] <= Len(files'[m])
    <3>1. /\ reported[m] <= durable[m] /\ durable[m] <= Len(files[m]) /\ durable[m] \in Nat
      BY DEF SnapInv, FilesInv
    <3>2. CASE m = n
      BY <1>6, <3>1, <3>2
    <3>3. CASE m # n
      BY <1>5, <3>1, <3>3
    <3> QED
      BY <3>2, <3>3
  <2> QED
    BY <1>4, <2>1, <2>2 DEF SnapInv, FilesInv
<1>7a. top \in Nat
  BY <1>6
<1> HIDE DEF top
<1>8. /\ x \in Export /\ x.pc = "replaced" /\ x.todo = exporter[e].todo
      /\ x.place = top
  BY <1>1, <1>7a DEF Export
<1> HIDE DEF x
<1> USE DEF top
<1>9. exporter'[e] = x /\ \A d \in Exporters \ {e} : exporter'[d] = exporter[d]
  BY <1>4 DEF SnapInv
<1>10. ASSUME NEW d \in Exporters
       PROVE  ExportInv(d)'
  <2>1. CASE d = e
    <3>1. Name(d)' = n
      BY <1>8, <1>9, <2>1 DEF Name
    <3>2. exporter'[d].place \in 0 .. Len(files'[Name(d)'])
      BY <1>6, <1>8, <1>9, <2>1, <3>1
    <3> QED
      BY <1>1, <1>8, <1>9, <2>1, <3>2 DEF ExportInv
  <2>2. CASE d # e
    <3>1. exporter'[d] = exporter[d] /\ ExportInv(d) /\ Name(d)' = Name(d)
      BY <1>9, <2>2 DEF SnapInv, Name
    <3>2. exporter[d].pc = "replaced" => exporter[d].place \in 0 .. Len(files'[Name(d)])
      <4>1. CASE Name(d) = n
        BY <1>6, <3>1, <4>1 DEF ExportInv
      <4>2. ASSUME exporter[d].pc = "replaced"
            PROVE  Name(d) \in Names
        <5>1. exporter[d].todo \in Seq(Names) /\ exporter[d].todo # <<>>
          BY <3>1, <4>2 DEF ExportInv, Export
        <5> QED
          BY <5>1, HeadTailProperties DEF Name
      <4> QED
        BY <1>5, <3>1, <4>1, <4>2 DEF ExportInv
    <3> QED
      BY <3>1, <3>2 DEF ExportInv
  <2> QED
    BY <2>1, <2>2
<1> QED
  BY <1>4, <1>7, <1>10 DEF SnapInv

(* The directory is flushed before anything is reported as written.        *)
LEMMA FlushDirectoryKeeps ==
  ASSUME SnapInv, NEW e \in Exporters, FlushDirectory(e)
  PROVE  SnapInv'
<1> DEFINE n == Name(e)
           place == exporter[e].place
<1>1. /\ exporter[e].pc = "replaced" /\ exporter[e] \in Export /\ exporter[e].todo # <<>>
      /\ place \in 0 .. Len(files[n])
  BY DEF FlushDirectory, ExportAt, SnapInv, ExportInv
<1>2. /\ durable' = [m \in Names |-> Len(files[m])] /\ UNCHANGED files
      /\ reported' = [reported EXCEPT ![n] = IF @ < place THEN place ELSE @]
      /\ exporter' = [exporter EXCEPT ![e] = NextFile(e)]
  BY DEF FlushDirectory
<1>3. \A m \in Names : Len(files[m]) \in Nat
  BY LenProperties DEF SnapInv, FilesInv
<1>4. FilesInv'
  <2>1. durable' \in [Names -> Nat] /\ \A m \in Names : durable'[m] = Len(files[m])
    BY <1>2, <1>3
  <2>2. /\ DOMAIN reported' = Names /\ reported' = [m \in Names |-> reported'[m]]
        /\ \A m \in Names : reported'[m] = reported[m] \/ (m = n /\ reported'[m] = place)
    BY <1>2 DEF SnapInv, FilesInv
  <2>3. ASSUME NEW m \in Names
        PROVE  reported'[m] \in Nat /\ reported'[m] <= Len(files[m])
    <3>1. /\ reported[m] <= durable[m] /\ durable[m] <= Len(files[m])
          /\ reported[m] \in Nat /\ durable[m] \in Nat /\ Len(files[m]) \in Nat
      BY <1>3 DEF SnapInv, FilesInv
    <3>2. CASE reported'[m] = reported[m]
      BY <3>1, <3>2
    <3>3. CASE m = n /\ reported'[m] = place
      BY <1>1, <1>3, <3>3
    <3> QED
      BY <2>2, <3>2, <3>3
  <2>4. reported' \in [Names -> Nat]
    BY <2>2, <2>3
  <2>5. \A m \in Names : reported'[m] <= durable'[m] /\ durable'[m] <= Len(files'[m])
    BY <1>2, <1>3, <2>1, <2>3
  <2>6. files' \in [Names -> Seq(Version)]
    BY <1>2 DEF SnapInv, FilesInv
  <2> QED
    BY <2>1, <2>4, <2>5, <2>6 DEF FilesInv
<1>5. exporter'[e] = NextFile(e) /\ \A d \in Exporters \ {e} : exporter'[d] = exporter[d]
  BY <1>2 DEF SnapInv
<1>6. /\ NextFile(e) \in Export /\ NextFile(e).pc \in {"idle", "compare"}
      /\ NextFile(e).pc # "idle" => NextFile(e).todo # <<>>
  BY <1>1, NextFileSound
<1>7. ASSUME NEW d \in Exporters
      PROVE  ExportInv(d)'
  <2>1. CASE d = e
    BY <1>5, <1>6, <2>1 DEF ExportInv
  <2>2. CASE d # e
    BY <1>2, <1>5, <2>2 DEF SnapInv, ExportInv, Name
  <2> QED
    BY <2>1, <2>2
<1> QED
  BY <1>2, <1>4, <1>7 DEF SnapInv

(* A power loss takes back replacements that no directory flush has kept.  *)
LEMMA PowerLossKeeps ==
  ASSUME SnapInv, PowerLoss
  PROVE  SnapInv'
<1>1. exporter' = [e \in Exporters |-> NoExport] /\ UNCHANGED reported
  BY DEF PowerLoss
<1>2. PICK kept \in [Names -> 0 .. MaxReplaced] :
        /\ \A n \in Names : durable[n] <= kept[n] /\ kept[n] <= Len(files[n])
        /\ durable' = kept
        /\ files' = [n \in Names |-> [i \in 1 .. kept[n] |->
             IF files[n][i].flushed THEN files[n][i] ELSE [doc |-> "torn", flushed |-> TRUE]]]
  BY DEF PowerLoss
<1>3. kept \in [Names -> Nat]
  BY SnapAssumption
<1>4. ASSUME NEW n \in Names
      PROVE  /\ files'[n] \in Seq(Version)
             /\ Len(files'[n]) = kept[n]
  <2>1. files[n] \in Seq(Version)
    BY DEF SnapInv, FilesInv
  <2>2. kept[n] \in Nat /\ kept[n] <= Len(files[n]) /\ Len(files[n]) \in Nat
    BY <1>2, <1>3, <2>1, LenProperties
  <2>3. \A i \in 1 .. kept[n] : files[n][i] \in Version
    BY <2>1, <2>2, ElementOfSeq
  <2>4. files'[n] = [i \in 1 .. kept[n] |->
          IF files[n][i].flushed THEN files[n][i] ELSE [doc |-> "torn", flushed |-> TRUE]]
    BY <1>2
  <2>5. files'[n] \in [1 .. kept[n] -> Version]
    <3>1. \A i \in 1 .. kept[n] : files[n][i].flushed
      BY <2>3 DEF Version
    <3> QED
      BY <2>3, <2>4, <3>1
  <2>6. files'[n] \in Seq(Version)
    BY <2>2, <2>5, SeqDef
  <2>7. DOMAIN files'[n] = 1 .. Len(files'[n]) /\ Len(files'[n]) \in Nat
    BY <2>6, LenProperties
  <2>8. Len(files'[n]) = kept[n]
    BY <2>2, <2>5, <2>7
  <2> QED
    BY <2>6, <2>8
<1>5. FilesInv'
  <2>1. files' \in [Names -> Seq(Version)]
    BY <1>2, <1>4
  <2>2. \A n \in Names : reported'[n] <= durable'[n] /\ durable'[n] <= Len(files'[n])
    BY <1>1, <1>2, <1>3, <1>4 DEF SnapInv, FilesInv
  <2> QED
    BY <1>1, <1>2, <1>3, <2>1, <2>2 DEF SnapInv, FilesInv
<1>6. \A e \in Exporters : ExportInv(e)'
  BY <1>1, NoExportTyped DEF ExportInv
<1> QED
  BY <1>1, <1>5, <1>6 DEF SnapInv

LEMMA SnapInvHolds == SnapSpec => []SnapInv
<1>1. SnapInit => SnapInv
  <2> SUFFICES ASSUME SnapInit
               PROVE  SnapInv
    OBVIOUS
  <2>1. /\ files = [n \in Names |-> <<>>] /\ durable = [n \in Names |-> 0]
        /\ reported = [n \in Names |-> 0] /\ exporter = [e \in Exporters |-> NoExport]
    BY DEF SnapInit
  <2>2. FilesInv
    BY <2>1 DEF FilesInv
  <2>3. \A e \in Exporters : ExportInv(e)
    BY <2>1, NoExportTyped DEF ExportInv
  <2> QED
    BY <2>1, <2>2, <2>3 DEF SnapInv
<1>2. SnapInv /\ UNCHANGED snapVars => SnapInv'
  <2> SUFFICES ASSUME SnapInv, UNCHANGED snapVars
               PROVE  SnapInv'
    OBVIOUS
  <2>1. FilesInv' /\ \A e \in Exporters : ExportInv(e)'
    BY DEF snapVars, SnapInv, FilesInv, ExportInv, Name
  <2> QED
    BY <2>1 DEF snapVars, SnapInv
<1>3. SnapInv /\ [SnapNext]_snapVars => SnapInv'
  BY <1>2, BuildKeeps, CompareKeeps, FlushFileKeeps, ReplaceKeeps, FlushDirectoryKeeps,
     ExportDiesKeeps, PowerLossKeeps DEF SnapNext
<1> QED
  BY <1>1, <1>3, PTL DEF SnapSpec

(* write_atomic: whatever exports run at once and die, and whatever the    *)
(* power takes, a published name shows a whole document or is absent, and  *)
(* what was reported as written is kept.                                   *)
THEOREM PublishedIsWhole == SnapSpec => []SnapshotsAreWhole
<1>1. SnapInv => SnapshotsAreWhole
  <2> SUFFICES ASSUME SnapInv, NEW n \in Names
               PROVE  /\ files[n] # <<>> => Seen(n) \in Documents
                      /\ reported[n] <= Len(files[n])
    BY DEF SnapshotsAreWhole
  <2>1. files[n] \in Seq(Version)
    BY DEF SnapInv, FilesInv
  <2>2. ASSUME files[n] # <<>>
        PROVE  Seen(n) \in Documents
    <3>1. Len(files[n]) \in Nat /\ Len(files[n]) # 0
      BY <2>1, <2>2, LenProperties, EmptySeq
    <3>2. files[n][Len(files[n])] \in Version
      BY <2>1, <3>1, ElementOfSeq
    <3> QED
      BY <2>2, <3>2 DEF Seen, Version
  <2>3. reported[n] <= Len(files[n])
    <3>1. Len(files[n]) \in Nat
      BY <2>1, LenProperties
    <3> QED
      BY <3>1 DEF SnapInv, FilesInv
  <2> QED
    BY <2>2, <2>3
<1> QED
  BY <1>1, SnapInvHolds, PTL

-----------------------------------------------------------------------------
(* A set of numbers that is not empty has a least one.                     *)
LEMMA Least ==
  ASSUME NEW S \in SUBSET Nat, S # {}
  PROVE  \E o \in S : \A p \in S : o <= p
<1>1. \E o \in S : \A p \in S : ~ (<<p, o>> \in OpToRel(<, Nat))
  BY NatLessThanWellFounded, WFMin, Zenon
<1>2. PICK o \in S : \A p \in S : ~ (<<p, o>> \in OpToRel(<, Nat))
  BY <1>1, Zenon
<1>3. ASSUME NEW p \in S
      PROVE  o <= p
  <2>1. ~ (p < o)
    BY <1>2, <1>3, Zenon DEF OpToRel
  <2> QED
    BY <2>1
<1> QED
  BY <1>3

-----------------------------------------------------------------------------
(***************************************************************************)
(* The facts of a KEV entry, for any lexemes, widths and limits.           *)
(***************************************************************************)

Text == Seq(Piece)
Start(x, k) == SubSeq(x, 1, k)
WidthOf(a) == IF a \in Facts THEN SentenceWidth ELSE 1

LEMMA Numbers ==
  /\ SentenceWidth \in Nat /\ SentenceWidth >= 1
  /\ MaxDescription \in Nat /\ MaxDescription > 1
  /\ MaxSummary \in Nat /\ MaxSummary > 2 * SentenceWidth + 4
<1>1. SentenceWidth \in Nat \ {0} /\ MaxDescription \in Nat \ {0, 1}
  BY KevAssumption DEF KevAssumption
<1>2. MaxSummary \in Nat /\ MaxSummary > 2 * SentenceWidth + 4
  BY KevAssumption DEF KevAssumption
<1> QED
  BY <1>1, <1>2

LEMMA Lexemes ==
  /\ Descriptions \subseteq Text /\ Dues \subseteq Facts /\ Facts \subseteq Piece
  /\ Ransomware \in Facts /\ Ransomware \notin Dues /\ NoDue \notin Dues
  /\ " " \in Piece /\ "." \in Piece /\ "~" \in Piece /\ "w" \in Piece
  /\ " " \notin Facts /\ "." \notin Facts /\ "~" \notin Facts /\ "w" \notin Facts
  /\ "<" \notin Facts /\ ">" \notin Facts
BY KevAssumption DEF KevAssumption, Facts, Text

LEMMA TextIs ==
  ASSUME NEW x \in Text
  PROVE  /\ Len(x) \in Nat /\ DOMAIN x = 1 .. Len(x)
         /\ \A i \in 1 .. Len(x) : x[i] \in Piece
         /\ Len(x) = 0 <=> x = <<>>
BY LenProperties, ElementOfSeq, EmptySeq DEF Text

LEMMA SameText ==
  ASSUME NEW x \in Text, NEW y \in Text, Len(x) = Len(y),
         \A i \in 1 .. Len(x) : x[i] = y[i]
  PROVE  x = y
BY SeqEqual DEF Text

LEMMA StartIs ==
  ASSUME NEW x \in Text, NEW k \in 0 .. Len(x)
  PROVE  /\ Start(x, k) \in Text /\ Len(Start(x, k)) = k
         /\ \A i \in 1 .. k : Start(x, k)[i] = x[i]
         /\ k = 0 => Start(x, k) = <<>>
         /\ k = Len(x) => Start(x, k) = x
<1>0. Len(x) \in Nat
  BY TextIs
<1>1. /\ Start(x, k) \in Text /\ Len(Start(x, k)) = k
      /\ \A i \in 1 .. k : Start(x, k)[i] = x[i]
  BY <1>0, SubSeqProperties DEF Start, Text
<1>2. k = 0 => Start(x, k) = <<>>
  BY <1>1, TextIs
<1>3. k = Len(x) => Start(x, k) = x
  BY <1>1, SameText
<1> QED
  BY <1>1, <1>2, <1>3

LEMMA AppendIs ==
  ASSUME NEW x \in Text, NEW a \in Piece
  PROVE  /\ Append(x, a) \in Text /\ Len(Append(x, a)) = Len(x) + 1
         /\ \A i \in 1 .. Len(x) : Append(x, a)[i] = x[i]
         /\ Append(x, a)[Len(x) + 1] = a
         /\ Append(x, a) # <<>> /\ Last(Append(x, a)) = a
         /\ Front(Append(x, a)) = x
         /\ Start(Append(x, a), Len(x)) = x
<1>0. Len(x) \in Nat
  BY TextIs
<1>1. /\ Append(x, a) \in Text /\ Len(Append(x, a)) = Len(x) + 1
      /\ \A i \in 1 .. Len(x) : Append(x, a)[i] = x[i]
      /\ Append(x, a)[Len(x) + 1] = a
  BY <1>0, AppendProperties DEF Text
<1>2. Append(x, a) # <<>>
  BY <1>0, <1>1, TextIs
<1>3. Last(Append(x, a)) = a
  BY <1>1 DEF Last
<1>4. Start(Append(x, a), Len(x)) = x
  <2>1. Len(x) \in 0 .. Len(Append(x, a))
    BY <1>0, <1>1
  <2>2. /\ Start(Append(x, a), Len(x)) \in Text /\ Len(Start(Append(x, a), Len(x))) = Len(x)
        /\ \A i \in 1 .. Len(x) : Start(Append(x, a), Len(x))[i] = Append(x, a)[i]
    BY <1>1, <2>1, StartIs
  <2> QED
    BY <1>1, <2>2, SameText
<1>5. Front(Append(x, a)) = x
  <2>1. Len(Append(x, a)) - 1 = Len(x)
    BY <1>0, <1>1
  <2> QED
    BY <2>1, <1>4 DEF Front, Start
<1> QED
  BY <1>1, <1>2, <1>3, <1>4, <1>5

(* The beginnings of a text grow by a lexeme.                              *)
LEMMA StartGrows ==
  ASSUME NEW x \in Text, NEW k \in 1 .. Len(x)
  PROVE  /\ x[k] \in Piece /\ k - 1 \in 0 .. Len(x)
         /\ Start(x, k) = Append(Start(x, k - 1), x[k])
<1>0. Len(x) \in Nat /\ x[k] \in Piece /\ k - 1 \in 0 .. Len(x) /\ k \in 0 .. Len(x)
  BY TextIs
<1> DEFINE y == Start(x, k - 1)
<1>1. y \in Text /\ Len(y) = k - 1 /\ \A i \in 1 .. (k - 1) : y[i] = x[i]
  BY <1>0, StartIs
<1>2. Start(x, k) \in Text /\ Len(Start(x, k)) = k /\ \A i \in 1 .. k : Start(x, k)[i] = x[i]
  BY <1>0, StartIs
<1> HIDE DEF y
<1>3. /\ Append(y, x[k]) \in Text /\ Len(Append(y, x[k])) = k
      /\ \A i \in 1 .. (k - 1) : Append(y, x[k])[i] = x[i]
      /\ Append(y, x[k])[k] = x[k]
  BY <1>0, <1>1, AppendIs
<1>4. \A i \in 1 .. k : Append(y, x[k])[i] = x[i]
  BY <1>0, <1>3
<1>5. Start(x, k) = Append(y, x[k])
  BY <1>2, <1>3, <1>4, SameText
<1> QED
  BY <1>0, <1>5 DEF y

LEMMA StartOfStart ==
  ASSUME NEW x \in Text, NEW k \in 0 .. Len(x), NEW j \in 0 .. k
  PROVE  /\ j \in 0 .. Len(x) /\ Start(Start(x, k), j) = Start(x, j)
<1>0. Len(x) \in Nat /\ j \in 0 .. Len(x)
  BY TextIs
<1> DEFINE y == Start(x, k)
<1>1. y \in Text /\ Len(y) = k /\ \A i \in 1 .. k : y[i] = x[i]
  BY <1>0, StartIs
<1>2. Start(x, j) \in Text /\ Len(Start(x, j)) = j /\ \A i \in 1 .. j : Start(x, j)[i] = x[i]
  BY <1>0, StartIs
<1> HIDE DEF y
<1>3. Start(y, j) \in Text /\ Len(Start(y, j)) = j /\ \A i \in 1 .. j : Start(y, j)[i] = y[i]
  BY <1>1, StartIs
<1>4. \A i \in 1 .. j : Start(y, j)[i] = Start(x, j)[i]
  BY <1>0, <1>1, <1>2, <1>3
<1>5. Start(y, j) = Start(x, j)
  BY <1>2, <1>3, <1>4, SameText
<1> QED
  BY <1>0, <1>5 DEF y

-----------------------------------------------------------------------------
(* Widths add up.                                                          *)
LEMMA WidthGoes ==
  ASSUME NEW x \in Text
  PROVE  /\ Width(x) \in Nat /\ Len(x) <= Width(x)
         /\ x = <<>> => Width(x) = 0
         /\ \A a \in Piece : Width(Append(x, a)) = Width(x) + WidthOf(a)
<1> DEFINE F(y) == {i \in DOMAIN y : y[i] \in Facts}
           s == SentenceWidth - 1
<1>0. s \in Nat /\ Len(x) \in Nat /\ DOMAIN x = 1 .. Len(x)
  BY Numbers, TextIs
<1>1. IsFiniteSet(F(x)) /\ Cardinality(F(x)) \in Nat
  <2>1. IsFiniteSet(1 .. Len(x))
    BY <1>0, FS_Interval
  <2>2. F(x) \subseteq 1 .. Len(x)
    BY <1>0
  <2> HIDE DEF F
  <2> QED
    BY <2>1, <2>2, FS_Subset, FS_CardinalityType
<1>2. Width(x) = Len(x) + s * Cardinality(F(x))
  BY DEF Width
<1>3. \A y \in Text, a \in Piece : Width(Append(y, a)) = Len(Append(y, a)) + s * Cardinality(F(Append(y, a)))
  BY DEF Width
<1>4. Width(x) \in Nat /\ Len(x) <= Width(x)
  <2> HIDE DEF F, s
  <2> QED
    BY <1>0, <1>1, <1>2
<1>5. x = <<>> => Width(x) = 0
  <2> SUFFICES ASSUME x = <<>>
               PROVE  Width(x) = 0
    OBVIOUS
  <2>1. Len(x) = 0 /\ F(x) = {}
    BY <1>0
  <2>2. Cardinality(F(x)) = 0
    BY <2>1, FS_EmptySet
  <2> HIDE DEF F, s
  <2> QED
    BY <1>0, <1>2, <2>1, <2>2
<1>6. ASSUME NEW a \in Piece
      PROVE  Width(Append(x, a)) = Width(x) + WidthOf(a)
  <2> DEFINE y == Append(x, a)
             l == Len(x) + 1
  <2>1. y \in Text /\ Len(y) = l /\ y[l] = a /\ \A i \in 1 .. Len(x) : y[i] = x[i]
    BY AppendIs
  <2>2. DOMAIN y = 1 .. l /\ l \in 1 .. l /\ l \notin 1 .. Len(x) /\ \A i \in 1 .. l : i = l \/ i \in 1 .. Len(x)
    BY <1>0, <2>1, TextIs
  <2>3. l \notin F(x)
    BY <1>0, <2>2
  <2>4. CASE a \in Facts
    <3>1. F(y) = F(x) \cup {l}
      BY <1>0, <2>1, <2>2, <2>4
    <3>2. Cardinality(F(y)) = Cardinality(F(x)) + 1
      <4> HIDE DEF F, y, l
      <4> QED
        BY <1>1, <2>3, <3>1, FS_AddElement
    <3>3. Width(y) = l + s * Cardinality(F(y))
      BY <1>3, <2>1
    <3>4. WidthOf(a) = s + 1
      BY <2>4, Numbers DEF WidthOf
    <3> HIDE DEF F, y, s
    <3>5. s * (Cardinality(F(x)) + 1) = s * Cardinality(F(x)) + s
      BY <1>0, <1>1
    <3>6. Width(y) = Width(x) + WidthOf(a)
      BY <1>0, <1>1, <1>2, <3>2, <3>3, <3>4, <3>5
    <3> QED
      BY <3>6 DEF y
  <2>5. CASE a \notin Facts
    <3>1. F(y) = F(x)
      BY <1>0, <2>1, <2>2, <2>5
    <3>3. Width(y) = l + s * Cardinality(F(y))
      BY <1>3, <2>1
    <3>4. WidthOf(a) = 1
      BY <2>5 DEF WidthOf
    <3> HIDE DEF F, y, s
    <3>6. Width(y) = Width(x) + WidthOf(a)
      BY <1>0, <1>1, <1>2, <3>1, <3>3, <3>4
    <3> QED
      BY <3>6 DEF y
  <2> QED
    BY <2>4, <2>5
<1> QED
  BY <1>4, <1>5, <1>6

LEMMA WidthOfIs == \A a : WidthOf(a) \in Nat /\ WidthOf(a) >= 1
BY Numbers DEF WidthOf

(* A beginning is less wide than the text by the lexeme that follows it.   *)
LEMMA StartIsNarrower ==
  ASSUME NEW x \in Text, NEW k \in 0 .. Len(x)
  PROVE  /\ Width(Start(x, k)) \in Nat /\ Width(Start(x, k)) <= Width(x)
         /\ k < Len(x) => Width(Start(x, k)) + WidthOf(x[k + 1]) <= Width(x)
<1> DEFINE W(j) == Width(Start(x, j))
           Bad == {j \in k .. Len(x) : ~ W(k) <= W(j)}
<1>0. Len(x) \in Nat
  BY TextIs
<1>1. \A j \in 0 .. Len(x) : W(j) \in Nat
  BY StartIs, WidthGoes
<1>2. \A j \in 1 .. Len(x) : j - 1 \in 0 .. Len(x) /\ W(j) = W(j - 1) + WidthOf(x[j])
  BY StartGrows, StartIs, WidthGoes
<1>3. \A j, l \in 0 .. Len(x) : j <= l => W(j) <= W(l)
  <2> SUFFICES ASSUME NEW j \in 0 .. Len(x)
               PROVE  \A l \in j .. Len(x) : W(j) <= W(l)
    BY <1>0
  <2> DEFINE Worse == {l \in j .. Len(x) : ~ W(j) <= W(l)}
  <2> SUFFICES ASSUME Worse # {}
               PROVE  FALSE
    OBVIOUS
  <2>1. PICK l \in Worse : \A m \in Worse : l <= m
    <3>1. Worse \in SUBSET Nat
      BY <1>0
    <3> HIDE DEF Worse
    <3> QED
      BY <3>1, Least
  <2> HIDE DEF W
  <2>2. l \in j .. Len(x) /\ l # j
    BY <1>1, <2>1
  <2>3. l - 1 \in j .. Len(x) /\ l - 1 < l /\ l \in 1 .. Len(x)
    BY <1>0, <2>2
  <2>4. W(j) <= W(l - 1)
    BY <2>1, <2>3
  <2>5. l \in 0 .. Len(x) /\ W(l) = W(l - 1) + WidthOf(x[l]) /\ WidthOf(x[l]) \in Nat
    BY <1>0, <1>2, <2>2, <2>3, WidthOfIs
  <2>6. W(l) \in Nat /\ W(l - 1) \in Nat /\ W(j) \in Nat
    BY <1>0, <1>1, <2>3, <2>5
  <2>7. ~ W(j) <= W(l)
    BY <2>1
  <2> QED
    BY <2>4, <2>5, <2>6, <2>7
<1>4. Len(x) \in 0 .. Len(x) /\ W(Len(x)) = Width(x)
  BY <1>0, StartIs
<1>5. k < Len(x) => W(k) + WidthOf(x[k + 1]) <= Width(x)
  <2> SUFFICES ASSUME k < Len(x)
               PROVE  W(k) + WidthOf(x[k + 1]) <= Width(x)
    OBVIOUS
  <2>1. k + 1 \in 1 .. Len(x) /\ k + 1 \in 0 .. Len(x) /\ (k + 1) - 1 = k
    BY <1>0
  <2>2. W(k + 1) = W(k) + WidthOf(x[k + 1])
    BY <1>2, <2>1
  <2> HIDE DEF W
  <2>3. W(k + 1) <= W(Len(x))
    BY <1>3, <1>4, <2>1
  <2> QED
    BY <1>4, <2>2, <2>3
<1> QED
  BY <1>1, <1>3, <1>4, <1>5
-----------------------------------------------------------------------------
(* Whether a lexeme is a space. *)
Space(a) == a = " "

(* Neither end of the text is a space.                                     *)
Edged(x) == x = <<>> \/ (~ Space(x[1]) /\ ~ Space(x[Len(x)]))

LEMMA Greatest ==
  ASSUME NEW n \in Nat, NEW S \in SUBSET (0 .. n), S # {}
  PROVE  \E o \in S : \A p \in S : p <= o
<1> DEFINE T == {n - p : p \in S}
<1>1. T \in SUBSET Nat /\ T # {}
  <2>1. \A p \in S : p \in Nat /\ n - p \in Nat
    OBVIOUS
  <2> QED
    BY <2>1
<1>2. PICK q \in T : \A p \in T : q <= p
  <2> HIDE DEF T
  <2> QED
    BY <1>1, Least
<1>3. PICK o \in S : q = n - o
  BY <1>2
<1>4. \A p \in S : n - o <= n - p
  BY <1>2, <1>3
<1> QED
  BY <1>4

(* Stripping cuts from the first lexeme that is no space to the last.      *)
StrippedTo(x, a, b) ==
  /\ Trimmed(x) = SubSeq(x, a, b) /\ ~ Space(x[a]) /\ ~ Space(x[b])
  /\ \A i \in 1 .. Len(x) : ~ Space(x[i]) => a <= i /\ i <= b

LEMMA TrimmedIs ==
  ASSUME NEW x \in Text
  PROVE  \/ Trimmed(x) = <<>> /\ \A i \in 1 .. Len(x) : Space(x[i])
         \/ \E a \in 1 .. Len(x) : \E b \in a .. Len(x) : StrippedTo(x, a, b)
<1> DEFINE inner == {i \in DOMAIN x : ~ Space(x[i])}
           First(i) == \A j \in inner : i <= j
           Final(i) == \A j \in inner : j <= i
<1>0. Len(x) \in Nat /\ DOMAIN x = 1 .. Len(x)
  BY TextIs
<1>1. CASE inner = {}
  <2>1. Trimmed(x) = <<>>
    BY <1>1 DEF Trimmed, Space
  <2> QED
    BY <1>0, <1>1, <2>1
<1>2. CASE inner # {}
  <2> DEFINE a == CHOOSE i \in inner : First(i)
             b == CHOOSE i \in inner : Final(i)
  <2>1. Trimmed(x) = SubSeq(x, a, b)
    BY <1>2 DEF Trimmed, Space
  <2>2. inner \in SUBSET Nat /\ inner \in SUBSET (0 .. Len(x))
    BY <1>0
  <2> HIDE DEF inner
  <2>3. \E i \in inner : First(i)
    BY <1>2, <2>2, Least
  <2>4. \E i \in inner : Final(i)
    BY <1>0, <1>2, <2>2, Greatest
  <2> HIDE DEF First, Final
  <2>5. a \in inner /\ First(a)
    BY <2>3
  <2>6. b \in inner /\ Final(b)
    BY <2>4
  <2> HIDE DEF a, b
  <2>7. a <= b
    BY <2>5, <2>6 DEF First
  <2>8. a \in 1 .. Len(x) /\ b \in 1 .. Len(x) /\ ~ Space(x[a]) /\ ~ Space(x[b])
    BY <1>0, <2>5, <2>6 DEF inner
  <2>9. \A i \in 1 .. Len(x) : ~ Space(x[i]) => a <= i /\ i <= b
    BY <1>0, <2>5, <2>6 DEF inner, First, Final
  <2>10. StrippedTo(x, a, b)
    BY <2>1, <2>8, <2>9 DEF StrippedTo
  <2>11. b \in a .. Len(x)
    BY <1>0, <2>7, <2>8
  <2> QED
    BY <2>8, <2>10, <2>11
<1> QED
  BY <1>1, <1>2

LEMMA PartIs ==
  ASSUME NEW x \in Text, NEW a \in 1 .. Len(x), NEW b \in a .. Len(x)
  PROVE  /\ SubSeq(x, a, b) \in Text /\ Len(SubSeq(x, a, b)) = b - a + 1
         /\ \A i \in 1 .. (b - a + 1) : SubSeq(x, a, b)[i] = x[a + i - 1]
<1>1. Len(x) \in Nat
  BY TextIs
<1>2. \A i \in a .. b : x[i] \in Piece
  BY <1>1, TextIs
<1> QED
  BY <1>1, <1>2, SubSeqProperties DEF Text

LEMMA TrimmedIsEdged ==
  ASSUME NEW x \in Text
  PROVE  Trimmed(x) \in Text /\ Edged(Trimmed(x))
<1>0. <<>> \in Text /\ Edged(<<>>)
  BY DEF Text, Edged
<1>1. CASE Trimmed(x) = <<>>
  BY <1>0, <1>1
<1>2. CASE \E a \in 1 .. Len(x) : \E b \in a .. Len(x) : StrippedTo(x, a, b)
  <2>1. PICK a \in 1 .. Len(x) : \E b \in a .. Len(x) : StrippedTo(x, a, b)
    BY <1>2
  <2>2. PICK b \in a .. Len(x) : StrippedTo(x, a, b)
    BY <2>1
  <2>3. Len(x) \in Nat
    BY TextIs
  <2> DEFINE y == SubSeq(x, a, b)
             l == b - a + 1
  <2>4. y \in Text /\ Len(y) = l /\ \A i \in 1 .. l : y[i] = x[a + i - 1]
    BY PartIs
  <2>5. 1 \in 1 .. l /\ l \in 1 .. l /\ a + 1 - 1 = a /\ a + l - 1 = b
    BY <2>3
  <2>6. ~ Space(y[1]) /\ ~ Space(y[Len(y)])
    <3> HIDE DEF y
    <3>1. y[1] = x[a + 1 - 1] /\ y[l] = x[a + l - 1]
      BY <2>4, <2>5
    <3>2. y[1] = x[a] /\ y[l] = x[b]
      BY <2>5, <3>1
    <3> QED
      BY <2>2, <2>4, <3>2 DEF StrippedTo
  <2>7. Trimmed(x) = y
    BY <2>2 DEF StrippedTo
  <2> QED
    BY <2>4, <2>6, <2>7 DEF Edged
<1> QED
  BY <1>1, <1>2, TrimmedIs

(* A text that does not begin with a space is cut at its end only.         *)
LEMMA TrimmedIsStart ==
  ASSUME NEW x \in Text, x = <<>> \/ ~ Space(x[1])
  PROVE  \E k \in 0 .. Len(x) : /\ Trimmed(x) = Start(x, k)
                                /\ \A i \in 1 .. Len(x) : ~ Space(x[i]) => i <= k
                                /\ k # 0 => ~ Space(x[k])
<1>0. Len(x) \in Nat /\ (Len(x) = 0 <=> x = <<>>)
  BY TextIs
<1>1. CASE x = <<>>
  <2>1. Len(x) = 0 /\ ~ \E a \in 1 .. Len(x) : TRUE
    BY <1>0, <1>1
  <2>2. Trimmed(x) = <<>>
    BY <2>1, TrimmedIs
  <2>3. 0 \in 0 .. Len(x) /\ Start(x, 0) = <<>>
    BY <1>0, StartIs
  <2> QED
    BY <2>1, <2>2, <2>3
<1>2. CASE x # <<>>
  <2>1. 1 \in 1 .. Len(x) /\ ~ Space(x[1])
    BY <1>0, <1>2
  <2>2. PICK a \in 1 .. Len(x) : \E b \in a .. Len(x) : StrippedTo(x, a, b)
    BY <2>1, TrimmedIs
  <2>3. PICK b \in a .. Len(x) : StrippedTo(x, a, b)
    BY <2>2
  <2>4. a = 1
    BY <1>0, <2>1, <2>3 DEF StrippedTo
  <2>5. b \in 0 .. Len(x) /\ Trimmed(x) = Start(x, b)
    BY <1>0, <2>3, <2>4 DEF StrippedTo, Start
  <2> QED
    BY <2>3, <2>5 DEF StrippedTo
<1> QED
  BY <1>1, <1>2

LEMMA EdgedStays ==
  ASSUME NEW x \in Text, Edged(x)
  PROVE  Trimmed(x) = x
<1>0. Len(x) \in Nat /\ (Len(x) = 0 <=> x = <<>>)
  BY TextIs
<1>1. PICK k \in 0 .. Len(x) : /\ Trimmed(x) = Start(x, k)
                               /\ \A i \in 1 .. Len(x) : ~ Space(x[i]) => i <= k
  BY TrimmedIsStart DEF Edged
<1>2. k = Len(x)
  BY <1>0, <1>1 DEF Edged
<1> QED
  BY <1>0, <1>1, <1>2, StartIs

(* A joining space is stripped.                                            *)
LEMMA SpaceGoes ==
  ASSUME NEW x \in Text, Edged(x), x # <<>>, NEW c \in Piece, Space(c)
  PROVE  Trimmed(Append(x, c)) = x
<1> DEFINE y == Append(x, c)
<1>0. Len(x) \in Nat /\ Len(x) # 0
  BY TextIs
<1>1. /\ y \in Text /\ Len(y) = Len(x) + 1 /\ Space(y[Len(x) + 1])
      /\ \A i \in 1 .. Len(x) : y[i] = x[i]
      /\ Start(y, Len(x)) = x
  BY AppendIs
<1> HIDE DEF y
<1>2. 1 \in 1 .. Len(x) /\ Len(x) \in 1 .. Len(x) /\ Len(x) \in 1 .. Len(y)
  BY <1>0, <1>1
<1>3. ~ Space(y[1]) /\ ~ Space(y[Len(x)])
  BY <1>1, <1>2 DEF Edged
<1>4. PICK k \in 0 .. Len(y) : /\ Trimmed(y) = Start(y, k)
                               /\ \A i \in 1 .. Len(y) : ~ Space(y[i]) => i <= k
                               /\ k # 0 => ~ Space(y[k])
  BY <1>1, <1>3, TrimmedIsStart
<1>5. Len(x) <= k
  BY <1>2, <1>3, <1>4
<1>6. k # Len(x) + 1
  BY <1>0, <1>1, <1>4
<1>7. k = Len(x)
  BY <1>0, <1>1, <1>5, <1>6
<1>8. Trimmed(y) = x
  BY <1>1, <1>4, <1>7
<1> QED
  BY <1>8 DEF y
-----------------------------------------------------------------------------
(* The lexemes that the code itself writes.                                *)
Blank == " "
Stop == "."
Mark == "~"
Letter == "w"

LEMMA Written ==
  /\ Blank \in Piece /\ Stop \in Piece /\ Mark \in Piece /\ Letter \in Piece
  /\ WidthOf(Blank) = 1 /\ WidthOf(Stop) = 1 /\ WidthOf(Mark) = 1 /\ WidthOf(Letter) = 1
  /\ Space(Blank) /\ ~ Space(Stop) /\ ~ Space(Mark) /\ ~ Space(Letter)
  /\ \A f \in Facts : f \in Piece /\ ~ Space(f) /\ f # Stop /\ f # Mark
<1>1. /\ Blank \in Piece /\ Stop \in Piece /\ Mark \in Piece /\ Letter \in Piece
      /\ Blank \notin Facts /\ Stop \notin Facts /\ Mark \notin Facts /\ Letter \notin Facts
  BY Lexemes DEF Blank, Stop, Mark, Letter
<1>2. Space(Blank) /\ ~ Space(Stop) /\ ~ Space(Mark) /\ ~ Space(Letter)
  BY DEF Blank, Stop, Mark, Letter, Space
<1>3. \A f \in Facts : f \in Piece /\ ~ Space(f) /\ f # Stop /\ f # Mark
  BY Lexemes, <1>1 DEF Space
<1>4. WidthOf(Blank) = 1 /\ WidthOf(Stop) = 1 /\ WidthOf(Mark) = 1 /\ WidthOf(Letter) = 1
  BY <1>1 DEF WidthOf
<1> QED
  BY <1>1, <1>2, <1>3, <1>4

(* The first k lexemes, and some letters of the next.                      *)
Cut(x, k, r) == [i \in 1 .. (k + r) |-> IF i <= k THEN x[i] ELSE Letter]

LEMMA CutIs ==
  ASSUME NEW x \in Text, NEW k \in 0 .. Len(x), NEW r \in Nat
  PROVE  /\ Cut(x, k, r) \in Text /\ Len(Cut(x, k, r)) = k + r
         /\ \A i \in 1 .. k : Cut(x, k, r)[i] = x[i]
         /\ \A i \in (k + 1) .. (k + r) : Cut(x, k, r)[i] = Letter
         /\ r = 0 => Cut(x, k, r) = Start(x, k)
<1>0. Len(x) \in Nat /\ k \in Nat /\ k + r \in Nat
  BY TextIs
<1>1. \A i \in 1 .. (k + r) : Cut(x, k, r)[i] \in Piece
  <2> TAKE i \in 1 .. (k + r)
  <2>1. CASE i <= k
    <3>1. i \in 1 .. Len(x)
      BY <1>0, <2>1
    <3>2. x[i] \in Piece
      BY <3>1, TextIs
    <3> QED
      BY <2>1, <3>2 DEF Cut
  <2>2. CASE ~ i <= k
    BY <2>2, Written DEF Cut
  <2> QED
    BY <2>1, <2>2
<1>2. Cut(x, k, r) \in [1 .. (k + r) -> Piece]
  BY <1>1 DEF Cut
<1>3. Cut(x, k, r) \in Text /\ Len(Cut(x, k, r)) = k + r
  BY <1>0, <1>2, IsASeq, LenProperties DEF Text
<1>4. \A i \in 1 .. k : Cut(x, k, r)[i] = x[i]
  BY <1>0 DEF Cut
<1>5. \A i \in (k + 1) .. (k + r) : Cut(x, k, r)[i] = Letter
  BY <1>0 DEF Cut
<1>6. r = 0 => Cut(x, k, r) = Start(x, k)
  <2> SUFFICES ASSUME r = 0
               PROVE  Cut(x, k, r) = Start(x, k)
    OBVIOUS
  <2>1. Start(x, k) \in Text /\ Len(Start(x, k)) = k /\ \A i \in 1 .. k : Start(x, k)[i] = x[i]
    BY StartIs
  <2>2. Len(Cut(x, k, r)) = k
    BY <1>0, <1>3
  <2> QED
    BY <1>3, <1>4, <2>1, <2>2, SameText
<1> QED
  BY <1>3, <1>4, <1>5, <1>6

LEMMA CutGrows ==
  ASSUME NEW x \in Text, NEW k \in 0 .. Len(x), NEW r \in Nat
  PROVE  Cut(x, k, r + 1) = Append(Cut(x, k, r), Letter)
<1>0. Len(x) \in Nat /\ k \in Nat /\ r + 1 \in Nat /\ Letter \in Piece
  BY TextIs, Written
<1> DEFINE y == Cut(x, k, r)
           z == Cut(x, k, r + 1)
<1>1. /\ y \in Text /\ Len(y) = k + r
      /\ \A i \in 1 .. k : y[i] = x[i]
      /\ \A i \in (k + 1) .. (k + r) : y[i] = Letter
  BY CutIs
<1>2. /\ z \in Text /\ Len(z) = k + (r + 1)
      /\ \A i \in 1 .. k : z[i] = x[i]
      /\ \A i \in (k + 1) .. (k + (r + 1)) : z[i] = Letter
  <2> DEFINE q == r + 1
  <2>1. q \in Nat
    BY <1>0
  <2> HIDE DEF q
  <2>2. /\ Cut(x, k, q) \in Text /\ Len(Cut(x, k, q)) = k + q
        /\ \A i \in 1 .. k : Cut(x, k, q)[i] = x[i]
        /\ \A i \in (k + 1) .. (k + q) : Cut(x, k, q)[i] = Letter
    BY <2>1, CutIs
  <2> QED
    BY <2>2 DEF q
<1> HIDE DEF y, z
<1>3. /\ Append(y, Letter) \in Text /\ Len(Append(y, Letter)) = Len(y) + 1
      /\ \A i \in 1 .. Len(y) : Append(y, Letter)[i] = y[i]
      /\ Append(y, Letter)[Len(y) + 1] = Letter
  BY <1>0, <1>1, AppendIs
<1>4. \A i \in 1 .. Len(z) : z[i] = Append(y, Letter)[i]
  <2> TAKE i \in 1 .. Len(z)
  <2>1. CASE i \in 1 .. k
    BY <1>0, <1>1, <1>2, <1>3, <2>1
  <2>2. CASE i \in (k + 1) .. (k + r)
    BY <1>0, <1>1, <1>2, <1>3, <2>2
  <2>3. CASE i = k + r + 1
    <3>1. i = Len(y) + 1 /\ i \in (k + 1) .. (k + (r + 1))
      BY <1>0, <1>1, <2>3
    <3>2. z[i] = Letter
      BY <1>2, <3>1
    <3>3. Append(y, Letter)[i] = Letter
      BY <1>3, <3>1
    <3> QED
      BY <3>2, <3>3
  <2>4. i \in 1 .. (k + (r + 1))
    BY <1>2
  <2>5. i \in 1 .. k \/ i \in (k + 1) .. (k + r) \/ i = k + r + 1
    BY <1>0, <2>4
  <2> QED
    BY <2>1, <2>2, <2>3, <2>5
<1>5. Len(z) = Len(Append(y, Letter))
  BY <1>0, <1>1, <1>2, <1>3
<1>6. z = Append(y, Letter)
  BY <1>2, <1>3, <1>4, <1>5, SameText
<1> QED
  BY <1>6 DEF y, z

LEMMA CutWidth ==
  ASSUME NEW x \in Text, NEW k \in 0 .. Len(x), NEW r \in Nat
  PROVE  Width(Cut(x, k, r)) = Width(Start(x, k)) + r
<1> DEFINE Bad == {n \in Nat : Width(Cut(x, k, n)) # Width(Start(x, k)) + n}
<1> SUFFICES ASSUME Bad # {}
             PROVE  FALSE
  OBVIOUS
<1>0. Width(Start(x, k)) \in Nat
  BY StartIs, WidthGoes
<1>1. PICK n \in Bad : \A m \in Bad : n <= m
  <2>1. Bad \in SUBSET Nat
    OBVIOUS
  <2> HIDE DEF Bad
  <2> QED
    BY <2>1, Least
<1>2. n # 0
  BY <1>0, <1>1, CutIs
<1>3. n - 1 \in Nat /\ (n - 1) + 1 = n /\ n - 1 < n
  BY <1>2
<1>4. Width(Cut(x, k, n - 1)) = Width(Start(x, k)) + (n - 1)
  BY <1>1, <1>3
<1>5. Cut(x, k, n) = Append(Cut(x, k, n - 1), Letter) /\ Cut(x, k, n - 1) \in Text
  <2>1. \A m \in Nat : Cut(x, k, m + 1) = Append(Cut(x, k, m), Letter) /\ Cut(x, k, m) \in Text
    BY CutIs, CutGrows
  <2> QED
    BY <1>3, <2>1
<1>6. Width(Cut(x, k, n)) = Width(Cut(x, k, n - 1)) + 1
  BY <1>5, WidthGoes, Written
<1> QED
  BY <1>0, <1>1, <1>3, <1>4, <1>6

(* Where a text is cut: what is left is no wider than asked for, and of    *)
(* the lexeme that is cut through a part is left.                          *)
CutAt(x, n, k, r) ==
  /\ CutTo(x, n) = Cut(x, k, r) /\ Width(Start(x, k)) + r <= n
  /\ r # 0 => k < Len(x) /\ r < WidthOf(x[k + 1])
  /\ Width(x) > n => k < Len(x)

LEMMA CutToIs ==
  ASSUME NEW x \in Text, NEW n \in Nat
  PROVE  \E k \in 0 .. Len(x) : \E r \in Nat : CutAt(x, n, k, r)
<1> DEFINE whole == {j \in 0 .. Len(x) : Width(SubSeq(x, 1, j)) <= n}
           Final(i) == \A j \in whole : j <= i
           k == CHOOSE i \in whole : Final(i)
           r == IF k = Len(x) THEN 0 ELSE n - Width(SubSeq(x, 1, k))
<1>0. Len(x) \in Nat /\ \A j \in 0 .. Len(x) : Width(Start(x, j)) \in Nat
  BY TextIs, StartIsNarrower
<1>1. CutTo(x, n) = Cut(x, k, r)
  BY DEF CutTo, Cut, Letter
<1>2. whole \in SUBSET (0 .. Len(x)) /\ 0 \in whole
  <2>1. SubSeq(x, 1, 0) = <<>> /\ <<>> \in Text
    BY <1>0, StartIs DEF Start, Text
  <2>2. Width(SubSeq(x, 1, 0)) = 0
    BY <2>1, WidthGoes
  <2> QED
    BY <1>0, <2>2
<1>3. k \in whole /\ Final(k)
  <2> HIDE DEF whole
  <2>1. \E i \in whole : Final(i)
    BY <1>0, <1>2, Greatest
  <2> HIDE DEF Final
  <2> QED
    BY <2>1
<1>4. k \in 0 .. Len(x) /\ Width(Start(x, k)) <= n /\ Width(Start(x, k)) \in Nat
      /\ \A j \in 0 .. Len(x) : Width(Start(x, j)) <= n => j <= k
  <2> HIDE DEF k
  <2> QED
    BY <1>0, <1>3 DEF Start
<1>5. r = IF k = Len(x) THEN 0 ELSE n - Width(Start(x, k))
  BY DEF Start
<1> HIDE DEF k, r
<1>6. r \in Nat /\ Width(Start(x, k)) + r <= n
  BY <1>4, <1>5
<1>7. r # 0 => k < Len(x) /\ r < WidthOf(x[k + 1])
  <2> SUFFICES ASSUME r # 0
               PROVE  k < Len(x) /\ r < WidthOf(x[k + 1])
    OBVIOUS
  <2>1. k # Len(x) /\ r = n - Width(Start(x, k))
    BY <1>5
  <2>2. k < Len(x) /\ k + 1 \in 1 .. Len(x) /\ k + 1 \in 0 .. Len(x) /\ (k + 1) - 1 = k
    BY <1>0, <1>4, <2>1
  <2>3. /\ Start(x, k) \in Text /\ x[k + 1] \in Piece
        /\ Start(x, k + 1) = Append(Start(x, k), x[k + 1])
    BY <1>4, <2>2, StartIs, StartGrows
  <2>4. Width(Start(x, k + 1)) = Width(Start(x, k)) + WidthOf(x[k + 1])
    BY <2>3, WidthGoes
  <2>5. ~ Width(Start(x, k + 1)) <= n
    BY <1>4, <2>2
  <2>6. WidthOf(x[k + 1]) \in Nat
    BY WidthOfIs
  <2> QED
    BY <1>4, <2>1, <2>2, <2>4, <2>5, <2>6
<1>8. Width(x) > n => k < Len(x)
  <2> SUFFICES ASSUME Width(x) > n
               PROVE  k < Len(x)
    OBVIOUS
  <2>1. k = Len(x) => Start(x, k) = x
    BY <1>4, StartIs
  <2> QED
    BY <1>0, <1>4, <2>1
<1>9. CutAt(x, n, k, r)
  BY <1>1, <1>6, <1>7, <1>8 DEF CutAt
<1> QED
  BY <1>4, <1>6, <1>9
-----------------------------------------------------------------------------
(***************************************************************************)
(* Dropping the spaces that stand behind nothing or behind a space.        *)
(***************************************************************************)

(* What one more lexeme makes of the text kept so far.                     *)
Taken(kept, a) == IF Space(a) /\ (kept = <<>> \/ Space(Last(kept))) THEN kept
                  ELSE Append(kept, a)

(* f says what is kept of the first lexemes of a text.                     *)
Keeps(x, f) ==
  /\ f = [n \in 0 .. Len(x) |-> f[n]] /\ f[0] = <<>>
  /\ \A n \in 1 .. Len(x) : f[n] = Taken(f[n - 1], x[n])

LEMMA TakenIs ==
  ASSUME NEW q \in Text, NEW a \in Piece
  PROVE  Taken(q, a) \in Text
BY AppendIs DEF Taken

LEMMA KeepingExists ==
  ASSUME NEW x \in Text
  PROVE  \E f : Keeps(x, f)
<1> DEFINE Bad == {m \in 0 .. Len(x) : ~ \E f : Keeps(Start(x, m), f)}
<1>0. Len(x) \in Nat /\ Start(x, Len(x)) = x
  BY TextIs, StartIs
<1> SUFFICES ASSUME Bad # {}
             PROVE  FALSE
  BY <1>0
<1>1. PICK m \in Bad : \A n \in Bad : m <= n
  <2>1. Bad \in SUBSET Nat
    BY <1>0
  <2> HIDE DEF Bad
  <2> QED
    BY <2>1, Least
<1>2. m \in 0 .. Len(x) /\ m \in Nat /\ ~ \E f : Keeps(Start(x, m), f)
  BY <1>0, <1>1
<1> DEFINE y == Start(x, m)
<1>3. Len(y) = m
  BY <1>2, StartIs
<1> HIDE DEF y
<1>4. CASE m = 0
  <2> DEFINE f == [n \in 0 .. 0 |-> <<>>]
  <2>1. Keeps(y, f)
    BY <1>3, <1>4 DEF Keeps
  <2> QED
    BY <1>2, <2>1 DEF y
<1>5. CASE m # 0
  <2>1. m - 1 \in 0 .. Len(x) /\ m - 1 < m
    BY <1>0, <1>2, <1>5
  <2> DEFINE z == Start(x, m - 1)
  <2>2. PICK g : Keeps(z, g)
    <3>1. m - 1 \notin Bad
      BY <1>1, <1>2, <2>1
    <3> QED
      BY <2>1, <3>1
  <2>3. Len(z) = m - 1 /\ \A n \in 1 .. (m - 1) : z[n] = y[n]
    <3>1. /\ Len(Start(x, m - 1)) = m - 1 /\ \A n \in 1 .. (m - 1) : Start(x, m - 1)[n] = x[n]
      BY <2>1, StartIs
    <3>2. \A n \in 1 .. m : Start(x, m)[n] = x[n]
      BY <1>2, StartIs
    <3> QED
      BY <1>2, <3>1, <3>2 DEF y
  <2> HIDE DEF z
  <2> DEFINE f == [n \in 0 .. m |-> IF n = m THEN Taken(g[m - 1], y[m]) ELSE g[n]]
  <2>4. /\ f = [n \in 0 .. m |-> f[n]]
        /\ f[m] = Taken(g[m - 1], y[m])
        /\ \A n \in 0 .. (m - 1) : f[n] = g[n]
    BY <1>2
  <2> HIDE DEF f
  <2>5. f[0] = <<>>
    <3>1. 0 \in 0 .. (m - 1)
      BY <1>2, <1>5
    <3> QED
      BY <2>2, <2>4, <3>1 DEF Keeps
  <2>6. \A n \in 1 .. m : f[n] = Taken(f[n - 1], y[n])
    <3> TAKE n \in 1 .. m
    <3>1. f[n - 1] = g[n - 1]
      <4>1. n - 1 \in 0 .. (m - 1)
        BY <1>2
      <4> QED
        BY <2>4, <4>1
    <3>2. CASE n = m
      BY <2>4, <3>1, <3>2
    <3>3. CASE n # m
      <4>1. n \in 0 .. (m - 1) /\ n \in 1 .. (m - 1)
        BY <1>2, <3>3
      <4> QED
        BY <2>2, <2>3, <2>4, <3>1, <4>1 DEF Keeps
    <3> QED
      BY <3>2, <3>3
  <2>7. Keeps(y, f)
    BY <1>3, <2>4, <2>5, <2>6 DEF Keeps
  <2> QED
    BY <1>2, <2>7 DEF y
<1> QED
  BY <1>4, <1>5

LEMMA SqueezedKeeps ==
  ASSUME NEW x \in Text
  PROVE  \E f : Keeps(x, f) /\ Squeezed(x) = f[Len(x)]
<1> DEFINE Reads(f) ==
             f = [n \in 0 .. Len(x) |->
                    IF n = 0 THEN <<>>
                    ELSE IF x[n] = " " /\ (f[n - 1] = <<>> \/ Last(f[n - 1]) = " ")
                    THEN f[n - 1]
                    ELSE Append(f[n - 1], x[n])]
           kept == CHOOSE f : Reads(f)
<1>0. Len(x) \in Nat
  BY TextIs
<1>1. Squeezed(x) = kept[Len(x)]
  BY Zenon DEF Squeezed
<1>2. \A f : Reads(f) <=> f = [n \in 0 .. Len(x) |->
                                 IF n = 0 THEN <<>> ELSE Taken(f[n - 1], x[n])]
  BY DEF Taken, Space
<1>3. \A f : Reads(f) <=> Keeps(x, f)
  <2> HIDE DEF Reads
  <2> SUFFICES ASSUME NEW f
               PROVE  (f = [n \in 0 .. Len(x) |-> IF n = 0 THEN <<>> ELSE Taken(f[n - 1], x[n])])
                      <=> Keeps(x, f)
    BY <1>2
  <2>1. 0 \in 0 .. Len(x) /\ \A n \in 0 .. Len(x) : n = 0 \/ n \in 1 .. Len(x)
    BY <1>0
  <2>2. \A n \in 1 .. Len(x) : n \in 0 .. Len(x) /\ n # 0
    BY <1>0
  <2> QED
    BY <2>1, <2>2 DEF Keeps
<1>4. Reads(kept)
  <2> HIDE DEF Reads
  <2> QED
    BY <1>3, KeepingExists
<1> HIDE DEF kept, Reads
<1> QED
  BY <1>1, <1>3, <1>4

LEMMA SqueezedGoes ==
  /\ Squeezed(<<>>) = <<>>
  /\ \A x \in Text : Squeezed(x) \in Text
  /\ \A x \in Text, a \in Piece : Squeezed(Append(x, a)) = Taken(Squeezed(x), a)
<1>1. Squeezed(<<>>) = <<>>
  <2>1. <<>> \in Text /\ Len(<<>>) = 0
    BY DEF Text
  <2> QED
    BY <2>1, SqueezedKeeps DEF Keeps
<1>2. ASSUME NEW x \in Text, NEW f, Keeps(x, f)
      PROVE  \A n \in 0 .. Len(x) : f[n] \in Text
  <2> DEFINE Bad == {n \in 0 .. Len(x) : f[n] \notin Text}
  <2> SUFFICES ASSUME Bad # {}
               PROVE  FALSE
    OBVIOUS
  <2>0. Len(x) \in Nat
    BY TextIs
  <2>1. PICK m \in Bad : \A n \in Bad : m <= n
    <3>1. Bad \in SUBSET Nat
      BY <2>0
    <3> HIDE DEF Bad
    <3> QED
      BY <3>1, Least
  <2>2. m # 0
    <3>1. <<>> \in Text
      BY DEF Text
    <3> QED
      BY <1>2, <2>1, <3>1 DEF Keeps
  <2>3. m \in 1 .. Len(x) /\ m - 1 \in 0 .. Len(x) /\ m - 1 < m
    BY <2>0, <2>1, <2>2
  <2>4. f[m - 1] \in Text
    BY <2>0, <2>1, <2>3
  <2>5. x[m] \in Piece
    BY <2>3, TextIs
  <2>6. f[m] \in Text
    BY <1>2, <2>3, <2>4, <2>5, TakenIs DEF Keeps
  <2> QED
    BY <2>1, <2>6
<1>3. ASSUME NEW x \in Text
      PROVE  Squeezed(x) \in Text
  <2>1. PICK f : Keeps(x, f) /\ Squeezed(x) = f[Len(x)]
    BY SqueezedKeeps
  <2>2. Len(x) \in 0 .. Len(x)
    BY TextIs
  <2> QED
    BY <1>2, <2>1, <2>2
<1>4. ASSUME NEW x \in Text, NEW a \in Piece
      PROVE  Squeezed(Append(x, a)) = Taken(Squeezed(x), a)
  <2> DEFINE y == Append(x, a)
             l == Len(x)
  <2>0. /\ l \in Nat /\ y \in Text /\ Len(y) = l + 1 /\ y[l + 1] = a
        /\ \A i \in 1 .. l : y[i] = x[i]
    BY TextIs, AppendIs
  <2>1. PICK f : Keeps(x, f) /\ Squeezed(x) = f[l]
    BY SqueezedKeeps
  <2> HIDE DEF y
  <2>2. PICK g : Keeps(y, g) /\ Squeezed(y) = g[Len(y)]
    BY <2>0, SqueezedKeeps
  <2> HIDE DEF l
  <2>3. /\ f[0] = <<>> /\ \A n \in 1 .. l : f[n] = Taken(f[n - 1], x[n])
        /\ g[0] = <<>> /\ \A n \in 1 .. (l + 1) : g[n] = Taken(g[n - 1], y[n])
    BY <2>0, <2>1, <2>2 DEF Keeps, l
  <2> DEFINE Bad == {n \in 0 .. l : f[n] # g[n]}
  <2>4. Bad = {}
    <3> SUFFICES ASSUME Bad # {}
                 PROVE  FALSE
      OBVIOUS
    <3>1. PICK m \in Bad : \A n \in Bad : m <= n
      <4>1. Bad \in SUBSET Nat
        BY <2>0
      <4> HIDE DEF Bad
      <4> QED
        BY <4>1, Least
    <3>2. m # 0
      BY <2>3, <3>1
    <3>3. m \in 1 .. l /\ m \in 1 .. (l + 1) /\ m - 1 \in 0 .. l /\ m - 1 < m
      BY <2>0, <3>1, <3>2
    <3>4. f[m - 1] = g[m - 1]
      BY <2>0, <3>1, <3>3
    <3>5. f[m] = Taken(f[m - 1], x[m]) /\ g[m] = Taken(g[m - 1], y[m]) /\ y[m] = x[m]
      BY <2>0, <2>3, <3>3
    <3> QED
      BY <3>1, <3>4, <3>5
  <2>5. f[l] = g[l]
    <3>1. l \in 0 .. l
      BY <2>0
    <3> QED
      BY <2>4, <3>1
  <2>6. l + 1 \in 1 .. (l + 1) /\ (l + 1) - 1 = l
    BY <2>0
  <2>7. g[l + 1] = Taken(g[l], a)
    BY <2>0, <2>3, <2>6
  <2>8. Squeezed(y) = Taken(Squeezed(x), a)
    BY <2>0, <2>1, <2>2, <2>5, <2>7 DEF l
  <2> QED
    BY <2>8 DEF y
<1> QED
  BY <1>1, <1>3, <1>4
-----------------------------------------------------------------------------
(* p is how q begins.                                                      *)
Begins(p, q) == Len(p) <= Len(q) /\ \A i \in 1 .. Len(p) : p[i] = q[i]

LEMMA BeginsIs ==
  ASSUME NEW p \in Text, NEW q \in Text, Begins(p, q)
  PROVE  /\ Len(p) \in 0 .. Len(q) /\ p = Start(q, Len(p)) /\ Width(p) <= Width(q)
         /\ Len(p) < Len(q) => Width(p) + WidthOf(q[Len(p) + 1]) <= Width(q)
<1>1. Len(p) \in 0 .. Len(q)
  BY TextIs DEF Begins
<1>2. /\ Start(q, Len(p)) \in Text /\ Len(Start(q, Len(p))) = Len(p)
      /\ \A i \in 1 .. Len(p) : Start(q, Len(p))[i] = q[i]
  BY <1>1, StartIs
<1>3. p = Start(q, Len(p))
  BY <1>2, SameText DEF Begins
<1> QED
  BY <1>1, <1>3, StartIsNarrower

LEMMA BeginsFurther ==
  ASSUME NEW p \in Text, NEW q \in Text, NEW u \in Text, Begins(p, q), Begins(q, u)
  PROVE  Begins(p, u)
<1>1. Len(p) \in Nat /\ Len(q) \in Nat /\ Len(u) \in Nat
  BY TextIs
<1> QED
  BY <1>1 DEF Begins

(* No space at the beginning, and none behind another.                     *)
Tidy(x) ==
  /\ Len(x) # 0 => ~ Space(x[1])
  /\ \A i \in 1 .. (Len(x) - 1) : ~ Space(x[i]) \/ ~ Space(x[i + 1])

LEMMA OneMoreTaken ==
  ASSUME NEW q \in Text, Tidy(q), NEW a \in Piece
  PROVE  /\ Tidy(Taken(q, a)) /\ Begins(q, Taken(q, a))
         /\ Width(Taken(q, a)) <= Width(q) + WidthOf(a)
<1>0. Len(q) \in Nat /\ (Len(q) = 0 <=> q = <<>>) /\ Width(q) \in Nat /\ WidthOf(a) \in Nat
  BY TextIs, WidthGoes, WidthOfIs
<1>1. CASE Space(a) /\ (q = <<>> \/ Space(Last(q)))
  <2>1. Taken(q, a) = q
    BY <1>1 DEF Taken
  <2> QED
    BY <1>0, <2>1 DEF Begins
<1>2. CASE ~ (Space(a) /\ (q = <<>> \/ Space(Last(q))))
  <2> DEFINE u == Append(q, a)
             l == Len(q)
  <2>1. Taken(q, a) = u
    BY <1>2 DEF Taken
  <2>2. u \in Text /\ Len(u) = l + 1 /\ u[l + 1] = a /\ \A i \in 1 .. l : u[i] = q[i]
    BY AppendIs
  <2>3. Width(u) = Width(q) + WidthOf(a)
    BY WidthGoes
  <2>4. l \in Nat
    BY <1>0
  <2>5. l = 0 => ~ Space(a)
    BY <1>0, <1>2
  <2>6. l # 0 => ~ Space(a) \/ ~ Space(q[l])
    BY <1>0, <1>2 DEF Last
  <2>7. l # 0 => ~ Space(q[1])
    BY DEF Tidy
  <2>8. \A i \in 1 .. (l - 1) : ~ Space(q[i]) \/ ~ Space(q[i + 1])
    BY DEF Tidy
  <2> HIDE DEF u, l
  <2>9. Len(u) # 0 => ~ Space(u[1])
    <3>1. CASE l = 0
      BY <2>2, <2>5, <3>1
    <3>2. CASE l # 0
      <4>1. 1 \in 1 .. l
        BY <2>4, <3>2
      <4> QED
        BY <2>2, <2>7, <3>2, <4>1
    <3> QED
      BY <3>1, <3>2
  <2>10. \A i \in 1 .. (Len(u) - 1) : ~ Space(u[i]) \/ ~ Space(u[i + 1])
    <3> SUFFICES ASSUME NEW i \in 1 .. l
                 PROVE  ~ Space(u[i]) \/ ~ Space(u[i + 1])
      BY <2>2, <2>4
    <3>1. u[i] = q[i]
      BY <2>2
    <3>2. CASE i = l
      BY <2>2, <2>4, <2>6, <3>1, <3>2
    <3>3. CASE i # l
      <4>1. i \in 1 .. (l - 1) /\ i + 1 \in 1 .. l
        BY <2>4, <3>3
      <4>2. u[i + 1] = q[i + 1]
        BY <2>2, <4>1
      <4> QED
        BY <2>8, <3>1, <4>1, <4>2
    <3> QED
      BY <3>2, <3>3
  <2>11. Begins(q, u)
    BY <2>2, <2>4 DEF Begins, l
  <2> QED
    BY <1>0, <2>1, <2>3, <2>9, <2>10, <2>11 DEF Tidy
<1> QED
  BY <1>1, <1>2

LEMMA SqueezedIs ==
  ASSUME NEW x \in Text
  PROVE  /\ Squeezed(x) \in Text /\ Tidy(Squeezed(x)) /\ Width(Squeezed(x)) <= Width(x)
         /\ \A k \in 0 .. Len(x) : Begins(Squeezed(Start(x, k)), Squeezed(x))
<1> DEFINE S(k) == Squeezed(Start(x, k))
           W(k) == Width(Start(x, k))
<1>0. Len(x) \in Nat /\ Start(x, 0) = <<>> /\ Start(x, Len(x)) = x
  BY TextIs, StartIs
<1>1. \A k \in 0 .. Len(x) : S(k) \in Text /\ Len(S(k)) \in Nat /\ W(k) \in Nat /\ Width(S(k)) \in Nat
  BY StartIs, SqueezedGoes, WidthGoes, TextIs
<1>2. \A k \in 1 .. Len(x) : /\ k - 1 \in 0 .. Len(x) /\ S(k) = Taken(S(k - 1), x[k])
                             /\ x[k] \in Piece /\ W(k) = W(k - 1) + WidthOf(x[k])
  <2> TAKE k \in 1 .. Len(x)
  <2>1. x[k] \in Piece /\ k - 1 \in 0 .. Len(x) /\ Start(x, k) = Append(Start(x, k - 1), x[k])
    BY StartGrows
  <2>2. Start(x, k - 1) \in Text
    BY <2>1, StartIs
  <2> QED
    BY <2>1, <2>2, SqueezedGoes, WidthGoes
<1>3. S(0) = <<>> /\ W(0) = 0 /\ S(Len(x)) = Squeezed(x) /\ W(Len(x)) = Width(x)
  <2>1. <<>> \in Text
    BY DEF Text
  <2> QED
    BY <1>0, <2>1, SqueezedGoes, WidthGoes
<1> HIDE DEF S, W
<1> DEFINE Bad == {k \in 0 .. Len(x) : ~ (Tidy(S(k)) /\ Width(S(k)) <= W(k))}
<1>4. Bad = {}
  <2> SUFFICES ASSUME Bad # {}
               PROVE  FALSE
    OBVIOUS
  <2>1. PICK m \in Bad : \A n \in Bad : m <= n
    <3>1. Bad \in SUBSET Nat
      BY <1>0
    <3> HIDE DEF Bad
    <3> QED
      BY <3>1, Least
  <2>2. m # 0
    <3>1. Tidy(S(0))
      BY <1>3 DEF Tidy
    <3>2. Width(S(0)) <= W(0)
      <4>1. <<>> \in Text
        BY DEF Text
      <4> QED
        BY <1>3, <4>1, WidthGoes
    <3> QED
      BY <2>1, <3>1, <3>2
  <2>3. m \in 1 .. Len(x) /\ m - 1 \in 0 .. Len(x) /\ m - 1 < m
    BY <1>0, <2>1, <2>2
  <2>4. Tidy(S(m - 1)) /\ Width(S(m - 1)) <= W(m - 1)
    BY <1>0, <2>1, <2>3
  <2> DEFINE q == S(m - 1)
             a == x[m]
  <2>5. q \in Text /\ a \in Piece /\ S(m) = Taken(q, a) /\ W(m) = W(m - 1) + WidthOf(a)
        /\ Width(q) \in Nat /\ W(m - 1) \in Nat /\ W(m) \in Nat /\ Width(S(m)) \in Nat
    BY <1>1, <1>2, <2>1, <2>3
  <2>6. Tidy(q) /\ Width(q) <= W(m - 1)
    BY <2>4
  <2> HIDE DEF q, a
  <2>7. Tidy(S(m)) /\ Width(S(m)) <= Width(q) + WidthOf(a) /\ WidthOf(a) \in Nat
    BY <2>5, <2>6, OneMoreTaken, WidthOfIs
  <2>8. Width(S(m)) <= W(m)
    BY <2>5, <2>6, <2>7
  <2> QED
    BY <2>1, <2>7, <2>8
<1>5. ASSUME NEW k \in 0 .. Len(x)
      PROVE  Begins(S(k), S(Len(x)))
  <2> DEFINE Worse == {n \in k .. Len(x) : ~ Begins(S(k), S(n))}
  <2>0. Worse = {}
    <3> SUFFICES ASSUME Worse # {}
                 PROVE  FALSE
      OBVIOUS
    <3>1. PICK m \in Worse : \A n \in Worse : m <= n
      <4>1. Worse \in SUBSET Nat
        BY <1>0
      <4> HIDE DEF Worse
      <4> QED
        BY <4>1, Least
    <3>2. m # k
      <4>1. Begins(S(k), S(k))
        BY <1>1 DEF Begins
      <4> QED
        BY <3>1, <4>1
    <3>3. m \in 1 .. Len(x) /\ m \in 0 .. Len(x) /\ m - 1 \in k .. Len(x)
          /\ m - 1 \in 0 .. Len(x) /\ m - 1 < m
      BY <1>0, <3>1, <3>2
    <3>4. Begins(S(k), S(m - 1))
      BY <1>0, <3>1, <3>3
    <3>5. Begins(S(m - 1), S(m))
      <4> DEFINE q == S(m - 1)
                 a == x[m]
      <4>1. q \in Text /\ a \in Piece /\ S(m) = Taken(q, a)
        BY <1>1, <1>2, <3>3
      <4>2. Tidy(q)
        BY <1>4, <3>3
      <4> HIDE DEF q, a
      <4>3. Begins(q, S(m))
        BY <4>1, <4>2, OneMoreTaken
      <4> QED
        BY <4>3 DEF q
    <3>6. S(k) \in Text /\ S(m - 1) \in Text /\ S(m) \in Text
      BY <1>1, <3>3
    <3>7. Begins(S(k), S(m))
      BY <3>4, <3>5, <3>6, BeginsFurther
    <3> QED
      BY <3>1, <3>7
  <2>1. Len(x) \in k .. Len(x)
    BY <1>0
  <2> QED
    BY <2>0, <2>1
<1>6. Len(x) \in 0 .. Len(x)
  BY <1>0
<1>7. Tidy(S(Len(x))) /\ Width(S(Len(x))) <= W(Len(x)) /\ S(Len(x)) \in Text
  BY <1>1, <1>4, <1>6
<1>8. \A k \in 0 .. Len(x) : Begins(S(k), Squeezed(x))
  BY <1>3, <1>5
<1>9. Squeezed(x) \in Text /\ Tidy(Squeezed(x)) /\ Width(Squeezed(x)) <= Width(x)
  BY <1>3, <1>7
<1> QED
  BY <1>8, <1>9 DEF S

LEMMA TidyStays ==
  ASSUME NEW q \in Text, Tidy(q)
  PROVE  Squeezed(q) = q
<1> DEFINE Bad == {k \in 0 .. Len(q) : Squeezed(Start(q, k)) # Start(q, k)}
<1>0. Len(q) \in Nat /\ Start(q, 0) = <<>> /\ Start(q, Len(q)) = q
  BY TextIs, StartIs
<1>1. Bad = {}
  <2> SUFFICES ASSUME Bad # {}
               PROVE  FALSE
    OBVIOUS
  <2>1. PICK m \in Bad : \A n \in Bad : m <= n
    <3>1. Bad \in SUBSET Nat
      BY <1>0
    <3> HIDE DEF Bad
    <3> QED
      BY <3>1, Least
  <2>2. m # 0
    BY <1>0, <2>1, SqueezedGoes
  <2>3. m \in 1 .. Len(q) /\ m - 1 \in 0 .. Len(q) /\ m - 1 < m
    BY <1>0, <2>1, <2>2
  <2>4. Squeezed(Start(q, m - 1)) = Start(q, m - 1)
    BY <1>0, <2>1, <2>3
  <2> DEFINE p == Start(q, m - 1)
  <2>5. /\ p \in Text /\ Len(p) = m - 1 /\ \A i \in 1 .. (m - 1) : p[i] = q[i]
        /\ q[m] \in Piece /\ Start(q, m) = Append(p, q[m])
    BY <2>3, StartIs, StartGrows
  <2>6. Squeezed(p) = p
    BY <2>4
  <2> HIDE DEF p
  <2>7. Squeezed(Start(q, m)) = Taken(p, q[m])
    BY <2>5, <2>6, SqueezedGoes
  <2>8. Space(q[m]) => p # <<>> /\ ~ Space(Last(p))
    <3> SUFFICES ASSUME Space(q[m])
                 PROVE  p # <<>> /\ ~ Space(Last(p))
      OBVIOUS
    <3>1. m # 1
      BY <1>0, <2>3 DEF Tidy
    <3>2. m - 1 \in 1 .. (Len(q) - 1) /\ (m - 1) + 1 = m /\ m - 1 \in 1 .. (m - 1)
      BY <1>0, <2>3, <3>1
    <3>3. ~ Space(q[m - 1]) \/ ~ Space(q[(m - 1) + 1])
      BY <3>2 DEF Tidy
    <3>4. ~ Space(q[m - 1])
      BY <3>2, <3>3
    <3>5. p[m - 1] = q[m - 1] /\ Len(p) # 0
      BY <2>5, <3>2
    <3> QED
      BY <2>5, <3>4, <3>5, TextIs DEF Last
  <2>9. Taken(p, q[m]) = Append(p, q[m])
    BY <2>8 DEF Taken
  <2> QED
    BY <2>1, <2>5, <2>7, <2>9
<1>2. Len(q) \in 0 .. Len(q)
  BY <1>0
<1> QED
  BY <1>0, <1>1, <1>2

(* A lexeme that is no space is kept.                                      *)
LEMMA SqueezedAppend ==
  ASSUME NEW x \in Text, NEW a \in Piece, ~ Space(a)
  PROVE  Squeezed(Append(x, a)) = Append(Squeezed(x), a)
BY SqueezedGoes DEF Taken

(* No space at the end.                                                    *)
Ended(x) == x = <<>> \/ ~ Space(Last(x))

LEMMA EdgedIsEnded == \A x : Edged(x) => Ended(x)
BY DEF Edged, Ended, Last

LEMMA EndedSqueezed ==
  ASSUME NEW x \in Text, Ended(x)
  PROVE  /\ Squeezed(x) \in Text /\ Tidy(Squeezed(x)) /\ Edged(Squeezed(x))
         /\ x = <<>> <=> Squeezed(x) = <<>>
         /\ x # <<>> => Last(Squeezed(x)) = Last(x)
<1>1. Squeezed(x) \in Text /\ Tidy(Squeezed(x))
  BY SqueezedIs
<1>2. CASE x = <<>>
  BY <1>1, <1>2, SqueezedGoes DEF Edged
<1>3. CASE x # <<>>
  <2> DEFINE l == Len(x)
             y == Start(x, l - 1)
             a == x[l]
             u == Squeezed(y)
  <2>1. l \in Nat /\ l # 0
    BY <1>3, TextIs
  <2>2. l \in 1 .. Len(x) /\ l - 1 \in 0 .. Len(x) /\ Start(x, l) = x
    BY <2>1, StartIs
  <2>3. x = Append(y, a) /\ a \in Piece /\ y \in Text
    BY <2>2, StartGrows, StartIs
  <2>4. ~ Space(a)
    BY <1>3 DEF Ended, Last
  <2> HIDE DEF y
  <2>5. Squeezed(x) = Append(u, a) /\ u \in Text
    BY <2>3, <2>4, SqueezedAppend, SqueezedGoes
  <2>6. Last(x) = a
    BY DEF Last
  <2> HIDE DEF u, a
  <2>7. Squeezed(x) # <<>> /\ Last(Squeezed(x)) = a
    BY <2>3, <2>5, AppendIs
  <2>8. Edged(Squeezed(x))
    <3>1. Len(Squeezed(x)) # 0
      BY <1>1, <2>7, TextIs
    <3>2. ~ Space(Squeezed(x)[1])
      BY <1>1, <3>1 DEF Tidy
    <3>3. ~ Space(Squeezed(x)[Len(Squeezed(x))])
      BY <2>4, <2>7 DEF Last
    <3> QED
      BY <3>2, <3>3 DEF Edged
  <2> QED
    BY <1>1, <1>3, <2>6, <2>7, <2>8
<1> QED
  BY <1>2, <1>3

LEMMA SqueezedCut ==
  ASSUME NEW x \in Text, NEW k \in 0 .. Len(x), NEW r \in Nat
  PROVE  LET q == Squeezed(Start(x, k)) IN Squeezed(Cut(x, k, r)) = Cut(q, Len(q), r)
<1> DEFINE q == Squeezed(Start(x, k))
           l == Len(q)
           Bad == {n \in Nat : Squeezed(Cut(x, k, n)) # Cut(q, l, n)}
<1>0. q \in Text /\ l \in 0 .. Len(q)
  BY StartIs, SqueezedGoes, TextIs
<1> SUFFICES ASSUME Bad # {}
             PROVE  FALSE
  OBVIOUS
<1>1. PICK n \in Bad : \A m \in Bad : n <= m
  <2>1. Bad \in SUBSET Nat
    OBVIOUS
  <2> HIDE DEF Bad
  <2> QED
    BY <2>1, Least
<1>2. n # 0
  <2>1. Cut(x, k, 0) = Start(x, k)
    BY CutIs
  <2>2. Start(q, l) = q
    BY <1>0, StartIs
  <2>3. Cut(q, l, 0) = q
    <3> HIDE DEF q, l
    <3> QED
      BY <1>0, <2>2, CutIs
  <2> QED
    BY <1>1, <2>1, <2>3
<1> HIDE DEF q, l
<1>3. n - 1 \in Nat /\ (n - 1) + 1 = n /\ n - 1 < n
  BY <1>1, <1>2
<1>4. Squeezed(Cut(x, k, n - 1)) = Cut(q, l, n - 1)
  BY <1>1, <1>3
<1>5. \A m \in Nat : Cut(x, k, m + 1) = Append(Cut(x, k, m), Letter) /\ Cut(x, k, m) \in Text
  BY CutIs, CutGrows
<1>6. \A m \in Nat : Cut(q, l, m + 1) = Append(Cut(q, l, m), Letter)
  BY <1>0, CutGrows
<1>7. /\ Cut(x, k, n) = Append(Cut(x, k, n - 1), Letter) /\ Cut(x, k, n - 1) \in Text
      /\ Cut(q, l, n) = Append(Cut(q, l, n - 1), Letter)
  BY <1>3, <1>5, <1>6
<1>8. Squeezed(Cut(x, k, n)) = Append(Squeezed(Cut(x, k, n - 1)), Letter)
  BY <1>7, SqueezedAppend, Written
<1> QED
  BY <1>1, <1>4, <1>7, <1>8

LEMMA Nothing ==
  <<>> \in Text /\ Edged(<<>>) /\ Squeezed(<<>>) = <<>> /\ Trimmed(<<>>) = <<>> /\ Width(<<>>) = 0
<1>1. <<>> \in Text /\ Edged(<<>>)
  BY DEF Text, Edged
<1> QED
  BY <1>1, EdgedStays, WidthGoes, SqueezedGoes

-----------------------------------------------------------------------------
(***************************************************************************)
(* Dropping the markup.                                                    *)
(***************************************************************************)
Opener == "<"
Closer == ">"

(* Markup is opened, and closed, by the last lexeme.                       *)
LEMMA MarkupGoes ==
  /\ ~ LeavesOpen(<<>>)
  /\ \A x \in Text, a \in Piece :
       /\ LeavesOpen(Append(x, a)) <=> a = Opener \/ (LeavesOpen(x) /\ a # Closer)
       /\ InMarkup(Append(x, a), Len(x) + 1) <=> LeavesOpen(x) \/ a = Opener
       /\ \A n \in 1 .. Len(x) : InMarkup(Append(x, a), n) <=> InMarkup(x, n)
<1>1. ~ LeavesOpen(<<>>)
  BY DEF LeavesOpen
<1>2. ASSUME NEW x \in Text, NEW a \in Piece
      PROVE  /\ LeavesOpen(Append(x, a)) <=> a = Opener \/ (LeavesOpen(x) /\ a # Closer)
             /\ InMarkup(Append(x, a), Len(x) + 1) <=> LeavesOpen(x) \/ a = Opener
             /\ \A n \in 1 .. Len(x) : InMarkup(Append(x, a), n) <=> InMarkup(x, n)
  <2> DEFINE y == Append(x, a)
             l == Len(x)
  <2>1. /\ l \in Nat /\ Len(y) = l + 1 /\ y[l + 1] = a /\ \A i \in 1 .. l : y[i] = x[i]
        /\ DOMAIN x = 1 .. l /\ DOMAIN y = 1 .. (l + 1)
    BY TextIs, AppendIs
  <2> HIDE DEF y, l
  <2>2. \A n \in 1 .. l : InMarkup(y, n) <=> InMarkup(x, n)
    <3> TAKE n \in 1 .. l
    <3>1. \A k \in 1 .. n : k \in 1 .. l /\ y[k] = x[k]
                            /\ \A j \in k .. (n - 1) : j \in 1 .. l /\ y[j] = x[j]
      BY <2>1
    <3> QED
      BY <3>1 DEF InMarkup
  <2>3. LeavesOpen(x) <=> \E k \in 1 .. l : x[k] = Opener /\ \A j \in k .. l : x[j] # Closer
    BY <2>1 DEF LeavesOpen, Opener, Closer, l
  <2>4. InMarkup(y, l + 1) <=> LeavesOpen(x) \/ a = Opener
    <3>1. InMarkup(y, l + 1) <=>
            \E k \in 1 .. (l + 1) : y[k] = Opener /\ \A j \in k .. l : y[j] # Closer
      <4>1. (l + 1) - 1 = l
        BY <2>1
      <4> QED
        BY <4>1 DEF InMarkup, Opener, Closer
    <3>2. LeavesOpen(x) => InMarkup(y, l + 1)
      <4> SUFFICES ASSUME NEW k \in 1 .. l, x[k] = Opener, \A j \in k .. l : x[j] # Closer
                   PROVE  y[k] = Opener /\ \A j \in k .. l : y[j] # Closer
        BY <2>1, <2>3, <3>1
      <4> QED
        BY <2>1
    <3>3. a = Opener => InMarkup(y, l + 1)
      <4>1. l + 1 \in 1 .. (l + 1) /\ \A j \in (l + 1) .. l : FALSE
        BY <2>1
      <4> QED
        BY <2>1, <3>1, <4>1
    <3>4. ASSUME InMarkup(y, l + 1), a # Opener PROVE LeavesOpen(x)
      <4>1. PICK k \in 1 .. (l + 1) : y[k] = Opener /\ \A j \in k .. l : y[j] # Closer
        BY <3>1, <3>4
      <4>2. k \in 1 .. l
        BY <2>1, <3>4, <4>1
      <4>3. x[k] = Opener /\ \A j \in k .. l : x[j] # Closer
        BY <2>1, <4>1, <4>2
      <4> QED
        BY <2>3, <4>2, <4>3
    <3> QED
      BY <3>2, <3>3, <3>4
  <2>5. LeavesOpen(y) <=> a = Opener \/ (LeavesOpen(x) /\ a # Closer)
    <3>1. LeavesOpen(y) <=> \E k \in 1 .. (l + 1) : y[k] = Opener /\ \A j \in k .. (l + 1) : y[j] # Closer
      BY <2>1 DEF LeavesOpen, Opener, Closer
    <3>2. \A k \in 1 .. (l + 1) : (\A j \in k .. (l + 1) : y[j] # Closer)
                                  <=> (\A j \in k .. l : y[j] # Closer) /\ a # Closer
      BY <2>1
    <3>3. InMarkup(y, l + 1) <=>
            \E k \in 1 .. (l + 1) : y[k] = Opener /\ \A j \in k .. l : y[j] # Closer
      <4>1. (l + 1) - 1 = l
        BY <2>1
      <4> QED
        BY <4>1 DEF InMarkup, Opener, Closer
    <3>4. LeavesOpen(y) <=> InMarkup(y, l + 1) /\ a # Closer
      BY <3>1, <3>2, <3>3
    <3>5. Opener # Closer
      BY DEF Opener, Closer
    <3> QED
      BY <2>4, <3>4, <3>5
  <2> QED
    BY <2>2, <2>4, <2>5 DEF y, l
<1> QED
  BY <1>1, <1>2

(* f says what is left of the first lexemes of a text.                     *)
Leaves(x, f) ==
  /\ f = [n \in 0 .. Len(x) |-> f[n]] /\ f[0] = <<>>
  /\ \A n \in 1 .. Len(x) :
       f[n] = IF InMarkup(x, n) THEN f[n - 1] ELSE Append(f[n - 1], x[n])

LEMMA LeavingExists ==
  ASSUME NEW x \in Text
  PROVE  \E f : Leaves(x, f)
<1> DEFINE Upto(m, f) ==
             /\ f = [n \in 0 .. m |-> f[n]] /\ f[0] = <<>>
             /\ \A n \in 1 .. m :
                  f[n] = IF InMarkup(x, n) THEN f[n - 1] ELSE Append(f[n - 1], x[n])
           Bad == {m \in 0 .. Len(x) : ~ \E f : Upto(m, f)}
<1>0. Len(x) \in Nat
  BY TextIs
<1>1. Bad = {}
  <2> SUFFICES ASSUME Bad # {}
               PROVE  FALSE
    OBVIOUS
  <2>1. PICK m \in Bad : \A n \in Bad : m <= n
    <3>1. Bad \in SUBSET Nat
      BY <1>0
    <3> HIDE DEF Bad
    <3> QED
      BY <3>1, Least
  <2>2. m # 0
    <3> DEFINE f == [n \in 0 .. 0 |-> <<>>]
    <3>1. Upto(0, f)
      OBVIOUS
    <3> QED
      BY <2>1, <3>1
  <2>3. m \in 1 .. Len(x) /\ m - 1 \in 0 .. Len(x) /\ m - 1 < m /\ m \in Nat
    BY <1>0, <2>1, <2>2
  <2>4. PICK g : Upto(m - 1, g)
    <3>1. m - 1 \notin Bad
      BY <1>0, <2>1, <2>3
    <3> QED
      BY <2>3, <3>1
  <2> DEFINE last == IF InMarkup(x, m) THEN g[m - 1] ELSE Append(g[m - 1], x[m])
             f == [n \in 0 .. m |-> IF n = m THEN last ELSE g[n]]
  <2>5. f = [n \in 0 .. m |-> f[n]] /\ f[m] = last /\ \A n \in 0 .. (m - 1) : f[n] = g[n]
    BY <2>3
  <2> HIDE DEF f
  <2>6. f[0] = <<>>
    BY <2>3, <2>4, <2>5
  <2>7. ASSUME NEW n \in 1 .. m
        PROVE  f[n] = IF InMarkup(x, n) THEN f[n - 1] ELSE Append(f[n - 1], x[n])
    <3>0. n - 1 \in 0 .. (m - 1) /\ (n # m => n \in 0 .. (m - 1) /\ n \in 1 .. (m - 1))
      BY <2>3
    <3>1. f[n - 1] = g[n - 1]
      BY <2>5, <3>0
    <3>2. CASE n = m
      BY <2>5, <3>1, <3>2
    <3>3. CASE n # m
      <4>1. f[n] = g[n]
        BY <2>5, <3>0, <3>3
      <4>2. g[n] = IF InMarkup(x, n) THEN g[n - 1] ELSE Append(g[n - 1], x[n])
        BY <2>4, <3>0, <3>3
      <4> QED
        BY <3>1, <4>1, <4>2
    <3> QED
      BY <3>2, <3>3
  <2>8. Upto(m, f)
    BY <2>5, <2>6, <2>7
  <2> QED
    BY <2>1, <2>8
<1>2. \E f : Upto(Len(x), f)
  BY <1>0, <1>1
<1> QED
  BY <1>2 DEF Leaves

LEMMA UnmarkedLeaves ==
  ASSUME NEW x \in Text
  PROVE  \E f : Leaves(x, f) /\ Unmarked(x) = f[Len(x)]
<1> DEFINE Reads(f) ==
             f = [n \in 0 .. Len(x) |->
                    IF n = 0 THEN <<>>
                    ELSE IF InMarkup(x, n) THEN f[n - 1] ELSE Append(f[n - 1], x[n])]
           left == CHOOSE f : Reads(f)
<1>0. /\ Len(x) \in Nat /\ 0 \in 0 .. Len(x)
      /\ \A n \in 0 .. Len(x) : n = 0 \/ n \in 1 .. Len(x)
      /\ \A n \in 1 .. Len(x) : n \in 0 .. Len(x) /\ n # 0
  BY TextIs
<1>1. Unmarked(x) = left[Len(x)]
  BY Zenon DEF Unmarked
<1>2. \A f : Reads(f) <=> Leaves(x, f)
  BY <1>0 DEF Leaves
<1>3. Reads(left)
  <2> HIDE DEF Reads
  <2> QED
    BY <1>2, LeavingExists
<1> HIDE DEF left, Reads
<1> QED
  BY <1>1, <1>2, <1>3

(* What is left of a text, one lexeme after the other.                     *)
LEMMA UnmarkedGoes ==
  /\ Unmarked(<<>>) = <<>>
  /\ \A x \in Text : Unmarked(x) \in Text
  /\ \A x \in Text, a \in Piece :
       Unmarked(Append(x, a)) = IF LeavesOpen(x) \/ a = Opener THEN Unmarked(x)
                                ELSE Append(Unmarked(x), a)
<1>1. Unmarked(<<>>) = <<>>
  BY Nothing, UnmarkedLeaves, TextIs DEF Leaves
<1>2. ASSUME NEW x \in Text, NEW f, Leaves(x, f)
      PROVE  \A n \in 0 .. Len(x) : f[n] \in Text
  <2> DEFINE Bad == {n \in 0 .. Len(x) : f[n] \notin Text}
  <2> SUFFICES ASSUME Bad # {}
               PROVE  FALSE
    OBVIOUS
  <2>0. Len(x) \in Nat
    BY TextIs
  <2>1. PICK m \in Bad : \A n \in Bad : m <= n
    <3>1. Bad \in SUBSET Nat
      BY <2>0
    <3> HIDE DEF Bad
    <3> QED
      BY <3>1, Least
  <2>2. m # 0
    BY <1>2, <2>1, Nothing DEF Leaves
  <2>3. m \in 1 .. Len(x) /\ m - 1 \in 0 .. Len(x) /\ m - 1 < m
    BY <2>0, <2>1, <2>2
  <2>4. f[m - 1] \in Text
    BY <2>0, <2>1, <2>3
  <2>5. x[m] \in Piece
    BY <2>3, TextIs
  <2>6. f[m] \in Text
    BY <1>2, <2>3, <2>4, <2>5, AppendIs DEF Leaves
  <2> QED
    BY <2>1, <2>6
<1>3. ASSUME NEW x \in Text
      PROVE  Unmarked(x) \in Text
  <2>1. PICK f : Leaves(x, f) /\ Unmarked(x) = f[Len(x)]
    BY UnmarkedLeaves
  <2>2. Len(x) \in 0 .. Len(x)
    BY TextIs
  <2> QED
    BY <1>2, <2>1, <2>2
<1>4. ASSUME NEW x \in Text, NEW a \in Piece
      PROVE  Unmarked(Append(x, a)) = IF LeavesOpen(x) \/ a = Opener THEN Unmarked(x)
                                      ELSE Append(Unmarked(x), a)
  <2> DEFINE y == Append(x, a)
             l == Len(x)
  <2>0. /\ l \in Nat /\ y \in Text /\ Len(y) = l + 1 /\ y[l + 1] = a
        /\ \A i \in 1 .. l : y[i] = x[i]
        /\ InMarkup(y, l + 1) <=> LeavesOpen(x) \/ a = Opener
        /\ \A n \in 1 .. l : InMarkup(y, n) <=> InMarkup(x, n)
    BY TextIs, AppendIs, MarkupGoes
  <2>1. PICK f : Leaves(x, f) /\ Unmarked(x) = f[l]
    BY UnmarkedLeaves
  <2> HIDE DEF y
  <2>2. PICK g : Leaves(y, g) /\ Unmarked(y) = g[Len(y)]
    BY <2>0, UnmarkedLeaves
  <2> HIDE DEF l
  <2>3. /\ f[0] = <<>> /\ g[0] = <<>>
        /\ \A n \in 1 .. l : f[n] = IF InMarkup(x, n) THEN f[n - 1] ELSE Append(f[n - 1], x[n])
        /\ \A n \in 1 .. (l + 1) :
             g[n] = IF InMarkup(y, n) THEN g[n - 1] ELSE Append(g[n - 1], y[n])
    BY <2>0, <2>1, <2>2 DEF Leaves, l
  <2> DEFINE Bad == {n \in 0 .. l : f[n] # g[n]}
  <2>4. Bad = {}
    <3> SUFFICES ASSUME Bad # {}
                 PROVE  FALSE
      OBVIOUS
    <3>1. PICK m \in Bad : \A n \in Bad : m <= n
      <4>1. Bad \in SUBSET Nat
        BY <2>0
      <4> HIDE DEF Bad
      <4> QED
        BY <4>1, Least
    <3>2. m # 0
      BY <2>3, <3>1
    <3>3. m \in 1 .. l /\ m \in 1 .. (l + 1) /\ m - 1 \in 0 .. l /\ m - 1 < m
      BY <2>0, <3>1, <3>2
    <3>4. f[m - 1] = g[m - 1]
      BY <2>0, <3>1, <3>3
    <3>5. f[m] = g[m]
      BY <2>0, <2>3, <3>3, <3>4
    <3> QED
      BY <3>1, <3>5
  <2>5. f[l] = g[l]
    <3>1. l \in 0 .. l
      BY <2>0
    <3> QED
      BY <2>4, <3>1
  <2>6. l + 1 \in 1 .. (l + 1) /\ (l + 1) - 1 = l
    BY <2>0
  <2>7. g[l + 1] = IF LeavesOpen(x) \/ a = Opener THEN g[l] ELSE Append(g[l], a)
    BY <2>0, <2>3, <2>6
  <2>8. Unmarked(y) = IF LeavesOpen(x) \/ a = Opener THEN Unmarked(x) ELSE Append(Unmarked(x), a)
    BY <2>0, <2>1, <2>2, <2>5, <2>7 DEF l
  <2> QED
    BY <2>8 DEF y
<1> QED
  BY <1>1, <1>3, <1>4

(* What is left of the beginning of a text begins what is left of all.     *)
LEMMA UnmarkedIs ==
  ASSUME NEW x \in Text
  PROVE  /\ Unmarked(x) \in Text /\ Width(Unmarked(x)) <= Width(x)
         /\ \A k \in 0 .. Len(x) : Begins(Unmarked(Start(x, k)), Unmarked(x))
<1> DEFINE U(k) == Unmarked(Start(x, k))
           W(k) == Width(Start(x, k))
<1>0. Len(x) \in Nat /\ Start(x, 0) = <<>> /\ Start(x, Len(x)) = x
  BY TextIs, StartIs
<1>1. \A k \in 0 .. Len(x) : U(k) \in Text /\ W(k) \in Nat /\ Width(U(k)) \in Nat /\ Len(U(k)) \in Nat
  BY StartIs, UnmarkedGoes, WidthGoes, TextIs
<1>2. ASSUME NEW k \in 1 .. Len(x)
      PROVE  /\ k - 1 \in 0 .. Len(x) /\ k - 1 < k /\ Begins(U(k - 1), U(k))
             /\ Width(U(k - 1)) <= W(k - 1) => Width(U(k)) <= W(k)
  <2> DEFINE s == Start(x, k - 1)
             a == x[k]
             u == Unmarked(s)
  <2>1. a \in Piece /\ k - 1 \in 0 .. Len(x) /\ Start(x, k) = Append(s, a)
    BY StartGrows
  <2>2. s \in Text
    BY <2>1, StartIs
  <2>3. W(k) = Width(s) + WidthOf(a) /\ U(k) \in {u, Append(u, a)} /\ u \in Text
    BY <2>1, <2>2, WidthGoes, UnmarkedGoes
  <2>4. Width(s) \in Nat /\ WidthOf(a) \in Nat /\ k - 1 < k /\ U(k - 1) = u /\ W(k - 1) = Width(s)
    BY <2>2, WidthGoes, WidthOfIs
  <2> HIDE DEF U, W, u, s, a
  <2>5. /\ Width(Append(u, a)) = Width(u) + WidthOf(a) /\ Width(u) \in Nat
        /\ Begins(u, u) /\ Begins(u, Append(u, a))
    <3>1. Len(u) \in Nat /\ Len(Append(u, a)) = Len(u) + 1
          /\ \A i \in 1 .. Len(u) : Append(u, a)[i] = u[i]
      BY <2>1, <2>3, TextIs, AppendIs
    <3> QED
      BY <2>1, <2>3, <3>1, WidthGoes DEF Begins
  <2>6. Begins(U(k - 1), U(k))
    BY <2>3, <2>4, <2>5
  <2>7. Width(U(k)) = Width(u) \/ Width(U(k)) = Width(u) + WidthOf(a)
    <3>1. U(k) = u \/ U(k) = Append(u, a)
      BY <2>3
    <3> QED
      BY <2>5, <3>1
  <2>8. Width(u) <= Width(s) => Width(U(k)) <= Width(s) + WidthOf(a)
    BY <2>4, <2>5, <2>7
  <2> QED
    BY <2>1, <2>3, <2>4, <2>6, <2>8
<1>3. U(0) = <<>> /\ W(0) = 0 /\ U(Len(x)) = Unmarked(x) /\ W(Len(x)) = Width(x)
  BY <1>0, UnmarkedGoes, Nothing
<1> HIDE DEF U, W
<1> DEFINE Bad == {k \in 0 .. Len(x) : ~ Width(U(k)) <= W(k)}
<1>4. Bad = {}
  <2> SUFFICES ASSUME Bad # {}
               PROVE  FALSE
    OBVIOUS
  <2>1. PICK m \in Bad : \A n \in Bad : m <= n
    <3>1. Bad \in SUBSET Nat
      BY <1>0
    <3> HIDE DEF Bad
    <3> QED
      BY <3>1, Least
  <2>2. m # 0
    BY <1>3, <2>1, Nothing
  <2>3. m \in 1 .. Len(x)
    BY <1>0, <2>1, <2>2
  <2>4. Width(U(m - 1)) <= W(m - 1)
    BY <1>0, <1>2, <2>1, <2>3
  <2> QED
    BY <1>2, <2>1, <2>3, <2>4
<1>5. ASSUME NEW k \in 0 .. Len(x)
      PROVE  Begins(U(k), U(Len(x)))
  <2> DEFINE Worse == {n \in k .. Len(x) : ~ Begins(U(k), U(n))}
  <2>0. Worse = {}
    <3> SUFFICES ASSUME Worse # {}
                 PROVE  FALSE
      OBVIOUS
    <3>1. PICK m \in Worse : \A n \in Worse : m <= n
      <4>1. Worse \in SUBSET Nat
        BY <1>0
      <4> HIDE DEF Worse
      <4> QED
        BY <4>1, Least
    <3>2. m # k
      <4>1. Begins(U(k), U(k))
        BY <1>1 DEF Begins
      <4> QED
        BY <3>1, <4>1
    <3>3. m \in 1 .. Len(x) /\ m \in 0 .. Len(x) /\ m - 1 \in k .. Len(x)
          /\ m - 1 \in 0 .. Len(x) /\ m - 1 < m
      BY <1>0, <3>1, <3>2
    <3>4. Begins(U(k), U(m - 1))
      BY <1>0, <3>1, <3>3
    <3>5. Begins(U(m - 1), U(m))
      BY <1>2, <3>3
    <3>6. U(k) \in Text /\ U(m - 1) \in Text /\ U(m) \in Text
      BY <1>1, <3>3
    <3>7. Begins(U(k), U(m))
      BY <3>4, <3>5, <3>6, BeginsFurther
    <3> QED
      BY <3>1, <3>7
  <2>1. Len(x) \in k .. Len(x)
    BY <1>0
  <2> QED
    BY <2>0, <2>1
<1>6. Len(x) \in 0 .. Len(x)
  BY <1>0
<1>7. Width(Unmarked(x)) <= Width(x) /\ Unmarked(x) \in Text
  BY <1>3, <1>4, <1>6, UnmarkedGoes
<1>8. \A k \in 0 .. Len(x) : Begins(U(k), Unmarked(x))
  BY <1>3, <1>5
<1> QED
  BY <1>7, <1>8 DEF U

-----------------------------------------------------------------------------
(***************************************************************************)
(* The description: it says what was stated, as far as it goes.            *)
(***************************************************************************)

Shows(q, st) ==
  /\ Width(q) <= Width(st)
  /\ \A i \in 1 .. Len(q) : q[i] = st[i] \/ q[i] = Letter

LEMMA BeginningShows ==
  ASSUME NEW p \in Text, NEW q \in Text, NEW st \in Text, Begins(p, q), Shows(q, st)
  PROVE  Shows(p, st)
<1>1. Width(p) <= Width(q) /\ Width(p) \in Nat /\ Width(q) \in Nat /\ Width(st) \in Nat
  BY BeginsIs, WidthGoes
<1>2. Width(p) <= Width(st)
  BY <1>1 DEF Shows
<1>3. Len(p) \in Nat /\ Len(q) \in Nat
  BY TextIs
<1>4. \A i \in 1 .. Len(p) : i \in 1 .. Len(q) /\ p[i] = q[i]
  BY <1>3 DEF Begins
<1> QED
  BY <1>2, <1>4 DEF Shows

(* A lexeme that is cut through is wide, so it is a fact's sentence.       *)
LEMMA WideIsFact == \A a : WidthOf(a) > 1 => a \in Facts
BY DEF WidthOf

LEMMA CutShows ==
  ASSUME NEW x \in Text, NEW k \in 0 .. Len(x), NEW r \in Nat,
         r # 0 => k < Len(x) /\ r < WidthOf(x[k + 1])
  PROVE  Shows(Squeezed(Cut(x, k, r)), Squeezed(x))
<1> DEFINE q == Squeezed(Start(x, k))
           l == Len(q)
           st == Squeezed(x)
<1>1. q \in Text /\ st \in Text /\ Begins(q, st)
  BY StartIs, SqueezedGoes, SqueezedIs
<1>2. Squeezed(Cut(x, k, r)) = Cut(q, l, r)
  BY SqueezedCut
<1>3. Len(x) \in Nat
  BY TextIs
<1>4. r # 0 => Width(q) + r <= Width(st)
  <2> SUFFICES ASSUME r # 0
               PROVE  Width(q) + r <= Width(st)
    OBVIOUS
  <2> DEFINE a == x[k + 1]
             u == Squeezed(Start(x, k + 1))
  <2>1. k + 1 \in 1 .. Len(x) /\ k + 1 \in 0 .. Len(x) /\ (k + 1) - 1 = k
    BY <1>3
  <2>2. Start(x, k + 1) = Append(Start(x, k), a) /\ a \in Piece /\ Start(x, k) \in Text
    BY <2>1, StartGrows, StartIs
  <2>3. r < WidthOf(a) /\ WidthOf(a) \in Nat
    BY WidthOfIs
  <2>4. ~ Space(a)
    <3>1. WidthOf(a) > 1
      BY <2>3
    <3>2. a \in Facts
      BY <3>1, WideIsFact
    <3> QED
      BY <3>2, Written
  <2>5. u = Append(q, a)
    BY <2>2, <2>4, SqueezedAppend
  <2>6. Begins(u, st) /\ u \in Text
    BY <2>1, SqueezedIs, StartIs, SqueezedGoes
  <2> HIDE DEF u, q, st, a
  <2>7. Width(u) = Width(q) + WidthOf(a) /\ Width(u) <= Width(st)
    BY <1>1, <2>2, <2>5, <2>6, WidthGoes, BeginsIs
  <2>8. Width(q) \in Nat /\ Width(st) \in Nat
    BY <1>1, WidthGoes
  <2> QED
    BY <2>3, <2>7, <2>8
<1> HIDE DEF q, st
<1>5. l \in 0 .. Len(q) /\ l \in Nat /\ Start(q, l) = q
  BY <1>1, TextIs, StartIs
<1> HIDE DEF l
<1>6. /\ Len(Cut(q, l, r)) = l + r /\ Width(Cut(q, l, r)) = Width(q) + r
      /\ \A i \in 1 .. l : Cut(q, l, r)[i] = q[i]
      /\ \A i \in (l + 1) .. (l + r) : Cut(q, l, r)[i] = Letter
  <2>1. Width(Cut(q, l, r)) = Width(Start(q, l)) + r
    BY <1>1, <1>5, CutWidth
  <2>2. Width(Cut(q, l, r)) = Width(q) + r
    BY <1>5, <2>1
  <2> QED
    BY <1>1, <1>5, <2>2, CutIs
<1>7. Width(Cut(q, l, r)) <= Width(st)
  <2>1. Width(q) <= Width(st) /\ Width(q) \in Nat /\ Width(st) \in Nat
    BY <1>1, BeginsIs, WidthGoes
  <2> QED
    BY <1>4, <1>6, <2>1
<1>8. ASSUME NEW i \in 1 .. (l + r)
      PROVE  Cut(q, l, r)[i] = st[i] \/ Cut(q, l, r)[i] = Letter
  <2>1. i \in 1 .. l \/ i \in (l + 1) .. (l + r)
    BY <1>5, <1>8
  <2>2. CASE i \in 1 .. l
    <3>1. q[i] = st[i]
      BY <1>1, <2>2 DEF Begins, l
    <3> QED
      BY <1>6, <2>2, <3>1
  <2>3. CASE i \in (l + 1) .. (l + r)
    BY <1>6, <2>3
  <2> QED
    BY <2>1, <2>2, <2>3
<1>9. Shows(Cut(q, l, r), st)
  BY <1>6, <1>7, <1>8 DEF Shows
<1> QED
  BY <1>2, <1>9 DEF q, l, st

(* Letters behind a text leave its markup as it is.                        *)
LEMMA LettersStay ==
  ASSUME NEW x \in Text, NEW k \in 0 .. Len(x), NEW r \in Nat
  PROVE  LET q == Unmarked(Start(x, k)) IN
         /\ LeavesOpen(Cut(x, k, r)) <=> LeavesOpen(Start(x, k))
         /\ ~ LeavesOpen(Start(x, k)) => Unmarked(Cut(x, k, r)) = Cut(q, Len(q), r)
<1> DEFINE p == Start(x, k)
           q == Unmarked(p)
           l == Len(q)
           Stays(n) == /\ LeavesOpen(Cut(x, k, n)) <=> LeavesOpen(p)
                       /\ ~ LeavesOpen(p) => Unmarked(Cut(x, k, n)) = Cut(q, l, n)
           Bad == {n \in Nat : ~ Stays(n)}
<1>0. p \in Text /\ q \in Text /\ l \in 0 .. Len(q)
  BY StartIs, UnmarkedGoes, TextIs
<1> SUFFICES ASSUME Bad # {}
             PROVE  FALSE
  OBVIOUS
<1>1. PICK n \in Bad : \A m \in Bad : n <= m
  <2>1. Bad \in SUBSET Nat
    OBVIOUS
  <2> HIDE DEF Bad
  <2> QED
    BY <2>1, Least
<1>2. n # 0
  <2>1. Cut(x, k, 0) = p
    BY CutIs
  <2>2. Cut(q, l, 0) = q
    <3>1. Start(q, l) = q
      BY <1>0, StartIs
    <3> HIDE DEF q, l
    <3> QED
      BY <1>0, <3>1, CutIs
  <2> QED
    BY <1>1, <2>1, <2>2
<1> HIDE DEF p, q, l
<1>3. n - 1 \in Nat /\ (n - 1) + 1 = n /\ n - 1 < n
  BY <1>1, <1>2
<1>4. Stays(n - 1)
  BY <1>1, <1>3
<1>5. \A m \in Nat : Cut(x, k, m + 1) = Append(Cut(x, k, m), Letter) /\ Cut(x, k, m) \in Text
  BY CutIs, CutGrows
<1>6. \A m \in Nat : Cut(q, l, m + 1) = Append(Cut(q, l, m), Letter)
  BY <1>0, CutGrows
<1>7. /\ Cut(x, k, n) = Append(Cut(x, k, n - 1), Letter) /\ Cut(x, k, n - 1) \in Text
      /\ Cut(q, l, n) = Append(Cut(q, l, n - 1), Letter)
  BY <1>3, <1>5, <1>6
<1>8. Letter \in Piece /\ Letter # Opener /\ Letter # Closer
  BY Written DEF Letter, Opener, Closer
<1>9. LeavesOpen(Cut(x, k, n)) <=> LeavesOpen(Cut(x, k, n - 1))
  BY <1>7, <1>8, MarkupGoes
<1>10. ~ LeavesOpen(Cut(x, k, n - 1)) =>
         Unmarked(Cut(x, k, n)) = Append(Unmarked(Cut(x, k, n - 1)), Letter)
  BY <1>7, <1>8, UnmarkedGoes
<1>11. Stays(n)
  BY <1>4, <1>7, <1>9, <1>10
<1> QED
  BY <1>1, <1>11

(* What is left of a beginning of a cut is a cut of what is left of all.   *)
LEMMA UnmarkedCut ==
  ASSUME NEW x \in Text, NEW k \in 0 .. Len(x), NEW r \in Nat,
         r # 0 => k < Len(x) /\ r < WidthOf(x[k + 1]),
         NEW j \in 0 .. Len(Cut(x, k, r)), ~ LeavesOpen(Start(Cut(x, k, r), j))
  PROVE  LET whole == Unmarked(x) IN
         \E l \in 0 .. Len(whole), n \in Nat :
           /\ Unmarked(Start(Cut(x, k, r), j)) = Cut(whole, l, n)
           /\ n # 0 => l < Len(whole) /\ n < WidthOf(whole[l + 1])
<1> DEFINE c == Cut(x, k, r)
           u == Start(c, j)
           whole == Unmarked(x)
<1>0. /\ Len(x) \in Nat /\ k \in Nat /\ c \in Text /\ Len(c) = k + r /\ j \in 0 .. (k + r)
      /\ \A i \in 1 .. k : c[i] = x[i]
      /\ \A i \in (k + 1) .. (k + r) : c[i] = Letter
  <2>1. Len(x) \in Nat /\ k \in Nat
    BY TextIs
  <2>2. /\ c \in Text /\ Len(c) = k + r /\ \A i \in 1 .. k : c[i] = x[i]
        /\ \A i \in (k + 1) .. (k + r) : c[i] = Letter
    BY CutIs
  <2>3. j \in 0 .. Len(c)
    OBVIOUS
  <2> HIDE DEF c
  <2> QED
    BY <2>1, <2>2, <2>3
<1>1. whole \in Text /\ Len(whole) \in Nat
  BY UnmarkedGoes, TextIs
<1> HIDE DEF c
<1>2. /\ u \in Text /\ Len(u) = j /\ \A i \in 1 .. j : u[i] = c[i]
      /\ ~ LeavesOpen(u)
  BY <1>0, StartIs DEF c
<1> HIDE DEF u
<1>3. CASE j <= k
  <2>1. j \in 0 .. Len(x) /\ \A i \in 1 .. j : i \in 1 .. k
    BY <1>0, <1>3
  <2>2. Start(x, j) \in Text /\ Len(Start(x, j)) = j /\ \A i \in 1 .. j : Start(x, j)[i] = x[i]
    BY <2>1, StartIs
  <2>3. u = Start(x, j)
    BY <1>0, <1>2, <2>1, <2>2, SameText
  <2> DEFINE p == Unmarked(u)
             l == Len(p)
  <2>4. p \in Text /\ Begins(p, whole)
    BY <2>1, <2>2, <2>3, UnmarkedIs
  <2> HIDE DEF p, whole
  <2>5. l \in 0 .. Len(whole) /\ p = Start(whole, l)
    BY <1>1, <2>4, BeginsIs
  <2>6. Cut(whole, l, 0) = p
    BY <1>1, <2>5, CutIs
  <2> QED
    BY <2>5, <2>6 DEF p, whole, u, c
<1>4. CASE ~ j <= k
  <2> DEFINE n == j - k
             p == Start(x, k)
             q == Unmarked(p)
             l == Len(q)
             a == x[k + 1]
  <2>1. n \in Nat /\ n # 0 /\ n <= r /\ r # 0 /\ k + n = j
    BY <1>0, <1>4
  <2>2. /\ Cut(x, k, n) \in Text /\ Len(Cut(x, k, n)) = k + n
        /\ \A i \in 1 .. k : Cut(x, k, n)[i] = x[i]
        /\ \A i \in (k + 1) .. (k + n) : Cut(x, k, n)[i] = Letter
    <3> HIDE DEF n
    <3> QED
      BY <2>1, CutIs
  <2>3. u = Cut(x, k, n)
    <3>1. ASSUME NEW i \in 1 .. j
          PROVE  u[i] = Cut(x, k, n)[i]
      <4>1. CASE i \in 1 .. k
        BY <1>0, <1>2, <2>2, <4>1
      <4>2. CASE i \notin 1 .. k
        <5>1. i \in (k + 1) .. (k + r) /\ i \in (k + 1) .. (k + n)
          BY <1>0, <2>1, <4>2
        <5> QED
          BY <1>0, <1>2, <2>2, <5>1
      <4> QED
        BY <4>1, <4>2
    <3>2. Len(u) = Len(Cut(x, k, n))
      BY <1>2, <2>1, <2>2
    <3> QED
      BY <1>2, <2>2, <3>1, <3>2, SameText
  <2>4. /\ ~ LeavesOpen(p) /\ Unmarked(u) = Cut(q, l, n)
    <3> HIDE DEF n
    <3> QED
      BY <1>2, <2>1, <2>3, LettersStay
  <2>5. k + 1 \in 1 .. Len(x) /\ k + 1 \in 0 .. Len(x) /\ (k + 1) - 1 = k
    BY <1>0, <2>1
  <2>6. a \in Piece /\ Start(x, k + 1) = Append(p, a) /\ p \in Text /\ q \in Text
    BY <2>5, StartGrows, StartIs, UnmarkedGoes
  <2>7. n < WidthOf(a) /\ a # Opener
    <3>1. r < WidthOf(a) /\ WidthOf(a) \in Nat
      BY <2>1, WidthOfIs
    <3>2. a \in Facts
      BY <2>1, <3>1, WideIsFact
    <3>3. a # Opener
      BY <3>2, Lexemes DEF Opener
    <3> HIDE DEF n, a
    <3> QED
      BY <2>1, <3>1, <3>3
  <2>8. Unmarked(Start(x, k + 1)) = Append(q, a)
    BY <2>4, <2>6, <2>7, UnmarkedGoes
  <2>9. Begins(Append(q, a), whole)
    BY <2>5, <2>8, UnmarkedIs
  <2> HIDE DEF q, n, a, whole
  <2>10. /\ l \in Nat /\ l + 1 <= Len(whole) /\ whole[l + 1] = a
         /\ \A i \in 1 .. l : whole[i] = q[i]
    <3>1. Len(Append(q, a)) = l + 1 /\ Append(q, a)[l + 1] = a /\ l \in Nat
          /\ \A i \in 1 .. l : Append(q, a)[i] = q[i]
      BY <2>6, AppendIs, TextIs
    <3>2. \A i \in 1 .. (l + 1) : Append(q, a)[i] = whole[i]
      BY <2>9, <3>1 DEF Begins
    <3>3. l + 1 \in 1 .. (l + 1) /\ \A i \in 1 .. l : i \in 1 .. (l + 1)
      BY <3>1
    <3> QED
      BY <2>9, <3>1, <3>2, <3>3 DEF Begins
  <2> HIDE DEF l
  <2>11. Cut(q, l, n) = Cut(whole, l, n)
    BY <2>1, <2>10 DEF Cut
  <2>12. l \in 0 .. Len(whole) /\ l < Len(whole)
    BY <1>1, <2>10
  <2> QED
    BY <2>1, <2>4, <2>7, <2>10, <2>11, <2>12 DEF whole, u, c
<1> QED
  BY <1>3, <1>4

(* A lexeme that neither opens nor closes anything stays at the end.       *)
LEMMA LastStays ==
  ASSUME NEW x \in Text, ~ LeavesOpen(x),
         x = <<>> \/ Last(x) \in Facts \cup {Stop, Mark}
  PROVE  /\ Unmarked(x) \in Text /\ (x = <<>> <=> Unmarked(x) = <<>>)
         /\ x # <<>> => Last(Unmarked(x)) = Last(x)
         /\ Ended(Unmarked(x))
<1>1. Unmarked(x) \in Text
  BY UnmarkedGoes
<1>2. CASE x = <<>>
  BY <1>1, <1>2, UnmarkedGoes DEF Ended
<1>3. CASE x # <<>>
  <2> DEFINE l == Len(x)
             y == Start(x, l - 1)
             a == x[l]
             u == Unmarked(y)
  <2>1. l \in Nat /\ l # 0
    BY <1>3, TextIs
  <2>2. l \in 1 .. Len(x) /\ l - 1 \in 0 .. Len(x) /\ Start(x, l) = x
    BY <2>1, StartIs
  <2>3. x = Append(y, a) /\ a \in Piece /\ y \in Text /\ Last(x) = a
    BY <2>2, StartGrows, StartIs DEF Last
  <2> HIDE DEF y, a
  <2>4. a # Opener /\ a # Closer /\ ~ Space(a)
    <3>1. a \in Facts \cup {Stop, Mark}
      BY <1>3, <2>3
    <3>2. Opener \notin Facts /\ Closer \notin Facts /\ Opener \notin {Stop, Mark}
          /\ Closer \notin {Stop, Mark}
      BY Lexemes DEF Opener, Closer, Stop, Mark
    <3> QED
      BY <3>1, <3>2, Written
  <2>5. ~ LeavesOpen(y)
    BY <2>3, <2>4, MarkupGoes
  <2>6. Unmarked(x) = Append(u, a) /\ u \in Text
    BY <2>3, <2>4, <2>5, UnmarkedGoes
  <2> HIDE DEF u
  <2>7. Unmarked(x) # <<>> /\ Last(Unmarked(x)) = a
    BY <2>3, <2>6, AppendIs
  <2> QED
    BY <1>1, <1>3, <2>3, <2>4, <2>7 DEF Ended
<1> QED
  BY <1>2, <1>3

(* The same of a text that shows what was stated, with a mark behind it.   *)
LEMMA CutOfShown ==
  ASSUME NEW q \in Text, NEW st \in Text, Shows(q, st),
         NEW p \in Text, p = q \/ \E c \in Piece : p = Append(q, c) /\ WidthOf(c) = 1,
         NEW k \in 0 .. Len(p), k < Len(p), NEW r \in Nat, r # 0 => r < WidthOf(p[k + 1])
  PROVE  Shows(Cut(p, k, r), st)
<1>0. Len(p) \in Nat /\ Len(q) \in Nat /\ k \in Nat
  BY TextIs
<1>1. /\ \A i \in 1 .. Len(q) : p[i] = q[i]
      /\ Len(p) = Len(q) \/ (Len(p) = Len(q) + 1 /\ WidthOf(p[Len(q) + 1]) = 1)
  <2>1. CASE p = q
    BY <2>1
  <2>2. CASE \E c \in Piece : p = Append(q, c) /\ WidthOf(c) = 1
    <3>1. PICK c \in Piece : p = Append(q, c) /\ WidthOf(c) = 1
      BY <2>2
    <3>2. /\ Len(Append(q, c)) = Len(q) + 1 /\ Append(q, c)[Len(q) + 1] = c
          /\ \A i \in 1 .. Len(q) : Append(q, c)[i] = q[i]
      BY AppendIs
    <3> QED
      BY <3>1, <3>2
  <2> QED
    BY <2>1, <2>2
<1>2. k \in 0 .. Len(q)
  BY <1>0, <1>1
<1>3. Start(p, k) = Start(q, k)
  <2>1. /\ Start(p, k) \in Text /\ Len(Start(p, k)) = k
        /\ \A i \in 1 .. k : Start(p, k)[i] = p[i]
    BY StartIs
  <2>2. /\ Start(q, k) \in Text /\ Len(Start(q, k)) = k
        /\ \A i \in 1 .. k : Start(q, k)[i] = q[i]
    BY <1>2, StartIs
  <2>3. \A i \in 1 .. k : i \in 1 .. Len(q)
    BY <1>0, <1>2
  <2>4. \A i \in 1 .. k : Start(p, k)[i] = Start(q, k)[i]
    BY <1>1, <2>1, <2>2, <2>3
  <2> QED
    BY <2>1, <2>2, <2>4, SameText
<1>4. /\ Len(Cut(p, k, r)) = k + r
      /\ \A i \in 1 .. k : Cut(p, k, r)[i] = p[i]
      /\ \A i \in (k + 1) .. (k + r) : Cut(p, k, r)[i] = Letter
  BY CutIs
<1>5. Width(Cut(p, k, r)) = Width(Start(q, k)) + r
  BY <1>3, CutWidth
<1>6. Width(Start(q, k)) + r <= Width(q)
  <2>0. /\ Width(Start(q, k)) \in Nat /\ Width(Start(q, k)) <= Width(q) /\ Width(q) \in Nat
        /\ k < Len(q) => Width(Start(q, k)) + WidthOf(q[k + 1]) <= Width(q)
    BY <1>2, StartIsNarrower, WidthGoes
  <2>1. CASE r = 0
    BY <2>0, <2>1
  <2>2. CASE r # 0
    <3>1. k # Len(q)
      BY <1>0, <1>1, <2>2
    <3>2. k < Len(q) /\ k + 1 \in 1 .. Len(q)
      BY <1>0, <1>2, <3>1
    <3>3. p[k + 1] = q[k + 1]
      BY <1>1, <3>2
    <3>4. WidthOf(q[k + 1]) \in Nat
      BY WidthOfIs
    <3> QED
      BY <2>0, <2>2, <3>2, <3>3, <3>4
  <2> QED
    BY <2>1, <2>2
<1>7. Width(Cut(p, k, r)) <= Width(st)
  <2>1. Width(q) \in Nat /\ Width(st) \in Nat /\ Width(Start(q, k)) \in Nat /\ Width(q) <= Width(st)
    BY <1>2, StartIsNarrower, WidthGoes DEF Shows
  <2> QED
    BY <1>5, <1>6, <2>1
<1>8. ASSUME NEW i \in 1 .. (k + r)
      PROVE  Cut(p, k, r)[i] = st[i] \/ Cut(p, k, r)[i] = Letter
  <2>1. i \in 1 .. k \/ i \in (k + 1) .. (k + r)
    BY <1>0, <1>8
  <2>2. CASE i \in 1 .. k
    <3>1. i \in 1 .. Len(q)
      BY <1>0, <1>2, <2>2
    <3>2. q[i] = st[i] \/ q[i] = Letter
      BY <3>1 DEF Shows
    <3> QED
      BY <1>1, <1>4, <2>2, <3>1, <3>2
  <2>3. CASE i \in (k + 1) .. (k + r)
    BY <1>4, <2>3
  <2> QED
    BY <2>1, <2>2, <2>3
<1> QED
  BY <1>4, <1>7, <1>8 DEF Shows

(* A text shortened: itself, or a beginning, some letters and a mark.      *)
LEMMA ShortenedIs ==
  ASSUME NEW x \in Text, x = <<>> \/ ~ Space(x[1]), NEW n \in Nat, n # 0
  PROVE  \/ Shortened(x, n) = x /\ Width(x) <= n
         \/ \E k \in 0 .. Len(x), r \in Nat, u \in Text :
              /\ Shortened(x, n) = Append(u, Mark) /\ Begins(u, Cut(x, k, r)) /\ Edged(u)
              /\ k < Len(x) /\ (r # 0 => r < WidthOf(x[k + 1])) /\ Width(u) <= n - 1
              /\ \E j \in 0 .. Len(Cut(x, k, r)) : u = Start(Cut(x, k, r), j)
<1>0. Width(x) \in Nat /\ n - 1 \in Nat
  BY WidthGoes
<1>1. CASE Width(x) <= n
  BY <1>1 DEF Shortened
<1>2. CASE ~ Width(x) <= n
  <2> DEFINE m == n - 1
             c == CutTo(x, m)
             u == Trimmed(c)
  <2>1. Shortened(x, n) = Append(u, Mark)
    BY <1>2 DEF Shortened, Mark
  <2>2. Width(x) > m /\ m \in Nat
    BY <1>0, <1>2
  <2> HIDE DEF m
  <2>3. PICK k \in 0 .. Len(x) : \E r \in Nat : CutAt(x, m, k, r)
    BY <2>2, CutToIs
  <2>4. PICK r \in Nat : CutAt(x, m, k, r)
    BY <2>3
  <2>5. /\ c = Cut(x, k, r) /\ k < Len(x) /\ (r # 0 => r < WidthOf(x[k + 1]))
        /\ Width(Start(x, k)) + r <= m
    BY <2>2, <2>4 DEF CutAt
  <2> HIDE DEF c
  <2>6. /\ c \in Text /\ Len(c) = k + r /\ Width(c) = Width(Start(x, k)) + r
        /\ \A i \in 1 .. k : c[i] = x[i]
        /\ \A i \in (k + 1) .. (k + r) : c[i] = Letter
    BY <2>5, CutIs, CutWidth
  <2>7. c = <<>> \/ ~ Space(c[1])
    <3>0. Len(x) \in Nat /\ k \in Nat /\ (Len(c) = 0 <=> c = <<>>) /\ (Len(x) = 0 <=> x = <<>>)
      BY <2>6, TextIs
    <3>1. CASE k # 0
      <4>1. 1 \in 1 .. k /\ Len(x) # 0
        BY <3>0, <3>1
      <4> QED
        BY <2>6, <3>0, <4>1
    <3>2. CASE k = 0 /\ r # 0
      <4>1. 1 \in (k + 1) .. (k + r)
        BY <3>2
      <4> QED
        BY <2>6, <4>1, Written
    <3>3. CASE k = 0 /\ r = 0
      BY <2>6, <3>0, <3>3
    <3> QED
      BY <3>1, <3>2, <3>3
  <2>8. PICK j \in 0 .. Len(c) : u = Start(c, j)
    BY <2>6, <2>7, TrimmedIsStart
  <2>9. u \in Text /\ Edged(u)
    BY <2>6, TrimmedIsEdged
  <2> HIDE DEF u
  <2>10. Begins(u, c)
    <3>1. Len(u) = j /\ \A i \in 1 .. j : u[i] = c[i]
      BY <2>6, <2>8, StartIs
    <3>2. j <= Len(c)
      BY <2>6, TextIs
    <3> QED
      BY <3>1, <3>2 DEF Begins
  <2>11. Width(u) <= n - 1
    <3>1. Width(u) <= Width(c) /\ Width(u) \in Nat /\ Width(c) \in Nat
      BY <2>6, <2>9, <2>10, BeginsIs, WidthGoes
    <3> QED
      BY <1>0, <2>5, <2>6, <3>1 DEF m
  <2> QED
    BY <2>1, <2>5, <2>8, <2>9, <2>10, <2>11
<1> QED
  BY <1>1, <1>2

-----------------------------------------------------------------------------
Entry == [description : Text, ransomware : BOOLEAN, due : Dues \cup {NoDue}]

(* What the facts of an entry take up.                                     *)
Extra(e) == (IF e.ransomware THEN SentenceWidth + 1 ELSE 0)
            + (IF e.due = NoDue THEN 0 ELSE SentenceWidth + 1)

LEMMA RoomIs ==
  ASSUME NEW e \in Entry
  PROVE  /\ Room(e) \in Nat /\ Room(e) # 0
         /\ Extra(e) \in Nat /\ Room(e) + 1 + Extra(e) = MaxSummary
<1> DEFINE a == IF e.ransomware THEN SentenceWidth + 1 ELSE 0
           b == IF e.due = NoDue THEN 0 ELSE SentenceWidth + 1
<1>1. a \in 0 .. (SentenceWidth + 1) /\ b \in 0 .. (SentenceWidth + 1)
  <2>1. e.ransomware \in BOOLEAN
    BY DEF Entry
  <2>2. a \in 0 .. (SentenceWidth + 1)
    BY <2>1, Numbers
  <2>3. b \in 0 .. (SentenceWidth + 1)
    BY Numbers
  <2> QED
    BY <2>2, <2>3
<1>2. Room(e) = MaxSummary - 1 - a - b /\ Extra(e) = a + b
  BY DEF Room, Extra
<1> HIDE DEF a, b
<1> QED
  BY <1>1, <1>2, Numbers

(* What a text says, without its markup and with its spaces squeezed.      *)
Plain(x) == Squeezed(Unmarked(x))

LEMMA PlainIs ==
  /\ \A x \in Text : Unmarked(x) \in Text /\ Plain(x) \in Text /\ Tidy(Plain(x))
  /\ \A x \in Text, c \in Piece : c \in {Stop, Mark} /\ ~ LeavesOpen(Append(x, c)) =>
       ~ LeavesOpen(x) /\ Plain(Append(x, c)) = Append(Plain(x), c)
<1>1. \A x \in Text : Unmarked(x) \in Text
  BY UnmarkedGoes
<1>2. \A x \in Text : Plain(x) \in Text /\ Tidy(Plain(x))
  BY <1>1, SqueezedIs DEF Plain
<1>3. ASSUME NEW x \in Text, NEW c \in Piece, c \in {Stop, Mark}, ~ LeavesOpen(Append(x, c))
      PROVE  ~ LeavesOpen(x) /\ Plain(Append(x, c)) = Append(Plain(x), c)
  <2>1. c # Opener /\ c # Closer /\ ~ Space(c)
    BY <1>3, Written DEF Opener, Closer, Stop, Mark
  <2>2. ~ LeavesOpen(x)
    BY <1>3, <2>1, MarkupGoes
  <2>3. Unmarked(Append(x, c)) = Append(Unmarked(x), c)
    BY <2>1, <2>2, UnmarkedGoes
  <2> QED
    BY <1>1, <2>1, <2>2, <2>3, SqueezedAppend DEF Plain
<1> QED
  BY <1>1, <1>2, <1>3

(* The text says what was stated, with at most a mark behind it.           *)
Said(s, t) ==
  \E q \in Text :
    /\ Shows(q, Plain(t))
    /\ Plain(s) = q \/ \E c \in Piece : Plain(s) = Append(q, c) /\ WidthOf(c) = 1

LEMMA AppendEdged ==
  ASSUME NEW x \in Text, Edged(x), NEW c \in Piece, ~ Space(c)
  PROVE  Edged(Append(x, c))
<1> DEFINE y == Append(x, c)
<1>1. /\ y \in Text /\ Len(y) = Len(x) + 1 /\ y[Len(x) + 1] = c
      /\ \A i \in 1 .. Len(x) : y[i] = x[i]
  BY AppendIs
<1>2. Len(x) \in Nat /\ (Len(x) = 0 <=> x = <<>>)
  BY TextIs
<1> HIDE DEF y
<1>3. ~ Space(y[Len(y)])
  BY <1>1
<1>4. ~ Space(y[1])
  <2>1. CASE Len(x) = 0
    BY <1>1, <2>1
  <2>2. CASE Len(x) # 0
    <3>1. 1 \in 1 .. Len(x)
      BY <1>2, <2>2
    <3> QED
      BY <1>1, <1>2, <2>2, <3>1 DEF Edged
  <2> QED
    BY <2>1, <2>2
<1>5. Edged(y)
  BY <1>3, <1>4 DEF Edged
<1> QED
  BY <1>5 DEF y

LEMMA SaysItself ==
  ASSUME NEW t \in Text
  PROVE  /\ Said(t, t)
         /\ ~ LeavesOpen(Append(t, Stop)) => Said(Append(t, Stop), t)
<1>1. Plain(t) \in Text
  BY PlainIs
<1>2. Shows(Plain(t), Plain(t))
  <2>1. Width(Plain(t)) \in Nat
    BY <1>1, WidthGoes
  <2> QED
    BY <2>1 DEF Shows
<1>3. ~ LeavesOpen(Append(t, Stop)) => Plain(Append(t, Stop)) = Append(Plain(t), Stop)
  BY PlainIs, Written
<1> QED
  BY <1>1, <1>2, <1>3, Written DEF Said

(* Behind a beginning of what is left when a text is cut.                  *)
LEMMA SaysLess ==
  ASSUME NEW t \in Text, NEW k \in 0 .. Len(t), NEW r \in Nat,
         k < Len(t), r # 0 => r < WidthOf(t[k + 1]),
         NEW j \in 0 .. Len(Cut(t, k, r)),
         ~ LeavesOpen(Append(Start(Cut(t, k, r), j), Mark))
  PROVE  LET u == Start(Cut(t, k, r), j) IN Said(Append(u, Mark), t)
<1> DEFINE c == Cut(t, k, r)
           u == Start(c, j)
           whole == Unmarked(t)
<1>1. u \in Text /\ whole \in Text
  <2>1. c \in Text /\ j \in 0 .. Len(c)
    BY CutIs
  <2> HIDE DEF c
  <2> QED
    BY <2>1, StartIs, PlainIs
<1>2. ~ LeavesOpen(u) /\ Plain(Append(u, Mark)) = Append(Plain(u), Mark) /\ Plain(u) \in Text
  <2>1. ~ LeavesOpen(Append(u, Mark)) /\ Mark \in Piece
    BY Written
  <2> HIDE DEF u
  <2> QED
    BY <1>1, <2>1, PlainIs
<1>3. PICK l \in 0 .. Len(whole), n \in Nat :
        /\ Unmarked(u) = Cut(whole, l, n)
        /\ n # 0 => l < Len(whole) /\ n < WidthOf(whole[l + 1])
  BY <1>2, UnmarkedCut
<1> HIDE DEF u, whole
<1>4. Shows(Squeezed(Cut(whole, l, n)), Squeezed(whole))
  BY <1>1, <1>3, CutShows
<1>5. Shows(Plain(u), Plain(t))
  BY <1>3, <1>4 DEF Plain, whole
<1>6. Said(Append(u, Mark), t)
  BY <1>2, <1>5, Written DEF Said
<1> QED
  BY <1>6 DEF u, c

LEMMA SentenceIs ==
  ASSUME NEW e \in Entry, NEW t \in Text, t = Trimmed(e.description)
  PROVE  LET s == Sentence(e) IN
         /\ s \in Text /\ Edged(s) /\ Width(s) <= Room(e) + 1
         /\ ~ LeavesOpen(s) => Said(s, t)
         /\ s = t \/ (s # <<>> /\ Last(s) \in {Stop, Mark})
         /\ s = <<>> \/ Last(s) \in Facts \cup {Stop, Mark}
         /\ t = <<>> => s = <<>>
<1> DEFINE short == Shortened(t, Room(e))
           s == Sentence(e)
<1>0. /\ Edged(t) /\ Room(e) \in Nat /\ Room(e) # 0 /\ Width(t) \in Nat
      /\ t = <<>> \/ ~ Space(t[1])
  <2>1. e.description \in Text
    BY DEF Entry
  <2> QED
    BY <2>1, TrimmedIsEdged, RoomIs, WidthGoes DEF Edged
<1>1. s = IF short = <<>> \/ Ends(short) THEN short ELSE Append(short, Stop)
  BY DEF Sentence, Stop
<1>2. \A x : Ends(x) <=> Last(x) \in Facts \cup {Stop, Mark}
  BY DEF Ends, Stop, Mark
<1>3. CASE short = t /\ Width(t) <= Room(e)
  <2>1. CASE short = <<>> \/ Ends(short)
    <3>1. s = t
      BY <1>1, <1>3, <2>1
    <3>2. s = <<>> \/ Last(s) \in Facts \cup {Stop, Mark}
      BY <1>2, <1>3, <2>1, <3>1
    <3> HIDE DEF s
    <3>3. Width(s) <= Room(e) + 1
      BY <1>0, <1>3, <3>1
    <3> QED
      BY <1>0, <3>1, <3>2, <3>3, SaysItself DEF s
  <2>2. CASE ~ (short = <<>> \/ Ends(short))
    <3>1. s = Append(t, Stop) /\ t # <<>>
      BY <1>1, <1>3, <2>2
    <3> HIDE DEF s
    <3>2. s \in Text /\ Edged(s) /\ Width(s) = Width(t) + 1 /\ s # <<>> /\ Last(s) = Stop
      <4>1. Stop \in Piece /\ ~ Space(Stop) /\ WidthOf(Stop) = 1
        BY Written
      <4>2. s \in Text /\ s # <<>> /\ Last(s) = Stop
        BY <3>1, <4>1, AppendIs
      <4>3. Edged(s)
        BY <1>0, <3>1, <4>1, AppendEdged
      <4>4. Width(s) = Width(t) + 1
        BY <3>1, <4>1, WidthGoes
      <4> QED
        BY <4>2, <4>3, <4>4
    <3>3. Width(s) <= Room(e) + 1
      BY <1>0, <1>3, <3>2
    <3>4. ~ LeavesOpen(s) => Said(s, t)
      BY <3>1, SaysItself
    <3> QED
      BY <3>1, <3>2, <3>3, <3>4 DEF s
  <2> QED
    BY <2>1, <2>2
<1>4. CASE \E k \in 0 .. Len(t), r \in Nat, u \in Text :
              /\ short = Append(u, Mark) /\ Begins(u, Cut(t, k, r)) /\ Edged(u)
              /\ k < Len(t) /\ (r # 0 => r < WidthOf(t[k + 1])) /\ Width(u) <= Room(e) - 1
              /\ \E j \in 0 .. Len(Cut(t, k, r)) : u = Start(Cut(t, k, r), j)
  <2> HIDE DEF short
  <2>1. PICK k \in 0 .. Len(t), r \in Nat, u \in Text :
              /\ short = Append(u, Mark) /\ Begins(u, Cut(t, k, r)) /\ Edged(u)
              /\ k < Len(t) /\ (r # 0 => r < WidthOf(t[k + 1])) /\ Width(u) <= Room(e) - 1
              /\ \E j \in 0 .. Len(Cut(t, k, r)) : u = Start(Cut(t, k, r), j)
    BY <1>4, Zenon
  <2>2. PICK j \in 0 .. Len(Cut(t, k, r)) : u = Start(Cut(t, k, r), j)
    BY <2>1
  <2>3. /\ short \in Text /\ Edged(short) /\ Width(short) = Width(u) + 1
        /\ short # <<>> /\ Last(short) = Mark /\ Width(u) \in Nat
    <3>1. Mark \in Piece /\ ~ Space(Mark) /\ WidthOf(Mark) = 1
      BY Written
    <3>2. short = Append(u, Mark) /\ Edged(u)
      BY <2>1
    <3>3. short \in Text /\ short # <<>> /\ Last(short) = Mark
      BY <3>1, <3>2, AppendIs
    <3>4. Edged(short)
      BY <3>1, <3>2, AppendEdged
    <3>5. Width(short) = Width(u) + 1 /\ Width(u) \in Nat
      BY <3>1, <3>2, WidthGoes
    <3> QED
      BY <3>3, <3>4, <3>5
  <2>4. s = short
    BY <1>1, <1>2, <2>3
  <2>5. Width(s) <= Room(e) + 1
    BY <1>0, <2>1, <2>3, <2>4
  <2>6. ~ LeavesOpen(s) => Said(s, t)
    BY <2>1, <2>2, <2>4, SaysLess
  <2>7. t # <<>>
    <3>1. Len(t) # 0
      BY <2>1, TextIs
    <3> QED
      BY <3>1, TextIs
  <2> QED
    BY <2>3, <2>4, <2>5, <2>6, <2>7
<1> DEFINE room == Room(e)
<1>5. room \in Nat /\ room # 0 /\ short = Shortened(t, room)
  BY <1>0
<1> HIDE DEF room
<1>6. \/ Shortened(t, room) = t /\ Width(t) <= room
      \/ \E k \in 0 .. Len(t), r \in Nat, u \in Text :
              /\ Shortened(t, room) = Append(u, Mark) /\ Begins(u, Cut(t, k, r)) /\ Edged(u)
              /\ k < Len(t) /\ (r # 0 => r < WidthOf(t[k + 1])) /\ Width(u) <= room - 1
              /\ \E j \in 0 .. Len(Cut(t, k, r)) : u = Start(Cut(t, k, r), j)
  BY <1>0, <1>5, ShortenedIs
<1> QED
  BY <1>3, <1>4, <1>6 DEF room

(* What a shown description says but for its last lexeme.                  *)
ShownSays(x, st) ==
  /\ x # <<>> => Width(Front(x)) <= Width(st)
  /\ \A i \in 1 .. (Len(x) - 1) : x[i] = st[i] \/ x[i] = Letter

LEMMA AppendSays ==
  ASSUME NEW st \in Text, NEW p \in Text, Shows(p, st), NEW c \in Piece
  PROVE  ShownSays(Append(p, c), st)
<1> DEFINE x == Append(p, c)
<1>1. Len(x) = Len(p) + 1 /\ (\A i \in 1 .. Len(p) : x[i] = p[i]) /\ Front(x) = p
  BY AppendIs
<1>2. Len(p) \in Nat
  BY TextIs
<1> HIDE DEF x
<1>3. Len(x) - 1 = Len(p)
  BY <1>1, <1>2
<1>4. ShownSays(x, st)
  BY <1>1, <1>3 DEF ShownSays, Shows
<1> QED
  BY <1>4 DEF x

LEMMA CleanedSays ==
  ASSUME NEW q \in Text, Tidy(q), Edged(q), NEW st \in Text, NEW p \in Text, Shows(p, st),
         q = p \/ \E c \in Piece : q = Append(p, c) /\ WidthOf(c) = 1
  PROVE  ShownSays(CleanText(q, MaxDescription), st)
<1> DEFINE shown == CleanText(q, MaxDescription)
<1>1. shown = Shortened(q, MaxDescription)
  BY TidyStays, EdgedStays DEF CleanText
<1>2. MaxDescription \in Nat /\ MaxDescription # 0 /\ (q = <<>> \/ ~ Space(q[1]))
  BY Numbers DEF Edged
<1>3. ShownSays(q, st)
  <2>1. CASE \E c \in Piece : q = Append(p, c) /\ WidthOf(c) = 1
    BY <2>1, AppendSays
  <2>2. CASE q = p /\ q = <<>>
    <3>1. Len(q) = 0
      BY <2>2
    <3>2. ~ \E i \in 1 .. (Len(q) - 1) : TRUE
      BY <3>1
    <3> QED
      BY <2>2, <3>2 DEF ShownSays
  <2>3. CASE q = p /\ q # <<>>
    <3> DEFINE l == Len(q)
               y == Start(q, l - 1)
    <3>1. l \in Nat /\ l # 0
      BY <2>3, TextIs
    <3>2. l \in 1 .. Len(q) /\ l - 1 \in 0 .. Len(q) /\ Start(q, l) = q
      BY <3>1, StartIs
    <3>3. q = Append(y, q[l]) /\ q[l] \in Piece
      BY <3>2, StartGrows
    <3>4. y \in Text /\ Len(y) = l - 1 /\ \A i \in 1 .. (l - 1) : y[i] = q[i]
      BY <3>2, StartIs
    <3> HIDE DEF y
    <3>5. Begins(y, q)
      BY <3>1, <3>4 DEF Begins
    <3>6. Shows(y, st)
      BY <2>3, <3>4, <3>5, BeginningShows
    <3>7. ShownSays(Append(y, q[l]), st)
      BY <3>3, <3>4, <3>6, AppendSays
    <3> QED
      BY <3>3, <3>7
  <2> QED
    BY <2>1, <2>2, <2>3
<1>4. CASE shown = q
  BY <1>3, <1>4
<1>5. CASE \E k \in 0 .. Len(q), r \in Nat, u \in Text :
             /\ Shortened(q, MaxDescription) = Append(u, Mark) /\ Begins(u, Cut(q, k, r)) /\ Edged(u)
             /\ k < Len(q) /\ (r # 0 => r < WidthOf(q[k + 1])) /\ Width(u) <= MaxDescription - 1
             /\ \E j \in 0 .. Len(Cut(q, k, r)) : u = Start(Cut(q, k, r), j)
  <2>1. PICK k \in 0 .. Len(q), r \in Nat, u \in Text :
             /\ Shortened(q, MaxDescription) = Append(u, Mark) /\ Begins(u, Cut(q, k, r)) /\ Edged(u)
             /\ k < Len(q) /\ (r # 0 => r < WidthOf(q[k + 1])) /\ Width(u) <= MaxDescription - 1
             /\ \E j \in 0 .. Len(Cut(q, k, r)) : u = Start(Cut(q, k, r), j)
    BY <1>5, Zenon
  <2>2. Shows(Cut(q, k, r), st)
    BY <2>1, CutOfShown
  <2>3. Cut(q, k, r) \in Text
    BY CutIs
  <2>4. Shows(u, st)
    BY <2>1, <2>2, <2>3, BeginningShows
  <2>5. ShownSays(Append(u, Mark), st)
    BY <2>4, AppendSays, Written
  <2> QED
    BY <1>1, <2>1, <2>5
<1> QED
  BY <1>1, <1>2, <1>4, <1>5, ShortenedIs

-----------------------------------------------------------------------------
(***************************************************************************)
(* The facts: the last lexemes of the summary.                             *)
(***************************************************************************)

LEMMA JoinedIs ==
  ASSUME NEW y \in Text, Edged(y), NEW f \in Facts
  PROVE  LET j == Joined(y, f) IN
         /\ j \in Text /\ Edged(j) /\ j # <<>> /\ Last(j) = f
         /\ Width(j) <= Width(y) + (SentenceWidth + 1)
         /\ Trimmed(Front(j)) = y
         /\ \A sentences : EndsWith(j, sentences) <=> f \in sentences
<1> DEFINE j == Joined(y, f)
<1>0. /\ f \in Piece /\ ~ Space(f) /\ WidthOf(f) = SentenceWidth
      /\ Blank \in Piece /\ Space(Blank) /\ WidthOf(Blank) = 1
      /\ Len(y) \in Nat /\ Width(y) \in Nat /\ SentenceWidth \in Nat
  BY Written, TextIs, WidthGoes, Numbers DEF WidthOf
<1>1. CASE y = <<>>
  <2>1. j = Append(<<>>, f)
    BY <1>1 DEF Joined
  <2> HIDE DEF j
  <2>2. j \in Text /\ Len(j) = 1 /\ j # <<>> /\ Last(j) = f /\ Front(j) = <<>>
    <3>1. Len(<<>>) + 1 = 1
      OBVIOUS
    <3> QED
      BY <1>0, <2>1, <3>1, Nothing, AppendIs
  <2>3. Edged(j)
    BY <1>0, <2>1, Nothing, AppendEdged
  <2>4. Width(j) = Width(y) + SentenceWidth
    BY <1>0, <1>1, <2>1, WidthGoes
  <2>5. Width(j) <= Width(y) + (SentenceWidth + 1)
    BY <1>0, <2>4
  <2>6. \A sentences : EndsWith(j, sentences) <=> f \in sentences
    BY <2>2 DEF EndsWith
  <2> QED
    BY <1>1, <2>2, <2>3, <2>5, <2>6, Nothing DEF j
<1>2. CASE y # <<>>
  <2> DEFINE z == Append(y, Blank)
             l == Len(y)
  <2>1. j = Append(z, f)
    BY <1>2 DEF Joined, Blank
  <2>2. /\ z \in Text /\ Len(z) = l + 1 /\ z[l + 1] = Blank
        /\ \A i \in 1 .. l : z[i] = y[i]
    BY <1>0, AppendIs
  <2>3. Width(z) = Width(y) + 1 /\ Trimmed(z) = y
    BY <1>0, <1>2, WidthGoes, SpaceGoes
  <2> HIDE DEF z, j
  <2>4. /\ j \in Text /\ Len(j) = Len(z) + 1 /\ j # <<>> /\ Last(j) = f /\ Front(j) = z
        /\ \A i \in 1 .. Len(z) : j[i] = z[i]
        /\ j[Len(z) + 1] = f
    BY <1>0, <2>1, <2>2, AppendIs
  <2>5. Width(j) = Width(z) + SentenceWidth
    BY <1>0, <2>1, <2>2, WidthGoes
  <2>6. Width(j) <= Width(y) + (SentenceWidth + 1)
    BY <1>0, <2>3, <2>5
  <2>7. Edged(j)
    <3>1. l # 0
      BY <1>2, TextIs
    <3>2. 1 \in 1 .. l /\ 1 \in 1 .. Len(z)
      BY <1>0, <2>2, <3>1
    <3>3. j[1] = y[1]
      BY <2>2, <2>4, <3>2
    <3>4. ~ Space(y[1])
      BY <1>2 DEF Edged
    <3>5. j[Len(j)] = f
      BY <2>4
    <3> QED
      BY <1>0, <3>3, <3>4, <3>5 DEF Edged
  <2>8. j[Len(j) - 1] = " "
    <3>1. Len(j) - 1 = l + 1 /\ l + 1 \in 1 .. Len(z)
      BY <1>0, <2>2, <2>4
    <3>2. j[l + 1] = Blank
      BY <2>2, <2>4, <3>1
    <3> QED
      BY <3>1, <3>2 DEF Blank
  <2>9. \A sentences : EndsWith(j, sentences) <=> f \in sentences
    BY <2>4, <2>8 DEF EndsWith
  <2> QED
    BY <2>3, <2>4, <2>6, <2>7, <2>9 DEF j
<1> QED
  BY <1>1, <1>2

LEMMA SqueezedJoined ==
  ASSUME NEW y \in Text, Ended(y), NEW f \in Facts
  PROVE  LET j == Joined(y, f) IN
         j \in Text /\ Ended(j) /\ Squeezed(j) = Joined(Squeezed(y), f)
<1>0. f \in Piece /\ ~ Space(f) /\ Blank \in Piece /\ Space(Blank)
  BY Written
<1>1. CASE y = <<>>
  <2>1. Joined(y, f) = Append(<<>>, f) /\ <<>> \in Text /\ Squeezed(<<>>) = <<>>
    BY <1>1, Nothing DEF Joined
  <2>2. Append(<<>>, f) \in Text /\ Ended(Append(<<>>, f))
    BY <1>0, <2>1, AppendIs DEF Ended
  <2>3. Squeezed(Append(<<>>, f)) = Append(Squeezed(<<>>), f)
    BY <1>0, <2>1, SqueezedAppend
  <2> QED
    BY <1>1, <2>1, <2>2, <2>3
<1>2. CASE y # <<>>
  <2> DEFINE z == Append(y, Blank)
             q == Squeezed(y)
  <2>1. Joined(y, f) = Append(z, f)
    BY <1>2 DEF Joined, Blank
  <2>2. q \in Text /\ q # <<>> /\ Edged(q)
    BY <1>2, EndedSqueezed
  <2>3. z \in Text /\ Squeezed(z) = Taken(q, Blank)
    BY <1>0, AppendIs, SqueezedGoes
  <2> HIDE DEF z, q
  <2>4. ~ Space(Last(q))
    BY <2>2 DEF Edged, Last
  <2>5. Squeezed(z) = Append(q, Blank)
    BY <2>2, <2>3, <2>4 DEF Taken
  <2>6. Squeezed(Append(z, f)) = Append(Append(q, Blank), f)
    BY <1>0, <2>3, <2>5, SqueezedAppend
  <2>7. Joined(q, f) = Append(Append(q, Blank), f)
    BY <2>2 DEF Joined, Blank
  <2>8. Append(z, f) \in Text /\ Ended(Append(z, f))
    BY <1>0, <2>3, AppendIs DEF Ended
  <2> QED
    BY <2>1, <2>6, <2>7, <2>8 DEF q
<1> QED
  BY <1>1, <1>2

(* Facts behind a text are no part of its markup, if that is closed.       *)
LEMMA UnmarkedJoined ==
  ASSUME NEW y \in Text, ~ LeavesOpen(y), y = <<>> <=> Unmarked(y) = <<>>, NEW f \in Facts
  PROVE  LET j == Joined(y, f) IN
         /\ j \in Text /\ ~ LeavesOpen(j) /\ Unmarked(j) = Joined(Unmarked(y), f)
         /\ j = <<>> <=> Unmarked(j) = <<>>
<1> DEFINE v == Unmarked(y)
<1>0. /\ f \in Piece /\ Blank \in Piece /\ v \in Text
      /\ f # Opener /\ f # Closer /\ Blank # Opener /\ Blank # Closer
  BY Written, Lexemes, UnmarkedGoes DEF Opener, Closer, Blank
<1>1. CASE y = <<>>
  <2>1. Joined(y, f) = Append(<<>>, f) /\ Joined(v, f) = Append(<<>>, f)
    BY <1>1 DEF Joined
  <2>2. ~ LeavesOpen(Append(<<>>, f)) /\ Unmarked(Append(<<>>, f)) = Append(<<>>, f)
    <3>1. <<>> \in Text /\ ~ LeavesOpen(<<>>) /\ Unmarked(<<>>) = <<>>
      BY Nothing, MarkupGoes, UnmarkedGoes
    <3>2. ~ LeavesOpen(Append(<<>>, f))
      BY <1>0, <3>1, MarkupGoes
    <3>3. Unmarked(Append(<<>>, f)) = Append(Unmarked(<<>>), f)
      BY <1>0, <3>1, UnmarkedGoes
    <3> QED
      BY <3>1, <3>2, <3>3
  <2> QED
    BY <1>0, <2>1, <2>2, Nothing, AppendIs
<1>2. CASE y # <<>>
  <2> DEFINE z == Append(y, Blank)
             j == Append(z, f)
  <2>1. Joined(y, f) = j /\ Joined(v, f) = Append(Append(v, Blank), f)
    BY <1>2 DEF Joined, Blank
  <2>2. z \in Text /\ ~ LeavesOpen(z) /\ Unmarked(z) = Append(v, Blank)
    BY <1>0, AppendIs, MarkupGoes, UnmarkedGoes
  <2> HIDE DEF z
  <2>3. j \in Text /\ ~ LeavesOpen(j) /\ Unmarked(j) = Append(Append(v, Blank), f)
    <3>1. j \in Text
      BY <1>0, <2>2, AppendIs
    <3>2. ~ LeavesOpen(j)
      BY <1>0, <2>2, MarkupGoes
    <3>3. Unmarked(j) = Append(Unmarked(z), f)
      BY <1>0, <2>2, UnmarkedGoes
    <3> QED
      BY <2>2, <3>1, <3>2, <3>3
  <2>4. Append(v, Blank) \in Text
    BY <1>0, AppendIs
  <2>5. j # <<>> /\ Append(Append(v, Blank), f) # <<>>
    BY <1>0, <2>2, <2>4, AppendIs
  <2> QED
    BY <2>1, <2>3, <2>5
<1> QED
  BY <1>1, <1>2

(* A description with the facts of an entry behind it.                     *)
WithUse(q, e) == IF e.ransomware THEN Joined(q, Ransomware) ELSE q
WithFacts(q, e) == IF e.due = NoDue THEN WithUse(q, e) ELSE Joined(WithUse(q, e), e.due)

LEMMA WithFactsIs ==
  ASSUME NEW q \in Text, Edged(q), NEW e \in Entry
  PROVE  /\ WithUse(q, e) \in Text /\ Edged(WithUse(q, e))
         /\ WithFacts(q, e) \in Text /\ Edged(WithFacts(q, e))
         /\ Width(WithFacts(q, e)) <= Width(q) + Extra(e)
<1> DEFINE v == WithUse(q, e)
           w == WithFacts(q, e)
           a == IF e.ransomware THEN SentenceWidth + 1 ELSE 0
           b == IF e.due = NoDue THEN 0 ELSE SentenceWidth + 1
<1>0. /\ Width(q) \in Nat /\ SentenceWidth \in Nat /\ Ransomware \in Facts
      /\ e.ransomware \in BOOLEAN /\ (e.due # NoDue => e.due \in Facts)
  BY WidthGoes, Numbers, Lexemes DEF Entry
<1>1. v \in Text /\ Edged(v) /\ Width(v) <= Width(q) + a
  <2>1. CASE e.ransomware
    <3>1. v = Joined(q, Ransomware) /\ a = SentenceWidth + 1
      BY <2>1 DEF WithUse
    <3> HIDE DEF v, a
    <3> QED
      BY <1>0, <3>1, JoinedIs
  <2>2. CASE ~ e.ransomware
    <3>1. v = q /\ a = 0
      BY <2>2 DEF WithUse
    <3> HIDE DEF v, a
    <3> QED
      BY <1>0, <3>1
  <2> QED
    BY <2>1, <2>2
<1> HIDE DEF v
<1>2. Width(v) \in Nat
  BY <1>1, WidthGoes
<1>3. w \in Text /\ Edged(w) /\ Width(w) <= Width(v) + b
  <2>1. CASE e.due # NoDue
    <3>1. w = Joined(v, e.due) /\ b = SentenceWidth + 1
      BY <2>1 DEF WithFacts, v
    <3> HIDE DEF w, b
    <3> QED
      BY <1>0, <1>1, <2>1, <3>1, JoinedIs
  <2>2. CASE e.due = NoDue
    <3>1. w = v /\ b = 0
      BY <2>2 DEF WithFacts, v
    <3> HIDE DEF w, b
    <3> QED
      BY <1>1, <1>2, <3>1
  <2> QED
    BY <2>1, <2>2
<1>4. a \in Nat /\ b \in Nat /\ Extra(e) = a + b
  BY <1>0 DEF Extra
<1> HIDE DEF w, a, b
<1>5. Width(w) \in Nat
  BY <1>3, WidthGoes
<1>6. Width(w) <= Width(q) + Extra(e)
  BY <1>0, <1>1, <1>2, <1>3, <1>4, <1>5
<1> QED
  BY <1>1, <1>3, <1>6 DEF v, w

LEMMA FactsSqueezed ==
  ASSUME NEW q \in Text, Ended(q), NEW e \in Entry
  PROVE  Squeezed(WithFacts(q, e)) = WithFacts(Squeezed(q), e)
<1> DEFINE v == WithUse(q, e)
<1>0. Ransomware \in Facts /\ (e.due # NoDue => e.due \in Facts)
  BY Lexemes DEF Entry
<1>1. v \in Text /\ Ended(v) /\ Squeezed(v) = WithUse(Squeezed(q), e)
  <2>1. CASE e.ransomware
    BY <1>0, <2>1, SqueezedJoined DEF WithUse
  <2>2. CASE ~ e.ransomware
    BY <2>2 DEF WithUse
  <2> QED
    BY <2>1, <2>2
<1> HIDE DEF v
<1>2. CASE e.due # NoDue
  <2>1. WithFacts(q, e) = Joined(v, e.due) /\ WithFacts(Squeezed(q), e) = Joined(Squeezed(v), e.due)
    BY <1>1, <1>2 DEF WithFacts, v
  <2> QED
    BY <1>0, <1>1, <1>2, <2>1, SqueezedJoined
<1>3. CASE e.due = NoDue
  BY <1>1, <1>3 DEF WithFacts, v
<1> QED
  BY <1>2, <1>3

LEMMA FactsUnmarked ==
  ASSUME NEW s \in Text, ~ LeavesOpen(s), s = <<>> <=> Unmarked(s) = <<>>, NEW e \in Entry
  PROVE  Unmarked(WithFacts(s, e)) = WithFacts(Unmarked(s), e)
<1> DEFINE v == WithUse(s, e)
<1>0. Ransomware \in Facts /\ (e.due # NoDue => e.due \in Facts)
  BY Lexemes DEF Entry
<1>1. /\ v \in Text /\ ~ LeavesOpen(v) /\ (v = <<>> <=> Unmarked(v) = <<>>)
      /\ Unmarked(v) = WithUse(Unmarked(s), e)
  <2>1. CASE e.ransomware
    BY <1>0, <2>1, UnmarkedJoined DEF WithUse
  <2>2. CASE ~ e.ransomware
    BY <2>2 DEF WithUse
  <2> QED
    BY <2>1, <2>2
<1> HIDE DEF v
<1>2. CASE e.due # NoDue
  <2>1. WithFacts(s, e) = Joined(v, e.due) /\ WithFacts(Unmarked(s), e) = Joined(Unmarked(v), e.due)
    BY <1>1, <1>2 DEF WithFacts, v
  <2> QED
    BY <1>0, <1>1, <1>2, <2>1, UnmarkedJoined
<1>3. CASE e.due = NoDue
  BY <1>1, <1>3 DEF WithFacts, v
<1> QED
  BY <1>2, <1>3

(* What the refresh stores of an entry.                                    *)
Stored(e) == Shortened(PlainText(Summary(e)), MaxSummary)

(* There is room for the facts, so nothing is cut off; and nothing before  *)
(* them is markup that they would go with.                                 *)
LEMMA StoredIs ==
  ASSUME NEW e \in Entry, ~ LeavesOpen(Sentence(e))
  PROVE  LET s == Sentence(e)
             q == Plain(s)
         IN /\ Stored(e) = WithFacts(q, e)
            /\ s \in Text /\ q \in Text /\ Edged(q) /\ (s = <<>> => q = <<>>)
            /\ s # <<>> => Last(q) = Last(s)
<1> DEFINE s == Sentence(e)
           v == Unmarked(s)
           q == Plain(s)
           u == WithFacts(q, e)
<1>1. /\ s \in Text /\ Width(s) <= Room(e) + 1 /\ Width(s) \in Nat
      /\ s = <<>> \/ Last(s) \in Facts \cup {Stop, Mark}
  <2>1. e.description \in Text
    BY DEF Entry
  <2>2. Trimmed(e.description) \in Text
    BY <2>1, TrimmedIsEdged
  <2> QED
    BY <2>2, SentenceIs, WidthGoes
<1>2. Summary(e) = WithFacts(s, e)
  BY DEF Summary, WithFacts, WithUse
<1>3. ~ LeavesOpen(s)
  OBVIOUS
<1> HIDE DEF s
<1>4. /\ v \in Text /\ Ended(v) /\ (s = <<>> <=> v = <<>>) /\ (s # <<>> => Last(v) = Last(s))
      /\ Width(v) <= Width(s)
  BY <1>1, <1>3, LastStays, UnmarkedIs
<1>5. Unmarked(Summary(e)) = WithFacts(v, e)
  BY <1>1, <1>2, <1>3, <1>4, FactsUnmarked
<1>6. Squeezed(v) = q
  BY DEF Plain
<1> HIDE DEF v, q
<1>7. /\ q \in Text /\ Edged(q) /\ (v = <<>> <=> q = <<>>) /\ (v # <<>> => Last(q) = Last(v))
      /\ Width(q) <= Width(v)
  BY <1>4, <1>6, EndedSqueezed, SqueezedIs
<1>8. Squeezed(WithFacts(v, e)) = u
  BY <1>4, <1>6, FactsSqueezed
<1>9. u \in Text /\ Edged(u) /\ Width(u) <= Width(q) + Extra(e)
  BY <1>7, WithFactsIs
<1> HIDE DEF u
<1>10. Width(u) <= MaxSummary
  <2>1. Width(u) \in Nat /\ Width(v) \in Nat /\ Width(q) \in Nat
    BY <1>4, <1>7, <1>9, WidthGoes
  <2> QED
    BY <1>1, <1>4, <1>7, <1>9, <2>1, RoomIs
<1>11. PlainText(Summary(e)) = u
  BY <1>5, <1>8, <1>9, EdgedStays DEF PlainText
<1>12. Stored(e) = u
  BY <1>10, <1>11 DEF Stored, Shortened
<1> QED
  BY <1>1, <1>4, <1>7, <1>12 DEF s, q, u

(* The facts are found behind a description that does not end as one does. *)
LEMMA FieldsAre ==
  ASSUME NEW q \in Text, Edged(q), NEW e \in Entry,
         \/ q = <<>> \/ e.ransomware
         \/ Last(q) # Ransomware /\ (Last(q) \in Dues => e.due # NoDue)
  PROVE  Fields(WithFacts(q, e)) =
           [description |-> CleanText(q, MaxDescription), ransomware |-> e.ransomware,
            due |-> e.due]
<1> DEFINE v == WithUse(q, e)
           w == WithFacts(q, e)
<1>0. /\ Ransomware \in Facts /\ Ransomware \notin Dues /\ NoDue \notin Dues
      /\ e.ransomware \in BOOLEAN /\ (e.due # NoDue => e.due \in Facts /\ e.due \in Dues)
  BY Lexemes DEF Entry
<1>1. v \in Text /\ Edged(v) /\ w \in Text /\ Edged(w) /\ Trimmed(w) = w /\ Trimmed(v) = v
      /\ Trimmed(q) = q
  BY WithFactsIs, EdgedStays
<1>2. \/ e.ransomware /\ v = Joined(q, Ransomware)
      \/ ~ e.ransomware /\ v = q
  BY <1>0 DEF WithUse
<1>3. \/ e.due # NoDue /\ w = Joined(v, e.due)
      \/ e.due = NoDue /\ w = v
  BY DEF WithFacts
<1> HIDE DEF v, w
<1>4. EndsWith(v, {Ransomware}) <=> e.ransomware
  <2>1. CASE e.ransomware
    <3>1. v = Joined(q, Ransomware)
      BY <1>2, <2>1
    <3>2. EndsWith(v, {Ransomware})
      BY <1>0, <3>1, JoinedIs
    <3> QED
      BY <2>1, <3>2
  <2>2. CASE ~ e.ransomware
    BY <1>2, <2>2 DEF EndsWith
  <2> QED
    BY <2>1, <2>2
<1>5. e.ransomware => Trimmed(Front(v)) = q
  BY <1>0, <1>2, JoinedIs
<1>6. e.due # NoDue => EndsWith(w, Dues) /\ Trimmed(Front(w)) = v /\ Last(w) = e.due
  BY <1>0, <1>1, <1>3, JoinedIs
<1>7. e.due = NoDue => ~ EndsWith(w, Dues)
  <2> SUFFICES ASSUME e.due = NoDue
               PROVE  ~ EndsWith(v, Dues)
    BY <1>3
  <2>1. CASE e.ransomware
    <3>1. v = Joined(q, Ransomware)
      BY <1>2, <2>1
    <3>2. EndsWith(v, Dues) <=> Ransomware \in Dues
      BY <1>0, <3>1, JoinedIs
    <3> QED
      BY <1>0, <3>2
  <2>2. CASE ~ e.ransomware
    BY <1>2, <2>2 DEF EndsWith
  <2> QED
    BY <2>1, <2>2
<1>8. Fields(w) =
        [description |-> CleanText(IF e.ransomware THEN q ELSE v, MaxDescription),
         ransomware |-> e.ransomware, due |-> e.due]
  <2> DEFINE dated == EndsWith(w, Dues)
             undated == IF dated THEN Trimmed(Front(w)) ELSE w
             used == EndsWith(undated, {Ransomware})
             description == IF used THEN Trimmed(Front(undated)) ELSE undated
             due == IF dated THEN Last(w) ELSE NoDue
  <2>1. Fields(w) = [description |-> CleanText(description, MaxDescription),
                     ransomware |-> used, due |-> due]
    BY <1>1, Zenon DEF Fields
  <2>2. undated = v /\ due = e.due
    BY <1>3, <1>6, <1>7
  <2> HIDE DEF undated, due
  <2>3. used = e.ransomware
    <3>1. used \in BOOLEAN /\ (used <=> e.ransomware)
      BY <1>4, <2>2 DEF EndsWith
    <3> QED
      BY <1>0, <3>1
  <2>4. description = IF e.ransomware THEN q ELSE v
    BY <1>5, <2>2, <2>3
  <2> HIDE DEF description, used
  <2> QED
    BY <2>1, <2>2, <2>3, <2>4
<1>9. (IF e.ransomware THEN q ELSE v) = q
  BY <1>2
<1> QED
  BY <1>8, <1>9 DEF w

-----------------------------------------------------------------------------
(* The summary is what the refresh made of the entry catalogued, and       *)
(* kev.json states the fields of that summary.                             *)
KevInv ==
  /\ catalogued \in Entry
  /\ stage \in {"stored", "exported"} => summary = Stored(catalogued)
  /\ stage = "exported" => exported = Fields(summary)

LEMMA NoFieldsIs == NoFields \in Entry
BY Nothing DEF NoFields, Entry

LEMMA KevStarts == KevInit => KevInv
BY NoFieldsIs DEF KevInit, KevInv

LEMMA KevStep == KevInv /\ [KevNext]_kevVars => KevInv'
<1> SUFFICES ASSUME KevInv, [KevNext]_kevVars
             PROVE  KevInv'
  OBVIOUS
<1>1. CASE Catalogued
  <2>1. stage' = "catalogued"
    BY <1>1 DEF Catalogued
  <2>2. PICK d \in Descriptions, r \in BOOLEAN, due \in Dues \cup {NoDue} :
          catalogued' = [description |-> d, ransomware |-> r, due |-> due]
    BY <1>1, Zenon DEF Catalogued
  <2>3. catalogued' \in Entry
    BY <2>2, Lexemes DEF Entry
  <2> QED
    BY <2>1, <2>3 DEF KevInv
<1>2. CASE StoreSummary
  <2>1. stage' = "stored" /\ summary' = Stored(catalogued) /\ catalogued' = catalogued
    BY <1>2 DEF StoreSummary, Stored
  <2> QED
    BY <2>1 DEF KevInv
<1>3. CASE ExportFields
  <2>1. /\ stage = "stored" /\ exported' = Fields(summary)
        /\ catalogued' = catalogued /\ summary' = summary
    BY <1>3 DEF ExportFields
  <2> QED
    BY <2>1 DEF KevInv
<1>4. CASE Withdraw
  BY <1>4, NoFieldsIs DEF Withdraw, KevInv
<1>5. CASE UNCHANGED kevVars
  BY <1>5 DEF kevVars, KevInv
<1> QED
  BY <1>1, <1>2, <1>3, <1>4, <1>5 DEF KevNext

(* What is exported of an entry whose description does not itself end as   *)
(* an absent fact does, and leaves no markup open.                         *)
LEMMA ExportedIs ==
  ASSUME KevInv, stage = "exported", Unambiguous(catalogued), ~ LeavesOpen(Sentence(catalogued))
  PROVE  LET q == Plain(Sentence(catalogued)) IN
         exported = [description |-> CleanText(q, MaxDescription),
                     ransomware |-> catalogued.ransomware, due |-> catalogued.due]
<1> DEFINE e == catalogued
           t == Trimmed(e.description)
           s == Sentence(e)
           q == Plain(s)
<1>1. e \in Entry /\ t \in Text
  <2>1. e \in Entry
    BY DEF KevInv
  <2>2. e.description \in Text
    BY <2>1 DEF Entry
  <2> QED
    BY <2>1, <2>2, TrimmedIsEdged
<1>2. /\ summary = WithFacts(q, e) /\ q \in Text /\ Edged(q) /\ (s = <<>> => q = <<>>)
      /\ s # <<>> => Last(q) = Last(s)
  <2>1. summary = Stored(e)
    BY DEF KevInv
  <2> QED
    BY <1>1, <2>1, StoredIs
<1>3. (t = <<>> => s = <<>>) /\ (s = t \/ (s # <<>> /\ Last(s) \in {Stop, Mark}))
  BY <1>1, SentenceIs
<1>4. t = <<>> \/ e.ransomware \/ (Last(t) # Ransomware /\ (Last(t) \in Dues => e.due # NoDue))
  BY DEF Unambiguous
<1> HIDE DEF q, s, t
<1>5. Ransomware \notin {Stop, Mark} /\ \A due \in Dues : due \notin {Stop, Mark}
  BY Lexemes, Written
<1>6. \/ q = <<>> \/ e.ransomware
      \/ Last(q) # Ransomware /\ (Last(q) \in Dues => e.due # NoDue)
  BY <1>2, <1>3, <1>4, <1>5
<1> HIDE DEF e
<1>7. Fields(WithFacts(q, e)) =
        [description |-> CleanText(q, MaxDescription), ransomware |-> e.ransomware, due |-> e.due]
  BY <1>1, <1>2, <1>6, FieldsAre
<1>8. exported = Fields(summary)
  BY DEF KevInv
<1>9. exported = [description |-> CleanText(q, MaxDescription), ransomware |-> e.ransomware,
                  due |-> e.due]
  BY <1>2, <1>7, <1>8
<1> QED
  BY <1>9 DEF q, s, e

LEMMA KevInvSays == KevInv => KevFactsSurvive
<1> SUFFICES ASSUME KevInv, stage = "exported", Unambiguous(catalogued),
                    ~ LeavesOpen(Sentence(catalogued))
             PROVE  KevFactsSurvive
  BY DEF KevFactsSurvive
<1> DEFINE e == catalogued
           t == Trimmed(e.description)
           s == Sentence(e)
           q == Plain(s)
           st == Plain(t)
           shown == CleanText(q, MaxDescription)
<1>1. exported = [description |-> shown, ransomware |-> e.ransomware, due |-> e.due]
  BY ExportedIs
<1>2. e \in Entry /\ t \in Text
  <2>1. e \in Entry
    BY DEF KevInv
  <2>2. e.description \in Text
    BY <2>1 DEF Entry
  <2> QED
    BY <2>1, <2>2, TrimmedIsEdged
<1>3. s \in Text /\ Said(s, t)
  BY <1>2, SentenceIs
<1>4. q \in Text /\ Tidy(q) /\ Edged(q)
  BY <1>2, <1>3, PlainIs, StoredIs
<1> HIDE DEF s
<1>5. PICK p \in Text :
        Shows(p, st) /\ (q = p \/ \E c \in Piece : q = Append(p, c) /\ WidthOf(c) = 1)
  BY <1>3 DEF Said
<1>6. st \in Text
  BY <1>2, PlainIs
<1> HIDE DEF q, st
<1>7. ShownSays(shown, st)
  BY <1>4, <1>5, <1>6, CleanedSays
<1>8. /\ exported.description = shown /\ exported.ransomware = e.ransomware
      /\ exported.due = e.due
  BY <1>1
<1>9. Squeezed(Unmarked(Trimmed(catalogued.description))) = st
  BY DEF st, Plain
<1>10. /\ exported.ransomware = catalogued.ransomware /\ exported.due = catalogued.due
       /\ exported.description # <<>> => Width(Front(exported.description)) <= Width(st)
       /\ \A i \in 1 .. (Len(exported.description) - 1) :
            exported.description[i] = st[i] \/ exported.description[i] = "w"
  <2> HIDE DEF shown
  <2> QED
    BY <1>7, <1>8 DEF ShownSays, Letter
<1> QED
  BY <1>9, <1>10 DEF KevFactsSurvive

(* _summary, _truncate, to_plain_text and parse_kev_item: however long a   *)
(* description of the catalogue is, and whatever sentences and markup it   *)
(* holds, kev.json states the two facts that the catalogue stated, and as  *)
(* much of the description as there is room for; unless the description,   *)
(* as shortened, leaves markup open.                                       *)
THEOREM KevFactsKept == KevSpec => []KevFactsSurvive
BY KevStarts, KevStep, KevInvSays, PTL DEF KevSpec
=============================================================================
