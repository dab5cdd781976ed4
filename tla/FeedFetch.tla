------------------------------ MODULE FeedFetch ------------------------------
(***************************************************************************)
(* Fetching a feed: FeedFetcher and HostRateLimiter in                     *)
(* src/app/ingest/fetch.py, UrlGuard in src/app/ingest/urlguard.py.  Each  *)
(* hop of a fetch is checked, resolved, spaced out and sent, against one   *)
(* deadline; whatever DNS and the servers answer, and however long they    *)
(* take, is open.                                                          *)
(***************************************************************************)
EXTENDS Integers, Sequences, FiniteSets

CONSTANTS
    Links,          \* what a source or a Location header may name
    FeedLinks,      \* the feed URLs of the enabled sources
    Supported,      \* the links whose scheme, port, host and path are acceptable
    HostOf,         \* the host of each link; a host that is an address literal is one
    Addresses,
    Public,         \* the addresses outside every blocked range, also the embedded ones
    MaxRedirects, Timeout, MinInterval, MaxBytes,
    Horizon         \* bound: the last moment of the model

ASSUME FetchAssumption ==
    /\ FeedLinks \subseteq Links /\ Supported \subseteq Links /\ Public \subseteq Addresses
    /\ DOMAIN HostOf = Links /\ Horizon \in Nat
    /\ MaxRedirects \in Nat /\ Timeout \in Nat /\ MinInterval \in Nat /\ MaxBytes \in Nat

VARIABLES
    clock,
    slots,      \* HostRateLimiter._last, for the hosts that have an entry
    fetch,      \* the fetch under way
    sent        \* history: its requests

fetchVars == <<clock, slots, fetch, sent>>

NoFetch == [pc |-> "idle"]

FetchInit == clock = 0 /\ slots = <<>> /\ fetch = NoFetch /\ sent = <<>>

FetchAt(pc) == fetch.pc = pc
Goes(pc) == fetch' = [fetch EXCEPT !.pc = pc]
TimePasses == clock' \in clock..Horizon

(* An error class for the source's status; the client is closed. *)
Raise(error) == fetch' = [pc |-> "failed", error |-> error]

StartFetch ==
    /\ FetchAt("idle") /\ clock + Timeout <= Horizon
    /\ \E link \in Links :
         fetch' = [pc |-> "check", link |-> link, hop |-> 0, deadline |-> clock + Timeout,
                   address |-> "", size |-> 0]
    /\ sent' = <<>>
    /\ UNCHANGED <<clock, slots>>

-----------------------------------------------------------------------------
Remaining == fetch.deadline - clock

(* check_static, and on the first hop the membership test: a redirect may leave the list
   of sources, it may not leave the rules. *)
Acceptable == fetch.link \in Supported /\ (fetch.hop = 0 => fetch.link \in FeedLinks)

AllowedNow(address) == fetch.hop > 0 \/ address \in Public

(* assert_address_allowed. *)
Allowed(address) == address \in Public

TargetHost == HostOf[fetch.link]

(* A host that is an address, in whatever notation, is not looked up. *)
IsLiteral(host) == host \in Addresses

CheckTarget ==
    LET host == TargetHost IN
    /\ FetchAt("check")
    /\ IF ~ Acceptable THEN Raise("UnsafeTargetError")
       ELSE IF IsLiteral(host)
       THEN IF Allowed(host) THEN fetch' = [fetch EXCEPT !.pc = "wait", !.address = host]
            ELSE Raise("UnsafeTargetError")
       ELSE IF Remaining <= 0 THEN Raise("FetchTimeoutError")
       ELSE Goes("resolve")
    /\ UNCHANGED <<clock, slots, sent>>

(* getaddrinfo in a thread of its own that is waited for until the deadline: every address
   of the answer must be allowed, and the first is the one that is connected to. *)
Resolve ==
    /\ FetchAt("resolve")
    /\ TimePasses /\ clock' <= fetch.deadline
    /\ \E answers \in {<<>>} \cup (Addresses \X Addresses) :
         IF answers = <<>> \/ \E i \in DOMAIN answers : ~ Allowed(answers[i])
         THEN Raise("UnsafeTargetError")
         ELSE fetch' = [fetch EXCEPT !.pc = "wait", !.address = answers[1]]
    /\ UNCHANGED <<slots, sent>>

ResolveTooSlow ==
    /\ FetchAt("resolve")
    /\ clock' = fetch.deadline
    /\ Raise("FetchTimeoutError")
    /\ UNCHANGED <<slots, sent>>

(* HostRateLimiter.wait: the next free moment of the host is reserved, then slept for. *)
Later(a, b) == IF a > b THEN a ELSE b
NextFree(host) == IF host \in DOMAIN slots THEN slots[host] + MinInterval ELSE MinInterval

WaitTurn ==
    LET host == TargetHost
        turn == Later(clock, NextFree(host)) IN
    /\ FetchAt("wait")
    /\ slots' = [h \in DOMAIN slots \cup {host} |-> IF h = host THEN turn ELSE slots[h]]
    /\ TimePasses /\ clock' >= turn
    /\ Goes("send")
    /\ UNCHANGED sent

SendLate ==
    /\ FetchAt("send") /\ Remaining <= 0
    /\ Raise("FetchTimeoutError")
    /\ UNCHANGED <<clock, slots, sent>>

(* The request goes to the address that was checked, not to a second lookup of the name. *)
Send ==
    /\ FetchAt("send") /\ Remaining > 0
    /\ sent' = Append(sent, [link |-> fetch.link, address |-> fetch.address, at |-> clock,
                            turn |-> slots[TargetHost]])
    /\ Goes("sent")
    /\ UNCHANGED <<clock, slots>>

-----------------------------------------------------------------------------
(* A refused connection, a reset, a certificate that does not fit, a socket timeout,
   a status of 400 and over, a redirect without Location, a content coding. *)
Fails ==
    /\ fetch.pc \in {"sent", "read"}
    /\ TimePasses
    /\ \E error \in {"FetchError", "FetchTimeoutError", "UpstreamStatusError",
                     "ResponseTooLargeError"} : Raise(error)
    /\ UNCHANGED <<slots, sent>>

HopsAllowed == MaxRedirects

(* The Location, joined with the link it came from, is the next hop. *)
Redirected ==
    /\ FetchAt("sent")
    /\ TimePasses
    /\ IF fetch.hop = HopsAllowed THEN Raise("TooManyRedirectsError")
       ELSE \E link \in Links :
              fetch' = [fetch EXCEPT !.pc = "check", !.link = link, !.hop = @ + 1,
                                     !.address = ""]
    /\ UNCHANGED <<slots, sent>>

(* The Content-Length, if there is one, is believed when it is over the cap. *)
Answered ==
    /\ FetchAt("sent")
    /\ TimePasses
    /\ \E declared \in {0, MaxBytes + 1} :
         IF declared > MaxBytes THEN Raise("ResponseTooLargeError") ELSE Goes("read")
    /\ UNCHANGED <<slots, sent>>

(* A chunk that comes after the deadline, or over the cap, is not kept. *)
ReadChunk ==
    /\ FetchAt("read")
    /\ TimePasses
    /\ \E n \in 1..MaxBytes :
         IF fetch.deadline <= clock' THEN Raise("FetchTimeoutError")
         ELSE IF fetch.size + n > MaxBytes THEN Raise("ResponseTooLargeError")
         ELSE fetch' = [fetch EXCEPT !.size = @ + n]
    /\ UNCHANGED <<slots, sent>>

EndOfBody ==
    /\ FetchAt("read")
    /\ TimePasses
    /\ Goes("fetched")
    /\ UNCHANGED <<slots, sent>>

EndFetch ==
    /\ fetch.pc \in {"fetched", "failed"}
    /\ fetch' = NoFetch
    /\ UNCHANGED <<clock, slots, sent>>

(* The process restarts: the limiter and the fetch were in memory only. *)
FetchRestart == clock' = 0 /\ slots' = <<>> /\ fetch' = NoFetch /\ sent' = <<>>

FetchNext ==
    \/ StartFetch \/ CheckTarget \/ Resolve \/ ResolveTooSlow \/ WaitTurn \/ SendLate \/ Send
    \/ Fails \/ Redirected \/ Answered \/ ReadChunk \/ EndOfBody \/ EndFetch
    \/ FetchRestart

FetchSpec == FetchInit /\ [][FetchNext]_fetchVars

-----------------------------------------------------------------------------
(* FeedFetcher.fetch, whatever the servers answer: it begins at the feed URL of an enabled
   source, follows at most the allowed redirects, sends every request to a supported link
   and a public address, begins none once its deadline has passed nor before its turn at the
   host, keeps the turns of one host the interval apart (a sleep that overruns its turn
   does not move the next one), and returns no body over the cap. *)
RequestsStayGuarded ==
    /\ Len(sent) <= MaxRedirects + 1
    /\ sent # <<>> => sent[1].link \in FeedLinks
    /\ \A m \in DOMAIN sent :
         /\ sent[m].link \in Supported /\ sent[m].address \in Public
         /\ sent[m].turn <= sent[m].at
         /\ fetch.pc \notin {"idle", "failed"} => sent[m].at < fetch.deadline
         /\ \A n \in 1..(m - 1) : HostOf[sent[m].link] = HostOf[sent[n].link] =>
              sent[m].turn - sent[n].turn >= MinInterval
    /\ FetchAt("fetched") => fetch.size <= MaxBytes
=============================================================================
