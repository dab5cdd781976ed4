------------------------------ MODULE UrlMutes ------------------------------
(***************************************************************************)
(* Muting a site or an author by a pasted link: url_mute_term in           *)
(* src/app/services/preferences.py, normalise_url and link_host under it,  *)
(* and _url_muted in src/app/services/feed.py, which compares the stored   *)
(* term with stored links as text.  The list is replaced as a whole, so    *)
(* every save reduces the stored terms again.  A text is a sequence of     *)
(* lexemes: a label, a segment or a piece of one, or a delimiter.          *)
(***************************************************************************)
EXTENDS Naturals, Sequences

CONSTANTS
    Lexeme,         \* what texts are made of
    Pasted,         \* the texts readers paste
    Capital,        \* the lexemes that have a capital, mapped to the small form
    Address,        \* the hosts that read as an IP address
    Invalid         \* what a refusal returns

Schemes == {"https://", "http://", "ftp://"}

(* Where a link may start, and where its parts end. *)
Starts == Schemes \cup {"//"}
Marks == Starts \cup {"/", "?", ":"}

(* A scheme stands first or not at all: anywhere else it is a label, ":" and slashes.  A
   small form is small. *)
ASSUME MutesAssumption ==
    /\ Marks \subseteq Lexeme
    /\ Pasted \subseteq Seq(Lexeme)
    /\ \A text \in Pasted : \A i \in 2..Len(text) : text[i] \notin Starts
    /\ DOMAIN Capital \subseteq Lexeme \ Marks
    /\ \A c \in DOMAIN Capital : Capital[c] \in Lexeme \ (Marks \cup DOMAIN Capital)

VARIABLE mute       \* the pasted text, the term first stored and the term stored now

muteVars == <<mute>>

Nothing == [pasted |-> <<>>, first |-> Invalid, term |-> Invalid]
MuteInit == mute = Nothing

Lower(text) == [i \in DOMAIN text |->
    IF text[i] \in DOMAIN Capital THEN Capital[text[i]] ELSE text[i]]

-----------------------------------------------------------------------------
(* Taking a link apart, as httpx.URL does. *)

(* The part of a text before the first of these delimiters, and the rest from it on. *)
Cut(text, delimiters) ==
    LET stops == {i \in DOMAIN text : text[i] \in delimiters}
        n == IF stops = {} THEN Len(text) ELSE (CHOOSE i \in stops : \A j \in stops : i <= j) - 1
    IN [before |-> SubSeq(text, 1, n), after |-> SubSeq(text, n + 1, Len(text))]

DefaultPort == [scheme \in {"https://", "http://"} |->
    IF scheme = "https://" THEN "443" ELSE "80"]

(* A default port is no port. *)
Parsed(text) ==
    LET scheme == Head(text)
        authority == Cut(Tail(text), {"/", "?"})
        path == Cut(authority.after, {"?"})
        host == Cut(authority.before, {":"})
        port == host.after IN
    [scheme |-> scheme, host |-> Lower(host.before), path |-> path.before, query |-> path.after,
     port |-> IF scheme \in DOMAIN DefaultPort /\ port = <<":", DefaultPort[scheme]>>
              THEN <<>> ELSE port]

(* normalise_url: http or https, a host with a dot in it that is no address; an empty
   path becomes "/". *)
Normalised(text) ==
    LET url == Parsed(text)
        dotted == \E i \in DOMAIN url.host : url.host[i] \in {".", "www."} IN
    IF url.scheme \in {"http://", "https://"} /\ dotted /\ url.host \notin Address
    THEN <<url.scheme>> \o url.host \o url.port
         \o (IF url.path = <<>> THEN <<"/">> ELSE url.path) \o url.query
    ELSE Invalid

StartsWithWww(host) == host # <<>> /\ Head(host) = "www."

(* link_host: one "www." is taken off. *)
LinkHost(host) == IF StartsWithWww(host) THEN Tail(host) ELSE host

-----------------------------------------------------------------------------
WithScheme(text) ==
    IF text[1] \in Schemes THEN text
    ELSE <<"https://">> \o (IF text[1] = "//" THEN Tail(text) ELSE text)

FirstSegment(path) == Cut(Tail(path), {"/"}).before

WidensNever(host) == FALSE

(* A host that still starts with "www." would be read as less the next time. *)
Widens(host) == StartsWithWww(host)

(* url_mute_term: the host and at most one segment, or a refusal. *)
UrlMuteTerm(raw) ==
    LET canonical == IF raw = <<>> THEN Invalid ELSE Normalised(WithScheme(raw)) IN
    IF canonical = Invalid THEN Invalid
    ELSE LET url == Parsed(canonical)
             host == LinkHost(url.host)
             segment == FirstSegment(url.path) IN
         IF \/ Widens(host)
            \/ url.port # <<>>
            \/ segment = <<>> /\ url.path # <<"/">>
         THEN Invalid
         ELSE Lower(IF segment = <<>> THEN host ELSE host \o <<"/">> \o segment)

(* _url_muted: the scheme and one "www." are cut off the stored link; the term is the
   start of what is left, and ends where a component ends. *)
UrlMuted(link, term) ==
    LET key == LinkHost(Tail(Lower(link)))
        n == Len(term) IN
    /\ Len(key) >= n /\ SubSeq(key, 1, n) = term
    /\ Len(key) = n \/ key[n + 1] \in {"/", "?"}

-----------------------------------------------------------------------------
Paste ==
    /\ mute = Nothing
    /\ \E text \in Pasted :
         mute' = [pasted |-> text, first |-> UrlMuteTerm(text), term |-> UrlMuteTerm(text)]

(* The next save of the list: the stored term goes through the same reduction. *)
Resave ==
    /\ mute.term # Invalid
    /\ mute' = [mute EXCEPT !.term = UrlMuteTerm(mute.term)]

Unmute == mute # Nothing /\ mute' = Nothing

MuteNext == Paste \/ Resave \/ Unmute
MuteSpec == MuteInit /\ [][MuteNext]_muteVars

-----------------------------------------------------------------------------
StoredLinks == {Normalised(WithScheme(text)) : text \in Pasted \ {<<>>}} \ {Invalid}
SameSite(url, other) == LinkHost(url.host) = LinkHost(other.host) /\ other.port = <<>>

(* "A stored term can never mean more than it says": it mutes the link it was made from,
   and only links of that link's host and, if it names one, of its first segment; and a
   later save keeps it or refuses it, and never makes another term of it. *)
MutesWhatWasMeant ==
    mute.first # Invalid =>
        LET meant == Normalised(WithScheme(mute.pasted)) IN
        /\ mute.term \in {mute.first, Invalid}
        /\ UrlMuted(meant, mute.first)
        /\ \A link \in StoredLinks : UrlMuted(link, mute.first) =>
              LET url == Parsed(link)
                  source == Parsed(meant) IN
              /\ SameSite(source, url)
              /\ FirstSegment(source.path) # <<>> =>
                    Lower(FirstSegment(url.path)) = Lower(FirstSegment(source.path))

(* url_mute_term's docstring: "a stored term must reduce to itself". *)
StoredTermsAreStable == mute.first # Invalid => mute.term = mute.first
=============================================================================
