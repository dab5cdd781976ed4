----------------------------- MODULE FeedEntries -----------------------------
(***************************************************************************)
(* From a fetched document to the items a refresh stores: parse_feed in    *)
(* src/app/ingest/parse.py, parse_kev_catalogue in src/app/ingest/kev.py   *)
(* and normalise_entries in src/app/ingest/normalise.py.  A document is    *)
(* the sequence of its entries; an entry is its link after normalise_url   *)
(* and its date.                                                           *)
(***************************************************************************)
EXTENDS Integers, Sequences, FiniteSets

CONSTANTS
    EntryLinks,
    NoLink,         \* no link, or one that normalise_url refuses; in KEV no CVE id
    NoDate,
    EntryDates,     \* moments, past and to come
    FetchedAt, OldestAllowed, Skew,
    MaxEntries,     \* how many entries of a document are kept
    MaxElements     \* of more elements than these the document is refused

ASSUME EntriesAssumption ==
    /\ EntryDates \subseteq Int /\ NoDate \notin EntryDates
    /\ {OldestAllowed, FetchedAt} \subseteq Int /\ OldestAllowed <= FetchedAt /\ Skew \in Nat
    /\ MaxEntries \in Nat \ {0} /\ MaxElements \in Nat /\ MaxEntries < MaxElements

VARIABLES document, batch       \* what was fetched, what is stored of it

entryVars == <<document, batch>>

Entry == [link : EntryLinks \cup {NoLink}, date : EntryDates \cup {NoDate}]
Refused == [refused |-> TRUE, items |-> <<>>]

EntriesInit ==
    /\ document = [format |-> "none", entries |-> <<>>]
    /\ batch = Refused

-----------------------------------------------------------------------------
(* parse_feed: the first entries, in the order of the document. *)
ParsedRss(entries) == SubSeq(entries, 1, IF Len(entries) < MaxEntries THEN Len(entries)
                                         ELSE MaxEntries)

(* A KEV entry without an identity has no link. *)
Usable(entry) == entry.link # NoLink

(* The newest first, in the order of the document within a day. *)
Newer(entries, i, j) ==
    \/ entries[i].date > entries[j].date
    \/ entries[i].date = entries[j].date /\ i < j

(* parse_kev_catalogue: entries with a date, put in order; then those with an id, until there
   are enough. *)
ParsedKev(entries) ==
    LET usable == {i \in DOMAIN entries : entries[i].date # NoDate /\ Usable(entries[i])}
        sorted == CHOOSE s \in [1 .. Cardinality(usable) -> usable] :
                      /\ \A i \in usable : \E n \in DOMAIN s : s[n] = i
                      /\ \A m, n \in DOMAIN s : m < n => Newer(entries, s[m], s[n])
    IN ParsedRss([n \in DOMAIN sorted |-> entries[sorted[n]]])

(* normalise_published: no date, or one too far ahead, becomes the moment of the fetch. *)
Corrected(date) ==
    IF date = NoDate \/ date > FetchedAt + Skew THEN FetchedAt ELSE date

KeepRemembersTooOld(entry, kept) ==
    LET date == Corrected(entry.date) IN
    IF entry.link = NoLink \/ entry.link \in kept.seen THEN kept
    ELSE [seen |-> kept.seen \cup {entry.link},
          items |-> IF date < OldestAllowed THEN kept.items
                    ELSE Append(kept.items, [link |-> entry.link, date |-> date])]

(* normalise_entries: a link is taken once; an entry that is too old is passed over and
   does not stand in the way of a later one with its link. *)
Keep(entry, kept) ==
    LET date == Corrected(entry.date) IN
    IF entry.link = NoLink \/ entry.link \in kept.seen \/ date < OldestAllowed THEN kept
    ELSE [seen |-> kept.seen \cup {entry.link},
          items |-> Append(kept.items, [link |-> entry.link, date |-> date])]

NormalisedEntries(entries) ==
    LET kept[n \in 0 .. Len(entries)] ==
            IF n = 0 THEN [seen |-> {}, items |-> <<>>] ELSE Keep(entries[n], kept[n - 1])
    IN kept[Len(entries)].items

-----------------------------------------------------------------------------
Begin ==
    /\ document.format = "none"
    /\ \E format \in {"rss", "kev"} : document' = [format |-> format, entries |-> <<>>]
    /\ UNCHANGED batch

Publish ==
    /\ document.format # "none" /\ batch = Refused /\ Len(document.entries) <= MaxElements
    /\ \E e \in Entry : document' = [document EXCEPT !.entries = Append(@, e)]
    /\ UNCHANGED batch

TooComplex == Len(document.entries) > MaxElements

(* A document with too many elements is refused as a whole, and so is a catalogue of which
   nothing is usable: the source's status records the error and nothing is stored. *)
ReadDocument ==
    LET entries == IF document.format = "rss" THEN ParsedRss(document.entries)
                   ELSE ParsedKev(document.entries) IN
    /\ document.format # "none" /\ batch = Refused
    /\ batch' = IF \/ TooComplex
                   \/ document.format = "kev" /\ entries = <<>>
                THEN Refused
                ELSE [refused |-> FALSE, items |-> NormalisedEntries(entries)]
    /\ UNCHANGED document

Forget == ~ batch.refused /\ document' = [format |-> "none", entries |-> <<>>] /\ batch' = Refused

EntriesNext == Begin \/ Publish \/ ReadDocument \/ Forget
EntriesSpec == EntriesInit /\ [][EntriesNext]_entryVars

-----------------------------------------------------------------------------
InWindow(e) == e.link # NoLink /\ Corrected(e.date) >= OldestAllowed

(* Entries that a catalogue has room for before this one: as new, and usable. *)
AtLeastAsNew(i) ==
    {j \in DOMAIN document.entries \ {i} :
        LET e == document.entries[j] IN
        e.link # NoLink /\ e.date # NoDate /\ e.date >= document.entries[i].date}

(* An entry costs only itself: the items have distinct links and dates between the end of
   retention and the allowed skew, each is an entry of the document; and an entry that is
   usable is left out only for want of room, behind entries that come first in a feed or
   are as new in a catalogue, and a link has the date of its first entry that is. *)
EntriesCostOnlyThemselves ==
    ~ batch.refused =>
        LET entries == document.entries
            items == batch.items
            usable == {i \in DOMAIN entries : InWindow(entries[i])} IN
        /\ \A m, n \in DOMAIN items : items[m].link = items[n].link => m = n
        /\ \A n \in DOMAIN items :
              /\ OldestAllowed <= items[n].date /\ items[n].date <= FetchedAt + Skew
              /\ \E i \in usable :
                   items[n] = [link |-> entries[i].link, date |-> Corrected(entries[i].date)]
        /\ \A i \in usable :
              \/ \E n \in DOMAIN items : items[n].link = entries[i].link
              \/ document.format = "rss" /\ i > MaxEntries
              \/ document.format = "kev" /\ (entries[i].date = NoDate
                                             \/ Cardinality(AtLeastAsNew(i)) >= MaxEntries)
        /\ document.format = "rss" =>
              \A n \in DOMAIN items : \A i \in usable :
                 items[n].link = entries[i].link =>
                    \E j \in usable : j <= i /\ items[n] = [link |-> entries[j].link,
                                                       date |-> Corrected(entries[j].date)]
=============================================================================
