------------------------------ MODULE FeedPages ------------------------------
(***************************************************************************)
(* A reader pages through the feed or the bookmarks,                       *)
(* src/app/services/{feed,pagination,bookmarks}.py, while items arrive and *)
(* are pruned and while marks, preferences and the catalogue change.  A    *)
(* page is not one statement: the reader's selections and word mutes are   *)
(* read first, and the page is selected with what they were.               *)
(***************************************************************************)
EXTENDS Integers, Sequences, FiniteSets, SequencesExt

CONSTANTS
    Kind,           \* for each id an item can get, what the filters can tell of the item
    Days,           \* the days items are published on and bookmarked on
    Feeds, Topics,  \* the slugs of the sources and the topics
    Profiles,       \* the preferences the reader may hold
    Filters,        \* the query parameters of GET /feed
    PageSize,
    Omitted,        \* a parameter that is left out
    MaxChanges      \* bound: the changes made between the steps of listings

ASSUME FeedAssumption ==
    /\ DOMAIN Kind \subseteq Nat /\ Days \subseteq Nat /\ PageSize \in Nat \ {0}
    /\ \A i \in DOMAIN Kind : Kind[i].feed \in Feeds /\ Kind[i].topics \subseteq Topics

VARIABLES
    items,          \* feed_items, from id to published_at
    taken,          \* the ids that were ever given to an item: the sequence repeats none
    read,           \* the items marked as read
    saved,          \* the bookmarks, from item id to created_at
    disabled,       \* the sources and topics the operator has disabled
    profile,        \* the reader's committed preferences
    today,
    listing,        \* the listing the reader is paging through
    changes         \* how many changes were made, for the bound

feedVars == <<items, taken, read, saved, disabled, profile, today, listing, changes>>
library == <<items, taken, read, saved, disabled, profile, today, changes>>

NoListing == [of |-> "none", pc |-> "closed"]

FeedInit ==
    /\ items = <<>> /\ taken = {} /\ read = {} /\ saved = <<>> /\ disabled = {}
    /\ profile \in {p \in Profiles : p.default}
    /\ today = 1
    /\ listing = NoListing
    /\ changes = 0

-----------------------------------------------------------------------------
(* What a page of the feed leaves out.  "known" is what the page has read of the
   preferences before its main SELECT. *)

EffectiveSources(filter) ==
    IF filter.sources # Omitted THEN filter.sources
    ELSE IF profile.sources = {} THEN Omitted ELSE profile.sources

(* Selecting no enabled topic, or all of them, is no filter. *)
EffectiveTopics(filter) ==
    LET enabled == Topics \ disabled
        selected == profile.topics \cap enabled IN
    IF filter.topics # Omitted THEN filter.topics
    ELSE IF selected \in {{}, enabled} THEN Omitted ELSE selected

(* Of the muted URLs only whether there are any is read before; _url_muted asks the table. *)
Mutes == [words |-> profile.words, tags |-> profile.tags, anyUrl |-> profile.urls # {}]

Known(filter) ==
    [sources |-> EffectiveSources(filter), mutes |-> Mutes, topics |-> EffectiveTopics(filter)]

Muted(kind, mutes) ==
    \/ kind.terms \cap mutes.words # {}
    \/ kind.topics \cap mutes.tags # {}
    \/ mutes.anyUrl /\ kind.terms \cap profile.urls # {}

(* An item of unknown language passes, and so does every item when none is chosen. *)
LanguagePasses(kind) ==
    \/ kind.language = Omitted
    \/ profile.languages = {}
    \/ kind.language \in profile.languages

(* Every word of the query is in the text. *)
Matches(kind, query) == query \subseteq kind.terms

ReadPasses(i, filter) ==
    CASE filter.read = "all" -> TRUE
      [] filter.read = "unread" -> i \notin read
      [] filter.read = "read" -> i \in read

InFeed(i, filter, known) ==
    LET kind == Kind[i] IN
    /\ kind.feed \notin disabled
    /\ ReadPasses(i, filter)
    /\ known.sources # Omitted => kind.feed \in known.sources
    /\ Matches(kind, filter.query)
    /\ ~ Muted(kind, known.mutes)
    /\ LanguagePasses(kind)
    /\ known.topics # Omitted => kind.topics \cap known.topics # {}

(* The bookmarks show every saved item, also one of a disabled source. *)
Listed(l, known) ==
    IF l.of = "feed" THEN {i \in DOMAIN items : InFeed(i, l.filter, known)}
    ELSE DOMAIN saved

(* The position of an item in a listing: a moment, then the id as the tie-breaker. *)
Position(l, i) == <<IF l.of = "feed" THEN items[i] ELSE saved[i], i>>

Before(p, q) == p[1] > q[1] \/ (p[1] = q[1] /\ p[2] > q[2])

-----------------------------------------------------------------------------
(* "throughout" is history: the items that the listing had to show at every moment since
   it was opened, at the position they were at then. *)
Owed(l) == {<<Position(l, i), i>> : i \in Listed(l, Known(l.filter))}

OpenListing ==
    /\ listing.pc = "closed"
    /\ \E of \in {"feed", "bookmarks"}, f \in Filters :
         LET l == [of |-> of, filter |-> f, pc |-> "sources", cursor |-> <<>>, shown |-> <<>>,
                   known |-> Known(f), throughout |-> {}] IN
         listing' = [l EXCEPT !.throughout = Owed(l)]
    /\ UNCHANGED library

(* The three statements before the page's own: saved sources, mutes, saved topics. *)
AskSources ==
    /\ listing.pc = "sources" /\ listing.of = "feed"
    /\ listing' = [listing EXCEPT !.known.sources = EffectiveSources(listing.filter),
                                  !.pc = "mutes"]
    /\ UNCHANGED library

AskMutes ==
    /\ listing.pc = "mutes"
    /\ listing' = [listing EXCEPT !.known.mutes = Mutes, !.pc = "topics"]
    /\ UNCHANGED library

AskTopics ==
    /\ listing.pc = "topics"
    /\ listing' = [listing EXCEPT !.known.topics = EffectiveTopics(listing.filter),
                                  !.pc = "select"]
    /\ UNCHANGED library

(* The bookmarks are selected with none of them. *)
AskNothing ==
    /\ listing.pc = "sources" /\ listing.of = "bookmarks"
    /\ listing' = [listing EXCEPT !.pc = "select"]
    /\ UNCHANGED library

AfterCursorByMoment(p, cursor) == cursor = <<>> \/ p[1] < cursor[1]

(* (moment, id) < cursor, both components. *)
AfterCursor(p, cursor) == cursor = <<>> \/ Before(cursor, p)

(* One row more than the page is asked for, to tell whether another page follows; the
   cursor is the last row that is shown. *)
InOrder(rows) ==
    CHOOSE page \in [1..Cardinality(rows) -> rows] :
        /\ Range(page) = rows
        /\ \A m, n \in DOMAIN page : m < n => Before(page[m][1], page[n][1])

PageRows(l) ==
    InOrder({<<Position(l, i), i>> : i \in
               {j \in Listed(l, l.known) : AfterCursor(Position(l, j), l.cursor)}})

SelectPage ==
    LET rows == PageRows(listing)
        more == Len(rows) > PageSize
        page == IF more THEN SubSeq(rows, 1, PageSize) ELSE rows IN
    /\ listing.pc = "select"
    /\ listing' = [listing EXCEPT
         !.shown = @ \o page,
         !.cursor = IF more THEN Last(page)[1] ELSE <<>>,
         !.pc = IF more THEN "sources" ELSE "ended"]
    /\ UNCHANGED library

CloseListing ==
    /\ listing.pc = "ended"
    /\ listing' = NoListing
    /\ UNCHANGED library

-----------------------------------------------------------------------------
(* What happens between two steps of the listing.  Every change keeps the account of
   what is owed: an item stays on it only if it is listed, where it was, after it too. *)
KeepAccount ==
    \E l \in {listing} :
        listing' = IF l.pc = "closed" THEN l ELSE [l EXCEPT !.throughout = @ \cap Owed(l)']

(* A refresh stores a new item: published on any day up to now, under a new id. *)
StoreItem ==
    /\ \E i \in DOMAIN Kind \ taken, day \in {d \in Days : d <= today} :
         /\ taken' = taken \cup {i}
         /\ items' = [j \in DOMAIN items \cup {i} |-> IF j = i THEN day ELSE items[j]]
    /\ UNCHANGED <<read, saved, disabled, profile, today>>

(* prune_items: older than the cutoff and not bookmarked; marks go with the item. *)
PruneItems ==
    /\ \E cutoff \in Days :
         LET kept == {i \in DOMAIN items : items[i] >= cutoff \/ i \in DOMAIN saved} IN
         /\ kept # DOMAIN items
         /\ items' = [i \in kept |-> items[i]]
         /\ read' = read \cap kept
    /\ UNCHANGED <<taken, saved, disabled, profile, today>>

MarkItem ==
    /\ \E i \in DOMAIN items : read' = IF i \in read THEN read \ {i} ELSE read \cup {i}
    /\ UNCHANGED <<items, taken, saved, disabled, profile, today>>

SaveItem ==
    /\ \E i \in DOMAIN items \ DOMAIN saved :
         saved' = [j \in DOMAIN saved \cup {i} |-> IF j = i THEN today ELSE saved[j]]
    /\ UNCHANGED <<items, taken, read, disabled, profile, today>>

UnsaveItem ==
    /\ \E i \in DOMAIN saved : saved' = [j \in DOMAIN saved \ {i} |-> saved[j]]
    /\ UNCHANGED <<items, taken, read, disabled, profile, today>>

ToggleCatalogue ==
    /\ \E slug \in Feeds \cup Topics :
         disabled' = IF slug \in disabled THEN disabled \ {slug} ELSE disabled \cup {slug}
    /\ UNCHANGED <<items, taken, read, saved, profile, today>>

ChangeProfile ==
    /\ profile' \in Profiles \ {profile}
    /\ UNCHANGED <<items, taken, read, saved, disabled, today>>

NextDay ==
    /\ today + 1 \in Days /\ today' = today + 1
    /\ UNCHANGED <<items, taken, read, saved, disabled, profile>>

(* Filling the library before a listing is opened is free; what happens later counts. *)
Fill == StoreItem \/ SaveItem \/ NextDay
Change ==
    \/ Fill \/ PruneItems \/ MarkItem \/ UnsaveItem \/ ToggleCatalogue \/ ChangeProfile

Disturb ==
    /\ listing.pc # "ended"
    /\ \/ listing.pc = "closed" /\ changes = 0 /\ Fill /\ UNCHANGED changes
       \/ listing.pc # "closed" /\ changes < MaxChanges /\ Change /\ changes' = changes + 1
    /\ KeepAccount

FeedNext ==
    \/ OpenListing \/ AskSources \/ AskMutes \/ AskTopics \/ AskNothing
    \/ SelectPage \/ CloseListing \/ Disturb

FeedSpec == FeedInit /\ [][FeedNext]_feedVars

-----------------------------------------------------------------------------
(* Keyset paging: each row a listing shows stands after the one before it and no item is
   shown twice; and once the last page was answered, every item that belonged to the
   listing all along has been shown, whatever came, went or moved between two pages. *)
ListingsAreWhole ==
    listing.pc # "closed" =>
        LET shown == listing.shown IN
        /\ \A m, n \in DOMAIN shown : m < n =>
              Before(shown[m][1], shown[n][1]) /\ shown[m][2] # shown[n][2]
        /\ listing.pc = "ended" => listing.throughout \subseteq Range(shown)
=============================================================================
