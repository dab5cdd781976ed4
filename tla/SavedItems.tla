----------------------------- MODULE SavedItems -----------------------------
(***************************************************************************)
(* What users keep: bookmarks, and marks of what they have read, one row   *)
(* per user and item.  Requests of the API write them, several of one user *)
(* at a time; the daily retention job deletes items, and with an item      *)
(* every row that names it.                                                *)
(*                                                                         *)
(* A step is a statement, as PostgreSQL runs it under READ COMMITTED.  A   *)
(* DELETE takes its snapshot when it starts: it waits for a row that       *)
(* another transaction has locked, but asks its condition again only if    *)
(* the row itself has changed, and a new bookmark locks the row of its     *)
(* item without changing it.                                               *)
(***************************************************************************)
EXTENDS Naturals

CONSTANTS
  Items,     \* rows of feed_items
  Users,     \* rows of users
  Requests,  \* requests in progress, one database session each
  MaxDate    \* bound: how many saves are asked for

ASSUME SavedItemsAssumption == MaxDate \in Nat

RowKeys == {"bookmark", "read"} \X Users \X Items

VARIABLES
  feedItems,  \* feed_items
  savedRows,  \* bookmarks and user_read_items: the date of each row
  lastDate,   \* the date of the last save
  phase,      \* what each request does next
  row,        \* the row it is about
  date,       \* the date a save would give the row
  pending,    \* its insert, until it commits: at most one row
  deleting,   \* whether retention's DELETE has started
  doomed,     \* the items it deletes, by its snapshot
  late        \* auxiliary: the bookmarks committed since it started

vars == <<feedItems, savedRows, lastDate, phase, row, date, pending, deleting,
          doomed, late>>

NoRow == <<>>

TypeOK ==
  /\ feedItems \subseteq Items
  /\ DOMAIN savedRows \subseteq RowKeys
  /\ savedRows \in [DOMAIN savedRows -> 1 .. MaxDate]
  /\ lastDate \in 0 .. MaxDate
  /\ phase \in [Requests -> {"idle", "saving", "reading", "committing"}]
  /\ row \in [Requests -> RowKeys \union {NoRow}]
  /\ date \in [Requests -> 0 .. MaxDate]
  /\ pending \in [Requests -> SUBSET RowKeys]
  /\ \A r \in Requests : pending[r] \subseteq {row[r]}
  /\ deleting \in BOOLEAN
  /\ doomed \subseteq Items
  /\ late \subseteq RowKeys

Init ==
  /\ feedItems = Items
  /\ savedRows = [p \in {} |-> 0]
  /\ lastDate = 0
  /\ phase = [r \in Requests |-> "idle"]
  /\ row = [r \in Requests |-> NoRow]
  /\ date = [r \in Requests |-> 0]
  /\ pending = [r \in Requests |-> {}]
  /\ deleting = FALSE
  /\ doomed = {}
  /\ late = {}

ItemOf(p) == p[3]
IsBookmark(p) == p[1] = "bookmark"

(* mutant of Ended: the session goes back with its transaction open *)
EndedOpen(r) ==
  /\ phase' = [phase EXCEPT ![r] = "idle"]
  /\ row' = [row EXCEPT ![r] = NoRow]
  /\ date' = [date EXCEPT ![r] = 0]
  /\ UNCHANGED pending

(* The session is closed: what it has not committed is rolled back. *)
Ended(r) ==
  /\ phase' = [phase EXCEPT ![r] = "idle"]
  /\ row' = [row EXCEPT ![r] = NoRow]
  /\ date' = [date EXCEPT ![r] = 0]
  /\ pending' = [pending EXCEPT ![r] = {}]

-----------------------------------------------------------------------------
(***************************************************************************)
(* create_bookmark, and set_read_state of a read item.                     *)
(***************************************************************************)
(* The item is there: an unknown one is answered 404 and nothing changes.  *)
StartSave(r) ==
  /\ phase[r] = "idle"
  /\ lastDate < MaxDate
  /\ \E p \in RowKeys :
       /\ ItemOf(p) \in feedItems
       /\ row' = [row EXCEPT ![r] = p]
  /\ lastDate' = lastDate + 1
  /\ date' = [date EXCEPT ![r] = lastDate']
  /\ phase' = [phase EXCEPT ![r] = "saving"]
  /\ UNCHANGED <<feedItems, savedRows, pending, deleting, doomed, late>>

(* mutant of Waits: the insert does not see that another is under way *)
WaitsNever(r) == FALSE

(* The same row is being inserted by another request. *)
Waits(r) == \E q \in Requests \ {r} : row[r] \in pending[q]

(* mutant of ItemIsThere: no foreign key *)
ItemIsTaken(r) == TRUE

(* The foreign key of the row. *)
ItemIsThere(r) == ItemOf(row[r]) \in feedItems

(* insert_ignore: a row that is there already stays as it is. *)
InsertSave(r) ==
  /\ phase[r] = "saving"
  /\ ~Waits(r)
  /\ row[r] \in DOMAIN savedRows \/ ItemIsThere(r)
  /\ pending' = [pending EXCEPT ![r] = {row[r]} \ DOMAIN savedRows]
  /\ phase' = [phase EXCEPT ![r] = "reading"]
  /\ UNCHANGED <<feedItems, savedRows, lastDate, row, date, deleting, doomed, late>>

(* The item has been pruned since it was looked up. *)
SaveRefused(r) ==
  /\ phase[r] = "saving"
  /\ ~Waits(r)
  /\ row[r] \notin DOMAIN savedRows /\ ~ItemIsThere(r)
  /\ Ended(r)
  /\ UNCHANGED <<feedItems, savedRows, lastDate, deleting, doomed, late>>

Visible(r) == DOMAIN savedRows \union pending[r]

(* A mark that is gone by now is answered without a date. *)
ReadBack(r) ==
  /\ phase[r] = "reading"
  /\ IsBookmark(row[r]) => row[r] \in Visible(r)
  /\ phase' = [phase EXCEPT ![r] = "committing"]
  /\ UNCHANGED <<feedItems, savedRows, lastDate, row, date, pending, deleting,
                 doomed, late>>

(* A bookmark that was there, and is gone by now, is an error. *)
ReadBackFails(r) ==
  /\ phase[r] = "reading"
  /\ IsBookmark(row[r]) /\ row[r] \notin Visible(r)
  /\ Ended(r)
  /\ UNCHANGED <<feedItems, savedRows, lastDate, deleting, doomed, late>>

CommitSave(r) ==
  /\ phase[r] = "committing"
  /\ savedRows' = [p \in DOMAIN savedRows \union pending[r] |->
                 IF p \in pending[r] THEN date[r] ELSE savedRows[p]]
  /\ late' = IF deleting
               THEN late \union {p \in pending[r] : IsBookmark(p)}
               ELSE late
  /\ Ended(r)
  /\ UNCHANGED <<feedItems, lastDate, deleting, doomed>>

(* The process dies, or its connection to the database does. *)
Crash(r) ==
  /\ phase[r] # "idle"
  /\ Ended(r)
  /\ UNCHANGED <<feedItems, savedRows, lastDate, deleting, doomed, late>>

-----------------------------------------------------------------------------
(* remove_bookmark, and set_read_state of an unread item, for a row that   *)
(* is there.  An insert under way is not seen; that the delete and its     *)
(* commit are two steps is seen by nobody.                                 *)
RemoveSave ==
  \E p \in DOMAIN savedRows :
    /\ savedRows' = [q \in DOMAIN savedRows \ {p} |-> savedRows[q]]
    /\ late' = late \ {p}
    /\ UNCHANGED <<feedItems, lastDate, phase, row, date, pending, deleting,
                   doomed>>

-----------------------------------------------------------------------------
(***************************************************************************)
(* IngestService.prune                                                     *)
(***************************************************************************)
(* mutant of Exempt: the query asks the wrong table *)
ExemptRead(i) == \E p \in DOMAIN savedRows : ~IsBookmark(p) /\ ItemOf(p) = i

(* Somebody has bookmarked the item. *)
Exempt(i) == \E p \in DOMAIN savedRows : IsBookmark(p) /\ ItemOf(p) = i

(* The clock says which items are past retention. *)
StartPrune ==
  /\ ~deleting
  /\ \E expired \in SUBSET feedItems :
       doomed' = {i \in expired : ~Exempt(i)}
  /\ deleting' = TRUE
  /\ UNCHANGED <<feedItems, savedRows, lastDate, phase, row, date, pending, late>>

(* mutant of Locked: the delete does not wait for new rows of the item *)
LockedNever(i) == FALSE

(* An uncommitted row holds the key of its item. *)
Locked(i) == \E r \in Requests : \E p \in pending[r] : ItemOf(p) = i

(* The items go, and what names them; the job commits at once. *)
EndPrune ==
  /\ deleting
  /\ \A i \in doomed : ~Locked(i)
  /\ feedItems' = feedItems \ doomed
  /\ savedRows' = [p \in {q \in DOMAIN savedRows : ItemOf(q) \notin doomed} |->
                 savedRows[p]]
  /\ deleting' = FALSE
  /\ doomed' = {}
  /\ late' = {}
  /\ UNCHANGED <<lastDate, phase, row, date, pending>>

-----------------------------------------------------------------------------
Save(r) ==
  \/ StartSave(r)
  \/ InsertSave(r)
  \/ SaveRefused(r)
  \/ ReadBack(r)
  \/ ReadBackFails(r)
  \/ CommitSave(r)
  \/ Crash(r)

Next ==
  \/ \E r \in Requests : Save(r)
  \/ RemoveSave
  \/ StartPrune
  \/ EndPrune

Spec == Init /\ [][Next]_vars

-----------------------------------------------------------------------------
(***************************************************************************)
(* Properties.                                                             *)
(***************************************************************************)
(* Every row names an item that is there, and so does every row that is    *)
(* not committed yet: a save that got through cannot lose its item before  *)
(* it answers (bookmarks.py, the existence query and the insert after it). *)
RowsNameItems ==
  \A p \in DOMAIN savedRows \union UNION {pending[r] : r \in Requests} :
    ItemOf(p) \in feedItems

(* "A second click is not a new save" (bookmarks.py:35): a row keeps its   *)
(* date, also when two requests save it at once; only a removal in between *)
(* gives it a new one.                                                     *)
DatesStay ==
  [][\A p \in DOMAIN savedRows \intersect DOMAIN savedRows' :
       savedRows'[p] = savedRows[p]]_vars

(* A bookmark that was committed before retention's DELETE started keeps   *)
(* its item, whatever requests do meanwhile (store.py, prune_feed_items).  *)
TimelyBookmarksStay ==
  [][\A p \in DOMAIN savedRows :
       IsBookmark(p) /\ ItemOf(p) \notin feedItems' => p \in late]_vars

(* "Any feed item carrying a bookmark row is exempt from retention         *)
(* outright" (store.py:334): no item goes while somebody has bookmarked    *)
(* it.  The code does not keep this.                                       *)
BookmarksOutliveRetention ==
  [][\A p \in DOMAIN savedRows :
       IsBookmark(p) => ItemOf(p) \in feedItems']_vars
=============================================================================
