----------------------------- MODULE ItemTopics -----------------------------
(***************************************************************************)
(* Who owns a topic of an item.  A refresh links the items of its source   *)
(* to the source's topics, which are the operator's, and to the topics the *)
(* ruleset reads off each URL; sre-tab retag brings the ruleset's links in *)
(* line with today's ruleset; retention deletes items with their links.    *)
(* The refreshes take turns through the scheduler's locks, one per source; *)
(* nothing keeps them, the operator and retention from one another but the *)
(* database.                                                               *)
(*                                                                         *)
(* A step is a statement, as PostgreSQL runs it under READ COMMITTED: it   *)
(* sees what is committed when it starts, waits for a row that another     *)
(* transaction has written and not yet committed, and then looks at that   *)
(* row again.  A transaction that cannot go on is rolled back.             *)
(***************************************************************************)
EXTENDS Naturals

CONSTANTS
  Items,      \* items by canonical_url; a pruned one is too old to come back
  Topics,     \* rows of the table topics
  Sources,    \* sources that publish these items, refreshed by any replica
  Operator,   \* the transaction of sre-tab retag
  Rules,      \* topics_for_url of each item, by today's ruleset
  Configs     \* the sets of topics set-topics gives to the sources

ASSUME ItemTopicsAssumption ==
  /\ Rules \in [Items -> SUBSET Topics]
  /\ Configs \subseteq SUBSET Topics
  /\ Operator \notin Sources

Writers == Sources \union {Operator}
Pairs == Items \X Topics

VARIABLES
  items,      \* feed_items
  old,        \* items published before the retention cutoff
  links,      \* feed_item_topics: the origin of each pair that has a row
  phase,      \* the next statement of each writer
  pending,    \* its uncommitted writes to feed_item_topics, by pair
  batch,      \* refresh: the entries of the document
  asserted,   \* refresh: the source's topics, read when the tick started
  unseen,     \* refresh: entries the advisory query did not find
  fresh,      \* refresh: the items it has inserted and not committed
  seen,       \* retag: feed_item_topics as it was read
  wanted      \* retag: the pairs the ruleset asks for

vars == <<items, old, links, phase, pending, batch, asserted, unseen,
          fresh, seen, wanted>>

Phases ==
  {"idle", "fetching", "storing", "linking", "ruling",
   "scanning", "deleting", "inserting", "committing"}

Empty == [p \in {} |-> "rule"]

TypeOK ==
  /\ items \subseteq Items
  /\ old \subseteq Items
  /\ DOMAIN links \subseteq Pairs
  /\ links \in [DOMAIN links -> {"source", "rule"}]
  /\ phase \in [Writers -> Phases]
  /\ DOMAIN pending = Writers
  /\ \A w \in Writers :
       /\ DOMAIN pending[w] \subseteq Pairs
       /\ pending[w] \in [DOMAIN pending[w] -> {"source", "rule", "gone"}]
  /\ batch \in [Sources -> SUBSET Items]
  /\ asserted \in [Sources -> Configs \union {{}}]
  /\ unseen \in [Sources -> SUBSET Items]
  /\ fresh \in [Sources -> SUBSET Items]
  /\ DOMAIN seen \subseteq Pairs
  /\ seen \in [DOMAIN seen -> {"source", "rule"}]
  /\ wanted \subseteq Pairs

(***************************************************************************)
(* Any links that earlier rulesets and configurations may have left.       *)
(***************************************************************************)
Init ==
  /\ items \in SUBSET Items
  /\ \E linked \in SUBSET (items \X Topics) :
       links \in [linked -> {"source", "rule"}]
  /\ old = {}
  /\ phase = [w \in Writers |-> "idle"]
  /\ pending = [w \in Writers |-> Empty]
  /\ batch = [s \in Sources |-> {}]
  /\ asserted = [s \in Sources |-> {}]
  /\ unseen = [s \in Sources |-> {}]
  /\ fresh = [s \in Sources |-> {}]
  /\ seen = Empty
  /\ wanted = {}

-----------------------------------------------------------------------------
(***************************************************************************)
(* Rows and transactions.                                                  *)
(***************************************************************************)
(* mutant of Applied: a deleted row is left as a tombstone *)
AppliedTombstone(table, writes) ==
  [p \in DOMAIN table \union DOMAIN writes |->
     IF p \in DOMAIN writes THEN writes[p] ELSE table[p]]

(* The table with the writes of a transaction applied to it. *)
Applied(table, writes) ==
  [p \in {q \in DOMAIN table \union DOMAIN writes :
            q \in DOMAIN writes => writes[q] # "gone"} |->
     IF p \in DOMAIN writes THEN writes[p] ELSE table[p]]

Overlay(writes, more) ==
  [p \in DOMAIN writes \union DOMAIN more |->
     IF p \in DOMAIN more THEN more[p] ELSE writes[p]]

RuleLinks(some) == {p \in some \X Topics : p[2] \in Rules[p[1]]}

Owned == {p \in DOMAIN seen : seen[p] = "rule"}

ToRemove == Owned \ wanted

(* mutant of ToAdd: an item that has a link already is passed over *)
ToAddUntagged == {p \in wanted : \A q \in DOMAIN seen : q[1] # p[1]}

ToAdd == wanted \ DOMAIN seen

(* The pairs the next statement of a writer names. *)
Named(w) ==
  CASE phase[w] = "linking"   -> batch[w] \X asserted[w]
    [] phase[w] = "ruling"    -> RuleLinks(batch[w])
    [] phase[w] = "deleting"  -> ToRemove
    [] phase[w] = "inserting" -> ToAdd
    [] OTHER                  -> {}

WaitsFor(w, v) == v # w /\ Named(w) \intersect DOMAIN pending[v] # {}
Free(w) == \A v \in Writers : ~WaitsFor(w, v)

(* A link may be inserted only for an item that is there. *)
ReferencesHold(w, pairs) ==
  \A p \in pairs : p[1] \in items \/ (w \in Sources /\ p[1] \in fresh[w])

(* _insert_ignore: ON CONFLICT DO NOTHING, as rows of the ruleset. *)
InsertIgnored(w, pairs) ==
  LET new == pairs \ DOMAIN Applied(links, pending[w])
  IN  /\ ReferencesHold(w, new)
      /\ pending' = [pending EXCEPT ![w] =
                       Overlay(@, [p \in new |-> "rule"])]

(* What a transaction leaves when it ends: its local variables are gone. *)
Ended(w) ==
  /\ phase' = [phase EXCEPT ![w] = "idle"]
  /\ pending' = [pending EXCEPT ![w] = Empty]
  /\ batch' = [s \in Sources |-> IF s = w THEN {} ELSE batch[s]]
  /\ asserted' = [s \in Sources |-> IF s = w THEN {} ELSE asserted[s]]
  /\ unseen' = [s \in Sources |-> IF s = w THEN {} ELSE unseen[s]]
  /\ fresh' = [s \in Sources |-> IF s = w THEN {} ELSE fresh[s]]
  /\ seen' = IF w = Operator THEN Empty ELSE seen
  /\ wanted' = IF w = Operator THEN {} ELSE wanted

Rollback(w) == Ended(w) /\ UNCHANGED <<items, old, links>>

-----------------------------------------------------------------------------
(***************************************************************************)
(* IngestService: due_sources, then _store.                                *)
(***************************************************************************)
(* The tick reads the source's topics before anything is fetched.  The     *)
(* operator may change them between any two ticks.                         *)
StartRefresh(s) ==
  /\ phase[s] = "idle"
  /\ phase' = [phase EXCEPT ![s] = "fetching"]
  /\ \E topics \in Configs : asserted' = [asserted EXCEPT ![s] = topics]
  /\ UNCHANGED <<items, old, links, pending, batch, unseen, fresh, seen,
                 wanted>>

(* The document is here, entries past retention are dropped, and the       *)
(* advisory query has told which of the others are stored already.         *)
LookUp(s) ==
  /\ phase[s] = "fetching"
  /\ \E entries \in SUBSET (Items \ old) :
       /\ batch' = [batch EXCEPT ![s] = entries]
       /\ unseen' = [unseen EXCEPT ![s] = entries \ items]
  /\ phase' = [phase EXCEPT ![s] = "storing"]
  /\ UNCHANGED <<items, old, links, pending, asserted, fresh, seen,
                 wanted>>

(* mutant of ReadBack: only what this refresh has inserted is linked *)
ReadBackNew(s, inserted) == inserted

(* The entries whose ids are read back, one's own inserts included. *)
ReadBack(s, inserted) == batch[s] \intersect (items \union inserted)

(* The insert waits for another refresh that is inserting the same item,   *)
(* and ignores those that are there by now.                                *)
StoreItems(s) ==
  /\ phase[s] = "storing"
  /\ \A q \in Sources \ {s} : unseen[s] \intersect fresh[q] = {}
  /\ LET inserted == unseen[s] \ items
     IN  /\ fresh' = [fresh EXCEPT ![s] = inserted]
         /\ batch' = [batch EXCEPT ![s] = ReadBack(s, inserted)]
  /\ phase' = [phase EXCEPT ![s] = "linking"]
  /\ UNCHANGED <<items, old, links, pending, asserted, unseen, seen,
                 wanted>>

(* mutant of SourceOrigin: the insert is ignored where a rule was first *)
SourceOriginKept(p) == IF p \in DOMAIN links THEN links[p] ELSE "source"

(* ON CONFLICT DO UPDATE SET origin = 'source' *)
SourceOrigin(p) == "source"

LinkSource(s) ==
  /\ phase[s] = "linking"
  /\ Free(s)
  /\ ReferencesHold(s, Named(s) \ DOMAIN links)
  /\ pending' = [pending EXCEPT ![s] =
                   [p \in Named(s) |-> SourceOrigin(p)]]
  /\ phase' = [phase EXCEPT ![s] = "ruling"]
  /\ UNCHANGED <<items, old, links, batch, asserted, unseen, fresh,
                 seen, wanted>>

LinkRules(s) ==
  /\ phase[s] = "ruling"
  /\ Free(s)
  /\ InsertIgnored(s, Named(s))
  /\ phase' = [phase EXCEPT ![s] = "committing"]
  /\ UNCHANGED <<items, old, links, batch, asserted, unseen, fresh,
                 seen, wanted>>

CommitRefresh(s) ==
  /\ phase[s] = "committing"
  /\ items' = items \union fresh[s]
  /\ links' = Applied(links, pending[s])
  /\ Ended(s)
  /\ UNCHANGED old

-----------------------------------------------------------------------------
(***************************************************************************)
(* sre-tab retag                                                           *)
(***************************************************************************)
StartRetag ==
  /\ phase[Operator] = "idle"
  /\ phase' = [phase EXCEPT ![Operator] = "scanning"]
  /\ seen' = links
  /\ UNCHANGED <<items, old, links, pending, batch, asserted, unseen,
                 fresh, wanted>>

(* The items are read after the links, with what was committed since. *)
Scan ==
  /\ phase[Operator] = "scanning"
  /\ phase' = [phase EXCEPT ![Operator] = "deleting"]
  /\ wanted' = RuleLinks(items)
  /\ UNCHANGED <<items, old, links, pending, batch, asserted, unseen,
                 fresh, seen>>

(* mutant of RulesOwn: the delete does not ask for the origin again *)
RulesOwnOnce(p) == p \in DOMAIN links

(* The delete's own condition on the row, once nobody else is writing it. *)
RulesOwn(p) == p \in DOMAIN links /\ links[p] = "rule"

DeleteLinks ==
  /\ phase[Operator] = "deleting"
  /\ Free(Operator)
  /\ LET cut == {p \in Named(Operator) : RulesOwn(p)}
     IN  pending' = [pending EXCEPT ![Operator] = [p \in cut |-> "gone"]]
  /\ phase' = [phase EXCEPT ![Operator] = "inserting"]
  /\ UNCHANGED <<items, old, links, batch, asserted, unseen, fresh,
                 seen, wanted>>

InsertLinks ==
  /\ phase[Operator] = "inserting"
  /\ Free(Operator)
  /\ InsertIgnored(Operator, Named(Operator))
  /\ phase' = [phase EXCEPT ![Operator] = "committing"]
  /\ UNCHANGED <<items, old, links, batch, asserted, unseen, fresh,
                 seen, wanted>>

CommitRetag ==
  /\ phase[Operator] = "committing"
  /\ links' = Applied(links, pending[Operator])
  /\ Ended(Operator)
  /\ UNCHANGED <<items, old>>

-----------------------------------------------------------------------------
(***************************************************************************)
(* Rollbacks.                                                              *)
(***************************************************************************)
(* The item of a link to insert has been pruned: a foreign key refuses the *)
(* statement.  A refresh records a failure, the re-tag aborts.             *)
Refused(w) ==
  /\ phase[w] \in {"linking", "ruling", "inserting"}
  /\ Free(w)
  /\ ~ReferencesHold(w, Named(w) \ DOMAIN Applied(links, pending[w]))
  /\ Rollback(w)

(* Writers that wait for one another in a circle. *)
Circle(some) ==
  \A w \in some : \E v \in some : WaitsFor(w, v)

(* PostgreSQL rolls one of them back. *)
DeadlockVictim(w) ==
  /\ \E some \in SUBSET Writers : w \in some /\ Circle(some)
  /\ Rollback(w)

(* The process dies, or its connection to the database does. *)
Crash(w) ==
  /\ phase[w] # "idle"
  /\ Rollback(w)

-----------------------------------------------------------------------------
(***************************************************************************)
(* Everybody else.                                                         *)
(***************************************************************************)
(* An item passes the retention cutoff; bound: not in the instant in which *)
(* a refresh that has just dated it goes on to store it.                   *)
Age(i) ==
  /\ i \notin old
  /\ \A s \in Sources : i \notin unseen[s]
  /\ old' = old \union {i}
  /\ UNCHANGED <<items, links, phase, pending, batch, asserted, unseen,
                 fresh, seen, wanted>>

(* mutant of Cascade: the links of a pruned item stay *)
CascadeNothing(expired) == DOMAIN links

(* ON DELETE CASCADE: the links that survive the items. *)
Cascade(expired) == {p \in DOMAIN links : p[1] \notin expired}

(* prune_feed_items; bookmarked items are the ones it may leave.  It waits *)
(* for the transactions that are writing links of these items.             *)
Prune ==
  \E expired \in SUBSET (items \intersect old) :
    /\ expired # {}
    /\ \A w \in Writers : \A p \in DOMAIN pending[w] : p[1] \notin expired
    /\ items' = items \ expired
    /\ links' = [p \in Cascade(expired) |-> links[p]]
    /\ UNCHANGED <<old, phase, pending, batch, asserted, unseen, fresh,
                   seen, wanted>>

-----------------------------------------------------------------------------
Refresh(s) ==
  \/ StartRefresh(s)
  \/ LookUp(s)
  \/ StoreItems(s)
  \/ LinkSource(s)
  \/ LinkRules(s)
  \/ CommitRefresh(s)

Retag ==
  \/ StartRetag
  \/ Scan
  \/ DeleteLinks
  \/ InsertLinks
  \/ CommitRetag

Next ==
  \/ \E s \in Sources : Refresh(s)
  \/ Retag
  \/ \E w \in Writers : Refused(w) \/ DeadlockVictim(w) \/ Crash(w)
  \/ \E i \in Items : Age(i)
  \/ Prune

Spec == Init /\ [][Next]_vars

-----------------------------------------------------------------------------
(***************************************************************************)
(* Properties.                                                             *)
(***************************************************************************)
(* No link outlives its item (models.py, FeedItemTopic), although links    *)
(* are written from ids that were read earlier.                            *)
NoOrphanLinks == \A p \in DOMAIN links : p[1] \in items

(* "Nothing ever rewrites a source row back to rule" (store.py:92), and no *)
(* re-tag deletes one: an operator's link goes only with its item, however *)
(* refreshes, re-tags and retention interleave.                            *)
OperatorLinksStay ==
  [][\A p \in DOMAIN links :
       links[p] = "source" /\ p[1] \in items' =>
         p \in DOMAIN links' /\ links'[p] = "source"]_vars

(* A refresh that commits has linked every item it read back, old or new,  *)
(* to the topics its source had when the tick started, as the operator's,  *)
(* and to those of the ruleset (store.py, upsert_items), whatever a re-tag *)
(* or another source's refresh does to the same pairs.                     *)
RefreshLinksItsItems ==
  [][\A s \in Sources : CommitRefresh(s) =>
       \A i \in batch[s] \intersect items' :
         /\ \A t \in asserted[s] : <<i, t>> \in DOMAIN links'
                                   /\ links'[<<i, t>>] = "source"
         /\ \A t \in Rules[i] : <<i, t>> \in DOMAIN links']_vars

(* The ruleset's links are those of today's rules. *)
InLine ==
  /\ RuleLinks(items) \subseteq DOMAIN links
  /\ \A p \in DOMAIN links : links[p] = "rule" => p[2] \in Rules[p[1]]

(* A re-tag "brings the whole window into line" (operations.py:415) even   *)
(* while refreshes and retention run, and nothing takes it out again.      *)
RetagBringsIntoLine == [][CommitRetag \/ InLine => InLine']_vars
=============================================================================
