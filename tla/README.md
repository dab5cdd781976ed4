# sre-tab: TLA+ specifications and proofs

sre-tab is a personal new-tab page for feeds. One Python process (FastAPI,
SQLAlchemy, APScheduler) polls the sources of a catalogue, keeps their items in
PostgreSQL, and serves them to signed-in users through a JSON API; a React
client pages through the feed. Several replicas of the process may share the
database. This directory models the parts whose correctness depends on the order
in which things happen, checks them with TLC, and proves the main results with
TLAPS.

Paths below are relative to the repository.

## The system

| Component | Its state | Its operations | What is hard about it |
|---|---|---|---|
| Scheduler `app/scheduler/service.py` | the moments of the last tick and prune, the APScheduler handle | `tick`, `prune`, `start`, `shutdown`, `readiness` | the due list is stale while it is walked; a tick can end early; a tick may be long |
| Replica locks `app/scheduler/locks.py` | session advisory locks in PostgreSQL | `acquire` (take or skip, release) | a pooled connection keeps its locks; a dying connection drops them silently |
| Refresh status `app/ingest/status.py` | a dict per process; table `source_status` | `is_due`, `record_success`, `record_failure` | two copies of one fact, a best-effort write between them, restarts |
| Ingest `app/ingest/service.py` | none | `due_sources`, `refresh_source`, `prune` | isolation of one source's failure from the others |
| Item store `app/ingest/store.py` | `feed_items`, `feed_item_topics` | `upsert_items`, `insert_rule_links`, `record_discovered_icon`, `prune_feed_items` | no lock against the CLI or the users; links with two owners |
| Fetching `app/ingest/fetch.py`, `urlguard.py` | last request per host | `fetch` | one deadline over redirects, name resolution, waiting and reading |
| Parsing `parse.py`, `kev.py`, `normalise.py`, `topicrules.py`, `language.py` | none | pure functions of text | text |
| Sign-in `app/auth/{state,flow,sessions,ratelimit}.py`, `api/v1/auth.py` | outstanding states, sessions, failure budget | start, callback, logout, sweep | single use, rotation, budgets checked before they are spent |
| API tokens `app/auth/{api_tokens,bearer}.py`, `api/v1/{tokens,me}.py` | token rows | create, present, revoke, delete account | a request resolves its identity in two database sessions |
| Bookmarks, read marks `app/services/{bookmarks,read_state}.py` | join tables | create, remove, list, mark | retention deletes items meanwhile |
| Preferences `app/services/preferences.py` | profile and selections | first profile, patch | two requests of one user |
| Feed pages `app/services/{feed,pagination}.py` | none | `list_feed` with a cursor | items come and go between pages |
| Operator CLI `app/cli/operations.py` | none of its own | enable/disable, set-topics, `retag`, `detect-languages`, `seed` | a second process without the scheduler's locks |
| Public snapshot `app/services/public_snapshot.py` | files | `write_atomic` | crashes |
| Health `app/main.py`, `app/health.py` | one worker and its last result | `BoundedCheck` | callers that give up while the worker goes on |
| Web client `frontend/src` | the pages loaded so far | `usePagedResource` | late answers of a superseded filter |
| Deployment, migrations, CI | | | not modelled: no state machine of their own |

How they interact. The scheduler's only thread calls the ingest service; that
asks the status registry (its own memory, then the table) which sources are due.
For each one the scheduler takes a lock on a connection of its own, the ingest
service fetches and stores on other connections, and the registry records the
outcome in memory, then in the table. Replicas meet only in the database: the
locks, `source_status`, the items. The CLI and the users' requests write the
same tables and take no locks.

## What is modelled now

The parts below share no variables. They are separate because the code couples
them only through the steps each part already has: to `SourceRefresh` a refresh
is a success or a failure, to `ItemTopics` it is a transaction, to `FeedFetch` it
is one fetch, to `FeedEntries` it is a document.

| Module | Stands for |
|---|---|
| `RefreshSchedule`, `SourceRefresh` | scheduler, locks, status registry, ingest control |
| `SourceMutex`, `RefreshLedger` | abstract specifications of these |
| `FeedFetch` | one fetch of a source: `fetch.py`, `urlguard.py` |
| `FeedEntries`, `KevText` | from a document to the items of a batch; the facts inside a KEV item's text |
| `ItemTopics` | `upsert_items`, `retag_items`, `prune_feed_items` on items and links |
| `SavedItems` | bookmarks, read marks, `prune_feed_items` |
| `SlidingWindow`, `SignIn` | the rate limiter; sign-in from start to session |
| `Accounts` | sessions, API tokens, requests, account deletion, the session sweep |
| `Preferences`, `UrlMutes` | first profile and patches; pasted links as muted terms |
| `FeedPages` | `list_feed` and `list_bookmarks` over a changing library |
| `PagedResource` | the client's `usePagedResource` |
| `Catalogue` | the operator's `seed`, `add-*`, `enable`, `disable`, `set-topics` |
| `Snapshots` | `export-public` and `write_atomic` |
| `Readiness` | `GET /healthz` and `BoundedCheck` |
| `SourceRefresh_proofs`, `ItemTopics_proofs`, `SignIn_proofs`, `Accounts_proofs` | the theorems about these |
| `Reader_proofs` | the theorems about `SavedItems` and `UrlMutes` |
| `Transactions_proofs` | the theorems about `Preferences` and `Catalogue` |
| `Services_proofs` | the theorems about `FeedFetch`, `Readiness`, `Snapshots` and `KevText` |
| `Lists_proofs` | the theorems about `FeedPages`, `PagedResource` and `FeedEntries` |
| `MC*` | values for TLC |

### The refresh

| Module | Stands for |
|---|---|
| `RefreshSchedule` | the arithmetic of `status.py`: `_interval`, `_backoff`, the reading of a row by a process that remembers nothing, the upsert |
| `SourceRefresh` | the replicas: one action per step of `tick` and of what it calls |
| `SourceMutex` | abstract: at most one replica refreshes a source |
| `RefreshLedger` | abstract: `source_status` as one process that never forgets would write it |
| `SourceRefresh_proofs` | the theorems |
| `MCSourceRefresh` | values of `refresh_minutes` for TLC |

**State.** `locks` is what the PostgreSQL server holds; `table` is
`source_status`; `memory[r]` is `_statuses` of replica `r`; `moment[r]` is the
tick's `now`; `candidates[r]` and `due[r]` are the parts of the due list still to
be asked about and to be walked; `current[r]` is the source being refreshed;
`phase[r]` is where the scheduler thread is. APScheduler runs the tick with
`max_instances=1`, so one program counter per replica is exact. A row that
`record_discovered_icon` inserts ahead of the first outcome has a null
`last_fetched_at` and reads like no row, so it is not in `table`.

**Actions.** `BeginTick` reads the clock and the enabled sources (one query).
`Ask`/`AskBlind` is one `is_due` call, with the row readable or not. `TakeLock`
and `SkipLocked` are the two answers of `pg_try_advisory_lock`. `Fetch` succeeds
or fails. `Record`/`RecordBlind` is `record_success` or `record_failure` up to
the update of the dict; `Persist`/`PersistLost` is the write-through.
`Unlock`/`UnlockRaises` is the `finally` of `_acquire`, on a live and on a dead
connection. `AbortTick` is any database error outside `refresh_source`, which the
broad `except` of `tick` turns into the end of the tick. `DropConnection`,
`Restart` and `Advance` are the environment; `SetEnabled` is the operator.
Between any two of these steps everybody else may act.

**Atomicity.** A step is atomic when it is one SQL statement or touches one
process's memory only. The dict's own lock is held for a single read or write,
and only the scheduler's thread writes, so reading it and reading the row are
one step of `Ask` and of `Record`.

**Left out.** What is fetched and stored, error texts, item counts, the icon,
`SingleProcessLock`, `refresh_all` and `forget` (nothing in the application
calls them), the prune job, readiness. A source's `refresh_minutes` is a
constant: no operation changes it. Lock keys do not collide.

### The database as the modules see it

Production runs on PostgreSQL at READ COMMITTED, and the modules are about that:
`ItemTopics` and `SavedItems`, and in the same way `Preferences` and `Catalogue`.
A step is one SQL statement; it sees what is committed when it starts and what
its own transaction has written. A writer's uncommitted rows are `pending`.

- A statement that meets a row written and not committed by somebody else waits
  (`Free`, `Waits`, `Locked`). `INSERT ... ON CONFLICT` waits in the same way and
  then finds the row or does not. Its rows are locked together; PostgreSQL locks
  them one after the other, which can only make a wait longer.
- An `UPDATE` or `DELETE` that waited looks at its own condition on that row again
  if the row has *changed* (`RulesOwn`), and passes over it if it was deleted, also when
  an equal row has been inserted since. A row that has merely been locked is not
  looked at again; a new bookmark only locks the row of its item.
- An inserted row locks the key of the row it references, so that cannot be
  deleted until the insert commits; if it is gone already, the statement is
  refused and its transaction rolled back (`Refused`). `ON DELETE CASCADE` is part
  of the delete.
- Writers that wait in a circle lose one of their number (`DeadlockVictim`); any
  transaction may be lost to a crash.

SQLite, which development uses, has one writer at a time: its behaviours are
those in which a transaction runs without anybody else between its writes.

### Topics of items

`links` is `feed_item_topics`, a function from pairs to their `origin`. Each
source has a writer, the refresh in progress (the scheduler's lock allows one per
source), and the operator has one, the re-tag. `StartRefresh` reads the source's
topics, which `set-topics` may change between any two ticks; `LookUp` is the
advisory query for known URLs; `StoreItems` the insert of new items and the
read-back of ids; `LinkSource` and `LinkRules` the two statements for links.
`StartRetag` reads the links, `Scan` the items, `DeleteLinks` and `InsertLinks`
write. `Prune` is the whole retention job. An item is known by its URL; a pruned
item is too old to come back, which `normalise_entries` ensures for entries with a
date (one without is dated on arrival and does come back, as a new item). The
ruleset is a constant: it changes with a release. `--dry-run` writes nothing.
A refresh and a re-tag touch each link by itself and nothing in either relates two
items, so one item with three topics shows everything; the chunks of a re-tag are
one statement here.

### Saved items

`savedRows` holds the rows of `bookmarks` and `user_read_items` with their dates. A
save is looked up and dated (`StartSave`), inserted or ignored (`InsertSave`), read
back (`ReadBack`) and committed (`CommitSave`). A bookmark whose item is pruned
after the look-up (`SaveRefused`), or that another request removes before the
read-back (`ReadBackFails`), is answered with an error 500; a mark in the second
case is answered without its date. Retention is two steps: the DELETE takes its
snapshot (`StartPrune`), then reaches the rows and commits (`EndPrune`). `late` is
an auxiliary variable: bookmarks committed between the two.

### Fetching, parsing, KEV texts

`FeedFetch` is one fetch after another by one process. `CheckTarget` is
`check_static` and, on the first hop only, the membership in the feed URLs;
`Resolve` is the lookup with the check of *every* address; `WaitTurn` reserves the
host's next moment in `slots` and sleeps; `Send` connects to the address that was
checked. Every answer, failure, length and delay of DNS and of the servers is
open. Which links, hosts and addresses are acceptable are sets: the arithmetic of
IP ranges is data. `slots` holds reserved turns, and they are what is spaced: a
sleep that overruns its turn does not move the next one, so two *requests* can be
closer than the interval.

`FeedEntries` is pure: a document in, a batch out, for both formats. The sort of the
catalogue's entries is the one order that puts newer ones first and keeps the
document's among those of a day. `KevText` follows one text through `_summary`,
`_truncate` and `parse_kev_item`; a text is a sequence of lexemes that have a width.
Markup is two of them: `<` stands for whatever opens some (a tag, a comment, an
element whose content goes too, spelled out or with entities, and with the letter that
makes it one), `>` for whatever closes it. A less-than sign that opens nothing is a
word, and so is any other entity. `Unmarked` drops what is between the two, with the
rest of the text where nothing closes it, which is what `nh3.clean`, `html.unescape`
and the sweep do together; that the sweep leaves a space where the others leave
nothing is not told apart. Two kinds of description are excepted by `KevFactsSurvive`.
One that ends, before or after its markup is dropped, in the sentence of a fact the
entry does not have is read as stating it (`Unambiguous`). And one that leaves markup
open in front of the facts, as written or as `_summary` has cut it, loses them
(`LeavesOpen`). The second is a defect when the catalogue's own description was well
formed, and `kev_markup_cut` shows it.

### Sign-in, accounts

In `SignIn` each callback runs on a thread of its own, one of `Calls`: budget check,
redemption of the state, the answer of GitHub, the commit of the session, the response
that sets the cookie. A callback that GitHub declined, or that lacks a code or a state,
takes a thread too, and its check of the budget (`ArriveDeclined`) and its failure
(`CallbackDeclined`) are two steps, since they are two critical sections of the limiter.
Other callbacks, starts, sign-outs, the clock and a restart (which
forgets states and budgets and may change the allow-list) fall between any two.
`SlidingWindow` is the limiter's table with pruning and eviction. The moments that the
store and the limiter work with are read just before their locks are taken
(`state.py:50`); here both are one step, so a moment is never older than its critical
section.

`Accounts` follows a request through the middleware, the dependencies and the
handler. These are separate transactions, so the account can be deleted, the
credential revoked and the session swept in between. `DeleteAccount` and its
cascades, token creation and revocation, logout and `sessions prune` are actions.
Deleted rows stay in the table as "not here", so that a property can speak about
them. Who presents what (cookie, bearer token, CSRF token of this or another
session) is open. Rows other than credentials are one bit per account.

### Preferences, catalogue, muted links

`Preferences` is one account whose requests run statement by statement: a first
sign-in creates the profile and seeds it, a patch replaces lists. A list is replaced
by a DELETE and an INSERT, and two transactions may do so to one list at once:
`targets` are the *versions* of rows that a running DELETE has seen, and a commit
takes from it those that it deleted itself. A row the other has written again in the
same place is another version, which the DELETE neither waits for nor sees.
`Catalogue` is the same for the operator's commands, with a seed that runs at each
start of the deployment. In both, `came` and `went` record what others committed while
a transaction was open (`came` since its DELETE of that list began), since that is all
the code promises: two patches of one list at once may leave their union, and a seed
that races an `add-source` of the same slug fails as a whole on the unique key.

`UrlMutes` reduces a pasted link to a term, stores it, and reduces it again at each
later save of the list, as the code does. A text is a sequence of lexemes, so that
`www.`, ports, paths and capitals are told apart without characters. `://` behind a
scheme is one lexeme with it, and only there: a text in whose middle somebody wrote
`https://` has a label, a colon and two slashes there. That is how `_SCHEME` reads it,
and `MutesAssumption` says it of what may be pasted.

### Pages of a feed, on both sides

`FeedPages` is a reader who pages while items arrive and are pruned, while marks,
bookmarks, preferences and the catalogue change. Selections, word mutes and the
page itself are separate statements (`AskSources`, `AskMutes`, `AskTopics`,
`SelectPage`), and the cursor is the position of the last row shown. How an engine
matches words is a set of terms per item. Ids come from a sequence of PostgreSQL, which
gives none twice, not even that of a pruned item: `taken` is what it has given.

`PagedResource` is the hook in the browser: state updates apply in order, a render
happens whenever React likes, effects run after it, handlers see the state of the
last render, and answers come in any order or fail.

### Snapshot files, readiness

`Snapshots` has any number of exports at once. A name's history is the sequence of
contents it was given; `durable` says how much of that the disk's directory has. A
power loss takes replacements that were not flushed, and content that was not
flushed is torn. `Readiness` has callers that share one worker, one event and one
result; each waits until its timeout, whatever the database does. If the worker
thread cannot be started at all, `_running` stays true; that failure of the
interpreter is not modelled.

## Properties and runs

| Run | Instance | Checks |
|---|---|---|
| `refresh_faults` | 2 replicas, 1 source, every fault, 2 faults, clock to 3 | `TypeOK`, `NoLeakedLock`, `OverlapOnlyAfterDrop`, `SelfPaced` |
| `refresh_fair` | 2 replicas, 1 source, no dropped connection, 2 faults, clock to 2, fairness | `MutualExclusion`, `MutexSpec`, `DueIsServed` |
| `refresh_ledger` | 1 replica, 2 sources, restart/abort/drop, 1 fault, clock to 4 | `LedgerSpec` |
| `refresh_two_schedules` | 2 replicas, 1 source, no fault | `HonestSchedule` is **violated** |
| `refresh_daily` | 1 replica, 1 source of 24 h, no fault | `BackoffNeverShorter` is **violated** |
| `item_topics` | 2 sources with crossed topics, a re-tag, retention; 1 item, 3 topics, any links at the start | `TypeOK`, `NoOrphanLinks`, `OperatorLinksStay`, `RefreshLinksItsItems`, `RetagBringsIntoLine` |
| `saved_items_lost` | 1 request, 1 user, 1 item | `BookmarksOutliveRetention` is **violated** |
| `sign_in` | 2 browsers of one address, 2 people, 2 callbacks at once, 2 states, 2 sessions, 2 moments | `TypeOK`, `RedeemedOnceByItsBrowser`, `DroppedOnlyAtCapacity`, `OverrunBounded`, `NoSessionLeftBehind`, `NewSessionsAreInvited` |
| `accounts` | 2 accounts, 1 request at a time, 2 sessions, 1 token of either scope, 2 moments, a sweep | `TypeOK`, `DeletedLeavesNothing`, `EffectsAreEntitled`, `DeadCredentialsDoNothing`, `SweepSpares` |
| `side_by_side` | eleven components, one after the other (below) | `TypeOK`, `RowsNameItems`, `DatesStay`, `TimelyBookmarksStay`, `PatchReplacesItsLists`, `SeededExactlyOnce`, `CommandsTouchOnlyTheirOwn`, `ListingsAreWhole`, `MutesWhatWasMeant`, `RequestsStayGuarded`, `EntriesCostOnlyThemselves`, `KevFactsSurvive`, `AnswersAreFresh`, `SnapshotsAreWhole`, `ListIsOfOneListing` |
| `muted_url_resaved` | the texts of `MCUrlMutes` | `StoredTermsAreStable` is **violated** |
| `kev_markup_cut` | the descriptions of `MCKevText` | `FactsReachTheReader` is **violated** |

What they show:

- **No lock leaks** (`NoLeakedLock`). The pool would hand a leaked lock on to
  some other request; the `finally` prevents that on every path.
- **Overlap needs a dropped connection** (`OverlapOnlyAfterDrop`). README.md says
  replicas never fetch a source concurrently. That holds as long as the lock's
  connection lives (`MutualExclusion`, and as a refinement `MutexSpec`). When it
  dies during a fetch the thread is not told, and another replica may start; the
  invariant says that this is the only way.
- **Own pace** (`SelfPaced`). The due list is stale when it is used, and still no
  process starts a refresh that its own last outcome postpones.
- **Service** (`DueIsServed`). Nothing is queued: a skipped lock, an aborted tick
  or a lost connection simply drops the rest of the list. A due source is
  nevertheless refreshed, or disabled, in the end.
- **The ledger** (`LedgerSpec`). For one process, each entry of `source_status` is
  an attempt that the previous entry allowed; failures add up over restarts, and
  a failure keeps the last success. The step into which a crash falls between
  memory and table loses the attempt, never an earlier entry.

- **Links have owners** (`OperatorLinksStay`). A re-tag decides from a table it
  read long before it writes; a refresh may take over a link in between. The
  origin in the DELETE's own condition is what saves the operator's link.
- **Refreshes and re-tags compose** (`RefreshLinksItsItems`,
  `RetagBringsIntoLine`). What each promises of the links it leaves holds at its
  commit even when the other, another source's refresh or retention has written
  in between, and a table that is in line with the rules stays so.
- **Rows keep their items** (`NoOrphanLinks`, `RowsNameItems`), from ids read in
  earlier statements, and for saves also while they are uncommitted.
- **A second click is not a new save** (`DatesStay`), also when both are under way.
- **Retention and bookmarks** (`TimelyBookmarksStay`): a bookmark committed before
  the DELETE starts is safe, whatever else happens.

- **A sign-in is redeemed once** (`RedeemedOnceByItsBrowser`), by the browser it was
  started in and before it expires; it is lost only to newer ones at capacity
  or to a restart (`DroppedOnlyAtCapacity`).
- **The failure budget overruns by what is in flight** (`OverrunBounded`) and no
  more: by fewer callbacks than there are threads, although it is read before GitHub
  is asked and spent after, and declined callbacks read and spend it too.
- **Rotation leaves no live session behind** (`NoSessionLeftBehind`), for a browser
  whose callbacks are handled one at a time. Two at once leave one session that
  no cookie jar holds, until it expires.
- **Requests do only what they are entitled to** (`EffectsAreEntitled`), judged by
  what was sent: a session with its own CSRF token, or no session and a full
  token. A dead credential does nothing (`DeadCredentialsDoNothing`), and a deleted
  account leaves nothing (`DeletedLeavesNothing`) although requests that were
  admitted before the deletion are still running.
- **The sweep spares** (`SweepSpares`) what is live and what was revoked recently.
- **Seeding happens once** (`SeededExactlyOnce`); **a patch replaces the lists it
  names** and no others, but for what others write meanwhile (`PatchReplacesItsLists`);
  **commands keep to their own rows**
  (`CommandsTouchOnlyTheirOwn`).
- **Pages are whole** (`ListingsAreWhole`): in order, nothing twice, and nothing
  skipped that was there all along. On the client the list is of one listing
  (`ListIsOfOneListing`), whatever answers arrive late.
- **A muted link mutes what was meant** (`MutesWhatWasMeant`).
- **Requests stay guarded** (`RequestsStayGuarded`) on every hop.
- **One bad entry costs only itself** (`EntriesCostOnlyThemselves`), and the facts of
  a KEV entry survive three truncations and the removal of markup
  (`KevFactsSurvive`), unless the first cut leaves markup open.
- **A published name is whole** (`SnapshotsAreWhole`); **a readiness answer is
  fresh** (`AnswersAreFresh`).

Five disagreements with the documentation:

- `refresh_two_schedules`: `status.py:13` says the table keeps the schedule honest
  across a second replica. Neither the list, decided once per tick, nor the
  memory, asked before the table, looks at the row again, so both replicas
  refresh the source, one after the other, in the same minute. ROADMAP.md lists
  the aggregate frequency as a known limit of several replicas.
- `refresh_daily`: `_backoff` caps the whole delay at six hours, so a source
  polled once a day is polled four times as often while it fails.
- `saved_items_lost`: `store.py:334` exempts a bookmarked item from retention
  outright. A bookmark that commits after the daily DELETE took its snapshot and
  before it reached the item has been answered with success and is deleted with
  its item. Locking the candidates first and asking for bookmarks in a second
  statement would close the gap.

- `muted_url_resaved`: "a stored term must reduce to itself" (`preferences.py:279`). A
  pasted `www.tld` is stored as `tld`, which the next save of the list refuses (a
  host needs a dot), so that every later patch of the list that still carries the
  term is a 422.
- `kev_markup_cut`: `_summary` shortens the description so that the facts behind it are
  not cut off (`kev.py:156`). It cuts before the normaliser removes markup, so a cut
  inside a tag leaves the tag open, and the normaliser takes the facts for its content.
  Shortening the plain text would close the gap.

Two more have no run. A patch carries the whole list (`preferences.py:346`,
"Replace-the-whole-list" at `schemas/me.py:95`), and yet two patches of one list that
run at once, both answered with success, can leave rows of both: {a, b} patched to {b}
and to {c} ends as {b, c}. Neither takes a lock on the account unless it changes a
scalar of the profile; a lock on the profile's row before the first DELETE would close
the gap. `PatchReplacesItsLists` leaves room for exactly that (`came`). And the
docstring of the session sweep says that the grace window "never keeps a row longer
than leaving it alone would have" (`sessions.py:123`). A session revoked less than
seven days before it expires is kept beyond that, as the docstring's next paragraph
and the query have it; so does the model.

**Side by side.** `MCSideBySide` puts eleven modules into one run. They share no
variable and no action. `part` is chosen at the start, the component it names moves,
the others keep their initial state, so a behaviour of the run is a behaviour of
one component's own specification and its states are the sum of theirs.

**Bounds.** One unit of time is an hour, and `BackoffCap` is 6 of them.
`MaxClock` bounds time and `MaxFaults` the faults of one behaviour; nothing else
is bounded. Two replicas are enough for every pairwise property, and the lock of
one source never depends on another source; two sources are needed for the list
to go stale, which `refresh_ledger` has. Clock 3 lets a success expire and be
repeated while an older tick is still under way; clock 4 lets the failures of a
source pass from the first delay to the second (1, then 2) across a restart. The
steps of the back-off beyond that, up to 16 and the cap, are covered by the
theorems. `item_topics` has no bound but one: an item does not pass the retention
cutoff in the instant between a refresh's look-up and its insert (`Age`). Two
sources are needed for two refreshes of one item and for a circle of waiting; the
topics {t1} and {t2, t3} against the rules {t1, t2} give a pair of each kind: both
owners', one owner's, crossed. In `side_by_side`, saved items have two
requests, two users and two items, and `MaxDate` bounds the saves: two to race and one
after them.

**Fairness.** `FairSpec` asks weak fairness of `Step(r)` for each replica: the
scheduler's thread keeps moving. APScheduler calls `tick` every minute,
`tick` catches everything, a fetch has a deadline, and the statements are
single-row. No fairness is asked of the operator, the clock or the faults. That
a fault may not happen for ever is the bound `MaxFaults`: a database that refuses
every statement starves every source, and the code does not claim otherwise.
In the same way a clock that stops at `MaxClock` hides one schedule: two replicas
whose ticks meet on the source for ever. The other replica refreshes it then, but
the property asks that for each process's own view.

In `sign_in` one address carries both browsers, so that they compete for one budget;
capacity is one state, so the second start pushes out the first; expiry, window and
sweep are all reached with two moments. The eviction of keys from a full limiter is
not exercised there, since there is one key. `accounts` has one request at a time;
everything it races (deletion, revocation, sweep, new settings) is an action of its
own, and a second request is one of these as far as the first can tell. In
`side_by_side`: two transactions at once for preferences and for the catalogue, each
list and command being touched by both; three items on two days with pages of one row
and two changes anywhere between the steps, enough for an item to move across the
cursor and back; three hops for a fetch with names, an address literal and one link
outside the rules; documents of up to four entries, four being too many to be read,
where two are kept; KEV descriptions of all three pieces out of nine, two of them
markup, against a room of fourteen; three callers and three checks for the probe; two
exports of two files and two replacements; seven changes, reloads or requests in the
client, which is two full filters and a late answer.

The other modules state no fairness and check no liveness: which of two
waiting transactions goes next is PostgreSQL's queue, what a server or a reader does
next is theirs, and a writer can be passed over for ever only by others that crash
or commit for ever.

## What is proved

The theorems about the refresh are in `SourceRefresh_proofs`, for every finite or
infinite set of replicas and sources, every `refresh_minutes >= 1`, every cap,
every set of fault kinds and every bound. They assume `RefreshScheduleAssumption`
and `SourceRefreshAssumption`.

| Theorem | States | Extra assumption |
|---|---|---|
| `TypeCorrect` | `[](TypeOK /\ WorkInv)` | |
| `LocksAreReleased` | `[]NoLeakedLock` | |
| `OverlapNeedsDrop` | `[]OverlapOnlyAfterDrop` | |
| `Exclusion` | `[]MutualExclusion` | no dropped connections |
| `ImplementsMutex` | `Spec => MutexSpec` | no dropped connections |
| `OwnPace` | `Spec => SelfPaced` | |
| `ImplementsLedger` | `Spec => LedgerSpec` | one process; the status can be read and written |

The argument:

1. `WorkInv` relates the program counter, the source in hand and the lists of a
   replica: a source is in hand exactly in the phases of a refresh. Without it
   nothing about `current` is inductive, because `Unlock` empties it in one phase
   and `TakeLock` fills it in another. `TypeInv` is `TypeOK /\ WorkInv`.
2. `LockInv` says that a lock belongs to the refresh in progress and that a
   source has one holder at most. Only five actions touch locks or `current`
   (`LockSteps`). `NoLeakedLock` is a part of it. `OverlapOnlyAfterDrop` follows,
   since two replicas that both hold the lock of one source would be two holders.
3. Where no connection drops, every replica holds the lock of what it refreshes
   (`HoldsStep`). With 2 that is exclusion; for the refinement, taking and
   releasing map to `Start` and `Stop` of `SourceMutex` and the rest stutters.
4. `PacedInv` says that what stands on a due list is due for its own process too.
   It is inductive because only `Record` moves `memory[r]`, at a time when the
   source has left the list (`WalkInv`).
5. `LedgerInv` says that the memory agrees with the table, except for the one
   outcome between `Record` and `Persist`, which is then the ledger's next entry.
   It needs `due[r]` and the source in hand to be due by the *table*, and that is
   where a second process would break it.

The theorems about saved items are in `Reader_proofs`, for every set of items,
users and requests and every number of saves, from `SavedItemsAssumption`.

| Theorem | States |
|---|---|
| `Reachable` | `[]Inv`: the types, and the three parts below |
| `SavedItemsTyped` | `[]TypeOK` |
| `RowsKeepItems` | `[]RowsNameItems` |
| `DatesAreKept` | `Spec => DatesStay` |
| `TimelyBookmarksAreKept` | `Spec => TimelyBookmarksStay` |

`RowsNameItems` is inductive only because it speaks of uncommitted rows too: a
commit turns one into a row, and retention waits for it (`EndPruneKeeps`).
`PendingInv` says that an uncommitted row is new and one request's only; without
it a commit could overwrite a date. `DoomedInv` says that what retention is about
to delete carries only late bookmarks; `StartPrune` establishes it, `CommitSave`
keeps it by counting the bookmark among the late ones.

The theorems about topics are in `ItemTopics_proofs`, for every set of items, topics
and sources, every ruleset and configuration, from `ItemTopicsAssumption`.

| Theorem | States |
|---|---|
| `TopicsTyped` | `[]TypeOK` |
| `LinksKeepItems` | `[]NoOrphanLinks` |
| `OperatorKeepsLinks` | `Spec => OperatorLinksStay` |
| `RefreshLinks` | `Spec => RefreshLinksItsItems` |
| `RetagBrings` | `Spec => RetagBringsIntoLine` |

`WriteInv` says that a pair with an uncommitted write has one writer, and that a
write which is not the operator's leaves an operator's row alone: that is
`OperatorLinksStay` at the next commit. `AgeInv` says that an item being stored is not
old, hence that what was pruned stays away. That is what makes a link which the
re-tag read "there, or gone for good" (`SeenInv`), and a deletion of a link which the
rules ask for harmless. `RefreshInv` and `RetagInv` say what each transaction has
established by which statement; `EndKeeps` states once what a transaction that ends
may do to the others' parts, and the two commits and all rollbacks are instances.

| Module | Theorem | States |
|---|---|---|
| `SignIn_proofs` | `StateRedeemedOnce` | `[]RedeemedOnceByItsBrowser` |
| | `StateDroppedAtCapacity` | `[]DroppedOnlyAtCapacity` |
| | `RotationRevokes` | `[]NoSessionLeftBehind` |
| | `SessionsAreForTheInvited` | `Spec => NewSessionsAreInvited` |
| | `SignInTypes` | `[]TypeOK` |
| | `OverrunIsBounded` | `[]OverrunBounded` |
| `Accounts_proofs` | `AccountsTyped` | `[]TypeOK` |
| | `NothingOutlivesItsAccount` | `[]DeletedLeavesNothing` |
| | `RequestsAreEntitled` | `Spec => EffectsAreEntitled` |
| | `TheDeadDoNothing` | `Spec => DeadCredentialsDoNothing` |
| | `SweepRemovesTheDead` | `Spec => SweepSpares` |
| `Services_proofs` | `RequestsAreGuarded` | `FetchSpec => []RequestsStayGuarded` |
| | `PublishedIsWhole` | `SnapSpec => []SnapshotsAreWhole` |
| | `ProbeAnswersFresh` | `ProbeSpec => []AnswersAreFresh` |
| | `KevFactsKept` | `KevSpec => []KevFactsSurvive` |
| `Transactions_proofs` | `PatchesReplace` | `PrefSpec => PatchReplacesItsLists` |
| | `SeedingHappensOnce` | `PrefSpec => SeededExactlyOnce` |
| | `CommandsKeepToTheirOwn` | `CatSpec => CommandsTouchOnlyTheirOwn` |
| `Lists_proofs` | `ListingsStayWhole` | `FeedSpec => []ListingsAreWhole` |
| | `ListStaysOfOneListing` | `PagedSpec => []ListIsOfOneListing` |
| | `EntriesCostOnly` | `EntriesSpec => []EntriesCostOnlyThemselves` |
| `Reader_proofs` | `MutesAsMeant` | `MuteSpec => []MutesWhatWasMeant` |

Each assumes the `ASSUME` of its module and nothing else.

- *Sign-in.* `IssuedInv` orders the states and relates those outstanding to those
  issued, `CallInv` says what a callback has in hand in each phase, `RedeemedInv` that a
  redeemed state is no longer outstanding, `DroppedInv` what a missing one implies.
  `SessionInv` adds the rotation: `OneAtATime` ties the session in a browser's
  cookie to the one its only callback is going to revoke. `BoundsInv` is what the types
  need beyond these, above all that `issue` makes room before the new state comes in.
- *The failure budget.* `OverrunBounded` counts over a table that prunes itself.
  `OverrunInv` makes it inductive: while an address's budget is spent, what it went over
  and its callbacks in flight, declined ones included, are together fewer than the
  threads there are: the one that spent it was in flight itself. `DeclinedInv` says that
  a thread handles one callback, of either kind. A
  failure recorded then takes a callback out of flight, and a callback that arrives then
  is turned away by the check; an address whose budget is not spent owes nothing.
  `Recent` and `Popped` are shown to be a filter that a later moment only makes smaller.
- *Accounts.* `RequestInv` keeps, for each phase of a request, what the phases before it
  have established: `Passed` is what the middleware and the dependencies have let
  through, `Known` that what it has in hand was a row. Ids are never given twice, so a
  row that is gone stays gone, which is why a stale look-up can do no harm. `SweepInv`
  dates the sweep's moment.
- *Fetch.* `HopInv` carries a hop's checks to its `Send`: the link is supported from
  `CheckTarget` on, the address is public from the lookup on, and the host's slot is the
  turn that was reserved. `SentInv` keeps the turns of a host below its slot, which is
  why the next one is the interval later.
- *Snapshots.* `FilesInv` says that whatever a name was given had been flushed by then,
  so that a power loss tears nothing; `ExportInv` says how far each export is.
- *Readiness.* `ProbeInv` ties the flag, the event and the worker together (`OneCheck`)
  and says that a caller who finds the event set came before the end of a check
  (`EndedSince`), which is the check the result is of.
- *KEV texts.* `KevInv` ties the summary to the entry catalogued and the exported fields
  to the summary; the rest is about the text, which is cut twice and read back from its
  end. Removing markup (`MarkupGoes`, `UnmarkedIs`) takes letters or lexemes and
  nothing of what stands behind a closed piece (`UnmarkedCut`, `LastStays`), so what
  `_summary` appended is still at the end (`Plain`, `StoredIs`). Plain text has no
  space at its beginning nor behind another (`Tidy`), grows with
  the text it is made of (`SqueezedIs`) and is not changed a second time (`TidyStays`). A
  cut leaves a beginning, or that and letters of a sentence that was cut through, and is
  no wider than what was cut (`CutToIs`, `CutShows`). So the sentence made of the
  description says what was stated (`SentenceIs`, `Said`), there is room for the facts
  behind it (`RoomIs`, `StoredIs`), the reader finds these and no others (`FieldsAre`,
  where `Unambiguous` is needed), and cutting the description once more for kev.json
  leaves it a beginning (`CleanedSays`).
- *Preferences.* `PrefInv` is about the table and every open transaction: what it sees is
  the committed rows less what it deleted and with what it inserted (`View`); it deletes
  rows that are there and inserts rows that are not (`TxInv`); and no two have written
  the same row (`Apart`), which is what the row locks and the wait on a unique key are
  for. `PatchTx` says of each list done so far that it is what was asked but for `came`
  and `went`, and a commit of another transaction keeps that because it adds exactly its
  own rows to them; and while a DELETE runs, each row of its list that it is not after
  (`targets`) is in `came`. `SignInTx` says that while the key of a new account is held, nobody
  else has written anything, so the seed is written by one.
- *Catalogue.* `CatInv` is of the same shape. A seed is judged by where it is (`Stage`)
  with the `INSERT` it has decided on counted as done (`Coming`): each source it has come
  by is there, on its way, or was removed by somebody else (`Had`).
- *Pages.* `LibraryInv` says that the items are finitely many, of ids that were given,
  and that no bookmark is of the future. `ListingInv` splits a listing at its cursor:
  what was shown is in order and
  before it, and what belonged throughout is shown or still behind it. `InOrderIs` says
  of the page a `SELECT` takes that it is the first rows behind the cursor.
- *The client's list.* `PagedInv` has five parts. `RequestsInv` says that a request which
  is not aborted is of the key whose effects ran last; `EntriesInv`, `CoverInv` and
  `CursorInv` that the list, the pages in it and its cursor are of one key; `LoadingInv`
  ties the flag to the request it waits for.
- *Entries.* `DocumentInv` is `EntriesCostOnlyThemselves` with the shape of the document.
  `AfterEntries` says what the loop over the entries has made of the first `n`, and
  `OneMoreEntry` that one more keeps it. `LineExists` is what gives the catalogue's sort
  a meaning for documents of every length: finitely many entries have an order by date
  and position, and only one.
- *Mutes.* A text is cut at the first lexeme of a set, so there is one way to cut it
  (`OneCut`), and a text put together of parts is cut into these (`CutJoin`); small
  letters change neither (`LowerIs`, `LowerJoin`). So a stored link is a scheme, a host, a
  port, a path and a query (`Canonical`), a term is a host and at most a segment
  (`Makes`), and what `_url_muted` compares begins with the term exactly if the parts do
  (`TermMutesItself`, `TermMutesOnlyItself`). `TermStays` reduces a term again, and uses
  there that no term begins with `www.`; `MuteInv` carries that through the saves.

What the theorems assume of constants is what the code or its data give: bounds and
limits are numbers, at least one where the code needs it; callbacks at once are
finitely many; the values that stand for "none" are no ids; patches and the seed name
lists and topics there are; what is small has no small letter of its own;
a summary has room for both sentences of a KEV entry, and no sentence is one of the
lexemes the code itself writes (a space, a stop, a mark, a letter) or what opens or
closes markup.

Two remarks on the form. `RECURSIVE` operators and the library's induction theorems
cannot be used by the prover, so a loop is a recursive function and an induction is an
argument by the least counterexample (`Least`, from the well-foundedness of the
naturals). And where the code sorts or filters, the model says which sequence the
result is (`InOrder`, `Without`, `ParsedKev`, `Recent`), with a lemma that there is
one, because what the library's folds compute is beyond the prover.

Only model-checked: `DueIsServed`, which needs fairness. The five properties that the
code violates are no theorems.

## Plan

What the first plan listed is built, but for `detect-languages`. What is left, in this
order:

1. `detect-languages` beside the refresh, as transactions of `ItemTopics`' kind.
2. The hazards no property covers yet: outcomes dated by the start of a long tick, a
   tick longer than the readiness bound, topics read when the tick began, an undated
   entry that comes back as new after its item was pruned.

## Not modelled

- The scheduler's own readiness (`Scheduler.readiness`): a comparison of two times
  with a bound for which the code claims nothing one could refute.
- `sre-tab detect-languages`, `status` and the lists: the first rewrites a column
  nobody else writes after the insert, the others only read.
- Titles, summaries other than KEV's, images, languages, the topic rules, the matching
  of words: functions of text whose characters matter and whose order does not.
- Which items a snapshot lists: a query without state.
- Middleware order, logging, settings, cookie attributes: wiring.
- The web client beyond `usePagedResource`: components, styles, the session provider.
- Migrations, containers, CI: no state machine of their own.
- Network addresses bit by bit: `Public` is a set.

## Running

    tlc -config refresh_faults.cfg MCSourceRefresh
    tlc -config saved_items_lost.cfg SavedItems
    tlc -config side_by_side.cfg MCSideBySide
    tlc -config kev_markup_cut.cfg MCKevText
    tlapm SourceRefresh_proofs.tla
    tlapm ItemTopics_proofs.tla
    tlapm SignIn_proofs.tla
    tlapm Accounts_proofs.tla
    tlapm Reader_proofs.tla
    tlapm Transactions_proofs.tla
    tlapm Services_proofs.tla
    tlapm Lists_proofs.tla

Each configuration names its module in `PROJECT.json`, with the properties it
checks, a mutant of the code for each of them, the source lines behind each
definition, and the hazards the properties are for.
