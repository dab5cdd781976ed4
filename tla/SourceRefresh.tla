---------------------------- MODULE SourceRefresh ----------------------------
(***************************************************************************)
(* The feed refresh of app/scheduler and app/ingest: every replica runs a  *)
(* periodic tick that lists the due sources, and refreshes each one under  *)
(* a PostgreSQL advisory lock; outcomes are kept in the memory of the      *)
(* process and written through, best effort, to the table source_status.   *)
(*                                                                         *)
(* A replica has one scheduler thread (max_instances=1), so its local      *)
(* state is one program counter.  What the document held and how it is     *)
(* stored is not modelled here: a fetch succeeds or fails.                 *)
(***************************************************************************)
EXTENDS RefreshSchedule

CONSTANTS
  Replicas,     \* application processes sharing one database
  FaultKinds,   \* the faults of this instance, a subset of AllFaultKinds
  MaxClock,     \* bound: the last moment of the modelled time
  MaxFaults     \* bound: how many faults may happen in one behaviour

AllFaultKinds ==
  {"restart", "drop", "abort", "load", "persist"}

ASSUME SourceRefreshAssumption ==
  /\ FaultKinds \subseteq AllFaultKinds
  /\ MaxClock \in Nat
  /\ MaxFaults \in Nat

VARIABLES
  clock,        \* datetime.now(UTC)
  enabled,      \* sources whose row says enabled
  locks,        \* advisory locks the server holds: <<replica, source>>
  table,        \* source_status: row of each source that has one
  memory,       \* _statuses of each replica: a dict from source to status
  phase,        \* where the scheduler thread of each replica is
  moment,       \* the tick's "now", taken when it starts
  candidates,   \* enabled sources is_due has not been asked about yet
  due,          \* the rest of the due list the tick walks
  current,      \* the source being refreshed: a set of at most one source
  fetched,      \* did the last fetch succeed?
  faults        \* faults so far

tickVars == <<phase, moment, candidates, due, current, fetched>>
vars == <<clock, enabled, locks, table, memory, tickVars, faults>>

Phases ==
  {"idle", "ticking", "fetching", "recording", "persisting", "unlocking"}

Status == [attempt : Nat, success : Nat, failures : Nat, due : Nat]

TypeOK ==
  /\ clock \in Nat \ {0}
  /\ enabled \subseteq Sources
  /\ locks \subseteq Replicas \X Sources
  /\ DOMAIN table \subseteq Sources
  /\ table \in [DOMAIN table -> Row]
  /\ DOMAIN memory = Replicas
  /\ \A r \in Replicas : /\ DOMAIN memory[r] \subseteq Sources
                         /\ memory[r] \in [DOMAIN memory[r] -> Status]
  /\ phase \in [Replicas -> Phases]
  /\ moment \in [Replicas -> Nat]
  /\ candidates \in [Replicas -> SUBSET Sources]
  /\ due \in [Replicas -> SUBSET Sources]
  /\ current \in [Replicas -> SUBSET Sources]
  /\ fetched \in [Replicas -> BOOLEAN]
  /\ faults \in Nat

(***************************************************************************)
(* A process before its first tick.                                        *)
(***************************************************************************)
Init ==
  /\ clock = 1
  /\ enabled = Sources
  /\ locks = {}
  /\ table = Empty
  /\ memory = [r \in Replicas |-> Empty]
  /\ phase = [r \in Replicas |-> "idle"]
  /\ moment = [r \in Replicas |-> 0]
  /\ candidates = [r \in Replicas |-> {}]
  /\ due = [r \in Replicas |-> {}]
  /\ current = [r \in Replicas |-> {}]
  /\ fetched = [r \in Replicas |-> FALSE]
  /\ faults = 0

Fault(kind) ==
  /\ kind \in FaultKinds
  /\ faults < MaxFaults
  /\ faults' = faults + 1

-----------------------------------------------------------------------------
(***************************************************************************)
(* The tick: IngestService.due_sources, then one source after another.     *)
(***************************************************************************)
(* tick: the moment is read once; enabled_sources is one query. *)
BeginTick(r) ==
  /\ phase[r] = "idle"
  /\ phase' = [phase EXCEPT ![r] = "ticking"]
  /\ moment' = [moment EXCEPT ![r] = clock]
  /\ candidates' = [candidates EXCEPT ![r] = enabled]
  /\ UNCHANGED <<clock, enabled, locks, table, memory, due, current, fetched,
                 faults>>

(* mutant of IsDue: memory's due time is one unit too generous *)
IsDueEarly(r, s, now) ==
  IF s \in DOMAIN memory[r] THEN memory[r][s].due <= now + 1
  ELSE RowIsDue(table, s, now)

(* is_due: memory answers first, a source this process has not seen falls  *)
(* back to the row, a source without a row is due.                         *)
IsDue(r, s, now) ==
  IF s \in DOMAIN memory[r] THEN memory[r][s].due <= now
  ELSE RowIsDue(table, s, now)

(* One is_due call: each cold source is a database session of its own, so  *)
(* other replicas act between two of them.                                 *)
AskDue(r, s, answer) ==
  /\ phase[r] = "ticking"
  /\ s \in candidates[r]
  /\ candidates' = [candidates EXCEPT ![r] = @ \ {s}]
  /\ due' = [due EXCEPT ![r] = IF answer THEN @ \union {s} ELSE @]
  /\ UNCHANGED <<clock, enabled, locks, table, memory, phase, moment, current,
                 fetched>>

Ask(r, s) == AskDue(r, s, IsDue(r, s, moment[r])) /\ UNCHANGED faults

(* _load swallows a database error and answers None: the source is due. *)
AskBlind(r, s) ==
  /\ s \notin DOMAIN memory[r]
  /\ AskDue(r, s, TRUE)
  /\ Fault("load")

Walking(r) == phase[r] = "ticking" /\ candidates[r] = {}

(* mutant of Locked: the answer of pg_try_advisory_lock is ignored *)
NeverLocked(s) == FALSE

Locked(s) == \E q \in Replicas : <<q, s>> \in locks

(* pg_try_advisory_lock won: the source will be fetched. *)
TakeLock(r, s) ==
  /\ Walking(r)
  /\ s \in due[r]
  /\ ~Locked(s)
  /\ locks' = locks \union {<<r, s>>}
  /\ current' = [current EXCEPT ![r] = {s}]
  /\ due' = [due EXCEPT ![r] = @ \ {s}]
  /\ phase' = [phase EXCEPT ![r] = "fetching"]
  /\ UNCHANGED <<clock, enabled, table, memory, moment, candidates, fetched,
                 faults>>

(* ... or lost: source_refresh_skipped. *)
SkipLocked(r, s) ==
  /\ Walking(r)
  /\ s \in due[r]
  /\ Locked(s)
  /\ due' = [due EXCEPT ![r] = @ \ {s}]
  /\ UNCHANGED <<clock, enabled, locks, table, memory, phase, moment,
                 candidates, current, fetched, faults>>

EndTick(r) ==
  /\ Walking(r)
  /\ due[r] = {}
  /\ phase' = [phase EXCEPT ![r] = "idle"]
  /\ UNCHANGED <<clock, enabled, locks, table, memory, moment, candidates, due,
                 current, fetched, faults>>

(* A database error in enabled_sources or in the lock query ends the tick. *)
AbortTick(r) ==
  /\ phase[r] = "ticking"
  /\ phase' = [phase EXCEPT ![r] = "idle"]
  /\ candidates' = [candidates EXCEPT ![r] = {}]
  /\ due' = [due EXCEPT ![r] = {}]
  /\ UNCHANGED <<clock, enabled, locks, table, memory, moment, current, fetched>>
  /\ Fault("abort")

-----------------------------------------------------------------------------
(***************************************************************************)
(* refresh_source under the lock, and the outcome it records.              *)
(***************************************************************************)
Fetch(r, outcome) ==
  /\ phase[r] = "fetching"
  /\ fetched' = [fetched EXCEPT ![r] = outcome]
  /\ phase' = [phase EXCEPT ![r] = "recording"]
  /\ UNCHANGED <<clock, enabled, locks, table, memory, moment, candidates, due,
                 current, faults>>

(* mutant of Previous: a cold process counts from nothing *)
PreviousInMemory(r, s, seen) ==
  IF s \in DOMAIN memory[r]
  THEN [success |-> memory[r][s].success, failures |-> memory[r][s].failures]
  ELSE [success |-> Never, failures |-> 0]

(* What a failure builds on: the status in memory, else the row, else      *)
(* nothing.  seen is whether the row could be read.                        *)
Previous(r, s, seen) ==
  IF s \in DOMAIN memory[r]
  THEN [success |-> memory[r][s].success, failures |-> memory[r][s].failures]
  ELSE IF seen /\ s \in DOMAIN table
       THEN [success |-> table[s].success, failures |-> table[s].failures]
       ELSE [success |-> Never, failures |-> 0]

SuccessStatus(r, s) ==
  [attempt |-> moment[r], success |-> moment[r], failures |-> 0,
   due |-> moment[r] + Minutes[s]]

FailureStatus(r, s, seen) ==
  LET failures == Previous(r, s, seen).failures + 1
  IN  [attempt |-> moment[r],
       success |-> Previous(r, s, seen).success,
       failures |-> failures,
       due |-> moment[r] + BackoffDelay(Minutes[s], failures)]

(* record_success and record_failure up to the update of memory. *)
RecordStatus(r, seen) ==
  \E s \in current[r] :
    /\ phase[r] = "recording"
    /\ memory' =
         [memory EXCEPT ![r] =
            Put(memory[r], s, IF fetched[r] THEN SuccessStatus(r, s)
                              ELSE FailureStatus(r, s, seen))]
    /\ phase' = [phase EXCEPT ![r] = "persisting"]
    /\ UNCHANGED <<clock, enabled, locks, table, moment, candidates, due,
                   current, fetched>>

Record(r) == RecordStatus(r, TRUE) /\ UNCHANGED faults

RecordBlind(r) ==
  /\ ~fetched[r]
  /\ \A s \in current[r] : s \notin DOMAIN memory[r]
  /\ RecordStatus(r, FALSE)
  /\ Fault("load")

(* mutant of RowOf: the row is written with the columns of the status *)
RowOfAll(status) == status

RowOf(status) ==
  [fetched |-> status.attempt, success |-> status.success,
   failures |-> status.failures]

(* _persist: a blind upsert of the row, after the registry's lock is let go. *)
Persist(r) ==
  \E s \in current[r] :
    /\ phase[r] = "persisting"
    /\ table' = Put(table, s, RowOf(memory[r][s]))
    /\ phase' = [phase EXCEPT ![r] = "unlocking"]
    /\ UNCHANGED <<clock, enabled, locks, memory, moment, candidates, due,
                   current, fetched, faults>>

(* A database error there is logged and ignored. *)
PersistLost(r) ==
  /\ phase[r] = "persisting"
  /\ phase' = [phase EXCEPT ![r] = "unlocking"]
  /\ UNCHANGED <<clock, enabled, locks, table, memory, moment, candidates, due,
                 current, fetched>>
  /\ Fault("persist")

(* mutants of Released: the connection goes back to the pool with its      *)
(* lock; it takes every lock with it                                       *)
ReleasedNone(r) == locks
ReleasedAll(r) == {}

(* The locks left once the connection of a replica is rid of its own. *)
Released(r) == {l \in locks : l[1] # r}
Holds(r) == \A s \in current[r] : <<r, s>> \in locks

(* pg_advisory_unlock in the finally. *)
Unlock(r) ==
  /\ phase[r] = "unlocking"
  /\ Holds(r)
  /\ locks' = Released(r)
  /\ current' = [current EXCEPT ![r] = {}]
  /\ phase' = [phase EXCEPT ![r] = "ticking"]
  /\ UNCHANGED <<clock, enabled, table, memory, moment, candidates, due,
                 fetched, faults>>

(* On a dead connection the unlock raises, and the tick ends with it. *)
UnlockRaises(r) ==
  /\ phase[r] = "unlocking"
  /\ ~Holds(r)
  /\ current' = [current EXCEPT ![r] = {}]
  /\ due' = [due EXCEPT ![r] = {}]
  /\ phase' = [phase EXCEPT ![r] = "idle"]
  /\ UNCHANGED <<clock, enabled, locks, table, memory, moment, candidates,
                 fetched, faults>>

-----------------------------------------------------------------------------
(***************************************************************************)
(* The environment.                                                        *)
(***************************************************************************)
(* The lock's connection dies: the server frees the lock, nothing tells    *)
(* the thread before it unlocks.                                           *)
DropConnection(r) ==
  /\ current[r] # {}
  /\ Holds(r)
  /\ locks' = Released(r)
  /\ UNCHANGED <<clock, enabled, table, memory, tickVars>>
  /\ Fault("drop")

(* The process dies, at any point, and a new one takes its place. *)
Restart(r) ==
  /\ locks' = Released(r)
  /\ memory' = [memory EXCEPT ![r] = Empty]
  /\ phase' = [phase EXCEPT ![r] = "idle"]
  /\ candidates' = [candidates EXCEPT ![r] = {}]
  /\ due' = [due EXCEPT ![r] = {}]
  /\ current' = [current EXCEPT ![r] = {}]
  /\ UNCHANGED <<clock, enabled, table, moment, fetched>>
  /\ Fault("restart")

(* sre-tab source enable / disable *)
SetEnabled(s) ==
  /\ enabled' = IF s \in enabled THEN enabled \ {s} ELSE enabled \union {s}
  /\ UNCHANGED <<clock, locks, table, memory, tickVars, faults>>

Advance ==
  /\ clock < MaxClock
  /\ clock' = clock + 1
  /\ UNCHANGED <<enabled, locks, table, memory, tickVars, faults>>

-----------------------------------------------------------------------------
(* What the scheduler thread of a replica does when nothing goes wrong. *)
Step(r) ==
  \/ BeginTick(r)
  \/ \E s \in Sources : Ask(r, s) \/ TakeLock(r, s) \/ SkipLocked(r, s)
  \/ EndTick(r)
  \/ \E outcome \in BOOLEAN : Fetch(r, outcome)
  \/ Record(r)
  \/ Persist(r)
  \/ Unlock(r)
  \/ UnlockRaises(r)

Faulty(r) ==
  \/ \E s \in Sources : AskBlind(r, s)
  \/ AbortTick(r)
  \/ RecordBlind(r)
  \/ PersistLost(r)
  \/ DropConnection(r)
  \/ Restart(r)

Next ==
  \/ \E r \in Replicas : Step(r) \/ Faulty(r)
  \/ \E s \in Sources : SetEnabled(s)
  \/ Advance

Spec == Init /\ [][Next]_vars

(* APScheduler keeps calling the tick and every call in it is bounded by a *)
(* timeout, so each thread keeps moving; nothing else is promised to.      *)
FairSpec == Spec /\ \A r \in Replicas : WF_vars(Step(r))

-----------------------------------------------------------------------------
(***************************************************************************)
(* Properties.                                                             *)
(***************************************************************************)
(* The lock is held for exactly as long as the refresh it protects: no     *)
(* pooled connection carries a lock away from the block that took it       *)
(* (locks.py, _acquire), whatever raises, drops or restarts on the way.    *)
NoLeakedLock == \A l \in locks : current[l[1]] = {l[2]}

(* Two replicas work on one source only if one of them has lost the        *)
(* connection that held its lock; it is not told, and goes on (locks.py,   *)
(* _acquire; service.py, tick).                                            *)
OverlapOnlyAfterDrop ==
  \A q, r \in Replicas :
    q # r /\ current[q] \intersect current[r] # {} => ~Holds(q) \/ ~Holds(r)

(* Replicas never refresh one source at the same time (README.md:191).     *)
MutualExclusion ==
  \A q, r \in Replicas : q # r => current[q] \intersect current[r] = {}

(* The same as a refinement: the refreshes in progress are those of        *)
(* SourceMutex.                                                            *)
Mutex == INSTANCE SourceMutex WITH
           workers <- [s \in Sources |-> {r \in Replicas : s \in current[r]}]
MutexSpec == Mutex!Spec

Starts(r, s) == s \notin current[r] /\ s \in current'[r]

(* A process never starts a refresh before its own last outcome says the   *)
(* source is due, although it decides that when the tick starts and acts   *)
(* on it after other sources' fetches (service.py, tick).                  *)
SelfPaced ==
  [][\A r \in Replicas, s \in Sources :
       Starts(r, s) /\ s \in DOMAIN memory[r] =>
         memory[r][s].due <= moment[r]]_vars

(* A refresh starts only when source_status says the source is due: "the   *)
(* table is also what keeps the refresh schedule honest across a restart   *)
(* or a second replica" (status.py:15).                                    *)
HonestSchedule ==
  [][\A r \in Replicas, s \in Sources :
       Starts(r, s) => RowIsDue(table, s, moment[r])]_vars

(* source_status is the ledger one process that never forgets would keep,  *)
(* restarts included (status.py, record_failure: the first failure after   *)
(* a restart neither resets the back-off nor erases the last success).     *)
Ledger == INSTANCE RefreshLedger
LedgerSpec == Ledger!Spec

(* The back-off never retries a failing source sooner than its ordinary    *)
(* interval: "a source that is down should not be hammered at its          *)
(* ordinary refresh interval" (status.py:307).                             *)
BackoffNeverShorter ==
  \A r \in Replicas : \A s \in DOMAIN memory[r] :
    memory[r][s].due >= memory[r][s].attempt + Minutes[s]

(* A source that a process finds due gets its refresh, or is disabled, or  *)
(* another outcome makes it due later: no skipped lock, aborted tick, lost *)
(* connection or restart starves it for good (service.py, tick).           *)
DueIsServed ==
  \A r \in Replicas, s \in Sources :
    IsDue(r, s, clock) ~> ~IsDue(r, s, clock) \/ s \notin enabled
=============================================================================
