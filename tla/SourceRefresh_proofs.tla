------------------------ MODULE SourceRefresh_proofs ------------------------
(***************************************************************************)
(* Theorems about SourceRefresh, for every set of replicas and sources,    *)
(* every refresh_minutes and every set of faults.                          *)
(***************************************************************************)
EXTENDS SourceRefresh, TLAPS

-----------------------------------------------------------------------------
(***************************************************************************)
(* The operators the specification is built from.                          *)
(***************************************************************************)
(* The upsert of a well-typed value keeps a map well typed. *)
LEMMA PutType ==
  ASSUME NEW S, NEW T, NEW map, NEW key \in S, NEW value \in T,
         DOMAIN map \subseteq S, map \in [DOMAIN map -> T]
  PROVE  /\ DOMAIN Put(map, key, value) \subseteq S
         /\ Put(map, key, value) \in [DOMAIN Put(map, key, value) -> T]
BY DEF Put

(* An upsert is read back, and leaves every other key alone. *)
LEMMA PutRead ==
  ASSUME NEW map, NEW key, NEW value
  PROVE  /\ DOMAIN Put(map, key, value) = DOMAIN map \union {key}
         /\ Put(map, key, value)[key] = value
         /\ \A k \in DOMAIN map : k # key => Put(map, key, value)[k] = map[k]
BY DEF Put

(* The multiplier of the back-off is one of five powers of two. *)
LEMMA FactorValues ==
  ASSUME NEW n \in Nat \ {0}
  PROVE  Factor(n) \in {1, 2, 4, 8, 16}
<1>1. CASE n < 5
  <2>1. n \in {1, 2, 3, 4}
    BY <1>1
  <2> QED  BY <1>1, <2>1 DEF Factor
<1>2. CASE ~(n < 5)
  BY <1>2 DEF Factor
<1> QED  BY <1>1, <1>2

(* A back-off is at least one unit, and never above the cap. *)
LEMMA BackoffDelayBounds ==
  ASSUME NEW s \in Sources, NEW n \in Nat \ {0}
  PROVE  /\ BackoffDelay(Minutes[s], n) \in Nat \ {0}
         /\ BackoffDelay(Minutes[s], n) <= BackoffCap
<1>1. Minutes[s] \in Nat \ {0} /\ BackoffCap \in Nat \ {0}
  BY RefreshScheduleAssumption
<1>2. Factor(n) \in {1, 2, 4, 8, 16}
  BY FactorValues
<1> QED  BY <1>1, <1>2 DEF BackoffDelay

-----------------------------------------------------------------------------
(***************************************************************************)
(* Type correctness.                                                       *)
(***************************************************************************)
(* Whatever a replica records is a status. *)
LEMMA StatusType ==
  ASSUME TypeOK, NEW r \in Replicas, NEW s \in Sources, NEW seen
  PROVE  /\ SuccessStatus(r, s) \in Status
         /\ FailureStatus(r, s, seen) \in Status
<1>1. moment[r] \in Nat /\ Minutes[s] \in Nat
  BY RefreshScheduleAssumption DEF TypeOK
<1>2. Previous(r, s, seen) \in [success : Nat, failures : Nat]
  <2>1. s \in DOMAIN memory[r] => memory[r][s] \in Status
    BY DEF TypeOK
  <2>2. s \in DOMAIN table => table[s] \in Row
    BY DEF TypeOK
  <2> QED  BY <2>1, <2>2 DEF Previous, Status, Row, Never
<1>3. Previous(r, s, seen).failures + 1 \in Nat \ {0}
  BY <1>2
<1>4. BackoffDelay(Minutes[s], Previous(r, s, seen).failures + 1) \in Nat
  BY <1>3, BackoffDelayBounds
<1>5. SuccessStatus(r, s) \in Status
  BY <1>1 DEF SuccessStatus, Status
<1>6. FailureStatus(r, s, seen) \in Status
  BY <1>1, <1>2, <1>3, <1>4 DEF FailureStatus, Status
<1> QED  BY <1>5, <1>6

(* A replica refreshes at most one source, exactly in the phases of a      *)
(* refresh, and what it is about to persist is in its memory.              *)
WorkInv ==
  \A r \in Replicas :
    /\ current[r] = {} <=> phase[r] \in {"idle", "ticking"}
    /\ \A s, t \in current[r] : s = t
    /\ phase[r] = "persisting" => current[r] \subseteq DOMAIN memory[r]

TypeInv == TypeOK /\ WorkInv

(* The status a replica records for the source it holds. *)
Recorded(r, s, seen) ==
  IF fetched[r] THEN SuccessStatus(r, s) ELSE FailureStatus(r, s, seen)

(* Recording writes one well-typed entry of one replica's memory. *)
LEMMA RecordWrites ==
  ASSUME TypeInv, NEW r \in Replicas, NEW seen,
         RecordStatus(r, seen)
  PROVE  \E s \in Sources :
           /\ current[r] = {s}
           /\ Recorded(r, s, seen) \in Status
           /\ memory' = [memory EXCEPT ![r] =
                           Put(memory[r], s, Recorded(r, s, seen))]
<1>1. PICK s \in current[r] :
        memory' = [memory EXCEPT ![r] =
                     Put(memory[r], s, Recorded(r, s, seen))]
  BY DEF RecordStatus, Recorded
<1>2. s \in Sources /\ current[r] = {s}
  BY DEF TypeInv, TypeOK, WorkInv
<1>3. Recorded(r, s, seen) \in Status
  BY <1>2, StatusType DEF TypeInv, Recorded
<1> QED  BY <1>1, <1>2, <1>3

(* Type correctness is inductive with WorkInv: one step per action. *)
LEMMA TypeInvStep == TypeInv /\ [Next]_vars => TypeInv'
<1> SUFFICES ASSUME TypeInv, [Next]_vars
             PROVE  TypeInv'
  OBVIOUS
<1> USE DEF TypeInv, TypeOK, WorkInv, Phases
<1>1. ASSUME NEW r \in Replicas, BeginTick(r)
      PROVE  TypeInv'
  BY <1>1 DEF BeginTick
<1>2. ASSUME NEW r \in Replicas, NEW s \in Sources, NEW answer,
             AskDue(r, s, answer), faults' \in Nat
      PROVE  TypeInv'
  BY <1>2 DEF AskDue
<1>3. ASSUME NEW r \in Replicas, NEW s \in Sources, TakeLock(r, s)
      PROVE  TypeInv'
  BY <1>3 DEF TakeLock, Walking
<1>4. ASSUME NEW r \in Replicas, NEW s \in Sources, SkipLocked(r, s)
      PROVE  TypeInv'
  BY <1>4 DEF SkipLocked
<1>5. ASSUME NEW r \in Replicas, EndTick(r)
      PROVE  TypeInv'
  BY <1>5 DEF EndTick, Walking
<1>6. ASSUME NEW r \in Replicas, NEW outcome \in BOOLEAN, Fetch(r, outcome)
      PROVE  TypeInv'
  BY <1>6 DEF Fetch
<1>7. ASSUME NEW r \in Replicas, NEW seen, RecordStatus(r, seen),
             faults' \in Nat
      PROVE  TypeInv'
  <2>1. PICK s \in Sources :
          /\ current[r] = {s}
          /\ Recorded(r, s, seen) \in Status
          /\ memory' = [memory EXCEPT ![r] =
                          Put(memory[r], s, Recorded(r, s, seen))]
    BY <1>7, RecordWrites
  <2> DEFINE new == Put(memory[r], s, Recorded(r, s, seen))
  <2>2. /\ DOMAIN new \subseteq Sources
        /\ new \in [DOMAIN new -> Status]
    BY <2>1, PutType
  <2>3. s \in DOMAIN new
    BY DEF Put
  <2> HIDE DEF new
  <2>4. memory' = [memory EXCEPT ![r] = new]
    BY <2>1 DEF new
  <2>5. /\ DOMAIN memory' = Replicas
        /\ \A q \in Replicas : /\ DOMAIN memory'[q] \subseteq Sources
                               /\ memory'[q] \in [DOMAIN memory'[q] -> Status]
    BY <2>2, <2>4
  <2>6. TypeOK'
    BY <1>7, <2>5 DEF RecordStatus
  <2>7. WorkInv'
    BY <1>7, <2>1, <2>3, <2>4 DEF RecordStatus
  <2> QED  BY <2>6, <2>7
<1>8. ASSUME NEW r \in Replicas, Persist(r)
      PROVE  TypeInv'
  <2>1. PICK s \in current[r] : table' = Put(table, s, RowOf(memory[r][s]))
    BY <1>8 DEF Persist
  <2>2. s \in Sources /\ memory[r][s] \in Status
    BY <1>8 DEF Persist
  <2>3. RowOf(memory[r][s]) \in Row
    BY <2>2 DEF RowOf, Row, Status
  <2> DEFINE new == Put(table, s, RowOf(memory[r][s]))
  <2>4. /\ DOMAIN new \subseteq Sources
        /\ new \in [DOMAIN new -> Row]
    BY <2>2, <2>3, PutType
  <2>5. table' = new
    BY <2>1
  <2> HIDE DEF new
  <2> QED  BY <1>8, <2>4, <2>5 DEF Persist
<1>9. ASSUME NEW r \in Replicas, PersistLost(r)
      PROVE  TypeInv'
  BY <1>9 DEF PersistLost, Fault
<1>10. ASSUME NEW r \in Replicas, Unlock(r)
       PROVE  TypeInv'
  BY <1>10 DEF Unlock, Released
<1>11. ASSUME NEW r \in Replicas, UnlockRaises(r)
       PROVE  TypeInv'
  BY <1>11 DEF UnlockRaises
<1>12. ASSUME NEW r \in Replicas, AbortTick(r)
       PROVE  TypeInv'
  BY <1>12 DEF AbortTick, Fault
<1>13. ASSUME NEW r \in Replicas, DropConnection(r)
       PROVE  TypeInv'
  BY <1>13 DEF DropConnection, Fault, tickVars, Released
<1>14. ASSUME NEW r \in Replicas, Restart(r)
       PROVE  TypeInv'
  BY <1>14 DEF Restart, Fault, Empty, Released
<1>15. ASSUME NEW s \in Sources, SetEnabled(s)
       PROVE  TypeInv'
  BY <1>15 DEF SetEnabled, tickVars
<1>16. CASE Advance
  BY <1>16 DEF Advance, tickVars
<1>17. CASE UNCHANGED vars
  BY <1>17 DEF vars, tickVars
<1>18. ASSUME NEW r \in Replicas, NEW s \in Sources, Ask(r, s)
       PROVE  TypeInv'
  <2>1. AskDue(r, s, IsDue(r, s, moment[r])) /\ faults' \in Nat
    BY <1>18 DEF Ask
  <2> QED  BY <1>2, <2>1, Zenon
<1>19. ASSUME NEW r \in Replicas, NEW s \in Sources, AskBlind(r, s)
       PROVE  TypeInv'
  <2>1. AskDue(r, s, TRUE)
    BY <1>19, Zenon DEF AskBlind
  <2>2. faults' \in Nat
    BY <1>19 DEF AskBlind, Fault
  <2> QED  BY <1>2, <2>1, <2>2, Zenon
<1>20. ASSUME NEW r \in Replicas, Record(r)
       PROVE  TypeInv'
  <2>1. RecordStatus(r, TRUE) /\ faults' \in Nat
    BY <1>20 DEF Record
  <2> QED  BY <1>7, <2>1, Zenon
<1>21. ASSUME NEW r \in Replicas, RecordBlind(r)
       PROVE  TypeInv'
  <2>1. RecordStatus(r, FALSE)
    BY <1>21, Zenon DEF RecordBlind
  <2>2. faults' \in Nat
    BY <1>21 DEF RecordBlind, Fault
  <2> QED  BY <1>7, <2>1, <2>2, Zenon
<1> QED
  BY <1>1, <1>3, <1>4, <1>5, <1>6, <1>8, <1>9, <1>10, <1>11, <1>12, <1>13,
     <1>14, <1>15, <1>16, <1>17, <1>18, <1>19, <1>20, <1>21
  DEF Next, Step, Faulty

(* Every state of the refresh is well typed, and every replica is in one   *)
(* place of one refresh.                                                   *)
THEOREM TypeCorrect == Spec => [](TypeOK /\ WorkInv)
<1>1. Init => TypeInv
  BY DEF Init, TypeInv, TypeOK, WorkInv, Phases, Empty
<1> QED  BY <1>1, TypeInvStep, PTL DEF Spec, TypeInv

-----------------------------------------------------------------------------
(***************************************************************************)
(* The locks.                                                              *)
(***************************************************************************)
(* A source has one lock, and a replica's locks are those of its refresh.  *)
LockInv ==
  /\ NoLeakedLock
  /\ \A k, l \in locks : k[2] = l[2] => k = l

(* Only five actions touch the locks or start and end a refresh. *)
LEMMA LockSteps ==
  ASSUME [Next]_vars
  PROVE  \/ UNCHANGED <<locks, current>>
         \/ \E r \in Replicas :
              \/ \E s \in Sources : TakeLock(r, s)
              \/ Unlock(r) \/ UnlockRaises(r)
              \/ DropConnection(r) \/ Restart(r)
<1>1. CASE \E r \in Replicas : Step(r)
  BY <1>1 DEF Step, BeginTick, Ask, AskDue, SkipLocked, EndTick, Fetch,
              Record, RecordStatus, Persist
<1>2. CASE \E r \in Replicas : Faulty(r)
  BY <1>2 DEF Faulty, AskBlind, AskDue, AbortTick, RecordBlind, RecordStatus,
              PersistLost
<1>3. CASE (\E s \in Sources : SetEnabled(s)) \/ Advance \/ UNCHANGED vars
  BY <1>3 DEF SetEnabled, Advance, vars, tickVars
<1> QED  BY <1>1, <1>2, <1>3 DEF Next

(* A lock has one holder, and belongs to a refresh in progress. *)
LEMMA LockInvStep == TypeInv /\ LockInv /\ [Next]_vars => LockInv'
<1> SUFFICES ASSUME TypeInv, LockInv, [Next]_vars
             PROVE  LockInv'
  OBVIOUS
<1> USE DEF LockInv, NoLeakedLock
<1>0. /\ locks \subseteq Replicas \X Sources
      /\ current \in [Replicas -> SUBSET Sources]
  BY DEF TypeInv, TypeOK
<1>1. CASE UNCHANGED <<locks, current>>
  BY <1>1
<1>2. ASSUME NEW r \in Replicas, NEW s \in Sources, TakeLock(r, s)
      PROVE  LockInv'
  <2>1. current[r] = {}
    BY <1>2 DEF TakeLock, Walking, TypeInv, WorkInv
  <2>2. \A l \in locks : l[1] # r
    BY <2>1
  <2>3. \A l \in locks : l[1] \in Replicas /\ l = <<l[1], l[2]>>
    BY <1>0
  <2>4. \A l \in locks : l[2] # s
    BY <1>2, <2>3 DEF TakeLock, Locked
  <2>5. /\ locks' = locks \union {<<r, s>>}
        /\ current' = [current EXCEPT ![r] = {s}]
    BY <1>2 DEF TakeLock
  <2> QED  BY <1>0, <2>1, <2>2, <2>4, <2>5
<1>3. ASSUME NEW r \in Replicas, Unlock(r) \/ Restart(r)
      PROVE  LockInv'
  BY <1>0, <1>3 DEF Unlock, Restart, Released
<1>4. ASSUME NEW r \in Replicas, UnlockRaises(r)
      PROVE  LockInv'
  <2>1. \A l \in locks : l[1] # r
    BY <1>0, <1>4 DEF UnlockRaises, Holds
  <2> QED  BY <1>0, <1>4, <2>1 DEF UnlockRaises
<1>5. ASSUME NEW r \in Replicas, DropConnection(r)
      PROVE  LockInv'
  BY <1>0, <1>5 DEF DropConnection, tickVars, Released
<1> QED  BY <1>1, <1>2, <1>3, <1>4, <1>5, LockSteps

(* The finally of _acquire leaves no lock behind, whatever drops, raises   *)
(* or restarts.                                                            *)
THEOREM LocksAreReleased == Spec => []NoLeakedLock
<1>1. Init => LockInv
  BY DEF Init, LockInv, NoLeakedLock
<1>2. LockInv => NoLeakedLock
  BY DEF LockInv
<1> QED  BY <1>1, <1>2, LockInvStep, TypeCorrect, PTL DEF Spec, TypeInv

(* With any fault, two replicas meet on a source only after one of them    *)
(* has lost the connection of its lock.                                    *)
THEOREM OverlapNeedsDrop == Spec => []OverlapOnlyAfterDrop
<1>1. Init => LockInv
  BY DEF Init, LockInv, NoLeakedLock
<1>2. LockInv => OverlapOnlyAfterDrop
  BY DEF LockInv, OverlapOnlyAfterDrop, Holds
<1> QED  BY <1>1, <1>2, LockInvStep, TypeCorrect, PTL DEF Spec, TypeInv

(* When no connection drops, a replica holds the lock of what it refreshes. *)
LEMMA HoldsStep ==
  ASSUME "drop" \notin FaultKinds, TypeInv,
         \A r \in Replicas : Holds(r), [Next]_vars
  PROVE  (\A r \in Replicas : Holds(r))'
<1> USE DEF Holds
<1>0. /\ locks \subseteq Replicas \X Sources
      /\ current \in [Replicas -> SUBSET Sources]
  BY DEF TypeInv, TypeOK
<1>1. CASE UNCHANGED <<locks, current>>
  BY <1>1
<1>2. ASSUME NEW r \in Replicas, NEW s \in Sources, TakeLock(r, s)
      PROVE  (\A q \in Replicas : Holds(q))'
  BY <1>0, <1>2 DEF TakeLock
<1>3. ASSUME NEW r \in Replicas, Unlock(r) \/ Restart(r)
      PROVE  (\A q \in Replicas : Holds(q))'
  BY <1>0, <1>3 DEF Unlock, Restart, Released
<1>4. ASSUME NEW r \in Replicas, UnlockRaises(r)
      PROVE  FALSE
  BY <1>4 DEF UnlockRaises
<1>5. ASSUME NEW r \in Replicas, DropConnection(r)
      PROVE  FALSE
  BY <1>5 DEF DropConnection, Fault
<1> QED  BY <1>1, <1>2, <1>3, <1>4, <1>5, LockSteps

(* As long as no connection drops, replicas never refresh one source at    *)
(* the same time.                                                          *)
THEOREM Exclusion ==
  ASSUME "drop" \notin FaultKinds
  PROVE  Spec => []MutualExclusion
<1>1. Init => LockInv /\ \A r \in Replicas : Holds(r)
  BY DEF Init, LockInv, NoLeakedLock, Holds
<1>2. LockInv /\ (\A r \in Replicas : Holds(r)) => MutualExclusion
  BY DEF LockInv, MutualExclusion, Holds
<1>3. TypeInv /\ (\A r \in Replicas : Holds(r)) /\ [Next]_vars
        => (\A r \in Replicas : Holds(r))'
  BY HoldsStep
<1> QED
  BY <1>1, <1>2, <1>3, LockInvStep, TypeCorrect, PTL DEF Spec, TypeInv

(* ... which is to say that the refreshes in progress are those of         *)
(* SourceMutex.                                                            *)
THEOREM ImplementsMutex ==
  ASSUME "drop" \notin FaultKinds
  PROVE  Spec => MutexSpec
<1> DEFINE workers == [s \in Sources |-> {r \in Replicas : s \in current[r]}]
           Held == \A r \in Replicas : Holds(r)
<1>1. Init => LockInv /\ Held /\ Mutex!Init
  BY DEF Init, LockInv, NoLeakedLock, Holds, Mutex!Init
<1>2. ASSUME TypeInv, LockInv, Held, TypeInv', [Next]_vars
      PROVE  [Mutex!Next]_workers
  <2>0. /\ locks \subseteq Replicas \X Sources
        /\ current \in [Replicas -> SUBSET Sources]
        /\ current' \in [Replicas -> SUBSET Sources]
    BY <1>2 DEF TypeInv, TypeOK
  <2>1. CASE UNCHANGED <<locks, current>>
    BY <2>1
  <2>2. ASSUME NEW r \in Replicas, NEW s \in Sources, TakeLock(r, s)
        PROVE  Mutex!Start(r, s)
    <3>1. \A q \in Replicas : s \notin current[q]
      BY <1>2, <2>2 DEF TakeLock, Locked, Holds
    <3>2. current' = [current EXCEPT ![r] = {s}] /\ current[r] = {}
      BY <1>2, <2>2 DEF TakeLock, Walking, TypeInv, WorkInv
    <3>3. workers[s] = {}
      BY <3>1
    <3>4. workers' = [workers EXCEPT ![s] = {r}]
      <4>1. \A q \in Replicas, t \in Sources :
              t \in current'[q] <=> (q = r /\ t = s) \/ t \in current[q]
        BY <2>0, <3>2
      <4>2. \A t \in Sources :
              {q \in Replicas : t \in current'[q]} =
                IF t = s THEN {r} ELSE {q \in Replicas : t \in current[q]}
        BY <3>1, <4>1
      <4> QED  BY <4>2
    <3> QED  BY <3>3, <3>4 DEF Mutex!Start
  <2>3. ASSUME NEW r \in Replicas, Unlock(r) \/ Restart(r)
        PROVE  \/ UNCHANGED workers
               \/ \E s \in Sources : Mutex!Stop(r, s)
    <3>1. current' = [current EXCEPT ![r] = {}]
      BY <2>3 DEF Unlock, Restart, Released
    <3>2. CASE current[r] = {}
      <4>1. UNCHANGED current
        BY <2>0, <3>1, <3>2
      <4> QED  BY <4>1
    <3>3. ASSUME NEW s \in current[r]
          PROVE  Mutex!Stop(r, s)
      <4>1. s \in Sources /\ current[r] = {s}
        BY <1>2, <2>0 DEF TypeInv, WorkInv
      <4>2. \A q \in Replicas : q # r => s \notin current[q]
        BY <1>2 DEF LockInv, Holds
      <4>3. workers[s] = {r}
        BY <4>1, <4>2
      <4>4. workers' = [workers EXCEPT ![s] = {}]
        <5>1. \A q \in Replicas, t \in Sources :
                t \in current'[q] <=> t \in current[q] /\ t # s
          BY <2>0, <3>1, <4>1, <4>2
        <5>2. \A t \in Sources :
                {q \in Replicas : t \in current'[q]} =
                  IF t = s THEN {} ELSE {q \in Replicas : t \in current[q]}
          BY <5>1
        <5> QED  BY <5>2
      <4> QED  BY <4>3, <4>4 DEF Mutex!Stop
    <3> QED  BY <2>0, <3>2, <3>3
  <2>4. ASSUME NEW r \in Replicas, UnlockRaises(r) \/ DropConnection(r)
        PROVE  FALSE
    BY <1>2, <2>4 DEF UnlockRaises, DropConnection, Fault
  <2> HIDE DEF workers
  <2> QED
    BY <1>2, <2>1, <2>2, <2>3, <2>4, LockSteps DEF Mutex!Next
<1>3. TypeInv /\ Held /\ [Next]_vars => Held'
  BY HoldsStep
<1> QED
  BY <1>1, <1>2, <1>3, LockInvStep, TypeCorrect, PTL
  DEF Spec, TypeInv, MutexSpec, Mutex!Spec

-----------------------------------------------------------------------------
(***************************************************************************)
(* The schedule.                                                           *)
(***************************************************************************)
(* A tick asks about each source once and refreshes it at most once; none  *)
(* of its list outlives it.                                                *)
WalkInv ==
  \A r \in Replicas :
    /\ due[r] \intersect candidates[r] = {}
    /\ due[r] \intersect current[r] = {}
    /\ phase[r] # "ticking" => candidates[r] = {}
    /\ phase[r] = "idle" => due[r] = {}

(* What is still on a replica's list is due by its own memory.             *)
PacedInv ==
  \A r \in Replicas : \A s \in due[r] :
    s \in DOMAIN memory[r] => memory[r][s].due <= moment[r]

(* What is on a due list stays due for its own process until it is taken. *)
LEMMA PacedStep ==
  TypeInv /\ WalkInv /\ PacedInv /\ [Next]_vars => WalkInv' /\ PacedInv'
<1> SUFFICES ASSUME TypeInv, WalkInv, PacedInv, [Next]_vars
             PROVE  WalkInv' /\ PacedInv'
  OBVIOUS
<1> USE DEF WalkInv, PacedInv
<1>0. /\ DOMAIN memory = Replicas
      /\ phase \in [Replicas -> Phases]
      /\ moment \in [Replicas -> Nat]
      /\ candidates \in [Replicas -> SUBSET Sources]
      /\ due \in [Replicas -> SUBSET Sources]
      /\ current \in [Replicas -> SUBSET Sources]
  BY DEF TypeInv, TypeOK
<1>1. ASSUME NEW r \in Replicas, BeginTick(r)
      PROVE  WalkInv' /\ PacedInv'
  BY <1>0, <1>1 DEF BeginTick
<1>2. ASSUME NEW r \in Replicas, NEW s \in Sources, NEW answer,
             AskDue(r, s, answer),
             answer /\ s \in DOMAIN memory[r] => memory[r][s].due <= moment[r]
      PROVE  WalkInv' /\ PacedInv'
  <2>1. current[r] = {}
    BY <1>2 DEF AskDue, TypeInv, WorkInv
  <2>2. due' = [due EXCEPT ![r] = due'[r]] /\ due'[r] \subseteq due[r] \union {s}
    BY <1>0, <1>2 DEF AskDue
  <2>3. s \in due'[r] => s \in due[r] \/ answer
    BY <1>0, <1>2 DEF AskDue
  <2> QED  BY <1>0, <1>2, <2>1, <2>2, <2>3 DEF AskDue
<1>3. ASSUME NEW r \in Replicas, NEW s \in Sources,
             TakeLock(r, s) \/ SkipLocked(r, s)
      PROVE  WalkInv' /\ PacedInv'
  BY <1>0, <1>3 DEF TakeLock, SkipLocked, Walking
<1>4. ASSUME NEW r \in Replicas,
             EndTick(r) \/ AbortTick(r) \/ Unlock(r) \/ UnlockRaises(r)
      PROVE  WalkInv' /\ PacedInv'
  BY <1>0, <1>4 DEF EndTick, AbortTick, Unlock, UnlockRaises, Walking
<1>5. ASSUME NEW r \in Replicas, NEW outcome, Fetch(r, outcome)
      PROVE  WalkInv' /\ PacedInv'
  BY <1>0, <1>5 DEF Fetch
<1>6. ASSUME NEW r \in Replicas, NEW seen, RecordStatus(r, seen)
      PROVE  WalkInv' /\ PacedInv'
  <2>1. PICK s \in Sources :
          /\ current[r] = {s}
          /\ memory' = [memory EXCEPT ![r] =
                          Put(memory[r], s, Recorded(r, s, seen))]
    BY <1>6, RecordWrites
  <2>2. \A t \in due[r] : /\ t \in DOMAIN memory'[r] <=> t \in DOMAIN memory[r]
                          /\ t \in DOMAIN memory[r] =>
                               memory'[r][t] = memory[r][t]
    <3>1. \A t \in due[r] : t # s
      BY <1>0, <2>1
    <3>2. memory'[r] = Put(memory[r], s, Recorded(r, s, seen))
      BY <1>0, <2>1
    <3>3. /\ DOMAIN memory'[r] = DOMAIN memory[r] \union {s}
          /\ \A k \in DOMAIN memory[r] : k # s => memory'[r][k] = memory[r][k]
      BY <3>2 DEF Put
    <3> QED  BY <3>1, <3>3
  <2>3. \A q \in Replicas : q # r => memory'[q] = memory[q]
    BY <1>0, <2>1
  <2> QED  BY <1>0, <1>6, <2>2, <2>3 DEF RecordStatus
<1>7. ASSUME NEW r \in Replicas, Persist(r) \/ PersistLost(r)
      PROVE  WalkInv' /\ PacedInv'
  BY <1>0, <1>7 DEF Persist, PersistLost
<1>8. ASSUME NEW r \in Replicas, Restart(r)
      PROVE  WalkInv' /\ PacedInv'
  BY <1>0, <1>8 DEF Restart, Empty
<1>9. CASE \/ \E r \in Replicas : DropConnection(r)
           \/ \E s \in Sources : SetEnabled(s)
           \/ Advance
           \/ UNCHANGED vars
  BY <1>9 DEF DropConnection, SetEnabled, Advance, vars, tickVars
<1>10. ASSUME NEW r \in Replicas, NEW s \in Sources, Ask(r, s)
       PROVE  WalkInv' /\ PacedInv'
  <2>1. AskDue(r, s, IsDue(r, s, moment[r]))
    BY <1>10 DEF Ask
  <2>2. IsDue(r, s, moment[r]) /\ s \in DOMAIN memory[r] =>
          memory[r][s].due <= moment[r]
    BY DEF IsDue
  <2> HIDE DEF WalkInv, PacedInv
  <2> QED  BY <1>2, <2>1, <2>2, Zenon
<1>11. ASSUME NEW r \in Replicas, NEW s \in Sources, AskBlind(r, s)
       PROVE  WalkInv' /\ PacedInv'
  <2>1. AskDue(r, s, TRUE) /\ s \notin DOMAIN memory[r]
    BY <1>11, Zenon DEF AskBlind
  <2> HIDE DEF WalkInv, PacedInv
  <2> QED  BY <1>2, <2>1, Zenon
<1>12. ASSUME NEW r \in Replicas, Record(r) \/ RecordBlind(r)
       PROVE  WalkInv' /\ PacedInv'
  <2>1. RecordStatus(r, TRUE) \/ RecordStatus(r, FALSE)
    BY <1>12, Zenon DEF Record, RecordBlind
  <2> HIDE DEF WalkInv, PacedInv
  <2> QED  BY <1>6, <2>1, Zenon
<1> HIDE DEF WalkInv, PacedInv
<1> QED
  BY <1>1, <1>3, <1>4, <1>5, <1>7, <1>8, <1>9, <1>10, <1>11, <1>12
  DEF Next, Step, Faulty

(* ... and nothing is on a list when the processes start. *)
LEMMA PacedInit == Init => WalkInv /\ PacedInv
BY DEF Init, WalkInv, PacedInv

(* A process never starts a refresh before its own last outcome says so,   *)
(* in spite of every fault and of the other replicas.                      *)
THEOREM OwnPace == Spec => SelfPaced
<1>1. TypeInv /\ PacedInv /\ [Next]_vars =>
        [\A r \in Replicas, s \in Sources :
           Starts(r, s) /\ s \in DOMAIN memory[r] =>
             memory[r][s].due <= moment[r]]_vars
  <2> SUFFICES ASSUME TypeInv, PacedInv, [Next]_vars,
                      NEW q \in Replicas, NEW t \in Sources, Starts(q, t)
               PROVE  t \in due[q]
    BY DEF PacedInv
  <2>0. current \in [Replicas -> SUBSET Sources]
    BY DEF TypeInv, TypeOK
  <2>1. ASSUME NEW r \in Replicas, NEW s \in Sources, TakeLock(r, s)
        PROVE  t \in due[q]
    BY <2>0, <2>1 DEF TakeLock, Starts
  <2>2. ASSUME NEW r \in Replicas,
               Unlock(r) \/ UnlockRaises(r) \/ DropConnection(r) \/ Restart(r)
        PROVE  FALSE
    BY <2>0, <2>2
    DEF Unlock, UnlockRaises, DropConnection, Restart, tickVars, Starts
  <2> QED  BY <2>1, <2>2, LockSteps DEF Starts
<1> QED
  BY <1>1, PacedInit, PacedStep, TypeCorrect, PTL
  DEF Spec, SelfPaced, TypeInv

-----------------------------------------------------------------------------
(***************************************************************************)
(* One process: the table is a ledger.                                     *)
(***************************************************************************)
(* One process at a time, whose database calls all succeed while it lives. *)
OneProcess ==
  /\ \A q, r \in Replicas : q = r
  /\ FaultKinds \subseteq {"restart", "drop", "abort"}

DueAfter(s, row) == row.fetched + Interval(Minutes[s], row.failures)

(* Memory and row tell the same of a source ... *)
Agrees(r, s) ==
  /\ s \in DOMAIN table
  /\ RowOf(memory[r][s]) = table[s]
  /\ memory[r][s].due = DueAfter(s, table[s])

(* ... except that an outcome not yet persisted is the ledger's next entry. *)
NextEntry(r, s) ==
  LET new == memory[r][s]
  IN  /\ new.attempt = moment[r]
      /\ new.due = DueAfter(s, RowOf(new))
      /\ \/ new.success = moment[r] /\ new.failures = 0
         \/ IF s \in DOMAIN table
            THEN /\ new.success = table[s].success
                 /\ new.failures = table[s].failures + 1
            ELSE new.success = Never /\ new.failures = 1

Unpersisted(r, s) == phase[r] = "persisting" /\ s \in current[r]

LedgerInv ==
  \A r \in Replicas :
    /\ moment[r] <= clock
    /\ phase[r] # "idle" => moment[r] >= 1
    /\ \A s \in DOMAIN memory[r] :
         IF Unpersisted(r, s) THEN NextEntry(r, s) ELSE Agrees(r, s)
    /\ \A s \in due[r] : RowIsDue(table, s, moment[r])
    /\ phase[r] \in {"fetching", "recording", "persisting"} =>
         \A s \in current[r] : RowIsDue(table, s, moment[r])

(* Nobody has recorded anything when the process starts. *)
LEMMA LedgerInit == Init => LedgerInv
BY DEF Init, LedgerInv, Empty

(* What a lone process records is the next entry of the ledger. *)
LEMMA RecordIsNext ==
  ASSUME TypeInv, WalkInv, LedgerInv, NEW r \in Replicas, NEW s \in Sources,
         current[r] = {s}, phase[r] = "recording"
  PROVE  LET new == Recorded(r, s, TRUE)
         IN  /\ new.attempt = moment[r]
             /\ new.due = DueAfter(s, RowOf(new))
             /\ \/ new.success = moment[r] /\ new.failures = 0
                \/ IF s \in DOMAIN table
                   THEN /\ new.success = table[s].success
                        /\ new.failures = table[s].failures + 1
                   ELSE new.success = Never /\ new.failures = 1
<1>1. CASE fetched[r]
  BY <1>1 DEF Recorded, SuccessStatus, DueAfter, RowOf, Interval
<1>2. CASE ~fetched[r]
  <2> DEFINE old == Previous(r, s, TRUE)
  <2>1. IF s \in DOMAIN table
        THEN old.success = table[s].success /\ old.failures = table[s].failures
        ELSE old.success = Never /\ old.failures = 0
    <3>1. CASE s \in DOMAIN memory[r]
      <4>1. Agrees(r, s)
        BY <3>1 DEF LedgerInv, Unpersisted
      <4> QED  BY <3>1, <4>1 DEF Previous, Agrees, RowOf
    <3>2. CASE s \notin DOMAIN memory[r]
      BY <3>2 DEF Previous
    <3> QED  BY <3>1, <3>2
  <2>2. s \in DOMAIN table => table[s].failures \in Nat
    BY DEF TypeInv, TypeOK, Row
  <2>3. old.failures \in Nat
    <3>1. s \notin DOMAIN table => old.failures = 0
      BY <2>1
    <3>2. s \in DOMAIN table => old.failures = table[s].failures
      BY <2>1
    <3> HIDE DEF old
    <3> QED  BY <2>2, <3>1, <3>2
  <2> HIDE DEF old
  <2> DEFINE new == Recorded(r, s, TRUE)
  <2>4. new =
          [attempt |-> moment[r], success |-> old.success,
           failures |-> old.failures + 1,
           due |-> moment[r] + BackoffDelay(Minutes[s], old.failures + 1)]
    BY <1>2 DEF Recorded, FailureStatus, old
  <2> HIDE DEF new
  <2>5. Interval(Minutes[s], old.failures + 1) =
          BackoffDelay(Minutes[s], old.failures + 1)
    BY <2>3 DEF Interval
  <2>6. IF s \in DOMAIN table
        THEN old.failures + 1 = table[s].failures + 1
        ELSE old.failures + 1 = 1
    BY <2>1, <2>2, <2>3
  <2>7. /\ new.attempt = moment[r] /\ new.success = old.success
        /\ new.failures = old.failures + 1
        /\ new.due = moment[r] + BackoffDelay(Minutes[s], old.failures + 1)
    BY <2>4
  <2>8. DueAfter(s, RowOf(new)) =
          moment[r] + Interval(Minutes[s], old.failures + 1)
    BY <2>7 DEF DueAfter, RowOf
  <2>9. new.due = DueAfter(s, RowOf(new))
    BY <2>5, <2>7, <2>8
  <2>10. IF s \in DOMAIN table
         THEN new.success = table[s].success /\ new.failures = table[s].failures + 1
         ELSE new.success = Never /\ new.failures = 1
    BY <2>1, <2>6, <2>7
  <2> QED  BY <2>7, <2>9, <2>10 DEF new
<1> QED  BY <1>1, <1>2

(* Persisting writes that entry, and nothing else. *)
LEMMA PersistWrites ==
  ASSUME TypeInv, NEW r \in Replicas, Persist(r)
  PROVE  \E s \in Sources :
           /\ current[r] = {s}
           /\ s \in DOMAIN memory[r]
           /\ table' = Put(table, s, RowOf(memory[r][s]))
BY DEF Persist, TypeInv, TypeOK, WorkInv

(* The memory of a lone process agrees with the table, or is about to.    *)
LEMMA LedgerStep ==
  ASSUME OneProcess, TypeInv, WalkInv, LedgerInv, [Next]_vars
  PROVE  LedgerInv'
<1> SUFFICES ASSUME NEW r \in Replicas, \A q \in Replicas : q = r
             PROVE  LedgerInv'
  BY DEF OneProcess, LedgerInv
<1> USE DEF LedgerInv, Unpersisted
<1>0. /\ clock \in Nat
      /\ DOMAIN memory = Replicas
      /\ phase \in [Replicas -> Phases]
      /\ moment \in [Replicas -> Nat]
      /\ due \in [Replicas -> SUBSET Sources]
      /\ current \in [Replicas -> SUBSET Sources]
      /\ current[r] = {} <=> phase[r] \in {"idle", "ticking"}
  BY DEF TypeInv, TypeOK, WorkInv
<1>1. CASE BeginTick(r)
  <2>1. due[r] = {} /\ clock \in Nat \ {0}
    BY <1>1 DEF BeginTick, WalkInv, TypeInv, TypeOK
  <2> QED  BY <1>0, <1>1, <2>1 DEF BeginTick, Agrees
<1>2. ASSUME NEW s \in Sources, Ask(r, s)
      PROVE  LedgerInv'
  <2>1. IsDue(r, s, moment[r]) => RowIsDue(table, s, moment[r])
    BY <1>0, <1>2
    DEF Ask, AskDue, IsDue, RowIsDue, Agrees, DueAfter
  <2>2. due'[r] \subseteq due[r] \union {s}
    BY <1>0, <1>2 DEF Ask, AskDue
  <2>3. s \in due'[r] => s \in due[r] \/ IsDue(r, s, moment[r])
    BY <1>0, <1>2 DEF Ask, AskDue
  <2>4. \A t \in due'[r] : RowIsDue(table, t, moment[r])
    BY <2>1, <2>2, <2>3
  <2> QED  BY <1>2, <2>4 DEF Ask, AskDue, Agrees, NextEntry
<1>3. ASSUME NEW s \in Sources, TakeLock(r, s) \/ SkipLocked(r, s)
      PROVE  LedgerInv'
  BY <1>0, <1>3 DEF TakeLock, SkipLocked, Walking, Agrees
<1>4. CASE EndTick(r) \/ AbortTick(r)
  BY <1>0, <1>4 DEF EndTick, AbortTick, Walking, Agrees
<1>5. ASSUME NEW outcome, Fetch(r, outcome)
      PROVE  LedgerInv'
  BY <1>0, <1>5 DEF Fetch, Agrees
<1>6. CASE Record(r)
  <2>1. RecordStatus(r, TRUE)
    BY <1>6, Zenon DEF Record
  <2>2. PICK s \in Sources :
          /\ current[r] = {s}
          /\ memory' = [memory EXCEPT ![r] =
                          Put(memory[r], s, Recorded(r, s, TRUE))]
    BY <2>1, RecordWrites, Zenon
  <2> DEFINE new == Recorded(r, s, TRUE)
  <2>3. /\ new.attempt = moment[r]
        /\ new.due = DueAfter(s, RowOf(new))
        /\ \/ new.success = moment[r] /\ new.failures = 0
           \/ IF s \in DOMAIN table
              THEN /\ new.success = table[s].success
                   /\ new.failures = table[s].failures + 1
              ELSE new.success = Never /\ new.failures = 1
    <3>1. phase[r] = "recording"
      BY <2>1 DEF RecordStatus
    <3> QED  BY <2>2, <3>1, RecordIsNext
  <2>4. memory'[r] = Put(memory[r], s, new)
    BY <1>0, <2>2
  <2> HIDE DEF new
  <2>5. /\ DOMAIN memory'[r] = DOMAIN memory[r] \union {s}
        /\ memory'[r][s] = new
        /\ \A k \in DOMAIN memory[r] : k # s => memory'[r][k] = memory[r][k]
    BY <2>4 DEF Put
  <2>6. /\ phase[r] = "recording" /\ phase'[r] = "persisting"
        /\ current' = current /\ table' = table /\ moment' = moment
        /\ due' = due /\ clock' = clock
    BY <1>0, <2>1 DEF RecordStatus
  <2>7. NextEntry(r, s)'
    BY <2>3, <2>5, <2>6 DEF NextEntry
  <2>8. \A k \in DOMAIN memory'[r] : k # s => Agrees(r, k)'
    <3>1. \A k \in DOMAIN memory[r] : Agrees(r, k)
      BY <2>6
    <3> QED  BY <2>5, <2>6, <3>1 DEF Agrees
  <2> QED  BY <2>2, <2>6, <2>7, <2>8
<1>7. CASE Persist(r)
  <2>1. PICK s \in Sources :
          /\ current[r] = {s}
          /\ s \in DOMAIN memory[r]
          /\ table' = Put(table, s, RowOf(memory[r][s]))
    BY <1>7, PersistWrites
  <2>2. /\ phase[r] = "persisting" /\ phase'[r] = "unlocking"
        /\ current' = current /\ memory' = memory /\ moment' = moment
        /\ due' = due /\ clock' = clock
    BY <1>0, <1>7 DEF Persist
  <2>3. /\ DOMAIN table' = DOMAIN table \union {s}
        /\ table'[s] = RowOf(memory[r][s])
        /\ \A k \in DOMAIN table : k # s => table'[k] = table[k]
    BY <2>1 DEF Put
  <2>4. Agrees(r, s)'
    BY <2>1, <2>2, <2>3 DEF NextEntry, Agrees
  <2>5. \A k \in DOMAIN memory[r] : k # s => Agrees(r, k)'
    BY <2>1, <2>2, <2>3 DEF Agrees
  <2>6. \A k \in due[r] : RowIsDue(table', k, moment[r])
    BY <2>1, <2>3 DEF RowIsDue, WalkInv
  <2> QED  BY <2>2, <2>4, <2>5, <2>6
<1>8. CASE Unlock(r) \/ UnlockRaises(r)
  BY <1>0, <1>8 DEF Unlock, UnlockRaises, Agrees
<1>9. CASE Restart(r)
  BY <1>0, <1>9 DEF Restart, Empty
<1>10. CASE DropConnection(r) \/ (\E s \in Sources : SetEnabled(s))
              \/ UNCHANGED vars
  BY <1>10 DEF DropConnection, SetEnabled, vars, tickVars, Agrees, NextEntry
<1>11. CASE Advance
  BY <1>0, <1>11 DEF Advance, tickVars, Agrees, NextEntry
<1>12. /\ \A s \in Sources : ~AskBlind(r, s)
       /\ ~PersistLost(r)
       /\ ~RecordBlind(r)
  <2>1. ~Fault("load") /\ ~Fault("persist")
    BY DEF Fault, OneProcess
  <2> QED  BY <2>1, Zenon DEF AskBlind, PersistLost, RecordBlind
<1>13. \/ \E s \in Sources : Ask(r, s) \/ TakeLock(r, s) \/ SkipLocked(r, s)
       \/ BeginTick(r) \/ EndTick(r) \/ AbortTick(r)
       \/ \E outcome \in BOOLEAN : Fetch(r, outcome)
       \/ Record(r) \/ Persist(r) \/ Unlock(r) \/ UnlockRaises(r)
       \/ Restart(r) \/ Advance
       \/ DropConnection(r) \/ (\E s \in Sources : SetEnabled(s))
            \/ UNCHANGED vars
  <2>1. \A q \in Replicas : Step(q) \/ Faulty(q) => Step(r) \/ Faulty(r)
    OBVIOUS
  <2>2. Step(r) \/ Faulty(r) \/ Advance \/ (\E s \in Sources : SetEnabled(s))
          \/ UNCHANGED vars
    BY <2>1 DEF Next
  <2> QED  BY <1>12, <2>2, Zenon DEF Step, Faulty
<1> HIDE DEF LedgerInv
<1> QED
  BY <1>1, <1>2, <1>3, <1>4, <1>5, <1>6, <1>7, <1>8, <1>9, <1>10, <1>11, <1>13

(* The ledger's operators are those of RefreshSchedule. *)
LEMMA LedgerOperators ==
  /\ Ledger!Empty = Empty
  /\ Ledger!Never = Never
  /\ \A map, key, value : Ledger!Put(map, key, value) = Put(map, key, value)
  /\ \A rows, s, now : RowIsDue(rows, s, now) => Ledger!RowIsDue(rows, s, now)
BY DEF Ledger!Empty, Empty, Ledger!Never, Never, Ledger!Put, Put,
       Ledger!RowIsDue, RowIsDue, Ledger!Interval, Interval,
       Ledger!BackoffDelay, BackoffDelay, Ledger!Factor, Factor

(* A persist is the attempt the tick decided on, dated by its start. *)
LEMMA LedgerEntry ==
  ASSUME TypeInv, LedgerInv, NEW r \in Replicas, Persist(r)
  PROVE  Ledger!Next
<1>1. PICK s \in Sources :
        /\ current[r] = {s}
        /\ s \in DOMAIN memory[r]
        /\ table' = Put(table, s, RowOf(memory[r][s]))
  BY PersistWrites
<1>2. phase[r] = "persisting" /\ clock' = clock
  BY DEF Persist
<1>3. moment[r] \in 1 .. clock
  BY <1>2 DEF LedgerInv, TypeInv, TypeOK
<1>4. RowIsDue(table, s, moment[r]) /\ NextEntry(r, s)
  BY <1>1, <1>2 DEF LedgerInv, Unpersisted
<1>5. CASE /\ memory[r][s].success = moment[r]
           /\ memory[r][s].failures = 0
  <2>1. RowOf(memory[r][s]) =
          [fetched |-> moment[r], success |-> moment[r], failures |-> 0]
    BY <1>4, <1>5 DEF RowOf, NextEntry
  <2>2. Ledger!Succeed(s, moment[r])
    BY <1>1, <2>1, LedgerOperators DEF Ledger!Succeed
  <2> QED
    BY <1>2, <1>3, <1>4, <2>2, LedgerOperators DEF Ledger!Attempt, Ledger!Next
<1>6. CASE IF s \in DOMAIN table
           THEN /\ memory[r][s].success = table[s].success
                /\ memory[r][s].failures = table[s].failures + 1
           ELSE memory[r][s].success = Never /\ memory[r][s].failures = 1
  <2>1. RowOf(memory[r][s]) =
          [fetched |-> moment[r],
           success |-> IF s \in DOMAIN table THEN table[s].success ELSE Never,
           failures |-> IF s \in DOMAIN table THEN table[s].failures + 1 ELSE 1]
    BY <1>4, <1>6 DEF RowOf, NextEntry
  <2>2. Ledger!Fail(s, moment[r])
    BY <1>1, <2>1, LedgerOperators DEF Ledger!Fail
  <2> QED
    BY <1>2, <1>3, <1>4, <2>2, LedgerOperators DEF Ledger!Attempt, Ledger!Next
<1> QED  BY <1>4, <1>5, <1>6 DEF NextEntry

(* With one process, however often it restarts, aborts a tick or loses its *)
(* lock's connection, source_status is the ledger of RefreshLedger: no     *)
(* attempt before the previous entry allows it, no failure forgotten, no   *)
(* last success lost.                                                      *)
THEOREM ImplementsLedger ==
  ASSUME OneProcess
  PROVE  Spec => LedgerSpec
<1>1. Init => Ledger!Init
  BY LedgerOperators DEF Init, Ledger!Init
<1>2. ASSUME TypeInv, LedgerInv, [Next]_vars
      PROVE  [Ledger!Next]_<<clock, table>>
  <2>1. CASE \E r \in Replicas : Persist(r)
    BY <1>2, <2>1, LedgerEntry
  <2>2. CASE Advance
    BY <2>2 DEF Advance, Ledger!Next, Ledger!Advance
  <2>3. CASE \E r \in Replicas : Step(r) /\ ~Persist(r)
    BY <2>3 DEF Step, BeginTick, Ask, AskDue, TakeLock, SkipLocked, EndTick,
                Fetch, Record, RecordStatus, Unlock, UnlockRaises
  <2>4. CASE \E r \in Replicas : Faulty(r)
    BY <2>4 DEF Faulty, AskBlind, AskDue, AbortTick, RecordBlind, RecordStatus,
                PersistLost, DropConnection, Restart
  <2>5. CASE (\E s \in Sources : SetEnabled(s)) \/ UNCHANGED vars
    BY <2>5 DEF SetEnabled, vars
  <2> QED  BY <1>2, <2>1, <2>2, <2>3, <2>4, <2>5 DEF Next
<1>3. TypeInv /\ WalkInv /\ LedgerInv /\ [Next]_vars => LedgerInv'
  BY LedgerStep
<1> QED
  BY <1>1, <1>2, <1>3, LedgerInit, PacedInit, PacedStep, TypeCorrect, PTL
  DEF Spec, TypeInv, LedgerSpec, Ledger!Spec
=============================================================================
