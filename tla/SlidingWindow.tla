--------------------------- MODULE SlidingWindow ---------------------------
(***************************************************************************)
(* The in-process rate limiter, src/app/auth/ratelimit.py.  Its table is a *)
(* function from the keys it tracks to the times of their recorded hits,   *)
(* oldest first.  Every call, a question or a hit, prunes the table first. *)
(***************************************************************************)
EXTENDS Integers, Sequences, FiniteSets

CONSTANTS MaxKeys     \* _MAX_KEYS, the size the table is cut down from

ASSUME MaxKeysAssumption == MaxKeys \in Nat \ {0}

NoEvents == [k \in {} |-> <<>>]

Last(events) == events[Len(events)]

(* Hits are popped from the oldest on, as long as they are out of the window. *)
Popped(events, cutoff) ==
    CHOOSE n \in 0..Len(events) :
        /\ \A i \in 1..n : events[i] <= cutoff
        /\ n < Len(events) => events[n + 1] > cutoff

Recent(events, cutoff) == SubSeq(events, Popped(events, cutoff) + 1, Len(events))

(* The tables _prune_locked(key, now) may leave: hits out of the window go,
   keys without hits go, and while the table is at MaxKeys the key whose last
   hit is oldest goes, key itself never.  Equal times leave a choice. *)
Pruned(table, key, now, window) ==
    LET recent == [k \in DOMAIN table |-> Recent(table[k], now - window)]
        active == {k \in DOMAIN table : k # key /\ recent[k] # <<>>}
        tracked == active \cup (DOMAIN table \cap {key})
        surplus == Cardinality(tracked) - (MaxKeys - 1)
        oldest(E) == \A k \in E, l \in active \ E : Last(recent[k]) <= Last(recent[l])
        evictions == IF surplus <= 0 THEN {{}}
                     ELSE IF surplus >= Cardinality(active) THEN {active}
                     ELSE {E \in SUBSET active : Cardinality(E) = surplus /\ oldest(E)}
    IN  {[k \in (active \ E) \cup {key} |->
            IF k \in DOMAIN table THEN recent[k] ELSE <<>>] : E \in evictions}

(* is_limited: the key has used its budget up. *)
Limited(table, key, limit) == Len(table[key]) >= limit

(* hit, on a pruned table: recorded while there is room, and only then. *)
Hit(table, key, now, limit) ==
    IF Limited(table, key, limit) THEN table
    ELSE [table EXCEPT ![key] = Append(@, now)]
=============================================================================
