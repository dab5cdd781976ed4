---------------------------- MODULE RefreshLedger ----------------------------
(***************************************************************************)
(* What source_status promises an operator who reads it: it is the ledger  *)
(* of the refreshes, as one process that never forgets would keep it.      *)
(* Every entry is an attempt made when the previous entry said the source  *)
(* was due; a failure adds one to the previous count and keeps the last    *)
(* success; a success resets the count.                                    *)
(***************************************************************************)
EXTENDS RefreshSchedule

VARIABLES clock, table

Init == clock = 1 /\ table = Empty

Advance == clock' = clock + 1 /\ UNCHANGED table

Succeed(s, now) ==
  table' = Put(table, s, [fetched |-> now, success |-> now, failures |-> 0])

Fail(s, now) ==
  LET known == s \in DOMAIN table
  IN  table' = Put(table, s,
        [fetched  |-> now,
         success  |-> IF known THEN table[s].success ELSE Never,
         failures |-> IF known THEN table[s].failures + 1 ELSE 1])

(* An attempt is dated by the start of the tick it belongs to. *)
Attempt(s, now) ==
  /\ RowIsDue(table, s, now)
  /\ Succeed(s, now) \/ Fail(s, now)
  /\ UNCHANGED clock

Next ==
  \/ Advance
  \/ \E s \in Sources, now \in 1 .. clock : Attempt(s, now)

Spec == Init /\ [][Next]_<<clock, table>>
=============================================================================
