--------------------------- MODULE RefreshSchedule ---------------------------
(***************************************************************************)
(* When a source is next due, and the row of source_status it is worked    *)
(* out from: app/ingest/status.py.  Times are natural numbers of one fixed *)
(* unit; in the code it is the minute, and BackoffCap is 360 of them.      *)
(***************************************************************************)
EXTENDS Naturals

CONSTANTS
  Sources,      \* rows of the table sources
  Minutes,      \* refresh_minutes of each source
  BackoffCap    \* the longest back-off, six hours in the code

ASSUME RefreshScheduleAssumption ==
  /\ Minutes \in [Sources -> Nat \ {0}]
  /\ BackoffCap \in Nat \ {0}

(* last_success_at of a source that never succeeded; the clock starts at 1. *)
Never == 0

Row == [fetched : Nat, success : Nat, failures : Nat]

(* min(2 ** (failures - 1), 16), for the failures >= 1 the code passes. *)
Factor(failures) == IF failures < 5 THEN <<1, 2, 4, 8>>[failures] ELSE 16

BackoffDelay(minutes, failures) ==
  LET delay == minutes * Factor(failures)
  IN  IF delay <= BackoffCap THEN delay ELSE BackoffCap

Interval(minutes, failures) ==
  IF failures = 0 THEN minutes ELSE BackoffDelay(minutes, failures)

(* Both the table and a process's memory map some of the sources to what   *)
(* is known of them.  Put is the upsert into such a map.                   *)
Empty == [s \in {} |-> 0]

Put(map, key, value) ==
  [k \in DOMAIN map \union {key} |-> IF k = key THEN value ELSE map[k]]

(* What a process that remembers nothing makes of the table. *)
RowIsDue(rows, s, now) ==
  s \in DOMAIN rows =>
    rows[s].fetched + Interval(Minutes[s], rows[s].failures) <= now
=============================================================================
