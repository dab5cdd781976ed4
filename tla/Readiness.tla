------------------------------ MODULE Readiness ------------------------------
(***************************************************************************)
(* GET /healthz and its database probe, BoundedCheck in src/app/main.py    *)
(* with src/app/health.py: callers in threads of their own share one       *)
(* worker thread, one event and one result, and each waits for the event   *)
(* no longer than the timeout, whatever the database does.                 *)
(***************************************************************************)
EXTENDS Naturals, FiniteSets

CONSTANTS
    Probers,        \* the requests that are being answered
    MaxProbes       \* bound: the checks that are begun

VARIABLES
    running, done, result,      \* _running, _done, _result
    workers,                    \* the threads in _run, by the number of their check
    prober,                     \* what each request is doing
    begun, ended                \* history: checks begun, and the order they ended in

probeVars == <<running, done, result, workers, prober, begun, ended>>

(* A result carries, for the record, how many checks had ended when it was stored. *)
NotYetChecked == [ok |-> FALSE, at |-> 0]
Away == [pc |-> "away", from |-> 0, answer |-> "none", at |-> 0]

ProbeInit ==
    /\ running = FALSE /\ done = FALSE /\ result = NotYetChecked
    /\ workers = {}
    /\ prober = [p \in Probers |-> Away]
    /\ begun = 0 /\ ended = 0

(* The process restarts, with a BoundedCheck of its own. *)
ProbeRestart ==
    /\ running' = FALSE /\ done' = FALSE /\ result' = NotYetChecked
    /\ workers' = {}
    /\ prober' = [p \in Probers |-> Away]
    /\ begun' = 0 /\ ended' = 0

-----------------------------------------------------------------------------
ClearedNever == done

(* The event of the last check is cleared before the next begins. *)
Cleared == FALSE

(* Under the lock: a check that is running is joined, else one is begun. *)
Probe(p) ==
    /\ prober[p].pc = "away"
    /\ prober' = [prober EXCEPT ![p] = [Away EXCEPT !.pc = "waiting", !.from = ended]]
    /\ IF running THEN UNCHANGED <<running, done, workers, begun>>
       ELSE /\ begun < MaxProbes
            /\ begun' = begun + 1
            /\ workers' = workers \cup {begun'}
            /\ running' = TRUE /\ done' = Cleared
    /\ UNCHANGED <<result, ended>>

(* done.wait() returns TRUE: the event is set, or it was set while the caller slept and has
   been cleared for another check since. *)
Wake(p) ==
    /\ prober[p].pc = "waiting"
    /\ done \/ ended > prober[p].from
    /\ prober' = [prober EXCEPT ![p].pc = "woken"]
    /\ UNCHANGED <<running, done, result, workers, begun, ended>>

TimeOut(p) ==
    /\ prober[p].pc = "waiting"
    /\ prober' = [prober EXCEPT ![p].pc = "answered", ![p].answer = "timeout"]
    /\ UNCHANGED <<running, done, result, workers, begun, ended>>

(* Under the lock again: whatever result is there by then. *)
ReadResult(p) ==
    /\ prober[p].pc = "woken"
    /\ prober' = [prober EXCEPT ![p].pc = "answered",
                    ![p].answer = IF result.ok THEN "ok" ELSE "failed", ![p].at = result.at]
    /\ UNCHANGED <<running, done, result, workers, begun, ended>>

(* _run: SELECT 1 ends, soon, late or never, well or with an exception. *)
EndCheck(w) ==
    /\ \E ok \in BOOLEAN : result' = [ok |-> ok, at |-> ended + 1]
    /\ ended' = ended + 1
    /\ workers' = workers \ {w}
    /\ running' = FALSE /\ done' = TRUE
    /\ UNCHANGED <<prober, begun>>

(* 200 or 503, and the request is over. *)
Respond(p) ==
    /\ prober[p].pc = "answered"
    /\ prober' = [prober EXCEPT ![p] = Away]
    /\ UNCHANGED <<running, done, result, workers, begun, ended>>

ProbeNext ==
    \/ \E p \in Probers : Probe(p) \/ Wake(p) \/ TimeOut(p) \/ ReadResult(p) \/ Respond(p)
    \/ \E w \in workers : EndCheck(w)
    \/ ProbeRestart

ProbeSpec == ProbeInit /\ [][ProbeNext]_probeVars

-----------------------------------------------------------------------------
(* BoundedCheck: an answer about the database is the outcome of a check that ended after
   the request came, never one that was left behind by an earlier check; and there is at
   most one thread in the database, however many requests a hanging one holds up. *)
AnswersAreFresh ==
    /\ Cardinality(workers) <= 1
    /\ \A p \in Probers : prober[p].pc = "answered" /\ prober[p].answer # "timeout" =>
          prober[p].at > prober[p].from
=============================================================================
