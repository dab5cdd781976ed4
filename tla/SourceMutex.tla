----------------------------- MODULE SourceMutex -----------------------------
(***************************************************************************)
(* What the locks of app/scheduler/locks.py promise: "two replicas never   *)
(* fetch the same source at the same time", while nothing stops them from  *)
(* working on different sources.                                           *)
(***************************************************************************)
CONSTANTS Replicas, Sources

VARIABLE workers        \* the replicas refreshing each source

Init == workers = [s \in Sources |-> {}]

Start(r, s) ==
  /\ workers[s] = {}
  /\ workers' = [workers EXCEPT ![s] = {r}]

Stop(r, s) ==
  /\ workers[s] = {r}
  /\ workers' = [workers EXCEPT ![s] = {}]

Next == \E r \in Replicas, s \in Sources : Start(r, s) \/ Stop(r, s)

Spec == Init /\ [][Next]_workers
=============================================================================
