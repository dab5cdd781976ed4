SPECIFICATION Spec
CONSTANTS
  r1 = r1
  r2 = r2
  s1 = s1
  Replicas = {r1, r2}
  Sources = {s1}
  Minutes <- MCMinutes
  BackoffCap = 6
  FaultKinds = {"restart", "drop", "abort", "load", "persist"}
  MaxClock = 3
  MaxFaults = 2
INVARIANTS TypeOK NoLeakedLock OverlapOnlyAfterDrop
PROPERTY SelfPaced
