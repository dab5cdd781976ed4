SPECIFICATION FairSpec
CONSTANTS
  r1 = r1
  r2 = r2
  s1 = s1
  Replicas = {r1, r2}
  Sources = {s1}
  Minutes <- MCMinutes
  BackoffCap = 6
  FaultKinds = {"restart", "abort", "load", "persist"}
  MaxClock = 2
  MaxFaults = 2
INVARIANT MutualExclusion
PROPERTIES MutexSpec DueIsServed
