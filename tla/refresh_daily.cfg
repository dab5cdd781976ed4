SPECIFICATION Spec
CONSTANTS
  r1 = r1
  s1 = s1
  Replicas = {r1}
  Sources = {s1}
  Minutes <- MCDaily
  BackoffCap = 6
  FaultKinds = {}
  MaxClock = 2
  MaxFaults = 0
INVARIANT BackoffNeverShorter
