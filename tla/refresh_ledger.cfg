SPECIFICATION Spec
CONSTANTS
  r1 = r1
  s1 = s1
  s2 = s2
  Replicas = {r1}
  Sources = {s1, s2}
  Minutes <- MCMinutes
  BackoffCap = 6
  FaultKinds = {"restart", "drop", "abort"}
  MaxClock = 4
  MaxFaults = 1
PROPERTIES LedgerSpec
