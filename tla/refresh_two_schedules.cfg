SPECIFICATION Spec
CONSTANTS
  r1 = r1
  r2 = r2
  s1 = s1
  Replicas = {r1, r2}
  Sources = {s1}
  Minutes <- MCMinutes
  BackoffCap = 6
  FaultKinds = {}
  MaxClock = 2
  MaxFaults = 0
PROPERTY HonestSchedule
