SPECIFICATION Spec
CONSTANTS
  b1 = b1
  b2 = b2
  p1 = p1
  p2 = p2
  c1 = c1
  c2 = c2
  i1 = i1
  None = None
  Ips = {i1}
  Browsers = {b1, b2}
  People = {p1, p2}
  Calls = {c1, c2}
  Ip <- MCIp
  AllowLists <- MCAllowLists
  Ttl = 1
  MaxOutstanding = 1
  StartLimit = 2
  StartWindow = 1
  FailureLimit = 1
  FailureWindow = 1
  MaxKeys = 2
  MaxStates = 2
  MaxSessions = 2
  MaxTime = 1
SYMMETRY MCSymmetry
INVARIANTS TypeOK RedeemedOnceByItsBrowser DroppedOnlyAtCapacity OverrunBounded NoSessionLeftBehind
PROPERTY NewSessionsAreInvited
