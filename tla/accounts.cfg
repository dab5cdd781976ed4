SPECIFICATION Spec
CONSTANTS
  None = None
  Never = Never
  Users = {u1, u2}
  Requests = {r1}
  AllowLists <- MCAllowLists
  SessionTtl = 1
  TokenKinds <- MCTokenKinds
  Grace = 1
  MaxSessions = 2
  MaxTokens = 1
  MaxTime = 1
SYMMETRY MCSymmetry
INVARIANTS TypeOK DeletedLeavesNothing
PROPERTIES EffectsAreEntitled DeadCredentialsDoNothing SweepSpares
