SPECIFICATION Spec
CONSTANTS
  None = None
  Handler = {h1, h2}
  User = {u1}
  Token = {t1, t2, t3, t4}
  MaxLiveTokens = 1
  MaxTokensPerDay = 1
  maxRevokedKept = 1
  issuanceWindow = 1
  revokedRetention = 2
  Lifetimes = {0, 1}
  MaxTime = 3
SYMMETRY Symmetry
INVARIANTS
  LiveCap
  IssuanceCap
  HistoryBounded
PROPERTIES
  HistoryKept
