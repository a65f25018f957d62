SPECIFICATION LiveSpec
CONSTANTS
  None = None
  Handler = {h1}
  User = {u1}
  Client = {k1}
  Grant = {g1, g2}
  Code = {a1, a2}
  Access = {t1, t2}
  Refresh = {r1, r2}
  MaxRequests = 4
  MaxLapses = 2
INVARIANTS
  RevokedGrantsEmpty
PROPERTIES
  SpentOnce
  StaleRowsGo
