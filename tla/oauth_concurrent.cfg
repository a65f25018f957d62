SPECIFICATION Spec
CONSTANTS
  None = None
  Handler = {h1, h2}
  User = {u1, u2}
  Client = {k1}
  Grant = {g1, g2}
  Code = {a1, a2}
  Access = {t1, t2}
  Refresh = {r1, r2}
  MaxRequests = 5
  MaxLapses = 1
SYMMETRY Symmetry
INVARIANTS
  OneLiveGrant
  TokensConsented
PROPERTIES
  ConnectionsKept
  DisconnectStopsClient
