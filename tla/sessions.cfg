SPECIFICATION LiveSpec
CONSTANTS
  Handler = {h1, h2}
  Login = {s1, s2}
  Google = {g1, g2}
  User = {u1, u2}
  None = None
  StateTTL = 1
  TokenTTL = 1
  Flight = 1
  MaxTime = 3
INVARIANTS
  OneSessionPerLogin
  OneAccountPerGoogle
  AuthorityFades
PROPERTIES
  RolesAreGiven
  StaleStatesGo
