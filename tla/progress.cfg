SPECIFICATION LiveSpec
CONSTANTS
  None = None
  Forever = Forever
  Handler = {h1, h2}
  Card = {c1}
  Days <- ShortDays
INVARIANTS
  ScheduleFits
  MasteryDeclared
PROPERTIES
  ComesDue
