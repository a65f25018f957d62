SPECIFICATION Spec
CONSTANTS
  c1 = c1
  c2 = c2
  x1 = x1
  s1 = s1
  b1 = b1
  b2 = b2
  None = None
  Deleted = Deleted
  Editor = {e1, e2}
  Card = {c1, c2}
  Exercise = {x1}
  Sentence = {s1}
  Body = {b1, b2}
  MaxRank = 4
  MaxRequests = 3
  MaxBatch = 2
  Given = {0}
  Requests = {"StageDraftItem", "PublishDraft"}
  InitItems <- Published
  Shapes <- Nested
PROPERTIES
  PublishAppliesWhatItClears
CHECK_DEADLOCK FALSE
