SPECIFICATION Spec
CONSTANTS
  c1 = c1
  c2 = c2
  x1 = x1
  s1 = s1
  b1 = b1
  b2 = b2
  None = None
  Deleted = Deleted
  Editor = {e1, e2}
  Card = {c1, c2}
  Exercise = {x1}
  Sentence = {s1}
  Body = {b1}
  MaxRank = 3
  MaxRequests = 3
  MaxBatch = 2
  Given = {0}
  Requests <- AllRequests
  InitItems <- Published
  Shapes <- Nested
SYMMETRY EditorSymmetry
INVARIANTS
  LiveParents
  PreviewFaithful
  RepublishHarmless
  FlatDraftPublishes
  EmptyDiffIsReorder
CHECK_DEADLOCK FALSE
