SPECIFICATION Spec
CONSTANTS
  None = None
  Blank = Blank
  Handler = {h1, h2}
  e1 = e1
  s1 = s1
  s2 = s2
  right = right
  wrong = wrong
  Exercise = {e1}
  Sentence = {s1, s2}
  Parent <- OneExercise
  Answer = {right, wrong}
  Batches <- Sheets
  MaxTime = 3
SYMMETRY HandlerSymmetry
INVARIANTS
  TypeInvariant
  SheetKept

