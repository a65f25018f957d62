SPECIFICATION Spec
CONSTANTS
  Users = {u1, u2, u3}
  Ids = {c1}
  Links = {l1, l2}
  Titles = {t1}
  Descriptions = {d1}
  Handlers = {h1, h2}
  None = None
SYMMETRY Symmetry
INVARIANT OnlyIfAsked
INVARIANT HomeListsOnce
PROPERTY LinksStayWithdrawn
