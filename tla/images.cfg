SPECIFICATION ImageSpec
CONSTANTS
  NoImage = NoImage
  NoRow = NoRow
  Removed = Removed
  Deleter = {h1, h2}
  k1 = k1
  Collection = {k1}
  Item = {c1, c2}
  Home <- InOneCollection
  Scopes = {{k1}}
  Object = {o1}
SYMMETRY ImageSymmetry
INVARIANTS
  ImageTypeInvariant
  PictureKept
  PicturesGo
