SPECIFICATION Spec
CONSTANTS
  a = a
  b = b
  p = p
  n1 = n1
  n2 = n2
  e = e
  Site = {a, b}
  Row = {p}
  Player = {p}
  Tag = {1, 2}
  Name = {n1, n2}
  Fact = {e}
  Raw = {e}
  Reader = {a}
  None = None
  MaxTime = 2
  MaxEdits = 4
SYMMETRY NameSymmetry
CHECK_DEADLOCK FALSE
INVARIANTS
  TablesAreWhole
  ImportOnlyAddsOnce
  SitesConverge
  RevisionNamesNote
