SPECIFICATION Spec
CONSTANTS
  Device = {d1, d2}
  Visitor = {v1}
  Text = {Blank, x}
  Password = {p1, p2}
  Tag = {g1, g2}
  Name = {"vip", "VIP", "met"}
  Fold <- MCFold
  Blank = Blank
  None = None
  Gone = Gone
  MaxWrites = 2
  MaxLate = 1
SYMMETRY Symmetry
ACTION_CONSTRAINT Apart
INVARIANTS
  BaseIsItsRevision
  GrantsProvePassword
  TagsConsistent
PROPERTIES
  NobodyOverwritesUnseen
