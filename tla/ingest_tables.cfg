SPECIFICATION Spec
CONSTANTS
  f1 = f1
  f2 = f2
  Friend = {f1, f2}
  Online = {"active"}
  Category = {"network"}
  Skews = {0}
  Grace = 1
  EventLimit = 3
  MaxWire = 1
  MaxClock = 4
SYMMETRY FriendSymmetry
INVARIANTS
  TrackedIsLastSnapshot
  RowChangeIsInHistory
  UsageMatchesTables
  QuietSnapshotHolds
  FailuresAreTransitions
