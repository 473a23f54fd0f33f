SPECIFICATION Spec
CONSTANTS
  s1 = s1
  s2 = s2
  Session = {s1, s2}
  NoSession = NoSession
  Calls = {"refuse", "sync", "disconnect", "world"}
  MaxLogins = 1
  MaxRotations = 0
  MaxRestarts = 0
SYMMETRY SessionSymmetry
INVARIANTS
  BlockedHasNoSession
  NoOrphanListener
  
PROPERTIES
  StoppedStaysStopped
CONSTRAINT OneRefused
