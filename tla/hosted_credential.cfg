SPECIFICATION Spec
CONSTANTS
  s1 = s1
  s2 = s2
  Session = {s1, s2}
  NoSession = NoSession
  Calls = {"disconnect"}
  MaxLogins = 2
  MaxRotations = 1
  MaxRestarts = 1
SYMMETRY SessionSymmetry
ACTION_CONSTRAINT StopsBeforeRelogin
INVARIANTS
  RevisionIdentifiesLogin
  InactiveStoresNoCredential
