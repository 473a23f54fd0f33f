SPECIFICATION Spec
CONSTANTS
  Tenant = {t1, h1}
  Hosted = {h1}
  Code = {c1, c2}
  Session = {s1}
  Challenge = {k1}
  Request = {r1, r2}
  Address = {a1}
  Attempts = 1
  None = None
  MaxChanges = 3
SYMMETRY Symmetry
INVARIANTS
  OldCodesAreOut
  AuditCountsRevocations
  AttemptsBounded
PROPERTIES
  CompletedOnce
