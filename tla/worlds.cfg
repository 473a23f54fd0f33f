SPECIFICATION FairSpec
CONSTANTS
  w1 = w1
  w2 = w2
  World = {w1, w2}
  t1 = t1
  Tenant = {t1}
  d1 = d1
  d2 = d2
  Drainer = {d1, d2}
  a1 = a1
  Asker = {a1}
  NoWorld = NoWorld
  NoTenant = NoTenant
  MaxRestarts = 1
INVARIANTS
  QuietInBackoff
  ReadyIsCached
  FlightHasDrainer
  RetryAfterHonoured
PROPERTIES
  QueueMoves
