SPECIFICATION FairSpec
CONSTANTS
  s1 = s1
  s2 = s2
  Session = {s1, s2}
  NoSession = NoSession
  Calls = {"throttle", "sync"}
  MaxLogins = 2
  MaxRotations = 0
  MaxRestarts = 0
PROPERTIES
  StoredLoginReachesCollector
  SupersededListenerEnds
  SessionIsPolled
