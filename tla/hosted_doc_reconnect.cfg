SPECIFICATION Spec
CONSTANTS
  s1 = s1
  s2 = s2
  Session = {s1, s2}
  NoSession = NoSession
  Calls = {"disconnect"}
  MaxLogins = 1
  MaxRotations = 1
  MaxRestarts = 0
PROPERTIES
  ReconnectRequiresLogin
