SPECIFICATION Spec
CONSTANTS
  MaxTime = 3
  Keep = 1
  PerDay = 2
  PerMonth = 3
  Parts = 2
  Attempts = 2
  MaxFaults = 2
  Content <- MCContent
INVARIANTS
  RecordedIsStored
  FaultsBoundWaste
CONSTRAINT OneLate
