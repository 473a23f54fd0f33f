SPECIFICATION FairSpec
CONSTANTS
  MaxTime = 3
  Keep = 1
  PerDay = 2
  PerMonth = 3
  Parts = 1
  Attempts = 2
  MaxFaults = 1
  Content <- MCContent
PROPERTIES
  BackupLeaves
  SuccessFollows
