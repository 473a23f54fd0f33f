SPECIFICATION Spec
CONSTANTS
  me = me
  friend = friend
  home = home
  hidden = hidden
  away = away
  Person = {me, friend}
  Me = me
  Instance = {home}
  Hidden = hidden
  Away = away
  Report <- ReportValue
  First <- FirstValue
  Outcome <- OutcomeValue
  Margin = 1
  Floor = 4
  Lookback = 9
  Instants = {0, 1, 6, 10, 17}
  Ahead = {10}
  Queries <- QueryValue
  HourLength = 4
  MaxEvidence = 3
CHECK_DEADLOCK FALSE
INVARIANTS
  CoverageIsProvable
  RangeLosesOnlyItsEdges
  SpansAreStates
  FiguresAddUp
  GapsAreNotVisits
