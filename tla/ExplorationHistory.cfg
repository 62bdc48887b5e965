SPECIFICATION HistorySpec
CONSTANTS
  Goals = {g1, g2}
  None = None
  Places = {0, 1, 3}
  MinDistance = 1
  AvoidRadius = 2
  LoopRadius = 1
  MaxVisits = 2
  HistoryLimit = 3
  InitiallyEnabled = TRUE
  WarmupRequired = FALSE
  GoalsExpire = TRUE
  MaxFrontiers = 1
SYMMETRY GoalSymmetry
INVARIANT TwoGoalsHaveACause
PROPERTIES
  StrayOutcomesHaveACause
  ArrivalsAreSpaced
