SPECIFICATION FairSpec
CONSTANTS
  Goals = {g1, g2}
  None = None
  Places = {0, 1, 3}
  MinDistance = 1
  AvoidRadius = 2
  LoopRadius = 1
  MaxVisits = 1
  HistoryLimit = 2
  InitiallyEnabled = TRUE
  WarmupRequired = TRUE
  GoalsExpire = TRUE
  MaxFrontiers = 1
INVARIANTS
  TypeOK
  DisabledIsIdle
  NavigatingIsAnswerable
  HandleIsUsable
PROPERTY GoalsEnd
