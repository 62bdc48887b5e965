SPECIFICATION FairSpec
CONSTANTS
  SemanticGoals = {s1}
  FrontierGoals = {f1}
  None = None
  InitiallyArmed = TRUE
  ReadinessRequired = FALSE
  AutoResume = TRUE
  NavTimeoutOn = FALSE
  SweepEnabled = TRUE
  PromptAnswers = TRUE
  IdleChecks = 1
  MaxCommands = 1
  Places = {0}
  MinDistance = 0
  AvoidRadius = 0
  LoopRadius = 0
  MaxVisits = 1
  HistoryLimit = 1
  WarmupRequired = FALSE
  GoalsExpire = FALSE
  MaxFrontiers = 1
  MaxMessages = 2
INVARIANTS
  ServingPausesExploration
  ExploringMeansEnabled
PROPERTY ExplorationIsGivenBack
