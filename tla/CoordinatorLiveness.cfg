SPECIFICATION FairSpec
CONSTANTS
  Goals = {g1, g2}
  None = None
  InitiallyArmed = TRUE
  ReadinessRequired = TRUE
  AutoResume = TRUE
  NavTimeoutOn = TRUE
  SweepEnabled = TRUE
  PromptAnswers = TRUE
  IdleChecks = 1
  MaxCommands = 1

PROPERTIES
  QueriesEnd
  OutcomesResume
  HeldGoalEnds
