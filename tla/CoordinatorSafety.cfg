SPECIFICATION Spec
CONSTANTS
  Goals = {g1, g2}
  None = None
  InitiallyArmed = TRUE
  ReadinessRequired = TRUE
  AutoResume = TRUE
  NavTimeoutOn = TRUE
  SweepEnabled = TRUE
  PromptAnswers = TRUE
  IdleChecks = 2
  MaxCommands = 2
SYMMETRY GoalSymmetry
INVARIANTS
  TypeOK
  DisarmedIsQuiet
  ServingUndisturbed
  ModeMatchesPermission
  HandleIsUsable
PROPERTIES
  ImplementsModePolicy
