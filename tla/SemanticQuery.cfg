CONSTANTS
  Modes <- MCModes
  Targets <- MCTargets
  Aliases <- MCAliases
  Relations <- MCRelations
  Sentences <- MCSentences
  Messages <- MCMessages
  Places = {0, 1, 2, 4, 7}
  Approach = 2
  MinStandoff = 1
  QueueDepth = 2
  NoCommand = NoCommand
  NoAnchor = NoAnchor
  NoGoal = NoGoal
SPECIFICATION QuerySpec
INVARIANT AnswersAreBest
PROPERTY GoalsLieBetween
