SPECIFICATION Spec
CONSTANTS
  None = None
  Labels <- PersonOrBench
  Sightings = {0, 1}
  MatchDistance = 2
  StaleTimeout = 1
  RemoveTimeout = 2
  MaxLag = 0
  MaxIds = 2
  Maps <- TwoObstacles
  Exclusive <- PersonOrBench
  ExcludedClasses = {}
  MaxRange <- Ranges
  MinObservations <- Twice
  MergeDistance = 3
  CandidateDistance = 3
  MutexDistance = 3
  MutexMinCount = 1
  CandidateTimeout = 1
  AllowLidarOnly = FALSE
  RobotPlaces = {0, 5}
  MaxCount = 4
INVARIANTS
  TypeOK
  
PROPERTY IdsAreNotReused
