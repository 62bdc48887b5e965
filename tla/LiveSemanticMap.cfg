CONSTANTS
  Turn = 12
  Fov = 4
  ImageWidth = 4
  Window = 0
  MinRange = 1
  MaxRange = 8
  NoReturn = NoReturn
  ClusterDistance = 1
  NearDistance = 2
  AnchorDistance = 1
  RefinedDistance = 2
  MinConfidence = 5
  Poses <- MCPoses
  Lost = Lost
  Scans <- MCScans
  NoScan = NoScan
  Maps <- MCMaps
  NoMap = NoMap
  RefinedStates <- MCRefinedStates
  NoRefined = NoRefined
  Names <- MCNames
  Pixels = {0, 3}
  MaxDetections = 2
  MaxEntities = 2
  MaxLag = 1
  MaxJump = 1
  MatchDistance = 2
  Alpha = 3
  StaleTimeout = 1
  RemoveTimeout = 2
  SampleInterval = 1
SPECIFICATION FairSpec
INVARIANT TypeOK
INVARIANT RefinementStandsOnLive
INVARIANT RaysMatchBearings
PROPERTY UnseenIsForgotten
