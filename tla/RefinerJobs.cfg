SPECIFICATION FairSpec
CONSTANTS
  Missing = Missing
  Torn = Torn
  Poses <- OnePose
  Turn = 4
  Elapsed = {0, 1}
  Interval = 1
  MinTranslation = 0
  MinYaw = 0
  MaxFrames = 3
  MinFrames = 2
  MinPoseFrames = 1
  MinSpan = 0
  MinPath = 0
  MaxSaved = 2
  MinNewFrames = 1
  MaxKeyframes = 2
  MaxCompleted = 1
  MaxJobs = 2
INVARIANTS
  TypeOK
  OverlayIsOfThisRun
  PairsAreHonest
PROPERTIES
  JobsEnd
  AcceptedIsShown
  ImplementsOverlayPolicy
