SPECIFICATION FirstMapSpec
CONSTANTS
  None = None
  Width = 3
  Height = 3
  MinClusterSize = 2
  UseCostmapFilter = TRUE
  CostThreshold = 50
  EdgeMargin = 1
  Maps <- SmallMaps
  Costmaps <- TwoCostmaps
CHECK_DEADLOCK FALSE
INVARIANTS
  ClustersAreComponents
  CentroidsInBox
PROPERTY PublishedAreSafe
