------------------------- MODULE FrontierDetection -------------------------
(***************************************************************************)
(* frontier_detection_node.cpp: turns each SLAM map into the frontiers     *)
(* goal assignment may choose from.  A frontier cell is free and touches   *)
(* an unknown one; frontier cells are grouped into 8-connected clusters;   *)
(* the centroid of a large enough cluster is published when the latest     *)
(* global costmap finds it safe.                                           *)
(*                                                                         *)
(* Lengths are in map cells and the map's origin is (0, 0), so centroids   *)
(* and costmap indices are exact fractions where the code has doubles.     *)
(* The order of the published centroids is left out.                       *)
(***************************************************************************)
EXTENDS Integers, FiniteSets, FiniteSetsExt

CONSTANTS
  None,               \* no costmap received yet
  Width, Height,      \* info.width and info.height of the maps
  MinClusterSize,     \* min_cluster_size
  UseCostmapFilter,   \* use_costmap_filter
  CostThreshold,      \* cost_threshold
  EdgeMargin,         \* costmap_edge_margin
  Maps,               \* the maps SLAM may publish
  Costmaps            \* the global costmaps Nav2 may publish

Cells == (0..Width-1) \X (0..Height-1)

CostmapCells(cm) == (0..cm.width-1) \X (0..cm.height-1)

ASSUME FrontierDetectionConstants ==
  /\ Width \in Nat \ {0} /\ Height \in Nat \ {0}
  /\ MinClusterSize \in Nat /\ CostThreshold \in Nat /\ EdgeMargin \in Nat
  /\ UseCostmapFilter \in BOOLEAN
  /\ None \notin Costmaps
  /\ \A m \in Maps : m \in [Cells -> -128..127]
  /\ \A cm \in Costmaps :
       /\ {cm.ox, cm.oy} \subseteq Int
       /\ {cm.res, cm.width, cm.height} \subseteq Nat \ {0}
       /\ cm.data \in [CostmapCells(cm) -> -128..127]

VARIABLES
  costmap,     \* current_costmap_
  map,         \* the map handled last
  safe,        \* the centroids published for it on /frontiers
  rejected     \* the centroids published as rejected markers

vars == <<costmap, map, safe, rejected>>

-----------------------------------------------------------------------------
(* Frontier cells and their clusters.                                      *)

IsFree(value) == value = 0
IsUnknown(value) == value < 0 \/ value > 100

Near(a, b) == a - b \in -1..1
Neighbours(c) == {n \in Cells : n # c /\ Near(n[1], c[1]) /\ Near(n[2], c[2])}

IsFrontierCell(grid, c) ==
  IsFree(grid[c]) /\ \E n \in Neighbours(c) : IsUnknown(grid[n])

FrontierCells(grid) == {c \in Cells : IsFrontierCell(grid, c)}

GrowStraight(S, F) ==                                    \* mutant
  S \cup {c \in F : \E n \in Neighbours(c) \cap S : n[1] = c[1] \/ n[2] = c[2]}
Grow(S, F) == S \cup {c \in F : Neighbours(c) \cap S # {}}

(* The flood fill from a seed, stage by stage.                             *)
Flood(seed, F) ==
  LET stage[n \in 0..Cardinality(F)] ==
        IF n = 0 THEN {seed} ELSE Grow(stage[n - 1], F)
  IN stage[Cardinality(F)]

ClusterByAdjacency(F) == {Flood(seed, F) : seed \in F}

-----------------------------------------------------------------------------
(* The centroid of a cluster is the point (x/n, y/n): the mean of the cell *)
(* centres (gx + 1/2, gy + 1/2).                                           *)

ClusterCentroidCorner(K) ==                              \* mutant
  [x |-> MapThenSumSet(LAMBDA c : 2 * c[1], K),
   y |-> MapThenSumSet(LAMBDA c : 2 * c[2], K),
   n |-> 2 * Cardinality(K)]
ClusterCentroid(K) ==
  [x |-> MapThenSumSet(LAMBDA c : 2 * c[1] + 1, K),
   y |-> MapThenSumSet(LAMBDA c : 2 * c[2] + 1, K),
   n |-> 2 * Cardinality(K)]

Large(K) == Cardinality(K) >= MinClusterSize

Candidates(grid) ==
  {ClusterCentroid(K) : K \in {L \in ClusterByAdjacency(FrontierCells(grid)) : Large(L)}}

-----------------------------------------------------------------------------
(* The costmap filter.                                                     *)

CostIndex(cm, p) == <<(p.x - p.n * cm.ox) \div (p.n * cm.res),
                      (p.y - p.n * cm.oy) \div (p.n * cm.res)>>

(* The byte is read as unsigned: unknown, -1, costs 255.                   *)
CostAt(cm, p) == IF CostIndex(cm, p) \in CostmapCells(cm)
                 THEN cm.data[CostIndex(cm, p)] % 256
                 ELSE 255

NearEdgeOffByOne(cm, p) ==                               \* mutant
  LET i == CostIndex(cm, p)
  IN /\ EdgeMargin > 0
     /\ \/ i[1] < EdgeMargin \/ i[1] > cm.width - EdgeMargin
        \/ i[2] < EdgeMargin \/ i[2] > cm.height - EdgeMargin
NearEdge(cm, p) ==
  LET i == CostIndex(cm, p)
  IN /\ EdgeMargin > 0
     /\ \/ i[1] < EdgeMargin \/ i[1] >= cm.width - EdgeMargin
        \/ i[2] < EdgeMargin \/ i[2] >= cm.height - EdgeMargin

IsSafe(p) ==
  \/ ~UseCostmapFilter
  \/ costmap = None
  \/ ~NearEdge(costmap, p) /\ CostAt(costmap, p) <= CostThreshold

-----------------------------------------------------------------------------
Init ==
  /\ costmap = None
  /\ map = None
  /\ safe = {} /\ rejected = {}

(* Frontiers already published are not looked at again.                    *)
CostmapCallback(cm) == costmap' = cm /\ UNCHANGED <<map, safe, rejected>>

MapCallback(grid) ==
  /\ map' = grid
  /\ LET candidates == Candidates(grid)
     IN /\ safe' = {p \in candidates : IsSafe(p)}
        /\ rejected' = {p \in candidates : ~IsSafe(p)}
  /\ UNCHANGED costmap

Next ==
  \/ \E cm \in Costmaps : CostmapCallback(cm)
  \/ \E grid \in Maps : MapCallback(grid)

Spec == Init /\ [][Next]_vars

-----------------------------------------------------------------------------
(* The clusters are the connected components of the frontier: they cover   *)
(* it, no two of them touch, and none falls apart into two that do not     *)
(* touch.  (clusterByAdjacency)                                            *)
Touch(S, T) == \E c \in S : Neighbours(c) \cap T # {}

ClustersAreComponents ==
  map # None =>
    LET F == FrontierCells(map)
        K == ClusterByAdjacency(F)
    IN /\ UNION K = F
       /\ \A S, T \in K : S # T => S \cap T = {} /\ ~Touch(S, T)
       /\ \A S \in K : \A T \in (SUBSET S) \ {{}, S} : Touch(T, S \ T)

(* With the filter on and a costmap received, a centroid is published only *)
(* when its costmap cell exists, is at least EdgeMargin cells from every   *)
(* border and was within the threshold in the costmap then current.        *)
(* (mapCallback)                                                           *)
Centred(cm, i) == i \in (EdgeMargin..cm.width - 1 - EdgeMargin)
                          \X (EdgeMargin..cm.height - 1 - EdgeMargin)
PublishedAreSafe ==
  [][map' # None /\ MapCallback(map') /\ UseCostmapFilter /\ costmap # None =>
       \A p \in safe' :
         LET i == CostIndex(costmap, p)
         IN Centred(costmap, i) /\ costmap.data[i] \in 0..CostThreshold]_vars

(* A cluster's centroid lies within the cluster's bounding box, so a       *)
(* frontier is never reported outside the map it was seen in.              *)
(* (clusterCentroid)                                                       *)
CentroidInBox(K) ==
  LET p == ClusterCentroid(K)
  IN /\ \E c \in K : 2 * p.x >= p.n * (2 * c[1] + 1)
     /\ \E c \in K : 2 * p.x <= p.n * (2 * c[1] + 1)
     /\ \E c \in K : 2 * p.y >= p.n * (2 * c[2] + 1)
     /\ \E c \in K : 2 * p.y <= p.n * (2 * c[2] + 1)
CentroidsInBox == map # None => \A K \in ClusterByAdjacency(FrontierCells(map)) : CentroidInBox(K)
=============================================================================
