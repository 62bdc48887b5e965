---------------------- MODULE FrontierDetectionProofs ----------------------
(***************************************************************************)
(* What FrontierDetection promises for maps and costmaps of every size:    *)
(* its clusters are the connected components of the frontier, and what it  *)
(* publishes under the costmap filter is safe.                             *)
(***************************************************************************)
EXTENDS FrontierDetection, FiniteSetTheorems, WellFoundedInduction, TLAPS

(* Induction over the naturals, for a set of them.                         *)
LEMMA Induction ==
  ASSUME NEW T, 0 \in T, \A n \in Nat : n \in T => n + 1 \in T
  PROVE  Nat \subseteq T
<1> SUFFICES ASSUME Nat \ T # {} PROVE FALSE
  OBVIOUS
<1>1. PICK m \in Nat \ T : \A n \in Nat \ T : <<n, m>> \notin OpToRel(<, Nat)
  BY WFMin, NatLessThanWellFounded
<1>2. \A n \in Nat : n < m => <<n, m>> \in OpToRel(<, Nat)
  BY DEF OpToRel
<1>3. \A n \in Nat : n < m => n \in T
  BY <1>1, <1>2, Zenon
<1>4. m \in Nat /\ m \notin T
  OBVIOUS
<1> QED BY <1>3, <1>4

LEMMA NaturalMinimum ==
  ASSUME NEW S, S \subseteq Nat, S # {}
  PROVE  \E m \in S : \A n \in S : m <= n
<1>1. PICK m \in S : \A n \in S : <<n, m>> \notin OpToRel(<, Nat)
  BY WFMin, NatLessThanWellFounded
<1>2. \A n \in S : n < m => <<n, m>> \in OpToRel(<, Nat)
  BY DEF OpToRel
<1>3. \A n \in S : ~(n < m)
  BY <1>1, <1>2, Zenon
<1> QED BY <1>3

-----------------------------------------------------------------------------
(* The cells of a map, and who neighbours whom.                            *)

LEMMA CellsAreFinite == IsFiniteSet(Cells)
<1>1. Width - 1 \in Int /\ Height - 1 \in Int
  BY FrontierDetectionConstants
<1>2. IsFiniteSet(0..Width-1) /\ IsFiniteSet(0..Height-1)
  BY <1>1, FS_Interval
<1> QED BY <1>2, FS_Product DEF Cells

LEMMA FrontierIsFinite ==
  ASSUME NEW grid
  PROVE  FrontierCells(grid) \subseteq Cells /\ IsFiniteSet(FrontierCells(grid))
<1>1. FrontierCells(grid) \in SUBSET Cells
  BY DEF FrontierCells
<1> QED BY <1>1, CellsAreFinite, FS_Subset

LEMMA NeighboursAreMutual ==
  ASSUME NEW c \in Cells, NEW n \in Neighbours(c)
  PROVE  n \in Cells /\ c \in Neighbours(n)
<1>1. /\ n \in Cells /\ n # c
      /\ Near(n[1], c[1]) /\ Near(n[2], c[2])
  BY DEF Neighbours
<1>2. /\ c[1] \in Int /\ c[2] \in Int
      /\ n[1] \in Int /\ n[2] \in Int
  BY <1>1, FrontierDetectionConstants DEF Cells
<1>3. Near(c[1], n[1]) /\ Near(c[2], n[2])
  BY <1>1, <1>2 DEF Near
<1> QED BY <1>1, <1>3 DEF Neighbours

-----------------------------------------------------------------------------
(* The flood fill.                                                         *)

LEMMA FloodStages ==
  ASSUME NEW F, IsFiniteSet(F), NEW seed
  PROVE  \E stage : /\ Flood(seed, F) = stage[Cardinality(F)]
                    /\ stage[0] = {seed}
                    /\ \A n \in 1..Cardinality(F) : stage[n] = Grow(stage[n - 1], F)
<1> DEFINE N == Cardinality(F)
           Step(f, n) == IF n = 0 THEN {seed} ELSE Grow(f[n - 1], F)
           Upto(f, n) == /\ f = [k \in 0..n |-> f[k]]
                         /\ \A k \in 0..n : f[k] = Step(f, k)
           T == {n \in Nat : \E f : Upto(f, n)}
<1>0. N \in Nat
  BY FS_CardinalityType
<1>1. 0 \in T
  <2> DEFINE f == [k \in 0..0 |-> {seed}]
  <2>1. Upto(f, 0)
    OBVIOUS
  <2> QED BY <2>1
<1>2. ASSUME NEW n \in Nat, n \in T
      PROVE  n + 1 \in T
  <2>1. PICK f : Upto(f, n)
    BY <1>2
  <2> DEFINE longer == [k \in 0..(n + 1) |-> IF k <= n THEN f[k] ELSE Step(f, k)]
  <2>2. ASSUME NEW k \in 0..(n + 1)
        PROVE  longer[k] = Step(longer, k)
    <3>1. k # 0 => k - 1 \in 0..n /\ longer[k - 1] = f[k - 1]
      OBVIOUS
    <3>2. longer[k] = Step(f, k)
      <4>1. longer[k] = IF k <= n THEN f[k] ELSE Step(f, k)
        OBVIOUS
      <4>2. k <= n => k \in 0..n
        OBVIOUS
      <4> HIDE DEF Step, longer
      <4>3. \A j \in 0..n : f[j] = Step(f, j)
        BY <2>1
      <4> QED BY <4>1, <4>2, <4>3
    <3> HIDE DEF longer
    <3> QED BY <3>1, <3>2
  <2>3. longer = [k \in 0..(n + 1) |-> longer[k]]
    OBVIOUS
  <2>4. Upto(longer, n + 1)
    BY <2>2, <2>3
  <2> HIDE DEF Upto, longer
  <2> QED BY <2>4
<1>3. PICK f : Upto(f, N)
  <2> HIDE DEF Upto, N
  <2>1. N \in T
    BY <1>0, <1>1, <1>2, Induction
  <2> QED BY <2>1
<1> DEFINE stage == CHOOSE g : g = [n \in 0..Cardinality(F) |-> Step(g, n)]
<1>4. f = [n \in 0..N |-> Step(f, n)]
  BY <1>3
<1>5. stage = [n \in 0..N |-> Step(stage, n)]
  BY <1>4
<1>6. Flood(seed, F) = stage[N]
  BY DEF Flood
<1> HIDE DEF stage
<1>7. \A n \in 0..N : stage[n] = Step(stage, n)
  BY <1>5, Zenon
<1>8. stage[0] = {seed} /\ \A n \in 1..N : stage[n] = Step(stage, n)
  BY <1>0, <1>7
<1> QED BY <1>6, <1>8

(* A flood ends with the least set of cells that holds its seed and every  *)
(* frontier cell with a neighbour in it: as many stages as there are cells *)
(* are enough, for every stage but the last adds one.                      *)
LEMMA FloodIsLeast ==
  ASSUME NEW F, IsFiniteSet(F), NEW seed \in F
  PROVE  /\ seed \in Flood(seed, F)
         /\ Flood(seed, F) \subseteq F
         /\ Grow(Flood(seed, F), F) = Flood(seed, F)
         /\ \A X : seed \in X /\ Grow(X, F) \subseteq X => Flood(seed, F) \subseteq X
<1> DEFINE N == Cardinality(F)
<1>0. N \in Nat
  BY FS_CardinalityType
<1>1. PICK stage : /\ Flood(seed, F) = stage[N]
                   /\ stage[0] = {seed}
                   /\ \A n \in 1..N : stage[n] = Grow(stage[n - 1], F)
  BY FloodStages
<1> HIDE DEF N
<1>2. \A n \in Nat : n + 1 <= N => stage[n + 1] = Grow(stage[n], F)
  <2> SUFFICES ASSUME NEW n \in Nat, n + 1 <= N
               PROVE  stage[n + 1] = Grow(stage[n], F)
    OBVIOUS
  <2>1. n + 1 \in 1..N /\ (n + 1) - 1 = n
    BY <1>0
  <2> QED BY <1>1, <2>1
<1>3. \A n \in Nat : n <= N => seed \in stage[n] /\ stage[n] \subseteq F
  <2> DEFINE T == {n \in Nat : n <= N => seed \in stage[n] /\ stage[n] \subseteq F}
  <2>1. 0 \in T
    BY <1>1
  <2>2. ASSUME NEW n \in Nat, n \in T
        PROVE  n + 1 \in T
    BY <1>0, <1>2, <2>2 DEF Grow
  <2> HIDE DEF T
  <2>3. Nat \subseteq T
    BY <2>1, <2>2, Induction
  <2> QED BY <2>3 DEF T
<1>4. ASSUME NEW X, seed \in X, Grow(X, F) \subseteq X
      PROVE  Flood(seed, F) \subseteq X
  <2> DEFINE T == {n \in Nat : n <= N => stage[n] \subseteq X}
  <2>1. 0 \in T
    BY <1>1, <1>4
  <2>2. ASSUME NEW n \in Nat, n \in T
        PROVE  n + 1 \in T
    <3>1. ASSUME n + 1 <= N PROVE stage[n + 1] \subseteq X
      <4>1. stage[n] \subseteq X
        BY <1>0, <2>2, <3>1
      <4>2. Grow(stage[n], F) \subseteq Grow(X, F)
        BY <4>1 DEF Grow
      <4> QED BY <1>2, <1>4, <3>1, <4>2
    <3> QED BY <3>1
  <2> HIDE DEF T
  <2>3. N \in T
    BY <1>0, <2>1, <2>2, Induction
  <2> QED BY <1>0, <1>1, <2>3 DEF T
<1>5. Grow(stage[N], F) = stage[N]
  <2> DEFINE Stuck(n) == Grow(stage[n], F) = stage[n]
             T == {n \in Nat : n <= N => Stuck(n) \/ Cardinality(stage[n]) >= n + 1}
  <2>0. \A n \in Nat : n <= N => IsFiniteSet(stage[n]) /\ Cardinality(stage[n]) \in Nat
    BY <1>3, FS_Subset, FS_CardinalityType
  <2>1. 0 \in T
    <3>1. Cardinality(stage[0]) = 1
      BY <1>1, FS_Singleton
    <3> QED BY <3>1
  <2>2. ASSUME NEW n \in Nat, n \in T
        PROVE  n + 1 \in T
    <3> SUFFICES ASSUME n + 1 <= N
                 PROVE  Stuck(n + 1) \/ Cardinality(stage[n + 1]) >= n + 2
      OBVIOUS
    <3>0. n <= N
      BY <1>0
    <3>1. stage[n + 1] = Grow(stage[n], F)
      BY <1>2
    <3>2. CASE Stuck(n)
      BY <3>1, <3>2
    <3>3. CASE ~Stuck(n)
      <4>1. Cardinality(stage[n]) >= n + 1
        BY <2>2, <3>0, <3>3
      <4>2. PICK x \in Grow(stage[n], F) : x \notin stage[n]
        BY <3>3 DEF Grow
      <4>3. stage[n] \cup {x} \subseteq stage[n + 1]
        BY <3>1, <4>2 DEF Grow
      <4>4. IsFiniteSet(stage[n]) /\ Cardinality(stage[n]) \in Nat
        BY <2>0, <3>0
      <4>5. Cardinality(stage[n] \cup {x}) = Cardinality(stage[n]) + 1
        BY <4>2, <4>4, FS_AddElement
      <4>6. Cardinality(stage[n] \cup {x}) <= Cardinality(stage[n + 1])
        BY <2>0, <4>3, FS_Subset
      <4>7. Cardinality(stage[n + 1]) \in Nat
        BY <2>0
      <4> QED BY <4>1, <4>4, <4>5, <4>6, <4>7
    <3> QED BY <3>2, <3>3
  <2> HIDE DEF T, Stuck
  <2>3. N \in T
    BY <1>0, <2>1, <2>2, Induction
  <2>4. Stuck(N) \/ Cardinality(stage[N]) >= N + 1
    BY <1>0, <2>3 DEF T
  <2>5. Cardinality(stage[N]) <= N
    BY <1>0, <1>3, FS_Subset DEF N
  <2>6. Cardinality(stage[N]) \in Nat
    BY <1>0, <2>0
  <2>7. Stuck(N)
    BY <1>0, <2>4, <2>5, <2>6
  <2> QED BY <2>7 DEF Stuck
<1> QED BY <1>0, <1>1, <1>3, <1>4, <1>5

-----------------------------------------------------------------------------
(* Two cells of one flood are never parted by a cut nothing crosses.       *)
LEMMA FloodIsConnected ==
  ASSUME NEW F \in SUBSET Cells, IsFiniteSet(F), NEW seed \in F,
         NEW T \in (SUBSET Flood(seed, F)) \ {{}, Flood(seed, F)}
  PROVE  Touch(T, Flood(seed, F) \ T)
<1> DEFINE C == Flood(seed, F)
<1>1. /\ seed \in C /\ C \subseteq F /\ Grow(C, F) = C
      /\ \A X : seed \in X /\ Grow(X, F) \subseteq X => C \subseteq X
  BY FloodIsLeast
<1> HIDE DEF C
<1>2. /\ T \subseteq C /\ T # {} /\ T # C
  BY DEF C
<1>3. ASSUME ~Touch(T, C \ T) PROVE FALSE
  <2>1. \A c \in T : \A n \in C \ T : n \notin Neighbours(c) /\ c \notin Neighbours(n)
    <3> SUFFICES ASSUME NEW c \in T, NEW n \in C \ T
                 PROVE  n \notin Neighbours(c) /\ c \notin Neighbours(n)
      OBVIOUS
    <3>1. c \in Cells /\ n \in Cells
      BY <1>1, <1>2
    <3>2. n \notin Neighbours(c)
      BY <1>3 DEF Touch
    <3> QED BY <3>1, <3>2, NeighboursAreMutual
  <2>2. CASE seed \in T
    <3>1. Grow(T, F) \subseteq T
      <4> SUFFICES ASSUME NEW c \in F, NEW n \in T, n \in Neighbours(c)
                   PROVE  c \in T
        BY DEF Grow
      <4>1. c \in Grow(C, F)
        BY <1>2 DEF Grow
      <4> QED BY <1>1, <2>1, <4>1
    <3> QED BY <1>1, <1>2, <2>2, <3>1
  <2>3. CASE seed \notin T
    <3>1. Grow(C \ T, F) \subseteq C \ T
      <4> SUFFICES ASSUME NEW c \in F, NEW n \in C \ T, n \in Neighbours(c)
                   PROVE  c \in C \ T
        BY DEF Grow
      <4>1. c \in Grow(C, F)
        BY DEF Grow
      <4> QED BY <1>1, <2>1, <4>1
    <3> QED BY <1>1, <1>2, <2>3, <3>1
  <2> QED BY <2>2, <2>3
<1> QED BY <1>3 DEF C

LEMMA FloodsTouchOrAreOne ==
  ASSUME NEW F \in SUBSET Cells, IsFiniteSet(F), NEW s \in F, NEW t \in F,
         \/ Flood(s, F) \cap Flood(t, F) # {}
         \/ Touch(Flood(s, F), Flood(t, F))
  PROVE  Flood(s, F) = Flood(t, F)
<1> DEFINE S == Flood(s, F)
           T == Flood(t, F)
<1>1. /\ S \subseteq F /\ Grow(S, F) = S
      /\ T \subseteq F /\ Grow(T, F) = T
  BY FloodIsLeast
<1>2. S \cap T # {}
  <2>1. CASE Touch(S, T)
    <3>1. PICK c \in S : Neighbours(c) \cap T # {}
      BY <2>1 DEF Touch
    <3>2. PICK n \in T : n \in Neighbours(c)
      BY <3>1
    <3> HIDE DEF S, T
    <3>3. c \in Neighbours(n) /\ n \in F
      BY <1>1, <3>2, NeighboursAreMutual
    <3>4. n \in Grow(S, F)
      BY <3>3 DEF Grow
    <3> QED BY <1>1, <3>4
  <2> QED BY <2>1
(* A flood that meets a closed set lies in it.                             *)
<1>3. ASSUME NEW r \in F, NEW U, U \subseteq F, Grow(U, F) = U, U \cap Flood(r, F) # {}
      PROVE  Flood(r, F) \subseteq U
  <2> DEFINE R == Flood(r, F)
  <2> SUFFICES ASSUME ~(R \subseteq U) PROVE FALSE
    OBVIOUS
  <2>1. R \subseteq F
    BY FloodIsLeast
  <2>2. R \cap U \in (SUBSET R) \ {{}, R}
    BY <1>3
  <2>3. Touch(R \cap U, R \ (R \cap U))
    BY <2>2, FloodIsConnected
  <2> HIDE DEF R
  <2>4. PICK c \in R \cap U, n \in R \ U : n \in Neighbours(c)
    BY <2>3 DEF Touch
  <2>5. c \in Neighbours(n) /\ n \in F
    BY <2>1, <2>4, NeighboursAreMutual
  <2>6. n \in Grow(U, F)
    BY <2>5 DEF Grow
  <2> QED BY <1>3, <2>4, <2>6
<1>4. T \subseteq S
  BY <1>1, <1>2, <1>3
<1>5. S \subseteq T
  BY <1>1, <1>2, <1>3
<1> QED BY <1>4, <1>5

-----------------------------------------------------------------------------
(* The clusters published from are the connected components of the         *)
(* frontier of the map handled last, for maps of every size.               *)
(* (clusterByAdjacency)                                                    *)
THEOREM ClustersAreAlwaysComponents == Spec => []ClustersAreComponents
<1>1. ClustersAreComponents
  <2> SUFFICES ASSUME map # None
               PROVE  LET F == FrontierCells(map)
                          K == ClusterByAdjacency(F)
                      IN /\ UNION K = F
                         /\ \A S, T \in K : S # T => S \cap T = {} /\ ~Touch(S, T)
                         /\ \A S \in K : \A T \in (SUBSET S) \ {{}, S} : Touch(T, S \ T)
    BY DEF ClustersAreComponents
  <2> DEFINE F == FrontierCells(map)
             K == ClusterByAdjacency(F)
  <2>1. F \in SUBSET Cells /\ IsFiniteSet(F)
    BY FrontierIsFinite
  <2> HIDE DEF F
  <2>2. UNION K = F
    <3>1. \A s \in F : s \in Flood(s, F) /\ Flood(s, F) \subseteq F
      BY <2>1, FloodIsLeast
    <3> QED BY <3>1 DEF ClusterByAdjacency
  <2>3. \A S, T \in K : S # T => S \cap T = {} /\ ~Touch(S, T)
    BY <2>1, FloodsTouchOrAreOne DEF ClusterByAdjacency
  <2>4. \A S \in K : \A T \in (SUBSET S) \ {{}, S} : Touch(T, S \ T)
    BY <2>1, FloodIsConnected DEF ClusterByAdjacency
  <2> QED BY <2>2, <2>3, <2>4 DEF F
<1> QED BY <1>1, PTL
-----------------------------------------------------------------------------
(* Sums over a set, taken element by element as MapThenSumSet takes them.  *)

AnyOf(s) == CHOOSE x \in s : TRUE

IsSumOf(total, g, K) ==
  /\ total = [s \in SUBSET K |-> total[s]]
  /\ \A s \in SUBSET K :
       total[s] = IF s = {} THEN 0 ELSE g[AnyOf(s)] + total[s \ {AnyOf(s)}]

(* There is such a sum: subsets of each size are summed after smaller      *)
(* ones.                                                                   *)
LEMMA SumsExist ==
  ASSUME NEW K, IsFiniteSet(K), NEW g
  PROVE  \E total : IsSumOf(total, g, K)
<1> DEFINE Step(f, s) == IF s = {} THEN 0 ELSE g[AnyOf(s)] + f[s \ {AnyOf(s)}]
           Small(n) == {s \in SUBSET K : Cardinality(s) <= n}
           Upto(f, n) == /\ f = [s \in Small(n) |-> f[s]]
                         /\ \A s \in Small(n) : f[s] = Step(f, s)
           T == {n \in Nat : \E f : Upto(f, n)}
<1>0. \A s \in SUBSET K :
        /\ IsFiniteSet(s) /\ Cardinality(s) \in Nat
        /\ Cardinality(s) <= Cardinality(K)
        /\ Cardinality(s) = 0 <=> s = {}
  BY FS_Subset, FS_CardinalityType, FS_EmptySet
<1>00. \A s \in SUBSET K : s # {} =>
         /\ s \ {AnyOf(s)} \in SUBSET K
         /\ Cardinality(s \ {AnyOf(s)}) = Cardinality(s) - 1
  <2> SUFFICES ASSUME NEW s \in SUBSET K, s # {}
               PROVE  Cardinality(s \ {AnyOf(s)}) = Cardinality(s) - 1
    OBVIOUS
  <2>1. AnyOf(s) \in s
    BY DEF AnyOf
  <2> QED BY <1>0, <2>1, FS_RemoveElement
<1>1. 0 \in T
  <2> DEFINE f == [s \in Small(0) |-> 0]
  <2>1. \A s \in Small(0) : s = {}
    BY <1>0
  <2>2. Upto(f, 0)
    BY <2>1
  <2> QED BY <2>2
<1>2. ASSUME NEW n \in Nat, n \in T
      PROVE  n + 1 \in T
  <2>1. PICK f : Upto(f, n)
    BY <1>2
  <2> DEFINE longer == [s \in Small(n + 1) |-> IF Cardinality(s) <= n THEN f[s] ELSE Step(f, s)]
  <2>2. ASSUME NEW s \in Small(n + 1)
        PROVE  longer[s] = Step(longer, s)
    <3>1. s # {} => /\ s \ {AnyOf(s)} \in Small(n)
                    /\ s \ {AnyOf(s)} \in Small(n + 1)
      BY <1>0, <1>00
    <3>2. s # {} => longer[s \ {AnyOf(s)}] = f[s \ {AnyOf(s)}]
      BY <3>1
    <3>3. longer[s] = Step(f, s)
      <4>1. longer[s] = IF Cardinality(s) <= n THEN f[s] ELSE Step(f, s)
        OBVIOUS
      <4>2. Cardinality(s) <= n => s \in Small(n)
        OBVIOUS
      <4> HIDE DEF Step, longer, Small
      <4>3. \A r \in Small(n) : f[r] = Step(f, r)
        BY <2>1
      <4> QED BY <4>1, <4>2, <4>3
    <3> HIDE DEF longer
    <3> QED BY <3>2, <3>3
  <2>3. longer = [s \in Small(n + 1) |-> longer[s]]
    OBVIOUS
  <2>4. Upto(longer, n + 1)
    BY <2>2, <2>3
  <2> HIDE DEF Upto, longer
  <2> QED BY <2>4
<1>3. Cardinality(K) \in Nat
  BY <1>0
<1>4. PICK f : Upto(f, Cardinality(K))
  <2> HIDE DEF Upto
  <2>1. Cardinality(K) \in T
    BY <1>1, <1>2, <1>3, Induction
  <2> QED BY <2>1
<1>5. Small(Cardinality(K)) = SUBSET K
  BY <1>0
<1>6. IsSumOf(f, g, K)
  BY <1>4, <1>5 DEF IsSumOf
<1> QED BY <1>6

(* A sum lies between so many times the least and the greatest summand.    *)
LEMMA SumsAreBounded ==
  ASSUME NEW K, IsFiniteSet(K), NEW g, NEW total, IsSumOf(total, g, K),
         NEW lo \in Int, NEW hi \in Int,
         \A c \in K : g[c] \in Int /\ lo <= g[c] /\ g[c] <= hi
  PROVE  /\ total[K] \in Int
         /\ Cardinality(K) \in Nat
         /\ lo * Cardinality(K) <= total[K]
         /\ total[K] <= hi * Cardinality(K)
<1> DEFINE Bounded(s, n) == /\ total[s] \in Int
                            /\ lo * n <= total[s] /\ total[s] <= hi * n
           T == {n \in Nat : \A s \in SUBSET K : Cardinality(s) = n => Bounded(s, n)}
<1>0. \A s \in SUBSET K :
        /\ IsFiniteSet(s) /\ Cardinality(s) \in Nat
        /\ Cardinality(s) = 0 <=> s = {}
  BY FS_Subset, FS_CardinalityType, FS_EmptySet
<1>1. 0 \in T
  <2>1. \A s \in SUBSET K : Cardinality(s) = 0 => total[s] = 0
    BY <1>0 DEF IsSumOf
  <2>2. lo * 0 = 0 /\ hi * 0 = 0
    OBVIOUS
  <2> QED BY <2>1, <2>2
<1>2. ASSUME NEW n \in Nat, n \in T
      PROVE  n + 1 \in T
  <2> SUFFICES ASSUME NEW s \in SUBSET K, Cardinality(s) = n + 1
               PROVE  Bounded(s, n + 1)
    OBVIOUS
  <2> DEFINE x == AnyOf(s)
             rest == s \ {x}
  <2>1. s # {} /\ IsFiniteSet(s)
    BY <1>0
  <2>2. x \in s
    BY <2>1 DEF AnyOf
  <2>3. rest \in SUBSET K /\ Cardinality(rest) = n
    <3>1. Cardinality(rest) = Cardinality(s) - 1
      <4> HIDE DEF x
      <4> QED BY <2>1, <2>2, FS_RemoveElement
    <3> QED BY <3>1
  <2>4. total[s] = g[x] + total[rest]
    BY <2>1 DEF IsSumOf
  <2>5. Bounded(rest, n)
    BY <1>2, <2>3
  <2>6. g[x] \in Int /\ lo <= g[x] /\ g[x] <= hi
    BY <2>2
  <2>7. lo * (n + 1) = lo * n + lo /\ hi * (n + 1) = hi * n + hi
    OBVIOUS
  <2>8. lo * n \in Int /\ hi * n \in Int
    OBVIOUS
  <2> DEFINE l == lo * n
             h == hi * n
             y == g[x]
             r == total[rest]
  <2>9. /\ l \in Int /\ h \in Int /\ y \in Int /\ r \in Int
        /\ lo <= y /\ y <= hi /\ l <= r /\ r <= h
    BY <2>5, <2>6, <2>8
  <2>10. total[s] = y + r
    BY <2>4
  <2>11. lo * (n + 1) = l + lo /\ hi * (n + 1) = h + hi
    BY <2>7
  <2> HIDE DEF x, rest, l, h, y, r
  <2> QED BY <2>9, <2>10, <2>11
<1> HIDE DEF T
<1>3. Cardinality(K) \in T
  BY <1>0, <1>1, <1>2, Induction
<1> QED BY <1>0, <1>3 DEF T

(* The two sums of a cluster's centroid.                                   *)
LEMMA CentroidIsSums ==
  ASSUME NEW K \in SUBSET Cells, IsFiniteSet(K)
  PROVE  \E tx, ty : /\ IsSumOf(tx, [c \in K |-> 2 * c[1] + 1], K)
                     /\ IsSumOf(ty, [c \in K |-> 2 * c[2] + 1], K)
                     /\ ClusterCentroid(K) = [x |-> tx[K], y |-> ty[K], n |-> 2 * Cardinality(K)]
<1> DEFINE gx == [c \in K |-> 2 * c[1] + 1]
           gy == [c \in K |-> 2 * c[2] + 1]
           tx == CHOOSE iter : iter =
                   [s \in SUBSET K |-> IF s = {} THEN 0
                      ELSE (2 * (CHOOSE x \in s : TRUE)[1] + 1) + iter[s \ {CHOOSE x \in s : TRUE}]]
           ty == CHOOSE iter : iter =
                   [s \in SUBSET K |-> IF s = {} THEN 0
                      ELSE (2 * (CHOOSE x \in s : TRUE)[2] + 1) + iter[s \ {CHOOSE x \in s : TRUE}]]
<1>1. MapThenSumSet(LAMBDA c : 2 * c[1] + 1, K) = tx[K]
  BY DEF MapThenSumSet, MapThenFoldSet
<1>2. MapThenSumSet(LAMBDA c : 2 * c[2] + 1, K) = ty[K]
  BY DEF MapThenSumSet, MapThenFoldSet
<1>3. ClusterCentroid(K) = [x |-> tx[K], y |-> ty[K], n |-> 2 * Cardinality(K)]
  <2> HIDE DEF tx, ty
  <2> QED BY <1>1, <1>2 DEF ClusterCentroid
<1>4. \A s \in SUBSET K : s # {} => /\ gx[AnyOf(s)] = 2 * (CHOOSE x \in s : TRUE)[1] + 1
                                  /\ gy[AnyOf(s)] = 2 * (CHOOSE x \in s : TRUE)[2] + 1
  <2> SUFFICES ASSUME NEW s \in SUBSET K, s # {}
               PROVE  /\ gx[AnyOf(s)] = 2 * AnyOf(s)[1] + 1
                      /\ gy[AnyOf(s)] = 2 * AnyOf(s)[2] + 1
    BY DEF AnyOf
  <2>1. AnyOf(s) \in K
    BY DEF AnyOf
  <2> QED BY <2>1
<1> HIDE DEF gx, gy
<1>5. IsSumOf(tx, gx, K)
  <2> DEFINE Summed(iter, s) == IF s = {} THEN 0
                              ELSE (2 * (CHOOSE x \in s : TRUE)[1] + 1)
                                   + iter[s \ {CHOOSE x \in s : TRUE}]
             Step(iter) == [s \in SUBSET K |-> Summed(iter, s)]
  <2>1. PICK total : IsSumOf(total, gx, K)
    BY SumsExist
  <2>2. total = Step(total)
    <3>1. \A s \in SUBSET K : total[s] = Summed(total, s)
      BY <1>4, <2>1 DEF IsSumOf, AnyOf
    <3>2. total = [s \in SUBSET K |-> total[s]]
      BY <2>1 DEF IsSumOf
    <3> HIDE DEF Next
    <3> QED BY <3>1, <3>2
  <2>3. tx = Step(tx)
    BY <2>2
  <2> HIDE DEF tx
  <2> QED BY <1>4, <2>3 DEF IsSumOf, AnyOf
<1>6. IsSumOf(ty, gy, K)
  <2> DEFINE Summed(iter, s) == IF s = {} THEN 0
                              ELSE (2 * (CHOOSE x \in s : TRUE)[2] + 1)
                                   + iter[s \ {CHOOSE x \in s : TRUE}]
             Step(iter) == [s \in SUBSET K |-> Summed(iter, s)]
  <2>1. PICK total : IsSumOf(total, gy, K)
    BY SumsExist
  <2>2. total = Step(total)
    <3>1. \A s \in SUBSET K : total[s] = Summed(total, s)
      BY <1>4, <2>1 DEF IsSumOf, AnyOf
    <3>2. total = [s \in SUBSET K |-> total[s]]
      BY <2>1 DEF IsSumOf
    <3> HIDE DEF Next
    <3> QED BY <3>1, <3>2
  <2>3. ty = Step(ty)
    BY <2>2
  <2> HIDE DEF ty
  <2> QED BY <1>4, <2>3 DEF IsSumOf, AnyOf
<1> HIDE DEF tx, ty
<1> QED BY <1>3, <1>5, <1>6 DEF gx, gy
(* The borders of the box around a set of cells.                           *)
LEMMA BoxOf ==
  ASSUME NEW K \in SUBSET Cells, K # {}, NEW j \in {1, 2}
  PROVE  \E a, b \in K : \A c \in K : a[j] <= c[j] /\ c[j] <= b[j]
<1> DEFINE bound == Width + Height
           R == {c[j] : c \in K}
           L == {bound - c[j] : c \in K}
<1>1. \A c \in K : c[j] \in Nat /\ c[j] < bound
  <2> SUFFICES ASSUME NEW c \in K PROVE c[j] \in Nat /\ c[j] < bound
    OBVIOUS
  <2>1. /\ c[1] \in 0..Width-1
        /\ c[2] \in 0..Height-1
    BY DEF Cells
  <2>2. Width \in Nat /\ Height \in Nat
    BY FrontierDetectionConstants
  <2> QED BY <2>1, <2>2
<1>2. bound \in Nat
  BY FrontierDetectionConstants
<1> HIDE DEF bound
<1>3. PICK m \in R : \A n \in R : m <= n
  <2>1. R \subseteq Nat /\ R # {}
    BY <1>1
  <2> QED BY <2>1, NaturalMinimum
<1>4. PICK a \in K : \A c \in K : a[j] <= c[j]
  BY <1>3
<1>5. PICK r \in L : \A n \in L : r <= n
  <2>1. \A c \in K : bound - c[j] \in Nat
    BY <1>1, <1>2
  <2>2. L \subseteq Nat /\ L # {}
    BY <2>1
  <2> HIDE DEF L
  <2> QED BY <2>2, NaturalMinimum
<1>6. PICK b \in K : r = bound - b[j]
  BY <1>5
<1>7. \A c \in K : c[j] <= b[j]
  <2> SUFFICES ASSUME NEW c \in K PROVE c[j] <= b[j]
    OBVIOUS
  <2>1. bound - c[j] \in L
    OBVIOUS
  <2>2. bound - b[j] <= bound - c[j]
    BY <1>5, <1>6, <2>1
  <2> HIDE DEF L
  <2> QED BY <1>1, <1>2, <2>2
<1> QED BY <1>4, <1>7

(* The mean of the cell centres lies between the outermost of them.        *)
LEMMA CentroidLiesInBox ==
  ASSUME NEW K \in SUBSET Cells, IsFiniteSet(K), K # {}
  PROVE  CentroidInBox(K)
<1> DEFINE N == Cardinality(K)
           p == ClusterCentroid(K)
<1>1. PICK tx, ty : /\ IsSumOf(tx, [c \in K |-> 2 * c[1] + 1], K)
                    /\ IsSumOf(ty, [c \in K |-> 2 * c[2] + 1], K)
                    /\ p = [x |-> tx[K], y |-> ty[K], n |-> 2 * N]
  BY CentroidIsSums
<1>2. ASSUME NEW j \in {1, 2}, NEW t, IsSumOf(t, [c \in K |-> 2 * c[j] + 1], K)
      PROVE  /\ \E c \in K : 2 * t[K] >= (2 * N) * (2 * c[j] + 1)
             /\ \E c \in K : 2 * t[K] <= (2 * N) * (2 * c[j] + 1)
  <2> DEFINE g == [c \in K |-> 2 * c[j] + 1]
  <2>1. \A c \in K : c[j] \in Nat
    BY FrontierDetectionConstants DEF Cells
  <2>2. PICK a \in K, b \in K : \A c \in K : a[j] <= c[j] /\ c[j] <= b[j]
    BY BoxOf
  <2> DEFINE lo == 2 * a[j] + 1
             hi == 2 * b[j] + 1
  <2>3. /\ lo \in Int /\ hi \in Int
        /\ \A c \in K : g[c] \in Int /\ lo <= g[c] /\ g[c] <= hi
    BY <2>1, <2>2
  <2> HIDE DEF lo, hi, g
  <2>4. IsSumOf(t, g, K)
    BY <1>2 DEF g
  <2>5. /\ t[K] \in Int /\ N \in Nat
        /\ lo * N <= t[K] /\ t[K] <= hi * N
    BY <2>3, <2>4, SumsAreBounded
  <2> HIDE DEF N
  <2>6. (2 * N) * lo = 2 * (lo * N) /\ (2 * N) * hi = 2 * (hi * N)
    BY <2>3, <2>5
  <2>7. lo * N \in Int /\ hi * N \in Int
    BY <2>3, <2>5
  <2>8. 2 * t[K] >= (2 * N) * lo /\ 2 * t[K] <= (2 * N) * hi
    BY <2>5, <2>6, <2>7
  <2> QED BY <2>8 DEF lo, hi
<1> HIDE DEF N, p
<1>3. p.x = tx[K] /\ p.y = ty[K] /\ p.n = 2 * N
  BY <1>1
<1>4. /\ \E c \in K : 2 * p.x >= p.n * (2 * c[1] + 1)
      /\ \E c \in K : 2 * p.x <= p.n * (2 * c[1] + 1)
  BY <1>1, <1>2, <1>3
<1>5. /\ \E c \in K : 2 * p.y >= p.n * (2 * c[2] + 1)
      /\ \E c \in K : 2 * p.y <= p.n * (2 * c[2] + 1)
  BY <1>1, <1>2, <1>3
<1> QED BY <1>4, <1>5 DEF CentroidInBox, p

(* No frontier is reported outside the box of the cells it stands for, for *)
(* maps and clusters of every size.  (clusterCentroid)                     *)
THEOREM CentroidsAreAlwaysInBox == Spec => []CentroidsInBox
<1>1. CentroidsInBox
  <2> SUFFICES ASSUME NEW K \in ClusterByAdjacency(FrontierCells(map))
               PROVE  CentroidInBox(K)
    BY DEF CentroidsInBox
  <2>1. FrontierCells(map) \subseteq Cells /\ IsFiniteSet(FrontierCells(map))
    BY FrontierIsFinite
  <2>2. PICK s \in FrontierCells(map) : K = Flood(s, FrontierCells(map))
    BY DEF ClusterByAdjacency
  <2>3. s \in K /\ K \in SUBSET FrontierCells(map)
    BY <2>1, <2>2, FloodIsLeast
  <2>4. IsFiniteSet(K)
    BY <2>1, <2>3, FS_Subset
  <2> QED BY <2>1, <2>3, <2>4, CentroidLiesInBox
<1> QED BY <1>1, PTL

-----------------------------------------------------------------------------
(* The costmap filter.  It is safe when costs are what an OccupancyGrid    *)
(* holds, probabilities and -1 for unknown, and the threshold leaves out   *)
(* 255, the byte that -1 is read as.  Both matter: -128 is read as 128,    *)
(* and a threshold of 255 lets a centroid off the costmap pass.            *)
CostsArePercentages ==
  /\ CostThreshold < 255
  /\ \A cm \in Costmaps : \A c \in CostmapCells(cm) : cm.data[c] \in -1..100

CostmapIsKnown == costmap = None \/ costmap \in Costmaps

LEMMA CostmapStaysKnown == Spec => []CostmapIsKnown
<1>1. Init => CostmapIsKnown
  BY DEF Init, CostmapIsKnown
<1>2. CostmapIsKnown /\ [Next]_vars => CostmapIsKnown'
  BY DEF CostmapIsKnown, Next, vars, CostmapCallback, MapCallback
<1> QED BY <1>1, <1>2, PTL DEF Spec

(* The byte -1 is read as.                                                 *)
LEMMA UnknownIsByte255 ==
  ASSUME NEW u \in Int, u = -1
  PROVE  u % 256 = 255
<1>1. \A v \in Int : v % 256 \in 0..255
  OBVIOUS
<1>2. \A v \in Int : v = 256 * (v \div 256) + (v % 256)
  OBVIOUS
<1>3. \A v \in Int : v \div 256 \in Int
  OBVIOUS
<1>4. u % 256 \in 0..255
  BY <1>1
<1>5. u = 256 * (u \div 256) + (u % 256)
  BY <1>2
<1>6. u \div 256 \in Int
  BY <1>3
<1> QED BY <1>4, <1>5, <1>6

(* A point within the threshold lies on the costmap, in a cell whose cost  *)
(* is known and within the threshold.                                      *)
LEMMA CheapIsKnown ==
  ASSUME CostsArePercentages,
         NEW cm \in Costmaps, NEW p, CostAt(cm, p) <= CostThreshold
  PROVE  /\ CostIndex(cm, p) \in CostmapCells(cm)
         /\ cm.data[CostIndex(cm, p)] \in 0..CostThreshold
<1> DEFINE i == CostIndex(cm, p)
<1>1. CostThreshold \in Nat
  BY FrontierDetectionConstants
<1>2. i \in CostmapCells(cm)
  BY <1>1 DEF CostAt, CostsArePercentages
<1>3. cm.data[i] \in -1..100
  BY <1>2 DEF CostsArePercentages
<1> HIDE DEF i
<1>4. CostAt(cm, p) = cm.data[i] % 256
  BY <1>2 DEF CostAt, i
<1>5. CASE cm.data[i] = -1
  <2>1. cm.data[i] % 256 = 255
    <3> DEFINE u == cm.data[i]
    <3>1. u \in Int /\ u = -1
      BY <1>5
    <3> HIDE DEF u
    <3>2. u % 256 = 255
      BY <3>1, UnknownIsByte255
    <3> QED BY <3>2 DEF u
  <2>2. CostThreshold < 255
    BY DEF CostsArePercentages
  <2> QED BY <1>1, <1>4, <1>5, <2>1, <2>2
<1>6. CASE cm.data[i] \in 0..100
  BY <1>1, <1>2, <1>4, <1>6 DEF i
<1> QED BY <1>3, <1>5, <1>6

(* With the filter on and a costmap received, a published centroid lies in *)
(* a cell of that costmap at least EdgeMargin cells from its border whose  *)
(* cost is known and within the threshold: for every map, costmap, margin  *)
(* and every threshold below 255.  (mapCallback)                           *)
THEOREM PublishedAreAlwaysSafe ==
  ASSUME CostsArePercentages
  PROVE  Spec => PublishedAreSafe
<1> DEFINE A == map' # None /\ MapCallback(map') /\ UseCostmapFilter /\ costmap # None =>
                  \A p \in safe' :
                    LET i == CostIndex(costmap, p)
                    IN Centred(costmap, i) /\ costmap.data[i] \in 0..CostThreshold
<1>1. CostmapIsKnown => A
  <2> SUFFICES ASSUME CostmapIsKnown,
                      map' # None, MapCallback(map'), UseCostmapFilter, costmap # None,
                      NEW p \in safe'
               PROVE  /\ Centred(costmap, CostIndex(costmap, p))
                      /\ costmap.data[CostIndex(costmap, p)] \in 0..CostThreshold
    OBVIOUS
  <2>1. costmap \in Costmaps
    BY DEF CostmapIsKnown
  <2>2. ~NearEdge(costmap, p) /\ CostAt(costmap, p) <= CostThreshold
    BY DEF MapCallback, IsSafe
  <2>3. /\ CostIndex(costmap, p) \in CostmapCells(costmap)
        /\ costmap.data[CostIndex(costmap, p)] \in 0..CostThreshold
    BY <2>1, <2>2, CheapIsKnown
  <2>4. /\ EdgeMargin \in Nat
        /\ costmap.width \in Nat /\ costmap.height \in Nat
    BY <2>1, FrontierDetectionConstants
  <2> DEFINE i == CostIndex(costmap, p)
  <2>5. /\ i = <<i[1], i[2]>>
        /\ i[1] \in 0..costmap.width-1
        /\ i[2] \in 0..costmap.height-1
    BY <2>3 DEF CostmapCells
  <2>6. EdgeMargin > 0 =>
          /\ ~(i[1] < EdgeMargin) /\ ~(i[1] >= costmap.width - EdgeMargin)
          /\ ~(i[2] < EdgeMargin) /\ ~(i[2] >= costmap.height - EdgeMargin)
    BY <2>2 DEF NearEdge
  <2> HIDE DEF i
  <2>7. /\ i[1] \in EdgeMargin..costmap.width - 1 - EdgeMargin
        /\ i[2] \in EdgeMargin..costmap.height - 1 - EdgeMargin
    BY <2>4, <2>5, <2>6
  <2>8. Centred(costmap, i)
    BY <2>5, <2>7 DEF Centred
  <2> QED BY <2>3, <2>8 DEF i
<1>2. CostmapIsKnown /\ [Next]_vars => [A]_vars
  BY <1>1
<1> QED BY <1>2, CostmapStaysKnown, PTL DEF Spec, PublishedAreSafe
=============================================================================
