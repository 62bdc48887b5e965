-------------------------- MODULE SemanticMapProofs --------------------------
(***************************************************************************)
(* The live semantic map, and the query that is answered out of it.        *)
(*                                                                         *)
(* Of LiveSemanticMap, for all scans, maps, refined states and timeouts:   *)
(* the identity of entities, the ray that is read for a bearing, and that  *)
(* what a refined state adds to the message stands on live entities.  Of   *)
(* SemanticQuery (its specification is QuerySpec), for all maps, commands, *)
(* positions, distances and lengths of the queue between its two nodes:    *)
(* the answers to commands, and the goals that are made of them.           *)
(***************************************************************************)
EXTENDS LiveSemanticMap, SemanticQuery, SequenceTheorems, FiniteSetTheorems,
        WellFoundedInduction, TLAPS
(* Induction over the naturals, for a set of them.                         *)
LEMMA Induction ==
  ASSUME NEW T, 0 \in T, \A n \in Nat : n \in T => n + 1 \in T
  PROVE  Nat \subseteq T
<1> SUFFICES ASSUME Nat \ T # {} PROVE FALSE
  OBVIOUS
<1>1. PICK m \in Nat \ T : \A n \in Nat \ T : <<n, m>> \notin OpToRel(<, Nat)
  BY WFMin, NatLessThanWellFounded
<1>2. \A n \in Nat : n < m => <<n, m>> \in OpToRel(<, Nat)
  BY DEF OpToRel
<1>3. \A n \in Nat : n < m => n \in T
  BY <1>1, <1>2, Zenon
<1>4. m \in Nat /\ m \notin T
  OBVIOUS
<1> QED BY <1>3, <1>4

(* A set of naturals has a least member.                                   *)
LEMMA LeastOf ==
  ASSUME NEW T, T \subseteq Nat, T # {}
  PROVE  \E m \in T : \A n \in T : m <= n
<1>1. PICK m \in T : \A n \in T : <<n, m>> \notin OpToRel(<, Nat)
  BY WFMin, NatLessThanWellFounded
<1>2. \A n \in T : n < m => <<n, m>> \in OpToRel(<, Nat)
  BY DEF OpToRel
<1>3. \A n \in T : ~(n < m)
  BY <1>1, <1>2, Zenon
<1> QED BY <1>3

-----------------------------------------------------------------------------
(* Geometry of the scan.                                                   *)

(* A set of rays has one with the least residual, the first of them.       *)
LEMMA LeastRay ==
  ASSUME NEW S \in SUBSET Nat, S # {}, NEW f, \A i \in S : f[i] \in Nat
  PROVE  \E i \in S : \A j \in S : f[i] < f[j] \/ (f[i] = f[j] /\ i <= j)
<1> DEFINE values == {f[i] : i \in S}
<1>1. values \subseteq Nat /\ values # {}
  OBVIOUS
<1>2. PICK v \in values : \A w \in values : v <= w
  <2> HIDE DEF values
  <2> QED BY <1>1, LeastOf
<1> DEFINE least == {i \in S : f[i] = v}
<1>3. least \subseteq Nat /\ least # {}
  OBVIOUS
<1>4. PICK m \in least : \A n \in least : m <= n
  <2> HIDE DEF least
  <2> QED BY <1>3, LeastOf
<1>5. ASSUME NEW j \in S
      PROVE  f[m] < f[j] \/ (f[m] = f[j] /\ m <= j)
  <2>1. f[m] <= f[j] /\ f[m] \in Nat /\ f[j] \in Nat
    BY <1>2, <1>4
  <2>2. f[j] = f[m] => m <= j
    BY <1>4
  <2> QED BY <2>1, <2>2
<1> QED BY <1>4, <1>5

(* Whole numbers are a multiple and a remainder.                           *)
LEMMA Division ==
  ASSUME NEW a \in Int, NEW b \in Nat, b > 0
  PROVE  /\ a \div b \in Int /\ a % b \in Int
         /\ a = b * (a \div b) + (a % b)
         /\ 0 <= a % b /\ a % b < b
<1>1. a \div b \in Int /\ a % b \in Int
  OBVIOUS
<1>2. a = b * (a \div b) + (a % b)
  OBVIOUS
<1>3. 0 <= a % b /\ a % b < b
  OBVIOUS
<1> QED BY <1>1, <1>2, <1>3

LEMMA AtLeastOnce ==
  ASSUME NEW m \in Int, NEW b \in Nat, b > 0
  PROVE  /\ m >= 1 => b * m >= b
         /\ m <= -1 => b * m <= -b
  OBVIOUS

(* RoundedRatio is the nearest whole number: within half of the divisor,   *)
(* and any other lies half of it away at least.                            *)
LEMMA RoundedRatioIsNearest ==
  ASSUME NEW a \in Int, NEW b \in Nat, b > 0
  PROVE  /\ RoundedRatio(a, b) \in Int
         /\ 2 * AbsoluteOf(b * RoundedRatio(a, b) - a) <= b
         /\ \A j \in Int \ {RoundedRatio(a, b)} : 2 * AbsoluteOf(b * j - a) >= b
<1> DEFINE q == a \div b
           r == a % b
           c == RoundedRatio(a, b)
<1>1. q \in Int /\ r \in Int /\ a = b * q + r /\ 0 <= r /\ r < b
  BY Division
<1>2. (c = q /\ 2 * r <= b) \/ (c = q + 1 /\ 2 * r >= b)
  <2>1. c = IF 2 * r < b \/ (2 * r = b /\ q % 2 = 0) THEN q ELSE q + 1
    BY DEF RoundedRatio
  <2> DEFINE even == q % 2 = 0
  <2> HIDE DEF c, q, r, even
  <2>2. c = IF 2 * r < b \/ (2 * r = b /\ even) THEN q ELSE q + 1
    BY <2>1 DEF even
  <2> QED BY <1>1, <2>2
<1>3. c \in Int
  <2> HIDE DEF c, q, r
  <2> QED BY <1>1, <1>2
<1> DEFINE d == b * c - a
<1>4. d \in Int /\ 2 * d <= b /\ -b <= 2 * d
  <2> HIDE DEF c, q, r
  <2>1. b * (q + 1) = b * q + b /\ b * q \in Int
    BY <1>1
  <2> DEFINE bq == b * q
  <2>2. c = q => d = -r
    BY <1>1
  <2>3. c = q + 1 => d = b - r
    BY <1>1, <2>1
  <2> HIDE DEF d
  <2> QED BY <1>1, <1>2, <2>2, <2>3
<1>5. ASSUME NEW j \in Int, j # c
      PROVE  2 * AbsoluteOf(b * j - a) >= b
  <2> DEFINE bm == b * (j - c)
             e == b * j - a
  <2>1. e = bm + d /\ bm \in Int /\ e \in Int
    <3> HIDE DEF c
    <3> QED BY <1>3
  <2>2. bm >= b \/ bm <= -b
    <3> HIDE DEF c
    <3>1. j - c \in Int /\ (j - c >= 1 \/ j - c <= -1)
      BY <1>3, <1>5
    <3> QED BY <3>1, AtLeastOnce
  <2> HIDE DEF e, d, bm, c
  <2>3. 2 * AbsoluteOf(e) >= b
    BY <1>4, <2>1, <2>2 DEF AbsoluteOf
  <2> QED BY <2>3 DEF e
<1>6. 2 * AbsoluteOf(d) <= b
  <2> HIDE DEF d
  <2> QED BY <1>4 DEF AbsoluteOf
<1> QED BY <1>3, <1>5, <1>6

(* Residual is the distance to the nearest revolution.                     *)
LEMMA ResidualIsNearest ==
  ASSUME NEW a \in Int, NEW b \in Int
  PROVE  /\ Residual(a, b) \in Nat
         /\ \A k \in Int : Residual(a, b) <= AbsoluteOf(a - b - k * Turn)
         /\ 2 * AbsoluteOf(a - b) < 5 * Turn =>
              \E k \in -2..2 : Residual(a, b) = AbsoluteOf(a - b - k * Turn)
<1> DEFINE x == a - b
           q == x \div Turn
           d == x % Turn
           res == IF d > Turn - d THEN Turn - d ELSE d
<1>1. Turn \in Nat /\ Turn > 0 /\ x \in Int
  BY ScanGeometryConstants
<1>2. Residual(a, b) = res
  BY DEF Residual
<1> HIDE DEF x
<1>3. q \in Int /\ d \in Int /\ x = Turn * q + d /\ 0 <= d /\ d < Turn
  BY <1>1, Division
<1> HIDE DEF q, d
<1>4. res \in Nat
  BY <1>1, <1>3
<1>5. ASSUME NEW k \in Int
      PROVE  res <= AbsoluteOf(x - k * Turn)
  <2> DEFINE tm == Turn * (q - k)
             e == x - k * Turn
  <2>1. e = tm + d /\ tm \in Int /\ e \in Int
    BY <1>1, <1>3
  <2>2. (q - k >= 1 => tm >= Turn) /\ (q - k <= -1 => tm <= -Turn) /\ (q - k = 0 => tm = 0)
    BY <1>1, <1>3, AtLeastOnce
  <2>3. tm >= Turn \/ tm <= -Turn \/ tm = 0
    <3> HIDE DEF tm
    <3> QED BY <1>3, <2>2
  <2> HIDE DEF tm, e
  <2> QED BY <1>1, <1>3, <2>1, <2>3 DEF AbsoluteOf, e
<1>6. ASSUME 2 * AbsoluteOf(x) < 5 * Turn
      PROVE  \E k \in -2..2 : res = AbsoluteOf(x - k * Turn)
  <2>1. 2 * x < 5 * Turn /\ 2 * x > -(5 * Turn)
    BY <1>1, <1>6 DEF AbsoluteOf
  <2> DEFINE tq == Turn * q
  <2>2. tq \in Int /\ x = tq + d
    BY <1>1, <1>3
  <2>3. ASSUME NEW n \in Int
        PROVE  /\ n >= 3 => Turn * n >= 3 * Turn
               /\ n <= -3 => Turn * n <= -(3 * Turn)
    BY <1>1, <2>3
  <2>4. CASE d > Turn - d
    <3> DEFINE k == q + 1
               tk == Turn * k
    <3>1. tk = tq + Turn /\ k \in Int /\ tk \in Int
      BY <1>1, <1>3
    <3>2. tk < 3 * Turn /\ tk > -(3 * Turn)
      <4> HIDE DEF tk, tq, k
      <4> QED BY <1>1, <1>3, <2>1, <2>2, <2>4, <3>1
    <3>3. k \in -2..2
      <4>1. ~(k >= 3) /\ ~(k <= -3)
        <5>1. /\ k >= 3 => tk >= 3 * Turn
              /\ k <= -3 => tk <= -(3 * Turn)
          BY <2>3, <3>1
        <5> HIDE DEF tk, k
        <5> QED BY <1>1, <3>1, <3>2, <5>1
      <4> HIDE DEF k
      <4> QED BY <3>1, <4>1
    <3>4. x - k * Turn = x - tk
      BY <1>1, <1>3
    <3>5. AbsoluteOf(x - tk) = Turn - d
      <4> HIDE DEF tk, tq
      <4> QED BY <1>1, <1>3, <2>2, <2>4, <3>1 DEF AbsoluteOf
    <3>6. res = AbsoluteOf(x - k * Turn)
      BY <2>4, <3>4, <3>5
    <3> HIDE DEF k, tk, res
    <3> QED BY <3>3, <3>6
  <2>5. CASE ~(d > Turn - d)
    <3>1. tq < 3 * Turn /\ tq > -(3 * Turn)
      <4> HIDE DEF tq
      <4> QED BY <1>1, <1>3, <2>1, <2>2, <2>5
    <3>2. q \in -2..2
      <4>1. ~(q >= 3) /\ ~(q <= -3)
        <5>1. /\ q >= 3 => tq >= 3 * Turn
              /\ q <= -3 => tq <= -(3 * Turn)
          BY <1>3, <2>3
        <5> HIDE DEF tq
        <5> QED BY <1>1, <1>3, <2>2, <3>1, <5>1
      <4> QED BY <1>3, <4>1
    <3>3. x - q * Turn = d
      BY <1>1, <1>3
    <3>4. AbsoluteOf(d) = d
      BY <1>3 DEF AbsoluteOf
    <3>5. res = AbsoluteOf(x - q * Turn)
      BY <2>5, <3>3, <3>4
    <3> HIDE DEF res
    <3> QED BY <3>2, <3>5
  <2> QED BY <2>4, <2>5
<1> HIDE DEF res
<1> QED BY <1>2, <1>4, <1>5, <1>6 DEF x

(* The ray that is read for a bearing is the nearest of all, within half a *)
(* step; one is read if any ray lies nearer than half a step.              *)
RayMatches(s, bearing) ==
  LET Off(i) == Residual(RayAngle(s, i), bearing)
  IN /\ \A i \in BearingToRay(s, bearing) :
          2 * Off(i) <= s.step /\ \A j \in Rays(s) : Off(i) <= Off(j)
     /\ (\E j \in Rays(s) : 2 * Off(j) < s.step) => BearingToRay(s, bearing) # {}

LEMMA NearestRayIsRead ==
  ASSUME NEW s, IsScan(s), NEW bearing \in Int,
         \A i \in Rays(s) : 2 * AbsoluteOf(RayAngle(s, i) - bearing) < 5 * Turn
  PROVE  RayMatches(s, bearing)
<1> DEFINE rays == RayCandidates(s, bearing)
           nearest == NearestOf(s, bearing, rays)
           off == [i \in Rays(s) |-> Residual(RayAngle(s, i), bearing)]
           Index(k) == RoundedRatio(bearing - s.min + k * Turn, s.step)
<1>1. /\ s.min \in Int /\ s.step \in Nat /\ s.step > 0 /\ Turn \in Nat /\ Turn > 0
      /\ Rays(s) \subseteq Nat
  <2>1. s.min \in Int /\ s.step \in Nat \ {0} /\ s.ranges \in Seq(Nat \cup {NoReturn})
    BY DEF IsScan
  <2>2. Len(s.ranges) \in Nat
    BY <2>1
  <2> QED BY <2>1, <2>2, ScanGeometryConstants DEF Rays
<1>2. \A i \in Rays(s) : RayAngle(s, i) \in Int
  BY <1>1 DEF RayAngle
<1>3. \A i \in Rays(s) : off[i] \in Nat /\ off[i] = Residual(RayAngle(s, i), bearing)
  BY <1>2, ResidualIsNearest
<1>4. rays = {Index(k) : k \in -2..2} \cap Rays(s)
  BY DEF RayCandidates
<1>5. ASSUME NEW k \in -2..2
      PROVE  /\ Index(k) \in Int
             /\ 2 * AbsoluteOf(RayAngle(s, Index(k)) - bearing - k * Turn) <= s.step
             /\ \A j \in Int \ {Index(k)} :
                  2 * AbsoluteOf(RayAngle(s, j) - bearing - k * Turn) >= s.step
  <2> DEFINE a == bearing - s.min + k * Turn
             c == RoundedRatio(a, s.step)
  <2>1. a \in Int
    BY <1>1
  <2>2. ASSUME NEW j \in Int
        PROVE  s.step * j - a = RayAngle(s, j) - bearing - k * Turn
    BY <1>1 DEF RayAngle
  <2> HIDE DEF a
  <2>3. /\ c \in Int
        /\ 2 * AbsoluteOf(s.step * c - a) <= s.step
        /\ \A j \in Int \ {c} : 2 * AbsoluteOf(s.step * j - a) >= s.step
    BY <1>1, <2>1, RoundedRatioIsNearest
  <2>4. Index(k) = c
    BY DEF a
  <2> HIDE DEF c, Index
  <2> QED BY <2>2, <2>3, <2>4
<1>6. ASSUME NEW i \in rays
      PROVE  i \in Rays(s) /\ 2 * off[i] <= s.step
  <2>1. PICK k \in -2..2 : i = Index(k)
    BY <1>4
  <2>2. i \in Rays(s) /\ i \in Int
    BY <1>1, <1>4
  <2>3. off[i] <= AbsoluteOf(RayAngle(s, i) - bearing - k * Turn)
    BY <1>2, <1>3, <2>2, ResidualIsNearest
  <2>4. AbsoluteOf(RayAngle(s, i) - bearing - k * Turn) \in Int
    <3>1. RayAngle(s, i) - bearing - k * Turn \in Int
      BY <1>1, <1>2, <2>2
    <3> QED BY <3>1 DEF AbsoluteOf
  <2>5. 2 * AbsoluteOf(RayAngle(s, i) - bearing - k * Turn) <= s.step
    <3> HIDE DEF Index
    <3> QED BY <1>5, <2>1
  <2>6. off[i] \in Nat
    BY <1>3, <2>2
  <2> HIDE DEF off
  <2> QED BY <1>1, <2>2, <2>3, <2>4, <2>5, <2>6
<1>7. ASSUME NEW j \in Rays(s)
      PROVE  j \in rays \/ 2 * off[j] >= s.step
  <2>1. PICK k \in -2..2 : off[j] = AbsoluteOf(RayAngle(s, j) - bearing - k * Turn)
    BY <1>2, <1>3, ResidualIsNearest
  <2>2. CASE j = Index(k)
    BY <1>4, <2>2
  <2>3. CASE j # Index(k)
    <3>1. j \in Int \ {Index(k)}
      BY <1>1, <2>3
    <3>2. 2 * AbsoluteOf(RayAngle(s, j) - bearing - k * Turn) >= s.step
      <4> HIDE DEF Index
      <4> QED BY <1>5, <3>1
    <3> HIDE DEF off, Index
    <3> QED BY <2>1, <3>2
  <2> QED BY <2>2, <2>3
<1>8. rays # {} =>
        /\ nearest \in rays
        /\ \A j \in rays : off[nearest] <= off[j]
  <2> SUFFICES ASSUME rays # {}
               PROVE  nearest \in rays /\ \A j \in rays : off[nearest] <= off[j]
    OBVIOUS
  <2>1. rays \subseteq Rays(s) /\ rays \subseteq Nat
    BY <1>1, <1>4
  <2> HIDE DEF rays
  <2> DEFINE Leads(i) == \A j \in rays : off[i] < off[j] \/ (off[i] = off[j] /\ i <= j)
  <2>2. \E i \in rays : Leads(i)
    <3>1. \A i \in rays : off[i] \in Nat
      BY <1>3, <2>1
    <3> HIDE DEF off
    <3> QED BY <2>1, <3>1, LeastRay
  <2>3. nearest = CHOOSE i \in rays :
          \A j \in rays :
            LET di == Residual(RayAngle(s, i), bearing)
                dj == Residual(RayAngle(s, j), bearing)
            IN di < dj \/ (di = dj /\ i <= j)
    BY DEF NearestOf
  <2>4. nearest \in rays /\ Leads(nearest)
    <3>1. \A i \in rays : off[i] = Residual(RayAngle(s, i), bearing)
      BY <2>1
    <3> DEFINE Chosen(i) == \A j \in rays :
                 \/ Residual(RayAngle(s, i), bearing) < Residual(RayAngle(s, j), bearing)
                 \/ Residual(RayAngle(s, i), bearing) = Residual(RayAngle(s, j), bearing) /\ i <= j
    <3>2. \A i \in rays : Chosen(i) <=> Leads(i)
      <4> HIDE DEF off
      <4> QED BY <3>1
    <3>3. nearest = CHOOSE i \in rays : Chosen(i)
      BY <2>3
    <3> HIDE DEF nearest, Chosen, Leads
    <3> QED BY <2>2, <3>2, <3>3
  <2>5. \A j \in rays : off[nearest] \in Nat /\ off[j] \in Nat
    <3> HIDE DEF nearest
    <3> QED BY <1>3, <2>1, <2>4
  <2> HIDE DEF nearest, off
  <2> QED BY <2>4, <2>5
<1>9. BearingToRay(s, bearing) =
        {i \in rays : i = nearest /\ Residual(RayAngle(s, i), bearing) <= s.step}
  BY DEF BearingToRay
<1> HIDE DEF nearest, rays, Index
<1>10. ASSUME NEW i \in BearingToRay(s, bearing)
       PROVE  /\ 2 * Residual(RayAngle(s, i), bearing) <= s.step
              /\ \A j \in Rays(s) :
                   Residual(RayAngle(s, i), bearing) <= Residual(RayAngle(s, j), bearing)
  <2>1. i \in rays /\ i = nearest /\ i \in Rays(s) /\ 2 * off[i] <= s.step
    BY <1>6, <1>9
  <2>2. ASSUME NEW j \in Rays(s)
        PROVE  off[i] <= off[j]
    <3>1. CASE j \in rays
      BY <1>8, <2>1, <3>1
    <3>2. CASE 2 * off[j] >= s.step
      <4>1. off[i] \in Nat /\ off[j] \in Nat
        BY <1>3, <2>1
      <4> HIDE DEF off
      <4> QED BY <1>1, <2>1, <3>2, <4>1
    <3> QED BY <1>7, <3>1, <3>2
  <2> QED BY <2>1, <2>2
<1>11. ASSUME NEW j \in Rays(s), 2 * Residual(RayAngle(s, j), bearing) < s.step
       PROVE  BearingToRay(s, bearing) # {}
  <2>1. j \in rays
    <3>1. 2 * off[j] < s.step /\ off[j] \in Nat
      BY <1>3, <1>11
    <3> HIDE DEF off
    <3> QED BY <1>1, <1>7, <3>1
  <2>2. nearest \in rays /\ nearest \in Rays(s) /\ 2 * off[nearest] <= s.step
    BY <1>6, <1>8, <2>1
  <2>3. off[nearest] \in Nat /\ off[nearest] = Residual(RayAngle(s, nearest), bearing)
    BY <1>3, <2>2
  <2>4. off[nearest] <= s.step
    <3> HIDE DEF off
    <3> QED BY <1>1, <2>2, <2>3
  <2>5. nearest \in BearingToRay(s, bearing)
    BY <1>9, <2>2, <2>3, <2>4
  <2> QED BY <2>5
<1> QED BY <1>10, <1>11 DEF RayMatches

LEMMA RaysMatch == scan \in Scans => RaysMatchBearings
<1> SUFFICES ASSUME scan \in Scans, NEW u \in 0..ImageWidth
             PROVE  RayMatches(scan, PixelToBearing(u))
  BY DEF RaysMatchBearings, RayMatches
<1>1. IsScan(scan)
  BY LiveSemanticMapConstants
<1>2. PixelToBearing(u) \in Int
  <2> DEFINE a == (ImageWidth - 2 * u) * Fov
             b == 2 * ImageWidth
  <2>1. a \in Int /\ b \in Nat /\ b > 0
    BY ScanGeometryConstants
  <2> HIDE DEF a, b
  <2>2. a \div b \in Int
    BY <2>1, Division
  <2> QED BY <2>2 DEF PixelToBearing, a, b
<1>3. \A i \in Rays(scan) : 2 * AbsoluteOf(RayAngle(scan, i) - PixelToBearing(u)) < 5 * Turn
  BY RaysWithinReach
<1> QED BY <1>1, <1>2, <1>3, NearestRayIsRead

-----------------------------------------------------------------------------
(* At: the loop is defined, and what it has kept after n elements.         *)

LEMMA AtLoop ==
  ASSUME NEW S, NEW seq \in Seq(S), NEW positions
  PROVE  \E at : /\ At(seq, positions) = at[Len(seq)]
                 /\ at[0] = <<>>
                 /\ \A n \in 1..Len(seq) :
                      at[n] = IF n \in positions THEN Append(at[n - 1], seq[n])
                                                 ELSE at[n - 1]
<1> DEFINE Step(f, n) == IF n = 0 THEN <<>>
                         ELSE IF n \in positions THEN Append(f[n - 1], seq[n])
                         ELSE f[n - 1]
           Upto(f, n) == /\ f = [k \in 0..n |-> f[k]]
                         /\ \A k \in 0..n : f[k] = Step(f, k)
           T == {n \in Nat : \E f : Upto(f, n)}
<1>1. 0 \in T
  <2> DEFINE f == [k \in 0..0 |-> <<>>]
  <2>1. Upto(f, 0)
    OBVIOUS
  <2> QED BY <2>1
<1>2. ASSUME NEW n \in Nat, n \in T
      PROVE  n + 1 \in T
  <2>1. PICK f : Upto(f, n)
    BY <1>2
  <2> DEFINE longer == [k \in 0..(n + 1) |-> IF k <= n THEN f[k] ELSE Step(f, k)]
  <2>2. ASSUME NEW k \in 0..(n + 1)
        PROVE  longer[k] = Step(longer, k)
    <3>1. k # 0 => k - 1 \in 0..n /\ longer[k - 1] = f[k - 1]
      OBVIOUS
    <3>2. longer[k] = Step(f, k)
      <4>1. longer[k] = IF k <= n THEN f[k] ELSE Step(f, k)
        OBVIOUS
      <4>2. k <= n => k \in 0..n
        OBVIOUS
      <4> HIDE DEF Step, longer
      <4>3. \A j \in 0..n : f[j] = Step(f, j)
        BY <2>1
      <4> QED BY <4>1, <4>2, <4>3
    <3> HIDE DEF longer
    <3> QED BY <3>1, <3>2
  <2>3. longer = [k \in 0..(n + 1) |-> longer[k]]
    OBVIOUS
  <2>4. Upto(longer, n + 1)
    BY <2>2, <2>3
  <2> HIDE DEF Upto, longer
  <2> QED BY <2>4
<1>3. PICK f : Upto(f, Len(seq))
  <2> HIDE DEF Upto
  <2>1. \A n \in Nat : n \in T => n + 1 \in T
    BY <1>2
  <2>2. Len(seq) \in T
    <3>1. Len(seq) \in Nat
      OBVIOUS
    <3> HIDE DEF T
    <3> QED BY <1>1, <2>1, <3>1, Induction
  <2> QED BY <2>2
<1> DEFINE loop == CHOOSE g : g = [n \in 0..Len(seq) |-> Step(g, n)]
<1>4. f = [n \in 0..Len(seq) |-> Step(f, n)]
  BY <1>3
<1>5. loop = [n \in 0..Len(seq) |-> Step(loop, n)]
  BY <1>4
<1>6. At(seq, positions) = loop[Len(seq)]
  BY DEF At
<1> HIDE DEF loop
<1>7. \A n \in 0..Len(seq) : loop[n] = Step(loop, n)
  BY <1>5, Zenon
<1>8. loop[0] = <<>> /\ \A n \in 1..Len(seq) : loop[n] = Step(loop, n)
  BY <1>7
<1> QED BY <1>6, <1>8

(* What is kept are elements of the sequence, each once: if the elements   *)
(* have different ids, so have those that are kept.                        *)
LEMMA AtKeeps ==
  ASSUME NEW S, NEW seq \in Seq(S), NEW positions,
         \A i, j \in DOMAIN seq : seq[i].id = seq[j].id => i = j
  PROVE  /\ At(seq, positions) \in Seq(S)
         /\ \A i \in DOMAIN At(seq, positions) :
              \E j \in DOMAIN seq \cap positions : At(seq, positions)[i] = seq[j]
         /\ \A i, j \in DOMAIN At(seq, positions) :
              At(seq, positions)[i].id = At(seq, positions)[j].id => i = j
<1>1. PICK at : /\ At(seq, positions) = at[Len(seq)]
                /\ at[0] = <<>>
                /\ \A n \in 1..Len(seq) :
                     at[n] = IF n \in positions THEN Append(at[n - 1], seq[n])
                                                ELSE at[n - 1]
  BY AtLoop
<1>0. /\ DOMAIN seq = 1..Len(seq) /\ Len(seq) \in Nat
      /\ \A i, j \in 1..Len(seq) : seq[i].id = seq[j].id => i = j
  OBVIOUS
<1> DEFINE KeptOf(kept, n) ==
             /\ kept \in Seq(S)
             /\ \A i \in 1..Len(kept) : \E j \in (1..n) \cap positions : kept[i] = seq[j]
             /\ \A i, j \in 1..Len(kept) : kept[i].id = kept[j].id => i = j
           T == {n \in Nat : n <= Len(seq) => KeptOf(at[n], n)}
<1>2. 0 \in T
  <2>1. <<>> \in Seq(S) /\ Len(<<>>) = 0
    OBVIOUS
  <2>2. KeptOf(<<>>, 0)
    BY <2>1
  <2> HIDE DEF KeptOf
  <2> QED BY <1>1, <2>2
<1>3. ASSUME NEW n \in Nat, n \in T
      PROVE  n + 1 \in T
  <2> SUFFICES ASSUME n + 1 <= Len(seq) PROVE KeptOf(at[n + 1], n + 1)
    <3> HIDE DEF KeptOf
    <3> QED OBVIOUS
  <2>1. KeptOf(at[n], n)
    <3> HIDE DEF KeptOf
    <3> QED BY <1>0, <1>3
  <2>2. n + 1 \in 1..Len(seq) /\ (n + 1) - 1 = n
    BY <1>0
  <2>3. at[n + 1] = IF n + 1 \in positions THEN Append(at[n], seq[n + 1]) ELSE at[n]
    BY <1>1, <2>2
  <2> DEFINE before == at[n]
             after == at[n + 1]
  <2> HIDE DEF before, after
  <2>4. CASE n + 1 \in positions
    <3>1. after = Append(before, seq[n + 1]) /\ before \in Seq(S) /\ seq[n + 1] \in S
      BY <2>1, <2>2, <2>3, <2>4 DEF before, after
    <3>2. /\ after \in Seq(S) /\ Len(after) = Len(before) + 1 /\ Len(before) \in Nat
          /\ after[Len(after)] = seq[n + 1]
          /\ \A i \in 1..Len(before) : after[i] = before[i]
      BY <3>1
    <3>3. ASSUME NEW i \in 1..Len(after)
          PROVE  \/ i = Len(after) /\ after[i] = seq[n + 1]
                 \/ i \in 1..Len(before) /\ after[i] = before[i]
      BY <3>2
    <3>4. ASSUME NEW i \in 1..Len(after)
          PROVE  \E j \in (1..(n + 1)) \cap positions : after[i] = seq[j]
      <4>1. CASE i = Len(after) /\ after[i] = seq[n + 1]
        BY <2>4, <4>1
      <4>2. CASE i \in 1..Len(before) /\ after[i] = before[i]
        <5>1. PICK j \in (1..n) \cap positions : before[i] = seq[j]
          BY <2>1, <4>2 DEF before
        <5> QED BY <4>2, <5>1
      <4> QED BY <3>3, <4>1, <4>2
    <3>5. ASSUME NEW i \in 1..Len(before)
          PROVE  before[i].id # seq[n + 1].id
      <4>1. PICK j \in (1..n) \cap positions : before[i] = seq[j]
        BY <2>1 DEF before
      <4>2. j \in 1..Len(seq) /\ j # n + 1
        BY <1>0, <2>2
      <4> QED BY <1>0, <2>2, <4>1, <4>2
    <3>6. ASSUME NEW i \in 1..Len(after), NEW j \in 1..Len(after), after[i].id = after[j].id
          PROVE  i = j
      <4>1. \A k, l \in 1..Len(before) : before[k].id = before[l].id => k = l
        BY <2>1 DEF before
      <4> QED BY <3>3, <3>5, <3>6, <4>1
    <3> QED BY <3>2, <3>4, <3>6 DEF after
  <2>5. CASE n + 1 \notin positions
    <3>1. after = before
      BY <2>3, <2>5 DEF before, after
    <3>2. KeptOf(before, n)
      BY <2>1 DEF before
    <3>3. \A i \in 1..Len(before) : \E j \in (1..(n + 1)) \cap positions : before[i] = seq[j]
      <4>1. (1..n) \cap positions \subseteq (1..(n + 1)) \cap positions
        OBVIOUS
      <4> QED BY <3>2, <4>1, Zenon
    <3>4. KeptOf(before, n + 1)
      BY <3>2, <3>3, Zenon
    <3> HIDE DEF KeptOf
    <3> QED BY <3>1, <3>4 DEF after
  <2> QED BY <2>4, <2>5
<1>4. KeptOf(at[Len(seq)], Len(seq))
  <2>1. Nat \subseteq T
    <3> HIDE DEF T
    <3> QED BY <1>2, <1>3, Induction
  <2>2. Len(seq) \in T
    BY <1>0, <2>1
  <2> QED BY <1>0, <2>2
<1> DEFINE kept == At(seq, positions)
<1>5. KeptOf(kept, Len(seq))
  BY <1>1, <1>4
<1> HIDE DEF kept
<1>6. DOMAIN kept = 1..Len(kept)
  BY <1>5
<1> QED BY <1>0, <1>5, <1>6 DEF kept

-----------------------------------------------------------------------------
(* What remembering one box preserves, remembering all preserves.          *)

(* Positions of a sequence have a greatest.                                *)
LEMMA GreatestPosition ==
  ASSUME NEW n \in Nat, NEW s \in SUBSET (1..n), s # {}
  PROVE  Max(s) \in s /\ \A j \in s : j <= Max(s)
<1> DEFINE T == {k \in Nat : \A r \in SUBSET (1..k) :
                   r # {} => \E m \in r : \A j \in r : m >= j}
<1>1. 0 \in T
  <2>1. 1..0 = {}
    OBVIOUS
  <2> QED BY <2>1
<1>2. ASSUME NEW k \in Nat, k \in T
      PROVE  k + 1 \in T
  <2> SUFFICES ASSUME NEW r \in SUBSET (1..(k + 1)), r # {}
               PROVE  \E m \in r : \A j \in r : m >= j
    OBVIOUS
  <2>1. CASE k + 1 \in r
    BY <2>1
  <2>2. CASE k + 1 \notin r
    <3>1. r \in SUBSET (1..k)
      BY <2>2
    <3> QED BY <1>2, <3>1
  <2> QED BY <2>1, <2>2
<1>3. n \in T
  <2> HIDE DEF T
  <2> QED BY <1>1, <1>2, Induction
<1>4. \E m \in s : \A j \in s : m >= j
  BY <1>3
<1>5. Max(s) \in s /\ \A j \in s : Max(s) >= j
  BY <1>4, Zenon DEF Max
<1> QED BY <1>5

LEMMA RememberedAll ==
  ASSUME NEW Good, NEW mem \in Good, NEW S, NEW seq \in Seq(S), NEW age,
         \A g \in Good, i \in DOMAIN seq : Remember(g, seq[i], age) \in Good
  PROVE  FoldLeft(LAMBDA known, box : Remember(known, box, age), mem, seq) \in Good
<1> DEFINE D == DOMAIN seq
           Step(f, s) == IF s = {} THEN mem
                         ELSE Remember(f[s \ {Max(s)}], seq[Max(s)], age)
           Small(n) == {s \in SUBSET D : Cardinality(s) <= n}
           Upto(f, n) == /\ f = [s \in Small(n) |-> f[s]]
                         /\ \A s \in Small(n) : f[s] = Step(f, s)
           T == {n \in Nat : \E f : Upto(f, n)}
<1>0. /\ Cardinality(D) \in Nat
      /\ \A s \in SUBSET D : /\ IsFiniteSet(s) /\ Cardinality(s) \in Nat
                             /\ Cardinality(s) <= Cardinality(D)
                             /\ Cardinality(s) = 0 <=> s = {}
  <2>1. D = 1..Len(seq) /\ Len(seq) \in Nat
    OBVIOUS
  <2>2. IsFiniteSet(D)
    BY <2>1, FS_Interval
  <2> HIDE DEF D
  <2> QED BY <2>2, FS_Subset, FS_CardinalityType, FS_EmptySet
<1>00. \A s \in SUBSET D : s # {} =>
         /\ Max(s) \in s
         /\ s \ {Max(s)} \in SUBSET D
         /\ Cardinality(s \ {Max(s)}) = Cardinality(s) - 1
  <2> SUFFICES ASSUME NEW s \in SUBSET D, s # {}
               PROVE  Max(s) \in s /\ Cardinality(s \ {Max(s)}) = Cardinality(s) - 1
    OBVIOUS
  <2>1. D = 1..Len(seq) /\ Len(seq) \in Nat
    OBVIOUS
  <2> HIDE DEF D
  <2>2. Max(s) \in s
    BY <2>1, GreatestPosition
  <2> QED BY <1>0, <2>2, FS_RemoveElement
<1>1. 0 \in T
  <2> DEFINE f == [s \in Small(0) |-> mem]
  <2>1. \A s \in Small(0) : s = {}
    BY <1>0
  <2>2. Upto(f, 0)
    BY <2>1
  <2> QED BY <2>2
<1>2. ASSUME NEW n \in Nat, n \in T
      PROVE  n + 1 \in T
  <2>1. PICK f : Upto(f, n)
    BY <1>2
  <2> DEFINE longer == [s \in Small(n + 1) |-> IF Cardinality(s) <= n THEN f[s] ELSE Step(f, s)]
  <2>2. ASSUME NEW s \in Small(n + 1)
        PROVE  longer[s] = Step(longer, s)
    <3>1. s # {} => /\ s \ {Max(s)} \in Small(n)
                    /\ s \ {Max(s)} \in Small(n + 1)
      BY <1>0, <1>00
    <3>2. s # {} => longer[s \ {Max(s)}] = f[s \ {Max(s)}]
      BY <3>1
    <3>3. longer[s] = Step(f, s)
      <4>1. longer[s] = IF Cardinality(s) <= n THEN f[s] ELSE Step(f, s)
        OBVIOUS
      <4>2. Cardinality(s) <= n => s \in Small(n)
        OBVIOUS
      <4> HIDE DEF Step, longer, Small
      <4>3. \A r \in Small(n) : f[r] = Step(f, r)
        BY <2>1
      <4> QED BY <4>1, <4>2, <4>3
    <3> HIDE DEF longer
    <3> QED BY <3>2, <3>3
  <2>3. longer = [s \in Small(n + 1) |-> longer[s]]
    OBVIOUS
  <2>4. Upto(longer, n + 1)
    BY <2>2, <2>3
  <2> HIDE DEF Upto, longer
  <2> QED BY <2>4
<1>3. PICK f : Upto(f, Cardinality(D))
  <2> HIDE DEF Upto, D
  <2>1. Cardinality(D) \in T
    <3> HIDE DEF T
    <3> QED BY <1>0, <1>1, <1>2, Induction
  <2> QED BY <2>1
<1>4. Small(Cardinality(D)) = SUBSET D
  BY <1>0
<1> DEFINE loop == CHOOSE g : g = [s \in SUBSET D |-> Step(g, s)]
<1>5. f = [s \in SUBSET D |-> Step(f, s)]
  <2>1. f = [s \in SUBSET D |-> f[s]] /\ \A s \in SUBSET D : f[s] = Step(f, s)
    BY <1>3, <1>4
  <2> HIDE DEF Step
  <2> QED BY <2>1, Zenon
<1>6. loop = [s \in SUBSET D |-> Step(loop, s)]
  <2> HIDE DEF Step
  <2> QED BY <1>5, Zenon
<1>7. FoldLeft(LAMBDA known, box : Remember(known, box, age), mem, seq) = loop[D]
  BY DEF FoldLeft, MapThenFoldSet
<1>8. \A s \in SUBSET D : loop[s] = Step(loop, s)
  <2> HIDE DEF loop, Step
  <2> QED BY <1>6, Zenon
<1> DEFINE K == {n \in Nat : \A s \in Small(n) : loop[s] \in Good}
<1>9. 0 \in K
  <2> SUFFICES ASSUME NEW s \in Small(0) PROVE loop[s] \in Good
    OBVIOUS
  <2>1. s = {} /\ s \in SUBSET D
    BY <1>0
  <2> HIDE DEF loop
  <2> QED BY <1>8, <2>1
<1>10. ASSUME NEW n \in Nat, n \in K
       PROVE  n + 1 \in K
  <2> SUFFICES ASSUME NEW s \in Small(n + 1) PROVE loop[s] \in Good
    <3> HIDE DEF loop, Small
    <3> QED OBVIOUS
  <2> DEFINE m == Max(s)
             rest == s \ {m}
  <2>1. CASE s = {}
    <3> HIDE DEF loop
    <3> QED BY <1>8, <2>1
  <2>2. CASE s # {}
    <3>1. m \in s /\ m \in D /\ rest \in Small(n)
      BY <1>0, <1>00, <2>2
    <3>2. loop[s] = Remember(loop[rest], seq[m], age)
      <4> HIDE DEF loop
      <4> QED BY <1>8, <2>2
    <3> HIDE DEF loop, m, rest, Small
    <3>3. loop[rest] \in Good
      BY <1>10, <3>1
    <3> QED BY <3>1, <3>2, <3>3 DEF D
  <2> QED BY <2>1, <2>2
<1>11. loop[D] \in Good
  <2> HIDE DEF loop
  <2>1. Cardinality(D) \in K
    <3> HIDE DEF K, D
    <3> QED BY <1>0, <1>9, <1>10, Induction
  <2> QED BY <1>4, <2>1
<1> QED BY <1>7, <1>11

-----------------------------------------------------------------------------
(* The registry: its types, and ids that are given once.                   *)

NameSet == {Names[l] : l \in Labels}
Ages    == -MaxJump..(RemoveTimeout + 1)
Entity  == [id : NameSet \X Nat, label : Labels, x : Int, age : Ages, active : BOOLEAN]

Given(e, nextId) == e.id[1] = Names[e.label] /\ e.id[2] < nextId[e.id[1]]

DistinctIds(s) == \A i, j \in DOMAIN s : s[i].id = s[j].id => i = j

Registries ==
  {mem \in [entities : Seq(Entity), nextId : [NameSet -> Nat]] :
     /\ \A i \in DOMAIN mem.entities : Given(mem.entities[i], mem.nextId)
     /\ DistinctIds(mem.entities)}

Observations == [label : Labels, x : Int, age : Ages]

LEMMA Bounds ==
  /\ {MaxDetections, MaxEntities, MaxLag, MaxJump, MatchDistance} \subseteq Nat
  /\ {StaleTimeout, RemoveTimeout, SampleInterval} \subseteq Nat
  /\ Alpha \in 0..10
  /\ Ages \subseteq Int
  BY LiveSemanticMapConstants DEF Ages

LEMMA SmoothedIsWhole ==
  ASSUME NEW a \in Int, NEW b \in Int
  PROVE  Smoothed(a, b) \in Int
<1> DEFINE c == Alpha * b + (10 - Alpha) * a
<1>1. c \in Int
  BY Bounds
<1> HIDE DEF c
<1>2. c \div 10 \in Int
  BY <1>1, Division
<1> QED BY <1>2 DEF Smoothed, c

(* Entities may change in all but their ids and labels.                    *)
LEMMA SameIds ==
  ASSUME NEW mem \in Registries, NEW es \in Seq(Entity), DOMAIN es = DOMAIN mem.entities,
         \A i \in DOMAIN es : es[i].id = mem.entities[i].id /\ es[i].label = mem.entities[i].label
  PROVE  [mem EXCEPT !.entities = es] \in Registries
<1> DEFINE new == [mem EXCEPT !.entities = es]
<1>1. mem \in [entities : Seq(Entity), nextId : [NameSet -> Nat]]
  BY DEF Registries
<1>2. new = [entities |-> es, nextId |-> mem.nextId] /\ new.entities = es /\ new.nextId = mem.nextId
  BY <1>1
<1>3. new \in [entities : Seq(Entity), nextId : [NameSet -> Nat]]
  BY <1>1, <1>2
<1>4. /\ \A i \in DOMAIN mem.entities : Given(mem.entities[i], mem.nextId)
      /\ DistinctIds(mem.entities)
  BY DEF Registries
<1> HIDE DEF new
<1>5. \A i \in DOMAIN new.entities : Given(new.entities[i], new.nextId)
  BY <1>2, <1>4 DEF Given
<1>6. DistinctIds(new.entities)
  BY <1>2, <1>4 DEF DistinctIds
<1> QED BY <1>3, <1>5, <1>6 DEF Registries, new

(* Time passes, and an entity is at most as old as it can be told.         *)
LEMMA AgedKeeps ==
  ASSUME NEW mem \in Registries, NEW time \in Int,
         \A i \in DOMAIN mem.entities : mem.entities[i].age + time >= -MaxJump
  PROVE  [mem EXCEPT !.entities = Aged(@, time)] \in Registries
<1> DEFINE old == mem.entities
           es == Aged(old, time)
<1>1. old \in Seq(Entity)
  BY DEF Registries
<1>2. DOMAIN old = 1..Len(old) /\ Len(old) \in Nat
  BY <1>1
<1>3. \A i \in DOMAIN old : old[i] \in Entity
  BY <1>1, ElementOfSeq
<1>4. ASSUME NEW i \in DOMAIN old
      PROVE  /\ es[i] \in Entity
             /\ es[i].id = old[i].id /\ es[i].label = old[i].label
  <2> DEFINE age == Capped(old[i].age + time, RemoveTimeout + 1)
  <2>1. old[i].age \in Int /\ old[i].age + time >= -MaxJump
    BY <1>3, Bounds DEF Entity
  <2>2. age \in Ages
    BY <2>1, Bounds DEF Capped, Ages
  <2>3. es[i] = [old[i] EXCEPT !.age = age]
    BY DEF Aged
  <2> HIDE DEF age, es, old
  <2> QED BY <1>3, <2>2, <2>3 DEF Entity
<1>5. DOMAIN es = DOMAIN old
  BY DEF Aged
<1>6. es \in Seq(Entity)
  <2>1. es = [i \in 1..Len(old) |-> es[i]]
    BY <1>2 DEF Aged
  <2> HIDE DEF es, old
  <2> QED BY <1>2, <1>4, <2>1
<1> HIDE DEF es, old
<1>7. [mem EXCEPT !.entities = es] \in Registries
  BY <1>4, <1>5, <1>6, SameIds DEF old
<1> QED BY <1>7 DEF es, old

(* An entity that is seen again.                                           *)
LEMMA UpdateExistingKeeps ==
  ASSUME NEW known \in Registries, NEW i \in DOMAIN known.entities, NEW obs \in Observations
  PROVE  UpdateExisting(known, i, obs) \in Registries
<1> DEFINE old == known.entities
           x == Smoothed(old[i].x, obs.x)
           e == [old[i] EXCEPT !.x = x, !.age = obs.age, !.active = TRUE]
           es == [old EXCEPT ![i] = e]
<1>1. old \in Seq(Entity) /\ known \in [entities : Seq(Entity), nextId : [NameSet -> Nat]]
  BY DEF Registries
<1>2. \A j \in DOMAIN old : old[j] \in Entity
  BY <1>1, ElementOfSeq
<1>3. x \in Int
  BY <1>2, SmoothedIsWhole DEF Entity, Observations
<1>4. UpdateExisting(known, i, obs) = [known EXCEPT !.entities = es]
  <2>1. UpdateExisting(known, i, obs) = [known EXCEPT !.entities[i] = e]
    BY DEF UpdateExisting
  <2> HIDE DEF e
  <2> QED BY <1>1, <2>1
<1>5. e \in Entity /\ e.id = old[i].id /\ e.label = old[i].label
  <2>1. obs.age \in Ages /\ old[i] \in Entity
    BY <1>2 DEF Observations
  <2> HIDE DEF x, old
  <2> QED BY <1>3, <2>1 DEF Entity
<1> HIDE DEF e, x
<1>6. /\ es \in Seq(Entity) /\ DOMAIN es = DOMAIN old
      /\ \A j \in DOMAIN es : es[j].id = old[j].id /\ es[j].label = old[j].label
  <2>1. i \in DOMAIN old
    OBVIOUS
  <2> HIDE DEF old
  <2>2. es \in Seq(Entity)
    BY <1>1, <1>5, <2>1, ExceptSeq
  <2>3. DOMAIN es = DOMAIN old /\ \A j \in DOMAIN old : es[j] = IF j = i THEN e ELSE old[j]
    OBVIOUS
  <2> HIDE DEF es
  <2> QED BY <1>5, <2>2, <2>3
<1> HIDE DEF es
<1>7. [known EXCEPT !.entities = es] \in Registries
  BY <1>6, SameIds
<1> QED BY <1>4, <1>7

(* A new entity has an id that no other one has or had.                    *)
LEMMA CreateNewKeeps ==
  ASSUME NEW known \in Registries, NEW obs \in Observations
  PROVE  CreateNew(known, obs) \in Registries
<1> DEFINE old == known.entities
           name == Names[obs.label]
           e == [id |-> <<name, known.nextId[name]>>, label |-> obs.label,
                 x |-> obs.x, age |-> obs.age, active |-> TRUE]
           es == Append(old, e)
           nextId == [known.nextId EXCEPT ![name] = @ + 1]
           new == [entities |-> es, nextId |-> nextId]
<1>1. /\ old \in Seq(Entity) /\ known.nextId \in [NameSet -> Nat]
      /\ \A i \in DOMAIN old : Given(old[i], known.nextId)
      /\ DistinctIds(old)
  BY DEF Registries
<1>2. /\ obs.label \in Labels /\ obs.x \in Int /\ obs.age \in Ages
      /\ name \in NameSet
  BY DEF Observations, NameSet
<1>3. CreateNew(known, obs) = new
  BY DEF CreateNew
<1>4. /\ nextId \in [NameSet -> Nat] /\ nextId[name] = known.nextId[name] + 1
      /\ \A n \in NameSet : known.nextId[n] \in Nat /\ known.nextId[n] <= nextId[n]
  <2> HIDE DEF name
  <2> QED BY <1>1, <1>2
<1>5. e \in Entity /\ e.id = <<name, known.nextId[name]>> /\ e.label = obs.label
  <2>1. known.nextId[name] \in Nat
    BY <1>2, <1>4
  <2> HIDE DEF name
  <2> QED BY <1>2, <2>1 DEF Entity
<1>6. Given(e, nextId)
  <2>1. e.id[1] = name /\ e.id[2] = known.nextId[name]
    OBVIOUS
  <2>2. known.nextId[name] \in Nat
    BY <1>2, <1>4
  <2> HIDE DEF e, nextId
  <2> QED BY <1>4, <1>5, <2>1, <2>2 DEF Given
<1> HIDE DEF e, nextId
<1>7. /\ es \in Seq(Entity) /\ DOMAIN es = 1..(Len(old) + 1) /\ Len(old) \in Nat
      /\ DOMAIN old = 1..Len(old)
      /\ es[Len(old) + 1] = e /\ \A i \in 1..Len(old) : es[i] = old[i]
  <2> HIDE DEF old
  <2>1. es \in Seq(Entity) /\ Len(es) = Len(old) + 1 /\ Len(old) \in Nat
    BY <1>1, <1>5
  <2> QED BY <1>1, <1>5, <2>1
<1>8. \A i \in DOMAIN old : old[i] \in Entity
  BY <1>1, ElementOfSeq
<1> HIDE DEF old
<1>9. ASSUME NEW i \in DOMAIN old
      PROVE  Given(old[i], nextId) /\ old[i].id # e.id
  <2>1. /\ old[i].id[1] = Names[old[i].label]
        /\ old[i].id[2] < known.nextId[old[i].id[1]]
    BY <1>1 DEF Given
  <2>2. old[i].id[1] \in NameSet /\ old[i].id[2] \in Nat
    <3>1. old[i].id \in NameSet \X Nat
      BY <1>8 DEF Entity
    <3> QED BY <3>1
  <2>3. old[i].id[2] < nextId[old[i].id[1]]
    <3> DEFINE n == old[i].id[1]
               k == old[i].id[2]
    <3>1. known.nextId[n] \in Nat /\ known.nextId[n] <= nextId[n] /\ nextId[n] \in Nat
      BY <1>4, <2>2
    <3>2. k \in Nat /\ k < known.nextId[n]
      BY <2>1, <2>2
    <3> HIDE DEF n, k
    <3>3. k < nextId[n]
      BY <3>1, <3>2
    <3> QED BY <3>3 DEF n, k
  <2>4. ASSUME old[i].id = e.id PROVE FALSE
    <3>1. old[i].id[1] = name /\ old[i].id[2] = known.nextId[name]
      BY <1>5, <2>4
    <3>2. known.nextId[name] \in Nat /\ known.nextId[name] < known.nextId[name]
      BY <1>2, <1>4, <2>1, <3>1
    <3> QED BY <3>2
  <2> QED BY <2>1, <2>3, <2>4 DEF Given
<1>10. \A i \in DOMAIN es : Given(es[i], nextId)
  <2> HIDE DEF es
  <2>1. \A i \in DOMAIN es : (i \in DOMAIN old /\ es[i] = old[i]) \/ es[i] = e
    BY <1>7
  <2> QED BY <1>6, <1>9, <2>1
<1>11. DistinctIds(es)
  <2> HIDE DEF es
  <2> SUFFICES ASSUME NEW i \in DOMAIN es, NEW j \in DOMAIN es, es[i].id = es[j].id
               PROVE  i = j
    BY DEF DistinctIds
  <2>1. /\ (i \in DOMAIN old /\ es[i] = old[i]) \/ (i = Len(old) + 1 /\ es[i] = e)
        /\ (j \in DOMAIN old /\ es[j] = old[j]) \/ (j = Len(old) + 1 /\ es[j] = e)
    BY <1>7
  <2> QED BY <1>1, <1>9, <2>1 DEF DistinctIds
<1>12. new \in [entities : Seq(Entity), nextId : [NameSet -> Nat]]
       /\ new.entities = es /\ new.nextId = nextId
  <2> HIDE DEF es
  <2> QED BY <1>4, <1>7
<1> HIDE DEF new, es
<1>13. new \in Registries
  BY <1>10, <1>11, <1>12 DEF Registries
<1> QED BY <1>3, <1>13

LEMMA UpdateKeeps ==
  ASSUME NEW known \in Registries, NEW obs \in Observations
  PROVE  Update(known, obs) \in Registries
<1> DEFINE match == FindMatch(known.entities, obs)
<1>1. match \subseteq DOMAIN known.entities
  BY DEF FindMatch, FirstNearest
<1> HIDE DEF match
<1>2. Update(known, obs) = IF match = {} THEN CreateNew(known, obs)
                           ELSE UpdateExisting(known, CHOOSE i \in match : TRUE, obs)
  BY DEF Update, match
<1>3. match # {} => (CHOOSE i \in match : TRUE) \in DOMAIN known.entities
  BY <1>1
<1> QED BY <1>2, <1>3, CreateNewKeeps, UpdateExistingKeeps

(* A box is remembered where it was grounded, if it was.                   *)
LEMMA RememberKeeps ==
  ASSUME NEW known \in Registries, NEW box, box.label \in Labels, NEW age \in Ages,
         robot \in Poses
  PROVE  Remember(known, box, age) \in Registries
<1> DEFINE at == Grounded(box)
           obs == [label |-> box.label, x |-> CHOOSE x \in at : TRUE, age |-> age]
<1>1. at \subseteq Int
  <2>1. robot.x \in Int /\ robot.facing \in Int
    BY LiveSemanticMapConstants
  <2>2. Localize(scan, box.u) \subseteq Int
    <3>1. \A i : RobustRange(scan, i) \subseteq Int
      <4> SUFFICES ASSUME NEW i, NEW r \in RobustRange(scan, i) PROVE r \in Int
        OBVIOUS
      <4>1. PICK k \in ValidOffsets(scan, i) : r = scan.ranges[(k % Len(scan.ranges)) + 1]
        BY DEF RobustRange
      <4>2. scan.ranges[(k % Len(scan.ranges)) + 1] \in MinRange..MaxRange
        BY DEF ValidOffsets
      <4> QED BY <4>1, <4>2, ScanGeometryConstants
    <3> QED BY <3>1 DEF Localize
  <2>3. \A range \in Int : OnMap(range) \in Int
    BY <2>1 DEF OnMap
  <2> QED BY <2>2, <2>3 DEF Grounded
<1> HIDE DEF at
<1>2. Remember(known, box, age) = IF at = {} THEN known ELSE Update(known, obs)
  BY DEF Remember, at
<1>3. at # {} => obs \in Observations
  BY <1>1 DEF Observations
<1> HIDE DEF obs
<1> QED BY <1>2, <1>3, UpdateKeeps

(* Removal and the states of the rest.                                     *)
LEMMA AgeKeeps ==
  ASSUME NEW mem \in Registries
  PROVE  [mem EXCEPT !.entities = Age(@)] \in Registries
<1> DEFINE old == mem.entities
           young == {i \in DOMAIN old : old[i].age <= RemoveTimeout}
           kept == At(old, young)
           es == [i \in DOMAIN kept |-> [kept[i] EXCEPT !.active = kept[i].age <= StaleTimeout]]
           some == [mem EXCEPT !.entities = kept]
<1>1. /\ old \in Seq(Entity) /\ mem \in [entities : Seq(Entity), nextId : [NameSet -> Nat]]
      /\ \A i \in DOMAIN old : Given(old[i], mem.nextId)
      /\ \A i, j \in DOMAIN old : old[i].id = old[j].id => i = j
  BY DEF Registries, DistinctIds
<1>2. Age(old) = es
  BY DEF Age
<1> HIDE DEF old, young
<1>3. /\ kept \in Seq(Entity)
      /\ \A i \in DOMAIN kept : \E j \in DOMAIN old : kept[i] = old[j]
      /\ \A i, j \in DOMAIN kept : kept[i].id = kept[j].id => i = j
  <2>1. /\ kept \in Seq(Entity)
        /\ \A i \in DOMAIN kept : \E j \in DOMAIN old \cap young : kept[i] = old[j]
        /\ \A i, j \in DOMAIN kept : kept[i].id = kept[j].id => i = j
    BY <1>1, AtKeeps, Zenon
  <2> QED BY <2>1
<1> HIDE DEF kept
<1>4. some \in [entities : Seq(Entity), nextId : [NameSet -> Nat]]
      /\ some.entities = kept /\ some.nextId = mem.nextId
  BY <1>1, <1>3
<1> HIDE DEF some
<1>5. some \in Registries
  BY <1>1, <1>3, <1>4 DEF Registries, DistinctIds
<1>6. \A i \in DOMAIN kept : kept[i] \in Entity
  BY <1>3, ElementOfSeq
<1>7. ASSUME NEW i \in DOMAIN kept
      PROVE  es[i] \in Entity /\ es[i].id = kept[i].id /\ es[i].label = kept[i].label
  <2> DEFINE active == kept[i].age <= StaleTimeout
  <2>1. active \in BOOLEAN
    OBVIOUS
  <2>2. es[i] = [kept[i] EXCEPT !.active = active]
    OBVIOUS
  <2> HIDE DEF active, es
  <2> QED BY <1>6, <2>1, <2>2 DEF Entity
<1>8. DOMAIN kept = 1..Len(kept) /\ Len(kept) \in Nat
  BY <1>3
<1>9. DOMAIN es = DOMAIN kept /\ es = [i \in 1..Len(kept) |-> es[i]]
  BY <1>8
<1> HIDE DEF es
<1>10. es \in Seq(Entity)
  BY <1>7, <1>8, <1>9
<1>11. [some EXCEPT !.entities = es] \in Registries
  BY <1>4, <1>5, <1>7, <1>9, <1>10, SameIds
<1>12. [some EXCEPT !.entities = es] = [mem EXCEPT !.entities = es]
  BY <1>1, <1>4 DEF some
<1> QED BY <1>2, <1>11, <1>12 DEF old

-----------------------------------------------------------------------------
(* The invariant and its steps.                                            *)

TypeInv ==
  /\ robot \in Poses \cup {Lost} /\ scan \in Scans \cup {NoScan}
  /\ bounds \in Maps \cup {NoMap} /\ refined \in RefinedStates \cup {NoRefined}
  /\ sampled \in -MaxJump..Never
  /\ memory \in Registries

LEMMA TypeInvStarts == Init => TypeInv
<1> SUFFICES ASSUME Init PROVE TypeInv
  OBVIOUS
<1>1. sampled \in -MaxJump..Never
  BY Bounds DEF Init, Never
<1> DEFINE nextId == [n \in NameSet |-> 0]
<1>2. memory = [entities |-> <<>>, nextId |-> nextId]
  BY DEF Init, NameSet
<1>3. nextId \in [NameSet -> Nat] /\ <<>> \in Seq(Entity) /\ DOMAIN <<>> = {}
  OBVIOUS
<1> HIDE DEF nextId
<1>4. memory \in Registries
  BY <1>2, <1>3 DEF Registries, DistinctIds
<1> QED BY <1>1, <1>4 DEF Init, TypeInv

LEMMA AgesAreBounded ==
  ASSUME memory \in Registries, NEW i \in DOMAIN memory.entities
  PROVE  memory.entities[i].age \in Ages
<1>1. memory.entities \in Seq(Entity)
  BY DEF Registries
<1>2. memory.entities[i] \in Entity
  BY <1>1, ElementOfSeq
<1> QED BY <1>2 DEF Entity

LEMMA AgedMemory ==
  ASSUME memory \in Registries, NEW time \in Nat
  PROVE  [memory EXCEPT !.entities = Aged(@, time)] \in Registries
<1>1. \A i \in DOMAIN memory.entities : memory.entities[i].age + time >= -MaxJump
  <2> SUFFICES ASSUME NEW i \in DOMAIN memory.entities
               PROVE  memory.entities[i].age + time >= -MaxJump
    OBVIOUS
  <2>1. memory.entities[i].age \in Ages
    BY AgesAreBounded
  <2> QED BY <2>1, Bounds DEF Ages
<1> QED BY <1>1, AgedKeeps

LEMMA CappedLag ==
  ASSUME NEW lag \in 0..MaxLag
  PROVE  /\ lag \in Nat
         /\ Capped(lag, SampleInterval) \in -MaxJump..Never
         /\ Capped(lag, RemoveTimeout + 1) \in Ages
<1>1. lag \in Nat
  BY Bounds
<1>2. Capped(lag, SampleInterval) \in -MaxJump..Never
  BY <1>1, Bounds DEF Capped, Never
<1>3. Capped(lag, RemoveTimeout + 1) \in Ages
  BY <1>1, Bounds DEF Capped, Ages
<1> QED BY <1>1, <1>2, <1>3

LEMMA ImageProcessedKeeps ==
  ASSUME TypeInv, NEW boxes \in Boxes, NEW lag \in 0..MaxLag, ImageProcessed(boxes, lag)
  PROVE  TypeInv'
<1> DEFINE aged == [memory EXCEPT !.entities = Aged(@, lag)]
           age == Capped(lag, RemoveTimeout + 1)
<1>1. /\ robot \in Poses
      /\ sampled' = Capped(lag, SampleInterval)
      /\ UNCHANGED <<robot, scan, bounds, refined>>
  BY DEF TypeInv, ImageProcessed
<1>2. aged \in Registries /\ age \in Ages
  BY AgedMemory, CappedLag DEF TypeInv
<1>3. memory' = FoldLeft(LAMBDA known, box : Remember(known, box, age), aged, boxes)
  BY DEF ImageProcessed
<1> HIDE DEF aged, age
<1> DEFINE Box == [label : Labels, u : Pixels]
<1>4. boxes \in Seq(Box)
  <2>1. PICK n \in 0..MaxDetections : boxes \in [1..n -> Box]
    BY DEF Boxes
  <2>2. n \in Nat
    BY Bounds
  <2> HIDE DEF Box
  <2> QED BY <2>1, <2>2
<1>5. \A i \in DOMAIN boxes : boxes[i].label \in Labels
  <2>1. \A i \in DOMAIN boxes : boxes[i] \in Box
    <3> HIDE DEF Box
    <3> QED BY <1>4, ElementOfSeq
  <2> QED BY <2>1
<1> HIDE DEF Box
<1>6. \A g \in Registries, i \in DOMAIN boxes : Remember(g, boxes[i], age) \in Registries
  BY <1>1, <1>2, <1>5, RememberKeeps
<1>7. memory' \in Registries
  <2>1. FoldLeft(LAMBDA known, box : Remember(known, box, age), aged, boxes) \in Registries
    BY <1>2, <1>4, <1>6, RememberedAll DEF FoldLeft, MapThenFoldSet
  <2> QED BY <1>3, <2>1
<1> QED BY <1>1, <1>7, CappedLag DEF TypeInv

LEMMA ImageDroppedKeeps ==
  ASSUME TypeInv, NEW lag \in 0..MaxLag, ImageDropped(lag)
  PROVE  TypeInv'
<1>1. memory' \in Registries
  BY AgedMemory, CappedLag DEF TypeInv, ImageDropped
<1> QED BY <1>1, CappedLag DEF TypeInv, ImageDropped

LEMMA PublishOutputsKeeps ==
  ASSUME TypeInv, PublishOutputs
  PROVE  TypeInv'
<1> DEFINE aged == [memory EXCEPT !.entities = Aged(@, 1)]
<1>1. aged \in Registries
  BY AgedMemory DEF TypeInv
<1>2. memory' = [aged EXCEPT !.entities = Age(@)]
  <2>1. memory \in [entities : Seq(Entity), nextId : [NameSet -> Nat]]
    BY DEF TypeInv, Registries
  <2> DEFINE older == Aged(memory.entities, 1)
  <2>2. memory' = [memory EXCEPT !.entities = Age(older)] /\ aged = [memory EXCEPT !.entities = older]
    BY DEF PublishOutputs
  <2> HIDE DEF older, aged
  <2> QED BY <2>1, <2>2
<1> HIDE DEF aged
<1>3. memory' \in Registries
  BY <1>1, <1>2, AgeKeeps
<1>4. sampled' \in -MaxJump..Never
  BY Bounds DEF TypeInv, PublishOutputs, Never, Capped
<1> QED BY <1>3, <1>4 DEF TypeInv, PublishOutputs

LEMMA ClockSetBackKeeps ==
  ASSUME TypeInv, NEW jump \in 1..MaxJump, ClockSetBack(jump)
  PROVE  TypeInv'
<1>1. jump \in Int /\ MaxJump \in Nat /\ -jump \in Int
  BY Bounds
<1>2. \A i \in DOMAIN memory.entities : memory.entities[i].age + (-jump) >= -MaxJump
  <2> SUFFICES ASSUME NEW i \in DOMAIN memory.entities
               PROVE  memory.entities[i].age + (-jump) >= -MaxJump
    OBVIOUS
  <2>1. memory.entities[i].age \in Int /\ memory.entities[i].age >= 0
    BY AgesAreBounded, Bounds DEF TypeInv, ClockSetBack
  <2> QED BY <1>1, <2>1
<1>3. memory' \in Registries
  BY <1>1, <1>2, AgedKeeps DEF TypeInv, ClockSetBack
<1>4. sampled' \in -MaxJump..Never
  BY <1>1, Bounds DEF TypeInv, ClockSetBack, Never
<1> QED BY <1>3, <1>4 DEF TypeInv, ClockSetBack

LEMMA TypeInvStep == TypeInv /\ [Next]_vars => TypeInv'
<1> SUFFICES ASSUME TypeInv, [Next]_vars PROVE TypeInv'
  OBVIOUS
<1>1. CASE TransformReceived
  BY <1>1 DEF TypeInv, TransformReceived
<1>2. CASE ScanReceived
  BY <1>2 DEF TypeInv, ScanReceived
<1>3. CASE MapReceived
  BY <1>3 DEF TypeInv, MapReceived
<1>4. CASE RefinedReceived
  BY <1>4 DEF TypeInv, RefinedReceived
<1>5. CASE \E lag \in 0..MaxLag : ImageDropped(lag)
  BY <1>5, ImageDroppedKeeps
<1>6. CASE \E boxes \in Boxes, lag \in 0..MaxLag : ImageProcessed(boxes, lag)
  BY <1>6, ImageProcessedKeeps
<1>7. CASE PublishOutputs
  BY <1>7, PublishOutputsKeeps
<1>8. CASE \E jump \in 1..MaxJump : ClockSetBack(jump)
  BY <1>8, ClockSetBackKeeps
<1>9. CASE UNCHANGED vars
  BY <1>9 DEF TypeInv, vars
<1> QED BY <1>1, <1>2, <1>3, <1>4, <1>5, <1>6, <1>7, <1>8, <1>9 DEF Next

(* There are as many different ids as entities.                            *)
LEMMA OneIdEach ==
  ASSUME memory \in Registries
  PROVE  Cardinality(Remembered) = Len(memory.entities)
<1> DEFINE es == memory.entities
           n == Len(es)
           idOf == [i \in 1..n |-> es[i].id]
<1>1. es \in Seq(Entity) /\ DistinctIds(es)
  BY DEF Registries
<1>2. n \in Nat /\ DOMAIN es = 1..n
  BY <1>1
<1> HIDE DEF n
<1>3. Remembered = {es[i].id : i \in 1..n}
  BY <1>2 DEF Remembered
<1> HIDE DEF es
<1>4. idOf \in Bijection(1..n, Remembered)
  <2>1. idOf \in [1..n -> Remembered]
    BY <1>3
  <2>2. \A i, j \in 1..n : idOf[i] = idOf[j] => i = j
    BY <1>1, <1>2 DEF DistinctIds
  <2>3. \A id \in Remembered : \E i \in 1..n : idOf[i] = id
    BY <1>3
  <2> HIDE DEF idOf
  <2> QED BY <2>1, <2>2, <2>3 DEF Bijection, Injection, Surjection, IsInjective
<1>5. IsFiniteSet(1..n) /\ Cardinality(1..n) = n
  BY <1>2, FS_Interval
<1>6. Cardinality(Remembered) = n
  BY <1>2, <1>4, <1>5, FS_Bijection DEF ExistsBijection
<1> QED BY <1>6 DEF n, es

LEMMA TypeInvGivesTypeOK == TypeInv => TypeOK
<1> SUFFICES ASSUME TypeInv PROVE TypeOK
  OBVIOUS
<1>1. \A i \in DOMAIN memory.entities :
        LET e == memory.entities[i]
        IN /\ e.label \in Labels /\ e.x \in Int /\ e.active \in BOOLEAN
           /\ e.age \in -MaxJump..(RemoveTimeout + 1)
           /\ e.id[1] = Names[e.label] /\ e.id[2] < memory.nextId[e.id[1]]
  <2> SUFFICES ASSUME NEW i \in DOMAIN memory.entities
               PROVE  /\ memory.entities[i] \in Entity
                      /\ Given(memory.entities[i], memory.nextId)
    BY DEF Entity, Given, Ages
  <2>1. memory.entities \in Seq(Entity) /\ Given(memory.entities[i], memory.nextId)
    BY DEF TypeInv, Registries
  <2> QED BY <2>1, ElementOfSeq
<1>2. Cardinality(Remembered) = Len(memory.entities)
  BY OneIdEach DEF TypeInv
<1> QED BY <1>1, <1>2 DEF TypeInv, TypeOK

(* What the registry keeps is well formed, and no id names two of its      *)
(* entities or was given before to one that is gone.                       *)
THEOREM RegistryIsSound == Spec => []TypeOK
<1>1. Init => TypeInv
  BY TypeInvStarts
<1>2. TypeInv /\ [Next]_vars => TypeInv'
  BY TypeInvStep
<1>3. TypeInv => TypeOK
  BY TypeInvGivesTypeOK
<1> QED BY <1>1, <1>2, <1>3, PTL DEF Spec

(* The ray that is read for a box is the nearest of its bearing, whatever  *)
(* the layout of the scan.                                                 *)
THEOREM RaysAlwaysMatchBearings == Spec => []RaysMatchBearings
<1>1. Init => TypeInv
  BY TypeInvStarts
<1>2. TypeInv /\ [Next]_vars => TypeInv'
  BY TypeInvStep
<1>3. TypeInv => RaysMatchBearings
  <2>1. TypeInv => scan \in Scans \/ scan = NoScan
    BY DEF TypeInv
  <2>2. scan = NoScan => RaysMatchBearings
    BY DEF RaysMatchBearings
  <2> QED BY <2>1, <2>2, RaysMatch
<1> QED BY <1>1, <1>2, <1>3, PTL DEF Spec

-----------------------------------------------------------------------------
(* What is published: the entities, and the loops of what is added.        *)

LiveItem == [id : NameSet \X Nat, name : NameSet, x : Int]
LiveLists == {live \in Seq(LiveItem) : DistinctIds(live)}

LEMMA LiveEntitiesAreDistinct ==
  ASSUME memory \in Registries
  PROVE  LiveEntities \in LiveLists
<1> DEFINE known == memory.entities
           seen == {i \in DOMAIN known : known[i].active}
           active == At(known, seen)
           live == LiveEntities
<1>1. known \in Seq(Entity) /\ \A i, j \in DOMAIN known : known[i].id = known[j].id => i = j
  BY DEF Registries, DistinctIds
<1>2. live = [i \in DOMAIN active |-> [id |-> active[i].id, name |-> Names[active[i].label],
                                       x |-> active[i].x]]
  BY DEF LiveEntities, Active
<1> HIDE DEF known, seen
<1>3. /\ active \in Seq(Entity)
      /\ \A i, j \in DOMAIN active : active[i].id = active[j].id => i = j
  <2>1. /\ active \in Seq(Entity)
        /\ \A i \in DOMAIN active : \E j \in DOMAIN known \cap seen : active[i] = known[j]
        /\ \A i, j \in DOMAIN active : active[i].id = active[j].id => i = j
    BY <1>1, AtKeeps, Zenon
  <2> QED BY <2>1
<1> HIDE DEF active, live
<1>4. \A i \in DOMAIN active : active[i] \in Entity
  BY <1>3, ElementOfSeq
<1>5. DOMAIN active = 1..Len(active) /\ Len(active) \in Nat
  BY <1>3
<1>6. ASSUME NEW i \in DOMAIN active
      PROVE  live[i] \in LiveItem /\ live[i].id = active[i].id
  <2> DEFINE name == Names[active[i].label]
  <2>1. name \in NameSet
    BY <1>4 DEF NameSet, Entity
  <2>2. live[i] = [id |-> active[i].id, name |-> name, x |-> active[i].x]
    BY <1>2
  <2> HIDE DEF name
  <2> QED BY <1>4, <2>1, <2>2 DEF LiveItem, Entity
<1>7. live = [i \in 1..Len(active) |-> live[i]]
  BY <1>2, <1>5
<1>8. live \in Seq(LiveItem)
  BY <1>5, <1>6, <1>7
<1>9. DistinctIds(live)
  <2>1. DOMAIN live = DOMAIN active
    BY <1>2
  <2> QED BY <1>3, <1>6, <2>1 DEF DistinctIds
<1> QED BY <1>8, <1>9 DEF LiveLists, live

(* A loop over 1..N that begins with z and whose round k turns v into      *)
(* F[k, v] is defined when its values stay in V.                           *)
IsLoop(f, N, V, z, F) ==
  f \in [0..N -> V] /\ \A k \in 0..N : f[k] = IF k = 0 THEN z ELSE F[<<k, f[k - 1]>>]

LEMMA LoopIsDefined ==
  ASSUME NEW N \in Nat, NEW V, NEW z \in V, NEW F \in [(1..N) \X V -> V]
  PROVE  \E f : IsLoop(f, N, V, z, F)
<1>0. \A k \in 1..N, v \in V : F[<<k, v>>] \in V
  OBVIOUS
<1> DEFINE Upto(f, n) == /\ f \in [0..n -> V]
                         /\ \A k \in 0..n : f[k] = IF k = 0 THEN z ELSE F[<<k, f[k - 1]>>]
           T == {n \in Nat : n <= N => \E f : Upto(f, n)}
<1>1. 0 \in T
  <2> DEFINE f == [k \in 0..0 |-> z]
  <2>1. Upto(f, 0)
    OBVIOUS
  <2> QED BY <2>1
<1>2. ASSUME NEW n \in Nat, n \in T
      PROVE  n + 1 \in T
  <2> SUFFICES ASSUME n + 1 <= N PROVE \E f : Upto(f, n + 1)
    OBVIOUS
  <2>1. PICK f : Upto(f, n)
    BY <1>2
  <2> DEFINE next == F[<<n + 1, f[n]>>]
             longer == [k \in 0..(n + 1) |-> IF k = n + 1 THEN next ELSE f[k]]
  <2>2. next \in V
    BY <1>0, <2>1
  <2>3. longer \in [0..(n + 1) -> V]
    <3> HIDE DEF next
    <3> QED BY <2>1, <2>2
  <2>4. /\ \A k \in 0..n : k \in 0..(n + 1) /\ longer[k] = f[k]
        /\ longer[n + 1] = next
    <3> HIDE DEF next
    <3> QED OBVIOUS
  <2> HIDE DEF longer
  <2>5. ASSUME NEW k \in 0..(n + 1)
        PROVE  longer[k] = IF k = 0 THEN z ELSE F[<<k, longer[k - 1]>>]
    <3>1. CASE k = n + 1
      <4>1. longer[k - 1] = f[n] /\ k # 0
        BY <2>4, <3>1
      <4> QED BY <2>4, <3>1, <4>1
    <3>2. CASE k # n + 1
      <4>1. k \in 0..n /\ (k # 0 => k - 1 \in 0..n)
        BY <3>2
      <4> QED BY <2>1, <2>4, <4>1
    <3> QED BY <3>1, <3>2
  <2> QED BY <2>3, <2>5
<1>3. N \in T
  <2> HIDE DEF T
  <2> QED BY <1>1, <1>2, Induction
<1>4. \E f : Upto(f, N)
  BY <1>3
<1> QED BY <1>4 DEF IsLoop

LEMMA LoopKeeps ==
  ASSUME NEW N \in Nat, NEW V, NEW f, f[0] \in V,
         \A k \in 1..N : f[k - 1] \in V => f[k] \in V
  PROVE  \A k \in 0..N : f[k] \in V
<1> DEFINE T == {n \in Nat : n <= N => f[n] \in V}
<1>1. 0 \in T
  OBVIOUS
<1>2. ASSUME NEW n \in Nat, n \in T
      PROVE  n + 1 \in T
  <2> SUFFICES ASSUME n + 1 <= N PROVE f[n + 1] \in V
    OBVIOUS
  <2>1. n + 1 \in 1..N /\ (n + 1) - 1 = n /\ f[n] \in V
    BY <1>2
  <2> QED BY <2>1
<1>3. Nat \subseteq T
  <2> HIDE DEF T
  <2> QED BY <1>1, <1>2, Induction
<1> QED BY <1>3

(* The members of a cluster are entities, and i is one of them.            *)
LEMMA ClusterIsLive ==
  ASSUME NEW live \in LiveLists, NEW i \in DOMAIN live
  PROVE  Cluster(live, i) \subseteq DOMAIN live /\ i \in Cluster(live, i)
<1> DEFINE N == Len(live)
           V == {c \in SUBSET (DOMAIN live) : i \in c}
           Grow(c) == {j \in DOMAIN live : \E m \in c : Gap(live[j].x, live[m].x) <= ClusterDistance}
           grown == CHOOSE g : g = [k \in 0..N |-> IF k = 0 THEN {i} ELSE Grow(g[k - 1])]
           F == [kv \in (1..N) \X V |-> Grow(kv[2])]
<1>1. live \in Seq(LiveItem) /\ N \in Nat
  BY DEF LiveLists
<1>2. \A j \in DOMAIN live : live[j] \in LiveItem
  BY <1>1, ElementOfSeq
<1>3. live[i].x \in Int /\ Gap(live[i].x, live[i].x) <= ClusterDistance
  BY <1>2, EnrichmentConstants DEF LiveItem, Gap
<1>4. ASSUME NEW c \in V
      PROVE  Grow(c) \in V
  BY <1>3
<1>5. {i} \in V
  OBVIOUS
<1>6. Cluster(live, i) = grown[N]
  BY DEF Cluster
<1> HIDE DEF N, V, Grow
<1>7. PICK f : IsLoop(f, N, V, {i}, F)
  <2>1. F \in [(1..N) \X V -> V]
    BY <1>4
  <2> HIDE DEF F
  <2> QED BY <1>1, <1>5, <2>1, LoopIsDefined
<1>8. f = [k \in 0..N |-> IF k = 0 THEN {i} ELSE Grow(f[k - 1])]
  <2>1. ASSUME NEW k \in 0..N, k # 0
        PROVE  f[k] = Grow(f[k - 1])
    <3>1. k \in 1..N /\ f[k - 1] \in V
      <4> HIDE DEF F
      <4> QED BY <1>1, <1>7, <2>1 DEF IsLoop
    <3>2. F[<<k, f[k - 1]>>] = Grow(f[k - 1])
      BY <3>1
    <3> HIDE DEF F
    <3> QED BY <1>7, <2>1, <3>2 DEF IsLoop
  <2>2. f[0] = {i}
    <3> HIDE DEF F
    <3> QED BY <1>1, <1>7 DEF IsLoop
  <2> HIDE DEF F
  <2> QED BY <1>7, <2>1, <2>2 DEF IsLoop
<1>9. grown = [k \in 0..N |-> IF k = 0 THEN {i} ELSE Grow(grown[k - 1])]
  BY <1>8, Zenon
<1> HIDE DEF grown
<1>10. grown[0] \in V /\ \A k \in 1..N : grown[k - 1] \in V => grown[k] \in V
  <2>1. \A k \in 0..N : grown[k] = IF k = 0 THEN {i} ELSE Grow(grown[k - 1])
    BY <1>9, Zenon
  <2>2. grown[0] = {i} /\ \A k \in 1..N : grown[k] = Grow(grown[k - 1])
    BY <1>1, <2>1
  <2> QED BY <1>4, <1>5, <2>2
<1>11. grown[N] \in V
  <2>1. \A k \in 0..N : grown[k] \in V
    BY <1>1, <1>10, LoopKeeps, Zenon
  <2> QED BY <1>1, <2>1
<1> QED BY <1>6, <1>11 DEF V

(* No live entity is taken for two refined ones.                           *)
Taken(matches, live) ==
  /\ \A m \in matches : m[2] \in Ids(live)
  /\ \A m, n \in matches : m[2] = n[2] => m[1] = n[1]

LEMMA MatchesAreTaken ==
  ASSUME NEW live \in LiveLists, NEW those, IsFiniteSet(DOMAIN those)
  PROVE  Taken(Matches(live, those), live)
<1> DEFINE sure == {i \in DOMAIN those : Confident(those[i])}
           N == Cardinality(sure)
           Surest(k) == CHOOSE i \in sure : Cardinality({j \in sure : Surer(those, j, i)}) = k - 1
           Near(k, made) == MatchOf(live, {m[2] : m \in made}, those[Surest(k)])
           More(k, made) == made \cup {<<those[Surest(k)].id, live[i].id, k>> : i \in Near(k, made)}
           All == {those[Surest(k)].id : k \in 1..N} \X Ids(live) \X (1..N)
           V == {made \in SUBSET All : \A m, n \in made : m[2] = n[2] => m[1] = n[1]}
           loop == CHOOSE g : g = [k \in 0..N |-> IF k = 0 THEN {} ELSE More(k, g[k - 1])]
           F == [kv \in (1..N) \X V |-> More(kv[1], kv[2])]
<1>1. N \in Nat
  <2>1. IsFiniteSet(sure)
    BY FS_Subset
  <2> QED BY <2>1, FS_CardinalityType
<1>2. Matches(live, those) =
        {<<m[1], m[2]>> : m \in {n \in loop[N] : \A o \in loop[N] : o[1] = n[1] => o[3] <= n[3]}}
  BY DEF Matches
<1> HIDE DEF N, Surest
<1>3. ASSUME NEW k \in 1..N, NEW made \in V
      PROVE  More(k, made) \in V
  <2> DEFINE new == {<<those[Surest(k)].id, live[i].id, k>> : i \in Near(k, made)}
  <2>1. ASSUME NEW i \in Near(k, made)
        PROVE  live[i].id \in Ids(live) /\ live[i].id \notin {m[2] : m \in made}
    BY DEF MatchOf, Nearest, FirstNearest, Ids
  <2> HIDE DEF Near
  <2>2. new \in SUBSET All
    <3>1. those[Surest(k)].id \in {those[Surest(l)].id : l \in 1..N}
      OBVIOUS
    <3> QED BY <2>1, <3>1
  <2>3. \A n \in new : n[1] = those[Surest(k)].id /\ \A m \in made : m[2] # n[2]
    BY <2>1
  <2>4. made \cup new \in SUBSET All
    BY <2>2
  <2> HIDE DEF new, All
  <2>5. \A m, n \in made \cup new : m[2] = n[2] => m[1] = n[1]
    BY <2>3
  <2>6. More(k, made) = made \cup new
    BY DEF new
  <2> QED BY <2>4, <2>5, <2>6
<1>4. {} \in V
  OBVIOUS
<1>5. \A made \in V : /\ \A m \in made : m[2] \in Ids(live)
                      /\ \A m, n \in made : m[2] = n[2] => m[1] = n[1]
  OBVIOUS
<1> HIDE DEF V, More, All
<1>6. PICK f : IsLoop(f, N, V, {}, F)
  <2>1. F \in [(1..N) \X V -> V]
    BY <1>3
  <2> HIDE DEF F
  <2> QED BY <1>1, <1>4, <2>1, LoopIsDefined
<1>7. f = [k \in 0..N |-> IF k = 0 THEN {} ELSE More(k, f[k - 1])]
  <2>1. ASSUME NEW k \in 0..N, k # 0
        PROVE  f[k] = More(k, f[k - 1])
    <3>1. k \in 1..N /\ f[k - 1] \in V
      <4> HIDE DEF F
      <4> QED BY <1>1, <1>6, <2>1 DEF IsLoop
    <3>2. F[<<k, f[k - 1]>>] = More(k, f[k - 1])
      BY <3>1
    <3> HIDE DEF F
    <3> QED BY <1>6, <2>1, <3>2 DEF IsLoop
  <2>2. f[0] = {}
    <3>1. 0 \in 0..N
      BY <1>1
    <3> HIDE DEF F
    <3> QED BY <1>6, <3>1 DEF IsLoop
  <2> HIDE DEF F
  <2> QED BY <1>6, <2>1, <2>2 DEF IsLoop
<1>8. loop = [k \in 0..N |-> IF k = 0 THEN {} ELSE More(k, loop[k - 1])]
  BY <1>7, Zenon
<1> HIDE DEF loop
<1>9. loop[0] \in V /\ \A k \in 1..N : loop[k - 1] \in V => loop[k] \in V
  <2>1. \A k \in 0..N : loop[k] = IF k = 0 THEN {} ELSE More(k, loop[k - 1])
    BY <1>8, Zenon
  <2>2. loop[0] = {} /\ \A k \in 1..N : loop[k] = More(k, loop[k - 1])
    BY <1>1, <2>1
  <2> QED BY <1>3, <1>4, <2>2
<1>10. loop[N] \in V
  <2>1. \A k \in 0..N : loop[k] \in V
    BY <1>1, <1>9, LoopKeeps, Zenon
  <2> QED BY <1>1, <2>1
<1> DEFINE all == loop[N]
           matches == {<<m[1], m[2]>> : m \in {n \in all : \A o \in all : o[1] = n[1] => o[3] <= n[3]}}
<1>11. /\ \A m \in all : m[2] \in Ids(live)
       /\ \A m, n \in all : m[2] = n[2] => m[1] = n[1]
  BY <1>5, <1>10
<1> HIDE DEF all
<1>12. \A m \in matches : \E n \in all : m[1] = n[1] /\ m[2] = n[2]
  OBVIOUS
<1> HIDE DEF matches
<1>13. Taken(matches, live)
  BY <1>11, <1>12 DEF Taken
<1> QED BY <1>2, <1>13 DEF matches, all

Apart(a, b) == a.target = b.target /\ a # b => 20 * Gap(a.x, b.x) > 7 * RefinedDistance

(* Anchors that are added are of live entities and lie apart.              *)
LEMMA AddedAnchorsLieApart ==
  ASSUME NEW live \in LiveLists, NEW old, NEW those, NEW matches,
         Taken(matches, live), Len(those) \in Nat,
         \A a \in old : a.x \in Int,
         \A k \in 1..Len(those) : those[k].x \in Int
  PROVE  \A a \in AddedAnchors(old, those, matches) :
           /\ a.target \in Ids(live)
           /\ \A b \in old \cup AddedAnchors(old, those, matches) : Apart(a, b)
<1> DEFINE N == Len(those)
           Near(a, target, x) == a.target = target /\ 20 * Gap(a.x, x) <= 7 * RefinedDistance
           Free(k, made) == {t \in Live(matches, those[k].target) :
                               /\ Confident(those[k])
                               /\ ~\E a \in old \cup made : Near(a, t, those[k].x)}
           Anchor(k, t) == [kind |-> "refined", target |-> t, x |-> those[k].x]
           More(k, made) == made \cup {Anchor(k, t) : t \in Free(k, made)}
           All == [kind : {"refined"}, target : Ids(live), x : Int]
           V == {made \in SUBSET All : \A a \in made, b \in old \cup made : Apart(a, b)}
           loop == CHOOSE g : g = [k \in 0..N |-> IF k = 0 THEN {} ELSE More(k, g[k - 1])]
           F == [kv \in (1..N) \X V |-> More(kv[1], kv[2])]
<1>1. N \in Nat
  OBVIOUS
<1>2. AddedAnchors(old, those, matches) = loop[N]
  BY DEF AddedAnchors
<1> HIDE DEF N
<1>3. ASSUME NEW k \in 1..N, NEW made \in V
      PROVE  More(k, made) \in V
  <2> DEFINE new == {Anchor(k, t) : t \in Free(k, made)}
             x == those[k].x
  <2>1. x \in Int /\ made \in SUBSET All
    BY DEF N
  <2>2. ASSUME NEW t \in Free(k, made)
        PROVE  t \in Ids(live)
    <3>1. t \in Live(matches, those[k].target)
      OBVIOUS
    <3> QED BY <3>1 DEF Live, Taken
  <2>3. ASSUME NEW t \in Free(k, made), NEW b \in old \cup made, b.target = t
        PROVE  ~(20 * Gap(b.x, x) <= 7 * RefinedDistance)
    BY <2>3
  <2> HIDE DEF Free, x
  <2>4. ASSUME NEW a \in new
        PROVE  /\ a \in All /\ a.x = x
               /\ \E t \in Free(k, made) : a = [kind |-> "refined", target |-> t, x |-> x]
    <3>1. PICK t \in Free(k, made) : a = [kind |-> "refined", target |-> t, x |-> x]
      BY DEF x
    <3>2. t \in Ids(live)
      BY <2>2
    <3> QED BY <2>1, <3>1, <3>2
  <2>5. ASSUME NEW b \in old \cup made
        PROVE  b.x \in Int
    BY <2>1
  <2>6. ASSUME NEW a \in new, NEW b \in old \cup made
        PROVE  Apart(a, b) /\ Apart(b, a)
    <3> SUFFICES ASSUME a.target = b.target
                 PROVE  /\ 20 * Gap(a.x, b.x) > 7 * RefinedDistance
                        /\ 20 * Gap(b.x, a.x) > 7 * RefinedDistance
      BY DEF Apart
    <3>1. ~(20 * Gap(b.x, x) <= 7 * RefinedDistance)
      <4>1. PICK t \in Free(k, made) : a = [kind |-> "refined", target |-> t, x |-> x]
        BY <2>4
      <4>2. b.target = t
        BY <4>1
      <4> QED BY <2>3, <4>2
    <3>2. b.x \in Int /\ a.x = x /\ RefinedDistance \in Nat
      BY <2>4, <2>5, EnrichmentConstants
    <3> HIDE DEF new
    <3> QED BY <2>1, <3>1, <3>2 DEF Gap
  <2>7. ASSUME NEW a \in new, NEW b \in new
        PROVE  Apart(a, b)
    <3>1. a.target = b.target => a = b
      <4>1. PICK t \in Free(k, made) : a = [kind |-> "refined", target |-> t, x |-> x]
        BY <2>4
      <4>2. PICK u \in Free(k, made) : b = [kind |-> "refined", target |-> u, x |-> x]
        BY <2>4
      <4> QED BY <4>1, <4>2
    <3> QED BY <3>1 DEF Apart
  <2>8. made \cup new \in SUBSET All
    BY <2>1, <2>4
  <2>9. \A a \in made, b \in old \cup made : Apart(a, b)
    OBVIOUS
  <2>10. More(k, made) = made \cup new
    OBVIOUS
  <2> HIDE DEF new, All
  <2>11. \A a \in made \cup new, b \in old \cup (made \cup new) : Apart(a, b)
    BY <2>6, <2>7, <2>9
  <2> HIDE DEF More
  <2> QED BY <2>8, <2>10, <2>11
<1>4. {} \in V
  OBVIOUS
<1>5. ASSUME NEW made \in V, NEW a \in made
      PROVE  /\ a.target \in Ids(live)
             /\ \A b \in old \cup made : Apart(a, b)
  OBVIOUS
<1> HIDE DEF V, More, All
<1>6. PICK f : IsLoop(f, N, V, {}, F)
  <2>1. F \in [(1..N) \X V -> V]
    BY <1>3
  <2> HIDE DEF F
  <2> QED BY <1>1, <1>4, <2>1, LoopIsDefined
<1>7. f = [k \in 0..N |-> IF k = 0 THEN {} ELSE More(k, f[k - 1])]
  <2>1. ASSUME NEW k \in 0..N, k # 0
        PROVE  f[k] = More(k, f[k - 1])
    <3>1. k \in 1..N /\ f[k - 1] \in V
      <4> HIDE DEF F
      <4> QED BY <1>1, <1>6, <2>1 DEF IsLoop
    <3>2. F[<<k, f[k - 1]>>] = More(k, f[k - 1])
      BY <3>1
    <3> HIDE DEF F
    <3> QED BY <1>6, <2>1, <3>2 DEF IsLoop
  <2>2. f[0] = {}
    <3>1. 0 \in 0..N
      BY <1>1
    <3> HIDE DEF F
    <3> QED BY <1>6, <3>1 DEF IsLoop
  <2> HIDE DEF F
  <2> QED BY <1>6, <2>1, <2>2 DEF IsLoop
<1>8. loop = [k \in 0..N |-> IF k = 0 THEN {} ELSE More(k, loop[k - 1])]
  BY <1>7, Zenon
<1> HIDE DEF loop
<1>9. loop[0] \in V /\ \A k \in 1..N : loop[k - 1] \in V => loop[k] \in V
  <2>1. \A k \in 0..N : loop[k] = IF k = 0 THEN {} ELSE More(k, loop[k - 1])
    BY <1>8, Zenon
  <2>2. loop[0] = {} /\ \A k \in 1..N : loop[k] = More(k, loop[k - 1])
    BY <1>1, <2>1
  <2> QED BY <1>3, <1>4, <2>2
<1>10. loop[N] \in V
  <2>1. \A k \in 0..N : loop[k] \in V
    BY <1>1, <1>9, LoopKeeps, Zenon
  <2> QED BY <1>1, <2>1
<1> QED BY <1>2, <1>5, <1>10

(* What is asked of a message, of its parts.                               *)
Stands(state, live) ==
  /\ \A p \in state.places : p.members # {} /\ p.members \subseteq Ids(live)
  /\ \A r \in state.relations :
       /\ r.subject \in Ids(live)
       /\ r.object \in (Ids(live) \cup {p.id : p \in state.places}) \ {r.subject}
  /\ \A a \in state.anchors \ LiveAnchors(live) :
       a.target \in Ids(live) /\ \A b \in state.anchors : Apart(a, b)

LEMMA LiveStateStands ==
  ASSUME NEW live \in LiveLists
  PROVE  /\ Stands(LiveState(live), live) /\ LiveState(live).entities = live
         /\ \A a \in LiveAnchors(live) : a.x \in Int
<1>1. live \in Seq(LiveItem) /\ \A i, j \in DOMAIN live : live[i].id = live[j].id => i = j
  BY DEF LiveLists, DistinctIds
<1>2. \A i \in DOMAIN live : live[i].x \in Int
  <2>1. \A i \in DOMAIN live : live[i] \in LiveItem
    BY <1>1, ElementOfSeq
  <2> QED BY <2>1 DEF LiveItem
<1>3. ASSUME NEW p \in LivePlaces(live)
      PROVE  p.members # {} /\ p.members \subseteq Ids(live)
  <2>1. PICK i \in DOMAIN live : p.members = {live[j].id : j \in Cluster(live, i)}
    BY DEF LivePlaces
  <2>2. Cluster(live, i) \subseteq DOMAIN live /\ i \in Cluster(live, i)
    BY ClusterIsLive
  <2> QED BY <2>1, <2>2 DEF Ids
<1>4. ASSUME NEW r \in LiveRelations(live)
      PROVE  r.subject \in Ids(live) /\ r.object \in Ids(live) \ {r.subject}
  <2>1. PICK i \in DOMAIN live, j \in DOMAIN live :
          i < j /\ r = [subject |-> live[i].id, predicate |-> "near", object |-> live[j].id]
    BY DEF LiveRelations
  <2>2. DOMAIN live \subseteq Int
    BY <1>1
  <2>3. i # j
    BY <2>1, <2>2
  <2> QED BY <1>1, <2>1, <2>3 DEF Ids
<1>5. ASSUME NEW a \in LiveAnchors(live)
      PROVE  a.x \in Int
  <2>1. PICK i \in DOMAIN live : a.x = live[i].x - AnchorDistance
    BY DEF LiveAnchors
  <2> QED BY <1>2, <2>1, EnrichmentConstants
<1>6. Stands(LiveState(live), live) /\ LiveState(live).entities = live
  BY <1>3, <1>4 DEF Stands, LiveState
<1> QED BY <1>5, <1>6

LEMMA AddedStands ==
  ASSUME NEW live \in LiveLists, NEW s \in RefinedStates, NEW matches, Taken(matches, live),
         NEW places, places = AddedPlaces(LivePlaces(live), s.places, matches)
  PROVE  /\ \A p \in places : p.members # {} /\ p.members \subseteq Ids(live)
         /\ \A r \in AddedRelations(s.relations, matches, places) :
              /\ r.subject \in Ids(live)
              /\ r.object \in (Ids(live) \cup {p.id : p \in places}) \ {r.subject}
<1>1. \A id : Live(matches, id) \subseteq Ids(live)
  BY DEF Live, Taken
<1>2. ASSUME NEW p \in places
      PROVE  p.members # {} /\ p.members \subseteq Ids(live)
  <2>1. PICK q \in s.places : p.members = Members(matches, q) /\ Members(matches, q) # {}
    BY DEF AddedPlaces
  <2>2. Members(matches, q) \subseteq Ids(live)
    BY <1>1 DEF Members
  <2> QED BY <2>1, <2>2
<1>3. \A id \in Ids(live) : id[1] # "refined"
  <2> SUFFICES ASSUME NEW i \in DOMAIN live PROVE live[i].id[1] # "refined"
    BY DEF Ids
  <2>1. live[i] \in LiveItem
    <3>1. live \in Seq(LiveItem)
      BY DEF LiveLists
    <3> QED BY <3>1, ElementOfSeq
  <2>2. live[i].id[1] \in NameSet
    <3>1. live[i].id \in NameSet \X Nat
      BY <2>1 DEF LiveItem
    <3> QED BY <3>1
  <2> QED BY <2>2, RefinedStatesAreSound DEF NameSet, Labels
<1>4. ASSUME NEW r \in AddedRelations(s.relations, matches, places)
      PROVE  /\ r.subject \in Ids(live)
             /\ r.object \in (Ids(live) \cup {p.id : p \in places}) \ {r.subject}
  <2>1. PICK q \in s.relations :
          /\ r.subject \in Live(matches, q.subject)
          /\ r.object \in IF Live(matches, q.object) # {} THEN Live(matches, q.object)
                          ELSE {p.id : p \in {t \in places : t.id = <<"refined", q.object>>}}
    <3>1. PICK q \in s.relations :
            r \in [subject : Live(matches, q.subject), predicate : {q.predicate},
                   object : IF Live(matches, q.object) # {} THEN Live(matches, q.object)
                            ELSE {p.id : p \in {t \in places : t.id = <<"refined", q.object>>}}]
      BY DEF AddedRelations
    <3> DEFINE objects == IF Live(matches, q.object) # {} THEN Live(matches, q.object)
                          ELSE {p.id : p \in {t \in places : t.id = <<"refined", q.object>>}}
    <3>2. r.subject \in Live(matches, q.subject) /\ r.object \in objects
      <4>1. r \in [subject : Live(matches, q.subject), predicate : {q.predicate},
                   object : objects]
        BY <3>1
      <4> HIDE DEF objects
      <4> QED BY <4>1
    <3> QED BY <3>2
  <2>2. r.subject \in Ids(live)
    BY <1>1, <2>1
  <2>3. CASE Live(matches, q.object) # {}
    <3>1. r.object \in Live(matches, q.object) /\ q.subject # q.object
      BY <2>1, <2>3, RefinedStatesAreSound
    <3>2. r.object # r.subject
      <4>1. PICK m \in matches : m[1] = q.subject /\ m[2] = r.subject
        BY <2>1 DEF Live
      <4>2. PICK n \in matches : n[1] = q.object /\ n[2] = r.object
        BY <3>1 DEF Live
      <4> QED BY <3>1, <4>1, <4>2 DEF Taken
    <3> QED BY <1>1, <2>2, <3>1, <3>2
  <2>4. CASE Live(matches, q.object) = {}
    <3>1. PICK p \in places : r.object = p.id /\ p.id = <<"refined", q.object>>
      BY <2>1, <2>4
    <3>2. r.subject # r.object
      BY <1>3, <2>2, <3>1
    <3> QED BY <2>2, <3>1, <3>2
  <2> QED BY <2>3, <2>4
<1> QED BY <1>2, <1>4


LEMMA EnrichedStands ==
  ASSUME NEW live \in LiveLists, NEW s \in RefinedStates
  PROVE  /\ Stands(Enriched(LiveState(live), s), live)
         /\ Enriched(LiveState(live), s).entities = live
<1> DEFINE state == LiveState(live)
           matches == Matches(live, s.entities)
           P == AddedPlaces(LivePlaces(live), s.places, matches)
           R == AddedRelations(s.relations, matches, P)
           A == AddedAnchors(LiveAnchors(live), s.anchors, matches)
           more == [entities |-> live, places |-> LivePlaces(live) \cup P,
                    relations |-> LiveRelations(live) \cup R,
                    anchors |-> LiveAnchors(live) \cup A, refined |-> TRUE]
<1>1. IsRefinedState(s)
  BY LiveSemanticMapConstants
<1>2. Taken(matches, live)
  <2> DEFINE those == s.entities
             RefinedEntity == [id : STRING, name : STRING, x : Int, conf : Int]
  <2>1. those \in Seq(RefinedEntity)
    BY <1>1 DEF IsRefinedState
  <2> HIDE DEF those, RefinedEntity
  <2>2. DOMAIN those = 1..Len(those) /\ Len(those) \in Nat
    BY <2>1
  <2>3. IsFiniteSet(DOMAIN those)
    BY <2>2, FS_Interval
  <2>4. Taken(Matches(live, those), live)
    BY <2>3, MatchesAreTaken
  <2> QED BY <2>4 DEF those
<1>3. /\ Stands(state, live) /\ state.entities = live
      /\ \A a \in LiveAnchors(live) : a.x \in Int
  BY LiveStateStands
<1> HIDE DEF matches
<1>4. /\ \A p \in P : p.members # {} /\ p.members \subseteq Ids(live)
      /\ \A r \in R : /\ r.subject \in Ids(live)
                      /\ r.object \in (Ids(live) \cup {p.id : p \in P}) \ {r.subject}
  BY <1>2, AddedStands
<1>5. \A a \in A : a.target \in Ids(live) /\ \A b \in LiveAnchors(live) \cup A : Apart(a, b)
  <2> DEFINE those == s.anchors
             RefinedAnchor == [target : STRING, x : Int, conf : Int]
  <2>1. those \in Seq(RefinedAnchor)
    BY <1>1 DEF IsRefinedState
  <2>2. \A r \in RefinedAnchor : r.x \in Int
    OBVIOUS
  <2> HIDE DEF those, RefinedAnchor
  <2>3. DOMAIN those = 1..Len(those) /\ Len(those) \in Nat
    BY <2>1
  <2>4. \A k \in 1..Len(those) : those[k].x \in Int
    <3>1. \A k \in DOMAIN those : those[k] \in RefinedAnchor
      BY <2>1, ElementOfSeq
    <3> QED BY <2>2, <2>3, <3>1
  <2> QED BY <1>2, <1>3, <2>3, <2>4, AddedAnchorsLieApart DEF those
<1>6. state = [entities |-> live, places |-> LivePlaces(live), relations |-> LiveRelations(live),
               anchors |-> LiveAnchors(live), refined |-> FALSE]
  BY DEF LiveState
<1> HIDE DEF P, R, A, state
<1>7. /\ \A p \in LivePlaces(live) : p.members # {} /\ p.members \subseteq Ids(live)
      /\ \A r \in LiveRelations(live) :
           /\ r.subject \in Ids(live)
           /\ r.object \in (Ids(live) \cup {p.id : p \in LivePlaces(live)}) \ {r.subject}
  <2>1. state.places = LivePlaces(live) /\ state.relations = LiveRelations(live)
    BY <1>6
  <2> QED BY <1>3, <2>1 DEF Stands
<1>8. Stands(more, live) /\ more.entities = live
  <2>1. /\ more.places = LivePlaces(live) \cup P /\ more.relations = LiveRelations(live) \cup R
        /\ more.anchors = LiveAnchors(live) \cup A /\ more.entities = live
    OBVIOUS
  <2> HIDE DEF more
  <2>2. \A p \in more.places : p.members # {} /\ p.members \subseteq Ids(live)
    BY <1>4, <1>7, <2>1
  <2>3. \A r \in more.relations :
          /\ r.subject \in Ids(live)
          /\ r.object \in (Ids(live) \cup {p.id : p \in more.places}) \ {r.subject}
    BY <1>4, <1>7, <2>1
  <2>4. \A a \in more.anchors \ LiveAnchors(live) :
          a.target \in Ids(live) /\ \A b \in more.anchors : Apart(a, b)
    BY <1>5, <2>1
  <2> QED BY <2>1, <2>2, <2>3, <2>4 DEF Stands
<1>9. Enriched(state, s) = IF matches = {} THEN state ELSE more
  <2>1. Enriched(state, s) =
          IF matches = {} THEN state
          ELSE [state EXCEPT !.places = @ \cup P,
                             !.relations = @ \cup R,
                             !.anchors = @ \cup A,
                             !.refined = TRUE]
    BY <1>6 DEF Enriched, matches, P, R, A
  <2> DEFINE places == LivePlaces(live) \cup P
             relations == LiveRelations(live) \cup R
             anchors == LiveAnchors(live) \cup A
  <2>2. [state EXCEPT !.places = @ \cup P, !.relations = @ \cup R,
                      !.anchors = @ \cup A, !.refined = TRUE]
          = [state EXCEPT !.places = places, !.relations = relations,
                          !.anchors = anchors, !.refined = TRUE]
    <3>1. /\ state.places = LivePlaces(live) /\ state.relations = LiveRelations(live)
          /\ state.anchors = LiveAnchors(live)
      BY <1>6
    <3> QED BY <3>1
  <2>3. more = [entities |-> live, places |-> places, relations |-> relations,
                anchors |-> anchors, refined |-> TRUE]
    OBVIOUS
  <2> HIDE DEF places, relations, anchors, more
  <2>4. [state EXCEPT !.places = places, !.relations = relations,
                      !.anchors = anchors, !.refined = TRUE] = more
    <3> DEFINE no == FALSE
               yes == TRUE
    <3>0. /\ state = [entities |-> live, places |-> LivePlaces(live),
                      relations |-> LiveRelations(live), anchors |-> LiveAnchors(live),
                      refined |-> no]
          /\ more = [entities |-> live, places |-> places, relations |-> relations,
                     anchors |-> anchors, refined |-> yes]
      BY <1>6, <2>3
    <3> HIDE DEF no, yes
    <3> DEFINE s1 == [state EXCEPT !.places = places]
               s2 == [s1 EXCEPT !.relations = relations]
               s3 == [s2 EXCEPT !.anchors = anchors]
               s4 == [s3 EXCEPT !.refined = yes]
    <3>1. s1 = [entities |-> live, places |-> places, relations |-> LiveRelations(live),
                anchors |-> LiveAnchors(live), refined |-> no]
      BY <3>0
    <3> HIDE DEF s1
    <3>2. s2 = [entities |-> live, places |-> places, relations |-> relations,
                anchors |-> LiveAnchors(live), refined |-> no]
      BY <3>1
    <3> HIDE DEF s2
    <3>3. s3 = [entities |-> live, places |-> places, relations |-> relations,
                anchors |-> anchors, refined |-> no]
      BY <3>2
    <3> HIDE DEF s3
    <3>4. s4 = more
      BY <3>0, <3>3
    <3> HIDE DEF s4
    <3> QED BY <3>4 DEF s1, s2, s3, s4, yes
  <2> QED BY <2>1, <2>2, <2>4
<1> HIDE DEF more
<1> QED BY <1>3, <1>8, <1>9 DEF state

LEMMA RefinementStands ==
  ASSUME TypeInv
  PROVE  RefinementStandsOnLive
<1> DEFINE live == LiveEntities
           state == MapState
<1>1. live \in LiveLists
  BY LiveEntitiesAreDistinct DEF TypeInv
<1>2. state = IF refined = NoRefined THEN LiveState(live) ELSE Enriched(LiveState(live), refined)
  BY DEF MapState
<1>3. refined = NoRefined \/ refined \in RefinedStates
  BY DEF TypeInv
<1> HIDE DEF live, state
<1>4. Stands(LiveState(live), live) /\ LiveState(live).entities = live
  BY <1>1, LiveStateStands
<1>5. Stands(state, live) /\ state.entities = live
  BY <1>1, <1>2, <1>3, <1>4, EnrichedStands
<1>6. RefinementStandsOnLive
  BY <1>5 DEF RefinementStandsOnLive, Stands, Apart, live, state
<1> QED BY <1>6

(* Whatever refined state was received, all that it adds to the message is *)
(* about live entities.                                                    *)
THEOREM RefinementAlwaysStandsOnLive == Spec => []RefinementStandsOnLive
<1>1. Init => TypeInv
  BY TypeInvStarts
<1>2. TypeInv /\ [Next]_vars => TypeInv'
  BY TypeInvStep
<1>3. TypeInv => RefinementStandsOnLive
  BY RefinementStands
<1> QED BY <1>1, <1>2, <1>3, PTL DEF Spec

(* The message names every entity once, refined or not: what SemanticQuery *)
(* assumes of the maps it answers from (IdsAreUnique).                     *)
PublishedIdsAreUnique ==
  \A i, j \in DOMAIN MapState.entities :
    MapState.entities[i].id = MapState.entities[j].id => i = j

(* The map message always has one entity per id, whatever was detected and *)
(* whatever refined state was received.                                    *)
THEOREM PublishedIdsAreAlwaysUnique == Spec => []PublishedIdsAreUnique
<1>1. Init => TypeInv
  BY TypeInvStarts
<1>2. TypeInv /\ [Next]_vars => TypeInv'
  BY TypeInvStep
<1>3. TypeInv => PublishedIdsAreUnique
  <2> SUFFICES ASSUME TypeInv PROVE PublishedIdsAreUnique
    OBVIOUS
  <2>1. LiveEntities \in LiveLists
    BY LiveEntitiesAreDistinct DEF TypeInv
  <2>2. MapState.entities = LiveEntities
    <3>1. refined = NoRefined \/ refined \in RefinedStates
      BY DEF TypeInv
    <3> DEFINE live == LiveEntities
    <3> HIDE DEF live
    <3>2. LiveState(live).entities = live
      BY <2>1, LiveStateStands DEF live
    <3>3. refined \in RefinedStates => Enriched(LiveState(live), refined).entities = live
      BY <2>1, EnrichedStands DEF live
    <3>4. MapState = IF refined = NoRefined THEN LiveState(live)
                     ELSE Enriched(LiveState(live), refined)
      BY DEF MapState, live
    <3> QED BY <3>1, <3>2, <3>3, <3>4 DEF live
  <2> QED BY <2>1, <2>2 DEF LiveLists, DistinctIds, PublishedIdsAreUnique
<1> QED BY <1>1, <1>2, <1>3, PTL DEF Spec

-----------------------------------------------------------------------------
(* What became of a registry: counters do not fall, and an id that was not *)
(* in it is one that its counters had not given.                           *)
Grown(old, new) ==
  /\ \A n \in NameSet : old.nextId[n] <= new.nextId[n]
  /\ \A i \in DOMAIN new.entities :
       LET id == new.entities[i].id
       IN \/ \E j \in DOMAIN old.entities : old.entities[j].id = id
          \/ id[2] >= old.nextId[id[1]]

(* Nothing but the ids matters, and those that are left were there.        *)
LEMMA GrownOfSameIds ==
  ASSUME NEW old, NEW mem, NEW new, Grown(old, mem), new.nextId = mem.nextId,
         \A i \in DOMAIN new.entities :
           \E j \in DOMAIN mem.entities : new.entities[i].id = mem.entities[j].id
  PROVE  Grown(old, new)
<1>1. \A n \in NameSet : old.nextId[n] <= new.nextId[n]
  BY DEF Grown
<1>2. ASSUME NEW i \in DOMAIN new.entities
      PROVE  \/ \E j \in DOMAIN old.entities : old.entities[j].id = new.entities[i].id
             \/ new.entities[i].id[2] >= old.nextId[new.entities[i].id[1]]
  <2>1. PICK j \in DOMAIN mem.entities : new.entities[i].id = mem.entities[j].id
    OBVIOUS
  <2> QED BY <2>1 DEF Grown
<1> QED BY <1>1, <1>2 DEF Grown

LEMMA RememberGrows ==
  ASSUME NEW old \in Registries, NEW known \in Registries, Grown(old, known),
         NEW box, box.label \in Labels, NEW age
  PROVE  Grown(old, Remember(known, box, age))
<1> DEFINE at == Grounded(box)
           obs == [label |-> box.label, x |-> CHOOSE x \in at : TRUE, age |-> age]
           match == FindMatch(known.entities, obs)
           i0 == CHOOSE i \in match : TRUE
           name == Names[obs.label]
<1>1. /\ known.nextId \in [NameSet -> Nat] /\ old.nextId \in [NameSet -> Nat]
      /\ known.entities \in Seq(Entity)
      /\ known \in [entities : Seq(Entity), nextId : [NameSet -> Nat]]
  BY DEF Registries
<1>2. name \in NameSet
  BY DEF NameSet
<1>3. Remember(known, box, age) = IF at = {} THEN known
        ELSE IF match = {} THEN CreateNew(known, obs) ELSE UpdateExisting(known, i0, obs)
  BY DEF Remember, Update
<1>4. match \subseteq DOMAIN known.entities
  BY DEF FindMatch, FirstNearest
<1> HIDE DEF at, match, obs
<1>5. CASE at # {} /\ match = {}
  <2> DEFINE new == CreateNew(known, obs)
             e == [id |-> <<name, known.nextId[name]>>, label |-> obs.label,
                   x |-> obs.x, age |-> obs.age, active |-> TRUE]
             es == Append(known.entities, e)
             nextId == [known.nextId EXCEPT ![name] = @ + 1]
  <2>1. new.entities = es /\ new.nextId = nextId
    BY DEF CreateNew
  <2> HIDE DEF new, name
  <2>2. \A n \in NameSet : old.nextId[n] <= nextId[n]
    <3>1. \A n \in NameSet : /\ known.nextId[n] \in Nat /\ old.nextId[n] \in Nat
                             /\ old.nextId[n] <= known.nextId[n]
      BY <1>1 DEF Grown
    <3>2. \A n \in NameSet : nextId[n] = IF n = name THEN known.nextId[n] + 1 ELSE known.nextId[n]
      BY <1>1, <1>2
    <3> HIDE DEF nextId
    <3> QED BY <3>1, <3>2
  <2>3. /\ e.id = <<name, known.nextId[name]>>
        /\ e.id[1] = name /\ e.id[2] = known.nextId[name]
    OBVIOUS
  <2> HIDE DEF e
  <2>4. \A i \in DOMAIN es : es[i] = e \/ (i \in DOMAIN known.entities /\ es[i] = known.entities[i])
    <3> DEFINE ks == known.entities
    <3>1. DOMAIN ks = 1..Len(ks) /\ Len(ks) \in Nat
      BY <1>1
    <3>2. DOMAIN Append(ks, e) = 1..(Len(ks) + 1)
      BY <1>1
    <3>3. \A i \in 1..Len(ks) : Append(ks, e)[i] = ks[i]
      BY <1>1
    <3>4. Append(ks, e)[Len(ks) + 1] = e
      BY <1>1
    <3> HIDE DEF ks
    <3>5. \A i \in DOMAIN Append(ks, e) :
            Append(ks, e)[i] = e \/ (i \in DOMAIN ks /\ Append(ks, e)[i] = ks[i])
      BY <3>1, <3>2, <3>3, <3>4
    <3> QED BY <3>5 DEF ks
  <2> HIDE DEF es
  <2>5. e.id[2] >= old.nextId[e.id[1]]
    BY <1>1, <1>2, <2>3 DEF Grown
  <2>6. ASSUME NEW i \in DOMAIN es
        PROVE  \/ \E j \in DOMAIN old.entities : old.entities[j].id = es[i].id
               \/ es[i].id[2] >= old.nextId[es[i].id[1]]
    <3>1. CASE es[i] = e
      BY <2>5, <3>1
    <3>2. CASE i \in DOMAIN known.entities /\ es[i] = known.entities[i]
      BY <3>2 DEF Grown
    <3> QED BY <2>4, <3>1, <3>2
  <2>7. Grown(old, new)
    BY <2>1, <2>2, <2>6 DEF Grown
  <2> QED BY <1>3, <1>5, <2>7 DEF new
<1>6. CASE at # {} /\ match # {}
  <2> DEFINE new == UpdateExisting(known, i0, obs)
  <2>1. i0 \in DOMAIN known.entities
    BY <1>4, <1>6
  <2> DEFINE k == known.entities[i0]
             e == [k EXCEPT !.x = Smoothed(k.x, obs.x), !.age = obs.age, !.active = TRUE]
             es == [known.entities EXCEPT ![i0] = e]
  <2>2. new.entities = es /\ new.nextId = known.nextId
    <3>1. new = [known EXCEPT !.entities = es]
      BY DEF UpdateExisting
    <3> HIDE DEF new, es
    <3> QED BY <1>1, <3>1
  <2>3. e.id = k.id
    <3>1. k \in Entity
      BY <1>1, <2>1, ElementOfSeq
    <3> HIDE DEF k
    <3> QED BY <3>1 DEF Entity
  <2> HIDE DEF new, e
  <2>4. \A i \in DOMAIN es : i \in DOMAIN known.entities /\ es[i].id = known.entities[i].id
    <3> HIDE DEF i0
    <3>1. \A i \in DOMAIN known.entities : es[i] = IF i = i0 THEN e ELSE known.entities[i]
      OBVIOUS
    <3>2. DOMAIN es = DOMAIN known.entities
      OBVIOUS
    <3> HIDE DEF es
    <3> QED BY <2>3, <3>1, <3>2
  <2> HIDE DEF es
  <2>5. Grown(old, new)
    BY <2>2, <2>4, GrownOfSameIds
  <2> QED BY <1>3, <1>6, <2>5 DEF new
<1> QED BY <1>3, <1>5, <1>6

LEMMA GrownStarts ==
  ASSUME NEW mem \in Registries
  PROVE  Grown(mem, mem)
<1>1. \A n \in NameSet : mem.nextId[n] \in Nat
  BY DEF Registries
<1> QED BY <1>1 DEF Grown

LEMMA AgedGrows ==
  ASSUME NEW mem \in Registries, NEW time
  PROVE  Grown(mem, [mem EXCEPT !.entities = Aged(@, time)])
<1> DEFINE new == [mem EXCEPT !.entities = Aged(@, time)]
           es == Aged(mem.entities, time)
<1>1. /\ mem \in [entities : Seq(Entity), nextId : [NameSet -> Nat]]
      /\ \A i \in DOMAIN mem.entities : mem.entities[i] \in Entity
  BY ElementOfSeq DEF Registries
<1>2. new.entities = es /\ new.nextId = mem.nextId
  <2>1. new = [mem EXCEPT !.entities = es]
    OBVIOUS
  <2> HIDE DEF new, es
  <2> QED BY <1>1, <2>1
<1>3. \A i \in DOMAIN es : i \in DOMAIN mem.entities /\ es[i].id = mem.entities[i].id
  <2> SUFFICES ASSUME NEW i \in DOMAIN mem.entities
               PROVE  es[i].id = mem.entities[i].id
    BY DEF Aged
  <2> DEFINE e == mem.entities[i]
             age == Capped(e.age + time, RemoveTimeout + 1)
  <2>1. es[i] = [e EXCEPT !.age = age]
    BY DEF Aged
  <2> HIDE DEF es, age
  <2> QED BY <1>1, <2>1 DEF Entity
<1> HIDE DEF new, es
<1>4. Grown(mem, new)
  BY <1>2, <1>3, GrownStarts, GrownOfSameIds
<1> QED BY <1>4 DEF new

LEMMA AgeGrows ==
  ASSUME NEW old, NEW mem \in Registries, Grown(old, mem)
  PROVE  Grown(old, [mem EXCEPT !.entities = Age(@)])
<1> DEFINE new == [mem EXCEPT !.entities = Age(@)]
           known == mem.entities
           young == {i \in DOMAIN known : known[i].age <= RemoveTimeout}
           kept == At(known, young)
           es == Age(known)
<1>1. /\ mem \in [entities : Seq(Entity), nextId : [NameSet -> Nat]]
      /\ known \in Seq(Entity)
      /\ \A i, j \in DOMAIN known : known[i].id = known[j].id => i = j
  BY DEF Registries, DistinctIds
<1>2. new.entities = es /\ new.nextId = mem.nextId
  <2>1. new = [mem EXCEPT !.entities = es]
    OBVIOUS
  <2> HIDE DEF new, es
  <2> QED BY <1>1, <2>1
<1>3. es = [i \in DOMAIN kept |-> [kept[i] EXCEPT !.active = kept[i].age <= StaleTimeout]]
  BY DEF Age
<1> HIDE DEF young, known, es, new
<1>4. /\ kept \in Seq(Entity)
      /\ \A i \in DOMAIN kept : \E j \in DOMAIN known \cap young : kept[i] = known[j]
  BY <1>1, AtKeeps, Zenon
<1> HIDE DEF kept
<1>5. ASSUME NEW i \in DOMAIN es
      PROVE  \E j \in DOMAIN known : es[i].id = known[j].id
  <2>1. i \in DOMAIN kept /\ kept[i] \in Entity
    BY <1>3, <1>4, ElementOfSeq
  <2> DEFINE active == kept[i].age <= StaleTimeout
  <2>2. es[i] = [kept[i] EXCEPT !.active = active]
    BY <1>3, <2>1
  <2> HIDE DEF active
  <2>3. es[i].id = kept[i].id
    BY <2>1, <2>2 DEF Entity
  <2> QED BY <1>4, <2>1, <2>3
<1>6. Grown(old, new)
  BY <1>2, <1>5, GrownOfSameIds DEF known
<1> QED BY <1>6 DEF new

LEMMA StepGrows == TypeInv /\ [Next]_vars => Grown(memory, memory')
<1> SUFFICES ASSUME TypeInv, [Next]_vars PROVE Grown(memory, memory')
  OBVIOUS
<1>1. memory \in Registries
  BY DEF TypeInv
<1>2. CASE UNCHANGED memory
  BY <1>1, <1>2, GrownStarts
<1>3. ASSUME NEW lag \in 0..MaxLag, ImageDropped(lag)
      PROVE  Grown(memory, memory')
  BY <1>1, <1>3, AgedGrows DEF ImageDropped
<1>4. ASSUME NEW boxes \in Boxes, NEW lag \in 0..MaxLag, ImageProcessed(boxes, lag)
      PROVE  Grown(memory, memory')
  <2> DEFINE aged == [memory EXCEPT !.entities = Aged(@, lag)]
             age == Capped(lag, RemoveTimeout + 1)
             Good == {g \in Registries : Grown(memory, g)}
             Box == [label : Labels, u : Pixels]
  <2>1. aged \in Good /\ age \in Ages
    BY <1>1, AgedMemory, AgedGrows, CappedLag
  <2>2. boxes \in Seq(Box) /\ \A i \in DOMAIN boxes : boxes[i].label \in Labels
    <3>1. PICK n \in 0..MaxDetections : boxes \in [1..n -> Box]
      BY DEF Boxes
    <3>2. n \in Nat
      BY Bounds
    <3>3. \A box \in Box : box.label \in Labels
      OBVIOUS
    <3> HIDE DEF Box
    <3> QED BY <3>1, <3>2, <3>3
  <2>3. robot \in Poses
    BY <1>4 DEF TypeInv, ImageProcessed
  <2> HIDE DEF aged, age, Box
  <2>4. \A g \in Good, i \in DOMAIN boxes : Remember(g, boxes[i], age) \in Good
    BY <1>1, <2>1, <2>2, <2>3, RememberKeeps, RememberGrows
  <2> HIDE DEF Good
  <2>5. FoldLeft(LAMBDA known, box : Remember(known, box, age), aged, boxes) \in Good
    BY <2>1, <2>2, <2>4, RememberedAll DEF FoldLeft, MapThenFoldSet
  <2>6. memory' \in Good
    BY <1>4, <2>5 DEF ImageProcessed, aged, age
  <2> QED BY <2>6 DEF Good
<1>5. CASE PublishOutputs
  <2> DEFINE aged == [memory EXCEPT !.entities = Aged(@, 1)]
  <2>1. aged \in Registries /\ Grown(memory, aged)
    BY <1>1, AgedMemory, AgedGrows
  <2>2. memory' = [aged EXCEPT !.entities = Age(@)]
    <3>1. memory \in [entities : Seq(Entity), nextId : [NameSet -> Nat]]
      BY <1>1 DEF Registries
    <3> DEFINE older == Aged(memory.entities, 1)
    <3>2. memory' = [memory EXCEPT !.entities = Age(older)] /\ aged = [memory EXCEPT !.entities = older]
      BY <1>5 DEF PublishOutputs
    <3> HIDE DEF older, aged
    <3> QED BY <3>1, <3>2
  <2> HIDE DEF aged
  <2> QED BY <2>1, <2>2, AgeGrows
<1>6. ASSUME NEW jump \in 1..MaxJump, ClockSetBack(jump)
      PROVE  Grown(memory, memory')
  BY <1>1, <1>6, AgedGrows DEF ClockSetBack
<1>7. CASE TransformReceived \/ ScanReceived \/ MapReceived \/ RefinedReceived \/ UNCHANGED vars
  <2>1. UNCHANGED memory
    BY <1>7 DEF TransformReceived, ScanReceived, MapReceived, RefinedReceived, vars
  <2> QED BY <1>2, <2>1
<1> QED BY <1>3, <1>4, <1>5, <1>6, <1>7 DEF Next

(* No id is given twice in the life of the node: an entity that is new to  *)
(* the registry has an id that the counter of its name had not passed, and *)
(* counters do not fall.  With RegistryIsSound (every id that was given    *)
(* lies below its counter) the id of a removed entity never names another. *)
IdsAreNeverReused == [][Grown(memory, memory')]_vars

(* Removal, ageing, images of many boxes and a clock that is set back never *)
(* bring back an id that was given.                                         *)
THEOREM IdsAreNeverGivenTwice == Spec => IdsAreNeverReused
<1>1. TypeInv /\ [Next]_vars => [Grown(memory, memory')]_vars
  BY StepGrows
<1> QED BY <1>1, TypeInvStarts, TypeInvStep, PTL DEF Spec, IdsAreNeverReused

-----------------------------------------------------------------------------
(* SemanticQuery: the goals that are made of answers.                       *)

Frames == {MapFrame, BaseFrame}

LEMMA NatMinimum ==
  ASSUME NEW T, T \subseteq Nat, T # {}
  PROVE  Min(T) \in T
<1>1. PICK m \in T : \A n \in T : m <= n
  BY LeastOf
<1> QED BY <1>1 DEF Min

LEMMA MinOfOne == \A n \in Int : Min({n}) = n
  BY DEF Min

(* The pose lies between the robot and its target: compute_approach_pose   *)
(* gives none that is nearer to the robot than the standoff, or farther    *)
(* from the target than the approach distance.                             *)
LEMMA ApproachLiesBetween ==
  ASSUME NEW from \in Int, NEW to \in Int, NEW x \in ComputeApproachPose(from, to)
  PROVE  /\ x \in Int /\ ComputeApproachPose(from, to) = {x}
         /\ Gap(from, x) + Gap(x, to) = Gap(from, to)
         /\ Gap(x, to) <= Approach
         /\ Gap(from, x) >= MinStandoff
<1> DEFINE dist == Gap(from, to)
           offset == IF Approach < dist - MinStandoff THEN Approach ELSE dist - MinStandoff
<1>1. Approach \in Nat /\ MinStandoff \in Nat
  BY SemanticQueryConstants
<1>2. dist \in Nat /\ dist >= MinStandoff
  <2>1. dist \in Nat
    BY DEF Gap
  <2>2. ~(dist < MinStandoff)
    BY DEF ComputeApproachPose
  <2> QED BY <1>1, <2>1, <2>2
<1>3. offset \in Nat /\ offset <= Approach /\ offset <= dist - MinStandoff
  BY <1>1, <1>2
<1>4. x = (IF to >= from THEN to - offset ELSE to + offset) /\ ComputeApproachPose(from, to) = {x}
  BY DEF ComputeApproachPose
<1> HIDE DEF offset
<1> QED BY <1>1, <1>2, <1>3, <1>4 DEF Gap

-----------------------------------------------------------------------------
(* The map that is queried.                                                *)

MapInv ==
  /\ mode \in [semanticMap : BOOLEAN, preferAnchor : BOOLEAN]
  /\ snapshot.frame \in Frames
  /\ snapshot.objects \in Seq(Objects)
  /\ snapshot.relations \in Seq(RelationRecords)
  /\ snapshot.anchors \in Seq(AnchorRecords)
  /\ \A i, j \in DOMAIN snapshot.objects :
       snapshot.objects[i].id = snapshot.objects[j].id => i = j
  /\ robotAt \in Int

LEMMA NamedIsObject ==
  ASSUME NEW o \in Objects
  PROVE  Named(o) \in Objects /\ Named(o).id = o.id
<1> DEFINE names == {n \in DOMAIN Targets : Targets[n] = o.label}
<1>1. names \subseteq STRING
  BY SemanticQueryConstants
<1>2. names # {} => (CHOOSE n \in names : TRUE) \in names
  OBVIOUS
<1>3. (IF names = {} THEN Unnamed ELSE CHOOSE n \in names : TRUE) \in STRING \cup {Unnamed}
  <2>1. CASE names = {}
    BY <2>1
  <2>2. CASE names # {}
    <3>1. (CHOOSE n \in names : TRUE) \in STRING
      BY <1>1, <1>2, <2>2
    <3> QED BY <2>2, <3>1
  <2> QED BY <2>1, <2>2
<1> QED BY <1>3 DEF Named, Objects

LEMMA MapInvStarts == QueryInit => MapInv
  BY SemanticQueryConstants DEF QueryInit, MapInv, Frames

LEMMA MapInvStep == MapInv /\ [QueryNext]_queryVars => MapInv'
<1> SUFFICES ASSUME MapInv, [QueryNext]_queryVars PROVE MapInv'
  OBVIOUS
<1>1. CASE SnapshotReceived
  <2>1. UNCHANGED <<robotAt, mode>>
    BY <1>1 DEF SnapshotReceived
  <2>2. PICK message \in Messages :
          snapshot' = IF mode.semanticMap THEN message
                      ELSE [frame     |-> message.frame, relations |-> <<>>, anchors |-> <<>>,
                            objects   |-> [i \in DOMAIN message.objects |->
                                             Named(message.objects[i])]]
    BY <1>1 DEF SnapshotReceived
  <2>3. /\ message.frame \in Frames /\ message.objects \in Seq(Objects)
        /\ message.relations \in Seq(RelationRecords)
        /\ message.anchors \in Seq(AnchorRecords)
        /\ \A i, j \in DOMAIN message.objects :
             message.objects[i].id = message.objects[j].id => i = j
    BY SemanticQueryConstants, IdsAreUnique DEF Frames
  <2>4. CASE mode.semanticMap
    BY <2>1, <2>2, <2>3, <2>4 DEF MapInv
  <2>5. CASE ~mode.semanticMap
    <3> DEFINE objects == [i \in DOMAIN message.objects |-> Named(message.objects[i])]
    <3>1. \A i \in DOMAIN message.objects :
            Named(message.objects[i]) \in Objects
            /\ Named(message.objects[i]).id = message.objects[i].id
      <4>1. \A i \in DOMAIN message.objects : message.objects[i] \in Objects
        BY <2>3
      <4> QED BY <4>1, NamedIsObject
    <3>2. objects \in Seq(Objects) /\ DOMAIN objects = DOMAIN message.objects
      BY <2>3, <3>1
    <3>3. \A i \in DOMAIN objects : objects[i].id = message.objects[i].id
      BY <3>1
    <3>4. /\ snapshot'.objects = objects /\ snapshot'.frame = message.frame
          /\ snapshot'.relations = <<>> /\ snapshot'.anchors = <<>>
      BY <2>2, <2>5
    <3> HIDE DEF objects
    <3>5. \A i, j \in DOMAIN objects : objects[i].id = objects[j].id => i = j
      BY <2>3, <3>2, <3>3
    <3> QED BY <2>1, <2>3, <3>2, <3>4, <3>5 DEF MapInv
  <2> QED BY <2>4, <2>5
<1>2. CASE RobotMoves
  BY <1>2, SemanticQueryConstants DEF RobotMoves, MapInv
<1>3. CASE \/ \E sentence \in Sentences : Command(sentence)
           \/ QueryResult \/ TransformChanges \/ UNCHANGED queryVars
  BY <1>3 DEF Command, QueryResult, TransformChanges, queryVars, MapInv
<1> QED BY <1>1, <1>2, <1>3 DEF QueryNext

-----------------------------------------------------------------------------
(* What waits for the adapter has a place, in one of the two frames.       *)
GoodResult(r) == r.success => r.x \in Int /\ r.frame \in Frames

Inv ==
  /\ MapInv
  /\ \E S : results \in Seq(S) /\ \A r \in S : GoodResult(r)

LEMMA SelectedExist ==
  ASSUME NEW command
  PROVE  Select(command) \subseteq DOMAIN snapshot.objects
  BY DEF Select, SelectTarget, SelectRelationalTarget, Candidates

LEMMA AnswerIsGood ==
  ASSUME Inv, NEW sentence
  PROVE  GoodResult(Answer(sentence))
<1> DEFINE selected == Select(ParseCommand(sentence))
<1>1. CASE selected = {}
  BY <1>1 DEF Answer, Failure, GoodResult
<1>2. CASE selected # {}
  <2>1. DOMAIN snapshot.objects \subseteq Nat
        /\ \A i \in DOMAIN snapshot.objects : snapshot.objects[i].x \in Int
    <3>1. snapshot.objects \in Seq(Objects)
      BY DEF Inv, MapInv
    <3>2. \A i \in DOMAIN snapshot.objects : snapshot.objects[i] \in Objects
      BY <3>1
    <3> QED BY <3>1, <3>2 DEF Objects
  <2>2. selected \subseteq DOMAIN snapshot.objects
    BY SelectedExist
  <2>3. Min(selected) \in selected
    BY <1>2, <2>1, <2>2, NatMinimum
  <2> HIDE DEF selected
  <2> QED BY <1>2, <2>1, <2>2, <2>3 DEF Answer, GoodResult, Inv, MapInv, selected
<1> QED BY <1>1, <1>2

LEMMA InvStarts == QueryInit => Inv
<1> SUFFICES ASSUME QueryInit PROVE Inv
  OBVIOUS
<1>1. results \in Seq({}) /\ \A r \in {} : GoodResult(r)
  BY DEF QueryInit
<1> QED BY <1>1, MapInvStarts DEF Inv

LEMMA InvStep == Inv /\ [QueryNext]_queryVars => Inv'
<1> SUFFICES ASSUME Inv, [QueryNext]_queryVars PROVE Inv'
  OBVIOUS
<1>1. MapInv'
  BY MapInvStep DEF Inv
<1>2. PICK S : results \in Seq(S) /\ \A r \in S : GoodResult(r)
  BY DEF Inv
<1>3. ASSUME NEW sentence \in Sentences, Command(sentence)
      PROVE  Inv'
  <2> DEFINE T == S \cup {Answer(sentence)}
             all == Append(results, Answer(sentence))
  <2>1. all \in Seq(T) /\ all # <<>>
    BY <1>2
  <2>2. \A r \in T : GoodResult(r)
    BY <1>2, AnswerIsGood
  <2>3. results' = all \/ results' = Tail(all)
    BY <1>3 DEF Command
  <2>4. results' \in Seq(T)
    <3> HIDE DEF all, T
    <3> QED BY <2>1, <2>3
  <2> HIDE DEF T
  <2>5. \E V : results' \in Seq(V) /\ \A r \in V : GoodResult(r)
    BY <2>2, <2>4
  <2> QED BY <1>1, <2>5 DEF Inv, GoodResult
<1>4. CASE QueryResult
  <2>1. results' \in Seq(S)
    BY <1>2, <1>4 DEF QueryResult
  <2> QED BY <1>1, <1>2, <2>1 DEF Inv, GoodResult
<1>5. CASE SnapshotReceived \/ RobotMoves \/ TransformChanges \/ UNCHANGED queryVars
  <2>1. results' = results
    BY <1>5 DEF SnapshotReceived, RobotMoves, TransformChanges, queryVars
  <2> QED BY <1>1, <1>2, <2>1 DEF Inv, GoodResult
<1> QED BY <1>3, <1>4, <1>5 DEF QueryNext

-----------------------------------------------------------------------------
GoalLiesBetween ==
  \A result \in Range(results) :
    /\ results' = Tail(results) /\ result = Head(results)
    /\ result.success /\ AnchorGoal(result) = {} /\ goal' # goal
    => LET from == IF goal'.frame = MapFrame THEN robotAt ELSE 0
           to   == IF goal'.frame = MapFrame /\ result.frame = BaseFrame
                   THEN robotAt + result.x ELSE result.x
       IN /\ Gap(from, goal'.x) + Gap(goal'.x, to) = Gap(from, to)
          /\ Gap(goal'.x, to) <= Approach
          /\ Gap(from, goal'.x) >= MinStandoff

LEMMA StepGoalLiesBetween == Inv /\ QueryNext => GoalLiesBetween
<1> SUFFICES ASSUME Inv, QueryNext, goal' # goal,
                    NEW result, result = Head(results),
                    result.success, AnchorGoal(result) = {}
             PROVE  LET from == IF goal'.frame = MapFrame THEN robotAt ELSE 0
                        to   == IF goal'.frame = MapFrame /\ result.frame = BaseFrame
                                THEN robotAt + result.x ELSE result.x
                    IN /\ Gap(from, goal'.x) + Gap(goal'.x, to) = Gap(from, to)
                       /\ Gap(goal'.x, to) <= Approach
                       /\ Gap(from, goal'.x) >= MinStandoff
  BY DEF GoalLiesBetween
<1>1. QueryResult
  BY DEF QueryNext, SnapshotReceived, Command, RobotMoves, TransformChanges
<1>2. result.x \in Int /\ result.frame \in Frames /\ robotAt \in Int
  <2>1. PICK S : results \in Seq(S) /\ \A r \in S : GoodResult(r)
    BY DEF Inv
  <2>2. result \in S
    BY <1>1, <2>1 DEF QueryResult
  <2> QED BY <2>1, <2>2 DEF GoodResult, Inv, MapInv
<1>3. /\ ApproachGoal(result) # {}
      /\ goal' = Transformed(Min(ApproachGoal(result)), result.frame)
  BY <1>1 DEF QueryResult
<1>4. CASE result.frame = BaseFrame
  <2>1. PICK x : x \in ComputeApproachPose(0, result.x)
    BY <1>3, <1>4 DEF ApproachGoal
  <2>2. /\ x \in Int /\ goal' = Transformed(x, BaseFrame)
        /\ Gap(0, x) + Gap(x, result.x) = Gap(0, result.x)
        /\ Gap(x, result.x) <= Approach
        /\ Gap(0, x) >= MinStandoff
    BY <1>2, <1>3, <1>4, <2>1, ApproachLiesBetween, MinOfOne DEF ApproachGoal
  <2>3. CASE ~located
    <3>1. goal' = [x |-> x, frame |-> BaseFrame] /\ BaseFrame # MapFrame
      BY <2>2, <2>3 DEF Transformed, BaseFrame, MapFrame
    <3> QED BY <2>2, <3>1
  <2>4. CASE located
    <3>1. goal' = [x |-> robotAt + x, frame |-> MapFrame]
      BY <2>2, <2>4 DEF Transformed, BaseFrame, MapFrame
    <3>2. /\ Gap(robotAt, robotAt + x) = Gap(0, x)
          /\ Gap(robotAt + x, robotAt + result.x) = Gap(x, result.x)
          /\ Gap(robotAt, robotAt + result.x) = Gap(0, result.x)
      BY <1>2, <2>2 DEF Gap
    <3> QED BY <1>4, <2>2, <3>1, <3>2
  <2> QED BY <2>3, <2>4
<1>5. CASE result.frame = MapFrame
  <2>1. located /\ ApproachGoal(result) = ComputeApproachPose(robotAt, result.x)
    BY <1>3, <1>5 DEF ApproachGoal, BaseFrame, MapFrame
  <2>2. PICK x : x \in ComputeApproachPose(robotAt, result.x)
    BY <1>3, <2>1
  <2>3. /\ x \in Int /\ goal' = Transformed(x, MapFrame)
        /\ Gap(robotAt, x) + Gap(x, result.x) = Gap(robotAt, result.x)
        /\ Gap(x, result.x) <= Approach
        /\ Gap(robotAt, x) >= MinStandoff
    BY <1>2, <1>3, <1>5, <2>1, <2>2, ApproachLiesBetween, MinOfOne
  <2>4. goal' = [x |-> x, frame |-> MapFrame] /\ MapFrame # BaseFrame
    BY <2>3 DEF Transformed, BaseFrame, MapFrame
  <2> QED BY <1>5, <2>3, <2>4
<1> QED BY <1>2, <1>4, <1>5 DEF Frames

(* Every goal made without an anchor lies between the robot and its target *)
(* at the moment it is made, however old the answer is and whatever the    *)
(* map, the robot and its transform have done since.                       *)
(* (goal_adapter_core.py; nav_goal_adapter_node.py, _query_cb)             *)
THEOREM GoalsAlwaysLieBetween == QuerySpec => GoalsLieBetween
<1>1. Inv /\ [QueryNext]_queryVars => [GoalLiesBetween]_queryVars
  BY StepGoalLiesBetween
<1> QED BY <1>1, InvStarts, InvStep, PTL DEF QuerySpec, GoalsLieBetween, GoalLiesBetween
-----------------------------------------------------------------------------
(* Among finitely many there is one of the greatest value.                 *)

LEMMA GreatestValue ==
  ASSUME NEW S, IsFiniteSet(S), S # {}, NEW f, \A s \in S : f[s] \in Int
  PROVE  \E m \in S : \A s \in S : f[s] <= f[m]
<1> DEFINE Has(T) == \E m \in T : \A s \in T : f[s] <= f[m]
           N == {n \in Nat : \A T \in SUBSET S : Cardinality(T) = n /\ T # {} => Has(T)}
<1>0. \A T \in SUBSET S : /\ IsFiniteSet(T) /\ Cardinality(T) \in Nat
                          /\ Cardinality(T) = 0 <=> T = {}
  BY FS_Subset, FS_CardinalityType, FS_EmptySet
<1>1. 0 \in N
  BY <1>0
<1>2. ASSUME NEW n \in Nat, n \in N
      PROVE  n + 1 \in N
  <2> SUFFICES ASSUME NEW T \in SUBSET S, Cardinality(T) = n + 1
               PROVE  Has(T)
    OBVIOUS
  <2>1. PICK x \in T : TRUE
    BY <1>0
  <2> DEFINE rest == T \ {x}
  <2>2. Cardinality(rest) = n
    <3>1. Cardinality(rest) = Cardinality(T) - 1
      BY <1>0, <2>1, FS_RemoveElement
    <3> QED BY <3>1
  <2>3. CASE rest = {}
    <3>1. T = {x}
      BY <2>1, <2>3
    <3> QED BY <3>1
  <2>4. CASE rest # {}
    <3>1. PICK m \in rest : \A s \in rest : f[s] <= f[m]
      BY <1>2, <2>2, <2>4
    <3>2. f[x] \in Int /\ f[m] \in Int /\ \A s \in rest : f[s] \in Int
      OBVIOUS
    <3>3. CASE f[x] <= f[m]
      BY <3>1, <3>3
    <3>4. CASE ~(f[x] <= f[m])
      <4>1. \A s \in rest : f[s] <= f[x]
        BY <3>1, <3>2, <3>4
      <4>2. f[x] <= f[x]
        BY <3>2
      <4>3. \A s \in T : f[s] <= f[x]
        BY <4>1, <4>2
      <4> QED BY <4>3
    <3> QED BY <3>3, <3>4
  <2> QED BY <2>3, <2>4
<1> HIDE DEF N
<1>3. Cardinality(S) \in N
  BY <1>0, <1>1, <1>2, Induction
<1> QED BY <1>3 DEF N

-----------------------------------------------------------------------------
(* What the query node selects of the map.                                 *)

LEMMA IndicesAreFinite ==
  ASSUME NEW S, NEW seq \in Seq(S)
  PROVE  IsFiniteSet(DOMAIN seq) /\ DOMAIN seq \subseteq Nat
<1>1. DOMAIN seq = 1..Len(seq) /\ Len(seq) \in Nat
  OBVIOUS
<1>2. IsFiniteSet(1..Len(seq))
  BY <1>1, FS_Interval
<1> QED BY <1>1, <1>2

LEMMA CandidateFacts ==
  ASSUME MapInv, NEW name
  PROVE  /\ IsFiniteSet(Candidates(name))
         /\ Candidates(name) \subseteq DOMAIN snapshot.objects
         /\ Candidates(name) \subseteq Nat
         /\ \A i \in DOMAIN snapshot.objects :
              /\ snapshot.objects[i] \in Objects
              /\ snapshot.objects[i].conf \in Nat
              /\ DistanceFromRobot(i) \in Nat
<1>1. snapshot.objects \in Seq(Objects) /\ robotAt \in Int
  BY DEF MapInv
<1>2. Candidates(name) \in SUBSET DOMAIN snapshot.objects
  BY DEF Candidates
<1>3. IsFiniteSet(DOMAIN snapshot.objects) /\ DOMAIN snapshot.objects \subseteq Nat
  BY <1>1, IndicesAreFinite
<1>4. \A i \in DOMAIN snapshot.objects : snapshot.objects[i] \in Objects
  BY <1>1
<1>5. \A i \in DOMAIN snapshot.objects :
        snapshot.objects[i].conf \in Nat /\ snapshot.objects[i].x \in Int
  BY <1>4 DEF Objects
<1>6. RobotXY \in Int
  BY <1>1 DEF RobotXY
<1> QED BY <1>2, <1>3, <1>4, <1>5, <1>6, FS_Subset DEF DistanceFromRobot, Gap
(* _select_best: a candidate is selected whenever there is one.            *)
LEMMA TargetIsBest ==
  ASSUME MapInv, NEW name
  PROVE  /\ SelectTarget(name) \subseteq Candidates(name)
         /\ Candidates(name) # {} => SelectTarget(name) # {}
         /\ \A i \in SelectTarget(name), j \in Candidates(name) :
              /\ snapshot.objects[j].conf <= snapshot.objects[i].conf
              /\ snapshot.objects[j].conf = snapshot.objects[i].conf =>
                   DistanceFromRobot(i) <= DistanceFromRobot(j)
<1> DEFINE C == Candidates(name)
           Conf(i) == snapshot.objects[i].conf
           Far(i) == DistanceFromRobot(i)
           Better(i, j) == \/ Conf(i) > Conf(j)
                           \/ Conf(i) = Conf(j) /\ Far(i) < Far(j)
           Best == {i \in C : \A j \in C : ~Better(j, i) /\ (j < i => Better(i, j))}
<1>1. SelectTarget(name) = Best
  BY DEF SelectTarget
<1>2. /\ IsFiniteSet(C) /\ C \subseteq Nat
      /\ \A i \in C : Conf(i) \in Nat /\ Far(i) \in Nat
  BY CandidateFacts
<1> HIDE DEF C, Conf, Far
<1>3. \A i \in Best, j \in C : /\ Conf(j) <= Conf(i)
                               /\ Conf(j) = Conf(i) => Far(i) <= Far(j)
  BY <1>2
<1>4. ASSUME C # {} PROVE Best # {}
  <2>1. PICK a \in C : \A j \in C : Conf(j) <= Conf(a)
    <3> DEFINE f == [c \in C |-> Conf(c)]
    <3>1. \A c \in C : f[c] \in Int
      BY <1>2
    <3>2. \E m \in C : \A c \in C : f[c] <= f[m]
      <4> HIDE DEF f
      <4> QED BY <1>2, <1>4, <3>1, GreatestValue
    <3> QED BY <3>2
  <2> DEFINE A == {c \in C : Conf(c) = Conf(a)}
  <2>2. PICK b \in A : \A j \in A : Far(b) <= Far(j)
    <3> DEFINE D == {Far(c) : c \in A}
    <3>1. D \subseteq Nat /\ D # {}
      BY <1>2
    <3>2. PICK d \in D : \A e \in D : d <= e
      <4> HIDE DEF D
      <4> QED BY <3>1, LeastOf
    <3> QED BY <3>2
  <2> DEFINE B == {c \in A : Far(c) = Far(b)}
  <2>3. PICK i \in B : \A j \in B : i <= j
    <3>1. B \subseteq Nat /\ B # {}
      BY <1>2, <2>2
    <3> HIDE DEF B
    <3> QED BY <3>1, LeastOf
  <2>4. ASSUME NEW j \in C
        PROVE  ~Better(j, i) /\ (j < i => Better(i, j))
    <3>1. i \in C /\ Conf(i) = Conf(a) /\ Far(i) = Far(b)
      BY <2>3
    <3>2. /\ Conf(i) \in Nat /\ Conf(j) \in Nat /\ Far(i) \in Nat /\ Far(j) \in Nat
          /\ i \in Nat /\ j \in Nat
      BY <1>2, <3>1
    <3>3. Conf(j) <= Conf(i)
      BY <2>1, <3>1
    <3>4. Conf(j) = Conf(i) => Far(i) <= Far(j)
      BY <2>2, <3>1
    <3>5. Conf(j) = Conf(i) /\ Far(j) = Far(i) => i <= j
      BY <2>3, <3>1
    <3> QED BY <3>2, <3>3, <3>4, <3>5
  <2>5. i \in Best
    BY <2>3, <2>4
  <2> QED BY <2>5
<1>5. Best \subseteq C
  OBVIOUS
<1> QED BY <1>1, <1>3, <1>4, <1>5 DEF C, Conf, Far

(* RelationConfidence is attained by a relation and exceeded by none.      *)
LEMMA ConfidenceIsGreatest ==
  ASSUME MapInv, NEW predicate, NEW t, NEW r
  PROVE  /\ RelationConfidence(predicate, t, r) \in Int
         /\ RelationConfidence(predicate, t, r) > 0 =>
              \E k \in DOMAIN snapshot.relations :
                /\ Relates(snapshot.relations[k], predicate, t, r)
                /\ snapshot.relations[k].conf = RelationConfidence(predicate, t, r)
         /\ \A k \in DOMAIN snapshot.relations :
              Relates(snapshot.relations[k], predicate, t, r) =>
                snapshot.relations[k].conf <= RelationConfidence(predicate, t, r)
<1> DEFINE L == {l \in DOMAIN snapshot.relations :
                   Relates(snapshot.relations[l], predicate, t, r)}
           confs == {snapshot.relations[k].conf : k \in L}
<1>1. RelationConfidence(predicate, t, r) = IF confs = {} THEN 0 ELSE Max(confs)
  BY DEF RelationConfidence
<1>2. snapshot.relations \in Seq(RelationRecords)
  BY DEF MapInv
<1>3. \A k \in DOMAIN snapshot.relations : snapshot.relations[k].conf \in Int
  <2>1. \A k \in DOMAIN snapshot.relations : snapshot.relations[k] \in RelationRecords
    BY <1>2
  <2> QED BY <2>1 DEF RelationRecords
<1>4. IsFiniteSet(L)
  <2>1. IsFiniteSet(DOMAIN snapshot.relations)
    BY <1>2, IndicesAreFinite
  <2>2. L \in SUBSET DOMAIN snapshot.relations
    OBVIOUS
  <2> HIDE DEF L
  <2> QED BY <2>1, <2>2, FS_Subset
<1>5. CASE L = {}
  <2>1. confs = {}
    BY <1>5
  <2> HIDE DEF confs
  <2>2. RelationConfidence(predicate, t, r) = 0
    BY <1>1, <2>1
  <2> QED BY <1>5, <2>2
<1>6. CASE L # {}
  <2> DEFINE f == [k \in L |-> snapshot.relations[k].conf]
  <2>1. \A k \in L : f[k] \in Int
    BY <1>3
  <2>2. PICK m \in L : \A k \in L : f[k] <= f[m]
    <3> HIDE DEF f, L
    <3> QED BY <1>4, <1>6, <2>1, GreatestValue
  <2>3. f[m] \in confs /\ \A c \in confs : c <= f[m]
    BY <2>2
  <2>4. confs \subseteq Int /\ confs # {}
    BY <1>3, <1>6
  <2>5. Max(confs) \in confs /\ \A c \in confs : c <= Max(confs)
    <3> HIDE DEF confs, f
    <3> QED BY <2>3, <2>4 DEF Max
  <2>6. RelationConfidence(predicate, t, r) = Max(confs)
    BY <1>1, <2>4
  <2>7. PICK k \in L : Max(confs) = snapshot.relations[k].conf
    BY <2>5
  <2>8. Max(confs) \in Int
    BY <2>4, <2>5
  <2>9. \A l \in L : snapshot.relations[l].conf <= Max(confs)
    BY <2>5
  <2> HIDE DEF confs, f
  <2> QED BY <2>6, <2>7, <2>8, <2>9
<1> QED BY <1>5, <1>6

(* _select_best_relational: over pairs, of which one is selected whenever  *)
(* there is one.                                                           *)
Pairs(command) ==
  {p \in Candidates(command.target) \X Candidates(command.reference) :
     /\ snapshot.objects[p[1]].id # snapshot.objects[p[2]].id
     /\ RelationConfidence(command.predicate, snapshot.objects[p[1]].id,
                                              snapshot.objects[p[2]].id) > 0}

SureOf(command, p) ==
  RelationConfidence(command.predicate, snapshot.objects[p[1]].id, snapshot.objects[p[2]].id)

LEMMA PairIsBest ==
  ASSUME MapInv, NEW command
  PROVE  /\ \A i \in SelectRelationalTarget(command) :
              \E p \in Pairs(command) :
                /\ i = p[1]
                /\ \A q \in Pairs(command) : SureOf(command, q) <= SureOf(command, p)
         /\ Pairs(command) # {} => SelectRelationalTarget(command) # {}
<1> DEFINE P == Pairs(command)
           Sure(p) == SureOf(command, p)
           Conf(p) == snapshot.objects[p[1]].conf
           Far(p) == DistanceFromRobot(p[1])
           Better(p, q) == \/ Sure(p) > Sure(q)
                           \/ Sure(p) = Sure(q) /\ Far(p) < Far(q)
                           \/ Sure(p) = Sure(q) /\ Far(p) = Far(q) /\ Conf(p) > Conf(q)
           Best == {q \in P : \A o \in P : ~Better(o, q) /\ (o[1] < q[1] => Better(q, o))}
<1>1. SelectRelationalTarget(command) = {p[1] : p \in Best}
  BY DEF SelectRelationalTarget, Pairs, SureOf
<1>2. /\ IsFiniteSet(P)
      /\ \A p \in P : p[1] \in Nat /\ Conf(p) \in Nat /\ Far(p) \in Nat
  <2>1. P \in SUBSET (Candidates(command.target) \X Candidates(command.reference))
    BY DEF Pairs
  <2>2. /\ IsFiniteSet(Candidates(command.target))
        /\ IsFiniteSet(Candidates(command.reference))
        /\ \A i \in Candidates(command.target) :
             i \in Nat /\ i \in DOMAIN snapshot.objects
    BY CandidateFacts
  <2>3. IsFiniteSet(Candidates(command.target) \X Candidates(command.reference))
    BY <2>2, FS_Product
  <2>4. IsFiniteSet(P)
    BY <2>1, <2>3, FS_Subset
  <2>5. \A p \in P : p[1] \in Candidates(command.target)
    BY <2>1
  <2>6. \A i \in DOMAIN snapshot.objects :
          snapshot.objects[i].conf \in Nat /\ DistanceFromRobot(i) \in Nat
    BY CandidateFacts
  <2> QED BY <2>2, <2>4, <2>5, <2>6
<1>3. \A p \in P : Sure(p) \in Int
  BY ConfidenceIsGreatest DEF SureOf
<1> HIDE DEF P, Sure, Conf, Far
<1>4. \A p \in Best : \A q \in P : Sure(q) <= Sure(p)
  BY <1>3
<1>5. ASSUME P # {} PROVE Best # {}
  <2>1. PICK a \in P : \A p \in P : Sure(p) <= Sure(a)
    <3> DEFINE f == [p \in P |-> Sure(p)]
    <3>1. \A p \in P : f[p] \in Int
      BY <1>3
    <3>2. \E m \in P : \A p \in P : f[p] <= f[m]
      <4> HIDE DEF f
      <4> QED BY <1>2, <1>5, <3>1, GreatestValue
    <3> QED BY <3>2
  <2> DEFINE A == {p \in P : Sure(p) = Sure(a)}
  <2>2. PICK b \in A : \A p \in A : Far(b) <= Far(p)
    <3> DEFINE D == {Far(p) : p \in A}
    <3>1. D \subseteq Nat /\ D # {}
      BY <1>2
    <3>2. PICK d \in D : \A e \in D : d <= e
      <4> HIDE DEF D
      <4> QED BY <3>1, LeastOf
    <3> QED BY <3>2
  <2> DEFINE B == {p \in A : Far(p) = Far(b)}
  <2>3. PICK c \in B : \A p \in B : Conf(p) <= Conf(c)
    <3> DEFINE f == [p \in B |-> Conf(p)]
    <3>1. \A p \in B : f[p] \in Int
      BY <1>2
    <3>2. B \in SUBSET P /\ B # {}
      BY <2>2
    <3> HIDE DEF B
    <3>3. IsFiniteSet(B)
      BY <1>2, <3>2, FS_Subset
    <3>4. \E m \in B : \A p \in B : f[p] <= f[m]
      <4> HIDE DEF f
      <4> QED BY <3>1, <3>2, <3>3, GreatestValue
    <3> QED BY <3>4
  <2> DEFINE E == {p \in B : Conf(p) = Conf(c)}
  <2>4. PICK q \in E : \A p \in E : q[1] <= p[1]
    <3> DEFINE D == {p[1] : p \in E}
    <3>1. D \subseteq Nat /\ D # {}
      BY <1>2, <2>3
    <3>2. PICK d \in D : \A e \in D : d <= e
      <4> HIDE DEF D
      <4> QED BY <3>1, LeastOf
    <3> QED BY <3>2
  <2>5. ASSUME NEW o \in P
        PROVE  ~Better(o, q) /\ (o[1] < q[1] => Better(q, o))
    <3>1. q \in P /\ Sure(q) = Sure(a) /\ Far(q) = Far(b) /\ Conf(q) = Conf(c)
      BY <2>4
    <3>2. /\ Sure(q) \in Int /\ Sure(o) \in Int /\ Far(q) \in Nat /\ Far(o) \in Nat
          /\ Conf(q) \in Nat /\ Conf(o) \in Nat /\ q[1] \in Nat /\ o[1] \in Nat
      BY <1>2, <1>3, <3>1
    <3>3. Sure(o) <= Sure(q)
      BY <2>1, <3>1
    <3>4. Sure(o) = Sure(q) => Far(q) <= Far(o)
      BY <2>2, <3>1
    <3>5. Sure(o) = Sure(q) /\ Far(o) = Far(q) => Conf(o) <= Conf(q)
      BY <2>3, <3>1
    <3>6. Sure(o) = Sure(q) /\ Far(o) = Far(q) /\ Conf(o) = Conf(q) => q[1] <= o[1]
      BY <2>4, <3>1
    <3> QED BY <3>2, <3>3, <3>4, <3>5, <3>6
  <2>6. q \in Best
    BY <2>4, <2>5
  <2> QED BY <2>6
<1>6. Best \subseteq P
  OBVIOUS
<1> HIDE DEF Best
<1> QED BY <1>1, <1>4, <1>5, <1>6 DEF P, Sure

(* select_best_anchor: an anchor that is chosen is the object's.           *)
LEMMA AnchorIsOfTheObject ==
  ASSUME MapInv, NEW id, SelectBestAnchor(id) # NoAnchor
  PROVE  \E a \in Range(snapshot.anchors) : a.target = id /\ a.x = SelectBestAnchor(id)
<1> DEFINE of == {k \in DOMAIN snapshot.anchors : snapshot.anchors[k].target = id}
           Sure(k) == snapshot.anchors[k].conf
           Best(k) == \A l \in of : Sure(l) < Sure(k) \/ (Sure(l) = Sure(k) /\ k <= l)
<1>1. of # {} /\ SelectBestAnchor(id) = snapshot.anchors[CHOOSE k \in of : Best(k)].x
  BY DEF SelectBestAnchor
<1>2. snapshot.anchors \in Seq(AnchorRecords)
  BY DEF MapInv
<1>3. IsFiniteSet(of) /\ of \subseteq Nat
  <2>1. IsFiniteSet(DOMAIN snapshot.anchors) /\ DOMAIN snapshot.anchors \subseteq Nat
    BY <1>2, IndicesAreFinite
  <2>2. of \in SUBSET DOMAIN snapshot.anchors
    OBVIOUS
  <2> HIDE DEF of
  <2> QED BY <2>1, <2>2, FS_Subset
<1>4. \A k \in of : Sure(k) \in Int
  <2>1. \A k \in DOMAIN snapshot.anchors : snapshot.anchors[k] \in AnchorRecords
    BY <1>2
  <2> QED BY <2>1 DEF AnchorRecords
<1>5. \E k \in of : Best(k)
  <2> HIDE DEF of, Sure
  <2>1. PICK a \in of : \A k \in of : Sure(k) <= Sure(a)
    <3> DEFINE f == [k \in of |-> Sure(k)]
    <3>1. \A k \in of : f[k] \in Int
      BY <1>4
    <3>2. \E m \in of : \A k \in of : f[k] <= f[m]
      <4> HIDE DEF f
      <4> QED BY <1>1, <1>3, <3>1, GreatestValue
    <3> QED BY <3>2
  <2> DEFINE A == {k \in of : Sure(k) = Sure(a)}
  <2>2. PICK k \in A : \A l \in A : k <= l
    <3>1. A \subseteq Nat /\ A # {}
      BY <1>3
    <3> HIDE DEF A
    <3> QED BY <3>1, LeastOf
  <2>3. ASSUME NEW l \in of PROVE Sure(l) < Sure(k) \/ (Sure(l) = Sure(k) /\ k <= l)
    <3>1. Sure(l) <= Sure(a) /\ Sure(k) = Sure(a)
      BY <2>1, <2>2
    <3>2. Sure(l) \in Int /\ Sure(a) \in Int
      BY <1>4
    <3>3. Sure(l) = Sure(a) => k <= l
      BY <2>2
    <3> QED BY <3>1, <3>2, <3>3
  <2> QED BY <2>2, <2>3
<1>6. (CHOOSE k \in of : Best(k)) \in of
  <2> HIDE DEF Best, of
  <2> QED BY <1>5
<1> QED BY <1>1, <1>6 DEF Range
(* An id names one object.                                                 *)
LEMMA ObjectIsFound ==
  ASSUME MapInv, NEW i \in DOMAIN snapshot.objects
  PROVE  Object(snapshot.objects[i].id) = snapshot.objects[i]
<1> DEFINE o == snapshot.objects[i]
           objects == Range(snapshot.objects)
           found == CHOOSE q \in objects : q.id = o.id
<1>1. o \in objects
  BY DEF Range
<1>2. found \in objects /\ found.id = o.id
  BY <1>1
<1>3. PICK j \in DOMAIN snapshot.objects : found = snapshot.objects[j]
  BY <1>2 DEF Range
<1>4. snapshot.objects[j].id = o.id
  <2> HIDE DEF found
  <2> QED BY <1>2, <1>3
<1>5. i = j
  BY <1>4 DEF MapInv
<1> QED BY <1>3, <1>5 DEF Object

(* The answer to a command for which something is selected.                *)
LEMMA AnswerIsSelected ==
  ASSUME MapInv, NEW sentence
  PROVE  LET selected == Select(ParseCommand(sentence))
             answer   == Answer(sentence)
         IN /\ answer.success <=> selected # {}
            /\ answer.success \in BOOLEAN
            /\ answer.success =>
                 \E i \in selected :
                   /\ i \in DOMAIN snapshot.objects
                   /\ answer.id = snapshot.objects[i].id
                   /\ Object(answer.id) = snapshot.objects[i]
                   /\ answer.anchor = SelectBestAnchor(answer.id)
<1> DEFINE selected == Select(ParseCommand(sentence))
           answer   == Answer(sentence)
<1>1. selected \subseteq DOMAIN snapshot.objects
  BY SelectedExist
<1>2. DOMAIN snapshot.objects \subseteq Nat
  BY IndicesAreFinite DEF MapInv
<1>3. CASE selected = {}
  <2>1. answer = Failure
    BY <1>3 DEF Answer
  <2>2. Failure.success = FALSE
    BY DEF Failure
  <2> HIDE DEF answer, selected
  <2>3. answer.success = FALSE
    BY <2>1, <2>2
  <2> QED BY <1>3, <2>3 DEF answer, selected
<1>4. CASE selected # {}
  <2> DEFINE i == Min(selected)
             object == snapshot.objects[i]
  <2>1. i \in selected
    <3> HIDE DEF selected
    <3> QED BY <1>1, <1>2, <1>4, NatMinimum
  <2>2. answer = [success |-> TRUE, id |-> object.id, x |-> object.x,
                  anchor |-> SelectBestAnchor(object.id), frame |-> snapshot.frame]
    BY <1>4 DEF Answer
  <2> HIDE DEF selected, i, answer
  <2>3. /\ answer.success = TRUE /\ answer.id = snapshot.objects[i].id
        /\ answer.anchor = SelectBestAnchor(answer.id)
    BY <2>2
  <2>4. Object(answer.id) = snapshot.objects[i]
    BY <1>1, <2>1, <2>3, ObjectIsFound
  <2> QED BY <1>1, <1>4, <2>1, <2>3, <2>4 DEF selected, answer
<1> QED BY <1>3, <1>4

-----------------------------------------------------------------------------
(* The three parts of AnswersAreBest.                                      *)

Kind(name) == {o \in Range(snapshot.objects) : MatchesTarget(o, name)}

Related(command, t, r) ==
  {k \in Range(snapshot.relations) :
     /\ k.predicate = command.predicate
     /\ k.conf > 0 /\ t.id # r.id
     /\ \/ <<k.subject, k.object>> = <<t.id, r.id>>
        \/ k.predicate = "near" /\ <<k.object, k.subject>> = <<t.id, r.id>>}

AllRelated(command) ==
  UNION {Related(command, t, r) : t \in Kind(command.target), r \in Kind(command.reference)}

LEMMA KindsAreCandidates ==
  ASSUME NEW name
  PROVE  /\ \A i \in Candidates(name) : snapshot.objects[i] \in Kind(name)
         /\ \A o \in Kind(name) : \E i \in Candidates(name) : o = snapshot.objects[i]
  BY DEF Kind, Candidates, Range

(* A pair of candidates is related as surely as its surest relation is.    *)
LEMMA RelatedPairs ==
  ASSUME MapInv, NEW command
  PROVE  /\ \A p \in Pairs(command) :
              \E k \in Related(command, snapshot.objects[p[1]], snapshot.objects[p[2]]) :
                k.conf = SureOf(command, p)
         /\ \A l \in AllRelated(command) :
              \E p \in Pairs(command) : l.conf <= SureOf(command, p)
<1>1. ASSUME NEW p \in Pairs(command)
      PROVE  \E k \in Related(command, snapshot.objects[p[1]], snapshot.objects[p[2]]) :
               k.conf = SureOf(command, p)
  <2> DEFINE t == snapshot.objects[p[1]]
             r == snapshot.objects[p[2]]
  <2>1. t.id # r.id /\ SureOf(command, p) > 0
    BY DEF Pairs, SureOf
  <2>2. PICK k \in DOMAIN snapshot.relations :
          /\ Relates(snapshot.relations[k], command.predicate, t.id, r.id)
          /\ snapshot.relations[k].conf = SureOf(command, p)
    BY <2>1, ConfidenceIsGreatest DEF SureOf
  <2> DEFINE relation == snapshot.relations[k]
  <2>3. relation \in Range(snapshot.relations)
    BY DEF Range
  <2> HIDE DEF t, r, relation
  <2>4. relation \in Related(command, t, r)
    BY <2>1, <2>2, <2>3 DEF Related, Relates, relation
  <2> QED BY <2>2, <2>4 DEF t, r, relation
<1>2. ASSUME NEW l \in AllRelated(command)
      PROVE  \E p \in Pairs(command) : l.conf <= SureOf(command, p)
  <2>1. PICK t \in Kind(command.target), r \in Kind(command.reference) :
          l \in Related(command, t, r)
    BY <1>2 DEF AllRelated
  <2>2. PICK i \in Candidates(command.target) : t = snapshot.objects[i]
    BY KindsAreCandidates
  <2>3. PICK j \in Candidates(command.reference) : r = snapshot.objects[j]
    BY KindsAreCandidates
  <2>4. PICK k \in DOMAIN snapshot.relations : l = snapshot.relations[k]
    BY <2>1 DEF Related, Range
  <2>5. /\ Relates(l, command.predicate, t.id, r.id)
        /\ l.conf > 0 /\ t.id # r.id
    BY <2>1 DEF Related, Relates
  <2>6. l.conf \in Int
    <3>1. snapshot.relations \in Seq(RelationRecords)
      BY DEF MapInv
    <3>2. l \in RelationRecords
      BY <2>4, <3>1
    <3> QED BY <3>2 DEF RelationRecords
  <2> DEFINE sure == RelationConfidence(command.predicate, t.id, r.id)
  <2>7. sure \in Int /\ l.conf <= sure
    BY <2>4, <2>5, ConfidenceIsGreatest
  <2>8. sure > 0
    <3> HIDE DEF sure
    <3> QED BY <2>5, <2>6, <2>7
  <2>9. <<i, j>> \in Pairs(command) /\ SureOf(command, <<i, j>>) = sure
    BY <2>2, <2>3, <2>5, <2>8 DEF Pairs, SureOf
  <2> QED BY <2>7, <2>9
<1> QED BY <1>1, <1>2

LEMMA RelationalAnswer ==
  ASSUME MapInv, NEW sentence,
         ParseCommand(sentence) # NoCommand, ParseCommand(sentence).relation
  PROVE  LET command == ParseCommand(sentence)
             answer  == Answer(sentence)
             chosen  == Object(answer.id)
         IN /\ answer.success <=> mode.semanticMap /\ AllRelated(command) # {}
            /\ answer.success =>
                 /\ chosen \in Kind(command.target)
                 /\ \E r \in Kind(command.reference) : \E k \in Related(command, chosen, r) :
                      \A l \in AllRelated(command) : l.conf <= k.conf
<1> DEFINE command == ParseCommand(sentence)
           answer  == Answer(sentence)
<1>1. mode.semanticMap \in BOOLEAN
  BY DEF MapInv
<1>2. Select(command) = IF mode.semanticMap THEN SelectRelationalTarget(command) ELSE {}
  BY DEF Select
<1>3. /\ answer.success <=> Select(command) # {}
      /\ answer.success \in BOOLEAN
      /\ answer.success =>
           \E i \in Select(command) : /\ answer.id = snapshot.objects[i].id
                                      /\ Object(answer.id) = snapshot.objects[i]
  BY AnswerIsSelected
<1> HIDE DEF command, answer
<1>4. Pairs(command) # {} <=> AllRelated(command) # {}
  <2>1. ASSUME NEW p \in Pairs(command)
        PROVE  AllRelated(command) # {}
    <3>1. PICK k : k \in Related(command, snapshot.objects[p[1]], snapshot.objects[p[2]])
      BY RelatedPairs
    <3>2. /\ snapshot.objects[p[1]] \in Kind(command.target)
          /\ snapshot.objects[p[2]] \in Kind(command.reference)
      BY KindsAreCandidates DEF Pairs
    <3>3. k \in AllRelated(command)
      BY <3>1, <3>2 DEF AllRelated
    <3> QED BY <3>3
  <2>2. AllRelated(command) # {} => Pairs(command) # {}
    BY RelatedPairs
  <2> QED BY <2>1, <2>2
<1>5. Pairs(command) = {} => SelectRelationalTarget(command) = {}
  BY PairIsBest
<1>6. answer.success <=> mode.semanticMap /\ AllRelated(command) # {}
  BY <1>1, <1>2, <1>3, <1>4, <1>5, PairIsBest
<1>7. ASSUME answer.success
      PROVE  /\ Object(answer.id) \in Kind(command.target)
             /\ \E r \in Kind(command.reference) :
                  \E k \in Related(command, Object(answer.id), r) :
                    \A l \in AllRelated(command) : l.conf <= k.conf
  <2>1. PICK i \in SelectRelationalTarget(command) : Object(answer.id) = snapshot.objects[i]
    BY <1>1, <1>2, <1>3, <1>7
  <2>2. PICK p \in Pairs(command) :
          /\ i = p[1]
          /\ \A q \in Pairs(command) : SureOf(command, q) <= SureOf(command, p)
    BY PairIsBest
  <2>3. /\ snapshot.objects[p[1]] \in Kind(command.target)
        /\ snapshot.objects[p[2]] \in Kind(command.reference)
    BY KindsAreCandidates DEF Pairs
  <2>4. PICK k \in Related(command, snapshot.objects[p[1]], snapshot.objects[p[2]]) :
          k.conf = SureOf(command, p)
    BY RelatedPairs
  <2>5. ASSUME NEW l \in AllRelated(command)
        PROVE  l.conf <= k.conf
    <3>1. PICK q \in Pairs(command) : l.conf <= SureOf(command, q)
      BY RelatedPairs
    <3>2. SureOf(command, q) <= SureOf(command, p)
      BY <2>2
    <3>3. SureOf(command, q) \in Int /\ SureOf(command, p) \in Int
      BY ConfidenceIsGreatest DEF SureOf
    <3>4. l.conf \in Int
      <4>1. snapshot.relations \in Seq(RelationRecords)
        BY DEF MapInv
      <4>2. l \in Range(snapshot.relations)
        BY DEF AllRelated, Related
      <4>3. l \in RelationRecords
        BY <4>1, <4>2 DEF Range
      <4> QED BY <4>3 DEF RelationRecords
    <3> QED BY <2>4, <3>1, <3>2, <3>3, <3>4
  <2> QED BY <2>1, <2>2, <2>3, <2>4, <2>5
<1> QED BY <1>6, <1>7 DEF command, answer

LEMMA PlainAnswer ==
  ASSUME MapInv, NEW sentence,
         ParseCommand(sentence) # NoCommand, ~ParseCommand(sentence).relation
  PROVE  LET command == ParseCommand(sentence)
             answer  == Answer(sentence)
             chosen  == Object(answer.id)
         IN /\ answer.success <=> Kind(command.target) # {}
            /\ answer.success =>
                 /\ chosen \in Kind(command.target)
                 /\ \A o \in Kind(command.target) :
                      /\ o.conf <= chosen.conf
                      /\ located /\ snapshot.frame = MapFrame /\ o.conf = chosen.conf =>
                           Gap(chosen.x, robotAt) <= Gap(o.x, robotAt)
<1> DEFINE command == ParseCommand(sentence)
           answer  == Answer(sentence)
<1>1. Select(command) = SelectTarget(command.target)
  BY DEF Select
<1>2. /\ answer.success <=> Select(command) # {}
      /\ answer.success \in BOOLEAN
      /\ answer.success =>
           \E i \in Select(command) : /\ answer.id = snapshot.objects[i].id
                                      /\ Object(answer.id) = snapshot.objects[i]
  BY AnswerIsSelected
<1> HIDE DEF command, answer
<1>3. answer.success <=> Kind(command.target) # {}
  <2>1. SelectTarget(command.target) # {} <=> Candidates(command.target) # {}
    BY TargetIsBest
  <2>2. Candidates(command.target) # {} <=> Kind(command.target) # {}
    BY KindsAreCandidates
  <2> QED BY <1>1, <1>2, <2>1, <2>2
<1>4. ASSUME answer.success
      PROVE  /\ Object(answer.id) \in Kind(command.target)
             /\ \A o \in Kind(command.target) :
                  /\ o.conf <= Object(answer.id).conf
                  /\ located /\ snapshot.frame = MapFrame /\ o.conf = Object(answer.id).conf =>
                       Gap(Object(answer.id).x, robotAt) <= Gap(o.x, robotAt)
  <2>1. PICK i \in SelectTarget(command.target) : Object(answer.id) = snapshot.objects[i]
    BY <1>1, <1>2, <1>4
  <2>2. i \in Candidates(command.target)
    BY TargetIsBest
  <2>3. ASSUME NEW o \in Kind(command.target)
        PROVE  /\ o.conf <= snapshot.objects[i].conf
               /\ located /\ snapshot.frame = MapFrame /\ o.conf = snapshot.objects[i].conf =>
                    Gap(snapshot.objects[i].x, robotAt) <= Gap(o.x, robotAt)
    <3>1. PICK j \in Candidates(command.target) : o = snapshot.objects[j]
      BY KindsAreCandidates
    <3>2. /\ snapshot.objects[j].conf <= snapshot.objects[i].conf
          /\ snapshot.objects[j].conf = snapshot.objects[i].conf =>
               DistanceFromRobot(i) <= DistanceFromRobot(j)
      BY TargetIsBest
    <3>3. located /\ snapshot.frame = MapFrame => RobotXY = robotAt
      BY DEF RobotXY, MapFrame, BaseFrame
    <3> QED BY <3>1, <3>2, <3>3 DEF DistanceFromRobot
  <2> QED BY <2>1, <2>2, <2>3, KindsAreCandidates
<1> QED BY <1>3, <1>4 DEF command, answer

LEMMA AnswersAreBestNow == MapInv => AnswersAreBest
<1> SUFFICES ASSUME MapInv, NEW sentence \in Sentences
             PROVE  LET answer  == Answer(sentence)
                        command == ParseCommand(sentence)
                        chosen  == Object(answer.id)
                    IN /\ command = NoCommand => ~answer.success
                       /\ command # NoCommand /\ command.relation =>
                            /\ answer.success <=> mode.semanticMap /\ AllRelated(command) # {}
                            /\ answer.success =>
                                 /\ chosen \in Kind(command.target)
                                 /\ \E r \in Kind(command.reference) :
                                      \E k \in Related(command, chosen, r) :
                                        \A l \in AllRelated(command) : l.conf <= k.conf
                       /\ command # NoCommand /\ ~command.relation =>
                            /\ answer.success <=> Kind(command.target) # {}
                            /\ answer.success =>
                                 /\ chosen \in Kind(command.target)
                                 /\ \A o \in Kind(command.target) :
                                      /\ o.conf <= chosen.conf
                                      /\ located /\ snapshot.frame = MapFrame
                                         /\ o.conf = chosen.conf =>
                                           Gap(chosen.x, robotAt) <= Gap(o.x, robotAt)
                       /\ answer.success /\ answer.anchor # NoAnchor =>
                            \E a \in Range(snapshot.anchors) :
                              a.target = answer.id /\ a.x = answer.anchor
  BY DEF AnswersAreBest, AllRelated, Related, Kind
<1> DEFINE answer  == Answer(sentence)
           command == ParseCommand(sentence)
<1>1. ASSUME command = NoCommand PROVE ~answer.success
  <2>1. Select(command) = {}
    BY <1>1 DEF Select
  <2> QED BY <2>1, AnswerIsSelected
<1>2. ASSUME answer.success, answer.anchor # NoAnchor
      PROVE  \E a \in Range(snapshot.anchors) : a.target = answer.id /\ a.x = answer.anchor
  <2>1. answer.anchor = SelectBestAnchor(answer.id)
    BY <1>2, AnswerIsSelected
  <2> HIDE DEF answer
  <2> QED BY <1>2, <2>1, AnchorIsOfTheObject
<1> QED BY <1>1, <1>2, RelationalAnswer, PlainAnswer

(* Every command is answered by the best object of the map last received,  *)
(* for any vocabulary, commands and maps, in any order of the lists: with  *)
(* a relation by a target no pair is more surely related than, without by  *)
(* one of the surest, and then nearest, of its kind; nothing is answered   *)
(* only when there is nothing, and an anchor is the object's own.          *)
(* (query_core.py: parse_command, select_target,                           *)
(* select_relational_target, select_best_anchor)                           *)
THEOREM AnswersAreAlwaysBest == QuerySpec => []AnswersAreBest
  BY MapInvStarts, MapInvStep, AnswersAreBestNow, PTL DEF QuerySpec
=============================================================================
