------------------------ MODULE LandmarkMemoryProofs ------------------------
(***************************************************************************)
(* The registry of semantic objects and the landmarks made of what it      *)
(* publishes, for all labels, maps, distances and thresholds.              *)
(***************************************************************************)
EXTENDS LandmarkMemory, SequenceTheorems, FiniteSetTheorems, WellFoundedInduction, TLAPS

(* Induction over the naturals, for a set of them.                         *)
LEMMA Induction ==
  ASSUME NEW T, 0 \in T, \A n \in Nat : n \in T => n + 1 \in T
  PROVE  Nat \subseteq T
<1> SUFFICES ASSUME Nat \ T # {} PROVE FALSE
  OBVIOUS
<1>1. PICK m \in Nat \ T : \A n \in Nat \ T : <<n, m>> \notin OpToRel(<, Nat)
  BY WFMin, NatLessThanWellFounded
<1>2. \A n \in Nat : n < m => <<n, m>> \in OpToRel(<, Nat)
  BY DEF OpToRel
<1>3. \A n \in Nat : n < m => n \in T
  BY <1>1, <1>2, Zenon
<1>4. m \in Nat /\ m \notin T
  OBVIOUS
<1> QED BY <1>3, <1>4

(* Fractions a/b, c/d and e/f, compared by their cross products.           *)
LEMMA Scaling ==
  ASSUME NEW x \in Int, NEW y \in Int, NEW k \in Nat, k > 0
  PROVE  /\ x <= y <=> x * k <= y * k
         /\ x < y <=> x * k < y * k
  OBVIOUS

LEMMA FractionOrder ==
  ASSUME NEW a \in Nat, NEW c \in Nat, NEW e \in Nat,
         NEW b \in Nat, NEW d \in Nat, NEW f \in Nat, b > 0, d > 0, f > 0,
         a * d <= c * b, c * f <= e * d
  PROVE  /\ a * f <= e * b
         /\ a * d < c * b \/ c * f < e * d => a * f < e * b
<1> DEFINE p == a * f
           q == e * b
           r == a * d
           s == c * b
           t == c * f
           u == e * d
<1>1. {p, q, r, s, t, u} \subseteq Nat
  OBVIOUS
<1>2. r * f = p * d /\ s * f = t * b /\ u * b = q * d
  OBVIOUS
<1>3. r <= s /\ t <= u
  OBVIOUS
<1> SUFFICES p <= q /\ (r < s \/ t < u => p < q)
  OBVIOUS
<1> HIDE DEF p, q, r, s, t, u
<1>4. r * f <= s * f /\ t * b <= u * b
  BY <1>1, <1>3, Scaling
<1>5. (r < s => r * f < s * f) /\ (t < u => t * b < u * b)
  BY <1>1, Scaling
<1> DEFINE pd == p * d
           qd == q * d
           sf == s * f
<1>6. pd \in Nat /\ qd \in Nat /\ sf \in Nat
  BY <1>1
<1>7. pd <= sf /\ sf <= qd /\ (r < s => pd < sf) /\ (t < u => sf < qd)
  BY <1>2, <1>4, <1>5
<1>8. pd <= qd /\ (r < s \/ t < u => pd < qd)
  <2> HIDE DEF pd, qd, sf
  <2> QED BY <1>6, <1>7
<1> QED BY <1>1, <1>8, Scaling

(* Among finitely many fractions there is a least one, and a first of the  *)
(* least.                                                                  *)
LEMMA FirstFraction ==
  ASSUME NEW S, S \subseteq Nat, IsFiniteSet(S), S # {}, NEW p, NEW q,
         \A i \in S : p[i] \in Nat /\ q[i] \in Nat /\ q[i] > 0
  PROVE  \E i \in S : \A j \in S \ {i} :
           \/ p[i] * q[j] < p[j] * q[i]
           \/ ~(p[j] * q[i] < p[i] * q[j]) /\ i < j
<1> DEFINE Leads(i, T) == \A j \in T \ {i} :
                            \/ p[i] * q[j] < p[j] * q[i]
                            \/ p[i] * q[j] = p[j] * q[i] /\ i < j
           N == {n \in Nat : \A T \in SUBSET S :
                   Cardinality(T) = n /\ T # {} => \E i \in T : Leads(i, T)}
<1>0. \A T \in SUBSET S : /\ IsFiniteSet(T) /\ Cardinality(T) \in Nat
                          /\ Cardinality(T) = 0 <=> T = {}
  BY FS_Subset, FS_CardinalityType, FS_EmptySet
<1>00. \A i, j \in S : p[i] * q[j] \in Nat
  OBVIOUS
<1>1. 0 \in N
  BY <1>0
<1>2. ASSUME NEW n \in Nat, n \in N
      PROVE  n + 1 \in N
  <2> SUFFICES ASSUME NEW T \in SUBSET S, Cardinality(T) = n + 1
               PROVE  \E i \in T : Leads(i, T)
    OBVIOUS
  <2>1. PICK x \in T : TRUE
    BY <1>0
  <2> DEFINE rest == T \ {x}
  <2>2. Cardinality(rest) = n
    <3>1. Cardinality(rest) = Cardinality(T) - 1
      BY <1>0, <2>1, FS_RemoveElement
    <3> QED BY <3>1
  <2>3. CASE rest = {}
    <3>1. Leads(x, T)
      BY <2>1, <2>3
    <3> QED BY <3>1
  <2>4. CASE rest # {}
    <3>1. PICK m \in rest : Leads(m, rest)
      BY <1>2, <2>2, <2>4
    <3>2. x \in S /\ m \in S /\ x # m
      OBVIOUS
    <3>3. CASE p[m] * q[x] < p[x] * q[m] \/ (p[m] * q[x] = p[x] * q[m] /\ m < x)
      <4>1. Leads(m, T)
        BY <3>1, <3>3
      <4> QED BY <4>1
    <3>4. CASE p[x] * q[m] < p[m] * q[x] \/ (p[x] * q[m] = p[m] * q[x] /\ x < m)
      <4>1. ASSUME NEW j \in T \ {x}
            PROVE  \/ p[x] * q[j] < p[j] * q[x]
                   \/ p[x] * q[j] = p[j] * q[x] /\ x < j
        <5>1. CASE j = m
          BY <3>4, <5>1
        <5>2. CASE j # m
          <6>1. \/ p[m] * q[j] < p[j] * q[m]
                \/ p[m] * q[j] = p[j] * q[m] /\ m < j
            BY <3>1, <5>2
          <6>2. p[x] * q[m] <= p[m] * q[x] /\ p[m] * q[j] <= p[j] * q[m]
            BY <1>00, <3>2, <3>4, <6>1
          <6>3. /\ p[x] * q[j] <= p[j] * q[x]
                /\ p[x] * q[m] < p[m] * q[x] \/ p[m] * q[j] < p[j] * q[m] =>
                     p[x] * q[j] < p[j] * q[x]
            BY <3>2, <6>2, FractionOrder
          <6>4. x < m /\ m < j => x < j
            BY <3>2
          <6> QED BY <1>00, <3>2, <3>4, <6>1, <6>3, <6>4
        <5> QED BY <5>1, <5>2
      <4>2. Leads(x, T)
        BY <4>1
      <4> QED BY <4>2
    <3>5. \/ p[m] * q[x] < p[x] * q[m] \/ (p[m] * q[x] = p[x] * q[m] /\ m < x)
          \/ p[x] * q[m] < p[m] * q[x] \/ (p[x] * q[m] = p[m] * q[x] /\ x < m)
      BY <1>00, <3>2
    <3> QED BY <3>3, <3>4, <3>5
  <2> QED BY <2>3, <2>4
<1>3. PICK i \in S : Leads(i, S)
  <2> HIDE DEF N, Leads
  <2>1. Cardinality(S) \in N
    BY <1>0, <1>1, <1>2, Induction
  <2> QED BY <2>1 DEF N
<1>4. \A j \in S \ {i} : \/ p[i] * q[j] < p[j] * q[i]
                         \/ ~(p[j] * q[i] < p[i] * q[j]) /\ i < j
  BY <1>00, <1>3
<1> QED BY <1>4

-----------------------------------------------------------------------------
(* At: the loop is defined, and what it has kept after n elements.         *)

LEMMA AtLoop ==
  ASSUME NEW S, NEW seq \in Seq(S), NEW positions
  PROVE  \E at : /\ At(seq, positions) = at[Len(seq)]
                 /\ at[0] = <<>>
                 /\ \A n \in 1..Len(seq) :
                      at[n] = IF n \in positions THEN Append(at[n - 1], seq[n])
                                                 ELSE at[n - 1]
<1> DEFINE Step(f, n) == IF n = 0 THEN <<>>
                         ELSE IF n \in positions THEN Append(f[n - 1], seq[n])
                         ELSE f[n - 1]
           Upto(f, n) == /\ f = [k \in 0..n |-> f[k]]
                         /\ \A k \in 0..n : f[k] = Step(f, k)
           T == {n \in Nat : \E f : Upto(f, n)}
<1>1. 0 \in T
  <2> DEFINE f == [k \in 0..0 |-> <<>>]
  <2>1. Upto(f, 0)
    OBVIOUS
  <2> QED BY <2>1
<1>2. ASSUME NEW n \in Nat, n \in T
      PROVE  n + 1 \in T
  <2>1. PICK f : Upto(f, n)
    BY <1>2
  <2> DEFINE longer == [k \in 0..(n + 1) |-> IF k <= n THEN f[k] ELSE Step(f, k)]
  <2>2. ASSUME NEW k \in 0..(n + 1)
        PROVE  longer[k] = Step(longer, k)
    <3>1. k # 0 => k - 1 \in 0..n /\ longer[k - 1] = f[k - 1]
      OBVIOUS
    <3>2. longer[k] = Step(f, k)
      <4>1. longer[k] = IF k <= n THEN f[k] ELSE Step(f, k)
        OBVIOUS
      <4>2. k <= n => k \in 0..n
        OBVIOUS
      <4> HIDE DEF Step, longer
      <4>3. \A j \in 0..n : f[j] = Step(f, j)
        BY <2>1
      <4> QED BY <4>1, <4>2, <4>3
    <3> HIDE DEF longer
    <3> QED BY <3>1, <3>2
  <2>3. longer = [k \in 0..(n + 1) |-> longer[k]]
    OBVIOUS
  <2>4. Upto(longer, n + 1)
    BY <2>2, <2>3
  <2> HIDE DEF Upto, longer
  <2> QED BY <2>4
<1>3. PICK f : Upto(f, Len(seq))
  <2> HIDE DEF Upto
  <2>1. \A n \in Nat : n \in T => n + 1 \in T
    BY <1>2
  <2>2. Len(seq) \in T
    <3>1. Len(seq) \in Nat
      OBVIOUS
    <3> HIDE DEF T
    <3> QED BY <1>1, <2>1, <3>1, Induction
  <2> QED BY <2>2
<1> DEFINE loop == CHOOSE g : g = [n \in 0..Len(seq) |-> Step(g, n)]
<1>4. f = [n \in 0..Len(seq) |-> Step(f, n)]
  BY <1>3
<1>5. loop = [n \in 0..Len(seq) |-> Step(loop, n)]
  BY <1>4
<1>6. At(seq, positions) = loop[Len(seq)]
  BY DEF At
<1> HIDE DEF loop
<1>7. \A n \in 0..Len(seq) : loop[n] = Step(loop, n)
  BY <1>5, Zenon
<1>8. loop[0] = <<>> /\ \A n \in 1..Len(seq) : loop[n] = Step(loop, n)
  BY <1>7
<1> QED BY <1>6, <1>8

(* What is kept are elements of the sequence; nothing is lost if all are   *)
(* kept, and only then.                                                    *)
LEMMA AtKeeps ==
  ASSUME NEW S, NEW seq \in Seq(S), NEW positions
  PROVE  /\ At(seq, positions) \in Seq(S)
         /\ Len(At(seq, positions)) <= Len(seq)
         /\ \A i \in DOMAIN At(seq, positions) :
              \E j \in DOMAIN seq \cap positions : At(seq, positions)[i] = seq[j]
         /\ Len(At(seq, positions)) = Len(seq) => At(seq, positions) = seq
         /\ DOMAIN seq \subseteq positions => At(seq, positions) = seq
<1>1. PICK at : /\ At(seq, positions) = at[Len(seq)]
                /\ at[0] = <<>>
                /\ \A n \in 1..Len(seq) :
                     at[n] = IF n \in positions THEN Append(at[n - 1], seq[n])
                                                ELSE at[n - 1]
  BY AtLoop
<1> DEFINE KeptOf(kept, n) ==
             /\ kept \in Seq(S)
             /\ Len(kept) <= n
             /\ \A i \in 1..Len(kept) : \E j \in (1..n) \cap positions : kept[i] = seq[j]
             /\ Len(kept) = n => \A i \in 1..n : kept[i] = seq[i]
             /\ 1..n \subseteq positions => Len(kept) = n
           T == {n \in Nat : n <= Len(seq) => KeptOf(at[n], n)}
<1>2. 0 \in T
  <2>1. <<>> \in Seq(S) /\ Len(<<>>) = 0
    OBVIOUS
  <2>2. KeptOf(<<>>, 0)
    BY <2>1
  <2> HIDE DEF KeptOf
  <2> QED BY <1>1, <2>2
<1>3. ASSUME NEW n \in Nat, n \in T
      PROVE  n + 1 \in T
  <2> SUFFICES ASSUME n + 1 <= Len(seq) PROVE KeptOf(at[n + 1], n + 1)
    OBVIOUS
  <2>1. KeptOf(at[n], n)
    BY <1>3
  <2>2. n + 1 \in 1..Len(seq) /\ (n + 1) - 1 = n
    OBVIOUS
  <2>3. at[n + 1] = IF n + 1 \in positions THEN Append(at[n], seq[n + 1]) ELSE at[n]
    BY <1>1, <2>2
  <2> DEFINE before == at[n]
             after == at[n + 1]
  <2> HIDE DEF before, after
  <2>4. CASE n + 1 \in positions
    <3>1. after = Append(before, seq[n + 1]) /\ before \in Seq(S) /\ seq[n + 1] \in S
      BY <2>1, <2>2, <2>3, <2>4 DEF before, after
    <3>2. /\ after \in Seq(S) /\ Len(after) = Len(before) + 1
          /\ after[Len(after)] = seq[n + 1]
          /\ \A i \in 1..Len(before) : after[i] = before[i]
      BY <3>1
    <3>3. \A i \in 1..Len(after) : \E j \in (1..(n + 1)) \cap positions : after[i] = seq[j]
      <4> SUFFICES ASSUME NEW i \in 1..Len(after)
                   PROVE  \E j \in (1..(n + 1)) \cap positions : after[i] = seq[j]
        OBVIOUS
      <4>1. CASE i = Len(after)
        BY <2>4, <3>2, <4>1
      <4>2. CASE i # Len(after)
        <5>1. i \in 1..Len(before) /\ after[i] = before[i]
          BY <3>1, <3>2, <4>2
        <5>2. PICK j \in (1..n) \cap positions : before[i] = seq[j]
          BY <2>1, <5>1 DEF before
        <5> QED BY <5>1, <5>2
      <4> QED BY <4>1, <4>2
    <3>4. Len(after) <= n + 1 /\ (1..(n + 1) \subseteq positions => Len(after) = n + 1)
      BY <2>1, <3>1, <3>2 DEF before
    <3>5. Len(after) = n + 1 => \A i \in 1..(n + 1) : after[i] = seq[i]
      BY <2>1, <3>1, <3>2 DEF before
    <3> QED BY <3>2, <3>3, <3>4, <3>5 DEF after
  <2>5. CASE n + 1 \notin positions
    <3>1. after = before
      BY <2>3, <2>5 DEF before, after
    <3>2. /\ after \in Seq(S) /\ Len(after) <= n
          /\ \A i \in 1..Len(after) : \E j \in (1..n) \cap positions : after[i] = seq[j]
      BY <2>1, <3>1 DEF before
    <3>3. ~(1..(n + 1) \subseteq positions)
      BY <2>5
    <3> QED BY <3>2, <3>3 DEF after
  <2> QED BY <2>4, <2>5
<1>4. KeptOf(at[Len(seq)], Len(seq))
  <2>1. Nat \subseteq T
    <3> HIDE DEF T
    <3> QED BY <1>2, <1>3, Induction
  <2>2. Len(seq) \in T
    BY <2>1
  <2> QED BY <2>2
<1> DEFINE kept == At(seq, positions)
<1>5. KeptOf(kept, Len(seq))
  BY <1>1, <1>4
<1> HIDE DEF kept
<1>6. Len(kept) = Len(seq) => kept = seq
  BY <1>5
<1>7. DOMAIN seq = 1..Len(seq) /\ DOMAIN kept = 1..Len(kept)
  BY <1>5
<1>8. \A i \in DOMAIN kept : \E j \in DOMAIN seq \cap positions : kept[i] = seq[j]
  BY <1>5, <1>7
<1> QED BY <1>5, <1>6, <1>7, <1>8 DEF kept

-----------------------------------------------------------------------------
(* What one observation preserves, all observations of a message preserve. *)

(* Positions of a sequence have a greatest.                                *)
LEMMA GreatestPosition ==
  ASSUME NEW n \in Nat, NEW s \in SUBSET (1..n), s # {}
  PROVE  Max(s) \in s /\ \A j \in s : j <= Max(s)
<1> DEFINE T == {k \in Nat : \A r \in SUBSET (1..k) :
                   r # {} => \E m \in r : \A j \in r : m >= j}
<1>1. 0 \in T
  <2>1. 1..0 = {}
    OBVIOUS
  <2> QED BY <2>1
<1>2. ASSUME NEW k \in Nat, k \in T
      PROVE  k + 1 \in T
  <2> SUFFICES ASSUME NEW r \in SUBSET (1..(k + 1)), r # {}
               PROVE  \E m \in r : \A j \in r : m >= j
    OBVIOUS
  <2>1. CASE k + 1 \in r
    BY <2>1
  <2>2. CASE k + 1 \notin r
    <3>1. r \in SUBSET (1..k)
      BY <2>2
    <3> QED BY <1>2, <3>1
  <2> QED BY <2>1, <2>2
<1>3. n \in T
  <2> HIDE DEF T
  <2> QED BY <1>1, <1>2, Induction
<1>4. \E m \in s : \A j \in s : m >= j
  BY <1>3
<1>5. Max(s) \in s /\ \A j \in s : Max(s) >= j
  BY <1>4, Zenon DEF Max
<1> QED BY <1>5

LEMMA FoldKeeps ==
  ASSUME NEW Good, NEW mem \in Good, NEW S, NEW seq \in Seq(S),
         \A g \in Good, i \in DOMAIN seq : Observe(g, seq[i]) \in Good
  PROVE  FoldLeft(Observe, mem, seq) \in Good
<1> DEFINE D == DOMAIN seq
           Step(f, s) == IF s = {} THEN mem
                         ELSE Observe(f[s \ {Max(s)}], seq[Max(s)])
           Small(n) == {s \in SUBSET D : Cardinality(s) <= n}
           Upto(f, n) == /\ f = [s \in Small(n) |-> f[s]]
                         /\ \A s \in Small(n) : f[s] = Step(f, s)
           T == {n \in Nat : \E f : Upto(f, n)}
<1>0. /\ Cardinality(D) \in Nat
      /\ \A s \in SUBSET D : /\ IsFiniteSet(s) /\ Cardinality(s) \in Nat
                             /\ Cardinality(s) <= Cardinality(D)
                             /\ Cardinality(s) = 0 <=> s = {}
  <2>1. D = 1..Len(seq) /\ Len(seq) \in Nat
    OBVIOUS
  <2>2. IsFiniteSet(D)
    BY <2>1, FS_Interval
  <2> HIDE DEF D
  <2> QED BY <2>2, FS_Subset, FS_CardinalityType, FS_EmptySet
<1>00. \A s \in SUBSET D : s # {} =>
         /\ Max(s) \in s
         /\ s \ {Max(s)} \in SUBSET D
         /\ Cardinality(s \ {Max(s)}) = Cardinality(s) - 1
  <2> SUFFICES ASSUME NEW s \in SUBSET D, s # {}
               PROVE  Max(s) \in s /\ Cardinality(s \ {Max(s)}) = Cardinality(s) - 1
    OBVIOUS
  <2>1. D = 1..Len(seq) /\ Len(seq) \in Nat
    OBVIOUS
  <2> HIDE DEF D
  <2>2. Max(s) \in s
    BY <2>1, GreatestPosition
  <2> QED BY <1>0, <2>2, FS_RemoveElement
<1>1. 0 \in T
  <2> DEFINE f == [s \in Small(0) |-> mem]
  <2>1. \A s \in Small(0) : s = {}
    BY <1>0
  <2>2. Upto(f, 0)
    BY <2>1
  <2> QED BY <2>2
<1>2. ASSUME NEW n \in Nat, n \in T
      PROVE  n + 1 \in T
  <2>1. PICK f : Upto(f, n)
    BY <1>2
  <2> DEFINE longer == [s \in Small(n + 1) |-> IF Cardinality(s) <= n THEN f[s] ELSE Step(f, s)]
  <2>2. ASSUME NEW s \in Small(n + 1)
        PROVE  longer[s] = Step(longer, s)
    <3>1. s # {} => /\ s \ {Max(s)} \in Small(n)
                    /\ s \ {Max(s)} \in Small(n + 1)
      BY <1>0, <1>00
    <3>2. s # {} => longer[s \ {Max(s)}] = f[s \ {Max(s)}]
      BY <3>1
    <3>3. longer[s] = Step(f, s)
      <4>1. longer[s] = IF Cardinality(s) <= n THEN f[s] ELSE Step(f, s)
        OBVIOUS
      <4>2. Cardinality(s) <= n => s \in Small(n)
        OBVIOUS
      <4> HIDE DEF Step, longer, Small
      <4>3. \A r \in Small(n) : f[r] = Step(f, r)
        BY <2>1
      <4> QED BY <4>1, <4>2, <4>3
    <3> HIDE DEF longer
    <3> QED BY <3>2, <3>3
  <2>3. longer = [s \in Small(n + 1) |-> longer[s]]
    OBVIOUS
  <2>4. Upto(longer, n + 1)
    BY <2>2, <2>3
  <2> HIDE DEF Upto, longer
  <2> QED BY <2>4
<1>3. PICK f : Upto(f, Cardinality(D))
  <2> HIDE DEF Upto, D
  <2>1. Cardinality(D) \in T
    <3> HIDE DEF T
    <3> QED BY <1>0, <1>1, <1>2, Induction
  <2> QED BY <2>1
<1>4. Small(Cardinality(D)) = SUBSET D
  BY <1>0
<1> DEFINE loop == CHOOSE g : g = [s \in SUBSET D |-> Step(g, s)]
<1>5. f = [s \in SUBSET D |-> Step(f, s)]
  <2>1. f = [s \in SUBSET D |-> f[s]] /\ \A s \in SUBSET D : f[s] = Step(f, s)
    BY <1>3, <1>4
  <2> HIDE DEF Step
  <2> QED BY <2>1, Zenon
<1>6. loop = [s \in SUBSET D |-> Step(loop, s)]
  <2> HIDE DEF Step
  <2> QED BY <1>5, Zenon
<1>7. FoldLeft(Observe, mem, seq) = loop[D]
  BY DEF FoldLeft, MapThenFoldSet
<1>8. \A s \in SUBSET D : loop[s] = Step(loop, s)
  <2> HIDE DEF loop, Step
  <2> QED BY <1>6, Zenon
<1> DEFINE K == {n \in Nat : \A s \in Small(n) : loop[s] \in Good}
<1>9. 0 \in K
  <2> SUFFICES ASSUME NEW s \in Small(0) PROVE loop[s] \in Good
    OBVIOUS
  <2>1. s = {} /\ s \in SUBSET D
    BY <1>0
  <2> HIDE DEF loop
  <2> QED BY <1>8, <2>1
<1>10. ASSUME NEW n \in Nat, n \in K
       PROVE  n + 1 \in K
  <2> SUFFICES ASSUME NEW s \in Small(n + 1) PROVE loop[s] \in Good
    <3> HIDE DEF loop, Small
    <3> QED OBVIOUS
  <2> DEFINE m == Max(s)
             rest == s \ {m}
  <2>1. CASE s = {}
    <3> HIDE DEF loop
    <3> QED BY <1>8, <2>1
  <2>2. CASE s # {}
    <3>1. m \in s /\ m \in D /\ rest \in Small(n)
      BY <1>0, <1>00, <2>2
    <3>2. loop[s] = Observe(loop[rest], seq[m])
      <4> HIDE DEF loop
      <4> QED BY <1>8, <2>2
    <3> HIDE DEF loop, m, rest, Small
    <3>3. loop[rest] \in Good
      BY <1>10, <3>1
    <3> QED BY <3>1, <3>2, <3>3 DEF D
  <2> QED BY <2>1, <2>2
<1>11. loop[D] \in Good
  <2> HIDE DEF loop
  <2>1. Cardinality(D) \in K
    <3> HIDE DEF K, D
    <3> QED BY <1>0, <1>9, <1>10, Induction
  <2> QED BY <1>4, <2>1
<1> QED BY <1>7, <1>11

-----------------------------------------------------------------------------
(* What is found is one of those that were looked among.                   *)

LEMMA OffsetIsNat ==
  ASSUME NEW e \in Entry, NEW x \in Int
  PROVE  Offset(e, x) \in Nat
<1>1. e.sum \in Int /\ e.n \in Nat
  BY DEF Entry
<1> DEFINE d == e.sum - e.n * x
<1>2. d \in Int
  BY <1>1
<1> HIDE DEF d
<1>3. Abs(d) \in Nat
  BY <1>2 DEF Abs
<1> QED BY <1>3 DEF Offset, d

LEMMA PositionsAreFinite ==
  ASSUME NEW S, NEW seq \in Seq(S), NEW T \in SUBSET DOMAIN seq
  PROVE  T \subseteq Nat /\ IsFiniteSet(T)
<1>1. DOMAIN seq = 1..Len(seq) /\ Len(seq) \in Nat
  OBVIOUS
<1>2. IsFiniteSet(DOMAIN seq)
  BY <1>1, FS_Interval
<1> QED BY <1>1, <1>2, FS_Subset

LEMMA LandmarkIsFound ==
  ASSUME NEW l \in Seq(Entry), \A i \in DOMAIN l : l[i].n >= 1,
         NEW S \in SUBSET DOMAIN l, S # {}, NEW x \in Int
  PROVE  FindLandmark(l, S, x) \in S
<1> DEFINE p == [i \in S |-> Offset(l[i], x)]
           q == [i \in S |-> l[i].n * l[i].n]
           Least(i) == \A j \in S \ {i} :
             \/ Offset(l[i], x) * l[j].n * l[j].n < Offset(l[j], x) * l[i].n * l[i].n
             \/ ~(Offset(l[j], x) * l[i].n * l[i].n < Offset(l[i], x) * l[j].n * l[j].n) /\ i < j
<1>1. \A i \in S : l[i] \in Entry /\ l[i].n \in Nat /\ l[i].n >= 1
  <2>1. \A i \in DOMAIN l : l[i] \in Entry
    BY ElementOfSeq
  <2> QED BY <2>1 DEF Entry
<1>2. \A i \in S : Offset(l[i], x) \in Nat
  BY <1>1, OffsetIsNat
<1>3. \A i \in S : p[i] \in Nat /\ q[i] \in Nat /\ q[i] > 0
  BY <1>1, <1>2
<1>4. S \subseteq Nat /\ IsFiniteSet(S)
  BY PositionsAreFinite
<1>5. PICK i \in S : \A j \in S \ {i} :
           \/ p[i] * q[j] < p[j] * q[i]
           \/ ~(p[j] * q[i] < p[i] * q[j]) /\ i < j
  <2> HIDE DEF p, q
  <2> QED BY <1>3, <1>4, FirstFraction
<1>6. \A j, k \in S : p[j] * q[k] = Offset(l[j], x) * l[k].n * l[k].n
  BY <1>1, <1>2
<1>7. Least(i)
  <2> HIDE DEF p, q
  <2> QED BY <1>5, <1>6
<1>8. FindLandmark(l, S, x) = CHOOSE k \in S : Least(k)
  BY DEF FindLandmark, First
<1> HIDE DEF Least
<1> QED BY <1>7, <1>8

LEMMA CandidateIsFound ==
  ASSUME NEW c \in Seq(Entry), \A i \in DOMAIN c : c[i].n >= 1,
         NEW S \in SUBSET DOMAIN c, S # {}, NEW x \in Int
  PROVE  FindCandidate(c, S, x) \in S
<1> DEFINE p == [i \in S |-> Offset(c[i], x)]
           q == [i \in S |-> c[i].n]
           Least(i) == \A j \in S \ {i} :
             \/ Offset(c[i], x) * c[j].n < Offset(c[j], x) * c[i].n
             \/ ~(Offset(c[j], x) * c[i].n < Offset(c[i], x) * c[j].n) /\ i < j
<1>1. \A i \in S : c[i] \in Entry /\ c[i].n \in Nat /\ c[i].n >= 1
  <2>1. \A i \in DOMAIN c : c[i] \in Entry
    BY ElementOfSeq
  <2> QED BY <2>1 DEF Entry
<1>2. \A i \in S : Offset(c[i], x) \in Nat
  BY <1>1, OffsetIsNat
<1>3. \A i \in S : p[i] \in Nat /\ q[i] \in Nat /\ q[i] > 0
  BY <1>1, <1>2
<1>4. S \subseteq Nat /\ IsFiniteSet(S)
  BY PositionsAreFinite
<1>5. PICK i \in S : \A j \in S \ {i} :
           \/ p[i] * q[j] < p[j] * q[i]
           \/ ~(p[j] * q[i] < p[i] * q[j]) /\ i < j
  <2> HIDE DEF p, q
  <2> QED BY <1>3, <1>4, FirstFraction
<1>6. Least(i)
  BY <1>5
<1>7. FindCandidate(c, S, x) = CHOOSE k \in S : Least(k)
  BY DEF FindCandidate, First
<1> HIDE DEF Least
<1> QED BY <1>6, <1>7

LEMMA MatchIsFound ==
  ASSUME objects \in Seq(Object), NEW label, NEW x \in Int, Matching(label, x) # {}
  PROVE  FindMatch(label, x) \in Matching(label, x)
<1> DEFINE S == Matching(label, x)
           Gap(i) == Abs(objects[i].x - x)
           p == [i \in S |-> Gap(i)]
           q == [i \in S |-> 1]
           Least(i) == \A j \in S \ {i} : \/ Gap(i) < Gap(j)
                                          \/ ~(Gap(j) < Gap(i)) /\ i < j
<1>1. S \in SUBSET DOMAIN objects
  BY DEF Matching
<1>2. \A i \in S : Gap(i) \in Nat
  <2>1. \A i \in DOMAIN objects : objects[i] \in Object
    BY ElementOfSeq
  <2>2. \A i \in DOMAIN objects : objects[i].x \in Int
    BY <2>1 DEF Object
  <2> HIDE DEF S
  <2> QED BY <1>1, <2>2 DEF Abs
<1> HIDE DEF S, Gap
<1>3. \A i \in S : p[i] \in Nat /\ q[i] \in Nat /\ q[i] > 0
  BY <1>2
<1>4. S \subseteq Nat /\ IsFiniteSet(S)
  BY <1>1, PositionsAreFinite
<1>5. PICK i \in S : \A j \in S \ {i} :
           \/ p[i] * q[j] < p[j] * q[i]
           \/ ~(p[j] * q[i] < p[i] * q[j]) /\ i < j
  <2>1. S # {}
    BY DEF S
  <2> HIDE DEF p, q
  <2> QED BY <1>3, <1>4, <2>1, FirstFraction
<1>6. Least(i)
  <2>1. \A j, k \in S : p[j] * q[k] = Gap(j)
    BY <1>2
  <2> HIDE DEF p, q
  <2> QED BY <1>5, <2>1
<1>7. FindMatch(label, x) = CHOOSE k \in S : Least(k)
  BY DEF FindMatch, First, S, Gap
<1> HIDE DEF Least
<1> QED BY <1>6, <1>7 DEF S

-----------------------------------------------------------------------------
(* What an observation does to the memory.                                 *)

Lists == [c : Seq(Entry), l : Seq(Entry)]

Memories == {mem \in Lists : /\ \A i \in DOMAIN mem.c : mem.c[i].n >= 1
                             /\ \A i \in DOMAIN mem.l : mem.l[i].n >= 1}

LEMMA UpdatedEntry ==
  ASSUME NEW e \in Entry, NEW x \in Int, NEW v \in Validations
  PROVE  /\ Updated(e, x, v) \in Entry
         /\ Updated(e, x, v).label = e.label /\ Updated(e, x, v).sum = e.sum + x
         /\ Updated(e, x, v).n = e.n + 1 /\ Updated(e, x, v).age = 0
<1>1. Stronger(e.validation, v) \in Validations
  BY DEF Stronger, Entry
<1> DEFINE sum == e.sum + x
           n == e.n + 1
           w == Stronger(e.validation, v)
           u == [e EXCEPT !.sum = sum, !.n = n, !.age = 0, !.validation = w]
<1>2. Updated(e, x, v) = u
  BY Zenon DEF Updated
<1>3. sum \in Int /\ n \in Nat
  BY DEF Entry
<1>4. u \in Entry /\ u.label = e.label /\ u.sum = sum /\ u.n = n /\ u.age = 0
  <2> HIDE DEF sum, n, w
  <2> QED BY <1>1, <1>3 DEF Entry, w
<1> HIDE DEF u
<1> QED BY <1>2, <1>4

(* Which of the entries are left after one was removed.                    *)
LEMMA RemovedEntry ==
  ASSUME NEW S, NEW c \in Seq(S), NEW i \in DOMAIN c
  PROVE  /\ RemoveAt(c, i) \in Seq(S)
         /\ \A j \in DOMAIN RemoveAt(c, i) :
              \E k \in DOMAIN c \ {i} : RemoveAt(c, i)[j] = c[k]
<1> DEFINE a == SubSeq(c, 1, i - 1)
           b == SubSeq(c, i + 1, Len(c))
<1>0. i \in 1..Len(c) /\ Len(c) \in Nat /\ DOMAIN c = 1..Len(c)
  OBVIOUS
<1>1. /\ a \in Seq(S) /\ Len(a) = i - 1
      /\ \A j \in 1..(i - 1) : a[j] = c[j]
  BY <1>0
<1>2. /\ b \in Seq(S) /\ Len(b) = Len(c) - i
      /\ \A j \in 1..(Len(c) - i) : b[j] = c[i + j]
  BY <1>0
<1>3. RemoveAt(c, i) = a \o b
  BY DEF RemoveAt
<1> HIDE DEF a, b
<1> DEFINE s == a \o b
<1>4. /\ s \in Seq(S) /\ Len(s) = Len(c) - 1
      /\ \A j \in 1..(i - 1) : s[j] = a[j]
      /\ \A j \in i..(Len(c) - 1) : s[j] = b[j - (i - 1)]
  <2>1. /\ s \in Seq(S) /\ Len(s) = Len(a) + Len(b)
        /\ \A j \in 1..(Len(a) + Len(b)) : s[j] = IF j <= Len(a) THEN a[j] ELSE b[j - Len(a)]
    BY <1>1, <1>2, ConcatProperties
  <2>2. Len(s) = Len(c) - 1
    BY <1>0, <1>1, <1>2, <2>1
  <2> HIDE DEF s
  <2> QED BY <1>0, <1>1, <1>2, <2>1, <2>2
<1>5. DOMAIN s = 1..(Len(c) - 1)
  BY <1>4
<1> HIDE DEF s
<1>6. ASSUME NEW j \in 1..(Len(c) - 1)
      PROVE  \E k \in 1..Len(c) : k # i /\ s[j] = c[k]
  <2>1. CASE j < i
    <3>1. j \in 1..(i - 1) /\ j \in 1..Len(c) /\ j # i
      BY <1>0, <2>1
    <3> QED BY <1>1, <1>4, <3>1
  <2>2. CASE j >= i
    <3>1. j \in i..(Len(c) - 1)
      BY <1>0, <2>2
    <3>2. s[j] = b[j - (i - 1)]
      BY <1>4, <3>1
    <3>3. j - (i - 1) \in 1..(Len(c) - i) /\ i + (j - (i - 1)) = j + 1
      BY <1>0, <2>2
    <3>4. b[j - (i - 1)] = c[i + (j - (i - 1))]
      BY <1>2, <3>3
    <3>5. j + 1 \in 1..Len(c) /\ j + 1 # i
      BY <1>0, <2>2
    <3> QED BY <3>2, <3>3, <3>4, <3>5
  <2> QED BY <1>0, <2>1, <2>2
<1> QED BY <1>0, <1>3, <1>4, <1>5, <1>6 DEF s

(* The four outcomes of an observation that is recorded: a landmark is     *)
(* confirmed, or a candidate that stays one, or one that is promoted, or   *)
(* there is a new candidate.                                               *)

Near(mem, label, x) == SameClassWithin(mem.l, label, x, MergeDistance)
Pending(mem, label, x) == SameClassWithin(mem.c, label, x, CandidateDistance)

LandmarkConfirmed(mem, new, label, x, v) ==
  \E i \in Near(mem, label, x) :
    /\ new.c = mem.c
    /\ new.l = [mem.l EXCEPT ![i] = Updated(mem.l[i], x, v)]

CandidateConfirmed(mem, new, label, x, v) ==
  \E i \in Pending(mem, label, x) :
    /\ ~Promotes(Updated(mem.c[i], x, v))
    /\ new.c = [mem.c EXCEPT ![i] = Updated(mem.c[i], x, v)]
    /\ new.l = mem.l

CandidatePromoted(mem, new, label, x, v) ==
  /\ Near(mem, label, x) = {}
  /\ \E i \in Pending(mem, label, x) :
       /\ new.c \in Seq(Entry)
       /\ \A j \in DOMAIN new.c : \E k \in DOMAIN mem.c : new.c[j] = mem.c[k]
       /\ new.l = Append(mem.l, Updated(mem.c[i], x, v))

CandidateMade(mem, new, label, x, v) ==
  /\ new.c = Append(mem.c, [label |-> label, sum |-> x, n |-> 1, age |-> 0,
                            validation |-> v])
  /\ new.l = mem.l

LEMMA RecordOutcomes ==
  ASSUME NEW mem \in Memories, NEW label \in Labels, NEW x \in Int, NEW v \in Validations
  PROVE  LET new == Record(mem, label, x, v)
         IN /\ new = [c |-> new.c, l |-> new.l]
            /\ \/ LandmarkConfirmed(mem, new, label, x, v)
               \/ CandidateConfirmed(mem, new, label, x, v)
               \/ CandidatePromoted(mem, new, label, x, v)
               \/ CandidateMade(mem, new, label, x, v)
<1> DEFINE near == Near(mem, label, x)
           cands == Pending(mem, label, x)
           fresh == [label |-> label, sum |-> x, n |-> 1, age |-> 0, validation |-> v]
           new == Record(mem, label, x, v)
<1>0. /\ mem.c \in Seq(Entry) /\ \A i \in DOMAIN mem.c : mem.c[i].n >= 1
      /\ mem.l \in Seq(Entry) /\ \A i \in DOMAIN mem.l : mem.l[i].n >= 1
      /\ mem = [c |-> mem.c, l |-> mem.l]
  BY DEF Memories, Lists
<1>1. near \in SUBSET DOMAIN mem.l /\ cands \in SUBSET DOMAIN mem.c
  BY DEF Near, Pending, SameClassWithin
<1>2. new = IF near # {}
            THEN [mem EXCEPT !.l[FindLandmark(mem.l, near, x)] =
                    Updated(mem.l[FindLandmark(mem.l, near, x)], x, v)]
            ELSE IF cands # {} THEN Confirm(mem, FindCandidate(mem.c, cands, x), x, v)
            ELSE [mem EXCEPT !.c = Append(mem.c, fresh)]
  BY Zenon DEF Record, Near, Pending
<1> SUFFICES /\ new = [c |-> new.c, l |-> new.l]
             /\ \/ LandmarkConfirmed(mem, new, label, x, v)
                \/ CandidateConfirmed(mem, new, label, x, v)
                \/ CandidatePromoted(mem, new, label, x, v)
                \/ CandidateMade(mem, new, label, x, v)
  OBVIOUS
<1> HIDE DEF new, near, cands
<1>3. CASE near # {}
  <2> DEFINE i == FindLandmark(mem.l, near, x)
             u == Updated(mem.l[i], x, v)
  <2>1. i \in near
    BY <1>0, <1>1, <1>3, LandmarkIsFound
  <2>2. new = [mem EXCEPT !.l[i] = u]
    BY <1>2, <1>3
  <2> HIDE DEF i
  <2>3. new = [c |-> mem.c, l |-> [mem.l EXCEPT ![i] = u]]
    <3> HIDE DEF u
    <3> QED BY <1>0, <2>2
  <2> DEFINE after == [mem.l EXCEPT ![i] = u]
  <2>4. new.c = mem.c /\ new.l = after /\ new = [c |-> new.c, l |-> new.l]
    <3>1. new = [c |-> mem.c, l |-> after]
      BY <2>3
    <3> HIDE DEF after
    <3> QED BY <3>1
  <2>5. LandmarkConfirmed(mem, new, label, x, v)
    BY <2>1, <2>4, Zenon DEF LandmarkConfirmed, near
  <2> QED BY <2>4, <2>5
<1>4. CASE near = {} /\ cands # {}
  <2> DEFINE i == FindCandidate(mem.c, cands, x)
             u == Updated(mem.c[i], x, v)
             updated == [mem EXCEPT !.c[i] = u]
             c == [mem.c EXCEPT ![i] = u]
  <2>1. i \in cands
    BY <1>0, <1>1, <1>4, CandidateIsFound
  <2>2. new = Confirm(mem, i, x, v)
    BY <1>2, <1>4
  <2> HIDE DEF i
  <2>3. i \in DOMAIN mem.c /\ mem.c[i] \in Entry
    BY <1>0, <1>1, <2>1, ElementOfSeq
  <2>4. u \in Entry
    BY <2>3, UpdatedEntry
  <2>5. new = IF Promotes(updated.c[i]) THEN Promote(updated, i) ELSE updated
    BY <2>2, Zenon DEF Confirm
  <2> HIDE DEF u
  <2>6. updated = [c |-> c, l |-> mem.l]
    BY <1>0
  <2>7. c \in Seq(Entry) /\ DOMAIN c = DOMAIN mem.c /\ c[i] = u
        /\ \A j \in DOMAIN mem.c \ {i} : c[j] = mem.c[j]
    BY <1>0, <2>3, <2>4
  <2> HIDE DEF updated, c
  <2>8. updated.c = c /\ updated.l = mem.l
    BY <2>6
  <2>9. CASE Promotes(u)
    <3>1. new = [c |-> RemoveAt(c, i), l |-> Append(mem.l, u)]
      BY <2>5, <2>7, <2>8, <2>9, Zenon DEF Promote
    <3>2. new.c = RemoveAt(c, i) /\ new.l = Append(mem.l, u) /\ new = [c |-> new.c, l |-> new.l]
      <4> DEFINE a == RemoveAt(c, i)
                 b == Append(mem.l, u)
      <4>1. new = [c |-> a, l |-> b]
        BY <3>1
      <4> HIDE DEF a, b
      <4>2. new.c = a /\ new.l = b /\ new = [c |-> new.c, l |-> new.l]
        BY <4>1
      <4> QED BY <4>2 DEF a, b
    <3>3. new.c \in Seq(Entry) /\ \A j \in DOMAIN new.c : \E k \in DOMAIN mem.c : new.c[j] = mem.c[k]
      <4>1. /\ RemoveAt(c, i) \in Seq(Entry)
            /\ \A j \in DOMAIN RemoveAt(c, i) :
                 \E k \in DOMAIN c \ {i} : RemoveAt(c, i)[j] = c[k]
        <5>1. i \in DOMAIN c
          BY <2>3, <2>7
        <5> QED BY <2>7, <5>1, RemovedEntry
      <4> QED BY <2>7, <3>2, <4>1, Zenon
    <3>4. CandidatePromoted(mem, new, label, x, v)
      BY <1>4, <2>1, <3>2, <3>3, Zenon DEF CandidatePromoted, near, cands, u
    <3> QED BY <3>2, <3>4
  <2>10. CASE ~Promotes(u)
    <3>1. new = [c |-> c, l |-> mem.l]
      BY <2>5, <2>6, <2>7, <2>8, <2>10
    <3>2. new.c = c /\ new.l = mem.l /\ new = [c |-> new.c, l |-> new.l]
      BY <3>1
    <3>3. CandidateConfirmed(mem, new, label, x, v)
      BY <2>1, <2>10, <3>2, Zenon DEF CandidateConfirmed, cands, c, u
    <3> QED BY <3>2, <3>3
  <2> QED BY <2>9, <2>10
<1>5. CASE near = {} /\ cands = {}
  <2> DEFINE c == Append(mem.c, fresh)
  <2>1. new = [mem EXCEPT !.c = c]
    BY <1>2, <1>5
  <2> HIDE DEF c
  <2>2. new.c = c /\ new.l = mem.l /\ new = [c |-> new.c, l |-> new.l]
    BY <1>0, <2>1
  <2>3. CandidateMade(mem, new, label, x, v)
    BY <2>2, Zenon DEF CandidateMade, c
  <2> QED BY <2>2, <2>3
<1> QED BY <1>3, <1>4, <1>5

-----------------------------------------------------------------------------
(* Types.                                                                  *)

(* A candidate that was seen again has not been seen often enough.         *)
Waiting(e) == /\ e.age <= CandidateTimeout
              /\ e.n = 1 \/ e.n < MinObservations[e.label]

TypedMemories == {mem \in Memories : \A i \in DOMAIN mem.c : Waiting(mem.c[i])}

(* A sequence with one element replaced, or one more.                      *)
LEMMA Replaced ==
  ASSUME NEW S, NEW seq \in Seq(S), NEW i \in DOMAIN seq, NEW u \in S
  PROVE  /\ [seq EXCEPT ![i] = u] \in Seq(S)
         /\ DOMAIN [seq EXCEPT ![i] = u] = DOMAIN seq
         /\ \A j \in DOMAIN seq : [seq EXCEPT ![i] = u][j] = IF j = i THEN u ELSE seq[j]
OBVIOUS

LEMMA Appended ==
  ASSUME NEW S, NEW seq \in Seq(S), NEW u \in S
  PROVE  /\ Append(seq, u) \in Seq(S)
         /\ \A j \in DOMAIN Append(seq, u) :
              \/ j = Len(seq) + 1 /\ Append(seq, u)[j] = u
              \/ j \in DOMAIN seq /\ Append(seq, u)[j] = seq[j]
<1>1. /\ Append(seq, u) \in Seq(S) /\ Len(Append(seq, u)) = Len(seq) + 1
      /\ Append(seq, u)[Len(seq) + 1] = u
      /\ \A j \in 1..Len(seq) : Append(seq, u)[j] = seq[j]
  BY AppendProperties
<1>2. DOMAIN Append(seq, u) = 1..(Len(seq) + 1) /\ DOMAIN seq = 1..Len(seq)
  BY <1>1
<1>3. \A j \in 1..(Len(seq) + 1) : j = Len(seq) + 1 \/ j \in 1..Len(seq)
  OBVIOUS
<1> QED BY <1>1, <1>2, <1>3, Zenon

LEMMA RecordKeepsTypes ==
  ASSUME NEW mem \in TypedMemories, NEW label \in Labels, NEW x \in Int, NEW v \in Validations
  PROVE  Record(mem, label, x, v) \in TypedMemories
<1> DEFINE new == Record(mem, label, x, v)
           fresh == [label |-> label, sum |-> x, n |-> 1, age |-> 0, validation |-> v]
<1>0. /\ mem.c \in Seq(Entry) /\ \A i \in DOMAIN mem.c : mem.c[i].n >= 1 /\ Waiting(mem.c[i])
      /\ mem.l \in Seq(Entry) /\ \A i \in DOMAIN mem.l : mem.l[i].n >= 1
      /\ mem \in Memories
  BY DEF TypedMemories, Memories, Lists
<1>1. /\ new = [c |-> new.c, l |-> new.l]
      /\ \/ LandmarkConfirmed(mem, new, label, x, v)
         \/ CandidateConfirmed(mem, new, label, x, v)
         \/ CandidatePromoted(mem, new, label, x, v)
         \/ CandidateMade(mem, new, label, x, v)
  <2> HIDE DEF new
  <2> QED BY <1>0, RecordOutcomes DEF new
<1> HIDE DEF new
<1> DEFINE GoodC(c) == c \in Seq(Entry) /\ \A i \in DOMAIN c : c[i].n >= 1 /\ Waiting(c[i])
           GoodL(l) == l \in Seq(Entry) /\ \A i \in DOMAIN l : l[i].n >= 1
<1>2. SUFFICES GoodC(new.c) /\ GoodL(new.l)
  <2>1. ASSUME NEW c, NEW l, new = [c |-> c, l |-> l], GoodC(c), GoodL(l)
        PROVE  new \in TypedMemories
    <3>1. new \in Lists /\ new.c = c /\ new.l = l
      BY <2>1 DEF Lists
    <3>2. GoodC(new.c) /\ GoodL(new.l)
      BY <2>1, <3>1
    <3>3. new \in Memories
      BY <3>1, <3>2 DEF Memories
    <3> QED BY <3>2, <3>3 DEF TypedMemories
  <2> HIDE DEF GoodC, GoodL
  <2> QED BY <1>1, <2>1 DEF new
<1>00. GoodC(mem.c) /\ GoodL(mem.l)
  BY <1>0
<1>01. \A e \in Entry : Updated(e, x, v) \in Entry /\ Updated(e, x, v).n = e.n + 1
                        /\ Updated(e, x, v).age = 0
  BY UpdatedEntry
<1>02. \A e \in Entry : e.n \in Nat
  BY DEF Entry
<1>3. CASE LandmarkConfirmed(mem, new, label, x, v)
  <2>1. PICK i \in Near(mem, label, x) :
          new.c = mem.c /\ new.l = [mem.l EXCEPT ![i] = Updated(mem.l[i], x, v)]
    BY <1>3 DEF LandmarkConfirmed
  <2> DEFINE u == Updated(mem.l[i], x, v)
             l == [mem.l EXCEPT ![i] = u]
  <2>2. i \in DOMAIN mem.l /\ mem.l[i] \in Entry
    <3>1. i \in DOMAIN mem.l
      BY DEF Near, SameClassWithin
    <3> QED BY <1>0, <3>1, ElementOfSeq
  <2>3. u \in Entry /\ u.n >= 1
    BY <1>01, <1>02, <2>2
  <2> HIDE DEF u
  <2>4. GoodL(l)
    <3>1. /\ l \in Seq(Entry) /\ DOMAIN l = DOMAIN mem.l
          /\ \A j \in DOMAIN mem.l : l[j] = IF j = i THEN u ELSE mem.l[j]
      BY <1>0, <2>2, <2>3, Replaced
    <3> HIDE DEF l
    <3> QED BY <1>0, <2>3, <3>1
  <2> QED BY <1>00, <2>1, <2>4 DEF u
<1>4. CASE CandidateConfirmed(mem, new, label, x, v)
  <2>1. PICK i \in Pending(mem, label, x) :
          /\ ~Promotes(Updated(mem.c[i], x, v))
          /\ new.c = [mem.c EXCEPT ![i] = Updated(mem.c[i], x, v)] /\ new.l = mem.l
    BY <1>4 DEF CandidateConfirmed
  <2> DEFINE u == Updated(mem.c[i], x, v)
             c == [mem.c EXCEPT ![i] = u]
  <2>2. i \in DOMAIN mem.c /\ mem.c[i] \in Entry
    <3>1. i \in DOMAIN mem.c
      BY DEF Pending, SameClassWithin
    <3> QED BY <1>0, <3>1, ElementOfSeq
  <2>3. u \in Entry /\ u.n >= 1 /\ u.age = 0 /\ ~Promotes(u)
    BY <1>01, <1>02, <2>1, <2>2
  <2> HIDE DEF u
  <2>4. Waiting(u)
    <3>1. u.n \in Nat /\ MinObservations[u.label] \in Nat /\ CandidateTimeout \in Nat
      BY <2>3, LandmarkMemoryConstants DEF Entry
    <3> QED BY <2>3, <3>1 DEF Waiting, Promotes
  <2>5. GoodC(c)
    <3>1. /\ c \in Seq(Entry) /\ DOMAIN c = DOMAIN mem.c
          /\ \A j \in DOMAIN mem.c : c[j] = IF j = i THEN u ELSE mem.c[j]
      BY <1>0, <2>2, <2>3, Replaced
    <3> HIDE DEF c
    <3> QED BY <1>0, <2>3, <2>4, <3>1
  <2> QED BY <1>00, <2>1, <2>5 DEF u
<1>5. CASE CandidatePromoted(mem, new, label, x, v)
  <2>1. PICK i \in Pending(mem, label, x) :
          /\ new.c \in Seq(Entry)
          /\ \A j \in DOMAIN new.c : \E k \in DOMAIN mem.c : new.c[j] = mem.c[k]
          /\ new.l = Append(mem.l, Updated(mem.c[i], x, v))
    BY <1>5 DEF CandidatePromoted
  <2> DEFINE u == Updated(mem.c[i], x, v)
             l == Append(mem.l, u)
  <2>2. i \in DOMAIN mem.c /\ mem.c[i] \in Entry
    <3>1. i \in DOMAIN mem.c
      BY DEF Pending, SameClassWithin
    <3> QED BY <1>0, <3>1, ElementOfSeq
  <2>3. u \in Entry /\ u.n >= 1
    BY <1>01, <1>02, <2>2
  <2> HIDE DEF u
  <2>4. GoodL(l)
    <3>1. /\ l \in Seq(Entry)
          /\ \A j \in DOMAIN l : l[j] = u \/ (j \in DOMAIN mem.l /\ l[j] = mem.l[j])
      BY <1>0, <2>3, Appended
    <3> HIDE DEF l
    <3> QED BY <1>0, <2>3, <3>1
  <2>5. GoodC(new.c)
    BY <1>0, <2>1
  <2> QED BY <2>1, <2>4, <2>5 DEF u
<1>6. CASE CandidateMade(mem, new, label, x, v)
  <2> DEFINE c == Append(mem.c, fresh)
  <2>1. new.c = c /\ new.l = mem.l
    BY <1>6 DEF CandidateMade
  <2>2. fresh \in Entry /\ fresh.n >= 1
    BY DEF Entry
  <2>3. Waiting(fresh)
    BY LandmarkMemoryConstants DEF Waiting
  <2> HIDE DEF fresh
  <2>4. GoodC(c)
    <3>1. /\ c \in Seq(Entry)
          /\ \A j \in DOMAIN c : c[j] = fresh \/ (j \in DOMAIN mem.c /\ c[j] = mem.c[j])
      BY <1>0, <2>2, Appended
    <3> HIDE DEF c
    <3> QED BY <1>0, <2>2, <2>3, <3>1
  <2> QED BY <1>00, <2>1, <2>4
<1> QED BY <1>1, <1>3, <1>4, <1>5, <1>6

(* Where an observation of the registry is placed.                         *)
LEMMA Placed ==
  ASSUME map \in Maps \cup {None}, NEW label \in Labels, NEW x \in Int
  PROVE  /\ Validation(label, x) \in Validations
         /\ Validation(label, x) = 3 => /\ map \in Maps /\ x \in map.cells
                                        /\ map.found[<<label, x>>] # None
                                        /\ map.found[<<label, x>>] \in Int
         /\ Refined(label, x) \in Int
<1>1. Validation(label, x) \in Validations
  BY DEF Validation, Validations
<1>2. ASSUME Validation(label, x) = 3
      PROVE  /\ map \in Maps /\ x \in map.cells /\ map.found[<<label, x>>] # None
             /\ map.found[<<label, x>>] \in Int
  <2>1. map # None /\ x \in map.cells /\ map.found[<<label, x>>] # None
    BY <1>2 DEF Validation
  <2>2. map \in Maps /\ map.found \in [Labels \X map.cells -> Int \cup {None}]
    BY <2>1, LandmarkMemoryConstants
  <2>3. map.found[<<label, x>>] \in Int \cup {None}
    BY <2>1, <2>2
  <2> QED BY <2>1, <2>2, <2>3
<1>3. Refined(label, x) \in Int
  BY <1>2 DEF Refined
<1> QED BY <1>1, <1>2, <1>3

LEMMA ObserveKeepsTypes ==
  ASSUME map \in Maps \cup {None}, robot \in RobotPlaces,
         NEW mem \in TypedMemories, NEW o \in Object
  PROVE  Observe(mem, o) \in TypedMemories
<1> DEFINE x == robot + o.x
           p == Refined(o.label, x)
           v == Validation(o.label, x)
<1>1. o.label \in Labels /\ x \in Int
  BY LandmarkMemoryConstants DEF Object
<1> HIDE DEF x
<1>2. p \in Int /\ v \in Validations
  BY <1>1, Placed
<1>3. Observe(mem, o) \in {mem, Record(mem, o.label, p, v)}
  BY DEF Observe, x
<1> HIDE DEF p, v
<1>4. Record(mem, o.label, p, v) \in TypedMemories
  BY <1>1, <1>2, RecordKeepsTypes
<1> QED BY <1>3, <1>4

-----------------------------------------------------------------------------
(* The invariant: types, the memory among them, and ids below the counter  *)
(* of their label.                                                         *)

Mem == [c |-> candidates, l |-> landmarks]

IdsBelow == \A i \in DOMAIN objects : objects[i].id < nextId[objects[i].label]

TypeInv == /\ MemoryTypeOK
           /\ robot \in RobotPlaces /\ map \in Maps \cup {None}
           /\ published = None \/ published \in Seq(Object)
           /\ Mem \in TypedMemories

IInv == TypeInv /\ IdsBelow

LEMMA MemIsTyped ==
  ASSUME NEW c, NEW l
  PROVE  [c |-> c, l |-> l] \in TypedMemories <=>
           /\ c \in Seq(Entry) /\ \A i \in DOMAIN c : c[i].n >= 1 /\ Waiting(c[i])
           /\ l \in Seq(Entry) /\ \A i \in DOMAIN l : l[i].n >= 1
<1> DEFINE m == [c |-> c, l |-> l]
<1>1. m.c = c /\ m.l = l
  OBVIOUS
<1>2. m \in Lists <=> c \in Seq(Entry) /\ l \in Seq(Entry)
  <2>1. m \in Lists => m.c \in Seq(Entry) /\ m.l \in Seq(Entry)
    <3> HIDE DEF m
    <3> QED BY DEF Lists
  <2>2. c \in Seq(Entry) /\ l \in Seq(Entry) => m \in Lists
    BY DEF Lists
  <2> QED BY <1>1, <2>1, <2>2
<1> HIDE DEF m
<1> QED BY <1>1, <1>2 DEF TypedMemories, Memories, m

LEMMA TypeInvTypes == TypeInv => TypeOK
<1> SUFFICES ASSUME TypeInv PROVE TypeOK
  OBVIOUS
<1>1. /\ candidates \in Seq(Entry) /\ landmarks \in Seq(Entry)
      /\ \A i \in DOMAIN candidates : Waiting(candidates[i])
  BY MemIsTyped DEF TypeInv, Mem
<1> QED BY <1>1 DEF TypeInv, TypeOK, Waiting

(* Detections.                                                             *)
LEMMA DetectKeeps ==
  ASSUME IInv, NEW l \in Labels, NEW x \in Sightings, NEW lag \in 0..MaxLag, Detect(l, x, lag)
  PROVE  /\ MemoryTypeOK' /\ IdsBelow'
         /\ \A i \in DOMAIN objects' :
              LET o == objects'[i]
              IN \/ o.id >= nextId[o.label]
                 \/ \E j \in DOMAIN objects : objects[j].label = o.label /\ objects[j].id = o.id
<1>0. /\ objects \in Seq(Object) /\ nextId \in [Labels -> Nat]
      /\ \A i \in DOMAIN objects : objects[i] \in Object
  <2>1. objects \in Seq(Object) /\ nextId \in [Labels -> Nat]
    BY DEF IInv, TypeInv, MemoryTypeOK
  <2> QED BY <2>1, ElementOfSeq
<1>00. x \in Int /\ lag \in Nat
  BY SemanticMemoryConstants
<1>1. CASE Matching(l, x) # {}
  <2> DEFINE i == FindMatch(l, x)
  <2>1. i \in DOMAIN objects
    <3>1. i \in Matching(l, x)
      BY <1>0, <1>00, <1>1, MatchIsFound
    <3> QED BY <3>1 DEF Matching
  <2>2. UpdateExisting(i, x, lag)
    BY <1>1 DEF Detect, Observation
  <2> HIDE DEF i
  <2>3. PICK smoothed \in Between(objects[i].x, x) :
          objects' = [objects EXCEPT ![i].x = smoothed, ![i].age = lag, ![i].active = TRUE]
    BY <2>2 DEF UpdateExisting
  <2>4. smoothed \in Int
    BY <1>0, <1>00, <2>1 DEF Between, Object
  <2> DEFINE u == [objects[i] EXCEPT !.x = smoothed, !.age = lag, !.active = TRUE]
  <2>5. u \in Object /\ u.label = objects[i].label /\ u.id = objects[i].id
    <3>1. objects[i] \in Object
      BY <1>0, <2>1
    <3> QED BY <1>00, <2>4, <3>1 DEF Object
  <2>6. objects' = [objects EXCEPT ![i] = u]
    BY <1>0, <2>1, <2>3
  <2> HIDE DEF u
  <2>7. /\ objects' \in Seq(Object) /\ DOMAIN objects' = DOMAIN objects
        /\ \A j \in DOMAIN objects : objects'[j] = IF j = i THEN u ELSE objects[j]
    BY <1>0, <2>1, <2>5, <2>6, Replaced
  <2>8. \A j \in DOMAIN objects : /\ objects'[j].label = objects[j].label
                                  /\ objects'[j].id = objects[j].id
    BY <2>5, <2>7
  <2>9. nextId' = nextId
    BY <2>2 DEF UpdateExisting
  <2> QED BY <1>0, <2>7, <2>8, <2>9 DEF MemoryTypeOK, IdsBelow, IInv
<1>2. CASE Matching(l, x) = {}
  <2>1. CreateNew(l, x, lag)
    BY <1>2 DEF Detect, Observation
  <2> DEFINE k == nextId[l]
             o == [label |-> l, id |-> k, x |-> x, age |-> lag, active |-> TRUE]
  <2>2. objects' = Append(objects, o) /\ nextId' = [nextId EXCEPT ![l] = k + 1]
    BY <2>1 DEF CreateNew, NewId
  <2>3. k \in Nat
    BY <1>0
  <2>4. o \in Object /\ o.label = l /\ o.id = k
    <3> HIDE DEF k
    <3> QED BY <1>00, <2>3 DEF Object
  <2> HIDE DEF o
  <2>5. /\ objects' \in Seq(Object)
        /\ \A j \in DOMAIN objects' :
             \/ objects'[j] = o
             \/ j \in DOMAIN objects /\ objects'[j] = objects[j]
    BY <1>0, <2>2, <2>4, Appended
  <2>6. nextId' \in [Labels -> Nat] /\ nextId'[l] = k + 1
        /\ \A m \in Labels : nextId[m] <= nextId'[m]
    BY <1>0, <2>2, <2>3
  <2>7. \A j \in DOMAIN objects : objects[j].label \in Labels /\ objects[j].id \in Nat
    BY <1>0 DEF Object
  <2>8. IdsBelow'
    <3> SUFFICES ASSUME NEW j \in DOMAIN objects'
                 PROVE  objects'[j].id < nextId'[objects'[j].label]
      BY DEF IdsBelow
    <3>1. CASE objects'[j] = o
      BY <2>3, <2>4, <2>6, <3>1
    <3>2. CASE j \in DOMAIN objects /\ objects'[j] = objects[j]
      <4>1. objects[j].id < nextId[objects[j].label]
        BY <3>2 DEF IInv, IdsBelow
      <4>2. nextId[objects[j].label] \in Nat /\ nextId'[objects[j].label] \in Nat
        BY <1>0, <2>6, <2>7, <3>2
      <4> QED BY <2>6, <2>7, <3>2, <4>1, <4>2
    <3> QED BY <2>5, <3>1, <3>2
  <2>9. ASSUME NEW j \in DOMAIN objects'
        PROVE  \/ objects'[j].id >= nextId[objects'[j].label]
               \/ \E m \in DOMAIN objects : /\ objects[m].label = objects'[j].label
                                            /\ objects[m].id = objects'[j].id
    <3>1. CASE objects'[j] = o
      <4>1. objects'[j].id = nextId[objects'[j].label]
        BY <2>4, <3>1
      <4> QED BY <2>3, <2>4, <3>1, <4>1
    <3>2. CASE j \in DOMAIN objects /\ objects'[j] = objects[j]
      BY <3>2
    <3> QED BY <2>5, <3>1, <3>2
  <2> QED BY <2>5, <2>6, <2>8, <2>9 DEF MemoryTypeOK
<1> QED BY <1>1, <1>2

(* The registry's timer.                                                   *)
LEMMA PublishKeeps ==
  ASSUME IInv, Publish
  PROVE  /\ TypeInv' /\ IdsBelow'
         /\ \A i \in DOMAIN objects' : \E j \in DOMAIN objects :
              objects[j].label = objects'[i].label /\ objects[j].id = objects'[i].id
<1>0. /\ objects \in Seq(Object) /\ nextId \in [Labels -> Nat]
      /\ \A i \in DOMAIN objects : objects[i] \in Object
  <2>1. objects \in Seq(Object) /\ nextId \in [Labels -> Nat]
    BY DEF IInv, TypeInv, MemoryTypeOK
  <2> QED BY <2>1, ElementOfSeq
<1> DEFINE aged == [i \in DOMAIN objects |-> AgedObject(objects[i])]
           left == {i \in DOMAIN aged : aged[i].age <= RemoveTimeout}
           olds == [i \in DOMAIN candidates |-> Older(candidates[i])]
<1>1. ASSUME NEW o \in Object
      PROVE  AgedObject(o) \in Object /\ AgedObject(o).label = o.label /\ AgedObject(o).id = o.id
  <2> DEFINE a == o.age + 1
             b == o.active /\ o.age + 1 <= StaleTimeout
  <2>1. a \in Nat /\ b \in BOOLEAN
    BY DEF Object
  <2>2. AgedObject(o) = [o EXCEPT !.age = a, !.active = b]
    BY Zenon DEF AgedObject
  <2> HIDE DEF a, b
  <2> QED BY <2>1, <2>2 DEF Object
<1>2. /\ aged \in Seq(Object) /\ DOMAIN aged = DOMAIN objects
      /\ \A i \in DOMAIN objects : aged[i].label = objects[i].label /\ aged[i].id = objects[i].id
  <2>1. \A i \in DOMAIN objects : AgedObject(objects[i]) \in Object
    BY <1>0, <1>1
  <2>2. DOMAIN objects = 1..Len(objects) /\ Len(objects) \in Nat
    BY <1>0
  <2>3. aged \in Seq(Object)
    BY <2>1, <2>2
  <2> QED BY <1>0, <1>1, <2>3
<1>3. objects' = At(aged, left) /\ nextId' = nextId
  BY DEF Publish, Age, Aged
<1> HIDE DEF aged, left
<1>4. /\ objects' \in Seq(Object)
      /\ \A i \in DOMAIN objects' : \E j \in DOMAIN aged \cap left : objects'[i] = aged[j]
  BY <1>2, <1>3, AtKeeps
<1>5. \A i \in DOMAIN objects' : \E j \in DOMAIN objects :
        objects[j].label = objects'[i].label /\ objects[j].id = objects'[i].id
  BY <1>2, <1>4
<1>6. IdsBelow'
  <2> SUFFICES ASSUME NEW i \in DOMAIN objects'
               PROVE  objects'[i].id < nextId'[objects'[i].label]
    BY DEF IdsBelow
  <2>1. PICK j \in DOMAIN objects :
          objects[j].label = objects'[i].label /\ objects[j].id = objects'[i].id
    BY <1>5
  <2>2. objects[j].id < nextId[objects[j].label]
    BY DEF IInv, IdsBelow
  <2> QED BY <1>3, <2>1, <2>2
<1>7. published' \in Seq(Object)
  <2> DEFINE active == {i \in DOMAIN objects' : objects'[i].active}
  <2>1. published' = At(objects', active)
    BY DEF Publish, ActiveObjects
  <2> HIDE DEF active
  <2> QED BY <1>4, <2>1, AtKeeps
<1>8. Mem' \in TypedMemories
  <2>1. /\ candidates \in Seq(Entry) /\ landmarks \in Seq(Entry)
        /\ \A i \in DOMAIN candidates : candidates[i].n >= 1 /\ Waiting(candidates[i])
        /\ \A i \in DOMAIN landmarks : landmarks[i].n >= 1
    BY MemIsTyped DEF IInv, TypeInv, Mem
  <2>2. ASSUME NEW e \in Entry, e.n >= 1, Waiting(e)
        PROVE  Older(e) \in Entry /\ Older(e).n >= 1 /\ Waiting(Older(e))
    <3> DEFINE a == IF e.age < CandidateTimeout THEN e.age + 1 ELSE e.age
    <3>1. a \in Nat /\ a <= CandidateTimeout
      BY <2>2, LandmarkMemoryConstants DEF Entry, Waiting
    <3>2. Older(e) = [e EXCEPT !.age = a]
      BY Zenon DEF Older
    <3> HIDE DEF a
    <3>3. /\ Older(e) \in Entry /\ Older(e).label = e.label /\ Older(e).n = e.n
          /\ Older(e).age = a
      BY <3>1, <3>2 DEF Entry
    <3> QED BY <2>2, <3>1, <3>3 DEF Waiting
  <2>3. /\ olds \in Seq(Entry)
        /\ \A i \in DOMAIN olds : olds[i].n >= 1 /\ Waiting(olds[i])
    <3>1. \A i \in DOMAIN candidates : candidates[i] \in Entry
      BY <2>1, ElementOfSeq
    <3>2. \A i \in DOMAIN candidates : /\ Older(candidates[i]) \in Entry
                                       /\ Older(candidates[i]).n >= 1
                                       /\ Waiting(Older(candidates[i]))
      BY <2>1, <2>2, <3>1
    <3>3. DOMAIN candidates = 1..Len(candidates) /\ Len(candidates) \in Nat
      BY <2>1
    <3> QED BY <3>2, <3>3
  <2>4. candidates' = olds /\ landmarks' = landmarks
    BY DEF Publish
  <2> HIDE DEF olds
  <2> QED BY <2>1, <2>3, <2>4, MemIsTyped DEF Mem
<1>9. robot' = robot /\ map' = map
  BY DEF Publish
<1> QED BY <1>0, <1>3, <1>4, <1>5, <1>6, <1>7, <1>8, <1>9 DEF TypeInv, MemoryTypeOK, IInv

(* A message of the registry: what it changes, and what it preserves.      *)
LEMMA MessageIsFolded ==
  ASSUME TypeInv, ObjectsReceived, NEW Good, Mem \in Good,
         \A g \in Good, o \in Object : Observe(g, o) \in Good
  PROVE  \E mem \in Good : candidates' = mem.c /\ landmarks' = mem.l
<1>1. CASE map = None /\ ~AllowLidarOnly
  <2>1. candidates' = candidates /\ landmarks' = landmarks
    BY <1>1 DEF ObjectsReceived
  <2>2. candidates' = Mem.c /\ landmarks' = Mem.l
    BY <2>1 DEF Mem
  <2> QED BY <2>2
<1>2. CASE ~(map = None /\ ~AllowLidarOnly)
  <2>0. PICK located \in SUBSET DOMAIN published :
          LET mem == FoldLeft(Observe, Mem, At(published, located))
          IN candidates' = mem.c /\ landmarks' = mem.l
    BY <1>2, Zenon DEF ObjectsReceived, Mem
  <2> DEFINE placed == At(published, located)
             mem == FoldLeft(Observe, Mem, placed)
  <2>1. candidates' = mem.c /\ landmarks' = mem.l
    BY <2>0
  <2>2. placed \in Seq(Object)
    <3>1. published \in Seq(Object)
      BY DEF TypeInv, ObjectsReceived
    <3> QED BY <3>1, AtKeeps
  <2> HIDE DEF placed
  <2>3. \A i \in DOMAIN placed : placed[i] \in Object
    BY <2>2, ElementOfSeq
  <2>4. mem \in Good
    BY <2>2, <2>3, FoldKeeps
  <2> HIDE DEF mem
  <2> QED BY <2>1, <2>4
<1> QED BY <1>1, <1>2

LEMMA StepKeeps ==
  ASSUME IInv, [Next]_vars
  PROVE  /\ IInv'
         /\ \A i \in DOMAIN objects' :
              LET o == objects'[i]
              IN \/ o.id >= nextId[o.label]
                 \/ \E j \in DOMAIN objects : objects[j].label = o.label /\ objects[j].id = o.id
<1> DEFINE Known == \A i \in DOMAIN objects' :
                      LET o == objects'[i]
                      IN \/ o.id >= nextId[o.label]
                         \/ \E j \in DOMAIN objects :
                              objects[j].label = o.label /\ objects[j].id = o.id
<1>1. ASSUME UNCHANGED memoryVars
      PROVE  MemoryTypeOK' /\ IdsBelow' /\ Known
  BY <1>1 DEF memoryVars, IInv, TypeInv, MemoryTypeOK, IdsBelow
<1> SUFFICES IInv' /\ Known
  OBVIOUS
<1> HIDE DEF Known
<1>2. ASSUME NEW l \in Labels, NEW x \in Sightings, NEW lag \in 0..MaxLag, Detect(l, x, lag)
      PROVE  IInv' /\ Known
  <2>1. MemoryTypeOK' /\ IdsBelow' /\ Known
    BY <1>2, DetectKeeps DEF Known
  <2>2. UNCHANGED <<robot, map, published, candidates, landmarks>>
    BY <1>2 DEF Detect
  <2> QED BY <2>1, <2>2 DEF IInv, TypeInv, Mem
<1>3. CASE Publish
  BY <1>3, PublishKeeps DEF IInv, Known
<1>4. CASE ObjectsReceived
  <2>1. \A g \in TypedMemories, o \in Object : Observe(g, o) \in TypedMemories
    BY ObserveKeepsTypes DEF IInv, TypeInv
  <2>2. PICK mem \in TypedMemories : candidates' = mem.c /\ landmarks' = mem.l
    BY <1>4, <2>1, MessageIsFolded DEF IInv, TypeInv
  <2>3. mem = [c |-> mem.c, l |-> mem.l]
    BY DEF TypedMemories, Memories, Lists
  <2>4. Mem' \in TypedMemories
    BY <2>2, <2>3 DEF Mem
  <2>5. UNCHANGED memoryVars /\ UNCHANGED <<robot, map>> /\ published' = None
    BY <1>4 DEF ObjectsReceived
  <2> QED BY <1>1, <2>4, <2>5 DEF IInv, TypeInv, Known
<1>5. ASSUME NEW m \in Maps, MapReceived(m)
      PROVE  IInv' /\ Known
  <2>1. UNCHANGED memoryVars /\ UNCHANGED <<robot, published, candidates, landmarks>> /\ map' = m
    BY <1>5 DEF MapReceived
  <2> QED BY <1>1, <2>1 DEF IInv, TypeInv, Mem
<1>6. CASE CleanupCandidates
  <2> DEFINE kept == {i \in DOMAIN candidates : candidates[i].age < CandidateTimeout}
  <2>1. candidates' = At(candidates, kept) /\ landmarks' = landmarks
    BY <1>6 DEF CleanupCandidates
  <2>2. UNCHANGED memoryVars /\ UNCHANGED <<robot, map, published>>
    BY <1>6 DEF CleanupCandidates
  <2> HIDE DEF kept
  <2>3. /\ candidates \in Seq(Entry) /\ landmarks \in Seq(Entry)
        /\ \A i \in DOMAIN candidates : candidates[i].n >= 1 /\ Waiting(candidates[i])
        /\ \A i \in DOMAIN landmarks : landmarks[i].n >= 1
    BY MemIsTyped DEF IInv, TypeInv, Mem
  <2>4. /\ candidates' \in Seq(Entry)
        /\ \A i \in DOMAIN candidates' : \E j \in DOMAIN candidates \cap kept :
             candidates'[i] = candidates[j]
    BY <2>1, <2>3, AtKeeps
  <2>5. Mem' \in TypedMemories
    BY <2>1, <2>3, <2>4, MemIsTyped DEF Mem
  <2> QED BY <1>1, <2>2, <2>5 DEF IInv, TypeInv
<1>7. ASSUME NEW p \in RobotPlaces, Move(p)
      PROVE  IInv' /\ Known
  <2>1. UNCHANGED memoryVars /\ UNCHANGED <<map, published, candidates, landmarks>> /\ robot' = p
    BY <1>7 DEF Move
  <2> QED BY <1>1, <2>1 DEF IInv, TypeInv, Mem
<1>8. CASE UNCHANGED vars
  <2>1. UNCHANGED memoryVars /\ UNCHANGED <<robot, map, published, candidates, landmarks>>
    BY <1>8 DEF vars
  <2> QED BY <1>1, <2>1 DEF IInv, TypeInv, Mem
<1> QED BY <1>2, <1>3, <1>4, <1>5, <1>6, <1>7, <1>8 DEF Next

LEMMA InitHolds == Init => IInv
<1> SUFFICES ASSUME Init PROVE IInv
  OBVIOUS
<1>1. MemoryTypeOK /\ IdsBelow
  BY DEF Init, MemoryInit, MemoryTypeOK, IdsBelow
<1>2. Mem \in TypedMemories
  <2>1. candidates = <<>> /\ landmarks = <<>> /\ <<>> \in Seq(Entry)
    BY DEF Init
  <2>2. DOMAIN candidates = {} /\ DOMAIN landmarks = {}
    BY <2>1
  <2> QED BY <2>1, <2>2, MemIsTyped DEF Mem
<1> QED BY <1>1, <1>2 DEF Init, IInv, TypeInv

(* Registry, candidates and landmarks keep their types: a candidate that   *)
(* was seen again waits for observations that it has not got, and none     *)
(* outlives its timeout unnoticed.                                         *)
THEOREM LandmarksAreTyped == Spec => []TypeOK
<1>1. IInv /\ [Next]_vars => IInv'
  BY StepKeeps
<1>2. IInv => TypeOK
  BY TypeInvTypes DEF IInv
<1> QED BY InitHolds, <1>1, <1>2, PTL DEF Spec

(* For all labels, distances and timeouts: no id is given twice.           *)
(* (MemoryCore._create_new)                                                *)
THEOREM IdsAreNeverReused == Spec => IdsAreNotReused
<1> DEFINE Fresh == \A i \in DOMAIN objects' :
                      LET o == objects'[i]
                      IN /\ o.id < nextId'[o.label]
                         /\ \/ o.id >= nextId[o.label]
                            \/ \E j \in DOMAIN objects :
                                 objects[j].label = o.label /\ objects[j].id = o.id
<1>1. IInv /\ [Next]_vars => IInv'
  BY StepKeeps
<1>2. IInv /\ [Next]_vars => [Fresh]_vars
  <2> SUFFICES ASSUME IInv, [Next]_vars PROVE Fresh
    OBVIOUS
  <2>1. IdsBelow'
    BY StepKeeps DEF IInv
  <2> QED BY <2>1, StepKeeps DEF IdsBelow
<1> QED BY InitHolds, <1>1, <1>2, PTL DEF Spec, IdsAreNotReused

-----------------------------------------------------------------------------
(* Landmarks lie apart when the places of the maps' obstacles form islands *)
(* that do: a mean then drifts no farther than its island reaches, what is *)
(* near it is on the island, and the cross-class check sees every landmark *)
(* that is already there.                                                  *)

Distances == {MergeDistance, CandidateDistance, MutexDistance}

(* The mean of e lies between two places of the island of p.               *)
InIsland(e, p) ==
  /\ p \in Obstacles
  /\ \E lo, hi \in Obstacles : /\ Same(p, lo) /\ Same(p, hi)
                               /\ e.n * lo <= e.sum /\ e.sum <= e.n * hi

OnLand(e) == \E p \in Obstacles : InIsland(e, p)

Rivals(a, b) ==
  \/ a.label = b.label
  \/ a.label # b.label /\ {a.label, b.label} \subseteq Exclusive

(* Rivals on one island.                                                   *)
Conflict(a, b) == Rivals(a, b) /\ \E p \in Obstacles : InIsland(a, p) /\ InIsland(b, p)

TooClose(a, b) ==
  \/ a.label = b.label /\ Closer(a, b, MergeDistance)
  \/ /\ a.label # b.label /\ {a.label, b.label} \subseteq Exclusive
     /\ Closer(a, b, MutexDistance)

Settled == {mem \in Memories :
  /\ \A i \in DOMAIN mem.c : OnLand(mem.c[i])
  /\ \A i \in DOMAIN mem.l : OnLand(mem.l[i])
  /\ \A i, j \in DOMAIN mem.l : i # j => ~Conflict(mem.l[i], mem.l[j])}

LEMMA FoundAreObstacles ==
  \A m \in Maps : \A q \in Labels \X m.cells : m.found[q] # None => m.found[q] \in Obstacles
<1> SUFFICES ASSUME NEW m \in Maps, NEW q \in Labels \X m.cells, m.found[q] # None
             PROVE  m.found[q] \in Obstacles
  OBVIOUS
<1>1. m.found[q] \in FoundOn(m)
  BY DEF FoundOn
<1>2. FoundOn(m) \in {FoundOn(w) : w \in Maps}
  OBVIOUS
<1>3. ASSUME NEW T, FoundOn(m) \in T PROVE m.found[q] \in UNION T
  BY <1>1, <1>3
<1>4. m.found[q] \in UNION {FoundOn(w) : w \in Maps}
  BY <1>2, <1>3
<1> QED BY <1>4 DEF Obstacles

LEMMA ObstaclesAreInts == Obstacles \subseteq Int
<1> SUFFICES ASSUME NEW p \in Obstacles PROVE p \in Int
  OBVIOUS
<1>1. PICK m \in Maps : p \in FoundOn(m)
  BY DEF Obstacles
<1>2. PICK q \in Labels \X m.cells : p = m.found[q]
  BY <1>1 DEF FoundOn
<1>3. m.found \in [Labels \X m.cells -> Int \cup {None}]
  BY LandmarkMemoryConstants
<1>4. p \in Int \cup {None}
  BY <1>2, <1>3
<1> QED BY <1>4 DEF Obstacles

LEMMA SameIsland ==
  ASSUME IslandsLieApart, NEW p \in Obstacles, NEW q \in Obstacles
  PROVE  /\ Same(p, p) /\ (Same(p, q) <=> Same(q, p))
         /\ \A r \in Obstacles : Same(p, q) /\ Same(q, r) => Same(p, r)
         /\ \A d \in Distances : d \in Nat /\ d > 0 /\ (Same(p, q) <=> Abs(p - q) < d)
<1>1. p \in Int /\ q \in Int /\ Distances \subseteq Nat /\ MergeDistance > 0
  BY ObstaclesAreInts, LandmarkMemoryConstants DEF Distances, IslandsLieApart
<1>2. Abs(p - p) = 0 /\ Abs(p - q) = Abs(q - p)
  BY <1>1 DEF Abs
<1>3. \A d \in Distances : Same(p, q) <=> Abs(p - q) < d
  BY DEF IslandsLieApart, Distances, Same
<1>4. Same(p, p) /\ \A d \in Distances : Abs(p - p) < d
  <2>1. Same(p, p)
    BY <1>1, <1>2 DEF Same
  <2> QED BY <2>1 DEF IslandsLieApart, Distances, Same
<1>5. Same(p, q) <=> Same(q, p)
  BY <1>2 DEF Same
<1>6. \A r \in Obstacles : Same(p, q) /\ Same(q, r) => Same(p, r)
  BY DEF IslandsLieApart
<1> QED BY <1>1, <1>2, <1>3, <1>4, <1>5, <1>6

(* A place off an island lies to one side of all of it.                    *)
LEMMA IslandHasSides ==
  ASSUME IslandsLieApart, NEW p \in Obstacles, NEW x \in Obstacles, ~Same(p, x),
         NEW lo \in Obstacles, NEW hi \in Obstacles, Same(p, lo), Same(p, hi),
         NEW d \in Distances
  PROVE  \/ lo + d <= x /\ hi + d <= x
         \/ x + d <= lo /\ x + d <= hi
<1>1. ~Same(lo, x) /\ ~Same(hi, x) /\ Same(lo, hi)
  BY SameIsland
<1>2. Abs(lo - x) >= d /\ Abs(hi - x) >= d /\ Abs(lo - hi) < d /\ d \in Nat
  <2>1. Abs(lo - x) \in Int /\ Abs(hi - x) \in Int
    BY ObstaclesAreInts DEF Abs
  <2> QED BY <1>1, <2>1, SameIsland
<1> QED BY <1>2, ObstaclesAreInts DEF Abs

(* How far a mean between lo and hi is from x.                             *)
LEMMA MeanFromPlace ==
  ASSUME NEW n \in Nat, n >= 1, NEW s \in Int, NEW lo \in Int, NEW hi \in Int,
         n * lo <= s, s <= n * hi, NEW x \in Int, NEW d \in Nat
  PROVE  /\ Abs(lo - x) < d /\ Abs(hi - x) < d => Abs(s - n * x) < d * n
         /\ hi + d <= x \/ x + d <= lo => ~(Abs(s - n * x) < d * n)
<1> DEFINE nx == n * x
           nd == d * n
           nlo == n * lo
           nhi == n * hi
<1>1. nx \in Int /\ nd \in Int /\ nlo \in Int /\ nhi \in Int
  OBVIOUS
<1>2. nlo <= s /\ s <= nhi
  OBVIOUS
<1>3. ASSUME Abs(lo - x) < d, Abs(hi - x) < d PROVE nx - nd < nlo /\ nhi < nx + nd
  <2>1. x - d < lo /\ hi < x + d
    BY <1>3 DEF Abs
  <2>2. (x - d) * n < lo * n /\ hi * n < (x + d) * n
    BY <2>1, Scaling
  <2>3. (x - d) * n = nx - nd /\ (x + d) * n = nx + nd /\ lo * n = nlo /\ hi * n = nhi
    OBVIOUS
  <2> QED BY <2>2, <2>3
<1>4. ASSUME hi + d <= x PROVE nhi + nd <= nx
  <2>1. (hi + d) * n <= x * n
    BY <1>4, Scaling
  <2>2. (hi + d) * n = nhi + nd /\ x * n = nx
    OBVIOUS
  <2> QED BY <2>1, <2>2
<1>5. ASSUME x + d <= lo PROVE nx + nd <= nlo
  <2>1. (x + d) * n <= lo * n
    BY <1>5, Scaling
  <2>2. (x + d) * n = nx + nd /\ lo * n = nlo
    OBVIOUS
  <2> QED BY <2>1, <2>2
<1> SUFFICES /\ Abs(lo - x) < d /\ Abs(hi - x) < d => Abs(s - nx) < nd
             /\ hi + d <= x \/ x + d <= lo => ~(Abs(s - nx) < nd)
  OBVIOUS
<1> HIDE DEF nx, nd, nlo, nhi
<1> QED BY <1>1, <1>2, <1>3, <1>4, <1>5 DEF Abs

(* What is near a mean is what is on its island, by any of the distances.  *)
LEMMA NearIsOnIsland ==
  ASSUME IslandsLieApart, NEW e \in Entry, e.n >= 1, NEW p \in Obstacles, InIsland(e, p),
         NEW x \in Obstacles, NEW d \in Distances
  PROVE  Within(e, x, d) <=> Same(p, x)
<1>1. e.n \in Nat /\ e.sum \in Int /\ d \in Nat /\ x \in Int
  BY ObstaclesAreInts, SameIsland DEF Entry
<1>2. PICK lo, hi \in Obstacles : /\ Same(p, lo) /\ Same(p, hi)
                                  /\ e.n * lo <= e.sum /\ e.sum <= e.n * hi
  BY DEF InIsland
<1>3. lo \in Int /\ hi \in Int
  BY ObstaclesAreInts
<1>4. CASE Same(p, x)
  <2>1. Same(lo, x) /\ Same(hi, x)
    BY <1>2, <1>4, SameIsland
  <2>2. Abs(lo - x) < d /\ Abs(hi - x) < d
    BY <2>1, SameIsland
  <2> QED BY <1>1, <1>2, <1>3, <1>4, <2>2, MeanFromPlace DEF Within, Offset
<1>5. CASE ~Same(p, x)
  <2>1. hi + d <= x \/ x + d <= lo
    BY <1>2, <1>5, IslandHasSides
  <2> QED BY <1>1, <1>2, <1>3, <1>5, <2>1, MeanFromPlace DEF Within, Offset
<1> QED BY <1>4, <1>5

(* An entry is on one island, whichever of its places names it.            *)
LEMMA IslandIsOne ==
  ASSUME IslandsLieApart, NEW e \in Entry, e.n >= 1, NEW p \in Obstacles, InIsland(e, p),
         NEW q \in Obstacles
  PROVE  InIsland(e, q) <=> Same(p, q)
<1>1. CASE Same(p, q)
  <2>1. \A r \in Obstacles : Same(p, r) => Same(q, r)
    BY <1>1, SameIsland
  <2> QED BY <1>1, <2>1 DEF InIsland
<1>2. ASSUME InIsland(e, q) PROVE Same(p, q)
  <2>1. Within(e, q, MergeDistance)
    BY <1>2, NearIsOnIsland, SameIsland DEF Distances
  <2> QED BY <2>1, NearIsOnIsland DEF Distances
<1> QED BY <1>1, <1>2

(* One more observation on the island of an entry leaves it there.         *)
LEMMA StaysOnIsland ==
  ASSUME IslandsLieApart, NEW e \in Entry, e.n >= 1, NEW x \in Obstacles, InIsland(e, x),
         NEW v \in Validations
  PROVE  InIsland(Updated(e, x, v), x)
<1>1. Updated(e, x, v).sum = e.sum + x /\ Updated(e, x, v).n = e.n + 1
  BY ObstaclesAreInts, UpdatedEntry
<1>2. e.n \in Nat /\ e.sum \in Int /\ x \in Int
  BY ObstaclesAreInts DEF Entry
<1>3. PICK lo, hi \in Obstacles : /\ Same(x, lo) /\ Same(x, hi)
                                  /\ e.n * lo <= e.sum /\ e.sum <= e.n * hi
  BY DEF InIsland
<1>4. lo \in Int /\ hi \in Int
  BY ObstaclesAreInts
<1> DEFINE low == IF x < lo THEN x ELSE lo
           high == IF hi < x THEN x ELSE hi
           n == e.n
           sum == e.sum
<1>5. low \in Obstacles /\ high \in Obstacles /\ Same(x, low) /\ Same(x, high)
  BY <1>3, SameIsland
<1>6. low \in Int /\ high \in Int /\ low <= lo /\ low <= x /\ hi <= high /\ x <= high
  BY <1>2, <1>4
<1> HIDE DEF low, high, n, sum
<1>7. n \in Nat /\ n > 0 /\ sum \in Int /\ n * lo <= sum /\ sum <= n * hi
  BY <1>2, <1>3 DEF n, sum
<1>8. low * n <= lo * n /\ hi * n <= high * n
  BY <1>4, <1>6, <1>7, Scaling
<1>9. (n + 1) * low <= sum + x /\ sum + x <= (n + 1) * high
  <2>1. (n + 1) * low = low * n + low /\ (n + 1) * high = high * n + high
    BY <1>6, <1>7
  <2>2. n * lo = lo * n /\ n * hi = hi * n
    BY <1>4, <1>7
  <2> DEFINE a == low * n
             b == lo * n
             c == hi * n
             f == high * n
  <2>3. a \in Int /\ b \in Int /\ c \in Int /\ f \in Int
    BY <1>4, <1>6, <1>7
  <2> HIDE DEF a, b, c, f
  <2>4. a + low <= sum + x /\ sum + x <= f + high
    BY <1>2, <1>6, <1>7, <1>8, <2>2, <2>3 DEF a, b, c, f
  <2> QED BY <2>1, <2>4 DEF a, f
<1> QED BY <1>1, <1>5, <1>9 DEF InIsland, n, sum

(* Means on two islands are as far apart as the islands are.               *)
LEMMA MeansApart ==
  ASSUME NEW m \in Nat, m >= 1, NEW s \in Int, NEW n \in Nat, n >= 1, NEW t \in Int,
         NEW hi \in Int, s <= m * hi, NEW lo \in Int, n * lo <= t,
         NEW d \in Nat, hi + d <= lo
  PROVE  ~(Abs(s * n - t * m) < d * m * n) /\ ~(Abs(t * m - s * n) < d * n * m)
<1> DEFINE sn == s * n
           tm == t * m
           k == m * n
           khi == k * hi
           klo == k * lo
           kd == d * k
<1>1. k \in Nat /\ k > 0
  BY Scaling
<1>2. sn <= khi
  <2> DEFINE mhi == m * hi
  <2>1. mhi \in Int /\ s <= mhi
    OBVIOUS
  <2>2. mhi * n = khi
    OBVIOUS
  <2> HIDE DEF mhi, khi
  <2>3. s * n <= mhi * n
    BY <2>1, Scaling
  <2> QED BY <2>2, <2>3
<1>3. klo <= tm
  <2> DEFINE nlo == n * lo
  <2>1. nlo \in Int /\ nlo <= t
    OBVIOUS
  <2>2. nlo * m = klo
    OBVIOUS
  <2> HIDE DEF nlo, klo
  <2>3. nlo * m <= t * m
    BY <2>1, Scaling
  <2> QED BY <2>2, <2>3
<1>4. khi + kd <= klo
  <2> HIDE DEF k
  <2>1. (hi + d) * k <= lo * k
    BY <1>1, Scaling
  <2>2. (hi + d) * k = khi + kd /\ lo * k = klo
    BY <1>1
  <2> QED BY <2>1, <2>2
<1>5. d * m * n = kd /\ d * n * m = kd
  OBVIOUS
<1>6. {sn, tm, khi, klo, kd} \subseteq Int
  OBVIOUS
<1> SUFFICES ~(Abs(sn - tm) < kd) /\ ~(Abs(tm - sn) < kd)
  BY <1>5
<1> HIDE DEF sn, tm, k, khi, klo, kd
<1> QED BY <1>2, <1>3, <1>4, <1>6 DEF Abs

LEMMA CloserShareIsland ==
  ASSUME IslandsLieApart, NEW d \in Distances,
         NEW a \in Entry, a.n >= 1, NEW p \in Obstacles, InIsland(a, p),
         NEW b \in Entry, b.n >= 1, NEW q \in Obstacles, InIsland(b, q),
         Closer(a, b, d)
  PROVE  Same(p, q)
<1> SUFFICES ASSUME ~Same(p, q) PROVE FALSE
  OBVIOUS
<1>1. /\ a.n \in Nat /\ a.sum \in Int /\ b.n \in Nat /\ b.sum \in Int /\ d \in Nat /\ d > 0
  BY SameIsland DEF Entry
<1>2. PICK lo1, hi1 \in Obstacles : /\ Same(p, lo1) /\ Same(p, hi1)
                                    /\ a.n * lo1 <= a.sum /\ a.sum <= a.n * hi1
  BY DEF InIsland
<1>3. PICK lo2, hi2 \in Obstacles : /\ Same(q, lo2) /\ Same(q, hi2)
                                    /\ b.n * lo2 <= b.sum /\ b.sum <= b.n * hi2
  BY DEF InIsland
<1>4. lo1 \in Int /\ hi1 \in Int /\ lo2 \in Int /\ hi2 \in Int
  BY ObstaclesAreInts
<1>5. ~Same(p, lo2) /\ ~Same(q, lo1)
  BY <1>2, <1>3, SameIsland
<1>6. \/ lo1 + d <= lo2 /\ hi1 + d <= lo2
      \/ lo2 + d <= lo1 /\ lo2 + d <= hi1
  BY <1>2, <1>5, IslandHasSides
<1>7. \/ lo2 + d <= lo1 /\ hi2 + d <= lo1
      \/ lo1 + d <= lo2 /\ lo1 + d <= hi2
  BY <1>3, <1>5, IslandHasSides
<1>8. hi1 + d <= lo2 \/ hi2 + d <= lo1
  BY <1>1, <1>4, <1>6, <1>7
<1>9. CASE hi1 + d <= lo2
  BY <1>1, <1>2, <1>3, <1>4, <1>9, MeansApart DEF Closer
<1>10. CASE hi2 + d <= lo1
  BY <1>1, <1>2, <1>3, <1>4, <1>10, MeansApart DEF Closer
<1> QED BY <1>8, <1>9, <1>10

(* Entries that are too close are rivals on one island.                    *)
LEMMA TooCloseConflicts ==
  ASSUME IslandsLieApart, NEW a \in Entry, a.n >= 1, OnLand(a),
         NEW b \in Entry, b.n >= 1, OnLand(b), TooClose(a, b)
  PROVE  Conflict(a, b)
<1>1. PICK p \in Obstacles : InIsland(a, p)
  BY DEF OnLand
<1>2. PICK q \in Obstacles : InIsland(b, q)
  BY DEF OnLand
<1>3. Rivals(a, b) /\ \E d \in Distances : Closer(a, b, d)
  BY DEF TooClose, Rivals, Distances
<1>4. Same(p, q)
  BY <1>1, <1>2, <1>3, CloserShareIsland
<1>5. Same(q, p)
  BY <1>4, SameIsland
<1>6. InIsland(b, p)
  BY <1>2, <1>5, IslandIsOne
<1> QED BY <1>1, <1>3, <1>6 DEF Conflict

LEMMA RecordSettles ==
  ASSUME IslandsLieApart, NEW mem \in TypedMemories, mem \in Settled,
         NEW label \in Labels, NEW x \in Obstacles, NEW v \in Validations,
         ~CrossClassMutex(mem, label, x)
  PROVE  Record(mem, label, x, v) \in Settled
<1> DEFINE new == Record(mem, label, x, v)
           fresh == [label |-> label, sum |-> x, n |-> 1, age |-> 0, validation |-> v]
           AllOnLand(s) == \A i \in DOMAIN s : OnLand(s[i])
           AllApart(l) == \A i, j \in DOMAIN l : i # j => ~Conflict(l[i], l[j])
<1>0. /\ mem.c \in Seq(Entry) /\ mem.l \in Seq(Entry)
      /\ \A i \in DOMAIN mem.c : mem.c[i].n >= 1
      /\ \A i \in DOMAIN mem.l : mem.l[i].n >= 1
      /\ mem \in Memories
  BY DEF Settled, Memories, Lists
<1>1. /\ \A i \in DOMAIN mem.c : mem.c[i] \in Entry
      /\ \A i \in DOMAIN mem.l : mem.l[i] \in Entry
  BY <1>0, ElementOfSeq
<1>2. AllOnLand(mem.c) /\ AllOnLand(mem.l) /\ AllApart(mem.l)
  BY DEF Settled
<1>3. x \in Int /\ MergeDistance \in Nat /\ CandidateDistance \in Nat /\ MutexDistance \in Nat
  BY ObstaclesAreInts, LandmarkMemoryConstants
<1>4. new \in Memories
  BY <1>3, RecordKeepsTypes DEF TypedMemories
<1>5. \/ LandmarkConfirmed(mem, new, label, x, v)
      \/ CandidateConfirmed(mem, new, label, x, v)
      \/ CandidatePromoted(mem, new, label, x, v)
      \/ CandidateMade(mem, new, label, x, v)
  <2> HIDE DEF new
  <2> QED BY <1>0, <1>3, RecordOutcomes DEF new
<1> HIDE DEF new
<1>6. SUFFICES AllOnLand(new.c) /\ AllOnLand(new.l) /\ AllApart(new.l)
  BY <1>4 DEF Settled, new
<1> HIDE DEF AllApart
<1>7. ASSUME NEW e \in Entry, e.n >= 1, OnLand(e),
             Within(e, x, MergeDistance) \/ Within(e, x, CandidateDistance)
      PROVE  /\ InIsland(e, x) /\ InIsland(Updated(e, x, v), x)
             /\ Updated(e, x, v) \in Entry /\ Updated(e, x, v).n >= 1
             /\ Updated(e, x, v).label = e.label
  <2>0. PICK p \in Obstacles : InIsland(e, p)
    BY <1>7 DEF OnLand
  <2>1. InIsland(e, x)
    <3>1. Same(p, x)
      BY <1>7, <2>0, NearIsOnIsland DEF Distances
    <3> QED BY <1>7, <2>0, <3>1, IslandIsOne
  <2>2. InIsland(Updated(e, x, v), x)
    BY <1>7, <2>1, StaysOnIsland
  <2>3. /\ Updated(e, x, v) \in Entry /\ Updated(e, x, v).label = e.label
        /\ Updated(e, x, v).n = e.n + 1
    BY <1>3, UpdatedEntry
  <2>4. e.n \in Nat
    BY DEF Entry
  <2> QED BY <1>7, <2>1, <2>2, <2>3, <2>4
<1>a. ASSUME NEW e \in Entry, e.n >= 1, InIsland(e, x) PROVE OnLand(e)
  BY <1>a DEF OnLand
<1>8. CASE LandmarkConfirmed(mem, new, label, x, v)
  <2>1. PICK i \in Near(mem, label, x) :
          new.c = mem.c /\ new.l = [mem.l EXCEPT ![i] = Updated(mem.l[i], x, v)]
    BY <1>8 DEF LandmarkConfirmed
  <2> DEFINE e == mem.l[i]
             u == Updated(e, x, v)
             l == [mem.l EXCEPT ![i] = u]
  <2>2. i \in DOMAIN mem.l /\ Within(e, x, MergeDistance)
    BY DEF Near, SameClassWithin
  <2>3. e \in Entry /\ e.n >= 1 /\ OnLand(e)
    BY <1>0, <1>1, <1>2, <2>2
  <2>4. InIsland(e, x) /\ InIsland(u, x) /\ u \in Entry /\ u.n >= 1 /\ u.label = e.label
    BY <1>7, <2>2, <2>3 DEF OnLand
  <2> HIDE DEF u
  <2>5. /\ DOMAIN l = DOMAIN mem.l
        /\ \A j \in DOMAIN mem.l : l[j] = IF j = i THEN u ELSE mem.l[j]
    BY <1>0, <2>2, <2>4, Replaced
  <2> HIDE DEF l
  <2>6. AllOnLand(l)
    BY <1>2, <1>a, <2>4, <2>5
  <2>7. ASSUME NEW b
        PROVE  /\ Conflict(u, b) <=> Conflict(e, b)
               /\ Conflict(b, u) <=> Conflict(b, e)
    <3>1. \A p \in Obstacles : InIsland(u, p) <=> InIsland(e, p)
      BY <2>3, <2>4, IslandIsOne
    <3> QED BY <2>4, <3>1 DEF Conflict, Rivals
  <2>8. AllApart(l)
    <3> SUFFICES ASSUME NEW j \in DOMAIN mem.l, NEW k \in DOMAIN mem.l, j # k
                 PROVE  ~Conflict(l[j], l[k])
      BY <2>5 DEF AllApart
    <3>1. ~Conflict(mem.l[j], mem.l[k])
      BY <1>2 DEF AllApart
    <3>3. CASE j = i
      <4>1. l[j] = u /\ l[k] = mem.l[k]
        BY <2>5, <3>3
      <4> QED BY <2>7, <3>1, <3>3, <4>1 DEF e
    <3>4. CASE k = i
      <4>1. l[k] = u /\ l[j] = mem.l[j]
        BY <2>5, <3>4
      <4> QED BY <2>7, <3>1, <3>4, <4>1 DEF e
    <3>5. CASE j # i /\ k # i
      BY <2>5, <3>1, <3>5
    <3> QED BY <3>3, <3>4, <3>5
  <2> QED BY <1>2, <2>1, <2>6, <2>8 DEF l, u
<1>9. CASE CandidateConfirmed(mem, new, label, x, v)
  <2>1. PICK i \in Pending(mem, label, x) :
          new.c = [mem.c EXCEPT ![i] = Updated(mem.c[i], x, v)] /\ new.l = mem.l
    BY <1>9 DEF CandidateConfirmed
  <2> DEFINE e == mem.c[i]
             u == Updated(e, x, v)
             c == [mem.c EXCEPT ![i] = u]
  <2>2. i \in DOMAIN mem.c /\ Within(e, x, CandidateDistance)
    BY DEF Pending, SameClassWithin
  <2>3. e \in Entry /\ e.n >= 1 /\ OnLand(e)
    BY <1>0, <1>1, <1>2, <2>2
  <2>4. InIsland(u, x) /\ OnLand(u) /\ u \in Entry
    BY <1>7, <2>2, <2>3 DEF OnLand
  <2> HIDE DEF u
  <2>5. /\ DOMAIN c = DOMAIN mem.c
        /\ \A j \in DOMAIN mem.c : c[j] = IF j = i THEN u ELSE mem.c[j]
    BY <1>0, <2>2, <2>4, Replaced
  <2> HIDE DEF c
  <2>6. AllOnLand(c)
    BY <1>2, <2>4, <2>5
  <2> QED BY <1>2, <2>1, <2>6 DEF c, u
<1>10. CASE CandidatePromoted(mem, new, label, x, v)
  <2>0. Near(mem, label, x) = {}
    BY <1>10 DEF CandidatePromoted
  <2>1. PICK i \in Pending(mem, label, x) :
          /\ \A j \in DOMAIN new.c : \E k \in DOMAIN mem.c : new.c[j] = mem.c[k]
          /\ new.l = Append(mem.l, Updated(mem.c[i], x, v))
    BY <1>10 DEF CandidatePromoted
  <2> DEFINE e == mem.c[i]
             u == Updated(e, x, v)
             l == Append(mem.l, u)
  <2>2. i \in DOMAIN mem.c /\ e.label = label /\ Within(e, x, CandidateDistance)
    BY DEF Pending, SameClassWithin
  <2>3. e \in Entry /\ e.n >= 1 /\ OnLand(e)
    BY <1>0, <1>1, <1>2, <2>2
  <2>4. InIsland(u, x) /\ OnLand(u) /\ u \in Entry /\ u.n >= 1 /\ u.label = label
    BY <1>7, <2>2, <2>3 DEF OnLand
  <2> HIDE DEF u
  <2>5. \A j \in DOMAIN l : \/ j = Len(mem.l) + 1 /\ l[j] = u
                            \/ j \in DOMAIN mem.l /\ l[j] = mem.l[j]
    BY <1>0, <2>4, Appended
  <2> HIDE DEF l
  <2>6. AllOnLand(l)
    BY <1>2, <2>4, <2>5
  <2>7. ASSUME NEW k \in DOMAIN mem.l
        PROVE  ~Conflict(mem.l[k], u) /\ ~Conflict(u, mem.l[k])
    <3> DEFINE b == mem.l[k]
    <3>1. b \in Entry /\ b.n >= 1
      BY <1>0, <1>1
    <3>2. ~(b.label = label /\ Within(b, x, MergeDistance))
      BY <2>0 DEF Near, SameClassWithin
    <3>3. ~(label \in Exclusive /\ b.label # label /\ Within(b, x, MutexDistance))
      BY DEF CrossClassMutex
    <3> HIDE DEF b
    <3>4. ASSUME NEW q \in Obstacles, InIsland(b, q), InIsland(u, q)
          PROVE  Within(b, x, MergeDistance) /\ Within(b, x, MutexDistance)
      <4>1. Same(x, q)
        BY <2>4, <3>4, IslandIsOne
      <4>2. Same(q, x)
        BY <4>1, SameIsland, <3>4
      <4> QED BY <3>1, <3>4, <4>2, NearIsOnIsland DEF Distances
    <3>5. ~Conflict(b, u)
      BY <2>4, <3>2, <3>3, <3>4 DEF Conflict, Rivals
    <3>6. ~Conflict(u, b)
      BY <2>4, <3>2, <3>3, <3>4 DEF Conflict, Rivals
    <3> QED BY <3>5, <3>6 DEF b
  <2>8. AllApart(l)
    <3> SUFFICES ASSUME NEW j \in DOMAIN l, NEW k \in DOMAIN l, j # k
                 PROVE  ~Conflict(l[j], l[k])
      BY DEF AllApart
    <3>1. CASE j \in DOMAIN mem.l /\ l[j] = mem.l[j] /\ k \in DOMAIN mem.l /\ l[k] = mem.l[k]
      BY <1>2, <3>1 DEF AllApart
    <3>2. CASE l[j] = u /\ k \in DOMAIN mem.l /\ l[k] = mem.l[k]
      BY <2>7, <3>2
    <3>3. CASE j \in DOMAIN mem.l /\ l[j] = mem.l[j] /\ l[k] = u
      BY <2>7, <3>3
    <3> QED BY <2>5, <3>1, <3>2, <3>3
  <2>9. AllOnLand(new.c)
    BY <1>2, <2>1
  <2> QED BY <2>1, <2>6, <2>8, <2>9 DEF l, u
<1>11. CASE CandidateMade(mem, new, label, x, v)
  <2> DEFINE c == Append(mem.c, fresh)
  <2>1. new.c = c /\ new.l = mem.l
    BY <1>11 DEF CandidateMade
  <2>2. fresh \in Entry /\ OnLand(fresh)
    <3>1. Same(x, x)
      BY SameIsland
    <3> QED BY <1>3, <3>1 DEF Entry, OnLand, InIsland
  <2> HIDE DEF fresh
  <2>3. \A j \in DOMAIN c : c[j] = fresh \/ (j \in DOMAIN mem.c /\ c[j] = mem.c[j])
    BY <1>0, <2>2, Appended
  <2> HIDE DEF c
  <2>4. AllOnLand(c)
    BY <1>2, <2>2, <2>3
  <2> QED BY <1>2, <2>1, <2>4
<1> QED BY <1>5, <1>8, <1>9, <1>10, <1>11

LEMMA ObserveSettles ==
  ASSUME IslandsLieApart, ~AllowLidarOnly,
         map \in Maps \cup {None}, robot \in RobotPlaces,
         NEW mem \in TypedMemories, mem \in Settled, NEW o \in Object
  PROVE  Observe(mem, o) \in Settled
<1> DEFINE x == robot + o.x
           p == Refined(o.label, x)
           v == Validation(o.label, x)
<1>1. o.label \in Labels /\ x \in Int
  BY LandmarkMemoryConstants DEF Object
<1>2. \/ Observe(mem, o) = mem
      \/ /\ Observe(mem, o) = Record(mem, o.label, p, v)
         /\ v = 3 /\ ~CrossClassMutex(mem, o.label, p)
  BY DEF Observe, Plausible
<1> HIDE DEF x
<1>3. v \in Validations
  BY <1>1, Placed
<1>4. v = 3 => p \in Obstacles
  <2> SUFFICES ASSUME v = 3 PROVE p \in Obstacles
    OBVIOUS
  <2>1. /\ map \in Maps /\ x \in map.cells /\ map.found[<<o.label, x>>] \in Int
        /\ p = map.found[<<o.label, x>>]
    BY <1>1, Placed DEF Refined
  <2>2. <<o.label, x>> \in Labels \X map.cells
    BY <1>1, <2>1
  <2> HIDE DEF p
  <2>3. p # None
    BY <2>1, LandmarkMemoryConstants
  <2> QED BY <2>1, <2>2, <2>3, FoundAreObstacles
<1> HIDE DEF p, v
<1> QED BY <1>1, <1>2, <1>3, <1>4, RecordSettles

SettledInv == ~AllowLidarOnly => Mem \in Settled

LEMMA MemIsSettled ==
  ASSUME NEW c, NEW l, [c |-> c, l |-> l] \in Memories
  PROVE  [c |-> c, l |-> l] \in Settled <=>
           /\ \A i \in DOMAIN c : OnLand(c[i])
           /\ \A i \in DOMAIN l : OnLand(l[i])
           /\ \A i, j \in DOMAIN l : i # j => ~Conflict(l[i], l[j])
<1> DEFINE m == [c |-> c, l |-> l]
<1>1. m.c = c /\ m.l = l /\ m \in Memories
  OBVIOUS
<1> HIDE DEF m
<1> QED BY <1>1 DEF Settled, m

LEMMA StepSettles ==
  ASSUME IslandsLieApart, IInv, SettledInv, [Next]_vars
  PROVE  SettledInv'
<1> SUFFICES ASSUME ~AllowLidarOnly PROVE Mem' \in Settled
  BY DEF SettledInv
<1>1. Mem \in Settled /\ Mem \in TypedMemories /\ Mem \in Memories
  BY DEF SettledInv, IInv, TypeInv, TypedMemories
<1>2. Mem' \in Memories
  BY StepKeeps DEF IInv, TypeInv, TypedMemories
<1>3. /\ \A i \in DOMAIN candidates : OnLand(candidates[i])
      /\ \A i \in DOMAIN landmarks : OnLand(landmarks[i])
      /\ \A i, j \in DOMAIN landmarks : i # j => ~Conflict(landmarks[i], landmarks[j])
  BY <1>1, MemIsSettled DEF Mem
<1>4. /\ candidates \in Seq(Entry)
  BY <1>1, MemIsTyped DEF Mem
<1>5. ASSUME UNCHANGED <<candidates, landmarks>>
      PROVE  Mem' \in Settled
  BY <1>1, <1>5 DEF Mem
<1>6. CASE Publish
  <2> DEFINE olds == [i \in DOMAIN candidates |-> Older(candidates[i])]
  <2>1. candidates' = olds /\ landmarks' = landmarks
    BY <1>6 DEF Publish
  <2>2. \A e \in Entry : Older(e).sum = e.sum /\ Older(e).n = e.n
    BY DEF Older, Entry
  <2>3. \A i \in DOMAIN candidates : candidates[i] \in Entry
    BY <1>4, ElementOfSeq
  <2>4. \A i \in DOMAIN olds : OnLand(olds[i])
    BY <1>3, <2>2, <2>3 DEF OnLand, InIsland
  <2> HIDE DEF olds
  <2> QED BY <1>2, <1>3, <2>1, <2>4, MemIsSettled DEF Mem
<1>7. CASE ObjectsReceived
  <2> DEFINE Good == TypedMemories \cap Settled
  <2>1. \A g \in Good, o \in Object : Observe(g, o) \in Good
    BY ObserveKeepsTypes, ObserveSettles DEF IInv, TypeInv
  <2>2. Mem \in Good
    BY <1>1
  <2> HIDE DEF Good
  <2>3. PICK mem \in Good : candidates' = mem.c /\ landmarks' = mem.l
    BY <1>7, <2>1, <2>2, MessageIsFolded DEF IInv
  <2>4. mem \in Settled /\ mem = [c |-> mem.c, l |-> mem.l]
    BY DEF Good, TypedMemories, Memories, Lists
  <2> QED BY <2>3, <2>4 DEF Mem
<1>8. CASE CleanupCandidates
  <2> DEFINE kept == {i \in DOMAIN candidates : candidates[i].age < CandidateTimeout}
  <2>1. candidates' = At(candidates, kept) /\ landmarks' = landmarks
    BY <1>8 DEF CleanupCandidates
  <2> HIDE DEF kept
  <2>2. \A i \in DOMAIN candidates' : \E j \in DOMAIN candidates \cap kept :
          candidates'[i] = candidates[j]
    BY <1>4, <2>1, AtKeeps
  <2>3. \A i \in DOMAIN candidates' : OnLand(candidates'[i])
    BY <1>3, <2>2
  <2> QED BY <1>2, <1>3, <2>1, <2>3, MemIsSettled DEF Mem
<1>9. ASSUME NEW l \in Labels, NEW x \in Sightings, NEW lag \in 0..MaxLag, Detect(l, x, lag)
      PROVE  Mem' \in Settled
  BY <1>5, <1>9 DEF Detect
<1>10. ASSUME NEW m \in Maps, MapReceived(m)
       PROVE  Mem' \in Settled
  BY <1>5, <1>10 DEF MapReceived
<1>11. ASSUME NEW p \in RobotPlaces, Move(p)
       PROVE  Mem' \in Settled
  BY <1>5, <1>11 DEF Move
<1>12. CASE UNCHANGED vars
  BY <1>5, <1>12 DEF vars
<1> QED BY <1>6, <1>7, <1>8, <1>9, <1>10, <1>11, <1>12 DEF Next

(* For all maps whose obstacles lie apart, however wide they are, whatever *)
(* the robot sees of them, from wherever it goes, and however that moves   *)
(* the means: landmarks of one class, or of two classes that exclude each  *)
(* other, do not come together.  (_obs_cb, _update_landmark, _promote,     *)
(* _check_cross_class_mutex)                                               *)
THEOREM LandmarksStayApart == Spec => []LandmarksLieApart
<1> SUFFICES ASSUME IslandsLieApart PROVE Spec => []LandmarksLieApart
  <2>1. CASE IslandsLieApart
    BY <2>1
  <2>2. CASE ~IslandsLieApart
    <3>1. LandmarksLieApart
      BY <2>2 DEF LandmarksLieApart
    <3> QED BY <3>1, PTL
  <2> QED BY <2>1, <2>2
<1>1. Init => SettledInv
  <2> SUFFICES ASSUME Init PROVE Mem \in Settled
    BY DEF SettledInv
  <2>1. candidates = <<>> /\ landmarks = <<>> /\ DOMAIN <<>> = {}
    BY DEF Init
  <2>2. DOMAIN candidates = {} /\ DOMAIN landmarks = {}
    BY <2>1
  <2>3. Mem \in Memories
    BY InitHolds DEF IInv, TypeInv, TypedMemories
  <2> QED BY <2>2, <2>3, MemIsSettled DEF Mem
<1>2. IInv /\ SettledInv /\ [Next]_vars => SettledInv'
  BY StepSettles
<1>3. IInv /\ [Next]_vars => IInv'
  BY StepKeeps
<1>4. IInv /\ SettledInv => LandmarksLieApart
  <2> SUFFICES ASSUME IInv, SettledInv, ~AllowLidarOnly,
                      NEW i \in DOMAIN landmarks, NEW j \in DOMAIN landmarks, i # j
               PROVE  ~TooClose(landmarks[i], landmarks[j])
    BY DEF LandmarksLieApart, TooClose
  <2>1. Mem \in Memories /\ Mem \in Settled
    BY DEF SettledInv, IInv, TypeInv, TypedMemories
  <2>2. /\ OnLand(landmarks[i]) /\ OnLand(landmarks[j])
        /\ ~Conflict(landmarks[i], landmarks[j])
    BY <2>1, MemIsSettled DEF Mem
  <2>3. /\ landmarks[i] \in Entry /\ landmarks[i].n >= 1
        /\ landmarks[j] \in Entry /\ landmarks[j].n >= 1
    BY <2>1, ElementOfSeq DEF Memories, Lists, Mem
  <2> QED BY <2>2, <2>3, TooCloseConflicts
<1> QED BY InitHolds, <1>1, <1>2, <1>3, <1>4, PTL DEF Spec
=============================================================================
