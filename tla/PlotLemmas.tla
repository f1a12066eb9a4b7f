----------------------------- MODULE PlotLemmas -----------------------------
(***************************************************************************)
(* Lemmas about the plotter's operators: the order statistics (Nth), the   *)
(* limits of an axis, and the whiskers of a box.                           *)
(***************************************************************************)
EXTENDS Plotter, FiniteSetTheorems, SequenceTheorems, TLAPS

(* The first n numbers are n numbers.                                      *)
LEMMA FirstNumbers ==
  ASSUME NEW n \in Nat
  PROVE  IsFiniteSet(1 .. n) /\ Cardinality(1 .. n) = n
  <1>1. IsFiniteSet(1 .. n) /\ Cardinality(1 .. n) = IF 1 > n THEN 0 ELSE n - 1 + 1
    BY FS_Interval
  <1>2. QED
    BY <1>1

(* A finite set of integers has a least and a greatest element: of the     *)
(* sets of what lies below an element, a smallest one has no other.        *)
LEMMA LeastOf ==
  ASSUME NEW T, IsFiniteSet(T), T # {}, T \subseteq Int
  PROVE  Min(T) \in T /\ \A y \in T : Min(T) <= y
  <1> DEFINE Up(x) == {y \in T : y <= x}
             F == {Up(x) : x \in T}
             R == StrictSubsetOrdering(T)
  <1>1. F \subseteq FiniteSubsetsOf(T) /\ F # {}
    <2>1. ASSUME NEW x \in T PROVE Up(x) \in FiniteSubsetsOf(T)
      <3>1. Up(x) \in SUBSET T
        OBVIOUS
      <3>2. QED
        BY <3>1, FS_Subset DEF FiniteSubsetsOf
    <2>2. QED
      BY <2>1
  <1>2. IsWellFoundedOn(R, FiniteSubsetsOf(T))
    BY FS_StrictSubsetOrderingWellFounded
  <1>3. \E U \in F : \A W \in F : <<W, U>> \notin R
    <2> HIDE DEF F, R
    <2>1. QED
      BY <1>1, <1>2, WFMin
  <1>4. PICK x \in T : \A y \in T : <<Up(y), Up(x)>> \notin R
    BY <1>3
  <1>5. \A y \in T : x <= y
    <2> SUFFICES ASSUME NEW y \in T, y < x PROVE FALSE
      OBVIOUS
    <2>1. Up(y) \subseteq Up(x)
      <3>1. \A z \in T : z <= y => z <= x
        OBVIOUS
      <3>2. QED
        BY <3>1
    <2>2. x \in Up(x) /\ x \notin Up(y)
      OBVIOUS
    <2>3. <<Up(y), Up(x)>> \in R
      <3>1. Up(x) \in SUBSET T /\ Up(y) \in SUBSET T
        OBVIOUS
      <3> HIDE DEF Up
      <3>2. QED
        BY <2>1, <2>2, <3>1 DEF StrictSubsetOrdering
    <2>4. QED
      BY <1>4, <2>3
  <1>6. QED
    BY <1>5 DEF Min

(* A finite set of integers has a greatest one.                            *)
LEMMA GreatestOf ==
  ASSUME NEW T, IsFiniteSet(T), T # {}, T \subseteq Int
  PROVE  Max(T) \in T /\ \A y \in T : Max(T) >= y
  <1> DEFINE Down(x) == {y \in T : y >= x}
             F == {Down(x) : x \in T}
             R == StrictSubsetOrdering(T)
  <1>1. F \subseteq FiniteSubsetsOf(T) /\ F # {}
    <2>1. ASSUME NEW x \in T PROVE Down(x) \in FiniteSubsetsOf(T)
      <3>1. Down(x) \in SUBSET T
        OBVIOUS
      <3>2. QED
        BY <3>1, FS_Subset DEF FiniteSubsetsOf
    <2>2. QED
      BY <2>1
  <1>2. IsWellFoundedOn(R, FiniteSubsetsOf(T))
    BY FS_StrictSubsetOrderingWellFounded
  <1>3. \E U \in F : \A W \in F : <<W, U>> \notin R
    <2> HIDE DEF F, R
    <2>1. QED
      BY <1>1, <1>2, WFMin
  <1>4. PICK x \in T : \A y \in T : <<Down(y), Down(x)>> \notin R
    BY <1>3
  <1>5. \A y \in T : x >= y
    <2> SUFFICES ASSUME NEW y \in T, y > x PROVE FALSE
      OBVIOUS
    <2>1. Down(y) \subseteq Down(x)
      <3>1. \A z \in T : z >= y => z >= x
        OBVIOUS
      <3>2. QED
        BY <3>1
    <2>2. x \in Down(x) /\ x \notin Down(y)
      OBVIOUS
    <2>3. <<Down(y), Down(x)>> \in R
      <3>1. Down(x) \in SUBSET T /\ Down(y) \in SUBSET T
        OBVIOUS
      <3> HIDE DEF Down
      <3>2. QED
        BY <2>1, <2>2, <3>1 DEF StrictSubsetOrdering
    <2>4. QED
      BY <1>4, <2>3
  <1>6. QED
    BY <1>5 DEF Max

----------------------------------------------------------------------------
(* The order statistics of a finite set of samples.                        *)

Measures(S) == IsFiniteSet(S) /\ \A s \in S : s.rtt \in Int

Rtts(S) == {s.rtt : s \in S}
Lower(S, v)  == {s \in S : s.rtt < v}
UpTo(S, v)   == {s \in S : s.rtt <= v}
Higher(S, v) == {s \in S : s.rtt > v}

(* The values of a finite set are a finite set.                            *)
LEMMA RttsFinite ==
  ASSUME NEW S, Measures(S)
  PROVE  IsFiniteSet(Rtts(S)) /\ Rtts(S) \subseteq Int /\ (S # {} => Rtts(S) # {})
  <1> DEFINE f == [s \in S |-> s.rtt]
  <1>1. f \in Surjection(S, Rtts(S))
    BY DEF Surjection, Rtts
  <1>2. IsFiniteSet(Rtts(S))
    BY <1>1, FS_Surjection DEF Measures
  <1>3. QED
    BY <1>2 DEF Measures, Rtts

(* How many lie below a value, up to it and above it.                      *)
LEMMA Shares ==
  ASSUME NEW S, Measures(S), NEW v \in Int
  PROVE  /\ Cardinality(S) \in Nat
         /\ Cardinality(Lower(S, v)) \in Nat
         /\ Cardinality(UpTo(S, v)) \in Nat
         /\ Cardinality(Higher(S, v)) = Cardinality(S) - Cardinality(UpTo(S, v))
         /\ \A w \in Int : v <= w => Cardinality(UpTo(S, v)) <= Cardinality(UpTo(S, w))
         /\ \A w \in Int : v < w => Cardinality(UpTo(S, v)) <= Cardinality(Lower(S, w))
  <1>1. IsFiniteSet(S) /\ Cardinality(S) \in Nat
    BY FS_CardinalityType DEF Measures
  <1>2. \A U \in SUBSET S : IsFiniteSet(U) /\ Cardinality(U) \in Nat
    BY <1>1, FS_Subset, FS_CardinalityType
  <1>3. \A U, W \in SUBSET S : U \subseteq W => Cardinality(U) <= Cardinality(W)
    BY <1>2, FS_Subset
  <1>4. Lower(S, v) \in SUBSET S /\ UpTo(S, v) \in SUBSET S
    BY DEF Lower, UpTo
  <1>5. Cardinality(Higher(S, v)) = Cardinality(S) - Cardinality(UpTo(S, v))
    <2>1. Higher(S, v) = S \ UpTo(S, v) /\ S \cap UpTo(S, v) = UpTo(S, v)
      BY DEF Higher, UpTo, Measures
    <2>2. QED
      BY <1>1, <2>1, FS_Difference
  <1>6. ASSUME NEW w \in Int
        PROVE  /\ v <= w => UpTo(S, v) \subseteq UpTo(S, w) /\ UpTo(S, w) \in SUBSET S
               /\ v < w => UpTo(S, v) \subseteq Lower(S, w) /\ Lower(S, w) \in SUBSET S
    BY DEF UpTo, Lower, Measures
  <1>7. QED
    BY <1>1, <1>2, <1>3, <1>4, <1>5, <1>6


(* The k-th value exists, at most k lie below it, and more than k up to it. *)
LEMMA NthIs ==
  ASSUME NEW S, Measures(S), NEW k \in 0 .. Cardinality(S) - 1
  PROVE  /\ Nth(S, k) \in Rtts(S) /\ Nth(S, k) \in Int
         /\ Cardinality(Lower(S, Nth(S, k))) <= k
         /\ Cardinality(UpTo(S, Nth(S, k))) > k
  <1> DEFINE C == {v \in Rtts(S) : Cardinality(UpTo(S, v)) > k}
             v == Min(C)
             B == {w \in Rtts(S) : w < v}
             u == Max(B)
  <1>1. /\ IsFiniteSet(Rtts(S)) /\ Rtts(S) \subseteq Int
        /\ Cardinality(S) \in Nat /\ S # {} /\ Rtts(S) # {}
    <2>1. IsFiniteSet(S) /\ Cardinality(S) \in Nat
      BY FS_CardinalityType DEF Measures
    <2>2. S # {}
      BY <2>1, FS_EmptySet
    <2>3. QED
      BY <2>1, <2>2, RttsFinite
  <1>2. C # {} /\ C \subseteq Rtts(S) /\ IsFiniteSet(C)
    <2>1. Max(Rtts(S)) \in Rtts(S) /\ \A w \in Rtts(S) : Max(Rtts(S)) >= w
      BY <1>1, GreatestOf
    <2>2. UpTo(S, Max(Rtts(S))) = S
      BY <2>1 DEF UpTo, Rtts
    <2>3. Max(Rtts(S)) \in C
      BY <1>1, <2>1, <2>2
    <2>4. QED
      BY <1>1, <2>3, FS_Subset
  <1>3. v \in C /\ v \in Int /\ \A w \in C : v <= w
    <2> HIDE DEF C
    <2>1. QED
      BY <1>1, <1>2, LeastOf
  <1> HIDE DEF v
  <1>4. Cardinality(Lower(S, v)) <= k
    <2> SUFFICES ASSUME ~(Cardinality(Lower(S, v)) <= k) PROVE FALSE
      OBVIOUS
    <2>1. Cardinality(Lower(S, v)) \in Nat
      BY <1>3, Shares
    <2>2. Lower(S, v) # {}
      BY <2>1, FS_EmptySet
    <2>3. B # {} /\ B \subseteq Int /\ IsFiniteSet(B)
      <3>1. B # {}
        BY <2>2 DEF Lower, Rtts
      <3>2. QED
        BY <1>1, <3>1, FS_Subset
    <2>4. u \in B /\ \A w \in B : u >= w
      <3> HIDE DEF B
      <3>1. QED
        BY <2>3, GreatestOf
    <2> HIDE DEF u
    <2>5. u \in Rtts(S) /\ u < v /\ u \in Int
      BY <1>1, <2>4
    <2>6. UpTo(S, u) = Lower(S, v)
      <3>1. ASSUME NEW s \in S PROVE s.rtt <= u <=> s.rtt < v
        <4>1. s.rtt \in Rtts(S) /\ s.rtt \in Int
          BY DEF Rtts, Measures
        <4>2. QED
          BY <1>3, <2>4, <2>5, <4>1
      <3>2. QED
        BY <3>1 DEF UpTo, Lower
    <2>7. u \in C
      BY <2>1, <2>5, <2>6
    <2>8. QED
      BY <1>3, <2>5, <2>7
  <1>5. \E w \in Rtts(S) : Cardinality(Lower(S, w)) <= k /\ Cardinality(UpTo(S, w)) > k
    BY <1>3, <1>4
  <1>6. Nth(S, k) \in Rtts(S) /\ Cardinality(Lower(S, Nth(S, k))) <= k
          /\ Cardinality(UpTo(S, Nth(S, k))) > k
    BY <1>5 DEF Nth, Rtts, Lower, UpTo
  <1>7. QED
    BY <1>1, <1>6

(* The values are sorted.                                                  *)
LEMMA NthSorted ==
  ASSUME NEW S, Measures(S), NEW j \in 0 .. Cardinality(S) - 1, NEW k \in 0 .. Cardinality(S) - 1,
         j <= k
  PROVE  Nth(S, j) <= Nth(S, k)
  <1> SUFFICES ASSUME ~(Nth(S, j) <= Nth(S, k)) PROVE FALSE
    OBVIOUS
  <1> DEFINE v == Nth(S, j)
             w == Nth(S, k)
  <1>1. /\ v \in Int /\ w \in Int
        /\ Cardinality(Lower(S, v)) <= j /\ Cardinality(UpTo(S, w)) > k
    BY NthIs
  <1>2. Cardinality(Lower(S, v)) \in Nat /\ Cardinality(UpTo(S, w)) \in Nat
    BY <1>1, Shares
  <1>3. w < v
    BY <1>1
  <1> HIDE DEF v, w
  <1>4. Cardinality(UpTo(S, w)) <= Cardinality(Lower(S, v))
    BY <1>1, <1>3, Shares
  <1>5. QED
    BY <1>1, <1>2, <1>4

(* At most k lie below the k-th, and at most n - k - 1 above it.           *)
LEMMA NthShares ==
  ASSUME NEW S, Measures(S), NEW k \in 0 .. Cardinality(S) - 1
  PROVE  /\ Cardinality(Lower(S, Nth(S, k))) \in 0 .. k
         /\ Cardinality(Higher(S, Nth(S, k))) \in 0 .. Cardinality(S) - k - 1
  <1> DEFINE v == Nth(S, k)
  <1>1. v \in Int /\ Cardinality(Lower(S, v)) <= k /\ Cardinality(UpTo(S, v)) > k
    BY NthIs
  <1> HIDE DEF v
  <1>2. /\ Cardinality(S) \in Nat
        /\ Cardinality(Lower(S, v)) \in Nat
        /\ Cardinality(UpTo(S, v)) \in Nat
        /\ Cardinality(Higher(S, v)) = Cardinality(S) - Cardinality(UpTo(S, v))
    BY <1>1, Shares
  <1>3. Cardinality(Higher(S, v)) \in Nat
    <2>1. IsFiniteSet(Higher(S, v))
      BY FS_Subset DEF Measures, Higher
    <2>2. QED
      BY <2>1, FS_CardinalityType
  <1>4. QED
    BY <1>1, <1>2, <1>3 DEF v


----------------------------------------------------------------------------
(* Percentiles.                                                            *)

(* p percentiles of n values are at most p in a hundred of them, and so    *)
(* many values that a hundred percentiles exist.                           *)
LEMMA PercentilesFit ==
  ASSUME NEW n \in Nat, NEW p \in Nat
  PROVE  /\ Percentiles(n, p) \in Nat
         /\ Hundred * Percentiles(n, p) <= n * p
         /\ Percentiles(n, Hundred) <= n
         /\ \A r \in Nat : p <= r => Percentiles(n, p) <= Percentiles(n, r)
         /\ \A r \in Nat : Percentiles(n, p) + Percentiles(n, r) = Percentiles(n, p + r)
  <1> DEFINE q == n \div Hundred
  <1>1. Hundred \in Nat /\ Hundred > 0
    BY HundredAssumption
  <1>2. q \in Nat /\ Hundred * q <= n
    BY <1>1
  <1> HIDE DEF q
  <1>3. \A a, b, c \in Nat : a <= b => a * c <= b * c
    <2> SUFFICES ASSUME NEW a \in Nat, NEW b \in Nat, NEW c \in Nat, a <= b
                 PROVE  a * c <= b * c
      OBVIOUS
    <2>1. PICK d \in Nat : b = a + d
      <3>1. b - a \in Nat /\ b = a + (b - a)
        OBVIOUS
      <3>2. QED
        BY <3>1
    <2>2. b * c = a * c + d * c /\ d * c \in Nat /\ a * c \in Nat
      BY <2>1
    <2>3. QED
      BY <2>2
  <1>4. \A r \in Nat : q * r \in Nat /\ r * q = q * r
    BY <1>2
  <1>5. \A r \in Nat : p <= r => q * p <= q * r
    BY <1>2, <1>3, <1>4
  <1>6. Hundred * (q * p) <= n * p
    <2>1. (Hundred * q) * p <= n * p
      BY <1>1, <1>2, <1>3
    <2>2. (Hundred * q) * p = Hundred * (q * p)
      BY <1>1, <1>2
    <2>3. QED
      BY <2>1, <2>2
  <1>7. \A r \in Nat : q * p + q * r = q * (p + r)
    BY <1>2
  <1>8. q * Hundred <= n
    BY <1>1, <1>2, <1>4
  <1>9. QED
    BY <1>4, <1>5, <1>6, <1>7, <1>8 DEF Percentiles, q

(* At most half of a hundred percentiles are at most half of the values.   *)
LEMMA AtMostHalf ==
  ASSUME NEW n \in Nat, NEW p \in Nat, 2 * p <= Hundred
  PROVE  /\ Percentiles(n, p) \in Nat
         /\ 2 * Percentiles(n, p) <= n
         /\ 2 * p < Hundred /\ n # 0 => 2 * Percentiles(n, p) < n
  <1> DEFINE q == n \div Hundred
             d == Hundred - 2 * p
  <1>1. Hundred \in Nat /\ Hundred > 0
    BY HundredAssumption
  <1>2. q \in Nat /\ q * Hundred <= n
    BY <1>1
  <1>3. d \in Nat /\ Hundred = 2 * p + d
    BY <1>1
  <1> HIDE DEF q, d
  <1>4. q * Hundred = 2 * (q * p) + q * d /\ q * p \in Nat /\ q * d \in Nat
    BY <1>2, <1>3
  <1>5. d > 0 /\ q > 0 => q * d > 0
    BY <1>2, <1>3
  <1>6. q = 0 => q * p = 0
    BY <1>2
  <1>7. Percentiles(n, p) = q * p
    BY DEF Percentiles, q
  <1>8. 2 * p < Hundred => d > 0
    BY <1>1 DEF d
  <1> QED
    BY <1>2, <1>4, <1>5, <1>6, <1>7, <1>8

(* More than a hundred percentiles leave less than none, or none of few.   *)
LEMMA NegativePercentiles ==
  ASSUME NEW n \in Nat, NEW w \in Nat, ~(w <= Hundred), Percentiles(n, Hundred - w) \in Nat
  PROVE  Percentiles(n, Hundred - w) = 0
  <1> DEFINE q == n \div Hundred
  <1>1. Hundred \in Nat /\ Hundred > 0
    BY HundredAssumption
  <1>2. q \in Nat
    BY <1>1
  <1>3. PICK e \in Nat : Hundred - w = -(1 + e)
    <2>1. w - Hundred - 1 \in Nat /\ Hundred - w = -(1 + (w - Hundred - 1))
      BY <1>1
    <2>2. QED
      BY <2>1
  <1>4. Percentiles(n, Hundred - w) = q * (-(1 + e))
    BY <1>3 DEF Percentiles
  <1> HIDE DEF q
  <1>5. q * (-(1 + e)) = -(q + q * e) /\ q * e \in Nat
    BY <1>2
  <1>6. QED
    BY <1>2, <1>4, <1>5

(* A hundred times less is less.                                           *)
LEMMA HundredFold ==
  ASSUME NEW b \in Nat, NEW a \in 0 .. b, NEW c \in Nat, Hundred * b <= c
  PROVE  Hundred * a <= c
  <1>1. PICK d \in Nat : b = a + d
    <2>1. b - a \in Nat /\ b = a + (b - a)
      OBVIOUS
    <2>2. QED
      BY <2>1
  <1>2. Hundred \in Nat
    BY HundredAssumption
  <1>3. Hundred * b = Hundred * a + Hundred * d /\ Hundred * d \in Nat /\ Hundred * a \in Nat
    BY <1>1, <1>2
  <1>4. QED
    BY <1>2, <1>3

(* What is at most x in a hundred of n is at most n * x \div 100.          *)
LEMMA WholeShare ==
  ASSUME NEW a \in Nat, NEW c \in Nat, Hundred * a <= c
  PROVE  a <= c \div Hundred
  <1> DEFINE d == c \div Hundred
             r == c % Hundred
  <1>1. Hundred \in Nat /\ Hundred > 0
    BY HundredAssumption
  <1>2. d \in Nat /\ r \in Nat /\ c = Hundred * d + r /\ r < Hundred
    BY <1>1
  <1> HIDE DEF d, r
  <1>3. ASSUME ~(a <= d) PROVE FALSE
    <2>1. PICK e \in Nat : a = d + 1 + e
      <3>1. a - d - 1 \in Nat /\ a = d + 1 + (a - d - 1)
        BY <1>2, <1>3
      <3>2. QED
        BY <3>1
    <2>2. Hundred * a = Hundred * d + Hundred + Hundred * e /\ Hundred * e \in Nat
      BY <1>1, <1>2, <2>1
    <2>3. QED
      BY <1>1, <1>2, <2>2
  <1>4. QED
    BY <1>3 DEF d


----------------------------------------------------------------------------
(* The whiskers of a box.                                                  *)

SortedRtts(V, n) ==
  /\ n \in Nat \ {0}
  /\ \A k \in 0 .. n - 1 : V[k] \in Int
  /\ \A j, k \in 0 .. n - 1 : j <= k => V[j] <= V[k]

(* The median of a part is between its values.                             *)
LEMMA MedianBetween ==
  ASSUME NEW n, NEW V, SortedRtts(V, n), NEW from \in 0 .. n - 1, NEW to \in 1 .. n, from < to
  PROVE  /\ from + (to - from) \div 2 \in from .. to - 1
         /\ TwiceMedian(V, from, to) \in Int
         /\ TwiceMedian(V, from, to) <= 2 * V[from + (to - from) \div 2]
         /\ 2 * V[from] <= TwiceMedian(V, from, to)
  <1> DEFINE mid == from + (to - from) \div 2
  <1>1. n \in Nat /\ from \in Int /\ to \in Int
    BY DEF SortedRtts
  <1>2. mid \in from .. to - 1 /\ mid \in 0 .. n - 1
    BY <1>1
  <1>3. (to - from) % 2 # 1 => mid - 1 \in from .. to - 1
    <2>1. (to - from) % 2 # 1 => to - from >= 2
      BY <1>1
    <2>2. QED
      BY <1>1, <2>1
  <1>4. TwiceMedian(V, from, to) = IF (to - from) % 2 = 1 THEN 2 * V[mid] ELSE V[mid - 1] + V[mid]
    BY DEF TwiceMedian
  <1> HIDE DEF mid
  <1>5. V[mid] \in Int /\ V[from] \in Int /\ V[from] <= V[mid]
    BY <1>1, <1>2 DEF SortedRtts
  <1>6. CASE (to - from) % 2 = 1
    BY <1>2, <1>4, <1>5, <1>6 DEF mid
  <1>7. CASE (to - from) % 2 # 1
    <2>1. mid - 1 \in 0 .. n - 1 /\ mid - 1 >= from
      BY <1>1, <1>3, <1>7
    <2>2. V[mid - 1] \in Int /\ V[mid - 1] <= V[mid] /\ V[from] <= V[mid - 1]
      BY <1>1, <1>2, <2>1 DEF SortedRtts
    <2>3. QED
      BY <1>2, <1>4, <1>5, <1>7, <2>2 DEF mid
  <1>8. QED
    BY <1>6, <1>7

(* The value in the middle of the lower half is no outlier; and an outlier *)
(* in the lower half makes outliers of all below it.                       *)
LEMMA OutsideShape ==
  ASSUME NEW n, NEW V, SortedRtts(V, n)
  PROVE  /\ Outside(V, n) \subseteq 0 .. n - 1
         /\ (n \div 2) \div 2 \in (0 .. n - 1) \ Outside(V, n)
         /\ 2 * ((n \div 2) \div 2) <= n
         /\ \A k \in Outside(V, n) : k < n \div 2 => 0 .. k \subseteq Outside(V, n)
  <1> DEFINE half == n \div 2
             mid == half \div 2
             q1 == TwiceMedian(V, 0, half)
             q3 == TwiceMedian(V, half, n)
  <1>1. n \in Nat /\ n > 0 /\ half \in Nat /\ 2 * half <= n /\ mid \in Nat /\ 2 * mid <= half
    BY DEF SortedRtts
  <1>2. mid \in 0 .. n - 1 /\ 2 * mid <= n
    BY <1>1
  <1>3. CASE n = 1
    <2>1. Outside(V, n) = {}
      BY <1>3 DEF Outside
    <2>2. QED
      BY <1>2, <2>1
  <1>4. CASE n # 1
    <2>1. half \in 1 .. n - 1
      BY <1>1, <1>4
    <2>2. /\ 0 + (half - 0) \div 2 \in 0 .. half - 1
          /\ q1 \in Int /\ q1 <= 2 * V[0 + (half - 0) \div 2]
      BY <1>1, <2>1, MedianBetween
    <2>3. q1 <= 2 * V[mid] /\ mid <= half - 1
      <3>1. 0 + (half - 0) \div 2 = mid
        BY <1>1
      <3>2. QED
        BY <1>1, <2>2, <3>1
    <2>4. q3 \in Int /\ 2 * V[half] <= q3
      <3> HIDE DEF half
      <3>1. half \in 0 .. n - 1 /\ n \in 1 .. n /\ half < n
        BY <1>1, <2>1
      <3>2. QED
        BY <3>1, MedianBetween
    <2>5. Outside(V, n) = {k \in 0 .. n - 1 : \/ 4 * V[k] < 2 * q1 - 3 * (q3 - q1)
                                               \/ 4 * V[k] > 2 * q3 + 3 * (q3 - q1)}
      BY <1>4 DEF Outside
    <2> HIDE DEF half, mid, q1, q3
    <2>6. \A k \in 0 .. n - 1 : V[k] \in Int
      BY DEF SortedRtts
    <2>7. \A j, k \in 0 .. n - 1 : j <= k => V[j] <= V[k]
      BY DEF SortedRtts
    <2>8. V[mid] \in Int /\ V[half] \in Int /\ V[mid] <= V[half]
      BY <1>1, <1>2, <2>1, <2>6, <2>7
    <2>9. q1 <= q3
      BY <2>2, <2>3, <2>4, <2>8
    <2>10. mid \notin Outside(V, n)
      BY <2>2, <2>3, <2>4, <2>5, <2>8, <2>9
    <2>11. ASSUME NEW k \in Outside(V, n), k < half PROVE 0 .. k \subseteq Outside(V, n)
      <3>1. k \in 0 .. n - 1 /\ V[k] \in Int /\ V[k] <= V[half]
        BY <1>1, <2>1, <2>5, <2>6, <2>7, <2>11
      <3>2. ~(4 * V[k] > 2 * q3 + 3 * (q3 - q1))
        BY <2>2, <2>4, <2>8, <2>9, <3>1
      <3>3. 4 * V[k] < 2 * q1 - 3 * (q3 - q1)
        BY <2>5, <3>2
      <3>4. ASSUME NEW j \in 0 .. k PROVE j \in Outside(V, n)
        <4>1. j \in 0 .. n - 1 /\ V[j] \in Int /\ V[j] <= V[k]
          BY <1>1, <3>1, <2>6, <2>7
        <4>2. 4 * V[j] < 2 * q1 - 3 * (q3 - q1)
          BY <2>2, <2>4, <3>1, <3>3, <4>1
        <4>3. QED
          BY <2>5, <4>1, <4>2
      <3>5. QED
        BY <3>4
    <2>12. QED
      BY <1>1, <1>2, <2>5, <2>10, <2>11 DEF half, mid
  <1>5. QED
    BY <1>3, <1>4


WhiskersTyped == settings.whiskerMin \in Nat /\ settings.whiskerMax \in Nat

(* The parts of a box, and what they are made of.                          *)
LEMMA BoxParts ==
  ASSUME NEW S, Measures(S), S # {}, WhiskersTyped, ~NoWhisker(Cardinality(S))
  PROVE  LET n == Cardinality(S)
             V == Sorted(S)
             within == {V[k] : k \in (0 .. n - 1) \ Outside(V, n)}
             lo == Percentiles(n, settings.whiskerMin)
             hi == Percentiles(n, Hundred - settings.whiskerMax)
         IN  /\ SortedRtts(V, n) /\ \A k \in 0 .. n - 1 : V[k] = Nth(S, k)
             /\ Box(S).adjLow = IF settings.whiskerMin # 0 THEN V[lo] ELSE Min(within)
             /\ Box(S).low = IF settings.whiskerMin # 0 THEN 0 .. lo - 1 ELSE FirstRun(Outside(V, n))
             /\ Box(S).adjHigh = IF settings.whiskerMax # 0 THEN V[n - hi - 1] ELSE Max(within)
             /\ Box(S).high = IF settings.whiskerMax # 0 THEN n - hi .. n - 1
                              ELSE Outside(V, n) \ FirstRun(Outside(V, n))
             /\ settings.whiskerMin # 0 => lo \in 0 .. n - 1
             /\ settings.whiskerMax # 0 => hi \in 0 .. n - 1 /\ n - hi - 1 \in 0 .. n - 1
             /\ within \subseteq Int
             /\ \A k \in (0 .. n - 1) \ Outside(V, n) : Min(within) <= V[k] /\ V[k] <= Max(within)
             /\ Min(within) \in Int /\ Max(within) \in Int
  <1> DEFINE n == Cardinality(S)
             V == Sorted(S)
             within == {V[k] : k \in (0 .. n - 1) \ Outside(V, n)}
             lo == Percentiles(n, settings.whiskerMin)
             hi == Percentiles(n, Hundred - settings.whiskerMax)
  <1>1. IsFiniteSet(S) /\ n \in Nat /\ n # 0
    BY FS_CardinalityType, FS_EmptySet DEF Measures
  <1>2. V = [k \in 0 .. n - 1 |-> Nth(S, k)]
    BY DEF Sorted
  <1>3. SortedRtts(V, n)
    <2>1. \A k \in 0 .. n - 1 : V[k] = Nth(S, k) /\ Nth(S, k) \in Int
      BY <1>2, NthIs
    <2>2. \A j, k \in 0 .. n - 1 : j <= k => Nth(S, j) <= Nth(S, k)
      BY NthSorted
    <2>3. QED
      BY <1>1, <2>1, <2>2 DEF SortedRtts
  <1>4. /\ within \subseteq Int /\ IsFiniteSet(within) /\ within # {}
    <2> DEFINE D == (0 .. n - 1) \ Outside(V, n)
               f == [k \in D |-> V[k]]
    <2>1. within = {V[k] : k \in D}
      OBVIOUS
    <2>2. IsFiniteSet(D)
      <3>1. IsFiniteSet(0 .. n - 1)
        BY <1>1, FS_Interval
      <3>2. QED
        BY <3>1, FS_Difference
    <2>3. D # {}
      BY <1>3, OutsideShape
    <2>4. \A k \in D : V[k] \in Int
      BY <1>3 DEF SortedRtts
    <2> HIDE DEF D
    <2>5. f \in Surjection(D, within)
      BY <2>1 DEF Surjection
    <2>6. IsFiniteSet(within)
      BY <2>2, <2>5, FS_Surjection
    <2>7. QED
      BY <2>1, <2>3, <2>4, <2>6
  <1>5. /\ Min(within) \in within /\ \A y \in within : Min(within) <= y
        /\ Max(within) \in within /\ \A y \in within : Max(within) >= y
    BY <1>4, LeastOf, GreatestOf
  <1>6. /\ \A k \in (0 .. n - 1) \ Outside(V, n) : Min(within) <= V[k] /\ V[k] <= Max(within)
        /\ Min(within) \in Int /\ Max(within) \in Int
    <2>1. ASSUME NEW k \in (0 .. n - 1) \ Outside(V, n)
          PROVE  V[k] \in within /\ V[k] \in Int
      BY <1>3 DEF SortedRtts
    <2>2. QED
      BY <1>4, <1>5, <2>1
  <1>7. /\ Box(S).adjLow = IF settings.whiskerMin # 0 THEN V[lo] ELSE Min(within)
        /\ Box(S).low = IF settings.whiskerMin # 0 THEN 0 .. lo - 1 ELSE FirstRun(Outside(V, n))
        /\ Box(S).adjHigh = IF settings.whiskerMax # 0 THEN V[n - hi - 1] ELSE Max(within)
        /\ Box(S).high = IF settings.whiskerMax # 0 THEN n - hi .. n - 1
                          ELSE Outside(V, n) \ FirstRun(Outside(V, n))
    BY DEF Box, Below, Above
  <1>8. settings.whiskerMin # 0 => lo \in 0 .. n - 1
    <2>1. lo \in Nat /\ ~(lo >= n)
      BY <1>1, PercentilesFit DEF WhiskersTyped, NoWhisker
    <2>2. QED
      BY <1>1, <2>1
  <1>9. settings.whiskerMax # 0 => hi \in 0 .. n - 1 /\ n - hi - 1 \in 0 .. n - 1
    <2>1. settings.whiskerMax # 0 => hi \in 0 .. n - 1
      BY DEF NoWhisker
    <2>2. QED
      BY <1>1, <2>1
  <1>10. QED
    BY <1>2, <1>3, <1>4, <1>6, <1>7, <1>8, <1>9

\* What BoxesKeepEveryRtt says of one box.
KeepsEvery(S) ==
  LET box == Box(S)
      n == Cardinality(S)
  IN /\ \A k \in 0 .. n - 1 :
          k \in box.low \cup box.high \/ Nth(S, k) \in box.adjLow .. box.adjHigh
     /\ settings.whiskerMin # 0 =>
          Hundred * Cardinality(Lower(S, box.adjLow)) <= n * settings.whiskerMin
     /\ settings.whiskerMax \in 1 .. Hundred =>
          Hundred * Cardinality(Higher(S, box.adjHigh)) <= n * (Hundred - settings.whiskerMax)

(* Every value is between the whiskers or an outlier, and the whiskers cut *)
(* off no more than they should.                                           *)
LEMMA BoxKeeps ==
  ASSUME NEW S, Measures(S), S # {}, WhiskersTyped, ~NoWhisker(Cardinality(S))
  PROVE  KeepsEvery(S)
  <1> DEFINE n == Cardinality(S)
             V == Sorted(S)
             out == Outside(V, n)
             within == {V[k] : k \in (0 .. n - 1) \ out}
             lo == Percentiles(n, settings.whiskerMin)
             hi == Percentiles(n, Hundred - settings.whiskerMax)
             box == Box(S)
  <1>1. /\ SortedRtts(V, n) /\ \A k \in 0 .. n - 1 : V[k] = Nth(S, k)
        /\ box.adjLow = IF settings.whiskerMin # 0 THEN V[lo] ELSE Min(within)
        /\ box.low = IF settings.whiskerMin # 0 THEN 0 .. lo - 1 ELSE FirstRun(out)
        /\ box.adjHigh = IF settings.whiskerMax # 0 THEN V[n - hi - 1] ELSE Max(within)
        /\ box.high = IF settings.whiskerMax # 0 THEN n - hi .. n - 1 ELSE out \ FirstRun(out)
        /\ settings.whiskerMin # 0 => lo \in 0 .. n - 1
        /\ settings.whiskerMax # 0 => hi \in 0 .. n - 1 /\ n - hi - 1 \in 0 .. n - 1
        /\ \A k \in (0 .. n - 1) \ out : Min(within) <= V[k] /\ V[k] <= Max(within)
        /\ Min(within) \in Int /\ Max(within) \in Int
    BY BoxParts
  <1>2. /\ out \subseteq 0 .. n - 1
        /\ (n \div 2) \div 2 \in (0 .. n - 1) \ out
    BY <1>1, OutsideShape
  <1>3. n \in Nat /\ settings.whiskerMin \in Nat /\ settings.whiskerMax \in Nat
    BY <1>1 DEF SortedRtts, WhiskersTyped
  <1>4. /\ \A k \in 0 .. n - 1 : V[k] \in Int
        /\ \A j, k \in 0 .. n - 1 : j <= k => V[j] <= V[k]
    BY <1>1 DEF SortedRtts
  <1> HIDE DEF n, V, out, within, lo, hi, box
  <1>5. \A k \in 0 .. n - 1 : k \in FirstRun(out) <=> 0 .. k \subseteq out
    <2>1. \A k \in 0 .. n - 1 : k \in 0 .. k
      BY <1>3
    <2>2. QED
      BY <2>1 DEF FirstRun
  <1>6. box.adjLow \in Int /\ box.adjHigh \in Int
    BY <1>1, <1>4
  <1>7. ASSUME NEW k \in 0 .. n - 1, k \notin box.low PROVE box.adjLow <= V[k] \/ k \in box.high
    <2>1. CASE settings.whiskerMin # 0
      <3>1. lo \in 0 .. n - 1 /\ lo <= k
        BY <1>1, <1>3, <1>7, <2>1
      <3>2. QED
        BY <1>1, <1>4, <2>1, <3>1
    <2>2. CASE settings.whiskerMin = 0
      <3>1. ~(0 .. k \subseteq out)
        BY <1>1, <1>5, <1>7, <2>2
      <3>2. PICK j \in 0 .. k : j \notin out
        BY <3>1
      <3>3. j \in (0 .. n - 1) \ out /\ j <= k
        BY <1>3, <3>2
      <3>4. Min(within) <= V[j] /\ V[j] <= V[k]
        BY <1>1, <1>4, <3>3
      <3>5. QED
        BY <1>1, <1>4, <2>2, <3>3, <3>4
    <2>3. QED
      BY <2>1, <2>2
  <1>8. ASSUME NEW k \in 0 .. n - 1, k \notin box.high PROVE V[k] <= box.adjHigh
    <2>1. CASE settings.whiskerMax # 0
      <3>1. n - hi - 1 \in 0 .. n - 1 /\ k <= n - hi - 1
        BY <1>1, <1>3, <1>8, <2>1
      <3>2. QED
        BY <1>1, <1>4, <2>1, <3>1
    <2>2. CASE settings.whiskerMax = 0
      <3>1. k \notin out \/ 0 .. k \subseteq out
        BY <1>1, <1>5, <1>8, <2>2
      <3>2. PICK m \in (0 .. n - 1) \ out : k <= m
        <4>1. CASE k \notin out
          BY <1>3, <4>1
        <4>2. CASE 0 .. k \subseteq out
          <5>1. PICK m \in (0 .. n - 1) \ out : TRUE
            BY <1>2
          <5>2. m \notin 0 .. k
            BY <4>2, <5>1
          <5>3. k <= m
            BY <1>3, <5>1, <5>2
          <5>4. QED
            BY <5>1, <5>3
        <4>3. QED
          BY <3>1, <4>1, <4>2
      <3>3. V[k] <= V[m] /\ V[m] <= Max(within)
        BY <1>1, <1>4, <3>2
      <3>4. QED
        BY <1>1, <1>4, <2>2, <3>2, <3>3
    <2>3. QED
      BY <2>1, <2>2
  <1>9. \A k \in 0 .. n - 1 :
          k \in box.low \cup box.high \/ Nth(S, k) \in box.adjLow .. box.adjHigh
    <2> SUFFICES ASSUME NEW k \in 0 .. n - 1, k \notin box.low, k \notin box.high
                 PROVE  Nth(S, k) \in box.adjLow .. box.adjHigh
      OBVIOUS
    <2>1. box.adjLow <= V[k] /\ V[k] <= box.adjHigh /\ V[k] \in Int /\ V[k] = Nth(S, k)
      BY <1>1, <1>4, <1>7, <1>8
    <2>2. QED
      BY <1>6, <2>1
  <1>10. ASSUME settings.whiskerMin # 0
         PROVE  Hundred * Cardinality(Lower(S, box.adjLow)) <= n * settings.whiskerMin
    <2>1. lo \in 0 .. n - 1 /\ box.adjLow = Nth(S, lo)
      BY <1>1, <1>10
    <2>2. Cardinality(Lower(S, box.adjLow)) \in 0 .. lo
      BY <2>1, NthShares DEF n
    <2>3. Hundred * lo <= n * settings.whiskerMin
      BY <1>3, PercentilesFit DEF lo
    <2>4. QED
      BY <1>3, <2>1, <2>2, <2>3, HundredFold
  <1>11. ASSUME settings.whiskerMax \in 1 .. Hundred
         PROVE  Hundred * Cardinality(Higher(S, box.adjHigh)) <= n * (Hundred - settings.whiskerMax)
    <2>1. /\ Hundred - settings.whiskerMax \in Nat
          /\ hi \in 0 .. n - 1 /\ n - hi - 1 \in 0 .. n - 1 /\ box.adjHigh = Nth(S, n - hi - 1)
      BY <1>1, <1>11, HundredAssumption
    <2>2. Cardinality(Higher(S, box.adjHigh)) \in 0 .. n - (n - hi - 1) - 1
      BY <2>1, NthShares DEF n
    <2>3. Cardinality(Higher(S, box.adjHigh)) \in 0 .. hi
      BY <1>3, <2>1, <2>2
    <2>4. Hundred * hi <= n * (Hundred - settings.whiskerMax)
      BY <1>3, <2>1, PercentilesFit DEF hi
    <2>5. n * (Hundred - settings.whiskerMax) \in Nat
      BY <1>3, <2>1
    <2>6. QED
      BY <1>3, <2>1, <2>3, <2>4, <2>5, HundredFold
  <1>12. QED
    BY <1>9, <1>10, <1>11 DEF KeepsEvery, n, box


(* Whiskers that do not cross show no outlier twice.                       *)
LEMMA BoxApart ==
  ASSUME NEW S, Measures(S), S # {}, WhiskersTyped, ~NoWhisker(Cardinality(S)), Uncrossed
  PROVE  Box(S).low \cap Box(S).high = {}
  <1> DEFINE n == Cardinality(S)
             V == Sorted(S)
             out == Outside(V, n)
             within == {V[k] : k \in (0 .. n - 1) \ out}
             lo == Percentiles(n, settings.whiskerMin)
             hi == Percentiles(n, Hundred - settings.whiskerMax)
             box == Box(S)
             mid == (n \div 2) \div 2
  <1>1. /\ SortedRtts(V, n)
        /\ box.low = IF settings.whiskerMin # 0 THEN 0 .. lo - 1 ELSE FirstRun(out)
        /\ box.high = IF settings.whiskerMax # 0 THEN n - hi .. n - 1 ELSE out \ FirstRun(out)
        /\ settings.whiskerMin # 0 => lo \in 0 .. n - 1
        /\ settings.whiskerMax # 0 => hi \in 0 .. n - 1
    BY BoxParts
  <1>2. /\ out \subseteq 0 .. n - 1 /\ mid \in (0 .. n - 1) \ out /\ 2 * mid <= n
        /\ \A k \in out : k < n \div 2 => 0 .. k \subseteq out
    BY <1>1, OutsideShape
  <1>3. n \in Nat /\ settings.whiskerMin \in Nat /\ settings.whiskerMax \in Nat
    BY <1>1 DEF SortedRtts, WhiskersTyped
  <1>4. 2 * lo <= n
    BY <1>3, AtMostHalf DEF Uncrossed
  <1>5. settings.whiskerMax \in 1 .. Hundred => 2 * hi <= n
    <2> SUFFICES ASSUME settings.whiskerMax \in 1 .. Hundred PROVE 2 * hi <= n
      OBVIOUS
    <2>1. Hundred - settings.whiskerMax \in Nat /\ 2 * (Hundred - settings.whiskerMax) <= Hundred
      BY <1>3, HundredAssumption DEF Uncrossed
    <2>2. QED
      BY <1>3, <2>1, AtMostHalf
  <1> HIDE DEF n, V, out, lo, hi, box, mid
  <1>6. \A k \in 0 .. n - 1 : k \in FirstRun(out) <=> 0 .. k \subseteq out
    <2>1. \A k \in 0 .. n - 1 : k \in 0 .. k
      BY <1>3
    <2>2. QED
      BY <2>1 DEF FirstRun
  <1> SUFFICES ASSUME NEW k \in box.low, k \in box.high PROVE FALSE
    BY DEF box
  <1>7. CASE settings.whiskerMin # 0 /\ settings.whiskerMax # 0
    <2>1. CASE settings.whiskerMax <= Hundred
      <3>1. 2 * hi <= n /\ k \in 0 .. lo - 1 /\ k \in n - hi .. n - 1
        BY <1>1, <1>3, <1>5, <1>7, <2>1, HundredAssumption
      <3>2. QED
        BY <1>1, <1>3, <1>4, <1>7, <3>1
    <2>2. CASE ~(settings.whiskerMax <= Hundred)
      <3>1. k \in 0 .. lo - 1 /\ k \in n - hi .. n - 1 /\ hi \in Nat /\ lo \in Nat
        BY <1>1, <1>7
      <3>2. hi = 0
        BY <1>3, <2>2, <3>1, NegativePercentiles DEF hi
      <3>3. QED
        BY <1>3, <3>1, <3>2
    <2>3. QED
      BY <2>1, <2>2
  <1>8. CASE settings.whiskerMin # 0 /\ settings.whiskerMax = 0
    <2>1. k \in 0 .. lo - 1 /\ k \in out /\ k \notin FirstRun(out) /\ lo \in 0 .. n - 1
      BY <1>1, <1>8
    <2>2. k < n \div 2 /\ k \in 0 .. n - 1
      BY <1>3, <1>4, <2>1
    <2>3. QED
      BY <1>2, <1>6, <2>1, <2>2
  <1>9. CASE settings.whiskerMin = 0 /\ settings.whiskerMax # 0
    <2>1. k \in FirstRun(out) /\ k \in n - hi .. n - 1 /\ hi \in 0 .. n - 1
      BY <1>1, <1>9
    <2>2. k \in 0 .. n - 1 /\ 0 .. k \subseteq out
      BY <1>2, <1>6, <2>1 DEF FirstRun
    <2>3. 2 * hi <= n
      <3>1. CASE settings.whiskerMax <= Hundred
        BY <1>3, <1>5, <1>9, <3>1, HundredAssumption
      <3>2. CASE ~(settings.whiskerMax <= Hundred)
        BY <1>3, <2>1, <3>2, NegativePercentiles DEF hi
      <3>3. QED
        BY <3>1, <3>2
    <2>4. mid \in 0 .. k
      BY <1>2, <1>3, <2>1, <2>2, <2>3
    <2>5. QED
      BY <1>2, <2>2, <2>4
  <1>10. CASE settings.whiskerMin = 0 /\ settings.whiskerMax = 0
    BY <1>1, <1>10
  <1>11. QED
    BY <1>7, <1>8, <1>9, <1>10


----------------------------------------------------------------------------
(* The limits of an axis.                                                  *)

Removed == settings.percentilesToRemove \in Nat

(* A wider axis cuts off no more.                                          *)
LEMMA WiderCuts ==
  ASSUME NEW S, Measures(S), NEW v \in Int, NEW w \in Int, v <= w
  PROVE  /\ Cardinality(Lower(S, v)) \in Nat /\ Cardinality(Higher(S, w)) \in Nat
         /\ Cardinality(Lower(S, v)) <= Cardinality(Lower(S, w))
         /\ Cardinality(Higher(S, w)) <= Cardinality(Higher(S, v))
  <1>1. \A U \in SUBSET S : IsFiniteSet(U) /\ Cardinality(U) \in Nat
    BY FS_Subset, FS_CardinalityType DEF Measures
  <1>2. \A U, W \in SUBSET S : U \subseteq W => Cardinality(U) <= Cardinality(W)
    BY <1>1, FS_Subset
  <1>3. /\ Lower(S, v) \in SUBSET S /\ Lower(S, w) \in SUBSET S
        /\ Higher(S, v) \in SUBSET S /\ Higher(S, w) \in SUBSET S
    BY DEF Lower, Higher
  <1>4. Lower(S, v) \subseteq Lower(S, w) /\ Higher(S, w) \subseteq Higher(S, v)
    BY DEF Lower, Higher, Measures
  <1>5. QED
    BY <1>1, <1>2, <1>3, <1>4

(* The trimmed limits are two of the values; they cut off no more than     *)
(* asked for, and are the right way round if less than half goes.          *)
LEMMA LimitsCut ==
  ASSUME NEW S, Measures(S), Removed, ~OutOfRange(Cardinality(S))
  PROVE  LET cut == (Cardinality(S) * settings.percentilesToRemove) \div Hundred
         IN  /\ Limits(S).low \in Int /\ Limits(S).high \in Int
             /\ Limits(S).low \in Rtts(S) /\ Limits(S).high \in Rtts(S)
             /\ cut \in Nat
             /\ Cardinality(Lower(S, Limits(S).low)) <= cut
             /\ Cardinality(Higher(S, Limits(S).high)) <= cut
             /\ 2 * settings.percentilesToRemove < Hundred => Limits(S).low <= Limits(S).high
  <1> DEFINE n == Cardinality(S)
             p == settings.percentilesToRemove
             t == Trimmed(n)
             cut == (n * p) \div Hundred
  <1>1. n \in Nat /\ p \in Nat /\ n * p \in Nat
    BY FS_CardinalityType DEF Measures, Removed
  <1>2. t \in Nat /\ t <= cut /\ cut \in Nat
    <2>1. t \in Nat /\ Hundred * t <= n * p
      BY <1>1, PercentilesFit DEF Trimmed
    <2>2. cut \in Nat
      BY <1>1, HundredAssumption
    <2>3. t <= cut
      BY <1>1, <2>1, WholeShare
    <2>4. QED
      BY <2>1, <2>2, <2>3
  <1>3. t \in 0 .. n - 1 /\ n - t - 1 \in 0 .. n - 1
    BY DEF OutOfRange, LowIndex, HighIndex
  <1>4. Limits(S).low = Nth(S, t) /\ Limits(S).high = Nth(S, n - t - 1)
    BY DEF Limits, LowIndex, HighIndex
  <1>5. 2 * p < Hundred => t <= n - t - 1
    <2> SUFFICES ASSUME 2 * p < Hundred PROVE t <= n - t - 1
      OBVIOUS
    <2>1. n # 0
      BY <1>1, <1>3
    <2>2. 2 * Percentiles(n, p) < n
      BY <1>1, <2>1, AtMostHalf, HundredAssumption
    <2>3. QED
      BY <1>1, <1>2, <2>2 DEF Trimmed
  <1> HIDE DEF n, p, t, cut
  <1>6. /\ Nth(S, t) \in Rtts(S) /\ Nth(S, t) \in Int
        /\ Nth(S, n - t - 1) \in Rtts(S) /\ Nth(S, n - t - 1) \in Int
        /\ Cardinality(Lower(S, Nth(S, t))) \in 0 .. t
        /\ Cardinality(Higher(S, Nth(S, n - t - 1))) \in 0 .. n - (n - t - 1) - 1
        /\ t <= n - t - 1 => Nth(S, t) <= Nth(S, n - t - 1)
    BY <1>3, NthIs, NthShares, NthSorted DEF n
  <1>7. Cardinality(Higher(S, Nth(S, n - t - 1))) \in 0 .. t
    BY <1>1, <1>2, <1>6
  <1>8. QED
    BY <1>2, <1>4, <1>5, <1>6, <1>7 DEF n, p, cut

(* An axis that takes in the trimmed limits keeps the middle.              *)
LEMMA AxisKeeps ==
  ASSUME NEW S, Measures(S), Removed, ~OutOfRange(Cardinality(S)), NEW axis,
         settings.rttMin = 0 => axis.low \in Int /\ axis.low <= Limits(S).low,
         settings.rttMax = 0 => axis.high \in Int /\ axis.high >= Limits(S).high
  PROVE  KeepsMiddle(S, axis)
  <1> DEFINE cut == (Cardinality(S) * settings.percentilesToRemove) \div Hundred
             low == Limits(S).low
             high == Limits(S).high
  <1>1. /\ low \in Int /\ high \in Int /\ cut \in Nat
        /\ Cardinality(Lower(S, low)) <= cut
        /\ Cardinality(Higher(S, high)) <= cut
    BY LimitsCut
  <1> HIDE DEF cut, low, high
  <1>2. settings.rttMin = 0 => Cardinality(Lower(S, axis.low)) <= cut
    <2> SUFFICES ASSUME settings.rttMin = 0 PROVE Cardinality(Lower(S, axis.low)) <= cut
      OBVIOUS
    <2>1. axis.low \in Int /\ axis.low <= low
      BY DEF low
    <2>2. /\ Cardinality(Lower(S, axis.low)) \in Nat
          /\ Cardinality(Lower(S, axis.low)) <= Cardinality(Lower(S, low))
          /\ Cardinality(Lower(S, low)) \in Nat
      BY <1>1, <2>1, WiderCuts
    <2>3. QED
      BY <1>1, <2>2
  <1>3. settings.rttMax = 0 => Cardinality(Higher(S, axis.high)) <= cut
    <2> SUFFICES ASSUME settings.rttMax = 0 PROVE Cardinality(Higher(S, axis.high)) <= cut
      OBVIOUS
    <2>1. axis.high \in Int /\ high <= axis.high
      BY <1>1 DEF high
    <2>2. /\ Cardinality(Higher(S, axis.high)) \in Nat
          /\ Cardinality(Higher(S, axis.high)) <= Cardinality(Higher(S, high))
          /\ Cardinality(Higher(S, high)) \in Nat
      BY <1>1, <2>1, WiderCuts
    <2>3. QED
      BY <1>1, <2>2
  <1>4. QED
    BY <1>2, <1>3 DEF KeepsMiddle, Lower, Higher, cut

\* What LimitsKeepTheMiddle says of an axis.
Upright(axis) ==
  settings.rttMin = 0 /\ settings.rttMax = 0 /\ 2 * settings.percentilesToRemove < Hundred
    => axis.low <= axis.high

(* The axis of one plot's own limits.                                      *)
LEMMA OwnAxis ==
  ASSUME NEW S, Measures(S), Removed, ~OutOfRange(Cardinality(S))
  PROVE  KeepsMiddle(S, Axis(Limits(S))) /\ Upright(Axis(Limits(S)))
  <1>1. /\ Limits(S).low \in Int /\ Limits(S).high \in Int
        /\ 2 * settings.percentilesToRemove < Hundred => Limits(S).low <= Limits(S).high
    BY LimitsCut
  <1>2. /\ settings.rttMin = 0 => Axis(Limits(S)).low = Limits(S).low
        /\ settings.rttMax = 0 => Axis(Limits(S)).high = Limits(S).high
    BY DEF Axis
  <1>3. KeepsMiddle(S, Axis(Limits(S)))
    BY <1>1, <1>2, AxisKeeps
  <1>4. QED
    BY <1>1, <1>2, <1>3 DEF Upright

(* The span of several limits takes in each.                               *)
LEMMA SpanTakesIn ==
  ASSUME NEW L, IsFiniteSet(L), L # {}, \A l \in L : l.low \in Int /\ l.high \in Int
  PROVE  /\ Span(L).low \in Int /\ Span(L).high \in Int
         /\ \A l \in L : Span(L).low <= l.low /\ Span(L).high >= l.high
         /\ (\A l \in L : l.low <= l.high) => Span(L).low <= Span(L).high
  <1> DEFINE A == {l.low : l \in L}
             B == {l.high : l \in L}
             f == [l \in L |-> l.low]
             g == [l \in L |-> l.high]
  <1>1. f \in Surjection(L, A) /\ g \in Surjection(L, B)
    BY DEF Surjection
  <1>2. IsFiniteSet(A) /\ IsFiniteSet(B)
    BY <1>1, FS_Surjection
  <1>3. A # {} /\ B # {} /\ A \subseteq Int /\ B \subseteq Int
    OBVIOUS
  <1>4. \A l \in L : l.low \in A /\ l.high \in B
    OBVIOUS
  <1>5. Span(L).low = Min(A) /\ Span(L).high = Max(B)
    BY DEF Span
  <1> HIDE DEF A, B
  <1>6. /\ Min(A) \in Int /\ \A y \in A : Min(A) <= y
        /\ Max(B) \in Int /\ \A y \in B : Max(B) >= y
    BY <1>2, <1>3, LeastOf, GreatestOf
  <1>7. \A l \in L : Min(A) <= l.low /\ Max(B) >= l.high
    BY <1>4, <1>6
  <1>8. PICK l \in L : TRUE
    OBVIOUS
  <1>9. QED
    BY <1>5, <1>6, <1>7, <1>8


(* Points in a line, each of a row of its own.                             *)
LEMMA LineMeasures ==
  ASSUME NEW line, NEW n \in Nat, DOMAIN line = 1 .. n,
         \A i \in 1 .. n : line[i].rtt \in Int,
         \A i, j \in 1 .. n : line[i].row = line[j].row => i = j
  PROVE  Measures(ToSet(line)) /\ Cardinality(ToSet(line)) = n
  <1> DEFINE f == [i \in 1 .. n |-> line[i]]
  <1>1. ToSet(line) = {line[i] : i \in 1 .. n}
    BY DEF ToSet
  <1>2. f \in Bijection(1 .. n, ToSet(line))
    <2>1. f \in [1 .. n -> ToSet(line)]
      BY <1>1
    <2>2. \A i, j \in 1 .. n : f[i] = f[j] => i = j
      OBVIOUS
    <2>3. \A y \in ToSet(line) : \E i \in 1 .. n : f[i] = y
      BY <1>1
    <2> HIDE DEF f
    <2>4. f \in Injection(1 .. n, ToSet(line))
      BY <2>1, <2>2 DEF Injection, IsInjective
    <2>5. f \in Surjection(1 .. n, ToSet(line))
      BY <2>1, <2>3 DEF Surjection
    <2>6. QED
      BY <2>4, <2>5 DEF Bijection
  <1>3. IsFiniteSet(1 .. n) /\ Cardinality(1 .. n) = n
    BY FirstNumbers
  <1>4. IsFiniteSet(ToSet(line)) /\ Cardinality(ToSet(line)) = n
    BY <1>2, <1>3, FS_Bijection DEF ExistsBijection
  <1>5. QED
    BY <1>1, <1>4 DEF Measures

----------------------------------------------------------------------------
(* A sequence, and one more.                                               *)
LEMMA PlotAdded ==
  ASSUME NEW s, s \in Seq(ToSet(s)), NEW e
  PROVE  LET t == Append(s, e)
             n == Len(s)
         IN /\ n \in Nat /\ t \in Seq(ToSet(t)) /\ Len(t) = n + 1
            /\ DOMAIN s = 1 .. n /\ DOMAIN t = 1 .. n + 1
            /\ \A i \in 1 .. n : t[i] = s[i]
            /\ t[n + 1] = e
  <1> DEFINE t == Append(s, e)
             n == Len(s)
             S == ToSet(s) \cup {e}
  <1>1. s \in Seq(S) /\ e \in S
    BY SeqMonotonic
  <1>2. /\ n \in Nat /\ DOMAIN s = 1 .. n
        /\ t \in Seq(S) /\ Len(t) = n + 1 /\ \A i \in 1 .. n : t[i] = s[i]
        /\ t[n + 1] = e
    BY <1>1, LenProperties, AppendProperties
  <1>3. DOMAIN t = 1 .. n + 1
    BY <1>2, LenProperties
  <1>4. t \in Seq(ToSet(t))
    BY <1>2, SeqOfRange DEF ToSet, Range
  <1>5. QED
    BY <1>2, <1>3, <1>4
=============================================================================
