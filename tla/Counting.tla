------------------------------ MODULE Counting ------------------------------
(***************************************************************************)
(* Lemmas about how many elements of a sequence are in a set, and what the *)
(* four changes a model makes to a sequence of goroutines do to that       *)
(* number: one more, one that moves on, one that is gone, none left.       *)
(***************************************************************************)
EXTENDS Sequences, Integers, FiniteSetTheorems, SequenceTheorems, TLAPS

\* The places of s that hold an element of T, and their number.
Hits(s, T) == {k \in DOMAIN s : s[k] \in T}
Count(s, T) == Cardinality(Hits(s, T))

\* What an element adds to the number.
Weight(x, T) == IF x \in T THEN 1 ELSE 0

\* The sequence without its h-th element.
Without(s, h) == SubSeq(s, 1, h - 1) \o SubSeq(s, h + 1, Len(s))

(* The places are a finite set, so that their number is a number.          *)
LEMMA HitsFinite ==
  ASSUME NEW S, NEW s \in Seq(S), NEW T
  PROVE  /\ IsFiniteSet(Hits(s, T))
         /\ Count(s, T) \in Nat
         /\ Count(s, T) = 0 <=> \A k \in DOMAIN s : s[k] \notin T
  <1>1. DOMAIN s = 1 .. Len(s) /\ Len(s) \in Int
    BY LenProperties
  <1>2. IsFiniteSet(DOMAIN s)
    BY <1>1, FS_Interval
  <1>3. IsFiniteSet(Hits(s, T))
    BY <1>2, FS_Subset DEF Hits
  <1>4. Count(s, T) = 0 <=> Hits(s, T) = {}
    BY <1>3, FS_EmptySet DEF Count
  <1>5. QED
    BY <1>3, <1>4, FS_CardinalityType DEF Count, Hits

(* One more.                                                               *)
LEMMA CountAppend ==
  ASSUME NEW S, NEW s \in Seq(S), NEW x \in S, NEW T
  PROVE  Count(Append(s, x), T) = Count(s, T) + Weight(x, T)
  <1> DEFINE n == Len(s)
             t == Append(s, x)
  <1>1. n \in Nat /\ DOMAIN s = 1 .. n
    BY LenProperties
  <1>2. /\ DOMAIN t = 1 .. n + 1
        /\ \A k \in 1 .. n : t[k] = s[k]
        /\ t[n + 1] = x
    BY AppendProperties, LenProperties
  <1>3. IsFiniteSet(Hits(s, T)) /\ Count(s, T) \in Nat /\ n + 1 \notin Hits(s, T)
    <2>1. IsFiniteSet(Hits(s, T)) /\ Count(s, T) \in Nat
      BY HitsFinite
    <2>2. n + 1 \notin DOMAIN s
      BY <1>1
    <2>3. QED
      BY <2>1, <2>2 DEF Hits
  <1> HIDE DEF t, n
  <1>4. CASE x \in T
    <2>1. Hits(t, T) = Hits(s, T) \cup {n + 1}
      BY <1>1, <1>2, <1>4 DEF Hits
    <2>2. QED
      BY <1>3, <1>4, <2>1, FS_AddElement DEF Count, Weight, t
  <1>5. CASE x \notin T
    <2>1. Hits(t, T) = Hits(s, T)
      BY <1>1, <1>2, <1>5 DEF Hits
    <2>2. QED
      BY <1>3, <1>5, <2>1 DEF Count, Weight, t
  <1>6. QED
    BY <1>4, <1>5

(* The places but one.                                                     *)
LEMMA CountBut ==
  ASSUME NEW S, NEW s \in Seq(S), NEW h \in DOMAIN s, NEW T
  PROVE  /\ IsFiniteSet(Hits(s, T) \ {h})
         /\ Cardinality(Hits(s, T) \ {h}) = Count(s, T) - Weight(s[h], T)
         /\ Count(s, T) - Weight(s[h], T) \in Nat
  <1>1. IsFiniteSet(Hits(s, T)) /\ Count(s, T) \in Nat
    BY HitsFinite
  <1>2. /\ IsFiniteSet(Hits(s, T) \ {h})
        /\ Cardinality(Hits(s, T) \ {h}) =
             IF h \in Hits(s, T) THEN Count(s, T) - 1 ELSE Count(s, T)
    BY <1>1, FS_RemoveElement DEF Count
  <1>3. h \in Hits(s, T) <=> s[h] \in T
    BY DEF Hits
  <1>4. Cardinality(Hits(s, T) \ {h}) \in Nat
    BY <1>2, FS_CardinalityType
  <1>5. QED
    BY <1>1, <1>2, <1>3, <1>4 DEF Weight

(* One that moves on.                                                      *)
LEMMA CountReplace ==
  ASSUME NEW S, NEW s \in Seq(S), NEW t \in Seq(S), NEW h \in DOMAIN s, NEW T,
         DOMAIN t = DOMAIN s, \A k \in DOMAIN s : k # h => t[k] = s[k]
  PROVE  Count(t, T) = Count(s, T) - Weight(s[h], T) + Weight(t[h], T)
  <1> DEFINE B == Hits(s, T) \ {h}
  <1>1. IsFiniteSet(B) /\ Cardinality(B) = Count(s, T) - Weight(s[h], T) /\ h \notin B
        /\ Cardinality(B) \in Nat
    <2>1. /\ IsFiniteSet(Hits(s, T) \ {h})
          /\ Cardinality(Hits(s, T) \ {h}) = Count(s, T) - Weight(s[h], T)
          /\ Count(s, T) - Weight(s[h], T) \in Nat
      BY CountBut
    <2>2. QED
      BY <2>1
  <1>2. Hits(t, T) = IF t[h] \in T THEN B \cup {h} ELSE B
    BY DEF Hits
  <1> HIDE DEF B
  <1>3. CASE t[h] \in T
    <2>1. Cardinality(B \cup {h}) = Cardinality(B) + 1
      BY <1>1, FS_AddElement
    <2>2. QED
      BY <1>1, <1>2, <1>3, <2>1 DEF Count, Weight
  <1>4. CASE t[h] \notin T
    BY <1>1, <1>2, <1>4 DEF Count, Weight
  <1>5. QED
    BY <1>3, <1>4

\* Where the elements of Without(s, h) were in s.
Was(h, k) == IF k < h THEN k ELSE k + 1

(* The sequence without an element, place by place.                        *)
LEMMA WithoutProperties ==
  ASSUME NEW S, NEW s \in Seq(S), NEW h \in DOMAIN s
  PROVE  /\ Without(s, h) \in Seq(S)
         /\ DOMAIN s = 1 .. Len(s) /\ Len(s) \in Nat
         /\ DOMAIN Without(s, h) = 1 .. Len(s) - 1
         /\ \A k \in 1 .. Len(s) - 1 :
              Was(h, k) \in DOMAIN s /\ Was(h, k) # h
              /\ Without(s, h)[k] = s[Was(h, k)]
  <1> DEFINE n == Len(s)
             u == SubSeq(s, 1, h - 1)
             v == SubSeq(s, h + 1, n)
  <1>1. n \in Nat /\ DOMAIN s = 1 .. n /\ h \in 1 .. n
    BY LenProperties
  <1>2. \A k \in 1 .. n : s[k] \in S
    BY <1>1, ElementOfSeq
  <1>3. /\ u \in Seq(S) /\ Len(u) = h - 1
        /\ \A k \in 1 .. h - 1 : u[k] = s[k]
    <2>1. \A k \in 1 .. h - 1 : s[k] \in S
      BY <1>1, <1>2
    <2>2. /\ u \in Seq(S) /\ Len(u) = IF 1 <= h - 1 THEN h - 1 - 1 + 1 ELSE 0
          /\ \A k \in 1 .. h - 1 - 1 + 1 : u[k] = s[1 + k - 1]
      BY <1>1, <2>1, SubSeqProperties
    <2>3. QED
      BY <1>1, <2>2
  <1>4. /\ v \in Seq(S) /\ Len(v) = n - h
        /\ \A k \in 1 .. n - h : v[k] = s[h + k]
    <2>1. \A k \in h + 1 .. n : s[k] \in S
      BY <1>1, <1>2
    <2>2. /\ v \in Seq(S) /\ Len(v) = IF h + 1 <= n THEN n - (h + 1) + 1 ELSE 0
          /\ \A k \in 1 .. n - (h + 1) + 1 : v[k] = s[h + 1 + k - 1]
      BY <1>1, <2>1, SubSeqProperties
    <2>3. QED
      BY <1>1, <2>2
  <1> HIDE DEF n, u, v
  <1>5. /\ u \o v \in Seq(S) /\ Len(u \o v) = n - 1
        /\ \A k \in 1 .. n - 1 : (u \o v)[k] = IF k <= h - 1 THEN u[k] ELSE v[k - (h - 1)]
    <2>1. /\ u \o v \in Seq(S) /\ Len(u \o v) = Len(u) + Len(v)
          /\ \A k \in 1 .. Len(u) + Len(v) :
               (u \o v)[k] = IF k <= Len(u) THEN u[k] ELSE v[k - Len(u)]
      BY <1>3, <1>4, ConcatProperties
    <2>2. QED
      BY <1>1, <1>3, <1>4, <2>1
  <1>6. ASSUME NEW k \in 1 .. n - 1
        PROVE  /\ Was(h, k) \in 1 .. n /\ Was(h, k) # h
               /\ (u \o v)[k] = s[Was(h, k)]
    <2>1. CASE k < h
      BY <1>1, <1>3, <1>5, <2>1 DEF Was
    <2>2. CASE ~(k < h)
      <3>1. k - (h - 1) \in 1 .. n - h /\ h + (k - (h - 1)) = k + 1
        BY <1>1, <2>2
      <3>2. v[k - (h - 1)] = s[k + 1]
        BY <1>4, <3>1
      <3>3. (u \o v)[k] = v[k - (h - 1)]
        BY <1>1, <1>5, <2>2
      <3>4. Was(h, k) = k + 1 /\ k + 1 \in 1 .. n /\ k + 1 # h
        BY <1>1, <2>2 DEF Was
      <3>5. QED
        BY <3>2, <3>3, <3>4
    <2>3. QED
      BY <2>1, <2>2
  <1>7. DOMAIN (u \o v) = 1 .. n - 1
    BY <1>5, LenProperties
  <1>8. QED
    BY <1>1, <1>5, <1>6, <1>7 DEF Without, n, u, v

(* One that is gone.                                                       *)
LEMMA CountWithout ==
  ASSUME NEW S, NEW s \in Seq(S), NEW h \in DOMAIN s, NEW T,
         NEW t, t = Without(s, h)
  PROVE  Count(t, T) = Count(s, T) - Weight(s[h], T)
  <1> DEFINE A == Hits(t, T)
             B == Hits(s, T) \ {h}
             f == [k \in A |-> Was(h, k)]
  <1>1. /\ t \in Seq(S)
        /\ DOMAIN s = 1 .. Len(s) /\ Len(s) \in Nat
        /\ DOMAIN t = 1 .. Len(s) - 1
        /\ \A k \in 1 .. Len(s) - 1 :
             Was(h, k) \in DOMAIN s /\ Was(h, k) # h /\ t[k] = s[Was(h, k)]
    BY WithoutProperties
  <1>2. PICK n \in Nat : n = Len(s)
    BY <1>1
  <1>3. f \in [A -> B]
    BY <1>1 DEF Hits
  <1>4. \A j, k \in A : f[j] = f[k] => j = k
    <2>1. A \subseteq Int /\ h \in Int
      BY <1>1 DEF Hits
    <2>2. QED
      BY <2>1 DEF Was
  <1>5. \A b \in B : \E k \in A : f[k] = b
    <2> SUFFICES ASSUME NEW b \in B PROVE \E k \in A : f[k] = b
      OBVIOUS
    <2>1. b \in 1 .. n /\ h \in 1 .. n /\ b # h /\ s[b] \in T
      BY <1>1, <1>2 DEF Hits
    <2> DEFINE k == IF b < h THEN b ELSE b - 1
    <2>2. k \in 1 .. n - 1 /\ Was(h, k) = b
      BY <2>1 DEF Was
    <2>3. k \in A
      BY <1>1, <1>2, <2>1, <2>2 DEF Hits
    <2>4. QED
      BY <2>2, <2>3
  <1>6. f \in Bijection(A, B)
    <2> HIDE DEF f, A, B
    <2>1. f \in Injection(A, B)
      BY <1>3, <1>4 DEF Injection, IsInjective
    <2>2. f \in Surjection(A, B)
      BY <1>3, <1>5 DEF Surjection
    <2>3. QED
      BY <2>1, <2>2 DEF Bijection
  <1>7. IsFiniteSet(A)
    BY <1>1, HitsFinite
  <1>8. Cardinality(B) = Cardinality(A)
    BY <1>6, <1>7, FS_Bijection DEF ExistsBijection
  <1>9. QED
    BY <1>8, CountBut DEF Count
=============================================================================
