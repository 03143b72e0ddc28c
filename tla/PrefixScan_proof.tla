-------------------------- MODULE PrefixScan_proof --------------------------
(***************************************************************************)
(* Proofs about PrefixScan, for any byte range, any keys of any length,    *)
(* any prefixes and limits and any number of writes during a scan.         *)
(***************************************************************************)
EXTENDS PrefixScan, SequenceTheorems, Extrema

ByteStrings == Seq(Bytes)

-----------------------------------------------------------------------------
(* Less is a strict total order.                                            *)

(* Two different keys have a first place where they differ, or one ends.    *)
LEMMA FirstDifference ==
  ASSUME NEW a \in ByteStrings, NEW b \in ByteStrings, a # b
  PROVE  \E n \in Nat : /\ n <= Len(a) /\ n <= Len(b)
                        /\ \A i \in 1 .. n : a[i] = b[i]
                        /\ n < Len(a) /\ n < Len(b) => a[n + 1] # b[n + 1]
                        /\ n < Len(a) \/ n < Len(b)
<1> DEFINE T == {n \in Nat : \/ n >= Len(a) \/ n >= Len(b)
                             \/ n < Len(a) /\ n < Len(b) /\ a[n + 1] # b[n + 1]}
<1>0. Len(a) \in Nat /\ Len(b) \in Nat
  BY LenProperties DEF ByteStrings
<1>1. T \in SUBSET Nat /\ Len(a) \in T
  BY <1>0
<1>2. PICK n \in T : \A j \in T : n <= j
  <2> HIDE DEF T
  <2> QED BY <1>1, MinExists
<1>3. \A j \in 0 .. (n - 1) : j < Len(a) /\ j < Len(b) /\ a[j + 1] = b[j + 1]
  <2> SUFFICES ASSUME NEW j \in 0 .. (n - 1)
               PROVE  j < Len(a) /\ j < Len(b) /\ a[j + 1] = b[j + 1]
    OBVIOUS
  <2>1. j \notin T
    BY <1>2
  <2> QED
    BY <1>0, <2>1
<1>4. \A i \in 1 .. n : a[i] = b[i] /\ i <= Len(a) /\ i <= Len(b)
  <2> SUFFICES ASSUME NEW i \in 1 .. n
               PROVE  a[i] = b[i] /\ i <= Len(a) /\ i <= Len(b)
    OBVIOUS
  <2>1. PICK j \in 0 .. (n - 1) : j + 1 = i
    <3>1. i - 1 \in 0 .. (n - 1) /\ (i - 1) + 1 = i
      OBVIOUS
    <3> QED
      BY <3>1
  <2>2. j < Len(a) /\ j < Len(b) /\ a[j + 1] = b[j + 1]
    BY <1>3
  <2> QED
    BY <1>0, <2>1, <2>2
<1>5. n \in Nat /\ n <= Len(a) /\ n <= Len(b)
  BY <1>0, <1>4
<1>6. n < Len(a) \/ n < Len(b)
  <2> SUFFICES ASSUME ~(n < Len(a)), ~(n < Len(b))
               PROVE  FALSE
    OBVIOUS
  <2>1. Len(a) = n /\ Len(b) = n
    BY <1>0, <1>5
  <2> QED
    BY <1>4, <2>1, SeqEqual DEF ByteStrings
<1>7. n < Len(a) /\ n < Len(b) => a[n + 1] # b[n + 1]
  BY <1>0, <1>2
<1> QED
  BY <1>4, <1>5, <1>6, <1>7

LEMMA ByteAt ==
  ASSUME NEW a \in ByteStrings
  PROVE  Len(a) \in Nat /\ \A i \in 1 .. Len(a) : a[i] \in Nat /\ a[i] <= MaxByte
BY LenProperties, ElementOfSeq, PrefixScanAssumption DEF ByteStrings, Bytes

LEMMA LessTotal ==
  ASSUME NEW a \in ByteStrings, NEW b \in ByteStrings
  PROVE  Less(a, b) \/ Less(b, a) \/ a = b
<1> SUFFICES ASSUME a # b PROVE Less(a, b) \/ Less(b, a)
  OBVIOUS
<1>1. PICK n \in Nat : /\ n <= Len(a) /\ n <= Len(b)
                       /\ \A i \in 1 .. n : a[i] = b[i]
                       /\ n < Len(a) /\ n < Len(b) => a[n + 1] # b[n + 1]
                       /\ n < Len(a) \/ n < Len(b)
  BY FirstDifference
<1>2. Len(a) \in Nat /\ Len(b) \in Nat
  BY ByteAt
<1>3. CASE n = Len(a)
  BY <1>1, <1>2, <1>3 DEF Less
<1>4. CASE n = Len(b)
  BY <1>1, <1>2, <1>4 DEF Less
<1>5. CASE n < Len(a) /\ n < Len(b)
  <2>1. a[n + 1] \in Nat /\ b[n + 1] \in Nat /\ a[n + 1] # b[n + 1]
    BY <1>1, <1>2, <1>5, ByteAt
  <2> QED
    BY <1>1, <1>2, <1>5, <2>1 DEF Less
<1> QED
  BY <1>1, <1>2, <1>3, <1>4, <1>5

LEMMA LessIrreflexive ==
  ASSUME NEW a \in ByteStrings
  PROVE  ~Less(a, a)
BY ByteAt DEF Less

LEMMA LessTransitive ==
  ASSUME NEW a \in ByteStrings, NEW b \in ByteStrings, NEW c \in ByteStrings,
         Less(a, b), Less(b, c)
  PROVE  Less(a, c)
<1>0. Len(a) \in Nat /\ Len(b) \in Nat /\ Len(c) \in Nat
  BY ByteAt
<1>1. PICK n \in 0 .. Len(a) : /\ n < Len(b)
                               /\ \A i \in 1 .. n : a[i] = b[i]
                               /\ n < Len(a) => a[n + 1] < b[n + 1]
  BY DEF Less
<1>2. PICK m \in 0 .. Len(b) : /\ m < Len(c)
                               /\ \A i \in 1 .. m : b[i] = c[i]
                               /\ m < Len(b) => b[m + 1] < c[m + 1]
  BY DEF Less
<1>3. CASE n < m
  <2>1. /\ n \in 0 .. Len(a) /\ n < Len(c) /\ \A i \in 1 .. n : a[i] = c[i]
        /\ b[n + 1] = c[n + 1]
    BY <1>0, <1>1, <1>2, <1>3
  <2> QED
    BY <1>1, <2>1 DEF Less
<1>4. CASE m < n
  <2>1. /\ m \in 0 .. Len(a) /\ m < Len(b) /\ \A i \in 1 .. m : a[i] = c[i]
        /\ a[m + 1] = b[m + 1]
    BY <1>0, <1>1, <1>2, <1>4
  <2> QED
    BY <1>2, <2>1 DEF Less
<1>5. CASE n = m
  <2>1. /\ n \in 0 .. Len(a) /\ n < Len(c) /\ \A i \in 1 .. n : a[i] = c[i]
    BY <1>0, <1>1, <1>2, <1>5
  <2>2. ASSUME n < Len(a) PROVE a[n + 1] < c[n + 1]
    <3>1. a[n + 1] \in Nat /\ b[n + 1] \in Nat /\ c[n + 1] \in Nat
      BY <1>0, <1>1, <2>1, <2>2, ByteAt
    <3> QED
      BY <1>1, <1>2, <1>5, <2>2, <3>1
  <2> QED
    BY <2>1, <2>2 DEF Less
<1> QED
  BY <1>1, <1>2, <1>3, <1>4, <1>5

-----------------------------------------------------------------------------
(* The iterator's bounds.                                                   *)

LEMMA IsPrefixMeans ==
  ASSUME NEW p \in ByteStrings, NEW k \in ByteStrings
  PROVE  IsPrefix(p, k) <=> Len(p) <= Len(k) /\ \A i \in 1 .. Len(p) : p[i] = k[i]
<1>0. Len(p) \in Nat /\ Len(k) \in Nat
  BY ByteAt
<1>1. SubSeq(p, 1, Len(p)) = p
  BY SubSeqFull DEF ByteStrings
<1>2. ASSUME Len(p) <= Len(k)
      PROVE  /\ SubSeq(k, 1, Len(p)) \in ByteStrings /\ Len(SubSeq(k, 1, Len(p))) = Len(p)
             /\ \A i \in 1 .. Len(p) : SubSeq(k, 1, Len(p))[i] = k[i]
  <2>1. \A i \in 1 .. Len(p) : k[i] \in Bytes
    BY <1>0, <1>2, ElementOfSeq DEF ByteStrings
  <2>2. /\ SubSeq(k, 1, Len(p)) \in Seq(Bytes)
        /\ Len(SubSeq(k, 1, Len(p))) = IF 1 <= Len(p) THEN Len(p) - 1 + 1 ELSE 0
        /\ \A i \in 1 .. Len(p) - 1 + 1 : SubSeq(k, 1, Len(p))[i] = k[1 + i - 1]
    BY <1>0, <2>1, SubSeqProperties
  <2> QED
    BY <1>0, <2>2 DEF ByteStrings
<1>3. CASE Len(p) <= Len(k)
  <2>1. p = SubSeq(k, 1, Len(p)) <=> \A i \in 1 .. Len(p) : p[i] = k[i]
    BY <1>2, <1>3, SeqEqual DEF ByteStrings
  <2> QED
    BY <1>1, <1>3, <2>1 DEF IsPrefix
<1>4. CASE ~(Len(p) <= Len(k))
  BY <1>4 DEF IsPrefix
<1> QED
  BY <1>3, <1>4

LEMMA UpperBound ==
  ASSUME NEW p \in ByteStrings
  PROVE  \/ /\ prefixUpperBound(p) = Nil
            /\ \A i \in 1 .. Len(p) : p[i] = MaxByte
         \/ /\ prefixUpperBound(p) \in ByteStrings /\ prefixUpperBound(p) # Nil
            /\ \E last \in 1 .. Len(p) :
                 /\ p[last] < MaxByte
                 /\ \A i \in (last + 1) .. Len(p) : p[i] = MaxByte
                 /\ Len(prefixUpperBound(p)) = last
                 /\ prefixUpperBound(p)[last] = p[last] + 1
                 /\ \A i \in 1 .. (last - 1) : prefixUpperBound(p)[i] = p[i]
<1> DEFINE below == {i \in DOMAIN p : p[i] < MaxByte}
           last == CHOOSE i \in below : \A j \in below : j <= i
           q == SubSeq(p, 1, last)
           u == [q EXCEPT ![last] = @ + 1]
<1>0. Len(p) \in Nat /\ DOMAIN p = 1 .. Len(p) /\ MaxByte \in Nat
      /\ \A i \in 1 .. Len(p) : p[i] \in Nat /\ p[i] <= MaxByte
  BY ByteAt, LenProperties, PrefixScanAssumption DEF ByteStrings
<1>1. CASE below = {}
  <2>1. prefixUpperBound(p) = Nil
    BY <1>1 DEF prefixUpperBound
  <2>2. ASSUME NEW i \in 1 .. Len(p) PROVE p[i] = MaxByte
    <3>1. i \notin below
      BY <1>1
    <3> QED
      BY <1>0, <3>1
  <2> QED
    BY <2>1, <2>2
<1>2. CASE below # {}
  <2>1. prefixUpperBound(p) = u
    BY <1>2 DEF prefixUpperBound
  <2>2. below \in SUBSET (0 .. Len(p))
    BY <1>0
  <2>3. \E i \in below : \A j \in below : j <= i
    <3> HIDE DEF below
    <3> QED BY <1>0, <1>2, <2>2, MaxExists
  <2>4. last \in below /\ \A j \in below : j <= last
    <3> HIDE DEF below
    <3> QED BY <2>3
  <2> HIDE DEF last
  <2>5. last \in 1 .. Len(p) /\ p[last] < MaxByte
    BY <1>0, <2>4
  <2>6. ASSUME NEW i \in (last + 1) .. Len(p) PROVE p[i] = MaxByte
    <3>1. i \notin below /\ i \in 1 .. Len(p)
      BY <1>0, <2>4, <2>5
    <3> QED
      BY <1>0, <3>1
  <2>7. /\ q \in Seq(Bytes) /\ Len(q) = last
        /\ \A i \in 1 .. last : q[i] = p[i]
    <3>1. \A i \in 1 .. last : p[i] \in Bytes
      BY <1>0, <2>5, ElementOfSeq DEF ByteStrings
    <3>2. /\ q \in Seq(Bytes)
          /\ Len(q) = IF 1 <= last THEN last - 1 + 1 ELSE 0
          /\ \A i \in 1 .. last - 1 + 1 : q[i] = p[1 + i - 1]
      BY <1>0, <2>5, <3>1, SubSeqProperties
    <3> QED
      BY <1>0, <2>5, <3>2
  <2>8. /\ u \in Seq(Bytes) /\ Len(u) = last
        /\ u[last] = p[last] + 1 /\ \A i \in 1 .. (last - 1) : u[i] = p[i]
    <3> DEFINE e == q[last] + 1
    <3>1. e \in Bytes /\ e = p[last] + 1
      BY <1>0, <2>5, <2>7 DEF Bytes
    <3> HIDE DEF q, e
    <3>2. /\ [q EXCEPT ![last] = e] \in Seq(Bytes) /\ Len([q EXCEPT ![last] = e]) = Len(q)
          /\ \A j \in 1 .. Len(q) : [q EXCEPT ![last] = e][j] = IF j = last THEN e ELSE q[j]
      BY <2>5, <2>7, <3>1, ExceptSeq
    <3>3. u = [q EXCEPT ![last] = e]
      BY DEF e
    <3> QED
      BY <1>0, <2>5, <2>7, <3>1, <3>2, <3>3
  <2>9. u # Nil
    BY <1>0, <2>5, <2>8, EmptySeq DEF Nil
  <2> HIDE DEF u
  <2> QED
    BY <2>1, <2>5, <2>6, <2>8, <2>9 DEF ByteStrings
<1> QED
  BY <1>1, <1>2

(* A key is within the bounds of the iterator iff it has the prefix.        *)
LEMMA BoundsExact ==
  ASSUME NEW p \in ByteStrings, NEW k \in ByteStrings
  PROVE  InBounds(k, p) <=> IsPrefix(p, k)
<1> DEFINE u == prefixUpperBound(p)
<1>0. /\ Len(p) \in Nat /\ Len(k) \in Nat /\ MaxByte \in Nat
      /\ \A i \in 1 .. Len(p) : p[i] \in Nat /\ p[i] <= MaxByte
      /\ \A i \in 1 .. Len(k) : k[i] \in Nat /\ k[i] <= MaxByte
  BY ByteAt, PrefixScanAssumption
<1>1. ASSUME IsPrefix(p, k) PROVE InBounds(k, p)
  <2>1. Len(p) <= Len(k) /\ \A i \in 1 .. Len(p) : p[i] = k[i]
    BY <1>1, IsPrefixMeans
  <2>2. AtLeast(k, p)
    <3> SUFFICES ASSUME NEW n \in 0 .. Len(k), n < Len(p),
                        n < Len(k) => k[n + 1] < p[n + 1]
                 PROVE  FALSE
      BY DEF AtLeast, Less
    <3>1. n + 1 \in 1 .. Len(p) /\ n < Len(k)
      BY <1>0, <2>1
    <3> QED
      BY <1>0, <2>1, <3>1
  <2>3. ASSUME u # Nil PROVE Less(k, u)
    <3>1. PICK last \in 1 .. Len(p) :
                 /\ p[last] < MaxByte /\ Len(u) = last /\ u[last] = p[last] + 1
                 /\ \A i \in 1 .. (last - 1) : u[i] = p[i]
      BY <2>3, UpperBound
    <3>2. last - 1 \in 0 .. Len(k) /\ last - 1 < Len(u) /\ (last - 1) + 1 = last
      BY <1>0, <2>1, <3>1
    <3>3. \A i \in 1 .. (last - 1) : k[i] = u[i]
      BY <1>0, <2>1, <3>1
    <3>4. k[last] < u[last]
      BY <1>0, <2>1, <3>1
    <3> HIDE DEF u
    <3>5. PICK n \in 0 .. Len(k) : n = last - 1
      BY <3>2
    <3>6. n < Len(u) /\ (\A i \in 1 .. n : k[i] = u[i]) /\ k[n + 1] < u[n + 1]
      BY <3>2, <3>3, <3>4, <3>5
    <3> QED
      BY <3>6 DEF Less
  <2> QED
    BY <2>2, <2>3 DEF InBounds
<1>2. ASSUME InBounds(k, p) PROVE IsPrefix(p, k)
  <2> SUFFICES ASSUME ~IsPrefix(p, k) PROVE FALSE
    OBVIOUS
  <2>1. p # k
    BY <1>0, IsPrefixMeans
  <2>2. PICK n \in Nat : /\ n <= Len(p) /\ n <= Len(k)
                         /\ \A i \in 1 .. n : p[i] = k[i]
                         /\ n < Len(p) /\ n < Len(k) => p[n + 1] # k[n + 1]
                         /\ n < Len(p) \/ n < Len(k)
    BY <2>1, FirstDifference
  <2>3. n < Len(p)
    BY <1>0, <2>2, IsPrefixMeans
  <2>4. ~Less(k, p)
    BY <1>2 DEF InBounds, AtLeast
  <2>5. n < Len(k) /\ p[n + 1] < k[n + 1]
    <3>1. n \in 0 .. Len(k) /\ (\A i \in 1 .. n : k[i] = p[i])
      BY <1>0, <2>2
    <3>2. n < Len(k) /\ ~(k[n + 1] < p[n + 1])
      BY <2>3, <2>4, <3>1 DEF Less
    <3> QED
      BY <1>0, <2>2, <2>3, <3>2
  <2>6. PICK m \in 1 .. Len(p) : m = n + 1
    BY <1>0, <2>2, <2>3
  <2>7. m <= Len(k) /\ p[m] < k[m] /\ p[m] < MaxByte
    BY <1>0, <2>3, <2>5, <2>6
  <2>8. u # Nil
    BY <1>0, <2>7, UpperBound
  <2>9. PICK last \in 1 .. Len(p) :
                 /\ \A i \in (last + 1) .. Len(p) : p[i] = MaxByte
                 /\ Len(u) = last /\ u[last] = p[last] + 1
                 /\ \A i \in 1 .. (last - 1) : u[i] = p[i]
    BY <2>8, UpperBound
  <2>10. m <= last
    <3>1. m \notin (last + 1) .. Len(p)
      BY <1>0, <2>7, <2>9
    <3> QED
      BY <1>0, <3>1
  <2> HIDE DEF u
  <2>11. PICK j \in 0 .. Len(k) : /\ j < Len(u)
                                  /\ \A i \in 1 .. j : k[i] = u[i]
                                  /\ j < Len(k) => k[j + 1] < u[j + 1]
    <3>1. Less(k, u)
      BY <1>2, <2>8 DEF InBounds, u
    <3> QED
      BY <3>1 DEF Less
  <2>12. CASE m < last
    <3>1. u[m] = p[m] /\ \A i \in 1 .. m : u[i] = p[i]
      BY <1>0, <2>9, <2>12
    <3>2. ~(m <= j)
      BY <1>0, <2>7, <2>11, <3>1
    <3>3. j + 1 \in 1 .. m /\ j < Len(k)
      BY <1>0, <2>7, <3>2
    <3>4. k[j + 1] < p[j + 1]
      BY <2>11, <3>1, <3>3
    <3>5. CASE j + 1 = m
      BY <1>0, <2>7, <3>4, <3>5
    <3>6. CASE j + 1 < m
      <4>1. k[j + 1] = p[j + 1]
        BY <2>2, <2>6, <3>3, <3>6
      <4> QED
        BY <1>0, <3>3, <3>4, <4>1
    <3> QED
      BY <3>3, <3>5, <3>6
  <2>13. CASE m = last
    <3>1. j + 1 \in 1 .. m /\ j < Len(k)
      BY <1>0, <2>7, <2>9, <2>11, <2>13
    <3>2. CASE j + 1 = m
      BY <1>0, <2>7, <2>9, <2>11, <2>13, <3>1, <3>2
    <3>3. CASE j + 1 < m
      <4>1. k[j + 1] = p[j + 1] /\ u[j + 1] = p[j + 1]
        BY <1>0, <2>2, <2>6, <2>9, <2>13, <3>1, <3>3
      <4> QED
        BY <1>0, <2>11, <3>1, <4>1
    <3> QED
      BY <3>1, <3>2, <3>3
  <2> QED
    BY <2>10, <2>12, <2>13
<1> QED
  BY <1>1, <1>2

-----------------------------------------------------------------------------
(* The iterator returns the keys of a set in order, each once.              *)

LEMMA SortedProperties ==
  ASSUME NEW S \in SUBSET ByteStrings, IsFiniteSet(S)
  PROVE  /\ Sorted(S) \in Seq(S) /\ Len(Sorted(S)) = Cardinality(S)
         /\ Cardinality(S) \in Nat
         /\ \A i, j \in 1 .. Cardinality(S) : i < j => Less(Sorted(S)[i], Sorted(S)[j])
         /\ \A k \in S : \E i \in 1 .. Cardinality(S) : Sorted(S)[i] = k
<1> DEFINE n == Cardinality(S)
           Below(k) == {j \in S : Less(j, k)}
           rank == [k \in S |-> Cardinality(Below(k))]
<1>0. n \in Nat
  BY FS_CardinalityType
<1>1. ASSUME NEW k \in S
      PROVE  /\ IsFiniteSet(Below(k)) /\ Cardinality(Below(k)) \in 0 .. (n - 1)
             /\ rank[k] = Cardinality(Below(k))
  <2>1. Below(k) \subseteq S \ {k}
    BY LessIrreflexive
  <2>2. IsFiniteSet(S \ {k}) /\ Cardinality(S \ {k}) = n - 1
    BY FS_RemoveElement
  <2>3. IsFiniteSet(Below(k)) /\ Cardinality(Below(k)) <= n - 1
    <3> HIDE DEF Below, n
    <3> QED BY <2>1, <2>2, FS_Subset
  <2>4. Cardinality(Below(k)) \in Nat
    <3> HIDE DEF Below
    <3> QED BY <2>3, FS_CardinalityType
  <2>5. rank[k] = Cardinality(Below(k))
    OBVIOUS
  <2> HIDE DEF Below, rank
  <2> QED
    BY <1>0, <2>3, <2>4, <2>5
<1>2. ASSUME NEW a \in S, NEW b \in S, Less(a, b)
      PROVE  rank[a] < rank[b]
  <2>1. Below(a) \subseteq Below(b)
    BY <1>2, LessTransitive
  <2>2. Below(a) # Below(b)
    <3>1. a \in Below(b) /\ a \notin Below(a)
      BY <1>2, LessIrreflexive
    <3> QED
      BY <3>1
  <2>3. /\ IsFiniteSet(Below(b))
        /\ Cardinality(Below(a)) \in Nat /\ Cardinality(Below(b)) \in Nat
        /\ rank[a] = Cardinality(Below(a)) /\ rank[b] = Cardinality(Below(b))
    <3> HIDE DEF Below, rank
    <3> QED BY <1>1
  <2> HIDE DEF Below, rank
  <2>4. Cardinality(Below(a)) <= Cardinality(Below(b))
        /\ Cardinality(Below(a)) # Cardinality(Below(b))
    BY <2>1, <2>2, <2>3, FS_Subset
  <2> QED
    BY <2>3, <2>4
<1>3. ASSUME NEW a \in S, NEW b \in S, rank[a] <= rank[b]
      PROVE  Less(a, b) \/ a = b
  <2>1. rank[a] \in Nat /\ rank[b] \in Nat
    <3> HIDE DEF Below, rank
    <3> QED BY <1>1
  <2> HIDE DEF rank
  <2>2. ~Less(b, a)
    BY <1>2, <1>3, <2>1
  <2> QED
    BY <2>2, LessTotal
<1>4. rank \in Injection(S, 0 .. (n - 1))
  <2>1. rank \in [S -> 0 .. (n - 1)]
    <3>1. \A k \in S : rank[k] \in 0 .. (n - 1)
      <4> HIDE DEF Below, rank, n
      <4> QED BY <1>1
    <3> HIDE DEF Below
    <3> QED BY <3>1
  <2> HIDE DEF Below, rank, n
  <2>2. \A a, b \in S : rank[a] = rank[b] => a = b
    <3> SUFFICES ASSUME NEW a \in S, NEW b \in S, rank[a] = rank[b], a # b
                 PROVE  FALSE
      OBVIOUS
    <3>1. rank[a] \in Int /\ rank[b] \in Int
      BY <1>1
    <3>2. Less(a, b)
      BY <1>3, <3>1
    <3> QED
      BY <1>2, <3>1, <3>2
  <2> QED
    BY <2>1, <2>2 DEF Injection, IsInjective
<1>5. rank \in Surjection(S, 0 .. (n - 1))
  <2>1. IsFiniteSet(0 .. (n - 1)) /\ Cardinality(0 .. (n - 1)) = n
    <3>1. n - 1 \in Int
      BY <1>0
    <3>2. /\ IsFiniteSet(0 .. (n - 1))
          /\ Cardinality(0 .. (n - 1)) = IF 0 > n - 1 THEN 0 ELSE (n - 1) - 0 + 1
      <4> HIDE DEF n
      <4> QED BY <3>1, FS_Interval
    <3> HIDE DEF n
    <3> QED BY <1>0, <3>2
  <2> HIDE DEF rank
  <2> QED
    BY <1>4, <2>1, FS_Injection
<1>6. ASSUME NEW i \in 1 .. n
      PROVE  Sorted(S)[i] \in S /\ rank[Sorted(S)[i]] = i - 1
  <2>1. i - 1 \in 0 .. (n - 1)
    BY <1>0
  <2>2. \E k \in S : rank[k] = i - 1
    <3> HIDE DEF rank, n
    <3> QED BY <1>5, <2>1 DEF Surjection
  <2>3. \E k \in S : Cardinality(Below(k)) = i - 1
    BY <2>2
  <2>4. Sorted(S)[i] = CHOOSE k \in S : Cardinality(Below(k)) = i - 1
    BY DEF Sorted
  <2>5. Sorted(S)[i] \in S /\ Cardinality(Below(Sorted(S)[i])) = i - 1
    <3> HIDE DEF Below, rank, n
    <3> QED BY <2>3, <2>4
  <2> QED
    BY <2>5
<1>7. Sorted(S) \in [1 .. n -> S]
  <2>1. \A i \in 1 .. n : Sorted(S)[i] \in S
    BY <1>6
  <2> QED
    BY <2>1 DEF Sorted
<1>8. Sorted(S) \in Seq(S) /\ Len(Sorted(S)) = n
  <2> HIDE DEF n
  <2> QED BY <1>0, <1>7
<1>9. ASSUME NEW i \in 1 .. n, NEW j \in 1 .. n, i < j
      PROVE  Less(Sorted(S)[i], Sorted(S)[j])
  <2> HIDE DEF rank, n
  <2>1. /\ Sorted(S)[i] \in S /\ Sorted(S)[j] \in S
        /\ rank[Sorted(S)[i]] = i - 1 /\ rank[Sorted(S)[j]] = j - 1
    BY <1>6
  <2>2. rank[Sorted(S)[i]] <= rank[Sorted(S)[j]] /\ Sorted(S)[i] # Sorted(S)[j]
    BY <1>0, <1>9, <2>1
  <2> QED
    BY <1>3, <2>1, <2>2
<1>10. ASSUME NEW k \in S
       PROVE  \E i \in 1 .. n : Sorted(S)[i] = k
  <2>1. rank[k] \in 0 .. (n - 1)
    <3> HIDE DEF Below, rank, n
    <3> QED BY <1>1
  <2> HIDE DEF rank, n
  <2>2. PICK i \in 1 .. n : rank[k] = i - 1
    <3>1. rank[k] + 1 \in 1 .. n /\ (rank[k] + 1) - 1 = rank[k]
      BY <1>0, <2>1
    <3> QED
      BY <3>1
  <2>3. Sorted(S)[i] \in S /\ rank[Sorted(S)[i]] = rank[k]
    BY <1>6, <2>2
  <2>4. Sorted(S)[i] = k
    BY <1>4, <2>3 DEF Injection, IsInjective
  <2> QED
    BY <2>4
<1> QED
  BY <1>0, <1>8, <1>9, <1>10

-----------------------------------------------------------------------------
(* One page.                                                                *)

LEMMA ClampedLimit == \A l \in Limits : Clamped(l) \in Nat \ {0}
BY PrefixScanAssumption DEF Clamped

LEMMA AtLeastEmpty ==
  ASSUME NEW a \in ByteStrings, NEW b \in ByteStrings
  PROVE  AtLeast(a, <<>>) /\ (Less(a, b) => b # <<>>)
BY ByteAt, EmptySeq DEF AtLeast, Less

(* The keys a request asks for: those with the prefix from the cursor on.   *)
Remaining(p, cur) == {k \in db : IsPrefix(p, k) /\ AtLeast(k, cur)}

(* What a page is, in one place: results and, after them, the next cursor.  *)
PageRight(p, lim, cur, results, next) ==
  /\ results \in Seq(Remaining(p, cur))
  /\ \A i, j \in 1 .. Len(results) : i < j => Less(results[i], results[j])
  /\ next # <<>> =>
       /\ next \in Remaining(p, cur)
       /\ \A i \in 1 .. Len(results) : Less(results[i], next)
  /\ \A k \in Remaining(p, cur) :
       \/ \E i \in 1 .. Len(results) : results[i] = k
       \/ next # <<>> /\ AtLeast(k, next)

LEMMA PageIsRight ==
  ASSUME db \in SUBSET ByteStrings, IsFiniteSet(db),
         NEW p \in ByteStrings, NEW lim \in Nat \ {0}, NEW cur \in ByteStrings
  PROVE  PageRight(p, lim, cur, ScanPrefix(p, lim, cur).results,
                   ScanPrefix(p, lim, cur).nextCursor)
<1> DEFINE seek == IF cur # <<>> THEN cur ELSE p
           F == {k \in db : InBounds(k, p) /\ AtLeast(k, seek)}
           R == Remaining(p, cur)
           found == Sorted(F)
           n == IF Len(found) < lim THEN Len(found) ELSE lim
           results == SubSeq(found, 1, n)
           next == IF Len(found) >= lim + 1 THEN found[lim + 1] ELSE <<>>
<1>1. F = R
  <2>1. ASSUME NEW k \in db
        PROVE  InBounds(k, p) /\ AtLeast(k, seek) <=> IsPrefix(p, k) /\ AtLeast(k, cur)
    <3>1. InBounds(k, p) <=> IsPrefix(p, k)
      BY BoundsExact
    <3>2. CASE cur # <<>>
      BY <3>1, <3>2
    <3>3. CASE cur = <<>>
      BY <3>1, <3>3, AtLeastEmpty DEF InBounds
    <3> QED
      BY <3>2, <3>3
  <2> QED
    BY <2>1 DEF Remaining
<1>2. F \in SUBSET ByteStrings /\ IsFiniteSet(F)
  <2>1. F \in SUBSET db
    OBVIOUS
  <2> HIDE DEF F
  <2> QED BY <2>1, FS_Subset
<1> HIDE DEF F
<1>3. /\ found \in Seq(F) /\ Len(found) = Cardinality(F) /\ Len(found) \in Nat
      /\ \A i, j \in 1 .. Len(found) : i < j => Less(found[i], found[j])
      /\ \A k \in F : \E i \in 1 .. Len(found) : found[i] = k
  BY <1>2, SortedProperties
<1> HIDE DEF found
<1>4. n \in Nat /\ n <= Len(found) /\ n <= lim
  BY <1>3
<1>5. \A i \in 1 .. Len(found) : found[i] \in F /\ found[i] \in ByteStrings
  BY <1>2, <1>3, ElementOfSeq
<1>6. /\ results \in Seq(F) /\ Len(results) = n
      /\ \A i \in 1 .. n : results[i] = found[i]
  <2>1. \A i \in 1 .. n : found[i] \in F
    BY <1>3, <1>4, <1>5
  <2> HIDE DEF n
  <2>2. /\ results \in Seq(F) /\ Len(results) = IF 1 <= n THEN n - 1 + 1 ELSE 0
        /\ \A i \in 1 .. n - 1 + 1 : results[i] = found[1 + i - 1]
    BY <1>4, <2>1, SubSeqProperties
  <2> HIDE DEF results
  <2> QED
    BY <1>4, <2>2
<1> HIDE DEF results
<1>7. \A i, j \in 1 .. Len(results) : i < j => Less(results[i], results[j])
  <2> HIDE DEF n
  <2> QED BY <1>3, <1>4, <1>6
<1>8. CASE Len(found) >= lim + 1
  <2>1. n = lim /\ lim + 1 \in 1 .. Len(found) /\ next = found[lim + 1]
    BY <1>3, <1>8
  <2>2. next \in F /\ next \in ByteStrings
    BY <1>5, <2>1
  <2> HIDE DEF next, n
  <2>3. \A i \in 1 .. n : Less(results[i], next) /\ results[i] \in ByteStrings
    BY <1>3, <1>4, <1>5, <1>6, <2>1
  <2>4. next # <<>>
    <3>1. 1 \in 1 .. n
      BY <2>1
    <3>2. Less(results[1], next) /\ results[1] \in ByteStrings
      BY <2>3, <3>1
    <3> QED
      BY <2>2, <3>2, AtLeastEmpty
  <2>5. ASSUME NEW k \in F
        PROVE  (\E i \in 1 .. n : results[i] = k) \/ AtLeast(k, next)
    <3>1. PICK i \in 1 .. Len(found) : found[i] = k
      BY <1>3
    <3>2. CASE i <= n
      BY <1>6, <3>1, <3>2
    <3>3. CASE i = lim + 1
      BY <2>1, <2>2, <3>1, <3>3, LessIrreflexive DEF AtLeast
    <3>4. CASE i > lim + 1
      <4>1. Less(next, k) /\ k \in ByteStrings
        BY <1>3, <1>5, <2>1, <3>1, <3>4
      <4>2. ~Less(k, next)
        BY <2>2, <4>1, LessTransitive, LessIrreflexive
      <4> QED
        BY <4>2 DEF AtLeast
    <3> QED
      BY <1>3, <2>1, <3>2, <3>3, <3>4
  <2>6. PageRight(p, lim, cur, results, next)
    BY <1>1, <1>6, <1>7, <2>2, <2>3, <2>4, <2>5 DEF PageRight
  <2> QED
    BY <2>6 DEF ScanPrefix, Page, results, next, n, found, F
<1>9. CASE ~(Len(found) >= lim + 1)
  <2>1. n = Len(found) /\ next = <<>>
    BY <1>3, <1>9
  <2> HIDE DEF next, n
  <2>2. \A k \in F : \E i \in 1 .. n : results[i] = k
    BY <1>3, <1>6, <2>1
  <2>3. PageRight(p, lim, cur, results, next)
    BY <1>1, <1>6, <1>7, <2>1, <2>2 DEF PageRight
  <2> QED
    BY <2>3 DEF ScanPrefix, Page, results, next, n, found, F
<1> QED
  BY <1>8, <1>9

-----------------------------------------------------------------------------
(* The scan.                                                                *)

(* What has been returned is below the cursor, and what is still due is at  *)
(* or above it, so a key written or deleted between two pages can neither   *)
(* repeat one returned nor hide one that stays.                             *)
ScanInv ==
  /\ IsFiniteSet(db)
  /\ \A i, j \in 1 .. Len(pages) : i < j => Less(pages[i], pages[j])
  /\ \A i \in 1 .. Len(pages) : IsPrefix(prefix, pages[i]) /\ pages[i] \in seen
  /\ ~done /\ cursor = <<>> => pages = <<>>
  /\ cursor # <<>> => \A i \in 1 .. Len(pages) : Less(pages[i], cursor)
  /\ \A k \in stable : IsPrefix(prefix, k) =>
       \/ \E i \in 1 .. Len(pages) : pages[i] = k
       \/ ~done /\ AtLeast(k, cursor)

Inv == TypeOK /\ ScanInv

LEMMA ScanTypes ==
  ASSUME TypeOK
  PROVE  /\ KeySpace \subseteq ByteStrings /\ db \in SUBSET ByteStrings
         /\ prefix \in ByteStrings /\ cursor \in ByteStrings
         /\ Clamped(limit) \in Nat \ {0} /\ Len(pages) \in Nat
         /\ DOMAIN pages = 1 .. Len(pages)
BY PrefixScanAssumption, ClampedLimit, EmptySeq, LenProperties DEF TypeOK, ByteStrings

LEMMA ScanInit == Init => Inv
<1> SUFFICES ASSUME Init PROVE Inv
  OBVIOUS
<1>1. <<>> \in Seq(KeySpace) /\ Len(<<>>) = 0
  BY EmptySeq
<1>2. TypeOK
  <2>1. /\ cursor = <<>> /\ pages \in Seq(KeySpace) /\ done = FALSE
        /\ writes \in 0 .. MaxWrites
    BY <1>1, PrefixScanAssumption DEF Init
  <2>2. cursor \in {k \in KeySpace : IsPrefix(prefix, k)} \cup {<<>>}
    BY <2>1
  <2> QED
    BY <2>1, <2>2 DEF Init, TypeOK
<1>3. \A k \in db : AtLeast(k, <<>>)
  BY <1>2, ScanTypes, AtLeastEmpty
<1> QED
  BY <1>1, <1>2, <1>3 DEF Init, Inv, ScanInv

LEMMA ListKeysStep ==
  ASSUME Inv, ListKeys
  PROVE  Inv'
<1> DEFINE results == ScanPrefix(prefix, Clamped(limit), cursor).results
           next == ScanPrefix(prefix, Clamped(limit), cursor).nextCursor
           R == Remaining(prefix, cursor)
<1>0. /\ TypeOK /\ ScanInv /\ ~done
      /\ pages' = pages \o results /\ cursor' = next /\ done' = (next = <<>>)
      /\ UNCHANGED <<db, prefix, limit, writes, stable, seen>>
  BY DEF Inv, ListKeys
<1>1. PageRight(prefix, Clamped(limit), cursor, results, next)
  BY <1>0, ScanTypes, PageIsRight DEF ScanInv
<1> HIDE DEF results, next
<1>2. /\ results \in Seq(R)
      /\ \A i, j \in 1 .. Len(results) : i < j => Less(results[i], results[j])
      /\ next # <<>> => next \in R /\ \A i \in 1 .. Len(results) : Less(results[i], next)
      /\ \A k \in R : \/ \E i \in 1 .. Len(results) : results[i] = k
                      \/ next # <<>> /\ AtLeast(k, next)
  BY <1>1 DEF PageRight
<1>3. /\ R \subseteq db
      /\ \A k \in R : /\ k \in KeySpace /\ k \in ByteStrings /\ k \in seen
                      /\ IsPrefix(prefix, k) /\ AtLeast(k, cursor)
  BY <1>0, ScanTypes DEF Remaining, TypeOK
<1>4. /\ results \in Seq(KeySpace) /\ Len(results) \in Nat
      /\ \A i \in 1 .. Len(results) : results[i] \in R
  <2>1. results \in Seq(R) /\ Len(results) \in Nat /\ \A i \in 1 .. Len(results) : results[i] \in R
    BY <1>2, LenProperties, ElementOfSeq
  <2>2. R \subseteq KeySpace
    BY <1>3
  <2> HIDE DEF R
  <2> QED
    BY <2>1, <2>2
<1>5. /\ pages \in Seq(KeySpace) /\ Len(pages) \in Nat
      /\ \A i \in 1 .. Len(pages) : pages[i] \in ByteStrings
  BY <1>0, ScanTypes, ElementOfSeq DEF TypeOK
<1>6. /\ pages' \in Seq(KeySpace) /\ Len(pages') = Len(pages) + Len(results)
      /\ \A i \in 1 .. Len(pages) + Len(results) :
           pages'[i] = IF i <= Len(pages) THEN pages[i] ELSE results[i - Len(pages)]
  BY <1>0, <1>4, <1>5, ConcatProperties
<1> HIDE DEF R
<1>7. TypeOK'
  BY <1>0, <1>2, <1>3, <1>6 DEF TypeOK
<1>8. \A i \in 1 .. Len(pages) : pages'[i] = pages[i]
  BY <1>4, <1>5, <1>6
<1>9. \A i \in (Len(pages) + 1) .. Len(pages') :
        i - Len(pages) \in 1 .. Len(results) /\ pages'[i] = results[i - Len(pages)]
  BY <1>4, <1>5, <1>6
<1>10. \A i \in 1 .. Len(results) :
         Len(pages) + i \in 1 .. Len(pages') /\ pages'[Len(pages) + i] = results[i]
  <2> SUFFICES ASSUME NEW i \in 1 .. Len(results)
               PROVE  /\ Len(pages) + i \in 1 .. Len(pages')
                      /\ pages'[Len(pages) + i] = results[i]
    OBVIOUS
  <2>1. PICK j \in 1 .. Len(pages) + Len(results) : j = Len(pages) + i
    BY <1>4, <1>5
  <2>2. ~(j <= Len(pages)) /\ j - Len(pages) = i
    BY <1>4, <1>5, <2>1
  <2> QED
    BY <1>6, <2>1, <2>2
<1>11. ASSUME NEW i \in 1 .. Len(pages), NEW k \in R
       PROVE  Less(pages[i], k)
  <2>1. pages # <<>> /\ cursor # <<>>
    BY <1>0, <1>5, <1>11, EmptySeq DEF ScanInv
  <2>2. Less(pages[i], cursor) /\ ~Less(k, cursor)
    BY <1>0, <1>3, <1>11, <2>1 DEF ScanInv, AtLeast
  <2>3. pages[i] \in ByteStrings /\ k \in ByteStrings /\ cursor \in ByteStrings
    BY <1>0, <1>3, <1>5, ScanTypes
  <2> QED
    BY <2>2, <2>3, LessTotal, LessTransitive
<1>12. ASSUME NEW i \in 1 .. Len(pages'), NEW j \in 1 .. Len(pages'), i < j
       PROVE  Less(pages'[i], pages'[j])
  <2>1. CASE j <= Len(pages)
    BY <1>0, <1>5, <1>8, <1>12, <2>1 DEF ScanInv
  <2>2. CASE i <= Len(pages) /\ j > Len(pages)
    <3>1. j - Len(pages) \in 1 .. Len(results) /\ pages'[j] = results[j - Len(pages)]
      BY <1>5, <1>6, <1>9, <2>2
    <3> QED
      BY <1>4, <1>5, <1>8, <1>11, <2>2, <3>1
  <2>3. CASE i > Len(pages)
    <3>1. /\ i - Len(pages) \in 1 .. Len(results) /\ pages'[i] = results[i - Len(pages)]
          /\ j - Len(pages) \in 1 .. Len(results) /\ pages'[j] = results[j - Len(pages)]
          /\ i - Len(pages) < j - Len(pages)
      BY <1>4, <1>5, <1>6, <1>9, <1>12, <2>3
    <3> QED
      BY <1>2, <3>1
  <2> QED
    BY <1>4, <1>5, <1>6, <1>12, <2>1, <2>2, <2>3
<1>13. ASSUME NEW i \in 1 .. Len(pages')
       PROVE  /\ IsPrefix(prefix, pages'[i]) /\ pages'[i] \in seen
              /\ next # <<>> => Less(pages'[i], next)
  <2>1. CASE i <= Len(pages)
    BY <1>0, <1>2, <1>8, <1>11, <2>1 DEF ScanInv
  <2>2. CASE i > Len(pages)
    <3>1. i - Len(pages) \in 1 .. Len(results) /\ pages'[i] = results[i - Len(pages)]
      BY <1>5, <1>6, <1>9, <2>2
    <3> QED
      BY <1>2, <1>3, <1>4, <3>1
  <2> QED
    BY <1>4, <1>5, <1>6, <2>1, <2>2
<1>14. ASSUME NEW k \in stable, IsPrefix(prefix, k)
       PROVE  \/ \E i \in 1 .. Len(pages') : pages'[i] = k
              \/ next # <<>> /\ AtLeast(k, next)
  <2>1. CASE \E i \in 1 .. Len(pages) : pages[i] = k
    <3>1. PICK i \in 1 .. Len(pages) : pages[i] = k
      BY <2>1
    <3>2. i \in 1 .. Len(pages')
      BY <1>4, <1>5, <1>6
    <3> QED
      BY <1>8, <3>1, <3>2
  <2>2. CASE AtLeast(k, cursor)
    <3>1. k \in R
      BY <1>0, <1>14, <2>2 DEF R, Remaining, TypeOK
    <3> QED
      BY <1>2, <1>10, <3>1
  <2> QED
    BY <1>0, <1>14, <2>1, <2>2 DEF ScanInv
<1>15. ScanInv'
  BY <1>0, <1>12, <1>13, <1>14 DEF ScanInv
<1> QED
  BY <1>7, <1>15 DEF Inv

LEMMA ScanNext == Inv /\ [Next]_vars => Inv'
<1> SUFFICES ASSUME Inv, [Next]_vars PROVE Inv'
  OBVIOUS
<1>1. CASE ListKeys
  BY <1>1, ListKeysStep
<1>2. ASSUME NEW k \in KeySpace, Put(k) PROVE Inv'
  <2>1. TypeOK'
    BY <1>2, PrefixScanAssumption DEF Inv, TypeOK, Put, scanVars
  <2>2. IsFiniteSet(db')
    BY <1>2, FS_AddElement DEF Inv, ScanInv, Put
  <2>3. ScanInv'
    BY <1>2, <2>2 DEF Inv, ScanInv, Put, scanVars
  <2> QED
    BY <2>1, <2>3 DEF Inv
<1>3. ASSUME NEW k \in KeySpace, Delete(k) PROVE Inv'
  <2>1. TypeOK'
    BY <1>3, PrefixScanAssumption DEF Inv, TypeOK, Delete, scanVars
  <2>2. IsFiniteSet(db')
    BY <1>3, FS_RemoveElement DEF Inv, ScanInv, Delete
  <2>3. ScanInv'
    BY <1>3, <2>2 DEF Inv, ScanInv, Delete, scanVars
  <2> QED
    BY <2>1, <2>3 DEF Inv
<1>4. CASE UNCHANGED vars
  BY <1>4 DEF Inv, TypeOK, ScanInv, vars, scanVars
<1> QED
  BY <1>1, <1>2, <1>3, <1>4 DEF Next, Finished

LEMMA ScanHolds == Spec => []Inv
BY ScanInit, ScanNext, PTL DEF Spec

(* The variables of the scan keep their types, and a cursor the server      *)
(* hands out is a key that has the prefix of the scan.                      *)
THEOREM TypeCorrect == Spec => []TypeOK
<1>1. Inv => TypeOK
  BY DEF Inv
<1> QED
  BY <1>1, ScanHolds, PTL

(* ScanPrefix's iterator bounds hold exactly the keys with the prefix, for  *)
(* every prefix of bytes, those that end in 0xff or are nothing else too.   *)
THEOREM BoundsRight == Spec => []BoundsArePrefix
<1>1. Inv => BoundsArePrefix
  BY ScanTypes, BoundsExact DEF Inv, BoundsArePrefix
<1> QED
  BY <1>1, ScanHolds, PTL

(* Over all pages of a scan the keys come in strictly increasing order, all *)
(* with the prefix and all present at some time of the scan, whatever is    *)
(* written between the pages and whatever the limit.                        *)
THEOREM NothingFalse == Spec => []PagesSound
<1>1. Inv => PagesSound
  <2> SUFFICES ASSUME Inv PROVE PagesSound
    OBVIOUS
  <2>1. Len(pages) \in Nat /\ DOMAIN pages = 1 .. Len(pages)
    BY ScanTypes DEF Inv
  <2>2. \A i \in 1 .. Len(pages) - 1 : /\ i \in 1 .. Len(pages) /\ i + 1 \in 1 .. Len(pages)
                                       /\ i < i + 1
    BY <2>1
  <2> QED
    BY <2>1, <2>2 DEF Inv, ScanInv, PagesSound
<1> QED
  BY <1>1, ScanHolds, PTL

(* A scan whose last page carries no nextCursor has returned every key with *)
(* the prefix that was present all along.                                   *)
THEOREM NothingMissed == Spec => []PagesComplete
<1>1. Inv => PagesComplete
  BY ScanTypes DEF Inv, ScanInv, PagesComplete
<1> QED
  BY <1>1, ScanHolds, PTL
=============================================================================
