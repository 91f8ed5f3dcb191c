--------------------------- MODULE PacketWireProofs ---------------------------
(* Theorems about PacketWire, for packets, datagrams, settings and requests of *)
(* any length. What the recursive readers and writers give is shown by         *)
(* induction, from a set that holds the indices they are right at.             *)
EXTENDS PacketWire, FiniteSetTheorems, SequenceTheorems, WellFoundedInduction, TLAPS

-----------------------------------------------------------------------------
(* Induction *)

(* Every set of natural numbers has a least element.                           *)
LEMMA LeastElement ==
  ASSUME NEW T \in SUBSET Nat, T # {}
  PROVE  \E x \in T : \A y \in T : x <= y
<1> DEFINE Less == {pair \in Nat \X Nat : pair[1] < pair[2]}
<1>1. IsWellFoundedOn(Less, Nat)
  BY NatLessThanWellFounded DEF OpToRel
<1>2. PICK x \in T : \A y \in T : <<y, x>> \notin Less
  <2> HIDE DEF Less
  <2> QED
    BY <1>1, WFMin
<1>3. \A y \in T : y \in Nat /\ (<<y, x>> \in Less <=> y < x)
  OBVIOUS
<1>4. \A y \in T : ~(y < x)
  BY <1>2, <1>3
<1> QED
  BY <1>3, <1>4

(* From 0 to n, one by one.                                                    *)
LEMMA Upward ==
  ASSUME NEW n \in Nat, NEW T, 0 \in T,
         \A k \in 1..n : k - 1 \in T => k \in T
  PROVE  \A k \in 0..n : k \in T
<1> DEFINE Missing == {k \in Nat : k <= n /\ k \notin T}
<1> SUFFICES ASSUME Missing # {} PROVE FALSE
  OBVIOUS
<1>1. PICK m \in Missing : \A k \in Missing : m <= k
  <2>1. Missing \in SUBSET Nat
    OBVIOUS
  <2> QED
    BY <2>1, LeastElement
<1>2. m \in 1..n /\ m - 1 \in Nat /\ m - 1 \notin Missing
  BY <1>1
<1> QED
  BY <1>1, <1>2

(* From n down to 0, each from all that are greater.                           *)
LEMMA Downward ==
  ASSUME NEW n \in Nat, NEW T,
         \A k \in 0..n : (\A j \in k+1..n : j \in T) => k \in T
  PROVE  \A k \in 0..n : k \in T
<1> DEFINE Missing == {d \in Nat : d <= n /\ n - d \notin T}
<1>1. ASSUME Missing # {} PROVE FALSE
  <2>1. PICK d \in Missing : \A e \in Missing : d <= e
    BY <1>1, LeastElement
  <2>2. n - d \in 0..n /\ n - d \notin T
    BY <2>1
  <2>3. ASSUME NEW j \in n-d+1..n PROVE j \in T
    <3>1. n - j \in Nat /\ n - j <= n /\ ~(d <= n - j) /\ n - (n - j) = j
      BY <2>1
    <3> QED
      BY <2>1, <3>1
  <2> QED
    BY <2>2, <2>3
<1>2. ASSUME NEW k \in 0..n PROVE k \in T
  <2>1. n - k \in Nat /\ n - k <= n /\ n - (n - k) = k
    OBVIOUS
  <2> QED
    BY <1>1, <2>1
<1> QED
  BY <1>2

Iterates(f, k, first, F) ==
  f[0] = first /\ \A i \in 1..k : f[i] = F[<<i, f[i-1]>>]

(* A function that takes each value from the one before it, and                *)
LEMMA Iterated ==
  ASSUME NEW n \in Nat, NEW V, NEW first \in V, NEW F,
         \A i \in 1..n : \A v \in V : F[<<i, v>>] \in V
  PROVE  \E f \in [0..n -> V] : Iterates(f, n, first, F)
<1> DEFINE T == {k \in 0..n : \E f \in [0..k -> V] : Iterates(f, k, first, F)}
<1>1. 0 \in T
  <2>1. [i \in 0..0 |-> first] \in [0..0 -> V] /\ Iterates([i \in 0..0 |-> first], 0, first, F)
    BY DEF Iterates
  <2> QED
    BY <2>1
<1>2. ASSUME NEW k \in 1..n, k - 1 \in T PROVE k \in T
  <2>1. PICK f \in [0..k-1 -> V] : Iterates(f, k - 1, first, F)
    BY <1>2
  <2> DEFINE g == [i \in 0..k |-> IF i = k THEN F[<<k, f[k-1]>>] ELSE f[i]]
  <2>2. f[k-1] \in V /\ F[<<k, f[k-1]>>] \in V
    BY <2>1
  <2>3. g \in [0..k -> V]
    BY <2>1, <2>2
  <2>4. \A i \in 0..k-1 : g[i] = f[i]
    OBVIOUS
  <2>5. g[k] = F[<<k, f[k-1]>>] /\ g[k-1] = f[k-1] /\ g[0] = f[0]
    OBVIOUS
  <2> HIDE DEF g
  <2>6. ASSUME NEW i \in 1..k-1 PROVE g[i] = F[<<i, g[i-1]>>]
    <3>1. i \in 0..k-1 /\ i - 1 \in 0..k-1
      OBVIOUS
    <3> QED
      BY <2>1, <2>4, <3>1 DEF Iterates
  <2>7. Iterates(g, k, first, F)
    BY <2>1, <2>5, <2>6 DEF Iterates
  <2> QED
    BY <2>3, <2>7
<1>3. T = T /\ n \in 0..n
  OBVIOUS
<1> HIDE DEF T
<1>4. n \in T
  BY <1>1, <1>2, <1>3, Upward
<1> QED
  BY <1>4 DEF T

Recurses(f, k, n, F) ==
  \A i \in k..n : f[i] = F[<<i, [j \in i+1..n |-> f[j]]>>]

Tails(n, V) == UNION {[i+1..n -> V] : i \in 0..n}

(* one that takes each value from all that come after it.                      *)
LEMMA Recursive ==
  ASSUME NEW n \in Nat, NEW V, NEW F,
         \A i \in 0..n : \A later \in [i+1..n -> V] : F[<<i, later>>] \in V
  PROVE  \E f \in [0..n -> V] : Recurses(f, 0, n, F)
<1> DEFINE T == {k \in 0..n : \E f \in [k..n -> V] : Recurses(f, k, n, F)}
<1>1. ASSUME NEW k \in 0..n, \A j \in k+1..n : j \in T PROVE k \in T
  <2>1. PICK f \in [k+1..n -> V] : Recurses(f, k + 1, n, F)
    <3>1. CASE k = n
      <4>1. k+1..n = {}
        BY <3>1
      <4>2. [i \in k+1..n |-> n] \in [k+1..n -> V]
        BY <4>1
      <4> QED
        BY <4>1, <4>2 DEF Recurses
    <3>2. CASE k # n
      <4>1. k + 1 \in T
        BY <1>1, <3>2
      <4> QED
        BY <4>1
    <3> QED
      BY <3>1, <3>2
  <2> DEFINE g == [i \in k..n |-> IF i = k THEN F[<<k, f>>] ELSE f[i]]
  <2>2. F[<<k, f>>] \in V
    OBVIOUS
  <2>3. g \in [k..n -> V]
    BY <2>2
  <2>4. \A i \in k+1..n : g[i] = f[i]
    OBVIOUS
  <2>5. g[k] = F[<<k, f>>]
    OBVIOUS
  <2> HIDE DEF g
  <2>6. [j \in k+1..n |-> g[j]] = f
    BY <2>4
  <2>7. ASSUME NEW i \in k+1..n PROVE g[i] = F[<<i, [j \in i+1..n |-> g[j]]>>]
    <3>1. \A j \in i+1..n : g[j] = f[j]
      BY <2>4
    <3>2. [j \in i+1..n |-> g[j]] = [j \in i+1..n |-> f[j]]
      BY <3>1
    <3>3. f[i] = F[<<i, [j \in i+1..n |-> f[j]]>>]
      BY <2>1 DEF Recurses
    <3> QED
      BY <2>4, <3>2, <3>3
  <2>8. Recurses(g, k, n, F)
    <3> SUFFICES ASSUME NEW i \in k..n PROVE g[i] = F[<<i, [j \in i+1..n |-> g[j]]>>]
      BY DEF Recurses
    <3>1. CASE i = k
      BY <2>5, <2>6, <3>1
    <3>2. CASE i # k
      <4>1. i \in k+1..n
        BY <3>2
      <4> QED
        BY <2>7, <4>1
    <3> QED
      BY <3>1, <3>2
  <2> QED
    BY <2>3, <2>8
<1> HIDE DEF T
<1>2. 0 \in 0..n
  OBVIOUS
<1>3. 0 \in T
  BY <1>1, <1>2, Downward
<1> QED
  BY <1>3 DEF T

-----------------------------------------------------------------------------
(* Sums and sequences of sequences *)

IsSums(sum, sizes) ==
  sum = [k \in 0..Len(sizes) |-> IF k = 0 THEN 0 ELSE sum[k-1] + sizes[k]]

(* The sums of the first sizes.                                                *)
LEMMA SumsAre ==
  ASSUME NEW n \in Nat, NEW sizes \in [1..n -> Nat]
  PROVE  /\ Sums(sizes) \in [0..n -> Nat]
         /\ Sums(sizes)[0] = 0
         /\ \A k \in 1..n : Sums(sizes)[k] = Sums(sizes)[k-1] + sizes[k]
         /\ Total(sizes) = Sums(sizes)[n]
<1> DEFINE F == [p \in (1..n) \X Nat |-> p[2] + sizes[p[1]]]
<1>1. Len(sizes) = n
  OBVIOUS
<1>2. \A i \in 1..n : \A v \in Nat : F[<<i, v>>] = v + sizes[i]
  OBVIOUS
<1>3. \A i \in 1..n : \A v \in Nat : v + sizes[i] \in Nat
  OBVIOUS
<1> HIDE DEF F
<1>4. PICK f \in [0..n -> Nat] : Iterates(f, n, 0, F)
  <2>1. 0 \in Nat /\ \A i \in 1..n : \A v \in Nat : F[<<i, v>>] \in Nat
    BY <1>2, <1>3
  <2> QED
    BY <2>1, Iterated
<1>5. ASSUME NEW k \in 0..n PROVE f[k] = IF k = 0 THEN 0 ELSE f[k-1] + sizes[k]
  <2>1. CASE k = 0
    BY <1>4, <2>1 DEF Iterates
  <2>2. CASE k # 0
    <3>1. k \in 1..n /\ f[k-1] \in Nat
      BY <2>2
    <3>2. f[k] = F[<<k, f[k-1]>>]
      BY <1>4, <3>1 DEF Iterates
    <3> QED
      BY <1>2, <2>2, <3>1, <3>2
  <2> QED
    BY <2>1, <2>2
<1>6. IsSums(f, sizes)
  BY <1>1, <1>4, <1>5 DEF IsSums
<1> DEFINE sum == CHOOSE sum : IsSums(sum, sizes)
<1>7. IsSums(sum, sizes)
  BY <1>6
<1>8. Sums(sizes) = sum
  BY Zenon DEF Sums, IsSums
<1> HIDE DEF sum
<1>9. sum = [k \in 0..n |-> IF k = 0 THEN 0 ELSE sum[k-1] + sizes[k]]
  BY <1>1, <1>7 DEF IsSums
<1>14. sum[0] = 0 /\ \A k \in 1..n : sum[k] = sum[k-1] + sizes[k]
  <2>1. \A k \in 0..n : sum[k] = IF k = 0 THEN 0 ELSE sum[k-1] + sizes[k]
    BY <1>9
  <2>2. ASSUME NEW k \in 1..n PROVE sum[k] = sum[k-1] + sizes[k]
    <3>1. k \in 0..n /\ k # 0
      OBVIOUS
    <3> QED
      BY <2>1, <3>1
  <2> QED
    BY <2>1, <2>2
<1> DEFINE T == {k \in 0..n : sum[k] \in Nat}
<1>10. 0 \in T /\ \A k \in 1..n : k - 1 \in T => k \in T
  <2>1. 0 \in T
    BY <1>14
  <2>2. ASSUME NEW k \in 1..n, k - 1 \in T PROVE k \in T
    <3>1. sum[k] = sum[k-1] + sizes[k] /\ sum[k-1] \in Nat /\ k \in 0..n
      BY <1>14, <2>2
    <3> QED
      BY <3>1
  <2> QED
    BY <2>1, <2>2
<1> HIDE DEF T
<1>11. \A k \in 0..n : k \in T
  BY <1>10, Upward
<1>12. sum \in [0..n -> Nat]
  BY <1>9, <1>11 DEF T
<1>13. Total(sizes) = sum[n]
  BY <1>1, <1>8 DEF Total
<1> QED
  BY <1>8, <1>12, <1>13, <1>14

IsFlatten(flatten, pieces) ==
  flatten = [i \in 1..Len(pieces) |-> IF i = 1 THEN pieces[i] ELSE flatten[i-1] \o pieces[i]]

(* g is what the first pieces are together.                                    *)
Joins(g, S, n, pieces) ==
  /\ pieces \in [1..n -> Seq(S)]
  /\ g \in [0..n -> Seq(S)]
  /\ g[0] = <<>>
  /\ \A i \in 1..n : g[i] = g[i-1] \o pieces[i]

(* What FlattenSeq gives is what joining the pieces one by one gives.          *)
LEMMA FlattenSeqJoins ==
  ASSUME NEW S, NEW n \in Nat, NEW pieces \in [1..n -> Seq(S)]
  PROVE  \E g : Joins(g, S, n, pieces) /\ g[n] = FlattenSeq(pieces)
<1> DEFINE F == [p \in (1..n) \X Seq(S) |-> p[2] \o pieces[p[1]]]
<1>1. Len(pieces) = n
  OBVIOUS
<1>2. \A i \in 1..n : \A v \in Seq(S) : F[<<i, v>>] = v \o pieces[i]
  OBVIOUS
<1>3. \A i \in 1..n : \A v \in Seq(S) : v \o pieces[i] \in Seq(S)
  BY ConcatProperties
<1> HIDE DEF F
<1>4. PICK g \in [0..n -> Seq(S)] : Iterates(g, n, <<>>, F)
  <2>1. <<>> \in Seq(S)
    BY EmptySeq
  <2>2. \A i \in 1..n : \A v \in Seq(S) : F[<<i, v>>] \in Seq(S)
    BY <1>2, <1>3
  <2> QED
    BY <2>1, <2>2, Iterated
<1>5. Joins(g, S, n, pieces)
  <2> SUFFICES ASSUME NEW i \in 1..n PROVE g[i] = g[i-1] \o pieces[i]
    BY <1>4 DEF Joins, Iterates
  <2>1. g[i-1] \in Seq(S)
    OBVIOUS
  <2>2. g[i] = F[<<i, g[i-1]>>]
    BY <1>4 DEF Iterates
  <2> QED
    BY <1>2, <2>1, <2>2
<1>6. CASE n = 0
  <2>1. Len(pieces) = 0 /\ pieces = <<>>
    BY <1>1, <1>6
  <2>2. FlattenSeq(pieces) = pieces
    BY <2>1 DEF FlattenSeq
  <2> QED
    BY <1>5, <1>6, <2>1, <2>2 DEF Joins
<1>7. CASE n # 0
  <2> DEFINE h == [i \in 1..n |-> g[i]]
             flatten == CHOOSE flatten : IsFlatten(flatten, pieces)
  <2>1. ASSUME NEW i \in 1..n PROVE h[i] = IF i = 1 THEN pieces[i] ELSE h[i-1] \o pieces[i]
    <3>1. g[i] = g[i-1] \o pieces[i] /\ (i = 1 => g[i-1] = <<>>)
      <4>1. i = 1 => i - 1 = 0
        OBVIOUS
      <4>2. g[0] = <<>> /\ \A j \in 1..n : g[j] = g[j-1] \o pieces[j]
        BY <1>5 DEF Joins
      <4> QED
        BY <4>1, <4>2
    <3>2. <<>> \o pieces[i] = pieces[i]
      BY ConcatEmptySeq
    <3>3. h[i] = g[i] /\ (i # 1 => h[i-1] = g[i-1])
      OBVIOUS
    <3> HIDE DEF h
    <3> QED
      BY <3>1, <3>2, <3>3
  <2>2. /\ h = [i \in 1..n |-> h[i]]
        /\ \A i \in 1..n : g[i] = h[i] /\ (i # 1 => g[i-1] = h[i-1])
    OBVIOUS
  <2> HIDE DEF h
  <2>3. IsFlatten(h, pieces)
    BY <1>1, <2>1, <2>2 DEF IsFlatten
  <2>4. IsFlatten(flatten, pieces)
    BY <2>3
  <2>5. FlattenSeq(pieces) = flatten[n]
    <3>1. FlattenSeq(pieces) = flatten[Len(pieces)]
      <4>1. Len(pieces) # 0
        BY <1>1, <1>7
      <4> QED
        BY <4>1, Zenon DEF FlattenSeq, IsFlatten
    <3> QED
      BY <1>1, <3>1
  <2> HIDE DEF flatten
  <2> DEFINE T == {i \in 0..n : i = 0 \/ flatten[i] = g[i]}
  <2>6. \A i \in 1..n : flatten[i] = IF i = 1 THEN pieces[i] ELSE flatten[i-1] \o pieces[i]
    BY <1>1, <2>4 DEF IsFlatten
  <2>7. \A i \in 1..n : g[i] = IF i = 1 THEN pieces[i] ELSE g[i-1] \o pieces[i]
    BY <2>1, <2>2
  <2>8. 0 \in T /\ \A i \in 1..n : i - 1 \in T => i \in T
    BY <2>6, <2>7
  <2> HIDE DEF T
  <2>9. n \in T
    <3>1. \A i \in 0..n : i \in T
      BY <2>8, Upward
    <3> QED
      BY <3>1
  <2> QED
    BY <1>5, <1>7, <2>5, <2>9 DEF T
<1> QED
  BY <1>6, <1>7

Measures(lengths, n, pieces) ==
  /\ lengths \in [1..n -> Nat]
  /\ \A i \in 1..n : lengths[i] = Len(pieces[i])

(* What the pieces are together has the length of all of them,                 *)
LEMMA JoinsLength ==
  ASSUME NEW S, NEW n \in Nat, NEW pieces, NEW g, Joins(g, S, n, pieces),
         NEW lengths, Measures(lengths, n, pieces)
  PROVE  \A k \in 0..n : Len(g[k]) = Sums(lengths)[k]
<1>m. lengths \in [1..n -> Nat] /\ \A i \in 1..n : lengths[i] = Len(pieces[i])
  BY DEF Measures
<1>1. /\ g \in [0..n -> Seq(S)]
      /\ g[0] = <<>>
      /\ \A i \in 1..n : g[i] = g[i-1] \o pieces[i] /\ g[i-1] \in Seq(S) /\ pieces[i] \in Seq(S)
  <2>1. \A i \in 1..n : i - 1 \in 0..n
    OBVIOUS
  <2> QED
    BY <2>1 DEF Joins
<1> DEFINE sums == Sums(lengths)
           T == {k \in 0..n : Len(g[k]) = sums[k]}
<1>2. sums \in [0..n -> Nat] /\ sums[0] = 0 /\ \A k \in 1..n : sums[k] = sums[k-1] + lengths[k]
  BY <1>m, SumsAre
<1> HIDE DEF sums
<1>3. \A k \in 0..n : k \in T
  <2>1. 0 \in T
    BY <1>1, <1>2
  <2>2. ASSUME NEW k \in 1..n, k - 1 \in T PROVE k \in T
    <3>1. Len(g[k]) = Len(g[k-1]) + Len(pieces[k])
      <4>1. g[k-1] \in Seq(S) /\ pieces[k] \in Seq(S)
        BY <1>1
      <4>2. Len(g[k-1] \o pieces[k]) = Len(g[k-1]) + Len(pieces[k])
        BY <4>1, ConcatProperties
      <4> QED
        BY <1>1, <4>2
    <3>2. Len(g[k-1]) = sums[k-1] /\ sums[k] = sums[k-1] + lengths[k] /\ k \in 0..n
      BY <1>2, <2>2
    <3> QED
      BY <1>m, <3>1, <3>2
  <2> HIDE DEF T
  <2> QED
    BY <2>1, <2>2, Upward
<1> QED
  BY <1>3 DEF sums

(* FlattenSeq is as long as its pieces together.                               *)
LEMMA FlattenSeqLength ==
  ASSUME NEW S, NEW n \in Nat, NEW pieces \in [1..n -> Seq(S)],
         NEW lengths, Measures(lengths, n, pieces)
  PROVE  FlattenSeq(pieces) \in Seq(S) /\ Len(FlattenSeq(pieces)) = Total(lengths)
<1>1. PICK g : Joins(g, S, n, pieces) /\ g[n] = FlattenSeq(pieces)
  BY FlattenSeqJoins
<1>2. \A k \in 0..n : Len(g[k]) = Sums(lengths)[k]
  BY <1>1, JoinsLength
<1>3. Total(lengths) = Sums(lengths)[n]
  BY SumsAre DEF Measures
<1>4. n \in 0..n /\ g[n] \in Seq(S)
  BY <1>1 DEF Joins
<1> QED
  BY <1>1, <1>2, <1>3, <1>4

Begins(s, x, S) == \E y \in Seq(S) : s = x \o y

(* and begins with what the first of them are together.                        *)
LEMMA JoinsPrefix ==
  ASSUME NEW S, NEW n \in Nat, NEW pieces, NEW g, Joins(g, S, n, pieces)
  PROVE  \A k \in 0..n : Begins(g[n], g[k], S)
<1>1. /\ g \in [0..n -> Seq(S)]
      /\ g[0] = <<>>
      /\ \A i \in 1..n : g[i] = g[i-1] \o pieces[i] /\ g[i-1] \in Seq(S) /\ pieces[i] \in Seq(S)
  <2>1. \A i \in 1..n : i - 1 \in 0..n
    OBVIOUS
  <2> QED
    BY <2>1 DEF Joins
<1> DEFINE U == {k \in 0..n : \E y \in Seq(S) : g[n] = g[k] \o y}
<1>2. \A k \in 0..n : k \in U
  <2> SUFFICES ASSUME NEW k \in 0..n, \A j \in k+1..n : j \in U PROVE k \in U
    <3> HIDE DEF U
    <3> QED
      BY Downward
  <2>1. CASE k = n
    <3>1. g[n] \in Seq(S) /\ g[n] \o <<>> = g[n] /\ <<>> \in Seq(S)
      BY <1>1, ConcatEmptySeq, EmptySeq
    <3> QED
      BY <2>1, <3>1
  <2>2. CASE k # n
    <3>1. k + 1 \in 1..n /\ k + 1 \in k+1..n /\ (k + 1) - 1 = k
      BY <2>2
    <3>2. PICK y \in Seq(S) : g[n] = g[k+1] \o y
      BY <3>1
    <3>3. g[k+1] = g[k] \o pieces[k+1] /\ g[k] \in Seq(S) /\ pieces[k+1] \in Seq(S)
      BY <1>1, <3>1
    <3>4. (g[k] \o pieces[k+1]) \o y = g[k] \o (pieces[k+1] \o y)
      <4>1. \A s, t, u \in Seq(S) : (s \o t) \o u = s \o (t \o u)
        BY ConcatAssociative
      <4> QED
        BY <3>3, <4>1
    <3>5. pieces[k+1] \o y \in Seq(S)
      BY <3>3, ConcatProperties
    <3> QED
      BY <3>2, <3>3, <3>4, <3>5
  <2> QED
    BY <2>1, <2>2
<1>3. \A k \in 0..n : \E y \in Seq(S) : g[n] = g[k] \o y
  BY <1>2
<1> QED
  BY <1>3 DEF Begins

(* A piece is between what is before it and what comes after it.               *)
LEMMA Middle ==
  ASSUME NEW S, NEW x \in Seq(S), NEW p \in Seq(S), NEW y \in Seq(S)
  PROVE  /\ SubSeq((x \o p) \o y, Len(x) + 1, Len(x) + Len(p)) = p
         /\ \A i \in 1..Len(p) : ((x \o p) \o y)[Len(x) + i] = p[i]
<1> DEFINE s == (x \o p) \o y
<1>1. /\ x \o p \in Seq(S) /\ s \in Seq(S)
      /\ Len(x \o p) = Len(x) + Len(p)
      /\ Len(s) = Len(x) + Len(p) + Len(y)
      /\ Len(x) \in Nat /\ Len(p) \in Nat /\ Len(y) \in Nat
  BY ConcatProperties, LenProperties
<1>2. ASSUME NEW i \in 1..Len(p) PROVE s[Len(x) + i] = p[i]
  <2>1. (x \o p)[Len(x) + i] = p[i]
    <3>1. Len(x) + i \in 1..Len(x) + Len(p) /\ ~(Len(x) + i <= Len(x)) /\ (Len(x) + i) - Len(x) = i
      BY <1>1
    <3> QED
      BY <3>1, ConcatProperties
  <2>2. s[Len(x) + i] = (x \o p)[Len(x) + i]
    <3>1. Len(x) + i \in 1..Len(x \o p) + Len(y) /\ Len(x) + i <= Len(x \o p)
      BY <1>1
    <3> QED
      BY <1>1, <3>1, ConcatProperties
  <2> QED
    BY <2>1, <2>2
<1> HIDE DEF s
<1>3. SubSeq(s, Len(x) + 1, Len(x) + Len(p)) = p
  <2> DEFINE m == Len(x) + 1
             n == Len(x) + Len(p)
  <2>1. m \in Int /\ n \in Int /\ n - m + 1 = Len(p) /\ (m <= n <=> Len(p) # 0)
    BY <1>1
  <2>2. \A i \in m..n : i \in 1..Len(s) /\ s[i] \in S
    BY <1>1, ElementOfSeq
  <2>3. \A i \in 1..Len(p) : m + i - 1 = Len(x) + i
    BY <1>1
  <2> HIDE DEF m, n
  <2>4. /\ SubSeq(s, m, n) \in Seq(S)
        /\ Len(SubSeq(s, m, n)) = Len(p)
        /\ \A i \in 1..Len(p) : SubSeq(s, m, n)[i] = s[m + i - 1]
    BY <1>1, <2>1, <2>2, SubSeqProperties
  <2>5. \A i \in 1..Len(p) : SubSeq(s, m, n)[i] = p[i]
    BY <1>2, <2>3, <2>4
  <2>6. SubSeq(s, m, n) = p
    BY <2>4, <2>5, SeqEqual
  <2> QED
    BY <2>6 DEF m, n
<1> QED
  BY <1>2, <1>3 DEF s

-----------------------------------------------------------------------------
(* Bytes and strings *)

(* Bytes after bytes are bytes, as many as both.                               *)
LEMMA Joining ==
  /\ \A s \in Bytes : Len(s) \in Nat
  /\ \A s, t \in Bytes : s \o t \in Bytes /\ Len(s \o t) = Len(s) + Len(t)
<1>1. \A s \in Seq(Byte) : Len(s) \in Nat
  BY LenProperties
<1>2. \A s, t \in Seq(Byte) : s \o t \in Seq(Byte) /\ Len(s \o t) = Len(s) + Len(t)
  BY ConcatProperties
<1> QED
  BY <1>1, <1>2 DEF Bytes

(* What was put between two stretches of bytes is found there.                 *)
LEMMA Between ==
  ASSUME NEW x \in Bytes, NEW p \in Bytes, NEW y \in Bytes
  PROVE  /\ SubSeq((x \o p) \o y, Len(x) + 1, Len(x) + Len(p)) = p
         /\ \A i \in 1..Len(p) : ((x \o p) \o y)[Len(x) + i] = p[i]
BY Middle DEF Bytes

(* No bytes, before or after others, change nothing.                           *)
LEMMA NoBytes ==
  /\ <<>> \in Bytes /\ Len(<<>>) = 0
  /\ \A s \in Bytes : s \o <<>> = s /\ <<>> \o s = s
<1>1. \A s \in Seq(Byte) : s \o <<>> = s /\ <<>> \o s = s
  BY ConcatEmptySeq
<1>2. <<>> \in Seq(Byte) /\ Len(<<>>) = 0
  BY EmptySeq
<1> QED
  BY <1>1, <1>2 DEF Bytes

(* It does not matter which bytes are joined first.                            *)
LEMMA Associates ==
  ASSUME NEW s \in Bytes, NEW t \in Bytes, NEW u \in Bytes
  PROVE  (s \o t) \o u = s \o (t \o u)
BY ConcatAssociative DEF Bytes

(* A written string is the string and the only zero behind it.                 *)
LEMMA AsciizIs ==
  ASSUME NEW t \in String
  PROVE  /\ t \in Bytes /\ <<0>> \in Bytes /\ Asciiz(t) \in Bytes
         /\ Asciiz(t) = t \o <<0>>
         /\ Len(t) \in Nat /\ Len(Asciiz(t)) = Len(t) + 1
         /\ \A i \in 1..Len(t) : Asciiz(t)[i] = t[i] /\ t[i] # 0
         /\ Asciiz(t)[Len(t) + 1] = 0
<1>1. t \in Seq(Byte) /\ 0 \in Byte /\ Len(t) \in Nat
  BY SeqMonotonic, LenProperties DEF String, Byte
<1>2. \A i \in 1..Len(t) : t[i] # 0
  <2>1. t \in Seq(1..255)
    BY DEF String
  <2>2. \A i \in 1..Len(t) : t[i] \in 1..255
    BY <2>1, ElementOfSeq
  <2>3. ASSUME NEW i \in 1..Len(t) PROVE t[i] # 0
    <3>1. \A b \in 1..255 : b # 0
      OBVIOUS
    <3> QED
      BY <2>2, <3>1
  <2> QED
    BY <2>3
<1>3. <<0>> \in Seq(Byte)
  BY <1>1
<1>4. /\ Append(t, 0) \in Seq(Byte)
      /\ Len(Append(t, 0)) = Len(t) + 1
      /\ \A i \in 1..Len(t) : Append(t, 0)[i] = t[i]
      /\ Append(t, 0)[Len(t) + 1] = 0
  BY <1>1, AppendProperties
<1>5. Append(t, 0) = t \o <<0>>
  BY <1>1, AppendIsConcat
<1> QED
  BY <1>1, <1>2, <1>3, <1>4, <1>5 DEF Asciiz, Bytes

(* The end of a text is its first zero, or past the end of the bytes.          *)
LEMMA EndOfTextIs ==
  ASSUME NEW bytes \in Bytes, NEW i \in 1..Len(bytes)+2
  PROVE  /\ EndOfText(bytes, i) \in Nat
         /\ EndOfText(bytes, i) >= i
         /\ EndOfText(bytes, i) > Len(bytes) \/ bytes[EndOfText(bytes, i)] = 0
         /\ \A m \in i..EndOfText(bytes, i)-1 : m <= Len(bytes) /\ bytes[m] # 0
<1> DEFINE T == {n \in i..Len(bytes)+i : n > Len(bytes) \/ bytes[n] = 0}
           e == CHOOSE x \in T : \A y \in T : x <= y
<1>1. Len(bytes) \in Nat
  BY Joining
<1>2. T \in SUBSET Nat /\ Len(bytes) + i \in T
  BY <1>1
<1>3. \E x \in T : \A y \in T : x <= y
  <2> HIDE DEF T
  <2> QED
    BY <1>2, LeastElement
<1>4. e \in T /\ \A y \in T : e <= y
  BY <1>3
<1>5. EndOfText(bytes, i) = e
  BY Zenon DEF EndOfText, Min
<1> HIDE DEF e
<1>6. ASSUME NEW m \in i..e-1 PROVE m <= Len(bytes) /\ bytes[m] # 0
  <2>1. m \in i..Len(bytes)+i /\ ~(e <= m)
    BY <1>1, <1>4
  <2>2. m \notin T
    BY <1>4, <2>1
  <2> QED
    BY <1>1, <2>1, <2>2
<1> QED
  BY <1>1, <1>4, <1>5, <1>6

(* A string that was written is the one that is read, *)
LEMMA TextWritten ==
  ASSUME NEW x \in Bytes, NEW t \in String, NEW y \in Bytes
  PROVE  /\ EndOfText((x \o Asciiz(t)) \o y, Len(x) + 1) = Len(x) + Len(t) + 1
         /\ TextAt((x \o Asciiz(t)) \o y, Len(x) + 1) = t
<1> DEFINE bytes == (x \o Asciiz(t)) \o y
           e == EndOfText(bytes, Len(x) + 1)
           z == Len(x) + Len(t) + 1
<1>1. /\ Asciiz(t) \in Bytes /\ t \in Bytes /\ <<0>> \in Bytes /\ Asciiz(t) = t \o <<0>>
      /\ Len(Asciiz(t)) = Len(t) + 1
  BY AsciizIs
<1>2. /\ Len(x) \in Nat /\ Len(t) \in Nat /\ Len(y) \in Nat
      /\ bytes \in Bytes
      /\ Len(bytes) = Len(x) + Len(t) + 1 + Len(y)
  BY <1>1, Joining
<1>3. \A i \in 1..Len(t)+1 : bytes[Len(x) + i] = Asciiz(t)[i]
  BY <1>1, Middle DEF Bytes
<1>4. bytes[z] = 0
  <2>1. Len(t) + 1 \in 1..Len(t)+1 /\ Len(x) + (Len(t) + 1) = z
    BY <1>2
  <2>2. Asciiz(t)[Len(t) + 1] = 0
    BY AsciizIs
  <2> QED
    BY <1>3, <2>1, <2>2
<1>5. \A m \in Len(x)+1..Len(x)+Len(t) : bytes[m] # 0
  <2> SUFFICES ASSUME NEW m \in Len(x)+1..Len(x)+Len(t) PROVE bytes[m] # 0
    OBVIOUS
  <2>1. m - Len(x) \in 1..Len(t) /\ m - Len(x) \in 1..Len(t)+1 /\ Len(x) + (m - Len(x)) = m
    BY <1>2
  <2>2. Asciiz(t)[m - Len(x)] # 0
    BY <2>1, AsciizIs
  <2> QED
    BY <1>3, <2>1, <2>2
<1>6. /\ e \in Nat
      /\ e >= Len(x) + 1
      /\ e > Len(bytes) \/ bytes[e] = 0
      /\ \A m \in Len(x)+1..e-1 : m <= Len(bytes) /\ bytes[m] # 0
  <2>1. Len(x) + 1 \in 1..Len(bytes)+2
    BY <1>2
  <2> QED
    BY <1>2, <2>1, EndOfTextIs
<1>7. e = z
  <2> HIDE DEF e
  <2>1. e \in Nat /\ z \in Nat
    BY <1>2, <1>6
  <2>2. ~(e > z)
    BY <1>2, <1>4, <1>6
  <2>3. ~(e < z)
    BY <1>2, <1>5, <1>6
  <2> HIDE DEF z
  <2> QED
    BY <2>1, <2>2, <2>3
<1>8. TextAt(bytes, Len(x) + 1) = t
  <2>1. bytes = (x \o t) \o (<<0>> \o y) /\ <<0>> \o y \in Bytes
    <3>1. x \o t \in Bytes /\ <<0>> \o y \in Bytes
      BY <1>1, Joining
    <3>2. x \o (t \o <<0>>) = (x \o t) \o <<0>>
      BY <1>1, Associates
    <3>3. ((x \o t) \o <<0>>) \o y = (x \o t) \o (<<0>> \o y)
      BY <1>1, <3>1, Associates
    <3> QED
      BY <1>1, <3>1, <3>2, <3>3
  <2>2. SubSeq(bytes, Len(x) + 1, Len(x) + Len(t)) = t
    BY <1>1, <2>1, Middle DEF Bytes
  <2>3. z - 1 = Len(x) + Len(t)
    BY <1>2
  <2> QED
    BY <1>7, <2>2, <2>3 DEF TextAt
<1> QED
  BY <1>7, <1>8

(* and what is read ends at a zero and has none.                               *)
LEMMA TextRead ==
  ASSUME NEW bytes \in Bytes, NEW i \in 1..Len(bytes)+2, EndOfText(bytes, i) <= Len(bytes)
  PROVE  TextAt(bytes, i) \in String /\ Len(TextAt(bytes, i)) = EndOfText(bytes, i) - i
<1> DEFINE e == EndOfText(bytes, i)
<1>1. /\ e \in Nat /\ e >= i /\ Len(bytes) \in Nat
      /\ \A m \in i..e-1 : m <= Len(bytes) /\ bytes[m] # 0
  BY EndOfTextIs, Joining
<1> HIDE DEF e
<1>2. ASSUME NEW m \in i..e-1 PROVE bytes[m] \in 1..255
  <2>1. m \in 1..Len(bytes) /\ bytes[m] # 0
    BY <1>1
  <2>2. bytes[m] \in 0..255
    BY <2>1, ElementOfSeq DEF Bytes, Byte
  <2> QED
    BY <2>1, <2>2
<1>3. i \in Int /\ e - 1 \in Int /\ (IF i <= e - 1 THEN (e - 1) - i + 1 ELSE 0) = e - i
  BY <1>1
<1>4. SubSeq(bytes, i, e - 1) \in Seq(1..255) /\ Len(SubSeq(bytes, i, e - 1)) = e - i
  BY <1>2, <1>3, SubSeqProperties
<1> QED
  BY <1>4 DEF TextAt, String, e

-----------------------------------------------------------------------------
(* The size of a container, whatever order it is gone through in: its sizes as *)
(* columns of boxes, which can be counted.                                     *)

Boxes(w) == {box \in (DOMAIN w) \X Nat : box[2] \in 1..w[box[1]]}

Volume(w) == Cardinality(Boxes(w))

(* The empty dictionary has no volume.                                         *)
LEMMA NoVolume == IsFiniteSet(Boxes(Empty)) /\ Volume(Empty) = 0
<1>1. Boxes(Empty) = {}
  BY DEF Boxes, Empty
<1> QED
  BY <1>1, FS_EmptySet DEF Volume

(* One more key adds its column; to replace one adds no more than that.        *)
LEMMA VolumeOfWith ==
  ASSUME NEW D, NEW w \in [D -> Nat], IsFiniteSet(Boxes(w)), NEW key, NEW size \in Nat
  PROVE  /\ IsFiniteSet(Boxes(With(w, key, size)))
         /\ Volume(w) \in Nat /\ Volume(With(w, key, size)) \in Nat
         /\ Volume(With(w, key, size)) <= Volume(w) + size
         /\ key \notin D => Volume(With(w, key, size)) = Volume(w) + size
<1> DEFINE u == With(w, key, size)
           column == {key} \X (1..size)
<1>1. u \in [D \cup {key} -> Nat] /\ u[key] = size /\ \A k \in D : k # key => u[k] = w[k]
  BY DEF With
<1> HIDE DEF u
<1>2. IsFiniteSet(column) /\ Cardinality(column) = size
  <2> DEFINE f == [j \in 1..size |-> <<key, j>>]
  <2>1. f \in Bijection(1..size, column)
    <3>1. f \in [1..size -> column]
      OBVIOUS
    <3>2. \A i, j \in 1..size : f[i] = f[j] => i = j
      OBVIOUS
    <3>3. ASSUME NEW box \in column PROVE \E j \in 1..size : f[j] = box
      <4>1. PICK j \in 1..size : box = <<key, j>>
        OBVIOUS
      <4> QED
        BY <4>1
    <3> HIDE DEF f, column
    <3> QED
      BY <3>1, <3>2, <3>3 DEF Bijection, Injection, Surjection, IsInjective
  <2>2. IsFiniteSet(1..size) /\ Cardinality(1..size) = size
    <3>1. 1 \in Int /\ size \in Int /\ (IF 1 > size THEN 0 ELSE size - 1 + 1) = size
      OBVIOUS
    <3> QED
      BY <3>1, FS_Interval
  <2> HIDE DEF f, column
  <2>3. ExistsBijection(1..size, column)
    BY <2>1 DEF ExistsBijection
  <2> QED
    BY <2>2, <2>3, FS_Bijection
<1>3. Boxes(u) \subseteq Boxes(w) \cup column
  BY <1>1 DEF Boxes
<1>4. key \notin D => Boxes(u) = Boxes(w) \cup column /\ Boxes(w) \cap column = {}
  BY <1>1 DEF Boxes
<1> HIDE DEF column
<1>5. /\ IsFiniteSet(Boxes(w) \cup column)
      /\ Cardinality(Boxes(w) \cup column)
           = Cardinality(Boxes(w)) + Cardinality(column) - Cardinality(Boxes(w) \cap column)
  BY <1>2, FS_Union
<1>6. IsFiniteSet(Boxes(w) \cap column) /\ IsFiniteSet(Boxes(u))
  <2>1. Boxes(w) \cap column \in SUBSET column /\ Boxes(u) \in SUBSET (Boxes(w) \cup column)
    BY <1>3
  <2> QED
    BY <1>2, <1>5, <2>1, FS_Subset
<1>7. /\ Cardinality(Boxes(w)) \in Nat /\ Cardinality(Boxes(u)) \in Nat
      /\ Cardinality(Boxes(w) \cap column) \in Nat
      /\ Cardinality(Boxes(u)) <= Cardinality(Boxes(w) \cup column)
  <2>1. Cardinality(Boxes(u)) <= Cardinality(Boxes(w) \cup column)
    BY <1>3, <1>5, FS_Subset
  <2> QED
    BY <1>6, <2>1, FS_CardinalityType
<1>8. Cardinality(Boxes(u)) <= Cardinality(Boxes(w)) + size
  BY <1>2, <1>5, <1>7
<1>9. key \notin D => Cardinality(Boxes(u)) = Cardinality(Boxes(w)) + size
  <2> SUFFICES ASSUME key \notin D PROVE Cardinality(Boxes(u)) = Cardinality(Boxes(w)) + size
    OBVIOUS
  <2>1. Cardinality(Boxes(w) \cap column) = 0
    BY <1>4, FS_EmptySet
  <2>2. Cardinality(Boxes(u)) = Cardinality(Boxes(w) \cup column)
    BY <1>4
  <2> QED
    BY <1>2, <1>5, <1>7, <2>1, <2>2
<1> QED
  BY <1>1, <1>6, <1>7, <1>8, <1>9 DEF Volume, u


(* A listing has every element of its set exactly once.                        *)
LEMMA ListingIs ==
  ASSUME NEW S, IsFiniteSet(S), NEW order \in Listings(S)
  PROVE  /\ Len(order) \in Nat
         /\ order \in [1..Len(order) -> S]
         /\ \A i, j \in 1..Len(order) : order[i] = order[j] => i = j
         /\ \A x \in S : \E i \in 1..Len(order) : order[i] = x
<1>1. Cardinality(S) \in Nat
  BY FS_CardinalityType
<1>2. order \in [1..Cardinality(S) -> S] /\ Len(order) = Cardinality(S)
  BY <1>1 DEF Listings, Bijection, Injection
<1>3. \A i, j \in 1..Cardinality(S) : order[i] = order[j] => i = j
  BY <1>2 DEF Listings, Bijection, Injection, IsInjective
<1>4. \A x \in S : \E i \in 1..Cardinality(S) : order[i] = x
  BY DEF Listings, Bijection, Surjection
<1> QED
  BY <1>1, <1>2, <1>3, <1>4

(* Sizes that are added up in any order make the volume.                       *)
LEMMA TotalIsVolume ==
  ASSUME NEW S, IsFiniteSet(S), NEW order \in Listings(S), NEW w \in [S -> Nat],
         NEW lengths, lengths = [k \in 1..Len(order) |-> w[order[k]]]
  PROVE  IsFiniteSet(Boxes(w)) /\ Volume(w) = Total(lengths)
<1> DEFINE n == Len(order)
           first(k) == {order[j] : j \in 1..k}
           part(k) == [x \in first(k) |-> w[x]]
           T == {k \in 0..n : IsFiniteSet(Boxes(part(k))) /\ Volume(part(k)) = Sums(lengths)[k]}
<1>1. /\ n \in Nat /\ order \in [1..n -> S]
      /\ \A i, j \in 1..n : order[i] = order[j] => i = j
      /\ \A x \in S : \E i \in 1..n : order[i] = x
  BY ListingIs
<1> HIDE DEF n
<1>2. lengths \in [1..n -> Nat]
  BY <1>1 DEF n
<1>3. /\ Sums(lengths)[0] = 0
      /\ \A k \in 1..n : Sums(lengths)[k] = Sums(lengths)[k-1] + lengths[k]
      /\ Total(lengths) = Sums(lengths)[n]
  BY <1>1, <1>2, SumsAre, ZenonT(30)
<1>4. 0 \in T
  <2>1. part(0) = Empty
    BY DEF Empty
  <2> QED
    BY <1>1, <1>3, <2>1, NoVolume
<1>5. ASSUME NEW k \in 1..n, k - 1 \in T PROVE k \in T
  <2>1. order[k] \notin first(k-1) /\ first(k-1) \cup {order[k]} = first(k) /\ first(k) \subseteq S
    BY <1>1
  <2>2. part(k-1) \in [first(k-1) -> Nat] /\ w[order[k]] \in Nat
    BY <1>1, <2>1
  <2>3. part(k) = With(part(k-1), order[k], w[order[k]])
    BY <2>1 DEF With
  <2>4. w[order[k]] = lengths[k]
    BY DEF n
  <2>5. IsFiniteSet(Boxes(part(k-1))) /\ Volume(part(k-1)) = Sums(lengths)[k-1]
    BY <1>5
  <2> DEFINE before == part(k-1)
             D == first(k-1)
             name == order[k]
             size == w[order[k]]
  <2>6. before \in [D -> Nat] /\ IsFiniteSet(Boxes(before)) /\ name \notin D /\ size \in Nat
    BY <2>1, <2>2, <2>5
  <2>7. Volume(before) = Sums(lengths)[k-1] /\ size = lengths[k] /\ part(k) = With(before, name, size)
    BY <2>3, <2>4, <2>5
  <2> HIDE DEF part, first, before, D, name, size
  <2>8. /\ IsFiniteSet(Boxes(With(before, name, size)))
        /\ Volume(With(before, name, size)) = Volume(before) + size
    BY <2>6, VolumeOfWith
  <2> QED
    BY <1>3, <2>7, <2>8
<1> HIDE DEF T
<1>6. n \in T
  <2>1. \A k \in 0..n : k \in T
    BY <1>1, <1>4, <1>5, Upward
  <2> QED
    BY <1>1, <2>1
<1>7. part(n) = w
  <2>1. first(n) = S
    BY <1>1
  <2> QED
    BY <2>1
<1> QED
  BY <1>3, <1>6, <1>7 DEF T

-----------------------------------------------------------------------------
(* Dictionaries, written and read *)

(* The bytes of a dictionary, name by name.                                    *)
Sizes(options) == [name \in DOMAIN options |-> Len(name) + Len(options[name]) + 2]

(* One written pair has the bytes of both strings and two terminators.         *)
LEMMA PairIs ==
  ASSUME NEW options, IsDictionary(options), NEW name \in DOMAIN options
  PROVE  /\ name \in String /\ options[name] \in String
         /\ Asciiz(name) \o Asciiz(options[name]) \in Bytes
         /\ Len(name) + Len(options[name]) + 2 \in Nat
         /\ Len(Asciiz(name) \o Asciiz(options[name])) = Len(name) + Len(options[name]) + 2
<1>1. name \in String /\ options[name] \in String
  BY DEF IsDictionary
<1> DEFINE n == Asciiz(name)
           v == Asciiz(options[name])
<1>2. /\ n \in Bytes /\ Len(n) = Len(name) + 1 /\ Len(name) \in Nat
      /\ v \in Bytes /\ Len(v) = Len(options[name]) + 1 /\ Len(options[name]) \in Nat
  BY <1>1, AsciizIs
<1> HIDE DEF n, v
<1>3. n \o v \in Bytes /\ Len(n \o v) = Len(n) + Len(v)
  BY <1>2, Joining
<1>4. Len(n \o v) = Len(name) + Len(options[name]) + 2
  BY <1>2, <1>3
<1> QED
  BY <1>1, <1>2, <1>3, <1>4 DEF n, v

(* The written pairs of a dictionary are as many bytes as PairsSize says and   *)
(* as its volume, whatever the order.                                          *)
LEMMA PairsWritten ==
  ASSUME NEW options, IsDictionary(options), NEW order \in Listings(DOMAIN options)
  PROVE  /\ WritePairs(options, order) \in Bytes
         /\ Len(WritePairs(options, order)) = PairsSize(options, order)
         /\ IsFiniteSet(Boxes(Sizes(options)))
         /\ Volume(Sizes(options)) = PairsSize(options, order)
<1> DEFINE n == Len(order)
           pieces == [k \in 1..Len(order) |-> Asciiz(order[k]) \o Asciiz(options[order[k]])]
           lengths == [k \in 1..Len(order) |-> Len(order[k]) + Len(options[order[k]]) + 2]
           w == Sizes(options)
<1>1. n \in Nat /\ order \in [1..n -> DOMAIN options]
  BY ListingIs DEF IsDictionary
<1>2. \A k \in 1..n : /\ pieces[k] \in Bytes
                      /\ lengths[k] \in Nat
                      /\ lengths[k] = Len(pieces[k])
  BY <1>1, PairIs
<1>3. pieces \in [1..n -> Seq(Byte)] /\ lengths \in [1..n -> Nat]
  BY <1>2 DEF Bytes
<1>4. lengths = [k \in 1..Len(order) |-> w[order[k]]]
  BY <1>1 DEF Sizes
<1>5. w \in [DOMAIN options -> Nat]
  BY PairIs DEF Sizes
<1>6. WritePairs(options, order) = FlattenSeq(pieces) /\ PairsSize(options, order) = Total(lengths)
  BY DEF WritePairs, PairsSize
<1> HIDE DEF n, pieces, lengths, w
<1>7. IsFiniteSet(Boxes(w)) /\ Volume(w) = Total(lengths)
  BY <1>4, <1>5, TotalIsVolume DEF IsDictionary
<1>8. FlattenSeq(pieces) \in Bytes /\ Len(FlattenSeq(pieces)) = Total(lengths)
  <2>1. Measures(lengths, n, pieces)
    BY <1>2, <1>3 DEF Measures
  <2> QED
    BY <1>1, <1>3, <2>1, FlattenSeqLength DEF Bytes
<1> QED
  BY <1>6, <1>7, <1>8 DEF w

Dictionaries ==
  {d \in UNION {[names -> String] : names \in SUBSET String} : IsFiniteSet(DOMAIN d)}

(* The set of dictionaries has exactly those that can be written.              *)
LEMMA DictionariesAre == \A d : d \in Dictionaries <=> IsDictionary(d)
BY DEF Dictionaries, IsDictionary

(* A dictionary with one more pair is a dictionary.                            *)
LEMMA MoreDictionaries ==
  /\ Empty \in Dictionaries
  /\ \A d \in Dictionaries, name \in String, value \in String :
       With(d, name, value) \in Dictionaries
<1>1. IsDictionary(Empty)
  BY FS_EmptySet DEF IsDictionary, Empty
<1>2. ASSUME NEW d, IsDictionary(d), NEW name \in String, NEW value \in String
      PROVE  IsDictionary(With(d, name, value))
  <2>1. DOMAIN With(d, name, value) = DOMAIN d \cup {name}
    BY DEF With
  <2>2. IsFiniteSet(DOMAIN d \cup {name}) /\ DOMAIN d \cup {name} \subseteq String
    BY <1>2, FS_AddElement DEF IsDictionary
  <2>3. With(d, name, value) \in [DOMAIN d \cup {name} -> String]
    BY <1>2 DEF With, IsDictionary
  <2> QED
    BY <2>1, <2>2, <2>3 DEF IsDictionary
<1> QED
  BY <1>1, <1>2, DictionariesAre

(* A name and a value that are there take the bytes up to the next.            *)
LEMMA PairAt ==
  ASSUME NEW bytes \in Bytes, NEW i \in 1..Len(bytes)+1,
         NEW name, name = EndOfText(bytes, i),
         NEW value, value = EndOfText(bytes, name + 1), value <= Len(bytes)
  PROVE  /\ value + 1 \in i+1..Len(bytes)+1
         /\ TextAt(bytes, i) \in String /\ TextAt(bytes, name + 1) \in String
         /\ Len(TextAt(bytes, i)) + Len(TextAt(bytes, name + 1)) + 2 = value + 1 - i
<1>1. Len(bytes) \in Nat
  BY Joining
<1>2. name \in Nat /\ name >= i /\ \A m \in i..name-1 : m <= Len(bytes)
  BY <1>1, EndOfTextIs
<1>3. name + 1 \in 1..Len(bytes)+2
  BY <1>1, <1>2
<1>4. value \in Nat /\ value >= name + 1
  BY <1>3, EndOfTextIs
<1>5. name <= Len(bytes)
  BY <1>1, <1>2, <1>4
<1>6. /\ TextAt(bytes, i) \in String /\ Len(TextAt(bytes, i)) = name - i
      /\ TextAt(bytes, name + 1) \in String
      /\ Len(TextAt(bytes, name + 1)) = value - (name + 1)
  BY <1>1, <1>3, <1>5, TextRead
<1>7. value + 1 \in i+1..Len(bytes)+1
  BY <1>1, <1>2, <1>4
<1>8. \A a, b, c \in Int : (a - c) + (b - (a + 1)) + 2 = b + 1 - c
  OBVIOUS
<1>9. (name - i) + (value - (name + 1)) + 2 = value + 1 - i
  <2>1. name \in Int /\ value \in Int /\ i \in Int
    BY <1>2, <1>4
  <2> QED
    BY <1>8, <2>1
<1>10. Len(TextAt(bytes, i)) + Len(TextAt(bytes, name + 1)) + 2 = value + 1 - i
  BY <1>6, <1>9
<1> QED
  BY <1>6, <1>7, <1>10

(* One pair, and what is read after it.                                        *)
PairsFrom(bytes, i, read) ==
  LET name == EndOfText(bytes, i)
      value == EndOfText(bytes, name + 1)
  IN IF i > Len(bytes) THEN {Empty}
     ELSE IF value > Len(bytes) THEN {}
     ELSE {With(rest, TextAt(bytes, i), TextAt(bytes, name + 1)) : rest \in read[value + 1]}

IsReadPairs(read, bytes) ==
  read = [start \in 1..Len(bytes)+1 |-> PairsFrom(bytes, start, read)]

(* One step of the reader gives dictionaries, and looks only at later          *)
(* indices.                                                                    *)
LEMMA PairsFromIs ==
  ASSUME NEW bytes \in Bytes, NEW i \in 1..Len(bytes)+1,
         NEW read, \A j \in i+1..Len(bytes)+1 : read[j] \in SUBSET Dictionaries
  PROVE  /\ PairsFrom(bytes, i, read) \in SUBSET Dictionaries
         /\ \A other : (\A j \in i+1..Len(bytes)+1 : other[j] = read[j]) =>
              PairsFrom(bytes, i, other) = PairsFrom(bytes, i, read)
<1> DEFINE name == EndOfText(bytes, i)
           value == EndOfText(bytes, name + 1)
<1>1. CASE i > Len(bytes)
  BY <1>1, MoreDictionaries DEF PairsFrom
<1>2. CASE ~(i > Len(bytes)) /\ value > Len(bytes)
  BY <1>2, Zenon DEF PairsFrom
<1>3. CASE ~(i > Len(bytes)) /\ ~(value > Len(bytes))
  <2>1. Len(bytes) \in Nat
    BY Joining
  <2>2. name \in Nat /\ name >= i
    BY <2>1, EndOfTextIs
  <2>3. name + 1 \in 1..Len(bytes)+2
    <3>1. \A m \in i..name-1 : m <= Len(bytes)
      BY <2>1, EndOfTextIs
    <3> HIDE DEF name
    <3> QED
      BY <2>1, <2>2, <3>1
  <2>4. value \in Nat
    BY <2>3, EndOfTextIs
  <2>5. value <= Len(bytes)
    <3> HIDE DEF value
    <3> QED
      BY <1>3, <2>1, <2>4
  <2>6. /\ value + 1 \in i+1..Len(bytes)+1
        /\ TextAt(bytes, i) \in String /\ TextAt(bytes, name + 1) \in String
    BY <2>5, PairAt
  <2>7. \A f : PairsFrom(bytes, i, f)
                 = {With(rest, TextAt(bytes, i), TextAt(bytes, name + 1)) : rest \in f[value + 1]}
    BY <1>3, Zenon DEF PairsFrom
  <2> HIDE DEF name, value
  <2>8. read[value + 1] \in SUBSET Dictionaries
    BY <2>6
  <2>9. \A rest \in read[value + 1] :
          With(rest, TextAt(bytes, i), TextAt(bytes, name + 1)) \in Dictionaries
    BY <2>6, <2>8, MoreDictionaries
  <2>10. PairsFrom(bytes, i, read) \in SUBSET Dictionaries
    BY <2>7, <2>9
  <2>11. ASSUME NEW other, \A j \in i+1..Len(bytes)+1 : other[j] = read[j]
         PROVE  PairsFrom(bytes, i, other) = PairsFrom(bytes, i, read)
    <3>1. other[value + 1] = read[value + 1]
      BY <2>6, <2>11
    <3> QED
      BY <2>7, <3>1
  <2> QED
    BY <2>10, <2>11
<1> QED
  BY <1>1, <1>2, <1>3

(* The reader of pairs is what its recursion says.                             *)
LEMMA ReadPairsIs ==
  ASSUME NEW bytes \in Bytes
  PROVE  \E read : /\ \A i : ReadPairs(bytes, i) = read[i]
                   /\ \A i \in 1..Len(bytes)+1 :
                        /\ read[i] = PairsFrom(bytes, i, read)
                        /\ read[i] \in SUBSET Dictionaries
<1> DEFINE n == Len(bytes) + 1
           V == SUBSET Dictionaries
           F == [p \in (0..n) \X Tails(n, V) |-> IF p[1] = 0 THEN {} ELSE PairsFrom(bytes, p[1], p[2])]
           read == CHOOSE read : IsReadPairs(read, bytes)
           T == {i \in 0..n : i = 0 \/ read[i] \in V}
<1>1. n \in Nat
  BY Joining
<1>2. \A i \in 1..n : \A f : (\A j \in i+1..n : f[j] \in V) =>
         /\ PairsFrom(bytes, i, f) \in V
         /\ \A g : (\A j \in i+1..n : g[j] = f[j]) => PairsFrom(bytes, i, g) = PairsFrom(bytes, i, f)
  BY PairsFromIs
<1>3. \A i \in 0..n : \A later \in [i+1..n -> V] :
        F[<<i, later>>] = IF i = 0 THEN {} ELSE PairsFrom(bytes, i, later)
  <2> SUFFICES ASSUME NEW i \in 0..n, NEW later \in [i+1..n -> V]
               PROVE  F[<<i, later>>] = IF i = 0 THEN {} ELSE PairsFrom(bytes, i, later)
    OBVIOUS
  <2>1. later \in Tails(n, V)
    BY DEF Tails
  <2> HIDE DEF n, V
  <2> QED
    BY <2>1
<1> HIDE DEF F
<1>4. PICK f \in [0..n -> V] : Recurses(f, 0, n, F)
  <2>1. ASSUME NEW i \in 0..n, NEW later \in [i+1..n -> V] PROVE F[<<i, later>>] \in V
    <3>1. CASE i = 0
      <4>1. {} \in V
        OBVIOUS
      <4> QED
        BY <1>3, <3>1, <4>1
    <3>2. CASE i # 0
      <4>1. i \in 1..n /\ \A j \in i+1..n : later[j] \in V
        BY <3>2
      <4>2. PairsFrom(bytes, i, later) \in V
        BY <1>2, <4>1
      <4> QED
        BY <1>3, <3>2, <4>2
    <3> QED
      BY <3>1, <3>2
  <2> HIDE DEF n, V
  <2> QED
    BY <1>1, <2>1, Recursive
<1> HIDE DEF n, V
<1>5. ASSUME NEW i \in 1..n PROVE f[i] = PairsFrom(bytes, i, f)
  <2> DEFINE later == [j \in i+1..n |-> f[j]]
  <2>1. i \in 0..n /\ i # 0 /\ \A j \in i+1..n : j \in 0..n
    BY <1>1
  <2>2. later \in [i+1..n -> V] /\ \A j \in i+1..n : later[j] = f[j] /\ f[j] \in V
    BY <2>1
  <2>3. f[i] = F[<<i, later>>]
    BY <1>4, <2>1 DEF Recurses
  <2> HIDE DEF later
  <2>4. f[i] = PairsFrom(bytes, i, later)
    BY <1>3, <2>1, <2>2, <2>3
  <2> QED
    BY <1>2, <2>2, <2>4
<1>6. IsReadPairs([i \in 1..n |-> f[i]], bytes)
  <2> DEFINE g == [i \in 1..n |-> f[i]]
  <2>1. \A i \in 1..n : g[i] = f[i]
    OBVIOUS
  <2>2. g = [i \in 1..n |-> g[i]]
    BY <2>1
  <2> HIDE DEF g
  <2>3. ASSUME NEW i \in 1..n PROVE g[i] = PairsFrom(bytes, i, g)
    <3>1. \A j \in i+1..n : g[j] = f[j] /\ f[j] \in V
      BY <1>1, <2>1
    <3>2. PairsFrom(bytes, i, g) = PairsFrom(bytes, i, f)
      BY <1>2, <3>1
    <3> QED
      BY <1>5, <2>1, <3>2
  <2>4. g = [i \in 1..n |-> PairsFrom(bytes, i, g)]
    BY <2>2, <2>3
  <2> QED
    BY <2>4 DEF IsReadPairs, g, n
<1>7. IsReadPairs(read, bytes)
  BY <1>6
<1>8. \A i : ReadPairs(bytes, i) = read[i]
  BY Zenon DEF ReadPairs, IsReadPairs, PairsFrom
<1> HIDE DEF read
<1>9. \A i \in 1..n : read[i] = PairsFrom(bytes, i, read)
  BY <1>7 DEF IsReadPairs, n
<1>10. ASSUME NEW i \in 0..n, \A j \in i+1..n : j \in T PROVE i \in T
  <2>1. CASE i # 0
    <3>1. i \in 1..n /\ \A j \in i+1..n : read[j] \in V
      BY <1>1, <1>10, <2>1
    <3> QED
      BY <1>2, <1>9, <3>1
  <2> QED
    BY <2>1
<1> HIDE DEF T
<1>11. \A i \in 0..n : i \in T
  BY <1>1, <1>10, Downward
<1>12. \A i \in 1..n : read[i] \in V
  BY <1>11 DEF T
<1> QED
  BY <1>8, <1>9, <1>12 DEF n, V

PairIn(bytes, before, a, b, after) ==
  LET name == before + Len(a) + 1
      value == name + Len(b) + 1
  IN /\ EndOfText(bytes, before + 1) = name /\ TextAt(bytes, before + 1) = a
     /\ EndOfText(bytes, name + 1) = value /\ TextAt(bytes, name + 1) = b
     /\ Len(bytes) = value + after

(* Two strings that were written one after the other are read one after the    *)
(* other.                                                                      *)
LEMMA PairWritten ==
  ASSUME NEW x \in Bytes, NEW a \in String, NEW b \in String, NEW y \in Bytes
  PROVE  PairIn((x \o (Asciiz(a) \o Asciiz(b))) \o y, Len(x), a, b, Len(y))
<1> DEFINE s == Asciiz(a)
           t == Asciiz(b)
           bytes == (x \o (Asciiz(a) \o Asciiz(b))) \o y
           name == Len(x) + Len(a) + 1
           value == name + Len(b) + 1
<1>1. /\ s \in Bytes /\ Len(s) = Len(a) + 1 /\ Len(a) \in Nat
      /\ t \in Bytes /\ Len(t) = Len(b) + 1 /\ Len(b) \in Nat
  BY AsciizIs
<1> HIDE DEF s, t
<1>2. /\ x \o s \in Bytes /\ Len(x \o s) = Len(x) + Len(s)
      /\ t \o y \in Bytes /\ s \o t \in Bytes /\ Len(s \o t) = Len(s) + Len(t)
      /\ Len(x) \in Nat /\ Len(y) \in Nat
  BY <1>1, Joining
<1>3. /\ x \o (s \o t) \in Bytes /\ Len(x \o (s \o t)) = Len(x) + Len(s \o t)
      /\ Len((x \o (s \o t)) \o y) = Len(x \o (s \o t)) + Len(y)
  BY <1>2, Joining
<1>4. Len((x \o (s \o t)) \o y) = value + Len(y)
  BY <1>1, <1>2, <1>3
<1>5. (x \o (s \o t)) \o y = ((x \o s) \o t) \o y
  BY <1>1, Associates
<1>6. ((x \o s) \o t) \o y = (x \o s) \o (t \o y)
  <2>1. x \o s \in Bytes /\ t \in Bytes
    BY <1>1, <1>2
  <2> QED
    BY <2>1, Associates, Zenon
<1>7. EndOfText(bytes, Len(x) + 1) = name /\ TextAt(bytes, Len(x) + 1) = a
  <2>1. bytes = (x \o Asciiz(a)) \o (t \o y)
    BY <1>5, <1>6 DEF s, t
  <2>2. t \o y \in Bytes
    BY <1>2
  <2>3. /\ EndOfText((x \o Asciiz(a)) \o (t \o y), Len(x) + 1) = Len(x) + Len(a) + 1
        /\ TextAt((x \o Asciiz(a)) \o (t \o y), Len(x) + 1) = a
    BY <2>2, TextWritten, Zenon
  <2> QED
    BY <2>1, <2>3
<1>8. EndOfText(bytes, name + 1) = value /\ TextAt(bytes, name + 1) = b
  <2>1. bytes = ((x \o s) \o Asciiz(b)) \o y
    BY <1>5 DEF s, t
  <2>2. Len(x \o s) = name
    BY <1>1, <1>2
  <2>3. x \o s \in Bytes
    BY <1>2
  <2>4. /\ EndOfText(((x \o s) \o Asciiz(b)) \o y, Len(x \o s) + 1) = Len(x \o s) + Len(b) + 1
        /\ TextAt(((x \o s) \o Asciiz(b)) \o y, Len(x \o s) + 1) = b
    BY <2>3, TextWritten, Zenon
  <2> QED
    BY <2>1, <2>2, <2>4
<1> QED
  BY <1>4, <1>7, <1>8 DEF PairIn, s, t

(* A dictionary that was written is the one that is read, whatever the order.  *)
LEMMA PairsRead ==
  ASSUME NEW x \in Bytes, NEW options, IsDictionary(options),
         NEW order \in Listings(DOMAIN options)
  PROVE  ReadPairs(x \o WritePairs(options, order), Len(x) + 1) = {options}
<1> DEFINE n == Len(order)
           pieces == [k \in 1..Len(order) |-> Asciiz(order[k]) \o Asciiz(options[order[k]])]
           bytes == x \o WritePairs(options, order)
           rest(k) == {order[j] : j \in k+1..n}
           part(k) == [name \in rest(k) |-> options[name]]
<1>1. /\ n \in Nat /\ order \in [1..n -> DOMAIN options]
      /\ \A i, j \in 1..n : order[i] = order[j] => i = j
      /\ \A name \in DOMAIN options : \E i \in 1..n : order[i] = name
  BY ListingIs DEF IsDictionary
<1>2. \A k \in 1..n : /\ pieces[k] = Asciiz(order[k]) \o Asciiz(options[order[k]])
                      /\ pieces[k] \in Bytes
                      /\ order[k] \in String /\ options[order[k]] \in String
  BY <1>1, PairIs
<1>3. pieces \in [1..n -> Seq(Byte)]
  BY <1>2 DEF Bytes
<1>4. WritePairs(options, order) = FlattenSeq(pieces)
  BY DEF WritePairs
<1> HIDE DEF n, pieces
<1>5. PICK g : Joins(g, Byte, n, pieces) /\ g[n] = FlattenSeq(pieces)
  BY <1>1, <1>3, FlattenSeqJoins, Zenon
<1>6. /\ \A k \in 0..n : g[k] \in Bytes
      /\ \A k \in 1..n : g[k] = g[k-1] \o pieces[k]
      /\ g[0] = <<>> /\ bytes = x \o g[n]
  BY <1>4, <1>5 DEF Joins, Bytes
<1>7. \A k \in 0..n : Begins(g[n], g[k], Byte)
  BY <1>1, <1>5, JoinsPrefix
<1> HIDE DEF bytes
<1>8. n \in 0..n /\ g[n] \in Bytes /\ bytes \in Bytes /\ Len(bytes) = Len(x) + Len(g[n])
  <2>1. n \in 0..n /\ g[n] \in Bytes
    BY <1>1, <1>6
  <2> QED
    BY <1>6, <2>1, Joining
<1>9. PICK read : /\ \A i : ReadPairs(bytes, i) = read[i]
                  /\ \A i \in 1..Len(bytes)+1 : read[i] = PairsFrom(bytes, i, read)
  BY <1>8, ReadPairsIs
<1> DEFINE T == {k \in 0..n : read[Len(x) + Len(g[k]) + 1] = {part(k)}}
<1>10. n \in T
  <2>1. Len(bytes) \in Nat /\ Len(bytes) + 1 \in 1..Len(bytes)+1 /\ Len(bytes) + 1 > Len(bytes)
    BY <1>8, Joining
  <2>2. read[Len(bytes) + 1] = {Empty}
    BY <1>9, <2>1 DEF PairsFrom
  <2>3. part(n) = Empty
    BY <1>1 DEF Empty
  <2> HIDE DEF part
  <2> QED
    BY <1>8, <2>2, <2>3
<1>11. ASSUME NEW k \in 0..n-1, k + 1 \in T PROVE k \in T
  <2> DEFINE a == order[k+1]
             b == options[a]
             s == x \o g[k]
             name == Len(s) + Len(a) + 1
             value == name + Len(b) + 1
  <2>1. k \in 0..n /\ k + 1 \in 1..n /\ k + 1 \in 0..n /\ (k + 1) - 1 = k
    BY <1>1
  <2>2. a \in String /\ b \in String /\ pieces[k+1] = Asciiz(a) \o Asciiz(b) /\ pieces[k+1] \in Bytes
    BY <1>2, <2>1
  <2>3. PICK y \in Bytes : g[n] = g[k+1] \o y
    <3>1. Begins(g[n], g[k+1], Byte)
      BY <1>7, <2>1
    <3> QED
      BY <3>1 DEF Begins, Bytes
  <2>4. g[k] \in Bytes /\ g[k+1] = g[k] \o pieces[k+1] /\ g[k+1] \in Bytes
    BY <1>6, <2>1
  <2>5. s \in Bytes /\ Len(s) = Len(x) + Len(g[k]) /\ Len(x \o g[k+1]) = Len(x) + Len(g[k+1])
    BY <2>4, Joining
  <2>6. bytes = (s \o (Asciiz(a) \o Asciiz(b))) \o y /\ x \o g[k+1] = s \o (Asciiz(a) \o Asciiz(b))
    <3>1. x \o (g[k+1] \o y) = (x \o g[k+1]) \o y
      BY <2>4, Associates
    <3>2. x \o (g[k] \o pieces[k+1]) = (x \o g[k]) \o pieces[k+1]
      BY <2>2, <2>4, Associates
    <3> QED
      BY <1>6, <2>2, <2>3, <2>4, <3>1, <3>2
  <2> HIDE DEF s
  <2>7. /\ EndOfText(bytes, Len(s) + 1) = name /\ TextAt(bytes, Len(s) + 1) = a
        /\ EndOfText(bytes, name + 1) = value /\ TextAt(bytes, name + 1) = b
        /\ Len(bytes) = value + Len(y)
    <3>1. a \in String /\ b \in String /\ s \in Bytes
      BY <2>2, <2>5
    <3> HIDE DEF a, b
    <3>2. PairIn((s \o (Asciiz(a) \o Asciiz(b))) \o y, Len(s), a, b, Len(y))
      BY <3>1, PairWritten
    <3>3. PairIn(bytes, Len(s), a, b, Len(y))
      BY <2>6, <3>2
    <3> QED
      BY <3>3, Zenon DEF PairIn
  <2>8. /\ Len(s) \in Nat /\ Len(a) \in Nat /\ Len(b) \in Nat /\ Len(y) \in Nat
    BY <2>2, <2>3, <2>5, AsciizIs, Joining
  <2>9. /\ Len(s) + 1 \in 1..Len(bytes)+1 /\ ~(Len(s) + 1 > Len(bytes)) /\ ~(value > Len(bytes))
        /\ value + 1 = Len(x) + Len(g[k+1]) + 1
    <3>1. \A l, c, d, m \in Nat :
            LET v == l + c + 1 + d + 1 IN
            /\ l + 1 \in 1..(v + m)+1 /\ ~(l + 1 > v + m) /\ ~(v > v + m)
      OBVIOUS
    <3>2. Len(bytes) = value + Len(y) /\ Len(x) + Len(g[k+1]) = value
      <4>1. x \o g[k+1] \in Bytes /\ bytes = (x \o g[k+1]) \o y
        BY <2>4, <2>6, Joining
      <4>2. Len((x \o g[k+1]) \o y) = Len(x \o g[k+1]) + Len(y) /\ Len(x \o g[k+1]) \in Nat
        BY <4>1, Joining
      <4>3. \A l, m, v \in Nat : l + m = v + m => l = v
        OBVIOUS
      <4>4. value \in Nat
        <5> HIDE DEF a, b
        <5> QED
          BY <2>8
      <4>5. Len(bytes) = value + Len(y)
        BY <2>7
      <4> HIDE DEF a, b, name, value
      <4>6. Len(x \o g[k+1]) + Len(y) = value + Len(y)
        BY <4>1, <4>2, <4>5
      <4>7. Len(x \o g[k+1]) = value
        BY <2>8, <4>2, <4>3, <4>4, <4>6
      <4> QED
        BY <2>5, <4>5, <4>7
    <3> HIDE DEF a, b
    <3> QED
      BY <2>8, <3>1, <3>2
  <2> HIDE DEF a, b, name, value
  <2>10. PairsFrom(bytes, Len(s) + 1, read) = {With(later, a, b) : later \in read[value + 1]}
    BY <2>7, <2>9, Zenon DEF PairsFrom
  <2>11. read[value + 1] = {part(k+1)}
    <3> HIDE DEF part
    <3> QED
      BY <1>11, <2>9
  <2>12. With(part(k+1), a, b) = part(k)
    <3>1. rest(k) = rest(k+1) \cup {a} /\ a \notin rest(k+1)
      BY <1>1, <2>1 DEF a
    <3> QED
      BY <3>1 DEF With, b
  <2>13. read[Len(s) + 1] = {part(k)}
    <3> HIDE DEF part
    <3> QED
      BY <1>9, <2>9, <2>10, <2>11, <2>12
  <2> QED
    BY <2>1, <2>5, <2>13
<1> HIDE DEF T
<1>12. ASSUME NEW k \in 0..n, \A j \in k+1..n : j \in T PROVE k \in T
  <2>1. CASE k = n
    BY <1>10, <2>1
  <2>2. CASE k # n
    <3>1. k \in 0..n-1 /\ k + 1 \in k+1..n
      BY <1>1, <2>2
    <3> QED
      BY <1>11, <1>12, <3>1
  <2> QED
    BY <2>1, <2>2
<1>13. 0 \in T
  <2>1. \A k \in 0..n : k \in T
    BY <1>1, <1>12, Downward
  <2> QED
    BY <1>1, <2>1
<1>14. part(0) = options
  <2>1. rest(0) = {order[j] : j \in 1..n}
    OBVIOUS
  <2>2. {order[j] : j \in 1..n} = DOMAIN options
    <3> DEFINE listed == {order[j] : j \in 1..n}
    <3>1. ASSUME NEW name \in listed PROVE name \in DOMAIN options
      <4>1. PICK j \in 1..n : name = order[j]
        OBVIOUS
      <4> QED
        BY <1>1, <4>1
    <3>2. ASSUME NEW name \in DOMAIN options PROVE name \in listed
      <4>1. PICK j \in 1..n : order[j] = name
        BY <1>1
      <4> QED
        BY <4>1
    <3> HIDE DEF listed
    <3>3. listed = DOMAIN options
      BY <3>1, <3>2
    <3> QED
      BY <3>3 DEF listed
  <2>3. rest(0) = DOMAIN options
    BY <2>1, <2>2
  <2> QED
    BY <2>3 DEF IsDictionary
<1>15. Len(x) + Len(g[0]) + 1 = Len(x) + 1
  BY <1>6, NoBytes, Joining
<1> HIDE DEF part
<1>16. read[Len(x) + 1] = {options}
  BY <1>13, <1>14, <1>15 DEF T
<1> QED
  BY <1>9, <1>16 DEF bytes

Fits(d, room) ==
  d \in Dictionaries /\ IsFiniteSet(Boxes(Sizes(d))) /\ Volume(Sizes(d)) <= room

(* With one more pair a dictionary needs no more than the bytes of that pair   *)
(* besides.                                                                    *)
LEMMA FitsWith ==
  ASSUME NEW room \in Nat, NEW d, Fits(d, room), NEW name \in String, NEW value \in String,
         NEW size, size = Len(name) + Len(value) + 2
  PROVE  Fits(With(d, name, value), room + size)
<1> DEFINE w == Sizes(d)
           u == Sizes(With(d, name, value))
<1>1. IsDictionary(d) /\ size \in Nat
  BY AsciizIs, DictionariesAre DEF Fits
<1>2. w \in [DOMAIN d -> Nat]
  BY <1>1, PairIs DEF Sizes
<1>3. u = With(w, name, size)
  BY DEF Sizes, With
<1> HIDE DEF w, u
<1>4. IsFiniteSet(Boxes(w)) /\ Volume(w) <= room
  BY DEF Fits, w
<1> DEFINE more == With(w, name, size)
<1>5. IsFiniteSet(Boxes(more))
  BY <1>1, <1>2, <1>4, VolumeOfWith
<1>6. Volume(w) \in Nat /\ Volume(more) \in Nat /\ Volume(more) <= Volume(w) + size
  BY <1>1, <1>2, <1>4, VolumeOfWith
<1> HIDE DEF more
<1>7. Volume(more) <= room + size
  BY <1>1, <1>4, <1>6
<1>8. With(d, name, value) \in Dictionaries
  BY MoreDictionaries DEF Fits
<1> QED
  BY <1>3, <1>5, <1>7, <1>8 DEF Fits, u, more

(* What is read takes no more bytes than there are.                            *)
LEMMA PairsFit ==
  ASSUME NEW bytes \in Bytes, NEW i \in 1..Len(bytes)+1, NEW d \in ReadPairs(bytes, i)
  PROVE  Fits(d, Len(bytes) + 1 - i)
<1> DEFINE n == Len(bytes) + 1
<1>1. n \in Nat /\ Len(bytes) \in Nat
  BY Joining
<1>2. PICK read : /\ \A j : ReadPairs(bytes, j) = read[j]
                  /\ \A j \in 1..n : read[j] = PairsFrom(bytes, j, read)
  BY ReadPairsIs
<1> DEFINE T == {j \in 0..n : j = 0 \/ \A e \in read[j] : Fits(e, n - j)}
<1>3. ASSUME NEW j \in 0..n, \A k \in j+1..n : k \in T, j # 0 PROVE j \in T
  <2> SUFFICES ASSUME NEW e \in PairsFrom(bytes, j, read) PROVE Fits(e, n - j)
    <3>1. j \in 1..n
      BY <1>1, <1>3
    <3> QED
      BY <1>2, <3>1
  <2> DEFINE name == EndOfText(bytes, j)
             value == EndOfText(bytes, name + 1)
             a == TextAt(bytes, j)
             b == TextAt(bytes, name + 1)
  <2>1. CASE j > Len(bytes)
    <3>1. e = Empty
      BY <2>1 DEF PairsFrom
    <3>2. Sizes(Empty) = Empty
      BY DEF Sizes, Empty
    <3>3. Volume(Empty) <= n - j
      BY <1>1, NoVolume
    <3> QED
      BY <3>1, <3>2, <3>3, NoVolume, MoreDictionaries DEF Fits
  <2>2. CASE ~(j > Len(bytes)) /\ value > Len(bytes)
    BY <2>2, Zenon DEF PairsFrom
  <2>3. CASE ~(j > Len(bytes)) /\ ~(value > Len(bytes))
    <3>1. PICK rest \in read[value + 1] : e = With(rest, a, b)
      <4>1. PairsFrom(bytes, j, read) = {With(rest, a, b) : rest \in read[value + 1]}
        BY <2>3, Zenon DEF PairsFrom
      <4> HIDE DEF a, b, value
      <4> QED
        BY <4>1
    <3>2. j \in 1..Len(bytes)+1
      BY <1>1, <1>3
    <3>3. value <= Len(bytes) /\ value \in Nat
      <4>1. name \in Nat /\ name >= j /\ \A m \in j..name-1 : m <= Len(bytes)
        BY <1>1, <3>2, EndOfTextIs
      <4> HIDE DEF name
      <4>2. name + 1 \in 1..Len(bytes)+2
        BY <1>1, <3>2, <4>1
      <4>3. value \in Nat
        BY <4>2, EndOfTextIs
      <4> HIDE DEF value
      <4> QED
        BY <1>1, <2>3, <4>3
    <3>4. /\ value + 1 \in j+1..n /\ a \in String /\ b \in String
          /\ Len(a) + Len(b) + 2 = value + 1 - j
      BY <3>2, <3>3, PairAt
    <3> HIDE DEF a, b, value
    <3>5. Fits(rest, n - (value + 1)) /\ n - (value + 1) \in Nat
      <4>1. value + 1 # 0 /\ value + 1 \in T
        BY <1>3, <3>2, <3>4
      <4> QED
        BY <1>1, <3>4, <4>1
    <3>6. Fits(With(rest, a, b), (n - (value + 1)) + (value + 1 - j))
      BY <3>4, <3>5, FitsWith
    <3>7. (n - (value + 1)) + (value + 1 - j) = n - j
      <4> HIDE DEF n
      <4> QED
        BY <1>1, <3>2, <3>3
    <3> QED
      BY <3>1, <3>6, <3>7
  <2> QED
    BY <2>1, <2>2, <2>3
<1>4. ASSUME NEW j \in 0..n, \A k \in j+1..n : k \in T PROVE j \in T
  BY <1>3, <1>4
<1> HIDE DEF T
<1>5. \A j \in 0..n : j \in T
  BY <1>1, <1>4, Downward
<1>6. i \in 0..n /\ i # 0
  BY <1>1
<1> QED
  BY <1>2, <1>5, <1>6 DEF T

-----------------------------------------------------------------------------
(* The payloads of the TFTP packets                                            *)

(* The two bytes of a number of 16 bits, and the number again.                 *)
LEMMA Halves ==
  ASSUME NEW v \in Int, 0 <= v, v <= 256 * 256 - 1
  PROVE  /\ v \div 256 \in Int /\ 0 <= v \div 256 /\ v \div 256 <= 255
         /\ v % 256 \in Int /\ 0 <= v % 256 /\ v % 256 <= 255
         /\ 256 * (v \div 256) + (v % 256) = v
OBVIOUS

(* Two bytes make a number of 16 bits.                                         *)
LEMMA Whole ==
  ASSUME NEW a \in Int, 0 <= a, a <= 255, NEW b \in Int, 0 <= b, b <= 255
  PROVE  256 * a + b \in Int /\ 0 <= 256 * a + b /\ 256 * a + b <= 256 * 256 - 1
OBVIOUS

(* The numbers of 16 bits.                                                     *)
LEMMA Unsigned16Is == \A v : v \in Unsigned16 <=> v \in Int /\ 0 <= v /\ v <= 256 * 256 - 1
<1>1. \A n \in Int : \A v : v \in 0..n <=> v \in Int /\ 0 <= v /\ v <= n
  OBVIOUS
<1>2. 256 * 256 - 1 \in Int
  OBVIOUS
<1> QED
  BY <1>1, <1>2, Zenon DEF Unsigned16

(* A number is written as two bytes that read as that number.                  *)
LEMMA Uint16Is ==
  ASSUME NEW value \in Unsigned16
  PROVE  /\ Uint16(value) \in Bytes /\ Len(Uint16(value)) = 2
         /\ 256 * Uint16(value)[1] + Uint16(value)[2] = value
<1> DEFINE high == value \div 256
           low == value % 256
<1>1. value \in Int /\ 0 <= value /\ value <= 256 * 256 - 1
  BY Unsigned16Is
<1>2. /\ high \in Int /\ 0 <= high /\ high <= 255
      /\ low \in Int /\ 0 <= low /\ low <= 255
      /\ 256 * high + low = value
  BY <1>1, Halves
<1>3. Uint16(value) = <<high, low>>
  BY DEF Uint16
<1> HIDE DEF high, low
<1>4. high \in Byte /\ low \in Byte
  BY <1>2 DEF Byte
<1>5. <<high, low>> \in Seq(Byte) /\ Len(<<high, low>>) = 2
  BY <1>4
<1>6. 256 * <<high, low>>[1] + <<high, low>>[2] = value
  BY <1>2
<1> QED
  BY <1>3, <1>5, <1>6 DEF Bytes

(* What follows is left when what is before it is taken off.                   *)
LEMMA Rest ==
  ASSUME NEW x \in Bytes, NEW y \in Bytes
  PROVE  /\ \A i \in 1..Len(x) : (x \o y)[i] = x[i]
         /\ SubSeq(x \o y, Len(x) + 1, Len(x \o y)) = y
<1>1. x \in Seq(Byte) /\ y \in Seq(Byte) /\ <<>> \in Seq(Byte)
  BY NoBytes DEF Bytes
<1>2. x \o y \in Bytes /\ Len(x \o y) = Len(x) + Len(y) /\ Len(x) \in Nat /\ Len(y) \in Nat
  BY Joining
<1>3. \A i \in 1..Len(x) : (x \o y)[i] = x[i]
  <2>1. \A i \in 1..Len(x) : i \in 1..Len(x)+Len(y) /\ i <= Len(x)
    BY <1>2
  <2>2. \A i \in 1..Len(x)+Len(y) : (x \o y)[i] = IF i <= Len(x) THEN x[i] ELSE y[i - Len(x)]
    BY <1>1, ConcatProperties
  <2> QED
    BY <2>1, <2>2
<1>4. SubSeq((x \o y) \o <<>>, Len(x) + 1, Len(x) + Len(y)) = y
  BY <1>1, Middle
<1>5. (x \o y) \o <<>> = x \o y
  BY <1>2, NoBytes
<1> QED
  BY <1>2, <1>3, <1>4, <1>5

(* Two bytes and what follows them.                                            *)
LEMMA FromWritten ==
  ASSUME NEW value \in Unsigned16, NEW y \in Bytes
  PROVE  /\ Uint16(value) \o y \in Bytes /\ Len(Uint16(value) \o y) = 2 + Len(y)
         /\ ToUint16(Uint16(value) \o y) = value
         /\ From(Uint16(value) \o y, 3) = y
<1> DEFINE x == Uint16(value)
           s == x \o y
<1>1. x \in Bytes /\ Len(x) = 2
  BY Uint16Is
<1>2. 256 * x[1] + x[2] = value
  BY Uint16Is
<1> HIDE DEF x
<1>3. s \in Bytes /\ Len(s) = 2 + Len(y)
  BY <1>1, Joining
<1>4. \A i \in 1..Len(x) : s[i] = x[i]
  BY <1>1, Rest
<1>5. SubSeq(s, Len(x) + 1, Len(s)) = y
  BY <1>1, Rest
<1> HIDE DEF s
<1>6. s[1] = x[1] /\ s[2] = x[2]
  BY <1>1, <1>4
<1>7. From(s, 3) = y
  BY <1>1, <1>5 DEF From
<1>8. ToUint16(s) = value
  BY <1>2, <1>6 DEF ToUint16
<1> QED
  BY <1>3, <1>7, <1>8 DEF s, x

(* A number and the rest, when there are two bytes at least.                   *)
LEMMA FromRead ==
  ASSUME NEW bytes \in Bytes, Len(bytes) >= 2
  PROVE  /\ ToUint16(bytes) \in Unsigned16
         /\ From(bytes, 3) \in Bytes /\ Len(From(bytes, 3)) = Len(bytes) - 2
<1>1. Len(bytes) \in Nat
  BY Joining
<1>2. \A k \in 1..Len(bytes) : bytes[k] \in 0..255
  BY ElementOfSeq DEF Bytes, Byte
<1>3. bytes[1] \in 0..255 /\ bytes[2] \in 0..255
  BY <1>1, <1>2
<1>4. 256 * bytes[1] + bytes[2] \in Unsigned16
  <2> DEFINE a == bytes[1]
             b == bytes[2]
  <2>1. a \in Int /\ 0 <= a /\ a <= 255 /\ b \in Int /\ 0 <= b /\ b <= 255
    <3>1. \A x \in 0..255 : x \in Int /\ 0 <= x /\ x <= 255
      OBVIOUS
    <3> QED
      BY <1>3, <3>1, Zenon
  <2> HIDE DEF a, b
  <2>2. 256 * a + b \in Int /\ 0 <= 256 * a + b /\ 256 * a + b <= 256 * 256 - 1
    BY <2>1, Whole
  <2>3. 256 * a + b \in Unsigned16
    BY <2>2, Unsigned16Is
  <2> QED
    BY <2>3 DEF a, b
<1>5. \A k \in 3..Len(bytes) : bytes[k] \in Byte
  BY <1>1, <1>2 DEF Byte
<1>6. (IF 3 <= Len(bytes) THEN Len(bytes) - 3 + 1 ELSE 0) = Len(bytes) - 2
  BY <1>1
<1>7. SubSeq(bytes, 3, Len(bytes)) \in Seq(Byte) /\ Len(SubSeq(bytes, 3, Len(bytes))) = Len(bytes) - 2
  BY <1>1, <1>5, <1>6, SubSeqProperties
<1>8. ToUint16(bytes) \in Unsigned16
  BY <1>4 DEF ToUint16
<1> QED
  BY <1>7, <1>8 DEF From, Bytes

PairsRoom(options) == Volume(Sizes(options))

IsRequest(payload, kind, f, x, options) ==
  /\ payload \in Bytes
  /\ Len(payload) = Len(f) + 1 + Len(x) + 1 + PairsRoom(options)
  /\ ReadRequest(kind, payload) = {Request(kind, f, x, options)}

(* The payload of a written request reads as that request.                     *)
LEMMA RequestWritten ==
  ASSUME NEW kind, NEW f \in String, NEW x \in String,
         NEW options, IsDictionary(options), NEW order \in Listings(DOMAIN options)
  PROVE  IsRequest(Asciiz(f) \o Asciiz(x) \o WritePairs(options, order), kind, f, x, options)
<1> DEFINE s == Asciiz(f) \o Asciiz(x)
           y == WritePairs(options, order)
           payload == s \o y
           name == Len(f) + 1
           value == name + Len(x) + 1
<1>1. y \in Bytes /\ Len(y) = PairsRoom(options)
  BY PairsWritten DEF PairsRoom
<1>2. /\ Asciiz(f) \in Bytes /\ Len(Asciiz(f)) = name /\ Len(f) \in Nat
      /\ Asciiz(x) \in Bytes /\ Len(Asciiz(x)) = Len(x) + 1 /\ Len(x) \in Nat
  BY AsciizIs
<1>3. s \in Bytes /\ Len(s) = value
  <2>1. s \in Bytes /\ Len(s) = Len(Asciiz(f)) + Len(Asciiz(x))
    BY <1>2, Joining
  <2> QED
    BY <1>2, <2>1
<1>4. ReadPairs(s \o y, Len(s) + 1) = {options}
  BY <1>3, PairsRead
<1>5. PairIn((<<>> \o (Asciiz(f) \o Asciiz(x))) \o y, Len(<<>>), f, x, Len(y))
  <2>1. <<>> \in Bytes
    BY NoBytes
  <2> HIDE DEF y
  <2> QED
    BY <1>1, <2>1, PairWritten
<1>6. <<>> \o s = s /\ Len(<<>>) = 0
  BY <1>3, NoBytes
<1>7. PairIn(payload, 0, f, x, Len(y))
  BY <1>5, <1>6
<1> HIDE DEF s, y
<1>8. s \o y \in Bytes /\ Len(s \o y) = Len(s) + Len(y) /\ Len(y) \in Nat
  BY <1>1, <1>3, Joining
<1>9. payload = s \o y
  OBVIOUS
<1> HIDE DEF payload
<1>10. Len(payload) = value + Len(y) /\ ~(value > Len(payload))
  BY <1>2, <1>3, <1>8, <1>9
<1>11. ReadPairs(payload, value + 1) = {options}
  BY <1>3, <1>4, <1>9
<1>12. /\ EndOfText(payload, 1) = name /\ TextAt(payload, 1) = f
       /\ EndOfText(payload, name + 1) = value /\ TextAt(payload, name + 1) = x
  <2>1. 0 + Len(f) + 1 = name /\ 0 + 1 = 1
    BY <1>2
  <2> QED
    BY <1>7, <2>1 DEF PairIn
<1> HIDE DEF name, value
<1>13. ReadRequest(kind, payload) = {Request(kind, f, x, given) : given \in {options}}
  BY <1>10, <1>11, <1>12 DEF ReadRequest
<1>14. ReadRequest(kind, payload) = {Request(kind, f, x, options)}
  BY <1>13
<1> QED
  BY <1>1, <1>8, <1>9, <1>10, <1>14 DEF IsRequest, name, value, payload, s, y

(* The payload of a written OACK reads as that OACK.                           *)
LEMMA OackWritten ==
  ASSUME NEW options, IsDictionary(options), NEW order \in Listings(DOMAIN options)
  PROVE  ReadOack(WritePairs(options, order)) = {OackPacket(options)}
<1> DEFINE y == WritePairs(options, order)
<1>1. y \in Bytes /\ <<>> \in Bytes /\ Len(<<>>) + 1 = 1
  BY PairsWritten, NoBytes
<1>2. ReadPairs(<<>> \o y, Len(<<>>) + 1) = {options}
  BY <1>1, PairsRead
<1> HIDE DEF y
<1>3. ReadPairs(y, 1) = {options}
  BY <1>1, <1>2, NoBytes
<1> QED
  BY <1>3 DEF ReadOack, y

(* The payload of a written error reads as that error.                         *)
LEMMA ErrorWritten ==
  ASSUME NEW code \in Unsigned16, NEW text \in String
  PROVE  /\ Uint16(code) \o Asciiz(text) \in Bytes
         /\ Len(Uint16(code) \o Asciiz(text)) = 2 + Len(text) + 1
         /\ ReadError(Uint16(code) \o Asciiz(text)) = {ErrorPacket(code, text)}
<1> DEFINE x == Uint16(code)
           y == Asciiz(text)
           payload == x \o y
<1>1. y \in Bytes /\ Len(y) = Len(text) + 1 /\ Len(text) \in Nat
  BY AsciizIs
<1>2. x \in Bytes /\ Len(x) = 2
  BY Uint16Is
<1>3. payload \in Bytes /\ Len(payload) = 2 + Len(y) /\ ToUint16(payload) = code
  <2> HIDE DEF y
  <2> QED
    BY <1>1, FromWritten
<1>4. /\ EndOfText((x \o Asciiz(text)) \o <<>>, Len(x) + 1) = Len(x) + Len(text) + 1
      /\ TextAt((x \o Asciiz(text)) \o <<>>, Len(x) + 1) = text
  <2>1. <<>> \in Bytes
    BY NoBytes
  <2> HIDE DEF x
  <2> QED
    BY <1>2, <2>1, TextWritten
<1>5. (x \o y) \o <<>> = payload
  BY <1>3, NoBytes
<1> HIDE DEF x
<1>6. EndOfText(payload, 3) = 2 + Len(text) + 1 /\ TextAt(payload, 3) = text
  BY <1>2, <1>4, <1>5
<1> HIDE DEF y, payload
<1>7. ~(Len(payload) < 2 \/ EndOfText(payload, 3) > Len(payload))
  BY <1>1, <1>3, <1>6
<1>8. ReadError(payload) = {ErrorPacket(code, text)}
  BY <1>3, <1>6, <1>7 DEF ReadError
<1>9. Len(payload) = 2 + Len(text) + 1
  BY <1>1, <1>3
<1> QED
  BY <1>3, <1>8, <1>9 DEF payload, x, y

(* A request that is read has strings and pairs that fit in its bytes.         *)
LEMMA ReadRequestIs ==
  ASSUME NEW kind, NEW bytes \in Bytes, NEW p \in ReadRequest(kind, bytes)
  PROVE  \E f, x \in String, options \in Dictionaries :
           /\ p = Request(kind, f, x, options)
           /\ Len(f) + 1 + Len(x) + 1 + PairsRoom(options) <= Len(bytes)
<1> DEFINE name == EndOfText(bytes, 1)
           value == EndOfText(bytes, name + 1)
           f == TextAt(bytes, 1)
           x == TextAt(bytes, name + 1)
<1>1. Len(bytes) \in Nat /\ 1 \in 1..Len(bytes)+1 /\ 1 \in 1..Len(bytes)+2
  BY Joining
<1>2. ~(value > Len(bytes))
  BY Zenon DEF ReadRequest
<1>3. value <= Len(bytes) /\ value \in Nat
  <2>1. name \in Nat /\ name >= 1 /\ \A m \in 1..name-1 : m <= Len(bytes)
    BY <1>1, EndOfTextIs
  <2> HIDE DEF name
  <2>2. name + 1 \in 1..Len(bytes)+2
    BY <1>1, <2>1
  <2>3. value \in Nat
    BY <2>2, EndOfTextIs
  <2> HIDE DEF value
  <2> QED
    BY <1>1, <1>2, <2>3
<1>4. /\ value + 1 \in 2..Len(bytes)+1 /\ f \in String /\ x \in String
      /\ Len(f) + Len(x) + 2 = value + 1 - 1
  <2>1. 1 + 1 = 2
    OBVIOUS
  <2> QED
    BY <1>1, <1>3, <2>1, PairAt
<1>5. PICK options \in ReadPairs(bytes, value + 1) : p = Request(kind, f, x, options)
  <2>1. ReadRequest(kind, bytes) = {Request(kind, f, x, options) : options \in ReadPairs(bytes, value + 1)}
    BY <1>2, Zenon DEF ReadRequest
  <2> HIDE DEF f, x, value
  <2> QED
    BY <2>1
<1>6. value + 1 \in 1..Len(bytes)+1
  BY <1>3, <1>4
<1> HIDE DEF f, x, value
<1>7. Fits(options, Len(bytes) + 1 - (value + 1))
  BY <1>6, PairsFit
<1>8. options \in Dictionaries /\ PairsRoom(options) <= Len(bytes) + 1 - (value + 1)
  BY <1>7 DEF Fits, PairsRoom
<1>9. PairsRoom(options) \in Nat
  <2>1. IsFiniteSet(Boxes(Sizes(options)))
    BY <1>7 DEF Fits
  <2> QED
    BY <2>1, FS_CardinalityType DEF PairsRoom, Volume
<1>10. Len(f) \in Nat /\ Len(x) \in Nat
  BY <1>4, AsciizIs
<1>11. Len(f) + 1 + Len(x) + 1 + PairsRoom(options) <= Len(bytes)
  BY <1>1, <1>3, <1>4, <1>8, <1>9, <1>10
<1> QED
  BY <1>4, <1>5, <1>8, <1>11

(* An OACK that is read has a dictionary that fits in its bytes.               *)
LEMMA ReadOackIs ==
  ASSUME NEW bytes \in Bytes, NEW p \in ReadOack(bytes)
  PROVE  \E options \in Dictionaries :
           p = OackPacket(options) /\ PairsRoom(options) <= Len(bytes)
<1>1. PICK options \in ReadPairs(bytes, 1) : p = OackPacket(options)
  BY DEF ReadOack
<1>2. Len(bytes) \in Nat /\ 1 \in 1..Len(bytes)+1 /\ Len(bytes) + 1 - 1 = Len(bytes)
  BY Joining
<1>3. Fits(options, Len(bytes))
  <2>1. Fits(options, Len(bytes) + 1 - 1)
    BY <1>2, PairsFit
  <2> QED
    BY <1>2, <2>1
<1> QED
  BY <1>1, <1>3 DEF Fits, PairsRoom

(* An error that is read has a string that fits in its bytes.                  *)
LEMMA ReadErrorIs ==
  ASSUME NEW bytes \in Bytes, NEW p \in ReadError(bytes)
  PROVE  \E code \in Unsigned16, text \in String :
           p = ErrorPacket(code, text) /\ 2 + Len(text) + 1 <= Len(bytes)
<1>1. ~(Len(bytes) < 2 \/ EndOfText(bytes, 3) > Len(bytes))
  BY DEF ReadError
<1>2. p = ErrorPacket(ToUint16(bytes), TextAt(bytes, 3))
  BY <1>1 DEF ReadError
<1>3. Len(bytes) \in Nat
  BY Joining
<1>4. Len(bytes) >= 2 /\ 3 \in 1..Len(bytes)+2
  BY <1>1, <1>3
<1>5. EndOfText(bytes, 3) \in Nat /\ EndOfText(bytes, 3) >= 3
  BY <1>4, EndOfTextIs
<1>6. EndOfText(bytes, 3) <= Len(bytes)
  BY <1>1, <1>3, <1>5
<1>7. TextAt(bytes, 3) \in String /\ Len(TextAt(bytes, 3)) = EndOfText(bytes, 3) - 3
  BY <1>4, <1>6, TextRead
<1>8. ToUint16(bytes) \in Unsigned16
  BY <1>4, FromRead
<1>9. 2 + Len(TextAt(bytes, 3)) + 1 <= Len(bytes)
  <2> DEFINE e == EndOfText(bytes, 3)
             l == Len(TextAt(bytes, 3))
  <2>1. l = e - 3 /\ e \in Nat /\ e <= Len(bytes)
    BY <1>5, <1>6, <1>7
  <2> HIDE DEF e, l
  <2>2. 2 + l + 1 <= Len(bytes)
    BY <1>3, <2>1
  <2> QED
    BY <2>2 DEF l
<1> QED
  BY <1>2, <1>7, <1>8, <1>9

(* A block that is read has data that fit in its bytes.                        *)
LEMMA ReadDataIs ==
  ASSUME NEW bytes \in Bytes, NEW p \in ReadData(bytes)
  PROVE  \E id \in Unsigned16, data \in Bytes :
           p = DataPacket(id, data) /\ 2 + Len(data) <= Len(bytes)
<1>1. ~(Len(bytes) < 2) /\ p = DataPacket(ToUint16(bytes), From(bytes, 3))
  BY DEF ReadData
<1>2. Len(bytes) \in Nat
  BY Joining
<1>3. Len(bytes) >= 2
  BY <1>1, <1>2
<1>4. /\ ToUint16(bytes) \in Unsigned16 /\ From(bytes, 3) \in Bytes
      /\ Len(From(bytes, 3)) = Len(bytes) - 2
  BY <1>3, FromRead
<1>5. 2 + Len(From(bytes, 3)) <= Len(bytes)
  BY <1>2, <1>4
<1> QED
  BY <1>1, <1>4, <1>5

(* An acknowledgement that is read has a number.                               *)
LEMMA ReadAckIs ==
  ASSUME NEW bytes \in Bytes, NEW p \in ReadAck(bytes)
  PROVE  \E id \in Unsigned16 : p = AckPacket(id) /\ 2 <= Len(bytes)
<1>1. ~(Len(bytes) < 2) /\ p = AckPacket(ToUint16(bytes))
  BY DEF ReadAck
<1>2. Len(bytes) \in Nat
  BY Joining
<1>3. Len(bytes) >= 2
  BY <1>1, <1>2
<1>4. ToUint16(bytes) \in Unsigned16
  BY <1>3, FromRead
<1> QED
  BY <1>1, <1>3, <1>4

(* The opcode says which of the readers reads the rest.                        *)
LEMMA ReadTftpIs ==
  ASSUME NEW bytes, ~(Len(bytes) < 2),
         NEW opcode, opcode = ToUint16(bytes), NEW payload, payload = From(bytes, 3)
  PROVE  /\ opcode = 1 => ReadTftp(bytes) = ReadRequest("rrq", payload)
         /\ opcode = 2 => ReadTftp(bytes) = ReadRequest("wrq", payload)
         /\ opcode = 3 => ReadTftp(bytes) = ReadData(payload)
         /\ opcode = 4 => ReadTftp(bytes) = ReadAck(payload)
         /\ opcode = 5 => ReadTftp(bytes) = ReadError(payload)
         /\ opcode = 6 => ReadTftp(bytes) = ReadOack(payload)
         /\ opcode \notin 1..6 => ReadTftp(bytes) = {EmptyPacket}
<1>1. ReadTftp(bytes)
        = CASE opcode = 1 -> ReadRequest("rrq", payload)
            [] opcode = 2 -> ReadRequest("wrq", payload)
            [] opcode = 3 -> ReadData(payload)
            [] opcode = 4 -> ReadAck(payload)
            [] opcode = 5 -> ReadError(payload)
            [] opcode = 6 -> ReadOack(payload)
            [] opcode \notin 1..6 -> {EmptyPacket}
  BY Zenon DEF ReadTftp
<1>2. CASE opcode = 1
  <2>1. opcode # 2 /\ opcode # 3 /\ opcode # 4 /\ opcode # 5 /\ opcode # 6 /\ opcode \in 1..6
    BY <1>2
  <2> QED
    BY <1>1, <1>2, <2>1, Zenon
<1>3. CASE opcode = 2
  <2>1. opcode # 1 /\ opcode # 3 /\ opcode # 4 /\ opcode # 5 /\ opcode # 6 /\ opcode \in 1..6
    BY <1>3
  <2> QED
    BY <1>1, <1>3, <2>1, Zenon
<1>4. CASE opcode = 3
  <2>1. opcode # 1 /\ opcode # 2 /\ opcode # 4 /\ opcode # 5 /\ opcode # 6 /\ opcode \in 1..6
    BY <1>4
  <2> QED
    BY <1>1, <1>4, <2>1, Zenon
<1>5. CASE opcode = 4
  <2>1. opcode # 1 /\ opcode # 2 /\ opcode # 3 /\ opcode # 5 /\ opcode # 6 /\ opcode \in 1..6
    BY <1>5
  <2> QED
    BY <1>1, <1>5, <2>1, Zenon
<1>6. CASE opcode = 5
  <2>1. opcode # 1 /\ opcode # 2 /\ opcode # 3 /\ opcode # 4 /\ opcode # 6 /\ opcode \in 1..6
    BY <1>6
  <2> QED
    BY <1>1, <1>6, <2>1, Zenon
<1>7. CASE opcode = 6
  <2>1. opcode # 1 /\ opcode # 2 /\ opcode # 3 /\ opcode # 4 /\ opcode # 5 /\ opcode \in 1..6
    BY <1>7
  <2> QED
    BY <1>1, <1>7, <2>1, Zenon
<1>8. CASE opcode \notin 1..6
  <2>1. opcode # 1 /\ opcode # 2 /\ opcode # 3 /\ opcode # 4 /\ opcode # 5 /\ opcode # 6
    BY <1>8
  <2> QED
    BY <1>1, <1>8, <2>1, Zenon
<1> QED
  BY <1>2, <1>3, <1>4, <1>5, <1>6, <1>7, <1>8, Zenon

-----------------------------------------------------------------------------
(* The TFTP packets                                                            *)

(* A packet that can be written is one of the five kinds, made by its          *)
(* constructor.                                                                *)
LEMMA PacketIs ==
  ASSUME NEW p, IsPacket(p)
  PROVE  \/ /\ p.kind \in Requests /\ p = Request(p.kind, p.filename, p.xfermode, p.options)
            /\ p.filename \in String /\ p.xfermode \in String /\ IsDictionary(p.options)
         \/ p.kind = "oack" /\ p = OackPacket(p.options) /\ IsDictionary(p.options)
         \/ /\ p.kind = "data" /\ p = DataPacket(p.block_id, p.data)
            /\ p.block_id \in Unsigned16 /\ p.data \in Bytes
         \/ p.kind = "ack" /\ p = AckPacket(p.block_id) /\ p.block_id \in Unsigned16
         \/ /\ p.kind = "error" /\ p = ErrorPacket(p.error_code, p.error_string)
            /\ p.error_code \in Unsigned16 /\ p.error_string \in String
<1>1. CASE /\ p.kind \in Requests
           /\ p \in [kind : Requests, filename : String, xfermode : String, options : {p.options}]
           /\ IsDictionary(p.options)
  BY <1>1 DEF Request
<1>2. CASE p.kind = "oack" /\ p \in [kind : {"oack"}, options : {p.options}] /\ IsDictionary(p.options)
  BY <1>2 DEF OackPacket
<1>3. CASE p \in [kind : {"data"}, block_id : Unsigned16, data : Seq(Byte)]
  BY <1>3 DEF DataPacket, Bytes
<1>4. CASE p \in [kind : {"ack"}, block_id : Unsigned16]
  BY <1>4 DEF AckPacket
<1>5. CASE p \in [kind : {"error"}, error_code : Unsigned16, error_string : String]
  BY <1>5 DEF ErrorPacket
<1> QED
  BY <1>1, <1>2, <1>3, <1>4, <1>5 DEF IsPacket

(* The opcode and the payload that were written are those that are read.       *)
LEMMA OpcodeWritten ==
  ASSUME NEW opcode \in 1..6, NEW payload \in Bytes
  PROVE  LET bytes == Uint16(opcode) \o payload IN
         /\ bytes \in Bytes /\ Len(bytes) = 2 + Len(payload) /\ ~(Len(bytes) < 2)
         /\ ToUint16(bytes) = opcode /\ From(bytes, 3) = payload
<1> DEFINE bytes == Uint16(opcode) \o payload
<1>1. opcode \in Unsigned16
  <2>1. opcode \in Int /\ 0 <= opcode /\ opcode <= 256 * 256 - 1
    OBVIOUS
  <2> QED
    BY <2>1, Unsigned16Is
<1>2. /\ bytes \in Bytes /\ Len(bytes) = 2 + Len(payload)
      /\ ToUint16(bytes) = opcode /\ From(bytes, 3) = payload
  BY <1>1, FromWritten
<1> HIDE DEF bytes
<1>3. Len(payload) \in Nat
  BY Joining
<1>4. ~(Len(bytes) < 2)
  BY <1>2, <1>3
<1> QED
  BY <1>2, <1>4 DEF bytes

Reads(p, bytes) ==
  /\ bytes \in Bytes /\ ReadTftp(bytes) = {p}
  /\ \A order \in Orders(p) : Len(bytes) = TftpSizeHint(p, order)

(* A written request reads as itself, and has the size of its hint.            *)
LEMMA TftpRequestWritten ==
  ASSUME NEW kind \in Requests, NEW f \in String, NEW x \in String,
         NEW options, IsDictionary(options), NEW order \in Listings(DOMAIN options),
         NEW p, p = Request(kind, f, x, options)
  PROVE  Reads(p, Uint16(Opcode[kind]) \o WritePayload(p, order))
<1> DEFINE payload == Asciiz(f) \o Asciiz(x) \o WritePairs(options, order)
           opcode == Opcode[kind]
           bytes == Uint16(opcode) \o payload
           room == Len(f) + 1 + Len(x) + 1 + PairsRoom(options)
<1>1. /\ p.kind = kind /\ p.filename = f /\ p.xfermode = x /\ p.options = options
      /\ kind \notin {"data", "ack", "error", "oack"}
  BY DEF Request, Requests
<1>2. WritePayload(p, order) = payload
  <2>1. p.kind \in Requests /\ p.kind # "data" /\ p.kind # "ack" /\ p.kind # "error" /\ p.kind # "oack"
    BY <1>1
  <2>2. WritePayload(p, order) = Asciiz(p.filename) \o Asciiz(p.xfermode) \o WritePairs(p.options, order)
    BY <2>1, Zenon DEF WritePayload
  <2> QED
    BY <1>1, <2>2
<1>3. payload \in Bytes /\ Len(payload) = room /\ ReadRequest(kind, payload) = {p}
  <2>1. IsRequest(payload, kind, f, x, options)
    BY RequestWritten
  <2> HIDE DEF payload
  <2> QED
    BY <2>1 DEF IsRequest
<1>4. opcode \in 1..6 /\ (kind = "rrq" => opcode = 1) /\ (kind = "wrq" => opcode = 2)
  BY DEF Requests, Opcode
<1> HIDE DEF payload, opcode
<1>5. /\ bytes \in Bytes /\ Len(bytes) = 2 + Len(payload) /\ ~(Len(bytes) < 2)
      /\ ToUint16(bytes) = opcode /\ From(bytes, 3) = payload
  BY <1>3, <1>4, OpcodeWritten
<1> HIDE DEF bytes
<1>6. ReadTftp(bytes) = ReadRequest(kind, payload)
  <2>1. /\ opcode = 1 => ReadTftp(bytes) = ReadRequest("rrq", payload)
        /\ opcode = 2 => ReadTftp(bytes) = ReadRequest("wrq", payload)
    BY <1>5, ReadTftpIs
  <2> QED
    BY <1>4, <2>1 DEF Requests
<1>7. PairsRoom(options) \in Nat
  BY PairsWritten, FS_CardinalityType DEF PairsRoom, Volume
<1>8. ASSUME NEW other \in Orders(p) PROVE Len(bytes) = TftpSizeHint(p, other)
  <2>1. p.kind \in Requests /\ p.kind # "data" /\ p.kind # "ack" /\ p.kind # "error" /\ p.kind # "oack"
    BY <1>1
  <2>2. TftpSizeHint(p, other) = 2 + Len(p.filename) + 1 + Len(p.xfermode) + 1 + PairsSize(p.options, other)
    BY <2>1, Zenon DEF TftpSizeHint
  <2>3. PairsSize(options, other) = PairsRoom(options)
    <3>1. other \in Listings(DOMAIN options)
      BY <1>1 DEF Orders
    <3> QED
      BY <3>1, PairsWritten DEF PairsRoom
  <2>4. TftpSizeHint(p, other) = 2 + Len(f) + 1 + Len(x) + 1 + PairsRoom(options)
    BY <1>1, <2>2, <2>3
  <2>5. Len(f) \in Nat /\ Len(x) \in Nat
    BY AsciizIs
  <2> QED
    BY <1>3, <1>5, <1>7, <2>4, <2>5
<1> QED
  BY <1>2, <1>3, <1>5, <1>6, <1>8 DEF Reads, bytes, opcode

(* A written OACK reads as itself, and has the size of its hint.               *)
LEMMA TftpOackWritten ==
  ASSUME NEW options, IsDictionary(options), NEW order \in Listings(DOMAIN options),
         NEW p, p = OackPacket(options)
  PROVE  Reads(p, Uint16(Opcode["oack"]) \o WritePayload(p, order))
<1> DEFINE payload == WritePairs(options, order)
           bytes == Uint16(6) \o payload
<1>1. p.kind = "oack" /\ p.options = options /\ p.kind \notin Requests
  BY DEF OackPacket, Requests
<1>2. p.kind # "data" /\ p.kind # "ack" /\ p.kind # "error"
  BY <1>1
<1>3. WritePayload(p, order) = payload
  <2>1. WritePayload(p, order) = WritePairs(p.options, order)
    BY <1>1, <1>2, Zenon DEF WritePayload
  <2> QED
    BY <1>1, <2>1
<1>4. payload \in Bytes /\ Len(payload) = PairsRoom(options) /\ ReadOack(payload) = {p}
  BY PairsWritten, OackWritten DEF PairsRoom
<1>5. Opcode["oack"] = 6 /\ 6 \in 1..6
  BY DEF Opcode
<1> HIDE DEF payload
<1>6. /\ bytes \in Bytes /\ Len(bytes) = 2 + Len(payload) /\ ~(Len(bytes) < 2)
      /\ ToUint16(bytes) = 6 /\ From(bytes, 3) = payload
  BY <1>4, <1>5, OpcodeWritten
<1> HIDE DEF bytes
<1>7. ReadTftp(bytes) = ReadOack(payload)
  BY <1>6, ReadTftpIs
<1>8. ASSUME NEW other \in Orders(p) PROVE Len(bytes) = TftpSizeHint(p, other)
  <2>1. TftpSizeHint(p, other) = 2 + PairsSize(p.options, other)
    BY <1>1, <1>2, Zenon DEF TftpSizeHint
  <2>2. PairsSize(options, other) = PairsRoom(options)
    <3>1. other \in Listings(DOMAIN options)
      BY <1>1 DEF Orders
    <3> QED
      BY <3>1, PairsWritten DEF PairsRoom
  <2> QED
    BY <1>1, <1>4, <1>6, <2>1, <2>2
<1> QED
  BY <1>3, <1>4, <1>5, <1>6, <1>7, <1>8 DEF Reads, bytes

(* A written error reads as itself, and has the size of its hint.              *)
LEMMA TftpErrorWritten ==
  ASSUME NEW code \in Unsigned16, NEW text \in String, NEW p, p = ErrorPacket(code, text), NEW order
  PROVE  Reads(p, Uint16(Opcode["error"]) \o WritePayload(p, order))
<1> DEFINE payload == Uint16(code) \o Asciiz(text)
           bytes == Uint16(5) \o payload
<1>1. p.kind = "error" /\ p.error_code = code /\ p.error_string = text /\ p.kind \notin Requests
  BY DEF ErrorPacket, Requests
<1>2. p.kind # "data" /\ p.kind # "ack" /\ p.kind # "oack"
  BY <1>1
<1>3. WritePayload(p, order) = payload
  <2>1. WritePayload(p, order) = Uint16(p.error_code) \o Asciiz(p.error_string)
    BY <1>1, <1>2, Zenon DEF WritePayload
  <2> QED
    BY <1>1, <2>1
<1>4. payload \in Bytes /\ Len(payload) = 2 + Len(text) + 1 /\ ReadError(payload) = {p}
  BY ErrorWritten
<1>5. Opcode["error"] = 5 /\ 5 \in 1..6
  BY DEF Opcode
<1> HIDE DEF payload
<1>6. /\ bytes \in Bytes /\ Len(bytes) = 2 + Len(payload) /\ ~(Len(bytes) < 2)
      /\ ToUint16(bytes) = 5 /\ From(bytes, 3) = payload
  BY <1>4, <1>5, OpcodeWritten
<1> HIDE DEF bytes
<1>7. ReadTftp(bytes) = ReadError(payload)
  BY <1>6, ReadTftpIs
<1>8. ASSUME NEW other \in Orders(p) PROVE Len(bytes) = TftpSizeHint(p, other)
  <2>1. TftpSizeHint(p, other) = 2 + 2 + Len(p.error_string) + 1
    BY <1>1, <1>2, Zenon DEF TftpSizeHint
  <2>2. Len(text) \in Nat
    BY AsciizIs
  <2> QED
    BY <1>1, <1>4, <1>6, <2>1, <2>2
<1> QED
  BY <1>3, <1>4, <1>5, <1>6, <1>7, <1>8 DEF Reads, bytes

(* A written block reads as itself, and has the size of its hint.              *)
LEMMA TftpDataWritten ==
  ASSUME NEW id \in Unsigned16, NEW data \in Bytes, NEW p, p = DataPacket(id, data), NEW order
  PROVE  Reads(p, Uint16(Opcode["data"]) \o WritePayload(p, order))
<1> DEFINE payload == Uint16(id) \o data
           bytes == Uint16(3) \o payload
<1>1. p.kind = "data" /\ p.block_id = id /\ p.data = data /\ p.kind \notin Requests
  BY DEF DataPacket, Requests
<1>2. p.kind # "error" /\ p.kind # "ack" /\ p.kind # "oack"
  BY <1>1
<1>3. WritePayload(p, order) = payload
  <2>1. WritePayload(p, order) = Uint16(p.block_id) \o p.data
    BY <1>1, <1>2, Zenon DEF WritePayload
  <2> QED
    BY <1>1, <2>1
<1>4. /\ payload \in Bytes /\ Len(payload) = 2 + Len(data)
      /\ ToUint16(payload) = id /\ From(payload, 3) = data
  BY FromWritten
<1>5. Opcode["data"] = 3 /\ 3 \in 1..6
  BY DEF Opcode
<1> HIDE DEF payload
<1>6. /\ bytes \in Bytes /\ Len(bytes) = 2 + Len(payload) /\ ~(Len(bytes) < 2)
      /\ ToUint16(bytes) = 3 /\ From(bytes, 3) = payload
  BY <1>4, <1>5, OpcodeWritten
<1> HIDE DEF bytes
<1>7. ReadTftp(bytes) = {p}
  <2>1. ReadTftp(bytes) = ReadData(payload)
    BY <1>6, ReadTftpIs
  <2>2. Len(data) \in Nat
    BY Joining
  <2>3. ~(Len(payload) < 2)
    BY <1>4, <2>2
  <2> QED
    BY <1>4, <2>1, <2>3 DEF ReadData
<1>8. ASSUME NEW other \in Orders(p) PROVE Len(bytes) = TftpSizeHint(p, other)
  <2>1. TftpSizeHint(p, other) = 2 + 2 + Len(p.data)
    BY <1>1, <1>2, Zenon DEF TftpSizeHint
  <2>2. Len(data) \in Nat
    BY Joining
  <2> QED
    BY <1>1, <1>4, <1>6, <2>1, <2>2
<1> QED
  BY <1>3, <1>5, <1>6, <1>7, <1>8 DEF Reads, bytes

(* A written acknowledgement reads as itself, and has the size of its hint.    *)
LEMMA TftpAckWritten ==
  ASSUME NEW id \in Unsigned16, NEW p, p = AckPacket(id), NEW order
  PROVE  Reads(p, Uint16(Opcode["ack"]) \o WritePayload(p, order))
<1> DEFINE payload == Uint16(id)
           bytes == Uint16(4) \o payload
<1>1. p.kind = "ack" /\ p.block_id = id /\ p.kind \notin Requests
  BY DEF AckPacket, Requests
<1>2. p.kind # "error" /\ p.kind # "data" /\ p.kind # "oack"
  BY <1>1
<1>3. WritePayload(p, order) = payload
  <2>1. WritePayload(p, order) = Uint16(p.block_id)
    BY <1>1, <1>2, Zenon DEF WritePayload
  <2> QED
    BY <1>1, <2>1
<1>4. payload \in Bytes /\ Len(payload) = 2
  BY Uint16Is
<1>5. Opcode["ack"] = 4 /\ 4 \in 1..6
  BY DEF Opcode
<1>6. ToUint16(payload) = id
  BY Uint16Is DEF ToUint16
<1> HIDE DEF payload
<1>7. /\ bytes \in Bytes /\ Len(bytes) = 2 + Len(payload) /\ ~(Len(bytes) < 2)
      /\ ToUint16(bytes) = 4 /\ From(bytes, 3) = payload
  BY <1>4, <1>5, OpcodeWritten
<1> HIDE DEF bytes
<1>8. ReadTftp(bytes) = {p}
  <2>1. ReadTftp(bytes) = ReadAck(payload)
    BY <1>7, ReadTftpIs
  <2>2. ~(Len(payload) < 2)
    BY <1>4
  <2> QED
    BY <1>6, <2>1, <2>2 DEF ReadAck
<1>9. ASSUME NEW other \in Orders(p) PROVE Len(bytes) = TftpSizeHint(p, other)
  <2>1. TftpSizeHint(p, other) = 2 + 2
    BY <1>1, <1>2, Zenon DEF TftpSizeHint
  <2> QED
    BY <1>4, <1>7, <2>1
<1> QED
  BY <1>3, <1>5, <1>7, <1>8, <1>9 DEF Reads, bytes

(* What is written of a packet reads as that packet, and has the size of the   *)
(* hint.                                                                       *)
LEMMA TftpWritten ==
  ASSUME NEW p, IsPacket(p), NEW bytes \in TftpWritings(p)
  PROVE  Reads(p, bytes)
<1>1. PICK order \in Orders(p) : bytes = Uint16(Opcode[p.kind]) \o WritePayload(p, order)
  BY DEF TftpWritings
<1>2. CASE /\ p.kind \in Requests /\ p = Request(p.kind, p.filename, p.xfermode, p.options)
           /\ p.filename \in String /\ p.xfermode \in String /\ IsDictionary(p.options)
  <2>1. order \in Listings(DOMAIN p.options)
    BY <1>2 DEF Orders
  <2>2. Reads(p, Uint16(Opcode[p.kind]) \o WritePayload(p, order))
    BY <1>2, <2>1, TftpRequestWritten
  <2> QED
    BY <1>1, <2>2
<1>3. CASE p.kind = "oack" /\ p = OackPacket(p.options) /\ IsDictionary(p.options)
  <2>1. order \in Listings(DOMAIN p.options)
    BY <1>3 DEF Orders
  <2>2. Reads(p, Uint16(Opcode["oack"]) \o WritePayload(p, order))
    BY <1>3, <2>1, TftpOackWritten
  <2> QED
    BY <1>1, <1>3, <2>2
<1>4. CASE /\ p.kind = "data" /\ p = DataPacket(p.block_id, p.data)
           /\ p.block_id \in Unsigned16 /\ p.data \in Bytes
  <2>1. Reads(p, Uint16(Opcode["data"]) \o WritePayload(p, order))
    BY <1>4, TftpDataWritten
  <2> QED
    BY <1>1, <1>4, <2>1
<1>5. CASE p.kind = "ack" /\ p = AckPacket(p.block_id) /\ p.block_id \in Unsigned16
  <2>1. Reads(p, Uint16(Opcode["ack"]) \o WritePayload(p, order))
    BY <1>5, TftpAckWritten
  <2> QED
    BY <1>1, <1>5, <2>1
<1>6. CASE /\ p.kind = "error" /\ p = ErrorPacket(p.error_code, p.error_string)
           /\ p.error_code \in Unsigned16 /\ p.error_string \in String
  <2>1. Reads(p, Uint16(Opcode["error"]) \o WritePayload(p, order))
    BY <1>6, TftpErrorWritten
  <2> QED
    BY <1>1, <1>6, <2>1
<1> QED
  BY <1>2, <1>3, <1>4, <1>5, <1>6, PacketIs

(* serdes_size_hint, kind by kind.                                             *)
LEMMA HintIs ==
  ASSUME NEW p, NEW order
  PROVE  /\ p.kind \in Requests => TftpSizeHint(p, order)
              = 2 + Len(p.filename) + 1 + Len(p.xfermode) + 1 + PairsSize(p.options, order)
         /\ p.kind = "data" => TftpSizeHint(p, order) = 2 + 2 + Len(p.data)
         /\ p.kind = "ack" => TftpSizeHint(p, order) = 2 + 2
         /\ p.kind = "error" => TftpSizeHint(p, order) = 2 + 2 + Len(p.error_string) + 1
         /\ p.kind = "oack" => TftpSizeHint(p, order) = 2 + PairsSize(p.options, order)
<1>1. ASSUME p.kind \in Requests
      PROVE  TftpSizeHint(p, order)
               = 2 + Len(p.filename) + 1 + Len(p.xfermode) + 1 + PairsSize(p.options, order)
  <2>1. p.kind # "data" /\ p.kind # "ack" /\ p.kind # "error" /\ p.kind # "oack"
    BY <1>1 DEF Requests
  <2> QED
    BY <1>1, <2>1, Zenon DEF TftpSizeHint
<1>2. ASSUME p.kind = "data" PROVE TftpSizeHint(p, order) = 2 + 2 + Len(p.data)
  <2>1. p.kind \notin Requests /\ p.kind # "ack" /\ p.kind # "error" /\ p.kind # "oack"
    BY <1>2 DEF Requests
  <2> QED
    BY <1>2, <2>1, Zenon DEF TftpSizeHint
<1>3. ASSUME p.kind = "ack" PROVE TftpSizeHint(p, order) = 2 + 2
  <2>1. p.kind \notin Requests /\ p.kind # "data" /\ p.kind # "error" /\ p.kind # "oack"
    BY <1>3 DEF Requests
  <2> QED
    BY <1>3, <2>1, Zenon DEF TftpSizeHint
<1>4. ASSUME p.kind = "error" PROVE TftpSizeHint(p, order) = 2 + 2 + Len(p.error_string) + 1
  <2>1. p.kind \notin Requests /\ p.kind # "data" /\ p.kind # "ack" /\ p.kind # "oack"
    BY <1>4 DEF Requests
  <2> QED
    BY <1>4, <2>1, Zenon DEF TftpSizeHint
<1>5. ASSUME p.kind = "oack" PROVE TftpSizeHint(p, order) = 2 + PairsSize(p.options, order)
  <2>1. p.kind \notin Requests /\ p.kind # "data" /\ p.kind # "ack" /\ p.kind # "error"
    BY <1>5 DEF Requests
  <2> QED
    BY <1>5, <2>1, Zenon DEF TftpSizeHint
<1> QED
  BY <1>1, <1>2, <1>3, <1>4, <1>5

(* The size of the pairs is one number, whatever the order they are added up   *)
(* in.                                                                         *)
LEMMA RoomOfPairs ==
  ASSUME NEW options \in Dictionaries, NEW order \in Listings(DOMAIN options)
  PROVE  PairsSize(options, order) = PairsRoom(options) /\ PairsRoom(options) \in Nat
<1>1. IsDictionary(options)
  BY DictionariesAre
<1> QED
  BY <1>1, PairsWritten, FS_CardinalityType DEF PairsRoom, Volume

Within(p, room) == IsPacket(p) /\ \A order \in Orders(p) : TftpSizeHint(p, order) <= room

(* What is read of a datagram can be written, and within its size.             *)
LEMMA TftpRead ==
  ASSUME NEW bytes \in Bytes, NEW p \in ReadTftp(bytes)
  PROVE  p = EmptyPacket \/ Within(p, Len(bytes))
<1> DEFINE opcode == ToUint16(bytes)
           payload == From(bytes, 3)
<1>1. ~(Len(bytes) < 2)
  BY Zenon DEF ReadTftp
<1>2. Len(bytes) \in Nat /\ Len(bytes) >= 2
  BY <1>1, Joining
<1>3. payload \in Bytes /\ Len(payload) = Len(bytes) - 2
  BY <1>2, FromRead
<1>4. /\ opcode = 1 => ReadTftp(bytes) = ReadRequest("rrq", payload)
      /\ opcode = 2 => ReadTftp(bytes) = ReadRequest("wrq", payload)
      /\ opcode = 3 => ReadTftp(bytes) = ReadData(payload)
      /\ opcode = 4 => ReadTftp(bytes) = ReadAck(payload)
      /\ opcode = 5 => ReadTftp(bytes) = ReadError(payload)
      /\ opcode = 6 => ReadTftp(bytes) = ReadOack(payload)
      /\ opcode \notin 1..6 => ReadTftp(bytes) = {EmptyPacket}
  BY <1>1, ReadTftpIs
<1> HIDE DEF opcode, payload
<1>5. ASSUME NEW kind \in Requests, p \in ReadRequest(kind, payload) PROVE Within(p, Len(bytes))
  <2>1. PICK f \in String, x \in String, options \in Dictionaries :
          /\ p = Request(kind, f, x, options)
          /\ Len(f) + 1 + Len(x) + 1 + PairsRoom(options) <= Len(payload)
    BY <1>3, <1>5, ReadRequestIs
  <2>2. p.kind = kind /\ p.filename = f /\ p.xfermode = x /\ p.options = options
    BY <2>1 DEF Request
  <2>3. IsPacket(p)
    BY <2>1, <2>2, DictionariesAre DEF IsPacket, Request
  <2>4. ASSUME NEW order \in Orders(p) PROVE TftpSizeHint(p, order) <= Len(bytes)
    <3>1. order \in Listings(DOMAIN options)
      BY <2>2 DEF Orders
    <3>2. PairsSize(options, order) = PairsRoom(options) /\ PairsRoom(options) \in Nat
      BY <3>1, RoomOfPairs
    <3>3. Len(f) \in Nat /\ Len(x) \in Nat
      BY AsciizIs
    <3>4. TftpSizeHint(p, order) = 2 + Len(f) + 1 + Len(x) + 1 + PairsRoom(options)
      BY <2>2, <3>2, HintIs
    <3>5. Len(f) + 1 + Len(x) + 1 + PairsRoom(options) <= Len(bytes) - 2
      BY <1>3, <2>1
    <3> QED
      BY <1>2, <3>2, <3>3, <3>4, <3>5
  <2> QED
    BY <2>3, <2>4 DEF Within
<1>6. ASSUME p \in ReadOack(payload) PROVE Within(p, Len(bytes))
  <2>1. PICK options \in Dictionaries : p = OackPacket(options) /\ PairsRoom(options) <= Len(payload)
    BY <1>3, <1>6, ReadOackIs
  <2>2. p.kind = "oack" /\ p.options = options
    BY <2>1 DEF OackPacket
  <2>3. IsPacket(p)
    BY <2>1, <2>2, DictionariesAre DEF IsPacket, OackPacket
  <2>4. ASSUME NEW order \in Orders(p) PROVE TftpSizeHint(p, order) <= Len(bytes)
    <3>1. order \in Listings(DOMAIN options)
      BY <2>2 DEF Orders
    <3>2. PairsSize(options, order) = PairsRoom(options) /\ PairsRoom(options) \in Nat
      BY <3>1, RoomOfPairs
    <3>3. TftpSizeHint(p, order) = 2 + PairsRoom(options)
      BY <2>2, <3>2, HintIs
    <3> QED
      BY <1>2, <1>3, <2>1, <3>2, <3>3
  <2> QED
    BY <2>3, <2>4 DEF Within
<1>7. ASSUME p \in ReadError(payload) PROVE Within(p, Len(bytes))
  <2>1. PICK code \in Unsigned16, text \in String :
          p = ErrorPacket(code, text) /\ 2 + Len(text) + 1 <= Len(payload)
    BY <1>3, <1>7, ReadErrorIs
  <2>2. p.kind = "error" /\ p.error_string = text /\ IsPacket(p)
    BY <2>1 DEF ErrorPacket, IsPacket
  <2>3. ASSUME NEW order \in Orders(p) PROVE TftpSizeHint(p, order) <= Len(bytes)
    <3>1. TftpSizeHint(p, order) = 2 + 2 + Len(text) + 1
      BY <2>2, HintIs
    <3>2. Len(text) \in Nat
      BY AsciizIs
    <3> QED
      BY <1>2, <1>3, <2>1, <3>1, <3>2
  <2> QED
    BY <2>2, <2>3 DEF Within
<1>8. ASSUME p \in ReadData(payload) PROVE Within(p, Len(bytes))
  <2>1. PICK id \in Unsigned16, data \in Bytes :
          p = DataPacket(id, data) /\ 2 + Len(data) <= Len(payload)
    BY <1>3, <1>8, ReadDataIs
  <2>2. p.kind = "data" /\ p.data = data /\ IsPacket(p)
    BY <2>1 DEF DataPacket, IsPacket, Bytes
  <2>3. ASSUME NEW order \in Orders(p) PROVE TftpSizeHint(p, order) <= Len(bytes)
    <3>1. TftpSizeHint(p, order) = 2 + 2 + Len(data)
      BY <2>2, HintIs
    <3>2. Len(data) \in Nat
      BY Joining
    <3> QED
      BY <1>2, <1>3, <2>1, <3>1, <3>2
  <2> QED
    BY <2>2, <2>3 DEF Within
<1>9. ASSUME p \in ReadAck(payload) PROVE Within(p, Len(bytes))
  <2>1. PICK id \in Unsigned16 : p = AckPacket(id) /\ 2 <= Len(payload)
    BY <1>3, <1>9, ReadAckIs
  <2>2. p.kind = "ack" /\ IsPacket(p)
    BY <2>1 DEF AckPacket, IsPacket
  <2>3. ASSUME NEW order \in Orders(p) PROVE TftpSizeHint(p, order) <= Len(bytes)
    <3>1. TftpSizeHint(p, order) = 2 + 2
      BY <2>2, HintIs
    <3> QED
      BY <1>2, <1>3, <2>1, <3>1
  <2> QED
    BY <2>2, <2>3 DEF Within
<1>10. opcode \in 1..6 => opcode \in {1, 2, 3, 4, 5, 6}
  OBVIOUS
<1>11. "rrq" \in Requests /\ "wrq" \in Requests
  BY DEF Requests
<1> QED
  BY <1>4, <1>5, <1>6, <1>7, <1>8, <1>9, <1>10, <1>11

-----------------------------------------------------------------------------
(* The table of DHCP options, written                                          *)

(* The next code the loop does not skip is the least of those left.            *)
LEMMA NextIs ==
  ASSUME NEW table, IsTable(table), NEW code \in 0..254, Later(table, code) # {},
         NEW next, next = Min(Later(table, code))
  PROVE  /\ next \in code+1..254 /\ next \in DOMAIN table /\ next \in Codes
         /\ next \notin Later(table, next)
         /\ Later(table, code) = Later(table, next) \cup {next}
<1> DEFINE L == Later(table, code)
           m == CHOOSE x \in L : \A y \in L : x <= y
<1>1. DOMAIN table \subseteq 1..254
  BY DEF IsTable, Codes
<1>2. L \in SUBSET Nat /\ L # {}
  BY <1>1 DEF Later
<1>3. next = m
  BY Zenon DEF Min
<1>4. m \in L /\ \A y \in L : m <= y
  <2>1. \E x \in L : \A y \in L : x <= y
    <3> HIDE DEF L
    <3> QED
      BY <1>2, LeastElement
  <2> QED
    BY <2>1
<1> HIDE DEF m
<1>5. next \in L /\ \A y \in L : next <= y
  BY <1>3, <1>4
<1>6. next \in DOMAIN table /\ next > code
  BY <1>5 DEF Later
<1>7. Later(table, code) = Later(table, next) \cup {next}
  <2>1. ASSUME NEW y \in DOMAIN table PROVE y > code <=> (y > next \/ y = next)
    <3>1. y \in Nat /\ next \in Nat
      BY <1>1, <1>6
    <3>2. y > code => next <= y
      BY <1>5 DEF Later
    <3> HIDE DEF L
    <3> QED
      BY <1>6, <3>1, <3>2
  <2> HIDE DEF L
  <2> QED
    BY <1>6, <2>1 DEF Later
<1> QED
  BY <1>1, <1>6, <1>7 DEF Later, Codes

(* One option, and what is written after it.                                   *)
OptionsFrom(table, code, write) ==
  LET next == Min(Later(table, code))
  IN IF Later(table, code) = {} THEN <<255>>
     ELSE <<next, Len(table[next])>> \o table[next] \o write[next]

IsWrite(write, table) == write = [code \in 0..254 |-> OptionsFrom(table, code, write)]

(* A written option is its code, its size and that many bytes.                 *)
LEMMA OptionIs ==
  ASSUME NEW table, IsTable(table), NEW code \in DOMAIN table
  PROVE  /\ table[code] \in Bytes /\ Len(table[code]) \in 0..255
         /\ <<code, Len(table[code])>> \in Bytes /\ Len(<<code, Len(table[code])>>) = 2
         /\ <<code, Len(table[code])>> \o table[code] \in Bytes
         /\ Len(<<code, Len(table[code])>> \o table[code]) = Len(table[code]) + 2
<1>1. table[code] \in Bytes /\ Len(table[code]) <= 255 /\ code \in 1..254
  BY DEF IsTable, Bytes, Codes
<1> DEFINE v == table[code]
           size == Len(v)
           h == <<code, size>>
<1>2. size \in 0..255
  <2>1. size \in Nat
    BY <1>1, Joining
  <2>2. size <= 255
    BY <1>1
  <2> HIDE DEF size
  <2> QED
    BY <2>1, <2>2
<1>3. h \in Bytes /\ Len(h) = 2
  <2>1. code \in Byte /\ size \in Byte
    BY <1>1, <1>2 DEF Byte
  <2> HIDE DEF size
  <2> QED
    BY <2>1 DEF Bytes
<1> HIDE DEF h, v
<1>4. h \o v \in Bytes /\ Len(h \o v) = Len(h) + Len(v) /\ Len(v) \in Nat
  BY <1>1, <1>3, Joining DEF v
<1>5. Len(h \o v) = Len(v) + 2
  BY <1>3, <1>4
<1> QED
  BY <1>1, <1>2, <1>3, <1>4, <1>5 DEF h, v

(* One step of the writer gives bytes, and looks only at greater codes.        *)
LEMMA OptionsFromIs ==
  ASSUME NEW table, IsTable(table), NEW code \in 0..254,
         NEW write, \A j \in code+1..254 : write[j] \in Bytes
  PROVE  /\ OptionsFrom(table, code, write) \in Bytes
         /\ \A other : (\A j \in code+1..254 : other[j] = write[j]) =>
              OptionsFrom(table, code, other) = OptionsFrom(table, code, write)
<1> DEFINE next == Min(Later(table, code))
           first == <<next, Len(table[next])>> \o table[next]
<1>1. CASE Later(table, code) = {}
  <2>1. \A f : OptionsFrom(table, code, f) = <<255>>
    BY <1>1, Zenon DEF OptionsFrom
  <2>2. <<255>> \in Seq(Byte)
    BY DEF Byte
  <2> QED
    BY <2>1, <2>2 DEF Bytes
<1>2. CASE Later(table, code) # {}
  <2>1. \A f : OptionsFrom(table, code, f) = first \o f[next]
    BY <1>2, Zenon DEF OptionsFrom
  <2>2. next \in code+1..254 /\ next \in DOMAIN table
    BY <1>2, NextIs
  <2>3. first \in Bytes
    <3> HIDE DEF next
    <3> QED
      BY <2>2, OptionIs
  <2> HIDE DEF next, first
  <2>4. first \o write[next] \in Bytes
    <3>1. write[next] \in Bytes
      BY <2>2
    <3> QED
      BY <2>3, <3>1, Joining
  <2>5. OptionsFrom(table, code, write) \in Bytes
    BY <2>1, <2>4
  <2>6. ASSUME NEW other, \A j \in code+1..254 : other[j] = write[j]
        PROVE  OptionsFrom(table, code, other) = OptionsFrom(table, code, write)
    <3>1. other[next] = write[next]
      BY <2>2, <2>6
    <3> QED
      BY <2>1, <3>1
  <2> QED
    BY <2>5, <2>6
<1> QED
  BY <1>1, <1>2

(* The writer of options is what its recursion says.                           *)
LEMMA WriteOptionsIs ==
  ASSUME NEW table, IsTable(table)
  PROVE  \E write : /\ WriteOptions(table) = Cookie \o write[0]
                    /\ \A code \in 0..254 :
                         /\ write[code] = OptionsFrom(table, code, write)
                         /\ write[code] \in Bytes
<1> DEFINE n == 254
           F == [p \in (0..n) \X Tails(n, Bytes) |-> OptionsFrom(table, p[1], p[2])]
           write == CHOOSE write : IsWrite(write, table)
           T == {code \in 0..n : write[code] \in Bytes}
<1>1. n \in Nat
  OBVIOUS
<1> HIDE DEF n
<1>2. \A code \in 0..n : \A f : (\A j \in code+1..n : f[j] \in Bytes) =>
         /\ OptionsFrom(table, code, f) \in Bytes
         /\ \A g : (\A j \in code+1..n : g[j] = f[j]) =>
              OptionsFrom(table, code, g) = OptionsFrom(table, code, f)
  BY OptionsFromIs, Zenon DEF n
<1>3. \A code \in 0..n : \A later \in [code+1..n -> Bytes] :
        F[<<code, later>>] = OptionsFrom(table, code, later)
  <2> SUFFICES ASSUME NEW code \in 0..n, NEW later \in [code+1..n -> Bytes]
               PROVE  F[<<code, later>>] = OptionsFrom(table, code, later)
    BY Zenon
  <2>1. later \in Tails(n, Bytes)
    BY DEF Tails
  <2> QED
    BY <2>1
<1> HIDE DEF F
<1>4. PICK f \in [0..n -> Bytes] : Recurses(f, 0, n, F)
  <2>1. ASSUME NEW code \in 0..n, NEW later \in [code+1..n -> Bytes]
        PROVE  F[<<code, later>>] \in Bytes
    <3>1. \A j \in code+1..n : later[j] \in Bytes
      OBVIOUS
    <3>2. OptionsFrom(table, code, later) \in Bytes
      BY <1>2, <3>1
    <3> QED
      BY <1>3, <3>2
  <2> QED
    BY <1>1, <2>1, Recursive
<1>5. ASSUME NEW code \in 0..n PROVE f[code] = OptionsFrom(table, code, f)
  <2> DEFINE later == [j \in code+1..n |-> f[j]]
  <2>1. \A j \in code+1..n : j \in 0..n
    BY <1>1
  <2>2. later \in [code+1..n -> Bytes] /\ \A j \in code+1..n : later[j] = f[j] /\ f[j] \in Bytes
    BY <2>1
  <2>3. f[code] = F[<<code, later>>]
    BY <1>4 DEF Recurses
  <2> HIDE DEF later
  <2>4. f[code] = OptionsFrom(table, code, later)
    BY <1>3, <2>2, <2>3
  <2> QED
    BY <1>2, <2>2, <2>4
<1>6. IsWrite(f, table)
  <2>1. f = [code \in 0..n |-> f[code]]
    OBVIOUS
  <2>2. f = [code \in 0..n |-> OptionsFrom(table, code, f)]
    BY <1>5, <2>1
  <2> QED
    BY <2>2 DEF IsWrite, n
<1>7. IsWrite(write, table)
  BY <1>6
<1>8. WriteOptions(table) = Cookie \o write[0]
  BY Zenon DEF WriteOptions, IsWrite, OptionsFrom
<1> HIDE DEF write
<1>9. \A code \in 0..n : write[code] = OptionsFrom(table, code, write)
  BY <1>7 DEF IsWrite, n
<1>10. ASSUME NEW code \in 0..n, \A j \in code+1..n : j \in T PROVE code \in T
  <2>1. \A j \in code+1..n : write[j] \in Bytes
    BY <1>10
  <2> QED
    BY <1>2, <1>9, <2>1
<1> HIDE DEF T
<1>11. \A code \in 0..n : code \in T
  BY <1>1, <1>10, Downward
<1>12. \A code \in 0..n : write[code] \in Bytes
  BY <1>11 DEF T
<1> QED
  BY <1>8, <1>9, <1>12, Zenon DEF n

-----------------------------------------------------------------------------
(* The table of DHCP options, read                                             *)

Values == {value \in Bytes : Len(value) <= 255}

Tables == UNION {[codes -> Values] : codes \in SUBSET Codes}

(* The set of tables has exactly those that can be written.                    *)
LEMMA TablesAre == \A t : t \in Tables <=> IsTable(t)
<1>1. ASSUME NEW t, t \in Tables PROVE IsTable(t)
  <2>1. PICK codes \in SUBSET Codes : t \in [codes -> Values]
    BY <1>1 DEF Tables
  <2>2. DOMAIN t = codes /\ \A code \in codes : t[code] \in Seq(Byte) /\ Len(t[code]) <= 255
    BY <2>1 DEF Values, Bytes
  <2>3. t \in [codes -> Seq(Byte)]
    BY <2>1, <2>2
  <2> QED
    BY <2>2, <2>3 DEF IsTable
<1>2. ASSUME NEW t, IsTable(t) PROVE t \in Tables
  <2>1. t \in [DOMAIN t -> Values]
    BY <1>2 DEF IsTable, Values, Bytes
  <2>2. DOMAIN t \in SUBSET Codes
    BY <1>2 DEF IsTable
  <2> QED
    BY <2>1, <2>2 DEF Tables
<1> QED
  BY <1>1, <1>2

(* A table with one more option is a table.                                    *)
LEMMA MoreTables ==
  /\ Empty \in Tables
  /\ \A t \in Tables, code \in Codes, value \in Values :
       With(t, code, value) \in Tables /\ Unless(t, code, value) \in Tables
<1>1. Empty \in Tables
  <2>1. Empty \in [{} -> Values]
    BY DEF Empty
  <2> QED
    BY <2>1 DEF Tables
<1>2. ASSUME NEW t \in Tables, NEW code \in Codes, NEW value \in Values
      PROVE  With(t, code, value) \in Tables
  <2>1. PICK codes \in SUBSET Codes : t \in [codes -> Values]
    BY DEF Tables
  <2>2. With(t, code, value) \in [codes \cup {code} -> Values]
    BY <2>1 DEF With
  <2>3. codes \cup {code} \in SUBSET Codes
    OBVIOUS
  <2> QED
    BY <2>2, <2>3 DEF Tables
<1> QED
  BY <1>1, <1>2 DEF Unless

(* An option that is there takes the bytes up to the next.                     *)
LEMMA OptionAt ==
  ASSUME NEW bytes \in Bytes, NEW at \in 1..Len(bytes),
         bytes[at] # 0, bytes[at] # 255, at # Len(bytes),
         NEW last, last = at + 1 + bytes[at + 1], last <= Len(bytes)
  PROVE  /\ last + 1 \in at+1..Len(bytes)+1
         /\ bytes[at] \in Codes
         /\ SubSeq(bytes, at + 2, last) \in Values
         /\ Len(SubSeq(bytes, at + 2, last)) + 2 = last + 1 - at
<1>1. Len(bytes) \in Nat
  BY Joining
<1>2. \A k \in 1..Len(bytes) : bytes[k] \in 0..255
  BY ElementOfSeq DEF Bytes, Byte
<1> DEFINE size == bytes[at + 1]
<1>3. size \in 0..255 /\ bytes[at] \in Codes
  BY <1>1, <1>2 DEF Codes
<1> HIDE DEF size
<1>4. last = at + 1 + size
  BY DEF size
<1>5. last + 1 \in at+1..Len(bytes)+1 /\ last \in Int /\ at + 2 \in Int
  <2>1. at \in Nat /\ size \in Nat
    BY <1>3
  <2>2. last \in Nat /\ last >= at
    BY <1>4, <2>1
  <2> QED
    BY <1>1, <2>1, <2>2
<1>6. \A k \in at+2..last : k \in 1..Len(bytes)
  BY <1>1, <1>5
<1>7. \A k \in at+2..last : bytes[k] \in Byte
  BY <1>2, <1>6 DEF Byte
<1>8. (IF at + 2 <= last THEN last - (at + 2) + 1 ELSE 0) = size
  BY <1>3, <1>4
<1>9. SubSeq(bytes, at + 2, last) \in Seq(Byte) /\ Len(SubSeq(bytes, at + 2, last)) = size
  BY <1>5, <1>7, <1>8, SubSeqProperties
<1>10. size + 2 = last + 1 - at /\ size <= 255
  BY <1>3, <1>4
<1> QED
  BY <1>3, <1>5, <1>9, <1>10 DEF Values, Bytes

(* One step of the reader of options, and what is read after it.               *)
OptionFrom(bytes, at, read) ==
  LET last == at + 1 + bytes[at + 1]
  IN IF at > Len(bytes) THEN {}
     ELSE IF bytes[at] = 255 THEN {Empty}
     ELSE IF bytes[at] = 0 THEN read[at + 1]
     ELSE IF at = Len(bytes) \/ last > Len(bytes) THEN {}
     ELSE {Unless(rest, bytes[at], SubSeq(bytes, at + 2, last)) : rest \in read[last + 1]}

IsReadFrom(read, bytes) ==
  read = [at \in 1..Len(bytes)+1 |-> OptionFrom(bytes, at, read)]

(* One step of the reader gives tables, and looks only at later indices.       *)
LEMMA OptionFromIs ==
  ASSUME NEW bytes \in Bytes, NEW at \in 1..Len(bytes)+1,
         NEW read, \A j \in at+1..Len(bytes)+1 : read[j] \in SUBSET Tables
  PROVE  /\ OptionFrom(bytes, at, read) \in SUBSET Tables
         /\ \A other : (\A j \in at+1..Len(bytes)+1 : other[j] = read[j]) =>
              OptionFrom(bytes, at, other) = OptionFrom(bytes, at, read)
<1> DEFINE last == at + 1 + bytes[at + 1]
           value == SubSeq(bytes, at + 2, last)
<1>1. CASE at > Len(bytes)
  BY <1>1, Zenon DEF OptionFrom
<1>2. CASE ~(at > Len(bytes)) /\ bytes[at] = 255
  <2>1. \A f : OptionFrom(bytes, at, f) = {Empty}
    BY <1>2, Zenon DEF OptionFrom
  <2> QED
    BY <2>1, MoreTables
<1>3. CASE ~(at > Len(bytes)) /\ bytes[at] # 255 /\ bytes[at] = 0
  <2>1. \A f : OptionFrom(bytes, at, f) = f[at + 1]
    BY <1>3, Zenon DEF OptionFrom
  <2>2. at + 1 \in at+1..Len(bytes)+1
    BY <1>3, Joining
  <2> QED
    BY <2>1, <2>2, Zenon
<1>4. CASE ~(at > Len(bytes)) /\ bytes[at] # 255 /\ bytes[at] # 0 /\ (at = Len(bytes) \/ last > Len(bytes))
  <2>1. \A f : OptionFrom(bytes, at, f) = {}
    BY <1>4, Zenon DEF OptionFrom
  <2> QED
    BY <2>1, Zenon
<1>5. CASE ~(at > Len(bytes)) /\ bytes[at] # 255 /\ bytes[at] # 0 /\ ~(at = Len(bytes) \/ last > Len(bytes))
  <2>1. Len(bytes) \in Nat /\ at \in 1..Len(bytes)
    BY <1>5, Joining
  <2>2. bytes[at + 1] \in 0..255
    <3>1. at + 1 \in 1..Len(bytes)
      BY <1>5, <2>1
    <3> QED
      BY <3>1, ElementOfSeq DEF Bytes, Byte
  <2>3. last <= Len(bytes)
    <3>1. \A k \in Int, size \in 0..255 : k + 1 + size \in Int
      OBVIOUS
    <3>2. at \in Int
      BY <2>1
    <3>3. last \in Int
      BY <2>2, <3>1, <3>2
    <3> HIDE DEF last
    <3> QED
      BY <1>5, <2>1, <3>3
  <2>4. last + 1 \in at+1..Len(bytes)+1 /\ bytes[at] \in Codes /\ value \in Values
    BY <1>5, <2>1, <2>3, OptionAt
  <2>5. \A f : OptionFrom(bytes, at, f) = {Unless(rest, bytes[at], value) : rest \in f[last + 1]}
    BY <1>5, Zenon DEF OptionFrom
  <2> HIDE DEF last, value
  <2>6. read[last + 1] \in SUBSET Tables
    BY <2>4
  <2>7. \A rest \in read[last + 1] : Unless(rest, bytes[at], value) \in Tables
    BY <2>4, <2>6, MoreTables
  <2>8. OptionFrom(bytes, at, read) \in SUBSET Tables
    BY <2>5, <2>7
  <2>9. ASSUME NEW other, \A j \in at+1..Len(bytes)+1 : other[j] = read[j]
        PROVE  OptionFrom(bytes, at, other) = OptionFrom(bytes, at, read)
    <3>1. other[last + 1] = read[last + 1]
      BY <2>4, <2>9
    <3> QED
      BY <2>5, <3>1
  <2> QED
    BY <2>8, <2>9
<1> QED
  BY <1>1, <1>2, <1>3, <1>4, <1>5

(* The reader of options is what its recursion says.                           *)
LEMMA ReadFromIs ==
  ASSUME NEW bytes \in Bytes
  PROVE  \E read : /\ \A i : ReadFrom(bytes, i) = read[i]
                   /\ \A i \in 1..Len(bytes)+1 :
                        /\ read[i] = OptionFrom(bytes, i, read)
                        /\ read[i] \in SUBSET Tables
<1> DEFINE n == Len(bytes) + 1
           V == SUBSET Tables
           F == [p \in (0..n) \X Tails(n, V) |-> IF p[1] = 0 THEN {} ELSE OptionFrom(bytes, p[1], p[2])]
           read == CHOOSE read : IsReadFrom(read, bytes)
           T == {i \in 0..n : i = 0 \/ read[i] \in V}
<1>1. n \in Nat
  BY Joining
<1>2. \A i \in 1..n : \A f : (\A j \in i+1..n : f[j] \in V) =>
         /\ OptionFrom(bytes, i, f) \in V
         /\ \A g : (\A j \in i+1..n : g[j] = f[j]) => OptionFrom(bytes, i, g) = OptionFrom(bytes, i, f)
  BY OptionFromIs
<1>3. \A i \in 0..n : \A later \in [i+1..n -> V] :
        F[<<i, later>>] = IF i = 0 THEN {} ELSE OptionFrom(bytes, i, later)
  <2> SUFFICES ASSUME NEW i \in 0..n, NEW later \in [i+1..n -> V]
               PROVE  F[<<i, later>>] = IF i = 0 THEN {} ELSE OptionFrom(bytes, i, later)
    OBVIOUS
  <2>1. later \in Tails(n, V)
    BY DEF Tails
  <2> HIDE DEF n, V
  <2> QED
    BY <2>1
<1> HIDE DEF F
<1>4. PICK f \in [0..n -> V] : Recurses(f, 0, n, F)
  <2>1. ASSUME NEW i \in 0..n, NEW later \in [i+1..n -> V] PROVE F[<<i, later>>] \in V
    <3>1. CASE i = 0
      <4>1. {} \in V
        OBVIOUS
      <4> QED
        BY <1>3, <3>1, <4>1
    <3>2. CASE i # 0
      <4>1. i \in 1..n /\ \A j \in i+1..n : later[j] \in V
        BY <3>2
      <4>2. OptionFrom(bytes, i, later) \in V
        BY <1>2, <4>1
      <4> QED
        BY <1>3, <3>2, <4>2
    <3> QED
      BY <3>1, <3>2
  <2> HIDE DEF n, V
  <2> QED
    BY <1>1, <2>1, Recursive
<1> HIDE DEF n, V
<1>5. ASSUME NEW i \in 1..n PROVE f[i] = OptionFrom(bytes, i, f)
  <2> DEFINE later == [j \in i+1..n |-> f[j]]
  <2>1. i \in 0..n /\ i # 0 /\ \A j \in i+1..n : j \in 0..n
    BY <1>1
  <2>2. later \in [i+1..n -> V] /\ \A j \in i+1..n : later[j] = f[j] /\ f[j] \in V
    BY <2>1
  <2>3. f[i] = F[<<i, later>>]
    BY <1>4, <2>1 DEF Recurses
  <2> HIDE DEF later
  <2>4. f[i] = OptionFrom(bytes, i, later)
    BY <1>3, <2>1, <2>2, <2>3
  <2> QED
    BY <1>2, <2>2, <2>4
<1>6. IsReadFrom([i \in 1..n |-> f[i]], bytes)
  <2> DEFINE g == [i \in 1..n |-> f[i]]
  <2>1. \A i \in 1..n : g[i] = f[i]
    OBVIOUS
  <2>2. g = [i \in 1..n |-> g[i]]
    BY <2>1
  <2> HIDE DEF g
  <2>3. ASSUME NEW i \in 1..n PROVE g[i] = OptionFrom(bytes, i, g)
    <3>1. \A j \in i+1..n : g[j] = f[j] /\ f[j] \in V
      BY <1>1, <2>1
    <3>2. OptionFrom(bytes, i, g) = OptionFrom(bytes, i, f)
      BY <1>2, <3>1
    <3> QED
      BY <1>5, <2>1, <3>2
  <2>4. g = [i \in 1..n |-> OptionFrom(bytes, i, g)]
    BY <2>2, <2>3
  <2> QED
    BY <2>4 DEF IsReadFrom, g, n
<1>7. IsReadFrom(read, bytes)
  BY <1>6
<1>8. \A i : ReadFrom(bytes, i) = read[i]
  BY Zenon DEF ReadFrom, IsReadFrom, OptionFrom
<1> HIDE DEF read
<1>9. \A i \in 1..n : read[i] = OptionFrom(bytes, i, read)
  BY <1>7 DEF IsReadFrom, n
<1>10. ASSUME NEW i \in 0..n, \A j \in i+1..n : j \in T PROVE i \in T
  <2>1. CASE i # 0
    <3>1. i \in 1..n /\ \A j \in i+1..n : read[j] \in V
      BY <1>1, <1>10, <2>1
    <3> QED
      BY <1>2, <1>9, <3>1
  <2> QED
    BY <2>1
<1> HIDE DEF T
<1>11. \A i \in 0..n : i \in T
  BY <1>1, <1>10, Downward
<1>12. \A i \in 1..n : read[i] \in V
  BY <1>11 DEF T
<1> QED
  BY <1>8, <1>9, <1>12 DEF n, V

-----------------------------------------------------------------------------
(* A table of options that was written is the one that is read                 *)

OptionIn(bytes, before, code, value, after) ==
  /\ bytes[before + 1] = code /\ bytes[before + 2] = Len(value)
  /\ SubSeq(bytes, before + 3, before + 2 + Len(value)) = value
  /\ Len(bytes) = before + 2 + Len(value) + after

(* An option that was written between other bytes is found between them.       *)
LEMMA OptionWritten ==
  ASSUME NEW x \in Bytes, NEW code, NEW value \in Bytes, NEW y \in Bytes,
         <<code, Len(value)>> \in Bytes
  PROVE  OptionIn((x \o (<<code, Len(value)>> \o value)) \o y, Len(x), code, value, Len(y))
<1> DEFINE h == <<code, Len(value)>>
           bytes == (x \o (h \o value)) \o y
<1>1. Len(h) = 2 /\ h[1] = code /\ h[2] = Len(value) /\ h \in Bytes
  OBVIOUS
<1> HIDE DEF h
<1>2. /\ x \o h \in Bytes /\ Len(x \o h) = Len(x) + Len(h)
      /\ value \o y \in Bytes /\ Len(value \o y) = Len(value) + Len(y)
      /\ Len(x) \in Nat /\ Len(y) \in Nat /\ Len(value) \in Nat
  <2>1. h \in Bytes
    BY <1>1
  <2>2. x \o h \in Bytes /\ Len(x \o h) = Len(x) + Len(h)
    BY <2>1, Joining, Zenon
  <2>3. value \o y \in Bytes /\ Len(value \o y) = Len(value) + Len(y)
    BY Joining, Zenon
  <2>4. Len(x) \in Nat /\ Len(y) \in Nat /\ Len(value) \in Nat
    BY Joining, Zenon
  <2> QED
    BY <2>2, <2>3, <2>4, Zenon
<1>3. x \o (h \o value) = (x \o h) \o value
  <2>1. h \in Bytes
    BY <1>1
  <2> QED
    BY <2>1, Associates, ZenonT(30)
<1>4. ((x \o h) \o value) \o y = (x \o h) \o (value \o y)
  <2>1. x \o h \in Bytes
    BY <1>2
  <2> QED
    BY <2>1, Associates, Zenon
<1>5. bytes[Len(x) + 1] = h[1] /\ bytes[Len(x) + 2] = h[2]
  <2>1. \A i \in 1..Len(h) : ((x \o h) \o (value \o y))[Len(x) + i] = h[i]
    BY <1>1, <1>2, Middle DEF Bytes
  <2>2. 1 \in 1..Len(h) /\ 2 \in 1..Len(h)
    BY <1>1
  <2>3. bytes = (x \o h) \o (value \o y)
    BY <1>3, <1>4
  <2> HIDE DEF bytes
  <2> QED
    BY <2>1, <2>2, <2>3, Zenon
<1>6. SubSeq(bytes, Len(x) + 3, Len(x) + 2 + Len(value)) = value
  <2>1. SubSeq(((x \o h) \o value) \o y, Len(x \o h) + 1, Len(x \o h) + Len(value)) = value
    BY <1>2, Middle DEF Bytes
  <2>2. Len(x \o h) + 1 = Len(x) + 3 /\ Len(x \o h) + Len(value) = Len(x) + 2 + Len(value)
    BY <1>1, <1>2
  <2>3. bytes = ((x \o h) \o value) \o y
    BY <1>3
  <2> HIDE DEF bytes
  <2> QED
    BY <2>1, <2>2, <2>3, Zenon
<1>7. Len(bytes) = Len(x) + 2 + Len(value) + Len(y)
  <2>1. Len((x \o h) \o (value \o y)) = Len(x \o h) + Len(value \o y)
    BY <1>2, Joining
  <2>2. bytes = (x \o h) \o (value \o y)
    BY <1>3, <1>4
  <2> HIDE DEF bytes
  <2> QED
    BY <1>1, <1>2, <2>1, <2>2
<1>8. bytes[Len(x) + 1] = code /\ bytes[Len(x) + 2] = Len(value)
  BY <1>1, <1>5
<1> QED
  BY <1>6, <1>7, <1>8 DEF OptionIn, h

(* The options with the greater codes.                                         *)
After(table, code) == [other \in Later(table, code) |-> table[other]]

(* The options after a code are the next one and those after it.               *)
LEMMA AfterIs ==
  ASSUME NEW table, IsTable(table)
  PROVE  /\ After(table, 0) = table
         /\ \A code \in 0..254 : Later(table, code) = {} => After(table, code) = Empty
         /\ \A code \in 0..254 : Later(table, code) # {} =>
              LET next == Min(Later(table, code)) IN
              /\ Unless(After(table, next), next, table[next]) = After(table, code)
              /\ With(After(table, next), next, table[next]) = After(table, code)
<1>1. After(table, 0) = table
  <2>1. \A code \in DOMAIN table : code \in 1..254
    BY DEF IsTable, Codes
  <2>2. Later(table, 0) = DOMAIN table
    BY <2>1 DEF Later
  <2> QED
    BY <2>2 DEF After, IsTable
<1>2. ASSUME NEW code \in 0..254, Later(table, code) = {} PROVE After(table, code) = Empty
  BY <1>2 DEF After, Empty
<1>3. ASSUME NEW code \in 0..254, Later(table, code) # {}, NEW next, next = Min(Later(table, code))
      PROVE  /\ Unless(After(table, next), next, table[next]) = After(table, code)
             /\ With(After(table, next), next, table[next]) = After(table, code)
  <2>1. /\ next \notin Later(table, next)
        /\ Later(table, code) = Later(table, next) \cup {next}
    BY <1>3, NextIs, ZenonT(30)
  <2>2. With(After(table, next), next, table[next]) = After(table, code)
    BY <2>1 DEF With, After
  <2>3. next \notin DOMAIN After(table, next)
    BY <2>1 DEF After
  <2> QED
    BY <2>2, <2>3 DEF Unless
<1> QED
  BY <1>1, <1>2, <1>3

(* The table that was written, after any other bytes, is the one that is       *)
(* read.                                                                       *)
LEMMA OptionsRead ==
  ASSUME NEW x \in Bytes, NEW table, IsTable(table)
  PROVE  /\ WriteOptions(table) \in Bytes
         /\ ReadOptions(x \o WriteOptions(table), Len(x) + 1) = {table}
<1> DEFINE n == 254
           bytes == x \o WriteOptions(table)
<1>1. PICK write : /\ WriteOptions(table) = Cookie \o write[0]
                   /\ \A code \in 0..n : /\ write[code] = OptionsFrom(table, code, write)
                                         /\ write[code] \in Bytes
  BY WriteOptionsIs
<1>2. Cookie \in Bytes /\ Len(Cookie) = 4
  BY DEF Cookie, Bytes, Byte
<1>3. n \in Nat /\ 0 \in 0..n
  OBVIOUS
<1> HIDE DEF n
<1>4. write[0] \in Bytes
  BY <1>1, <1>3
<1>5. /\ Cookie \o write[0] \in Bytes /\ x \o Cookie \in Bytes
      /\ Len(x \o Cookie) = Len(x) + 4 /\ Len(x) \in Nat
  BY <1>2, <1>4, Joining
<1>6. bytes = (x \o Cookie) \o write[0] /\ bytes \in Bytes
  <2>1. x \o (Cookie \o write[0]) = (x \o Cookie) \o write[0]
    BY <1>2, <1>4, Associates
  <2>2. (x \o Cookie) \o write[0] \in Bytes
    BY <1>4, <1>5, Joining
  <2> QED
    BY <1>1, <2>1, <2>2
<1> HIDE DEF bytes
<1>7. PICK read : /\ \A i : ReadFrom(bytes, i) = read[i]
                  /\ \A i \in 1..Len(bytes)+1 : read[i] = OptionFrom(bytes, i, read)
  BY <1>6, ReadFromIs
<1> DEFINE T == {code \in 0..n : \A z \in Bytes :
                   bytes = z \o write[code] => read[Len(z) + 1] = {After(table, code)}}
<1>8. ASSUME NEW code \in 0..n, \A j \in code+1..n : j \in T,
             NEW z \in Bytes, bytes = z \o write[code]
      PROVE  read[Len(z) + 1] = {After(table, code)}
  <2> HIDE DEF T
  <2>1. CASE Later(table, code) = {}
    <3>1. write[code] = <<255>>
      BY <1>1, <2>1 DEF OptionsFrom
    <3>2. <<255>> \in Bytes /\ Len(<<255>>) = 1 /\ <<255>>[1] = 255
      BY DEF Bytes, Byte
    <3>3. Len(z) \in Nat /\ Len(bytes) = Len(z) + 1
      BY <1>8, <3>1, <3>2, Joining
    <3>4. bytes[Len(z) + 1] = 255
      <4>1. (z \o <<255>>)[Len(z) + 1] = 255
        BY <3>2, <3>3 DEF Bytes
      <4> QED
        BY <1>8, <3>1, <4>1
    <3>5. ~(Len(z) + 1 > Len(bytes)) /\ Len(z) + 1 \in 1..Len(bytes)+1
      BY <3>3
    <3>6. OptionFrom(bytes, Len(z) + 1, read) = {Empty}
      BY <3>4, <3>5, Zenon DEF OptionFrom
    <3>7. After(table, code) = Empty
      BY <2>1, AfterIs DEF n
    <3> QED
      BY <1>7, <3>5, <3>6, <3>7
  <2>2. CASE Later(table, code) # {}
    <3> DEFINE next == Min(Later(table, code))
               value == table[next]
               size == Len(value)
               option == <<next, size>> \o value
               at == Len(z) + 1
    <3>1. next \in code+1..n /\ next \in DOMAIN table /\ next \in Codes
      BY <2>2, NextIs, ZenonT(30) DEF n
    <3>2. /\ value \in Bytes /\ <<next, size>> \in Bytes /\ option \in Bytes
          /\ Len(option) = size + 2
      <4> HIDE DEF next
      <4> QED
        BY <3>1, OptionIs
    <3>3. write[code] = option \o write[next] /\ write[next] \in Bytes
      <4>1. write[code] = OptionsFrom(table, code, write)
        BY <1>1
      <4>2. write[next] \in Bytes
        <5>1. next \in 0..n
          BY <3>1
        <5> HIDE DEF next
        <5> QED
          BY <1>1, <5>1
      <4> QED
        BY <2>2, <4>1, <4>2, Zenon DEF OptionsFrom
    <3>4. Unless(After(table, next), next, value) = After(table, code)
      BY <2>2, AfterIs DEF n
    <3>5. OptionIn((z \o option) \o write[next], Len(z), next, value, Len(write[next]))
      BY <3>2, <3>3, OptionWritten
    <3> HIDE DEF next, value, option
    <3>6. bytes = (z \o option) \o write[next] /\ z \o option \in Bytes
      <4>1. option \in Bytes /\ write[next] \in Bytes
        BY <3>2, <3>3
      <4>2. z \o (option \o write[next]) = (z \o option) \o write[next]
        BY <4>1, Associates, Zenon
      <4>3. z \o option \in Bytes
        BY <4>1, Joining, Zenon
      <4> QED
        BY <1>8, <3>3, <4>2, <4>3, Zenon
    <3>7. Len(z) \in Nat /\ size \in Nat /\ Len(write[next]) \in Nat /\ Len(z \o option) = Len(z) + (size + 2)
      <4>1. /\ Len(z) \in Nat /\ size \in Nat /\ Len(write[next]) \in Nat
            /\ Len(z \o option) = Len(z) + Len(option)
        BY <3>2, <3>3, Joining, Zenon
      <4> QED
        BY <3>2, <4>1, Zenon
    <3>8. read[Len(z \o option) + 1] = {After(table, next)}
      <4>1. next \in T
        BY <1>8, <3>1
      <4> QED
        BY <3>6, <4>1 DEF T
    <3>9. /\ bytes[at] = next /\ bytes[at + 1] = size
          /\ SubSeq(bytes, at + 2, at + 1 + size) = value
          /\ Len(bytes) = Len(z) + 2 + size + Len(write[next])
      <4>1. OptionIn(bytes, Len(z), next, value, Len(write[next]))
        BY <3>5, <3>6
      <4>2. at + 1 = Len(z) + 2 /\ at + 2 = Len(z) + 3 /\ at + 1 + size = Len(z) + 2 + size
        <5> HIDE DEF size
        <5> QED
          BY <3>7
      <4> QED
        BY <4>1, <4>2, Zenon DEF OptionIn
    <3> HIDE DEF size, at
    <3>10. /\ ~(at > Len(bytes)) /\ at # Len(bytes) /\ ~(at + 1 + size > Len(bytes))
           /\ at \in 1..Len(bytes)+1 /\ at + 1 + size + 1 = Len(z \o option) + 1
      <4> DEFINE before == Len(z)
                 after == Len(write[next])
                 all == Len(bytes)
                 up_to == Len(z \o option)
      <4>1. /\ before \in Nat /\ size \in Nat /\ after \in Nat
            /\ all = before + 2 + size + after /\ up_to = before + (size + 2)
        BY <3>7, <3>9
      <4> HIDE DEF before, after, all, up_to
      <4>2. /\ ~(before + 1 > all) /\ before + 1 # all /\ ~((before + 1) + 1 + size > all)
            /\ before + 1 \in 1..all+1 /\ (before + 1) + 1 + size + 1 = up_to + 1
        BY <4>1
      <4> QED
        BY <4>2, Zenon DEF before, all, up_to, at
    <3>11. next # 255 /\ next # 0
      BY <3>1 DEF Codes
    <3>12. OptionFrom(bytes, at, read) = {Unless(rest, next, value) : rest \in read[at + 1 + size + 1]}
      BY <3>9, <3>10, <3>11, Zenon DEF OptionFrom
    <3>13. OptionFrom(bytes, at, read) = {After(table, code)}
      BY <3>4, <3>8, <3>10, <3>12
    <3> QED
      BY <1>7, <3>10, <3>13 DEF at
  <2> QED
    BY <2>1, <2>2
<1>9. ASSUME NEW code \in 0..n, \A j \in code+1..n : j \in T PROVE code \in T
  BY <1>8, <1>9
<1>10. 0 \in T
  <2> HIDE DEF T
  <2>1. \A code \in 0..n : code \in T
    <3> QED
      BY <1>3, <1>9, Downward
  <2> QED
    BY <1>3, <2>1
<1>11. read[Len(x) + 5] = {table}
  <2>1. read[Len(x \o Cookie) + 1] = {After(table, 0)}
    BY <1>5, <1>6, <1>10
  <2>2. Len(x \o Cookie) + 1 = Len(x) + 5
    BY <1>5
  <2>3. After(table, 0) = table
    BY AfterIs
  <2> QED
    BY <2>1, <2>2, <2>3
<1>12. SubSeq(bytes, Len(x) + 1, (Len(x) + 1) + 3) = Cookie
  <2>1. SubSeq((x \o Cookie) \o write[0], Len(x) + 1, Len(x) + Len(Cookie)) = Cookie
    BY <1>2, <1>4, Between, Zenon
  <2>2. Len(x) + Len(Cookie) = (Len(x) + 1) + 3
    BY <1>2, <1>5
  <2> QED
    BY <1>6, <2>1, <2>2
<1>13. (Len(x) + 1) + 3 <= Len(bytes) /\ (Len(x) + 1) + 4 = Len(x) + 5
  <2>1. Len((x \o Cookie) \o write[0]) = Len(x \o Cookie) + Len(write[0]) /\ Len(write[0]) \in Nat
    BY <1>4, <1>5, Joining
  <2>2. \A l, m \in Nat : (l + 1) + 3 <= (l + 4) + m /\ (l + 1) + 4 = l + 5
    OBVIOUS
  <2> QED
    BY <1>5, <1>6, <2>1, <2>2, Zenon
<1>14. ReadOptions(bytes, Len(x) + 1) = ReadFrom(bytes, (Len(x) + 1) + 4)
  BY <1>12, <1>13, Zenon DEF ReadOptions
<1>15. WriteOptions(table) \in Bytes
  BY <1>1, <1>5
<1> QED
  BY <1>7, <1>11, <1>13, <1>14, <1>15 DEF bytes

-----------------------------------------------------------------------------
(* The size of a table of options                                              *)

Room(table) == [code \in DOMAIN table |-> Len(table[code]) + 2]

(* One more option adds its bytes and two, to replace one adds no more.        *)
LEMMA RoomOfWith ==
  ASSUME NEW table \in Tables, NEW code \in Codes, NEW value \in Values, IsFiniteSet(Boxes(Room(table))),
         NEW more, more = Room(With(table, code, value)), NEW size, size = Len(value) + 2
  PROVE  /\ size \in Nat /\ IsFiniteSet(Boxes(more))
         /\ Volume(Room(table)) \in Nat /\ Volume(more) \in Nat
         /\ Volume(more) <= Volume(Room(table)) + size
         /\ code \notin DOMAIN table => Volume(more) = Volume(Room(table)) + size
<1> DEFINE w == Room(table)
<1>1. size \in Nat
  BY Joining DEF Values
<1>2. w \in [DOMAIN table -> Nat]
  <2>1. ASSUME NEW c \in DOMAIN table PROVE Len(table[c]) + 2 \in Nat
    <3>1. Len(table[c]) \in Nat
      BY TablesAre, OptionIs
    <3> QED
      BY <3>1
  <2> QED
    BY <2>1 DEF Room
<1>3. more = With(w, code, size)
  BY DEF Room, With
<1> HIDE DEF w
<1>4. IsFiniteSet(Boxes(w))
  BY DEF w
<1> DEFINE D == DOMAIN table
<1>5. w \in [D -> Nat]
  BY <1>2
<1> HIDE DEF D
<1>6. /\ IsFiniteSet(Boxes(With(w, code, size)))
      /\ Volume(w) \in Nat /\ Volume(With(w, code, size)) \in Nat
      /\ Volume(With(w, code, size)) <= Volume(w) + size
      /\ code \notin D => Volume(With(w, code, size)) = Volume(w) + size
  BY <1>1, <1>5, <1>4, VolumeOfWith
<1> QED
  BY <1>1, <1>3, <1>6, Zenon DEF w, D

(* The empty table takes no room.                                              *)
LEMMA NoRoom == IsFiniteSet(Boxes(Room(Empty))) /\ Volume(Room(Empty)) = 0
<1>1. Room(Empty) = Empty
  BY DEF Room, Empty
<1> QED
  BY <1>1, NoVolume

SizeFrom(table, code, size) ==
  LET next == Min(Later(table, code))
  IN IF Later(table, code) = {} THEN 1 + Len(Cookie)
     ELSE Len(table[next]) + 2 + size[next]

IsSize(size, table) == size = [code \in 0..254 |-> SizeFrom(table, code, size)]

(* Measured, written and counted, the options have one size.                   *)
LEMMA OptionsSize ==
  ASSUME NEW table, IsTable(table)
  PROVE  /\ Len(WriteOptions(table)) = OptionsSizeHint(table)
         /\ Volume(Room(table)) \in Nat
         /\ Len(WriteOptions(table)) = Volume(Room(table)) + 1 + 4
<1> DEFINE n == 254
           g(write) == [code \in 0..n |-> Len(write[code]) + 4]
           size == CHOOSE size : IsSize(size, table)
           next(code) == Min(Later(table, code))
<1>1. PICK write : /\ WriteOptions(table) = Cookie \o write[0]
                   /\ \A code \in 0..n : /\ write[code] = OptionsFrom(table, code, write)
                                         /\ write[code] \in Bytes
  BY WriteOptionsIs
<1>2. n \in Nat /\ 0 \in 0..n
  OBVIOUS
<1> HIDE DEF n
<1>3. Cookie \in Bytes /\ Len(Cookie) = 4
  BY DEF Cookie, Bytes, Byte
<1>4. Len(WriteOptions(table)) = 4 + Len(write[0]) /\ Len(write[0]) \in Nat
  <2>1. write[0] \in Bytes
    BY <1>1, <1>2
  <2> QED
    BY <1>1, <1>3, <2>1, Joining
<1>5. ASSUME NEW code \in 0..n, Later(table, code) = {} PROVE Len(write[code]) = 1
  <2>1. write[code] = <<255>>
    BY <1>1, <1>5 DEF OptionsFrom
  <2> QED
    BY <2>1
<1>6. ASSUME NEW code \in 0..n, Later(table, code) # {}
      PROVE  /\ next(code) \in code+1..n /\ next(code) \in 0..n /\ next(code) \in DOMAIN table
             /\ table[next(code)] \in Bytes /\ Len(table[next(code)]) \in Nat
             /\ Len(write[next(code)]) \in Nat
             /\ Len(write[code]) = Len(table[next(code)]) + 2 + Len(write[next(code)])
  <2> DEFINE k == next(code)
             option == <<k, Len(table[k])>> \o table[k]
  <2>1. k \in code+1..n /\ k \in DOMAIN table
    BY <1>6, NextIs DEF n
  <2>2. write[code] = option \o write[k]
    <3>1. write[code] = OptionsFrom(table, code, write)
      BY <1>1
    <3> QED
      BY <1>6, <3>1, Zenon DEF OptionsFrom
  <2> HIDE DEF k
  <2>3. /\ table[k] \in Bytes /\ Len(table[k]) \in 0..255
        /\ option \in Bytes /\ Len(option) = Len(table[k]) + 2
    BY <2>1, OptionIs
  <2> HIDE DEF option
  <2>4. k \in 0..n /\ write[k] \in Bytes /\ Len(table[k]) \in Nat
    <3>1. k \in 0..n
      BY <2>1
    <3>2. write[k] \in Bytes
      BY <1>1, <3>1
    <3> QED
      BY <2>3, <3>1, <3>2, Joining
  <2>5. Len(option \o write[k]) = Len(option) + Len(write[k]) /\ Len(write[k]) \in Nat
    BY <2>3, <2>4, Joining
  <2>6. Len(write[code]) = Len(table[k]) + 2 + Len(write[k])
    BY <2>2, <2>3, <2>5, Zenon
  <2> QED
    BY <2>1, <2>3, <2>4, <2>5, <2>6 DEF k
<1>7. ASSUME NEW code \in 0..n PROVE g(write)[code] = SizeFrom(table, code, g(write))
  <2>1. CASE Later(table, code) = {}
    BY <1>3, <1>5, <2>1 DEF SizeFrom
  <2>2. CASE Later(table, code) # {}
    <3> DEFINE k == next(code)
    <3>1. SizeFrom(table, code, g(write)) = Len(table[k]) + 2 + g(write)[k]
      BY <2>2, Zenon DEF SizeFrom
    <3>2. /\ k \in 0..n /\ Len(table[k]) \in Nat /\ Len(write[k]) \in Nat
          /\ Len(write[code]) = Len(table[k]) + 2 + Len(write[k])
      BY <1>6, <2>2
    <3> HIDE DEF k
    <3>3. g(write)[k] = Len(write[k]) + 4 /\ g(write)[code] = Len(write[code]) + 4
      BY <3>2
    <3> DEFINE a == Len(table[k])
               b == Len(write[k])
    <3>4. \A x, y \in Nat : x + 2 + (y + 4) = (x + 2 + y) + 4
      OBVIOUS
    <3>5. a + 2 + (b + 4) = (a + 2 + b) + 4
      BY <3>2, <3>4
    <3> HIDE DEF g
    <3> QED
      BY <3>1, <3>2, <3>3, <3>5, Zenon
  <2> QED
    BY <2>1, <2>2
<1>8. IsSize(g(write), table)
  <2>1. g(write) = [code \in 0..n |-> g(write)[code]]
    OBVIOUS
  <2> HIDE DEF g
  <2> QED
    BY <1>7, <2>1 DEF IsSize, n
<1>9. IsSize(size, table)
  BY <1>8
<1>10. OptionsSizeHint(table) = size[0]
  BY Zenon DEF OptionsSizeHint, IsSize, SizeFrom
<1> HIDE DEF size, g
<1>11. \A code \in 0..n : size[code] = SizeFrom(table, code, size)
  BY <1>9 DEF IsSize, n
<1> DEFINE T == {code \in 0..n : /\ size[code] = Len(write[code]) + 4
                                 /\ IsFiniteSet(Boxes(Room(After(table, code))))
                                 /\ Volume(Room(After(table, code))) \in Nat
                                 /\ Len(write[code]) = Volume(Room(After(table, code))) + 1}
<1>12. ASSUME NEW code \in 0..n, \A j \in code+1..n : j \in T PROVE code \in T
  <2>1. CASE Later(table, code) = {}
    <3>1. Len(write[code]) = 1 /\ After(table, code) = Empty
      <4>1. Len(write[code]) = 1
        BY <1>5, <2>1
      <4>2. After(table, code) = Empty
        BY <2>1, AfterIs, ZenonT(30) DEF n
      <4> QED
        BY <4>1, <4>2
    <3>2. size[code] = 1 + 4
      BY <1>3, <1>11, <2>1 DEF SizeFrom
    <3>3. 1 + 4 = 5 /\ 0 \in Nat /\ 0 + 1 = 1
      OBVIOUS
    <3> QED
      BY <3>1, <3>2, <3>3, NoRoom
  <2>2. CASE Later(table, code) # {}
    <3> DEFINE k == next(code)
               later == After(table, k)
               value == table[k]
    <3>1. /\ k \in code+1..n /\ k \in 0..n /\ k \in DOMAIN table /\ value \in Bytes
          /\ Len(value) \in Nat /\ Len(write[k]) \in Nat
          /\ Len(write[code]) = Len(value) + 2 + Len(write[k])
      BY <1>6, <2>2
    <3>2. size[code] = Len(value) + 2 + size[k]
      BY <1>11, <2>2, Zenon DEF SizeFrom
    <3>3. /\ size[k] = Len(write[k]) + 4 /\ IsFiniteSet(Boxes(Room(later)))
          /\ Volume(Room(later)) \in Nat /\ Len(write[k]) = Volume(Room(later)) + 1
      <4>1. k \in T
        BY <1>12, <3>1
      <4> QED
        BY <4>1
    <3>4. After(table, code) = With(later, k, value)
      BY <2>2, AfterIs DEF n
    <3>5. k \in Codes /\ k \notin DOMAIN later
      BY <2>2, NextIs DEF After, n
    <3> HIDE DEF k
    <3>6. later \in Tables /\ value \in Values
      <4>1. DOMAIN later \subseteq DOMAIN table /\ \A c \in DOMAIN later : later[c] = table[c]
        BY DEF After, Later
      <4>2. later \in [DOMAIN later -> Seq(Byte)]
        BY <4>1 DEF After, IsTable
      <4>3. IsTable(later)
        BY <4>1, <4>2 DEF IsTable
      <4> QED
        BY <3>1, <4>3, TablesAre DEF IsTable, Values
    <3> HIDE DEF later, value
    <3> DEFINE add == Len(value) + 2
               more == Room(With(later, k, value))
    <3>7. /\ IsFiniteSet(Boxes(more)) /\ Volume(more) \in Nat
          /\ Volume(more) = Volume(Room(later)) + add
      BY <3>3, <3>5, <3>6, RoomOfWith
    <3> HIDE DEF more
    <3>8. size[code] = Len(write[code]) + 4 /\ Len(write[code]) = Volume(more) + 1
      BY <3>1, <3>2, <3>3, <3>7, SMTT(30)
    <3> QED
      BY <3>4, <3>7, <3>8 DEF more
  <2> QED
    BY <2>1, <2>2
<1> HIDE DEF T
<1>13. 0 \in T
  <2>1. \A code \in 0..n : code \in T
    BY <1>2, <1>12, Downward
  <2> QED
    BY <1>2, <2>1
<1>14. After(table, 0) = table
  BY AfterIs
<1>15. /\ size[0] = Len(write[0]) + 4 /\ Volume(Room(table)) \in Nat
       /\ Len(write[0]) = Volume(Room(table)) + 1
  BY <1>13, <1>14 DEF T
<1> QED
  BY <1>4, <1>10, <1>15

(* The table has room in as many bytes, with the byte that ends it.            *)
TableFits(table, room) ==
  table \in Tables /\ IsFiniteSet(Boxes(Room(table))) /\ Volume(Room(table)) + 1 <= room

(* What fits still fits when an option that is there already is read again.    *)
LEMMA TableFitsUnless ==
  ASSUME NEW room \in Nat, NEW table, TableFits(table, room), NEW code \in Codes, NEW value \in Values
  PROVE  TableFits(Unless(table, code, value), room + (Len(value) + 2))
<1> DEFINE size == Len(value) + 2
           more == Room(With(table, code, value))
<1>1. /\ table \in Tables /\ IsFiniteSet(Boxes(Room(table))) /\ Volume(Room(table)) + 1 <= room
  BY DEF TableFits
<1>2. /\ size \in Nat /\ IsFiniteSet(Boxes(more))
      /\ Volume(Room(table)) \in Nat /\ Volume(more) \in Nat
      /\ Volume(more) <= Volume(Room(table)) + size
  BY <1>1, RoomOfWith
<1> HIDE DEF size, more
<1>3. Volume(Room(table)) + 1 <= room + size /\ Volume(more) + 1 <= room + size
  BY <1>1, <1>2
<1>4. Unless(table, code, value) \in Tables
  BY <1>1, MoreTables
<1>5. CASE code \in DOMAIN table
  BY <1>1, <1>3, <1>5 DEF TableFits, Unless, size
<1>6. CASE code \notin DOMAIN table
  BY <1>2, <1>3, <1>4, <1>6 DEF TableFits, Unless, size, more
<1> QED
  BY <1>5, <1>6

(* A table that is read fits in the bytes it was read from.                    *)
LEMMA OptionsFit ==
  ASSUME NEW bytes \in Bytes, NEW i \in 1..Len(bytes)+1, NEW table \in ReadFrom(bytes, i)
  PROVE  TableFits(table, Len(bytes) + 1 - i)
<1> DEFINE n == Len(bytes) + 1
<1>1. n \in Nat /\ Len(bytes) \in Nat
  BY Joining
<1>2. PICK read : /\ \A j : ReadFrom(bytes, j) = read[j]
                  /\ \A j \in 1..n : read[j] = OptionFrom(bytes, j, read)
  BY ReadFromIs
<1> DEFINE T == {j \in 0..n : j = 0 \/ \A t \in read[j] : TableFits(t, n - j)}
<1>3. ASSUME NEW j \in 0..n, \A k \in j+1..n : k \in T, j # 0 PROVE j \in T
  <2> SUFFICES ASSUME NEW t \in OptionFrom(bytes, j, read) PROVE TableFits(t, n - j)
    <3>1. j \in 1..n
      BY <1>1, <1>3
    <3> QED
      BY <1>2, <3>1
  <2> DEFINE last == j + 1 + bytes[j + 1]
             value == SubSeq(bytes, j + 2, last)
  <2>1. CASE j > Len(bytes)
    BY <2>1, Zenon DEF OptionFrom
  <2>2. CASE ~(j > Len(bytes)) /\ bytes[j] = 255
    <3>1. t = Empty
      BY <2>2 DEF OptionFrom
    <3>2. Volume(Room(Empty)) + 1 <= n - j
      BY <1>1, <2>2, NoRoom
    <3> QED
      BY <3>1, <3>2, NoRoom, MoreTables DEF TableFits
  <2>3. CASE ~(j > Len(bytes)) /\ bytes[j] # 255 /\ bytes[j] = 0
    <3>1. t \in read[j + 1]
      BY <2>3, Zenon DEF OptionFrom
    <3>2. j + 1 \in j+1..n /\ j + 1 # 0
      BY <1>1, <2>3
    <3>3. TableFits(t, n - (j + 1))
      BY <1>3, <3>1, <3>2
    <3>4. n - (j + 1) <= n - j /\ n - (j + 1) \in Int /\ n - j \in Int
      BY <1>1
    <3>5. Volume(Room(t)) \in Nat
      BY <3>3, TablesAre, OptionsSize DEF TableFits
    <3>6. Volume(Room(t)) + 1 <= n - j
      BY <3>3, <3>4, <3>5 DEF TableFits
    <3> QED
      BY <3>3, <3>6 DEF TableFits
  <2>4. CASE ~(j > Len(bytes)) /\ bytes[j] # 255 /\ bytes[j] # 0 /\ (j = Len(bytes) \/ last > Len(bytes))
    <3>1. OptionFrom(bytes, j, read) = {}
      BY <2>4, Zenon DEF OptionFrom
    <3> QED
      BY <3>1
  <2>5. CASE ~(j > Len(bytes)) /\ bytes[j] # 255 /\ bytes[j] # 0 /\ ~(j = Len(bytes) \/ last > Len(bytes))
    <3>1. PICK rest \in read[last + 1] : t = Unless(rest, bytes[j], value)
      <4>1. OptionFrom(bytes, j, read) = {Unless(rest, bytes[j], value) : rest \in read[last + 1]}
        BY <2>5, Zenon DEF OptionFrom
      <4> HIDE DEF last, value
      <4> QED
        BY <4>1
    <3>2. j \in 1..Len(bytes) /\ j # Len(bytes) /\ j + 1 \in 1..Len(bytes)
      BY <1>1, <1>3, <2>5
    <3>3. last <= Len(bytes) /\ last \in Int
      <4>1. bytes[j + 1] \in 0..255
        BY <3>2, ElementOfSeq DEF Bytes, Byte
      <4>2. \A k \in Int, size \in 0..255 : k + 1 + size \in Int
        OBVIOUS
      <4>3. j \in Int
        BY <3>2
      <4>4. last \in Int
        BY <4>1, <4>2, <4>3
      <4> HIDE DEF last
      <4> QED
        BY <1>1, <2>5, <4>4
    <3>4. /\ last + 1 \in j+1..n /\ bytes[j] \in Codes /\ value \in Values
          /\ Len(value) + 2 = last + 1 - j
      BY <2>5, <3>2, <3>3, OptionAt
    <3> HIDE DEF value, last
    <3>5. TableFits(rest, n - (last + 1)) /\ n - (last + 1) \in Nat
      <4>1. last + 1 # 0 /\ last + 1 \in T
        BY <1>3, <3>2, <3>3, <3>4
      <4> QED
        BY <1>1, <3>3, <3>4, <4>1
    <3>6. TableFits(t, (n - (last + 1)) + (Len(value) + 2))
      BY <3>1, <3>4, <3>5, TableFitsUnless
    <3>7. (n - (last + 1)) + (last + 1 - j) = n - j
      <4> HIDE DEF n
      <4> QED
        BY <1>1, <3>2, <3>3
    <3> QED
      BY <3>4, <3>6, <3>7
  <2> QED
    BY <2>1, <2>2, <2>3, <2>4, <2>5
<1>4. ASSUME NEW j \in 0..n, \A k \in j+1..n : k \in T PROVE j \in T
  BY <1>3, <1>4
<1> HIDE DEF T
<1>5. \A j \in 0..n : j \in T
  BY <1>1, <1>4, Downward
<1>6. i \in 0..n /\ i # 0
  BY <1>1
<1> QED
  BY <1>2, <1>5, <1>6 DEF T

(* and can be written, within them if there is any option.                     *)
LEMMA ReadOptionsIs ==
  ASSUME NEW bytes \in Bytes, NEW i \in 1..Len(bytes)+1, NEW table \in ReadOptions(bytes, i)
  PROVE  IsTable(table) /\ (DOMAIN table = {} \/ Len(WriteOptions(table)) <= Len(bytes) + 1 - i)
<1>1. Len(bytes) \in Nat
  BY Joining
<1>2. CASE i + 3 <= Len(bytes) /\ SubSeq(bytes, i, i + 3) = Cookie
  <2>1. table \in ReadFrom(bytes, i + 4)
    BY <1>2, Zenon DEF ReadOptions
  <2>2. i + 4 \in 1..Len(bytes)+1
    BY <1>1, <1>2
  <2>3. TableFits(table, Len(bytes) + 1 - (i + 4))
    BY <2>1, <2>2, OptionsFit
  <2>4. IsTable(table) /\ Volume(Room(table)) + 1 <= Len(bytes) + 1 - (i + 4)
    BY <2>3, TablesAre DEF TableFits
  <2>5. Volume(Room(table)) \in Nat /\ Len(WriteOptions(table)) = Volume(Room(table)) + 1 + 4
    BY <2>4, OptionsSize
  <2> QED
    BY <1>1, <2>2, <2>4, <2>5
<1>3. CASE ~(i + 3 <= Len(bytes) /\ SubSeq(bytes, i, i + 3) = Cookie)
  <2>1. table = Empty
    BY <1>3, Zenon DEF ReadOptions
  <2>2. DOMAIN Empty = {}
    BY DEF Empty
  <2> QED
    BY <2>1, <2>2, MoreTables, TablesAre
<1> QED
  BY <1>2, <1>3

-----------------------------------------------------------------------------
(* The DHCP packets                                                            *)

(* The header is as long as its fields.                                        *)
LEMMA EndsAre ==
  /\ Width \in [1..14 -> Nat]
  /\ Ends \in [0..14 -> Nat] /\ Ends[0] = 0 /\ HeaderSize \in Nat
  /\ \A k \in 1..14 : Ends[k] = Ends[k-1] + Width[k]
  /\ \A k \in 0..14 : Ends[k] <= HeaderSize
<1>1. Width \in Seq(Nat) /\ Len(Width) = 14
  BY DEF Width
<1> DEFINE n == 14
<1>2. n \in Nat /\ n \in 0..n /\ Width \in [1..n -> Nat]
  <2>1. n \in Nat /\ n \in 0..n
    OBVIOUS
  <2>2. Width \in [1..Len(Width) -> Nat]
    BY <1>1, LenProperties, Zenon
  <2> QED
    BY <1>1, <2>1, <2>2, Zenon
<1> HIDE DEF n
<1>3. Ends \in [0..n -> Nat] /\ Ends[0] = 0 /\ \A k \in 1..n : Ends[k] = Ends[k-1] + Width[k]
  BY <1>2, SumsAre DEF Ends
<1>4. HeaderSize = Ends[n] /\ HeaderSize \in Nat
  BY <1>2, <1>3 DEF HeaderSize, n
<1> DEFINE T == {k \in 0..n : Ends[k] <= HeaderSize}
<1>5. ASSUME NEW k \in 0..n, \A j \in k+1..n : j \in T PROVE k \in T
  <2>1. CASE k = n
    BY <1>4, <2>1
  <2>2. CASE k # n
    <3>1. k + 1 \in k+1..n /\ k + 1 \in 1..n /\ (k + 1) - 1 = k /\ k + 1 \in 0..n
      BY <1>2, <2>2
    <3>2. Ends[k+1] = Ends[k] + Width[k+1] /\ Ends[k+1] <= HeaderSize
      BY <1>3, <1>5, <3>1
    <3>3. Ends[k] \in Nat /\ Width[k+1] \in Nat
      BY <1>2, <1>3, <3>1
    <3> QED
      BY <1>4, <3>2, <3>3
  <2> QED
    BY <2>1, <2>2
<1> HIDE DEF T
<1>6. \A k \in 0..n : k \in T
  BY <1>2, <1>5, Downward
<1> QED
  BY <1>2, <1>3, <1>4, <1>6 DEF T, n

(* The header that was written is the one that is read, field by field.        *)
LEMMA HeaderRead ==
  ASSUME NEW header, IsHeader(header), NEW rest \in Bytes
  PROVE  /\ FlattenSeq(header) \in Bytes /\ Len(FlattenSeq(header)) = HeaderSize
         /\ ReadHeader(FlattenSeq(header) \o rest) = header
<1> DEFINE n == 14
           bytes == FlattenSeq(header) \o rest
<1>1. /\ n \in Nat /\ n \in 0..n /\ header \in [1..n -> Seq(Byte)]
      /\ \A k \in 1..n : Len(header[k]) = Width[k]
  BY DEF IsHeader
<1>2. /\ Width \in [1..n -> Nat] /\ Ends \in [0..n -> Nat] /\ HeaderSize = Ends[n]
      /\ \A k \in 1..n : Ends[k] = Ends[k-1] + Width[k]
  BY EndsAre DEF HeaderSize
<1> HIDE DEF n
<1>3. PICK g : Joins(g, Byte, n, header) /\ g[n] = FlattenSeq(header)
  BY <1>1, FlattenSeqJoins
<1>4. Measures(Width, n, header)
  BY <1>1, <1>2 DEF Measures
<1>5. \A k \in 0..n : Len(g[k]) = Ends[k]
  BY <1>1, <1>3, <1>4, JoinsLength DEF Ends
<1>6. \A k \in 0..n : Begins(g[n], g[k], Byte)
  BY <1>1, <1>3, JoinsPrefix
<1>7. /\ \A k \in 0..n : g[k] \in Bytes
      /\ \A k \in 1..n : g[k] = g[k-1] \o header[k]
  BY <1>3 DEF Joins, Bytes
<1>8. FlattenSeq(header) \in Bytes /\ Len(FlattenSeq(header)) = HeaderSize
  BY <1>1, <1>2, <1>3, <1>5, <1>7
<1>9. ASSUME NEW k \in 1..n PROVE SubSeq(bytes, Ends[k-1] + 1, Ends[k]) = header[k]
  <2> DEFINE x == g[k-1]
             p == header[k]
  <2>1. k \in 0..n /\ k - 1 \in 0..n
    BY <1>1
  <2>2. x \in Bytes /\ p \in Bytes /\ Len(x) = Ends[k-1] /\ g[k] = x \o p
    BY <1>1, <1>5, <1>7, <2>1 DEF Bytes
  <2>3. PICK y \in Bytes : g[n] = g[k] \o y
    <3>1. Begins(g[n], g[k], Byte)
      BY <1>6, <2>1
    <3> QED
      BY <3>1 DEF Begins, Bytes
  <2>4. Ends[k] = Len(x) + Len(p)
    BY <1>1, <1>2, <2>2
  <2> HIDE DEF x, p
  <2>5. x \o p \in Bytes /\ y \o rest \in Bytes
    BY <2>2, <2>3, Joining
  <2>6. bytes = (x \o p) \o (y \o rest)
    <3>1. bytes = ((x \o p) \o y) \o rest
      BY <1>3, <2>2, <2>3
    <3>2. ((x \o p) \o y) \o rest = (x \o p) \o (y \o rest)
      BY <2>3, <2>5, Associates, Zenon
    <3> QED
      BY <3>1, <3>2
  <2>7. SubSeq((x \o p) \o (y \o rest), Len(x) + 1, Len(x) + Len(p)) = p
    BY <2>2, <2>5, Between, Zenon
  <2> QED
    BY <2>2, <2>4, <2>6, <2>7, Zenon DEF p
<1>10. ReadHeader(bytes) = [k \in 1..n |-> header[k]]
  BY <1>9, Zenon DEF ReadHeader, n
<1>11. [k \in 1..n |-> header[k]] = header
  BY <1>1
<1> QED
  BY <1>8, <1>10, <1>11

IsDhcp(p) ==
  p = [header |-> p.header, options |-> p.options] /\ IsHeader(p.header) /\ IsTable(p.options)

(* A packet that was written is the one that is read, and has the size of the  *)
(* hint.                                                                       *)
LEMMA DhcpWritten ==
  ASSUME NEW p, IsDhcp(p)
  PROVE  /\ WriteDhcp(p) \in Bytes
         /\ ReadDhcp(WriteDhcp(p)) = {p}
         /\ Len(WriteDhcp(p)) = DhcpSizeHint(p)
<1> DEFINE header == FlattenSeq(p.header)
           options == WriteOptions(p.options)
           bytes == WriteDhcp(p)
<1>1. options \in Bytes
  BY NoBytes, OptionsRead DEF IsDhcp
<1>2. header \in Bytes /\ Len(header) = HeaderSize /\ ReadHeader(header \o options) = p.header
  BY <1>1, HeaderRead DEF IsDhcp
<1>3. ReadOptions(header \o options, Len(header) + 1) = {p.options}
  BY <1>2, OptionsRead DEF IsDhcp
<1>4. bytes = header \o options
  BY DEF WriteDhcp
<1>5. Len(options) = OptionsSizeHint(p.options)
  BY OptionsSize DEF IsDhcp
<1> HIDE DEF header, options
<1>6. bytes \in Bytes /\ Len(bytes) = HeaderSize + Len(options) /\ Len(options) \in Nat
  BY <1>1, <1>2, <1>4, Joining
<1> HIDE DEF bytes
<1>7. ~(Len(bytes) < HeaderSize) /\ Len(bytes) = OptionsSizeHint(p.options) + HeaderSize
  <2>1. HeaderSize \in Nat
    BY EndsAre
  <2>2. \A h, m \in Nat : ~(h + m < h) /\ h + m = m + h
    OBVIOUS
  <2> QED
    BY <1>5, <1>6, <2>1, <2>2, Zenon
<1>8. ReadDhcp(bytes) = {[header |-> p.header, options |-> options_] : options_ \in {p.options}}
  BY <1>2, <1>3, <1>4, <1>7, Zenon DEF ReadDhcp
<1>9. {[header |-> p.header, options |-> options_] : options_ \in {p.options}} = {p}
  BY DEF IsDhcp
<1> QED
  BY <1>6, <1>7, <1>8, <1>9 DEF bytes, DhcpSizeHint

(* What is read of bytes from elsewhere can be written, within their size if   *)
(* it has an option.                                                           *)
LEMMA DhcpRead ==
  ASSUME NEW bytes \in Bytes, NEW p \in ReadDhcp(bytes)
  PROVE  IsDhcp(p) /\ (DOMAIN p.options = {} \/ Len(WriteDhcp(p)) <= Len(bytes))
<1>1. Len(bytes) \in Nat /\ HeaderSize \in Nat
  BY Joining, EndsAre
<1>2. ~(Len(bytes) < HeaderSize)
  BY DEF ReadDhcp
<1>3. PICK options \in ReadOptions(bytes, HeaderSize + 1) :
        p = [header |-> ReadHeader(bytes), options |-> options]
  BY <1>2, Zenon DEF ReadDhcp
<1>4. HeaderSize + 1 \in 1..Len(bytes)+1
  BY <1>1, <1>2
<1>5. /\ IsTable(options)
      /\ DOMAIN options = {} \/ Len(WriteOptions(options)) <= Len(bytes) + 1 - (HeaderSize + 1)
  BY <1>4, ReadOptionsIs
<1>6. IsHeader(ReadHeader(bytes))
  <2>1. ASSUME NEW k \in 1..14
        PROVE  /\ SubSeq(bytes, Ends[k-1] + 1, Ends[k]) \in Seq(Byte)
               /\ Len(SubSeq(bytes, Ends[k-1] + 1, Ends[k])) = Width[k]
    <3> DEFINE first == Ends[k-1]
               last == Ends[k]
               width == Width[k]
    <3>1. k \in 0..14 /\ k - 1 \in 0..14
      OBVIOUS
    <3>2. first \in Nat /\ last \in Nat /\ width \in Nat /\ last = first + width /\ last <= HeaderSize
      BY <3>1, EndsAre
    <3> HIDE DEF first, last, width
    <3>3. \A i \in first+1..last : i \in 1..Len(bytes)
      BY <1>1, <1>2, <3>2
    <3>4. \A i \in first+1..last : bytes[i] \in Byte
      BY <3>3, ElementOfSeq DEF Bytes
    <3>5. (IF first + 1 <= last THEN last - (first + 1) + 1 ELSE 0) = width
      BY <3>2
    <3>6. SubSeq(bytes, first + 1, last) \in Seq(Byte) /\ Len(SubSeq(bytes, first + 1, last)) = width
      BY <3>2, <3>4, <3>5, SubSeqProperties
    <3> QED
      BY <3>6 DEF first, last, width
  <2> QED
    BY <2>1 DEF IsHeader, ReadHeader
<1>7. IsDhcp(p) /\ p.header = ReadHeader(bytes) /\ p.options = options
  BY <1>3, <1>5, <1>6 DEF IsDhcp
<1>8. Len(WriteDhcp(p)) = HeaderSize + Len(WriteOptions(options))
  <2>1. WriteOptions(options) \in Bytes
    BY <1>5, NoBytes, OptionsRead
  <2>2. FlattenSeq(p.header) \in Bytes /\ Len(FlattenSeq(p.header)) = HeaderSize
    BY <1>6, <1>7, <2>1, HeaderRead
  <2> QED
    BY <1>7, <2>1, <2>2, Joining DEF WriteDhcp
<1>9. Len(WriteOptions(options)) \in Nat
  BY <1>5, NoBytes, OptionsRead, Joining
<1> QED
  BY <1>1, <1>5, <1>7, <1>8, <1>9

-----------------------------------------------------------------------------
(* An offer and what it says                                                   *)

(* A value in its field has the size of the field, and zeros behind the        *)
(* value.                                                                      *)
LEMMA PaddedIs ==
  ASSUME NEW bytes \in Bytes, NEW size \in Nat, Len(bytes) <= size
  PROVE  /\ Padded(bytes, size) \in Bytes /\ Len(Padded(bytes, size)) = size
         /\ Says(Padded(bytes, size), bytes)
<1> DEFINE zeros == [i \in 1..size-Len(bytes) |-> 0]
           padded == bytes \o zeros
<1>1. Len(bytes) \in Nat /\ size - Len(bytes) \in Nat
  BY Joining
<1>2. zeros \in Seq(Byte) /\ Len(zeros) = size - Len(bytes)
  <2> DEFINE n == size - Len(bytes)
  <2>1. 0 \in Byte /\ n \in Nat
    BY <1>1 DEF Byte
  <2> HIDE DEF n
  <2>2. [i \in 1..n |-> 0] \in Seq(Byte) /\ Len([i \in 1..n |-> 0]) = n
    BY <2>1
  <2> QED
    BY <2>2 DEF n
<1>3. \A i \in 1..Len(zeros) : zeros[i] = 0
  BY <1>2
<1> HIDE DEF zeros
<1>4. padded \in Bytes /\ Len(padded) = Len(bytes) + Len(zeros)
  BY <1>2, Joining DEF Bytes
<1>5. Len(padded) = size
  <2>1. \A l \in Nat : l + (size - l) = size
    OBVIOUS
  <2> QED
    BY <1>1, <1>2, <1>4, <2>1, Zenon
<1>6. IsPrefix(bytes, padded)
  <2>1. \A i \in 1..Len(bytes) : (bytes \o zeros)[i] = bytes[i]
    BY <1>2, Rest DEF Bytes
  <2>2. Len(bytes) <= Len(padded)
    BY <1>5
  <2> HIDE DEF padded
  <2>3. SubSeq(padded, 1, Len(bytes)) = [i \in 1..Len(bytes) |-> padded[i]]
    BY <1>1, <1>4, <2>2, SubSeqProperties DEF Bytes
  <2>4. SubSeq(bytes, 1, Len(bytes)) = [i \in 1..Len(bytes) |-> bytes[i]]
    BY <1>1, SubSeqProperties DEF Bytes
  <2>5. \A i \in 1..Len(bytes) : padded[i] = bytes[i]
    BY <2>1 DEF padded
  <2> QED
    BY <2>2, <2>3, <2>4, <2>5 DEF IsPrefix
<1>7. \A i \in Len(bytes)+1..Len(padded) : padded[i] = 0
  <2> SUFFICES ASSUME NEW i \in Len(bytes)+1..Len(padded) PROVE padded[i] = 0
    OBVIOUS
  <2>1. i - Len(bytes) \in 1..Len(zeros) /\ Len(bytes) + (i - Len(bytes)) = i
    BY <1>1, <1>2, <1>5
  <2>2. \A k \in 1..Len(zeros) : (bytes \o (zeros \o <<>>))[Len(bytes) + k] = zeros[k]
    <3>1. \A k \in 1..Len(zeros) : ((bytes \o zeros) \o <<>>)[Len(bytes) + k] = zeros[k]
      BY <1>2, NoBytes, Middle DEF Bytes
    <3>2. (bytes \o zeros) \o <<>> = bytes \o zeros /\ zeros \o <<>> = zeros
      BY <1>2, <1>4, NoBytes DEF Bytes
    <3> QED
      BY <3>1, <3>2
  <2>3. zeros \o <<>> = zeros
    BY <1>2, NoBytes DEF Bytes
  <2> QED
    BY <1>3, <2>1, <2>2, <2>3
<1>8. Padded(bytes, size) = padded
  BY DEF Padded, zeros
<1> HIDE DEF padded
<1> QED
  BY <1>4, <1>5, <1>6, <1>7, <1>8 DEF Says

(* The room of an option is less than 256 bytes.                               *)
LEMMA SizeIs == \A code : Size(code) \in 0..255 /\ Size(code) \in Nat /\ Size(code) <= 255
  BY WireAssumption DEF Size

(* Addresses and times have four bytes.                                        *)
LEMMA ConstantsAre ==
  /\ Address \in Bytes /\ Len(Address) = 4
  /\ Seconds \in Bytes /\ Len(Seconds) = 4
  BY DEF Address, Seconds, Bytes, Byte

(* The options of a section.                                                   *)
LEMMA TableIs ==
  ASSUME NEW settings \in Settings, Table(settings) # Throws
  PROVE  /\ IsTable(Table(settings)) /\ DOMAIN Table(settings) = Provided
         /\ \A code \in Provided : /\ Len(Value(settings, code)) <= Size(code)
                                   /\ Says(Table(settings)[code], Value(settings, code))
<1> DEFINE table == [code \in Provided |-> Padded(Value(settings, code), Size(code))]
<1>1. \A code \in Provided : Len(Value(settings, code)) <= Size(code)
  BY Zenon DEF Table
<1>2. Table(settings) = table
  BY <1>1, Zenon DEF Table
<1>3. /\ settings.server_host_name \in Bytes /\ settings.domain_name \in Bytes
      /\ settings.boot_file_name \in Bytes
  BY WireAssumption
<1>4. \A code : Value(settings, code) \in Bytes
  BY <1>3, ConstantsAre DEF Value
<1>5. ASSUME NEW code \in Provided
      PROVE  /\ table[code] \in Seq(Byte) /\ Len(table[code]) <= 255
             /\ Says(table[code], Value(settings, code))
  <2> DEFINE value == Value(settings, code)
             size == Size(code)
  <2>1. value \in Bytes /\ size \in Nat /\ size <= 255 /\ Len(value) <= size
    BY <1>1, <1>4, SizeIs
  <2>2. table[code] = Padded(value, size)
    OBVIOUS
  <2> HIDE DEF value, size, table
  <2>3. Padded(value, size) \in Bytes /\ Len(Padded(value, size)) = size /\ Says(Padded(value, size), value)
    BY <2>1, PaddedIs
  <2> QED
    BY <2>1, <2>2, <2>3 DEF Bytes, value
<1>6. DOMAIN table = Provided /\ Provided \subseteq Codes
  BY DEF Provided, Codes
<1>7. table \in [Provided -> Seq(Byte)]
  BY <1>5
<1> HIDE DEF table
<1>8. IsTable(table)
  BY <1>5, <1>6, <1>7 DEF IsTable
<1> QED
  BY <1>1, <1>2, <1>5, <1>6, <1>8

(* A table with what another one has of some codes, any codes, is a table.     *)
LEMMA Assigned ==
  ASSUME NEW table, IsTable(table), NEW from, IsTable(from), NEW which
  PROVE  IsTable(Copied(table, from, which))
<1>1. /\ \A code \in DOMAIN table : code \in Codes /\ table[code] \in Seq(Byte) /\ Len(table[code]) <= 255
      /\ \A code \in DOMAIN from : code \in Codes /\ from[code] \in Seq(Byte) /\ Len(from[code]) <= 255
  BY DEF IsTable
<1> QED
  BY <1>1 DEF IsTable, Copied

(* The answer to a client has, byte by byte, a header of the right size.       *)
LEMMA OfferHeaderIs ==
  ASSUME NEW settings \in Settings, Table(settings) # Throws
  PROVE  IsHeader(OfferHeader(settings))
<1> DEFINE hardware == <<0, 28, 126, 53, 237, 32>>
           client == Padded(hardware, 16)
           server == Text(64, settings.server_host_name)
           file == Text(128, settings.boot_file_name)
           header == OfferHeader(settings)
<1>1. client \in Bytes /\ Len(client) = 16
  <2>1. hardware \in Bytes /\ Len(hardware) = 6
    BY DEF Bytes, Byte
  <2> HIDE DEF hardware
  <2>2. 16 \in Nat /\ Len(hardware) <= 16
    BY <2>1
  <2> QED
    BY <2>1, <2>2, PaddedIs, Zenon
<1>2. /\ settings.server_host_name \in Bytes /\ Len(settings.server_host_name) <= 64
      /\ settings.boot_file_name \in Bytes /\ Len(settings.boot_file_name) <= 128
  <2>1. settings.server_host_name \in Bytes /\ settings.boot_file_name \in Bytes
    BY WireAssumption
  <2>2. Len(settings.server_host_name) \in Nat /\ Len(settings.boot_file_name) \in Nat
    BY <2>1, Joining
  <2>3. 12 \in Provided /\ 67 \in Provided
    BY DEF Provided
  <2>4. Len(Value(settings, 12)) <= Size(12) /\ Len(Value(settings, 67)) <= Size(67)
    BY <2>3, TableIs
  <2>5. Value(settings, 12) = settings.server_host_name /\ Value(settings, 67) = settings.boot_file_name
    BY DEF Value
  <2>6. Size(12) = SizeofString /\ Size(67) = SizeofString /\ SizeofString \in 0..64
    BY WireAssumption DEF Size
  <2> QED
    BY <2>1, <2>2, <2>4, <2>5, <2>6
<1>3. server \in Bytes /\ Len(server) = 64 /\ file \in Bytes /\ Len(file) = 128
  <2>1. server = Padded(settings.server_host_name, 64) /\ file = Padded(settings.boot_file_name, 128)
    BY <1>2, Zenon DEF Text
  <2>2. 64 \in Nat /\ 128 \in Nat
    OBVIOUS
  <2> DEFINE name == settings.server_host_name
             path == settings.boot_file_name
  <2>3. name \in Bytes /\ Len(name) <= 64 /\ path \in Bytes /\ Len(path) <= 128
    BY <1>2
  <2> HIDE DEF name, path
  <2>4. Padded(name, 64) \in Bytes /\ Len(Padded(name, 64)) = 64
    BY <2>2, <2>3, PaddedIs
  <2>5. Padded(path, 128) \in Bytes /\ Len(Padded(path, 128)) = 128
    BY <2>2, <2>3, PaddedIs
  <2> QED
    BY <2>1, <2>4, <2>5, Zenon DEF name, path
<1>4. /\ <<2>> \in Bytes /\ <<1>> \in Bytes /\ <<6>> \in Bytes /\ <<0>> \in Bytes
      /\ <<1, 2, 3, 4>> \in Bytes /\ <<0, 5>> \in Bytes /\ <<128, 0>> \in Bytes
      /\ Len(<<2>>) = 1 /\ Len(<<1>>) = 1 /\ Len(<<6>>) = 1 /\ Len(<<0>>) = 1
      /\ Len(<<1, 2, 3, 4>>) = 4 /\ Len(<<0, 5>>) = 2 /\ Len(<<128, 0>>) = 2
  BY DEF Bytes, Byte
<1>5. header = <<<<2>>, <<1>>, <<6>>, <<0>>, <<1, 2, 3, 4>>, <<0, 5>>, <<128, 0>>,
                 Address, Address, Address, Address, client, server, file>>
  BY Zenon DEF OfferHeader
<1> HIDE DEF client, server, file
<1>6. header \in Seq(Bytes) /\ Len(header) = 14
  BY <1>1, <1>3, <1>4, <1>5, ConstantsAre
<1>7. header \in [1..14 -> Bytes]
  <2>1. header \in [1..Len(header) -> Bytes]
    BY <1>6, LenProperties, Zenon
  <2> QED
    BY <1>6, <2>1, Zenon
<1>8. \A k \in 1..14 : Len(header[k]) = Width[k]
  <2>1. /\ header[1] = <<2>> /\ header[2] = <<1>> /\ header[3] = <<6>> /\ header[4] = <<0>>
        /\ header[5] = <<1, 2, 3, 4>> /\ header[6] = <<0, 5>> /\ header[7] = <<128, 0>>
        /\ header[8] = Address /\ header[9] = Address /\ header[10] = Address /\ header[11] = Address
        /\ header[12] = client /\ header[13] = server /\ header[14] = file
    BY <1>5
  <2>2. /\ Width[1] = 1 /\ Width[2] = 1 /\ Width[3] = 1 /\ Width[4] = 1
        /\ Width[5] = 4 /\ Width[6] = 2 /\ Width[7] = 2
        /\ Width[8] = 4 /\ Width[9] = 4 /\ Width[10] = 4 /\ Width[11] = 4
        /\ Width[12] = 16 /\ Width[13] = 64 /\ Width[14] = 128
    BY DEF Width
  <2>3. \A k \in 1..14 : k \in {1, 2, 3, 4, 5, 6, 7, 8, 9, 10, 11, 12, 13, 14}
    OBVIOUS
  <2> HIDE DEF header
  <2>4. /\ Len(header[1]) = Width[1] /\ Len(header[2]) = Width[2] /\ Len(header[3]) = Width[3]
        /\ Len(header[4]) = Width[4] /\ Len(header[5]) = Width[5] /\ Len(header[6]) = Width[6]
        /\ Len(header[7]) = Width[7]
    BY <1>4, <2>1, <2>2, Zenon
  <2>5. /\ Len(header[8]) = Width[8] /\ Len(header[9]) = Width[9] /\ Len(header[10]) = Width[10]
        /\ Len(header[11]) = Width[11] /\ Len(header[12]) = Width[12] /\ Len(header[13]) = Width[13]
        /\ Len(header[14]) = Width[14]
    BY <1>1, <1>3, <2>1, <2>2, ConstantsAre, Zenon
  <2>6. \A k \in {1, 2, 3, 4, 5, 6, 7, 8, 9, 10, 11, 12, 13, 14} : Len(header[k]) = Width[k]
    BY <2>4, <2>5, Zenon
  <2> QED
    BY <2>3, <2>6, Zenon
<1> QED
  BY <1>7, <1>8 DEF IsHeader, Bytes

(* The request of a client, written and read, is the client's request.         *)
LEMMA AskingIs ==
  ASSUME NEW message \in {1, 3}, NEW codes \in Asked
  PROVE  /\ IsTable(Asking(message, codes)) /\ MessageType(Asking(message, codes)) = message
         /\ RequestedParameters(Asking(message, codes)) = ToSet(codes)
         /\ Asks(message, codes) = {Asking(message, codes)}
<1> DEFINE table == Asking(message, codes)
<1>1. DOMAIN table = {53, 55} /\ table[53] = <<message>> /\ table[55] = codes
  BY DEF Asking
<1>2. codes \in Seq(Byte) /\ Len(codes) <= 255
  BY WireAssumption DEF Bytes
<1>3. <<message>> \in Seq(Byte) /\ Len(<<message>>) <= 255 /\ <<message>> # <<>> /\ <<message>>[1] = message
  BY DEF Byte
<1>4. table \in [DOMAIN table -> Seq(Byte)]
  BY <1>2, <1>3 DEF Asking
<1> HIDE DEF table
<1>5. IsTable(table)
  <2>1. DOMAIN table \subseteq Codes
    BY <1>1 DEF Codes
  <2> QED
    BY <1>1, <1>2, <1>3, <1>4, <2>1 DEF IsTable
<1>6. MessageType(table) = message /\ RequestedParameters(table) = ToSet(codes)
  BY <1>1, <1>3 DEF MessageType, RequestedParameters
<1>7. ReadOptions(WriteOptions(table), 1) = {table}
  <2>1. WriteOptions(table) \in Bytes /\ ReadOptions(<<>> \o WriteOptions(table), Len(<<>>) + 1) = {table}
    BY <1>5, NoBytes, OptionsRead
  <2>2. <<>> \o WriteOptions(table) = WriteOptions(table) /\ Len(<<>>) + 1 = 1
    BY <2>1, NoBytes
  <2> QED
    BY <2>1, <2>2
<1> QED
  BY <1>5, <1>6, <1>7 DEF table, Asks

(* An answer, if there is one, is a packet that can be written, of the type    *)
(* that goes with the message, and has every option of the section that was    *)
(* asked for, whatever other codes are in the list.                            *)
LEMMA OfferIs ==
  ASSUME NEW settings \in Settings, Table(settings) # Throws,
         NEW message \in {1, 3}, NEW codes \in Asked,
         NEW p \in Offers(settings, Asking(message, codes))
  PROVE  /\ IsDhcp(p)
         /\ p.options[53] = <<IF message = 1 THEN 2 ELSE 5>>
         /\ \A code \in Provided :
              code \in ToSet(codes) => Says(p.options[code], Value(settings, code))
<1> DEFINE request == Asking(message, codes)
           table == Table(settings)
           asked_for == Copied(Empty, table, RequestedParameters(request))
           always == Copied(asked_for, table, {54, 51, 58, 59, 7, 15})
           type == IF MessageType(request) = Discover THEN OfferType ELSE Ack
           options == Set(always, 53, 1, <<type>>)
<1>1. p = [header |-> OfferHeader(settings), options |-> options]
  BY Zenon DEF Offers, AssignOptions
<1>2. IsTable(table) /\ DOMAIN table = Provided
  BY TableIs
<1>3. RequestedParameters(request) = ToSet(codes) /\ MessageType(request) = message
  BY AskingIs
<1>4. type = (IF message = 1 THEN 2 ELSE 5)
  BY <1>3 DEF Discover, OfferType, Ack
<1> HIDE DEF request, table, type
<1>5. IsTable(asked_for)
  BY <1>2, MoreTables, TablesAre, Assigned
<1>6. \A code \in Provided : code \in ToSet(codes) => code \in DOMAIN asked_for /\ asked_for[code] = table[code]
  BY <1>2, <1>3 DEF Copied
<1> HIDE DEF asked_for
<1>7. IsTable(always)
  BY <1>2, <1>5, Assigned
<1>8. \A code \in Provided : code \in ToSet(codes) => code \in DOMAIN always /\ always[code] = table[code]
  BY <1>2, <1>6 DEF Copied
<1> HIDE DEF always
<1>9. <<type>> \in Bytes /\ Len(<<type>>) = 1
  BY <1>4 DEF Bytes, Byte
<1>10. Padded(<<type>>, 1) = <<type>>
  <2>1. [i \in 1..1-Len(<<type>>) |-> 0] = <<>>
    <3>1. 1..1-Len(<<type>>) = {}
      BY <1>9
    <3> QED
      BY <3>1
  <2>2. <<type>> \o <<>> = <<type>>
    BY <1>9, NoBytes
  <2> QED
    BY <2>1, <2>2, Zenon DEF Padded
<1>11. options = With(always, 53, <<type>>)
  <2>1. Len(<<type>>) <= 1
    BY <1>9
  <2> QED
    BY <1>10, <2>1, Zenon DEF Set
<1> HIDE DEF options
<1>12. IsTable(options)
  <2>1. 53 \in Codes /\ <<type>> \in Values
    BY <1>9 DEF Codes, Values
  <2> QED
    BY <1>7, <1>11, <2>1, MoreTables, TablesAre
<1>13. options[53] = <<type>>
  BY <1>11 DEF With
<1>14. ASSUME NEW code \in Provided, code \in ToSet(codes)
       PROVE  Says(options[code], Value(settings, code))
  <2>1. code # 53
    BY DEF Provided
  <2>2. options[code] = table[code]
    BY <1>8, <1>11, <1>14, <2>1 DEF With
  <2> QED
    BY <2>2, TableIs DEF table
<1>15. IsHeader(OfferHeader(settings))
  BY OfferHeaderIs
<1>16. p.options = options /\ IsDhcp(p)
  BY <1>1, <1>12, <1>15 DEF IsDhcp
<1> QED
  BY <1>4, <1>13, <1>14, <1>16

-----------------------------------------------------------------------------
(* The packet and the wire                                                     *)

Read == IF protocol = "tftp" THEN ReadTftp(wire) ELSE ReadDhcp(wire)

(* The packet is one that can be written and the wire has what was written of  *)
(* it, for an offer from the settings and the request it is said to be from.   *)
(* The process has ended only over a code that was asked for.                  *)
WireInv ==
  /\ protocol \in {"tftp", "dhcp", "ended"}
  /\ wire # Nothing => wire \in Bytes
  /\ wire = Nothing => packet = Nothing /\ heard = Nothing
  /\ wire = Nothing /\ protocol # "ended" => asked = Nothing
  /\ heard # Nothing => heard = Read
  /\ packet # Nothing =>
       IF protocol = "tftp" THEN IsPacket(packet) /\ wire \in TftpWritings(packet)
       ELSE IsDhcp(packet) /\ wire = WriteDhcp(packet)
  /\ asked # Nothing =>
       /\ protocol # "tftp"
       /\ asked.settings \in Settings /\ Table(asked.settings) # Throws
       /\ asked.codes \in Asked /\ asked.message \in {1, 3}
       /\ protocol = "dhcp" =>
            /\ wire = WriteDhcp(packet)
            /\ packet \in Offers(asked.settings, Asking(asked.message, asked.codes))
  /\ protocol = "ended" => wire = Nothing /\ OutOfBounds(ToSet(asked.codes))

(* Every step keeps it.                                                        *)
LEMMA WireSound == WireSpec => []WireInv
<1>1. WireInit => WireInv
  BY DEF WireInit, WireInv
<1>2. WireInv /\ [WireNext]_wireVars => WireInv'
  <2> SUFFICES ASSUME WireInv, [WireNext]_wireVars PROVE WireInv'
    OBVIOUS
  <2>1. CASE SendTftp
    <3>1. /\ protocol = "tftp" /\ protocol' = protocol /\ IsPacket(packet')
          /\ wire' \in TftpWritings(packet') /\ asked' = Nothing /\ heard' = Nothing
      BY <2>1, WireAssumption DEF SendTftp, WireInv
    <3>2. wire' \in Bytes
      BY <3>1, TftpWritten DEF Reads
    <3>3. wire' # Nothing
      BY <3>2, WireAssumption
    <3> QED
      BY <3>1, <3>2, <3>3 DEF WireInv
  <2>2. CASE SendOffer
    <3>1. PICK settings \in Settings, codes \in Asked, message \in {1, 3} :
            /\ Table(settings) # Throws
            /\ asked' = [settings |-> settings, codes |-> codes, message |-> message]
            /\ \E request \in Asks(message, codes) : packet' \in Offers(settings, request)
      BY <2>2 DEF SendOffer, Discover, RequestType
    <3>2. /\ protocol = "dhcp" /\ protocol' = protocol /\ heard' = Nothing
          /\ wire' = WriteDhcp(packet')
      BY <2>2 DEF SendOffer, WireInv
    <3>3. packet' \in Offers(settings, Asking(message, codes))
      BY <3>1, AskingIs
    <3>4. IsDhcp(packet')
      BY <3>1, <3>3, OfferIs
    <3>5. wire' \in Bytes
      BY <3>2, <3>4, DhcpWritten
    <3>6. wire' # Nothing
      BY <3>5, WireAssumption
    <3>7. asked'.settings = settings /\ asked'.codes = codes /\ asked'.message = message
      BY <3>1
    <3> QED
      BY <3>1, <3>2, <3>3, <3>4, <3>5, <3>6, <3>7 DEF WireInv
  <2>3. CASE Arrive
    <3>1. wire' \in Bytes
      <4>1. CASE protocol = "tftp"
        BY <2>3, <4>1, WireAssumption DEF Arrive
      <4>2. CASE protocol # "tftp"
        <5>1. PICK bytes \in OptionBytes : wire' = [i \in 1..HeaderSize |-> i % 256] \o bytes
          BY <2>3, <4>2 DEF Arrive
        <5>2. \A i \in Nat : i % 256 \in Byte
          BY DEF Byte
        <5>3. HeaderSize \in Nat /\ \A i \in 1..HeaderSize : i \in Nat
          BY EndsAre
        <5>4. [i \in 1..HeaderSize |-> i % 256] \in Bytes
          BY <5>2, <5>3 DEF Bytes
        <5>5. bytes \in Bytes
          BY WireAssumption
        <5> QED
          BY <5>1, <5>4, <5>5, Joining
      <4> QED
        BY <4>1, <4>2
    <3>2. wire' # Nothing
      BY <3>1, WireAssumption
    <3>3. /\ packet' = Nothing /\ heard' = Nothing /\ asked' = Nothing
          /\ protocol \in {"tftp", "dhcp"} /\ protocol' = protocol
      BY <2>3 DEF Arrive, WireInv
    <3> QED
      BY <3>1, <3>2, <3>3 DEF WireInv
  <2>4. CASE Receive
    <3>1. /\ heard' = Read /\ wire # Nothing
          /\ protocol' = protocol /\ asked' = asked /\ packet' = packet /\ wire' = wire
      BY <2>4 DEF Receive, Read
    <3>2. Read' = Read
      BY <3>1 DEF Read
    <3> QED
      BY <3>1, <3>2 DEF WireInv
  <2>5. CASE Overrun
    <3>1. PICK settings \in Settings, codes \in Asked, message \in {1, 3} :
            /\ Table(settings) # Throws
            /\ asked' = [settings |-> settings, codes |-> codes, message |-> message]
            /\ \E request \in Asks(message, codes) : OutOfBounds(RequestedParameters(request))
      BY <2>5 DEF Overrun, Discover, RequestType
    <3>2. OutOfBounds(ToSet(codes))
      BY <3>1, AskingIs
    <3>3. /\ protocol' = "ended" /\ wire' = Nothing /\ packet' = Nothing /\ heard' = Nothing
          /\ asked'.settings = settings /\ asked'.codes = codes /\ asked'.message = message
      BY <2>5, <3>1 DEF Overrun, WireInv
    <3> QED
      BY <3>1, <3>2, <3>3 DEF WireInv
  <2>6. CASE UNCHANGED wireVars
    BY <2>6 DEF wireVars, WireInv, Read
  <2> QED
    BY <2>1, <2>2, <2>3, <2>4, <2>5, <2>6 DEF WireNext
<1> QED
  BY <1>1, <1>2, PTL DEF WireSpec

(* What one of the writers wrote, its reader gets back and nothing else:       *)
(* packets of any length, in whatever order the options of a TFTP packet come. *)
THEOREM WrittenIsRead == WireSpec => []RoundTrip
<1>1. WireInv => RoundTrip
  <2> SUFFICES ASSUME WireInv, packet # Nothing, heard # Nothing PROVE heard = {packet}
    BY DEF RoundTrip
  <2>1. CASE protocol = "tftp"
    <3>1. IsPacket(packet) /\ wire \in TftpWritings(packet) /\ heard = ReadTftp(wire)
      BY <2>1 DEF WireInv, Read
    <3> QED
      BY <3>1, TftpWritten DEF Reads
  <2>2. CASE protocol # "tftp"
    <3>1. IsDhcp(packet) /\ wire = WriteDhcp(packet) /\ heard = ReadDhcp(wire)
      BY <2>2 DEF WireInv, Read
    <3> QED
      BY <3>1, DhcpWritten
  <2> QED
    BY <2>1, <2>2
<1> QED
  BY <1>1, WireSound, PTL

(* The size hint of a packet is how many bytes are written, whatever order     *)
(* either goes in, so that the 128 bytes serialize_to_vector adds to it are    *)
(* never needed.                                                               *)
THEOREM RoomIsExact == WireSpec => []HintIsSize
<1>1. WireInv => HintIsSize
  <2> SUFFICES ASSUME WireInv, packet # Nothing
               PROVE  IF protocol = "tftp"
                      THEN \A order \in Orders(packet) : Len(wire) = TftpSizeHint(packet, order)
                      ELSE Len(wire) = DhcpSizeHint(packet)
    BY DEF HintIsSize
  <2>1. CASE protocol = "tftp"
    <3>1. IsPacket(packet) /\ wire \in TftpWritings(packet)
      BY <2>1 DEF WireInv
    <3>2. Reads(packet, wire)
      BY <3>1, TftpWritten
    <3> QED
      BY <2>1, <3>2 DEF Reads
  <2>2. CASE protocol # "tftp"
    <3>1. IsDhcp(packet) /\ wire = WriteDhcp(packet)
      BY <2>2 DEF WireInv
    <3> QED
      BY <2>2, <3>1, DhcpWritten
  <2> QED
    BY <2>1, <2>2
<1> QED
  BY <1>1, WireSound, PTL

(* Whatever bytes arrive, what a reader takes of them can be written again: in *)
(* no more bytes than it came in, and as something that reads the same.        *)
THEOREM ReadIsNormal == WireSpec => []NormalForm
<1>1. WireInv => NormalForm
  <2> SUFFICES ASSUME WireInv, heard # Nothing, NEW p \in heard
               PROVE  IF protocol = "tftp"
                      THEN p = EmptyPacket \/
                           \A bytes \in TftpWritings(p) : Len(bytes) <= Len(wire) /\ ReadTftp(bytes) = {p}
                      ELSE /\ Len(WriteDhcp(p)) <= Len(wire) \/ DOMAIN p.options = {}
                           /\ ReadDhcp(WriteDhcp(p)) = {p}
    BY DEF NormalForm
  <2>1. wire \in Bytes /\ p \in Read
    BY DEF WireInv
  <2>2. CASE protocol = "tftp"
    <3>1. p = EmptyPacket \/ Within(p, Len(wire))
      BY <2>1, <2>2, TftpRead DEF Read
    <3>2. ASSUME Within(p, Len(wire)), NEW bytes \in TftpWritings(p)
          PROVE  Len(bytes) <= Len(wire) /\ ReadTftp(bytes) = {p}
      <4>1. IsPacket(p) /\ \A order \in Orders(p) : TftpSizeHint(p, order) <= Len(wire)
        BY <3>2 DEF Within
      <4>2. PICK order \in Orders(p) : bytes = Uint16(Opcode[p.kind]) \o WritePayload(p, order)
        BY DEF TftpWritings
      <4>3. ReadTftp(bytes) = {p} /\ Len(bytes) = TftpSizeHint(p, order)
        BY <4>1, TftpWritten DEF Reads
      <4> QED
        BY <4>1, <4>3
    <3> QED
      BY <2>2, <3>1, <3>2
  <2>3. CASE protocol # "tftp"
    <3>1. IsDhcp(p) /\ (DOMAIN p.options = {} \/ Len(WriteDhcp(p)) <= Len(wire))
      BY <2>1, <2>3, DhcpRead DEF Read
    <3>2. ReadDhcp(WriteDhcp(p)) = {p}
      BY <3>1, DhcpWritten
    <3> QED
      BY <2>3, <3>1, <3>2
  <2> QED
    BY <2>2, <2>3
<1> QED
  BY <1>1, WireSound, PTL

(* A client is told what it asked for, from make_offer through both codecs to  *)
(* the options the client reads, whatever the settings that fit and the list,  *)
(* any bytes. It is left without an answer only if 0 or 255 is in the list.    *)
THEOREM ClientIsTold == WireSpec => []AskedIsHeard
<1>1. WireInv => AskedIsHeard
  <2>0. CASE protocol = "ended"
    BY <2>0 DEF WireInv, OutOfBounds, AskedIsHeard
  <2> SUFFICES ASSUME WireInv, asked # Nothing, heard # Nothing, protocol # "ended"
               PROVE  AskedIsHeard
    BY <2>0 DEF AskedIsHeard
  <2> DEFINE settings == asked.settings
             said(code, name) == code \in ToSet(asked.codes) => Says(packet.options[code], name)
  <2>1. /\ settings \in Settings /\ Table(settings) # Throws
        /\ asked.codes \in Asked /\ asked.message \in {1, 3}
        /\ packet \in Offers(settings, Asking(asked.message, asked.codes))
        /\ wire = WriteDhcp(packet) /\ heard = ReadDhcp(wire)
    BY DEF WireInv, Read
  <2>2. /\ IsDhcp(packet)
        /\ packet.options[53] = <<IF asked.message = 1 THEN 2 ELSE 5>>
        /\ \A code \in Provided : said(code, Value(settings, code))
    BY <2>1, OfferIs
  <2>3. packet \in heard
    BY <2>1, <2>2, DhcpWritten
  <2>4. <<asked.message, packet.options[53]>> \in {<<1, <<2>>>>, <<3, <<5>>>>}
    BY <2>1, <2>2
  <2>5. /\ 12 \in Provided /\ 15 \in Provided /\ 67 \in Provided
        /\ Value(settings, 12) = settings.server_host_name
        /\ Value(settings, 15) = settings.domain_name
        /\ Value(settings, 67) = settings.boot_file_name
    BY DEF Provided, Value
  <2>6. /\ said(12, settings.server_host_name)
        /\ said(15, settings.domain_name)
        /\ said(67, settings.boot_file_name)
    BY <2>2, <2>5
  <2> QED
    BY <2>3, <2>4, <2>6 DEF AskedIsHeard
<1> QED
  BY <1>1, WireSound, PTL
===============================================================================
