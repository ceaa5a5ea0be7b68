----------------------------- MODULE ListProofs -----------------------------
(***************************************************************************)
(* What the operations of Lists return.                                    *)
(***************************************************************************)
EXTENDS Lists, SequenceTheorems, FunctionTheorems, FiniteSetTheorems, TLAPS

Rank(K, i) == Cardinality({j \in K : j <= i})

\* The rank of a position in a set of positions, and that it identifies it.
LEMMA RankProperties ==
  ASSUME NEW n \in Nat, NEW K \in SUBSET (1 .. n)
  PROVE  /\ IsFiniteSet(K)
         /\ Cardinality(K) \in Nat
         /\ \A i \in K : Rank(K, i) \in 1 .. Cardinality(K)
         /\ \A i, j \in K : Rank(K, i) = Rank(K, j) => i = j
         /\ \A i, j \in K : i <= j => Rank(K, i) <= Rank(K, j)
<1> DEFINE UpTo(i) == {j \in K : j <= i}
<1>1. IsFiniteSet(K) /\ Cardinality(K) \in Nat
  <2>1. IsFiniteSet(1 .. n)
    BY FS_Interval
  <2>2. IsFiniteSet(K)
    BY <2>1, FS_Subset
  <2> QED
    BY <2>2, FS_CardinalityType
<1>2. K \subseteq Nat
  OBVIOUS
<1>3. ASSUME NEW i \in K
      PROVE  IsFiniteSet(UpTo(i)) /\ Rank(K, i) \in 1 .. Cardinality(K)
  <2>1. IsFiniteSet(UpTo(i)) /\ Cardinality(UpTo(i)) <= Cardinality(K)
    BY <1>1, FS_Subset
  <2>2. i \in UpTo(i)
    BY <1>2
  <2>3. Cardinality(UpTo(i)) \in Nat /\ Cardinality(UpTo(i)) # 0
    BY <2>1, <2>2, FS_CardinalityType, FS_EmptySet
  <2> QED
    BY <1>1, <2>1, <2>3 DEF Rank
<1>4. ASSUME NEW i \in K, NEW j \in K, i < j
      PROVE  Rank(K, i) # Rank(K, j)
  <2>1. ASSUME NEW x \in K, x <= i PROVE x <= j
    <3>1. x \in Nat /\ i \in Nat /\ j \in Nat
      BY <1>2
    <3> QED
      BY <1>4, <2>1, <3>1
  <2>2. j \in UpTo(j)
    BY <1>2
  <2>3. j \notin UpTo(i)
    BY <1>2, <1>4
  <2>4. IsFiniteSet(UpTo(j))
    BY <1>3
  <2>5. UpTo(i) \subseteq UpTo(j)
    BY <2>1
  <2> HIDE DEF UpTo
  <2>6. Cardinality(UpTo(j)) # Cardinality(UpTo(i))
    BY <2>2, <2>3, <2>4, <2>5, FS_Subset
  <2> QED
    BY <2>6 DEF Rank, UpTo
<1>5. ASSUME NEW i \in K, NEW j \in K, Rank(K, i) = Rank(K, j) PROVE i = j
  <2>1. ~(i < j) /\ ~(j < i)
    BY <1>4, <1>5
  <2> QED
    BY <1>2, <2>1
<1>6. ASSUME NEW i \in K, NEW j \in K, i <= j PROVE Rank(K, i) <= Rank(K, j)
  <2>1. ASSUME NEW x \in K, x <= i PROVE x <= j
    <3>1. x \in Nat /\ i \in Nat /\ j \in Nat
      BY <1>2
    <3> QED
      BY <1>6, <2>1, <3>1
  <2>2. IsFiniteSet(UpTo(j))
    BY <1>3
  <2>3. UpTo(i) \subseteq UpTo(j)
    BY <2>1
  <2> HIDE DEF UpTo
  <2>4. Cardinality(UpTo(i)) <= Cardinality(UpTo(j))
    BY <2>2, <2>3, FS_Subset
  <2> QED
    BY <2>4 DEF Rank, UpTo
<1> QED
  BY <1>1, <1>3, <1>5, <1>6

\* In a set of n positions there is a first, a second, ... and an n-th.
LEMMA EveryRankTaken ==
  ASSUME NEW n \in Nat, NEW K \in SUBSET (1 .. n),
         NEW k \in 1 .. Cardinality(K)
  PROVE  \E i \in K : Rank(K, i) = k
<1> DEFINE f == [i \in K |-> Rank(K, i)]
           c == Cardinality(K)
<1>1. c \in Nat
  BY RankProperties
<1>2. f \in Injection(K, 1 .. c)
  <2>1. f \in [K -> 1 .. c]
    BY RankProperties
  <2>2. \A a, b \in K : f[a] = f[b] => a = b
    BY RankProperties
  <2> QED
    BY <2>1, <2>2, Fun_IsInj
<1>3. IsFiniteSet(1 .. c) /\ Cardinality(1 .. c) = c
  BY <1>1, FS_Interval
<1>4. f \in Surjection(K, 1 .. c)
  <2> HIDE DEF f, c
  <2>1. Cardinality(K) = Cardinality(1 .. c)
    BY <1>3 DEF c
  <2> QED
    BY <1>2, <1>3, <2>1, FS_Injection
<1>5. \A m \in 1 .. c : \E i \in K : f[i] = m
  <2> HIDE DEF f, c
  <2> QED
    BY <1>4, Fun_SurjectionProperties
<1> QED
  BY <1>5

\* A non-empty set of positions has a first one.
LEMMA FirstExists ==
  ASSUME NEW n \in Nat, NEW K \in SUBSET (1 .. n), K # {}
  PROVE  \E i \in K : \A j \in K : i <= j
<1>1. IsFiniteSet(K) /\ 1 \in 1 .. Cardinality(K) /\ K \subseteq Nat
  <2>1. IsFiniteSet(K) /\ Cardinality(K) \in Nat
    BY RankProperties
  <2>2. Cardinality(K) # 0
    BY <2>1, FS_EmptySet
  <2> QED
    BY <2>1, <2>2
<1>2. PICK i \in K : Rank(K, i) = 1
  BY <1>1, EveryRankTaken
<1>3. IsFiniteSet({j \in K : j <= i})
  BY <1>1, FS_Subset
<1>4. PICK x : {j \in K : j <= i} = {x}
  BY <1>2, <1>3, FS_Singleton DEF Rank
<1>5. ASSUME NEW j \in K PROVE i <= j
  <2>1. i \in {k \in K : k <= i}
    BY <1>1
  <2>2. j <= i => j = i
    BY <1>4, <2>1
  <2> QED
    BY <1>1, <2>2
<1> QED
  BY <1>5

-----------------------------------------------------------------------------
\* Keep enumerates the positions of K in increasing order, each of them once.
LEMMA KeepProperties ==
  ASSUME NEW S, NEW s \in Seq(S), NEW K \in SUBSET DOMAIN s
  PROVE  /\ Keep(s, K) \in Seq(S)
         /\ \E at \in [DOMAIN Keep(s, K) -> K] :
              /\ \A k \in DOMAIN Keep(s, K) : Keep(s, K)[k] = s[at[k]]
              /\ \A i \in K : \E k \in DOMAIN Keep(s, K) : at[k] = i
              /\ \A k, l \in DOMAIN Keep(s, K) : k < l => at[k] < at[l]
<1> DEFINE c == Cardinality(K)
           pos(k) == CHOOSE i \in K : Rank(K, i) = k
           at == [k \in 1 .. c |-> pos(k)]
           W == [k \in 1 .. c |-> s[pos(k)]]
<1>1. Len(s) \in Nat /\ DOMAIN s = 1 .. Len(s) /\ K \in SUBSET (1 .. Len(s))
  BY LenProperties
<1>2. Keep(s, K) = W
  BY DEF Keep, Rank
<1>3. c \in Nat /\ \A i \in K : Rank(K, i) \in 1 .. c
  BY <1>1, RankProperties
<1>4. ASSUME NEW k \in 1 .. c PROVE pos(k) \in K /\ Rank(K, pos(k)) = k
  <2>1. \E i \in K : Rank(K, i) = k
    BY <1>1, EveryRankTaken
  <2> QED
    BY <2>1
<1>5. ASSUME NEW i \in K PROVE pos(Rank(K, i)) = i
  BY <1>1, RankProperties
<1>6. ASSUME NEW k \in 1 .. c, NEW l \in 1 .. c, k < l PROVE pos(k) < pos(l)
  <2>1. pos(k) \in K /\ pos(l) \in K /\ Rank(K, pos(k)) = k /\ Rank(K, pos(l)) = l
    BY <1>4
  <2> HIDE DEF pos
  <2>2. pos(k) \in Nat /\ pos(l) \in Nat
    BY <1>1, <2>1
  <2>3. pos(l) <= pos(k) => Rank(K, pos(l)) <= Rank(K, pos(k))
    BY <1>1, <2>1, RankProperties
  <2>4. ~(pos(l) <= pos(k))
    BY <1>3, <1>6, <2>1, <2>3
  <2> QED
    BY <2>2, <2>4
<1> HIDE DEF pos, c
<1>7. W \in Seq(S)
  <2>1. \A k \in 1 .. c : s[pos(k)] \in S
    BY <1>1, <1>4, ElementOfSeq
  <2> QED
    BY <1>3, <2>1
<1>8. at \in [DOMAIN W -> K]
  BY <1>4
<1>9. \A i \in K : \E k \in DOMAIN W : at[k] = i
  BY <1>3, <1>5
<1>10. \A k, l \in DOMAIN W : k < l => at[k] < at[l]
  BY <1>6
<1>11. \A k \in DOMAIN W : W[k] = s[at[k]]
  OBVIOUS
<1> HIDE DEF at, W
<1> QED
  BY <1>2, <1>7, <1>8, <1>9, <1>10, <1>11

\* Without duplicates, a list is as long as the set of its elements is large.
LEMMA DistinctLength ==
  ASSUME NEW S, NEW s \in Seq(S), Distinct(s)
  PROVE  IsFiniteSet(Elements(s)) /\ Cardinality(Elements(s)) = Len(s)
<1> DEFINE D == 1 .. Len(s)
           E == Elements(s)
<1>1. Len(s) \in Nat /\ DOMAIN s = D /\ s = [i \in D |-> s[i]]
  BY LenProperties
<1>2. IsFiniteSet(D) /\ Cardinality(D) = Len(s)
  <2>1. ASSUME NEW n \in Nat PROVE IsFiniteSet(1 .. n) /\ Cardinality(1 .. n) = n
    <3>1. IsFiniteSet(1 .. n) /\ Cardinality(1 .. n) = IF 1 <= n THEN n - 1 + 1 ELSE 0
      BY FS_Interval
    <3> QED
      BY <3>1
  <2> QED
    BY <1>1, <2>1
<1>3. s \in [D -> E]
  BY <1>1 DEF Elements
<1>4. (\A a, b \in D : s[a] = s[b] => a = b) /\ \A x \in E : \E i \in D : s[i] = x
  BY <1>1 DEF Distinct, Elements
<1> HIDE DEF D, E
<1>5. s \in Bijection(D, E)
  BY <1>3, <1>4, Fun_IsBij
<1>6. ExistsBijection(D, E)
  BY <1>5 DEF ExistsBijection
<1>7. IsFiniteSet(E) /\ Cardinality(E) = Cardinality(D)
  BY <1>2, <1>6, FS_Bijection
<1> QED
  BY <1>2, <1>7 DEF E

\* list::remove takes out x and leaves the rest.
LEMMA RemoveProperties ==
  ASSUME NEW S, NEW s \in Seq(S), NEW x, Distinct(s)
  PROVE  /\ Remove(s, x) \in Seq(S)
         /\ Distinct(Remove(s, x))
         /\ Elements(Remove(s, x)) = Elements(s) \ {x}
<1> DEFINE K == {i \in DOMAIN s : s[i] # x}
           W == Keep(s, K)
<1>1. K \in SUBSET DOMAIN s /\ Remove(s, x) = W
  BY DEF Remove
<1>2. Len(s) \in Nat /\ DOMAIN s = 1 .. Len(s)
  BY LenProperties
<1> HIDE DEF K
<1>3. W \in Seq(S)
  BY <1>1, KeepProperties
<1>4. PICK at \in [DOMAIN W -> K] :
        /\ \A k \in DOMAIN W : W[k] = s[at[k]]
        /\ \A i \in K : \E k \in DOMAIN W : at[k] = i
        /\ \A k, l \in DOMAIN W : k < l => at[k] < at[l]
  BY <1>1, KeepProperties, SMTT(30)
<1> HIDE DEF W
<1>5. Len(W) \in Nat /\ DOMAIN W = 1 .. Len(W)
  BY <1>3, LenProperties
<1>6. ASSUME NEW k \in DOMAIN W, NEW l \in DOMAIN W, W[k] = W[l] PROVE k = l
  <2>1. at[k] = at[l]
    BY <1>1, <1>4, <1>6 DEF Distinct
  <2>2. at[k] \in Nat /\ at[l] \in Nat
    BY <1>1, <1>2, <1>4
  <2>3. ~(k < l) /\ ~(l < k)
    BY <1>4, <2>1, <2>2
  <2> QED
    BY <1>5, <2>3
<1>7. ASSUME NEW y PROVE y \in Elements(W) <=> y \in Elements(s) \ {x}
  <2>1. y \in Elements(W) => y \in Elements(s) \ {x}
    BY <1>4 DEF Elements, K
  <2>2. ASSUME y \in Elements(s) \ {x} PROVE y \in Elements(W)
    <3>1. PICK i \in K : s[i] = y
      BY <2>2 DEF Elements, K
    <3>2. PICK k \in DOMAIN W : at[k] = i
      BY <1>4
    <3> QED
      BY <1>4, <3>1, <3>2 DEF Elements
  <2> QED
    BY <2>1, <2>2
<1> QED
  BY <1>1, <1>3, <1>6, <1>7 DEF Distinct

\* list::push_front of an element the list does not have.
LEMMA PushFrontProperties ==
  ASSUME NEW S, NEW s \in Seq(S), NEW x \in S, Distinct(s), x \notin Elements(s)
  PROVE  /\ <<x>> \o s \in Seq(S)
         /\ Len(<<x>> \o s) = Len(s) + 1
         /\ Distinct(<<x>> \o s)
         /\ Elements(<<x>> \o s) = Elements(s) \cup {x}
<1> DEFINE W == <<x>> \o s
<1>1. <<x>> \in Seq(S) /\ Len(<<x>>) = 1 /\ <<x>>[1] = x
  OBVIOUS
<1>2. Len(s) \in Nat /\ DOMAIN s = 1 .. Len(s)
  BY LenProperties
<1>3. W \in Seq(S) /\ Len(W) = Len(s) + 1
  BY <1>1, <1>2, ConcatProperties
<1>4. \A i \in 1 .. 1 + Len(s) : W[i] = IF i <= 1 THEN x ELSE s[i - 1]
  BY <1>1, <1>2, ConcatProperties
<1> HIDE DEF W
<1>5. DOMAIN W = 1 .. Len(s) + 1
  BY <1>3, LenProperties
<1>6. W[1] = x /\ \A i \in DOMAIN s : i + 1 \in DOMAIN W /\ W[i + 1] = s[i]
  BY <1>2, <1>4, <1>5
<1>7. \A i \in DOMAIN W : i # 1 => i - 1 \in DOMAIN s /\ W[i] = s[i - 1]
  BY <1>2, <1>4, <1>5
<1>8. ASSUME NEW i \in DOMAIN W, NEW j \in DOMAIN W, W[i] = W[j] PROVE i = j
  <2>1. CASE i = 1 \/ j = 1
    BY <1>6, <1>7, <1>8, <2>1 DEF Elements
  <2>2. CASE i # 1 /\ j # 1
    <3>1. i - 1 = j - 1
      BY <1>7, <1>8, <2>2 DEF Distinct
    <3> QED
      BY <1>2, <1>5, <3>1
  <2> QED
    BY <2>1, <2>2
<1>9. ASSUME NEW y PROVE y \in Elements(W) <=> y \in Elements(s) \cup {x}
  <2>1. y \in Elements(W) => y \in Elements(s) \cup {x}
    BY <1>6, <1>7 DEF Elements
  <2>2. y = x => y \in Elements(W)
    BY <1>2, <1>5, <1>6 DEF Elements
  <2>3. y \in Elements(s) => y \in Elements(W)
    BY <1>6 DEF Elements
  <2> QED
    BY <2>1, <2>2, <2>3
<1> QED
  BY <1>3, <1>8, <1>9 DEF Distinct, W

\* What pop_back leaves: the first n elements.
LEMMA PrefixProperties ==
  ASSUME NEW S, NEW s \in Seq(S), NEW n \in 0 .. Len(s), Distinct(s)
  PROVE  /\ SubSeq(s, 1, n) \in Seq(S)
         /\ Len(SubSeq(s, 1, n)) = n
         /\ Distinct(SubSeq(s, 1, n))
         /\ Elements(SubSeq(s, 1, n)) = Elements(s) \ {s[i] : i \in n + 1 .. Len(s)}
<1> DEFINE W == SubSeq(s, 1, n)
<1>1. Len(s) \in Nat /\ DOMAIN s = 1 .. Len(s) /\ n \in Nat
  BY LenProperties
<1>2. \A i \in 1 .. n : s[i] \in S
  BY <1>1, ElementOfSeq
<1>3. W \in Seq(S) /\ Len(W) = n /\ \A i \in 1 .. n : W[i] = s[i]
  BY <1>1, <1>2, SubSeqProperties
<1> HIDE DEF W
<1>4. DOMAIN W = 1 .. n
  BY <1>3, LenProperties
<1>5. \A i, j \in DOMAIN W : W[i] = W[j] => i = j
  BY <1>1, <1>3, <1>4 DEF Distinct
<1>6. ASSUME NEW y
      PROVE  y \in Elements(W) <=> y \in Elements(s) \ {s[i] : i \in n + 1 .. Len(s)}
  <2>1. ASSUME y \in Elements(W) PROVE y \in Elements(s) \ {s[i] : i \in n + 1 .. Len(s)}
    <3>1. PICK k \in 1 .. n : s[k] = y
      BY <1>3, <1>4, <2>1 DEF Elements
    <3>2. \A i \in n + 1 .. Len(s) : s[i] # y
      BY <1>1, <3>1 DEF Distinct
    <3>3. y \in Elements(s)
      BY <1>1, <3>1 DEF Elements
    <3> QED
      BY <3>2, <3>3
  <2>2. ASSUME y \in Elements(s) \ {s[i] : i \in n + 1 .. Len(s)} PROVE y \in Elements(W)
    <3>1. PICK k \in 1 .. Len(s) : s[k] = y
      BY <1>1, <2>2 DEF Elements
    <3>2. k \notin n + 1 .. Len(s)
      BY <2>2, <3>1
    <3>3. k \in 1 .. n
      BY <1>1, <3>2
    <3> QED
      BY <1>3, <1>4, <3>1, <3>3 DEF Elements
  <2> QED
    BY <2>1, <2>2
<1> QED
  BY <1>3, <1>5, <1>6 DEF Distinct, W
=============================================================================
