------------------------- MODULE SubsequenceProofs -------------------------
(***************************************************************************)
(* What Keep returns: a sequence with the elements at the chosen           *)
(* positions, each once and in their order.                                *)
(***************************************************************************)
EXTENDS Subsequence, FiniteSetTheorems, TLAPS

LEMMA PositionsFinite ==
  ASSUME NEW S, NEW s \in Seq(S), NEW I \in SUBSET DOMAIN s
  PROVE  /\ IsFiniteSet(I) /\ Cardinality(I) \in 0 .. Len(s)
         /\ \A i \in I : {j \in I : j <= i} \in SUBSET I
<1>1. IsFiniteSet(1 .. Len(s)) /\ Cardinality(1 .. Len(s)) = Len(s)
  <2>1. Len(s) \in Nat
    OBVIOUS
  <2> QED BY <2>1, FS_Interval, SMTT(30)
<1>2. I \in SUBSET (1 .. Len(s))
  OBVIOUS
<1> QED BY <1>1, <1>2, FS_Subset, FS_CardinalityType

\* Ranks grow with the positions.
LEMMA RankGrows ==
  ASSUME NEW S, NEW s \in Seq(S), NEW I \in SUBSET DOMAIN s,
         NEW i \in I
  PROVE  /\ Rank(I, i) \in 1 .. Cardinality(I)
         /\ \A h \in I : h < i => Rank(I, h) < Rank(I, i)
<1> DEFINE Upto(x) == {j \in I : j <= x}
<1>1. IsFiniteSet(I) /\ Cardinality(I) \in Nat /\ I \subseteq Nat
  BY PositionsFinite
<1>2. /\ IsFiniteSet(Upto(i)) /\ Cardinality(Upto(i)) \in Nat
      /\ Cardinality(Upto(i)) <= Cardinality(I)
  <2>1. Upto(i) \in SUBSET I
    OBVIOUS
  <2> QED BY <1>1, <2>1, FS_Subset, FS_CardinalityType
<1>3. Cardinality(Upto(i)) # 0
  <2>1. i \in Upto(i)
    BY <1>1
  <2> QED BY <2>1, <1>2, FS_EmptySet
<1>4. ASSUME NEW h \in I, h < i
      PROVE  Cardinality(Upto(h)) < Cardinality(Upto(i))
  <2>1. Upto(h) \in SUBSET Upto(i)
    BY <1>1, <1>4
  <2>2. i \in Upto(i) /\ i \notin Upto(h)
    BY <1>1, <1>4
  <2>3. /\ IsFiniteSet(Upto(h)) /\ Cardinality(Upto(h)) <= Cardinality(Upto(i))
        /\ Cardinality(Upto(i)) # Cardinality(Upto(h))
    BY <2>1, <2>2, <1>2, FS_Subset
  <2>4. Cardinality(Upto(h)) \in Nat
    BY <2>3, FS_CardinalityType
  <2> QED BY <2>3, <2>4, <1>2
<1> QED BY <1>1, <1>2, <1>3, <1>4 DEF Rank

\* Every number up to the count is the rank of one position.
LEMMA RankOnto ==
  ASSUME NEW S, NEW s \in Seq(S), NEW I \in SUBSET DOMAIN s,
         NEW k \in 1 .. Cardinality(I)
  PROVE  \E i \in I : Rank(I, i) = k
<1> DEFINE f == [i \in I |-> Rank(I, i)]
           T == 1 .. Cardinality(I)
<1>1. IsFiniteSet(I) /\ Cardinality(I) \in Nat /\ I \subseteq Nat
  BY PositionsFinite
<1>2. f \in [I -> T]
  BY RankGrows
<1>3. \A g, h \in I : f[g] = f[h] => g = h
  <2> SUFFICES ASSUME NEW g \in I, NEW h \in I, g < h
               PROVE  f[g] # f[h]
    BY <1>1
  <2> QED BY RankGrows
<1>4. f \in Injection(I, T)
  BY <1>2, <1>3 DEF Injection, IsInjective
<1>5. IsFiniteSet(T) /\ Cardinality(T) = Cardinality(I)
  BY <1>1, FS_Interval
<1>6. f \in Surjection(I, T)
  BY <1>4, <1>5, FS_Injection
<1> QED BY <1>6 DEF Surjection

\* The positions Keep takes its elements from are those chosen, in order.
LEMMA KeepPositions ==
  ASSUME NEW S, NEW s \in Seq(S), NEW I \in SUBSET DOMAIN s
  PROVE  \E p \in [1 .. Cardinality(I) -> I] :
           /\ Keep(s, I) = [k \in 1 .. Cardinality(I) |-> s[p[k]]]
           /\ \A k \in 1 .. Cardinality(I) : Rank(I, p[k]) = k
           /\ \A i \in I : p[Rank(I, i)] = i
           /\ \A g, h \in 1 .. Cardinality(I) : g < h => p[g] < p[h]
<1> DEFINE N == 1 .. Cardinality(I)
           p == [k \in N |-> CHOOSE i \in I : Rank(I, i) = k]
<1>1. IsFiniteSet(I) /\ Cardinality(I) \in Nat /\ I \subseteq Nat
  BY PositionsFinite
<1>2. \A k \in N : p[k] \in I /\ Rank(I, p[k]) = k
  BY RankOnto
<1>3. p \in [N -> I]
  BY <1>2
<1>4. Keep(s, I) = [k \in N |-> s[p[k]]]
  BY DEF Keep
<1>5. \A g, h \in I : Rank(I, g) = Rank(I, h) => g = h
  <2> SUFFICES ASSUME NEW g \in I, NEW h \in I, g < h
               PROVE  Rank(I, g) # Rank(I, h)
    BY <1>1
  <2>1. Rank(I, g) < Rank(I, h) /\ Rank(I, g) \in Nat /\ Rank(I, h) \in Nat
    BY <1>1, RankGrows
  <2> QED BY <2>1
<1>6. \A i \in I : p[Rank(I, i)] = i
  <2> SUFFICES ASSUME NEW i \in I PROVE p[Rank(I, i)] = i
    OBVIOUS
  <2>1. Rank(I, i) \in N
    BY RankGrows
  <2> HIDE DEF p, N
  <2>2. p[Rank(I, i)] \in I /\ Rank(I, p[Rank(I, i)]) = Rank(I, i)
    BY <2>1, <1>2
  <2> QED BY <2>2, <1>5
<1>7. \A g, h \in N : g < h => p[g] < p[h]
  <2> SUFFICES ASSUME NEW g \in N, NEW h \in N, g < h PROVE p[g] < p[h]
    OBVIOUS
  <2> HIDE DEF p
  <2>1. p[g] \in Nat /\ p[h] \in Nat /\ p[g] \in I /\ p[h] \in I
    BY <1>1, <1>2
  <2>2. Rank(I, p[g]) < Rank(I, p[h])
    BY <1>2
  <2>3. ~(p[h] < p[g]) /\ p[h] # p[g]
    BY <2>1, <2>2, RankGrows, <1>1, <1>2
  <2> QED BY <2>1, <2>3
<1> QED BY <1>2, <1>3, <1>4, <1>6, <1>7

\* The result is a sequence of what was chosen and nothing else.
LEMMA KeepElements ==
  ASSUME NEW S, NEW s \in Seq(S), NEW I \in SUBSET DOMAIN s
  PROVE  /\ Keep(s, I) \in Seq(S)
         /\ Len(Keep(s, I)) = Cardinality(I)
         /\ Len(Keep(s, I)) <= Len(s)
         /\ \A k \in DOMAIN Keep(s, I) : \E i \in I : Keep(s, I)[k] = s[i]
         /\ \A i \in I : \E k \in DOMAIN Keep(s, I) : Keep(s, I)[k] = s[i]
         /\ Keep(s, I) = <<>> <=> I = {}
<1>1. PICK p \in [1 .. Cardinality(I) -> I] :
        /\ Keep(s, I) = [k \in 1 .. Cardinality(I) |-> s[p[k]]]
        /\ \A i \in I : p[Rank(I, i)] = i
  BY KeepPositions
<1>2. IsFiniteSet(I) /\ Cardinality(I) \in 0 .. Len(s)
  BY PositionsFinite
<1>3. Keep(s, I) \in Seq(S) /\ Len(Keep(s, I)) = Cardinality(I)
  <2> DEFINE n == Cardinality(I)
             q == [k \in 1 .. n |-> s[p[k]]]
  <2>1. n \in Nat /\ Len(s) \in Nat
    BY <1>2
  <2>2. \A k \in 1 .. n : s[p[k]] \in S
    BY <1>1
  <2> HIDE DEF n
  <2>3. q \in Seq(S) /\ Len(q) = n
    BY <2>1, <2>2
  <2> QED BY <2>3, <1>1 DEF n
<1>4. /\ \A k \in DOMAIN Keep(s, I) : \E i \in I : Keep(s, I)[k] = s[i]
      /\ \A i \in I : \E k \in DOMAIN Keep(s, I) : Keep(s, I)[k] = s[i]
  <2>1. \A i \in I : Rank(I, i) \in 1 .. Cardinality(I)
    BY RankGrows
  <2> QED BY <1>1, <2>1
<1>5. Keep(s, I) = <<>> <=> I = {}
  BY <1>2, <1>3, FS_EmptySet
<1>6. Len(Keep(s, I)) <= Len(s)
  <2>1. Len(s) \in Nat
    OBVIOUS
  <2> QED BY <2>1, <1>2, <1>3
<1> QED BY <1>3, <1>4, <1>5, <1>6

\* No element is doubled.
LEMMA KeepInjective ==
  ASSUME NEW S, NEW s \in Seq(S), NEW I \in SUBSET DOMAIN s,
         \A i, j \in DOMAIN s : s[i] = s[j] => i = j
  PROVE  \A g, h \in DOMAIN Keep(s, I) : Keep(s, I)[g] = Keep(s, I)[h] => g = h
<1>1. PICK p \in [1 .. Cardinality(I) -> I] :
        /\ Keep(s, I) = [k \in 1 .. Cardinality(I) |-> s[p[k]]]
        /\ \A k \in 1 .. Cardinality(I) : Rank(I, p[k]) = k
  BY KeepPositions
<1> QED BY <1>1

-----------------------------------------------------------------------------
(* Lists without duplicates *)

Distinct(s) == \A i, j \in DOMAIN s : s[i] = s[j] => i = j

LEMMA RangeType ==
  ASSUME NEW S, NEW s \in Seq(S)
  PROVE  Range(s) \subseteq S
BY DEF Range

LEMMA RangeAppend ==
  ASSUME NEW S, NEW s \in Seq(S), NEW x \in S
  PROVE  Range(Append(s, x)) = Range(s) \cup {x}
<1> DEFINE r == Append(s, x)
<1>1. /\ DOMAIN r = 1 .. Len(s) + 1 /\ DOMAIN s = 1 .. Len(s) /\ Len(s) \in Nat
      /\ r[Len(s) + 1] = x /\ \A i \in 1 .. Len(s) : r[i] = s[i]
  OBVIOUS
<1> HIDE DEF r
<1>2. Range(r) = Range(s) \cup {x}
  BY <1>1 DEF Range
<1> QED BY <1>2 DEF r

LEMMA DistinctAppend ==
  ASSUME NEW S, NEW s \in Seq(S), Distinct(s), NEW x \in S, x \notin Range(s)
  PROVE  Distinct(Append(s, x))
<1> DEFINE r == Append(s, x)
<1>1. /\ DOMAIN r = 1 .. Len(s) + 1 /\ DOMAIN s = 1 .. Len(s) /\ Len(s) \in Nat
      /\ r[Len(s) + 1] = x /\ \A i \in 1 .. Len(s) : r[i] = s[i]
  OBVIOUS
<1> HIDE DEF r
<1>2. Distinct(r)
  BY <1>1 DEF Distinct, Range
<1> QED BY <1>2 DEF r

\* The head leaves a list without duplicates for good.
LEMMA DistinctTail ==
  ASSUME NEW S, NEW s \in Seq(S), s # <<>>, Distinct(s)
  PROVE  /\ Head(s) \in Range(s) /\ Distinct(Tail(s))
         /\ Range(Tail(s)) = Range(s) \ {Head(s)}
<1> DEFINE r == Tail(s)
<1>1. /\ Len(s) \in Nat \ {0} /\ DOMAIN s = 1 .. Len(s) /\ DOMAIN r = 1 .. Len(s) - 1
      /\ Head(s) = s[1] /\ \A i \in 1 .. Len(s) - 1 : r[i] = s[i + 1]
  OBVIOUS
<1> HIDE DEF r
<1>2. Head(s) \in Range(s)
  BY <1>1 DEF Range
<1>3. Distinct(r)
  BY <1>1 DEF Distinct
<1>4. ASSUME NEW x \in Range(r) PROVE x \in Range(s) \ {Head(s)}
  BY <1>1, <1>4 DEF Range, Distinct
<1>5. ASSUME NEW x \in Range(s) \ {Head(s)} PROVE x \in Range(r)
  <2>1. PICK i \in 1 .. Len(s) : x = s[i] /\ i # 1
    BY <1>1, <1>5 DEF Range
  <2>2. i - 1 \in 1 .. Len(s) - 1 /\ r[i - 1] = x
    BY <1>1, <2>1
  <2> QED BY <1>1, <2>2 DEF Range
<1>6. Range(r) = Range(s) \ {Head(s)}
  BY <1>4, <1>5
<1> QED BY <1>2, <1>3, <1>6 DEF r

LEMMA RangeConcat ==
  ASSUME NEW S, NEW s \in Seq(S), NEW t \in Seq(S)
  PROVE  Range(s \o t) = Range(s) \cup Range(t)
<1> DEFINE r == s \o t
<1>1. /\ Len(s) \in Nat /\ Len(t) \in Nat /\ DOMAIN s = 1 .. Len(s) /\ DOMAIN t = 1 .. Len(t)
      /\ DOMAIN r = 1 .. Len(s) + Len(t)
      /\ \A i \in 1 .. Len(s) + Len(t) :
           r[i] = IF i <= Len(s) THEN s[i] ELSE t[i - Len(s)]
  OBVIOUS
<1> HIDE DEF r
<1>2. Range(r) \subseteq Range(s) \cup Range(t)
  BY <1>1, SMTT(30) DEF Range
<1>3. Range(s) \subseteq Range(r)
  BY <1>1 DEF Range
<1>4. ASSUME NEW x \in Range(t) PROVE x \in Range(r)
  <2>1. PICK i \in 1 .. Len(t) : x = t[i]
    BY <1>1, <1>4 DEF Range
  <2> DEFINE k == i + Len(s)
  <2>2. k \in 1 .. Len(s) + Len(t) /\ ~(k <= Len(s)) /\ k - Len(s) = i
    BY <1>1, <2>1
  <2>3. r[k] = x
    <3> HIDE DEF k
    <3> QED BY <1>1, <2>1, <2>2
  <2> QED BY <1>1, <2>2, <2>3 DEF Range
<1>5. Range(r) = Range(s) \cup Range(t)
  BY <1>2, <1>3, <1>4
<1> QED BY <1>5 DEF r

LEMMA DistinctConcat ==
  ASSUME NEW S, NEW s \in Seq(S), NEW t \in Seq(S), Distinct(s), Distinct(t),
         Range(s) \cap Range(t) = {}
  PROVE  Distinct(s \o t)
<1> DEFINE r == s \o t
<1>1. /\ Len(s) \in Nat /\ Len(t) \in Nat /\ DOMAIN s = 1 .. Len(s) /\ DOMAIN t = 1 .. Len(t)
      /\ DOMAIN r = 1 .. Len(s) + Len(t)
      /\ \A i \in 1 .. Len(s) + Len(t) :
           r[i] = IF i <= Len(s) THEN s[i] ELSE t[i - Len(s)]
  OBVIOUS
<1> HIDE DEF r
<1> SUFFICES ASSUME NEW i \in DOMAIN r, NEW j \in DOMAIN r, r[i] = r[j] PROVE i = j
  BY DEF Distinct, r
<1>2. CASE i <= Len(s) /\ j <= Len(s)
  BY <1>1, <1>2 DEF Distinct
<1>3. CASE i > Len(s) /\ j > Len(s)
  <2>1. i - Len(s) \in DOMAIN t /\ j - Len(s) \in DOMAIN t
    BY <1>1, <1>3
  <2>2. t[i - Len(s)] = t[j - Len(s)]
    BY <1>1, <1>3
  <2>3. i - Len(s) = j - Len(s)
    BY <2>1, <2>2 DEF Distinct
  <2> QED BY <1>1, <2>3
<1>4. ASSUME NEW g \in DOMAIN r, NEW h \in DOMAIN r, g <= Len(s), h > Len(s)
      PROVE  r[g] # r[h]
  <2>1. h - Len(s) \in DOMAIN t /\ g \in DOMAIN s
    BY <1>1, <1>4
  <2>2. r[g] = s[g] /\ r[h] = t[h - Len(s)]
    BY <1>1, <1>4
  <2>3. s[g] \in Range(s) /\ t[h - Len(s)] \in Range(t)
    BY <2>1 DEF Range
  <2> QED BY <2>2, <2>3
<1> QED BY <1>1, <1>2, <1>3, <1>4

\* A list without duplicates has as many elements as places.
LEMMA DistinctCount ==
  ASSUME NEW S, NEW s \in Seq(S), Distinct(s)
  PROVE  IsFiniteSet(Range(s)) /\ Cardinality(Range(s)) = Len(s) /\ Len(s) \in Nat
<1>1. Len(s) \in Nat /\ DOMAIN s = 1 .. Len(s) /\ s \in [1 .. Len(s) -> S]
  OBVIOUS
<1>2. s \in Bijection(1 .. Len(s), Range(s))
  BY <1>1 DEF Distinct, Range, Bijection, Injection, Surjection, IsInjective
<1>3. ExistsBijection(1 .. Len(s), Range(s))
  BY <1>2 DEF ExistsBijection
<1> QED BY <1>1, <1>3, FS_NatBijection, FS_CountingElements

LEMMA DisjointCount ==
  ASSUME NEW S, NEW T, IsFiniteSet(S), IsFiniteSet(T), S \cap T = {}
  PROVE  /\ IsFiniteSet(S \cup T)
         /\ Cardinality(S \cup T) = Cardinality(S) + Cardinality(T)
         /\ Cardinality(S) \in Nat /\ Cardinality(T) \in Nat
BY FS_Union, FS_EmptySet, FS_CardinalityType, SMTT(30)
=============================================================================
