----------------------------- MODULE DataLemmas ------------------------------
(***************************************************************************)
(* What the proofs use about numbers, sets and sequences, whatever the     *)
(* system.  An argument by induction is made with a least counterexample.  *)
(***************************************************************************)
EXTENDS Integers, Sequences, SequencesExt, FiniteSets, FiniteSetTheorems,
        WellFoundedInduction, TLAPS

(* A non-empty set of natural numbers has a least element.                  *)
LEMMA Least ==
  ASSUME NEW T \in SUBSET Nat, T # {}
  PROVE  \E m \in T : \A k \in T : m <= k
<1>1. PICK m \in T : \A k \in T : <<k, m>> \notin OpToRel(<, Nat)
  BY WFMin, NatLessThanWellFounded, Zenon
<1>2. \A k \in T : ~(k < m)
  BY <1>1, Zenon DEF OpToRel
<1> QED
  BY <1>2

(* If it is bounded it has a greatest element.                              *)
LEMMA Greatest ==
  ASSUME NEW n \in Nat, NEW S \in SUBSET (0 .. n), S # {}
  PROVE  \E m \in S : \A k \in S : k <= m
<1> DEFINE T == {b \in Nat : \A k \in S : k <= b}
<1>1. n \in T /\ T \in SUBSET Nat
  OBVIOUS
<1>2. PICK b \in T : \A k \in T : b <= k
  BY <1>1, Least
<1>3. b \in S
  <2> SUFFICES ASSUME b \notin S PROVE FALSE
    OBVIOUS
  <2>1. \A k \in S : k <= b - 1 /\ 0 <= k
    BY <1>2
  <2>2. b - 1 \in Nat
    <3>1. PICK k \in S : TRUE
      OBVIOUS
    <3>2. k <= b - 1 /\ 0 <= k /\ k \in Nat /\ b \in Nat
      BY <2>1
    <3> QED
      BY <3>2
  <2>3. b - 1 \in T
    BY <2>1, <2>2
  <2> QED
    BY <1>2, <2>3
<1> QED
  BY <1>2, <1>3

-----------------------------------------------------------------------------
(* A function on 1 .. n is a sequence.                                     *)

LEMMA SeqByElements ==
  ASSUME NEW S, NEW n \in Nat, NEW s \in [1 .. n -> S]
  PROVE  s \in Seq(S) /\ Len(s) = n /\ DOMAIN s = 1 .. n
OBVIOUS

-----------------------------------------------------------------------------
(* Sequences of sequences, one after the other.                            *)

LEMMA Joined ==
  ASSUME NEW S, NEW s \in Seq(S), NEW t \in Seq(S)
  PROVE  /\ s \o t \in Seq(S)
         /\ ToSet(s \o t) = ToSet(s) \cup ToSet(t)
         /\ IsInjective(s) /\ IsInjective(t) /\ ToSet(s) \cap ToSet(t) = {} => IsInjective(s \o t)
<1>1. s \o t \in Seq(S) /\ Len(s \o t) = Len(s) + Len(t)
  OBVIOUS
<1>2. \A i \in 1 .. Len(s) : (s \o t)[i] = s[i]
  OBVIOUS
<1>3. \A i \in 1 .. Len(t) : (s \o t)[Len(s) + i] = t[i]
  OBVIOUS
<1>4. \A i \in 1 .. Len(s \o t) :
        \/ i \in 1 .. Len(s) /\ (s \o t)[i] = s[i]
        \/ i - Len(s) \in 1 .. Len(t) /\ (s \o t)[i] = t[i - Len(s)]
  BY <1>1, <1>2
<1>5. ToSet(s \o t) \subseteq ToSet(s) \cup ToSet(t)
  BY <1>1, <1>4 DEF ToSet
<1>6. ToSet(s) \subseteq ToSet(s \o t)
  BY <1>1, <1>2 DEF ToSet
<1>7. ToSet(t) \subseteq ToSet(s \o t)
  <2> SUFFICES ASSUME NEW i \in 1 .. Len(t) PROVE t[i] \in ToSet(s \o t)
    BY DEF ToSet
  <2>1. Len(s) + i \in DOMAIN (s \o t)
    BY <1>1
  <2> QED
    BY <2>1, <1>3 DEF ToSet
<1>8. ASSUME IsInjective(s), IsInjective(t), ToSet(s) \cap ToSet(t) = {}
      PROVE  IsInjective(s \o t)
  <2> SUFFICES ASSUME NEW a \in 1 .. Len(s \o t), NEW b \in 1 .. Len(s \o t),
                      (s \o t)[a] = (s \o t)[b]
               PROVE  a = b
    BY <1>1 DEF IsInjective
  <2>1. CASE a \in 1 .. Len(s) /\ b \in 1 .. Len(s)
    BY <2>1, <1>2, <1>8 DEF IsInjective
  <2>2. CASE a \notin 1 .. Len(s) /\ b \notin 1 .. Len(s)
    <3>1. a - Len(s) \in DOMAIN t /\ b - Len(s) \in DOMAIN t /\ t[a - Len(s)] = t[b - Len(s)]
      BY <2>2, <1>4
    <3>2. a - Len(s) = b - Len(s)
      BY <3>1, <1>8 DEF IsInjective
    <3> QED
      BY <3>2
  <2>3. ASSUME NEW i \in 1 .. Len(s), NEW j \in 1 .. Len(t) PROVE s[i] # t[j]
    <3>1. s[i] \in ToSet(s) /\ t[j] \in ToSet(t)
      BY DEF ToSet
    <3> QED
      BY <3>1, <1>8
  <2>4. ASSUME NEW i \in 1 .. Len(s), NEW j \in 1 .. Len(s \o t), j \notin 1 .. Len(s)
        PROVE  (s \o t)[i] # (s \o t)[j]
    BY <2>3, <2>4, <1>2, <1>4
  <2> QED
    BY <2>1, <2>2, <2>4
<1> QED
  BY <1>1, <1>5, <1>6, <1>7, <1>8

(* The function that FlattenSeq calls flatten, of the first n sequences.    *)
Flattens(f, ss, n) == f = [i \in 1 .. n |-> IF i = 1 THEN ss[i] ELSE f[i - 1] \o ss[i]]

LEMMA FlattenExists ==
  ASSUME NEW ss, NEW len \in Nat
  PROVE  \E f : Flattens(f, ss, len)
<1> DEFINE Missing == {n \in Nat : ~ \E f : Flattens(f, ss, n)}
<1> SUFFICES ASSUME Missing # {} PROVE FALSE
  OBVIOUS
<1>1. PICK n \in Missing : \A k \in Missing : n <= k
  <2>1. Missing \in SUBSET Nat
    OBVIOUS
  <2> HIDE DEF Missing
  <2> QED
    BY <2>1, Least
<1>2. n \in Nat /\ ~ \E f : Flattens(f, ss, n)
  OBVIOUS
<1>3. CASE n = 0
  <2>1. Flattens([i \in 1 .. 0 |-> ss[i]], ss, 0)
    BY DEF Flattens
  <2> QED
    BY <2>1, <1>2, <1>3
<1>4. CASE n # 0
  <2>1. n - 1 \in Nat /\ n - 1 \notin Missing
    <3> HIDE DEF Missing
    <3> QED
      BY <1>1, <1>2, <1>4
  <2>2. PICK f : Flattens(f, ss, n - 1)
    BY <2>1
  <2> DEFINE g == [i \in 1 .. n |-> IF i = 1 THEN ss[i] ELSE f[i - 1] \o ss[i]]
  <2>3. ASSUME NEW i \in 1 .. n, i # 1 PROVE g[i - 1] = f[i - 1]
    <3>1. i - 1 \in 1 .. n - 1 /\ i - 1 \in 1 .. n
      BY <1>2, <2>3
    <3>2. f[i - 1] = IF i - 1 = 1 THEN ss[i - 1] ELSE f[(i - 1) - 1] \o ss[i - 1]
      BY <2>2, <3>1 DEF Flattens
    <3> QED
      BY <3>1, <3>2
  <2>4. Flattens(g, ss, n)
    BY <2>3 DEF Flattens
  <2> QED
    BY <2>4, <1>2
<1> QED
  BY <1>3, <1>4

(* What it gives for the first n: their elements, each once if no two       *)
(* share one.                                                               *)
LEMMA FlattenPrefix ==
  ASSUME NEW S, NEW ss \in Seq(Seq(S)), NEW f, Flattens(f, ss, Len(ss)), NEW n \in 1 .. Len(ss)
  PROVE  /\ f[n] \in Seq(S)
         /\ ToSet(f[n]) = UNION {ToSet(ss[i]) : i \in 1 .. n}
         /\ /\ \A i \in DOMAIN ss : IsInjective(ss[i])
            /\ \A i, j \in DOMAIN ss : i # j => ToSet(ss[i]) \cap ToSet(ss[j]) = {}
            => IsInjective(f[n])
<1> DEFINE len == Len(ss)
           Disjoint == /\ \A i \in 1 .. len : IsInjective(ss[i])
                       /\ \A i, j \in 1 .. len : i # j => ToSet(ss[i]) \cap ToSet(ss[j]) = {}
           Fine(k) == /\ f[k] \in Seq(S)
                      /\ ToSet(f[k]) = UNION {ToSet(ss[i]) : i \in 1 .. k}
                      /\ Disjoint => IsInjective(f[k])
           Bad == {k \in 1 .. len : ~Fine(k)}
<1>0. len \in Nat /\ DOMAIN ss = 1 .. len /\ \A i \in 1 .. len : ss[i] \in Seq(S)
  OBVIOUS
<1>1. \A k \in 1 .. len : f[k] = IF k = 1 THEN ss[k] ELSE f[k - 1] \o ss[k]
  BY DEF Flattens
<1>2. 1 \in 1 .. len => Fine(1)
  <2> SUFFICES ASSUME 1 \in 1 .. len PROVE Fine(1)
    OBVIOUS
  <2>1. f[1] = ss[1] /\ ss[1] \in Seq(S)
    BY <1>0, <1>1
  <2>2. 1 .. 1 = {1}
    OBVIOUS
  <2> QED
    BY <2>1, <2>2
<1>3. ASSUME NEW k \in 1 .. len, k # 1, Fine(k - 1) PROVE Fine(k)
  <2>0. f[k] = f[k - 1] \o ss[k] /\ f[k - 1] \in Seq(S) /\ ss[k] \in Seq(S)
    BY <1>0, <1>1, <1>3
  <2>1. f[k] \in Seq(S) /\ ToSet(f[k]) = ToSet(f[k - 1]) \cup ToSet(ss[k])
    BY <2>0, Joined
  <2>2. ToSet(f[k]) = UNION {ToSet(ss[i]) : i \in 1 .. k}
    <3>1. 1 .. k = (1 .. k - 1) \cup {k}
      BY <1>0
    <3>2. ToSet(f[k - 1]) = UNION {ToSet(ss[i]) : i \in 1 .. k - 1}
      BY <1>3
    <3>3. UNION {ToSet(ss[i]) : i \in (1 .. k - 1) \cup {k}}
            = (UNION {ToSet(ss[i]) : i \in 1 .. k - 1}) \cup ToSet(ss[k])
      OBVIOUS
    <3> QED
      BY <2>1, <3>1, <3>2, <3>3
  <2>3. ASSUME Disjoint PROVE IsInjective(f[k])
    <3>1. \A i \in 1 .. k - 1 : i \in 1 .. len /\ i # k
      BY <1>0
    <3>2. ToSet(f[k - 1]) \cap ToSet(ss[k]) = {}
      BY <1>3, <2>3, <3>1
    <3>3. IsInjective(f[k - 1]) /\ IsInjective(ss[k])
      BY <1>3, <2>3
    <3> QED
      BY <3>2, <3>3, <2>0, Joined
  <2> QED
    BY <2>1, <2>2, <2>3
<1>4. Bad = {}
  <2> SUFFICES ASSUME Bad # {} PROVE FALSE
    OBVIOUS
  <2>1. Bad \in SUBSET Nat
    BY <1>0
  <2>2. PICK k \in Bad : \A j \in Bad : k <= j
    <3> HIDE DEF Bad
    <3> QED
      BY <2>1, Least
  <2>3. k \in 1 .. len /\ ~Fine(k)
    OBVIOUS
  <2>4. k # 1
    BY <2>3, <1>2
  <2>5. k - 1 \in 1 .. len /\ ~(k <= k - 1)
    BY <2>3, <2>4, <1>0
  <2>6. k - 1 \notin Bad
    <3> HIDE DEF Bad
    <3> QED
      BY <2>5, <2>2
  <2>7. Fine(k - 1)
    BY <2>5, <2>6
  <2> HIDE DEF Fine
  <2> QED
    BY <2>3, <2>4, <2>7, <1>3
<1>5. Fine(n)
  <2> HIDE DEF Fine
  <2> QED
    BY <1>4
<1> QED
  BY <1>5, <1>0

(* FlattenSeq gives the elements of all, each once if no two share one.     *)
LEMMA Flattened ==
  ASSUME NEW S, NEW ss \in Seq(Seq(S))
  PROVE  /\ FlattenSeq(ss) \in Seq(S)
         /\ ToSet(FlattenSeq(ss)) = UNION {ToSet(ss[i]) : i \in DOMAIN ss}
         /\ /\ \A i \in DOMAIN ss : IsInjective(ss[i])
            /\ \A i, j \in DOMAIN ss : i # j => ToSet(ss[i]) \cap ToSet(ss[j]) = {}
            => IsInjective(FlattenSeq(ss))
<1>1. CASE Len(ss) = 0
  <2>1. ss = << >> /\ FlattenSeq(ss) = << >>
    BY <1>1 DEF FlattenSeq
  <2>2. FlattenSeq(ss) \in Seq(S)
    <3>1. << >> \in Seq(S)
      OBVIOUS
    <3> QED
      BY <2>1, <3>1
  <2>3. ToSet(FlattenSeq(ss)) = {}
    BY <2>1 DEF ToSet
  <2>4. IsInjective(FlattenSeq(ss))
    BY <2>1 DEF IsInjective
  <2>5. UNION {ToSet(ss[i]) : i \in DOMAIN ss} = {}
    BY <2>1
  <2> QED
    BY <2>2, <2>3, <2>4, <2>5
<1>2. CASE Len(ss) # 0
  <2> DEFINE f == CHOOSE f : Flattens(f, ss, Len(ss))
  <2>1. Flattens(f, ss, Len(ss))
    <3>1. \E g : Flattens(g, ss, Len(ss))
      <4>1. Len(ss) \in Nat
        OBVIOUS
      <4> QED
        BY <4>1, FlattenExists
    <3> QED
      BY <3>1
  <2>2. FlattenSeq(ss) = f[Len(ss)]
    BY <1>2 DEF FlattenSeq, Flattens
  <2>3. Len(ss) \in 1 .. Len(ss) /\ DOMAIN ss = 1 .. Len(ss)
    BY <1>2
  <2> HIDE DEF f
  <2> DEFINE r == FlattenSeq(ss)
             Disjoint == /\ \A i \in DOMAIN ss : IsInjective(ss[i])
                         /\ \A i, j \in DOMAIN ss : i # j => ToSet(ss[i]) \cap ToSet(ss[j]) = {}
  <2>4. /\ f[Len(ss)] \in Seq(S)
        /\ ToSet(f[Len(ss)]) = UNION {ToSet(ss[i]) : i \in 1 .. Len(ss)}
        /\ Disjoint => IsInjective(f[Len(ss)])
    BY <2>1, <2>3, FlattenPrefix
  <2> HIDE DEF Disjoint
  <2>5. r \in Seq(S) /\ ToSet(r) = UNION {ToSet(ss[i]) : i \in DOMAIN ss} /\ (Disjoint => IsInjective(r))
    BY <2>2, <2>3, <2>4
  <2> QED
    BY <2>5 DEF Disjoint
<1> QED
  BY <1>1, <1>2

-----------------------------------------------------------------------------
(* Finite sets.                                                            *)

(* A non-empty finite set of numbers has a greatest element, and a least.   *)
LEMMA Extremes ==
  ASSUME NEW S \in SUBSET Int, IsFiniteSet(S), S # {}
  PROVE  /\ \E m \in S : \A k \in S : k <= m
         /\ \E m \in S : \A k \in S : m <= k
<1> DEFINE Bounded(T) == /\ \E m \in T : \A k \in T : k <= m
                         /\ \E m \in T : \A k \in T : m <= k
           Sized(T, n) == T # {} /\ T \in SUBSET Int /\ IsFiniteSet(T) /\ Cardinality(T) = n
           Bad == {n \in Nat : \E T : Sized(T, n) /\ ~Bounded(T)}
<1>1. Bad = {}
  <2> SUFFICES ASSUME Bad # {} PROVE FALSE
    OBVIOUS
  <2>1. PICK n \in Bad : \A k \in Bad : n <= k
    <3>1. Bad \in SUBSET Nat
      OBVIOUS
    <3> HIDE DEF Bad
    <3> QED
      BY <3>1, Least
  <2>2. PICK T : Sized(T, n) /\ ~Bounded(T)
    OBVIOUS
  <2>3. PICK x \in T : TRUE
    BY <2>2
  <2> DEFINE U == T \ {x}
  <2>4. IsFiniteSet(U) /\ Cardinality(U) = n - 1 /\ n \in Nat /\ U \in SUBSET Int
        /\ x \in Int /\ T = U \cup {x}
    BY <2>2, <2>3, FS_RemoveElement
  <2> HIDE DEF U
  <2>5. CASE U = {}
    <3>1. T = {x}
      BY <2>4, <2>5
    <3> QED
      BY <3>1, <2>2, <2>4
  <2>6. CASE U # {}
    <3>1. n - 1 \in Nat
      BY <2>4, FS_CardinalityType
    <3>2. n - 1 \notin Bad
      <4> HIDE DEF Bad
      <4> QED
        BY <2>1, <2>4
    <3>3. Sized(U, n - 1)
      BY <2>4, <2>6
    <3>4. Bounded(U)
      <4> HIDE DEF Sized, Bounded
      <4> QED
        BY <3>1, <3>2, <3>3
    <3>5. PICK g \in U : \A k \in U : k <= g
      BY <3>4
    <3>6. PICK l \in U : \A k \in U : l <= k
      BY <3>4
    <3>7. \E m \in T : \A k \in T : k <= m
      <4>1. CASE x <= g
        BY <4>1, <3>5, <2>4
      <4>2. CASE ~(x <= g)
        <5>1. g \in Int /\ \A k \in U : k \in Int
          BY <2>4
        <5>2. \A k \in U : k <= x
          BY <5>1, <4>2, <3>5, <2>4
        <5> QED
          BY <5>2, <2>4
      <4> QED
        BY <4>1, <4>2
    <3>8. \E m \in T : \A k \in T : m <= k
      <4>1. CASE l <= x
        BY <4>1, <3>6, <2>4
      <4>2. CASE ~(l <= x)
        <5>1. l \in Int /\ \A k \in U : k \in Int
          BY <2>4
        <5>2. \A k \in U : x <= k
          BY <5>1, <4>2, <3>6, <2>4
        <5> QED
          BY <5>2, <2>4
      <4> QED
        BY <4>1, <4>2
    <3> QED
      BY <3>7, <3>8, <2>2
  <2> QED
    BY <2>5, <2>6
<1>2. Cardinality(S) \in Nat
  BY FS_CardinalityType
<1>3. Sized(S, Cardinality(S)) /\ Cardinality(S) \notin Bad
  BY <1>1
<1>4. Bounded(S)
  <2> HIDE DEF Sized, Bounded
  <2> QED
    BY <1>2, <1>3
<1> QED
  BY <1>4

LEMMA MaxOfFinite ==
  ASSUME NEW S \in SUBSET Int, IsFiniteSet(S), S # {}
  PROVE  Max(S) \in S /\ \A k \in S : k <= Max(S)
<1>1. \E m \in S : \A k \in S : m >= k
  <2>1. PICK m \in S : \A k \in S : k <= m
    BY Extremes
  <2> QED
    BY <2>1
<1>2. Max(S) \in S /\ \A k \in S : Max(S) >= k
  BY <1>1 DEF Max
<1> QED
  BY <1>2

LEMMA MinOfFinite ==
  ASSUME NEW S \in SUBSET Int, IsFiniteSet(S), S # {}
  PROVE  Min(S) \in S /\ \A k \in S : Min(S) <= k
<1>1. \E m \in S : \A k \in S : m <= k
  BY Extremes
<1> QED
  BY <1>1 DEF Min

(* The values of a function on a finite set are finitely many.              *)
LEMMA FiniteImage ==
  ASSUME NEW S, IsFiniteSet(S), NEW f, DOMAIN f = S
  PROVE  IsFiniteSet({f[x] : x \in S})
<1> DEFINE T == {f[x] : x \in S}
<1>1. [x \in S |-> f[x]] \in Surjection(S, T)
  BY DEF Surjection
<1> QED
  BY <1>1, FS_Surjection

LEMMA FiniteElements ==
  ASSUME NEW s, NEW n \in Nat, DOMAIN s = 1 .. n
  PROVE  IsFiniteSet(ToSet(s))
<1>1. IsFiniteSet(1 .. n)
  BY FS_Interval
<1> QED
  BY <1>1, FiniteImage DEF ToSet

-----------------------------------------------------------------------------
(* Recursion.                                                              *)

(* Each value of F[f] is determined by the values of f of smaller rank.     *)
WellFounded(D, V, r, F) ==
  \A f, g \in [D -> V] : \A n \in D :
    (\A c \in D : r[c] < r[n] => f[c] = g[c]) => F[f][n] = F[g][n]

Recursive(D, V, K, r, F) ==
  /\ V # {} /\ K \in Nat /\ r \in [D -> 0 .. K]
  /\ F \in [[D -> V] -> [D -> V]] /\ WellFounded(D, V, r, F)

FixedPoint(D, V, F) == \E f \in [D -> V] : F[f] = f

(* Then there is a function that F maps to itself.                          *)
LEMMA Recursion ==
  ASSUME NEW D, NEW V, NEW K, NEW r, NEW F, Recursive(D, V, K, r, F)
  PROVE  FixedPoint(D, V, F)
<1>0. /\ V # {} /\ K \in Nat /\ r \in [D -> 0 .. K]
      /\ F \in [[D -> V] -> [D -> V]] /\ WellFounded(D, V, r, F)
  BY DEF Recursive
<1> DEFINE Good(k) == \E f \in [D -> V] : \A n \in D : r[n] < k => F[f][n] = f[n]
           Bad == {k \in Nat : ~Good(k)}
<1>1. Bad = {}
  <2> SUFFICES ASSUME Bad # {} PROVE FALSE
    OBVIOUS
  <2>1. PICK k \in Bad : \A j \in Bad : k <= j
    <3>1. Bad \in SUBSET Nat
      OBVIOUS
    <3> HIDE DEF Bad
    <3> QED
      BY <3>1, Least
  <2>2. k \in Nat /\ ~Good(k)
    OBVIOUS
  <2>3. Good(0)
    <3>1. PICK v \in V : TRUE
      BY <1>0
    <3>2. [n \in D |-> v] \in [D -> V] /\ \A n \in D : ~(r[n] < 0)
      BY <1>0
    <3> QED
      BY <3>2
  <2>4. k # 0 /\ k - 1 \in Nat
    BY <2>2, <2>3
  <2>5. Good(k - 1)
    <3>1. k - 1 \notin Bad
      <4> HIDE DEF Bad
      <4> QED
        BY <2>1, <2>2, <2>4
    <3> QED
      BY <3>1, <2>4
  <2>6. PICK f \in [D -> V] : \A n \in D : r[n] < k - 1 => F[f][n] = f[n]
    BY <2>5
  <2>7. F[f] \in [D -> V]
    BY <1>0
  <2>8. ASSUME NEW n \in D, r[n] < k PROVE F[F[f]][n] = F[f][n]
    <3>1. ASSUME NEW c \in D, r[c] < r[n] PROVE F[f][c] = f[c]
      <4>1. r[c] < k - 1
        <5>1. r[c] \in Int /\ r[n] \in Int
          BY <1>0
        <5> QED
          BY <5>1, <3>1, <2>8, <2>2
      <4> QED
        BY <4>1, <2>6
    <3> QED
      BY <1>0, <3>1, <2>7 DEF WellFounded
  <2> QED
    BY <2>7, <2>8, <2>2
<1>2. PICK f \in [D -> V] : \A n \in D : r[n] < K + 1 => F[f][n] = f[n]
  <2>1. K + 1 \in Nat /\ K + 1 \notin Bad
    <3> HIDE DEF Bad
    <3> QED
      BY <1>0, <1>1
  <2> QED
    BY <2>1
<1>3. \A n \in D : F[f][n] = f[n]
  <2> SUFFICES ASSUME NEW n \in D PROVE r[n] < K + 1
    BY <1>2
  <2>1. r[n] \in 0 .. K /\ K \in Nat
    BY <1>0
  <2> QED
    BY <2>1
<1>4. F[f] = f
  <2>1. F[f] \in [D -> V]
    BY <1>0
  <2> QED
    BY <2>1, <1>3
<1> QED
  BY <1>4 DEF FixedPoint

-----------------------------------------------------------------------------
(* A sequence that is worked off from its first element on.                *)

LEMMA SuffixElements ==
  ASSUME NEW S, NEW s \in Seq(S), NEW k \in 0 .. Len(s)
  PROVE  LET t == SubSeq(s, k + 1, Len(s))
         IN  /\ t \in Seq(S) /\ Len(t) = Len(s) - k /\ DOMAIN t = 1 .. (Len(s) - k)
             /\ \A i \in 1 .. (Len(s) - k) : t[i] = s[k + i]
OBVIOUS

LEMMA SameSequences ==
  ASSUME NEW S, NEW s \in Seq(S), NEW t \in Seq(S), Len(s) = Len(t),
         \A i \in 1 .. Len(s) : s[i] = t[i]
  PROVE  s = t
OBVIOUS

LEMMA HeadAndTail ==
  ASSUME NEW S, NEW t \in Seq(S), t # << >>
  PROVE  /\ Head(t) = t[1] /\ Head(t) \in S /\ Len(t) >= 1
         /\ Tail(t) \in Seq(S) /\ Len(Tail(t)) = Len(t) - 1
         /\ \A i \in 1 .. (Len(t) - 1) : Tail(t)[i] = t[i + 1]
OBVIOUS

LEMMA NextUp ==
  \A n \in Nat : \A k \in 0 .. n : k # n => k + 1 \in 0 .. n
OBVIOUS

\* t is what is left of s after k elements.
IsRest(t, s, k) == k \in 0 .. Len(s) /\ t = SubSeq(s, k + 1, Len(s))

LEMMA WorkedOff ==
  ASSUME NEW S, NEW s \in Seq(S), IsInjective(s), NEW k \in Nat, NEW t, IsRest(t, s, k)
  PROVE  /\ t \in Seq(S) /\ Len(t) = Len(s) - k
         /\ \A i \in 1 .. Len(s) : s[i] \in ToSet(t) <=> i > k
         /\ k = Len(s) <=> t = << >>
         /\ k # Len(s) => Head(t) = s[k + 1] /\ IsRest(Tail(t), s, k + 1)
<1> DEFINE len == Len(s)
<1>0. len \in Nat /\ DOMAIN s = 1 .. len /\ k \in 0 .. len /\ t = SubSeq(s, k + 1, Len(s))
  BY DEF IsRest
<1>1. /\ t \in Seq(S) /\ Len(t) = len - k /\ DOMAIN t = 1 .. (len - k)
      /\ \A i \in 1 .. (len - k) : t[i] = s[k + i]
  BY <1>0, SuffixElements
<1> DEFINE u == SubSeq(s, (k + 1) + 1, len)
<1>2. k # len => /\ u \in Seq(S) /\ Len(u) = len - (k + 1)
                /\ \A i \in 1 .. (len - (k + 1)) : u[i] = s[(k + 1) + i]
  <2> SUFFICES ASSUME k # len
               PROVE  /\ u \in Seq(S) /\ Len(u) = len - (k + 1)
                      /\ \A i \in 1 .. (len - (k + 1)) : u[i] = s[(k + 1) + i]
    OBVIOUS
  <2>1. k + 1 \in 0 .. Len(s)
    BY <1>0, Zenon, NextUp
  <2> QED
    BY <2>1, SuffixElements
<1> SUFFICES /\ \A i \in 1 .. len : s[i] \in ToSet(t) <=> i > k
             /\ k = len <=> t = << >>
             /\ k # len => Head(t) = s[k + 1] /\ Tail(t) = u
  <2>1. k # len => k + 1 \in 0 .. len
    BY <1>0, Zenon, NextUp
  <2> QED
    BY <2>1, <1>1 DEF IsRest
<1> HIDE DEF len, u
<1>3. ASSUME NEW i \in 1 .. len, i > k PROVE s[i] \in ToSet(t)
  <2>1. i - k \in 1 .. (len - k) /\ k + (i - k) = i
    BY <1>0, <1>3
  <2>2. t[i - k] = s[i]
    BY <2>1, <1>1
  <2> QED
    BY <2>1, <2>2, <1>1 DEF ToSet
<1>4. ASSUME NEW i \in 1 .. len, s[i] \in ToSet(t) PROVE i > k
  <2>1. PICK j \in 1 .. (len - k) : s[i] = t[j]
    BY <1>1, <1>4 DEF ToSet
  <2>2. k + j \in 1 .. len
    BY <1>0
  <2>3. s[i] = s[k + j]
    BY <2>1, <1>1
  <2>4. i = k + j
    BY <2>2, <2>3, <1>0 DEF IsInjective
  <2> QED
    BY <2>4, <1>0
<1>5. k = len <=> t = << >>
  <2>1. t = << >> <=> Len(t) = 0
    BY <1>1
  <2> QED
    BY <2>1, <1>0, <1>1
<1>6. ASSUME k # len PROVE Head(t) = s[k + 1] /\ Tail(t) = u
  <2>1. t # << >> /\ 1 \in 1 .. (len - k)
    BY <1>0, <1>5, <1>6
  <2>2. /\ Head(t) = t[1] /\ Tail(t) \in Seq(S) /\ Len(Tail(t)) = len - k - 1
        /\ \A i \in 1 .. (len - k - 1) : Tail(t)[i] = t[i + 1]
    BY <2>1, <1>1, HeadAndTail
  <2>3. t[1] = s[k + 1]
    BY <2>1, <1>1
  <2>4. ASSUME NEW i \in 1 .. (len - k - 1) PROVE Tail(t)[i] = u[i]
    <3>1. i + 1 \in 1 .. (len - k) /\ k + (i + 1) = (k + 1) + i /\ i \in 1 .. (len - (k + 1))
      BY <1>0
    <3>2. t[i + 1] = s[k + (i + 1)]
      BY <3>1, <1>1
    <3> QED
      BY <3>1, <3>2, <2>2, <1>2, <1>6
  <2>5. Len(Tail(t)) = Len(u) /\ u \in Seq(S) /\ Len(u) = len - k - 1
    BY <1>0, <1>2, <1>6, <2>2
  <2>6. Tail(t) = u
    BY <2>2, <2>4, <2>5, SameSequences
  <2> QED
    BY <2>2, <2>3, <2>6
<1> QED
  BY <1>3, <1>4, <1>5, <1>6

LEMMA Backwards ==
  ASSUME NEW S, NEW s \in Seq(S)
  PROVE  /\ Reverse(s) \in Seq(S) /\ Len(Reverse(s)) = Len(s)
         /\ \A i \in 1 .. Len(s) : Reverse(s)[i] = s[Len(s) + 1 - i]
         /\ ToSet(Reverse(s)) = ToSet(s)
         /\ IsInjective(s) => IsInjective(Reverse(s))
<1> DEFINE len == Len(s)
           r == Reverse(s)
<1>0. len \in Nat /\ DOMAIN s = 1 .. len
  OBVIOUS
<1>1. r = [i \in 1 .. len |-> s[(len - i) + 1]]
  BY DEF Reverse
<1>2. ASSUME NEW i \in 1 .. len PROVE (len - i) + 1 \in 1 .. len /\ s[(len - i) + 1] \in S
  BY <1>0
<1>3. r \in [1 .. len -> S] /\ \A i \in 1 .. len : r[i] = s[len + 1 - i]
  BY <1>0, <1>1, <1>2
<1>4. r \in Seq(S) /\ Len(r) = len /\ DOMAIN r = 1 .. len
  BY <1>3, <1>0, SeqByElements
<1> HIDE DEF r, len
<1>5. ASSUME NEW i \in 1 .. len PROVE len + 1 - i \in 1 .. len /\ len + 1 - (len + 1 - i) = i
  BY <1>0
<1>6. ToSet(r) \subseteq ToSet(s)
  BY <1>0, <1>3, <1>4, <1>5 DEF ToSet
<1>7. ASSUME NEW i \in 1 .. len PROVE s[i] \in ToSet(r)
  <2>1. r[len + 1 - i] = s[i]
    BY <1>3, <1>5
  <2> QED
    BY <2>1, <1>4, <1>5 DEF ToSet
<1>8. ToSet(s) \subseteq ToSet(r)
  BY <1>7, <1>0 DEF ToSet
<1>9. ASSUME IsInjective(s) PROVE IsInjective(r)
  <2> SUFFICES ASSUME NEW i \in 1 .. len, NEW j \in 1 .. len, r[i] = r[j] PROVE i = j
    BY <1>4 DEF IsInjective
  <2>1. /\ len + 1 - i \in 1 .. len /\ len + 1 - j \in 1 .. len
        /\ s[len + 1 - i] = s[len + 1 - j]
    BY <1>3, <1>5
  <2>2. len + 1 - i = len + 1 - j
    BY <2>1, <1>0, <1>9 DEF IsInjective
  <2> QED
    BY <2>2, <1>0
<1>10. /\ r \in Seq(S) /\ Len(r) = len /\ ToSet(r) = ToSet(s)
       /\ \A i \in 1 .. len : r[i] = s[len + 1 - i]
       /\ IsInjective(s) => IsInjective(r)
  BY <1>3, <1>4, <1>6, <1>8, <1>9
<1> QED
  BY <1>10 DEF r, len

-----------------------------------------------------------------------------
(* The rank of a number in a finite set.                                   *)

UpTo(S, j) == {i \in S : i <= j}

LEMMA Ranks ==
  ASSUME NEW S \in SUBSET Int, IsFiniteSet(S)
  PROVE  /\ Cardinality(S) \in Nat
         /\ \A j \in S : Cardinality(UpTo(S, j)) \in 1 .. Cardinality(S)
         /\ \A i, j \in S : i < j => Cardinality(UpTo(S, i)) < Cardinality(UpTo(S, j))
         /\ \A k \in 1 .. Cardinality(S) : \E j \in S : Cardinality(UpTo(S, j)) = k
<1> DEFINE n == Cardinality(S)
           rank(j) == Cardinality(UpTo(S, j))
<1>1. n \in Nat
  BY FS_CardinalityType
<1>2. \A j \in S : UpTo(S, j) \in SUBSET S /\ j \in UpTo(S, j)
  BY DEF UpTo
<1>3. \A j \in S : IsFiniteSet(UpTo(S, j)) /\ rank(j) \in Nat /\ rank(j) <= n
  BY <1>2, FS_Subset, FS_CardinalityType
<1>4. \A j \in S : rank(j) # 0
  BY <1>2, <1>3, FS_EmptySet
<1>5. \A j \in S : rank(j) \in 1 .. n
  BY <1>1, <1>3, <1>4
<1>6. ASSUME NEW i \in S, NEW j \in S, i < j PROVE rank(i) < rank(j)
  <2>1. UpTo(S, i) \in SUBSET UpTo(S, j) /\ j \notin UpTo(S, i) /\ j \in UpTo(S, j)
    <3>1. \A m \in S : m <= i => m <= j
      BY <1>6
    <3>2. ~(j <= i) /\ j <= j
      BY <1>6
    <3> QED
      BY <3>1, <3>2, Zenon DEF UpTo
  <2>2. rank(i) <= rank(j) /\ rank(i) # rank(j)
    BY <2>1, <1>3, FS_Subset
  <2> QED
    BY <1>3, <2>2
<1>7. ASSUME NEW k \in 1 .. n, \A j \in S : rank(j) # k PROVE FALSE
  <2> DEFINE T == (1 .. n) \ {k}
             f == [j \in S |-> rank(j)]
  <2>1. IsFiniteSet(1 .. n) /\ Cardinality(1 .. n) = n
    BY <1>1, FS_Interval
  <2>2. IsFiniteSet(T) /\ Cardinality(T) = n - 1
    BY <2>1, FS_RemoveElement
  <2>3. \A j \in S : rank(j) \in T
    BY <1>5, <1>7
  <2>4. f \in [S -> T]
    BY <2>3
  <2>5. Cardinality(T) < Cardinality(S)
    BY <1>1, <2>2
  <2> HIDE DEF T, f
  <2>6. \E i, j \in S : i # j /\ f[i] = f[j]
    BY <2>2, <2>4, <2>5, FS_PigeonHole
  <2>7. PICK i \in S, j \in S : i # j /\ rank(i) = rank(j)
    BY <2>6 DEF f
  <2>8. i < j \/ j < i
    BY <2>7
  <2> QED
    BY <1>3, <1>6, <2>7, <2>8
<1> QED
  BY <1>1, <1>5, <1>6, <1>7

(* An increasing sequence of all its elements up to one gives its rank.     *)
LEMMA RankBySequence ==
  ASSUME NEW S \in SUBSET Int, IsFiniteSet(S), NEW k \in Nat, NEW f,
         \A i \in 1 .. k : f[i] \in S,
         \A i, j \in 1 .. k : i < j => f[i] < f[j],
         NEW s \in S, \A i \in 1 .. k : f[i] <= s,
         \A j \in S : j <= s => \E i \in 1 .. k : f[i] = j
  PROVE  Cardinality(UpTo(S, s)) = k
<1> DEFINE T == UpTo(S, s)
           g == [i \in 1 .. k |-> f[i]]
<1>1. IsFiniteSet(1 .. k) /\ Cardinality(1 .. k) = k
  BY FS_Interval
<1>2. g \in [1 .. k -> T]
  BY DEF UpTo
<1>3. \A j \in T : \E i \in 1 .. k : g[i] = j
  BY DEF UpTo
<1>4. \A i, j \in 1 .. k : g[i] = g[j] => i = j
  <2> SUFFICES ASSUME NEW i \in 1 .. k, NEW j \in 1 .. k, f[i] = f[j], i # j PROVE FALSE
    OBVIOUS
  <2>1. i < j \/ j < i
    OBVIOUS
  <2>2. f[i] < f[j] \/ f[j] < f[i]
    BY <2>1
  <2>3. f[i] \in Int /\ f[j] \in Int
    OBVIOUS
  <2> QED
    BY <2>2, <2>3
<1> HIDE DEF T, g
<1>5. g \in Surjection(1 .. k, T) /\ g \in Injection(1 .. k, T)
  BY <1>2, <1>3, <1>4, Zenon DEF Surjection, Injection, IsInjective
<1>6. Cardinality(T) = k
  BY <1>1, <1>5, FS_Surjection
<1> QED
  BY <1>6 DEF T
(* Between finite sets there are finitely many functions.                   *)
LEMMA FiniteFunctions ==
  ASSUME NEW S, NEW T, IsFiniteSet(S), IsFiniteSet(T)
  PROVE  IsFiniteSet([S -> T])
<1> DEFINE graph == [f \in [S -> T] |-> {<<x, f[x]>> : x \in S}]
<1>1. IsFiniteSet(SUBSET (S \X T))
  BY FS_Product, FS_SUBSET
<1>2. graph \in [[S -> T] -> SUBSET (S \X T)]
  OBVIOUS
<1>3. ASSUME NEW f \in [S -> T], NEW g \in [S -> T], graph[f] = graph[g] PROVE f = g
  <2>1. ASSUME NEW x \in S PROVE f[x] = g[x]
    <3>1. <<x, f[x]>> \in graph[f]
      OBVIOUS
    <3>2. <<x, f[x]>> \in {<<y, g[y]>> : y \in S}
      BY <3>1, <1>3
    <3>3. PICK y \in S : <<x, f[x]>> = <<y, g[y]>>
      BY <3>2
    <3> QED
      BY <3>3
  <2> QED
    BY <2>1
<1> HIDE DEF graph
<1>4. graph \in Injection([S -> T], SUBSET (S \X T))
  BY <1>2, <1>3, Zenon DEF Injection, IsInjective
<1> QED
  BY <1>1, <1>4, FS_Injection

-----------------------------------------------------------------------------
(* The rank of an element of a finite set in a total order of it.           *)

StrictOrder(R, S) ==
  /\ \A x \in S : <<x, x>> \notin R
  /\ \A x, y, z \in S : <<x, y>> \in R /\ <<y, z>> \in R => <<x, z>> \in R
  /\ \A x, y \in S : x = y \/ <<x, y>> \in R \/ <<y, x>> \in R
UpToIn(R, S, y) == {x \in S : x = y \/ <<x, y>> \in R}

LEMMA RanksIn ==
  ASSUME NEW S, IsFiniteSet(S), NEW R, StrictOrder(R, S)
  PROVE  /\ Cardinality(S) \in Nat
         /\ \A y \in S : Cardinality(UpToIn(R, S, y)) \in 1 .. Cardinality(S)
         /\ \A k \in 1 .. Cardinality(S) : \E y \in S : Cardinality(UpToIn(R, S, y)) = k
         /\ \A x, y \in S : Cardinality(UpToIn(R, S, x)) = Cardinality(UpToIn(R, S, y)) => x = y
<1> DEFINE n == Cardinality(S)
           rank(y) == Cardinality(UpToIn(R, S, y))
<1>1. n \in Nat
  BY FS_CardinalityType
<1>2. \A y \in S : UpToIn(R, S, y) \in SUBSET S /\ y \in UpToIn(R, S, y)
  BY DEF UpToIn
<1>3. \A y \in S : IsFiniteSet(UpToIn(R, S, y)) /\ rank(y) \in Nat /\ rank(y) <= n
  BY <1>2, FS_Subset, FS_CardinalityType
<1>4. \A y \in S : rank(y) # 0
  BY <1>2, <1>3, FS_EmptySet
<1>5. \A y \in S : rank(y) \in 1 .. n
  BY <1>1, <1>3, <1>4
<1>6. ASSUME NEW x \in S, NEW y \in S, <<x, y>> \in R PROVE rank(x) # rank(y)
  <2>1. UpToIn(R, S, x) \in SUBSET UpToIn(R, S, y)
    BY <1>6 DEF UpToIn, StrictOrder
  <2>2. y \notin UpToIn(R, S, x) /\ y \in UpToIn(R, S, y)
    BY <1>6 DEF UpToIn, StrictOrder
  <2>3. UpToIn(R, S, x) # UpToIn(R, S, y)
    BY <2>2
  <2> QED
    BY <2>1, <2>3, <1>3, FS_Subset
<1>7. ASSUME NEW x \in S, NEW y \in S, rank(x) = rank(y) PROVE x = y
  <2>1. <<x, y>> \notin R /\ <<y, x>> \notin R
    BY <1>6, <1>7
  <2> QED
    BY <2>1 DEF StrictOrder
<1>8. ASSUME NEW k \in 1 .. n, \A y \in S : rank(y) # k PROVE FALSE
  <2> DEFINE T == (1 .. n) \ {k}
             f == [y \in S |-> rank(y)]
  <2>1. IsFiniteSet(1 .. n) /\ Cardinality(1 .. n) = n
    BY <1>1, FS_Interval
  <2>2. IsFiniteSet(T) /\ Cardinality(T) = n - 1
    BY <2>1, FS_RemoveElement
  <2>3. f \in [S -> T]
    BY <1>5, <1>8
  <2>4. Cardinality(T) < Cardinality(S)
    BY <1>1, <2>2
  <2> HIDE DEF T, f
  <2>5. \E x, y \in S : x # y /\ f[x] = f[y]
    BY <2>2, <2>3, <2>4, FS_PigeonHole
  <2>6. PICK x \in S, y \in S : x # y /\ rank(x) = rank(y)
    BY <2>5 DEF f
  <2> QED
    BY <2>6, <1>7
<1> QED
  BY <1>1, <1>5, <1>7, <1>8


-----------------------------------------------------------------------------
\* The elements of two sequences, one after the other.
LEMMA ConcatElements ==
  ASSUME NEW S, NEW s \in Seq(S), NEW t \in Seq(S)
  PROVE  /\ s \o t \in Seq(S) /\ Len(s \o t) = Len(s) + Len(t)
         /\ \A i \in 1 .. Len(s) : (s \o t)[i] = s[i]
         /\ \A i \in 1 .. Len(t) : (s \o t)[Len(s) + i] = t[i]
<1>1. s \o t \in Seq(S) /\ Len(s \o t) = Len(s) + Len(t)
  OBVIOUS
<1>2. \A i \in 1 .. Len(s) : (s \o t)[i] = s[i]
  OBVIOUS
<1>3. \A i \in 1 .. Len(t) : (s \o t)[Len(s) + i] = t[i]
  OBVIOUS
<1> QED
  BY <1>1, <1>2, <1>3

-----------------------------------------------------------------------------
(* Rows of n: where the entry p of row t is, and back.                      *)
LEMMA Rows ==
  ASSUME NEW n \in Nat, NEW R \in Nat, NEW t \in 0 .. R - 1, NEW p \in 1 .. n
  PROVE  /\ t * n + p \in 1 .. n * R
         /\ ((t * n + p) - 1) % n = p - 1 /\ ((t * n + p) - 1) \div n = t
<1> DEFINE k == t * n + p
           q == (k - 1) \div n
           r == (k - 1) % n
<1>1. t * n \in Nat /\ n * R \in Nat /\ n > 0
  OBVIOUS
<1>2. k \in Nat /\ k >= 1
  BY <1>1
<1>3. k <= n * R
  <2>1. R - (t + 1) >= 0
    OBVIOUS
  <2>2. n * R = t * n + n + (R - (t + 1)) * n
    OBVIOUS
  <2>3. (R - (t + 1)) * n >= 0
    BY <2>1
  <2>4. (R - (t + 1)) * n \in Int
    OBVIOUS
  <2> QED
    BY <1>1, <2>2, <2>3, <2>4
<1>4. q \in Int /\ r \in 0 .. n - 1 /\ k - 1 = q * n + r
  BY <1>1, <1>2
<1> HIDE DEF q, r
<1>5. (q - t) * n = (p - 1) - r
  BY <1>1, <1>4
<1>6. q = t
  <2>1. ASSUME q >= t + 1 PROVE FALSE
    <3>1. (q - t) * n >= n
      BY <1>1, <1>4, <2>1
    <3> QED
      BY <1>4, <1>5, <3>1
  <2>2. ASSUME q <= t - 1 PROVE FALSE
    <3>1. (t - q) * n >= n
      BY <1>1, <1>4, <2>2
    <3>2. (t - q) * n = r - (p - 1)
      BY <1>1, <1>4
    <3> QED
      BY <1>4, <3>1, <3>2
  <2> QED
    BY <1>4, <2>1, <2>2
<1>7. r = p - 1
  BY <1>4, <1>5, <1>6
<1> QED
  BY <1>1, <1>2, <1>3, <1>6, <1>7 DEF q, r

\* The other way round: each place is in a row, and places go on row by row.
LEMMA RowOf ==
  ASSUME NEW n \in Nat, NEW R \in Nat, NEW k \in 1 .. n * R
  PROVE  /\ n > 0 /\ (k - 1) \div n \in 0 .. R - 1 /\ (k - 1) % n \in 0 .. n - 1
         /\ k - 1 = ((k - 1) \div n) * n + ((k - 1) % n)
<1> DEFINE q == (k - 1) \div n
           r == (k - 1) % n
<1>1. n * R \in Nat /\ k \in Nat /\ k >= 1 /\ k <= n * R
  OBVIOUS
<1>2. n > 0
  <2>1. n = 0 => n * R = 0
    OBVIOUS
  <2> QED
    BY <1>1, <2>1
<1>3. q \in Int /\ q >= 0 /\ r \in 0 .. n - 1 /\ k - 1 = q * n + r
  BY <1>1, <1>2
<1> HIDE DEF q, r
<1>4. q < R
  <2> SUFFICES ASSUME q >= R PROVE FALSE
    BY <1>3
  <2>1. (q - R) * n >= 0 /\ q * n = (q - R) * n + n * R
    BY <1>2, <1>3
  <2>2. q * n \in Int
    BY <1>3
  <2> QED
    BY <1>1, <1>3, <2>1, <2>2
<1> QED
  BY <1>2, <1>3, <1>4 DEF q, r

LEMMA RowsInOrder ==
  ASSUME NEW n \in Nat, NEW R \in Nat, NEW j \in 1 .. n * R, NEW k \in 1 .. n * R, j < k
  PROVE  \/ (j - 1) \div n < (k - 1) \div n
         \/ (j - 1) \div n = (k - 1) \div n /\ (j - 1) % n < (k - 1) % n
<1> DEFINE q == (j - 1) \div n
           r == (j - 1) % n
           u == (k - 1) \div n
           v == (k - 1) % n
<1>1. /\ n > 0 /\ q \in Nat /\ u \in Nat /\ r \in 0 .. n - 1 /\ v \in 0 .. n - 1
      /\ j - 1 = q * n + r /\ k - 1 = u * n + v
  BY RowOf
<1>2. n * R \in Nat /\ j \in Nat /\ k \in Nat
  OBVIOUS
<1> HIDE DEF q, r, u, v
<1>3. q <= u
  <2> SUFFICES ASSUME q >= u + 1 PROVE FALSE
    BY <1>1
  <2>1. (q - u) * n >= n /\ q * n = (q - u) * n + u * n
    BY <1>1
  <2>2. q * n \in Nat /\ u * n \in Nat
    BY <1>1
  <2> QED
    BY <1>1, <1>2, <2>1, <2>2
<1>4. q = u => r < v
  BY <1>1, <1>2
<1>5. q < u \/ (q = u /\ r < v)
  BY <1>1, <1>3, <1>4
<1> QED
  BY <1>5 DEF q, r, u, v

-----------------------------------------------------------------------------
(* Numbers that are taken to elements of another set in the order there,    *)
(* and are no fewer, have the ranks these elements have.                    *)
LEMMA SameRanks ==
  ASSUME NEW S \in SUBSET Int, IsFiniteSet(S), NEW T, IsFiniteSet(T), NEW R,
         \A x, y \in T : <<x, y>> \in R => <<y, x>> \notin R,
         NEW P \in [S -> T], \A i, j \in S : i < j => <<P[i], P[j]>> \in R,
         Cardinality(T) <= Cardinality(S),
         NEW s \in S
  PROVE  Cardinality(UpToIn(R, T, P[s])) = Cardinality(UpTo(S, s))
<1>1. ASSUME NEW i \in S, NEW j \in S, P[i] = P[j] PROVE i = j
  <2>1. ~(i < j) /\ ~(j < i)
    BY <1>1
  <2> QED
    BY <2>1
<1>2. P \in Injection(S, T)
  BY <1>1, Zenon DEF Injection, IsInjective
<1>3. P \in Surjection(S, T)
  <2>1. Cardinality(S) <= Cardinality(T) /\ (Cardinality(S) = Cardinality(T) => P \in Surjection(S, T))
    BY <1>2, FS_Injection
  <2>2. Cardinality(S) \in Nat /\ Cardinality(T) \in Nat
    BY FS_CardinalityType
  <2> QED
    BY <2>1, <2>2
<1> DEFINE A == UpTo(S, s)
           B == UpToIn(R, T, P[s])
           g == [i \in A |-> P[i]]
<1>4. A \in SUBSET S
  BY DEF UpTo
<1>5. ASSUME NEW i \in A PROVE P[i] \in B
  <2>1. i \in S /\ (i = s \/ i < s)
    BY DEF UpTo
  <2> QED
    BY <2>1 DEF UpToIn
<1>6. ASSUME NEW y \in B PROVE \E i \in A : P[i] = y
  <2>1. y \in T /\ (y = P[s] \/ <<y, P[s]>> \in R)
    BY DEF UpToIn
  <2>2. PICK i \in S : P[i] = y
    BY <1>3, <2>1 DEF Surjection
  <2>3. ~(s < i)
    BY <2>1, <2>2
  <2>4. i <= s
    BY <2>3
  <2> QED
    BY <2>2, <2>4 DEF UpTo
<1> HIDE DEF A, B
<1>7. g \in [A -> B]
  BY <1>5
<1>8. g \in Bijection(A, B)
  <2>1. g \in Injection(A, B)
    <3>1. \A i, j \in A : g[i] = g[j] => i = j
      BY <1>1, <1>4
    <3> HIDE DEF g
    <3> QED
      BY <1>7, <3>1, Zenon DEF Injection, IsInjective
  <2>2. g \in Surjection(A, B)
    <3>1. \A y \in B : \E i \in A : g[i] = y
      BY <1>6
    <3> HIDE DEF g
    <3> QED
      BY <1>7, <3>1, Zenon DEF Surjection
  <2> QED
    BY <2>1, <2>2 DEF Bijection
<1>9. IsFiniteSet(A)
  BY <1>4, FS_Subset
<1>10. ExistsBijection(A, B)
  BY <1>8 DEF ExistsBijection
<1>11. Cardinality(B) = Cardinality(A)
  BY <1>9, <1>10, FS_Bijection
<1> QED
  BY <1>11 DEF A, B

==============================================================================
