---- MODULE BasicFacts ----
(***************************************************************************)
(* Facts the components' proofs share: about hyphen units (a unit holds    *)
(* its line and everything a link within the pool ties to it, and the      *)
(* lines of one link have one unit), sets in order (Ranked, Ordered),      *)
(* parts of sequences (Chosen, Sifted, Cut, Trimmed), and loops (Stops,    *)
(* Rounds).                                                                *)
(***************************************************************************)
EXTENDS HyphenUnits, Editing, FiniteSetTheorems, SequenceTheorems,
        WellFoundedInduction, TLAPS

\* A function over 1 .. n is a sequence.
LEMMA FunIsSeq ==
  ASSUME NEW n \in Nat, NEW T, NEW f \in [1 .. n -> T]
  PROVE  f \in Seq(T) /\ Len(f) = n /\ DOMAIN f = 1 .. n
<1>1. f \in Seq(T) /\ DOMAIN f = 1 .. n
  OBVIOUS
<1>2. Len(f) \in Nat /\ DOMAIN f = 1 .. Len(f)
  BY <1>1, LenProperties
<1> QED BY <1>1, <1>2

\* A non-empty set of line numbers has a first one.
LEMMA FirstExists ==
  ASSUME NEW T \in SUBSET Nat, T # {}
  PROVE  \E x \in T : \A y \in T : x <= y
<1> DEFINE R == OpToRel(<, Nat)
<1>1. \A x, y \in Nat : <<y, x>> \in R <=> y < x
  BY DEF OpToRel
<1>2. IsWellFoundedOn(R, Nat)
  BY NatLessThanWellFounded
<1> HIDE DEF R
<1>3. PICK x \in T : \A y \in T : ~ (<<y, x>> \in R)
  BY <1>2, WFMin
<1>4. ASSUME NEW y \in T PROVE x <= y
  <2>1. x \in Nat /\ y \in Nat
    OBVIOUS
  <2>2. ~ (<<y, x>> \in R)
    BY <1>3
  <2>3. ~ (y < x)
    BY <1>1, <2>1, <2>2, Zenon
  <2> QED BY <2>1, <2>3
<1> QED BY <1>4

\* The least of a set of numbers.
LEMMA MinOf ==
  ASSUME NEW S \in SUBSET Nat, S # {}
  PROVE  Min(S) \in S /\ \A x \in S : Min(S) <= x
<1>1. \E x \in S : \A y \in S : x <= y
  BY FirstExists
<1> QED BY <1>1 DEF Min

\* The greatest of a bounded set of numbers.
LEMMA MaxOf ==
  ASSUME NEW S \in SUBSET Nat, S # {}, NEW top \in Nat, \A x \in S : x <= top
  PROVE  Max(S) \in S /\ \A x \in S : x <= Max(S)
<1> DEFINE T == {n \in Nat : \A x \in S : x <= n}
<1>1. T \in SUBSET Nat /\ T # {}
  OBVIOUS
<1>2. PICK n \in T : \A m \in T : n <= m
  BY <1>1, FirstExists
<1>3. n \in S
  <2>1. SUFFICES ASSUME n \notin S PROVE FALSE
    OBVIOUS
  <2>2. PICK x \in S : TRUE
    OBVIOUS
  <2>3. n - 1 \in Nat /\ \A y \in S : y <= n - 1
    BY <1>2, <2>1, <2>2
  <2>4. n - 1 \in T
    BY <2>3
  <2> QED BY <1>2, <2>4
<1>4. \E x \in S : \A y \in S : x >= y
  BY <1>2, <1>3
<1> QED BY <1>4 DEF Max

\* The greater of two numbers.
LEMMA MaxOfTwo ==
  ASSUME NEW a \in Int, NEW b \in Int
  PROVE  /\ Max({a, b}) \in Int /\ a <= Max({a, b}) /\ b <= Max({a, b})
         /\ Max({a, b}) = a \/ Max({a, b}) = b
<1> DEFINE r == IF a >= b THEN a ELSE b
<1>1. r \in {a, b} /\ \A y \in {a, b} : r >= y
  OBVIOUS
<1>2. \A z \in {a, b} : (\A y \in {a, b} : z >= y) => z = r
  OBVIOUS
<1> HIDE DEF r
<1>3. Max({a, b}) = r
  BY <1>1, <1>2 DEF Max
<1> QED BY <1>3 DEF r

\* The lesser of two numbers.
LEMMA MinOfTwo ==
  ASSUME NEW a \in Int, NEW b \in Int
  PROVE  /\ Min({a, b}) \in Int /\ Min({a, b}) <= a /\ Min({a, b}) <= b
         /\ Min({a, b}) = a \/ Min({a, b}) = b
<1> DEFINE r == IF a <= b THEN a ELSE b
<1>1. r \in {a, b} /\ \A y \in {a, b} : r <= y
  OBVIOUS
<1>2. \A z \in {a, b} : (\A y \in {a, b} : z <= y) => z = r
  OBVIOUS
<1> HIDE DEF r
<1>3. Min({a, b}) = r
  BY <1>1, <1>2 DEF Min
<1> QED BY <1>3 DEF r

----
\* `below` says of each member of S what stands at it or before it, in a total order.
InOrder(S, below) ==
  /\ below \in [S -> SUBSET S]
  /\ \A x \in S : x \in below[x]
  /\ \A x, y \in S : x \in below[y] => below[x] \subseteq below[y]
  /\ \A x, y \in S : x \in below[y] \/ y \in below[x]
  /\ \A x, y \in S : x \in below[y] /\ y \in below[x] => x = y

\* The members of a finite set by rank.
LEMMA RankedSorts ==
  ASSUME NEW S, IsFiniteSet(S), NEW below, InOrder(S, below)
  PROVE  /\ Cardinality(S) \in Nat
         /\ Ranked(S, below) \in [1 .. Cardinality(S) -> S]
         /\ Ranked(S, below) \in Seq(S)
         /\ Len(Ranked(S, below)) = Cardinality(S)
         /\ \A i \in 1 .. Cardinality(S) : Cardinality(below[Ranked(S, below)[i]]) = i
         /\ \A i, j \in 1 .. Cardinality(S) :
              i < j => /\ Ranked(S, below)[i] \in below[Ranked(S, below)[j]]
                       /\ Ranked(S, below)[i] # Ranked(S, below)[j]
         /\ \A x \in S : \E i \in 1 .. Cardinality(S) : Ranked(S, below)[i] = x
<1> DEFINE n    == Cardinality(S)
           rank == [x \in S |-> Cardinality(below[x])]
           r    == Ranked(S, below)
<1> USE DEF InOrder
<1>1. n \in Nat
  BY FS_CardinalityType
<1>2. ASSUME NEW x \in S PROVE IsFiniteSet(below[x]) /\ Cardinality(below[x]) \in 1 .. n
  <2>1. IsFiniteSet(below[x]) /\ Cardinality(below[x]) <= n
    BY FS_Subset
  <2>2. Cardinality(below[x]) # 0
    BY <2>1, FS_EmptySet
  <2>3. Cardinality(below[x]) \in Nat
    BY <2>1, FS_CardinalityType
  <2> QED BY <1>1, <2>1, <2>2, <2>3
<1>3. ASSUME NEW x \in S, NEW y \in S, x \in below[y], x # y
      PROVE  rank[x] < rank[y]
  <2>1. below[x] \in SUBSET below[y] /\ y \notin below[x]
    BY <1>3
  <2>2. /\ Cardinality(below[x]) <= Cardinality(below[y])
        /\ Cardinality(below[y]) = Cardinality(below[x]) => below[y] = below[x]
    BY <1>2, <2>1, FS_Subset
  <2>3. Cardinality(below[x]) # Cardinality(below[y])
    BY <2>1, <2>2
  <2>4. Cardinality(below[x]) \in 1 .. n /\ Cardinality(below[y]) \in 1 .. n
    BY <1>2
  <2> QED BY <1>1, <2>2, <2>3, <2>4
<1>4. rank \in [S -> 1 .. n]
  BY <1>2
<1>5. rank \in Injection(S, 1 .. n)
  <2>1. ASSUME NEW x \in S, NEW y \in S, rank[x] = rank[y] PROVE x = y
    <3>1. rank[x] \in Int /\ rank[y] \in Int
      BY <1>1, <1>4
    <3> HIDE DEF rank
    <3> QED BY <1>3, <2>1, <3>1
  <2> QED BY <1>4, <2>1 DEF Injection, IsInjective
<1>6. rank \in Surjection(S, 1 .. n)
  <2>1. IsFiniteSet(1 .. n) /\ Cardinality(1 .. n) = n
    BY <1>1, FS_Interval
  <2> QED BY <1>5, <2>1, FS_Injection
<1>7. \A i \in 1 .. n : \E x \in S : Cardinality(below[x]) = i
  BY <1>6 DEF Surjection
<1>8. r = [i \in 1 .. n |-> CHOOSE x \in S : Cardinality(below[x]) = i]
  BY DEF Ranked
<1> HIDE DEF r
<1>9. \A i \in 1 .. n : r[i] \in S /\ rank[r[i]] = i
  BY <1>7, <1>8
<1>10. r \in [1 .. n -> S]
  BY <1>8, <1>9
<1>11. ASSUME NEW i \in 1 .. n, NEW j \in 1 .. n, i < j
       PROVE  r[i] \in below[r[j]] /\ r[i] # r[j]
  <2>1. r[i] \in S /\ r[j] \in S /\ rank[r[i]] = i /\ rank[r[j]] = j
    BY <1>9
  <2>2. i \in Int /\ j \in Int
    BY <1>1
  <2> HIDE DEF rank, n
  <2>3. r[i] # r[j] /\ ~ (rank[r[j]] < rank[r[i]])
    BY <1>11, <2>1, <2>2
  <2> QED BY <1>3, <2>1, <2>3
<1>12. ASSUME NEW x \in S PROVE \E i \in 1 .. n : r[i] = x
  <2>1. rank[x] \in 1 .. n
    BY <1>4
  <2>2. r[rank[x]] \in S /\ rank[r[rank[x]]] = rank[x]
    BY <1>9, <2>1
  <2> QED BY <1>5, <2>1, <2>2 DEF Injection, IsInjective
<1>13. r \in Seq(S) /\ Len(r) = n
  BY <1>1, <1>10, FunIsSeq
<1> QED BY <1>1, <1>9, <1>10, <1>11, <1>12, <1>13 DEF r

\* A finite set of numbers in increasing order.
LEMMA OrderedSorts ==
  ASSUME NEW S \in SUBSET Nat, IsFiniteSet(S)
  PROVE  /\ Cardinality(S) \in Nat
         /\ Ordered(S) \in [1 .. Cardinality(S) -> S]
         /\ Ordered(S) \in Seq(S)
         /\ Len(Ordered(S)) = Cardinality(S)
         /\ \A i, j \in 1 .. Cardinality(S) : i < j => Ordered(S)[i] < Ordered(S)[j]
         /\ \A l \in S : \E i \in 1 .. Cardinality(S) : Ordered(S)[i] = l
<1> DEFINE below == [l \in S |-> {m \in S : m <= l}]
           n     == Cardinality(S)
<1>1. \A x \in S : x \in Int
  OBVIOUS
<1>2. \A x \in S : below[x] = {m \in S : m <= x}
  OBVIOUS
<1>3. Ordered(S) = Ranked(S, below)
  BY DEF Ordered
<1>4. below \in [S -> SUBSET S]
  OBVIOUS
<1> HIDE DEF below
<1>7. \A x, y \in S : x \in below[y] <=> x <= y
  BY <1>2
<1>8. ASSUME NEW x \in S, NEW y \in S
      PROVE  /\ x \in below[x]
             /\ x \in below[y] \/ y \in below[x]
             /\ x \in below[y] /\ y \in below[x] => x = y
             /\ x \in below[y] /\ x # y => x < y
  <2>1. x \in Int /\ y \in Int
    BY <1>1
  <2>2. x \in below[x] <=> x <= x
    BY <1>7
  <2>3. x \in below[y] <=> x <= y
    BY <1>7
  <2>4. y \in below[x] <=> y <= x
    BY <1>7
  <2> QED BY <2>1, <2>2, <2>3, <2>4
<1>9. ASSUME NEW x \in S, NEW y \in S, x \in below[y], NEW z \in below[x]
      PROVE  z \in below[y]
  <2>1. z \in S
    BY <1>4
  <2>2. z <= x /\ x <= y
    BY <1>7, <1>9, <2>1
  <2> QED BY <1>1, <1>7, <2>1, <2>2
<1>10. IsFiniteSet(S) /\ InOrder(S, below)
  <2>1. \A x \in S : x \in below[x]
    BY <1>8
  <2>2. \A x, y \in S : x \in below[y] => below[x] \subseteq below[y]
    BY <1>9
  <2>3. \A x, y \in S : x \in below[y] \/ y \in below[x]
    BY <1>8
  <2>4. \A x, y \in S : x \in below[y] /\ y \in below[x] => x = y
    BY <1>8
  <2> QED BY <1>4, <2>1, <2>2, <2>3, <2>4 DEF InOrder
<1>5. /\ Cardinality(S) \in Nat
      /\ Ranked(S, below) \in [1 .. Cardinality(S) -> S]
      /\ Ranked(S, below) \in Seq(S)
      /\ Len(Ranked(S, below)) = Cardinality(S)
      /\ \A i, j \in 1 .. Cardinality(S) :
              i < j => /\ Ranked(S, below)[i] \in below[Ranked(S, below)[j]]
                       /\ Ranked(S, below)[i] # Ranked(S, below)[j]
      /\ \A x \in S : \E i \in 1 .. Cardinality(S) : Ranked(S, below)[i] = x
  BY <1>10, RankedSorts
<1> HIDE DEF n
<1>6. ASSUME NEW i \in 1 .. n, NEW j \in 1 .. n, i < j
      PROVE  Ordered(S)[i] < Ordered(S)[j]
  <2>1. Ordered(S)[i] \in S /\ Ordered(S)[j] \in S
    BY <1>3, <1>5 DEF n
  <2>2. Ordered(S)[i] \in below[Ordered(S)[j]] /\ Ordered(S)[i] # Ordered(S)[j]
    BY <1>3, <1>5, <1>6 DEF n
  <2> QED BY <1>8, <2>1, <2>2
<1> QED BY <1>3, <1>5, <1>6 DEF n

\* There is one increasing way through a set of numbers.
LEMMA OrderedIs ==
  ASSUME NEW S \in SUBSET Nat, NEW n \in Nat, NEW f \in [1 .. n -> S],
         \A i, j \in 1 .. n : i < j => f[i] < f[j],
         \A x \in S : \E i \in 1 .. n : f[i] = x
  PROVE  IsFiniteSet(S) /\ Cardinality(S) = n /\ Ordered(S) = f
<1>0. \A i \in 1 .. n : f[i] \in Nat
  OBVIOUS
<1>1. IsFiniteSet(S) /\ Cardinality(S) = n
  <2>1. f \in Bijection(1 .. n, S)
    BY <1>0 DEF Bijection, Injection, Surjection, IsInjective
  <2>2. IsFiniteSet(1 .. n) /\ Cardinality(1 .. n) = n
    BY FS_Interval
  <2> QED BY <2>1, <2>2, FS_Bijection DEF ExistsBijection
<1> DEFINE g == Ordered(S)
<1>2. /\ g \in [1 .. n -> S]
      /\ \A i, j \in 1 .. n : i < j => g[i] < g[j]
      /\ \A x \in S : \E i \in 1 .. n : g[i] = x
  BY <1>1, OrderedSorts
<1> HIDE DEF g
<1>3. \A i \in 1 .. n : g[i] \in Nat
  BY <1>2
<1>4. \A i \in 1 .. n : f[i] = g[i]
  <2> DEFINE Bad == {i \in 1 .. n : f[i] # g[i]}
  <2>1. SUFFICES ASSUME Bad # {} PROVE FALSE
    OBVIOUS
  <2>2. PICK i \in Bad : \A j \in Bad : i <= j
    <3>1. Bad \in SUBSET Nat
      OBVIOUS
    <3> HIDE DEF Bad
    <3> QED BY <2>1, <3>1, FirstExists
  <2>3. i \in 1 .. n /\ i \in Nat /\ f[i] # g[i]
    OBVIOUS
  <2>4. \A j \in 1 .. n : j < i => f[j] = g[j]
    BY <2>2
  <2> HIDE DEF Bad
  <2>5. PICK j \in 1 .. n : g[j] = f[i]
    BY <1>2, <2>3
  <2>6. PICK k \in 1 .. n : f[k] = g[i]
    BY <1>2, <2>3
  <2>7. i < j
    <3>1. j < i => g[j] = f[j] /\ f[j] < f[i]
      BY <2>3, <2>4
    <3>2. j # i
      BY <2>3, <2>5
    <3> QED BY <1>0, <2>3, <2>5, <3>1, <3>2
  <2>9. i < k
    <3>1. k < i => f[k] = g[k] /\ g[k] < g[i]
      BY <1>2, <2>3, <2>4
    <3>2. k # i
      BY <2>3, <2>6
    <3> QED BY <1>3, <2>3, <2>6, <3>1, <3>2
  <2>8. g[i] < f[i] /\ f[i] < g[i]
    BY <1>2, <2>3, <2>5, <2>6, <2>7, <2>9
  <2> QED BY <1>0, <1>3, <2>3, <2>8
<1> QED BY <1>1, <1>2, <1>4 DEF g

\* The positions of the elements of a sequence are few.
LEMMA PositionsFinite ==
  ASSUME NEW X, NEW s \in Seq(X), NEW P \in SUBSET DOMAIN s
  PROVE  P \in SUBSET Nat /\ IsFiniteSet(P)
<1>1. DOMAIN s = 1 .. Len(s) /\ Len(s) \in Nat
  BY LenProperties
<1>2. IsFiniteSet(1 .. Len(s))
  BY <1>1, FS_Interval
<1> QED BY <1>1, <1>2, FS_Subset

\* at goes through the numbers of P, n of them, in order.
Through(at, n, P) ==
  /\ n \in Nat /\ at \in [1 .. n -> P]
  /\ \A i, j \in 1 .. n : i < j => at[i] < at[j]
  /\ \A x \in P : \E i \in 1 .. n : at[i] = x

\* What is chosen from a sequence, when `at` walks through its positions.
LEMMA ChosenIs ==
  ASSUME NEW X, NEW s \in Seq(X), NEW P \in SUBSET DOMAIN s, NEW n, NEW at, Through(at, n, P)
  PROVE  Chosen(s, P) = [k \in 1 .. n |-> s[at[k]]]
<1>1. P \in SUBSET Nat
  BY PositionsFinite
<1>2. Ordered(P) = at
  BY <1>1, OrderedIs DEF Through
<1>3. DOMAIN at = 1 .. n
  BY DEF Through
<1> QED BY <1>2, <1>3 DEF Chosen

\* There is such a walk.
LEMMA ChosenFacts ==
  ASSUME NEW X, NEW s \in Seq(X), NEW P \in SUBSET DOMAIN s
  PROVE  LET n  == Cardinality(P)
             at == Ordered(P)
         IN  /\ n \in Nat /\ at \in [1 .. n -> P]
             /\ \A i, j \in 1 .. n : i < j => at[i] < at[j]
             /\ \A x \in P : \E i \in 1 .. n : at[i] = x
             /\ Chosen(s, P) = [k \in 1 .. n |-> s[at[k]]]
             /\ Chosen(s, P) \in Seq(X) /\ Len(Chosen(s, P)) = n
<1> DEFINE n  == Cardinality(P)
           at == Ordered(P)
<1>1. P \in SUBSET Nat /\ IsFiniteSet(P)
  BY PositionsFinite
<1>2. /\ n \in Nat /\ at \in [1 .. n -> P]
      /\ \A i, j \in 1 .. n : i < j => at[i] < at[j]
      /\ \A x \in P : \E i \in 1 .. n : at[i] = x
  BY <1>1, OrderedSorts
<1>3. Chosen(s, P) = [k \in 1 .. n |-> s[at[k]]]
  BY <1>2 DEF Chosen
<1> HIDE DEF n, at
<1>4. \A k \in 1 .. n : s[at[k]] \in X
  BY <1>2, ElementOfSeq, LenProperties
<1>5. Chosen(s, P) \in [1 .. n -> X]
  BY <1>3, <1>4
<1>6. Chosen(s, P) \in Seq(X) /\ Len(Chosen(s, P)) = n
  BY <1>2, <1>5, FunIsSeq
<1> QED BY <1>2, <1>3, <1>6 DEF n, at

\* The positions of s that hold an element of T.
Holding(s, T) == {i \in DOMAIN s : s[i] \in T}

LEMMA SiftedIs ==
  ASSUME NEW X, NEW s \in Seq(X), NEW T, NEW n, NEW at, Through(at, n, Holding(s, T))
  PROVE  Sifted(s, T) = [k \in 1 .. n |-> s[at[k]]]
<1>1. Holding(s, T) \in SUBSET DOMAIN s
  BY DEF Holding
<1>2. Sifted(s, T) = Chosen(s, Holding(s, T))
  BY DEF Sifted, Holding
<1> QED BY <1>1, <1>2, ChosenIs

\* at is the way through what is sifted.
SiftedBy(s, T, n, at) ==
  /\ Through(at, n, Holding(s, T))
  /\ Sifted(s, T) = [k \in 1 .. n |-> s[at[k]]]
  /\ Len(Sifted(s, T)) = n

LEMMA SiftedFacts ==
  ASSUME NEW X, NEW s \in Seq(X), NEW T
  PROVE  Sifted(s, T) \in Seq(X) /\ \E n, at : SiftedBy(s, T, n, at)
<1>1. Holding(s, T) \in SUBSET DOMAIN s
  BY DEF Holding
<1>2. Sifted(s, T) = Chosen(s, Holding(s, T))
  BY DEF Sifted, Holding
<1>3. Through(Ordered(Holding(s, T)), Cardinality(Holding(s, T)), Holding(s, T))
  BY <1>1, ChosenFacts DEF Through
<1>4. /\ Sifted(s, T) \in Seq(X) /\ Len(Sifted(s, T)) = Cardinality(Holding(s, T))
      /\ Sifted(s, T) = [k \in 1 .. Cardinality(Holding(s, T)) |-> s[Ordered(Holding(s, T))[k]]]
  BY <1>1, <1>2, ChosenFacts
<1> QED BY <1>3, <1>4 DEF SiftedBy

\* What is sifted is in s and in T, and what is in both is sifted.
LEMMA SiftedHolds ==
  ASSUME NEW X, NEW s \in Seq(X), NEW T
  PROVE  /\ Sifted(s, T) \in Seq(X) /\ Len(Sifted(s, T)) \in Nat
         /\ DOMAIN Sifted(s, T) = 1 .. Len(Sifted(s, T))
         /\ \A k \in DOMAIN Sifted(s, T) : Sifted(s, T)[k] \in T /\ \E i \in DOMAIN s : Sifted(s, T)[k] = s[i]
         /\ \A i \in DOMAIN s : s[i] \in T => \E k \in DOMAIN Sifted(s, T) : Sifted(s, T)[k] = s[i]
<1>0. PICK n, at : Sifted(s, T) \in Seq(X) /\ SiftedBy(s, T, n, at)
  BY SiftedFacts
<1>1. /\ Through(at, n, Holding(s, T))
      /\ Sifted(s, T) = [k \in 1 .. n |-> s[at[k]]]
      /\ Sifted(s, T) \in Seq(X) /\ Len(Sifted(s, T)) = n
  BY <1>0 DEF SiftedBy
<1>2. DOMAIN Sifted(s, T) = 1 .. n /\ n \in Nat
  BY <1>1 DEF Through
<1>3. ASSUME NEW k \in 1 .. n
      PROVE  Sifted(s, T)[k] \in T /\ \E i \in DOMAIN s : Sifted(s, T)[k] = s[i]
  <2>1. at[k] \in Holding(s, T) /\ Sifted(s, T)[k] = s[at[k]]
    BY <1>1 DEF Through
  <2> QED BY <2>1 DEF Holding
<1>4. ASSUME NEW i \in DOMAIN s, s[i] \in T PROVE \E k \in 1 .. n : Sifted(s, T)[k] = s[i]
  <2>1. i \in Holding(s, T)
    BY <1>4 DEF Holding
  <2> QED BY <1>1, <2>1 DEF Through
<1> QED BY <1>1, <1>2, <1>3, <1>4

\* Only the elements of s count.
LEMMA SiftedSame ==
  ASSUME NEW s, NEW T, NEW U, \A i \in DOMAIN s : s[i] \in T <=> s[i] \in U
  PROVE  Sifted(s, T) = Sifted(s, U)
<1>1. {i \in DOMAIN s : s[i] \in T} = {i \in DOMAIN s : s[i] \in U}
  OBVIOUS
<1> QED BY <1>1 DEF Sifted

\* All of s, or nothing.
LEMMA SiftedAll ==
  ASSUME NEW X, NEW s \in Seq(X), NEW T, \A i \in DOMAIN s : s[i] \in T
  PROVE  Sifted(s, T) = s
<1> DEFINE at == [k \in 1 .. Len(s) |-> k]
<1>1. DOMAIN s = 1 .. Len(s) /\ Len(s) \in Nat
  BY LenProperties
<1>2. Holding(s, T) = 1 .. Len(s)
  BY <1>1 DEF Holding
<1>3. Through(at, Len(s), Holding(s, T))
  BY <1>1, <1>2 DEF Through
<1>4. Sifted(s, T) = [k \in 1 .. Len(s) |-> s[at[k]]]
  BY <1>3, SiftedIs
<1>5. s = [k \in 1 .. Len(s) |-> s[k]]
  BY <1>1
<1> QED BY <1>4, <1>5

LEMMA SiftedNone ==
  ASSUME NEW X, NEW s \in Seq(X), NEW T
  PROVE  Sifted(s, T) = <<>> <=> \A i \in DOMAIN s : s[i] \notin T
<1>1. /\ Sifted(s, T) \in Seq(X) /\ Len(Sifted(s, T)) \in Nat
      /\ DOMAIN Sifted(s, T) = 1 .. Len(Sifted(s, T))
      /\ \A k \in DOMAIN Sifted(s, T) : Sifted(s, T)[k] \in T /\ \E i \in DOMAIN s : Sifted(s, T)[k] = s[i]
      /\ \A i \in DOMAIN s : s[i] \in T => \E k \in DOMAIN Sifted(s, T) : Sifted(s, T)[k] = s[i]
  BY SiftedHolds
<1>2. Sifted(s, T) = <<>> <=> DOMAIN Sifted(s, T) = {}
  <2>1. Sifted(s, T) = <<>> <=> Len(Sifted(s, T)) = 0
    BY <1>1, EmptySeq
  <2> QED BY <1>1, <2>1
<1> QED BY <1>1, <1>2

\* Sifted twice is sifted by both.
LEMMA SiftedTwice ==
  ASSUME NEW X, NEW s \in Seq(X), NEW T, NEW U
  PROVE  Sifted(Sifted(s, T), U) = Sifted(s, T \cap U)
<1>0. PICK n, at : Sifted(s, T) \in Seq(X) /\ SiftedBy(s, T, n, at)
  BY SiftedFacts
<1>1. /\ Through(at, n, Holding(s, T))
      /\ Sifted(s, T) = [k \in 1 .. n |-> s[at[k]]]
      /\ Sifted(s, T) \in Seq(X) /\ Len(Sifted(s, T)) = n
  BY <1>0 DEF SiftedBy
<1> DEFINE r == Sifted(s, T)
<1>a. PICK m, by : SiftedBy(r, U, m, by)
  BY <1>1, SiftedFacts
<1>2. /\ Through(by, m, Holding(r, U))
      /\ Sifted(r, U) = [k \in 1 .. m |-> r[by[k]]]
  BY <1>a DEF SiftedBy
<1> DEFINE both == [k \in 1 .. m |-> at[by[k]]]
           V    == T \cap U
<1>3. Holding(r, U) = {k \in 1 .. n : s[at[k]] \in U}
  BY <1>1 DEF Holding
<1>4. \A k \in 1 .. m : by[k] \in 1 .. n /\ s[at[by[k]]] \in U /\ at[by[k]] \in DOMAIN s /\ s[at[by[k]]] \in T
  <2>1. \A k \in 1 .. m : by[k] \in 1 .. n /\ s[at[by[k]]] \in U
    BY <1>2, <1>3 DEF Through
  <2>2. \A k \in 1 .. n : at[k] \in DOMAIN s /\ s[at[k]] \in T
    BY <1>1 DEF Through, Holding
  <2> QED BY <2>1, <2>2
<1>5. Through(both, m, Holding(s, V))
  <2>1. both \in [1 .. m -> Holding(s, V)]
    BY <1>4 DEF Holding
  <2>2. \A i, j \in 1 .. m : i < j => both[i] < both[j]
    BY <1>1, <1>2, <1>4 DEF Through
  <2>3. ASSUME NEW x \in Holding(s, V) PROVE \E i \in 1 .. m : both[i] = x
    <3>1. x \in Holding(s, T) /\ s[x] \in U
      BY DEF Holding
    <3>2. PICK k \in 1 .. n : at[k] = x
      BY <1>1, <3>1 DEF Through
    <3>3. PICK i \in 1 .. m : by[i] = k
      BY <1>2, <1>3, <3>1, <3>2 DEF Through
    <3> QED BY <3>2, <3>3
  <2>4. m \in Nat
    BY <1>2 DEF Through
  <2> QED BY <2>1, <2>2, <2>3, <2>4 DEF Through
<1>7. \A k \in 1 .. m : r[by[k]] = s[both[k]]
  BY <1>1, <1>4
<1> HIDE DEF both, V
<1>6. Sifted(s, V) = [k \in 1 .. m |-> s[both[k]]]
  BY <1>5, SiftedIs
<1> HIDE DEF r
<1> QED BY <1>2, <1>6, <1>7 DEF r, V

\* One sequence after another.
LEMMA SiftedConcat ==
  ASSUME NEW X, NEW s \in Seq(X), NEW t \in Seq(X), NEW T
  PROVE  Sifted(s \o t, T) = Sifted(s, T) \o Sifted(t, T)
<1>0. PICK n, at : Sifted(s, T) \in Seq(X) /\ SiftedBy(s, T, n, at)
  BY SiftedFacts
<1>1. /\ Through(at, n, Holding(s, T))
      /\ Sifted(s, T) = [k \in 1 .. n |-> s[at[k]]]
      /\ Sifted(s, T) \in Seq(X) /\ Len(Sifted(s, T)) = n
  BY <1>0 DEF SiftedBy
<1>a. PICK m, by : Sifted(t, T) \in Seq(X) /\ SiftedBy(t, T, m, by)
  BY SiftedFacts
<1>2. /\ Through(by, m, Holding(t, T))
      /\ Sifted(t, T) = [k \in 1 .. m |-> t[by[k]]]
      /\ Sifted(t, T) \in Seq(X) /\ Len(Sifted(t, T)) = m
  BY <1>a DEF SiftedBy
<1>3. /\ DOMAIN s = 1 .. Len(s) /\ Len(s) \in Nat
      /\ DOMAIN t = 1 .. Len(t) /\ Len(t) \in Nat /\ n \in Nat /\ m \in Nat
  BY <1>1, <1>2, LenProperties DEF Through
<1> DEFINE u    == s \o t
           both == [k \in 1 .. n + m |-> IF k <= n THEN at[k] ELSE Len(s) + by[k - n]]
<1>4. /\ u \in Seq(X) /\ Len(u) = Len(s) + Len(t) /\ DOMAIN u = 1 .. Len(s) + Len(t)
      /\ \A i \in 1 .. Len(s) + Len(t) : u[i] = IF i <= Len(s) THEN s[i] ELSE t[i - Len(s)]
  BY ConcatProperties, LenProperties
<1>5. \A k \in 1 .. n : at[k] \in 1 .. Len(s) /\ s[at[k]] \in T
  BY <1>1, <1>3 DEF Through, Holding
<1>6. \A k \in 1 .. m : by[k] \in 1 .. Len(t) /\ t[by[k]] \in T
  BY <1>2, <1>3 DEF Through, Holding
<1> HIDE DEF u
<1>7. ASSUME NEW k \in 1 .. n + m
      PROVE  /\ both[k] \in 1 .. Len(s) + Len(t) /\ u[both[k]] \in T
             /\ u[both[k]] = IF k <= n THEN s[at[k]] ELSE t[by[k - n]]
             /\ k <= n => both[k] <= Len(s) /\ both[k] = at[k]
             /\ k > n => both[k] > Len(s) /\ both[k] = Len(s) + by[k - n] /\ k - n \in 1 .. m
  <2>1. CASE k <= n
    <3>1. k \in 1 .. n
      BY <1>3, <2>1
    <3>2. both[k] = at[k] /\ at[k] \in 1 .. Len(s)
      BY <1>5, <2>1, <3>1
    <3> QED BY <1>3, <1>4, <1>5, <2>1, <3>1, <3>2
  <2>2. CASE k > n
    <3>1. k - n \in 1 .. m
      BY <1>3, <2>2
    <3>2. both[k] = Len(s) + by[k - n] /\ by[k - n] \in 1 .. Len(t)
      BY <1>3, <1>6, <2>2, <3>1
    <3> HIDE DEF both
    <3>3. both[k] - Len(s) = by[k - n] /\ both[k] > Len(s) /\ both[k] \in 1 .. Len(s) + Len(t)
      BY <1>3, <3>2
    <3>4. u[both[k]] = t[by[k - n]]
      BY <1>3, <1>4, <3>3
    <3> QED BY <1>3, <1>6, <2>2, <3>1, <3>2, <3>3, <3>4
  <2> QED BY <1>3, <2>1, <2>2
<1>8. Through(both, n + m, Holding(u, T))
  <2>1. both \in [1 .. n + m -> Holding(u, T)]
    BY <1>4, <1>7 DEF Holding
  <2>2. ASSUME NEW i \in 1 .. n + m, NEW j \in 1 .. n + m, i < j PROVE both[i] < both[j]
    <3>0. i \in Nat /\ j \in Nat /\ both[i] \in Nat /\ both[j] \in Nat
      BY <1>3, <1>7
    <3>1. CASE j <= n
      <4>1. i \in 1 .. n /\ j \in 1 .. n /\ both[i] = at[i] /\ both[j] = at[j]
        BY <1>3, <1>7, <2>2, <3>0, <3>1
      <4> QED BY <1>1, <2>2, <4>1 DEF Through
    <3>2. CASE i > n
      <4>1. i - n \in 1 .. m /\ j - n \in 1 .. m /\ both[i] = Len(s) + by[i - n] /\ both[j] = Len(s) + by[j - n]
        BY <1>3, <1>7, <2>2, <3>0, <3>2
      <4>2. i - n < j - n
        BY <1>3, <2>2, <3>0
      <4>3. by[i - n] < by[j - n] /\ by[i - n] \in Int /\ by[j - n] \in Int
        BY <1>2, <1>6, <4>1, <4>2 DEF Through
      <4> HIDE DEF both
      <4> QED BY <1>3, <4>1, <4>3
    <3>3. CASE i <= n /\ j > n
      <4>1. both[i] <= Len(s) /\ both[j] > Len(s)
        BY <1>7, <3>3
      <4> HIDE DEF both
      <4> QED BY <1>3, <3>0, <4>1
    <3> HIDE DEF both
    <3> QED BY <1>3, <3>0, <3>1, <3>2, <3>3
  <2>3. ASSUME NEW x \in Holding(u, T) PROVE \E k \in 1 .. n + m : both[k] = x
    <3>0. x \in 1 .. Len(s) + Len(t) /\ u[x] \in T
      BY <1>4 DEF Holding
    <3>1. CASE x <= Len(s)
      <4>1. x \in Holding(s, T)
        BY <1>3, <1>4, <3>0, <3>1 DEF Holding
      <4>2. PICK k \in 1 .. n : at[k] = x
        BY <1>1, <4>1 DEF Through
      <4>3. k \in 1 .. n + m /\ k <= n
        BY <1>3
      <4> QED BY <1>7, <4>2, <4>3
    <3>2. CASE x > Len(s)
      <4>1. x - Len(s) \in Holding(t, T)
        BY <1>3, <1>4, <3>0, <3>2 DEF Holding
      <4>2. PICK k \in 1 .. m : by[k] = x - Len(s)
        BY <1>2, <4>1 DEF Through
      <4>3. k + n \in 1 .. n + m /\ k + n > n /\ k + n - n = k
        BY <1>3
      <4>4. both[k + n] = Len(s) + by[k]
        BY <1>3, <1>7, <4>3
      <4> HIDE DEF both
      <4>5. both[k + n] = x
        BY <1>3, <3>0, <4>2, <4>4
      <4> QED BY <4>3, <4>5
    <3> QED BY <1>3, <3>0, <3>1, <3>2
  <2>4. n + m \in Nat
    BY <1>3
  <2> HIDE DEF both
  <2> QED BY <2>1, <2>2, <2>3, <2>4 DEF Through
<1> HIDE DEF both
<1>9. Sifted(u, T) = [k \in 1 .. n + m |-> u[both[k]]]
  BY <1>4, <1>8, SiftedIs
<1> DEFINE a == Sifted(s, T)
           b == Sifted(t, T)
<1>10. /\ a \in Seq(X) /\ b \in Seq(X) /\ Len(a) = n /\ Len(b) = m
       /\ \A k \in 1 .. n : a[k] = s[at[k]]
       /\ \A k \in 1 .. m : b[k] = t[by[k]]
  BY <1>1, <1>2
<1> HIDE DEF a, b
<1>11. /\ a \o b \in Seq(X) /\ Len(a \o b) = n + m
       /\ \A k \in 1 .. n + m : (a \o b)[k] = IF k <= n THEN a[k] ELSE b[k - n]
  BY ZenonT(30), <1>10, ConcatProperties
<1>12. ASSUME NEW k \in 1 .. n + m PROVE (a \o b)[k] = u[both[k]]
  <2>1. CASE k <= n
    <3>1. k \in 1 .. n
      BY <1>3, <2>1
    <3> QED BY <1>7, <1>10, <1>11, <2>1, <3>1
  <2>2. CASE k > n
    <3>1. k - n \in 1 .. m
      BY <1>3, <2>2
    <3>2. ~ (k <= n)
      BY <1>3, <2>2
    <3>3. (a \o b)[k] = t[by[k - n]]
      BY <1>10, <1>11, <3>1, <3>2
    <3> QED BY <1>7, <3>2, <3>3
  <2>3. k <= n \/ k > n
    BY <1>3
  <2> QED BY <2>1, <2>2, <2>3
<1>13. DOMAIN (a \o b) = 1 .. n + m
  BY <1>11, LenProperties
<1> DEFINE c == a \o b
<1>14. c \in Seq(X) /\ DOMAIN c = 1 .. n + m /\ \A k \in 1 .. n + m : c[k] = u[both[k]]
  BY <1>11, <1>12, <1>13
<1> HIDE DEF c
<1>15. c = [k \in 1 .. n + m |-> c[k]]
  BY <1>14, LenProperties
<1>16. c = [k \in 1 .. n + m |-> u[both[k]]]
  BY <1>14, <1>15
<1> QED BY <1>9, <1>16 DEF a, b, c, u

\* The function by which FlattenSeq puts sequences one after the other.
Flow(f, seqs, n) == f = [i \in 1 .. n |-> IF i = 1 THEN seqs[i] ELSE f[i - 1] \o seqs[i]]

\* That recursive function exists.
LEMMA FlowDefined ==
  ASSUME NEW seqs, NEW n \in Nat
  PROVE  \E f : Flow(f, seqs, n)
<1> DEFINE Missing == {m \in Nat : ~ \E f : Flow(f, seqs, m)}
<1>1. SUFFICES ASSUME Missing # {} PROVE FALSE
  OBVIOUS
<1>2. PICK m \in Missing : \A k \in Missing : m <= k
  <2>1. Missing \in SUBSET Nat
    OBVIOUS
  <2> HIDE DEF Missing
  <2> QED BY <1>1, <2>1, FirstExists
<1>3. m \in Nat /\ ~ \E f : Flow(f, seqs, m)
  BY <1>2
<1>4. CASE m = 0
  <2> DEFINE f == [i \in 1 .. m |-> seqs[1]]
  <2>1. 1 .. m = {}
    BY <1>4
  <2>2. Flow(f, seqs, m)
    BY <2>1 DEF Flow
  <2> QED BY <1>3, <2>2
<1>5. CASE m # 0
  <2>1. m - 1 \in Nat /\ m - 1 < m
    BY <1>3, <1>5
  <2>2. m - 1 \notin Missing
    <3> HIDE DEF Missing
    <3> QED BY <1>2, <1>3, <2>1
  <2>3. PICK g : Flow(g, seqs, m - 1)
    BY <2>1, <2>2
  <2> DEFINE new == IF m = 1 THEN seqs[m] ELSE g[m - 1] \o seqs[m]
             f   == [i \in 1 .. m |-> IF i = m THEN new ELSE g[i]]
  <2>4. ASSUME NEW i \in 1 .. m
        PROVE  f[i] = IF i = 1 THEN seqs[i] ELSE f[i - 1] \o seqs[i]
    <3>1. i # 1 => f[i - 1] = g[i - 1]
      <4>1. i # 1 => i - 1 \in 1 .. m /\ i - 1 # m
        BY <1>3
      <4> QED BY <4>1
    <3>2. CASE i = m
      BY <3>1, <3>2
    <3>3. CASE i # m
      <4>1. i \in 1 .. m - 1 /\ f[i] = g[i]
        BY <1>3, <3>3
      <4>2. g[i] = IF i = 1 THEN seqs[i] ELSE g[i - 1] \o seqs[i]
        BY <2>3, <4>1 DEF Flow
      <4> HIDE DEF f
      <4> QED BY <3>1, <4>1, <4>2
    <3> QED BY <3>2, <3>3
  <2>5. Flow(f, seqs, m)
    <3>1. f = [i \in 1 .. m |-> f[i]]
      OBVIOUS
    <3> HIDE DEF f
    <3> QED BY <2>4, <3>1 DEF Flow
  <2> QED BY <1>3, <2>5
<1> QED BY <1>4, <1>5

\* What each step of FlattenSeq adds.
LEMMA FlowSteps ==
  ASSUME NEW seqs, NEW n \in Nat, NEW f, Flow(f, seqs, n)
  PROVE  \A i \in 1 .. n : f[i] = IF i = 1 THEN seqs[i] ELSE f[i - 1] \o seqs[i]
BY DEF Flow

\* What FlattenSeq makes of a sequence that is not empty.
LEMMA FlattenIs ==
  ASSUME NEW seqs, Len(seqs) \in Nat, Len(seqs) # 0
  PROVE  \E f : Flow(f, seqs, Len(seqs)) /\ FlattenSeq(seqs) = f[Len(seqs)]
<1> DEFINE f == CHOOSE f : Flow(f, seqs, Len(seqs))
<1>1. FlattenSeq(seqs) = f[Len(seqs)]
  BY DEF FlattenSeq, Flow
<1>2. \E g : Flow(g, seqs, Len(seqs))
  BY FlowDefined
<1>3. Flow(f, seqs, Len(seqs))
  BY <1>2
<1> QED BY <1>1, <1>3

\* A sequence of sequences, put one after the other, and what is sifted from it: the
\* sequence that holds nothing else, when the others hold nothing of T.
LEMMA FlattenSifts ==
  ASSUME NEW X, NEW seqs, Len(seqs) \in Nat, DOMAIN seqs = 1 .. Len(seqs),
         \A k \in 1 .. Len(seqs) : seqs[k] \in Seq(X),
         seqs = <<>> \/ Len(seqs) # 0, NEW T, NEW p \in 0 .. Len(seqs),
         p # 0 => \A i \in DOMAIN seqs[p] : seqs[p][i] \in T,
         \A k \in 1 .. Len(seqs) : k # p => \A i \in DOMAIN seqs[k] : seqs[k][i] \notin T
  PROVE  /\ FlattenSeq(seqs) \in Seq(X)
         /\ Sifted(FlattenSeq(seqs), T) = IF p = 0 THEN <<>> ELSE seqs[p]
<1> DEFINE n == Len(seqs)
<1>1. CASE n = 0
  <2>1. seqs = <<>> /\ p = 0
    BY <1>1
  <2>2. FlattenSeq(seqs) = <<>>
    BY <1>1, <2>1 DEF FlattenSeq
  <2>3. <<>> \in Seq(X) /\ DOMAIN <<>> = {}
    OBVIOUS
  <2>4. Sifted(<<>>, T) = <<>>
    BY <2>3, SiftedNone
  <2> QED BY <2>1, <2>2, <2>3, <2>4
<1>2. CASE n # 0
  <2>1. PICK f : Flow(f, seqs, n) /\ FlattenSeq(seqs) = f[n]
    BY <1>2, FlattenIs
  <2>2. \A i \in 1 .. n : f[i] = IF i = 1 THEN seqs[i] ELSE f[i - 1] \o seqs[i]
    BY <2>1, FlowSteps
  <2> DEFINE Good(k) == /\ f[k] \in Seq(X)
                        /\ Sifted(f[k], T) = IF p # 0 /\ p <= k THEN seqs[p] ELSE <<>>
             Bad     == {k \in 1 .. n : ~ Good(k)}
  <2>3. ASSUME NEW k \in 1 .. n, k # 1 => Good(k - 1)
        PROVE  Good(k)
    <3>1. seqs[k] \in Seq(X)
      OBVIOUS
    <3>2. Sifted(seqs[k], T) = IF k = p THEN seqs[k] ELSE <<>>
      <4>1. CASE k = p
        <5>1. \A i \in DOMAIN seqs[k] : seqs[k][i] \in T
          BY <4>1
        <5> QED BY <3>1, <4>1, <5>1, SiftedAll
      <4>2. CASE k # p
        BY <3>1, <4>2, SiftedNone
      <4> QED BY <4>1, <4>2
    <3>3. CASE k = 1
      <4>1. f[k] = seqs[k]
        BY <2>2, <3>3
      <4>2. p # 0 /\ p <= k <=> k = p
        BY <3>3
      <4> QED BY <3>1, <3>2, <4>1, <4>2
    <3>4. CASE k # 1
      <4>1. f[k] = f[k - 1] \o seqs[k] /\ f[k - 1] \in Seq(X)
        BY <2>2, <2>3, <3>4
      <4>2. f[k] \in Seq(X)
        BY <3>1, <4>1, ConcatProperties
      <4>3. Sifted(f[k], T) = Sifted(f[k - 1], T) \o Sifted(seqs[k], T)
        <5> DEFINE a == f[k - 1]
                   b == seqs[k]
        <5>1. a \in Seq(X) /\ b \in Seq(X) /\ f[k] = a \o b
          BY <3>1, <4>1
        <5> HIDE DEF a, b
        <5>2. Sifted(a \o b, T) = Sifted(a, T) \o Sifted(b, T)
          BY <5>1, SiftedConcat
        <5> QED BY <5>1, <5>2 DEF a, b
      <4>4. Sifted(f[k - 1], T) = IF p # 0 /\ p <= k - 1 THEN seqs[p] ELSE <<>>
        BY <2>3, <3>4
      <4>5. p # 0 => seqs[p] \in Seq(X)
        OBVIOUS
      <4>6. CASE k = p
        <5>1. ~ (p <= k - 1) /\ p <= k /\ p # 0
          BY <4>6
        <5> QED BY <3>1, <3>2, <4>2, <4>3, <4>4, <4>6, <5>1, ConcatEmptySeq
      <4>7. CASE k # p
        <5>1. p <= k <=> p <= k - 1
          BY <4>7
        <5>2. <<>> \in Seq(X) /\ <<>> \o <<>> = <<>>
          BY ConcatEmptySeq
        <5> QED BY <3>2, <4>2, <4>3, <4>4, <4>5, <4>7, <5>1, <5>2, ConcatEmptySeq
      <4> QED BY <4>6, <4>7
    <3> QED BY <3>3, <3>4
  <2> HIDE DEF Good
  <2>4. Bad = {}
    <3>1. SUFFICES ASSUME Bad # {} PROVE FALSE
      OBVIOUS
    <3>2. PICK k \in Bad : \A j \in Bad : k <= j
      <4>1. Bad \in SUBSET Nat
        OBVIOUS
      <4> HIDE DEF Bad
      <4> QED BY <3>1, <4>1, FirstExists
    <3>3. k \in 1 .. n /\ ~ Good(k)
      OBVIOUS
    <3>4. k # 1 => k - 1 \in 1 .. n /\ k - 1 < k
      BY <3>3
    <3>5. k # 1 => Good(k - 1)
      BY <3>2, <3>4
    <3> QED BY <2>3, <3>3, <3>5
  <2>5. n \in 1 .. n
    BY <1>2
  <2>6. Good(n)
    BY <2>4, <2>5
  <2> QED BY <2>1, <2>5, <2>6 DEF Good
<1> QED BY <1>1, <1>2

----
\* The function by which Stops tells which positions of first .. n are stops.
Walk(f, first, n, next) ==
  f = [i \in first .. n |-> i = first \/ \E j \in first .. i - 1 : next[j] = i /\ f[j]]

\* The members of a finite set, one by one, in some order.
LEMMA SetToSeqIs ==
  ASSUME NEW S, IsFiniteSet(S)
  PROVE  LET f == SetToSeq(S)
             n == Cardinality(S)
         IN  /\ n \in Nat /\ f \in Seq(S) /\ Len(f) = n /\ DOMAIN f = 1 .. n
             /\ \A k \in 1 .. n : f[k] \in S
             /\ \A j, k \in 1 .. n : f[j] = f[k] => j = k
             /\ \A x \in S : \E k \in 1 .. n : f[k] = x
<1> DEFINE n == Cardinality(S)
           f == SetToSeq(S)
<1>1. n \in Nat /\ ExistsBijection(1 .. n, S)
  BY FS_CardinalityType
<1>2. \E g \in [1 .. n -> S] : IsInjective(g)
  BY <1>1 DEF ExistsBijection, Bijection, Injection
<1>3. f \in [1 .. n -> S] /\ IsInjective(f)
  BY <1>2 DEF SetToSeq
<1> HIDE DEF f
<1>4. f \in Surjection(1 .. n, S)
  <2>1. f \in Injection(1 .. n, S)
    BY <1>3 DEF Injection
  <2>2. Cardinality(1 .. n) = n
    <3> HIDE DEF n
    <3>1. Cardinality(1 .. n) = IF 1 > n THEN 0 ELSE n - 1 + 1
      BY <1>1, FS_Interval
    <3> QED BY <1>1, <3>1
  <2> QED BY <2>1, <2>2, FS_Injection
<1>5. f \in Seq(S) /\ Len(f) = n /\ DOMAIN f = 1 .. n
  <2> HIDE DEF n
  <2> QED BY <1>1, <1>3, FunIsSeq
<1>6. \A x \in S : \E k \in 1 .. n : f[k] = x
  BY <1>4 DEF Surjection
<1>7. \A j, k \in 1 .. n : f[j] = f[k] => j = k
  BY <1>3, <1>5 DEF IsInjective
<1>8. \A k \in 1 .. n : f[k] \in S
  BY <1>3
<1> QED BY <1>1, <1>5, <1>6, <1>7, <1>8 DEF f

\* The recursive function of Stops exists on every interval: the one on a shorter
\* interval, extended by one position.
LEMMA StopsDefined ==
  ASSUME NEW first \in Nat, NEW next, NEW n \in Nat
  PROVE  \E f : Walk(f, first, n, next)
<1> DEFINE Missing == {m \in Nat : ~ \E f : Walk(f, first, m, next)}
<1>1. SUFFICES ASSUME Missing # {} PROVE FALSE
  OBVIOUS
<1>2. PICK m \in Missing : \A k \in Missing : m <= k
  <2>1. Missing \in SUBSET Nat
    OBVIOUS
  <2> HIDE DEF Missing
  <2> QED BY <1>1, <2>1, FirstExists
<1>3. m \in Nat /\ ~ \E f : Walk(f, first, m, next)
  BY <1>2
<1>4. CASE m = 0 \/ m < first
  <2> DEFINE f == [i \in first .. m |-> i = first]
  <2>1. \A i \in first .. m : i = first /\ first .. i - 1 = {}
    BY <1>3, <1>4
  <2>2. Walk(f, first, m, next)
    BY <2>1 DEF Walk
  <2> QED BY <1>3, <2>2
<1>5. CASE m # 0 /\ first <= m
  <2>1. m - 1 \in Nat /\ m - 1 < m
    BY <1>3, <1>5
  <2>2. m - 1 \notin Missing
    <3> HIDE DEF Missing
    <3> QED BY <1>2, <1>3, <2>1
  <2>3. PICK g : Walk(g, first, m - 1, next)
    BY <2>1, <2>2
  <2> DEFINE new == m = first \/ \E j \in first .. m - 1 : next[j] = m /\ g[j]
             f   == [i \in first .. m |-> IF i = m THEN new ELSE g[i]]
  <2>4. ASSUME NEW i \in first .. m
        PROVE  f[i] = (i = first \/ \E j \in first .. i - 1 : next[j] = i /\ f[j])
    <3>1. \A j \in first .. i - 1 : f[j] = g[j]
      BY <1>3
    <3>2. CASE i = m
      BY <3>1, <3>2, <1>3, <1>5
    <3>3. CASE i # m
      <4>1. i \in first .. m - 1 /\ f[i] = g[i]
        BY <1>3, <3>3
      <4>2. g[i] = (i = first \/ \E j \in first .. i - 1 : next[j] = i /\ g[j])
        BY <2>3, <4>1 DEF Walk
      <4> QED BY <3>1, <4>1, <4>2
    <3> QED BY <3>2, <3>3
  <2>5. Walk(f, first, m, next)
    BY <2>4 DEF Walk
  <2> QED BY <1>3, <2>5
<1> QED BY <1>3, <1>4, <1>5

\* A position is a stop if it is the first or the next one of a stop.
LEMMA StopsAre ==
  ASSUME NEW first \in Nat, NEW next, NEW n \in Nat
  PROVE  /\ Stops(first, n, next) \subseteq first .. n
         /\ \A i \in first .. n :
              i \in Stops(first, n, next) <=>
                i = first \/ \E j \in first .. i - 1 : next[j] = i /\ j \in Stops(first, n, next)
<1> DEFINE stop == CHOOSE f : Walk(f, first, n, next)
<1>1. Stops(first, n, next) = {i \in first .. n : stop[i]}
  BY DEF Stops, Walk
<1>2. \E f : Walk(f, first, n, next)
  BY StopsDefined
<1>3. Walk(stop, first, n, next)
  BY <1>2
<1> HIDE DEF stop
<1>4. ASSUME NEW i \in first .. n
      PROVE  stop[i] = (i = first \/ \E j \in first .. i - 1 : next[j] = i /\ stop[j])
  BY <1>3 DEF Walk
<1>5. ASSUME NEW i \in first .. n, NEW j \in first .. i - 1
      PROVE  j \in first .. n
  OBVIOUS
<1> QED BY <1>1, <1>4, <1>5

\* A loop that always moves on: its stops cut first .. n into the stretches from
\* one stop to the next.
LEMMA StopsCut ==
  ASSUME NEW first \in Nat, NEW n \in Nat, NEW next,
         \A i \in first .. n : next[i] \in Nat /\ i < next[i]
  PROVE  LET stops == Stops(first, n, next)
         IN  /\ stops \subseteq first .. n
             /\ first <= n => first \in stops
             /\ \A s \in stops : next[s] <= n => next[s] \in stops
             /\ \A i \in first .. n : \E s \in stops : s <= i /\ i < next[s]
             /\ \A s, t \in stops : s < t => next[s] <= t
<1> DEFINE stops == Stops(first, n, next)
<1>1. /\ stops \subseteq first .. n
      /\ \A i \in first .. n :
           i \in stops <=> i = first \/ \E j \in first .. i - 1 : next[j] = i /\ j \in stops
  BY StopsAre
<1> HIDE DEF stops
<1>2. first <= n => first \in stops
  BY <1>1
<1>3. ASSUME NEW s \in stops, next[s] <= n PROVE next[s] \in stops
  <2>1. s \in first .. n /\ next[s] \in Nat /\ s < next[s]
    BY <1>1
  <2>2. PICK t \in Nat : t = next[s]
    BY <2>1
  <2>3. t \in first .. n /\ s \in first .. t - 1
    BY <1>3, <2>1, <2>2
  <2> QED BY <1>1, <2>2, <2>3
<1>4. ASSUME NEW i \in first .. n PROVE \E s \in stops : s <= i /\ i < next[s]
  <2> DEFINE before == {s \in stops : s <= i}
  <2>0. \A x \in stops : x \in Nat
    BY <1>1
  <2>1. before \in SUBSET Nat /\ i \in Nat /\ \A x \in before : x <= i
    BY <2>0
  <2>2. first \in before
    BY <1>2
  <2>3. Max(before) \in before /\ \A x \in before : x <= Max(before)
    <3> HIDE DEF before
    <3> QED BY <2>1, <2>2, MaxOf
  <2> DEFINE s == Max(before)
  <2> HIDE DEF s
  <2>4. s \in stops /\ s <= i /\ s \in first .. n
    BY <1>1, <2>3 DEF s
  <2>5. next[s] \in Nat /\ s < next[s]
    BY <2>4
  <2>6. next[s] <= i => next[s] \in before
    BY <1>3, <2>1, <2>4, <2>5
  <2>7. next[s] \in before => next[s] <= s
    BY <2>3 DEF s
  <2>8. i < next[s]
    BY <2>1, <2>4, <2>5, <2>6, <2>7
  <2> QED BY <2>4, <2>8
<1>5. \A s, t \in stops : s < t => next[s] <= t
  <2> DEFINE Bad == {t \in stops : \E s \in stops : s < t /\ ~ (next[s] <= t)}
  <2>1. SUFFICES ASSUME Bad # {} PROVE FALSE
    OBVIOUS
  <2>2. PICK t \in Bad : \A u \in Bad : t <= u
    <3>1. Bad \in SUBSET Nat
      BY <1>1
    <3> HIDE DEF Bad
    <3> QED BY <2>1, <3>1, FirstExists
  <2>3. PICK s \in stops : s < t /\ ~ (next[s] <= t)
    BY <2>2
  <2>4. /\ t \in stops /\ t \in first .. n /\ s \in first .. n
        /\ t \in Nat /\ s \in Nat /\ next[s] \in Nat /\ s < next[s]
    BY <1>1, <2>2
  <2>5. t # first
    BY <2>3, <2>4
  <2>6. PICK j \in first .. t - 1 : next[j] = t /\ j \in stops
    BY <1>1, <2>4, <2>5
  <2>7. j \in Nat /\ j < t
    BY <2>4
  <2>8. j \notin Bad /\ s \notin Bad
    <3> HIDE DEF Bad
    <3> QED BY <2>2, <2>3, <2>4, <2>7
  <2>9. s < j => next[s] <= j
    BY <2>6, <2>8
  <2>10. j < s => next[j] <= s
    BY <2>6, <2>8
  <2> QED BY <2>3, <2>4, <2>6, <2>7, <2>9, <2>10
<1> QED BY <1>1, <1>2, <1>3, <1>4, <1>5 DEF stops

\* The stops of a loop over 1 .. n, in order: every position lies between a stop
\* and the next, and a stretch ends where the next stop begins or before.
LEMMA LoopStarts ==
  ASSUME NEW n \in Nat, NEW next, \A i \in 1 .. n : next[i] \in Nat /\ i < next[i]
  PROVE  LET firsts == Ordered(Stops(1, n, next))
             m      == Len(firsts)
         IN  /\ m \in Nat /\ firsts \in [1 .. m -> 1 .. n] /\ DOMAIN firsts = 1 .. m
             /\ \A j, k \in 1 .. m : j < k => firsts[j] < firsts[k]
             /\ \A s \in Stops(1, n, next) : \E k \in 1 .. m : firsts[k] = s
             /\ \A h \in 1 .. n : \E k \in 1 .. m : firsts[k] <= h /\ h < next[firsts[k]]
             /\ \A j, k \in 1 .. m : j < k => next[firsts[j]] <= firsts[k]
             /\ \A k \in 1 .. m :
                  next[firsts[k]] <= n => \E j \in 1 .. m : firsts[j] = next[firsts[k]]
<1> DEFINE stops  == Stops(1, n, next)
           firsts == Ordered(stops)
           m      == Len(firsts)
<1>2. /\ stops \subseteq 1 .. n
      /\ \A i \in 1 .. n : \E s \in stops : s <= i /\ i < next[s]
      /\ \A s \in stops : next[s] <= n => next[s] \in stops
      /\ \A s, t \in stops : s < t => next[s] <= t
  <2> HIDE DEF stops
  <2> QED BY StopsCut DEF stops
<1> HIDE DEF stops
<1>3. IsFiniteSet(stops) /\ stops \in SUBSET Nat
  <2>1. IsFiniteSet(1 .. n)
    BY FS_Interval
  <2>2. stops \in SUBSET (1 .. n)
    BY <1>2
  <2>3. stops \in SUBSET Nat
    BY <2>2
  <2> HIDE DEF m, firsts
  <2> QED BY <2>1, <2>2, <2>3, FS_Subset
<1>4. /\ m \in Nat
      /\ firsts \in [1 .. m -> stops]
      /\ \A i, j \in 1 .. m : i < j => firsts[i] < firsts[j]
      /\ \A l \in stops : \E i \in 1 .. m : firsts[i] = l
  BY <1>3, OrderedSorts
<1> HIDE DEF m
<1>5. DOMAIN firsts = 1 .. m
  BY <1>4
<1> HIDE DEF firsts
<1>6. firsts \in [1 .. m -> 1 .. n]
  BY <1>2, <1>4
<1>7. ASSUME NEW h \in 1 .. n PROVE \E k \in 1 .. m : firsts[k] <= h /\ h < next[firsts[k]]
  <2>1. PICK s \in stops : s <= h /\ h < next[s]
    BY <1>2
  <2>2. PICK k \in 1 .. m : firsts[k] = s
    BY <1>4
  <2> QED BY <2>1, <2>2
<1>8. \A j, k \in 1 .. m : j < k => next[firsts[j]] <= firsts[k]
  BY <1>2, <1>4
<1>9. ASSUME NEW k \in 1 .. m, next[firsts[k]] <= n
      PROVE  \E j \in 1 .. m : firsts[j] = next[firsts[k]]
  <2>1. firsts[k] \in stops
    BY <1>4
  <2> QED BY <1>2, <1>4, <1>9, <2>1
<1> QED BY <1>4, <1>5, <1>6, <1>7, <1>8, <1>9 DEF firsts, m, stops

----
\* A link has both its ends in a unit or none.
LEMMA UnitClosed ==
  ASSUME NEW pool, NEW links, NEW l, NEW k \in links, k[1] \in pool, k[2] \in pool
  PROVE  k[1] \in UnitOf(l, pool, links) <=> k[2] \in UnitOf(l, pool, links)
BY DEF UnitOf, Closed

LEMMA UnitHoldsItsLine ==
  ASSUME NEW pool, NEW links, NEW l \in pool
  PROVE  l \in UnitOf(l, pool, links)
BY DEF UnitOf

\* The two ends of a link have the same unit.
LEMMA LinkedUnitsEqual ==
  ASSUME NEW pool, NEW links, NEW k \in links, k[1] \in pool, k[2] \in pool
  PROVE  UnitOf(k[1], pool, links) = UnitOf(k[2], pool, links)
<1>1. \A S \in SUBSET pool : Closed(S, pool, links) => (k[1] \in S <=> k[2] \in S)
  BY DEF Closed
<1> QED BY <1>1 DEF UnitOf

\* A larger pool and more links only make a unit larger.
LEMMA UnitGrows ==
  ASSUME NEW big, NEW pool \in SUBSET big, NEW links, NEW live \in SUBSET links, NEW l \in pool
  PROVE  UnitOf(l, pool, live) \subseteq UnitOf(l, big, links)
<1> SUFFICES ASSUME NEW m \in UnitOf(l, pool, live), NEW S \in SUBSET big,
                    l \in S, Closed(S, big, links)
             PROVE  m \in S
  BY DEF UnitOf
<1>1. S \cap pool \in SUBSET pool /\ l \in S \cap pool
  OBVIOUS
<1>2. Closed(S \cap pool, pool, live)
  BY DEF Closed
<1> QED BY <1>1, <1>2 DEF UnitOf

\* The members of a unit have the same unit.
LEMMA MembersShareUnit ==
  ASSUME NEW pool, NEW links, NEW l \in pool, NEW m \in UnitOf(l, pool, links)
  PROVE  UnitOf(m, pool, links) = UnitOf(l, pool, links)
<1>1. ASSUME NEW S \in SUBSET pool, Closed(S, pool, links) PROVE l \in S <=> m \in S
  <2>1. l \in S => m \in S
    BY <1>1 DEF UnitOf
  <2>2. ASSUME m \in S, l \notin S PROVE FALSE
    <3>1. Closed(pool \ S, pool, links)
      BY <1>1 DEF Closed
    <3>2. pool \ S \in SUBSET pool /\ l \in pool \ S
      BY <2>2
    <3>3. m \in pool \ S
      BY <3>1, <3>2 DEF UnitOf
    <3> QED BY <2>2, <3>3
  <2> QED BY <2>1, <2>2
<1>2. m \in pool
  BY DEF UnitOf
<1> QED BY <1>1, <1>2 DEF UnitOf

\* units_containing takes whole words: a link has both its ends among the lines it
\* returns or none.
THEOREM UnitsContainingClosed ==
  ASSUME NEW pool, NEW links, NEW seeds \in SUBSET pool,
         NEW k \in links, k[1] \in pool, k[2] \in pool
  PROVE  k[1] \in UnitsContaining(seeds, pool, links) <=> k[2] \in UnitsContaining(seeds, pool, links)
<1> DEFINE all == UNION {UnitOf(l, pool, links) : l \in seeds \cap pool}
<1>1. k[1] \in all <=> k[2] \in all
  BY UnitClosed
<1>2. seeds \subseteq all
  BY UnitHoldsItsLine
<1>3. UnitsContaining(seeds, pool, links) = all
  BY <1>2 DEF UnitsContaining
<1> QED BY <1>1, <1>3

----
\* A text and its characters.
LEMMA TextLen ==
  ASSUME NEW t \in TextType
  PROVE  t \in Seq(Char) /\ Len(t) \in Nat /\ DOMAIN t = 1 .. Len(t)
BY LenProperties DEF TextType

\* Stretches of a text.
LEMMA CutFacts ==
  ASSUME NEW t \in TextType, NEW a \in Nat, NEW b \in Nat, a <= b, b <= Len(t)
  PROVE  /\ Cut(t, a, b) \in TextType /\ Len(Cut(t, a, b)) = b - a
         /\ \A i \in 1 .. b - a : Cut(t, a, b)[i] = t[a + i]
<1> DEFINE m == a + 1
<1>1. Len(t) \in Nat /\ t \in Seq(Char)
  BY TextLen
<1>2. \A i \in m .. b : t[i] \in Char
  <2>1. \A i \in m .. b : i \in 1 .. Len(t)
    BY <1>1
  <2> QED BY <1>1, <2>1, ElementOfSeq
<1>3. m \in Int /\ b \in Int
  OBVIOUS
<1> DEFINE c == SubSeq(t, m, b)
<1>4. c \in Seq(Char) /\ Len(c) = (IF m <= b THEN b - m + 1 ELSE 0) /\ \A i \in 1 .. b - m + 1 : c[i] = t[m + i - 1]
  <2> HIDE DEF m
  <2> QED BY <1>2, <1>3, SubSeqProperties
<1>5. Cut(t, a, b) = c
  BY DEF Cut
<1> HIDE DEF c
<1>6. Len(c) = b - a
  <2>1. Len(c) = IF m <= b THEN b - m + 1 ELSE 0
    BY <1>4
  <2> QED BY <2>1
<1>7. ASSUME NEW i \in 1 .. b - a PROVE c[i] = t[a + i]
  <2>1. i \in 1 .. b - m + 1 /\ m + i - 1 = a + i
    OBVIOUS
  <2> QED BY <1>4, <2>1
<1> QED BY <1>4, <1>5, <1>6, <1>7 DEF TextType

\* What is left of a text when its end is trimmed.
LEMMA TrimmedFacts ==
  ASSUME NEW t \in TextType, NEW chars
  PROVE  /\ Trimmed(t, chars) \in TextType
         /\ Len(Trimmed(t, chars)) \in Nat /\ Len(Trimmed(t, chars)) <= Len(t)
         /\ Trimmed(t, chars) # <<>> => Len(Trimmed(t, chars)) \in 1 .. Len(t)
<1> DEFINE S == {0} \cup {i \in DOMAIN t : t[i] \notin chars}
           m == Max(S)
           u == Trimmed(t, chars)
<1>1. Len(t) \in Nat /\ DOMAIN t = 1 .. Len(t)
  BY TextLen
<1>2. m \in 0 .. Len(t)
  <2>1. S \in SUBSET Nat /\ S # {} /\ \A x \in S : x <= Len(t)
    BY <1>1
  <2> HIDE DEF S
  <2>2. Max(S) \in S
    BY <1>1, <2>1, MaxOf
  <2>3. \A x \in S : x \in 0 .. Len(t)
    BY <1>1, <2>1
  <2> QED BY <2>2, <2>3
<1> HIDE DEF m
<1>3. u = Cut(t, 0, m)
  BY DEF Trimmed, Cut, m
<1>4. u \in TextType /\ Len(u) = m - 0
  <2>1. 0 \in Nat /\ 0 <= m /\ m \in Nat /\ m <= Len(t)
    BY <1>1, <1>2
  <2> QED BY <1>3, <2>1, CutFacts
<1>5. u # <<>> => Len(u) # 0
  BY <1>4, EmptySeq DEF TextType
<1> HIDE DEF u
<1> QED BY <1>1, <1>2, <1>4, <1>5 DEF u

LEMMA PreserveTyped ==
  ASSUME NEW source \in TextType, NEW text \in TextType
  PROVE  PreserveBreak(source, text) \in TextType
<1> DEFINE s == Trimmed(source, {Blank, Break})
           t == Trimmed(text, {Blank, Break})
<1>1. CASE ~ (BreaksWord(source) /\ t # <<>> /\ Last(t) \in Marks)
  BY <1>1 DEF PreserveBreak
<1>2. CASE BreaksWord(source) /\ t # <<>> /\ Last(t) \in Marks
  <2>1. s \in TextType /\ Len(s) \in Nat
    BY TrimmedFacts
  <2>2. Len(s) > 1
    BY <1>2 DEF BreaksWord
  <2>3. Last(s) \in Char
    <3> HIDE DEF s
    <3>1. Len(s) \in 1 .. Len(s)
      BY <2>1, <2>2
    <3> QED BY <2>1, <3>1, ElementOfSeq DEF Last, TextType
  <2>4. Len(t) \in 1 .. Len(text)
    BY <1>2, TrimmedFacts
  <2>5. PreserveBreak(source, text) = [text EXCEPT ![Len(t)] = Last(s)]
    BY <1>2 DEF PreserveBreak
  <2> HIDE DEF s, t
  <2> QED BY <2>3, <2>4, <2>5, ExceptSeq DEF TextType
<1> QED BY <1>1, <1>2

LEMMA ReverseTyped ==
  ASSUME NEW t \in TextType
  PROVE  Reverse(t) \in TextType
<1> DEFINE n == Len(t)
           u == [i \in 1 .. n |-> t[(n - i) + 1]]
<1>1. n \in Nat /\ t \in Seq(Char)
  BY TextLen
<1>2. \A i \in 1 .. n : t[(n - i) + 1] \in Char
  <2>1. \A i \in 1 .. n : (n - i) + 1 \in 1 .. Len(t)
    BY <1>1
  <2> QED BY <1>1, <2>1, ElementOfSeq
<1>3. u \in [1 .. n -> Char]
  BY <1>2
<1>4. Reverse(t) = u
  BY DEF Reverse
<1> HIDE DEF u, n
<1> QED BY <1>1, <1>3, <1>4, FunIsSeq DEF TextType

\* A finite set of numbers has a greatest.
LEMMA FiniteMax ==
  ASSUME NEW S \in SUBSET Nat, IsFiniteSet(S), S # {}
  PROVE  Max(S) \in S /\ \A x \in S : x <= Max(S)
<1> DEFINE n == Cardinality(S)
           f == Ordered(S)
<1>1. /\ n \in Nat /\ f \in [1 .. n -> S]
      /\ \A i, j \in 1 .. n : i < j => f[i] < f[j]
      /\ \A x \in S : \E i \in 1 .. n : f[i] = x
  BY OrderedSorts
<1> HIDE DEF n, f
<1>2. n \in 1 .. n
  <2>1. PICK x \in S : TRUE
    OBVIOUS
  <2>2. PICK i \in 1 .. n : f[i] = x
    BY <1>1, <2>1
  <2> QED BY <1>1, <2>2
<1> DEFINE top == f[n]
<1>3. top \in S /\ top \in Nat
  BY <1>1, <1>2
<1>4. ASSUME NEW x \in S PROVE x <= top
  <2>1. PICK i \in 1 .. n : f[i] = x
    BY <1>1
  <2>2. i = n \/ i < n
    BY <1>1
  <2>3. i < n => f[i] < f[n]
    BY <1>1, <1>2
  <2>4. x \in Nat
    OBVIOUS
  <2> QED BY <1>3, <2>1, <2>2, <2>3, <2>4
<1> HIDE DEF top
<1> QED BY <1>3, <1>4, MaxOf

----
\* What holds first and is handed on holds up to the end.
LEMMA HandedOn ==
  ASSUME NEW n \in Nat, NEW S, 0 \in S, \A k \in 1 .. n : k - 1 \in S => k \in S
  PROVE  \A k \in 0 .. n : k \in S
<1> DEFINE T == {k \in 0 .. n : k \notin S}
<1>1. SUFFICES ASSUME T # {} PROVE FALSE
  OBVIOUS
<1>2. PICK m \in T : \A k \in T : m <= k
  <2>1. T \in SUBSET Nat
    OBVIOUS
  <2> HIDE DEF T
  <2> QED BY <1>1, <2>1, FirstExists
<1>3. m \in 1 .. n /\ m \notin S
  <2>1. m \in 0 .. n /\ m \notin S
    BY <1>2
  <2>2. m # 0
    BY <2>1
  <2> QED BY <2>1, <2>2
<1>4. m - 1 \in 0 .. n /\ m - 1 \notin S
  BY <1>3
<1>5. m - 1 \in T
  BY <1>4
<1> HIDE DEF T
<1>6. m <= m - 1
  BY <1>2, <1>5
<1> QED BY <1>3, <1>6

\* A loop of n rounds over the values of X: what the k-th makes of what the one before
\* it left.
Rounds(f, start, step, n) ==
  f = [k \in 0 .. n |-> IF k = 0 THEN start ELSE step[<<k, f[k - 1]>>]]

LEMMA RoundsDefined ==
  ASSUME NEW n \in Nat, NEW X, NEW start \in X, NEW step \in [(1 .. n) \X X -> X]
  PROVE  \E f \in [0 .. n -> X] : Rounds(f, start, step, n)
<1> DEFINE S == {m \in 0 .. n : \E f \in [0 .. m -> X] : Rounds(f, start, step, m)}
<1>1. 0 \in S
  <2> DEFINE f == [k \in 0 .. 0 |-> start]
  <2>1. f \in [0 .. 0 -> X] /\ f = [k \in 0 .. 0 |-> IF k = 0 THEN start ELSE step[<<k, f[k - 1]>>]]
    OBVIOUS
  <2> HIDE DEF f
  <2>2. Rounds(f, start, step, 0)
    BY <2>1 DEF Rounds
  <2> QED BY <2>1, <2>2
<1>2. ASSUME NEW m \in 1 .. n, m - 1 \in S PROVE m \in S
  <2>1. PICK g \in [0 .. m - 1 -> X] : Rounds(g, start, step, m - 1)
    BY <1>2
  <2> DEFINE new == step[<<m, g[m - 1]>>]
             f   == [k \in 0 .. m |-> IF k = m THEN new ELSE g[k]]
  <2>2. new \in X
    <3>1. g[m - 1] \in X
      BY <2>1
    <3>2. <<m, g[m - 1]>> \in (1 .. n) \X X
      BY <3>1
    <3> QED BY <3>2
  <2> HIDE DEF new
  <2>3. f \in [0 .. m -> X]
    <3>1. \A k \in 0 .. m : k # m => k \in 0 .. m - 1
      OBVIOUS
    <3> QED BY <2>1, <2>2, <3>1
  <2>4. ASSUME NEW k \in 0 .. m
        PROVE  f[k] = IF k = 0 THEN start ELSE step[<<k, f[k - 1]>>]
    <3>1. k # 0 => f[k - 1] = g[k - 1]
      <4>1. k # 0 => k - 1 \in 0 .. m /\ k - 1 # m
        OBVIOUS
      <4> QED BY <4>1
    <3>2. CASE k = m
      <4>1. f[k] = step[<<m, g[m - 1]>>]
        BY <3>2 DEF new
      <4>2. k # 0
        BY <3>2
      <4> HIDE DEF f
      <4>3. f[k - 1] = g[m - 1]
        BY <3>1, <3>2, <4>2
      <4> QED BY <3>2, <4>1, <4>2, <4>3
    <3>3. CASE k # m
      <4>1. k \in 0 .. m - 1 /\ f[k] = g[k]
        BY <3>3
      <4>2. g[k] = IF k = 0 THEN start ELSE step[<<k, g[k - 1]>>]
        BY <2>1, <4>1 DEF Rounds
      <4> HIDE DEF f
      <4> QED BY <3>1, <4>1, <4>2
    <3> QED BY <3>2, <3>3
  <2>5. Rounds(f, start, step, m)
    <3>1. f = [k \in 0 .. m |-> f[k]]
      OBVIOUS
    <3> HIDE DEF f
    <3> QED BY <2>4, <3>1 DEF Rounds
  <2> HIDE DEF f
  <2>6. m \in 0 .. n
    OBVIOUS
  <2> QED BY <2>3, <2>5, <2>6
<1>3. \A m \in 1 .. n : m - 1 \in S => m \in S
  BY <1>2
<1> HIDE DEF S
<1>4. n \in S
  BY <1>1, <1>3, HandedOn
<1> QED BY <1>4 DEF S

====
