---- MODULE PlannerProofs ----
(***************************************************************************)
(* Theorems about the chunk planner and the image-cap batching.            *)
(*                                                                         *)
(* The loops of the planner are sequences of stops (Stops, Gathered,       *)
(* Windows, Chains): a loop that always moves on cuts the page into the    *)
(* stretches from one stop to the next (StopsCut), and from there on       *)
(* everything is about sets and positions.  Each attempt of plan_page      *)
(* gives a plan that is Sound; capping keeps it so, siblings of whole      *)
(* units; the state invariant PlanInv carries that through the descent.    *)
(***************************************************************************)
EXTENDS PlannerCheck, BasicFacts

\* A sequence of sets that cuts S: every member of S lies in exactly one of them.
CutInto(G, S) ==
  /\ G \in Seq(SUBSET S)
  /\ \A l \in S : \E k \in DOMAIN G : l \in G[k]
  /\ \A j, k \in DOMAIN G : j # k => G[j] \cap G[k] = {}

\* What a loop gathers is a cut again, of whole groups.
LEMMA GatheredCut ==
  ASSUME NEW S, NEW groups, CutInto(groups, S), NEW next,
         \A i \in 1 .. Len(groups) : next[i] \in i + 1 .. Len(groups) + 1
  PROVE  LET G == Gathered(groups, next)
         IN  /\ CutInto(G, S)
             /\ \A k \in DOMAIN G : \E s \in 1 .. Len(groups) :
                  G[k] = UNION {groups[h] : h \in s .. next[s] - 1}
             /\ \A h \in 1 .. Len(groups) : \E k \in DOMAIN G : groups[h] \subseteq G[k]
<1> DEFINE n      == Len(groups)
           firsts == Ordered(Stops(1, n, next))
           m      == Len(firsts)
           G      == Gathered(groups, next)
<1>1. n \in Nat /\ DOMAIN groups = 1 .. n /\ \A h \in 1 .. n : groups[h] \in SUBSET S
  BY LenProperties DEF CutInto
<1> HIDE DEF n
<1>2. \A i \in 1 .. n : next[i] \in i + 1 .. n + 1
  BY DEF n
<1>3. \A i \in 1 .. n : next[i] \in Nat /\ i < next[i]
  BY <1>1, <1>2
<1>4. /\ m \in Nat /\ firsts \in [1 .. m -> 1 .. n] /\ DOMAIN firsts = 1 .. m
      /\ \A h \in 1 .. n : \E k \in 1 .. m : firsts[k] <= h /\ h < next[firsts[k]]
      /\ \A j, k \in 1 .. m : j < k => next[firsts[j]] <= firsts[k]
  BY <1>1, <1>3, LoopStarts
<1>5. G = [k \in 1 .. m |-> UNION {groups[h] : h \in firsts[k] .. next[firsts[k]] - 1}]
  BY <1>4 DEF Gathered, n
<1> HIDE DEF G, firsts, m
<1>6. ASSUME NEW k \in 1 .. m
      PROVE  /\ firsts[k] \in 1 .. n /\ next[firsts[k]] \in firsts[k] + 1 .. n + 1
             /\ firsts[k] .. next[firsts[k]] - 1 \subseteq 1 .. n
  <2>1. PICK s \in 1 .. n : s = firsts[k]
    BY <1>4
  <2>2. PICK e \in s + 1 .. n + 1 : e = next[s]
    BY <1>2
  <2>3. s .. e - 1 \subseteq 1 .. n
    BY <1>1
  <2> QED BY <2>1, <2>2, <2>3
<1>7. \A k \in 1 .. m : G[k] \in SUBSET S
  BY <1>1, <1>5, <1>6
<1>8. G \in Seq(SUBSET S) /\ DOMAIN G = 1 .. m
  <2>1. G \in [1 .. m -> SUBSET S]
    BY <1>5, <1>7
  <2> QED BY <1>4, <2>1
<1>9. ASSUME NEW h \in 1 .. n PROVE \E k \in 1 .. m : groups[h] \subseteq G[k]
  <2>1. PICK k \in 1 .. m : firsts[k] <= h /\ h < next[firsts[k]]
    BY <1>4
  <2>2. firsts[k] \in 1 .. n /\ next[firsts[k]] \in Nat
    BY <1>3, <1>4
  <2>3. h \in firsts[k] .. next[firsts[k]] - 1
    BY <1>1, <2>1, <2>2
  <2> QED BY <1>5, <2>3
<1>10. ASSUME NEW j \in 1 .. m, NEW k \in 1 .. m, j < k PROVE G[j] \cap G[k] = {}
  <2>1. SUFFICES ASSUME NEW l \in G[j] \cap G[k] PROVE FALSE
    OBVIOUS
  <2>2. PICK g \in firsts[j] .. next[firsts[j]] - 1 : l \in groups[g]
    BY <1>5, <2>1
  <2>3. PICK h \in firsts[k] .. next[firsts[k]] - 1 : l \in groups[h]
    BY <1>5, <2>1
  <2>4. next[firsts[j]] <= firsts[k]
    BY <1>4, <1>10
  <2>5. firsts[j] \in 1 .. n /\ firsts[k] \in 1 .. n
    BY <1>4
  <2>6. g < h
    <3>1. PICK a \in 1 .. n, b \in 1 .. n : a = firsts[j] /\ b = firsts[k]
      BY <2>5
    <3>2. PICK x \in Nat, y \in Nat : x = next[a] /\ y = next[b]
      BY <1>3
    <3>3. g \in a .. x - 1 /\ h \in b .. y - 1 /\ x <= b
      BY <2>4, <3>1, <3>2
    <3> QED BY <1>1, <3>1, <3>2, <3>3
  <2>7. g \in 1 .. n /\ h \in 1 .. n
    BY <1>6, <2>2, <2>3
  <2>8. g # h
    BY <1>1, <2>6, <2>7
  <2>9. groups[g] \cap groups[h] = {}
    BY <1>1, <2>7, <2>8 DEF CutInto
  <2> QED BY <2>2, <2>3, <2>9
<1>11. \A j, k \in 1 .. m : j # k => G[j] \cap G[k] = {}
  <2> SUFFICES ASSUME NEW j \in 1 .. m, NEW k \in 1 .. m, j # k PROVE G[j] \cap G[k] = {}
    OBVIOUS
  <2>1. j < k \/ k < j
    BY <1>4
  <2> QED BY <1>10, <2>1
<1>12. \A l \in S : \E k \in 1 .. m : l \in G[k]
  BY <1>1, <1>9 DEF CutInto
<1>13. CutInto(G, S)
  BY <1>8, <1>11, <1>12 DEF CutInto
<1>14. \A k \in 1 .. m : \E s \in 1 .. n : G[k] = UNION {groups[h] : h \in s .. next[s] - 1}
  BY <1>5, <1>6
<1> QED BY <1>8, <1>9, <1>13, <1>14 DEF G, n

\* The first position past which a run of groups no longer holds.
LEMMA FirstPast ==
  ASSUME NEW n \in Nat, NEW i \in 1 .. n, NEW over \in SUBSET (i + 1 .. n)
  PROVE  /\ Min(over \cup {n + 1}) \in i + 1 .. n + 1
         /\ \A j \in i + 1 .. Min(over \cup {n + 1}) - 1 : j \notin over
<1> DEFINE T == over \cup {n + 1}
<1>1. T \in SUBSET Nat /\ T # {} /\ T \subseteq i + 1 .. n + 1
  OBVIOUS
<1> HIDE DEF T
<1>2. Min(T) \in T /\ \A x \in T : Min(T) <= x
  BY <1>1, MinOf
<1>3. Min(T) \in i + 1 .. n + 1
  BY <1>1, <1>2
<1>4. \A j \in i + 1 .. Min(T) - 1 : j \notin T
  BY <1>2, <1>3
<1> QED BY <1>3, <1>4 DEF T

\* What _coalesce puts together fits both budgets, as each group does.
LEMMA ClosesInTime ==
  ASSUME NEW S, NEW groups \in Seq(SUBSET S), NEW c, \A i \in DOMAIN groups : Fits(groups[i], c)
  PROVE  LET next == Closes(groups, c)
         IN  \A i \in 1 .. Len(groups) :
               /\ next[i] \in i + 1 .. Len(groups) + 1
               /\ Fits(UNION {groups[h] : h \in i .. next[i] - 1}, c)
<1> DEFINE n == Len(groups)
<1>1. n \in Nat /\ DOMAIN groups = 1 .. n
  BY LenProperties
<1> SUFFICES ASSUME NEW i \in 1 .. n
             PROVE  /\ Closes(groups, c)[i] \in i + 1 .. n + 1
                    /\ Fits(UNION {groups[h] : h \in i .. Closes(groups, c)[i] - 1}, c)
  OBVIOUS
<1> DEFINE over == {j \in i + 1 .. n : ~ Fits(UNION {groups[h] : h \in i .. j}, c)}
<1>2. Closes(groups, c)[i] = Min(over \cup {n + 1})
  BY <1>1 DEF Closes
<1>3. over \in SUBSET (i + 1 .. n)
  OBVIOUS
<1> HIDE DEF n
<1>4. PICK e : e = Closes(groups, c)[i]
  OBVIOUS
<1>5. e \in i + 1 .. n + 1 /\ \A j \in i + 1 .. e - 1 : j \notin over
  <2> HIDE DEF over
  <2>1. e = Min(over \cup {n + 1})
    BY <1>2, <1>4
  <2> QED BY <1>1, <1>3, <2>1, FirstPast
<1>6. CASE e = i + 1
  <2>1. i .. e - 1 = {i}
    BY <1>1, <1>6
  <2>2. UNION {groups[h] : h \in i .. e - 1} = groups[i]
    BY <2>1
  <2> QED BY <1>1, <1>4, <1>5, <2>2
<1>7. CASE e # i + 1
  <2>1. e - 1 \in i + 1 .. n /\ e - 1 \in i + 1 .. e - 1
    BY <1>1, <1>5, <1>7
  <2>2. e - 1 \notin over
    BY <1>5, <2>1
  <2> QED BY <1>4, <1>5, <2>1, <2>2
<1> QED BY <1>6, <1>7

IsConfig(c) ==
  /\ c \in [maxLines : Nat \ {0}, maxChars : Nat \ {0}, window : Nat \ {0},
            overlap : Nat, coalesce : BOOLEAN, cap : Nat]
  /\ c.overlap < c.window

\* What every set of lines of the universe is.
LEMMA PageFacts ==
  ASSUME NEW S \in SUBSET Lines
  PROVE  S \in SUBSET Nat /\ IsFiniteSet(S) /\ Cardinality(S) \in Nat
<1>1. IsFiniteSet(S)
  BY PageAssumption, FS_Subset
<1>2. S \in SUBSET Nat
  BY PageAssumption
<1> QED BY <1>1, <1>2, FS_CardinalityType

\* A page has finitely many characters.
LEMMA CharactersFinite ==
  ASSUME NEW S \in SUBSET Lines
  PROVE  IsFiniteSet(Characters(S))
<1> DEFINE T == {{l} \X (1 .. Chars[l]) : l \in S}
           f == [l \in S |-> {l} \X (1 .. Chars[l])]
<1>1. f \in Surjection(S, T)
  BY DEF Surjection
<1>2. IsFiniteSet(T)
  <2> HIDE DEF f, T
  <2> QED BY <1>1, PageFacts, FS_Surjection
<1>3. ASSUME NEW l \in S PROVE IsFiniteSet({l} \X (1 .. Chars[l]))
  <2>1. Chars[l] \in Nat
    BY PageAssumption
  <2>2. IsFiniteSet({l}) /\ IsFiniteSet(1 .. Chars[l])
    <3>1. Chars[l] \in Int /\ 1 \in Int
      BY <2>1
    <3>2. IsFiniteSet(1 .. Chars[l])
      BY <3>1, FS_Interval
    <3>3. IsFiniteSet({l})
      BY FS_Singleton
    <3> QED BY <3>2, <3>3
  <2> QED BY <2>2, FS_Product
<1>4. \A t \in T : IsFiniteSet(t)
  BY <1>3
<1>5. IsFiniteSet(UNION T)
  <2> HIDE DEF T
  <2> QED BY <1>2, <1>4, FS_UNION
<1> QED BY <1>5 DEF Characters

\* Fewer lines have fewer characters.
LEMMA CharsLess ==
  ASSUME NEW T \in SUBSET Lines, NEW S \in SUBSET T
  PROVE  TotalChars(S) \in Nat /\ TotalChars(T) \in Nat /\ TotalChars(S) <= TotalChars(T)
<1>1. Characters(S) \in SUBSET Characters(T)
  BY DEF Characters
<1>2. IsFiniteSet(Characters(T))
  BY CharactersFinite
<1>3. /\ IsFiniteSet(Characters(S))
      /\ Cardinality(Characters(S)) <= Cardinality(Characters(T))
  BY <1>1, <1>2, FS_Subset
<1> QED BY <1>2, <1>3, FS_CardinalityType DEF TotalChars

\* Fewer lines fit what more lines fit.
LEMMA FitsLess ==
  ASSUME NEW T \in SUBSET Lines, NEW S \in SUBSET T, NEW c, IsConfig(c), Fits(T, c)
  PROVE  Fits(S, c)
<1>1. TotalChars(S) \in Nat /\ TotalChars(T) \in Nat /\ TotalChars(S) <= TotalChars(T)
  BY CharsLess
<1>2. IsFiniteSet(T) /\ S \in SUBSET Lines
  BY PageFacts
<1>3. /\ Cardinality(S) <= Cardinality(T)
      /\ Cardinality(S) \in Nat /\ Cardinality(T) \in Nat
  BY <1>2, PageFacts, FS_Subset
<1> QED BY <1>1, <1>3 DEF Fits, IsConfig

\* The head block of a line is a block number.
LEMMA HeadsAreBlocks ==
  ASSUME NEW S \in SUBSET Lines, NEW K, NEW l \in S
  PROVE  HeadBlocks(S, K)[l] \in Nat
<1> DEFINE blocks == {BlockOf[m] : m \in S}
           spans  == {<<BlockOf[a], BlockOf[b]>> : a \in S, b \in S} \cap
                     UNION {{<<BlockOf[a], BlockOf[b]>> : b \in UnitOf(a, S, K)} : a \in S}
           unit   == UnitOf(BlockOf[l], blocks, spans)
<1>1. blocks \in SUBSET Nat /\ BlockOf[l] \in blocks
  BY PageAssumption
<1>2. HeadBlocks(S, K)[l] = Min(unit)
  BY DEF HeadBlocks
<1> HIDE DEF blocks, spans
<1>3. unit \in SUBSET Nat /\ BlockOf[l] \in unit
  BY <1>1, UnitHoldsItsLine DEF UnitOf
<1> HIDE DEF unit
<1>4. Min(unit) \in unit
  BY <1>3, MinOf
<1> QED BY <1>2, <1>3, <1>4

\* A link does not leave the blocks of its tail.
LEMMA LinkedHeads ==
  ASSUME NEW S \in SUBSET Lines, NEW K, NEW k \in K, k[1] \in S, k[2] \in S
  PROVE  HeadBlocks(S, K)[k[1]] = HeadBlocks(S, K)[k[2]]
<1> DEFINE blocks == {BlockOf[m] : m \in S}
           spans  == {<<BlockOf[a], BlockOf[b]>> : a \in S, b \in S} \cap
                     UNION {{<<BlockOf[a], BlockOf[b]>> : b \in UnitOf(a, S, K)} : a \in S}
           span   == <<BlockOf[k[1]], BlockOf[k[2]]>>
<1>1. k[2] \in UnitOf(k[1], S, K)
  BY UnitHoldsItsLine, UnitClosed
<1>2. span \in spans /\ span[1] \in blocks /\ span[2] \in blocks
  BY <1>1
<1>3. /\ HeadBlocks(S, K)[k[1]] = Min(UnitOf(span[1], blocks, spans))
      /\ HeadBlocks(S, K)[k[2]] = Min(UnitOf(span[2], blocks, spans))
  BY DEF HeadBlocks
<1> HIDE DEF span, spans, blocks
<1>4. UnitOf(span[1], blocks, spans) = UnitOf(span[2], blocks, spans)
  BY <1>2, LinkedUnitsEqual
<1> QED BY <1>3, <1>4

\* The groups of blocks cut the page, and none cuts a link.
LEMMA BlockGroupsCut ==
  ASSUME NEW S \in SUBSET Lines, NEW K
  PROVE  /\ CutInto(BlockGroups(S, K), S)
         /\ \A k \in K : k[1] \in S /\ k[2] \in S =>
              \A i \in DOMAIN BlockGroups(S, K) :
                k[1] \in BlockGroups(S, K)[i] <=> k[2] \in BlockGroups(S, K)[i]
<1> DEFINE head  == HeadBlocks(S, K)
           T     == {head[l] : l \in S}
           heads == Ordered(T)
           n     == Cardinality(T)
           G     == BlockGroups(S, K)
           f     == [l \in S |-> head[l]]
<1>1. T \in SUBSET Nat
  BY HeadsAreBlocks
<1>2. IsFiniteSet(T)
  <2>1. f \in Surjection(S, T)
    BY DEF Surjection
  <2> HIDE DEF f, T
  <2> QED BY <2>1, PageFacts, FS_Surjection
<1>3. /\ n \in Nat /\ heads \in [1 .. n -> T]
      /\ \A i, j \in 1 .. n : i < j => heads[i] < heads[j]
      /\ \A h \in T : \E i \in 1 .. n : heads[i] = h
  <2> HIDE DEF T
  <2> QED BY <1>1, <1>2, OrderedSorts
<1>4. DOMAIN heads = 1 .. n
  BY <1>3
<1>5. G = [i \in 1 .. n |-> {l \in S : head[l] = heads[i]}]
  BY <1>4 DEF BlockGroups
<1> HIDE DEF G, heads, n
<1>6. G \in Seq(SUBSET S) /\ DOMAIN G = 1 .. n
  <2>1. G \in [1 .. n -> SUBSET S]
    BY <1>5
  <2> QED BY <1>3, <1>5, <2>1
<1>7. ASSUME NEW l \in S PROVE \E i \in 1 .. n : l \in G[i]
  BY <1>3, <1>5
<1>8. ASSUME NEW i \in 1 .. n, NEW j \in 1 .. n, i # j PROVE heads[i] # heads[j]
  <2>1. heads[i] \in Nat /\ heads[j] \in Nat
    BY <1>1, <1>3
  <2>2. i < j \/ j < i
    BY <1>3, <1>8
  <2> QED BY <1>3, <2>1, <2>2
<1>9. \A i, j \in 1 .. n : i # j => G[i] \cap G[j] = {}
  BY <1>5, <1>8
<1>10. CutInto(G, S)
  BY <1>6, <1>7, <1>9 DEF CutInto
<1>11. ASSUME NEW k \in K, k[1] \in S, k[2] \in S, NEW i \in 1 .. n
       PROVE  k[1] \in G[i] <=> k[2] \in G[i]
  <2>1. head[k[1]] = head[k[2]]
    BY <1>11, LinkedHeads
  <2> QED BY <1>5, <1>11, <2>1
<1> QED BY <1>6, <1>10, <1>11 DEF G

\* `ls` is the page S in reading order.
Reading(ls, S) ==
  /\ S \in SUBSET Lines
  /\ ls \in Seq(S) /\ Len(ls) \in Nat
  /\ ls \in [1 .. Len(ls) -> S] /\ DOMAIN ls = 1 .. Len(ls)
  /\ \A i, j \in 1 .. Len(ls) : i < j => ls[i] < ls[j]
  /\ \A l \in S : \E i \in 1 .. Len(ls) : ls[i] = l

\* Ordered(S) is the page in reading order.
LEMMA OrderedReads ==
  ASSUME NEW S \in SUBSET Lines
  PROVE  Reading(Ordered(S), S)
<1>1. S \in SUBSET Nat /\ IsFiniteSet(S)
  BY PageFacts
<1>2. /\ Ordered(S) \in Seq(S) /\ Len(Ordered(S)) = Cardinality(S) /\ Cardinality(S) \in Nat
      /\ Ordered(S) \in [1 .. Cardinality(S) -> S]
      /\ \A i, j \in 1 .. Cardinality(S) : i < j => Ordered(S)[i] < Ordered(S)[j]
      /\ \A l \in S : \E i \in 1 .. Cardinality(S) : Ordered(S)[i] = l
  BY <1>1, OrderedSorts
<1> QED BY <1>2 DEF Reading

\* A line has one position, and the order of two lines is that of their positions.
LEMMA ReadingPositions ==
  ASSUME NEW S, NEW ls, Reading(ls, S), NEW i \in 1 .. Len(ls), NEW j \in 1 .. Len(ls)
  PROVE  /\ ls[i] = ls[j] <=> i = j
         /\ ls[i] < ls[j] <=> i < j
         /\ ls[i] \in S /\ ls[i] \in Nat
<1>1. ls[i] \in S /\ ls[j] \in S /\ ls[i] \in Nat /\ ls[j] \in Nat
  BY PageAssumption DEF Reading
<1>2. i \in Int /\ j \in Int
  BY DEF Reading
<1>3. (i < j => ls[i] < ls[j]) /\ (j < i => ls[j] < ls[i])
  BY DEF Reading
<1>4. i < j \/ i = j \/ j < i
  BY <1>2
<1> QED BY <1>1, <1>2, <1>3, <1>4

\* PositionOf finds the position.
LEMMA PositionIs ==
  ASSUME NEW S, NEW ls, Reading(ls, S), NEW i \in 1 .. Len(ls)
  PROVE  PositionOf(ls, ls[i]) = i
<1>1. i \in DOMAIN ls /\ \A j \in DOMAIN ls : ls[j] = ls[i] => j = i
  BY ReadingPositions DEF Reading
<1> QED BY <1>1 DEF PositionOf

\* A stretch of a page: lines of the page, as many as positions.
LEMMA LinesInFacts ==
  ASSUME NEW S, NEW ls, Reading(ls, S),
         NEW start \in 1 .. Len(ls), NEW end \in start .. Len(ls) + 1
  PROVE  /\ LinesIn(ls, start, end) \in SUBSET S
         /\ Cardinality(LinesIn(ls, start, end)) = end - start
         /\ \A i \in 1 .. Len(ls) : ls[i] \in LinesIn(ls, start, end) <=> start <= i /\ i < end
<1> DEFINE n == Len(ls)
           T == LinesIn(ls, start, end)
           f == [i \in start .. end - 1 |-> ls[i]]
<1>1. start \in Int /\ end \in Int /\ n \in Nat /\ start <= end /\ end <= n + 1
  BY DEF Reading
<1>2. start .. end - 1 \subseteq 1 .. n
  <2> HIDE DEF n
  <2>1. start >= 1
    OBVIOUS
  <2> QED BY <1>1, <2>1
<1>3. T \in SUBSET S
  BY <1>2 DEF LinesIn, Reading
<1>4. f \in Surjection(start .. end - 1, T)
  BY DEF Surjection, LinesIn
<1>5. IsFiniteSet(start .. end - 1) /\ Cardinality(start .. end - 1) = end - start
  <2>1. start \in Int /\ end - 1 \in Int /\ start <= end
    BY <1>1
  <2>2. /\ IsFiniteSet(start .. end - 1)
        /\ Cardinality(start .. end - 1) = IF start > end - 1 THEN 0 ELSE end - 1 - start + 1
    BY <2>1, FS_Interval
  <2> QED BY <1>1, <2>2
<1>6. f \in Injection(start .. end - 1, T)
  <2>1. \A i, j \in start .. end - 1 : f[i] = f[j] => i = j
    BY <1>2, ReadingPositions
  <2>2. f \in [start .. end - 1 -> T]
    BY <1>4 DEF Surjection
  <2> HIDE DEF T, f
  <2> QED BY <2>1, <2>2 DEF Injection, IsInjective
<1>7. Cardinality(T) = end - start
  <2> HIDE DEF T, f
  <2> QED BY <1>4, <1>5, <1>6, FS_Surjection
<1>8. ASSUME NEW i \in 1 .. n PROVE ls[i] \in T <=> start <= i /\ i < end
  <2>1. ls[i] \in T <=> \E j \in start .. end - 1 : ls[j] = ls[i]
    BY DEF LinesIn
  <2>2. \A j \in start .. end - 1 : ls[j] = ls[i] <=> j = i
    BY <1>2, ReadingPositions
  <2>3. i \in Int
    OBVIOUS
  <2> QED BY <1>1, <2>1, <2>2, <2>3
<1> QED BY <1>3, <1>7, <1>8

\* Links of the page's lines, as the linker leaves them.
LinksOf(K) == K \subseteq Lines \X Lines /\ WellLinked(K)

----
\* Where a window's core ends.
LEMMA CoreEndFacts ==
  ASSUME NEW S, NEW ls, Reading(ls, S), NEW c, IsConfig(c), NEW start \in 1 .. Len(ls)
  PROVE  /\ CoreEnd(ls, start, c) \in start + 1 .. Len(ls) + 1
         /\ CoreEnd(ls, start, c) <= start + c.window
         /\ \A e \in start + 1 .. Len(ls) + 1 :
              e <= start + c.window /\ TotalChars(LinesIn(ls, start, e)) <= c.maxChars
                => e <= CoreEnd(ls, start, c)
         /\ \/ CoreEnd(ls, start, c) = start + 1
            \/ TotalChars(LinesIn(ls, start, CoreEnd(ls, start, c))) <= c.maxChars
<1> DEFINE n    == Len(ls)
           most == Min({start + c.window, n + 1})
           T    == {start + 1} \cup
                   {e \in start + 1 .. most : TotalChars(LinesIn(ls, start, e)) <= c.maxChars}
<1>1. n \in Nat /\ start \in Nat /\ start <= n /\ c.window \in Nat \ {0}
  BY DEF Reading, IsConfig
<1>2. /\ most \in Nat /\ most <= start + c.window /\ most <= n + 1 /\ start + 1 <= most
      /\ most = start + c.window \/ most = n + 1
  <2> HIDE DEF n
  <2>1. {start + c.window, n + 1} \in SUBSET Nat
    BY <1>1
  <2>2. most \in {start + c.window, n + 1} /\ \A x \in {start + c.window, n + 1} : most <= x
    BY <2>1, MinOf
  <2> HIDE DEF most
  <2> QED BY <1>1, <2>2
<1> HIDE DEF most, n
<1>3. T \in SUBSET Nat /\ T # {} /\ \A x \in T : x <= most
  BY <1>1, <1>2
<1>4. CoreEnd(ls, start, c) = Max(T)
  BY DEF CoreEnd, most, n
<1>5. \A x \in T : x \in start + 1 .. most
  BY <1>1, <1>2
<1>6. \A e \in start + 1 .. most : TotalChars(LinesIn(ls, start, e)) <= c.maxChars => e \in T
  OBVIOUS
<1>t. \A x \in T : x = start + 1 \/ TotalChars(LinesIn(ls, start, x)) <= c.maxChars
  OBVIOUS
<1> HIDE DEF T
<1>7. Max(T) \in T /\ \A x \in T : x <= Max(T)
  BY <1>2, <1>3, MaxOf
<1>8. Max(T) \in start + 1 .. n + 1 /\ Max(T) <= start + c.window
  BY <1>1, <1>2, <1>5, <1>7
<1>9. ASSUME NEW e \in start + 1 .. n + 1, e <= start + c.window,
             TotalChars(LinesIn(ls, start, e)) <= c.maxChars
      PROVE  e <= Max(T)
  <2>1. e \in start + 1 .. most
    BY <1>1, <1>2, <1>9
  <2> QED BY <1>6, <1>7, <1>9, <2>1
<1> QED BY <1>4, <1>7, <1>8, <1>9, <1>t DEF n

\* The next window starts further on, and no position between two starts lies
\* outside the core of the first.
LEMMA NextStartFacts ==
  ASSUME NEW S, NEW ls, Reading(ls, S), NEW c, IsConfig(c), NEW start \in 1 .. Len(ls)
  PROVE  /\ NextStart(ls, start, c) \in Nat /\ start < NextStart(ls, start, c)
         /\ \A p \in start .. Len(ls) : p < NextStart(ls, start, c) => p < CoreEnd(ls, start, c)
         /\ \A p \in start + 1 .. Len(ls) - 1 :
              c.overlap >= 1 /\ CoreEnd(ls, start, c) <= p + 1 => NextStart(ls, start, c) <= p
<1> DEFINE n     == Len(ls)
           core  == CoreEnd(ls, start, c)
           most  == Min({start + c.window, n + 1})
           x     == IF core < most THEN core - c.overlap ELSE start + c.window - c.overlap
<1>1. /\ n \in Nat /\ start \in Nat /\ start <= n
      /\ c.window \in Nat \ {0} /\ c.overlap \in Nat /\ c.overlap < c.window
  BY DEF Reading, IsConfig
<1>2. core \in start + 1 .. n + 1 /\ core <= start + c.window
  BY CoreEndFacts
<1> HIDE DEF core, n
<1>3. /\ most \in Nat /\ most <= start + c.window /\ most <= n + 1
      /\ most = start + c.window \/ most = n + 1
  <2>1. {start + c.window, n + 1} \in SUBSET Nat
    BY <1>1
  <2>2. most \in {start + c.window, n + 1} /\ \A y \in {start + c.window, n + 1} : most <= y
    BY <2>1, MinOf
  <2> HIDE DEF most
  <2> QED BY <1>1, <2>2
<1>4. NextStart(ls, start, c) = Max({start + 1, x})
  BY DEF NextStart, core, n
<1> HIDE DEF most
<1>5. x \in Int /\ x <= start + c.window
  BY <1>1, <1>2, <1>3
<1>6. Max({start + 1, x}) = IF start + 1 >= x THEN start + 1 ELSE x
  <2> HIDE DEF x
  <2> DEFINE r == IF start + 1 >= x THEN start + 1 ELSE x
  <2>1. r \in {start + 1, x} /\ \A y \in {start + 1, x} : r >= y
    BY <1>1, <1>5
  <2>2. \A z \in {start + 1, x} : (\A y \in {start + 1, x} : z >= y) => z = r
    BY <1>1, <1>5
  <2> HIDE DEF r
  <2>3. Max({start + 1, x}) = r
    BY <2>1, <2>2 DEF Max
  <2> QED BY <2>3 DEF r
<1> HIDE DEF x
<1>7. NextStart(ls, start, c) \in Nat /\ start < NextStart(ls, start, c)
  BY <1>1, <1>4, <1>5, <1>6
<1>8. ASSUME NEW p \in start .. n, p < NextStart(ls, start, c) PROVE p < core
  <2>1. p < start + 1 \/ p < x
    BY <1>1, <1>4, <1>5, <1>6, <1>8
  <2>2. CASE p < start + 1
    BY <1>1, <1>2, <2>2
  <2>3. CASE p < x /\ core < most
    BY <1>1, <1>2, <1>3, <2>3 DEF x
  <2>4. CASE p < x /\ ~ (core < most)
    BY <1>1, <1>2, <1>3, <2>4 DEF x
  <2> QED BY <2>1, <2>2, <2>3, <2>4
<1>9. ASSUME NEW p \in start + 1 .. n - 1, c.overlap >= 1, core <= p + 1
      PROVE  NextStart(ls, start, c) <= p
  <2>1. x <= p
    BY <1>1, <1>2, <1>3, <1>9 DEF x
  <2> QED BY <1>1, <1>4, <1>5, <1>6, <2>1
<1> QED BY <1>7, <1>8, <1>9 DEF core, n

\* An end that the reach does not pass is left by no link.
LEMMA ReachHolds ==
  ASSUME NEW S, NEW ls, Reading(ls, S), NEW K, NEW start \in 1 .. Len(ls),
         NEW end \in start .. Len(ls) + 1, UnitReach(ls, K, start, end) <= end,
         NEW j \in start .. Len(ls), NEW i \in start .. Len(ls), j < end, end <= i
  PROVE  <<ls[j], ls[i]>> \notin K
<1> DEFINE n      == Len(ls)
           leaves == {k \in K : k[1] \in LinesIn(ls, start, end) /\ k[2] \in LinesIn(ls, end, n + 1)}
           T      == {end} \cup {PositionOf(ls, k[2]) + 1 : k \in leaves}
<1>1. n \in Nat /\ start \in Nat /\ end \in Nat /\ 1 <= start /\ start <= end /\ end <= n + 1
  BY DEF Reading
<1>2. ASSUME NEW k \in leaves PROVE PositionOf(ls, k[2]) \in end .. n
  <2>1. PICK p \in end .. n : k[2] = ls[p]
    BY <1>1 DEF LinesIn
  <2>2. p \in 1 .. n
    BY <1>1
  <2> QED BY <2>1, <2>2, PositionIs
<1>3. T \in SUBSET Nat /\ T # {} /\ \A x \in T : x <= n + 1
  <2> HIDE DEF leaves, n
  <2>1. \A k \in leaves : PositionOf(ls, k[2]) + 1 \in Nat /\ PositionOf(ls, k[2]) + 1 <= n + 1
    BY <1>1, <1>2
  <2> QED BY <1>1, <2>1
<1>4. UnitReach(ls, K, start, end) = Max(T)
  BY DEF UnitReach
<1>5. \A x \in T : x <= end
  <2> HIDE DEF T, n
  <2>1. n + 1 \in Nat
    BY <1>1
  <2>2. Max(T) \in T /\ \A x \in T : x <= Max(T)
    BY <1>3, <2>1, MaxOf
  <2>3. Max(T) <= end /\ Max(T) \in Nat
    BY <1>3, <1>4, <2>2
  <2>4. ASSUME NEW x \in T PROVE x <= end
    <3>1. x \in Nat /\ x <= Max(T)
      BY <1>3, <2>2
    <3> QED BY <1>1, <2>3, <3>1
  <2> QED BY <2>4
<1>6. SUFFICES ASSUME <<ls[j], ls[i]>> \in K PROVE FALSE
  OBVIOUS
<1> DEFINE k == <<ls[j], ls[i]>>
<1>7. j \in start .. end - 1 /\ i \in end .. n + 1 - 1 /\ i \in 1 .. n /\ i \in Nat
  BY <1>1
<1>8. k \in leaves
  BY <1>6, <1>7 DEF LinesIn
<1>9. PositionOf(ls, k[2]) = i
  BY <1>7, PositionIs
<1>10. i + 1 \in T
  BY <1>8, <1>9
<1> QED BY <1>1, <1>5, <1>7, <1>10

\* An end that the reach passes is left by a link.
LEMMA ReachLeads ==
  ASSUME NEW S, NEW ls, Reading(ls, S), NEW K, LinksOf(K), NEW start \in 1 .. Len(ls),
         NEW end \in start .. Len(ls) + 1, ~ (UnitReach(ls, K, start, end) <= end)
  PROVE  \E j \in start .. Len(ls), i \in start .. Len(ls) :
           j < end /\ end <= i /\ <<ls[j], ls[i]>> \in K
<1> DEFINE n      == Len(ls)
           leaves == {k \in K : k[1] \in LinesIn(ls, start, end) /\ k[2] \in LinesIn(ls, end, n + 1)}
           T      == {end} \cup {PositionOf(ls, k[2]) + 1 : k \in leaves}
<1>1. n \in Nat /\ start \in Nat /\ end \in Nat /\ start <= end /\ end <= n + 1
  BY DEF Reading
<1>2. UnitReach(ls, K, start, end) = Max(T)
  BY DEF UnitReach
<1>3. leaves # {}
  <2>1. SUFFICES ASSUME leaves = {} PROVE FALSE
    OBVIOUS
  <2>2. T = {end}
    BY <2>1
  <2>3. T \in SUBSET Nat /\ T # {} /\ \A x \in T : x <= end
    BY <1>1, <2>2
  <2> HIDE DEF T
  <2>4. Max(T) \in T
    BY <1>1, <2>3, MaxOf
  <2> QED BY <1>1, <1>2, <2>2, <2>4
<1>4. PICK k \in K : k[1] \in LinesIn(ls, start, end) /\ k[2] \in LinesIn(ls, end, n + 1)
  BY <1>3
<1>5. PICK j \in start .. end - 1 : k[1] = ls[j]
  BY <1>4 DEF LinesIn
<1>6. PICK i \in end .. n + 1 - 1 : k[2] = ls[i]
  BY <1>4 DEF LinesIn
<1>7. k = <<ls[j], ls[i]>>
  BY <1>5, <1>6 DEF LinksOf
<1>8. j \in start .. n /\ i \in start .. n /\ j < end /\ end <= i
  BY <1>1
<1> QED BY <1>7, <1>8

\* A window ends past its core, within the caps and the extension, either no link
\* leaves it or it holds all the extension may, and a link leaves every earlier end.
LEMMA WindowEndFacts ==
  ASSUME NEW S, NEW ls, Reading(ls, S), NEW c, IsConfig(c), NEW K, NEW start \in 1 .. Len(ls)
  PROVE  LET core == CoreEnd(ls, start, c)
             end  == WindowEnd(ls, K, start, c)
         IN  /\ end \in core .. Len(ls) + 1
             /\ end - start <= c.maxLines \/ end - start <= core - start + WindowSlack
             /\ \/ \A q \in 1 .. Len(ls) : q < core + WindowSlack => q < end
                \/ UnitReach(ls, K, start, end) <= end
             /\ \A q \in core .. Len(ls) : q < end => ~ (UnitReach(ls, K, start, q) <= q)
<1> DEFINE n    == Len(ls)
           core == CoreEnd(ls, start, c)
           grow == Max({c.maxLines, core - start + WindowSlack})
           most == Min({n + 1, start + grow})
           T    == {e \in core .. n + 1 : e >= most \/ UnitReach(ls, K, start, e) <= e}
           end  == WindowEnd(ls, K, start, c)
<1>1. /\ n \in Nat /\ start \in Nat /\ start <= n /\ WindowSlack \in Nat
      /\ c.window \in Nat \ {0} /\ c.maxLines \in Nat \ {0}
  BY ConfigAssumption DEF Reading, IsConfig
<1>2. core \in start + 1 .. n + 1 /\ core <= start + c.window
  BY CoreEndFacts
<1> HIDE DEF core, n
<1>3. /\ grow \in Int /\ c.maxLines <= grow /\ core - start + WindowSlack <= grow
      /\ grow = c.maxLines \/ grow = core - start + WindowSlack
  <2>1. c.maxLines \in Int /\ core - start + WindowSlack \in Int
    BY <1>1, <1>2
  <2> QED BY <2>1, MaxOfTwo
<1> HIDE DEF grow
<1>4. /\ most \in Int /\ most <= n + 1 /\ most <= start + grow
      /\ most = n + 1 \/ most = start + grow
  <2>1. n + 1 \in Int /\ start + grow \in Int
    BY <1>1, <1>3
  <2> QED BY <2>1, MinOfTwo
<1> HIDE DEF most
<1>5. most \in core .. n + 1
  BY <1>1, <1>2, <1>3, <1>4
<1>6. T \in SUBSET Nat /\ most \in T
  BY <1>1, <1>2, <1>5
<1>7. end = Min(T)
  BY DEF WindowEnd, core, most, grow, n
<1> HIDE DEF end
<1>8. end \in T /\ end <= most /\ \A x \in T : end <= x
  <2> HIDE DEF T
  <2> QED BY <1>6, <1>7, MinOf
<1>12. ASSUME NEW q \in core .. n, q < end, UnitReach(ls, K, start, q) <= q PROVE FALSE
  <2>1. q \in core .. n + 1 /\ q \in Int /\ end \in Int
    BY <1>1, <1>2, <1>6, <1>8
  <2>2. q \in T
    BY <1>12, <2>1
  <2> QED BY <1>8, <1>12, <2>1, <2>2
<1>9. end \in core .. n + 1 /\ (end >= most \/ UnitReach(ls, K, start, end) <= end)
  BY <1>8
<1> HIDE DEF T
<1>10. end - start <= c.maxLines \/ end - start <= core - start + WindowSlack
  BY <1>1, <1>2, <1>3, <1>4, <1>8, <1>9
<1>11. ASSUME end >= most, NEW q \in 1 .. n, q < core + WindowSlack
       PROVE  q < end
  BY <1>1, <1>2, <1>3, <1>4, <1>8, <1>9, <1>11
<1> QED BY <1>9, <1>10, <1>11, <1>12 DEF end, core, n

\* Where the windows of a page start.
StartsOf(ls, c) == Ordered(Stops(1, Len(ls), [i \in DOMAIN ls |-> NextStart(ls, i, c)]))

\* The starts of the windows of a page: a window at each, every line in the core of
\* one, and the next start of a window a window's too, while it is on the page.
LEMMA WindowStarts ==
  ASSUME NEW S, NEW ls, Reading(ls, S), NEW c, IsConfig(c), NEW K
  PROVE  /\ Len(StartsOf(ls, c)) \in Nat
         /\ StartsOf(ls, c) \in [1 .. Len(StartsOf(ls, c)) -> 1 .. Len(ls)]
         /\ \A v, w \in 1 .. Len(StartsOf(ls, c)) : v < w => StartsOf(ls, c)[v] < StartsOf(ls, c)[w]
         /\ DOMAIN Windows(ls, K, c) = 1 .. Len(StartsOf(ls, c))
         /\ Windows(ls, K, c) \in Seq(SUBSET S)
         /\ \A w \in 1 .. Len(StartsOf(ls, c)) :
              Windows(ls, K, c)[w] =
                LinesIn(ls, StartsOf(ls, c)[w], WindowEnd(ls, K, StartsOf(ls, c)[w], c))
         /\ \A p \in 1 .. Len(ls) : \E w \in 1 .. Len(StartsOf(ls, c)) :
              StartsOf(ls, c)[w] <= p /\ p < CoreEnd(ls, StartsOf(ls, c)[w], c)
         /\ \A w \in 1 .. Len(StartsOf(ls, c)) :
              NextStart(ls, StartsOf(ls, c)[w], c) <= Len(ls) =>
                \E v \in 1 .. Len(StartsOf(ls, c)) :
                  StartsOf(ls, c)[v] = NextStart(ls, StartsOf(ls, c)[w], c)
         /\ \A p \in 1 .. Len(ls) : \E w \in 1 .. Len(StartsOf(ls, c)) :
              StartsOf(ls, c)[w] <= p /\ p < NextStart(ls, StartsOf(ls, c)[w], c)
         /\ \A v, w \in 1 .. Len(StartsOf(ls, c)) : v < w =>
              NextStart(ls, StartsOf(ls, c)[v], c) <= StartsOf(ls, c)[w]
<1> DEFINE n      == Len(ls)
           next   == [i \in DOMAIN ls |-> NextStart(ls, i, c)]
           starts == Ordered(Stops(1, n, next))
           m      == Len(starts)
           W      == Windows(ls, K, c)
<1>1. n \in Nat /\ DOMAIN ls = 1 .. n
  BY DEF Reading
<1>2. \A i \in 1 .. n : next[i] = NextStart(ls, i, c)
  BY <1>1
<1>3. \A i \in 1 .. n : next[i] \in Nat /\ i < next[i]
  BY <1>2, NextStartFacts
<1>4. W = [w \in DOMAIN starts |-> LinesIn(ls, starts[w], WindowEnd(ls, K, starts[w], c))]
  BY DEF Windows
<1> HIDE DEF next
<1>5. /\ m \in Nat /\ starts \in [1 .. m -> 1 .. n] /\ DOMAIN starts = 1 .. m
      /\ \A j, k \in 1 .. m : j < k => starts[j] < starts[k]
      /\ \A h \in 1 .. n : \E k \in 1 .. m : starts[k] <= h /\ h < next[starts[k]]
      /\ \A k \in 1 .. m : next[starts[k]] <= n => \E j \in 1 .. m : starts[j] = next[starts[k]]
      /\ \A j, k \in 1 .. m : j < k => next[starts[j]] <= starts[k]
  <2> HIDE DEF n
  <2> QED BY <1>1, <1>3, LoopStarts
<1> HIDE DEF starts, W
<1>6. ASSUME NEW w \in 1 .. m
      PROVE  LinesIn(ls, starts[w], WindowEnd(ls, K, starts[w], c)) \in SUBSET S
  <2>1. PICK s \in 1 .. n : s = starts[w]
    BY <1>5
  <2>2. CoreEnd(ls, s, c) \in s + 1 .. n + 1
    BY CoreEndFacts
  <2>3. PICK core \in s + 1 .. n + 1 : core = CoreEnd(ls, s, c)
    BY <2>2
  <2>4. WindowEnd(ls, K, s, c) \in core .. n + 1
    BY <2>3, WindowEndFacts
  <2>5. WindowEnd(ls, K, s, c) \in s .. n + 1
    BY <1>1, <2>3, <2>4
  <2> QED BY <2>1, <2>5, LinesInFacts
<1>7. W \in Seq(SUBSET S) /\ DOMAIN W = 1 .. m
  <2>1. W \in [1 .. m -> SUBSET S]
    BY <1>4, <1>5, <1>6
  <2> QED BY <1>5, <2>1
<1>8. \A w \in 1 .. m : W[w] = LinesIn(ls, starts[w], WindowEnd(ls, K, starts[w], c))
  BY <1>4, <1>5
<1>9. ASSUME NEW p \in 1 .. n
      PROVE  \E w \in 1 .. m : starts[w] <= p /\ p < CoreEnd(ls, starts[w], c)
  <2>1. PICK w \in 1 .. m : starts[w] <= p /\ p < next[starts[w]]
    BY <1>5
  <2>2. PICK s \in 1 .. n : s = starts[w]
    BY <1>5
  <2>3. p \in s .. n /\ p < NextStart(ls, s, c)
    BY <1>1, <1>2, <2>1, <2>2
  <2>4. p < CoreEnd(ls, s, c)
    BY <2>3, NextStartFacts
  <2> QED BY <2>1, <2>2, <2>4
<1>10. \A w \in 1 .. m : NextStart(ls, starts[w], c) <= n =>
         \E v \in 1 .. m : starts[v] = NextStart(ls, starts[w], c)
  BY <1>2, <1>5
<1>11. \A p \in 1 .. n : \E w \in 1 .. m : starts[w] <= p /\ p < NextStart(ls, starts[w], c)
  BY <1>2, <1>5
<1>12. \A v, w \in 1 .. m : v < w => NextStart(ls, starts[v], c) <= starts[w]
  BY <1>2, <1>5
<1> QED BY <1>5, <1>7, <1>8, <1>9, <1>10, <1>11, <1>12 DEF starts, next, W, StartsOf

\* A window holds the lines from its start up to its end, its core among them.
LEMMA WindowHolds ==
  ASSUME NEW S, NEW ls, Reading(ls, S), NEW c, IsConfig(c), NEW K,
         NEW s \in 1 .. Len(ls), NEW p \in 1 .. Len(ls)
  PROVE  /\ ls[p] \in LinesIn(ls, s, WindowEnd(ls, K, s, c)) <=>
              s <= p /\ p < WindowEnd(ls, K, s, c)
         /\ s <= p /\ p < CoreEnd(ls, s, c) => ls[p] \in LinesIn(ls, s, WindowEnd(ls, K, s, c))
<1>1. Len(ls) \in Nat
  BY DEF Reading
<1>2. CoreEnd(ls, s, c) \in s + 1 .. Len(ls) + 1
  BY CoreEndFacts
<1>3. PICK core \in s + 1 .. Len(ls) + 1 : core = CoreEnd(ls, s, c)
  BY <1>2
<1>4. WindowEnd(ls, K, s, c) \in core .. Len(ls) + 1
  BY <1>3, WindowEndFacts
<1>5. PICK end \in core .. Len(ls) + 1 : end = WindowEnd(ls, K, s, c)
  BY <1>4
<1>6. end \in s .. Len(ls) + 1
  BY <1>1, <1>3, <1>5
<1>7. ls[p] \in LinesIn(ls, s, end) <=> s <= p /\ p < end
  BY <1>6, LinesInFacts
<1>8. p < core => p < end
  BY <1>1, <1>3, <1>5
<1> QED BY <1>3, <1>5, <1>7, <1>8

\* ChunksPlanned of lines of S, every line of S a target of exactly one.
Owns(chunks, S) ==
  /\ chunks \in Seq([grain : Grains, lines : SUBSET S, targets : SUBSET S])
  /\ \A i \in DOMAIN chunks : chunks[i].targets \subseteq chunks[i].lines
  /\ \A l \in S : \E i \in DOMAIN chunks : l \in chunks[i].targets
  /\ \A i, j \in DOMAIN chunks : i # j => chunks[i].targets \cap chunks[j].targets = {}

\* A cut, each part a chunk of its own targets.
LEMMA CutOwns ==
  ASSUME NEW S, NEW G, CutInto(G, S), NEW g \in Grains
  PROVE  Owns([i \in DOMAIN G |-> Chunk(g, G[i], G[i])], S)
<1> DEFINE C == [i \in DOMAIN G |-> Chunk(g, G[i], G[i])]
<1>1. Len(G) \in Nat /\ DOMAIN G = 1 .. Len(G) /\ \A i \in 1 .. Len(G) : G[i] \in SUBSET S
  BY LenProperties DEF CutInto
<1>2. C \in [1 .. Len(G) -> [grain : Grains, lines : SUBSET S, targets : SUBSET S]]
  BY <1>1 DEF Chunk
<1>3. C \in Seq([grain : Grains, lines : SUBSET S, targets : SUBSET S]) /\ DOMAIN C = 1 .. Len(G)
  BY <1>1, <1>2
<1>4. \A i \in 1 .. Len(G) : C[i].targets = G[i] /\ C[i].lines = G[i]
  BY <1>1 DEF Chunk
<1> HIDE DEF C
<1>5. Owns(C, S)
  BY <1>1, <1>3, <1>4 DEF Owns, CutInto
<1> QED BY <1>5 DEF C

\* The window of a line is one that holds it, and the last one when it stands alone.
LEMMA WindowChoice ==
  ASSUME NEW S \in SUBSET Lines, NEW W \in Seq(SUBSET S), NEW K, NEW l \in S,
         \E w \in DOMAIN W : l \in W[w]
  PROVE  LET v == WindowOfLine(l, W, S, K)
         IN  /\ v \in DOMAIN W /\ l \in W[v]
             /\ UnitOf(l, S, K) = {l} => \A w \in DOMAIN W : l \in W[w] => w <= v
<1> DEFINE unit   == UnitOf(l, S, K)
           common == {i \in DOMAIN W : unit \subseteq W[i]}
           own    == {i \in DOMAIN W : l \in W[i]}
<1>1. Len(W) \in Nat /\ DOMAIN W = 1 .. Len(W)
  BY LenProperties
<1>2. l \in unit
  BY UnitHoldsItsLine
<1>3. WindowOfLine(l, W, S, K) = IF common # {} THEN Max(common) ELSE Max(own)
  BY DEF WindowOfLine
<1> HIDE DEF unit
<1>4. /\ common \in SUBSET Nat /\ own \in SUBSET Nat /\ own # {} /\ common \subseteq own
      /\ \A i \in own : i <= Len(W)
  BY <1>1, <1>2
<1>5. own \subseteq DOMAIN W /\ \A i \in own : l \in W[i]
  OBVIOUS
<1>6. unit = {l} => common = own
  OBVIOUS
<1> HIDE DEF common, own
<1>7. Max(own) \in own /\ \A i \in own : i <= Max(own)
  BY <1>1, <1>4, MaxOf
<1>8. common # {} => Max(common) \in common
  BY <1>1, <1>4, MaxOf
<1>9. WindowOfLine(l, W, S, K) \in own
  BY <1>3, <1>4, <1>7, <1>8
<1>10. unit = {l} => WindowOfLine(l, W, S, K) = Max(own)
  BY <1>3, <1>6
<1> QED BY <1>5, <1>7, <1>9, <1>10 DEF own, unit

\* The two ends of a link of a word some window holds go to the same window.
LEMMA LinkedChoice ==
  ASSUME NEW S, NEW W, NEW K, NEW k \in K, k[1] \in S, k[2] \in S,
         \E w \in DOMAIN W : UnitOf(k[1], S, K) \subseteq W[w]
  PROVE  WindowOfLine(k[1], W, S, K) = WindowOfLine(k[2], W, S, K)
<1>1. UnitOf(k[1], S, K) = UnitOf(k[2], S, K)
  BY LinkedUnitsEqual
<1> QED BY <1>1 DEF WindowOfLine

\* _try_window gives every line one window.
LEMMA TryWindowOwns ==
  ASSUME NEW S \in SUBSET Lines, NEW c, IsConfig(c), NEW K
  PROVE  LET W == Windows(Ordered(S), K, c)
             C == TryWindow(S, K, c).chunks
         IN  /\ Owns(C, S) /\ DOMAIN C = DOMAIN W
             /\ \A w \in DOMAIN W :
                  /\ C[w].grain = "WINDOW" /\ C[w].lines = W[w]
                  /\ \A l \in S : l \in C[w].targets <=> w = WindowOfLine(l, W, S, K)
             /\ \A l \in S : \E w \in DOMAIN W : l \in W[w]
<1> DEFINE ls     == Ordered(S)
           W      == Windows(ls, K, c)
           C      == TryWindow(S, K, c).chunks
           starts == StartsOf(ls, c)
<1>1. Reading(ls, S)
  BY OrderedReads
<1>2. C = [i \in DOMAIN W |-> Chunk("WINDOW", W[i],
                                    {l \in W[i] : WindowOfLine(l, W, S, K) = i})]
  BY DEF TryWindow
<1> HIDE DEF ls, C
<1>3. /\ DOMAIN W = 1 .. Len(starts) /\ W \in Seq(SUBSET S)
      /\ starts \in [1 .. Len(starts) -> 1 .. Len(ls)]
      /\ \A w \in 1 .. Len(starts) :
           W[w] = LinesIn(ls, starts[w], WindowEnd(ls, K, starts[w], c))
      /\ \A p \in 1 .. Len(ls) : \E w \in 1 .. Len(starts) :
           starts[w] <= p /\ p < CoreEnd(ls, starts[w], c)
  <2> HIDE DEF W, starts
  <2>1. DOMAIN W = 1 .. Len(starts) /\ W \in Seq(SUBSET S)
    BY <1>1, WindowStarts DEF W, starts
  <2>2. starts \in [1 .. Len(starts) -> 1 .. Len(ls)]
    BY <1>1, WindowStarts DEF starts
  <2>3. W = [w \in DOMAIN starts |-> LinesIn(ls, starts[w], WindowEnd(ls, K, starts[w], c))]
    BY DEF Windows, StartsOf, W, starts
  <2>4. \A p \in 1 .. Len(ls) : \E w \in 1 .. Len(starts) :
          starts[w] <= p /\ p < CoreEnd(ls, starts[w], c)
    BY <1>1, WindowStarts DEF starts
  <2> QED BY <2>1, <2>2, <2>3, <2>4
<1>4. ASSUME NEW l \in S PROVE \E w \in DOMAIN W : l \in W[w]
  <2>1. PICK p \in 1 .. Len(ls) : ls[p] = l
    BY <1>1 DEF Reading
  <2>2. PICK w \in 1 .. Len(starts) : starts[w] <= p /\ p < CoreEnd(ls, starts[w], c)
    BY <1>3
  <2>3. starts[w] \in 1 .. Len(ls)
    BY <1>3
  <2>4. ls[p] \in LinesIn(ls, starts[w], WindowEnd(ls, K, starts[w], c))
    BY <1>1, <2>2, <2>3, WindowHolds
  <2> QED BY <1>3, <2>1, <2>4
<1> HIDE DEF W, starts
<1>5. ASSUME NEW l \in S PROVE WindowOfLine(l, W, S, K) \in DOMAIN W /\ l \in W[WindowOfLine(l, W, S, K)]
  BY <1>3, <1>4, WindowChoice
<1>6. Len(W) \in Nat /\ DOMAIN W = 1 .. Len(W) /\ \A i \in 1 .. Len(W) : W[i] \in SUBSET S
  BY <1>3, LenProperties
<1>7. C \in [1 .. Len(W) -> [grain : Grains, lines : SUBSET S, targets : SUBSET S]]
  BY <1>2, <1>6 DEF Chunk, Grains
<1>8. C \in Seq([grain : Grains, lines : SUBSET S, targets : SUBSET S]) /\ DOMAIN C = DOMAIN W
  BY <1>6, <1>7, FunIsSeq
<1>9. \A w \in DOMAIN W :
        /\ C[w].grain = "WINDOW" /\ C[w].lines = W[w]
        /\ C[w].targets = {l \in W[w] : WindowOfLine(l, W, S, K) = w}
  BY <1>2 DEF Chunk
<1>10. ASSUME NEW w \in DOMAIN W, NEW l \in S
       PROVE  l \in C[w].targets <=> w = WindowOfLine(l, W, S, K)
  BY <1>5, <1>9
<1>11. Owns(C, S)
  <2>1. \A i \in DOMAIN C : C[i].targets \subseteq C[i].lines
    BY <1>8, <1>9
  <2>2. \A l \in S : \E i \in DOMAIN C : l \in C[i].targets
    BY <1>5, <1>8, <1>10
  <2>3. \A i, j \in DOMAIN C : i # j => C[i].targets \cap C[j].targets = {}
    BY <1>8, <1>9
  <2> QED BY <1>8, <2>1, <2>2, <2>3 DEF Owns
<1> QED BY <1>4, <1>8, <1>9, <1>10, <1>11 DEF W, C, ls

\* How many lines of the page lie between the first and the last of a word.
Span(l, S, K) ==
  LET unit == UnitOf(l, S, K)
  IN  Cardinality({m \in S : Min(unit) <= m /\ m <= Max(unit)})

\* The positions of the first and the last line of a unit.
LEMMA SpanPositions ==
  ASSUME NEW S, NEW ls, Reading(ls, S), NEW K, NEW l \in S
  PROVE  \E p \in 1 .. Len(ls) : \E q \in p .. Len(ls) :
           /\ ls[p] \in UnitOf(l, S, K) /\ ls[q] \in UnitOf(l, S, K)
           /\ \A i \in 1 .. Len(ls) : ls[i] \in UnitOf(l, S, K) => p <= i /\ i <= q
           /\ Span(l, S, K) = q - p + 1
<1> DEFINE n == Len(ls)
           U == UnitOf(l, S, K)
           P == {i \in 1 .. n : ls[i] \in U}
           between == {m \in S : Min(U) <= m /\ m <= Max(U)}
<1>1. n \in Nat /\ S \in SUBSET Nat /\ U \in SUBSET S /\ l \in U
  BY UnitHoldsItsLine, PageAssumption DEF Reading, UnitOf
<1> HIDE DEF U
<1>2. PICK i \in 1 .. n : ls[i] = l
  BY DEF Reading
<1>3. P \in SUBSET Nat /\ P # {} /\ \A x \in P : x <= n
  BY <1>1, <1>2
<1>4. \A x \in P : x \in 1 .. n /\ ls[x] \in U
  OBVIOUS
<1>5. \A x \in 1 .. n : ls[x] \in U => x \in P
  OBVIOUS
<1> DEFINE p == Min(P)
           q == Max(P)
<1> HIDE DEF P
<1>6. p \in P /\ \A x \in P : p <= x
  BY <1>3, MinOf
<1>7. q \in P /\ \A x \in P : x <= q
  BY <1>1, <1>3, MaxOf
<1> HIDE DEF p, q
<1>8. p \in 1 .. n /\ q \in p .. n /\ ls[p] \in U /\ ls[q] \in U
  BY <1>3, <1>4, <1>6, <1>7
<1>9. ASSUME NEW m \in U PROVE ls[p] <= m /\ m <= ls[q]
  <2>1. PICK x \in 1 .. n : ls[x] = m
    BY <1>1 DEF Reading
  <2>2. p <= x /\ x <= q
    BY <1>5, <1>6, <1>7, <2>1
  <2>3. q \in 1 .. n
    BY <1>4, <1>7
  <2>4. ~ (x < p) /\ ~ (q < x) /\ p \in Int /\ q \in Int /\ x \in Int
    BY <1>8, <2>2, <2>3
  <2>5. ~ (ls[x] < ls[p]) /\ ~ (ls[q] < ls[x])
    BY <1>8, <2>3, <2>4, ReadingPositions
  <2>6. ls[p] \in Nat /\ ls[q] \in Nat /\ ls[x] \in Nat
    BY <1>8, <2>3, ReadingPositions
  <2> QED BY <2>1, <2>5, <2>6
<1>10. Min(U) = ls[p]
  <2>1. ls[p] \in U /\ \A m \in U : ls[p] <= m
    BY <1>8, <1>9
  <2>2. U \in SUBSET Nat
    BY <1>1
  <2>3. Min(U) \in U /\ \A m \in U : Min(U) <= m
    BY <2>1, <2>2, MinOf
  <2>4. Min(U) \in Nat /\ ls[p] \in Nat /\ Min(U) <= ls[p] /\ ls[p] <= Min(U)
    BY <2>1, <2>2, <2>3
  <2> QED BY <2>4
<1>11. Max(U) = ls[q]
  <2>1. ls[q] \in U /\ \A m \in U : m <= ls[q]
    BY <1>8, <1>9
  <2>2. U \in SUBSET Nat /\ ls[q] \in Nat
    BY <1>1, <2>1
  <2>3. Max(U) \in U /\ \A m \in U : m <= Max(U)
    BY <2>1, <2>2, MaxOf
  <2>4. Max(U) \in Nat /\ ls[q] <= Max(U) /\ Max(U) <= ls[q]
    BY <2>1, <2>2, <2>3
  <2> QED BY <2>2, <2>4
<1>12. between = LinesIn(ls, p, q + 1)
  <2>1. q + 1 \in p .. n + 1 /\ q \in 1 .. n
    BY <1>1, <1>4, <1>7, <1>8
  <2>2. ASSUME NEW m \in S PROVE m \in between <=> m \in LinesIn(ls, p, q + 1)
    <3>1. PICK x \in 1 .. n : ls[x] = m
      BY DEF Reading
    <3>2. m \in LinesIn(ls, p, q + 1) <=> p <= x /\ x < q + 1
      BY <1>8, <2>1, <3>1, LinesInFacts
    <3>3. ls[p] \in Nat /\ ls[q] \in Nat /\ ls[x] \in Nat
      BY <1>8, <2>1, ReadingPositions
    <3>4. (ls[x] < ls[p] <=> x < p) /\ (ls[q] < ls[x] <=> q < x)
      BY <1>8, <2>1, ReadingPositions
    <3>5. x \in Int /\ p \in Int /\ q \in Int
      BY <1>8, <2>1
    <3>6. (p <= x <=> ls[p] <= ls[x]) /\ (x < q + 1 <=> ls[x] <= ls[q])
      BY <3>3, <3>4, <3>5
    <3> QED BY <1>10, <1>11, <3>1, <3>2, <3>6
  <2>3. LinesIn(ls, p, q + 1) \in SUBSET S
    BY <1>8, <2>1, LinesInFacts
  <2> QED BY <2>2, <2>3
<1>13. Cardinality(between) = q + 1 - p
  <2>1. q + 1 \in p .. n + 1
    BY <1>1, <1>8
  <2> HIDE DEF between
  <2> QED BY <1>8, <1>12, <2>1, LinesInFacts
<1>14. Span(l, S, K) = Cardinality(between)
  BY DEF Span, U
<1>15. Span(l, S, K) = q - p + 1
  BY <1>8, <1>13, <1>14
<1>16. \A x \in 1 .. n : ls[x] \in U => p <= x /\ x <= q
  BY <1>5, <1>6, <1>7
<1> QED BY <1>8, <1>15, <1>16 DEF U

\* A stretch of the page that holds the first line of a unit and that no link leaves
\* holds the unit.
LEMMA StretchHoldsUnit ==
  ASSUME NEW S, NEW ls, Reading(ls, S), NEW K, WellLinked(K), NEW l \in S,
         NEW s \in 1 .. Len(ls), NEW end \in s .. Len(ls) + 1,
         NEW p \in s .. Len(ls), p < end, ls[p] \in UnitOf(l, S, K),
         \A i \in 1 .. Len(ls) : ls[i] \in UnitOf(l, S, K) => p <= i,
         \A i, j \in s .. Len(ls) : j < end /\ end <= i => <<ls[j], ls[i]>> \notin K,
         K \subseteq Lines \X Lines
  PROVE  UnitOf(l, S, K) \subseteq LinesIn(ls, s, end)
<1> DEFINE n == Len(ls)
           U == UnitOf(l, S, K)
           X == U \cap LinesIn(ls, s, end)
<1>1. n \in Nat /\ s \in Nat /\ end \in Nat /\ p \in Nat /\ 1 <= s /\ end <= n + 1
  BY DEF Reading
<1>2. p \in 1 .. n /\ s <= p
  BY <1>1
<1>3. ls[p] \in X /\ X \in SUBSET S
  BY <1>2, LinesInFacts DEF UnitOf
<1>4. ASSUME NEW k \in K, k[1] \in S, k[2] \in S PROVE k[1] \in X <=> k[2] \in X
  <2>1. k[1] \in U <=> k[2] \in U
    BY <1>4, UnitClosed
  <2>2. SUFFICES ASSUME k[1] \in U, k[2] \in U
                 PROVE  k[1] \in LinesIn(ls, s, end) <=> k[2] \in LinesIn(ls, s, end)
    BY <2>1
  <2>3. PICK j \in 1 .. n, i \in 1 .. n : ls[j] = k[1] /\ ls[i] = k[2]
    BY <1>4 DEF Reading
  <2>4. k[1] < k[2] /\ k = <<k[1], k[2]>>
    BY DEF WellLinked
  <2>5. j < i
    BY <2>3, <2>4, ReadingPositions
  <2>6. p <= j /\ p <= i
    BY <2>2, <2>3
  <2>7. j \in s .. n /\ i \in s .. n
    BY <1>1, <1>2, <2>3, <2>6
  <2>8. ~ (j < end /\ end <= i)
    <3>1. <<ls[j], ls[i]>> \in K
      BY <2>3, <2>4
    <3> QED BY <2>7, <3>1
  <2>9. /\ k[1] \in LinesIn(ls, s, end) <=> s <= j /\ j < end
        /\ k[2] \in LinesIn(ls, s, end) <=> s <= i /\ i < end
    BY <2>3, LinesInFacts
  <2> QED BY <1>1, <2>5, <2>7, <2>8, <2>9
<1>5. Closed(X, S, K)
  BY <1>4 DEF Closed
<1>6. UnitOf(ls[p], S, K) = U
  BY MembersShareUnit
<1>7. UnitOf(ls[p], S, K) \subseteq X
  <2> HIDE DEF X
  <2> QED BY <1>3, <1>5 DEF UnitOf
<1> QED BY <1>6, <1>7

\* A line past the core of a window is there for a word that goes on over it.
LEMMA PastCoreReached ==
  ASSUME NEW S, NEW ls, Reading(ls, S), NEW c, IsConfig(c), NEW K, LinksOf(K),
         NEW s \in 1 .. Len(ls), NEW q \in 1 .. Len(ls),
         CoreEnd(ls, s, c) <= q, q < WindowEnd(ls, K, s, c)
  PROVE  Reached(ls[q], S, K)
<1> DEFINE n == Len(ls)
<1>1. PICK core \in s + 1 .. n + 1 : core = CoreEnd(ls, s, c)
  BY CoreEndFacts
<1>2. \A x \in core .. n : x < WindowEnd(ls, K, s, c) => ~ (UnitReach(ls, K, s, x) <= x)
  BY <1>1, WindowEndFacts
<1>3. n \in Nat /\ s \in Nat /\ q \in core .. n /\ q \in s .. n + 1
  BY <1>1 DEF Reading
<1>4. ~ (UnitReach(ls, K, s, q) <= q)
  BY <1>2, <1>3
<1>5. PICK j \in s .. n, i \in s .. n : j < q /\ q <= i /\ <<ls[j], ls[i]>> \in K
  BY <1>3, <1>4, ReachLeads
<1>6. j \in 1 .. n /\ i \in 1 .. n
  BY <1>3
<1>7. ls[j] \in S /\ ls[i] \in S /\ ls[j] < ls[q] /\ ls[q] <= ls[i]
  <2>1. ls[j] \in S /\ ls[i] \in S /\ ls[j] < ls[q]
    BY <1>5, <1>6, ReadingPositions
  <2>2. CASE q = i
    <3>1. ls[i] \in Nat
      BY <1>6, ReadingPositions
    <3> QED BY <2>1, <2>2, <3>1
  <2>3. CASE q < i
    <3>1. ls[i] \in Nat /\ ls[q] \in Nat /\ ls[q] < ls[i]
      BY <1>6, <2>3, ReadingPositions
    <3> QED BY <2>1, <3>1
  <2> QED BY <1>3, <1>5, <1>6, <2>2, <2>3
<1> DEFINE k == <<ls[j], ls[i]>>
<1>8. k \in K /\ {k[1], k[2]} \subseteq S /\ k[1] < ls[q] /\ ls[q] <= k[2]
  BY <1>5, <1>7
<1> QED BY <1>8 DEF Reached

\* A window is within its bounds, its core being what the size and the characters allow.
LEMMA WindowBounded ==
  ASSUME NEW S \in SUBSET Lines, NEW c, IsConfig(c), NEW K, LinksOf(K),
         NEW w \in DOMAIN Windows(Ordered(S), K, c)
  PROVE  WindowSized(Windows(Ordered(S), K, c)[w], S, K, c)
<1> DEFINE ls == Ordered(S)
           n  == Len(ls)
           W  == Windows(ls, K, c)
           starts == StartsOf(ls, c)
<1>1. Reading(ls, S) /\ n \in Nat
  BY OrderedReads DEF Reading
<1> HIDE DEF ls
<1>2. DOMAIN W = 1 .. Len(starts) /\ starts \in [1 .. Len(starts) -> 1 .. n]
  BY <1>1, WindowStarts
<1>3. W = [v \in DOMAIN starts |-> LinesIn(ls, starts[v], WindowEnd(ls, K, starts[v], c))]
  BY DEF Windows, StartsOf
<1> HIDE DEF starts, W
<1>4. PICK s \in 1 .. n : s = starts[w]
  BY <1>2 DEF W, ls
<1>5. W[w] = LinesIn(ls, s, WindowEnd(ls, K, s, c))
  BY <1>2, <1>3, <1>4 DEF W, ls
<1>6. PICK core \in s + 1 .. n + 1 :
        /\ core = CoreEnd(ls, s, c) /\ core <= s + c.window
        /\ core = s + 1 \/ TotalChars(LinesIn(ls, s, core)) <= c.maxChars
  BY <1>1, CoreEndFacts
<1>7. PICK end \in core .. n + 1 :
        /\ end = WindowEnd(ls, K, s, c)
        /\ end - s <= c.maxLines \/ end - s <= core - s + WindowSlack
  BY <1>1, <1>6, WindowEndFacts
<1>8. core \in s .. n + 1 /\ end \in s .. n + 1
  BY <1>1, <1>6, <1>7
<1> DEFINE A == LinesIn(ls, s, core)
           B == LinesIn(ls, s, end)
<1>9. /\ A \in SUBSET S /\ Cardinality(A) = core - s
      /\ \A i \in 1 .. n : ls[i] \in A <=> s <= i /\ i < core
  BY <1>1, <1>8, LinesInFacts
<1>10. /\ B \in SUBSET S /\ Cardinality(B) = end - s
       /\ \A i \in 1 .. n : ls[i] \in B <=> s <= i /\ i < end
  BY <1>1, <1>8, LinesInFacts
<1>11. TotalChars(A) <= c.maxChars \/ Cardinality(A) = 1
  <2>1. core = s + 1 => core - s = 1
    BY <1>1, <1>6
  <2> QED BY <1>6, <1>9, <2>1
<1> HIDE DEF A, B, n
<1>12. A \in SUBSET B
  <2> SUFFICES ASSUME NEW l \in A PROVE l \in B
    OBVIOUS
  <2>1. PICK i \in 1 .. n : ls[i] = l
    BY <1>1, <1>9 DEF Reading, n
  <2>2. s <= i /\ i < core
    BY <1>9, <2>1
  <2>3. i < end
    BY <1>1, <1>6, <1>7, <2>2
  <2> QED BY <1>10, <2>1, <2>2, <2>3
<1>13. ASSUME NEW m \in B \ A
       PROVE  Reached(m, S, K) /\ \A l \in A : l < m
  <2>1. PICK q \in 1 .. n : ls[q] = m
    BY <1>1, <1>10 DEF Reading, n
  <2>2. s <= q /\ q < end /\ core <= q
    <3>1. s <= q /\ q < end /\ ~ (q < core)
      BY <1>9, <1>10, <1>13, <2>1
    <3> QED BY <1>1, <1>6, <3>1
  <2>3. Reached(m, S, K)
    BY <1>1, <1>6, <1>7, <2>1, <2>2, PastCoreReached DEF n
  <2>4. ASSUME NEW l \in A PROVE l < m
    <3>1. PICK i \in 1 .. n : ls[i] = l
      BY <1>1, <1>9 DEF Reading, n
    <3>2. i < core
      BY <1>9, <3>1
    <3>3. i < q
      BY <1>1, <1>6, <2>2, <3>2
    <3> QED BY <1>1, <2>1, <3>1, <3>3, ReadingPositions DEF n
  <2> QED BY <2>3, <2>4
<1>14. A \in Cores(B, S, K)
  BY <1>12, <1>13 DEF Cores
<1>15. Cardinality(A) <= c.window
  BY <1>1, <1>6, <1>9 DEF IsConfig
<1>16. Cardinality(B) <= Max({c.maxLines, Cardinality(A) + WindowSlack})
  <2> DEFINE a == core - s + WindowSlack
  <2>1. a \in Int /\ c.maxLines \in Int /\ end - s \in Int
    BY <1>1, <1>6, <1>7, ConfigAssumption DEF IsConfig
  <2>2. end - s <= c.maxLines \/ end - s <= a
    BY <1>7
  <2>3. Cardinality(A) + WindowSlack = a
    BY <1>9
  <2> HIDE DEF a
  <2>4. /\ Max({c.maxLines, a}) \in Int
        /\ c.maxLines <= Max({c.maxLines, a}) /\ a <= Max({c.maxLines, a})
    BY <2>1, MaxOfTwo
  <2>5. end - s <= Max({c.maxLines, a})
    BY <2>1, <2>2, <2>4
  <2> QED BY <1>10, <2>3, <2>5
<1>17. WindowSized(B, S, K, c)
  BY <1>11, <1>14, <1>15, <1>16 DEF WindowSized
<1>18. W[w] = B
  BY <1>5, <1>7 DEF B
<1> QED BY <1>17, <1>18 DEF W, ls

\* A word no longer than the extension allows lies within some window.
LEMMA WindowHoldsUnit ==
  ASSUME NEW S \in SUBSET Lines, NEW c, IsConfig(c), NEW K, LinksOf(K), NEW l \in S,
         Span(l, S, K) <= WindowSlack + 1
  PROVE  \E w \in DOMAIN Windows(Ordered(S), K, c) :
           UnitOf(l, S, K) \subseteq Windows(Ordered(S), K, c)[w]
<1> DEFINE ls == Ordered(S)
           n  == Len(ls)
           W  == Windows(ls, K, c)
           starts == StartsOf(ls, c)
           U  == UnitOf(l, S, K)
<1>1. Reading(ls, S) /\ n \in Nat /\ WindowSlack \in Nat
  BY OrderedReads, ConfigAssumption DEF Reading
<1> HIDE DEF ls
<1>2. /\ DOMAIN W = 1 .. Len(starts) /\ starts \in [1 .. Len(starts) -> 1 .. n]
  BY <1>1, WindowStarts
<1>3. \A p \in 1 .. n : \E w \in 1 .. Len(starts) :
        starts[w] <= p /\ p < CoreEnd(ls, starts[w], c)
  BY <1>1, WindowStarts
<1>4. W = [v \in DOMAIN starts |-> LinesIn(ls, starts[v], WindowEnd(ls, K, starts[v], c))]
  BY DEF Windows, StartsOf
<1>5. PICK p \in 1 .. n, q \in 1 .. n :
        /\ p <= q /\ ls[p] \in U
        /\ \A i \in 1 .. n : ls[i] \in U => p <= i /\ i <= q
        /\ Span(l, S, K) = q - p + 1
  <2>1. PICK p \in 1 .. n : \E q \in p .. n :
           /\ ls[p] \in U /\ ls[q] \in U
           /\ \A i \in 1 .. n : ls[i] \in U => p <= i /\ i <= q
           /\ Span(l, S, K) = q - p + 1
    BY <1>1, SpanPositions
  <2>2. PICK q \in p .. n :
           /\ ls[p] \in U /\ ls[q] \in U
           /\ \A i \in 1 .. n : ls[i] \in U => p <= i /\ i <= q
           /\ Span(l, S, K) = q - p + 1
    BY <2>1
  <2>3. q \in 1 .. n /\ p <= q
    BY <1>1, <2>1
  <2> QED BY <2>2, <2>3
<1> HIDE DEF starts, W, U
<1>6. PICK w \in 1 .. Len(starts) : starts[w] <= p /\ p < CoreEnd(ls, starts[w], c)
  BY <1>3, <1>5
<1>7. PICK s \in 1 .. n : s = starts[w]
  BY <1>2
<1>8. W[w] = LinesIn(ls, s, WindowEnd(ls, K, s, c))
  BY <1>2, <1>4, <1>7
<1>9. PICK core \in s + 1 .. n + 1 : core = CoreEnd(ls, s, c)
  BY <1>1, CoreEndFacts
<1>10. /\ WindowEnd(ls, K, s, c) \in core .. n + 1
       /\ \/ \A i \in 1 .. n : i < core + WindowSlack => i < WindowEnd(ls, K, s, c)
          \/ UnitReach(ls, K, s, WindowEnd(ls, K, s, c)) <= WindowEnd(ls, K, s, c)
  BY <1>1, <1>9, WindowEndFacts
<1>11. PICK end \in core .. n + 1 : end = WindowEnd(ls, K, s, c)
  BY <1>10
<1>12. /\ end \in s .. n + 1 /\ p \in s .. n /\ p < end
       /\ s <= p /\ p < core /\ q <= p + WindowSlack
  BY <1>1, <1>5, <1>6, <1>7, <1>9, <1>11
<1>13. CASE \A i \in 1 .. n : i < core + WindowSlack => i < end
  <2>1. SUFFICES ASSUME NEW m \in U PROVE m \in LinesIn(ls, s, end)
    BY <1>8, <1>11, <1>2 DEF W, U, ls
  <2>2. m \in S
    BY <2>1 DEF U, UnitOf
  <2>3. PICK i \in 1 .. n : ls[i] = m
    BY <1>1, <2>2 DEF Reading
  <2>4. p <= i /\ i <= q
    BY <1>5, <2>1, <2>3
  <2>5. i < core + WindowSlack /\ s <= i
    BY <1>1, <1>9, <1>12, <2>4
  <2>6. i < end
    BY <1>13, <2>5
  <2> QED BY <1>1, <1>12, <2>3, <2>5, <2>6, LinesInFacts
<1>14. CASE UnitReach(ls, K, s, end) <= end
  <2>1. \A i, j \in s .. n : j < end /\ end <= i => <<ls[j], ls[i]>> \notin K
    <3> SUFFICES ASSUME NEW i \in s .. n, NEW j \in s .. n, j < end, end <= i
                 PROVE  <<ls[j], ls[i]>> \notin K
      OBVIOUS
    <3> QED BY <1>1, <1>12, <1>14, ReachHolds
  <2>2. \A i \in 1 .. n : ls[i] \in U => p <= i
    BY <1>5
  <2>3. U \subseteq LinesIn(ls, s, end)
    BY <1>1, <1>5, <1>12, <2>1, <2>2, StretchHoldsUnit DEF LinksOf, U
  <2> QED BY <1>8, <1>11, <1>2, <2>3 DEF W, U, ls
<1> QED BY <1>10, <1>11, <1>13, <1>14

\* The characters of one line are as many as its length.
LEMMA LineChars ==
  ASSUME NEW l \in Lines
  PROVE  IsFiniteSet({l} \X (1 .. Chars[l])) /\ Cardinality({l} \X (1 .. Chars[l])) = Chars[l]
<1>1. PICK a \in Nat : a = Chars[l]
  BY PageAssumption
<1>2. IsFiniteSet(1 .. a) /\ Cardinality(1 .. a) = a
  BY FS_Interval
<1>3. IsFiniteSet({l}) /\ Cardinality({l}) = 1
  BY FS_Singleton
<1> DEFINE A == {l}
           B == 1 .. a
<1> HIDE DEF A, B
<1>4. IsFiniteSet(A \X B) /\ Cardinality(A \X B) = Cardinality(A) * Cardinality(B)
  BY <1>2, <1>3, FS_Product DEF A, B
<1>5. Cardinality(A) * Cardinality(B) = a
  BY <1>2, <1>3 DEF A, B
<1> QED BY <1>1, <1>4, <1>5 DEF A, B

\* Two lines have the characters of both.
LEMMA TwoLinesChars ==
  ASSUME NEW l \in Lines, NEW m \in Lines, l # m
  PROVE  TotalChars({l, m}) = Chars[l] + Chars[m]
<1> DEFINE A == {l} \X (1 .. Chars[l])
           B == {m} \X (1 .. Chars[m])
<1>1. Chars[l] \in Nat /\ Chars[m] \in Nat
  BY PageAssumption
<1>2. /\ IsFiniteSet(A) /\ Cardinality(A) = Chars[l]
      /\ IsFiniteSet(B) /\ Cardinality(B) = Chars[m]
  BY LineChars
<1>3. A \cap B = {}
  OBVIOUS
<1>4. Characters({l, m}) = A \cup B
  BY DEF Characters
<1> HIDE DEF A, B
<1>5. Cardinality(A \cup B) = Cardinality(A) + Cardinality(B) - Cardinality({})
  BY <1>2, <1>3, FS_Union
<1>6. Cardinality({}) = 0
  BY FS_EmptySet
<1>7. Cardinality(A \cup B) = Chars[l] + Chars[m]
  BY <1>1, <1>2, <1>5, <1>6
<1> QED BY <1>4, <1>7 DEF TotalChars

\* The line after another one on the page.
LEMMA LineAfter ==
  ASSUME NEW S, NEW ls, Reading(ls, S), NEW p \in 1 .. Len(ls), {m \in S : m > ls[p]} # {}
  PROVE  p + 1 \in 1 .. Len(ls) /\ Min({m \in S : m > ls[p]}) = ls[p + 1]
<1> DEFINE n == Len(ls)
           after == {m \in S : m > ls[p]}
<1>1. n \in Nat /\ p \in Nat /\ 1 <= p /\ p <= n
  BY DEF Reading
<1>2. PICK m \in S : m > ls[p]
  OBVIOUS
<1>3. PICK i \in 1 .. n : ls[i] = m
  BY DEF Reading
<1>4. ls[i] \in Nat /\ ls[p] \in Nat /\ p < i
  BY <1>2, <1>3, ReadingPositions
<1>5. p + 1 \in 1 .. n
  BY <1>1, <1>3, <1>4
<1>6. ls[p + 1] \in after
  <2>1. ls[p] < ls[p + 1] /\ ls[p] \in Nat /\ ls[p + 1] \in Nat /\ ls[p + 1] \in S
    BY <1>1, <1>5, ReadingPositions
  <2> QED BY <2>1
<1>7. ASSUME NEW x \in after PROVE ls[p + 1] <= x
  <2>1. PICK j \in 1 .. n : ls[j] = x
    BY DEF Reading
  <2>2. ls[j] \in Nat /\ ls[p] \in Nat /\ ls[p] < ls[j]
    BY <2>1, ReadingPositions
  <2>3. p < j
    BY <2>1, <2>2, ReadingPositions
  <2>4. ~ (j < p + 1)
    BY <1>1, <2>1, <2>3
  <2>5. ~ (ls[j] < ls[p + 1]) /\ ls[p + 1] \in Nat
    BY <1>5, <2>1, <2>4, ReadingPositions
  <2> QED BY <2>1, <2>2, <2>5
<1>8. after \in SUBSET Nat
  BY PageAssumption DEF Reading
<1> HIDE DEF after
<1>9. Min(after) \in after /\ \A x \in after : Min(after) <= x
  BY <1>6, <1>8, MinOf
<1>10. Min(after) \in Nat /\ ls[p + 1] \in Nat /\ Min(after) <= ls[p + 1] /\ ls[p + 1] <= Min(after)
  BY <1>6, <1>7, <1>8, <1>9
<1> QED BY <1>5, <1>10 DEF after

\* The window that decides a line of no word holds the line after it, when the two
\* fit a window together.
LEMMA WindowFollows ==
  ASSUME NEW S \in SUBSET Lines, NEW c, IsConfig(c), c.overlap >= 1, c.window >= 2, NEW K,
         NEW l \in S, UnitOf(l, S, K) = {l}, {m \in S : m > l} # {},
         Chars[l] + Chars[Min({m \in S : m > l})] <= c.maxChars
  PROVE  Min({m \in S : m > l}) \in
           Windows(Ordered(S), K, c)[WindowOfLine(l, Windows(Ordered(S), K, c), S, K)]
<1> DEFINE ls == Ordered(S)
           n  == Len(ls)
           W  == Windows(ls, K, c)
           starts == StartsOf(ls, c)
           w  == WindowOfLine(l, W, S, K)
<1>1. Reading(ls, S) /\ n \in Nat
  BY OrderedReads DEF Reading
<1>2. /\ w \in DOMAIN W /\ l \in W[w]
      /\ \A v \in DOMAIN W : l \in W[v] => v <= w
  <2>1. \E v \in DOMAIN W : l \in W[v]
    BY TryWindowOwns
  <2>2. W \in Seq(SUBSET S)
    <3> HIDE DEF ls
    <3> QED BY <1>1, WindowStarts
  <2> HIDE DEF W
  <2> QED BY <2>1, <2>2, WindowChoice
<1> HIDE DEF ls
<1>3. /\ DOMAIN W = 1 .. Len(starts) /\ starts \in [1 .. Len(starts) -> 1 .. n]
      /\ Len(starts) \in Nat
  BY <1>1, WindowStarts
<1>4. \A p \in 1 .. n : \E v \in 1 .. Len(starts) :
        starts[v] <= p /\ p < NextStart(ls, starts[v], c)
  BY <1>1, WindowStarts
<1>5. \A u, v \in 1 .. Len(starts) : u < v => NextStart(ls, starts[u], c) <= starts[v]
  BY <1>1, WindowStarts
<1>6. W = [v \in DOMAIN starts |-> LinesIn(ls, starts[v], WindowEnd(ls, K, starts[v], c))]
  BY DEF Windows, StartsOf
<1> HIDE DEF starts
<1>7. PICK p \in 1 .. n : ls[p] = l
  BY <1>1 DEF Reading
<1>8. p + 1 \in 1 .. n /\ Min({m \in S : m > l}) = ls[p + 1]
  BY <1>1, <1>7, LineAfter
<1>9. PICK s \in 1 .. n : s = starts[w]
  BY <1>2, <1>3
<1>10. W[w] = LinesIn(ls, s, WindowEnd(ls, K, s, c))
  <2> HIDE DEF w
  <2> QED BY <1>2, <1>3, <1>6, <1>9
<1> HIDE DEF W, w
<1>11. PICK core \in s + 1 .. n + 1 : core = CoreEnd(ls, s, c)
  BY <1>1, CoreEndFacts
<1>12. PICK end \in core .. n + 1 : end = WindowEnd(ls, K, s, c)
  BY <1>1, <1>11, WindowEndFacts
<1>13. s <= p /\ p < end
  BY <1>1, <1>2, <1>7, <1>10, <1>12, WindowHolds
\* The next window starts behind the line: else a later one would hold it.
<1>14. p < NextStart(ls, s, c)
  <2>1. PICK u \in 1 .. Len(starts) : starts[u] <= p /\ p < NextStart(ls, starts[u], c)
    BY <1>4
  <2>2. PICK t \in 1 .. n : t = starts[u]
    BY <1>3
  <2>3. p \in t .. n /\ p < CoreEnd(ls, t, c) /\ t <= p
    BY <1>1, <2>1, <2>2, NextStartFacts
  <2>4. l \in LinesIn(ls, t, WindowEnd(ls, K, t, c))
    BY <1>1, <1>7, <2>2, <2>3, WindowHolds
  <2>5. l \in W[u]
    BY <1>3, <1>6, <2>2, <2>4
  <2>6. u <= w /\ w \in 1 .. Len(starts)
    BY <1>2, <1>3, <2>5
  <2>7. CASE u = w
    BY <1>9, <2>1, <2>7
  <2>8. CASE u < w
    <3>1. NextStart(ls, starts[u], c) <= s
      BY <1>5, <1>9, <2>6, <2>8
    <3>2. NextStart(ls, t, c) \in Nat
      BY <1>1, NextStartFacts
    <3> QED BY <1>1, <1>13, <2>1, <2>2, <3>1, <3>2
  <2> QED BY <1>3, <2>6, <2>7, <2>8
<1>15. SUFFICES ASSUME end <= p + 1 PROVE FALSE
  <2>1. p + 1 < end => ls[p + 1] \in W[w]
    <3>1. s <= p + 1
      BY <1>1, <1>13
    <3> QED BY <1>1, <1>8, <1>10, <1>12, <3>1, WindowHolds
  <2>2. p + 1 < end \/ end <= p + 1
    BY <1>1, <1>12
  <2> QED BY <1>8, <2>1, <2>2 DEF W, w, ls
<1>16. core <= p + 1
  BY <1>1, <1>11, <1>12, <1>15
<1>17. p = s
  <2>1. SUFFICES ASSUME p # s PROVE FALSE
    OBVIOUS
  <2>2. p \in s + 1 .. n - 1
    BY <1>1, <1>8, <1>13, <2>1
  <2>3. NextStart(ls, s, c) <= p
    BY <1>1, <1>11, <1>16, <2>2, NextStartFacts
  <2>4. NextStart(ls, s, c) \in Nat
    BY <1>1, NextStartFacts
  <2> QED BY <1>14, <2>3, <2>4
<1>18. s + 2 \in s + 1 .. n + 1 /\ s + 2 <= s + c.window
  BY <1>1, <1>8, <1>17 DEF IsConfig
<1>19. LinesIn(ls, s, s + 2) = {ls[s], ls[s + 1]}
  <2>1. s .. s + 2 - 1 = {s, s + 1}
    BY <1>1
  <2> QED BY <2>1 DEF LinesIn
<1>20. TotalChars(LinesIn(ls, s, s + 2)) <= c.maxChars
  <2>1. ls[s] # ls[s + 1] /\ ls[s] \in Lines /\ ls[s + 1] \in Lines
    <3>1. s + 1 \in 1 .. n /\ s + 1 # s
      BY <1>1, <1>8, <1>17
    <3> QED BY <1>1, <3>1, ReadingPositions
  <2>2. TotalChars({ls[s], ls[s + 1]}) = Chars[ls[s]] + Chars[ls[s + 1]]
    BY <2>1, TwoLinesChars
  <2> QED BY <1>7, <1>8, <1>17, <1>19, <2>2
<1>21. s + 2 <= core
  BY <1>1, <1>11, <1>18, <1>20, CoreEndFacts
<1> QED BY <1>1, <1>11, <1>16, <1>17, <1>21

\* The step of a chain: onto a later line its last one is linked to, within the cap,
\* or off the page when there is none.
LEMMA NextInChainFacts ==
  ASSUME NEW S, NEW ls, Reading(ls, S), NEW K, LinksOf(K), NEW c, IsConfig(c),
         NEW first \in 1 .. Len(ls), NEW i \in first .. Len(ls)
  PROVE  LET p == NextInChain(ls, K, first, i, c)
         IN  /\ p \in Nat /\ i < p
             /\ p <= Len(ls) => <<ls[i], ls[p]>> \in K /\ p - first + 1 <= c.maxLines
             /\ \A q \in i + 1 .. Len(ls) :
                  <<ls[i], ls[q]>> \in K /\ q - first + 1 <= c.maxLines => p <= Len(ls)
<1> DEFINE n      == Len(ls)
           onward == {q \in i + 1 .. n : <<ls[i], ls[q]>> \in K /\ q - first + 1 <= c.maxLines}
<1>1. n \in Nat /\ first \in Nat /\ i \in Nat /\ i <= n
  BY DEF Reading
<1>2. NextInChain(ls, K, first, i, c) = IF onward = {} THEN n + 1 ELSE Max(onward)
  BY DEF NextInChain
<1> HIDE DEF n
<1>3. onward \in SUBSET Nat /\ \A x \in onward : x <= n
  BY <1>1
<1>4. \A q \in onward : /\ q \in i + 1 .. n /\ <<ls[i], ls[q]>> \in K
                        /\ q - first + 1 <= c.maxLines
  OBVIOUS
<1>5. \A q \in i + 1 .. n : <<ls[i], ls[q]>> \in K /\ q - first + 1 <= c.maxLines => q \in onward
  OBVIOUS
<1> HIDE DEF onward
<1>6. CASE onward = {}
  BY <1>1, <1>2, <1>5, <1>6 DEF n
<1>7. CASE onward # {}
  <2>1. Max(onward) \in onward
    BY <1>1, <1>3, <1>7, MaxOf
  <2>2. NextInChain(ls, K, first, i, c) = Max(onward)
    BY <1>2, <1>7
  <2>3. PICK p \in onward : p = NextInChain(ls, K, first, i, c)
    BY <2>1, <2>2
  <2>4. p \in i + 1 .. n /\ p \in Nat /\ i < p /\ p <= n
    <3>1. p \in Nat /\ p <= n
      BY <1>3
    <3>2. p \in i + 1 .. n
      BY <1>4
    <3> QED BY <1>1, <3>1, <3>2
  <2> QED BY <1>4, <2>3, <2>4 DEF n
<1> QED BY <1>6, <1>7

\* Where a chain ends: within the cap, at a line of the word its first line belongs
\* to; no link passes over its end, and one that goes on from it would break the cap.
LEMMA ChainEndFacts ==
  ASSUME NEW S, NEW ls, Reading(ls, S), NEW K, LinksOf(K), NEW c, IsConfig(c),
         NEW first \in 1 .. Len(ls)
  PROVE  LET last == ChainEnd(ls, K, first, c)
         IN  /\ last \in first .. Len(ls) /\ last - first + 1 <= c.maxLines
             /\ ls[first] \in UnitOf(ls[last], S, K)
             /\ \A j \in first .. Len(ls) : \A i \in 1 .. Len(ls) :
                  <<ls[j], ls[i]>> \in K /\ j < last => i <= last
             /\ \A i \in last + 1 .. Len(ls) :
                  <<ls[last], ls[i]>> \in K => i - first + 1 > c.maxLines
             /\ \A p \in first + 1 .. Len(ls) : p <= last =>
                  \E u, v \in 1 .. Len(ls) : u < p /\ p <= v /\ <<ls[u], ls[v]>> \in K
<1> DEFINE n    == Len(ls)
           next == [i \in first .. n |-> NextInChain(ls, K, first, i, c)]
           T    == Stops(first, n, next)
           last == ChainEnd(ls, K, first, c)
<1>1. n \in Nat /\ first \in Nat /\ first <= n /\ 1 <= first /\ c.maxLines \in Nat \ {0}
  BY DEF Reading, IsConfig
<1>2. \A i \in first .. n :
        /\ next[i] \in Nat /\ i < next[i]
        /\ next[i] <= n => <<ls[i], ls[next[i]]>> \in K /\ next[i] - first + 1 <= c.maxLines
        /\ \A q \in i + 1 .. n :
             <<ls[i], ls[q]>> \in K /\ q - first + 1 <= c.maxLines => next[i] <= n
  BY NextInChainFacts
<1>3. last = Max(T)
  BY DEF ChainEnd
<1> HIDE DEF next, last, n
<1>4. /\ T \subseteq first .. n /\ first \in T
      /\ \A s \in T : next[s] <= n => next[s] \in T
  BY <1>1, <1>2, StopsCut
<1>5. \A i \in first .. n :
        i \in T <=> i = first \/ \E j \in first .. i - 1 : next[j] = i /\ j \in T
  BY <1>1, StopsAre
<1> HIDE DEF T
<1>6. T \in SUBSET Nat /\ \A x \in T : x <= n
  BY <1>1, <1>4
<1>7. last \in T /\ \A x \in T : x <= last
  BY <1>1, <1>3, <1>4, <1>6, MaxOf
<1>8. last \in first .. n
  BY <1>4, <1>7
\* A stop is the first or is linked to from an earlier one.
<1>9. ASSUME NEW t \in T, t # first
      PROVE  \E u \in T : u < t /\ <<ls[u], ls[t]>> \in K /\ t - first + 1 <= c.maxLines
  <2>1. t \in first .. n
    BY <1>4
  <2>2. PICK u \in first .. t - 1 : next[u] = t /\ u \in T
    BY <1>5, <1>9, <2>1
  <2>3. u \in first .. n /\ u < t /\ t <= n
    BY <1>1, <2>1
  <2> QED BY <1>2, <2>2, <2>3
\* What lies between two stops, the link that leads from one to the next goes over.
<1>p. ASSUME NEW p \in first + 1 .. n, p <= last
      PROVE  \E u, v \in 1 .. n : u < p /\ p <= v /\ <<ls[u], ls[v]>> \in K
  <2> DEFINE Past == {t \in T : p <= t}
  <2>1. Past \in SUBSET Nat /\ Past # {}
    BY <1>6, <1>7, <1>p
  <2>2. \A t \in Past : t \in T /\ p <= t
    OBVIOUS
  <2>3. \A t \in T : p <= t => t \in Past
    OBVIOUS
  <2> HIDE DEF Past
  <2>4. PICK v \in Past : \A t \in Past : v <= t
    BY <2>1, FirstExists
  <2>5. v \in T /\ p <= v /\ v \in first .. n /\ v # first /\ v \in Nat
    <3>1. v \in T /\ p <= v
      BY <2>2
    <3>2. v \in first .. n /\ v \in Nat
      BY <1>4, <1>6, <3>1
    <3>3. v # first
      BY <1>1, <3>1
    <3> QED BY <3>1, <3>2, <3>3
  <2>6. PICK u \in T : u < v /\ <<ls[u], ls[v]>> \in K
    BY <1>9, <2>5
  <2>7. u \in first .. n /\ u \in Nat
    BY <1>4, <1>6
  <2>8. u < p
    <3>1. SUFFICES ASSUME p <= u PROVE FALSE
      BY <1>1, <2>7
    <3>2. u \in Past
      BY <2>3, <3>1
    <3>3. v <= u
      BY <2>4, <3>2
    <3> QED BY <2>5, <2>6, <2>7, <3>3
  <2>9. u \in 1 .. n /\ v \in 1 .. n
    BY <1>1, <2>5, <2>7
  <2> QED BY <2>5, <2>6, <2>8, <2>9
<1>10. last - first + 1 <= c.maxLines
  <2>1. CASE last = first
    BY <1>1, <2>1
  <2>2. CASE last # first
    BY <1>7, <1>9, <2>2
  <2> QED BY <2>1, <2>2
<1>11. \A t \in T : ls[first] \in UnitOf(ls[t], S, K)
  <2> DEFINE Bad == {t \in T : ls[first] \notin UnitOf(ls[t], S, K)}
  <2>1. SUFFICES ASSUME Bad # {} PROVE FALSE
    OBVIOUS
  <2>2. PICK t \in Bad : \A u \in Bad : t <= u
    <3>1. Bad \in SUBSET Nat
      BY <1>6
    <3> HIDE DEF Bad
    <3> QED BY <2>1, <3>1, FirstExists
  <2>3. t \in T /\ ls[first] \notin UnitOf(ls[t], S, K)
    BY <2>2
  <2>4. t # first
    <3>1. ls[first] \in S
      BY ReadingPositions
    <3> QED BY <2>3, <3>1, UnitHoldsItsLine
  <2>5. PICK u \in T : u < t /\ <<ls[u], ls[t]>> \in K
    BY <1>9, <2>3, <2>4
  <2>6. u \notin Bad
    <3>1. u \in Nat /\ t \in Nat
      BY <1>6, <2>3
    <3> HIDE DEF Bad
    <3> QED BY <2>2, <2>5, <3>1
  <2>7. ls[first] \in UnitOf(ls[u], S, K)
    BY <2>6
  <2>8. ls[u] \in S /\ ls[t] \in S
    <3>1. u \in 1 .. n /\ t \in 1 .. n
      BY <1>1, <1>4, <2>3
    <3> QED BY <3>1, ReadingPositions DEF n
  <2>9. UnitOf(ls[u], S, K) = UnitOf(ls[t], S, K)
    <3> DEFINE k == <<ls[u], ls[t]>>
    <3>1. k \in K /\ k[1] \in S /\ k[2] \in S
      BY <2>5, <2>8
    <3> HIDE DEF k
    <3>2. UnitOf(k[1], S, K) = UnitOf(k[2], S, K)
      BY <3>1, LinkedUnitsEqual
    <3> QED BY <3>2 DEF k
  <2> QED BY <2>3, <2>7, <2>9
<1>12. ASSUME NEW t \in T, NEW j \in first .. n, NEW i \in 1 .. n,
              <<ls[j], ls[i]>> \in K, j < t, t < i
       PROVE  FALSE
  <2> DEFINE Passed(v) == \E a \in first .. n : \E b \in 1 .. n :
                            <<ls[a], ls[b]>> \in K /\ a < v /\ v < b
             Bad == {v \in T : Passed(v)}
  <2>1. Bad # {} /\ Bad \in SUBSET Nat
    BY <1>6, <1>12
  <2>2. PICK v \in Bad : \A u \in Bad : v <= u
    <3> HIDE DEF Bad
    <3> QED BY <2>1, FirstExists
  <2>3. PICK a \in first .. n, b \in 1 .. n : <<ls[a], ls[b]>> \in K /\ a < v /\ v < b
    BY <2>2
  <2>4. v \in T /\ v \in first .. n /\ v # first /\ a \in 1 .. n /\ v \in 1 .. n
    BY <1>1, <1>4, <2>2, <2>3
  <2>5. PICK u \in T : u < v /\ <<ls[u], ls[v]>> \in K
    BY <1>9, <2>4
  <2>6. u \in first .. n /\ u \in 1 .. n
    BY <1>1, <1>4
  <2>7. u \notin Bad
    <3> HIDE DEF Bad
    <3> QED BY <2>2, <2>4, <2>5, <2>6
  <2>8. ~ (a < u)
    <3>1. u < b
      BY <1>1, <2>3, <2>4, <2>5, <2>6
    <3> QED BY <2>3, <2>7, <3>1
  <2>9. a # u
    <3>1. SUFFICES ASSUME a = u PROVE FALSE
      OBVIOUS
    <3>2. <<ls[a], ls[b]>> = <<ls[u], ls[v]>>
      BY <2>3, <2>5, <3>1 DEF LinksOf, WellLinked
    <3>3. ls[b] = ls[v]
      BY <3>2
    <3>4. b = v
      BY <2>3, <2>4, <3>3, ReadingPositions DEF n
    <3> QED BY <2>3, <2>4, <3>4
  <2>10. u < a
    BY <2>4, <2>6, <2>8, <2>9
  <2>11. ls[u] < ls[a] /\ ls[a] < ls[v]
    BY <2>3, <2>4, <2>6, <2>10, ReadingPositions DEF n
  <2> QED BY <2>3, <2>5, <2>11 DEF LinksOf, WellLinked
<1>13. ASSUME NEW j \in first .. n, NEW i \in 1 .. n, <<ls[j], ls[i]>> \in K, j < last
       PROVE  i <= last
  BY <1>1, <1>7, <1>8, <1>12, <1>13
<1>14. ASSUME NEW i \in last + 1 .. n, <<ls[last], ls[i]>> \in K
       PROVE  i - first + 1 > c.maxLines
  <2>1. SUFFICES ASSUME i - first + 1 <= c.maxLines PROVE FALSE
    <3>1. i - first + 1 \in Int /\ c.maxLines \in Int
      BY <1>1, <1>8
    <3> QED BY <2>1, <3>1
  <2>2. next[last] <= n /\ next[last] \in Nat /\ last < next[last]
    BY <1>2, <1>8, <1>14, <2>1
  <2>3. next[last] \in T
    BY <1>4, <1>7, <2>2
  <2> QED BY <1>7, <1>8, <2>2, <2>3
<1> QED BY <1>p, <1>7, <1>8, <1>10, <1>11, <1>13, <1>14 DEF last, n

\* Two lines of a word on a page: its span covers what lies between them.
LEMMA SpanCovers ==
  ASSUME NEW S, NEW ls, Reading(ls, S), NEW K, NEW l \in S,
         NEW i \in 1 .. Len(ls), NEW j \in i .. Len(ls),
         ls[i] \in UnitOf(l, S, K), ls[j] \in UnitOf(l, S, K)
  PROVE  Span(l, S, K) \in Int /\ Span(l, S, K) >= j - i + 1
<1>1. PICK p \in 1 .. Len(ls) : \E q \in p .. Len(ls) :
           /\ ls[p] \in UnitOf(l, S, K) /\ ls[q] \in UnitOf(l, S, K)
           /\ \A h \in 1 .. Len(ls) : ls[h] \in UnitOf(l, S, K) => p <= h /\ h <= q
           /\ Span(l, S, K) = q - p + 1
  BY SpanPositions
<1>2. PICK q \in p .. Len(ls) :
           /\ \A h \in 1 .. Len(ls) : ls[h] \in UnitOf(l, S, K) => p <= h /\ h <= q
           /\ Span(l, S, K) = q - p + 1
  BY <1>1
<1>3. Len(ls) \in Nat
  BY DEF Reading
<1>4. i \in 1 .. Len(ls) /\ j \in 1 .. Len(ls)
  BY <1>3
<1>5. p <= i /\ j <= q
  BY <1>2, <1>4
<1>6. p \in Int /\ q \in Int /\ i \in Int /\ j \in Int
  BY <1>3
<1> QED BY <1>2, <1>5, <1>6

\* Where the chains of a page start.
ChainStarts(ls, K, c) ==
  Ordered(Stops(1, Len(ls), [i \in DOMAIN ls |-> [j \in DOMAIN ls |-> ChainEnd(ls, K, j, c)][i] + 1]))

\* The chains follow one another over the page, each from its start to its end.
LEMMA ChainsFollow ==
  ASSUME NEW S, NEW ls, Reading(ls, S), NEW K, LinksOf(K), NEW c, IsConfig(c)
  PROVE  /\ Len(ChainStarts(ls, K, c)) \in Nat
         /\ DOMAIN ChainStarts(ls, K, c) = 1 .. Len(ChainStarts(ls, K, c))
         /\ \A k \in 1 .. Len(ChainStarts(ls, K, c)) : ChainStarts(ls, K, c)[k] \in 1 .. Len(ls)
         /\ \A h \in 1 .. Len(ls) : \E k \in 1 .. Len(ChainStarts(ls, K, c)) :
              /\ ChainStarts(ls, K, c)[k] <= h
              /\ h <= ChainEnd(ls, K, ChainStarts(ls, K, c)[k], c)
         /\ \A j, k \in 1 .. Len(ChainStarts(ls, K, c)) :
              j < k => ChainEnd(ls, K, ChainStarts(ls, K, c)[j], c) < ChainStarts(ls, K, c)[k]
<1> DEFINE n      == Len(ls)
           ends   == [j \in DOMAIN ls |-> ChainEnd(ls, K, j, c)]
           next   == [i \in DOMAIN ls |-> ends[i] + 1]
           firsts == Ordered(Stops(1, n, next))
           m      == Len(firsts)
<1>1. n \in Nat /\ DOMAIN ls = 1 .. n
  BY DEF Reading
<1>2. \A i \in 1 .. n : ChainEnd(ls, K, i, c) \in i .. n
  BY ChainEndFacts
<1>3. \A i \in 1 .. n : next[i] = ChainEnd(ls, K, i, c) + 1
  BY <1>1
<1>4. ChainStarts(ls, K, c) = firsts
  BY DEF ChainStarts
<1> HIDE DEF n, ends, next
<1>5. \A i \in 1 .. n : next[i] \in Nat /\ i < next[i]
  BY <1>1, <1>2, <1>3
<1>6. /\ m \in Nat /\ firsts \in [1 .. m -> 1 .. n] /\ DOMAIN firsts = 1 .. m
      /\ \A h \in 1 .. n : \E k \in 1 .. m : firsts[k] <= h /\ h < next[firsts[k]]
      /\ \A j, k \in 1 .. m : j < k => next[firsts[j]] <= firsts[k]
  BY <1>1, <1>5, LoopStarts
<1> HIDE DEF firsts, m
<1>7. \A k \in 1 .. m : firsts[k] \in 1 .. n
  BY <1>6
<1>8. ASSUME NEW h \in 1 .. n
      PROVE  \E k \in 1 .. m : firsts[k] <= h /\ h <= ChainEnd(ls, K, firsts[k], c)
  <2>1. PICK k \in 1 .. m : firsts[k] <= h /\ h < next[firsts[k]]
    BY <1>6
  <2>2. firsts[k] \in 1 .. n
    BY <1>7
  <2>3. ChainEnd(ls, K, firsts[k], c) \in Int /\ next[firsts[k]] = ChainEnd(ls, K, firsts[k], c) + 1
    BY <1>1, <1>2, <1>3, <2>2
  <2> QED BY <1>1, <2>1, <2>3
<1>9. ASSUME NEW j \in 1 .. m, NEW k \in 1 .. m, j < k
      PROVE  ChainEnd(ls, K, firsts[j], c) < firsts[k]
  <2>1. next[firsts[j]] <= firsts[k]
    BY <1>6, <1>9
  <2>2. firsts[j] \in 1 .. n /\ firsts[k] \in 1 .. n
    BY <1>7
  <2>3. ChainEnd(ls, K, firsts[j], c) \in Int
    BY <1>1, <1>2, <2>2
  <2>4. next[firsts[j]] = ChainEnd(ls, K, firsts[j], c) + 1
    BY <1>3, <2>2
  <2> QED BY <1>1, <2>1, <2>2, <2>3, <2>4
<1> QED BY <1>4, <1>6, <1>7, <1>8, <1>9 DEF n, m

\* The chains of a page as sets of lines.
Chains(S, K, c) ==
  [k \in DOMAIN ChainStarts(Ordered(S), K, c) |->
     LinesIn(Ordered(S), ChainStarts(Ordered(S), K, c)[k],
             ChainEnd(Ordered(S), K, ChainStarts(Ordered(S), K, c)[k], c) + 1)]

\* The last line of a chain.
LastOf(S, K, c, k) == Ordered(S)[ChainEnd(Ordered(S), K, ChainStarts(Ordered(S), K, c)[k], c)]

\* The chains cut the page within the line cap; a link whose tail is not the last
\* line of its chain stays in it, one from the last line leaves it, and then the
\* word is longer than the cap.
LEMMA ChainsCut ==
  ASSUME NEW S \in SUBSET Lines, NEW K, LinksOf(K), NEW c, IsConfig(c)
  PROVE  /\ CutInto(Chains(S, K, c), S)
         /\ \A k \in DOMAIN Chains(S, K, c) :
              /\ Cardinality(Chains(S, K, c)[k]) <= c.maxLines
              /\ LastOf(S, K, c, k) \in Chains(S, K, c)[k]
              /\ LineSized(Chains(S, K, c)[k], S, K, c)
         /\ \A k \in DOMAIN Chains(S, K, c) : \A q \in K :
              q[1] \in Chains(S, K, c)[k] /\ q[2] \in S =>
                /\ q[1] # LastOf(S, K, c, k) => q[2] \in Chains(S, K, c)[k]
                /\ q[1] = LastOf(S, K, c, k) =>
                     q[2] \notin Chains(S, K, c)[k] /\ Span(q[1], S, K) > c.maxLines
<1> DEFINE ls     == Ordered(S)
           n      == Len(ls)
           firsts == ChainStarts(ls, K, c)
           m      == Len(firsts)
           e(k)   == ChainEnd(ls, K, firsts[k], c)
           G      == [k \in 1 .. m |-> LinesIn(ls, firsts[k], e(k) + 1)]
<1>1. Reading(ls, S)
  BY OrderedReads
<1> HIDE DEF ls
<1>2. n \in Nat /\ c.maxLines \in Nat
  BY <1>1 DEF Reading, IsConfig
<1>3. /\ m \in Nat /\ DOMAIN firsts = 1 .. m
      /\ \A k \in 1 .. m : firsts[k] \in 1 .. n
      /\ \A h \in 1 .. n : \E k \in 1 .. m : firsts[k] <= h /\ h <= e(k)
      /\ \A j, k \in 1 .. m : j < k => e(j) < firsts[k]
  BY <1>1, ChainsFollow
<1>4. Chains(S, K, c) = G /\ \A k : LastOf(S, K, c, k) = ls[e(k)]
  BY <1>3 DEF Chains, LastOf, ls
<1>5. DOMAIN G = 1 .. m /\ \A k \in 1 .. m : G[k] = LinesIn(ls, firsts[k], e(k) + 1)
  OBVIOUS
<1> HIDE DEF firsts, m, G
<1>6. ASSUME NEW k \in 1 .. m
      PROVE  /\ e(k) \in firsts[k] .. n /\ e(k) - firsts[k] + 1 <= c.maxLines
             /\ ls[firsts[k]] \in UnitOf(ls[e(k)], S, K)
             /\ \A j \in firsts[k] .. n : \A i \in 1 .. n : <<ls[j], ls[i]>> \in K /\ j < e(k) => i <= e(k)
             /\ \A i \in e(k) + 1 .. n : <<ls[e(k)], ls[i]>> \in K => i - firsts[k] + 1 > c.maxLines
             /\ \A p \in firsts[k] + 1 .. n : p <= e(k) =>
                  \E u, v \in 1 .. n : u < p /\ p <= v /\ <<ls[u], ls[v]>> \in K
  BY <1>1, <1>3, ChainEndFacts
<1>e. ASSUME NEW k \in 1 .. m
      PROVE  e(k) \in Int /\ firsts[k] \in Int /\ 1 <= firsts[k] /\ firsts[k] <= e(k) /\ e(k) <= n
  <2>1. firsts[k] \in 1 .. n
    BY <1>3
  <2>2. e(k) \in firsts[k] .. n
    BY <1>6
  <2> HIDE DEF e, n
  <2> QED BY <1>2, <2>1, <2>2
<1>7. ASSUME NEW k \in 1 .. m
      PROVE  /\ G[k] \in SUBSET S /\ Cardinality(G[k]) = e(k) + 1 - firsts[k]
             /\ \A i \in 1 .. n : ls[i] \in G[k] <=> firsts[k] <= i /\ i < e(k) + 1
  <2> DEFINE f == firsts[k]
             z == e(k) + 1
  <2>1. f \in 1 .. n /\ z \in f .. n + 1
    <3> HIDE DEF n, e
    <3> QED BY <1>2, <1>e
  <2>2. G[k] = LinesIn(ls, f, z)
    BY <1>5
  <2> HIDE DEF f, z
  <2>4. /\ LinesIn(ls, f, z) \in SUBSET S
        /\ Cardinality(LinesIn(ls, f, z)) = z - f
        /\ \A i \in 1 .. n : ls[i] \in LinesIn(ls, f, z) <=> f <= i /\ i < z
    BY <1>1, <2>1, LinesInFacts
  <2>5. G[k] \in SUBSET S /\ Cardinality(G[k]) = e(k) + 1 - firsts[k]
    <3>1. Cardinality(G[k]) = z - f
      BY <2>2, <2>4
    <3>2. z - f = e(k) + 1 - firsts[k]
      <4> HIDE DEF e
      <4> QED BY <1>e DEF z, f
    <3> HIDE DEF e
    <3> QED BY <2>2, <2>4, <3>1, <3>2
  <2>6. \A i \in 1 .. n : ls[i] \in G[k] <=> firsts[k] <= i /\ i < e(k) + 1
    BY <2>2, <2>4 DEF f, z
  <2> QED BY <2>5, <2>6
<1> HIDE DEF e
<1>8. \A k \in 1 .. m : \A i \in 1 .. n : ls[i] \in G[k] <=> firsts[k] <= i /\ i <= e(k)
  <2> TAKE k \in 1 .. m
  <2> TAKE i \in 1 .. n
  <2>1. e(k) \in Int /\ firsts[k] \in Int
    BY <1>e
  <2> QED BY <1>2, <1>7, <2>1
<1>9. CutInto(G, S)
  <2>1. G \in Seq(SUBSET S)
    <3>1. G \in [1 .. m -> SUBSET S]
      <4>1. G = [k \in 1 .. m |-> G[k]]
        BY DEF G
      <4>2. \A k \in 1 .. m : G[k] \in SUBSET S
        BY <1>7
      <4> QED BY <4>1, <4>2
    <3>2. m \in Nat
      BY <1>3
    <3> HIDE DEF m
    <3> QED BY <3>1, <3>2, FunIsSeq
  <2>2. ASSUME NEW l \in S PROVE \E k \in 1 .. m : l \in G[k]
    <3>1. PICK i \in 1 .. n : ls[i] = l
      BY <1>1 DEF Reading
    <3>2. PICK k \in 1 .. m : firsts[k] <= i /\ i <= e(k)
      BY <1>3
    <3> QED BY <1>8, <3>1, <3>2
  <2>3. ASSUME NEW j \in 1 .. m, NEW k \in 1 .. m, j < k PROVE G[j] \cap G[k] = {}
    <3>1. SUFFICES ASSUME NEW l \in G[j], l \in G[k] PROVE FALSE
      OBVIOUS
    <3>2. PICK i \in 1 .. n : ls[i] = l
      BY <1>1, <1>7 DEF Reading
    <3>3. i <= e(j) /\ firsts[k] <= i
      BY <1>8, <3>1, <3>2
    <3>4. e(j) \in Int /\ firsts[k] \in Int
      BY <1>e
    <3> QED BY <1>2, <1>3, <2>3, <3>3, <3>4
  <2>4. \A j, k \in 1 .. m : j # k => G[j] \cap G[k] = {}
    <3> TAKE j \in 1 .. m, k \in 1 .. m
    <3>1. j < k \/ k < j \/ j = k
      BY <1>3
    <3> QED BY <2>3, <3>1
  <2> QED BY <1>5, <2>1, <2>2, <2>4 DEF CutInto
<1>10. ASSUME NEW k \in 1 .. m
       PROVE  Cardinality(G[k]) <= c.maxLines /\ ls[e(k)] \in G[k]
  <2>1. e(k) \in firsts[k] .. n /\ firsts[k] \in 1 .. n /\ e(k) - firsts[k] + 1 <= c.maxLines
    BY <1>3, <1>6
  <2>2. e(k) \in 1 .. n /\ firsts[k] <= e(k)
    BY <1>2, <2>1
  <2>3. Cardinality(G[k]) = e(k) + 1 - firsts[k]
    BY <1>7
  <2> QED BY <1>2, <1>8, <2>1, <2>2, <2>3
<1>11. ASSUME NEW k \in 1 .. m, NEW q \in K, q[1] \in G[k], q[2] \in S
       PROVE  /\ q[1] # ls[e(k)] => q[2] \in G[k]
              /\ q[1] = ls[e(k)] => q[2] \notin G[k] /\ Span(q[1], S, K) > c.maxLines
  <2>1. PICK a \in 1 .. n, b \in 1 .. n : ls[a] = q[1] /\ ls[b] = q[2]
    BY <1>1, <1>7, <1>11 DEF Reading
  <2>2. firsts[k] <= a /\ a <= e(k) /\ firsts[k] \in 1 .. n /\ e(k) \in firsts[k] .. n
    BY <1>3, <1>6, <1>8, <1>11, <2>1
  <2>3. a < b
    <3>1. ls[a] < ls[b]
      BY <2>1 DEF LinksOf, WellLinked
    <3> QED BY <1>1, <3>1, ReadingPositions
  <2>4. q = <<ls[a], ls[b]>>
    BY <2>1 DEF LinksOf
  <2>5. a \in firsts[k] .. n /\ firsts[k] <= b
    BY <1>2, <2>2, <2>3
  <2>6. ASSUME q[1] # ls[e(k)] PROVE q[2] \in G[k]
    <3>1. a < e(k)
      BY <1>2, <2>1, <2>2, <2>6
    <3>2. b <= e(k)
      BY <1>6, <2>4, <2>5, <3>1
    <3> QED BY <1>8, <2>1, <2>5, <3>2
  <2>7. ASSUME q[1] = ls[e(k)] PROVE q[2] \notin G[k] /\ Span(q[1], S, K) > c.maxLines
    <3>1. e(k) \in 1 .. n
      BY <1>2, <2>2
    <3>2. a = e(k)
      BY <1>1, <2>1, <2>7, <3>1, ReadingPositions
    <3>3. b \in e(k) + 1 .. n /\ ~ (b <= e(k))
      BY <1>2, <2>3, <3>1, <3>2
    <3>4. q[2] \notin G[k]
      BY <1>8, <2>1, <3>3
    <3>5. b - firsts[k] + 1 > c.maxLines
      BY <1>6, <2>4, <3>2, <3>3
    <3>6. ls[firsts[k]] \in UnitOf(q[1], S, K)
      BY <1>6, <2>1, <3>2
    <3>7. q[1] \in S /\ q[2] \in S
      BY <1>7, <1>11
    <3>8. ls[b] \in UnitOf(q[1], S, K)
      BY <2>1, <3>7, UnitClosed, UnitHoldsItsLine
    <3>9. firsts[k] \in 1 .. n /\ b \in firsts[k] .. n
      BY <1>2, <2>2, <2>5
    <3>10. Span(q[1], S, K) \in Int /\ Span(q[1], S, K) >= b - firsts[k] + 1
      <4> DEFINE l == q[1]
                 f == firsts[k]
      <4>1. l \in S /\ f \in 1 .. n /\ b \in f .. n /\ ls[f] \in UnitOf(l, S, K) /\ ls[b] \in UnitOf(l, S, K)
        BY <3>6, <3>7, <3>8, <3>9
      <4> HIDE DEF l, f
      <4>2. Span(l, S, K) \in Int /\ Span(l, S, K) >= b - f + 1
        BY <1>1, <4>1, SpanCovers
      <4> QED BY <4>2 DEF l, f
    <3> QED BY <1>2, <3>4, <3>5, <3>9, <3>10
  <2> QED BY <2>6, <2>7
\* Only the first line of a chain is there for itself.
<1>12. ASSUME NEW k \in 1 .. m PROVE LineSized(G[k], S, K, c)
  <2>1. PICK f \in 1 .. n : f = firsts[k]
    BY <1>3
  <2> DEFINE core == {ls[f]}
  <2>2. f <= e(k) /\ f <= n /\ e(k) \in Int /\ f \in Nat
    BY <1>e, <2>1
  <2>3. core \in SUBSET G[k]
    BY <1>8, <2>1, <2>2
  <2>4. ASSUME NEW x \in G[k] \ core
        PROVE  Reached(x, S, K) /\ \A l \in core : l < x
    <3>1. PICK p \in 1 .. n : ls[p] = x
      BY <1>1, <1>7 DEF Reading
    <3>2. f <= p /\ p <= e(k) /\ p # f
      BY <1>8, <2>1, <3>1
    <3>3. p \in f + 1 .. n /\ f < p
      BY <1>2, <2>2, <3>2
    <3>4. PICK u \in 1 .. n, v \in 1 .. n : u < p /\ p <= v /\ <<ls[u], ls[v]>> \in K
      BY <1>6, <2>1, <3>2, <3>3
    <3>5. ls[u] \in S /\ ls[v] \in S /\ ls[u] < x /\ x <= ls[v] /\ ls[f] < x
      <4>1. ls[u] \in S /\ ls[v] \in S /\ ls[u] < x /\ ls[f] < x
        BY <1>1, <3>1, <3>3, <3>4, ReadingPositions
      <4>2. ls[v] \in Nat /\ (p < v => ls[p] < ls[v]) /\ x \in Nat
        BY <1>1, <3>1, ReadingPositions
      <4>3. p = v \/ p < v
        BY <1>2, <3>4
      <4> QED BY <3>1, <4>1, <4>2, <4>3
    <3> DEFINE j == <<ls[u], ls[v]>>
    <3>6. j \in K /\ {j[1], j[2]} \subseteq S /\ j[1] < x /\ x <= j[2]
      BY <3>4, <3>5
    <3>7. Reached(x, S, K)
      BY <3>6 DEF Reached
    <3> QED BY <3>5, <3>7
  <2>5. core \in Cores(G[k], S, K)
    BY <2>3, <2>4 DEF Cores
  <2>6. Cardinality(core) <= 1
    <3>1. Cardinality({ls[f]}) = 1
      BY FS_Singleton
    <3> QED BY <3>1
  <2> HIDE DEF core
  <2> QED BY <1>10, <2>5, <2>6 DEF LineSized
<1> QED BY <1>4, <1>5, <1>9, <1>10, <1>11, <1>12

\* Both ends of a link are targets of one chunk.
Together(P, k) == \E i \in DOMAIN P.chunks : {k[1], k[2]} \subseteq P.chunks[i].targets

\* The links between two lines of S.
Inner(K, S) == {k \in K : k[1] \in S /\ k[2] \in S}

\* What a plan of the page S owes, before and after it is capped.
Sound(P, S, K, c) ==
  /\ Owns(P.chunks, S)
  /\ P.splits \subseteq Inner(K, S)
  /\ \A k \in P.splits : ~ Together(P, k)
  /\ (\E i \in DOMAIN P.chunks : P.chunks[i].grain = "LINE") =>
       \A k \in Inner(K, S) : k \notin P.splits => Together(P, k)
  /\ \A k \in Inner(K, S) :
       Span(k[1], S, K) <= c.maxLines /\ Span(k[1], S, K) <= WindowSlack + 1 => Together(P, k)
  /\ \A i \in DOMAIN P.chunks : Bounded(P.chunks[i], S, K, c)

\* A plan made of a cut of the page.
CutPlan(G, g, X) == [chunks |-> [i \in DOMAIN G |-> Chunk(g, G[i], G[i])], splits |-> X]

\* Such a plan: one owner per line, and what it keeps together.
LEMMA CutPlanFacts ==
  ASSUME NEW S, NEW G, CutInto(G, S), NEW g \in Grains, NEW X
  PROVE  /\ Owns(CutPlan(G, g, X).chunks, S)
         /\ DOMAIN CutPlan(G, g, X).chunks = DOMAIN G
         /\ CutPlan(G, g, X).splits = X
         /\ \A k : Together(CutPlan(G, g, X), k) <=>
                     \E i \in DOMAIN G : k[1] \in G[i] /\ k[2] \in G[i]
         /\ \A i \in DOMAIN G : /\ CutPlan(G, g, X).chunks[i].grain = g
                                /\ CutPlan(G, g, X).chunks[i].lines = G[i]
<1> DEFINE P == CutPlan(G, g, X)
<1>1. Owns(P.chunks, S)
  BY CutOwns DEF CutPlan
<1>2. /\ DOMAIN P.chunks = DOMAIN G
      /\ P.splits = X
      /\ \A i \in DOMAIN G : P.chunks[i] = [grain |-> g, lines |-> G[i], targets |-> G[i]]
  BY DEF CutPlan, Chunk
<1>3. \A i \in DOMAIN G : /\ P.chunks[i].grain = g /\ P.chunks[i].lines = G[i]
                          /\ P.chunks[i].targets = G[i]
  BY DEF CutPlan, Chunk
<1> HIDE DEF P
<1>4. ASSUME NEW k
      PROVE  Together(P, k) <=> \E i \in DOMAIN G : k[1] \in G[i] /\ k[2] \in G[i]
  <2>1. Together(P, k) <=> \E i \in DOMAIN P.chunks : {k[1], k[2]} \subseteq P.chunks[i].targets
    BY DEF Together
  <2> QED BY <1>2, <1>3, <2>1
<1> QED BY <1>1, <1>2, <1>3, <1>4 DEF P

\* _try_page gives a sound plan, when it gives one.
LEMMA PageSound ==
  ASSUME NEW S \in SUBSET Lines, NEW K, NEW c, IsConfig(c), TryPage(S, c) # NoPlan
  PROVE  Sound(TryPage(S, c), S, K, c)
<1> DEFINE G == <<S>>
           P == CutPlan(G, "PAGE", {})
<1>1. Fits(S, c)
  BY DEF TryPage
<1>2. CutInto(G, S)
  <2>1. G \in Seq(SUBSET S) /\ DOMAIN G = {1} /\ G[1] = S
    OBVIOUS
  <2> QED BY <2>1 DEF CutInto
<1>3. TryPage(S, c) = P
  BY <1>1 DEF TryPage, CutPlan, Chunk
<1>4. "PAGE" \in Grains
  BY DEF Grains
<1>5. DOMAIN G = {1} /\ G[1] = S
  OBVIOUS
<1> HIDE DEF G
<1>6. /\ Owns(P.chunks, S) /\ DOMAIN P.chunks = DOMAIN G /\ P.splits = {}
      /\ \A k : Together(P, k) <=> \E i \in DOMAIN G : k[1] \in G[i] /\ k[2] \in G[i]
      /\ \A i \in DOMAIN G : P.chunks[i].grain = "PAGE" /\ P.chunks[i].lines = G[i]
  BY <1>2, <1>4, CutPlanFacts
<1> HIDE DEF P
<1>7. \A i \in DOMAIN P.chunks : P.chunks[i].grain = "PAGE" /\ Bounded(P.chunks[i], S, K, c)
  BY <1>1, <1>5, <1>6 DEF Bounded
<1>8. \A k \in Inner(K, S) : Together(P, k)
  BY <1>5, <1>6 DEF Inner
<1> QED BY <1>3, <1>6, <1>7, <1>8 DEF Sound

\* _try_block gives a sound plan, when it gives one.
LEMMA BlockSound ==
  ASSUME NEW S \in SUBSET Lines, NEW K, NEW c, IsConfig(c), TryBlock(S, K, c) # NoPlan
  PROVE  Sound(TryBlock(S, K, c), S, K, c)
<1> DEFINE groups == BlockGroups(S, K)
           next   == Closes(groups, c)
           kept   == IF c.coalesce THEN Gathered(groups, next) ELSE groups
           P      == CutPlan(kept, "BLOCK", {})
<1>1. /\ \A i \in DOMAIN groups : Fits(groups[i], c)
      /\ TryBlock(S, K, c) = P
  BY DEF TryBlock, CutPlan
<1>2. /\ CutInto(groups, S)
      /\ \A k \in K : k[1] \in S /\ k[2] \in S =>
           \A i \in DOMAIN groups : k[1] \in groups[i] <=> k[2] \in groups[i]
  BY BlockGroupsCut
<1> HIDE DEF groups, next
<1>3. groups \in Seq(SUBSET S) /\ DOMAIN groups = 1 .. Len(groups)
  BY <1>2 DEF CutInto
<1>4. /\ CutInto(kept, S)
      /\ \A h \in DOMAIN groups : \E k \in DOMAIN kept : groups[h] \subseteq kept[k]
      /\ \A k \in DOMAIN kept : Fits(kept[k], c)
  <2>1. CASE c.coalesce
    <3>1. \A i \in 1 .. Len(groups) :
            /\ next[i] \in i + 1 .. Len(groups) + 1
            /\ Fits(UNION {groups[h] : h \in i .. next[i] - 1}, c)
      BY <1>1, <1>3, ClosesInTime DEF next
    <3>2. \A i \in 1 .. Len(groups) : next[i] \in i + 1 .. Len(groups) + 1
      BY <3>1
    <3> DEFINE H == Gathered(groups, next)
    <3>3. /\ CutInto(H, S)
          /\ \A k \in DOMAIN H : \E s \in 1 .. Len(groups) :
               H[k] = UNION {groups[h] : h \in s .. next[s] - 1}
          /\ \A h \in 1 .. Len(groups) : \E k \in DOMAIN H : groups[h] \subseteq H[k]
      BY <1>2, <3>2, GatheredCut
    <3>4. kept = H
      BY <2>1
    <3> HIDE DEF H, kept
    <3> QED BY <1>3, <3>1, <3>3, <3>4
  <2>2. CASE ~ c.coalesce
    <3>1. kept = groups
      BY <2>2
    <3> HIDE DEF kept
    <3> QED BY <1>1, <1>2, <3>1
  <2> QED BY <2>1, <2>2
<1> HIDE DEF kept
<1>5. "BLOCK" \in Grains
  BY DEF Grains
<1>6. /\ Owns(P.chunks, S) /\ DOMAIN P.chunks = DOMAIN kept /\ P.splits = {}
      /\ \A k : Together(P, k) <=> \E i \in DOMAIN kept : k[1] \in kept[i] /\ k[2] \in kept[i]
      /\ \A i \in DOMAIN kept : P.chunks[i].grain = "BLOCK" /\ P.chunks[i].lines = kept[i]
  BY <1>4, <1>5, CutPlanFacts
<1> HIDE DEF P
<1>7. \A i \in DOMAIN P.chunks : P.chunks[i].grain = "BLOCK" /\ Bounded(P.chunks[i], S, K, c)
  BY <1>4, <1>6 DEF Bounded
<1>8. ASSUME NEW k \in Inner(K, S) PROVE Together(P, k)
  <2>1. k \in K /\ k[1] \in S /\ k[2] \in S
    BY DEF Inner
  <2>2. PICK h \in DOMAIN groups : k[1] \in groups[h]
    BY <1>2, <2>1 DEF CutInto
  <2>3. k[2] \in groups[h]
    BY <1>2, <2>1, <2>2
  <2> QED BY <1>4, <1>6, <2>2, <2>3
<1> QED BY <1>1, <1>6, <1>7, <1>8 DEF Sound

\* _try_window gives a sound plan.
LEMMA WindowSound ==
  ASSUME NEW S \in SUBSET Lines, NEW K, LinksOf(K), NEW c, IsConfig(c)
  PROVE  Sound(TryWindow(S, K, c), S, K, c)
<1> DEFINE W == Windows(Ordered(S), K, c)
           P == TryWindow(S, K, c)
           C == P.chunks
<1>1. /\ Owns(C, S) /\ DOMAIN C = DOMAIN W
      /\ \A w \in DOMAIN W :
           /\ C[w].grain = "WINDOW" /\ C[w].lines = W[w]
           /\ \A l \in S : l \in C[w].targets <=> w = WindowOfLine(l, W, S, K)
      /\ \A l \in S : \E w \in DOMAIN W : l \in W[w]
  BY TryWindowOwns
<1>2. P.splits = {}
  BY DEF TryWindow
<1>3. \A w \in DOMAIN W : WindowSized(W[w], S, K, c)
  BY WindowBounded
<1>4. \A l \in S : Span(l, S, K) <= WindowSlack + 1 => \E w \in DOMAIN W : UnitOf(l, S, K) \subseteq W[w]
  BY WindowHoldsUnit
<1> HIDE DEF W, P
<1>5. ASSUME NEW k \in Inner(K, S), Span(k[1], S, K) <= WindowSlack + 1 PROVE Together(P, k)
  <2>1. k \in K /\ k[1] \in S /\ k[2] \in S
    BY DEF Inner
  <2>2. \E w \in DOMAIN W : UnitOf(k[1], S, K) \subseteq W[w]
    BY <1>4, <1>5, <2>1
  <2>3. WindowOfLine(k[1], W, S, K) = WindowOfLine(k[2], W, S, K)
    BY <2>1, <2>2, LinkedChoice
  <2>4. PICK w \in DOMAIN C : k[1] \in C[w].targets
    BY <1>1, <2>1 DEF Owns
  <2>5. k[2] \in C[w].targets
    BY <1>1, <2>1, <2>3, <2>4
  <2> QED BY <2>4, <2>5 DEF Together
<1>6. \A w \in DOMAIN C : C[w].grain = "WINDOW" /\ Bounded(C[w], S, K, c)
  BY <1>1, <1>3 DEF Bounded
<1>7. Sound(P, S, K, c)
  BY <1>1, <1>2, <1>5, <1>6 DEF Sound
<1> QED BY <1>7 DEF P

\* _plan_line gives a sound plan.
LEMMA LineSound ==
  ASSUME NEW S \in SUBSET Lines, NEW K, LinksOf(K), NEW c, IsConfig(c)
  PROVE  Sound(PlanLine(S, K, c), S, K, c)
<1> DEFINE G == Chains(S, K, c)
           X == UNION {Severed(LastOf(S, K, c, k), G[k], S, K) : k \in DOMAIN G}
           P == CutPlan(G, "LINE", X)
<1>1. /\ CutInto(G, S)
      /\ \A k \in DOMAIN G : LineSized(G[k], S, K, c) /\ LastOf(S, K, c, k) \in G[k]
      /\ \A k \in DOMAIN G : \A q \in K :
              q[1] \in G[k] /\ q[2] \in S =>
                /\ q[1] # LastOf(S, K, c, k) => q[2] \in G[k]
                /\ q[1] = LastOf(S, K, c, k) => q[2] \notin G[k] /\ Span(q[1], S, K) > c.maxLines
  BY ChainsCut
<1>2. PlanLine(S, K, c) = P
  <2> DEFINE ls     == Ordered(S)
             ends   == [i \in DOMAIN ls |-> ChainEnd(ls, K, i, c)]
             firsts == Ordered(Stops(1, Len(ls), [i \in DOMAIN ls |-> ends[i] + 1]))
             chain(k) == LinesIn(ls, firsts[k], ends[firsts[k]] + 1)
  <2>1. firsts = ChainStarts(ls, K, c)
    BY DEF ChainStarts
  <2>2. Reading(ls, S)
    BY OrderedReads
  <2>3. \A k \in DOMAIN firsts : firsts[k] \in DOMAIN ls
    <3> HIDE DEF firsts, ls
    <3> QED BY <2>1, <2>2, ChainsFollow DEF Reading
  <2>4. \A k \in DOMAIN firsts : ends[firsts[k]] = ChainEnd(ls, K, firsts[k], c)
    <3> HIDE DEF firsts, ls
    <3> QED BY <2>3
  <2>5. DOMAIN G = DOMAIN firsts
    BY <2>1 DEF Chains
  <2>6. \A k \in DOMAIN firsts : G[k] = chain(k) /\ LastOf(S, K, c, k) = ls[ends[firsts[k]]]
    <3> HIDE DEF firsts, ends
    <3> QED BY <2>1, <2>4 DEF Chains, LastOf
  <2>7. PlanLine(S, K, c) =
          [chunks |-> [k \in DOMAIN firsts |-> Chunk("LINE", chain(k), chain(k))],
           splits |-> UNION {Severed(ls[ends[firsts[k]]], chain(k), S, K) : k \in DOMAIN firsts}]
    BY DEF PlanLine
  <2> HIDE DEF G, firsts, ends, chain, ls
  <2>8. [k \in DOMAIN firsts |-> Chunk("LINE", chain(k), chain(k))] =
        [k \in DOMAIN G |-> Chunk("LINE", G[k], G[k])]
    BY <2>5, <2>6
  <2>9. UNION {Severed(ls[ends[firsts[k]]], chain(k), S, K) : k \in DOMAIN firsts} = X
    <3>1. {Severed(ls[ends[firsts[k]]], chain(k), S, K) : k \in DOMAIN firsts} =
          {Severed(LastOf(S, K, c, k), G[k], S, K) : k \in DOMAIN G}
      BY <2>5, <2>6
    <3> QED BY <3>1
  <2> QED BY <2>7, <2>8, <2>9 DEF CutPlan
<1>3. "LINE" \in Grains
  BY DEF Grains
<1> HIDE DEF G
<1>4. \A q : q \in X <=> \E k \in DOMAIN G : q \in K /\ q[1] = LastOf(S, K, c, k) /\ q[2] \in S \ G[k]
  BY DEF Severed
<1> HIDE DEF X
<1>5. /\ Owns(P.chunks, S) /\ DOMAIN P.chunks = DOMAIN G /\ P.splits = X
      /\ \A k : Together(P, k) <=> \E i \in DOMAIN G : k[1] \in G[i] /\ k[2] \in G[i]
      /\ \A i \in DOMAIN G : P.chunks[i].grain = "LINE" /\ P.chunks[i].lines = G[i]
  BY <1>1, <1>3, CutPlanFacts
<1> HIDE DEF P
<1>6. /\ \A k \in DOMAIN G : G[k] \subseteq S
      /\ \A l \in S : \E k \in DOMAIN G : l \in G[k]
      /\ \A j, k \in DOMAIN G : j # k => G[j] \cap G[k] = {}
  BY <1>1 DEF CutInto
<1>7. X \subseteq Inner(K, S)
  BY <1>1, <1>4, <1>6 DEF Inner
<1>8. ASSUME NEW q \in X PROVE ~ Together(P, q)
  <2>1. PICK k \in DOMAIN G : q \in K /\ q[1] = LastOf(S, K, c, k) /\ q[2] \in S \ G[k]
    BY <1>4
  <2>2. q[1] \in G[k]
    BY <1>1, <2>1
  <2> QED BY <1>5, <1>6, <2>1, <2>2
<1>9. ASSUME NEW q \in Inner(K, S), ~ Together(P, q)
      PROVE  q \in X /\ Span(q[1], S, K) > c.maxLines
  <2>1. q \in K /\ q[1] \in S /\ q[2] \in S
    BY DEF Inner
  <2>2. PICK k \in DOMAIN G : q[1] \in G[k]
    BY <1>6, <2>1
  <2>3. q[2] \notin G[k]
    BY <1>5, <1>9, <2>2
  <2>4. q[1] = LastOf(S, K, c, k)
    BY <1>1, <2>1, <2>2, <2>3
  <2>5. Span(q[1], S, K) > c.maxLines
    BY <1>1, <2>1, <2>2, <2>4
  <2> QED BY <1>4, <2>1, <2>3, <2>4, <2>5
<1>10. \A i \in DOMAIN P.chunks : Bounded(P.chunks[i], S, K, c)
  BY <1>1, <1>5 DEF Bounded
<1>11. \A q \in Inner(K, S) : Span(q[1], S, K) <= c.maxLines => Together(P, q)
  <2> TAKE q \in Inner(K, S)
  <2>1. Span(q[1], S, K) \in Int
    <3>1. q[1] \in S
      BY DEF Inner
    <3>2. Reading(Ordered(S), S)
      BY OrderedReads
    <3>3. PICK i \in 1 .. Len(Ordered(S)) : Ordered(S)[i] = q[1]
      BY <3>1, <3>2 DEF Reading
    <3> DEFINE ls == Ordered(S)
               l  == q[1]
    <3>4. ls[i] \in UnitOf(l, S, K)
      BY <3>1, <3>3, UnitHoldsItsLine
    <3>5. l \in S /\ i \in 1 .. Len(ls) /\ i \in i .. Len(ls) /\ Reading(ls, S)
      BY <3>1, <3>2, <3>3
    <3> HIDE DEF ls, l
    <3>6. Span(l, S, K) \in Int
      BY <3>4, <3>5, SpanCovers
    <3> QED BY <3>6 DEF l
  <2>2. c.maxLines \in Int
    BY DEF IsConfig
  <2> QED BY <1>9, <2>1, <2>2
<1> QED BY <1>2, <1>5, <1>7, <1>8, <1>9, <1>10, <1>11 DEF Sound

\* Every plan of a page is sound.
LEMMA PlanPageSound ==
  ASSUME NEW S \in SUBSET Lines, NEW K, LinksOf(K), NEW c, IsConfig(c), NEW force
  PROVE  Sound(PlanPage(force, S, K, c), S, K, c)
<1>1. PlanPage(force, S, K, c) = PlanLine(S, K, c) \/ PlanPage(force, S, K, c) = TryWindow(S, K, c)
      \/ (PlanPage(force, S, K, c) = TryBlock(S, K, c) /\ TryBlock(S, K, c) # NoPlan)
      \/ (PlanPage(force, S, K, c) = TryPage(S, c) /\ TryPage(S, c) # NoPlan)
  BY DEF PlanPage
<1> QED BY <1>1, PageSound, BlockSound, WindowSound, LineSound

\* A batch takes parties as long as the cap allows, as each party does.
LEMMA FullBeforeInTime ==
  ASSUME NEW S, NEW groups \in Seq(SUBSET S), NEW cap,
         \A i \in DOMAIN groups : Cardinality(groups[i]) <= cap,
         \A T \in SUBSET S : Cardinality(T) \in Nat, cap \in Nat
  PROVE  LET next == FullBefore(groups, cap)
         IN  \A i \in 1 .. Len(groups) :
               /\ next[i] \in i + 1 .. Len(groups) + 1
               /\ Cardinality(UNION {groups[h] : h \in i .. next[i] - 1}) <= cap
<1> DEFINE n == Len(groups)
<1>1. n \in Nat /\ DOMAIN groups = 1 .. n
  BY LenProperties
<1> SUFFICES ASSUME NEW i \in 1 .. n
             PROVE  /\ FullBefore(groups, cap)[i] \in i + 1 .. n + 1
                    /\ Cardinality(UNION {groups[h] : h \in i .. FullBefore(groups, cap)[i] - 1}) <= cap
  OBVIOUS
<1> DEFINE over == {j \in i + 1 .. n : Cardinality(UNION {groups[h] : h \in i .. j}) > cap}
<1>2. FullBefore(groups, cap)[i] = Min(over \cup {n + 1})
  BY <1>1 DEF FullBefore
<1>3. over \in SUBSET (i + 1 .. n)
  OBVIOUS
<1>8. \A j \in i .. n : Cardinality(UNION {groups[h] : h \in i .. j}) \in Nat
  <2> TAKE j \in i .. n
  <2>1. \A h \in i .. j : groups[h] \in SUBSET S
    BY <1>1
  <2>2. UNION {groups[h] : h \in i .. j} \in SUBSET S
    BY <2>1
  <2> QED BY <2>2
<1> HIDE DEF n
<1>4. PICK e : e = FullBefore(groups, cap)[i]
  OBVIOUS
<1>5. e \in i + 1 .. n + 1 /\ \A j \in i + 1 .. e - 1 : j \notin over
  <2> HIDE DEF over
  <2>1. e = Min(over \cup {n + 1})
    BY <1>2, <1>4
  <2> QED BY <1>1, <1>3, <2>1, FirstPast
<1>6. CASE e = i + 1
  <2>1. i .. e - 1 = {i}
    BY <1>1, <1>6
  <2>2. UNION {groups[h] : h \in i .. e - 1} = groups[i]
    BY <2>1
  <2> QED BY <1>1, <1>4, <1>5, <2>2
<1>7. CASE e # i + 1
  <2>1. e - 1 \in i + 1 .. n /\ e - 1 \in i + 1 .. e - 1 /\ e - 1 \in i .. n
    BY <1>1, <1>5, <1>7
  <2>2. e - 1 \notin over
    BY <1>5, <2>1
  <2>3. Cardinality(UNION {groups[h] : h \in i .. e - 1}) \in Nat
    BY <1>8, <2>1
  <2>4. ~ (Cardinality(UNION {groups[h] : h \in i .. e - 1}) > cap)
    BY <2>1, <2>2
  <2>5. Cardinality(UNION {groups[h] : h \in i .. e - 1}) <= cap
    BY <2>3, <2>4
  <2> QED BY <1>4, <1>5, <2>5
<1> QED BY <1>6, <1>7

\* The lines that some target takes along.
Covered(chunk, S, L) == UNION {Riders(l, chunk, S, L) : l \in chunk.targets}

\* The parties of a chunk cut the lines its targets take along, and no link of the
\* units is cut.
LEMMA PartiesCut ==
  ASSUME NEW S \in SUBSET Lines, NEW L, NEW chunk, chunk.lines \in SUBSET S,
         chunk.targets \in SUBSET chunk.lines
  PROVE  /\ CutInto(Parties(chunk, S, L), Covered(chunk, S, L))
         /\ \A i \in DOMAIN Parties(chunk, S, L) : \E l \in chunk.targets :
              Parties(chunk, S, L)[i] = Riders(l, chunk, S, L)
<1> DEFINE R(l)    == Riders(l, chunk, S, L)
           first   == {l \in chunk.targets : \A m \in chunk.targets \cap R(l) : l <= m}
           leaders == Ordered(first)
           G       == [i \in DOMAIN leaders |-> R(leaders[i])]
<1>1. Parties(chunk, S, L) = G
  BY DEF Parties
<1>2. first \in SUBSET Lines /\ first \subseteq chunk.targets
  OBVIOUS
<1>3. Reading(leaders, first)
  <2> HIDE DEF first
  <2> QED BY <1>2, OrderedReads
<1> HIDE DEF leaders
<1>4. /\ Len(leaders) \in Nat /\ DOMAIN leaders = 1 .. Len(leaders)
      /\ \A i \in 1 .. Len(leaders) : leaders[i] \in first
      /\ \A i, j \in 1 .. Len(leaders) : i < j => leaders[i] < leaders[j]
      /\ \A l \in first : \E i \in 1 .. Len(leaders) : leaders[i] = l
  <2> HIDE DEF first
  <2> QED BY <1>3 DEF Reading
<1>5. \A l \in chunk.targets : l \in S /\ l \in Nat /\ l \in R(l)
  BY PageFacts, UnitHoldsItsLine DEF Riders
\* Two targets that share a rider share them all.
<1>6. ASSUME NEW l \in chunk.targets, NEW m \in chunk.targets, NEW x \in R(l), x \in R(m)
      PROVE  R(l) = R(m)
  <2>1. x \in UnitOf(l, S, L) /\ x \in UnitOf(m, S, L)
    BY <1>6 DEF Riders
  <2>2. UnitOf(x, S, L) = UnitOf(l, S, L)
    BY <1>5, <2>1, MembersShareUnit
  <2>3. UnitOf(x, S, L) = UnitOf(m, S, L)
    BY <1>5, <2>1, MembersShareUnit
  <2> QED BY <2>2, <2>3 DEF Riders
<1>7. ASSUME NEW t \in chunk.targets
      PROVE  \E m \in first : R(m) = R(t)
  <2> DEFINE T == chunk.targets \cap R(t)
  <2>1. T \in SUBSET Nat /\ T # {}
    BY <1>5
  <2>2. PICK m \in T : \A y \in T : m <= y
    <3> HIDE DEF T
    <3> QED BY <2>1, FirstExists
  <2>3. m \in chunk.targets /\ m \in R(t) /\ m \in R(m)
    BY <1>5
  <2>4. R(m) = R(t)
    BY <1>6, <2>3
  <2>5. m \in first
    BY <2>2, <2>3, <2>4
  <2> QED BY <2>4, <2>5
<1>8. \A l \in first : l \in chunk.targets /\ \A m \in chunk.targets : m \in R(l) => l <= m
  OBVIOUS
<1> HIDE DEF first
<1>9. DOMAIN G = 1 .. Len(leaders) /\ \A i \in 1 .. Len(leaders) : G[i] = R(leaders[i])
  BY <1>4
<1>10. G \in Seq(SUBSET Covered(chunk, S, L))
  <2>1. \A i \in 1 .. Len(leaders) : R(leaders[i]) \in SUBSET Covered(chunk, S, L)
    BY <1>4, <1>8 DEF Covered
  <2>2. G \in [1 .. Len(leaders) -> SUBSET Covered(chunk, S, L)]
    BY <1>4, <2>1
  <2> HIDE DEF G
  <2> QED BY <1>4, <2>2, FunIsSeq
<1> HIDE DEF G
<1>11. ASSUME NEW l \in Covered(chunk, S, L) PROVE \E k \in DOMAIN G : l \in G[k]
  <2>1. PICK t \in chunk.targets : l \in R(t)
    BY DEF Covered
  <2>2. PICK m \in first : R(m) = R(t)
    BY <1>7
  <2>3. PICK i \in 1 .. Len(leaders) : leaders[i] = m
    BY <1>4
  <2> QED BY <1>9, <2>1, <2>2, <2>3
<1>12. ASSUME NEW i \in DOMAIN G, NEW j \in DOMAIN G, i # j PROVE G[i] \cap G[j] = {}
  <2>1. SUFFICES ASSUME NEW x \in G[i], x \in G[j] PROVE FALSE
    OBVIOUS
  <2> DEFINE l == leaders[i]
             m == leaders[j]
  <2>2. l \in first /\ m \in first /\ G[i] = R(l) /\ G[j] = R(m)
    BY <1>4, <1>9
  <2>3. l # m
    <3>1. i < j \/ j < i
      BY <1>4, <1>9, <1>12
    <3>2. l < m \/ m < l
      BY <1>4, <1>9, <3>1
    <3>3. l \in Nat /\ m \in Nat
      BY <1>5, <1>8, <2>2
    <3> QED BY <3>2, <3>3
  <2> HIDE DEF l, m
  <2>4. R(l) = R(m)
    <3>1. l \in chunk.targets /\ m \in chunk.targets /\ x \in R(l) /\ x \in R(m)
      BY <1>8, <2>1, <2>2
    <3> HIDE DEF R
    <3> QED BY <1>6, <3>1
  <2>5. l <= m /\ m <= l /\ l \in Nat /\ m \in Nat
    BY <1>5, <1>8, <2>2, <2>4
  <2> QED BY <2>3, <2>5
<1>13. \A i \in DOMAIN G : \E l \in chunk.targets : G[i] = R(l)
  BY <1>4, <1>8, <1>9
<1> QED BY <1>1, <1>10, <1>11, <1>12, <1>13 DEF CutInto

\* What a chunk of the page S may be, and what its siblings under the cap are.
IsChunk(chunk, S) ==
  /\ chunk \in [grain : Grains, lines : SUBSET S, targets : SUBSET S]
  /\ chunk.targets \subseteq chunk.lines

\* What the siblings of a chunk are: within the cap, of its own lines, every target of
\* it in one of them, no word apart.
LEMMA SiblingsAre ==
  ASSUME NEW S \in SUBSET Lines, NEW L, NEW chunk, IsChunk(chunk, S),
         NEW cap \in Nat, ~ Unsendable(chunk, S, L, cap)
  PROVE  LET Q == Siblings(chunk, S, L, cap)
         IN  /\ Q \in Seq([grain : Grains, lines : SUBSET S, targets : SUBSET S])
             /\ \A i \in DOMAIN Q :
                  /\ IsChunk(Q[i], S) /\ Cardinality(Q[i].lines) <= cap
                  /\ Q[i].grain = chunk.grain /\ Q[i].lines \subseteq chunk.lines
                  /\ Q[i].targets \subseteq chunk.targets
             /\ \A l \in chunk.targets : \E i \in DOMAIN Q : l \in Q[i].targets
             /\ \A i, j \in DOMAIN Q : i # j => Q[i].targets \cap Q[j].targets = {}
             /\ \A k \in L : k[1] \in chunk.targets /\ k[2] \in chunk.targets =>
                  \E i \in DOMAIN Q : k[1] \in Q[i].targets /\ k[2] \in Q[i].targets
<1> DEFINE C == [grain : Grains, lines : SUBSET S, targets : SUBSET S]
<1>1. /\ chunk \in C /\ chunk.grain \in Grains
      /\ chunk.lines \in SUBSET S /\ chunk.targets \in SUBSET chunk.lines
  BY DEF IsChunk
<1>2. \A T \in SUBSET S : Cardinality(T) \in Nat
  BY PageFacts
<1>3. CASE Cardinality(chunk.lines) <= cap
  <2> DEFINE Q == <<chunk>>
  <2>1. Siblings(chunk, S, L, cap) = Q
    BY <1>3 DEF Siblings
  <2>2. Q \in Seq(C) /\ DOMAIN Q = {1} /\ Q[1] = chunk
    BY <1>1
  <2> HIDE DEF Q, C
  <2> QED BY <1>3, <2>1, <2>2 DEF C
<1>4. CASE ~ (Cardinality(chunk.lines) <= cap)
  <2> DEFINE U       == Covered(chunk, S, L)
             parties == Parties(chunk, S, L)
             next    == FullBefore(parties, cap)
             G       == Gathered(parties, next)
             Q       == [i \in DOMAIN G |-> Chunk(chunk.grain, G[i], G[i] \cap chunk.targets)]
  <2>1. Siblings(chunk, S, L, cap) = Q
    BY <1>4 DEF Siblings
  <2>2. /\ CutInto(parties, U)
        /\ \A i \in DOMAIN parties : \E l \in chunk.targets : parties[i] = Riders(l, chunk, S, L)
    BY <1>1, PartiesCut
  <2> HIDE DEF parties
  <2>3. U \in SUBSET chunk.lines /\ U \in SUBSET S
    BY <1>1 DEF Covered, Riders
  <2>4. \A l \in chunk.targets : l \in Riders(l, chunk, S, L) /\ l \in U
    BY <1>1, UnitHoldsItsLine DEF Covered, Riders
  <2>5. \A i \in DOMAIN parties : Cardinality(parties[i]) <= cap
    <3> TAKE i \in DOMAIN parties
    <3>1. PICK l \in chunk.targets : parties[i] = Riders(l, chunk, S, L)
      BY <2>2
    <3>2. Cardinality(chunk.lines) > cap
      BY <1>1, <1>2, <1>4
    <3>3. ~ (Cardinality(Riders(l, chunk, S, L)) > cap)
      BY <3>2 DEF Unsendable
    <3>4. Riders(l, chunk, S, L) \in SUBSET S
      BY <1>1 DEF Riders
    <3>5. Cardinality(Riders(l, chunk, S, L)) \in Nat
      BY <1>2, <3>4
    <3> QED BY <3>1, <3>3, <3>5
  <2>6. parties \in Seq(SUBSET U) /\ DOMAIN parties = 1 .. Len(parties)
    BY <2>2 DEF CutInto
  <2>7. \A i \in 1 .. Len(parties) :
               /\ next[i] \in i + 1 .. Len(parties) + 1
               /\ Cardinality(UNION {parties[h] : h \in i .. next[i] - 1}) <= cap
    <3>1. \A T \in SUBSET U : Cardinality(T) \in Nat
      BY <1>2, <2>3
    <3> HIDE DEF U
    <3> QED BY <2>5, <2>6, <3>1, FullBeforeInTime
  <2>8. \A i \in 1 .. Len(parties) : next[i] \in i + 1 .. Len(parties) + 1
    BY <2>7
  <2> HIDE DEF next, U
  <2>9. /\ CutInto(G, U)
        /\ \A k \in DOMAIN G : \E s \in 1 .. Len(parties) :
             G[k] = UNION {parties[h] : h \in s .. next[s] - 1}
        /\ \A h \in 1 .. Len(parties) : \E k \in DOMAIN G : parties[h] \subseteq G[k]
    BY <2>2, <2>8, GatheredCut
  <2> HIDE DEF G
  <2>10. \A i \in DOMAIN G : Cardinality(G[i]) <= cap
    BY <2>7, <2>9
  <2>11. /\ G \in Seq(SUBSET U) /\ Len(G) \in Nat /\ DOMAIN G = 1 .. Len(G)
         /\ \A i \in DOMAIN G : G[i] \in SUBSET U
    BY <2>9 DEF CutInto
  <2>12. /\ DOMAIN Q = DOMAIN G
         /\ \A i \in DOMAIN G :
              Q[i] = [grain |-> chunk.grain, lines |-> G[i], targets |-> G[i] \cap chunk.targets]
    BY DEF Chunk
  <2>13. \A i \in DOMAIN G : Q[i].grain = chunk.grain /\ Q[i].lines = G[i]
                             /\ Q[i].targets = G[i] \cap chunk.targets
    BY DEF Chunk
  <2>14. \A i \in DOMAIN G : Q[i] \in C
    <3> TAKE i \in DOMAIN G
    <3>1. G[i] \in SUBSET S /\ G[i] \cap chunk.targets \in SUBSET S
      BY <2>3, <2>11
    <3>2. Q[i] = [grain |-> chunk.grain, lines |-> G[i], targets |-> G[i] \cap chunk.targets]
      BY <2>12
    <3> HIDE DEF Q
    <3> QED BY <1>1, <3>1, <3>2
  <2>15. Q \in Seq(C)
    <3>1. Q \in [1 .. Len(G) -> C]
      <4>1. Q = [i \in 1 .. Len(G) |-> Q[i]]
        BY <2>11
      <4> HIDE DEF Q, C
      <4> QED BY <2>11, <2>14, <4>1
    <3> HIDE DEF Q, C
    <3> QED BY <2>11, <3>1, FunIsSeq
  <2> HIDE DEF Q
  <2>16. \A i \in DOMAIN Q :
                  /\ IsChunk(Q[i], S) /\ Cardinality(Q[i].lines) <= cap
                  /\ Q[i].grain = chunk.grain /\ Q[i].lines \subseteq chunk.lines
                  /\ Q[i].targets \subseteq chunk.targets
    <3> TAKE i \in DOMAIN Q
    <3>1. i \in DOMAIN G
      BY <2>12
    <3>2. G[i] \subseteq chunk.lines /\ Cardinality(G[i]) <= cap
      BY <2>3, <2>10, <2>11, <3>1
    <3>3. Q[i].grain = chunk.grain /\ Q[i].lines = G[i] /\ Q[i].targets = G[i] \cap chunk.targets
      BY <2>13, <3>1
    <3>4. IsChunk(Q[i], S)
      BY <2>14, <3>1, <3>3 DEF IsChunk
    <3> QED BY <3>2, <3>3, <3>4
  <2>17. \A l \in chunk.targets : \E i \in DOMAIN Q : l \in Q[i].targets
    BY <2>4, <2>9, <2>12, <2>13 DEF CutInto
  <2>18. \A i, j \in DOMAIN Q : i # j => Q[i].targets \cap Q[j].targets = {}
    BY SMTT(30), <2>9, <2>12, <2>13 DEF CutInto
  <2>19. ASSUME NEW k \in L, k[1] \in chunk.targets, k[2] \in chunk.targets
         PROVE  \E i \in DOMAIN Q : k[1] \in Q[i].targets /\ k[2] \in Q[i].targets
    <3>1. PICK h \in 1 .. Len(parties) : k[1] \in parties[h]
      BY <2>2, <2>4, <2>6, <2>19 DEF CutInto
    <3>2. PICK l \in chunk.targets : parties[h] = Riders(l, chunk, S, L)
      BY <2>2, <2>6
    <3>3. k[2] \in parties[h]
      <4>1. k[1] \in S /\ k[2] \in S /\ k[2] \in chunk.lines
        BY <1>1, <2>19
      <4>2. k[1] \in UnitOf(l, S, L)
        BY <3>1, <3>2 DEF Riders
      <4>3. k[2] \in UnitOf(l, S, L)
        BY <4>1, <4>2, UnitClosed
      <4> QED BY <3>2, <4>1, <4>3 DEF Riders
    <3>4. PICK i \in DOMAIN G : parties[h] \subseteq G[i]
      BY <2>9
    <3> QED BY <2>12, <2>13, <2>19, <3>1, <3>3, <3>4
  <2> QED BY <2>1, <2>15, <2>16, <2>17, <2>18, <2>19
<1> QED BY <1>3, <1>4

\* A sequence of chunks without a target in common.
Apart(F) == \A i, j \in DOMAIN F : i # j => F[i].targets \cap F[j].targets = {}

\* F holds the chunks of the first m sequences, each one's targets its own.
Holds(F, seqs, m, C) ==
  /\ F \in Seq(C)
  /\ \A i \in DOMAIN F : \E a \in 1 .. m : \E h \in DOMAIN seqs[a] : F[i] = seqs[a][h]
  /\ \A a \in 1 .. m : \A h \in DOMAIN seqs[a] : \E i \in DOMAIN F : F[i] = seqs[a][h]
  /\ Apart(F)

\* One more sequence at the end.
LEMMA HoldsMore ==
  ASSUME NEW C, NEW n \in Nat, NEW seqs, \A a \in 1 .. n : seqs[a] \in Seq(C) /\ Apart(seqs[a]),
         \A a, b \in 1 .. n : a # b =>
           \A h \in DOMAIN seqs[a] : \A g \in DOMAIN seqs[b] :
             seqs[a][h].targets \cap seqs[b][g].targets = {},
         NEW m \in 2 .. n, NEW F, Holds(F, seqs, m - 1, C)
  PROVE  Holds(F \o seqs[m], seqs, m, C)
<1> DEFINE s == seqs[m]
           p == Len(F)
           H == F \o s
<1>0. m - 1 \in Nat /\ m \in 1 .. n /\ \A a \in 1 .. m - 1 : a \in 1 .. n /\ a # m /\ a \in 1 .. m
  OBVIOUS
<1>1. /\ F \in Seq(C) /\ s \in Seq(C) /\ Apart(F) /\ Apart(s)
      /\ \A i \in DOMAIN F : \E a \in 1 .. m - 1 : \E h \in DOMAIN seqs[a] : F[i] = seqs[a][h]
      /\ \A a \in 1 .. m - 1 : \A h \in DOMAIN seqs[a] : \E i \in DOMAIN F : F[i] = seqs[a][h]
  BY <1>0 DEF Holds
<1>2. \A a \in 1 .. m - 1 : \A h \in DOMAIN seqs[a] : \A g \in DOMAIN s :
        seqs[a][h].targets \cap s[g].targets = {}
  BY <1>0
<1> HIDE DEF s
<1>3. /\ p \in Nat /\ DOMAIN F = 1 .. p /\ Len(s) \in Nat /\ DOMAIN s = 1 .. Len(s)
      /\ H \in Seq(C) /\ DOMAIN H = 1 .. p + Len(s)
      /\ \A i \in 1 .. p : H[i] = F[i]
      /\ \A i \in p + 1 .. p + Len(s) : H[i] = s[i - p]
  BY <1>1, ConcatProperties, LenProperties
<1> HIDE DEF H, p
<1>4. ASSUME NEW i \in DOMAIN H
      PROVE  \/ i \in DOMAIN F /\ H[i] = F[i]
             \/ i - p \in DOMAIN s /\ H[i] = s[i - p] /\ i \notin DOMAIN F
  BY <1>3
<1>5. \A i \in DOMAIN F : i \in DOMAIN H /\ H[i] = F[i]
  BY <1>3
<1>6. ASSUME NEW g \in DOMAIN s PROVE g + p \in DOMAIN H /\ H[g + p] = s[g]
  <2>1. g + p \in p + 1 .. p + Len(s) /\ (g + p) - p = g /\ g + p \in 1 .. p + Len(s)
    BY <1>3
  <2> QED BY <1>3, <2>1
<1>7. \A i \in DOMAIN H : \E a \in 1 .. m : \E h \in DOMAIN seqs[a] : H[i] = seqs[a][h]
  <2> TAKE i \in DOMAIN H
  <2>1. CASE i \in DOMAIN F /\ H[i] = F[i]
    BY <1>0, <1>1, <2>1
  <2>2. CASE i - p \in DOMAIN s /\ H[i] = s[i - p]
    <3>1. m \in 1 .. m
      OBVIOUS
    <3> QED BY <2>2, <3>1 DEF s
  <2> QED BY <1>4, <2>1, <2>2
<1>8. \A a \in 1 .. m : \A h \in DOMAIN seqs[a] : \E i \in DOMAIN H : H[i] = seqs[a][h]
  <2> TAKE a \in 1 .. m
  <2> TAKE h \in DOMAIN seqs[a]
  <2>1. CASE a = m
    BY <1>6, <2>1 DEF s
  <2>2. CASE a # m
    <3>1. a \in 1 .. m - 1
      BY <2>2
    <3> QED BY <1>1, <1>5, <3>1
  <2> QED BY <2>1, <2>2
<1>9. ASSUME NEW i \in DOMAIN F, NEW g \in DOMAIN s PROVE F[i].targets \cap s[g].targets = {}
  BY <1>1, <1>2
<1>10. Apart(H)
  <2> SUFFICES ASSUME NEW i \in DOMAIN H, NEW j \in DOMAIN H, i # j
               PROVE  H[i].targets \cap H[j].targets = {}
    BY DEF Apart
  <2>1. CASE i \in DOMAIN F /\ j \in DOMAIN F
    BY <1>1, <1>5, <2>1 DEF Apart
  <2>2. CASE i \notin DOMAIN F /\ j \notin DOMAIN F
    <3>1. /\ i - p \in DOMAIN s /\ H[i] = s[i - p]
          /\ j - p \in DOMAIN s /\ H[j] = s[j - p]
      BY <1>4, <2>2
    <3>2. i - p # j - p
      BY <1>3
    <3> QED BY <1>1, <3>1, <3>2 DEF Apart
  <2>3. CASE i \in DOMAIN F /\ j \notin DOMAIN F
    BY <1>4, <1>5, <1>9, <2>3
  <2>4. CASE i \notin DOMAIN F /\ j \in DOMAIN F
    BY <1>4, <1>5, <1>9, <2>4
  <2> QED BY <2>1, <2>2, <2>3, <2>4
<1>11. Holds(H, seqs, m, C)
  BY <1>3, <1>7, <1>8, <1>10 DEF Holds
<1> QED BY <1>11 DEF H, s

\* What FlattenSeq makes of the siblings of every chunk.
LEMMA FlattenHolds ==
  ASSUME NEW C, NEW n \in Nat, NEW seqs, Len(seqs) = n, n # 0,
         \A a \in 1 .. n : seqs[a] \in Seq(C) /\ Apart(seqs[a]),
         \A a, b \in 1 .. n : a # b =>
           \A h \in DOMAIN seqs[a] : \A g \in DOMAIN seqs[b] :
             seqs[a][h].targets \cap seqs[b][g].targets = {}
  PROVE  Holds(FlattenSeq(seqs), seqs, n, C)
<1> DEFINE flatten == CHOOSE f : Flow(f, seqs, n)
<1>1. FlattenSeq(seqs) = flatten[n]
  BY DEF FlattenSeq, Flow
<1>2. Flow(flatten, seqs, n)
  <2>1. \E f : Flow(f, seqs, n)
    BY FlowDefined
  <2> QED BY <2>1
<1> HIDE DEF flatten
<1>3. /\ flatten[1] = seqs[1]
      /\ \A i \in 2 .. n : flatten[i] = flatten[i - 1] \o seqs[i]
  <2>1. \A i \in 1 .. n : flatten[i] = IF i = 1 THEN seqs[i] ELSE flatten[i - 1] \o seqs[i]
    BY <1>2 DEF Flow
  <2>2. 1 \in 1 .. n /\ \A i \in 2 .. n : i \in 1 .. n /\ i # 1
    OBVIOUS
  <2> QED BY <2>1, <2>2
<1> DEFINE Bad == {m \in 1 .. n : ~ Holds(flatten[m], seqs, m, C)}
<1>4. SUFFICES ASSUME Bad # {} PROVE FALSE
  <2>1. n \in 1 .. n
    OBVIOUS
  <2> QED BY <1>1, <2>1
<1>5. PICK m \in Bad : \A k \in Bad : m <= k
  <2>1. Bad \in SUBSET Nat
    OBVIOUS
  <2> HIDE DEF Bad
  <2> QED BY <1>4, <2>1, FirstExists
<1>6. m \in 1 .. n /\ ~ Holds(flatten[m], seqs, m, C)
  OBVIOUS
<1>7. CASE m = 1
  <2>1. seqs[1] \in Seq(C) /\ Apart(seqs[1])
    BY <1>6, <1>7
  <2>2. 1 .. 1 = {1}
    OBVIOUS
  <2>3. Holds(seqs[1], seqs, 1, C)
    BY <2>1, <2>2 DEF Holds
  <2> QED BY <1>3, <1>6, <1>7, <2>3
<1>8. CASE m # 1
  <2>1. m \in 2 .. n /\ m - 1 \in 1 .. n /\ m - 1 < m
    BY <1>6, <1>8
  <2>2. m - 1 \notin Bad
    <3> HIDE DEF Bad
    <3> QED BY <1>5, <1>6, <2>1
  <2>3. Holds(flatten[m - 1], seqs, m - 1, C)
    BY <2>1, <2>2
  <2> DEFINE F == flatten[m - 1]
  <2>4. Holds(F \o seqs[m], seqs, m, C)
    <3>1. Holds(F, seqs, m - 1, C)
      BY <2>3
    <3> HIDE DEF F, Bad
    <3> QED BY <2>1, <3>1, HoldsMore
  <2> QED BY <1>3, <1>6, <2>1, <2>4
<1> QED BY <1>7, <1>8

IsPlan(P) == P = [chunks |-> P.chunks, splits |-> P.splits]

ChunkSet(S) == [grain : Grains, lines : SUBSET S, targets : SUBSET S]

\* The siblings of every chunk of a plan, in the order of the plan.
Split(P, S, L, cap) == [i \in DOMAIN P.chunks |-> Siblings(P.chunks[i], S, L, cap)]

\* A capped plan holds the siblings of its chunks and nothing else.
LEMMA CappedHolds ==
  ASSUME NEW S \in SUBSET Lines, NEW L, NEW P, IsPlan(P), Owns(P.chunks, S),
         NEW cap \in Nat, cap # 0,
         \A i \in DOMAIN P.chunks : ~ Unsendable(P.chunks[i], S, L, cap)
  PROVE  /\ IsPlan(Capped(P, S, L, cap)) /\ Capped(P, S, L, cap).splits = P.splits
         /\ Len(P.chunks) \in Nat /\ DOMAIN P.chunks = 1 .. Len(P.chunks)
         /\ Holds(Capped(P, S, L, cap).chunks, Split(P, S, L, cap), Len(P.chunks), ChunkSet(S))
<1> DEFINE C    == ChunkSet(S)
           n    == Len(P.chunks)
           seqs == Split(P, S, L, cap)
           Q    == Capped(P, S, L, cap)
<1>1. /\ P.chunks \in Seq(C) /\ n \in Nat /\ DOMAIN P.chunks = 1 .. n
      /\ \A i \in 1 .. n : P.chunks[i] \in C
      /\ \A i \in 1 .. n : IsChunk(P.chunks[i], S)
      /\ \A i, j \in 1 .. n : i # j => P.chunks[i].targets \cap P.chunks[j].targets = {}
  <2>1. P.chunks \in Seq(C)
    BY DEF Owns, ChunkSet
  <2> HIDE DEF C
  <2>2. n \in Nat /\ DOMAIN P.chunks = 1 .. n /\ \A i \in 1 .. n : P.chunks[i] \in C
    BY <2>1, LenProperties, ElementOfSeq
  <2>3. \A i \in 1 .. n : IsChunk(P.chunks[i], S)
    BY <2>2 DEF C, Owns, IsChunk, ChunkSet
  <2>4. \A i, j \in 1 .. n : i # j => P.chunks[i].targets \cap P.chunks[j].targets = {}
    BY <2>2 DEF Owns
  <2> QED BY <2>1, <2>2, <2>3, <2>4
<1>2. Q = [chunks |-> FlattenSeq(seqs), splits |-> P.splits]
  BY DEF Capped, Split, IsPlan
<1>3. seqs = [i \in 1 .. n |-> Siblings(P.chunks[i], S, L, cap)]
  BY <1>1 DEF Split
<1> HIDE DEF n, seqs, Q, C
<1>4. \A i \in 1 .. n : seqs[i] = Siblings(P.chunks[i], S, L, cap)
  BY <1>3
<1>5. ASSUME NEW a \in 1 .. n
      PROVE  /\ seqs[a] \in Seq(C) /\ Apart(seqs[a])
             /\ \A h \in DOMAIN seqs[a] : seqs[a][h].targets \subseteq P.chunks[a].targets
  <2>1. IsChunk(P.chunks[a], S) /\ ~ Unsendable(P.chunks[a], S, L, cap)
    BY <1>1
  <2>2. /\ Siblings(P.chunks[a], S, L, cap) \in Seq(C)
        /\ \A h \in DOMAIN Siblings(P.chunks[a], S, L, cap) :
             Siblings(P.chunks[a], S, L, cap)[h].targets \subseteq P.chunks[a].targets
        /\ \A h, g \in DOMAIN Siblings(P.chunks[a], S, L, cap) : h # g =>
             Siblings(P.chunks[a], S, L, cap)[h].targets \cap
               Siblings(P.chunks[a], S, L, cap)[g].targets = {}
    BY ZenonT(30), <2>1, SiblingsAre DEF C, ChunkSet
  <2> QED BY <1>4, <2>2 DEF Apart
<1>6. ASSUME NEW a \in 1 .. n, NEW b \in 1 .. n, a # b,
             NEW h \in DOMAIN seqs[a], NEW g \in DOMAIN seqs[b]
      PROVE  seqs[a][h].targets \cap seqs[b][g].targets = {}
  BY ZenonT(30), <1>1, <1>5, <1>6
<1>7. Holds(FlattenSeq(seqs), seqs, n, C)
  <2>1. CASE n = 0
    <3>1. 1 .. n = {}
      BY <2>1
    <3>2. seqs = [i \in 1 .. n |-> seqs[i]] /\ DOMAIN seqs = {}
      BY <1>3, <3>1
    <3>3. seqs \in [1 .. n -> C]
      BY <3>1, <3>2
    <3>4. seqs \in Seq(C) /\ Len(seqs) = 0
      BY <1>1, <2>1, <3>3, FunIsSeq
    <3>5. FlattenSeq(seqs) = seqs
      BY <3>4 DEF FlattenSeq
    <3> QED BY <3>1, <3>2, <3>4, <3>5 DEF Holds, Apart
  <2>2. CASE n # 0
    <3>1. Len(seqs) = n
      <4>1. seqs \in [1 .. n -> Seq(C)]
        <5>1. \A i \in 1 .. n : Siblings(P.chunks[i], S, L, cap) \in Seq(C)
          BY <1>4, <1>5
        <5> QED BY <1>3, <5>1
      <4> QED BY <1>1, <4>1, FunIsSeq
    <3> QED BY <1>1, <1>5, <1>6, <2>2, <3>1, FlattenHolds
  <2> QED BY <2>1, <2>2
<1>8. IsPlan(Q) /\ Q.splits = P.splits /\ Q.chunks = FlattenSeq(seqs)
  BY <1>2 DEF IsPlan
<1> QED BY <1>1, <1>7, <1>8 DEF n, seqs, Q, C

\* What is left of a core in a part of the request is a core of the part.
LEMMA CoresLess ==
  ASSUME NEW A, NEW B \in SUBSET A, NEW S, NEW K, NEW core \in Cores(A, S, K)
  PROVE  core \cap B \in Cores(B, S, K)
<1>1. \A m \in A \ core : Reached(m, S, K) /\ \A l \in core : l < m
  BY DEF Cores
<1>2. \A m \in B \ (core \cap B) : Reached(m, S, K) /\ \A l \in core \cap B : l < m
  BY <1>1
<1>3. core \cap B \in SUBSET B
  OBVIOUS
<1> QED BY <1>2, <1>3 DEF Cores

\* A part of a window is within a window's bounds.
LEMMA WindowLess ==
  ASSUME NEW A \in SUBSET Lines, NEW B \in SUBSET A, NEW S, NEW K, NEW c, IsConfig(c),
         WindowSized(A, S, K, c)
  PROVE  WindowSized(B, S, K, c)
<1>1. PICK core \in Cores(A, S, K) :
        /\ Cardinality(core) <= c.window
        /\ TotalChars(core) <= c.maxChars \/ Cardinality(core) = 1
        /\ Cardinality(A) <= Max({c.maxLines, Cardinality(core) + WindowSlack})
  BY DEF WindowSized
<1> DEFINE part == core \cap B
           rest == A \ core
<1>2. core \in SUBSET A /\ core \in SUBSET Lines /\ B \in SUBSET Lines
  BY DEF Cores
<1>3. part \in SUBSET core /\ part \in SUBSET Lines /\ rest \in SUBSET Lines
  BY <1>2
<1>4. part \in Cores(B, S, K)
  BY CoresLess
<1>5. A = core \cup rest /\ core \cap rest = {} /\ B \in SUBSET (part \cup rest)
  BY <1>2
<1> HIDE DEF part, rest
<1>6. /\ IsFiniteSet(A) /\ IsFiniteSet(B) /\ IsFiniteSet(core)
      /\ IsFiniteSet(part) /\ IsFiniteSet(rest)
      /\ Cardinality(A) \in Nat /\ Cardinality(B) \in Nat /\ Cardinality(core) \in Nat
      /\ Cardinality(part) \in Nat /\ Cardinality(rest) \in Nat
  BY <1>2, <1>3, PageFacts
<1>7. Cardinality(part) <= Cardinality(core) /\ Cardinality(B) <= Cardinality(A)
  BY <1>3, <1>6, FS_Subset
<1>8. Cardinality(A) = Cardinality(core) + Cardinality(rest)
  <2>1. Cardinality(core \cup rest) =
          Cardinality(core) + Cardinality(rest) - Cardinality(core \cap rest)
    BY <1>6, FS_Union
  <2>2. Cardinality(core \cap rest) = 0
    BY <1>5, FS_EmptySet
  <2>3. Cardinality(A) = Cardinality(core \cup rest)
    BY <1>5
  <2> QED BY <1>6, <2>1, <2>2, <2>3
<1>9. Cardinality(B) <= Cardinality(part) + Cardinality(rest)
  <2>1. IsFiniteSet(part \cup rest)
    BY <1>6, FS_Union
  <2>2. Cardinality(B) <= Cardinality(part \cup rest) /\ Cardinality(part \cup rest) \in Nat
    BY <1>5, <2>1, FS_Subset, FS_CardinalityType
  <2>3. /\ Cardinality(part \cup rest) =
             Cardinality(part) + Cardinality(rest) - Cardinality(part \cap rest)
        /\ IsFiniteSet(part \cap rest)
    BY <1>6, FS_Union, FS_Intersection
  <2>4. Cardinality(part \cap rest) \in Nat
    BY <2>3, FS_CardinalityType
  <2> QED BY <1>6, <2>2, <2>3, <2>4
<1>10. Cardinality(B) <= Max({c.maxLines, Cardinality(part) + WindowSlack})
  <2> DEFINE a == Cardinality(core) + WindowSlack
             b == Cardinality(part) + WindowSlack
  <2>1. c.maxLines \in Int /\ a \in Int /\ b \in Int /\ WindowSlack \in Int
    BY <1>6, ConfigAssumption DEF IsConfig
  <2>2. a - Cardinality(core) = WindowSlack /\ b - Cardinality(part) = WindowSlack
    BY <1>6, <2>1
  <2>3. Cardinality(A) <= Max({c.maxLines, a})
    BY <1>1
  <2> HIDE DEF a, b
  <2>4. Cardinality(A) <= c.maxLines \/ Cardinality(A) <= a
    <3>1. Max({c.maxLines, a}) = c.maxLines \/ Max({c.maxLines, a}) = a
      BY <2>1, MaxOfTwo
    <3> QED BY <2>3, <3>1
  <2>5. Cardinality(B) <= c.maxLines \/ Cardinality(B) <= b
    BY <1>6, <1>7, <1>8, <1>9, <2>1, <2>2, <2>4
  <2>6. /\ Max({c.maxLines, b}) \in Int
        /\ c.maxLines <= Max({c.maxLines, b}) /\ b <= Max({c.maxLines, b})
    BY <2>1, MaxOfTwo
  <2>7. Cardinality(B) <= Max({c.maxLines, b})
    BY <1>6, <2>1, <2>5, <2>6
  <2> QED BY <2>7 DEF b
<1>11. TotalChars(part) <= c.maxChars \/ Cardinality(part) = 1
  <2>1. c.maxChars \in Nat
    BY DEF IsConfig
  <2>2. CASE TotalChars(core) <= c.maxChars
    <3>1. TotalChars(part) <= TotalChars(core) /\ TotalChars(part) \in Nat /\ TotalChars(core) \in Nat
      BY <1>2, <1>3, CharsLess
    <3> QED BY <2>1, <2>2, <3>1
  <2>3. CASE Cardinality(core) = 1
    <3>1. CASE part = {}
      <4>1. Characters({}) = {}
        BY DEF Characters
      <4>2. TotalChars({}) = 0
        BY <4>1, FS_EmptySet DEF TotalChars
      <4> QED BY <2>1, <3>1, <4>2
    <3>2. CASE part # {}
      <4>1. Cardinality(part) # 0
        BY <1>6, <3>2, FS_EmptySet
      <4> QED BY <1>6, <1>7, <2>3, <4>1
    <3> QED BY <3>1, <3>2
  <2> QED BY <1>1, <2>2, <2>3
<1>12. Cardinality(part) <= c.window
  BY <1>1, <1>6, <1>7 DEF IsConfig
<1> QED BY <1>4, <1>10, <1>11, <1>12 DEF WindowSized

\* A part of a chain is within a chain's bounds.
LEMMA LineLess ==
  ASSUME NEW A \in SUBSET Lines, NEW B \in SUBSET A, NEW S, NEW K, NEW c, IsConfig(c),
         LineSized(A, S, K, c)
  PROVE  LineSized(B, S, K, c)
<1>1. PICK core \in Cores(A, S, K) : Cardinality(core) <= 1
  BY DEF LineSized
<1> DEFINE part == core \cap B
<1>2. core \in SUBSET Lines /\ part \in SUBSET core /\ part \in SUBSET Lines /\ B \in SUBSET Lines
  BY DEF Cores
<1>3. part \in Cores(B, S, K)
  BY CoresLess
<1> HIDE DEF part
<1>4. /\ Cardinality(part) <= Cardinality(core) /\ Cardinality(B) <= Cardinality(A)
      /\ Cardinality(part) \in Nat /\ Cardinality(core) \in Nat
      /\ Cardinality(A) \in Nat /\ Cardinality(B) \in Nat
  BY <1>2, PageFacts, FS_Subset
<1>5. Cardinality(A) <= c.maxLines /\ c.maxLines \in Nat
  BY DEF LineSized, IsConfig
<1> QED BY <1>1, <1>3, <1>4, <1>5 DEF LineSized

\* A capped plan is sound when the plan is, and every call of it within the cap.
LEMMA CappedSound ==
  ASSUME NEW S \in SUBSET Lines, NEW K, NEW c, IsConfig(c),
         NEW P, IsPlan(P), Sound(P, S, K, c), c.cap # 0,
         \A i \in DOMAIN P.chunks : ~ Unsendable(P.chunks[i], S, K \ P.splits, c.cap)
  PROVE  LET Q == Capped(P, S, K \ P.splits, c.cap)
         IN  /\ IsPlan(Q) /\ Sound(Q, S, K, c)
             /\ \A i \in DOMAIN Q.chunks : Cardinality(Q.chunks[i].lines) <= c.cap
<1> DEFINE L    == K \ P.splits
           Q    == Capped(P, S, L, c.cap)
           n    == Len(P.chunks)
           seqs == Split(P, S, L, c.cap)
           F    == Q.chunks
<1>1. c.cap \in Nat /\ c.maxLines \in Nat /\ c.window + WindowSlack \in Nat
  BY ConfigAssumption DEF IsConfig
<1>2. /\ Owns(P.chunks, S) /\ P.splits \subseteq Inner(K, S)
      /\ \A k \in P.splits : ~ Together(P, k)
  BY DEF Sound
<1>3. /\ IsPlan(Q) /\ Q.splits = P.splits
      /\ n \in Nat /\ DOMAIN P.chunks = 1 .. n
      /\ Holds(F, seqs, n, ChunkSet(S))
  <2> DEFINE cap == c.cap
  <2>1. cap \in Nat /\ cap # 0
    BY <1>1
  <2>2. \A i \in DOMAIN P.chunks : ~ Unsendable(P.chunks[i], S, L, cap)
    OBVIOUS
  <2>3. Q = Capped(P, S, L, cap) /\ seqs = Split(P, S, L, cap)
    OBVIOUS
  <2> HIDE DEF cap, L, Q, seqs
  <2>4. /\ IsPlan(Capped(P, S, L, cap)) /\ Capped(P, S, L, cap).splits = P.splits
        /\ Len(P.chunks) \in Nat /\ DOMAIN P.chunks = 1 .. Len(P.chunks)
        /\ Holds(Capped(P, S, L, cap).chunks, Split(P, S, L, cap), Len(P.chunks), ChunkSet(S))
    BY <1>2, <2>1, <2>2, CappedHolds
  <2> QED BY <2>3, <2>4
<1> HIDE DEF Q, n
<1>4. \A a \in 1 .. n : IsChunk(P.chunks[a], S) /\ ~ Unsendable(P.chunks[a], S, L, c.cap)
  <2>1. \A a \in 1 .. n : ~ Unsendable(P.chunks[a], S, L, c.cap)
    BY <1>3
  <2>2. P.chunks \in Seq(ChunkSet(S)) /\ \A a \in 1 .. n : P.chunks[a].targets \subseteq P.chunks[a].lines
    BY <1>2, <1>3 DEF Owns, ChunkSet
  <2>3. \A a \in 1 .. n : P.chunks[a] \in ChunkSet(S)
    BY <2>2, ElementOfSeq DEF n
  <2> QED BY <2>1, <2>2, <2>3 DEF IsChunk, ChunkSet
<1> HIDE DEF L
<1>5. ASSUME NEW a \in 1 .. n
      PROVE  /\ \A i \in DOMAIN seqs[a] :
                  /\ IsChunk(seqs[a][i], S) /\ Cardinality(seqs[a][i].lines) <= c.cap
                  /\ seqs[a][i].grain = P.chunks[a].grain
                  /\ seqs[a][i].lines \subseteq P.chunks[a].lines
                  /\ seqs[a][i].targets \subseteq P.chunks[a].targets
             /\ \A l \in P.chunks[a].targets : \E i \in DOMAIN seqs[a] : l \in seqs[a][i].targets
             /\ \A k \in L : k[1] \in P.chunks[a].targets /\ k[2] \in P.chunks[a].targets =>
                  \E i \in DOMAIN seqs[a] : k[1] \in seqs[a][i].targets /\ k[2] \in seqs[a][i].targets
  <2> DEFINE chunk == P.chunks[a]
             cap   == c.cap
             R     == Siblings(chunk, S, L, cap)
  <2>1. seqs[a] = R
    BY <1>3 DEF Split
  <2>2. cap \in Nat /\ IsChunk(chunk, S) /\ ~ Unsendable(chunk, S, L, cap)
    BY <1>1, <1>4
  <2> HIDE DEF seqs, chunk, cap
  <2>3. /\ \A i \in DOMAIN R :
                  /\ IsChunk(R[i], S) /\ Cardinality(R[i].lines) <= cap
                  /\ R[i].grain = chunk.grain /\ R[i].lines \subseteq chunk.lines
                  /\ R[i].targets \subseteq chunk.targets
        /\ \A l \in chunk.targets : \E i \in DOMAIN R : l \in R[i].targets
        /\ \A k \in L : k[1] \in chunk.targets /\ k[2] \in chunk.targets =>
             \E i \in DOMAIN R : k[1] \in R[i].targets /\ k[2] \in R[i].targets
    BY <2>2, SiblingsAre
  <2> HIDE DEF R
  <2> QED BY <2>1, <2>3 DEF chunk, cap
<1> HIDE DEF seqs, F
<1>6. /\ F \in Seq(ChunkSet(S)) /\ Apart(F)
      /\ \A i \in DOMAIN F : \E a \in 1 .. n : \E h \in DOMAIN seqs[a] : F[i] = seqs[a][h]
      /\ \A a \in 1 .. n : \A h \in DOMAIN seqs[a] : \E i \in DOMAIN F : F[i] = seqs[a][h]
  BY <1>3 DEF Holds
<1>7. ASSUME NEW i \in DOMAIN F
      PROVE  \E a \in 1 .. n :
               /\ IsChunk(F[i], S) /\ Cardinality(F[i].lines) <= c.cap
               /\ F[i].grain = P.chunks[a].grain /\ F[i].lines \subseteq P.chunks[a].lines
               /\ F[i].targets \subseteq P.chunks[a].targets
  <2>1. PICK a \in 1 .. n : \E h \in DOMAIN seqs[a] : F[i] = seqs[a][h]
    BY <1>6
  <2>2. PICK h \in DOMAIN seqs[a] : F[i] = seqs[a][h]
    BY <2>1
  <2> QED BY <1>5, <2>2
<1>8. Owns(F, S)
  <2>1. \A i \in DOMAIN F : F[i].targets \subseteq F[i].lines
    BY <1>7 DEF IsChunk
  <2>2. ASSUME NEW l \in S PROVE \E i \in DOMAIN F : l \in F[i].targets
    <3>1. PICK a \in 1 .. n : l \in P.chunks[a].targets
      BY <1>2, <1>3 DEF Owns
    <3>2. PICK h \in DOMAIN seqs[a] : l \in seqs[a][h].targets
      BY <1>5, <3>1
    <3>3. PICK i \in DOMAIN F : F[i] = seqs[a][h]
      BY <1>6
    <3> QED BY <3>2, <3>3
  <2> QED BY <1>6, <2>1, <2>2 DEF Owns, Apart, ChunkSet
<1>9. ASSUME NEW k, Together(Q, k) PROVE Together(P, k)
  <2>1. PICK i \in DOMAIN F : {k[1], k[2]} \subseteq F[i].targets
    BY <1>9 DEF Together, F
  <2>2. PICK a \in 1 .. n : F[i].targets \subseteq P.chunks[a].targets
    BY <1>7
  <2> QED BY <1>3, <2>1, <2>2 DEF Together
<1>10. ASSUME NEW k \in K, k \notin P.splits, Together(P, k) PROVE Together(Q, k)
  <2>1. PICK a \in 1 .. n : k[1] \in P.chunks[a].targets /\ k[2] \in P.chunks[a].targets
    BY <1>3, <1>10 DEF Together
  <2>2. k \in L
    BY <1>10 DEF L
  <2>3. PICK h \in DOMAIN seqs[a] : k[1] \in seqs[a][h].targets /\ k[2] \in seqs[a][h].targets
    BY <1>5, <2>1, <2>2
  <2>4. PICK i \in DOMAIN F : F[i] = seqs[a][h]
    BY <1>6
  <2> QED BY <2>3, <2>4 DEF Together, F
<1>11. ASSUME NEW i \in DOMAIN F PROVE Bounded(F[i], S, K, c)
  <2>1. PICK a \in 1 .. n : /\ IsChunk(F[i], S) /\ F[i].grain = P.chunks[a].grain
                            /\ F[i].lines \subseteq P.chunks[a].lines
    BY <1>7
  <2> DEFINE old == P.chunks[a]
             new == F[i]
  <2>2. Bounded(old, S, K, c)
    BY <1>3 DEF Sound
  <2>3. new.lines \in SUBSET old.lines /\ old.lines \in SUBSET Lines /\ new.grain = old.grain
    BY <1>4, <2>1 DEF IsChunk
  <2>4. old.grain \in Grains
    BY <1>4 DEF IsChunk
  <2> HIDE DEF old, new
  <2>5. Fits(old.lines, c) => Fits(new.lines, c)
    BY <2>3, FitsLess
  <2>6. WindowSized(old.lines, S, K, c) => WindowSized(new.lines, S, K, c)
    BY <2>3, WindowLess
  <2>7. LineSized(old.lines, S, K, c) => LineSized(new.lines, S, K, c)
    BY <2>3, LineLess
  <2>8. Bounded(new, S, K, c)
    BY <2>2, <2>3, <2>4, <2>5, <2>6, <2>7 DEF Bounded, Grains
  <2> QED BY <2>8 DEF new
<1>12. \A k \in P.splits : ~ Together(Q, k)
  BY <1>2, <1>9
<1>13. ASSUME \E i \in DOMAIN F : F[i].grain = "LINE", NEW k \in Inner(K, S), k \notin P.splits
       PROVE  Together(Q, k)
  <2>1. \E a \in DOMAIN P.chunks : P.chunks[a].grain = "LINE"
    BY <1>3, <1>7, <1>13
  <2>2. Together(P, k) /\ k \in K
    BY <1>13, <2>1 DEF Sound, Inner
  <2> QED BY <1>10, <1>13, <2>2
<1>14. ASSUME NEW k \in Inner(K, S), Span(k[1], S, K) <= c.maxLines, Span(k[1], S, K) <= WindowSlack + 1
       PROVE  Together(Q, k)
  <2>1. Together(P, k) /\ k \in K
    BY <1>14 DEF Sound, Inner
  <2> QED BY <1>2, <1>10, <2>1
<1>15. Sound(Q, S, K, c)
  BY <1>2, <1>3, <1>8, <1>11, <1>12, <1>13, <1>14 DEF Sound, F
<1>16. \A i \in DOMAIN F : Cardinality(F[i].lines) <= c.cap
  BY <1>7
<1> QED BY <1>3, <1>15, <1>16 DEF Q, L, F

\* The lines and targets of a chunk are lines of the page.
LEMMA OwnsChunks ==
  ASSUME NEW S, NEW chunks, Owns(chunks, S), NEW i \in DOMAIN chunks
  PROVE  /\ chunks[i].lines \in SUBSET S /\ chunks[i].targets \in SUBSET S
         /\ chunks[i].targets \subseteq chunks[i].lines
<1>1. chunks \in Seq(ChunkSet(S)) /\ chunks[i].targets \subseteq chunks[i].lines
  BY DEF Owns, ChunkSet
<1>2. DOMAIN chunks = 1 .. Len(chunks)
  BY <1>1, LenProperties
<1>3. chunks[i] \in ChunkSet(S)
  BY <1>1, <1>2, ElementOfSeq
<1> QED BY <1>1, <1>3 DEF ChunkSet

\* A window that decides a line of no word holds the line after it.
Follows(P, S, K, c) ==
  c.overlap >= 1 /\ c.window >= 2 =>
    \A i \in DOMAIN P.chunks : \A l \in P.chunks[i].targets :
      /\ P.chunks[i].grain = "WINDOW"
      /\ UnitOf(l, S, K) = {l}
      /\ {m \in S : m > l} # {}
      /\ Chars[l] + Chars[Min({m \in S : m > l})] <= c.maxChars
      => Min({m \in S : m > l}) \in P.chunks[i].lines

\* Every plan of a page does that.
LEMMA PlanPageFollows ==
  ASSUME NEW S \in SUBSET Lines, NEW K, LinksOf(K), NEW c, IsConfig(c), NEW force
  PROVE  Follows(PlanPage(force, S, K, c), S, K, c)
<1>1. \/ PlanPage(force, S, K, c) = PlanLine(S, K, c)
      \/ PlanPage(force, S, K, c) = TryWindow(S, K, c)
      \/ PlanPage(force, S, K, c) = TryBlock(S, K, c) /\ TryBlock(S, K, c) # NoPlan
      \/ PlanPage(force, S, K, c) = TryPage(S, c) /\ TryPage(S, c) # NoPlan
  BY DEF PlanPage
<1>2. \A i \in DOMAIN PlanLine(S, K, c).chunks : PlanLine(S, K, c).chunks[i].grain = "LINE"
  BY DEF PlanLine, Chunk
<1>3. TryBlock(S, K, c) # NoPlan =>
        \A i \in DOMAIN TryBlock(S, K, c).chunks : TryBlock(S, K, c).chunks[i].grain = "BLOCK"
  BY DEF TryBlock, Chunk
<1>4. TryPage(S, c) # NoPlan =>
        \A i \in DOMAIN TryPage(S, c).chunks : TryPage(S, c).chunks[i].grain = "PAGE"
  <2>1. TryPage(S, c) # NoPlan => TryPage(S, c).chunks = <<Chunk("PAGE", S, S)>>
    BY DEF TryPage
  <2>2. DOMAIN <<Chunk("PAGE", S, S)>> = {1} /\ <<Chunk("PAGE", S, S)>>[1].grain = "PAGE"
    BY DEF Chunk
  <2> QED BY <2>1, <2>2
<1>5. Follows(TryWindow(S, K, c), S, K, c)
  <2> DEFINE W == Windows(Ordered(S), K, c)
             C == TryWindow(S, K, c).chunks
  <2>1. /\ Owns(C, S) /\ DOMAIN C = DOMAIN W
        /\ \A w \in DOMAIN W :
             /\ C[w].grain = "WINDOW" /\ C[w].lines = W[w]
             /\ \A l \in S : l \in C[w].targets <=> w = WindowOfLine(l, W, S, K)
    BY TryWindowOwns
  <2>2. SUFFICES ASSUME c.overlap >= 1, c.window >= 2,
                        NEW w \in DOMAIN C, NEW l \in C[w].targets,
                        UnitOf(l, S, K) = {l}, {m \in S : m > l} # {},
                        Chars[l] + Chars[Min({m \in S : m > l})] <= c.maxChars
                 PROVE  Min({m \in S : m > l}) \in C[w].lines
    BY DEF Follows
  <2>3. l \in S
    <3>1. Owns(C, S)
      BY <2>1
    <3> HIDE DEF C
    <3> QED BY <3>1, OwnsChunks
  <2>4. Min({m \in S : m > l}) \in W[WindowOfLine(l, W, S, K)]
    BY <2>2, <2>3, WindowFollows
  <2> HIDE DEF C, W
  <2> QED BY <2>1, <2>3, <2>4
<1> QED BY <1>1, <1>2, <1>3, <1>4, <1>5 DEF Follows

\* The state of a page that is being planned.
PlanInv ==
  /\ config \in Configs /\ LinksOf(links) /\ page \in SUBSET Lines
  /\ stage \in {"start", "planned", "routed", "refused"}
  /\ stage = "start" <=> grain = "none"
  /\ stage = "start" => plan = NoPlan
  /\ IsPlan(plan)
  /\ Planned => Sound(plan, page, links, config)
  /\ Planned /\ config.cap = 0 => Follows(plan, page, links, config)
  /\ stage = "routed" /\ config.cap # 0 =>
       \A i \in DOMAIN plan.chunks : Cardinality(plan.chunks[i].lines) <= config.cap

\* Links that are fewer are as well-linked.
LEMMA FewerLinks ==
  ASSUME NEW K, LinksOf(K), NEW L \in SUBSET K
  PROVE  LinksOf(L)
BY DEF LinksOf, WellLinked

\* plan_page gives a record of chunks and splits.
LEMMA PlansArePlans ==
  ASSUME NEW S, NEW K, NEW c, NEW force
  PROVE  IsPlan(PlanPage(force, S, K, c))
<1>1. IsPlan(NoPlan) /\ IsPlan(TryPage(S, c))
  BY DEF IsPlan, NoPlan, TryPage
<1>2. IsPlan(TryWindow(S, K, c)) /\ IsPlan(PlanLine(S, K, c))
  BY DEF IsPlan, TryWindow, PlanLine
<1>3. IsPlan(TryBlock(S, K, c))
  BY DEF IsPlan, NoPlan, TryBlock
<1> QED BY <1>1, <1>2, <1>3 DEF PlanPage

\* The invariant holds before any planning.
LEMMA PlanInvStarts ==
  ASSUME Init
  PROVE  PlanInv
<1>1. LinksOf(links)
  BY LinkAssumption DEF Init, LinksOf
<1>2. IsPlan(NoPlan)
  BY DEF IsPlan, NoPlan
<1> QED BY <1>1, <1>2 DEF Init, PlanInv, Planned, NoPlan

\* A configuration is one the code accepts.
LEMMA ConfigsAre ==
  ASSUME NEW c \in Configs
  PROVE  IsConfig(c)
BY ConfigAssumption DEF IsConfig

\* Planning, capping, refusing and descending keep the invariant.
LEMMA PlanInvSteps ==
  ASSUME PlanInv, [Next]_vars
  PROVE  PlanInv'
<1>1. IsConfig(config) /\ config \in Configs /\ LinksOf(links) /\ page \in SUBSET Lines
  BY ConfigsAre DEF PlanInv
<1>2. CASE PlanIt
  <2>1. /\ plan' = PlanPage(grain', page, links, config)
        /\ grain' \in Forces /\ stage' = "planned"
        /\ page' = page /\ links' = links /\ config' = config
    BY <1>2 DEF PlanIt
  <2>2. IsPlan(plan') /\ Sound(plan', page, links, config) /\ Follows(plan', page, links, config)
    BY <1>1, <2>1, PlansArePlans, PlanPageSound, PlanPageFollows
  <2>3. grain' # "none"
    BY <2>1 DEF Forces
  <2> QED BY <1>1, <2>1, <2>2, <2>3 DEF PlanInv, Planned
<1>3. CASE Cap
  <2>1. /\ stage = "planned" /\ ~ Oversized
        /\ plan' = Capped(plan, page, links \ plan.splits, config.cap)
        /\ stage' = "routed" /\ page' = page /\ links' = links
        /\ config' = config /\ grain' = grain
    BY <1>3 DEF Cap
  <2>2. /\ grain # "none" /\ IsPlan(plan) /\ Sound(plan, page, links, config)
        /\ config.cap = 0 => Follows(plan, page, links, config)
    BY <2>1 DEF PlanInv, Planned
  <2>3. CASE config.cap = 0
    <3>1. plan' = plan
      BY <2>1, <2>3 DEF Capped
    <3> QED BY <1>1, <2>1, <2>2, <2>3, <3>1 DEF PlanInv, Planned
  <2>4. CASE config.cap # 0
    <3>1. \A i \in DOMAIN plan.chunks :
            ~ Unsendable(plan.chunks[i], page, links \ plan.splits, config.cap)
      BY <2>1, <2>4 DEF Oversized
    <3>2. /\ IsPlan(plan') /\ Sound(plan', page, links, config)
          /\ \A i \in DOMAIN plan'.chunks : Cardinality(plan'.chunks[i].lines) <= config.cap
      BY <1>1, <2>1, <2>2, <2>4, <3>1, CappedSound
    <3> QED BY <1>1, <2>1, <2>2, <2>4, <3>2 DEF PlanInv, Planned
  <2> QED BY <2>3, <2>4
<1>4. CASE RefuseCap
  BY <1>1, <1>4 DEF RefuseCap, PlanInv, Planned
<1>5. CASE Descend
  <2>1. PICK i \in DOMAIN plan.chunks :
          /\ Finer(plan.chunks[i].grain) # "none"
          /\ grain' = Finer(plan.chunks[i].grain)
          /\ page' = plan.chunks[i].targets
          /\ links' = links \ plan.splits
          /\ plan' = PlanPage(Finer(plan.chunks[i].grain), plan.chunks[i].targets,
                              links \ plan.splits, config)
    BY <1>5 DEF Descend
  <2>2. stage = "routed" /\ stage' = "routed" /\ config' = config
    BY <1>5 DEF Descend
  <2>3. Sound(plan, page, links, config)
    BY <2>2 DEF PlanInv, Planned
  <2>4. /\ plan.chunks[i].lines \in SUBSET page /\ plan.chunks[i].targets \in SUBSET page
        /\ plan.chunks[i].targets \subseteq plan.chunks[i].lines
    <3>1. Owns(plan.chunks, page)
      BY <2>3 DEF Sound
    <3> QED BY <3>1, OwnsChunks
  <2>5. page' \in SUBSET Lines /\ LinksOf(links')
    BY <1>1, <2>1, <2>4, FewerLinks
  <2>6. /\ IsPlan(plan') /\ Sound(plan', page', links', config)
        /\ Follows(plan', page', links', config)
    <3> DEFINE S == page'
               K == links'
               f == grain'
    <3>1. S \in SUBSET Lines /\ LinksOf(K) /\ plan' = PlanPage(f, S, K, config)
      BY <2>1, <2>5
    <3> HIDE DEF S, K, f
    <3>2. IsPlan(plan') /\ Sound(plan', S, K, config) /\ Follows(plan', S, K, config)
      BY <1>1, <3>1, PlansArePlans, PlanPageSound, PlanPageFollows
    <3> QED BY <3>2 DEF S, K
  <2>7. ASSUME config.cap # 0, NEW j \in DOMAIN plan'.chunks
        PROVE  Cardinality(plan'.chunks[j].lines) <= config.cap
    <3>1. Cardinality(plan.chunks[i].lines) <= config.cap
      BY <2>2, <2>7 DEF PlanInv
    <3>2. Owns(plan'.chunks, page')
      BY <2>6 DEF Sound
    <3>3. plan'.chunks[j].lines \in SUBSET page'
      BY <3>2, OwnsChunks
    <3> DEFINE A == plan'.chunks[j].lines
               B == plan.chunks[i].lines
    <3>4. A \in SUBSET B /\ B \in SUBSET Lines /\ A \in SUBSET Lines
      BY <1>1, <2>1, <2>4, <3>3
    <3>5. config.cap \in Nat
      BY <1>1 DEF IsConfig
    <3>6. Cardinality(A) \in Nat /\ Cardinality(B) \in Nat /\ Cardinality(A) <= Cardinality(B)
      <4> HIDE DEF A, B
      <4> QED BY <3>4, PageFacts, FS_Subset
    <3> QED BY <3>1, <3>5, <3>6
  <2> QED BY <1>1, <2>1, <2>2, <2>5, <2>6, <2>7 DEF PlanInv, Planned
<1>6. CASE UNCHANGED vars
  BY <1>6 DEF vars, PlanInv, Planned
<1> QED BY <1>2, <1>3, <1>4, <1>5, <1>6 DEF Next

\* The invariant of the planner.
LEMMA PlanInvHolds == Spec => []PlanInv
BY PlanInvStarts, PlanInvSteps, PTL DEF Spec

\* Every line of a page is a target of exactly one chunk, whatever the page, its links,
\* the configuration and the cap, through the split for the image cap and every descent
\* (core/planner.py plan_page, core/batching.py).
THEOREM EveryLineHasOneOwner == Spec => []OneOwner
<1>1. ASSUME PlanInv PROVE OneOwner
  <2>1. SUFFICES ASSUME Planned PROVE OneOwner
    BY DEF OneOwner
  <2>2. Owns(plan.chunks, page)
    BY <1>1, <2>1 DEF PlanInv, Sound
  <2>3. \A i \in DOMAIN plan.chunks :
          /\ plan.chunks[i].lines \in SUBSET page
          /\ plan.chunks[i].targets \subseteq plan.chunks[i].lines
    BY <2>2, OwnsChunks
  <2>4. \A c \in ChunksPlanned : c.targets \subseteq c.lines /\ c.lines \subseteq page
    BY <2>3 DEF ChunksPlanned
  <2>5. ASSUME NEW l \in page
        PROVE  Cardinality({i \in DOMAIN plan.chunks : l \in plan.chunks[i].targets}) = 1
    <3>1. PICK i \in DOMAIN plan.chunks : l \in plan.chunks[i].targets
      BY <2>2 DEF Owns
    <3>2. {j \in DOMAIN plan.chunks : l \in plan.chunks[j].targets} = {i}
      BY <2>2, <3>1 DEF Owns
    <3> QED BY <3>2, FS_Singleton
  <2> QED BY <2>4, <2>5 DEF OneOwner
<1> QED BY <1>1, PlanInvHolds, PTL

\* A request goes past its budgets only for lines a word goes on over, and no further than
\* the planner's limit, through the image cap and every descent (core/planner.py).
THEOREM RequestsStayBounded == Spec => []RequestsBounded
<1>1. ASSUME PlanInv PROVE RequestsBounded
  <2>1. CASE Planned
    <3>1. \A i \in DOMAIN plan.chunks : Bounded(plan.chunks[i], page, links, config)
      BY <1>1, <2>1 DEF PlanInv, Sound
    <3> QED BY <3>1 DEF RequestsBounded, ChunksPlanned
  <2>2. CASE ~ Planned
    <3>1. plan.chunks = <<>>
      BY <1>1, <2>2 DEF PlanInv, Planned, NoPlan
    <3>2. ChunksPlanned = {}
      BY <3>1 DEF ChunksPlanned
    <3> QED BY <3>2 DEF RequestsBounded
  <2> QED BY <2>1, <2>2
<1> QED BY <1>1, PlanInvHolds, PTL

\* plan_page severs exactly the links that its LINE chunks cut (_plan_line).
THEOREM SplitsAreExact == Spec => []CutExactly
<1>1. ASSUME PlanInv PROVE CutExactly
  <2>1. SUFFICES ASSUME Planned PROVE CutExactly
    BY DEF CutExactly
  <2>2. Sound(plan, page, links, config)
    BY <1>1, <2>1 DEF PlanInv
  <2>3. \A k : SameTargets(k) <=> Together(plan, k)
    BY DEF SameTargets, Together, ChunksPlanned
  <2>4. WithinPage = Inner(links, page)
    BY DEF WithinPage, Inner
  <2>5. ASSUME NEW k \in WithinPage, \E c \in ChunksPlanned : c.grain = "LINE"
        PROVE  SameTargets(k) <=> k \notin plan.splits
    <3>1. \E i \in DOMAIN plan.chunks : plan.chunks[i].grain = "LINE"
      BY <2>5 DEF ChunksPlanned
    <3> QED BY <2>2, <2>3, <2>4, <3>1 DEF Sound
  <2> QED BY <2>2, <2>4, <2>5 DEF CutExactly, Sound
<1> QED BY <1>1, PlanInvHolds, PTL

\* A word no longer than the caps allow is never planned apart, nor split by the image
\* cap (_assign_window_targets, _plan_line, _split_for_image_cap).
THEOREM FittingUnitsHold == Spec => []FittingUnitsStayWhole
<1>1. ASSUME PlanInv PROVE FittingUnitsStayWhole
  <2>1. SUFFICES ASSUME Planned, NEW k \in WithinPage,
                        SpanOf(k[1]) <= Min({config.maxLines, WindowSlack + 1})
                 PROVE  SameTargets(k)
    BY DEF FittingUnitsStayWhole
  <2>2. Sound(plan, page, links, config) /\ config \in Configs /\ page \in SUBSET Lines
    BY <1>1, <2>1 DEF PlanInv
  <2>3. k \in Inner(links, page) /\ k[1] \in page
    BY DEF WithinPage, Inner
  <2>4. SpanOf(k[1]) = Span(k[1], page, links)
    BY DEF SpanOf, Span
  <2> DEFINE d == Span(k[1], page, links)
             a == config.maxLines
             b == WindowSlack + 1
  <2>5. d \in Nat
    <3> DEFINE T == {m \in page : Min(UnitOf(k[1], page, links)) <= m /\
                                  m <= Max(UnitOf(k[1], page, links))}
    <3>1. T \in SUBSET Lines /\ d = Cardinality(T)
      BY <2>2 DEF Span
    <3> HIDE DEF T, d
    <3> QED BY <3>1, PageFacts
  <2>6. a \in Int /\ b \in Int
    BY <2>2, ConfigsAre, ConfigAssumption DEF IsConfig
  <2> HIDE DEF d, a, b
  <2>7. d <= Min({a, b})
    BY <2>1, <2>4 DEF d, a, b
  <2>8. Min({a, b}) \in Int /\ Min({a, b}) <= a /\ Min({a, b}) <= b
    BY <2>6, MinOfTwo
  <2>9. d <= a /\ d <= b
    BY <2>5, <2>6, <2>7, <2>8
  <2>10. Together(plan, k)
    BY <2>2, <2>3, <2>9 DEF Sound, d, a, b
  <2> QED BY <2>10 DEF SameTargets, Together, ChunksPlanned
<1> QED BY <1>1, PlanInvHolds, PTL

\* A window that decides a line of no word shows the producer the line after it
\* (_try_window: the overlap and the choice of the last window).
THEOREM NextLineIsSeen == Spec => []FollowingContext
<1>1. ASSUME PlanInv PROVE FollowingContext
  <2>1. SUFFICES ASSUME Planned, config.cap = 0, config.overlap >= 1, config.window >= 2
                 PROVE  FollowingContext
    BY DEF FollowingContext
  <2>2. Follows(plan, page, links, config)
    BY <1>1, <2>1 DEF PlanInv
  <2>3. \A i \in DOMAIN plan.chunks : \A l \in plan.chunks[i].targets :
          /\ plan.chunks[i].grain = "WINDOW"
          /\ UnitOf(l, page, links) = {l}
          /\ {m \in page : m > l} # {}
          /\ Chars[l] + Chars[Min({m \in page : m > l})] <= config.maxChars
          => Min({m \in page : m > l}) \in plan.chunks[i].lines
    BY <2>1, <2>2 DEF Follows
  <2> QED BY <2>3 DEF FollowingContext, ChunksPlanned
<1> QED BY <1>1, PlanInvHolds, PTL

\* No call carries more lines than the producer takes, through every descent
\* (core/batching.py, core/driver.py).
THEOREM CallsStayWithinCap == Spec => []CallsWithinCap
<1>1. PlanInv => CallsWithinCap
  BY DEF PlanInv, CallsWithinCap, ChunksPlanned
<1> QED BY <1>1, PlanInvHolds, PTL

\* What a plan owes the driver (PlanContract, on which every theorem of PageDriverProofs
\* rests) the planner keeps: chunks of lines of the page, every line a target, only live
\* links of the page cut.
THEOREM PlansKeepContract ==
  ASSUME NEW c \in Configs, NEW K, LinksOf(K), NEW S \in SUBSET Lines, NEW force
  PROVE  PlanContract(S, K, PlanPage(force, S, K, c))
<1> DEFINE P == PlanPage(force, S, K, c)
<1>1. Sound(P, S, K, c)
  BY ConfigsAre, PlanPageSound
<1> HIDE DEF P
<1>2. Owns(P.chunks, S) /\ P.splits \subseteq Inner(K, S)
  BY <1>1 DEF Sound
<1>3. P.chunks \in Seq(Chunks)
  <2>1. ChunkSet(S) \subseteq Chunks
    BY DEF ChunkSet, Chunks
  <2>2. P.chunks \in Seq(ChunkSet(S))
    BY <1>2 DEF Owns, ChunkSet
  <2>3. Len(P.chunks) \in Nat /\ P.chunks \in [1 .. Len(P.chunks) -> ChunkSet(S)]
    BY <2>2, LenProperties
  <2>4. P.chunks \in [1 .. Len(P.chunks) -> Chunks]
    BY <2>1, <2>3
  <2> QED BY <2>3, <2>4, FunIsSeq
<1>4. \A i \in DOMAIN P.chunks :
        P.chunks[i].targets \subseteq P.chunks[i].lines /\ P.chunks[i].lines \subseteq S
  BY <1>2, OwnsChunks
<1>5. P.splits \subseteq K \cap (S \X S)
  BY <1>2 DEF Inner, LinksOf
<1>6. PlanContract(S, K, P)
  BY <1>2, <1>3, <1>4, <1>5 DEF PlanContract, Owns
<1> QED BY <1>6 DEF P

\* The hypothesis of the word-level theorems of PageDriverUnits (WholeUnits): every line
\* has one owner and a word is planned whole or its link severed, on a page whose words
\* are no longer than a chunk and than a window may grow.
THEOREM ShortWordsPlannedWhole ==
  ASSUME NEW c \in Configs, NEW K, LinksOf(K), NEW S \in SUBSET Lines, NEW force,
         \A l \in S : Span(l, S, K) <= c.maxLines /\ Span(l, S, K) <= WindowSlack + 1
  PROVE  WholeUnits(S, K, PlanPage(force, S, K, c))
<1> DEFINE P == PlanPage(force, S, K, c)
<1>1. Sound(P, S, K, c)
  BY ConfigsAre, PlanPageSound
<1> HIDE DEF P
<1>2. /\ Owns(P.chunks, S)
      /\ \A k \in Inner(K, S) :
           Span(k[1], S, K) <= c.maxLines /\ Span(k[1], S, K) <= WindowSlack + 1 => Together(P, k)
  BY <1>1 DEF Sound
<1>3. ASSUME NEW i \in DOMAIN P.chunks, NEW k \in K \cap (S \X S)
      PROVE  k[1] \in P.chunks[i].targets <=> k[2] \in P.chunks[i].targets
  <2>1. k \in Inner(K, S) /\ k[1] \in S
    BY DEF Inner
  <2>2. Together(P, k)
    BY <1>2, <2>1
  <2>3. PICK j \in DOMAIN P.chunks : k[1] \in P.chunks[j].targets /\ k[2] \in P.chunks[j].targets
    BY <2>2 DEF Together
  <2> QED BY <1>2, <2>3 DEF Owns
<1>4. WholeUnits(S, K, P)
  BY <1>2, <1>3 DEF WholeUnits, Owns
<1> QED BY <1>4 DEF P

====
