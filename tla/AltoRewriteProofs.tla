---- MODULE AltoRewriteProofs ----
(***************************************************************************)
(* Theorems about the rewriting of an ALTO line: the IDs of its Strings    *)
(* stay distinct, and what a write takes away from it is counted.          *)
(*                                                                         *)
(* A write in place keeps the children where they are and what they carry; *)
(* a rebuild makes one String of each word, and what it takes from the old *)
(* ones follows the alignment, which pairs a String with one word at most. *)
(***************************************************************************)
EXTENDS AltoRewrite, BasicFacts

\* As many as there are numbers they come from, one each.
Image(f, S) == {f[k] : k \in S}
LEMMA ImageCard ==
  ASSUME NEW n \in Nat, NEW f, NEW S \in SUBSET (1 .. n),
         \A i, j \in S : f[i] = f[j] => i = j
  PROVE  /\ IsFiniteSet(Image(f, S)) /\ IsFiniteSet(S)
         /\ Cardinality(Image(f, S)) = Cardinality(S) /\ Cardinality(S) \in Nat
<1> DEFINE T == {f[k] : k \in S}
           g == [k \in S |-> f[k]]
<1>0. IsFiniteSet(1 .. n)
  BY FS_Interval
<1>1. IsFiniteSet(S)
  BY <1>0, FS_Subset
<1>2. g \in Bijection(S, T)
  BY DEF Bijection, Injection, IsInjective, Surjection
<1> HIDE DEF g, T
<1>4. ExistsBijection(S, T)
  BY <1>2 DEF ExistsBijection
<1>3. IsFiniteSet(T) /\ Cardinality(T) = Cardinality(S)
  BY <1>1, <1>4, FS_Bijection
<1> QED BY <1>1, <1>3, FS_CardinalityType DEF T, Image

\* A walk meets no position twice.
LEMMA ThroughOnce ==
  ASSUME NEW n, NEW at, NEW P \in SUBSET Nat, Through(at, n, P)
  PROVE  /\ n \in Nat /\ P = {at[k] : k \in 1 .. n}
         /\ \A i, j \in 1 .. n : at[i] = at[j] => i = j
<1>1. n \in Nat /\ at \in [1 .. n -> P]
  BY DEF Through
<1>2. \A i, j \in 1 .. n : i < j => at[i] < at[j]
  BY DEF Through
<1>3. \A k \in 1 .. n : at[k] \in Nat
  BY <1>1
<1>4. ASSUME NEW i \in 1 .. n, NEW j \in 1 .. n, at[i] = at[j] PROVE i = j
  <2>1. ~ (i < j) /\ ~ (j < i)
    BY <1>2, <1>3, <1>4
  <2> QED BY <1>1, <2>1
<1>5. P = {at[k] : k \in 1 .. n}
  BY <1>1 DEF Through
<1> QED BY <1>1, <1>4, <1>5

\* The children of a kind, and where they are.
AtTag(c, tag) == {i \in DOMAIN c : c[i].tag = tag}

TaggedBy(c, tag, n, at) ==
  /\ Through(at, n, AtTag(c, tag)) /\ AtTag(c, tag) \in SUBSET Nat
  /\ Tagged(c, tag) = [k \in 1 .. n |-> c[at[k]]] /\ Len(Tagged(c, tag)) = n
  /\ n = Cardinality(AtTag(c, tag)) /\ IsFiniteSet(AtTag(c, tag))

LEMMA TaggedFacts ==
  ASSUME NEW X, NEW c \in Seq(X), NEW tag
  PROVE  Tagged(c, tag) \in Seq(X) /\ \E n, at : TaggedBy(c, tag, n, at)
<1> DEFINE P  == AtTag(c, tag)
           n  == Cardinality(P)
           at == Ordered(P)
<1>1. P \in SUBSET DOMAIN c
  BY DEF AtTag
<1>2. Tagged(c, tag) = Chosen(c, P)
  BY DEF Tagged, AtTag
<1> HIDE DEF P
<1>3. P \in SUBSET Nat /\ IsFiniteSet(P)
  BY <1>1, PositionsFinite
<1>4. /\ Through(at, n, P) /\ Chosen(c, P) = [k \in 1 .. n |-> c[at[k]]]
      /\ Chosen(c, P) \in Seq(X) /\ Len(Chosen(c, P)) = n
  BY <1>1, ChosenFacts DEF Through
<1> QED BY <1>2, <1>3, <1>4 DEF P, TaggedBy

\* The Strings of a line, by the way through them.
StringsAt(c, n, at) ==
  /\ n \in Nat /\ at \in [1 .. n -> AtTag(c, "String")]
  /\ AtTag(c, "String") = {at[k] : k \in 1 .. n}
  /\ \A i, j \in 1 .. n : at[i] = at[j] => i = j
  /\ Strings(c) = [k \in 1 .. n |-> c[at[k]]] /\ Len(Strings(c)) = n

LEMMA StringsFacts ==
  ASSUME NEW X, NEW c \in Seq(X)
  PROVE  \E n, at : StringsAt(c, n, at)
<1>0. PICK n, at : TaggedBy(c, "String", n, at)
  BY TaggedFacts
<1>1. /\ Through(at, n, AtTag(c, "String")) /\ AtTag(c, "String") \in SUBSET Nat
      /\ Tagged(c, "String") = [k \in 1 .. n |-> c[at[k]]]
      /\ Len(Tagged(c, "String")) = n
  BY <1>0 DEF TaggedBy
<1>2. /\ n \in Nat /\ AtTag(c, "String") = {at[k] : k \in 1 .. n}
      /\ \A i, j \in 1 .. n : at[i] = at[j] => i = j
  BY <1>1, ThroughOnce
<1>3. at \in [1 .. n -> AtTag(c, "String")]
  BY <1>1 DEF Through
<1> QED BY <1>1, <1>2, <1>3 DEF StringsAt, Strings

\* The number of HYPs.
LEMMA HypsCount ==
  ASSUME NEW X, NEW c \in Seq(X)
  PROVE  /\ Len(Hyps(c)) = Cardinality(AtTag(c, "HYP")) /\ Len(Hyps(c)) \in Nat
         /\ Hyps(c) \in Seq(X) /\ \A k \in 1 .. Len(Hyps(c)) : Hyps(c)[k].tag = "HYP" /\ \E i \in DOMAIN c : Hyps(c)[k] = c[i]
<1>0. PICK n, at : TaggedBy(c, "HYP", n, at)
  BY TaggedFacts
<1>1. /\ Through(at, n, AtTag(c, "HYP"))
      /\ Tagged(c, "HYP") = [k \in 1 .. n |-> c[at[k]]]
      /\ Tagged(c, "HYP") \in Seq(X) /\ Len(Tagged(c, "HYP")) = n
      /\ n = Cardinality(AtTag(c, "HYP"))
  BY <1>0, TaggedFacts DEF TaggedBy
<1>2. n \in Nat /\ \A k \in 1 .. n : at[k] \in AtTag(c, "HYP")
  BY <1>1 DEF Through
<1>3. \A k \in 1 .. n : at[k] \in DOMAIN c /\ c[at[k]].tag = "HYP"
  BY <1>2 DEF AtTag
<1> QED BY <1>1, <1>2, <1>3 DEF Hyps

\* What is counted of a line.
Extras(c) == {i \in DOMAIN c : c[i].tag = "String" /\ c[i].extra}
Styles(c) == {i \in DOMAIN c : c[i].tag = "String" /\ c[i].style}
Abbreviations(c) == {i \in DOMAIN c : c[i].tag = "String" /\ c[i].subs.type = "Abbreviation"}

\* A set of Strings by their positions, and by their numbers.
LEMMA ByNumber ==
  ASSUME NEW X, NEW c \in Seq(X)
  PROVE  /\ Cardinality(Extras(c)) = Cardinality({k \in DOMAIN Strings(c) : Strings(c)[k].extra})
         /\ Cardinality(Styles(c)) = Cardinality({k \in DOMAIN Strings(c) : Strings(c)[k].style})
         /\ Cardinality(Abbreviations(c))
              = Cardinality({k \in DOMAIN Strings(c) : Strings(c)[k].subs.type = "Abbreviation"})
         /\ IsFiniteSet(DOMAIN Strings(c)) /\ DOMAIN Strings(c) = 1 .. Len(Strings(c))
         /\ Len(Strings(c)) \in Nat
<1>1. PICK n, at : StringsAt(c, n, at)
  BY StringsFacts
<1>2. /\ n \in Nat /\ DOMAIN Strings(c) = 1 .. n /\ Len(Strings(c)) = n
      /\ \A k \in 1 .. n : Strings(c)[k] = c[at[k]]
      /\ \A i, j \in 1 .. n : at[i] = at[j] => i = j
  BY <1>1 DEF StringsAt
<1>3. \A i : i \in DOMAIN c /\ c[i].tag = "String" <=> \E k \in 1 .. n : i = at[k]
  BY <1>1 DEF StringsAt, AtTag
<1> DEFINE E == {k \in 1 .. n : Strings(c)[k].extra}
           S == {k \in 1 .. n : Strings(c)[k].style}
           A == {k \in 1 .. n : Strings(c)[k].subs.type = "Abbreviation"}
<1>4. Extras(c) = Image(at, E)
  BY <1>2, <1>3 DEF Extras, Image
<1>5. Styles(c) = Image(at, S)
  BY <1>2, <1>3 DEF Styles, Image
<1>6. Abbreviations(c) = Image(at, A)
  BY <1>2, <1>3 DEF Abbreviations, Image
<1>7. E \in SUBSET (1 .. n) /\ S \in SUBSET (1 .. n) /\ A \in SUBSET (1 .. n)
  OBVIOUS
<1>8. /\ E = {k \in DOMAIN Strings(c) : Strings(c)[k].extra}
      /\ S = {k \in DOMAIN Strings(c) : Strings(c)[k].style}
      /\ A = {k \in DOMAIN Strings(c) : Strings(c)[k].subs.type = "Abbreviation"}
  BY <1>2
<1> HIDE DEF E, S, A
<1>9. ASSUME NEW Q \in SUBSET (1 .. n) PROVE Cardinality(Image(at, Q)) = Cardinality(Q)
  <2>1. \A i, j \in Q : at[i] = at[j] => i = j
    BY <1>2
  <2>2. n \in Nat
    BY <1>2
  <2> QED BY ZenonT(30), <2>1, <2>2, ImageCard
<1>10. IsFiniteSet(1 .. n)
  BY <1>2, FS_Interval
<1> QED BY <1>2, <1>4, <1>5, <1>6, <1>7, <1>8, <1>9, <1>10

\* A line whose children stand where those of another do, and carry the same.
Alike(c, d) ==
  /\ DOMAIN d = DOMAIN c
  /\ \A i \in DOMAIN c :
       /\ d[i].tag = c[i].tag
       /\ c[i].tag = "String" => d[i].id = c[i].id /\ d[i].style = c[i].style /\ d[i].extra = c[i].extra

LEMMA AlikeSame ==
  ASSUME NEW X, NEW c \in Seq(X), NEW Y, NEW d \in Seq(Y), Alike(c, d)
  PROVE  /\ Ids(d) = Ids(c) /\ Len(Strings(d)) = Len(Strings(c))
         /\ AtTag(d, "HYP") = AtTag(c, "HYP") /\ Len(Hyps(d)) = Len(Hyps(c))
         /\ Extras(d) = Extras(c) /\ Styles(d) = Styles(c)
<1>1. AtTag(d, "HYP") = AtTag(c, "HYP") /\ AtTag(d, "String") = AtTag(c, "String")
  BY DEF Alike, AtTag
<1>2. Extras(d) = Extras(c) /\ Styles(d) = Styles(c)
  BY DEF Alike, Extras, Styles
<1>3. Len(Hyps(d)) = Len(Hyps(c))
  BY <1>1, HypsCount
<1> DEFINE P == AtTag(c, "String")
           n == Cardinality(P)
           at == Ordered(P)
<1>4. P \in SUBSET DOMAIN c /\ P \in SUBSET DOMAIN d
  BY DEF AtTag, Alike
<1>5. Strings(c) = Chosen(c, P) /\ Strings(d) = Chosen(d, P)
  BY <1>1 DEF Strings, Tagged, AtTag
<1>6. \A i \in P : c[i].tag = "String"
  BY DEF AtTag
<1> HIDE DEF P
<1>7. /\ n \in Nat /\ at \in [1 .. n -> P]
      /\ Chosen(c, P) = [k \in 1 .. n |-> c[at[k]]] /\ Len(Chosen(c, P)) = n
      /\ Chosen(d, P) = [k \in 1 .. n |-> d[at[k]]] /\ Len(Chosen(d, P)) = n
  BY <1>4, ChosenFacts
<1> HIDE DEF n, at
<1>8. /\ DOMAIN Strings(c) = 1 .. n /\ DOMAIN Strings(d) = 1 .. n
      /\ \A k \in 1 .. n : Strings(c)[k].id = Strings(d)[k].id
  <2>1. \A k \in 1 .. n : at[k] \in P /\ at[k] \in DOMAIN c /\ c[at[k]].tag = "String"
    BY <1>4, <1>6, <1>7
  <2>2. \A k \in 1 .. n : d[at[k]].id = c[at[k]].id
    BY <2>1 DEF Alike
  <2> QED BY <1>5, <1>7, <2>2
<1>9. Ids(d) = Ids(c)
  BY <1>8 DEF Ids
<1> QED BY <1>1, <1>2, <1>3, <1>5, <1>7, <1>9

\* Children in a row are a line when none of them is anything else.
LEMMA LineOf ==
  ASSUME NEW n \in Nat, NEW d, d = [i \in 1 .. n |-> d[i]], \A i \in 1 .. n : IsChild(d[i]),
         Len(Hyps(d)) <= 1
  PROVE  IsLine(d)
<1>1. DOMAIN d = 1 .. n
  OBVIOUS
<1>2. d \in [1 .. n -> Range(d)]
  BY <1>1 DEF Range
<1>3. d \in Seq(Range(d))
  BY <1>2, FunIsSeq
<1> QED BY <1>1, <1>3 DEF IsLine

LEMMA LineFacts ==
  ASSUME NEW c, IsLine(c)
  PROVE  /\ c \in Seq(Range(c)) /\ Len(c) \in Nat /\ DOMAIN c = 1 .. Len(c)
         /\ c = [i \in 1 .. Len(c) |-> c[i]]
         /\ \A i \in 1 .. Len(c) : IsChild(c[i])
         /\ Len(Hyps(c)) \in Nat /\ Len(Hyps(c)) <= 1
<1>1. c \in Seq(Range(c)) /\ Len(Hyps(c)) <= 1 /\ \A i \in DOMAIN c : IsChild(c[i])
  BY DEF IsLine
<1>2. Len(c) \in Nat /\ DOMAIN c = 1 .. Len(c)
  BY <1>1, LenProperties
<1>3. c = [i \in 1 .. Len(c) |-> c[i]]
  BY <1>1, <1>2
<1>4. Len(Hyps(c)) \in Nat
  BY <1>1, HypsCount
<1> QED BY <1>1, <1>2, <1>3, <1>4

\* A child written in place: SUBS of its own on a String, or a text.
LEMMA SubsChild ==
  ASSUME NEW c, IsChild(c), c.tag = "String", NEW w
  PROVE  LET d == [c EXCEPT !.subs = w]
         IN  IsChild(d) /\ d.tag = "String" /\ d.id = c.id /\ d.style = c.style /\ d.extra = c.extra
             /\ d.subs = w
<1>1. IsString(c)
  BY DEF IsChild, Space
<1>2. c = [tag |-> "String", content |-> c.content, id |-> c.id, subs |-> c.subs,
           style |-> c.style, extra |-> c.extra, conf |-> c.conf]
  BY <1>1 DEF IsString
<1>3. c.content \in TextType /\ c.style \in BOOLEAN /\ c.extra \in BOOLEAN /\ c.conf \in BOOLEAN
  BY <1>1 DEF IsString
<1> DEFINE d == [tag |-> "String", content |-> c.content, id |-> c.id, subs |-> w,
                 style |-> c.style, extra |-> c.extra, conf |-> c.conf]
<1>4. [c EXCEPT !.subs = w] = d
  BY <1>2
<1>5. /\ d.tag = "String" /\ d.content = c.content /\ d.id = c.id /\ d.subs = w
      /\ d.style = c.style /\ d.extra = c.extra /\ d.conf = c.conf
  OBVIOUS
<1>6. IsString(d)
  BY <1>3, <1>5 DEF IsString
<1> QED BY <1>4, <1>5, <1>6 DEF IsChild

LEMMA TextChild ==
  ASSUME NEW c, IsChild(c), c.tag = "String", NEW w \in TextType, NEW v \in BOOLEAN
  PROVE  LET d == [c EXCEPT !.content = w, !.conf = v]
         IN  IsChild(d) /\ d.tag = "String" /\ d.id = c.id /\ d.style = c.style /\ d.extra = c.extra
<1>1. IsString(c)
  BY DEF IsChild, Space
<1>2. c = [tag |-> "String", content |-> c.content, id |-> c.id, subs |-> c.subs,
           style |-> c.style, extra |-> c.extra, conf |-> c.conf]
  BY <1>1 DEF IsString
<1>3. c.style \in BOOLEAN /\ c.extra \in BOOLEAN
  BY <1>1 DEF IsString
<1> DEFINE d == [tag |-> "String", content |-> w, id |-> c.id, subs |-> c.subs,
                 style |-> c.style, extra |-> c.extra, conf |-> v]
<1>4. [c EXCEPT !.content = w, !.conf = v] = d
  <2> DEFINE b == [c EXCEPT !.content = w, !.conf = v]
             R == [tag : {"String"}, content : TextType, id : {c.id}, subs : {c.subs},
                   style : BOOLEAN, extra : BOOLEAN, conf : BOOLEAN]
  <2>1. c \in R
    BY <1>1, <1>2 DEF IsString
  <2>2. b \in R
    BY <2>1
  <2>3. b.content = w /\ b.conf = v /\ b.style = c.style /\ b.extra = c.extra
    BY <2>1
  <2> HIDE DEF b
  <2>4. /\ b = [tag |-> b.tag, content |-> b.content, id |-> b.id, subs |-> b.subs,
                style |-> b.style, extra |-> b.extra, conf |-> b.conf]
        /\ b.tag = "String" /\ b.id = c.id /\ b.subs = c.subs
    BY <2>2
  <2> QED BY <2>3, <2>4 DEF b
<1>5. /\ d.tag = "String" /\ d.content = w /\ d.id = c.id /\ d.subs = c.subs
      /\ d.style = c.style /\ d.extra = c.extra /\ d.conf = v
  OBVIOUS
<1>6. IsString(d)
  BY <1>3, <1>5 DEF IsString
<1> QED BY <1>4, <1>5, <1>6 DEF IsChild

\* What the SUBS of a line may become.
LEMMA ApplySubsFacts ==
  ASSUME NEW c, IsLine(c), NEW m
  PROVE  IsLine(ApplySubs(c, m)) /\ Alike(c, ApplySubs(c, m))
<1> DEFINE d == ApplySubs(c, m)
           N == Len(c)
<1>1. /\ c \in Seq(Range(c)) /\ N \in Nat /\ DOMAIN c = 1 .. N
      /\ \A i \in 1 .. N : IsChild(c[i])
      /\ Len(Hyps(c)) \in Nat /\ Len(Hyps(c)) <= 1
  BY LineFacts
<1>2. Target(c, m) \subseteq AtTag(c, "String") /\ TargetAhead(c, m) \subseteq AtTag(c, "String")
  BY DEF Target, TargetAhead, Places, AtTag
<1>3. /\ DOMAIN d = 1 .. N
      /\ \A i \in 1 .. N : d[i] = IF i \in TargetAhead(c, m) THEN [c[i] EXCEPT !.subs = WantedAhead(m)]
                                  ELSE IF i \in Target(c, m) THEN [c[i] EXCEPT !.subs = Wanted(m)]
                                  ELSE c[i]
      /\ d = [i \in 1 .. N |-> d[i]]
  BY <1>1 DEF ApplySubs
<1> HIDE DEF d, N
<1>4. ASSUME NEW i \in 1 .. N
      PROVE  /\ IsChild(d[i]) /\ d[i].tag = c[i].tag
             /\ c[i].tag = "String" => d[i].id = c[i].id /\ d[i].style = c[i].style /\ d[i].extra = c[i].extra
  <2>1. IsChild(c[i])
    BY <1>1
  <2>2. CASE c[i].tag = "String"
    <3>1. \A w : LET b == [c[i] EXCEPT !.subs = w]
                 IN  IsChild(b) /\ b.tag = "String" /\ b.id = c[i].id /\ b.style = c[i].style /\ b.extra = c[i].extra
      BY <2>1, <2>2, SubsChild
    <3>2. d[i] = c[i] \/ \E w : d[i] = [c[i] EXCEPT !.subs = w]
      BY <1>3
    <3> QED BY <2>1, <2>2, <3>1, <3>2
  <2>3. CASE c[i].tag # "String"
    <3>1. i \notin TargetAhead(c, m) /\ i \notin Target(c, m)
      BY <1>2, <2>3 DEF AtTag
    <3> QED BY <1>3, <2>1, <2>3, <3>1
  <2> QED BY <2>2, <2>3
<1>5. Alike(c, d)
  BY <1>1, <1>3, <1>4 DEF Alike
<1>6. d \in Seq(Range(d))
  <2>1. d \in [1 .. N -> Range(d)]
    BY <1>3 DEF Range
  <2> QED BY <1>1, <2>1, FunIsSeq
<1>7. Len(Hyps(d)) <= 1
  BY <1>1, <1>5, <1>6, AlikeSame
<1> QED BY <1>1, <1>3, <1>4, <1>5, <1>7, LineOf DEF d

LEMMA NthIn ==
  ASSUME NEW X, NEW c \in Seq(X), NEW i \in AtTag(c, "String")
  PROVE  Nth(c, i) \in 1 .. Len(Strings(c))
<1> DEFINE P == AtTag(c, "String")
           Q == {j \in P : j <= i}
<1>1. PICK n, at : TaggedBy(c, "String", n, at)
  BY TaggedFacts
<1>2. IsFiniteSet(P) /\ Len(Strings(c)) = Cardinality(P) /\ P \in SUBSET Nat
  BY <1>1 DEF TaggedBy, Strings
<1>3. Nth(c, i) = Cardinality(Q)
  BY DEF Nth, Places, AtTag
<1>4. Q \subseteq P /\ i \in Q
  BY <1>2
<1> HIDE DEF P, Q
<1>5. IsFiniteSet(Q) /\ Cardinality(Q) <= Cardinality(P)
  BY <1>2, <1>4, FS_Subset
<1>6. Cardinality(Q) \in Nat /\ Cardinality(P) \in Nat
  BY <1>2, <1>5, FS_CardinalityType
<1>7. Cardinality(Q) # 0
  BY <1>4, <1>5, FS_EmptySet
<1> QED BY <1>2, <1>3, <1>5, <1>6, <1>7

LEMMA InPlaceFacts ==
  ASSUME NEW c, IsLine(c), NEW words, \A k \in 1 .. Len(Strings(c)) : words[k] \in TextType
  PROVE  IsLine(InPlace(c, words)) /\ Alike(c, InPlace(c, words))
<1> DEFINE d == InPlace(c, words)
           N == Len(c)
<1>1. /\ c \in Seq(Range(c)) /\ N \in Nat /\ DOMAIN c = 1 .. N
      /\ \A i \in 1 .. N : IsChild(c[i])
      /\ Len(Hyps(c)) \in Nat /\ Len(Hyps(c)) <= 1
  BY LineFacts
<1>2. Places(c) = AtTag(c, "String")
  BY DEF Places, AtTag
<1>3. /\ DOMAIN d = 1 .. N
      /\ \A i \in 1 .. N :
           d[i] = IF i \notin AtTag(c, "String") THEN c[i]
                  ELSE [c[i] EXCEPT !.content = words[Nth(c, i)],
                                    !.conf = @ /\ c[i].content = words[Nth(c, i)]]
      /\ d = [i \in 1 .. N |-> d[i]]
  BY <1>1, <1>2 DEF InPlace
<1> HIDE DEF d, N
<1>4. ASSUME NEW i \in 1 .. N
      PROVE  /\ IsChild(d[i]) /\ d[i].tag = c[i].tag
             /\ c[i].tag = "String" => d[i].id = c[i].id /\ d[i].style = c[i].style /\ d[i].extra = c[i].extra
  <2>1. IsChild(c[i])
    BY <1>1
  <2>2. CASE c[i].tag = "String"
    <3>1. i \in AtTag(c, "String")
      BY <1>1, <2>2 DEF AtTag
    <3>2. words[Nth(c, i)] \in TextType
      BY <1>1, <3>1, NthIn
    <3> DEFINE w == words[Nth(c, i)]
               v == c[i].conf /\ c[i].content = w
    <3>3. d[i] = [c[i] EXCEPT !.content = w, !.conf = v]
      BY <1>3, <3>1
    <3>4. v \in BOOLEAN
      OBVIOUS
    <3> HIDE DEF v
    <3>5. LET b == [c[i] EXCEPT !.content = w, !.conf = v]
          IN  IsChild(b) /\ b.tag = "String" /\ b.id = c[i].id /\ b.style = c[i].style /\ b.extra = c[i].extra
      BY <2>1, <2>2, <3>2, <3>4, TextChild
    <3> HIDE DEF w
    <3> QED BY <2>2, <3>3, <3>5
  <2>3. CASE c[i].tag # "String"
    <3>1. i \notin AtTag(c, "String")
      BY <2>3 DEF AtTag
    <3> QED BY <1>3, <2>1, <2>3, <3>1
  <2> QED BY <2>2, <2>3
<1>5. Alike(c, d)
  BY <1>1, <1>3, <1>4 DEF Alike
<1>6. d \in Seq(Range(d))
  <2>1. d \in [1 .. N -> Range(d)]
    BY <1>3 DEF Range
  <2> QED BY <1>1, <2>1, FunIsSeq
<1>7. Len(Hyps(d)) <= 1
  BY <1>1, <1>5, <1>6, AlikeSame
<1> QED BY <1>1, <1>3, <1>4, <1>5, <1>7, LineOf DEF d

\* A write in place of another keeps what both keep.
LEMMA AlikeTwice ==
  ASSUME NEW b, NEW c, NEW d, Alike(b, c), Alike(c, d)
  PROVE  Alike(b, d)
BY DEF Alike

\* A line whose Strings have an ID each.
LEMMA IdentifiedIs ==
  ASSUME NEW n \in Nat, NEW f
  PROVE  Cardinality(Image(f, 1 .. n)) = n <=> \A i, j \in 1 .. n : f[i] = f[j] => i = j
<1> DEFINE T == {f[k] : k \in 1 .. n}
           g == [k \in 1 .. n |-> f[k]]
<1>1. IsFiniteSet(1 .. n) /\ Cardinality(1 .. n) = n
  BY FS_Interval
<1>2. g \in Surjection(1 .. n, T)
  BY DEF Surjection
<1>3. \A k \in 1 .. n : g[k] = f[k]
  OBVIOUS
<1>4. Image(f, 1 .. n) = T
  BY DEF Image
<1> HIDE DEF g, T
<1>5. Cardinality(T) = n <=> g \in Injection(1 .. n, T)
  BY <1>1, <1>2, FS_Surjection
<1>6. g \in [1 .. n -> T]
  BY <1>2 DEF Surjection
<1>7. g \in Injection(1 .. n, T) <=> \A i, j \in 1 .. n : g[i] = g[j] => i = j
  BY <1>6 DEF Injection, IsInjective
<1> QED BY <1>3, <1>4, <1>5, <1>7

LEMMA IdsApart ==
  ASSUME NEW X, NEW c \in Seq(X)
  PROVE  Identified(c) <=> \A i, j \in 1 .. Len(Strings(c)) : Strings(c)[i].id = Strings(c)[j].id => i = j
<1> DEFINE n == Len(Strings(c))
           f == [k \in 1 .. n |-> Strings(c)[k].id]
<1>1. n \in Nat /\ DOMAIN Strings(c) = 1 .. n
  BY ByNumber
<1>2. Ids(c) = {f[k] : k \in 1 .. n}
  BY <1>1 DEF Ids
<1>3. Ids(c) = Image(f, 1 .. n)
  BY <1>2 DEF Image
<1>4. Cardinality(Image(f, 1 .. n)) = n <=> \A i, j \in 1 .. n : f[i] = f[j] => i = j
  <2> HIDE DEF f, n
  <2> QED BY <1>1, IdentifiedIs
<1>5. \A i \in 1 .. n : f[i] = Strings(c)[i].id
  OBVIOUS
<1> HIDE DEF f, n
<1> QED BY <1>3, <1>4, <1>5 DEF Identified, n

\* A numbered ID that no other has.
LEMMA NewIdFree ==
  ASSUME NEW n, NEW used, IsFiniteSet(used)
  PROVE  NewId(n, used) \notin used
<1> DEFINE m == Cardinality(used) + 1
           free == {k \in 1 .. m : <<"new", n, k>> \notin used}
           f == [k \in 1 .. m |-> <<"new", n, k>>]
<1>1. Cardinality(used) \in Nat /\ m \in Nat
  BY FS_CardinalityType
<1>2. free # {}
  <2>1. SUFFICES ASSUME free = {} PROVE FALSE
    OBVIOUS
  <2>2. \A k \in 1 .. m : f[k] \in used
    BY <2>1
  <2>3. \A i, j \in 1 .. m : f[i] = f[j] => i = j
    OBVIOUS
  <2> HIDE DEF f, m, free
  <2>4. Cardinality(Image(f, 1 .. m)) = Cardinality(1 .. m)
    <3>1. 1 .. m \in SUBSET (1 .. m)
      OBVIOUS
    <3> QED BY <1>1, <2>3, <3>1, ImageCard
  <2>5. Cardinality(1 .. m) = m
    BY <1>1, FS_Interval
  <2>6. Image(f, 1 .. m) \subseteq used
    BY <2>2 DEF Image
  <2>7. Cardinality(Image(f, 1 .. m)) <= Cardinality(used)
    BY <2>6, FS_Subset
  <2> QED BY <1>1, <2>4, <2>5, <2>7 DEF m
<1>3. free \in SUBSET Nat
  BY <1>1
<1>4. NewId(n, used) = <<"new", n, Min(free)>>
  BY DEF NewId
<1>5. \A k \in free : <<"new", n, k>> \notin used
  OBVIOUS
<1> HIDE DEF free
<1> QED BY <1>2, <1>3, <1>4, <1>5, MinOf

\* Where each of m words comes from: no String of L is the origin of two.
Sourced(from, m, L) ==
  /\ from \in [1 .. m -> 0 .. L]
  /\ \A i, j \in 1 .. m : from[i] = from[j] /\ from[i] # 0 => i = j
\* The Strings have an ID each.
Apart(s, L) == \A i, j \in 1 .. L : s[i].id = s[j].id => i = j
\* The IDs that are recycled are taken.
Kept(first, s, from, m) == \A n \in 1 .. m : from[n] # 0 /\ s[from[n]].id # <<>> => s[from[n]].id \in first

\* The ID of the n-th word, and the IDs taken once it has it.
IdAfter(s, from, n, used) ==
  IF from[n] # 0 /\ s[from[n]].id # <<>> THEN s[from[n]].id ELSE NewId(n, used)
Taking(f, s, from, first, m) ==
  f = [n \in 0 .. m |-> IF n = 0 THEN first ELSE f[n - 1] \cup {IdAfter(s, from, n, f[n - 1])}]

LEMMA TakingDefined ==
  ASSUME NEW s, NEW from, NEW first, NEW m \in Nat
  PROVE  \E f : Taking(f, s, from, first, m)
<1> DEFINE W == first \cup {s[from[n]].id : n \in 1 .. m} \cup {<<"new", n, Min(F)>> : n \in 1 .. m, F \in SUBSET Int}
           X == SUBSET W
           step == [q \in (1 .. m) \X X |-> q[2] \cup {IdAfter(s, from, q[1], q[2])}]
<1>1. first \in X
  OBVIOUS
<1>2. ASSUME NEW n \in 1 .. m, NEW used PROVE IdAfter(s, from, n, used) \in W
  <2> DEFINE free == {k \in 1 .. Cardinality(used) + 1 : <<"new", n, k>> \notin used}
  <2>1. free \in SUBSET Int /\ NewId(n, used) = <<"new", n, Min(free)>>
    BY DEF NewId
  <2> HIDE DEF free
  <2>2. NewId(n, used) \in {<<"new", i, Min(F)>> : i \in 1 .. m, F \in SUBSET Int}
    BY <2>1
  <2>3. s[from[n]].id \in {s[from[i]].id : i \in 1 .. m}
    OBVIOUS
  <2> QED BY <2>2, <2>3 DEF IdAfter
<1> HIDE DEF W
<1>3. ASSUME NEW n \in 1 .. m, NEW F \in X PROVE F \cup {IdAfter(s, from, n, F)} \in X
  BY <1>2
<1> HIDE DEF X
<1>4. step \in [(1 .. m) \X X -> X]
  <2>1. \A q \in (1 .. m) \X X : q[2] \cup {IdAfter(s, from, q[1], q[2])} \in X
    BY <1>3
  <2> QED BY <2>1
<1>5. \A n \in 1 .. m : \A F \in X : step[<<n, F>>] = F \cup {IdAfter(s, from, n, F)}
  OBVIOUS
<1> HIDE DEF step
<1>6. PICK f \in [0 .. m -> X] : Rounds(f, first, step, m)
  BY <1>1, <1>4, RoundsDefined
<1>7. ASSUME NEW n \in 0 .. m
      PROVE  f[n] = IF n = 0 THEN first ELSE f[n - 1] \cup {IdAfter(s, from, n, f[n - 1])}
  <2>1. f[n] = IF n = 0 THEN first ELSE step[<<n, f[n - 1]>>]
    BY <1>6 DEF Rounds
  <2>2. n # 0 => n \in 1 .. m /\ f[n - 1] \in X
    <3>1. n # 0 => n \in 1 .. m /\ n - 1 \in 0 .. m
      OBVIOUS
    <3> QED BY <1>6, <3>1
  <2> QED BY <1>5, <2>1, <2>2
<1>8. f = [n \in 0 .. m |-> f[n]]
  BY <1>6
<1> QED BY <1>7, <1>8 DEF Taking

\* What is taken stays taken.
LEMMA TakingGrows ==
  ASSUME NEW s, NEW from, NEW first, IsFiniteSet(first), NEW m \in Nat, NEW f, Taking(f, s, from, first, m)
  PROVE  /\ f[0] = first
         /\ \A k \in 1 .. m : f[k] = f[k - 1] \cup {IdAfter(s, from, k, f[k - 1])}
         /\ \A i, k \in 0 .. m : i <= k => f[i] \subseteq f[k]
         /\ \A k \in 0 .. m : IsFiniteSet(f[k])
<1>1. \A n \in 0 .. m : f[n] = IF n = 0 THEN first ELSE f[n - 1] \cup {IdAfter(s, from, n, f[n - 1])}
  BY DEF Taking
<1>2. f[0] = first /\ \A k \in 1 .. m : f[k] = f[k - 1] \cup {IdAfter(s, from, k, f[k - 1])}
  <2>1. 0 \in 0 .. m /\ \A k \in 1 .. m : k \in 0 .. m /\ k # 0
    OBVIOUS
  <2> QED BY <1>1, <2>1
<1> DEFINE S == {k \in 0 .. m : IsFiniteSet(f[k]) /\ \A i \in 0 .. k : f[i] \subseteq f[k]}
<1>3. 0 \in S
  <2>1. \A i \in 0 .. 0 : i = 0
    OBVIOUS
  <2> QED BY <1>2, <2>1
<1>4. ASSUME NEW k \in 1 .. m, k - 1 \in S PROVE k \in S
  <2>1. f[k - 1] \subseteq f[k]
    BY <1>2
  <2>2. \A i \in 0 .. k - 1 : f[i] \subseteq f[k - 1]
    BY <1>4
  <2>3. \A i \in 0 .. k : i = k \/ i \in 0 .. k - 1
    OBVIOUS
  <2>4. \A i \in 0 .. k : f[i] \subseteq f[k]
    BY <2>1, <2>2, <2>3
  <2>5. k \in 0 .. m
    OBVIOUS
  <2>6. IsFiniteSet(f[k])
    <3> DEFINE F == f[k - 1]
               x == IdAfter(s, from, k, F)
    <3>1. IsFiniteSet(F) /\ f[k] = F \cup {x}
      BY <1>2, <1>4
    <3> HIDE DEF F, x
    <3> QED BY <3>1, FS_AddElement
  <2> QED BY <2>4, <2>5, <2>6
<1>5. \A k \in 1 .. m : k - 1 \in S => k \in S
  BY <1>4
<1> HIDE DEF S
<1>6. \A k \in 0 .. m : k \in S
  BY <1>3, <1>5, HandedOn
<1>7. \A k \in 0 .. m : IsFiniteSet(f[k]) /\ \A i \in 0 .. k : f[i] \subseteq f[k]
  BY <1>6 DEF S
<1>8. ASSUME NEW i \in 0 .. m, NEW k \in 0 .. m, i <= k PROVE f[i] \subseteq f[k]
  <2>1. i \in 0 .. k
    BY <1>8
  <2> QED BY <1>7, <2>1
<1> QED BY <1>2, <1>7, <1>8

\* Each word has an ID of its own.
LEMMA TakenApart ==
  ASSUME NEW s, NEW L \in Nat, NEW m \in Nat, NEW from, Sourced(from, m, L), Apart(s, L),
         NEW first, Kept(first, s, from, m), IsFiniteSet(first), NEW f, Taking(f, s, from, first, m)
  PROVE  \A i, j \in 1 .. m : IdAfter(s, from, i, f[i - 1]) = IdAfter(s, from, j, f[j - 1]) => i = j
<1> DEFINE Id(n) == IdAfter(s, from, n, f[n - 1])
           Recycled(n) == from[n] # 0 /\ s[from[n]].id # <<>>
<1>1. /\ f[0] = first
      /\ \A k \in 1 .. m : f[k] = f[k - 1] \cup {Id(k)}
      /\ \A i, k \in 0 .. m : i <= k => f[i] \subseteq f[k]
      /\ \A k \in 0 .. m : IsFiniteSet(f[k])
  BY TakingGrows
<1>2. ASSUME NEW n \in 1 .. m
      PROVE  /\ n \in 0 .. m /\ n - 1 \in 0 .. m /\ 0 \in 0 .. m /\ 0 <= n - 1
             /\ Recycled(n) => Id(n) = s[from[n]].id /\ Id(n) \in first /\ from[n] \in 1 .. L
             /\ ~ Recycled(n) => Id(n) \notin f[n - 1]
             /\ Id(n) \in f[n]
  <2>1. n \in 0 .. m /\ n - 1 \in 0 .. m /\ 0 \in 0 .. m /\ 0 <= n - 1
    OBVIOUS
  <2>2. Recycled(n) => Id(n) = s[from[n]].id /\ Id(n) \in first /\ from[n] \in 1 .. L
    BY DEF IdAfter, Sourced, Kept
  <2>3. ~ Recycled(n) => Id(n) = NewId(n, f[n - 1])
    BY DEF IdAfter
  <2>4. IsFiniteSet(f[n - 1])
    BY <1>1, <2>1
  <2>5. NewId(n, f[n - 1]) \notin f[n - 1]
    BY <2>4, NewIdFree
  <2> HIDE DEF Id, Recycled
  <2>6. Id(n) \in f[n]
    BY <1>1
  <2> QED BY <2>1, <2>2, <2>3, <2>5, <2>6
<1>3. \A i, j \in 1 .. m : Recycled(i) /\ Recycled(j) /\ Id(i) = Id(j) => i = j
  <2>1. ASSUME NEW i \in 1 .. m, NEW j \in 1 .. m, Recycled(i), Recycled(j), Id(i) = Id(j) PROVE i = j
    <3>1. from[i] \in 1 .. L /\ from[j] \in 1 .. L /\ s[from[i]].id = s[from[j]].id
      <4> HIDE DEF Id, Recycled
      <4> QED BY <1>2, <2>1
    <3>2. from[i] = from[j]
      BY <3>1 DEF Apart
    <3> QED BY <2>1, <3>2 DEF Sourced
  <2> QED BY <2>1
<1> HIDE DEF Id, Recycled
<1>4. ASSUME NEW i \in 1 .. m, NEW j \in 1 .. m, i < j PROVE Id(i) # Id(j)
  <2>1. SUFFICES ASSUME Id(i) = Id(j) PROVE FALSE
    OBVIOUS
  <2>2. i <= j - 1
    BY <1>4
  <2>3. f[i] \subseteq f[j - 1] /\ first \subseteq f[i - 1]
    BY <1>1, <1>2, <2>2
  <2>4. Id(j) \in f[j - 1]
    BY <1>2, <2>1, <2>3
  <2>5. Recycled(j)
    BY <1>2, <2>4
  <2>6. Id(i) \in f[i - 1]
    BY <1>2, <2>1, <2>3, <2>5
  <2>7. Recycled(i)
    BY <1>2, <2>6
  <2> QED BY <1>3, <1>4, <2>1, <2>5, <2>7
<1>5. ASSUME NEW i \in 1 .. m, NEW j \in 1 .. m, Id(i) = Id(j) PROVE i = j
  <2>1. i < j \/ i = j \/ j < i
    OBVIOUS
  <2> QED BY <1>4, <1>5, <2>1
<1> QED BY <1>5 DEF Id

\* The Strings of a rebuilt line.
StringOf(s, word, origin, id) ==
  [tag |-> "String", content |-> word, id |-> id, subs |-> NoSubs,
   style |-> origin # 0 /\ s[origin].style, extra |-> FALSE, conf |-> FALSE]

EmittedBy(e, c, words, from, m, id) ==
  /\ e = [n \in 1 .. m |-> StringOf(Strings(c), words[n], from[n], id[n])]
  /\ Identified(c) => \A i, j \in 1 .. m : id[i] = id[j] => i = j

LEMMA EmittedFacts ==
  ASSUME NEW X, NEW c \in Seq(X), NEW words, Len(words) \in Nat, DOMAIN words = 1 .. Len(words),
         NEW from, Sourced(from, Len(words), Len(Strings(c)))
  PROVE  \E id : EmittedBy(Emitted(c, words, from), c, words, from, Len(words), id)
<1> DEFINE s == Strings(c)
           m == Len(words)
           L == Len(s)
           first == Reserved(c, Range(from) \ {0})
           f == CHOOSE f : Taking(f, s, from, first, m)
           id == [n \in 1 .. m |-> IdAfter(s, from, n, f[n - 1])]
<1>1. L \in Nat /\ DOMAIN s = 1 .. L /\ m \in Nat
  BY ByNumber
<1>2. Sourced(from, m, L) /\ from \in [1 .. m -> 0 .. L]
  BY DEF Sourced
<1>3. IsFiniteSet(first)
  <2> DEFINE K == Range(from) \ {0}
             T == {s[k].id : k \in K}
             g == [k \in K |-> s[k].id]
  <2>1. K \in SUBSET (1 .. L)
    BY <1>1, <1>2 DEF Range
  <2>2. IsFiniteSet(1 .. L)
    BY <1>1, FS_Interval
  <2>3. g \in Surjection(K, T)
    BY DEF Surjection
  <2>4. first \in SUBSET T
    BY DEF Reserved
  <2> HIDE DEF K, T, g
  <2>5. IsFiniteSet(K)
    BY <2>1, <2>2, FS_Subset
  <2>6. IsFiniteSet(T)
    BY <2>3, <2>5, FS_Surjection
  <2> QED BY <2>4, <2>6, FS_Subset
<1>4. Kept(first, s, from, m)
  <2>1. \A n \in 1 .. m : from[n] \in Range(from)
    BY <1>2 DEF Range
  <2> QED BY <2>1 DEF Reserved, Kept
<1>5. Emitted(c, words, from) = [n \in 1 .. m |-> StringOf(s, words[n], from[n], id[n])]
  BY DEF Emitted, StringOf, Taking, IdAfter
<1>6. \A n \in 1 .. m : id[n] = IdAfter(s, from, n, f[n - 1])
  OBVIOUS
<1>7. Taking(f, s, from, first, m)
  <2>1. \E g : Taking(g, s, from, first, m)
    <3> HIDE DEF first, s, m
    <3> QED BY <1>1, TakingDefined
  <2> QED BY <2>1
<1>8. Identified(c) => Apart(s, L)
  BY IdsApart DEF Apart
<1> HIDE DEF id, first, s, m, L, f
<1>9. ASSUME Identified(c)
      PROVE  \A i, j \in 1 .. m : IdAfter(s, from, i, f[i - 1]) = IdAfter(s, from, j, f[j - 1]) => i = j
  BY <1>1, <1>2, <1>3, <1>4, <1>7, <1>8, <1>9, TakenApart
<1>10. Identified(c) => \A i, j \in 1 .. m : id[i] = id[j] => i = j
  BY <1>6, <1>9
<1>11. EmittedBy(Emitted(c, words, from), c, words, from, m, id)
  BY <1>5, <1>10 DEF EmittedBy, s
<1> QED BY <1>11 DEF m

----
\* What follows the words of a rebuilt line has no String, and as many HYPs as the role
\* of the line leaves.
HypsLeft(c, m) == IF BreakLike(m) THEN 1 ELSE IF m.role = "PART2" THEN 0 ELSE Len(Hyps(c))

Follows(t, c, m) ==
  /\ Len(t) \in Nat /\ DOMAIN t = 1 .. Len(t) /\ t \in Seq(Range(t))
  /\ \A k \in 1 .. Len(t) : IsChild(t[k]) /\ t[k].tag # "String"
  /\ IsFiniteSet(AtTag(t, "HYP")) /\ Cardinality(AtTag(t, "HYP")) = HypsLeft(c, m)

LEMMA HyphenChild ==
  ASSUME NEW c, IsLine(c), NEW k \in 1 .. Len(Hyps(c))
  PROVE  IsChild(Hyps(c)[k]) /\ Hyps(c)[k].tag = "HYP" /\ Hyps(c)[k] \in Range(c)
<1>1. c \in Seq(Range(c)) /\ DOMAIN c = 1 .. Len(c) /\ \A i \in 1 .. Len(c) : IsChild(c[i])
  BY LineFacts
<1>2. Hyps(c)[k].tag = "HYP" /\ \E i \in DOMAIN c : Hyps(c)[k] = c[i]
  BY <1>1, HypsCount
<1> QED BY <1>1, <1>2 DEF Range

LEMMA OneAndOne ==
  ASSUME NEW a, NEW b
  PROVE  <<a>> \o <<b>> = <<a, b>>
<1> DEFINE s == <<a>> \o <<b>>
           X == {a, b}
<1>1. <<a>> \in Seq(X) /\ <<b>> \in Seq(X) /\ Len(<<a>>) = 1 /\ Len(<<b>>) = 1
  OBVIOUS
<1>2. s \in Seq(X) /\ Len(s) = 2 /\ s[1] = a /\ s[2] = b
  BY <1>1, ConcatProperties
<1> HIDE DEF s
<1>3. s = [i \in 1 .. Len(s) |-> s[i]]
  BY <1>2
<1>4. s = [i \in 1 .. 2 |-> s[i]] /\ \A i \in 1 .. 2 : s[i] = IF i = 1 THEN a ELSE b
  <2>1. \A i \in 1 .. 2 : i = 1 \/ i = 2
    OBVIOUS
  <2> QED BY <1>2, <1>3, <2>1
<1>5. <<a, b>> = [i \in 1 .. 2 |-> IF i = 1 THEN a ELSE b]
  OBVIOUS
<1> QED BY <1>4, <1>5 DEF s

LEMMA BreakFollows ==
  ASSUME NEW c, IsLine(c), NEW m, NEW space, NEW words
  PROVE  Follows(BreakAfter(c, m, space, words), c, m)
<1> DEFINE t == BreakAfter(c, m, space, words)
           H == Hyps(c)
<1>1. /\ c \in Seq(Range(c)) /\ Len(H) \in Nat
  BY LineFacts
<1>2. H \in Seq(Range(c)) /\ DOMAIN H = 1 .. Len(H)
  BY <1>1, HypsCount, LenProperties
<1>3. \A k \in 1 .. Len(H) : IsChild(H[k]) /\ H[k].tag = "HYP"
  BY HyphenChild
<1>4. CASE BreakLike(m)
  <2> DEFINE p == IF space /\ words # <<>> THEN <<Space>> ELSE <<>>
             h == Head(Append(H, Hyphen("-")))
             Y == {Space, h}
  <2>1. t = p \o <<h>>
    BY <1>4 DEF BreakAfter
  <2>2. IsChild(h) /\ h.tag = "HYP"
    <3>1. IsChild(Hyphen("-")) /\ Hyphen("-").tag = "HYP"
      BY DEF IsChild, IsHyphen, Hyphen, Char, Marks
    <3>2. CASE Len(H) = 0
      <4>1. H = <<>>
        BY <1>2, <3>2, EmptySeq
      <4>2. h = Hyphen("-")
        BY <4>1
      <4> QED BY <3>1, <4>2
    <3>3. CASE Len(H) # 0
      <4>1. 1 \in 1 .. Len(H)
        BY <1>1, <3>3
      <4>2. h = H[1]
        BY <1>1, <1>2, <4>1
      <4> QED BY <1>3, <4>1, <4>2
    <3> QED BY <3>2, <3>3
  <2>3. IsChild(Space) /\ Space.tag = "SP"
    BY DEF IsChild, Space
  <2>4. p = <<>> \/ p = <<Space>>
    OBVIOUS
  <2> HIDE DEF p, h, t
  <2>5. t = <<h>> \/ t = <<Space, h>>
    <3>1. <<>> \o <<h>> = <<h>>
      OBVIOUS
    <3>2. <<Space>> \o <<h>> = <<Space, h>>
      BY OneAndOne
    <3> QED BY <2>1, <2>4, <3>1, <3>2
  <2>8. HypsLeft(c, m) = 1
    BY <1>4 DEF HypsLeft
  <2>6. ASSUME t = <<h>> PROVE Follows(t, c, m)
    <3>1. t \in Seq(Y) /\ Len(t) = 1 /\ DOMAIN t = 1 .. 1 /\ t[1] = h
      BY <2>6
    <3>2. AtTag(t, "HYP") = {1}
      BY <2>2, <3>1 DEF AtTag
    <3>3. IsFiniteSet({1}) /\ Cardinality({1}) = 1
      BY FS_Singleton
    <3>4. t \in Seq(Range(t))
      BY <2>6, <3>1 DEF Range
    <3>5. \A k \in 1 .. Len(t) : IsChild(t[k]) /\ t[k].tag # "String"
      <4>1. \A k \in 1 .. Len(t) : k = 1
        BY <3>1
      <4> QED BY <2>2, <3>1, <4>1
    <3>6. Len(t) \in Nat /\ DOMAIN t = 1 .. Len(t)
      BY <3>1
    <3> QED BY <2>8, <3>2, <3>3, <3>4, <3>5, <3>6 DEF Follows
  <2>7. ASSUME t = <<Space, h>> PROVE Follows(t, c, m)
    <3>1. t \in Seq(Y) /\ Len(t) = 2 /\ DOMAIN t = 1 .. 2 /\ t[1] = Space /\ t[2] = h
      BY <2>7
    <3>2. AtTag(t, "HYP") = {2}
      BY <2>2, <2>3, <3>1 DEF AtTag
    <3>3. IsFiniteSet({2}) /\ Cardinality({2}) = 1
      BY FS_Singleton
    <3>4. t \in Seq(Range(t))
      <4>1. Space \in Range(t) /\ h \in Range(t)
        BY <3>1 DEF Range
      <4> QED BY <2>7, <4>1
    <3>5. \A k \in 1 .. Len(t) : IsChild(t[k]) /\ t[k].tag # "String"
      <4>1. \A k \in 1 .. Len(t) : k = 1 \/ k = 2
        BY <3>1
      <4> QED BY <2>2, <2>3, <3>1, <4>1
    <3>6. Len(t) \in Nat /\ DOMAIN t = 1 .. Len(t)
      BY <3>1
    <3> QED BY <2>8, <3>2, <3>3, <3>4, <3>5, <3>6 DEF Follows
  <2> QED BY <2>5, <2>6, <2>7 DEF t
<1>5. CASE ~ BreakLike(m) /\ m.role = "PART2"
  <2>1. t = <<>>
    BY <1>5 DEF BreakAfter
  <2>2. AtTag(<<>>, "HYP") = {}
    BY DEF AtTag
  <2>3. IsFiniteSet({}) /\ Cardinality({}) = 0
    BY FS_EmptySet
  <2>4. Len(t) = 0 /\ DOMAIN t = 1 .. Len(t) /\ t \in Seq(Range(t))
    BY <2>1
  <2>5. \A k \in 1 .. Len(t) : IsChild(t[k]) /\ t[k].tag # "String"
    BY <2>4
  <2>6. HypsLeft(c, m) = 0
    BY <1>5 DEF HypsLeft
  <2>7. IsFiniteSet(AtTag(t, "HYP")) /\ Cardinality(AtTag(t, "HYP")) = HypsLeft(c, m)
    BY <2>1, <2>2, <2>3, <2>6
  <2> HIDE DEF t
  <2>8. Follows(t, c, m)
    BY <2>4, <2>5, <2>7 DEF Follows
  <2> QED BY <2>8 DEF t
<1>6. CASE ~ BreakLike(m) /\ m.role # "PART2"
  <2>1. t = H
    BY <1>6 DEF BreakAfter
  <2>2. AtTag(H, "HYP") = 1 .. Len(H)
    BY <1>2, <1>3 DEF AtTag
  <2>3. IsFiniteSet(1 .. Len(H)) /\ Cardinality(1 .. Len(H)) = Len(H)
    <3> DEFINE n == Len(H)
    <3>1. n \in Nat
      BY <1>1
    <3> HIDE DEF n
    <3>2. IsFiniteSet(1 .. n) /\ Cardinality(1 .. n) = n
      BY <3>1, FS_Interval
    <3> QED BY <3>2 DEF n
  <2>4. H \in [1 .. Len(H) -> Range(H)]
    BY <1>2 DEF Range
  <2>5. H \in Seq(Range(H))
    BY <1>1, <2>4, FunIsSeq
  <2>6. \A k \in 1 .. Len(H) : IsChild(H[k]) /\ H[k].tag # "String"
    BY <1>3
  <2>7. Follows(H, c, m)
    BY <1>1, <1>2, <1>6, <2>2, <2>3, <2>5, <2>6 DEF Follows, HypsLeft
  <2> QED BY <2>1, <2>7
<1> QED BY <1>4, <1>5, <1>6

\* The words of a rebuilt line, with a space between two of them, and what follows them.
LEMMA RebuiltFacts ==
  ASSUME NEW N \in Nat, NEW e, DOMAIN e = 1 .. N, Len(e) = N,
         \A n \in 1 .. N : IsChild(e[n]) /\ e[n].tag = "String",
         NEW t, NEW c, NEW m, Follows(t, c, m), HypsLeft(c, m) \in Nat, HypsLeft(c, m) <= 1
  PROVE  LET r == Spaced(e) \o t
         IN  /\ IsLine(r) /\ Len(Hyps(r)) = HypsLeft(c, m)
             /\ Strings(r) = [n \in 1 .. N |-> e[n]] /\ Len(Strings(r)) = N
<1> DEFINE u == Spaced(e)
           r == u \o t
           B == IF N = 0 THEN 0 ELSE 2 * N - 1
           Y == Range(u) \cup Range(t)
<1>1. /\ Len(t) \in Nat /\ DOMAIN t = 1 .. Len(t) /\ t \in Seq(Range(t))
      /\ \A k \in 1 .. Len(t) : IsChild(t[k]) /\ t[k].tag # "String"
      /\ IsFiniteSet(AtTag(t, "HYP")) /\ Cardinality(AtTag(t, "HYP")) = HypsLeft(c, m)
  BY DEF Follows
<1>2. B \in Nat
  OBVIOUS
<1>3. /\ DOMAIN u = 1 .. B
      /\ \A i \in 1 .. B : u[i] = IF i % 2 = 1 THEN e[(i + 1) \div 2] ELSE Space
  <2>1. 1 .. 2 * N - 1 = 1 .. B
    OBVIOUS
  <2>2. u = [i \in 1 .. B |-> IF i % 2 = 1 THEN e[(i + 1) \div 2] ELSE Space]
    BY <2>1 DEF Spaced
  <2> QED BY <2>2
<1>4. u = [i \in 1 .. B |-> u[i]]
  <2>1. 1 .. 2 * N - 1 = 1 .. B
    OBVIOUS
  <2> QED BY <2>1 DEF Spaced
<1> HIDE DEF u
<1>5. u \in Seq(Range(u)) /\ Len(u) = B
  <2>1. u \in [1 .. B -> Range(u)]
    BY <1>3, <1>4 DEF Range
  <2> HIDE DEF B
  <2> QED BY <1>2, <2>1, FunIsSeq
<1>6. u \in Seq(Y) /\ t \in Seq(Y)
  BY <1>1, <1>5
<1> HIDE DEF Y, B
<1>7. /\ r \in Seq(Y) /\ Len(r) = B + Len(t)
      /\ \A i \in 1 .. Len(r) : r[i] = IF i <= B THEN u[i] ELSE t[i - B]
  BY <1>5, <1>6, ConcatProperties
<1> HIDE DEF r
<1>8. DOMAIN r = 1 .. Len(r) /\ Len(r) \in Nat
  BY <1>7, LenProperties
<1>9. ASSUME NEW i \in 1 .. B
      PROVE  /\ i \in 1 .. Len(r) /\ IsChild(r[i])
             /\ r[i].tag = "String" <=> i % 2 = 1
             /\ r[i].tag # "HYP"
             /\ i % 2 = 1 => (i + 1) \div 2 \in 1 .. N /\ r[i] = e[(i + 1) \div 2] /\ i = 2 * ((i + 1) \div 2) - 1
  <2>1. i \in 1 .. Len(r) /\ r[i] = u[i]
    BY <1>1, <1>2, <1>7
  <2>2. CASE i % 2 = 1
    <3>1. (i + 1) \div 2 \in 1 .. N /\ i = 2 * ((i + 1) \div 2) - 1
      BY <2>2 DEF B
    <3>2. r[i] = e[(i + 1) \div 2]
      BY <1>3, <2>1, <2>2
    <3> QED BY <2>1, <2>2, <3>1, <3>2
  <2>3. CASE i % 2 # 1
    <3>1. r[i] = Space
      BY <1>3, <2>1, <2>3
    <3> QED BY <2>1, <2>3, <3>1 DEF IsChild, Space
  <2> QED BY <2>2, <2>3
<1>10. ASSUME NEW i \in 1 .. Len(r), i \notin 1 .. B
       PROVE  i - B \in 1 .. Len(t) /\ r[i] = t[i - B] /\ IsChild(r[i]) /\ r[i].tag # "String"
  <2>1. i - B \in 1 .. Len(t) /\ ~ (i <= B)
    BY <1>1, <1>2, <1>7, <1>10
  <2> QED BY <1>1, <1>7, <2>1
<1>11. \A i \in 1 .. Len(r) : IsChild(r[i])
  BY <1>9, <1>10
<1> DEFINE at == [n \in 1 .. N |-> 2 * n - 1]
<1>12. Through(at, N, AtTag(r, "String"))
  <2>1. ASSUME NEW n \in 1 .. N
        PROVE  2 * n - 1 \in 1 .. B /\ (2 * n - 1) % 2 = 1 /\ ((2 * n - 1) + 1) \div 2 = n
    BY DEF B
  <2>2. \A n \in 1 .. N : at[n] \in AtTag(r, "String")
    BY <1>8, <1>9, <2>1 DEF AtTag
  <2>3. \A i, j \in 1 .. N : i < j => at[i] < at[j]
    OBVIOUS
  <2>4. \A x \in AtTag(r, "String") : \E n \in 1 .. N : at[n] = x
    <3>1. SUFFICES ASSUME NEW x \in AtTag(r, "String") PROVE \E n \in 1 .. N : at[n] = x
      OBVIOUS
    <3>2. x \in 1 .. Len(r) /\ r[x].tag = "String"
      BY <1>8 DEF AtTag
    <3>3. x \in 1 .. B
      BY <1>10, <3>2
    <3>4. (x + 1) \div 2 \in 1 .. N /\ x = 2 * ((x + 1) \div 2) - 1
      BY <1>9, <3>2, <3>3
    <3> QED BY <3>4
  <2>5. at \in [1 .. N -> AtTag(r, "String")]
    BY <2>2
  <2> HIDE DEF at
  <2> QED BY <2>3, <2>4, <2>5 DEF Through
<1>13. Strings(r) = [n \in 1 .. N |-> e[n]]
  <2>1. AtTag(r, "String") \in SUBSET DOMAIN r
    BY DEF AtTag
  <2>2. Strings(r) = Chosen(r, AtTag(r, "String"))
    BY DEF Strings, Tagged, AtTag
  <2> HIDE DEF at
  <2>3. Strings(r) = [n \in 1 .. N |-> r[at[n]]]
    BY <1>7, <1>12, <2>1, <2>2, ChosenIs
  <2>4. \A n \in 1 .. N : r[at[n]] = e[n]
    <3>1. ASSUME NEW n \in 1 .. N
          PROVE  2 * n - 1 \in 1 .. B /\ (2 * n - 1) % 2 = 1 /\ ((2 * n - 1) + 1) \div 2 = n
      BY DEF B
    <3>2. \A n \in 1 .. N : at[n] = 2 * n - 1
      BY DEF at
    <3> QED BY <1>9, <3>1, <3>2
  <2> QED BY <2>3, <2>4
<1>14. Len(Strings(r)) = N
  <2>1. Strings(r) \in [1 .. N -> {e[n] : n \in 1 .. N}]
    BY <1>13
  <2> QED BY <2>1, FunIsSeq
<1>15. Len(Hyps(r)) = HypsLeft(c, m)
  <2> DEFINE f == [k \in 1 .. Len(t) |-> B + k]
             Q == AtTag(t, "HYP")
  <2>1. Q \in SUBSET (1 .. Len(t))
    BY <1>1 DEF AtTag
  <2>2. \A k \in 1 .. Len(t) : f[k] = B + k
    OBVIOUS
  <2>3. \A i, j \in Q : f[i] = f[j] => i = j
    <3>1. \A i, j \in Q : f[i] = B + i /\ f[j] = B + j /\ i \in Int /\ j \in Int
      BY <2>1, <2>2
    <3> HIDE DEF f
    <3> QED BY <1>2, <3>1
  <2>4. ASSUME NEW k \in 1 .. Len(t) PROVE B + k \in 1 .. Len(r) /\ ~ (B + k <= B) /\ (B + k) - B = k
    BY <1>1, <1>2, <1>7
  <2>5. \A k \in 1 .. Len(t) : r[B + k] = t[k]
    BY <1>7, <2>4
  <2>6. AtTag(r, "HYP") = {f[k] : k \in Q}
    <3>1. \A k \in Q : f[k] \in AtTag(r, "HYP")
      BY <1>8, <2>1, <2>2, <2>4, <2>5 DEF AtTag
    <3>2. \A i \in AtTag(r, "HYP") : \E k \in Q : i = f[k]
      <4>1. SUFFICES ASSUME NEW i \in AtTag(r, "HYP") PROVE \E k \in Q : i = f[k]
        OBVIOUS
      <4>2. i \in 1 .. Len(r) /\ r[i].tag = "HYP"
        BY <1>8 DEF AtTag
      <4>3. i \notin 1 .. B
        BY <1>9, <4>2
      <4>4. i - B \in 1 .. Len(t) /\ r[i] = t[i - B]
        BY <1>10, <4>2, <4>3
      <4>5. i - B \in Q /\ i = f[i - B]
        BY <1>1, <1>2, <4>2, <4>4 DEF AtTag
      <4> QED BY <4>5
    <3> QED BY <3>1, <3>2
  <2> HIDE DEF f, Q
  <2>7. AtTag(r, "HYP") = Image(f, Q)
    BY <2>6 DEF Image
  <2>8. Cardinality(Image(f, Q)) = Cardinality(Q)
    BY <1>1, <2>1, <2>3, ImageCard
  <2>9. Len(Hyps(r)) = Cardinality(AtTag(r, "HYP"))
    BY <1>7, HypsCount
  <2> QED BY <1>1, <2>7, <2>8, <2>9 DEF Q
<1>16. r = [i \in 1 .. Len(r) |-> r[i]]
  BY <1>7, <1>8
<1>17. IsLine(r)
  BY <1>8, <1>11, <1>15, <1>16, LineOf
<1> QED BY <1>13, <1>14, <1>15, <1>17 DEF r, u

----
\* The walk of align_tokens back over its table: where it finds a match, where it goes.
CostAt(n, m, width, cost, i, j) ==
  IF RowLow(i, n, m, width) <= j /\ j <= RowHigh(i, n, m, width) THEN cost[<<i, j>>] ELSE Far
MatchAt(n, m, width, cost, alike, i, j) ==
  /\ i > 0 /\ j > 0
  /\ Matches(CostAt(n, m, width, cost, i, j), CostAt(n, m, width, cost, i - 1, j - 1), alike[<<i, j>>])
BackFrom(n, m, width, cost, alike, i, j) ==
  IF i = 0 /\ j = 0 THEN <<0, 0>>
  ELSE IF MatchAt(n, m, width, cost, alike, i, j) THEN <<i - 1, j - 1>>
  ELSE IF i > 0 /\ CostAt(n, m, width, cost, i, j) = CostAt(n, m, width, cost, i - 1, j) + Gap THEN <<i - 1, j>>
  ELSE <<i, j - 1>>
Backtrack(w, n, m, width, cost, alike) ==
  w = [k \in 0 .. n + m |->
         IF k = 0 THEN <<n, m>> ELSE BackFrom(n, m, width, cost, alike, w[k - 1][1], w[k - 1][2])]

LEMMA BackSteps ==
  ASSUME NEW n, NEW m, NEW width, NEW cost, NEW alike, NEW i \in Int, NEW j \in Int
  PROVE  LET b == BackFrom(n, m, width, cost, alike, i, j)
         IN  /\ b \in Int \X Int /\ b[1] <= i /\ b[2] <= j
             /\ MatchAt(n, m, width, cost, alike, i, j) => b[1] = i - 1 /\ b[2] = j - 1
<1> DEFINE b == BackFrom(n, m, width, cost, alike, i, j)
<1>1. CASE i = 0 /\ j = 0
  <2>1. b = <<0, 0>>
    BY <1>1 DEF BackFrom
  <2>2. ~ MatchAt(n, m, width, cost, alike, i, j)
    BY <1>1 DEF MatchAt
  <2> HIDE DEF b
  <2> QED BY <1>1, <2>1, <2>2 DEF b
<1>2. CASE MatchAt(n, m, width, cost, alike, i, j)
  <2>1. ~ (i = 0 /\ j = 0)
    BY <1>2 DEF MatchAt
  <2>2. b = <<i - 1, j - 1>>
    BY <1>2, <2>1 DEF BackFrom
  <2> HIDE DEF b
  <2> QED BY <2>2 DEF b
<1>3. CASE ~ (i = 0 /\ j = 0) /\ ~ MatchAt(n, m, width, cost, alike, i, j)
  <2>1. b = <<i - 1, j>> \/ b = <<i, j - 1>>
    BY <1>3 DEF BackFrom
  <2> HIDE DEF b
  <2> QED BY <1>3, <2>1 DEF b
<1> QED BY <1>1, <1>2, <1>3

LEMMA BacktrackDefined ==
  ASSUME NEW n \in Nat, NEW m \in Nat, NEW width, NEW cost, NEW alike
  PROVE  \E w : Backtrack(w, n, m, width, cost, alike)
<1> DEFINE X == Int \X Int
           N == n + m
           Go(p) == BackFrom(n, m, width, cost, alike, p[1], p[2])
           step == [q \in (1 .. N) \X X |-> Go(q[2])]
<1>1. \A p \in X : Go(p) \in X
  <2>1. ASSUME NEW p \in X PROVE Go(p) \in X
    <3>1. p[1] \in Int /\ p[2] \in Int
      OBVIOUS
    <3> QED BY <3>1, BackSteps
  <2> QED BY <2>1
<1>2. <<n, m>> \in X /\ N \in Nat
  OBVIOUS
<1> HIDE DEF X, Go
<1>3. step \in [(1 .. N) \X X -> X]
  BY <1>1
<1>4. \A k \in 1 .. N : \A p \in X : step[<<k, p>>] = Go(p)
  OBVIOUS
<1> HIDE DEF step, N
<1>5. PICK w \in [0 .. N -> X] : Rounds(w, <<n, m>>, step, N)
  BY <1>2, <1>3, RoundsDefined
<1>6. ASSUME NEW k \in 0 .. N
      PROVE  w[k] = IF k = 0 THEN <<n, m>> ELSE Go(w[k - 1])
  <2>1. w[k] = IF k = 0 THEN <<n, m>> ELSE step[<<k, w[k - 1]>>]
    BY <1>5 DEF Rounds
  <2>2. k # 0 => k \in 1 .. N /\ w[k - 1] \in X
    <3>1. k # 0 => k \in 1 .. N /\ k - 1 \in 0 .. N
      BY <1>2
    <3> QED BY <1>5, <3>1
  <2> QED BY <1>4, <2>1, <2>2
<1>7. w = [k \in 0 .. N |-> w[k]]
  BY <1>5
<1> QED BY <1>6, <1>7 DEF Backtrack, N, Go

\* It only goes down.
LEMMA BacktrackFalls ==
  ASSUME NEW n \in Nat, NEW m \in Nat, NEW width, NEW cost, NEW alike,
         NEW w, Backtrack(w, n, m, width, cost, alike)
  PROVE  /\ \A k \in 0 .. n + m : w[k][1] \in Int /\ w[k][2] \in Int
         /\ \A j, k \in 0 .. n + m : j < k =>
              /\ w[k][1] <= w[j][1] /\ w[k][2] <= w[j][2]
              /\ MatchAt(n, m, width, cost, alike, w[j][1], w[j][2]) =>
                   w[k][1] < w[j][1] /\ w[k][2] < w[j][2]
<1> DEFINE N == n + m
           M(j) == MatchAt(n, m, width, cost, alike, w[j][1], w[j][2])
           S == {k \in 0 .. N : /\ w[k] \in Int \X Int
                                /\ \A j \in 0 .. k : /\ w[j] \in Int \X Int
                                                     /\ w[k][1] <= w[j][1] /\ w[k][2] <= w[j][2]
                                                     /\ j < k /\ M(j) => w[k][1] < w[j][1] /\ w[k][2] < w[j][2]}
<1>1. \A k \in 0 .. N :
        w[k] = IF k = 0 THEN <<n, m>> ELSE BackFrom(n, m, width, cost, alike, w[k - 1][1], w[k - 1][2])
  BY DEF Backtrack
<1>2. N \in Nat
  OBVIOUS
<1> HIDE DEF M, N
<1>3. 0 \in S
  <2>1. w[0] = <<n, m>>
    BY <1>1, <1>2
  <2>2. \A j \in 0 .. 0 : j = 0
    OBVIOUS
  <2>3. w[0] \in Int \X Int /\ w[0][1] <= w[0][1] /\ w[0][2] <= w[0][2] /\ 0 \in 0 .. N
    BY <1>2, <2>1
  <2> QED BY <2>2, <2>3
<1>4. ASSUME NEW k \in 1 .. N, k - 1 \in S PROVE k \in S
  <2>1. /\ k \in 0 .. N /\ k - 1 \in 0 .. N /\ k # 0
    BY <1>2
  <2>2. w[k] = BackFrom(n, m, width, cost, alike, w[k - 1][1], w[k - 1][2])
    BY <1>1, <2>1
  <2>3. w[k - 1] \in Int \X Int
    BY <1>4
  <2>4. w[k - 1][1] \in Int /\ w[k - 1][2] \in Int
    BY <2>3
  <2>5. /\ w[k] \in Int \X Int /\ w[k][1] <= w[k - 1][1] /\ w[k][2] <= w[k - 1][2]
        /\ M(k - 1) => w[k][1] = w[k - 1][1] - 1 /\ w[k][2] = w[k - 1][2] - 1
    BY <2>2, <2>4, BackSteps DEF M
  <2>6. \A j \in 0 .. k - 1 : /\ w[j] \in Int \X Int
                              /\ w[k - 1][1] <= w[j][1] /\ w[k - 1][2] <= w[j][2]
                              /\ j < k - 1 /\ M(j) => w[k - 1][1] < w[j][1] /\ w[k - 1][2] < w[j][2]
    BY <1>4
  <2>7. ASSUME NEW j \in 0 .. k
        PROVE  /\ w[j] \in Int \X Int
               /\ w[k][1] <= w[j][1] /\ w[k][2] <= w[j][2]
               /\ j < k /\ M(j) => w[k][1] < w[j][1] /\ w[k][2] < w[j][2]
    <3>1. w[k][1] \in Int /\ w[k][2] \in Int
      BY <2>5
    <3>2. CASE j = k
      BY <2>5, <3>1, <3>2
    <3>3. CASE j = k - 1
      <4>1. M(j) => w[k][1] < w[j][1] /\ w[k][2] < w[j][2]
        BY <2>4, <2>5, <3>3
      <4> QED BY <2>3, <2>5, <3>3, <4>1
    <3>4. CASE j # k /\ j # k - 1
      <4>1. j \in 0 .. k - 1 /\ j < k - 1
        BY <3>4
      <4>2. /\ w[k - 1][1] <= w[j][1] /\ w[k - 1][2] <= w[j][2]
            /\ M(j) => w[k - 1][1] < w[j][1] /\ w[k - 1][2] < w[j][2]
        BY <2>6, <4>1
      <4>3. w[j] \in Int \X Int
        BY <2>6, <4>1
      <4> QED BY <2>4, <2>5, <3>1, <4>2, <4>3
    <3> QED BY <3>2, <3>3, <3>4
  <2> QED BY <2>1, <2>5, <2>7
<1>5. \A k \in 1 .. N : k - 1 \in S => k \in S
  BY <1>4
<1> HIDE DEF S
<1>6. \A k \in 0 .. N : k \in S
  BY <1>2, <1>3, <1>5, HandedOn
<1>7. ASSUME NEW k \in 0 .. N
      PROVE  /\ w[k] \in Int \X Int
             /\ \A j \in 0 .. k : /\ w[k][1] <= w[j][1] /\ w[k][2] <= w[j][2]
                                  /\ j < k /\ M(j) => w[k][1] < w[j][1] /\ w[k][2] < w[j][2]
  BY <1>6 DEF S
<1>8. ASSUME NEW j \in 0 .. N, NEW k \in 0 .. N, j < k
      PROVE  /\ w[k][1] <= w[j][1] /\ w[k][2] <= w[j][2]
             /\ M(j) => w[k][1] < w[j][1] /\ w[k][2] < w[j][2]
  <2>1. j \in 0 .. k
    BY <1>2, <1>8
  <2> QED BY <1>7, <1>8, <2>1
<1>9. \A k \in 0 .. N : w[k][1] \in Int /\ w[k][2] \in Int
  BY <1>7
<1> QED BY <1>8, <1>9 DEF M, N

\* A token is in one match at most, on either side.
OneToOne(pairs) == \A p, q \in pairs : p[1] = q[1] \/ p[2] = q[2] => p = q

LEMMA AlignedOnce ==
  ASSUME NEW n \in Nat, NEW m \in Nat, NEW band, NEW alike
  PROVE  /\ AlignTokens(n, m, band, alike).pairs \subseteq (1 .. n) \X (1 .. m)
         /\ OneToOne(AlignTokens(n, m, band, alike).pairs)
<1> DEFINE width == Effective(n, m, band)
           cost == CostOf(n, m, width, alike)
           w == CHOOSE w : Backtrack(w, n, m, width, cost, alike)
           V == {w[k] : k \in 0 .. n + m}
           pairs == {p \in (1 .. n) \X (1 .. m) : p \in V /\ MatchAt(n, m, width, cost, alike, p[1], p[2])}
<1>1. AlignTokens(n, m, band, alike).pairs = pairs
  BY DEF AlignTokens, Backtrack, BackFrom, MatchAt, CostAt
<1> HIDE DEF width, cost
<1>2. Backtrack(w, n, m, width, cost, alike)
  BY BacktrackDefined
<1> HIDE DEF w
<1>3. /\ \A k \in 0 .. n + m : w[k][1] \in Int /\ w[k][2] \in Int
      /\ \A j, k \in 0 .. n + m : j < k =>
           /\ MatchAt(n, m, width, cost, alike, w[j][1], w[j][2]) =>
                w[k][1] < w[j][1] /\ w[k][2] < w[j][2]
  BY <1>2, BacktrackFalls
<1>4. ASSUME NEW p \in pairs, NEW q \in pairs, p[1] = q[1] \/ p[2] = q[2] PROVE p = q
  <2>1. PICK j \in 0 .. n + m : p = w[j]
    OBVIOUS
  <2>2. PICK k \in 0 .. n + m : q = w[k]
    OBVIOUS
  <2>3. MatchAt(n, m, width, cost, alike, p[1], p[2]) /\ MatchAt(n, m, width, cost, alike, q[1], q[2])
    OBVIOUS
  <2> HIDE DEF pairs, V
  <2>4. p[1] \in Int /\ p[2] \in Int /\ q[1] \in Int /\ q[2] \in Int
    BY <1>3, <2>1, <2>2
  <2>5. ~ (j < k)
    <3>1. j < k => q[1] < p[1] /\ q[2] < p[2]
      BY <1>3, <2>1, <2>2, <2>3
    <3> QED BY <1>4, <2>4, <3>1
  <2>6. ~ (k < j)
    <3>1. k < j => p[1] < q[1] /\ p[2] < q[2]
      BY <1>3, <2>1, <2>2, <2>3
    <3> QED BY <1>4, <2>4, <3>1
  <2>7. j = k
    BY <2>5, <2>6
  <2> QED BY <2>1, <2>2, <2>7
<1>5. OneToOne(pairs)
  <2> HIDE DEF pairs
  <2> QED BY <1>4 DEF OneToOne
<1>6. pairs \subseteq (1 .. n) \X (1 .. m)
  OBVIOUS
<1> HIDE DEF pairs
<1> QED BY <1>1, <1>5, <1>6

\* Each word of a rebuilt line comes from a String of its own, or from none.
LEMMA OriginsFacts ==
  ASSUME NEW X, NEW c \in Seq(X), NEW words, Len(words) \in Nat, DOMAIN words = 1 .. Len(words)
  PROVE  Sourced(Origins(c, words), Len(words), Len(Strings(c)))
<1> DEFINE L == Len(Strings(c))
           m == Len(words)
           old == Contents(c)
           alike == [p \in (DOMAIN old) \X (DOMAIN words) |-> CharSimilarity(old[p[1]], words[p[2]])]
           pairs == AlignTokens(Len(old), Len(words), Max({Len(words), Len(old)}), alike).pairs
           from == Origins(c, words)
           To(n) == {0} \cup {p[1] : p \in {p \in pairs : p[2] = n}}
<1>1. L \in Nat /\ DOMAIN Strings(c) = 1 .. L
  BY ByNumber
<1>2. Len(old) = L
  <2>1. old \in [1 .. L -> {Strings(c)[k].content : k \in 1 .. L}]
    BY <1>1 DEF Contents
  <2> HIDE DEF old, L
  <2> QED BY <1>1, <2>1, FunIsSeq
<1>3. from = [n \in 1 .. m |-> Max(To(n))]
  BY DEF Origins
<1> HIDE DEF old, alike
<1>4. pairs \subseteq (1 .. L) \X (1 .. m) /\ OneToOne(pairs)
  BY <1>1, <1>2, AlignedOnce
<1> HIDE DEF pairs, L, m
<1>5. ASSUME NEW n \in 1 .. m
      PROVE  Max(To(n)) \in 0 .. L /\ (Max(To(n)) # 0 => \E p \in pairs : p[2] = n /\ p[1] = Max(To(n)))
  <2>1. \A x \in To(n) : x \in 0 .. L /\ (x # 0 => \E p \in pairs : p[2] = n /\ p[1] = x)
    BY <1>1, <1>4
  <2>2. 0 \in To(n)
    OBVIOUS
  <2> HIDE DEF To
  <2>3. To(n) \in SUBSET Nat /\ To(n) # {} /\ \A x \in To(n) : x <= L
    BY <2>1, <2>2
  <2>4. Max(To(n)) \in To(n)
    BY <1>1, <2>3, MaxOf
  <2> QED BY <2>1, <2>4
<1> HIDE DEF To, from
<1>6. from \in [1 .. m -> 0 .. L]
  BY <1>3, <1>5
<1>7. ASSUME NEW i \in 1 .. m, NEW j \in 1 .. m, from[i] = from[j], from[i] # 0 PROVE i = j
  <2>1. PICK p \in pairs : p[2] = i /\ p[1] = from[i]
    BY <1>3, <1>5, <1>7
  <2>2. PICK q \in pairs : q[2] = j /\ q[1] = from[j]
    BY <1>3, <1>5, <1>7
  <2>3. p = q
    BY <1>4, <1>7, <2>1, <2>2 DEF OneToOne
  <2> QED BY <2>1, <2>2, <2>3
<1> QED BY <1>6, <1>7 DEF Sourced, from, m, L

----
\* What a line spells.
Spelling(f, c, verbatim, m) == f = [k \in 0 .. m |-> IF k = 0 THEN <<>> ELSE After(f[k - 1], c[k], verbatim)]

LEMMA AfterTyped ==
  ASSUME NEW text \in TextType, NEW c, IsChild(c), NEW verbatim
  PROVE  After(text, c, verbatim) \in TextType
<1>1. text \in Seq(Char)
  BY DEF TextType
<1>2. Blank \in Char /\ "-" \in Char
  BY DEF Char, Marks
<1>3. ASSUME NEW x \in Char PROVE Append(text, x) \in TextType
  BY <1>1, AppendProperties DEF TextType
<1>4. CASE c.tag = "String"
  <2>1. c.content \in Seq(Char)
    BY <1>4 DEF IsChild, IsString, Space, TextType
  <2>2. text \o c.content \in Seq(Char)
    BY <1>1, <2>1, ConcatProperties
  <2> QED BY <1>4, <2>2 DEF After, TextType
<1>5. CASE c.tag = "HYP"
  <2>1. c.mark \in Char
    BY <1>5 DEF IsChild, IsHyphen, Space
  <2> DEFINE x == IF c.mark = Soft /\ ~ verbatim THEN "-" ELSE c.mark
  <2>2. x \in Char
    BY <1>2, <2>1
  <2> HIDE DEF x
  <2>3. Append(text, x) \in TextType
    BY <1>3, <2>2
  <2>4. After(text, c, verbatim) = IF Renders(text) THEN text ELSE Append(text, x)
    BY <1>5 DEF After, x
  <2> QED BY <2>3, <2>4
<1>6. CASE c = Space
  <2>1. After(text, c, verbatim) = Append(text, Blank)
    BY <1>6 DEF After, Space
  <2> QED BY <1>2, <1>3, <2>1
<1> QED BY <1>4, <1>5, <1>6 DEF IsChild

LEMMA SpelledTyped ==
  ASSUME NEW c, IsLine(c), NEW verbatim
  PROVE  Spelled(c, verbatim) \in TextType
<1> DEFINE N == Len(c)
           f == CHOOSE f : Spelling(f, c, verbatim, N)
           Go(k, text) == After(text, c[k], verbatim)
           step == [q \in (1 .. N) \X TextType |-> Go(q[1], q[2])]
<1>1. N \in Nat /\ \A k \in 1 .. N : IsChild(c[k])
  BY LineFacts
<1>2. Spelled(c, verbatim) = f[N]
  BY DEF Spelled, Spelling
<1>3. \A k \in 1 .. N : \A text \in TextType : Go(k, text) \in TextType
  BY <1>1, AfterTyped
<1> HIDE DEF N, Go
<1>4. step \in [(1 .. N) \X TextType -> TextType]
  BY <1>3
<1>5. \A k \in 1 .. N : \A text \in TextType : step[<<k, text>>] = Go(k, text)
  OBVIOUS
<1>6. <<>> \in TextType
  BY DEF TextType
<1> HIDE DEF step
<1>7. PICK g \in [0 .. N -> TextType] : Rounds(g, <<>>, step, N)
  BY <1>1, <1>4, <1>6, RoundsDefined
<1>8. ASSUME NEW k \in 0 .. N
      PROVE  g[k] = IF k = 0 THEN <<>> ELSE Go(k, g[k - 1])
  <2>1. g[k] = IF k = 0 THEN <<>> ELSE step[<<k, g[k - 1]>>]
    BY <1>7 DEF Rounds
  <2>2. k # 0 => k \in 1 .. N /\ g[k - 1] \in TextType
    <3>1. k # 0 => k \in 1 .. N /\ k - 1 \in 0 .. N
      BY <1>1
    <3> QED BY <1>7, <3>1
  <2> QED BY <1>5, <2>1, <2>2
<1>9. g = [k \in 0 .. N |-> g[k]]
  BY <1>7
<1>10. Spelling(g, c, verbatim, N)
  BY <1>8, <1>9 DEF Spelling, Go
<1>11. Spelling(f, c, verbatim, N)
  BY <1>10
<1> HIDE DEF f
<1>12. \A k \in 0 .. N : f[k] = IF k = 0 THEN <<>> ELSE Go(k, f[k - 1])
  BY <1>11 DEF Spelling, Go
<1> DEFINE S == {k \in 0 .. N : f[k] \in TextType}
<1>13. 0 \in S
  BY <1>1, <1>6, <1>12
<1>14. \A k \in 1 .. N : k - 1 \in S => k \in S
  <2>1. ASSUME NEW k \in 1 .. N, k - 1 \in S PROVE k \in S
    <3>1. k \in 0 .. N /\ k # 0
      BY <1>1
    <3>2. f[k] = Go(k, f[k - 1]) /\ f[k - 1] \in TextType
      BY <1>12, <2>1, <3>1
    <3> QED BY <1>3, <3>1, <3>2
  <2> QED BY <2>1
<1> HIDE DEF S
<1>15. \A k \in 0 .. N : k \in S
  BY <1>1, <1>13, <1>14, HandedOn
<1>16. N \in 0 .. N
  BY <1>1
<1> QED BY <1>2, <1>15, <1>16 DEF S

LEMMA StrippedTyped ==
  ASSUME NEW text \in TextType
  PROVE  Stripped(text) \in TextType
<1> DEFINE a == Trimmed(text, {Blank})
           b == Reverse(a)
           e == Trimmed(b, {Blank})
<1>1. a \in TextType
  BY TrimmedFacts
<1> HIDE DEF a
<1>2. b \in TextType
  BY <1>1, ReverseTyped
<1> HIDE DEF b
<1>3. e \in TextType
  BY <1>2, TrimmedFacts
<1>4. Stripped(text) = Reverse(e)
  BY DEF Stripped, a, b
<1> HIDE DEF e
<1> QED BY <1>3, <1>4, ReverseTyped

LEMMA CanonicalTyped ==
  ASSUME NEW c, IsLine(c)
  PROVE  Canonical(c) \in TextType
<1>1. Text(c) \in TextType
  BY SpelledTyped DEF Text
<1> QED BY <1>1, StrippedTyped DEF Canonical

LEMMA WriteTyped ==
  ASSUME NEW m, NEW text \in TextType
  PROVE  WriteText(m, text) \in TextType
<1> DEFINE t == Trimmed(text, {Blank})
<1>1. t \in TextType /\ Len(t) \in Nat
  BY TrimmedFacts
<1>2. Front(t) = SubSeq(t, 1, Len(t) - 1)
  BY DEF Front
<1> HIDE DEF t
<1>3. Front(t) \in TextType
  <2>1. CASE Len(t) = 0
    <3>1. Front(t) = <<>>
      BY <1>1, <1>2, <2>1, SubSeqEmpty DEF TextType
    <3> QED BY <3>1 DEF TextType
  <2>2. CASE Len(t) # 0
    <3>1. Cut(t, 0, Len(t) - 1) \in TextType
      <4>1. Len(t) - 1 \in Nat /\ 0 \in Nat /\ 0 <= Len(t) - 1 /\ Len(t) - 1 <= Len(t)
        BY <1>1, <2>2
      <4> QED BY <1>1, <4>1, CutFacts
    <3> QED BY <1>2, <3>1 DEF Cut
  <2> QED BY <2>1, <2>2
<1>4. WithoutMark(text) \in TextType
  BY <1>3 DEF WithoutMark, t
<1> QED BY <1>4 DEF WriteText

\* The words of a text.
LEMMA TokensTyped ==
  ASSUME NEW text \in TextType
  PROVE  LET w == Tokens(text)
         IN  /\ Len(w) \in Nat /\ DOMAIN w = 1 .. Len(w)
             /\ \A k \in 1 .. Len(w) : w[k] \in TextType
<1> DEFINE w == Tokens(text)
           S == Starts(text)
           n == Cardinality(S)
<1>1. text \in Seq(Char) /\ Len(text) \in Nat /\ DOMAIN text = 1 .. Len(text)
  BY TextLen
<1>2. S \in SUBSET DOMAIN text /\ \A i \in S : text[i] # Blank
  BY DEF Starts
<1>3. w = [k \in 1 .. n |-> WordFrom(text, Ordered(S)[k])]
  BY DEF Tokens
<1> HIDE DEF S, w
<1>4. S \in SUBSET Nat /\ IsFiniteSet(S)
  BY <1>1, <1>2, PositionsFinite
<1>5. n \in Nat /\ Ordered(S) \in [1 .. n -> S]
  BY <1>4, OrderedSorts
<1> HIDE DEF n
<1>6. ASSUME NEW i \in S PROVE WordFrom(text, i) \in TextType
  <2> DEFINE T == {k \in i .. Len(text) : \A h \in i .. k : text[h] # Blank}
             e == Max(T)
  <2>1. i \in 1 .. Len(text) /\ i \in Nat /\ text[i] # Blank
    BY <1>1, <1>2
  <2>2. i \in T
    BY <1>1, <2>1
  <2>3. T \in SUBSET Nat /\ \A x \in T : i <= x /\ x <= Len(text)
    BY <1>1, <2>1
  <2>4. WordFrom(text, i) = SubSeq(text, i, e)
    BY DEF WordFrom
  <2> HIDE DEF T
  <2>5. e \in T
    BY <1>1, <2>2, <2>3, MaxOf
  <2> HIDE DEF e
  <2>6. e \in Nat /\ i - 1 \in Nat /\ i - 1 <= e /\ e <= Len(text) /\ (i - 1) + 1 = i
    BY <2>1, <2>3, <2>5
  <2>7. Cut(text, i - 1, e) \in TextType
    BY <2>6, CutFacts
  <2> QED BY <2>4, <2>6, <2>7 DEF Cut
<1>7. w \in [1 .. n -> TextType]
  BY <1>3, <1>5, <1>6
<1>8. Len(w) = n /\ DOMAIN w = 1 .. n
  BY <1>5, <1>7, FunIsSeq
<1> QED BY <1>5, <1>7, <1>8 DEF w

----
\* What a write loses and what it says it lost.
Accounted(l, way, c, out) ==
  /\ l.extra = Cardinality(Extras(c)) - Cardinality(Extras(out))
  /\ l.style = Cardinality(Styles(c)) - Cardinality(Styles(out))
  /\ l.hyps = Max({0, Cardinality(AtTag(c, "HYP")) - Cardinality(AtTag(out, "HYP"))})
  /\ way = "slow_path" => l.subs >= Cardinality(Abbreviations(c)) - Cardinality(Abbreviations(out))

LEMMA CountsFinite ==
  ASSUME NEW X, NEW c \in Seq(X)
  PROVE  /\ IsFiniteSet(Extras(c)) /\ Cardinality(Extras(c)) \in Nat
         /\ IsFiniteSet(Styles(c)) /\ Cardinality(Styles(c)) \in Nat
         /\ IsFiniteSet(Abbreviations(c)) /\ Cardinality(Abbreviations(c)) \in Nat
         /\ Cardinality(AtTag(c, "HYP")) = Len(Hyps(c)) /\ Len(Hyps(c)) \in Nat
<1>1. Extras(c) \in SUBSET DOMAIN c /\ Styles(c) \in SUBSET DOMAIN c /\ Abbreviations(c) \in SUBSET DOMAIN c
  BY DEF Extras, Styles, Abbreviations
<1>2. IsFiniteSet(Extras(c)) /\ IsFiniteSet(Styles(c)) /\ IsFiniteSet(Abbreviations(c))
  BY <1>1, PositionsFinite
<1> QED BY <1>2, FS_CardinalityType, HypsCount

LEMMA AlikeAccounted ==
  ASSUME NEW c, IsLine(c), NEW out, IsLine(out), Alike(c, out), NEW m, NEW way, way # "slow_path", NEW from
  PROVE  /\ Identified(c) => Identified(out)
         /\ Accounted(Lost(c, m, way, from, out), way, c, out)
<1>1. c \in Seq(Range(c)) /\ out \in Seq(Range(out))
  BY LineFacts
<1>2. /\ Ids(out) = Ids(c) /\ Len(Strings(out)) = Len(Strings(c)) /\ AtTag(out, "HYP") = AtTag(c, "HYP")
      /\ Extras(out) = Extras(c) /\ Styles(out) = Styles(c)
  BY <1>1, AlikeSame
<1>3. /\ Cardinality(Extras(c)) \in Nat /\ Cardinality(Styles(c)) \in Nat /\ Cardinality(AtTag(c, "HYP")) \in Nat
  BY <1>1, CountsFinite
<1> DEFINE l == Lost(c, m, way, from, out)
<1>4. l.extra = 0 /\ l.style = 0 /\ l.hyps = 0
  BY DEF Lost
<1> HIDE DEF l
<1>5. Max({0, 0}) = 0
  BY MaxOfTwo
<1>6. \A x \in Nat : x - x = 0
  OBVIOUS
<1>7. Accounted(l, way, c, out)
  BY <1>2, <1>3, <1>4, <1>5, <1>6 DEF Accounted
<1>8. Identified(c) => Identified(out)
  BY <1>2 DEF Identified
<1> QED BY <1>7, <1>8 DEF l

\* The words that come from a String with a style keep it; the others are counted.
LEMMA StylesCounted ==
  ASSUME NEW L \in Nat, NEW N \in Nat, NEW from, Sourced(from, N, L), NEW A \in SUBSET (1 .. L)
  PROVE  Cardinality({k \in A : k \notin Range(from)})
           = Cardinality(A) - Cardinality({n \in 1 .. N : from[n] # 0 /\ from[n] \in A})
<1> DEFINE D == {n \in 1 .. N : from[n] # 0 /\ from[n] \in A}
           B == {k \in A : k \notin Range(from)}
           E == Image(from, D)
<1>1. from \in [1 .. N -> 0 .. L] /\ \A i, j \in 1 .. N : from[i] = from[j] /\ from[i] # 0 => i = j
  BY DEF Sourced
<1>2. D \in SUBSET (1 .. N) /\ \A i, j \in D : from[i] = from[j] => i = j
  BY <1>1
<1>3. A = B \cup E /\ B \cap E = {}
  <2>1. E \subseteq A
    BY DEF Image
  <2>2. \A k \in E : k \in Range(from)
    BY <1>1 DEF Image, Range
  <2>3. \A k \in A : k \in Range(from) => k \in E
    <3>1. \A k \in A : k \in Range(from) => \E n \in 1 .. N : from[n] = k /\ k # 0
      BY <1>1 DEF Range
    <3> QED BY <3>1 DEF Image
  <2> HIDE DEF E
  <2> QED BY <2>1, <2>2, <2>3
<1> HIDE DEF D
<1>4. Cardinality(E) = Cardinality(D) /\ IsFiniteSet(E)
  BY <1>2, ImageCard
<1>5. B \subseteq A
  OBVIOUS
<1> HIDE DEF B, E
<1>6. IsFiniteSet(1 .. L)
  BY FS_Interval
<1>7. IsFiniteSet(A)
  BY <1>6, FS_Subset
<1>8. IsFiniteSet(B)
  BY <1>5, <1>7, FS_Subset
<1>9. Cardinality(B \cup E) = Cardinality(B) + Cardinality(E) - Cardinality(B \cap E)
  BY <1>4, <1>8, FS_Union
<1>10. Cardinality({}) = 0
  BY FS_EmptySet
<1>11. Cardinality(B) \in Nat /\ Cardinality(E) \in Nat
  BY <1>4, <1>8, FS_CardinalityType
<1>12. Cardinality(A) = Cardinality(B) + Cardinality(E)
  BY <1>3, <1>9, <1>10, <1>11
<1>13. Cardinality(B) = Cardinality(A) - Cardinality(D)
  BY <1>4, <1>11, <1>12
<1> QED BY <1>13 DEF B, D

LEMMA StringOfChild ==
  ASSUME NEW s, NEW word \in TextType, NEW origin, NEW id
  PROVE  LET e == StringOf(s, word, origin, id)
         IN  /\ IsChild(e) /\ e.tag = "String" /\ e.id = id /\ ~ e.extra
             /\ e.style <=> origin # 0 /\ s[origin].style
<1> DEFINE v == origin # 0 /\ s[origin].style
           e == [tag |-> "String", content |-> word, id |-> id, subs |-> NoSubs,
                 style |-> v, extra |-> FALSE, conf |-> FALSE]
<1>1. v \in BOOLEAN
  OBVIOUS
<1>2. StringOf(s, word, origin, id) = e
  BY DEF StringOf
<1> HIDE DEF v
<1>3. /\ e.tag = "String" /\ e.content = word /\ e.id = id /\ e.subs = NoSubs
      /\ e.style = v /\ e.extra = FALSE /\ e.conf = FALSE
  OBVIOUS
<1>4. IsString(e)
  BY <1>1, <1>3 DEF IsString
<1>5. IsChild(e)
  BY <1>3, <1>4 DEF IsChild
<1> QED BY <1>2, <1>3, <1>5 DEF v

\* The rebuild of a line: its Strings come from the old ones one for one.
LEMMA RebuiltKeeps ==
  ASSUME NEW c, IsLine(c), NEW m, NEW space, NEW words, Len(words) \in Nat,
         DOMAIN words = 1 .. Len(words), \A k \in 1 .. Len(words) : words[k] \in TextType,
         NEW from, Sourced(from, Len(words), Len(Strings(c)))
  PROVE  LET r == Rebuilt(c, m, space, words, from)
         IN  /\ IsLine(r) /\ Len(Hyps(r)) = HypsLeft(c, m)
             /\ Identified(c) => Identified(r)
             /\ Cardinality(Extras(r)) = 0
             /\ Cardinality(Styles(r))
                  = Cardinality({n \in 1 .. Len(words) : from[n] # 0 /\ Strings(c)[from[n]].style})
<1> DEFINE s == Strings(c)
           N == Len(words)
           e == Emitted(c, words, from)
           t == BreakAfter(c, m, space, words)
           r == Rebuilt(c, m, space, words, from)
<1>1. c \in Seq(Range(c)) /\ Len(Hyps(c)) \in Nat /\ Len(Hyps(c)) <= 1
  BY LineFacts
<1>0. PICK id : EmittedBy(e, c, words, from, N, id)
  BY <1>1, EmittedFacts
<1>2. /\ e = [n \in 1 .. N |-> StringOf(s, words[n], from[n], id[n])]
      /\ Identified(c) => \A i, j \in 1 .. N : id[i] = id[j] => i = j
  BY <1>0 DEF EmittedBy
<1>3. r = Spaced(e) \o t
  BY DEF Rebuilt
<1>4. Follows(t, c, m)
  BY BreakFollows
<1>5. HypsLeft(c, m) \in Nat /\ HypsLeft(c, m) <= 1
  BY <1>1 DEF HypsLeft
<1>6. N \in Nat /\ \A k \in 1 .. N : words[k] \in TextType
  OBVIOUS
<1> HIDE DEF e, t, r, N, s
<1>7. DOMAIN e = 1 .. N /\ \A n \in 1 .. N : e[n] = StringOf(s, words[n], from[n], id[n])
  BY <1>2
<1>8. \A n \in 1 .. N : /\ IsChild(e[n]) /\ e[n].tag = "String" /\ e[n].id = id[n] /\ ~ e[n].extra
                        /\ e[n].style <=> from[n] # 0 /\ s[from[n]].style
  BY SMTT(30), <1>6, <1>7, StringOfChild
<1>9. Len(e) = N
  <2>1. e \in [1 .. N -> {e[n] : n \in 1 .. N}]
    BY <1>2
  <2> QED BY <1>6, <2>1, FunIsSeq
<1>10. /\ IsLine(r) /\ Len(Hyps(r)) = HypsLeft(c, m)
       /\ Strings(r) = [n \in 1 .. N |-> e[n]] /\ Len(Strings(r)) = N
  <2>1. \A n \in 1 .. N : IsChild(e[n]) /\ e[n].tag = "String"
    BY <1>8
  <2> QED BY <1>3, <1>4, <1>5, <1>6, <1>7, <1>9, <2>1, RebuiltFacts
<1>11. r \in Seq(Range(r))
  BY <1>10, LineFacts
<1>12. DOMAIN Strings(r) = 1 .. N /\ \A n \in 1 .. N : Strings(r)[n] = e[n]
  BY <1>10
<1>13. Identified(c) => Identified(r)
  <2>1. ASSUME Identified(c) PROVE \A i, j \in 1 .. N : Strings(r)[i].id = Strings(r)[j].id => i = j
    BY <1>2, <1>8, <1>12, <2>1
  <2> QED BY <1>10, <1>11, <2>1, IdsApart
<1>14. Cardinality(Extras(r)) = 0
  <2>1. {k \in DOMAIN Strings(r) : Strings(r)[k].extra} = {}
    BY <1>8, <1>12
  <2>2. Cardinality({}) = 0
    BY FS_EmptySet
  <2>3. Cardinality(Extras(r)) = Cardinality({k \in DOMAIN Strings(r) : Strings(r)[k].extra})
    BY <1>11, ByNumber
  <2> QED BY <2>1, <2>2, <2>3
<1>15. Cardinality(Styles(r)) = Cardinality({n \in 1 .. N : from[n] # 0 /\ s[from[n]].style})
  <2>1. {k \in DOMAIN Strings(r) : Strings(r)[k].style} = {n \in 1 .. N : from[n] # 0 /\ s[from[n]].style}
    BY <1>8, <1>12
  <2>2. Cardinality(Styles(r)) = Cardinality({k \in DOMAIN Strings(r) : Strings(r)[k].style})
    BY <1>11, ByNumber
  <2> QED BY <2>1, <2>2
<1> QED BY <1>10, <1>13, <1>14, <1>15 DEF r, N, s

\* And what it says it lost is what it lost.
LEMMA RebuiltAccounted ==
  ASSUME NEW c, IsLine(c), NEW m, NEW space, NEW words, Len(words) \in Nat,
         DOMAIN words = 1 .. Len(words), \A k \in 1 .. Len(words) : words[k] \in TextType,
         NEW from, Sourced(from, Len(words), Len(Strings(c)))
  PROVE  LET out == ApplySubs(Rebuilt(c, m, space, words, from), m)
         IN  /\ IsLine(out) /\ (Identified(c) => Identified(out))
             /\ Accounted(Lost(c, m, "slow_path", from, out), "slow_path", c, out)
<1> DEFINE s == Strings(c)
           N == Len(words)
           L == Len(s)
           r == Rebuilt(c, m, space, words, from)
           out == ApplySubs(r, m)
           l == Lost(c, m, "slow_path", from, out)
           A == {k \in DOMAIN s : s[k].style}
<1>1. c \in Seq(Range(c)) /\ Len(Hyps(c)) \in Nat /\ Len(Hyps(c)) <= 1
  BY LineFacts
<1>2. L \in Nat /\ N \in Nat /\ DOMAIN s = 1 .. L
  BY <1>1, ByNumber
<1>3. /\ IsLine(r) /\ Len(Hyps(r)) = HypsLeft(c, m)
      /\ Identified(c) => Identified(r)
      /\ Cardinality(Extras(r)) = 0
      /\ Cardinality(Styles(r)) = Cardinality({n \in 1 .. N : from[n] # 0 /\ s[from[n]].style})
  BY RebuiltKeeps
<1>4. /\ l.extra = Cardinality({k \in DOMAIN s : s[k].extra})
      /\ l.style = Cardinality({k \in DOMAIN s : s[k].style /\ k \notin Range(from)})
      /\ l.subs = Cardinality({k \in DOMAIN s : s[k].subs.type \notin {"", Wanted(m).type, WantedAhead(m).type}})
      /\ l.hyps = IF m.role = "PART2" THEN Len(Hyps(c)) ELSE 0
  BY DEF Lost
<1> HIDE DEF r, l
<1>5. IsLine(out) /\ Alike(r, out)
  BY <1>3, ApplySubsFacts
<1> HIDE DEF out
<1>6. r \in Seq(Range(r)) /\ out \in Seq(Range(out))
  BY <1>3, <1>5, LineFacts
<1>7. /\ Ids(out) = Ids(r) /\ Len(Strings(out)) = Len(Strings(r)) /\ Len(Hyps(out)) = Len(Hyps(r))
      /\ Extras(out) = Extras(r) /\ Styles(out) = Styles(r)
  BY <1>5, <1>6, AlikeSame
<1>8. Identified(c) => Identified(out)
  BY <1>3, <1>7 DEF Identified
<1>9. /\ Cardinality(Extras(c)) = Cardinality({k \in DOMAIN s : s[k].extra})
      /\ Cardinality(Styles(c)) = Cardinality(A)
      /\ Cardinality(Abbreviations(c)) = Cardinality({k \in DOMAIN s : s[k].subs.type = "Abbreviation"})
  BY <1>1, ByNumber
<1>10. /\ Cardinality(Extras(c)) \in Nat /\ Cardinality(Abbreviations(c)) \in Nat
       /\ Cardinality(AtTag(c, "HYP")) = Len(Hyps(c))
       /\ Cardinality(Abbreviations(out)) \in Nat
       /\ Cardinality(AtTag(out, "HYP")) = Len(Hyps(out))
  BY <1>1, <1>6, CountsFinite
<1>11. l.extra = Cardinality(Extras(c)) - Cardinality(Extras(out))
  <2>1. Cardinality(Extras(out)) = 0
    BY <1>3, <1>7
  <2>2. l.extra = Cardinality(Extras(c))
    BY <1>4, <1>9
  <2> QED BY <1>10, <2>1, <2>2
<1>12. l.style = Cardinality(Styles(c)) - Cardinality(Styles(out))
  <2>1. A \in SUBSET (1 .. L)
    BY <1>2
  <2>2. {k \in A : k \notin Range(from)} = {k \in DOMAIN s : s[k].style /\ k \notin Range(from)}
    OBVIOUS
  <2>3. {n \in 1 .. N : from[n] # 0 /\ from[n] \in A} = {n \in 1 .. N : from[n] # 0 /\ s[from[n]].style}
    <3>1. \A n \in 1 .. N : from[n] # 0 => from[n] \in DOMAIN s
      BY <1>2 DEF Sourced
    <3> QED BY <3>1
  <2> HIDE DEF A, N, L, s
  <2>4. Sourced(from, N, L)
    BY DEF N, L, s
  <2>5. Cardinality({k \in A : k \notin Range(from)})
          = Cardinality(A) - Cardinality({n \in 1 .. N : from[n] # 0 /\ from[n] \in A})
    BY <1>2, <2>1, <2>4, StylesCounted
  <2> QED BY <1>3, <1>4, <1>7, <1>9, <2>2, <2>3, <2>5
<1>13. l.hyps = Max({0, Cardinality(AtTag(c, "HYP")) - Cardinality(AtTag(out, "HYP"))})
  <2> DEFINE x == Len(Hyps(c))
             d == x - HypsLeft(c, m)
  <2>1. x \in Nat /\ x <= 1 /\ Cardinality(AtTag(c, "HYP")) - Cardinality(AtTag(out, "HYP")) = d
    BY <1>1, <1>3, <1>7, <1>10
  <2>2. /\ d \in Int
        /\ m.role = "PART2" => d = x
        /\ m.role # "PART2" => d <= 0
        /\ BreakLike(m) => m.role # "PART2"
    <3>1. BreakLike(m) => m.role # "PART2"
      BY DEF BreakLike, Opens
    <3>2. HypsLeft(c, m) = IF BreakLike(m) THEN 1 ELSE IF m.role = "PART2" THEN 0 ELSE x
      BY DEF HypsLeft
    <3> HIDE DEF x
    <3> QED BY <2>1, <3>1, <3>2
  <2>3. l.hyps = IF m.role = "PART2" THEN x ELSE 0
    BY <1>4
  <2> HIDE DEF x, d
  <2>4. Max({0, d}) \in Int /\ 0 <= Max({0, d}) /\ d <= Max({0, d}) /\ (Max({0, d}) = 0 \/ Max({0, d}) = d)
    <3>1. 0 \in Int
      OBVIOUS
    <3> QED BY <2>2, <3>1, MaxOfTwo
  <2>5. Max({0, d}) = IF m.role = "PART2" THEN x ELSE 0
    BY <2>1, <2>2, <2>4
  <2> QED BY <2>1, <2>3, <2>5
<1>14. l.subs >= Cardinality(Abbreviations(c)) - Cardinality(Abbreviations(out))
  <2> DEFINE P == {k \in DOMAIN s : s[k].subs.type = "Abbreviation"}
             Q == {k \in DOMAIN s : s[k].subs.type \notin {"", Wanted(m).type, WantedAhead(m).type}}
  <2>1. Wanted(m).type \in {"", "HypPart1", "HypPart2"} /\ WantedAhead(m).type \in {"", "HypPart1", "HypPart2"}
    BY DEF Wanted, WantedAhead, NoSubs
  <2>2. P \in SUBSET Q
    BY <2>1
  <2>3. Q \in SUBSET (1 .. L)
    BY <1>2
  <2>4. Cardinality(Abbreviations(c)) = Cardinality(P) /\ l.subs = Cardinality(Q)
    BY <1>4, <1>9
  <2> HIDE DEF P, Q, L
  <2>5. IsFiniteSet(1 .. L)
    BY <1>2, FS_Interval
  <2>6. IsFiniteSet(Q)
    BY <2>3, <2>5, FS_Subset
  <2>7. IsFiniteSet(P) /\ Cardinality(P) <= Cardinality(Q)
    BY <2>2, <2>6, FS_Subset
  <2>8. Cardinality(P) \in Nat /\ Cardinality(Q) \in Nat
    BY <2>6, <2>7, FS_CardinalityType
  <2> QED BY <1>10, <2>4, <2>7, <2>8
<1>15. Accounted(l, "slow_path", c, out)
  BY <1>11, <1>12, <1>13, <1>14 DEF Accounted
<1> QED BY <1>5, <1>8, <1>15 DEF l, out, r

\* Whatever way a line is written.
LEMMA WriteKeeps ==
  ASSUME NEW c, IsLine(c), NEW m, NEW text \in TextType, NEW way, way = PathOf(c, m, text),
         NEW from, from = IF way = "slow_path" THEN Origins(c, Tokens(WriteText(m, text))) ELSE <<>>
  PROVE  LET out == Rewritten(c, m, text, way, from)
         IN  /\ IsLine(out) /\ (Identified(c) => Identified(out))
             /\ Accounted(Lost(c, m, way, from, out), way, c, out)
<1> DEFINE words == Tokens(WriteText(m, text))
           out == Rewritten(c, m, text, way, from)
<1>1. /\ Len(words) \in Nat /\ DOMAIN words = 1 .. Len(words)
      /\ \A k \in 1 .. Len(words) : words[k] \in TextType
  BY WriteTyped, TokensTyped
<1>2. c \in Seq(Range(c))
  BY LineFacts
<1>3. CASE way = "untouched"
  <2>1. out = c
    BY <1>3 DEF Rewritten
  <2>2. Alike(c, c)
    BY DEF Alike
  <2> HIDE DEF out
  <2>3. (Identified(c) => Identified(out)) /\ Accounted(Lost(c, m, way, from, out), way, c, out)
    BY <1>3, <2>1, <2>2, AlikeAccounted
  <2> QED BY <2>1, <2>3 DEF out
<1>4. CASE way = "subs_only"
  <2>1. out = ApplySubs(c, m)
    BY <1>4 DEF Rewritten
  <2> HIDE DEF out
  <2>2. IsLine(out) /\ Alike(c, out)
    BY <2>1, ApplySubsFacts
  <2>3. (Identified(c) => Identified(out)) /\ Accounted(Lost(c, m, way, from, out), way, c, out)
    BY <1>4, <2>2, AlikeAccounted
  <2> QED BY <2>2, <2>3 DEF out
<1>5. CASE way = "fast_path"
  <2> DEFINE mid == InPlace(c, words)
  <2>1. out = ApplySubs(mid, m)
    BY <1>5 DEF Rewritten
  <2>2. Len(words) = Len(Strings(c))
    BY <1>5 DEF PathOf, WordForWord
  <2> HIDE DEF out, words
  <2>3. IsLine(mid) /\ Alike(c, mid)
    BY <1>1, <2>2, InPlaceFacts
  <2> HIDE DEF mid
  <2>4. IsLine(out) /\ Alike(mid, out)
    BY <2>1, <2>3, ApplySubsFacts
  <2>5. Alike(c, out)
    BY <2>3, <2>4, AlikeTwice
  <2>6. (Identified(c) => Identified(out)) /\ Accounted(Lost(c, m, way, from, out), way, c, out)
    BY <1>5, <2>4, <2>5, AlikeAccounted
  <2> QED BY <2>4, <2>6 DEF out
<1>6. CASE way = "slow_path"
  <2>1. out = ApplySubs(Rebuilt(c, m, SpaceBefore(m, text), words, from), m)
    BY <1>6 DEF Rewritten
  <2>2. from = Origins(c, words)
    BY <1>6
  <2> HIDE DEF out, words
  <2>3. Sourced(from, Len(words), Len(Strings(c)))
    BY <1>1, <1>2, <2>2, OriginsFacts
  <2>4. /\ IsLine(out) /\ (Identified(c) => Identified(out))
        /\ Accounted(Lost(c, m, "slow_path", from, out), "slow_path", c, out)
    BY <1>1, <2>1, <2>3, RebuiltAccounted
  <2> QED BY <1>6, <2>4 DEF out
<1>7. way \in {"untouched", "subs_only", "fast_path", "slow_path"}
  BY DEF PathOf
<1> QED BY <1>3, <1>4, <1>5, <1>6, <1>7

----
LEMMA LossesAre ==
  /\ LossesCounted <=> (pc = "written" => Accounted(lost, path, source, el))
  /\ LossesCounted' <=> (pc' = "written" => Accounted(lost', path', source', el'))
<1>1. LossesCounted <=> (pc = "written" => Accounted(lost, path, source, el))
  BY DEF LossesCounted, Gone, Accounted, AtTag, Extras, Styles, Abbreviations
<1>2. LossesCounted' <=> (pc' = "written" => Accounted(lost', path', source', el'))
  BY DEF LossesCounted, Gone, Accounted, AtTag, Extras, Styles, Abbreviations
<1> QED BY <1>1, <1>2

\* The line and the tree are lines, and the tree is the line until it is written.
RewriteInv ==
  /\ IsLine(source) /\ IsLine(el) /\ decided \in TextType
  /\ run = 1 => source \in Lines
  /\ pc # "written" => el = source
  /\ IdsDistinct /\ LossesCounted

LEMMA LineGiven ==
  ASSUME NEW line \in Lines
  PROVE  IsLine(line) /\ Proposals(line) \subseteq TextType
BY RewriteAssumption

LEMMA RewriteInit == Init => RewriteInv
<1> SUFFICES ASSUME Init PROVE RewriteInv
  OBVIOUS
<1>1. source \in Lines /\ el = source /\ decided = <<>> /\ pc = "parsed"
  BY DEF Init
<1>2. IsLine(source) /\ IsLine(el)
  BY <1>1, LineGiven
<1>3. decided \in TextType
  BY <1>1 DEF TextType
<1>4. IdsDistinct
  BY <1>1 DEF IdsDistinct
<1>5. LossesCounted
  BY <1>1, LossesAre
<1> QED BY <1>1, <1>2, <1>3, <1>4, <1>5 DEF RewriteInv

\* A step that writes nothing.
LEMMA NothingWritten ==
  ASSUME RewriteInv, source' = source, el' = el, run' = run, pc # "written", pc' # "written",
         decided' \in TextType
  PROVE  RewriteInv'
<1>1. IdsDistinct'
  BY DEF RewriteInv, IdsDistinct
<1>2. LossesCounted'
  BY LossesAre
<1>3. IsLine(source') /\ IsLine(el') /\ (run' = 1 => source' \in Lines) /\ el' = source'
  BY DEF RewriteInv
<1> QED BY <1>1, <1>2, <1>3 DEF RewriteInv

LEMMA SourceDecided ==
  ASSUME RewriteInv
  PROVE  /\ Canonical(source) \in TextType
         /\ \A text \in TextType : PreserveBreak(Canonical(source), text) \in TextType
<1>1. Canonical(source) \in TextType
  BY CanonicalTyped DEF RewriteInv
<1> QED BY <1>1, PreserveTyped

LEMMA RewriteStep ==
  ASSUME RewriteInv, Rewrite
  PROVE  RewriteInv'
<1>1. /\ pc = "decided" /\ pc' = "written" /\ source' = source /\ decided' = decided /\ run' = run
  BY DEF Rewrite
<1>2. /\ IsLine(source) /\ el = source /\ decided \in TextType /\ (run = 1 => source \in Lines)
  BY <1>1 DEF RewriteInv
<1>3. PICK way \in {PathOf(el, lm, decided)} :
      \E from \in {IF way = "slow_path" THEN Origins(el, Tokens(WriteText(lm, decided))) ELSE <<>>} :
      \E out \in {Rewritten(el, lm, decided, way, from)} :
        el' = out /\ path' = way /\ lost' = Lost(el, lm, way, from, out)
  BY DEF Rewrite
<1>4. PICK from : /\ from = IF way = "slow_path" THEN Origins(el, Tokens(WriteText(lm, decided))) ELSE <<>>
                  /\ el' = Rewritten(el, lm, decided, way, from) /\ path' = way
                  /\ lost' = Lost(el, lm, way, from, el')
  BY <1>3
<1>5. way = PathOf(el, lm, decided)
  BY <1>3
<1>6. /\ IsLine(el') /\ (Identified(el) => Identified(el'))
      /\ Accounted(lost', path', el, el')
  BY <1>2, <1>4, <1>5, WriteKeeps
<1>7. LossesCounted'
  BY <1>1, <1>2, <1>6, LossesAre
<1>8. IdsDistinct'
  BY <1>1, <1>2, <1>6 DEF IdsDistinct
<1> QED BY <1>1, <1>2, <1>6, <1>7, <1>8 DEF RewriteInv

LEMMA RewriteNext == RewriteInv /\ [Next]_vars => RewriteInv'
<1> SUFFICES ASSUME RewriteInv, [Next]_vars PROVE RewriteInv'
  OBVIOUS
<1>1. CASE Link
  BY <1>1, NothingWritten DEF Link, RewriteInv
<1>2. CASE Fall
  BY <1>2, SourceDecided, NothingWritten DEF Fall
<1>3. CASE Refuse
  BY <1>3, SourceDecided, NothingWritten DEF Refuse
<1>4. CASE Accept
  <2>1. PICK text \in Proposals(source) : decided' = PreserveBreak(Canonical(source), text)
    BY <1>4 DEF Accept
  <2>2. source \in Lines
    BY <1>4 DEF Accept, RewriteInv
  <2>3. decided' \in TextType
    BY <2>1, <2>2, LineGiven, SourceDecided
  <2> QED BY <1>4, <2>3, NothingWritten DEF Accept
<1>5. CASE Rewrite
  BY <1>5, RewriteStep
<1>6. CASE Again
  <2>1. run' = 2 /\ source' = el /\ el' = el /\ decided' = decided /\ pc' = "linked"
    BY <1>6 DEF Again
  <2>2. IdsDistinct'
    BY <2>1 DEF IdsDistinct
  <2>3. LossesCounted'
    BY <2>1, LossesAre
  <2> QED BY <2>1, <2>2, <2>3 DEF RewriteInv
<1>7. CASE DecideAgain
  <2>1. decided \in TextType
    BY DEF RewriteInv
  <2> QED BY <1>7, <2>1, SourceDecided, NothingWritten DEF DecideAgain
<1>8. CASE UNCHANGED vars
  <2>1. IdsDistinct'
    BY <1>8 DEF vars, RewriteInv, IdsDistinct
  <2>2. LossesCounted'
    BY <1>8, LossesAre DEF vars, RewriteInv
  <2> QED BY <1>8, <2>1, <2>2 DEF vars, RewriteInv
<1> QED BY <1>1, <1>2, <1>3, <1>4, <1>5, <1>6, <1>7, <1>8 DEF Next

\* When every String of a line has an ID of its own, every String of the written line
\* has: an ID recycled by a rebuild goes to one word, and a new one is none of those
\* taken (_rebuild_line, _emit_string), on whatever path and over both runs.
THEOREM IdsStayDistinct == Spec => []IdsDistinct
<1>1. RewriteInv => IdsDistinct
  BY DEF RewriteInv
<1> QED BY <1>1, RewriteInit, RewriteNext, PTL DEF Spec

\* The counters of the report say what the written line has no more: its references,
\* its styles and its HYPs exactly, the abbreviations of a rebuilt line at least
\* (_semantic_attr_losses, _add_alignment_scoped_losses).
THEOREM LossesAreCounted == Spec => []LossesCounted
<1>1. RewriteInv => LossesCounted
  BY DEF RewriteInv
<1> QED BY <1>1, RewriteInit, RewriteNext, PTL DEF Spec

====
