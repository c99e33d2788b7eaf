---- MODULE PairingProofs ----
(***************************************************************************)
(* What the linker leaves, proved for any lines, pages, files and answers  *)
(* of the pairing policy: LinkedOnce, BreaksAccounted, Resolves and        *)
(* OwnMarkup of Pairing.                                                   *)
(*                                                                         *)
(* The first three follow from one fact of the walks: a link joins         *)
(* consecutive lines of text.  Two words can then neither meet on a line   *)
(* nor cross, and the line the walk has come to has no link yet that it    *)
(* could overwrite, but for the head of a seam.                            *)
(***************************************************************************)
EXTENDS Pairing, SequenceTheorems, TLAPS

Pages == 1 .. NPages
Names == {<<>>} \cup {<<Declared[p]>> : p \in Pages} \cup {<<FileOf[p], Declared[p]>> : p \in Pages}
Slots == Lines \cup {0}
Spellings == Int
Manifests == [role : Roles, pair : Slots, pairPage : Names, fwd : Slots, fwdPage : Names,
              srcExp : BOOLEAN, fwdExp : BOOLEAN, subs : Spellings, fsubs : Spellings]

Types ==
  /\ phase \in {"link", "rename", "seams", "linked"}
  /\ at \in Int
  /\ source \in [Lines -> LineSources]
  /\ name \in [Pages -> Names]
  /\ lm \in [Lines -> Manifests]
  /\ \A l \in Lines : lm[l].role # "BOTH" => lm[l].fwd = 0
  /\ \A l \in Lines : lm[l].role = "NONE" => lm[l].pair = 0

\* Lines of text with no text between.
Consecutive(t, h) ==
  /\ t < h /\ Substantive(t) /\ Substantive(h)
  /\ \A m \in Lines : t < m /\ m < h => ~Substantive(m)

\* The head of a seam, by the lines it joins.
Seamed(h) == \E t \in Lines : Backward(h) = t /\ PageOf[t] # PageOf[h]

Linked ==
  /\ \A t, h \in Lines : Forward(t) = h => Consecutive(t, h) /\ Backward(h) = t
  /\ \A t, h \in Lines : Backward(h) = t => Consecutive(t, h) /\ (Forward(t) = h \/ Seamed(t))

\* The walk down a page has not linked what is ahead of it.
NothingAhead == phase = "link" => \A l \in Lines : l > at => Forward(l) = 0

\* A link's page id is the one of the page it leads to, that of its own line as long
\* as only pages are walked.
Referring ==
  /\ \A l \in Lines : lm[l].pair # 0 =>
       /\ lm[l].pairPage = name[PageOf[lm[l].pair]]
       /\ phase \in {"link", "rename"} => PageOf[lm[l].pair] = PageOf[l]
  /\ \A l \in Lines : lm[l].fwd # 0 =>
       /\ lm[l].fwdPage = name[PageOf[lm[l].fwd]]
       /\ phase \in {"link", "rename"} => PageOf[lm[l].fwd] = PageOf[l]

Named ==
  /\ phase \in {"link", "rename"} => name = [p \in Pages |-> <<Declared[p]>>]
  /\ phase \in {"seams", "linked"} => \A p, q \in Pages : name[p] = name[q] => p = q

Accounted ==
  \A l \in Lines : source[l].mark # "no" => Opens(lm[l]) \/ \E k \in splits : k[1] = l

\* The words SUBS_CONTENT may spell on either side of a line.
Coming(l, x) == x = 0 \/ x = -l \/ (x \in Lines /\ Backward(l) = x)
Going(l, x)  == x = 0 \/ x = l \/ \E h \in Lines : x = -h /\ Backward(h) = l

\* Markup is on the side of the word it was written on.
Sided ==
  \A l \in Lines :
    /\ lm[l].role = "PART1" => /\ lm[l].srcExp <=> source[l].mark = "explicit"
                              /\ Going(l, lm[l].subs)
    /\ lm[l].role = "BOTH" => (lm[l].fwdExp <=> source[l].mark = "explicit")
    /\ lm[l].role # "PART1" => Coming(l, lm[l].subs)
    /\ lm[l].role # "BOTH" => lm[l].fsubs = 0
    /\ Going(l, lm[l].fsubs)

PairingInv == Types /\ Linked /\ NothingAhead /\ Referring /\ Named /\ Accounted /\ Sided

----
LEMMA NoZero == 0 \notin Lines /\ Lines \subseteq Nat /\ Lines \subseteq Int
  BY LinesAssumption

\* The two readings of a line's slots, of its manifest alone.
Ahead(r)  == CASE r.role = "PART1" -> r.pair [] r.role = "BOTH" -> r.fwd [] OTHER -> 0
Behind(r) == IF r.role \in {"PART2", "BOTH"} THEN r.pair ELSE 0

LEMMA Readings ==
  ASSUME NEW r \in Manifests
  PROVE  /\ Ahead(r) \in Slots /\ Behind(r) \in Slots
         /\ r.role = "PART1" => Ahead(r) = r.pair /\ Behind(r) = 0
         /\ r.role = "PART2" => Ahead(r) = 0 /\ Behind(r) = r.pair
         /\ r.role = "BOTH"  => Ahead(r) = r.fwd /\ Behind(r) = r.pair
         /\ r.role = "NONE"  => Ahead(r) = 0 /\ Behind(r) = 0
         /\ r.role \in {"NONE", "PART1", "PART2", "BOTH"}
  <1>1. r.role \in {"NONE", "PART1", "PART2", "BOTH"} /\ r.pair \in Slots /\ r.fwd \in Slots
    BY DEF Manifests, Roles
  <1>3. CASE r.role = "PART1" BY <1>1, <1>3 DEF Ahead, Behind, Slots
  <1>4. CASE r.role = "PART2" BY <1>1, <1>4 DEF Ahead, Behind, Slots
  <1>5. CASE r.role = "BOTH"  BY <1>1, <1>5 DEF Ahead, Behind, Slots
  <1>6. CASE r.role = "NONE"  BY <1>1, <1>6 DEF Ahead, Behind, Slots
  <1> QED BY <1>1, <1>3, <1>4, <1>5, <1>6

LEMMA Read1 == \A l \in Lines : Forward(l) = Ahead(lm[l]) /\ Backward(l) = Behind(lm[l])
  BY DEF Forward, Backward, Ahead, Behind
LEMMA Read2 == \A l \in Lines : Forward(l)' = Ahead(lm'[l]) /\ Backward(l)' = Behind(lm'[l])
  BY DEF Forward, Backward, Ahead, Behind

\* What a head keeps and becomes as it takes a word.
LEMMA Welcome ==
  ASSUME NEW t \in Manifests, NEW h \in Manifests
  PROVE  LET w == Welcomed(t, h)
         IN  /\ w \in Manifests
             /\ w.role = (IF h.role \in {"PART1", "BOTH"} THEN "BOTH" ELSE "PART2")
             /\ w.pair = h.pair /\ w.pairPage = h.pairPage
             /\ w.fwd = h.fwd /\ w.fwdPage = h.fwdPage
             /\ h.role = "PART1" => w.subs = 0 /\ w.fsubs = h.subs /\ w.fwdExp = h.srcExp
             /\ h.role # "PART1" => w.subs = h.subs /\ w.fsubs = h.fsubs /\ w.fwdExp = h.fwdExp
  <1>5. h.role \in {"NONE", "PART1", "PART2", "BOTH"} BY DEF Manifests, Roles
  <1>4. ForwardExplicit(t) \in BOOLEAN BY DEF ForwardExplicit, Manifests
  <1>1. CASE h.role = "PART1"
    <2>1. Welcomed(t, h) = [h EXCEPT !.role = "BOTH", !.srcExp = ForwardExplicit(t),
                                     !.fwdExp = h.srcExp, !.fsubs = h.subs, !.subs = 0]
      BY <1>1 DEF Welcomed
    <2>2. h.srcExp \in BOOLEAN /\ h.subs \in Spellings /\ 0 \in Spellings
      BY DEF Manifests, Spellings
    <2>3. Welcomed(t, h) \in Manifests
      BY <1>4, <2>1, <2>2 DEF Manifests, Roles
    <2>4. /\ Welcomed(t, h).role = "BOTH"
          /\ Welcomed(t, h).pair = h.pair /\ Welcomed(t, h).pairPage = h.pairPage
          /\ Welcomed(t, h).fwd = h.fwd /\ Welcomed(t, h).fwdPage = h.fwdPage
      BY <2>1 DEF Manifests
    <2>5. /\ Welcomed(t, h).subs = 0 /\ Welcomed(t, h).fsubs = h.subs
          /\ Welcomed(t, h).fwdExp = h.srcExp
      BY <2>1 DEF Manifests
    <2> QED BY <1>1, <2>3, <2>4, <2>5
  <1>2. CASE h.role = "NONE"  BY <1>2, <1>4 DEF Welcomed, Manifests, Roles
  <1>3. CASE h.role \in {"PART2", "BOTH"}
    <2>1. Welcomed(t, h) = h BY <1>3 DEF Welcomed
    <2> QED BY <2>1, <1>3
  <1> QED BY <1>5, <1>1, <1>2, <1>3

\* One link made: what changes of the two lines, and of no other.
LEMMA LinkMade ==
  ASSUME Types, NEW t \in Lines, NEW h \in Lines, t # h, Opens(lm[t]), Link(t, h)
  PROVE  /\ lm' \in [Lines -> Manifests]
         /\ \A l \in Lines : l # t /\ l # h => lm'[l] = lm[l]
         /\ lm'[t].role = lm[t].role
         /\ lm[t].role = "BOTH" =>
              /\ lm'[t].pair = lm[t].pair /\ lm'[t].pairPage = lm[t].pairPage
              /\ lm'[t].fwd = h /\ lm'[t].fwdPage = name[PageOf[h]]
         /\ lm[t].role = "PART1" =>
              /\ lm'[t].pair = h /\ lm'[t].pairPage = name[PageOf[h]]
              /\ lm'[t].fwd = lm[t].fwd /\ lm'[t].fwdPage = lm[t].fwdPage
         /\ lm'[h].role = (IF lm[h].role \in {"PART1", "BOTH"} THEN "BOTH" ELSE "PART2")
         /\ lm'[h].pair = t /\ lm'[h].pairPage = name[PageOf[t]]
         /\ lm'[h].fwd = lm[h].fwd /\ lm'[h].fwdPage = lm[h].fwdPage
  <1> DEFINE head == Welcomed(lm[t], lm[h])
             subs == IF lm[t].role = "BOTH"
                     THEN IF lm[t].fsubs # 0 THEN lm[t].fsubs ELSE head.subs
                     ELSE IF lm[t].subs # 0 THEN lm[t].subs ELSE head.subs
             tail == IF lm[t].role = "BOTH"
                     THEN [lm[t] EXCEPT !.fwd = h, !.fwdPage = name[PageOf[h]], !.fsubs = subs]
                     ELSE [lm[t] EXCEPT !.pair = h, !.pairPage = name[PageOf[h]], !.subs = subs]
             taken == [head EXCEPT !.pair = t, !.pairPage = name[PageOf[t]], !.subs = subs]
  <1>1. lm[t] \in Manifests /\ lm[h] \in Manifests
    BY DEF Types
  <1>2. /\ head \in Manifests
        /\ head.role = (IF lm[h].role \in {"PART1", "BOTH"} THEN "BOTH" ELSE "PART2")
        /\ head.fwd = lm[h].fwd /\ head.fwdPage = lm[h].fwdPage
    BY <1>1, Welcome
  <1>3. lm' = [lm EXCEPT ![t] = tail, ![h] = taken]
    BY DEF Link
  <1>4. name[PageOf[t]] \in Names /\ name[PageOf[h]] \in Names
    BY LinesAssumption DEF Types, Pages
  <1> HIDE DEF head
  <1>5. subs \in Spellings
    BY <1>1, <1>2 DEF Manifests
  <1> HIDE DEF subs
  <1>6. tail \in Manifests
    BY <1>1, <1>4, <1>5 DEF Manifests, Slots
  <1>7. taken \in Manifests
    BY <1>2, <1>4, <1>5 DEF Manifests, Slots
  <1>8. /\ tail.role = lm[t].role
        /\ lm[t].role = "BOTH" =>
             /\ tail.pair = lm[t].pair /\ tail.pairPage = lm[t].pairPage
             /\ tail.fwd = h /\ tail.fwdPage = name[PageOf[h]]
        /\ lm[t].role = "PART1" =>
             /\ tail.pair = h /\ tail.pairPage = name[PageOf[h]]
             /\ tail.fwd = lm[t].fwd /\ tail.fwdPage = lm[t].fwdPage
    BY <1>1 DEF Manifests
  <1>9. /\ taken.role = head.role /\ taken.fwd = head.fwd /\ taken.fwdPage = head.fwdPage
        /\ taken.pair = t /\ taken.pairPage = name[PageOf[t]]
    BY <1>2 DEF Manifests
  <1> HIDE DEF tail, taken
  <1>10. lm \in [Lines -> Manifests] BY DEF Types
  <1>11. /\ lm' \in [Lines -> Manifests] /\ lm'[t] = tail /\ lm'[h] = taken
         /\ \A l \in Lines : l # t /\ l # h => lm'[l] = lm[l]
    BY <1>3, <1>6, <1>7, <1>10
  <1> QED BY <1>2, <1>8, <1>9, <1>11

\* The same, of the markup of the two lines: both spell one word.
LEMMA LinkMarks ==
  ASSUME Types, NEW t \in Lines, NEW h \in Lines, t # h, Opens(lm[t]), Link(t, h)
  PROVE  \E subs \in Spellings :
           /\ lm'[t].srcExp = lm[t].srcExp /\ lm'[t].fwdExp = lm[t].fwdExp
           /\ lm[t].role = "BOTH" => /\ lm'[t].fsubs = subs /\ lm'[t].subs = lm[t].subs
                                     /\ lm[t].fsubs # 0 => subs = lm[t].fsubs
                                     /\ lm[t].fsubs = 0 /\ lm[h].role # "PART1" => subs = lm[h].subs
                                     /\ lm[t].fsubs = 0 /\ lm[h].role = "PART1" => subs = 0
           /\ lm[t].role = "PART1" => /\ lm'[t].subs = subs /\ lm'[t].fsubs = lm[t].fsubs
                                      /\ lm[t].subs # 0 => subs = lm[t].subs
                                      /\ lm[t].subs = 0 /\ lm[h].role # "PART1" => subs = lm[h].subs
                                      /\ lm[t].subs = 0 /\ lm[h].role = "PART1" => subs = 0
           /\ lm'[h].subs = subs
           /\ lm[h].role = "PART1" => lm'[h].fsubs = lm[h].subs /\ lm'[h].fwdExp = lm[h].srcExp
           /\ lm[h].role # "PART1" => lm'[h].fsubs = lm[h].fsubs /\ lm'[h].fwdExp = lm[h].fwdExp
  <1> DEFINE head == Welcomed(lm[t], lm[h])
             subs == IF lm[t].role = "BOTH"
                     THEN IF lm[t].fsubs # 0 THEN lm[t].fsubs ELSE head.subs
                     ELSE IF lm[t].subs # 0 THEN lm[t].subs ELSE head.subs
             tail == IF lm[t].role = "BOTH"
                     THEN [lm[t] EXCEPT !.fwd = h, !.fwdPage = name[PageOf[h]], !.fsubs = subs]
                     ELSE [lm[t] EXCEPT !.pair = h, !.pairPage = name[PageOf[h]], !.subs = subs]
             taken == [head EXCEPT !.pair = t, !.pairPage = name[PageOf[t]], !.subs = subs]
  <1>1. lm[t] \in Manifests /\ lm[h] \in Manifests /\ lm[t].role \in {"PART1", "BOTH"}
    BY DEF Types, Opens
  <1>2. /\ head \in Manifests
        /\ lm[h].role = "PART1" => /\ head.subs = 0 /\ head.fsubs = lm[h].subs
                                   /\ head.fwdExp = lm[h].srcExp
        /\ lm[h].role # "PART1" => /\ head.subs = lm[h].subs /\ head.fsubs = lm[h].fsubs
                                   /\ head.fwdExp = lm[h].fwdExp
    BY <1>1, Welcome
  <1>3. lm' = [lm EXCEPT ![t] = tail, ![h] = taken]
    BY DEF Link
  <1> HIDE DEF head
  <1>4. subs \in Spellings
    BY <1>1, <1>2 DEF Manifests
  <1>5. /\ lm[t].role = "BOTH" => /\ lm[t].fsubs # 0 => subs = lm[t].fsubs
                                  /\ lm[t].fsubs = 0 => subs = head.subs
        /\ lm[t].role = "PART1" => /\ lm[t].subs # 0 => subs = lm[t].subs
                                   /\ lm[t].subs = 0 => subs = head.subs
    OBVIOUS
  <1> HIDE DEF subs
  <1>6. /\ tail.srcExp = lm[t].srcExp /\ tail.fwdExp = lm[t].fwdExp
        /\ lm[t].role = "BOTH" => tail.fsubs = subs /\ tail.subs = lm[t].subs
        /\ lm[t].role = "PART1" => tail.subs = subs /\ tail.fsubs = lm[t].fsubs
    BY <1>1 DEF Manifests
  <1>7. taken.subs = subs /\ taken.fsubs = head.fsubs /\ taken.fwdExp = head.fwdExp
    BY <1>2 DEF Manifests
  <1> HIDE DEF tail, taken
  <1>8. lm \in [Lines -> Manifests] BY DEF Types
  <1>9. lm'[t] = tail /\ lm'[h] = taken
    BY <1>3, <1>8
  <1> QED BY <1>1, <1>2, <1>4, <1>5, <1>6, <1>7, <1>9

\* The same, of what the lines read.
LEMMA LinkReads ==
  ASSUME Types, NEW t \in Lines, NEW h \in Lines, t # h, Opens(lm[t]), Link(t, h)
  PROVE  /\ Forward(t)' = h /\ Backward(t)' = Backward(t)
         /\ Backward(h)' = t
         /\ Forward(h)' = (IF lm[h].role = "PART1" THEN 0 ELSE Forward(h))
         /\ \A l \in Lines : l # t /\ l # h => Forward(l)' = Forward(l) /\ Backward(l)' = Backward(l)
         /\ \A l \in Lines : Opens(lm[l]) <=> Opens(lm'[l])
         /\ \A l \in Lines : lm'[l].role # "BOTH" => lm'[l].fwd = 0
         /\ \A l \in Lines : lm'[l].role = "NONE" => lm'[l].pair = 0
  <1>1. lm[t] \in Manifests /\ lm[h] \in Manifests /\ lm'[t] \in Manifests /\ lm'[h] \in Manifests
    BY LinkMade DEF Types
  <1>2. lm[t].role \in {"PART1", "BOTH"}
    BY DEF Opens
  <1>3. Forward(t)' = h /\ Backward(t)' = Backward(t)
    BY <1>1, <1>2, LinkMade, Readings, Read1, Read2
  <1>4. Backward(h)' = t
    BY <1>1, LinkMade, Readings, Read2
  <1>5. Forward(h)' = (IF lm[h].role = "PART1" THEN 0 ELSE Forward(h))
    BY <1>1, LinkMade, Readings, Read1, Read2 DEF Types
  <1>6. \A l \in Lines : l # t /\ l # h => Forward(l)' = Forward(l) /\ Backward(l)' = Backward(l)
    BY LinkMade, Read1, Read2
  <1>7. \A l \in Lines : Opens(lm[l]) <=> Opens(lm'[l])
    <2> TAKE l \in Lines
    <2>1. CASE l = t BY <2>1, LinkMade DEF Opens
    <2>2. CASE l = h BY <2>2, <1>1, LinkMade, Readings DEF Opens
    <2>3. CASE l # t /\ l # h BY <2>3, LinkMade
    <2> QED BY <2>1, <2>2, <2>3
  <1>8. \A l \in Lines : /\ lm'[l].role # "BOTH" => lm'[l].fwd = 0
                         /\ lm'[l].role = "NONE" => lm'[l].pair = 0
    <2> TAKE l \in Lines
    <2>1. CASE l = t BY <2>1, <1>2, LinkMade DEF Types
    <2>2. CASE l = h BY <2>2, <1>1, LinkMade, Readings DEF Types
    <2>3. CASE l # t /\ l # h BY <2>3, LinkMade DEF Types
    <2> QED BY <2>1, <2>2, <2>3
  <1> QED BY <1>3, <1>4, <1>5, <1>6, <1>7, <1>8

\* A link between consecutive lines, the first not linked onward, the second neither
\* unless it is on another page, keeps what is known of links.
LEMMA LinkKeepsLinked ==
  ASSUME Types, Linked, NEW t \in Lines, NEW h \in Lines, Consecutive(t, h), source' = source,
         Opens(lm[t]), Link(t, h), Forward(t) = 0,
         Forward(h) = 0 \/ PageOf[t] # PageOf[h]
  PROVE  Linked'
  <1>0. t # h /\ t \in Nat /\ h \in Nat /\ t # 0 /\ h # 0 /\ t < h
    BY NoZero DEF Consecutive
  <1>1. \A a, b : Consecutive(a, b)' <=> Consecutive(a, b)
    BY DEF Consecutive, Substantive
  <1>2. \A a, b, c \in Lines : /\ Consecutive(a, b) /\ Consecutive(c, b) => a = c
                               /\ Consecutive(a, b) /\ Consecutive(a, c) => b = c
    BY NoZero DEF Consecutive
  <1>3. \A l \in Lines : Forward(l) \in Slots /\ Backward(l) \in Slots
    BY Readings, Read1 DEF Types
  <1>4. ASSUME NEW a \in Lines, NEW b \in Lines, Forward(a)' = b
        PROVE  Consecutive(a, b)' /\ Backward(b)' = a
    <2>1. CASE a = t
      BY <2>1, <1>0, <1>1, <1>4, LinkReads
    <2>2. CASE a # t
      <3>1. Forward(a) = b
        BY <2>2, <1>0, <1>4, NoZero, LinkReads
      <3>2. Consecutive(a, b) /\ Backward(b) = a
        BY <3>1 DEF Linked
      <3>3. b # h
        BY <3>2, <2>2, <1>2
      <3> QED BY <3>2, <3>3, <1>0, <1>1, LinkReads
    <2> QED BY <2>1, <2>2
  <1>5. ASSUME NEW l \in Lines, Backward(l) \in Lines PROVE Backward(l)' = Backward(l)
    <2>1. Consecutive(Backward(l), l)
      BY <1>5 DEF Linked
    <2>2. CASE l = h
      <3>1. Backward(l) = t
        BY <2>1, <2>2, <1>2, <1>5
      <3> QED BY <3>1, <2>2, <1>0, LinkReads
    <2>3. CASE l # h BY <2>3, <1>0, LinkReads
    <2> QED BY <2>2, <2>3
  <1>6. \A l \in Lines : Seamed(l) => Seamed(l)'
    BY <1>5, NoZero DEF Seamed
  <1>7. Forward(h)' = Forward(h) \/ Seamed(h)'
    BY <1>0, <1>3, LinkReads, Readings, Read1 DEF Seamed, Types
  <1>8. ASSUME NEW a \in Lines, NEW b \in Lines, Backward(b)' = a
        PROVE  Consecutive(a, b)' /\ (Forward(a)' = b \/ Seamed(a)')
    <2>1. CASE b = h
      BY <2>1, <1>0, <1>1, <1>8, LinkReads
    <2>2. CASE b # h
      <3>1. Backward(b) = a
        BY <2>2, <1>0, <1>8, LinkReads
      <3>2. Consecutive(a, b) /\ (Forward(a) = b \/ Seamed(a))
        BY <3>1 DEF Linked
      <3>3. CASE Seamed(a) BY <3>2, <3>3, <1>1, <1>6
      <3>4. CASE Forward(a) = b
        <4>1. a # t BY <3>4, <1>0, NoZero
        <4>2. Forward(a)' = b \/ Seamed(a)'
          BY <4>1, <3>4, <1>7, <1>0, LinkReads
        <4> QED BY <4>2, <3>2, <1>1
      <3> QED BY <3>2, <3>3, <3>4
    <2> QED BY <2>1, <2>2
  <1> QED BY <1>4, <1>8 DEF Linked

\* A line once continued into keeps saying from where.
LEMMA BackwardKept ==
  ASSUME Types, Linked, NEW t \in Lines, NEW h \in Lines, Consecutive(t, h), Opens(lm[t]),
         Link(t, h), NEW l \in Lines, Backward(l) \in Lines
  PROVE  Backward(l)' = Backward(l)
  <1>1. t # h BY NoZero DEF Consecutive
  <1>2. PICK b \in Lines : Backward(l) = b /\ Consecutive(b, l)
    BY DEF Linked
  <1>3. CASE l = h
    <2>1. b \in Nat /\ t \in Nat /\ h \in Nat BY NoZero
    <2>2. ~(b < t) /\ ~(t < b) BY <1>2, <1>3 DEF Consecutive
    <2>3. b = t BY <2>1, <2>2
    <2> QED BY <2>3, <1>1, <1>2, <1>3, LinkReads
  <1>4. CASE l # h BY <1>1, <1>4, LinkReads
  <1> QED BY <1>3, <1>4

LEMMA LinkKeepsSided ==
  ASSUME Types, Linked, Sided, NEW t \in Lines, NEW h \in Lines, Consecutive(t, h),
         Opens(lm[t]), Link(t, h), source' = source
  PROVE  Sided'
  <1>1. t # h BY NoZero DEF Consecutive
  <1>2. \A l \in Lines : \A x : /\ Coming(l, x) => Coming(l, x)'
                                /\ Going(l, x) => Going(l, x)'
    BY BackwardKept DEF Coming, Going
  <1>3. \A x : Going(t, x) => x = 0 \/ x = t \/ x = -h
    <2>1. \A m \in Lines : Backward(m) = t => m = h
      BY NoZero DEF Linked, Consecutive
    <2> QED BY <2>1 DEF Going
  <1>4. \A x : Coming(h, x) => x = 0 \/ x = t \/ x = -h
    <2>1. \A m \in Lines : Backward(h) = m => m = t
      BY NoZero DEF Linked, Consecutive
    <2> QED BY <2>1 DEF Coming
  <1>5. \A x : x = 0 \/ x = t \/ x = -h => Coming(h, x)' /\ Going(t, x)'
    BY <1>1, LinkReads DEF Coming, Going
  <1>6. PICK subs \in Spellings :
           /\ lm'[t].srcExp = lm[t].srcExp /\ lm'[t].fwdExp = lm[t].fwdExp
           /\ lm[t].role = "BOTH" => /\ lm'[t].fsubs = subs /\ lm'[t].subs = lm[t].subs
                                     /\ lm[t].fsubs # 0 => subs = lm[t].fsubs
                                     /\ lm[t].fsubs = 0 /\ lm[h].role # "PART1" => subs = lm[h].subs
                                     /\ lm[t].fsubs = 0 /\ lm[h].role = "PART1" => subs = 0
           /\ lm[t].role = "PART1" => /\ lm'[t].subs = subs /\ lm'[t].fsubs = lm[t].fsubs
                                      /\ lm[t].subs # 0 => subs = lm[t].subs
                                      /\ lm[t].subs = 0 /\ lm[h].role # "PART1" => subs = lm[h].subs
                                      /\ lm[t].subs = 0 /\ lm[h].role = "PART1" => subs = 0
           /\ lm'[h].subs = subs
           /\ lm[h].role = "PART1" => lm'[h].fsubs = lm[h].subs /\ lm'[h].fwdExp = lm[h].srcExp
           /\ lm[h].role # "PART1" => lm'[h].fsubs = lm[h].fsubs /\ lm'[h].fwdExp = lm[h].fwdExp
    BY <1>1, LinkMarks
  <1>7. /\ lm[t].role \in {"PART1", "BOTH"} /\ lm'[t].role = lm[t].role
        /\ lm'[h].role = (IF lm[h].role \in {"PART1", "BOTH"} THEN "BOTH" ELSE "PART2")
        /\ \A l \in Lines : l # t /\ l # h => lm'[l] = lm[l]
    BY <1>1, LinkMade DEF Opens
  <1>8. subs = 0 \/ subs = t \/ subs = -h
    BY <1>3, <1>4, <1>6, <1>7 DEF Sided
  <1> SUFFICES ASSUME NEW l \in Lines, NEW back, NEW ahead,
                      back = lm'[l].subs, ahead = lm'[l].fsubs
               PROVE  /\ lm'[l].role = "PART1" => /\ lm'[l].srcExp <=> source[l].mark = "explicit"
                                                  /\ Going(l, back)'
                      /\ lm'[l].role = "BOTH" => (lm'[l].fwdExp <=> source[l].mark = "explicit")
                      /\ lm'[l].role # "PART1" => Coming(l, back)'
                      /\ lm'[l].role # "BOTH" => ahead = 0
                      /\ Going(l, ahead)'
    BY DEF Sided, Going, Coming
  <1>9. /\ lm[l].role = "PART1" => /\ lm[l].srcExp <=> source[l].mark = "explicit"
                                   /\ Going(l, lm[l].subs)
        /\ lm[l].role = "BOTH" => (lm[l].fwdExp <=> source[l].mark = "explicit")
        /\ lm[l].role # "PART1" => Coming(l, lm[l].subs)
        /\ lm[l].role # "BOTH" => lm[l].fsubs = 0
        /\ Going(l, lm[l].fsubs)
    BY DEF Sided
  <1>10. Coming(l, 0)' /\ Going(l, 0)' BY DEF Coming, Going
  <1>11. CASE l = t
    <2>1. CASE lm[t].role = "PART1"
      <3>1. back = subs /\ Going(t, back)' BY <1>5, <1>6, <1>8, <1>11, <2>1
      <3>2. ahead = 0 BY <1>6, <1>9, <1>11, <2>1
      <3> QED BY <1>6, <1>7, <1>9, <1>10, <1>11, <2>1, <3>1, <3>2
    <2>2. CASE lm[t].role = "BOTH"
      <3>1. ahead = subs /\ Going(t, ahead)' BY <1>5, <1>6, <1>8, <1>11, <2>2
      <3>2. Coming(t, back)' BY <1>2, <1>6, <1>9, <1>11, <2>2
      <3> QED BY <1>6, <1>7, <1>9, <1>11, <2>2, <3>1, <3>2
    <2> QED BY <1>7, <2>1, <2>2
  <1>12. CASE l = h
    <2>1. back = subs /\ Coming(h, back)' BY <1>5, <1>6, <1>8, <1>12
    <2>2. CASE lm[h].role = "PART1"
      <3>1. Going(h, ahead)' BY <1>2, <1>6, <1>9, <1>12, <2>2
      <3> QED BY <1>6, <1>7, <1>9, <1>12, <2>1, <2>2, <3>1
    <2>3. CASE lm[h].role # "PART1"
      <3>1. Going(h, ahead)' BY <1>2, <1>6, <1>9, <1>12, <2>3
      <3> QED BY <1>6, <1>7, <1>9, <1>12, <2>1, <2>3, <3>1
    <2> QED BY <2>2, <2>3
  <1>13. CASE l # t /\ l # h
    BY <1>2, <1>7, <1>9, <1>13
  <1> QED BY <1>11, <1>12, <1>13

LEMMA LinkKeepsReferring ==
  ASSUME Types, Referring, NEW t \in Lines, NEW h \in Lines, t # h, Opens(lm[t]), Link(t, h),
         name' = name, phase' = phase,
         phase \in {"link", "rename"} => PageOf[t] = PageOf[h]
  PROVE  Referring'
  <1>1. lm[t].role \in {"PART1", "BOTH"} BY DEF Opens
  <1> SUFFICES ASSUME NEW l \in Lines
               PROVE  /\ lm'[l].pair # 0 =>
                           /\ lm'[l].pairPage = name[PageOf[lm'[l].pair]]
                           /\ phase \in {"link", "rename"} => PageOf[lm'[l].pair] = PageOf[l]
                      /\ lm'[l].fwd # 0 =>
                           /\ lm'[l].fwdPage = name[PageOf[lm'[l].fwd]]
                           /\ phase \in {"link", "rename"} => PageOf[lm'[l].fwd] = PageOf[l]
    BY DEF Referring
  <1>2. CASE l = t BY <1>1, <1>2, LinkMade DEF Referring
  <1>3. CASE l = h BY <1>3, LinkMade DEF Referring
  <1>4. CASE l # t /\ l # h BY <1>4, LinkMade DEF Referring
  <1> QED BY <1>2, <1>3, <1>4

\* All a link keeps, between lines the walks may join.
LEMMA LinkKeeps ==
  ASSUME PairingInv, NEW t \in Lines, NEW h \in Lines, Consecutive(t, h), Opens(lm[t]),
         Link(t, h), Forward(t) = 0, Forward(h) = 0 \/ PageOf[t] # PageOf[h],
         phase \in {"link", "rename"} => PageOf[t] = PageOf[h],
         at' \in Int, UNCHANGED <<source, phase, name, splits>>
  PROVE  Types' /\ Linked' /\ Referring' /\ Named' /\ Accounted' /\ Sided'
  <1>0. t # h BY NoZero DEF Consecutive
  <1>1. Types'
    BY <1>0, LinkMade, LinkReads DEF PairingInv, Types
  <1>2. Linked' /\ Referring'
    BY <1>0, LinkKeepsLinked, LinkKeepsReferring DEF PairingInv
  <1>3. Named' BY DEF PairingInv, Named
  <1>4. Accounted'
    BY <1>0, LinkReads DEF PairingInv, Accounted
  <1>5. Sided'
    BY LinkKeepsSided DEF PairingInv
  <1> QED BY <1>1, <1>2, <1>3, <1>4, <1>5

LEMMA LinkLineKeeps ==
  ASSUME PairingInv, LinkLine
  PROVE  PairingInv'
  <1>1. PICK l \in Lines :
          /\ l > at /\ \A m \in Lines : m > at => l <= m
          /\ at' = l
          /\ \/ /\ Substantive(l) /\ Opens(lm[l])
                /\ \E h \in Candidates(l) : (\A m \in Candidates(l) : h <= m) /\ Link(l, h)
             \/ UNCHANGED lm
    BY DEF LinkLine
  <1>2. phase = "link" /\ UNCHANGED <<source, phase, name, splits>>
    BY DEF LinkLine
  <1>3. at' \in Int /\ at \in Int BY <1>1, NoZero DEF PairingInv, Types
  <1>4. CASE UNCHANGED lm
    <2>1. Types' /\ Referring' /\ Named' /\ Accounted'
      BY <1>2, <1>3, <1>4 DEF PairingInv, Types, Referring, Named, Accounted
    <2>2. Linked' /\ Sided'
      BY <1>2, <1>4 DEF PairingInv, Linked, Seamed, Consecutive, Substantive, Forward, Backward,
         Sided, Coming, Going
    <2>3. NothingAhead'
      BY <1>1, <1>2, <1>3, <1>4, NoZero DEF PairingInv, NothingAhead, Forward
    <2> QED BY <2>1, <2>2, <2>3 DEF PairingInv
  <1>5. ASSUME NEW h \in Candidates(l), \A m \in Candidates(l) : h <= m, Link(l, h),
               Substantive(l), Opens(lm[l])
        PROVE  PairingInv'
    <2>1. h \in Lines /\ PageOf[h] = PageOf[l] /\ h > l /\ Substantive(h)
      BY DEF Candidates, LinesOn
    <2>2. \A m \in Lines : l < m /\ m < h => ~Substantive(m)
      <3> SUFFICES ASSUME NEW m \in Lines, l < m, m < h, Substantive(m) PROVE FALSE
        OBVIOUS
      <3>1. PageOf[l] <= PageOf[m] /\ PageOf[m] <= PageOf[h]
        BY <2>1, LinesAssumption
      <3>2. PageOf[m] = PageOf[l]
        BY <3>1, <2>1, LinesAssumption
      <3>3. m \in Candidates(l)
        BY <3>2 DEF Candidates, LinesOn
      <3> QED BY <3>3, <1>5, <2>1, NoZero
    <2>3. Consecutive(l, h)
      BY <1>5, <2>1, <2>2 DEF Consecutive
    <2>4. Forward(l) = 0 /\ Forward(h) = 0
      BY <1>1, <1>2, <1>3, <2>1, NoZero DEF PairingInv, NothingAhead
    <2>5. Types' /\ Linked' /\ Referring' /\ Named' /\ Accounted' /\ Sided'
      BY <1>2, <1>3, <1>5, <2>1, <2>3, <2>4, LinkKeeps
    <2>6. NothingAhead'
      <3> SUFFICES ASSUME NEW m \in Lines, m > l PROVE Forward(m)' = 0
        BY <1>1 DEF NothingAhead
      <3>1. m > at /\ m # l /\ Forward(m) = 0
        BY <1>1, <1>2, <1>3, NoZero DEF PairingInv, NothingAhead
      <3> QED BY <3>1, <1>5, <2>1, <2>4, NoZero, LinkReads DEF PairingInv
    <2> QED BY <2>5, <2>6 DEF PairingInv
  <1> QED BY <1>1, <1>4, <1>5

LEMMA LinkSeamKeeps ==
  ASSUME PairingInv, LinkSeam
  PROVE  PairingInv'
  <1>1. PICK p \in Pages, q \in Pages :
          /\ p > at /\ p < q /\ TextOn(p) # {} /\ TextOn(q) # {}
          /\ \A r \in Pages : TextOn(r) # {} /\ r > at => r = p \/ r >= q
          /\ at' = p
          /\ \/ \E t \in TextOn(p), h \in TextOn(q) :
                  /\ \A m \in TextOn(p) : m <= t
                  /\ \A m \in TextOn(q) : h <= m
                  /\ NeedsLink(t) /\ Link(t, h)
             \/ UNCHANGED lm
    BY DEF LinkSeam, Pages
  <1>2. phase = "seams" /\ UNCHANGED <<source, phase, name, splits>>
    BY DEF LinkSeam
  <1>3. at' \in Int /\ at \in Int /\ p \in Int /\ q \in Int
    BY <1>1, LinesAssumption DEF PairingInv, Types, Pages
  <1>4. CASE UNCHANGED lm
    <2>1. Types' /\ Referring' /\ Named' /\ Accounted' /\ NothingAhead'
      BY <1>2, <1>3, <1>4 DEF PairingInv, Types, Referring, Named, Accounted, NothingAhead
    <2>2. Linked' /\ Sided'
      BY <1>2, <1>4 DEF PairingInv, Linked, Seamed, Consecutive, Substantive, Forward, Backward,
         Sided, Coming, Going
    <2> QED BY <2>1, <2>2 DEF PairingInv
  <1>5. ASSUME NEW t \in TextOn(p), NEW h \in TextOn(q),
               \A m \in TextOn(p) : m <= t, \A m \in TextOn(q) : h <= m,
               NeedsLink(t), Link(t, h)
        PROVE  PairingInv'
    <2>1. /\ t \in Lines /\ h \in Lines /\ PageOf[t] = p /\ PageOf[h] = q
          /\ Substantive(t) /\ Substantive(h)
      BY DEF TextOn, LinesOn
    <2>2. t < h
      BY <1>1, <1>3, <2>1, NoZero, LinesAssumption
    <2>3. \A m \in Lines : t < m /\ m < h => ~Substantive(m)
      <3> SUFFICES ASSUME NEW m \in Lines, t < m, m < h, Substantive(m) PROVE FALSE
        OBVIOUS
      <3>1. PageOf[m] \in Pages /\ m \in TextOn(PageOf[m])
        BY LinesAssumption DEF TextOn, LinesOn, Pages
      <3>2. p <= PageOf[m] /\ PageOf[m] <= q
        BY <2>1, LinesAssumption
      <3>3. PageOf[m] = p \/ PageOf[m] = q
        BY <1>1, <1>3, <3>1, <3>2, LinesAssumption DEF Pages
      <3> QED BY <3>1, <3>3, <1>5, <2>1, NoZero
    <2>4. Consecutive(t, h)
      BY <2>1, <2>2, <2>3 DEF Consecutive
    <2>5. Opens(lm[t]) /\ Forward(t) = 0
      BY <1>5 DEF NeedsLink
    <2>6. PageOf[t] # PageOf[h]
      BY <1>1, <1>3, <2>1
    <2>7. Types' /\ Linked' /\ Referring' /\ Named' /\ Accounted' /\ Sided'
      BY <1>2, <1>3, <1>5, <2>1, <2>4, <2>5, <2>6, LinkKeeps
    <2>8. NothingAhead'
      BY <1>2 DEF NothingAhead
    <2> QED BY <2>7, <2>8 DEF PairingInv
  <1> QED BY <1>1, <1>4, <1>5

LEMMA TurnsKeep ==
  ASSUME PairingInv, PagesLinked \/ SeamsLinked
  PROVE  PairingInv'
  <1>1. /\ UNCHANGED <<source, at, lm, name, splits>>
        /\ \/ phase = "link" /\ phase' = "rename"
           \/ phase = "seams" /\ phase' = "linked"
    BY DEF PagesLinked, SeamsLinked
  <1>2. Types' /\ Referring' /\ Named' /\ Accounted' /\ NothingAhead'
    BY <1>1 DEF PairingInv, Types, Referring, Named, Accounted, NothingAhead
  <1>3. Linked' /\ Sided'
    BY <1>1 DEF PairingInv, Linked, Seamed, Consecutive, Substantive, Forward, Backward,
       Sided, Coming, Going
  <1> QED BY <1>2, <1>3 DEF PairingInv

LEMMA TwoParts ==
  ASSUME NEW a, NEW b
  PROVE  <<a>> \o <<b>> = <<a, b>>
  <1> DEFINE S == {a, b}
             s == <<a>> \o <<b>>
             t == <<a, b>>
  <1>1. <<a>> \in Seq(S) /\ <<b>> \in Seq(S) /\ t \in Seq(S)
    OBVIOUS
  <1>2. Len(<<a>>) = 1 /\ Len(<<b>>) = 1 /\ Len(t) = 2
    OBVIOUS
  <1>3. s \in Seq(S) /\ Len(s) = 2
    BY <1>1, <1>2, ConcatProperties
  <1>4. s[1] = a /\ s[2] = b
    BY <1>1, <1>2, ConcatProperties
  <1>5. t[1] = a /\ t[2] = b
    OBVIOUS
  <1> HIDE DEF s, t, S
  <1>6. \A i \in 1 .. Len(s) : s[i] = t[i]
    BY <1>3, <1>4, <1>5
  <1>7. s = t
    BY <1>1, <1>2, <1>3, <1>6, SeqEqual
  <1> QED BY <1>7 DEF s, t

\* The names after the renaming, and that they are distinct.
LEMMA NewNames ==
  ASSUME PairingInv, Rename
  PROVE  /\ name' \in [Pages -> Names]
         /\ \A p, q \in Pages : name'[p] = name'[q] => p = q
  <1> DEFINE shared == {p \in Pages : \E q \in Pages : q # p /\ name[q] = name[p]}
  <1>1. name = [p \in Pages |-> <<Declared[p]>>]
    BY DEF PairingInv, Named, Rename
  <1>2. name' = [p \in Pages |-> IF p \in shared THEN <<FileOf[p]>> \o name[p] ELSE name[p]]
    BY DEF Rename, Pages
  <1>3. \A p \in Pages : <<FileOf[p]>> \o name[p] = <<FileOf[p], Declared[p]>>
    BY <1>1, TwoParts
  <1>4. name' = [p \in Pages |-> IF p \in shared THEN <<FileOf[p], Declared[p]>> ELSE <<Declared[p]>>]
    BY <1>1, <1>2, <1>3
  <1>5. name' \in [Pages -> Names]
    BY <1>4 DEF Names
  <1>6. ASSUME NEW p \in Pages, NEW q \in Pages, name'[p] = name'[q] PROVE p = q
    <2>1. CASE p \in shared /\ q \in shared
      <3>1. FileOf[p] = FileOf[q] /\ Declared[p] = Declared[q]
        BY <1>4, <1>6, <2>1
      <3> QED BY <3>1, NamesAssumption DEF Pages
    <2>2. CASE p \notin shared /\ q \notin shared
      <3>1. name[p] = name[q]
        BY <1>1, <1>4, <1>6, <2>2
      <3> QED BY <3>1, <2>2
    <2>3. CASE p \in shared /\ q \notin shared
      <3>1. <<FileOf[p], Declared[p]>> = <<Declared[q]>>
        BY <1>4, <1>6, <2>3
      <3> QED BY <3>1
    <2>4. CASE p \notin shared /\ q \in shared
      <3>1. <<FileOf[q], Declared[q]>> = <<Declared[p]>>
        BY <1>4, <1>6, <2>4
      <3> QED BY <3>1
    <2> QED BY <2>1, <2>2, <2>3, <2>4
  <1> QED BY <1>5, <1>6

LEMMA RenameKeeps ==
  ASSUME PairingInv, Rename
  PROVE  PairingInv'
  <1> DEFINE shared == {p \in Pages : \E q \in Pages : q # p /\ name[q] = name[p]}
  <1>1. /\ phase = "rename" /\ phase' = "seams" /\ at' = 0
        /\ UNCHANGED <<source, splits>>
        /\ name' = [p \in Pages |-> IF p \in shared THEN <<FileOf[p]>> \o name[p] ELSE name[p]]
        /\ lm' = [l \in Lines |->
                    IF PageOf[l] \in shared
                    THEN Renamed(lm[l], name[PageOf[l]], <<FileOf[PageOf[l]]>> \o name[PageOf[l]])
                    ELSE lm[l]]
    BY DEF Rename, Pages
  <1>2. /\ name' \in [Pages -> Names] /\ PageOf \in [Lines -> Pages]
        /\ lm \in [Lines -> Manifests]
    BY NewNames, LinesAssumption DEF Pages, PairingInv, Types
  <1>3. ASSUME NEW l \in Lines
        PROVE  /\ lm'[l] \in Manifests /\ lm'[l].role = lm[l].role
               /\ lm'[l].pair = lm[l].pair /\ lm'[l].fwd = lm[l].fwd
               /\ lm'[l].subs = lm[l].subs /\ lm'[l].fsubs = lm[l].fsubs
               /\ lm'[l].srcExp = lm[l].srcExp /\ lm'[l].fwdExp = lm[l].fwdExp
               /\ lm[l].pairPage = name[PageOf[l]] => lm'[l].pairPage = name'[PageOf[l]]
               /\ lm[l].fwdPage = name[PageOf[l]] => lm'[l].fwdPage = name'[PageOf[l]]
    <2> DEFINE r == lm[l]
               old == name[PageOf[l]]
               new == name'[PageOf[l]]
    <2>1. r \in Manifests /\ new \in Names
      BY <1>2
    <2>2. CASE PageOf[l] \in shared
      <3>1. new = <<FileOf[PageOf[l]]>> \o name[PageOf[l]]
        BY <1>1, <1>2, <2>2
      <3>2. lm'[l] = Renamed(r, old, new)
        BY <1>1, <2>2, <3>1
      <3> HIDE DEF r, old, new
      <3>3. /\ Renamed(r, old, new) \in Manifests
            /\ Renamed(r, old, new).role = r.role
            /\ Renamed(r, old, new).pair = r.pair /\ Renamed(r, old, new).fwd = r.fwd
            /\ Renamed(r, old, new).subs = r.subs /\ Renamed(r, old, new).fsubs = r.fsubs
            /\ Renamed(r, old, new).srcExp = r.srcExp /\ Renamed(r, old, new).fwdExp = r.fwdExp
            /\ r.pairPage = old => Renamed(r, old, new).pairPage = new
            /\ r.fwdPage = old => Renamed(r, old, new).fwdPage = new
        BY <2>1 DEF Renamed, Manifests
      <3> QED BY <3>2, <3>3 DEF r, old, new
    <2>3. CASE PageOf[l] \notin shared
      BY <1>1, <1>2, <2>1, <2>3
    <2> QED BY <2>2, <2>3
  <1> HIDE DEF shared
  <1>4. /\ \A l \in Lines : lm'[l] \in Manifests /\ lm'[l].role = lm[l].role
        /\ \A l \in Lines : lm'[l].pair = lm[l].pair /\ lm'[l].fwd = lm[l].fwd
    BY <1>3
  <1>5. lm' = [l \in Lines |-> lm'[l]]
    BY <1>1
  <1>6. phase = "rename" /\ phase' = "seams" /\ at' = 0 /\ source' = source
    BY <1>1
  <1>7. Types'
    <2>1. lm' \in [Lines -> Manifests]
      BY ONLY <1>4, <1>5
    <2>2. \A l \in Lines : /\ lm'[l].role # "BOTH" => lm'[l].fwd = 0
                           /\ lm'[l].role = "NONE" => lm'[l].pair = 0
      BY <1>4 DEF PairingInv, Types
    <2>3. phase' \in {"link", "rename", "seams", "linked"} /\ at' \in Int
          /\ source' \in [Lines -> LineSources]
      BY <1>6 DEF PairingInv, Types
    <2> QED BY <2>1, <2>2, <2>3, <1>2 DEF Types
  <1>8. \A l \in Lines : Forward(l)' = Forward(l) /\ Backward(l)' = Backward(l)
    BY <1>3 DEF Forward, Backward
  <1>9. Linked'
    BY <1>1, <1>8 DEF PairingInv, Linked, Seamed, Consecutive, Substantive
  <1>10. Referring'
    <2> SUFFICES ASSUME NEW l \in Lines
                 PROVE  /\ lm[l].pair # 0 => lm'[l].pairPage = name'[PageOf[lm[l].pair]]
                        /\ lm[l].fwd # 0 => lm'[l].fwdPage = name'[PageOf[lm[l].fwd]]
      BY <1>4, <1>6 DEF Referring
    <2>1. /\ lm[l].pair # 0 => lm[l].pairPage = name[PageOf[l]] /\ PageOf[lm[l].pair] = PageOf[l]
          /\ lm[l].fwd # 0 => lm[l].fwdPage = name[PageOf[l]] /\ PageOf[lm[l].fwd] = PageOf[l]
      BY <1>1 DEF PairingInv, Referring
    <2> QED BY <2>1, <1>3
  <1>11. Named' /\ NothingAhead' /\ Accounted'
    BY <1>1, <1>3, NewNames DEF PairingInv, Named, NothingAhead, Accounted, Opens
  <1>12. \A l \in Lines : \A x : (Coming(l, x)' <=> Coming(l, x)) /\ (Going(l, x)' <=> Going(l, x))
    BY <1>8 DEF Coming, Going
  <1>13. Sided'
    <2> SUFFICES ASSUME NEW l \in Lines
                 PROVE  /\ lm'[l].role = "PART1" => /\ lm'[l].srcExp <=> source[l].mark = "explicit"
                                                    /\ Going(l, lm[l].subs)'
                        /\ lm'[l].role = "BOTH" => (lm'[l].fwdExp <=> source[l].mark = "explicit")
                        /\ lm'[l].role # "PART1" => Coming(l, lm[l].subs)'
                        /\ lm'[l].role # "BOTH" => lm'[l].fsubs = 0
                        /\ Going(l, lm[l].fsubs)'
      BY <1>6 DEF Sided
    <2> QED BY <1>3, <1>8 DEF PairingInv, Sided, Coming, Going
  <1> QED BY <1>7, <1>9, <1>13, <1>10, <1>11 DEF PairingInv

\* What a cut leaves of its two lines.
LEMMA Halves ==
  ASSUME NEW r \in Manifests
  PROVE  /\ CutTail(r) \in Manifests /\ CutHead(r) \in Manifests
         /\ r.role = "BOTH" =>
              /\ CutTail(r).role = "PART2" /\ CutTail(r).fwd = 0
              /\ CutTail(r).pair = r.pair /\ CutTail(r).pairPage = r.pairPage
              /\ CutHead(r).role = "PART1" /\ CutHead(r).fwd = 0
              /\ CutHead(r).pair = r.fwd /\ CutHead(r).pairPage = r.fwdPage
         /\ r.role # "BOTH" =>
              /\ CutTail(r).role = "NONE" /\ CutTail(r).pair = 0
              /\ CutHead(r).role = "NONE" /\ CutHead(r).pair = 0
              /\ CutTail(r).fwd = r.fwd /\ CutHead(r).fwd = r.fwd
              /\ CutTail(r).fwdPage = r.fwdPage /\ CutHead(r).fwdPage = r.fwdPage
  <1>1. 0 \in Slots /\ <<>> \in Names /\ 0 \in Spellings
    BY DEF Slots, Names, Spellings
  <1>2. CASE r.role = "BOTH"
    <2>1. CutTail(r) = [r EXCEPT !.role = "PART2", !.fwd = 0, !.fwdPage = <<>>, !.fsubs = 0]
      BY <1>2 DEF CutTail
    <2>2. CutHead(r) = [r EXCEPT !.role = "PART1", !.pair = r.fwd, !.pairPage = r.fwdPage,
                                 !.subs = r.fsubs, !.srcExp = r.fwdExp,
                                 !.fwd = 0, !.fwdPage = <<>>, !.fsubs = 0]
      BY <1>2 DEF CutHead
    <2>3. CutTail(r) \in Manifests
      BY <1>1, <2>1 DEF Manifests, Roles
    <2>4. CutHead(r) \in Manifests
      BY <1>1, <2>2 DEF Manifests, Roles
    <2>5. /\ CutTail(r).role = "PART2" /\ CutTail(r).fwd = 0
          /\ CutTail(r).pair = r.pair /\ CutTail(r).pairPage = r.pairPage
      BY <2>1 DEF Manifests
    <2>6. /\ CutHead(r).role = "PART1" /\ CutHead(r).fwd = 0
          /\ CutHead(r).pair = r.fwd /\ CutHead(r).pairPage = r.fwdPage
      BY <2>2 DEF Manifests
    <2> QED BY <1>2, <2>3, <2>4, <2>5, <2>6
  <1>3. CASE r.role # "BOTH"
    <2>1. /\ CutTail(r) = [r EXCEPT !.role = "NONE", !.pair = 0, !.pairPage = <<>>, !.subs = 0]
          /\ CutHead(r) = [r EXCEPT !.role = "NONE", !.pair = 0, !.pairPage = <<>>, !.subs = 0]
      BY <1>3 DEF CutTail, CutHead
    <2>2. CutTail(r) \in Manifests /\ CutHead(r) \in Manifests
      BY <1>1, <2>1 DEF Manifests, Roles
    <2>3. /\ CutTail(r).role = "NONE" /\ CutTail(r).pair = 0
          /\ CutHead(r).role = "NONE" /\ CutHead(r).pair = 0
          /\ CutTail(r).fwd = r.fwd /\ CutHead(r).fwd = r.fwd
          /\ CutTail(r).fwdPage = r.fwdPage /\ CutHead(r).fwdPage = r.fwdPage
      BY <2>1 DEF Manifests
    <2> QED BY <1>3, <2>2, <2>3
  <1> QED BY <1>2, <1>3

\* The markup on the two lines of a cut.
LEMMA HalvesMarks ==
  ASSUME NEW r \in Manifests
  PROVE  /\ r.role = "BOTH" =>
              /\ CutTail(r).subs = r.subs /\ CutTail(r).fsubs = 0
              /\ CutHead(r).subs = r.fsubs /\ CutHead(r).fsubs = 0
              /\ CutHead(r).srcExp = r.fwdExp
         /\ r.role # "BOTH" =>
              /\ CutTail(r).subs = 0 /\ CutTail(r).fsubs = r.fsubs
              /\ CutHead(r).subs = 0 /\ CutHead(r).fsubs = r.fsubs
  <1>1. CASE r.role = "BOTH"
    <2>1. CutTail(r) = [r EXCEPT !.role = "PART2", !.fwd = 0, !.fwdPage = <<>>, !.fsubs = 0]
      BY <1>1 DEF CutTail
    <2>2. CutHead(r) = [r EXCEPT !.role = "PART1", !.pair = r.fwd, !.pairPage = r.fwdPage,
                                 !.subs = r.fsubs, !.srcExp = r.fwdExp,
                                 !.fwd = 0, !.fwdPage = <<>>, !.fsubs = 0]
      BY <1>1 DEF CutHead
    <2> QED BY <1>1, <2>1, <2>2 DEF Manifests
  <1>2. CASE r.role # "BOTH"
    <2>1. /\ CutTail(r) = [r EXCEPT !.role = "NONE", !.pair = 0, !.pairPage = <<>>, !.subs = 0]
          /\ CutHead(r) = [r EXCEPT !.role = "NONE", !.pair = 0, !.pairPage = <<>>, !.subs = 0]
      BY <1>2 DEF CutTail, CutHead
    <2> QED BY <1>2, <2>1 DEF Manifests
  <1> QED BY <1>1, <1>2

LEMMA SplitKeeps ==
  ASSUME PairingInv, Split
  PROVE  PairingInv'
  <1>1. PICK t \in Lines :
          /\ Forward(t) # 0 /\ PageOf[Forward(t)] = PageOf[t]
          /\ lm' = [lm EXCEPT ![t] = CutTail(@), ![Forward(t)] = CutHead(@)]
          /\ splits' = splits \cup {<<t, Forward(t)>>}
    BY DEF Split
  <1>2. phase = "linked" /\ UNCHANGED <<source, phase, at, name>>
    BY DEF Split
  <1>3. \A l \in Lines : lm[l] \in Manifests /\ Forward(l) \in Slots /\ Backward(l) \in Slots
    BY Readings, Read1 DEF PairingInv, Types
  <1>4. PICK h \in Lines : /\ h = Forward(t) /\ PageOf[h] = PageOf[t]
                           /\ Consecutive(t, h) /\ Backward(h) = t /\ t # h
    BY <1>1, <1>3, NoZero DEF PairingInv, Linked, Slots, Consecutive
  <1>5. /\ lm'[t] = CutTail(lm[t]) /\ lm'[h] = CutHead(lm[h])
        /\ \A l \in Lines : l # t /\ l # h => lm'[l] = lm[l]
        /\ lm' = [l \in Lines |-> lm'[l]]
    <2>1. lm \in [Lines -> Manifests] BY DEF PairingInv, Types
    <2> QED BY <1>1, <1>4, <2>1
  <1>6. lm[t].role \in {"PART1", "BOTH"} /\ lm[h].role \in {"PART2", "BOTH"}
    BY <1>1, <1>3, <1>4, NoZero, Readings, Read1
  <1>7. /\ Forward(t)' = 0 /\ Backward(t)' = Backward(t)
        /\ Forward(h)' = Forward(h) /\ Backward(h)' = 0
        /\ \A l \in Lines : l # t /\ l # h => Forward(l)' = Forward(l) /\ Backward(l)' = Backward(l)
    <2>1. CutTail(lm[t]) \in Manifests /\ CutHead(lm[h]) \in Manifests
      BY <1>3, <1>4, Halves
    <2>2. Forward(t)' = 0 /\ Backward(t)' = Backward(t)
      BY <1>3, <1>5, <1>6, <2>1, Halves, Readings, Read1, Read2
    <2>3. Forward(h)' = Forward(h) /\ Backward(h)' = 0
      BY <1>3, <1>4, <1>5, <1>6, <2>1, Halves, Readings, Read1, Read2
    <2>4. \A l \in Lines : l # t /\ l # h => Forward(l)' = Forward(l) /\ Backward(l)' = Backward(l)
      BY <1>5, Read1, Read2
    <2> QED BY <2>2, <2>3, <2>4
  <1>8. Types'
    <2>1. \A l \in Lines : lm'[l] \in Manifests
      BY <1>3, <1>4, <1>5, Halves
    <2>2. lm' \in [Lines -> Manifests]
      BY ONLY <2>1, <1>5
    <2>3. \A l \in Lines : /\ lm'[l].role # "BOTH" => lm'[l].fwd = 0
                           /\ lm'[l].role = "NONE" => lm'[l].pair = 0
      <3> TAKE l \in Lines
      <3>1. /\ lm[l].role # "BOTH" => lm[l].fwd = 0
            /\ lm[l].role = "NONE" => lm[l].pair = 0
        BY DEF PairingInv, Types
      <3>2. CASE l = t BY <3>1, <3>2, <1>3, <1>5, Halves
      <3>3. CASE l = h BY <3>1, <3>3, <1>3, <1>5, Halves
      <3>4. CASE l # t /\ l # h BY <3>1, <3>4, <1>5
      <3> QED BY <3>2, <3>3, <3>4
    <2> QED BY <1>2, <2>2, <2>3 DEF PairingInv, Types
  <1>9. Linked'
    <2>1. \A a, b : Consecutive(a, b)' <=> Consecutive(a, b)
      BY <1>2 DEF Consecutive, Substantive
    <2>2. ASSUME NEW a \in Lines, NEW b \in Lines, Forward(a)' = b
          PROVE  Consecutive(a, b)' /\ Backward(b)' = a
      <3>1. a # t /\ Forward(a) = b
        BY <1>7, <2>2, NoZero
      <3>2. Consecutive(a, b) /\ Backward(b) = a /\ b # h
        BY <3>1, <1>4 DEF PairingInv, Linked
      <3> QED BY <3>2, <2>1, <1>7
    <2>3. ASSUME NEW a \in Lines, NEW b \in Lines, Backward(b)' = a
          PROVE  Consecutive(a, b)' /\ (Forward(a)' = b \/ Seamed(a)')
      <3>1. b # h /\ Backward(b) = a
        BY <1>7, <2>3, NoZero
      <3>2. Consecutive(a, b) /\ (Forward(a) = b \/ Seamed(a))
        BY <3>1 DEF PairingInv, Linked
      <3>3. CASE Forward(a) = b
        <4>1. a # t BY <1>4, <3>1, <3>3
        <4> QED BY <4>1, <3>2, <3>3, <2>1, <1>7
      <3>4. CASE Seamed(a)
        <4>1. a # h BY <3>4, <1>4 DEF Seamed
        <4>2. Backward(a)' = Backward(a) BY <4>1, <1>7
        <4> QED BY <3>4, <4>2, <3>2, <2>1 DEF Seamed
      <3> QED BY <3>2, <3>3, <3>4
    <2> QED BY <2>2, <2>3 DEF Linked
  <1>10. Referring'
    <2> SUFFICES ASSUME NEW l \in Lines
                 PROVE  /\ lm'[l].pair # 0 => lm'[l].pairPage = name[PageOf[lm'[l].pair]]
                        /\ lm'[l].fwd # 0 => lm'[l].fwdPage = name[PageOf[lm'[l].fwd]]
      BY <1>2 DEF Referring
    <2>1. /\ lm[l].pair # 0 => lm[l].pairPage = name[PageOf[lm[l].pair]]
          /\ lm[l].fwd # 0 => lm[l].fwdPage = name[PageOf[lm[l].fwd]]
      BY DEF PairingInv, Referring
    <2>2. CASE l = t BY <2>1, <2>2, <1>3, <1>5, Halves
    <2>3. CASE l = h BY <2>1, <2>3, <1>3, <1>5, Halves
    <2>4. CASE l # t /\ l # h BY <2>1, <2>4, <1>5
    <2> QED BY <2>2, <2>3, <2>4
  <1>11. Accounted'
    <2> SUFFICES ASSUME NEW l \in Lines, source[l].mark # "no"
                 PROVE  Opens(lm'[l]) \/ \E k \in splits' : k[1] = l
      BY <1>2 DEF Accounted
    <2>1. Opens(lm[l]) \/ \E k \in splits : k[1] = l
      BY DEF PairingInv, Accounted
    <2>2. CASE \E k \in splits : k[1] = l BY <2>2, <1>1
    <2>3. CASE l = t
      <3>1. <<t, h>> \in splits' BY <1>1, <1>4
      <3>2. <<t, h>>[1] = l BY <2>3
      <3> QED BY <3>1, <3>2
    <2>4. CASE l = h BY <2>1, <2>2, <2>4, <1>3, <1>5, <1>6, Halves DEF Opens
    <2>5. CASE l # t /\ l # h BY <2>1, <2>2, <2>5, <1>5
    <2> QED BY <2>2, <2>3, <2>4, <2>5
  <1>12. Named' /\ NothingAhead'
    BY <1>2 DEF PairingInv, Named, NothingAhead
  <1>13. Sided'
    <2>1. \A l \in Lines : \A x : Going(l, x) /\ l # t => Going(l, x)'
      <3>1. \A m \in Lines : m # h => Backward(m)' = Backward(m) BY <1>7
      <3> QED BY <3>1, <1>4, NoZero DEF Going
    <2>2. \A l \in Lines : \A x : Coming(l, x) /\ l # h => Coming(l, x)'
      BY <1>7 DEF Coming
    <2> SUFFICES ASSUME NEW l \in Lines
                 PROVE  /\ lm'[l].role = "PART1" => /\ lm'[l].srcExp <=> source[l].mark = "explicit"
                                                    /\ Going(l, lm[l].subs)'
                        /\ lm'[l].role = "BOTH" => (lm'[l].fwdExp <=> source[l].mark = "explicit")
                        /\ lm'[l].role # "PART1" => Coming(l, lm[l].subs)'
                        /\ lm'[l].role # "BOTH" => lm'[l].fsubs = 0
                        /\ Going(l, lm[l].fsubs)'
      BY <1>2 DEF Sided
    <2>3. /\ lm[l].role = "PART1" => /\ lm[l].srcExp <=> source[l].mark = "explicit"
                                     /\ Going(l, lm[l].subs)
          /\ lm[l].role = "BOTH" => (lm[l].fwdExp <=> source[l].mark = "explicit")
          /\ lm[l].role # "PART1" => Coming(l, lm[l].subs)
          /\ lm[l].role # "BOTH" => lm[l].fsubs = 0
          /\ Going(l, lm[l].fsubs)
      BY DEF PairingInv, Sided
    <2>4. CASE l = t
      <3>1. \A x : Coming(t, x) => Coming(t, x)' BY <2>2, <1>4
      <3>2. Coming(t, 0)' /\ Going(t, 0)' BY DEF Coming, Going
      <3>3. CASE lm[t].role = "BOTH"
        <4>1. lm'[t].role = "PART2" /\ lm'[t].subs = lm[t].subs /\ lm'[t].fsubs = 0
          BY <3>3, <1>3, <1>5, Halves, HalvesMarks
        <4>2. Coming(t, lm[t].subs) BY <2>3, <2>4, <3>3
        <4> QED BY <4>1, <4>2, <3>1, <3>2, <2>4
      <3>4. CASE lm[t].role # "BOTH"
        <4>1. lm'[t].role = "NONE" /\ lm'[t].subs = 0 /\ lm'[t].fsubs = lm[t].fsubs
          BY <3>4, <1>3, <1>5, Halves, HalvesMarks
        <4>2. lm[t].fsubs = 0 BY <2>3, <2>4, <3>4
        <4> QED BY <4>1, <4>2, <3>2, <2>4
      <3> QED BY <3>3, <3>4
    <2>5. CASE l = h
      <3>1. \A x : Going(h, x) => Going(h, x)' BY <2>1, <1>4
      <3>2. Coming(h, 0)' /\ Going(h, 0)' BY DEF Coming, Going
      <3>3. CASE lm[h].role = "BOTH"
        <4>1. /\ lm'[h].role = "PART1" /\ lm'[h].subs = lm[h].fsubs /\ lm'[h].fsubs = 0
              /\ lm'[h].srcExp = lm[h].fwdExp
          BY <3>3, <1>3, <1>5, Halves, HalvesMarks
        <4>2. /\ Going(h, lm[h].fsubs)
              /\ lm[h].fwdExp <=> source[h].mark = "explicit"
          BY <2>3, <2>5, <3>3
        <4> QED BY <4>1, <4>2, <3>1, <3>2, <2>5
      <3>4. CASE lm[h].role # "BOTH"
        <4>1. lm'[h].role = "NONE" /\ lm'[h].subs = 0 /\ lm'[h].fsubs = lm[h].fsubs
          BY <3>4, <1>3, <1>5, Halves, HalvesMarks
        <4>2. lm[h].fsubs = 0 BY <2>3, <2>5, <3>4
        <4> QED BY <4>1, <4>2, <3>2, <2>5
      <3> QED BY <3>3, <3>4
    <2>6. CASE l # t /\ l # h
      BY <1>5, <2>1, <2>2, <2>3, <2>6 DEF Coming, Going
    <2> QED BY <2>4, <2>5, <2>6
  <1> QED BY <1>8, <1>9, <1>10, <1>11, <1>12, <1>13 DEF PairingInv

----
\* What a parser reads of a line: no links yet, and a role that says how it ends.
LEMMA ReadLine ==
  ASSUME NEW fmt \in {"alto", "page"}, NEW src \in [Lines -> LineSources], NEW l \in Lines,
         fmt = "page" => src[l].mark # "explicit" /\ ~src[l].part2
  PROVE  /\ Read(l, fmt, src) \in Manifests
         /\ Read(l, fmt, src).pair = 0 /\ Read(l, fmt, src).fwd = 0
         /\ src[l].mark # "no" => Opens(Read(l, fmt, src))
         /\ LET r == Read(l, fmt, src)
            IN  /\ r.role = "PART1" => /\ r.srcExp <=> src[l].mark = "explicit"
                                       /\ r.subs \in {0, l}
                /\ r.role = "BOTH" => (r.fwdExp <=> src[l].mark = "explicit")
                /\ r.role # "PART1" => r.subs \in {0, -l}
                /\ r.role # "BOTH" => r.fsubs = 0
                /\ r.fsubs \in {0, l}
  <1> DEFINE role == IF fmt = "page" THEN PageRole(l, src) ELSE AltoRole(src[l])
  <1>1. src[l].mark \in Marks /\ src[l].part2 \in BOOLEAN
    BY DEF LineSources
  <1>2. role \in Roles /\ (src[l].mark # "no" => role \in {"PART1", "BOTH"})
    <2>1. PageRole(l, src) \in Roles /\ (src[l].mark # "no" => PageRole(l, src) \in {"PART1", "BOTH"})
      BY DEF PageRole, Roles
    <2>2. AltoRole(src[l]) \in Roles /\ (src[l].mark # "no" => AltoRole(src[l]) \in {"PART1", "BOTH"})
      <3>1. CASE src[l].part2 /\ src[l].mark # "no" BY <3>1 DEF AltoRole, Roles
      <3>2. CASE src[l].part2 /\ src[l].mark = "no" BY <3>2 DEF AltoRole, Roles
      <3>3. CASE ~src[l].part2 /\ src[l].mark # "no" BY <3>3 DEF AltoRole, Roles
      <3>4. CASE ~src[l].part2 /\ src[l].mark = "no" BY <3>4 DEF AltoRole, Roles
      <3> QED BY <1>1, <3>1, <3>2, <3>3, <3>4
    <2> QED BY <2>1, <2>2
  <1> DEFINE out == src[l].mark = "explicit"
             part2 == src[l].part2
             subs == IF part2 THEN -l ELSE IF out THEN l ELSE 0
             fsubs == IF part2 /\ out THEN l ELSE 0
  <1>3. subs \in Spellings /\ fsubs \in Spellings
    BY NoZero DEF Spellings
  <1>4. 0 \in Slots /\ <<>> \in Names
    BY DEF Slots, Names
  <1>5. Read(l, fmt, src) =
          [role |-> role, pair |-> 0, pairPage |-> <<>>, fwd |-> 0, fwdPage |-> <<>>,
           srcExp |-> part2 \/ out, fwdExp |-> part2 /\ out, subs |-> subs, fsubs |-> fsubs]
    BY DEF Read
  <1>6. (part2 \/ out) \in BOOLEAN /\ (part2 /\ out) \in BOOLEAN
    OBVIOUS
  <1>9. /\ role = "PART1" => ((part2 \/ out) <=> out) /\ subs \in {0, l}
        /\ role = "BOTH" => ((part2 /\ out) <=> out)
        /\ role # "PART1" => subs \in {0, -l}
        /\ role # "BOTH" => fsubs = 0
        /\ fsubs \in {0, l}
    <2>1. CASE fmt = "page"
      BY <2>1
    <2>2. CASE fmt = "alto"
      <3>1. role = AltoRole(src[l]) BY <2>2
      <3>2. CASE part2 /\ src[l].mark # "no" BY <3>1, <3>2 DEF AltoRole
      <3>3. CASE part2 /\ src[l].mark = "no" BY <3>1, <3>3 DEF AltoRole
      <3>4. CASE ~part2 /\ src[l].mark # "no" BY <3>1, <3>4 DEF AltoRole
      <3>5. CASE ~part2 /\ src[l].mark = "no" BY <3>1, <3>5 DEF AltoRole
      <3> QED BY <1>1, <3>2, <3>3, <3>4, <3>5
    <2> QED BY <2>1, <2>2
  <1> HIDE DEF role, part2, subs, fsubs
  <1>7. Read(l, fmt, src) \in Manifests
    BY <1>2, <1>3, <1>4, <1>5, <1>6 DEF Manifests
  <1>8. Read(l, fmt, src).pair = 0 /\ Read(l, fmt, src).fwd = 0 /\ Read(l, fmt, src).role = role
    BY <1>5
  <1>10. /\ Read(l, fmt, src).subs = subs /\ Read(l, fmt, src).fsubs = fsubs
         /\ Read(l, fmt, src).srcExp = (part2 \/ out) /\ Read(l, fmt, src).fwdExp = (part2 /\ out)
    BY <1>5
  <1> QED BY <1>2, <1>7, <1>8, <1>9, <1>10 DEF Opens

LEMMA InitHolds == Init => PairingInv
  <1> SUFFICES ASSUME Init PROVE PairingInv
    OBVIOUS
  <1>1. /\ source \in [Lines -> LineSources] /\ phase = "link" /\ at = 0 /\ splits = {}
        /\ lm = [l \in Lines |-> Read(l, format, source)] /\ format \in {"alto", "page"}
        /\ format = "page" => \A l \in Lines : source[l].mark # "explicit" /\ ~source[l].part2
        /\ name = [p \in Pages |-> <<Declared[p]>>]
    BY DocumentsAssumption DEF Init, Pages
  <1>2. \A l \in Lines : /\ lm[l] \in Manifests /\ lm[l].pair = 0 /\ lm[l].fwd = 0
                         /\ source[l].mark # "no" => Opens(lm[l])
    BY <1>1, ReadLine
  <1>3. \A l \in Lines : Forward(l) = 0 /\ Backward(l) = 0
    BY <1>2, Readings, Read1
  <1>4. Types
    <2>1. lm \in [Lines -> Manifests]
      BY <1>1, <1>2
    <2>2. name \in [Pages -> Names]
      BY <1>1 DEF Names
    <2> QED BY <1>1, <1>2, <2>1, <2>2 DEF Types
  <1>5. Linked /\ NothingAhead
    BY <1>3, NoZero DEF Linked, NothingAhead
  <1>6. Referring /\ Accounted
    BY <1>2 DEF Referring, Accounted
  <1>7. Named
    BY <1>1 DEF Named
  <1>8. Sided
    BY <1>1, ReadLine DEF Sided, Coming, Going
  <1> QED BY <1>4, <1>5, <1>6, <1>7, <1>8 DEF PairingInv

LEMMA InvHolds == Spec => []PairingInv
  <1>1. PairingInv /\ [Next]_vars => PairingInv'
    <2> SUFFICES ASSUME PairingInv, [Next]_vars PROVE PairingInv'
      OBVIOUS
    <2>1. CASE LinkLine BY <2>1, LinkLineKeeps
    <2>2. CASE PagesLinked \/ SeamsLinked BY <2>2, TurnsKeep
    <2>3. CASE Rename BY <2>3, RenameKeeps
    <2>4. CASE LinkSeam BY <2>4, LinkSeamKeeps
    <2>5. CASE Split BY <2>5, SplitKeeps
    <2>6. CASE UNCHANGED vars
      BY <2>6 DEF vars, PairingInv, Types, Linked, Seamed, Consecutive, Substantive, Forward,
         Backward, NothingAhead, Referring, Named, Accounted, Sided, Coming, Going
    <2> QED BY <2>1, <2>2, <2>3, <2>4, <2>5, <2>6 DEF Next
  <1> QED BY InitHolds, <1>1, PTL DEF Spec

----
\* What every other module assumes of the links holds of what the linker and the
\* planner's cuts leave (core/pairing.py, core/units.py), for any document and policy.
THEOREM LinksAreSound == Spec => []LinkedOnce
  <1>1. PairingInv => LinkedOnce
    <2> SUFFICES ASSUME PairingInv PROVE LinkedOnce
      OBVIOUS
    <2>1. \A l \in Lines : Forward(l) \in Slots /\ Backward(l) \in Slots
      BY Readings, Read1 DEF PairingInv, Types
    <2>2. ASSUME NEW k \in LinksOf
          PROVE  /\ k[1] \in Lines /\ k[2] \in Lines /\ Forward(k[1]) = k[2]
                 /\ Consecutive(k[1], k[2]) /\ Backward(k[2]) = k[1] /\ k = <<k[1], k[2]>>
      <3>1. PICK l \in Lines : Forward(l) # 0 /\ k = <<l, Forward(l)>>
        BY DEF LinksOf
      <3>2. Forward(l) \in Lines
        BY <3>1, <2>1 DEF Slots
      <3> QED BY <3>1, <3>2 DEF PairingInv, Linked
    <2>3. WellLinked(LinksOf)
      <3>1. \A k \in LinksOf : k[1] < k[2]
        BY <2>2 DEF Consecutive
      <3>2. ASSUME NEW j \in LinksOf, NEW k \in LinksOf, j[1] = k[1] \/ j[2] = k[2]
            PROVE  j = k
        BY <2>2, <3>2
      <3>3. ASSUME NEW j \in LinksOf, NEW k \in LinksOf
            PROVE  ~(j[1] < k[1] /\ k[1] < j[2]) /\ ~(j[1] < k[2] /\ k[2] < j[2])
        BY <2>2 DEF Consecutive
      <3> QED BY <3>1, <3>2, <3>3 DEF WellLinked
    <2>4. \A k \in LinksOf : Backward(k[2]) = k[1] /\ Substantive(k[2])
      BY <2>2 DEF Consecutive
    <2>5. ASSUME NEW l \in Lines, Backward(l) # 0
          PROVE  Forward(Backward(l)) = l \/ SeamHead(Backward(l))
      <3>1. PICK t \in Lines : Backward(l) = t
        BY <2>1, <2>5 DEF Slots
      <3>2. Forward(t) = l \/ Seamed(t)
        BY <3>1 DEF PairingInv, Linked
      <3>3. Seamed(t) => SeamHead(t)
        BY NoZero DEF Seamed, SeamHead
      <3> QED BY <3>1, <3>2, <3>3
    <2> QED BY <2>3, <2>4, <2>5 DEF LinkedOnce
  <1> QED BY <1>1, InvHolds, PTL

\* No break a file marks is ever lost in silence (unpaired_break_refs).
THEOREM NoBreakLost == Spec => []BreaksAccounted
  <1>1. PairingInv => BreaksAccounted
    BY DEF PairingInv, Accounted, BreaksAccounted, Unpaired
  <1> QED BY <1>1, InvHolds, PTL

\* Every reference resolves, through the renaming of shared page ids
\* (disambiguate_page_ids).
THEOREM ReferencesResolve == Spec => []Resolves
  <1>1. PairingInv => Resolves
    BY DEF PairingInv, Referring, Named, Resolves, Pages
  <1> QED BY <1>1, InvHolds, PTL

\* Explicitness and SUBS_CONTENT stay with the word they were written on
\* (link_hyphen_pairs, split_forward_link).
THEOREM MarkupStays == Spec => []OwnMarkup
  <1>1. PairingInv => OwnMarkup
    <2> SUFFICES ASSUME PairingInv, NEW l \in Lines
                 PROVE  /\ Opens(lm[l]) => (ForwardExplicit(lm[l]) <=> source[l].mark = "explicit")
                        /\ lm[l].role = "PART1" => Going(l, lm[l].subs)
                        /\ lm[l].role # "PART1" => Coming(l, lm[l].subs)
                        /\ Going(l, lm[l].fsubs)
      BY DEF OwnMarkup, Going, Coming
    <2>1. Opens(lm[l]) => (ForwardExplicit(lm[l]) <=> source[l].mark = "explicit")
      <3>1. CASE lm[l].role = "PART1" BY <3>1 DEF PairingInv, Sided, ForwardExplicit
      <3>2. CASE lm[l].role = "BOTH" BY <3>2 DEF PairingInv, Sided, ForwardExplicit
      <3> QED BY <3>1, <3>2 DEF Opens
    <2> QED BY <2>1 DEF PairingInv, Sided
  <1> QED BY <1>1, InvHolds, PTL
====
