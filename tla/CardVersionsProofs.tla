------------------------- MODULE CardVersionsProofs -------------------------
(***************************************************************************)
(* Proofs about CardVersions, for any editors, fuse jobs, requests and     *)
(* bounds.                                                                 *)
(***************************************************************************)
EXTENDS CardVersions, TLAPS, WellFoundedInduction

VersionRows == [by : {"", "job"} \union Editors, base : 0..MaxVersions,
                blended : SUBSET Parents, lineage : Seq(Refs)]

Shape ==
    /\ current \in [Cards -> 0..MaxVersions]
    /\ version \in [Cards -> [Numbers -> VersionRows]]
    /\ edit \in [Editors -> [card : 0..MaxCards, base : 0..MaxVersions]]
    /\ fusion \in [Fusions -> [step : {"idle", "load", "over"}, refs : Seq(Refs),
                               loaded : Seq(Numbers)]]

\* An edit in flight loaded a version that was current once.
EditMeaning ==
    \A e \in Editors :
        edit[e] # NoEdit => /\ edit[e].card \in Cards
                            /\ edit[e].base \in 1..current[edit[e].card]

\* What a fuse job has loaded belongs to the references in front, and is stored.
FusionMeaning ==
    \A f \in Fusions :
        /\ fusion[f].refs \in Requested \union {<<>>}
        /\ Len(fusion[f].loaded) <= Len(fusion[f].refs)
        /\ \A n \in 1..Len(fusion[f].loaded) :
              /\ fusion[f].refs[n].version # 0 =>
                    fusion[f].loaded[n] = fusion[f].refs[n].version
              /\ Exists(fusion[f].refs[n].card, fusion[f].loaded[n])

BasesBelow == \A c \in Cards, v \in Numbers : version[c][v].base \in 0..(v - 1)

IInv == /\ Shape /\ EditMeaning /\ FusionMeaning /\ BasesBelow
        /\ CurrentIsLast /\ EditsBuildOnLast /\ LineageIsBlended

----------------------------------------------------------------------------
\* A set of positions has a last one: what the code's map keeps of several assignments.
LEMMA HasLast ==
  ASSUME NEW n \in Nat, NEW T \in SUBSET (1..n), T # {}
  PROVE  \E m \in T : \A k \in T : k <= m
<1> DEFINE R == OpToRel(<, Nat)
           D == {n - k : k \in T}
<1>1. IsWellFoundedOn(R, Nat)
  BY NatLessThanWellFounded
<1>2. \A y, x \in Nat : y < x => <<y, x>> \in R
  BY DEF OpToRel
<1> HIDE DEF R
<1>3. \A k \in T : k \in Nat /\ n - k \in Nat
  BY SMT
<1>4. D \subseteq Nat /\ D # {}
  BY <1>3
<1>5. PICK x \in D : \A y \in D : ~ (<<y, x>> \in R)
  <2> HIDE DEF D
  <2> QED
    BY <1>1, <1>4, WFMin
<1>6. PICK m \in T : x = n - m
  OBVIOUS
<1>7. \A k \in T : ~(n - k < n - m)
  BY <1>2, <1>3, <1>5, <1>6
<1> QED
  BY <1>3, <1>7, SMT

\* Blend finds a loaded version for every reference: that of the last one to its card.
LEMMA ParentFacts ==
  ASSUME NEW q, q.refs \in Seq(Refs), q.loaded \in Seq(Numbers),
         Len(q.loaded) = Len(q.refs), NEW n \in DOMAIN q.refs
  PROVE  /\ ParentOf(q, n) \in Parents
         /\ \E m \in 1..Len(q.refs) :
               /\ q.refs[m].card = q.refs[n].card
               /\ \A k \in DOMAIN q.refs : q.refs[k].card = q.refs[n].card => k <= m
               /\ ParentOf(q, n) = [card |-> q.refs[n].card, version |-> q.loaded[m]]
<1> DEFINE same == {m \in DOMAIN q.refs : q.refs[m].card = q.refs[n].card}
           last == CHOOSE m \in same : \A k \in same : k <= m
<1>1. DOMAIN q.refs = 1..Len(q.refs) /\ Len(q.refs) \in Nat /\ n \in same
  OBVIOUS
<1>2. \E m \in same : \A k \in same : k <= m
  BY <1>1, HasLast
<1>3. last \in same /\ \A k \in same : k <= last
  BY <1>2
<1>4. q.loaded[last] \in Numbers /\ q.refs[n].card \in Cards
  <2>1. last \in 1..Len(q.loaded) /\ n \in 1..Len(q.refs)
    BY <1>1, <1>3
  <2> HIDE DEF last
  <2>2. q.loaded[last] \in Numbers /\ q.refs[n] \in Refs
    BY <2>1
  <2> QED
    BY <2>2 DEF Refs
<1>5. ParentOf(q, n) = [card |-> q.refs[n].card, version |-> q.loaded[last]]
  BY DEF ParentOf
<1> HIDE DEF last
<1> QED
  BY <1>1, <1>3, <1>4, <1>5 DEF Parents

LEMMA InitInv == Init => IInv
<1> SUFFICES ASSUME Init PROVE IInv
  OBVIOUS
<1> USE BoundsAssumption
<1>1. NoRow \in VersionRows
  BY DEF NoRow, VersionRows
<1>2. Shape
  <2>1. current \in [Cards -> 0..MaxVersions] /\ version \in [Cards -> [Numbers -> VersionRows]]
    BY <1>1 DEF Init
  <2>2. edit \in [Editors -> [card : 0..MaxCards, base : 0..MaxVersions]]
    BY DEF Init, NoEdit
  <2>3. Unstarted \in [step : {"idle", "load", "over"}, refs : Seq(Refs), loaded : Seq(Numbers)]
    BY DEF Unstarted
  <2> QED
    BY <2>1, <2>2, <2>3 DEF Shape, Init
<1>3. EditMeaning
  BY DEF EditMeaning, Init
<1>4. FusionMeaning
  <2>1. Unstarted.refs = <<>> /\ Unstarted.loaded = <<>>
    BY DEF Unstarted
  <2> QED
    BY <2>1 DEF FusionMeaning, Init
<1>5. CurrentIsLast
  BY DEF CurrentIsLast, Exists, Init, Numbers
<1>6. BasesBelow /\ EditsBuildOnLast /\ LineageIsBlended
  <2>1. NoRow.base = 0 /\ NoRow.lineage = <<>> /\ NoRow.blended = {}
    BY DEF NoRow
  <2>2. \A c \in Cards, v \in Numbers : version[c][v] = NoRow
    BY DEF Init
  <2>3. LineageIsBlended
    BY <2>1, <2>2 DEF LineageIsBlended
  <2>4. BasesBelow
    BY <2>1, <2>2 DEF BasesBelow, Numbers
  <2>5. EditsBuildOnLast
    BY DEF EditsBuildOnLast, Init, Numbers
  <2> QED
    BY <2>3, <2>4, <2>5
<1> QED
  BY <1>2, <1>3, <1>4, <1>5, <1>6 DEF IInv

----------------------------------------------------------------------------
\* Writing row r as the next version of card c: what persistCard and persistNewVersion
\* have in common.
Grows(c, r) ==
    /\ current[c] + 1 \in Numbers
    /\ current' = [current EXCEPT ![c] = @ + 1]
    /\ version' = [version EXCEPT ![c][current[c] + 1] = r]

\* What LineageIsBlended says of a row: of its lineage, and of the parents it was blended from.
Fits(lineage, blended) ==
    /\ \A n \in DOMAIN lineage :
          \E p \in blended :
              /\ p.card = lineage[n].card
              /\ \/ lineage[n].version \in {0, p.version}
                 \/ \E m \in DOMAIN lineage : m > n /\ lineage[m].card = p.card
    /\ \A p, q \in blended : p.card = q.card => p = q
Faithful(row) == Fits(row.lineage, row.blended)
Founded(row) == \A p \in row.blended : Exists(p.card, p.version)

Tables == /\ current \in [Cards -> 0..MaxVersions]
          /\ version \in [Cards -> [Numbers -> VersionRows]]
          /\ BasesBelow /\ CurrentIsLast /\ EditsBuildOnLast /\ LineageIsBlended

LEMMA GrowStep ==
  ASSUME Tables, NEW c \in Cards, NEW r \in VersionRows, r # NoRow, r.base = current[c],
         Faithful(r), Founded(r), Grows(c, r)
  PROVE  /\ Tables'
         /\ \A d \in Cards : current[d] <= current'[d]
         /\ \A d \in Cards, v \in Numbers : Exists(d, v) => version'[d][v] = version[d][v]
<1> DEFINE n == current[c] + 1
<1>1. n \in Numbers /\ n \in Nat /\ current[c] \in Nat /\ current[c] = n - 1
  <2>1. current[c] \in Nat
    BY BoundsAssumption DEF Tables
  <2>2. n \in Numbers
    BY DEF Grows
  <2> QED
    BY <2>1, <2>2
<1>2. /\ current' = [current EXCEPT ![c] = n]
      /\ version' = [version EXCEPT ![c] = [version[c] EXCEPT ![n] = r]]
  BY DEF Grows
<1> HIDE DEF n
<1>3. version'[c][n] = r /\ \A d \in Cards, v \in Numbers : d # c \/ v # n => version'[d][v] = version[d][v]
  BY <1>1, <1>2 DEF Tables
<1>4. current'[c] = n /\ \A d \in Cards : d # c => current'[d] = current[d]
  BY <1>1, <1>2 DEF Tables
<1>5. /\ current' \in [Cards -> 0..MaxVersions]
      /\ version' \in [Cards -> [Numbers -> VersionRows]]
  BY <1>1, <1>2 DEF Tables, Numbers
<1>6. BasesBelow'
  BY <1>1, <1>3 DEF Tables, BasesBelow, Numbers
<1>7. CurrentIsLast'
  <2> SUFFICES ASSUME NEW d \in Cards, NEW v \in Numbers
               PROVE  version'[d][v] # NoRow <=> v <= current'[d]
    BY DEF CurrentIsLast, Exists
  <2>1. version[d][v] # NoRow <=> v <= current[d]
    BY DEF Tables, CurrentIsLast, Exists
  <2>2. CASE d # c
    BY <1>3, <1>4, <2>1, <2>2
  <2>3. CASE d = c /\ v = n
    BY <1>1, <1>3, <1>4, <2>3
  <2>4. CASE d = c /\ v # n
    BY <1>1, <1>3, <1>4, <2>1, <2>4 DEF Numbers
  <2> QED
    BY <2>2, <2>3, <2>4
<1>8. EditsBuildOnLast'
  <2> SUFFICES ASSUME NEW d \in Cards, NEW v \in Numbers, v > 1, v <= current'[d]
               PROVE  version'[d][v].base = v - 1
    BY DEF EditsBuildOnLast
  <2>1. CASE d = c /\ v = n
    BY <1>1, <1>3, <2>1
  <2>2. CASE d # c \/ v # n
    <3>1. v <= current[d]
      BY <1>1, <1>4, <2>2 DEF Numbers
    <3> QED
      BY <1>3, <2>2, <3>1 DEF Tables, EditsBuildOnLast
  <2> QED
    BY <2>1, <2>2
<1>9. \A d \in Cards : current[d] <= current'[d]
  BY <1>1, <1>4 DEF Tables
<1>10. ASSUME NEW d \in Cards, NEW v \in Numbers, Exists(d, v)
       PROVE  version'[d][v] = version[d][v]
  <2>1. v <= current[d]
    BY <1>10 DEF Tables, CurrentIsLast
  <2> QED
    BY <1>1, <1>3, <2>1 DEF Numbers
<1>11. LineageIsBlended'
  <2>1. \A d \in Cards, v \in Numbers : Faithful(version[d][v]) /\ Founded(version[d][v])
    BY DEF Tables, LineageIsBlended, Faithful, Fits, Founded
  <2>2. \A d \in Cards, v \in Numbers : Faithful(version'[d][v]) /\ Founded(version'[d][v])
    <3> TAKE d \in Cards, v \in Numbers
    <3>1. version'[d][v] = r \/ version'[d][v] = version[d][v]
      BY <1>3
    <3> QED
      BY <2>1, <3>1
  <2>3. \A d \in Cards, v \in Numbers : version'[d][v].blended \subseteq Parents
    BY <1>5 DEF VersionRows
  <2>4. \A d \in Cards, v \in Numbers : Exists(d, v) => Exists(d, v)'
    BY <1>10 DEF Exists
  <2>5. \A d \in Cards, v \in Numbers : \A p \in version'[d][v].blended : Exists(p.card, p.version)'
    BY <2>2, <2>3, <2>4 DEF Founded, Parents
  <2> QED
    BY <2>2, <2>5 DEF LineageIsBlended, Faithful, Fits
<1> QED
  BY <1>5, <1>6, <1>7, <1>8, <1>9, <1>10, <1>11 DEF Tables

----------------------------------------------------------------------------
\* A card's first version: what Insert asks of its row.
LEMMA InsertStep ==
  ASSUME Tables, NEW c \in Cards, NEW r \in VersionRows, r.base = 0, r.by = "job",
         Faithful(r), Founded(r), Insert(c, r)
  PROVE  /\ Tables'
         /\ \A d \in Cards : current[d] <= current'[d]
         /\ \A d \in Cards, v \in Numbers : Exists(d, v) => version'[d][v] = version[d][v]
<1>1. current[c] = 0
  BY DEF Insert
<1>2. r # NoRow
  <2>1. NoRow.by = ""
    BY DEF NoRow
  <2> QED
    BY <2>1
<1>3. Grows(c, r)
  BY <1>1, BoundsAssumption DEF Insert, Grows, Numbers
<1> QED
  BY <1>1, <1>2, <1>3, GrowStep

\* An edit keeps what the version was blended from.
LEMMA EditedRow ==
  ASSUME NEW row \in VersionRows, NEW e \in Editors, NEW n \in 1..MaxVersions
  PROVE  /\ Edited(row, e, n) \in VersionRows /\ Edited(row, e, n).base = n
         /\ Edited(row, e, n).lineage = row.lineage
         /\ Edited(row, e, n).blended = row.blended
         /\ Edited(row, e, n) # NoRow
<1>1. n \in 0..MaxVersions /\ n # 0
  BY BoundsAssumption
<1>2. Edited(row, e, n) = [by |-> e, base |-> n, blended |-> row.blended, lineage |-> row.lineage]
  BY DEF Edited
<1>3. NoRow.base = 0
  BY DEF NoRow
<1>4. row.blended \in SUBSET Parents /\ row.lineage \in Seq(Refs)
  BY DEF VersionRows
<1>5. Edited(row, e, n) \in VersionRows
  <2>1. \A s \in SUBSET Parents, l \in Seq(Refs) :
           [by |-> e, base |-> n, blended |-> s, lineage |-> l] \in VersionRows
    BY <1>1 DEF VersionRows
  <2> QED
    BY <1>2, <1>4, <2>1, Zenon
<1> QED
  BY <1>1, <1>2, <1>3, <1>5

\* The next version by an edit that finds the number it loaded.
LEMMA PersistStep ==
  ASSUME Tables, EditMeaning, Shape, NEW e \in Editors, PersistVersion(e)
  PROVE  /\ Tables'
         /\ \A d \in Cards : current[d] <= current'[d]
         /\ \A d \in Cards, v \in Numbers : Exists(d, v) => version'[d][v] = version[d][v]
<1> DEFINE c == edit[e].card
           b == edit[e].base
           r == Edited(version[c][b], e, b)
<1>1. c \in Cards /\ b \in Nat \ {0} /\ current[c] \in 0..MaxVersions /\ b <= current[c]
      /\ b \in Numbers
  BY BoundsAssumption DEF PersistVersion, EditMeaning, Shape, Numbers
<1>2. CASE current[c] = b
  <2>1. version[c][b] \in VersionRows
    BY <1>1 DEF Shape
  <2>2. r \in VersionRows /\ r.base = b /\ r.lineage = version[c][b].lineage
        /\ r.blended = version[c][b].blended /\ r # NoRow
    <3>1. b \in 1..MaxVersions
      BY <1>1 DEF Numbers
    <3> QED
      BY <2>1, <3>1, EditedRow
  <2>4. Faithful(r) /\ Founded(r)
    <3>1. Faithful(version[c][b]) /\ Founded(version[c][b])
      BY <1>1 DEF Tables, LineageIsBlended, Faithful, Fits, Founded
    <3>2. PICK old : old = version[c][b]
      OBVIOUS
    <3>3. r.lineage = old.lineage /\ r.blended = old.blended /\ Faithful(old) /\ Founded(old)
      BY <2>2, <3>1, <3>2
    <3> HIDE DEF r
    <3>4. Faithful(r)
      BY <3>3 DEF Faithful
    <3> QED
      BY <3>3, <3>4 DEF Founded
  <2>5. Grows(c, r)
    <3>1. (b + 1) - 1 = b /\ b + 1 \in Numbers
      BY <1>1, BoundsAssumption DEF PersistVersion, Numbers
    <3>2. /\ current' = [current EXCEPT ![c] = b + 1]
          /\ version' = [version EXCEPT ![c][b + 1] = r]
      BY <1>2, <3>1 DEF PersistVersion
    <3> QED
      BY <1>2, <3>1, <3>2 DEF Grows
  <2> HIDE DEF r
  <2> QED
    BY <1>1, <1>2, <2>2, <2>4, <2>5, GrowStep
<1>3. CASE current[c] # b
  <2>1. UNCHANGED <<current, version>>
    BY <1>3 DEF PersistVersion
  <2> QED
    BY <2>1, BoundsAssumption DEF Tables, BasesBelow, CurrentIsLast, EditsBuildOnLast,
                                  LineageIsBlended, Exists
<1> QED
  BY <1>2, <1>3

\* The card a fusion makes.
LEMMA FusedRow ==
  ASSUME Shape, FusionMeaning, NEW f \in Fusions, Len(fusion[f].loaded) = Len(fusion[f].refs)
  PROVE  /\ Fresh(Blended(fusion[f]), fusion[f].refs) \in VersionRows
         /\ Faithful(Fresh(Blended(fusion[f]), fusion[f].refs))
         /\ Founded(Fresh(Blended(fusion[f]), fusion[f].refs))
<1> DEFINE q == fusion[f]
           row == Fresh(Blended(q), q.refs)
<1>1. q.refs \in Seq(Refs) /\ q.loaded \in Seq(Numbers)
  BY DEF Shape
<1>2. row.lineage = q.refs /\ row.blended = Blended(q) /\ row.by = "job" /\ row.base = 0
      /\ row = [by |-> "job", base |-> 0, blended |-> Blended(q), lineage |-> q.refs]
  BY DEF Fresh
<1>3. Blended(q) \subseteq Parents
  BY <1>1, ParentFacts DEF Blended
<1>4. row \in VersionRows
  BY <1>1, <1>2, <1>3, BoundsAssumption DEF VersionRows
<1>5. DOMAIN q.refs = 1..Len(q.refs) /\ Len(q.refs) \in Nat
      /\ \A n \in DOMAIN q.refs : q.refs[n] \in Refs
  BY <1>1
<1>6. \A n \in 1..Len(q.refs) : /\ q.refs[n].version # 0 => q.loaded[n] = q.refs[n].version
                                /\ Exists(q.refs[n].card, q.loaded[n])
  BY DEF FusionMeaning
<1> DEFINE Last(n, m) == /\ q.refs[m].card = q.refs[n].card
                         /\ \A k \in DOMAIN q.refs : q.refs[k].card = q.refs[n].card => k <= m
                         /\ ParentOf(q, n) = [card |-> q.refs[n].card, version |-> q.loaded[m]]
<1>7. \A n \in DOMAIN q.refs : \E m \in 1..Len(q.refs) : Last(n, m)
  BY <1>1, ParentFacts
<1> HIDE DEF q
<1>8. ASSUME NEW n \in DOMAIN q.refs
      PROVE  \E p \in Blended(q) :
                 /\ p.card = q.refs[n].card
                 /\ \/ q.refs[n].version \in {0, p.version}
                    \/ \E m \in DOMAIN q.refs : m > n /\ q.refs[m].card = p.card
  <2>1. PICK m \in 1..Len(q.refs) : Last(n, m)
    BY <1>7
  <2>2. ParentOf(q, n) \in Blended(q)
    BY DEF Blended
  <2>3. n <= m /\ m \in DOMAIN q.refs /\ n \in 1..Len(q.refs)
    BY <1>5, <2>1
  <2>4. CASE m = n
    BY <1>6, <2>1, <2>2, <2>3, <2>4
  <2>5. CASE m # n
    BY <2>1, <2>2, <2>3, <2>5
  <2> QED
    BY <2>4, <2>5
<1>9. ASSUME NEW p \in Blended(q), NEW o \in Blended(q), p.card = o.card PROVE p = o
  <2>1. PICK n \in DOMAIN q.refs, k \in DOMAIN q.refs : p = ParentOf(q, n) /\ o = ParentOf(q, k)
    BY DEF Blended
  <2>2. PICK m \in 1..Len(q.refs), l \in 1..Len(q.refs) : Last(n, m) /\ Last(k, l)
    BY <1>7
  <2>3. q.refs[n].card = q.refs[k].card
    BY <1>9, <2>1, <2>2
  <2>4. m <= l /\ l <= m
    BY <1>5, <2>2, <2>3
  <2> QED
    BY <1>5, <2>1, <2>2, <2>3, <2>4
<1>10. ASSUME NEW p \in Blended(q) PROVE Exists(p.card, p.version)
  <2>1. PICK n \in DOMAIN q.refs : p = ParentOf(q, n)
    BY DEF Blended
  <2>2. PICK m \in 1..Len(q.refs) : Last(n, m)
    BY <1>7
  <2> QED
    BY <1>6, <2>1, <2>2
<1> HIDE DEF row, Last
<1>11. Faithful(row)
  BY <1>2, <1>8, <1>9 DEF Faithful, Fits
<1>12. Founded(row)
  BY <1>2, <1>10 DEF Founded
<1> QED
  BY <1>4, <1>11, <1>12 DEF row, q

----------------------------------------------------------------------------
\* What an edit loaded stays a version of its card.
LEMMA EditStep ==
  ASSUME Shape, EditMeaning, Shape', [Next]_vars,
         \A d \in Cards : current[d] <= current'[d]
  PROVE  EditMeaning'
<1> SUFFICES ASSUME NEW e \in Editors, edit'[e] # NoEdit
             PROVE  edit'[e].card \in Cards /\ edit'[e].base \in 1..current'[edit'[e].card]
  BY DEF EditMeaning
<1>1. \A d \in Cards : current[d] \in Nat /\ current'[d] \in Nat
  BY BoundsAssumption DEF Shape
<1>2. CASE edit'[e] = edit[e]
  BY <1>1, <1>2 DEF EditMeaning
<1>3. ASSUME NEW x \in Editors, edit' = [edit EXCEPT ![x] = NoEdit]
      PROVE  edit'[e] = edit[e]
  BY <1>3 DEF Shape
<1>4. ASSUME NEW x \in Editors, NEW c \in Cards, LoadCard(x, c), edit'[e] # edit[e]
      PROVE  edit'[e].card \in Cards /\ edit'[e].base \in 1..current'[edit'[e].card]
  <2>1. edit'[e] = [card |-> c, base |-> current[c]] /\ current[c] # 0 /\ current' = current
    BY <1>4 DEF LoadCard, Shape
  <2> QED
    BY <1>1, <2>1
<1> QED
  BY <1>2, <1>3, <1>4 DEF Next, Edits, Fuses, RejectEdit, PersistVersion, BeginFuse, LoadParent,
                          FailFuse, PersistFused, Extract, vars

LEMMA FusionStep ==
  ASSUME Shape, FusionMeaning, Tables, [Next]_vars,
         \A d \in Cards, v \in Numbers : Exists(d, v) => version'[d][v] = version[d][v]
  PROVE  /\ FusionMeaning'
         /\ fusion' \in [Fusions -> [step : {"idle", "load", "over"}, refs : Seq(Refs),
                                     loaded : Seq(Numbers)]]
<1> DEFINE Jobs == [step : {"idle", "load", "over"}, refs : Seq(Refs), loaded : Seq(Numbers)]
           Means(q) == /\ q.refs \in Requested \union {<<>>}
                       /\ Len(q.loaded) <= Len(q.refs)
                       /\ \A n \in 1..Len(q.loaded) :
                             /\ q.refs[n].version # 0 => q.loaded[n] = q.refs[n].version
                             /\ Exists(q.refs[n].card, q.loaded[n])
<1>1. fusion \in [Fusions -> Jobs] /\ \A f \in Fusions : Means(fusion[f])
  BY DEF Shape, FusionMeaning
<1>2. ASSUME NEW f \in Fusions, NEW q \in Jobs, Means(q), fusion' = [fusion EXCEPT ![f] = q]
      PROVE  fusion' \in [Fusions -> Jobs] /\ \A g \in Fusions : Means(fusion'[g])
  <2> HIDE DEF Jobs, Means
  <2> QED
    BY <1>1, <1>2
<1>3. ASSUME NEW f \in Fusions, NEW refs \in Requested, BeginFuse(f, refs)
      PROVE  fusion' \in [Fusions -> Jobs] /\ \A g \in Fusions : Means(fusion'[g])
  <2> DEFINE q == [step |-> "load", refs |-> refs, loaded |-> <<>>]
  <2>1. refs \in Seq(Refs)
    BY RequestedAssumption
  <2>2. q \in Jobs /\ Means(q)
    BY <2>1
  <2>3. fusion' = [fusion EXCEPT ![f] = q]
    BY <1>3 DEF BeginFuse
  <2> QED
    BY <1>2, <2>2, <2>3
<1>4. ASSUME NEW f \in Fusions, fusion' = [fusion EXCEPT ![f] = [Unstarted EXCEPT !.step = "over"]]
      PROVE  fusion' \in [Fusions -> Jobs] /\ \A g \in Fusions : Means(fusion'[g])
  <2> DEFINE q == [Unstarted EXCEPT !.step = "over"]
  <2>1. q = [step |-> "over", refs |-> <<>>, loaded |-> <<>>]
    BY DEF Unstarted
  <2>2. q \in Jobs
    <3>1. <<>> \in Seq(Refs) /\ <<>> \in Seq(Numbers)
      OBVIOUS
    <3> HIDE DEF q
    <3> QED
      BY <2>1, <3>1
  <2>3. q.refs = <<>> /\ q.loaded = <<>>
    BY <2>1
  <2> HIDE DEF q, Jobs
  <2>4. Means(q)
    BY <2>3
  <2> QED
    BY <1>2, <1>4, <2>2, <2>4 DEF q
<1>5. ASSUME NEW f \in Fusions, LoadParent(f)
      PROVE  fusion' \in [Fusions -> Jobs] /\ \A g \in Fusions : Means(fusion'[g])
  <2> DEFINE old == fusion[f]
             n == Len(old.loaded) + 1
             a == Asked(old.refs[n])
             q == [old EXCEPT !.loaded = Append(old.loaded, a)]
  <2>1. old \in Jobs /\ Means(old) /\ a # 0 /\ Len(old.loaded) < Len(old.refs)
    BY <1>1, <1>5 DEF LoadParent
  <2>2. n \in 1..Len(old.refs) /\ old.refs[n] \in Refs
    BY <2>1
  <2>3. /\ a \in Numbers /\ (old.refs[n].version # 0 => a = old.refs[n].version)
        /\ Exists(old.refs[n].card, a)
    <3> HIDE DEF old, n
    <3>1. old.refs[n].card \in Cards /\ old.refs[n].version \in 0..MaxVersions
      BY <2>2 DEF Refs
    <3> QED
      BY <2>1, <3>1, BoundsAssumption DEF Asked, Shape, Numbers, Tables, CurrentIsLast
  <2>4. fusion' = [fusion EXCEPT ![f] = q]
    BY <1>1, <1>5 DEF LoadParent
  <2> HIDE DEF a
  <2>5. q \in Jobs /\ q.refs = old.refs /\ q.loaded = Append(old.loaded, a)
    <3> HIDE DEF old
    <3>1. Append(old.loaded, a) \in Seq(Numbers)
      BY <2>1, <2>3
    <3>2. q \in Jobs
      BY <2>1, <3>1
    <3>3. q.refs = old.refs /\ q.loaded = Append(old.loaded, a)
      BY <2>1
    <3> QED
      BY <3>2, <3>3
  <2>6. Means(q)
    <3>1. Len(q.loaded) = n /\ q.loaded[n] = a
          /\ \A k \in 1..Len(old.loaded) : q.loaded[k] = old.loaded[k]
      BY <2>1, <2>3, <2>5
    <3> HIDE DEF q
    <3> QED
      BY <2>1, <2>2, <2>3, <2>5, <3>1
  <2> QED
    BY <1>2, <2>4, <2>5, <2>6
<1>6. ASSUME fusion' = fusion
      PROVE  fusion' \in [Fusions -> Jobs] /\ \A g \in Fusions : Means(fusion'[g])
  BY <1>1, <1>6
<1>7. fusion' \in [Fusions -> Jobs] /\ \A g \in Fusions : Means(fusion'[g])
  <2> HIDE DEF Jobs, Means
  <2> QED
    BY <1>3, <1>4, <1>5, <1>6 DEF Next, Edits, Fuses, RejectEdit, PersistVersion, LoadCard,
                                  FailFuse, PersistFused, Extract, vars
<1>8. ASSUME NEW g \in Fusions, NEW n \in 1..Len(fusion'[g].loaded)
      PROVE  version'[fusion'[g].refs[n].card][fusion'[g].loaded[n]] # NoRow
  <2>1. /\ fusion'[g].refs \in Seq(Refs) /\ fusion'[g].loaded \in Seq(Numbers)
        /\ Len(fusion'[g].loaded) <= Len(fusion'[g].refs)
        /\ Exists(fusion'[g].refs[n].card, fusion'[g].loaded[n])
    BY <1>7
  <2>2. fusion'[g].refs[n] \in Refs /\ fusion'[g].loaded[n] \in Numbers
    BY <2>1
  <2> QED
    BY <2>1, <2>2 DEF Refs, Exists
<1> QED
  BY <1>7, <1>8 DEF FusionMeaning, Exists

----------------------------------------------------------------------------
LEMMA InvStep ==
  ASSUME IInv, [Next]_vars
  PROVE  /\ IInv'
         /\ \A d \in Cards, v \in Numbers : Exists(d, v) => version'[d][v] = version[d][v]
<1>1. Tables
  BY DEF IInv, Tables, Shape
<1> DEFINE Fixed == \A d \in Cards, v \in Numbers : Exists(d, v) => version'[d][v] = version[d][v]
           More == \A d \in Cards : current[d] <= current'[d]
<1>2. ASSUME UNCHANGED <<current, version>> PROVE Tables' /\ More /\ Fixed
  <2>1. \A d \in Cards : current[d] \in Nat
    BY BoundsAssumption DEF IInv, Shape
  <2> QED
    <3>1. BasesBelow' /\ CurrentIsLast' /\ EditsBuildOnLast'
      BY <1>1, <1>2 DEF Tables, BasesBelow, CurrentIsLast, EditsBuildOnLast, Exists
    <3>2. LineageIsBlended'
      BY <1>1, <1>2 DEF Tables, LineageIsBlended, Exists
    <3>3. More /\ Fixed
      BY <1>2, <2>1
    <3> QED
      BY <1>1, <1>2, <3>1, <3>2, <3>3 DEF Tables
<1>3. ASSUME NEW c \in Cards, Extract(c) PROVE Tables' /\ More /\ Fixed
  <2> DEFINE r == Fresh({}, <<>>)
  <2>1. /\ r \in VersionRows /\ r.base = 0 /\ r.by = "job" /\ r.lineage = <<>>
        /\ r.blended = {}
    BY BoundsAssumption DEF Fresh, VersionRows
  <2>2. Faithful(r) /\ Founded(r)
    BY <2>1 DEF Faithful, Fits, Founded
  <2> QED
    BY <1>1, <1>3, <2>1, <2>2, InsertStep DEF Extract
<1>4. ASSUME NEW e \in Editors, PersistVersion(e) PROVE Tables' /\ More /\ Fixed
  BY <1>1, <1>4, PersistStep DEF IInv
<1>5. ASSUME NEW f \in Fusions, NEW c \in Cards, PersistFused(f, c)
      PROVE  Tables' /\ More /\ Fixed
  <2> DEFINE r == Fresh(Blended(fusion[f]), fusion[f].refs)
  <2>1. r \in VersionRows /\ Faithful(r) /\ Founded(r)
    BY <1>5, FusedRow DEF IInv, PersistFused
  <2>2. r.base = 0 /\ r.by = "job"
    BY DEF Fresh
  <2>3. Insert(c, r)
    BY <1>5 DEF PersistFused
  <2> HIDE DEF r
  <2> QED
    BY <1>1, <2>1, <2>2, <2>3, InsertStep
<1>6. Tables' /\ More /\ Fixed
  <2> HIDE DEF More, Fixed
  <2> QED
    BY <1>2, <1>3, <1>4, <1>5 DEF Next, Edits, Fuses, RejectEdit, LoadCard, BeginFuse, LoadParent,
                                  FailFuse, vars
<1>7. edit' \in [Editors -> [card : 0..MaxCards, base : 0..MaxVersions]]
  <2>1. edit \in [Editors -> [card : 0..MaxCards, base : 0..MaxVersions]]
        /\ \A d \in Cards : current[d] \in 0..MaxVersions
    BY DEF IInv, Shape
  <2>2. NoEdit \in [card : 0..MaxCards, base : 0..MaxVersions]
    BY BoundsAssumption DEF NoEdit
  <2>3. ASSUME NEW x \in Editors, NEW c \in Cards, LoadCard(x, c)
        PROVE  edit' \in [Editors -> [card : 0..MaxCards, base : 0..MaxVersions]]
    BY <2>1, <2>3, BoundsAssumption DEF LoadCard, Cards
  <2> QED
    BY <2>1, <2>2, <2>3 DEF Next, Edits, Fuses, RejectEdit, PersistVersion, BeginFuse, LoadParent,
                            FailFuse, PersistFused, Extract, vars
<1>8. FusionMeaning' /\ Shape'
  BY <1>1, <1>6, <1>7, FusionStep DEF IInv, Shape, Tables
<1>9. EditMeaning'
  BY <1>6, <1>8, EditStep DEF IInv
<1> QED
  BY <1>6, <1>8, <1>9 DEF IInv, Tables

LEMMA Invariance == Spec => []IInv
<1>1. IInv /\ [Next]_vars => IInv'
  BY InvStep
<1> QED
  BY InitInv, <1>1, PTL DEF Spec

\* Rows, edits and fuse jobs keep their types; every version is an edit of a lower one.
THEOREM TypeCorrect == Spec => []TypeOK
<1>1. IInv => TypeOK
  <2> SUFFICES ASSUME IInv PROVE TypeOK
    OBVIOUS
  <2>1. \A c \in Cards, v \in Numbers : version[c][v] \in VersionRows
    BY DEF IInv, Shape
  <2>2. \A c \in Cards, v \in Numbers :
           LET row == version[c][v] IN
           /\ row.by \in {"", "job"} \union Editors
           /\ row.base \in 0..(v - 1)
           /\ row.blended \subseteq Parents
           /\ \A n \in DOMAIN row.lineage : row.lineage[n] \in Refs
    <3> SUFFICES ASSUME NEW c \in Cards, NEW v \in Numbers, NEW row, row = version[c][v]
                 PROVE  /\ row.by \in {"", "job"} \union Editors
                        /\ row.base \in 0..(v - 1)
                        /\ row.blended \subseteq Parents
                        /\ \A n \in DOMAIN row.lineage : row.lineage[n] \in Refs
      OBVIOUS
    <3>1. row.base \in 0..(v - 1)
      BY DEF IInv, BasesBelow
    <3>2. /\ row.by \in {"", "job"} \union Editors /\ row.blended \subseteq Parents
          /\ row.lineage \in Seq(Refs)
      BY <2>1 DEF VersionRows
    <3>3. \A l \in Seq(Refs) : \A n \in DOMAIN l : l[n] \in Refs
      OBVIOUS
    <3>4. \A n \in DOMAIN row.lineage : row.lineage[n] \in Refs
      BY <3>2, <3>3, Zenon
    <3> QED
      BY <3>1, <3>2, <3>4
  <2>3. \A e \in Editors : edit[e].card \in 0..MaxCards /\ edit[e].base \in 0..MaxVersions
    BY DEF IInv, Shape
  <2>4. \A f \in Fusions : /\ fusion[f].refs \in Requested \union {<<>>}
                           /\ fusion[f].step \in {"idle", "load", "over"}
                           /\ Len(fusion[f].loaded) <= Len(fusion[f].refs)
    BY DEF IInv, Shape, FusionMeaning
  <2> QED
    BY <2>2, <2>3, <2>4 DEF TypeOK, IInv, Shape
<1> QED
  BY <1>1, Invariance, PTL

\* The number of the current version and the rows of the versions agree.
THEOREM Consistency == Spec => []CurrentIsLast
BY Invariance, PTL DEF IInv

\* No edit is lost, for any number of edits in flight.
THEOREM NoLostEdit == Spec => []EditsBuildOnLast
BY Invariance, PTL DEF IInv

\* A lineage names the versions that were blended, for requests with any references.
THEOREM Lineage == Spec => []LineageIsBlended
BY Invariance, PTL DEF IInv

\* No step changes or removes a version.
THEOREM Immutability == Spec => VersionsAreFixed
<1>1. IInv /\ [Next]_vars =>
        [\A c \in Cards, v \in Numbers :
            Exists(c, v) => version'[c][v] = version[c][v]]_vars
  BY InvStep
<1> QED
  BY <1>1, Invariance, PTL DEF Spec, VersionsAreFixed
=============================================================================
