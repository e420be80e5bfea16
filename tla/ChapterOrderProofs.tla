------------------------- MODULE ChapterOrderProofs -------------------------
(***************************************************************************)
(* Proofs about ChapterOrder, for any chapters, requests and lengths of an *)
(* import: the numbers are unique, they have no gap as long as no write    *)
(* was based on a stale read, and the order of what stays never changes.   *)
(***************************************************************************)
EXTENDS ChapterOrder, TLAPS

\* A create works with an id of its own that has no row yet, and every request with a
\* position that some chapter has or may get.
RequestMeaning ==
    \A r \in Requests :
        /\ request[r].op # "none" => request[r].seq > 0
        /\ request[r].op = "create" =>
              /\ seq[request[r].chapter] = 0
              /\ \A s \in Requests \ {r} :
                    request[s].op = "create" => request[s].chapter # request[r].chapter

IInv == TypeOK /\ RequestMeaning /\ Numbering

----------------------------------------------------------------------------
\* A number IsMaxSeq accepts is a natural number and bounds the positions.
LEMMA MaxSeq ==
  ASSUME TypeOK, NEW m \in {0} \union {seq[d] : d \in Present}, IsMaxSeq(m)
  PROVE  m \in Nat /\ \A c \in Present : seq[c] <= m
BY DEF TypeOK, IsMaxSeq, Last, Present

\* What the guard of Import says of the list it passes on.
LEMMA ListFacts ==
  ASSUME NEW n \in 1..MaxImport, NEW list \in [1..n -> Ids \ issued], issued \subseteq Ids
  PROVE  /\ {list[i] : i \in DOMAIN list} \subseteq Ids \ issued
         /\ \A c \in {list[i] : i \in DOMAIN list} :
               LET k == CHOOSE i \in DOMAIN list : list[i] = c IN
               k \in Nat \ {0} /\ k \in DOMAIN list /\ list[k] = c
<1>1. DOMAIN list = 1..n /\ n \in Nat
  BY MaxImportAssumption
<1>2. \A c \in {list[i] : i \in DOMAIN list} : \E i \in DOMAIN list : list[i] = c
  OBVIOUS
<1> QED
  BY <1>1, <1>2

LEMMA InitInv == Init => IInv
<1> SUFFICES ASSUME Init PROVE IInv
  OBVIOUS
<1> USE NoIdAssumption DEF Init, Idle
<1>1. TypeOK
  BY DEF TypeOK, Present
<1>2. RequestMeaning
  BY DEF RequestMeaning
<1>3. Numbering
  BY DEF Numbering, SeqUnique, NoGaps, Present
<1> QED
  BY <1>1, <1>2, <1>3 DEF IInv

----------------------------------------------------------------------------
\* Every step keeps types and what a request holds.
LEMMA RequestStep ==
  ASSUME TypeOK, RequestMeaning, [Next]_vars
  PROVE  TypeOK' /\ RequestMeaning'
<1> USE NoIdAssumption
<1>1. ASSUME NEW r \in Requests, NEW c \in Ids, ReadNextSeq(r, c)
      PROVE  TypeOK' /\ RequestMeaning'
  <2>1. PICK m \in {0} \union {seq[d] : d \in Present} :
          /\ IsMaxSeq(m)
          /\ request' = [request EXCEPT ![r] = [op |-> "create", chapter |-> c, seq |-> m + 1]]
    BY <1>1 DEF ReadNextSeq
  <2>2. m \in Nat
    BY <2>1, MaxSeq
  <2>3. seq' = seq /\ issued' = issued \union {c} /\ overlapped' = overlapped /\ c \notin issued
    BY <1>1 DEF ReadNextSeq
  <2>4. TypeOK'
    BY <2>1, <2>2, <2>3 DEF TypeOK, Present
  <2>5. seq[c] = 0 /\ \A s \in Requests : request[s].op = "create" => request[s].chapter # c
    BY <2>3 DEF TypeOK, Present
  <2> QED
    BY <2>1, <2>2, <2>3, <2>4, <2>5 DEF TypeOK, RequestMeaning
<1>2. ASSUME NEW r \in Requests, NEW c \in Ids, ReadSeq(r, c)
      PROVE  TypeOK' /\ RequestMeaning'
  BY <1>2 DEF ReadSeq, TypeOK, RequestMeaning, Present
<1>3. ASSUME NEW r \in Requests, InsertChapter(r)
      PROVE  TypeOK' /\ RequestMeaning'
  <2>1. /\ request' = [request EXCEPT ![r] = Idle] /\ issued' = issued
        /\ request[r].op = "create" /\ request[r].chapter \in Ids /\ request[r].seq \in Nat \ {0}
    BY <1>3 DEF InsertChapter, TypeOK, RequestMeaning
  <2>2. \/ seq' = seq
        \/ seq' = [seq EXCEPT ![request[r].chapter] = request[r].seq]
    BY <1>3 DEF InsertChapter
  <2>3. overlapped' \in BOOLEAN
    BY <1>3 DEF InsertChapter, TypeOK
  <2>4. TypeOK'
    BY <2>1, <2>2, <2>3 DEF TypeOK, Present, Idle
  <2>5. RequestMeaning'
    BY <2>1, <2>2 DEF TypeOK, RequestMeaning, Idle
  <2> QED
    BY <2>4, <2>5
<1>4. ASSUME NEW r \in Requests, DeleteChapter(r)
      PROVE  TypeOK' /\ RequestMeaning'
  <2>1. /\ request' = [request EXCEPT ![r] = Idle] /\ issued' = issued
        /\ request[r].chapter \in Ids /\ request[r].seq \in Nat \ {0}
    BY <1>4 DEF DeleteChapter, TypeOK, RequestMeaning
  <2>2. seq' = seq \/ seq' = Without(request[r].chapter, request[r].seq)
    BY <1>4 DEF DeleteChapter
  <2>3. overlapped' \in BOOLEAN
    BY <1>4 DEF DeleteChapter, TypeOK
  <2>4. seq' \in [Ids -> Nat] /\ \A d \in Ids : seq[d] = 0 => seq'[d] = 0
    BY <2>1, <2>2 DEF Without, TypeOK
  <2>5. TypeOK'
    BY <2>1, <2>3, <2>4 DEF TypeOK, Present, Idle
  <2>6. RequestMeaning'
    BY <2>1, <2>4 DEF TypeOK, RequestMeaning, Idle
  <2> QED
    BY <2>5, <2>6
<1>5. ASSUME NEW replace \in BOOLEAN, NEW n \in 1..MaxImport,
             NEW list \in [1..n -> Ids \ issued], ImportOutline(replace, list)
      PROVE  TypeOK' /\ RequestMeaning'
  <2> DEFINE new == {list[i] : i \in DOMAIN list}
             at(c) == CHOOSE i \in DOMAIN list : list[i] = c
  <2>1. PICK m \in {0} \union {seq[d] : d \in Present} :
          /\ IF replace THEN m = 0 ELSE IsMaxSeq(m)
          /\ seq' = [c \in Ids |-> IF c \in new THEN m + at(c)
                                   ELSE IF replace THEN 0 ELSE seq[c]]
    BY <1>5 DEF ImportOutline
  <2>2. m \in Nat
    BY <2>1 DEF TypeOK, Present
  <2>3. issued' = issued \union new /\ request' = request /\ overlapped' = overlapped
    BY <1>5 DEF ImportOutline
  <2>4. new \subseteq Ids \ issued /\ \A c \in new : at(c) \in Nat \ {0}
    BY ListFacts DEF TypeOK
  <2> HIDE DEF new, at
  <2>5. TypeOK'
    BY <2>1, <2>2, <2>3, <2>4 DEF TypeOK, Present
  <2>6. RequestMeaning'
    BY <2>1, <2>3, <2>4 DEF TypeOK, RequestMeaning
  <2> QED
    BY <2>5, <2>6
<1>6. CASE UNCHANGED vars
  BY <1>6 DEF vars, TypeOK, RequestMeaning, Present
<1> QED
  BY <1>1, <1>2, <1>3, <1>4, <1>5, <1>6 DEF Next, Import

----------------------------------------------------------------------------
\* Inserting at a number nobody has, right after the last one unless the read was stale.
LEMMA InsertNumbering ==
  ASSUME IInv, NEW r \in Requests, InsertChapter(r)
  PROVE  Numbering'
<1> DEFINE c == request[r].chapter
           n == request[r].seq
<1>1. c \in Ids /\ n \in Nat \ {0} /\ seq[c] = 0 /\ seq \in [Ids -> Nat]
  BY NoIdAssumption DEF IInv, TypeOK, RequestMeaning, InsertChapter
<1>2. CASE Taken(n)
  BY <1>2 DEF InsertChapter, IInv, Numbering, SeqUnique, NoGaps, Taken, Present
<1>3. CASE ~Taken(n)
  <2> HIDE DEF c, n
  <2>1. seq' = [seq EXCEPT ![c] = n] /\ overlapped' = (overlapped \/ ~IsMaxSeq(n - 1))
    BY <1>3 DEF InsertChapter, c, n
  <2>2. SeqUnique'
    BY <1>1, <1>3, <2>1 DEF IInv, Numbering, SeqUnique, Taken, Present
  <2>3. ASSUME ~overlapped' PROVE NoGaps'
    <3>1. NoGaps /\ IsMaxSeq(n - 1)
      BY <2>1, <2>3 DEF IInv, Numbering
    <3>2. \A k \in 1..(n - 1) : \E d \in Ids : seq[d] = k
      BY <1>1, <3>1 DEF NoGaps, IsMaxSeq, Last, Present, Taken
    <3>3. \A k \in 1..n : \E d \in Ids : seq'[d] = k
      BY <1>1, <2>1, <3>2
    <3>4. \A d \in Ids \ {c} : \A k \in 1..seq[d] : \E e \in Ids : seq'[e] = k
      <4> SUFFICES ASSUME NEW d \in Ids \ {c}, NEW k \in 1..seq[d]
                   PROVE  \E e \in Ids : seq'[e] = k
        OBVIOUS
      <4>1. PICK e \in Ids : seq[e] = k
        BY <1>1, <3>1 DEF NoGaps, Taken, Present
      <4>2. e # c /\ seq'[e] = k
        BY <1>1, <2>1, <4>1
      <4> QED
        BY <4>2
    <3> QED
      BY <1>1, <2>1, <3>3, <3>4 DEF NoGaps, Taken, Present
  <2> QED
    BY <2>2, <2>3 DEF Numbering
<1> QED
  BY <1>2, <1>3

\* Closing a gap. With a stale number a row would have to move onto one that stays, if the
\* numbers had no gap before; then the transaction is rolled back.
LEMMA DeleteNumbering ==
  ASSUME IInv, NEW r \in Requests, DeleteChapter(r)
  PROVE  Numbering'
<1> DEFINE c == request[r].chapter
           n == request[r].seq
<1>1. c \in Ids /\ n \in Nat \ {0} /\ seq \in [Ids -> Nat]
  BY NoIdAssumption DEF IInv, TypeOK, RequestMeaning, DeleteChapter
<1>2. CASE Collides(Without(c, n))
  BY <1>2 DEF DeleteChapter, IInv, Numbering, SeqUnique, NoGaps, Taken, Present
<1>3. CASE ~Collides(Without(c, n))
  <2> HIDE DEF c, n
  <2>1. seq' = Without(c, n) /\ overlapped' = (overlapped \/ seq[c] \notin {0, n})
    BY <1>3 DEF DeleteChapter, c, n
  <2>2. SeqUnique'
    BY <1>1, <1>3, <2>1 DEF SeqUnique, Collides, Present, Without
  <2>3. ASSUME ~overlapped' PROVE NoGaps'
    <3>1. NoGaps /\ SeqUnique /\ seq[c] \in {0, n}
      BY <2>1, <2>3 DEF IInv, Numbering
    <3>2. CASE seq[c] = n
      <4>1. \A d \in Ids \ {c} : seq[d] # n
        BY <1>1, <3>1, <3>2 DEF SeqUnique, Present
      <4> SUFFICES ASSUME NEW d \in Ids, seq'[d] # 0, NEW k \in 1..seq'[d]
                   PROVE  \E e \in Ids : seq'[e] = k
        BY DEF NoGaps, Taken, Present
      <4>2. d # c /\ seq'[d] = IF seq[d] > n THEN seq[d] - 1 ELSE seq[d]
        BY <1>1, <2>1 DEF Without
      <4>3. CASE k < n
        <5>1. PICK e \in Ids : seq[e] = k
          BY <1>1, <3>1, <4>2 DEF NoGaps, Taken, Present
        <5>2. seq'[e] = k
          BY <1>1, <2>1, <3>2, <4>3, <5>1 DEF Without
        <5> QED
          BY <5>2
      <4>4. CASE k >= n
        <5>1. seq[d] > n /\ k + 1 \in 1..seq[d]
          BY <1>1, <4>1, <4>2, <4>4
        <5>2. PICK e \in Ids : seq[e] = k + 1
          BY <1>1, <3>1, <5>1 DEF NoGaps, Taken, Present
        <5>3. seq'[e] = k
          BY <1>1, <2>1, <3>2, <4>4, <5>2 DEF Without
        <5> QED
          BY <5>3
      <4> QED
        BY <1>1, <4>2, <4>3, <4>4
    <3>3. CASE seq[c] = 0
      <4>1. \A d \in Ids : seq[d] <= n
        <5> TAKE d \in Ids
        <5>1. ASSUME seq[d] > n PROVE FALSE
          <6>1. n \in 1..seq[d] /\ n + 1 \in 1..seq[d] /\ d \in Present
            BY <1>1, <5>1 DEF Present
          <6>2. PICK e \in Ids : seq[e] = n
            BY <3>1, <6>1 DEF NoGaps, Taken
          <6>3. PICK f \in Ids : seq[f] = n + 1
            BY <3>1, <6>1 DEF NoGaps, Taken
          <6>4. e # f /\ Without(c, n)[e] = n /\ Without(c, n)[f] = n
            BY <1>1, <3>3, <6>2, <6>3 DEF Without
          <6> QED
            BY <1>1, <1>3, <6>4 DEF Collides
        <5>2. seq[d] \in Nat /\ n \in Nat
          BY <1>1
        <5> QED
          BY <5>1, <5>2
      <4>2. seq' = seq
        BY <1>1, <2>1, <3>3, <4>1 DEF Without
      <4> QED
        BY <3>1, <4>2 DEF NoGaps, Taken, Present
    <3> QED
      BY <3>1, <3>2, <3>3
  <2> QED
    BY <2>2, <2>3 DEF Numbering
<1> QED
  BY <1>2, <1>3

\* An import numbers its chapters one by one, after the last one or from 1.
LEMMA ImportNumbering ==
  ASSUME IInv, NEW replace \in BOOLEAN, NEW n \in 1..MaxImport,
         NEW list \in [1..n -> Ids \ issued], ImportOutline(replace, list)
  PROVE  Numbering'
<1> DEFINE new == {list[i] : i \in DOMAIN list}
           at(c) == CHOOSE i \in DOMAIN list : list[i] = c
<1>1. PICK m \in {0} \union {seq[d] : d \in Present} :
        /\ IF replace THEN m = 0 ELSE IsMaxSeq(m)
        /\ seq' = [c \in Ids |-> IF c \in new THEN m + at(c)
                                 ELSE IF replace THEN 0 ELSE seq[c]]
  BY DEF ImportOutline
<1>2. m \in Nat /\ (~replace => \A c \in Present : seq[c] <= m)
  BY <1>1, MaxSeq DEF IInv, TypeOK, Present
<1>3. new \subseteq Ids \ issued /\ \A c \in new : at(c) \in Nat \ {0} /\ list[at(c)] = c
  BY ListFacts DEF IInv, TypeOK
<1>4. \A k \in 1..n : list[k] \in new /\ at(list[k]) = k
  <2> SUFFICES ASSUME NEW k \in 1..n PROVE list[k] \in new /\ at(list[k]) = k
    OBVIOUS
  <2>1. DOMAIN list = 1..n
    OBVIOUS
  <2>2. at(list[k]) \in DOMAIN list /\ list[at(list[k])] = list[k]
    BY <2>1
  <2> QED
    BY <2>1, <2>2 DEF ImportOutline
<1>5. \A c \in new : at(c) \in 1..n
  BY ListFacts DEF IInv, TypeOK
<1>6. seq \in [Ids -> Nat] /\ n \in Nat /\ overlapped' = overlapped
      /\ SeqUnique /\ (overlapped \/ NoGaps)
  BY MaxImportAssumption DEF IInv, TypeOK, Numbering, ImportOutline
<1> HIDE DEF new, at
<1>7. SeqUnique'
  <2> SUFFICES ASSUME NEW c \in Ids, NEW d \in Ids, seq'[c] # 0, seq'[c] = seq'[d]
               PROVE  c = d
    BY DEF SeqUnique, Present
  <2>1. CASE c \in new /\ d \in new
    BY <1>1, <1>2, <1>3, <2>1
  <2>2. CASE c \notin new /\ d \notin new
    BY <1>1, <1>6, <2>2 DEF SeqUnique, Present
  <2>3. ASSUME NEW x \in new, NEW y \in Ids \ new, seq'[y] # 0
        PROVE  seq'[x] # seq'[y]
    <3>1. seq'[x] = m + at(x)
      BY <1>1, <1>3
    <3>2. ~replace /\ seq'[y] = seq[y]
      BY <1>1, <2>3
    <3> QED
      BY <1>2, <1>3, <1>6, <2>3, <3>1, <3>2 DEF Present
  <2> QED
    BY <2>1, <2>2, <2>3
<1>8. ASSUME ~overlapped PROVE NoGaps'
  <2>1. \A k \in 1..n : \E e \in Ids : seq'[e] = m + k
    BY <1>1, <1>3, <1>4
  <2>2. ASSUME ~replace PROVE \A k \in 1..m : \E e \in Ids : seq'[e] = k
    <3> SUFFICES ASSUME NEW k \in 1..m PROVE \E e \in Ids : seq'[e] = k
      OBVIOUS
    <3>1. IsMaxSeq(m) /\ NoGaps
      BY <1>1, <1>6, <1>8, <2>2
    <3>2. PICK e \in Ids : seq[e] = k
      BY <1>6, <3>1 DEF IsMaxSeq, Last, NoGaps, Taken, Present
    <3>3. e \notin new
      BY <1>3, <1>6, <3>2 DEF IInv, TypeOK, Present
    <3> QED
      BY <1>1, <2>2, <3>2, <3>3
  <2>3. \A k \in 1..(m + n) : \E e \in Ids : seq'[e] = k
    <3> SUFFICES ASSUME NEW k \in 1..(m + n) PROVE \E e \in Ids : seq'[e] = k
      OBVIOUS
    <3>1. CASE k <= m
      <4>1. ~replace
        BY <1>1, <1>2, <3>1
      <4> QED
        BY <1>2, <2>2, <3>1, <4>1
    <3>2. CASE k > m
      <4>1. k - m \in 1..n /\ m + (k - m) = k
        BY <1>2, <1>6, <3>2
      <4> QED
        BY <2>1, <4>1
    <3> QED
      BY <1>2, <1>6, <3>1, <3>2
  <2>4. \A c \in Ids : seq'[c] \in 0..(m + n)
    <3> TAKE c \in Ids
    <3>1. CASE c \in new
      BY <1>1, <1>2, <1>5, <1>6, <3>1
    <3>2. CASE c \notin new
      BY <1>1, <1>2, <1>6, <3>2 DEF Present
    <3> QED
      BY <3>1, <3>2
  <2> QED
    BY <1>2, <1>6, <2>3, <2>4 DEF NoGaps, Taken, Present
<1> QED
  BY <1>6, <1>7, <1>8 DEF Numbering

----------------------------------------------------------------------------
LEMMA InvStep == IInv /\ [Next]_vars => IInv'
<1> SUFFICES ASSUME IInv, [Next]_vars PROVE IInv'
  OBVIOUS
<1>1. TypeOK' /\ RequestMeaning'
  BY RequestStep DEF IInv
<1>2. Numbering'
  <2>1. CASE UNCHANGED seq /\ UNCHANGED overlapped
    BY <2>1 DEF IInv, Numbering, SeqUnique, NoGaps, Taken, Present
  <2>2. ASSUME NEW r \in Requests, NEW c \in Ids, ReadNextSeq(r, c) \/ ReadSeq(r, c)
        PROVE  Numbering'
    BY <2>1, <2>2 DEF ReadNextSeq, ReadSeq
  <2>3. CASE UNCHANGED vars
    BY <2>1, <2>3 DEF vars
  <2> QED
    BY <2>2, <2>3, InsertNumbering, DeleteNumbering, ImportNumbering DEF Next, Import
<1> QED
  BY <1>1, <1>2 DEF IInv

LEMMA Invariance == Spec => []IInv
BY InitInv, InvStep, PTL DEF Spec

\* Whatever a request read and however late it writes, positions are natural numbers and
\* every request carries an id that was issued.
THEOREM TypeCorrect == Spec => []TypeOK
BY Invariance, PTL DEF IInv

\* Two chapters never share a number, and without a stale write there is no gap: the
\* UNIQUE index turns every other overlap of creates, deletes and imports into an error.
THEOREM NumberingHolds == Spec => []Numbering
BY Invariance, PTL DEF IInv

\* One step keeps the order of any two chapters it leaves.
LEMMA OrderStep ==
  ASSUME IInv, [Next]_vars, NEW c \in Ids, NEW d \in Ids,
         seq[c] # 0, seq[d] # 0, seq'[c] # 0, seq'[d] # 0, seq[c] < seq[d]
  PROVE  seq'[c] < seq'[d]
<1>1. seq \in [Ids -> Nat] /\ c \in issued /\ d \in issued /\ c # d
  BY DEF IInv, TypeOK, Present
<1>2. ASSUME NEW r \in Requests, InsertChapter(r) PROVE seq'[c] < seq'[d]
  <2>1. seq[request[r].chapter] = 0
    BY <1>2 DEF InsertChapter, IInv, RequestMeaning
  <2> QED
    BY <1>1, <1>2, <2>1 DEF InsertChapter
<1>3. ASSUME NEW r \in Requests, DeleteChapter(r) PROVE seq'[c] < seq'[d]
  <2>1. request[r].seq \in Nat
    BY DEF IInv, TypeOK
  <2>2. CASE seq' = seq
    BY <2>2
  <2>3. CASE seq' = Without(request[r].chapter, request[r].seq) /\ ~Collides(seq')
    <3>1. seq'[c] # seq'[d]
      BY <1>1, <2>3 DEF Collides
    <3>2. seq'[c] = IF seq[c] > request[r].seq THEN seq[c] - 1 ELSE seq[c]
      BY <2>3 DEF Without
    <3>3. seq'[d] = IF seq[d] > request[r].seq THEN seq[d] - 1 ELSE seq[d]
      BY <2>3 DEF Without
    <3> QED
      BY <1>1, <2>1, <3>1, <3>2, <3>3
  <2> QED
    BY <1>3, <2>2, <2>3 DEF DeleteChapter
<1>4. ASSUME NEW replace \in BOOLEAN, NEW n \in 1..MaxImport,
             NEW list \in [1..n -> Ids \ issued], ImportOutline(replace, list)
      PROVE  seq'[c] < seq'[d]
  <2>1. c \notin {list[i] : i \in DOMAIN list} /\ d \notin {list[i] : i \in DOMAIN list}
    BY <1>1
  <2> QED
    BY <1>4, <2>1 DEF ImportOutline
<1> QED
  BY <1>2, <1>3, <1>4 DEF Next, Import, ReadNextSeq, ReadSeq, vars

\* Chapters that stay keep their order, for any number of overlapping requests.
THEOREM OrderKept == Spec => OrderPreserved
<1>1. IInv /\ [Next]_vars =>
        [\A c, d \in Ids :
            /\ seq[c] # 0 /\ seq[d] # 0 /\ seq'[c] # 0 /\ seq'[d] # 0
            /\ seq[c] < seq[d]
            => seq'[c] < seq'[d]]_vars
  BY OrderStep
<1> QED
  BY <1>1, Invariance, PTL DEF Spec, OrderPreserved
=============================================================================
