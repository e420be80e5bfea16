---------------------------- MODULE BibleProofs ----------------------------
(***************************************************************************)
(* Proofs about Bible, for any keys, syncs, editors, answers and bounds.   *)
(***************************************************************************)
EXTENDS Bible, FiniteSetTheorems, TLAPS

----------------------------------------------------------------------------
(* The fold over the operations of an answer *)

LEMMA Induction ==
    ASSUME NEW A, 0 \in A, \A n \in Nat : n \in A => n + 1 \in A
    PROVE  Nat \subseteq A
<1>1. SUFFICES ASSUME NEW n \in Nat, n \notin A
               PROVE  FALSE
    OBVIOUS
<1> DEFINE T == {0..m : m \in Nat \ A}
<1>2. T \subseteq FiniteSubsetsOf(Nat) /\ T # {}
    <2>1. \A m \in Nat : 0..m \in SUBSET Nat /\ IsFiniteSet(0..m)
        BY FS_Interval
    <2>2. 0..n \in T
        BY <1>1
    <2> QED
        BY <2>1, <2>2 DEF FiniteSubsetsOf
<1>3. PICK x \in T : \A y \in T : <<y, x>> \notin StrictSubsetOrdering(Nat)
    BY <1>2, FS_StrictSubsetOrderingWellFounded, WFMin
<1>4. PICK m \in Nat \ A : x = 0..m
    BY <1>3
<1>5. m # 0 /\ m - 1 \in Nat /\ m - 1 \notin A
    BY <1>4
<1>6. 0..(m - 1) \in T /\ <<0..(m - 1), x>> \in StrictSubsetOrdering(Nat)
    BY <1>4, <1>5 DEF StrictSubsetOrdering
<1> QED
    BY <1>3, <1>6

\* A set of numbers that are bounded has a greatest one.
LEMMA Greatest ==
    ASSUME NEW n \in Nat, NEW S \in SUBSET (1..n), S # {}
    PROVE  Max(S) \in S /\ \A x \in S : Max(S) >= x
<1> DEFINE A == {m \in Nat : \A R \in SUBSET (1..m) :
                                 R # {} => \E x \in R : \A y \in R : x >= y}
<1>1. 0 \in A
    <2>1. 1..0 = {}
        OBVIOUS
    <2> QED
        BY <2>1
<1>2. ASSUME NEW m \in Nat, m \in A
      PROVE  m + 1 \in A
    <2>1. SUFFICES ASSUME NEW R \in SUBSET (1..(m + 1)), R # {}
                   PROVE  \E x \in R : \A y \in R : x >= y
        OBVIOUS
    <2>2. CASE m + 1 \in R
        BY <2>2
    <2>3. CASE m + 1 \notin R
        <3>1. R \in SUBSET (1..m)
            BY <2>3
        <3> QED
            BY <1>2, <2>1, <3>1
    <2> QED
        BY <2>2, <2>3
<1> HIDE DEF A
<1>3. n \in A
    BY <1>1, <1>2, Induction
<1>4. \E x \in S : \A y \in S : x >= y
    BY <1>3 DEF A
<1> QED
    BY <1>4 DEF Max

\* Where the fold is after n of the operations.
Folded(base, ops, g, s) ==
    IF s = {} THEN base ELSE ApplyOp(g[s \ {Max(s)}], ops[Max(s)])

\* The recursion of the fold is well defined.
LEMMA Recursion ==
    ASSUME NEW base, NEW ops, NEW N \in Nat
    PROVE  \E g : g = [s \in SUBSET (1..N) |-> Folded(base, ops, g, s)]
<1> DEFINE D == SUBSET (1..N)
           A == {n \in Nat : \E g : \A s \in D :
                    Cardinality(s) <= n => g[s] = Folded(base, ops, g, s)}
<1>1. \A s \in D : /\ IsFiniteSet(s) /\ Cardinality(s) \in Nat /\ Cardinality(s) <= N
                   /\ Cardinality(s) = 0 <=> s = {}
                   /\ s # {} => /\ s \ {Max(s)} \in D
                                /\ Cardinality(s \ {Max(s)}) = Cardinality(s) - 1
    <2>1. SUFFICES ASSUME NEW s \in D
                   PROVE  /\ IsFiniteSet(s) /\ Cardinality(s) \in Nat /\ Cardinality(s) <= N
                          /\ Cardinality(s) = 0 <=> s = {}
                          /\ s # {} => /\ s \ {Max(s)} \in D
                                       /\ Cardinality(s \ {Max(s)}) = Cardinality(s) - 1
        OBVIOUS
    <2>2. IsFiniteSet(1..N) /\ Cardinality(1..N) = N
        BY FS_Interval
    <2>3. IsFiniteSet(s) /\ Cardinality(s) <= N
        BY <2>2, FS_Subset
    <2>4. Cardinality(s) \in Nat /\ (Cardinality(s) = 0 <=> s = {})
        BY <2>3, FS_CardinalityType, FS_EmptySet
    <2>5. s # {} => s \ {Max(s)} \in D /\ Cardinality(s \ {Max(s)}) = Cardinality(s) - 1
        BY <2>3, Greatest, FS_RemoveElement
    <2> QED
        BY <2>3, <2>4, <2>5
<1>2. 0 \in A
    <2>1. PICK g : g = [s \in D |-> base]
        OBVIOUS
    <2>2. ASSUME NEW s \in D, Cardinality(s) <= 0
          PROVE  g[s] = Folded(base, ops, g, s)
        <3>1. s = {}
            <4>1. Cardinality(s) \in Nat /\ Cardinality(s) <= 0
                BY <1>1, <2>2
            <4>2. Cardinality(s) = 0
                BY <4>1
            <4>3. IsFiniteSet(s)
                BY <1>1
            <4> QED
                BY <4>2, <4>3, FS_EmptySet
        <3> QED
            BY <2>1, <3>1 DEF Folded
    <2> QED
        BY <2>2
<1>3. ASSUME NEW n \in Nat, n \in A
      PROVE  n + 1 \in A
    <2>1. PICK g : \A s \in D : Cardinality(s) <= n => g[s] = Folded(base, ops, g, s)
        BY <1>3
    <2>2. PICK h : h = [s \in D |-> IF Cardinality(s) <= n THEN g[s] ELSE Folded(base, ops, g, s)]
        OBVIOUS
    <2>3. ASSUME NEW s \in D, Cardinality(s) <= n + 1
          PROVE  h[s] = Folded(base, ops, h, s)
        <3>1. h[s] = Folded(base, ops, g, s)
            BY <2>1, <2>2
        <3>2. s # {} => h[s \ {Max(s)}] = g[s \ {Max(s)}]
            BY <1>1, <2>2, <2>3
        <3> QED
            BY <3>1, <3>2 DEF Folded
    <2> QED
        BY <2>3
<1> HIDE DEF A
<1>4. N \in A
    BY <1>2, <1>3, Induction
<1>5. PICK g : \A s \in D : Cardinality(s) <= N => g[s] = Folded(base, ops, g, s)
    BY <1>4 DEF A
<1>6. PICK h : h = [s \in D |-> g[s]]
    OBVIOUS
<1>7. \A s \in D : h[s] = Folded(base, ops, h, s)
    <2>1. SUFFICES ASSUME NEW s \in D
                   PROVE  h[s] = Folded(base, ops, h, s)
        OBVIOUS
    <2>2. h[s] = Folded(base, ops, g, s)
        BY <1>1, <1>5, <1>6
    <2>3. s # {} => h[s \ {Max(s)}] = g[s \ {Max(s)}]
        BY <1>1, <1>6
    <2> QED
        BY <2>2, <2>3 DEF Folded
<1> QED
    BY <1>6, <1>7

\* A fold goes through the operations one by one.
LEMMA FoldGoesThrough ==
    ASSUME NEW base, NEW ops \in Seq(Operations)
    PROVE  \E tr : /\ tr[0] = base
                   /\ \A n \in 1..Len(ops) : tr[n] = ApplyOp(tr[n - 1], ops[n])
                   /\ FoldLeft(ApplyOp, base, ops) = tr[Len(ops)]
<1>1. Len(ops) \in Nat /\ DOMAIN ops = 1..Len(ops)
    OBVIOUS
<1>2. PICK iter : iter = CHOOSE g : g = [s \in SUBSET (1..Len(ops)) |-> Folded(base, ops, g, s)]
    OBVIOUS
<1>3. iter = [s \in SUBSET (1..Len(ops)) |-> Folded(base, ops, iter, s)]
    BY <1>1, <1>2, Recursion
<1>4. FoldLeft(ApplyOp, base, ops) = iter[1..Len(ops)]
    BY <1>1, <1>2 DEF FoldLeft, MapThenFoldSet, Folded
<1> DEFINE N == Len(ops)
<1> HIDE DEF N
<1>5. N \in Nat /\ iter = [s \in SUBSET (1..N) |-> Folded(base, ops, iter, s)]
    BY <1>1, <1>3 DEF N
<1>6. PICK tr : tr = [n \in 0..N |-> iter[1..n]]
    OBVIOUS
<1>7. tr[0] = base
    <2>1. 1..0 = {} /\ 0 \in 0..N
        BY <1>5
    <2> QED
        BY <1>5, <1>6, <2>1 DEF Folded
<1>8. ASSUME NEW n \in 1..N
      PROVE  tr[n] = ApplyOp(tr[n - 1], ops[n])
    <2>1. n \in Nat /\ n \in 0..N /\ n - 1 \in 0..N
        BY <1>5
    <2>2. 1..n \in SUBSET (1..N) /\ 1..n # {} /\ n \in 1..n
        <3>1. n \in 1..n
            BY <1>5
        <3>2. \A m \in 1..n : m \in 1..N
            BY <1>5
        <3> QED
            BY <3>1, <3>2
    <2>3. Max(1..n) = n
        <3>1. Max(1..n) \in 1..n /\ Max(1..n) >= n
            BY <2>1, <2>2, Greatest
        <3> QED
            BY <2>1, <3>1
    <2>4. (1..n) \ {n} = 1..(n - 1)
        BY <2>1
    <2>5. iter[1..n] = ApplyOp(iter[1..(n - 1)], ops[n])
        BY <1>5, <2>2, <2>3, <2>4 DEF Folded
    <2> QED
        BY <1>6, <2>1, <2>5
<1>9. FoldLeft(ApplyOp, base, ops) = tr[N]
    BY <1>4, <1>5, <1>6 DEF N
<1> QED
    BY <1>7, <1>8, <1>9 DEF N

----------------------------------------------------------------------------
(* The inductive invariant *)

Lists == [rows : [Ids -> Rows], named : [Keys -> 0..MaxIds]]

\* Shape: where every value is taken from.
Shape ==
    /\ entry \in [Ids -> Rows]
    /\ issued \in 0..MaxIds
    /\ sync \in [Syncs -> [step : {"idle", "ask", "apply", "done", "failed"},
                          left : 0..MaxChapters, tries : 0..(MaxTries - 1),
                          ops : Answers \union {<<>>}, list : Lists \union {NoList}]]
    /\ patch \in [Editors -> [id : 0..MaxIds, loaded : Rows]]

\* No row has an id that was not issued, and a PATCH has loaded a row that was there.
Numbered ==
    /\ \A i \in Ids : Exists(i) => i <= issued
    /\ \A e \in Editors : patch[e] # NoPatch => patch[e].id \in Ids /\ patch[e].loaded # Absent

\* A list names an entry for every key it shows, and shows an entry for every name; it has
\* no entry with an id that was not issued.
Names(list, last) ==
    /\ \A k \in Keys : list.named[k] # 0 => list.rows[list.named[k]].key = k
    /\ \A k \in Keys : list.named[k] = 0 => \A i \in Ids : list.rows[i].key # k
    /\ \A i \in Ids : list.rows[i] # Absent => i <= last

\* A sync at work has a chapter to go, and an answer comes with its list.
Prepared ==
    \A s \in Syncs :
        /\ sync[s].step \in {"ask", "apply"} => sync[s].left # 0
        /\ sync[s].step = "apply" => /\ sync[s].ops \in Answers /\ sync[s].list \in Lists
                                     /\ Names(sync[s].list, issued)

IInv == Shape /\ Numbered /\ Prepared

----------------------------------------------------------------------------
(* Rows *)

LEMMA RowFields ==
    ASSUME NEW r \in Rows
    PROVE  /\ r # Absent <=> r.key \in Keys
           /\ r.content \in Contents /\ r.status \in Statuses
           /\ r = Absent => r.key = NoKey
    BY KeyAssumption DEF Rows, Absent, Contents, Statuses

LEMMA NewRow ==
    ASSUME NEW k \in Keys, NEW text \in Contents, NEW st \in Statuses
    PROVE  LET r == [key |-> k, content |-> text, status |-> st]
           IN  r \in Rows /\ r # Absent
    BY KeyAssumption DEF Rows, Absent

LEMMA ChangedRow ==
    ASSUME NEW r \in Rows, r # Absent, NEW text \in Contents, NEW st \in Statuses
    PROVE  LET c == [r EXCEPT !.content = text, !.status = st]
           IN  c \in Rows /\ c # Absent /\ c.key = r.key /\ c.status = st
<1>1. r \in [key : Keys, content : Contents, status : Statuses]
    BY DEF Rows
<1> QED
    BY <1>1, KeyAssumption DEF Rows, Absent

LEMMA RewordedRow ==
    ASSUME NEW r \in Rows, r # Absent, NEW text \in Contents
    PROVE  LET c == [r EXCEPT !.content = text]
           IN  c \in Rows /\ c # Absent /\ c.key = r.key /\ c.status = r.status
<1>1. r \in [key : Keys, content : Contents, status : Statuses]
    BY DEF Rows
<1> QED
    BY <1>1, KeyAssumption DEF Rows, Absent

\* An UPDATE makes no row and takes none away.
LEMMA Written ==
    ASSUME NEW rows \in [Ids -> Rows], NEW i \in Ids, NEW r,
           rows[i] # Absent => r \in Rows /\ r # Absent
    PROVE  LET w == WriteRow(rows, i, r)
           IN  /\ w \in [Ids -> Rows]
               /\ \A j \in Ids : j # i => w[j] = rows[j]
               /\ \A j \in Ids : w[j] = Absent <=> rows[j] = Absent
               /\ rows[i] # Absent => w[i] = r
               /\ rows[i] = Absent => w = rows
    BY DEF WriteRow

----------------------------------------------------------------------------
(* One operation of an answer.  q is the sync's state, t where the transaction is. *)

Transactions == [rows : [Ids -> Rows], list : Lists, issued : 0..MaxIds]

\* The keys that have been given an entry so far.
Added(q, t) == {k \in NewKeys(q) : t.list.named[k] # 0}

\* The list grows by what is created, and by nothing else.
Grown(q, t) ==
    /\ t.issued = issued + Cardinality(Added(q, t))
    /\ \A k \in Keys : \/ t.list.named[k] = q.list.named[k]
                       \/ /\ q.list.named[k] = 0 /\ k \in NewKeys(q)
                          /\ t.list.named[k] \in (issued + 1)..t.issued
    /\ \A i \in 1..issued : t.list.rows[i] = q.list.rows[i]
    /\ \A i \in Ids : t.rows[i] # Absent => i <= t.issued

\* New entries have keys of their own.
Fresh(q, t) ==
    \A i \in Ids : i > issued /\ t.rows[i] # Absent =>
        q.list.named[t.rows[i].key] = 0 /\ t.list.named[t.rows[i].key] = i

\* Old entries stay and keep their keys, and none comes back.
Steady(t) == \A i \in 1..issued : (t.rows[i] = Absent <=> entry[i] = Absent)
                                 /\ t.rows[i].key = entry[i].key

\* What has changed was addressed by one of the first n operations of the answer.
Targeted(s, t, n) ==
    \A i \in 1..issued : t.rows[i] # entry[i] => \E m \in 1..n : Addresses(s, m, i)

Updated(q, t, n) ==
    \A i \in 1..issued : t.rows[i].status # entry[i].status =>
        \E m \in 1..n : /\ q.ops[m].op = "update" /\ q.ops[m].id = i
                        /\ t.rows[i].status = Given(q.ops[m].status, q.list.rows[i].status)

Carried(s, t, n) ==
    /\ t \in Transactions
    /\ Grown(sync[s], t) /\ Fresh(sync[s], t) /\ Steady(t)
    /\ Targeted(s, t, n) /\ Updated(sync[s], t, n)

\* A sync at its transaction, with room for what it creates.
Applying(s) ==
    /\ s \in Syncs /\ sync[s].step = "apply" /\ IInv
    /\ issued + Cardinality(NewKeys(sync[s])) <= MaxIds

\* The operations that count are the first of the answer.
LEMMA KeptOps ==
    ASSUME NEW ops \in Answers
    PROVE  /\ Kept(ops) \in Seq(Operations) /\ Len(Kept(ops)) <= MaxOps
           /\ Len(Kept(ops)) \in Nat /\ DOMAIN Kept(ops) = 1..Len(Kept(ops))
           /\ \A n \in 1..Len(Kept(ops)) :
                 n \in DOMAIN ops /\ Kept(ops)[n] = ops[n] /\ ops[n] \in Operations
<1>1. ops \in Seq(Operations) /\ Len(ops) \in Nat /\ DOMAIN ops = 1..Len(ops)
    BY AnswersAssumption
<1> DEFINE m == IF Len(ops) > MaxOps THEN MaxOps ELSE Len(ops)
<1>2. m \in Nat /\ m <= MaxOps /\ m <= Len(ops)
    BY <1>1, MaxOpsAssumption
<1>3. Kept(ops) = SubSeq(ops, 1, m)
    BY DEF Kept
<1> HIDE DEF m
<1>4. /\ SubSeq(ops, 1, m) \in Seq(Operations) /\ Len(SubSeq(ops, 1, m)) = m
      /\ \A n \in 1..m : SubSeq(ops, 1, m)[n] = ops[n]
    BY <1>1, <1>2
<1>5. \A n \in 1..m : n \in 1..Len(ops)
    BY <1>1, <1>2
<1>6. \A n \in 1..m : ops[n] \in Operations
    BY <1>1, <1>5
<1> QED
    BY <1>1, <1>2, <1>3, <1>4, <1>5, <1>6

\* An answer creates entries for finitely many keys.
LEMMA NewKeysFinite ==
    ASSUME NEW q, q.ops \in Answers
    PROVE  IsFiniteSet(NewKeys(q))
<1> DEFINE L == Len(Kept(q.ops))
           T == {Kept(q.ops)[n].key : n \in 1..L}
           f == [n \in 1..L |-> Kept(q.ops)[n].key]
<1>1. L \in Nat
    BY KeptOps
<1>2. f \in Surjection(1..L, T)
    BY DEF Surjection
<1>3. IsFiniteSet(T)
    BY <1>1, <1>2, FS_NatSurjection DEF ExistsSurjection
<1>4. NewKeys(q) \subseteq T
    BY KeptOps DEF NewKeys
<1> QED
    BY <1>3, <1>4, FS_Subset

LEMMA IssuedIds ==
    ASSUME Shape
    PROVE  issued \in Nat /\ 1..issued \subseteq Ids
<1>1. issued \in Nat /\ issued <= MaxIds /\ MaxIds \in Nat
    BY BoundsAssumption DEF Shape
<1>2. \A i \in 1..issued : i \in 1..MaxIds
    BY <1>1
<1> QED
    BY <1>1, <1>2 DEF Ids

\* A create whose key has an entry
LEMMA ReviseCarries ==
    ASSUME NEW s, Applying(s), NEW t, NEW n \in 1..Len(Kept(sync[s].ops)),
           Carried(s, t, n - 1), NEW op, op = sync[s].ops[n], op \in Operations,
           op.op = "create", t.list.named[op.key] # 0
    PROVE  Carried(s, Revise(t, op), n)
<1> DEFINE i == t.list.named[op.key]
           c == [t.rows[i] EXCEPT !.content = op.content]
<1>1. PICK u : u = Revise(t, op)
    OBVIOUS
<1>2. /\ op.key \in Keys /\ op.content \in Contents
      /\ t \in Transactions /\ i \in Ids
      /\ Grown(sync[s], t) /\ Fresh(sync[s], t) /\ Steady(t)
      /\ Targeted(s, t, n - 1) /\ Updated(sync[s], t, n - 1)
    <2>1. op.key \in Keys /\ op.content \in Suggested
        BY DEF Operations
    <2>2. t \in Transactions /\ t.list \in Lists
        BY DEF Carried, Transactions
    <2>3. i \in 0..MaxIds
        BY <2>1, <2>2 DEF Lists
    <2> QED
        BY <2>1, <2>2, <2>3, BoundsAssumption DEF Carried, Contents, Ids
<1>3. /\ u.rows = WriteRow(t.rows, i, c) /\ u.list = t.list /\ u.issued = t.issued
      /\ u \in Transactions <=> u.rows \in [Ids -> Rows]
    BY <1>1, <1>2 DEF Revise, Transactions
<1>4. /\ u.rows \in [Ids -> Rows]
      /\ \A j \in Ids : j # i => u.rows[j] = t.rows[j]
      /\ \A j \in Ids : u.rows[j] = Absent <=> t.rows[j] = Absent
      /\ t.rows[i] # Absent => u.rows[i] = c
      /\ t.rows[i] = Absent => u.rows = t.rows
    <2>1. t.rows \in [Ids -> Rows]
        BY <1>2 DEF Transactions
    <2>2. t.rows[i] # Absent => c \in Rows /\ c # Absent
        BY <1>2, <2>1, RewordedRow
    <2> HIDE DEF c, i
    <2> QED
        BY <1>2, <1>3, <2>1, <2>2, Written
<1>5. \A j \in Ids : u.rows[j].key = t.rows[j].key /\ u.rows[j].status = t.rows[j].status
    <2>1. t.rows[i] # Absent => c.key = t.rows[i].key /\ c.status = t.rows[i].status
        BY <1>2, RewordedRow DEF Transactions
    <2> HIDE DEF c, i
    <2> QED
        BY <1>4, <2>1
<1> HIDE DEF c
<1>6. issued \in Nat /\ 1..issued \subseteq Ids
    BY IssuedIds DEF Applying, IInv
<1>7. Grown(sync[s], u) /\ Fresh(sync[s], u) /\ Steady(u)
    <2>1. Grown(sync[s], u)
        BY <1>2, <1>3, <1>4 DEF Grown, Added
    <2>2. Fresh(sync[s], u)
        BY <1>2, <1>3, <1>4, <1>5 DEF Fresh
    <2>3. Steady(u)
        BY <1>2, <1>4, <1>5, <1>6 DEF Steady
    <2> QED
        BY <2>1, <2>2, <2>3
<1>8. Targeted(s, u, n)
    <2>1. SUFFICES ASSUME NEW j \in 1..issued, u.rows[j] # entry[j]
                   PROVE  \E m \in 1..n : Addresses(s, m, j)
        BY DEF Targeted
    <2>2. CASE j # i
        <3>1. u.rows[j] = t.rows[j]
            BY <1>4, <1>6, <2>2
        <3>2. PICK m \in 1..(n - 1) : Addresses(s, m, j)
            BY <1>2, <2>1, <3>1 DEF Targeted
        <3> QED
            BY <3>2
    <2>3. CASE j = i
        <3> HIDE DEF i
        <3>1. sync[s].list.named[op.key] = i
            <4>1. op.key \in Keys /\ t.list.named[op.key] = i
                BY <1>2 DEF i
            <4>2. ~(i \in (issued + 1)..t.issued)
                BY <1>6, <2>3
            <4> QED
                BY <1>2, <4>1, <4>2 DEF Grown
        <3>2. Addresses(s, n, j)
            BY <2>3, <3>1 DEF Addresses
        <3>3. n \in 1..n
            BY KeptOps DEF Applying, IInv, Prepared
        <3> QED
            BY <3>2, <3>3
    <2> QED
        BY <2>2, <2>3
<1>9. Updated(sync[s], u, n)
    <2>1. SUFFICES ASSUME NEW j \in 1..issued, u.rows[j].status # entry[j].status
                   PROVE  \E m \in 1..n :
                             /\ sync[s].ops[m].op = "update" /\ sync[s].ops[m].id = j
                             /\ u.rows[j].status = Given(sync[s].ops[m].status,
                                                         sync[s].list.rows[j].status)
        BY DEF Updated
    <2>2. u.rows[j].status = t.rows[j].status
        BY <1>5, <1>6
    <2>3. PICK m \in 1..(n - 1) :
                 /\ sync[s].ops[m].op = "update" /\ sync[s].ops[m].id = j
                 /\ t.rows[j].status = Given(sync[s].ops[m].status, sync[s].list.rows[j].status)
        BY <1>2, <2>1, <2>2 DEF Updated
    <2> QED
        BY <2>2, <2>3
<1> QED
    BY <1>1, <1>3, <1>4, <1>7, <1>8, <1>9 DEF Carried

\* An update of an entry the list shows
LEMMA AlterCarries ==
    ASSUME NEW s, Applying(s), NEW t, NEW n \in 1..Len(Kept(sync[s].ops)),
           Carried(s, t, n - 1), NEW op, op = sync[s].ops[n], op \in Operations,
           op.op = "update", t.list.rows[op.id] # Absent
    PROVE  Carried(s, Alter(t, op), n)
<1> DEFINE i == op.id
           known == t.list.rows[i]
           text == IF op.content = Blank THEN known.content ELSE op.content
           st == Given(op.status, known.status)
           c == [t.rows[i] EXCEPT !.content = text, !.status = st]
<1>1. PICK u : u = Alter(t, op)
    OBVIOUS
<1>2. /\ i \in Ids /\ t \in Transactions /\ text \in Contents /\ st \in Statuses
      /\ Grown(sync[s], t) /\ Fresh(sync[s], t) /\ Steady(t)
      /\ Targeted(s, t, n - 1) /\ Updated(sync[s], t, n - 1)
    <2>1. op.id \in Ids /\ op.content \in Suggested /\ op.status \in Statuses \union {Keep}
        BY DEF Operations
    <2>2. t \in Transactions /\ t.list \in Lists
        BY DEF Carried, Transactions
    <2>3. known \in Rows
        BY <2>1, <2>2 DEF Lists
    <2>4. known.content \in Contents /\ known.status \in Statuses
        BY <2>3, RowFields
    <2> QED
        BY <2>1, <2>2, <2>4 DEF Carried, Contents, Given
<1>3. /\ u.rows = WriteRow(t.rows, i, c) /\ u.list = t.list /\ u.issued = t.issued
      /\ u \in Transactions <=> u.rows \in [Ids -> Rows]
    BY <1>1, <1>2 DEF Alter, Transactions
<1>4. t.rows[i] # Absent => c \in Rows /\ c # Absent /\ c.key = t.rows[i].key /\ c.status = st
    <2> HIDE DEF text, st
    <2>1. t.rows[i] \in Rows
        BY <1>2 DEF Transactions
    <2> QED
        BY <1>2, <2>1, ChangedRow
<1> HIDE DEF c, text, i
<1>5. /\ u.rows \in [Ids -> Rows]
      /\ \A j \in Ids : j # i => u.rows[j] = t.rows[j]
      /\ \A j \in Ids : u.rows[j] = Absent <=> t.rows[j] = Absent
      /\ t.rows[i] # Absent => u.rows[i] = c
      /\ t.rows[i] = Absent => u.rows = t.rows
    BY <1>2, <1>3, <1>4, Written DEF Transactions
<1>6. \A j \in Ids : /\ u.rows[j].key = t.rows[j].key
                     /\ u.rows[j].status # t.rows[j].status => j = i /\ u.rows[j].status = st
    BY <1>4, <1>5
<1>7. issued \in Nat /\ 1..issued \subseteq Ids
    BY IssuedIds DEF Applying, IInv
<1>8. Grown(sync[s], u) /\ Fresh(sync[s], u) /\ Steady(u)
    <2>1. Grown(sync[s], u)
        BY <1>2, <1>3, <1>5 DEF Grown, Added
    <2>2. Fresh(sync[s], u)
        BY <1>2, <1>3, <1>5, <1>6 DEF Fresh
    <2>3. Steady(u)
        BY <1>2, <1>5, <1>6, <1>7 DEF Steady
    <2> QED
        BY <2>1, <2>2, <2>3
<1>9. Targeted(s, u, n)
    <2>1. SUFFICES ASSUME NEW j \in 1..issued, u.rows[j] # entry[j]
                   PROVE  \E m \in 1..n : Addresses(s, m, j)
        BY DEF Targeted
    <2>2. CASE j # i
        <3>1. u.rows[j] = t.rows[j]
            BY <1>5, <1>7, <2>2
        <3>2. PICK m \in 1..(n - 1) : Addresses(s, m, j)
            BY <1>2, <2>1, <3>1 DEF Targeted
        <3> QED
            BY <3>2
    <2>3. CASE j = i
        BY <2>3 DEF Addresses, i
    <2> QED
        BY <2>2, <2>3
<1>10. Updated(sync[s], u, n)
    <2>1. SUFFICES ASSUME NEW j \in 1..issued, u.rows[j].status # entry[j].status
                   PROVE  \E m \in 1..n :
                             /\ sync[s].ops[m].op = "update" /\ sync[s].ops[m].id = j
                             /\ u.rows[j].status = Given(sync[s].ops[m].status,
                                                         sync[s].list.rows[j].status)
        BY DEF Updated
    <2>2. CASE u.rows[j].status = t.rows[j].status
        <3>1. PICK m \in 1..(n - 1) :
                 /\ sync[s].ops[m].op = "update" /\ sync[s].ops[m].id = j
                 /\ t.rows[j].status = Given(sync[s].ops[m].status, sync[s].list.rows[j].status)
            BY <1>2, <2>1, <2>2 DEF Updated
        <3> QED
            BY <2>2, <3>1
    <2>3. CASE u.rows[j].status # t.rows[j].status
        <3>1. j = i /\ u.rows[j].status = st
            BY <1>6, <1>7, <2>3
        <3>2. known = sync[s].list.rows[j]
            BY <1>2, <3>1 DEF Grown
        <3>3. /\ sync[s].ops[n].op = "update" /\ sync[s].ops[n].id = j
              /\ u.rows[j].status = Given(sync[s].ops[n].status, sync[s].list.rows[j].status)
            BY <3>1, <3>2 DEF i
        <3>4. n \in 1..n
            BY KeptOps DEF Applying, IInv, Prepared
        <3> QED
            BY <3>3, <3>4
    <2> QED
        BY <2>2, <2>3
<1> QED
    BY <1>1, <1>2, <1>3, <1>5, <1>8, <1>9, <1>10 DEF Carried

\* A create whose key is new
LEMMA AddCarries ==
    ASSUME NEW s, Applying(s), NEW t, NEW n \in 1..Len(Kept(sync[s].ops)),
           Carried(s, t, n - 1), NEW op, op = sync[s].ops[n], op \in Operations,
           op.op = "create", t.list.named[op.key] = 0
    PROVE  Carried(s, Add(t, op), n)
<1> DEFINE q == sync[s]
           i == t.issued + 1
           e == [key |-> op.key, content |-> op.content, status |-> "active"]
<1>1. PICK u : u = Add(t, op)
    OBVIOUS
<1>2. /\ op.key \in Keys /\ op.content \in Contents
      /\ t \in Transactions /\ t.list \in Lists /\ t.issued \in Nat
      /\ Grown(q, t) /\ Fresh(q, t) /\ Steady(t)
      /\ Targeted(s, t, n - 1) /\ Updated(q, t, n - 1)
    <2>1. op.key \in Keys /\ op.content \in Suggested
        BY DEF Operations
    <2>2. t \in Transactions /\ t.list \in Lists /\ t.issued \in Nat
        BY DEF Carried, Transactions
    <2> QED
        BY <2>1, <2>2 DEF Carried, Contents
<1>3. /\ u.rows = [t.rows EXCEPT ![i] = e] /\ u.issued = i
      /\ u.list.rows = [t.list.rows EXCEPT ![i] = e]
      /\ u.list.named = [t.list.named EXCEPT ![op.key] = i]
      /\ u = [rows |-> u.rows, issued |-> u.issued, list |-> u.list]
      /\ u.list = [rows |-> u.list.rows, named |-> u.list.named]
    BY <1>1 DEF Add
<1>4. e \in Rows /\ e # Absent /\ e.key = op.key
    BY <1>2, NewRow DEF Statuses
<1> HIDE DEF e
<1>5. q.list.named[op.key] = 0 /\ op.key \in NewKeys(q) /\ op.key \notin Added(q, t)
    <2>1. q.list.named[op.key] = 0
        BY <1>2, IssuedIds DEF Grown, Applying, IInv
    <2>2. n \in DOMAIN Kept(q.ops)
        BY KeptOps DEF Applying, IInv, Prepared
    <2> QED
        BY <1>2, <2>1, <2>2 DEF NewKeys, Added
<1>6. Added(q, u) = Added(q, t) \union {op.key}
    <2>1. i # 0
        BY <1>2
    <2>2. DOMAIN t.list.named = Keys
        BY <1>2 DEF Lists
    <2>3. \A k \in Keys : u.list.named[k] = IF k = op.key THEN i ELSE t.list.named[k]
        BY <1>2, <1>3, <2>2
    <2>4. NewKeys(q) \subseteq Keys
        BY DEF NewKeys
    <2> HIDE DEF i
    <2> QED
        BY <1>5, <2>1, <2>3, <2>4 DEF Added
<1>7. /\ IsFiniteSet(NewKeys(q)) /\ IsFiniteSet(Added(q, t))
      /\ Cardinality(Added(q, u)) = Cardinality(Added(q, t)) + 1
      /\ Cardinality(Added(q, t)) \in Nat /\ Cardinality(NewKeys(q)) \in Nat
      /\ Cardinality(Added(q, u)) <= Cardinality(NewKeys(q))
    <2>1. IsFiniteSet(NewKeys(q))
        BY NewKeysFinite DEF Applying, IInv, Prepared
    <2>2. Added(q, t) \in SUBSET NewKeys(q) /\ Added(q, u) \in SUBSET NewKeys(q)
        BY DEF Added
    <2>3. IsFiniteSet(Added(q, t)) /\ Cardinality(Added(q, u)) <= Cardinality(NewKeys(q))
        BY <2>1, <2>2, FS_Subset
    <2>4. Cardinality(Added(q, u)) = Cardinality(Added(q, t)) + 1
        BY <1>5, <1>6, <2>3, FS_AddElement
    <2> QED
        BY <2>1, <2>3, <2>4, FS_CardinalityType
<1>8. /\ u.issued = issued + Cardinality(Added(q, u))
      /\ u.issued \in 1..MaxIds /\ i \in Ids /\ i > issued
    <2>1. issued \in Nat /\ MaxIds \in Nat
        BY IssuedIds, BoundsAssumption DEF Applying, IInv
    <2>2. t.issued = issued + Cardinality(Added(q, t))
        BY <1>2 DEF Grown
    <2>3. issued + Cardinality(NewKeys(q)) <= MaxIds
        BY DEF Applying
    <2> HIDE DEF q
    <2>4. u.issued = issued + Cardinality(Added(q, u))
        BY <1>3, <1>7, <2>1, <2>2
    <2>5. u.issued <= MaxIds /\ u.issued > issued /\ u.issued \in Nat
        BY <1>7, <1>3, <2>1, <2>2, <2>3, <2>4
    <2> QED
        BY <1>3, <2>1, <2>4, <2>5 DEF Ids
<1>9. /\ t.rows \in [Ids -> Rows] /\ t.list.rows \in [Ids -> Rows]
      /\ t.list.named \in [Keys -> 0..MaxIds]
    BY <1>2 DEF Transactions, Lists
<1>10. /\ u.rows \in [Ids -> Rows] /\ u.list.rows \in [Ids -> Rows]
       /\ u.list.named \in [Keys -> 0..MaxIds]
    BY <1>2, <1>3, <1>4, <1>8, <1>9
<1>11. u \in Transactions
    <2> HIDE DEF i, e
    <2>1. u.issued \in 0..MaxIds
        BY <1>8, BoundsAssumption
    <2>2. u.list \in Lists
        BY <1>3, <1>10 DEF Lists
    <2> QED
        BY <1>3, <1>10, <2>1, <2>2 DEF Transactions
<1>12. /\ \A j \in Ids : /\ u.rows[j] = IF j = i THEN e ELSE t.rows[j]
                         /\ u.list.rows[j] = IF j = i THEN e ELSE t.list.rows[j]
       /\ \A k \in Keys : u.list.named[k] = IF k = op.key THEN i ELSE t.list.named[k]
    BY <1>3, <1>9
<1>13. issued \in Nat /\ 1..issued \subseteq Ids /\ i \notin 1..issued
    BY <1>8, IssuedIds DEF Applying, IInv
<1>14. Grown(q, u)
    <2>1. \A k \in Keys : \/ u.list.named[k] = q.list.named[k]
                          \/ /\ q.list.named[k] = 0 /\ k \in NewKeys(q)
                             /\ u.list.named[k] \in (issued + 1)..u.issued
        <3>1. SUFFICES ASSUME NEW k \in Keys
                       PROVE  \/ u.list.named[k] = q.list.named[k]
                              \/ /\ q.list.named[k] = 0 /\ k \in NewKeys(q)
                                 /\ u.list.named[k] \in (issued + 1)..u.issued
            OBVIOUS
        <3>2. CASE k = op.key
            BY <1>3, <1>5, <1>8, <1>12, <1>13, <3>2
        <3>3. CASE k # op.key
            <4>1. u.list.named[k] = t.list.named[k]
                BY <1>12, <3>3
            <4>2. \/ t.list.named[k] = q.list.named[k]
                  \/ /\ q.list.named[k] = 0 /\ k \in NewKeys(q)
                     /\ t.list.named[k] \in (issued + 1)..t.issued
                BY <1>2 DEF Grown
            <4>3. t.list.named[k] \in (issued + 1)..t.issued
                      => t.list.named[k] \in (issued + 1)..u.issued
                BY <1>2, <1>3, <1>13
            <4> QED
                BY <4>1, <4>2, <4>3
        <3> QED
            BY <3>2, <3>3
    <2>2. \A j \in 1..issued : u.list.rows[j] = q.list.rows[j]
        BY <1>2, <1>12, <1>13 DEF Grown
    <2>3. \A j \in Ids : u.rows[j] # Absent => j <= u.issued
        <3>1. \A j \in Ids : j \in Nat /\ (t.rows[j] # Absent => j <= t.issued)
            BY <1>2 DEF Grown, Ids
        <3> QED
            BY <1>2, <1>3, <1>12, <3>1
    <2> QED
        BY <1>8, <2>1, <2>2, <2>3 DEF Grown
<1>15. Fresh(q, u)
    <2>1. SUFFICES ASSUME NEW j \in Ids, j > issued, u.rows[j] # Absent
                   PROVE  /\ q.list.named[u.rows[j].key] = 0
                          /\ u.list.named[u.rows[j].key] = j
        BY DEF Fresh
    <2>2. CASE j = i
        BY <1>2, <1>4, <1>5, <1>12, <2>2
    <2>3. CASE j # i
        <3>1. u.rows[j] = t.rows[j]
            BY <1>12, <2>3
        <3>2. q.list.named[t.rows[j].key] = 0 /\ t.list.named[t.rows[j].key] = j
            BY <1>2, <2>1, <3>1 DEF Fresh
        <3>3. t.rows[j].key \in Keys
            BY <1>9, <2>1, <3>1, RowFields
        <3>4. t.rows[j].key # op.key
            BY <3>2, <1>13, <2>1
        <3> QED
            BY <1>12, <3>1, <3>2, <3>3, <3>4
    <2> QED
        BY <2>2, <2>3
<1>16. \A j \in 1..issued : u.rows[j] = t.rows[j]
    BY <1>12, <1>13
<1>17. Steady(u)
    BY <1>2, <1>16 DEF Steady
<1>18. Targeted(s, u, n) /\ Updated(q, u, n)
    <2>1. 1..(n - 1) \subseteq 1..n
        OBVIOUS
    <2> QED
        BY <1>2, <1>16, <2>1 DEF Targeted, Updated
<1> QED
    BY <1>1, <1>11, <1>14, <1>15, <1>17, <1>18 DEF Carried

\* Any operation
LEMMA OpCarries ==
    ASSUME NEW s, Applying(s), NEW t, NEW n \in 1..Len(Kept(sync[s].ops)), Carried(s, t, n - 1)
    PROVE  Carried(s, ApplyOp(t, Kept(sync[s].ops)[n]), n)
<1>1. PICK op : op = Kept(sync[s].ops)[n]
    OBVIOUS
<1>2. op = sync[s].ops[n] /\ op \in Operations
    BY <1>1, KeptOps DEF Applying, IInv, Prepared
<1>3. op.op \in {"create", "update"}
    BY <1>2 DEF Operations
<1>4. CASE op.op = "create" /\ t.list.named[op.key] # 0
    BY <1>1, <1>2, <1>4, ReviseCarries DEF ApplyOp
<1>5. CASE op.op = "create" /\ t.list.named[op.key] = 0
    BY <1>1, <1>2, <1>5, AddCarries DEF ApplyOp
<1>6. CASE op.op = "update" /\ t.list.rows[op.id] # Absent
    BY <1>1, <1>2, <1>6, AlterCarries DEF ApplyOp
<1>7. CASE op.op = "update" /\ t.list.rows[op.id] = Absent
    <2>1. ApplyOp(t, op) = t
        BY <1>7 DEF ApplyOp
    <2>2. 1..(n - 1) \subseteq 1..n
        OBVIOUS
    <2>3. Targeted(s, t, n) /\ Updated(sync[s], t, n)
        BY <2>2 DEF Carried, Targeted, Updated
    <2> QED
        BY <1>1, <2>1, <2>3 DEF Carried
<1> QED
    BY <1>3, <1>4, <1>5, <1>6, <1>7

\* The transaction as a whole
LEMMA Transaction ==
    ASSUME IInv, NEW s \in Syncs, ApplyOps(s)
    PROVE  /\ Applying(s)
           /\ \E t : /\ Carried(s, t, Len(Kept(sync[s].ops)))
                     /\ entry' = t.rows /\ issued' = t.issued
<1> DEFINE ops == Kept(sync[s].ops)
           base == [rows |-> entry, list |-> sync[s].list, issued |-> issued]
           N == Len(ops)
<1>1. Applying(s)
    BY DEF ApplyOps, Applying
<1>2. ops \in Seq(Operations) /\ N \in Nat
    BY <1>1, KeptOps DEF Applying, IInv, Prepared
<1>3. entry' = FoldLeft(ApplyOp, base, ops).rows /\ issued' = FoldLeft(ApplyOp, base, ops).issued
    BY DEF ApplyOps
<1>4. Carried(s, base, 0)
    <2>1. issued \in 0..MaxIds /\ entry \in [Ids -> Rows] /\ sync[s].list \in Lists
        BY <1>1 DEF Applying, IInv, Shape, Prepared
    <2>2. base \in Transactions
        BY <2>1 DEF Transactions
    <2>3. Added(sync[s], base) = {}
        BY DEF Added, NewKeys
    <2>4. Cardinality(Added(sync[s], base)) = 0
        BY <2>3, FS_EmptySet
    <2>5. Grown(sync[s], base)
        BY <1>1, <2>1, <2>4 DEF Grown, Applying, IInv, Numbered, Exists
    <2>6. Fresh(sync[s], base)
        <3>1. \A i \in Ids : i \in Nat /\ (entry[i] # Absent => i <= issued)
            BY DEF IInv, Numbered, Exists, Ids
        <3> QED
            BY <2>1, <3>1 DEF Fresh
    <2>7. Steady(base) /\ Targeted(s, base, 0) /\ Updated(sync[s], base, 0)
        BY DEF Steady, Targeted, Updated
    <2> QED
        BY <2>2, <2>5, <2>6, <2>7 DEF Carried
<1> HIDE DEF base, ops
<1>5. PICK tr : /\ tr[0] = base
                /\ \A n \in 1..N : tr[n] = ApplyOp(tr[n - 1], ops[n])
                /\ FoldLeft(ApplyOp, base, ops) = tr[N]
    BY <1>2, FoldGoesThrough
<1> HIDE DEF N
<1> DEFINE A == {n \in Nat : n <= N => Carried(s, tr[n], n)}
<1>6. 0 \in A
    BY <1>4, <1>5
<1>7. ASSUME NEW n \in Nat, n \in A
      PROVE  n + 1 \in A
    <2>1. SUFFICES ASSUME n + 1 <= N
                   PROVE  Carried(s, tr[n + 1], n + 1)
        OBVIOUS
    <2>2. Carried(s, tr[n], n) /\ n + 1 \in 1..N /\ (n + 1) - 1 = n
        BY <1>2, <1>7, <2>1
    <2>3. tr[n + 1] = ApplyOp(tr[n], ops[n + 1])
        BY <1>5, <2>2
    <2> QED
        BY <1>1, <2>2, <2>3, OpCarries DEF N, ops
<1> HIDE DEF A
<1>8. N \in A
    BY <1>2, <1>6, <1>7, Induction
<1>9. Carried(s, tr[N], N)
    BY <1>2, <1>8 DEF A
<1> QED
    BY <1>1, <1>3, <1>5, <1>9 DEF N, ops

----------------------------------------------------------------------------
(* The steps *)

LEMMA Begins ==
    ASSUME Init
    PROVE  IInv
<1>1. /\ Absent \in Rows /\ NoPatch \in [id : 0..MaxIds, loaded : Rows]
      /\ 0 \in 0..MaxIds /\ 0 \in 0..MaxChapters /\ 0 \in 0..(MaxTries - 1)
    BY BoundsAssumption DEF Rows, NoPatch
<1>2. Shape
    BY <1>1 DEF Init, Shape, Resting
<1>3. Numbered
    BY DEF Init, Numbered, Exists
<1>4. Prepared
    BY DEF Init, Prepared, Resting
<1> QED
    BY <1>2, <1>3, <1>4 DEF IInv

\* Rows are written one at a time, none beyond the last id.
LEMMA RowStep ==
    ASSUME IInv, NEW i \in Ids, NEW r \in Rows, entry' = [entry EXCEPT ![i] = r],
           issued' \in 0..MaxIds, issued' >= issued, r # Absent => i <= issued'
    PROVE  /\ entry' \in [Ids -> Rows]
           /\ \A j \in Ids : entry'[j] # Absent => j <= issued'
<1>1. /\ entry \in [Ids -> Rows] /\ issued \in Nat /\ issued' \in Nat
      /\ \A j \in Ids : j \in Nat /\ (entry[j] # Absent => j <= issued)
    BY IssuedIds, BoundsAssumption DEF IInv, Shape, Numbered, Exists, Ids
<1> QED
    BY <1>1

\* What a step leaves alone stays as it was, while ids are issued.
LEMMA SyncsKept ==
    ASSUME IInv, issued' \in 0..MaxIds, issued' >= issued, UNCHANGED sync
    PROVE  Prepared'
<1>1. issued \in Nat /\ issued' \in Nat /\ \A j \in Ids : j \in Nat
    BY IssuedIds, BoundsAssumption DEF IInv, Ids
<1>2. \A list : Names(list, issued) => Names(list, issued')
    BY <1>1 DEF Names
<1> QED
    BY <1>2 DEF IInv, Prepared

LEMMA CreateStep ==
    ASSUME IInv, NEW k \in Keys, NEW text \in HandWritten, NEW st \in Statuses,
           CreateEntry(k, text, st)
    PROVE  IInv' /\ \A i \in 1..issued : entry'[i] = entry[i]
<1> DEFINE r == [key |-> k, content |-> text, status |-> st]
<1>1. /\ issued \in Nat /\ issued + 1 \in Ids /\ issued' = issued + 1 /\ issued' \in 0..MaxIds
      /\ issued' >= issued /\ issued + 1 <= issued'
    BY IssuedIds, BoundsAssumption DEF IInv, CreateEntry, Ids
<1>2. r \in Rows /\ entry' = [entry EXCEPT ![issued + 1] = r]
    BY NewRow DEF CreateEntry, Contents
<1> HIDE DEF r
<1>3. entry' \in [Ids -> Rows] /\ \A j \in Ids : entry'[j] # Absent => j <= issued'
    BY <1>1, <1>2, RowStep
<1>4. UNCHANGED <<sync, patch>>
    BY DEF CreateEntry
<1>5. Shape'
    BY <1>1, <1>3, <1>4 DEF IInv, Shape
<1>6. Numbered'
    BY <1>3, <1>4 DEF IInv, Numbered, Exists
<1>7. Prepared'
    BY <1>1, <1>4, SyncsKept
<1>8. \A i \in 1..issued : entry'[i] = entry[i]
    BY <1>1, <1>2 DEF IInv, Shape
<1> QED
    BY <1>5, <1>6, <1>7, <1>8 DEF IInv

LEMMA LoadStep ==
    ASSUME IInv, NEW e \in Editors, NEW i \in Ids, LoadPatch(e, i)
    PROVE  IInv'
<1>1. /\ patch' = [patch EXCEPT ![e] = [id |-> i, loaded |-> entry[i]]]
      /\ entry[i] # Absent /\ UNCHANGED <<entry, issued, sync>>
    BY DEF LoadPatch, Exists
<1>2. [id |-> i, loaded |-> entry[i]] \in [id : 0..MaxIds, loaded : Rows]
    BY BoundsAssumption DEF IInv, Shape, Ids
<1>3. Shape'
    BY <1>1, <1>2 DEF IInv, Shape
<1>4. Numbered'
    BY <1>1 DEF IInv, Shape, Numbered, Exists
<1>5. Prepared'
    BY <1>1 DEF IInv, Prepared
<1> QED
    BY <1>3, <1>4, <1>5 DEF IInv

LEMMA SaveStep ==
    ASSUME IInv, NEW e \in Editors, NEW k \in Keys \union {Keep},
           NEW text \in HandWritten \union {Keep}, NEW st \in Statuses \union {Keep},
           SavePatch(e, k, text, st)
    PROVE  /\ IInv'
           /\ \A i \in Ids : entry'[i] = Absent <=> entry[i] = Absent
<1> DEFINE q == patch[e]
           r == [key |-> Given(k, q.loaded.key), content |-> Given(text, q.loaded.content),
                 status |-> Given(st, q.loaded.status)]
<1>1. q.id \in Ids /\ q.loaded \in Rows /\ q.loaded # Absent
    BY DEF SavePatch, IInv, Shape, Numbered
<1>2. q.loaded.key \in Keys /\ q.loaded.content \in Contents /\ q.loaded.status \in Statuses
    BY <1>1, RowFields
<1>3. r \in Rows /\ r # Absent
    <2>1. Given(k, q.loaded.key) \in Keys
        BY <1>2 DEF Given
    <2>2. Given(text, q.loaded.content) \in Contents
        BY <1>2 DEF Given, Contents
    <2>3. Given(st, q.loaded.status) \in Statuses
        BY <1>2 DEF Given
    <2> QED
        BY <2>1, <2>2, <2>3, NewRow
<1>4. entry' = WriteRow(entry, q.id, r) /\ UNCHANGED <<issued, sync>>
    BY DEF SavePatch
<1> HIDE DEF r
<1>5. /\ entry' \in [Ids -> Rows]
      /\ \A i \in Ids : entry'[i] = Absent <=> entry[i] = Absent
    BY <1>1, <1>3, <1>4, Written DEF IInv, Shape
<1>6. patch' = [patch EXCEPT ![e] = NoPatch]
    BY DEF SavePatch
<1>7. NoPatch \in [id : 0..MaxIds, loaded : Rows]
    BY BoundsAssumption DEF NoPatch, Rows
<1>8. Shape'
    BY <1>4, <1>5, <1>6, <1>7 DEF IInv, Shape
<1>9. Numbered'
    BY <1>4, <1>5, <1>6 DEF IInv, Shape, Numbered, Exists
<1>10. Prepared'
    BY <1>4 DEF IInv, Prepared
<1> QED
    BY <1>5, <1>8, <1>9, <1>10 DEF IInv

LEMMA DeleteStep ==
    ASSUME IInv, NEW i \in Ids, DeleteEntry(i)
    PROVE  /\ IInv'
           /\ \A j \in Ids : entry'[j] # Absent => entry[j] # Absent
<1>1. entry' = [entry EXCEPT ![i] = Absent] /\ UNCHANGED <<issued, sync, patch>>
    BY DEF DeleteEntry
<1>2. Shape'
    BY <1>1 DEF IInv, Shape, Rows
<1>3. \A j \in Ids : entry'[j] # Absent => entry[j] # Absent
    BY <1>1 DEF IInv, Shape
<1>4. Numbered'
    BY <1>1, <1>3 DEF IInv, Numbered, Exists
<1>5. Prepared'
    BY <1>1 DEF IInv, Prepared
<1> QED
    BY <1>2, <1>3, <1>4, <1>5 DEF IInv

\* The record of a sync
SyncStates == [step : {"idle", "ask", "apply", "done", "failed"},
               left : 0..MaxChapters, tries : 0..(MaxTries - 1),
               ops : Answers \union {<<>>}, list : Lists \union {NoList}]

\* A sync that goes on to a state of which nothing but the shape, and a chapter to go, is asked
LEMMA SyncStep ==
    ASSUME IInv, NEW s \in Syncs, NEW r \in SyncStates, r.step # "apply",
           r.step = "ask" => r.left # 0,
           sync' = [sync EXCEPT ![s] = r], UNCHANGED <<entry, issued, patch>>
    PROVE  IInv'
<1>1. Shape'
    BY DEF IInv, Shape, SyncStates
<1>2. Numbered'
    BY DEF IInv, Numbered, Exists
<1>3. Prepared'
    BY DEF IInv, Shape, Prepared
<1> QED
    BY <1>1, <1>2, <1>3 DEF IInv

LEMMA SyncShapes ==
    /\ \A step \in {"idle", "done", "failed"} : Resting(step) \in SyncStates
    /\ \A n \in 1..MaxChapters : Asking(n) \in SyncStates /\ Asking(n).left # 0
    /\ \A step : Resting(step).step = step
    /\ \A n : Asking(n).step = "ask"
<1>1. 0 \in 0..MaxChapters /\ 0 \in 0..(MaxTries - 1)
    BY BoundsAssumption
<1>2. \A n \in 1..MaxChapters : n \in 0..MaxChapters /\ n # 0
    BY BoundsAssumption
<1> QED
    BY <1>1, <1>2 DEF Resting, Asking, SyncStates

LEMMA BeginStep ==
    ASSUME IInv, NEW s \in Syncs, NEW n \in 1..MaxChapters, BeginSync(s, n)
    PROVE  IInv'
    BY SyncShapes, SyncStep DEF BeginSync

LEMMA BadStep ==
    ASSUME IInv, NEW s \in Syncs, BadAnswer(s)
    PROVE  IInv' /\ sync'[s].step \in {"ask", "failed"}
<1>1. /\ sync[s] \in SyncStates /\ sync[s].step = "ask" /\ sync[s].left # 0
      /\ sync \in [Syncs -> SyncStates] /\ UNCHANGED <<entry, issued, patch>>
    BY DEF IInv, Shape, Prepared, SyncStates, BadAnswer
<1>2. CASE sync[s].tries + 1 = MaxTries
    <2>1. sync' = [sync EXCEPT ![s] = Resting("failed")]
        BY <1>2 DEF BadAnswer
    <2>2. IInv'
        BY <1>1, <2>1, SyncShapes, SyncStep
    <2> QED
        BY <1>1, <2>1, <2>2, SyncShapes
<1>3. CASE sync[s].tries + 1 # MaxTries
    <2> DEFINE r == [sync[s] EXCEPT !.tries = sync[s].tries + 1]
    <2>1. sync' = [sync EXCEPT ![s] = r]
        BY <1>1, <1>3 DEF BadAnswer
    <2>2. sync[s].tries + 1 \in 0..(MaxTries - 1)
        BY <1>1, <1>3, BoundsAssumption DEF SyncStates
    <2>3. r \in SyncStates /\ r.step = "ask" /\ r.left # 0
        BY <1>1, <2>2 DEF SyncStates
    <2> HIDE DEF r
    <2>4. IInv'
        BY <1>1, <2>1, <2>3, SyncStep
    <2> QED
        BY <1>1, <2>1, <2>3, <2>4
<1> QED
    BY <1>2, <1>3

LEMMA AbortStep ==
    ASSUME IInv, NEW s \in Syncs, AbortSync(s)
    PROVE  IInv' /\ sync'[s].step = "failed"
<1>1. IInv'
    BY SyncShapes, SyncStep DEF AbortSync
<1> QED
    BY <1>1, SyncShapes DEF AbortSync, IInv, Shape

LEMMA AnswerStep ==
    ASSUME IInv, NEW s \in Syncs, NEW ops \in Answers, Answer(s, ops)
    PROVE  IInv' /\ sync'[s].step = "apply"
<1>1. PICK named \in [Keys -> {0} \union Present] :
          /\ ByName(named)
          /\ sync' = [sync EXCEPT ![s].step = "apply", ![s].ops = ops,
                                  ![s].list = [rows |-> entry, named |-> named]]
    BY DEF Answer
<1>2. PICK list : list = [rows |-> entry, named |-> named]
    OBVIOUS
<1>3. /\ sync \in [Syncs -> SyncStates] /\ sync[s] \in SyncStates
      /\ sync[s].step = "ask" /\ sync[s].left # 0 /\ UNCHANGED <<entry, issued, patch>>
    BY DEF IInv, Shape, Prepared, SyncStates, Answer
<1> DEFINE r == [sync[s] EXCEPT !.step = "apply", !.ops = ops, !.list = list]
<1>4. sync' = [sync EXCEPT ![s] = r]
    BY <1>1, <1>2, <1>3
<1>5. named \in [Keys -> 0..MaxIds] /\ list \in Lists
    <2>1. {0} \union Present \subseteq 0..MaxIds
        BY BoundsAssumption DEF Present, Ids
    <2>2. named \in [Keys -> 0..MaxIds]
        BY <2>1
    <2> QED
        BY <1>2, <2>2 DEF Lists, IInv, Shape
<1>6. r \in SyncStates /\ r.step = "apply" /\ r.left # 0 /\ r.ops = ops /\ r.list = list
    BY <1>3, <1>5 DEF SyncStates
<1> HIDE DEF r
<1>7. Names(list, issued)
    <2>1. \A k \in Keys : named[k] # 0 => entry[named[k]].key = k
        BY <1>1 DEF ByName
    <2>2. ASSUME NEW k \in Keys, named[k] = 0, NEW i \in Ids, entry[i].key = k
          PROVE  FALSE
        <3>1. entry[i] # Absent
            BY <2>2, RowFields DEF IInv, Shape
        <3>2. i \in Present /\ 0 \notin Present
            BY <3>1 DEF Present, Exists, Ids
        <3> QED
            BY <1>1, <2>2, <3>2 DEF ByName
    <2>3. \A i \in Ids : entry[i] # Absent => i <= issued
        BY DEF IInv, Numbered, Exists
    <2>4. list.rows = entry /\ list.named = named
        BY <1>2
    <2> QED
        BY <2>1, <2>2, <2>3, <2>4 DEF Names
<1>8. Shape'
    BY <1>3, <1>4, <1>6 DEF IInv, Shape, SyncStates
<1>9. Numbered'
    BY <1>3 DEF IInv, Numbered, Exists
<1>10. Prepared'
    BY <1>3, <1>4, <1>5, <1>6, <1>7 DEF IInv, Prepared
<1>11. sync'[s].step = "apply"
    BY <1>3, <1>4, <1>6
<1> QED
    BY <1>8, <1>9, <1>10, <1>11 DEF IInv

LEMMA ApplyStep ==
    ASSUME IInv, NEW s \in Syncs, ApplyOps(s)
    PROVE  IInv'
<1>1. PICK t : /\ Carried(s, t, Len(Kept(sync[s].ops)))
               /\ entry' = t.rows /\ issued' = t.issued
    BY Transaction
<1>2. /\ entry' \in [Ids -> Rows] /\ issued' \in 0..MaxIds
      /\ \A i \in Ids : entry'[i] # Absent => i <= issued'
    BY <1>1 DEF Carried, Transactions, Grown
<1>3. issued' >= issued
    <2>1. IsFiniteSet(NewKeys(sync[s])) /\ Added(sync[s], t) \in SUBSET NewKeys(sync[s])
        BY NewKeysFinite DEF ApplyOps, IInv, Prepared, Added
    <2>2. Cardinality(Added(sync[s], t)) \in Nat
        BY <2>1, FS_Subset, FS_CardinalityType
    <2>3. issued' = issued + Cardinality(Added(sync[s], t)) /\ issued \in Nat
        BY <1>1, IssuedIds DEF Carried, Grown, IInv
    <2> QED
        BY <2>2, <2>3
<1> DEFINE r == IF sync[s].left = 1 THEN Resting("done") ELSE Asking(sync[s].left - 1)
<1>4. sync' = [sync EXCEPT ![s] = r] /\ patch' = patch
    BY DEF ApplyOps
<1>5. r \in SyncStates /\ r.step # "apply" /\ (r.step = "ask" => r.left # 0)
    <2>1. sync[s].left \in 0..MaxChapters /\ sync[s].left # 0
        BY DEF ApplyOps, IInv, Shape, Prepared
    <2>2. sync[s].left = 1 \/ sync[s].left - 1 \in 1..MaxChapters
        BY <2>1, BoundsAssumption
    <2> QED
        BY <2>2, SyncShapes
<1> HIDE DEF r
<1>6. Shape'
    BY <1>2, <1>4, <1>5 DEF IInv, Shape, SyncStates
<1>7. Numbered'
    BY <1>2, <1>4 DEF IInv, Numbered, Exists
<1>8. Prepared'
    <2>1. issued \in Nat /\ issued' \in Nat /\ \A j \in Ids : j \in Nat
        BY <1>2, IssuedIds, BoundsAssumption DEF IInv, Ids
    <2>2. \A list : Names(list, issued) => Names(list, issued')
        BY <1>3, <2>1 DEF Names
    <2> QED
        BY <1>4, <1>5, <2>2 DEF IInv, Shape, Prepared
<1> QED
    BY <1>6, <1>7, <1>8 DEF IInv

----------------------------------------------------------------------------
(* What a commit does *)

LEMMA AnswerMoves ==
    ASSUME IInv, NEW s \in Syncs, NEW ops \in Answers, Answer(s, ops)
    PROVE  \E r : sync' = [sync EXCEPT ![s] = r]
<1>1. PICK list : sync' = [sync EXCEPT ![s].step = "apply", ![s].ops = ops, ![s].list = list]
    BY DEF Answer
<1>2. sync' = [sync EXCEPT ![s] = [sync[s] EXCEPT !.step = "apply", !.ops = ops, !.list = list]]
    BY <1>1 DEF IInv, Shape
<1> QED
    BY <1>2

\* Only the transaction of a sync commits.
LEMMA OnlyApplyCommits ==
    ASSUME IInv, Next, NEW s \in Syncs, Commits(s)
    PROVE  ApplyOps(s)
<1>1. sync[s].step = "apply" /\ sync'[s].step \in {"ask", "done"}
    BY DEF Commits
<1>2. CASE Users
    BY <1>1, <1>2 DEF Users, CreateEntry, LoadPatch, SavePatch, DeleteEntry
<1>3. ASSUME NEW z \in Syncs, Work(z) \/ \E n \in 1..MaxChapters : BeginSync(z, n)
      PROVE  ApplyOps(s)
    <2>1. CASE z # s
        <3>1. \E r : sync' = [sync EXCEPT ![z] = r]
            <4>1. CASE Work(z)
                BY <4>1, AnswerMoves DEF Work, BadAnswer, ApplyOps, AbortSync
            <4>2. CASE \E n \in 1..MaxChapters : BeginSync(z, n)
                BY <4>2 DEF BeginSync
            <4> QED
                BY <1>3, <4>1, <4>2
        <3> QED
            BY <1>1, <2>1, <3>1 DEF IInv, Shape
    <2>2. CASE z = s
        <3>1. ~BadAnswer(s) /\ \A n : ~BeginSync(s, n)
            BY <1>1 DEF BadAnswer, BeginSync
        <3>2. ~AbortSync(s)
            BY <1>1, AbortStep
        <3>3. \A ops \in Answers : ~Answer(s, ops)
            BY <1>1 DEF Answer
        <3> QED
            BY <1>3, <2>2, <3>1, <3>2, <3>3 DEF Work
    <2> QED
        BY <2>1, <2>2
<1> QED
    BY <1>2, <1>3 DEF Next

\* A committed answer, as the properties see it
LEMMA CommitIsCarried ==
    ASSUME IInv, NEW s \in Syncs, ApplyOps(s)
    PROVE  /\ \A i \in 1..issued : /\ entry'[i] = Absent <=> entry[i] = Absent
                                   /\ entry'[i].key = entry[i].key
           /\ \A i \in Present : i \in 1..issued
           /\ \A i \in Present : entry'[i] # entry[i] =>
                 \E n \in DOMAIN sync[s].ops : n <= MaxOps /\ Addresses(s, n, i)
           /\ \A i \in Present : entry'[i].status # entry[i].status =>
                 \E n \in DOMAIN sync[s].ops :
                    /\ sync[s].ops[n].op = "update" /\ sync[s].ops[n].id = i
                    /\ entry'[i].status = Given(sync[s].ops[n].status,
                                                sync[s].list.rows[i].status)
           /\ \E named \in [Keys -> 0..MaxIds] :
                 \A i \in Ids : i > issued /\ entry'[i] # Absent =>
                    sync[s].list.named[entry'[i].key] = 0 /\ named[entry'[i].key] = i
<1> DEFINE N == Len(Kept(sync[s].ops))
<1>1. PICK t : Carried(s, t, N) /\ entry' = t.rows /\ issued' = t.issued
    BY Transaction
<1>2. \A n \in 1..N : n \in DOMAIN sync[s].ops /\ n <= MaxOps
    <2>1. sync[s].ops \in Answers
        BY DEF ApplyOps, IInv, Prepared
    <2>2. N \in Nat /\ N <= MaxOps /\ \A n \in 1..N : n \in DOMAIN sync[s].ops
        BY <2>1, KeptOps
    <2> HIDE DEF N
    <2> QED
        BY <2>2, MaxOpsAssumption
<1> HIDE DEF N
<1>3. Steady(t) /\ Targeted(s, t, N) /\ Updated(sync[s], t, N) /\ Fresh(sync[s], t)
    BY <1>1 DEF Carried
<1>4. \A i \in Present : i \in 1..issued
    BY IssuedIds DEF Present, IInv, Numbered, Ids
<1>5. t.list.named \in [Keys -> 0..MaxIds]
    BY <1>1 DEF Carried, Transactions, Lists
<1>6. \A i \in Present : entry'[i] # entry[i] =>
          \E n \in DOMAIN sync[s].ops : n <= MaxOps /\ Addresses(s, n, i)
    BY <1>1, <1>2, <1>3, <1>4 DEF Targeted
<1>7. \A i \in Present : entry'[i].status # entry[i].status =>
          \E n \in DOMAIN sync[s].ops :
             /\ sync[s].ops[n].op = "update" /\ sync[s].ops[n].id = i
             /\ entry'[i].status = Given(sync[s].ops[n].status, sync[s].list.rows[i].status)
    BY <1>1, <1>2, <1>3, <1>4 DEF Updated
<1>8. \A i \in Ids : i > issued /\ entry'[i] # Absent =>
          sync[s].list.named[entry'[i].key] = 0 /\ t.list.named[entry'[i].key] = i
    BY <1>1, <1>3 DEF Fresh
<1>9. \A i \in 1..issued : /\ entry'[i] = Absent <=> entry[i] = Absent
                           /\ entry'[i].key = entry[i].key
    BY <1>1, <1>3 DEF Steady
<1> QED
    BY <1>4, <1>5, <1>6, <1>7, <1>8, <1>9

\* Only a list that is stale makes a twin.
LEMMA NoTwin ==
    ASSUME IInv, IInv', NEW s \in Syncs, ApplyOps(s), sync[s].list.rows = entry
    PROVE  Twins' \subseteq Twins
<1>1. PICK named \in [Keys -> 0..MaxIds] :
          \A i \in Ids : i > issued /\ entry'[i] # Absent =>
              sync[s].list.named[entry'[i].key] = 0 /\ named[entry'[i].key] = i
    BY CommitIsCarried
<1>2. \A i \in 1..issued : /\ entry'[i] = Absent <=> entry[i] = Absent
                           /\ entry'[i].key = entry[i].key
    BY CommitIsCarried
<1>3. \A k \in Keys : sync[s].list.named[k] = 0 => \A i \in Ids : entry[i].key # k
    BY DEF ApplyOps, IInv, Prepared, Names
<1>4. issued \in Nat /\ \A i \in Ids : i \in 1..issued \/ i > issued
    BY IssuedIds DEF IInv, Ids
<1>5. \A i \in Present' : i \in Ids /\ entry'[i] # Absent
    BY DEF Present, Exists
<1>6. SUFFICES ASSUME NEW k \in Keys, NEW i \in Present', NEW j \in Present', i # j,
                      entry'[i].key = k, entry'[j].key = k
               PROVE  k \in Twins
    BY DEF Twins
<1>7. i \in Ids /\ j \in Ids /\ entry'[i] # Absent /\ entry'[j] # Absent
    BY <1>5
<1>8. CASE i \in 1..issued /\ j \in 1..issued
    <2>1. i \in Present /\ j \in Present /\ entry[i].key = k /\ entry[j].key = k
        BY <1>2, <1>6, <1>7, <1>8 DEF Present, Exists
    <2> QED
        BY <1>6, <2>1 DEF Twins
<1>9. CASE i > issued /\ j > issued
    BY <1>1, <1>6, <1>7, <1>9
<1>10. CASE i > issued /\ j \in 1..issued
    <2>1. entry[j].key = k /\ sync[s].list.named[k] = 0
        BY <1>1, <1>2, <1>6, <1>7, <1>10
    <2> QED
        BY <1>3, <1>7, <2>1
<1>11. CASE j > issued /\ i \in 1..issued
    <2>1. entry[i].key = k /\ sync[s].list.named[k] = 0
        BY <1>1, <1>2, <1>6, <1>7, <1>11
    <2> QED
        BY <1>3, <1>7, <2>1
<1> QED
    BY <1>4, <1>7, <1>8, <1>9, <1>10, <1>11

\* What a step does: the invariant, and that nothing comes back
LEMMA Step ==
    ASSUME IInv, [Next]_vars
    PROVE  /\ IInv'
           /\ \A i \in 1..issued : Exists(i)' => Exists(i)
<1>0. 1..issued \subseteq Ids
    BY IssuedIds DEF IInv
<1>1. CASE UNCHANGED vars
    <2>1. Shape' /\ Numbered'
        BY <1>1 DEF vars, IInv, Shape, Numbered, Exists
    <2>2. Prepared'
        BY <1>1 DEF vars, IInv, Prepared
    <2> QED
        BY <1>1, <2>1, <2>2 DEF vars, IInv, Exists
<1>2. ASSUME NEW k \in Keys, NEW text \in HandWritten, NEW st \in Statuses,
             CreateEntry(k, text, st)
      PROVE  IInv' /\ \A i \in 1..issued : Exists(i)' => Exists(i)
    BY <1>2, CreateStep DEF Exists
<1>3. ASSUME NEW i \in Ids, DeleteEntry(i)
      PROVE  IInv' /\ \A j \in 1..issued : Exists(j)' => Exists(j)
    BY <1>0, <1>3, DeleteStep DEF Exists
<1>4. ASSUME NEW i \in Ids, NEW e \in Editors, LoadPatch(e, i)
      PROVE  IInv' /\ \A j \in 1..issued : Exists(j)' => Exists(j)
    BY <1>4, LoadStep DEF LoadPatch, Exists
<1>5. ASSUME NEW e \in Editors, NEW k \in Keys \union {Keep},
             NEW text \in HandWritten \union {Keep}, NEW st \in Statuses \union {Keep},
             SavePatch(e, k, text, st)
      PROVE  IInv' /\ \A j \in 1..issued : Exists(j)' => Exists(j)
    BY <1>0, <1>5, SaveStep DEF Exists
<1>6. ASSUME NEW s \in Syncs, NEW n \in 1..MaxChapters, BeginSync(s, n)
      PROVE  IInv' /\ \A j \in 1..issued : Exists(j)' => Exists(j)
    BY <1>6, BeginStep DEF BeginSync, Exists
<1>7. ASSUME NEW s \in Syncs, BadAnswer(s)
      PROVE  IInv' /\ \A j \in 1..issued : Exists(j)' => Exists(j)
    BY <1>7, BadStep DEF BadAnswer, Exists
<1>8. ASSUME NEW s \in Syncs, AbortSync(s)
      PROVE  IInv' /\ \A j \in 1..issued : Exists(j)' => Exists(j)
    BY <1>8, AbortStep DEF AbortSync, Exists
<1>9. ASSUME NEW s \in Syncs, NEW ops \in Answers, Answer(s, ops)
      PROVE  IInv' /\ \A j \in 1..issued : Exists(j)' => Exists(j)
    BY <1>9, AnswerStep DEF Answer, Exists
<1>10. ASSUME NEW s \in Syncs, ApplyOps(s)
       PROVE  IInv' /\ \A j \in 1..issued : Exists(j)' => Exists(j)
    BY <1>10, ApplyStep, CommitIsCarried DEF Exists
<1> QED
    BY <1>1, <1>2, <1>3, <1>4, <1>5, <1>6, <1>7, <1>8, <1>9, <1>10 DEF Next, Users, Work

LEMMA Invariant == Spec => []IInv
<1>1. Init => IInv
    BY Begins
<1>2. IInv /\ [Next]_vars => IInv'
    BY Step
<1> QED
    BY <1>1, <1>2, PTL DEF Spec

----------------------------------------------------------------------------
(* The theorems *)

\* The rows, the syncs and the PATCH requests keep their shape, and no row has an id that was
\* not issued (internal/bible).
THEOREM TypeCorrect == Spec => []TypeOK
<1>1. IInv => TypeOK
    <2>1. SUFFICES ASSUME IInv
                   PROVE  TypeOK
        OBVIOUS
    <2>2. Present \subseteq 1..issued
        BY <2>1, IssuedIds DEF IInv, Numbered, Present, Ids
    <2>3. \A s \in Syncs :
              sync[s].step = "apply" =>
                  sync[s].ops \in Answers /\ sync[s].list.rows \in [Ids -> Rows]
        BY <2>1 DEF IInv, Prepared, Lists
    <2> QED
        BY <2>1, <2>2, <2>3 DEF IInv, Shape, TypeOK
<1> QED
    BY <1>1, Invariant, PTL

\* bible.go: the model never deletes an entry, and no request and no sync brings back an
\* entry that a user has deleted, whatever it had read before.
THEOREM LiveOnce == Spec => EntriesLiveOnce
<1> DEFINE Once == /\ \A i \in 1..issued : Exists(i)' => Exists(i)
                   /\ \A s \in Syncs : Commits(s) => \A i \in Present : Exists(i)'
<1>1. IInv /\ [Next]_vars => [Once]_vars
    <2>1. SUFFICES ASSUME IInv, [Next]_vars, ~UNCHANGED vars
                   PROVE  Once
        OBVIOUS
    <2>2. \A i \in 1..issued : Exists(i)' => Exists(i)
        BY <2>1, Step
    <2>3. ASSUME NEW s \in Syncs, Commits(s), NEW i \in Present
          PROVE  Exists(i)'
        <3>1. ApplyOps(s)
            BY <2>1, <2>3, OnlyApplyCommits
        <3> QED
            BY <2>1, <2>3, <3>1, CommitIsCarried DEF Present, Exists
    <2> QED
        BY <2>2, <2>3
<1> QED
    BY <1>1, Invariant, PTL DEF Spec, EntriesLiveOnce

\* ApplyOps: a sync whose list is still what the table holds makes no second entry of a kind
\* and name, neither beside an old one nor twice in one answer.
THEOREM CurrentListIsSafe == Spec => CurrentListMakesNoTwin
<1> DEFINE Safe == \A s \in Syncs : Commits(s) /\ sync[s].list.rows = entry
                                    => Twins' \subseteq Twins
<1>1. IInv /\ [Next]_vars => [Safe]_vars
    <2>1. SUFFICES ASSUME IInv, [Next]_vars, ~UNCHANGED vars
                   PROVE  Safe
        OBVIOUS
    <2>2. ASSUME NEW s \in Syncs, Commits(s), sync[s].list.rows = entry
          PROVE  Twins' \subseteq Twins
        <3>1. ApplyOps(s)
            BY <2>1, <2>2, OnlyApplyCommits
        <3>2. IInv'
            BY <2>1, Step
        <3> QED
            BY <2>1, <2>2, <3>1, <3>2, NoTwin
    <2> QED
        BY <2>2
<1> QED
    BY <1>1, Invariant, PTL DEF Spec, CurrentListMakesNoTwin

\* ApplyOps: a sync changes only entries that the first maxOps operations of its answer are
\* about, however stale its list is.
THEOREM OnlyTargetsChange == Spec => TouchesOnlyTargets
<1> DEFINE Targets == \A s \in Syncs : Commits(s) => \A i \in Present :
                          entry'[i] # entry[i] =>
                              \E n \in DOMAIN sync[s].ops : n <= MaxOps /\ Addresses(s, n, i)
<1>1. IInv /\ [Next]_vars => [Targets]_vars
    <2>1. SUFFICES ASSUME IInv, [Next]_vars, ~UNCHANGED vars
                   PROVE  Targets
        OBVIOUS
    <2> QED
        BY <2>1, OnlyApplyCommits, CommitIsCarried
<1> QED
    BY <1>1, Invariant, PTL DEF Spec, TouchesOnlyTargets

\* ApplyOps: a sync moves an entry's status only to one that an update of it names, or back to
\* the one its list showed; a create that meets its key keeps the status there is.
THEOREM StatusByUpdate == Spec => StatusMovesByUpdate
<1> DEFINE Moves ==
        \A s \in Syncs : Commits(s) => \A i \in Present :
            entry'[i].status # entry[i].status =>
                \E n \in DOMAIN sync[s].ops :
                    LET op == sync[s].ops[n] IN
                    /\ op.op = "update" /\ op.id = i
                    /\ entry'[i].status = Given(op.status, sync[s].list.rows[i].status)
<1>1. IInv /\ [Next]_vars => [Moves]_vars
    <2>1. SUFFICES ASSUME IInv, [Next]_vars, ~UNCHANGED vars
                   PROVE  Moves
        OBVIOUS
    <2> QED
        BY <2>1, OnlyApplyCommits, CommitIsCarried
<1> QED
    BY <1>1, Invariant, PTL DEF Spec, StatusMovesByUpdate
=============================================================================
