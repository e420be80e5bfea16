---------------------------- MODULE ChapterOrder ----------------------------
(***************************************************************************)
(* The order of a project's chapters: the seq column that creating,        *)
(* deleting and importing chapters maintain (internal/write/write.go,      *)
(* internal/httpapi/write.go, internal/httpapi/outline.go).                *)
(*                                                                         *)
(* Creating reads MAX(seq) and inserts in two statements; deleting reads   *)
(* the chapter's seq, then removes it and closes the gap in a transaction. *)
(* Nothing holds between the read and the write, so requests overlap; the  *)
(* table's UNIQUE (project_id, seq) is what rejects the worst of it.       *)
(***************************************************************************)
EXTENDS Integers

CONSTANTS Ids,        \* chapter ids; ids.New never repeats one
          Requests,   \* requests in flight at once
          NoId,
          MaxImport   \* bound: how many chapters an import brings

ASSUME NoIdAssumption == NoId \notin Ids
ASSUME MaxImportAssumption == MaxImport \in Nat

VARIABLES seq,        \* seq[c]: the column, 0 when there is no row
          issued,     \* ids ever used
          request,    \* request[r]: what r has read and is about to write
          overlapped  \* history: some write was based on a read that no longer held

vars == <<seq, issued, request, overlapped>>

Present == {c \in Ids : seq[c] # 0}
Last == {c \in Present : \A d \in Present : seq[d] <= seq[c]}
IsMaxSeq(m) == IF Present = {} THEN m = 0 ELSE \E c \in Last : m = seq[c]

Idle == [op |-> "none", chapter |-> NoId, seq |-> 0]

Init ==
    /\ seq = [c \in Ids |-> 0]
    /\ issued = {}
    /\ request = [r \in Requests |-> Idle]
    /\ overlapped = FALSE

----------------------------------------------------------------------------
\* handleCreateChapter up to NextSeq: MAX(seq) + 1, or 1 for the first chapter.
ReadNextSeq(r, c) ==
    /\ request[r] = Idle
    /\ c \notin issued
    /\ \E m \in {0} \union {seq[d] : d \in Present} :
          /\ IsMaxSeq(m)
          /\ request' = [request EXCEPT ![r] = [op |-> "create", chapter |-> c, seq |-> m + 1]]
    /\ issued' = issued \union {c}
    /\ UNCHANGED <<seq, overlapped>>

Taken(n) == \E d \in Ids : seq[d] = n

\* Mutation of InsertChapter: no UNIQUE constraint behind it.
MInsertAnywhere(r) ==
    LET q == request[r] IN
    /\ q.op = "create"
    /\ seq' = [seq EXCEPT ![q.chapter] = q.seq]
    /\ overlapped' = (overlapped \/ ~IsMaxSeq(q.seq - 1))
    /\ request' = [request EXCEPT ![r] = Idle]
    /\ UNCHANGED issued

\* Insert: the row, or a constraint violation and status 500 if the seq is taken by now.
InsertChapter(r) ==
    LET q == request[r] IN
    /\ q.op = "create"
    /\ IF Taken(q.seq)
       THEN UNCHANGED <<seq, overlapped>>
       ELSE /\ seq' = [seq EXCEPT ![q.chapter] = q.seq]
            /\ overlapped' = (overlapped \/ ~IsMaxSeq(q.seq - 1))
    /\ request' = [request EXCEPT ![r] = Idle]
    /\ UNCHANGED issued

\* Mutation of ReadSeq: LoadOwned's 404 is ignored.
MReadSeqOfAnyone(r, c) ==
    /\ request[r] = Idle
    /\ request' = [request EXCEPT ![r] = [op |-> "delete", chapter |-> c, seq |-> seq[c]]]
    /\ UNCHANGED <<seq, issued, overlapped>>

\* DeleteAndRenumber up to LoadOwned; a chapter that is not there is a 404.
ReadSeq(r, c) ==
    /\ request[r] = Idle
    /\ c \in Present
    /\ request' = [request EXCEPT ![r] = [op |-> "delete", chapter |-> c, seq |-> seq[c]]]
    /\ UNCHANGED <<seq, issued, overlapped>>

\* Mutation of Without: the gap is not closed.
MWithoutGap(c, n) == [seq EXCEPT ![c] = 0]

\* The rows after DELETE of c and UPDATE seq = seq - 1 WHERE seq > n.
Without(c, n) ==
    [d \in Ids |-> IF d = c THEN 0 ELSE IF seq[d] > n THEN seq[d] - 1 ELSE seq[d]]

\* SQLite moves the rows in index order and checks each: it fails exactly if the first
\* move lands on a row that stays, and then two rows of the result share a seq.
Collides(rows) == \E d, e \in Ids : d # e /\ rows[d] = rows[e] /\ rows[d] # 0

\* Mutation of DeleteChapter: no UNIQUE constraint behind the renumbering.
MDeleteBlindly(r) ==
    LET q == request[r] IN
    /\ q.op = "delete"
    /\ seq' = Without(q.chapter, q.seq)
    /\ overlapped' = (overlapped \/ seq[q.chapter] # q.seq)
    /\ request' = [request EXCEPT ![r] = Idle]
    /\ UNCHANGED issued

\* The transaction of DeleteAndRenumber, with the seq read before it: committed, or rolled
\* back with status 500. A row deleted meanwhile is no error, the UPDATE runs all the same.
DeleteChapter(r) ==
    LET q == request[r]
        after == Without(q.chapter, q.seq)
    IN
    /\ q.op = "delete"
    /\ IF Collides(after)
       THEN UNCHANGED <<seq, overlapped>>
       ELSE /\ seq' = after
            /\ overlapped' = (overlapped \/ seq[q.chapter] \notin {0, q.seq})
    /\ request' = [request EXCEPT ![r] = Idle]
    /\ UNCHANGED issued

\* handleImportOutline: one transaction inserts the chapters in list order, after the last
\* one or in place of all. A writer between its read and its first write makes SQLite
\* refuse the transaction, so it sees the rows it changes.
ImportOutline(replace, list) ==
    LET new == {list[i] : i \in DOMAIN list} IN
    /\ \A i, k \in DOMAIN list : i # k => list[i] # list[k]
    /\ \E m \in {0} \union {seq[d] : d \in Present} :
          /\ IF replace THEN m = 0 ELSE IsMaxSeq(m)
          /\ seq' = [c \in Ids |->
                        IF c \in new THEN m + (CHOOSE i \in DOMAIN list : list[i] = c)
                        ELSE IF replace THEN 0 ELSE seq[c]]
    /\ issued' = issued \union new
    /\ UNCHANGED <<request, overlapped>>

Import ==
    \E replace \in BOOLEAN, n \in 1..MaxImport :
        \E list \in [1..n -> Ids \ issued] : ImportOutline(replace, list)

Next ==
    \/ \E r \in Requests :
          \/ \E c \in Ids : ReadNextSeq(r, c) \/ ReadSeq(r, c)
          \/ InsertChapter(r) \/ DeleteChapter(r)
    \/ Import

Spec == Init /\ [][Next]_vars

----------------------------------------------------------------------------
(* Properties *)

TypeOK ==
    /\ seq \in [Ids -> Nat]
    /\ issued \subseteq Ids
    /\ request \in [Requests -> [op : {"none", "create", "delete"},
                                 chapter : Ids \union {NoId}, seq : Nat]]
    /\ \A r \in Requests : request[r].op # "none" => request[r].chapter \in issued
    /\ overlapped \in BOOLEAN
    /\ Present \subseteq issued

\* Chapters that stay keep their relative order, whatever is created, deleted or imported
\* around them and however stale the number a request works with.
OrderPreserved ==
    [][\A c, d \in Ids :
          /\ seq[c] # 0 /\ seq[d] # 0 /\ seq'[c] # 0 /\ seq'[d] # 0
          /\ seq[c] < seq[d]
          => seq'[c] < seq'[d]]_vars

\* Two chapters never share a number, and the numbers are 1..n without a gap as long as no
\* write was based on a stale read: the UNIQUE constraint turns every other overlap into an
\* error. (The n of a chapter's heading in the manuscript is this number.)
SeqUnique == \A c, d \in Present : seq[c] = seq[d] => c = d
NoGaps == \A c \in Present : \A n \in 1..seq[c] : Taken(n)
Numbering == SeqUnique /\ (overlapped \/ NoGaps)
=============================================================================
