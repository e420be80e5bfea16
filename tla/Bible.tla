------------------------------- MODULE Bible -------------------------------
(***************************************************************************)
(* The project's bible, internal/bible: entries that users create, edit    *)
(* and delete (internal/httpapi/bible.go) and that a model maintains after *)
(* each chapter.  A sync, RunSync for every written chapter or syncBible   *)
(* for the one just written, asks the model for operations, lists the      *)
(* entries, and applies the operations in a transaction, all by that list. *)
(* Users and other syncs change the entries between the list and the       *)
(* transaction.                                                            *)
(*                                                                         *)
(* A key stands for an entry's kind and name.  origin, source_seq and the  *)
(* timestamps decide nothing and are left out, and so are the entries the  *)
(* prompt shows: the model may answer with operations on any id at all.    *)
(***************************************************************************)
EXTENDS Naturals, SequencesExt

CONSTANTS Keys,         \* kinds and names
          Syncs,        \* sync jobs and write jobs at their end
          Editors,      \* PATCH requests in flight at once
          HandWritten,  \* the contents a user may give an entry
          Answers,      \* what ParseOps makes of the model's answers: sequences of operations
          MaxOps,       \* maxOps, 30 in the code
          MaxTries,     \* 1 + syncParseRetries, 3 in the code
          Blank, NoKey, Keep,
          MaxIds,       \* bound: entries ever created
          MaxChapters   \* bound: chapters one sync goes through

ASSUME KeyAssumption == NoKey \notin Keys
ASSUME MaxOpsAssumption == MaxOps \in Nat
ASSUME BoundsAssumption == MaxTries \in Nat \ {0} /\ MaxIds \in Nat /\ MaxChapters \in Nat

VARIABLES entry,   \* entry[i]: the row with the i-th id that was issued
          issued,  \* how many ids have been issued
          sync,    \* sync[s]: where s is, its chapters left, its answer and its list
          patch    \* patch[e]: the row a PATCH has loaded and will write back

vars == <<entry, issued, sync, patch>>

Ids == 1..MaxIds
Statuses == {"active", "resolved"}

\* What ParseOps lets through: a create or an update, of an entry that exists or not.
Suggested == UNION {{ops[n].content : n \in DOMAIN ops} : ops \in Answers}
Operations ==
    [op : {"create"}, key : Keys, content : Suggested]
    \union [op : {"update"}, id : Ids, content : Suggested, status : Statuses \union {Keep}]

ASSUME AnswersAssumption == Answers \subseteq Seq(Operations)

Absent == [key |-> NoKey, content |-> Blank, status |-> "active"]
Exists(i) == entry[i] # Absent
Present == {i \in Ids : Exists(i)}
NoPatch == [id |-> 0, loaded |-> Absent]
NoList == [rows |-> <<>>, named |-> <<>>]
Resting(step) == [step |-> step, left |-> 0, tries |-> 0, ops |-> <<>>, list |-> NoList]
Asking(n) == [step |-> "ask", left |-> n, tries |-> 0, ops |-> <<>>, list |-> NoList]

Init ==
    /\ entry = [i \in Ids |-> Absent]
    /\ issued = 0
    /\ sync = [s \in Syncs |-> Resting("idle")]
    /\ patch = [e \in Editors |-> NoPatch]

----------------------------------------------------------------------------
(* Users *)

\* handleCreateBible. Nothing asks whether the key is taken.
CreateEntry(k, text, st) ==
    /\ issued < MaxIds
    /\ entry' = [entry EXCEPT ![issued + 1] = [key |-> k, content |-> text, status |-> st]]
    /\ issued' = issued + 1
    /\ UNCHANGED <<sync, patch>>

LoadPatch(e, i) ==
    /\ patch[e] = NoPatch
    /\ Exists(i)
    /\ patch' = [patch EXCEPT ![e] = [id |-> i, loaded |-> entry[i]]]
    /\ UNCHANGED <<entry, issued, sync>>

Given(new, old) == IF new = Keep THEN old ELSE new

\* Mutation of WriteRow: the row is written whether it is still there or not.
MWriteRowUpsert(rows, i, r) == [rows EXCEPT ![i] = r]

\* UPDATE ... WHERE id: nothing if the row is gone.
WriteRow(rows, i, r) == IF rows[i] = Absent THEN rows ELSE [rows EXCEPT ![i] = r]

\* handlePatchBible's UpdateFields puts every column back, as loaded where none was given.
SavePatch(e, k, text, st) ==
    LET q == patch[e] IN
    /\ q # NoPatch
    /\ entry' = WriteRow(entry, q.id, [key |-> Given(k, q.loaded.key),
                                       content |-> Given(text, q.loaded.content),
                                       status |-> Given(st, q.loaded.status)])
    /\ patch' = [patch EXCEPT ![e] = NoPatch]
    /\ UNCHANGED <<issued, sync>>

DeleteEntry(i) ==
    /\ Exists(i)
    /\ entry' = [entry EXCEPT ![i] = Absent]
    /\ UNCHANGED <<issued, sync, patch>>

----------------------------------------------------------------------------
(* Syncs *)

\* RunSync has its key and n written chapters, or Run reaches syncBible.
BeginSync(s, n) ==
    /\ sync[s].step = "idle"
    /\ sync' = [sync EXCEPT ![s] = Asking(n)]
    /\ UNCHANGED <<entry, issued, patch>>

\* Mutation of BadAnswer: one attempt too many.
MBadAnswerOnceMore(s) ==
    /\ sync[s].step = "ask"
    /\ sync' = [sync EXCEPT ![s] = IF @.tries = MaxTries THEN Resting("failed")
                                   ELSE [sync[s] EXCEPT !.tries = @ + 1]]
    /\ UNCHANGED <<entry, issued, patch>>

\* SyncChapter could not parse an answer: it asks again, MaxTries times in all.
BadAnswer(s) ==
    /\ sync[s].step = "ask"
    /\ sync' = [sync EXCEPT ![s] = IF @.tries + 1 = MaxTries THEN Resting("failed")
                                   ELSE [sync[s] EXCEPT !.tries = @ + 1]]
    /\ UNCHANGED <<entry, issued, patch>>

\* byName of ApplyOps: of entries with one key the last listed, an order left open here.
ByName(named) ==
    \A k \in Keys : IF \E i \in Present : entry[i].key = k
                    THEN named[k] \in Present /\ entry[named[k]].key = k
                    ELSE named[k] = 0

\* An answer parsed, and ApplyOps has listed the entries.
Answer(s, ops) ==
    /\ sync[s].step = "ask"
    /\ \E named \in [Keys -> {0} \union Present] :
          /\ ByName(named)
          /\ sync' = [sync EXCEPT ![s].step = "apply", ![s].ops = ops,
                                  ![s].list = [rows |-> entry, named |-> named]]
    /\ UNCHANGED <<entry, issued, patch>>

\* t: the rows, the two maps made from the list, the ids issued. A create whose key the
\* list has is an UPDATE of the content alone.
Revise(t, op) ==
    LET i == t.list.named[op.key] IN
    [t EXCEPT !.rows = WriteRow(@, i, [@[i] EXCEPT !.content = op.content])]

\* Mutation of Add: byName does not learn of the new entry.
MAddUnnamed(t, op) ==
    LET i == t.issued + 1
        e == [key |-> op.key, content |-> op.content, status |-> "active"]
    IN  [rows |-> [t.rows EXCEPT ![i] = e], issued |-> i,
         list |-> [t.list EXCEPT !.rows[i] = e]]

Add(t, op) ==
    LET i == t.issued + 1
        e == [key |-> op.key, content |-> op.content, status |-> "active"]
    IN  [rows |-> [t.rows EXCEPT ![i] = e], issued |-> i,
         list |-> [rows |-> [t.list.rows EXCEPT ![i] = e],
                   named |-> [t.list.named EXCEPT ![op.key] = i]]]

\* Mutation of Alter: a missing status is the default one.
MAlterStatus(t, op) ==
    LET known == t.list.rows[op.id] IN
    [t EXCEPT !.rows = WriteRow(@, op.id, [@[op.id] EXCEPT
                  !.content = IF op.content = Blank THEN known.content ELSE op.content,
                  !.status = IF op.status = Keep THEN "active" ELSE op.status])]

\* An update: what it leaves out comes from the list, not from the row.
Alter(t, op) ==
    LET known == t.list.rows[op.id] IN
    [t EXCEPT !.rows = WriteRow(@, op.id, [@[op.id] EXCEPT
                  !.content = IF op.content = Blank THEN known.content ELSE op.content,
                  !.status = Given(op.status, known.status)])]

ApplyOp(t, op) ==
    IF op.op = "create" THEN IF t.list.named[op.key] # 0 THEN Revise(t, op) ELSE Add(t, op)
    ELSE IF t.list.rows[op.id] = Absent THEN t ELSE Alter(t, op)

\* Mutation of Kept: no cap.
MKeptAll(ops) == ops

Kept(ops) == SubSeq(ops, 1, IF Len(ops) > MaxOps THEN MaxOps ELSE Len(ops))

\* The keys q's answer creates entries for.
NewKeys(q) ==
    {k \in Keys : /\ q.list.named[k] = 0
                  /\ \E n \in DOMAIN Kept(q.ops) : q.ops[n].op = "create" /\ q.ops[n].key = k}

\* The transaction of ApplyOps, and on to the next chapter. Each statement finds its rows
\* as the ones before left them, while the maps grow only with what is created.
ApplyOps(s) ==
    LET q == sync[s]
        after == FoldLeft(ApplyOp, [rows |-> entry, list |-> q.list, issued |-> issued],
                          Kept(q.ops))
    IN
    /\ q.step = "apply"
    /\ issued + Cardinality(NewKeys(q)) <= MaxIds
    /\ entry' = after.rows
    /\ issued' = after.issued
    /\ sync' = [sync EXCEPT ![s] = IF q.left = 1 THEN Resting("done") ELSE Asking(q.left - 1)]
    /\ UNCHANGED patch

\* A model call or a statement fails, the job is canceled, or the process restarts: the
\* transaction is rolled back, what earlier chapters brought stays. (For syncBible this is
\* the end of the sync, not of the job.)
AbortSync(s) ==
    /\ sync[s].step \in {"ask", "apply"}
    /\ sync' = [sync EXCEPT ![s] = Resting("failed")]
    /\ UNCHANGED <<entry, issued, patch>>

----------------------------------------------------------------------------
Users ==
    \/ \E k \in Keys, text \in HandWritten, st \in Statuses : CreateEntry(k, text, st)
    \/ \E i \in Ids : DeleteEntry(i) \/ \E e \in Editors : LoadPatch(e, i)
    \/ \E e \in Editors, k \in Keys \union {Keep}, text \in HandWritten \union {Keep},
          st \in Statuses \union {Keep} : SavePatch(e, k, text, st)

Work(s) ==
    \/ BadAnswer(s) \/ ApplyOps(s) \/ AbortSync(s)
    \/ \E ops \in Answers : Answer(s, ops)

Next ==
    \/ Users
    \/ \E s \in Syncs : Work(s) \/ \E n \in 1..MaxChapters : BeginSync(s, n)

Spec == Init /\ [][Next]_vars

----------------------------------------------------------------------------
(* Properties *)

Contents == HandWritten \union {Blank} \union Suggested
Rows == [key : Keys, content : Contents, status : Statuses] \union {Absent}

TypeOK ==
    /\ entry \in [Ids -> Rows]
    /\ issued \in 0..MaxIds
    /\ Present \subseteq 1..issued
    /\ \A s \in Syncs :
          /\ sync[s].step \in {"idle", "ask", "apply", "done", "failed"}
          /\ sync[s].left \in 0..MaxChapters /\ sync[s].tries \in 0..(MaxTries - 1)
          /\ sync[s].step = "apply" => sync[s].ops \in Answers /\ sync[s].list.rows \in [Ids -> Rows]
    /\ \A e \in Editors : patch[e].id \in 0..MaxIds /\ patch[e].loaded \in Rows

\* s commits a chapter's operations.
Commits(s) == sync[s].step = "apply" /\ sync'[s].step \in {"ask", "done"}

\* What bible.go:69 and the prompt promise, that the model may add and change but never
\* delete; and the other half, that nothing brings back an entry a user has deleted,
\* whatever a request or a sync had read before.
EntriesLiveOnce ==
    [][/\ \A i \in 1..issued : Exists(i)' => Exists(i)
       /\ \A s \in Syncs : Commits(s) => \A i \in Present : Exists(i)']_vars

Twins == {k \in Keys : \E i, j \in Present : i # j /\ entry[i].key = k /\ entry[j].key = k}

\* A sync whose list is still what the table holds creates no second entry of a kind and
\* name, neither beside an old entry nor twice in one answer.
CurrentListMakesNoTwin ==
    [][\A s \in Syncs : Commits(s) /\ sync[s].list.rows = entry => Twins' \subseteq Twins]_vars

\* Operation n of s's answer is about entry i.
Addresses(s, n, i) ==
    LET op == sync[s].ops[n] IN
    IF op.op = "create" THEN sync[s].list.named[op.key] = i ELSE op.id = i

\* A sync changes an entry only if one of its first maxOps operations is about it, and at
\* most maxOps entries at a time: users' edits of all others survive any stale list.
TouchesOnlyTargets ==
    [][\A s \in Syncs : Commits(s) => \A i \in Present :
          entry'[i] # entry[i] =>
             \E n \in DOMAIN sync[s].ops : n <= MaxOps /\ Addresses(s, n, i)]_vars

\* A sync moves an entry's status only to one that an update names, or back to the one its
\* list showed: a create that meets its key keeps the status there is.
StatusMovesByUpdate ==
    [][\A s \in Syncs : Commits(s) => \A i \in Present :
          entry'[i].status # entry[i].status =>
             \E n \in DOMAIN sync[s].ops :
                 LET op == sync[s].ops[n] IN
                 /\ op.op = "update" /\ op.id = i
                 /\ entry'[i].status = Given(op.status, sync[s].list.rows[i].status)]_vars

\* What the comment of ApplyOps (bible.go:412-413) says: a create that meets an entry of
\* its kind and name becomes an update, so that a sync makes no duplicate.
SyncMakesNoTwin == [][\A s \in Syncs : Commits(s) => Twins' \subseteq Twins]_vars
=============================================================================
