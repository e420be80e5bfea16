---------------------------- MODULE CardVersions ----------------------------
(***************************************************************************)
(* Style cards and their versions (internal/httpapi/cards.go): style_cards *)
(* holds the number of the current version, style_card_versions the        *)
(* contents.  Saving an edit loads the current version, may have a model   *)
(* rewrite summaries, and writes the next version if the number is still   *)
(* the one it loaded.  A fuse job (internal/fuse) loads two to four        *)
(* versions one by one, blends them and creates a card whose lineage names *)
(* them; an extract job creates a card from texts.                         *)
(*                                                                         *)
(* What a version contains is modelled by where it came from.  POST of a   *)
(* new card (handleCreateCard) is no action: it inserts into a column that *)
(* style_card_versions does not have and always rolls back.                *)
(***************************************************************************)
EXTENDS Naturals, Sequences

CONSTANTS Editors,      \* POST .../versions requests in flight at once
          Fusions,      \* fuse jobs
          Requested,    \* the references a fuse request may send, sequences of Refs
          MinParents, MaxParents,  \* 2 and 4 in the code
          MaxCards, MaxVersions    \* bounds: cards ever created, versions of each

VARIABLES current,  \* current[c]: style_cards.current_version, 0 if there is no card c
          version,  \* version[c][v]: the row of style_card_versions
          edit,     \* edit[e]: the version an edit loaded
          fusion    \* fusion[f]: the references of a fuse job and the versions it has loaded

vars == <<current, version, edit, fusion>>

Cards == 1..MaxCards
Numbers == 1..MaxVersions
Refs == [card : Cards, version : 0..MaxVersions]  \* 0 asks for the current version

ASSUME BoundsAssumption == MaxCards \in Nat /\ MaxVersions \in Nat \ {0}
ASSUME RequestedAssumption == Requested \subseteq Seq(Refs)

\* by: the request that made this version, "job" or an editor, "" for no row. base: the
\* version it is an edit of, 0 for none. blended: the versions the card was blended from.
\* lineage: the references it names.
NoRow == [by |-> "", base |-> 0, blended |-> {}, lineage |-> <<>>]
Fresh(blended, lineage) == [by |-> "job", base |-> 0, blended |-> blended, lineage |-> lineage]
Exists(c, v) == version[c][v] # NoRow
Edited(row, e, n) == [by |-> e, base |-> n, blended |-> row.blended, lineage |-> row.lineage]
NoEdit == [card |-> 0, base |-> 0]
Unstarted == [step |-> "idle", refs |-> <<>>, loaded |-> <<>>]

Init ==
    /\ current = [c \in Cards |-> 0]
    /\ version = [c \in Cards |-> [v \in Numbers |-> NoRow]]
    /\ edit = [e \in Editors |-> NoEdit]
    /\ fusion = [f \in Fusions |-> Unstarted]

----------------------------------------------------------------------------
\* persistCard of extract and fuse: the card and its version 1 in one transaction. The
\* c-th card is the c-th created.
Insert(c, row) ==
    /\ current[c] = 0 /\ \A d \in 1..(c - 1) : current[d] # 0
    /\ current' = [current EXCEPT ![c] = 1]
    /\ version' = [version EXCEPT ![c][1] = row]

\* An extract job ends.
Extract(c) ==
    /\ Insert(c, Fresh({}, <<>>))
    /\ UNCHANGED <<edit, fusion>>

\* handleCreateCardVersion up to loadOwnedCard.
LoadCard(e, c) ==
    /\ edit[e] = NoEdit
    /\ current[c] # 0
    /\ edit' = [edit EXCEPT ![e] = [card |-> c, base |-> current[c]]]
    /\ UNCHANGED <<current, version, fusion>>

\* A level out of range, a failed rewrite, a card that does not validate: nothing is written.
RejectEdit(e) ==
    /\ edit[e] # NoEdit
    /\ edit' = [edit EXCEPT ![e] = NoEdit]
    /\ UNCHANGED <<current, version, fusion>>

\* Mutation of PersistVersion: the number is read again in the transaction.
MPersistOnTop(e) ==
    LET c == edit[e].card base == edit[e].base IN
    /\ edit[e] # NoEdit
    /\ current[c] < MaxVersions
    /\ current' = [current EXCEPT ![c] = @ + 1]
    /\ version' = [version EXCEPT ![c][current[c] + 1] = Edited(version[c][base], e, base)]
    /\ edit' = [edit EXCEPT ![e] = NoEdit]
    /\ UNCHANGED fusion

\* Mutation of PersistVersion: no WHERE current_version, and INSERT OR REPLACE.
MPersistUnchecked(e) ==
    LET c == edit[e].card v == edit[e].base + 1 IN
    /\ edit[e] # NoEdit
    /\ v <= MaxVersions
    /\ current' = [current EXCEPT ![c] = v]
    /\ version' = [version EXCEPT ![c][v] = Edited(version[c][v - 1], e, v - 1)]
    /\ edit' = [edit EXCEPT ![e] = NoEdit]
    /\ UNCHANGED fusion

\* persistNewVersion: UPDATE WHERE current_version = the one loaded, then the INSERT. If
\* the number has moved on, the transaction is rolled back and the request fails.
PersistVersion(e) ==
    LET c == edit[e].card v == edit[e].base + 1 IN
    /\ edit[e] # NoEdit
    /\ v <= MaxVersions
    /\ IF current[c] = edit[e].base
       THEN /\ current' = [current EXCEPT ![c] = v]
            /\ version' = [version EXCEPT ![c][v] = Edited(version[c][v - 1], e, v - 1)]
       ELSE UNCHANGED <<current, version>>
    /\ edit' = [edit EXCEPT ![e] = NoEdit]
    /\ UNCHANGED fusion

----------------------------------------------------------------------------
(* Fuse jobs *)

\* The job's payload is what the request sent: any number of references, repeated ones too.
BeginFuse(f, refs) ==
    /\ fusion[f] = Unstarted
    /\ fusion' = [fusion EXCEPT ![f] = [step |-> "load", refs |-> refs, loaded |-> <<>>]]
    /\ UNCHANGED <<current, version, edit>>

\* Mutation of Asked: the version asked for is ignored.
MAskedCurrent(ref) == current[ref.card]

\* The version a reference stands for at this moment, 0 if there is none.
Asked(ref) ==
    IF ref.version = 0 THEN current[ref.card]
    ELSE IF Exists(ref.card, ref.version) THEN ref.version ELSE 0

\* loadParent, one query per reference.
LoadParent(f) ==
    LET q == fusion[f]
        ref == q.refs[Len(q.loaded) + 1]
    IN
    /\ q.step = "load" /\ Len(q.loaded) < Len(q.refs)
    /\ Asked(ref) # 0
    /\ fusion' = [fusion EXCEPT ![f].loaded = Append(@, Asked(ref))]
    /\ UNCHANGED <<current, version, edit>>

\* A parent that is not found, weights that do not add up, a failed model call, a canceled
\* job, a restart: no card.
FailFuse(f) ==
    /\ fusion[f].step = "load"
    /\ fusion' = [fusion EXCEPT ![f] = [Unstarted EXCEPT !.step = "over"]]
    /\ UNCHANGED <<current, version, edit>>

\* Mutation of ParentOf: the version asked for in place of the one loaded.
MParentAsked(q, n) == [card |-> q.refs[n].card, version |-> q.refs[n].version]

\* Blend finds the loaded parents by card id alone: of two versions of one card the last
\* one loaded stands for both references.
ParentOf(q, n) ==
    LET same == {m \in DOMAIN q.refs : q.refs[m].card = q.refs[n].card}
        last == CHOOSE m \in same : \A k \in same : k <= m
    IN  [card |-> q.refs[n].card, version |-> q.loaded[last]]

Blended(q) == {ParentOf(q, n) : n \in DOMAIN q.refs}

\* Blend, chatFuse and persistCard; the lineage is the request's references, as they are.
PersistFused(f, c) ==
    LET q == fusion[f] IN
    /\ q.step = "load" /\ Len(q.loaded) = Len(q.refs)
    /\ Len(q.refs) \in MinParents..MaxParents
    /\ Insert(c, Fresh(Blended(q), q.refs))
    /\ fusion' = [fusion EXCEPT ![f] = [Unstarted EXCEPT !.step = "over"]]
    /\ UNCHANGED edit

----------------------------------------------------------------------------
Edits ==
    \E e \in Editors : RejectEdit(e) \/ PersistVersion(e) \/ \E c \in Cards : LoadCard(e, c)

Fuses ==
    \E f \in Fusions :
        \/ \E refs \in Requested : BeginFuse(f, refs)
        \/ LoadParent(f) \/ FailFuse(f)
        \/ \E c \in Cards : PersistFused(f, c)

Next == Edits \/ Fuses \/ \E c \in Cards : Extract(c)

Spec == Init /\ [][Next]_vars

----------------------------------------------------------------------------
(* Properties *)

Parents == [card : Cards, version : Numbers]

TypeOK ==
    /\ current \in [Cards -> 0..MaxVersions]
    /\ \A c \in Cards, v \in Numbers :
          LET row == version[c][v] IN
          /\ row.by \in {"", "job"} \union Editors
          /\ row.base \in 0..(v - 1)
          /\ row.blended \subseteq Parents
          /\ \A n \in DOMAIN row.lineage : row.lineage[n] \in Refs
    /\ \A e \in Editors : edit[e].card \in 0..MaxCards /\ edit[e].base \in 0..MaxVersions
    /\ \A f \in Fusions : /\ fusion[f].refs \in Requested \union {<<>>}
                          /\ fusion[f].step \in {"idle", "load", "over"}
                          /\ Len(fusion[f].loaded) <= Len(fusion[f].refs)

\* The two tables agree: a card has its versions 1 to current_version and no other, so the
\* join that loads a card always finds its row.
CurrentIsLast ==
    \A c \in Cards, v \in Numbers : Exists(c, v) <=> v <= current[c]

\* No edit is lost: every version was made from the one before it, however long the model
\* took between load and save and whoever saved meanwhile.
EditsBuildOnLast ==
    \A c \in Cards, v \in Numbers : v > 1 /\ v <= current[c] => version[c][v].base = v - 1

\* A version never changes: samples, chapters and fused cards that name it keep what they saw.
VersionsAreFixed ==
    [][\A c \in Cards, v \in Numbers :
          Exists(c, v) => version'[c][v] = version[c][v]]_vars

\* What a version's lineage names is what it was blended from, although edits go on while the
\* parents are loaded: every reference has a parent of its card, in the version it asks for,
\* and that version is stored. Of one card there is one parent only: of several references
\* to it the last is the one that got its version (Blend finds the parents by card id). The
\* lineage keeps the 0 of a reference that asks for the current version.
LineageIsBlended ==
    \A c \in Cards, v \in Numbers :
        LET row == version[c][v] IN
        /\ \A n \in DOMAIN row.lineage :
              \E p \in row.blended :
                  /\ p.card = row.lineage[n].card
                  /\ \/ row.lineage[n].version \in {0, p.version}
                     \/ \E m \in DOMAIN row.lineage : m > n /\ row.lineage[m].card = p.card
        /\ \A p \in row.blended : Exists(p.card, p.version)
        /\ \A p, q \in row.blended : p.card = q.card => p = q
=============================================================================
