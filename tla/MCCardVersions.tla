--------------------------- MODULE MCCardVersions ---------------------------
(* Three cards of up to three versions, two edits at once, one fusion of   *)
(* card 1 with itself or with card 2, or of card 1 alone, which no job     *)
(* accepts. Cards are numbered as they are created, so no other pair of    *)
(* parents behaves differently.                                            *)
EXTENDS CardVersions, TLC

MCRequested ==
    {<<p, q>> : p \in {r \in Refs : r.card = 1}, q \in {r \in Refs : r.card \in 1..2}}
    \union {<<[card |-> 1, version |-> 0]>>}

Symmetry == Permutations(Editors)
=============================================================================
