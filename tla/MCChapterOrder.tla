--------------------------- MODULE MCChapterOrder ---------------------------
(* Five chapter ids, three requests in flight, imports of at most two      *)
(* chapters: a chapter is deleted while the one before it is and while a   *)
(* third request inserts, with chapters left over whose order can break.   *)
EXTENDS ChapterOrder, TLC

Symmetry == Permutations(Ids) \union Permutations(Requests)
=============================================================================
