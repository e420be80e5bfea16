------------------------------ MODULE MCBible ------------------------------
(* Two entries, of one kind and name or of two, and a PATCH in flight;     *)
(* answers of one operation, of two that create, or of three with the cap  *)
(* at two.                                                                 *)
EXTENDS Bible

MCCreate == [op : {"create"}, key : Keys, content : {Blank, "ai"}]
MCUpdate == {op \in [op : {"update"}, id : Ids, content : {Blank, "ai"}, status : {Keep, "resolved"}] :
                op.content # Blank \/ op.status # Keep}
Symmetry == Permutations(Keys)

MCLast == [op |-> "update", id |-> 1, content |-> "ai", status |-> "resolved"]

MCAnswers ==
    {<<op>> : op \in MCCreate \union MCUpdate}
    \union {<<c, c, MCLast>> : c \in {d \in MCCreate : d.content = "ai"}}
=============================================================================
