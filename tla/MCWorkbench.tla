---------------------------- MODULE MCWorkbench ----------------------------
(* Two chapters and two write jobs, each interchangeable.                  *)
EXTENDS Workbench, TLC

Symmetry == Permutations(Chapters) \union Permutations(Jobs)
=============================================================================
