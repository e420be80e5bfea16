---------------------------- MODULE MCJobRunner ----------------------------
(* A small job runner for TLC: two workers (the default concurrency), as   *)
(* many jobs as workers, one restart.                                      *)
EXTENDS JobRunner, TLC

Symmetry == Permutations(Jobs) \union Permutations(Workers)
=============================================================================
