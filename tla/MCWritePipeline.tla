-------------------------- MODULE MCWritePipeline --------------------------
(* Two write jobs for one chapter, one PATCH in flight, one restart.  No   *)
(* symmetry: the run checks liveness.                                      *)
EXTENDS WritePipeline
=============================================================================
