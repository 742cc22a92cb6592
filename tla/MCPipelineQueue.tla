-------------------------- MODULE MCPipelineQueue --------------------------
(***************************************************************************)
(* PipelineQueue for TLC.  The uploads are all temporary, every stage is   *)
(* critical, runs and workers are interchangeable.                         *)
(***************************************************************************)
EXTENDS PipelineQueue, TLC

MCCritical == 1..NStages

Symmetry == Permutations(Runs) \cup Permutations(Workers)
=============================================================================
