--------------------------- MODULE MCStageMachine ---------------------------
(***************************************************************************)
(* StageMachine for TLC.  Stage 1 is the extraction (one document per      *)
(* batch), stage 2 the issues or the classification (batches of two),      *)
(* stage 3 a single batch without items; the first two are critical, as in *)
(* _CRITICAL_STAGES.                                                       *)
(***************************************************************************)
EXTENDS StageMachine, TLC

MCInput     == [k \in Stages |-> k - 1]
MCBatchSize == [k \in Stages |-> IF k = 1 THEN 1 ELSE 2]
MCSingle    == {k \in Stages : k > 2}
MCCritical  == {k \in Stages : k <= 2}

Symmetry == Permutations(Workers)
=============================================================================
