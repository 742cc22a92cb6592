--------------------------- MODULE MCIssueLedger ---------------------------
(* Two controls, each the source of one issue, in batches of one, and a third *)
(* control id for an extraction; the environment acts in each way once.       *)
EXTENDS IssueLedger

CONSTANTS w1, w2, c1, c2, c3, f1, f2

MCCites == (f1 :> {c1}) @@ (f2 :> {c2})

\* A judgment whose residual differs from its inherent risk, and one with a
\* word outside the vocabulary.
Judged(likelihood, consequence, effs) ==
    [likelihood |-> likelihood, consequence |-> consequence, velocity |-> 5,
     insurable |-> FALSE, controls |-> effs]
MCJudgments == {Judged(4, 4, <<4, 3>>), Judged(2, 3, <<>>)}

MCFaults == [e \in FaultKinds |-> 1]
\* Nothing depends on which worker does what.
MCSymmetry == Permutations(Workers)
=============================================================================
