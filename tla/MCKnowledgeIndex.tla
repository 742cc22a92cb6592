-------------------------- MODULE MCKnowledgeIndex --------------------------
(* Two organisations: a has two generations of a control, an issue and a     *)
(* risk, b has an issue. A text of version 1 is two chunks long, of version 2 *)
(* one.                                                                       *)
EXTENDS KnowledgeIndex, TLC

CONSTANTS a, b, k1, k2, i1, r1, x1, aggA, aggB, c1, c2

MCEntities == {k1, k2, i1, r1, x1, aggA, aggB}
MCOrgOf == [e \in MCEntities |-> IF e \in {x1, aggB} THEN b ELSE a]
MCTypeOf == [e \in MCEntities |->
    CASE e \in {k1, k2} -> "control" [] e \in {i1, x1} -> "issue"
      [] e = r1 -> "risk" [] OTHER -> "aggregate"]
MCChunksOf == <<2, 1>>
MCSymmetry == Permutations(Callers)
=============================================================================
