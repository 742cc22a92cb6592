------------------------- MODULE MCDocumentRegistry -------------------------
(***************************************************************************)
(* DocumentRegistry for TLC.  One content, uploaded once by requests that  *)
(* neither save nor force, force, or do both, and uploaded twice by a      *)
(* request that does neither; organisations and uploads are                *)
(* interchangeable.                                                        *)
(***************************************************************************)
EXTENDS DocumentRegistry, TLC

CONSTANT x

MCContents == {x}
RequestOf(o, files, save, force) == [org |-> o, files |-> files, save |-> save, force |-> force]

MCRequests == UNION {{RequestOf(o, <<x>>, FALSE, FALSE), RequestOf(o, <<x>>, FALSE, TRUE),
                      RequestOf(o, <<x>>, TRUE, TRUE), RequestOf(o, <<x, x>>, FALSE, FALSE)}
                       : o \in Orgs}

Symmetry == Permutations(Uploads) \cup Permutations(Orgs)
=============================================================================
