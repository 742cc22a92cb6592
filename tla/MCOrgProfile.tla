---------------------------- MODULE MCOrgProfile ----------------------------
EXTENDS OrgProfile

CONSTANTS w1, w2, o1, o2, s1, s2, f1, f2, v
Symmetry == Permutations({w1, w2}) \cup Permutations({o1, o2})
            \cup Permutations({s1, s2}) \cup Permutations({f1, f2})
=============================================================================
