----------------------------- MODULE MCRiskDesk -----------------------------
(* One required tag dimension and one that is not, with a catalog item that *)
(* passes recommend and one that reviewers select; two users.               *)
EXTENDS RiskDesk, TLC

CONSTANTS s1, s2, r1, r2

Process(x) == <<"process", x>>
Region(x) == <<"region", x>>
MCProposals == [tags  |-> {{Process("a")}, {Process("a"), Region("a")}},
                owner |-> {{"a"}}]
MCSelections == [tags |-> {{Process("b")}, {Region("b")}}, owner |-> {{"b"}}]

Posting(kind, via, overwrite) ==
    [kind |-> kind, via |-> via, openOnly |-> ~overwrite, overwrite |-> overwrite, auto |-> TRUE]
MCPostings == {Posting("tags", "stage", FALSE), Posting("owner", "stage", FALSE),
               Posting("tags", "job", TRUE), Posting("owner", "job", TRUE)}
Cautious == {Posting("tags", "stage", FALSE), Posting("owner", "stage", FALSE)}

MCSymmetry == Permutations(Sessions) \cup Permutations(Risks)
=============================================================================
