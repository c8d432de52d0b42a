--------------------------- MODULE MCServerPublish ---------------------------
\* Model values for ServerPublish.
EXTENDS ServerPublish, TLC

CONSTANTS p1, p2, f1, f2, f3, c1, c2

MCProcs == {p1, p2}
MCFiles == {f1, f2, f3}
MCContents == {c1, c2}

\* All files; one of them carried forward, one changed and one deleted.
MCScans == {
    [f \in MCFiles |-> c1],
    [f \in MCFiles |-> IF f = f1 THEN c1 ELSE IF f = f2 THEN c2 ELSE Absent] }

Symmetry == Permutations(MCProcs)
=============================================================================
