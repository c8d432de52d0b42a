---------------------------- MODULE MCServerGraph ----------------------------
\* Model values for ServerGraph: one file whose inputs and graph change apart,
\* and one that may be deleted.
EXTENDS ServerGraph, TLC

CONSTANTS h1, h2, g1, g2

MCHosts == {h1, h2}
MCGraphFiles == {g1, g2}
MCKeys == {1, 2, 3}
\* The second key yields the records of the first.
MCRecordsOf == <<11, 11, 13>>
MCTrees == {[f \in MCGraphFiles |-> IF f = g1 THEN 1 ELSE 3],
            [f \in MCGraphFiles |-> IF f = g1 THEN 2 ELSE 3],
            [f \in MCGraphFiles |-> IF f = g1 THEN 3 ELSE Gone]}

GraphSymmetry == Permutations(MCHosts)
=============================================================================
