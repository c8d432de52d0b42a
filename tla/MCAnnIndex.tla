------------------------------ MODULE MCAnnIndex ------------------------------
\* Model values for AnnIndex.
EXTENDS AnnIndex, TLC

CONSTANTS l1, l2, v1, v2, s1

MCLabels == {l1, l2}
MCVectors == {v1, v2}

\* The text of one subject may change.
Changing == [l \in MCLabels |-> IF l = l1 THEN {v1, v2} ELSE {v1}]
=============================================================================
