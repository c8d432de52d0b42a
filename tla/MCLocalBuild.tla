----------------------------- MODULE MCLocalBuild -----------------------------
\* Model values for LocalBuild.
EXTENDS LocalBuild

CONSTANTS file1, file2, t1, t2, t3

\* Every change gives a new text.
Distinct == <<t1, t2, t3>>

\* The same, for a file that changes at most twice.
Twice == <<t1, t2>>
===============================================================================
