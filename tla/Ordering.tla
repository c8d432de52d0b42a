------------------------------- MODULE Ordering -------------------------------
(***************************************************************************)
(* Orders of the rows that reads and rankings work with.                   *)
(***************************************************************************)
EXTENDS Integers, FiniteSets, FiniteSetsExt, SequencesExt, Functions

\* a comes before b: the first place where they differ decides.
Less(a, b) ==
    \E i \in DOMAIN a : a[i] < b[i] /\ \A j \in 1..(i - 1) : a[j] = b[j]

\* The members of S in the order of their keys.
InOrder(S, Key(_)) ==
    [i \in 1..Cardinality(S) |->
        CHOOSE x \in S : Cardinality({y \in S : Less(Key(y), Key(x))}) = i - 1]

\* A sequence sorted by a key of its members, stable.
SortedBy(seq, Key(_)) ==
    LET order == InOrder(DOMAIN seq, LAMBDA i : Key(seq[i]) \o <<i>>)
    IN [i \in DOMAIN seq |-> seq[order[i]]]

TopOf(seq, n) == SubSeq(seq, 1, IF Len(seq) < n THEN Len(seq) ELSE n)

PlaceOf(seq, x) == CHOOSE i \in DOMAIN seq : seq[i] = x
===============================================================================
