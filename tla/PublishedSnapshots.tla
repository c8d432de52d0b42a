-------------------------- MODULE PublishedSnapshots --------------------------
(***************************************************************************)
(* What server-mode indexing promises the readers of one source: they see   *)
(* exactly one scan of the source at a time, never a mixture of two, and    *)
(* what they see is replaced only by a scan of a later pass.                *)
(***************************************************************************)
EXTENDS Naturals

CONSTANTS Passes, Files, Contents, Absent

VARIABLES
    scans,      \* per pass: what it found in the source
    shown,      \* the pass whose scan is visible, 0 before the first
    view        \* what readers see

snapshotVars == <<scans, shown, view>>

Empty == [f \in Files |-> Absent]

SnapshotInit ==
    /\ scans = [b \in Passes |-> Empty]
    /\ shown = 0
    /\ view = Empty

\* A pass not yet visible scans the source.
Take(b) ==
    /\ b # shown
    /\ \E m \in [Files -> Contents \cup {Absent}] : scans' = [scans EXCEPT ![b] = m]
    /\ UNCHANGED <<shown, view>>

\* The scan of a later pass becomes visible, all of it at once.
Show(b) ==
    /\ b > shown
    /\ shown' = b
    /\ view' = scans[b]
    /\ UNCHANGED scans

SnapshotNext == \E b \in Passes : Take(b) \/ Show(b)

SnapshotSpec == SnapshotInit /\ [][SnapshotNext]_snapshotVars
=============================================================================
