---------------------------- MODULE MCSharedState ----------------------------
(***************************************************************************)
(* Components that guard shared state, checked side by side: they have no  *)
(* variable in common, `part` chooses which of them runs, and the others   *)
(* stay where they start.                                                  *)
(***************************************************************************)
EXTENDS WriterLease, ServerGraph, Scheduler, AnnIndex, Records, TLC

CONSTANTS p1, p2, p3, h1, h2, g1, g2, a, b, c, x, y, l1, l2, v1, v2, s1

VARIABLE part

\* ServerGraph: one file whose inputs change and its graph does not, and one
\* that is deleted and comes back; the second key yields the records of the
\* first.
MCRecordsOf == <<11, 11, 13>>
MCTrees == {[f \in GraphFiles |-> IF f = g1 THEN 1 ELSE 3],
            [f \in GraphFiles |-> IF f = g1 THEN 2 ELSE Gone]}

\* AnnIndex: the text of one subject may change.
Changing == [l \in Labels |-> IF l = l1 THEN {v1, v2} ELSE {v1}]

\* Records: a file of code and one that is a note, then mail with an attachment.
Held(edition, entities, chunks) ==
    [edition |-> edition, stat |-> 0, status |-> "indexed", entities |-> entities, chunks |-> chunks]
Passage(doc, ordinal, under, kind, text) ==
    [doc |-> doc, ordinal |-> ordinal, under |-> under, kind |-> kind, text |-> text]
MCMay == "a" :> {"code"} @@ "b" :> {"note", "mail"}
MCDeclares == "unread" :> {} @@ "code" :> {<<"run", "Job.run">>} @@ "mail" :> {} @@ "note" :> {}
MCTitles ==
    "unread" :> {} @@ "code" :> {} @@ "mail" :> {<<0, "re">>, <<1, "re">>} @@
    "note" :> {<<0, "to do">>}
MCPassages ==
    "unread" :> {} @@ "code" :> {} @@
    "mail" :> {Passage(0, 0, 9, "heading", "top"), Passage(1, 0, 9, "paragraph", "job")} @@
    "note" :> {Passage(0, 0, 0, "paragraph", "job"), Passage(0, 1, 1, "paragraph", "job")}
MCNames == {<<"job", "Job.run">>}
MCSuffixed == "x" :> {"a", "b"}
MCFirstStagings == {"a" :> Held("code", 1, 1) @@ "b" :> Held("mail", 1, 0)}

sharedVars == <<part, leaseVars, graphVars, schedVars, annVars, recordVars>>

SharedInit ==
    /\ Init /\ GraphInit /\ SchedInit /\ AnnInit /\ RecordsInit
    /\ part \in {"lease", "graph", "coalescing", "aging", "ann", "records"}
    /\ part # "records" => catalog = NoCatalog

\* Part p runs, and only it.
Only(p) ==
    /\ part = p /\ UNCHANGED part
    /\ IF p = "lease" THEN TRUE ELSE UNCHANGED leaseVars
    /\ IF p = "graph" THEN TRUE ELSE UNCHANGED graphVars
    /\ IF p \in {"coalescing", "aging"} THEN TRUE ELSE UNCHANGED schedVars
    /\ IF p = "ann" THEN TRUE ELSE UNCHANGED annVars
    /\ IF p = "records" THEN TRUE ELSE UNCHANGED recordVars

\* The hosts are alike: the fault is in the first one's turn; it asks for no
\* full pass, and the second keeps the stage enabled.
GraphPart ==
    /\ Only("graph") /\ GraphNext
    /\ mishaps' # mishaps => leased = h1
    /\ gpc'[h1] # "staged_full" /\ gpc'[h2] # "disable"

\* Two sources and two paths, or three sources and one path, where one is
\* asked for whole passes and one for small ones.
SchedulerPart ==
    \/ Only("coalescing") /\ SchedNext /\ pending'[c] = "none"
    \/ /\ Only("aging") /\ SchedNext
       /\ \A s \in Sources : y \notin owed'[s]
       /\ x \notin owed'[a] /\ All \notin owed'[c]

\* One file fails, the other is touched.
RecordsPart ==
    /\ Only("records") /\ RecordsNext
    /\ staging'["a"].status # "retry" /\ staging'["b"].stat = 0

SharedNext ==
    \/ Only("lease") /\ Next
    \/ GraphPart
    \/ SchedulerPart
    \/ Only("ann") /\ AnnNext
    \/ RecordsPart

SharedSpec == SharedInit /\ [][SharedNext]_sharedVars
=============================================================================
