----------------------------- MODULE MCPublishing -----------------------------
(* The passes of the daemon and the publications of the server, side by    *)
(* side: they share no state, `part` chooses which of them runs, the others*)
(* stay where they start.                                                  *)
EXTENDS MCDaemon, MCServerPublish, TLC

VARIABLE part

publishingVars ==
    <<part, worldVars, vars>>

PublishingInit ==
    /\ part \in
         {"daemon", "server"}
    /\ ScenarioInit
    /\ PubInit
    /\ faulty => part = "daemon"

\* Part p runs, and only it.
Only(p) ==
    /\ part = p /\ UNCHANGED part
    /\ IF p = "daemon" THEN TRUE ELSE UNCHANGED worldVars
    /\ IF p = "server" THEN TRUE ELSE UNCHANGED vars

PublishingNext ==
    \/ Only("daemon") /\ ScenarioNext
    \/ Only("server") /\ PubNext

PublishingSpec == PublishingInit /\ [][PublishingNext]_publishingVars

SideSymmetry == WorkerSymmetry \cup Symmetry
===============================================================================
