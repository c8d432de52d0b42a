------------------------------ MODULE MCMachines ------------------------------
(***************************************************************************)
(* Components that run by themselves and must get somewhere, side by side: *)
(* they share no state, `part` chooses which of them runs, the others stay *)
(* where they start.                                                       *)
(***************************************************************************)
EXTENDS MCLocalGraph, MCLocalBuild, BulkWriter, Pipeline, Watching,
        Dependencies, TLC

VARIABLE part

\* BulkWriter
MCSizes == <<1, 2, 1, 3, 1, 1, 5>>

\* Pipeline: two sources; at most one wide pool.
PipeSizes == <<<<2, 1, 3, 1>>, <<1, 2>>>>
PipeHeavy == {<<1, 2>>, <<2, 1>>}
Roomy == [p \in PoolNames |-> IF p = "bytes" THEN 2 ELSE 1]
Narrow == [p \in PoolNames |-> 1]
PipeCapacities == {Roomy, Narrow}

\* Dependencies: what "a" refers to is first defined in "b", then in another
\* source, in both, or in none; projects come and go, and so do declarations.
Offered(one, other, refs) ==
    [defs |-> [n \in {"n1", "n2"} |-> IF n = "n1" THEN one ELSE other], refs |-> refs]
MCOffers ==
    "a" :> {Offered({}, {}, {"n1", "n2"}), Offered({}, {1}, {"n1", "n2"})} @@
    "b" :> {Offered({2}, {}, {}), Offered({}, {3}, {"n2"}), Offered({2, 4}, {}, {})} @@
    "c" :> {Offered({}, {}, {}), Offered({5}, {6}, {})}
MCFirstOffers ==
    "a" :> Offered({}, {}, {"n1", "n2"}) @@ "b" :> Offered({2}, {}, {}) @@
    "c" :> Offered({}, {}, {})
Edge(consumer, producer) == [consumer |-> consumer, producer |-> producer, via |-> "declared"]
MCDeclared == {{Edge("a", "c")}, {Edge("a", "b"), Edge("b", "a"), Edge("a", "x")}}
MCFirstProjects == "a" :> {"b", "package"} @@ "b" :> {} @@ "c" :> {}
MCLater == "a" :> {{"b"}, {"outside"}} @@ "b" :> {} @@ "c" :> {}

allVars ==
    <<part, localGraphVars, bulkVars, pipeVars, watchVars, localVars,
      dependencyVars>>

MachinesInit ==
    /\ part \in {"graph", "bulk", "pipeline", "watch", "local", "dependencies"}
    /\ LocalGraphInit /\ BulkInit /\ PipeInit /\ WatchInit
    /\ LocalInit /\ code = 1
    /\ DependencyInit
    /\ part # "dependencies" => ~onServer /\ Edge("a", "c") \in declared

\* Part p runs, and only it.
Only(p) ==
    /\ part = p /\ UNCHANGED part
    /\ IF p = "graph" THEN TRUE ELSE UNCHANGED localGraphVars
    /\ IF p = "bulk" THEN TRUE ELSE UNCHANGED bulkVars
    /\ IF p = "pipeline" THEN TRUE ELSE UNCHANGED pipeVars
    /\ IF p = "watch" THEN TRUE ELSE UNCHANGED watchVars
    /\ IF p = "local" THEN TRUE ELSE UNCHANGED localVars
    /\ IF p = "dependencies" THEN TRUE ELSE UNCHANGED dependencyVars

\* The first file refers to what the others may define.
GraphPart ==
    /\ Only("graph") /\ LocalGraphNext
    /\ disk'[1] \in {"useA", Absent} /\ disk'[2] # "useA" /\ disk'[3] # "useA"

\* Only "b" is published in full, and of two events in runs of the stage the
\* second is a failure.
DependencyPart ==
    /\ Only("dependencies") /\ DependencyNext
    /\ bases'["a"].build <= 1 /\ bases'["c"].build <= 1
    /\ events = 1 /\ run # Resting => UNCHANGED <<bases, declared, projects, allowed>>

MachinesNext ==
    \/ GraphPart
    \/ Only("bulk") /\ BulkNext
    \/ Only("pipeline") /\ PipeNext
    \/ Only("watch") /\ WatchNext
    \/ Only("local") /\ LocalNext
    \/ DependencyPart

MachinesSpec == MachinesInit /\ [][MachinesNext]_allVars

(* Liveness of the part that runs, under its own fairness: the local graph   *)
(* becomes current, the bulk writer ends, the runs of the executor end, what *)
(* is watched is indexed, and the visible build becomes what is on disk.     *)
PartsEnd ==
    /\ part = "graph" /\ LocalGraphFairness => GraphSettles
    /\ part = "bulk" /\ WF_bulkVars(BulkNext) => BulkEnds
    /\ part = "pipeline" /\ PipeFairness => RunsEnd
    /\ part = "watch" /\ WatchFairness => WatchSettles
    /\ part = "local" /\ LocalFairness => Converges
===============================================================================
