----------------------------- MODULE ServerGraph -----------------------------
(***************************************************************************)
(* Relationship graph generations of one source on the search server        *)
(* (docmonk-backends/src/graph.rs), driven by the graph stage of server     *)
(* mode (build_relationships and graph_pass, docmonk-service/src/           *)
(* server_index.rs), beside the publication of base builds.                 *)
(*                                                                         *)
(* A generation's records live in the relationships index, which the base   *)
(* builds share; its description is the `graph` field of the source-state   *)
(* document.  Every patch of the document is fenced by the writer lease     *)
(* and, where the code asks for it, by the active base build.  The lease    *)
(* itself is in WriterLease: here it is held, or it has been lost.          *)
(***************************************************************************)
EXTENDS Naturals, FiniteSets

CONSTANTS
    Hosts,          \* hosts with a staging cache of their own
    NoHost,
    GraphFiles,
    Keys,           \* semantic keys: what a file's graph is derived from
    Gone,           \* the key of a file that does not exist
    RecordsOf,      \* per key: the digest of the graph records it yields
    Trees,          \* what a scan of the source may find
    StagingFails,   \* TRUE: a pass may change the staging store and fail
    MaxBase,        \* bound: base builds
    MaxGraph,       \* bound: graph generations
    MaxFaults       \* bound: lost leases, crashes, failed calls

ASSUME GraphAssumption ==
    /\ NoHost \notin Hosts /\ Gone \notin Keys
    /\ Trees \subseteq [GraphFiles -> Keys \cup {Gone}]
    /\ Keys \subseteq DOMAIN RecordsOf
    /\ StagingFails \in BOOLEAN
    /\ MaxBase \in Nat /\ MaxGraph \in Nat /\ MaxFaults \in Nat

VARIABLES
    leased,         \* the host whose pass holds the lease
    active,         \* active_build_id
    tree,           \* per base build: the keys of its files
    graph,          \* the graph record of the source-state document
    wrote,          \* per generation and file: digest of what it wrote
    ids,            \* per writing generation and file: the record's build_ids
    marker,         \* per host: the base build its staging store describes
    stage,          \* per host: the files of its staging store
    local,          \* per host: the graph in its staging store
    gpc,            \* where each host's pass is
    seen,           \* the graph record its pass read
    target,         \* the base build it works for
    generation,     \* the generation it writes
    lastGen,        \* generation ids used so far
    mishaps         \* faults so far

graphVars == <<leased, active, tree, graph, wrote, ids, marker, stage, local,
               gpc, seen, target, generation, lastGen, mishaps>>
serverVars == <<active, tree, graph, wrote, ids, lastGen>>
hostVars   == <<marker, stage, local, seen, target, generation>>

Gens     == 1 .. MaxGraph
Bases    == 0 .. MaxBase
AllTrees == [GraphFiles -> Keys \cup {Gone}]
NoTree   == [f \in GraphFiles |-> Gone]
Digests  == {RecordsOf[k] : k \in Keys}
NoGraph  == [usable |-> FALSE, keys |-> NoTree, recs |-> NoTree]
Pending  == [state |-> "pending", gen |-> 0, base |-> 0, digest |-> 0,
             keys |-> NoTree, recs |-> NoTree, pending |-> 0, retired |-> {}]

GraphPhases == {"idle", "staged", "staged_full", "collect", "graph", "plan",
    "adopt", "rebind", "publish", "repoint", "clean", "begin", "copy", "write",
    "promote", "drop", "undo", "unpend", "stale", "failed", "disable", "done"}

\* The graph record, its description of the generation and the host's state
\* have their types; the ids of the generations in the record are distinct.
GraphTypeOK ==
    /\ leased \in Hosts \cup {NoHost}
    /\ active \in Bases
    /\ tree \in [1 .. MaxBase -> AllTrees]
    /\ graph \in [state : {"pending", "building", "ready", "stale", "failed", "disabled"},
                  gen : 0 .. MaxGraph, base : Bases, digest : Bases,
                  keys : AllTrees, recs : [GraphFiles -> Digests \cup {Gone}],
                  pending : 0 .. MaxGraph, retired : SUBSET Gens]
    /\ graph.gen \notin graph.retired
    /\ graph.pending = 0 \/ graph.pending \notin graph.retired \cup {graph.gen}
    /\ ids \in [Gens -> [GraphFiles -> SUBSET Gens]]
    /\ marker \in [Hosts -> Bases]
    /\ stage \in [Hosts -> AllTrees]
    /\ gpc \in [Hosts -> GraphPhases]

GraphInit ==
    /\ leased = NoHost /\ active = 0 /\ lastGen = 0 /\ mishaps = 0
    /\ tree = [b \in 1 .. MaxBase |-> NoTree]
    /\ graph = Pending
    /\ wrote = [g \in Gens |-> NoTree]
    /\ ids = [g \in Gens |-> [f \in GraphFiles |-> {}]]
    /\ marker = [h \in Hosts |-> 0]
    /\ stage = [h \in Hosts |-> NoTree]
    /\ local = [h \in Hosts |-> NoGraph]
    /\ gpc = [h \in Hosts |-> "idle"]
    /\ seen = [h \in Hosts |-> Pending]
    /\ target = [h \in Hosts |-> 0]
    /\ generation = [h \in Hosts |-> 0]

-----------------------------------------------------------------------------
(* What readers are served.                                                 *)

Present(t) == {f \in GraphFiles : t[f] # Gone}

\* The records a reader of generation g finds for file f.
Found(g, f) == {wrote[c][f] : c \in {c \in Gens : g \in ids[c][f]}}

\* visible_generation: only a ready graph of the active base.
Visible(g, base) == g.state = "ready" /\ base # 0 /\ g.base = base /\ g.gen # 0

\* served_generation: unless the reader insists on a current graph, the last
\* promoted generation stays readable, flagged stale.
Served(g, base, current) ==
    IF Visible(g, base) THEN g.gen
    ELSE IF current \/ base = 0 \/ g.state \in {"disabled", "pending"} THEN 0
    ELSE g.gen

-----------------------------------------------------------------------------
(* Record operations, which no lease fences, and the shape of a step.       *)

At(h, from) == gpc[h] = from
To(h, l) == gpc' = [gpc EXCEPT ![h] = l]
Fault == mishaps < MaxFaults /\ mishaps' = mishaps + 1
HoldsLease(h) == leased = h

\* delete_build_docs: every record loses generation g.
Detach(G) == [c \in Gens |-> [f \in GraphFiles |-> ids[c][f] \ G]]

\* copy_forward_in on the relationships index.
Attach(from, to, files, keep) ==
    [c \in Gens |-> [f \in GraphFiles |->
        IF f \in files /\ from \in ids[c][f]
        THEN (ids[c][f] \cap keep) \cup {to} ELSE ids[c][f]]]

\* gc_source keeps the records of the base builds it is given; a graph
\* record belongs to none of them.
CollectBut(keep) ==
    [c \in Gens |-> [f \in GraphFiles |->
        IF ids[c][f] \cap keep = {} THEN {} ELSE ids[c][f]]]

\* set_graph_state.
SetState(h, state) ==
    graph' = IF HoldsLease(h) THEN [graph EXCEPT !.state = state] ELSE graph

-----------------------------------------------------------------------------
(* The base pass (run_source, staged_pass), as far as it touches the graph. *)

\* The staging copy is thrown away unless it describes the server's active
\* build; then the source is scanned into it.
Stage(h, t, full) ==
    /\ At(h, "idle") /\ leased = NoHost
    /\ leased' = h
    /\ stage' = [stage EXCEPT ![h] = t]
    /\ IF full \/ marker[h] # active
       THEN /\ local' = [local EXCEPT ![h] = NoGraph]
            /\ marker' = [marker EXCEPT ![h] = 0]
       ELSE UNCHANGED <<local, marker>>
    /\ To(h, IF full THEN "staged_full" ELSE "staged")
    /\ UNCHANGED <<serverVars, seen, target, generation, mishaps>>

\* The content_digest of the active build is the staged one.
NothingNew(h) == At(h, "staged") /\ active # 0 /\ tree[active] = stage[h]

\* Publication of the staged build: the swap keeps the graph record as it is.
PublishBase(h) ==
    /\ gpc[h] \in {"staged", "staged_full"}
    /\ \/ /\ NothingNew(h)
          /\ marker' = [marker EXCEPT ![h] = active]
          /\ To(h, "done")
          /\ UNCHANGED <<active, tree, target>>
       \/ /\ ~NothingNew(h)
          /\ HoldsLease(h) /\ active < MaxBase
          /\ active' = active + 1
          /\ tree' = [tree EXCEPT ![active + 1] = stage[h]]
          /\ target' = [target EXCEPT ![h] = active + 1]
          /\ To(h, "collect")
          /\ UNCHANGED marker
    /\ UNCHANGED <<leased, graph, wrote, ids, lastGen, stage, local, seen,
                   generation, mishaps>>

\* gc_source over every build-scoped index, keeping base builds; then the
\* marker is written, if the source could still be marked online.
CollectBase(h) ==
    /\ At(h, "collect")
    /\ ids' = CollectBut({})
    /\ marker' = IF HoldsLease(h) THEN [marker EXCEPT ![h] = target[h]] ELSE marker
    /\ To(h, "done")
    /\ UNCHANGED <<leased, active, tree, graph, wrote, lastGen, stage, local,
                   seen, target, generation, mishaps>>

\* The publication fails after the staging store was changed.
BaseFails(h) ==
    /\ gpc[h] \in {"staged", "staged_full"}
    /\ StagingFails /\ Fault
    /\ To(h, "done")
    /\ UNCHANGED <<leased, serverVars, hostVars>>

-----------------------------------------------------------------------------
(* The graph stage.                                                         *)

StartGraph(h) ==
    /\ At(h, "idle") /\ leased = NoHost
    /\ leased' = h
    /\ \/ To(h, "graph") \/ To(h, "disable")
    /\ UNCHANGED <<serverVars, hostVars, mishaps>>

\* mark_relationships_disabled.
Disable(h) ==
    /\ At(h, "disable")
    /\ SetState(h, "disabled")
    /\ To(h, "done")
    /\ UNCHANGED <<leased, active, tree, wrote, ids, lastGen, hostVars, mishaps>>

\* Mutant: a staging store of another build will do.
AnyMarker(h) == TRUE

\* The staging store describes the server's active build.
Synced(h) == marker[h] = active

\* The active build is read, and the staging store must describe it.
ReadActive(h) ==
    /\ At(h, "graph")
    /\ IF active = 0 THEN To(h, "failed") /\ UNCHANGED target
       ELSE IF ~Synced(h) THEN To(h, "stale") /\ UNCHANGED target
       ELSE target' = [target EXCEPT ![h] = active] /\ To(h, "plan")
    /\ UNCHANGED <<leased, serverVars, marker, stage, local, seen, generation, mishaps>>

\* What the staging store derives on top of the graph it has: the records of
\* a file with the same key are kept.
Derived(l, t) ==
    [usable |-> TRUE, keys |-> t,
     recs |-> [f \in GraphFiles |->
         IF t[f] = Gone THEN Gone
         ELSE IF l.usable /\ l.keys[f] = t[f] THEN l.recs[f]
         ELSE RecordsOf[t[f]]]]

\* A staging store without a graph adopts the server's generation, if its
\* manifest can be used; otherwise it derives.
PlanGraph(h) ==
    /\ At(h, "plan")
    /\ seen' = [seen EXCEPT ![h] = graph]
    /\ IF ~local[h].usable /\ graph.state \in {"ready", "stale"} /\ graph.gen # 0
       THEN To(h, "adopt") /\ UNCHANGED local
       ELSE /\ local' = [local EXCEPT ![h] = Derived(local[h], stage[h])]
            /\ To(h, "rebind")
    /\ UNCHANGED <<leased, serverVars, marker, stage, target, generation, mishaps>>

\* graph_records reads the generation as it is now; adopt_graph takes the
\* manifest that was read before.
Adopt(h) ==
    /\ At(h, "adopt")
    /\ \E recs \in [GraphFiles -> Digests \cup {Gone}] :
         /\ \A f \in GraphFiles :
                IF Found(seen[h].gen, f) = {} THEN recs[f] = Gone
                ELSE recs[f] \in Found(seen[h].gen, f)
         /\ local' = [local EXCEPT ![h] =
                Derived([usable |-> TRUE, keys |-> seen[h].keys, recs |-> recs],
                        stage[h])]
    /\ To(h, "rebind")
    /\ UNCHANGED <<leased, serverVars, marker, stage, seen, target, generation, mishaps>>

\* A file changed since it was indexed, or the build is cancelled.
DeriveFails(h) ==
    /\ gpc[h] \in {"plan", "adopt"}
    /\ Fault
    /\ \/ To(h, "stale") \/ To(h, "failed")
    /\ UNCHANGED <<leased, serverVars, hostVars>>

\* Mutant: a patch is written by whoever read the document once.
NeverSuperseded(h) == FALSE

\* The patch is refused: the lease is lost, or the base is not active.
Superseded(h) == ~HoldsLease(h) \/ active # target[h]

\* What rebind_graph and repoint_graph both ask of the record they patch.
Unmoved(h) ==
    /\ graph.gen = seen[h].gen /\ graph.pending = 0
    /\ graph.state \in {"ready", "stale"}

\* Identical inputs for a new base: the generation is rebound to it.
Rebind(h) ==
    /\ At(h, "rebind")
    /\ IF seen[h].gen # 0 /\ seen[h].keys = local[h].keys /\ seen[h].base # target[h]
       THEN IF Superseded(h) THEN To(h, "stale") /\ UNCHANGED graph
            ELSE IF Unmoved(h) /\ graph.keys = local[h].keys
            THEN /\ graph' = [graph EXCEPT !.state = "ready", !.base = target[h]]
                 /\ To(h, "done")
            ELSE To(h, "publish") /\ UNCHANGED graph
       ELSE To(h, "publish") /\ UNCHANGED graph
    /\ UNCHANGED <<leased, active, tree, wrote, ids, lastGen, hostVars, mishaps>>

\* records_identical.
SameRecords(h) ==
    /\ graph.gen # 0 /\ graph.pending = 0 /\ graph.state \in {"ready", "stale"}
    /\ graph.recs = local[h].recs

\* Where publication of a new generation starts.
WriteFrom == IF graph.pending # 0 THEN "clean" ELSE "begin"

\* publish_graph_inner reads the document and decides.
PublishGraph(h) ==
    /\ At(h, "publish")
    /\ seen' = [seen EXCEPT ![h] = graph]
    /\ IF Superseded(h)
       THEN To(h, "stale") /\ UNCHANGED <<generation, lastGen>>
       ELSE IF Visible(graph, target[h]) /\ graph.digest = target[h]
                 /\ graph.recs = local[h].recs
       THEN To(h, "done") /\ UNCHANGED <<generation, lastGen>>
       ELSE /\ lastGen < MaxGraph
            /\ lastGen' = lastGen + 1
            /\ generation' = [generation EXCEPT ![h] = lastGen + 1]
            /\ To(h, IF SameRecords(h) THEN "repoint" ELSE WriteFrom)
    /\ UNCHANGED <<leased, active, tree, graph, wrote, ids, marker, stage, local,
                   target, mishaps>>

\* The generation already has these records: it is pointed at the new base.
Repoint(h) ==
    /\ At(h, "repoint")
    /\ IF Superseded(h) THEN To(h, "stale") /\ UNCHANGED graph
       ELSE IF Unmoved(h)
       THEN /\ graph' = [graph EXCEPT !.state = "ready", !.base = target[h],
                                      !.digest = target[h], !.keys = local[h].keys]
            /\ To(h, "done")
       ELSE To(h, WriteFrom) /\ UNCHANGED graph
    /\ UNCHANGED <<leased, active, tree, wrote, ids, lastGen, hostVars, mishaps>>

\* The records of an abandoned pending generation are deleted.
CleanPending(h) ==
    /\ At(h, "clean")
    /\ ids' = Detach({seen[h].pending})
    /\ To(h, "begin")
    /\ UNCHANGED <<leased, active, tree, graph, wrote, lastGen, hostVars, mishaps>>

BeginGraph(h) ==
    /\ At(h, "begin")
    /\ IF HoldsLease(h)
       THEN /\ graph' = [graph EXCEPT !.state = "building", !.pending = generation[h]]
            /\ To(h, "copy")
       ELSE To(h, "stale") /\ UNCHANGED graph
    /\ UNCHANGED <<leased, active, tree, wrote, ids, lastGen, hostVars, mishaps>>

\* Mutant: every file of the previous generation is copied.
CopiesPresent(h, f) ==
    seen[h].gen # 0 /\ local[h].recs[f] # Gone /\ seen[h].recs[f] # Gone

\* copies_forward.
CopiesForward(h, f) ==
    seen[h].gen # 0 /\ local[h].recs[f] # Gone /\ seen[h].recs[f] = local[h].recs[f]

CopyGraph(h) ==
    /\ At(h, "copy")
    /\ ids' = Attach(seen[h].gen, generation[h],
                     {f \in GraphFiles : CopiesForward(h, f)},
                     {seen[h].gen} \cup seen[h].retired)
    /\ To(h, "write")
    /\ UNCHANGED <<leased, active, tree, graph, wrote, lastGen, hostVars, mishaps>>

WriteGraph(h) ==
    LET g == generation[h]
        files == {f \in Present(local[h].recs) : ~CopiesForward(h, f)}
    IN
    /\ At(h, "write")
    /\ wrote' = [wrote EXCEPT ![g] = [f \in GraphFiles |->
                    IF f \in files THEN local[h].recs[f] ELSE Gone]]
    /\ ids' = [ids EXCEPT ![g] = [f \in GraphFiles |->
                    IF f \in files THEN {g} ELSE @[f]]]
    /\ To(h, "promote")
    /\ UNCHANGED <<leased, active, tree, graph, lastGen, hostVars, mishaps>>

\* Mutant: the promoted generation stays pending.
PromotedPending(h, keep) ==
    [graph EXCEPT !.state = "ready", !.gen = generation[h], !.base = target[h],
        !.digest = target[h], !.keys = local[h].keys, !.recs = local[h].recs,
        !.retired = keep]

\* The record of the promoted generation.
Promoted(h, keep) ==
    [state |-> "ready", gen |-> generation[h], base |-> target[h],
     digest |-> target[h], keys |-> local[h].keys, recs |-> local[h].recs,
     pending |-> 0, retired |-> keep]

\* The swap that makes the generation visible, fenced by the lease, the base
\* and the pending generation.  The one it replaces is retired; any retired
\* one may have left its grace period.  The response may be lost.
Promote(h) ==
    /\ At(h, "promote")
    /\ IF Superseded(h) \/ graph.pending # generation[h]
       THEN To(h, "undo") /\ UNCHANGED <<graph, mishaps>>
       ELSE /\ \E keep \in SUBSET (graph.retired \cup ({graph.gen} \ {0})) :
                 graph' = Promoted(h, keep)
            /\ \/ To(h, "drop") /\ UNCHANGED mishaps
               \/ To(h, "undo") /\ Fault
    /\ UNCHANGED <<leased, active, tree, wrote, ids, lastGen, hostVars>>

\* Retired generations past their grace period are deleted.
DropRetired(h) ==
    LET known == seen[h].retired \cup ({seen[h].gen} \ {0}) IN
    /\ At(h, "drop")
    /\ ids' = Detach(known \ graph.retired)
    /\ To(h, "done")
    /\ UNCHANGED <<leased, active, tree, graph, wrote, lastGen, hostVars, mishaps>>

\* A call of the publication fails.
PublishFails(h) ==
    /\ gpc[h] \in {"copy", "write", "promote"}
    /\ Fault
    /\ To(h, "undo")
    /\ UNCHANGED <<leased, serverVars, hostVars>>

\* The error path deletes the generation's records whatever became of it,
Undo(h) ==
    /\ At(h, "undo")
    /\ ids' = Detach({generation[h]})
    /\ To(h, "unpend")
    /\ UNCHANGED <<leased, active, tree, graph, wrote, lastGen, hostVars, mishaps>>

\* then records the failure; a conflict is reported as a stale graph.
Unpend(h) ==
    /\ At(h, "unpend")
    /\ graph' = IF HoldsLease(h)
                THEN [graph EXCEPT !.state = "failed",
                        !.pending = IF @ = generation[h] THEN 0 ELSE @]
                ELSE graph
    /\ \/ To(h, "stale") \/ To(h, "failed")
    /\ UNCHANGED <<leased, active, tree, wrote, ids, lastGen, hostVars, mishaps>>

\* build_relationships records how the stage ended.
RecordEnd(h) ==
    /\ gpc[h] \in {"stale", "failed"}
    /\ SetState(h, gpc[h])
    /\ To(h, "done")
    /\ UNCHANGED <<leased, active, tree, wrote, ids, lastGen, hostVars, mishaps>>

Finish(h) ==
    /\ At(h, "done")
    /\ leased' = IF HoldsLease(h) THEN NoHost ELSE leased
    /\ To(h, "idle")
    /\ seen' = [seen EXCEPT ![h] = Pending]
    /\ target' = [target EXCEPT ![h] = 0]
    /\ generation' = [generation EXCEPT ![h] = 0]
    /\ UNCHANGED <<serverVars, marker, stage, local, mishaps>>

-----------------------------------------------------------------------------
(* The lease runs out under a pass, or the host dies; another may take it.  *)

LoseLease ==
    /\ leased # NoHost /\ Fault
    /\ leased' = NoHost
    /\ UNCHANGED <<serverVars, hostVars, gpc>>

HostDies(h) ==
    /\ gpc[h] # "idle" /\ Fault
    /\ StagingFails \/ gpc[h] \notin {"staged", "staged_full"}
    /\ leased' = IF leased = h THEN NoHost ELSE leased
    /\ To(h, "idle")
    /\ seen' = [seen EXCEPT ![h] = Pending]
    /\ target' = [target EXCEPT ![h] = 0]
    /\ generation' = [generation EXCEPT ![h] = 0]
    /\ UNCHANGED <<serverVars, marker, stage, local>>

BaseStep(h) ==
    \/ \E t \in Trees, full \in BOOLEAN : Stage(h, t, full)
    \/ PublishBase(h) \/ CollectBase(h) \/ BaseFails(h)

GraphStep(h) ==
    \/ StartGraph(h) \/ Disable(h) \/ ReadActive(h) \/ PlanGraph(h) \/ Adopt(h)
    \/ DeriveFails(h) \/ Rebind(h) \/ PublishGraph(h) \/ Repoint(h)
    \/ CleanPending(h) \/ BeginGraph(h) \/ CopyGraph(h) \/ WriteGraph(h)
    \/ Promote(h) \/ DropRetired(h) \/ PublishFails(h) \/ Undo(h) \/ Unpend(h)
    \/ RecordEnd(h) \/ Finish(h)

GraphNext ==
    \/ \E h \in Hosts : BaseStep(h) \/ GraphStep(h) \/ HostDies(h)
    \/ LoseLease

GraphSpec == GraphInit /\ [][GraphNext]_graphVars

-----------------------------------------------------------------------------
(* A graph served as current was derived from the inputs of the active base *)
(* build, on whichever host and through rebinding, repointing or adoption   *)
(* (graph.rs, "a graph derived from a superseded base is never promoted").  *)
CurrentIsOfBase == Visible(graph, active) => graph.keys = tree[active]

(* Whatever is found under the current generation is the graph of the       *)
(* active build's files: a copied, adopted or abandoned record never puts a *)
(* wrong or a second set of records beside it (write_graph).                *)
NothingWrongServed ==
    Visible(graph, active) => \A f \in GraphFiles :
        /\ Found(graph.gen, f) \subseteq {RecordsOf[k] : k \in Keys \cap {tree[active][f]}}
        /\ Cardinality({c \in Gens : graph.gen \in ids[c][f]}) <= 1

(* ServedGraphRight: both hold of whatever is served as current.            *)
ServedGraphRight == CurrentIsOfBase /\ NothingWrongServed

(* The generation readers have never goes back to an older base.            *)
GraphForward == [][graph'.base >= graph.base]_graphVars

(* The last promoted generation is whole as long as it is served: "the last *)
(* promoted generation stays readable while the next is built" (graph.rs).  *)
LastGraphWhole ==
    Served(graph, active, FALSE) # 0 => \A f \in GraphFiles :
        graph.recs[f] = Gone \/ Found(graph.gen, f) = {graph.recs[f]}
=============================================================================
