----------------------------- MODULE LocalGraph -----------------------------
(***************************************************************************)
(* The relationship graph of one source in its project store: the graph     *)
(* stage (docmonk-code/src/graph_stage.rs) over the lifecycle record, the   *)
(* relationship rows and the dependency manifest of                         *)
(* docmonk-storage/src/graph.rs, and reference resolution (resolve.rs,      *)
(* process.rs).                                                             *)
(*                                                                         *)
(* Base passes publish in place or as a new build, which carries the rows   *)
(* of the old one along.  The run lock keeps them out of a running graph    *)
(* stage; the model lets them in, so what holds does by the base generation *)
(* alone.  Links to documents and the fact cache, whose entries equal what  *)
(* they replace, are left out.                                              *)
(***************************************************************************)
EXTENDS Integers, FiniteSets

CONSTANTS
    SrcFiles,       \* files, numbered in the order of their ids
    Symbols,        \* qualified names, numbered in their order
    BareName,       \* per qualified name: its last part
    Texts,       \* what a file may contain
    Absent,         \* no file
    DefsOf,         \* per content: the qualified names it defines
    RefsOf,         \* per content: the references it makes
    Manifests,      \* files of the server generations that may be adopted
    FirstFiles,     \* what is on disk first
    Returns,        \* TRUE: a stray file may return to what its key names
    MaxEdits, MaxStamp, MaxTrouble, MaxDerivation   \* bounds

ASSUME LocalGraphAssumption ==
    /\ SrcFiles \subseteq Nat \ {0} /\ IsFiniteSet(SrcFiles)
    /\ Symbols \subseteq Nat \ {0} /\ IsFiniteSet(Symbols)
    /\ Absent \notin Texts
    /\ DefsOf \in [Texts \cup {Absent} -> SUBSET Symbols]
    /\ RefsOf \in [Texts \cup {Absent} -> SUBSET Symbols]
    /\ DefsOf[Absent] = {} /\ RefsOf[Absent] = {}
    /\ Manifests \subseteq [SrcFiles -> Texts \cup {Absent}]
    /\ FirstFiles \in [SrcFiles -> Texts \cup {Absent}]
    /\ MaxEdits \in Nat /\ MaxStamp \in Nat /\ MaxTrouble \in Nat
    /\ MaxDerivation \in Nat \ {0}

VARIABLES
    disk,           \* the files of the source
    indexed,        \* the file rows of the active build
    build,          \* the active build, 0 before the first
    stamp,          \* its base generation: build id and finished_at
    rows,           \* the relationship rows of the active build
    gst,            \* the graph state with its manifest
    derivation,     \* graph_derivation() of the running program
    stagePass,      \* the running graph stage
    promoted,       \* history: the rows as last promoted
    strays,         \* history: files whose rows or symbols are not those of
                    \* the key recorded for them, until they are derived again
    edits, troubles \* counters of the bounds

localGraphVars == <<disk, indexed, build, stamp, rows, gst, derivation, stagePass,
                    promoted, strays, edits, troubles>>

Tree     == [SrcFiles -> Texts \cup {Absent}]
NoFiles  == [f \in SrcFiles |-> Absent]
NoRows   == [f \in SrcFiles |-> {}]
NoSyms   == [f \in SrcFiles |-> [defs |-> {}, refs |-> {}]]
Held(t)  == {f \in SrcFiles : t[f] # Absent}
Least(S) == CHOOSE x \in S : \A y \in S : x <= y

-----------------------------------------------------------------------------
(* Derivation of one file, and resolution of references.                    *)

Unbound == <<0, 0>>

\* resolve_same_file; what other files must answer is left pending.
SameFile(f, t, c) ==
    LET named == {q \in DefsOf[c] : BareName[q] = BareName[t]} IN
    IF t \in DefsOf[c] THEN [to |-> <<f, t>>, how |-> "same_file"]
    ELSE IF named # {} THEN [to |-> <<f, Least(named)>>, how |-> "same_file"]
    ELSE [to |-> Unbound, how |-> "pending"]

\* file_relationships: the rows of one file, by derivation v.
Derive(f, c, v) ==
    {[ref |-> t, at |-> SameFile(f, t, c), by |-> v] : t \in RefsOf[c]}

\* resolve_cross_file over the candidates outside the file, each kind in its
\* order: qualified names by file, bare names by qualified name and file.
CrossFile(f, t, files) ==
    LET others == SrcFiles \ {f}
        exact  == {g \in others : t \in DefsOf[files[g]]}
        names  == {q \in Symbols : /\ BareName[q] = BareName[t]
                                   /\ \E g \in others : q \in DefsOf[files[g]]}
        q      == Least(names)
    IN
    IF exact # {} THEN [to |-> <<Least(exact), t>>,
                        how |-> IF Cardinality(exact) = 1 THEN "qualified" ELSE "ambiguous"]
    ELSE IF names # {}
    THEN [to |-> <<Least({g \in others : q \in DefsOf[files[g]]}), q>>,
          how |-> "name_only"]
    ELSE [to |-> Unbound, how |-> "unresolved"]

\* The resolvers whose rows other files decide (CROSS_FILE_RESOLVERS).
Crosses(r) == r.at.how # "same_file"

Resolve(f, rs, files) ==
    {IF Crosses(r) THEN [r EXCEPT !.at = CrossFile(f, r.ref, files)] ELSE r : r \in rs}

\* The graph of a tree, derived from scratch.
GraphOf(files, v) ==
    [f \in SrcFiles |-> Resolve(f, Derive(f, files[f], v), files)]

\* file_symbols of file f, given its rows.
SymbolsIn(f, rs, files) ==
    [defs |-> DefsOf[files[f]], refs |-> {r.ref : r \in {r \in rs : Crosses(r)}}]

\* changed_keys of the files in fs: the definitions whose candidates differ.
ChangedDefs(fs, old, new) ==
    UNION {(old[f].defs \ new[f].defs) \cup (new[f].defs \ old[f].defs) : f \in fs}

\* graph_dependents: a reference is looked up by its qualified and its bare
\* name, and a definition is found under both of its own.
Dependents(syms, changed) ==
    {f \in SrcFiles : \E t \in syms[f].refs, q \in changed : BareName[q] = BareName[t]}

-----------------------------------------------------------------------------
(* State.                                                                   *)

Pending0 == [state |-> "pending", gen |-> 0, build |-> 0, base |-> 0,
             derivation |-> 0, keys |-> NoFiles, syms |-> NoSyms, all |-> FALSE]
Idle == [step |-> "idle", action |-> "skip", full |-> FALSE, build |-> 0,
         stamp |-> 0, changed |-> {}, removed |-> {}, files |-> NoFiles,
         staged |-> NoRows, todo |-> {}, prev |-> Pending0]

\* States and manifests have their types, and no graph claims a base
\* generation that was not published yet.
LocalGraphTypeOK ==
    /\ disk \in Tree /\ indexed \in Tree
    /\ build \in 0 .. MaxStamp /\ stamp \in 0 .. MaxStamp
    /\ gst.state \in {"pending", "building", "ready", "stale", "failed", "disabled"}
    /\ gst.keys \in Tree
    /\ gst.base <= stamp /\ gst.build <= build
    /\ gst.derivation <= derivation
    /\ stagePass.step \in {"idle", "planned", "derive"}
    /\ stagePass.todo \subseteq stagePass.changed
    /\ strays \subseteq SrcFiles

LocalGraphInit ==
    /\ disk = FirstFiles /\ indexed = NoFiles
    /\ build = 0 /\ stamp = 0 /\ rows = NoRows
    /\ gst = Pending0 /\ derivation = 1 /\ stagePass = Idle
    /\ promoted = NoRows /\ strays = {} /\ edits = 0 /\ troubles = 0

Trouble == troubles < MaxTrouble /\ troubles' = troubles + 1

-----------------------------------------------------------------------------
(* The world around the graph stage.                                        *)

EditFile(f, c) ==
    /\ edits < MaxEdits /\ disk[f] # c
    /\ Returns \/ f \notin strays \/ c # gst.keys[f]
    /\ edits' = edits + 1
    /\ disk' = [disk EXCEPT ![f] = c]
    /\ UNCHANGED <<indexed, build, stamp, rows, gst, derivation, stagePass,
                   promoted, strays, troubles>>

\* touch_build: the files' rows changed in place, and the graph's rows stay
\* for its readers (delete_file_rows).
PublishInPlace ==
    /\ build # 0 /\ stamp < MaxStamp
    /\ indexed' = disk /\ stamp' = stamp + 1
    /\ UNCHANGED <<disk, build, rows, gst, derivation, stagePass, promoted,
                   strays, edits, troubles>>

\* Files of the manifest that a new build does not have.
Vanishing(keys, files) == Held(keys) \ Held(files)

\* A new build is published; carry_graph_forward, unless it fails.
PublishNewBuild(carried) ==
    /\ stamp < MaxStamp
    /\ indexed' = disk /\ stamp' = stamp + 1 /\ build' = stamp + 1
    /\ IF carried THEN UNCHANGED troubles ELSE build # 0 /\ Trouble
    /\ IF carried /\ build # 0 /\ gst.build = build
       THEN /\ rows' = [f \in SrcFiles |-> IF disk[f] = Absent THEN {} ELSE rows[f]]
            /\ gst' = [gst EXCEPT !.build = build']
            /\ strays' = strays \cup Vanishing(gst.keys, disk)
       ELSE /\ rows' = NoRows /\ strays' = {}
            /\ UNCHANGED gst
    /\ UNCHANGED <<disk, derivation, stagePass, promoted, edits>>

Upgraded ==
    /\ derivation < MaxDerivation /\ stagePass = Idle /\ Trouble
    /\ derivation' = derivation + 1
    /\ UNCHANGED <<disk, indexed, build, stamp, rows, gst, stagePass, promoted,
                   strays, edits>>

\* mark_disabled.
MarkDisabled ==
    /\ build # 0 /\ stagePass = Idle /\ gst.state # "disabled" /\ Trouble
    /\ gst' = [gst EXCEPT !.state = "disabled"]
    /\ UNCHANGED <<disk, indexed, build, stamp, rows, derivation, stagePass,
                   promoted, strays, edits>>

-----------------------------------------------------------------------------
(* Planning (plan_from).                                                    *)

\* Mutant: the manifest of another build will do.
CompleteAnyBuild(g) == g.build # 0 /\ g.derivation = derivation

\* The committed rows and their manifest describe this build.
Complete(g) == g.build = build /\ build # 0 /\ g.derivation = derivation

\* Mutant: what went stale is left to the next change.
ActionUnlessStale(g) ==
    IF g.state = "stale" /\ Complete(g) THEN "skip"
    ELSE IF Complete(g) /\ g.keys = indexed THEN "rebind" ELSE "derive"

ActionFor(g) ==
    IF g.state = "ready" /\ g.base = stamp /\ g.derivation = derivation
         /\ g.keys = indexed
    THEN "skip"
    ELSE IF Complete(g) /\ g.keys = indexed THEN "rebind"
    ELSE "derive"   \* full, incremental or retry

Unmatched(m) == {f \in SrcFiles : m[f] # indexed[f]}

\* The store has no graph of its own that could be reused.
Adoptable(m) ==
    /\ ~Complete(gst) /\ gst.build # build
    /\ Returns \/ \A f \in Unmatched(m) : disk[f] # m[f]

\* adopt_graph: a staging store takes the rows a server generation has for
\* the files m, as far as it has those files itself.
AdoptGraph(m) ==
    LET own == [f \in SrcFiles |->
                   IF indexed[f] = Absent THEN {} ELSE GraphOf(m, derivation)[f]]
    IN
    /\ stagePass = Idle /\ build # 0 /\ Adoptable(m)
    /\ rows' = own
    /\ gst' = [gst EXCEPT !.build = build, !.base = 0, !.derivation = derivation,
                 !.keys = m, !.all = TRUE,
                 !.syms = [f \in SrcFiles |-> SymbolsIn(f, own[f], indexed)]]
    /\ strays' = Unmatched(m)
    /\ UNCHANGED <<disk, indexed, build, stamp, derivation, stagePass, promoted,
                   edits, troubles>>

\* plan_graph.
PlanStage ==
    /\ stagePass = Idle /\ build # 0 /\ ActionFor(gst) # "skip"
    /\ stagePass' = [Idle EXCEPT
         !.step = "planned", !.action = ActionFor(gst), !.build = build,
         !.stamp = stamp, !.full = ~Complete(gst),
         !.changed = IF Complete(gst)
                     THEN {f \in Held(indexed) : gst.keys[f] # indexed[f]} ELSE Held(indexed),
         !.removed = IF Complete(gst) THEN Vanishing(gst.keys, indexed) ELSE {}]
    /\ UNCHANGED <<disk, indexed, build, stamp, rows, gst, derivation, promoted,
                   strays, edits, troubles>>

-----------------------------------------------------------------------------
(* Execution (build_planned, build).                                        *)

\* Mutant: only another build is noticed.
RepublishedInFull == stagePass.build # build

\* The base generation is no longer the planned one.
Republished == stagePass.build # build \/ stagePass.stamp # stamp

\* Mutant: the session is committed instead of rolled back.
EndKeeping(state) ==
    /\ gst' = [gst EXCEPT !.state = state]
    /\ stagePass' = Idle
    /\ rows' = [f \in SrcFiles |->
          IF f \in stagePass.changed \ stagePass.todo THEN stagePass.staged[f] ELSE rows[f]]
    /\ UNCHANGED <<disk, indexed, build, stamp, derivation, promoted, strays, edits>>

\* The failure is recorded; the committed graph stays as it is.
EndWith(state) ==
    /\ gst' = [gst EXCEPT !.state = state]
    /\ stagePass' = Idle
    /\ UNCHANGED <<disk, indexed, build, stamp, rows, derivation, promoted,
                   strays, edits>>

\* Same rows, same inputs: only the base they belong to moves.
RebindStage ==
    /\ stagePass.step = "planned" /\ stagePass.action = "rebind"
    /\ IF Republished
       THEN UNCHANGED <<gst, promoted>>
       ELSE /\ gst' = [gst EXCEPT !.state = "ready", !.base = stagePass.stamp,
                                  !.all = FALSE]
            /\ promoted' = rows
    /\ stagePass' = Idle
    /\ UNCHANGED <<disk, indexed, build, stamp, rows, derivation, strays, edits,
                   troubles>>

\* Mutant: unchanged files are derived as well.
ToDeriveAll == IF stagePass.build = build THEN Held(indexed) ELSE {}

\* The changed files that are still in the build.
ToDerive ==
    IF stagePass.build = build THEN stagePass.changed \cap Held(indexed) ELSE {}

\* The state becomes building, and the file rows are read.
StartStage ==
    /\ stagePass.step = "planned" /\ stagePass.action = "derive"
    /\ gst' = [gst EXCEPT !.state = "building"]
    /\ stagePass' = [stagePass EXCEPT
         !.step = "derive", !.prev = gst,
         !.files = IF stagePass.build = build THEN indexed ELSE NoFiles,
         !.todo = ToDerive]
    /\ UNCHANGED <<disk, indexed, build, stamp, rows, derivation, promoted,
                   strays, edits, troubles>>

\* derive_file: the file is read again, and must be what was indexed.
Matches(f) == disk[f] = stagePass.files[f]

DeriveFile(f) ==
    /\ stagePass.step = "derive" /\ f \in stagePass.todo
    /\ UNCHANGED troubles
    /\ IF Matches(f)
       THEN /\ stagePass' = [stagePass EXCEPT !.todo = @ \ {f},
                   !.staged[f] = Derive(f, disk[f], derivation)]
            /\ UNCHANGED <<disk, indexed, build, stamp, rows, gst, derivation,
                           promoted, strays, edits>>
       ELSE EndWith("stale")

\* The rows once the staged ones are swapped in (clear_graph or
\* clear_file_graph and clear_orphaned_graph, publish_staged_graph_rows).
Swapped ==
    [f \in SrcFiles |->
        IF f \in stagePass.changed THEN stagePass.staged[f]
        ELSE IF indexed[f] = Absent \/ stagePass.full THEN {} ELSE rows[f]]

Whole == stagePass.full \/ stagePass.prev.all

\* Mutant: only changed files are resolved again.
TargetsChanged(fresh) == stagePass.changed

\* The files whose cross-file references are resolved again.
Targets(fresh) ==
    LET touched == stagePass.changed \cup stagePass.removed
        defs    == ChangedDefs(touched, gst.syms, fresh)
    IN
    IF Whole THEN SrcFiles
    ELSE stagePass.changed \cup Dependents(gst.syms, defs)

\* One transaction: the fence, the swap, resolution and promotion.
CommitStage ==
    LET fresh == [f \in SrcFiles |-> SymbolsIn(f, Swapped[f], indexed)]
        final == [f \in SrcFiles |->
                     IF f \in Targets(fresh) THEN Resolve(f, Swapped[f], indexed)
                     ELSE Swapped[f]]
        touched == stagePass.changed \cup stagePass.removed
    IN
    /\ stagePass.step = "derive" /\ stagePass.todo = {}
    /\ UNCHANGED troubles
    /\ IF Republished THEN EndWith("stale")
       ELSE /\ rows' = final /\ promoted' = final /\ strays' = {}
            /\ gst' = [state |-> "ready", gen |-> stagePass.prev.gen + 1,
                       build |-> build, base |-> stamp, derivation |-> derivation,
                       keys |-> stagePass.files, all |-> FALSE,
                       syms |-> [f \in SrcFiles |->
                          IF Whole \/ f \in touched THEN fresh[f] ELSE gst.syms[f]]]
            /\ stagePass' = Idle
            /\ UNCHANGED <<disk, indexed, build, stamp, derivation, edits>>

\* Cancelled, or a storage or parser error.
StageFails ==
    /\ stagePass.step = "derive" /\ Trouble
    /\ EndWith("failed")

\* The process dies; the staging table and the open session go with it.
StageDies ==
    /\ stagePass # Idle /\ Trouble
    /\ stagePass' = Idle
    /\ UNCHANGED <<disk, indexed, build, stamp, rows, gst, derivation, promoted,
                   strays, edits>>

StageStep ==
    \/ PlanStage \/ RebindStage \/ StartStage \/ CommitStage
    \/ \E f \in SrcFiles : DeriveFile(f)

BasePass == PublishInPlace \/ \E carried \in BOOLEAN : PublishNewBuild(carried)

LocalGraphNext ==
    \/ \E f \in SrcFiles, c \in Texts \cup {Absent} : EditFile(f, c)
    \/ BasePass \/ Upgraded \/ MarkDisabled \/ StageFails \/ StageDies
    \/ \E m \in Manifests : AdoptGraph(m)
    \/ StageStep

LocalGraphSpec == LocalGraphInit /\ [][LocalGraphNext]_localGraphVars

\* The daemon indexes what changed and then builds the graph, again after
\* every pass and reconciliation.
Reindex == indexed # disk /\ BasePass
LocalGraphFairness ==
    WF_localGraphVars(StageStep) /\ WF_localGraphVars(Reindex)
LocalGraphFairSpec == LocalGraphSpec /\ LocalGraphFairness

-----------------------------------------------------------------------------
(* What readers get (graph_visible).                                        *)

CurrentGraph == gst.state = "ready" /\ gst.base # 0 /\ gst.base = stamp
LastGraph ==
    /\ gst.gen > 0 /\ ~gst.all /\ gst.build = build
    /\ gst.state \notin {"disabled", "pending"}

(* A graph reported as current is what deriving every file of the base       *)
(* from scratch would give, whichever chain of incremental updates, carried *)
(* and adopted rows and rebinds led to it (resolve_files: "exactly what      *)
(* resolve_build would"; PlanAction::Rebind: "the committed rows").          *)
CurrentIsDerivation ==
    CurrentGraph => rows = GraphOf(indexed, gst.derivation)

(* Until the next promotion, readers of the last graph see rows of one       *)
(* generation: no failed, cancelled or stale build leaves rows behind.       *)
OneGeneration ==
    LastGraph => \A f \in SrcFiles : rows[f] = promoted[f]
                    \/ (rows[f] = {} /\ f \in strays)

(* LocalGraphRight: the state has its types, a graph reported as current is  *)
(* what a full derivation gives, and one that is not has the rows of one     *)
(* generation.                                                               *)
LocalGraphRight == LocalGraphTypeOK /\ CurrentIsDerivation /\ OneGeneration

(* Once files, base and program stay as they are, the graph becomes current. *)
GraphSettles == <>[](build # 0 /\ indexed = disk => CurrentGraph)
=============================================================================
