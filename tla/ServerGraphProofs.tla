-------------------------- MODULE ServerGraphProofs --------------------------
(***************************************************************************)
(* The graph generations of the server: which one is served as current, and *)
(* that nothing but the graph of the active build is found under it, for    *)
(* any hosts, files, keys and numbers of builds, generations and faults.    *)
(***************************************************************************)
EXTENDS ServerGraph, Records, FiniteSetTheorems, TLAPS

-----------------------------------------------------------------------------
(* The inductive invariant.                                                  *)

Recs == [GraphFiles -> Digests \cup {Gone}]
GraphStates == {"pending", "building", "ready", "stale", "failed", "disabled"}
GraphRecord == [state : GraphStates, gen : 0 .. MaxGraph, base : Bases, digest : Bases,
                keys : AllTrees, recs : Recs, pending : 0 .. MaxGraph, retired : SUBSET Gens]

\* What the hosts and the records hold has its type.
HostTypes ==
    /\ local \in [Hosts -> [usable : BOOLEAN, keys : AllTrees, recs : Recs]]
    /\ seen \in [Hosts -> GraphRecord]
    /\ target \in [Hosts -> Bases]
    /\ generation \in [Hosts -> 0 .. MaxGraph]
    /\ wrote \in [Gens -> Recs]
    /\ lastGen \in 0 .. MaxGraph

\* A graph stage works for a base build from here on,
Fenced == {"plan", "adopt", "rebind", "publish", "repoint", "clean", "begin",
           "copy", "write", "promote"}
\* has derived its graph from here on,
HasGraph == Fenced \ {"plan", "adopt"}
\* and has a generation of its own, not promoted, from here on.
Owning == {"repoint", "clean", "begin", "copy", "write", "promote"}

\* A staging store that claims to describe the active build does.
MarkerTrue ==
    \A h \in Hosts :
        /\ marker[h] <= active
        /\ gpc[h] \notin {"staged", "staged_full"} /\ marker[h] = active /\ active # 0
             => stage[h] = tree[active]
        /\ gpc[h] = "collect" => /\ target[h] \in 1 .. active
                                 /\ marker[h] < target[h]
                                 /\ stage[h] = tree[target[h]]

\* A file with records has the records of its key.
Fits(recs, keys) ==
    \A f \in GraphFiles :
        recs[f] # Gone => keys[f] \in Keys /\ recs[f] = RecordsOf[keys[f]]

\* A stage works from what its base build is made of.
WorkTrue ==
    \A h \in Hosts :
        /\ gpc[h] \in Fenced => target[h] \in 1 .. active /\ stage[h] = tree[target[h]]
        /\ gpc[h] \in HasGraph => local[h].keys = stage[h]
        /\ gpc[h] = "repoint" => seen[h].gen # 0 /\ seen[h].recs = local[h].recs
        /\ Fits(local[h].recs, local[h].keys)
        /\ Fits(seen[h].recs, seen[h].keys)
        /\ seen[h].gen # 0 /\ seen[h].gen = graph.gen => seen[h].recs = graph.recs

\* The graph record describes its base build.
GraphTrue ==
    /\ graph.base <= active
    /\ graph.base # 0 => graph.keys = tree[graph.base]
    /\ Fits(graph.recs, graph.keys)

\* Generations are given out once, and those that were used are known.
GensKnown ==
    /\ graph.gen <= lastGen /\ \A g \in graph.retired : g <= lastGen
    /\ \A h \in Hosts : seen[h].gen <= lastGen /\ generation[h] <= lastGen
    /\ \A h, k \in Hosts : h # k /\ generation[h] = generation[k] => generation[h] = 0
    /\ \A h \in Hosts : gpc[h] \in Owning =>
          /\ generation[h] # 0
          /\ generation[h] # graph.gen /\ generation[h] \notin graph.retired
          /\ \A k \in Hosts : generation[h] # seen[k].gen

\* What is found under generation g is recs, each record once.
OnlyRecords(g, recs) ==
    \A f \in GraphFiles, c \in Gens : g \in ids[c][f] =>
        /\ recs[f] # Gone /\ wrote[c][f] = recs[f]
        /\ \A d \in Gens : g \in ids[d][f] => d = c

\* The generations that were not written yet have no record, and none is
\* found under those that were not copied to yet.
FreshEmpty ==
    /\ \A g \in Gens, f \in GraphFiles : g > lastGen =>
          ids[g][f] = {} /\ \A c \in Gens : g \notin ids[c][f]
    /\ \A h \in Hosts : gpc[h] \in Owning \ {"promote"} =>
          \A f \in GraphFiles : ids[generation[h]][f] = {}
    /\ \A h \in Hosts : gpc[h] \in Owning \ {"write", "promote"} =>
          \A c \in Gens, f \in GraphFiles : generation[h] \notin ids[c][f]

\* The current generation, those a stage has read and the one a stage has
\* written contain what their descriptions say.
RecordsTrue ==
    /\ OnlyRecords(graph.gen, graph.recs)
    /\ \A h \in Hosts :
          /\ OnlyRecords(seen[h].gen, seen[h].recs)
          /\ gpc[h] = "promote" => OnlyRecords(generation[h], local[h].recs)
          /\ gpc[h] = "write" =>
                /\ OnlyRecords(generation[h], local[h].recs)
                /\ \A f \in GraphFiles, c \in Gens :
                      generation[h] \in ids[c][f] => CopiesForward(h, f)

GraphInv ==
    /\ GraphTypeOK /\ HostTypes /\ MarkerTrue /\ WorkTrue /\ GraphTrue
    /\ GensKnown /\ FreshEmpty /\ RecordsTrue

-----------------------------------------------------------------------------
(* Steps that change no description.                                        *)

(* At the start no graph and no base build exist.                            *)
LEMMA InitGraphInv == GraphInit => GraphInv
  <1> SUFFICES ASSUME GraphInit PROVE GraphInv
    OBVIOUS
  <1> USE GraphAssumption DEF GraphInit
  <1>1. NoTree \in AllTrees /\ NoTree \in Recs
    BY DEF NoTree, AllTrees, Recs
  <1>2. Pending \in GraphRecord
    BY <1>1 DEF Pending, GraphRecord, GraphStates, Bases, Gens
  <1>3. graph \in GraphRecord /\ graph.gen = 0 /\ graph.base = 0 /\ graph.retired = {}
        /\ graph.pending = 0 /\ graph.recs = NoTree
    BY <1>2 DEF Pending
  <1>4. GraphTypeOK
    BY <1>1, <1>3 DEF GraphTypeOK, GraphRecord, GraphStates, Recs, Bases, Gens, GraphPhases
  <1>5. HostTypes
    BY <1>1, <1>2 DEF HostTypes, NoGraph, Bases
  <1>6. MarkerTrue
    BY DEF MarkerTrue
  <1>7. Fits(NoTree, NoTree)
    BY DEF Fits, NoTree
  <1>8. WorkTrue
    BY <1>3, <1>7 DEF WorkTrue, Fenced, HasGraph, NoGraph, Pending
  <1>9. GraphTrue
    BY <1>3, <1>7 DEF GraphTrue, Pending
  <1>10. GensKnown
    BY <1>3 DEF GensKnown, Owning, Pending
  <1>11. FreshEmpty /\ RecordsTrue
    BY DEF FreshEmpty, RecordsTrue, OnlyRecords, Owning
  <1> QED BY <1>4, <1>5, <1>6, <1>8, <1>9, <1>10, <1>11 DEF GraphInv

\* The phase l of a stage says nothing that the phase k did not.
SaysNoMore(k, l) ==
    /\ k \notin {"staged", "staged_full"} /\ l \in GraphPhases
    /\ l \notin {"collect", "repoint", "write", "promote"}
    /\ l \in Fenced => k \in Fenced
    /\ l \in HasGraph => k \in HasGraph
    /\ l \in Owning => k \in Owning \ {"write", "promote"}

(* Losing records, and changing no more of the graph record than its state   *)
(* and what is pending, keeps the invariant.                                 *)
LEMMA KeptStep ==
  ASSUME GraphInv, NEW h \in Hosts, NEW l, SaysNoMore(gpc[h], l), To(h, l),
         leased' \in Hosts \cup {NoHost},
         UNCHANGED <<active, tree, wrote, lastGen, marker, stage, local, seen, target,
                     generation>>,
         NEW state \in GraphStates, NEW pending \in {graph.pending, 0},
         graph' = [graph EXCEPT !.state = state, !.pending = pending],
         ids' \in [Gens -> [GraphFiles -> SUBSET Gens]],
         \A c \in Gens, f \in GraphFiles : ids'[c][f] \subseteq ids[c][f]
  PROVE  GraphInv'
  <1> USE DEF GraphInv
  <1>1. graph \in GraphRecord /\ gpc \in [Hosts -> GraphPhases]
    BY DEF GraphTypeOK, GraphRecord, GraphStates, Recs
  <1>2. /\ gpc' \in [Hosts -> GraphPhases] /\ gpc'[h] = l
        /\ \A k \in Hosts : k # h => gpc'[k] = gpc[k]
    BY <1>1 DEF To, SaysNoMore
  <1>3. /\ graph' \in GraphRecord
        /\ graph'.gen = graph.gen /\ graph'.base = graph.base /\ graph'.keys = graph.keys
        /\ graph'.recs = graph.recs /\ graph'.retired = graph.retired
        /\ graph'.pending \in {graph.pending, 0}
    <2>1. pending \in 0 .. MaxGraph
      BY <1>1, GraphAssumption DEF GraphRecord
    <2> QED BY <1>1, <2>1 DEF GraphRecord
  <1>4. GraphTypeOK'
    BY <1>2, <1>3 DEF GraphTypeOK, GraphRecord, GraphStates, Recs
  <1>5. HostTypes'
    BY DEF HostTypes
  <1>6. MarkerTrue'
    BY <1>2 DEF MarkerTrue, SaysNoMore
  <1>7. WorkTrue'
    BY <1>2, <1>3 DEF WorkTrue, SaysNoMore, Fits
  <1>8. GraphTrue'
    BY <1>3 DEF GraphTrue, Fits
  <1>9. GensKnown'
    BY <1>2, <1>3 DEF GensKnown, SaysNoMore
  <1>10. FreshEmpty'
    <2> USE <1>2
    <2>1. ASSUME NEW k \in Hosts, gpc'[k] \in Owning PROVE generation[k] \in Gens
      <3>1. gpc[k] \in Owning
        BY <2>1 DEF SaysNoMore
      <3>2. generation[k] # 0
        BY <3>1 DEF GensKnown
      <3>3. generation[k] \in 0 .. MaxGraph
        BY DEF HostTypes
      <3> QED BY <3>2, <3>3, GraphAssumption DEF Gens
    <2>2. \A k \in Hosts : gpc'[k] \in Owning \ {"promote"} => gpc[k] \in Owning \ {"promote"}
      BY DEF SaysNoMore
    <2>3. \A k \in Hosts : gpc'[k] \in Owning \ {"write", "promote"} =>
              gpc[k] \in Owning \ {"write", "promote"}
      BY DEF SaysNoMore
    <2> QED BY <2>1, <2>2, <2>3 DEF FreshEmpty
  <1>11. RecordsTrue'
    <2>1. ASSUME NEW g, NEW recs, OnlyRecords(g, recs) PROVE OnlyRecords(g, recs)'
      BY <2>1 DEF OnlyRecords
    <2>2. \A k \in Hosts : /\ gpc'[k] = "promote" => gpc[k] = "promote"
                           /\ gpc'[k] = "write" => gpc[k] = "write"
      BY <1>2 DEF SaysNoMore
    <2>3. \A k \in Hosts, f \in GraphFiles : CopiesForward(k, f) => CopiesForward(k, f)'
      BY DEF CopiesForward
    <2>4. ASSUME NEW k \in Hosts, gpc'[k] = "write",
                 NEW f \in GraphFiles, NEW c \in Gens, generation[k] \in ids'[c][f]
          PROVE  CopiesForward(k, f)'
      BY <2>2, <2>3, <2>4 DEF RecordsTrue
    <2> QED BY <1>3, <2>1, <2>2, <2>4 DEF RecordsTrue
  <1> QED BY <1>4, <1>5, <1>6, <1>7, <1>8, <1>9, <1>10, <1>11

(* A step that only moves a stage to another phase.                          *)
LEMMA PhaseStep ==
  ASSUME GraphInv, NEW h \in Hosts, NEW l, SaysNoMore(gpc[h], l), To(h, l),
         leased' \in Hosts \cup {NoHost}, UNCHANGED serverVars, UNCHANGED hostVars
  PROVE  GraphInv'
  <1>1. graph \in GraphRecord
    BY DEF GraphInv, GraphTypeOK, GraphRecord, GraphStates, Recs
  <1>2. graph.state \in GraphStates /\ graph' = [graph EXCEPT !.state = graph.state, !.pending = graph.pending]
    BY <1>1 DEF GraphRecord, serverVars
  <1>3. ids' \in [Gens -> [GraphFiles -> SUBSET Gens]]
    BY DEF GraphInv, GraphTypeOK, serverVars
  <1>4. \A c \in Gens, f \in GraphFiles : ids'[c][f] \subseteq ids[c][f]
    BY DEF serverVars
  <1>5. UNCHANGED <<active, tree, wrote, lastGen, marker, stage, local, seen, target, generation>>
    BY DEF serverVars, hostVars
  <1> QED BY <1>2, <1>3, <1>4, <1>5, KeptStep

(* A step that records a state of the graph, and gives up what is pending.   *)
LEMMA StateStep ==
  ASSUME GraphInv, NEW h \in Hosts, NEW l, SaysNoMore(gpc[h], l), To(h, l),
         UNCHANGED <<leased, active, tree, wrote, ids, lastGen>>, UNCHANGED hostVars,
         NEW state \in GraphStates, NEW pending \in {graph.pending, 0},
         graph' = graph \/ graph' = [graph EXCEPT !.state = state, !.pending = pending]
  PROVE  GraphInv'
  <1>1. leased' \in Hosts \cup {NoHost} /\ ids' \in [Gens -> [GraphFiles -> SUBSET Gens]]
    BY DEF GraphInv, GraphTypeOK
  <1>2. CASE graph' = graph
    BY <1>1, <1>2, PhaseStep DEF serverVars
  <1>3. CASE graph' = [graph EXCEPT !.state = state, !.pending = pending]
    <2>1. \A c \in Gens, f \in GraphFiles : ids'[c][f] \subseteq ids[c][f]
      OBVIOUS
    <2>2. UNCHANGED <<active, tree, wrote, lastGen, marker, stage, local, seen, target, generation>>
      BY DEF hostVars
    <2> QED BY <1>1, <1>3, <2>1, <2>2, KeptStep
  <1> QED BY <1>2, <1>3

(* A step that deletes the records of generations.                           *)
LEMMA DetachStep ==
  ASSUME GraphInv, NEW h \in Hosts, NEW l, SaysNoMore(gpc[h], l), To(h, l),
         UNCHANGED <<leased, active, tree, graph, wrote, lastGen>>, UNCHANGED hostVars,
         NEW G, ids' = Detach(G)
  PROVE  GraphInv'
  <1>1. graph \in GraphRecord /\ leased' \in Hosts \cup {NoHost}
    BY DEF GraphInv, GraphTypeOK, GraphRecord, GraphStates, Recs
  <1>2. graph.state \in GraphStates /\ graph' = [graph EXCEPT !.state = graph.state, !.pending = graph.pending]
    BY <1>1 DEF GraphRecord
  <1>3. /\ ids' \in [Gens -> [GraphFiles -> SUBSET Gens]]
        /\ \A c \in Gens, f \in GraphFiles : ids'[c][f] \subseteq ids[c][f]
    BY DEF GraphInv, GraphTypeOK, Detach
  <1>5. UNCHANGED <<active, tree, wrote, lastGen, marker, stage, local, seen, target, generation>>
    BY DEF hostVars
  <1> QED BY <1>1, <1>2, <1>3, <1>5, KeptStep


(* The steps of a stage that end it, or bring it no further than it is.      *)
LEMMA EndingSteps ==
  ASSUME GraphInv, NEW h \in Hosts,
         \/ StartGraph(h) \/ Disable(h) \/ DeriveFails(h) \/ CleanPending(h)
         \/ PublishFails(h) \/ DropRetired(h) \/ Undo(h) \/ Unpend(h) \/ RecordEnd(h)
  PROVE  GraphInv'
  <1> USE DEF GraphPhases, Fenced, HasGraph, Owning, SaysNoMore, At, hostVars, serverVars
  <1>1. leased \in Hosts \cup {NoHost} /\ graph \in GraphRecord
    BY DEF GraphInv, GraphTypeOK, GraphRecord, GraphStates, Recs
  <1>2. CASE StartGraph(h)
    BY <1>2, PhaseStep DEF StartGraph
  <1>3. CASE DeriveFails(h)
    BY <1>1, <1>3, PhaseStep DEF DeriveFails
  <1>4. CASE PublishFails(h)
    BY <1>1, <1>4, PhaseStep DEF PublishFails
  <1>5. CASE CleanPending(h)
    BY <1>5, DetachStep DEF CleanPending
  <1>6. CASE DropRetired(h)
    BY <1>6, DetachStep DEF DropRetired
  <1>7. CASE Undo(h)
    BY <1>7, DetachStep DEF Undo
  <1>8. CASE Disable(h) \/ RecordEnd(h)
    <2>1. PICK state \in {"disabled", "stale", "failed"} : SetState(h, state)
      BY <1>8 DEF Disable, RecordEnd
    <2>2. state \in GraphStates /\ (graph' = graph \/ graph' = [graph EXCEPT !.state = state, !.pending = graph.pending])
      BY <1>1, <2>1 DEF SetState, GraphStates, GraphRecord
    <2> QED BY <1>8, <2>2, StateStep DEF Disable, RecordEnd
  <1>9. CASE Unpend(h)
    <2> DEFINE p == IF graph.pending = generation[h] THEN 0 ELSE graph.pending
    <2>1. graph' = graph \/ graph' = [graph EXCEPT !.state = "failed", !.pending = p]
      BY <1>9 DEF Unpend
    <2>2. p \in {graph.pending, 0} /\ "failed" \in GraphStates
      BY DEF GraphStates
    <2> HIDE DEF p
    <2> QED BY <1>9, <2>1, <2>2, StateStep DEF Unpend
  <1> QED BY <1>2, <1>3, <1>4, <1>5, <1>6, <1>7, <1>8, <1>9

-----------------------------------------------------------------------------
(* The base pass.                                                           *)

(* A pass that scans replaces the staged files before anything claims that   *)
(* they are those of the active build.                                       *)
LEMMA StageStep ==
  ASSUME GraphInv, NEW h \in Hosts, NEW t \in Trees, NEW full \in BOOLEAN, Stage(h, t, full)
  PROVE  GraphInv'
  <1> USE DEF GraphInv, At, serverVars
  <1>1. /\ gpc[h] = "idle" /\ leased' = h /\ stage' = [stage EXCEPT ![h] = t]
        /\ \E l \in {"staged", "staged_full"} : To(h, l)
        /\ \A k \in Hosts : k # h => local'[k] = local[k] /\ marker'[k] = marker[k]
        /\ \/ local'[h] = local[h] /\ marker'[h] = marker[h]
           \/ local'[h] = NoGraph /\ marker'[h] = 0
        /\ UNCHANGED <<active, tree, graph, wrote, ids, lastGen, seen, target, generation>>
    BY DEF Stage, GraphTypeOK, HostTypes
  <1>2. PICK l \in {"staged", "staged_full"} : To(h, l)
    BY <1>1
  <1>3. /\ gpc' \in [Hosts -> GraphPhases] /\ gpc'[h] = l
        /\ \A k \in Hosts : k # h => gpc'[k] = gpc[k]
    BY <1>2 DEF To, GraphTypeOK, GraphPhases
  <1>4. /\ t \in AllTrees /\ stage' \in [Hosts -> AllTrees] /\ stage'[h] = t
        /\ \A k \in Hosts : k # h => stage'[k] = stage[k]
    BY <1>1, GraphAssumption DEF GraphTypeOK, AllTrees
  <1>5. NoTree \in AllTrees /\ NoTree \in Recs /\ Fits(NoTree, NoTree)
    BY DEF NoTree, AllTrees, Recs, Fits
  <1>6. GraphTypeOK'
    <2>1. marker' \in [Hosts -> Bases]
      BY GraphAssumption DEF Stage, GraphTypeOK, Bases
    <2> QED BY <1>1, <1>3, <1>4, <2>1 DEF GraphTypeOK
  <1>7. HostTypes'
    <2>1. local' \in [Hosts -> [usable : BOOLEAN, keys : AllTrees, recs : Recs]]
      <3>1. NoGraph \in [usable : BOOLEAN, keys : AllTrees, recs : Recs]
        BY <1>5 DEF NoGraph
      <3>2. local' = local \/ local' = [local EXCEPT ![h] = NoGraph]
        BY DEF Stage
      <3> QED BY <3>1, <3>2 DEF HostTypes
    <2> QED BY <1>1, <2>1 DEF HostTypes
  <1>8. MarkerTrue'
    <2>1. active \in Nat /\ marker'[h] <= active
      BY <1>1, GraphAssumption DEF MarkerTrue, GraphTypeOK, Bases
    <2> QED BY <1>1, <1>2, <1>3, <1>4, <2>1 DEF MarkerTrue
  <1>9. WorkTrue'
    <2>1. Fits(local[h].recs, local[h].keys)' /\ \A k \in Hosts : Fits(local[k].recs, local[k].keys)'
      BY <1>1, <1>5 DEF WorkTrue, NoGraph, Fits
    <2>2. l \notin Fenced /\ l \notin HasGraph /\ l # "repoint"
      BY <1>2 DEF Fenced, HasGraph
    <2>3. \A k \in Hosts : Fits(seen[k].recs, seen[k].keys)'
      BY <1>1 DEF WorkTrue, Fits
    <2> QED BY <1>1, <1>3, <1>4, <2>1, <2>2, <2>3 DEF WorkTrue
  <1>10. GraphTrue'
    BY <1>1 DEF GraphTrue, Fits
  <1>11. GensKnown'
    BY <1>1, <1>2, <1>3 DEF GensKnown, Owning
  <1>12. FreshEmpty'
    BY <1>1, <1>2, <1>3 DEF FreshEmpty, Owning
  <1>13. RecordsTrue'
    BY <1>1, <1>2, <1>3 DEF RecordsTrue, OnlyRecords, CopiesForward
  <1> QED BY <1>6, <1>7, <1>8, <1>9, <1>10, <1>11, <1>12, <1>13

(* A published base build leaves the graph record behind it, and every       *)
(* marker but the publisher's next one.                                      *)
LEMMA PublishBaseStep ==
  ASSUME GraphInv, NEW h \in Hosts, PublishBase(h)
  PROVE  GraphInv'
  <1> USE DEF GraphInv, At
  <1>1. /\ gpc[h] \in {"staged", "staged_full"}
        /\ UNCHANGED <<leased, graph, wrote, ids, lastGen, stage, local, seen, generation>>
        /\ active \in Nat
    BY GraphAssumption DEF PublishBase, GraphTypeOK, Bases
  <1>2. CASE /\ NothingNew(h) /\ marker' = [marker EXCEPT ![h] = active] /\ To(h, "done")
             /\ UNCHANGED <<active, tree, target>>
    <2>1. /\ gpc' \in [Hosts -> GraphPhases] /\ gpc'[h] = "done"
          /\ \A k \in Hosts : k # h => gpc'[k] = gpc[k]
      BY <1>2 DEF To, GraphTypeOK, GraphPhases
    <2>2. GraphTypeOK' /\ HostTypes'
      BY <1>1, <1>2, <2>1 DEF GraphTypeOK, HostTypes
    <2>3. MarkerTrue'
      BY <1>1, <1>2, <2>1 DEF MarkerTrue, NothingNew, GraphTypeOK
    <2>4. WorkTrue'
      BY <1>1, <1>2, <2>1 DEF WorkTrue, Fits, Fenced, HasGraph
    <2>5. GraphTrue' /\ GensKnown' /\ FreshEmpty'
      BY <1>1, <1>2, <2>1 DEF GraphTrue, Fits, GensKnown, FreshEmpty, Owning
    <2>6. RecordsTrue'
      BY <1>1, <1>2, <2>1 DEF RecordsTrue, OnlyRecords, CopiesForward
    <2> QED BY <2>2, <2>3, <2>4, <2>5, <2>6
  <1>3. CASE /\ active < MaxBase /\ active' = active + 1
             /\ tree' = [tree EXCEPT ![active + 1] = stage[h]]
             /\ target' = [target EXCEPT ![h] = active + 1]
             /\ To(h, "collect") /\ UNCHANGED marker
    <2>1. /\ gpc' \in [Hosts -> GraphPhases] /\ gpc'[h] = "collect"
          /\ \A k \in Hosts : k # h => gpc'[k] = gpc[k]
      BY <1>3 DEF To, GraphTypeOK, GraphPhases
    <2>2. active' \in Bases /\ active + 1 \in 1 .. MaxBase
      BY <1>1, <1>3, GraphAssumption DEF Bases
    <2>3. /\ tree' \in [1 .. MaxBase -> AllTrees]
          /\ tree'[active + 1] = stage[h] /\ \A b \in 1 .. active : tree'[b] = tree[b]
      BY <1>1, <1>3, <2>2, GraphAssumption DEF GraphTypeOK
    <2>4. /\ target' \in [Hosts -> Bases] /\ target'[h] = active + 1
          /\ \A k \in Hosts : k # h => target'[k] = target[k]
      BY <1>3, <2>2 DEF HostTypes
    <2>5. GraphTypeOK' /\ HostTypes'
      BY <1>1, <1>3, <2>1, <2>2, <2>3, <2>4 DEF GraphTypeOK, HostTypes
    <2>6. MarkerTrue'
      <3> SUFFICES ASSUME NEW k \in Hosts
                   PROVE /\ marker[k] <= active + 1 /\ marker[k] # active + 1
                         /\ gpc'[k] = "collect" => /\ target'[k] \in 1 .. active + 1
                                                   /\ marker[k] < target'[k]
                                                   /\ stage[k] = tree'[target'[k]]
        BY <1>1, <1>3 DEF MarkerTrue
      <3>1. marker[k] \in Nat /\ marker[k] <= active
        BY GraphAssumption DEF MarkerTrue, GraphTypeOK, Bases
      <3>2. CASE k = h
        BY <1>1, <2>3, <2>4, <3>1, <3>2
      <3>3. CASE k # h
        BY <1>1, <2>1, <2>3, <2>4, <3>1, <3>3 DEF MarkerTrue
      <3> QED BY <3>2, <3>3
    <2>7. WorkTrue'
      <3> SUFFICES ASSUME NEW k \in Hosts
                   PROVE gpc'[k] \in Fenced => target'[k] \in 1 .. active + 1
                                               /\ stage[k] = tree'[target'[k]]
        <4>1. \A k \in Hosts : /\ gpc'[k] \in HasGraph => gpc[k] \in HasGraph
                               /\ gpc'[k] = "repoint" => gpc[k] = "repoint"
          BY <2>1 DEF HasGraph, Fenced
        <4> QED BY <1>1, <1>3, <4>1 DEF WorkTrue, Fits
      <3> QED BY <1>1, <2>1, <2>3, <2>4 DEF WorkTrue, Fenced
    <2>8. GraphTrue'
      <3>1. graph.base \in 0 .. active
        BY <1>1, GraphAssumption DEF GraphTrue, GraphTypeOK, Bases
      <3> QED BY <1>1, <1>3, <2>3, <3>1 DEF GraphTrue, Fits
    <2>9. GensKnown' /\ FreshEmpty'
      BY <1>1, <1>3, <2>1 DEF GensKnown, FreshEmpty, Owning
    <2>10. RecordsTrue'
      BY <1>1, <1>3, <2>1 DEF RecordsTrue, OnlyRecords, CopiesForward
    <2> QED BY <2>5, <2>6, <2>7, <2>8, <2>9, <2>10
  <1> QED BY <1>2, <1>3 DEF PublishBase

(* Collection removes records, and the marker is written for the build the   *)
(* pass published.                                                           *)
LEMMA CollectBaseStep ==
  ASSUME GraphInv, NEW h \in Hosts, CollectBase(h)
  PROVE  GraphInv'
  <1> USE DEF GraphInv, At
  <1>1. /\ gpc[h] = "collect" /\ To(h, "done")
        /\ UNCHANGED <<leased, active, tree, graph, wrote, lastGen, stage, local, seen,
                       target, generation>>
        /\ marker' = marker \/ marker' = [marker EXCEPT ![h] = target[h]]
    BY DEF CollectBase
  <1>2. /\ gpc' \in [Hosts -> GraphPhases] /\ gpc'[h] = "done"
        /\ \A k \in Hosts : k # h => gpc'[k] = gpc[k]
    BY <1>1 DEF To, GraphTypeOK, GraphPhases
  <1>3. /\ ids' \in [Gens -> [GraphFiles -> SUBSET Gens]]
        /\ \A c \in Gens, f \in GraphFiles : ids'[c][f] \subseteq ids[c][f]
    BY DEF CollectBase, CollectBut, GraphTypeOK
  <1>4. GraphTypeOK' /\ HostTypes'
    BY ZenonT(30), <1>1, <1>2, <1>3 DEF GraphTypeOK, HostTypes
  <1>5. MarkerTrue'
    BY <1>1, <1>2, GraphAssumption DEF MarkerTrue, GraphTypeOK, HostTypes, Bases
  <1>6. WorkTrue'
    BY <1>1, <1>2 DEF WorkTrue, Fits, Fenced, HasGraph
  <1>7. GraphTrue' /\ GensKnown'
    BY <1>1, <1>2 DEF GraphTrue, Fits, GensKnown, Owning
  <1>8. FreshEmpty'
    <2>1. \A k \in Hosts : gpc'[k] \in Owning => gpc[k] \in Owning /\ generation[k] \in Gens
      BY <1>2, GraphAssumption DEF Owning, GensKnown, HostTypes, Gens
    <2>2. \A k \in Hosts : gpc'[k] \in Owning => gpc[k] = gpc'[k]
      BY <1>2 DEF Owning
    <2>3. \A g \in Gens, f \in GraphFiles : g > lastGen =>
              ids'[g][f] = {} /\ \A c \in Gens : g \notin ids'[c][f]
      BY <1>3 DEF FreshEmpty
    <2>4. ASSUME NEW k \in Hosts, gpc'[k] \in Owning \ {"promote"}, NEW f \in GraphFiles
          PROVE  ids'[generation[k]][f] = {}
      <3>1. ids[generation[k]][f] = {}
        BY <2>2, <2>4 DEF FreshEmpty
      <3> QED BY <1>3, <2>1, <2>4, <3>1
    <2>5. ASSUME NEW k \in Hosts, gpc'[k] \in Owning \ {"write", "promote"},
                 NEW c \in Gens, NEW f \in GraphFiles
          PROVE  generation[k] \notin ids'[c][f]
      <3>1. generation[k] \notin ids[c][f]
        BY <2>2, <2>5 DEF FreshEmpty
      <3> QED BY <1>3, <3>1
    <2> QED BY <1>1, <2>3, <2>4, <2>5 DEF FreshEmpty
  <1>9. RecordsTrue'
    <2>1. ASSUME NEW g, NEW recs, OnlyRecords(g, recs) PROVE OnlyRecords(g, recs)'
      BY <1>1, <1>3, <2>1 DEF OnlyRecords
    <2>2. \A k \in Hosts : /\ gpc'[k] = "promote" => gpc[k] = "promote"
                           /\ gpc'[k] = "write" => gpc[k] = "write"
      BY <1>2
    <2>3. ASSUME NEW k \in Hosts, gpc'[k] = "write",
                 NEW f \in GraphFiles, NEW c \in Gens, generation[k] \in ids'[c][f]
          PROVE  CopiesForward(k, f)'
      <3>1. CopiesForward(k, f)
        BY <1>3, <2>2, <2>3 DEF RecordsTrue
      <3> QED BY <1>1, <3>1 DEF CopiesForward
    <2> QED BY <1>1, <2>1, <2>2, <2>3 DEF RecordsTrue
  <1> QED BY <1>4, <1>5, <1>6, <1>7, <1>8, <1>9

(* A pass that ends, or dies, forgets what it read and what it worked for;   *)
(* a host does not die, and publication does not fail, between a change of   *)
(* the staging store and the publication of it.                              *)
LEMMA EndStep ==
  ASSUME StagingFails = FALSE, GraphInv, NEW h \in Hosts, Finish(h) \/ HostDies(h)
  PROVE  GraphInv'
  <1> USE DEF GraphInv, At, serverVars
  <1>1. /\ gpc[h] \notin {"staged", "staged_full"} /\ To(h, "idle")
        /\ leased' \in Hosts \cup {NoHost}
        /\ seen' = [seen EXCEPT ![h] = Pending]
        /\ target' = [target EXCEPT ![h] = 0]
        /\ generation' = [generation EXCEPT ![h] = 0]
        /\ UNCHANGED <<active, tree, graph, wrote, ids, lastGen, marker, stage, local>>
    BY DEF Finish, HostDies, GraphTypeOK
  <1>2. /\ gpc' \in [Hosts -> GraphPhases] /\ gpc'[h] = "idle"
        /\ \A k \in Hosts : k # h => gpc'[k] = gpc[k]
    BY <1>1 DEF To, GraphTypeOK, GraphPhases
  <1>3. NoTree \in AllTrees /\ NoTree \in Recs /\ Fits(NoTree, NoTree)
    BY DEF NoTree, AllTrees, Recs, Fits
  <1>4. /\ Pending \in GraphRecord /\ Pending.gen = 0
        /\ Pending.recs = NoTree /\ Pending.keys = NoTree
    BY <1>3, GraphAssumption DEF Pending, GraphRecord, GraphStates, Bases, Gens
  <1>5. /\ seen' \in [Hosts -> GraphRecord] /\ seen'[h] = Pending
        /\ \A k \in Hosts : k # h => seen'[k] = seen[k]
        /\ target' \in [Hosts -> Bases] /\ target'[h] = 0
        /\ \A k \in Hosts : k # h => target'[k] = target[k]
        /\ generation' \in [Hosts -> 0 .. MaxGraph] /\ generation'[h] = 0
        /\ \A k \in Hosts : k # h => generation'[k] = generation[k]
    BY <1>1, <1>4, GraphAssumption DEF HostTypes, Bases
  <1>6. GraphTypeOK' /\ HostTypes'
    BY <1>1, <1>2, <1>5 DEF GraphTypeOK, HostTypes
  <1>7. MarkerTrue'
    BY <1>1, <1>2, <1>5 DEF MarkerTrue
  <1>8. WorkTrue'
    <2>1. \A k \in Hosts : Fits(seen[k].recs, seen[k].keys)'
      BY <1>3, <1>4, <1>5 DEF WorkTrue, Fits
    <2>2. \A k \in Hosts : Fits(local[k].recs, local[k].keys)'
      BY <1>1 DEF WorkTrue, Fits
    <2>3. \A k \in Hosts : /\ gpc'[k] \in Fenced => k # h
                           /\ gpc'[k] \in HasGraph => k # h
                           /\ gpc'[k] = "repoint" => k # h
      BY <1>2 DEF Fenced, HasGraph
    <2> QED BY <1>1, <1>2, <1>4, <1>5, <2>1, <2>2, <2>3 DEF WorkTrue
  <1>9. GraphTrue'
    BY <1>1 DEF GraphTrue, Fits
  <1>10. GensKnown'
    <2>1. \A k \in Hosts : gpc'[k] \in Owning => k # h /\ gpc[k] \in Owning
      BY <1>2 DEF Owning
    <2>2. lastGen \in Nat
      BY GraphAssumption DEF HostTypes
    <2> QED BY <1>1, <1>2, <1>4, <1>5, <2>1, <2>2 DEF GensKnown
  <1>11. FreshEmpty'
    <2>1. \A k \in Hosts : gpc'[k] \in Owning => k # h /\ gpc[k] = gpc'[k]
      BY <1>2 DEF Owning
    <2> QED BY <1>1, <1>5, <2>1 DEF FreshEmpty
  <1>12. RecordsTrue'
    <2>1. \A k \in Hosts : gpc'[k] \in {"write", "promote"} => k # h /\ gpc[k] = gpc'[k]
      BY <1>2
    <2>2. ASSUME NEW g, NEW recs, OnlyRecords(g, recs) PROVE OnlyRecords(g, recs)'
      BY <1>1, <2>2 DEF OnlyRecords
    <2>3. OnlyRecords(0, NoTree)'
      BY <1>1 DEF OnlyRecords, GraphTypeOK, Gens
    <2>4. \A k \in Hosts, f \in GraphFiles : k # h /\ CopiesForward(k, f) => CopiesForward(k, f)'
      BY <1>1, <1>5 DEF CopiesForward
    <2>5. OnlyRecords(graph.gen, graph.recs)'
      BY <1>1, <2>2 DEF RecordsTrue
    <2>6. ASSUME NEW k \in Hosts PROVE OnlyRecords(seen[k].gen, seen[k].recs)'
      <3>1. CASE k = h
        BY <1>4, <1>5, <2>3, <3>1
      <3>2. CASE k # h
        BY <1>5, <2>2, <3>2 DEF RecordsTrue
      <3> QED BY <3>1, <3>2
    <2>7. ASSUME NEW k \in Hosts, gpc'[k] \in {"write", "promote"}
          PROVE  OnlyRecords(generation[k], local[k].recs)'
      <3>1. OnlyRecords(generation[k], local[k].recs)
        BY <2>1, <2>7 DEF RecordsTrue
      <3> QED BY <1>1, <1>5, <2>1, <2>2, <2>7, <3>1
    <2>8. ASSUME NEW k \in Hosts, gpc'[k] = "write", NEW f \in GraphFiles, NEW c \in Gens,
                 generation'[k] \in ids'[c][f]
          PROVE  CopiesForward(k, f)'
      BY <1>1, <1>5, <2>1, <2>4, <2>8 DEF RecordsTrue
    <2> QED BY <2>5, <2>6, <2>7, <2>8 DEF RecordsTrue
  <1> QED BY <1>6, <1>7, <1>8, <1>9, <1>10, <1>11, <1>12

-----------------------------------------------------------------------------
(* Derivation.                                                              *)

(* What the staging store derives has the records of its files' keys.        *)
LEMMA DerivedFits ==
  ASSUME NEW l \in [usable : BOOLEAN, keys : AllTrees, recs : Recs],
         Fits(l.recs, l.keys), NEW t \in AllTrees
  PROVE  /\ Derived(l, t) \in [usable : BOOLEAN, keys : AllTrees, recs : Recs]
         /\ Derived(l, t).keys = t
         /\ Fits(Derived(l, t).recs, t)
  <1>1. \A f \in GraphFiles : t[f] \in Keys \cup {Gone} /\ l.recs[f] \in Digests \cup {Gone}
    BY DEF AllTrees, Recs
  <1>2. \A k \in Keys : RecordsOf[k] \in Digests
    BY DEF Digests
  <1> DEFINE r == [f \in GraphFiles |-> IF t[f] = Gone THEN Gone
                     ELSE IF l.usable /\ l.keys[f] = t[f] THEN l.recs[f]
                     ELSE RecordsOf[t[f]]]
  <1>3. r \in Recs
    BY <1>1, <1>2 DEF Recs
  <1>4. Fits(r, t)
    BY <1>1 DEF Fits
  <1>5. Derived(l, t) = [usable |-> TRUE, keys |-> t, recs |-> r]
    BY DEF Derived
  <1> HIDE DEF r
  <1> QED BY <1>3, <1>4, <1>5

(* The lease changes hands.                                                  *)
LEMMA LoseLeaseStep == GraphInv /\ LoseLease => GraphInv'
  <1> SUFFICES ASSUME GraphInv, LoseLease PROVE GraphInv'
    OBVIOUS
  <1>1. /\ leased' = NoHost
        /\ UNCHANGED <<active, tree, graph, wrote, ids, lastGen, marker, stage, local, seen,
                       target, generation, gpc>>
    BY DEF LoseLease, serverVars, hostVars
  <1>2. GraphTypeOK' /\ HostTypes'
    BY <1>1 DEF GraphInv, GraphTypeOK, HostTypes
  <1>3. MarkerTrue' /\ WorkTrue' /\ GraphTrue' /\ GensKnown'
    BY <1>1 DEF GraphInv, MarkerTrue, WorkTrue, Fits, GraphTrue, GensKnown
  <1>4. FreshEmpty' /\ RecordsTrue'
    BY <1>1 DEF GraphInv, FreshEmpty, RecordsTrue, OnlyRecords, CopiesForward
  <1> QED BY <1>2, <1>3, <1>4 DEF GraphInv

(* The active build is the target of a stage only if the staging store       *)
(* describes it.                                                             *)
LEMMA ReadActiveStep ==
  ASSUME GraphInv, NEW h \in Hosts, ReadActive(h)
  PROVE  GraphInv'
  <1> USE DEF GraphInv, At, serverVars, hostVars
  <1>1. gpc[h] = "graph" /\ leased' \in Hosts \cup {NoHost}
    BY DEF ReadActive, GraphTypeOK
  <1>2. CASE \E l \in {"failed", "stale"} : To(h, l) /\ UNCHANGED target
    <2>1. PICK l \in {"failed", "stale"} : To(h, l) /\ UNCHANGED target
      BY <1>2
    <2>2. SaysNoMore(gpc[h], l)
      BY <1>1, <2>1 DEF SaysNoMore, GraphPhases, Fenced, HasGraph, Owning
    <2> QED BY <1>1, <2>1, <2>2, PhaseStep DEF ReadActive
  <1>3. CASE /\ active # 0 /\ marker[h] = active
             /\ target' = [target EXCEPT ![h] = active] /\ To(h, "plan")
    <2>1. /\ gpc' \in [Hosts -> GraphPhases] /\ gpc'[h] = "plan"
          /\ \A k \in Hosts : k # h => gpc'[k] = gpc[k]
      BY <1>3 DEF To, GraphTypeOK, GraphPhases
    <2>2. /\ UNCHANGED <<leased, active, tree, graph, wrote, ids, lastGen, marker, stage,
                         local, seen, generation>>
          /\ active \in 1 .. active /\ active \in Bases
      BY <1>3, GraphAssumption DEF ReadActive, GraphTypeOK, Bases
    <2>3. /\ target' \in [Hosts -> Bases] /\ target'[h] = active
          /\ \A k \in Hosts : k # h => target'[k] = target[k]
      BY <1>3, <2>2 DEF HostTypes
    <2>4. GraphTypeOK' /\ HostTypes'
      BY <2>1, <2>2, <2>3 DEF GraphTypeOK, HostTypes
    <2>5. MarkerTrue'
      BY <1>1, <2>1, <2>2, <2>3 DEF MarkerTrue
    <2>6. WorkTrue'
      <3>1. stage[h] = tree[active]
        BY <1>1, <1>3 DEF MarkerTrue
      <3>2. \A k \in Hosts : /\ gpc'[k] \in HasGraph => gpc[k] \in HasGraph
                             /\ gpc'[k] = "repoint" => gpc[k] = "repoint"
        BY <2>1 DEF HasGraph, Fenced
      <3> QED BY <2>1, <2>2, <2>3, <3>1, <3>2 DEF WorkTrue, Fits
    <2>7. GraphTrue' /\ GensKnown' /\ FreshEmpty'
      BY <2>1, <2>2 DEF GraphTrue, Fits, GensKnown, FreshEmpty, Owning
    <2>8. RecordsTrue'
      BY <2>1, <2>2 DEF RecordsTrue, OnlyRecords, CopiesForward
    <2> QED BY <2>4, <2>5, <2>6, <2>7, <2>8
  <1> QED BY <1>2, <1>3 DEF ReadActive, Synced

(* A stage that derives its graph, or adopts one, has the graph of its base  *)
(* build's files.                                                            *)
LEMMA DeriveStep ==
  ASSUME GraphInv, NEW h \in Hosts,
         UNCHANGED <<leased, active, tree, graph, wrote, ids, lastGen, marker, stage, target,
                     generation>>,
         NEW l \in {"adopt", "rebind"}, gpc[h] \in {"plan", "adopt"}, To(h, l),
         seen' = seen \/ seen' = [seen EXCEPT ![h] = graph],
         NEW r, local' = [local EXCEPT ![h] = r],
         \/ l = "adopt" /\ r = local[h]
         \/ /\ r \in [usable : BOOLEAN, keys : AllTrees, recs : Recs]
            /\ r.keys = stage[h] /\ Fits(r.recs, r.keys)
  PROVE  GraphInv'
  <1> USE DEF GraphInv
  <1>1. /\ gpc' \in [Hosts -> GraphPhases] /\ gpc'[h] = l
        /\ \A k \in Hosts : k # h => gpc'[k] = gpc[k]
    BY DEF To, GraphTypeOK, GraphPhases
  <1>2. graph \in GraphRecord
    BY DEF GraphTypeOK, GraphRecord, GraphStates, Recs
  <1>3. /\ seen' \in [Hosts -> GraphRecord]
        /\ \A k \in Hosts : k # h => seen'[k] = seen[k]
        /\ seen'[h] = seen[h] \/ seen'[h] = graph
    BY <1>2 DEF HostTypes
  <1>4. /\ local' \in [Hosts -> [usable : BOOLEAN, keys : AllTrees, recs : Recs]]
        /\ \A k \in Hosts : k # h => local'[k] = local[k]
        /\ local'[h] = r /\ Fits(r.recs, r.keys)
        /\ l = "rebind" => r.keys = stage[h]
    BY DEF HostTypes, WorkTrue
  <1>5. GraphTypeOK' /\ HostTypes'
    BY <1>1, <1>3, <1>4 DEF GraphTypeOK, HostTypes
  <1>6. MarkerTrue'
    BY <1>1 DEF MarkerTrue
  <1>7. WorkTrue'
    <2>1. \A k \in Hosts : /\ Fits(local[k].recs, local[k].keys)'
                           /\ Fits(seen[k].recs, seen[k].keys)'
      BY <1>3, <1>4 DEF WorkTrue, GraphTrue, Fits
    <2>2. \A k \in Hosts : seen'[k].gen # 0 /\ seen'[k].gen = graph'.gen => seen'[k].recs = graph'.recs
      BY <1>3 DEF WorkTrue
    <2>3. \A k \in Hosts : /\ gpc'[k] \in Fenced => gpc[k] \in Fenced
                           /\ k # h /\ gpc'[k] \in HasGraph => gpc[k] \in HasGraph
                           /\ gpc'[k] = "repoint" => k # h /\ gpc[k] = "repoint"
                           /\ gpc'[h] \in HasGraph => l = "rebind"
      BY <1>1 DEF HasGraph, Fenced
    <2> QED BY <1>1, <1>3, <1>4, <2>1, <2>2, <2>3 DEF WorkTrue
  <1>8. GraphTrue'
    BY DEF GraphTrue, Fits
  <1>9. GensKnown'
    <2>1. \A k \in Hosts : gpc'[k] \in Owning => gpc[k] \in Owning
      BY <1>1 DEF Owning
    <2> QED BY <1>3, <2>1 DEF GensKnown
  <1>10. FreshEmpty'
    BY <1>1 DEF FreshEmpty, Owning
  <1>11. RecordsTrue'
    <2>1. \A k \in Hosts : gpc'[k] \in {"write", "promote"} => k # h /\ gpc[k] = gpc'[k]
      BY <1>1
    <2>2. ASSUME NEW g, NEW recs, OnlyRecords(g, recs) PROVE OnlyRecords(g, recs)'
      BY <2>2 DEF OnlyRecords
    <2>3. \A k \in Hosts : OnlyRecords(seen[k].gen, seen[k].recs)'
      BY <1>3, <2>2 DEF RecordsTrue
    <2>4. ASSUME NEW k \in Hosts, gpc'[k] \in {"write", "promote"}
          PROVE  OnlyRecords(generation[k], local[k].recs)'
      <3>1. OnlyRecords(generation[k], local[k].recs)
        BY <2>1, <2>4 DEF RecordsTrue
      <3> QED BY <1>4, <2>1, <2>2, <2>4, <3>1
    <2>5. ASSUME NEW k \in Hosts, gpc'[k] = "write", NEW f \in GraphFiles, NEW c \in Gens,
                 generation'[k] \in ids'[c][f]
          PROVE  CopiesForward(k, f)'
      <3>1. CopiesForward(k, f)
        BY <2>1, <2>5 DEF RecordsTrue
      <3> QED BY <1>3, <1>4, <2>1, <2>5, <3>1 DEF CopiesForward
    <2> QED BY <2>2, <2>3, <2>4, <2>5 DEF RecordsTrue
  <1> QED BY <1>5, <1>6, <1>7, <1>8, <1>9, <1>10, <1>11

(* Planning derives from the files of the base build, or takes a manifest;   *)
(* adoption takes the records found under the generation that was read.      *)
LEMMA PlanGraphStep ==
  ASSUME GraphInv, NEW h \in Hosts, PlanGraph(h) \/ Adopt(h)
  PROVE  GraphInv'
  <1> USE DEF At, serverVars, hostVars
  <1>1. /\ local \in [Hosts -> [usable : BOOLEAN, keys : AllTrees, recs : Recs]]
        /\ stage \in [Hosts -> AllTrees] /\ seen \in [Hosts -> GraphRecord]
        /\ \A k \in Hosts : Fits(local[k].recs, local[k].keys)
    BY DEF GraphInv, HostTypes, GraphTypeOK, WorkTrue
  <1>2. CASE PlanGraph(h) /\ To(h, "adopt") /\ UNCHANGED local
    <2>1. local' = [local EXCEPT ![h] = local[h]]
      BY <1>1, <1>2
    <2> QED BY <1>2, <2>1, DeriveStep DEF PlanGraph
  <1>3. CASE PlanGraph(h) /\ local' = [local EXCEPT ![h] = Derived(local[h], stage[h])]
             /\ To(h, "rebind")
    <2> DEFINE r == Derived(local[h], stage[h])
    <2>1. /\ r \in [usable : BOOLEAN, keys : AllTrees, recs : Recs]
          /\ r.keys = stage[h] /\ Fits(r.recs, r.keys)
          /\ local' = [local EXCEPT ![h] = r]
      BY <1>1, <1>3, DerivedFits
    <2> HIDE DEF r
    <2> QED BY <1>3, <2>1, DeriveStep DEF PlanGraph
  <1>4. CASE Adopt(h)
    <2>1. PICK recs \in Recs :
            /\ \A f \in GraphFiles :
                   IF Found(seen[h].gen, f) = {} THEN recs[f] = Gone
                   ELSE recs[f] \in Found(seen[h].gen, f)
            /\ local' = [local EXCEPT ![h] =
                   Derived([usable |-> TRUE, keys |-> seen[h].keys, recs |-> recs], stage[h])]
      BY <1>4 DEF Adopt, Recs
    <2>2. Fits(recs, seen[h].keys)
      <3> SUFFICES ASSUME NEW f \in GraphFiles, recs[f] # Gone
                   PROVE  seen[h].keys[f] \in Keys /\ recs[f] = RecordsOf[seen[h].keys[f]]
        BY DEF Fits
      <3>1. PICK c \in Gens : seen[h].gen \in ids[c][f] /\ recs[f] = wrote[c][f]
        BY <2>1 DEF Found
      <3>2. seen[h].recs[f] # Gone /\ wrote[c][f] = seen[h].recs[f]
        BY <3>1 DEF GraphInv, RecordsTrue, OnlyRecords
      <3> QED BY <3>1, <3>2 DEF GraphInv, WorkTrue, Fits
    <2> DEFINE adopted == [usable |-> TRUE, keys |-> seen[h].keys, recs |-> recs]
    <2>3. /\ adopted \in [usable : BOOLEAN, keys : AllTrees, recs : Recs]
          /\ Fits(adopted.recs, adopted.keys)
          /\ local' = [local EXCEPT ![h] = Derived(adopted, stage[h])]
      BY <1>1, <2>1, <2>2 DEF GraphRecord
    <2> DEFINE r == Derived(adopted, stage[h])
    <2> HIDE DEF adopted
    <2>4. /\ r \in [usable : BOOLEAN, keys : AllTrees, recs : Recs]
          /\ r.keys = stage[h] /\ Fits(r.recs, r.keys)
          /\ local' = [local EXCEPT ![h] = r]
      BY <1>1, <2>3, DerivedFits
    <2> HIDE DEF r
    <2> QED BY <1>4, <2>4, DeriveStep DEF Adopt
  <1> QED BY <1>2, <1>3, <1>4 DEF PlanGraph

-----------------------------------------------------------------------------
(* Publication of a generation.                                             *)

(* A stage that was not superseded may point the generation it read at its   *)
(* base build: its records are those of the build's files.                   *)
LEMMA PointStep ==
  ASSUME GraphInv, NEW h \in Hosts, gpc[h] \in {"rebind", "repoint"}, To(h, "done"),
         UNCHANGED <<leased, active, tree, wrote, ids, lastGen>>, UNCHANGED hostVars,
         active = target[h], NEW digest \in Bases,
         Fits(graph.recs, local[h].keys), graph.pending = 0,
         graph' = [graph EXCEPT !.state = "ready", !.base = target[h],
                                !.digest = digest, !.keys = local[h].keys]
  PROVE  GraphInv'
  <1> USE DEF GraphInv, hostVars
  <1>1. /\ gpc' \in [Hosts -> GraphPhases] /\ gpc'[h] = "done"
        /\ \A k \in Hosts : k # h => gpc'[k] = gpc[k]
    BY DEF To, GraphTypeOK, GraphPhases
  <1>2. graph \in GraphRecord /\ local[h].keys \in AllTrees /\ target[h] \in Bases
    BY DEF GraphTypeOK, GraphRecord, GraphStates, Recs, HostTypes
  <1>3. /\ graph' \in GraphRecord
        /\ graph'.gen = graph.gen /\ graph'.recs = graph.recs
        /\ graph'.retired = graph.retired /\ graph'.pending = graph.pending
        /\ graph'.base = target[h] /\ graph'.keys = local[h].keys
    BY <1>2 DEF GraphRecord, GraphStates
  <1>4. /\ target[h] \in 1 .. active /\ local[h].keys = tree[target[h]]
    BY DEF WorkTrue, Fenced, HasGraph
  <1>5. GraphTypeOK' /\ HostTypes'
    BY <1>1, <1>3 DEF GraphTypeOK, GraphRecord, GraphStates, Recs, HostTypes
  <1>6. MarkerTrue'
    BY <1>1 DEF MarkerTrue
  <1>7. WorkTrue'
    BY <1>1, <1>3 DEF WorkTrue, Fits, Fenced, HasGraph
  <1>8. GraphTrue'
    BY <1>3, <1>4, GraphAssumption DEF GraphTrue, Fits, GraphTypeOK, Bases
  <1>9. GensKnown'
    BY <1>1, <1>3 DEF GensKnown, Owning
  <1>10. FreshEmpty'
    BY <1>1 DEF FreshEmpty, Owning
  <1>11. RecordsTrue'
    BY <1>1, <1>3 DEF RecordsTrue, OnlyRecords, CopiesForward
  <1> QED BY <1>5, <1>6, <1>7, <1>8, <1>9, <1>10, <1>11

(* Rebinding a generation whose inputs are those of the new base, and        *)
(* repointing one that has the same records.                                 *)
LEMMA RebindStep ==
  ASSUME GraphInv, NEW h \in Hosts, Rebind(h) \/ Repoint(h)
  PROVE  GraphInv'
  <1> USE DEF At, GraphPhases, Fenced, HasGraph, Owning, SaysNoMore
  <1>1. /\ gpc[h] \in {"rebind", "repoint"} /\ leased' \in Hosts \cup {NoHost}
        /\ UNCHANGED <<leased, active, tree, wrote, ids, lastGen>> /\ UNCHANGED hostVars
    BY DEF Rebind, Repoint, GraphInv, GraphTypeOK
  <1>2. graph \in GraphRecord /\ target[h] \in Bases /\ local[h].keys \in AllTrees
    BY DEF GraphInv, GraphTypeOK, GraphRecord, GraphStates, Recs, HostTypes
  <1>3. CASE UNCHANGED graph
    <2>1. PICK l \in {"stale", "publish", "clean", "begin", "done"} :
             To(h, l) /\ (l \in {"clean", "begin"} => gpc[h] = "repoint")
      BY <1>3 DEF Rebind, Repoint, WriteFrom
    <2>2. SaysNoMore(gpc[h], l)
      BY <1>1, <2>1
    <2> HIDE DEF SaysNoMore
    <2> QED BY <1>1, <1>3, <2>1, <2>2, PhaseStep DEF serverVars
  <1>4. CASE /\ Rebind(h) /\ ~Superseded(h) /\ Unmoved(h) /\ graph.keys = local[h].keys
             /\ graph' = [graph EXCEPT !.state = "ready", !.base = target[h]] /\ To(h, "done")
    <2>1. graph' = [graph EXCEPT !.state = "ready", !.base = target[h],
                                 !.digest = graph.digest, !.keys = local[h].keys]
      BY <1>2, <1>4 DEF GraphRecord
    <2>2. Fits(graph.recs, local[h].keys) /\ graph.digest \in Bases
      BY <1>2, <1>4 DEF GraphInv, GraphTrue, GraphRecord
    <2>3. active = target[h] /\ graph.pending = 0
      BY <1>4 DEF Superseded, Unmoved
    <2> QED BY <1>1, <1>4, <2>1, <2>2, <2>3, PointStep
  <1>5. CASE /\ Repoint(h) /\ ~Superseded(h) /\ Unmoved(h) /\ To(h, "done")
             /\ graph' = [graph EXCEPT !.state = "ready", !.base = target[h],
                                       !.digest = target[h], !.keys = local[h].keys]
    <2>1. graph.recs = local[h].recs
      BY <1>5 DEF Repoint, Unmoved, GraphInv, WorkTrue
    <2>2. Fits(graph.recs, local[h].keys)
      BY <2>1 DEF GraphInv, WorkTrue
    <2>3. active = target[h] /\ graph.pending = 0
      BY <1>5 DEF Superseded, Unmoved
    <2> QED BY <1>1, <1>2, <1>5, <2>2, <2>3, PointStep
  <1> QED BY <1>3, <1>4, <1>5 DEF Rebind, Repoint

(* A new generation is one that nobody has used.                             *)
LEMMA PublishGraphStep ==
  ASSUME GraphInv, NEW h \in Hosts, PublishGraph(h)
  PROVE  GraphInv'
  <1> USE DEF GraphInv, At
  <1>1. /\ gpc[h] = "publish" /\ seen' = [seen EXCEPT ![h] = graph]
        /\ UNCHANGED <<leased, active, tree, graph, wrote, ids, marker, stage, local, target>>
    BY DEF PublishGraph
  <1>2. PICK l \in {"stale", "done", "repoint", "clean", "begin"} :
          /\ To(h, l)
          /\ IF l \in {"stale", "done"} THEN UNCHANGED <<generation, lastGen>>
             ELSE /\ lastGen < MaxGraph /\ lastGen' = lastGen + 1
                  /\ generation' = [generation EXCEPT ![h] = lastGen + 1]
          /\ l = "repoint" => SameRecords(h)
    BY DEF PublishGraph, WriteFrom
  <1>3. /\ gpc' \in [Hosts -> GraphPhases] /\ gpc'[h] = l
        /\ \A k \in Hosts : k # h => gpc'[k] = gpc[k]
    BY <1>2 DEF To, GraphTypeOK, GraphPhases
  <1>4. graph \in GraphRecord /\ lastGen \in Nat
    BY GraphAssumption DEF GraphTypeOK, GraphRecord, GraphStates, Recs, HostTypes
  <1>5. /\ seen' \in [Hosts -> GraphRecord] /\ seen'[h] = graph
        /\ \A k \in Hosts : k # h => seen'[k] = seen[k]
    BY <1>1, <1>4 DEF HostTypes
  <1>6. /\ generation' \in [Hosts -> 0 .. MaxGraph] /\ lastGen' \in 0 .. MaxGraph
        /\ lastGen <= lastGen'
        /\ \A k \in Hosts : k # h => generation'[k] = generation[k]
        /\ \/ l \in {"stale", "done"} /\ generation'[h] = generation[h] /\ lastGen' = lastGen
           \/ generation'[h] = lastGen + 1 /\ lastGen' = lastGen + 1
    BY <1>2, <1>4, GraphAssumption DEF HostTypes
  <1>7. GraphTypeOK' /\ HostTypes'
    BY <1>1, <1>3, <1>5, <1>6 DEF GraphTypeOK, HostTypes
  <1>8. MarkerTrue'
    BY <1>1, <1>2, <1>3 DEF MarkerTrue
  <1>9. WorkTrue'
    <2>1. \A k \in Hosts : Fits(local[k].recs, local[k].keys)' /\ Fits(seen[k].recs, seen[k].keys)'
      BY <1>1, <1>5 DEF WorkTrue, GraphTrue, Fits
    <2>2. \A k \in Hosts : seen'[k].gen # 0 /\ seen'[k].gen = graph'.gen => seen'[k].recs = graph'.recs
      BY <1>1, <1>5 DEF WorkTrue
    <2>3. \A k \in Hosts : /\ gpc'[k] \in Fenced => gpc[k] \in Fenced
                           /\ gpc'[k] \in HasGraph => gpc[k] \in HasGraph
                           /\ gpc'[k] = "repoint" => IF k = h THEN SameRecords(h) ELSE gpc[k] = "repoint"
      BY <1>1, <1>2, <1>3 DEF HasGraph, Fenced
    <2> QED BY <1>1, <1>3, <1>5, <2>1, <2>2, <2>3 DEF WorkTrue, SameRecords
  <1>10. GraphTrue'
    BY <1>1 DEF GraphTrue, Fits
  <1>11. GensKnown'
    <2>1. /\ graph.gen \in Nat /\ graph.retired \subseteq Nat
          /\ \A k \in Hosts : generation[k] \in Nat /\ seen[k].gen \in Nat
      BY <1>4, GraphAssumption DEF GraphRecord, Gens, HostTypes
    <2>2. \A k \in Hosts : gpc'[k] \in Owning => IF k = h THEN generation'[h] = lastGen + 1
                                                 ELSE gpc[k] \in Owning
      BY <1>3, <1>6 DEF Owning
    <2>3. /\ graph.gen <= lastGen' /\ \A g \in graph.retired : g <= lastGen'
          /\ \A k \in Hosts : seen'[k].gen <= lastGen' /\ generation'[k] <= lastGen'
      BY <1>4, <1>5, <1>6, <2>1 DEF GensKnown
    <2>4. \A i, k \in Hosts : i # k /\ generation'[i] = generation'[k] => generation'[i] = 0
      BY <1>4, <1>6, <2>1 DEF GensKnown
    <2>5. ASSUME NEW i \in Hosts, gpc'[i] \in Owning
          PROVE  /\ generation'[i] # 0
                 /\ generation'[i] # graph.gen /\ generation'[i] \notin graph.retired
                 /\ \A k \in Hosts : generation'[i] # seen'[k].gen
      BY <1>4, <1>5, <1>6, <2>1, <2>2, <2>5 DEF GensKnown
    <2> QED BY <1>1, <2>3, <2>4, <2>5 DEF GensKnown
  <1>12. FreshEmpty'
    <2>1. \A k \in Hosts : gpc'[k] \in Owning => IF k = h THEN generation'[h] = lastGen + 1
                                                 ELSE gpc[k] = gpc'[k]
      BY <1>3, <1>6 DEF Owning
    <2>2. lastGen + 1 > lastGen /\ (lastGen' = lastGen \/ lastGen + 1 \in Gens)
      BY <1>4, <1>6 DEF Gens
    <2>3. \A g \in Gens : g > lastGen' => g > lastGen
      BY <1>4, <1>6 DEF Gens
    <2>4. gpc'[h] \in Owning => lastGen + 1 \in Gens
      BY <1>2, <1>3, <1>4, GraphAssumption DEF Owning, Gens
    <2>5. \A g \in Gens, f \in GraphFiles : g > lastGen' =>
              ids[g][f] = {} /\ \A c \in Gens : g \notin ids[c][f]
      BY <2>3 DEF FreshEmpty
    <2>6. ASSUME NEW k \in Hosts, gpc'[k] \in Owning \ {"promote"}, NEW f \in GraphFiles
          PROVE  ids[generation'[k]][f] = {}
      <3>1. CASE k = h
        BY <2>1, <2>2, <2>4, <2>6, <3>1 DEF FreshEmpty
      <3>2. CASE k # h
        BY <1>6, <2>1, <2>6, <3>2 DEF FreshEmpty
      <3> QED BY <3>1, <3>2
    <2>7. ASSUME NEW k \in Hosts, gpc'[k] \in Owning \ {"write", "promote"},
                 NEW c \in Gens, NEW f \in GraphFiles
          PROVE  generation'[k] \notin ids[c][f]
      <3>1. CASE k = h
        BY <2>1, <2>2, <2>4, <2>7, <3>1 DEF FreshEmpty
      <3>2. CASE k # h
        BY <1>6, <2>1, <2>7, <3>2 DEF FreshEmpty
      <3> QED BY <3>1, <3>2
    <2> QED BY <1>1, <2>5, <2>6, <2>7 DEF FreshEmpty
  <1>13. RecordsTrue'
    <2>1. \A k \in Hosts : gpc'[k] \in {"write", "promote"} => k # h /\ gpc[k] = gpc'[k]
      BY <1>2, <1>3
    <2>2. ASSUME NEW g, NEW recs, OnlyRecords(g, recs) PROVE OnlyRecords(g, recs)'
      BY <1>1, <2>2 DEF OnlyRecords
    <2>3. \A k \in Hosts : OnlyRecords(seen[k].gen, seen[k].recs)'
      BY <1>5, <2>2 DEF RecordsTrue
    <2>4. ASSUME NEW k \in Hosts, gpc'[k] \in {"write", "promote"}
          PROVE  OnlyRecords(generation[k], local[k].recs)'
      <3>1. OnlyRecords(generation[k], local[k].recs)
        BY <2>1, <2>4 DEF RecordsTrue
      <3> QED BY <1>1, <1>6, <2>1, <2>2, <2>4, <3>1
    <2>5. ASSUME NEW k \in Hosts, gpc'[k] = "write", NEW f \in GraphFiles, NEW c \in Gens,
                 generation'[k] \in ids'[c][f]
          PROVE  CopiesForward(k, f)'
      <3>1. CopiesForward(k, f)
        BY <1>1, <1>6, <2>1, <2>5 DEF RecordsTrue
      <3> QED BY <1>1, <1>5, <2>1, <2>5, <3>1 DEF CopiesForward
    <2> QED BY <1>1, <2>2, <2>3, <2>4, <2>5 DEF RecordsTrue
  <1> QED BY <1>7, <1>8, <1>9, <1>10, <1>11, <1>12, <1>13

(* The generation becomes the pending one.                                   *)
LEMMA BeginGraphStep ==
  ASSUME GraphInv, NEW h \in Hosts, BeginGraph(h)
  PROVE  GraphInv'
  <1> USE DEF GraphInv, At, hostVars
  <1>1. /\ gpc[h] = "begin" /\ leased' \in Hosts \cup {NoHost}
        /\ UNCHANGED <<leased, active, tree, wrote, ids, lastGen>> /\ UNCHANGED hostVars
    BY DEF BeginGraph, GraphTypeOK
  <1>2. CASE To(h, "stale") /\ UNCHANGED graph
    <2>1. SaysNoMore(gpc[h], "stale")
      BY <1>1 DEF SaysNoMore, GraphPhases, Fenced, HasGraph, Owning
    <2> QED BY <1>1, <1>2, <2>1, PhaseStep DEF serverVars
  <1>3. CASE /\ graph' = [graph EXCEPT !.state = "building", !.pending = generation[h]]
             /\ To(h, "copy")
    <2>1. /\ gpc' \in [Hosts -> GraphPhases] /\ gpc'[h] = "copy"
          /\ \A k \in Hosts : k # h => gpc'[k] = gpc[k]
      BY <1>3 DEF To, GraphTypeOK, GraphPhases
    <2>2. graph \in GraphRecord /\ generation[h] \in 0 .. MaxGraph
      BY DEF GraphTypeOK, GraphRecord, GraphStates, Recs, HostTypes
    <2>3. /\ graph' \in GraphRecord
          /\ graph'.gen = graph.gen /\ graph'.recs = graph.recs /\ graph'.base = graph.base
          /\ graph'.retired = graph.retired /\ graph'.keys = graph.keys
          /\ graph'.pending = generation[h]
      BY <1>3, <2>2 DEF GraphRecord, GraphStates
    <2>4. generation[h] \notin graph.retired \cup {graph.gen}
      BY <1>1 DEF GensKnown, Owning
    <2>5. GraphTypeOK' /\ HostTypes'
      BY <1>1, <2>1, <2>3, <2>4 DEF GraphTypeOK, GraphRecord, GraphStates, Recs, HostTypes
    <2>6. MarkerTrue'
      BY <1>1, <2>1 DEF MarkerTrue
    <2>7. WorkTrue' /\ GraphTrue'
      BY <1>1, <2>1, <2>3 DEF WorkTrue, GraphTrue, Fits, Fenced, HasGraph
    <2>8. GensKnown'
      BY <1>1, <2>1, <2>3 DEF GensKnown, Owning
    <2>9. FreshEmpty'
      BY <1>1, <2>1 DEF FreshEmpty, Owning
    <2>10. RecordsTrue'
      BY <1>1, <2>1, <2>3 DEF RecordsTrue, OnlyRecords, CopiesForward
    <2> QED BY <2>5, <2>6, <2>7, <2>8, <2>9, <2>10
  <1> QED BY <1>2, <1>3 DEF BeginGraph

(* The parts of the invariant that a step on the records alone keeps.        *)
LEMMA WritingStep ==
  ASSUME GraphInv, NEW h \in Hosts, NEW l \in {"write", "promote"},
         gpc[h] \in {"copy", "write"}, l = "promote" => gpc[h] = "write", To(h, l),
         UNCHANGED <<leased, active, tree, graph, lastGen>>, UNCHANGED hostVars,
         ids' \in [Gens -> [GraphFiles -> SUBSET Gens]], wrote' \in [Gens -> Recs]
  PROVE  /\ GraphTypeOK' /\ HostTypes' /\ MarkerTrue' /\ WorkTrue' /\ GraphTrue'
         /\ GensKnown'
         /\ gpc'[h] = l /\ \A k \in Hosts : k # h => gpc'[k] = gpc[k]
         /\ \A k \in Hosts : gpc[k] \in Owning => generation[k] \in Gens
  <1> USE DEF GraphInv, hostVars
  <1>1. /\ gpc' \in [Hosts -> GraphPhases] /\ gpc'[h] = l
        /\ \A k \in Hosts : k # h => gpc'[k] = gpc[k]
    BY DEF To, GraphTypeOK, GraphPhases
  <1>2. GraphTypeOK' /\ HostTypes'
    BY <1>1 DEF GraphTypeOK, HostTypes
  <1>3. MarkerTrue'
    BY <1>1 DEF MarkerTrue
  <1>4. WorkTrue' /\ GraphTrue'
    BY <1>1 DEF WorkTrue, GraphTrue, Fits, Fenced, HasGraph
  <1>5. GensKnown'
    BY <1>1 DEF GensKnown, Owning
  <1>6. \A k \in Hosts : gpc[k] \in Owning => generation[k] \in Gens
    BY GraphAssumption DEF HostTypes, GensKnown, Gens
  <1> QED BY <1>1, <1>2, <1>3, <1>4, <1>5, <1>6

(* Copying adds the new generation to the records of the one that was read,  *)
(* for the files whose records stay the same.                                *)
LEMMA CopyGraphStep ==
  ASSUME GraphInv, NEW h \in Hosts, CopyGraph(h)
  PROVE  GraphInv'
  <1> USE DEF GraphInv
  <1> DEFINE from == seen[h].gen
             to   == generation[h]
  <1>1. /\ gpc[h] = "copy" /\ To(h, "write")
        /\ UNCHANGED <<leased, active, tree, graph, lastGen>> /\ UNCHANGED hostVars
        /\ UNCHANGED wrote
    BY DEF CopyGraph, At
  <1>2. to \in Gens /\ to # from
    BY <1>1, GraphAssumption DEF HostTypes, GensKnown, Gens, Owning
  <1>3. /\ ids' \in [Gens -> [GraphFiles -> SUBSET Gens]]
        /\ \A c \in Gens, f \in GraphFiles : ids'[c][f] \subseteq ids[c][f] \cup {to}
        /\ \A c \in Gens, f \in GraphFiles :
              to \in ids'[c][f] => to \in ids[c][f] \/ (from \in ids[c][f] /\ CopiesForward(h, f))
        /\ \A c \in Gens, f \in GraphFiles : ids[c][f] = {} => ids'[c][f] = {}
    BY <1>2 DEF CopyGraph, Attach, GraphTypeOK
  <1>4. \A c \in Gens, f \in GraphFiles : to \notin ids[c][f]
    BY <1>1 DEF FreshEmpty, Owning
  <1>5. /\ GraphTypeOK' /\ HostTypes' /\ MarkerTrue' /\ WorkTrue' /\ GraphTrue' /\ GensKnown'
        /\ gpc'[h] = "write" /\ \A k \in Hosts : k # h => gpc'[k] = gpc[k]
        /\ \A k \in Hosts : gpc[k] \in Owning => generation[k] \in Gens
    <2>1. wrote' \in [Gens -> Recs]
      BY <1>1 DEF HostTypes
    <2> QED BY <1>1, <1>3, <2>1, WritingStep
  <1>6. /\ to <= lastGen /\ lastGen \in Nat
        /\ \A k \in Hosts : k # h /\ gpc[k] \in Owning => generation[k] # to
    BY <1>1, <1>2, GraphAssumption DEF GensKnown, Gens, HostTypes, Owning
  <1>7. FreshEmpty'
    <2>1. ASSUME NEW g \in Gens, NEW f \in GraphFiles, g > lastGen
          PROVE  ids'[g][f] = {} /\ \A c \in Gens : g \notin ids'[c][f]
      <3>1. g # to
        BY <1>2, <1>6, <2>1 DEF Gens
      <3> QED BY <1>3, <2>1, <3>1 DEF FreshEmpty
    <2>2. ASSUME NEW k \in Hosts, gpc'[k] \in Owning \ {"promote"}, NEW f \in GraphFiles
          PROVE  ids'[generation[k]][f] = {}
      <3>1. gpc[k] \in Owning \ {"promote"}
        BY <1>1, <1>5, <2>2 DEF Owning
      <3> QED BY <1>3, <1>5, <3>1 DEF FreshEmpty
    <2>3. ASSUME NEW k \in Hosts, gpc'[k] \in Owning \ {"write", "promote"},
                 NEW c \in Gens, NEW f \in GraphFiles
          PROVE  generation[k] \notin ids'[c][f]
      <3>1. k # h /\ gpc[k] \in Owning \ {"write", "promote"}
        BY <1>5, <2>3 DEF Owning
      <3>2. generation[k] \notin ids[c][f] /\ generation[k] # to
        BY <1>6, <3>1 DEF FreshEmpty
      <3> QED BY <1>3, <3>2
    <2> QED BY <1>1, <2>1, <2>2, <2>3 DEF FreshEmpty, hostVars
  <1>8. ASSUME NEW g, g # to, NEW recs, OnlyRecords(g, recs) PROVE OnlyRecords(g, recs)'
    BY <1>1, <1>3, <1>8 DEF OnlyRecords
  <1>9. OnlyRecords(to, local[h].recs)'
    <2> SUFFICES ASSUME NEW f \in GraphFiles, NEW c \in Gens, to \in ids'[c][f]
                 PROVE  /\ local[h].recs[f] # Gone /\ wrote[c][f] = local[h].recs[f]
                        /\ \A d \in Gens : to \in ids'[d][f] => d = c
      BY <1>1 DEF OnlyRecords, hostVars
    <2>1. from \in ids[c][f] /\ CopiesForward(h, f)
      BY <1>3, <1>4
    <2>2. OnlyRecords(from, seen[h].recs)
      BY DEF RecordsTrue
    <2>3. \A d \in Gens : to \in ids'[d][f] => from \in ids[d][f]
      BY <1>3, <1>4
    <2> HIDE DEF from
    <2> QED BY <2>1, <2>2, <2>3 DEF OnlyRecords, CopiesForward
  <1>10. RecordsTrue'
    <2>1. \A k \in Hosts : seen[k].gen # to /\ graph.gen # to
      BY <1>1 DEF GensKnown, Owning
    <2>2. OnlyRecords(graph.gen, graph.recs)' /\ \A k \in Hosts : OnlyRecords(seen[k].gen, seen[k].recs)'
      BY <1>1, <1>8, <2>1 DEF RecordsTrue, hostVars
    <2>3. ASSUME NEW k \in Hosts, gpc'[k] \in {"write", "promote"}
          PROVE  OnlyRecords(generation[k], local[k].recs)'
      <3>1. CASE k = h
        BY <1>9, <3>1
      <3>2. CASE k # h
        <4>1. OnlyRecords(generation[k], local[k].recs) /\ generation[k] # to
          BY <1>5, <1>6, <2>3, <3>2 DEF RecordsTrue, Owning
        <4> HIDE DEF to
        <4> QED BY <1>1, <1>8, <4>1 DEF hostVars
      <3> QED BY <3>1, <3>2
    <2>4. ASSUME NEW k \in Hosts, gpc'[k] = "write", NEW f \in GraphFiles, NEW c \in Gens,
                 generation[k] \in ids'[c][f]
          PROVE  CopiesForward(k, f)
      <3>1. CASE k = h
        BY <1>3, <1>4, <2>4, <3>1
      <3>2. CASE k # h
        <4>1. generation[k] # to /\ gpc[k] = "write"
          BY <1>5, <1>6, <2>4, <3>2 DEF Owning
        <4> QED BY <1>3, <2>4, <4>1 DEF RecordsTrue
      <3> QED BY <3>1, <3>2
    <2>5. \A k \in Hosts, f \in GraphFiles : CopiesForward(k, f) => CopiesForward(k, f)'
      BY <1>1 DEF CopiesForward, hostVars
    <2>6. UNCHANGED generation
      BY <1>1 DEF hostVars
    <2> QED BY <2>2, <2>3, <2>4, <2>5, <2>6 DEF RecordsTrue
  <1> QED BY <1>5, <1>7, <1>10

(* Writing adds a record for each file that was not copied.                  *)
LEMMA WriteGraphStep ==
  ASSUME GraphInv, NEW h \in Hosts, WriteGraph(h)
  PROVE  GraphInv'
  <1> USE DEF GraphInv
  <1> DEFINE g     == generation[h]
             files == {f \in Present(local[h].recs) : ~CopiesForward(h, f)}
  <1>1. /\ gpc[h] = "write" /\ To(h, "promote")
        /\ UNCHANGED <<leased, active, tree, graph, lastGen>> /\ UNCHANGED hostVars
        /\ wrote' = [wrote EXCEPT ![g] = [f \in GraphFiles |->
                        IF f \in files THEN local[h].recs[f] ELSE Gone]]
        /\ ids' = [ids EXCEPT ![g] = [f \in GraphFiles |-> IF f \in files THEN {g} ELSE @[f]]]
    BY DEF WriteGraph, At
  <1>2. /\ g \in Gens /\ g <= lastGen /\ lastGen \in Nat
        /\ \A k \in Hosts : k # h /\ gpc[k] \in Owning => generation[k] # g
    BY <1>1, GraphAssumption DEF HostTypes, GensKnown, Gens, Owning
  <1>3. \A f \in GraphFiles : ids[g][f] = {}
    BY <1>1 DEF FreshEmpty, Owning
  <1>4. local[h].recs \in Recs
    BY DEF HostTypes
  <1> HIDE DEF g
  <1>5. /\ ids' \in [Gens -> [GraphFiles -> SUBSET Gens]] /\ wrote' \in [Gens -> Recs]
        /\ \A c \in Gens : c # g => ids'[c] = ids[c] /\ wrote'[c] = wrote[c]
        /\ \A f \in GraphFiles : f \in files =>
              ids'[g][f] = {g} /\ wrote'[g][f] = local[h].recs[f]
        /\ \A f \in GraphFiles : f \notin files => ids'[g][f] = {}
    BY <1>1, <1>2, <1>3, <1>4 DEF GraphTypeOK, HostTypes, Recs
  <1>6. \A f \in GraphFiles : f \in files <=> local[h].recs[f] # Gone /\ ~CopiesForward(h, f)
    BY DEF Present
  <1> HIDE DEF files
  <1>7. /\ GraphTypeOK' /\ HostTypes' /\ MarkerTrue' /\ WorkTrue' /\ GraphTrue' /\ GensKnown'
        /\ gpc'[h] = "promote" /\ \A k \in Hosts : k # h => gpc'[k] = gpc[k]
        /\ \A k \in Hosts : gpc[k] \in Owning => generation[k] \in Gens
    BY <1>1, <1>5, WritingStep
  <1>8. FreshEmpty'
    <2>1. ASSUME NEW n \in Gens, NEW f \in GraphFiles, n > lastGen
          PROVE  ids'[n][f] = {} /\ \A c \in Gens : n \notin ids'[c][f]
      <3>1. n # g
        BY <1>2, <2>1 DEF Gens
      <3>2. ids[n][f] = {} /\ \A c \in Gens : n \notin ids[c][f]
        BY <2>1 DEF FreshEmpty
      <3> QED BY <1>5, <3>1, <3>2
    <2>2. ASSUME NEW k \in Hosts, gpc'[k] \in Owning \ {"promote"}, NEW f \in GraphFiles
          PROVE  ids'[generation[k]][f] = {}
      <3>1. k # h /\ gpc[k] \in Owning \ {"promote"}
        BY <1>7, <2>2 DEF Owning
      <3>2. generation[k] # g /\ generation[k] \in Gens /\ ids[generation[k]][f] = {}
        BY <1>2, <1>7, <3>1 DEF FreshEmpty
      <3> QED BY <1>5, <3>2
    <2>3. ASSUME NEW k \in Hosts, gpc'[k] \in Owning \ {"write", "promote"},
                 NEW c \in Gens, NEW f \in GraphFiles
          PROVE  generation[k] \notin ids'[c][f]
      <3>1. k # h /\ gpc[k] \in Owning \ {"write", "promote"}
        BY <1>7, <2>3 DEF Owning
      <3>2. generation[k] \notin ids[c][f] /\ generation[k] # g
        BY <1>2, <3>1 DEF FreshEmpty
      <3> QED BY <1>5, <3>2
    <2> QED BY <1>1, <2>1, <2>2, <2>3 DEF FreshEmpty, hostVars
  <1>9. ASSUME NEW n, n # g, NEW recs, OnlyRecords(n, recs) PROVE OnlyRecords(n, recs)'
    <2> SUFFICES ASSUME NEW f \in GraphFiles, NEW c \in Gens, n \in ids'[c][f]
                 PROVE  /\ recs[f] # Gone /\ wrote'[c][f] = recs[f]
                        /\ \A d \in Gens : n \in ids'[d][f] => d = c
      BY DEF OnlyRecords
    <2>1. \A d \in Gens : n \in ids'[d][f] => d # g /\ n \in ids[d][f]
      BY <1>5, <1>9
    <2> QED BY <1>5, <1>9, <2>1 DEF OnlyRecords
  <1>10. OnlyRecords(g, local[h].recs)'
    <2> SUFFICES ASSUME NEW f \in GraphFiles, NEW c \in Gens, g \in ids'[c][f]
                 PROVE  /\ local[h].recs[f] # Gone /\ wrote'[c][f] = local[h].recs[f]
                        /\ \A d \in Gens : g \in ids'[d][f] => d = c
      <3>1. g' = g /\ local' = local
        BY <1>1 DEF g, hostVars
      <3> QED BY <3>1 DEF OnlyRecords
    <2>1. /\ OnlyRecords(g, local[h].recs)
          /\ \A d \in Gens : g \in ids[d][f] => CopiesForward(h, f)
      BY <1>1 DEF RecordsTrue, g
    <2>4. g \in Gens
      BY <1>2
    <2>2. CASE f \in files
      <3>1. \A d \in Gens : g \in ids'[d][f] => d = g
        BY <1>5, <1>6, <2>1, <2>2
      <3> QED BY <1>5, <1>6, <2>2, <3>1
    <2>3. CASE f \notin files
      <3>1. \A d \in Gens : g \in ids'[d][f] => d # g /\ g \in ids[d][f]
        BY <1>5, <2>3
      <3> QED BY <1>5, <2>1, <3>1 DEF OnlyRecords
    <2> QED BY <2>2, <2>3
  <1>11. RecordsTrue'
    <2>1. \A k \in Hosts : seen[k].gen # g /\ graph.gen # g
      BY <1>1 DEF GensKnown, Owning, g
    <2>2. OnlyRecords(graph.gen, graph.recs)' /\ \A k \in Hosts : OnlyRecords(seen[k].gen, seen[k].recs)'
      BY <1>1, <1>9, <2>1 DEF RecordsTrue, hostVars
    <2>3. ASSUME NEW k \in Hosts, gpc'[k] \in {"write", "promote"}
          PROVE  OnlyRecords(generation[k], local[k].recs)'
      <3>1. CASE k = h
        BY <1>1, <1>10, <3>1 DEF g, hostVars
      <3>2. CASE k # h
        <4>1. OnlyRecords(generation[k], local[k].recs) /\ generation[k] # g
          BY <1>2, <1>7, <2>3, <3>2 DEF RecordsTrue, Owning
        <4> QED BY <1>1, <1>9, <4>1 DEF hostVars
      <3> QED BY <3>1, <3>2
    <2>4. ASSUME NEW k \in Hosts, gpc'[k] = "write", NEW f \in GraphFiles, NEW c \in Gens,
                 generation[k] \in ids'[c][f]
          PROVE  CopiesForward(k, f)
      <3>1. k # h /\ generation[k] # g /\ gpc[k] = "write"
        BY <1>2, <1>7, <2>4 DEF Owning
      <3>2. generation[k] \in ids[c][f]
        BY <1>5, <2>4, <3>1
      <3> QED BY <3>1, <3>2 DEF RecordsTrue
    <2>5. \A k \in Hosts, f \in GraphFiles : CopiesForward(k, f) => CopiesForward(k, f)'
      BY <1>1 DEF CopiesForward, hostVars
    <2>6. UNCHANGED generation
      BY <1>1 DEF hostVars
    <2> QED BY <2>2, <2>3, <2>4, <2>5, <2>6 DEF RecordsTrue
  <1> QED BY <1>7, <1>8, <1>11

(* The swap makes a generation current whose records are those of the active *)
(* build's files.                                                            *)
LEMMA PromoteStep ==
  ASSUME GraphInv, NEW h \in Hosts, Promote(h)
  PROVE  GraphInv'
  <1> USE DEF GraphInv, At, hostVars
  <1>1. /\ gpc[h] = "promote" /\ leased' \in Hosts \cup {NoHost}
        /\ UNCHANGED <<leased, active, tree, wrote, ids, lastGen>> /\ UNCHANGED hostVars
    BY DEF Promote, GraphTypeOK
  <1>2. CASE To(h, "undo") /\ UNCHANGED graph
    <2>1. SaysNoMore(gpc[h], "undo")
      BY <1>1 DEF SaysNoMore, GraphPhases, Fenced, HasGraph, Owning
    <2> QED BY <1>1, <1>2, <2>1, PhaseStep DEF serverVars
  <1>3. ASSUME NEW keep \in SUBSET (graph.retired \cup ({graph.gen} \ {0})),
               NEW l \in {"drop", "undo"}, To(h, l), graph' = Promoted(h, keep),
               active = target[h], graph.pending = generation[h]
        PROVE  GraphInv'
    <2>1. /\ gpc' \in [Hosts -> GraphPhases] /\ gpc'[h] = l
          /\ \A k \in Hosts : k # h => gpc'[k] = gpc[k]
      BY <1>3 DEF To, GraphTypeOK, GraphPhases
    <2>2. /\ graph \in GraphRecord /\ generation[h] \in 0 .. MaxGraph /\ target[h] \in Bases
          /\ local[h].keys \in AllTrees /\ local[h].recs \in Recs /\ MaxGraph \in Nat
      BY GraphAssumption DEF GraphTypeOK, GraphRecord, GraphStates, Recs, HostTypes
    <2>3. keep \in SUBSET Gens
      BY <2>2 DEF GraphRecord, Gens
    <2>4. /\ graph' \in GraphRecord /\ graph'.gen = generation[h]
          /\ graph'.base = target[h] /\ graph'.keys = local[h].keys
          /\ graph'.recs = local[h].recs /\ graph'.pending = 0 /\ graph'.retired = keep
      BY <1>3, <2>2, <2>3 DEF GraphRecord, GraphStates, Promoted
    <2>5. /\ generation[h] # 0 /\ generation[h] # graph.gen
          /\ generation[h] \notin graph.retired
          /\ \A k \in Hosts : generation[h] # seen[k].gen
      BY <1>1 DEF GensKnown, Owning
    <2>6. GraphTypeOK' /\ HostTypes'
      BY <1>1, <2>1, <2>4, <2>5 DEF GraphTypeOK, GraphRecord, GraphStates, Recs, HostTypes
    <2>7. MarkerTrue'
      BY <1>1, <1>3, <2>1 DEF MarkerTrue
    <2>8. target[h] \in 1 .. active /\ local[h].keys = tree[target[h]]
          /\ Fits(local[h].recs, local[h].keys)
      BY <1>1 DEF WorkTrue, Fenced, HasGraph
    <2>9. WorkTrue'
      <3>1. \A k \in Hosts : gpc'[k] \in Fenced => k # h /\ gpc'[k] = gpc[k]
        BY <1>3, <2>1 DEF Fenced
      <3> QED BY <1>1, <2>4, <2>5, <3>1 DEF WorkTrue, Fits, Fenced, HasGraph
    <2>10. GraphTrue'
      BY <1>1, <2>4, <2>8, GraphAssumption DEF GraphTrue, Fits, GraphTypeOK, Bases
    <2>11. \A k \in Hosts : gpc'[k] \in Owning => k # h /\ gpc'[k] = gpc[k]
      BY <1>3, <2>1 DEF Owning
    <2>12. GensKnown'
      <3>1. generation[h] <= lastGen /\ \A n \in keep : n <= lastGen
        BY <1>3 DEF GensKnown
      <3>2. \A k \in Hosts : gpc'[k] \in Owning => generation[k] # generation[h]
        BY <2>5, <2>11 DEF GensKnown
      <3>3. \A k \in Hosts : gpc'[k] \in Owning => generation[k] \notin keep
        BY <1>3, <2>11 DEF GensKnown
      <3> QED BY <1>1, <2>4, <2>11, <3>1, <3>2, <3>3 DEF GensKnown
    <2>13. FreshEmpty'
      BY <1>1, <2>11 DEF FreshEmpty
    <2>14. RecordsTrue'
      <3>1. ASSUME NEW g, NEW recs, OnlyRecords(g, recs) PROVE OnlyRecords(g, recs)'
        BY <1>1, <3>1 DEF OnlyRecords
      <3>2. OnlyRecords(generation[h], local[h].recs)
        BY <1>1 DEF RecordsTrue
      <3>3. OnlyRecords(graph.gen, graph.recs)'
        BY <2>4, <3>1, <3>2
      <3>4. \A k \in Hosts : gpc'[k] \in {"write", "promote"} => gpc[k] = gpc'[k]
        BY <2>11 DEF Owning
      <3>5. \A k \in Hosts, f \in GraphFiles : CopiesForward(k, f) => CopiesForward(k, f)'
        BY <1>1 DEF CopiesForward
      <3> QED BY <1>1, <3>1, <3>3, <3>4, <3>5 DEF RecordsTrue
    <2> QED BY <2>6, <2>7, <2>9, <2>10, <2>12, <2>13, <2>14
  <1> QED BY <1>2, <1>3 DEF Promote, Superseded

-----------------------------------------------------------------------------
(* The theorems.                                                            *)

(* Every step of the base passes, the graph stages and the faults.           *)
LEMMA GraphStepKeeps ==
  ASSUME StagingFails = FALSE, GraphInv, [GraphNext]_graphVars
  PROVE  GraphInv'
  <1>1. CASE UNCHANGED graphVars
    <2>1. GraphTypeOK' /\ HostTypes'
      BY <1>1 DEF graphVars, GraphInv, GraphTypeOK, HostTypes
    <2>2. MarkerTrue' /\ WorkTrue' /\ GraphTrue' /\ GensKnown'
      BY <1>1 DEF graphVars, GraphInv, MarkerTrue, WorkTrue, Fits, GraphTrue, GensKnown
    <2>3. FreshEmpty'
      BY <1>1 DEF graphVars, GraphInv, FreshEmpty
    <2>4. RecordsTrue'
      BY <1>1 DEF graphVars, GraphInv, RecordsTrue, OnlyRecords, CopiesForward
    <2> QED BY <2>1, <2>2, <2>3, <2>4 DEF GraphInv
  <1>2. ASSUME NEW h \in Hosts, BaseStep(h) PROVE GraphInv'
    BY <1>2, StageStep, PublishBaseStep, CollectBaseStep DEF BaseStep, BaseFails
  <1>3. ASSUME NEW h \in Hosts, GraphStep(h) PROVE GraphInv'
    BY <1>3, EndingSteps, ReadActiveStep, PlanGraphStep, RebindStep, PublishGraphStep,
       BeginGraphStep, CopyGraphStep, WriteGraphStep, PromoteStep, EndStep DEF GraphStep
  <1>4. ASSUME NEW h \in Hosts, HostDies(h) PROVE GraphInv'
    BY <1>4, EndStep
  <1> QED BY <1>1, <1>2, <1>3, <1>4, LoseLeaseStep DEF GraphNext

(* Every reachable state satisfies the inductive invariant, as long as no    *)
(* pass fails between a change of its staging store and the publication.     *)
THEOREM GraphInvariant == ASSUME StagingFails = FALSE PROVE GraphSpec => []GraphInv
  <1>1. GraphInit => GraphInv
    BY InitGraphInv
  <1>2. GraphInv /\ [GraphNext]_graphVars => GraphInv'
    BY GraphStepKeeps
  <1> QED BY <1>1, <1>2, PTL DEF GraphSpec

(* GraphTypeOK: the record and the hosts have their types, and the          *)
(* generation that is served, the one that is written and those that are     *)
(* retired are different ones (graph.rs, promote_graph).         *)
THEOREM GraphIsTyped == ASSUME StagingFails = FALSE PROVE GraphSpec => []GraphTypeOK
  <1>1. GraphInv => GraphTypeOK
    BY DEF GraphInv
  <1> QED BY <1>1, GraphInvariant, PTL

(* A graph that is served as current was derived from the files of the       *)
(* active base build, and nothing else is found under it (graph.rs, rebind,  *)
(* repoint, copies_forward, write_graph).                                    *)
THEOREM ServedGraphIsRight == ASSUME StagingFails = FALSE PROVE GraphSpec => []ServedGraphRight
  <1>1. ASSUME GraphInv PROVE ServedGraphRight
    <2> SUFFICES ASSUME Visible(graph, active)
                 PROVE  CurrentIsOfBase /\ NothingWrongServed
      BY DEF ServedGraphRight, CurrentIsOfBase, NothingWrongServed
    <2>1. graph.keys = tree[active]
      BY <1>1 DEF GraphInv, GraphTrue, Visible
    <2>2. ASSUME NEW f \in GraphFiles
          PROVE  Found(graph.gen, f) \subseteq {RecordsOf[k] : k \in Keys \cap {tree[active][f]}}
      BY <1>1, <2>1 DEF GraphInv, RecordsTrue, OnlyRecords, GraphTrue, Fits, Found
    <2>3. ASSUME NEW f \in GraphFiles
          PROVE  Cardinality({c \in Gens : graph.gen \in ids[c][f]}) <= 1
      <3> DEFINE S == {c \in Gens : graph.gen \in ids[c][f]}
      <3>1. CASE S = {}
        BY <3>1, FS_EmptySet
      <3>2. CASE S # {}
        <4>1. PICK c \in Gens : graph.gen \in ids[c][f]
          BY <3>2
        <4>2. OnlyRecords(graph.gen, graph.recs)
          BY <1>1 DEF GraphInv, RecordsTrue
        <4>3. S = {c}
          BY <4>1, <4>2 DEF OnlyRecords
        <4> HIDE DEF S
        <4>4. Cardinality(S) = 1
          BY <4>3, FS_Singleton
        <4> QED BY <4>4 DEF S
      <3> QED BY <3>1, <3>2
    <2> QED BY <2>1, <2>2, <2>3 DEF CurrentIsOfBase, NothingWrongServed
  <1> QED BY <1>1, GraphInvariant, PTL

\* No graph is of a base build that is not published yet.
BaseBehind ==
    /\ active \in Nat /\ "base" \in DOMAIN graph
    /\ graph.base \in Nat /\ graph.base <= active

(* Every patch that moves the graph to a base build is fenced by that build  *)
(* being the active one, and the active build only goes forward.             *)
LEMMA BaseStays ==
  ASSUME BaseBehind, [GraphNext]_graphVars
  PROVE  BaseBehind' /\ graph'.base >= graph.base
  <1> USE DEF BaseBehind
  <1>1. CASE UNCHANGED <<active, graph>>
    BY <1>1
  <1>2. CASE active' = active + 1 /\ UNCHANGED graph
    BY <1>2
  <1>3. CASE /\ UNCHANGED active
             /\ \E state : graph' = [graph EXCEPT !.state = state]
    BY <1>3
  <1>4. CASE /\ UNCHANGED active
             /\ \E state, p : graph' = [graph EXCEPT !.state = state, !.pending = p]
    BY <1>4
  <1>5. CASE /\ UNCHANGED active
             /\ \E state : graph' = [graph EXCEPT !.state = state, !.base = active]
    BY <1>5
  <1>6. CASE /\ UNCHANGED active
             /\ \E state, d, k : graph' = [graph EXCEPT !.state = state, !.base = active,
                                                        !.digest = d, !.keys = k]
    BY <1>6
  <1>7. CASE UNCHANGED active /\ \E h \in Hosts : \E keep : active = target[h] /\ graph' = Promoted(h, keep)
    BY <1>7 DEF Promoted
  <1>8. ASSUME NEW h \in Hosts, BaseStep(h) PROVE BaseBehind' /\ graph'.base >= graph.base
    BY <1>1, <1>2, <1>8 DEF BaseStep, Stage, PublishBase, CollectBase, BaseFails, serverVars
  <1>9. ASSUME NEW h \in Hosts, GraphStep(h) PROVE BaseBehind' /\ graph'.base >= graph.base
    <2>1. CASE \/ StartGraph(h) \/ ReadActive(h) \/ PlanGraph(h) \/ Adopt(h) \/ DeriveFails(h)
               \/ PublishGraph(h) \/ CleanPending(h) \/ CopyGraph(h) \/ WriteGraph(h)
               \/ DropRetired(h) \/ PublishFails(h) \/ Undo(h) \/ Finish(h)
      <3>1. UNCHANGED <<active, graph>>
        BY <2>1 DEF StartGraph, ReadActive, PlanGraph, Adopt, DeriveFails, PublishGraph,
              CleanPending, CopyGraph, WriteGraph, DropRetired, PublishFails, Undo, Finish,
              serverVars
      <3> QED BY <1>1, <3>1
    <2>2. CASE Disable(h) \/ RecordEnd(h)
      BY <1>1, <1>3, <2>2 DEF Disable, RecordEnd, SetState
    <2>3. CASE Rebind(h)
      BY <1>1, <1>5, <2>3 DEF Rebind, Superseded
    <2>4. CASE Repoint(h)
      BY <1>1, <1>6, <2>4 DEF Repoint, Superseded
    <2>5. CASE BeginGraph(h)
      BY <1>1, <1>4, <2>5 DEF BeginGraph
    <2>6. CASE Promote(h)
      BY <1>1, <1>7, <2>6 DEF Promote, Superseded
    <2>7. CASE Unpend(h)
      BY <1>1, <1>4, <2>7 DEF Unpend
    <2> QED BY <1>9, <2>1, <2>2, <2>3, <2>4, <2>5, <2>6, <2>7 DEF GraphStep
  <1>10. ASSUME NEW h \in Hosts, HostDies(h) PROVE BaseBehind' /\ graph'.base >= graph.base
    BY <1>1, <1>10 DEF HostDies, serverVars
  <1>11. LoseLease => BaseBehind' /\ graph'.base >= graph.base
    BY <1>1 DEF LoseLease, serverVars
  <1>12. UNCHANGED graphVars => BaseBehind' /\ graph'.base >= graph.base
    BY <1>1 DEF graphVars
  <1> QED BY <1>8, <1>9, <1>10, <1>11, <1>12 DEF GraphNext

(* The generation readers have never goes back to an older base, even when   *)
(* passes outlive their lease and staging stores are left half changed.      *)
THEOREM GraphsGoForward == GraphSpec => GraphForward
  <1>1. GraphInit => BaseBehind
    BY DEF GraphInit, Pending, BaseBehind
  <1>2. BaseBehind /\ [GraphNext]_graphVars => BaseBehind' /\ [graph'.base >= graph.base]_graphVars
    BY BaseStays
  <1> QED BY <1>1, <1>2, PTL DEF GraphSpec, GraphForward

-----------------------------------------------------------------------------
(* Rows and records.                                                         *)

Stagings == [Volumes -> StagedRow]

\* Digests are equal where all that was fed to them is.
LEMMA DigestFed ==
    ASSUME NEW f, NEW g, NEW r, NEW q, NEW p, NEW o,
           KnowledgeDigest(f, r, p) = KnowledgeDigest(g, q, o)
    PROVE  /\ f = g /\ r.stat = q.stat /\ r.status = q.status /\ p = o
           /\ DocumentRowsOf[f][r.edition] = DocumentRowsOf[g][q.edition]
           /\ Marked(EntityRowsOf[f][r.edition], r.entities, p) =
              Marked(EntityRowsOf[g][q.edition], q.entities, o)
           /\ Marked(ChunkRowsOf[f][r.edition], r.chunks, p) =
              Marked(ChunkRowsOf[g][q.edition], q.chunks, o)
  <1>2. /\ FileRowOf(f, r) = FileRowOf(g, q) /\ p = o
        /\ DocumentRowsOf[f][r.edition] = DocumentRowsOf[g][q.edition]
        /\ Marked(EntityRowsOf[f][r.edition], r.entities, p) =
           Marked(EntityRowsOf[g][q.edition], q.entities, o)
        /\ Marked(ChunkRowsOf[f][r.edition], r.chunks, p) =
           Marked(ChunkRowsOf[g][q.edition], q.chunks, o)
    BY DEF KnowledgeDigest
  <1>3. QED  BY <1>2 DEF FileRowOf

\* Rows that are marked alike are the same rows, marked the same way.
LEMMA MarkedAlike ==
    ASSUME NEW S, NEW T, NEW m, NEW n, NEW p, NEW o, Marked(S, m, p) = Marked(T, n, o)
    PROVE  /\ S = T /\ (S # {} => HasVector(m, p) = HasVector(n, o))
  <1>1. ASSUME NEW e \in S PROVE e \in T /\ HasVector(m, p) = HasVector(n, o)
    <2>1. <<e, HasVector(m, p)>> \in Marked(T, n, o)  BY Zenon DEF Marked
    <2>2. PICK x \in T : <<e, HasVector(m, p)>> = <<x, HasVector(n, o)>>  BY <2>1, Zenon DEF Marked
    <2>3. QED  BY <2>2, Zenon
  <1>2. ASSUME NEW e \in T PROVE e \in S
    <2>1. <<e, HasVector(n, o)>> \in Marked(S, m, p)  BY Zenon DEF Marked
    <2>2. PICK x \in S : <<e, HasVector(n, o)>> = <<x, HasVector(m, p)>>  BY <2>1, Zenon DEF Marked
    <2>3. QED  BY <2>2, Zenon
  <1>3. QED  BY <1>1, <1>2, Zenon

\* A record is made of what a digest tells apart.
LEMMA DigestMakesRecords ==
    ASSUME NEW f, NEW r, NEW q, NEW p, NEW o,
           KnowledgeDigest(f, r, p) = KnowledgeDigest(f, q, o)
    PROVE  /\ FileDoc(f, r, p) = FileDoc(f, q, o)
           /\ EntityDocs(f, r, p) = EntityDocs(f, q, o)
           /\ DocumentDocs(f, r) = DocumentDocs(f, q)
           /\ ChunkDocs(f, r, p) = ChunkDocs(f, q, o)
  <1>1. /\ r.stat = q.stat /\ r.status = q.status /\ p = o
        /\ DocumentRowsOf[f][r.edition] = DocumentRowsOf[f][q.edition]
        /\ EntityRowsOf[f][r.edition] = EntityRowsOf[f][q.edition]
        /\ ChunkRowsOf[f][r.edition] = ChunkRowsOf[f][q.edition]
        /\ EntityRowsOf[f][r.edition] # {} => HasVector(r.entities, p) = HasVector(q.entities, o)
        /\ ChunkRowsOf[f][r.edition] # {} => HasVector(r.chunks, p) = HasVector(q.chunks, o)
    <2>1. /\ r.stat = q.stat /\ r.status = q.status /\ p = o
          /\ DocumentRowsOf[f][r.edition] = DocumentRowsOf[f][q.edition]
          /\ Marked(EntityRowsOf[f][r.edition], r.entities, p) =
             Marked(EntityRowsOf[f][q.edition], q.entities, o)
          /\ Marked(ChunkRowsOf[f][r.edition], r.chunks, p) =
             Marked(ChunkRowsOf[f][q.edition], q.chunks, o)
      BY DigestFed
    <2>2. /\ EntityRowsOf[f][r.edition] = EntityRowsOf[f][q.edition]
          /\ EntityRowsOf[f][r.edition] # {} => HasVector(r.entities, p) = HasVector(q.entities, o)
      BY <2>1, MarkedAlike
    <2>3. /\ ChunkRowsOf[f][r.edition] = ChunkRowsOf[f][q.edition]
          /\ ChunkRowsOf[f][r.edition] # {} => HasVector(r.chunks, p) = HasVector(q.chunks, o)
      BY <2>1, MarkedAlike
    <2>4. QED  BY <2>1, <2>2, <2>3, Zenon
  <1>2. FileDoc(f, r, p) = FileDoc(f, q, o)  BY <1>1 DEF FileDoc
  <1>3. EntityDocs(f, r, p) = EntityDocs(f, q, o)
    <2>1. CASE EntityRowsOf[f][r.edition] = {}  BY <1>1, <2>1 DEF EntityDocs
    <2>2. CASE EntityRowsOf[f][r.edition] # {}
      <3>1. VectorField(r.entities, p) = VectorField(q.entities, o)
        BY <1>1, <2>2, Zenon DEF VectorField
      <3>2. QED  BY <1>1, <3>1 DEF EntityDocs
    <2>3. QED  BY <2>1, <2>2
  <1>n. ASSUME NEW x PROVE DocumentNamed(f, r, x) = DocumentNamed(f, q, x)
    BY <1>1 DEF DocumentNamed
  <1>4. ASSUME NEW x PROVE ParentTitle(f, r, x) = ParentTitle(f, q, x)
    BY <1>n, Zenon DEF ParentTitle
  <1>5. DocumentDocs(f, r) = DocumentDocs(f, q)
    BY <1>1, <1>4 DEF DocumentDocs
  <1>6. ChunkDocs(f, r, p) = ChunkDocs(f, q, o)
    <2>1. CASE ChunkRowsOf[f][r.edition] = {}  BY <1>1, <2>1 DEF ChunkDocs
    <2>2. CASE ChunkRowsOf[f][r.edition] # {}
      <3>1. VectorField(r.chunks, p) = VectorField(q.chunks, o)
        BY <1>1, <2>2, Zenon DEF VectorField
      <3>2. \A c, d : ChunkDoc(f, r, p, c, d) = ChunkDoc(f, q, o, c, d)
        BY <1>1, <1>4, <3>1 DEF ChunkDoc
      <3>4. QED  BY <1>1, <3>2, <1>n DEF ChunkDocs
    <2>3. QED  BY <2>1, <2>2
  <1>7. QED  BY <1>2, <1>3, <1>5, <1>6

-----------------------------------------------------------------------------
(* The rows of a staged build.                                               *)

LEMMA HeldEdition ==
    ASSUME NEW s \in Stagings, NEW f \in HeldFiles(s)
    PROVE  f \in Volumes /\ s[f] \in StagedRow /\ s[f].edition \in Editions
  BY DEF Stagings, HeldFiles, StagedRow

LEMMA EntityRows ==
    ASSUME NEW s \in Stagings, NEW f \in HeldFiles(s), NEW e \in EntityRowsOf[f][s[f].edition]
    PROVE  /\ e.file = f /\ e \in AllEntities(s)
           /\ e = [id |-> e.id, file |-> e.file, name |-> e.name, qualified |-> e.qualified]
           /\ \E x \in Declares[s[f].edition] :
                 e.id = <<f, x[2]>> /\ e.name = x[1] /\ e.qualified = x[2]
  <1>1. f \in Volumes /\ s[f].edition \in Editions  BY HeldEdition
  <1>2. PICK x \in Declares[s[f].edition] :
            e = [id |-> <<f, x[2]>>, file |-> f, name |-> x[1], qualified |-> x[2]]
    BY <1>1 DEF EntityRowsOf
  <1>3. e \in AllEntities(s)  BY DEF AllEntities
  <1>4. QED  BY <1>2, <1>3

LEMMA EntityInRows ==
    ASSUME NEW s \in Stagings, NEW e \in AllEntities(s)
    PROVE  e.file \in HeldFiles(s) /\ e \in EntityRowsOf[e.file][s[e.file].edition]
  <1>1. PICK f \in HeldFiles(s) : e \in EntityRowsOf[f][s[f].edition]  BY DEF AllEntities
  <1>2. e.file = f  BY <1>1, EntityRows
  <1>3. QED  BY <1>1, <1>2

LEMMA EntityIds ==
    ASSUME NEW s \in Stagings, NEW d \in AllEntities(s), NEW e \in AllEntities(s), d.id = e.id
    PROVE  d = e
  <1>1. PICK f \in HeldFiles(s) : d \in EntityRowsOf[f][s[f].edition]  BY DEF AllEntities
  <1>2. PICK g \in HeldFiles(s) : e \in EntityRowsOf[g][s[g].edition]  BY DEF AllEntities
  <1>3. PICK x \in Declares[s[f].edition] :
            d.id = <<f, x[2]>> /\ d.name = x[1] /\ d.qualified = x[2]
    BY <1>1, EntityRows
  <1>4. PICK y \in Declares[s[g].edition] :
            e.id = <<g, y[2]>> /\ e.name = y[1] /\ e.qualified = y[2]
    BY <1>2, EntityRows
  <1>5. f = g /\ x[2] = y[2]
    <2>1. <<f, x[2]>> = <<g, y[2]>>  BY <1>3, <1>4, Zenon
    <2>2. QED  BY <2>1, Zenon
  <1>6. x[1] = y[1]
    <2>1. s[f].edition \in Editions  BY HeldEdition
    <2>2. \A v, w \in Declares[s[f].edition] : v[2] = w[2] => v[1] = w[1]
      BY <2>1, EditionsAssumption
    <2>3. QED  BY <1>5, <2>2
  <1>7. /\ d = [id |-> d.id, file |-> d.file, name |-> d.name, qualified |-> d.qualified]
        /\ e = [id |-> e.id, file |-> e.file, name |-> e.name, qualified |-> e.qualified]
        /\ d.file = f /\ e.file = g
    BY <1>1, <1>2, EntityRows
  <1>8. QED  BY <1>3, <1>4, <1>5, <1>6, <1>7

LEMMA DocumentMade ==
    ASSUME NEW s \in Stagings, NEW f \in HeldFiles(s), NEW d \in DocumentRowsOf[f][s[f].edition]
    PROVE  \E x \in Titles[s[f].edition] :
                d = [id |-> <<f, x[1]>>, file |-> f, index |-> x[1], title |-> x[2],
                     parent |-> IF x[1] = Own THEN Nowhere ELSE <<f, Own>>]
  <1>1. f \in Volumes /\ s[f].edition \in Editions  BY HeldEdition
  <1>2. QED  BY <1>1 DEF DocumentRowsOf

LEMMA DocumentRows ==
    ASSUME NEW s \in Stagings, NEW f \in HeldFiles(s), NEW d \in DocumentRowsOf[f][s[f].edition]
    PROVE  /\ d.file = f /\ d \in AllDocuments(s)
           /\ d = [id |-> d.id, file |-> d.file, index |-> d.index, title |-> d.title,
                   parent |-> d.parent]
  <1>1. PICK x \in Titles[s[f].edition] :
            d = [id |-> <<f, x[1]>>, file |-> f, index |-> x[1], title |-> x[2],
                 parent |-> IF x[1] = Own THEN Nowhere ELSE <<f, Own>>]
    BY DocumentMade
  <1>2. d \in AllDocuments(s)  BY DEF AllDocuments
  <1>3. QED  BY <1>1, <1>2

LEMMA DocumentInRows ==
    ASSUME NEW s \in Stagings, NEW d \in AllDocuments(s)
    PROVE  d.file \in HeldFiles(s) /\ d \in DocumentRowsOf[d.file][s[d.file].edition]
  <1>1. PICK f \in HeldFiles(s) : d \in DocumentRowsOf[f][s[f].edition]  BY DEF AllDocuments
  <1>2. d.file = f  BY <1>1, DocumentRows
  <1>3. QED  BY <1>1, <1>2

LEMMA DocumentIds ==
    ASSUME NEW s \in Stagings, NEW d \in AllDocuments(s), NEW e \in AllDocuments(s), d.id = e.id
    PROVE  d = e
  <1>1. PICK f \in HeldFiles(s) : d \in DocumentRowsOf[f][s[f].edition]  BY DEF AllDocuments
  <1>2. PICK g \in HeldFiles(s) : e \in DocumentRowsOf[g][s[g].edition]  BY DEF AllDocuments
  <1>3. PICK x \in Titles[s[f].edition] :
            d = [id |-> <<f, x[1]>>, file |-> f, index |-> x[1], title |-> x[2],
                 parent |-> IF x[1] = Own THEN Nowhere ELSE <<f, Own>>]
    BY <1>1, DocumentMade
  <1>4. PICK y \in Titles[s[g].edition] :
            e = [id |-> <<g, y[1]>>, file |-> g, index |-> y[1], title |-> y[2],
                 parent |-> IF y[1] = Own THEN Nowhere ELSE <<g, Own>>]
    BY <1>2, DocumentMade
  <1>5. f = g /\ x[1] = y[1]
    <2>1. <<f, x[1]>> = <<g, y[1]>>  BY <1>3, <1>4
    <2>2. QED  BY <2>1, Zenon
  <1>6. x[2] = y[2]
    <2>1. s[f].edition \in Editions  BY HeldEdition
    <2>2. \A v, w \in Titles[s[f].edition] : v[1] = w[1] => v[2] = w[2]
      BY <2>1, EditionsAssumption
    <2>3. QED  BY <1>5, <2>2
  <1>7. QED  BY <1>3, <1>4, <1>5, <1>6

\* A part of a document has the document it is a part of.
LEMMA ParentRow ==
    ASSUME NEW s \in Stagings, NEW f \in HeldFiles(s), NEW d \in DocumentRowsOf[f][s[f].edition]
    PROVE  /\ d.parent = Nowhere <=> d.index = Own
           /\ d.parent # Nowhere => \E p \in DocumentRowsOf[f][s[f].edition] : p.id = d.parent
  <1>1. f \in Volumes /\ s[f].edition \in Editions  BY HeldEdition
  <1>2. PICK x \in Titles[s[f].edition] :
            d = [id |-> <<f, x[1]>>, file |-> f, index |-> x[1], title |-> x[2],
                 parent |-> IF x[1] = Own THEN Nowhere ELSE <<f, Own>>]
    BY DocumentMade
  <1>3. <<f, Own>> # Nowhere  BY DEF Nowhere
  <1>4. PICK t \in Titles[s[f].edition] : t[1] = Own
    <2>1. \A v \in Titles[s[f].edition] : \E t \in Titles[s[f].edition] : t[1] = Own
      BY <1>1, EditionsAssumption
    <2>2. QED  BY <1>2, <2>1
  <1>5. [id |-> <<f, t[1]>>, file |-> f, index |-> t[1], title |-> t[2],
         parent |-> IF t[1] = Own THEN Nowhere ELSE <<f, Own>>] \in DocumentRowsOf[f][s[f].edition]
    BY <1>1 DEF DocumentRowsOf
  <1>6. \E p \in DocumentRowsOf[f][s[f].edition] : p.id = <<f, Own>>  BY <1>4, <1>5
  <1>7. QED  BY <1>2, <1>3, <1>6

LEMMA ChunkRows ==
    ASSUME NEW s \in Stagings, NEW f \in HeldFiles(s), NEW c \in ChunkRowsOf[f][s[f].edition]
    PROVE  /\ c.file = f /\ c \in AllChunks(s)
           /\ c = [id |-> c.id, document |-> c.document, file |-> c.file, ordinal |-> c.ordinal,
                   under |-> c.under, kind |-> c.kind, text |-> c.text]
           /\ \E x \in Passages[s[f].edition] :
                 /\ c.id = <<f, x.doc, x.ordinal>> /\ c.document = <<f, x.doc>>
                 /\ c.ordinal = x.ordinal /\ c.under = x.under /\ c.kind = x.kind
                 /\ c.text = x.text
  <1>1. f \in Volumes /\ s[f].edition \in Editions  BY HeldEdition
  <1>2. PICK x \in Passages[s[f].edition] :
            c = [id |-> <<f, x.doc, x.ordinal>>, document |-> <<f, x.doc>>, file |-> f,
                 ordinal |-> x.ordinal, under |-> x.under, kind |-> x.kind, text |-> x.text]
    BY <1>1 DEF ChunkRowsOf
  <1>3. c \in AllChunks(s)  BY DEF AllChunks
  <1>4. QED  BY <1>2, <1>3

LEMMA ChunkInRows ==
    ASSUME NEW s \in Stagings, NEW c \in AllChunks(s)
    PROVE  c.file \in HeldFiles(s) /\ c \in ChunkRowsOf[c.file][s[c.file].edition]
  <1>1. PICK f \in HeldFiles(s) : c \in ChunkRowsOf[f][s[f].edition]  BY DEF AllChunks
  <1>2. c.file = f  BY <1>1, ChunkRows
  <1>3. QED  BY <1>1, <1>2

\* A chunk is told by its id, and by its place in its document.
LEMMA ChunkIds ==
    ASSUME NEW s \in Stagings, NEW c \in AllChunks(s), NEW e \in AllChunks(s),
           c.id = e.id \/ (c.document = e.document /\ c.ordinal = e.ordinal)
    PROVE  c = e
  <1>1. PICK f \in HeldFiles(s) : c \in ChunkRowsOf[f][s[f].edition]  BY DEF AllChunks
  <1>2. PICK g \in HeldFiles(s) : e \in ChunkRowsOf[g][s[g].edition]  BY DEF AllChunks
  <1>3. PICK x \in Passages[s[f].edition] :
            /\ c.id = <<f, x.doc, x.ordinal>> /\ c.document = <<f, x.doc>>
            /\ c.ordinal = x.ordinal /\ c.under = x.under /\ c.kind = x.kind
            /\ c.text = x.text
    BY <1>1, ChunkRows
  <1>4. PICK y \in Passages[s[g].edition] :
            /\ e.id = <<g, y.doc, y.ordinal>> /\ e.document = <<g, y.doc>>
            /\ e.ordinal = y.ordinal /\ e.under = y.under /\ e.kind = y.kind
            /\ e.text = y.text
    BY <1>2, ChunkRows
  <1>5. f = g /\ x.doc = y.doc /\ x.ordinal = y.ordinal  BY <1>3, <1>4
  <1>6. x = y
    <2>1. s[f].edition \in Editions  BY HeldEdition
    <2>2. \A v, w \in Passages[s[f].edition] : v.doc = w.doc /\ v.ordinal = w.ordinal => v = w
      BY <2>1, EditionsAssumption
    <2>3. QED  BY <1>5, <2>2
  <1>7. /\ c = [id |-> c.id, document |-> c.document, file |-> c.file, ordinal |-> c.ordinal,
                under |-> c.under, kind |-> c.kind, text |-> c.text]
        /\ e = [id |-> e.id, document |-> e.document, file |-> e.file, ordinal |-> e.ordinal,
                under |-> e.under, kind |-> e.kind, text |-> e.text]
        /\ c.file = f /\ e.file = g
    BY <1>1, <1>2, ChunkRows
  <1>8. QED  BY <1>3, <1>4, <1>5, <1>6, <1>7

\* A chunk's document is a row of its file.
LEMMA ChunkDocument ==
    ASSUME NEW s \in Stagings, NEW f \in HeldFiles(s), NEW c \in ChunkRowsOf[f][s[f].edition]
    PROVE  \E d \in DocumentRowsOf[f][s[f].edition] : d.id = c.document
  <1>1. f \in Volumes /\ s[f].edition \in Editions  BY HeldEdition
  <1>2. PICK x \in Passages[s[f].edition] : c.document = <<f, x.doc>>  BY ChunkRows
  <1>3. PICK t \in Titles[s[f].edition] : t[1] = x.doc
    <2>1. \A v \in Passages[s[f].edition] : \E t \in Titles[s[f].edition] : t[1] = v.doc
      BY <1>1, EditionsAssumption
    <2>2. QED  BY <1>2, <2>1
  <1>4. [id |-> <<f, t[1]>>, file |-> f, index |-> t[1], title |-> t[2],
         parent |-> IF t[1] = Own THEN Nowhere ELSE <<f, Own>>] \in DocumentRowsOf[f][s[f].edition]
    BY <1>1 DEF DocumentRowsOf
  <1>5. QED  BY <1>2, <1>3, <1>4

-----------------------------------------------------------------------------
(* The joins of the local store find what was copied into a record.          *)

LEMMA StatJoined ==
    ASSUME NEW s \in Stagings, NEW f \in HeldFiles(s)
    PROVE  StatOf(s, f) = s[f].stat
  <1>1. FileRowOf(f, s[f]) \in AllFiles(s) /\ FileRowOf(f, s[f]).id = f
    BY DEF AllFiles, FileRowOf
  <1>2. \A x \in AllFiles(s) : x.id = f => x = FileRowOf(f, s[f])  BY DEF AllFiles, FileRowOf
  <1>3. (CHOOSE x \in AllFiles(s) : x.id = f) = FileRowOf(f, s[f])  BY <1>1, <1>2, Zenon
  <1>4. FileRowOf(f, s[f]).stat = s[f].stat  BY DEF FileRowOf
  <1>5. QED  BY <1>3, <1>4, Zenon DEF StatOf

LEMMA DocumentFound ==
    ASSUME NEW s \in Stagings, NEW f \in HeldFiles(s), NEW d \in DocumentRowsOf[f][s[f].edition]
    PROVE  /\ DocumentNamed(f, s[f], d.id) = d
           /\ (CHOOSE p \in AllDocuments(s) : p.id = d.id) = d
  <1>1. \A x \in DocumentRowsOf[f][s[f].edition] : x \in AllDocuments(s)  BY DocumentRows
  <1>2. \A x \in AllDocuments(s) : x.id = d.id => x = d  BY <1>1, DocumentIds
  <1>3. \A x \in DocumentRowsOf[f][s[f].edition] : x.id = d.id => x = d  BY <1>1, <1>2
  <1>4. d \in AllDocuments(s)  BY <1>1
  <1>5. (CHOOSE p \in AllDocuments(s) : p.id = d.id) = d  BY <1>2, <1>4, Zenon
  <1>6. (CHOOSE x \in DocumentRowsOf[f][s[f].edition] : x.id = d.id) = d  BY <1>3, Zenon
  <1>7. QED  BY <1>5, <1>6, Zenon DEF DocumentNamed

LEMMA ParentJoined ==
    ASSUME NEW s \in Stagings, NEW f \in HeldFiles(s), NEW d \in DocumentRowsOf[f][s[f].edition]
    PROVE  ParentTitle(f, s[f], d) = LocalParentTitle(s, d)
  <1>1. CASE d.parent = Nowhere  BY <1>1 DEF ParentTitle, LocalParentTitle
  <1>2. CASE d.parent # Nowhere
    <2>1. PICK p \in DocumentRowsOf[f][s[f].edition] : p.id = d.parent  BY <1>2, ParentRow
    <2>2. DocumentNamed(f, s[f], p.id) = p  BY DocumentFound
    <2>3. (CHOOSE x \in AllDocuments(s) : x.id = p.id) = p  BY DocumentFound
    <2>4. DocumentNamed(f, s[f], d.parent) = p  BY <2>1, <2>2, Zenon
    <2>5. (CHOOSE x \in AllDocuments(s) : x.id = d.parent) = p  BY <2>1, <2>3, Zenon
    <2>6. QED  BY <1>2, <2>4, <2>5, Zenon DEF ParentTitle, LocalParentTitle
  <1>3. QED  BY <1>1, <1>2

-----------------------------------------------------------------------------
(* The records of a build that was written from s.                           *)

\* The records recs has of build b are of files F, as s has them.
MatchesOn(recs, b, s, F) ==
    /\ \A w \in Versions, f \in Volumes : b \in recs[w][f].builds =>
          /\ f \in F
          /\ KnowledgeDigest(f, recs[w][f].row, recs[w][f].fp) =
             KnowledgeDigest(f, s[f], Fingerprint(s))
    /\ \A f \in F : \E w \in Versions : b \in recs[w][f].builds

EntityAnswer(s, e) ==
    [entity |-> e.id, file |-> e.file, name |-> e.name, qualified |-> e.qualified,
     stat |-> s[e.file].stat, embedding |-> VectorField(s[e.file].entities, Fingerprint(s))]

DocumentAnswer(s, d) ==
    [document |-> d.id, file |-> d.file, index |-> d.index, title |-> d.title,
     parent |-> d.parent, parentTitle |-> LocalParentTitle(s, d), stat |-> s[d.file].stat]

ChunkAnswer(s, c, d) ==
    [chunk |-> c.id, document |-> c.document, file |-> c.file, ordinal |-> c.ordinal,
     under |-> c.under, kind |-> c.kind, text |-> c.text, title |-> d.title,
     parent |-> d.parent, parentTitle |-> LocalParentTitle(s, d), index |-> d.index,
     stat |-> s[c.file].stat, embedding |-> VectorField(s[c.file].chunks, Fingerprint(s))]

LEMMA RecordsOfRows ==
    ASSUME NEW s \in Stagings, NEW f \in HeldFiles(s)
    PROVE  /\ EntityDocs(f, s[f], Fingerprint(s)) =
                {EntityAnswer(s, e) : e \in EntityRowsOf[f][s[f].edition]}
           /\ DocumentDocs(f, s[f]) = {DocumentAnswer(s, d) : d \in DocumentRowsOf[f][s[f].edition]}
           /\ \A c \in ChunkRowsOf[f][s[f].edition], d \in DocumentRowsOf[f][s[f].edition] :
                 d.id = c.document =>
                    ChunkDoc(f, s[f], Fingerprint(s), c, DocumentNamed(f, s[f], c.document)) =
                    ChunkAnswer(s, c, d)
  <1>1. EntityDocs(f, s[f], Fingerprint(s)) = {EntityAnswer(s, e) : e \in EntityRowsOf[f][s[f].edition]}
    <2>1. \A e \in EntityRowsOf[f][s[f].edition] : e.file = f  BY EntityRows
    <2>2. QED  BY <2>1 DEF EntityDocs, EntityAnswer
  <1>2. DocumentDocs(f, s[f]) = {DocumentAnswer(s, d) : d \in DocumentRowsOf[f][s[f].edition]}
    <2>1. \A d \in DocumentRowsOf[f][s[f].edition] :
             d.file = f /\ ParentTitle(f, s[f], d) = LocalParentTitle(s, d)
      BY DocumentRows, ParentJoined
    <2>2. QED  BY <2>1 DEF DocumentDocs, DocumentAnswer
  <1>3. ASSUME NEW c \in ChunkRowsOf[f][s[f].edition], NEW d \in DocumentRowsOf[f][s[f].edition],
               d.id = c.document
        PROVE  ChunkDoc(f, s[f], Fingerprint(s), c, DocumentNamed(f, s[f], c.document)) =
               ChunkAnswer(s, c, d)
    <2>1. DocumentNamed(f, s[f], d.id) = d /\ ParentTitle(f, s[f], d) = LocalParentTitle(s, d)
      BY DocumentFound, ParentJoined
    <2>2. DocumentNamed(f, s[f], c.document) = d  BY <1>3, <2>1, Zenon
    <2>3. c.file = f  BY ChunkRows
    <2>4. QED  BY <2>1, <2>2, <2>3 DEF ChunkDoc, ChunkAnswer
  <1>4. QED  BY <1>1, <1>2, <1>3

LEMMA WrittenFrom ==
    ASSUME NEW s \in Stagings, NEW b, MatchesOn(records, b, s, HeldFiles(s))
    PROVE  /\ \A w \in WrittenIn(b) :
                 /\ w.file \in HeldFiles(s)
                 /\ KnowledgeDigest(w.file, w.row, w.fp) =
                    KnowledgeDigest(w.file, s[w.file], Fingerprint(s))
           /\ \A f \in HeldFiles(s) : \E w \in WrittenIn(b) : w.file = f
  <1>1. ASSUME NEW w \in WrittenIn(b)
        PROVE  /\ w.file \in HeldFiles(s)
               /\ KnowledgeDigest(w.file, w.row, w.fp) =
                  KnowledgeDigest(w.file, s[w.file], Fingerprint(s))
    <2>1. PICK v \in Versions, f \in Volumes :
              /\ b \in records[v][f].builds
              /\ w = [file |-> f, row |-> records[v][f].row, fp |-> records[v][f].fp]
      BY DEF WrittenIn
    <2>2. QED  BY <2>1 DEF MatchesOn
  <1>2. ASSUME NEW f \in HeldFiles(s) PROVE \E w \in WrittenIn(b) : w.file = f
    <2>1. PICK v \in Versions : b \in records[v][f].builds  BY DEF MatchesOn
    <2>2. f \in Volumes  BY DEF HeldFiles
    <2>3. [file |-> f, row |-> records[v][f].row, fp |-> records[v][f].fp] \in WrittenIn(b)
      <3>1. <<v, f>> \in {y \in Versions \X Volumes : b \in records[y[1]][y[2]].builds}
        BY <2>1, <2>2
      <3>2. QED  BY <3>1 DEF WrittenIn
    <2>4. QED  BY <2>3
  <1>3. QED  BY <1>1, <1>2

LEMMA RecordsOfBuild ==
    ASSUME NEW s \in Stagings, NEW b, MatchesOn(records, b, s, HeldFiles(s))
    PROVE  /\ FilesIn(b) = {FileDoc(f, s[f], Fingerprint(s)) : f \in HeldFiles(s)}
           /\ EntitiesAt(b) = {EntityAnswer(s, e) : e \in AllEntities(s)}
           /\ DocumentsAt(b) = {DocumentAnswer(s, d) : d \in AllDocuments(s)}
           /\ \A t : t \in ChunksAt(b) <=>
                \E c \in AllChunks(s), d \in AllDocuments(s) :
                    d.id = c.document /\ t = ChunkAnswer(s, c, d)
  <1> DEFINE P == Fingerprint(s)
  <1>1. /\ \A w \in WrittenIn(b) :
              /\ w.file \in HeldFiles(s)
              /\ KnowledgeDigest(w.file, w.row, w.fp) = KnowledgeDigest(w.file, s[w.file], P)
        /\ \A f \in HeldFiles(s) : \E w \in WrittenIn(b) : w.file = f
    BY WrittenFrom
  <1> HIDE DEF P
  <1>2. \A w \in WrittenIn(b) :
          /\ FileDoc(w.file, w.row, w.fp) = FileDoc(w.file, s[w.file], P)
          /\ EntityDocs(w.file, w.row, w.fp) = EntityDocs(w.file, s[w.file], P)
          /\ DocumentDocs(w.file, w.row) = DocumentDocs(w.file, s[w.file])
          /\ ChunkDocs(w.file, w.row, w.fp) = ChunkDocs(w.file, s[w.file], P)
    BY <1>1, DigestMakesRecords
  <1>3. FilesIn(b) = {FileDoc(f, s[f], P) : f \in HeldFiles(s)}
    BY <1>1, <1>2 DEF FilesIn
  <1>4. EntitiesAt(b) = {EntityAnswer(s, e) : e \in AllEntities(s)}
    <2>1. EntitiesAt(b) = UNION {EntityDocs(f, s[f], P) : f \in HeldFiles(s)}
      BY <1>1, <1>2 DEF EntitiesAt
    <2>2. \A f \in HeldFiles(s) :
             EntityDocs(f, s[f], P) = {EntityAnswer(s, e) : e \in EntityRowsOf[f][s[f].edition]}
      BY RecordsOfRows DEF P
    <2>3. QED  BY <2>1, <2>2 DEF AllEntities
  <1>5. DocumentsAt(b) = {DocumentAnswer(s, d) : d \in AllDocuments(s)}
    <2>1. DocumentsAt(b) = UNION {DocumentDocs(f, s[f]) : f \in HeldFiles(s)}
      BY <1>1, <1>2 DEF DocumentsAt
    <2>2. \A f \in HeldFiles(s) :
             DocumentDocs(f, s[f]) = {DocumentAnswer(s, d) : d \in DocumentRowsOf[f][s[f].edition]}
      BY RecordsOfRows
    <2>3. QED  BY <2>1, <2>2 DEF AllDocuments
  <1>6. ChunksAt(b) = UNION {ChunkDocs(f, s[f], P) : f \in HeldFiles(s)}
    BY <1>1, <1>2 DEF ChunksAt
  <1>7. ASSUME NEW t \in ChunksAt(b)
        PROVE  \E c \in AllChunks(s), d \in AllDocuments(s) :
                    d.id = c.document /\ t = ChunkAnswer(s, c, d)
    <2>1. PICK f \in HeldFiles(s) : t \in ChunkDocs(f, s[f], P)  BY <1>6
    <2>2. PICK c \in ChunkRowsOf[f][s[f].edition] :
              t = ChunkDoc(f, s[f], P, c, DocumentNamed(f, s[f], c.document))
      BY <2>1 DEF ChunkDocs
    <2>3. PICK d \in DocumentRowsOf[f][s[f].edition] : d.id = c.document  BY ChunkDocument
    <2>4. t = ChunkAnswer(s, c, d)  BY <2>2, <2>3, RecordsOfRows DEF P
    <2>5. c \in AllChunks(s) /\ d \in AllDocuments(s)  BY ChunkRows, DocumentRows
    <2>6. QED  BY <2>3, <2>4, <2>5
  <1>8. ASSUME NEW c \in AllChunks(s), NEW d \in AllDocuments(s), d.id = c.document
        PROVE  ChunkAnswer(s, c, d) \in ChunksAt(b)
    <2>1. c.file \in HeldFiles(s) /\ c \in ChunkRowsOf[c.file][s[c.file].edition]  BY ChunkInRows
    <2>2. PICK e \in DocumentRowsOf[c.file][s[c.file].edition] : e.id = c.document
      BY <2>1, ChunkDocument
    <2>3. e \in AllDocuments(s)  BY <2>1, DocumentRows
    <2>4. e = d  BY <1>8, <2>2, <2>3, DocumentIds
    <2>5. ChunkDoc(c.file, s[c.file], P, c, DocumentNamed(c.file, s[c.file], c.document)) =
          ChunkAnswer(s, c, d)
      BY <2>1, <2>2, <2>4, RecordsOfRows DEF P
    <2>6. ChunkAnswer(s, c, d) \in ChunkDocs(c.file, s[c.file], P)
      BY <2>1, <2>5 DEF ChunkDocs
    <2>7. QED  BY <1>6, <2>1, <2>6
  <1>9. QED  BY <1>3, <1>4, <1>5, <1>7, <1>8 DEF P

-----------------------------------------------------------------------------
(* The answers of a build that was written from s.                           *)

LEMMA RowsOfBuild ==
    ASSUME NEW s \in Stagings, NEW b, MatchesOn(records, b, s, HeldFiles(s))
    PROVE  /\ ServerFileRows(b) = AllFiles(s)
           /\ ServerEntities(b) = AllEntities(s)
           /\ ServerDocumentRows(b) = AllDocuments(s)
           /\ ServerChunks(b) = AllChunks(s)
  <1>1. ServerFileRows(b) = AllFiles(s)
    <2>1. FilesIn(b) = {FileDoc(f, s[f], Fingerprint(s)) : f \in HeldFiles(s)}  BY RecordsOfBuild
    <2>2. \A f \in HeldFiles(s) :
             LET d == FileDoc(f, s[f], Fingerprint(s))
             IN [id |-> d.file, stat |-> d.stat, status |-> d.status] = FileRowOf(f, s[f])
      BY DEF FileDoc, FileRowOf
    <2>3. QED  BY <2>1, <2>2 DEF ServerFileRows, AllFiles
  <1>2. ServerEntities(b) = AllEntities(s)
    <2>1. EntitiesAt(b) = {EntityAnswer(s, e) : e \in AllEntities(s)}  BY RecordsOfBuild
    <2>2. ASSUME NEW e \in AllEntities(s) PROVE EntityOfDoc(EntityAnswer(s, e)) = e
      <3>1. e = [id |-> e.id, file |-> e.file, name |-> e.name, qualified |-> e.qualified]
        BY EntityInRows, EntityRows
      <3>2. EntityOfDoc(EntityAnswer(s, e)) =
              [id |-> e.id, file |-> e.file, name |-> e.name, qualified |-> e.qualified]
        BY DEF EntityOfDoc, EntityAnswer
      <3>3. QED  BY <3>1, <3>2
    <2>3. QED  BY <2>1, <2>2 DEF ServerEntities
  <1>3. ServerDocumentRows(b) = AllDocuments(s)
    <2>1. DocumentsAt(b) = {DocumentAnswer(s, d) : d \in AllDocuments(s)}  BY RecordsOfBuild
    <2>2. ASSUME NEW e \in AllDocuments(s)
          PROVE  LET d == DocumentAnswer(s, e)
                 IN [id |-> d.document, file |-> d.file, index |-> d.index, title |-> d.title,
                     parent |-> d.parent] = e
      <3>1. e = [id |-> e.id, file |-> e.file, index |-> e.index, title |-> e.title,
                 parent |-> e.parent]
        BY DocumentInRows, DocumentRows
      <3>2. QED  BY <3>1 DEF DocumentAnswer
    <2>3. QED  BY <2>1, <2>2 DEF ServerDocumentRows
  <1>4. ServerChunks(b) = AllChunks(s)
    <2>1. \A t : t \in ChunksAt(b) <=>
            \E c \in AllChunks(s), d \in AllDocuments(s) :
                d.id = c.document /\ t = ChunkAnswer(s, c, d)
      BY RecordsOfBuild
    <2>2. ASSUME NEW c \in AllChunks(s), NEW d PROVE ChunkOfDoc(ChunkAnswer(s, c, d)) = c
      <3>1. c = [id |-> c.id, document |-> c.document, file |-> c.file, ordinal |-> c.ordinal,
                 under |-> c.under, kind |-> c.kind, text |-> c.text]
        BY ChunkInRows, ChunkRows
      <3>2. ChunkOfDoc(ChunkAnswer(s, c, d)) =
              [id |-> c.id, document |-> c.document, file |-> c.file, ordinal |-> c.ordinal,
               under |-> c.under, kind |-> c.kind, text |-> c.text]
        BY DEF ChunkOfDoc, ChunkAnswer
      <3>3. QED  BY <3>1, <3>2
    <2>3. ASSUME NEW c \in AllChunks(s)
          PROVE  \E d \in AllDocuments(s) : d.id = c.document
      BY ChunkInRows, ChunkDocument, DocumentRows
    <2>4. QED  BY <2>1, <2>2, <2>3 DEF ServerChunks
  <1>5. QED  BY <1>1, <1>2, <1>3, <1>4

LEMMA HitsOfBuild ==
    ASSUME NEW s \in Stagings, NEW b, MatchesOn(records, b, s, HeldFiles(s))
    PROVE  /\ ServerEntityHits(b) = LocalEntityHits(s)
           /\ ServerChunkHits(b) = LocalChunkHits(s)
           /\ ServerKindCounts(b) = LocalKindCounts(s)
  <1>1. ServerEntityHits(b) = LocalEntityHits(s)
    <2>1. EntitiesAt(b) = {EntityAnswer(s, e) : e \in AllEntities(s)}  BY RecordsOfBuild
    <2>2. \A e \in AllEntities(s) :
             LET d == EntityAnswer(s, e)
             IN <<d.entity, d.file, d.stat>> = <<e.id, e.file, StatOf(s, e.file)>>
      <3>1. \A e \in AllEntities(s) : StatOf(s, e.file) = s[e.file].stat
        BY EntityInRows, StatJoined
      <3>2. QED  BY <3>1 DEF EntityAnswer
    <2>3. QED  BY <2>1, <2>2 DEF ServerEntityHits, LocalEntityHits
  <1>2. ServerChunkHits(b) = LocalChunkHits(s)
    <2>1. \A t : t \in ChunksAt(b) <=>
            \E c \in AllChunks(s), d \in AllDocuments(s) :
                d.id = c.document /\ t = ChunkAnswer(s, c, d)
      BY RecordsOfBuild
    <2>2. ASSUME NEW c \in AllChunks(s), NEW d \in AllDocuments(s)
          PROVE  LET t == ChunkAnswer(s, c, d)
                 IN <<t.chunk, t.title, t.file, t.stat, t.parent, t.parentTitle>> =
                    <<c.id, d.title, c.file, StatOf(s, c.file), d.parent, LocalParentTitle(s, d)>>
      <3>1. StatOf(s, c.file) = s[c.file].stat  BY ChunkInRows, StatJoined
      <3>2. QED  BY <3>1 DEF ChunkAnswer
    <2>3. ASSUME NEW h \in ServerChunkHits(b) PROVE h \in LocalChunkHits(s)
      <3>1. PICK t \in ChunksAt(b) :
                h = <<t.chunk, t.title, t.file, t.stat, t.parent, t.parentTitle>>
        BY DEF ServerChunkHits
      <3>2. PICK c \in AllChunks(s), d \in AllDocuments(s) :
                d.id = c.document /\ t = ChunkAnswer(s, c, d)
        BY <2>1, <3>1
      <3>3. <<c, d>> \in {y \in AllChunks(s) \X AllDocuments(s) : y[1].document = y[2].id}
        BY <3>2
      <3>4. h = <<c.id, d.title, c.file, StatOf(s, c.file), d.parent, LocalParentTitle(s, d)>>
        BY <2>2, <3>1, <3>2
      <3>5. QED  BY <3>3, <3>4 DEF LocalChunkHits
    <2>4. ASSUME NEW h \in LocalChunkHits(s) PROVE h \in ServerChunkHits(b)
      <3>1. PICK c \in AllChunks(s), d \in AllDocuments(s) :
                /\ d.id = c.document
                /\ h = <<c.id, d.title, c.file, StatOf(s, c.file), d.parent, LocalParentTitle(s, d)>>
        BY DEF LocalChunkHits
      <3>2. ChunkAnswer(s, c, d) \in ChunksAt(b)  BY <2>1, <3>1
      <3>3. QED  BY <2>2, <3>1, <3>2 DEF ServerChunkHits
    <2>5. QED  BY <2>3, <2>4
  <1>3. ServerKindCounts(b) = LocalKindCounts(s)
    <2>1. ServerChunks(b) = AllChunks(s)  BY RowsOfBuild
    <2> DEFINE Count(d, k) == Cardinality({c \in AllChunks(s) : c.document = d /\ c.kind = k})
    <2>2. ServerKindCounts(b) =
            {<<x[1], x[2], Count(x[1], x[2])>> : x \in {<<c.document, c.kind>> : c \in AllChunks(s)}}
      BY <2>1 DEF ServerKindCounts
    <2>3. LocalKindCounts(s) =
            {<<c.document, c.kind, Count(c.document, c.kind)>> : c \in AllChunks(s)}
      BY DEF LocalKindCounts
    <2> HIDE DEF Count
    <2>4. ASSUME NEW r \in ServerKindCounts(b) PROVE r \in LocalKindCounts(s)
      <3>1. PICK x \in {<<c.document, c.kind>> : c \in AllChunks(s)} :
                r = <<x[1], x[2], Count(x[1], x[2])>>
        BY <2>2
      <3>2. PICK c \in AllChunks(s) : x = <<c.document, c.kind>>  BY <3>1
      <3>3. r = <<c.document, c.kind, Count(c.document, c.kind)>>  BY <3>1, <3>2
      <3>4. QED  BY <2>3, <3>3
    <2>5. ASSUME NEW r \in LocalKindCounts(s) PROVE r \in ServerKindCounts(b)
      <3>1. PICK c \in AllChunks(s) : r = <<c.document, c.kind, Count(c.document, c.kind)>>
        BY <2>3
      <3>2. PICK x \in {<<y.document, y.kind>> : y \in AllChunks(s)} : x = <<c.document, c.kind>>
        OBVIOUS
      <3>3. r = <<x[1], x[2], Count(x[1], x[2])>>  BY <3>1, <3>2
      <3>4. QED  BY <2>2, <3>3
    <2>6. QED  BY <2>4, <2>5
  <1>4. QED  BY <1>1, <1>2, <1>3

LEMMA SameRows ==
    ASSUME NEW s \in Stagings, NEW b, MatchesOn(records, b, s, HeldFiles(s))
    PROVE  ServerRows(b) = LocalRows(s)
  BY RowsOfBuild, HitsOfBuild, Zenon DEF ServerRows, LocalRows

LEMMA LookupsOfBuild ==
    ASSUME NEW s \in Stagings, NEW b, MatchesOn(records, b, s, HeldFiles(s))
    PROVE  SameLookups(b, s)
  <1>1. /\ ServerEntities(b) = AllEntities(s) /\ ServerDocumentRows(b) = AllDocuments(s)
        /\ ServerChunks(b) = AllChunks(s)
    BY RowsOfBuild
  <1>2. \A q : ServerSymbol(b, q) = LocalSymbol(s, q)
    BY <1>1 DEF ServerSymbol, LocalSymbol
  <1>3. ASSUME NEW e \in AllEntities(s) PROVE ServerEntity(b, e.id) = {e}
    <2>1. \A x \in AllEntities(s) : x.id = e.id => x = e  BY EntityIds
    <2>2. QED  BY <1>1, <2>1 DEF ServerEntity
  <1>4. DocumentsAt(b) = {DocumentAnswer(s, d) : d \in AllDocuments(s)}  BY RecordsOfBuild
  <1>5. ASSUME NEW title PROVE ServerTitleHits(b, title) = LocalTitleHits(s, title)
    <2>1. \A e \in AllDocuments(s) :
             LET d == DocumentAnswer(s, e)
             IN /\ d.title = e.title
                /\ <<d.document, d.file, d.stat, d.parent, d.parentTitle>> =
                   <<e.id, e.file, StatOf(s, e.file), e.parent, LocalParentTitle(s, e)>>
      <3>1. \A e \in AllDocuments(s) : StatOf(s, e.file) = s[e.file].stat
        BY DocumentInRows, StatJoined
      <3>2. QED  BY <3>1 DEF DocumentAnswer
    <2>2. QED  BY <1>4, <2>1 DEF ServerTitleHits, LocalTitleHits
  <1>6. ASSUME NEW id PROVE ServerAttachment(b, id) = LocalAttachment(s, id)
    <2>1. \A e \in AllDocuments(s) :
             LET d == DocumentAnswer(s, e)
             IN /\ d.document = e.id /\ d.parent = e.parent
                /\ <<d.index, d.parent, d.parentTitle>> =
                   <<e.index, e.parent, LocalParentTitle(s, e)>>
      BY DEF DocumentAnswer
    <2>2. QED  BY <1>4, <2>1 DEF ServerAttachment, LocalAttachment
  <1>7. ASSUME NEW ref PROVE ServerResolves(b, ref) = LocalResolves(s, ref)
    <2>1. \A d \in AllDocuments(s) : d.parent = Nowhere <=> d.index = Own
      BY DocumentInRows, ParentRow
    <2>2. {d \in AllDocuments(s) :
             /\ d.parent = Nowhere
             /\ \E name \in DOMAIN Suffixed : ref = <<name>> /\ d.file \in Suffixed[name]} =
          {d \in AllDocuments(s) :
             /\ d.index = Own
             /\ \E name \in DOMAIN Suffixed : ref = <<name>> /\ d.file \in Suffixed[name]}
      BY <2>1, Zenon
    <2>3. QED  BY <1>1, <2>2, Zenon DEF ServerResolves, LocalResolves
  <1>8. ASSUME NEW c \in AllChunks(s)
        PROVE  /\ ServerChunk(b, c.id) = {c} /\ ServerChunkAt(b, c.document, c.ordinal) = {c}
               /\ ServerSiblings(b, c) = LocalSiblings(s, c)
    <2>1. \A x \in AllChunks(s) : x.id = c.id => x = c  BY ChunkIds
    <2>2. \A x \in AllChunks(s) : x.document = c.document /\ x.ordinal = c.ordinal => x = c
      BY ChunkIds
    <2>3. ServerChunk(b, c.id) = {c}  BY <1>1, <2>1 DEF ServerChunk
    <2>4. ServerChunkAt(b, c.document, c.ordinal) = {c}  BY <1>1, <2>2 DEF ServerChunkAt
    <2>5. ServerSiblings(b, c) = LocalSiblings(s, c)
      BY <1>1 DEF ServerSiblings, LocalSiblings
    <2>6. QED  BY <2>3, <2>4, <2>5
  <1>9. QED  BY <1>2, <1>3, <1>5, <1>6, <1>7, <1>8 DEF SameLookups

LEMMA VectorsOfBuild ==
    ASSUME NEW s \in Stagings, NEW b, MatchesOn(records, b, s, HeldFiles(s))
    PROVE  SameVectors(b, s)
  <1> SUFFICES ASSUME NEW fp \in Embedders
               PROVE  ServerVectors(b, fp) =
                        IF fp = Fingerprint(s) THEN LocalVectors(s, fp) ELSE {}
    BY DEF SameVectors
  <1>1. fp # NoEmbedder  BY RecordsAssumption DEF Embedders, NoEmbedder
  <1>2. \A made : VectorField(made, Fingerprint(s)) = fp <=> fp = Fingerprint(s) /\ made = fp
    BY <1>1, Zenon DEF VectorField, HasVector
  <1>3. EntitiesAt(b) = {EntityAnswer(s, e) : e \in AllEntities(s)}  BY RecordsOfBuild
  <1>4. \A e \in AllEntities(s) :
           /\ EntityAnswer(s, e).entity = e.id
           /\ EntityAnswer(s, e).embedding = fp <=> fp = Fingerprint(s) /\ s[e.file].entities = fp
    BY <1>2 DEF EntityAnswer
  <1>5. {<<"entity", d.entity>> : d \in {x \in EntitiesAt(b) : x.embedding = fp}} =
        IF fp = Fingerprint(s)
        THEN {<<"entity", e.id>> : e \in {x \in AllEntities(s) : s[x.file].entities = fp}} ELSE {}
    BY <1>3, <1>4
  <1>6. \A t : t \in ChunksAt(b) <=>
            \E c \in AllChunks(s), d \in AllDocuments(s) :
                d.id = c.document /\ t = ChunkAnswer(s, c, d)
    BY RecordsOfBuild
  <1>7. \A c \in AllChunks(s), d \in AllDocuments(s) :
           /\ ChunkAnswer(s, c, d).chunk = c.id
           /\ ChunkAnswer(s, c, d).embedding = fp <=> fp = Fingerprint(s) /\ s[c.file].chunks = fp
    BY <1>2 DEF ChunkAnswer
  <1>8. \A c \in AllChunks(s) : \E d \in AllDocuments(s) : d.id = c.document
    BY ChunkInRows, ChunkDocument, DocumentRows
  <1>9. {<<"chunk", d.chunk>> : d \in {x \in ChunksAt(b) : x.embedding = fp}} =
        IF fp = Fingerprint(s)
        THEN {<<"chunk", c.id>> : c \in {x \in AllChunks(s) : s[x.file].chunks = fp}} ELSE {}
    BY <1>6, <1>7, <1>8
  <1>10. QED  BY <1>5, <1>9, Zenon DEF ServerVectors, LocalVectors

\* What the linker finds is in chunks of documents that are there.
LEMMA LinkedDocument ==
    ASSUME NEW s \in Stagings, NEW l \in LinksIn(s)
    PROVE  \E d \in AllDocuments(s) : d.id = l.document
  <1>1. PICK x \in {y \in AllEntities(s) \X AllChunks(s) : <<y[2].text, y[1].qualified>> \in Names} :
            l = [id |-> <<x[1].id, x[2].id, {}>>, entity |-> x[1].id, document |-> x[2].document,
                 chunk |-> x[2].id]
    BY Zenon DEF LinksIn
  <1>2. x[2] \in AllChunks(s) /\ l.document = x[2].document  BY <1>1
  <1>3. QED  BY <1>2, ChunkInRows, ChunkDocument, DocumentRows

LEMMA LinksOfBuild ==
    ASSUME NEW b, NEW s \in Stagings, snapshots[b] = s, b \in generations,
           MatchesOn(records, b, s, HeldFiles(s))
    PROVE  SameLinks(b, s)
  <1> SUFFICES ASSUME NEW e \in AllEntities(s)
               PROVE  LET answered == ServerEntityLinks(b, b, e.id)
                          manual == {l \in manualLinks : l.entity = e.id}
                      IN /\ LocalEntityLinks(s, e.id) \subseteq answered
                         /\ {l[1] : l \in answered} = {l[1] : l \in LocalEntityLinks(s, e.id)} \cup
                              {l.id : l \in {x \in manual : \E d \in AllDocuments(s) : d.id = x.document}}
    BY Zenon DEF SameLinks
  <1> DEFINE Place(l) == {c.under : c \in {x \in AllChunks(s) : x.id = l.chunk}}
             Row(l) == <<l.id, l.document, Place(l)>>
             Automatic == {x \in LinksIn(s) : x.entity = e.id}
             Manual == {x \in {l \in manualLinks : l.entity = e.id} :
                            \E d \in AllDocuments(s) : d.id = x.document}
  <1>1. ServerDocumentRows(b) = AllDocuments(s) /\ ServerChunks(b) = AllChunks(s)
    BY RowsOfBuild
  <1>2. GenerationLinks(b) = LinksIn(s)  BY DEF GenerationLinks
  <1>3. \A l : {c.under : c \in ServerChunk(b, l.chunk)} = Place(l)
    BY <1>1 DEF ServerChunk
  <1>4. {x \in GenerationLinks(b) \cup manualLinks :
            x.entity = e.id /\ \E d \in ServerDocumentRows(b) : d.id = x.document} =
        Automatic \cup Manual
    BY <1>1, <1>2, LinkedDocument
  <1>5. LocalEntityLinks(s, e.id) = {Row(l) : l \in Automatic}
    BY DEF LocalEntityLinks
  <1>6. ServerEntityLinks(b, b, e.id) = {Row(l) : l \in Automatic \cup Manual}
    <2>1. \A l : <<l.id, l.document, {c.under : c \in ServerChunk(b, l.chunk)}>> = Row(l)
      BY <1>3, Zenon
    <2> HIDE DEF Row, Automatic, Manual
    <2>2. QED  BY <1>4, <2>1 DEF ServerEntityLinks
  <1>7. \A l : Row(l)[1] = l.id  OBVIOUS
  <1> HIDE DEF Row, Automatic
  <1>8. QED  BY <1>5, <1>6, <1>7

LEMMA ListingOfBuild ==
    ASSUME NEW b, NEW s \in Stagings, NEW visible \in BOOLEAN, snapshots[b] = s,
           MatchesOn(records, b, s, HeldFiles(s)),
           IF visible THEN catalog.graph = b /\ b \in generations
           ELSE catalog.graph \notin generations
    PROVE  SameListing(b, s, visible)
  <1> SUFFICES ASSUME NEW ref
               PROVE  LET listed == ServerLinkRows(b, catalog.graph, ref)
                          named == {e.id : e \in EntityNamed(b, ref)}
                      IN /\ LocalLinkRows(s, visible, ref) \subseteq listed
                         /\ {r[1] : r \in listed} = {r[1] : r \in LocalLinkRows(s, visible, ref)} \cup
                              {l.id : l \in {x \in manualLinks : x.entity \in named}}
    BY Zenon DEF SameListing
  <1> DEFINE Row(l) == <<l.id, l.entity, {e.qualified : e \in {x \in AllEntities(s) : x.id = l.entity}},
                         l.document, {d.file : d \in {x \in AllDocuments(s) : x.id = l.document}},
                         l.chunk>>
             named == {e.id : e \in EntityNamed(b, ref)}
             Automatic == {x \in LinksIn(s) : visible /\ x.entity \in named}
             Manual == {x \in manualLinks : x.entity \in named}
  <1>1. ServerEntities(b) = AllEntities(s) /\ ServerDocumentRows(b) = AllDocuments(s)
    BY RowsOfBuild
  <1>2. GenerationLinks(catalog.graph) = IF visible THEN LinksIn(s) ELSE {}
    BY Zenon DEF GenerationLinks
  <1>3. EntityNamed(b, ref) =
          LET byId == {e \in AllEntities(s) : e.id = ref}
          IN IF byId # {} THEN byId ELSE {e \in AllEntities(s) : ref = <<e.name>>}
    BY <1>1, Zenon DEF EntityNamed, ServerEntity
  <1>4. LocalLinkRows(s, visible, ref) = {Row(l) : l \in Automatic}
    BY <1>3, Zenon DEF LocalLinkRows
  <1>5. \A l : <<l.id, l.entity, {e.qualified : e \in ServerEntity(b, l.entity)}, l.document,
                 {d.file : d \in {x \in ServerDocumentRows(b) : x.id = l.document}}, l.chunk>> = Row(l)
    BY <1>1, Zenon DEF ServerEntity
  <1>6. {x \in GenerationLinks(catalog.graph) \cup manualLinks : x.entity \in named} =
        Automatic \cup Manual
    BY <1>2
  <1>7. ServerLinkRows(b, catalog.graph, ref) = {Row(l) : l \in Automatic \cup Manual}
    <2> HIDE DEF Row, Automatic, Manual
    <2>1. QED  BY <1>5, <1>6 DEF ServerLinkRows
  <1>8. \A l : Row(l)[1] = l.id  OBVIOUS
  <1> HIDE DEF Row, Automatic, named
  <1>9. QED  BY <1>4, <1>7, <1>8 DEF named

-----------------------------------------------------------------------------
(* The inductive invariant.                                                  *)

Fingerprints == {NoEmbedder} \cup {Fingerprint(s) : s \in Stagings}
Record == [builds : SUBSET Versions, row : StagedRow, fp : Fingerprints]
AnyVersion == {NoVersion} \cup Versions
PublishSteps == {"idle", "copy", "failed", "write", "collect"}

RecordTypes ==
    /\ staging \in Stagings /\ embedder \in Embedders
    /\ records \in [Versions -> [Volumes -> Record]]
    /\ snapshots \in [Versions -> Stagings]
    /\ catalog \in [active : AnyVersion, waiting : AnyVersion, retired : SUBSET Versions,
                    graph : AnyVersion]
    /\ publishing \in [at : PublishSteps, build : AnyVersion, full : BOOLEAN,
                       copy : SUBSET Volumes, write : SUBSET Volumes]
    /\ generations \subseteq Versions

\* Versions are given out in order, and one that waits is not read.
VersionsKnown ==
    /\ catalog.active <= publishing.build /\ catalog.waiting <= publishing.build
    /\ catalog.graph <= publishing.build
    /\ \A b \in catalog.retired : b <= publishing.build
    /\ \A w \in Versions, f \in Volumes :
          /\ w > publishing.build => records[w][f].builds = {}
          /\ \A b \in records[w][f].builds : b <= publishing.build
    /\ catalog.waiting \notin Readable

\* A build that may be read has the records of what it was published from.
ReadableMatches ==
    \A b \in Readable : MatchesOn(records, b, snapshots[b], HeldFiles(snapshots[b]))

\* A build in progress is not read yet, and no other build has its records.
InProgress ==
    publishing.at \in {"copy", "failed", "write"} =>
        /\ publishing.build \in Versions /\ catalog.waiting = publishing.build
        /\ catalog.graph # publishing.build
        /\ \A f \in Volumes : records[publishing.build][f].builds \subseteq {publishing.build}

\* What will be copied has the digest of what is staged, nothing is yet.
CopyTrue ==
    publishing.at = "copy" =>
        /\ \A w \in Versions, f \in Volumes : publishing.build \notin records[w][f].builds
        /\ publishing.copy \subseteq HeldFiles(staging)
        /\ publishing.write = HeldFiles(staging) \ publishing.copy
        /\ \A f \in publishing.copy :
              /\ catalog.active # NoVersion
              /\ f \in HeldFiles(snapshots[catalog.active])
              /\ KnowledgeDigest(f, snapshots[catalog.active][f],
                                 Fingerprint(snapshots[catalog.active])) =
                 KnowledgeDigest(f, staging[f], Fingerprint(staging))

\* What is not to be written any more is there as staged.
WriteTrue ==
    publishing.at = "write" =>
        /\ publishing.write \subseteq HeldFiles(staging)
        /\ MatchesOn(records, publishing.build, staging, HeldFiles(staging) \ publishing.write)

CollectTrue ==
    publishing.at = "collect" => /\ catalog.active = publishing.build
                                 /\ catalog.graph # catalog.active

\* The graph of the active build is a generation that is there.
GraphLinked ==
    catalog.graph # NoVersion /\ catalog.graph = catalog.active => catalog.active \in generations

PinsKept == {l.id : l \in manualLinks} = pinned

RecordsInv ==
    /\ RecordTypes /\ VersionsKnown /\ ReadableMatches /\ InProgress /\ CopyTrue /\ WriteTrue
    /\ CollectTrue /\ GraphLinked /\ PinsKept

-----------------------------------------------------------------------------
(* What the invariant gives.                                                 *)

LEMMA ReadableVersions ==
    ASSUME RecordTypes
    PROVE  /\ Readable \subseteq Versions
           /\ catalog.active # NoVersion <=> catalog.active \in Readable
           /\ NoVersion \notin Versions
  <1>1. catalog.active \in AnyVersion /\ catalog.retired \subseteq Versions  BY DEF RecordTypes
  <1>2. NoVersion \notin Versions  BY RecordsAssumption DEF NoVersion, Versions
  <1>3. QED  BY <1>1, <1>2 DEF Readable, AnyVersion

\* A build that may be read answers as what it was published from.
LEMMA InvariantAnswers ==
    ASSUME RecordsInv
    PROVE  RecordsRight
  <1>1. ASSUME NEW b \in Readable
        PROVE  /\ ServerRows(b) = LocalRows(snapshots[b]) /\ SameLookups(b, snapshots[b])
               /\ SameVectors(b, snapshots[b])
    <2>1. snapshots[b] \in Stagings  BY ReadableVersions DEF RecordsInv, RecordTypes
    <2>2. MatchesOn(records, b, snapshots[b], HeldFiles(snapshots[b]))
      BY DEF RecordsInv, ReadableMatches
    <2>3. QED  BY <2>1, <2>2, SameRows, LookupsOfBuild, VectorsOfBuild
  <1>2. ASSUME catalog.active # NoVersion, catalog.graph = catalog.active
        PROVE  SameLinks(catalog.active, snapshots[catalog.active])
    <2>1. catalog.active \in Readable  BY <1>2, ReadableVersions DEF RecordsInv
    <2>2. snapshots[catalog.active] \in Stagings
      BY <2>1, ReadableVersions DEF RecordsInv, RecordTypes
    <2>3. MatchesOn(records, catalog.active, snapshots[catalog.active],
                    HeldFiles(snapshots[catalog.active]))
      BY <2>1 DEF RecordsInv, ReadableMatches
    <2>4. catalog.active \in generations  BY <1>2 DEF RecordsInv, GraphLinked
    <2>5. QED  BY <2>2, <2>3, <2>4, LinksOfBuild
  <1>3. ASSUME catalog.active # NoVersion, catalog.graph \in {NoVersion, catalog.active}
        PROVE  SameListing(catalog.active, snapshots[catalog.active], catalog.graph # NoVersion)
    <2>1. catalog.active \in Readable  BY <1>3, ReadableVersions DEF RecordsInv
    <2>2. snapshots[catalog.active] \in Stagings
      BY <2>1, ReadableVersions DEF RecordsInv, RecordTypes
    <2>3. MatchesOn(records, catalog.active, snapshots[catalog.active],
                    HeldFiles(snapshots[catalog.active]))
      BY <2>1 DEF RecordsInv, ReadableMatches
    <2>4. IF catalog.graph # NoVersion
          THEN catalog.graph = catalog.active /\ catalog.active \in generations
          ELSE catalog.graph \notin generations
      <3>1. CASE catalog.graph = NoVersion
        BY <3>1, ReadableVersions DEF RecordsInv, RecordTypes
      <3>2. CASE catalog.graph # NoVersion
        BY <1>3, <3>2 DEF RecordsInv, GraphLinked
      <3>3. QED  BY <3>1, <3>2
    <2>5. (catalog.graph # NoVersion) \in BOOLEAN  OBVIOUS
    <2>6. QED  BY <2>2, <2>3, <2>4, <2>5, ListingOfBuild
  <1>4. {l.id : l \in manualLinks} = pinned  BY DEF RecordsInv, PinsKept
  <1>5. QED  BY <1>1, <1>2, <1>3, <1>4 DEF RecordsRight

LEMMA FingerprintTyped ==
    ASSUME NEW s \in Stagings
    PROVE  Fingerprint(s) \in Fingerprints
  BY DEF Fingerprints

LEMMA UnwrittenTyped == Unwritten \in Record
  BY DEF Unwritten, Record, Unstaged, StagedRow, Fingerprints

\* Replacing the builds of records leaves the rest of those that stay.
LEMMA BuildsReplaced ==
    ASSUME records \in [Versions -> [Volumes -> Record]],
           NEW builds \in [Versions -> [Volumes -> SUBSET Versions]]
    PROVE  /\ WithBuilds(builds) \in [Versions -> [Volumes -> Record]]
           /\ \A w \in Versions, f \in Volumes :
                 /\ WithBuilds(builds)[w][f].builds = builds[w][f]
                 /\ builds[w][f] # {} => /\ WithBuilds(builds)[w][f].row = records[w][f].row
                                         /\ WithBuilds(builds)[w][f].fp = records[w][f].fp
  <1>1. ASSUME NEW w \in Versions, NEW f \in Volumes
        PROVE  /\ WithBuilds(builds)[w][f] =
                    IF builds[w][f] = {} THEN Unwritten
                    ELSE [records[w][f] EXCEPT !.builds = builds[w][f]]
               /\ records[w][f] \in Record /\ builds[w][f] \in SUBSET Versions
    BY DEF WithBuilds
  <1>2. ASSUME NEW w \in Versions, NEW f \in Volumes
        PROVE  /\ WithBuilds(builds)[w][f] \in Record
               /\ WithBuilds(builds)[w][f].builds = builds[w][f]
               /\ builds[w][f] # {} => /\ WithBuilds(builds)[w][f].row = records[w][f].row
                                       /\ WithBuilds(builds)[w][f].fp = records[w][f].fp
    <2>1. CASE builds[w][f] = {}
      <3>1. WithBuilds(builds)[w][f] = Unwritten  BY <1>1, <2>1, Zenon
      <3>2. Unwritten.builds = {}  BY DEF Unwritten
      <3>3. QED  BY <2>1, <3>1, <3>2, UnwrittenTyped, Zenon
    <2>2. CASE builds[w][f] # {}
      <3> DEFINE was == records[w][f]
                 now == [was EXCEPT !.builds = builds[w][f]]
      <3>1. WithBuilds(builds)[w][f] = now  BY <1>1, <2>2, Zenon
      <3>2. was \in Record /\ builds[w][f] \in SUBSET Versions  BY <1>1
      <3> HIDE DEF was
      <3>3. now \in Record /\ now.builds = builds[w][f] /\ now.row = was.row /\ now.fp = was.fp
        BY <3>2 DEF Record
      <3> HIDE DEF now
      <3>4. QED  BY <3>1, <3>3, Zenon DEF was
    <2>3. QED  BY <2>1, <2>2
  <1>3. WithBuilds(builds) =
          [w \in Versions |-> [f \in Volumes |-> WithBuilds(builds)[w][f]]]
    BY DEF WithBuilds
  <1>4. QED  BY <1>2, <1>3

\* What records say of a build is what they said.
LEMMA MatchKept ==
    ASSUME NEW recs, NEW b, NEW s, NEW F, MatchesOn(records, b, s, F), F \subseteq Volumes,
           \A w \in Versions, f \in Volumes :
              /\ b \in recs[w][f].builds <=> b \in records[w][f].builds
              /\ b \in recs[w][f].builds => /\ recs[w][f].row = records[w][f].row
                                            /\ recs[w][f].fp = records[w][f].fp
    PROVE  MatchesOn(recs, b, s, F)
  BY DEF MatchesOn

LEMMA DetachedBuilds ==
    ASSUME RecordTypes, NEW v
    PROVE  /\ Detached(v) \in [Versions -> [Volumes -> Record]]
           /\ \A w \in Versions, f \in Volumes :
                 /\ Detached(v)[w][f].builds = records[w][f].builds \ {v}
                 /\ Detached(v)[w][f].builds # {} =>
                       /\ Detached(v)[w][f].row = records[w][f].row
                       /\ Detached(v)[w][f].fp = records[w][f].fp
  <1> DEFINE builds == [w \in Versions |-> [f \in Volumes |-> records[w][f].builds \ {v}]]
  <1>1. records \in [Versions -> [Volumes -> Record]]  BY DEF RecordTypes
  <1>2. builds \in [Versions -> [Volumes -> SUBSET Versions]]  BY <1>1 DEF Record
  <1>3. \A w \in Versions, f \in Volumes : builds[w][f] = records[w][f].builds \ {v}  OBVIOUS
  <1>4. Detached(v) = WithBuilds(builds)  BY DEF Detached
  <1> HIDE DEF builds
  <1>5. /\ WithBuilds(builds) \in [Versions -> [Volumes -> Record]]
        /\ \A w \in Versions, f \in Volumes :
              /\ WithBuilds(builds)[w][f].builds = builds[w][f]
              /\ builds[w][f] # {} => /\ WithBuilds(builds)[w][f].row = records[w][f].row
                                      /\ WithBuilds(builds)[w][f].fp = records[w][f].fp
    BY <1>1, <1>2, BuildsReplaced
  <1>6. QED  BY <1>3, <1>4, <1>5

LEMMA SurvivingBuilds ==
    ASSUME RecordTypes, NEW keep
    PROVE  /\ Surviving(keep) \in [Versions -> [Volumes -> Record]]
           /\ \A w \in Versions, f \in Volumes :
                 /\ Surviving(keep)[w][f].builds =
                       IF records[w][f].builds \cap keep = {} THEN {} ELSE records[w][f].builds
                 /\ Surviving(keep)[w][f].builds # {} =>
                       /\ Surviving(keep)[w][f].row = records[w][f].row
                       /\ Surviving(keep)[w][f].fp = records[w][f].fp
  <1> DEFINE builds == [w \in Versions |-> [f \in Volumes |->
                          IF records[w][f].builds \cap keep = {} THEN {} ELSE records[w][f].builds]]
  <1>1. records \in [Versions -> [Volumes -> Record]]  BY DEF RecordTypes
  <1>2. builds \in [Versions -> [Volumes -> SUBSET Versions]]  BY <1>1 DEF Record
  <1>3. \A w \in Versions, f \in Volumes :
           builds[w][f] = IF records[w][f].builds \cap keep = {} THEN {} ELSE records[w][f].builds
    OBVIOUS
  <1>4. Surviving(keep) = WithBuilds(builds)  BY DEF Surviving
  <1> HIDE DEF builds
  <1>5. /\ WithBuilds(builds) \in [Versions -> [Volumes -> Record]]
        /\ \A w \in Versions, f \in Volumes :
              /\ WithBuilds(builds)[w][f].builds = builds[w][f]
              /\ builds[w][f] # {} => /\ WithBuilds(builds)[w][f].row = records[w][f].row
                                      /\ WithBuilds(builds)[w][f].fp = records[w][f].fp
    BY <1>1, <1>2, BuildsReplaced
  <1>6. QED  BY <1>3, <1>4, <1>5

\* The records recs are those of now, some of files F attached to v.
AttachedAs(recs, from, v, F, keep) ==
    /\ recs \in [Versions -> [Volumes -> Record]]
    /\ \A w \in Versions, f \in Volumes :
          /\ from \in records[w][f].builds /\ f \in F =>
                recs[w][f].builds = (records[w][f].builds \cap keep) \cup {v}
          /\ ~(from \in records[w][f].builds /\ f \in F) =>
                recs[w][f].builds = records[w][f].builds
          /\ recs[w][f].builds # {} => /\ recs[w][f].row = records[w][f].row
                                       /\ recs[w][f].fp = records[w][f].fp

LEMMA AttachedBuilds ==
    ASSUME RecordTypes, NEW from, NEW v \in Versions, NEW F, NEW keep
    PROVE  AttachedAs(Attached(from, v, F, keep), from, v, F, keep)
  <1> DEFINE builds == [w \in Versions |-> [f \in Volumes |->
                          IF from \in records[w][f].builds /\ f \in F
                          THEN (records[w][f].builds \cap keep) \cup {v} ELSE records[w][f].builds]]
  <1>1. records \in [Versions -> [Volumes -> Record]]  BY DEF RecordTypes
  <1>2. builds \in [Versions -> [Volumes -> SUBSET Versions]]  BY <1>1 DEF Record
  <1>3. \A w \in Versions, f \in Volumes :
           builds[w][f] = IF from \in records[w][f].builds /\ f \in F
                          THEN (records[w][f].builds \cap keep) \cup {v} ELSE records[w][f].builds
    OBVIOUS
  <1>4. Attached(from, v, F, keep) = WithBuilds(builds)  BY DEF Attached
  <1> HIDE DEF builds
  <1>5. /\ WithBuilds(builds) \in [Versions -> [Volumes -> Record]]
        /\ \A w \in Versions, f \in Volumes :
              /\ WithBuilds(builds)[w][f].builds = builds[w][f]
              /\ builds[w][f] # {} => /\ WithBuilds(builds)[w][f].row = records[w][f].row
                                      /\ WithBuilds(builds)[w][f].fp = records[w][f].fp
    BY <1>1, <1>2, BuildsReplaced
  <1> DEFINE A == Attached(from, v, F, keep)
  <1>6. A = WithBuilds(builds)  BY <1>4
  <1> HIDE DEF A
  <1>7. /\ A \in [Versions -> [Volumes -> Record]]
        /\ \A w \in Versions, f \in Volumes :
              /\ A[w][f].builds = builds[w][f]
              /\ builds[w][f] # {} => /\ A[w][f].row = records[w][f].row
                                      /\ A[w][f].fp = records[w][f].fp
    BY <1>5, <1>6
  <1>8. ASSUME NEW w \in Versions, NEW f \in Volumes
        PROVE  /\ from \in records[w][f].builds /\ f \in F =>
                     A[w][f].builds = (records[w][f].builds \cap keep) \cup {v}
               /\ ~(from \in records[w][f].builds /\ f \in F) =>
                     A[w][f].builds = records[w][f].builds
               /\ A[w][f].builds # {} => /\ A[w][f].row = records[w][f].row
                                         /\ A[w][f].fp = records[w][f].fp
    <2>1. A[w][f].builds = builds[w][f]  BY <1>7, Zenon
    <2>2. builds[w][f] = IF from \in records[w][f].builds /\ f \in F
                         THEN (records[w][f].builds \cap keep) \cup {v}
                         ELSE records[w][f].builds
      BY <1>3, Zenon
    <2>3. QED  BY <1>7, <2>1, <2>2, Zenon
  <1>9. QED  BY <1>7, <1>8, Zenon DEF A, AttachedAs

-----------------------------------------------------------------------------
(* The steps.                                                                *)

LEMMA RecordsInitially ==
    ASSUME RecordsInit
    PROVE  RecordsInv
  <1>1. /\ staging \in Stagings /\ 1 \in Versions /\ 1 \in Embedders /\ NoVersion \notin Versions
        /\ NoVersion = 0
    BY RecordsAssumption DEF RecordsInit, Stagings, Versions, Embedders, NoVersion
  <1>2. /\ catalog.active \in {NoVersion, 1} /\ publishing.build = catalog.active
        /\ catalog.waiting = NoVersion /\ catalog.retired = {} /\ catalog.graph = NoVersion
        /\ publishing.at = "idle"
    BY DEF RecordsInit, NoCatalog, NotPublishing
  <1>3. \A w \in Versions, f \in Volumes :
           records[w][f] = IF w = catalog.active /\ f \in HeldFiles(staging)
                           THEN [builds |-> {w}, row |-> staging[f], fp |-> Fingerprint(staging)]
                           ELSE Unwritten
    BY DEF RecordsInit, WrittenFor
  <1>4. records = [w \in Versions |-> [f \in Volumes |-> records[w][f]]]
    BY DEF RecordsInit, WrittenFor
  <1>5. \A w \in Versions, f \in Volumes :
           [builds |-> {w}, row |-> staging[f], fp |-> Fingerprint(staging)] \in Record
    BY <1>1, FingerprintTyped DEF Record, Stagings
  <1>6. RecordTypes
    <2>1. \A w \in Versions, f \in Volumes : records[w][f] \in Record
      BY <1>3, <1>5, UnwrittenTyped
    <2>2. records \in [Versions -> [Volumes -> Record]]  BY <1>4, <2>1
    <2>3. catalog \in [active : AnyVersion, waiting : AnyVersion, retired : SUBSET Versions,
                       graph : AnyVersion]
      BY <1>1 DEF RecordsInit, NoCatalog, AnyVersion
    <2>4. publishing \in [at : PublishSteps, build : AnyVersion, full : BOOLEAN,
                          copy : SUBSET Volumes, write : SUBSET Volumes]
      <3>1. NotPublishing \in [at : PublishSteps, build : AnyVersion, full : BOOLEAN,
                                copy : SUBSET Volumes, write : SUBSET Volumes]
        BY DEF NotPublishing, AnyVersion, PublishSteps
      <3>2. [NotPublishing EXCEPT !.build = 1] \in
                [at : PublishSteps, build : AnyVersion, full : BOOLEAN,
                 copy : SUBSET Volumes, write : SUBSET Volumes]
        BY <1>1 DEF NotPublishing, AnyVersion, PublishSteps
      <3>3. QED  BY <3>1, <3>2, Zenon DEF RecordsInit
    <2>5. QED  BY <1>1, <2>2, <2>3, <2>4 DEF RecordsInit, RecordTypes
  <1>7. \A w \in Versions, f \in Volumes :
           /\ records[w][f].builds = IF w = catalog.active /\ f \in HeldFiles(staging) THEN {w} ELSE {}
           /\ w = catalog.active /\ f \in HeldFiles(staging) =>
                 records[w][f].row = staging[f] /\ records[w][f].fp = Fingerprint(staging)
    <2>1. ASSUME NEW w \in Versions, NEW f \in Volumes, w = catalog.active /\ f \in HeldFiles(staging)
          PROVE  /\ records[w][f].builds = {w} /\ records[w][f].row = staging[f]
                 /\ records[w][f].fp = Fingerprint(staging)
      <3>1. records[w][f] = [builds |-> {w}, row |-> staging[f], fp |-> Fingerprint(staging)]
        BY <1>3, <2>1, Zenon
      <3>2. QED  BY <3>1
    <2>2. ASSUME NEW w \in Versions, NEW f \in Volumes,
                 ~(w = catalog.active /\ f \in HeldFiles(staging))
          PROVE  records[w][f].builds = {}
      <3>1. records[w][f] = Unwritten  BY <1>3, <2>2, Zenon
      <3>2. QED  BY <3>1 DEF Unwritten
    <2>3. QED  BY <2>1, <2>2
  <1>8. Readable \subseteq {catalog.active} /\ NoVersion \notin Readable
    BY <1>2 DEF Readable
  <1>9. VersionsKnown
    <2>1. publishing.build \in {0, 1}  BY <1>1, <1>2
    <2>2. \A w \in Versions, f \in Volumes :
             /\ w > publishing.build => records[w][f].builds = {}
             /\ \A b \in records[w][f].builds : b <= publishing.build
      <3>1. ASSUME NEW w \in Versions, NEW f \in Volumes, records[w][f].builds # {}
            PROVE  w = catalog.active /\ records[w][f].builds = {w}
        BY <1>7, <3>1
      <3>2. \A w \in Versions : w \in Nat  BY DEF Versions
      <3>3. QED  BY <1>2, <2>1, <3>1, <3>2
    <2>3. catalog.waiting \notin Readable  BY <1>2, <1>8
    <2>4. QED  BY <1>1, <1>2, <2>1, <2>2, <2>3 DEF VersionsKnown
  <1>10. ReadableMatches
    <2>1. ASSUME NEW b \in Readable
          PROVE  MatchesOn(records, b, snapshots[b], HeldFiles(snapshots[b]))
      <3>1. b = catalog.active /\ b \in Versions  BY <1>1, <1>2, <1>8
      <3>2. snapshots[b] = staging  BY <3>1 DEF RecordsInit
      <3>3. MatchesOn(records, b, staging, HeldFiles(staging))
        <4>1. HeldFiles(staging) \subseteq Volumes  BY DEF HeldFiles
        <4>2. QED  BY <1>7, <3>1, <4>1 DEF MatchesOn
      <3>4. QED  BY <3>2, <3>3
    <2>2. QED  BY <2>1 DEF ReadableMatches
  <1>11. InProgress /\ CopyTrue /\ WriteTrue /\ CollectTrue /\ GraphLinked
    BY <1>2 DEF InProgress, CopyTrue, WriteTrue, CollectTrue, GraphLinked
  <1>12. PinsKept  BY DEF RecordsInit, PinsKept
  <1>13. QED  BY <1>6, <1>9, <1>10, <1>11, <1>12 DEF RecordsInv

\* Between publications the staged build may become anything.
LEMMA EditKeeps ==
    ASSUME RecordsInv, publishing.at = "idle", staging' \in Stagings, embedder' \in Embedders,
           UNCHANGED <<linkVars, records, catalog, publishing, snapshots, pinned>>
    PROVE  RecordsInv'
  <1>1. /\ generations' = generations /\ manualLinks' = manualLinks /\ records' = records
        /\ catalog' = catalog /\ publishing' = publishing /\ snapshots' = snapshots
        /\ pinned' = pinned
    BY DEF linkVars
  <1>2. RecordTypes'  BY <1>1 DEF RecordsInv, RecordTypes
  <1>3. VersionsKnown'  BY <1>1 DEF RecordsInv, VersionsKnown, Readable
  <1>4. ReadableMatches'  BY <1>1 DEF RecordsInv, ReadableMatches, Readable
  <1>5. /\ InProgress' /\ CopyTrue' /\ WriteTrue' /\ CollectTrue'
    BY <1>1 DEF InProgress, CopyTrue, WriteTrue, CollectTrue
  <1>6. GraphLinked' /\ PinsKept'  BY <1>1 DEF RecordsInv, GraphLinked, PinsKept
  <1>7. QED  BY <1>2, <1>3, <1>4, <1>5, <1>6 DEF RecordsInv

LEMMA StagedRowTyped ==
    ASSUME RecordTypes, NEW f \in Volumes, NEW row \in StagedRow
    PROVE  [staging EXCEPT ![f] = row] \in Stagings
  BY DEF RecordTypes, Stagings

LEMMA EditVolumeKeeps ==
    ASSUME RecordsInv, NEW f \in Volumes,
           EditVolume(f) \/ TouchVolume(f) \/ FailVolume(f) \/ RemoveVolume(f) \/ EmbedVolume(f)
    PROVE  RecordsInv'
  <1>1. staging[f] \in StagedRow /\ embedder \in Embedders /\ Unstaged \in StagedRow
    BY DEF RecordsInv, RecordTypes, Stagings, Unstaged, StagedRow
  <1>2. ASSUME NEW row \in StagedRow, Staging(f, row) PROVE RecordsInv'
    <2>1. staging' \in Stagings  BY <1>2, StagedRowTyped DEF Staging, RecordsInv
    <2>2. QED  BY <1>1, <1>2, <2>1, EditKeeps DEF Staging
  <1>3. CASE EditVolume(f)
    <2>1. PICK e \in MayHold[f] :
              Staging(f, [Unstaged EXCEPT !.edition = e, !.stat = staging[f].stat])
      BY <1>3 DEF EditVolume
    <2>2. e \in Editions  BY RecordsAssumption
    <2>3. [Unstaged EXCEPT !.edition = e, !.stat = staging[f].stat] \in StagedRow
      BY <1>1, <2>2 DEF StagedRow
    <2>4. QED  BY <1>2, <2>1, <2>3
  <1>4. CASE TouchVolume(f)
    <2>1. [staging[f] EXCEPT !.stat = 1] \in StagedRow  BY <1>1 DEF StagedRow
    <2>2. QED  BY <1>2, <1>4, <2>1 DEF TouchVolume
  <1>5. CASE FailVolume(f)
    <2> DEFINE status == IF staging[f].status = "indexed" THEN "retry" ELSE "failed"
               row == [Unstaged EXCEPT !.edition = Unread, !.stat = staging[f].stat,
                                       !.status = status]
    <2>1. status \in {"indexed", "retry", "failed"}  OBVIOUS
    <2>2. Staging(f, row)  BY <1>5 DEF FailVolume
    <2> HIDE DEF status
    <2>3. row \in StagedRow  BY <1>1, <2>1, RecordsAssumption DEF StagedRow
    <2>4. QED  BY <1>2, <2>2, <2>3
  <1>6. CASE RemoveVolume(f)  BY <1>1, <1>2, <1>6 DEF RemoveVolume
  <1>7. CASE EmbedVolume(f)
    <2>1. /\ [staging[f] EXCEPT !.entities = embedder] \in StagedRow
          /\ [staging[f] EXCEPT !.chunks = embedder] \in StagedRow
      BY <1>1 DEF StagedRow
    <2>2. \/ staging' = [staging EXCEPT ![f] = [staging[f] EXCEPT !.entities = embedder]]
          \/ staging' = [staging EXCEPT ![f] = [staging[f] EXCEPT !.chunks = embedder]]
      BY <1>7 DEF EmbedVolume
    <2>3. staging' \in Stagings  BY <2>1, <2>2, StagedRowTyped DEF RecordsInv
    <2>4. QED  BY <1>1, <1>7, <2>3, EditKeeps DEF EmbedVolume
  <1>8. QED  BY <1>3, <1>4, <1>5, <1>6, <1>7

LEMMA ChangeEmbedderKeeps ==
    ASSUME RecordsInv, ChangeEmbedder
    PROVE  RecordsInv'
  <1>1. embedder' \in Embedders
    BY RecordsAssumption DEF RecordsInv, RecordTypes, ChangeEmbedder, Embedders
  <1>2. staging' \in Stagings  BY DEF RecordsInv, RecordTypes, ChangeEmbedder
  <1>3. QED  BY <1>1, <1>2, EditKeeps DEF ChangeEmbedder

LEMMA VersionNumbers ==
    /\ NoVersion = 0 /\ \A v \in AnyVersion : v \in Nat /\ v <= MaxVersions
    /\ \A v \in Nat : v # 0 /\ v <= MaxVersions => v \in Versions
    /\ Versions \subseteq AnyVersion /\ \A v \in Versions : v # 0
  BY RecordsAssumption DEF NoVersion, AnyVersion, Versions

LEMMA BeginKeeps ==
    ASSUME RecordsInv, NEW full \in BOOLEAN, BeginPublishing(full)
    PROVE  RecordsInv'
  <1> DEFINE B == publishing.build
             fp == Fingerprint(staging)
             same == {f \in HeldFiles(staging) :
                        /\ ~full /\ catalog.active # NoVersion
                        /\ KnowledgeDigest(f, staging[f], fp) \in ServerDigests}
             was == snapshots[catalog.active]
  <1>1. /\ RecordTypes /\ VersionsKnown /\ ReadableMatches /\ GraphLinked /\ PinsKept
    BY DEF RecordsInv
  <1>2. /\ publishing.at = "idle" /\ B + 1 <= MaxVersions
        /\ publishing' = [at |-> "copy", build |-> B + 1, full |-> full, copy |-> same,
                          write |-> HeldFiles(staging) \ same]
        /\ records' = IF catalog.waiting = NoVersion THEN records ELSE Detached(catalog.waiting)
        /\ catalog' = [catalog EXCEPT !.waiting = B + 1]
        /\ staging' = staging /\ embedder' = embedder /\ generations' = generations
        /\ manualLinks' = manualLinks /\ snapshots' = snapshots /\ pinned' = pinned
    BY DEF BeginPublishing, NextVersion, linkVars
  <1>3. /\ B \in AnyVersion /\ B \in Nat /\ B + 1 \in Versions /\ B + 1 # 0
        /\ \A w \in Versions : w \in Nat /\ w # 0
    <2>1. B \in AnyVersion  BY <1>1 DEF RecordTypes
    <2>2. B \in Nat /\ B + 1 \in Nat  BY <2>1, VersionNumbers
    <2>3. B + 1 # 0  BY <2>2
    <2>4. QED  BY <1>2, <2>1, <2>2, <2>3, VersionNumbers
  <1>4. /\ records' \in [Versions -> [Volumes -> Record]]
        /\ \A w \in Versions, f \in Volumes :
              /\ records'[w][f].builds = records[w][f].builds \ {catalog.waiting}
              /\ records'[w][f].builds # {} => /\ records'[w][f].row = records[w][f].row
                                               /\ records'[w][f].fp = records[w][f].fp
    <2>1. CASE catalog.waiting = NoVersion
      <3>1. \A w \in Versions, f \in Volumes : NoVersion \notin records[w][f].builds
        BY <1>1, ReadableVersions DEF RecordTypes, Record
      <3>2. records' = records  BY <1>2, <2>1
      <3>3. QED  BY <1>1, <2>1, <3>1, <3>2 DEF RecordTypes
    <2>2. CASE catalog.waiting # NoVersion
      <3>1. records' = Detached(catalog.waiting)  BY <1>2, <2>2
      <3>2. QED  BY <1>1, <3>1, DetachedBuilds
    <2>3. QED  BY <2>1, <2>2
  <1>5. /\ catalog.active \in AnyVersion /\ catalog.waiting \in AnyVersion
        /\ catalog.graph \in AnyVersion /\ catalog.retired \subseteq Versions
        /\ catalog'.active = catalog.active /\ catalog'.waiting = B + 1
        /\ catalog'.graph = catalog.graph /\ catalog'.retired = catalog.retired
        /\ catalog' \in [active : AnyVersion, waiting : AnyVersion, retired : SUBSET Versions,
                         graph : AnyVersion]
    BY <1>1, <1>2, <1>3, VersionNumbers DEF RecordTypes
  <1>6. same \subseteq HeldFiles(staging) /\ HeldFiles(staging) \subseteq Volumes
    BY DEF HeldFiles
  <1>7. RecordTypes'
    <2>1. publishing' \in [at : PublishSteps, build : AnyVersion, full : BOOLEAN,
                           copy : SUBSET Volumes, write : SUBSET Volumes]
      <3> HIDE DEF same
      <3>1. same \in SUBSET Volumes /\ HeldFiles(staging) \ same \in SUBSET Volumes  BY <1>6
      <3>2. B + 1 \in AnyVersion  BY <1>3, VersionNumbers
      <3> HIDE DEF B
      <3>3. QED  BY <1>2, <3>1, <3>2 DEF PublishSteps
    <2>2. QED  BY <1>1, <1>2, <1>4, <1>5, <2>1 DEF RecordTypes
  <1>8. Readable' = Readable  BY <1>5 DEF Readable
  <1>9. \A b \in Readable : b \in Versions /\ b <= B
    BY <1>1, ReadableVersions DEF VersionsKnown, Readable
  <1>10. publishing'.build = B + 1 /\ publishing'.at = "copy" /\ publishing'.copy = same
         /\ publishing'.write = HeldFiles(staging) \ same
    <2> HIDE DEF same, B
    <2>1. QED  BY <1>2
  <1>11. \A w \in Versions, f \in Volumes :
           /\ w > B => records[w][f].builds = {}
           /\ \A b \in records[w][f].builds : b <= B /\ b \in Nat
    BY <1>1, <1>3 DEF VersionsKnown, RecordTypes, Record
  <1>12. VersionsKnown'
    <2>1. \A w \in Versions, f \in Volumes :
            /\ w > B + 1 => records'[w][f].builds = {}
            /\ \A b \in records'[w][f].builds : b <= B + 1
      <3>1. ASSUME NEW w \in Versions, NEW f \in Volumes, w > B + 1
            PROVE  records'[w][f].builds = {}
        <4>1. w > B  BY <1>3, <3>1
        <4>2. records[w][f].builds = {}  BY <1>11, <4>1
        <4>3. QED  BY <1>4, <4>2
      <3>2. ASSUME NEW w \in Versions, NEW f \in Volumes, NEW b \in records'[w][f].builds
            PROVE  b <= B + 1
        <4>1. b \in records[w][f].builds  BY <1>4
        <4>2. QED  BY <1>3, <1>11, <4>1
      <3>3. QED  BY <3>1, <3>2
    <2>2. B + 1 \notin Readable  BY <1>3, <1>9
    <2>3. /\ catalog.active <= B + 1 /\ catalog.graph <= B + 1
          /\ \A b \in catalog.retired : b <= B + 1
      <3>1. /\ catalog.active <= B /\ catalog.graph <= B /\ \A b \in catalog.retired : b <= B
        BY <1>1 DEF VersionsKnown
      <3>2. catalog.active \in Nat /\ catalog.graph \in Nat /\ \A b \in catalog.retired : b \in Nat
        BY <1>5, <1>3, VersionNumbers
      <3>3. QED  BY <1>3, <3>1, <3>2
    <2>4. B + 1 <= B + 1  BY <1>3
    <2> HIDE DEF B
    <2>5. QED  BY <1>5, <1>8, <1>10, <2>1, <2>2, <2>3, <2>4 DEF VersionsKnown
  <1>13. ReadableMatches'
    <2>1. ASSUME NEW b \in Readable
          PROVE  MatchesOn(records', b, snapshots[b], HeldFiles(snapshots[b]))
      <3>1. MatchesOn(records, b, snapshots[b], HeldFiles(snapshots[b]))
        BY <1>1 DEF ReadableMatches
      <3>2. b # catalog.waiting  BY <1>1 DEF VersionsKnown
      <3>3. HeldFiles(snapshots[b]) \subseteq Volumes  BY DEF HeldFiles
      <3>4. \A w \in Versions, f \in Volumes :
               /\ b \in records'[w][f].builds <=> b \in records[w][f].builds
               /\ b \in records'[w][f].builds => /\ records'[w][f].row = records[w][f].row
                                                 /\ records'[w][f].fp = records[w][f].fp
        BY <1>4, <3>2
      <3>5. QED  BY <3>1, <3>3, <3>4, MatchKept
    <2>2. QED  BY <1>2, <1>8, <2>1 DEF ReadableMatches
  <1>14. \A w \in Versions, f \in Volumes : B + 1 \notin records'[w][f].builds
    BY <1>3, <1>4, <1>11
  <1>15. InProgress'
    <2>1. \A f \in Volumes : records'[B + 1][f].builds \subseteq {B + 1}
      <3>1. B + 1 > B  BY <1>3
      <3>2. \A f \in Volumes : records[B + 1][f].builds = {}  BY <1>3, <1>11, <3>1
      <3>3. QED  BY <1>3, <1>4, <3>2
    <2>2. catalog.graph # B + 1
      <3>1. catalog.graph <= B /\ catalog.graph \in Nat  BY <1>1, <1>5, VersionNumbers DEF VersionsKnown
      <3>2. QED  BY <1>3, <3>1
    <2> HIDE DEF B
    <2>3. QED  BY <1>3, <1>5, <1>10, <2>1, <2>2 DEF InProgress
  <1>16. ASSUME NEW f \in same
         PROVE  /\ catalog.active # NoVersion /\ f \in HeldFiles(was)
                /\ KnowledgeDigest(f, was[f], Fingerprint(was)) = KnowledgeDigest(f, staging[f], fp)
    <2>1. /\ catalog.active # NoVersion
          /\ KnowledgeDigest(f, staging[f], fp) \in ServerDigests
      OBVIOUS
    <2>2. catalog.active \in Readable /\ catalog.active \in Versions
      BY <1>1, <2>1, ReadableVersions
    <2>3. was \in Stagings  BY <1>1, <2>2 DEF RecordTypes
    <2>4. MatchesOn(records, catalog.active, was, HeldFiles(was))
      BY <1>1, <2>2 DEF ReadableMatches
    <2>5. FilesIn(catalog.active) = {FileDoc(g, was[g], Fingerprint(was)) : g \in HeldFiles(was)}
      BY <2>3, <2>4, RecordsOfBuild
    <2>6. PICK d \in FilesIn(catalog.active) : d.digest = KnowledgeDigest(f, staging[f], fp)
      BY <2>1 DEF ServerDigests
    <2>7. PICK g \in HeldFiles(was) : d = FileDoc(g, was[g], Fingerprint(was))  BY <2>5, <2>6
    <2>8. KnowledgeDigest(g, was[g], Fingerprint(was)) = KnowledgeDigest(f, staging[f], fp)
      BY <2>6, <2>7 DEF FileDoc
    <2>9. g = f  BY <2>8, DigestFed
    <2>10. QED  BY <2>1, <2>8, <2>9
  <1>17. CopyTrue'
    <2>1. \A f \in same :
             /\ catalog'.active # NoVersion /\ f \in HeldFiles(snapshots'[catalog'.active])
             /\ KnowledgeDigest(f, snapshots'[catalog'.active][f],
                                Fingerprint(snapshots'[catalog'.active])) =
                KnowledgeDigest(f, staging'[f], Fingerprint(staging'))
      <3>1. staging' = staging /\ snapshots'[catalog'.active] = was  BY <1>2, <1>5
      <3>2. QED  BY <1>5, <1>16, <3>1
    <2>2. HeldFiles(staging') = HeldFiles(staging)  BY <1>2
    <2> HIDE DEF same, B
    <2>3. QED  BY <1>6, <1>10, <1>14, <2>1, <2>2 DEF CopyTrue
  <1>18. WriteTrue' /\ CollectTrue'  BY <1>10 DEF WriteTrue, CollectTrue
  <1>19. GraphLinked' /\ PinsKept'  BY <1>1, <1>2, <1>5 DEF GraphLinked, PinsKept
  <1>20. QED  BY <1>7, <1>12, <1>13, <1>15, <1>17, <1>18, <1>19 DEF RecordsInv

\* What is attached to the build in progress is as it is staged.
LEMMA AttachKeeps ==
    ASSUME RecordsInv, publishing.at = "copy", NEW F \in SUBSET publishing.copy,
           NEW step \in {"write", "failed"}, step = "write" => F = publishing.copy,
           records' = Attached(catalog.active, publishing.build, F,
                               {catalog.active, publishing.build} \cup catalog.retired),
           publishing' = [publishing EXCEPT !.at = step],
           UNCHANGED <<staging, embedder, linkVars, catalog, snapshots, edits, pinned>>
    PROVE  RecordsInv'
  <1> DEFINE B == publishing.build
             older == catalog.active
             was == snapshots[catalog.active]
             keep == {catalog.active, publishing.build} \cup catalog.retired
  <1>1. /\ RecordTypes /\ VersionsKnown /\ ReadableMatches /\ InProgress /\ CopyTrue
        /\ GraphLinked /\ PinsKept
    BY DEF RecordsInv
  <1>2. /\ staging' = staging /\ embedder' = embedder /\ generations' = generations
        /\ manualLinks' = manualLinks /\ catalog' = catalog /\ snapshots' = snapshots
        /\ pinned' = pinned
    BY DEF linkVars
  <1>3. /\ B \in Versions /\ catalog.waiting = B /\ catalog.graph # B
        /\ \A f \in Volumes : records[B][f].builds \subseteq {B}
    BY <1>1 DEF InProgress
  <1>4. /\ \A w \in Versions, f \in Volumes : B \notin records[w][f].builds
        /\ publishing.copy \subseteq HeldFiles(staging)
        /\ publishing.write = HeldFiles(staging) \ publishing.copy
        /\ \A f \in publishing.copy :
              /\ older # NoVersion /\ f \in HeldFiles(was)
              /\ KnowledgeDigest(f, was[f], Fingerprint(was)) =
                 KnowledgeDigest(f, staging[f], Fingerprint(staging))
    BY <1>1 DEF CopyTrue
  <1>5. /\ records' \in [Versions -> [Volumes -> Record]]
        /\ \A w \in Versions, f \in Volumes :
              /\ older \in records[w][f].builds /\ f \in F =>
                    records'[w][f].builds = (records[w][f].builds \cap keep) \cup {B}
              /\ ~(older \in records[w][f].builds /\ f \in F) =>
                    records'[w][f].builds = records[w][f].builds
              /\ records'[w][f].builds # {} => /\ records'[w][f].row = records[w][f].row
                                               /\ records'[w][f].fp = records[w][f].fp
    <2>1. RecordTypes /\ B \in Versions  BY <1>1, <1>3
    <2>2. AttachedAs(Attached(older, B, F, keep), older, B, F, keep)
      <3> HIDE DEF B, older, keep
      <3>1. QED  BY <2>1, AttachedBuilds
    <2>3. records' = Attached(older, B, F, keep)  OBVIOUS
    <2> HIDE DEF B, older, keep
    <2>4. AttachedAs(records', older, B, F, keep)  BY <2>2, <2>3, Zenon
    <2>5. QED  BY <2>4 DEF AttachedAs
  <1>6. /\ publishing'.build = B /\ publishing'.at = step /\ publishing'.copy = publishing.copy
        /\ publishing'.write = publishing.write
        /\ publishing' \in [at : PublishSteps, build : AnyVersion, full : BOOLEAN,
                            copy : SUBSET Volumes, write : SUBSET Volumes]
    BY <1>1 DEF RecordTypes, PublishSteps
  <1>7. RecordTypes'  BY <1>1, <1>2, <1>5, <1>6 DEF RecordTypes
  <1>8. Readable' = Readable /\ Readable \subseteq keep /\ B \notin Readable
    BY <1>1, <1>2, <1>3 DEF Readable, VersionsKnown
  <1>9. \A w \in Versions, f \in Volumes :
           /\ records'[w][f].builds \subseteq records[w][f].builds \cup {B}
           /\ records[w][f].builds = {} => records'[w][f].builds = {}
           /\ \A b \in Readable : b \in records'[w][f].builds <=> b \in records[w][f].builds
    <2> HIDE DEF B, keep, older
    <2>1. ASSUME NEW w \in Versions, NEW f \in Volumes
          PROVE  /\ records'[w][f].builds \subseteq records[w][f].builds \cup {B}
                 /\ records[w][f].builds = {} => records'[w][f].builds = {}
                 /\ \A b \in Readable : b \in records'[w][f].builds <=> b \in records[w][f].builds
      <3>1. CASE older \in records[w][f].builds /\ f \in F
        <4>1. records'[w][f].builds = (records[w][f].builds \cap keep) \cup {B}  BY <1>5, <3>1
        <4>2. QED  BY <1>8, <3>1, <4>1
      <3>2. CASE ~(older \in records[w][f].builds /\ f \in F)
        <4>1. records'[w][f].builds = records[w][f].builds  BY <1>5, <3>2
        <4>2. QED  BY <4>1
      <3>3. QED  BY <3>1, <3>2
    <2>2. QED  BY <2>1
  <1>10. VersionsKnown'
    <2>1. B <= B  BY <1>3, VersionNumbers
    <2>2. /\ catalog.active <= B /\ catalog.waiting <= B /\ catalog.graph <= B
          /\ \A b \in catalog.retired : b <= B
          /\ \A w \in Versions, f \in Volumes :
                /\ w > B => records[w][f].builds = {}
                /\ \A b \in records[w][f].builds : b <= B
          /\ catalog.waiting \notin Readable
      BY <1>1 DEF VersionsKnown
    <2> HIDE DEF B
    <2>3. ASSUME NEW w \in Versions, NEW f \in Volumes
          PROVE  /\ w > B => records'[w][f].builds = {}
                 /\ \A b \in records'[w][f].builds : b <= B
      <3>1. \A b \in records'[w][f].builds : b \in records[w][f].builds \/ b = B  BY <1>9
      <3>2. QED  BY <1>9, <2>1, <2>2, <3>1
    <2>4. QED  BY <1>2, <1>6, <1>8, <2>2, <2>3 DEF VersionsKnown
  <1>11. ReadableMatches'
    <2>1. ASSUME NEW b \in Readable
          PROVE  MatchesOn(records', b, snapshots[b], HeldFiles(snapshots[b]))
      <3>1. MatchesOn(records, b, snapshots[b], HeldFiles(snapshots[b]))
        BY <1>1 DEF ReadableMatches
      <3>2. HeldFiles(snapshots[b]) \subseteq Volumes  BY DEF HeldFiles
      <3>3. \A w \in Versions, f \in Volumes :
               /\ b \in records'[w][f].builds <=> b \in records[w][f].builds
               /\ b \in records'[w][f].builds => /\ records'[w][f].row = records[w][f].row
                                                 /\ records'[w][f].fp = records[w][f].fp
        <4> HIDE DEF B, keep, older
        <4>1. ASSUME NEW w \in Versions, NEW f \in Volumes, b \in records'[w][f].builds
              PROVE  records'[w][f].row = records[w][f].row /\ records'[w][f].fp = records[w][f].fp
          BY <1>5, <4>1
        <4>2. QED  BY <1>9, <4>1
      <3>4. QED  BY <3>1, <3>2, <3>3, MatchKept
    <2>2. QED  BY <1>2, <1>8, <2>1 DEF ReadableMatches
  <1>12. InProgress'
    <2>1. \A f \in Volumes : records'[B][f].builds \subseteq {B}  BY <1>3, <1>9
    <2> HIDE DEF B
    <2>2. QED  BY <1>2, <1>3, <1>6, <2>1 DEF InProgress
  <1>13. WriteTrue'
    <2>1. ASSUME step = "write"
          PROVE  MatchesOn(records', B, staging, HeldFiles(staging) \ publishing.write)
      <3>1. F = publishing.copy /\ HeldFiles(staging) \ publishing.write = F
        BY <1>4, <2>1
      <3>2. \A w \in Versions, f \in Volumes :
               B \in records'[w][f].builds <=> older \in records[w][f].builds /\ f \in F
        <4> HIDE DEF B, keep, older
        <4>1. ASSUME NEW w \in Versions, NEW f \in Volumes
              PROVE  B \in records'[w][f].builds <=> older \in records[w][f].builds /\ f \in F
          <5>1. CASE older \in records[w][f].builds /\ f \in F
            <6>1. records'[w][f].builds = (records[w][f].builds \cap keep) \cup {B}
              BY <1>5, <5>1
            <6>2. QED  BY <5>1, <6>1
          <5>2. CASE ~(older \in records[w][f].builds /\ f \in F)
            <6>1. records'[w][f].builds = records[w][f].builds  BY <1>5, <5>2
            <6>2. QED  BY <1>4, <5>2, <6>1
          <5>3. QED  BY <5>1, <5>2
        <4>2. QED  BY <4>1
      <3>3. ASSUME NEW f \in F PROVE MatchesOn(records, older, was, HeldFiles(was))
        <4>1. older \in Readable  BY <1>1, <1>4, <3>3, ReadableVersions
        <4>2. QED  BY <1>1, <4>1 DEF ReadableMatches
      <3>4. ASSUME NEW w \in Versions, NEW f \in Volumes, B \in records'[w][f].builds
            PROVE  /\ f \in F
                   /\ KnowledgeDigest(f, records'[w][f].row, records'[w][f].fp) =
                      KnowledgeDigest(f, staging[f], Fingerprint(staging))
        <4>1. older \in records[w][f].builds /\ f \in F  BY <3>2, <3>4
        <4>2. KnowledgeDigest(f, records[w][f].row, records[w][f].fp) =
              KnowledgeDigest(f, was[f], Fingerprint(was))
          BY <3>3, <4>1 DEF MatchesOn
        <4>3. records'[w][f].row = records[w][f].row /\ records'[w][f].fp = records[w][f].fp
          BY <1>5, <3>4
        <4>4. QED  BY <1>4, <4>1, <4>2, <4>3
      <3>5. ASSUME NEW f \in F PROVE \E w \in Versions : B \in records'[w][f].builds
        <4>1. f \in HeldFiles(was)  BY <1>4
        <4>2. PICK w \in Versions : older \in records[w][f].builds
          BY <3>3, <4>1 DEF MatchesOn
        <4>3. f \in Volumes  BY <4>1 DEF HeldFiles
        <4>4. QED  BY <3>2, <4>2, <4>3
      <3> HIDE DEF B
      <3>6. MatchesOn(records', B, staging, F)  BY <3>4, <3>5 DEF MatchesOn
      <3>7. QED  BY <3>1, <3>6
    <2>2. publishing.write \subseteq HeldFiles(staging)  BY <1>4
    <2> HIDE DEF B
    <2>3. QED  BY <1>2, <1>6, <2>1, <2>2 DEF WriteTrue
  <1>14. CopyTrue' /\ CollectTrue'  BY <1>6 DEF CopyTrue, CollectTrue
  <1>15. GraphLinked' /\ PinsKept'  BY <1>1, <1>2 DEF GraphLinked, PinsKept
  <1>16. QED  BY <1>7, <1>10, <1>11, <1>12, <1>13, <1>14, <1>15 DEF RecordsInv

LEMMA CopyKeeps ==
    ASSUME RecordsInv, CopyRecords \/ CopyTimesOut
    PROVE  RecordsInv'
  <1>1. CASE CopyRecords
    <2>1. publishing.copy \in SUBSET publishing.copy  OBVIOUS
    <2>2. QED  BY <1>1, <2>1, AttachKeeps DEF CopyRecords
  <1>2. CASE CopyTimesOut
    <2>1. PICK F \in SUBSET publishing.copy :
              records' = Attached(catalog.active, publishing.build, F,
                                  {catalog.active, publishing.build} \cup catalog.retired)
      BY <1>2 DEF CopyTimesOut
    <2>2. QED  BY <1>2, <2>1, AttachKeeps DEF CopyTimesOut
  <1>3. QED  BY <1>1, <1>2

LEMMA WriteKeeps ==
    ASSUME RecordsInv, NEW f \in Volumes, WriteRecords(f)
    PROVE  RecordsInv'
  <1> DEFINE B == publishing.build
             new == [builds |-> {publishing.build}, row |-> staging[f], fp |-> Fingerprint(staging)]
  <1>1. /\ RecordTypes /\ VersionsKnown /\ ReadableMatches /\ InProgress /\ WriteTrue
        /\ GraphLinked /\ PinsKept
    BY DEF RecordsInv
  <1>2. /\ publishing.at = "write" /\ f \in publishing.write
        /\ records' = [records EXCEPT ![B][f] = new]
        /\ publishing' = [publishing EXCEPT !.write = publishing.write \ {f}]
        /\ staging' = staging /\ embedder' = embedder /\ generations' = generations
        /\ manualLinks' = manualLinks /\ catalog' = catalog /\ snapshots' = snapshots
        /\ pinned' = pinned
    BY DEF WriteRecords, linkVars
  <1>3. /\ B \in Versions /\ catalog.waiting = B /\ catalog.graph # B
        /\ \A g \in Volumes : records[B][g].builds \subseteq {B}
    BY <1>1, <1>2 DEF InProgress
  <1>4. /\ publishing.write \subseteq HeldFiles(staging)
        /\ MatchesOn(records, B, staging, HeldFiles(staging) \ publishing.write)
    BY <1>1, <1>2 DEF WriteTrue
  <1>5. /\ records' \in [Versions -> [Volumes -> Record]]
        /\ records'[B][f] = new
        /\ \A w \in Versions, g \in Volumes :
              w # B \/ g # f => records'[w][g] = records[w][g]
    <2>1. new \in Record
      BY <1>1, <1>3, FingerprintTyped DEF RecordTypes, Record, Stagings
    <2>2. records \in [Versions -> [Volumes -> Record]]  BY <1>1 DEF RecordTypes
    <2> HIDE DEF new, B
    <2>3. QED  BY <1>2, <1>3, <2>1, <2>2
  <1>6. /\ publishing'.build = B /\ publishing'.at = "write"
        /\ publishing'.write = publishing.write \ {f}
        /\ publishing' \in [at : PublishSteps, build : AnyVersion, full : BOOLEAN,
                            copy : SUBSET Volumes, write : SUBSET Volumes]
    BY <1>1, <1>2 DEF RecordTypes, PublishSteps
  <1>7. RecordTypes'  BY <1>1, <1>2, <1>5, <1>6 DEF RecordTypes
  <1>8. Readable' = Readable /\ B \notin Readable
    BY <1>1, <1>2, <1>3 DEF Readable, VersionsKnown
  <1>9. new.builds = {B} /\ new.row = staging[f] /\ new.fp = Fingerprint(staging)
    OBVIOUS
  <1>10. VersionsKnown'
    <2>1. B <= B /\ ~(B > B)  BY <1>3, VersionNumbers
    <2>2. /\ catalog.active <= B /\ catalog.waiting <= B /\ catalog.graph <= B
          /\ \A b \in catalog.retired : b <= B
          /\ \A w \in Versions, g \in Volumes :
                /\ w > B => records[w][g].builds = {}
                /\ \A b \in records[w][g].builds : b <= B
          /\ catalog.waiting \notin Readable
      BY <1>1 DEF VersionsKnown
    <2> HIDE DEF B, new
    <2>3. \A w \in Versions, g \in Volumes :
             /\ w > B => records'[w][g].builds = {}
             /\ \A b \in records'[w][g].builds : b <= B
      <3>1. ASSUME NEW w \in Versions, NEW g \in Volumes
            PROVE  /\ w > B => records'[w][g].builds = {}
                   /\ \A b \in records'[w][g].builds : b <= B
        <4>1. CASE w = B /\ g = f  BY <1>5, <1>9, <2>1, <4>1
        <4>2. CASE w # B \/ g # f  BY <1>5, <2>2, <4>2
        <4>3. QED  BY <4>1, <4>2
      <3>2. QED  BY <3>1
    <2>4. QED  BY <1>2, <1>6, <1>8, <2>2, <2>3 DEF VersionsKnown
  <1>11. ReadableMatches'
    <2>1. ASSUME NEW b \in Readable
          PROVE  MatchesOn(records', b, snapshots[b], HeldFiles(snapshots[b]))
      <3>1. MatchesOn(records, b, snapshots[b], HeldFiles(snapshots[b]))
        BY <1>1 DEF ReadableMatches
      <3>2. HeldFiles(snapshots[b]) \subseteq Volumes  BY DEF HeldFiles
      <3>3. ASSUME NEW w \in Versions, NEW g \in Volumes
            PROVE  /\ b \in records'[w][g].builds <=> b \in records[w][g].builds
                   /\ b \in records'[w][g].builds => /\ records'[w][g].row = records[w][g].row
                                                     /\ records'[w][g].fp = records[w][g].fp
        <4>1. CASE w = B /\ g = f
          <5>1. b # B  BY <1>8
          <5>2. b \notin records[w][g].builds  BY <1>3, <4>1, <5>1
          <5>3. records'[w][g].builds = {B}  BY <1>5, <1>9, <4>1
          <5>4. QED  BY <5>1, <5>2, <5>3
        <4>2. CASE w # B \/ g # f  BY <1>5, <4>2
        <4>3. QED  BY <4>1, <4>2
      <3>4. QED  BY <3>1, <3>2, <3>3, MatchKept
    <2>2. QED  BY <1>2, <1>8, <2>1 DEF ReadableMatches
  <1>12. InProgress'
    <2>1. \A g \in Volumes : records'[B][g].builds \subseteq {B}
      <3>1. ASSUME NEW g \in Volumes PROVE records'[B][g].builds \subseteq {B}
        <4>1. CASE g = f  BY <1>5, <1>9, <4>1
        <4>2. CASE g # f  BY <1>3, <1>5, <4>2
        <4>3. QED  BY <4>1, <4>2
      <3>2. QED  BY <3>1
    <2> HIDE DEF B
    <2>2. QED  BY <1>2, <1>3, <1>6, <2>1 DEF InProgress
  <1>13. WriteTrue'
    <2> DEFINE F == HeldFiles(staging) \ (publishing.write \ {f})
    <2>1. F = (HeldFiles(staging) \ publishing.write) \cup {f}  BY <1>2, <1>4
    <2> HIDE DEF F, new, B
    <2>2. ASSUME NEW w \in Versions, NEW g \in Volumes, B \in records'[w][g].builds
          PROVE  /\ g \in F
                 /\ KnowledgeDigest(g, records'[w][g].row, records'[w][g].fp) =
                    KnowledgeDigest(g, staging[g], Fingerprint(staging))
      <3>1. CASE w = B /\ g = f
        <4>1. /\ records'[w][g].row = staging[g] /\ records'[w][g].fp = Fingerprint(staging)
          BY <1>5, <1>9, <3>1
        <4>2. QED  BY <2>1, <3>1, <4>1
      <3>2. CASE w # B \/ g # f
        <4>1. records'[w][g] = records[w][g]  BY <1>5, <3>2
        <4>2. QED  BY <1>4, <2>1, <2>2, <4>1 DEF MatchesOn
      <3>3. QED  BY <3>1, <3>2
    <2>3. ASSUME NEW g \in F PROVE \E w \in Versions : B \in records'[w][g].builds
      <3>1. CASE g = f  BY <1>3, <1>5, <1>9, <3>1
      <3>2. CASE g # f
        <4>1. g \in HeldFiles(staging) \ publishing.write  BY <2>1, <3>2
        <4>2. PICK w \in Versions : B \in records[w][g].builds  BY <1>4, <4>1 DEF MatchesOn
        <4>3. g \in Volumes  BY <4>1 DEF HeldFiles
        <4>4. records'[w][g] = records[w][g]  BY <1>5, <3>2, <4>3
        <4>5. QED  BY <4>2, <4>4
      <3>3. QED  BY <3>1, <3>2
    <2>4. MatchesOn(records', B, staging, F)  BY <2>2, <2>3 DEF MatchesOn
    <2>5. publishing.write \ {f} \subseteq HeldFiles(staging)  BY <1>4
    <2>6. QED  BY <1>2, <1>6, <2>4, <2>5 DEF WriteTrue, F
  <1>14. CopyTrue' /\ CollectTrue'  BY <1>6 DEF CopyTrue, CollectTrue
  <1>15. GraphLinked' /\ PinsKept'  BY <1>1, <1>2 DEF GraphLinked, PinsKept
  <1>16. QED  BY <1>7, <1>10, <1>11, <1>12, <1>13, <1>14, <1>15 DEF RecordsInv

LEMMA SwapKeeps ==
    ASSUME RecordsInv, SwapVersion
    PROVE  RecordsInv'
  <1> DEFINE B == publishing.build
             retired == catalog.retired \cup ({catalog.active} \ {NoVersion})
  <1>1. /\ RecordTypes /\ VersionsKnown /\ ReadableMatches /\ InProgress /\ WriteTrue
        /\ GraphLinked /\ PinsKept
    BY DEF RecordsInv
  <1>2. /\ publishing.at = "write" /\ publishing.write = {}
        /\ snapshots' = [snapshots EXCEPT ![B] = staging]
        /\ publishing' = [publishing EXCEPT !.at = "collect"]
        /\ staging' = staging /\ embedder' = embedder /\ generations' = generations
        /\ manualLinks' = manualLinks /\ records' = records /\ pinned' = pinned
    BY DEF SwapVersion, linkVars
  <1>3. PICK kept \in SUBSET retired :
            catalog' = [catalog EXCEPT !.active = B, !.waiting = NoVersion, !.retired = kept]
    BY DEF SwapVersion
  <1>4. B \in Versions /\ catalog.waiting = B /\ catalog.graph # B
    BY <1>1, <1>2 DEF InProgress
  <1>5. MatchesOn(records, B, staging, HeldFiles(staging))
    <2>1. HeldFiles(staging) \ publishing.write = HeldFiles(staging)  BY <1>2
    <2>2. QED  BY <1>1, <1>2, <2>1, Zenon DEF WriteTrue
  <1>6. retired = Readable /\ Readable \subseteq Versions /\ B \notin Readable
    BY <1>1, <1>4, ReadableVersions DEF Readable, VersionsKnown
  <1>7. /\ catalog'.active = B /\ catalog'.waiting = NoVersion /\ catalog'.retired = kept
        /\ catalog'.graph = catalog.graph
        /\ catalog' \in [active : AnyVersion, waiting : AnyVersion, retired : SUBSET Versions,
                         graph : AnyVersion]
    <2>1. kept \in SUBSET Versions /\ B \in AnyVersion /\ NoVersion \in AnyVersion
      BY <1>4, <1>6 DEF AnyVersion
    <2> HIDE DEF B, retired
    <2>2. QED  BY <1>1, <1>3, <2>1 DEF RecordTypes
  <1>8. /\ publishing'.build = B /\ publishing'.at = "collect"
        /\ publishing' \in [at : PublishSteps, build : AnyVersion, full : BOOLEAN,
                            copy : SUBSET Volumes, write : SUBSET Volumes]
    BY <1>1, <1>2 DEF RecordTypes, PublishSteps
  <1>9. /\ snapshots' \in [Versions -> Stagings] /\ snapshots'[B] = staging
        /\ \A b \in Versions : b # B => snapshots'[b] = snapshots[b]
    BY <1>1, <1>2, <1>4 DEF RecordTypes
  <1>10. RecordTypes'  BY <1>1, <1>2, <1>7, <1>8, <1>9 DEF RecordTypes
  <1>11. Readable' \subseteq Readable \cup {B} /\ NoVersion \notin Readable'
    <2>1. Readable' = ({catalog'.active} \ {NoVersion}) \cup catalog'.retired  BY DEF Readable
    <2>2. B # NoVersion /\ NoVersion \notin Versions  BY <1>4, VersionNumbers
    <2>3. kept \subseteq Readable  BY <1>6
    <2> HIDE DEF B, retired
    <2>4. QED  BY <1>6, <1>7, <2>1, <2>2, <2>3
  <1>12. VersionsKnown'
    <2>1. /\ B <= B /\ NoVersion <= B /\ B \in Nat
      BY <1>4, VersionNumbers
    <2>2. /\ catalog.active <= B /\ catalog.graph <= B
          /\ \A b \in catalog.retired : b <= B
          /\ \A w \in Versions, f \in Volumes :
                /\ w > B => records[w][f].builds = {}
                /\ \A b \in records[w][f].builds : b <= B
      BY <1>1 DEF VersionsKnown
    <2>3. \A b \in kept : b <= B  BY <2>2
    <2> HIDE DEF B, retired
    <2>4. QED  BY <1>2, <1>7, <1>8, <1>11, <2>1, <2>2, <2>3 DEF VersionsKnown
  <1>13. ReadableMatches'
    <2>1. ASSUME NEW b \in Readable'
          PROVE  MatchesOn(records', b, snapshots'[b], HeldFiles(snapshots'[b]))
      <3>1. CASE b = B
        <4>1. snapshots'[b] = staging  BY <1>9, <3>1
        <4>2. QED  BY <1>2, <1>5, <3>1, <4>1
      <3>2. CASE b # B
        <4>1. b \in Readable  BY <1>11, <2>1, <3>2
        <4>2. snapshots'[b] = snapshots[b]  BY <1>6, <1>9, <3>2, <4>1
        <4>3. MatchesOn(records, b, snapshots[b], HeldFiles(snapshots[b]))
          BY <1>1, <4>1 DEF ReadableMatches
        <4>4. QED  BY <1>2, <4>2, <4>3
      <3>3. QED  BY <3>1, <3>2
    <2>2. QED  BY <2>1 DEF ReadableMatches
  <1>14. CollectTrue'
    <2> HIDE DEF B
    <2>1. QED  BY <1>4, <1>7, <1>8 DEF CollectTrue
  <1>15. InProgress' /\ CopyTrue' /\ WriteTrue'
    BY <1>8 DEF InProgress, CopyTrue, WriteTrue
  <1>16. GraphLinked'
    <2> HIDE DEF B
    <2>1. QED  BY <1>4, <1>7 DEF GraphLinked
  <1>17. PinsKept'  BY <1>1, <1>2 DEF PinsKept
  <1>18. QED  BY <1>10, <1>12, <1>13, <1>14, <1>15, <1>16, <1>17 DEF RecordsInv

\* The publication ends: no step is left, the active build may be new.
NoMore == publishing' = [NotPublishing EXCEPT !.build = publishing.build]

LEMMA NoMoreTyped ==
    ASSUME RecordTypes, NoMore
    PROVE  /\ publishing'.at = "idle" /\ publishing'.build = publishing.build
           /\ publishing' \in [at : PublishSteps, build : AnyVersion, full : BOOLEAN,
                               copy : SUBSET Volumes, write : SUBSET Volumes]
  <1>1. publishing.build \in AnyVersion  BY DEF RecordTypes
  <1>2. QED  BY <1>1 DEF NoMore, NotPublishing, PublishSteps

\* Builds are taken from records, none of one that may be read.
LEMMA EndKeeps ==
    ASSUME RecordsInv, NoMore,
           records' \in [Versions -> [Volumes -> Record]],
           \A w \in Versions, f \in Volumes :
              /\ records'[w][f].builds \subseteq records[w][f].builds
              /\ \A b \in Readable : b \in records[w][f].builds => b \in records'[w][f].builds
              /\ records'[w][f].builds # {} => /\ records'[w][f].row = records[w][f].row
                                               /\ records'[w][f].fp = records[w][f].fp,
           catalog' \in {catalog, [catalog EXCEPT !.waiting = NoVersion]},
           generations' \in {generations, {}}, GraphLinked',
           UNCHANGED <<staging, embedder, manualLinks, snapshots, pinned>>
    PROVE  RecordsInv'
  <1> DEFINE B == publishing.build
  <1>1. /\ RecordTypes /\ VersionsKnown /\ ReadableMatches /\ PinsKept
    BY DEF RecordsInv
  <1>2. /\ publishing'.at = "idle" /\ publishing'.build = B
        /\ publishing' \in [at : PublishSteps, build : AnyVersion, full : BOOLEAN,
                            copy : SUBSET Volumes, write : SUBSET Volumes]
    BY <1>1, NoMoreTyped
  <1>3. /\ catalog'.active = catalog.active /\ catalog'.retired = catalog.retired
        /\ catalog'.graph = catalog.graph /\ catalog'.waiting \in {catalog.waiting, NoVersion}
        /\ catalog' \in [active : AnyVersion, waiting : AnyVersion, retired : SUBSET Versions,
                         graph : AnyVersion]
    <2>1. NoVersion \in AnyVersion  BY DEF AnyVersion
    <2>2. CASE catalog' = catalog  BY <1>1, <2>2 DEF RecordTypes
    <2>3. CASE catalog' = [catalog EXCEPT !.waiting = NoVersion]
      BY <1>1, <2>1, <2>3 DEF RecordTypes
    <2>4. QED  BY <2>2, <2>3
  <1>4. RecordTypes'  BY <1>1, <1>2, <1>3 DEF RecordTypes
  <1>5. Readable' = Readable /\ NoVersion \notin Readable
    BY <1>1, <1>3, ReadableVersions DEF Readable
  <1>6. VersionsKnown'
    <2>1. /\ catalog.active <= B /\ catalog.waiting <= B /\ catalog.graph <= B
          /\ \A b \in catalog.retired : b <= B
          /\ \A w \in Versions, f \in Volumes :
                /\ w > B => records[w][f].builds = {}
                /\ \A b \in records[w][f].builds : b <= B
          /\ catalog.waiting \notin Readable
      BY <1>1 DEF VersionsKnown
    <2>2. NoVersion <= B  BY <1>1, VersionNumbers DEF RecordTypes
    <2> HIDE DEF B
    <2>3. \A w \in Versions, f \in Volumes :
                /\ w > B => records'[w][f].builds = {}
                /\ \A b \in records'[w][f].builds : b <= B
      BY <2>1
    <2>4. QED  BY <1>2, <1>3, <1>5, <2>1, <2>2, <2>3 DEF VersionsKnown
  <1>7. ReadableMatches'
    <2>1. ASSUME NEW b \in Readable
          PROVE  MatchesOn(records', b, snapshots[b], HeldFiles(snapshots[b]))
      <3>1. MatchesOn(records, b, snapshots[b], HeldFiles(snapshots[b]))
        BY <1>1 DEF ReadableMatches
      <3>2. HeldFiles(snapshots[b]) \subseteq Volumes  BY DEF HeldFiles
      <3>3. ASSUME NEW w \in Versions, NEW f \in Volumes
            PROVE  /\ b \in records'[w][f].builds <=> b \in records[w][f].builds
                   /\ b \in records'[w][f].builds => /\ records'[w][f].row = records[w][f].row
                                                     /\ records'[w][f].fp = records[w][f].fp
        <4>1. /\ records'[w][f].builds \subseteq records[w][f].builds
              /\ b \in records[w][f].builds => b \in records'[w][f].builds
              /\ records'[w][f].builds # {} => /\ records'[w][f].row = records[w][f].row
                                               /\ records'[w][f].fp = records[w][f].fp
          OBVIOUS
        <4>2. QED  BY <4>1
      <3>4. QED  BY <3>1, <3>2, <3>3, MatchKept
    <2>2. QED  BY <1>5, <2>1 DEF ReadableMatches
  <1>8. InProgress' /\ CopyTrue' /\ WriteTrue' /\ CollectTrue'
    BY <1>2 DEF InProgress, CopyTrue, WriteTrue, CollectTrue
  <1>9. PinsKept'  BY <1>1 DEF PinsKept
  <1>10. QED  BY <1>4, <1>6, <1>7, <1>8, <1>9 DEF RecordsInv

LEMMA CollectKeeps ==
    ASSUME RecordsInv, CollectVersions
    PROVE  RecordsInv'
  <1> DEFINE keep == {catalog.active} \cup catalog.retired
  <1>1. RecordTypes /\ CollectTrue  BY DEF RecordsInv
  <1>2. /\ publishing.at = "collect" /\ records' = Surviving(keep) /\ generations' = {}
        /\ NoMore /\ catalog' = catalog
        /\ UNCHANGED <<staging, embedder, manualLinks, snapshots, pinned>>
    BY DEF CollectVersions, NoMore
  <1>3. Readable \subseteq keep  BY DEF Readable
  <1> HIDE DEF keep
  <1>4. /\ records' \in [Versions -> [Volumes -> Record]]
        /\ \A w \in Versions, f \in Volumes :
              /\ records'[w][f].builds =
                    IF records[w][f].builds \cap keep = {} THEN {} ELSE records[w][f].builds
              /\ records'[w][f].builds # {} => /\ records'[w][f].row = records[w][f].row
                                               /\ records'[w][f].fp = records[w][f].fp
    BY <1>1, <1>2, SurvivingBuilds
  <1>5. \A w \in Versions, f \in Volumes :
           /\ records'[w][f].builds \subseteq records[w][f].builds
           /\ \A b \in Readable : b \in records[w][f].builds => b \in records'[w][f].builds
           /\ records'[w][f].builds # {} => /\ records'[w][f].row = records[w][f].row
                                            /\ records'[w][f].fp = records[w][f].fp
    <2>1. ASSUME NEW w \in Versions, NEW f \in Volumes
          PROVE  /\ records'[w][f].builds \subseteq records[w][f].builds
                 /\ \A b \in Readable : b \in records[w][f].builds => b \in records'[w][f].builds
      <3>1. CASE records[w][f].builds \cap keep = {}
        <4>1. records'[w][f].builds = {}  BY <1>4, <3>1
        <4>2. QED  BY <1>3, <3>1, <4>1
      <3>2. CASE records[w][f].builds \cap keep # {}
        <4>1. records'[w][f].builds = records[w][f].builds  BY <1>4, <3>2
        <4>2. QED  BY <4>1
      <3>3. QED  BY <3>1, <3>2
    <2>2. QED  BY <1>4, <2>1
  <1>6. GraphLinked'
    <2>1. catalog.graph # catalog.active  BY <1>1, <1>2 DEF CollectTrue
    <2>2. QED  BY <1>2, <2>1 DEF GraphLinked
  <1>7. QED  BY <1>2, <1>4, <1>5, <1>6, EndKeeps

LEMMA AbandonKeeps ==
    ASSUME RecordsInv, AbandonPublishing
    PROVE  RecordsInv'
  <1>1. RecordTypes /\ VersionsKnown /\ InProgress /\ GraphLinked  BY DEF RecordsInv
  <1>2. /\ publishing.at \in {"copy", "failed", "write", "collect"} /\ NoMore
        /\ UNCHANGED <<staging, embedder, manualLinks, snapshots, pinned>>
        /\ generations' = generations
    BY DEF AbandonPublishing, NoMore, linkVars
  <1>3. CASE /\ publishing.at # "collect" /\ records' = Detached(publishing.build)
             /\ catalog' = [catalog EXCEPT !.waiting = NoVersion]
    <2>1. publishing.build \notin Readable
      BY <1>1, <1>2, <1>3 DEF InProgress, VersionsKnown
    <2>2. /\ records' \in [Versions -> [Volumes -> Record]]
          /\ \A w \in Versions, f \in Volumes :
                /\ records'[w][f].builds = records[w][f].builds \ {publishing.build}
                /\ records'[w][f].builds # {} => /\ records'[w][f].row = records[w][f].row
                                                 /\ records'[w][f].fp = records[w][f].fp
      BY <1>1, <1>3, DetachedBuilds
    <2>3. \A w \in Versions, f \in Volumes :
             /\ records'[w][f].builds \subseteq records[w][f].builds
             /\ \A b \in Readable : b \in records[w][f].builds => b \in records'[w][f].builds
             /\ records'[w][f].builds # {} => /\ records'[w][f].row = records[w][f].row
                                              /\ records'[w][f].fp = records[w][f].fp
      BY <2>1, <2>2
    <2>4. catalog'.active = catalog.active /\ catalog'.graph = catalog.graph
      BY <1>1, <1>3 DEF RecordTypes
    <2>5. GraphLinked'  BY <1>1, <1>2, <2>4 DEF GraphLinked
    <2>6. QED  BY <1>2, <1>3, <2>2, <2>3, <2>5, EndKeeps
  <1>4. CASE UNCHANGED <<records, catalog>>
    <2>1. records' = records /\ catalog' = catalog  BY <1>4
    <2>2. records' \in [Versions -> [Volumes -> Record]]  BY <1>1, <2>1 DEF RecordTypes
    <2>3. \A w \in Versions, f \in Volumes :
             /\ records'[w][f].builds \subseteq records[w][f].builds
             /\ \A b \in Readable : b \in records[w][f].builds => b \in records'[w][f].builds
             /\ records'[w][f].builds # {} => /\ records'[w][f].row = records[w][f].row
                                              /\ records'[w][f].fp = records[w][f].fp
      BY <2>1
    <2>4. GraphLinked'  BY <1>1, <1>2, <2>1 DEF GraphLinked
    <2>5. QED  BY <1>2, <2>1, <2>2, <2>3, <2>4, EndKeeps
  <1>5. QED  BY <1>3, <1>4 DEF AbandonPublishing

LEMMA LinksKeep ==
    ASSUME RecordsInv, PublishLinks
    PROVE  RecordsInv'
  <1>1. /\ RecordTypes /\ VersionsKnown /\ ReadableMatches /\ PinsKept  BY DEF RecordsInv
  <1>2. /\ publishing.at = "idle" /\ catalog.active # NoVersion
        /\ generations' = generations \cup {catalog.active}
        /\ catalog' = [catalog EXCEPT !.graph = catalog.active]
        /\ staging' = staging /\ embedder' = embedder /\ records' = records
        /\ manualLinks' = manualLinks /\ publishing' = publishing /\ snapshots' = snapshots
        /\ pinned' = pinned
    BY DEF PublishLinks
  <1>3. /\ catalog'.active = catalog.active /\ catalog'.retired = catalog.retired
        /\ catalog'.graph = catalog.active /\ catalog'.waiting = catalog.waiting
        /\ catalog' \in [active : AnyVersion, waiting : AnyVersion, retired : SUBSET Versions,
                         graph : AnyVersion]
    BY <1>1, <1>2 DEF RecordTypes
  <1>4. generations' \subseteq Versions
    BY <1>1, <1>2, ReadableVersions DEF RecordTypes
  <1>5. RecordTypes'  BY <1>1, <1>2, <1>3, <1>4 DEF RecordTypes
  <1>6. Readable' = Readable  BY <1>3 DEF Readable
  <1>7. VersionsKnown'  BY <1>1, <1>2, <1>3, <1>6 DEF VersionsKnown
  <1>8. ReadableMatches'  BY <1>1, <1>2, <1>6 DEF ReadableMatches
  <1>9. InProgress' /\ CopyTrue' /\ WriteTrue' /\ CollectTrue'
    BY <1>2 DEF InProgress, CopyTrue, WriteTrue, CollectTrue
  <1>10. GraphLinked'  BY <1>2, <1>3 DEF GraphLinked
  <1>11. PinsKept'  BY <1>1, <1>2 DEF PinsKept
  <1>12. QED  BY <1>5, <1>7, <1>8, <1>9, <1>10, <1>11 DEF RecordsInv

\* Manual links are no part of a build.
LEMMA PinsOnly ==
    ASSUME RecordsInv, PinsKept',
           UNCHANGED <<staging, embedder, records, generations, catalog, publishing, snapshots>>
    PROVE  RecordsInv'
  <1>1. RecordTypes'  BY DEF RecordsInv, RecordTypes
  <1>2. VersionsKnown'  BY DEF RecordsInv, VersionsKnown, Readable
  <1>3. ReadableMatches'  BY DEF RecordsInv, ReadableMatches, Readable
  <1>4. InProgress'  BY DEF RecordsInv, InProgress
  <1>5. CopyTrue'  BY DEF RecordsInv, CopyTrue
  <1>6. WriteTrue'  BY DEF RecordsInv, WriteTrue
  <1>7. CollectTrue' /\ GraphLinked'  BY DEF RecordsInv, CollectTrue, GraphLinked
  <1>8. QED  BY <1>1, <1>2, <1>3, <1>4, <1>5, <1>6, <1>7 DEF RecordsInv

LEMMA PinKeeps ==
    ASSUME RecordsInv, NEW x, NEW y, NEW z, PinLink(x, y, z)
    PROVE  RecordsInv'
  <1>1. PICK id, e, d : /\ manualLinks' = manualLinks \cup
                                {[id |-> id, entity |-> e, document |-> d, chunk |-> z]}
                        /\ pinned' = pinned \cup {id}
    BY DEF PinLink
  <1> DEFINE new == [id |-> id, entity |-> e, document |-> d, chunk |-> z]
  <1>2. new.id = id /\ manualLinks' = manualLinks \cup {new} /\ pinned' = pinned \cup {id}
    BY <1>1
  <1>3. PinsKept'
    <2> HIDE DEF new
    <2>1. {l.id : l \in manualLinks} = pinned  BY DEF RecordsInv, PinsKept
    <2>2. {l.id : l \in manualLinks \cup {new}} = {l.id : l \in manualLinks} \cup {id}
      BY <1>2
    <2>3. QED  BY <1>2, <2>1, <2>2 DEF PinsKept
  <1>4. QED  BY <1>3, PinsOnly DEF PinLink

LEMMA UnpinKeeps ==
    ASSUME RecordsInv, NEW id, UnpinLink(id)
    PROVE  RecordsInv'
  <1>1. PinsKept'  BY DEF RecordsInv, PinsKept, UnpinLink
  <1>2. QED  BY <1>1, PinsOnly DEF UnpinLink

\* The invariant of the records of builds holds, for any volumes, editions,
\* embedders and numbers of builds, edits and links.
THEOREM RecordsInvariant == RecordsSpec => []RecordsInv
  <1>1. RecordsInit => RecordsInv  BY RecordsInitially
  <1>2. RecordsInv /\ [RecordsNext]_recordVars => RecordsInv'
    <2> SUFFICES ASSUME RecordsInv, [RecordsNext]_recordVars PROVE RecordsInv'
      OBVIOUS
    <2>1. ASSUME NEW f \in Volumes,
                 \/ EditVolume(f) \/ TouchVolume(f) \/ FailVolume(f)
                 \/ RemoveVolume(f) \/ EmbedVolume(f)
          PROVE  RecordsInv'
      BY <2>1, EditVolumeKeeps
    <2>2. ASSUME NEW f \in Volumes, WriteRecords(f) PROVE RecordsInv'  BY <2>2, WriteKeeps
    <2>3. CASE ChangeEmbedder  BY <2>3, ChangeEmbedderKeeps
    <2>4. ASSUME NEW full \in BOOLEAN, BeginPublishing(full) PROVE RecordsInv'
      BY <2>4, BeginKeeps
    <2>5. CASE CopyRecords \/ CopyTimesOut  BY <2>5, CopyKeeps
    <2>6. CASE SwapVersion  BY <2>6, SwapKeeps
    <2>7. CASE CollectVersions  BY <2>7, CollectKeeps
    <2>8. CASE AbandonPublishing  BY <2>8, AbandonKeeps
    <2>9. CASE PublishLinks  BY <2>9, LinksKeep
    <2>10. ASSUME NEW e, NEW d, NEW c, PinLink(e, d, c) PROVE RecordsInv'  BY <2>10, PinKeeps
    <2>11. ASSUME NEW id, UnpinLink(id) PROVE RecordsInv'  BY <2>11, UnpinKeeps
    <2>12. CASE UNCHANGED recordVars
      <3>1. /\ UNCHANGED <<staging, embedder, records, generations, catalog, publishing, snapshots>>
            /\ manualLinks' = manualLinks /\ pinned' = pinned
        BY <2>12 DEF recordVars, linkVars
      <3>2. PinsKept'  BY <3>1 DEF RecordsInv, PinsKept
      <3>3. QED  BY <3>1, <3>2, PinsOnly
    <2>13. QED
      BY <2>1, <2>2, <2>3, <2>4, <2>5, <2>6, <2>7, <2>8, <2>9, <2>10, <2>11, <2>12
      DEF RecordsNext
  <1>3. QED  BY <1>1, <1>2, PTL DEF RecordsSpec

\* What is found under a readable build, by row, by vector, by link or by
\* listing, is what the local build had when the build was published.
THEOREM RecordsAreRight == RecordsSpec => []RecordsRight
  <1>1. RecordsInv => RecordsRight  BY InvariantAnswers
  <1>2. QED  BY <1>1, RecordsInvariant, PTL
=============================================================================
