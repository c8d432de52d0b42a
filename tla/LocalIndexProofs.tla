--------------------------- MODULE LocalIndexProofs ---------------------------
(***************************************************************************)
(* What is kept beside the rows of a local home.  The graph of a project    *)
(* store: incremental derivation, carried and adopted rows and rebinding    *)
(* give what a full derivation gives, for any files, symbols, contents and  *)
(* numbers of edits, builds and failures.  The vector index: a search       *)
(* through it sees the subjects of the revision it read, for any subjects,  *)
(* vectors, searchers and number of writes.                                 *)
(***************************************************************************)
EXTENDS LocalGraph, AnnIndex, SequenceTheorems, WellFoundedInduction, TLAPS

-----------------------------------------------------------------------------
(* The inductive invariant.                                                  *)

\* The references of a content that other files must answer.
Unanswered(f, c) == {t \in RefsOf[c] : SameFile(f, t, c).how # "same_file"}

\* What the manifest records for file f.
SymsOf(f, c) == [defs |-> DefsOf[c], refs |-> Unanswered(f, c)]

PassShape(s) ==
    /\ s = [step |-> s.step, action |-> s.action, full |-> s.full, build |-> s.build,
            stamp |-> s.stamp, changed |-> s.changed, removed |-> s.removed,
            files |-> s.files, staged |-> s.staged, todo |-> s.todo, prev |-> s.prev]
    /\ s.step \in {"idle", "planned", "derive"}
    /\ s.step = "idle" => s = Idle
    /\ s.stamp \in Nat /\ s.changed \subseteq SrcFiles
    /\ s.prev.gen \in Nat
    /\ DOMAIN s.staged = SrcFiles /\ s.staged = [f \in SrcFiles |-> s.staged[f]]

LocalTypes ==
    /\ disk \in Tree /\ indexed \in Tree
    /\ build \in Nat /\ stamp \in Nat /\ build <= stamp
    /\ derivation \in Nat
    /\ gst = [state |-> gst.state, gen |-> gst.gen, build |-> gst.build, base |-> gst.base,
              derivation |-> gst.derivation, keys |-> gst.keys, syms |-> gst.syms,
              all |-> gst.all]
    /\ build = 0 => gst.gen = 0
    /\ gst.gen \in Nat /\ gst.build \in Nat /\ gst.base \in Nat
    /\ gst.build <= build /\ gst.base <= stamp
    /\ gst.keys \in Tree /\ gst.all \in BOOLEAN
    /\ gst.syms = [f \in SrcFiles |-> gst.syms[f]]
    /\ rows = [f \in SrcFiles |-> rows[f]]
    /\ strays \subseteq SrcFiles
    /\ PassShape(stagePass) /\ stagePass.stamp <= stamp

\* The rows in the store are of the generation its graph state describes.
Ours == build # 0 /\ gst.build = build

\* Strays have left the content that the manifest names, and do not return.
StraysLeft ==
    Ours => \A f \in strays : disk[f] # gst.keys[f] /\ indexed[f] # gst.keys[f]

\* All other files have the rows and the symbols of the manifest's tree;
\* only adoption leaves symbols of another tree behind.
RowsRight ==
    Ours => \A f \in SrcFiles :
        /\ f \notin strays => rows[f] = GraphOf(gst.keys, gst.derivation)[f]
        /\ ~gst.all \/ f \notin strays => gst.syms[f] = SymsOf(f, gst.keys[f])

\* A graph is current only for the files that are indexed.
CurrentRight == CurrentGraph => Ours /\ gst.keys = indexed

\* Rows change with a promotion, or when their file vanishes.
RowsPromoted ==
    Ours /\ ~gst.all /\ gst.gen > 0 => \A f \in SrcFiles :
        rows[f] = promoted[f] \/ (rows[f] = {} /\ f \in strays)

\* What a running stage planned still holds of its base generation.
PlanRight ==
    stagePass.step # "idle" /\ ~Republished =>
        /\ build # 0
        /\ stagePass.step = "planned" /\ stagePass.action = "rebind" =>
              Complete(gst) /\ gst.keys = indexed
        /\ stagePass.step = "derive" \/ stagePass.action # "rebind" =>
              /\ stagePass.full = ~Complete(gst)
              /\ stagePass.changed = IF Complete(gst)
                     THEN {f \in Held(indexed) : gst.keys[f] # indexed[f]} ELSE Held(indexed)
              /\ stagePass.removed = IF Complete(gst) THEN Vanishing(gst.keys, indexed) ELSE {}
        /\ stagePass.step = "derive" =>
              /\ stagePass.files = indexed
              /\ stagePass.prev.all = gst.all
              /\ stagePass.todo \subseteq stagePass.changed
              /\ \A f \in stagePass.changed \ stagePass.todo :
                    stagePass.staged[f] = Derive(f, indexed[f], derivation)

\* What stays within the bounds of the model, and the names of the states.
Bounded ==
    /\ build <= MaxStamp /\ stamp <= MaxStamp
    /\ gst.state \in {"pending", "building", "ready", "stale", "failed", "disabled"}
    /\ gst.derivation \in Nat /\ gst.derivation <= derivation
    /\ stagePass.todo \subseteq stagePass.changed

LocalGraphInv ==
    /\ LocalTypes /\ StraysLeft /\ RowsRight /\ CurrentRight /\ RowsPromoted /\ PlanRight

-----------------------------------------------------------------------------
(* The operators.                                                            *)

\* A non-empty set of naturals has a least element (SQL's ORDER BY ... LIMIT 1).
LEMMA LeastIsMember ==
  ASSUME NEW S \in SUBSET Nat, S # {}
  PROVE  Least(S) \in S
  <1> DEFINE Less == {x \in Nat \X Nat : x[1] < x[2]}
  <1>1. IsWellFoundedOn(Less, Nat)
    BY NatLessThanWellFounded DEF OpToRel
  <1>2. PICK x \in S : \A y \in S : <<y, x>> \notin Less
    <2> HIDE DEF Less
    <2> QED BY <1>1, WFMin
  <1>3. ASSUME NEW y \in S PROVE x <= y
    <2>1. ~(y < x)
      BY <1>2
    <2> QED BY <2>1
  <1> QED BY <1>3 DEF Least

\* Contents define and refer to known symbols.
LEMMA DefsKnown ==
  ASSUME NEW k \in Tree, NEW f \in SrcFiles
  PROVE  DefsOf[k[f]] \subseteq Symbols /\ RefsOf[k[f]] \subseteq Symbols
  BY LocalGraphAssumption DEF Tree

\* What other files answered is never taken for an answer of the file itself.
LEMMA CrossIsCross ==
  ASSUME NEW f, NEW t, NEW k
  PROVE  CrossFile(f, t, k).how # "same_file"
  BY DEF CrossFile

\* A row of a resolved file.
RowOf(f, t, c, v, k) ==
    [ref |-> t, by |-> v,
     at |-> IF SameFile(f, t, c).how = "same_file" THEN SameFile(f, t, c)
            ELSE CrossFile(f, t, k)]

\* resolve_files after derive_file: one row per reference.
LEMMA ResolvedRows ==
  ASSUME NEW f, NEW c, NEW v, NEW k
  PROVE  Resolve(f, Derive(f, c, v), k) = {RowOf(f, t, c, v, k) : t \in RefsOf[c]}
  <1> DEFINE D(t) == [ref |-> t, at |-> SameFile(f, t, c), by |-> v]
             R(r) == IF Crosses(r) THEN [r EXCEPT !.at = CrossFile(f, r.ref, k)] ELSE r
  <1>1. ASSUME NEW t PROVE R(D(t)) = RowOf(f, t, c, v, k)
    BY DEF RowOf, Crosses
  <1>2. Resolve(f, Derive(f, c, v), k) = {R(D(t)) : t \in RefsOf[c]}
    BY DEF Resolve, Derive
  <1> QED BY <1>1, <1>2

\* Resolving again forgets what other files answered before.
LEMMA ResolvedAgain ==
  ASSUME NEW f, NEW c, NEW v, NEW old, NEW k
  PROVE  Resolve(f, Resolve(f, Derive(f, c, v), old), k) = Resolve(f, Derive(f, c, v), k)
  <1> DEFINE R(r) == IF Crosses(r) THEN [r EXCEPT !.at = CrossFile(f, r.ref, k)] ELSE r
  <1>1. ASSUME NEW t PROVE R(RowOf(f, t, c, v, old)) = RowOf(f, t, c, v, k)
    BY CrossIsCross DEF RowOf, Crosses
  <1>2. Resolve(f, {RowOf(f, t, c, v, old) : t \in RefsOf[c]}, k)
          = {R(RowOf(f, t, c, v, old)) : t \in RefsOf[c]}
    BY DEF Resolve
  <1>3. {R(RowOf(f, t, c, v, old)) : t \in RefsOf[c]} = {RowOf(f, t, c, v, k) : t \in RefsOf[c]}
    BY <1>1
  <1>4. Resolve(f, Derive(f, c, v), k) = {RowOf(f, t, c, v, k) : t \in RefsOf[c]}
    BY ResolvedRows
  <1>5. Resolve(f, Derive(f, c, v), old) = {RowOf(f, t, c, v, old) : t \in RefsOf[c]}
    BY ResolvedRows
  <1> QED BY <1>2, <1>3, <1>4, <1>5

\* The references of derived rows that stay open are those of the content.
LEMMA OpenOfDerived ==
  ASSUME NEW f, NEW c, NEW v
  PROVE  {r.ref : r \in {r \in Derive(f, c, v) : Crosses(r)}} = Unanswered(f, c)
  <1> DEFINE D(t) == [ref |-> t, at |-> SameFile(f, t, c), by |-> v]
  <1>1. ASSUME NEW t
        PROVE  D(t).ref = t /\ (Crosses(D(t)) <=> SameFile(f, t, c).how # "same_file")
    BY DEF Crosses
  <1>2. Derive(f, c, v) = {D(t) : t \in RefsOf[c]}
    BY DEF Derive
  <1> HIDE DEF D
  <1> QED BY <1>1, <1>2 DEF Unanswered

\* And so are those of resolved rows.
LEMMA OpenOfResolved ==
  ASSUME NEW f, NEW c, NEW v, NEW k
  PROVE  {r.ref : r \in {r \in Resolve(f, Derive(f, c, v), k) : Crosses(r)}}
           = Unanswered(f, c)
  <1>1. ASSUME NEW t
        PROVE  Crosses(RowOf(f, t, c, v, k)) <=> SameFile(f, t, c).how # "same_file"
    BY CrossIsCross DEF RowOf, Crosses
  <1>2. ASSUME NEW t PROVE RowOf(f, t, c, v, k).ref = t
    BY DEF RowOf
  <1>3. {r.ref : r \in {r \in {RowOf(f, t, c, v, k) : t \in RefsOf[c]} : Crosses(r)}}
          = {t \in RefsOf[c] : SameFile(f, t, c).how # "same_file"}
    BY <1>1, <1>2
  <1> QED BY <1>3, ResolvedRows DEF Unanswered

\* A reference is answered alike by two trees whose other files have the same
\* definitions of its bare name.
LEMMA SameAnswer ==
  ASSUME NEW f \in SrcFiles, NEW t \in Symbols, NEW k \in Tree, NEW n \in Tree,
         \A g \in SrcFiles \ {f}, q \in Symbols :
            BareName[q] = BareName[t] => (q \in DefsOf[k[g]] <=> q \in DefsOf[n[g]])
  PROVE  CrossFile(f, t, k) = CrossFile(f, t, n)
  <1> DEFINE others == SrcFiles \ {f}
             Exact(x) == {g \in others : t \in DefsOf[x[g]]}
             Names(x) == {q \in Symbols : /\ BareName[q] = BareName[t]
                                          /\ \E g \in others : q \in DefsOf[x[g]]}
             Of(x, q) == {g \in others : q \in DefsOf[x[g]]}
  <1>1. Exact(k) = Exact(n)
    OBVIOUS
  <1>2. Names(k) = Names(n)
    OBVIOUS
  <1>3. Names(n) # {} => Least(Names(n)) \in Names(n)
    BY LeastIsMember, LocalGraphAssumption
  <1>4. ASSUME NEW q \in Names(n) PROVE Of(k, q) = Of(n, q)
    OBVIOUS
  <1>5. ASSUME NEW x PROVE
        CrossFile(f, t, x) =
          IF Exact(x) # {} THEN [to |-> <<Least(Exact(x)), t>>,
                     how |-> IF Cardinality(Exact(x)) = 1 THEN "qualified" ELSE "ambiguous"]
          ELSE IF Names(x) # {}
          THEN [to |-> <<Least(Of(x, Least(Names(x)))), Least(Names(x))>>, how |-> "name_only"]
          ELSE [to |-> Unbound, how |-> "unresolved"]
    BY DEF CrossFile
  <1> HIDE DEF Exact, Names, Of
  <1>6. Names(n) # {} => Of(k, Least(Names(n))) = Of(n, Least(Names(n)))
    BY <1>3, <1>4
  <1> QED BY <1>1, <1>2, <1>5, <1>6

\* A file whose open references are answered alike has the same rows.
LEMMA SameRows ==
  ASSUME NEW f, NEW c, NEW v, NEW k, NEW n,
         \A t \in Unanswered(f, c) : CrossFile(f, t, k) = CrossFile(f, t, n)
  PROVE  Resolve(f, Derive(f, c, v), k) = Resolve(f, Derive(f, c, v), n)
  <1>1. ASSUME NEW t \in RefsOf[c] PROVE RowOf(f, t, c, v, k) = RowOf(f, t, c, v, n)
    BY DEF RowOf, Unanswered
  <1>2. {RowOf(f, t, c, v, k) : t \in RefsOf[c]} = {RowOf(f, t, c, v, n) : t \in RefsOf[c]}
    BY <1>1
  <1>3. Resolve(f, Derive(f, c, v), k) = {RowOf(f, t, c, v, k) : t \in RefsOf[c]}
    BY ResolvedRows
  <1>4. Resolve(f, Derive(f, c, v), n) = {RowOf(f, t, c, v, n) : t \in RefsOf[c]}
    BY ResolvedRows
  <1> QED BY <1>2, <1>3, <1>4

\* No file, no rows and no symbols.
LEMMA NothingAbsent ==
  ASSUME NEW f, NEW v, NEW k
  PROVE  /\ Derive(f, Absent, v) = {} /\ Resolve(f, {}, k) = {}
         /\ SymsOf(f, Absent) = [defs |-> {}, refs |-> {}]
  BY LocalGraphAssumption DEF Derive, Resolve, SymsOf, Unanswered

-----------------------------------------------------------------------------
(* Every action keeps the invariant.                                         *)

\* The rows of one file of a graph.
LEMMA GraphAt ==
  ASSUME NEW k, NEW v, NEW f \in SrcFiles
  PROVE  GraphOf(k, v)[f] = Resolve(f, Derive(f, k[f], v), k)
  BY DEF GraphOf

\* A graph that describes the indexed files has no strays.
LEMMA NoStrays ==
  ASSUME LocalGraphInv, Ours, gst.keys = indexed
  PROVE  strays = {}
  BY DEF LocalGraphInv, StraysLeft, LocalTypes

\* First there is no build.
LEMMA InitRight ==
  ASSUME LocalGraphInit
  PROVE  LocalGraphInv
  <1> USE LocalGraphAssumption DEF LocalGraphInit
  <1>1. LocalTypes
    <2>1. PassShape(stagePass)
      BY DEF PassShape, Idle, Pending0, NoRows
    <2>2. gst = [state |-> gst.state, gen |-> gst.gen, build |-> gst.build, base |-> gst.base,
              derivation |-> gst.derivation, keys |-> gst.keys, syms |-> gst.syms,
              all |-> gst.all]
      BY DEF Pending0
    <2>3. gst.syms = [f \in SrcFiles |-> gst.syms[f]] /\ rows = [f \in SrcFiles |-> rows[f]]
      BY DEF Pending0, NoSyms, NoRows
    <2>4. disk \in Tree /\ indexed \in Tree /\ gst.keys \in Tree
      BY DEF Pending0, Tree, NoFiles
    <2> QED BY <2>1, <2>2, <2>3, <2>4 DEF LocalTypes, Pending0, Idle
  <1>2. ~Ours /\ ~CurrentGraph /\ stagePass.step = "idle"
    BY DEF Ours, CurrentGraph, Pending0, Idle
  <1> QED BY <1>1, <1>2 DEF LocalGraphInv, StraysLeft, RowsRight, CurrentRight,
            RowsPromoted, PlanRight

\* Edits do not touch the store; a stray file does not return.
LEMMA EditRight ==
  ASSUME LocalGraphInv, Returns = FALSE, NEW f \in SrcFiles,
         NEW c \in Texts \cup {Absent}, EditFile(f, c)
  PROVE  LocalGraphInv'
  <1> USE DEF LocalGraphInv, EditFile
  <1>1. LocalTypes'
    BY DEF LocalTypes, Tree
  <1>2. StraysLeft'
    <2> SUFFICES ASSUME Ours', NEW s \in strays'
                 PROVE  (disk[s] # gst.keys[s] /\ indexed[s] # gst.keys[s])'
      BY DEF StraysLeft
    <2>1. disk[s] # gst.keys[s] /\ indexed[s] # gst.keys[s] /\ s \in SrcFiles
      BY DEF StraysLeft, Ours, LocalTypes
    <2>2. CASE s = f
      BY <2>1, <2>2 DEF LocalTypes, Tree
    <2>3. CASE s # f
      BY <2>1, <2>3 DEF LocalTypes, Tree
    <2> QED BY <2>2, <2>3
  <1>3. RowsRight' /\ CurrentRight' /\ RowsPromoted'
    BY DEF RowsRight, CurrentRight, RowsPromoted, Ours, CurrentGraph
  <1>4. PlanRight'
    BY DEF PlanRight, Republished, Complete
  <1> QED BY <1>1, <1>2, <1>3, <1>4

\* In place, the base generation moves on under the graph.
LEMMA InPlaceRight ==
  ASSUME LocalGraphInv, PublishInPlace
  PROVE  LocalGraphInv'
  <1> USE DEF LocalGraphInv, PublishInPlace
  <1>1. LocalTypes'
    BY DEF LocalTypes, PassShape
  <1>2. StraysLeft'
    BY DEF StraysLeft, Ours
  <1>3. RowsRight' /\ RowsPromoted'
    BY DEF RowsRight, RowsPromoted, Ours
  <1>4. ~CurrentGraph' /\ Republished'
    BY DEF LocalTypes, CurrentGraph, Republished, PassShape
  <1> QED BY <1>1, <1>2, <1>3, <1>4 DEF CurrentRight, PlanRight

\* A new build has the rows of the old one, or none; what vanished with it
\* is a stray.
LEMMA NewBuildRight ==
  ASSUME LocalGraphInv, NEW carried \in BOOLEAN, PublishNewBuild(carried)
  PROVE  LocalGraphInv'
  <1> USE DEF LocalGraphInv
  <1>1. LocalTypes'
    <2>1. rows' = [f \in SrcFiles |-> rows'[f]] /\ strays' \subseteq SrcFiles
      BY DEF PublishNewBuild, NoRows, LocalTypes, Vanishing, Held
    <2>2. /\ disk' \in Tree /\ indexed' \in Tree /\ build' \in Nat /\ stamp' \in Nat
          /\ build' <= stamp' /\ derivation' \in Nat /\ build' # 0
          /\ PassShape(stagePass') /\ stagePass'.stamp <= stamp'
      BY DEF PublishNewBuild, LocalTypes, PassShape
    <2>3. CASE gst' = [gst EXCEPT !.build = build']
      BY <2>1, <2>2, <2>3 DEF LocalTypes, PublishNewBuild
    <2>4. CASE gst' = gst
      BY <2>1, <2>2, <2>4 DEF LocalTypes, PublishNewBuild
    <2> QED BY <2>3, <2>4 DEF PublishNewBuild
  <1>2. ~CurrentGraph' /\ Republished'
    BY DEF LocalTypes, CurrentGraph, Republished, PassShape, PublishNewBuild
  <1>3. CASE carried /\ build # 0 /\ gst.build = build
    <2>1. Ours
      BY <1>3 DEF Ours
    <2>2. /\ rows' = [f \in SrcFiles |-> IF disk[f] = Absent THEN {} ELSE rows[f]]
          /\ strays' = strays \cup Vanishing(gst.keys, disk)
          /\ indexed' = disk /\ disk' = disk /\ promoted' = promoted
          /\ gst' = [gst EXCEPT !.build = build']
      BY <1>3 DEF PublishNewBuild
    <2>3. /\ gst'.keys = gst.keys /\ gst'.syms = gst.syms /\ gst'.all = gst.all
          /\ gst'.gen = gst.gen /\ gst'.derivation = gst.derivation
      BY <2>2 DEF LocalTypes
    <2>4. StraysLeft'
      BY <2>1, <2>2, <2>3 DEF StraysLeft, Vanishing, Held
    <2>5. ASSUME NEW f \in SrcFiles, f \notin strays'
          PROVE  rows'[f] = GraphOf(gst.keys, gst.derivation)[f]
      <3>1. rows[f] = GraphOf(gst.keys, gst.derivation)[f]
        BY <2>1, <2>2, <2>5 DEF RowsRight
      <3>2. CASE disk[f] # Absent
        BY <2>2, <3>1, <3>2
      <3>3. CASE disk[f] = Absent
        <4>1. gst.keys[f] = Absent
          BY <2>2, <2>5, <3>3 DEF Vanishing, Held
        <4>2. Derive(f, gst.keys[f], gst.derivation) = {}
          BY <4>1, NothingAbsent
        <4>3. GraphOf(gst.keys, gst.derivation)[f] = Resolve(f, {}, gst.keys)
          BY <4>2, GraphAt
        <4>4. GraphOf(gst.keys, gst.derivation)[f] = {}
          BY <4>3, NothingAbsent
        <4> QED BY <2>2, <3>3, <4>4
      <3> QED BY <3>2, <3>3
    <2>6. RowsRight'
      <3> SUFFICES ASSUME NEW f \in SrcFiles
                   PROVE  (/\ f \notin strays => rows[f] = GraphOf(gst.keys, gst.derivation)[f]
                           /\ ~gst.all \/ f \notin strays
                                => gst.syms[f] = SymsOf(f, gst.keys[f]))'
        BY DEF RowsRight
      <3>1. f \notin strays' => rows'[f] = GraphOf(gst'.keys, gst'.derivation)[f]
        BY <2>3, <2>5
      <3>2. ~gst.all \/ f \notin strays => gst.syms[f] = SymsOf(f, gst.keys[f])
        BY <2>1 DEF RowsRight
      <3> QED BY <2>2, <2>3, <3>1, <3>2
    <2>7. RowsPromoted'
      <3> SUFFICES ASSUME ~gst.all, gst.gen > 0, NEW f \in SrcFiles
                   PROVE  rows'[f] = promoted[f] \/ (rows'[f] = {} /\ f \in strays')
        BY <2>2, <2>3 DEF RowsPromoted
      <3>1. rows[f] = promoted[f] \/ (rows[f] = {} /\ f \in strays)
        BY <2>1 DEF RowsPromoted
      <3>2. CASE disk[f] # Absent
        BY <2>2, <3>1, <3>2
      <3>3. CASE disk[f] = Absent /\ f \notin strays'
        <4>1. rows[f] = GraphOf(gst.keys, gst.derivation)[f]
          BY <2>1, <2>2, <3>3 DEF RowsRight
        <4>2. rows'[f] = rows[f] /\ f \notin strays
          BY <2>2, <2>5, <3>3, <4>1
        <4> QED BY <3>1, <4>2
      <3>4. CASE disk[f] = Absent /\ f \in strays'
        BY <2>2, <3>4
      <3> QED BY <3>2, <3>3, <3>4
    <2> QED BY <1>1, <1>2, <2>4, <2>6, <2>7 DEF CurrentRight, PlanRight
  <1>4. CASE ~(carried /\ build # 0 /\ gst.build = build)
    <2>1. ~Ours'
      BY <1>4 DEF Ours, PublishNewBuild, LocalTypes
    <2> QED BY <1>1, <1>2, <2>1 DEF StraysLeft, RowsRight, CurrentRight,
              RowsPromoted, PlanRight
  <1> QED BY <1>3, <1>4

\* A new program derives differently; no stage is running then.
LEMMA UpgradeRight ==
  ASSUME LocalGraphInv, Upgraded
  PROVE  LocalGraphInv'
  <1> USE DEF LocalGraphInv, Upgraded
  <1>1. LocalTypes'
    BY LocalGraphAssumption DEF LocalTypes
  <1>2. StraysLeft' /\ RowsRight' /\ CurrentRight' /\ RowsPromoted'
    BY DEF StraysLeft, RowsRight, CurrentRight, RowsPromoted, Ours, CurrentGraph
  <1>3. PlanRight'
    BY DEF PlanRight, Idle
  <1> QED BY <1>1, <1>2, <1>3

\* A change of the state alone, with no stage running afterwards or a planned
\* one, keeps what is known of the rows.
LEMMA StateRight ==
  ASSUME LocalGraphInv, NEW s, gst' = [gst EXCEPT !.state = s], s # "ready",
         UNCHANGED <<disk, indexed, build, stamp, rows, derivation, promoted, strays>>
  PROVE  /\ StraysLeft' /\ RowsRight' /\ CurrentRight' /\ RowsPromoted'
         /\ PassShape(stagePass') /\ stagePass'.stamp <= stamp => LocalTypes'
  <1> USE DEF LocalGraphInv
  <1>1. /\ gst'.keys = gst.keys /\ gst'.syms = gst.syms /\ gst'.all = gst.all
        /\ gst'.gen = gst.gen /\ gst'.derivation = gst.derivation
        /\ gst'.build = gst.build /\ gst'.base = gst.base /\ gst'.state = s
        /\ gst' = [state |-> gst'.state, gen |-> gst'.gen, build |-> gst'.build,
                   base |-> gst'.base, derivation |-> gst'.derivation,
                   keys |-> gst'.keys, syms |-> gst'.syms, all |-> gst'.all]
    BY DEF LocalTypes
  <1>2. StraysLeft' /\ RowsRight' /\ CurrentRight' /\ RowsPromoted'
    BY <1>1 DEF StraysLeft, RowsRight, CurrentRight, RowsPromoted, Ours, CurrentGraph
  <1>3. PassShape(stagePass') /\ stagePass'.stamp <= stamp => LocalTypes'
    BY <1>1 DEF LocalTypes
  <1> QED BY <1>2, <1>3

\* The idle stage.
LEMMA IdleShape ==
  PassShape(Idle) /\ Idle.step = "idle" /\ Idle.stamp = 0
  BY DEF PassShape, Idle, Pending0, NoRows

\* The graph is switched off, or a stage ends without a promotion.
LEMMA EndRight ==
  ASSUME LocalGraphInv, NEW s, s # "ready", stagePass' = Idle,
         gst' = [gst EXCEPT !.state = s],
         UNCHANGED <<disk, indexed, build, stamp, rows, derivation, promoted, strays>>
  PROVE  LocalGraphInv'
  <1>1. stamp \in Nat
    BY DEF LocalGraphInv, LocalTypes
  <1>2. LocalTypes'
    BY <1>1, StateRight, IdleShape
  <1>3. PlanRight'
    BY IdleShape DEF PlanRight
  <1> QED BY <1>2, <1>3, StateRight DEF LocalGraphInv

\* Adopted rows are those of the files m; where the source differs they are
\* strays.
LEMMA AdoptRight ==
  ASSUME LocalGraphInv, NEW m \in Manifests, Returns = FALSE, AdoptGraph(m)
  PROVE  LocalGraphInv'
  <1> USE DEF LocalGraphInv
  <1> DEFINE own == [f \in SrcFiles |->
                       IF indexed[f] = Absent THEN {} ELSE GraphOf(m, derivation)[f]]
             syms == [f \in SrcFiles |-> SymbolsIn(f, own[f], indexed)]
  <1>1. /\ rows' = own /\ strays' = Unmatched(m) /\ build # 0 /\ m \in Tree
        /\ gst' = [gst EXCEPT !.build = build, !.base = 0, !.derivation = derivation,
                     !.keys = m, !.all = TRUE, !.syms = syms]
        /\ UNCHANGED <<disk, indexed, build, stamp, derivation, stagePass, promoted>>
        /\ stagePass = Idle
        /\ \A f \in Unmatched(m) : disk[f] # m[f]
    BY LocalGraphAssumption DEF AdoptGraph, Adoptable, Tree
  <1> HIDE DEF own, syms
  <1>2. /\ gst'.keys = m /\ gst'.all = TRUE /\ gst'.derivation = derivation
        /\ gst'.gen = gst.gen /\ gst'.build = build /\ gst'.base = 0 /\ gst'.syms = syms
        /\ gst' = [state |-> gst'.state, gen |-> gst'.gen, build |-> gst'.build,
                   base |-> gst'.base, derivation |-> gst'.derivation,
                   keys |-> gst'.keys, syms |-> gst'.syms, all |-> gst'.all]
    BY <1>1 DEF LocalTypes
  <1>3. LocalTypes'
    <2>1. own = [f \in SrcFiles |-> own[f]] /\ syms = [f \in SrcFiles |-> syms[f]]
      BY DEF own, syms
    <2>2. PassShape(stagePass') /\ stagePass'.stamp <= stamp
      BY <1>1 DEF LocalTypes
    <2> QED BY <1>1, <1>2, <2>1, <2>2 DEF LocalTypes, Unmatched
  <1>4. StraysLeft'
    BY <1>1, <1>2 DEF StraysLeft, Unmatched
  <1>5. ASSUME NEW f \in SrcFiles, f \notin strays'
        PROVE  own[f] = GraphOf(m, derivation)[f] /\ syms[f] = SymsOf(f, m[f])
    <2>1. m[f] = indexed[f]
      BY <1>1, <1>5 DEF Unmatched
    <2>2. syms[f] = [defs |-> DefsOf[m[f]],
                     refs |-> {r.ref : r \in {r \in own[f] : Crosses(r)}}]
      BY <2>1 DEF syms, SymbolsIn
    <2>3. CASE m[f] # Absent
      <3>1. own[f] = GraphOf(m, derivation)[f]
        BY <2>1, <2>3 DEF own
      <3>2. own[f] = Resolve(f, Derive(f, m[f], derivation), m)
        BY <3>1, GraphAt
      <3>3. {r.ref : r \in {r \in own[f] : Crosses(r)}} = Unanswered(f, m[f])
        BY <3>2, OpenOfResolved
      <3> QED BY <2>2, <3>1, <3>3 DEF SymsOf
    <2>4. CASE m[f] = Absent
      <3>1. own[f] = {}
        BY <2>1, <2>4 DEF own
      <3>2. Derive(f, m[f], derivation) = {}
        BY <2>4, NothingAbsent
      <3>3. GraphOf(m, derivation)[f] = Resolve(f, {}, m)
        BY <3>2, GraphAt
      <3>4. GraphOf(m, derivation)[f] = {}
        BY <3>3, NothingAbsent
      <3>5. SymsOf(f, m[f]) = [defs |-> {}, refs |-> {}]
        BY <2>4, NothingAbsent
      <3>6. {r.ref : r \in {r \in own[f] : Crosses(r)}} = {}
        BY <3>1
      <3>7. DefsOf[m[f]] = {}
        BY <2>4, LocalGraphAssumption
      <3> QED BY <2>2, <3>1, <3>4, <3>5, <3>6, <3>7
    <2> QED BY <2>3, <2>4
  <1>6. RowsRight'
    BY <1>1, <1>2, <1>5 DEF RowsRight
  <1>7. CurrentRight' /\ RowsPromoted' /\ PlanRight'
    BY <1>1, <1>2, IdleShape DEF CurrentRight, CurrentGraph, RowsPromoted, PlanRight
  <1> QED BY <1>3, <1>4, <1>6, <1>7

\* A plan describes the base generation it was made for.
LEMMA PlanStepRight ==
  ASSUME LocalGraphInv, PlanStage
  PROVE  LocalGraphInv'
  <1> USE DEF LocalGraphInv
  <1> DEFINE chg == IF Complete(gst) THEN {f \in Held(indexed) : gst.keys[f] # indexed[f]}
                    ELSE Held(indexed)
             rem == IF Complete(gst) THEN Vanishing(gst.keys, indexed) ELSE {}
  <1>1. /\ stagePass' = [Idle EXCEPT !.step = "planned", !.action = ActionFor(gst),
             !.build = build, !.stamp = stamp, !.full = ~Complete(gst),
             !.changed = chg, !.removed = rem]
        /\ build # 0
        /\ UNCHANGED <<disk, indexed, build, stamp, rows, gst, derivation, promoted, strays>>
    BY DEF PlanStage
  <1>2. chg \subseteq SrcFiles
    BY DEF Held
  <1>3. ActionFor(gst) = "rebind" => Complete(gst) /\ gst.keys = indexed
    BY DEF ActionFor
  <1>4. Complete(gst)' <=> Complete(gst)
    BY <1>1 DEF Complete
  <1>5. /\ stagePass'.step = "planned" /\ stagePass'.action = ActionFor(gst)
        /\ stagePass'.full = ~Complete(gst) /\ stagePass'.changed = chg
        /\ stagePass'.removed = rem /\ stagePass'.stamp = stamp
    BY <1>1 DEF Idle
  <1> HIDE DEF chg, rem
  <1>6. PassShape(stagePass')
    BY <1>1, <1>2 DEF PassShape, Idle, Pending0, NoRows, LocalTypes
  <1>7. LocalTypes'
    BY <1>1, <1>5, <1>6 DEF LocalTypes
  <1>8. StraysLeft' /\ RowsRight' /\ CurrentRight' /\ RowsPromoted'
    BY <1>1 DEF StraysLeft, RowsRight, CurrentRight, RowsPromoted, Ours, CurrentGraph
  <1>9. PlanRight'
    <2>1. /\ chg = IF Complete(gst) THEN {f \in Held(indexed) : gst.keys[f] # indexed[f]}
                   ELSE Held(indexed)
          /\ rem = IF Complete(gst) THEN Vanishing(gst.keys, indexed) ELSE {}
      BY DEF chg, rem
    <2>2. gst' = gst /\ indexed' = indexed /\ build' = build
      BY <1>1
    <2> QED BY <1>1, <1>3, <1>4, <1>5, <2>1, <2>2 DEF PlanRight
  <1> QED BY <1>7, <1>8, <1>9

\* Rows that are those of the indexed files are promoted as they stand.
LEMMA RebindRight ==
  ASSUME LocalGraphInv, RebindStage
  PROVE  LocalGraphInv'
  <1> USE DEF LocalGraphInv
  <1>1. /\ stagePass' = Idle
        /\ UNCHANGED <<disk, indexed, build, stamp, rows, derivation, strays>>
        /\ stagePass.step = "planned" /\ stagePass.action = "rebind"
    BY DEF RebindStage
  <1>2. PlanRight' /\ PassShape(stagePass') /\ stagePass'.stamp <= stamp
    BY <1>1, IdleShape DEF PlanRight, LocalTypes
  <1>3. CASE Republished
    <2>1. gst' = gst /\ promoted' = promoted
      BY <1>3 DEF RebindStage
    <2>2. LocalTypes'
      BY <1>1, <1>2, <2>1 DEF LocalTypes
    <2>3. StraysLeft' /\ RowsRight' /\ CurrentRight' /\ RowsPromoted'
      BY <1>1, <2>1 DEF StraysLeft, RowsRight, CurrentRight, RowsPromoted, Ours, CurrentGraph
    <2> QED BY <1>2, <2>2, <2>3
  <1>4. CASE ~Republished
    <2>1. /\ gst' = [gst EXCEPT !.state = "ready", !.base = stagePass.stamp, !.all = FALSE]
          /\ promoted' = rows
      BY <1>4 DEF RebindStage
    <2>2. build # 0 /\ Complete(gst) /\ gst.keys = indexed /\ stagePass.stamp = stamp
      BY <1>1, <1>4 DEF PlanRight, Republished
    <2>3. Ours /\ strays = {}
      BY <2>2, NoStrays DEF Ours, Complete
    <2>4. /\ gst'.keys = gst.keys /\ gst'.syms = gst.syms /\ gst'.all = FALSE
          /\ gst'.gen = gst.gen /\ gst'.derivation = gst.derivation
          /\ gst'.build = gst.build /\ gst'.base = stamp
          /\ gst' = [state |-> gst'.state, gen |-> gst'.gen, build |-> gst'.build,
                     base |-> gst'.base, derivation |-> gst'.derivation,
                     keys |-> gst'.keys, syms |-> gst'.syms, all |-> gst'.all]
      BY <2>1, <2>2 DEF LocalTypes
    <2>5. LocalTypes'
      <3>1. gst'.all \in BOOLEAN /\ gst'.syms = [f \in SrcFiles |-> gst'.syms[f]]
        BY <2>4 DEF LocalTypes
      <3>2. /\ gst'.gen \in Nat /\ gst'.build \in Nat /\ gst'.base \in Nat
            /\ gst'.build <= build /\ gst'.base <= stamp /\ gst'.keys \in Tree
            /\ build = 0 => gst'.gen = 0
        BY <2>4 DEF LocalTypes
      <3> QED BY <1>1, <1>2, <2>4, <3>1, <3>2 DEF LocalTypes
    <2>6. StraysLeft' /\ RowsRight' /\ CurrentRight' /\ RowsPromoted'
      BY <1>1, <2>1, <2>2, <2>3, <2>4
         DEF StraysLeft, RowsRight, CurrentRight, RowsPromoted, Ours, CurrentGraph
    <2> QED BY <1>2, <2>5, <2>6
  <1> QED BY <1>3, <1>4

\* A stage starts with the files it planned.
LEMMA StartRight ==
  ASSUME LocalGraphInv, StartStage
  PROVE  LocalGraphInv'
  <1> USE DEF LocalGraphInv
  <1>1. /\ gst' = [gst EXCEPT !.state = "building"]
        /\ stagePass' = [stagePass EXCEPT !.step = "derive", !.prev = gst,
             !.files = IF stagePass.build = build THEN indexed ELSE NoFiles,
             !.todo = ToDerive]
        /\ UNCHANGED <<disk, indexed, build, stamp, rows, derivation, promoted, strays>>
        /\ stagePass.step = "planned" /\ stagePass.action = "derive"
    BY DEF StartStage
  <1>2. PassShape(stagePass)
    BY DEF LocalTypes
  <1>3. /\ stagePass'.step = "derive" /\ stagePass'.prev = gst /\ stagePass'.todo = ToDerive
        /\ stagePass'.files = IF stagePass.build = build THEN indexed ELSE NoFiles
        /\ stagePass'.changed = stagePass.changed /\ stagePass'.stamp = stagePass.stamp
        /\ stagePass'.removed = stagePass.removed /\ stagePass'.full = stagePass.full
        /\ stagePass'.build = stagePass.build
    BY <1>1, <1>2 DEF PassShape
  <1>4. PassShape(stagePass') /\ stagePass'.stamp <= stamp
    BY <1>1, <1>2, <1>3 DEF PassShape, LocalTypes
  <1>5. /\ StraysLeft' /\ RowsRight' /\ CurrentRight' /\ RowsPromoted' /\ LocalTypes'
    BY <1>1, <1>4, StateRight
  <1>6. ASSUME ~Republished' PROVE PlanRight'
    <2>1. ~Republished
      BY <1>1, <1>3, <1>6 DEF Republished
    <2>2. /\ gst'.build = gst.build /\ gst'.keys = gst.keys /\ gst'.all = gst.all
          /\ gst'.derivation = gst.derivation
      BY <1>1 DEF LocalTypes
    <2>3. Complete(gst)' <=> Complete(gst)
      BY <1>1, <2>2 DEF Complete
    <2>4. stagePass'.todo = stagePass.changed /\ stagePass'.files = indexed
      BY <1>1, <1>3, <2>1 DEF PlanRight, ToDerive, Republished, Held
    <2>5. indexed' = indexed /\ build' = build
      BY <1>1
    <2>6. /\ build # 0
          /\ stagePass.full = ~Complete(gst)
          /\ stagePass.changed = IF Complete(gst)
                     THEN {f \in Held(indexed) : gst.keys[f] # indexed[f]} ELSE Held(indexed)
          /\ stagePass.removed = IF Complete(gst) THEN Vanishing(gst.keys, indexed) ELSE {}
      BY <1>1, <2>1 DEF PlanRight
    <2> QED BY <1>3, <2>2, <2>3, <2>4, <2>5, <2>6 DEF PlanRight
  <1>7. Republished' => PlanRight'
    BY DEF PlanRight
  <1> QED BY <1>5, <1>6, <1>7

\* A derived file was what the base had.
LEMMA DeriveRight ==
  ASSUME LocalGraphInv, NEW f \in SrcFiles, DeriveFile(f)
  PROVE  LocalGraphInv'
  <1>1. CASE ~Matches(f)
    <2>1. EndWith("stale")
      BY <1>1 DEF DeriveFile
    <2> QED BY <2>1, EndRight DEF EndWith
  <1>2. CASE Matches(f)
    <2> USE DEF LocalGraphInv
    <2>1. /\ stagePass' = [stagePass EXCEPT !.todo = @ \ {f},
                             !.staged[f] = Derive(f, disk[f], derivation)]
          /\ UNCHANGED <<disk, indexed, build, stamp, rows, gst, derivation, promoted, strays>>
          /\ stagePass.step = "derive" /\ f \in stagePass.todo
      BY <1>2 DEF DeriveFile
    <2>2. PassShape(stagePass)
      BY DEF LocalTypes
    <2>3. /\ stagePass'.step = "derive" /\ stagePass'.prev = stagePass.prev
          /\ stagePass'.files = stagePass.files /\ stagePass'.changed = stagePass.changed
          /\ stagePass'.stamp = stagePass.stamp /\ stagePass'.build = stagePass.build
          /\ stagePass'.removed = stagePass.removed /\ stagePass'.full = stagePass.full
          /\ stagePass'.todo = stagePass.todo \ {f}
          /\ stagePass'.staged = [stagePass.staged EXCEPT ![f] = Derive(f, disk[f], derivation)]
      BY <2>1, <2>2 DEF PassShape
    <2>4. PassShape(stagePass') /\ stagePass'.stamp <= stamp
      <3>1. stagePass' = [step |-> stagePass'.step, action |-> stagePass'.action,
              full |-> stagePass'.full, build |-> stagePass'.build, stamp |-> stagePass'.stamp,
              changed |-> stagePass'.changed, removed |-> stagePass'.removed,
              files |-> stagePass'.files, staged |-> stagePass'.staged,
              todo |-> stagePass'.todo, prev |-> stagePass'.prev]
        BY <2>1, <2>2 DEF PassShape
      <3>2. /\ DOMAIN stagePass'.staged = SrcFiles
            /\ stagePass'.staged = [g \in SrcFiles |-> stagePass'.staged[g]]
        BY <2>2, <2>3 DEF PassShape
      <3> QED BY <2>2, <2>3, <3>1, <3>2 DEF PassShape, LocalTypes
    <2>5. StraysLeft' /\ RowsRight' /\ CurrentRight' /\ RowsPromoted' /\ LocalTypes'
      BY <2>1, <2>4
         DEF LocalTypes, StraysLeft, RowsRight, CurrentRight, RowsPromoted, Ours, CurrentGraph
    <2>6. ASSUME ~Republished' PROVE PlanRight'
      <3>1. ~Republished
        BY <2>1, <2>3, <2>6 DEF Republished
      <3>2. Complete(gst)' <=> Complete(gst)
        BY <2>1 DEF Complete
      <3>3. stagePass.files = indexed /\ stagePass.todo \subseteq stagePass.changed
        BY <2>1, <3>1 DEF PlanRight
      <3>4. disk[f] = indexed[f]
        BY <1>2, <3>3 DEF Matches
      <3>5. ASSUME NEW g \in stagePass'.changed \ stagePass'.todo
            PROVE  stagePass'.staged[g] = Derive(g, indexed[g], derivation)
        <4>1. CASE g = f
          BY <2>2, <2>3, <3>4, <4>1 DEF PassShape
        <4>2. CASE g # f
          BY <2>1, <2>2, <2>3, <3>1, <3>5, <4>2 DEF PlanRight, PassShape
        <4> QED BY <4>1, <4>2
      <3>6. indexed' = indexed /\ build' = build /\ gst' = gst /\ derivation' = derivation
        BY <2>1
      <3>7. /\ build # 0
            /\ stagePass.full = ~Complete(gst)
            /\ stagePass.changed = IF Complete(gst)
                       THEN {x \in Held(indexed) : gst.keys[x] # indexed[x]} ELSE Held(indexed)
            /\ stagePass.removed = IF Complete(gst) THEN Vanishing(gst.keys, indexed) ELSE {}
            /\ stagePass.prev.all = gst.all
        BY <2>1, <3>1 DEF PlanRight
      <3> QED BY <2>3, <3>2, <3>3, <3>5, <3>6, <3>7 DEF PlanRight
    <2>7. Republished' => PlanRight'
      BY DEF PlanRight
    <2> QED BY <2>5, <2>6, <2>7
  <1> QED BY <1>1, <1>2

-----------------------------------------------------------------------------
(* Promotion.                                                                *)

\* The plan of a stage whose base is still the published one.
Planned ==
    /\ LocalGraphInv /\ stagePass.step = "derive" /\ stagePass.todo = {}
    /\ ~Republished

\* What the fresh manifest says of each file.
Fresh == [f \in SrcFiles |-> SymbolsIn(f, Swapped[f], indexed)]
Touched == stagePass.changed \cup stagePass.removed

\* A file that was not touched has the manifest's content, rows and symbols;
\* all others have freshly derived rows, or none.
LEMMA SwappedRight ==
  ASSUME Planned, NEW f \in SrcFiles
  PROVE  \/ Swapped[f] = Derive(f, indexed[f], derivation)
         \/ /\ Complete(gst) /\ f \notin Touched /\ f \notin strays
            /\ gst.keys[f] = indexed[f]
            /\ Swapped[f] = Resolve(f, Derive(f, indexed[f], derivation), gst.keys)
  <1> USE DEF Planned, LocalGraphInv
  <1>1. /\ stagePass.full = ~Complete(gst)
        /\ stagePass.changed = IF Complete(gst)
              THEN {x \in Held(indexed) : gst.keys[x] # indexed[x]} ELSE Held(indexed)
        /\ stagePass.removed = IF Complete(gst) THEN Vanishing(gst.keys, indexed) ELSE {}
        /\ \A x \in stagePass.changed :
              stagePass.staged[x] = Derive(x, indexed[x], derivation)
    BY DEF PlanRight
  <1>2. CASE f \in stagePass.changed
    BY <1>1, <1>2 DEF Swapped
  <1>3. CASE f \notin stagePass.changed /\ indexed[f] = Absent
    <2>1. Swapped[f] = {}
      BY <1>3 DEF Swapped
    <2> QED BY <1>3, <2>1, NothingAbsent
  <1>4. CASE f \notin stagePass.changed /\ indexed[f] # Absent
    <2>1. Complete(gst) /\ gst.keys[f] = indexed[f]
      BY <1>1, <1>4 DEF Held
    <2>2. f \notin stagePass.removed
      BY <1>1, <1>4, <2>1 DEF Vanishing, Held
    <2>3. Ours /\ gst.derivation = derivation
      BY <2>1 DEF Ours, Complete
    <2>4. f \notin strays
      BY <2>1, <2>3 DEF StraysLeft
    <2>5. Swapped[f] = rows[f]
      BY <1>1, <1>4, <2>1 DEF Swapped
    <2>6. rows[f] = GraphOf(gst.keys, derivation)[f]
      BY <2>3, <2>4 DEF RowsRight
    <2>7. rows[f] = Resolve(f, Derive(f, indexed[f], derivation), gst.keys)
      BY <2>1, <2>6, GraphAt
    <2> QED BY <1>4, <2>1, <2>2, <2>4, <2>5, <2>7 DEF Touched
  <1> QED BY <1>2, <1>3, <1>4

\* Hence every file's fresh symbols are those of its content.
LEMMA FreshRight ==
  ASSUME Planned, NEW f \in SrcFiles
  PROVE  Fresh[f] = SymsOf(f, indexed[f])
  <1>1. {r.ref : r \in {r \in Swapped[f] : Crosses(r)}} = Unanswered(f, indexed[f])
    <2>1. CASE Swapped[f] = Derive(f, indexed[f], derivation)
      BY <2>1, OpenOfDerived
    <2>2. CASE Swapped[f] = Resolve(f, Derive(f, indexed[f], derivation), gst.keys)
      BY <2>2, OpenOfResolved
    <2> QED BY <2>1, <2>2, SwappedRight
  <1>2. Fresh[f] = [defs |-> DefsOf[indexed[f]],
                    refs |-> {r.ref : r \in {r \in Swapped[f] : Crosses(r)}}]
    BY DEF Fresh, SymbolsIn
  <1> QED BY <1>1, <1>2 DEF SymsOf

\* And resolving a file again gives its rows of a full derivation.
LEMMA ResolvedRight ==
  ASSUME Planned, NEW f \in SrcFiles
  PROVE  Resolve(f, Swapped[f], indexed) = GraphOf(indexed, derivation)[f]
  <1>1. GraphOf(indexed, derivation)[f] = Resolve(f, Derive(f, indexed[f], derivation), indexed)
    BY GraphAt
  <1>2. CASE Swapped[f] = Derive(f, indexed[f], derivation)
    BY <1>1, <1>2
  <1>3. CASE Swapped[f] = Resolve(f, Derive(f, indexed[f], derivation), gst.keys)
    BY <1>1, <1>3, ResolvedAgain
  <1> QED BY <1>2, <1>3, SwappedRight

\* A file that is not resolved again has no reference that a changed
\* definition could answer (resolve_files: "exactly what resolve_build would").
LEMMA UntargetedRight ==
  ASSUME Planned, NEW f \in SrcFiles, ~Whole, f \notin stagePass.changed,
         f \notin Dependents(gst.syms, ChangedDefs(Touched, gst.syms, Fresh))
  PROVE  Swapped[f] = GraphOf(indexed, derivation)[f]
  <1> USE DEF Planned, LocalGraphInv
  <1>1. Complete(gst) /\ ~gst.all
    BY DEF Whole, PlanRight, LocalTypes
  <1>2. Ours
    BY <1>1 DEF Ours, Complete
  <1>3. \A g \in SrcFiles : gst.syms[g] = SymsOf(g, gst.keys[g])
    BY <1>1, <1>2 DEF RowsRight
  <1>4. GraphOf(indexed, derivation)[f] = Resolve(f, Derive(f, indexed[f], derivation), indexed)
    BY GraphAt
  <1>5. CASE indexed[f] = Absent
    <2>1. Swapped[f] = {} /\ Derive(f, indexed[f], derivation) = {}
      BY <1>5, NothingAbsent DEF Swapped
    <2> QED BY <1>4, <2>1, NothingAbsent
  <1>6. CASE indexed[f] # Absent
    <2>1. gst.keys[f] = indexed[f]
      BY <1>1, <1>6 DEF PlanRight, Held
    <2>2. Swapped[f] = Resolve(f, Derive(f, indexed[f], derivation), gst.keys)
      <3>1. gst.derivation = derivation /\ f \notin strays
        BY <1>1, <1>2, <2>1 DEF Complete, StraysLeft
      <3>2. rows[f] = GraphOf(gst.keys, derivation)[f]
        BY <1>2, <3>1 DEF RowsRight
      <3>3. Swapped[f] = rows[f]
        BY <1>6 DEF Swapped, Whole
      <3> QED BY <2>1, <3>2, <3>3, GraphAt
    <2>3. ASSUME NEW t \in Unanswered(f, indexed[f])
          PROVE  CrossFile(f, t, gst.keys) = CrossFile(f, t, indexed)
      <3>1. gst.keys \in Tree /\ indexed \in Tree
        BY DEF LocalTypes
      <3>2. t \in Symbols
        BY <3>1, DefsKnown DEF Unanswered
      <3>3. t \in gst.syms[f].refs
        <4>1. gst.syms[f] = SymsOf(f, indexed[f])
          BY <1>3, <2>1
        <4> QED BY <2>3, <4>1 DEF SymsOf
      <3>4. ASSUME NEW g \in SrcFiles \ {f}, NEW q \in Symbols, BareName[q] = BareName[t]
            PROVE  q \in DefsOf[gst.keys[g]] <=> q \in DefsOf[indexed[g]]
        <4>1. CASE gst.keys[g] = indexed[g]
          BY <4>1
        <4>2. CASE gst.keys[g] # indexed[g]
          <5>1. g \in Touched
            BY <1>1, <3>1, <4>2 DEF Touched, PlanRight, Held, Vanishing, Tree
          <5>2. /\ gst.syms[g].defs = DefsOf[gst.keys[g]]
                /\ Fresh[g].defs = DefsOf[indexed[g]]
            <6>1. gst.syms[g] = SymsOf(g, gst.keys[g])
              BY <1>3
            <6>2. Fresh[g] = SymsOf(g, indexed[g])
              BY FreshRight
            <6> QED BY <6>1, <6>2 DEF SymsOf
          <5>3. q \notin ChangedDefs(Touched, gst.syms, Fresh)
            BY <3>3, <3>4 DEF Dependents
          <5> QED BY <5>1, <5>2, <5>3 DEF ChangedDefs
        <4> QED BY <4>1, <4>2
      <3> QED BY <3>1, <3>2, <3>4, SameAnswer
    <2>4. Resolve(f, Derive(f, indexed[f], derivation), gst.keys)
            = Resolve(f, Derive(f, indexed[f], derivation), indexed)
      BY <2>3, SameRows
    <2> QED BY <1>4, <2>2, <2>4
  <1> QED BY <1>5, <1>6

\* So what is promoted is the full derivation, with its manifest.
LEMMA CommitRight ==
  ASSUME LocalGraphInv, CommitStage
  PROVE  LocalGraphInv'
  <1>1. CASE Republished
    <2>1. EndWith("stale")
      BY <1>1 DEF CommitStage
    <2> QED BY <2>1, EndRight DEF EndWith
  <1>2. CASE ~Republished
    <2>1. Planned
      BY <1>2 DEF CommitStage, Planned
    <2> DEFINE final == [f \in SrcFiles |->
                           IF f \in Targets(Fresh) THEN Resolve(f, Swapped[f], indexed)
                           ELSE Swapped[f]]
               syms == [f \in SrcFiles |->
                          IF Whole \/ f \in Touched THEN Fresh[f] ELSE gst.syms[f]]
    <2>2. /\ rows' = final /\ promoted' = final /\ strays' = {}
          /\ gst' = [state |-> "ready", gen |-> stagePass.prev.gen + 1,
                     build |-> build, base |-> stamp, derivation |-> derivation,
                     keys |-> stagePass.files, all |-> FALSE, syms |-> syms]
          /\ stagePass' = Idle
          /\ UNCHANGED <<disk, indexed, build, stamp, derivation>>
      BY <1>2 DEF CommitStage, Fresh, Touched
    <2>3. final = [f \in SrcFiles |-> final[f]] /\ syms = [f \in SrcFiles |-> syms[f]]
      OBVIOUS
    <2>4. ASSUME NEW f \in SrcFiles PROVE final[f] = GraphOf(indexed, derivation)[f]
      <3>1. CASE f \in Targets(Fresh)
        BY <2>1, <3>1, ResolvedRight
      <3>2. CASE f \notin Targets(Fresh)
        <4>1. /\ ~Whole /\ f \notin stagePass.changed
              /\ f \notin Dependents(gst.syms, ChangedDefs(Touched, gst.syms, Fresh))
          BY <3>2 DEF Targets, Touched
        <4>2. Swapped[f] = GraphOf(indexed, derivation)[f]
          BY <2>1, <4>1, UntargetedRight
        <4> QED BY <3>2, <4>2
      <3> QED BY <3>1, <3>2
    <2>5. ASSUME NEW f \in SrcFiles PROVE syms[f] = SymsOf(f, indexed[f])
      <3>1. CASE Whole \/ f \in Touched
        BY <2>1, <3>1, FreshRight
      <3>2. CASE ~(Whole \/ f \in Touched)
        <4> USE DEF Planned, LocalGraphInv
        <4>1. Complete(gst) /\ ~gst.all
          BY <2>1, <3>2 DEF Whole, PlanRight, LocalTypes
        <4>2. gst.syms[f] = SymsOf(f, gst.keys[f])
          BY <2>1, <4>1 DEF RowsRight, Ours, Complete
        <4>3. gst.keys[f] = indexed[f]
          BY <2>1, <3>2, <4>1 DEF Touched, PlanRight, Held, Vanishing, LocalTypes, Tree
        <4> QED BY <3>2, <4>2, <4>3
      <3> QED BY <3>1, <3>2
    <2> HIDE DEF final, syms
    <2>6. /\ gst'.keys = indexed /\ gst'.syms = syms /\ gst'.all = FALSE
          /\ gst'.derivation = derivation /\ gst'.gen = stagePass.prev.gen + 1
          /\ gst'.build = build /\ gst'.base = stamp /\ build # 0
          /\ gst' = [state |-> gst'.state, gen |-> gst'.gen, build |-> gst'.build,
                     base |-> gst'.base, derivation |-> gst'.derivation,
                     keys |-> gst'.keys, syms |-> gst'.syms, all |-> gst'.all]
      BY <2>1, <2>2 DEF Planned, LocalGraphInv, PlanRight
    <2>7. LocalTypes'
      <3> USE DEF LocalGraphInv
      <3>1. stagePass.prev.gen \in Nat
        BY DEF LocalTypes, PassShape
      <3>2. /\ gst'.gen \in Nat /\ gst'.build \in Nat /\ gst'.base \in Nat
            /\ gst'.build <= build /\ gst'.base <= stamp /\ gst'.keys \in Tree
            /\ build # 0
        BY <2>6, <3>1 DEF LocalTypes
      <3>3. gst'.all \in BOOLEAN /\ gst'.syms = [f \in SrcFiles |-> gst'.syms[f]]
        BY <2>3, <2>6
      <3>4. PassShape(stagePass') /\ stagePass'.stamp <= stamp
        BY <2>2, IdleShape DEF LocalTypes
      <3> QED BY <2>2, <2>3, <2>6, <3>2, <3>3, <3>4 DEF LocalTypes
    <2>8. RowsRight'
      BY <2>2, <2>4, <2>5, <2>6 DEF RowsRight
    <2>9. StraysLeft' /\ CurrentRight' /\ RowsPromoted' /\ PlanRight'
      BY <2>2, <2>6, IdleShape DEF StraysLeft, CurrentRight, Ours, RowsPromoted, PlanRight
    <2> QED BY <2>7, <2>8, <2>9 DEF LocalGraphInv
  <1> QED BY <1>1, <1>2

\* A stage that dies leaves the graph state as it was.
LEMMA DiesRight ==
  ASSUME LocalGraphInv, StageDies
  PROVE  LocalGraphInv'
  <1> USE DEF LocalGraphInv, StageDies
  <1>1. PlanRight' /\ PassShape(stagePass') /\ stagePass'.stamp <= stamp
    BY IdleShape DEF PlanRight, LocalTypes
  <1>2. StraysLeft' /\ RowsRight' /\ CurrentRight' /\ RowsPromoted' /\ LocalTypes'
    BY <1>1
       DEF LocalTypes, StraysLeft, RowsRight, CurrentRight, RowsPromoted, Ours, CurrentGraph
  <1> QED BY <1>1, <1>2

(* The inductive invariant: rows and symbols are those of the manifest's     *)
(* tree except for strays, which have left it; a running stage's plan is     *)
(* that of the base generation it was made for.                              *)
THEOREM LocalGraphInvariant ==
  ASSUME Returns = FALSE
  PROVE  LocalGraphSpec => []LocalGraphInv
  <1>1. LocalGraphInit => LocalGraphInv
    BY InitRight
  <1>2. ASSUME LocalGraphInv, [LocalGraphNext]_localGraphVars PROVE LocalGraphInv'
    <2>1. ASSUME NEW f \in SrcFiles, NEW c \in Texts \cup {Absent}, EditFile(f, c)
          PROVE  LocalGraphInv'
      BY <1>2, <2>1, EditRight
    <2>2. CASE PublishInPlace
      BY <1>2, <2>2, InPlaceRight
    <2>3. ASSUME NEW carried \in BOOLEAN, PublishNewBuild(carried) PROVE LocalGraphInv'
      BY <1>2, <2>3, NewBuildRight
    <2>4. CASE Upgraded
      BY <1>2, <2>4, UpgradeRight
    <2>5. CASE MarkDisabled
      BY <1>2, <2>5, EndRight DEF MarkDisabled
    <2>6. CASE StageFails
      BY <1>2, <2>6, EndRight DEF StageFails, EndWith
    <2>7. CASE StageDies
      BY <1>2, <2>7, DiesRight
    <2>8. ASSUME NEW m \in Manifests, AdoptGraph(m) PROVE LocalGraphInv'
      BY <1>2, <2>8, AdoptRight
    <2>9. CASE PlanStage
      BY <1>2, <2>9, PlanStepRight
    <2>10. CASE RebindStage
      BY <1>2, <2>10, RebindRight
    <2>11. CASE StartStage
      BY <1>2, <2>11, StartRight
    <2>12. CASE CommitStage
      BY <1>2, <2>12, CommitRight
    <2>13. ASSUME NEW f \in SrcFiles, DeriveFile(f) PROVE LocalGraphInv'
      BY <1>2, <2>13, DeriveRight
    <2>14. CASE UNCHANGED localGraphVars
      <3> USE DEF LocalGraphInv
      <3>1. LocalTypes' /\ StraysLeft' /\ RowsRight' /\ CurrentRight' /\ RowsPromoted'
        BY <1>2, <2>14 DEF localGraphVars, LocalTypes, PassShape, StraysLeft, RowsRight,
             CurrentRight, RowsPromoted, Ours, CurrentGraph
      <3>2. PlanRight'
        BY <1>2, <2>14 DEF localGraphVars, PlanRight, Republished, Complete
      <3> QED BY <3>1, <3>2
    <2> QED BY <1>2, <2>1, <2>2, <2>3, <2>4, <2>5, <2>6, <2>7, <2>8, <2>9, <2>10, <2>11,
              <2>12, <2>13, <2>14 DEF LocalGraphNext, BasePass, StageStep
  <1> QED BY <1>1, <1>2, PTL DEF LocalGraphSpec

\* A stage that ends keeps the bounds.
LEMMA BoundedEnd ==
  ASSUME Bounded, LocalTypes, NEW s \in {"stale", "failed", "disabled"}, stagePass' = Idle,
         gst' = [gst EXCEPT !.state = s], UNCHANGED <<build, stamp, derivation>>
  PROVE  Bounded'
  <1>1. gst'.state = s /\ gst'.derivation = gst.derivation
    BY DEF LocalTypes
  <1>2. stagePass'.todo \subseteq stagePass'.changed
    BY DEF Idle
  <1> QED BY <1>1, <1>2 DEF Bounded

\* Every step keeps the bounds.
LEMMA BoundedStep ==
  ASSUME Bounded, LocalTypes, [LocalGraphNext]_localGraphVars
  PROVE  Bounded'
  <1>1. ASSUME NEW f \in SrcFiles, NEW c \in Texts \cup {Absent}, EditFile(f, c) PROVE Bounded'
    BY <1>1 DEF EditFile, Bounded
  <1>2. CASE PublishInPlace
    BY <1>2, LocalGraphAssumption DEF PublishInPlace, Bounded, LocalTypes
  <1>3. ASSUME NEW carried \in BOOLEAN, PublishNewBuild(carried) PROVE Bounded'
    <2>1. build' <= MaxStamp /\ stamp' <= MaxStamp
      BY <1>3, LocalGraphAssumption DEF PublishNewBuild, LocalTypes
    <2>2. gst'.state = gst.state /\ gst'.derivation = gst.derivation
      BY <1>3 DEF PublishNewBuild, LocalTypes
    <2>3. derivation' = derivation /\ stagePass' = stagePass
      BY <1>3 DEF PublishNewBuild
    <2> QED BY <2>1, <2>2, <2>3 DEF Bounded
  <1>4. CASE Upgraded
    BY <1>4 DEF Upgraded, Bounded, LocalTypes
  <1>5. CASE MarkDisabled
    BY <1>5, BoundedEnd DEF MarkDisabled
  <1>6. CASE StageFails
    BY <1>6, BoundedEnd DEF StageFails, EndWith
  <1>7. CASE StageDies
    BY <1>7 DEF StageDies, Bounded, Idle
  <1>8. ASSUME NEW m \in Manifests, AdoptGraph(m) PROVE Bounded'
    <2>1. gst'.state = gst.state /\ gst'.derivation = derivation
      BY <1>8 DEF AdoptGraph, LocalTypes
    <2>2. UNCHANGED <<build, stamp, derivation, stagePass>>
      BY <1>8 DEF AdoptGraph
    <2> QED BY <2>1, <2>2 DEF Bounded, LocalTypes
  <1>9. CASE PlanStage
    <2>1. stagePass'.todo = {}
      BY <1>9 DEF PlanStage, Idle
    <2> QED BY <1>9, <2>1 DEF PlanStage, Bounded
  <1>10. CASE RebindStage
    <2>1. gst'.state \in {gst.state, "ready"} /\ gst'.derivation = gst.derivation
      BY <1>10 DEF RebindStage, LocalTypes
    <2>2. UNCHANGED <<build, stamp, derivation>> /\ stagePass' = Idle
      BY <1>10 DEF RebindStage
    <2> QED BY <2>1, <2>2 DEF Bounded, Idle
  <1>11. CASE StartStage
    <2>1. gst'.state = "building" /\ gst'.derivation = gst.derivation
      BY <1>11 DEF StartStage, LocalTypes
    <2>2. stagePass'.todo = ToDerive /\ stagePass'.changed = stagePass.changed
      BY <1>11 DEF StartStage, LocalTypes, PassShape
    <2>3. UNCHANGED <<build, stamp, derivation>>
      BY <1>11 DEF StartStage
    <2> QED BY <2>1, <2>2, <2>3 DEF Bounded, ToDerive
  <1>12. CASE CommitStage
    <2>1. CASE Republished
      BY <1>12, <2>1, BoundedEnd DEF CommitStage, EndWith
    <2>2. CASE ~Republished
      <3>1. gst'.state = "ready" /\ gst'.derivation = derivation
        BY <1>12, <2>2 DEF CommitStage
      <3>2. UNCHANGED <<build, stamp, derivation>> /\ stagePass' = Idle
        BY <1>12, <2>2 DEF CommitStage
      <3> QED BY <3>1, <3>2 DEF Bounded, Idle, LocalTypes
    <2> QED BY <2>1, <2>2
  <1>13. ASSUME NEW f \in SrcFiles, DeriveFile(f) PROVE Bounded'
    <2>1. CASE Matches(f)
      <3>1. stagePass'.todo = stagePass.todo \ {f} /\ stagePass'.changed = stagePass.changed
        BY <1>13, <2>1 DEF DeriveFile, LocalTypes, PassShape
      <3>2. UNCHANGED <<build, stamp, derivation, gst>>
        BY <1>13, <2>1 DEF DeriveFile
      <3> QED BY <3>1, <3>2 DEF Bounded
    <2>2. CASE ~Matches(f)
      BY <1>13, <2>2, BoundedEnd DEF DeriveFile, EndWith
    <2> QED BY <2>1, <2>2
  <1>14. CASE UNCHANGED localGraphVars
    BY <1>14 DEF localGraphVars, Bounded
  <1> QED BY <1>1, <1>2, <1>3, <1>4, <1>5, <1>6, <1>7, <1>8, <1>9, <1>10, <1>11, <1>12,
             <1>13, <1>14 DEF LocalGraphNext, BasePass, StageStep

(* LocalGraphRight: what a store reports as its current graph is what        *)
(* deriving every file from scratch gives, and the last graph is of one      *)
(* generation, as long as no stray file returns to the content its manifest  *)
(* names (graph_stage.rs).                                                   *)
THEOREM GraphIsDerivation ==
  ASSUME Returns = FALSE
  PROVE  LocalGraphSpec => []LocalGraphRight
  <1>1. LocalGraphInv => CurrentIsDerivation
    <2> SUFFICES ASSUME LocalGraphInv, CurrentGraph
                 PROVE  rows = GraphOf(indexed, gst.derivation)
      BY DEF CurrentIsDerivation
    <2>1. Ours /\ gst.keys = indexed
      BY DEF LocalGraphInv, CurrentRight
    <2>2. strays = {}
      BY <2>1, NoStrays
    <2>3. \A f \in SrcFiles : rows[f] = GraphOf(indexed, gst.derivation)[f]
      BY <2>1, <2>2 DEF LocalGraphInv, RowsRight
    <2>4. rows = [f \in SrcFiles |-> rows[f]]
      BY DEF LocalGraphInv, LocalTypes
    <2> QED BY <2>3, <2>4 DEF GraphOf
  <1>2. LocalGraphInv => OneGeneration
    BY DEF LocalGraphInv, LocalTypes, OneGeneration, LastGraph, RowsPromoted, Ours
  <1>3. LocalGraphInit => Bounded
    BY LocalGraphAssumption DEF LocalGraphInit, Bounded, Pending0, Idle
  <1>4. Bounded /\ LocalGraphInv /\ [LocalGraphNext]_localGraphVars => Bounded'
    BY BoundedStep DEF LocalGraphInv
  <1>5. Bounded /\ LocalGraphInv => LocalGraphTypeOK
    BY LocalGraphAssumption DEF Bounded, LocalGraphInv, LocalTypes, PassShape, LocalGraphTypeOK
  <1> QED BY <1>1, <1>2, <1>3, <1>4, <1>5, LocalGraphInvariant, PTL
          DEF LocalGraphRight, LocalGraphSpec

-----------------------------------------------------------------------------
(* The vector index.                                                       *)

\* A file has the subjects of the revision in its header.
Agrees(file) ==
    /\ file \in Files /\ file.rev <= Len(vecs)
    /\ Known(file.index) = Known(vecs[file.rev])

\* Every file there is agrees with its header: the base file, the log's two,
\* those that searches have read and remember.
FilesAgree ==
    /\ base # NoFile => Agrees(base)
    /\ log # NoFile => Agrees(log.of) /\ Agrees(log.to)
    /\ \A s \in Searchers : /\ got[s] # NoFile => Agrees(got[s])
                            /\ cache[s] # NoFile => Agrees(cache[s])

\* What sync found, as long as nobody writes vectors.
Loaded == IF base = NoFile THEN Nothing ELSE Replayed(base, log).index

\* What sync is about to write, or has written.
SyncTrue ==
    /\ pc = "write" =>
          /\ plan.ops = Difference(Loaded, vecs[working])
          /\ plan.index = Apply(Loaded, plan.ops)
          /\ plan.append => Appendable(base)
    /\ pc = "unlink" => base # NoFile /\ base.rev = working
    /\ SyncedIsUsed

\* A search that answers has a file of the revision it read.
SearchesTrue ==
    \A s \in Searchers :
        /\ current[s] <= Len(vecs)
        /\ spc[s] = "log" => got[s] # NoFile
        /\ spc[s] = "answer" => cache[s] # NoFile /\ cache[s].rev = current[s]

AnnInv == AnnTypeOK /\ FilesAgree /\ SyncTrue /\ SearchesTrue

-----------------------------------------------------------------------------
(* The operators.                                                           *)

(* A delta says what must be lost or gained, and applying it gives an index  *)
(* with exactly the subjects that were wanted.                               *)
LEMMA DeltaCorrect ==
  ASSUME NEW index \in Contents, NEW wanted \in Contents
  PROVE  /\ Difference(index, wanted) \in Deltas
         /\ Apply(index, Difference(index, wanted)) \in Contents
         /\ Known(Apply(index, Difference(index, wanted))) = Known(wanted)
  <1>1. \A l \in Labels : /\ index[l] \in VectorsOf[l] \cup {Missing}
                          /\ wanted[l] \in VectorsOf[l] \cup {Missing}
                          /\ VectorsOf[l] \subseteq Vectors
    BY AnnAssumption DEF Contents
  <1> DEFINE d == Difference(index, wanted)
             a == Apply(index, d)
  <1>2. d \in Deltas
    BY <1>1 DEF Difference, Deltas
  <1>3. a = [l \in Labels |-> IF d[l] = Keep THEN index[l] ELSE d[l]]
    BY DEF Apply
  <1>4. \A l \in Labels : d[l] = IF (index[l] = Missing) = (wanted[l] = Missing)
                                 THEN Keep ELSE wanted[l]
    BY DEF Difference
  <1> HIDE DEF d, a
  <1>5. \A l \in Labels : /\ a[l] \in VectorsOf[l] \cup {Missing}
                          /\ a[l] = Missing <=> wanted[l] = Missing
    BY <1>1, <1>3, <1>4, AnnAssumption
  <1>6. a \in [Labels -> Vectors \cup {Missing}]
    BY <1>1, <1>3, <1>5
  <1>7. a \in Contents
    BY <1>5, <1>6 DEF Contents
  <1>8. Known(a) = Known(wanted)
    BY <1>5 DEF Known
  <1> QED BY <1>2, <1>7, <1>8 DEF d, a

(* Files and logs are not the file that does not exist.                      *)
LEMMA FilesExist == NoFile \notin Files /\ NoFile \notin Logs
  BY AnnAssumption

(* Nothing is known of an empty index.                                       *)
LEMMA NothingContent == Nothing \in Contents
  BY DEF Nothing, Contents

(* Files that agree stay so when revisions are added.                        *)
LEMMA AgreesGrows ==
  ASSUME NEW file, Agrees(file), vecs \in Seq(Contents), NEW c \in Contents,
         vecs' = Append(vecs, c)
  PROVE  Agrees(file)'
  <1>1. /\ Len(vecs) \in Nat /\ Len(vecs') = Len(vecs) + 1
        /\ \A i \in 1 .. Len(vecs) : vecs'[i] = vecs[i]
    BY AppendProperties, LenProperties
  <1>2. file.rev \in 1 .. Len(vecs)
    BY <1>1, AnnAssumption DEF Agrees, Files, Revs
  <1> QED BY <1>1, <1>2 DEF Agrees

(* What is loaded from files that agree is one of them.                      *)
LEMMA ReplayedAgrees ==
  ASSUME AnnTypeOK, FilesAgree, NEW file, Agrees(file)
  PROVE  Agrees(Replayed(file, log)) /\ Replayed(file, log) # NoFile
  BY FilesExist DEF FilesAgree, Replayed, Agrees

(* What sync loads is an index.                                              *)
LEMMA LoadedContent == AnnTypeOK /\ FilesAgree => Loaded \in Contents
  BY NothingContent, ReplayedAgrees DEF Loaded, FilesAgree, Agrees, Files

-----------------------------------------------------------------------------
(* The steps.                                                               *)

(* At the start there is no file.                                            *)
LEMMA InitAnnInv == AnnInit => AnnInv
  <1> SUFFICES ASSUME AnnInit PROVE AnnInv
    OBVIOUS
  <1> USE AnnAssumption DEF AnnInit
  <1>1. vecs \in Seq(Contents) /\ Len(vecs) = 1
    BY NothingContent
  <1>2. NoPlan \in [index : Contents, ops : Deltas, append : BOOLEAN]
    BY NothingContent DEF NoPlan, Deltas
  <1>3. AnnTypeOK
    BY <1>1, <1>2 DEF AnnTypeOK, Revs
  <1>4. FilesAgree /\ SyncTrue /\ SearchesTrue
    BY <1>1 DEF FilesAgree, SyncTrue, SyncedIsUsed, SearchesTrue
  <1> QED BY <1>3, <1>4 DEF AnnInv

(* Vectors are written under a fresh revision, and sync starts over.         *)
LEMMA WriteStep ==
  ASSUME AnnInv, NEW c \in Contents, NEW visible \in BOOLEAN, WriteVectors(c, visible)
  PROVE  AnnInv'
  <1> USE DEF AnnInv
  <1>1. /\ Len(vecs) \in Nat /\ vecs \in Seq(Contents) /\ vecs' = Append(vecs, c)
        /\ vecs' \in Seq(Contents) /\ Len(vecs') = Len(vecs) + 1 /\ Len(vecs) < MaxRev
        /\ working' = Len(vecs) + 1 /\ committed' \in {working', committed}
        /\ pc' = "idle" /\ UNCHANGED <<fileVars, plan, searchVars>>
    BY AppendProperties, LenProperties DEF WriteVectors, AnnTypeOK
  <1>2. AnnTypeOK'
    BY <1>1, AnnAssumption DEF AnnTypeOK, Revs, fileVars, searchVars
  <1>3. FilesAgree'
    <2>1. /\ base # NoFile => Agrees(base)'
          /\ log # NoFile => Agrees(log.of)' /\ Agrees(log.to)'
          /\ \A s \in Searchers : /\ got[s] # NoFile => Agrees(got[s])'
                                  /\ cache[s] # NoFile => Agrees(cache[s])'
      BY <1>1, AgreesGrows DEF FilesAgree, fileVars, searchVars
    <2> QED BY <1>1, <2>1 DEF FilesAgree, fileVars, searchVars
  <1>4. SyncTrue'
    BY <1>1 DEF SyncTrue, SyncedIsUsed
  <1>5. SearchesTrue'
    BY <1>1, AnnAssumption DEF SearchesTrue, searchVars, AnnTypeOK, Revs
  <1> QED BY <1>2, <1>3, <1>4, <1>5

(* A commit, a rollback or a crash, the removal of the base file, and an     *)
(* error of sync.                                                            *)
LEMMA QuietStep ==
  ASSUME AnnInv, Commit \/ Abandon \/ RemoveBase \/ SyncFails
  PROVE  AnnInv'
  <1> USE DEF AnnInv
  <1>1. /\ UNCHANGED <<vecs, log, searchVars>>
        /\ committed' \in {committed, working}
        /\ \/ UNCHANGED <<base, working, pc, plan>>
           \/ /\ pc' = "idle" /\ plan' \in {plan, NoPlan}
              /\ base' \in {base, NoFile} /\ working' \in {working, committed'}
    BY DEF Commit, Abandon, RemoveBase, SyncFails, fileVars, dbVars
  <1>2. NoPlan \in [index : Contents, ops : Deltas, append : BOOLEAN]
    BY NothingContent DEF NoPlan, Deltas
  <1>3. AnnTypeOK'
    <2>1. committed' \in 1 .. Len(vecs) /\ working' \in committed' .. Len(vecs)
      BY LenProperties DEF Commit, Abandon, RemoveBase, SyncFails, dbVars, AnnTypeOK
    <2> QED BY <1>1, <1>2, <2>1 DEF AnnTypeOK, searchVars
  <1>4. FilesAgree'
    BY <1>1 DEF FilesAgree, Agrees, searchVars
  <1>5. SyncTrue'
    BY <1>1 DEF SyncTrue, SyncedIsUsed, Loaded, Appendable
  <1>6. SearchesTrue'
    BY <1>1 DEF SearchesTrue, searchVars
  <1> QED BY <1>3, <1>4, <1>5, <1>6

(* sync plans the difference between what it loads and what is wanted.       *)
LEMMA SyncStartStep == AnnInv /\ SyncStart => AnnInv'
  <1> SUFFICES ASSUME AnnInv, SyncStart PROVE AnnInv'
    OBVIOUS
  <1> USE DEF AnnInv
  <1> DEFINE loaded == IF base = NoFile THEN [index |-> Nothing, rev |-> working]
                       ELSE Replayed(base, log)
             ops == Difference(loaded.index, vecs[working])
  <1>1. /\ UNCHANGED <<dbVars, fileVars, searchVars>>
        /\ \/ base # NoFile /\ loaded.rev = working /\ pc' = "done" /\ UNCHANGED plan
           \/ /\ pc' = "write"
              /\ plan' = [index |-> Apply(loaded.index, ops), ops |-> ops,
                          append |-> Appendable(base)]
    BY DEF SyncStart
  <1>2. loaded.index = Loaded
    BY DEF Loaded
  <1>3. Loaded \in Contents /\ vecs[working] \in Contents
    BY LoadedContent DEF AnnTypeOK
  <1>4. ops \in Deltas /\ Apply(loaded.index, ops) \in Contents
    BY <1>2, <1>3, DeltaCorrect
  <1>5. AnnTypeOK'
    <2>1. plan' \in [index : Contents, ops : Deltas, append : BOOLEAN]
      <3>1. Appendable(base) \in BOOLEAN
        BY DEF Appendable
      <3>2. CASE UNCHANGED plan
        BY <3>2 DEF AnnTypeOK
      <3>3. CASE plan' = [index |-> Apply(loaded.index, ops), ops |-> ops,
                          append |-> Appendable(base)]
        BY <1>4, <3>1, <3>3
      <3> QED BY <1>1, <3>2, <3>3
    <2> QED BY <1>1, <2>1 DEF AnnTypeOK, dbVars, fileVars, searchVars
  <1>6. FilesAgree' /\ SearchesTrue'
    BY <1>1 DEF FilesAgree, Agrees, SearchesTrue, dbVars, fileVars, searchVars
  <1>7. SyncTrue'
    <2>1. Loaded' = Loaded /\ vecs'[working'] = vecs[working] /\ Appendable(base)' = Appendable(base)
      BY <1>1 DEF Loaded, Replayed, Appendable, Clean, dbVars, fileVars
    <2>2. CASE base # NoFile /\ loaded.rev = working /\ pc' = "done"
      BY <1>1, <2>1, <2>2 DEF SyncTrue, SyncedIsUsed, dbVars, fileVars
    <2>3. CASE pc' = "write" /\ plan' = [index |-> Apply(loaded.index, ops), ops |-> ops,
                                         append |-> Appendable(base)]
      BY <1>1, <1>2, <2>1, <2>3 DEF SyncTrue, SyncedIsUsed
    <2> QED BY <1>1, <2>2, <2>3
  <1> QED BY <1>5, <1>6, <1>7

(* One record brings what the log makes of the base file to the revision.    *)
LEMMA AppendStep ==
  ASSUME AnnInv, NEW torn \in BOOLEAN, AppendDelta(torn)
  PROVE  AnnInv'
  <1> USE DEF AnnInv
  <1> DEFINE old == IF log = NoFile THEN [of |-> base, to |-> base, torn |-> FALSE] ELSE log
             new == Replay(old.to, working, plan.ops)
  <1>1. /\ pc = "write" /\ plan.append /\ plan' = NoPlan
        /\ UNCHANGED <<dbVars, base, searchVars>>
        /\ \/ torn /\ log' = [old EXCEPT !.torn = TRUE] /\ pc' = "idle"
           \/ ~torn /\ log' = [old EXCEPT !.to = new] /\ pc' = "done"
    BY DEF AppendDelta
  <1>2. /\ base # NoFile /\ (log # NoFile => log.of = base)
        /\ plan.ops = Difference(Loaded, vecs[working])
    BY <1>1 DEF SyncTrue, Appendable, Clean
  <1>3. /\ base \in Files /\ Agrees(base) /\ working \in 1 .. Len(vecs) /\ working \in Revs
        /\ Len(vecs) \in Nat
    BY <1>2, AnnAssumption DEF FilesAgree, Agrees, AnnTypeOK, Revs
  <1>4. /\ old \in Logs /\ old.of = base /\ Agrees(old.to)
        /\ old.to.index = Loaded
    BY <1>2, <1>3 DEF AnnTypeOK, Logs, FilesAgree, Loaded, Replayed
  <1>5. Loaded \in Contents /\ vecs[working] \in Contents
    BY <1>3, LoadedContent DEF AnnTypeOK
  <1>6. /\ new = [index |-> Apply(Loaded, plan.ops), rev |-> working]
        /\ new \in Files /\ Agrees(new)
    BY <1>2, <1>3, <1>4, <1>5, DeltaCorrect DEF Replay, Files, Agrees
  <1>7. NoPlan \in [index : Contents, ops : Deltas, append : BOOLEAN]
    BY NothingContent DEF NoPlan, Deltas
  <1> HIDE DEF old, new
  <1>8. /\ log' \in Logs /\ log'.of = base
        /\ \/ torn /\ log'.to = old.to /\ pc' = "idle"
           \/ ~torn /\ log'.to = new /\ pc' = "done"
    BY <1>1, <1>4, <1>6 DEF Logs
  <1>9. AnnTypeOK'
    BY <1>1, <1>7, <1>8 DEF AnnTypeOK, dbVars, searchVars
  <1>10. FilesAgree'
    <2>1. \A file : Agrees(file) => Agrees(file)'
      BY <1>1 DEF Agrees, dbVars
    <2> QED BY <1>1, <1>3, <1>4, <1>6, <1>8, <2>1 DEF FilesAgree, searchVars
  <1>11. SyncTrue'
    <2>1. log' # NoFile
      BY <1>8, FilesExist
    <2> QED BY <1>1, <1>2, <1>6, <1>8, <2>1 DEF SyncTrue, SyncedIsUsed, Replayed, dbVars
  <1>12. SearchesTrue'
    BY <1>1 DEF SearchesTrue, dbVars, searchVars
  <1> QED BY <1>9, <1>10, <1>11, <1>12

(* The renamed base file has the subjects of the revision, and the log it    *)
(* leaves behind still agrees with the header it gives.                      *)
LEMMA SaveStep == AnnInv /\ (Rename \/ Unlink) => AnnInv'
  <1> SUFFICES ASSUME AnnInv, Rename \/ Unlink PROVE AnnInv'
    OBVIOUS
  <1> USE DEF AnnInv
  <1>1. CASE Rename
    <2>1. /\ pc = "write" /\ pc' = "unlink" /\ plan' = NoPlan
          /\ base' = [index |-> plan.index, rev |-> working]
          /\ UNCHANGED <<dbVars, log, searchVars>>
      BY <1>1 DEF Rename
    <2>2. working \in 1 .. Len(vecs) /\ working \in Revs /\ Len(vecs) \in Nat
      BY AnnAssumption DEF AnnTypeOK, Revs
    <2>3. Loaded \in Contents /\ vecs[working] \in Contents
      BY <2>2, LoadedContent DEF AnnTypeOK
    <2>4. plan.index = Apply(Loaded, Difference(Loaded, vecs[working]))
      BY <2>1 DEF SyncTrue
    <2>5. base' \in Files /\ Agrees(base')
      BY <2>1, <2>2, <2>3, <2>4, DeltaCorrect DEF Files, Agrees
    <2>6. base' # NoFile
      BY <2>5, FilesExist
    <2>7. NoPlan \in [index : Contents, ops : Deltas, append : BOOLEAN]
      BY NothingContent DEF NoPlan, Deltas
    <2>8. AnnTypeOK'
      BY <2>1, <2>5, <2>7 DEF AnnTypeOK, dbVars, searchVars
    <2>9. \A file : Agrees(file) => Agrees(file)'
      BY <2>1 DEF Agrees, dbVars
    <2>10. Agrees(base)'
      BY <2>1, <2>5 DEF Agrees, dbVars
    <2>11. FilesAgree'
      BY <2>1, <2>9, <2>10 DEF FilesAgree, searchVars
    <2>12. SyncTrue' /\ SearchesTrue'
      BY <2>1, <2>6 DEF SyncTrue, SyncedIsUsed, SearchesTrue, dbVars, searchVars
    <2> QED BY <2>8, <2>11, <2>12
  <1>2. CASE Unlink
    <2>1. /\ pc = "unlink" /\ log' = NoFile /\ pc' = "done"
          /\ UNCHANGED <<dbVars, base, plan, searchVars>>
      BY <1>2 DEF Unlink
    <2>2. AnnTypeOK'
      BY <2>1 DEF AnnTypeOK, dbVars, searchVars
    <2>3. FilesAgree' /\ SearchesTrue'
      BY <2>1 DEF FilesAgree, Agrees, SearchesTrue, dbVars, searchVars
    <2>4. SyncTrue'
      BY <2>1 DEF SyncTrue, SyncedIsUsed, Replayed, dbVars
    <2> QED BY <2>2, <2>3, <2>4
  <1> QED BY <1>1, <1>2

(* A search takes only a file of the revision it read.                       *)
LEMMA SearchStep ==
  ASSUME AnnInv, NEW s \in Searchers,
         ReadRevision(s) \/ ReadBase(s) \/ ReadLog(s) \/ Answer(s)
  PROVE  AnnInv'
  <1> USE DEF AnnInv
  <1>1. UNCHANGED <<dbVars, fileVars, pc, plan>>
    BY DEF ReadRevision, ReadBase, ReadLog, Answer
  <1>2. SyncTrue'
    BY <1>1 DEF SyncTrue, SyncedIsUsed, Loaded, Replayed, Appendable, Clean, dbVars, fileVars
  <1>3. \A file : Agrees(file) <=> Agrees(file)'
    BY <1>1 DEF Agrees, dbVars
  <1>4. committed \in Revs /\ committed <= Len(vecs) /\ Len(vecs) \in Nat
    BY AnnAssumption DEF AnnTypeOK, Revs
  <1>5. ASSUME spc' \in [Searchers -> {"idle", "base", "log", "answer"}],
               current' \in [Searchers -> Revs],
               got' \in [Searchers -> Files \cup {NoFile}],
               cache' \in [Searchers -> Files \cup {NoFile}]
        PROVE  AnnTypeOK'
    BY <1>1, <1>5 DEF AnnTypeOK, dbVars, fileVars
  <1>6. ASSUME \A t \in Searchers : /\ got'[t] # NoFile => Agrees(got'[t])
                                    /\ cache'[t] # NoFile => Agrees(cache'[t])
        PROVE  FilesAgree'
    BY <1>1, <1>3, <1>6 DEF FilesAgree, fileVars
  <1>7. CASE ReadRevision(s)
    <2>1. AnnTypeOK'
      BY <1>4, <1>5, <1>7 DEF ReadRevision, AnnTypeOK
    <2>2. FilesAgree'
      BY <1>6, <1>7 DEF ReadRevision, FilesAgree
    <2>3. SearchesTrue'
      BY <1>1, <1>4, <1>7 DEF ReadRevision, SearchesTrue, Usable, AnnTypeOK, dbVars
    <2> QED BY <1>2, <2>1, <2>2, <2>3
  <1>8. CASE ReadBase(s)
    <2>1. AnnTypeOK'
      BY <1>5, <1>8 DEF ReadBase, AnnTypeOK
    <2>2. FilesAgree'
      BY <1>6, <1>8 DEF ReadBase, FilesAgree, AnnTypeOK
    <2>3. SearchesTrue'
      BY <1>1, <1>8 DEF ReadBase, SearchesTrue, AnnTypeOK, dbVars
    <2> QED BY <1>2, <2>1, <2>2, <2>3
  <1>9. CASE ReadLog(s)
    <2> DEFINE file == Replayed(got[s], log)
    <2>1. got[s] # NoFile /\ Agrees(got[s])
      BY <1>9 DEF ReadLog, SearchesTrue, FilesAgree
    <2>2. Agrees(file) /\ file \in Files
      BY <2>1, ReplayedAgrees DEF Agrees
    <2>3. /\ got' = [got EXCEPT ![s] = NoFile] /\ UNCHANGED current
          /\ \/ /\ Usable(file, current[s]) /\ cache' = [cache EXCEPT ![s] = file]
                /\ spc' = [spc EXCEPT ![s] = "answer"]
             \/ spc' = [spc EXCEPT ![s] = "idle"] /\ UNCHANGED cache
      BY <1>9 DEF ReadLog
    <2> HIDE DEF file
    <2>4. AnnTypeOK'
      BY <1>5, <2>2, <2>3 DEF AnnTypeOK
    <2>5. FilesAgree'
      BY <1>6, <2>2, <2>3 DEF FilesAgree, AnnTypeOK
    <2>6. SearchesTrue'
      BY <1>1, <2>3 DEF SearchesTrue, Usable, AnnTypeOK, dbVars
    <2> QED BY <1>2, <2>4, <2>5, <2>6
  <1>10. CASE Answer(s)
    <2>1. AnnTypeOK'
      BY <1>5, <1>10 DEF Answer, AnnTypeOK
    <2>2. FilesAgree' /\ SearchesTrue'
      BY <1>1, <1>6, <1>10 DEF Answer, FilesAgree, SearchesTrue, AnnTypeOK, dbVars
    <2> QED BY <1>2, <2>1, <2>2
  <1> QED BY <1>7, <1>8, <1>9, <1>10

-----------------------------------------------------------------------------
(* Every reachable state satisfies the inductive invariant.                  *)
THEOREM AnnInvariant == AnnSpec => []AnnInv
  <1>1. AnnInit => AnnInv
    BY InitAnnInv
  <1>2. AnnInv /\ [AnnNext]_annVars => AnnInv'
    <2> SUFFICES ASSUME AnnInv, [AnnNext]_annVars PROVE AnnInv'
      OBVIOUS
    <2>1. CASE UNCHANGED annVars
      BY <2>1 DEF annVars, dbVars, fileVars, searchVars, AnnInv, AnnTypeOK, FilesAgree, Agrees,
            SyncTrue, SyncedIsUsed, Loaded, Replayed, Appendable, Clean, SearchesTrue
    <2> QED BY <2>1, WriteStep, QuietStep, SyncStartStep, AppendStep, SaveStep, SearchStep
            DEF AnnNext
  <1> QED BY <1>1, <1>2, PTL DEF AnnSpec

(* A search that is answered from the index sees exactly the subjects that   *)
(* had vectors at the revision it read, and a sync that reports success left *)
(* files that the next search will use, through torn logs, crashes,          *)
(* rollbacks and files replaced between two reads (search_timed, sync).      *)
THEOREM IndexIsTrusted == AnnSpec => []IndexTrusted
  <1>1. AnnInv => IndexTrusted
    BY DEF AnnInv, SyncTrue, SearchesTrue, FilesAgree, Agrees, IndexTrusted, SearchSeesSubjects
  <1> QED BY <1>1, AnnInvariant, PTL
=============================================================================
