--------------------------- MODULE LocalBuildProofs ---------------------------
(***************************************************************************)
(* A pass over a source in local mode, for any files, texts, versions and    *)
(* numbers of builds, changes and failures: what it deletes, what readers    *)
(* see of it, and what the next pass takes for unchanged; and what a pass    *)
(* finds on disk, for any trees and rules.                                   *)
(***************************************************************************)
EXTENDS LocalBuild, Scanning, WellFoundedInduction, SequenceTheorems, TLAPS

-----------------------------------------------------------------------------
(* The phases of a pass.                                                     *)

PassShape(p) ==
    /\ p = [build |-> p.build, full |-> p.full, resume |-> p.resume, before |-> p.before,
            scope |-> p.scope, complete |-> p.complete, seen |-> p.seen,
            todo |-> p.todo, gone |-> p.gone, restat |-> p.restat,
            hashes |-> p.hashes, goal |-> p.goal]
    /\ p.full \in BOOLEAN /\ p.resume \in BOOLEAN
    /\ p.goal \in [LocalFiles -> Stamps]
    /\ p.hashes \in [LocalFiles -> FileTexts \cup {NoHash}]

\* Before the plan, from the plan to the publication, and with its build.
Unplanned == {"open", "abandon", "redo", "plan"}
Building == {"session", "write", "finalize", "commit", "publish"}
Underway == {"scan", "diff", "warm", "begin"} \cup Building
Compared == {"warm", "begin"} \cup Building

\* The rows the pass started from.
OldRows == IF pass.full /\ ~pass.resume /\ place \notin Building THEN EmptyRows
           ELSE storeRows[pass.build]

Phases ==
    /\ place \in Unplanned => pass.build = NoLocal /\ ~pass.full /\ ~pass.resume
    /\ place \in Underway =>
        /\ pass.before = ctl.active
        /\ ~pass.full => /\ pass.build = ctl.active /\ ctl.active # NoLocal
                         /\ ctl.version = code /\ ~pass.resume
        /\ pass.full /\ pass.build # NoLocal => pass.build # ctl.active
        /\ pass.resume => pass.full /\ pass.build # NoLocal
        /\ pass.full /\ ~pass.resume /\ place \notin Building => pass.build = NoLocal
    /\ place \in Building => pass.build # NoLocal
    /\ place \in {"warm", "commit"} => ~pass.full
    /\ place = "warm" => pass.todo = {}
    /\ place \in {"mark", "gc"} => pass.full /\ pass.build = ctl.active /\ pass.build # NoLocal
    /\ place \in {"rollback", "discard"} => pass.full
    /\ place \in {"fail", "rollback", "discard"} => pass.build # NoLocal
    /\ place \in Compared =>
        /\ \A f \in pass.gone : f \in pass.scope /\ pass.complete
        /\ \A f \in pass.todo : pass.seen[f] # 0
    /\ place \in {"warm", "begin", "session"} =>
           \A f \in pass.restat : pass.seen[f] # 0 /\ OldRows[f] # NoRow
    /\ place \in {"write", "finalize", "commit"} /\ ~pass.full =>
           \A f \in LocalFiles : work[f] = NoRow => f \in pass.gone \/ OldRows[f] = NoRow

PassInv == LocalTypeOK /\ PassShape(pass) /\ Phases

-----------------------------------------------------------------------------
(* What readers see.                                                         *)

\* The pass did, or will do, what its goal says.
GoalInv ==
    /\ place \in {"warm", "begin", "session"} =>
        /\ \A f \in pass.todo : pass.goal[f] = pass.seen[f]
        /\ \A f \in LocalFiles \ pass.todo :
              pass.goal[f] = StampsOf(Kept(OldRows))[f]
    /\ place = "write" =>
        /\ \A f \in pass.todo : pass.goal[f] = pass.seen[f]
        /\ \A f \in LocalFiles \ pass.todo : pass.goal[f] = StampsOf(work)[f]
    /\ place \in {"finalize", "commit"} /\ ~pass.full => pass.goal = StampsOf(work)
    /\ place \in {"finalize", "publish"} /\ pass.full => pass.goal = StampsOf(storeRows[pass.build])
    /\ place = "publish" /\ ~pass.full => pass.goal = StampsOf(storeRows[pass.build])

\* A build's rows are of one version, recorded with it.
MadeInv ==
    /\ \A b \in LocalBuilds :
        /\ status[b] = "none" => storeRows[b] = EmptyRows
        /\ \A f \in LocalFiles :
              storeRows[b][f] # NoRow => storeRows[b][f].version = madeFor[b]
    /\ place \in Underway /\ pass.resume => status[pass.build] # "none"
    /\ place \in Building /\ status[pass.build] # "none" => madeFor[pass.build] = code
    /\ place \in Underway /\ pass.resume => madeFor[pass.build] = code
    /\ place \in {"write", "finalize", "commit"} =>
          \A f \in LocalFiles : work[f] # NoRow => work[f].version = code
    /\ place \in {"finalize", "publish"} /\ pass.full => status[pass.build] # "none"

\* The visible build is kept.
ActiveInv ==
    /\ ctl.active # NoLocal => status[ctl.active] # "none" /\ madeFor[ctl.active] = ctl.version
    /\ place = "gc" => status[pass.build] = "published"
    /\ place \in {"fail", "rollback", "discard"} /\ pass.full =>
          \/ ctl.active = pass.before /\ pass.build # ctl.active
          \/ ctl.active = pass.build /\ status[pass.build] = "published"

-----------------------------------------------------------------------------
(* What is taken for unchanged.                                              *)

\* The file's stamp or its hash in a row vouch for the text of the row.
RowTrue(f, r) ==
    r # NoRow =>
        /\ r.stamp <= lastStamp
        /\ fileStamps[f] # 0 /\ (r.stamp = fileStamps[f] \/ r.hash = Text[fileStamps[f]])
              => r.text \in {NoText, Text[fileStamps[f]]}
        /\ r.hash # NoHash => \E k \in 1 .. lastStamp : r.hash = Text[k]

TextInv ==
    /\ \A f \in LocalFiles : fileStamps[f] <= lastStamp /\ pass.seen[f] <= lastStamp
    /\ \A b \in LocalBuilds, f \in LocalFiles : RowTrue(f, storeRows[b][f])
    /\ \A f \in LocalFiles : RowTrue(f, work[f])
    /\ \A f \in LocalFiles :
          pass.hashes[f] # NoHash => \E k \in 1 .. lastStamp : pass.hashes[f] = Text[k]
    /\ place \in {"warm", "begin", "session"} =>
          \A f \in pass.restat :
              pass.seen[f] = fileStamps[f] => OldRows[f].hash = Text[fileStamps[f]]

-----------------------------------------------------------------------------
(* Parts that several steps share.                                           *)

CtlType == [state : {"needs_full", "building", "ready", "failed"},
            active : LocalBuilds \cup {NoLocal}, pending : LocalBuilds \cup {NoLocal},
            version : Versions \cup {0}]
StatusType == [LocalBuilds -> {"none", "building", "published", "superseded", "aborted"}]
MadeType == [LocalBuilds -> Versions \cup {0}]
RowsType == [LocalFiles -> Rows \cup {NoRow}]

PassTypes(p) ==
    /\ PassShape(p)
    /\ p.build \in LocalBuilds \cup {NoLocal} /\ p.before \in LocalBuilds \cup {NoLocal}
    /\ p.seen \in [LocalFiles -> Stamps]
    /\ p.todo \subseteq LocalFiles /\ p.gone \subseteq LocalFiles
    /\ p.restat \subseteq LocalFiles /\ p.scope \subseteq LocalFiles

WorldTypes ==
    /\ fileStamps \in [LocalFiles -> Stamps] /\ lastStamp \in Stamps
    /\ code \in Versions /\ faults \in 0 .. MaxFailures
    /\ shown \in [LocalFiles -> Stamps] /\ forced \in BOOLEAN

\* The types, by what the actions change together.
Types ==
    /\ WorldTypes /\ ctl \in CtlType /\ status \in StatusType /\ madeFor \in MadeType
    /\ storeRows \in [LocalBuilds -> RowsType] /\ place \in Places /\ PassTypes(pass)
    /\ work \in RowsType

\* The types of the model and the shape of the pass are these parts.
LEMMA TypesSplit == LocalTypeOK /\ PassShape(pass) <=> Types
  BY DEF Types, LocalTypeOK, WorldTypes, CtlType, StatusType, MadeType, RowsType, PassTypes

\* Nothing in memory.
LEMMA NoPassTypes ==
  /\ PassTypes(NoPass)
  /\ NoPass.build = NoLocal /\ NoPass.full = FALSE /\ NoPass.resume = FALSE
  BY LocalAssumption DEF PassTypes, PassShape, NoPass, Stamps

\* A build without rows.
LEMMA EmptyTypes ==
  EmptyRows \in RowsType /\ \A f \in LocalFiles : EmptyRows[f] = NoRow
  BY DEF EmptyRows, RowsType

\* Of some builds there is one with the least id.
LEMMA MinBuild ==
  ASSUME NEW S \in SUBSET LocalBuilds, S # {}
  PROVE  (CHOOSE b \in S : \A c \in S : b <= c) \in S
  <1> DEFINE Less == {x \in Nat \X Nat : x[1] < x[2]}
  <1>1. S \subseteq Nat
    BY DEF LocalBuilds
  <1>2. IsWellFoundedOn(Less, Nat)
    BY NatLessThanWellFounded DEF OpToRel
  <1>3. PICK b \in S : \A c \in S : <<c, b>> \notin Less
    <2> HIDE DEF Less
    <2> QED BY <1>1, <1>2, WFMin
  <1>4. ASSUME NEW c \in S PROVE b <= c
    <2>1. <<c, b>> \notin Less /\ b \in Nat /\ c \in Nat
      BY <1>1, <1>3
    <2>2. ~(c < b)
      BY <2>1
    <2> QED BY <2>1, <2>2
  <1> QED BY <1>4

\* gc_builds_keeping keeps what it is told to, and what was published.
LEMMA Collected ==
  ASSUME status \in StatusType, madeFor \in MadeType,
         storeRows \in [LocalBuilds -> RowsType], NEW kept, CollectBuilds(kept)
  PROVE  /\ status' \in StatusType /\ madeFor' \in MadeType
         /\ storeRows' \in [LocalBuilds -> RowsType]
         /\ \A b \in LocalBuilds :
               \/ status'[b] = status[b] /\ madeFor'[b] = madeFor[b]
                  /\ storeRows'[b] = storeRows[b]
               \/ /\ b \notin kept /\ status[b] \in {"aborted", "superseded", "building"}
                  /\ status'[b] = "none" /\ storeRows'[b] = EmptyRows
  BY EmptyTypes DEF CollectBuilds, StatusType, MadeType

\* abort_build keeps the visible build and its version.
LEMMA AbortedKeeps ==
  ASSUME ctl \in CtlType, NEW b
  PROVE  /\ Aborted(b) \in CtlType /\ Aborted(b).active = ctl.active
         /\ Aborted(b).version = ctl.version
  BY DEF Aborted, CtlType

\* A commit makes the session's rows those of its build.
LEMMA Committed ==
  ASSUME status \in StatusType, madeFor \in MadeType, code \in Versions,
         storeRows \in [LocalBuilds -> RowsType], work \in RowsType,
         pass.build \in LocalBuilds, Commit
  PROVE  /\ status' \in StatusType /\ madeFor' \in MadeType
         /\ storeRows' \in [LocalBuilds -> RowsType]
         /\ storeRows'[pass.build] = work
         /\ \A b \in LocalBuilds : b # pass.build =>
               /\ storeRows'[b] = storeRows[b] /\ status'[b] = status[b]
               /\ madeFor'[b] = madeFor[b]
         /\ status[pass.build] # "none" => status' = status /\ madeFor' = madeFor
         /\ status[pass.build] = "none" => /\ status'[pass.build] = "building"
                                           /\ madeFor'[pass.build] = code
  BY DEF Commit, StatusType, MadeType

\* What is kept of the rows of a build has their types.
LEMMA KeptTypes ==
  ASSUME NEW old \in RowsType, PassTypes(pass),
         \A f \in pass.restat : pass.seen[f] # 0 /\ old[f] # NoRow
  PROVE  /\ Kept(old) \in RowsType
         /\ \A f \in LocalFiles :
               /\ f \in pass.gone => Kept(old)[f] = NoRow
               /\ f \notin pass.gone /\ f \in pass.restat
                    => Kept(old)[f] = [old[f] EXCEPT !.stamp = pass.seen[f]]
                       /\ Kept(old)[f] # NoRow
               /\ f \notin pass.gone /\ f \notin pass.restat => Kept(old)[f] = old[f]
  <1>1. ASSUME NEW f \in LocalFiles, f \in pass.restat
        PROVE  [old[f] EXCEPT !.stamp = pass.seen[f]] \in Rows
    <2>1. old[f] \in Rows /\ pass.seen[f] \in 1 .. MaxStamps
      BY <1>1, LocalAssumption DEF RowsType, PassTypes, Stamps
    <2> QED BY <2>1 DEF Rows
  <1>2. NoRow \notin Rows
    BY LocalAssumption
  <1> QED BY <1>1, <1>2 DEF Kept, RowsType

-----------------------------------------------------------------------------
(* The phases of a pass follow each other.                                   *)

\* Files, programs and requests change while no pass decides anything.
LEMMA WorldPhases ==
  ASSUME Types, Phases,
         \/ \E f \in LocalFiles : WriteFile(f) \/ RemoveFile(f)
         \/ Upgrade \/ Rebuild \/ \E scope \in SUBSET LocalFiles \ {{}} : OpenPass(scope)
  PROVE  Types' /\ Phases'
  <1> USE LocalAssumption DEF Types, WorldTypes, Stamps
  <1>1. CASE \E f \in LocalFiles : WriteFile(f) \/ RemoveFile(f)
    <2>1. /\ fileStamps' \in [LocalFiles -> Stamps] /\ lastStamp' \in Stamps
          /\ UNCHANGED <<ctl, storeVars, place, pass, work, code, faults, histVars>>
      BY <1>1 DEF WriteFile, RemoveFile
    <2> QED BY SMTT(30), <2>1 DEF storeVars, histVars, Phases, OldRows, PassTypes, PassShape
  <1>2. CASE Upgrade
    <2>1. /\ code' \in Versions /\ faults' \in 0 .. MaxFailures /\ place = "idle"
          /\ UNCHANGED <<diskVars, ctl, storeVars, place, pass, work, histVars>>
      BY <1>2 DEF Upgrade, OneFault
    <2> QED BY <2>1 DEF diskVars, storeVars, histVars, Phases, PassTypes, PassShape, Unplanned,
              Underway, Building, Compared
  <1>3. CASE Rebuild
    <2>1. ctl' \in CtlType
      BY <1>3 DEF Rebuild, CtlType
    <2>7. faults' \in 0 .. MaxFailures
      BY <1>3 DEF Rebuild, OneFault
    <2>6. forced' \in BOOLEAN
      BY <1>3 DEF Rebuild
    <2>2. PassTypes(pass') /\ pass'.build = NoLocal /\ ~pass'.full /\ ~pass'.resume
      BY <1>3, NoPassTypes DEF Rebuild, NoPass, PassTypes, PassShape
    <2>3. place' = "open" /\ UNCHANGED <<diskVars, storeVars, work, code, shown>>
      BY <1>3 DEF Rebuild
    <2>4. Types'
      BY <2>1, <2>2, <2>3, <2>6, <2>7 DEF diskVars, storeVars, Places, PassTypes, PassShape
    <2>5. Phases'
      BY <2>2, <2>3 DEF Phases, Unplanned, Underway, Building, Compared
    <2> QED BY <2>4, <2>5
  <1>4. CASE \E scope \in SUBSET LocalFiles \ {{}} : OpenPass(scope)
    <2>1. PICK scope \in SUBSET LocalFiles \ {{}} : OpenPass(scope)
      BY <1>4
    <2>2. PassTypes(pass') /\ pass'.build = NoLocal /\ ~pass'.full /\ ~pass'.resume
      BY <2>1, NoPassTypes DEF OpenPass, NoPass, PassTypes, PassShape
    <2>3. place' = "open" /\ UNCHANGED <<diskVars, ctl, storeVars, work, code, faults, histVars>>
      BY <2>1 DEF OpenPass
    <2>4. Types'
      BY <2>2, <2>3 DEF diskVars, storeVars, histVars, Places, PassTypes, PassShape
    <2>5. Phases'
      BY <2>2, <2>3 DEF Phases, Unplanned, Underway, Building, Compared
    <2> QED BY <2>4, <2>5
  <1> QED BY <1>1, <1>2, <1>3, <1>4

\* A pass that ends leaves nothing in memory.
LEMMA EndPhases ==
  ASSUME Types, Phases, place' = "idle", pass' = NoPass, ctl' \in CtlType,
         status' \in StatusType, madeFor' \in MadeType, storeRows' \in [LocalBuilds -> RowsType],
         work' \in RowsType, shown' \in [LocalFiles -> Stamps], forced' \in BOOLEAN,
         faults' \in 0 .. MaxFailures, UNCHANGED <<diskVars, code>>
  PROVE  Types' /\ Phases'
  <1>1. Types'
    BY NoPassTypes DEF Types, WorldTypes, diskVars, Places, PassTypes, PassShape
  <1>2. Phases'
    BY DEF Phases, Unplanned, Underway, Building, Compared
  <1> QED BY <1>1, <1>2

\* The ways a pass ends.
LEMMA EndsPhases ==
  ASSUME Types, Phases,
         PassDies \/ Warm \/ CollectOld \/ FailsEarly \/ SessionFails \/ DiscardPending
  PROVE  Types' /\ Phases'
  <1> USE LocalAssumption DEF Types, WorldTypes
  <1>1. CASE PassDies \/ FailsEarly
    BY <1>1, EndPhases, EmptyTypes DEF PassDies, FailsEarly, OneFault, storeVars, histVars
  <1>2. CASE Warm
    <2>1. pass.build \in LocalBuilds /\ storeRows[pass.build] \in RowsType
      BY <1>2 DEF Warm, Phases, Underway, Building, CtlType, NoLocal
    <2>2. Kept(storeRows[pass.build]) \in RowsType
      BY <1>2, <2>1, KeptTypes DEF Warm, Phases, OldRows
    <2>3. storeRows' \in [LocalBuilds -> RowsType]
      BY <1>2, <2>1, <2>2 DEF Warm
    <2> QED BY <1>2, <2>3, EndPhases DEF Warm, PassTypes, PassShape
  <1>3. CASE CollectOld
    BY <1>3, Collected, EndPhases DEF CollectOld, histVars
  <1>4. CASE SessionFails
    BY <1>4, AbortedKeeps, EndPhases DEF SessionFails, OneFault, storeVars, histVars
  <1>5. CASE DiscardPending
    <2>1. status' \in StatusType /\ madeFor' \in MadeType /\ storeRows' \in [LocalBuilds -> RowsType]
      BY <1>5, Collected DEF DiscardPending, storeVars
    <2> QED BY <1>5, <2>1, EndPhases DEF DiscardPending, OneFault, histVars
  <1> QED BY <1>1, <1>2, <1>3, <1>4, <1>5

\* Recovery and the plan decide what the pass builds on.
LEMMA PlanPhases ==
  ASSUME Types, Phases, Resume \/ DropBuild \/ AbandonClaim \/ RequireFull \/ PlanPass
  PROVE  Types' /\ Phases'
  <1> USE LocalAssumption DEF Types, WorldTypes
  <1>1. CASE Resume
    <2>1. /\ status' \in StatusType /\ madeFor' \in MadeType
          /\ storeRows' \in [LocalBuilds -> RowsType]
      BY <1>1, Collected DEF Resume
    <2>2. /\ pass' = [pass EXCEPT !.build = ctl.pending, !.full = TRUE, !.resume = TRUE,
                            !.before = ctl.active, !.scope = LocalFiles]
          /\ place' = "scan" /\ ctl.pending # NoLocal /\ ctl.pending # ctl.active
          /\ UNCHANGED <<diskVars, ctl, work, code, faults, histVars>>
      BY <1>1 DEF Resume, Resumable
    <2>3. /\ pass'.build = ctl.pending /\ pass'.full = TRUE /\ pass'.resume = TRUE
          /\ pass'.before = ctl.active /\ pass'.scope = LocalFiles
          /\ pass'.seen = pass.seen /\ pass'.todo = pass.todo /\ pass'.gone = pass.gone
          /\ pass'.restat = pass.restat /\ pass'.hashes = pass.hashes /\ pass'.goal = pass.goal
      BY <2>2 DEF PassTypes, PassShape
    <2>4. PassTypes(pass')
      BY <2>2, <2>3 DEF PassTypes, PassShape, CtlType
    <2>5. Types'
      BY <2>1, <2>2, <2>4 DEF diskVars, histVars, Places, PassTypes, PassShape
    <2>6. Phases'
      BY <2>2, <2>3 DEF Phases, Unplanned, Underway, Building, Compared
    <2> QED BY <2>5, <2>6
  <1>2. CASE DropBuild
    <2>1. /\ status' \in StatusType /\ madeFor' \in MadeType
          /\ storeRows' \in [LocalBuilds -> RowsType]
      BY <1>2, Collected DEF DropBuild
    <2>2. /\ place = "open" /\ place' = "abandon"
          /\ UNCHANGED <<diskVars, ctl, pass, work, code, faults, histVars>>
      BY <1>2 DEF DropBuild
    <2>3. Types'
      BY <2>1, <2>2 DEF diskVars, histVars, Places, PassTypes, PassShape
    <2>4. Phases'
      BY <2>2 DEF Phases, Unplanned, Underway, Building, Compared
    <2> QED BY <2>3, <2>4
  <1>3. CASE AbandonClaim
    <2>1. /\ ctl' \in CtlType /\ place = "abandon" /\ place' \in {"redo", "plan"}
          /\ UNCHANGED <<diskVars, storeVars, pass, work, code, faults, histVars>>
      BY <1>3, AbortedKeeps DEF AbandonClaim
    <2>2. Types'
      BY <2>1 DEF diskVars, storeVars, histVars, Places, PassTypes, PassShape
    <2>3. Phases'
      BY <2>1 DEF Phases, Unplanned, Underway, Building, Compared
    <2> QED BY <2>2, <2>3
  <1>4. CASE RequireFull
    <2>1. /\ ctl' \in CtlType /\ place = "redo" /\ place' = "plan"
          /\ UNCHANGED <<diskVars, storeVars, pass, work, code, faults, shown>>
      BY <1>4 DEF RequireFull, CtlType
    <2>2. forced' \in BOOLEAN
      BY <1>4 DEF RequireFull
    <2>3. Types'
      BY <2>1, <2>2 DEF diskVars, storeVars, Places, PassTypes, PassShape
    <2>4. Phases'
      BY <2>1 DEF Phases, Unplanned, Underway, Building, Compared
    <2> QED BY <2>3, <2>4
  <1>5. CASE PlanPass
    <2>1. /\ place' = "scan" /\ place \in Unplanned
          /\ UNCHANGED <<diskVars, ctl, storeVars, work, code, faults, histVars>>
      BY <1>5 DEF PlanPass, Unplanned
    <2>2. pass.build = NoLocal /\ ~pass.full /\ ~pass.resume
      BY <2>1 DEF Phases
    <2>3. CASE NeedsFull
      <3>1. pass' = [pass EXCEPT !.full = TRUE, !.before = ctl.active, !.scope = LocalFiles]
        BY <1>5, <2>3 DEF PlanPass
      <3>2. /\ pass'.build = NoLocal /\ pass'.full = TRUE /\ pass'.resume = pass.resume
            /\ pass'.before = ctl.active
        BY <2>2, <3>1 DEF PassTypes, PassShape
      <3>3. PassTypes(pass')
        BY <3>1 DEF PassTypes, PassShape, CtlType
      <3>4. Types'
        BY <2>1, <3>3 DEF diskVars, storeVars, histVars, Places, PassTypes, PassShape
      <3>5. Phases'
        BY <2>1, <2>2, <3>2 DEF Phases, Unplanned, Underway, Building, Compared
      <3> QED BY <3>4, <3>5
    <2>4. CASE ~NeedsFull
      <3>1. pass' = [pass EXCEPT !.build = ctl.active, !.before = ctl.active]
        BY <1>5, <2>4 DEF PlanPass
      <3>2. /\ pass'.build = ctl.active /\ pass'.full = pass.full /\ pass'.resume = pass.resume
            /\ pass'.before = ctl.active
        BY <3>1 DEF PassTypes, PassShape
      <3>3. PassTypes(pass')
        BY <3>1 DEF PassTypes, PassShape, CtlType
      <3>4. Types'
        BY <2>1, <3>3 DEF diskVars, storeVars, histVars, Places, PassTypes, PassShape
      <3>5. ctl.active # NoLocal /\ ctl.version = code
        BY <2>4 DEF NeedsFull
      <3>6. Phases'
        BY <2>1, <2>2, <3>2, <3>5 DEF Phases, Unplanned, Underway, Building, Compared
      <3> QED BY <3>4, <3>6
    <2> QED BY <2>3, <2>4
  <1> QED BY <1>1, <1>2, <1>3, <1>4, <1>5

\* The scan sees stamps.
LEMMA ScanPhases ==
  ASSUME Types, Phases, NEW missed \in SUBSET LocalFiles, ScanTree(missed)
  PROVE  Types' /\ Phases'
  <1> USE LocalAssumption DEF Types, WorldTypes
  <1>1. faults' \in 0 .. MaxFailures
    BY DEF ScanTree, OneFault
  <1> DEFINE seen == [f \in LocalFiles |-> IF f \in pass.scope \ missed THEN fileStamps[f] ELSE 0]
             done == (missed = {})
  <1>2. seen \in [LocalFiles -> Stamps]
    BY DEF Stamps
  <1>3. /\ pass' = [pass EXCEPT !.complete = done, !.seen = seen]
        /\ place = "scan" /\ place' = "diff"
        /\ UNCHANGED <<diskVars, ctl, storeVars, work, code, histVars>>
    BY DEF ScanTree
  <1> HIDE DEF seen, done
  <1>4. /\ pass'.build = pass.build /\ pass'.full = pass.full /\ pass'.resume = pass.resume
        /\ pass'.before = pass.before
    BY <1>3 DEF PassTypes, PassShape
  <1>5. PassTypes(pass')
    BY <1>2, <1>3 DEF PassTypes, PassShape
  <1>6. Types'
    BY <1>1, <1>3, <1>5 DEF diskVars, storeVars, histVars, Places, PassTypes, PassShape
  <1>7. Phases'
    BY <1>3, <1>4 DEF Phases, Unplanned, Underway, Building, Compared
  <1> QED BY <1>6, <1>7

\* Files that vanished were looked for by a complete scan; what is written or
\* refreshed is there.
Hashed(due) == {f \in LocalFiles : Known(f) /\ (Retried(f, due) \/ ~SameStat(f))}
Same(due) == {f \in Hashed(due) : /\ ~Retried(f, due)
                                  /\ HashNow(f) # NoHash /\ HashNow(f) = Baseline(f).hash}
Todo(due) == {f \in LocalFiles : pass.seen[f] # 0 /\ Baseline(f) = NoRow}
               \cup (Hashed(due) \ Same(due))
GoneNow == {f \in LocalFiles : pass.complete /\ pass.seen[f] = 0 /\ Baseline(f) # NoRow}
Goal == [f \in LocalFiles |-> IF pass.seen[f] # 0 THEN pass.seen[f]
                              ELSE IF f \in GoneNow \/ OldRow(f) = NoRow THEN 0
                              ELSE OldRow(f).stamp]
Hashes(due) == [f \in LocalFiles |-> IF f \in Hashed(due) THEN HashNow(f) ELSE NoHash]

\* What a diff leaves in memory.
LEMMA DiffFacts ==
  ASSUME Types, Phases, NEW due, Diff(due)
  PROVE  /\ pass' = [pass EXCEPT !.todo = Todo(due), !.gone = GoneNow, !.restat = Same(due),
                        !.goal = Goal, !.hashes = Hashes(due)]
         /\ pass'.todo = Todo(due) /\ pass'.gone = GoneNow /\ pass'.restat = Same(due)
         /\ pass'.goal = Goal /\ pass'.hashes = Hashes(due)
         /\ pass'.build = pass.build /\ pass'.full = pass.full /\ pass'.resume = pass.resume
         /\ pass'.before = pass.before /\ pass'.seen = pass.seen
         /\ pass'.scope = pass.scope /\ pass'.complete = pass.complete
         /\ place = "diff" /\ place' \in {"warm", "begin"}
         /\ place' = "warm" => ~pass.full /\ Todo(due) = {} /\ GoneNow = {}
         /\ UNCHANGED <<diskVars, ctl, storeVars, work, code, faults, histVars>>
  <1>1. /\ pass' = [pass EXCEPT !.todo = Todo(due), !.gone = GoneNow, !.restat = Same(due),
                        !.goal = Goal, !.hashes = Hashes(due)]
        /\ place = "diff"
        /\ place' = IF ~pass.full /\ Todo(due) \cup GoneNow = {} THEN "warm" ELSE "begin"
        /\ UNCHANGED <<diskVars, ctl, storeVars, work, code, faults, histVars>>
    BY DEF Diff, Hashed, Same, Todo, GoneNow, Goal, Hashes
  <1>2. PassShape(pass)
    BY DEF Types, PassTypes
  <1> QED BY <1>1, <1>2 DEF PassShape

\* The rows a diff compares with are those it builds on.
LEMMA OldRowIs ==
  ASSUME place = "diff", place' \in {"warm", "begin"}, NEW f \in LocalFiles,
         pass'.full = pass.full, pass'.resume = pass.resume, pass'.build = pass.build,
         storeRows' = storeRows
  PROVE  OldRow(f) = OldRows[f] /\ OldRow(f) = OldRows'[f]
  BY DEF OldRow, OldRows, EmptyRows, Building

\* The diff leaves a plan for files that are there, and for files that vanished.
LEMMA DiffPhases ==
  ASSUME Types, Phases, NEW due \in SUBSET LocalFiles, Diff(due)
  PROVE  Types' /\ Phases'
  <1> USE LocalAssumption DEF Types, WorldTypes
  <1>1. Goal \in [LocalFiles -> Stamps]
    <2>1. ASSUME NEW f \in LocalFiles, OldRow(f) # NoRow PROVE OldRow(f).stamp \in Stamps
      <3>1. pass.build \in LocalBuilds \/ (pass.full /\ ~pass.resume)
        BY DiffFacts DEF Phases, Underway, PassTypes
      <3>2. OldRow(f) \in Rows
        BY <2>1, <3>1 DEF OldRow, RowsType
      <3> QED BY <3>2 DEF Rows, Stamps
    <2> QED BY <2>1 DEF Goal, PassTypes, Stamps
  <1>2. Hashes(due) \in [LocalFiles -> FileTexts \cup {NoHash}]
    BY DEF Hashes, HashNow, Stamps
  <1>3. PassTypes(pass')
    <2>1. /\ Todo(due) \subseteq LocalFiles /\ GoneNow \subseteq LocalFiles
          /\ Same(due) \subseteq LocalFiles
      BY DEF Todo, GoneNow, Same, Hashed
    <2>2. PassShape(pass')
      BY <1>1, <1>2, DiffFacts DEF PassTypes, PassShape
    <2> QED BY <2>1, <2>2, DiffFacts DEF PassTypes
  <1>4. Types'
    BY <1>3, DiffFacts DEF diskVars, storeVars, histVars, Places, PassTypes, PassShape
  <1>5. ASSUME NEW f \in Same(due) PROVE pass.seen[f] # 0 /\ OldRows'[f] # NoRow
    <2>1. f \in LocalFiles /\ Known(f)
      BY DEF Same, Hashed
    <2>2. OldRow(f) # NoRow /\ pass.seen[f] # 0
      BY <2>1 DEF Known, Baseline
    <2>3. storeRows' = storeRows
      BY DiffFacts DEF storeVars
    <2> QED BY <2>1, <2>2, <2>3, OldRowIs, DiffFacts
  <1>6. ASSUME NEW f \in GoneNow PROVE f \in pass.scope /\ pass.complete
    BY DEF GoneNow, Baseline
  <1>7. ASSUME NEW f \in Todo(due) PROVE pass.seen[f] # 0
    BY DEF Todo, Hashed, Known
  <1>8. Phases'
    <2>1. /\ pass'.todo = Todo(due) /\ pass'.gone = GoneNow /\ pass'.restat = Same(due)
          /\ pass'.build = pass.build /\ pass'.full = pass.full /\ pass'.resume = pass.resume
          /\ pass'.before = pass.before /\ pass'.seen = pass.seen
          /\ pass'.scope = pass.scope /\ pass'.complete = pass.complete
          /\ place = "diff" /\ place' \in {"warm", "begin"}
          /\ place' = "warm" => ~pass.full /\ Todo(due) = {}
          /\ ctl' = ctl /\ code' = code
      BY DiffFacts
    <2> QED BY <1>5, <1>6, <1>7, <2>1 DEF Phases, Unplanned, Underway, Building, Compared
  <1> QED BY <1>4, <1>8

\* The build a pass begins: its own, or one nobody has.
FreshBuilds == {b \in LocalBuilds : status[b] = "none" /\ b \notin {ctl.active, ctl.pending}}

\* begin_build changes the build of the pass and the claim, and nothing else.
LEMMA BeginFacts ==
  ASSUME Types, Phases, BeginLocal
  PROVE  /\ pass' = [pass EXCEPT !.build = pass'.build]
         /\ pass'.full = pass.full /\ pass'.resume = pass.resume
         /\ pass'.before = pass.before /\ pass'.seen = pass.seen
         /\ pass'.scope = pass.scope /\ pass'.complete = pass.complete
         /\ pass'.todo = pass.todo /\ pass'.gone = pass.gone /\ pass'.restat = pass.restat
         /\ pass'.goal = pass.goal /\ pass'.hashes = pass.hashes
         /\ pass'.build \in LocalBuilds
         /\ \/ pass.build # NoLocal /\ pass'.build = pass.build
            \/ pass.build = NoLocal /\ pass.full /\ ~pass.resume /\ pass'.build \in FreshBuilds
         /\ ctl' \in CtlType /\ ctl'.active = ctl.active /\ ctl'.version = ctl.version
         /\ place = "begin" /\ place' = "session"
         /\ UNCHANGED <<diskVars, storeVars, work, code, faults, histVars>>
  <1> USE DEF Types
  <1> DEFINE build == IF pass.build # NoLocal THEN pass.build
                      ELSE CHOOSE b \in FreshBuilds : \A c \in FreshBuilds : b <= c
  <1>1. /\ pass' = [pass EXCEPT !.build = build]
        /\ ctl' = [ctl EXCEPT !.state = "building", !.pending = build]
        /\ pass.build # NoLocal \/ FreshBuilds # {}
        /\ place = "begin" /\ place' = "session"
        /\ UNCHANGED <<diskVars, storeVars, work, code, faults, histVars>>
    BY DEF BeginLocal, FreshBuilds
  <1>2. pass.build = NoLocal => build \in FreshBuilds
    BY <1>1, MinBuild DEF FreshBuilds
  <1>3. build \in LocalBuilds
    BY <1>2 DEF FreshBuilds, PassTypes
  <1>4. pass.build = NoLocal => pass.full /\ ~pass.resume
    BY <1>1 DEF Phases, Underway
  <1>5. pass.build # NoLocal => build = pass.build
    OBVIOUS
  <1> HIDE DEF build
  <1>6. PassShape(pass)
    BY DEF PassTypes
  <1>7. /\ pass'.build = build
        /\ pass'.full = pass.full /\ pass'.resume = pass.resume
        /\ pass'.before = pass.before /\ pass'.seen = pass.seen
        /\ pass'.scope = pass.scope /\ pass'.complete = pass.complete
        /\ pass'.todo = pass.todo /\ pass'.gone = pass.gone /\ pass'.restat = pass.restat
        /\ pass'.goal = pass.goal /\ pass'.hashes = pass.hashes
    BY <1>1, <1>6 DEF PassShape
  <1>8. ctl' \in CtlType /\ ctl'.active = ctl.active /\ ctl'.version = ctl.version
    BY <1>1, <1>3 DEF CtlType
  <1> QED BY <1>1, <1>2, <1>3, <1>4, <1>5, <1>7, <1>8

\* A full pass begins a build beside the visible one.
LEMMA BeginPhases ==
  ASSUME Types, Phases, BeginLocal
  PROVE  Types' /\ Phases'
  <1> USE DEF Types, WorldTypes
  <1>1. /\ pass' = [pass EXCEPT !.build = pass'.build]
        /\ pass'.full = pass.full /\ pass'.resume = pass.resume
        /\ pass'.before = pass.before /\ pass'.seen = pass.seen
        /\ pass'.scope = pass.scope /\ pass'.complete = pass.complete
        /\ pass'.todo = pass.todo /\ pass'.gone = pass.gone /\ pass'.restat = pass.restat
        /\ pass'.build \in LocalBuilds
        /\ \/ pass.build # NoLocal /\ pass'.build = pass.build
           \/ pass.build = NoLocal /\ pass.full /\ ~pass.resume /\ pass'.build \in FreshBuilds
        /\ ctl' \in CtlType /\ ctl'.active = ctl.active /\ ctl'.version = ctl.version
        /\ place = "begin" /\ place' = "session" /\ code' = code /\ storeRows' = storeRows
    BY BeginFacts DEF storeVars
  <1>2. PassTypes(pass')
    BY <1>1 DEF PassTypes, PassShape
  <1>3. Types'
    BY <1>1, <1>2, BeginFacts DEF diskVars, storeVars, histVars, Places, PassTypes, PassShape
  <1>4. ASSUME NEW f \in pass.restat PROVE pass.seen[f] # 0 /\ OldRows'[f] # NoRow
    <2>1. pass.seen[f] # 0 /\ OldRows[f] # NoRow /\ f \in LocalFiles
      BY <1>1 DEF Phases, PassTypes
    <2>2. ~(pass.full /\ ~pass.resume)
      BY <1>1, <2>1, EmptyTypes DEF OldRows, Building
    <2>3. OldRows' = OldRows
      BY <1>1, <2>2 DEF OldRows, Building
    <2> QED BY <2>1, <2>3
  <1>5. pass'.full => pass'.build # ctl.active
    BY <1>1 DEF Phases, Underway, FreshBuilds
  <1>6. pass'.build # NoLocal
    BY <1>1 DEF LocalBuilds, NoLocal
  <1>7. Phases'
    BY <1>1, <1>4, <1>5, <1>6 DEF Phases, Unplanned, Underway, Building, Compared
  <1> QED BY <1>3, <1>7

\* Steps of a pass that has its build and goes on with it.
LEMMA SessionPhases ==
  ASSUME Types, Phases, OpenSession \/ Finalize
  PROVE  Types' /\ Phases'
  <1> USE DEF Types, WorldTypes
  <1>1. CASE OpenSession
    <2>1. /\ place = "session" /\ place' = "write" /\ work' = Kept(storeRows[pass.build])
          /\ UNCHANGED <<diskVars, ctl, storeVars, pass, code, faults, histVars>>
      BY <1>1 DEF OpenSession
    <2>2. OldRows = storeRows[pass.build] /\ OldRows' = OldRows
      BY <2>1 DEF OldRows, Building, storeVars
    <2>3. pass.build \in LocalBuilds
      BY <2>1 DEF Phases, Building, PassTypes
    <2>4. OldRows \in RowsType
      BY <2>2, <2>3
    <2>5. /\ Kept(OldRows) \in RowsType
          /\ \A f \in LocalFiles : Kept(OldRows)[f] = NoRow => f \in pass.gone \/ OldRows[f] = NoRow
      BY <2>1, <2>4, KeptTypes DEF Phases
    <2>6. Types'
      BY <2>1, <2>2, <2>5 DEF diskVars, storeVars, histVars, Places, PassTypes, PassShape
    <2>7. Phases'
      BY <2>1, <2>2, <2>5 DEF Phases, Unplanned, Underway, Building, Compared
    <2> QED BY <2>6, <2>7
  <1>2. CASE Finalize
    <2>1. /\ place = "finalize" /\ place' = IF pass.full THEN "publish" ELSE "commit"
          /\ UNCHANGED <<diskVars, ctl, storeVars, pass, work, code, faults, histVars>>
      BY <1>2 DEF Finalize
    <2>2. OldRows' = OldRows
      BY <2>1 DEF OldRows, Building, storeVars
    <2>3. Types'
      BY <2>1 DEF diskVars, storeVars, histVars, Places, PassTypes, PassShape
    <2>4. Phases'
      BY <2>1, <2>2 DEF Phases, Unplanned, Underway, Building, Compared
    <2> QED BY <2>3, <2>4
  <1> QED BY <1>1, <1>2

\* The row a worker makes of a file.
RowNow(f) == [stamp |-> pass.seen[f], hash |-> pass.hashes[f],
              text |-> IF fileStamps[f] = 0 THEN NoText ELSE Text[fileStamps[f]],
              version |-> code]

\* The row that is written is one.
LEMMA RowMade ==
  ASSUME Types, Phases, NEW f \in LocalFiles, PutRow(f)
  PROVE  RowNow(f) \in Rows /\ work' = [work EXCEPT ![f] = RowNow(f)]
  <1> USE LocalAssumption DEF Types, WorldTypes
  <1>1. /\ place = "write" /\ f \in pass.todo
        /\ work' = [work EXCEPT ![f] = RowNow(f)]
    BY DEF PutRow, RowNow
  <1>2. pass.seen[f] \in 1 .. MaxStamps
    BY <1>1 DEF Phases, Compared, Building, PassTypes, Stamps
  <1>3. pass.hashes[f] \in FileTexts \cup {NoHash}
    BY DEF PassTypes, PassShape
  <1>4. (IF fileStamps[f] = 0 THEN NoText ELSE Text[fileStamps[f]]) \in FileTexts \cup {NoText}
    BY DEF Stamps
  <1> QED BY <1>1, <1>2, <1>3, <1>4 DEF Rows, RowNow

\* A worker hashes and reads; the row that is written is one.
LEMMA WorkerPhases ==
  ASSUME Types, Phases, NEW f \in LocalFiles, Hash(f) \/ PutRow(f)
  PROVE  Types' /\ Phases'
  <1> USE LocalAssumption DEF Types, WorldTypes
  <1>1. HashNow(f) \in FileTexts \cup {NoHash}
    BY DEF HashNow, Stamps
  <1>2. CASE Hash(f)
    <2>1. /\ place = "write" /\ place' = place
          /\ pass' = [pass EXCEPT !.hashes[f] = HashNow(f)]
          /\ UNCHANGED <<diskVars, ctl, storeVars, work, code, faults, histVars>>
      BY <1>2 DEF Hash
    <2>2. /\ pass'.build = pass.build /\ pass'.full = pass.full /\ pass'.resume = pass.resume
          /\ pass'.before = pass.before /\ pass'.seen = pass.seen
          /\ pass'.scope = pass.scope /\ pass'.complete = pass.complete
          /\ pass'.todo = pass.todo /\ pass'.gone = pass.gone /\ pass'.restat = pass.restat
          /\ pass'.goal = pass.goal /\ pass'.hashes = [pass.hashes EXCEPT ![f] = HashNow(f)]
      BY <2>1 DEF PassTypes, PassShape
    <2>3. PassShape(pass')
      BY <1>1, <2>1, <2>2 DEF PassTypes, PassShape
    <2>4. Types'
      BY <2>1, <2>2, <2>3 DEF diskVars, storeVars, histVars, PassTypes
    <2>5. OldRows' = OldRows
      BY <2>1, <2>2 DEF OldRows, storeVars
    <2>6. Phases'
      BY <2>1, <2>2, <2>5 DEF Phases, Unplanned, Underway, Building, Compared
    <2> QED BY <2>4, <2>6
  <1>3. CASE PutRow(f)
    <2>1. /\ place = "write" /\ place' = place /\ f \in pass.todo
          /\ pass' = [pass EXCEPT !.todo = @ \ {f}, !.hashes[f] = NoHash]
          /\ UNCHANGED <<diskVars, ctl, storeVars, code, faults, histVars>>
      BY <1>3 DEF PutRow
    <2>3. /\ pass'.build = pass.build /\ pass'.full = pass.full /\ pass'.resume = pass.resume
          /\ pass'.before = pass.before /\ pass'.seen = pass.seen
          /\ pass'.scope = pass.scope /\ pass'.complete = pass.complete
          /\ pass'.todo = pass.todo \ {f} /\ pass'.gone = pass.gone
          /\ pass'.restat = pass.restat
          /\ pass'.goal = pass.goal /\ pass'.hashes = [pass.hashes EXCEPT ![f] = NoHash]
      BY <2>1 DEF PassTypes, PassShape
    <2>4. PassShape(pass')
      BY <2>1, <2>3 DEF PassTypes, PassShape
    <2>5. work' \in RowsType /\ \A g \in LocalFiles : work'[g] = NoRow => work[g] = NoRow
      BY <1>3, RowMade, LocalAssumption DEF RowsType
    <2>6. Types'
      BY <2>1, <2>3, <2>4, <2>5 DEF diskVars, storeVars, histVars, PassTypes
    <2>7. OldRows' = OldRows
      BY <2>1, <2>3 DEF OldRows, storeVars
    <2>8. Phases'
      BY <2>1, <2>3, <2>5, <2>7 DEF Phases, Unplanned, Underway, Building, Compared
    <2> QED BY <2>6, <2>8
  <1> QED BY <1>2, <1>3

\* What the session holds is committed.
LEMMA CommitPhases ==
  ASSUME Types, Phases, CommitSegment \/ Written \/ CommitPass
  PROVE  Types' /\ Phases'
  <1> USE DEF Types, WorldTypes
  <1>1. pass.build \in LocalBuilds
    BY DEF CommitSegment, Written, CommitPass, Phases, Building, PassTypes
  <1>2. CASE CommitSegment
    <2>1. Commit /\ place = "write" /\ place' = place /\ pass.full
          /\ UNCHANGED <<diskVars, ctl, pass, work, code, faults, histVars>>
      BY <1>2 DEF CommitSegment
    <2>2. Types'
      BY <1>1, <2>1, Committed DEF diskVars, histVars, PassTypes, PassShape
    <2>3. Phases'
      BY <2>1 DEF Phases, Unplanned, Underway, Building, Compared
    <2> QED BY <2>2, <2>3
  <1>3. CASE Written
    <2>1. /\ IF pass.full THEN Commit ELSE UNCHANGED storeVars
          /\ place = "write" /\ place' = "finalize" /\ pass.todo = {}
          /\ UNCHANGED <<diskVars, ctl, pass, work, code, faults, histVars>>
      BY <1>3 DEF Written
    <2>2. /\ status' \in StatusType /\ madeFor' \in MadeType
          /\ storeRows' \in [LocalBuilds -> RowsType]
      BY <1>1, <2>1, Committed DEF storeVars
    <2>3. Types'
      BY <2>1, <2>2 DEF diskVars, histVars, Places, PassTypes, PassShape
    <2>4. ~pass.full => OldRows' = OldRows
      BY <2>1 DEF OldRows, storeVars
    <2>5. Phases'
      BY <2>1, <2>4 DEF Phases, Unplanned, Underway, Building, Compared
    <2> QED BY <2>3, <2>5
  <1>4. CASE CommitPass
    <2>1. /\ Commit /\ place = "commit" /\ place' = "publish" /\ shown' = pass.goal
          /\ UNCHANGED <<diskVars, ctl, pass, work, code, faults, forced>>
      BY <1>4 DEF CommitPass
    <2>2. /\ status' \in StatusType /\ madeFor' \in MadeType
          /\ storeRows' \in [LocalBuilds -> RowsType]
      BY <1>1, <2>1, Committed
    <2>3. Types'
      BY <2>1, <2>2 DEF diskVars, Places, PassTypes, PassShape
    <2>4. Phases'
      BY <2>1 DEF Phases, Unplanned, Underway, Building, Compared
    <2> QED BY <2>3, <2>4
  <1> QED BY <1>2, <1>3, <1>4

\* The switch, what follows it, and the clean-up of a failed pass.
LEMMA SwitchPhases ==
  ASSUME Types, Phases, SwitchBuild \/ MarkPublished \/ Fails \/ AbortBuild \/ MarkAborted
  PROVE  Types' /\ Phases'
  <1> USE DEF Types, WorldTypes
  <1>1. CASE SwitchBuild
    <2>1. /\ place = "publish" /\ pass.build \in LocalBuilds /\ pass.build # NoLocal
          /\ ctl' = [state |-> "ready", active |-> pass.build, pending |-> NoLocal,
                     version |-> code]
          /\ shown' = pass.goal /\ work' = EmptyRows
          /\ UNCHANGED <<diskVars, storeVars, code, faults>>
      BY <1>1 DEF SwitchBuild, Phases, Building, PassTypes
    <2>2. ctl' \in CtlType
      BY <2>1 DEF CtlType
    <2>3. forced' \in BOOLEAN
      BY <1>1 DEF SwitchBuild
    <2>4. shown' \in [LocalFiles -> Stamps]
      BY <2>1 DEF PassTypes, PassShape
    <2>5. CASE pass.full
      <3>1. place' = "mark" /\ pass' = pass
        BY <1>1, <2>5 DEF SwitchBuild
      <3>2. Types'
        BY <2>1, <2>2, <2>3, <2>4, <3>1, EmptyTypes
           DEF diskVars, storeVars, Places, PassTypes, PassShape
      <3>3. Phases'
        BY <2>1, <2>5, <3>1 DEF Phases, Unplanned, Underway, Building, Compared
      <3> QED BY <3>2, <3>3
    <2>6. CASE ~pass.full
      <3>1. place' = "idle" /\ pass' = NoPass
        BY <1>1, <2>6 DEF SwitchBuild
      <3> QED BY <2>1, <2>2, <2>3, <2>4, <3>1, EmptyTypes, EndPhases DEF storeVars
    <2> QED BY <2>5, <2>6
  <1>2. CASE MarkPublished
    <2>1. status' \in StatusType
      BY <1>2 DEF MarkPublished, StatusType
    <2>2. /\ place = "mark" /\ place' = "gc"
          /\ UNCHANGED <<diskVars, ctl, madeFor, storeRows, pass, work, code, faults, histVars>>
      BY <1>2 DEF MarkPublished
    <2>3. Types'
      BY <2>1, <2>2 DEF diskVars, histVars, Places, PassTypes, PassShape
    <2>4. Phases'
      BY <2>2 DEF Phases, Unplanned, Underway, Building, Compared
    <2> QED BY <2>3, <2>4
  <1>3. CASE Fails
    <2>1. /\ place \in {"write", "finalize", "commit", "publish", "mark", "gc"}
          /\ place' = "fail" /\ faults' \in 0 .. MaxFailures
          /\ UNCHANGED <<diskVars, ctl, storeVars, pass, work, code, histVars>>
      BY <1>3, LocalAssumption DEF Fails, OneFault
    <2>2. Types'
      BY <2>1 DEF diskVars, storeVars, histVars, Places, PassTypes, PassShape
    <2>3. Phases'
      BY <2>1 DEF Phases, Unplanned, Underway, Building, Compared
    <2> QED BY <2>2, <2>3
  <1>4. CASE AbortBuild
    <2>1. /\ place = "fail" /\ work' = EmptyRows /\ faults' \in 0 .. MaxFailures
          /\ place' = IF pass.full THEN "rollback" ELSE "idle"
          /\ pass' = IF pass.full THEN pass ELSE NoPass
          /\ UNCHANGED <<diskVars, storeVars, code, histVars>>
      BY <1>4, LocalAssumption DEF AbortBuild, OneFault
    <2>2. ctl' \in CtlType
      BY <1>4, AbortedKeeps DEF AbortBuild
    <2>3. CASE pass.full
      <3>1. Types'
        BY <2>1, <2>2, <2>3, EmptyTypes
           DEF diskVars, storeVars, histVars, Places, PassTypes, PassShape
      <3>2. Phases'
        BY <2>1, <2>3 DEF Phases, Unplanned, Underway, Building, Compared
      <3> QED BY <3>1, <3>2
    <2>4. CASE ~pass.full
      BY <2>1, <2>2, <2>4, EmptyTypes, EndPhases DEF storeVars, histVars
    <2> QED BY <2>3, <2>4
  <1>5. CASE MarkAborted
    <2>1. /\ place = "rollback" /\ place' = "discard" /\ faults' \in 0 .. MaxFailures
          /\ UNCHANGED <<diskVars, ctl, madeFor, storeRows, pass, work, code, histVars>>
      BY <1>5, LocalAssumption DEF MarkAborted, OneFault
    <2>2. status' \in StatusType
      BY <1>5 DEF MarkAborted, StatusType
    <2>3. Types'
      BY <2>1, <2>2 DEF diskVars, histVars, Places, PassTypes, PassShape
    <2>4. Phases'
      BY <2>1 DEF Phases, Unplanned, Underway, Building, Compared
    <2> QED BY <2>3, <2>4
  <1> QED BY <1>1, <1>2, <1>3, <1>4, <1>5

\* All actions keep the phases.
LEMMA NextPhases ==
  ASSUME Types, Phases, LocalNext
  PROVE  Types' /\ Phases'
  BY WorldPhases, EndsPhases, PlanPhases, ScanPhases, DiffPhases, BeginPhases, SessionPhases,
     WorkerPhases, CommitPhases, SwitchPhases
     DEF LocalNext, PassStep

\* And so do steps that change nothing.
LEMMA StillPhases ==
  ASSUME Types, Phases, UNCHANGED localVars
  PROVE  Types' /\ Phases'
  BY DEF localVars, diskVars, storeVars, histVars, Types, WorldTypes, PassTypes, PassShape,
         Phases, OldRows

(* The inductive invariant of a pass: what it has in memory fits the phase   *)
(* it is in and the build it works on (run_source_with).                     *)
THEOREM PassInvariant == LocalSpec => []PassInv
  <1>1. LocalInit => PassInv
    <2> SUFFICES ASSUME LocalInit PROVE Types /\ Phases
      BY TypesSplit DEF PassInv
    <2> USE LocalAssumption DEF LocalInit
    <2>1. WorldTypes
      <3>1. forced \in BOOLEAN
        OBVIOUS
      <3> QED BY <3>1 DEF WorldTypes, Stamps
    <2>2. ctl \in CtlType
      BY DEF CtlType
    <2>3. Types
      BY <2>1, <2>2, NoPassTypes, EmptyTypes
         DEF Types, StatusType, MadeType, Places, PassTypes, PassShape
    <2>4. Phases
      BY DEF Phases, Unplanned, Underway, Building, Compared
    <2> QED BY <2>3, <2>4
  <1>2. PassInv /\ [LocalNext]_localVars => PassInv'
    <2> SUFFICES ASSUME PassInv, [LocalNext]_localVars PROVE PassInv'
      OBVIOUS
    <2>1. Types /\ Phases
      BY TypesSplit DEF PassInv
    <2>2. Types' /\ Phases'
      BY <2>1, NextPhases, StillPhases
    <2>3. (Types => LocalTypeOK /\ PassShape(pass))'
      BY TypesSplit, PTL
    <2> QED BY <2>2, <2>3 DEF PassInv
  <1> QED BY <1>1, <1>2, PTL DEF LocalSpec

(* DeletesInScope: an incremental pass drops the rows only of files that it  *)
(* looked for with a complete scan (run_source_with, diff.rs).               *)
THEOREM DeletesOnlyInScope == LocalSpec => DeletesInScope
  <1>1. PassInv /\ [LocalNext]_localVars
          => [\A f \in LocalFiles :
                place \in {"warm", "commit"} /\ VisibleFiles[f] # NoRow /\ VisibleFiles'[f] = NoRow
                  => (f \in pass.scope /\ pass.complete)]_localVars
    <2> SUFFICES ASSUME PassInv, LocalNext, place \in {"warm", "commit"}, NEW f \in LocalFiles,
                        VisibleFiles[f] # NoRow, VisibleFiles'[f] = NoRow
                 PROVE  f \in pass.scope /\ pass.complete
      OBVIOUS
    <2>1. Types /\ Phases
      BY TypesSplit DEF PassInv
    <2>2. /\ ~pass.full /\ pass.build = ctl.active /\ pass.build \in LocalBuilds
          /\ OldRows = storeRows[pass.build] /\ OldRows \in RowsType
      BY <2>1 DEF Types, Phases, Underway, Building, OldRows, PassTypes
    <2>3. f \in pass.gone => f \in pass.scope /\ pass.complete
      BY <2>1 DEF Phases, Compared, Building
    <2>4. CASE Warm
      <3>1. VisibleFiles'[f] = Kept(OldRows)[f]
        BY <2>1, <2>2, <2>4 DEF Warm, VisibleFiles, Types
      <3>2. Kept(OldRows)[f] = NoRow => f \in pass.gone \/ OldRows[f] = NoRow
        BY <2>1, <2>2, <2>4, KeptTypes DEF Warm, Phases, Types
      <3> QED BY <2>2, <2>3, <3>1, <3>2 DEF VisibleFiles
    <2>5. CASE CommitPass
      <3>1. storeRows'[pass.build] = work /\ ctl' = ctl
        BY <2>1, <2>2, <2>5, Committed DEF CommitPass, Types, WorldTypes
      <3>2. VisibleFiles'[f] = work[f]
        BY <2>2, <3>1 DEF VisibleFiles
      <3> QED BY <2>1, <2>2, <2>3, <2>5, <3>2 DEF VisibleFiles, Phases, CommitPass
    <2>6. CASE ~Warm /\ ~CommitPass
      <3>1. storeRows' = storeRows /\ ctl' = ctl
        BY <2>6 DEF LocalNext, PassStep, Resume, DropBuild, AbandonClaim, RequireFull, PlanPass,
             ScanTree, Diff, BeginLocal, OpenSession, Hash, PutRow, CommitSegment, Written,
             Finalize, SwitchBuild, MarkPublished, CollectOld, AbortBuild, MarkAborted,
             DiscardPending, FailsEarly, SessionFails, Fails, PassDies, Upgrade, Rebuild,
             OpenPass, WriteFile, RemoveFile, storeVars
      <3> QED BY <3>1 DEF VisibleFiles
    <2> QED BY <2>4, <2>5, <2>6
  <1> QED BY <1>1, PassInvariant, PTL DEF LocalSpec, DeletesInScope

-----------------------------------------------------------------------------
(* Readers see the goal of the last pass that finished.                      *)

Rest == GoalInv /\ MadeInv /\ ActiveInv /\ VisibleWhole

\* Steps outside the build that leave both databases as they are.
LEMMA QuietRest ==
  ASSUME Types, Rest, UNCHANGED storeVars, ctl'.active = ctl.active,
         ctl'.version = ctl.version, shown' = shown,
         place' \in {"idle", "open", "abandon", "redo", "plan"}
  PROVE  Rest'
  <1>1. GoalInv'
    BY DEF GoalInv
  <1>2. MadeInv'
    BY DEF Rest, MadeInv, storeVars, Underway, Building
  <1>3. ActiveInv' /\ VisibleWhole'
    BY DEF Rest, ActiveInv, VisibleWhole, VisibleFiles, StampsOf, storeVars
  <1> QED BY <1>1, <1>2, <1>3 DEF Rest

\* Collection keeps the visible build, and leaves nothing half-collected.
LEMMA CollectRest ==
  ASSUME Types, Rest, NEW kept, CollectBuilds(kept),
         ctl.active \in kept \/ status[ctl.active] = "published",
         ctl' = ctl, shown' = shown, place' \in {"idle", "abandon"}
  PROVE  Rest'
  <1>1. \A b \in LocalBuilds :
           \/ status'[b] = status[b] /\ madeFor'[b] = madeFor[b] /\ storeRows'[b] = storeRows[b]
           \/ /\ b \notin kept /\ status[b] \in {"aborted", "superseded", "building"}
              /\ status'[b] = "none" /\ storeRows'[b] = EmptyRows
    BY Collected DEF Types
  <1>2. ctl.active # NoLocal => /\ status'[ctl.active] = status[ctl.active]
                                /\ madeFor'[ctl.active] = madeFor[ctl.active]
                                /\ storeRows'[ctl.active] = storeRows[ctl.active]
    BY <1>1 DEF Types, CtlType
  <1>3. GoalInv'
    BY DEF GoalInv
  <1>4. MadeInv'
    BY <1>1, EmptyTypes DEF Rest, MadeInv, Underway, Building
  <1>5. ActiveInv' /\ VisibleWhole'
    BY <1>2 DEF Rest, ActiveInv, VisibleWhole, VisibleFiles, StampsOf
  <1> QED BY <1>3, <1>4, <1>5 DEF Rest

\* The world, and a pass until it scans.
LEMMA OuterRest ==
  ASSUME Types, Phases, Rest,
         \/ \E f \in LocalFiles : WriteFile(f) \/ RemoveFile(f)
         \/ Upgrade \/ Rebuild \/ \E scope \in SUBSET LocalFiles \ {{}} : OpenPass(scope)
         \/ PassDies \/ FailsEarly \/ SessionFails \/ DropBuild \/ AbandonClaim \/ RequireFull
  PROVE  Rest'
  <1>1. CASE \E f \in LocalFiles : WriteFile(f) \/ RemoveFile(f)
    <2>1. UNCHANGED <<ctl, storeVars, place, pass, work, code, shown>>
      BY <1>1 DEF WriteFile, RemoveFile, histVars
    <2> QED BY <2>1 DEF Rest, GoalInv, MadeInv, ActiveInv, VisibleWhole, VisibleFiles,
              StampsOf, storeVars, OldRows, Kept
  <1>2. CASE Upgrade
    BY <1>2, QuietRest DEF Upgrade, histVars
  <1>3. CASE Rebuild
    BY <1>3, QuietRest DEF Rebuild, Types, CtlType
  <1>4. CASE \E scope \in SUBSET LocalFiles \ {{}} : OpenPass(scope)
    BY <1>4, QuietRest DEF OpenPass, histVars
  <1>5. CASE PassDies \/ FailsEarly
    BY <1>5, QuietRest DEF PassDies, FailsEarly, histVars
  <1>6. CASE SessionFails
    <2>1. ctl'.active = ctl.active /\ ctl'.version = ctl.version
      BY <1>6, AbortedKeeps DEF SessionFails, Types
    <2> QED BY <1>6, <2>1, QuietRest DEF SessionFails, histVars
  <1>7. CASE DropBuild
    BY <1>7, CollectRest DEF DropBuild, histVars
  <1>8. CASE AbandonClaim
    <2>1. ctl'.active = ctl.active /\ ctl'.version = ctl.version
      BY <1>8, AbortedKeeps DEF AbandonClaim, Types
    <2> QED BY <1>8, <2>1, QuietRest DEF AbandonClaim, histVars
  <1>9. CASE RequireFull
    <2>1. ctl'.active = ctl.active /\ ctl'.version = ctl.version
      BY <1>9 DEF RequireFull, Types, CtlType
    <2> QED BY <1>9, <2>1, QuietRest DEF RequireFull
  <1> QED BY <1>1, <1>2, <1>3, <1>4, <1>5, <1>6, <1>7, <1>8, <1>9

\* A resumed build is of the running program's version.
LEMMA PlannedRest ==
  ASSUME Types, Phases, Rest,
         Resume \/ PlanPass \/ \E missed \in SUBSET LocalFiles : ScanTree(missed)
  PROVE  Rest'
  <1> USE DEF Rest
  <1>1. CASE Resume
    <2>1. /\ CollectBuilds({ctl.active, ctl.pending}) /\ place' = "scan"
          /\ status[ctl.pending] = "building" /\ madeFor[ctl.pending] = code
          /\ ctl.pending \in LocalBuilds /\ UNCHANGED <<ctl, code, shown>>
      BY <1>1 DEF Resume, Resumable, Types, CtlType, histVars
    <2>2. pass'.build = ctl.pending
      BY <1>1 DEF Resume, Types, PassTypes, PassShape
    <2>3. \A b \in LocalBuilds :
             \/ /\ status'[b] = status[b] /\ madeFor'[b] = madeFor[b]
                /\ storeRows'[b] = storeRows[b]
             \/ /\ b \notin {ctl.active, ctl.pending} /\ status'[b] = "none"
                /\ storeRows'[b] = EmptyRows
      BY <2>1, Collected DEF Types
    <2>4. ctl.active # NoLocal => /\ status'[ctl.active] = status[ctl.active]
                                  /\ madeFor'[ctl.active] = madeFor[ctl.active]
                                  /\ storeRows'[ctl.active] = storeRows[ctl.active]
      BY <2>3 DEF Types, CtlType
    <2>5. MadeInv'
      BY <2>1, <2>2, <2>3, EmptyTypes DEF MadeInv, Underway, Building
    <2>6. GoalInv' /\ ActiveInv' /\ VisibleWhole'
      BY <2>1, <2>4 DEF GoalInv, ActiveInv, VisibleWhole, VisibleFiles, StampsOf
    <2> QED BY <2>5, <2>6
  <1>2. CASE PlanPass
    <2>1. /\ place' = "scan" /\ place \in Unplanned
          /\ UNCHANGED <<ctl, storeVars, code, shown>>
      BY <1>2 DEF PlanPass, Unplanned, histVars
    <2>2. ~pass'.resume
      BY <1>2, <2>1 DEF PlanPass, Phases, Types, PassTypes, PassShape
    <2> QED BY <2>1, <2>2 DEF GoalInv, MadeInv, ActiveInv, VisibleWhole, VisibleFiles,
              StampsOf, storeVars, Underway, Building
  <1>3. CASE \E missed \in SUBSET LocalFiles : ScanTree(missed)
    <2>1. /\ place = "scan" /\ place' = "diff"
          /\ UNCHANGED <<ctl, storeVars, code, shown>>
      BY <1>3 DEF ScanTree, histVars
    <2>2. pass'.resume = pass.resume /\ pass'.build = pass.build
      BY <1>3 DEF ScanTree, Types, PassTypes, PassShape
    <2> QED BY <2>1, <2>2 DEF GoalInv, MadeInv, ActiveInv, VisibleWhole, VisibleFiles,
              StampsOf, storeVars, Underway, Building
  <1> QED BY <1>1, <1>2, <1>3

\* The goal is what refreshing, dropping and writing will leave.
LEMMA DiffRest ==
  ASSUME Types, Phases, Rest, NEW due \in SUBSET LocalFiles, Diff(due)
  PROVE  Rest'
  <1> USE DEF Rest
  <1>1. /\ pass'.todo = Todo(due) /\ pass'.gone = GoneNow /\ pass'.restat = Same(due)
        /\ pass'.goal = Goal /\ pass'.build = pass.build /\ pass'.full = pass.full
        /\ pass'.resume = pass.resume /\ pass'.seen = pass.seen
        /\ place = "diff" /\ place' \in {"warm", "begin"}
        /\ UNCHANGED <<ctl, storeRows, status, madeFor, code, shown>>
    BY DiffFacts DEF storeVars, histVars
  <1>2. ASSUME NEW f \in Todo(due) PROVE Goal[f] = pass.seen[f] /\ f \in LocalFiles
    BY DEF Todo, Goal, Hashed, Known
  <1>3. ASSUME NEW f \in LocalFiles \ Todo(due)
        PROVE  Goal[f] = StampsOf(Kept(OldRows))'[f]
    <2>1. OldRow(f) = OldRows'[f]
      BY <1>1, OldRowIs
    <2>2. \A g \in pass'.restat : pass'.seen[g] # 0 /\ OldRows'[g] # NoRow
      BY <1>1, DiffPhases DEF Phases
    <2>3. Kept(OldRows)'[f] = IF f \in GoneNow THEN NoRow
                              ELSE IF f \in Same(due) THEN [OldRow(f) EXCEPT !.stamp = pass.seen[f]]
                              ELSE OldRow(f)
      BY <1>1, <2>1 DEF Kept
    <2>4. StampsOf(Kept(OldRows))'[f] = IF Kept(OldRows)'[f] = NoRow THEN 0
                                        ELSE Kept(OldRows)'[f].stamp
      BY DEF StampsOf
    <2>5. CASE pass.seen[f] # 0
      <3>1. Goal[f] = pass.seen[f] /\ f \notin GoneNow
        BY <2>5 DEF Goal, GoneNow
      <3>2. Baseline(f) # NoRow /\ Baseline(f) = OldRow(f)
        BY <1>3, <2>5 DEF Todo, Baseline
      <3>3. OldRow(f) \in Rows
        <4>1. pass.build \in LocalBuilds \/ (pass.full /\ ~pass.resume)
          BY <1>1 DEF Phases, Underway, Types, PassTypes
        <4> QED BY <3>2, <4>1 DEF OldRow, Types, RowsType
      <3>4. CASE f \in Same(due)
        <4>1. [OldRow(f) EXCEPT !.stamp = pass.seen[f]] \in Rows
          BY <2>5, <3>3 DEF Rows, Types, PassTypes, Stamps
        <4>2. [OldRow(f) EXCEPT !.stamp = pass.seen[f]].stamp = pass.seen[f]
          BY <3>3 DEF Rows
        <4> QED BY <2>3, <2>4, <3>1, <3>4, <4>1, <4>2, LocalAssumption
      <3>5. CASE f \notin Same(due)
        <4>1. f \notin Hashed(due)
          BY <1>3, <3>5 DEF Todo
        <4>2. OldRow(f).stamp = pass.seen[f]
          BY <2>5, <3>2, <4>1 DEF Hashed, Known, SameStat
        <4> QED BY <2>3, <2>4, <3>1, <3>2, <3>5, <4>2
      <3> QED BY <3>4, <3>5
    <2>6. CASE pass.seen[f] = 0
      <3>1. f \notin Same(due)
        BY <2>6 DEF Same, Hashed, Known
      <3>2. Goal[f] = IF f \in GoneNow \/ OldRow(f) = NoRow THEN 0 ELSE OldRow(f).stamp
        BY <2>6 DEF Goal
      <3> QED BY <2>3, <2>4, <3>1, <3>2
    <2> QED BY <2>5, <2>6
  <1>4. GoalInv'
    BY <1>1, <1>2, <1>3 DEF GoalInv
  <1>5. MadeInv' /\ ActiveInv' /\ VisibleWhole'
    BY <1>1 DEF MadeInv, ActiveInv, VisibleWhole, VisibleFiles, StampsOf, Underway, Building
  <1> QED BY <1>4, <1>5

\* Refreshing stats does not change versions.
LEMMA KeptVersions ==
  ASSUME NEW old \in RowsType, PassTypes(pass), NEW v,
         \A f \in pass.restat : pass.seen[f] # 0 /\ old[f] # NoRow,
         \A f \in LocalFiles : old[f] # NoRow => old[f].version = v
  PROVE  \A f \in LocalFiles : Kept(old)[f] # NoRow => Kept(old)[f].version = v
  <1> SUFFICES ASSUME NEW f \in LocalFiles, Kept(old)[f] # NoRow
               PROVE  Kept(old)[f].version = v
    OBVIOUS
  <1>1. f \notin pass.gone
    BY KeptTypes
  <1>2. CASE f \in pass.restat
    <2>1. Kept(old)[f] = [old[f] EXCEPT !.stamp = pass.seen[f]] /\ old[f] # NoRow
      BY <1>1, <1>2, KeptTypes
    <2>2. old[f] \in Rows /\ old[f].version = v
      BY <2>1 DEF RowsType
    <2> QED BY <2>1, <2>2 DEF Rows
  <1>3. CASE f \notin pass.restat
    BY <1>1, <1>3, KeptTypes
  <1> QED BY <1>2, <1>3

\* Nothing to do: the stats readers see are those the scan saw.
LEMMA WarmRest ==
  ASSUME Types, Phases, Rest, Warm
  PROVE  Rest'
  <1> USE DEF Rest
  <1>1. /\ place = "warm" /\ place' = "idle" /\ shown' = pass.goal
        /\ storeRows' = [storeRows EXCEPT ![pass.build] = Kept(@)]
        /\ UNCHANGED <<ctl, status, madeFor>>
    BY DEF Warm
  <1>2. /\ pass.build = ctl.active /\ pass.build \in LocalBuilds /\ pass.todo = {}
        /\ ~pass.full
    BY <1>1 DEF Phases, Underway, Types, PassTypes
  <1>3. OldRows = storeRows[pass.build] /\ OldRows \in RowsType
    BY <1>2 DEF OldRows, Types
  <1>4. storeRows'[pass.build] = Kept(OldRows)
        /\ \A b \in LocalBuilds : b # pass.build => storeRows'[b] = storeRows[b]
    BY <1>1, <1>2, <1>3 DEF Types
  <1>5. \A f \in pass.restat : pass.seen[f] # 0 /\ OldRows[f] # NoRow
    BY <1>1 DEF Phases
  <1>6. \A f \in LocalFiles :
           Kept(OldRows)[f] # NoRow => Kept(OldRows)[f].version = madeFor[pass.build]
    <2>1. \A f \in LocalFiles : OldRows[f] # NoRow => OldRows[f].version = madeFor[pass.build]
      BY <1>2, <1>3 DEF MadeInv
    <2>2. PassTypes(pass)
      BY DEF Types
    <2> QED BY <1>3, <1>5, <2>1, <2>2, KeptVersions
  <1>7. StampsOf(Kept(OldRows)) = pass.goal
    <2>1. \A f \in LocalFiles : pass.goal[f] = StampsOf(Kept(OldRows))[f]
      BY <1>1, <1>2 DEF GoalInv
    <2> QED BY <2>1 DEF StampsOf, Types, PassTypes, PassShape
  <1>8. status[pass.build] # "none"
    BY <1>2 DEF ActiveInv, LocalBuilds, NoLocal
  <1>9. VisibleWhole'
    <2>1. VisibleFiles' = Kept(OldRows)
      BY <1>1, <1>2, <1>4 DEF VisibleFiles
    <2>2. StampsOf(VisibleFiles)' = StampsOf(Kept(OldRows))
      BY <2>1 DEF StampsOf
    <2> QED BY <1>1, <1>7, <2>2 DEF VisibleWhole
  <1>10. MadeInv'
    <2> SUFFICES ASSUME NEW b \in LocalBuilds
                 PROVE  /\ status'[b] = "none" => storeRows'[b] = EmptyRows
                        /\ \A f \in LocalFiles : storeRows'[b][f] # NoRow
                              => storeRows'[b][f].version = madeFor'[b]
      BY <1>1, EmptyTypes DEF MadeInv, Underway, Building
    <2>1. CASE b = pass.build
      BY <1>1, <1>4, <1>6, <1>8, <2>1
    <2>2. CASE b # pass.build
      BY <1>1, <1>4, <2>2 DEF MadeInv
    <2> QED BY <2>1, <2>2
  <1>11. GoalInv' /\ ActiveInv'
    BY <1>1 DEF GoalInv, ActiveInv
  <1> QED BY <1>9, <1>10, <1>11

\* A fresh build has no rows; a resumed one and the visible one have those the
\* diff saw.
LEMMA BeginRest ==
  ASSUME Types, Phases, Rest, BeginLocal
  PROVE  Rest'
  <1> USE DEF Rest
  <1>1. /\ pass'.full = pass.full /\ pass'.resume = pass.resume
        /\ pass'.seen = pass.seen /\ pass'.todo = pass.todo /\ pass'.gone = pass.gone
        /\ pass'.restat = pass.restat /\ pass'.goal = pass.goal
        /\ pass'.build \in LocalBuilds
        /\ \/ pass.build # NoLocal /\ pass'.build = pass.build
           \/ pass.build = NoLocal /\ pass.full /\ ~pass.resume /\ pass'.build \in FreshBuilds
        /\ ctl'.active = ctl.active /\ ctl'.version = ctl.version
        /\ place = "begin" /\ place' = "session"
        /\ UNCHANGED <<storeRows, status, madeFor, work, code, shown>>
    BY BeginFacts DEF storeVars, histVars
  <1>2. OldRows' = OldRows
    <2>1. CASE pass.build = NoLocal
      <3>1. status[pass'.build] = "none"
        BY <1>1, <2>1 DEF FreshBuilds
      <3>2. storeRows[pass'.build] = EmptyRows
        BY <1>1, <3>1 DEF MadeInv
      <3> QED BY <1>1, <2>1, <3>2 DEF OldRows, Building, EmptyRows
    <2>2. CASE pass.build # NoLocal
      <3>1. ~(pass.full /\ ~pass.resume)
        BY <1>1, <2>2 DEF Phases, Underway, Building
      <3> QED BY <1>1, <2>2, <3>1 DEF OldRows, Building
    <2> QED BY <2>1, <2>2
  <1>3. Kept(OldRows)' = Kept(OldRows)
    BY <1>1, <1>2 DEF Kept
  <1>4. StampsOf(Kept(OldRows))' = StampsOf(Kept(OldRows))
    BY <1>3 DEF StampsOf
  <1>5. GoalInv'
    BY <1>1, <1>4 DEF GoalInv
  <1>6. status[pass'.build] # "none" => madeFor[pass'.build] = code
    <2>1. CASE pass.build = NoLocal
      BY <1>1, <2>1 DEF FreshBuilds
    <2>2. CASE pass.build # NoLocal /\ pass.resume
      BY <1>1, <2>2 DEF MadeInv, Underway
    <2>3. CASE pass.build # NoLocal /\ ~pass.resume
      BY <1>1, <2>3 DEF ActiveInv, Phases, Underway, Building
    <2> QED BY <2>1, <2>2, <2>3
  <1>7. pass.resume => /\ pass'.build = pass.build /\ status[pass.build] # "none"
                       /\ madeFor[pass.build] = code
    BY <1>1 DEF MadeInv, Underway
  <1>8. MadeInv'
    BY <1>1, <1>6, <1>7 DEF MadeInv, Underway, Building
  <1>9. ActiveInv' /\ VisibleWhole'
    BY <1>1 DEF ActiveInv, VisibleWhole, VisibleFiles, StampsOf
  <1> QED BY <1>5, <1>8, <1>9

\* The session starts with what is kept, and rows are written to the goal.
LEMMA SessionRest ==
  ASSUME Types, Phases, Rest,
         OpenSession \/ \E f \in LocalFiles : Hash(f) \/ PutRow(f)
  PROVE  Rest'
  <1> USE DEF Rest
  <1>1. CASE OpenSession
    <2>1. /\ place = "session" /\ place' = "write" /\ work' = Kept(storeRows[pass.build])
          /\ UNCHANGED <<ctl, storeRows, status, madeFor, pass, code, shown>>
      BY <1>1 DEF OpenSession, storeVars, histVars
    <2>2. OldRows = storeRows[pass.build] /\ pass.build \in LocalBuilds /\ OldRows \in RowsType
      BY <2>1 DEF OldRows, Building, Phases, Types, PassTypes
    <2>3. \A f \in pass.restat : pass.seen[f] # 0 /\ OldRows[f] # NoRow
      BY <2>1 DEF Phases
    <2>4. work' = Kept(OldRows)
      BY <2>1, <2>2
    <2>5. StampsOf(work)' = StampsOf(Kept(OldRows))
      BY <2>4 DEF StampsOf
    <2>6. GoalInv'
      BY <2>1, <2>5 DEF GoalInv
    <2>7. \A f \in LocalFiles : OldRows[f] # NoRow => OldRows[f].version = code
      BY <2>1, <2>2, EmptyTypes DEF MadeInv, Building
    <2>8. \A f \in LocalFiles : work'[f] # NoRow => work'[f].version = code
      BY <2>2, <2>3, <2>4, <2>7, KeptVersions DEF Types
    <2>9. MadeInv'
      BY <2>1, <2>8 DEF MadeInv, Underway, Building
    <2>10. ActiveInv' /\ VisibleWhole'
      BY <2>1 DEF ActiveInv, VisibleWhole, VisibleFiles, StampsOf
    <2> QED BY <2>6, <2>9, <2>10
  <1>2. ASSUME NEW f \in LocalFiles, Hash(f) PROVE Rest'
    <2>1. /\ place = "write" /\ place' = place
          /\ UNCHANGED <<ctl, storeRows, status, madeFor, work, code, shown>>
      BY <1>2 DEF Hash, storeVars, histVars
    <2>2. /\ pass'.build = pass.build /\ pass'.full = pass.full /\ pass'.resume = pass.resume
          /\ pass'.seen = pass.seen /\ pass'.todo = pass.todo /\ pass'.goal = pass.goal
      BY <1>2 DEF Hash, Types, PassTypes, PassShape
    <2> QED BY <2>1, <2>2 DEF GoalInv, MadeInv, ActiveInv, VisibleWhole, VisibleFiles,
              StampsOf, Underway, Building
  <1>3. ASSUME NEW f \in LocalFiles, PutRow(f) PROVE Rest'
    <2>1. /\ place = "write" /\ place' = place /\ f \in pass.todo
          /\ UNCHANGED <<ctl, storeRows, status, madeFor, code, shown>>
      BY <1>3 DEF PutRow, storeVars, histVars
    <2>2. RowNow(f).stamp = pass.seen[f] /\ RowNow(f).version = code
      BY DEF RowNow
    <2>3. /\ pass'.build = pass.build /\ pass'.full = pass.full /\ pass'.resume = pass.resume
          /\ pass'.seen = pass.seen /\ pass'.todo = pass.todo \ {f} /\ pass'.goal = pass.goal
      BY <1>3 DEF PutRow, Types, PassTypes, PassShape
    <2>4. /\ work'[f] = RowNow(f) /\ RowNow(f) # NoRow
          /\ \A g \in LocalFiles : g # f => work'[g] = work[g]
      BY <1>3, RowMade, LocalAssumption DEF Types, RowsType
    <2>6. GoalInv'
      BY <2>1, <2>2, <2>3, <2>4 DEF GoalInv, StampsOf
    <2>7. MadeInv'
      BY <2>1, <2>2, <2>3, <2>4 DEF MadeInv, Underway, Building
    <2>8. ActiveInv' /\ VisibleWhole'
      BY <2>1, <2>3 DEF ActiveInv, VisibleWhole, VisibleFiles, StampsOf
    <2> QED BY <2>6, <2>7, <2>8
  <1> QED BY <1>1, <1>2, <1>3

\* A committed build has the session's rows, all of one version.
LEMMA CommitMade ==
  ASSUME Types, Phases, Rest, Commit, place \in {"write", "commit"},
         UNCHANGED <<pass, code, work>>, place' \in {"write", "finalize", "publish"}
  PROVE  /\ MadeInv' /\ pass.build \in LocalBuilds
         /\ storeRows'[pass.build] = work /\ status'[pass.build] # "none"
         /\ madeFor'[pass.build] = code
         /\ \A b \in LocalBuilds : b # pass.build =>
               /\ storeRows'[b] = storeRows[b] /\ status'[b] = status[b]
               /\ madeFor'[b] = madeFor[b]
  <1> USE DEF Rest
  <1>1. pass.build \in LocalBuilds
    BY DEF Phases, Building, Types, PassTypes
  <1>2. /\ storeRows'[pass.build] = work
        /\ \A b \in LocalBuilds : b # pass.build =>
               /\ storeRows'[b] = storeRows[b] /\ status'[b] = status[b]
               /\ madeFor'[b] = madeFor[b]
        /\ status[pass.build] # "none" => status' = status /\ madeFor' = madeFor
        /\ status[pass.build] = "none" => /\ status'[pass.build] = "building"
                                           /\ madeFor'[pass.build] = code
    BY <1>1, Committed DEF Types, WorldTypes
  <1>3. status[pass.build] # "none" => madeFor[pass.build] = code
    BY DEF MadeInv, Building
  <1>4. status'[pass.build] # "none" /\ madeFor'[pass.build] = code
    BY <1>2, <1>3
  <1>5. \A f \in LocalFiles : work[f] # NoRow => work[f].version = code
    BY DEF MadeInv
  <1>6. MadeInv'
    <2>1. ASSUME NEW b \in LocalBuilds
          PROVE  /\ status'[b] = "none" => storeRows'[b] = EmptyRows
                 /\ \A f \in LocalFiles : storeRows'[b][f] # NoRow
                       => storeRows'[b][f].version = madeFor'[b]
      <3>1. CASE b = pass.build
        BY <1>2, <1>4, <1>5, <3>1
      <3>2. CASE b # pass.build
        BY <1>2, <3>2 DEF MadeInv
      <3> QED BY <3>1, <3>2
    <2>2. EmptyRows' = EmptyRows
      BY DEF EmptyRows
    <2> QED BY <1>4, <1>5, <2>1, <2>2 DEF MadeInv, Underway, Building
  <1> QED BY <1>1, <1>2, <1>4, <1>6

\* Committed rows are those the goal is about, all of one version.
LEMMA CommitRest ==
  ASSUME Types, Phases, Rest, CommitSegment \/ Written \/ Finalize \/ CommitPass
  PROVE  Rest'
  <1> USE DEF Rest
  <1>1. CASE CommitSegment
    <2>1. /\ Commit /\ place = "write" /\ place' = place /\ pass.full
          /\ UNCHANGED <<ctl, pass, work, code, shown>>
      BY <1>1 DEF CommitSegment, histVars
    <2>2. pass.build # ctl.active /\ pass.build \in LocalBuilds
      BY <2>1 DEF Phases, Underway, Building, Types, PassTypes
    <2>3. MadeInv' /\ \A b \in LocalBuilds : b # pass.build =>
               /\ storeRows'[b] = storeRows[b] /\ status'[b] = status[b]
               /\ madeFor'[b] = madeFor[b]
      BY <2>1, CommitMade
    <2>4. GoalInv'
      BY <2>1 DEF GoalInv, StampsOf
    <2>5. ActiveInv' /\ VisibleWhole'
      BY <2>1, <2>2, <2>3 DEF ActiveInv, VisibleWhole, VisibleFiles, StampsOf, Types, CtlType
    <2> QED BY <2>3, <2>4, <2>5
  <1>2. CASE Written
    <2>1. /\ IF pass.full THEN Commit ELSE UNCHANGED storeVars
          /\ place = "write" /\ place' = "finalize" /\ pass.todo = {}
          /\ UNCHANGED <<ctl, pass, work, code, shown>>
      BY <1>2 DEF Written, histVars
    <2>2. pass.goal = StampsOf(work)
      <3>1. \A f \in LocalFiles : pass.goal[f] = StampsOf(work)[f]
        BY <2>1 DEF GoalInv
      <3> QED BY <3>1 DEF StampsOf, Types, PassTypes, PassShape
    <2>3. CASE pass.full
      <3>1. pass.build # ctl.active /\ pass.build \in LocalBuilds
        BY <2>1, <2>3 DEF Phases, Underway, Building, Types, PassTypes
      <3>2. /\ MadeInv' /\ storeRows'[pass.build] = work
            /\ \A b \in LocalBuilds : b # pass.build =>
               /\ storeRows'[b] = storeRows[b] /\ status'[b] = status[b]
               /\ madeFor'[b] = madeFor[b]
        BY <2>1, <2>3, CommitMade
      <3>3. StampsOf(storeRows[pass.build])' = pass.goal
        BY <2>1, <2>2, <3>2 DEF StampsOf
      <3>4. GoalInv'
        BY <2>1, <2>3, <3>3 DEF GoalInv
      <3>5. ActiveInv' /\ VisibleWhole'
        BY <2>1, <3>1, <3>2 DEF ActiveInv, VisibleWhole, VisibleFiles, StampsOf, Types, CtlType
      <3> QED BY <3>2, <3>4, <3>5
    <2>4. CASE ~pass.full
      <3>1. UNCHANGED <<storeRows, status, madeFor>>
        BY <2>1, <2>4 DEF storeVars
      <3>2. StampsOf(work)' = pass.goal
        BY <2>1, <2>2 DEF StampsOf
      <3>3. GoalInv'
        BY <2>1, <2>4, <3>2 DEF GoalInv
      <3>4. MadeInv'
        BY <2>1, <2>4, <3>1 DEF MadeInv, Underway, Building, Phases
      <3>5. ActiveInv' /\ VisibleWhole'
        BY <2>1, <3>1 DEF ActiveInv, VisibleWhole, VisibleFiles, StampsOf
      <3> QED BY <3>3, <3>4, <3>5
    <2> QED BY <2>3, <2>4
  <1>3. CASE Finalize
    <2>1. /\ place = "finalize" /\ place' = IF pass.full THEN "publish" ELSE "commit"
          /\ UNCHANGED <<ctl, storeRows, status, madeFor, pass, work, code, shown>>
      BY <1>3 DEF Finalize, storeVars, histVars
    <2> QED BY <2>1 DEF GoalInv, MadeInv, ActiveInv, VisibleWhole, VisibleFiles, StampsOf,
              Underway, Building
  <1>4. CASE CommitPass
    <2>1. /\ Commit /\ place = "commit" /\ place' = "publish" /\ shown' = pass.goal
          /\ UNCHANGED <<ctl, pass, work, code>>
      BY <1>4 DEF CommitPass
    <2>2. /\ ~pass.full /\ pass.build = ctl.active /\ ctl.version = code
      BY <2>1 DEF Phases, Underway, Building
    <2>3. /\ MadeInv' /\ storeRows'[pass.build] = work /\ status'[pass.build] # "none"
          /\ madeFor'[pass.build] = code
      BY <2>1, CommitMade
    <2>4. StampsOf(storeRows[pass.build])' = pass.goal
      BY <2>1, <2>2, <2>3 DEF GoalInv, StampsOf
    <2>5. GoalInv'
      BY <2>1, <2>2, <2>4 DEF GoalInv
    <2>6. ActiveInv'
      BY <2>1, <2>2, <2>3 DEF ActiveInv
    <2>7. VisibleWhole'
      BY <2>1, <2>2, <2>4 DEF VisibleWhole, VisibleFiles
    <2> QED BY <2>3, <2>5, <2>6, <2>7
  <1> QED BY <1>1, <1>2, <1>3, <1>4

\* The switch shows the goal; marking and collecting keep what is shown, and
\* so does the clean-up of a pass that failed earlier.
LEMMA SwitchRest ==
  ASSUME "mark" \notin Failing, Types, Phases, Rest,
         \/ SwitchBuild \/ MarkPublished \/ CollectOld
         \/ Fails \/ AbortBuild \/ MarkAborted \/ DiscardPending
  PROVE  Rest'
  <1> USE DEF Rest
  <1>1. CASE SwitchBuild
    <2>1. /\ place = "publish" /\ pass.build \in LocalBuilds
          /\ ctl' = [state |-> "ready", active |-> pass.build, pending |-> NoLocal,
                     version |-> code]
          /\ shown' = pass.goal /\ place' \in {"mark", "idle"}
          /\ UNCHANGED <<storeRows, status, madeFor, code>>
      BY <1>1 DEF SwitchBuild, Phases, Building, Types, PassTypes, storeVars
    <2>2. pass.goal = StampsOf(storeRows[pass.build])
      BY <2>1 DEF GoalInv
    <2>3. status[pass.build] # "none"
      BY <2>1 DEF MadeInv, ActiveInv, Phases, Underway, Building
    <2>4. madeFor[pass.build] = code
      BY <2>1, <2>3 DEF MadeInv, Building
    <2>5. GoalInv' /\ MadeInv'
      BY <2>1 DEF GoalInv, MadeInv, Underway, Building
    <2>6. ActiveInv' /\ VisibleWhole'
      BY <2>1, <2>2, <2>3, <2>4 DEF ActiveInv, VisibleWhole, VisibleFiles, StampsOf
    <2> QED BY <2>5, <2>6
  <1>2. CASE MarkPublished
    <2>1. /\ place = "mark" /\ place' = "gc"
          /\ UNCHANGED <<ctl, madeFor, storeRows, pass, code, shown>>
      BY <1>2 DEF MarkPublished, histVars
    <2>2. \A b \in LocalBuilds : /\ status'[b] = "none" => status[b] = "none"
                                 /\ b = pass.build => status'[b] = "published"
      BY <1>2 DEF MarkPublished
    <2>3. pass.build = ctl.active /\ pass.build \in LocalBuilds
      BY <2>1 DEF Phases, Types, PassTypes
    <2>4. GoalInv' /\ MadeInv'
      BY <2>1, <2>2 DEF GoalInv, MadeInv, Underway, Building
    <2>5. ActiveInv' /\ VisibleWhole'
      BY <2>1, <2>2, <2>3 DEF ActiveInv, VisibleWhole, VisibleFiles, StampsOf
    <2> QED BY <2>4, <2>5
  <1>3. CASE CollectOld
    <2>1. pass.build = ctl.active
      BY <1>3 DEF CollectOld, Phases
    <2> QED BY <1>3, <2>1, CollectRest DEF CollectOld, histVars
  <1>4. CASE Fails
    <2>1. /\ place \in {"write", "finalize", "commit", "publish", "gc"} /\ place' = "fail"
          /\ UNCHANGED <<ctl, storeRows, status, madeFor, pass, code, shown>>
      BY <1>4 DEF Fails, storeVars, histVars
    <2>2. pass.full => \/ ctl.active = pass.before /\ pass.build # ctl.active
                       \/ ctl.active = pass.build /\ status[pass.build] = "published"
      BY <2>1 DEF Phases, Underway, Building, ActiveInv
    <2>3. GoalInv' /\ MadeInv'
      BY <2>1 DEF GoalInv, MadeInv, Underway, Building
    <2>4. ActiveInv' /\ VisibleWhole'
      BY <2>1, <2>2 DEF ActiveInv, VisibleWhole, VisibleFiles, StampsOf
    <2> QED BY <2>3, <2>4
  <1>5. CASE AbortBuild
    <2>1. ctl'.active = ctl.active /\ ctl'.version = ctl.version
      BY <1>5, AbortedKeeps DEF AbortBuild, Types
    <2>2. CASE ~pass.full
      BY <1>5, <2>1, <2>2, QuietRest DEF AbortBuild, histVars
    <2>3. CASE pass.full
      <3>1. /\ place = "fail" /\ place' = "rollback"
            /\ UNCHANGED <<storeRows, status, madeFor, pass, code, shown>>
        BY <1>5, <2>3 DEF AbortBuild, storeVars, histVars
      <3>2. GoalInv' /\ MadeInv'
        BY <3>1 DEF GoalInv, MadeInv, Underway, Building
      <3>3. ActiveInv' /\ VisibleWhole'
        BY <2>1, <3>1 DEF ActiveInv, VisibleWhole, VisibleFiles, StampsOf
      <3> QED BY <3>2, <3>3
    <2> QED BY <2>2, <2>3
  <1>6. CASE MarkAborted
    <2>1. /\ place = "rollback" /\ place' = "discard"
          /\ UNCHANGED <<ctl, madeFor, storeRows, pass, code, shown>>
      BY <1>6 DEF MarkAborted, histVars
    <2>2. \A b \in LocalBuilds : /\ status'[b] = "none" <=> status[b] = "none"
                                 /\ status[b] = "published" => status'[b] = status[b]
      BY <1>6 DEF MarkAborted, Types, StatusType
    <2>3. pass.build \in LocalBuilds /\ pass.full
      BY <2>1 DEF Phases, Types, PassTypes
    <2>4. GoalInv' /\ MadeInv'
      BY <2>1, <2>2 DEF GoalInv, MadeInv, Underway, Building
    <2>5. ActiveInv' /\ VisibleWhole'
      BY <2>1, <2>2, <2>3
         DEF ActiveInv, VisibleWhole, VisibleFiles, StampsOf, Types, CtlType
    <2> QED BY <2>4, <2>5
  <1>7. CASE DiscardPending
    <2>1. /\ place = "discard" /\ place' = "idle"
          /\ UNCHANGED <<ctl, shown>>
      BY <1>7 DEF DiscardPending, histVars
    <2>2. ctl.active \in {pass.before} \/ status[ctl.active] = "published"
      BY <2>1 DEF Phases, ActiveInv
    <2>3. CASE CollectBuilds({pass.before})
      BY <2>1, <2>2, <2>3, CollectRest
    <2>4. CASE UNCHANGED storeVars
      BY <2>1, <2>4, QuietRest
    <2> QED BY <1>7, <2>3, <2>4 DEF DiscardPending
  <1> QED BY <1>1, <1>2, <1>3, <1>4, <1>5, <1>6, <1>7

(* The inductive invariant behind what readers see: goal, session and builds *)
(* agree in each phase, a build's rows are of the version recorded with it,  *)
(* and the visible build is never one that collection may take.  It needs    *)
(* that marking a published build does not fail (local_publish_error).       *)
THEOREM LocalInvariant ==
  ASSUME "mark" \notin Failing
  PROVE  LocalSpec => [](PassInv /\ Rest)
  <1>1. LocalInit => Rest
    <2> SUFFICES ASSUME LocalInit PROVE Rest
      OBVIOUS
    <2>1. GoalInv /\ ActiveInv /\ VisibleWhole
      BY DEF LocalInit, GoalInv, ActiveInv, VisibleWhole
    <2>2. MadeInv
      BY EmptyTypes DEF LocalInit, MadeInv, Underway, Building
    <2> QED BY <2>1, <2>2 DEF Rest
  <1>2. PassInv /\ Rest /\ [LocalNext]_localVars => Rest'
    <2> SUFFICES ASSUME PassInv, Rest, [LocalNext]_localVars PROVE Rest'
      OBVIOUS
    <2>1. Types /\ Phases
      BY TypesSplit DEF PassInv
    <2>2. CASE LocalNext
      BY <2>1, <2>2, OuterRest, PlannedRest, DiffRest, WarmRest, BeginRest, SessionRest,
         CommitRest, SwitchRest DEF LocalNext, PassStep
    <2>3. CASE UNCHANGED localVars
      BY <2>3 DEF localVars, diskVars, storeVars, histVars, Rest, GoalInv, MadeInv, ActiveInv,
           VisibleWhole, VisibleFiles, StampsOf, OldRows, Kept
    <2> QED BY <2>2, <2>3
  <1> QED BY <1>1, <1>2, PassInvariant, PTL DEF LocalSpec

(* ReadersSeeWhole: whatever crashes, failures, resumptions and collections  *)
(* come in between, readers see every file as the last finished pass wanted  *)
(* it, and all by one version, if marking a published build does not fail.   *)
THEOREM ReadersSeeWholeBuilds ==
  ASSUME "mark" \notin Failing
  PROVE  LocalSpec => []ReadersSeeWhole
  <1>1. PassInv /\ Rest => ReadersSeeWhole
    <2> SUFFICES ASSUME PassInv, Rest PROVE ReadersSeeWhole
      OBVIOUS
    <2>1. OneVersion
      <3> SUFFICES ASSUME ctl.active # NoLocal, NEW f \in LocalFiles, VisibleFiles[f] # NoRow
                   PROVE  VisibleFiles[f].version = ctl.version
        BY DEF OneVersion
      <3>1. ctl.active \in LocalBuilds
        BY DEF PassInv, LocalTypeOK
      <3> QED BY <3>1 DEF Rest, MadeInv, ActiveInv, VisibleFiles
    <2> QED BY <2>1 DEF ReadersSeeWhole, PassInv, Rest
  <1> QED BY <1>1, LocalInvariant, PTL

-----------------------------------------------------------------------------
(* What the next pass takes for unchanged is unchanged.                      *)

\* Every change gives a file another text.
DistinctTexts == \A i, j \in 1 .. MaxStamps : Text[i] = Text[j] => i = j

\* A change gives the file a stamp and a text that no row has.
LEMMA WorldText ==
  ASSUME DistinctTexts, Types, Phases, TextInv, NEW g \in LocalFiles, WriteFile(g) \/ RemoveFile(g)
  PROVE  TextInv'
  <1> USE LocalAssumption DEF Types, WorldTypes, Stamps
  <1>1. /\ lastStamp \in Nat /\ lastStamp < MaxStamps /\ lastStamp' = lastStamp + 1
        /\ fileStamps' \in [LocalFiles -> 0 .. MaxStamps]
        /\ fileStamps'[g] \in {0, lastStamp + 1}
        /\ \A f \in LocalFiles : f # g => fileStamps'[f] = fileStamps[f]
        /\ storeRows' = storeRows /\ work' = work /\ pass' = pass /\ place' = place
    <2>1. lastStamp < MaxStamps /\ lastStamp' = lastStamp + 1
      BY DEF WriteFile, RemoveFile
    <2>2. lastStamp \in 0 .. MaxStamps /\ lastStamp + 1 \in 0 .. MaxStamps
      BY <2>1
    <2>3. \E s \in {0, lastStamp + 1} : fileStamps' = [fileStamps EXCEPT ![g] = s]
      BY DEF WriteFile, RemoveFile
    <2>4. storeRows' = storeRows /\ work' = work /\ pass' = pass /\ place' = place
      BY DEF WriteFile, RemoveFile, storeVars
    <2> QED BY <2>1, <2>2, <2>3, <2>4
  <1>2. ASSUME NEW f \in LocalFiles, NEW r \in Rows \cup {NoRow}, RowTrue(f, r)
        PROVE  RowTrue(f, r)'
    <2>1. CASE r = NoRow
      BY <2>1 DEF RowTrue
    <2>2. CASE r # NoRow
      <3>1. r \in Rows /\ r.stamp \in Nat /\ r.stamp <= lastStamp
        BY <1>2, <2>2 DEF Rows, RowTrue
      <3>2. r.hash # NoHash => \E k \in 1 .. lastStamp : r.hash = Text[k]
        BY <1>2, <2>2 DEF RowTrue
      <3>3. f = g /\ fileStamps'[f] # 0
              => r.stamp # fileStamps'[f] /\ r.hash # Text[fileStamps'[f]]
        <4> SUFFICES ASSUME f = g, fileStamps'[f] # 0
                     PROVE  r.stamp # fileStamps'[f] /\ r.hash # Text[fileStamps'[f]]
          OBVIOUS
        <4>1. fileStamps'[f] = lastStamp + 1 /\ lastStamp + 1 \in 1 .. MaxStamps
          BY <1>1
        <4>2. Text[lastStamp + 1] # NoHash
          BY <4>1
        <4>3. ASSUME NEW k \in 1 .. lastStamp PROVE Text[k] # Text[lastStamp + 1]
          <5>1. k \in 1 .. MaxStamps /\ k # lastStamp + 1
            BY <1>1
          <5> QED BY <4>1, <5>1 DEF DistinctTexts
        <4> QED BY <1>1, <3>1, <3>2, <4>1, <4>2, <4>3
      <3>4. f # g /\ fileStamps'[f] # 0 /\ (r.stamp = fileStamps'[f] \/ r.hash = Text[fileStamps'[f]])
              => r.text \in {NoText, Text[fileStamps'[f]]}
        BY <1>1, <1>2, <2>2 DEF RowTrue
      <3>5. r.stamp <= lastStamp' /\ (r.hash # NoHash => \E k \in 1 .. lastStamp' : r.hash = Text[k])
        BY <1>1, <3>1, <3>2
      <3> QED BY <3>3, <3>4, <3>5 DEF RowTrue
    <2> QED BY <2>1, <2>2
  <1>3. \A f \in LocalFiles : /\ fileStamps'[f] <= lastStamp' /\ pass'.seen[f] <= lastStamp'
                              /\ pass.seen[f] \in Nat /\ pass.seen[f] <= lastStamp
    <2> SUFFICES ASSUME NEW f \in LocalFiles
                 PROVE  /\ fileStamps'[f] <= lastStamp' /\ pass'.seen[f] <= lastStamp'
                        /\ pass.seen[f] \in Nat /\ pass.seen[f] <= lastStamp
      OBVIOUS
    <2>1. pass.seen[f] \in Nat /\ fileStamps[f] \in Nat
      BY DEF PassTypes
    <2>2. fileStamps[f] <= lastStamp /\ pass.seen[f] <= lastStamp
      BY DEF TextInv
    <2>3. fileStamps'[f] \in {0, lastStamp + 1, fileStamps[f]}
      BY <1>1
    <2> QED BY <1>1, <2>1, <2>2, <2>3
  <1>4. \A b \in LocalBuilds, f \in LocalFiles : RowTrue(f, storeRows[b][f])'
    <2> SUFFICES ASSUME NEW b \in LocalBuilds, NEW f \in LocalFiles
                 PROVE  RowTrue(f, storeRows[b][f])'
      OBVIOUS
    <2>1. PICK r : r = storeRows[b][f]
      OBVIOUS
    <2>2. RowTrue(f, r)'
      BY <1>2, <2>1 DEF TextInv, RowsType
    <2> QED BY <1>1, <2>1, <2>2 DEF RowTrue
  <1>5. \A f \in LocalFiles : RowTrue(f, work[f])'
    <2> SUFFICES ASSUME NEW f \in LocalFiles PROVE RowTrue(f, work[f])'
      OBVIOUS
    <2>1. PICK r : r = work[f]
      OBVIOUS
    <2>2. RowTrue(f, r)'
      BY <1>2, <2>1 DEF TextInv, RowsType
    <2> QED BY <1>1, <2>1, <2>2 DEF RowTrue
  <1>6. \A f \in LocalFiles :
          pass'.hashes[f] # NoHash => \E k \in 1 .. lastStamp' : pass'.hashes[f] = Text[k]
    <2>1. \A k \in 1 .. lastStamp : k \in 1 .. lastStamp'
      BY <1>1
    <2> QED BY <1>1, <2>1 DEF TextInv
  <1>7. place' \in {"warm", "begin", "session"} =>
          \A f \in pass'.restat :
              pass'.seen[f] = fileStamps'[f] => OldRows'[f].hash = Text[fileStamps'[f]]
    <2> SUFFICES ASSUME place \in {"warm", "begin", "session"}, NEW f \in pass.restat,
                        pass.seen[f] = fileStamps'[f]
                 PROVE  OldRows[f].hash = Text[fileStamps'[f]]
      BY <1>1 DEF OldRows
    <2> QED BY <1>1, <1>3 DEF TextInv, Phases, PassTypes
  <1> QED BY <1>3, <1>4, <1>5, <1>6, <1>7 DEF TextInv

\* While files stay as they are, rows that are true stay true.
LEMMA StoreText ==
  ASSUME TextInv, UNCHANGED diskVars,
         \A b \in LocalBuilds, f \in LocalFiles : RowTrue(f, storeRows'[b][f]),
         \A f \in LocalFiles : RowTrue(f, work'[f]),
         \A f \in LocalFiles : pass'.seen[f] <= lastStamp,
         \A f \in LocalFiles :
            pass'.hashes[f] # NoHash => \E k \in 1 .. lastStamp : pass'.hashes[f] = Text[k],
         place' \in {"warm", "begin", "session"} =>
            \A f \in pass'.restat :
              pass'.seen[f] = fileStamps[f] => OldRows'[f].hash = Text[fileStamps[f]]
  PROVE  TextInv'
  BY DEF TextInv, RowTrue, diskVars

\* A pass with nothing in memory, or that stays as it is.
LEMMA QuietText ==
  ASSUME Types, TextInv, UNCHANGED diskVars,
         \A b \in LocalBuilds, f \in LocalFiles : RowTrue(f, storeRows'[b][f]),
         \A f \in LocalFiles : RowTrue(f, work'[f]),
         \/ pass'.seen = NoPass.seen /\ pass'.hashes = NoPass.hashes
         \/ pass'.seen = pass.seen /\ pass'.hashes = pass.hashes,
         place' \notin {"warm", "begin", "session"}
  PROVE  TextInv'
  <1>1. ASSUME NEW f \in LocalFiles PROVE NoPass.seen[f] = 0 /\ NoPass.hashes[f] = NoHash
    BY DEF NoPass
  <1>2. 0 <= lastStamp
    BY LocalAssumption DEF Types, WorldTypes, Stamps
  <1>3. \A f \in LocalFiles : pass'.seen[f] <= lastStamp
    BY <1>1, <1>2 DEF TextInv
  <1>4. \A f \in LocalFiles :
          pass'.hashes[f] # NoHash => \E k \in 1 .. lastStamp : pass'.hashes[f] = Text[k]
    BY <1>1 DEF TextInv
  <1> QED BY <1>3, <1>4, StoreText

\* No row, no claim.
LEMMA NoRowTrue == ASSUME NEW f PROVE RowTrue(f, NoRow)
  BY DEF RowTrue

\* What a collection leaves are rows that were there.
LEMMA CollectText ==
  ASSUME Types, TextInv, NEW kept, CollectBuilds(kept)
  PROVE  \A b \in LocalBuilds, f \in LocalFiles : RowTrue(f, storeRows'[b][f])
  <1> SUFFICES ASSUME NEW b \in LocalBuilds, NEW f \in LocalFiles
               PROVE  RowTrue(f, storeRows'[b][f])
    OBVIOUS
  <1>1. storeRows'[b] = storeRows[b] \/ storeRows'[b] = EmptyRows
    BY Collected DEF Types
  <1> QED BY <1>1, EmptyTypes, NoRowTrue DEF TextInv

\* And a commit makes rows of the session visible.
LEMMA CommitText ==
  ASSUME Types, Phases, TextInv, Commit, pass.build \in LocalBuilds
  PROVE  \A b \in LocalBuilds, f \in LocalFiles : RowTrue(f, storeRows'[b][f])
  <1> SUFFICES ASSUME NEW b \in LocalBuilds, NEW f \in LocalFiles
               PROVE  RowTrue(f, storeRows'[b][f])
    OBVIOUS
  <1>1. storeRows'[b] = storeRows[b] \/ storeRows'[b] = work
    BY Committed DEF Types, WorldTypes
  <1> QED BY <1>1 DEF TextInv

\* Rows with a fresh stat hold what the file does: its hash was compared.
LEMMA KeptText ==
  ASSUME Types, Phases, TextInv, place \in {"warm", "session"}
  PROVE  \A f \in LocalFiles : RowTrue(f, Kept(storeRows[pass.build])[f])
  <1> SUFFICES ASSUME NEW f \in LocalFiles
               PROVE  RowTrue(f, Kept(storeRows[pass.build])[f])
    OBVIOUS
  <1>1. pass.build \in LocalBuilds /\ OldRows = storeRows[pass.build]
    BY DEF Phases, Underway, Building, OldRows, Types, PassTypes, NoLocal
  <1>2. OldRows \in RowsType /\ \A g \in pass.restat : pass.seen[g] # 0 /\ OldRows[g] # NoRow
    BY <1>1 DEF Types, Phases
  <1>3. RowTrue(f, OldRows[f])
    BY <1>1 DEF TextInv
  <1>4. /\ f \in pass.gone => Kept(OldRows)[f] = NoRow
        /\ f \notin pass.gone /\ f \in pass.restat
              => Kept(OldRows)[f] = [OldRows[f] EXCEPT !.stamp = pass.seen[f]]
        /\ f \notin pass.gone /\ f \notin pass.restat => Kept(OldRows)[f] = OldRows[f]
    BY <1>2, KeptTypes DEF Types
  <1>5. CASE f \notin pass.gone /\ f \in pass.restat
    <2>1. OldRows[f] \in Rows /\ OldRows[f] # NoRow
      BY <1>2, <1>5 DEF RowsType
    <2> DEFINE r == [OldRows[f] EXCEPT !.stamp = pass.seen[f]]
    <2>2. r.stamp = pass.seen[f] /\ r.hash = OldRows[f].hash /\ r.text = OldRows[f].text
      BY <2>1 DEF Rows
    <2>3. pass.seen[f] <= lastStamp
          /\ (pass.seen[f] = fileStamps[f] => OldRows[f].hash = Text[fileStamps[f]])
      BY <1>5 DEF TextInv
    <2>4. RowTrue(f, r)
      BY <1>3, <2>1, <2>2, <2>3 DEF RowTrue
    <2> QED BY <1>1, <1>4, <1>5, <2>4
  <1> QED BY <1>1, <1>3, <1>4, <1>5, NoRowTrue

\* Steps of a pass that touch no row, or rows that are true.
LEMMA PassText ==
  ASSUME Types, Phases, TextInv,
         \/ Upgrade \/ Rebuild \/ PassDies \/ FailsEarly \/ SessionFails \/ Fails
         \/ \E scope \in SUBSET LocalFiles \ {{}} : OpenPass(scope)
         \/ DropBuild \/ AbandonClaim \/ RequireFull \/ Resume \/ PlanPass
         \/ Warm \/ OpenSession \/ CommitSegment \/ Written \/ Finalize \/ CommitPass
         \/ SwitchBuild \/ MarkPublished \/ CollectOld
         \/ AbortBuild \/ MarkAborted \/ DiscardPending
  PROVE  TextInv'
  <1>1. /\ \A b \in LocalBuilds, f \in LocalFiles : RowTrue(f, storeRows[b][f])
        /\ \A f \in LocalFiles : RowTrue(f, work[f]) /\ RowTrue(f, EmptyRows[f])
    BY NoRowTrue, EmptyTypes DEF TextInv
  <1>2. PassShape(pass)
    BY DEF Types, PassTypes
  <1>3. CASE Upgrade \/ PassDies \/ FailsEarly \/ SessionFails \/ Fails \/ AbandonClaim
             \/ RequireFull \/ Finalize \/ SwitchBuild \/ AbortBuild
    <2>1. /\ UNCHANGED diskVars /\ storeRows' = storeRows
          /\ pass' = pass \/ pass' = NoPass
          /\ work' = work \/ work' = EmptyRows
          /\ place' \notin {"warm", "begin", "session"}
      BY <1>3 DEF Upgrade, PassDies, FailsEarly, SessionFails, Fails, AbandonClaim, RequireFull,
           Finalize, SwitchBuild, AbortBuild, storeVars
    <2> QED BY <1>1, <2>1, QuietText
  <1>4. CASE Rebuild \/ \E scope \in SUBSET LocalFiles \ {{}} : OpenPass(scope)
    <2>1. /\ UNCHANGED diskVars /\ storeRows' = storeRows /\ work' = work
          /\ place' = "open"
          /\ \E scope : pass' = [NoPass EXCEPT !.scope = scope]
      BY <1>4 DEF Rebuild, OpenPass, storeVars
    <2>2. pass'.seen = NoPass.seen /\ pass'.hashes = NoPass.hashes
      BY <2>1 DEF NoPass
    <2> QED BY <1>1, <2>1, <2>2, QuietText
  <1>5. CASE Resume
    <2>1. /\ UNCHANGED diskVars /\ work' = work /\ place' = "scan"
          /\ CollectBuilds({ctl.active, ctl.pending})
          /\ pass'.seen = pass.seen /\ pass'.hashes = pass.hashes
      BY <1>2, <1>5 DEF Resume, PassShape
    <2> QED BY <1>1, <2>1, CollectText, QuietText
  <1>6. CASE DropBuild \/ CollectOld
    <2>1. /\ UNCHANGED diskVars /\ work' = work /\ place' \in {"abandon", "idle"}
          /\ \E kept : CollectBuilds(kept)
          /\ pass' = pass \/ pass' = NoPass
      BY <1>6 DEF DropBuild, CollectOld
    <2> QED BY <1>1, <2>1, CollectText, QuietText
  <1>7. CASE PlanPass
    <2>1. /\ UNCHANGED diskVars /\ work' = work /\ place' = "scan" /\ storeRows' = storeRows
          /\ pass'.seen = pass.seen /\ pass'.hashes = pass.hashes
      BY <1>2, <1>7 DEF PlanPass, PassShape, storeVars
    <2> QED BY <1>1, <2>1, QuietText
  <1>8. CASE Warm
    <2>1. /\ UNCHANGED diskVars /\ work' = work /\ place' = "idle" /\ pass' = NoPass
          /\ place = "warm" /\ pass.build \in LocalBuilds
          /\ storeRows' = [storeRows EXCEPT ![pass.build] = Kept(@)]
      BY <1>8 DEF Warm, Phases, Underway, Types, PassTypes
    <2>2. \A b \in LocalBuilds : storeRows'[b] = storeRows[b]
             \/ storeRows'[b] = Kept(storeRows[pass.build])
      BY <2>1 DEF Types
    <2>3. \A f \in LocalFiles : RowTrue(f, Kept(storeRows[pass.build])[f])
      BY <2>1, KeptText
    <2>4. \A b \in LocalBuilds, f \in LocalFiles : RowTrue(f, storeRows'[b][f])
      BY <1>1, <2>2, <2>3
    <2> QED BY <1>1, <2>1, <2>4, QuietText
  <1>9. CASE OpenSession
    <2>1. /\ UNCHANGED diskVars /\ storeRows' = storeRows /\ pass' = pass
          /\ place = "session" /\ place' = "write" /\ work' = Kept(storeRows[pass.build])
      BY <1>9 DEF OpenSession, storeVars
    <2>2. \A f \in LocalFiles : RowTrue(f, work'[f])
      BY <2>1, KeptText
    <2> QED BY <1>1, <2>1, <2>2, QuietText
  <1>10. CASE CommitSegment \/ Written \/ CommitPass
    <2>1. /\ UNCHANGED diskVars /\ pass' = pass /\ work' = work
          /\ place' \notin {"warm", "begin", "session"}
          /\ Commit \/ storeRows' = storeRows
      BY <1>10 DEF CommitSegment, Written, CommitPass, storeVars
    <2>2. pass.build \in LocalBuilds
      BY <1>10 DEF CommitSegment, Written, CommitPass, Phases, Building, Types, PassTypes
    <2>3. \A b \in LocalBuilds, f \in LocalFiles : RowTrue(f, storeRows'[b][f])
      BY <1>1, <2>1, <2>2, CommitText
    <2> QED BY <1>1, <2>1, <2>3, QuietText
  <1>11. CASE MarkPublished \/ MarkAborted
    <2>1. /\ UNCHANGED diskVars /\ storeRows' = storeRows /\ pass' = pass /\ work' = work
          /\ place' \notin {"warm", "begin", "session"}
      BY <1>11 DEF MarkPublished, MarkAborted
    <2> QED BY <1>1, <2>1, QuietText
  <1>12. CASE DiscardPending
    <2>1. /\ UNCHANGED diskVars /\ pass' = NoPass /\ work' = work /\ place' = "idle"
          /\ CollectBuilds({pass.before}) \/ storeRows' = storeRows
      BY <1>12 DEF DiscardPending, storeVars
    <2>2. \A b \in LocalBuilds, f \in LocalFiles : RowTrue(f, storeRows'[b][f])
      BY <1>1, <2>1, CollectText
    <2> QED BY <1>1, <2>1, <2>2, QuietText
  <1> QED BY <1>3, <1>4, <1>5, <1>6, <1>7, <1>8, <1>9, <1>10, <1>11, <1>12

\* What the scan sees, the diff hashes and the workers write is the files'.
LEMMA WriteText ==
  ASSUME Types, Phases, TextInv,
         \/ \E missed \in SUBSET LocalFiles : ScanTree(missed)
         \/ \E due \in SUBSET LocalFiles : Diff(due)
         \/ BeginLocal
         \/ \E f \in LocalFiles : Hash(f) \/ PutRow(f)
  PROVE  TextInv'
  <1>1. /\ \A b \in LocalBuilds, f \in LocalFiles : RowTrue(f, storeRows[b][f])
        /\ \A f \in LocalFiles : RowTrue(f, work[f])
        /\ \A f \in LocalFiles : fileStamps[f] <= lastStamp /\ pass.seen[f] <= lastStamp
    BY DEF TextInv
  <1>2. PassShape(pass) /\ lastStamp \in Nat /\ fileStamps \in [LocalFiles -> Nat]
    BY LocalAssumption DEF Types, WorldTypes, PassTypes, Stamps
  <1>3. ASSUME NEW f \in LocalFiles, HashNow(f) # NoHash
        PROVE  \E k \in 1 .. lastStamp : HashNow(f) = Text[k]
    <2>1. fileStamps[f] \in 1 .. lastStamp /\ HashNow(f) = Text[fileStamps[f]]
      BY <1>1, <1>2, <1>3 DEF HashNow
    <2> QED BY <2>1
  <1>4. ASSUME NEW missed \in SUBSET LocalFiles, ScanTree(missed) PROVE TextInv'
    <2>1. /\ UNCHANGED diskVars /\ storeRows' = storeRows /\ work' = work /\ place' = "diff"
          /\ pass'.seen = [f \in LocalFiles |->
                IF f \in pass.scope \ missed THEN fileStamps[f] ELSE 0]
          /\ pass'.hashes = pass.hashes
      BY <1>2, <1>4 DEF ScanTree, PassShape, storeVars
    <2>2. \A f \in LocalFiles : pass'.seen[f] <= lastStamp
      BY <1>1, <1>2, <2>1
    <2>3. \A f \in LocalFiles :
            pass'.hashes[f] # NoHash => \E k \in 1 .. lastStamp : pass'.hashes[f] = Text[k]
      BY <2>1 DEF TextInv
    <2> QED BY <1>1, <2>1, <2>2, <2>3, StoreText
  <1>5. ASSUME NEW due \in SUBSET LocalFiles, Diff(due) PROVE TextInv'
    <2>1. /\ UNCHANGED diskVars /\ storeRows' = storeRows /\ work' = work
          /\ pass'.seen = pass.seen /\ pass'.hashes = Hashes(due) /\ pass'.restat = Same(due)
          /\ pass'.full = pass.full /\ pass'.resume = pass.resume /\ pass'.build = pass.build
          /\ place = "diff" /\ place' \in {"warm", "begin"}
      BY <1>5, DiffFacts DEF storeVars
    <2>2. \A f \in LocalFiles :
            pass'.hashes[f] # NoHash => \E k \in 1 .. lastStamp : pass'.hashes[f] = Text[k]
      BY <1>3, <2>1 DEF Hashes
    <2>3. ASSUME NEW f \in Same(due) PROVE OldRows'[f].hash = Text[fileStamps[f]]
      <3>1. f \in LocalFiles /\ Known(f) /\ HashNow(f) # NoHash /\ HashNow(f) = Baseline(f).hash
        BY DEF Same, Hashed
      <3>2. Baseline(f) = OldRow(f) /\ OldRow(f) = OldRows'[f]
        BY <2>1, <3>1, OldRowIs DEF Known, Baseline
      <3>3. HashNow(f) = Text[fileStamps[f]]
        BY <3>1 DEF HashNow
      <3> QED BY <3>1, <3>2, <3>3
    <2> QED BY <1>1, <2>1, <2>2, <2>3, StoreText
  <1>6. CASE BeginLocal
    <2>1. /\ UNCHANGED diskVars /\ storeRows' = storeRows /\ work' = work
          /\ pass'.seen = pass.seen /\ pass'.hashes = pass.hashes /\ pass'.restat = pass.restat
          /\ pass'.full = pass.full /\ pass'.resume = pass.resume
          /\ \/ pass.build # NoLocal /\ pass'.build = pass.build
             \/ pass.build = NoLocal /\ pass.full /\ ~pass.resume
          /\ place = "begin" /\ place' = "session"
      BY <1>6, BeginFacts DEF storeVars
    <2>2. ASSUME NEW f \in pass.restat, pass.seen[f] = fileStamps[f]
          PROVE  OldRows'[f].hash = Text[fileStamps[f]]
      <3>1. OldRows[f] # NoRow /\ f \in LocalFiles
        BY <2>1 DEF Phases, Types, PassTypes
      <3>2. ~(pass.full /\ ~pass.resume)
        BY <2>1, <3>1, EmptyTypes DEF OldRows, Building
      <3>3. OldRows' = OldRows
        BY <2>1, <3>2 DEF OldRows, Building
      <3> QED BY <2>1, <2>2, <3>3 DEF TextInv
    <2>3. \A f \in LocalFiles :
            pass'.hashes[f] # NoHash => \E k \in 1 .. lastStamp : pass'.hashes[f] = Text[k]
      BY <2>1 DEF TextInv
    <2> QED BY <1>1, <2>1, <2>2, <2>3, StoreText
  <1>7. ASSUME NEW f \in LocalFiles, Hash(f) PROVE TextInv'
    <2>1. /\ UNCHANGED diskVars /\ storeRows' = storeRows /\ work' = work
          /\ pass'.seen = pass.seen /\ pass'.hashes = [pass.hashes EXCEPT ![f] = HashNow(f)]
          /\ place' = "write"
      BY <1>2, <1>7 DEF Hash, PassShape, storeVars
    <2>2. \A g \in LocalFiles :
            pass'.hashes[g] # NoHash => \E k \in 1 .. lastStamp : pass'.hashes[g] = Text[k]
      BY <1>2, <1>3, <2>1 DEF TextInv, PassShape
    <2> QED BY <1>1, <2>1, <2>2, StoreText
  <1>8. ASSUME NEW f \in LocalFiles, PutRow(f) PROVE TextInv'
    <2>1. /\ UNCHANGED diskVars /\ storeRows' = storeRows /\ place' = "write"
          /\ pass'.seen = pass.seen /\ pass'.hashes = [pass.hashes EXCEPT ![f] = NoHash]
      BY <1>2, <1>8 DEF PutRow, PassShape, storeVars
    <2>2. \A g \in LocalFiles :
            pass'.hashes[g] # NoHash => \E k \in 1 .. lastStamp : pass'.hashes[g] = Text[k]
      BY <1>2, <2>1 DEF TextInv, PassShape
    <2>3. RowTrue(f, RowNow(f))
      BY <1>1, <1>2 DEF RowNow, RowTrue, TextInv
    <2>4. \A g \in LocalFiles : work'[g] = work[g] \/ (g = f /\ work'[g] = RowNow(f))
      BY <1>8, RowMade DEF Types, RowsType
    <2> QED BY <1>1, <2>1, <2>2, <2>3, <2>4, StoreText
  <1> QED BY <1>4, <1>5, <1>6, <1>7, <1>8

(* UnchangedTrue: if every change gives a text of its own, a row with the    *)
(* stat of its file holds the text of the file or none, so that a pass which *)
(* takes a file for unchanged by its stat is right (diff.rs).  The stat a    *)
(* row is given later is that of a file whose hash was compared.             *)
THEOREM UnchangedIsTrue ==
  ASSUME \A i, j \in 1 .. MaxStamps : Text[i] = Text[j] => i = j
  PROVE  LocalSpec => []UnchangedTrue
  <1>1. DistinctTexts
    BY DEF DistinctTexts
  <1>2. LocalInit => TextInv
    <2> SUFFICES ASSUME LocalInit PROVE TextInv
      OBVIOUS
    <2>1. \A f \in LocalFiles : RowTrue(f, EmptyRows[f])
      BY EmptyTypes, NoRowTrue
    <2> QED BY <2>1 DEF LocalInit, TextInv, NoPass
  <1>3. PassInv /\ TextInv /\ [LocalNext]_localVars => TextInv'
    <2> SUFFICES ASSUME PassInv, TextInv, [LocalNext]_localVars PROVE TextInv'
      OBVIOUS
    <2>1. Types /\ Phases
      BY TypesSplit DEF PassInv
    <2>2. CASE LocalNext
      BY <1>1, <2>1, <2>2, WorldText, PassText, WriteText DEF LocalNext, PassStep
    <2>3. CASE UNCHANGED localVars
      BY <2>3 DEF localVars, diskVars, storeVars, TextInv, RowTrue, OldRows
    <2> QED BY <2>2, <2>3
  <1>4. PassInv /\ TextInv => UnchangedTrue
    <2> SUFFICES ASSUME PassInv, TextInv, ctl.active # NoLocal, NEW f \in LocalFiles,
                        VisibleFiles[f] # NoRow, fileStamps[f] # 0,
                        VisibleFiles[f].stamp = fileStamps[f], VisibleFiles[f].text # NoText
                 PROVE  VisibleFiles[f].text = Text[fileStamps[f]]
      BY DEF UnchangedTrue
    <2>1. ctl.active \in LocalBuilds
      BY DEF PassInv, LocalTypeOK
    <2> QED BY <2>1 DEF TextInv, RowTrue, VisibleFiles
  <1> QED BY <1>2, <1>3, <1>4, PassInvariant, PTL DEF LocalSpec

-----------------------------------------------------------------------------
(* What a pass finds on disk (Scanning), for any trees, rules and named       *)
(* paths.  First paths.                                                      *)

\* Sequences of names; those of entries are neither empty nor outside.
AnyPath == Seq(STRING)
Path(p) == p \in AnyPath /\ p # Root /\ p[1] # Outside

(* A non-empty set of naturals has a least element.                          *)
LEMMA Least ==
  ASSUME NEW S \in SUBSET Nat, S # {}
  PROVE  \E x \in S : \A y \in S : x <= y
  <1> DEFINE Less == {x \in Nat \X Nat : x[1] < x[2]}
  <1>1. IsWellFoundedOn(Less, Nat)
    BY NatLessThanWellFounded DEF OpToRel
  <1>2. PICK x \in S : \A y \in S : <<y, x>> \notin Less
    <2> HIDE DEF Less
    <2> QED BY <1>1, WFMin
  <1>3. ASSUME NEW y \in S PROVE x <= y
    <2>1. ~(y < x)
      BY <1>2
    <2> QED BY <2>1
  <1> QED BY <1>3

(* The first names of a path are a path.                                     *)
LEMMA PrefixIsPath ==
  ASSUME NEW p \in AnyPath, NEW i \in 0 .. Len(p)
  PROVE  /\ SubSeq(p, 1, i) \in AnyPath
         /\ Len(SubSeq(p, 1, i)) = i
         /\ i = 0 <=> SubSeq(p, 1, i) = Root
         /\ \A j \in 1 .. i : SubSeq(p, 1, i)[j] = p[j]
  <1>1. Len(p) \in Nat /\ \A j \in 1 .. Len(p) : p[j] \in STRING
    BY LenProperties, ElementOfSeq DEF AnyPath
  <1>2. i \in Int /\ \A j \in 1 .. i : p[j] \in STRING
    BY <1>1
  <1>3. /\ SubSeq(p, 1, i) \in AnyPath
        /\ Len(SubSeq(p, 1, i)) = IF 1 <= i THEN i - 1 + 1 ELSE 0
        /\ \A j \in 1 .. i - 1 + 1 : SubSeq(p, 1, i)[j] = p[1 + j - 1]
    BY <1>2, SubSeqProperties DEF AnyPath
  <1> QED BY <1>1, <1>2, <1>3 DEF Root

(* Prefixes of prefixes are prefixes.                                        *)
LEMMA PrefixOfPrefix ==
  ASSUME NEW p \in AnyPath, NEW i \in 0 .. Len(p), NEW j \in 0 .. i
  PROVE  SubSeq(SubSeq(p, 1, i), 1, j) = SubSeq(p, 1, j)
  <1>1. Len(p) \in Nat
    BY LenProperties DEF AnyPath
  <1> DEFINE q == SubSeq(p, 1, i)
  <1>2. q \in AnyPath /\ Len(q) = i /\ \A k \in 1 .. i : q[k] = p[k]
    BY PrefixIsPath
  <1>3. j \in 0 .. Len(q) /\ j \in 0 .. Len(p)
    BY <1>1, <1>2
  <1> HIDE DEF q
  <1> DEFINE a == SubSeq(q, 1, j)  b == SubSeq(p, 1, j)
  <1>4. a \in AnyPath /\ Len(a) = j /\ \A k \in 1 .. j : a[k] = q[k]
    BY <1>2, <1>3, PrefixIsPath
  <1>5. b \in AnyPath /\ Len(b) = j /\ \A k \in 1 .. j : b[k] = p[k]
    BY <1>3, PrefixIsPath
  <1> HIDE DEF a, b
  <1>6. \A k \in 1 .. j : a[k] = b[k]
    BY <1>2, <1>4, <1>5
  <1>7. a = b
    BY <1>4, <1>5, <1>6, SeqEqual DEF AnyPath
  <1> QED BY <1>7 DEF a, b, q

(* What is below a directory is below each directory on the way, or is it.   *)
LEMMA BelowPrefix ==
  ASSUME NEW p \in AnyPath, NEW d \in AnyPath, Below(p, d),
         NEW i \in 0 .. Len(p)
  PROVE  /\ i = Len(d) => SubSeq(p, 1, i) = d
         /\ i > Len(d) => Below(SubSeq(p, 1, i), d)
         /\ i < Len(p) => Below(p, SubSeq(p, 1, i))
         /\ Len(d) \in Nat /\ Len(p) \in Nat /\ Len(d) < Len(p)
  <1>1. Len(p) \in Nat /\ Len(d) \in Nat
    BY LenProperties DEF AnyPath
  <1>2. Len(d) < Len(p) /\ SubSeq(p, 1, Len(d)) = d
    BY DEF Below
  <1>3. Len(SubSeq(p, 1, i)) = i
    BY PrefixIsPath
  <1>4. i > Len(d) => SubSeq(SubSeq(p, 1, i), 1, Len(d)) = SubSeq(p, 1, Len(d))
    BY <1>1, PrefixOfPrefix
  <1>5. SubSeq(SubSeq(p, 1, i), 1, Len(SubSeq(p, 1, i))) = SubSeq(p, 1, i)
    BY <1>1, <1>3, PrefixOfPrefix
  <1> QED BY <1>1, <1>2, <1>3, <1>4, <1>5 DEF Below

(* What is below something below a directory is below it.                    *)
LEMMA BelowTrans ==
  ASSUME NEW p \in AnyPath, NEW q \in AnyPath, NEW d \in AnyPath,
         Below(p, q), Below(q, d)
  PROVE  Below(p, d)
  <1>1. Len(p) \in Nat /\ Len(q) \in Nat /\ Len(d) \in Nat
    BY LenProperties DEF AnyPath
  <1>2. Len(d) < Len(q) /\ Len(q) < Len(p)
    BY DEF Below
  <1>3. SubSeq(SubSeq(p, 1, Len(q)), 1, Len(d)) = SubSeq(p, 1, Len(d))
    BY <1>1, <1>2, PrefixOfPrefix
  <1> QED BY <1>1, <1>2, <1>3 DEF Below

(* Of some paths, each is one of the topmost or below one of them.           *)
LEMMA TopmostCovers ==
  ASSUME NEW S \in SUBSET AnyPath, NEW p \in S
  PROVE  \E d \in Topmost(S) : d = p \/ Below(p, d)
  <1> DEFINE Above == {d \in S : d = p \/ Below(p, d)}
             Lens  == {Len(d) : d \in Above}
  <1>1. Lens \in SUBSET Nat /\ Lens # {}
    <2>1. p \in Above
      OBVIOUS
    <2>2. \A d \in Above : Len(d) \in Nat
      BY LenProperties DEF AnyPath
    <2> QED BY <2>1, <2>2
  <1>2. PICK n \in Lens : \A m \in Lens : n <= m
    <2> HIDE DEF Lens
    <2> QED BY <1>1, Least
  <1>3. PICK d \in Above : Len(d) = n
    BY <1>2
  <1>4. ASSUME NEW e \in S, Below(d, e) PROVE FALSE
    <2>1. e \in Above
      <3>1. CASE d = p
        BY <1>4, <3>1
      <3>2. CASE Below(p, d)
        BY <1>3, <1>4, <3>2, BelowTrans
      <3> QED BY <1>3, <3>1, <3>2
    <2>2. n <= Len(e)
      BY <1>2, <2>1
    <2>3. Len(e) < n
      BY <1>3, <1>4 DEF Below
    <2>4. n \in Nat /\ Len(e) \in Nat
      BY <1>1, <2>1
    <2> QED BY <2>2, <2>3, <2>4
  <1>5. d \in Topmost(S)
    BY <1>3, <1>4 DEF Topmost
  <1> QED BY <1>3, <1>5

-----------------------------------------------------------------------------
(* The tree.                                                                 *)

\* What every tree is: see ScanAssumption.
ATree(t) ==
    \A p \in DOMAIN t :
        /\ Path(p)
        /\ t[p].is \in {"file", "dir", "link"}
        /\ t[p].is = "link" => t[p].to \in AnyPath
        /\ \A i \in 1 .. Len(p) - 1 : /\ SubSeq(p, 1, i) \in DOMAIN t
                                     /\ t[SubSeq(p, 1, i)].is = "dir"

(* The trees a pass may see are trees.                                       *)
LEMMA TreesAreTrees == \A t \in Trees \cup FirstTrees : ATree(t)
  BY ScanAssumption DEF ScanAssumption, ATree, Path, AnyPath, Root

(* A directory something is below.                                           *)
LEMMA AboveIsDir ==
  ASSUME ATree(tree), NEW p \in DOMAIN tree, NEW d \in AnyPath, Below(p, d)
  PROVE  IsA(d, "dir")
  <1>1. p \in AnyPath
    BY DEF ATree, Path
  <1>2. Len(d) \in Nat /\ Len(p) \in Nat /\ Len(d) < Len(p) /\ SubSeq(p, 1, Len(d)) = d
    BY <1>1, LenProperties DEF AnyPath, Below
  <1>3. CASE Len(d) = 0
    BY <1>1, <1>2, <1>3, PrefixIsPath DEF IsA
  <1>4. CASE Len(d) # 0
    <2>1. Len(d) \in 1 .. Len(p) - 1
      BY <1>2, <1>4
    <2>2. \A i \in 1 .. Len(p) - 1 : /\ SubSeq(p, 1, i) \in DOMAIN tree
                                      /\ tree[SubSeq(p, 1, i)].is = "dir"
      BY DEF ATree
    <2>3. /\ SubSeq(p, 1, Len(d)) \in DOMAIN tree
          /\ tree[SubSeq(p, 1, Len(d))].is = "dir"
      BY <2>1, <2>2
    <2>4. d \in DOMAIN tree /\ tree[d].is = "dir"
      BY <1>2, <2>3
    <2>5. d # Root
      BY <2>4 DEF ATree, Path
    <2> QED BY <2>4, <2>5 DEF IsA
  <1> QED BY <1>3, <1>4

(* A path is of one kind; the root is a directory and no entry.              *)
LEMMA NotBoth ==
  ASSUME ATree(tree), NEW p \in AnyPath
  PROVE  /\ IsA(p, "dir") => p = Root \/ (p \in DOMAIN tree /\ tree[p].is = "dir")
         /\ IsA(p, "dir") => ~Stated(p) /\ ~IsA(p, "file")
         /\ p \in DOMAIN tree => p # Root
         /\ Stated(p) => IsA(p, "file")
         /\ p \in DOMAIN tree => (IsA(p, "dir") <=> tree[p].is = "dir")
  <1>1. Root \notin DOMAIN tree
    BY DEF ATree, Path
  <1> QED BY <1>1 DEF IsA, Stated

(* Nothing leads away from a path that is no link and in directories only.   *)
LEMMA ResolvesToItself ==
  ASSUME ATree(tree), NEW p \in AnyPath, LinkIn(p) = {}
  PROVE  Resolved(p) = p
  BY DEF Resolved

(* A file or directory of the tree has no link in its path.                  *)
LEMMA NoLinkIn ==
  ASSUME ATree(tree), NEW p \in DOMAIN tree, tree[p].is # "link"
  PROVE  LinkIn(p) = {}
  <1>1. ASSUME NEW q \in DOMAIN tree, tree[q].is = "link", Below(p, q) PROVE FALSE
    <2>1. q \in AnyPath /\ q # Root
      BY DEF ATree, Path
    <2>2. IsA(q, "dir")
      BY <1>1, <2>1, AboveIsDir
    <2> QED BY <1>1, <2>1, <2>2 DEF IsA
  <1> QED BY <1>1 DEF LinkIn

(* Also where a path is that something is below.                             *)
LEMMA NoLinkAbove ==
  ASSUME ATree(tree), NEW p \in DOMAIN tree, NEW d \in AnyPath, Below(p, d)
  PROVE  LinkIn(d) = {}
  <1>1. IsA(d, "dir")
    BY AboveIsDir
  <1>2. CASE d = Root
    <2>1. ASSUME NEW q \in DOMAIN tree PROVE ~Below(Root, q) /\ q # Root
      <3>1. q \in AnyPath /\ q # Root
        BY DEF ATree, Path
      <3>2. Len(q) \in Nat /\ Len(Root) = 0
        BY <3>1, LenProperties, EmptySeq DEF AnyPath, Root
      <3> QED BY <3>1, <3>2 DEF Below
    <2> QED BY <1>2, <2>1 DEF LinkIn
  <1>3. CASE d # Root
    <2>1. d \in DOMAIN tree /\ tree[d].is = "dir"
      BY <1>1, <1>3 DEF IsA
    <2> QED BY <2>1, NoLinkIn
  <1> QED BY <1>2, <1>3

(* Resolving a path gives a path.                                            *)
LEMMA ResolvedIsPath ==
  ASSUME ATree(tree), NEW p \in AnyPath
  PROVE  Resolved(p) \in AnyPath
  <1>1. CASE LinkIn(p) = {}
    BY <1>1 DEF Resolved
  <1>2. CASE LinkIn(p) # {}
    <2> DEFINE q == CHOOSE q \in LinkIn(p) : TRUE
    <2>1. q \in LinkIn(p)
      BY <1>2
    <2> HIDE DEF q
    <2>2. q \in DOMAIN tree /\ tree[q].to \in AnyPath /\ q \in AnyPath
      BY <2>1 DEF LinkIn, ATree, Path
    <2>3. q = p \/ Below(p, q)
      BY <2>1 DEF LinkIn
    <2>4. Len(q) \in Nat /\ Len(p) \in Nat
      BY <2>2, LenProperties DEF AnyPath
    <2>5. \A i \in Len(q) + 1 .. Len(p) : p[i] \in STRING
      BY <2>4, ElementOfSeq DEF AnyPath
    <2>6. SubSeq(p, Len(q) + 1, Len(p)) \in AnyPath
      BY <2>4, <2>5, SubSeqProperties DEF AnyPath
    <2>7. tree[q].to \o SubSeq(p, Len(q) + 1, Len(p)) \in AnyPath
      BY <2>2, <2>6, ConcatProperties DEF AnyPath
    <2> QED BY <1>2, <2>7 DEF Resolved, q
  <1> QED BY <1>1, <1>2

-----------------------------------------------------------------------------
(* The rules.                                                                *)

\* No directory above is ignored.
Open(p) == \A i \in 1 .. Len(p) - 1 : ~IsIgnored(SubSeq(p, 1, i), TRUE)
Allowed(p) == ~IsIgnored(p, FALSE) /\ Open(p)
Entered(d) == d = Root \/ (Open(d) /\ ~IsIgnored(d, TRUE))

(* The admitted files are those no rule forbids, nor a directory above.      *)
LEMMA AdmittedIs ==
  Admitted = {p \in DOMAIN tree : tree[p].is = "file" /\ Allowed(p)}
  BY DEF Admitted, Allowed, Open

(* A walk may enter every directory above an allowed path.                   *)
LEMMA OpenAbove ==
  ASSUME NEW p \in AnyPath, NEW d \in AnyPath, Below(p, d), Open(p)
  PROVE  Entered(d)
  <1>1. Len(d) \in Nat /\ Len(p) \in Nat /\ Len(d) < Len(p) /\ SubSeq(p, 1, Len(d)) = d
    BY LenProperties DEF AnyPath, Below
  <1>2. SUFFICES ASSUME d # Root PROVE Open(d) /\ ~IsIgnored(d, TRUE)
    BY DEF Entered
  <1>3. Len(d) \in 1 .. Len(p) - 1
    <2>1. Len(d) # 0
      BY <1>1, <1>2, PrefixIsPath
    <2> QED BY <1>1, <2>1
  <1>4. ~IsIgnored(d, TRUE)
    BY <1>1, <1>3 DEF Open
  <1>5. ASSUME NEW i \in 1 .. Len(d) - 1 PROVE ~IsIgnored(SubSeq(d, 1, i), TRUE)
    <2>1. SubSeq(SubSeq(p, 1, Len(d)), 1, i) = SubSeq(p, 1, i)
      BY <1>1, PrefixOfPrefix
    <2>2. i \in 1 .. Len(p) - 1
      BY <1>1
    <2>3. ~IsIgnored(SubSeq(p, 1, i), TRUE)
      BY <2>2 DEF Open
    <2>4. SubSeq(d, 1, i) = SubSeq(p, 1, i)
      BY <1>1, <2>1
    <2> QED BY <2>3, <2>4
  <1> QED BY <1>4, <1>5 DEF Open

(* In a directory that a walk enters, no entry is below an ignored one.      *)
LEMMA OpenEntry ==
  ASSUME NEW d \in AnyPath, NEW e \in AnyPath, Len(e) = Len(d) + 1, Below(e, d), Entered(d)
  PROVE  Open(e)
  <1>1. Len(d) \in Nat /\ Len(e) \in Nat /\ SubSeq(e, 1, Len(d)) = d
    BY LenProperties DEF AnyPath, Below
  <1>2. SUFFICES ASSUME NEW i \in 1 .. Len(e) - 1 PROVE ~IsIgnored(SubSeq(e, 1, i), TRUE)
    BY DEF Open
  <1>3. i \in 1 .. Len(d)
    BY <1>1
  <1>4. d # Root
    BY <1>1, <1>3, EmptySeq DEF Root
  <1>5. Open(d) /\ ~IsIgnored(d, TRUE)
    BY <1>4 DEF Entered
  <1>6. CASE i = Len(d)
    BY <1>1, <1>5, <1>6
  <1>7. CASE i # Len(d)
    <2>1. SubSeq(SubSeq(e, 1, Len(d)), 1, i) = SubSeq(e, 1, i)
      BY <1>1, <1>3, PrefixOfPrefix
    <2>2. SubSeq(d, 1, i) = SubSeq(e, 1, i)
      BY <1>1, <2>1
    <2>3. i \in 1 .. Len(d) - 1
      <3>1. Len(d) \in Nat
        BY <1>1
      <3> HIDE <1>1
      <3> QED BY <3>1, <1>3, <1>7
    <2> QED BY <1>5, <2>2, <2>3 DEF Open
  <1> QED BY <1>6, <1>7

-----------------------------------------------------------------------------
(* The walk.                                                                 *)

\* The entries of d were dealt with; all below it were.
Listed(d) ==
    \A e \in Entries(d) :
        /\ tree[e].is = "dir" /\ ~IsIgnored(e, TRUE) => e \in seenDirs
        /\ e \in Admitted => e \in found
Complete(d) == \A p \in Admitted : Below(p, d) => p \in found

(* A walk that listed every directory it came to found all there is.         *)
LEMMA ListedIsComplete ==
  ASSUME ATree(tree), \A d \in seenDirs : d \in AnyPath /\ Listed(d), NEW d \in seenDirs
  PROVE  Complete(d)
  <1> SUFFICES ASSUME NEW p \in Admitted, Below(p, d) PROVE p \in found
    BY DEF Complete
  <1>1. p \in DOMAIN tree /\ tree[p].is = "file" /\ Allowed(p) /\ p \in AnyPath /\ d \in AnyPath
    BY AdmittedIs DEF ATree, Path
  <1>2. Len(p) \in Nat /\ Len(d) \in Nat /\ Len(d) < Len(p)
    BY <1>1, BelowPrefix
  <1> DEFINE At(i) == SubSeq(p, 1, i)
             Bad == {i \in Len(d) .. Len(p) - 1 : At(i) \notin seenDirs}
  <1>3. ASSUME NEW i \in Len(d) .. Len(p) - 1, At(i) \in seenDirs
        PROVE  i + 1 < Len(p) => At(i + 1) \in seenDirs
    <2> SUFFICES ASSUME i + 1 < Len(p) PROVE At(i + 1) \in seenDirs
      OBVIOUS
    <2>1. i \in 0 .. Len(p) /\ i + 1 \in 1 .. Len(p) - 1 /\ i + 1 \in 0 .. Len(p)
      BY <1>2
    <2>2. At(i + 1) \in DOMAIN tree /\ tree[At(i + 1)].is = "dir"
      BY <1>1, <2>1 DEF ATree
    <2>3. ~IsIgnored(At(i + 1), TRUE)
      BY <1>1, <2>1 DEF Allowed, Open
    <2>4. At(i + 1) \in AnyPath /\ Len(At(i + 1)) = i + 1 /\ At(i) \in AnyPath /\ Len(At(i)) = i
      BY <1>1, <2>1, PrefixIsPath
    <2>5. SubSeq(At(i + 1), 1, i) = At(i)
      BY <1>1, <2>1, PrefixOfPrefix
    <2>6. At(i + 1) \in Entries(At(i))
      <3> HIDE DEF At
      <3> QED BY <2>1, <2>2, <2>4, <2>5 DEF Entries, Below
    <2> QED BY <1>3, <2>2, <2>3, <2>6 DEF Listed
  <1>4. At(Len(d)) \in seenDirs
    <2>1. SubSeq(p, 1, Len(d)) = d
      BY DEF Below
    <2> QED BY <2>1
  <1>5. Bad = {}
    <2> SUFFICES ASSUME Bad # {} PROVE FALSE
      OBVIOUS
    <2>1. Bad \in SUBSET Nat
      BY <1>2
    <2>2. PICK i \in Bad : \A j \in Bad : i <= j
      <3> HIDE DEF Bad
      <3> QED BY <2>1, Least
    <2>3. i # Len(d)
      BY <1>4
    <2>4. i - 1 \in Len(d) .. Len(p) - 1 /\ i \in Nat /\ (i - 1) + 1 = i /\ i < Len(p)
      BY <1>2, <2>3
    <2>5. i - 1 \notin Bad
      BY <2>2, <2>4
    <2>6. At(i - 1) \in seenDirs
      BY <2>4, <2>5
    <2>7. At((i - 1) + 1) \in seenDirs
      <3> HIDE DEF At, Bad
      <3> QED BY <1>3, <2>4, <2>6
    <2>8. At(i) \in seenDirs
      BY <2>4, <2>7
    <2> QED BY <2>2, <2>8
  <1>6. At(Len(p) - 1) \in seenDirs
    <2>1. Len(p) - 1 \in Len(d) .. Len(p) - 1
      BY <1>2
    <2> QED BY <1>5, <2>1
  <1>7. p \in Entries(At(Len(p) - 1))
    <2>1. Len(At(Len(p) - 1)) = Len(p) - 1
      <3>1. Len(p) - 1 \in 0 .. Len(p)
        BY <1>2
      <3> QED BY <1>1, <3>1, PrefixIsPath
    <2> HIDE DEF At
    <2>2. At(Len(p) - 1) = SubSeq(p, 1, Len(p) - 1)
      BY DEF At
    <2> QED BY <1>1, <1>2, <2>1, <2>2 DEF Entries, Below
  <1> QED BY <1>6, <1>7 DEF Listed

-----------------------------------------------------------------------------
(* The invariant.                                                            *)

ScanSteps == {"pick", "rows", "targets", "walk", "moves", "done"}
Busy == {"targets", "walk", "moves"}

\* Nothing was done yet.
Fresh ==
    /\ toName = {} /\ stack = {} /\ seenDirs = {} /\ seenPaths = {} /\ found = {}
    /\ scanErrors = FALSE /\ missing = {} /\ walked = {} /\ toMatch = {}
    /\ moves = EmptyTree

PickInv ==
    /\ scanStep \in ScanSteps
    /\ full \in BOOLEAN /\ follow \in BOOLEAN /\ scanErrors \in BOOLEAN
    /\ scanStep \in {"pick", "rows"} => Fresh
    /\ scanStep = "rows" =>
          /\ tree \in Trees /\ fileRows \in FirstTrees
          /\ named \in Names(ChangedSince(fileRows, tree))
          /\ full <=> named = {Root}

\* The rows are right for all that nobody named.
Covered(p) == \E c \in named : c = p \/ Below(p, c)
RowsInv ==
    scanStep \in Busy =>
        /\ ATree(tree)
        /\ \A p \in DOMAIN fileRows : Path(p) /\ Allowed(p)
        /\ full => named = {Root}
        /\ ~full => \A c \in named : Path(c)
        /\ ~full => \A p \in Admitted \cup DOMAIN fileRows :
              Covered(p) \/ /\ p \in Admitted /\ p \in DOMAIN fileRows
                            /\ fileRows[p] = RowOf(tree, p)

DirsInv ==
    scanStep \in Busy =>
        /\ stack \subseteq seenDirs
        /\ \A d \in seenDirs \cup walked : d \in AnyPath /\ IsA(d, "dir")
        /\ found \subseteq AnyPath /\ missing \subseteq AnyPath
        /\ toName \subseteq named
        /\ scanStep = "walk" => full
        /\ scanStep = "targets" => ~full
        /\ full => Root \in seenDirs /\ toName = {} /\ missing = {} /\ walked = {}

\* What became of each path the scan came to.
Looked(c) ==
    \/ c \in DOMAIN tree /\ tree[c].is = "link" /\ ~follow
    \/ ~Inside(Resolved(c))
    \/ Resolved(c) \in seenPaths
PathsInv ==
    scanStep \in Busy =>
        /\ \A p \in found : Stated(p)
        /\ \A p \in missing : ~IsA(p, "dir") /\ ~Stated(p)
        /\ \A p \in seenPaths :
              /\ Stated(p) /\ ~IsIgnored(p, FALSE) => p \in found
              /\ IsA(p, "dir") => p \in walked \/ (p # Root /\ IsIgnored(p, TRUE))
              /\ ~IsA(p, "dir") /\ ~Stated(p) => p \in missing \/ scanErrors
        /\ ~full => \A c \in named \ toName : Looked(c)

WholeInv ==
    scanStep \in Busy /\ Readable =>
        /\ \A d \in seenDirs \ stack : Listed(d)
        /\ \A d \in walked : d \in seenDirs \/ Complete(d)
        /\ ~follow => ~scanErrors

\* Without links a scan goes nowhere a rule forbids.
PlainInv ==
    scanStep \in Busy /\ ~follow /\ ~NamedInIgnored =>
        /\ found \subseteq Admitted
        /\ \A d \in seenDirs : Entered(d)

MovesInv ==
    /\ scanStep \in Busy \ {"moves"} => toMatch = {} /\ moves = EmptyTree
    /\ scanStep = "moves" =>
          /\ stack = {} /\ toName = {} /\ toMatch \subseteq found
          /\ DOMAIN moves \subseteq found \ toMatch
          /\ \A p \in DOMAIN moves : moves[p] \in Base \ found
          /\ \A p, q \in DOMAIN moves : moves[p] = moves[q] => p = q

ScanInv == /\ PickInv /\ RowsInv /\ DirsInv /\ PathsInv /\ WholeInv /\ PlainInv
           /\ MovesInv /\ ScanRight

-----------------------------------------------------------------------------
(* The steps.                                                                *)

\* What a pass does not change, and what depends on nothing else.
Static == <<tree, rules, follow, named, full>>

(* What depends on the tree, the rules and the named paths only.             *)
LEMMA Frozen ==
  ASSUME UNCHANGED Static
  PROVE  /\ Admitted' = Admitted
         /\ Readable' <=> Readable
         /\ NamedInIgnored' <=> NamedInIgnored
         /\ ATree(tree)' <=> ATree(tree)
         /\ \A p : /\ IsIgnored(p, TRUE)' <=> IsIgnored(p, TRUE)
                   /\ IsIgnored(p, FALSE)' <=> IsIgnored(p, FALSE)
                   /\ IsA(p, "dir")' <=> IsA(p, "dir")
                   /\ IsA(p, "file")' <=> IsA(p, "file")
                   /\ Stated(p)' <=> Stated(p)
                   /\ Resolved(p)' = Resolved(p)
                   /\ Inside(Resolved(p))' <=> Inside(Resolved(p))
                   /\ Entries(p)' = Entries(p)
                   /\ Allowed(p)' <=> Allowed(p)
                   /\ Open(p)' <=> Open(p)
                   /\ Entered(p)' <=> Entered(p)
                   /\ Covered(p)' <=> Covered(p)
                   /\ RowOf(tree, p)' = RowOf(tree, p)
                   /\ Replaced(p)' <=> Replaced(p)
  <1>1. tree' = tree /\ rules' = rules /\ follow' = follow /\ named' = named /\ full' = full
    BY DEF Static
  <1>2. \A p : /\ IsIgnored(p, TRUE)' <=> IsIgnored(p, TRUE)
               /\ IsIgnored(p, FALSE)' <=> IsIgnored(p, FALSE)
    BY <1>1 DEF IsIgnored, PatternHits, NameOf
  <1>3. \A p : Resolved(p)' = Resolved(p)
    BY <1>1 DEF Resolved, LinkIn, Below
  <1>4. \A p : /\ IsA(p, "dir")' <=> IsA(p, "dir")
               /\ IsA(p, "file")' <=> IsA(p, "file")
               /\ Stated(p)' <=> Stated(p)
               /\ Entries(p)' = Entries(p)
               /\ Covered(p)' <=> Covered(p)
               /\ RowOf(tree, p)' = RowOf(tree, p)
               /\ Replaced(p)' <=> Replaced(p)
    BY <1>1 DEF IsA, Stated, Entries, Covered, RowOf, Kind, NameOf, Replaced, LinkIn, Below
  <1>5. \A p : Inside(Resolved(p))' <=> Inside(Resolved(p))
    BY <1>3 DEF Inside
  <1>6. \A p : Open(p)' <=> Open(p)
    BY <1>2 DEF Open
  <1>7. \A p : /\ Allowed(p)' <=> Allowed(p)
               /\ Entered(p)' <=> Entered(p)
    BY <1>2, <1>6 DEF Allowed, Entered
  <1>8. Admitted' = Admitted
    BY <1>1, <1>2 DEF Admitted
  <1>9. NamedInIgnored' <=> NamedInIgnored
    BY <1>1, <1>2, <1>3 DEF NamedInIgnored
  <1>10. (Readable' <=> Readable) /\ (ATree(tree)' <=> ATree(tree))
    BY <1>1 DEF Readable, ATree
  <1> QED BY <1>2, <1>3, <1>4, <1>5, <1>6, <1>7, <1>8, <1>9, <1>10

(* The rows stay right while nothing changes them, the rules or the tree.    *)
LEMMA RowsFrozen ==
  ASSUME RowsInv, UNCHANGED Static, UNCHANGED fileRows, scanStep \in Busy
  PROVE  RowsInv'
  <1>1. ATree(tree) /\ (ATree(tree)' <=> ATree(tree))
    BY Frozen DEF RowsInv
  <1>2. full' = full /\ named' = named /\ Admitted' = Admitted /\ fileRows' = fileRows
    BY Frozen DEF Static
  <1>3. \A p : /\ Allowed(p)' <=> Allowed(p)
               /\ Covered(p)' <=> Covered(p)
               /\ RowOf(tree, p)' = RowOf(tree, p)
    BY Frozen
  <1>4. /\ \A p \in DOMAIN fileRows : Path(p) /\ Allowed(p)
        /\ full => named = {Root}
        /\ ~full => \A c \in named : Path(c)
    BY DEF RowsInv
  <1>5. ~full => \A p \in Admitted \cup DOMAIN fileRows :
              Covered(p) \/ /\ p \in Admitted /\ p \in DOMAIN fileRows
                            /\ fileRows[p] = RowOf(tree, p)
    BY DEF RowsInv
  <1>6. \A p \in DOMAIN fileRows' : Path(p)' /\ Allowed(p)'
    BY <1>2, <1>3, <1>4 DEF Path
  <1>7. full' => named' = {Root}
    BY <1>2, <1>4
  <1>8. ~full' => \A c \in named' : Path(c)'
    BY <1>2, <1>4 DEF Path
  <1>9. ~full' => \A p \in Admitted' \cup DOMAIN fileRows' :
              Covered(p)' \/ /\ p \in Admitted' /\ p \in DOMAIN fileRows'
                             /\ fileRows'[p] = RowOf(tree, p)'
    BY <1>2, <1>3, <1>5
  <1> QED BY <1>1, <1>6, <1>7, <1>8, <1>9 DEF RowsInv

(* At the start nothing is claimed.                                          *)
LEMMA InitScanInv == ScanInit => ScanInv
  BY DEF ScanInit, ScanInv, PickInv, RowsInv, DirsInv, PathsInv, WholeInv, PlainInv,
         MovesInv, ScanRight, ScanSteps, Busy, Fresh

(* Before the scan and after it there is nothing to keep but the shape.      *)
LEMMA PickKeeps ==
  ASSUME ScanInv, scanStep = "pick",
         NEW old \in FirstTrees, NEW t \in Trees, NEW r \in RuleSets, NEW links \in BOOLEAN,
         NEW paths \in Names(ChangedSince(old, t)), Pick(old, t, r, links, paths)
  PROVE  ScanInv'
  <1>1. Fresh /\ scanErrors \in BOOLEAN
    BY DEF ScanInv, PickInv
  <1>2. scanStep' = "rows" /\ tree' = t /\ fileRows' = old /\ named' = paths
    BY DEF Pick
  <1>3. Fresh'
    BY <1>1 DEF Pick, Fresh, EmptyTree
  <1>4. PickInv'
    <2>1. full' \in BOOLEAN /\ follow' \in BOOLEAN /\ (full' <=> named' = {Root})
      BY DEF Pick
    <2>2. named' \in Names(ChangedSince(fileRows', tree'))
      BY <1>2
    <2>3. (named \in Names(ChangedSince(fileRows, tree)))'
      BY <2>2 DEF Names, ChangedSince, Topmost, Below
    <2>4. scanErrors' \in BOOLEAN
      BY <1>3 DEF Fresh
    <2> QED BY <1>2, <1>3, <2>1, <2>3, <2>4 DEF PickInv, ScanSteps
  <1>5. RowsInv' /\ DirsInv' /\ PathsInv' /\ WholeInv' /\ PlainInv' /\ MovesInv' /\ ScanRight'
    BY <1>2 DEF RowsInv, DirsInv, PathsInv, WholeInv, PlainInv, MovesInv, ScanRight, Busy
  <1> QED BY <1>4, <1>5 DEF ScanInv

(* What nobody named is as it was, and so is its row.                        *)
LEMMA FirstRowsKeeps ==
  ASSUME ScanInv, FirstRows
  PROVE  ScanInv'
  <1> DEFINE S == ChangedSince(fileRows, tree)
             In == {p \in DOMAIN fileRows :
                      /\ fileRows[p].is = "file" /\ ~IsIgnored(p, FALSE)
                      /\ \A i \in 1 .. Len(p) - 1 : ~IsIgnored(SubSeq(p, 1, i), TRUE)}
  <1>1. /\ scanStep = "rows" /\ Fresh /\ full \in BOOLEAN /\ follow \in BOOLEAN
        /\ tree \in Trees /\ fileRows \in FirstTrees /\ named \in Names(S)
        /\ full <=> named = {Root}
    BY DEF FirstRows, ScanInv, PickInv
  <1>2. ATree(tree) /\ ATree(fileRows)
    BY <1>1, TreesAreTrees
  <1>3. /\ fileRows' = [p \in In |-> RowOf(fileRows, p)]
        /\ UNCHANGED Static
        /\ UNCHANGED <<seenPaths, found, scanErrors, missing, walked, toMatch, moves>>
    BY DEF FirstRows, Static
  <1>4. \/ full /\ scanStep' = "walk" /\ stack' = {Root} /\ seenDirs' = {Root} /\ toName' = {}
        \/ ~full /\ scanStep' = "targets" /\ stack' = {} /\ seenDirs' = {} /\ toName' = named
    BY <1>1 DEF FirstRows, Fresh
  <1>5. In = {p \in DOMAIN fileRows : fileRows[p].is = "file" /\ Allowed(p)}
    BY DEF Allowed, Open
  <1> HIDE DEF In
  <1>6. DOMAIN fileRows' = In /\ \A p \in In : fileRows'[p] = RowOf(fileRows, p)
    BY <1>3
  <1>7. S \subseteq AnyPath /\ \A p \in S : Path(p)
    BY <1>2 DEF ChangedSince, ATree, Path
  <1>8. ~full => named \subseteq S /\ \A p \in S : Covered(p)
    <2> SUFFICES ASSUME ~full PROVE named \subseteq S /\ \A p \in S : Covered(p)
      OBVIOUS
    <2>1. named \in {S, Topmost(S)}
      BY <1>1 DEF Names
    <2> HIDE DEF S
    <2>2. CASE named = S
      BY <2>2 DEF Covered
    <2>3. CASE named = Topmost(S)
      <3>1. named \subseteq S
        BY <2>3 DEF Topmost
      <3>2. \A p \in S : \E d \in Topmost(S) : d = p \/ Below(p, d)
        BY <1>7, TopmostCovers
      <3> QED BY <2>3, <3>1, <3>2 DEF Covered
    <2> QED BY <2>1, <2>2, <2>3
  <1>9. ASSUME ~full, NEW p \in Admitted \cup In, ~Covered(p)
        PROVE  p \in Admitted /\ p \in In /\ RowOf(fileRows, p) = RowOf(tree, p)
    <2>1. p \notin S
      BY <1>8, <1>9
    <2>2. p \in DOMAIN fileRows \cup DOMAIN tree
      BY <1>5, <1>9, AdmittedIs
    <2>3. p \in DOMAIN fileRows /\ p \in DOMAIN tree /\ fileRows[p] = tree[p]
      BY <2>1, <2>2 DEF ChangedSince
    <2>4. tree[p].is = "file" /\ Allowed(p)
      BY <1>5, <1>9, <2>3, AdmittedIs
    <2> QED BY <1>5, <2>3, <2>4, AdmittedIs DEF RowOf
  <1>10. PickInv'
    BY <1>1, <1>3, <1>4 DEF PickInv, Static, ScanSteps, Fresh
  <1>11. RowsInv'
    <2>1. ATree(tree)' /\ (full' => named' = {Root})
      BY <1>1, <1>2, <1>3, Frozen DEF Static
    <2>2. \A p \in In : Path(p) /\ Allowed(p)
      BY <1>2, <1>5 DEF ATree
    <2>3. ~full => \A c \in named : Path(c)
      BY <1>7, <1>8
    <2>4. Admitted' = Admitted /\ full' = full /\ named' = named
      BY <1>3, Frozen DEF Static
    <2>5. \A p : (Covered(p)' <=> Covered(p)) /\ RowOf(tree, p)' = RowOf(tree, p)
                 /\ (Allowed(p)' <=> Allowed(p))
      BY <1>3, Frozen
    <2>6. \A p \in DOMAIN fileRows' : Path(p) /\ Allowed(p)'
      BY <1>6, <2>2, <2>5
    <2>7. ~full' => \A c \in named' : Path(c)
      BY <2>3, <2>4
    <2>8. ~full' => \A p \in Admitted' \cup DOMAIN fileRows' :
             Covered(p)' \/ /\ p \in Admitted' /\ p \in DOMAIN fileRows'
                            /\ fileRows'[p] = RowOf(tree, p)'
      BY <1>6, <1>9, <2>4, <2>5
    <2> QED BY <2>1, <2>6, <2>7, <2>8 DEF RowsInv, Path
  <1>12. DirsInv'
    <2>1. Root \in AnyPath /\ IsA(Root, "dir")'
      BY EmptySeq DEF Root, AnyPath, IsA
    <2> QED BY <1>1, <1>3, <1>4, <2>1 DEF DirsInv, Static, Fresh, Busy
  <1>13. PathsInv'
    BY <1>1, <1>3, <1>4 DEF PathsInv, Static, Fresh, Busy
  <1>14. WholeInv'
    BY <1>1, <1>3, <1>4 DEF WholeInv, Fresh
  <1>15. PlainInv'
    BY <1>1, <1>3, <1>4 DEF PlainInv, Fresh, Entered
  <1>16. MovesInv' /\ ScanRight'
    BY <1>1, <1>3, <1>4 DEF MovesInv, ScanRight, Fresh, Busy, EmptyTree
  <1> QED BY <1>10, <1>11, <1>12, <1>13, <1>14, <1>15, <1>16 DEF ScanInv

(* Which kind a path is decides how a rule applies to it.                    *)
LEMMA IgnoredAs ==
  ASSUME NEW e, NEW q
  PROVE  /\ IsA(q, "dir") => (IsIgnored(e, IsA(q, "dir")) <=> IsIgnored(e, TRUE))
         /\ ~IsA(q, "dir") => (IsIgnored(e, IsA(q, "dir")) <=> IsIgnored(e, FALSE))
  BY DEF IsIgnored, PatternHits

(* What is listed in a directory.                                            *)
LEMMA EntryIs ==
  ASSUME ATree(tree), NEW d \in AnyPath, NEW e \in Entries(d)
  PROVE  /\ e \in DOMAIN tree /\ Path(e) /\ e \in AnyPath
         /\ Len(e) = Len(d) + 1 /\ Below(e, d)
         /\ tree[e].is \in {"file", "dir", "link"}
         /\ tree[e].is # "link" => Resolved(e) = e /\ Inside(e)
  <1>1. e \in DOMAIN tree /\ Len(e) = Len(d) + 1 /\ Below(e, d)
    BY DEF Entries
  <1>2. Path(e) /\ tree[e].is \in {"file", "dir", "link"}
    BY <1>1 DEF ATree
  <1>3. tree[e].is # "link" => Resolved(e) = e
    BY <1>1, NoLinkIn DEF Resolved
  <1> QED BY <1>1, <1>2, <1>3 DEF Path, Inside

(* Listing a directory finds its files and comes to its directories.         *)
LEMMA ListKeeps ==
  ASSUME ScanInv, scanStep \in {"walk", "targets"}, NEW d \in stack, List(d),
         UNCHANGED <<scanStep, tree, rules, follow, named, full, toName, missing,
                     walked, fileRows, toMatch, moves>>
  PROVE  ScanInv'
  <1> DEFINE reached == {Resolved(p) : p \in Candidates(d)}
             dirs    == {p \in reached : IsA(p, "dir")} \ seenDirs
             files   == {p \in reached : ~IsA(p, "dir")} \ seenPaths
  <1>1. /\ PickInv /\ RowsInv /\ DirsInv /\ PathsInv /\ WholeInv /\ PlainInv /\ MovesInv
        /\ scanStep \in Busy /\ scanStep' = scanStep /\ UNCHANGED Static
        /\ ATree(tree) /\ d \in AnyPath /\ IsA(d, "dir") /\ d \in seenDirs
    BY DEF ScanInv, Busy, Static, RowsInv, DirsInv
  <1>2. /\ stack' = (stack \ {d}) \cup dirs
        /\ seenDirs' = seenDirs \cup dirs
        /\ seenPaths' = seenPaths \cup files
        /\ found' = found \cup {p \in files : Stated(p)}
        /\ scanErrors' = (scanErrors \/ \E p \in files : ~Stated(p))
    BY DEF List
  <1>3. \A e \in Candidates(d) : e \in Entries(d) /\ Resolved(e) \in AnyPath
    <2>1. \A e \in Candidates(d) : e \in Entries(d)
      BY DEF Candidates
    <2> QED BY <1>1, <2>1, EntryIs, ResolvedIsPath
  <1>4. \A p \in reached : p \in AnyPath
    BY <1>3
  <1>5. ASSUME NEW e \in Entries(d), tree[e].is # "link", ~IsIgnored(e, IsA(e, "dir"))
        PROVE  e \in reached
    <2>1. Resolved(e) = e /\ Inside(e)
      BY <1>1, <1>5, EntryIs
    <2>2. e \in Candidates(d)
      BY <1>5, <2>1 DEF Candidates
    <2> QED BY <2>1, <2>2
  <1>6. ASSUME ~follow, NEW p \in reached
        PROVE  /\ p \in Entries(d) /\ p \in DOMAIN tree /\ tree[p].is \in {"file", "dir"}
               /\ ~IsIgnored(p, IsA(p, "dir"))
    <2>1. PICK e \in Candidates(d) : p = Resolved(e)
      OBVIOUS
    <2>2. e \in Entries(d) /\ tree[e].is # "link" /\ ~IsIgnored(e, IsA(Resolved(e), "dir"))
      BY <1>6 DEF Candidates
    <2>3. Resolved(e) = e /\ e \in DOMAIN tree /\ tree[e].is \in {"file", "dir"}
      BY <1>1, <2>2, EntryIs
    <2> QED BY <2>1, <2>2, <2>3
  <1> HIDE DEF reached
  <1>7. PickInv'
    BY <1>1, <1>2 DEF PickInv, Busy, Static, ScanSteps
  <1>8. RowsInv'
    BY <1>1, RowsFrozen
  <1>9. DirsInv'
    <2>1. \A p : IsA(p, "dir")' <=> IsA(p, "dir")
      BY <1>1, Frozen
    <2> QED BY <1>1, <1>2, <1>4, <2>1 DEF DirsInv, Static
  <1>10. PathsInv'
    <2>1. \A p : /\ IsA(p, "dir")' <=> IsA(p, "dir")
                 /\ Stated(p)' <=> Stated(p)
                 /\ IsIgnored(p, TRUE)' <=> IsIgnored(p, TRUE)
                 /\ IsIgnored(p, FALSE)' <=> IsIgnored(p, FALSE)
                 /\ Inside(Resolved(p))' <=> Inside(Resolved(p))
                 /\ Resolved(p)' = Resolved(p)
      BY <1>1, Frozen
    <2>2. (\A p \in found : Stated(p))'
      BY <1>1, <1>2, <2>1 DEF PathsInv
    <2>3. (\A p \in missing : ~IsA(p, "dir") /\ ~Stated(p))'
      BY <1>1, <2>1 DEF PathsInv
    <2>4. ASSUME NEW p \in seenPaths'
          PROVE  /\ Stated(p) /\ ~IsIgnored(p, FALSE) => p \in found'
                 /\ IsA(p, "dir") => p \in walked \/ (p # Root /\ IsIgnored(p, TRUE))
                 /\ ~IsA(p, "dir") /\ ~Stated(p) => p \in missing \/ scanErrors'
      <3>1. CASE p \in seenPaths
        BY <1>1, <1>2, <3>1 DEF PathsInv
      <3>2. CASE p \in files
        BY <1>2, <3>2
      <3> QED BY <1>2, <2>4, <3>1, <3>2
    <2>5. \A c : Looked(c) => Looked(c)'
      BY <1>1, <1>2, <2>1 DEF Looked, Static
    <2>6. full' = full /\ named' = named /\ toName' = toName /\ walked' = walked
          /\ missing' = missing
      BY <1>1 DEF Static
    <2>7. (~full => \A c \in named \ toName : Looked(c))'
      <3>1. ~full => \A c \in named \ toName : Looked(c)
        BY <1>1 DEF PathsInv
      <3> QED BY <2>5, <2>6, <3>1
    <2>8. (\A p \in seenPaths :
              /\ Stated(p) /\ ~IsIgnored(p, FALSE) => p \in found
              /\ IsA(p, "dir") => p \in walked \/ (p # Root /\ IsIgnored(p, TRUE))
              /\ ~IsA(p, "dir") /\ ~Stated(p) => p \in missing \/ scanErrors)'
      BY <2>1, <2>4, <2>6
    <2> QED BY <2>2, <2>3, <2>7, <2>8 DEF PathsInv
  <1>11. \A x \in seenDirs : Listed(x) => Listed(x)'
    <2>1. \A p : Entries(p)' = Entries(p) /\ (IsIgnored(p, TRUE)' <=> IsIgnored(p, TRUE))
      BY <1>1, Frozen
    <2>2. Admitted' = Admitted /\ tree' = tree
      BY <1>1, Frozen DEF Static
    <2> QED BY <1>2, <2>1, <2>2 DEF Listed
  <1>12. WholeInv'
    <2> SUFFICES ASSUME Readable' PROVE
          /\ \A x \in seenDirs' \ stack' : Listed(x)'
          /\ \A x \in walked' : x \in seenDirs' \/ Complete(x)'
          /\ ~follow' => ~scanErrors'
      BY DEF WholeInv
    <2>1. Readable /\ Admitted' = Admitted /\ tree' = tree /\ follow' = follow
      BY <1>1, Frozen DEF Static
    <2>2. Listed(d)'
      <3>1. ASSUME NEW e \in Entries(d), tree[e].is = "dir", ~IsIgnored(e, TRUE)
            PROVE  e \in seenDirs'
        <4>1. e \in AnyPath /\ e \in DOMAIN tree
          BY <1>1, EntryIs
        <4>2. IsA(e, "dir")
          BY <1>1, <3>1, <4>1, NotBoth
        <4>3. e \in reached
          BY <1>5, <3>1, <4>2, IgnoredAs
        <4> QED BY <1>2, <4>2, <4>3
      <3>2. ASSUME NEW e \in Entries(d), e \in Admitted PROVE e \in found'
        <4>1. e \in AnyPath /\ e \in DOMAIN tree
          BY <1>1, EntryIs
        <4>2. tree[e].is = "file" /\ ~IsIgnored(e, FALSE)
          BY <3>2, AdmittedIs DEF Allowed
        <4>3. Stated(e)
          BY <2>1, <4>1, <4>2 DEF Readable, Stated
        <4>4. ~IsA(e, "dir")
          BY <1>1, <4>1, <4>3, NotBoth
        <4>5. e \in reached
          BY <1>5, <4>2, <4>4, IgnoredAs
        <4>6. CASE e \in seenPaths
          BY <1>1, <1>2, <4>2, <4>3, <4>6 DEF PathsInv
        <4>7. CASE e \notin seenPaths
          BY <1>2, <4>3, <4>4, <4>5, <4>7
        <4> QED BY <4>6, <4>7
      <3>3. Entries(d)' = Entries(d) /\ \A p : IsIgnored(p, TRUE)' <=> IsIgnored(p, TRUE)
        BY <1>1, Frozen
      <3> QED BY <2>1, <3>1, <3>2, <3>3 DEF Listed
    <2>3. \A x \in seenDirs' \ stack' : Listed(x)'
      <3>1. \A x \in seenDirs' \ stack' : x = d \/ x \in seenDirs \ stack
        BY <1>1, <1>2
      <3>2. \A x \in seenDirs \ stack : Listed(x)
        BY <1>1, <2>1 DEF WholeInv
      <3> QED BY <1>11, <2>2, <3>1, <3>2
    <2>4. \A x \in walked' : x \in seenDirs' \/ Complete(x)'
      BY <1>1, <1>2, <2>1 DEF WholeInv, Complete
    <2>5. ~follow' => ~scanErrors'
      <3> SUFFICES ASSUME ~follow PROVE ~\E p \in files : ~Stated(p)
        <4>1. ~follow => ~scanErrors
          BY <1>1, <2>1 DEF WholeInv
        <4>2. scanErrors' => scanErrors \/ \E p \in files : ~Stated(p)
          <5>1. scanErrors' = (scanErrors \/ \E p \in files : ~Stated(p))
            BY <1>2
          <5> HIDE DEF files
          <5> QED BY <5>1
        <4>3. follow' = follow
          BY <2>1
        <4> HIDE DEF files
        <4> QED BY <4>1, <4>2, <4>3
      <3> SUFFICES ASSUME NEW p \in files, ~Stated(p) PROVE FALSE
        OBVIOUS
      <3>1. p \in DOMAIN tree /\ tree[p].is \in {"file", "dir"} /\ p \in AnyPath
        BY <1>4, <1>6
      <3>2. tree[p].is # "dir"
        BY <1>1, <3>1, NotBoth
      <3> QED BY <2>1, <3>1, <3>2 DEF Readable, Stated
    <2> QED BY <2>3, <2>4, <2>5
  <1>13. PlainInv'
    <2> SUFFICES ASSUME ~follow', ~NamedInIgnored'
                 PROVE  found' \subseteq Admitted' /\ \A x \in seenDirs' : Entered(x)'
      BY DEF PlainInv
    <2>1. /\ ~follow /\ ~NamedInIgnored /\ Admitted' = Admitted
          /\ \A p : Entered(p)' <=> Entered(p)
      <3>1. follow' = follow
        BY <1>1 DEF Static
      <3>2. (NamedInIgnored' <=> NamedInIgnored) /\ Admitted' = Admitted
            /\ \A p : Entered(p)' <=> Entered(p)
        BY <1>1, Frozen
      <3> QED BY <3>1, <3>2
    <2>2. found \subseteq Admitted /\ \A x \in seenDirs : Entered(x)
      BY <1>1, <2>1 DEF PlainInv
    <2>3. ASSUME NEW p \in reached PROVE Open(p) /\ p \in AnyPath /\ p \in DOMAIN tree
      <3>1. p \in Entries(d)
        BY <1>6, <2>1, <2>3
      <3> QED BY <1>1, <2>2, <3>1, EntryIs, OpenEntry
    <2>4. ASSUME NEW p \in files, Stated(p) PROVE p \in Admitted
      <3>1. ~IsIgnored(p, FALSE)
        BY <1>6, <2>1, <2>4, IgnoredAs
      <3>2. Open(p) /\ p \in DOMAIN tree
        BY <2>3, <2>4
      <3> QED BY <2>4, <3>1, <3>2, AdmittedIs DEF Allowed, Stated
    <2>5. ASSUME NEW p \in dirs PROVE Entered(p)
      <3>1. ~IsIgnored(p, TRUE)
        BY <1>6, <2>1, <2>5, IgnoredAs
      <3> QED BY <2>3, <2>5, <3>1 DEF Entered
    <2>6. \A x \in seenDirs' : Entered(x)'
      BY <1>2, <2>1, <2>2, <2>5
    <2>7. found' \subseteq Admitted'
      BY <1>2, <2>1, <2>2, <2>4
    <2> QED BY <2>6, <2>7
  <1>14. MovesInv' /\ ScanRight'
    BY <1>1 DEF MovesInv, ScanRight, Busy
  <1> QED BY <1>7, <1>8, <1>9, <1>10, <1>12, <1>13, <1>14 DEF ScanInv

(* A directory that cannot be listed is an error, and the tree not readable. *)
LEMMA FailKeeps ==
  ASSUME ScanInv, scanStep \in {"walk", "targets"}, NEW d \in stack, Unlistable(d), Fail(d),
         UNCHANGED <<scanStep, tree, rules, follow, named, full, toName, missing,
                     walked, fileRows, toMatch, moves>>
  PROVE  ScanInv'
  <1>1. /\ PickInv /\ RowsInv /\ DirsInv /\ PathsInv /\ WholeInv /\ PlainInv /\ MovesInv
        /\ scanStep \in Busy /\ scanStep' = scanStep /\ UNCHANGED Static
        /\ ATree(tree) /\ d \in AnyPath /\ IsA(d, "dir")
    BY DEF ScanInv, Busy, Static, RowsInv, DirsInv
  <1>2. /\ scanErrors' = TRUE /\ stack' = stack \ {d}
        /\ UNCHANGED <<seenDirs, seenPaths, found>>
    BY DEF Fail
  <1>3. ~Readable
    BY <1>1, NotBoth DEF Readable, Unlistable
  <1>4. PickInv'
    BY <1>1, <1>2 DEF PickInv, Busy, Static, ScanSteps
  <1>5. RowsInv'
    BY <1>1, RowsFrozen
  <1>6. DirsInv'
    <2>1. \A p : IsA(p, "dir")' <=> IsA(p, "dir")
      BY <1>1, Frozen
    <2> QED BY <1>1, <1>2, <2>1 DEF DirsInv, Static
  <1>7. PathsInv'
    <2>1. \A p : /\ IsA(p, "dir")' <=> IsA(p, "dir")
                 /\ Stated(p)' <=> Stated(p)
                 /\ IsIgnored(p, TRUE)' <=> IsIgnored(p, TRUE)
                 /\ IsIgnored(p, FALSE)' <=> IsIgnored(p, FALSE)
                 /\ Inside(Resolved(p))' <=> Inside(Resolved(p))
                 /\ Resolved(p)' = Resolved(p)
      BY <1>1, Frozen
    <2>2. \A c : Looked(c) => Looked(c)'
      BY <1>1, <1>2, <2>1 DEF Looked, Static
    <2>3. full' = full /\ named' = named /\ toName' = toName /\ walked' = walked
          /\ missing' = missing
      BY <1>1 DEF Static
    <2>4. (~full => \A c \in named \ toName : Looked(c))'
      <3>1. ~full => \A c \in named \ toName : Looked(c)
        BY <1>1 DEF PathsInv
      <3> QED BY <2>2, <2>3, <3>1
    <2>5. (/\ \A p \in found : Stated(p)
           /\ \A p \in missing : ~IsA(p, "dir") /\ ~Stated(p))'
      BY <1>1, <1>2, <2>1, <2>3 DEF PathsInv
    <2>6. (\A p \in seenPaths :
              /\ Stated(p) /\ ~IsIgnored(p, FALSE) => p \in found
              /\ IsA(p, "dir") => p \in walked \/ (p # Root /\ IsIgnored(p, TRUE))
              /\ ~IsA(p, "dir") /\ ~Stated(p) => p \in missing \/ scanErrors)'
      BY <1>1, <1>2, <2>1, <2>3 DEF PathsInv
    <2> QED BY <2>4, <2>5, <2>6 DEF PathsInv
  <1>8. WholeInv'
    BY <1>1, <1>3, Frozen DEF WholeInv
  <1>9. PlainInv'
    <2>1. /\ Admitted' = Admitted /\ (NamedInIgnored' <=> NamedInIgnored)
          /\ \A p : Entered(p)' <=> Entered(p)
      BY <1>1, Frozen
    <2> QED BY <1>1, <1>2, <2>1 DEF PlainInv, Static
  <1>10. MovesInv' /\ ScanRight'
    BY <1>1 DEF MovesInv, ScanRight, Busy
  <1> QED BY <1>4, <1>5, <1>6, <1>7, <1>8, <1>9, <1>10 DEF ScanInv

(* A named path: what it is decides what is noted of it.                     *)
LEMMA TargetKeeps ==
  ASSUME ScanInv, NEW c \in toName, Target(c)
  PROVE  ScanInv'
  <1> DEFINE p    == Resolved(c)
             skip == (c \in DOMAIN tree /\ tree[c].is = "link" /\ ~follow)
                     \/ ~Inside(p) \/ p \in seenPaths
             dir  == IsA(p, "dir")
             goes == ~skip /\ dir /\ (p = Root \/ ~IsIgnored(p, TRUE))
             here == ~skip /\ Stated(p) /\ ~IsIgnored(p, FALSE)
             gone == ~skip /\ ~dir /\ ~Stated(p)
  <1>1. /\ PickInv /\ RowsInv /\ DirsInv /\ PathsInv /\ WholeInv /\ PlainInv /\ MovesInv
        /\ scanStep = "targets" /\ scanStep' = "targets" /\ UNCHANGED Static
        /\ stack = {} /\ toName' = toName \ {c} /\ ~full
        /\ UNCHANGED <<scanErrors, fileRows, toMatch, moves>>
    BY DEF ScanInv, Target, Static, DirsInv, Busy
  <1>2. /\ seenPaths' = IF skip THEN seenPaths ELSE seenPaths \cup {p}
        /\ missing' = IF gone THEN missing \cup {p} ELSE missing
        /\ \/ goes /\ walked' = walked \cup {p} /\ stack' = {p} /\ seenDirs' = {p}
           \/ ~goes /\ walked' = walked /\ stack' = stack /\ seenDirs' = seenDirs
        /\ found' = IF here THEN found \cup {p} ELSE found
    BY DEF Target
  <1>3. /\ ATree(tree) /\ c \in named /\ c \in AnyPath /\ p \in AnyPath
        /\ scanStep \in Busy /\ scanStep' \in Busy
    <2>1. ATree(tree) /\ c \in named /\ c \in AnyPath
      BY <1>1 DEF RowsInv, DirsInv, Busy, Path
    <2> QED BY <1>1, <2>1, ResolvedIsPath DEF Busy
  <1>4. /\ dir => ~Stated(p)
    BY <1>3, NotBoth
  <1>5. c \in DOMAIN tree /\ tree[c].is = "link" /\ ~follow => skip
    OBVIOUS
  <1>6. skip => Looked(c)
    BY DEF Looked
  <1>7. PickInv'
    BY <1>1 DEF PickInv, Static, ScanSteps
  <1>8. RowsInv'
    BY <1>1, <1>3, RowsFrozen
  <1>9. \A x : /\ IsA(x, "dir")' <=> IsA(x, "dir")
               /\ Stated(x)' <=> Stated(x)
               /\ IsIgnored(x, TRUE)' <=> IsIgnored(x, TRUE)
               /\ IsIgnored(x, FALSE)' <=> IsIgnored(x, FALSE)
               /\ Inside(Resolved(x))' <=> Inside(Resolved(x))
               /\ Resolved(x)' = Resolved(x)
               /\ Entries(x)' = Entries(x)
               /\ Entered(x)' <=> Entered(x)
    BY <1>1, Frozen
  <1>10. /\ tree' = tree /\ follow' = follow /\ named' = named /\ full' = full
         /\ Admitted' = Admitted /\ (Readable' <=> Readable)
         /\ (NamedInIgnored' <=> NamedInIgnored)
    BY <1>1, Frozen DEF Static
  <1>11. \A d \in walked \cup seenDirs : d \in AnyPath /\ IsA(d, "dir")
    BY <1>1, <1>3 DEF DirsInv
  <1>12. found \subseteq found' /\ seenPaths \subseteq seenPaths' /\ walked \subseteq walked'
         /\ missing \subseteq missing'
    BY <1>2
  <1>13. ASSUME NEW x PROVE Looked(x) => Looked(x)'
    BY <1>9, <1>10, <1>12 DEF Looked
  <1>14. Looked(c)'
    <2>1. CASE skip
      BY <1>6, <1>13, <2>1
    <2>2. CASE ~skip
      BY <1>2, <1>9, <2>2 DEF Looked
    <2> QED BY <2>1, <2>2
  <1>15. \A x \in seenPaths' : x \in seenPaths \/ (x = p /\ ~skip)
    BY <1>2
  <1>16. \A x \in found' : x \in found \/ (x = p /\ here)
    BY <1>2
  <1>17. \A x \in missing' : x \in missing \/ (x = p /\ gone)
    BY <1>2
  <1>18. /\ here => p \in found'
         /\ gone => p \in missing'
         /\ goes => p \in walked' /\ p \in seenDirs' /\ seenDirs' = stack'
         /\ ~goes => seenDirs' = seenDirs /\ walked' = walked /\ stack' = {}
    BY <1>1, <1>2
  <1>19. \A x \in walked' : x \in walked \/ (x = p /\ goes)
    BY <1>2
  <1>20. \A x \in seenDirs' : (~goes /\ x \in seenDirs) \/ (x = p /\ goes)
    BY <1>2
  <1>21. /\ goes => dir /\ (p = Root \/ ~IsIgnored(p, TRUE))
         /\ here => Stated(p) /\ ~IsIgnored(p, FALSE)
         /\ gone => ~dir /\ ~Stated(p)
         /\ ~skip => (dir => goes \/ (p # Root /\ IsIgnored(p, TRUE)))
                     /\ (Stated(p) /\ ~IsIgnored(p, FALSE) => here)
                     /\ (~dir /\ ~Stated(p) => gone)
    OBVIOUS
  <1> HIDE DEF skip, goes, here, gone
  <1>22. DirsInv'
    <2>1. stack' \subseteq seenDirs'
      BY <1>18
    <2>2. \A d \in seenDirs' \cup walked' : d \in AnyPath /\ IsA(d, "dir")'
      BY <1>3, <1>9, <1>11, <1>19, <1>20, <1>21
    <2>3. found' \subseteq AnyPath /\ missing' \subseteq AnyPath
      BY <1>1, <1>3, <1>16, <1>17 DEF DirsInv
    <2>4. toName' \subseteq named' /\ ~full'
      BY <1>1, <1>3, <1>10 DEF DirsInv
    <2> QED BY <1>1, <2>1, <2>2, <2>3, <2>4 DEF DirsInv
  <1>23. PathsInv'
    <2>1. (\A x \in found : Stated(x))'
      BY <1>1, <1>3, <1>9, <1>16, <1>21 DEF PathsInv
    <2>2. (\A x \in missing : ~IsA(x, "dir") /\ ~Stated(x))'
      BY <1>1, <1>3, <1>9, <1>17, <1>21 DEF PathsInv
    <2>3. ASSUME NEW x \in seenPaths'
          PROVE  /\ Stated(x) /\ ~IsIgnored(x, FALSE) => x \in found'
                 /\ IsA(x, "dir") => x \in walked' \/ (x # Root /\ IsIgnored(x, TRUE))
                 /\ ~IsA(x, "dir") /\ ~Stated(x) => x \in missing' \/ scanErrors'
      <3>1. CASE x \in seenPaths
        <4>1. /\ Stated(x) /\ ~IsIgnored(x, FALSE) => x \in found
              /\ IsA(x, "dir") => x \in walked \/ (x # Root /\ IsIgnored(x, TRUE))
              /\ ~IsA(x, "dir") /\ ~Stated(x) => x \in missing \/ scanErrors
          BY <1>1, <1>3, <3>1 DEF PathsInv
        <4> QED BY <1>1, <1>12, <4>1
      <3>2. CASE x = p /\ ~skip
        BY <1>18, <1>21, <3>2
      <3> QED BY <1>15, <3>1, <3>2
    <2>4. (\A x \in seenPaths :
              /\ Stated(x) /\ ~IsIgnored(x, FALSE) => x \in found
              /\ IsA(x, "dir") => x \in walked \/ (x # Root /\ IsIgnored(x, TRUE))
              /\ ~IsA(x, "dir") /\ ~Stated(x) => x \in missing \/ scanErrors)'
      BY <1>9, <2>3
    <2>5. \A x \in named \ toName : Looked(x)
      BY <1>1, <1>3 DEF PathsInv
    <2>6. \A x \in named' \ toName' : Looked(x)'
      BY <1>1, <1>10, <1>13, <1>14, <2>5
    <2>7. (~full => \A x \in named \ toName : Looked(x))'
      BY <2>6
    <2> QED BY <2>1, <2>2, <2>4, <2>7 DEF PathsInv
  <1>24. WholeInv'
    <2> SUFFICES ASSUME Readable PROVE
          /\ \A x \in seenDirs' \ stack' : Listed(x)'
          /\ \A x \in walked' : x \in seenDirs' \/ Complete(x)'
          /\ ~follow' => ~scanErrors'
      BY <1>10 DEF WholeInv
    <2>1. /\ \A x \in seenDirs : Listed(x)
          /\ \A x \in walked : x \in seenDirs \/ Complete(x)
          /\ ~follow => ~scanErrors
      BY <1>1, <1>3 DEF WholeInv
    <2>2. ASSUME NEW x \in walked PROVE Complete(x)
      BY <1>3, <1>11, <2>1, <2>2, ListedIsComplete
    <2>3. ASSUME NEW x \in seenDirs' \ stack' PROVE Listed(x)'
      <3>1. x \in seenDirs /\ ~goes /\ seenDirs' = seenDirs
        BY <1>18, <1>20, <2>3
      <3>2. Listed(x)
        BY <2>1, <3>1
      <3> QED BY <1>9, <1>10, <1>12, <3>1, <3>2 DEF Listed
    <2>4. ASSUME NEW x \in walked' PROVE x \in seenDirs' \/ Complete(x)'
      <3>1. CASE x \in walked
        BY <1>10, <1>12, <2>2, <3>1 DEF Complete
      <3>2. CASE x = p /\ goes
        BY <1>18, <3>2
      <3> QED BY <1>19, <3>1, <3>2
    <2> QED BY <1>1, <1>10, <2>1, <2>3, <2>4
  <1>25. PlainInv'
    <2> SUFFICES ASSUME ~follow, ~NamedInIgnored
                 PROVE  found' \subseteq Admitted /\ \A x \in seenDirs' : Entered(x)
      BY <1>9, <1>10 DEF PlainInv
    <2>1. found \subseteq Admitted /\ \A x \in seenDirs : Entered(x)
      BY <1>1, <1>3 DEF PlainInv
    <2>2. Open(p)
      BY <1>3 DEF NamedInIgnored, Open
    <2>3. here => p \in Admitted
      <3>1. here => Stated(p) /\ Allowed(p)
        BY <1>21, <2>2 DEF Allowed
      <3> QED BY <3>1, AdmittedIs DEF Stated
    <2>4. goes => Entered(p)
      BY <1>21, <2>2 DEF Entered
    <2> QED BY <1>16, <1>20, <2>1, <2>3, <2>4
  <1>26. MovesInv' /\ ScanRight'
    BY <1>1, <1>3 DEF MovesInv, ScanRight, Busy
  <1> QED BY <1>7, <1>8, <1>22, <1>23, <1>24, <1>25, <1>26 DEF ScanInv

\* What a scan found.
Outcome == <<stack, seenDirs, seenPaths, found, scanErrors, missing, walked, toName>>

(* The comparison leaves what was scanned, and what is known of it, alone.   *)
LEMMA OutcomeSame ==
  ASSUME ScanInv, scanStep \in Busy, scanStep' \in {scanStep, "moves"},
         UNCHANGED Static, UNCHANGED Outcome, UNCHANGED fileRows
  PROVE  /\ PickInv' /\ RowsInv' /\ DirsInv' /\ PathsInv' /\ WholeInv' /\ PlainInv'
         /\ ScanRight' /\ Base' = Base
  <1>1. /\ PickInv /\ RowsInv /\ DirsInv /\ PathsInv /\ WholeInv /\ PlainInv
        /\ scanStep' \in Busy
    BY DEF ScanInv, Busy
  <1>2. /\ stack' = stack /\ seenDirs' = seenDirs /\ seenPaths' = seenPaths
        /\ found' = found /\ scanErrors' = scanErrors /\ missing' = missing
        /\ walked' = walked /\ toName' = toName
        /\ tree' = tree /\ follow' = follow /\ named' = named /\ full' = full
    BY DEF Outcome, Static
  <1>3. \A x : /\ IsA(x, "dir")' <=> IsA(x, "dir")
               /\ Stated(x)' <=> Stated(x)
               /\ IsIgnored(x, TRUE)' <=> IsIgnored(x, TRUE)
               /\ IsIgnored(x, FALSE)' <=> IsIgnored(x, FALSE)
               /\ Inside(Resolved(x))' <=> Inside(Resolved(x))
               /\ Resolved(x)' = Resolved(x)
               /\ Entries(x)' = Entries(x)
               /\ Entered(x)' <=> Entered(x)
    BY Frozen
  <1>4. /\ Admitted' = Admitted /\ (Readable' <=> Readable)
        /\ (NamedInIgnored' <=> NamedInIgnored)
    BY Frozen
  <1>5. PickInv'
    BY <1>1, <1>2 DEF PickInv, Busy, ScanSteps
  <1>6. RowsInv'
    BY <1>1, RowsFrozen
  <1>7. DirsInv'
    BY <1>1, <1>2, <1>3 DEF DirsInv
  <1>8. PathsInv'
    <2>1. \A c : Looked(c)' <=> Looked(c)
      BY <1>2, <1>3 DEF Looked
    <2>2. (\A p \in found : Stated(p))' /\ (\A p \in missing : ~IsA(p, "dir") /\ ~Stated(p))'
      BY <1>1, <1>2, <1>3 DEF PathsInv
    <2>3. (\A p \in seenPaths :
              /\ Stated(p) /\ ~IsIgnored(p, FALSE) => p \in found
              /\ IsA(p, "dir") => p \in walked \/ (p # Root /\ IsIgnored(p, TRUE))
              /\ ~IsA(p, "dir") /\ ~Stated(p) => p \in missing \/ scanErrors)'
      BY <1>1, <1>2, <1>3 DEF PathsInv
    <2>4. (~full => \A c \in named \ toName : Looked(c))'
      <3>1. ~full => \A c \in named \ toName : Looked(c)
        BY <1>1 DEF PathsInv
      <3> QED BY <1>2, <2>1, <3>1
    <2> QED BY <2>2, <2>3, <2>4 DEF PathsInv
  <1>9. WholeInv'
    <2>1. \A d : (Listed(d)' <=> Listed(d)) /\ (Complete(d)' <=> Complete(d))
      BY <1>2, <1>3, <1>4 DEF Listed, Complete
    <2> QED BY <1>1, <1>2, <1>4, <2>1 DEF WholeInv
  <1>10. PlainInv'
    BY <1>1, <1>2, <1>3, <1>4 DEF PlainInv
  <1>11. Base' = Base
    BY <1>2 DEF Base, Below
  <1>12. ScanRight'
    BY DEF ScanRight, Busy
  <1> QED BY <1>5, <1>6, <1>7, <1>8, <1>9, <1>10, <1>11, <1>12

(* With no directory and no named path left the comparison begins.           *)
LEMMA ScannedKeeps ==
  ASSUME ScanInv, Scanned
  PROVE  ScanInv'
  <1>1. /\ scanStep \in Busy \ {"moves"} /\ scanStep' = "moves" /\ stack = {} /\ toName = {}
        /\ UNCHANGED Static /\ UNCHANGED Outcome /\ fileRows' = fileRows /\ moves' = moves
        /\ toMatch' = IF Base \subseteq found THEN {} ELSE found \ Base
    BY DEF Scanned, Static, Outcome, Busy
  <1>2. moves = EmptyTree
    BY <1>1 DEF ScanInv, MovesInv
  <1>3. /\ PickInv' /\ RowsInv' /\ DirsInv' /\ PathsInv' /\ WholeInv' /\ PlainInv'
        /\ ScanRight' /\ Base' = Base
    BY <1>1, OutcomeSame
  <1>4. DOMAIN moves' = {}
    BY <1>1, <1>2 DEF EmptyTree
  <1>5. stack' = {} /\ toName' = {} /\ found' = found
    BY <1>1 DEF Outcome
  <1>6. MovesInv'
    BY <1>1, <1>4, <1>5 DEF MovesInv
  <1> QED BY <1>3, <1>6 DEF ScanInv

(* A row that was taken is not taken again.                                  *)
LEMMA MatchKeeps ==
  ASSUME ScanInv, NEW p \in toMatch, Match(p)
  PROVE  ScanInv'
  <1>1. /\ scanStep = "moves" /\ scanStep' = "moves"
        /\ UNCHANGED Static /\ UNCHANGED Outcome /\ fileRows' = fileRows
        /\ toMatch' = toMatch \ {p}
    BY DEF Match, Static, Outcome
  <1>2. /\ PickInv' /\ RowsInv' /\ DirsInv' /\ PathsInv' /\ WholeInv' /\ PlainInv'
        /\ ScanRight' /\ Base' = Base
    BY <1>1, OutcomeSame DEF Busy
  <1>3. /\ stack = {} /\ toName = {} /\ toMatch \subseteq found
        /\ DOMAIN moves \subseteq found \ toMatch
        /\ \A x \in DOMAIN moves : moves[x] \in Base \ found
        /\ \A x, y \in DOMAIN moves : moves[x] = moves[y] => x = y
    BY <1>1 DEF ScanInv, MovesInv
  <1>4. stack' = stack /\ toName' = toName /\ found' = found
    BY <1>1 DEF Outcome
  <1>5. /\ DOMAIN moves' \subseteq found' \ toMatch'
        /\ \A x \in DOMAIN moves' : moves'[x] \in Base \ found
        /\ \A x, y \in DOMAIN moves' : moves'[x] = moves'[y] => x = y
    <2>1. CASE moves' = moves
      BY <1>1, <1>3, <1>4, <2>1
    <2>2. CASE MoveOf(p) # {}
      <3>1. PICK q \in MoveOf(p) :
              moves' = [x \in DOMAIN moves \cup {p} |-> IF x = p THEN q ELSE moves[x]]
        BY <2>2 DEF Match
      <3>2. q \in Base \ found /\ \A x \in DOMAIN moves : moves[x] # q
        BY DEF MoveOf, Vanished, Consumed
      <3>3. p \in found /\ p \notin DOMAIN moves
        BY <1>3
      <3> QED BY <1>1, <1>3, <1>4, <3>1, <3>2, <3>3
    <2> QED BY <2>1, <2>2 DEF Match
  <1>6. MovesInv'
    BY <1>1, <1>2, <1>3, <1>4, <1>5 DEF MovesInv
  <1> QED BY <1>2, <1>6 DEF ScanInv

(* An admitted file that the scan did not come to has the right row, and the *)
(* pass leaves it alone.                                                     *)
LEMMA UnseenIsRight ==
  ASSUME ScanInv, scanStep = "moves", Readable, NEW p \in Admitted, p \notin found
  PROVE  ~full /\ p \in DOMAIN fileRows /\ p \notin Base /\ fileRows[p] = RowOf(tree, p)
  <1>1. /\ RowsInv /\ DirsInv /\ PathsInv /\ WholeInv /\ ATree(tree) /\ stack = {} /\ toName = {}
    BY DEF ScanInv, RowsInv, MovesInv, Busy
  <1>2. /\ p \in DOMAIN tree /\ tree[p].is = "file" /\ Allowed(p) /\ p \in AnyPath /\ p # Root
        /\ Stated(p)
    <2>1. p \in DOMAIN tree /\ tree[p].is = "file" /\ Allowed(p)
      BY AdmittedIs
    <2> QED BY <1>1, <2>1 DEF ATree, Path, Stated, Readable
  <1>3. \A d \in seenDirs : d \in AnyPath /\ Listed(d)
    BY <1>1 DEF DirsInv, WholeInv, Busy
  <1>4. \A d \in seenDirs \cup walked : Complete(d)
    <2>1. \A d \in seenDirs : Complete(d)
      BY <1>1, <1>3, ListedIsComplete
    <2> QED BY <1>1, <2>1 DEF WholeInv, Busy
  <1>5. ~full
    <2> SUFFICES ASSUME full PROVE FALSE
      OBVIOUS
    <2>1. Complete(Root)
      BY <1>1, <1>4 DEF DirsInv, Busy
    <2>2. Below(p, Root)
      <3>1. Len(p) \in Nat \ {0}
        BY <1>2, EmptySeq DEF AnyPath, Root
      <3>2. SubSeq(p, 1, 0) = Root
        BY <1>2, <3>1, PrefixIsPath
      <3>3. Len(Root) = 0
        BY EmptySeq DEF Root
      <3> QED BY <3>1, <3>2, <3>3 DEF Below
    <2> QED BY <2>1, <2>2 DEF Complete
  <1>6. ASSUME NEW d \in walked PROVE ~Below(p, d)
    BY <1>4, <1>6 DEF Complete
  <1>7. ~Covered(p)
    <2> SUFFICES ASSUME NEW c \in named, c = p \/ Below(p, c) PROVE FALSE
      BY DEF Covered
    <2>1. Path(c) /\ Looked(c) /\ c \in AnyPath
      BY <1>1, <1>5 DEF RowsInv, PathsInv, Busy, Path
    <2>2. LinkIn(c) = {}
      BY <1>1, <1>2, <2>1, NoLinkIn, NoLinkAbove
    <2>3. Resolved(c) = c /\ Inside(c)
      BY <2>1, <2>2 DEF Resolved, Inside, Path
    <2>4. ~(c \in DOMAIN tree /\ tree[c].is = "link")
      BY <2>2 DEF LinkIn
    <2>5. c \in seenPaths
      BY <2>1, <2>3, <2>4 DEF Looked
    <2>6. CASE c = p
      BY <1>1, <1>2, <2>5, <2>6 DEF PathsInv, Busy, Allowed
    <2>7. CASE Below(p, c)
      <3>1. IsA(c, "dir") /\ Entered(c) /\ c # Root
        BY <1>1, <1>2, <2>1, <2>7, AboveIsDir, OpenAbove DEF Allowed, Path
      <3>2. c \in walked
        BY <1>1, <2>5, <3>1 DEF PathsInv, Busy, Entered
      <3> QED BY <1>6, <2>7, <3>2
    <2> QED BY <2>6, <2>7
  <1>8. p \in DOMAIN fileRows /\ fileRows[p] = RowOf(tree, p)
    BY <1>1, <1>5, <1>7 DEF RowsInv, Busy
  <1>9. p \notin missing /\ \A d \in missing : ~Below(p, d)
    <2>1. \A d \in missing : ~IsA(d, "dir") /\ ~Stated(d) /\ d \in AnyPath
      BY <1>1 DEF PathsInv, DirsInv, Busy
    <2> QED BY <1>1, <1>2, <2>1, AboveIsDir
  <1>10. p \notin Base
    BY <1>5, <1>6, <1>9 DEF Base
  <1> QED BY <1>5, <1>8, <1>10

(* A row that no admitted file has any more is in the scope of the pass, but *)
(* for what Replaced names.                                                  *)
LEMMA StaleIsInScope ==
  ASSUME ScanInv, scanStep = "moves", Readable, ~follow,
         NEW p \in DOMAIN fileRows, p \notin Base
  PROVE  p \in Admitted \/ (~full /\ Replaced(p))
  <1>1. /\ RowsInv /\ DirsInv /\ PathsInv /\ WholeInv /\ ATree(tree) /\ stack = {} /\ toName = {}
    BY DEF ScanInv, RowsInv, MovesInv, Busy
  <1>2. Path(p) /\ Allowed(p) /\ p \in AnyPath
    BY <1>1 DEF RowsInv, Busy, Path
  <1>3. ~full
    BY DEF Base
  <1>4. p \notin found /\ p \notin missing /\ \A d \in missing \cup walked : ~Below(p, d)
    BY <1>3 DEF Base
  <1>5. SUFFICES ASSUME p \notin Admitted, LinkIn(p) = {}, ~IsA(p, "dir") PROVE Replaced(p)
    BY <1>3 DEF Replaced
  <1>6. Covered(p)
    BY <1>1, <1>3, <1>5 DEF RowsInv, Busy
  <1>7. PICK c \in named : c = p \/ Below(p, c)
    BY <1>6 DEF Covered
  <1>8. Path(c) /\ Looked(c) /\ c \in AnyPath
    BY <1>1, <1>3 DEF RowsInv, PathsInv, Busy, Path
  <1>9. LinkIn(c) = {}
    <2> SUFFICES ASSUME NEW q \in LinkIn(c) PROVE FALSE
      OBVIOUS
    <2>1. q \in DOMAIN tree /\ tree[q].is = "link" /\ (q = c \/ Below(c, q)) /\ q \in AnyPath
      BY <1>1 DEF LinkIn, ATree, Path
    <2>2. q = p \/ Below(p, q)
      BY <1>2, <1>7, <1>8, <2>1, BelowTrans
    <2> QED BY <1>5, <2>1, <2>2 DEF LinkIn
  <1>10. c \in seenPaths
    <2>1. Resolved(c) = c /\ Inside(c)
      BY <1>8, <1>9 DEF Resolved, Inside, Path
    <2>2. ~(c \in DOMAIN tree /\ tree[c].is = "link")
      BY <1>9 DEF LinkIn
    <2> QED BY <1>8, <2>1, <2>2 DEF Looked
  <1>11. CASE IsA(c, "dir")
    <2>1. Below(p, c)
      BY <1>5, <1>7, <1>11
    <2>2. Entered(c) /\ c # Root
      BY <1>2, <1>8, <2>1, OpenAbove DEF Allowed, Path
    <2>3. c \in walked
      BY <1>1, <1>10, <1>11, <2>2 DEF PathsInv, Busy, Entered
    <2> QED BY <1>4, <2>1, <2>3
  <1>12. CASE ~IsA(c, "dir") /\ Stated(c)
    <2>1. c # p
      BY <1>1, <1>2, <1>4, <1>10, <1>12 DEF PathsInv, Busy, Allowed
    <2> QED BY <1>7, <1>12, <2>1 DEF Replaced, Stated
  <1>13. CASE ~IsA(c, "dir") /\ ~Stated(c)
    <2>1. ~scanErrors
      BY <1>1 DEF WholeInv, Busy
    <2>2. c \in missing
      BY <1>1, <1>10, <1>13, <2>1 DEF PathsInv, Busy
    <2> QED BY <1>4, <1>7, <2>2
  <1> QED BY <1>11, <1>12, <1>13

(* What was found is recorded, what vanished is deleted: ScanRight.          *)
LEMMA ApplyKeeps ==
  ASSUME ScanInv, Apply
  PROVE  ScanInv'
  <1>1. /\ scanStep = "moves" /\ scanStep' = "done" /\ UNCHANGED Static /\ UNCHANGED Outcome
        /\ moves' = moves
    BY DEF Apply, Static, Outcome
  <1> DEFINE Left == (DOMAIN fileRows \ Gone) \cup found
  <1>2. /\ DOMAIN fileRows' = Left
        /\ \A p \in Left : fileRows'[p] = IF p \in found THEN RowOf(tree, p) ELSE fileRows[p]
    BY DEF Apply
  <1>3. /\ PickInv /\ PathsInv /\ WholeInv /\ PlainInv /\ ATree(tree) /\ DirsInv
        /\ DOMAIN moves \subseteq found
        /\ \A p \in DOMAIN moves : moves[p] \in Base \ found
        /\ \A p, q \in DOMAIN moves : moves[p] = moves[q] => p = q
    BY <1>1 DEF ScanInv, RowsInv, MovesInv, Busy
  <1>4. /\ PickInv' /\ RowsInv' /\ DirsInv' /\ PathsInv' /\ WholeInv' /\ PlainInv' /\ MovesInv'
    <2>1. PickInv'
      BY <1>1, <1>3 DEF PickInv, Static, Outcome, ScanSteps
    <2> QED BY <1>1, <2>1 DEF RowsInv, DirsInv, PathsInv, WholeInv, PlainInv, MovesInv, Busy
  <1>5. /\ found' = found /\ scanErrors' = scanErrors /\ follow' = follow /\ full' = full
        /\ Admitted' = Admitted /\ (Readable' <=> Readable)
        /\ (NamedInIgnored' <=> NamedInIgnored)
        /\ \A p : /\ IsA(p, "file")' <=> IsA(p, "file")
                  /\ RowOf(tree, p)' = RowOf(tree, p)
                  /\ Replaced(p)' <=> Replaced(p)
    BY <1>1, Frozen DEF Outcome, Static
  <1>6. Gone \subseteq Base
    BY <1>3 DEF Gone, Consumed
  <1>7. \A p \in found : IsA(p, "file")
    <2> SUFFICES ASSUME NEW p \in found PROVE IsA(p, "file")
      OBVIOUS
    <2>1. Stated(p) /\ p \in AnyPath
      BY <1>1, <1>3 DEF PathsInv, DirsInv, Busy
    <2> QED BY <1>3, <2>1, NotBoth
  <1>8. \A p \in DOMAIN moves : moves[p] \notin Left
    <2> SUFFICES ASSUME NEW p \in DOMAIN moves PROVE moves[p] \in Gone /\ moves[p] \notin found
      OBVIOUS
    <2>1. moves[p] \in Base \ found /\ moves[p] \in Consumed
      BY <1>3 DEF Consumed
    <2> QED BY <2>1 DEF Gone
  <1>9. ASSUME Readable, ~NamedInIgnored
        PROVE  /\ ~scanErrors \/ follow
               /\ \A p \in Admitted : p \in Left /\ fileRows'[p] = RowOf(tree, p)
               /\ ~follow => \A p \in Left : p \in Admitted \/ (~full /\ Replaced(p))
    <2>1. ~follow => ~scanErrors
      BY <1>1, <1>3, <1>9 DEF WholeInv, Busy
    <2>2. ASSUME NEW p \in Admitted PROVE p \in Left /\ fileRows'[p] = RowOf(tree, p)
      <3>1. CASE p \in found
        BY <1>2, <3>1
      <3>2. CASE p \notin found
        <4>1. p \in DOMAIN fileRows /\ p \notin Base /\ fileRows[p] = RowOf(tree, p)
          BY <1>1, <1>9, <2>2, <3>2, UnseenIsRight
        <4>2. p \in Left
          BY <1>6, <4>1
        <4> HIDE DEF Left
        <4> QED BY <1>2, <3>2, <4>1, <4>2
      <3> QED BY <3>1, <3>2
    <2>3. ASSUME ~follow, NEW p \in Left PROVE p \in Admitted \/ (~full /\ Replaced(p))
      <3>1. CASE p \in found
        BY <1>1, <1>3, <1>9, <2>3, <3>1 DEF PlainInv, Busy
      <3>2. CASE p \notin found
        <4>1. p \in DOMAIN fileRows /\ p \notin Gone
          BY <3>2
        <4>2. p \notin Base
          <5>1. ~scanErrors
            BY <2>1, <2>3
          <5> QED BY <3>2, <4>1, <5>1 DEF Gone
        <4> QED BY <1>1, <1>9, <2>3, <4>1, <4>2, StaleIsInScope
      <3> QED BY <3>1, <3>2
    <2> QED BY <2>1, <2>2, <2>3
  <1>10. ScanRight'
    <2> HIDE DEF Left
    <2>1. (Readable /\ ~NamedInIgnored =>
               /\ ~scanErrors \/ follow
               /\ \A p \in Admitted : p \in DOMAIN fileRows /\ fileRows[p] = RowOf(tree, p)
               /\ ~follow => \A p \in DOMAIN fileRows :
                                 p \in Admitted \/ (~full /\ Replaced(p)))'
      BY <1>2, <1>5, <1>9
    <2>2. (\A p \in found : IsA(p, "file") /\ p \in DOMAIN fileRows)'
      <3>1. found \subseteq Left
        BY DEF Left
      <3> QED BY <1>2, <1>5, <1>7, <3>1
    <2>3. /\ (\A p, q \in DOMAIN moves : moves[p] = moves[q] => p = q)'
          /\ (\A p \in DOMAIN moves : moves[p] \notin DOMAIN fileRows)'
      BY <1>1, <1>2, <1>3, <1>8
    <2> QED BY <2>1, <2>2, <2>3 DEF ScanRight
  <1> QED BY <1>4, <1>10 DEF ScanInv

-----------------------------------------------------------------------------
(* The theorems.                                                             *)

(* Nothing changes when nothing changes.                                     *)
LEMMA StutterKeepsScan ==
  ASSUME ScanInv, UNCHANGED scanVars
  PROVE  ScanInv'
  <1>1. UNCHANGED Static /\ UNCHANGED Outcome /\ fileRows' = fileRows
        /\ scanStep' = scanStep /\ toMatch' = toMatch /\ moves' = moves
    BY DEF scanVars, Static, Outcome
  <1>2. /\ PickInv /\ RowsInv /\ DirsInv /\ PathsInv /\ WholeInv /\ PlainInv
        /\ MovesInv /\ ScanRight
    BY DEF ScanInv
  <1>3. PickInv'
    <2>1. Names(ChangedSince(fileRows, tree))' = Names(ChangedSince(fileRows, tree))
      BY <1>1 DEF Static, Names, ChangedSince, Topmost, Below
    <2> QED BY <1>1, <1>2, <2>1 DEF PickInv, Static, Outcome, Fresh
  <1>4. RowsInv' /\ DirsInv' /\ PathsInv' /\ WholeInv' /\ PlainInv'
    <2>1. CASE scanStep \notin Busy
      BY <1>1, <2>1 DEF RowsInv, DirsInv, PathsInv, WholeInv, PlainInv
    <2>2. CASE scanStep \in Busy
      BY <1>1, <1>2, <2>2, OutcomeSame
    <2> QED BY <2>1, <2>2
  <1>5. MovesInv'
    <2>1. Base' = Base
      BY <1>1 DEF Static, Outcome, Base, Below
    <2> QED BY <1>1, <1>2, <2>1 DEF MovesInv, Outcome
  <1>6. ScanRight'
    <2>1. /\ found' = found /\ scanErrors' = scanErrors /\ follow' = follow /\ full' = full
          /\ fileRows' = fileRows
          /\ Admitted' = Admitted /\ (Readable' <=> Readable)
          /\ (NamedInIgnored' <=> NamedInIgnored)
      BY <1>1, Frozen DEF Outcome, Static
    <2>2. \A p : /\ IsA(p, "file")' <=> IsA(p, "file")
                 /\ RowOf(tree, p)' = RowOf(tree, p)
                 /\ Replaced(p)' <=> Replaced(p)
      BY <1>1, Frozen
    <2>3. CASE scanStep # "done"
      BY <1>1, <2>3 DEF ScanRight
    <2>4. CASE scanStep = "done"
      <3>1. (Readable /\ ~NamedInIgnored =>
               /\ ~scanErrors \/ follow
               /\ \A p \in Admitted : p \in DOMAIN fileRows /\ fileRows[p] = RowOf(tree, p)
               /\ ~follow => \A p \in DOMAIN fileRows :
                                 p \in Admitted \/ (~full /\ Replaced(p)))'
        BY <1>2, <2>1, <2>2, <2>4 DEF ScanRight
      <3>2. (\A p \in found : IsA(p, "file") /\ p \in DOMAIN fileRows)'
        BY <1>2, <2>1, <2>2, <2>4 DEF ScanRight
      <3>3. /\ (\A p, q \in DOMAIN moves : moves[p] = moves[q] => p = q)'
            /\ (\A p \in DOMAIN moves : moves[p] \notin DOMAIN fileRows)'
        BY <1>1, <1>2, <2>4 DEF ScanRight
      <3> QED BY <3>1, <3>2, <3>3 DEF ScanRight
    <2> QED BY <2>3, <2>4
  <1> QED BY <1>3, <1>4, <1>5, <1>6 DEF ScanInv

(* Every step of a pass keeps the invariant.                                 *)
LEMMA StepKeepsScan ==
  ASSUME ScanInv, ScanNext
  PROVE  ScanInv'
  <1>1. CASE /\ scanStep = "pick"
             /\ \E old \in FirstTrees, t \in Trees, r \in RuleSets, links \in BOOLEAN :
                    \E paths \in Names(ChangedSince(old, t)) : Pick(old, t, r, links, paths)
    BY <1>1, PickKeeps
  <1>2. CASE FirstRows
    BY <1>2, FirstRowsKeeps
  <1>3. CASE Walk
    <2>1. PICK d \in stack : IF Unlistable(d) THEN Fail(d) ELSE List(d)
      BY <1>3 DEF Walk
    <2>2. /\ scanStep \in {"walk", "targets"}
          /\ UNCHANGED <<scanStep, tree, rules, follow, named, full, toName, missing,
                         walked, fileRows, toMatch, moves>>
      BY <1>3 DEF Walk
    <2> QED BY <2>1, <2>2, ListKeeps, FailKeeps
  <1>4. CASE Scanned
    BY <1>4, ScannedKeeps
  <1>5. CASE Apply
    BY <1>5, ApplyKeeps
  <1>6. CASE \E p \in toName : Target(p)
    BY <1>6, TargetKeeps
  <1>7. CASE \E p \in toMatch : Match(p)
    BY <1>7, MatchKeeps
  <1> QED BY <1>1, <1>2, <1>3, <1>4, <1>5, <1>6, <1>7 DEF ScanNext

(* The invariant of a pass holds, for any trees, rules and named paths.      *)
THEOREM ScanInvariant == ScanSpec => []ScanInv
  <1>1. ScanInit => ScanInv
    BY InitScanInv
  <1>2. ScanInv /\ [ScanNext]_scanVars => ScanInv'
    BY StepKeepsScan, StutterKeepsScan
  <1> QED BY <1>1, <1>2, PTL DEF ScanSpec

(* A pass over named paths leaves the rows a full pass would (ScanRight).    *)
THEOREM ScanIsRight == ScanSpec => []ScanRight
  <1>1. ScanInv => ScanRight
    BY DEF ScanInv
  <1> QED BY <1>1, ScanInvariant, PTL
=============================================================================
