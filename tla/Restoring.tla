------------------------------ MODULE Restoring ------------------------------
(***************************************************************************)
(* Backup and restore of a local home (docmonk-ops/src/backup.rs) beside a *)
(* pass that indexes: the archive's two snapshots, the staged swap of the  *)
(* live directories with its undo, the whole-home locks that a backup      *)
(* takes and a restore does not, and the daemon stopped around a restore.  *)
(*                                                                         *)
(* A directory is known by its generation, so that a pass that opened a    *)
(* database keeps writing to it when the directory is moved.               *)
(***************************************************************************)
EXTENDS Naturals, Sequences, FiniteSets

CONSTANTS
    MaxPasses, MaxRestores, \* bounds on passes and restores
    MaxFaults               \* bound on failed calls and deaths

Dirs == {"state", "projects"}   \* config.yaml is moved like them
ASSUME RestoreAssumption == MaxRestores \in Nat

\* Generations: the first, the one of each restore, and one a command creates.
First == 0
Staged(n) == n
Blank == MaxRestores + 1
Generations == 0 .. Blank
NoDir == MaxRestores + 2

VARIABLES
    live,           \* directory -> generation in the home, or NoDir
    aside,          \* directory -> generation in `holding`, or NoDir
    staging,          \* directories in the scratch directory
    active,         \* generation of state -> the build it sends readers to
    buildRows,           \* generation of projects -> builds with rows
    runLock,        \* holder of index.lock and of the source's lock
    passStep, passState, passRows, \* the pass, its two open databases
    passOwner,      \* "daemon" or "cli"
    passes,
    backStep, snapshot, archive, tornArchive, \* the backup
    resStep, todo, restores, before, \* the restore
    daemonUp, restart,
    resFaults,
    overlap         \* a pass had a database open while directories moved

restoreVars == <<live, aside, staging, active, buildRows, runLock, passStep, passState,
                 passRows, passOwner, passes, backStep, snapshot, archive,
                 tornArchive, resStep, todo, restores, before, daemonUp, restart,
                 resFaults, overlap>>
passVars == <<passStep, passState, passRows, passOwner, passes>>
backVars == <<backStep, snapshot, archive, tornArchive>>
resVars == <<staging, aside, resStep, todo, restores, before, restart>>

NoArchive == [active |-> 0, buildRows |-> {}, torn |-> TRUE]

RestoreInit ==
    /\ live = [d \in Dirs |-> First] /\ aside = [d \in Dirs |-> NoDir] /\ staging = {}
    /\ active = [g \in Generations |-> IF g = First THEN 1 ELSE 0]
    /\ buildRows = [g \in Generations |-> IF g = First THEN {1} ELSE {}]
    /\ runLock = "free"
    /\ passStep = "idle" /\ passState = NoDir /\ passRows = NoDir
    /\ passOwner = "cli" /\ passes = 0
    /\ backStep = "idle" /\ snapshot = NoArchive /\ archive = NoArchive
    /\ tornArchive = FALSE
    /\ resStep = "idle" /\ todo = {} /\ restores = 0
    /\ before = [d \in Dirs |-> First]
    /\ daemonUp = TRUE /\ restart = FALSE /\ resFaults = 0 /\ overlap = FALSE

Fault == resFaults < MaxFaults /\ resFaults' = resFaults + 1
Moving == resStep \in {"aside", "swap", "undo"}

-----------------------------------------------------------------------------
(* A pass (see LocalBuild): it opens the databases one after the other,    *)
(* writes the rows of a build, publishes it and collects the others.       *)

\* A missing directory is created, empty: no source is registered then.
Opened(d) == IF live[d] = NoDir THEN Blank ELSE live[d]

OpenControl(owner) ==
    /\ passStep = "idle" /\ passes < MaxPasses /\ (owner = "daemon" => daemonUp)
    /\ live' = [live EXCEPT !["state"] = Opened("state")] 
    /\ live["state"] # Blank
    /\ IF live["state"] \in {NoDir, Blank} THEN UNCHANGED <<passVars, overlap>>
       ELSE /\ passStep' = "lock" /\ passOwner' = owner /\ passes' = passes + 1
            /\ passState' = live["state"] /\ UNCHANGED passRows
            /\ overlap' = (overlap \/ Moving)
    /\ UNCHANGED <<active, buildRows, runLock, backVars, resVars, daemonUp, resFaults>>

OpenStore ==
    /\ passStep = "lock" /\ runLock = "free"
    /\ runLock' = "pass" /\ passStep' = "write"
    /\ passRows' = Opened("projects") /\ live' = [live EXCEPT !["projects"] = Opened("projects")]
    /\ UNCHANGED <<active, buildRows, passState, passOwner, passes, backVars, resVars,
                   daemonUp, resFaults, overlap>>

WriteRows ==
    /\ passStep = "write" /\ passStep' = "publish"
    /\ buildRows' = [buildRows EXCEPT ![passRows] = @ \cup {passes + 1}]
    /\ UNCHANGED <<live, active, runLock, passState, passRows, passOwner, passes,
                   backVars, resVars, daemonUp, resFaults, overlap>>

PublishBuild ==
    /\ passStep = "publish" /\ passStep' = "collect"
    /\ active' = [active EXCEPT ![passState] = passes + 1]
    /\ UNCHANGED <<live, buildRows, runLock, passState, passRows, passOwner, passes,
                   backVars, resVars, daemonUp, resFaults, overlap>>

CollectRows ==
    /\ passStep = "collect" /\ passStep' = "idle" /\ runLock' = "free"
    /\ buildRows' = [buildRows EXCEPT ![passRows] = {active[passState]}]
    /\ passState' = NoDir /\ passRows' = NoDir
    /\ UNCHANGED <<live, active, passOwner, passes, backVars, resVars,
                   daemonUp, resFaults, overlap>>

\* The source's lock is held too long, or the process dies.
PassEnds ==
    /\ \/ passStep = "lock" /\ runLock # "free" /\ UNCHANGED resFaults
       \/ passStep # "idle" /\ Fault
    /\ passStep' = "idle" /\ passState' = NoDir /\ passRows' = NoDir
    /\ runLock' = IF runLock = "pass" THEN "free" ELSE runLock
    /\ UNCHANGED <<live, active, buildRows, passOwner, passes, backVars, resVars,
                   daemonUp, overlap>>

-----------------------------------------------------------------------------
(* Backup.                                                                 *)

\* Mutant: it takes index.lock alone, which passes do not.
LockIndexOnly ==
    /\ backStep = "idle" /\ archive = NoArchive /\ resStep = "idle"
    /\ backStep' = "control"
    /\ UNCHANGED <<live, active, buildRows, runLock, passVars, snapshot, archive,
                   tornArchive, resVars, daemonUp, resFaults, overlap>>

\* home_exclusive: index.lock, then every source's lock.
LockHome ==
    /\ backStep = "idle" /\ archive = NoArchive /\ resStep = "idle" /\ runLock = "free"
    /\ backStep' = "control" /\ runLock' = "backup"
    /\ UNCHANGED <<live, active, buildRows, passVars, snapshot, archive, tornArchive,
                   resVars, daemonUp, resFaults, overlap>>

SnapshotControl ==
    /\ backStep = "control" /\ backStep' = "projects"
    /\ live' = [live EXCEPT !["state"] = Opened("state")]
    /\ snapshot' = [snapshot EXCEPT !.active = active[Opened("state")]]
    /\ UNCHANGED <<active, buildRows, runLock, passVars, archive, tornArchive, resVars,
                   daemonUp, resFaults, overlap>>

SnapshotProjects ==
    /\ backStep = "projects" /\ backStep' = "pack"
    /\ snapshot' = [snapshot EXCEPT
           !.buildRows = IF live["projects"] = NoDir THEN {} ELSE buildRows[live["projects"]]]
    /\ UNCHANGED <<live, active, buildRows, runLock, passVars, archive, tornArchive, resVars,
                   daemonUp, resFaults, overlap>>

\* The archive is written in place: a death leaves a torn one.
Pack ==
    /\ backStep = "pack" /\ backStep' = "done"
    /\ \/ archive' = [snapshot EXCEPT !.torn = FALSE] /\ UNCHANGED <<tornArchive, resFaults>>
       \/ archive' = snapshot /\ tornArchive' = TRUE /\ Fault
    /\ runLock' = "free"
    /\ UNCHANGED <<live, active, buildRows, passVars, snapshot, resVars, daemonUp, overlap>>

-----------------------------------------------------------------------------
(* Restore.                                                                *)

\* Extract and verify in a scratch directory; a bad archive is refused.
Extract ==
    /\ resStep = "idle" /\ restores < MaxRestores /\ backStep = "done" /\ ~archive.torn
    /\ restores' = restores + 1
    /\ LET g == Staged(restores + 1) IN
       /\ active' = [active EXCEPT ![g] = archive.active]
       /\ buildRows' = [buildRows EXCEPT ![g] = archive.buildRows]
    /\ staging' = IF archive.buildRows = {} THEN {"state"} ELSE {"state", "projects"}
    /\ before' = live /\ resStep' = "stop"
    /\ UNCHANGED <<live, aside, runLock, passVars, backVars, todo, daemonUp, restart,
                   resFaults, overlap>>

\* stop_and_wait: the daemon ends its pass first, or the restore is refused.
StopFirst ==
    /\ resStep = "stop"
    /\ \/ /\ ~(passStep # "idle" /\ passOwner = "daemon")
          /\ resStep' = "aside" /\ todo' = Dirs
          /\ restart' = daemonUp /\ daemonUp' = FALSE
          /\ before' = live
          /\ overlap' = (overlap \/ passStep # "idle") /\ UNCHANGED staging
       \/ /\ passStep # "idle" /\ passOwner = "daemon"
          /\ resStep' = "idle" /\ staging' = {}
          /\ UNCHANGED <<todo, restart, daemonUp, before, overlap>>
    /\ UNCHANGED <<live, aside, active, buildRows, runLock, passVars, backVars, restores,
                   resFaults>>

FirstOf(S) == IF "state" \in S THEN "state" ELSE "projects"

\* A failure here leaves what was moved where it is.
MoveAside ==
    /\ resStep = "aside"
    /\ \/ /\ todo # {}
          /\ LET d == FirstOf(todo) IN
             /\ aside' = [aside EXCEPT ![d] = live[d]] /\ live' = [live EXCEPT ![d] = NoDir]
             /\ todo' = todo \ {d}
          /\ UNCHANGED <<resStep, staging, resFaults>>
       \/ /\ todo = {} /\ resStep' = "swap" /\ todo' = staging
          /\ UNCHANGED <<aside, live, staging, resFaults>>
       \/ /\ todo # {} /\ resStep' = "halfway" /\ staging' = {} /\ Fault
          /\ UNCHANGED <<aside, live, todo>>
    /\ UNCHANGED <<active, buildRows, runLock, passVars, backVars, restores, before,
                   daemonUp, restart, overlap>>

\* rename onto a directory that a command created meanwhile fails.
Swap ==
    /\ resStep = "swap"
    /\ IF todo = {}
       THEN /\ resStep' = "clean" /\ UNCHANGED <<live, staging, todo, resFaults>>
       ELSE LET d == FirstOf(todo) IN
            \/ /\ live[d] = NoDir
               /\ live' = [live EXCEPT ![d] = Staged(restores)]
               /\ staging' = staging \ {d} /\ todo' = todo \ {d}
               /\ UNCHANGED <<resStep, resFaults>>
            \/ /\ IF live[d] = NoDir THEN Fault ELSE UNCHANGED resFaults
               /\ resStep' = "undo"
               /\ UNCHANGED <<live, staging, todo>>
    /\ UNCHANGED <<active, buildRows, runLock, passVars, backVars, aside, restores, before,
                   daemonUp, restart, overlap>>

\* Mutant: what was swapped in is not removed, so nothing can come back there.
UndoMissing ==
    /\ resStep = "undo" /\ resStep' = "idle" /\ staging' = {}
    /\ live' = [d \in Dirs |-> IF live[d] = NoDir THEN aside[d] ELSE live[d]]
    /\ aside' = [d \in Dirs |-> IF live[d] = NoDir THEN NoDir ELSE aside[d]]
    /\ UNCHANGED <<active, buildRows, runLock, passVars, backVars, todo, restores, before,
                   daemonUp, restart, resFaults, overlap>>

\* A failed swap: what was swapped in goes, what was there comes back.
Undo ==
    /\ resStep = "undo" /\ resStep' = "idle" /\ staging' = {}
    /\ live' = aside
    /\ aside' = [d \in Dirs |-> NoDir]
    /\ UNCHANGED <<active, buildRows, runLock, passVars, backVars, todo, restores, before,
                   daemonUp, restart, resFaults, overlap>>

\* The old directories are removed and the daemon is started again.
Clean ==
    /\ resStep = "clean" /\ resStep' = "idle"
    /\ aside' = [d \in Dirs |-> NoDir]
    /\ daemonUp' = restart
    /\ UNCHANGED <<live, active, buildRows, runLock, passVars, backVars, staging, todo, restores,
                   before, restart, resFaults, overlap>>

Die ==
    /\ resStep \in {"stop", "aside", "swap", "undo", "clean"} /\ Fault
    /\ resStep' = IF resStep \in {"stop", "clean"} THEN "idle" ELSE "halfway"
    /\ staging' = {}
    /\ UNCHANGED <<live, aside, active, buildRows, runLock, passVars, backVars, todo, restores,
                   before, daemonUp, restart, overlap>>

RestoreNext ==
    \/ \E owner \in {"daemon", "cli"} : OpenControl(owner)
    \/ OpenStore \/ WriteRows \/ PublishBuild \/ CollectRows \/ PassEnds
    \/ LockHome \/ SnapshotControl \/ SnapshotProjects \/ Pack
    \/ Extract \/ StopFirst \/ MoveAside \/ Swap \/ Undo \/ Clean \/ Die

RestoreSpec == RestoreInit /\ [][RestoreNext]_restoreVars

-----------------------------------------------------------------------------
(* A backup holds the rows of the build it sends readers to.  A restore      *)
(* that ends has put in all of the archive or left all as it was; one that   *)
(* dies, or cannot move a directory aside, leaves what was there in the home *)
(* or next to it.  What readers are sent to has rows as long as no pass had  *)
(* a database open during a swap: the restore takes no lock that would keep  *)
(* a pass of another process out.  Code: backup.rs:52-261, indexing.rs:      *)
(* 189-219, ops_cmd.rs:24-52.                                                *)
Served(g, h) == active[g] = 0 \/ (h # NoDir /\ active[g] \in buildRows[h])

ArchiveWhole == ~archive.torn => archive.active = 0 \/ archive.active \in archive.buildRows

NothingLost ==
    \A d \in Dirs : resStep \in {"aside", "swap", "undo", "halfway"} =>
        before[d] \in {live[d], aside[d], NoDir, Blank}

AllOrNothing ==
    resStep = "idle" /\ restores > 0 /\ ~overlap =>
        \/ \A d \in Dirs : live[d] \in {before[d], Blank}
        \/ /\ live["state"] = Staged(restores)
           /\ live["projects"] \in {Staged(restores), NoDir, Blank}

ServedWhole ==
    resStep = "idle" /\ ~overlap /\ live["state"] # NoDir =>
        Served(live["state"], live["projects"])

RestoreRight == ArchiveWhole /\ NothingLost /\ AllOrNothing /\ ServedWhole
=============================================================================
