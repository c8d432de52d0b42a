------------------------------ MODULE LocalBuild ------------------------------
(***************************************************************************)
(* A pass over one source in local mode                                    *)
(* (docmonk-indexing/src/coordinator.rs): what it writes to the control     *)
(* plane (docmonk-storage/src/control.rs) and to the source's own database  *)
(* (knowledge.rs), two SQLite databases with no common transaction.  The    *)
(* process may die between any two steps and most calls may fail.           *)
(*                                                                         *)
(* A full rebuild writes a new build beside the visible one, in segments,   *)
(* and switches; a process that died is taken up where its last segment     *)
(* ended.  An incremental pass changes the visible build in one             *)
(* transaction.  Callers hold the source's run lock: one pass at a time.    *)
(*                                                                         *)
(* Every write of a file gives it a new stamp (size and mtime, with the     *)
(* racy-clean rule of fingerprint.rs); Text says what each write wrote.      *)
(* A move counts as a new and a deleted file.  What the finalizers write,   *)
(* an unreachable root and the online flag are left out.                    *)
(***************************************************************************)
EXTENDS Naturals, FiniteSets

CONSTANTS
    LocalFiles,
    FileTexts,
    Text,           \* the text that the n-th change gives a file
    NoText,        \* the knowledge of a file that could not be read
    NoHash,
    NoRow,
    Versions,       \* versions of the parsers and chunkers
    Failing,        \* places of a pass where a call may fail
    MaxStamps,       \* bound: changes of files
    MaxFullBuilds,      \* bound: full builds
    MaxFailures       \* bound: crashes, failures, upgrades, rebuild requests

Stamps == 0 .. MaxStamps
LocalBuilds == 1 .. MaxFullBuilds
NoLocal == 0
Rows == [stamp : 1 .. MaxStamps, hash : FileTexts \cup {NoHash},
         text : FileTexts \cup {NoText}, version : Versions]

ASSUME LocalAssumption ==
    /\ MaxStamps \in Nat \ {0} /\ MaxFullBuilds \in Nat \ {0} /\ MaxFailures \in Nat
    /\ Text \in [1 .. MaxStamps -> FileTexts]
    /\ NoText \notin FileTexts /\ NoHash \notin FileTexts /\ NoRow \notin Rows
    /\ Versions # {}

VARIABLES
    fileStamps,           \* the stamp of each file, 0 when there is none
    lastStamp,          \* the last stamp
    ctl,            \* source_state: state, active, pending, version
    status,         \* builds.status, "none" for no such build
    madeFor,        \* builds.versions
    storeRows,           \* committed rows of each build
    place,             \* where the pass is
    pass,           \* what it has in memory
    work,           \* its build's rows in the open session
    code,           \* the versions of the running program
    faults,         \* faults so far
    shown,          \* history: the stamps the visible build must have
    forced          \* history: a full rebuild was asked for, and none finished

diskVars == <<fileStamps, lastStamp>>
storeVars == <<status, madeFor, storeRows>>
histVars == <<shown, forced>>
localVars == <<diskVars, ctl, storeVars, place, pass, work, code, faults, histVars>>

EmptyRows == [f \in LocalFiles |-> NoRow]

NoPass == [build |-> NoLocal, full |-> FALSE, resume |-> FALSE, before |-> NoLocal,
           scope |-> {}, complete |-> TRUE, seen |-> [f \in LocalFiles |-> 0],
           todo |-> {}, gone |-> {}, restat |-> {},
           hashes |-> [f \in LocalFiles |-> NoHash], goal |-> [f \in LocalFiles |-> 0]]

Places == {"idle", "open", "abandon", "redo", "plan", "scan", "diff", "warm",
           "begin", "session", "write", "finalize", "commit", "publish", "mark",
           "gc", "fail", "rollback", "discard"}

(* The variables have their types, and the control plane names only builds   *)
(* that were begun.                                                         *)
LocalTypeOK ==
    /\ fileStamps \in [LocalFiles -> Stamps] /\ lastStamp \in Stamps
    /\ ctl \in [state : {"needs_full", "building", "ready", "failed"},
                active : LocalBuilds \cup {NoLocal}, pending : LocalBuilds \cup {NoLocal},
                version : Versions \cup {0}]
    /\ status \in [LocalBuilds -> {"none", "building", "published", "superseded", "aborted"}]
    /\ madeFor \in [LocalBuilds -> Versions \cup {0}]
    /\ storeRows \in [LocalBuilds -> [LocalFiles -> Rows \cup {NoRow}]]
    /\ place \in Places
    /\ pass.build \in LocalBuilds \cup {NoLocal} /\ pass.before \in LocalBuilds \cup {NoLocal}
    /\ pass.seen \in [LocalFiles -> Stamps]
    /\ pass.todo \cup pass.gone \cup pass.restat \cup pass.scope \subseteq LocalFiles
    /\ work \in [LocalFiles -> Rows \cup {NoRow}]
    /\ code \in Versions /\ faults \in 0 .. MaxFailures
    /\ shown \in [LocalFiles -> Stamps] /\ forced \in BOOLEAN

LocalInit ==
    /\ fileStamps = [f \in LocalFiles |-> 0]
    /\ lastStamp = 0
    /\ ctl = [state |-> "needs_full", active |-> NoLocal, pending |-> NoLocal, version |-> 0]
    /\ status = [b \in LocalBuilds |-> "none"]
    /\ madeFor = [b \in LocalBuilds |-> 0]
    /\ storeRows = [b \in LocalBuilds |-> EmptyRows]
    /\ place = "idle"
    /\ pass = NoPass
    /\ work = EmptyRows
    /\ code \in Versions
    /\ faults = 0
    /\ shown = [f \in LocalFiles |-> 0]
    /\ forced = FALSE

-----------------------------------------------------------------------------
(* The world around the pass.                                               *)

WriteFile(f) ==
    /\ lastStamp < MaxStamps
    /\ lastStamp' = lastStamp + 1
    /\ fileStamps' = [fileStamps EXCEPT ![f] = lastStamp + 1]
    /\ UNCHANGED <<ctl, storeVars, place, pass, work, code, faults, histVars>>

RemoveFile(f) ==
    /\ lastStamp < MaxStamps
    /\ fileStamps[f] # 0
    /\ lastStamp' = lastStamp + 1
    /\ fileStamps' = [fileStamps EXCEPT ![f] = 0]
    /\ UNCHANGED <<ctl, storeVars, place, pass, work, code, faults, histVars>>

OneFault == faults < MaxFailures /\ faults' = faults + 1

\* The program is replaced by one with other parsers.
Upgrade ==
    /\ place = "idle"
    /\ OneFault
    /\ \E v \in Versions \ {code} : code' = v
    /\ UNCHANGED <<diskVars, ctl, storeVars, place, pass, work, histVars>>

\* The process dies: its session is lost, and what it had in memory.
PassDies ==
    /\ place # "idle"
    /\ OneFault
    /\ place' = "idle"
    /\ pass' = NoPass
    /\ work' = EmptyRows
    /\ UNCHANGED <<diskVars, ctl, storeVars, code, histVars>>

\* `docmonk rebuild`, or a pass over some paths or all files.
Rebuild ==
    /\ place = "idle"
    /\ OneFault
    /\ ctl' = [ctl EXCEPT !.state = "needs_full"]
    /\ forced' = TRUE
    /\ pass' = [NoPass EXCEPT !.scope = LocalFiles]
    /\ place' = "open"
    /\ UNCHANGED <<diskVars, storeVars, work, code, shown>>

OpenPass(scope) ==
    /\ place = "idle"
    /\ pass' = [NoPass EXCEPT !.scope = scope]
    /\ place' = "open"
    /\ UNCHANGED <<diskVars, ctl, storeVars, work, code, faults, histVars>>

-----------------------------------------------------------------------------
(* Recovery and plan.                                                       *)

\* Mutant: a build of other versions is taken up.
ResumableAnyway(b) == b # NoLocal /\ b # ctl.active /\ status[b] = "building"

\* resumable_build, of a pending build beside the active one.
Resumable(b) ==
    /\ b # NoLocal /\ b # ctl.active
    /\ status[b] = "building" /\ madeFor[b] = code

\* gc_builds, gc_builds_keeping: everything not published and not kept.
CollectBuilds(kept) ==
    LET gone == {b \in LocalBuilds : status[b] \in {"aborted", "superseded", "building"}} \ kept
    IN
    /\ status' = [b \in LocalBuilds |-> IF b \in gone THEN "none" ELSE status[b]]
    /\ madeFor' = [b \in LocalBuilds |-> IF b \in gone THEN 0 ELSE madeFor[b]]
    /\ storeRows' = [b \in LocalBuilds |-> IF b \in gone THEN EmptyRows ELSE storeRows[b]]

\* A build that died part-way is kept and finished.
Resume ==
    /\ place = "open"
    /\ Resumable(ctl.pending)
    /\ CollectBuilds({ctl.active, ctl.pending})
    /\ pass' = [pass EXCEPT !.build = ctl.pending, !.full = TRUE, !.resume = TRUE,
                            !.before = ctl.active, !.scope = LocalFiles]
    /\ place' = "scan"
    /\ UNCHANGED <<diskVars, ctl, work, code, faults, histVars>>

\* Or its rows are dropped, then its claim, then a full rebuild required.
DropBuild ==
    /\ place = "open"
    /\ ctl.pending # NoLocal /\ ~Resumable(ctl.pending)
    /\ CollectBuilds({ctl.active})
    /\ place' = "abandon"
    /\ UNCHANGED <<diskVars, ctl, pass, work, code, faults, histVars>>

\* abort_build: nothing happens unless the build is the pending one.
Aborted(b) ==
    IF b = NoLocal \/ ctl.pending # b THEN ctl
    ELSE [ctl EXCEPT !.pending = NoLocal,
              !.state = IF ctl.active = NoLocal THEN "needs_full" ELSE "failed"]

AbandonClaim ==
    /\ place = "abandon"
    /\ ctl' = Aborted(ctl.pending)
    /\ place' = IF ctl.active # ctl.pending THEN "redo" ELSE "plan"
    /\ UNCHANGED <<diskVars, storeVars, pass, work, code, faults, histVars>>

RequireFull ==
    /\ place = "redo"
    /\ ctl' = [ctl EXCEPT !.state = "needs_full"]
    /\ forced' = TRUE
    /\ place' = "plan"
    /\ UNCHANGED <<diskVars, storeVars, pass, work, code, faults, shown>>

\* plan_for.
NeedsFull ==
    ctl.state = "needs_full" \/ ctl.active = NoLocal \/ ctl.version # code

\* Targets are for incremental passes only.
PlanPass ==
    /\ place = "plan" \/ (place = "open" /\ ctl.pending = NoLocal)
    /\ pass' = IF NeedsFull
               THEN [pass EXCEPT !.full = TRUE, !.before = ctl.active, !.scope = LocalFiles]
               ELSE [pass EXCEPT !.build = ctl.active, !.before = ctl.active]
    /\ place' = "scan"
    /\ UNCHANGED <<diskVars, ctl, storeVars, work, code, faults, histVars>>

-----------------------------------------------------------------------------
(* Scan and diff.                                                           *)

\* Files are missed only by an incomplete scan, which knows that it is one.
ScanTree(missed) ==
    /\ place = "scan"
    /\ IF missed = {} THEN UNCHANGED faults ELSE OneFault
    /\ pass' = [pass EXCEPT
           !.complete = (missed = {}),
           !.seen = [f \in LocalFiles |-> IF f \in pass.scope \ missed THEN fileStamps[f] ELSE 0]]
    /\ place' = "diff"
    /\ UNCHANGED <<diskVars, ctl, storeVars, work, code, histVars>>

\* reusable_files, or the rows a resumed build already has.
OldRow(f) == IF pass.full /\ ~pass.resume THEN NoRow ELSE storeRows[pass.build][f]

\* Mutant: a pass over some paths takes other files' rows for deleted ones.
BaselineWhole(f) == OldRow(f)

\* The rows the scan is compared with.
Baseline(f) == IF f \in pass.scope THEN OldRow(f) ELSE NoRow

Known(f) == pass.seen[f] # 0 /\ Baseline(f) # NoRow

\* Mutant: an mtime compared the wrong way round.
SameStatOlder(f) == Baseline(f).stamp <= pass.seen[f]

SameStat(f) == Baseline(f).stamp = pass.seen[f]
Retried(f, due) == f \in due /\ Baseline(f).text = NoText

\* What hashing a file now gives.
HashNow(f) == IF fileStamps[f] = 0 THEN NoHash ELSE Text[fileStamps[f]]

\* diff: a file with another stat is hashed; with the same hash only its stat
\* is refreshed.
Diff(due) ==
    LET hashed == {f \in LocalFiles : Known(f) /\ (Retried(f, due) \/ ~SameStat(f))}
        same   == {f \in hashed : /\ ~Retried(f, due)
                                  /\ HashNow(f) # NoHash /\ HashNow(f) = Baseline(f).hash}
        new    == {f \in LocalFiles : pass.seen[f] # 0 /\ Baseline(f) = NoRow}
        gone   == {f \in LocalFiles : pass.complete /\ pass.seen[f] = 0 /\ Baseline(f) # NoRow}
        todo   == new \cup (hashed \ same)
        goal   == [f \in LocalFiles |->
                      IF pass.seen[f] # 0 THEN pass.seen[f]
                      ELSE IF f \in gone \/ OldRow(f) = NoRow THEN 0
                      ELSE OldRow(f).stamp]
    IN
    /\ place = "diff"
    /\ pass' = [pass EXCEPT !.todo = todo, !.gone = gone, !.restat = same,
           !.goal = goal,
           !.hashes = [f \in LocalFiles |-> IF f \in hashed THEN HashNow(f) ELSE NoHash]]
    /\ place' = IF ~pass.full /\ todo \cup gone = {} THEN "warm" ELSE "begin"
    /\ UNCHANGED <<diskVars, ctl, storeVars, work, code, faults, histVars>>

\* Mutant: every row's stat is refreshed up front.
KeptAnyStat(old) ==
    [f \in LocalFiles |->
        IF f \in pass.gone \/ old[f] = NoRow THEN NoRow
        ELSE [old[f] EXCEPT !.stamp = pass.seen[f]]]

\* A row of the build after the pass: gone, with a fresh stat, or as it was.
Kept(old) ==
    [f \in LocalFiles |->
        IF f \in pass.gone THEN NoRow
        ELSE IF f \in pass.restat THEN [old[f] EXCEPT !.stamp = pass.seen[f]]
        ELSE old[f]]

\* Nothing to do: stats are refreshed in the visible build, and the pass ends.
Warm ==
    /\ place = "warm"
    /\ storeRows' = [storeRows EXCEPT ![pass.build] = Kept(@)]
    /\ shown' = pass.goal
    /\ place' = "idle"
    /\ pass' = NoPass
    /\ UNCHANGED <<diskVars, ctl, status, madeFor, work, code, faults, forced>>

-----------------------------------------------------------------------------
(* The build.                                                               *)

\* begin_build.  A full build gets an id no other build has.
BeginLocal ==
    LET fresh == {b \in LocalBuilds : status[b] = "none" /\ b \notin {ctl.active, ctl.pending}}
        build == IF pass.build # NoLocal THEN pass.build
                 ELSE CHOOSE b \in fresh : \A c \in fresh : b <= c
    IN
    /\ place = "begin"
    /\ pass.build # NoLocal \/ fresh # {}
    /\ ctl' = [ctl EXCEPT !.state = "building", !.pending = build]
    /\ pass' = [pass EXCEPT !.build = build]
    /\ place' = "session"
    /\ UNCHANGED <<diskVars, storeVars, work, code, faults, histVars>>

\* Mutant: deleted files are dropped in incremental passes only.
OpenSessionKeepingGone ==
    /\ place = "session"
    /\ work' = IF pass.full THEN storeRows[pass.build] ELSE Kept(storeRows[pass.build])
    /\ place' = "write"
    /\ UNCHANGED <<diskVars, ctl, storeVars, pass, code, faults, histVars>>

\* begin_session, create_build and the removals, all in the session.
OpenSession ==
    /\ place = "session"
    /\ work' = Kept(storeRows[pass.build])
    /\ place' = "write"
    /\ UNCHANGED <<diskVars, ctl, storeVars, pass, code, faults, histVars>>

\* A worker hashes the file, unless the diff did; hashing may fail.
Hash(f) ==
    /\ place = "write"
    /\ f \in pass.todo /\ pass.hashes[f] = NoHash /\ HashNow(f) # NoHash
    /\ pass' = [pass EXCEPT !.hashes[f] = HashNow(f)]
    /\ UNCHANGED <<diskVars, ctl, storeVars, place, work, code, faults, histVars>>

\* Then it reads the file, and the row is written.
PutRow(f) ==
    /\ place = "write"
    /\ f \in pass.todo
    /\ work' = [work EXCEPT ![f] =
           [stamp |-> pass.seen[f], hash |-> pass.hashes[f],
            text |-> IF fileStamps[f] = 0 THEN NoText ELSE Text[fileStamps[f]], version |-> code]]
    /\ pass' = [pass EXCEPT !.todo = @ \ {f}, !.hashes[f] = NoHash]
    /\ UNCHANGED <<diskVars, ctl, storeVars, place, code, faults, histVars>>

\* The session's rows become visible to other connections, and with a full
\* build the build itself.
Commit ==
    /\ storeRows' = [storeRows EXCEPT ![pass.build] = work]
    /\ IF status[pass.build] = "none"
       THEN /\ status' = [status EXCEPT ![pass.build] = "building"]
            /\ madeFor' = [madeFor EXCEPT ![pass.build] = code]
       ELSE UNCHANGED <<status, madeFor>>

CommitSegment ==
    /\ place = "write"
    /\ pass.full
    /\ storeRows[pass.build] # work
    /\ Commit
    /\ UNCHANGED <<diskVars, ctl, place, pass, work, code, faults, histVars>>

\* Every file is written: a full build is committed before the finalizers.
Written ==
    /\ place = "write"
    /\ pass.todo = {}
    /\ IF pass.full THEN Commit ELSE UNCHANGED storeVars
    /\ place' = "finalize"
    /\ UNCHANGED <<diskVars, ctl, pass, work, code, faults, histVars>>

Finalize ==
    /\ place = "finalize"
    /\ place' = IF pass.full THEN "publish" ELSE "commit"
    /\ UNCHANGED <<diskVars, ctl, storeVars, pass, work, code, faults, histVars>>

\* An incremental pass becomes visible here.
CommitPass ==
    /\ place = "commit"
    /\ Commit
    /\ shown' = pass.goal
    /\ place' = "publish"
    /\ UNCHANGED <<diskVars, ctl, pass, work, code, faults, forced>>

\* publish_build: the control plane switches, if the build is the pending one.
SwitchBuild ==
    /\ place = "publish"
    /\ ctl.pending = pass.build
    /\ ctl' = [state |-> "ready", active |-> pass.build, pending |-> NoLocal,
               version |-> code]
    /\ shown' = pass.goal
    /\ forced' = (forced /\ ~pass.full)
    /\ place' = IF pass.full THEN "mark" ELSE "idle"
    /\ pass' = IF pass.full THEN pass ELSE NoPass
    /\ work' = EmptyRows
    /\ UNCHANGED <<diskVars, storeVars, code, faults>>

\* mark_published, in the source's own database.
MarkPublished ==
    /\ place = "mark"
    /\ status' = [b \in LocalBuilds |->
           IF b = pass.build THEN "published"
           ELSE IF status[b] = "published" THEN "superseded" ELSE status[b]]
    /\ place' = "gc"
    /\ UNCHANGED <<diskVars, ctl, madeFor, storeRows, pass, work, code, faults, histVars>>

CollectOld ==
    /\ place = "gc"
    /\ CollectBuilds({pass.build})
    /\ place' = "idle"
    /\ pass' = NoPass
    /\ UNCHANGED <<diskVars, ctl, work, code, faults, histVars>>

-----------------------------------------------------------------------------
(* Failures.                                                                *)

\* A call fails before a build was begun: the pass ends.
FailsEarly ==
    /\ place \in {"open", "abandon", "redo", "plan", "scan", "diff", "warm", "begin"} \cap Failing
    /\ OneFault
    /\ place' = "idle"
    /\ pass' = NoPass
    /\ UNCHANGED <<diskVars, ctl, storeVars, work, code, histVars>>

\* begin_session fails: the claim is dropped, and the pass ends.
SessionFails ==
    /\ place = "session"
    /\ place \in Failing
    /\ OneFault
    /\ ctl' = Aborted(pass.build)
    /\ place' = "idle"
    /\ pass' = NoPass
    /\ UNCHANGED <<diskVars, storeVars, work, code, histVars>>

\* A call of the build or of its publication fails.
Fails ==
    /\ place \in {"write", "finalize", "commit", "publish", "mark", "gc"} \cap Failing
    /\ OneFault
    /\ place' = "fail"
    /\ UNCHANGED <<diskVars, ctl, storeVars, pass, work, code, histVars>>

\* What a failed pass cleans up; what fails here is ignored.
AbortBuild ==
    /\ place = "fail"
    /\ \/ ctl' = Aborted(pass.build) /\ UNCHANGED faults
       \/ OneFault /\ UNCHANGED ctl
    /\ work' = EmptyRows
    /\ place' = IF pass.full THEN "rollback" ELSE "idle"
    /\ pass' = IF pass.full THEN pass ELSE NoPass
    /\ UNCHANGED <<diskVars, storeVars, code, histVars>>

MarkAborted ==
    /\ place = "rollback"
    /\ \/ /\ status' = [status EXCEPT ![pass.build] =
                 IF @ = "building" THEN "aborted" ELSE @]
          /\ UNCHANGED faults
       \/ OneFault /\ UNCHANGED status
    /\ place' = "discard"
    /\ UNCHANGED <<diskVars, ctl, madeFor, storeRows, pass, work, code, histVars>>

DiscardPending ==
    /\ place = "discard"
    /\ \/ CollectBuilds({pass.before}) /\ UNCHANGED faults
       \/ OneFault /\ UNCHANGED storeVars
    /\ place' = "idle"
    /\ pass' = NoPass
    /\ UNCHANGED <<diskVars, ctl, work, code, histVars>>

-----------------------------------------------------------------------------
PassStep ==
    \/ Resume \/ DropBuild \/ AbandonClaim \/ RequireFull \/ PlanPass
    \/ \E missed \in SUBSET LocalFiles : ScanTree(missed)
    \/ \E due \in SUBSET LocalFiles : Diff(due)
    \/ Warm \/ BeginLocal \/ OpenSession
    \/ \E f \in LocalFiles : Hash(f) \/ PutRow(f)
    \/ CommitSegment \/ Written \/ Finalize \/ CommitPass
    \/ SwitchBuild \/ MarkPublished \/ CollectOld
    \/ AbortBuild \/ MarkAborted \/ DiscardPending

LocalNext ==
    \/ PassStep
    \/ FailsEarly \/ SessionFails \/ Fails \/ PassDies
    \/ Upgrade \/ Rebuild
    \/ \E scope \in SUBSET LocalFiles \ {{}} : OpenPass(scope)
    \/ \E f \in LocalFiles : WriteFile(f) \/ RemoveFile(f)

LocalSpec == LocalInit /\ [][LocalNext]_localVars

\* A pass that runs goes on.  Reconciliation asks for a full pass again and
\* again, and passes over some paths do not keep it out forever: SF.
LocalFairness == WF_localVars(PassStep) /\ SF_localVars(OpenPass(LocalFiles))

FairLocalSpec == LocalSpec /\ LocalFairness

-----------------------------------------------------------------------------
VisibleFiles == storeRows[ctl.active]
StampsOf(rs) == [f \in LocalFiles |-> IF rs[f] = NoRow THEN 0 ELSE rs[f].stamp]

(* Readers see the visible build as the last pass that finished wanted it,   *)
(* every file of it and no other, through crashes, failed calls, segments    *)
(* and collections (run_source_with, "Incomplete work is never visible       *)
(* either way").                                                            *)
VisibleWhole == ctl.active # NoLocal => StampsOf(VisibleFiles) = shown

(* The rows readers see were all made by the parsers the control plane       *)
(* records, whatever was resumed and whichever program ran in between       *)
(* (resumable_build, plan_for).                                             *)
OneVersion ==
    ctl.active # NoLocal =>
        \A f \in LocalFiles : VisibleFiles[f] # NoRow => VisibleFiles[f].version = ctl.version

(* Readers see what the last finished pass meant them to see, made by one    *)
(* version of the program (run_source_with, plan_for).                       *)
ReadersSeeWhole == LocalTypeOK /\ VisibleWhole /\ OneVersion

(* A row whose stat is the file's holds the file's text: what the next pass  *)
(* will take for unchanged is unchanged (diff.rs, the coordinator's "content *)
(* proven identical by hash").  This is for changes that each give a new     *)
(* text: a row's hash is taken before the text, so a text that comes back    *)
(* can match the hash of a row with another.                                *)
UnchangedTrue ==
    ctl.active # NoLocal =>
        \A f \in LocalFiles : VisibleFiles[f] # NoRow =>
            (fileStamps[f] # 0 /\ VisibleFiles[f].stamp = fileStamps[f] /\ VisibleFiles[f].text # NoText
                => VisibleFiles[f].text = Text[fileStamps[f]])

(* An incremental pass removes the rows only of files it looked for, with a  *)
(* scan that saw everything: nothing else is taken for deleted               *)
(* (run_source_with, "Rows for other files are left untouched").            *)
DeletesInScope ==
    [][\A f \in LocalFiles :
           place \in {"warm", "commit"} /\ VisibleFiles[f] # NoRow /\ VisibleFiles'[f] = NoRow
               => (f \in pass.scope /\ pass.complete)]_localVars

(* The control plane never names a build whose rows were collected (ADR     *)
(* 0024, "a failed rebuild never leaves a source without a usable index").   *)
UsableIndex == ctl.active # NoLocal => status[ctl.active] # "none"

(* A pass that follows a request for a full rebuild, before one finished, is *)
(* a full one (coordinator.rs, "redo it rather than fall back to an          *)
(* incremental pass over the old one").                                     *)
ForcedIsFull == forced /\ place \in {"scan", "diff"} => pass.full

(* Once files stay as they are and nothing fails, the visible build becomes  *)
(* and stays what is on disk, from whatever a crash left behind.            *)
Converges ==
    <>[](ctl.active # NoLocal /\ \A f \in LocalFiles :
            IF fileStamps[f] = 0 THEN VisibleFiles[f] = NoRow
            ELSE VisibleFiles[f] # NoRow /\ VisibleFiles[f].text = Text[fileStamps[f]])
=============================================================================
