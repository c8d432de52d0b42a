----------------------------- MODULE Installing -----------------------------
(***************************************************************************)
(* Self-update (docmonk-update): the versioned layout with its `current`   *)
(* link and recorded state, install, rollback and pruning, with failed     *)
(* calls and a process that dies anywhere.                                 *)
(*                                                                         *)
(* A version is a number: 2k the release k, 2k-1 a build before it.  What  *)
(* the signature and the digest refuse is a failed download.               *)
(*                                                                         *)
(* And the update notice: commands announce a newer release that the       *)
(* cached check found, and start a check in the background when the cache  *)
(* is stale.  Each reads and rewrites the one cache file with nothing to   *)
(* keep the others out.                                                    *)
(***************************************************************************)
EXTENDS Naturals, Sequences, FiniteSets

CONSTANTS
    Releases,       \* what is published, in order: [version, draft, asset, starts]
    FirstVersion,   \* the version installed first
    ModelFiles,     \* names of bundled model files
    MaxCommands,    \* bound on install and rollback commands
    MaxMishaps      \* bound on failed calls and deaths

ASSUME InstallAssumption ==
    /\ FirstVersion \in Nat \ {0}
    /\ Releases \in Seq([version : Nat \ {0}, draft : BOOLEAN, asset : BOOLEAN, starts : BOOLEAN])
    /\ \A i, j \in 1 .. Len(Releases) : Releases[i].version = Releases[j].version => i = j

VARIABLES
    windows,        \* no link: `current` is a copy of the binary
    published,      \* number of releases out
    dirs,           \* versions/<v> with a binary
    partials,       \* versions/<v>.partial
    link,           \* what `current` runs; 0: nothing
    record,         \* install_state.json
    models,         \* home/models: file -> version it came from
    upStep,         \* where the command is
    target,         \* the version it installs or goes back to
    goingBack,      \* it is a rollback, asked for or after a failed start
    upBefore,       \* link and record before the command
    toCopy,         \* model files still to copy
    commands, mishaps,
    condemned       \* versions removed because they did not start

installVars == <<windows, published, dirs, partials, link, record, models,
                 upStep, target, goingBack, upBefore, toCopy, commands, mishaps,
                 condemned>>

None == 0

InstallInit ==
    /\ windows = FALSE /\ published = 0
    /\ dirs = {FirstVersion} /\ partials = {}
    /\ link = FirstVersion
    /\ record = [current |-> FirstVersion, previous |-> None]
    /\ models = [f \in ModelFiles |-> FirstVersion]
    /\ upStep = "first" /\ target = None /\ goingBack = FALSE
    /\ upBefore = [link |-> FirstVersion, record |-> record]
    /\ toCopy = {} /\ commands = 0 /\ mishaps = 0 /\ condemned = {}

\* The platform, and how much is published at first.
ChoosePlatform ==
    /\ upStep = "first" /\ upStep' = "idle"
    /\ windows' \in BOOLEAN
    /\ UNCHANGED <<published, dirs, partials, link, record, models, target,
                   goingBack, upBefore, toCopy, commands, mishaps, condemned>>

Publish ==
    /\ upStep = "idle" /\ published < Len(Releases) /\ published' = published + 1
    /\ UNCHANGED <<windows, dirs, partials, link, record, models, upStep, target,
                   goingBack, upBefore, toCopy, commands, mishaps, condemned>>

-----------------------------------------------------------------------------
(* Versions and releases.                                                  *)

IsNewer(candidate, installed) == candidate % 2 = 0 /\ candidate > installed

Valid(r) == r.version % 2 = 0
OutNow == {Releases[i] : i \in 1 .. published}
Largest(S) == CHOOSE v \in S : \A w \in S : v >= w

\* fetch_latest: the last one that is no draft, or the newest in the list that
\* has an archive for this platform; None: an error.
FetchLatest(channel) ==
    LET ready  == {i \in 1 .. published : ~Releases[i].draft}
        listed == {r \in {Releases[i] : i \in ready} : Valid(r) /\ r.asset}
    IN  IF channel = "prerelease" THEN Largest({None} \cup {r.version : r \in listed})
        ELSE IF ready = {} \/ ~Valid(Releases[Largest(ready)]) THEN None
        ELSE Releases[Largest(ready)].version

Channels == {"stable", "prerelease"}
ReleaseOf(v) == CHOOSE r \in OutNow : r.version = v
Starts(v) == v = FirstVersion \/ ReleaseOf(v).starts

-----------------------------------------------------------------------------
(* Install and rollback.                                                   *)

Mishap == mishaps < MaxMishaps /\ mishaps' = mishaps + 1

\* The command ends, with an error or not.
End == upStep' = "idle" /\ UNCHANGED <<target, goingBack, toCopy>>

Error ==
    /\ End
    /\ UNCHANGED <<windows, published, dirs, partials, link, record, models,
                   upBefore, commands, condemned>>

\* install_latest up to the verified archive: what is not newer is no change.
InstallLatest(channel) ==
    LET v == FetchLatest(channel) IN
    /\ upStep = "idle" /\ commands < MaxCommands /\ link # None
    /\ v # None /\ IsNewer(v, link) /\ \E r \in OutNow : r.version = v /\ r.asset
    /\ commands' = commands + 1
    /\ target' = v /\ goingBack' = FALSE
    /\ upBefore' = [link |-> link, record |-> record]
    /\ upStep' = IF v \in dirs THEN "check" ELSE "unpack"
    /\ UNCHANGED <<windows, published, dirs, partials, link, record, models, toCopy,
                   mishaps, condemned>>

\* The archive goes to <v>.partial; a corrupt one leaves it there.
Unpack ==
    /\ upStep = "unpack"
    /\ partials' = partials \cup {target}
    /\ \/ upStep' = "place" /\ UNCHANGED mishaps
       \/ upStep' = "idle" /\ Mishap
    /\ UNCHANGED <<windows, published, dirs, link, record, models, target, goingBack,
                   upBefore, toCopy, commands, condemned>>

\* An archive without the binary is given up; else it becomes the directory.
Place ==
    /\ upStep = "place"
    /\ partials' = partials \ {target}
    /\ \/ dirs' = dirs \cup {target} /\ upStep' = "check" /\ UNCHANGED mishaps
          /\ condemned' = condemned \ {target}
       \/ UNCHANGED <<dirs, condemned>> /\ upStep' = "idle" /\ Mishap
    /\ UNCHANGED <<windows, published, link, record, models, target, goingBack,
                   upBefore, toCopy, commands>>

\* self_check: a binary that does not start, or not any more, is removed
\* unless it is the current one.
SelfCheck ==
    /\ upStep = "check"
    /\ \/ /\ Starts(target)
          /\ upStep' = "models" /\ toCopy' = ModelFiles
          /\ UNCHANGED <<dirs, mishaps, condemned>>
       \/ /\ IF Starts(target) THEN Mishap ELSE UNCHANGED mishaps
          /\ dirs' = IF record.current # target THEN dirs \ {target} ELSE dirs
          /\ condemned' = condemned \cup (dirs \ dirs')
          /\ upStep' = "idle" /\ UNCHANGED toCopy
    /\ UNCHANGED <<windows, published, partials, link, record, models, target, goingBack,
                   upBefore, commands>>

\* rollback: to the recorded previous version, if it is still there.
Rollback ==
    /\ upStep = "idle" /\ commands < MaxCommands /\ link # None
    /\ record.current # None /\ record.previous # None /\ record.previous \in dirs
    /\ commands' = commands + 1
    /\ target' = record.previous /\ goingBack' = TRUE
    /\ upBefore' = [link |-> link, record |-> record]
    /\ toCopy' = ModelFiles /\ upStep' = "models"
    /\ UNCHANGED <<windows, published, dirs, partials, link, record, models, mishaps, condemned>>

\* copy_models, a file at a time, over those that are there.
CopyModel(f) ==
    /\ upStep = "models" /\ f \in toCopy
    /\ models' = [models EXCEPT ![f] = target] /\ toCopy' = toCopy \ {f}
    /\ UNCHANGED <<windows, published, dirs, partials, link, record, upStep, target,
                   goingBack, upBefore, commands, mishaps, condemned>>

ModelsCopied ==
    /\ upStep = "models" /\ toCopy = {}
    /\ upStep' = IF target \in dirs THEN "point" ELSE "idle"
    /\ UNCHANGED <<windows, published, dirs, partials, link, record, models, target,
                   goingBack, upBefore, toCopy, commands, mishaps, condemned>>

\* switch_to, first half: the link is replaced in one step; on Windows the
\* running binary moves aside first.
PointCurrent ==
    /\ upStep = "point"
    /\ IF windows THEN link' = None /\ upStep' = "copyExe"
       ELSE link' = target /\ upStep' = "record"
    /\ UNCHANGED <<windows, published, dirs, partials, record, models, target, goingBack,
                   upBefore, toCopy, commands, mishaps, condemned>>

\* A failed copy puts the old binary back.
CopyExe ==
    /\ upStep = "copyExe"
    /\ \/ link' = target /\ upStep' = "record" /\ UNCHANGED mishaps
       \/ link' = upBefore.link /\ upStep' = "idle" /\ Mishap
    /\ UNCHANGED <<windows, published, dirs, partials, record, models, target, goingBack,
                   upBefore, toCopy, commands, condemned>>

\* switch_to, second half: write_state.  A failed write is an error.
Record ==
    /\ upStep = "record"
    /\ record' = [current |-> target,
                  previous |-> IF record.current \notin {target, None}
                               THEN record.current ELSE record.previous]
    /\ upStep' = IF goingBack THEN "idle" ELSE "recheck"
    /\ UNCHANGED <<windows, published, dirs, partials, link, models, target, goingBack,
                   upBefore, toCopy, commands, mishaps, condemned>>

\* The doctor ran; a binary that does not start after the switch is left for
\* the one before, if there is one, and keeps its models.
Recheck ==
    /\ upStep = "recheck"
    /\ \/ upStep' = "prune" /\ UNCHANGED <<target, goingBack, upBefore, mishaps>>
       \/ /\ Mishap
          /\ IF record.previous = None
             THEN upStep' = "prune" /\ UNCHANGED <<target, goingBack, upBefore>>
             ELSE /\ upStep' = IF record.previous \in dirs THEN "point" ELSE "idle"
                  /\ target' = record.previous /\ goingBack' = TRUE
                  /\ upBefore' = [upBefore EXCEPT !.link = link]
    /\ UNCHANGED <<windows, published, dirs, partials, link, record, models, toCopy,
                   commands, condemned>>

\* Mutant: only the current version is kept.
PruneToCurrent ==
    /\ upStep = "prune"
    /\ LET extra == dirs \ {record.current} IN
       IF partials = {} /\ extra = {} THEN upStep' = "idle" /\ UNCHANGED <<dirs, partials, condemned>>
       ELSE /\ UNCHANGED upStep
            /\ \/ \E v \in partials : partials' = partials \ {v} /\ UNCHANGED dirs
               \/ \E v \in extra : dirs' = dirs \ {v} /\ UNCHANGED partials
    /\ UNCHANGED <<windows, published, link, record, models, target, goingBack, upBefore,
                   toCopy, commands, mishaps, condemned>>

\* prune, a directory at a time.
Prune ==
    /\ upStep = "prune"
    /\ LET extra == dirs \ {record.current, record.previous} IN
       IF partials = {} /\ extra = {} THEN upStep' = "idle" /\ UNCHANGED <<dirs, partials, condemned>>
       ELSE /\ UNCHANGED upStep
            /\ \/ \E v \in partials : partials' = partials \ {v} /\ UNCHANGED dirs
               \/ \E v \in extra : dirs' = dirs \ {v} /\ UNCHANGED partials
    /\ UNCHANGED <<windows, published, link, record, models, target, goingBack, upBefore,
                   toCopy, commands, mishaps, condemned>>

\* A call fails, or the process dies, where the command is.
Break ==
    /\ upStep \notin {"first", "idle"} /\ Mishap
    /\ Error

\* The state file cannot be read: read_state takes it for an empty one.
LoseRecord ==
    /\ upStep = "idle" /\ record.current # None /\ Mishap
    /\ record' = [current |-> None, previous |-> None]
    /\ UNCHANGED <<windows, published, dirs, partials, link, models, upStep, target,
                   goingBack, upBefore, toCopy, commands, condemned>>

InstallNext ==
    \/ ChoosePlatform \/ Publish
    \/ \E channel \in Channels : InstallLatest(channel)
    \/ Unpack \/ Place \/ SelfCheck \/ Rollback
    \/ \E f \in ModelFiles : CopyModel(f)
    \/ ModelsCopied \/ PointCurrent \/ CopyExe \/ Record \/ Recheck \/ Prune
    \/ Break \/ LoseRecord

InstallSpec == InstallInit /\ [][InstallNext]_installVars

-----------------------------------------------------------------------------
(* `current` always runs an installed version that started when it was      *)
(* installed; only on Windows a death amid the switch leaves nothing to run. *)
(* The version recorded as previous stays installed, unless it was found     *)
(* broken since, and is the one that ran before the install.  A command that *)
(* met no trouble leaves the recorded version running with its own models,   *)
(* and nothing else on disk; one that was refused changed nothing.  Code:    *)
(* install.rs:49-179, layout.rs:125-206.                                     *)
CurrentRuns ==
    /\ link = None => windows /\ (upStep = "copyExe" \/ mishaps > 0)
    /\ link # None => link \in dirs /\ Starts(link)

WayBack ==
    /\ {record.current, record.previous} \subseteq dirs \cup {None} \cup condemned
    /\ upStep = "prune" /\ upBefore.record.current = upBefore.link
           => record = [current |-> target, previous |-> upBefore.link]

Tidy ==
    upStep = "idle" /\ mishaps = 0 =>
        /\ record.current = link /\ partials = {}
        /\ \A f \in ModelFiles : models[f] = link
        /\ dirs = {record.current, record.previous} \ {None}

InstallRight == CurrentRuns /\ WayBack /\ Tidy

-----------------------------------------------------------------------------
(* The notice (check.rs, cache.rs).                                          *)

CONSTANTS
    Terminals,      \* commands that may run at a time
    Checkers,       \* background checks that may run at a time
    LastRelease,    \* bound on releases
    MaxTicks        \* bound on the times the cache gets stale

ASSUME NoticeAssumption == LastRelease \in Nat

Nothing == [latest |-> 0, notified |-> 0, fresh |-> FALSE]

VARIABLES
    release,        \* the newest release
    running,        \* the version installed
    cache,          \* update.json, or Nothing: absent or unreadable
    noticing,       \* command -> what it read of the cache
    checking,       \* check -> what it is to write, "fetched" before
    fetched,        \* check -> the release it was told of
    ticks,
    told,           \* release -> times announced, at most 2 counted
    overtaken       \* the file was written between a read and a write of another

tellVars == <<release, running, cache, noticing, checking, fetched, ticks,
                told, overtaken>>

NoticeInit ==
    /\ release = 1 /\ running = 1 /\ cache = Nothing
    /\ noticing = [c \in Terminals |-> Nothing]
    /\ checking = [k \in Checkers |-> Nothing] /\ fetched = [k \in Checkers |-> 0]
    /\ ticks = 0 /\ told = [v \in 1 .. LastRelease |-> 0] /\ overtaken = FALSE

NewRelease ==
    /\ release < LastRelease /\ release' = release + 1
    /\ UNCHANGED <<running, cache, noticing, checking, fetched, ticks, told, overtaken>>

\* An update, or a rollback.
Install ==
    /\ \E v \in 1 .. release : v # running /\ running' = v
    /\ UNCHANGED <<release, cache, noticing, checking, fetched, ticks, told, overtaken>>

\* is_stale: check_interval_hours pass.
Tick ==
    /\ ticks < MaxTicks /\ cache # Nothing /\ cache.fresh
    /\ ticks' = ticks + 1 /\ cache' = [cache EXCEPT !.fresh = FALSE]
    /\ UNCHANGED <<release, running, noticing, checking, fetched, told, overtaken>>

Pending(k) == fetched[k] # 0
Crowded == \/ \E c, d \in Terminals : c # d /\ noticing[c] # Nothing /\ noticing[d] # Nothing
           \/ \E k, l \in Checkers : k # l /\ Pending(k) /\ Pending(l)
           \/ \E c \in Terminals, k \in Checkers : noticing[c] # Nothing /\ Pending(k)

\* cache::write: another file, renamed over this one.
Write(entry) ==
    /\ cache' = entry
    /\ overtaken' = (overtaken \/ Crowded)

-----------------------------------------------------------------------------
(* A command starts: take_notice, then background_due.                     *)

\* take_notice announces what is newer than the running version and is not
\* marked as announced.
ToAnnounce(entry) ==
    entry # Nothing /\ entry.latest > running /\ entry.notified # entry.latest

ReadNotice(c) ==
    /\ noticing[c] = Nothing /\ ToAnnounce(cache)
    /\ noticing' = [noticing EXCEPT ![c] = cache]
    /\ UNCHANGED <<release, running, cache, checking, fetched, ticks, told, overtaken>>

TakeNotice(c) ==
    /\ noticing[c] # Nothing
    /\ LET v == noticing[c].latest IN
       /\ told' = [told EXCEPT ![v] = IF @ < 2 THEN @ + 1 ELSE @]
       /\ Write([noticing[c] EXCEPT !.notified = v])
    /\ noticing' = [noticing EXCEPT ![c] = Nothing]
    /\ UNCHANGED <<release, running, checking, fetched, ticks>>

BackgroundDue == cache = Nothing \/ ~cache.fresh

-----------------------------------------------------------------------------
(* check_now, in the background or asked for.                              *)

Fetch(k) ==
    /\ ~Pending(k) /\ BackgroundDue
    /\ fetched' = [fetched EXCEPT ![k] = release]
    /\ UNCHANGED <<release, running, cache, noticing, checking, ticks, told, overtaken>>

\* Mutant: the mark is not carried over.
NoMark(v) == 0

\* The mark is carried over when the release is the one it was for.
Carried(v) == IF cache # Nothing /\ cache.latest = v THEN cache.notified ELSE 0

ReadMark(k) ==
    /\ Pending(k) /\ checking[k] = Nothing
    /\ checking' = [checking EXCEPT ![k] =
           [latest |-> fetched[k], notified |-> Carried(fetched[k]), fresh |-> TRUE]]
    /\ UNCHANGED <<release, running, cache, noticing, fetched, ticks, told, overtaken>>

CheckNow(k) ==
    /\ checking[k] # Nothing
    /\ Write(checking[k])
    /\ checking' = [checking EXCEPT ![k] = Nothing]
    /\ fetched' = [fetched EXCEPT ![k] = 0]
    /\ UNCHANGED <<release, running, noticing, ticks, told>>

\* GitHub cannot be reached, or the process ends.
FailCheck(k) ==
    /\ Pending(k)
    /\ checking' = [checking EXCEPT ![k] = Nothing]
    /\ fetched' = [fetched EXCEPT ![k] = 0]
    /\ UNCHANGED <<release, running, cache, noticing, ticks, told, overtaken>>

NoticeNext ==
    \/ NewRelease \/ Install \/ Tick
    \/ \E c \in Terminals : ReadNotice(c) \/ TakeNotice(c)
    \/ \E k \in Checkers : Fetch(k) \/ ReadMark(k) \/ CheckNow(k) \/ FailCheck(k)

NoticeSpec == NoticeInit /\ [][NoticeNext]_tellVars

-----------------------------------------------------------------------------
(* A release is announced once, unless two processes had the cache in hand   *)
(* at a time.  Code: check.rs:12-63, cache.rs:24-47.                         *)
ToldOnce == overtaken \/ \A v \in 1 .. LastRelease : told[v] <= 1
=============================================================================
