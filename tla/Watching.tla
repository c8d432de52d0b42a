------------------------------ MODULE Watching ------------------------------
(***************************************************************************)
(* How a change of a file reaches a pass: the local watcher and its        *)
(* debouncer (docmonk-indexing/src/watcher/local.rs, debounce.rs), the     *)
(* poller of a network root (watcher/network.rs), and how the daemon       *)
(* attaches them, coalesces what they report into the request of the next  *)
(* pass, and stops (daemon/mod.rs).  One source, whose root may go away.   *)
(*                                                                         *)
(* A version stands for size and mtime, 0 for no file.  The kernel delivers *)
(* late or says that it lost events.  A quiet period ends at any time after *)
(* the last notification of its key: any ready set of keys may fire.        *)
(***************************************************************************)
EXTENDS Naturals, FiniteSets

CONSTANTS
    WatchFiles,     \* files of the source (naturals: keys fire in order)
    MaxTouches,     \* bound: changes on disk
    MaxWoes         \* bound: roots lost, failed passes, stops, reconciliations

ASSUME WatchAssumption ==
    /\ WatchFiles \subseteq Nat /\ IsFiniteSet(WatchFiles)
    /\ MaxTouches \in Nat /\ MaxWoes \in Nat

VARIABLES
    sourceKind,     \* "local", "network"; "unknown" until the first start
    onDisk,         \* version of each file
    noted,          \* version the last pass that read it saw
    reachable,      \* the root can be reached
    daemon,         \* "down", "attached" (before the startup request), "up"
    watching,       \* "none", "on", "deaf": its root was replaced
    heard,          \* local: files of events not yet delivered
    lostEvents,     \* local: an overflow is still to be reported
    due,            \* local: keys of the debouncer, waiting for quiet
    firing,         \* local: keys taken out, their callback still to come
    last,           \* network: the previous fingerprint
    asked,          \* the scheduler's entry of the source
    scanning,       \* the pass that runs
    forgotten,      \* history: files whose request a pass took and dropped, and
                    \* those that came and went between two polls
    touches, woes

watchVars == <<sourceKind, onDisk, noted, reachable, daemon, watching, heard,
               lostEvents, due, firing, last, asked, scanning, forgotten,
               touches, woes>>
worldVars == <<sourceKind, onDisk, reachable, touches>>
noticeVars == <<watching, heard, lostEvents, due, firing, last>>

NoFingerprint == [f \in WatchFiles |-> 0]
NotAsked == [queued |-> FALSE, full |-> FALSE, paths |-> {}]
NoScan == [on |-> FALSE, todo |-> {}, seen |-> {}, read |-> NoFingerprint]

WatchInit ==
    /\ sourceKind = "unknown"
    /\ onDisk = [f \in WatchFiles |-> 1] /\ noted = NoFingerprint
    /\ reachable = TRUE
    /\ daemon = "down" /\ watching = "none"
    /\ heard = {} /\ lostEvents = FALSE /\ due = {} /\ firing = {}
    /\ last = NoFingerprint
    /\ asked = NotAsked /\ scanning = NoScan
    /\ forgotten = {} /\ touches = 0 /\ woes = 0

-----------------------------------------------------------------------------
(* The world.                                                              *)

FileChanges(f, v) ==
    /\ touches < MaxTouches /\ touches' = touches + 1
    /\ reachable \/ sourceKind = "network"
    /\ v \in {0, touches + 2} \ {onDisk[f]}
    /\ onDisk' = [onDisk EXCEPT ![f] = v]
    /\ IF sourceKind = "local" /\ watching = "on"
       THEN \/ heard' = heard \cup {f} /\ UNCHANGED lostEvents
            \/ lostEvents' = TRUE /\ heard' = {}
       ELSE UNCHANGED <<heard, lostEvents>>
    /\ forgotten' = IF sourceKind = "network" /\ v = last[f]
                    THEN forgotten \cup {f} ELSE forgotten
    /\ UNCHANGED <<sourceKind, noted, reachable, daemon, watching, due,
                   firing, last, asked, scanning, woes>>

\* A native watch belongs to the directory it was placed on.
LoseRoot ==
    /\ reachable /\ woes < MaxWoes /\ woes' = woes + 1
    /\ reachable' = FALSE
    /\ watching' = IF sourceKind = "local" /\ watching = "on" THEN "deaf"
                   ELSE watching
    /\ UNCHANGED <<sourceKind, onDisk, noted, daemon, heard, lostEvents, due,
                   firing, last, asked, scanning, forgotten, touches>>

FindRoot ==
    /\ ~reachable /\ reachable' = TRUE
    /\ UNCHANGED <<sourceKind, onDisk, noted, daemon, noticeVars, asked,
                   scanning, forgotten, touches, woes>>

-----------------------------------------------------------------------------
(* Requests.                                                               *)

\* The scheduler refuses nothing here: Shared::enqueue does, once stopped.
With(full, paths) ==
    [queued |-> TRUE, full |-> asked.full \/ full,
     paths |-> IF asked.full \/ full THEN asked.paths ELSE asked.paths \cup paths]

AskPass(full, paths) ==
    asked' = IF daemon = "down" THEN asked ELSE With(full, paths)

\* The fingerprint of the root: empty when it cannot be reached.
Fingerprint == IF reachable THEN onDisk ELSE NoFingerprint

\* attach_watcher does nothing for a source that has one, and a local root
\* must exist.
AttachWatcher ==
    IF watching # "none" \/ (sourceKind' = "local" /\ ~reachable)
    THEN UNCHANGED <<watching, last>>
    ELSE /\ watching' = "on"
         /\ last' = IF sourceKind' = "network" THEN Fingerprint ELSE last

\* Start of the daemon, up to the threads: watchers first.
StartDaemon ==
    /\ daemon = "down" /\ ~scanning.on
    /\ daemon' = "attached"
    /\ IF sourceKind = "unknown" THEN sourceKind' \in {"local", "network"}
       ELSE UNCHANGED sourceKind
    /\ AttachWatcher
    /\ asked' = NotAsked /\ forgotten' = {}
    /\ UNCHANGED <<onDisk, noted, reachable, heard, lostEvents, due, firing,
                   scanning, touches, woes>>

\* Mutant: a source that has its watcher is left to it.
StartupOfUnwatched ==
    /\ daemon = "attached" /\ daemon' = "up"
    /\ IF watching = "on" THEN UNCHANGED asked ELSE AskPass(TRUE, {})
    /\ UNCHANGED <<worldVars, noted, noticeVars, scanning, forgotten, woes>>

\* ... and the startup request of every source.
Startup ==
    /\ daemon = "attached" /\ daemon' = "up"
    /\ AskPass(TRUE, {})
    /\ UNCHANGED <<worldVars, noted, noticeVars, scanning, forgotten, woes>>

ReconcileWatch ==
    /\ daemon = "up" /\ woes < MaxWoes /\ woes' = woes + 1
    /\ UNCHANGED sourceKind /\ AttachWatcher
    /\ AskPass(TRUE, {})
    /\ UNCHANGED <<onDisk, reachable, touches, noted, daemon, heard,
                   lostEvents, due, firing, scanning, forgotten>>

\* shutdown: triggers are refused, the watchers dropped with all they hold;
\* queued passes go, one that runs ends.
StopDaemon ==
    /\ daemon = "up" /\ woes < MaxWoes /\ woes' = woes + 1
    /\ daemon' = "down" /\ watching' = "none"
    /\ heard' = {} /\ lostEvents' = FALSE /\ due' = {} /\ firing' = {}
    /\ asked' = NotAsked /\ last' = NoFingerprint
    /\ UNCHANGED <<worldVars, noted, scanning, forgotten>>

-----------------------------------------------------------------------------
(* Notification.                                                           *)

\* handler_for: a path restarts the quiet period of its key.
Deliver(f) ==
    /\ f \in heard
    /\ heard' = heard \ {f} /\ due' = due \cup {f}
    /\ UNCHANGED <<worldVars, noted, daemon, watching, lostEvents, firing,
                   last, asked, scanning, forgotten, woes>>

\* ... an error or an overflow asks for everything.
ReportLoss ==
    /\ lostEvents /\ lostEvents' = FALSE
    /\ AskPass(TRUE, {})
    /\ UNCHANGED <<worldVars, noted, daemon, watching, heard, due, firing,
                   last, scanning, forgotten, woes>>

\* run: the keys that are ready leave the map before their callbacks.
Ready(keys) ==
    /\ firing = {} /\ keys # {} /\ keys \subseteq due
    /\ due' = due \ keys /\ firing' = keys
    /\ UNCHANGED <<worldVars, noted, daemon, watching, heard, lostEvents,
                   last, asked, scanning, forgotten, woes>>

FirstKey == CHOOSE f \in firing : \A g \in firing : f <= g

Fire ==
    /\ firing # {}
    /\ firing' = firing \ {FirstKey}
    /\ AskPass(FALSE, {FirstKey})
    /\ UNCHANGED <<worldVars, noted, daemon, watching, heard, lostEvents,
                   due, last, scanning, forgotten, woes>>

\* poll_once: what differs from the previous fingerprint, which is replaced.
Differs == {f \in WatchFiles : last[f] # Fingerprint[f]}

\* Mutant: a root that cannot be reached keeps no fingerprint and reports none.
PollQuietly ==
    /\ sourceKind = "network" /\ watching = "on" /\ Differs # {}
    /\ last' = Fingerprint
    /\ IF reachable THEN AskPass(FALSE, Differs) ELSE UNCHANGED asked
    /\ UNCHANGED <<worldVars, noted, daemon, watching, heard, lostEvents,
                   due, firing, scanning, forgotten, woes>>

Poll ==
    /\ sourceKind = "network" /\ watching = "on" /\ Differs # {}
    /\ last' = Fingerprint
    /\ AskPass(FALSE, Differs)
    /\ UNCHANGED <<worldVars, noted, daemon, watching, heard, lostEvents,
                   due, firing, scanning, forgotten, woes>>

-----------------------------------------------------------------------------
(* A pass.                                                                 *)

\* take_request: with no path there is no way to narrow the scan.
Wanted == IF asked.full \/ asked.paths = {} THEN WatchFiles ELSE asked.paths

\* The request is taken; a source that cannot be reached ends the pass well.
BeginPass ==
    /\ daemon # "down" /\ asked.queued /\ ~scanning.on
    /\ asked' = NotAsked
    /\ IF reachable
       THEN /\ scanning' = [on |-> TRUE, todo |-> Wanted, seen |-> {},
                            read |-> NoFingerprint]
            /\ UNCHANGED forgotten
       ELSE forgotten' = forgotten \cup Wanted /\ UNCHANGED scanning
    /\ UNCHANGED <<worldVars, noted, daemon, noticeVars, woes>>

Look(f) ==
    /\ scanning.on /\ f \in scanning.todo /\ reachable
    /\ scanning' = [scanning EXCEPT !.todo = @ \ {f}, !.seen = @ \cup {f},
                                    !.read[f] = onDisk[f]]
    /\ UNCHANGED <<worldVars, noted, daemon, noticeVars, asked, forgotten, woes>>

\* Mutant: the request is dropped when the pass ends.
EndLate ==
    /\ scanning.on /\ scanning.todo = {}
    /\ noted' = [f \in WatchFiles |->
           IF f \in scanning.seen THEN scanning.read[f] ELSE noted[f]]
    /\ scanning' = NoScan /\ asked' = NotAsked
    /\ forgotten' = forgotten \ {f \in scanning.seen : scanning.read[f] = onDisk[f]}
    /\ UNCHANGED <<worldVars, daemon, noticeVars, woes>>

EndPass ==
    /\ scanning.on /\ scanning.todo = {}
    /\ noted' = [f \in WatchFiles |->
           IF f \in scanning.seen THEN scanning.read[f] ELSE noted[f]]
    /\ scanning' = NoScan
    /\ forgotten' = forgotten \ {f \in scanning.seen : scanning.read[f] = onDisk[f]}
    /\ UNCHANGED <<worldVars, daemon, noticeVars, asked, woes>>

\* An error, a panic or a root lost on the way: the build is discarded, and
\* nobody asks again for what the pass was asked for.
FailPass ==
    /\ scanning.on
    /\ reachable => woes < MaxWoes
    /\ woes' = IF reachable THEN woes + 1 ELSE woes
    /\ forgotten' = forgotten \cup scanning.todo \cup scanning.seen
    /\ scanning' = NoScan
    /\ UNCHANGED <<worldVars, noted, daemon, noticeVars, asked>>

-----------------------------------------------------------------------------
Notify ==
    \/ \E f \in WatchFiles : Deliver(f)
    \/ ReportLoss \/ (\E keys \in SUBSET WatchFiles : Ready(keys)) \/ Fire \/ Poll

Pass == BeginPass \/ (\E f \in WatchFiles : Look(f)) \/ EndPass \/ FailPass

WatchNext ==
    \/ \E f \in WatchFiles, v \in 0 .. MaxTouches + 1 : FileChanges(f, v)
    \/ LoseRoot \/ FindRoot
    \/ StartDaemon \/ Startup \/ ReconcileWatch \/ StopDaemon
    \/ Notify \/ Pass

WatchSpec == WatchInit /\ [][WatchNext]_watchVars

\* The threads of a running daemon go on; nobody has to start one, and the
\* reconciliation interval is left out on purpose.
WatchFairness ==
    /\ WF_watchVars(Startup)
    /\ WF_watchVars(\E f \in WatchFiles : Deliver(f)) /\ WF_watchVars(ReportLoss)
    /\ WF_watchVars(\E keys \in SUBSET WatchFiles : Ready(keys))
    /\ WF_watchVars(Fire) /\ WF_watchVars(Poll) /\ WF_watchVars(Pass)

-----------------------------------------------------------------------------
(* While the daemon runs with a watcher that hears, a file whose index is     *)
(* stale is always on its way to a pass: in an event, in the debouncer, in a  *)
(* request, in the part of the running pass that will see it or has seen its  *)
(* last change, or in the next poll's difference - unless a pass took the     *)
(* request and dropped it, or the file came and went between two polls.  Code: debounce.rs:102-139, network.rs:48-92,      *)
(* daemon/mod.rs:280-453, 640-665.                                            *)
ChangesTracked ==
    daemon = "up" /\ watching = "on" =>
        \A f \in WatchFiles :
            \/ onDisk[f] = noted[f]
            \/ f \in heard \cup due \cup firing \cup forgotten
            \/ lostEvents
            \/ asked.queued /\ f \in Wanted
            \/ scanning.on /\ f \in scanning.todo
            \/ scanning.on /\ f \in scanning.seen /\ scanning.read[f] = onDisk[f]
            \/ sourceKind = "network" /\ (~reachable \/ last[f] # onDisk[f])

(* Without any reconciliation, what stays up long enough is noted, except   *)
(* what a pass dropped.                                                       *)
WatchSettles ==
    <>[](daemon = "up" /\ watching = "on" /\ reachable =>
         \A f \in WatchFiles : onDisk[f] = noted[f] \/ f \in forgotten)
=============================================================================
