------------------------------- MODULE Reporting -------------------------------
(***************************************************************************)
(* What a run tells of itself and what `docmonk status` makes of it in     *)
(* local mode: the progress snapshot (docmonk-indexing/src/progress.rs)    *)
(* that the runs of several processes write to one file, its heartbeat,    *)
(* the UI's background runs (docmonk-ui/src/indexer.rs), and the verdict   *)
(* on each source from that file, the locks and the processes              *)
(* (docmonk-status/src/runtime.rs).                                        *)
(*                                                                         *)
(* A command and the UI index a batch of sources, then build their graphs; *)
(* the daemon's run lasts from its first pass to the last one out.         *)
(***************************************************************************)
EXTENDS Naturals, FiniteSets

CONSTANTS
    ReportedSources,
    Owners,         \* the processes that index: among "cli", "ui" and "daemon"
    MaxKept,        \* finished entries a snapshot keeps (MAX_FINISHED_SOURCES)
    MaxRuns, MaxInRun, \* bounds on runs, and on passes of a run of the daemon
    MaxDeaths       \* bound on deaths and panics

ASSUME ReportAssumption == Owners \subseteq {"cli", "ui", "daemon"}

Batches == Owners \ {"daemon"}
NoOwner == "none"

VARIABLES
    mem,            \* process -> its run's snapshot
    file,           \* index_progress.json
    fresh,          \* its heartbeat is younger than the stall threshold
    lockHeld,           \* source -> process that holds its lock, or Nobody
    task,           \* process -> source -> where that pass or graph is
    pid,            \* process -> its current process id
    alive,             \* process -> it lives
    going,          \* process -> a run is in progress
    uiActive,       \* the UI takes a run as under way
    ended,          \* process -> passes of its run that ended (ghost)
    reborn,         \* process -> entries made again after they were dropped
    runs, deaths

reportVars == <<mem, file, fresh, lockHeld, task, pid, alive, going, uiActive, ended, reborn,
                runs, deaths>>

NoRun == [running |-> FALSE, outcome |-> NoOwner, owner |-> NoOwner, pid |-> 0,
          entries |-> [s \in {} |-> NoOwner], ok |-> 0, bad |-> 0]

NewEntry == [active |-> TRUE, processed |-> 0, at |-> 0]

ReportInit ==
    /\ mem = [p \in Owners |-> NoRun] /\ file = NoRun /\ fresh = FALSE
    /\ lockHeld = [s \in ReportedSources |-> NoOwner]
    /\ task = [p \in Owners |-> [s \in ReportedSources |-> NoOwner]]
    /\ pid = [p \in Owners |-> 1] /\ alive = [p \in Owners |-> TRUE]
    /\ going = [p \in Owners |-> FALSE] /\ uiActive = FALSE
    /\ ended = [p \in Owners |-> 0] /\ reborn = [p \in Owners |-> {}]
    /\ runs = 0 /\ deaths = 0

-----------------------------------------------------------------------------
(* The snapshot.                                                           *)

\* Active entries stay; of the finished ones, the latest MaxKept.
Normalized(r) ==
    LET ages == {r.entries[s].at : s \in {x \in DOMAIN r.entries : ~r.entries[x].active}}
        kept == {s \in DOMAIN r.entries :
                    \/ r.entries[s].active
                    \/ Cardinality({a \in ages : a > r.entries[s].at}) < MaxKept}
    IN [r EXCEPT !.entries = [s \in kept |-> @[s]]]

Entry(r, s) == IF s \in DOMAIN r.entries THEN r.entries[s] ELSE NewEntry   \* source_mut

Put(r, s, e) ==
    [r EXCEPT !.entries = [x \in DOMAIN r.entries \cup {s} |-> IF x = s THEN e ELSE @[x]]]

Ended(e, n) == [e EXCEPT !.active = FALSE, !.at = n]

\* A structural change is written at once; so is a heartbeat of the ticker.
Store(p, r) ==
    /\ mem' = [mem EXCEPT ![p] = IF r.running THEN Normalized(r) ELSE NoRun]
    /\ file' = Normalized(r) /\ fresh' = TRUE

\* A counter is written if the last write is long enough ago.
Count(p, r) == Store(p, r) \/ (mem' = [mem EXCEPT ![p] = r] /\ UNCHANGED <<file, fresh>>)

-----------------------------------------------------------------------------
(* Runs.                                                                   *)

BeginEntry(p) ==
    [NoRun EXCEPT !.running = TRUE, !.outcome = "running", !.owner = p, !.pid = pid[p]]

\* docmonk index, or the UI's button: refused while the UI has a run under way.
BeginRun(p) ==
    /\ p \in Batches /\ alive[p] /\ ~going[p] /\ runs < MaxRuns
    /\ p = "ui" => ~uiActive
    /\ runs' = runs + 1
    /\ going' = [going EXCEPT ![p] = TRUE]
    /\ uiActive' = (uiActive \/ p = "ui")
    /\ task' = [task EXCEPT ![p] = [s \in ReportedSources |-> "todo"]]
    /\ Store(p, BeginEntry(p))
    /\ UNCHANGED <<lockHeld, pid, alive, ended, reborn, deaths>>

\* A pass under its source's lock, or blocked by another one.
StartPass(p, s) ==
    /\ going[p] /\ alive[p] /\ p \in Batches /\ task[p][s] = "todo"
    /\ \/ /\ lockHeld[s] = NoOwner
          /\ lockHeld' = [lockHeld EXCEPT ![s] = p]
          /\ task' = [task EXCEPT ![p][s] = "in"]
          /\ Store(p, Put(mem[p], s, NewEntry))
       \/ /\ lockHeld[s] # NoOwner
          /\ task' = [task EXCEPT ![p][s] = "over"]
          /\ UNCHANGED <<lockHeld, mem, file, fresh>>
    /\ UNCHANGED <<pid, alive, going, uiActive, ended, reborn, runs, deaths>>

\* The daemon: the first pass in starts its run.
DaemonPass(s) ==
    LET p == "daemon" IN
    /\ p \in Owners /\ alive[p] /\ task[p][s] = NoOwner /\ lockHeld[s] = NoOwner
    /\ IF going[p] THEN ended[p] < MaxInRun ELSE runs < MaxRuns
    /\ runs' = IF going[p] THEN runs ELSE runs + 1
    /\ going' = [going EXCEPT ![p] = TRUE]
    /\ lockHeld' = [lockHeld EXCEPT ![s] = p]
    /\ task' = [task EXCEPT ![p][s] = "in"]
    /\ Store(p, Put(IF going[p] THEN mem[p] ELSE BeginEntry(p), s, NewEntry))
    /\ UNCHANGED <<pid, alive, uiActive, ended, reborn, deaths>>

\* A file that is done is counted; a change of stage is written like the rest.
PassEvent(p, s) ==
    /\ alive[p] /\ task[p][s] = "in" /\ Entry(mem[p], s).processed = 0
    /\ Count(p, Put(mem[p], s, [Entry(mem[p], s) EXCEPT !.processed = 1]))
    /\ UNCHANGED <<lockHeld, task, pid, alive, going, uiActive, ended, reborn, runs, deaths>>

Counted(r, s, ok) ==
    IF ~Entry(r, s).active THEN r
    ELSE IF ok THEN [r EXCEPT !.ok = @ + 1] ELSE [r EXCEPT !.bad = @ + 1]

Terminal(r, outcome, n) ==
    [r EXCEPT !.running = FALSE, !.outcome = outcome,
              !.entries = [s \in DOMAIN r.entries |->
                  IF r.entries[s].active THEN Ended(r.entries[s], n) ELSE r.entries[s]]]

FinishPass(p, s) ==
    /\ alive[p] /\ task[p][s] = "in" /\ lockHeld[s] = p
    /\ \E ok \in BOOLEAN :
           LET n == ended[p] + 1
               r == Put(Counted(mem[p], s, ok), s, Ended(Entry(mem[p], s), n))
               last == p = "daemon" /\ \A x \in ReportedSources \ {s} : task[p][x] = NoOwner
           IN /\ task' = [task EXCEPT ![p][s] =
                     IF p = "daemon" THEN NoOwner ELSE IF ok THEN "indexed" ELSE "over"]
              /\ Store(p, IF last
                          THEN Terminal(r, IF ok THEN "completed" ELSE "failed", n) ELSE r)
              /\ ended' = [ended EXCEPT ![p] = IF last THEN 0 ELSE n]
              /\ going' = IF last THEN [going EXCEPT ![p] = FALSE] ELSE going
    /\ lockHeld' = [lockHeld EXCEPT ![s] = NoOwner]
    /\ UNCHANGED <<pid, alive, uiActive, reborn, runs, deaths>>

\* Past the barrier the graph of what was indexed is due.  An entry that was
\* dropped since is made again, as a pass that runs.
GraphDue(p, s) ==
    /\ going[p] /\ alive[p] /\ p \in Batches /\ task[p][s] = "indexed"
    /\ \A x \in ReportedSources : task[p][x] \notin {"todo", "in"}
    /\ task' = [task EXCEPT ![p][s] = "pending"]
    /\ reborn' = [reborn EXCEPT ![p] =
           IF s \in DOMAIN mem[p].entries THEN @ ELSE @ \cup {s}]
    /\ Store(p, Put(mem[p], s, Entry(mem[p], s)))
    /\ UNCHANGED <<lockHeld, pid, alive, going, uiActive, ended, runs, deaths>>

BuildGraph(p, s) ==
    /\ alive[p] /\ going[p]
    /\ \/ /\ task[p][s] = "pending" /\ lockHeld[s] = NoOwner
          /\ lockHeld' = [lockHeld EXCEPT ![s] = p]
          /\ task' = [task EXCEPT ![p][s] = "graph"]
       \/ /\ task[p][s] = "graph" \/ (task[p][s] = "pending" /\ lockHeld[s] # NoOwner)
          /\ lockHeld' = IF lockHeld[s] = p THEN [lockHeld EXCEPT ![s] = NoOwner] ELSE lockHeld
          /\ task' = [task EXCEPT ![p][s] = "over"]
    /\ Store(p, Put(mem[p], s, Entry(mem[p], s)))
    /\ reborn' = [reborn EXCEPT ![p] =
           IF s \in DOMAIN mem[p].entries THEN @ ELSE @ \cup {s}]
    /\ UNCHANGED <<pid, alive, going, uiActive, ended, runs, deaths>>

\* The final snapshot ends the entries that are still active, uncounted.
EndRun(p) ==
    /\ p \in Batches /\ going[p] /\ alive[p]
    /\ \A s \in ReportedSources : task[p][s] \in {"over", NoOwner}
    /\ going' = [going EXCEPT ![p] = FALSE]
    /\ uiActive' = (uiActive /\ p # "ui")
    /\ task' = [task EXCEPT ![p] = [s \in ReportedSources |-> NoOwner]]
    /\ ended' = [ended EXCEPT ![p] = 0] /\ reborn' = [reborn EXCEPT ![p] = {}]
    /\ \E outcome \in {"completed", "failed"} : Store(p, Terminal(mem[p], outcome, ended[p] + 1))
    /\ UNCHANGED <<lockHeld, pid, alive, runs, deaths>>

\* The ticker writes the snapshot of a run that goes on.
Heartbeat(p) ==
    /\ going[p] /\ alive[p] /\ Store(p, mem[p])
    /\ UNCHANGED <<lockHeld, task, pid, alive, going, uiActive, ended, reborn, runs, deaths>>

-----------------------------------------------------------------------------
(* Deaths, and time.                                                       *)

Unlocked(p) == [s \in ReportedSources |-> IF lockHeld[s] = p THEN NoOwner ELSE lockHeld[s]]

OwnerDies(p) ==
    /\ alive[p] /\ going[p] /\ deaths < MaxDeaths /\ deaths' = deaths + 1
    /\ alive' = [alive EXCEPT ![p] = FALSE]
    /\ going' = [going EXCEPT ![p] = FALSE]
    /\ task' = [task EXCEPT ![p] = [s \in ReportedSources |-> NoOwner]]
    /\ lockHeld' = Unlocked(p) /\ uiActive' = (uiActive /\ p # "ui")
    /\ mem' = [mem EXCEPT ![p] = NoRun]
    /\ ended' = [ended EXCEPT ![p] = 0] /\ reborn' = [reborn EXCEPT ![p] = {}]
    /\ UNCHANGED <<file, fresh, pid, runs>>

Restart(p) ==
    /\ ~alive[p]
    /\ alive' = [alive EXCEPT ![p] = TRUE] /\ pid' = [pid EXCEPT ![p] = @ + 1]
    /\ UNCHANGED <<mem, file, fresh, lockHeld, task, going, uiActive, ended, reborn, runs, deaths>>

\* A panic in the UI's run: its process lives on, no final snapshot is written,
\* and the flag that a run is under way stays.
Panic ==
    /\ "ui" \in Owners /\ alive["ui"] /\ going["ui"] /\ deaths < MaxDeaths /\ deaths' = deaths + 1
    /\ going' = [going EXCEPT !["ui"] = FALSE]
    /\ task' = [task EXCEPT !["ui"] = [s \in ReportedSources |-> NoOwner]]
    /\ lockHeld' = Unlocked("ui")
    /\ mem' = [mem EXCEPT !["ui"] = NoRun]
    /\ ended' = [ended EXCEPT !["ui"] = 0] /\ reborn' = [reborn EXCEPT !["ui"] = {}]
    /\ UNCHANGED <<file, fresh, pid, alive, uiActive, runs>>

Beating(r) == r.running /\ alive[r.owner] /\ pid[r.owner] = r.pid /\ going[r.owner]

\* The stall threshold passes; a run that goes on has beaten meanwhile.
TimePasses ==
    /\ fresh /\ file.running /\ ~Beating(file)
    /\ fresh' = FALSE
    /\ UNCHANGED <<mem, file, lockHeld, task, pid, alive, going, uiActive, ended, reborn, runs,
                   deaths>>

ReportNext ==
    \/ \E p \in Owners : BeginRun(p) \/ EndRun(p) \/ Heartbeat(p) \/ OwnerDies(p) \/ Restart(p)
    \/ \E p \in Owners, s \in ReportedSources :
           \/ StartPass(p, s) \/ PassEvent(p, s) \/ FinishPass(p, s)
           \/ GraphDue(p, s) \/ BuildGraph(p, s)
    \/ \E s \in ReportedSources : DaemonPass(s)
    \/ Panic \/ TimePasses

ReportSpec == ReportInit /\ [][ReportNext]_reportVars

-----------------------------------------------------------------------------
(* The verdict (local_runs).                                               *)

ProcessAlive(r) == r.running /\ alive[r.owner] /\ pid[r.owner] = r.pid

\* Mutant: the process is not asked for.
VerdictUnprobed(s) ==
    LET shown == s \in DOMAIN file.entries
        v == IF ~shown THEN NoOwner
             ELSE IF ~file.entries[s].active THEN "finished"
             ELSE IF ~file.running THEN "expired"
             ELSE IF ~fresh THEN "stalled" ELSE "live"
    IN IF lockHeld[s] # NoOwner THEN "live" ELSE v

\* A lock that is held without a live entry: a pass that this file does not show.
Verdict(s) ==
    LET shown == s \in DOMAIN file.entries
        v == IF ~shown THEN NoOwner
             ELSE IF ~file.entries[s].active THEN "finished"
             ELSE IF ~ProcessAlive(file) THEN "expired"
             ELSE IF ~fresh THEN "stalled" ELSE "live"
    IN IF lockHeld[s] # NoOwner THEN "live" ELSE v

LastRun ==
    IF file.owner = NoOwner THEN NoOwner
    ELSE IF ~file.running THEN file.outcome
    ELSE IF ~ProcessAlive(file) THEN "crashed" ELSE NoOwner

(* What runs is shown as live, whoever wrote the file last.  What is shown   *)
(* as live runs, or stopped less than a threshold ago in a process that      *)
(* lives, or is the entry of a finished pass that was dropped and made       *)
(* again.  A snapshot counts each pass of its run once.  When every run has  *)
(* ended in order, the file says so, and the UI has no run under way unless  *)
(* one of its runs panicked.  Code: runtime.rs:50-169, progress.rs:274-600,  *)
(* indexer.rs:82-142.                                                        *)
IsRunning(s) == \E p \in Owners : going[p] /\ task[p][s] \in {"in", "graph"}

ReportRight ==
    /\ \A s \in ReportedSources :
           /\ IsRunning(s) => Verdict(s) = "live"
           /\ Verdict(s) = "live" =>
                  \/ IsRunning(s) \/ s \in reborn[file.owner]
                  \/ fresh /\ alive[file.owner] /\ ~going[file.owner]
    /\ \A p \in Owners : going[p] => mem[p].ok + mem[p].bad = ended[p]
    /\ deaths = 0 /\ (\A p \in Owners : ~going[p]) => ~file.running /\ ~uiActive
    /\ LastRun = "crashed" => deaths > 0
=============================================================================
