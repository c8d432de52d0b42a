------------------------------ MODULE DaemonLife ------------------------------
(***************************************************************************)
(* The daemon's lifecycle: the commands that start and stop it, its own    *)
(* process, and the two files that are all they know of each other,        *)
(* daemon.pid and daemon_health.json (docmonk-service/src/daemon.rs,       *)
(* docmonk-indexing/src/daemon/pid.rs and health.rs).                      *)
(*                                                                         *)
(* A process id is free again once its process is gone.                    *)
(***************************************************************************)
EXTENDS Naturals, FiniteSets

CONSTANTS
    Pids,           \* process ids
    Shells,         \* processes that run `daemon start` and `daemon stop`
    MaxOrders,      \* bound on commands
    MaxHarms        \* bound on kills, failed starts, timeouts and reused ids

NoPid == 0

ASSUME LifeAssumption == NoPid \notin Pids

NoOrder == [step |-> "idle", pid |-> NoPid]

VARIABLES
    pidFile,        \* the recorded pid, or NoPid
    healthFile,     \* the process that wrote the health snapshot, or NoPid
    proc,           \* pid -> what runs there
    order,          \* shell -> the command it runs
    orders,
    harms,
    crossed,        \* two commands, or a command and a bare run, overlapped
    late,           \* a start gave up on a child that still lived
    misreport       \* "started" was reported on the health of another process

lifeVars == <<pidFile, healthFile, proc, order, orders, harms, crossed, late, misreport>>

\* What a process id stands for: a daemon on its way up ("spawned", "checked"),
\* one that indexes, one that was asked to stop, or a program of someone else.
ShellPhases == {"free", "spawned", "checked", "running", "stopping", "other"}

LifeInit ==
    /\ pidFile = NoPid /\ healthFile = NoPid
    /\ proc = [p \in Pids |-> "free"]
    /\ order = [c \in Shells |-> NoOrder]
    /\ orders = 0 /\ harms = 0 /\ crossed = FALSE /\ late = FALSE /\ misreport = FALSE

Alive(p) == p # NoPid /\ proc[p] # "free"
Recorded == IF Alive(pidFile) THEN pidFile ELSE NoPid     \* running_daemon
Serving(p) == proc[p] \in {"running", "stopping"}
AllIdle == \A c \in Shells : order[c] = NoOrder
Harm == harms < MaxHarms /\ harms' = harms + 1
Free(p) == proc[p] = "free" /\ \A c \in Shells : order[c].pid # p

-----------------------------------------------------------------------------
(* daemon start                                                            *)

StartDaemon(c) ==
    /\ order[c] = NoOrder /\ orders < MaxOrders /\ orders' = orders + 1
    /\ crossed' = (crossed \/ ~AllIdle \/ \E p \in Pids : proc[p] \in {"spawned", "checked"})
    /\ order' = [order EXCEPT ![c] =
           IF Recorded # NoPid THEN NoOrder ELSE [step |-> "spawn", pid |-> NoPid]]
    /\ UNCHANGED <<pidFile, healthFile, proc, harms, late, misreport>>

\* Mutant: the snapshot of the previous run stays.
SpawnKeepsHealth(c) ==
    /\ order[c].step = "spawn"
    /\ \E p \in Pids :
           /\ Free(p)
           /\ proc' = [proc EXCEPT ![p] = "spawned"]
           /\ order' = [order EXCEPT ![c] = [step |-> "record", pid |-> p]]
    /\ UNCHANGED <<healthFile, pidFile, orders, harms, crossed, late, misreport>>

\* The old snapshot goes first: it must not count as the child's.
Spawn(c) ==
    /\ order[c].step = "spawn"
    /\ \E p \in Pids :
           /\ Free(p)
           /\ proc' = [proc EXCEPT ![p] = "spawned"]
           /\ order' = [order EXCEPT ![c] = [step |-> "record", pid |-> p]]
    /\ healthFile' = NoPid
    /\ UNCHANGED <<pidFile, orders, harms, crossed, late, misreport>>

RecordChild(c) ==
    /\ order[c].step = "record"
    /\ pidFile' = order[c].pid
    /\ order' = [order EXCEPT ![c].step = "await"]
    /\ UNCHANGED <<healthFile, proc, orders, harms, crossed, late, misreport>>

\* The child is polled: gone, healthy, or too late.
Await(c) ==
    /\ order[c].step = "await"
    /\ \/ /\ Alive(order[c].pid) /\ healthFile # NoPid
          /\ misreport' = (misreport \/ healthFile # order[c].pid)
          /\ UNCHANGED <<pidFile, harms, late>>
       \/ /\ ~Alive(order[c].pid)
          /\ pidFile' = NoPid /\ UNCHANGED <<harms, late, misreport>>
       \/ /\ Alive(order[c].pid) /\ healthFile = NoPid /\ Harm
          /\ pidFile' = NoPid /\ late' = TRUE /\ UNCHANGED misreport
    /\ order' = [order EXCEPT ![c] = NoOrder]
    /\ UNCHANGED <<healthFile, proc, orders, crossed>>

-----------------------------------------------------------------------------
(* daemon stop: a graceful signal, and the wait for the process to end.    *)
(* Before the process registered its handler the signal ends it at once,   *)
(* and a process of someone else that has the recorded id gets it too.     *)

Signalled(p) ==
    [proc EXCEPT ![p] = CASE @ \in {"running", "stopping"} -> "stopping"
                          [] OTHER -> "free"]

StopDaemon(c) ==
    /\ order[c] = NoOrder /\ orders < MaxOrders /\ orders' = orders + 1
    /\ crossed' = (crossed \/ ~AllIdle \/ \E p \in Pids : proc[p] \in {"spawned", "checked"})
    /\ IF Recorded = NoPid
       THEN pidFile' = NoPid /\ UNCHANGED <<proc, order>>
       ELSE /\ proc' = Signalled(Recorded)
            /\ order' = [order EXCEPT ![c] = [step |-> "wait", pid |-> Recorded]]
            /\ UNCHANGED pidFile
    /\ UNCHANGED <<healthFile, harms, late, misreport>>

\* Ended, or not within the timeout: then it stays recorded.
WaitStopped(c) ==
    /\ order[c].step = "wait"
    /\ \/ ~Alive(order[c].pid) /\ pidFile' = NoPid /\ UNCHANGED harms
       \/ Alive(order[c].pid) /\ Harm /\ UNCHANGED pidFile
    /\ order' = [order EXCEPT ![c] = NoOrder]
    /\ UNCHANGED <<healthFile, proc, orders, crossed, late, misreport>>

-----------------------------------------------------------------------------
(* The daemon's process (run_foreground).                                  *)

\* `docmonk daemon run` or `watch` by hand.
BareRun ==
    /\ orders < MaxOrders /\ orders' = orders + 1
    /\ crossed' = (crossed \/ ~AllIdle \/ \E p \in Pids : proc[p] \in {"spawned", "checked"})
    /\ \E p \in Pids : Free(p) /\ proc' = [proc EXCEPT ![p] = "spawned"]
    /\ UNCHANGED <<pidFile, healthFile, order, harms, late, misreport>>

\* Another live daemon is recorded: this one leaves.
CheckDaemon(p) ==
    /\ proc[p] = "spawned"
    /\ proc' = [proc EXCEPT ![p] = IF Recorded \in {NoPid, p} THEN "checked" ELSE "free"]
    /\ UNCHANGED <<pidFile, healthFile, order, orders, harms, crossed, late, misreport>>

\* It records itself unless its parent did, opens the stores and tells it is up.
ComeUp(p) ==
    /\ proc[p] = "checked"
    /\ pidFile' = p
    /\ \/ proc' = [proc EXCEPT ![p] = "running"] /\ healthFile' = p /\ UNCHANGED harms
       \/ proc' = [proc EXCEPT ![p] = "free"] /\ Harm /\ UNCHANGED healthFile
    /\ UNCHANGED <<order, orders, crossed, late, misreport>>

\* After each pass and each reconciliation.
Beat(p) ==
    /\ proc[p] = "running" /\ healthFile # p
    /\ healthFile' = p
    /\ UNCHANGED <<pidFile, proc, order, orders, harms, crossed, late, misreport>>

\* It removes the record only if it is its own.
WindDown(p) ==
    /\ proc[p] = "stopping"
    /\ proc' = [proc EXCEPT ![p] = "free"]
    /\ pidFile' = IF pidFile = p THEN NoPid ELSE pidFile
    /\ UNCHANGED <<healthFile, order, orders, harms, crossed, late, misreport>>

Killed(p) ==
    /\ proc[p] \in ShellPhases \ {"free", "other"} /\ Harm
    /\ proc' = [proc EXCEPT ![p] = "free"]
    /\ UNCHANGED <<pidFile, healthFile, order, orders, crossed, late, misreport>>

\* An id that is free goes to a program of someone else, which ends some day.
Reuse(p) ==
    /\ \/ proc[p] = "free" /\ Harm /\ proc' = [proc EXCEPT ![p] = "other"]
       \/ proc[p] = "other" /\ proc' = [proc EXCEPT ![p] = "free"] /\ UNCHANGED harms
    /\ UNCHANGED <<pidFile, healthFile, order, orders, crossed, late, misreport>>

LifeNext ==
    \/ \E c \in Shells :
           StartDaemon(c) \/ Spawn(c) \/ RecordChild(c) \/ Await(c) \/ StopDaemon(c) \/ WaitStopped(c)
    \/ BareRun
    \/ \E p \in Pids : CheckDaemon(p) \/ ComeUp(p) \/ Beat(p) \/ WindDown(p) \/ Killed(p) \/ Reuse(p)

LifeSpec == LifeInit /\ [][LifeNext]_lifeVars

-----------------------------------------------------------------------------
(* Of commands that do not overlap, none of which gave up on a child that    *)
(* lived: at most one daemon indexes, `stop` finds it once the commands are  *)
(* done, and "started" is only said on the child's own word.                 *)
(* Code: daemon.rs:76-141, pid.rs:38-107.                                    *)
LifeRight ==
    ~crossed /\ ~late =>
        /\ Cardinality({p \in Pids : Serving(p)}) <= 1
        /\ AllIdle => \A p \in Pids : proc[p] = "running" => pidFile = p
        /\ ~misreport
=============================================================================
