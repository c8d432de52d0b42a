-------------------------------- MODULE Daemon --------------------------------
(***************************************************************************)
(* The background indexing daemon (docmonk-indexing/src/daemon/mod.rs):     *)
(* worker threads that run the passes of the Scheduler, the watchers and    *)
(* the reconciliation thread that trigger them, the per-source run lock     *)
(* they share with other processes, and the relationship-graph stage that   *)
(* follows when no pass is queued or running.                               *)
(*                                                                         *)
(* Every critical section of the state mutex is one action.  A pass itself  *)
(* is one: it brings the index up to date with the paths of its request.    *)
(* The health file, the progress snapshot and the attached watchers are     *)
(* left out; watchers are the triggers they deliver.                        *)
(***************************************************************************)
EXTENDS Scheduler

CONSTANTS
    Workers,        \* worker threads
    Nobody,         \* no worker, no source
    Outsider,       \* another process (a CLI run) that takes run locks
    Contested       \* the sources whose run lock it takes

ASSUME DaemonAssumption ==
    /\ MaxRunning = Cardinality(Workers)
    /\ Nobody \notin Workers \cup Sources \cup {Outsider}
    /\ Outsider \notin Workers
    /\ Contested \subseteq Sources

VARIABLES
    phase,          \* where each worker is
    cur,            \* the source of its pass or graph
    request,        \* the request its pass took
    batch,          \* sources whose graph it is still to build
    graphPending,   \* sources published since their last graph stage
    holder,         \* per source: who holds its run lock
    enabled,        \* sources that are enabled in the catalog
    dirty,          \* per source: changed paths the index does not reflect
    ungraphed,      \* history: sources indexed since their last graph stage
    stopped,
    faulty          \* in this world, sources are disabled and the catalog fails

daemonVars == <<phase, cur, request, batch, graphPending, holder, enabled,
                dirty, ungraphed, stopped>>
allVars == <<schedVars, daemonVars>>
worldVars == <<allVars, faulty>>

PassPhases == {"got", "lock", "backoff", "take", "scan", "record", "settle"}
DaemonPhases == PassPhases \cup {"idle", "graphs", "graph", "graphing", "exited"}
NoRequest == [full |-> FALSE, paths |-> {}]

(* The variables have their types, and a worker has no graph left to build   *)
(* when it goes for other work (run_graphs works its batch off).            *)
DaemonTypeOK ==
    /\ SchedTypeOK
    /\ phase \in [Workers -> DaemonPhases]
    /\ cur \in [Workers -> Sources \cup {Nobody}]
    /\ request \in [Workers -> [full : BOOLEAN, paths : SUBSET Paths]]
    /\ batch \in [Workers -> SUBSET Sources]
    /\ \A w \in Workers : batch[w] # {} => phase[w] \in {"graph", "graphing"}
    /\ graphPending \subseteq Sources
    /\ holder \in [Sources -> Workers \cup {Nobody, Outsider}]
    /\ enabled \subseteq Sources
    /\ dirty \in [Sources -> SUBSET Paths]
    /\ ungraphed \subseteq Sources
    /\ stopped \in BOOLEAN
    /\ faulty \in BOOLEAN

DaemonInit ==
    /\ SchedInit
    /\ phase = [w \in Workers |-> "idle"]
    /\ cur = [w \in Workers |-> Nobody]
    /\ request = [w \in Workers |-> NoRequest]
    /\ batch = [w \in Workers |-> {}]
    /\ graphPending = {}
    /\ holder = [s \in Sources |-> Nobody]
    /\ enabled = Sources
    /\ dirty \in [Sources -> SUBSET Paths]
    /\ ungraphed = {}
    /\ stopped = FALSE
    /\ faulty \in BOOLEAN

Move(w, from, to) == phase[w] = from /\ phase' = [phase EXCEPT ![w] = to]

-----------------------------------------------------------------------------
(* Triggers.  Shared::enqueue refuses them once the daemon is stopped.      *)

Trigger(s, force, paths) ==
    /\ ~stopped
    /\ Enqueue(s, force, paths)
    /\ UNCHANGED daemonVars

\* A watcher reports a path, perhaps one that was indexed meanwhile.
Watch(s, p) == Trigger(s, FALSE, {p})

\* A watcher lost events: touched paths no longer describe every change.
Rescan(s) == Trigger(s, TRUE, {})

\* The startup pass of every source, and later the reconciliation thread's.
Reconcile(s) == s \in enabled /\ Trigger(s, TRUE, {})

-----------------------------------------------------------------------------
(* run_pass, settle and run_graphs of worker w.                             *)

Start(w, s) ==
    /\ ~stopped
    /\ Move(w, "idle", "got")
    /\ StartNext(s)
    /\ cur' = [cur EXCEPT ![w] = s]
    /\ UNCHANGED <<request, batch, graphPending, holder, enabled, dirty,
                   ungraphed, stopped>>

\* The source is removed or disabled, or the catalog cannot be read: the pass
\* ends without taking its request.
Skip(w) ==
    /\ Move(w, "got", "settle")
    /\ UNCHANGED <<schedVars, cur, request, batch, graphPending, holder,
                   enabled, dirty, ungraphed, stopped>>

Check(w) ==
    /\ cur[w] \in enabled
    /\ Move(w, "got", "lock")
    /\ UNCHANGED <<schedVars, cur, request, batch, graphPending, holder,
                   enabled, dirty, ungraphed, stopped>>

\* Mutant: the run lock is taken without looking.
LockAnyway(w) ==
    /\ Move(w, "lock", "take")
    /\ holder' = [holder EXCEPT ![cur[w]] = w]
    /\ UNCHANGED <<schedVars, cur, request, batch, graphPending, enabled,
                   dirty, ungraphed, stopped>>

Lock(w) ==
    /\ Move(w, "lock", "take")
    /\ holder[cur[w]] = Nobody
    /\ holder' = [holder EXCEPT ![cur[w]] = w]
    /\ UNCHANGED <<schedVars, cur, request, batch, graphPending, enabled,
                   dirty, ungraphed, stopped>>

\* The lock timeout passed.
LockTimeout(w) ==
    /\ Move(w, "lock", "backoff")
    /\ holder[cur[w]] # Nobody
    /\ UNCHANGED <<schedVars, cur, request, batch, graphPending, holder,
                   enabled, dirty, ungraphed, stopped>>

\* Mutant: a pass that did not get the run lock just ends.
BackoffOnly(w) ==
    /\ Move(w, "backoff", "settle")
    /\ UNCHANGED <<schedVars, cur, request, batch, graphPending, holder,
                   enabled, dirty, ungraphed, stopped>>

\* After the backoff the source asks for another pass; it is still marked
\* running, so that is a follow-up.
Backoff(w) ==
    /\ Move(w, "backoff", "settle")
    /\ IF stopped THEN UNCHANGED schedVars ELSE Enqueue(cur[w], FALSE, {})
    /\ UNCHANGED <<cur, request, batch, graphPending, holder, enabled, dirty,
                   ungraphed, stopped>>

\* The request is taken under the run lock.
Take(w) ==
    LET s == cur[w] IN
    /\ Move(w, "take", "scan")
    /\ request' = [request EXCEPT ![w] =
           [full  |-> FullRequest(s),
            paths |-> IF FullRequest(s) THEN {} ELSE touched[s]]]
    /\ TakeRequest(s)
    /\ UNCHANGED <<cur, batch, graphPending, holder, enabled, dirty,
                   ungraphed, stopped>>

\* The pass succeeds: the index reflects what it was asked to look at.  The
\* run lock is released first, the source is marked graph-pending next.
RunPass(w) ==
    LET s == cur[w] IN
    /\ Move(w, "scan", "record")
    /\ dirty' = [dirty EXCEPT ![s] =
           IF request[w].full THEN {} ELSE @ \ request[w].paths]
    /\ ungraphed' = ungraphed \cup {s}
    /\ holder' = [holder EXCEPT ![s] = Nobody]
    /\ request' = [request EXCEPT ![w] = NoRequest]
    /\ UNCHANGED <<schedVars, cur, batch, graphPending, enabled, stopped>>

Record(w) ==
    /\ Move(w, "record", "settle")
    /\ graphPending' = graphPending \cup {cur[w]}
    /\ UNCHANGED <<schedVars, cur, request, batch, holder, enabled, dirty,
                   ungraphed, stopped>>

\* Mutant: the error leaves the worker's loop.
PassFailsWorker(w) ==
    /\ Move(w, "scan", "exited")
    /\ holder' = [holder EXCEPT ![cur[w]] = Nobody]
    /\ request' = [request EXCEPT ![w] = NoRequest]
    /\ UNCHANGED <<schedVars, cur, batch, graphPending, enabled, dirty,
                   ungraphed, stopped>>

\* The pass fails, panics or finds the source offline.
PassFails(w) ==
    /\ Move(w, "scan", "settle")
    /\ holder' = [holder EXCEPT ![cur[w]] = Nobody]
    /\ request' = [request EXCEPT ![w] = NoRequest]
    /\ UNCHANGED <<schedVars, cur, batch, graphPending, enabled, dirty,
                   ungraphed, stopped>>

SettlePass(w) ==
    /\ Move(w, "settle", "graphs")
    /\ Settle(cur[w])
    /\ cur' = [cur EXCEPT ![w] = Nobody]
    /\ UNCHANGED <<request, batch, graphPending, holder, enabled, dirty,
                   ungraphed, stopped>>

\* take_graph_batch: the barrier.
Quiet == queue = <<>> /\ Running = {}

TakeGraphBatch(w) ==
    /\ IF ~stopped /\ Quiet
       THEN /\ Move(w, "graphs", "graph")
            /\ batch' = [batch EXCEPT ![w] = graphPending]
            /\ graphPending' = {}
       ELSE Move(w, "graphs", "idle") /\ UNCHANGED <<batch, graphPending>>
    /\ UNCHANGED <<schedVars, cur, request, holder, enabled, dirty, ungraphed,
                   stopped>>

\* A source of the batch that is gone or disabled is dropped.
GraphSkip(w, s) ==
    /\ s \in batch[w]
    /\ Move(w, "graph", "graph")
    /\ batch' = [batch EXCEPT ![w] = @ \ {s}]
    /\ UNCHANGED <<schedVars, cur, request, graphPending, holder, enabled,
                   dirty, ungraphed, stopped>>

GraphStart(w, s) ==
    /\ s \in batch[w] /\ s \in enabled
    /\ holder[s] = Nobody
    /\ Move(w, "graph", "graphing")
    /\ holder' = [holder EXCEPT ![s] = w]
    /\ cur' = [cur EXCEPT ![w] = s]
    /\ batch' = [batch EXCEPT ![w] = @ \ {s}]
    /\ ungraphed' = ungraphed \ {s}
    /\ UNCHANGED <<schedVars, request, graphPending, enabled, dirty, stopped>>

\* Mutant: contention drops the source from the batch and that is all.
GraphDropped(w, s) ==
    /\ s \in batch[w] /\ s \in enabled
    /\ holder[s] # Nobody
    /\ Move(w, "graph", "graph")
    /\ batch' = [batch EXCEPT ![w] = @ \ {s}]
    /\ UNCHANGED <<schedVars, cur, request, graphPending, holder, enabled,
                   dirty, ungraphed, stopped>>

\* The run lock is taken: the source stays graph-pending, for a later batch.
GraphContended(w, s) ==
    /\ s \in batch[w] /\ s \in enabled
    /\ holder[s] # Nobody
    /\ Move(w, "graph", "graph")
    /\ batch' = [batch EXCEPT ![w] = @ \ {s}]
    /\ graphPending' = graphPending \cup {s}
    /\ UNCHANGED <<schedVars, cur, request, holder, enabled, dirty, ungraphed,
                   stopped>>

GraphDone(w) ==
    /\ Move(w, "graphing", "graph")
    /\ holder' = [holder EXCEPT ![cur[w]] = Nobody]
    /\ cur' = [cur EXCEPT ![w] = Nobody]
    /\ UNCHANGED <<schedVars, request, batch, graphPending, enabled, dirty,
                   ungraphed, stopped>>

\* Mutant: one source of the batch ends the loop.
BatchCutShort(w) ==
    /\ Move(w, "graph", "idle")
    /\ UNCHANGED <<schedVars, cur, request, batch, graphPending, holder,
                   enabled, dirty, ungraphed, stopped>>

BatchDone(w) ==
    /\ batch[w] = {}
    /\ Move(w, "graph", "idle")
    /\ UNCHANGED <<schedVars, cur, request, batch, graphPending, holder,
                   enabled, dirty, ungraphed, stopped>>

\* Mutant: only an empty queue ends the loop.
ExitWhenDrained(w) ==
    /\ stopped
    /\ queue = <<>>
    /\ Move(w, "idle", "exited")
    /\ UNCHANGED <<schedVars, cur, request, batch, graphPending, holder,
                   enabled, dirty, ungraphed, stopped>>

Exit(w) ==
    /\ stopped
    /\ Move(w, "idle", "exited")
    /\ ClearQueue
    /\ UNCHANGED <<cur, request, batch, graphPending, holder, enabled, dirty,
                   ungraphed, stopped>>

-----------------------------------------------------------------------------
(* The rest of the world.                                                   *)

Change(s, p) ==
    /\ p \notin dirty[s]
    /\ dirty' = [dirty EXCEPT ![s] = @ \cup {p}]
    /\ UNCHANGED <<schedVars, phase, cur, request, batch, graphPending,
                   holder, enabled, ungraphed, stopped>>

OutsiderLocks(s) ==
    /\ s \in Contested
    /\ holder[s] = Nobody
    /\ holder' = [holder EXCEPT ![s] = Outsider]
    /\ UNCHANGED <<schedVars, phase, cur, request, batch, graphPending,
                   enabled, dirty, ungraphed, stopped>>

OutsiderUnlocks(s) ==
    /\ holder[s] = Outsider
    /\ holder' = [holder EXCEPT ![s] = Nobody]
    /\ UNCHANGED <<schedVars, phase, cur, request, batch, graphPending,
                   enabled, dirty, ungraphed, stopped>>

SetEnabled(s) ==
    /\ enabled' = IF s \in enabled THEN enabled \ {s} ELSE enabled \cup {s}
    /\ UNCHANGED <<schedVars, phase, cur, request, batch, graphPending,
                   holder, dirty, ungraphed, stopped>>

Time == Wait /\ UNCHANGED daemonVars

Stop ==
    /\ ~stopped
    /\ stopped' = TRUE
    /\ UNCHANGED <<schedVars, phase, cur, request, batch, graphPending,
                   holder, enabled, dirty, ungraphed>>

Step(w) ==
    \/ \E s \in Sources : Start(w, s) \/ GraphStart(w, s) \/ GraphContended(w, s)
    \/ Check(w) \/ Lock(w) \/ LockTimeout(w) \/ Backoff(w) \/ Take(w)
    \/ RunPass(w) \/ Record(w) \/ PassFails(w) \/ SettlePass(w) \/ TakeGraphBatch(w)
    \/ GraphDone(w) \/ BatchDone(w) \/ Exit(w)

DaemonNext ==
    \/ \E w \in Workers : Step(w)
    \/ \E s \in Sources :
          \/ Rescan(s) \/ Reconcile(s)
          \/ OutsiderLocks(s) \/ OutsiderUnlocks(s)
          \/ \E p \in Paths : Watch(s, p) \/ Change(s, p)
    \/ Time
    \/ Stop

(* Sources are disabled and enabled, and the catalog fails.                  *)
FaultNext ==
    \/ \E w \in Workers : Skip(w) \/ \E s \in Sources : GraphSkip(w, s)
    \/ \E s \in Sources : SetEnabled(s)

WorldNext == (DaemonNext \/ (faulty /\ FaultNext)) /\ UNCHANGED faulty

DaemonSpec == DaemonInit /\ [][WorldNext]_worldVars

At(s, p) == \E w \in Workers : cur[w] = s /\ phase[w] = p

(* Threads are scheduled, time passes and reconciliation is periodic.  Of    *)
(* the outside world: another process releases a run lock it took, and no    *)
(* source's passes all end with its lock taken or the pass failing; no       *)
(* source is disabled and the catalog does not fail.                        *)
DaemonFairness ==
    /\ \A w \in Workers : WF_allVars(Step(w))
    /\ WF_allVars(Time)
    /\ \A s \in Sources :
          /\ WF_allVars(Reconcile(s)) /\ WF_allVars(OutsiderUnlocks(s))
          /\ []<>At(s, "lock") => []<>At(s, "record")

QuietInit == DaemonInit /\ ~faulty

FairDaemon == QuietInit /\ [][WorldNext]_worldVars /\ DaemonFairness

-----------------------------------------------------------------------------
\* Sources a worker is in the middle of a pass for.
InPass == {cur[w] : w \in {v \in Workers : phase[v] \in PassPhases}}

(* The scheduler's idea of what is running is exactly what the workers are   *)
(* doing, and no two of them ever have the same source ("one source never    *)
(* runs twice at a time").                                                  *)
OnePassPerSource ==
    /\ Running = InPass
    /\ \A v, w \in Workers :
          phase[v] \in PassPhases /\ phase[w] \in PassPhases /\ cur[v] = cur[w]
              => v = w

(* What the scheduler says is running is what the workers do, and no two of  *)
(* them work on the same source, whoever disables sources or fails.         *)
OnePass == DaemonTypeOK /\ OnePassPerSource

(* Index and graph work on a source exclude each other, and every other      *)
(* process, through the run lock.                                           *)
WorkUnderLock ==
    \A w \in Workers :
        phase[w] \in {"take", "scan", "graphing"} => holder[cur[w]] = w

(* As long as the daemon runs and the catalog answers, whatever triggers     *)
(* asked for has a pass coming that will take it: one is queued, or is to    *)
(* follow, or runs and has not taken its request yet (enqueue_at, settle_at  *)
(* and the lock-contention path of run_pass).                               *)
TriggersHavePass ==
    \A s \in Sources :
        owed[s] # {} /\ ~stopped =>
            \/ pending[s] \in {"queued", "followup"}
            \/ \E w \in Workers :
                  cur[w] = s /\ phase[w] \in {"got", "lock", "backoff", "take"}

(* A source whose index changed since its last graph stage stays due for     *)
(* one, whoever else works on it or holds its run lock meanwhile.            *)
GraphsStayDue ==
    \A s \in ungraphed :
        \/ s \in graphPending
        \/ \E w \in Workers :
              s \in batch[w] \/ (cur[w] = s /\ phase[w] = "record")

(* In a world without faults every trigger has a pass coming that will take  *)
(* it, and every changed source stays due for a graph stage.                 *)
QuietPromises == ~faulty => TriggersHavePass /\ GraphsStayDue

(* Every change is eventually indexed, whatever other sources' watchers      *)
(* report meanwhile, however often passes fail or find the run lock taken.   *)
ChangesIndexed ==
    \A s \in Sources, p \in Paths : p \in dirty[s] ~> (p \notin dirty[s] \/ stopped)

(* A stopped daemon winds down: every worker leaves its loop.               *)
StopCompletes == stopped ~> \A w \in Workers : phase[w] = "exited"
=============================================================================
