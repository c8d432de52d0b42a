------------------------------ MODULE Scheduler ------------------------------
(***************************************************************************)
(* The daemon's trigger coalescing                                          *)
(* (docmonk-indexing/src/daemon/scheduler.rs).  A burst of triggers for a   *)
(* source becomes at most one queued pass plus one follow-up; touched paths *)
(* and the demand for a full scan accumulate until the next pass takes      *)
(* them.                                                                    *)
(*                                                                         *)
(* Waiting times only matter up to max_wait, so `waited` counts to MaxWait  *)
(* and stays there.  Entries are only ever appended with the current time,  *)
(* so the one that waited longest is the first in the queue.                *)
(* The reason kept for the log is left out.                                 *)
(***************************************************************************)
EXTENDS Naturals, Sequences, FiniteSets

CONSTANTS
    Sources,        \* source ids
    Paths,          \* paths a trigger may name
    MaxPaths,       \* Policy.max_paths
    MaxWait,        \* Policy.max_wait, in ticks
    UrgentFirst,    \* Policy.urgent_first
    MaxRunning      \* passes that may run at a time

\* A trigger that asks for a full scan, in the history of triggers.
All == "all"

ASSUME SchedulerAssumption ==
    /\ IsFiniteSet(Sources)
    /\ IsFiniteSet(Paths) /\ All \notin Paths
    /\ MaxPaths \in Nat \ {0}
    /\ MaxWait \in Nat
    /\ UrgentFirst \in BOOLEAN
    /\ MaxRunning \in Nat \ {0}

VARIABLES
    queue,          \* source ids waiting for a pass
    pending,        \* per source: no entry, queued, running, running_followup
    touched,        \* per source: paths the next pass must look at
    forceFull,      \* per source: the next pass must scan everything
    waited,         \* per source: how long its queue entry has waited
    owed,           \* history: what triggers asked for since the last take
    overtaken       \* history: starts of others since the entry is aged

schedVars == <<queue, pending, touched, forceFull, waited, owed, overtaken>>

InQueue == {queue[i] : i \in 1 .. Len(queue)}

(* The variables have their types; in particular no burst of events makes    *)
(* the scheduler remember more than max_paths paths of a source.             *)
SchedTypeOK ==
    /\ queue \in Seq(Sources)
    /\ pending \in [Sources -> {"none", "queued", "running", "followup"}]
    /\ touched \in [Sources -> {T \in SUBSET Paths : Cardinality(T) <= MaxPaths}]
    /\ forceFull \in [Sources -> BOOLEAN]
    /\ waited \in [Sources -> 0 .. MaxWait]
    /\ owed \in [Sources -> SUBSET (Paths \cup {All})]
    /\ overtaken \in [Sources -> 0 .. Cardinality(Sources)]

SchedInit ==
    /\ queue = <<>>
    /\ pending = [s \in Sources |-> "none"]
    /\ touched = [s \in Sources |-> {}]
    /\ forceFull = [s \in Sources |-> FALSE]
    /\ waited = [s \in Sources |-> 0]
    /\ owed = [s \in Sources |-> {}]
    /\ overtaken = [s \in Sources |-> 0]

-----------------------------------------------------------------------------
Active(s) == pending[s] \in {"running", "followup"}

Running == {s \in Sources : Active(s)}

\* The queued entry is a small pass for some touched paths.
Urgent(s) == ~forceFull[s] /\ touched[s] # {}

Without(q, i) ==
    [j \in 1 .. Len(q) - 1 |-> IF j < i THEN q[j] ELSE q[j + 1]]

\* Mutant: the limit is not applied.
RememberAll(s, force, paths) ==
    LET full == forceFull[s] \/ force
    IN
    /\ forceFull' = [forceFull EXCEPT ![s] = full]
    /\ touched' = [touched EXCEPT ![s] = IF full THEN @ ELSE @ \cup paths]

\* Mutant: beyond the limit the paths go, and no full scan replaces them.
RememberNothing(s, force, paths) ==
    LET full  == forceFull[s] \/ force
        union == touched[s] \cup paths
        over  == ~full /\ paths # {} /\ Cardinality(union) > MaxPaths
    IN
    /\ forceFull' = [forceFull EXCEPT ![s] = full]
    /\ touched' = [touched EXCEPT ![s] =
           IF over THEN {} ELSE IF full THEN @ ELSE union]

\* enqueue_at: paths beyond the limit, and any path once a full scan is due,
\* are dropped.
Remember(s, force, paths) ==
    LET full  == forceFull[s] \/ force
        union == touched[s] \cup paths
        over  == ~full /\ paths # {} /\ Cardinality(union) > MaxPaths
    IN
    /\ forceFull' = [forceFull EXCEPT ![s] = full \/ over]
    /\ touched' = [touched EXCEPT ![s] =
           IF over THEN {} ELSE IF full THEN @ ELSE union]

\* Mutant: a trigger during a pass queues the source right away.
EnqueueTwice(s, force, paths) ==
    /\ Remember(s, force, paths)
    /\ owed' = [owed EXCEPT ![s] = @ \cup paths \cup IF force THEN {All} ELSE {}]
    /\ IF pending[s] \in {"none", "running"}
       THEN /\ pending' = [pending EXCEPT ![s] = "queued"]
            /\ queue' = Append(queue, s)
            /\ waited' = [waited EXCEPT ![s] = 0]
            /\ overtaken' = [overtaken EXCEPT ![s] = 0]
       ELSE UNCHANGED <<pending, queue, waited, overtaken>>

Enqueue(s, force, paths) ==
    /\ Remember(s, force, paths)
    /\ owed' = [owed EXCEPT ![s] = @ \cup paths \cup IF force THEN {All} ELSE {}]
    /\ \/ /\ pending[s] = "none"
          /\ pending' = [pending EXCEPT ![s] = "queued"]
          /\ queue' = Append(queue, s)
          /\ waited' = [waited EXCEPT ![s] = 0]
          /\ overtaken' = [overtaken EXCEPT ![s] = 0]
       \/ /\ pending[s] = "running"
          /\ pending' = [pending EXCEPT ![s] = "followup"]
          /\ UNCHANGED <<queue, waited, overtaken>>
       \/ /\ pending[s] \in {"queued", "followup"}
          /\ UNCHANGED <<pending, queue, waited, overtaken>>

First(S) == {i \in S : \A j \in S : i <= j}

\* Mutant: small passes always go first.
NextWithoutAging ==
    LET urgent == {i \in 1 .. Len(queue) : Urgent(queue[i])}
    IN  IF UrgentFirst /\ urgent # {} THEN First(urgent) ELSE First(1 .. Len(queue))

\* Positions of the queue, in order of preference: with urgent_first, an
\* entry that waited max_wait, the first of them; else the first small pass;
\* else, and always without urgent_first, the first entry.
NextPosition ==
    LET all    == 1 .. Len(queue)
        aged   == {i \in all : waited[queue[i]] >= MaxWait}
        urgent == {i \in all : Urgent(queue[i])}
    IN  CASE UrgentFirst /\ aged # {}   -> First(aged)
          [] UrgentFirst /\ aged = {} /\ urgent # {} -> First(urgent)
          [] OTHER -> First(all)

\* start_next: the entry leaves the queue and its source is running.
StartNext(s) ==
    /\ Cardinality(Running) < MaxRunning
    /\ \E i \in NextPosition :
          /\ queue[i] = s
          /\ queue' = Without(queue, i)
    /\ pending' = [pending EXCEPT ![s] = "running"]
    /\ waited' = [waited EXCEPT ![s] = 0]
    /\ overtaken' = [t \in Sources |->
           IF /\ t # s /\ pending[t] = "queued" /\ waited[t] >= MaxWait
              /\ overtaken[t] < Cardinality(Sources)
           THEN overtaken[t] + 1 ELSE overtaken[t]]
    /\ UNCHANGED <<touched, forceFull, owed>>

\* take_request: the pass is a full one unless paths, and nothing else, were
\* asked for.
FullRequest(s) ==
    forceFull[s] \/ touched[s] = {} \/ Cardinality(touched[s]) > MaxPaths

TakeRequest(s) ==
    /\ Active(s)
    /\ touched' = [touched EXCEPT ![s] = {}]
    /\ forceFull' = [forceFull EXCEPT ![s] = FALSE]
    /\ owed' = [owed EXCEPT ![s] = {}]
    /\ UNCHANGED <<queue, pending, waited, overtaken>>

\* settle: a follow-up goes to the back of the queue.
Settle(s) ==
    /\ Active(s)
    /\ IF pending[s] = "followup"
       THEN /\ pending' = [pending EXCEPT ![s] = "queued"]
            /\ queue' = Append(queue, s)
            /\ waited' = [waited EXCEPT ![s] = 0]
            /\ overtaken' = [overtaken EXCEPT ![s] = 0]
       ELSE /\ pending' = [pending EXCEPT ![s] = "none"]
            /\ UNCHANGED <<queue, waited, overtaken>>
    /\ UNCHANGED <<touched, forceFull, owed>>

\* Mutant: the queue is emptied and the map forgotten.
ClearQueueOnly ==
    /\ queue' = <<>>
    /\ UNCHANGED <<pending, touched, forceFull, waited, owed, overtaken>>

\* clear_queue, at shutdown.
ClearQueue ==
    /\ queue' = <<>>
    /\ pending' = [s \in Sources |-> IF s \in InQueue THEN "none" ELSE pending[s]]
    /\ waited' = [s \in Sources |-> IF s \in InQueue THEN 0 ELSE waited[s]]
    /\ overtaken' = [s \in Sources |-> 0]
    /\ UNCHANGED <<touched, forceFull, owed>>

Wait ==
    /\ queue # <<>>
    /\ waited' = [s \in Sources |->
           IF pending[s] = "queued" /\ waited[s] < MaxWait
           THEN waited[s] + 1 ELSE waited[s]]
    /\ UNCHANGED <<queue, pending, touched, forceFull, owed, overtaken>>

SchedNext ==
    \/ \E s \in Sources :
          \/ \E force \in BOOLEAN, paths \in SUBSET Paths : Enqueue(s, force, paths)
          \/ StartNext(s) \/ TakeRequest(s) \/ Settle(s)
    \/ ClearQueue
    \/ Wait

SchedSpec == SchedInit /\ [][SchedNext]_schedVars

-----------------------------------------------------------------------------
(* The queue holds exactly the sources marked queued, each once: no source   *)
(* has two passes waiting, and none waits without being in the queue        *)
(* (enqueue_at, start_next_at, settle_at and clear_queue keep the map and    *)
(* the queue in step).                                                      *)
QueueMatchesPending ==
    /\ InQueue = {s \in Sources : pending[s] = "queued"}
    /\ \A i, j \in 1 .. Len(queue) : queue[i] = queue[j] => i = j

(* Nothing a trigger asked for is forgotten before a pass takes it: a full   *)
(* scan is still due, or every path is still remembered.                    *)
NothingForgotten ==
    \A s \in Sources :
        /\ All \in owed[s] => forceFull[s]
        /\ forceFull[s] \/ owed[s] \subseteq touched[s]

(* An entry that waited max_wait is overtaken at most once by every other    *)
(* source: only by entries older than itself, never by work that keeps       *)
(* arriving (Policy::max_wait, "an entry that has waited that long is        *)
(* started first (oldest first)").                                          *)
AgedBound == \A s \in Sources : overtaken[s] < Cardinality(Sources)

(* The queue: in step with the map, and fair to what has waited long.        *)
QueueRight == QueueMatchesPending /\ AgedBound
=============================================================================
