------------------------------ MODULE Pipeline ------------------------------
(***************************************************************************)
(* The worker pipelines of the sources that are indexed side by side        *)
(* (docmonk-indexing: executor.rs, coordinator.rs run_workers, governor.rs):*)
(* an executor starts the sources in order on a few threads; each has a     *)
(* feeder, workers and a writer, joined by two bounded channels, and then   *)
(* embeds (docmonk-ml/src/lib.rs).  All draw permits from the pools of one  *)
(* governor, whose limits may change while permits are held.                *)
(*                                                                         *)
(* The code's channels hold twice as many items as there are workers, and   *)
(* its writer takes up to 64 results at a time; both are constants here, so *)
(* that few items fill them.  A processor's panic is a failed item, which   *)
(* the pipeline treats like any other.                                      *)
(***************************************************************************)
EXTENDS Integers, Sequences, FiniteSets, FiniteSetsExt, SequencesExt

CONSTANTS
    Sizes,          \* per source, in order: the size of each of its items
    Heavy,          \* items <<source, index>> that need an OCR permit
    Hands,          \* worker threads of a source
    Bound, MaxBatch,
    Parallel,       \* threads of the executor
    Capacities,     \* the limits that may be set, and the first of them
    FirstCapacity,
    MaxChanges      \* bound: changes of the limits

Runs       == 1 .. Len(Sizes)
Items(p)   == 1 .. Len(Sizes[p])
AllItems   == UNION {{p} \X Items(p) : p \in Runs}
PoolNames  == {"bytes", "ocr", "embedding", "cpu"}

ASSUME PipelineAssumption ==
    /\ Sizes \in Seq(Seq(Nat))
    /\ Heavy \subseteq AllItems
    /\ IsFiniteSet(Hands) /\ Hands # {}
    /\ Bound \in Nat \ {0} /\ MaxBatch \in Nat \ {0} /\ Parallel \in Nat \ {0}
    /\ Capacities \subseteq [PoolNames -> Nat \ {0}]
    /\ FirstCapacity \in Capacities
    /\ MaxChanges \in Nat

VARIABLES
    capacity, inUse, changes,   \* the governor's pools
    stage,          \* per source: waiting, running, embed, cpu, model, ended
    feeder,         \* [step, next item, permit asked for]
    budget,         \* bytes permit of each item, 0 for none
    workQ, doneQ,   \* the two channels
    hand,           \* what each worker does, with which item
    inWrite,        \* the batch the writer is committing
    failedRun,      \* first_err, which is also the cancellation
    wrote           \* items committed, in order

pipeVars == <<capacity, inUse, changes, stage, feeder, budget, workQ, doneQ,
              hand, inWrite, failedRun, wrote>>

PipeInit ==
    /\ capacity = FirstCapacity /\ changes = 0
    /\ inUse = [c \in PoolNames |-> 0]
    /\ stage = [p \in Runs |-> "waiting"]
    /\ feeder = [p \in Runs |-> [step |-> "next", item |-> 1, want |-> 0]]
    /\ budget = [p \in Runs |-> [i \in Items(p) |-> 0]]
    /\ workQ = [p \in Runs |-> <<>>] /\ doneQ = [p \in Runs |-> <<>>]
    /\ hand = [p \in Runs |-> [w \in Hands |-> [step |-> "idle", item |-> 0]]]
    /\ inWrite = [p \in Runs |-> <<>>]
    /\ failedRun = [p \in Runs |-> FALSE]
    /\ wrote = [p \in Runs |-> <<>>]

-----------------------------------------------------------------------------
(* The governor.                                                            *)

\* Mutant: what is asked for is not cut down to the capacity.
WantAll(c, amount) == amount

\* A request is cut down to the capacity of the moment it is made.
Want(c, amount) ==
    IF amount < 1 THEN 1 ELSE IF amount > capacity[c] THEN capacity[c] ELSE amount

Grantable(c, want) == inUse[c] + want <= capacity[c] \/ inUse[c] = 0

Grant(c, want) == Grantable(c, want) /\ inUse' = [inUse EXCEPT ![c] = @ + want]

ItemBytes == [x \in AllItems |-> budget[x[1]][x[2]]]

\* The bytes permits of items of a source are dropped with the items.
DropItems(p, items) ==
    /\ inUse' = [inUse EXCEPT !["bytes"] = @ - SumFunctionOnSet(ItemBytes, {p} \X items)]
    /\ budget' = [budget EXCEPT ![p] = [i \in Items(p) |-> IF i \in items THEN 0 ELSE @[i]]]

\* set_limits: permits already held stay valid.
SetLimits(l) ==
    /\ changes < MaxChanges /\ l # capacity
    /\ capacity' = l /\ changes' = changes + 1
    /\ UNCHANGED <<inUse, stage, feeder, budget, workQ, doneQ, hand, inWrite,
                   failedRun, wrote>>

-----------------------------------------------------------------------------
(* The executor: sources are claimed in order.                              *)

ActiveRuns == {p \in Runs : stage[p] \notin {"waiting", "ended"}}

StartRun(p) ==
    /\ stage[p] = "waiting" /\ Cardinality(ActiveRuns) < Parallel
    /\ \A q \in 1 .. p - 1 : stage[q] # "waiting"
    /\ stage' = [stage EXCEPT ![p] = "running"]
    /\ UNCHANGED <<capacity, inUse, changes, feeder, budget, workQ, doneQ, hand,
                   inWrite, failedRun, wrote>>

-----------------------------------------------------------------------------
(* The feeder.                                                              *)

FeedNext(p) ==
    LET f == feeder[p] IN
    /\ stage[p] = "running" /\ f.step = "next"
    /\ feeder' = [feeder EXCEPT ![p] =
           IF failedRun[p] \/ f.item \notin Items(p) THEN [@ EXCEPT !.step = "done"]
           ELSE [@ EXCEPT !.step = "wait", !.want = Want("bytes", Sizes[p][f.item])]]
    /\ UNCHANGED <<capacity, inUse, changes, stage, budget, workQ, doneQ, hand,
                   inWrite, failedRun, wrote>>

FeedBudget(p) ==
    LET f == feeder[p] IN
    /\ f.step = "wait"
    /\ Grant("bytes", f.want)
    /\ budget' = [budget EXCEPT ![p][f.item] = f.want]
    /\ feeder' = [feeder EXCEPT ![p].step = "send"]
    /\ UNCHANGED <<capacity, changes, stage, workQ, doneQ, hand, inWrite,
                   failedRun, wrote>>

FeedSend(p) ==
    /\ feeder[p].step = "send" /\ Len(workQ[p]) < Bound
    /\ workQ' = [workQ EXCEPT ![p] = Append(@, feeder[p].item)]
    /\ feeder' = [feeder EXCEPT ![p].step = "next", ![p].item = @ + 1]
    /\ UNCHANGED <<capacity, inUse, changes, stage, budget, doneQ, hand, inWrite,
                   failedRun, wrote>>

-----------------------------------------------------------------------------
(* The workers.                                                             *)

\* What a worker does with an item of this source.
FirstStep(p, i) == IF <<p, i>> \in Heavy THEN "ocr" ELSE "cpu"

\* A cancelled item is dropped, and its permit with it.
TakeWork(p, w) ==
    LET i == Head(workQ[p]) IN
    /\ hand[p][w].step = "idle" /\ workQ[p] # <<>>
    /\ workQ' = [workQ EXCEPT ![p] = Tail(@)]
    /\ IF failedRun[p]
       THEN DropItems(p, {i}) /\ UNCHANGED hand
       ELSE /\ hand' = [hand EXCEPT ![p][w] = [step |-> FirstStep(p, i), item |-> i]]
            /\ UNCHANGED <<inUse, budget>>
    /\ UNCHANGED <<capacity, changes, stage, feeder, doneQ, inWrite, failedRun, wrote>>

GetPermit(p, w, c, then) ==
    /\ hand[p][w].step = c
    /\ Grant(c, 1)
    /\ hand' = [hand EXCEPT ![p][w].step = then]
    /\ UNCHANGED <<capacity, changes, stage, feeder, budget, workQ, doneQ, inWrite,
                   failedRun, wrote>>

\* The item is prepared, well or not.
Prepared(p, w) ==
    LET heavy == <<p, hand[p][w].item>> \in Heavy IN
    /\ hand[p][w].step = "prepare"
    /\ hand' = [hand EXCEPT ![p][w].step = "send"]
    /\ inUse' = [inUse EXCEPT !["cpu"] = @ - 1, !["ocr"] = IF heavy THEN @ - 1 ELSE @]
    /\ UNCHANGED <<capacity, changes, stage, feeder, budget, workQ, doneQ, inWrite,
                   failedRun, wrote>>

SendDone(p, w) ==
    /\ hand[p][w].step = "send" /\ Len(doneQ[p]) < Bound
    /\ doneQ' = [doneQ EXCEPT ![p] = Append(@, hand[p][w].item)]
    /\ hand' = [hand EXCEPT ![p][w] = [step |-> "idle", item |-> 0]]
    /\ UNCHANGED <<capacity, inUse, changes, stage, feeder, budget, workQ, inWrite,
                   failedRun, wrote>>

\* Mutant: an empty channel is taken for a closed one.
Empty(p) == workQ[p] = <<>>

\* The channel of work is closed and empty.
Closed(p) == workQ[p] = <<>> /\ feeder[p].step = "done"

Leave(p, w) ==
    /\ hand[p][w].step = "idle" /\ Closed(p)
    /\ hand' = [hand EXCEPT ![p][w].step = "gone"]
    /\ UNCHANGED <<capacity, inUse, changes, stage, feeder, budget, workQ, doneQ,
                   inWrite, failedRun, wrote>>

-----------------------------------------------------------------------------
(* The writer.                                                              *)

\* The writer goes on receiving after an error, and drops what it receives.
Writing(p) == stage[p] = "running"

\* The results taken for one transaction.
Taken(q) == SubSeq(q, 1, IF Len(q) < MaxBatch THEN Len(q) ELSE MaxBatch)

Collect(p) ==
    LET batch == Taken(doneQ[p]) IN
    /\ Writing(p) /\ inWrite[p] = <<>> /\ doneQ[p] # <<>>
    /\ doneQ' = [doneQ EXCEPT ![p] = SubSeq(@, Len(batch) + 1, Len(@))]
    /\ IF failedRun[p]
       THEN DropItems(p, ToSet(batch)) /\ UNCHANGED inWrite
       ELSE /\ inWrite' = [inWrite EXCEPT ![p] = batch]
            /\ UNCHANGED <<inUse, budget>>
    /\ UNCHANGED <<capacity, changes, stage, feeder, workQ, hand, failedRun, wrote>>

\* on_done commits the batch, or fails and cancels the rest.
WriteBatch(p) ==
    /\ inWrite[p] # <<>>
    /\ \/ wrote' = [wrote EXCEPT ![p] = @ \o inWrite[p]] /\ UNCHANGED failedRun
       \/ failedRun' = [failedRun EXCEPT ![p] = TRUE] /\ UNCHANGED wrote
    /\ DropItems(p, ToSet(inWrite[p]))
    /\ inWrite' = [inWrite EXCEPT ![p] = <<>>]
    /\ UNCHANGED <<capacity, changes, stage, feeder, workQ, doneQ, hand>>

\* Every sender is gone.
CloseRun(p) ==
    /\ Writing(p) /\ inWrite[p] = <<>> /\ doneQ[p] = <<>>
    /\ \A w \in Hands : hand[p][w].step = "gone"
    /\ stage' = [stage EXCEPT ![p] = IF failedRun[p] THEN "ended" ELSE "embed"]
    /\ UNCHANGED <<capacity, inUse, changes, feeder, budget, workQ, doneQ, hand,
                   inWrite, failedRun, wrote>>

-----------------------------------------------------------------------------
(* The finalizer's model batch.                                             *)

GetModel(p) ==
    /\ stage[p] = "embed"
    /\ Grant("embedding", 1)
    /\ stage' = [stage EXCEPT ![p] = "cpu"]
    /\ UNCHANGED <<capacity, changes, feeder, budget, workQ, doneQ, hand, inWrite,
                   failedRun, wrote>>

GetModelCpu(p) ==
    /\ stage[p] = "cpu"
    /\ Grant("cpu", 1)
    /\ stage' = [stage EXCEPT ![p] = "model"]
    /\ UNCHANGED <<capacity, changes, feeder, budget, workQ, doneQ, hand, inWrite,
                   failedRun, wrote>>

\* The batch is embedded, or its job panics and the permits are unwound.
ModelDone(p) ==
    /\ stage[p] = "model"
    /\ stage' = [stage EXCEPT ![p] = "ended"]
    /\ inUse' = [inUse EXCEPT !["embedding"] = @ - 1, !["cpu"] = @ - 1]
    /\ UNCHANGED <<capacity, changes, feeder, budget, workQ, doneQ, hand, inWrite,
                   failedRun, wrote>>

RunStep(p) ==
    \/ StartRun(p) \/ FeedNext(p) \/ FeedBudget(p) \/ FeedSend(p)
    \/ \E w \in Hands :
          \/ TakeWork(p, w) \/ GetPermit(p, w, "ocr", "cpu")
          \/ GetPermit(p, w, "cpu", "prepare")
          \/ Prepared(p, w) \/ SendDone(p, w) \/ Leave(p, w)
    \/ Collect(p) \/ WriteBatch(p) \/ CloseRun(p)
    \/ GetModel(p) \/ GetModelCpu(p) \/ ModelDone(p)

PipeNext ==
    \/ \E l \in Capacities : SetLimits(l)
    \/ \E p \in Runs : RunStep(p)

\* Threads are scheduled; nobody has to change the limits.
PipeFairness ==
    \A p \in Runs :
        /\ WF_pipeVars(StartRun(p)) /\ WF_pipeVars(FeedNext(p) \/ FeedBudget(p) \/ FeedSend(p))
        /\ \A w \in Hands :
              WF_pipeVars(\/ TakeWork(p, w) \/ GetPermit(p, w, "ocr", "cpu")
                          \/ GetPermit(p, w, "cpu", "prepare")
                          \/ Prepared(p, w) \/ SendDone(p, w) \/ Leave(p, w))
        /\ WF_pipeVars(Collect(p) \/ WriteBatch(p) \/ CloseRun(p))
        /\ WF_pipeVars(GetModel(p) \/ GetModelCpu(p) \/ ModelDone(p))

PipeSpec == PipeInit /\ [][PipeNext]_pipeVars /\ PipeFairness

-----------------------------------------------------------------------------
(* Permits held: bytes by items on their way, the others by threads.        *)
HeldBytes == SumFunctionOnSet(ItemBytes, AllItems)
HandsIn(steps) == {x \in Runs \X Hands : hand[x[1]][x[2]].step \in steps}
StagesIn(stages) == {p \in Runs : stage[p] \in stages}

(* What a pool counts as used is what is held, whichever way items end       *)
(* (committed, failed, cancelled) and whatever became of the limits.        *)
PermitsAccounted ==
    /\ inUse["bytes"] = HeldBytes
    /\ inUse["cpu"] = Cardinality(HandsIn({"prepare"})) + Cardinality(StagesIn({"model"}))
    /\ inUse["embedding"] = Cardinality(StagesIn({"cpu", "model"}))
    /\ inUse["ocr"] = Cardinality({x \in HandsIn({"cpu", "prepare"}) :
                                       <<x[1], hand[x[1]][x[2]].item>> \in Heavy})

(* While nobody changes the limits they are kept, by oversized items too.   *)
LimitsKept == changes = 0 => \A c \in PoolNames : inUse[c] <= capacity[c]

(* The permits in use are those that tasks hold, and they stay within the    *)
(* limits in force when they were granted (governor.rs:196-218).             *)
PermitsSafe == PermitsAccounted /\ LimitsKept

(* A source that ends well has committed each of its items once; none is     *)
(* lost between feeder, channels, workers and writer, none is taken twice.   *)
CommittedOnce ==
    \A p \in Runs :
        /\ IsInjective(wrote[p])
        /\ stage[p] \in {"embed", "cpu", "model"} \/ (stage[p] = "ended" /\ ~failedRun[p])
              => ToSet(wrote[p]) = Items(p)

(* Every source ends: no thread waits for ever for a permit, a channel or    *)
(* another source, also when a writer failed or the limits were lowered.     *)
RunsEnd == <>(\A p \in Runs : stage[p] = "ended")
=============================================================================
