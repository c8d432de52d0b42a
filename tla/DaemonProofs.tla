----------------------------- MODULE DaemonProofs -----------------------------
(***************************************************************************)
(* What holds of trigger coalescing and of the daemon, for any workers,      *)
(* sources, paths, limits and waiting times.                                *)
(*                                                                         *)
(* Coalescing: the types with the bound on remembered paths, the agreement   *)
(* of queue and map, that no trigger is forgotten, and that an entry that    *)
(* waited long enough is overtaken by no more than the others.  The daemon,  *)
(* in worlds with and without faults: the scheduler's idea of the running    *)
(* passes is the workers', run locks are exclusive, and, without faults,     *)
(* triggers and due graphs are not lost.  Its invariant adds what the code   *)
(* takes for granted: a worker that is past starting a pass has a source.    *)
(***************************************************************************)
EXTENDS Daemon, FiniteSetTheorems, TLAPS

-----------------------------------------------------------------------------
(* Trigger coalescing.                                                       *)

SchedInv == SchedTypeOK /\ QueueMatchesPending /\ NothingForgotten

-----------------------------------------------------------------------------
(* Remembering a trigger keeps the limit and forgets nothing.               *)
LEMMA RememberFacts ==
    ASSUME SchedTypeOK, NothingForgotten,
           NEW s \in Sources, NEW force \in BOOLEAN, NEW paths \in SUBSET Paths,
           Remember(s, force, paths),
           owed' = [owed EXCEPT ![s] = @ \cup paths \cup IF force THEN {All} ELSE {}]
    PROVE  /\ touched' \in [Sources -> {T \in SUBSET Paths : Cardinality(T) <= MaxPaths}]
           /\ forceFull' \in [Sources -> BOOLEAN]
           /\ owed' \in [Sources -> SUBSET (Paths \cup {All})]
           /\ NothingForgotten'
<1> DEFINE Small == {T \in SUBSET Paths : Cardinality(T) <= MaxPaths}
           full  == forceFull[s] \/ force
           union == touched[s] \cup paths
           over  == ~full /\ paths # {} /\ Cardinality(union) > MaxPaths
<1>1. /\ forceFull' = [forceFull EXCEPT ![s] = full \/ over]
      /\ touched' = [touched EXCEPT ![s] = IF over THEN {} ELSE IF full THEN @ ELSE union]
  BY DEF Remember
<1>2. touched \in [Sources -> Small] /\ forceFull \in [Sources -> BOOLEAN]
      /\ owed \in [Sources -> SUBSET (Paths \cup {All})]
  BY DEF SchedTypeOK
<1>3. {} \in Small
  BY FS_EmptySet, SchedulerAssumption
<1>4. ASSUME ~full, ~over
      PROVE  union \in Small
  <2>1. CASE paths = {}
    <3>1. union = touched[s]
      BY <2>1
    <3> QED BY <3>1, <1>2
  <2>2. CASE paths # {}
    <3>1. IsFiniteSet(union) /\ union \in SUBSET Paths
      BY <1>2, FS_Subset, SchedulerAssumption
    <3>2. Cardinality(union) \in Nat
      BY <3>1, FS_CardinalityType
    <3>3. ~(Cardinality(union) > MaxPaths)
      BY <1>4, <2>2
    <3> HIDE DEF union
    <3> QED BY <3>1, <3>2, <3>3, SchedulerAssumption
  <2> QED BY <2>1, <2>2
<1>5. touched' \in [Sources -> Small]
  <2>1. (IF over THEN {} ELSE IF full THEN touched[s] ELSE union) \in Small
    <3> HIDE DEF Small, full, over, union
    <3> QED BY <1>2, <1>3, <1>4
  <2> HIDE DEF Small, full, over, union
  <2> QED BY <1>1, <1>2, <2>1
<1>6. forceFull' \in [Sources -> BOOLEAN]
  <2>1. (full \/ over) \in BOOLEAN
    OBVIOUS
  <2> HIDE DEF full, over
  <2> QED BY <1>1, <1>2, <2>1
<1>7. owed' \in [Sources -> SUBSET (Paths \cup {All})]
  BY <1>2
<1>8. ASSUME NEW t \in Sources
      PROVE  /\ All \in owed'[t] => forceFull'[t]
             /\ forceFull'[t] \/ owed'[t] \subseteq touched'[t]
  <2>1. CASE t # s
    BY <1>1, <1>2, <2>1 DEF NothingForgotten
  <2>2. CASE t = s
    <3>1. /\ owed'[s] = owed[s] \cup paths \cup IF force THEN {All} ELSE {}
          /\ forceFull'[s] = (full \/ over)
          /\ touched'[s] = IF over THEN {} ELSE IF full THEN touched[s] ELSE union
      BY <1>1, <1>2
    <3>2. CASE full \/ over
      BY <2>2, <3>1, <3>2
    <3>3. CASE ~full /\ ~over
      <4>1. owed'[s] = owed[s] \cup paths /\ touched'[s] = touched[s] \cup paths
        BY <3>1, <3>3
      <4>2. owed[s] \subseteq touched[s] /\ All \notin owed[s]
        BY <3>3 DEF NothingForgotten
      <4> QED BY <2>2, <4>1, <4>2, SchedulerAssumption
    <3> QED BY <3>2, <3>3
  <2> QED BY <2>1, <2>2
<1> QED BY <1>5, <1>6, <1>7, <1>8 DEF NothingForgotten

(* Taking position i out of a queue of distinct sources.                     *)
LEMMA WithoutFacts ==
    ASSUME NEW S, NEW q \in Seq(S), NEW i \in 1 .. Len(q),
           \A j, k \in 1 .. Len(q) : q[j] = q[k] => j = k
    PROVE  LET r == Without(q, i) IN
           /\ r \in Seq(S) /\ Len(r) = Len(q) - 1
           /\ \A j, k \in 1 .. Len(r) : r[j] = r[k] => j = k
           /\ {r[j] : j \in 1 .. Len(r)} = {q[j] : j \in 1 .. Len(q)} \ {q[i]}
<1> DEFINE r == Without(q, i)
<1>1. Len(q) \in Nat /\ Len(q) - 1 \in Nat
  OBVIOUS
<1>2. /\ r \in Seq(S) /\ Len(r) = Len(q) - 1
      /\ \A j \in 1 .. Len(q) - 1 : r[j] = IF j < i THEN q[j] ELSE q[j + 1]
  BY <1>1 DEF Without
<1>3. ASSUME NEW j \in 1 .. Len(r), NEW k \in 1 .. Len(r), r[j] = r[k]
      PROVE  j = k
  BY <1>1, <1>2, <1>3
<1>4. ASSUME NEW j \in 1 .. Len(r)
      PROVE  r[j] \in {q[k] : k \in 1 .. Len(q)} \ {q[i]}
  BY <1>1, <1>2
<1>5. ASSUME NEW k \in 1 .. Len(q), q[k] # q[i]
      PROVE  q[k] \in {r[j] : j \in 1 .. Len(r)}
  <2>1. CASE k < i
    <3>1. k \in 1 .. Len(r) /\ r[k] = q[k]
      BY <1>1, <1>2, <2>1
    <3> QED BY <3>1
  <2>2. CASE k > i
    <3>1. k - 1 \in 1 .. Len(r) /\ r[k - 1] = q[k]
      BY <1>1, <1>2, <2>2
    <3> QED BY <3>1
  <2>3. k # i
    BY <1>5
  <2> QED BY <2>1, <2>2, <2>3
<1>6. {r[j] : j \in 1 .. Len(r)} = {q[j] : j \in 1 .. Len(q)} \ {q[i]}
  <2> HIDE DEF r
  <2> QED BY <1>4, <1>5
<1> QED BY <1>2, <1>3, <1>6

(* Appending a source that is not in the queue.                             *)
LEMMA AppendFacts ==
    ASSUME NEW S, NEW q \in Seq(S), NEW s \in S,
           \A j, k \in 1 .. Len(q) : q[j] = q[k] => j = k,
           s \notin {q[j] : j \in 1 .. Len(q)}
    PROVE  LET r == Append(q, s) IN
           /\ r \in Seq(S)
           /\ \A j, k \in 1 .. Len(r) : r[j] = r[k] => j = k
           /\ {r[j] : j \in 1 .. Len(r)} = {q[j] : j \in 1 .. Len(q)} \cup {s}
<1> DEFINE r == Append(q, s)
<1>1. /\ r \in Seq(S) /\ Len(r) = Len(q) + 1 /\ Len(q) \in Nat
      /\ r[Len(q) + 1] = s /\ \A j \in 1 .. Len(q) : r[j] = q[j]
  OBVIOUS
<1> HIDE DEF r
<1>2. ASSUME NEW j \in 1 .. Len(r), NEW k \in 1 .. Len(r), r[j] = r[k]
      PROVE  j = k
  BY <1>1, <1>2
<1>3. {r[j] : j \in 1 .. Len(r)} = {q[j] : j \in 1 .. Len(q)} \cup {s}
  <2>1. ASSUME NEW j \in 1 .. Len(r)
        PROVE  r[j] \in {q[k] : k \in 1 .. Len(q)} \cup {s}
    BY <1>1
  <2>2. ASSUME NEW k \in 1 .. Len(q)
        PROVE  q[k] \in {r[j] : j \in 1 .. Len(r)}
    BY <1>1
  <2>3. s \in {r[j] : j \in 1 .. Len(r)}
    BY <1>1
  <2> QED BY <2>1, <2>2, <2>3
<1> QED BY <1>1, <1>2, <1>3 DEF r


-----------------------------------------------------------------------------
(* The first three operations keep the invariant, each in a lemma.           *)
LEMMA EnqueueKeeps ==
    ASSUME SchedInv, NEW s \in Sources, NEW force \in BOOLEAN,
           NEW paths \in SUBSET Paths, Enqueue(s, force, paths)
    PROVE  SchedInv'
<1> USE DEF SchedInv
<1>1. /\ touched' \in [Sources -> {T \in SUBSET Paths : Cardinality(T) <= MaxPaths}]
      /\ forceFull' \in [Sources -> BOOLEAN]
      /\ owed' \in [Sources -> SUBSET (Paths \cup {All})]
      /\ NothingForgotten'
  BY RememberFacts DEF Enqueue
<1>2. /\ queue \in Seq(Sources) /\ waited \in [Sources -> 0 .. MaxWait]
      /\ pending \in [Sources -> {"none", "queued", "running", "followup"}]
      /\ overtaken \in [Sources -> 0 .. Cardinality(Sources)]
  BY DEF SchedTypeOK
<1>3. 0 \in 0 .. MaxWait /\ 0 \in 0 .. Cardinality(Sources)
  BY SchedulerAssumption, FS_CardinalityType
<1>4. CASE pending[s] = "none"
  <2>1. /\ pending' = [pending EXCEPT ![s] = "queued"] /\ queue' = Append(queue, s)
        /\ waited' = [waited EXCEPT ![s] = 0] /\ overtaken' = [overtaken EXCEPT ![s] = 0]
    BY <1>4 DEF Enqueue
  <2>2. s \notin InQueue
    BY <1>4 DEF QueueMatchesPending
  <2>3. /\ queue' \in Seq(Sources)
        /\ \A j, k \in 1 .. Len(queue') : queue'[j] = queue'[k] => j = k
        /\ InQueue' = InQueue \cup {s}
    BY <2>1, <2>2, <1>2, AppendFacts DEF QueueMatchesPending, InQueue
  <2>4. SchedTypeOK'
    BY <1>1, <1>2, <1>3, <2>1, <2>3 DEF SchedTypeOK
  <2>5. QueueMatchesPending'
    BY <1>2, <2>1, <2>3 DEF QueueMatchesPending
  <2> QED BY <1>1, <2>4, <2>5
<1>5. CASE pending[s] = "running"
  <2>1. pending' = [pending EXCEPT ![s] = "followup"] /\ UNCHANGED <<queue, waited, overtaken>>
    BY <1>5 DEF Enqueue
  <2>2. SchedTypeOK'
    BY <1>1, <1>2, <2>1 DEF SchedTypeOK
  <2>3. QueueMatchesPending'
    BY <1>2, <1>5, <2>1 DEF QueueMatchesPending, InQueue
  <2> QED BY <1>1, <2>2, <2>3
<1>6. CASE pending[s] \notin {"none", "running"}
  <2>1. UNCHANGED <<pending, queue, waited, overtaken>>
    BY <1>6 DEF Enqueue
  <2>2. SchedTypeOK' /\ QueueMatchesPending'
    BY SMTT(30), <1>1, <1>2, <2>1 DEF SchedTypeOK, QueueMatchesPending, InQueue
  <2> QED BY <1>1, <2>2
<1> QED BY <1>4, <1>5, <1>6

(* Taking the head of the queue keeps queue and map in step.                 *)
LEMMA StartNextKeeps ==
    ASSUME SchedInv, NEW s \in Sources, StartNext(s)
    PROVE  SchedInv'
<1> USE DEF SchedInv
<1>1. /\ queue \in Seq(Sources) /\ waited \in [Sources -> 0 .. MaxWait]
      /\ pending \in [Sources -> {"none", "queued", "running", "followup"}]
      /\ overtaken \in [Sources -> 0 .. Cardinality(Sources)]
  BY DEF SchedTypeOK
<1>2. PICK i \in NextPosition : queue[i] = s /\ queue' = Without(queue, i)
  BY DEF StartNext
<1>3. i \in 1 .. Len(queue)
  BY <1>2 DEF NextPosition, First
<1>4. /\ queue' \in Seq(Sources)
      /\ \A j, k \in 1 .. Len(queue') : queue'[j] = queue'[k] => j = k
      /\ InQueue' = InQueue \ {s}
  <2>1. \A j, k \in 1 .. Len(queue) : queue[j] = queue[k] => j = k
    BY DEF QueueMatchesPending
  <2>2. LET r == Without(queue, i) IN
        /\ r \in Seq(Sources) /\ Len(r) = Len(queue) - 1
        /\ \A j, k \in 1 .. Len(r) : r[j] = r[k] => j = k
        /\ {r[j] : j \in 1 .. Len(r)} = {queue[j] : j \in 1 .. Len(queue)} \ {queue[i]}
    BY <1>1, <1>3, <2>1, WithoutFacts
  <2>3. queue[i] = s /\ queue' = Without(queue, i)
    BY <1>2
  <2> QED BY <2>2, <2>3 DEF InQueue
<1>5. pending' = [pending EXCEPT ![s] = "running"] /\ UNCHANGED <<touched, forceFull, owed>>
  BY DEF StartNext
<1>6. waited' \in [Sources -> 0 .. MaxWait]
  BY <1>1, SchedulerAssumption DEF StartNext
<1>7. overtaken' \in [Sources -> 0 .. Cardinality(Sources)]
  <2>1. Cardinality(Sources) \in Nat
    BY SchedulerAssumption, FS_CardinalityType
  <2> QED BY <1>1, <2>1 DEF StartNext
<1>8. SchedTypeOK'
  BY <1>1, <1>4, <1>5, <1>6, <1>7 DEF SchedTypeOK
<1>9. QueueMatchesPending'
  BY <1>1, <1>4, <1>5 DEF QueueMatchesPending
<1>10. NothingForgotten'
  BY <1>5 DEF NothingForgotten
<1> QED BY <1>8, <1>9, <1>10

(* The end of a pass queues its source again if a trigger came meanwhile.    *)
LEMMA SettleKeeps ==
    ASSUME SchedInv, NEW s \in Sources, Settle(s)
    PROVE  SchedInv'
<1> USE DEF SchedInv
<1>1. /\ queue \in Seq(Sources) /\ waited \in [Sources -> 0 .. MaxWait]
      /\ pending \in [Sources -> {"none", "queued", "running", "followup"}]
      /\ overtaken \in [Sources -> 0 .. Cardinality(Sources)]
  BY DEF SchedTypeOK
<1>2. UNCHANGED <<touched, forceFull, owed>> /\ Active(s)
  BY DEF Settle
<1>3. NothingForgotten'
  BY <1>2 DEF NothingForgotten
<1>4. 0 \in 0 .. MaxWait /\ 0 \in 0 .. Cardinality(Sources)
  BY SchedulerAssumption, FS_CardinalityType
<1>5. CASE pending[s] = "followup"
  <2>1. /\ pending' = [pending EXCEPT ![s] = "queued"] /\ queue' = Append(queue, s)
        /\ waited' = [waited EXCEPT ![s] = 0] /\ overtaken' = [overtaken EXCEPT ![s] = 0]
    BY <1>5 DEF Settle
  <2>2. s \notin InQueue
    BY <1>5 DEF QueueMatchesPending
  <2>3. /\ queue' \in Seq(Sources)
        /\ \A j, k \in 1 .. Len(queue') : queue'[j] = queue'[k] => j = k
        /\ InQueue' = InQueue \cup {s}
    BY <2>1, <2>2, <1>1, AppendFacts DEF QueueMatchesPending, InQueue
  <2>4. SchedTypeOK'
    BY <1>1, <1>2, <1>4, <2>1, <2>3 DEF SchedTypeOK
  <2>5. QueueMatchesPending'
    BY <1>1, <2>1, <2>3 DEF QueueMatchesPending
  <2> QED BY <1>3, <2>4, <2>5
<1>6. CASE pending[s] # "followup"
  <2>1. pending' = [pending EXCEPT ![s] = "none"] /\ UNCHANGED <<queue, waited, overtaken>>
    BY <1>6 DEF Settle
  <2>2. SchedTypeOK'
    BY <1>1, <1>2, <2>1 DEF SchedTypeOK
  <2>3. QueueMatchesPending'
    BY <1>1, <1>2, <2>1 DEF QueueMatchesPending, InQueue, Active
  <2> QED BY <1>3, <2>2, <2>3
<1> QED BY <1>5, <1>6

(* A pass that takes a request owes nothing any more.                        *)
LEMMA TakeRequestKeeps ==
    ASSUME SchedInv, NEW s \in Sources, TakeRequest(s)
    PROVE  SchedInv'
<1> USE DEF SchedInv
<1>1. /\ touched' = [touched EXCEPT ![s] = {}] /\ forceFull' = [forceFull EXCEPT ![s] = FALSE]
      /\ owed' = [owed EXCEPT ![s] = {}] /\ UNCHANGED <<queue, pending, waited, overtaken>>
  BY DEF TakeRequest
<1>2. {} \in {T \in SUBSET Paths : Cardinality(T) <= MaxPaths}
  BY FS_EmptySet, SchedulerAssumption
<1>3. SchedTypeOK'
  BY <1>1, <1>2 DEF SchedTypeOK
<1>4. QueueMatchesPending'
  BY <1>1 DEF QueueMatchesPending, InQueue
<1>5. NothingForgotten'
  BY <1>1 DEF NothingForgotten, SchedTypeOK
<1> QED BY <1>3, <1>4, <1>5

-----------------------------------------------------------------------------
(* Every step keeps the invariant.                                           *)
LEMMA SchedulerStep ==
    ASSUME SchedInv, [SchedNext]_schedVars
    PROVE  SchedInv'
<1>1. CASE \E s \in Sources : \E force \in BOOLEAN, paths \in SUBSET Paths :
               Enqueue(s, force, paths)
  BY <1>1, EnqueueKeeps
<1>2. CASE \E s \in Sources : StartNext(s)
  BY <1>2, StartNextKeeps
<1>3. CASE \E s \in Sources : TakeRequest(s)
  BY <1>3, TakeRequestKeeps
<1>4. CASE \E s \in Sources : Settle(s)
  BY <1>4, SettleKeeps
<1>5. CASE ClearQueue
  <2>1. SchedTypeOK'
    <3>1. Cardinality(Sources) \in Nat /\ 0 \in 0 .. Cardinality(Sources)
      BY SchedulerAssumption, FS_CardinalityType
    <3>2. queue' \in Seq(Sources)
      BY <1>5 DEF ClearQueue
    <3>3. /\ pending' \in [Sources -> {"none", "queued", "running", "followup"}]
          /\ waited' \in [Sources -> 0 .. MaxWait]
          /\ overtaken' \in [Sources -> 0 .. Cardinality(Sources)]
      BY <1>5, <3>1, SchedulerAssumption DEF ClearQueue, SchedInv, SchedTypeOK
    <3> QED BY <1>5, <3>2, <3>3 DEF ClearQueue, SchedInv, SchedTypeOK
  <2>2. InQueue' = {}
    BY <1>5 DEF ClearQueue, InQueue
  <2>3. \A s \in Sources : pending'[s] # "queued"
    BY <1>5 DEF ClearQueue, SchedInv, QueueMatchesPending
  <2>4. QueueMatchesPending'
    BY <1>5, <2>2, <2>3 DEF ClearQueue, QueueMatchesPending
  <2>5. NothingForgotten'
    BY <1>5 DEF ClearQueue, SchedInv, NothingForgotten
  <2> QED BY <2>1, <2>4, <2>5 DEF SchedInv
<1>6. CASE Wait
  <2>1. waited' \in [Sources -> 0 .. MaxWait]
    BY <1>6, SchedulerAssumption DEF Wait, SchedInv, SchedTypeOK
  <2> QED BY <1>6, <2>1 DEF Wait, SchedInv, SchedTypeOK, QueueMatchesPending,
                            NothingForgotten, InQueue
<1>7. CASE UNCHANGED schedVars
  BY <1>7 DEF schedVars, SchedInv, SchedTypeOK, QueueMatchesPending,
              NothingForgotten, InQueue
<1> QED BY <1>1, <1>2, <1>3, <1>4, <1>5, <1>6, <1>7 DEF SchedNext

(* It holds at the start.                                                   *)
LEMMA SchedulerStarts ==
    ASSUME SchedInit
    PROVE  SchedInv
<1>1. /\ {} \in {T \in SUBSET Paths : Cardinality(T) <= MaxPaths}
      /\ 0 \in 0 .. MaxWait /\ 0 \in 0 .. Cardinality(Sources)
  BY FS_EmptySet, FS_CardinalityType, SchedulerAssumption
<1>2. SchedTypeOK
  BY <1>1 DEF SchedInit, SchedTypeOK
<1>3. QueueMatchesPending /\ NothingForgotten
  BY DEF SchedInit, QueueMatchesPending, NothingForgotten, InQueue
<1> QED BY <1>2, <1>3 DEF SchedInv

(* Trigger coalescing keeps its types and the limit on remembered paths, its *)
(* queue and map in step, and what triggers asked for, for all sources,      *)
(* paths and limits.                                                         *)
THEOREM SchedulerInvariant == SchedSpec => []SchedInv
<1>1. SchedInit => SchedInv
  BY SchedulerStarts
<1>2. SchedInv /\ [SchedNext]_schedVars => SchedInv'
  BY SchedulerStep
<1> QED BY <1>1, <1>2, PTL DEF SchedSpec

(* Nothing a trigger asked for is forgotten before a pass takes it           *)
(* (enqueue_at's overflow to a full scan, take_request).                    *)
THEOREM TriggersRemembered == SchedSpec => []NothingForgotten
BY SchedulerInvariant, PTL DEF SchedInv

(* The queue holds exactly the sources marked queued, each once              *)
(* (start_next_at, settle_at, clear_queue).                                 *)
THEOREM QueueInStep == SchedSpec => []QueueMatchesPending
BY SchedulerInvariant, PTL DEF SchedInv

-----------------------------------------------------------------------------
(* An entry that waited max_wait is not overtaken by work that keeps         *)
(* arriving.  What makes the bound inductive is the room in front of an      *)
(* entry: those before it in the queue are all that can still overtake it.   *)

QueueRoom ==
    \A i \in 1 .. Len(queue) : overtaken[queue[i]] + i <= Cardinality(Sources)

AgeInv == SchedInv /\ QueueRoom /\ AgedBound

(* A queue of distinct sources is no longer than there are sources.          *)
LEMMA DistinctFits ==
    ASSUME NEW q \in Seq(Sources),
           \A i, j \in 1 .. Len(q) : q[i] = q[j] => i = j
    PROVE  Len(q) <= Cardinality(Sources)
<1>1. Len(q) \in Nat /\ q \in [1 .. Len(q) -> Sources]
  OBVIOUS
<1>2. q \in Injection(1 .. Len(q), Sources)
  BY <1>1 DEF Injection, IsInjective
<1>3. Cardinality(1 .. Len(q)) <= Cardinality(Sources)
  BY <1>2, FS_Injection, SchedulerAssumption
<1>4. Cardinality(1 .. Len(q)) = Len(q)
  BY <1>1, FS_Interval
<1> QED BY <1>3, <1>4

(* A new entry goes to the back with all the room it needs.                  *)
LEMMA AppendKeepsRoom ==
    ASSUME AgeInv, SchedInv', NEW s \in Sources,
           queue' = Append(queue, s), overtaken' = [overtaken EXCEPT ![s] = 0],
           s \notin InQueue
    PROVE  AgeInv'
<1>1. /\ queue \in Seq(Sources) /\ queue' \in Seq(Sources)
      /\ overtaken \in [Sources -> 0 .. Cardinality(Sources)]
      /\ Cardinality(Sources) \in Nat
  BY FS_CardinalityType, SchedulerAssumption DEF AgeInv, SchedInv, SchedTypeOK
<1>2. Len(queue') <= Cardinality(Sources)
  BY <1>1, DistinctFits DEF SchedInv, QueueMatchesPending
<1>3. /\ Len(queue') = Len(queue) + 1 /\ Len(queue) \in Nat
      /\ queue'[Len(queue) + 1] = s
      /\ \A i \in 1 .. Len(queue) : queue'[i] = queue[i] /\ queue[i] # s /\ queue[i] \in Sources
  BY <1>1 DEF InQueue
<1>4. ASSUME NEW i \in 1 .. Len(queue')
      PROVE  overtaken'[queue'[i]] + i <= Cardinality(Sources)
  <2>1. CASE i = Len(queue) + 1
    BY <1>1, <1>2, <1>3, <2>1
  <2>2. CASE i \in 1 .. Len(queue)
    BY <1>1, <1>3, <2>2 DEF AgeInv, QueueRoom
  <2> QED BY <1>3, <2>1, <2>2
<1>5. ASSUME NEW t \in Sources
      PROVE  overtaken'[t] < Cardinality(Sources)
  BY <1>1, <1>2, <1>3 DEF AgeInv, AgedBound
<1> QED BY <1>4, <1>5 DEF AgeInv, QueueRoom, AgedBound

(* What start_next takes leaves no entry behind that waited max_wait and     *)
(* stood before it.                                                          *)
LEMMA NextIsOldestAged ==
    ASSUME SchedInv, NEW i \in NextPosition, NEW j \in 1 .. i - 1
    PROVE  i \in 1 .. Len(queue) /\ ~(waited[queue[j]] >= MaxWait)
<1> DEFINE all    == 1 .. Len(queue)
           aged   == {k \in all : waited[queue[k]] >= MaxWait}
           urgent == {k \in all : Urgent(queue[k])}
<1>1. Len(queue) \in Nat
  BY DEF SchedInv, SchedTypeOK
<1>2. CASE UrgentFirst /\ aged # {}
  <2>1. i \in First(aged)
    BY <1>2 DEF NextPosition
  <2> QED BY <1>1, <2>1 DEF First
<1>3. CASE UrgentFirst /\ aged = {} /\ urgent # {}
  <2>1. i \in First(urgent)
    BY <1>3 DEF NextPosition
  <2>2. i \in all /\ j \in all
    BY <1>1, <2>1 DEF First
  <2> QED BY <1>3, <2>2
<1>4. CASE ~(UrgentFirst /\ aged # {}) /\ ~(UrgentFirst /\ aged = {} /\ urgent # {})
  <2>1. i \in First(all)
    BY <1>4 DEF NextPosition
  <2>2. i \in all /\ 1 \in all /\ i <= 1
    BY <1>1, <2>1 DEF First
  <2> QED BY <1>1, <2>2
<1> QED BY <1>2, <1>3, <1>4

(* Every other source is overtaken at most once more by the one that starts. *)
LEMMA StartNextKeepsRoom ==
    ASSUME AgeInv, NEW s \in Sources, StartNext(s)
    PROVE  AgeInv'
<1> USE DEF AgeInv
<1>1. SchedInv'
  BY StartNextKeeps
<1>2. /\ queue \in Seq(Sources) /\ Len(queue) \in Nat
      /\ overtaken \in [Sources -> 0 .. Cardinality(Sources)]
      /\ Cardinality(Sources) \in Nat
  BY FS_CardinalityType, SchedulerAssumption DEF SchedInv, SchedTypeOK
<1>3. PICK i \in NextPosition : queue[i] = s /\ queue' = Without(queue, i)
  BY DEF StartNext
<1>4. i \in 1 .. Len(queue)
  BY <1>3 DEF NextPosition, First
<1>5. /\ Len(queue') = Len(queue) - 1
      /\ \A j \in 1 .. Len(queue) - 1 :
            queue'[j] = IF j < i THEN queue[j] ELSE queue[j + 1]
  BY <1>2, <1>3, <1>4 DEF Without
<1>6. \A t \in Sources : overtaken'[t] =
          IF /\ t # s /\ pending[t] = "queued" /\ waited[t] >= MaxWait
             /\ overtaken[t] < Cardinality(Sources)
          THEN overtaken[t] + 1 ELSE overtaken[t]
  BY DEF StartNext
<1>7. ASSUME NEW j \in 1 .. Len(queue')
      PROVE  overtaken'[queue'[j]] + j <= Cardinality(Sources)
  <2>1. CASE j < i
    <3>1. queue'[j] = queue[j] /\ j \in 1 .. Len(queue) /\ j \in 1 .. i - 1
      BY <1>2, <1>4, <1>5, <2>1
    <3>2. ~(waited[queue[j]] >= MaxWait)
      BY <3>1, NextIsOldestAged
    <3>3. queue[j] \in Sources /\ overtaken'[queue[j]] = overtaken[queue[j]]
      BY <1>2, <1>6, <3>1, <3>2
    <3> QED BY <3>1, <3>3 DEF QueueRoom
  <2>2. CASE ~(j < i)
    <3>1. queue'[j] = queue[j + 1] /\ j + 1 \in 1 .. Len(queue)
      BY <1>2, <1>4, <1>5, <2>2
    <3>2. queue[j + 1] \in Sources /\ overtaken[queue[j + 1]] + (j + 1) <= Cardinality(Sources)
      BY <1>2, <3>1 DEF QueueRoom
    <3>3. overtaken'[queue[j + 1]] <= overtaken[queue[j + 1]] + 1
          /\ overtaken'[queue[j + 1]] \in Nat
      BY SMTT(30), <1>2, <1>6, <3>2
    <3> QED BY <1>2, <3>1, <3>2, <3>3
  <2> QED BY <2>1, <2>2
<1>8. ASSUME NEW t \in Sources
      PROVE  overtaken'[t] < Cardinality(Sources)
  <2>1. CASE t # s /\ pending[t] = "queued"
    <3>1. t \in InQueue
      BY <2>1 DEF SchedInv, QueueMatchesPending
    <3>2. PICK k \in 1 .. Len(queue) : queue[k] = t
      BY <3>1 DEF InQueue
    <3>3. k # i
      BY <1>3, <2>1, <3>2
    <3>4. CASE k < i
      <4>1. ~(waited[t] >= MaxWait)
        BY <1>2, <1>4, <3>2, <3>4, NextIsOldestAged
      <4> QED BY <1>6, <4>1 DEF AgedBound
    <3>5. CASE i < k
      <4>1. overtaken[t] + k <= Cardinality(Sources) /\ k >= 2
        BY <1>2, <1>4, <3>2, <3>5 DEF QueueRoom
      <4> QED BY <1>2, <1>6, <4>1
    <3> QED BY <1>2, <1>4, <3>3, <3>4, <3>5
  <2>2. CASE ~(t # s /\ pending[t] = "queued")
    BY <1>6, <2>2 DEF AgedBound
  <2> QED BY <2>1, <2>2
<1> QED BY <1>1, <1>7, <1>8 DEF QueueRoom, AgedBound

(* An entry that waited max_wait is overtaken at most once by every other    *)
(* source, for any sources, limits and waiting times.                        *)
THEOREM AgedEntriesStart == SchedSpec => []AgedBound
<1>1. SchedInit => AgeInv
  <2> SUFFICES ASSUME SchedInit PROVE AgeInv
    OBVIOUS
  <2>1. SchedInv
    BY SchedulerStarts
  <2>2. ASSUME NEW s \in Sources
        PROVE  0 < Cardinality(Sources)
    BY FS_EmptySet, FS_CardinalityType, SchedulerAssumption
  <2> QED BY <2>1, <2>2 DEF SchedInit, AgeInv, QueueRoom, AgedBound
<1>2. AgeInv /\ [SchedNext]_schedVars => AgeInv'
  <2> SUFFICES ASSUME AgeInv, [SchedNext]_schedVars PROVE AgeInv'
    OBVIOUS
  <2> USE DEF AgeInv
  <2>1. SchedInv'
    BY SchedulerStep
  <2>2. CASE UNCHANGED <<queue, overtaken>>
    BY <2>1, <2>2 DEF QueueRoom, AgedBound
  <2>3. ASSUME NEW s \in Sources, queue' = Append(queue, s),
               overtaken' = [overtaken EXCEPT ![s] = 0], s \notin InQueue
        PROVE  AgeInv'
    BY <2>1, <2>3, AppendKeepsRoom
  <2>4. ASSUME NEW s \in Sources, NEW force \in BOOLEAN, NEW paths \in SUBSET Paths,
               Enqueue(s, force, paths)
        PROVE  AgeInv'
    BY <2>2, <2>3, <2>4 DEF Enqueue, SchedInv, QueueMatchesPending
  <2>5. ASSUME NEW s \in Sources, StartNext(s)
        PROVE  AgeInv'
    BY <2>5, StartNextKeepsRoom
  <2>6. ASSUME NEW s \in Sources, TakeRequest(s)
        PROVE  AgeInv'
    BY <2>2, <2>6 DEF TakeRequest
  <2>7. ASSUME NEW s \in Sources, Settle(s)
        PROVE  AgeInv'
    BY <2>2, <2>3, <2>7 DEF Settle, SchedInv, QueueMatchesPending
  <2>8. CASE ClearQueue
    <3>1. \A s \in Sources : overtaken'[s] = 0 /\ overtaken[s] \in Nat
      BY <2>8, FS_CardinalityType, SchedulerAssumption DEF ClearQueue, SchedInv, SchedTypeOK
    <3>2. queue' = <<>>
      BY <2>8 DEF ClearQueue
    <3>3. \A s \in Sources : 0 < Cardinality(Sources)
      BY <3>1, FS_CardinalityType, SchedulerAssumption DEF AgedBound
    <3> QED BY <2>1, <3>1, <3>2, <3>3 DEF QueueRoom, AgedBound
  <2>9. CASE Wait
    BY <2>2, <2>9 DEF Wait
  <2>10. CASE UNCHANGED schedVars
    BY <2>2, <2>10 DEF schedVars
  <2> QED BY <2>4, <2>5, <2>6, <2>7, <2>8, <2>9, <2>10 DEF SchedNext
<1>3. AgeInv => AgedBound
  BY DEF AgeInv
<1> QED BY <1>1, <1>2, <1>3, PTL DEF SchedSpec

(* The queue holds exactly the sources marked queued, each once, and what     *)
(* waited max_wait is not overtaken by work that keeps arriving.             *)
THEOREM QueueIsRight == SchedSpec => []QueueRight
BY QueueInStep, AgedEntriesStart, PTL DEF QueueRight

-----------------------------------------------------------------------------

(* The daemon.                                                               *)

\* Between starting a pass and settling it, and during a graph, a worker has
\* the source it works on.
HasSource == \A w \in Workers : phase[w] \in PassPhases \cup {"graphing"} => cur[w] \in Sources

DaemonInv == SchedInv /\ OnePass /\ HasSource /\ WorkUnderLock

-----------------------------------------------------------------------------
(* Moving a worker, and steps that leave parts of the daemon alone.          *)

(* A move changes the phase of one worker.                                   *)
LEMMA MoveFacts ==
    ASSUME DaemonTypeOK, NEW w \in Workers, NEW from, NEW to \in DaemonPhases, Move(w, from, to)
    PROVE  /\ phase' \in [Workers -> DaemonPhases]
           /\ phase[w] = from /\ phase'[w] = to
           /\ \A v \in Workers : v # w => phase'[v] = phase[v]
BY DEF Move, DaemonTypeOK

\* A step that starts and settles no pass.
LEMMA PassesKept ==
    ASSUME OnePassPerSource, UNCHANGED pending,
           \A w \in Workers :
               /\ phase'[w] \in PassPhases <=> phase[w] \in PassPhases
               /\ phase[w] \in PassPhases => cur'[w] = cur[w]
    PROVE  OnePassPerSource'
<1>1. Running' = Running
  BY DEF Running, Active
<1>2. InPass' = InPass
  BY DEF InPass
<1> QED BY <1>1, <1>2 DEF OnePassPerSource

\* A trigger makes no source run or stop running.
LEMMA EnqueueRuns ==
    ASSUME SchedTypeOK, NEW s \in Sources, NEW force, NEW paths, Enqueue(s, force, paths)
    PROVE  Running' = Running
BY DEF Enqueue, Running, Active, SchedTypeOK

\* A step that takes and releases no run lock.
LEMMA LocksKept ==
    ASSUME WorkUnderLock, UNCHANGED holder,
           \A w \in Workers :
               phase'[w] \in {"take", "scan", "graphing"} =>
                   phase[w] \in {"take", "scan", "graphing"} /\ cur'[w] = cur[w]
    PROVE  WorkUnderLock'
BY DEF WorkUnderLock

-----------------------------------------------------------------------------
(* The steps of a worker.                                                    *)

(* A pass starts only for a source no worker has (daemon/mod.rs, run loop).  *)
LEMMA StartKeeps ==
    ASSUME DaemonInv, UNCHANGED faulty, NEW w \in Workers, NEW s \in Sources, Start(w, s)
    PROVE  DaemonInv'
<1> USE DEF DaemonInv, OnePass
<1>1. SchedInv'
  BY StartNextKeeps DEF Start
<1>2. /\ phase' \in [Workers -> DaemonPhases]
      /\ phase[w] = "idle" /\ phase'[w] = "got"
      /\ \A v \in Workers : v # w => phase'[v] = phase[v]
  BY MoveFacts DEF Start, DaemonPhases, PassPhases
<1>3. /\ cur' = [cur EXCEPT ![w] = s] /\ cur \in [Workers -> Sources \cup {Nobody}]
      /\ UNCHANGED <<request, batch, graphPending, holder, enabled, dirty, ungraphed, stopped>>
  BY DEF Start, DaemonTypeOK
<1>4. DaemonTypeOK'
  <2>1. \A v \in Workers : batch'[v] # {} => phase'[v] \in {"graph", "graphing"}
    BY <1>2, <1>3 DEF DaemonTypeOK
  <2> QED BY <1>1, <1>2, <1>3, <2>1 DEF DaemonTypeOK, SchedInv
<1>5. Running' = Running \cup {s} /\ s \notin Running
  <2>1. pending' = [pending EXCEPT ![s] = "running"]
    BY DEF Start, StartNext
  <2>2. s \in InQueue
    BY DEF Start, StartNext, NextPosition, First, InQueue
  <2>3. pending[s] = "queued"
    BY <2>2 DEF SchedInv, QueueMatchesPending
  <2> QED BY <2>1, <2>3 DEF Running, Active, SchedInv, SchedTypeOK
<1>6. InPass' = InPass \cup {s} /\ s \notin InPass
  BY <1>2, <1>3, <1>5 DEF InPass, OnePassPerSource, PassPhases
<1>7. OnePassPerSource'
  BY <1>2, <1>3, <1>5, <1>6 DEF OnePassPerSource, InPass, PassPhases
<1>8. HasSource'
  BY <1>2, <1>3 DEF HasSource
<1>9. WorkUnderLock'
  BY <1>2, <1>3, LocksKept
<1> QED BY <1>1, <1>4, <1>7, <1>8, <1>9

\* The moves of a pass that touch neither locks nor the scheduler.
LEMMA PlainMovesKeep ==
    ASSUME DaemonInv, UNCHANGED faulty, NEW w \in Workers,
           \/ Skip(w) \/ Check(w) \/ LockTimeout(w) \/ Record(w) \/ BatchDone(w)
    PROVE  DaemonInv'
<1> USE DEF DaemonInv, OnePass
<1>1. UNCHANGED <<schedVars, cur, request, batch, holder, enabled, dirty, ungraphed, stopped>>
  BY DEF Skip, Check, LockTimeout, Record, BatchDone
<1>2. SchedInv'
  BY <1>1, SchedulerStep DEF schedVars
<1>3. \E from, to \in DaemonPhases :
          /\ Move(w, from, to)
          /\ <<from, to>> \in {<<"got", "settle">>, <<"got", "lock">>, <<"lock", "backoff">>,
                              <<"record", "settle">>, <<"graph", "idle">>}
          /\ from = "graph" => batch[w] = {}
  BY DEF Skip, Check, LockTimeout, Record, BatchDone, DaemonPhases, PassPhases
<1>4. PICK from \in DaemonPhases, to \in DaemonPhases :
          /\ Move(w, from, to)
          /\ <<from, to>> \in {<<"got", "settle">>, <<"got", "lock">>, <<"lock", "backoff">>,
                              <<"record", "settle">>, <<"graph", "idle">>}
          /\ from = "graph" => batch[w] = {}
  BY <1>3
<1>5. /\ phase' \in [Workers -> DaemonPhases]
      /\ phase[w] = from /\ phase'[w] = to
      /\ \A v \in Workers : v # w => phase'[v] = phase[v]
  BY <1>4, MoveFacts
<1>6. from \in PassPhases <=> to \in PassPhases
  BY <1>4 DEF PassPhases
<1>7. graphPending' \subseteq Sources
  BY DEF Skip, Check, LockTimeout, Record, BatchDone, DaemonTypeOK, Move, HasSource, PassPhases
<1>8. \A v \in Workers : batch'[v] # {} => phase'[v] \in {"graph", "graphing"}
  BY <1>1, <1>4, <1>5 DEF DaemonTypeOK
<1>9. DaemonTypeOK'
  BY <1>1, <1>2, <1>5, <1>7, <1>8 DEF DaemonTypeOK, SchedInv
<1>10. OnePassPerSource'
  BY <1>1, <1>5, <1>6, PassesKept DEF schedVars
<1>11. HasSource'
  BY <1>1, <1>4, <1>5 DEF HasSource, PassPhases
<1>12. WorkUnderLock'
  BY <1>1, <1>4, <1>5, LocksKept
<1> QED BY <1>2, <1>9, <1>10, <1>11, <1>12

\* The moves that take or release the run lock of a pass.
LEMMA LockMovesKeep ==
    ASSUME DaemonInv, UNCHANGED faulty, NEW w \in Workers,
           \/ Lock(w) \/ RunPass(w) \/ PassFails(w)
    PROVE  DaemonInv'
<1> USE DEF DaemonInv, OnePass
<1>1. UNCHANGED <<schedVars, cur, batch, graphPending, enabled, stopped>>
  BY DEF Lock, RunPass, PassFails
<1>2. SchedInv'
  BY <1>1, SchedulerStep DEF schedVars
<1>3. \/ Move(w, "lock", "take") /\ holder[cur[w]] = Nobody
         /\ holder' = [holder EXCEPT ![cur[w]] = w]
         /\ UNCHANGED <<request, dirty, ungraphed>>
      \/ (Move(w, "scan", "record") \/ Move(w, "scan", "settle"))
         /\ holder' = [holder EXCEPT ![cur[w]] = Nobody]
         /\ request' = [request EXCEPT ![w] = NoRequest]
         /\ (RunPass(w) \/ UNCHANGED <<dirty, ungraphed>>)
  BY DEF Lock, RunPass, PassFails
<1>4. /\ phase' \in [Workers -> DaemonPhases]
      /\ \/ phase[w] = "lock" /\ phase'[w] = "take"
         \/ phase[w] = "scan" /\ phase'[w] \in {"record", "settle"}
      /\ \A v \in Workers : v # w => phase'[v] = phase[v]
  BY <1>3, MoveFacts DEF DaemonPhases, PassPhases
<1>5. cur[w] \in Sources
  BY <1>4 DEF HasSource, PassPhases
<1>6. holder' \in [Sources -> Workers \cup {Nobody, Outsider}]
  BY <1>3, <1>5 DEF DaemonTypeOK
<1>7. request' \in [Workers -> [full : BOOLEAN, paths : SUBSET Paths]]
  <2>1. NoRequest \in [full : BOOLEAN, paths : SUBSET Paths]
    BY DEF NoRequest
  <2> QED BY <1>3, <2>1 DEF DaemonTypeOK
<1>8. dirty' \in [Sources -> SUBSET Paths] /\ ungraphed' \subseteq Sources
  <2>1. CASE RunPass(w)
    BY <1>5, <2>1 DEF RunPass, DaemonTypeOK
  <2>2. CASE UNCHANGED <<dirty, ungraphed>>
    BY <2>2 DEF DaemonTypeOK
  <2> QED BY <1>3, <2>1, <2>2
<1>9. DaemonTypeOK'
  BY <1>1, <1>2, <1>4, <1>6, <1>7, <1>8 DEF DaemonTypeOK, SchedInv
<1>10. OnePassPerSource'
  BY <1>1, <1>4, PassesKept DEF schedVars, PassPhases
<1>11. HasSource'
  BY <1>1, <1>4 DEF HasSource, PassPhases
<1>12. WorkUnderLock'
  <2>1. \A v \in Workers : v # Nobody
    BY DaemonAssumption
  <2>2. holder \in [Sources -> Workers \cup {Nobody, Outsider}]
    BY DEF DaemonTypeOK
  <2>3. \A v \in Workers : phase[v] \in {"take", "scan", "graphing"} => cur[v] \in Sources
    BY DEF HasSource, PassPhases
  <2>4. cur' = cur
    BY <1>1
  <2>5. CASE phase[w] = "lock"
    <3>1. holder[cur[w]] = Nobody /\ holder' = [holder EXCEPT ![cur[w]] = w]
      BY <1>3, <1>4, <2>5 DEF Move
    <3> QED BY <1>4, <1>5, <2>1, <2>2, <2>3, <2>4, <2>5, <3>1 DEF WorkUnderLock
  <2>6. CASE phase[w] = "scan"
    <3>1. holder[cur[w]] = w /\ holder' = [holder EXCEPT ![cur[w]] = Nobody]
      BY <1>3, <1>4, <2>6 DEF Move, WorkUnderLock
    <3> QED BY <1>4, <1>5, <2>1, <2>2, <2>3, <2>4, <2>6, <3>1 DEF WorkUnderLock
  <2> QED BY <1>4, <2>5, <2>6
<1> QED BY <1>2, <1>9, <1>10, <1>11, <1>12

(* A pass whose lock is taken is settled with its request still due.         *)
LEMMA BackoffKeeps ==
    ASSUME DaemonInv, UNCHANGED faulty, NEW w \in Workers, Backoff(w)
    PROVE  DaemonInv'
<1> USE DEF DaemonInv, OnePass
<1>1. /\ phase' \in [Workers -> DaemonPhases]
      /\ phase[w] = "backoff" /\ phase'[w] = "settle"
      /\ \A v \in Workers : v # w => phase'[v] = phase[v]
  BY MoveFacts DEF Backoff, DaemonPhases, PassPhases
<1>2. UNCHANGED <<cur, request, batch, graphPending, holder, enabled, dirty, ungraphed, stopped>>
  BY DEF Backoff
<1>3. cur[w] \in Sources
  BY <1>1 DEF HasSource, PassPhases
<1>4. SchedInv' /\ Running' = Running
  <2>1. CASE stopped
    BY <2>1, SchedulerStep DEF Backoff, schedVars, Running, Active
  <2>2. CASE ~stopped
    <3>1. Enqueue(cur[w], FALSE, {})
      BY <2>2 DEF Backoff
    <3>2. {} \in SUBSET Paths /\ FALSE \in BOOLEAN
      OBVIOUS
    <3>3. SchedInv'
      BY <1>3, <3>1, <3>2, EnqueueKeeps
    <3>4. Running' = Running
      BY <1>3, <3>1, EnqueueRuns DEF SchedInv
    <3> QED BY <3>3, <3>4
  <2> QED BY <2>1, <2>2
<1>5. DaemonTypeOK'
  BY <1>1, <1>2, <1>4 DEF DaemonTypeOK, SchedInv
<1>6. OnePassPerSource'
  <2>1. InPass' = InPass
    BY <1>1, <1>2 DEF InPass, PassPhases
  <2> QED BY <1>1, <1>2, <1>4, <2>1 DEF OnePassPerSource, PassPhases
<1>7. HasSource'
  BY <1>1, <1>2 DEF HasSource, PassPhases
<1>8. WorkUnderLock'
  BY <1>1, <1>2, LocksKept
<1> QED BY <1>4, <1>5, <1>6, <1>7, <1>8

(* The worker takes the request under the run lock.                          *)
LEMMA TakeKeeps ==
    ASSUME DaemonInv, UNCHANGED faulty, NEW w \in Workers, Take(w)
    PROVE  DaemonInv'
<1> USE DEF DaemonInv, OnePass
<1>1. /\ phase' \in [Workers -> DaemonPhases]
      /\ phase[w] = "take" /\ phase'[w] = "scan"
      /\ \A v \in Workers : v # w => phase'[v] = phase[v]
  BY MoveFacts DEF Take, DaemonPhases, PassPhases
<1>2. UNCHANGED <<cur, batch, graphPending, holder, enabled, dirty, ungraphed, stopped>>
  BY DEF Take
<1>3. cur[w] \in Sources
  BY <1>1 DEF HasSource, PassPhases
<1>4. SchedInv' /\ UNCHANGED pending
  BY <1>3, TakeRequestKeeps DEF Take, TakeRequest
<1>5. request' \in [Workers -> [full : BOOLEAN, paths : SUBSET Paths]]
  <2>1. touched[cur[w]] \subseteq Paths /\ forceFull[cur[w]] \in BOOLEAN
    BY <1>3 DEF DaemonTypeOK, SchedTypeOK
  <2>2. FullRequest(cur[w]) \in BOOLEAN
    BY <2>1 DEF FullRequest
  <2> QED BY <2>1, <2>2 DEF Take, DaemonTypeOK
<1>6. DaemonTypeOK'
  BY <1>1, <1>2, <1>4, <1>5 DEF DaemonTypeOK, SchedInv
<1>7. OnePassPerSource'
  BY <1>1, <1>2, <1>4, PassesKept DEF PassPhases
<1>8. HasSource'
  BY <1>1, <1>2 DEF HasSource, PassPhases
<1>9. WorkUnderLock'
  BY <1>1, <1>2, LocksKept
<1> QED BY <1>4, <1>6, <1>7, <1>8, <1>9

(* Settling a pass leaves its source to the scheduler, and to the graph      *)
(* stage if it changed.                                                      *)
LEMMA SettlePassKeeps ==
    ASSUME DaemonInv, UNCHANGED faulty, NEW w \in Workers, SettlePass(w)
    PROVE  DaemonInv'
<1> USE DEF DaemonInv, OnePass
<1>1. /\ phase' \in [Workers -> DaemonPhases]
      /\ phase[w] = "settle" /\ phase'[w] = "graphs"
      /\ \A v \in Workers : v # w => phase'[v] = phase[v]
  BY MoveFacts DEF SettlePass, DaemonPhases, PassPhases
<1>2. /\ cur' = [cur EXCEPT ![w] = Nobody] /\ cur \in [Workers -> Sources \cup {Nobody}]
      /\ UNCHANGED <<request, batch, graphPending, holder, enabled, dirty, ungraphed, stopped>>
  BY DEF SettlePass, DaemonTypeOK
<1>3. cur[w] \in Sources
  BY <1>1 DEF HasSource, PassPhases
<1>4. SchedInv'
  BY <1>3, SettleKeeps DEF SettlePass
<1>5. Running' = Running \ {cur[w]}
  BY <1>3 DEF SettlePass, Settle, Running, Active, SchedInv, SchedTypeOK
<1>6. InPass' = InPass \ {cur[w]}
  BY <1>1, <1>2 DEF InPass, OnePassPerSource, PassPhases
<1>7. OnePassPerSource'
  BY <1>1, <1>2, <1>5, <1>6 DEF OnePassPerSource, PassPhases
<1>8. DaemonTypeOK'
  BY <1>1, <1>2, <1>4 DEF DaemonTypeOK, SchedInv
<1>9. HasSource'
  BY <1>1, <1>2 DEF HasSource, PassPhases
<1>10. WorkUnderLock'
  BY <1>1, <1>2, LocksKept
<1> QED BY <1>4, <1>7, <1>8, <1>9, <1>10

-----------------------------------------------------------------------------
(* The graph stage.                                                          *)

\* Those of its moves that take and release no run lock.
LEMMA BatchMovesKeep ==
    ASSUME DaemonInv, UNCHANGED faulty, NEW w \in Workers,
           \/ TakeGraphBatch(w)
           \/ \E s \in Sources : GraphSkip(w, s) \/ GraphContended(w, s)
    PROVE  DaemonInv'
<1> USE DEF DaemonInv, OnePass
<1>1. UNCHANGED <<schedVars, cur, request, holder, enabled, dirty, ungraphed, stopped>>
  BY DEF TakeGraphBatch, GraphSkip, GraphContended
<1>2. SchedInv'
  BY <1>1, SchedulerStep DEF schedVars
<1>3. /\ phase' \in [Workers -> DaemonPhases]
      /\ phase[w] \in {"graphs", "graph"} /\ phase'[w] \in {"graph", "idle"}
      /\ phase[w] = "graph" => phase'[w] = "graph"
      /\ \A v \in Workers : v # w => phase'[v] = phase[v]
  BY MoveFacts DEF TakeGraphBatch, GraphSkip, GraphContended, DaemonPhases, PassPhases
<1>4. batch' \in [Workers -> SUBSET Sources] /\ graphPending' \subseteq Sources
  BY DEF TakeGraphBatch, GraphSkip, GraphContended, DaemonTypeOK
<1>5. \A v \in Workers : batch'[v] # {} => phase'[v] \in {"graph", "graphing"}
  <2>1. \A v \in Workers : batch[v] # {} => phase[v] \in {"graph", "graphing"}
    BY DEF DaemonTypeOK
  <2>2. \A v \in Workers : v # w => batch'[v] = batch[v]
    BY DEF TakeGraphBatch, GraphSkip, GraphContended, DaemonTypeOK
  <2>3. phase'[w] = "graph" \/ (phase[w] = "graphs" /\ batch'[w] = batch[w])
    <3>1. CASE TakeGraphBatch(w)
      BY <1>3, <3>1 DEF TakeGraphBatch, Move
    <3>2. CASE \E s \in Sources : GraphSkip(w, s) \/ GraphContended(w, s)
      BY <1>3, <3>2 DEF GraphSkip, GraphContended, Move
    <3> QED BY <3>1, <3>2
  <2> QED BY <1>3, <2>1, <2>2, <2>3
<1>6. DaemonTypeOK'
  BY <1>1, <1>2, <1>3, <1>4, <1>5 DEF DaemonTypeOK, SchedInv
<1>7. OnePassPerSource'
  BY <1>1, <1>3, PassesKept DEF schedVars, PassPhases
<1>8. HasSource'
  BY <1>1, <1>3 DEF HasSource, PassPhases
<1>9. WorkUnderLock'
  BY <1>1, <1>3, LocksKept
<1> QED BY <1>2, <1>6, <1>7, <1>8, <1>9

(* A graph stage starts under the run lock of the source it is for.          *)
LEMMA GraphStartKeeps ==
    ASSUME DaemonInv, UNCHANGED faulty, NEW w \in Workers, NEW s \in Sources, GraphStart(w, s)
    PROVE  DaemonInv'
<1> USE DEF DaemonInv, OnePass
<1>1. UNCHANGED <<schedVars, request, graphPending, enabled, dirty, stopped>>
  BY DEF GraphStart
<1>2. SchedInv'
  BY <1>1, SchedulerStep DEF schedVars
<1>3. /\ phase' \in [Workers -> DaemonPhases]
      /\ phase[w] = "graph" /\ phase'[w] = "graphing"
      /\ \A v \in Workers : v # w => phase'[v] = phase[v]
  BY MoveFacts DEF GraphStart, DaemonPhases, PassPhases
<1>4. /\ holder[s] = Nobody /\ holder' = [holder EXCEPT ![s] = w]
      /\ cur' = [cur EXCEPT ![w] = s]
      /\ batch' = [batch EXCEPT ![w] = @ \ {s}] /\ ungraphed' = ungraphed \ {s}
      /\ holder \in [Sources -> Workers \cup {Nobody, Outsider}]
      /\ cur \in [Workers -> Sources \cup {Nobody}] /\ batch \in [Workers -> SUBSET Sources]
  BY DEF GraphStart, DaemonTypeOK
<1>5. \A v \in Workers : batch'[v] # {} => phase'[v] \in {"graph", "graphing"}
  BY <1>3, <1>4 DEF DaemonTypeOK
<1>6. DaemonTypeOK'
  BY <1>1, <1>2, <1>3, <1>4, <1>5 DEF DaemonTypeOK, SchedInv
<1>7. OnePassPerSource'
  BY <1>1, <1>3, <1>4, PassesKept DEF schedVars, PassPhases
<1>8. HasSource'
  BY <1>3, <1>4 DEF HasSource, PassPhases
<1>9. WorkUnderLock'
  <2>1. \A v \in Workers : v # Nobody
    BY DaemonAssumption
  <2>2. \A v \in Workers : phase[v] \in {"take", "scan", "graphing"} => cur[v] \in Sources
    BY DEF HasSource, PassPhases
  <2> QED BY <1>3, <1>4, <2>1, <2>2 DEF WorkUnderLock
<1> QED BY <1>2, <1>6, <1>7, <1>8, <1>9

(* A graph stage that ends gives its lock back.                              *)
LEMMA GraphDoneKeeps ==
    ASSUME DaemonInv, UNCHANGED faulty, NEW w \in Workers, GraphDone(w)
    PROVE  DaemonInv'
<1> USE DEF DaemonInv, OnePass
<1>1. UNCHANGED <<schedVars, request, batch, graphPending, enabled, dirty, ungraphed, stopped>>
  BY DEF GraphDone
<1>2. SchedInv'
  BY <1>1, SchedulerStep DEF schedVars
<1>3. /\ phase' \in [Workers -> DaemonPhases]
      /\ phase[w] = "graphing" /\ phase'[w] = "graph"
      /\ \A v \in Workers : v # w => phase'[v] = phase[v]
  BY MoveFacts DEF GraphDone, DaemonPhases, PassPhases
<1>4. /\ holder' = [holder EXCEPT ![cur[w]] = Nobody]
      /\ cur' = [cur EXCEPT ![w] = Nobody]
      /\ holder \in [Sources -> Workers \cup {Nobody, Outsider}]
      /\ cur \in [Workers -> Sources \cup {Nobody}]
  BY DEF GraphDone, DaemonTypeOK
<1>5. DaemonTypeOK'
  BY <1>1, <1>2, <1>3, <1>4 DEF DaemonTypeOK, SchedInv
<1>6. OnePassPerSource'
  BY <1>1, <1>3, <1>4, PassesKept DEF schedVars, PassPhases
<1>7. HasSource'
  BY <1>3, <1>4 DEF HasSource, PassPhases
<1>8. WorkUnderLock'
  <2>1. \A v \in Workers : phase[v] \in {"take", "scan", "graphing"} => cur[v] \in Sources
    BY DEF HasSource, PassPhases
  <2> QED BY <1>3, <1>4, <2>1 DEF WorkUnderLock
<1> QED BY <1>2, <1>5, <1>6, <1>7, <1>8

(* A worker that is done has no source.                                      *)
LEMMA ExitKeeps ==
    ASSUME DaemonInv, UNCHANGED faulty, NEW w \in Workers, Exit(w)
    PROVE  DaemonInv'
<1> USE DEF DaemonInv, OnePass
<1>1. UNCHANGED <<cur, request, batch, graphPending, holder, enabled, dirty, ungraphed, stopped>>
  BY DEF Exit
<1>2. SchedInv'
  BY SchedulerStep DEF Exit, SchedNext
<1>3. /\ phase' \in [Workers -> DaemonPhases]
      /\ phase[w] = "idle" /\ phase'[w] = "exited"
      /\ \A v \in Workers : v # w => phase'[v] = phase[v]
  BY MoveFacts DEF Exit, DaemonPhases, PassPhases
<1>4. Running' = Running
  BY DEF Exit, ClearQueue, Running, Active, SchedInv, QueueMatchesPending
<1>5. InPass' = InPass
  BY <1>1, <1>3 DEF InPass, PassPhases
<1>6. OnePassPerSource'
  BY <1>1, <1>3, <1>4, <1>5 DEF OnePassPerSource, PassPhases
<1>7. DaemonTypeOK'
  BY <1>1, <1>2, <1>3 DEF DaemonTypeOK, SchedInv
<1>8. HasSource'
  BY <1>1, <1>3 DEF HasSource, PassPhases
<1>9. WorkUnderLock'
  BY <1>1, <1>3, LocksKept
<1> QED BY <1>2, <1>6, <1>7, <1>8, <1>9

-----------------------------------------------------------------------------
(* The rest of the world: triggers, time, changes, other processes.          *)

(* A trigger changes nothing but the queue.                                  *)
LEMMA TriggerKeeps ==
    ASSUME DaemonInv, UNCHANGED faulty, NEW s \in Sources, NEW force \in BOOLEAN,
           NEW paths \in SUBSET Paths, Trigger(s, force, paths)
    PROVE  DaemonInv'
<1> USE DEF DaemonInv, OnePass
<1>1. UNCHANGED daemonVars /\ SchedInv'
  BY EnqueueKeeps DEF Trigger
<1>2. Running' = Running
  BY EnqueueRuns DEF Trigger, DaemonTypeOK
<1> QED BY <1>1, <1>2 DEF daemonVars, DaemonTypeOK, SchedInv, OnePassPerSource, InPass,
                         HasSource, WorkUnderLock

(* Time, other processes, the catalog and edits change nothing of the        *)
(* workers.                                                                  *)
LEMMA WorldKeeps ==
    ASSUME DaemonInv, UNCHANGED faulty,
           \/ Time \/ Stop \/ UNCHANGED allVars
           \/ \E s \in Sources : \/ OutsiderLocks(s) \/ OutsiderUnlocks(s) \/ SetEnabled(s)
                                 \/ \E p \in Paths : Change(s, p)
    PROVE  DaemonInv'
<1> USE DEF DaemonInv, OnePass
<1>1. UNCHANGED <<phase, cur, request, batch, graphPending, ungraphed, pending>>
  BY DEF Time, Wait, daemonVars, allVars, schedVars, Stop, OutsiderLocks, OutsiderUnlocks,
         SetEnabled, Change
<1>2. SchedInv'
  <2>1. Wait \/ UNCHANGED schedVars
    BY DEF Time, Stop, OutsiderLocks, OutsiderUnlocks, SetEnabled, Change, allVars
  <2> QED BY <2>1, SchedulerStep DEF SchedNext
<1>3. /\ holder' \in [Sources -> Workers \cup {Nobody, Outsider}]
      /\ \A s \in Sources : holder[s] \in Workers => holder'[s] = holder[s]
  <2>1. holder \in [Sources -> Workers \cup {Nobody, Outsider}]
    BY DEF DaemonTypeOK
  <2>2. \/ UNCHANGED holder
        \/ \E s \in Sources : \/ holder[s] = Nobody /\ holder' = [holder EXCEPT ![s] = Outsider]
                              \/ holder[s] = Outsider /\ holder' = [holder EXCEPT ![s] = Nobody]
    BY DEF Time, Stop, OutsiderLocks, OutsiderUnlocks, SetEnabled, Change, allVars, daemonVars
  <2> QED BY <2>1, <2>2, DaemonAssumption
<1>4. /\ enabled' \subseteq Sources /\ dirty' \in [Sources -> SUBSET Paths]
      /\ stopped' \in BOOLEAN
  <2>1. \/ UNCHANGED <<enabled, dirty>> /\ stopped' \in {stopped, TRUE}
        \/ /\ UNCHANGED <<dirty, stopped>>
           /\ \E s \in Sources : enabled' \in {enabled \ {s}, enabled \cup {s}}
        \/ /\ UNCHANGED <<enabled, stopped>>
           /\ \E s \in Sources, p \in Paths : dirty' = [dirty EXCEPT ![s] = @ \cup {p}]
    BY DEF Time, Stop, OutsiderLocks, OutsiderUnlocks, SetEnabled, Change, allVars, daemonVars
  <2>2. /\ enabled \subseteq Sources /\ dirty \in [Sources -> SUBSET Paths]
        /\ stopped \in BOOLEAN
    BY DEF DaemonTypeOK
  <2>3. ASSUME NEW s \in Sources, NEW q \in Paths
        PROVE  [dirty EXCEPT ![s] = @ \cup {q}] \in [Sources -> SUBSET Paths]
    BY <2>2
  <2>4. enabled' \subseteq Sources /\ stopped' \in BOOLEAN
    BY <2>1, <2>2
  <2>5. dirty' \in [Sources -> SUBSET Paths]
    BY ZenonT(30), <2>1, <2>2, <2>3
  <2> QED BY <2>4, <2>5
<1>5. DaemonTypeOK'
  BY <1>1, <1>2, <1>3, <1>4 DEF DaemonTypeOK, SchedInv
<1>6. OnePassPerSource'
  BY <1>1, PassesKept
<1>7. HasSource'
  BY <1>1 DEF HasSource
<1>8. WorkUnderLock'
  BY <1>1, <1>3 DEF WorkUnderLock, HasSource, PassPhases
<1> QED BY <1>2, <1>5, <1>6, <1>7, <1>8

-----------------------------------------------------------------------------
(* In every reachable state, with and without faults, the invariant holds.   *)
LEMMA DaemonStarts ==
    ASSUME DaemonInit
    PROVE  DaemonInv
<1>1. SchedInv
  BY SchedulerStarts DEF DaemonInit
<1>2. DaemonTypeOK
  BY <1>1 DEF DaemonInit, DaemonTypeOK, SchedInv, DaemonPhases, NoRequest
<1>3. Running = {} /\ InPass = {}
  BY DEF DaemonInit, SchedInit, Running, Active, InPass, PassPhases
<1>4. OnePassPerSource
  BY <1>3 DEF DaemonInit, OnePassPerSource, PassPhases
<1>5. HasSource /\ WorkUnderLock
  BY DEF DaemonInit, HasSource, WorkUnderLock, PassPhases
<1> QED BY <1>1, <1>2, <1>4, <1>5 DEF DaemonInv, OnePass

(* Every step of the daemon and of its world keeps the invariant.            *)
LEMMA DaemonStep ==
    ASSUME DaemonInv, [WorldNext]_worldVars
    PROVE  DaemonInv'
<1>1. UNCHANGED faulty
  BY DEF WorldNext, worldVars
<1>2. ASSUME NEW w \in Workers, Step(w)
      PROVE  DaemonInv'
  <2>1. ASSUME NEW s \in Sources, Start(w, s) PROVE DaemonInv'
    BY <1>1, <2>1, StartKeeps
  <2>2. ASSUME NEW s \in Sources, GraphStart(w, s) PROVE DaemonInv'
    BY <1>1, <2>2, GraphStartKeeps
  <2>3. ASSUME NEW s \in Sources, GraphContended(w, s) PROVE DaemonInv'
    BY <1>1, <2>3, BatchMovesKeep
  <2>4. CASE Check(w) \/ LockTimeout(w) \/ Record(w) \/ BatchDone(w)
    BY <1>1, <2>4, PlainMovesKeep
  <2>5. CASE Lock(w) \/ RunPass(w) \/ PassFails(w)
    BY <1>1, <2>5, LockMovesKeep
  <2>6. CASE Backoff(w) \/ Take(w) \/ SettlePass(w) \/ GraphDone(w) \/ Exit(w)
    BY <1>1, <2>6, BackoffKeeps, TakeKeeps, SettlePassKeeps, GraphDoneKeeps, ExitKeeps
  <2>7. CASE TakeGraphBatch(w)
    BY <1>1, <2>7, BatchMovesKeep
  <2> QED BY <1>2, <2>1, <2>2, <2>3, <2>4, <2>5, <2>6, <2>7 DEF Step
<1>3. ASSUME NEW s \in Sources, Rescan(s) \/ Reconcile(s) \/ \E p \in Paths : Watch(s, p)
      PROVE  DaemonInv'
  BY <1>1, <1>3, TriggerKeeps DEF Rescan, Reconcile, Watch
<1>4. CASE DaemonNext
  BY <1>1, <1>2, <1>3, <1>4, WorldKeeps DEF DaemonNext
<1>5. CASE FaultNext
  BY <1>1, <1>5, PlainMovesKeep, BatchMovesKeep, WorldKeeps DEF FaultNext
<1>6. CASE UNCHANGED worldVars
  BY <1>1, <1>6, WorldKeeps DEF worldVars
<1> QED BY <1>4, <1>5, <1>6 DEF WorldNext

(* The invariant of the daemon holds in every reachable state, in worlds     *)
(* with and without faults.                                                  *)
THEOREM DaemonInvariant == DaemonSpec => []DaemonInv
<1>1. DaemonInit => DaemonInv
  BY DaemonStarts
<1>2. DaemonInv /\ [WorldNext]_worldVars => DaemonInv'
  BY DaemonStep
<1> QED BY <1>1, <1>2, PTL DEF DaemonSpec

(* What the scheduler says is running is what the workers do, and no two of  *)
(* them ever work on the same source (next_job, settle).                     *)
THEOREM WorkersAsScheduled == DaemonSpec => []OnePass
BY DaemonInvariant, PTL DEF DaemonInv

(* Index and graph work on a source exclude each other, and every other      *)
(* process, through the run lock (run_pass, run_graphs).                     *)
THEOREM LocksExclude == DaemonSpec => []WorkUnderLock
BY DaemonInvariant, PTL DEF DaemonInv

-----------------------------------------------------------------------------
(* The daemon drives the scheduler by its own operations only, so whatever   *)
(* holds of trigger coalescing holds in the daemon.                          *)
LEMMA StepSchedules ==
    ASSUME DaemonInv, [WorldNext]_worldVars
    PROVE  [SchedNext]_schedVars
<1>1. \A w \in Workers : phase[w] \in PassPhases => cur[w] \in Sources
  BY DEF DaemonInv, HasSource
<1>2. ASSUME NEW w \in Workers, Step(w)
      PROVE  [SchedNext]_schedVars
  <2>1. ASSUME NEW s \in Sources, Start(w, s) PROVE [SchedNext]_schedVars
    BY <2>1 DEF Start, SchedNext
  <2>2. CASE Backoff(w)
    <3>1. cur[w] \in Sources
      BY <1>1, <2>2 DEF Backoff, Move, PassPhases
    <3>2. {} \in SUBSET Paths /\ FALSE \in BOOLEAN
      OBVIOUS
    <3>3. UNCHANGED schedVars \/ Enqueue(cur[w], FALSE, {})
      BY <2>2 DEF Backoff
    <3> QED BY <3>1, <3>2, <3>3 DEF SchedNext
  <2>3. CASE Take(w)
    BY <1>1, <2>3 DEF Take, Move, PassPhases, SchedNext
  <2>4. CASE SettlePass(w)
    BY <1>1, <2>4 DEF SettlePass, Move, PassPhases, SchedNext
  <2>5. CASE Exit(w)
    BY <2>5 DEF Exit, SchedNext
  <2>6. ASSUME NEW s \in Sources, GraphStart(w, s) \/ GraphContended(w, s)
        PROVE  [SchedNext]_schedVars
    BY <2>6 DEF GraphStart, GraphContended
  <2>7. CASE \/ Check(w) \/ Lock(w) \/ LockTimeout(w) \/ RunPass(w) \/ Record(w)
             \/ PassFails(w) \/ TakeGraphBatch(w) \/ GraphDone(w) \/ BatchDone(w)
    BY <2>7 DEF Check, Lock, LockTimeout, RunPass, Record, PassFails, TakeGraphBatch,
                GraphDone, BatchDone
  <2> QED BY <1>2, <2>1, <2>2, <2>3, <2>4, <2>5, <2>6, <2>7 DEF Step
<1>3. ASSUME NEW s \in Sources, NEW force \in BOOLEAN, NEW paths \in SUBSET Paths,
             Trigger(s, force, paths)
      PROVE  [SchedNext]_schedVars
  BY <1>3 DEF Trigger, SchedNext
<1>4. ASSUME NEW s \in Sources, Rescan(s) \/ Reconcile(s) \/ \E p \in Paths : Watch(s, p)
      PROVE  [SchedNext]_schedVars
  BY <1>3, <1>4 DEF Rescan, Reconcile, Watch
<1>5. ASSUME NEW s \in Sources, \/ OutsiderLocks(s) \/ OutsiderUnlocks(s) \/ SetEnabled(s)
                                \/ \E p \in Paths : Change(s, p)
      PROVE  [SchedNext]_schedVars
  BY <1>5 DEF OutsiderLocks, OutsiderUnlocks, SetEnabled, Change
<1>6. CASE DaemonNext
  BY <1>2, <1>4, <1>5, <1>6 DEF DaemonNext, Time, Stop, SchedNext
<1>7. CASE FaultNext
  BY <1>5, <1>7 DEF FaultNext, Skip, GraphSkip
<1>8. CASE UNCHANGED worldVars
  BY <1>8 DEF worldVars, allVars
<1> QED BY <1>6, <1>7, <1>8 DEF WorldNext

(* The daemon implements trigger coalescing.                                 *)
THEOREM DaemonSchedules == DaemonSpec => SchedSpec
<1>1. DaemonInit => SchedInit
  BY DEF DaemonInit
<1>2. DaemonInv /\ [WorldNext]_worldVars => [SchedNext]_schedVars
  BY StepSchedules
<1> QED BY <1>1, <1>2, DaemonInvariant, PTL DEF DaemonSpec, SchedSpec

(* In the daemon, too, nothing a trigger asked for is forgotten, and what     *)
(* waited max_wait is overtaken at most once by every other source.          *)
THEOREM DaemonForgetsNothing == DaemonSpec => [](NothingForgotten /\ AgedBound)
BY DaemonSchedules, TriggersRemembered, AgedEntriesStart, PTL

-----------------------------------------------------------------------------
(* Without faults, no trigger and no due graph is lost.                      *)

\* A trigger keeps what has a pass coming, and gives its own source one.
LEMMA EnqueueComes ==
    ASSUME SchedTypeOK, NEW s \in Sources, NEW force, NEW paths, Enqueue(s, force, paths)
    PROVE  /\ pending'[s] \in {"queued", "followup"}
           /\ \A t \in Sources : t # s => /\ pending'[t] = pending[t] /\ owed'[t] = owed[t]
<1>1. /\ owed' = [owed EXCEPT ![s] = @ \cup paths \cup IF force THEN {All} ELSE {}]
      /\ \/ pending[s] = "none" /\ pending' = [pending EXCEPT ![s] = "queued"]
         \/ pending[s] = "running" /\ pending' = [pending EXCEPT ![s] = "followup"]
         \/ pending[s] \in {"queued", "followup"} /\ pending' = pending
  BY DEF Enqueue
<1>2. /\ owed \in [Sources -> SUBSET (Paths \cup {All})]
      /\ pending \in [Sources -> {"none", "queued", "running", "followup"}]
  BY DEF SchedTypeOK
<1> QED BY <1>1, <1>2

\* The phases of a pass that is still to take its request.
Coming == {"got", "lock", "backoff", "take"}

(* What was asked for keeps a pass that will take it.                        *)
LEMMA TriggersKeepPass ==
    ASSUME DaemonInv, DaemonInv', TriggersHavePass, DaemonNext
    PROVE  TriggersHavePass'
<1> SUFFICES ASSUME NEW s \in Sources, owed'[s] # {}, ~stopped'
             PROVE  \/ pending'[s] \in {"queued", "followup"}
                    \/ \E w \in Workers : cur'[w] = s /\ phase'[w] \in Coming
  BY DEF TriggersHavePass, Coming
<1> USE DEF Coming
<1>1. /\ SchedTypeOK /\ phase \in [Workers -> DaemonPhases]
      /\ cur \in [Workers -> Sources \cup {Nobody}]
      /\ pending \in [Sources -> {"none", "queued", "running", "followup"}]
      /\ owed \in [Sources -> SUBSET (Paths \cup {All})]
  BY DEF DaemonInv, OnePass, DaemonTypeOK, SchedTypeOK
<1>2. ~stopped
  BY DEF DaemonNext, Step, Start, GraphStart, GraphContended, Check, Lock, LockTimeout, Backoff,
         Take, RunPass, Record, PassFails, SettlePass, TakeGraphBatch, GraphDone, BatchDone, Exit,
         Rescan, Reconcile, Watch, Trigger, OutsiderLocks, OutsiderUnlocks, Change, Time, Stop,
         daemonVars
<1>3. ASSUME owed[s] # {}
      PROVE  \/ pending[s] \in {"queued", "followup"}
             \/ \E w \in Workers : cur[w] = s /\ phase[w] \in Coming
  BY <1>2, <1>3 DEF TriggersHavePass
<1>4. ASSUME UNCHANGED <<pending, owed>>,
             \A w \in Workers : phase[w] \in Coming => phase'[w] \in Coming /\ cur'[w] = cur[w]
      PROVE  \/ pending'[s] \in {"queued", "followup"}
             \/ \E w \in Workers : cur'[w] = s /\ phase'[w] \in Coming
  BY <1>3, <1>4
<1>5. ASSUME NEW t \in Sources, NEW force, NEW paths, Enqueue(t, force, paths),
             \A w \in Workers : phase[w] \in Coming /\ cur[w] # t =>
                 phase'[w] \in Coming /\ cur'[w] = cur[w]
      PROVE  \/ pending'[s] \in {"queued", "followup"}
             \/ \E w \in Workers : cur'[w] = s /\ phase'[w] \in Coming
  BY <1>1, <1>3, <1>5, EnqueueComes
<1>6. ASSUME NEW w \in Workers, Step(w)
      PROVE  \/ pending'[s] \in {"queued", "followup"}
             \/ \E v \in Workers : cur'[v] = s /\ phase'[v] \in Coming
  <2>1. ASSUME NEW t \in Sources, Start(w, t)
        PROVE  \/ pending'[s] \in {"queued", "followup"}
               \/ \E v \in Workers : cur'[v] = s /\ phase'[v] \in Coming
    <3>1. /\ phase[w] = "idle" /\ phase' = [phase EXCEPT ![w] = "got"]
          /\ cur' = [cur EXCEPT ![w] = t]
          /\ pending' = [pending EXCEPT ![t] = "running"] /\ owed' = owed
      BY <2>1 DEF Start, Move, StartNext
    <3> QED BY <1>1, <1>3, <3>1
  <2>2. CASE Backoff(w)
    <3>1. Enqueue(cur[w], FALSE, {}) /\ cur' = cur
      BY <1>2, <2>2 DEF Backoff
    <3>2. phase[w] = "backoff" /\ phase' = [phase EXCEPT ![w] = "settle"]
      BY <2>2 DEF Backoff, Move
    <3>3. cur[w] \in Sources
      BY <3>2 DEF DaemonInv, HasSource, PassPhases
    <3> QED BY <1>1, <1>5, <3>1, <3>2, <3>3
  <2>3. CASE Take(w)
    <3>1. phase[w] = "take" /\ phase' = [phase EXCEPT ![w] = "scan"] /\ cur' = cur
      BY <2>3 DEF Take, Move
    <3>2. owed' = [owed EXCEPT ![cur[w]] = {}] /\ pending' = pending
      BY <2>3 DEF Take, TakeRequest
    <3>3. cur[w] # s
      BY <1>1, <3>2
    <3> QED BY <1>1, <1>3, <3>1, <3>2, <3>3
  <2>4. CASE SettlePass(w)
    <3>1. /\ phase[w] = "settle" /\ phase' = [phase EXCEPT ![w] = "graphs"]
          /\ cur' = [cur EXCEPT ![w] = Nobody] /\ owed' = owed
      BY <2>4 DEF SettlePass, Move, Settle
    <3>2. pending' = [pending EXCEPT ![cur[w]] = IF @ = "followup" THEN "queued" ELSE "none"]
      BY <2>4 DEF SettlePass, Settle
    <3>3. \A v \in Workers : cur[v] = cur[w] /\ phase[v] \in Coming => v = w
      BY <3>1 DEF DaemonInv, OnePass, OnePassPerSource, PassPhases
    <3>4. pending[cur[w]] \in {"running", "followup"}
      BY <2>4 DEF SettlePass, Settle, Active
    <3> QED BY <1>1, <1>3, <3>1, <3>2, <3>3, <3>4
  <2>5. CASE Exit(w)
    BY <1>2, <2>5 DEF Exit
  <2>6. CASE Check(w) \/ Lock(w) \/ LockTimeout(w)
    <3>1. UNCHANGED <<pending, owed, cur>>
      BY <2>6 DEF Check, Lock, LockTimeout, schedVars
    <3>2. \A v \in Workers : phase[v] \in Coming => phase'[v] \in Coming
      BY <1>1, <2>6 DEF Check, Lock, LockTimeout, Move
    <3> QED BY <1>4, <3>1, <3>2
  <2>7. CASE \/ RunPass(w) \/ Record(w) \/ PassFails(w) \/ TakeGraphBatch(w) \/ GraphDone(w)
             \/ BatchDone(w) \/ \E t \in Sources : GraphStart(w, t) \/ GraphContended(w, t)
    <3>1. UNCHANGED <<pending, owed>>
      BY <2>7 DEF RunPass, Record, PassFails, TakeGraphBatch, GraphDone, BatchDone, GraphStart,
                  GraphContended, schedVars
    <3>2. \A v \in Workers : phase[v] \in Coming => phase'[v] = phase[v] /\ cur'[v] = cur[v]
      BY <1>1, <2>7 DEF RunPass, Record, PassFails, TakeGraphBatch, GraphDone, BatchDone,
                        GraphStart, GraphContended, Move
    <3> QED BY <1>4, <3>1, <3>2
  <2> QED BY <1>6, <2>1, <2>2, <2>3, <2>4, <2>5, <2>6, <2>7 DEF Step
<1>7. ASSUME NEW t \in Sources, Rescan(t) \/ Reconcile(t) \/ \E p \in Paths : Watch(t, p)
      PROVE  \/ pending'[s] \in {"queued", "followup"}
             \/ \E v \in Workers : cur'[v] = s /\ phase'[v] \in Coming
  BY <1>5, <1>7 DEF Rescan, Reconcile, Watch, Trigger, daemonVars
<1>8. CASE \/ Time \/ Stop
           \/ \E t \in Sources : \/ OutsiderLocks(t) \/ OutsiderUnlocks(t)
                                 \/ \E p \in Paths : Change(t, p)
  <2>1. UNCHANGED <<pending, owed, phase, cur>>
    BY <1>8 DEF Time, Wait, Stop, OutsiderLocks, OutsiderUnlocks, Change, schedVars, daemonVars
  <2> QED BY <1>4, <2>1
<1> QED BY <1>6, <1>7, <1>8 DEF DaemonNext

(* A changed source stays due for a graph stage until one builds it.         *)
LEMMA GraphsKeepDue ==
    ASSUME DaemonInv, GraphsStayDue, DaemonNext
    PROVE  GraphsStayDue'
<1> SUFFICES ASSUME NEW s \in ungraphed'
             PROVE  \/ s \in graphPending'
                    \/ \E w \in Workers : s \in batch'[w] \/ (cur'[w] = s /\ phase'[w] = "record")
  BY DEF GraphsStayDue
<1>1. /\ phase \in [Workers -> DaemonPhases] /\ cur \in [Workers -> Sources \cup {Nobody}]
      /\ batch \in [Workers -> SUBSET Sources]
      /\ \A w \in Workers : batch[w] # {} => phase[w] \in {"graph", "graphing"}
  BY DEF DaemonInv, OnePass, DaemonTypeOK
<1>2. ASSUME s \in ungraphed, graphPending \subseteq graphPending',
             \A w \in Workers : /\ s \in batch[w] => s \in batch'[w]
                                /\ phase[w] = "record" => phase'[w] = "record" /\ cur'[w] = cur[w]
      PROVE  \/ s \in graphPending'
             \/ \E w \in Workers : s \in batch'[w] \/ (cur'[w] = s /\ phase'[w] = "record")
  BY <1>2 DEF GraphsStayDue
<1>3. ASSUME NEW w \in Workers, Step(w)
      PROVE  \/ s \in graphPending'
             \/ \E v \in Workers : s \in batch'[v] \/ (cur'[v] = s /\ phase'[v] = "record")
  <2>1. CASE RunPass(w)
    <3>1. /\ phase[w] = "scan" /\ phase' = [phase EXCEPT ![w] = "record"] /\ cur' = cur
          /\ ungraphed' = ungraphed \cup {cur[w]} /\ UNCHANGED <<batch, graphPending>>
      BY <2>1 DEF RunPass, Move
    <3>2. CASE s = cur[w]
      BY <1>1, <3>1, <3>2
    <3>3. CASE s # cur[w]
      BY <1>1, <1>2, <3>1, <3>3
    <3> QED BY <3>2, <3>3
  <2>2. CASE Record(w)
    <3>1. /\ phase[w] = "record" /\ phase' = [phase EXCEPT ![w] = "settle"] /\ cur' = cur
          /\ graphPending' = graphPending \cup {cur[w]} /\ UNCHANGED <<batch, ungraphed>>
      BY <2>2 DEF Record, Move
    <3> QED BY <1>1, <3>1 DEF GraphsStayDue
  <2>3. CASE TakeGraphBatch(w)
    <3>1. /\ phase[w] = "graphs" /\ UNCHANGED <<cur, ungraphed>>
          /\ \/ /\ phase' = [phase EXCEPT ![w] = "graph"] /\ graphPending' = {}
                /\ batch' = [batch EXCEPT ![w] = graphPending]
             \/ phase' = [phase EXCEPT ![w] = "idle"] /\ UNCHANGED <<batch, graphPending>>
      BY <2>3 DEF TakeGraphBatch, Move
    <3>2. batch[w] = {}
      BY <1>1, <3>1
    <3> QED BY <1>1, <3>1, <3>2 DEF GraphsStayDue
  <2>4. ASSUME NEW t \in Sources, GraphStart(w, t)
        PROVE  \/ s \in graphPending'
               \/ \E v \in Workers : s \in batch'[v] \/ (cur'[v] = s /\ phase'[v] = "record")
    <3>1. /\ phase[w] = "graph" /\ phase' = [phase EXCEPT ![w] = "graphing"]
          /\ cur' = [cur EXCEPT ![w] = t] /\ batch' = [batch EXCEPT ![w] = @ \ {t}]
          /\ ungraphed' = ungraphed \ {t} /\ UNCHANGED graphPending
      BY <2>4 DEF GraphStart, Move
    <3> QED BY <1>1, <1>2, <3>1
  <2>5. ASSUME NEW t \in Sources, GraphContended(w, t)
        PROVE  \/ s \in graphPending'
               \/ \E v \in Workers : s \in batch'[v] \/ (cur'[v] = s /\ phase'[v] = "record")
    <3>1. /\ phase[w] = "graph" /\ phase' = [phase EXCEPT ![w] = "graph"]
          /\ batch' = [batch EXCEPT ![w] = @ \ {t}]
          /\ graphPending' = graphPending \cup {t} /\ UNCHANGED <<cur, ungraphed>>
      BY <2>5 DEF GraphContended, Move
    <3> QED BY <1>1, <3>1 DEF GraphsStayDue
  <2>6. CASE \/ Check(w) \/ Lock(w) \/ LockTimeout(w) \/ Backoff(w) \/ Take(w) \/ PassFails(w)
             \/ SettlePass(w) \/ GraphDone(w) \/ BatchDone(w) \/ Exit(w)
             \/ \E t \in Sources : Start(w, t)
    <3>1. UNCHANGED <<batch, graphPending, ungraphed>>
      BY <2>6 DEF Check, Lock, LockTimeout, Backoff, Take, PassFails, SettlePass, GraphDone,
                  BatchDone, Exit, Start
    <3>2. \A v \in Workers : phase[v] = "record" => phase'[v] = "record" /\ cur'[v] = cur[v]
      BY <1>1, <2>6 DEF Check, Lock, LockTimeout, Backoff, Take, PassFails, SettlePass, GraphDone,
                        BatchDone, Exit, Start, Move
    <3> QED BY <1>2, <3>1, <3>2
  <2> QED BY <1>3, <2>1, <2>2, <2>3, <2>4, <2>5, <2>6 DEF Step
<1>4. CASE \/ Time \/ Stop
           \/ \E t \in Sources : \/ Rescan(t) \/ Reconcile(t) \/ OutsiderLocks(t) \/ OutsiderUnlocks(t)
                                 \/ \E p \in Paths : Change(t, p) \/ Watch(t, p)
  <2>1. UNCHANGED <<batch, graphPending, ungraphed, phase, cur>>
    BY <1>4 DEF Time, Stop, OutsiderLocks, OutsiderUnlocks, Change, Rescan, Reconcile, Watch,
                Trigger, daemonVars
  <2> QED BY <1>2, <2>1
<1> QED BY <1>3, <1>4 DEF DaemonNext

(* Without faults, whatever triggers asked for has a pass coming that will    *)
(* take it, and every source whose index changed stays due for a graph stage *)
(* (enqueue_at, settle_at, run_pass's path of lock contention, run_graphs).  *)
THEOREM PromisesKept == DaemonSpec => []QuietPromises
<1> DEFINE Kept == DaemonInv /\ QuietPromises
<1>1. DaemonInit => Kept
  <2>1. DaemonInit => TriggersHavePass /\ GraphsStayDue
    BY DEF DaemonInit, SchedInit, TriggersHavePass, GraphsStayDue
  <2> QED BY <2>1, DaemonStarts DEF QuietPromises
<1>2. Kept /\ [WorldNext]_worldVars => Kept'
  <2> SUFFICES ASSUME Kept, [WorldNext]_worldVars PROVE Kept'
    OBVIOUS
  <2>1. DaemonInv' /\ UNCHANGED faulty
    BY DaemonStep DEF WorldNext, worldVars
  <2>2. CASE faulty
    BY <2>1, <2>2 DEF QuietPromises
  <2>3. CASE ~faulty /\ DaemonNext
    BY <2>1, <2>3, TriggersKeepPass, GraphsKeepDue DEF QuietPromises
  <2>4. CASE UNCHANGED worldVars
    BY <2>1, <2>4 DEF QuietPromises, TriggersHavePass, GraphsStayDue, worldVars, allVars,
                      schedVars, daemonVars
  <2> QED BY <2>2, <2>3, <2>4 DEF WorldNext
<1> QED BY <1>1, <1>2, PTL DEF DaemonSpec
=============================================================================
