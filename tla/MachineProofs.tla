----------------------------- MODULE MachineProofs -----------------------------
(***************************************************************************)
(* Two machines that hand work on and must lose none of it: the bulk writer, *)
(* for any sequence of actions of any size, any limits and any retry budget, *)
(* whatever the server answers; and the watchers, for any files and any      *)
(* number of changes, lost roots, failed passes and restarts.                *)
(***************************************************************************)
EXTENDS BulkWriter, Watching, Pipeline, FiniteSetTheorems, SequenceTheorems, WellFoundedInduction, TLAPS

-----------------------------------------------------------------------------
(* What batches contain.                                                     *)

(* Two batches one after the other contain what either does.                 *)
LEMMA ToSetConcat ==
  ASSUME NEW S, NEW s \in Seq(S), NEW t \in Seq(S)
  PROVE  s \o t \in Seq(S) /\ ToSet(s \o t) = ToSet(s) \cup ToSet(t)
  <1>1. /\ s \o t \in Seq(S) /\ Len(s \o t) = Len(s) + Len(t)
        /\ \A i \in 1 .. Len(s) + Len(t) :
              (s \o t)[i] = IF i <= Len(s) THEN s[i] ELSE t[i - Len(s)]
    BY ConcatProperties
  <1>2. DOMAIN s = 1 .. Len(s) /\ DOMAIN t = 1 .. Len(t) /\ DOMAIN (s \o t) = 1 .. Len(s) + Len(t)
    BY <1>1, LenProperties
  <1>3. Len(s) \in Nat /\ Len(t) \in Nat
    BY LenProperties
  <1>4. ASSUME NEW x \in ToSet(s) PROVE x \in ToSet(s \o t)
    <2>1. PICK i \in 1 .. Len(s) : x = s[i]
      BY <1>2, <1>4 DEF ToSet
    <2>2. i \in 1 .. Len(s) + Len(t) /\ x = (s \o t)[i]
      BY <1>1, <1>3, <2>1
    <2> QED BY <1>2, <2>2 DEF ToSet
  <1>5. ASSUME NEW x \in ToSet(t) PROVE x \in ToSet(s \o t)
    <2>1. PICK i \in 1 .. Len(t) : x = t[i]
      BY <1>2, <1>5 DEF ToSet
    <2>2. i + Len(s) \in 1 .. Len(s) + Len(t) /\ x = (s \o t)[i + Len(s)]
      BY <1>1, <1>3, <2>1
    <2> QED BY <1>2, <2>2 DEF ToSet
  <1>6. ASSUME NEW x \in ToSet(s \o t) PROVE x \in ToSet(s) \cup ToSet(t)
    <2>1. PICK i \in 1 .. Len(s) + Len(t) : x = (s \o t)[i]
      BY <1>2, <1>6 DEF ToSet
    <2>2. CASE i <= Len(s)
      BY <1>1, <1>2, <1>3, <2>1, <2>2 DEF ToSet
    <2>3. CASE i > Len(s)
      <3>1. i - Len(s) \in 1 .. Len(t) /\ x = t[i - Len(s)]
        BY <1>1, <1>3, <2>1, <2>3
      <3> QED BY <1>2, <3>1 DEF ToSet
    <2> QED BY <1>3, <2>1, <2>2, <2>3
  <1> QED BY <1>1, <1>4, <1>5, <1>6

(* One more action is added to what a batch contains.                        *)
LEMMA ToSetAppend ==
  ASSUME NEW S, NEW s \in Seq(S), NEW e \in S
  PROVE  Append(s, e) \in Seq(S) /\ ToSet(Append(s, e)) = ToSet(s) \cup {e}
  <1>1. Append(s, e) = s \o <<e>> /\ <<e>> \in Seq(S)
    BY AppendIsConcat
  <1>2. ToSet(<<e>>) = {e}
    BY DEF ToSet
  <1>3. s \o <<e>> \in Seq(S) /\ ToSet(s \o <<e>>) = ToSet(s) \cup ToSet(<<e>>)
    BY <1>1, ToSetConcat
  <1> QED BY <1>1, <1>2, <1>3

(* A batch cut in two.                                                       *)
LEMMA ToSetCut ==
  ASSUME NEW S, NEW s \in Seq(S), NEW n \in 0 .. Len(s)
  PROVE  /\ SubSeq(s, 1, n) \in Seq(S) /\ SubSeq(s, n + 1, Len(s)) \in Seq(S)
         /\ ToSet(s) = ToSet(SubSeq(s, 1, n)) \cup ToSet(SubSeq(s, n + 1, Len(s)))
  <1>1. Len(s) \in Nat /\ \A i \in 1 .. Len(s) : s[i] \in S
    BY LenProperties, ElementOfSeq
  <1>2. SubSeq(s, 1, n) \in Seq(S) /\ SubSeq(s, n + 1, Len(s)) \in Seq(S)
    BY <1>1, SubSeqProperties
  <1>3. SubSeq(s, 1, n) \o SubSeq(s, n + 1, Len(s)) = SubSeq(s, 1, Len(s))
    <2>1. 1 \in 1 .. Len(s) + 1 /\ n \in 1 - 1 .. Len(s) /\ Len(s) \in n .. Len(s)
      BY <1>1
    <2> QED BY <2>1, ConcatAdjacentSubSeq
  <1>4. SubSeq(s, 1, Len(s)) = s
    BY SubSeqFull
  <1> DEFINE u == SubSeq(s, 1, n)
             v == SubSeq(s, n + 1, Len(s))
  <1>5. ToSet(u \o v) = ToSet(u) \cup ToSet(v)
    <2>1. u \in Seq(S) /\ v \in Seq(S)
      BY <1>2
    <2> HIDE DEF u, v
    <2> QED BY <2>1, ToSetConcat
  <1> QED BY <1>2, <1>3, <1>4, <1>5

(* Every action of a finite set of them is sent again, once: its place is    *)
(* the number of actions up to it, different actions have different places,  *)
(* and there are as many places as actions.                                  *)
LEMMA ToSetInOrder ==
  ASSUME NEW A \in SUBSET Nat, IsFiniteSet(A)
  PROVE  InOrder(A) \in Seq(A) /\ ToSet(InOrder(A)) = A
  <1> DEFINE N == Cardinality(A)
             upTo(a) == {b \in A : b <= a}
             place == [a \in A |-> Cardinality(upTo(a))]
  <1>1. N \in Nat
    BY FS_CardinalityType
  <1>2. ASSUME NEW a \in A PROVE place[a] \in 1 .. N
    <2>1. IsFiniteSet(upTo(a)) /\ Cardinality(upTo(a)) <= N
      BY FS_Subset
    <2>2. upTo(a) # {} /\ Cardinality(upTo(a)) \in Nat
      BY <2>1, FS_CardinalityType
    <2>3. Cardinality(upTo(a)) # 0
      BY <2>1, <2>2, FS_EmptySet
    <2> HIDE DEF upTo, N
    <2> QED BY <1>1, <2>1, <2>2, <2>3
  <1>3. ASSUME NEW a \in A, NEW b \in A, a < b PROVE place[a] # place[b]
    <2>1. IsFiniteSet(upTo(b)) /\ upTo(a) \subseteq upTo(b)
      <3>1. upTo(b) \subseteq A
        OBVIOUS
      <3>2. IsFiniteSet(upTo(b))
        <4> HIDE DEF upTo
        <4> QED BY <3>1, FS_Subset
      <3>3. ASSUME NEW c \in upTo(a) PROVE c \in upTo(b)
        <4>1. c \in Nat /\ a \in Nat /\ b \in Nat /\ c <= a
          OBVIOUS
        <4> QED BY <1>3, <4>1
      <3> HIDE DEF upTo
      <3> QED BY <3>2, <3>3
    <2>2. b \in upTo(b) /\ b \notin upTo(a)
      BY <1>3
    <2>3. Cardinality(upTo(b)) # Cardinality(upTo(a))
      <3> HIDE DEF upTo
      <3> QED BY <2>1, <2>2, FS_Subset
    <2> QED BY <2>3
  <1>4. place \in Injection(A, 1 .. N)
    <2>1. \A a, b \in A : place[a] = place[b] => a = b
      <3> HIDE DEF place
      <3> QED BY <1>3
    <2>2. place \in [A -> 1 .. N]
      BY <1>2
    <2> HIDE DEF place, N
    <2> QED BY <2>1, <2>2 DEF Injection, IsInjective
  <1>5. place \in Surjection(A, 1 .. N)
    <2>1. IsFiniteSet(1 .. N) /\ Cardinality(1 .. N) = N
      BY <1>1, FS_Interval
    <2> QED BY <1>4, <2>1, FS_Injection
  <1>6. \A n \in 1 .. N : \E a \in A : Cardinality(upTo(a)) = n
    <2>1. \A n \in 1 .. N : \E a \in A : place[a] = n
      <3> HIDE DEF place
      <3> QED BY <1>5 DEF Surjection
    <2> QED BY <2>1
  <1>7. ASSUME NEW n \in 1 .. N
        PROVE  InOrder(A)[n] \in A /\ place[InOrder(A)[n]] = n
    <2>1. InOrder(A)[n] = CHOOSE a \in A : Cardinality({b \in A : b <= a}) = n
      BY DEF InOrder
    <2> QED BY <1>6, <2>1
  <1>8. DOMAIN InOrder(A) = 1 .. N
    BY DEF InOrder
  <1>9. InOrder(A) \in Seq(A)
    <2>1. InOrder(A) = [n \in 1 .. N |-> InOrder(A)[n]]
      BY DEF InOrder
    <2>2. InOrder(A) \in [1 .. N -> A]
      BY <1>7, <2>1
    <2> QED BY <1>1, <2>2, SeqDef
  <1>10. ASSUME NEW a \in A PROVE a \in ToSet(InOrder(A))
    <2>1. InOrder(A)[place[a]] \in A /\ place[InOrder(A)[place[a]]] = place[a]
      BY <1>2, <1>7
    <2>2. InOrder(A)[place[a]] = a
      <3> HIDE DEF place
      <3> QED BY <1>4, <2>1 DEF Injection, IsInjective
    <2> QED BY <1>2, <1>8, <2>2 DEF ToSet
  <1> QED BY <1>7, <1>8, <1>9, <1>10 DEF ToSet

-----------------------------------------------------------------------------
(* The writer.                                                               *)

BulkTypeOK ==
    /\ pushed \in 0 .. Len(SizeOf)
    /\ waiting \in Seq(Actions) /\ sending \in Seq(Actions)
    /\ bulkTarget \in 1 .. MaxActions
    /\ bulkStep \in {"push", "flush", "ok", "error"} /\ resume \in {"push", "finish"}
    /\ stored \subseteq Actions /\ refused \subseteq Actions

\* What was pushed is accounted for, as long as the writer has not failed.
Accounted ==
    bulkStep # "error" =>
        1 .. pushed = stored \cup refused \cup ToSet(waiting) \cup ToSet(sending)

\* Between flushes nothing is half sent; the last flush, and a writer that
\* ended well, have seen everything.
FlushedWhole ==
    /\ bulkStep \in {"push", "ok"} => sending = <<>>
    /\ bulkStep = "flush" /\ resume = "finish" => pushed = Len(SizeOf) /\ waiting = <<>>
    /\ bulkStep = "ok" => pushed = Len(SizeOf) /\ waiting = <<>> /\ refused = {}

BulkInv == BulkTypeOK /\ Accounted /\ FlushedWhole

(* Actions are the numbers up to the number of sizes.                        *)
LEMMA ActionsNumbered == Len(SizeOf) \in Nat /\ Actions \subseteq Nat /\ IsFiniteSet(Actions)
  <1>1. Len(SizeOf) \in Nat
    BY BulkAssumption, LenProperties
  <1> QED BY <1>1, FS_Interval DEF Actions

(* An empty writer accounts for everything.                                  *)
LEMMA InitBulkInv == BulkInit => BulkInv
  <1> SUFFICES ASSUME BulkInit PROVE BulkInv
    OBVIOUS
  <1>1. BulkTypeOK
    BY ActionsNumbered, BulkAssumption, EmptySeq DEF BulkInit, BulkTypeOK
  <1>2. ToSet(<<>>) = {}
    BY DEF ToSet
  <1>3. Accounted /\ FlushedWhole
    BY <1>2 DEF BulkInit, Accounted, FlushedWhole
  <1> QED BY <1>1, <1>3 DEF BulkInv

(* The request the running flush sends next, and what it leaves.             *)
LEMMA SentAndRest ==
  ASSUME BulkTypeOK
  PROVE  /\ Sent \in Seq(Actions) /\ Rest \in Seq(Actions)
         /\ ToSet(sending) = ToSet(Sent) \cup ToSet(Rest)
         /\ ToSet(Sent) \subseteq Actions
  <1> DEFINE n == AtMost(Len(sending), bulkTarget)
  <1>1. n \in 0 .. Len(sending) /\ sending \in Seq(Actions)
    BY LenProperties, BulkAssumption DEF BulkTypeOK, AtMost
  <1>2. /\ SubSeq(sending, 1, n) \in Seq(Actions)
        /\ SubSeq(sending, n + 1, Len(sending)) \in Seq(Actions)
        /\ ToSet(sending) = ToSet(SubSeq(sending, 1, n))
                            \cup ToSet(SubSeq(sending, n + 1, Len(sending)))
    <2> HIDE DEF n
    <2> QED BY <1>1, ToSetCut
  <1>3. ToSet(sending) \subseteq Actions
    BY <1>1 DEF ToSet
  <1> QED BY <1>2, <1>3 DEF Sent, Rest

(* Pushing, sending, every answer of the server and the end of a flush keep  *)
(* it.                                                                       *)
LEMMA NextBulkInv == BulkInv /\ [BulkNext]_bulkVars => BulkInv'
  <1> SUFFICES ASSUME BulkInv, [BulkNext]_bulkVars PROVE BulkInv'
    OBVIOUS
  <1> USE DEF BulkInv
  <1>0. ToSet(<<>>) = {} /\ <<>> \in Seq(Actions)
    BY EmptySeq DEF ToSet
  <1>1. CASE Push
    <2> DEFINE a == pushed + 1
    <2>1. bulkStep = "push" /\ sending = <<>> /\ pushed < Len(SizeOf)
          /\ UNCHANGED <<bulkTarget, stored, refused>> /\ resume' = "push"
      BY <1>1 DEF Push, FlushedWhole
    <2>2. a \in Actions /\ 1 .. a = (1 .. pushed) \cup {a} /\ a \in 0 .. Len(SizeOf)
      BY <2>1, ActionsNumbered DEF BulkTypeOK, Actions
    <2>3. CASE WouldExceed(a)
      <3>1. sending' = waiting /\ waiting' = <<>> /\ bulkStep' = "flush" /\ pushed' = pushed
        BY <1>1, <2>3 DEF Push
      <3>2. BulkTypeOK'
        BY <1>0, <2>1, <3>1 DEF BulkTypeOK
      <3>3. Accounted' /\ FlushedWhole'
        BY <1>0, <2>1, <3>1 DEF Accounted, FlushedWhole
      <3> QED BY <3>2, <3>3
    <2>4. CASE ~WouldExceed(a)
      <3>1. /\ pushed' = a
            /\ \/ waiting' = <<>> /\ sending' = Append(waiting, a) /\ bulkStep' = "flush"
               \/ waiting' = Append(waiting, a) /\ sending' = <<>> /\ bulkStep' = "push"
        BY <1>1, <2>4 DEF Push
      <3>2. Append(waiting, a) \in Seq(Actions) /\ ToSet(Append(waiting, a)) = ToSet(waiting) \cup {a}
        <4>1. waiting \in Seq(Actions)
          BY DEF BulkTypeOK
        <4> HIDE DEF a
        <4> QED BY <2>2, <4>1, ToSetAppend
      <3> HIDE DEF a
      <3>3. BulkTypeOK'
        <4>1. sending' \in Seq(Actions) /\ waiting' \in Seq(Actions) /\ bulkStep' \in {"push", "flush"}
          BY <1>0, <3>1, <3>2
        <4> QED BY <2>1, <2>2, <3>1, <4>1 DEF BulkTypeOK
      <3>4. Accounted'
        <4>1. 1 .. pushed = stored \cup refused \cup ToSet(waiting) \cup {}
          BY <1>0, <2>1 DEF Accounted
        <4>2. 1 .. pushed' = stored \cup refused \cup ToSet(waiting) \cup {a}
          BY <2>2, <3>1, <4>1
        <4> QED BY <1>0, <2>1, <3>1, <3>2, <4>2 DEF Accounted
      <3>5. FlushedWhole'
        BY <2>1, <3>1 DEF FlushedWhole
      <3> QED BY <3>3, <3>4, <3>5
    <2> QED BY <2>3, <2>4
  <1>2. CASE LastFlush
    <2>1. /\ bulkStep = "push" /\ sending = <<>> /\ pushed = Len(SizeOf) /\ sending' = waiting
          /\ waiting' = <<>> /\ bulkStep' = "flush" /\ resume' = "finish"
          /\ UNCHANGED <<pushed, bulkTarget, stored, refused>>
      BY <1>2 DEF LastFlush, FlushedWhole
    <2>2. BulkTypeOK'
      BY <1>0, <2>1 DEF BulkTypeOK
    <2>3. Accounted' /\ FlushedWhole'
      BY <1>0, <2>1 DEF Accounted, FlushedWhole
    <2> QED BY <2>2, <2>3
  <1>3. CASE FlushDone
    BY <1>3 DEF FlushDone, BulkTypeOK, Accounted, FlushedWhole
  <1>4. CASE RequestRejected
    <2>1. bulkTarget' \in 1 .. MaxActions
      BY <1>4, BulkAssumption DEF RequestRejected, BulkTypeOK, AtLeast
    <2> QED BY <1>4, <2>1 DEF RequestRejected, Requested, BulkTypeOK, Accounted, FlushedWhole
  <1>5. CASE RequestFails
    BY <1>5, SentAndRest DEF RequestFails, Requested, BulkTypeOK, Accounted, FlushedWhole
  <1>6. CASE AllStored
    <2>1. bulkTarget' \in 1 .. MaxActions
      BY <1>6, BulkAssumption DEF AllStored, BulkTypeOK, AtMost
    <2>2. /\ stored' = stored \cup ToSet(Sent) /\ sending' = Rest /\ bulkStep = "flush"
          /\ UNCHANGED <<bulkStep, refused, pushed, waiting, resume>>
      BY <1>6 DEF AllStored, Requested
    <2>3. BulkTypeOK'
      BY <2>1, <2>2, SentAndRest DEF BulkTypeOK
    <2>4. Accounted'
      BY <2>2, SentAndRest DEF Accounted
    <2>5. FlushedWhole'
      BY <2>2 DEF FlushedWhole
    <2> QED BY <2>3, <2>4, <2>5
  <1>7. CASE ItemsFail
    <2>1. PICK later \in SUBSET ToSet(Sent), never \in SUBSET ToSet(Sent) :
              \E again \in {later, {}} :
                /\ stored' = stored \cup (ToSet(Sent) \ (later \cup never))
                /\ refused' = refused \cup never \cup (later \ again)
                /\ sending' = InOrder(again) \o Rest /\ bulkStep = "flush"
                /\ UNCHANGED <<bulkTarget, bulkStep, pushed, waiting, resume>>
      BY <1>7 DEF ItemsFail, Requested, Left
    <2>2. PICK again \in {later, {}} :
                /\ stored' = stored \cup (ToSet(Sent) \ (later \cup never))
                /\ refused' = refused \cup never \cup (later \ again)
                /\ sending' = InOrder(again) \o Rest /\ bulkStep = "flush"
                /\ UNCHANGED <<bulkTarget, bulkStep, pushed, waiting, resume>>
      BY <2>1
    <2>3. again \subseteq Actions /\ IsFiniteSet(again)
      BY SentAndRest, ActionsNumbered, FS_Subset
    <2>4. InOrder(again) \in Seq(Actions) /\ ToSet(InOrder(again)) = again
      <3>1. InOrder(again) \in Seq(again) /\ ToSet(InOrder(again)) = again
        BY <2>3, ActionsNumbered, ToSetInOrder
      <3> QED BY <2>3, <3>1, SeqMonotonic
    <2>5. sending' \in Seq(Actions) /\ ToSet(sending') = again \cup ToSet(Rest)
      <3>1. Rest \in Seq(Actions)
        BY SentAndRest
      <3>2. /\ InOrder(again) \o Rest \in Seq(Actions)
            /\ ToSet(InOrder(again) \o Rest) = ToSet(InOrder(again)) \cup ToSet(Rest)
        BY <2>4, <3>1, ToSetConcat
      <3> QED BY <2>2, <2>4, <3>2
    <2>6. BulkTypeOK'
      BY <2>2, <2>5, SentAndRest DEF BulkTypeOK
    <2>7. Accounted'
      BY <2>2, <2>5, SentAndRest DEF Accounted
    <2>8. FlushedWhole'
      BY <2>2 DEF FlushedWhole
    <2> QED BY <2>6, <2>7, <2>8
  <1>8. CASE UNCHANGED bulkVars
    BY <1>8 DEF bulkVars, BulkTypeOK, Accounted, FlushedWhole
  <1> QED BY <1>1, <1>2, <1>3, <1>4, <1>5, <1>6, <1>7, <1>8 DEF BulkNext

(* Every reachable state satisfies the inductive invariant.                  *)
THEOREM BulkInvariant == BulkSpec => []BulkInv
  <1>1. BulkInit => BulkInv
    BY InitBulkInv
  <1>2. BulkInv /\ [BulkNext]_bulkVars => BulkInv'
    BY NextBulkInv
  <1> QED BY <1>1, <1>2, PTL DEF BulkSpec

(* Every action pushed so far is stored, refused, waiting or being sent, and  *)
(* a writer that reports success has stored them all, however requests are   *)
(* split, rejected and answered (flush, finish).                             *)
THEOREM ActionsKept == BulkSpec => []NoActionLost
  <1>1. BulkInv => NoActionLost
    <2> SUFFICES ASSUME BulkInv, bulkStep # "error"
                 PROVE  /\ 1 .. pushed = stored \cup refused \cup ToSet(waiting) \cup ToSet(sending)
                        /\ bulkStep = "ok" => stored = Actions
      BY DEF NoActionLost
    <2>1. ToSet(<<>>) = {}
      BY DEF ToSet
    <2> QED BY <2>1 DEF BulkInv, BulkTypeOK, Accounted, FlushedWhole, Actions
  <1> QED BY <1>1, BulkInvariant, PTL

-----------------------------------------------------------------------------

Versions == [WatchFiles -> Nat]

WatchTypeOK ==
    /\ onDisk \in Versions /\ noted \in Versions /\ last \in Versions
    /\ touches \in Nat
    /\ asked \in [queued : BOOLEAN, full : BOOLEAN, paths : SUBSET WatchFiles]
    /\ scanning \in [on : BOOLEAN, todo : SUBSET WatchFiles,
                     seen : SUBSET WatchFiles, read : Versions]
    /\ heard \subseteq WatchFiles /\ due \subseteq WatchFiles /\ firing \subseteq WatchFiles
    /\ forgotten \subseteq WatchFiles

\* What the index will say of a file when the running pass ends.
Expected(f) == IF scanning.on /\ f \in scanning.seen THEN scanning.read[f] ELSE noted[f]

\* Stronger than ChangesTracked in two ways, without which it is not
\* inductive: a file the running pass saw before its last change counts as
\* stale whatever was noted before, and a network root that cannot be reached
\* is no excuse, because the fingerprint still differs.
Tracked(f) ==
    \/ onDisk[f] = Expected(f)
    \/ f \in heard \cup due \cup firing \cup forgotten
    \/ lostEvents
    \/ asked.queued /\ f \in Wanted
    \/ scanning.on /\ f \in scanning.todo
    \/ sourceKind = "network" /\ last[f] # onDisk[f]

AllTracked == daemon = "up" /\ watching = "on" => \A f \in WatchFiles : Tracked(f)

\* A request that is queued says what it wants: one that named no file and
\* did not ask for everything would be narrowed by the next path.
RequestsMeant == asked.queued => asked.full \/ asked.paths # {}

KindKnown == sourceKind \in {"unknown", "local", "network"} /\ (daemon # "down" => sourceKind # "unknown")

WatchInv == WatchTypeOK /\ AllTracked /\ RequestsMeant /\ KindKnown

-----------------------------------------------------------------------------
(* Requests.                                                                 *)

(* Coalescing keeps what was asked for and adds what is asked for now.       *)
LEMMA RequestGrows ==
  ASSUME WatchInv, NEW full \in BOOLEAN, NEW paths \in SUBSET WatchFiles,
         full \/ paths # {}, AskPass(full, paths)
  PROVE  /\ asked' \in [queued : BOOLEAN, full : BOOLEAN, paths : SUBSET WatchFiles]
         /\ RequestsMeant'
         /\ daemon # "down" =>
               /\ asked'.queued
               /\ full => Wanted' = WatchFiles
               /\ paths \subseteq Wanted'
               /\ asked.queued => Wanted \subseteq Wanted'
  <1>1. asked \in [queued : BOOLEAN, full : BOOLEAN, paths : SUBSET WatchFiles]
    BY DEF WatchInv, WatchTypeOK
  <1>2. RequestsMeant
    BY DEF WatchInv
  <1>3. CASE daemon = "down"
    BY <1>1, <1>2, <1>3 DEF AskPass, RequestsMeant
  <1>4. CASE daemon # "down"
    <2>1. /\ asked'.queued = TRUE /\ asked'.full = (asked.full \/ full)
          /\ asked'.paths = IF asked.full \/ full THEN asked.paths ELSE asked.paths \cup paths
          /\ asked' \in [queued : BOOLEAN, full : BOOLEAN, paths : SUBSET WatchFiles]
      BY <1>1, <1>4 DEF AskPass, With
    <2>2. RequestsMeant'
      BY <2>1 DEF RequestsMeant
    <2>3. CASE asked.full \/ full
      BY <1>1, <2>1, <2>2, <2>3 DEF Wanted
    <2>4. CASE ~(asked.full \/ full)
      <3>1. Wanted' = asked.paths \cup paths
        BY <2>1, <2>4 DEF Wanted
      <3>2. asked.queued => Wanted = asked.paths
        BY <1>2, <2>4 DEF Wanted, RequestsMeant
      <3> QED BY <2>1, <2>2, <2>4, <3>1, <3>2
    <2> QED BY <2>3, <2>4
  <1> QED BY <1>3, <1>4

(* The first of a non-empty set of keys is one of them.                      *)
LEMMA FirstKeyFires ==
  ASSUME WatchInv, firing # {}
  PROVE  FirstKey \in firing
  <1> DEFINE Less == {x \in Nat \X Nat : x[1] < x[2]}
  <1>1. firing \subseteq Nat
    BY WatchAssumption DEF WatchInv, WatchTypeOK
  <1>2. IsWellFoundedOn(Less, Nat)
    BY NatLessThanWellFounded DEF OpToRel
  <1>3. PICK f \in firing : \A g \in firing : <<g, f>> \notin Less
    <2> HIDE DEF Less
    <2> QED BY <1>1, <1>2, WFMin
  <1>4. ASSUME NEW g \in firing PROVE f <= g
    <2>1. <<g, f>> \notin Less
      BY <1>3
    <2>2. f \in Nat /\ g \in Nat
      BY <1>1
    <2>3. ~(g < f)
      BY <2>1, <2>2
    <2> QED BY <2>2, <2>3
  <1> QED BY <1>4 DEF FirstKey

-----------------------------------------------------------------------------
(* The steps.                                                                *)

(* At the start nothing is stale.                                            *)
LEMMA InitWatchInv == WatchInit => WatchInv
  <1> SUFFICES ASSUME WatchInit PROVE WatchInv
    OBVIOUS
  <1>1. NoFingerprint \in Versions /\ onDisk \in Versions
    BY DEF WatchInit, NoFingerprint, Versions
  <1>2. WatchTypeOK
    BY <1>1 DEF WatchInit, WatchTypeOK, NotAsked, NoScan
  <1>3. AllTracked /\ RequestsMeant /\ KindKnown
    BY DEF WatchInit, AllTracked, RequestsMeant, KindKnown, NotAsked
  <1> QED BY <1>2, <1>3 DEF WatchInv

(* What a poll sees is a version per file.                                   *)
LEMMA FingerprintVersions == WatchInv => Fingerprint \in Versions
  BY DEF WatchInv, WatchTypeOK, Fingerprint, NoFingerprint, Versions

(* What happens in the world is heard of, overflows, or differs from the     *)
(* fingerprint.                                                              *)
LEMMA WorldStep ==
  ASSUME WatchInv,
         \/ \E f \in WatchFiles, v \in 0 .. MaxTouches + 1 : FileChanges(f, v)
         \/ LoseRoot \/ FindRoot
  PROVE  WatchInv'
  <1> USE DEF WatchInv
  <1>1. ASSUME NEW f \in WatchFiles, NEW v \in 0 .. MaxTouches + 1, FileChanges(f, v)
        PROVE  WatchInv'
    <2>1. /\ v \in Nat /\ onDisk' = [onDisk EXCEPT ![f] = v]
          /\ touches' = touches + 1
          /\ UNCHANGED <<sourceKind, noted, reachable, daemon, watching, due,
                         firing, last, asked, scanning, woes>>
          /\ IF sourceKind = "local" /\ watching = "on"
             THEN \/ heard' = heard \cup {f} /\ UNCHANGED lostEvents
                  \/ lostEvents' = TRUE /\ heard' = {}
             ELSE UNCHANGED <<heard, lostEvents>>
          /\ forgotten' = IF sourceKind = "network" /\ v = last[f]
                          THEN forgotten \cup {f} ELSE forgotten
      BY <1>1, WatchAssumption DEF FileChanges
    <2>2. WatchTypeOK'
      <3>1. onDisk' \in Versions /\ touches' \in Nat
        BY <2>1 DEF WatchTypeOK, Versions
      <3>2. heard' \subseteq WatchFiles /\ forgotten' \subseteq WatchFiles
        BY <2>1 DEF WatchTypeOK
      <3> QED BY <2>1, <3>1, <3>2 DEF WatchTypeOK
    <2>3. RequestsMeant' /\ KindKnown'
      BY <2>1 DEF RequestsMeant, KindKnown
    <2>4. ASSUME daemon = "up", watching = "on", NEW g \in WatchFiles PROVE Tracked(g)'
      <3>1. sourceKind \in {"local", "network"}
        BY <2>4 DEF KindKnown
      <3>2. Tracked(g)
        BY <2>4 DEF AllTracked
      <3>3. CASE g = f
        <4>1. onDisk'[g] = v
          BY <2>1, <3>3 DEF WatchTypeOK, Versions
        <4> QED BY <2>1, <2>4, <3>1, <3>3, <4>1 DEF Tracked
      <3>4. CASE g # f
        <4>1. onDisk'[g] = onDisk[g]
          BY <2>1, <3>4 DEF WatchTypeOK, Versions
        <4> QED BY <2>1, <2>4, <3>2, <4>1 DEF Tracked, Expected, Wanted
      <3> QED BY <3>3, <3>4
    <2>5. AllTracked'
      BY <2>1, <2>4 DEF AllTracked
    <2> QED BY <2>2, <2>3, <2>5
  <1>2. ASSUME LoseRoot \/ FindRoot PROVE WatchInv'
    <2>1. /\ UNCHANGED <<sourceKind, onDisk, noted, daemon, heard, lostEvents, due,
                         firing, last, asked, scanning, forgotten, touches>>
          /\ watching' = "on" => watching = "on"
      BY <1>2 DEF LoseRoot, FindRoot, noticeVars
    <2>2. WatchTypeOK' /\ RequestsMeant' /\ KindKnown'
      BY <2>1 DEF WatchTypeOK, RequestsMeant, KindKnown
    <2>3. AllTracked'
      BY <2>1 DEF AllTracked, Tracked, Expected, Wanted
    <2> QED BY <2>2, <2>3
  <1> QED BY <1>1, <1>2

(* Whoever starts watching asks for everything.                              *)
LEMMA DaemonStep ==
  ASSUME WatchInv, StartDaemon \/ Startup \/ ReconcileWatch \/ StopDaemon
  PROVE  WatchInv'
  <1> USE DEF WatchInv
  <1>0. NoFingerprint \in Versions /\ Fingerprint \in Versions
    BY FingerprintVersions DEF NoFingerprint, Versions
  <1>1. CASE StartDaemon
    <2>1. /\ daemon' = "attached" /\ sourceKind' \in {"unknown", "local", "network"}
          /\ sourceKind' # "unknown" /\ last' \in Versions
          /\ asked' = NotAsked /\ forgotten' = {}
          /\ UNCHANGED <<onDisk, noted, heard, due, firing, scanning, touches>>
      BY <1>0, <1>1 DEF StartDaemon, AttachWatcher, WatchTypeOK, KindKnown
    <2>2. WatchTypeOK' /\ RequestsMeant'
      BY <2>1 DEF WatchTypeOK, RequestsMeant, NotAsked
    <2> QED BY <2>1, <2>2 DEF AllTracked, KindKnown
  <1>2. CASE StopDaemon
    <2>1. /\ daemon' = "down" /\ asked' = NotAsked /\ last' \in Versions
          /\ heard' = {} /\ due' = {} /\ firing' = {}
          /\ UNCHANGED <<sourceKind, onDisk, noted, forgotten, scanning, touches>>
      BY <1>0, <1>2 DEF StopDaemon, worldVars
    <2>2. WatchTypeOK' /\ RequestsMeant'
      BY <2>1 DEF WatchTypeOK, RequestsMeant, NotAsked
    <2> QED BY <2>1, <2>2 DEF AllTracked, KindKnown
  <1>3. CASE Startup \/ ReconcileWatch
    <2>1. /\ daemon # "down" /\ daemon' # "down" /\ AskPass(TRUE, {}) /\ last' \in Versions
          /\ UNCHANGED <<sourceKind, onDisk, noted, heard, due, firing, scanning, forgotten, touches>>
      BY <1>0, <1>3 DEF Startup, ReconcileWatch, AttachWatcher, worldVars, noticeVars, WatchTypeOK
    <2>2. /\ asked' \in [queued : BOOLEAN, full : BOOLEAN, paths : SUBSET WatchFiles]
          /\ RequestsMeant' /\ asked'.queued /\ Wanted' = WatchFiles
      BY <2>1, RequestGrows
    <2>3. WatchTypeOK' /\ KindKnown'
      BY <2>1, <2>2 DEF WatchTypeOK, KindKnown
    <2>4. AllTracked'
      BY <2>2 DEF AllTracked, Tracked
    <2> QED BY <2>2, <2>3, <2>4
  <1> QED BY <1>1, <1>2, <1>3

(* What a watcher knows of goes from hand to hand.                           *)
LEMMA NotifyStep ==
  ASSUME WatchInv, Notify
  PROVE  WatchInv'
  <1> USE DEF WatchInv
  <1>1. CASE (\E f \in WatchFiles : Deliver(f)) \/ (\E keys \in SUBSET WatchFiles : Ready(keys))
    <2>1. /\ UNCHANGED <<sourceKind, onDisk, noted, touches, daemon, watching, lostEvents,
                         last, asked, scanning, forgotten>>
          /\ heard' \subseteq WatchFiles /\ due' \subseteq WatchFiles /\ firing' \subseteq WatchFiles
          /\ heard' \cup due' \cup firing' = heard \cup due \cup firing
      BY <1>1 DEF Deliver, Ready, worldVars, WatchTypeOK
    <2>2. WatchTypeOK' /\ RequestsMeant' /\ KindKnown'
      BY <2>1 DEF WatchTypeOK, RequestsMeant, KindKnown
    <2>3. AllTracked'
      BY <2>1 DEF AllTracked, Tracked, Expected, Wanted
    <2> QED BY <2>2, <2>3
  <1>2. CASE ReportLoss
    <2>1. /\ AskPass(TRUE, {}) /\ UNCHANGED <<sourceKind, onDisk, noted, touches, daemon, watching,
                         heard, due, firing, last, scanning, forgotten>>
      BY <1>2 DEF ReportLoss, worldVars
    <2>2. /\ asked' \in [queued : BOOLEAN, full : BOOLEAN, paths : SUBSET WatchFiles]
          /\ RequestsMeant' /\ (daemon # "down" => asked'.queued /\ Wanted' = WatchFiles)
      BY <2>1, RequestGrows
    <2>3. WatchTypeOK' /\ KindKnown'
      BY <2>1, <2>2 DEF WatchTypeOK, KindKnown
    <2>4. AllTracked'
      BY <2>1, <2>2 DEF AllTracked, Tracked
    <2> QED BY <2>2, <2>3, <2>4
  <1>3. CASE Fire
    <2>1. PICK k \in firing : /\ firing' = firing \ {k} /\ AskPass(FALSE, {k})
                              /\ UNCHANGED <<sourceKind, onDisk, noted, touches, daemon, watching,
                                    heard, lostEvents, due, last, scanning, forgotten>>
      BY <1>3, FirstKeyFires DEF Fire, worldVars
    <2>2. {k} \in SUBSET WatchFiles
      BY DEF WatchTypeOK
    <2>3. /\ asked' \in [queued : BOOLEAN, full : BOOLEAN, paths : SUBSET WatchFiles]
          /\ RequestsMeant'
          /\ (daemon # "down" =>
                asked'.queued /\ {k} \subseteq Wanted' /\ (asked.queued => Wanted \subseteq Wanted'))
      BY <2>1, <2>2, RequestGrows
    <2>4. WatchTypeOK' /\ KindKnown'
      BY <2>1, <2>3 DEF WatchTypeOK, KindKnown
    <2>5. AllTracked'
      BY <2>1, <2>3 DEF AllTracked, Tracked, Expected
    <2> QED BY <2>3, <2>4, <2>5
  <1>4. CASE Poll
    <2>1. /\ last' = Fingerprint /\ AskPass(FALSE, Differs) /\ Differs # {}
          /\ UNCHANGED <<sourceKind, onDisk, noted, touches, daemon, watching,
                         heard, lostEvents, due, firing, scanning, forgotten>>
      BY <1>4 DEF Poll, worldVars
    <2>2. Differs \in SUBSET WatchFiles
      BY DEF Differs
    <2>3. /\ asked' \in [queued : BOOLEAN, full : BOOLEAN, paths : SUBSET WatchFiles]
          /\ RequestsMeant'
          /\ (daemon # "down" =>
                asked'.queued /\ Differs \subseteq Wanted' /\ (asked.queued => Wanted \subseteq Wanted'))
      BY <2>1, <2>2, RequestGrows
    <2>4. WatchTypeOK' /\ KindKnown'
      BY <2>1, <2>3, FingerprintVersions DEF WatchTypeOK, KindKnown
    <2>5. ASSUME daemon = "up", watching = "on", NEW g \in WatchFiles PROVE Tracked(g)'
      <3>1. Tracked(g)
        BY <2>5 DEF AllTracked
      <3>2. CASE sourceKind = "network" /\ last[g] # onDisk[g] /\ last'[g] = onDisk[g]
        <4>1. g \in Differs
          BY <2>1, <3>2 DEF Differs
        <4> QED BY <2>3, <2>5, <4>1 DEF Tracked
      <3> QED BY <2>1, <2>3, <2>5, <3>1, <3>2 DEF Tracked, Expected
    <2>6. AllTracked'
      BY <2>1, <2>5 DEF AllTracked
    <2> QED BY <2>3, <2>4, <2>6
  <1> QED BY <1>1, <1>2, <1>3, <1>4 DEF Notify

(* A pass looks at what was wanted, or forgets it.                           *)
LEMMA WatchPassStep ==
  ASSUME WatchInv, Pass
  PROVE  WatchInv'
  <1> USE DEF WatchInv
  <1>0. UNCHANGED <<sourceKind, onDisk, touches, daemon, noticeVars>>
    BY DEF Pass, BeginPass, Look, EndPass, FailPass, worldVars
  <1>1. KindKnown'
    BY <1>0 DEF KindKnown
  <1>2. CASE BeginPass
    <2>1. /\ asked' = NotAsked /\ UNCHANGED noted /\ ~scanning.on /\ asked.queued
          /\ \/ /\ scanning' = [on |-> TRUE, todo |-> Wanted, seen |-> {}, read |-> NoFingerprint]
                /\ UNCHANGED forgotten
             \/ forgotten' = forgotten \cup Wanted /\ UNCHANGED scanning
      BY <1>2 DEF BeginPass
    <2>2. Wanted \subseteq WatchFiles /\ NoFingerprint \in Versions
      BY DEF WatchTypeOK, Wanted, NoFingerprint, Versions
    <2>3. /\ scanning' \in [on : BOOLEAN, todo : SUBSET WatchFiles,
                            seen : SUBSET WatchFiles, read : Versions]
          /\ forgotten' \subseteq WatchFiles
      <3>1. CASE scanning' = [on |-> TRUE, todo |-> Wanted, seen |-> {}, read |-> NoFingerprint]
        <4>1. scanning' \in [on : BOOLEAN, todo : SUBSET WatchFiles,
                             seen : SUBSET WatchFiles, read : Versions]
          BY <2>2, <3>1
        <4>2. forgotten' \subseteq WatchFiles
          BY <2>1, <2>2 DEF WatchTypeOK
        <4> QED BY <4>1, <4>2
      <3>2. CASE forgotten' = forgotten \cup Wanted /\ UNCHANGED scanning
        BY <2>2, <3>2 DEF WatchTypeOK
      <3> QED BY <2>1, <3>1, <3>2
    <2>4. asked' \in [queued : BOOLEAN, full : BOOLEAN, paths : SUBSET WatchFiles]
      BY <2>1 DEF NotAsked
    <2>5. WatchTypeOK' /\ RequestsMeant'
      BY <1>0, <2>1, <2>3, <2>4 DEF WatchTypeOK, noticeVars, NotAsked, RequestsMeant
    <2>6. AllTracked'
      BY <1>0, <2>1 DEF AllTracked, Tracked, Expected, noticeVars
    <2> QED BY <1>1, <2>5, <2>6
  <1>3. ASSUME NEW f \in WatchFiles, Look(f) PROVE WatchInv'
    <2>1. /\ scanning' = [scanning EXCEPT !.todo = @ \ {f}, !.seen = @ \cup {f},
                                          !.read[f] = onDisk[f]]
          /\ scanning.on /\ UNCHANGED <<noted, asked, forgotten>>
      BY <1>3 DEF Look
    <2>2. /\ scanning'.on /\ scanning'.todo = scanning.todo \ {f}
          /\ scanning'.seen = scanning.seen \cup {f}
          /\ scanning'.read = [scanning.read EXCEPT ![f] = onDisk[f]]
      BY <2>1 DEF WatchTypeOK
    <2>3. scanning' \in [on : BOOLEAN, todo : SUBSET WatchFiles,
                         seen : SUBSET WatchFiles, read : Versions]
      BY <2>1 DEF WatchTypeOK, Versions
    <2>4. WatchTypeOK' /\ RequestsMeant'
      BY <1>0, <2>1, <2>3 DEF WatchTypeOK, noticeVars, RequestsMeant
    <2>5. ASSUME daemon = "up", watching = "on", NEW g \in WatchFiles PROVE Tracked(g)'
      <3>1. Tracked(g)
        BY <2>5 DEF AllTracked
      <3>2. CASE g = f
        <4>1. scanning'.read[g] = onDisk[g]
          BY <2>2, <3>2 DEF WatchTypeOK, Versions
        <4> QED BY <1>0, <2>2, <3>2, <4>1 DEF Tracked, Expected
      <3>3. CASE g # f
        <4>1. scanning'.read[g] = scanning.read[g]
          BY <2>2, <3>3 DEF WatchTypeOK, Versions
        <4> QED BY <1>0, <2>1, <2>2, <3>1, <3>3, <4>1 DEF Tracked, Expected, Wanted, noticeVars
      <3> QED BY <3>2, <3>3
    <2>6. AllTracked'
      BY <1>0, <2>5 DEF AllTracked, noticeVars
    <2> QED BY <1>1, <2>4, <2>6
  <1>4. CASE EndPass
    <2>1. /\ scanning.on /\ scanning.todo = {} /\ scanning' = NoScan /\ UNCHANGED asked
          /\ noted' = [f \in WatchFiles |->
                 IF f \in scanning.seen THEN scanning.read[f] ELSE noted[f]]
          /\ forgotten' = forgotten \ {f \in scanning.seen : scanning.read[f] = onDisk[f]}
      BY <1>4 DEF EndPass
    <2>2. noted' \in Versions /\ NoFingerprint \in Versions
      BY <2>1 DEF WatchTypeOK, Versions, NoFingerprint
    <2>3. WatchTypeOK' /\ RequestsMeant'
      BY <1>0, <2>1, <2>2 DEF WatchTypeOK, noticeVars, RequestsMeant, NoScan
    <2>4. ASSUME NEW g \in WatchFiles PROVE Expected(g)' = Expected(g)
      BY <2>1 DEF Expected, NoScan
    <2>5. ASSUME daemon = "up", watching = "on", NEW g \in WatchFiles PROVE Tracked(g)'
      <3>1. Tracked(g) /\ Expected(g)' = Expected(g)
        BY <2>4, <2>5 DEF AllTracked
      <3>2. CASE onDisk[g] = Expected(g)
        BY <1>0, <3>1, <3>2 DEF Tracked
      <3>3. CASE onDisk[g] # Expected(g)
        <4>1. ~(g \in scanning.seen /\ scanning.read[g] = onDisk[g])
          BY <2>1, <3>3 DEF Expected
        <4>2. g \in forgotten => g \in forgotten'
          BY <2>1, <4>1
        <4> QED BY <1>0, <2>1, <3>1, <3>3, <4>2 DEF Tracked, Wanted, noticeVars
      <3> QED BY <3>2, <3>3
    <2>6. AllTracked'
      BY <1>0, <2>5 DEF AllTracked, noticeVars
    <2> QED BY <1>1, <2>3, <2>6
  <1>5. CASE FailPass
    <2>1. /\ scanning.on /\ scanning' = NoScan /\ UNCHANGED <<asked, noted>>
          /\ forgotten' = forgotten \cup scanning.todo \cup scanning.seen
      BY <1>5 DEF FailPass
    <2>2. NoFingerprint \in Versions
      BY DEF Versions, NoFingerprint
    <2>3. WatchTypeOK' /\ RequestsMeant'
      BY <1>0, <2>1, <2>2 DEF WatchTypeOK, noticeVars, RequestsMeant, NoScan
    <2>4. AllTracked'
      BY <1>0, <2>1 DEF AllTracked, Tracked, Expected, Wanted, noticeVars, NoScan
    <2> QED BY <1>1, <2>3, <2>4
  <1> QED BY <1>2, <1>3, <1>4, <1>5 DEF Pass

(* Every step of the world, the daemon, the debouncer and a pass keeps it.   *)
LEMMA NextWatchInv == WatchInv /\ [WatchNext]_watchVars => WatchInv'
  <1> SUFFICES ASSUME WatchInv, [WatchNext]_watchVars PROVE WatchInv'
    OBVIOUS
  <1>1. CASE UNCHANGED watchVars
    BY <1>1 DEF watchVars, WatchInv, WatchTypeOK, AllTracked, Tracked, Expected, Wanted,
                RequestsMeant, KindKnown
  <1> QED BY <1>1, WorldStep, DaemonStep, NotifyStep, WatchPassStep DEF WatchNext

(* Every reachable state satisfies the inductive invariant.                  *)
THEOREM WatchInvariant == WatchSpec => []WatchInv
  <1>1. WatchInit => WatchInv
    BY InitWatchInv
  <1>2. WatchInv /\ [WatchNext]_watchVars => WatchInv'
    BY NextWatchInv
  <1> QED BY <1>1, <1>2, PTL DEF WatchSpec

(* A stale file is always on its way to a pass: in an event, in the          *)
(* debouncer, in a request, in the running pass or in the next poll's        *)
(* difference, for any files, changes and outages.                           *)
THEOREM NoChangeLost == WatchSpec => []ChangesTracked
  <1>1. WatchInv => ChangesTracked
    BY DEF WatchInv, AllTracked, Tracked, Expected, ChangesTracked
  <1> QED BY <1>1, WatchInvariant, PTL

-----------------------------------------------------------------------------
(* The worker pipelines of sources that are indexed side by side.            *)

(* Two sequences without repetition that share nothing make one.             *)
LEMMA InjectiveConcat ==
  ASSUME NEW S, NEW s \in Seq(S), NEW t \in Seq(S),
         IsInjective(s), IsInjective(t), ToSet(s) \cap ToSet(t) = {}
  PROVE  IsInjective(s \o t)
  <1>1. /\ s \o t \in Seq(S) /\ Len(s \o t) = Len(s) + Len(t)
        /\ \A i \in 1 .. Len(s) + Len(t) :
              (s \o t)[i] = IF i <= Len(s) THEN s[i] ELSE t[i - Len(s)]
    BY ConcatProperties
  <1>2. DOMAIN s = 1 .. Len(s) /\ DOMAIN t = 1 .. Len(t) /\ DOMAIN (s \o t) = 1 .. Len(s) + Len(t)
    BY <1>1, LenProperties
  <1>3. Len(s) \in Nat /\ Len(t) \in Nat
    BY LenProperties
  <1>4. \A i \in 1 .. Len(s), j \in 1 .. Len(t) : s[i] # t[j]
    BY <1>2 DEF ToSet
  <1> DEFINE u == s \o t
  <1>5. ASSUME NEW i \in 1 .. Len(s) + Len(t), NEW j \in 1 .. Len(s) + Len(t), u[i] = u[j] PROVE i = j
    <2>1. CASE i <= Len(s) /\ j <= Len(s)
      <3>1. i \in DOMAIN s /\ j \in DOMAIN s /\ s[i] = s[j]
        BY <1>1, <1>2, <1>3, <1>5, <2>1
      <3> QED BY <3>1 DEF IsInjective
    <2>2. CASE ~(i <= Len(s)) /\ ~(j <= Len(s))
      <3>1. i - Len(s) \in DOMAIN t /\ j - Len(s) \in DOMAIN t /\ t[i - Len(s)] = t[j - Len(s)]
        BY <1>1, <1>2, <1>3, <1>5, <2>2
      <3>2. i - Len(s) = j - Len(s)
        BY <3>1 DEF IsInjective
      <3> QED BY <1>3, <3>2
    <2>3. CASE i <= Len(s) /\ ~(j <= Len(s))
      <3>1. i \in 1 .. Len(s) /\ j - Len(s) \in 1 .. Len(t) /\ s[i] = t[j - Len(s)]
        BY <1>1, <1>3, <1>5, <2>3
      <3> QED BY <1>4, <3>1
    <2>4. CASE ~(i <= Len(s)) /\ j <= Len(s)
      <3>1. j \in 1 .. Len(s) /\ i - Len(s) \in 1 .. Len(t) /\ s[j] = t[i - Len(s)]
        BY <1>1, <1>3, <1>5, <2>4
      <3> QED BY <1>4, <3>1
    <2> QED BY <2>1, <2>2, <2>3, <2>4
  <1> HIDE DEF u
  <1>6. IsInjective(u)
    BY <1>2, <1>5 DEF IsInjective, u
  <1> QED BY <1>6 DEF u

(* An item that is sent on is put behind the others.                         *)
LEMMA InjectiveAppend ==
  ASSUME NEW S, NEW s \in Seq(S), NEW e \in S, IsInjective(s), e \notin ToSet(s)
  PROVE  IsInjective(Append(s, e))
  <1>1. Append(s, e) = s \o <<e>> /\ <<e>> \in Seq(S)
    BY AppendIsConcat
  <1>2. ToSet(<<e>>) = {e} /\ IsInjective(<<e>>)
    BY DEF ToSet, IsInjective
  <1> QED BY <1>1, <1>2, InjectiveConcat

(* A sequence without repetition that is cut in two: the parts share nothing.*)
LEMMA InjectiveCut ==
  ASSUME NEW S, NEW s \in Seq(S), NEW n \in 0 .. Len(s), IsInjective(s)
  PROVE  LET u == SubSeq(s, 1, n)
             v == SubSeq(s, n + 1, Len(s))
         IN  /\ u \in Seq(S) /\ v \in Seq(S) /\ IsInjective(u) /\ IsInjective(v)
             /\ Len(u) = n
             /\ ToSet(u) \cap ToSet(v) = {} /\ ToSet(u) \cup ToSet(v) = ToSet(s)
  <1> DEFINE u == SubSeq(s, 1, n)
             v == SubSeq(s, n + 1, Len(s))
  <1>1. Len(s) \in Nat /\ DOMAIN s = 1 .. Len(s) /\ \A i \in 1 .. Len(s) : s[i] \in S
    BY LenProperties, ElementOfSeq
  <1>2. /\ u \in Seq(S) /\ Len(u) = n /\ \A i \in 1 .. n : u[i] = s[i]
        /\ v \in Seq(S) /\ Len(v) = Len(s) - n /\ \A i \in 1 .. Len(s) - n : v[i] = s[n + i]
    <2>1. n \in Nat /\ n <= Len(s) /\ Len(s) \in Nat
      BY <1>1
    <2>2. \A i \in 1 .. n : s[i] \in S
      BY <1>1, <2>1
    <2>3. \A i \in n + 1 .. Len(s) : s[i] \in S
      BY <1>1, <2>1
    <2>4. /\ u \in Seq(S) /\ Len(u) = (IF 1 <= n THEN n - 1 + 1 ELSE 0)
          /\ \A i \in 1 .. n - 1 + 1 : u[i] = s[1 + i - 1]
      BY <2>1, <2>2, SubSeqProperties
    <2>5. /\ v \in Seq(S) /\ Len(v) = (IF n + 1 <= Len(s) THEN Len(s) - (n + 1) + 1 ELSE 0)
          /\ \A i \in 1 .. Len(s) - (n + 1) + 1 : v[i] = s[(n + 1) + i - 1]
      BY <2>1, <2>3, SubSeqProperties
    <2> HIDE DEF u, v
    <2>6. \A i \in 1 .. n : u[i] = s[i]
      <3> TAKE i \in 1 .. n
      <3>1. i \in 1 .. n - 1 + 1 /\ 1 + i - 1 = i
        BY <2>1
      <3> QED BY <2>4, <3>1
    <2>7. \A i \in 1 .. Len(s) - n : v[i] = s[n + i]
      <3> TAKE i \in 1 .. Len(s) - n
      <3>1. i \in 1 .. Len(s) - (n + 1) + 1 /\ (n + 1) + i - 1 = n + i
        BY <2>1
      <3> QED BY <2>5, <3>1
    <2> QED BY <2>1, <2>4, <2>5, <2>6, <2>7
  <1>3. DOMAIN u = 1 .. n /\ DOMAIN v = 1 .. Len(s) - n
    BY <1>2, LenProperties
  <1> HIDE DEF u, v
  <1>4. \A i, j \in 1 .. Len(s) : s[i] = s[j] => i = j
    BY <1>1 DEF IsInjective
  <1>5. IsInjective(u)
    BY <1>1, <1>2, <1>3, <1>4 DEF IsInjective
  <1>6. IsInjective(v)
    <2> SUFFICES ASSUME NEW i \in 1 .. Len(s) - n, NEW j \in 1 .. Len(s) - n, v[i] = v[j] PROVE i = j
      BY <1>3 DEF IsInjective
    <2>1. n + i \in 1 .. Len(s) /\ n + j \in 1 .. Len(s) /\ s[n + i] = s[n + j]
      BY <1>1, <1>2
    <2>2. n + i = n + j
      BY <1>4, <2>1
    <2> QED BY <1>1, <2>2
  <1>7. ToSet(u) \cap ToSet(v) = {}
    <2> SUFFICES ASSUME NEW i \in 1 .. n, NEW j \in 1 .. Len(s) - n, u[i] = v[j] PROVE FALSE
      BY <1>3 DEF ToSet
    <2>1. i \in 1 .. Len(s) /\ n + j \in 1 .. Len(s) /\ i # n + j
      BY <1>1
    <2>2. s[i] = s[n + j]
      BY <1>2
    <2> QED BY <1>4, <2>1, <2>2
  <1>8. ToSet(u) \subseteq ToSet(s) /\ ToSet(v) \subseteq ToSet(s)
    <2>1. ASSUME NEW i \in 1 .. n PROVE u[i] \in ToSet(s)
      BY <1>1, <1>2 DEF ToSet
    <2>2. ASSUME NEW i \in 1 .. Len(s) - n PROVE v[i] \in ToSet(s)
      <3>1. n + i \in DOMAIN s /\ v[i] = s[n + i]
        BY <1>1, <1>2
      <3> QED BY <3>1 DEF ToSet
    <2> QED BY <1>3, <2>1, <2>2 DEF ToSet
  <1>9. ASSUME NEW i \in 1 .. Len(s) PROVE s[i] \in ToSet(u) \cup ToSet(v)
    <2>1. CASE i <= n
      <3>1. i \in DOMAIN u /\ u[i] = s[i]
        BY <1>1, <1>2, <1>3, <2>1
      <3> QED BY <3>1 DEF ToSet
    <2>2. CASE ~(i <= n)
      <3>1. i - n \in DOMAIN v /\ v[i - n] = s[n + (i - n)] /\ n + (i - n) = i
        BY <1>1, <1>2, <1>3, <2>2
      <3> QED BY <3>1 DEF ToSet
    <2> QED BY <2>1, <2>2
  <1>10. ToSet(s) \subseteq ToSet(u) \cup ToSet(v)
    BY <1>1, <1>9 DEF ToSet
  <1> QED BY <1>2, <1>5, <1>6, <1>7, <1>8, <1>10 DEF u, v

(* What is taken from the front of a queue is in none of the rest.           *)
LEMMA InjectiveTail ==
  ASSUME NEW S, NEW s \in Seq(S), s # <<>>, IsInjective(s)
  PROVE  /\ Head(s) \in S /\ Tail(s) \in Seq(S) /\ IsInjective(Tail(s))
         /\ Head(s) \notin ToSet(Tail(s)) /\ ToSet(s) = ToSet(Tail(s)) \cup {Head(s)}
  <1>1. /\ Len(s) \in Nat /\ Len(s) >= 1 /\ DOMAIN s = 1 .. Len(s)
    BY LenProperties, EmptySeq
  <1>2. /\ Head(s) = s[1] /\ Head(s) \in S /\ Tail(s) \in Seq(S) /\ Len(Tail(s)) = Len(s) - 1
        /\ \A i \in 1 .. Len(Tail(s)) : Tail(s)[i] = s[i + 1]
    BY HeadTailProperties
  <1> DEFINE t == Tail(s)
  <1>3. DOMAIN t = 1 .. Len(s) - 1
    BY <1>1, <1>2, LenProperties
  <1> HIDE DEF t
  <1>4. \A i, j \in 1 .. Len(s) : s[i] = s[j] => i = j
    BY <1>1 DEF IsInjective
  <1>5. \A i \in 1 .. Len(s) - 1 : i + 1 \in 1 .. Len(s) /\ t[i] = s[i + 1]
    BY <1>1, <1>2 DEF t
  <1>6. ASSUME NEW i \in 1 .. Len(s) - 1, NEW j \in 1 .. Len(s) - 1, t[i] = t[j] PROVE i = j
    <2>1. i + 1 = j + 1
      BY <1>4, <1>5, <1>6
    <2> QED BY <1>1, <2>1
  <1>7. IsInjective(t)
    BY <1>3, <1>6 DEF IsInjective
  <1>8. ASSUME NEW i \in 1 .. Len(s) - 1 PROVE t[i] # s[1] /\ t[i] \in ToSet(s)
    <2>1. i + 1 # 1 /\ 1 \in 1 .. Len(s)
      BY <1>1
    <2> QED BY <1>1, <1>4, <1>5, <2>1 DEF ToSet
  <1>9. ASSUME NEW i \in 1 .. Len(s), i # 1 PROVE s[i] \in ToSet(t)
    <2>1. i - 1 \in 1 .. Len(s) - 1 /\ (i - 1) + 1 = i
      BY <1>1, <1>9
    <2> QED BY <1>3, <1>5, <2>1 DEF ToSet
  <1>10. ToSet(t) \subseteq ToSet(s) /\ s[1] \notin ToSet(t)
    BY <1>3, <1>8 DEF ToSet
  <1>11. ToSet(s) \subseteq ToSet(t) \cup {s[1]} /\ s[1] \in ToSet(s)
    BY <1>1, <1>9 DEF ToSet
  <1> QED BY <1>2, <1>7, <1>10, <1>11 DEF t


PipeTypes ==
    /\ capacity \in [PoolNames -> Nat]
    /\ stage \in [Runs -> {"waiting", "running", "embed", "cpu", "model", "ended"}]
    /\ feeder \in [Runs -> [step : {"next", "wait", "send", "done"}, item : Nat, want : Nat]]
    /\ workQ \in [Runs -> Seq(Nat)] /\ doneQ \in [Runs -> Seq(Nat)]
    /\ inWrite \in [Runs -> Seq(Nat)] /\ wrote \in [Runs -> Seq(Nat)]
    /\ hand \in [Runs -> [Hands -> [step : {"idle", "ocr", "cpu", "prepare", "send", "gone"}, item : Nat]]]
    /\ failedRun \in [Runs -> BOOLEAN]

Holds(p, w) == hand[p][w].step \notin {"idle", "gone"}
Queued(p) == ToSet(workQ[p])
Awaiting(p) == ToSet(doneQ[p])
InBatch(p) == ToSet(inWrite[p])
Kept(p) == ToSet(wrote[p])
Stored(p) == Queued(p) \cup Awaiting(p) \cup InBatch(p) \cup Kept(p)

\* An item that the feeder sent is in one place.
OnePlace(p) ==
    /\ IsInjective(workQ[p]) /\ IsInjective(doneQ[p]) /\ IsInjective(inWrite[p]) /\ IsInjective(wrote[p])
    /\ Queued(p) \cap (Awaiting(p) \cup InBatch(p) \cup Kept(p)) = {}
    /\ Awaiting(p) \cap (InBatch(p) \cup Kept(p)) = {} /\ InBatch(p) \cap Kept(p) = {}
    /\ \A v \in Hands : Holds(p, v) => hand[p][v].item \notin Stored(p)
    /\ \A v, w \in Hands : Holds(p, v) /\ Holds(p, w) /\ hand[p][v].item = hand[p][w].item => v = w
OnlySent(p) ==
    /\ Stored(p) \subseteq 1 .. feeder[p].item - 1
    /\ \A w \in Hands : Holds(p, w) => hand[p][w].item \in 1 .. feeder[p].item - 1

\* Unless the run failed, none is missing.
AllSent(p) ==
    ~failedRun[p] => \A i \in 1 .. feeder[p].item - 1 :
        i \in Stored(p) \/ \E w \in Hands : Holds(p, w) /\ hand[p][w].item = i

FeederFits(p) ==
    /\ feeder[p].item \in 1 .. Len(Sizes[p]) + 1
    /\ feeder[p].step \in {"wait", "send"} => feeder[p].item \in Items(p)
    /\ feeder[p].step = "done" /\ ~failedRun[p] => feeder[p].item \notin Items(p)

\* Threads end from the feeder on: the workers once it is done and their queue
\* empty, the writer once they are gone.
EndsInOrder(p) ==
    /\ \A w \in Hands : hand[p][w].step = "gone" => Closed(p)
    /\ stage[p] \notin {"waiting", "running"} =>
          /\ doneQ[p] = <<>> /\ inWrite[p] = <<>>
          /\ \A w \in Hands : hand[p][w].step = "gone"
    /\ stage[p] \in {"embed", "cpu", "model"} => ~failedRun[p]

RunInv(p) == OnePlace(p) /\ OnlySent(p) /\ AllSent(p) /\ FeederFits(p) /\ EndsInOrder(p)
PipeInv == PipeTypes /\ \A p \in Runs : RunInv(p)

(* An empty queue. *)
LEMMA NoItems == ToSet(<<>>) = {} /\ IsInjective(<<>>)
  BY DEF ToSet, IsInjective

(* A source has finitely many items.                                         *)
LEMMA SizesFit == ASSUME NEW p \in Runs PROVE Len(Sizes[p]) \in Nat /\ \A i \in Items(p) : Sizes[p][i] \in Nat
  <1>1. Sizes[p] \in Seq(Nat)
    BY PipelineAssumption, ElementOfSeq DEF Runs
  <1> QED BY <1>1, LenProperties, ElementOfSeq DEF Items

(* Every item waits for the feeder at the start.                             *)
LEMMA PipeStarts == PipeInit => PipeInv
  <1> SUFFICES ASSUME PipeInit PROVE PipeInv
    OBVIOUS
  <1>1. PipeTypes
    BY PipelineAssumption DEF PipeInit, PipeTypes
  <1>2. ASSUME NEW p \in Runs PROVE RunInv(p)
    <2>1. workQ[p] = <<>> /\ doneQ[p] = <<>> /\ inWrite[p] = <<>> /\ wrote[p] = <<>>
      BY DEF PipeInit
    <2>2. \A w \in Hands : hand[p][w] = [step |-> "idle", item |-> 0]
      BY DEF PipeInit
    <2>3. feeder[p] = [step |-> "next", item |-> 1, want |-> 0] /\ stage[p] = "waiting"
      BY DEF PipeInit
    <2>4. Stored(p) = {}
      BY <2>1, NoItems DEF Stored, Queued, Awaiting, InBatch, Kept
    <2>5. OnePlace(p)
      BY <2>1, <2>2, <2>4, NoItems DEF OnePlace, Holds, Queued, Awaiting, InBatch, Kept
    <2> QED BY <2>1, <2>2, <2>3, <2>4, <2>5, SizesFit
            DEF RunInv, OnlySent, AllSent, FeederFits, EndsInOrder, Holds, Items
  <1> QED BY <1>1, <1>2 DEF PipeInv

\* The places of a run, for the runs that a step is not about.
Same(p) ==
    /\ stage'[p] = stage[p] /\ feeder'[p] = feeder[p] /\ workQ'[p] = workQ[p] /\ doneQ'[p] = doneQ[p]
    /\ hand'[p] = hand[p] /\ inWrite'[p] = inWrite[p] /\ wrote'[p] = wrote[p] /\ failedRun'[p] = failedRun[p]

(* A source of which nothing changes keeps its part of the invariant.        *)
LEMMA SameStays == ASSUME NEW p \in Runs, Same(p), RunInv(p) PROVE RunInv(p)'
  BY DEF Same, RunInv, OnePlace, OnlySent, AllSent, FeederFits, EndsInOrder, Closed, Holds, Stored, Queued,
         Awaiting, InBatch, Kept

(* A step of one source changes nothing of the items of another.             *)
LEMMA OthersSame ==
  ASSUME PipeTypes, NEW p \in Runs, NEW q \in Runs, p # q, RunStep(p)
  PROVE  Same(q)
  <1> USE DEF PipeTypes, Same
  <1>1. CASE StartRun(p) \/ FeedNext(p) \/ FeedBudget(p) \/ FeedSend(p)
    BY <1>1 DEF StartRun, FeedNext, FeedBudget, FeedSend
  <1>2. ASSUME NEW w \in Hands, TakeWork(p, w) PROVE Same(q)
    BY <1>2 DEF TakeWork
  <1>3. ASSUME NEW w \in Hands, \/ GetPermit(p, w, "ocr", "cpu") \/ GetPermit(p, w, "cpu", "prepare")
                                \/ Prepared(p, w) \/ SendDone(p, w) \/ Leave(p, w) PROVE Same(q)
    BY <1>3 DEF GetPermit, Prepared, SendDone, Leave
  <1>4. CASE Collect(p) \/ WriteBatch(p) \/ CloseRun(p)
    BY <1>4 DEF Collect, WriteBatch, CloseRun
  <1>5. CASE GetModel(p) \/ GetModelCpu(p) \/ ModelDone(p)
    BY <1>5 DEF GetModel, GetModelCpu, ModelDone
  <1> QED BY <1>1, <1>2, <1>3, <1>4, <1>5 DEF RunStep

\* What a step of the feeder, the executor or the model batch leaves alone.
Places(p) == <<workQ[p], doneQ[p], inWrite[p], wrote[p], hand[p], failedRun[p]>>

\* The sorts of what a source's threads change.
LEMMA HandTyped ==
  ASSUME PipeTypes, NEW p \in Runs, NEW w \in Hands,
         NEW h \in [step : {"idle", "ocr", "cpu", "prepare", "send", "gone"}, item : Nat]
  PROVE  [hand EXCEPT ![p][w] = h] \in [Runs -> [Hands -> [step : {"idle", "ocr", "cpu", "prepare", "send", "gone"}, item : Nat]]]
  BY DEF PipeTypes

(* The feeder picks the next item.                                           *)
LEMMA FeederStep ==
  ASSUME PipeTypes, NEW p \in Runs, RunInv(p), StartRun(p) \/ FeedNext(p) \/ FeedBudget(p)
  PROVE  PipeTypes' /\ RunInv(p)'
  <1> USE DEF PipeTypes
  <1>1. Len(Sizes[p]) \in Nat /\ \A i \in Items(p) : Sizes[p][i] \in Nat
    BY SizesFit
  <1>2. CASE StartRun(p)
    <2>1. PipeTypes'
      BY <1>2 DEF StartRun
    <2>2. RunInv(p)'
      BY <1>2 DEF StartRun, RunInv, OnePlace, OnlySent, AllSent, FeederFits, EndsInOrder, Closed, Holds, Stored,
                  Queued, Awaiting, InBatch, Kept
    <2> QED BY <2>1, <2>2
  <1>3. CASE FeedNext(p)
    <2>1. feeder[p].item \in Items(p) => Want("bytes", Sizes[p][feeder[p].item]) \in Nat
      BY <1>1 DEF Want, PoolNames
    <2>2. PipeTypes'
      <3>1. feeder' \in [Runs -> [step : {"next", "wait", "send", "done"}, item : Nat, want : Nat]]
        BY ZenonT(30), <1>3, <2>1 DEF FeedNext
      <3> QED BY <1>3, <3>1 DEF FeedNext
    <2>3. /\ feeder'[p].item = feeder[p].item
          /\ \/ feeder'[p].step = "done" /\ (failedRun[p] \/ feeder[p].item \notin Items(p))
             \/ feeder'[p].step = "wait" /\ feeder[p].item \in Items(p)
      BY <1>3 DEF FeedNext
    <2>4. stage[p] = "running" /\ feeder[p].step = "next"
      BY <1>3 DEF FeedNext
    <2>5. UNCHANGED <<workQ, doneQ, inWrite, wrote, hand, failedRun, stage>>
      BY <1>3 DEF FeedNext
    <2>6. RunInv(p)'
      BY <2>3, <2>4, <2>5 DEF RunInv, OnePlace, OnlySent, AllSent, FeederFits, EndsInOrder, Closed, Holds, Stored,
                  Queued, Awaiting, InBatch, Kept
    <2> QED BY <2>2, <2>6
  <1>4. CASE FeedBudget(p)
    <2>1. /\ feeder' = [feeder EXCEPT ![p].step = "send"] /\ feeder[p].step = "wait"
          /\ UNCHANGED <<workQ, doneQ, inWrite, wrote, hand, failedRun, stage, capacity>>
      BY <1>4 DEF FeedBudget
    <2>2. PipeTypes'
      BY <2>1
    <2>3. feeder'[p].item = feeder[p].item /\ feeder'[p].step = "send"
      BY <2>1
    <2>6. RunInv(p)'
      BY <2>1, <2>3 DEF RunInv, OnePlace, OnlySent, AllSent, FeederFits, EndsInOrder, Closed, Holds, Stored,
                  Queued, Awaiting, InBatch, Kept
    <2> QED BY <2>2, <2>6
  <1> QED BY <1>2, <1>3, <1>4

(* The feeder sends its item into the channel, or finds it closed.           *)
LEMMA FeedSendStep ==
  ASSUME PipeTypes, NEW p \in Runs, RunInv(p), FeedSend(p)
  PROVE  PipeTypes' /\ RunInv(p)'
  <1> DEFINE i == feeder[p].item
  <1>1. /\ workQ' = [workQ EXCEPT ![p] = Append(workQ[p], i)] /\ feeder[p].step = "send"
        /\ feeder' = [feeder EXCEPT ![p].step = "next", ![p].item = @ + 1]
        /\ UNCHANGED <<doneQ, inWrite, wrote, hand, failedRun, stage, capacity>>
    BY DEF FeedSend
  <1>2. i \in Items(p) /\ i \in Nat /\ workQ[p] \in Seq(Nat) /\ Len(Sizes[p]) \in Nat
    BY <1>1, SizesFit DEF RunInv, FeederFits, PipeTypes
  <1>3. i \notin Stored(p) /\ \A w \in Hands : Holds(p, w) => hand[p][w].item # i
    BY <1>2 DEF RunInv, OnlySent
  <1>4. workQ'[p] = Append(workQ[p], i) /\ feeder'[p].item = i + 1 /\ feeder'[p].step = "next"
    BY <1>1 DEF PipeTypes
  <1>5. Append(workQ[p], i) \in Seq(Nat) /\ ToSet(workQ'[p]) = ToSet(workQ[p]) \cup {i} /\ IsInjective(workQ'[p])
    BY <1>2, <1>3, <1>4, ToSetAppend, InjectiveAppend DEF RunInv, OnePlace, Stored, Queued
  <1>6. PipeTypes'
    <2>1. workQ' \in [Runs -> Seq(Nat)]
      BY <1>1, <1>5 DEF PipeTypes
    <2>2. feeder' \in [Runs -> [step : {"next", "wait", "send", "done"}, item : Nat, want : Nat]]
      <3> DEFINE f == [feeder[p] EXCEPT !.step = "next", !.item = feeder[p].item + 1]
      <3>1. feeder[p] \in [step : {"next", "wait", "send", "done"}, item : Nat, want : Nat]
        BY DEF PipeTypes
      <3>0. feeder[p].item + 1 \in Nat
        BY <3>1
      <3>2. f \in [step : {"next", "wait", "send", "done"}, item : Nat, want : Nat]
        BY <3>0, <3>1
      <3>3. feeder' = [feeder EXCEPT ![p] = f]
        BY <1>1
      <3> QED BY <3>2, <3>3 DEF PipeTypes
    <2> QED BY <1>1, <2>1, <2>2 DEF PipeTypes
  <1>7. /\ Queued(p)' = Queued(p) \cup {i} /\ Awaiting(p)' = Awaiting(p) /\ InBatch(p)' = InBatch(p) /\ Kept(p)' = Kept(p)
        /\ Stored(p)' = Stored(p) \cup {i} /\ \A w \in Hands : Holds(p, w)' = Holds(p, w)
    BY <1>1, <1>5 DEF Queued, Awaiting, InBatch, Kept, Stored, Holds
  <1>8. OnePlace(p)'
    BY <1>1, <1>3, <1>5, <1>7 DEF RunInv, OnePlace, Stored
  <1>9. 1 .. (feeder[p].item)' - 1 = (1 .. feeder[p].item - 1) \cup {i}
    BY <1>2, <1>4 DEF Items
  <1>10. OnlySent(p)' /\ AllSent(p)'
    BY <1>1, <1>7, <1>9 DEF RunInv, OnlySent, AllSent
  <1>11. FeederFits(p)'
    BY <1>2, <1>4 DEF FeederFits, Items
  <1>12. EndsInOrder(p)'
    BY <1>1 DEF RunInv, EndsInOrder, Closed
  <1> QED BY <1>6, <1>8, <1>10, <1>11, <1>12 DEF RunInv

(* A worker takes the first item of the channel.                             *)
LEMMA TakeStep ==
  ASSUME PipeTypes, NEW p \in Runs, RunInv(p), NEW w \in Hands, TakeWork(p, w)
  PROVE  PipeTypes' /\ RunInv(p)'
  <1> DEFINE i == Head(workQ[p])
  <1>1. /\ hand[p][w].step = "idle" /\ workQ[p] # <<>> /\ workQ' = [workQ EXCEPT ![p] = Tail(@)]
        /\ \/ failedRun[p] /\ UNCHANGED hand
           \/ ~failedRun[p] /\ hand' = [hand EXCEPT ![p][w] = [step |-> FirstStep(p, i), item |-> i]]
        /\ UNCHANGED <<feeder, doneQ, inWrite, wrote, failedRun, stage, capacity>>
    BY DEF TakeWork
  <1>2. workQ[p] \in Seq(Nat) /\ IsInjective(workQ[p])
    BY DEF PipeTypes, RunInv, OnePlace
  <1>3. /\ i \in Nat /\ Tail(workQ[p]) \in Seq(Nat) /\ IsInjective(Tail(workQ[p]))
        /\ i \notin ToSet(Tail(workQ[p])) /\ ToSet(workQ[p]) = ToSet(Tail(workQ[p])) \cup {i}
    BY <1>1, <1>2, InjectiveTail
  <1> HIDE DEF i
  <1>4. workQ'[p] = Tail(workQ[p])
    BY <1>1 DEF PipeTypes
  <1>5. FirstStep(p, i) \in {"ocr", "cpu"}
    BY DEF FirstStep
  <1>6. PipeTypes'
    <2>1. workQ' \in [Runs -> Seq(Nat)]
      BY <1>1, <1>3 DEF PipeTypes
    <2>2. hand' \in [Runs -> [Hands -> [step : {"idle", "ocr", "cpu", "prepare", "send", "gone"}, item : Nat]]]
      <3>1. [step |-> FirstStep(p, i), item |-> i] \in [step : {"idle", "ocr", "cpu", "prepare", "send", "gone"}, item : Nat]
        BY <1>3, <1>5
      <3>2. [hand EXCEPT ![p][w] = [step |-> FirstStep(p, i), item |-> i]] \in [Runs -> [Hands -> [step : {"idle", "ocr", "cpu", "prepare", "send", "gone"}, item : Nat]]]
        BY <3>1, HandTyped
      <3> QED BY <1>1, <3>2 DEF PipeTypes
    <2> QED BY <1>1, <2>1, <2>2 DEF PipeTypes
  <1>7. /\ Queued(p) = Queued(p)' \cup {i} /\ i \notin Queued(p)'
        /\ Awaiting(p)' = Awaiting(p) /\ InBatch(p)' = InBatch(p) /\ Kept(p)' = Kept(p)
    BY <1>1, <1>3, <1>4 DEF Queued, Awaiting, InBatch, Kept
  <1>8. i \in Stored(p) /\ i \notin Stored(p)' /\ Stored(p) = Stored(p)' \cup {i}
    BY <1>7 DEF RunInv, OnePlace, Stored
  <1>9. \A v \in Hands : Holds(p, v) => hand[p][v].item # i
    BY <1>8 DEF RunInv, OnePlace
  <1>10. \/ failedRun[p] /\ hand' = hand
         \/ /\ ~failedRun[p] /\ Holds(p, w)' /\ hand'[p][w].item = i /\ hand'[p][w].step # "gone"
            /\ \A v \in Hands \ {w} : hand'[p][v] = hand[p][v]
    <2>1. CASE failedRun[p]
      BY <1>1, <2>1
    <2>2. CASE ~failedRun[p]
      <3>1. hand'[p] = [hand[p] EXCEPT ![w] = [step |-> FirstStep(p, i), item |-> i]] /\ hand[p] \in [Hands -> [step : {"idle", "ocr", "cpu", "prepare", "send", "gone"}, item : Nat]]
        BY <1>1, <2>2 DEF PipeTypes
      <3>2. hand'[p][w] = [step |-> FirstStep(p, i), item |-> i] /\ \A v \in Hands \ {w} : hand'[p][v] = hand[p][v]
        BY <3>1
      <3> QED BY <1>5, <2>2, <3>2 DEF Holds
    <2> QED BY <2>1, <2>2
  <1>11. \A v \in Hands : Holds(p, v)' =>
             \/ Holds(p, v) /\ hand'[p][v].item = hand[p][v].item
             \/ v = w /\ ~failedRun[p] /\ hand'[p][v].item = i
    BY <1>10 DEF Holds
  <1>12. \A v \in Hands : Holds(p, v) => Holds(p, v)' /\ hand'[p][v].item = hand[p][v].item
    BY <1>1, <1>10 DEF Holds
  <1>13. OnePlace(p)'
    <2>1. \A v \in Hands : Holds(p, v)' => hand'[p][v].item \notin Stored(p)'
      BY <1>8, <1>11 DEF RunInv, OnePlace
    <2>2. \A v, u \in Hands : Holds(p, v)' /\ Holds(p, u)' /\ hand'[p][v].item = hand'[p][u].item => v = u
      BY <1>9, <1>11 DEF RunInv, OnePlace
    <2>3. IsInjective(workQ'[p]) /\ IsInjective(doneQ'[p]) /\ IsInjective(inWrite'[p]) /\ IsInjective(wrote'[p])
      BY <1>1, <1>3, <1>4 DEF RunInv, OnePlace
    <2>4. /\ Queued(p)' \cap (Awaiting(p)' \cup InBatch(p)' \cup Kept(p)') = {}
          /\ Awaiting(p)' \cap (InBatch(p)' \cup Kept(p)') = {} /\ InBatch(p)' \cap Kept(p)' = {}
      BY <1>7 DEF RunInv, OnePlace
    <2> QED BY <2>1, <2>2, <2>3, <2>4 DEF OnePlace
  <1>14. OnlySent(p)'
    BY <1>1, <1>8, <1>11 DEF RunInv, OnlySent
  <1>15. AllSent(p)'
    BY <1>1, <1>8, <1>10, <1>12 DEF RunInv, AllSent
  <1>16. FeederFits(p)'
    BY <1>1 DEF RunInv, FeederFits
  <1>17. EndsInOrder(p)'
    <2>1. ~\E v \in Hands : hand[p][v].step = "gone"
      BY <1>1 DEF RunInv, EndsInOrder, Closed
    <2>2. stage[p] \in {"waiting", "running"}
      BY <1>1, <2>1 DEF RunInv, EndsInOrder
    <2>3. \A v \in Hands : hand'[p][v].step # "gone"
      BY <1>10, <2>1
    <2> QED BY <1>1, <2>2, <2>3 DEF EndsInOrder
  <1> QED BY <1>6, <1>13, <1>14, <1>15, <1>16, <1>17 DEF RunInv

(* Waiting for permits and preparing leave every item where it is.           *)
LEMMA PermitStep ==
  ASSUME PipeTypes, NEW p \in Runs, RunInv(p), NEW w \in Hands,
         GetPermit(p, w, "ocr", "cpu") \/ GetPermit(p, w, "cpu", "prepare") \/ Prepared(p, w)
  PROVE  PipeTypes' /\ RunInv(p)'
  <1>1. PICK s \in {"cpu", "prepare", "send"} :
           /\ hand[p][w].step \in {"ocr", "cpu", "prepare"}
           /\ hand' = [hand EXCEPT ![p][w] = [hand[p][w] EXCEPT !.step = s]]
           /\ UNCHANGED <<feeder, workQ, doneQ, inWrite, wrote, failedRun, stage, capacity>>
    BY DEF GetPermit, Prepared
  <1>2. PipeTypes'
    <2>0. hand[p][w] \in [step : {"idle", "ocr", "cpu", "prepare", "send", "gone"}, item : Nat]
      BY DEF PipeTypes
    <2>1. [hand[p][w] EXCEPT !.step = s] \in [step : {"idle", "ocr", "cpu", "prepare", "send", "gone"}, item : Nat]
      BY <2>0
    <2>2. hand' \in [Runs -> [Hands -> [step : {"idle", "ocr", "cpu", "prepare", "send", "gone"}, item : Nat]]]
      BY <1>1, <2>1, HandTyped
    <2> QED BY <1>1, <2>2 DEF PipeTypes
  <1>3. \A v \in Hands : /\ hand'[p][v].item = hand[p][v].item
                         /\ hand'[p][v].step = IF v = w THEN s ELSE hand[p][v].step
    BY <1>1 DEF PipeTypes
  <1>4. \A v \in Hands : Holds(p, v)' = Holds(p, v) /\ (hand'[p][v].step = "gone" <=> hand[p][v].step = "gone")
    BY <1>1, <1>3 DEF Holds
  <1>5. RunInv(p)'
    BY <1>1, <1>3, <1>4 DEF RunInv, OnePlace, OnlySent, AllSent, FeederFits, EndsInOrder, Closed, Stored,
                  Queued, Awaiting, InBatch, Kept
  <1> QED BY <1>2, <1>5

(* A worker sends its item to the writer.                                    *)
LEMMA SendStep ==
  ASSUME PipeTypes, NEW p \in Runs, RunInv(p), NEW w \in Hands, SendDone(p, w)
  PROVE  PipeTypes' /\ RunInv(p)'
  <1> DEFINE i == hand[p][w].item
  <1>1. /\ hand[p][w].step = "send" /\ doneQ' = [doneQ EXCEPT ![p] = Append(doneQ[p], i)]
        /\ hand' = [hand EXCEPT ![p][w] = [step |-> "idle", item |-> 0]]
        /\ UNCHANGED <<feeder, workQ, inWrite, wrote, failedRun, stage, capacity>>
    BY DEF SendDone
  <1>2. i \in Nat /\ doneQ[p] \in Seq(Nat) /\ Holds(p, w)
    BY <1>1 DEF PipeTypes, Holds
  <1>3. /\ i \notin Stored(p) /\ i \in 1 .. feeder[p].item - 1
        /\ \A v \in Hands : Holds(p, v) /\ v # w => hand[p][v].item # i
    BY <1>2 DEF RunInv, OnePlace, OnlySent
  <1>4. doneQ'[p] = Append(doneQ[p], i)
    BY <1>1 DEF PipeTypes
  <1>5. Append(doneQ[p], i) \in Seq(Nat) /\ ToSet(doneQ'[p]) = ToSet(doneQ[p]) \cup {i} /\ IsInjective(doneQ'[p])
    BY <1>2, <1>3, <1>4, ToSetAppend, InjectiveAppend DEF RunInv, OnePlace, Stored, Awaiting
  <1>6. PipeTypes'
    <2>1. doneQ' \in [Runs -> Seq(Nat)]
      BY <1>1, <1>5 DEF PipeTypes
    <2>2. hand' \in [Runs -> [Hands -> [step : {"idle", "ocr", "cpu", "prepare", "send", "gone"}, item : Nat]]]
      BY <1>1, HandTyped
    <2> QED BY <1>1, <2>1, <2>2 DEF PipeTypes
  <1>7. /\ Awaiting(p)' = Awaiting(p) \cup {i} /\ Queued(p)' = Queued(p) /\ InBatch(p)' = InBatch(p) /\ Kept(p)' = Kept(p)
        /\ Stored(p)' = Stored(p) \cup {i}
    BY <1>1, <1>5 DEF Queued, Awaiting, InBatch, Kept, Stored
  <1>8. ~Holds(p, w)' /\ hand'[p][w].step = "idle" /\ \A v \in Hands \ {w} : hand'[p][v] = hand[p][v]
    BY <1>1 DEF PipeTypes, Holds
  <1> HIDE DEF i
  <1>9. \A v \in Hands : Holds(p, v)' => v # w /\ Holds(p, v) /\ hand'[p][v].item = hand[p][v].item
    BY <1>8 DEF Holds
  <1>10. OnePlace(p)'
    <2>1. \A v \in Hands : Holds(p, v)' => hand'[p][v].item \notin Stored(p)'
      BY <1>3, <1>7, <1>9 DEF RunInv, OnePlace
    <2>2. \A v, u \in Hands : Holds(p, v)' /\ Holds(p, u)' /\ hand'[p][v].item = hand'[p][u].item => v = u
      BY <1>9 DEF RunInv, OnePlace
    <2>3. IsInjective(workQ'[p]) /\ IsInjective(doneQ'[p]) /\ IsInjective(inWrite'[p]) /\ IsInjective(wrote'[p])
      BY <1>1, <1>5 DEF RunInv, OnePlace
    <2>4. /\ Queued(p)' \cap (Awaiting(p)' \cup InBatch(p)' \cup Kept(p)') = {}
          /\ Awaiting(p)' \cap (InBatch(p)' \cup Kept(p)') = {} /\ InBatch(p)' \cap Kept(p)' = {}
      BY <1>3, <1>7 DEF RunInv, OnePlace, Stored
    <2> QED BY <2>1, <2>2, <2>3, <2>4 DEF OnePlace
  <1>11. OnlySent(p)'
    BY <1>1, <1>3, <1>7, <1>9 DEF RunInv, OnlySent
  <1>12. AllSent(p)'
    <2> SUFFICES ASSUME ~failedRun[p], NEW k \in 1 .. feeder[p].item - 1, k \notin Stored(p)'
                 PROVE  \E v \in Hands : Holds(p, v)' /\ hand'[p][v].item = k
      BY <1>1 DEF AllSent
    <2>1. PICK v \in Hands : Holds(p, v) /\ hand[p][v].item = k
      BY <1>7 DEF RunInv, AllSent
    <2>2. v # w
      BY <1>7, <2>1 DEF i
    <2> QED BY <1>8, <2>1, <2>2 DEF Holds
  <1>13. FeederFits(p)'
    BY <1>1 DEF RunInv, FeederFits
  <1>14. EndsInOrder(p)'
    <2>1. stage[p] \in {"waiting", "running"}
      BY <1>1 DEF RunInv, EndsInOrder
    <2>2. \A v \in Hands : hand'[p][v].step = "gone" => hand[p][v].step = "gone"
      BY <1>8
    <2> QED BY <1>1, <2>1, <2>2 DEF RunInv, EndsInOrder, Closed
  <1> QED BY <1>6, <1>10, <1>11, <1>12, <1>13, <1>14 DEF RunInv

(* A worker that is done, or cancelled, lets go of its item.                 *)
LEMMA LeaveStep ==
  ASSUME PipeTypes, NEW p \in Runs, RunInv(p), NEW w \in Hands, Leave(p, w)
  PROVE  PipeTypes' /\ RunInv(p)'
  <1>1. /\ hand[p][w].step = "idle" /\ Closed(p)
        /\ hand' = [hand EXCEPT ![p][w] = [hand[p][w] EXCEPT !.step = "gone"]]
        /\ UNCHANGED <<feeder, workQ, doneQ, inWrite, wrote, failedRun, stage, capacity>>
    BY DEF Leave
  <1>2. PipeTypes'
    <2>0. hand[p][w] \in [step : {"idle", "ocr", "cpu", "prepare", "send", "gone"}, item : Nat]
      BY DEF PipeTypes
    <2>1. [hand[p][w] EXCEPT !.step = "gone"] \in [step : {"idle", "ocr", "cpu", "prepare", "send", "gone"}, item : Nat]
      BY <2>0
    <2>2. hand' \in [Runs -> [Hands -> [step : {"idle", "ocr", "cpu", "prepare", "send", "gone"}, item : Nat]]]
      BY <1>1, <2>1, HandTyped
    <2> QED BY <1>1, <2>2 DEF PipeTypes
  <1>3. \A v \in Hands : /\ hand'[p][v].item = hand[p][v].item
                         /\ hand'[p][v].step = IF v = w THEN "gone" ELSE hand[p][v].step
    BY <1>1 DEF PipeTypes
  <1>4. \A v \in Hands : Holds(p, v)' = Holds(p, v)
    BY <1>1, <1>3 DEF Holds
  <1>5. RunInv(p)'
    BY <1>1, <1>3, <1>4 DEF RunInv, OnePlace, OnlySent, AllSent, FeederFits, EndsInOrder, Closed, Stored,
                  Queued, Awaiting, InBatch, Kept
  <1> QED BY <1>2, <1>5

(* The writer takes the next item into its batch.                            *)
LEMMA CollectStep ==
  ASSUME PipeTypes, NEW p \in Runs, RunInv(p), Collect(p)
  PROVE  PipeTypes' /\ RunInv(p)'
  <1> DEFINE q == doneQ[p]
             n == IF Len(q) < MaxBatch THEN Len(q) ELSE MaxBatch
             u == SubSeq(q, 1, n)
             v == SubSeq(q, Len(u) + 1, Len(q))
  <1>1. /\ stage[p] = "running" /\ inWrite[p] = <<>> /\ doneQ' = [doneQ EXCEPT ![p] = v]
        /\ \/ failedRun[p] /\ UNCHANGED inWrite
           \/ ~failedRun[p] /\ inWrite' = [inWrite EXCEPT ![p] = u]
        /\ UNCHANGED <<feeder, workQ, hand, wrote, failedRun, stage, capacity>>
    BY DEF Collect, Writing, Taken
  <1>2. q \in Seq(Nat) /\ Len(q) \in Nat /\ IsInjective(q)
    BY LenProperties DEF PipeTypes, RunInv, OnePlace
  <1>3. n \in 0 .. Len(q)
    BY <1>2, PipelineAssumption
  <1>4. /\ u \in Seq(Nat) /\ v \in Seq(Nat) /\ IsInjective(u) /\ IsInjective(v)
        /\ ToSet(u) \cap ToSet(v) = {} /\ ToSet(u) \cup ToSet(v) = ToSet(q)
    <2> HIDE DEF n, q
    <2> QED BY <1>2, <1>3, InjectiveCut
  <1>5. doneQ[p] = q
    OBVIOUS
  <1> HIDE DEF u, v, n, q
  <1>6. PipeTypes'
    BY ZenonT(30), <1>1, <1>4 DEF PipeTypes
  <1>7. doneQ'[p] = v /\ ((failedRun[p] /\ inWrite'[p] = <<>>) \/ (~failedRun[p] /\ inWrite'[p] = u))
    <2>1. doneQ'[p] = v
      BY <1>1 DEF PipeTypes
    <2>2. CASE failedRun[p]
      <3>1. inWrite' = inWrite /\ inWrite[p] = <<>>
        BY <1>1, <2>2
      <3>2. inWrite'[p] = <<>>
        BY <3>1
      <3> QED BY <2>1, <2>2, <3>2
    <2>3. CASE ~failedRun[p]
      <3>1. inWrite' = [inWrite EXCEPT ![p] = u] /\ DOMAIN inWrite = Runs
        BY <1>1, <2>3 DEF PipeTypes
      <3> QED BY <2>1, <2>3, <3>1
    <2> QED BY <2>2, <2>3
  <1>8. /\ Queued(p)' = Queued(p) /\ Kept(p)' = Kept(p) /\ InBatch(p) = {} /\ Awaiting(p) = ToSet(q)
        /\ Awaiting(p)' = ToSet(v)
        /\ \/ failedRun[p] /\ InBatch(p)' = {}
           \/ ~failedRun[p] /\ InBatch(p)' = ToSet(u)
    BY <1>1, <1>5, <1>7, NoItems DEF Queued, Awaiting, InBatch, Kept
  <1>9. Stored(p)' \subseteq Stored(p) /\ (~failedRun[p] => Stored(p)' = Stored(p))
    BY <1>4, <1>8 DEF Stored
  <1>10. OnePlace(p)'
    <2>1. IsInjective(workQ'[p]) /\ IsInjective(doneQ'[p]) /\ IsInjective(inWrite'[p]) /\ IsInjective(wrote'[p])
      BY <1>1, <1>4, <1>7, NoItems DEF RunInv, OnePlace
    <2>2. /\ Queued(p)' \cap (Awaiting(p)' \cup InBatch(p)' \cup Kept(p)') = {}
          /\ Awaiting(p)' \cap (InBatch(p)' \cup Kept(p)') = {} /\ InBatch(p)' \cap Kept(p)' = {}
      BY <1>4, <1>8 DEF RunInv, OnePlace
    <2>3. /\ \A x \in Hands : Holds(p, x)' => hand'[p][x].item \notin Stored(p)'
          /\ \A x, y \in Hands : Holds(p, x)' /\ Holds(p, y)' /\ hand'[p][x].item = hand'[p][y].item => x = y
      BY <1>1, <1>9 DEF RunInv, OnePlace, Holds
    <2> QED BY <2>1, <2>2, <2>3 DEF OnePlace
  <1>11. OnlySent(p)' /\ AllSent(p)'
    BY <1>1, <1>9 DEF RunInv, OnlySent, AllSent, Holds
  <1>12. FeederFits(p)' /\ EndsInOrder(p)'
    BY <1>1 DEF RunInv, FeederFits, EndsInOrder, Closed
  <1> QED BY <1>6, <1>10, <1>11, <1>12 DEF RunInv

(* The writer commits its batch.                                             *)
LEMMA WriteStep ==
  ASSUME PipeTypes, NEW p \in Runs, RunInv(p), WriteBatch(p)
  PROVE  PipeTypes' /\ RunInv(p)'
  <1>1. /\ inWrite[p] # <<>> /\ inWrite' = [inWrite EXCEPT ![p] = <<>>]
        /\ \/ wrote' = [wrote EXCEPT ![p] = @ \o inWrite[p]] /\ UNCHANGED failedRun
           \/ failedRun' = [failedRun EXCEPT ![p] = TRUE] /\ UNCHANGED wrote
        /\ UNCHANGED <<feeder, workQ, doneQ, hand, stage, capacity>>
    BY DEF WriteBatch
  <1>2. /\ wrote[p] \in Seq(Nat) /\ inWrite[p] \in Seq(Nat) /\ IsInjective(wrote[p]) /\ IsInjective(inWrite[p])
        /\ ToSet(wrote[p]) \cap ToSet(inWrite[p]) = {}
    BY DEF PipeTypes, RunInv, OnePlace, InBatch, Kept
  <1> DEFINE c == wrote[p] \o inWrite[p]
  <1>3. c \in Seq(Nat) /\ IsInjective(c) /\ ToSet(c) = ToSet(wrote[p]) \cup ToSet(inWrite[p])
    BY <1>2, ToSetConcat, InjectiveConcat
  <1>4. \/ wrote' = [wrote EXCEPT ![p] = c] /\ UNCHANGED failedRun
        \/ failedRun' = [failedRun EXCEPT ![p] = TRUE] /\ UNCHANGED wrote
    BY <1>1
  <1> HIDE DEF c
  <1>5. PipeTypes'
    <2>1. inWrite' \in [Runs -> Seq(Nat)]
      BY <1>1 DEF PipeTypes
    <2>2. wrote' \in [Runs -> Seq(Nat)]
      BY <1>3, <1>4 DEF PipeTypes
    <2>3. failedRun' \in [Runs -> BOOLEAN]
      BY <1>4 DEF PipeTypes
    <2> QED BY <1>1, <2>1, <2>2, <2>3 DEF PipeTypes
  <1>6. inWrite'[p] = <<>> /\ (\/ wrote'[p] = c /\ failedRun'[p] = failedRun[p]
                               \/ failedRun'[p] = TRUE /\ wrote'[p] = wrote[p])
    BY <1>1, <1>4 DEF PipeTypes
  <1>7. /\ Queued(p)' = Queued(p) /\ Awaiting(p)' = Awaiting(p) /\ InBatch(p)' = {}
        /\ \/ Kept(p)' = Kept(p) \cup InBatch(p) /\ failedRun'[p] = failedRun[p]
           \/ Kept(p)' = Kept(p) /\ failedRun'[p] = TRUE
    BY <1>1, <1>3, <1>6, NoItems DEF Queued, Awaiting, InBatch, Kept
  <1>8. Stored(p)' \subseteq Stored(p) /\ (~failedRun'[p] => Stored(p)' = Stored(p) /\ ~failedRun[p])
    BY <1>7 DEF Stored
  <1>9. OnePlace(p)'
    <2>1. IsInjective(workQ'[p]) /\ IsInjective(doneQ'[p]) /\ IsInjective(inWrite'[p]) /\ IsInjective(wrote'[p])
      BY <1>1, <1>3, <1>6, NoItems DEF RunInv, OnePlace
    <2>2. /\ Queued(p)' \cap (Awaiting(p)' \cup InBatch(p)' \cup Kept(p)') = {}
          /\ Awaiting(p)' \cap (InBatch(p)' \cup Kept(p)') = {} /\ InBatch(p)' \cap Kept(p)' = {}
      BY <1>7 DEF RunInv, OnePlace
    <2>3. /\ \A x \in Hands : Holds(p, x)' => hand'[p][x].item \notin Stored(p)'
          /\ \A x, y \in Hands : Holds(p, x)' /\ Holds(p, y)' /\ hand'[p][x].item = hand'[p][y].item => x = y
      BY <1>1, <1>8 DEF RunInv, OnePlace, Holds
    <2> QED BY <2>1, <2>2, <2>3 DEF OnePlace
  <1>10. OnlySent(p)' /\ AllSent(p)'
    BY <1>1, <1>8 DEF RunInv, OnlySent, AllSent, Holds
  <1>11. FeederFits(p)'
    BY <1>1, <1>8 DEF RunInv, FeederFits
  <1>12. EndsInOrder(p)'
    BY <1>1 DEF RunInv, EndsInOrder, Closed
  <1> QED BY <1>5, <1>9, <1>10, <1>11, <1>12 DEF RunInv

(* The stages after the writer leave every item where it is.                 *)
LEMMA StageStep ==
  ASSUME PipeTypes, NEW p \in Runs, RunInv(p),
         CloseRun(p) \/ GetModel(p) \/ GetModelCpu(p) \/ ModelDone(p)
  PROVE  PipeTypes' /\ RunInv(p)'
  <1>1. PICK s \in {"ended", "embed", "cpu", "model"} :
           /\ stage' = [stage EXCEPT ![p] = s]
           /\ UNCHANGED <<feeder, workQ, doneQ, inWrite, wrote, hand, failedRun, capacity>>
           /\ \/ /\ inWrite[p] = <<>> /\ doneQ[p] = <<>>
                 /\ \A w \in Hands : hand[p][w].step = "gone"
              \/ stage[p] \in {"embed", "cpu", "model"}
           /\ s # "ended" => ~failedRun[p]
    <2> USE DEF RunInv, EndsInOrder
    <2>1. CASE CloseRun(p)
      BY <2>1 DEF CloseRun
    <2>2. CASE GetModel(p)
      BY <2>2 DEF GetModel
    <2>3. CASE GetModelCpu(p)
      BY <2>3 DEF GetModelCpu
    <2>4. CASE ModelDone(p)
      BY <2>4 DEF ModelDone
    <2> QED BY <2>1, <2>2, <2>3, <2>4
  <1>2. PipeTypes'
    BY <1>1 DEF PipeTypes
  <1>3. EndsInOrder(p)'
    BY <1>1 DEF RunInv, EndsInOrder, Closed
  <1>4. OnePlace(p)' /\ OnlySent(p)' /\ AllSent(p)' /\ FeederFits(p)'
    BY <1>1 DEF RunInv, OnePlace, OnlySent, AllSent, FeederFits, Holds, Stored, Queued, Awaiting, InBatch, Kept
  <1> QED BY <1>2, <1>3, <1>4 DEF RunInv

(* Every step of the feeder, a worker, the writer and the later stages keeps *)
(* the inductive invariant.                                                  *)
LEMMA PipeStep == ASSUME PipeInv, [PipeNext]_pipeVars PROVE PipeInv'
  <1>1. ASSUME NEW p \in Runs, RunStep(p) PROVE PipeInv'
    <2>1. PipeTypes' /\ RunInv(p)'
      BY <1>1, FeederStep, FeedSendStep, TakeStep, PermitStep, SendStep, LeaveStep, CollectStep, WriteStep,
         StageStep DEF RunStep, PipeInv
    <2>2. ASSUME NEW q \in Runs, q # p PROVE RunInv(q)'
      BY <1>1, <2>2, OthersSame, SameStays DEF PipeInv
    <2> QED BY <2>1, <2>2 DEF PipeInv
  <1>2. ASSUME \/ \E l \in Capacities : SetLimits(l)
               \/ UNCHANGED pipeVars
        PROVE PipeInv'
    <2>1. PipeTypes'
      BY <1>2, PipelineAssumption DEF SetLimits, PipeInv, PipeTypes, pipeVars
    <2>2. \A p \in Runs : Same(p)
      BY <1>2 DEF SetLimits, Same, pipeVars
    <2>3. ASSUME NEW p \in Runs PROVE RunInv(p)'
      BY <2>2, SameStays DEF PipeInv
    <2> QED BY <2>1, <2>3 DEF PipeInv
  <1> QED BY <1>1, <1>2 DEF PipeNext

(* Where every item is in one place, what is written is written once, and    *)
(* all of it at the end.                                                     *)
LEMMA PlacedOnce == PipeInv => CommittedOnce
  <1> SUFFICES ASSUME PipeInv, NEW p \in Runs
               PROVE  /\ IsInjective(wrote[p])
                      /\ stage[p] \in {"embed", "cpu", "model"} \/ (stage[p] = "ended" /\ ~failedRun[p])
                            => ToSet(wrote[p]) = Items(p)
    BY DEF CommittedOnce
  <1>1. RunInv(p)
    BY DEF PipeInv
  <1>2. IsInjective(wrote[p])
    BY <1>1 DEF RunInv, OnePlace
  <1>3. ASSUME stage[p] \in {"embed", "cpu", "model"} \/ (stage[p] = "ended" /\ ~failedRun[p])
        PROVE  ToSet(wrote[p]) = Items(p)
    <2>1. /\ doneQ[p] = <<>> /\ inWrite[p] = <<>> /\ ~failedRun[p]
          /\ \A w \in Hands : hand[p][w].step = "gone" /\ Closed(p)
      BY <1>1, <1>3 DEF RunInv, EndsInOrder
    <2>2. workQ[p] = <<>> /\ feeder[p].step = "done"
      BY <2>1, PipelineAssumption DEF Closed
    <2>3. feeder[p].item - 1 = Len(Sizes[p])
      BY <1>1, <2>1, <2>2, SizesFit DEF RunInv, FeederFits, Items
    <2>4. Stored(p) = Kept(p)
      BY <2>1, <2>2, NoItems DEF Stored, Queued, Awaiting, InBatch
    <2>5. Items(p) \subseteq Kept(p)
      BY <1>1, <2>1, <2>3, <2>4 DEF RunInv, AllSent, Holds, Items
    <2>6. Kept(p) \subseteq Items(p)
      BY <1>1, <2>3, <2>4 DEF RunInv, OnlySent, Items
    <2> QED BY <2>5, <2>6 DEF Kept
  <1> QED BY <1>2, <1>3

(* Every reachable state of the pipelines satisfies the inductive invariant: *)
(* every item is in exactly one place.                                       *)
THEOREM PipelineInvariant == PipeSpec => []PipeInv
  BY PipeStarts, PipeStep, PTL DEF PipeSpec

(* A source that ends well has committed each of its items once              *)
(* (executor.rs, coordinator.rs:430-560).                                    *)
THEOREM ItemsCommittedOnce == PipeSpec => []CommittedOnce
  BY PipelineInvariant, PlacedOnce, PTL

-----------------------------------------------------------------------------
(* Sums over finite sets.  The library defines a sum by recursion; what it   *)
(* amounts to is shown here with a smallest set for which it would fail.     *)

(* Of some finite sets, one is not larger than any that it contains.         *)
LEMMA SmallestSet ==
  ASSUME NEW C, C # {}, \A s \in C : IsFiniteSet(s)
  PROVE  \E s \in C : \A t \in C : t \subseteq s => t = s
  <1> DEFINE Less == {x \in Nat \X Nat : x[1] < x[2]}
             Sizes0 == {Cardinality(s) : s \in C}
  <1>1. IsWellFoundedOn(Less, Nat)
    BY NatLessThanWellFounded DEF OpToRel
  <1>2. Sizes0 \subseteq Nat /\ Sizes0 # {}
    BY FS_CardinalityType
  <1>3. PICK n \in Sizes0 : \A k \in Sizes0 : <<k, n>> \notin Less
    <2> HIDE DEF Less, Sizes0
    <2> QED BY <1>1, <1>2, WFMin
  <1>4. PICK s \in C : n = Cardinality(s)
    OBVIOUS
  <1>5. ASSUME NEW t \in C, t \subseteq s PROVE t = s
    <2>1. Cardinality(t) <= Cardinality(s) /\ (Cardinality(s) = Cardinality(t) => s = t)
      BY <1>5, FS_Subset
    <2>2. Cardinality(t) \in Sizes0 /\ Cardinality(t) \in Nat /\ n \in Nat
      BY <1>2
    <2>3. ~(Cardinality(t) < n)
      BY <1>3, <2>2
    <2> QED BY <1>4, <2>1, <2>2, <2>3
  <1> QED BY <1>5

\* g sums f over the subsets of S, in the order that CHOOSE gives.
Sums(f, S, g) ==
    g = [s \in SUBSET S |-> IF s = {} THEN 0
                            ELSE f[CHOOSE x \in s : TRUE] + g[s \ {CHOOSE x \in s : TRUE}]]

(* Where two functions agree, so do their sums.                              *)
LEMMA SumsAgree ==
  ASSUME NEW f, NEW g, NEW S, NEW T, NEW a, NEW b, Sums(f, S, a), Sums(g, T, b),
         NEW U, U \subseteq S, U \subseteq T, IsFiniteSet(U), \A x \in U : f[x] = g[x]
  PROVE  a[U] = b[U]
  <1> DEFINE C == {s \in SUBSET U : a[s] # b[s]}
  <1> SUFFICES ASSUME C # {} PROVE FALSE
    OBVIOUS
  <1>1. PICK s \in C : \A t \in C : t \subseteq s => t = s
    <2>1. \A t \in C : IsFiniteSet(t)
      BY FS_Subset
    <2> HIDE DEF C
    <2> QED BY <2>1, SmallestSet
  <1>2. a[s] = IF s = {} THEN 0 ELSE f[CHOOSE x \in s : TRUE] + a[s \ {CHOOSE x \in s : TRUE}]
    BY DEF Sums
  <1>3. b[s] = IF s = {} THEN 0 ELSE g[CHOOSE x \in s : TRUE] + b[s \ {CHOOSE x \in s : TRUE}]
    BY DEF Sums
  <1>4. CASE s = {}
    BY <1>2, <1>3, <1>4
  <1>5. CASE s # {}
    <2> DEFINE x == CHOOSE x \in s : TRUE
    <2>1. x \in s
      BY <1>5
    <2> HIDE DEF x
    <2>2. s \ {x} \subseteq s /\ s \ {x} # s /\ s \ {x} \in SUBSET U
      BY <2>1
    <2>3. a[s \ {x}] = b[s \ {x}]
      BY <1>1, <2>2
    <2>4. f[x] = g[x]
      BY <2>1
    <2> QED BY <1>2, <1>3, <1>5, <2>3, <2>4 DEF x
  <1> QED BY <1>4, <1>5

(* Every function can be summed over a finite set.                           *)
LEMMA SumsExist ==
  ASSUME NEW f, NEW S, IsFiniteSet(S)
  PROVE  \E g : Sums(f, S, g)
  <1> DEFINE C == {s \in SUBSET S : ~\E g : Sums(f, s, g)}
  <1> SUFFICES ASSUME C # {} PROVE FALSE
    OBVIOUS
  <1>1. PICK s \in C : \A t \in C : t \subseteq s => t = s
    <2>1. \A t \in C : IsFiniteSet(t)
      BY FS_Subset
    <2> HIDE DEF C
    <2> QED BY <2>1, SmallestSet
  <1> DEFINE G(t) == CHOOSE g : Sums(f, t, g)
             pick(t) == CHOOSE x \in t : TRUE
             sum == [t \in SUBSET s |-> IF t = {} THEN 0 ELSE f[pick(t)] + G(t \ {pick(t)})[t \ {pick(t)}]]
  <1>2. ASSUME NEW t \in SUBSET s, t # s PROVE Sums(f, t, G(t))
    <2>1. t \notin C
      BY <1>1, <1>2
    <2>2. \E g : Sums(f, t, g)
      BY <2>1
    <2> QED BY <2>2
  <1>3. ASSUME NEW t \in SUBSET s, t # {} PROVE pick(t) \in t /\ t \ {pick(t)} \in SUBSET s /\ t \ {pick(t)} # s
    BY <1>3
  <1>4. ASSUME NEW t \in SUBSET s, t # {} PROVE sum[t \ {pick(t)}] = G(t \ {pick(t)})[t \ {pick(t)}]
    <2> DEFINE u == t \ {pick(t)}
               v == u \ {pick(u)}
    <2>1. u \in SUBSET s /\ u # s
      BY <1>3, <1>4
    <2>2. Sums(f, u, G(u))
      BY <1>2, <2>1
    <2>3. G(u)[u] = IF u = {} THEN 0 ELSE f[pick(u)] + G(u)[v]
      <3> HIDE DEF G, u
      <3> QED BY <2>2 DEF Sums
    <2>4. sum[u] = IF u = {} THEN 0 ELSE f[pick(u)] + G(v)[v]
      <3> HIDE DEF u, G
      <3> QED BY <2>1
    <2>5. ASSUME u # {} PROVE G(u)[v] = G(v)[v]
      <3>1. pick(u) \in u /\ v \in SUBSET s /\ v # s
        BY <1>3, <2>1, <2>5
      <3>2. Sums(f, v, G(v))
        BY <1>2, <3>1
      <3>3. IsFiniteSet(v) /\ v \subseteq u
        <4>1. IsFiniteSet(s)
          BY FS_Subset
        <4> QED BY <3>1, <4>1, FS_Subset
      <3> HIDE DEF u, v, G
      <3> QED BY <2>2, <3>2, <3>3, SumsAgree
    <2> HIDE DEF G, u, v, sum, pick
    <2>6. sum[u] = G(u)[u]
      BY <2>3, <2>4, <2>5
    <2> QED BY <2>6 DEF u
  <1>5. Sums(f, s, sum)
    <2>1. \A t \in SUBSET s : t # {} => sum[t \ {pick(t)}] = G(t \ {pick(t)})[t \ {pick(t)}]
      BY <1>4
    <2>2. sum = [t \in SUBSET s |-> IF t = {} THEN 0 ELSE f[pick(t)] + sum[t \ {pick(t)}]]
      <3> HIDE DEF G, pick
      <3> QED BY <2>1
    <2> HIDE DEF sum, G
    <2> QED BY <2>2 DEF Sums
  <1> QED BY <1>5

(* What the library's sum is.                                                *)
LEMMA SumIs ==
  ASSUME NEW f, NEW S, IsFiniteSet(S)
  PROVE  \E g : Sums(f, S, g) /\ SumFunctionOnSet(f, S) = g[S]
  <1> DEFINE it == CHOOSE g : g = [s \in SUBSET S |-> IF s = {} THEN 0
                            ELSE f[CHOOSE x \in s : TRUE] + g[s \ {CHOOSE x \in s : TRUE}]]
  <1>1. \E g : g = [s \in SUBSET S |-> IF s = {} THEN 0
                            ELSE f[CHOOSE x \in s : TRUE] + g[s \ {CHOOSE x \in s : TRUE}]]
    <2>1. PICK g : Sums(f, S, g)
      BY SumsExist
    <2> QED BY <2>1 DEF Sums
  <1>2. Sums(f, S, it)
    BY <1>1 DEF Sums
  <1>3. SumFunctionOnSet(f, S) = it[S]
    BY DEF SumFunctionOnSet, FoldFunctionOnSet, MapThenFoldSet
  <1> QED BY <1>2, <1>3

(* Whichever member is taken first, the sum is the same.                     *)
LEMMA SumsTake ==
  ASSUME NEW f, NEW S, IsFiniteSet(S), \A x \in S : f[x] \in Int, NEW g, Sums(f, S, g)
  PROVE  \A s \in SUBSET S : g[s] \in Int /\ \A x \in s : g[s] = f[x] + g[s \ {x}]
  <1> DEFINE Right(s) == g[s] \in Int /\ \A x \in s : g[s] = f[x] + g[s \ {x}]
             C == {s \in SUBSET S : ~Right(s)}
  <1> SUFFICES ASSUME C # {} PROVE FALSE
    OBVIOUS
  <1>1. PICK s \in C : \A t \in C : t \subseteq s => t = s
    <2>1. \A t \in C : IsFiniteSet(t)
      BY FS_Subset
    <2> HIDE DEF C
    <2> QED BY <2>1, SmallestSet
  <1>2. ASSUME NEW t \in SUBSET s, t # s PROVE Right(t)
    BY <1>1, <1>2
  <1>3. s # {}
    <2>1. g[{}] = 0
      BY DEF Sums
    <2> QED BY <2>1
  <1> DEFINE y == CHOOSE x \in s : TRUE
  <1>4. y \in s
    BY <1>3
  <1>5. g[s] = f[y] + g[s \ {y}]
    BY <1>3 DEF Sums
  <1> HIDE DEF y
  <1>6. g[s] \in Int
    <2>1. Right(s \ {y})
      BY <1>2, <1>4
    <2> QED BY <1>4, <1>5, <2>1
  <1>7. ASSUME NEW x \in s, x # y PROVE g[s] = f[x] + g[s \ {x}]
    <2> DEFINE r == (s \ {y}) \ {x}
    <2>1. Right(s \ {y}) /\ Right(s \ {x})
      BY <1>2, <1>4
    <2>2. g[s \ {y}] = f[x] + g[r]
      BY <1>7, <2>1
    <2>3. r = (s \ {x}) \ {y}
      OBVIOUS
    <2>4. g[s \ {x}] = f[y] + g[r]
      BY <1>4, <1>7, <2>1, <2>3
    <2>5. Right(r)
      <3>1. r \in SUBSET s /\ r # s
        BY <1>4
      <3> QED BY <1>2, <3>1
    <2>6. f[x] \in Int /\ f[y] \in Int /\ g[r] \in Int
      BY <1>4, <2>5
    <2> QED BY <1>5, <2>2, <2>4, <2>6
  <1> QED BY <1>5, <1>6, <1>7

(* The sum of a set is that of one of its members and of the others.         *)
LEMMA SumTake ==
  ASSUME NEW f, NEW S, IsFiniteSet(S), \A x \in S : f[x] \in Int
  PROVE  /\ SumFunctionOnSet(f, S) \in Int
         /\ \A x \in S : SumFunctionOnSet(f, S) = f[x] + SumFunctionOnSet(f, S \ {x})
  <1>1. PICK g : Sums(f, S, g) /\ SumFunctionOnSet(f, S) = g[S]
    BY SumIs
  <1>2. g[S] \in Int /\ \A x \in S : g[S] = f[x] + g[S \ {x}]
    BY <1>1, SumsTake
  <1>3. ASSUME NEW x \in S PROVE SumFunctionOnSet(f, S \ {x}) = g[S \ {x}]
    <2>1. IsFiniteSet(S \ {x})
      BY FS_RemoveElement
    <2>2. PICK h : Sums(f, S \ {x}, h) /\ SumFunctionOnSet(f, S \ {x}) = h[S \ {x}]
      BY <2>1, SumIs
    <2>3. S \ {x} \subseteq S
      OBVIOUS
    <2> QED BY <1>1, <2>1, <2>2, <2>3, SumsAgree
  <1> QED BY <1>1, <1>2, <1>3

(* The sum of nothing.                                                       *)
LEMMA SumNothing == ASSUME NEW f PROVE SumFunctionOnSet(f, {}) = 0
  <1>1. PICK g : Sums(f, {}, g) /\ SumFunctionOnSet(f, {}) = g[{}]
    BY SumIs, FS_EmptySet
  <1> QED BY <1>1 DEF Sums

(* Functions that agree on a set have the same sum.                          *)
LEMMA SumSame ==
  ASSUME NEW f, NEW g, NEW S, IsFiniteSet(S), \A x \in S : f[x] = g[x]
  PROVE  SumFunctionOnSet(f, S) = SumFunctionOnSet(g, S)
  <1>1. PICK a : Sums(f, S, a) /\ SumFunctionOnSet(f, S) = a[S]
    BY SumIs
  <1>2. PICK b : Sums(g, S, b) /\ SumFunctionOnSet(g, S) = b[S]
    BY SumIs
  <1> QED BY <1>1, <1>2, SumsAgree

(* A sum of numbers that are not negative is not negative.                   *)
LEMMA SumNat ==
  ASSUME NEW f, NEW S, IsFiniteSet(S), \A x \in S : f[x] \in Nat
  PROVE  SumFunctionOnSet(f, S) \in Nat
  <1> DEFINE C == {s \in SUBSET S : SumFunctionOnSet(f, s) \notin Nat}
  <1> SUFFICES ASSUME C # {} PROVE FALSE
    OBVIOUS
  <1>1. PICK s \in C : \A t \in C : t \subseteq s => t = s
    <2>1. \A t \in C : IsFiniteSet(t)
      BY FS_Subset
    <2> HIDE DEF C
    <2> QED BY <2>1, SmallestSet
  <1>2. PICK x \in s : TRUE
    BY SumNothing
  <1>3. SumFunctionOnSet(f, s \ {x}) \in Nat
    BY <1>1
  <1>4. IsFiniteSet(s) /\ \A y \in s : f[y] \in Int
    BY FS_Subset
  <1>5. SumFunctionOnSet(f, s) = f[x] + SumFunctionOnSet(f, s \ {x})
    BY <1>4, SumTake
  <1> QED BY <1>3, <1>5

(* The sum of zeros.                                                         *)
LEMMA SumZero ==
  ASSUME NEW f, NEW S, IsFiniteSet(S), \A x \in S : f[x] = 0
  PROVE  SumFunctionOnSet(f, S) = 0
  <1> DEFINE C == {s \in SUBSET S : SumFunctionOnSet(f, s) # 0}
  <1> SUFFICES ASSUME C # {} PROVE FALSE
    OBVIOUS
  <1>1. PICK s \in C : \A t \in C : t \subseteq s => t = s
    <2>1. \A t \in C : IsFiniteSet(t)
      BY FS_Subset
    <2> HIDE DEF C
    <2> QED BY <2>1, SmallestSet
  <1>2. PICK x \in s : TRUE
    BY SumNothing
  <1>3. SumFunctionOnSet(f, s \ {x}) = 0
    BY <1>1
  <1>4. IsFiniteSet(s) /\ \A y \in s : f[y] \in Int
    BY FS_Subset
  <1>5. SumFunctionOnSet(f, s) = f[x] + SumFunctionOnSet(f, s \ {x})
    BY <1>4, SumTake
  <1> QED BY <1>3, <1>5

(* A set that is split sums to its parts.                                    *)
LEMMA SumSplit ==
  ASSUME NEW f, NEW S, IsFiniteSet(S), \A x \in S : f[x] \in Int, NEW D \in SUBSET S
  PROVE  SumFunctionOnSet(f, S) = SumFunctionOnSet(f, D) + SumFunctionOnSet(f, S \ D)
  <1> DEFINE Sum(s) == SumFunctionOnSet(f, s)
             C == {s \in SUBSET S : Sum(S) # Sum(s) + Sum(S \ s)}
  <1> SUFFICES ASSUME C # {} PROVE FALSE
    OBVIOUS
  <1>1. PICK s \in C : \A t \in C : t \subseteq s => t = s
    <2>1. \A t \in C : IsFiniteSet(t)
      BY FS_Subset
    <2> HIDE DEF C
    <2> QED BY <2>1, SmallestSet
  <1>2. \A t \in SUBSET S : IsFiniteSet(t) /\ Sum(t) \in Int /\ \A x \in t : Sum(t) = f[x] + Sum(t \ {x})
    BY FS_Subset, SumTake
  <1>3. s # {}
    <2>1. S \ {} = S
      OBVIOUS
    <2>2. Sum(S) \in Int
      BY <1>2
    <2> QED BY <2>1, <2>2, SumNothing
  <1>4. PICK x \in s : TRUE
    BY <1>3
  <1>5. Sum(S) = Sum(s \ {x}) + Sum(S \ (s \ {x}))
    BY <1>1, <1>4
  <1>6. Sum(s) = f[x] + Sum(s \ {x})
    BY <1>2
  <1>7. (S \ (s \ {x})) \ {x} = S \ s /\ x \in S \ (s \ {x})
    OBVIOUS
  <1>8. Sum(S \ (s \ {x})) = f[x] + Sum(S \ s)
    BY <1>2, <1>7
  <1>9. f[x] \in Int /\ Sum(s \ {x}) \in Int /\ Sum(S \ s) \in Int
    BY <1>2
  <1>10. Sum(S) = Sum(s) + Sum(S \ s)
    <2> HIDE DEF Sum
    <2> QED BY <1>5, <1>6, <1>8, <1>9
  <1> QED BY <1>1, <1>10

(* What is set to zero is taken off the sum.                                 *)
LEMMA SumDrop ==
  ASSUME NEW f, NEW g, NEW S, IsFiniteSet(S), \A x \in S : f[x] \in Int, NEW D \in SUBSET S,
         \A x \in S : g[x] = IF x \in D THEN 0 ELSE f[x]
  PROVE  SumFunctionOnSet(g, S) = SumFunctionOnSet(f, S) - SumFunctionOnSet(f, D)
  <1>1. IsFiniteSet(D) /\ IsFiniteSet(S \ D) /\ S \ D \in SUBSET S
    BY FS_Subset
  <1>2. \A x \in S : g[x] \in Int
    OBVIOUS
  <1>3. SumFunctionOnSet(g, S) = SumFunctionOnSet(g, D) + SumFunctionOnSet(g, S \ D)
    BY <1>2, SumSplit
  <1>4. SumFunctionOnSet(f, S) = SumFunctionOnSet(f, D) + SumFunctionOnSet(f, S \ D)
    BY SumSplit
  <1>5. SumFunctionOnSet(g, S \ D) = SumFunctionOnSet(f, S \ D)
    BY <1>1, SumSame
  <1>6. SumFunctionOnSet(g, D) = 0
    BY <1>1, SumZero
  <1>7. SumFunctionOnSet(f, D) \in Int /\ SumFunctionOnSet(f, S \ D) \in Int
    BY <1>1, SumTake
  <1> QED BY <1>3, <1>4, <1>5, <1>6, <1>7

(* A function changed at one place changes its sum by as much.               *)
LEMMA SumChange ==
  ASSUME NEW f, NEW g, NEW S, IsFiniteSet(S), \A x \in S : f[x] \in Int, NEW c \in S, g[c] \in Int,
         \A x \in S \ {c} : g[x] = f[x]
  PROVE  SumFunctionOnSet(g, S) = SumFunctionOnSet(f, S) - f[c] + g[c]
  <1>1. IsFiniteSet(S \ {c}) /\ \A x \in S : g[x] \in Int
    BY FS_RemoveElement
  <1>2. SumFunctionOnSet(g, S \ {c}) = SumFunctionOnSet(f, S \ {c})
    BY <1>1, SumSame
  <1>3. SumFunctionOnSet(f, S) = f[c] + SumFunctionOnSet(f, S \ {c})
    BY SumTake
  <1>4. SumFunctionOnSet(g, S) = g[c] + SumFunctionOnSet(g, S \ {c})
    BY <1>1, SumTake
  <1>5. SumFunctionOnSet(f, S \ {c}) \in Int
    BY <1>1, SumTake
  <1> QED BY <1>2, <1>3, <1>4, <1>5

-----------------------------------------------------------------------------
(* The permits of the pipelines: what each pool counts as used is what the   *)
(* items, the workers and the sources hold, counted one by one.              *)

\* A worker that holds the processor, and one that holds an OCR permit.
CpuHand(p, w) == hand[p][w].step = "prepare"
OcrHand(p, w) == hand[p][w].step \in {"cpu", "prepare"} /\ <<p, hand[p][w].item>> \in Heavy
OcrHands == {x \in HandsIn({"cpu", "prepare"}) : <<x[1], hand[x[1]][x[2]].item>> \in Heavy}
Num(x, S) == IF x \in S THEN 1 ELSE 0
CpuUse(p, w) == IF CpuHand(p, w) THEN 1 ELSE 0
OcrUse(p, w) == IF OcrHand(p, w) THEN 1 ELSE 0

PermitTypes ==
    /\ inUse \in [PoolNames -> Int] /\ changes \in Nat
    /\ capacity \in [PoolNames -> Nat \ {0}]
    /\ DOMAIN budget = Runs /\ \A p \in Runs : budget[p] \in [Items(p) -> Nat]

\* Items that the feeder has not got a permit for have none, an OCR permit is
\* asked for by heavy items only, and what the feeder waits for it can get.
RunPermits(p) ==
    /\ \A i \in Items(p) : i > feeder[p].item \/ (i = feeder[p].item /\ feeder[p].step # "send")
                           => budget[p][i] = 0
    /\ \A w \in Hands : hand[p][w].step = "ocr" => <<p, hand[p][w].item>> \in Heavy
    /\ feeder[p].step = "wait" /\ changes = 0 => feeder[p].want <= capacity["bytes"]

PermitInv == PipeInv /\ PermitTypes /\ (\A p \in Runs : RunPermits(p)) /\ PermitsSafe

(* There are finitely many sources, items and workers.                       *)
LEMMA FewItems ==
  /\ IsFiniteSet(Runs) /\ IsFiniteSet(Runs \X Hands) /\ IsFiniteSet(AllItems)
  /\ \A p \in Runs : \A items \in SUBSET Items(p) : {p} \X items \subseteq AllItems
  <1>1. Len(Sizes) \in Nat
    BY PipelineAssumption, LenProperties
  <1>2. IsFiniteSet(Runs)
    BY <1>1, FS_Interval DEF Runs
  <1>3. IsFiniteSet(Runs \X Hands)
    BY <1>2, PipelineAssumption, FS_Product
  <1>4. ASSUME NEW p \in Runs PROVE IsFiniteSet({p} \X Items(p))
    <2>1. IsFiniteSet(Items(p))
      BY SizesFit, FS_Interval DEF Items
    <2> QED BY <2>1, FS_Singleton, FS_Product
  <1>5. IsFiniteSet({{p} \X Items(p) : p \in Runs})
    <2> DEFINE f == [p \in Runs |-> {p} \X Items(p)]
    <2>1. f \in Surjection(Runs, {{p} \X Items(p) : p \in Runs})
      BY DEF Surjection
    <2> QED BY <1>2, <2>1, FS_Surjection
  <1>6. IsFiniteSet(AllItems)
    BY <1>4, <1>5, FS_UNION DEF AllItems
  <1>7. ASSUME NEW p \in Runs, NEW items \in SUBSET Items(p) PROVE {p} \X items \subseteq AllItems
    BY <1>7 DEF AllItems
  <1> QED BY <1>2, <1>3, <1>6, <1>7

(* What items hold is a number, and that of some of them too.                *)
LEMMA BytesTyped ==
  ASSUME PermitTypes
  PROVE  /\ \A x \in AllItems : ItemBytes[x] \in Nat
         /\ \A p \in Runs : \A i \in Items(p) : <<p, i>> \in AllItems /\ ItemBytes[<<p, i>>] = budget[p][i]
  <1>1. ASSUME NEW x \in AllItems PROVE ItemBytes[x] \in Nat
    <2>1. PICK p \in Runs : x \in {p} \X Items(p)
      BY DEF AllItems
    <2>2. x[1] = p /\ x[2] \in Items(p)
      BY <2>1
    <2> QED BY <2>1, <2>2 DEF ItemBytes, PermitTypes
  <1>2. ASSUME NEW p \in Runs, NEW i \in Items(p) PROVE <<p, i>> \in AllItems /\ ItemBytes[<<p, i>>] = budget[p][i]
    <2>1. <<p, i>> \in AllItems
      BY DEF AllItems
    <2> QED BY <2>1 DEF ItemBytes
  <1> QED BY <1>1, <1>2

(* The permit of one more item.                                              *)
LEMMA BytesGranted ==
  ASSUME PermitTypes, NEW p \in Runs, NEW i \in Items(p), budget[p][i] = 0, NEW n \in Nat,
         budget' = [budget EXCEPT ![p][i] = n]
  PROVE  /\ HeldBytes' = HeldBytes + n
         /\ DOMAIN budget' = Runs /\ \A q \in Runs : budget'[q] \in [Items(q) -> Nat]
  <1>1. DOMAIN budget' = Runs /\ \A q \in Runs : budget'[q] \in [Items(q) -> Nat]
    BY DEF PermitTypes
  <1>2. ASSUME NEW x \in AllItems PROVE ItemBytes'[x] = IF x = <<p, i>> THEN n ELSE ItemBytes[x]
    <2>0. PICK q \in Runs : x \in {q} \X Items(q)
      BY DEF AllItems
    <2>1. PICK j \in Items(q) : x = <<q, j>>
      BY <2>0
    <2>2. ItemBytes'[x] = budget'[q][j] /\ ItemBytes[x] = budget[q][j]
      BY <2>1 DEF ItemBytes
    <2>3. budget'[q][j] = IF q = p /\ j = i THEN n ELSE budget[q][j]
      BY DEF PermitTypes
    <2> QED BY <2>1, <2>2, <2>3
  <1>3. /\ IsFiniteSet(AllItems) /\ \A x \in AllItems : ItemBytes[x] \in Int
        /\ <<p, i>> \in AllItems /\ ItemBytes[<<p, i>>] = 0
    BY BytesTyped, FewItems
  <1>4. SumFunctionOnSet(ItemBytes', AllItems) = SumFunctionOnSet(ItemBytes, AllItems) - 0 + n
    BY <1>2, <1>3, SumChange
  <1>5. SumFunctionOnSet(ItemBytes, AllItems) \in Int
    BY <1>3, SumTake
  <1> QED BY <1>1, <1>4, <1>5 DEF HeldBytes

(* The permits of items that are dropped.                                    *)
LEMMA BytesDropped ==
  ASSUME PermitTypes, NEW p \in Runs, NEW items \in SUBSET Items(p), DropItems(p, items)
  PROVE  /\ PermitTypes' \/ ~(UNCHANGED <<changes, capacity>>)
         /\ HeldBytes' - HeldBytes = inUse'["bytes"] - inUse["bytes"]
         /\ inUse'["bytes"] <= inUse["bytes"]
         /\ \A c \in PoolNames \ {"bytes"} : inUse'[c] = inUse[c]
         /\ \A q \in Runs : \A i \in Items(q) : budget'[q][i] = IF q = p /\ i \in items THEN 0 ELSE budget[q][i]
  <1>1. \A q \in Runs : \A i \in Items(q) : budget'[q][i] = IF q = p /\ i \in items THEN 0 ELSE budget[q][i]
    BY DEF DropItems, PermitTypes
  <1>2. DOMAIN budget' = Runs /\ \A q \in Runs : budget'[q] \in [Items(q) -> Nat]
    BY DEF DropItems, PermitTypes
  <1> DEFINE D == {p} \X items
             freed == SumFunctionOnSet(ItemBytes, D)
  <1>3. D \in SUBSET AllItems /\ IsFiniteSet(AllItems)
    BY FewItems
  <1>4. IsFiniteSet(D) /\ \A x \in AllItems : ItemBytes[x] \in Nat
    BY <1>3, FS_Subset, BytesTyped
  <1>5. freed \in Nat
    BY <1>3, <1>4, SumNat
  <1>6. inUse' = [inUse EXCEPT !["bytes"] = @ - freed]
    BY DEF DropItems
  <1>7. ASSUME NEW x \in AllItems PROVE ItemBytes'[x] = IF x \in D THEN 0 ELSE ItemBytes[x]
    <2>0. PICK q \in Runs : x \in {q} \X Items(q)
      BY DEF AllItems
    <2>1. PICK j \in Items(q) : x = <<q, j>>
      BY <2>0
    <2>2. ItemBytes'[x] = budget'[q][j] /\ ItemBytes[x] = budget[q][j]
      BY <2>1 DEF ItemBytes
    <2> QED BY <1>1, <2>1, <2>2
  <1>8. SumFunctionOnSet(ItemBytes', AllItems) = SumFunctionOnSet(ItemBytes, AllItems) - freed
    <2>1. \A x \in AllItems : ItemBytes[x] \in Int
      BY <1>4
    <2> HIDE DEF D
    <2> QED BY <1>3, <1>7, <2>1, SumDrop
  <1>9. SumFunctionOnSet(ItemBytes, AllItems) \in Int
    BY <1>3, <1>4, SumTake
  <1> HIDE DEF freed, D
  <1>10. /\ inUse' \in [PoolNames -> Int] /\ inUse["bytes"] \in Int /\ inUse'["bytes"] = inUse["bytes"] - freed
         /\ \A c \in PoolNames \ {"bytes"} : inUse'[c] = inUse[c]
    BY <1>5, <1>6 DEF PermitTypes, PoolNames
  <1>11. HeldBytes' = HeldBytes - freed /\ HeldBytes \in Int
    BY <1>8, <1>9 DEF HeldBytes
  <1>12. PermitTypes' \/ ~(UNCHANGED <<changes, capacity>>)
    BY <1>2, <1>10 DEF PermitTypes
  <1> QED BY <1>1, <1>5, <1>10, <1>11, <1>12

(* A set and what one more member adds to it.                                *)
LEMMA CountOne ==
  ASSUME NEW S, IsFiniteSet(S), NEW x
  PROVE  /\ Cardinality(S) = Cardinality(S \ {x}) + Num(x, S)
         /\ Cardinality(S \ {x}) \in Nat /\ Num(x, S) \in Nat
  <1>1. Cardinality(S \ {x}) = (IF x \in S THEN Cardinality(S) - 1 ELSE Cardinality(S))
    BY FS_RemoveElement
  <1>2. Cardinality(S) \in Nat /\ Cardinality(S \ {x}) \in Nat
    BY FS_RemoveElement, FS_CardinalityType
  <1>3. CASE x \in S
    <2>1. Num(x, S) = 1
      BY <1>3 DEF Num
    <2> QED BY <1>1, <1>2, <1>3, <2>1
  <1>4. CASE x \notin S
    <2>1. Num(x, S) = 0
      BY <1>4 DEF Num
    <2> QED BY <1>1, <1>2, <1>4, <2>1
  <1> QED BY <1>3, <1>4

(* Two sets that differ in one member at most.                               *)
LEMMA CountDiffers ==
  ASSUME NEW A, NEW B, IsFiniteSet(A), IsFiniteSet(B), NEW x, A \ {x} = B \ {x}
  PROVE  Cardinality(B) = Cardinality(A) - Num(x, A) + Num(x, B)
  <1> DEFINE a == Num(x, A)
             b == Num(x, B)
             n == Cardinality(A \ {x})
  <1>1. Cardinality(A) = n + a /\ n \in Nat /\ a \in Nat
    BY CountOne
  <1>2. Cardinality(B) = n + b /\ b \in Nat
    BY CountOne
  <1> HIDE DEF a, b, n
  <1>3. Cardinality(B) = Cardinality(A) - a + b
    BY <1>1, <1>2
  <1> QED BY <1>3 DEF a, b

(* The workers that hold permits, when one worker goes on.                   *)
LEMMA HandCount ==
  ASSUME PipeTypes, PipeTypes', NEW p \in Runs, NEW w \in Hands, NEW h,
         hand' = [hand EXCEPT ![p][w] = h]
  PROVE  /\ Cardinality(HandsIn({"prepare"}))' =
               Cardinality(HandsIn({"prepare"})) - CpuUse(p, w) + CpuUse(p, w)'
         /\ Cardinality(OcrHands)' = Cardinality(OcrHands) - OcrUse(p, w) + OcrUse(p, w)'
  <1> DEFINE R == Runs \X Hands
  <1>1. ASSUME NEW A \in SUBSET R, NEW B \in SUBSET R, A \ {<<p, w>>} = B \ {<<p, w>>}
        PROVE  Cardinality(B) = Cardinality(A) - Num(<<p, w>>, A) + Num(<<p, w>>, B)
    <2>1. IsFiniteSet(A) /\ IsFiniteSet(B)
      BY FewItems, FS_Subset
    <2> QED BY <1>1, <2>1, CountDiffers
  <1>2. \A q \in Runs, v \in Hands : <<q, v>> # <<p, w>> => hand'[q][v] = hand[q][v]
    BY DEF PipeTypes
  <1>3. /\ HandsIn({"prepare"}) \in SUBSET R /\ HandsIn({"prepare"})' \in SUBSET R
        /\ HandsIn({"prepare"}) \ {<<p, w>>} = HandsIn({"prepare"})' \ {<<p, w>>}
        /\ <<p, w>> \in HandsIn({"prepare"}) <=> CpuHand(p, w)
        /\ <<p, w>> \in HandsIn({"prepare"})' <=> CpuHand(p, w)'
    BY <1>2 DEF HandsIn, CpuHand
  <1>4. /\ OcrHands \in SUBSET R /\ OcrHands' \in SUBSET R
        /\ OcrHands \ {<<p, w>>} = OcrHands' \ {<<p, w>>}
        /\ <<p, w>> \in OcrHands <=> OcrHand(p, w)
        /\ <<p, w>> \in OcrHands' <=> OcrHand(p, w)'
    BY <1>2 DEF HandsIn, OcrHands, OcrHand
  <1>5. Num(<<p, w>>, HandsIn({"prepare"})) = CpuUse(p, w)
        /\ Num(<<p, w>>, HandsIn({"prepare"})') = CpuUse(p, w)'
        /\ Num(<<p, w>>, OcrHands) = OcrUse(p, w)
        /\ Num(<<p, w>>, OcrHands') = OcrUse(p, w)'
    BY <1>3, <1>4 DEF Num, CpuUse, OcrUse
  <1> QED BY <1>1, <1>3, <1>4, <1>5

(* The sources in some stages, when one source goes on.                      *)
LEMMA StageCount ==
  ASSUME PipeTypes, NEW p \in Runs, NEW s, stage' = [stage EXCEPT ![p] = s], NEW stages
  PROVE  Cardinality(StagesIn(stages))' =
               Cardinality(StagesIn(stages)) - Num(stage[p], stages) + Num(s, stages)
  <1> DEFINE A == StagesIn(stages)
             B == StagesIn(stages)'
  <1>1. /\ A \subseteq Runs /\ B \subseteq Runs /\ A \ {p} = B \ {p}
        /\ p \in A <=> stage[p] \in stages
        /\ p \in B <=> s \in stages
    BY DEF StagesIn, PipeTypes
  <1> HIDE DEF A, B
  <1>2. IsFiniteSet(A) /\ IsFiniteSet(B)
    BY <1>1, FewItems, FS_Subset
  <1>3. Num(p, A) = Num(stage[p], stages) /\ Num(p, B) = Num(s, stages)
    BY <1>1 DEF Num
  <1>4. Cardinality(B) = Cardinality(A) - Num(p, A) + Num(p, B)
    BY <1>1, <1>2, CountDiffers
  <1> QED BY <1>3, <1>4 DEF A, B

(* What is counted is a number.                                              *)
LEMMA CountsTyped ==
  /\ \A steps : Cardinality(HandsIn(steps)) \in Nat
  /\ Cardinality(OcrHands) \in Nat
  /\ \A stages : Cardinality(StagesIn(stages)) \in Nat
  <1>1. ASSUME NEW steps PROVE Cardinality(HandsIn(steps)) \in Nat
    <2>1. HandsIn(steps) \in SUBSET (Runs \X Hands)
      BY DEF HandsIn
    <2> QED BY <2>1, FewItems, FS_Subset, FS_CardinalityType
  <1>2. Cardinality(OcrHands) \in Nat
    <2>1. OcrHands \in SUBSET (Runs \X Hands)
      BY DEF HandsIn, OcrHands
    <2> QED BY <2>1, FewItems, FS_Subset, FS_CardinalityType
  <1>3. ASSUME NEW stages PROVE Cardinality(StagesIn(stages)) \in Nat
    <2>1. StagesIn(stages) \in SUBSET Runs
      BY DEF StagesIn
    <2> QED BY <2>1, FewItems, FS_Subset, FS_CardinalityType
  <1> QED BY <1>1, <1>2, <1>3

(* A worker goes on with the permits that it then needs.                     *)
LEMMA HandMoves ==
  ASSUME PermitInv, PipeInv', NEW p \in Runs, NEW w \in Hands, NEW h,
         hand' = [hand EXCEPT ![p][w] = h], UNCHANGED stage,
         inUse'["bytes"] = HeldBytes', inUse'["embedding"] = inUse["embedding"],
         inUse'["cpu"] = inUse["cpu"] - CpuUse(p, w) + CpuUse(p, w)',
         inUse'["ocr"] = inUse["ocr"] - OcrUse(p, w) + OcrUse(p, w)'
  PROVE  PermitsAccounted'
  <1> DEFINE c0 == Cardinality(HandsIn({"prepare"}))
             c1 == Cardinality(HandsIn({"prepare"}))'
             m == Cardinality(StagesIn({"model"}))
             o0 == CpuUse(p, w)
             o1 == CpuUse(p, w)'
  <1>1. /\ c1 = c0 - o0 + o1
        /\ Cardinality(OcrHands)' = Cardinality(OcrHands) - OcrUse(p, w) + OcrUse(p, w)'
    BY HandCount DEF PermitInv, PipeInv
  <1>2. StagesIn({"model"})' = StagesIn({"model"}) /\ StagesIn({"cpu", "model"})' = StagesIn({"cpu", "model"})
    BY DEF StagesIn
  <1>3. /\ inUse["cpu"] = c0 + m /\ inUse["embedding"] = Cardinality(StagesIn({"cpu", "model"}))
        /\ inUse["ocr"] = Cardinality(OcrHands)
    BY DEF PermitInv, PermitsSafe, PermitsAccounted, OcrHands
  <1>4. c0 \in Nat /\ m \in Nat
    BY CountsTyped
  <1>5. inUse'["cpu"] = c1 + m
    <2>1. o0 \in Nat /\ o1 \in Nat
      BY DEF CpuUse
    <2>2. inUse'["cpu"] = inUse["cpu"] - o0 + o1
      OBVIOUS
    <2> HIDE DEF c0, c1, m, o0, o1
    <2> QED BY <1>1, <1>3, <1>4, <2>1, <2>2
  <1>6. inUse'["ocr"] = Cardinality(OcrHands)'
    BY <1>1, <1>3
  <1> QED BY <1>2, <1>3, <1>5, <1>6 DEF PermitsAccounted, OcrHands

(* A source goes on with the permits that it then needs.                     *)
LEMMA StageMoves ==
  ASSUME PermitInv, NEW p \in Runs, NEW s,
         stage' = [stage EXCEPT ![p] = s], UNCHANGED hand,
         inUse'["bytes"] = HeldBytes', inUse'["ocr"] = inUse["ocr"],
         inUse'["cpu"] = inUse["cpu"] - Num(stage[p], {"model"}) + Num(s, {"model"}),
         inUse'["embedding"] = inUse["embedding"] - Num(stage[p], {"cpu", "model"}) + Num(s, {"cpu", "model"})
  PROVE  PermitsAccounted'
  <1> DEFINE c == Cardinality(HandsIn({"prepare"}))
             m0 == Cardinality(StagesIn({"model"}))
             m1 == Cardinality(StagesIn({"model"}))'
             o0 == Num(stage[p], {"model"})
             o1 == Num(s, {"model"})
  <1>1. m1 = m0 - o0 + o1
    BY StageCount DEF PermitInv, PipeInv
  <1>2. Cardinality(StagesIn({"cpu", "model"}))' =
            Cardinality(StagesIn({"cpu", "model"})) - Num(stage[p], {"cpu", "model"}) + Num(s, {"cpu", "model"})
    BY StageCount DEF PermitInv, PipeInv
  <1>3. HandsIn({"prepare"})' = HandsIn({"prepare"}) /\ OcrHands' = OcrHands
    BY DEF HandsIn, OcrHands
  <1>4. /\ inUse["cpu"] = c + m0 /\ inUse["embedding"] = Cardinality(StagesIn({"cpu", "model"}))
        /\ inUse["ocr"] = Cardinality(OcrHands)
    BY DEF PermitInv, PermitsSafe, PermitsAccounted, OcrHands
  <1>5. inUse'["cpu"] = c + m1
    <2>1. c \in Nat /\ m0 \in Nat /\ o0 \in Nat /\ o1 \in Nat
      BY CountsTyped DEF Num
    <2>2. inUse'["cpu"] = inUse["cpu"] - o0 + o1
      OBVIOUS
    <2> HIDE DEF c, m0, m1, o0, o1
    <2> QED BY <1>1, <1>4, <2>1, <2>2
  <1>6. inUse'["embedding"] = Cardinality(StagesIn({"cpu", "model"}))'
    BY <1>2, <1>4
  <1> QED BY <1>3, <1>4, <1>5, <1>6 DEF PermitsAccounted, OcrHands

(* What is granted within the limit keeps it, and so does what is returned.  *)
LEMMA GrantKeeps ==
  ASSUME PermitInv, NEW c \in PoolNames, NEW n \in Nat, Grant(c, n), changes = 0 => n <= capacity[c],
         UNCHANGED <<capacity, changes>>
  PROVE  /\ LimitsKept' /\ inUse' \in [PoolNames -> Int] /\ inUse'[c] = inUse[c] + n
         /\ \A d \in PoolNames \ {c} : inUse'[d] = inUse[d]
  <1>1. /\ inUse' \in [PoolNames -> Int] /\ inUse'[c] = inUse[c] + n
        /\ \A d \in PoolNames \ {c} : inUse'[d] = inUse[d]
    BY DEF Grant, PermitInv, PermitTypes
  <1>2. ASSUME changes = 0 PROVE inUse'[c] <= capacity[c]
    BY <1>1, <1>2 DEF Grant, Grantable, PermitInv, PermitTypes
  <1>3. LimitsKept
    BY DEF PermitInv, PermitsSafe
  <1> QED BY <1>1, <1>2, <1>3 DEF LimitsKept

LEMMA ReturnKeeps ==
  ASSUME PermitInv, PermitTypes', \A c \in PoolNames : inUse'[c] <= inUse[c], UNCHANGED <<capacity, changes>>
  PROVE  LimitsKept'
  <1>1. LimitsKept
    BY DEF PermitInv, PermitsSafe
  <1>2. \A c \in PoolNames : inUse'[c] \in Int /\ inUse[c] \in Int /\ capacity[c] \in Int
    BY DEF PermitInv, PermitTypes
  <1> QED BY <1>1, <1>2 DEF LimitsKept

(* At the start no permit is held.                                           *)
LEMMA PermitsStart == PipeInit => PermitInv
  <1> SUFFICES ASSUME PipeInit PROVE PermitInv
    OBVIOUS
  <1>1. PipeInv
    BY PipeStarts
  <1>2. PermitTypes
    BY PipelineAssumption DEF PipeInit, PermitTypes
  <1>3. ASSUME NEW p \in Runs PROVE RunPermits(p)
    BY DEF PipeInit, RunPermits
  <1>4. HeldBytes = 0
    <2>1. ASSUME NEW x \in AllItems PROVE ItemBytes[x] = 0
      <3>1. PICK p \in Runs : x \in {p} \X Items(p)
        BY DEF AllItems
      <3> QED BY <3>1 DEF ItemBytes, PipeInit
    <2> QED BY <2>1, FewItems, SumZero DEF HeldBytes
  <1>5. /\ HandsIn({"prepare"}) = {} /\ OcrHands = {}
        /\ StagesIn({"model"}) = {} /\ StagesIn({"cpu", "model"}) = {}
    BY DEF PipeInit, HandsIn, OcrHands, StagesIn
  <1>6. PermitsAccounted
    <2>1. /\ Cardinality(HandsIn({"prepare"})) = 0 /\ Cardinality(OcrHands) = 0
          /\ Cardinality(StagesIn({"model"})) = 0 /\ Cardinality(StagesIn({"cpu", "model"})) = 0
      BY <1>5, FS_EmptySet
    <2>2. \A c \in {"bytes", "ocr", "embedding", "cpu"} : inUse[c] = 0
      BY DEF PipeInit, PoolNames
    <2> QED BY <1>4, <2>1, <2>2 DEF PermitsAccounted, OcrHands
  <1>7. LimitsKept
    BY <1>2 DEF LimitsKept, PipeInit, PermitTypes
  <1> QED BY <1>1, <1>2, <1>3, <1>6, <1>7 DEF PermitInv, PermitsSafe

(* A step of one source leaves the permits of the items of another.          *)
LEMMA OthersPermits ==
  ASSUME PermitInv, NEW p \in Runs, NEW q \in Runs, q # p, RunStep(p)
  PROVE  RunPermits(q)'
  <1>1. Same(q)
    BY OthersSame DEF PermitInv, PipeInv
  <1>2. budget'[q] = budget[q] /\ UNCHANGED <<capacity, changes>>
    <2> USE DEF PermitInv, PermitTypes
    <2>1. CASE StartRun(p) \/ FeedNext(p) \/ FeedBudget(p) \/ FeedSend(p)
      BY <2>1 DEF StartRun, FeedNext, FeedBudget, FeedSend
    <2>2. ASSUME NEW w \in Hands, TakeWork(p, w) PROVE <1>2!1 /\ <1>2!2
      BY <2>2 DEF TakeWork, DropItems
    <2>3. ASSUME NEW w \in Hands, \/ GetPermit(p, w, "ocr", "cpu") \/ GetPermit(p, w, "cpu", "prepare")
                                  \/ Prepared(p, w) \/ SendDone(p, w) \/ Leave(p, w) PROVE <1>2!1 /\ <1>2!2
      BY <2>3 DEF GetPermit, Prepared, SendDone, Leave
    <2>4. CASE Collect(p) \/ WriteBatch(p) \/ CloseRun(p)
      BY <2>4 DEF Collect, WriteBatch, CloseRun, DropItems
    <2>5. CASE GetModel(p) \/ GetModelCpu(p) \/ ModelDone(p)
      BY <2>5 DEF GetModel, GetModelCpu, ModelDone
    <2> QED BY <2>1, <2>2, <2>3, <2>4, <2>5 DEF RunStep
  <1> QED BY <1>1, <1>2 DEF PermitInv, RunPermits, Same

(* A worker moves and no permit is returned or granted for items.            *)
LEMMA BytesSame == ASSUME UNCHANGED budget PROVE HeldBytes' = HeldBytes
  BY DEF HeldBytes, ItemBytes

(* The executor and the feeder.                                              *)
LEMMA FeedPermits ==
  ASSUME PermitInv, PipeInv', NEW p \in Runs, StartRun(p) \/ FeedNext(p) \/ FeedBudget(p) \/ FeedSend(p)
  PROVE  PermitTypes' /\ RunPermits(p)' /\ PermitsSafe'
  <1> USE DEF PermitInv
  <1>0. /\ PipeTypes /\ RunInv(p) /\ RunPermits(p) /\ PermitTypes /\ PermitsAccounted /\ LimitsKept
        /\ feeder[p].item \in Nat /\ feeder[p].want \in Nat
    BY DEF PipeInv, PermitsSafe, PipeTypes
  <1>1. CASE StartRun(p)
    <2>1. /\ stage' = [stage EXCEPT ![p] = "running"] /\ stage[p] = "waiting"
          /\ UNCHANGED <<capacity, inUse, changes, feeder, budget, hand>>
      BY <1>1 DEF StartRun
    <2>2. PermitTypes' /\ RunPermits(p)' /\ LimitsKept' /\ HeldBytes' = HeldBytes
      BY <1>0, <2>1, BytesSame DEF PermitTypes, RunPermits, LimitsKept
    <2>3. PermitsAccounted'
      <3>1. inUse["bytes"] = HeldBytes /\ inUse["cpu"] \in Int /\ inUse["embedding"] \in Int
        BY <1>0 DEF PermitsAccounted, PermitTypes, PoolNames
      <3>2. /\ Num(stage[p], {"model"}) = 0 /\ Num("running", {"model"}) = 0
            /\ Num(stage[p], {"cpu", "model"}) = 0 /\ Num("running", {"cpu", "model"}) = 0
        BY <2>1 DEF Num
      <3>3. /\ inUse'["cpu"] = inUse["cpu"] - Num(stage[p], {"model"}) + Num("running", {"model"})
            /\ inUse'["embedding"] = inUse["embedding"] - Num(stage[p], {"cpu", "model"}) + Num("running", {"cpu", "model"})
            /\ inUse'["bytes"] = HeldBytes' /\ inUse'["ocr"] = inUse["ocr"]
        BY <2>1, <2>2, <3>1, <3>2
      <3> QED BY <2>1, <3>3, StageMoves
    <2> QED BY <2>2, <2>3 DEF PermitsSafe
  <1>2. CASE FeedNext(p) \/ FeedSend(p)
    <2>1. UNCHANGED <<capacity, inUse, changes, budget, hand, stage>>
      BY <1>2 DEF FeedNext, FeedSend
    <2>2. PermitTypes' /\ LimitsKept' /\ PermitsAccounted'
      BY <1>0, <2>1 DEF PermitTypes, LimitsKept, PermitsAccounted, HeldBytes, ItemBytes, HandsIn, StagesIn
    <2>3. CASE FeedNext(p)
      <3>1. feeder[p].item \in Items(p) => Want("bytes", Sizes[p][feeder[p].item]) <= capacity["bytes"]
        <4>1. capacity["bytes"] \in Nat \ {0}
          BY <1>0 DEF PermitTypes, PoolNames
        <4> QED BY <4>1, SizesFit DEF Want
      <3>2. /\ feeder[p].step = "next" /\ feeder'[p].item = feeder[p].item /\ feeder'[p].step # "send"
            /\ feeder'[p].step = "wait" => feeder[p].item \in Items(p)
                    /\ feeder'[p].want = Want("bytes", Sizes[p][feeder[p].item])
        BY <2>3, <1>0 DEF FeedNext, PipeTypes
      <3> QED BY <1>0, <2>1, <2>2, <3>1, <3>2 DEF RunPermits, PermitsSafe
    <2>4. CASE FeedSend(p)
      <3>1. feeder[p].step = "send" /\ feeder'[p].item = feeder[p].item + 1 /\ feeder'[p].step = "next"
        BY <2>4, <1>0 DEF FeedSend, PipeTypes
      <3> QED BY <1>0, <2>1, <2>2, <3>1 DEF RunPermits, PermitsSafe, Items
    <2> QED BY <1>2, <2>3, <2>4
  <1>3. CASE FeedBudget(p)
    <2> DEFINE i == feeder[p].item
               n == feeder[p].want
    <2>1. /\ feeder[p].step = "wait" /\ Grant("bytes", n) /\ budget' = [budget EXCEPT ![p][i] = n]
          /\ feeder' = [feeder EXCEPT ![p].step = "send"]
          /\ UNCHANGED <<capacity, changes, stage, hand>>
      BY <1>3 DEF FeedBudget
    <2>2. i \in Items(p) /\ budget[p][i] = 0 /\ (changes = 0 => n <= capacity["bytes"])
      BY <1>0, <2>1 DEF RunInv, FeederFits, RunPermits
    <2>3. /\ HeldBytes' = HeldBytes + n
          /\ DOMAIN budget' = Runs /\ \A q \in Runs : budget'[q] \in [Items(q) -> Nat]
      BY <1>0, <2>1, <2>2, BytesGranted
    <2>4. /\ LimitsKept' /\ inUse' \in [PoolNames -> Int] /\ inUse'["bytes"] = inUse["bytes"] + n
          /\ \A d \in PoolNames \ {"bytes"} : inUse'[d] = inUse[d]
      <3>1. "bytes" \in PoolNames
        BY DEF PoolNames
      <3> QED BY <1>0, <2>1, <2>2, <3>1, GrantKeeps
    <2>5. PermitTypes'
      BY <1>0, <2>1, <2>3, <2>4 DEF PermitTypes
    <2>6. PermitsAccounted'
      BY <1>0, <2>1, <2>3, <2>4 DEF PermitsAccounted, HandsIn, StagesIn, PoolNames
    <2>7. RunPermits(p)'
      <3>1. feeder'[p].item = i /\ feeder'[p].step = "send"
        BY <1>0, <2>1 DEF PipeTypes
      <3>2. \A j \in Items(p) : j # i => budget'[p][j] = budget[p][j]
        BY <1>0, <2>1 DEF PermitTypes
      <3> HIDE DEF n
      <3> QED BY <1>0, <2>1, <3>1, <3>2 DEF RunPermits, Items
    <2> QED BY <2>4, <2>5, <2>6, <2>7 DEF PermitsSafe
  <1> QED BY <1>1, <1>2, <1>3

(* What is queued, awaits the writer or is in its batch is of the source.    *)
LEMMA PlacesHere ==
  ASSUME PipeTypes, NEW p \in Runs, RunInv(p)
  PROVE  Queued(p) \cup Awaiting(p) \cup InBatch(p) \subseteq Items(p)
  <1>1. Stored(p) \subseteq 1 .. feeder[p].item - 1
    BY DEF RunInv, OnlySent
  <1>2. feeder[p].item \in 1 .. Len(Sizes[p]) + 1 /\ Len(Sizes[p]) \in Nat
    BY SizesFit DEF RunInv, FeederFits
  <1>3. 1 .. feeder[p].item - 1 \subseteq Items(p)
    BY <1>2 DEF Items
  <1> QED BY <1>1, <1>3 DEF Stored

(* Items are dropped, and nothing else that holds permits changes.           *)
LEMMA DropPermits ==
  ASSUME PermitInv, PipeInv', NEW p \in Runs, NEW items \in SUBSET Items(p), DropItems(p, items),
         UNCHANGED <<capacity, changes, stage, feeder, hand>>
  PROVE  PermitTypes' /\ RunPermits(p)' /\ PermitsSafe'
  <1>0. PipeTypes /\ RunPermits(p) /\ PermitTypes /\ PermitsAccounted
    BY DEF PermitInv, PipeInv, PermitsSafe
  <1>1. /\ PermitTypes'
        /\ HeldBytes' - HeldBytes = inUse'["bytes"] - inUse["bytes"]
        /\ inUse'["bytes"] <= inUse["bytes"]
        /\ \A c \in PoolNames \ {"bytes"} : inUse'[c] = inUse[c]
        /\ \A q \in Runs : \A i \in Items(q) : budget'[q][i] = IF q = p /\ i \in items THEN 0 ELSE budget[q][i]
    BY <1>0, BytesDropped
  <1>2. HeldBytes' = inUse'["bytes"]
    <2>1. inUse["bytes"] = HeldBytes /\ inUse["bytes"] \in Int /\ inUse'["bytes"] \in Int
      BY <1>0, <1>1 DEF PermitsAccounted, PermitTypes, PoolNames
    <2>2. HeldBytes' \in Int
      <3>1. \A x \in AllItems : ItemBytes'[x] \in Int
        <4>1. ASSUME NEW x \in AllItems PROVE ItemBytes'[x] \in Int
          <5>1. PICK q \in Runs : x \in {q} \X Items(q)
            BY DEF AllItems
          <5>2. x[1] = q /\ x[2] \in Items(q)
            BY <5>1
          <5>3. ItemBytes'[x] = budget'[x[1]][x[2]]
            BY DEF ItemBytes
          <5> QED BY <1>1, <5>2, <5>3 DEF PermitTypes
        <4> QED BY <4>1
      <3> QED BY <3>1, FewItems, SumTake DEF HeldBytes
    <2> QED BY <1>1, <2>1, <2>2
  <1>3. PermitsAccounted'
    BY <1>0, <1>1, <1>2 DEF PermitsAccounted, HandsIn, StagesIn, PoolNames
  <1>4. LimitsKept'
    <2>1. \A c \in PoolNames : inUse'[c] <= inUse[c]
      BY <1>0, <1>1 DEF PermitTypes
    <2> QED BY <1>1, <2>1, ReturnKeeps
  <1>5. RunPermits(p)'
    BY <1>0, <1>1 DEF RunPermits
  <1> QED BY <1>1, <1>3, <1>4, <1>5 DEF PermitsSafe

(* A worker takes an item or drops it, sends its result, or leaves.          *)
LEMMA TakePermits ==
  ASSUME PermitInv, PipeInv', NEW p \in Runs, NEW w \in Hands, TakeWork(p, w)
  PROVE  PermitTypes' /\ RunPermits(p)' /\ PermitsSafe'
  <1>0. /\ PipeTypes /\ PipeTypes' /\ RunInv(p) /\ RunPermits(p) /\ PermitTypes /\ PermitsAccounted /\ LimitsKept
    BY DEF PermitInv, PipeInv, PermitsSafe
  <1>1. CASE failedRun[p]
    <2> DEFINE i == Head(workQ[p])
    <2>1. workQ[p] # <<>> /\ DropItems(p, {i}) /\ UNCHANGED <<capacity, changes, stage, feeder, hand>>
      BY <1>1 DEF TakeWork
    <2>2. i \in Queued(p)
      BY <1>0, <2>1, HeadTailProperties, LenProperties, EmptySeq DEF PipeTypes, Queued, ToSet
    <2>3. {i} \in SUBSET Items(p)
      BY <1>0, <2>2, PlacesHere
    <2> HIDE DEF i
    <2> QED BY <2>1, <2>3, DropPermits
  <1>2. CASE ~failedRun[p]
    <2> DEFINE i == Head(workQ[p])
               h == [step |-> FirstStep(p, i), item |-> i]
    <2>1. /\ hand[p][w].step = "idle" /\ hand' = [hand EXCEPT ![p][w] = h]
          /\ UNCHANGED <<inUse, budget, capacity, changes, stage, feeder>>
      BY <1>2 DEF TakeWork
    <2>2. hand'[p][w] = h /\ \A v \in Hands \ {w} : hand'[p][v] = hand[p][v]
      BY <1>0, <2>1 DEF PipeTypes
    <2>3. /\ hand'[p][w].step \in {"ocr", "cpu"}
          /\ hand'[p][w].step = "ocr" <=> <<p, hand'[p][w].item>> \in Heavy
      BY <2>2 DEF FirstStep
    <2>4. CpuUse(p, w) = 0 /\ CpuUse(p, w)' = 0 /\ OcrUse(p, w) = 0 /\ OcrUse(p, w)' = 0
      BY <2>1, <2>3 DEF CpuUse, OcrUse, CpuHand, OcrHand
    <2>5. PermitTypes' /\ LimitsKept' /\ HeldBytes' = HeldBytes
      BY <1>0, <2>1, BytesSame DEF PermitTypes, LimitsKept
    <2>6. RunPermits(p)'
      BY <1>0, <2>1, <2>2, <2>3 DEF RunPermits
    <2>7. /\ inUse'["cpu"] = inUse["cpu"] - CpuUse(p, w) + CpuUse(p, w)'
          /\ inUse'["ocr"] = inUse["ocr"] - OcrUse(p, w) + OcrUse(p, w)'
          /\ inUse'["bytes"] = HeldBytes' /\ inUse'["embedding"] = inUse["embedding"]
      BY <1>0, <2>1, <2>4, <2>5 DEF PermitsAccounted, PermitTypes, PoolNames
    <2>8. PermitsAccounted'
      <3> HIDE DEF h
      <3> QED BY <2>1, <2>7, HandMoves
    <2> QED BY <2>5, <2>6, <2>8 DEF PermitsSafe
  <1> QED BY <1>1, <1>2

(* A worker asks for the permits of its item, returns them, sends the result *)
(* and leaves.                                                               *)
LEMMA HandPermits ==
  ASSUME PermitInv, PipeInv', NEW p \in Runs, NEW w \in Hands,
         \/ GetPermit(p, w, "ocr", "cpu") \/ GetPermit(p, w, "cpu", "prepare")
         \/ Prepared(p, w) \/ SendDone(p, w) \/ Leave(p, w)
  PROVE  PermitTypes' /\ RunPermits(p)' /\ PermitsSafe'
  <1>0. /\ PipeTypes /\ PipeTypes' /\ RunInv(p) /\ RunPermits(p) /\ PermitTypes /\ PermitsAccounted /\ LimitsKept
        /\ inUse["bytes"] = HeldBytes /\ inUse["cpu"] \in Int /\ inUse["ocr"] \in Int
    BY DEF PermitInv, PipeInv, PermitsSafe, PermitsAccounted, PermitTypes, PoolNames
  <1>1. PICK h : /\ hand' = [hand EXCEPT ![p][w] = h]
                 /\ hand'[p][w] = h /\ \A v \in Hands \ {w} : hand'[p][v] = hand[p][v]
                 /\ \/ GetPermit(p, w, "ocr", "cpu") /\ h = [hand[p][w] EXCEPT !.step = "cpu"]
                    \/ GetPermit(p, w, "cpu", "prepare") /\ h = [hand[p][w] EXCEPT !.step = "prepare"]
                    \/ Prepared(p, w) /\ h = [hand[p][w] EXCEPT !.step = "send"]
                    \/ SendDone(p, w) /\ h = [step |-> "idle", item |-> 0]
                    \/ Leave(p, w) /\ h = [hand[p][w] EXCEPT !.step = "gone"]
    <2>1. hand[p][w] \in [step : {"idle", "ocr", "cpu", "prepare", "send", "gone"}, item : Nat] /\ DOMAIN hand = Runs
          /\ DOMAIN hand[p] = Hands
      BY <1>0 DEF PipeTypes
    <2> DEFINE Goes(h) == /\ hand' = [hand EXCEPT ![p][w] = h]
                          /\ hand'[p][w] = h /\ \A v \in Hands \ {w} : hand'[p][v] = hand[p][v]
    <2>2. ASSUME NEW h, hand' = [hand EXCEPT ![p][w] = h] PROVE Goes(h)
      BY <2>1, <2>2
    <2>3. ASSUME NEW s, hand' = [hand EXCEPT ![p][w].step = s] PROVE Goes([hand[p][w] EXCEPT !.step = s])
      <3>1. hand' = [hand EXCEPT ![p][w] = [hand[p][w] EXCEPT !.step = s]]
        BY <2>1, <2>3
      <3> QED BY <2>2, <3>1
    <2> HIDE DEF Goes
    <2>4. \/ GetPermit(p, w, "ocr", "cpu") /\ Goes([hand[p][w] EXCEPT !.step = "cpu"])
          \/ GetPermit(p, w, "cpu", "prepare") /\ Goes([hand[p][w] EXCEPT !.step = "prepare"])
          \/ Prepared(p, w) /\ Goes([hand[p][w] EXCEPT !.step = "send"])
          \/ SendDone(p, w) /\ Goes([step |-> "idle", item |-> 0])
          \/ Leave(p, w) /\ Goes([hand[p][w] EXCEPT !.step = "gone"])
      BY <2>2, <2>3 DEF GetPermit, Prepared, SendDone, Leave
    <2> QED BY <2>4 DEF Goes
  <1>2. UNCHANGED <<budget, capacity, changes, stage, feeder>> /\ HeldBytes' = HeldBytes
    BY <1>1, BytesSame DEF GetPermit, Prepared, SendDone, Leave
  <1>3. RunPermits(p)'
    <2>1. hand[p][w] \in [step : {"idle", "ocr", "cpu", "prepare", "send", "gone"}, item : Nat]
      BY <1>0 DEF PipeTypes
    <2>2. h.step # "ocr"
      BY <1>1, <2>1
    <2> QED BY <1>0, <1>1, <1>2, <2>2 DEF RunPermits
  <1>4. ASSUME inUse' \in [PoolNames -> Int] PROVE PermitTypes'
    BY <1>0, <1>2, <1>4 DEF PermitTypes
  <1>5. /\ inUse' \in [PoolNames -> Int] /\ LimitsKept'
        /\ inUse'["bytes"] = inUse["bytes"] /\ inUse'["embedding"] = inUse["embedding"]
        /\ inUse'["cpu"] = inUse["cpu"] - CpuUse(p, w) + CpuUse(p, w)'
        /\ inUse'["ocr"] = inUse["ocr"] - OcrUse(p, w) + OcrUse(p, w)'
    <2>1. hand[p][w] \in [step : {"idle", "ocr", "cpu", "prepare", "send", "gone"}, item : Nat]
      BY <1>0 DEF PipeTypes
    <2>2. \A c \in PoolNames : capacity[c] \in Nat /\ 1 <= capacity[c]
      BY <1>0 DEF PermitTypes
    <2>3. "cpu" \in PoolNames /\ "ocr" \in PoolNames /\ "bytes" \in PoolNames /\ "embedding" \in PoolNames
      BY DEF PoolNames
    <2>4. CASE GetPermit(p, w, "ocr", "cpu")
      <3>1. hand[p][w].step = "ocr" /\ Grant("ocr", 1) /\ hand'[p][w] = [hand[p][w] EXCEPT !.step = "cpu"]
        BY <1>1, <2>4 DEF GetPermit
      <3>2. CpuUse(p, w) = 0 /\ CpuUse(p, w)' = 0 /\ OcrUse(p, w) = 0 /\ OcrUse(p, w)' = 1
        BY <1>0, <2>1, <3>1 DEF CpuUse, OcrUse, CpuHand, OcrHand, RunPermits
      <3>3. /\ LimitsKept' /\ inUse' \in [PoolNames -> Int] /\ inUse'["ocr"] = inUse["ocr"] + 1
            /\ \A d \in PoolNames \ {"ocr"} : inUse'[d] = inUse[d]
        BY <1>2, <2>2, <2>3, <3>1, GrantKeeps
      <3> QED BY <1>0, <2>3, <3>2, <3>3
    <2>5. CASE GetPermit(p, w, "cpu", "prepare")
      <3>1. hand[p][w].step = "cpu" /\ Grant("cpu", 1) /\ hand'[p][w] = [hand[p][w] EXCEPT !.step = "prepare"]
        BY <2>5, <1>0 DEF GetPermit, PipeTypes
      <3>2. CpuUse(p, w) = 0 /\ CpuUse(p, w)' = 1 /\ OcrUse(p, w)' = OcrUse(p, w) /\ OcrUse(p, w) \in Int
        BY <2>1, <3>1 DEF CpuUse, OcrUse, CpuHand, OcrHand
      <3>3. /\ LimitsKept' /\ inUse' \in [PoolNames -> Int] /\ inUse'["cpu"] = inUse["cpu"] + 1
            /\ \A d \in PoolNames \ {"cpu"} : inUse'[d] = inUse[d]
        BY <1>2, <2>2, <2>3, <3>1, GrantKeeps
      <3> QED BY <1>0, <2>3, <3>2, <3>3
    <2>6. CASE Prepared(p, w)
      <3> DEFINE heavy == <<p, hand[p][w].item>> \in Heavy
      <3>1. /\ hand[p][w].step = "prepare" /\ hand'[p][w] = [hand[p][w] EXCEPT !.step = "send"]
            /\ inUse' = [inUse EXCEPT !["cpu"] = @ - 1, !["ocr"] = IF heavy THEN @ - 1 ELSE @]
        BY <2>6, <1>0 DEF Prepared, PipeTypes
      <3>2. CpuUse(p, w) = 1 /\ CpuUse(p, w)' = 0 /\ OcrUse(p, w)' = 0 /\ OcrUse(p, w) = IF heavy THEN 1 ELSE 0
        BY <2>1, <3>1 DEF CpuUse, OcrUse, CpuHand, OcrHand
      <3>3. /\ inUse' \in [PoolNames -> Int] /\ inUse'["cpu"] = inUse["cpu"] - 1
            /\ inUse'["ocr"] = IF heavy THEN inUse["ocr"] - 1 ELSE inUse["ocr"]
            /\ \A d \in PoolNames \ {"cpu", "ocr"} : inUse'[d] = inUse[d]
        BY <1>0, <2>3, <3>1 DEF PermitTypes
      <3>4. \A c \in PoolNames : inUse'[c] <= inUse[c]
        BY <1>0, <3>3 DEF PermitTypes
      <3>5. LimitsKept'
        BY <1>2, <1>4, <3>3, <3>4, ReturnKeeps
      <3> QED BY <1>0, <2>3, <3>2, <3>3, <3>5
    <2>7. CASE SendDone(p, w) \/ Leave(p, w)
      <3>1. /\ hand[p][w].step \in {"send", "idle"} /\ hand'[p][w].step \in {"idle", "gone"} /\ UNCHANGED inUse
        BY <2>7, <1>0 DEF SendDone, Leave, PipeTypes
      <3>2. CpuUse(p, w) = 0 /\ CpuUse(p, w)' = 0 /\ OcrUse(p, w) = 0 /\ OcrUse(p, w)' = 0
        BY <3>1 DEF CpuUse, OcrUse, CpuHand, OcrHand
      <3>3. LimitsKept' /\ inUse' \in [PoolNames -> Int]
        BY <1>0, <1>2, <3>1 DEF LimitsKept, PermitTypes
      <3> QED BY <1>0, <3>1, <3>2, <3>3
    <2> QED BY <1>1, <2>4, <2>5, <2>6, <2>7
  <1>6. PermitsAccounted'
    BY <1>0, <1>1, <1>2, <1>5, HandMoves
  <1> QED BY <1>3, <1>4, <1>5, <1>6 DEF PermitsSafe

(* The writer drops what it commits, and what came after an error.           *)
LEMMA WritePermits ==
  ASSUME PermitInv, PipeInv', NEW p \in Runs, Collect(p) \/ WriteBatch(p)
  PROVE  PermitTypes' /\ RunPermits(p)' /\ PermitsSafe'
  <1>0. /\ PipeTypes /\ PipeTypes' /\ RunInv(p) /\ RunPermits(p) /\ PermitTypes /\ PermitsAccounted /\ LimitsKept
    BY DEF PermitInv, PipeInv, PermitsSafe
  <1>1. UNCHANGED <<capacity, changes, stage, feeder, hand>>
    BY DEF Collect, WriteBatch
  <1>2. CASE WriteBatch(p)
    <2>1. DropItems(p, InBatch(p))
      BY <1>2 DEF WriteBatch, InBatch
    <2>2. InBatch(p) \in SUBSET Items(p)
      BY <1>0, PlacesHere
    <2> QED BY <1>1, <2>1, <2>2, DropPermits
  <1>3. CASE Collect(p) /\ failedRun[p]
    <2> DEFINE batch == Taken(doneQ[p])
    <2>1. DropItems(p, ToSet(batch))
      BY <1>3 DEF Collect
    <2>2. ToSet(batch) \subseteq Awaiting(p)
      <3> DEFINE q == doneQ[p]
                 n == IF Len(q) < MaxBatch THEN Len(q) ELSE MaxBatch
                 u == SubSeq(q, 1, n)
                 v == SubSeq(q, Len(u) + 1, Len(q))
      <3>1. q \in Seq(Nat) /\ Len(q) \in Nat /\ IsInjective(q)
        BY <1>0, LenProperties DEF PipeTypes, RunInv, OnePlace
      <3>2. n \in 0 .. Len(q)
        BY <3>1, PipelineAssumption
      <3>3. ToSet(u) \cup ToSet(v) = ToSet(q)
        <4> HIDE DEF n, q
        <4> QED BY <3>1, <3>2, InjectiveCut
      <3> QED BY <3>3 DEF Taken, Awaiting
    <2>3. ToSet(batch) \in SUBSET Items(p)
      BY <1>0, <2>2, PlacesHere
    <2> HIDE DEF batch
    <2> QED BY <1>1, <2>1, <2>3, DropPermits
  <1>4. CASE Collect(p) /\ ~failedRun[p]
    <2>1. UNCHANGED <<inUse, budget>>
      BY <1>4 DEF Collect
    <2> QED BY <1>0, <1>1, <2>1 DEF PermitTypes, LimitsKept, PermitsAccounted, HeldBytes, ItemBytes, HandsIn,
                                    StagesIn, RunPermits, PermitsSafe
  <1> QED BY <1>2, <1>3, <1>4

(* The stages after the writer.                                              *)
LEMMA StagePermits ==
  ASSUME PermitInv, PipeInv', NEW p \in Runs, CloseRun(p) \/ GetModel(p) \/ GetModelCpu(p) \/ ModelDone(p)
  PROVE  PermitTypes' /\ RunPermits(p)' /\ PermitsSafe'
  <1>0. /\ PipeTypes /\ RunPermits(p) /\ PermitTypes /\ PermitsAccounted /\ LimitsKept
        /\ inUse["bytes"] = HeldBytes /\ inUse["cpu"] \in Int /\ inUse["embedding"] \in Int
    BY DEF PermitInv, PipeInv, PermitsSafe, PermitsAccounted, PermitTypes, PoolNames
  <1>1. UNCHANGED <<budget, capacity, changes, feeder, hand>> /\ HeldBytes' = HeldBytes
    BY BytesSame DEF CloseRun, GetModel, GetModelCpu, ModelDone
  <1>2. RunPermits(p)'
    BY <1>0, <1>1 DEF RunPermits
  <1>3. ASSUME inUse' \in [PoolNames -> Int] PROVE PermitTypes'
    BY <1>0, <1>1, <1>3 DEF PermitTypes
  <1>4. "cpu" \in PoolNames /\ "ocr" \in PoolNames /\ "bytes" \in PoolNames /\ "embedding" \in PoolNames
    BY DEF PoolNames
  <1>5. \A c \in PoolNames : capacity[c] \in Nat /\ 1 <= capacity[c]
    BY <1>0 DEF PermitTypes
  <1> DEFINE Goes(s) ==
               /\ stage' = [stage EXCEPT ![p] = s]
               /\ inUse' \in [PoolNames -> Int] /\ LimitsKept'
               /\ inUse'["bytes"] = inUse["bytes"] /\ inUse'["ocr"] = inUse["ocr"]
               /\ inUse'["cpu"] = inUse["cpu"] - Num(stage[p], {"model"}) + Num(s, {"model"})
               /\ inUse'["embedding"] = inUse["embedding"] - Num(stage[p], {"cpu", "model"}) + Num(s, {"cpu", "model"})
  <1>6. \E s : Goes(s)
    <2>1. CASE CloseRun(p)
      <3>1. PICK s \in {"ended", "embed"} : stage' = [stage EXCEPT ![p] = s]
        BY <2>1 DEF CloseRun
      <3>2. stage[p] = "running" /\ UNCHANGED inUse
        BY <2>1 DEF CloseRun, Writing
      <3>3. /\ Num(stage[p], {"model"}) = 0 /\ Num(s, {"model"}) = 0
            /\ Num(stage[p], {"cpu", "model"}) = 0 /\ Num(s, {"cpu", "model"}) = 0
        BY <3>1, <3>2 DEF Num
      <3>4. LimitsKept' /\ inUse' \in [PoolNames -> Int]
        BY <1>0, <1>1, <3>2 DEF LimitsKept, PermitTypes
      <3>5. Goes(s)
        BY <1>0, <3>1, <3>2, <3>3, <3>4
      <3> QED BY <3>5
    <2>2. CASE GetModel(p)
      <3>1. stage[p] = "embed" /\ Grant("embedding", 1) /\ stage' = [stage EXCEPT ![p] = "cpu"]
        BY <2>2 DEF GetModel
      <3>2. /\ Num(stage[p], {"model"}) = 0 /\ Num("cpu", {"model"}) = 0
            /\ Num(stage[p], {"cpu", "model"}) = 0 /\ Num("cpu", {"cpu", "model"}) = 1
        BY <3>1 DEF Num
      <3>3. /\ LimitsKept' /\ inUse' \in [PoolNames -> Int] /\ inUse'["embedding"] = inUse["embedding"] + 1
            /\ \A d \in PoolNames \ {"embedding"} : inUse'[d] = inUse[d]
        BY <1>1, <1>4, <1>5, <3>1, GrantKeeps
      <3>4. Goes("cpu")
        BY <1>0, <1>4, <3>1, <3>2, <3>3
      <3> QED BY <3>4
    <2>3. CASE GetModelCpu(p)
      <3>1. stage[p] = "cpu" /\ Grant("cpu", 1) /\ stage' = [stage EXCEPT ![p] = "model"]
        BY <2>3 DEF GetModelCpu
      <3>2. /\ Num(stage[p], {"model"}) = 0 /\ Num("model", {"model"}) = 1
            /\ Num(stage[p], {"cpu", "model"}) = 1 /\ Num("model", {"cpu", "model"}) = 1
        BY <3>1 DEF Num
      <3>3. /\ LimitsKept' /\ inUse' \in [PoolNames -> Int] /\ inUse'["cpu"] = inUse["cpu"] + 1
            /\ \A d \in PoolNames \ {"cpu"} : inUse'[d] = inUse[d]
        BY <1>1, <1>4, <1>5, <3>1, GrantKeeps
      <3>4. Goes("model")
        BY <1>0, <1>4, <3>1, <3>2, <3>3
      <3> QED BY <3>4
    <2>4. CASE ModelDone(p)
      <3>1. /\ stage[p] = "model" /\ stage' = [stage EXCEPT ![p] = "ended"]
            /\ inUse' = [inUse EXCEPT !["embedding"] = @ - 1, !["cpu"] = @ - 1]
        BY <2>4 DEF ModelDone
      <3>2. /\ Num(stage[p], {"model"}) = 1 /\ Num("ended", {"model"}) = 0
            /\ Num(stage[p], {"cpu", "model"}) = 1 /\ Num("ended", {"cpu", "model"}) = 0
        BY <3>1 DEF Num
      <3>3. /\ inUse' \in [PoolNames -> Int] /\ inUse'["cpu"] = inUse["cpu"] - 1
            /\ inUse'["embedding"] = inUse["embedding"] - 1
            /\ \A d \in PoolNames \ {"cpu", "embedding"} : inUse'[d] = inUse[d]
        BY <1>0, <1>4, <3>1 DEF PermitTypes
      <3>4. \A c \in PoolNames : inUse'[c] <= inUse[c]
        BY <1>0, <3>3 DEF PermitTypes
      <3>5. LimitsKept'
        BY <1>1, <1>3, <3>3, <3>4, ReturnKeeps
      <3>6. Goes("ended")
        BY <1>0, <1>4, <3>1, <3>2, <3>3, <3>5
      <3> QED BY <3>6
    <2> QED BY <2>1, <2>2, <2>3, <2>4
  <1>7. PermitsAccounted'
    <2>1. PICK s : Goes(s)
      BY <1>6
    <2> QED BY <1>0, <1>1, <2>1, StageMoves
  <1> QED BY <1>2, <1>3, <1>6, <1>7 DEF PermitsSafe

(* Every step keeps the permits accounted.                                   *)
LEMMA PermitsStep == ASSUME PermitInv, [PipeNext]_pipeVars PROVE PermitInv'
  <1>1. PipeInv'
    BY PipeStep DEF PermitInv
  <1>2. ASSUME NEW p \in Runs, RunStep(p) PROVE PermitInv'
    <2>1. PermitTypes' /\ RunPermits(p)' /\ PermitsSafe'
      BY <1>1, <1>2, FeedPermits, TakePermits, HandPermits, WritePermits, StagePermits DEF RunStep
    <2>2. ASSUME NEW q \in Runs, q # p PROVE RunPermits(q)'
      BY <1>2, <2>2, OthersPermits
    <2> QED BY <1>1, <2>1, <2>2 DEF PermitInv
  <1>3. ASSUME NEW l \in Capacities, SetLimits(l) PROVE PermitInv'
    <2>1. capacity' = l /\ changes' = changes + 1 /\ UNCHANGED <<inUse, stage, feeder, budget, hand>>
      BY <1>3 DEF SetLimits
    <2>2. PermitTypes' /\ LimitsKept'
      BY <2>1, PipelineAssumption DEF PermitInv, PermitTypes, LimitsKept
    <2>3. PermitsAccounted'
      BY <2>1 DEF PermitInv, PermitsSafe, PermitsAccounted, HeldBytes, ItemBytes, HandsIn, StagesIn
    <2>4. ASSUME NEW p \in Runs PROVE RunPermits(p)'
      BY <2>1 DEF PermitInv, PermitTypes, RunPermits
    <2> QED BY <1>1, <2>2, <2>3, <2>4 DEF PermitInv, PermitsSafe
  <1>4. CASE UNCHANGED pipeVars
    BY <1>1, <1>4 DEF pipeVars, PermitInv, PermitTypes, LimitsKept, PermitsSafe, PermitsAccounted, HeldBytes, ItemBytes,
                      HandsIn, StagesIn, RunPermits
  <1> QED BY <1>2, <1>3, <1>4 DEF PipeNext

(* The permits in use are those that tasks hold, whichever way items end and *)
(* whatever became of the limits, and while nobody changes the limits they   *)
(* are kept (governor.rs:196-218, coordinator.rs:430-560).                   *)
THEOREM PermitsAreSafe == PipeSpec => []PermitsSafe
  <1>1. PipeInit => PermitInv
    BY PermitsStart
  <1>2. PermitInv /\ [PipeNext]_pipeVars => PermitInv'
    BY PermitsStep
  <1>3. PermitInv => PermitsSafe
    BY DEF PermitInv
  <1> QED BY <1>1, <1>2, <1>3, PTL DEF PipeSpec
=============================================================================
