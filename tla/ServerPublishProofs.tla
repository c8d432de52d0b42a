------------------------- MODULE ServerPublishProofs -------------------------
(***************************************************************************)
(* Proofs about the writer lease and about the publications that rest on    *)
(* it, for any processes, files, contents, TTL and grace period: the lease, *)
(* then what holds of publications whether or not passes outlive their      *)
(* lease, then what readers see as long as none does.                       *)
(***************************************************************************)
EXTENDS ServerPublish, FiniteSetTheorems, TLAPS

-----------------------------------------------------------------------------
(* The writer lease.                                                         *)


\* No document write carries a token that was not granted.
WriterGranted == writer <= lease.token

\* Only a running renewal thread is between a read and a write.
RenewalReads == \A p \in Procs : snap[p]["renew"] # "none" => renewing[p]

\* The inductive invariant: a thread may write only as the holder, and the
\* holder's token is the greatest ever granted.
LeaseInv ==
    /\ TypeOK
    /\ CurrentReadIsHolders
    /\ TokensUnique
    /\ WriterGranted
    /\ RenewalReads

USE DEF Tokens, Threads

(* The initial state satisfies the inductive invariant.                     *)
LEMMA InitLeaseInv == Init => LeaseInv
  BY LeaseAssumption DEF Init, LeaseInv, TypeOK, CurrentReadIsHolders,
                         TokensUnique, WriterGranted, RenewalReads

(* A write that leaves the lease's owner and token alone keeps the          *)
(* invariant: it makes reads outdated, never current.                       *)
LEMMA WriteStateInv ==
  ASSUME LeaseInv, NEW p \in Procs, NEW t \in Threads, WriteState(p, t),
         lease' \in [owner : Procs \cup {NoProc}, token : Tokens, expires : Nat],
         lease'.owner = lease.owner, lease'.token = lease.token,
         UNCHANGED <<now, held, renewing, up>>
  PROVE  LeaseInv'
  <1> USE DEF LeaseInv
  <1>1. snap' \in [Procs -> [Threads -> {"none", "current", "stale"}]]
    BY DEF TypeOK, WriteState, Outdated
  <1>2. \A q \in Procs, u \in Threads : snap'[q][u] # "current"
    BY DEF TypeOK, WriteState, Outdated
  <1>3. writer' = lease.token
    BY DEF WriteState, CurrentReadIsHolders
  <1>4. TypeOK'
    BY <1>1, <1>3 DEF TypeOK
  <1>5. CurrentReadIsHolders'
    BY <1>2 DEF CurrentReadIsHolders
  <1>6. TokensUnique'
    BY DEF TokensUnique
  <1>7. WriterGranted'
    BY <1>3 DEF WriterGranted, TypeOK
  <1>8. RenewalReads'
    BY DEF WriteState, Outdated, RenewalReads, TypeOK
  <1> QED BY <1>4, <1>5, <1>6, <1>7, <1>8

(* Every step keeps the inductive invariant.                                *)
LEMMA NextLeaseInv == LeaseInv /\ [Next]_leaseVars => LeaseInv'
  <1> SUFFICES ASSUME LeaseInv, [Next]_leaseVars PROVE LeaseInv'
    OBVIOUS
  <1> USE LeaseAssumption
  <1> USE DEF LeaseInv
  <1>1. ASSUME NEW p \in Procs, Acquire(p) PROVE LeaseInv'
    <2>1. /\ lease' = [owner |-> p, token |-> lease.token + 1, expires |-> now + TTL]
          /\ held' = [held EXCEPT ![p] = lease.token + 1]
          /\ lease.token + 1 \in Tokens
      BY <1>1 DEF Acquire, TypeOK
    <2>2. /\ snap' \in [Procs -> [Threads -> {"none", "current", "stale"}]]
          /\ \A q \in Procs, u \in Threads : snap'[q][u] # "current"
      BY <1>1 DEF Acquire, TypeOK, Outdated
    <2>3. TypeOK'
      <3>1. lease' \in [owner : Procs \cup {NoProc}, token : Tokens, expires : Nat]
        BY <2>1 DEF TypeOK
      <3>2. held' \in [Procs -> Tokens]
        BY <2>1 DEF TypeOK
      <3>3. renewing' \in [Procs -> BOOLEAN]
        BY <1>1 DEF Acquire, TypeOK
      <3>4. UNCHANGED <<now, up, writer>>
        BY <1>1 DEF Acquire
      <3> QED BY <2>2, <3>1, <3>2, <3>3, <3>4 DEF TypeOK
    <2>4. CurrentReadIsHolders'
      BY <2>2 DEF CurrentReadIsHolders
    <2>5. TokensUnique'
      BY <2>1 DEF TokensUnique, TypeOK
    <2>6. WriterGranted'
      BY <1>1, <2>1 DEF WriterGranted, Acquire, TypeOK
    <2>7. RenewalReads'
      BY <1>1 DEF Acquire, Outdated, RenewalReads, TypeOK
    <2> QED BY <2>3, <2>4, <2>5, <2>6, <2>7
  <1>2. ASSUME NEW p \in Procs, PatchRead(p) \/ RenewRead(p) PROVE LeaseInv'
    <2>1. PICK t \in Threads : ReadState(p, t) /\ (t = "renew" => renewing[p])
      BY <1>2 DEF PatchRead, RenewRead
    <2>2. TypeOK'
      BY <2>1 DEF ReadState, TypeOK
    <2>3. CurrentReadIsHolders'
      BY <2>1 DEF ReadState, CurrentReadIsHolders, Fenced, TypeOK
    <2>4. TokensUnique' /\ WriterGranted'
      BY <2>1 DEF ReadState, TokensUnique, WriterGranted
    <2>5. RenewalReads'
      BY <2>1 DEF ReadState, RenewalReads, TypeOK
    <2> QED BY <2>2, <2>3, <2>4, <2>5
  <1>3. ASSUME NEW p \in Procs, Patch(p) PROVE LeaseInv'
    BY <1>3, WriteStateInv DEF Patch, TypeOK
  <1>4. ASSUME NEW p \in Procs, Renew(p) PROVE LeaseInv'
    <2>1. lease' = [lease EXCEPT !.expires = now + TTL]
      BY <1>4 DEF Renew
    <2>2. /\ lease' \in [owner : Procs \cup {NoProc}, token : Tokens, expires : Nat]
          /\ lease'.owner = lease.owner
          /\ lease'.token = lease.token
      BY <2>1 DEF TypeOK
    <2> QED BY <1>4, <2>2, WriteStateInv DEF Renew, TypeOK
  <1>5. ASSUME NEW p \in Procs, PatchFails(p) \/ RenewalEnds(p) PROVE LeaseInv'
    <2>1. TypeOK'
      <3>1. snap' \in [Procs -> [Threads -> {"none", "current", "stale"}]]
        BY <1>5 DEF PatchFails, WriteFails, RenewalEnds, TypeOK
      <3>2. renewing' \in [Procs -> BOOLEAN]
        BY <1>5 DEF PatchFails, RenewalEnds, TypeOK
      <3>3. UNCHANGED <<now, lease, held, up, writer>>
        BY <1>5 DEF PatchFails, RenewalEnds
      <3> QED BY <3>1, <3>2, <3>3 DEF TypeOK
    <2>2. CurrentReadIsHolders'
      BY <1>5 DEF PatchFails, WriteFails, RenewalEnds, CurrentReadIsHolders, TypeOK
    <2>3. TokensUnique' /\ WriterGranted'
      BY <1>5 DEF PatchFails, RenewalEnds, TokensUnique, WriterGranted
    <2>4. RenewalReads'
      BY <1>5 DEF PatchFails, WriteFails, RenewalEnds, RenewalReads, TypeOK
    <2> QED BY <2>1, <2>2, <2>3, <2>4
  <1>6. ASSUME NEW p \in Procs, Release(p) PROVE LeaseInv'
    <2>1. held' = [held EXCEPT ![p] = 0] /\ UNCHANGED <<now, renewing, up>>
      BY <1>6 DEF Release
    <2>2. CASE /\ Fenced(p)
               /\ lease' = [lease EXCEPT !.owner = NoProc, !.expires = 0]
               /\ snap' = Outdated
               /\ writer' = held[p]
      <3>1. /\ snap' \in [Procs -> [Threads -> {"none", "current", "stale"}]]
            /\ \A q \in Procs, u \in Threads : snap'[q][u] # "current"
        BY <2>2 DEF TypeOK, Outdated
      <3>2. /\ lease' \in [owner : Procs \cup {NoProc}, token : Tokens, expires : Nat]
            /\ lease'.token = lease.token
        BY <2>2 DEF TypeOK
      <3>3. writer' = lease.token
        BY <2>2 DEF Fenced
      <3>4. TypeOK'
        <4>1. held' \in [Procs -> Tokens]
          BY <2>1 DEF TypeOK
        <4>2. writer' \in Tokens
          BY <3>3 DEF TypeOK
        <4> QED BY <2>1, <3>1, <3>2, <4>1, <4>2 DEF TypeOK
      <3>5. CurrentReadIsHolders'
        BY <3>1 DEF CurrentReadIsHolders
      <3>6. TokensUnique'
        BY <2>1, <3>2 DEF TokensUnique, TypeOK
      <3>7. WriterGranted'
        BY <3>2, <3>3 DEF WriterGranted, TypeOK
      <3>8. RenewalReads'
        BY <2>1, <2>2 DEF RenewalReads, Outdated, TypeOK
      <3> QED BY <3>4, <3>5, <3>6, <3>7, <3>8
    <2>3. CASE UNCHANGED <<lease, snap, writer>>
      <3>1. TypeOK'
        BY <2>1, <2>3 DEF TypeOK
      <3>2. snap[p]["main"] = "none" /\ ~renewing[p]
        BY <1>6 DEF Release
      <3>3. CurrentReadIsHolders'
        <4> SUFFICES ASSUME NEW q \in Procs, NEW t \in Threads, snap[q][t] = "current"
                     PROVE  lease.owner = q /\ lease.token = held'[q]
          BY <2>3 DEF CurrentReadIsHolders
        <4>1. q # p
          BY <3>2 DEF RenewalReads
        <4> QED BY <2>1, <4>1 DEF CurrentReadIsHolders, TypeOK
      <3>4. TokensUnique' /\ WriterGranted' /\ RenewalReads'
        BY <2>1, <2>3 DEF TokensUnique, WriterGranted, RenewalReads, TypeOK
      <3> QED BY <3>1, <3>3, <3>4
    <2> QED BY <1>6, <2>2, <2>3 DEF Release
  <1>7. ASSUME NEW p \in Procs, Crash(p) PROVE LeaseInv'
    <2>1. TypeOK'
      BY <1>7 DEF Crash, TypeOK
    <2>2. CurrentReadIsHolders'
      BY <1>7 DEF Crash, CurrentReadIsHolders, TypeOK
    <2>3. TokensUnique' /\ WriterGranted' /\ RenewalReads'
      BY <1>7 DEF Crash, TokensUnique, WriterGranted, RenewalReads, TypeOK
    <2> QED BY <2>1, <2>2, <2>3
  <1>8. CASE AdminPatch
    <2>1. TypeOK'
      BY <1>8 DEF AdminPatch, Outdated, TypeOK
    <2>2. CurrentReadIsHolders'
      BY <1>8 DEF AdminPatch, Outdated, CurrentReadIsHolders
    <2>3. TokensUnique' /\ WriterGranted' /\ RenewalReads'
      BY <1>8 DEF AdminPatch, Outdated, TokensUnique, WriterGranted, RenewalReads
    <2> QED BY <2>1, <2>2, <2>3
  <1>9. CASE Tick \/ UNCHANGED leaseVars
    BY <1>9 DEF Tick, leaseVars, TypeOK, CurrentReadIsHolders, TokensUnique,
                WriterGranted, RenewalReads
  <1> QED
    BY <1>1, <1>2, <1>3, <1>4, <1>5, <1>6, <1>7, <1>8, <1>9 DEF Next

(* Every reachable state satisfies the inductive invariant.                 *)
THEOREM LeaseInvariant == Spec => []LeaseInv
  <1>1. Init => LeaseInv
    BY InitLeaseInv
  <1>2. LeaseInv /\ [Next]_leaseVars => LeaseInv'
    BY NextLeaseInv
  <1> QED BY <1>1, <1>2, PTL DEF Spec

(* A thread whose read of the state document is still current is the holder *)
(* of the newest lease, for any number of processes (patch_state).           *)
THEOREM ReadsAreHolders == Spec => []CurrentReadIsHolders
  <1>1. LeaseInv => CurrentReadIsHolders
    BY DEF LeaseInv
  <1> QED BY <1>1, LeaseInvariant, PTL

(* Fencing tokens are never shared and never exceed the granted one          *)
(* (acquire_lease, release_lease).                                          *)
THEOREM TokensNeverShared == Spec => []TokensUnique
  <1>1. LeaseInv => TokensUnique
    BY DEF LeaseInv
  <1> QED BY <1>1, LeaseInvariant, PTL

(* Writes of the document never go back to an older fencing token: a         *)
(* superseded holder cannot undo a newer one's write.                        *)
LEMMA StepInTokenOrder == LeaseInv /\ [Next]_leaseVars => writer' >= writer
  <1> SUFFICES ASSUME LeaseInv, [Next]_leaseVars PROVE writer' >= writer
    OBVIOUS
  <1> USE DEF LeaseInv
  <1>1. ASSUME NEW p \in Procs, NEW t \in Threads, WriteState(p, t)
        PROVE  writer' >= writer
    BY <1>1 DEF WriteState, CurrentReadIsHolders, WriterGranted, TypeOK
  <1>2. ASSUME NEW p \in Procs, Release(p)
        PROVE  writer' >= writer
    BY <1>2 DEF Release, Fenced, WriterGranted, TypeOK
  <1>3. ASSUME UNCHANGED writer
        PROVE  writer' >= writer
    BY <1>3 DEF TypeOK
  <1> QED
    BY <1>1, <1>2, <1>3
       DEF Next, Acquire, PatchRead, Patch, PatchFails, RenewRead, Renew,
           RenewalEnds, ReadState, AdminPatch, Crash, Tick, leaseVars

(* The order of writes by token, as a property of every behaviour.           *)
THEOREM FencedWrites == Spec => WritesInTokenOrder
  <1>1. LeaseInv /\ [Next]_leaseVars => [writer' >= writer]_leaseVars
    BY StepInTokenOrder
  <1> QED BY <1>1, LeaseInvariant, PTL DEF Spec, WritesInTokenOrder

-----------------------------------------------------------------------------
(* A live lease changes hands only by its holder's own act.  For the owner   *)
(* that takes its lease again, or renews it, not to shorten it, the expiry   *)
(* must never be further away than one term.                                *)

ExpiryInReach == lease.expires <= now + TTL

(* A lease is granted for at most its duration from now.                     *)
LEMMA StepKeepsReach == LeaseInv /\ ExpiryInReach /\ [Next]_leaseVars => ExpiryInReach'
  <1> SUFFICES ASSUME LeaseInv, ExpiryInReach, [Next]_leaseVars PROVE ExpiryInReach'
    OBVIOUS
  <1> USE LeaseAssumption DEF LeaseInv, TypeOK, ExpiryInReach
  <1>1. ASSUME NEW p \in Procs, Acquire(p) \/ Renew(p) \/ Release(p)
        PROVE  ExpiryInReach'
    <2>1. UNCHANGED now /\ (lease'.expires \in {now + TTL, 0} \/ UNCHANGED lease)
      <3>1. CASE Acquire(p)
        BY <3>1 DEF Acquire
      <3>2. CASE Renew(p)
        BY <3>2 DEF Renew
      <3>3. CASE Release(p)
        BY <3>3 DEF Release
      <3> QED BY <1>1, <3>1, <3>2, <3>3
    <2> QED BY <2>1
  <1>2. CASE UNCHANGED <<now, lease>>
    BY <1>2
  <1>3. CASE Tick
    BY <1>3 DEF Tick
  <1> QED
    BY <1>1, <1>2, <1>3
       DEF Next, PatchRead, Patch, PatchFails, RenewRead, RenewalEnds, ReadState, AdminPatch,
           Crash, leaseVars

(* One step keeps a live lease with its owner, or the owner itself released  *)
(* it.                                                                       *)
LEMMA StepKeepsLease ==
  ASSUME LeaseInv, ExpiryInReach, [Next]_leaseVars, Live, lease.owner \in Procs
  PROVE  \/ lease'.owner = lease.owner /\ lease'.expires >= lease.expires
         \/ lease'.owner = NoProc /\ held[lease.owner] = lease.token
  <1> USE LeaseAssumption DEF LeaseInv, TypeOK, ExpiryInReach
  <1> DEFINE Kept ==
         \/ lease'.owner = lease.owner /\ lease'.expires >= lease.expires
         \/ lease'.owner = NoProc /\ held[lease.owner] = lease.token
  <1>1. ASSUME NEW p \in Procs, Acquire(p) PROVE Kept
    <2>1. lease.owner = p
      BY <1>1 DEF Acquire, Unleased
    <2> QED BY <1>1, <2>1 DEF Acquire
  <1>2. ASSUME NEW p \in Procs, Renew(p) PROVE Kept
    BY <1>2 DEF Renew
  <1>3. ASSUME NEW p \in Procs, Release(p) PROVE Kept
    <2>1. CASE Fenced(p) /\ lease' = [lease EXCEPT !.owner = NoProc, !.expires = 0]
      <3>1. lease'.owner = NoProc /\ held[lease.owner] = lease.token
        BY <2>1 DEF Fenced
      <3> QED BY <3>1
    <2>2. CASE UNCHANGED lease
      BY <2>2
    <2> QED BY <1>3, <2>1, <2>2 DEF Release
  <1>4. CASE UNCHANGED lease
    BY <1>4
  <1> QED
    BY <1>1, <1>2, <1>3, <1>4
       DEF Next, PatchRead, Patch, PatchFails, RenewRead, RenewalEnds, ReadState, AdminPatch,
           Crash, Tick, leaseVars

(* Nobody is granted the lease, and nobody shortens it, while another        *)
(* process's lease is live; only the holder that was granted it gives it up  *)
(* (acquire_lease, renew_lease, release_lease).                             *)
THEOREM LiveLeaseStays == Spec => LiveLeaseKept
  <1>1. Init => ExpiryInReach
    BY LeaseAssumption DEF Init, ExpiryInReach
  <1>2. LeaseInv /\ ExpiryInReach /\ [Next]_leaseVars => ExpiryInReach'
    BY StepKeepsReach
  <1>3. LeaseInv /\ ExpiryInReach /\ [Next]_leaseVars =>
          [ Live /\ lease.owner \in Procs
            => \/ lease'.owner = lease.owner /\ lease'.expires >= lease.expires
               \/ lease'.owner = NoProc /\ held[lease.owner] = lease.token ]_leaseVars
    BY StepKeepsLease
  <1> QED BY <1>1, <1>2, <1>3, LeaseInvariant, PTL DEF Spec, LiveLeaseKept

HIDE DEF Tokens, Threads

-----------------------------------------------------------------------------
(* Publication, whether or not passes outlive their lease.                   *)

\* The phases of a pass in which its build cannot have been published yet.
Unpublished == {"leased", "scanned", "begin", "detach", "begin_patch",
                "copy", "write", "publish", "swap"}

\* The part of the type invariant the publication protocol rests on.
DocTypeOK ==
    /\ doc \in [active : Tokens, pending : Tokens, retired : SUBSET Retired]
    /\ pc \in [Procs -> Phases]
    /\ arg \in [Procs -> SUBSET Retired]

\* No build is visible that no lease was granted for.
ActiveGranted == doc.active <= lease.token

\* A pass that has not published holds a lease, and its build is not visible.
UnpublishedHidden ==
    \A p \in Procs : pc[p] \in Unpublished => held[p] # 0 /\ doc.active # held[p]

\* The inductive invariant.
PubInv ==
    /\ LeaseInv
    /\ DocTypeOK
    /\ ActiveGranted
    /\ UnpublishedHidden
    /\ PendingAhead

USE DEF Tokens, Threads

(* A step of the publication protocol is a step of the writer lease, or      *)
(* leaves it alone.                                                         *)
LEMMA PubStepIsLeaseStep == [PubNext]_vars => [Next]_leaseVars
  <1> SUFFICES ASSUME [PubNext]_vars PROVE [Next]_leaseVars
    OBVIOUS
  <1>1. ASSUME NEW p \in Procs, Pass(p) PROVE [Next]_leaseVars
    BY <1>1 DEF Pass, Begin, Scan, Unreachable, NothingNew, Plan, BeginCheck,
         DeletePending, BeginBuild, BeginFails, CopyForward, WriteChanged,
         WriteFailsMidway, PublishCheck, Publish, PublishFails, CollectGarbage,
         AbortCheck, Discard, Unpend, AbortFails, SetOnline, SetOnlineFails,
         ReadForPatch, Finish, PatchFailsTo, Next
  <1>2. ASSUME NEW p \in Procs, Renewal(p) \/ Die(p) PROVE [Next]_leaseVars
    BY <1>2 DEF Renewal, Die, Next
  <1>3. ASSUME Administer \/ Advance PROVE [Next]_leaseVars
    BY <1>3 DEF Administer, Advance, Next
  <1>4. ASSUME UNCHANGED vars PROVE [Next]_leaseVars
    BY <1>4 DEF vars
  <1> QED BY <1>1, <1>2, <1>3, <1>4 DEF PubNext

(* The initial state satisfies the inductive invariant.                     *)
LEMMA InitPubInv == PubInit => PubInv
  <1> SUFFICES ASSUME PubInit PROVE PubInv
    OBVIOUS
  <1>1. LeaseInv
    BY InitLeaseInv DEF PubInit
  <1>2. DocTypeOK
    <2>1. NoBuild \in Tokens
      BY LeaseAssumption DEF NoBuild
    <2>2. doc \in [active : Tokens, pending : Tokens, retired : SUBSET Retired]
      BY <2>1 DEF PubInit
    <2> QED BY <2>2 DEF PubInit, DocTypeOK, Phases
  <1>3. ActiveGranted
    BY DEF PubInit, Init, ActiveGranted, NoBuild
  <1>4. UnpublishedHidden /\ PendingAhead
    BY DEF PubInit, UnpublishedHidden, PendingAhead, Unpublished, NoBuild
  <1> QED BY <1>1, <1>2, <1>3, <1>4 DEF PubInv

(* A step that leaves the document, the leases held and their tokens alone   *)
(* and moves a pass from one unpublished phase to another, or out of them,   *)
(* keeps the invariant.                                                     *)
LEMMA LocalStep ==
  ASSUME PubInv, LeaseInv', NEW p \in Procs, NEW l \in Phases, Goto(p, l),
         UNCHANGED <<doc, held>>, lease'.token = lease.token,
         arg' \in [Procs -> SUBSET Retired],
         l \in Unpublished => pc[p] \in Unpublished
  PROVE  PubInv'
  <1> USE DEF PubInv
  <1>1. pc' = [pc EXCEPT ![p] = l]
    BY DEF Goto
  <1>2. DocTypeOK'
    BY <1>1 DEF DocTypeOK
  <1>3. ActiveGranted' /\ PendingAhead'
    BY DEF ActiveGranted, PendingAhead
  <1>4. UnpublishedHidden'
    BY <1>1 DEF UnpublishedHidden, DocTypeOK
  <1> QED BY <1>2, <1>3, <1>4

(* The steps of a pass that touch neither the document nor the lease.        *)
LEMMA RecordStep ==
  ASSUME PubInv, LeaseInv', NEW p \in Procs,
         \/ \E m \in Scans : Scan(p, m)
         \/ Unreachable(p) \/ NothingNew(p)
         \/ \E full \in BOOLEAN : Plan(p, full)
         \/ BeginCheck(p) \/ DeletePending(p) \/ BeginFails(p)
         \/ CopyForward(p) \/ WriteChanged(p) \/ WriteFailsMidway(p)
         \/ PublishCheck(p) \/ PublishFails(p) \/ CollectGarbage(p)
         \/ AbortCheck(p) \/ Discard(p) \/ AbortFails(p) \/ SetOnline(p)
         \/ SetOnlineFails(p)
  PROVE  PubInv'
  <1> USE DEF Phases, Unpublished
  <1> DEFINE Local(l) == /\ l \in Phases
                         /\ Goto(p, l)
                         /\ UNCHANGED <<doc, held, lease>>
                         /\ l \in Unpublished => pc[p] \in Unpublished
  <1>1. \E l \in Phases : Local(l)
    <2>1. CASE \/ \E m \in Scans : Scan(p, m)
               \/ Unreachable(p) \/ NothingNew(p)
               \/ \E full \in BOOLEAN : Plan(p, full)
               \/ BeginCheck(p) \/ DeletePending(p)
      BY <2>1 DEF Scan, Unreachable, NothingNew, Plan, BeginCheck, DeletePending,
                  leaseVars
    <2>2. CASE CopyForward(p) \/ WriteChanged(p) \/ WriteFailsMidway(p)
               \/ PublishCheck(p) \/ CollectGarbage(p) \/ AbortCheck(p) \/ Discard(p)
      BY <2>2 DEF CopyForward, WriteChanged, WriteFailsMidway, PublishCheck,
                  CollectGarbage, AbortCheck, Discard, leaseVars
    <2>3. CASE BeginFails(p) \/ PublishFails(p) \/ AbortFails(p)
               \/ SetOnline(p) \/ SetOnlineFails(p)
      BY <2>3 DEF BeginFails, PublishFails, AbortFails, SetOnline, SetOnlineFails,
                  PatchFailsTo, Patch, PatchFails, leaseVars
    <2> QED BY <2>1, <2>2, <2>3
  <1>2. arg' \in [Procs -> SUBSET Retired]
    <2>0. arg \in [Procs -> SUBSET Retired]
      BY DEF PubInv, DocTypeOK
    <2>1. CASE BeginCheck(p)
      <3>1. CASE UNCHANGED arg
        BY <2>0, <3>1
      <3>2. CASE /\ doc.pending \notin {NoBuild, held[p]}
                 /\ arg' = [arg EXCEPT ![p] = {[build |-> doc.pending, at |-> 0]}]
        <4>1. doc.pending \in Builds
          BY <3>2, LeaseAssumption DEF PubInv, DocTypeOK, Builds, NoBuild
        <4>2. [build |-> doc.pending, at |-> 0] \in Retired
          BY <4>1 DEF Retired
        <4> QED BY <2>0, <3>2, <4>2
      <3> QED BY <2>1, <3>1, <3>2 DEF BeginCheck
    <2>2. CASE PublishCheck(p)
      <3>1. CASE UNCHANGED arg
        BY <2>0, <3>1
      <3> DEFINE old == {[build |-> b, at |-> now] : b \in {doc.active} \ {NoBuild, held[p]}}
                 keep == {r \in doc.retired \cup old : now - r.at < Grace}
      <3>2. CASE arg' = [arg EXCEPT ![p] = keep]
        <4>1. doc.active \notin {NoBuild} => doc.active \in Builds
          BY LeaseAssumption DEF PubInv, DocTypeOK, Builds, NoBuild
        <4>2. old \subseteq Retired
          BY <4>1 DEF Retired, PubInv, LeaseInv, TypeOK
        <4>3. keep \subseteq Retired
          BY <4>2 DEF PubInv, DocTypeOK
        <4> HIDE DEF keep
        <4> QED BY <2>0, <3>2, <4>3
      <3> QED BY <2>2, <3>1, <3>2 DEF PublishCheck
    <2>3. CASE DeletePending(p) \/ BeginFails(p)
      BY <2>0, <2>3 DEF DeletePending, BeginFails, PatchFailsTo
    <2>4. CASE UNCHANGED arg
      BY <2>0, <2>4
    <2> QED
      BY <2>1, <2>2, <2>3, <2>4
         DEF Scan, Unreachable, NothingNew, Plan, CopyForward, WriteChanged,
             WriteFailsMidway, PublishFails, CollectGarbage, AbortCheck, Discard,
             AbortFails, SetOnline, SetOnlineFails, PatchFailsTo
  <1> QED BY <1>1, <1>2, LocalStep

(* Every step keeps the inductive invariant.                                *)
LEMMA NextPubInv == PubInv /\ [PubNext]_vars => PubInv'
  <1> SUFFICES ASSUME PubInv, [PubNext]_vars PROVE PubInv'
    OBVIOUS
  <1>0. LeaseInv'
    BY PubStepIsLeaseStep, NextLeaseInv DEF PubInv
  <1> USE DEF PubInv
  <1>1. ASSUME NEW p \in Procs, Begin(p) PROVE PubInv'
    <2>1. /\ lease' = [owner |-> p, token |-> lease.token + 1, expires |-> now + TTL]
          /\ held' = [held EXCEPT ![p] = lease.token + 1]
          /\ pc' = [pc EXCEPT ![p] = "leased"]
          /\ UNCHANGED <<doc, arg>>
      BY <1>1 DEF Begin, Acquire, Goto
    <2>2. DocTypeOK'
      BY <2>1 DEF DocTypeOK, Phases
    <2>3. ActiveGranted' /\ PendingAhead'
      BY <2>1 DEF ActiveGranted, PendingAhead, DocTypeOK, LeaseInv, TypeOK
    <2>4. UnpublishedHidden'
      BY <2>1 DEF UnpublishedHidden, ActiveGranted, DocTypeOK, LeaseInv, TypeOK
    <2> QED BY <1>0, <2>2, <2>3, <2>4
  <1>2. ASSUME NEW p \in Procs, BeginBuild(p) PROVE PubInv'
    <2>1. /\ doc' = [doc EXCEPT !.pending = held[p]]
          /\ pc[p] = "begin_patch"
          /\ pc' = [pc EXCEPT ![p] = "copy"]
          /\ lease.token = held[p]
          /\ UNCHANGED <<arg, held, lease>>
      BY <1>2 DEF BeginBuild, Patch, WriteState, Goto, LeaseInv, CurrentReadIsHolders
    <2>2. held[p] \in Tokens
      BY DEF LeaseInv, TypeOK
    <2>3. DocTypeOK'
      BY <2>1, <2>2 DEF DocTypeOK, Phases
    <2>4. ActiveGranted'
      BY <2>1 DEF ActiveGranted, DocTypeOK
    <2>5. UnpublishedHidden'
      BY <2>1 DEF UnpublishedHidden, DocTypeOK, Unpublished
    <2>6. PendingAhead'
      BY <2>1, <2>2 DEF PendingAhead, UnpublishedHidden, ActiveGranted, DocTypeOK,
                        Unpublished
    <2> QED BY <1>0, <2>3, <2>4, <2>5, <2>6
  <1>3. ASSUME NEW p \in Procs, Publish(p) PROVE PubInv'
    <2>1. /\ doc' = [active |-> held[p], pending |-> NoBuild, retired |-> arg[p]]
          /\ pc[p] = "swap"
          /\ \E l \in {"gc", "abort"} : pc' = [pc EXCEPT ![p] = l]
          /\ lease.token = held[p]
          /\ UNCHANGED <<arg, held, lease>>
      BY <1>3 DEF Publish, Patch, WriteState, Goto, LeaseInv, CurrentReadIsHolders
    <2>2. held[p] \in Tokens /\ NoBuild \in Tokens
      BY LeaseAssumption DEF LeaseInv, TypeOK, NoBuild
    <2>3. DocTypeOK'
      BY <2>1, <2>2 DEF DocTypeOK, Phases
    <2>4. ActiveGranted'
      BY <2>1, <2>2 DEF ActiveGranted
    <2>5. UnpublishedHidden'
      <3> SUFFICES ASSUME NEW q \in Procs, pc'[q] \in Unpublished
                   PROVE  held[q] # 0 /\ held[p] # held[q]
        BY <2>1 DEF UnpublishedHidden
      <3>1. q # p /\ pc[q] \in Unpublished
        BY <2>1 DEF DocTypeOK, Unpublished
      <3> QED BY <3>1 DEF UnpublishedHidden, LeaseInv, TokensUnique
    <2>6. PendingAhead'
      BY <2>1 DEF PendingAhead
    <2> QED BY <1>0, <2>3, <2>4, <2>5, <2>6
  <1>4. ASSUME NEW p \in Procs, Unpend(p) PROVE PubInv'
    <2>1. /\ doc' = [doc EXCEPT !.pending = NoBuild]
          /\ pc' = [pc EXCEPT ![p] = "finish"]
          /\ UNCHANGED <<arg, held, lease>>
      BY <1>4 DEF Unpend, Patch, Goto
    <2>2. NoBuild \in Tokens
      BY LeaseAssumption DEF NoBuild
    <2>3. DocTypeOK'
      BY <2>1, <2>2 DEF DocTypeOK, Phases
    <2>4. ActiveGranted' /\ PendingAhead'
      BY <2>1 DEF ActiveGranted, PendingAhead, DocTypeOK
    <2>5. UnpublishedHidden'
      BY <2>1 DEF UnpublishedHidden, DocTypeOK, Unpublished
    <2> QED BY <1>0, <2>3, <2>4, <2>5
  <1>5. ASSUME NEW p \in Procs, Finish(p) \/ Die(p) PROVE PubInv'
    <2>1. /\ \E l \in {"idle", "dead"} : pc' = [pc EXCEPT ![p] = l]
          /\ held' = [held EXCEPT ![p] = 0]
          /\ arg' = [arg EXCEPT ![p] = {}]
          /\ UNCHANGED doc
      BY <1>5 DEF Finish, Die, Release, Crash, Goto
    <2>2. lease'.token = lease.token
      BY <1>5 DEF Finish, Die, Release, Crash, LeaseInv, TypeOK
    <2>3. DocTypeOK'
      BY <2>1 DEF DocTypeOK, Phases
    <2>4. ActiveGranted' /\ PendingAhead'
      BY <2>1, <2>2 DEF ActiveGranted, PendingAhead
    <2>5. UnpublishedHidden'
      BY <2>1 DEF UnpublishedHidden, DocTypeOK, Unpublished, LeaseInv, TypeOK
    <2> QED BY <1>0, <2>3, <2>4, <2>5
  <1>6. ASSUME UNCHANGED <<doc, pc, arg, held>>, lease'.token = lease.token
        PROVE  PubInv'
    BY <1>0, <1>6 DEF DocTypeOK, ActiveGranted, UnpublishedHidden, PendingAhead
  <1>7. ASSUME \/ \E p \in Procs : ReadForPatch(p) \/ Renewal(p)
               \/ Administer \/ Advance \/ UNCHANGED vars
        PROVE  PubInv'
    <2>1. UNCHANGED <<doc, pc, arg, held>>
      BY <1>7 DEF ReadForPatch, PatchRead, ReadState, Renewal, RenewRead, Renew,
                  RenewalEnds, Administer, AdminPatch, Advance, Tick, pubVars,
                  vars, leaseVars
    <2>2. lease'.token = lease.token
      BY <1>7 DEF ReadForPatch, PatchRead, ReadState, Renewal, RenewRead, Renew,
                  RenewalEnds, Administer, AdminPatch, Advance, Tick, pubVars,
                  vars, leaseVars, LeaseInv, TypeOK
    <2> QED BY <1>6, <2>1, <2>2
  <1>8. ASSUME NEW p \in Procs, Pass(p) PROVE PubInv'
    BY <1>0, <1>1, <1>2, <1>3, <1>4, <1>5, <1>7, <1>8, RecordStep DEF Pass
  <1> QED BY <1>5, <1>7, <1>8 DEF PubNext

(* Every reachable state satisfies the inductive invariant.                 *)
THEOREM PubInvariant == PubSpec => []PubInv
  <1>1. PubInit => PubInv
    BY InitPubInv
  <1>2. PubInv /\ [PubNext]_vars => PubInv'
    BY NextPubInv
  <1> QED BY <1>1, <1>2, PTL DEF PubSpec

(* Publication keeps every promise of the writer lease: each of its          *)
(* behaviours is one of WriterLease.                                        *)
THEOREM PublishUsesLease == PubSpec => Spec
  <1>1. PubInit => Init
    BY DEF PubInit
  <1>2. [PubNext]_vars => [Next]_leaseVars
    BY PubStepIsLeaseStep
  <1> QED BY <1>1, <1>2, PTL DEF PubSpec, Spec

(* A pending build is always newer than the visible one, even when passes    *)
(* outlive their lease (begin_build_with, publish_build_ext).                *)
THEOREM PendingNewer == PubSpec => []PendingAhead
  <1>1. PubInv => PendingAhead
    BY DEF PubInv
  <1> QED BY <1>1, PubInvariant, PTL

(* The visible build never goes back to that of an older lease, even when    *)
(* passes outlive their lease (check_lease and if_seq_no in patch_state).    *)
THEOREM PublicationForward == PubSpec => PublishesForward
  <1>1. PubInv /\ [PubNext]_vars => [doc'.active >= doc.active]_vars
    <2> SUFFICES ASSUME PubInv, PubNext PROVE doc'.active >= doc.active
      BY DEF vars
    <2> USE DEF PubInv
    <2>1. ASSUME NEW p \in Procs, Publish(p) PROVE doc'.active >= doc.active
      <3>1. doc'.active = held[p] /\ lease.token = held[p]
        BY <2>1 DEF Publish, Patch, WriteState, LeaseInv, CurrentReadIsHolders
      <3> QED BY <3>1 DEF ActiveGranted, DocTypeOK, LeaseInv, TypeOK
    <2>2. ASSUME NEW p \in Procs, BeginBuild(p) \/ Unpend(p)
          PROVE  doc'.active >= doc.active
      BY <2>2 DEF BeginBuild, Unpend, DocTypeOK
    <2>3. ASSUME UNCHANGED doc PROVE doc'.active >= doc.active
      BY <2>3 DEF DocTypeOK
    <2>4. ASSUME NEW p \in Procs, Pass(p) PROVE doc'.active >= doc.active
      BY <2>1, <2>2, <2>3, <2>4
         DEF Pass, Begin, Scan, Unreachable, NothingNew, Plan, BeginCheck,
             DeletePending, BeginFails, CopyForward, WriteChanged,
             WriteFailsMidway, PublishCheck, PublishFails, CollectGarbage,
             AbortCheck, Discard, AbortFails, SetOnline, SetOnlineFails,
             ReadForPatch, Finish, PatchFailsTo, pubVars
    <2> QED
      BY <2>3, <2>4 DEF PubNext, Renewal, Die, Administer, Advance, pubVars
  <1> QED BY <1>1, PubInvariant, PTL DEF PubSpec, PublishesForward

-----------------------------------------------------------------------------

(* What readers see when no pass outlives its lease: every build they may    *)
(* be reading is whole, and they see one scan at a time.  Without overrun    *)
(* the lease makes a pass the only one; the invariant says what the records  *)
(* look like in each of its phases: a build nobody wrote yet is in no        *)
(* record, the planned copies carry the content of the visible build, and    *)
(* what is retired, visible, or about to be, is whole.                       *)

\* Complete, without counting: of every file a build has the records of one
\* writing build, with the content it was staged with, or none.
WholeFile(b, f) ==
    IF staged[b][f] = Absent THEN WritersOf(b, f) = {}
    ELSE \E c \in Builds : WritersOf(b, f) = {c} /\ staged[c][f] = staged[b][f]

Whole(b) == \A f \in Files : WholeFile(b, f)

RecTypeOK ==
    /\ staged \in [Builds -> Manifests]
    /\ recs \in [Builds -> [Files -> SUBSET Builds]]
    /\ base \in [Procs -> Tokens]
    /\ copies \in [Procs -> SUBSET Files]

\* A pass that holds a lease holds the newest, and it is live.
LoneHolder ==
    \A p \in Procs :
        held[p] # 0 => lease.owner = p /\ lease.token = held[p] /\ Live

\* Between its lease and its end, a pass holds its lease.
PassHolds == \A p \in Procs : pc[p] \notin {"idle", "dead"} => held[p] # 0

\* No record belongs to a build no lease was granted for.
RecsGranted ==
    \A c \in Builds, f \in Files :
        /\ c > lease.token => recs[c][f] = {}
        /\ \A b \in recs[c][f] : b <= lease.token

\* The visible build and the retired ones.
Kept == ({doc.active} \ {NoBuild}) \cup Ids(doc.retired)

KeptWhole == \A b \in Kept : Whole(b)

RetiredOlder == \A b \in Ids(doc.retired) : b < doc.active

\* No record is, or belongs to, build b.
Untouched(b) == \A c \in Builds, f \in Files : b \notin recs[c][f] /\ recs[b][f] = {}

\* What a pass copies is in the visible build with the content it staged.
PlanTrue(p) ==
    /\ base[p] = doc.active
    /\ \A f \in copies[p] :
          /\ base[p] # NoBuild
          /\ staged[held[p]][f] # Absent
          /\ staged[base[p]][f] = staged[held[p]][f]

\* What was copied is whole, the rest is not there yet.
CopiesThere(p) ==
    /\ \A f \in copies[p] : staged[held[p]][f] # Absent /\ WholeFile(held[p], f)
    /\ \A f \in Files \ copies[p] : WritersOf(held[p], f) = {}
    /\ \A f \in Files : recs[held[p]][f] = {}

PassRight(p) ==
    /\ pc[p] \in {"leased", "scanned", "begin", "detach", "begin_patch", "copy"} =>
          Untouched(held[p])
    /\ pc[p] \in {"begin", "detach", "begin_patch", "copy"} => PlanTrue(p)
    /\ pc[p] = "detach" => \A b \in Ids(arg[p]) : b > doc.active
    /\ pc[p] = "write" => CopiesThere(p)
    /\ pc[p] \in {"publish", "swap"} => Whole(held[p])
    /\ pc[p] = "swap" => Ids(arg[p]) \subseteq Kept
    /\ pc[p] = "gc" => doc.active = held[p] /\ arg[p] = doc.retired
    /\ pc[p] \in {"discard", "discard_pending"} => doc.active # held[p]

PassesRight == \A p \in Procs : PassRight(p)

SnapInv ==
    /\ PubInv
    /\ RecTypeOK
    /\ LoneHolder
    /\ PassHolds
    /\ RecsGranted
    /\ KeptWhole
    /\ RetiredOlder
    /\ PassesRight

USE DEF Tokens, Threads

-----------------------------------------------------------------------------
(* Facts about records.                                                      *)

(* What is whole is complete as ServerPublish means it.                      *)
LEMMA WholeIsComplete ==
  ASSUME NEW b, Whole(b)
  PROVE  Complete(b)
  <1> SUFFICES ASSUME NEW f \in Files, staged[b][f] # Absent
               PROVE  Cardinality(WritersOf(b, f)) = 1 /\ Indexed(b, f) = {staged[b][f]}
    BY DEF Whole, WholeFile, Complete
  <1>1. PICK c \in Builds : WritersOf(b, f) = {c} /\ staged[c][f] = staged[b][f]
    BY DEF Whole, WholeFile
  <1>2. Cardinality(WritersOf(b, f)) = 1
    BY <1>1, FS_Singleton
  <1>3. Indexed(b, f) = {staged[b][f]}
    BY <1>1 DEF Indexed
  <1> QED BY <1>2, <1>3

(* A file stays whole while its records and what they were staged with stay. *)
LEMMA WholeFileStays ==
  ASSUME NEW b, NEW f, WholeFile(b, f),
         staged'[b] = staged[b], WritersOf(b, f)' = WritersOf(b, f),
         \A c \in WritersOf(b, f) : staged'[c] = staged[c]
  PROVE  WholeFile(b, f)'
  <1>1. CASE staged[b][f] = Absent
    BY <1>1 DEF WholeFile
  <1>2. CASE staged[b][f] # Absent
    <2>1. PICK c \in Builds : WritersOf(b, f) = {c} /\ staged[c][f] = staged[b][f]
      BY <1>2 DEF WholeFile
    <2>2. WritersOf(b, f)' = {c} /\ staged'[c][f] = staged'[b][f]
      BY <2>1
    <2> QED BY <1>2, <2>2 DEF WholeFile
  <1> QED BY <1>1, <1>2

(* A build is as whole as its records and what was staged for it.            *)
LEMMA WholeStays ==
  ASSUME NEW b, Whole(b), staged' = staged,
         \A c \in Builds, f \in Files : b \in recs'[c][f] <=> b \in recs[c][f]
  PROVE  Whole(b)'
  <1> SUFFICES ASSUME NEW f \in Files PROVE WholeFile(b, f)'
    BY DEF Whole
  <1>1. WritersOf(b, f)' = WritersOf(b, f)
    BY DEF WritersOf
  <1> QED BY <1>1, WholeFileStays DEF Whole

-----------------------------------------------------------------------------
(* The lease makes a pass the only one.                                      *)

(* Without overrun there is one pass at a time.                              *)
LEMMA OnlyPass ==
  ASSUME SnapInv, NEW p \in Procs, NEW q \in Procs,
         pc[p] \notin {"idle", "dead"}, pc[q] \notin {"idle", "dead"}
  PROVE  p = q
  BY DEF SnapInv, PassHolds, LoneHolder

(* Its token is that of the newest grant, and that of a build.               *)
LEMMA PassToken ==
  ASSUME SnapInv, NEW p \in Procs, pc[p] \notin {"idle", "dead"}
  PROVE  held[p] \in Builds /\ held[p] = lease.token /\ lease.token \in Nat
  <1>1. held[p] \in Tokens /\ held[p] # 0 /\ lease.token = held[p]
    BY DEF SnapInv, PassHolds, LoneHolder, PubInv, LeaseInv, TypeOK
  <1> QED BY <1>1, LeaseAssumption DEF Builds

(* What is kept for readers is older than a build not yet visible.           *)
LEMMA KeptGranted ==
  ASSUME SnapInv, NEW b \in Kept
  PROVE  b \in Builds /\ b <= doc.active /\ b <= lease.token
  <1>1. doc.active \in 0 .. MaxToken /\ doc.retired \subseteq Retired /\ doc.active <= lease.token
    BY DEF SnapInv, PubInv, DocTypeOK, ActiveGranted
  <1>2. lease.token \in Nat /\ MaxToken \in Nat
    BY LeaseAssumption DEF SnapInv, PubInv, LeaseInv, TypeOK
  <1>3. CASE b \in {doc.active} \ {NoBuild}
    BY <1>1, <1>2, <1>3 DEF NoBuild, Builds
  <1>4. CASE b \in Ids(doc.retired)
    <2>1. b \in Builds
      BY <1>1, <1>4 DEF Ids, Retired
    <2>2. b < doc.active
      BY <1>4 DEF SnapInv, RetiredOlder
    <2> QED BY <1>1, <1>2, <2>1, <2>2 DEF Builds
  <1> QED BY <1>3, <1>4 DEF Kept

(* Every step keeps the newest lease live for as long as it is held.         *)
LEMMA LoneHolderStays ==
  ASSUME SnapInv, [PubNext]_vars, Overrun = FALSE
  PROVE  LoneHolder'
  <1> USE DEF SnapInv, PubInv, LeaseInv, TypeOK, LoneHolder, Live
  <1> USE LeaseAssumption
  <1>1. ASSUME NEW p \in Procs, Acquire(p) PROVE LoneHolder'
    <2>1. \A q \in Procs : held[q] = 0
      BY <1>1 DEF Acquire, Unleased
    <2>2. /\ lease' = [owner |-> p, token |-> lease.token + 1, expires |-> now + TTL]
          /\ held' = [held EXCEPT ![p] = lease.token + 1] /\ now' = now
      BY <1>1 DEF Acquire
    <2> QED BY <2>1, <2>2
  <1>2. ASSUME NEW p \in Procs, Renew(p) PROVE LoneHolder'
    <2>1. lease' = [lease EXCEPT !.expires = now + TTL] /\ held' = held /\ now' = now
      BY <1>2 DEF Renew
    <2> QED BY <2>1
  <1>3. ASSUME NEW p \in Procs, Release(p) PROVE LoneHolder'
    <2>1. \A q \in Procs : q # p => held[q] = 0
      BY <1>3 DEF Release
    <2>2. held' = [held EXCEPT ![p] = 0]
      BY <1>3 DEF Release
    <2> QED BY <2>1, <2>2
  <1>4. ASSUME NEW p \in Procs, Crash(p) PROVE LoneHolder'
    BY <1>4 DEF Crash
  <1>5. ASSUME Advance PROVE LoneHolder'
    <2>1. /\ now' = now + 1 /\ lease' = lease /\ held' = held
          /\ \A p \in Procs : held[p] # 0 /\ held[p] = lease.token => now + 1 < lease.expires
      BY <1>5 DEF Advance, Tick
    <2> QED BY <2>1
  <1>6. ASSUME UNCHANGED <<lease, held, now>> PROVE LoneHolder'
    BY <1>6
  <1> HIDE DEF SnapInv, PubInv, LeaseInv, TypeOK, LoneHolder, Live
  <1>7. ASSUME NEW p \in Procs, Renewal(p) \/ Die(p) PROVE LoneHolder'
    BY <1>2, <1>4, <1>6, <1>7 DEF Renewal, Die, RenewRead, ReadState, RenewalEnds
  <1>8. ASSUME NEW p \in Procs, Pass(p) PROVE LoneHolder'
    <2>1. CASE Begin(p) \/ Finish(p)
      BY <1>1, <1>3, <2>1 DEF Begin, Finish
    <2>2. CASE ~(Begin(p) \/ Finish(p))
      BY <1>6, <1>8, <2>2
         DEF Pass, Scan, Unreachable, NothingNew, Plan, BeginCheck, DeletePending, BeginBuild,
             BeginFails, CopyForward, WriteChanged, WriteFailsMidway, PublishCheck, Publish,
             PublishFails, CollectGarbage, AbortCheck, Discard, Unpend, AbortFails, SetOnline,
             SetOnlineFails, ReadForPatch, PatchFailsTo, Patch, PatchFails, PatchRead, ReadState,
             leaseVars
    <2> QED BY <2>1, <2>2
  <1>9. CASE Administer
    BY <1>6, <1>9 DEF Administer, AdminPatch
  <1>10. CASE UNCHANGED vars
    BY <1>6, <1>10 DEF vars, leaseVars
  <1> QED BY <1>5, <1>7, <1>8, <1>9, <1>10 DEF PubNext

-----------------------------------------------------------------------------
(* What a step has to show.                                                  *)

(* A step of a pass that goes on holding its lease: the other processes have *)
(* no pass, so what is said of passes need only be shown of this one.        *)
LEMMA PassStep ==
  ASSUME SnapInv, PubInv', LoneHolder', NEW p \in Procs, pc[p] \notin {"idle", "dead"},
         NEW l \in Phases \ {"idle", "dead"}, Goto(p, l), UNCHANGED held,
         RecTypeOK', RecsGranted', KeptWhole', RetiredOlder', PassRight(p)'
  PROVE  SnapInv'
  <1>1. pc \in [Procs -> Phases] /\ pc' = [pc EXCEPT ![p] = l]
    BY DEF SnapInv, PubInv, DocTypeOK, Goto
  <1>2. \A q \in Procs : q # p => pc'[q] = pc[q] /\ pc[q] \in {"idle", "dead"}
    BY <1>1, OnlyPass
  <1>3. PassHolds'
    BY <1>1, <1>2 DEF SnapInv, PassHolds
  <1>4. ASSUME NEW q \in Procs, q # p PROVE PassRight(q)'
    BY <1>2, <1>4 DEF PassRight
  <1>5. PassesRight'
    BY <1>4 DEF PassesRight
  <1> QED BY <1>3, <1>5 DEF SnapInv

(* The same when neither builds, records nor the document change.            *)
LEMMA QuietPassStep ==
  ASSUME SnapInv, PubInv', LoneHolder', NEW p \in Procs, pc[p] \notin {"idle", "dead"},
         NEW l \in Phases \ {"idle", "dead"}, Goto(p, l),
         UNCHANGED <<held, staged, doc, recs>>, lease'.token = lease.token,
         base' \in [Procs -> Tokens], copies' \in [Procs -> SUBSET Files], PassRight(p)'
  PROVE  SnapInv'
  <1>1. RecTypeOK'
    BY DEF SnapInv, RecTypeOK
  <1>2. RecsGranted'
    BY DEF SnapInv, RecsGranted
  <1>3. KeptWhole'
    BY DEF SnapInv, KeptWhole, Kept, Whole, WholeFile, WritersOf
  <1>4. RetiredOlder'
    BY DEF SnapInv, RetiredOlder
  <1> QED BY <1>1, <1>2, <1>3, <1>4, PassStep

(* A step of the lease alone.                                                *)
LEMMA LeaseOnlyStep ==
  ASSUME SnapInv, PubInv', LoneHolder', UNCHANGED pubVars, UNCHANGED held,
         lease'.token = lease.token
  PROVE  SnapInv'
  <1> USE DEF SnapInv, pubVars
  <1>1. RecTypeOK' /\ PassHolds' /\ RecsGranted' /\ RetiredOlder'
    BY DEF RecTypeOK, PassHolds, RecsGranted, RetiredOlder
  <1>2. KeptWhole'
    BY DEF KeptWhole, Kept, Whole, WholeFile, WritersOf
  <1>3. PassesRight'
    BY DEF PassesRight, PassRight, Untouched, PlanTrue, CopiesThere, Kept, Whole, WholeFile, WritersOf
  <1> QED BY <1>1, <1>2, <1>3

-----------------------------------------------------------------------------
(* The steps of a pass that change neither records nor the document.         *)

\* Phases of which nothing is said.
Free == {"online", "finish", "abort", "unpend"}

(* Steps that touch no record, and no document of another pass.              *)
LEMMA FreeStep ==
  ASSUME SnapInv, PubInv', LoneHolder', NEW p \in Procs,
         \/ Unreachable(p) \/ NothingNew(p) \/ BeginFails(p) \/ WriteFailsMidway(p)
         \/ PublishFails(p) \/ AbortFails(p) \/ SetOnline(p) \/ SetOnlineFails(p)
  PROVE  SnapInv'
  <1> USE DEF Phases, Free
  <1>1. /\ pc[p] \notin {"idle", "dead"} /\ \E l \in Free : Goto(p, l)
        /\ UNCHANGED <<held, lease, staged, doc, recs, base, copies>>
    BY DEF Unreachable, NothingNew, BeginFails, WriteFailsMidway, PublishFails, AbortFails,
           SetOnline, SetOnlineFails, PatchFailsTo, Patch, PatchFails, leaseVars
  <1>2. PICK l \in Free : Goto(p, l)
    BY <1>1
  <1>3. pc'[p] = l
    BY <1>2 DEF SnapInv, PubInv, DocTypeOK, Goto
  <1>4. PassRight(p)'
    BY <1>3 DEF PassRight
  <1> QED BY <1>1, <1>2, <1>4, QuietPassStep DEF SnapInv, RecTypeOK

(* The plan of a build copies only files its publisher finds unchanged.      *)
LEMMA PlanStep ==
  ASSUME SnapInv, PubInv', LoneHolder', NEW p \in Procs, NEW full \in BOOLEAN, Plan(p, full)
  PROVE  SnapInv'
  <1> USE DEF SnapInv
  <1> DEFINE b == held[p]
  <1>1. /\ pc[p] = "scanned" /\ Goto(p, "begin")
        /\ UNCHANGED <<held, lease, staged, doc, recs, arg>>
        /\ base' = [base EXCEPT ![p] = doc.active]
        /\ copies' = [copies EXCEPT ![p] =
               IF full \/ doc.active = NoBuild THEN {}
               ELSE {f \in Files : staged[b][f] \in Indexed(doc.active, f)}]
    BY DEF Plan, leaseVars
  <1>2. base' \in [Procs -> Tokens] /\ copies' \in [Procs -> SUBSET Files]
    BY <1>1 DEF RecTypeOK, PubInv, DocTypeOK
  <1>3. pc'[p] = "begin"
    BY <1>1 DEF PubInv, DocTypeOK, Goto
  <1>4. base'[p] = doc.active /\ \A f \in copies'[p] :
            doc.active # NoBuild /\ f \in Files /\ staged[b][f] \in Indexed(doc.active, f)
    BY <1>1 DEF RecTypeOK
  <1>5. ASSUME NEW f \in copies'[p]
        PROVE  staged[b][f] # Absent /\ staged[doc.active][f] = staged[b][f]
    <2>1. WholeFile(doc.active, f)
      BY <1>4 DEF KeptWhole, Kept, Whole
    <2>2. staged[b][f] \in {staged[c][f] : c \in WritersOf(doc.active, f)}
      BY <1>4 DEF Indexed
    <2>3. staged[doc.active][f] # Absent
      BY <2>1, <2>2 DEF WholeFile
    <2>4. PICK c \in Builds : WritersOf(doc.active, f) = {c} /\ staged[c][f] = staged[doc.active][f]
      BY <2>1, <2>3 DEF WholeFile
    <2>5. staged[b][f] = staged[c][f]
      BY <2>2, <2>4
    <2> QED BY <2>3, <2>4, <2>5
  <1>6. PlanTrue(p)'
    BY <1>1, <1>4, <1>5 DEF PlanTrue
  <1>7. Untouched(held[p])'
    BY <1>1 DEF PassesRight, PassRight, Untouched
  <1>8. PassRight(p)'
    BY <1>3, <1>6, <1>7 DEF PassRight
  <1> QED BY <1>1, <1>2, <1>8, QuietPassStep DEF Phases

(* The check before a build begins reads what is pending.                    *)
LEMMA BeginCheckStep ==
  ASSUME SnapInv, PubInv', LoneHolder', NEW p \in Procs, BeginCheck(p)
  PROVE  SnapInv'
  <1> USE DEF SnapInv
  <1>1. /\ pc[p] = "begin" /\ UNCHANGED <<held, lease, staged, doc, recs, base, copies>>
        /\ \/ Goto(p, "finish") \/ Goto(p, "begin_patch")
           \/ /\ Goto(p, "detach") /\ doc.pending # NoBuild
              /\ arg' = [arg EXCEPT ![p] = {[build |-> doc.pending, at |-> 0]}]
    BY DEF BeginCheck, leaseVars
  <1>2. PICK l \in {"finish", "begin_patch", "detach"} : Goto(p, l)
    BY <1>1
  <1>3. pc'[p] = l
    BY <1>2 DEF PubInv, DocTypeOK, Goto
  <1>4. PlanTrue(p)' /\ Untouched(held[p])'
    BY <1>1 DEF PassesRight, PassRight, Untouched, PlanTrue
  <1>5. l = "detach" => \A b \in Ids(arg'[p]) : b > doc.active
    <2>1. l = "detach" => arg'[p] = {[build |-> doc.pending, at |-> 0]} /\ doc.pending # NoBuild
      BY <1>1, <1>3 DEF PubInv, DocTypeOK, Goto
    <2>2. doc.pending # NoBuild => doc.pending > doc.active
      BY DEF PubInv, PendingAhead
    <2> QED BY <2>1, <2>2 DEF Ids
  <1>6. PassRight(p)'
    BY <1>1, <1>3, <1>4, <1>5 DEF PassRight, Ids
  <1> QED BY <1>1, <1>2, <1>6, QuietPassStep DEF RecTypeOK, Phases

(* The check before the swap reads what will be retired.                     *)
LEMMA PublishCheckStep ==
  ASSUME SnapInv, PubInv', LoneHolder', NEW p \in Procs, PublishCheck(p)
  PROVE  SnapInv'
  <1> USE DEF SnapInv
  <1> DEFINE old  == {[build |-> b, at |-> now] : b \in {doc.active} \ {NoBuild, held[p]}}
             keep == {r \in doc.retired \cup old : now - r.at < Grace}
  <1>1. /\ pc[p] = "publish" /\ UNCHANGED <<held, lease, staged, doc, recs, base, copies>>
        /\ \/ Goto(p, "abort")
           \/ Goto(p, "swap") /\ arg' = [arg EXCEPT ![p] = keep]
    BY DEF PublishCheck, leaseVars
  <1>2. PICK l \in {"abort", "swap"} : Goto(p, l)
    BY <1>1
  <1>3. pc'[p] = l
    BY <1>2 DEF PubInv, DocTypeOK, Goto
  <1>4. Whole(held[p])'
    BY <1>1 DEF PassesRight, PassRight, Whole, WholeFile, WritersOf
  <1>5. l = "swap" => Ids(arg'[p]) \subseteq Kept
    <2>1. l = "swap" => arg'[p] = keep
      BY <1>1, <1>3 DEF PubInv, DocTypeOK, Goto
    <2>2. Ids(keep) \subseteq Kept
      BY DEF Ids, Kept
    <2> QED BY <2>1, <2>2
  <1>6. PassRight(p)'
    BY <1>1, <1>3, <1>4, <1>5 DEF PassRight, Kept, Ids
  <1> QED BY <1>1, <1>2, <1>6, QuietPassStep DEF RecTypeOK, Phases

(* The check before an abort finds the build pending, visible or gone.       *)
LEMMA AbortCheckStep ==
  ASSUME SnapInv, PubInv', LoneHolder', NEW p \in Procs, AbortCheck(p)
  PROVE  SnapInv'
  <1> USE DEF SnapInv
  <1>1. /\ pc[p] = "abort" /\ UNCHANGED <<held, lease, staged, doc, recs, base, copies, arg>>
        /\ \/ Goto(p, "finish")
           \/ (Goto(p, "discard") \/ Goto(p, "discard_pending")) /\ doc.active # held[p]
    BY DEF AbortCheck, leaseVars
  <1>2. PICK l \in {"finish", "discard", "discard_pending"} :
            Goto(p, l) /\ (l # "finish" => doc.active # held[p])
    BY <1>1
  <1>3. pc'[p] = l
    BY <1>2 DEF PubInv, DocTypeOK, Goto
  <1>4. PassRight(p)'
    BY <1>1, <1>2, <1>3 DEF PassRight
  <1> QED BY <1>1, <1>2, <1>4, QuietPassStep DEF RecTypeOK, Phases

-----------------------------------------------------------------------------
(* The steps of a pass that change the records.                              *)

(* A whole build stays whole when the records it is read from stay its own,  *)
(* and they were not staged again.                                           *)
LEMMA KeptWholeStays ==
  ASSUME SnapInv, UNCHANGED <<staged, doc>>,
         \A b \in Kept, c \in Builds, f \in Files : b \in recs'[c][f] <=> b \in recs[c][f]
  PROVE  KeptWhole' /\ RetiredOlder'
  <1>1. Kept' = Kept
    BY DEF Kept
  <1>2. ASSUME NEW b \in Kept PROVE Whole(b)'
    BY WholeStays DEF SnapInv, KeptWhole
  <1>3. KeptWhole'
    BY <1>1, <1>2 DEF KeptWhole
  <1>4. RetiredOlder'
    BY DEF SnapInv, RetiredOlder
  <1> QED BY <1>3, <1>4

(* A pass begins: its build is a new one, so no record is of it yet.         *)
LEMMA BeginStep ==
  ASSUME SnapInv, PubInv', LoneHolder', NEW p \in Procs, Begin(p)
  PROVE  SnapInv'
  <1> USE DEF SnapInv
  <1>1. /\ pc[p] = "idle" /\ held[p] = 0 /\ pc' = [pc EXCEPT ![p] = "leased"]
        /\ held' = [held EXCEPT ![p] = lease.token + 1] /\ lease'.token = lease.token + 1
        /\ lease.token < MaxToken
        /\ UNCHANGED <<staged, doc, recs, base, copies, arg>>
    BY DEF Begin, Acquire, Goto
  <1>2. /\ lease.token \in Nat /\ held \in [Procs -> Tokens] /\ pc \in [Procs -> Phases]
        /\ MaxToken \in Nat
    BY LeaseAssumption DEF PubInv, LeaseInv, TypeOK, DocTypeOK
  <1>3. held'[p] = lease.token + 1 /\ lease.token + 1 \in Builds /\ pc'[p] = "leased"
    BY <1>1, <1>2 DEF Builds
  <1>4. \A q \in Procs : q # p => held'[q] = held[q] /\ pc'[q] = pc[q]
    BY <1>1, <1>2
  <1>5. \A q \in Procs : q # p => held'[q] = 0
    BY <1>3, <1>2 DEF LoneHolder
  <1>6. \A q \in Procs : q # p => pc'[q] \in {"idle", "dead"}
    BY <1>4, <1>5 DEF PassHolds
  <1>7. RecTypeOK' /\ RetiredOlder'
    BY <1>1 DEF RecTypeOK, RetiredOlder
  <1>8. KeptWhole'
    BY <1>1 DEF KeptWhole, Kept, Whole, WholeFile, WritersOf
  <1>9. PassHolds'
    BY <1>2, <1>3, <1>6 DEF PassHolds
  <1>10. RecsGranted'
    <2>1. ASSUME NEW c \in Builds, NEW f \in Files
          PROVE  /\ c > lease.token + 1 => recs[c][f] = {}
                 /\ \A b \in recs[c][f] : b <= lease.token + 1
      <3>1. recs[c][f] \subseteq Builds
        BY DEF RecTypeOK
      <3> QED BY <1>2, <3>1 DEF RecsGranted, Builds
    <2> QED BY <1>1, <2>1 DEF RecsGranted
  <1>11. Untouched(held[p])'
    <2>1. ASSUME NEW c \in Builds, NEW f \in Files
          PROVE  lease.token + 1 \notin recs[c][f] /\ recs[lease.token + 1][f] = {}
      BY <1>2, <1>3 DEF RecsGranted, Builds
    <2> QED BY <1>1, <1>3, <2>1 DEF Untouched
  <1>12. PassRight(p)'
    BY <1>3, <1>11 DEF PassRight
  <1>13. ASSUME NEW q \in Procs, q # p PROVE PassRight(q)'
    BY <1>6, <1>13 DEF PassRight
  <1> QED BY <1>7, <1>8, <1>9, <1>10, <1>12, <1>13 DEF PassesRight

(* A pass stages what its source contains: other builds are not read from a   *)
(* build that is in no record.                                               *)
LEMMA ScanStep ==
  ASSUME SnapInv, PubInv', LoneHolder', NEW p \in Procs, NEW m \in Scans, Scan(p, m)
  PROVE  SnapInv'
  <1> USE DEF SnapInv
  <1>1. /\ pc[p] = "leased" /\ Goto(p, "scanned") /\ staged' = [staged EXCEPT ![held[p]] = m]
        /\ UNCHANGED <<held, lease, doc, recs, base, copies, arg>>
    BY DEF Scan, leaseVars
  <1>2. held[p] \in Builds
    BY <1>1, PassToken
  <1>3. Untouched(held[p])
    BY <1>1 DEF PassesRight, PassRight
  <1>4. RecTypeOK'
    BY <1>1, PublishAssumption DEF RecTypeOK, Manifests
  <1>5. RecsGranted' /\ RetiredOlder'
    BY <1>1 DEF RecsGranted, RetiredOlder
  <1>6. ASSUME NEW b \in Kept PROVE Whole(b)'
    <2>1. b \in Builds /\ b <= doc.active /\ doc.active # held[p] /\ ActiveGranted
      BY <1>1, KeptGranted DEF PubInv, UnpublishedHidden, Unpublished
    <2>2. held[p] = lease.token /\ lease.token \in Nat /\ doc.active \in Nat
      BY <1>1, PassToken DEF PubInv, DocTypeOK
    <2>3. b # held[p]
      BY <2>1, <2>2 DEF ActiveGranted, Builds
    <2>4. staged'[b] = staged[b]
      BY <1>1, <2>1, <2>3 DEF RecTypeOK
    <2> SUFFICES ASSUME NEW f \in Files PROVE WholeFile(b, f)'
      BY DEF Whole
    <2>5. WritersOf(b, f)' = WritersOf(b, f)
      BY <1>1 DEF WritersOf
    <2>6. ASSUME NEW c \in WritersOf(b, f) PROVE staged'[c] = staged[c]
      <3>1. c # held[p] /\ c \in Builds
        BY <1>3, <2>6 DEF Untouched, WritersOf
      <3> QED BY <1>1, <3>1 DEF RecTypeOK
    <2>7. WholeFile(b, f)
      BY DEF KeptWhole, Whole
    <2> QED BY <2>4, <2>5, <2>6, <2>7, WholeFileStays
  <1>7. KeptWhole'
    BY <1>1, <1>6 DEF KeptWhole, Kept
  <1>8. pc'[p] = "scanned"
    BY <1>1 DEF PubInv, DocTypeOK, Goto
  <1>9. PassRight(p)'
    BY <1>1, <1>3, <1>8 DEF PassRight, Untouched
  <1> QED BY <1>1, <1>4, <1>5, <1>7, <1>9, PassStep DEF Phases

(* Taking a build off every record leaves the others as they were.           *)
LEMMA DetachedKeeps ==
  ASSUME SnapInv, NEW old \in Builds, recs' = Detached(old), UNCHANGED <<staged, doc>>,
         old \notin Kept, lease'.token = lease.token, UNCHANGED <<base, copies>>
  PROVE  /\ RecTypeOK' /\ RecsGranted' /\ KeptWhole' /\ RetiredOlder'
         /\ \A b \in Builds : Untouched(b) => Untouched(b)'
  <1> USE DEF SnapInv
  <1>1. \A c \in Builds, f \in Files : recs'[c][f] = recs[c][f] \ {old}
    BY DEF Detached
  <1>2. RecTypeOK'
    BY <1>1 DEF RecTypeOK, Detached
  <1>3. RecsGranted'
    BY <1>1 DEF RecsGranted
  <1>4. KeptWhole' /\ RetiredOlder'
    BY <1>1, KeptWholeStays
  <1>5. \A b \in Builds : Untouched(b) => Untouched(b)'
    BY <1>1 DEF Untouched, Detached
  <1> QED BY <1>2, <1>3, <1>4, <1>5

(* Deleting an abandoned pending build touches no visible record.            *)
LEMMA DeletePendingStep ==
  ASSUME SnapInv, PubInv', LoneHolder', NEW p \in Procs, DeletePending(p)
  PROVE  SnapInv'
  <1> USE DEF SnapInv
  <1>1. PICK old \in Ids(arg[p]) :
            /\ pc[p] = "detach" /\ Goto(p, "begin_patch") /\ recs' = Detached(old)
            /\ UNCHANGED <<held, lease, staged, doc, base, copies>>
    BY DEF DeletePending, leaseVars
  <1>2. old \in Builds /\ old > doc.active
    BY <1>1 DEF PassesRight, PassRight, PubInv, DocTypeOK, Retired, Ids
  <1>3. old \notin Kept
    <2>1. doc.active \in Nat
      BY DEF PubInv, DocTypeOK
    <2> QED BY <1>2, <2>1, KeptGranted DEF Builds
  <1>4. /\ RecTypeOK' /\ RecsGranted' /\ KeptWhole' /\ RetiredOlder'
        /\ \A b \in Builds : Untouched(b) => Untouched(b)'
    BY <1>1, <1>2, <1>3, DetachedKeeps
  <1>5. PlanTrue(p)' /\ Untouched(held[p])'
    <2>1. PlanTrue(p) /\ Untouched(held[p])
      BY <1>1 DEF PassesRight, PassRight
    <2>2. held' = held
      BY <1>1
    <2>3. Untouched(held[p])'
      BY <1>1, <1>4, <2>1, <2>2, PassToken DEF Untouched
    <2> QED BY <1>1, <2>1, <2>3 DEF PlanTrue
  <1>6. pc'[p] = "begin_patch"
    BY <1>1 DEF PubInv, DocTypeOK, Goto
  <1>7. PassRight(p)'
    BY <1>5, <1>6 DEF PassRight
  <1> QED BY <1>1, <1>4, <1>7, PassStep DEF Phases

(* Discarding the build of a failed pass touches no visible record.          *)
LEMMA DiscardStep ==
  ASSUME SnapInv, PubInv', LoneHolder', NEW p \in Procs, Discard(p)
  PROVE  SnapInv'
  <1> USE DEF SnapInv
  <1>1. /\ pc[p] \in {"discard", "discard_pending"} /\ recs' = Detached(held[p])
        /\ UNCHANGED <<held, lease, staged, doc, base, copies>>
        /\ Goto(p, "finish") \/ Goto(p, "unpend")
    BY DEF Discard, leaseVars
  <1>2. PICK l \in {"finish", "unpend"} : Goto(p, l)
    BY <1>1
  <1>3. held[p] \in Builds /\ held[p] = lease.token /\ lease.token \in Nat
    BY <1>1, PassToken
  <1>4. held[p] \notin Kept
    <2>1. doc.active # held[p] /\ doc.active \in Nat /\ doc.active <= lease.token
      BY <1>1 DEF PassesRight, PassRight, PubInv, DocTypeOK, ActiveGranted
    <2> QED BY <1>3, <2>1, KeptGranted
  <1>5. RecTypeOK' /\ RecsGranted' /\ KeptWhole' /\ RetiredOlder'
    BY <1>1, <1>3, <1>4, DetachedKeeps
  <1>6. pc'[p] = l
    BY <1>2 DEF PubInv, DocTypeOK, Goto
  <1>7. PassRight(p)'
    BY <1>6 DEF PassRight
  <1> QED BY <1>1, <1>2, <1>5, <1>7, PassStep DEF Phases

(* copy_forward: the planned files become whole in the new build, and every   *)
(* build readers use keeps the records it had.                               *)
LEMMA CopyForwardStep ==
  ASSUME SnapInv, PubInv', LoneHolder', NEW p \in Procs, CopyForward(p)
  PROVE  SnapInv'
  <1> USE DEF SnapInv
  <1>1. /\ pc[p] = "copy" /\ Goto(p, "write")
        /\ recs' = Attached(base[p], held[p], copies[p], {base[p]} \cup Ids(doc.retired))
        /\ UNCHANGED <<held, lease, staged, doc, base, copies, arg>>
    BY DEF CopyForward, leaseVars
  <1>2. PICK h \in Builds : h = held[p] /\ h = lease.token
    BY <1>1, PassToken
  <1>3. Untouched(h) /\ PlanTrue(p)
    BY <1>1, <1>2 DEF PassesRight, PassRight
  <1>4. \A c \in Builds, f \in Files :
            recs'[c][f] = IF f \in copies[p] /\ doc.active \in recs[c][f]
                          THEN (recs[c][f] \cap ({doc.active} \cup Ids(doc.retired))) \cup {h}
                          ELSE recs[c][f]
    BY <1>1, <1>2, <1>3 DEF Attached, PlanTrue
  <1>5. ASSUME NEW c \in Builds, NEW f \in Files
         PROVE  /\ recs'[c][f] \subseteq recs[c][f] \cup {h}
                /\ recs[c][f] = {} => recs'[c][f] = {}
                /\ h \in recs'[c][f] <=> f \in copies[p] /\ doc.active \in recs[c][f]
    <2>1. CASE f \in copies[p] /\ doc.active \in recs[c][f]
      <3>1. recs'[c][f] = (recs[c][f] \cap ({doc.active} \cup Ids(doc.retired))) \cup {h}
        BY <1>4, <2>1
      <3> QED BY <2>1, <3>1
    <2>2. CASE ~(f \in copies[p] /\ doc.active \in recs[c][f])
      <3>1. recs'[c][f] = recs[c][f]
        BY <1>4, <2>2
      <3>2. h \notin recs[c][f]
        BY <1>3 DEF Untouched
      <3> QED BY <2>2, <3>1, <3>2
    <2> QED BY <2>1, <2>2
  <1>6. h \notin Kept
    <2>1. doc.active # h /\ doc.active \in Nat /\ doc.active <= lease.token /\ lease.token \in Nat
      BY <1>1, <1>2, PassToken
         DEF PubInv, DocTypeOK, ActiveGranted, UnpublishedHidden, Unpublished
    <2> QED BY <1>2, <2>1, KeptGranted
  <1>7. RecTypeOK'
    <2>1. ASSUME NEW c \in Builds, NEW f \in Files PROVE recs'[c][f] \subseteq Builds
      BY <1>2, <1>5 DEF RecTypeOK
    <2>2. recs' = [c \in Builds |-> [f \in Files |-> recs'[c][f]]]
      BY <1>1 DEF Attached
    <2> QED BY <1>1, <2>1, <2>2 DEF RecTypeOK
  <1>8. RecsGranted'
    <2>1. lease.token \in Nat /\ lease'.token = lease.token
      BY <1>1, PassToken
    <2>2. ASSUME NEW c \in Builds, NEW f \in Files
          PROVE  /\ c > lease.token => recs'[c][f] = {}
                 /\ \A b \in recs'[c][f] : b <= lease.token
      BY <1>2, <1>5, <2>1 DEF RecsGranted
    <2> QED BY <2>1, <2>2 DEF RecsGranted
  <1>9. KeptWhole' /\ RetiredOlder'
    <2>1. ASSUME NEW b \in Kept, NEW c \in Builds, NEW f \in Files
          PROVE  b \in recs'[c][f] <=> b \in recs[c][f]
      BY <1>4, <1>6 DEF Kept
    <2> QED BY <1>1, <2>1, KeptWholeStays
  <1>10. \A c \in Builds, f \in Files :
            h \in recs'[c][f] <=> f \in copies[p] /\ doc.active \in recs[c][f]
    BY <1>5
  <1>11. CopiesThere(p)'
    <2>1. ASSUME NEW f \in copies[p] PROVE staged[h][f] # Absent /\ WholeFile(h, f)'
      <3>1. /\ f \in Files /\ doc.active # NoBuild /\ staged[h][f] # Absent
            /\ staged[doc.active][f] = staged[h][f]
        BY <1>2, <1>3 DEF PlanTrue, RecTypeOK
      <3>2. WholeFile(doc.active, f)
        BY <3>1 DEF KeptWhole, Kept, Whole
      <3>3. PICK c \in Builds : WritersOf(doc.active, f) = {c} /\ staged[c][f] = staged[doc.active][f]
        BY <3>1, <3>2 DEF WholeFile
      <3>4. WritersOf(h, f)' = {c}
        BY <1>10, <3>1, <3>3 DEF WritersOf
      <3>5. staged' = staged
        BY <1>1
      <3> QED BY <3>1, <3>3, <3>4, <3>5 DEF WholeFile
    <2>2. ASSUME NEW f \in Files \ copies[p] PROVE WritersOf(h, f)' = {}
      BY <1>10 DEF WritersOf
    <2>3. ASSUME NEW f \in Files PROVE recs'[h][f] = {}
      BY <1>3, <1>5 DEF Untouched
    <2>4. held'[p] = h /\ copies'[p] = copies[p] /\ staged' = staged
      BY <1>1, <1>2
    <2> QED BY <2>1, <2>2, <2>3, <2>4 DEF CopiesThere, WholeFile, WritersOf
  <1>12. pc'[p] = "write"
    BY <1>1 DEF PubInv, DocTypeOK, Goto
  <1>13. PassRight(p)'
    BY <1>11, <1>12 DEF PassRight
  <1>14. pc[p] \notin {"idle", "dead"} /\ held' = held
    BY <1>1
  <1> QED BY <1>1, <1>7, <1>8, <1>9, <1>13, <1>14, PassStep DEF Phases

(* The bulk writer adds what was not copied: the new build is whole.         *)
LEMMA WriteChangedStep ==
  ASSUME SnapInv, PubInv', LoneHolder', NEW p \in Procs, WriteChanged(p)
  PROVE  SnapInv'
  <1> USE DEF SnapInv
  <1>1. /\ pc[p] = "write" /\ Goto(p, "publish")
        /\ recs' = [recs EXCEPT ![held[p]] = [f \in Files |->
               IF staged[held[p]][f] # Absent /\ f \notin copies[p]
               THEN {held[p]} ELSE recs[held[p]][f]]]
        /\ UNCHANGED <<held, lease, staged, doc, base, copies, arg>>
    BY DEF WriteChanged, leaseVars
  <1>2. PICK h \in Builds : h = held[p] /\ h = lease.token
    BY <1>1, PassToken
  <1>3. CopiesThere(p)
    BY <1>1 DEF PassesRight, PassRight
  <1>4. \A c \in Builds, f \in Files :
            recs'[c][f] = IF c = h /\ staged[h][f] # Absent /\ f \notin copies[p]
                          THEN {h} ELSE recs[c][f]
    BY <1>1, <1>2 DEF RecTypeOK
  <1>5. h \notin Kept
    <2>1. doc.active # h /\ doc.active \in Nat /\ doc.active <= lease.token /\ lease.token \in Nat
      BY <1>1, <1>2, PassToken
         DEF PubInv, DocTypeOK, ActiveGranted, UnpublishedHidden, Unpublished
    <2> QED BY <1>2, <2>1, KeptGranted
  <1>6. RecTypeOK'
    <2>1. ASSUME NEW c \in Builds, NEW f \in Files PROVE recs'[c][f] \subseteq Builds
      BY <1>2, <1>4 DEF RecTypeOK
    <2>2. recs' = [c \in Builds |-> [f \in Files |-> recs'[c][f]]]
      BY <1>1, <1>2 DEF RecTypeOK
    <2> QED BY <1>1, <2>1, <2>2 DEF RecTypeOK
  <1>7. RecsGranted'
    <2>1. lease.token \in Nat /\ lease'.token = lease.token
      BY <1>1, PassToken
    <2>2. ASSUME NEW c \in Builds, NEW f \in Files
          PROVE  /\ c > lease.token => recs'[c][f] = {}
                 /\ \A b \in recs'[c][f] : b <= lease.token
      BY <1>2, <1>4, <2>1 DEF RecsGranted
    <2> QED BY <2>1, <2>2 DEF RecsGranted
  <1>8. KeptWhole' /\ RetiredOlder'
    <2>1. \A f \in Files : recs[h][f] = {}
      BY <1>2, <1>3 DEF CopiesThere
    <2>2. ASSUME NEW b \in Kept, NEW c \in Builds, NEW f \in Files
          PROVE  b \in recs'[c][f] <=> b \in recs[c][f]
      BY <1>4, <1>5, <2>1
    <2> QED BY <1>1, <2>2, KeptWholeStays
  <1>9. staged' = staged /\ held' = held
    BY <1>1
  <1>10. ASSUME NEW f \in Files PROVE WholeFile(h, f)'
    <2>1. CASE f \in copies[p]
      <3>1. \A c \in Builds : recs'[c][f] = recs[c][f]
        BY <1>4, <2>1
      <3> QED BY <1>2, <1>3, <1>9, <2>1, <3>1 DEF CopiesThere, WholeFile, WritersOf
    <2>2. CASE f \notin copies[p] /\ staged[h][f] = Absent
      <3>1. \A c \in Builds : recs'[c][f] = recs[c][f]
        BY <1>4, <2>2
      <3> QED BY <1>2, <1>3, <1>9, <2>2, <3>1 DEF CopiesThere, WholeFile, WritersOf
    <2>3. CASE f \notin copies[p] /\ staged[h][f] # Absent
      <3>1. \A c \in Builds : h \in recs'[c][f] <=> c = h
        BY <1>2, <1>3, <1>4, <2>3 DEF CopiesThere, WritersOf
      <3>2. WritersOf(h, f)' = {h}
        BY <3>1 DEF WritersOf
      <3> QED BY <1>9, <2>3, <3>2 DEF WholeFile
    <2> QED BY <2>1, <2>2, <2>3
  <1>11. Whole(held[p])'
    <2>1. \A f \in Files : WholeFile(h, f)'
      BY <1>10
    <2> QED BY ZenonT(30), <1>2, <1>9, <2>1 DEF Whole, WholeFile, WritersOf
  <1>12. pc'[p] = "publish"
    BY <1>1 DEF PubInv, DocTypeOK, Goto
  <1>13. PassRight(p)'
    BY <1>11, <1>12 DEF PassRight
  <1> QED BY <1>1, <1>6, <1>7, <1>8, <1>9, <1>13, PassStep DEF Phases

(* gc_source keeps every record of a build readers may use.                  *)
LEMMA CollectGarbageStep ==
  ASSUME SnapInv, PubInv', LoneHolder', NEW p \in Procs, CollectGarbage(p)
  PROVE  SnapInv'
  <1> USE DEF SnapInv
  <1>1. /\ pc[p] = "gc" /\ UNCHANGED <<held, lease, staged, doc, base, copies, arg>>
        /\ (Goto(p, "online") \/ Goto(p, "abort"))
        /\ (recs' = Collected(Ids(arg[p]) \cup {held[p]}) \/ recs' = recs)
    BY DEF CollectGarbage, leaseVars
  <1>2. PICK l \in {"online", "abort"} : Goto(p, l)
    BY <1>1
  <1>3. doc.active = held[p] /\ arg[p] = doc.retired /\ held[p] \in Builds
    BY <1>1, PassToken DEF PassesRight, PassRight
  <1>4. Kept \subseteq Ids(arg[p]) \cup {held[p]}
    BY <1>3 DEF Kept
  <1>5. ASSUME NEW c \in Builds, NEW f \in Files
        PROVE  /\ recs'[c][f] \subseteq recs[c][f]
               /\ \A b \in Kept : b \in recs'[c][f] <=> b \in recs[c][f]
    <2>1. CASE recs' = recs
      BY <2>1
    <2>2. CASE recs' = Collected(Ids(arg[p]) \cup {held[p]})
      <3>1. recs'[c][f] = IF recs[c][f] \cap (Ids(arg[p]) \cup {held[p]}) = {}
                          THEN {} ELSE recs[c][f]
        BY <2>2 DEF Collected
      <3> QED BY <1>4, <3>1
    <2> QED BY <1>1, <2>1, <2>2
  <1>6. RecTypeOK'
    <2>1. recs' = [c \in Builds |-> [f \in Files |-> recs'[c][f]]]
      BY <1>1 DEF Collected, RecTypeOK
    <2>2. ASSUME NEW c \in Builds, NEW f \in Files PROVE recs'[c][f] \subseteq Builds
      BY <1>5 DEF RecTypeOK
    <2> QED BY <1>1, <2>1, <2>2 DEF RecTypeOK
  <1>7. RecsGranted'
    <2>1. lease' = lease
      BY <1>1
    <2> QED BY <1>5, <2>1 DEF RecsGranted
  <1>8. KeptWhole' /\ RetiredOlder'
    BY <1>1, <1>5, KeptWholeStays
  <1>9. pc'[p] = l
    BY <1>2 DEF PubInv, DocTypeOK, Goto
  <1>10. PassRight(p)'
    BY <1>9 DEF PassRight
  <1>11. held' = held /\ pc[p] \notin {"idle", "dead"}
    BY <1>1
  <1> QED BY <1>2, <1>6, <1>7, <1>8, <1>10, <1>11, PassStep DEF Phases

-----------------------------------------------------------------------------
(* The steps that change the document, and those that end a pass.            *)

(* Marking a build pending, or not, changes nothing readers see.             *)
LEMMA PendingStep ==
  ASSUME SnapInv, PubInv', LoneHolder', NEW p \in Procs, BeginBuild(p) \/ Unpend(p)
  PROVE  SnapInv'
  <1> USE DEF SnapInv
  <1>1. /\ UNCHANGED <<held, lease, staged, recs, base, copies, arg>>
        /\ \E b \in Tokens : doc' = [doc EXCEPT !.pending = b]
        /\ \/ (pc[p] = "begin_patch" /\ Goto(p, "copy"))
           \/ (pc[p] = "unpend" /\ Goto(p, "finish"))
    <2>1. held[p] \in Tokens /\ NoBuild \in Tokens
      BY LeaseAssumption DEF PubInv, LeaseInv, TypeOK, NoBuild
    <2> QED BY <2>1 DEF BeginBuild, Unpend, Patch
  <1>2. doc'.active = doc.active /\ doc'.retired = doc.retired
    BY <1>1 DEF PubInv, DocTypeOK
  <1>3. RecTypeOK' /\ RecsGranted' /\ RetiredOlder'
    BY <1>1, <1>2 DEF RecTypeOK, RecsGranted, RetiredOlder
  <1>4. KeptWhole'
    BY <1>1, <1>2 DEF KeptWhole, Kept, Whole, WholeFile, WritersOf
  <1>5. CASE pc[p] = "begin_patch" /\ Goto(p, "copy")
    <2>1. PlanTrue(p)' /\ Untouched(held[p])'
      BY <1>1, <1>2, <1>5 DEF PassesRight, PassRight, Untouched, PlanTrue
    <2>2. pc'[p] = "copy"
      BY <1>5 DEF PubInv, DocTypeOK, Goto
    <2>3. PassRight(p)'
      BY <2>1, <2>2 DEF PassRight
    <2> QED BY <1>1, <1>3, <1>4, <1>5, <2>3, PassStep DEF Phases
  <1>6. CASE pc[p] = "unpend" /\ Goto(p, "finish")
    <2>1. pc'[p] = "finish"
      BY <1>6 DEF PubInv, DocTypeOK, Goto
    <2>2. PassRight(p)'
      BY <2>1 DEF PassRight
    <2> QED BY <1>1, <1>3, <1>4, <1>6, <2>2, PassStep DEF Phases
  <1> QED BY <1>1, <1>5, <1>6

(* The swap: the new build is whole, and what stays readable was kept.       *)
LEMMA PublishStep ==
  ASSUME SnapInv, PubInv', LoneHolder', NEW p \in Procs, Publish(p)
  PROVE  SnapInv'
  <1> USE DEF SnapInv
  <1>1. /\ pc[p] = "swap" /\ (Goto(p, "gc") \/ Goto(p, "abort"))
        /\ doc' = [active |-> held[p], pending |-> NoBuild, retired |-> arg[p]]
        /\ UNCHANGED <<held, lease, staged, recs, base, copies, arg>>
    BY DEF Publish, Patch
  <1>2. PICK l \in {"gc", "abort"} : Goto(p, l)
    BY <1>1
  <1>3. /\ held[p] \in Builds /\ Whole(held[p]) /\ Ids(arg[p]) \subseteq Kept
        /\ doc.active < held[p]
    <2>1. held[p] \in Builds /\ held[p] = lease.token /\ lease.token \in Nat
      BY <1>1, PassToken
    <2>2. doc.active # held[p] /\ doc.active <= lease.token /\ doc.active \in Nat
      BY <1>1 DEF PubInv, DocTypeOK, ActiveGranted, UnpublishedHidden, Unpublished
    <2> QED BY <1>1, <2>1, <2>2 DEF PassesRight, PassRight
  <1>4. doc'.active = held[p] /\ doc'.retired = arg[p]
    BY <1>1
  <1>5. RecTypeOK' /\ RecsGranted'
    BY <1>1 DEF RecTypeOK, RecsGranted
  <1>6. RetiredOlder'
    <2>1. ASSUME NEW b \in Ids(arg[p]) PROVE b < held[p]
      <3>1. b \in Builds /\ b <= doc.active
        BY <1>3, <2>1, KeptGranted
      <3>2. doc.active \in Nat
        BY DEF PubInv, DocTypeOK
      <3> QED BY <1>3, <3>1, <3>2 DEF Builds
    <2> QED BY <1>4, <2>1 DEF RetiredOlder, Ids
  <1>7. KeptWhole'
    <2>1. ASSUME NEW b \in Kept' PROVE Whole(b)
      <3>1. b \in Ids(arg[p]) \/ b = held[p]
        BY <1>4, <2>1 DEF Kept, Ids
      <3> QED BY <1>3, <3>1 DEF KeptWhole
    <2>2. \A b : Whole(b) => Whole(b)'
      BY <1>1 DEF Whole, WholeFile, WritersOf
    <2> QED BY <2>1, <2>2 DEF KeptWhole
  <1>8. pc'[p] = l
    BY <1>2 DEF PubInv, DocTypeOK, Goto
  <1>9. PassRight(p)'
    BY <1>1, <1>4, <1>8 DEF PassRight
  <1>10. held' = held /\ pc[p] \notin {"idle", "dead"}
    BY <1>1
  <1> QED BY <1>2, <1>5, <1>6, <1>7, <1>9, <1>10, PassStep DEF Phases

(* A pass that ends or dies leaves what it published.                        *)
LEMMA EndStep ==
  ASSUME SnapInv, PubInv', LoneHolder', NEW p \in Procs, Finish(p) \/ Die(p)
  PROVE  SnapInv'
  <1> USE DEF SnapInv
  <1>1. /\ held' = [held EXCEPT ![p] = 0] /\ (Goto(p, "idle") \/ Goto(p, "dead"))
        /\ base' = [base EXCEPT ![p] = NoBuild] /\ copies' = [copies EXCEPT ![p] = {}]
        /\ arg' = [arg EXCEPT ![p] = {}] /\ UNCHANGED <<staged, doc, recs>>
    BY DEF Finish, Die, Release, Crash
  <1>2. lease'.token = lease.token
    BY DEF Finish, Die, Release, Crash, PubInv, LeaseInv, TypeOK
  <1>3. NoBuild \in Tokens
    BY LeaseAssumption DEF NoBuild
  <1>4. RecTypeOK' /\ RecsGranted' /\ RetiredOlder'
    BY <1>1, <1>2, <1>3 DEF RecTypeOK, RecsGranted, RetiredOlder
  <1>5. KeptWhole'
    BY <1>1 DEF KeptWhole, Kept, Whole, WholeFile, WritersOf
  <1>6. pc'[p] \in {"idle", "dead"} /\ \A q \in Procs : q # p => pc'[q] = pc[q]
    BY <1>1 DEF PubInv, DocTypeOK, Goto
  <1>7. \A q \in Procs : q # p =>
            /\ held'[q] = held[q] /\ base'[q] = base[q] /\ copies'[q] = copies[q]
            /\ arg'[q] = arg[q]
    BY <1>1 DEF PubInv, DocTypeOK, LeaseInv, TypeOK, RecTypeOK
  <1>8. PassHolds'
    BY <1>6, <1>7 DEF PassHolds
  <1>9. PassRight(p)'
    BY <1>6 DEF PassRight
  <1>10. ASSUME NEW q \in Procs, q # p PROVE PassRight(q)'
    <2>1. PassRight(q)
      BY DEF PassesRight
    <2> QED BY <1>1, <1>6, <1>7, <1>10, <2>1
            DEF PassRight, Untouched, PlanTrue, CopiesThere, Kept, Ids, Whole, WholeFile, WritersOf
  <1> QED BY <1>4, <1>5, <1>8, <1>9, <1>10 DEF PassesRight

(* The steps that leave passes and records alone.                            *)
LEMMA OutsideStep ==
  ASSUME SnapInv, PubInv', LoneHolder',
         \/ \E p \in Procs : ReadForPatch(p) \/ Renewal(p)
         \/ Administer \/ Advance \/ UNCHANGED vars
  PROVE  SnapInv'
  <1>1. UNCHANGED pubVars /\ UNCHANGED held
    BY DEF ReadForPatch, PatchRead, ReadState, Renewal, RenewRead, Renew, RenewalEnds,
           Administer, AdminPatch, Advance, Tick, vars, leaseVars
  <1>2. lease'.token = lease.token
    BY DEF ReadForPatch, PatchRead, ReadState, Renewal, RenewRead, Renew, RenewalEnds,
           Administer, AdminPatch, Advance, Tick, vars, leaseVars, SnapInv, PubInv, LeaseInv, TypeOK
  <1> QED BY <1>1, <1>2, LeaseOnlyStep

-----------------------------------------------------------------------------
(* The inductive invariant holds initially.                                  *)
LEMMA InitSnapInv == PubInit => SnapInv
  <1> SUFFICES ASSUME PubInit PROVE SnapInv
    OBVIOUS
  <1>1. PubInv
    BY InitPubInv
  <1>2. RecTypeOK
    <2>1. NoBuild \in Tokens
      BY LeaseAssumption DEF NoBuild
    <2> QED BY <2>1 DEF PubInit, RecTypeOK, Manifests
  <1>3. LoneHolder /\ PassHolds
    BY DEF PubInit, Init, LoneHolder, PassHolds
  <1>4. RecsGranted /\ RetiredOlder
    BY DEF PubInit, RecsGranted, RetiredOlder, Ids
  <1>5. KeptWhole
    BY DEF PubInit, KeptWhole, Kept, Ids
  <1>6. PassesRight
    BY DEF PubInit, PassesRight, PassRight
  <1> QED BY <1>1, <1>2, <1>3, <1>4, <1>5, <1>6 DEF SnapInv

(* Every step keeps it, as long as no pass outlives its lease.               *)
LEMMA NextSnapInv ==
  ASSUME Overrun = FALSE
  PROVE  SnapInv /\ [PubNext]_vars => SnapInv'
  <1> SUFFICES ASSUME SnapInv, [PubNext]_vars PROVE SnapInv'
    OBVIOUS
  <1>1. PubInv'
    BY NextPubInv DEF SnapInv
  <1>2. LoneHolder'
    BY LoneHolderStays
  <1>3. ASSUME NEW p \in Procs, Pass(p) PROVE SnapInv'
    BY <1>1, <1>2, <1>3, BeginStep, ScanStep, FreeStep, PlanStep, BeginCheckStep,
       DeletePendingStep, PendingStep, CopyForwardStep, WriteChangedStep, PublishCheckStep,
       PublishStep, CollectGarbageStep, AbortCheckStep, DiscardStep, EndStep, OutsideStep
       DEF Pass
  <1>4. ASSUME NEW p \in Procs, Renewal(p) \/ Die(p) PROVE SnapInv'
    BY <1>1, <1>2, <1>4, EndStep, OutsideStep
  <1>5. CASE Administer \/ Advance \/ UNCHANGED vars
    BY <1>1, <1>2, <1>5, OutsideStep
  <1> QED BY <1>3, <1>4, <1>5 DEF PubNext

(* Without overrun every reachable state satisfies the invariant of records  *)
(* and passes.                                                               *)
THEOREM SnapInvariant ==
  ASSUME Overrun = FALSE
  PROVE  PubSpec => []SnapInv
  <1>1. PubInit => SnapInv
    BY InitSnapInv
  <1>2. SnapInv /\ [PubNext]_vars => SnapInv'
    BY NextSnapInv
  <1> QED BY <1>1, <1>2, PTL DEF PubSpec

(* Every build a query may be reading holds exactly the files it was staged  *)
(* from, whatever passes fail, crash or are superseded at any point of their *)
(* publication, as long as none goes on writing after its lease expired      *)
(* (publish_build, gc_source, abort_build_with).                             *)
THEOREM ReadersSeeCompleteBuilds ==
  ASSUME Overrun = FALSE
  PROVE  PubSpec => []ReadableComplete
  <1>1. SnapInv => ReadableComplete
    <2> SUFFICES ASSUME SnapInv, NEW b \in Readable PROVE Complete(b)
      BY DEF ReadableComplete
    <2>1. b \in Kept
      BY DEF Readable, Kept, Ids
    <2> QED BY <2>1, WholeIsComplete DEF SnapInv, KeptWhole
  <1> QED BY <1>1, SnapInvariant, PTL

-----------------------------------------------------------------------------
(* What readers see is one scan.                                             *)

(* The active build reads as what it was staged from.                        *)
LEMMA ViewIsStaged ==
  SnapInv =>
    View = IF doc.active = NoBuild THEN [f \in Files |-> Absent] ELSE staged[doc.active]
  <1> SUFFICES ASSUME SnapInv
               PROVE  View = IF doc.active = NoBuild THEN [f \in Files |-> Absent]
                             ELSE staged[doc.active]
    OBVIOUS
  <1>1. CASE doc.active = NoBuild
    BY <1>1 DEF View
  <1>2. CASE doc.active # NoBuild
    <2>1. doc.active \in Builds
      BY <1>2, KeptGranted DEF Kept
    <2>2. staged[doc.active] \in [Files -> Contents \cup {Absent}]
      BY <2>1 DEF SnapInv, RecTypeOK, Manifests
    <2>3. ASSUME NEW f \in Files PROVE View[f] = staged[doc.active][f]
      <3>1. WholeFile(doc.active, f)
        BY <1>2 DEF SnapInv, KeptWhole, Kept, Whole
      <3>2. View[f] = IF WritersOf(doc.active, f) = {} THEN Absent
                      ELSE CHOOSE c \in Contents \cup {Absent} : c \in Indexed(doc.active, f)
        BY <1>2 DEF View
      <3>3. CASE staged[doc.active][f] = Absent
        BY <3>1, <3>2, <3>3 DEF WholeFile
      <3>4. CASE staged[doc.active][f] # Absent
        <4>1. PICK c \in Builds : /\ WritersOf(doc.active, f) = {c}
                                  /\ staged[c][f] = staged[doc.active][f]
          BY <3>1, <3>4 DEF WholeFile
        <4>2. Indexed(doc.active, f) = {staged[doc.active][f]}
          BY <4>1 DEF Indexed
        <4>3. staged[doc.active][f] \in Contents \cup {Absent}
          BY <2>2
        <4> QED BY <3>2, <4>1, <4>2, <4>3
      <3> QED BY <3>3, <3>4
    <2>4. View = [f \in Files |-> View[f]]
      BY DEF View
    <2>5. View = [f \in Files |-> staged[doc.active][f]]
      BY <2>3, <2>4
    <2>6. staged[doc.active] = [f \in Files |-> staged[doc.active][f]]
      BY <2>2
    <2> QED BY <1>2, <2>5, <2>6
  <1> QED BY <1>1, <1>2

(* The publication protocol implements the abstract PublishedSnapshots: a    *)
(* scan of a pass is a Take, the swap is a Show, and every other step, of    *)
(* whatever process, changes nothing a reader sees.                          *)
THEOREM PublishImplementsSnapshots ==
  ASSUME Overrun = FALSE
  PROVE  PubSpec => ImplementsSnapshots
  <1>1. PubInit => Snapshots!SnapshotInit
    <2> SUFFICES ASSUME PubInit PROVE Snapshots!SnapshotInit
      OBVIOUS
    <2>1. doc.active = NoBuild /\ staged = [b \in Builds |-> [f \in Files |-> Absent]]
      BY DEF PubInit
    <2>2. View = [f \in Files |-> Absent]
      BY <2>1 DEF View
    <2> QED BY <2>1, <2>2 DEF Snapshots!SnapshotInit, Snapshots!Empty, NoBuild
  <1>2. (SnapInv => View = IF doc.active = NoBuild THEN [f \in Files |-> Absent]
                        ELSE staged[doc.active])'
    BY ViewIsStaged, PTL
  <1>3. ASSUME SnapInv, SnapInv', [PubNext]_vars
        PROVE  [Snapshots!SnapshotNext]_(Snapshots!snapshotVars)
    <2>1. View = IF doc.active = NoBuild THEN [f \in Files |-> Absent] ELSE staged[doc.active]
      BY <1>3, ViewIsStaged
    <2>2. View' = IF doc'.active = NoBuild THEN [f \in Files |-> Absent] ELSE staged'[doc'.active]
      BY <1>3, <1>2
    <2>3. ASSUME staged' = staged, doc'.active = doc.active
          PROVE  UNCHANGED Snapshots!snapshotVars
      BY <2>1, <2>2, <2>3 DEF Snapshots!snapshotVars
    <2>4. ASSUME NEW p \in Procs, NEW m \in Scans, Scan(p, m)
          PROVE  Snapshots!SnapshotNext
      <3>1. /\ pc[p] = "leased" /\ staged' = [staged EXCEPT ![held[p]] = m] /\ doc' = doc
        BY <2>4 DEF Scan
      <3>2. held[p] \in Builds /\ doc.active # held[p]
        BY <1>3, <3>1, PassToken DEF SnapInv, PubInv, UnpublishedHidden, Unpublished
      <3>3. m \in [Files -> Contents \cup {Absent}]
        BY PublishAssumption
      <3>4. doc.active # NoBuild => staged'[doc.active] = staged[doc.active]
        BY <1>3, <3>1, <3>2, KeptGranted DEF Kept, SnapInv, RecTypeOK
      <3>5. View' = View
        BY <2>1, <2>2, <3>1, <3>4
      <3>6. Snapshots!Take(held[p])
        BY <3>1, <3>2, <3>3, <3>5 DEF Snapshots!Take
      <3> QED BY <3>2, <3>6 DEF Snapshots!SnapshotNext
    <2>5. ASSUME NEW p \in Procs, Publish(p)
          PROVE  Snapshots!SnapshotNext
      <3>1. /\ pc[p] = "swap" /\ doc'.active = held[p] /\ staged' = staged
        BY <2>5 DEF Publish
      <3>2. held[p] \in Builds /\ held[p] = lease.token /\ lease.token \in Nat
        BY <1>3, <3>1, PassToken
      <3>3. held[p] > doc.active
        BY <1>3, <3>1, <3>2
           DEF SnapInv, PubInv, DocTypeOK, ActiveGranted, UnpublishedHidden, Unpublished
      <3>4. held[p] # NoBuild
        BY <3>2 DEF Builds, NoBuild
      <3>5. View' = staged[held[p]]
        BY <2>2, <3>1, <3>4
      <3>6. Snapshots!Show(held[p])
        BY <3>1, <3>3, <3>5 DEF Snapshots!Show
      <3> QED BY <3>2, <3>6 DEF Snapshots!SnapshotNext
    <2>6. ASSUME NEW p \in Procs, BeginBuild(p) \/ Unpend(p)
          PROVE  UNCHANGED Snapshots!snapshotVars
      <3>1. staged' = staged /\ doc'.active = doc.active
        BY <1>3, <2>6 DEF BeginBuild, Unpend, SnapInv, PubInv, DocTypeOK
      <3> QED BY <2>3, <3>1
    <2>7. ASSUME NEW p \in Procs, Pass(p)
          PROVE  [Snapshots!SnapshotNext]_(Snapshots!snapshotVars)
      <3>1. CASE (\E m \in Scans : Scan(p, m)) \/ Publish(p) \/ BeginBuild(p) \/ Unpend(p)
        BY <2>4, <2>5, <2>6, <3>1
      <3>2. CASE ~((\E m \in Scans : Scan(p, m)) \/ Publish(p) \/ BeginBuild(p) \/ Unpend(p))
        <4>1. staged' = staged /\ doc' = doc
          BY <2>7, <3>2
             DEF Pass, Begin, Unreachable, NothingNew, Plan, BeginCheck, DeletePending,
                 BeginFails, CopyForward, WriteChanged, WriteFailsMidway, PublishCheck,
                 PublishFails, CollectGarbage, AbortCheck, Discard, AbortFails, SetOnline,
                 SetOnlineFails, ReadForPatch, Finish, PatchFailsTo, pubVars
        <4> QED BY <2>3, <4>1
      <3> QED BY <3>1, <3>2
    <2>8. ASSUME UNCHANGED <<staged, doc>>
          PROVE  [Snapshots!SnapshotNext]_(Snapshots!snapshotVars)
      BY <2>3, <2>8
    <2> QED BY <1>3, <2>7, <2>8
            DEF PubNext, Renewal, Die, Administer, Advance, pubVars, vars
  <1> QED BY <1>1, <1>3, SnapInvariant, PTL
          DEF PubSpec, ImplementsSnapshots, Snapshots!SnapshotSpec
=============================================================================
