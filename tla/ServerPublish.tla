---------------------------- MODULE ServerPublish ----------------------------
(***************************************************************************)
(* Publication of one source's builds to the search server                 *)
(* (docmonk-backends/src/publish.rs and backend.rs), driven by server-mode  *)
(* passes (docmonk-service/src/server_index.rs).                            *)
(*                                                                         *)
(* Records live in the search indexes and carry the set of builds they      *)
(* belong to; the source-state document names the active build, which is    *)
(* the one readers filter by.  A pass stages the files of the source,       *)
(* copies the unchanged records of the active build into its own build,     *)
(* writes the changed ones, and swaps the active build with one             *)
(* compare-and-swap fenced by the writer lease (module WriterLease).  The   *)
(* record operations themselves are NOT fenced.                             *)
(*                                                                         *)
(* One pass makes at most one build and its id contains the fencing token   *)
(* of its lease, so builds are named by their token.                        *)
(***************************************************************************)
EXTENDS WriterLease, FiniteSets

CONSTANTS
    Files,      \* files of the source
    Contents,   \* what a file may contain
    Absent,     \* a file that does not exist
    Scans,      \* what a scan of the source may find
    Grace,      \* gc_grace, in ticks of the clock
    Overrun     \* TRUE: a pass may outlive its lease; FALSE: it never does

ASSUME PublishAssumption ==
    /\ Absent \notin Contents
    /\ Scans \subseteq [Files -> Contents \cup {Absent}]
    /\ Grace \in Nat
    /\ Overrun \in BOOLEAN

VARIABLES
    staged,     \* per build: the files it was staged from
    doc,        \* active_build_id, pending_build_id, retired_builds
    recs,       \* per writing build and file: the build_ids of the record
    pc,         \* where the pass of a process is
    base,       \* the active build the pass read, which it copies from
    copies,     \* files whose records it copies forward
    arg         \* builds named by its next record operation

pubVars == <<staged, doc, recs, pc, base, copies, arg>>
vars == <<leaseVars, pubVars>>

NoBuild   == 0
Builds    == 1 .. MaxToken
Manifests == [Files -> Contents \cup {Absent}]
Retired   == [build : Builds, at : Nat]

Phases == {"idle", "leased", "scanned", "begin", "detach", "begin_patch",
           "copy", "write", "publish", "swap", "gc", "abort", "discard",
           "discard_pending", "unpend", "online", "finish", "dead"}

PubTypeOK ==
    /\ TypeOK
    /\ staged \in [Builds -> Manifests]
    /\ doc \in [active : Tokens, pending : Tokens, retired : SUBSET Retired]
    /\ recs \in [Builds -> [Files -> SUBSET Builds]]
    /\ pc \in [Procs -> Phases]
    /\ base \in [Procs -> Tokens]
    /\ copies \in [Procs -> SUBSET Files]
    /\ arg \in [Procs -> SUBSET Retired]

PubInit ==
    /\ Init
    /\ staged = [b \in Builds |-> [f \in Files |-> Absent]]
    /\ doc = [active |-> NoBuild, pending |-> NoBuild, retired |-> {}]
    /\ recs = [b \in Builds |-> [f \in Files |-> {}]]
    /\ pc = [p \in Procs |-> "idle"]
    /\ base = [p \in Procs |-> NoBuild]
    /\ copies = [p \in Procs |-> {}]
    /\ arg = [p \in Procs |-> {}]

-----------------------------------------------------------------------------
(* The records as a search filtered by build_id sees them.                  *)

\* Builds whose records of file f belong to build b too.
WritersOf(b, f) == {c \in Builds : b \in recs[c][f]}

\* What build b's records say of file f.
Indexed(b, f) == {staged[c][f] : c \in WritersOf(b, f)}

\* Build b holds exactly one generation of records of every file it was
\* staged from, with that file's content, and none of any other file.
Complete(b) ==
    \A f \in Files :
        IF staged[b][f] = Absent
        THEN WritersOf(b, f) = {}
        ELSE Cardinality(WritersOf(b, f)) = 1 /\ Indexed(b, f) = {staged[b][f]}

Ids(retired) == {r.build : r \in retired}

\* Builds a reader may be using: the active one, and those replaced less
\* than the grace period ago.
Readable ==
    ({doc.active} \ {NoBuild})
        \cup {r.build : r \in {x \in doc.retired : now - x.at < Grace}}

\* DETACH_SCRIPT: every record loses build b; one left with no build is
\* deleted (it is the empty set).
Detached(b) == [c \in Builds |-> [f \in Files |-> recs[c][f] \ {b}]]

\* ATTACH_SCRIPT on the records of `files` in build `from`: they gain build
\* b and lose every id that is not in `keep`.
Attached(from, b, files, keep) ==
    [c \in Builds |-> [f \in Files |->
        IF f \in files /\ from \in recs[c][f]
        THEN (recs[c][f] \cap keep) \cup {b}
        ELSE recs[c][f]]]

\* gc_source: records of none of the `keep` builds are deleted.
Collected(keep) ==
    [c \in Builds |-> [f \in Files |->
        IF recs[c][f] \cap keep = {} THEN {} ELSE recs[c][f]]]

Goto(p, l) == pc' = [pc EXCEPT ![p] = l]

\* A patch whose read finds another holder's lease, or an expired one, fails
\* before it writes; so does one whose write is refused or never arrives.
PatchFailsTo(p, l) ==
    /\ \/ PatchFails(p)
       \/ snap[p]["main"] = "none" /\ UNCHANGED leaseVars
    /\ Goto(p, l)
    /\ UNCHANGED <<staged, doc, recs, base, copies, arg>>

-----------------------------------------------------------------------------
(* The pass (run_source, staged_pass, publish_from_store), one action per   *)
(* request that reads or changes the server.                                *)

Begin(p) ==
    /\ pc[p] = "idle"
    /\ Acquire(p)
    /\ Goto(p, "leased")
    /\ UNCHANGED <<staged, doc, recs, base, copies, arg>>

\* run_source_with into the staging store: the build's manifest is what the
\* source contained when it was scanned, which may be anything.
Scan(p, manifest) ==
    /\ pc[p] = "leased"
    /\ staged' = [staged EXCEPT ![held[p]] = manifest]
    /\ Goto(p, "scanned")
    /\ UNCHANGED <<leaseVars, doc, recs, base, copies, arg>>

\* The source root is offline: that is recorded, and nothing is published.
\* Or the staging pass itself fails and nothing more is done.
Unreachable(p) ==
    /\ pc[p] = "leased"
    /\ \/ Goto(p, "online")
       \/ Goto(p, "finish")
    /\ UNCHANGED <<leaseVars, staged, doc, recs, base, copies, arg>>

\* The content_digest of the active build is the staged one.
SameDigest(p) == doc.active # NoBuild /\ staged[doc.active] = staged[held[p]]

\* There is nothing to publish.
NothingNew(p) ==
    /\ pc[p] = "scanned"
    /\ SameDigest(p)
    /\ Goto(p, "online")
    /\ UNCHANGED <<leaseVars, staged, doc, recs, base, copies, arg>>

\* Mutant: a file is copied forward when its path is in the active build.
PlanByPath(p, full) ==
    LET b == held[p] IN
    /\ pc[p] = "scanned"
    /\ full \/ ~SameDigest(p)
    /\ base' = [base EXCEPT ![p] = doc.active]
    /\ copies' = [copies EXCEPT ![p] =
           IF full \/ doc.active = NoBuild THEN {}
           ELSE {f \in Files : staged[b][f] # Absent /\ Indexed(doc.active, f) # {}}]
    /\ Goto(p, "begin")
    /\ UNCHANGED <<leaseVars, staged, doc, recs, arg>>

\* The digests of the active build's records split the staged files into
\* those copied forward and those written.  A full pass copies nothing.
Plan(p, full) ==
    LET b == held[p] IN
    /\ pc[p] = "scanned"
    /\ full \/ ~SameDigest(p)
    /\ base' = [base EXCEPT ![p] = doc.active]
    /\ copies' = [copies EXCEPT ![p] =
           IF full \/ doc.active = NoBuild THEN {}
           ELSE {f \in Files : staged[b][f] \in Indexed(doc.active, f)}]
    /\ Goto(p, "begin")
    /\ UNCHANGED <<leaseVars, staged, doc, recs, arg>>

\* begin_build_with reads the state; an abandoned pending build of an earlier
\* pass is deleted first.
BeginCheck(p) ==
    /\ pc[p] = "begin"
    /\ IF ~Fenced(p) THEN Goto(p, "finish") /\ UNCHANGED arg
       ELSE IF doc.pending \in {NoBuild, held[p]}
            THEN Goto(p, "begin_patch") /\ UNCHANGED arg
            ELSE /\ arg' = [arg EXCEPT ![p] = {[build |-> doc.pending, at |-> 0]}]
                 /\ Goto(p, "detach")
    /\ UNCHANGED <<leaseVars, staged, doc, recs, base, copies>>

DeletePending(p) ==
    /\ pc[p] = "detach"
    /\ \E old \in Ids(arg[p]) : recs' = Detached(old)
    /\ arg' = [arg EXCEPT ![p] = {}]
    /\ Goto(p, "begin_patch")
    /\ UNCHANGED <<leaseVars, staged, doc, base, copies>>

BeginBuild(p) ==
    /\ pc[p] = "begin_patch"
    /\ Patch(p)
    /\ doc' = [doc EXCEPT !.pending = held[p]]
    /\ Goto(p, "copy")
    /\ UNCHANGED <<staged, recs, base, copies, arg>>

BeginFails(p) ==
    \/ pc[p] = "begin_patch" /\ PatchFailsTo(p, "finish")
    \/ /\ pc[p] = "detach"
       /\ Goto(p, "finish")
       /\ arg' = [arg EXCEPT ![p] = {}]
       /\ UNCHANGED <<leaseVars, staged, doc, recs, base, copies>>

\* Mutant: copied records keep the id of the base build only.
CopyForgettingRetired(p) ==
    /\ pc[p] = "copy"
    /\ recs' = Attached(base[p], held[p], copies[p], {base[p]})
    /\ Goto(p, "write")
    /\ UNCHANGED <<leaseVars, staged, doc, base, copies, arg>>

\* copy_forward: the ids a copied record keeps are the base build and those
\* a reader may still be pinned to.
CopyForward(p) ==
    /\ pc[p] = "copy"
    /\ recs' = Attached(base[p], held[p], copies[p],
                        {base[p]} \cup Ids(doc.retired))
    /\ Goto(p, "write")
    /\ UNCHANGED <<leaseVars, staged, doc, base, copies, arg>>

\* The bulk writer: record ids start with the build id, so a build only ever
\* writes records of its own.
WriteChanged(p) ==
    LET b == held[p] IN
    /\ pc[p] = "write"
    /\ recs' = [recs EXCEPT ![b] = [f \in Files |->
           IF staged[b][f] # Absent /\ f \notin copies[p]
           THEN {b} ELSE recs[b][f]]]
    /\ Goto(p, "publish")
    /\ UNCHANGED <<leaseVars, staged, doc, base, copies, arg>>

\* A record operation fails: the pending build is aborted.
WriteFailsMidway(p) ==
    /\ pc[p] \in {"copy", "write", "publish"}
    /\ Goto(p, "abort")
    /\ UNCHANGED <<leaseVars, staged, doc, recs, base, copies, arg>>

\* Mutant: the absence of an active build is retired too.
RetiringNothing(p) ==
    LET keep == {r \in doc.retired \cup {[build |-> doc.active, at |-> now]} :
                    now - r.at < Grace}
    IN
    /\ pc[p] = "publish"
    /\ IF doc.pending = held[p] /\ Fenced(p)
       THEN arg' = [arg EXCEPT ![p] = keep] /\ Goto(p, "swap")
       ELSE Goto(p, "abort") /\ UNCHANGED arg
    /\ UNCHANGED <<leaseVars, staged, doc, recs, base, copies>>

\* publish_build_ext, first half: the build must be the pending one and the
\* lease current; the build it will replace is retired now, and retired
\* builds past the grace period are dropped.
PublishCheck(p) ==
    LET old == {[build |-> b, at |-> now] : b \in {doc.active} \ {NoBuild, held[p]}}
        keep == {r \in doc.retired \cup old : now - r.at < Grace}
    IN
    /\ pc[p] = "publish"
    /\ IF doc.pending = held[p] /\ Fenced(p)
       THEN arg' = [arg EXCEPT ![p] = keep] /\ Goto(p, "swap")
       ELSE Goto(p, "abort") /\ UNCHANGED arg
    /\ UNCHANGED <<leaseVars, staged, doc, recs, base, copies>>

\* Mutant: the published build stays pending.
PublishKeepingPending(p) ==
    /\ pc[p] = "swap"
    /\ Patch(p)
    /\ doc' = [doc EXCEPT !.active = held[p], !.retired = arg[p]]
    /\ \/ Goto(p, "gc")
       \/ Goto(p, "abort")
    /\ UNCHANGED <<staged, recs, base, copies, arg>>

\* The compare-and-swap that makes the build visible.  Its response may be
\* lost, and then the pass aborts a build that is active.
Publish(p) ==
    /\ pc[p] = "swap"
    /\ Patch(p)
    /\ doc' = [active |-> held[p], pending |-> NoBuild, retired |-> arg[p]]
    /\ \/ Goto(p, "gc")
       \/ Goto(p, "abort")
    /\ UNCHANGED <<staged, recs, base, copies, arg>>

PublishFails(p) == pc[p] = "swap" /\ PatchFailsTo(p, "abort")

\* gc_source, after the swap, keeping the builds computed before it.
CollectGarbage(p) ==
    /\ pc[p] = "gc"
    /\ \/ recs' = Collected(Ids(arg[p]) \cup {held[p]}) /\ Goto(p, "online")
       \/ UNCHANGED recs /\ Goto(p, "abort")
    /\ UNCHANGED <<leaseVars, staged, doc, base, copies, arg>>

\* abort_build_with reads the state: the active build is never aborted; a
\* superseded holder deletes its own records unless the build is pending.
AbortCheck(p) ==
    /\ pc[p] = "abort"
    /\ \/ doc.active = held[p] /\ Goto(p, "finish")
       \/ /\ doc.active # held[p]
          /\ \/ ~Fenced(p) /\ doc.pending = held[p] /\ Goto(p, "finish")
             \/ doc.pending # held[p] /\ Goto(p, "discard")
             \/ Fenced(p) /\ doc.pending = held[p] /\ Goto(p, "discard_pending")
    /\ UNCHANGED <<leaseVars, staged, doc, recs, base, copies, arg>>

Discard(p) ==
    /\ \/ pc[p] = "discard" /\ Goto(p, "finish")
       \/ pc[p] = "discard_pending" /\ Goto(p, "unpend")
    /\ recs' = Detached(held[p])
    /\ UNCHANGED <<leaseVars, staged, doc, base, copies, arg>>

Unpend(p) ==
    /\ pc[p] = "unpend"
    /\ Patch(p)
    /\ doc' = [doc EXCEPT !.pending = NoBuild]
    /\ Goto(p, "finish")
    /\ UNCHANGED <<staged, recs, base, copies, arg>>

AbortFails(p) ==
    \/ pc[p] = "unpend" /\ PatchFailsTo(p, "finish")
    \/ /\ pc[p] \in {"abort", "discard", "discard_pending"}
       /\ Goto(p, "finish")
       /\ UNCHANGED <<leaseVars, staged, doc, recs, base, copies, arg>>

\* set_online: whether the source was reachable, for the catalog.
SetOnline(p) ==
    /\ pc[p] = "online"
    /\ Patch(p)
    /\ Goto(p, "finish")
    /\ UNCHANGED <<staged, doc, recs, base, copies, arg>>

SetOnlineFails(p) == pc[p] = "online" /\ PatchFailsTo(p, "finish")

\* The read of every patch_state of the pass.
ReadForPatch(p) ==
    /\ pc[p] \in {"begin_patch", "swap", "unpend", "online"}
    /\ PatchRead(p)
    /\ UNCHANGED pubVars

Finish(p) ==
    /\ pc[p] = "finish"
    /\ Release(p)
    /\ Goto(p, "idle")
    /\ base' = [base EXCEPT ![p] = NoBuild]
    /\ copies' = [copies EXCEPT ![p] = {}]
    /\ arg' = [arg EXCEPT ![p] = {}]
    /\ UNCHANGED <<staged, doc, recs>>

-----------------------------------------------------------------------------
(* The renewal thread, the outside world and the clock.                     *)

Renewal(p) ==
    /\ \/ RenewRead(p) \/ Renew(p) \/ RenewalEnds(p)
    /\ UNCHANGED pubVars

Die(p) ==
    /\ Crash(p)
    /\ Goto(p, "dead")
    /\ base' = [base EXCEPT ![p] = NoBuild]
    /\ copies' = [copies EXCEPT ![p] = {}]
    /\ arg' = [arg EXCEPT ![p] = {}]
    /\ UNCHANGED <<staged, doc, recs>>

Administer == AdminPatch /\ UNCHANGED pubVars

\* Without overrun the clock waits for a holder that is about to expire:
\* the lease of a running pass is renewed in time or the pass ends in time.
Advance ==
    /\ Overrun \/ \A p \in Procs :
           held[p] # 0 /\ held[p] = lease.token => now + 1 < lease.expires
    /\ Tick
    /\ UNCHANGED pubVars

Pass(p) ==
    \/ Begin(p) \/ \E m \in Scans : Scan(p, m)
    \/ Unreachable(p) \/ NothingNew(p)
    \/ \E full \in BOOLEAN : Plan(p, full)
    \/ BeginCheck(p) \/ DeletePending(p) \/ BeginBuild(p) \/ BeginFails(p)
    \/ CopyForward(p) \/ WriteChanged(p) \/ WriteFailsMidway(p)
    \/ PublishCheck(p) \/ Publish(p) \/ PublishFails(p) \/ CollectGarbage(p)
    \/ AbortCheck(p) \/ Discard(p) \/ Unpend(p) \/ AbortFails(p)
    \/ SetOnline(p) \/ SetOnlineFails(p) \/ ReadForPatch(p) \/ Finish(p)

PubNext ==
    \/ \E p \in Procs : Pass(p) \/ Renewal(p) \/ Die(p)
    \/ Administer
    \/ Advance

PubSpec == PubInit /\ [][PubNext]_vars

-----------------------------------------------------------------------------
(* Every build a query may be reading, the active one and those retired     *)
(* within the grace period, holds exactly the files it was staged from:     *)
(* partial, aborted and garbage-collected builds are never visible          *)
(* (publish_build, "stays readable for gc_grace so queries pinned to it     *)
(* finish").                                                                *)
ReadableComplete == \A b \in Readable : Complete(b)

(* The visible build only ever moves forward in lease order: a superseded   *)
(* pass never replaces the result of a newer one (server_index.rs, "a       *)
(* superseded or expired holder cannot publish, abort or delete newer       *)
(* state").                                                                 *)
PublishesForward == [][doc'.active >= doc.active]_vars

(* A pending build is newer than the visible one: what a publication makes   *)
(* visible, and what an abort discards, is never older than what readers     *)
(* already have (begin_build_with and publish_build_ext under one lease).    *)
PendingAhead == doc.pending # NoBuild => doc.pending > doc.active

(* What readers see of the active build, computed from the records.         *)
View ==
    [f \in Files |->
        IF doc.active = NoBuild \/ WritersOf(doc.active, f) = {} THEN Absent
        ELSE CHOOSE c \in Contents \cup {Absent} : c \in Indexed(doc.active, f)]

Snapshots == INSTANCE PublishedSnapshots
    WITH Passes <- Builds, scans <- staged, shown <- doc.active, view <- View

(* Readers of the active build see one whole scan at a time, replaced in one *)
(* step by that of a later pass, whatever the passes, their failures and     *)
(* crashes do to the records (publish_from_store, "the swap is an atomic     *)
(* compare-and-swap, and any error aborts the pending build while the        *)
(* previous one stays searchable").                                          *)
ImplementsSnapshots == Snapshots!SnapshotSpec
=============================================================================
