----------------------------- MODULE WriterLease -----------------------------
(***************************************************************************)
(* The writer lease of one source on the server backend                    *)
(* (docmonk-backends/src/backend.rs) and the optimistic read-modify-write   *)
(* every change of the source-state document goes through.                  *)
(*                                                                         *)
(* A pass (server_index.rs, run_source) takes the lease, changes the       *)
(* document any number of times from its main thread, is renewed by a      *)
(* second thread meanwhile, and gives the lease up.  patch_state reads the *)
(* document, checks the lease against what it read, and writes with        *)
(* if_seq_no: the write is refused when anything was written in between.   *)
(* A sequence number is only ever compared with an earlier one for         *)
(* equality, so `snap` keeps, per thread, whether the document it read is  *)
(* still the current one instead of the numbers.                           *)
(*                                                                         *)
(* A process that crashed never comes back: its successor has another      *)
(* process id, hence another lease owner (host:pid), and is another        *)
(* element of Procs.                                                       *)
(***************************************************************************)
EXTENDS Naturals

CONSTANTS
    Procs,      \* indexing processes, one per host and process id
    NoProc,     \* the null lease_owner
    TTL,        \* lease_seconds, in ticks of the clock
    MaxTime,    \* bound: the clock stops here
    MaxToken    \* bound: number of grants

ASSUME LeaseAssumption ==
    /\ NoProc \notin Procs
    /\ TTL \in Nat \ {0}
    /\ MaxTime \in Nat
    /\ MaxToken \in Nat

VARIABLES
    now,        \* wall clock
    lease,      \* lease_owner, lease_token, lease_expires_at of the document
    held,       \* the fencing token of the Lease a process holds, 0 for none
    renewing,   \* the process's renewal thread is running
    snap,       \* per thread: between its read of the document and its write
    up,         \* processes that have not crashed
    writer      \* history: token under which the document was last patched

leaseVars == <<now, lease, held, renewing, snap, up, writer>>

Threads == {"main", "renew"}
Tokens  == 0 .. MaxToken

TypeOK ==
    /\ now \in Nat
    /\ lease \in [owner : Procs \cup {NoProc}, token : Tokens, expires : Nat]
    /\ held \in [Procs -> Tokens]
    /\ renewing \in [Procs -> BOOLEAN]
    /\ snap \in [Procs -> [Threads -> {"none", "current", "stale"}]]
    /\ up \in SUBSET Procs
    /\ writer \in Tokens

Init ==
    /\ now = 0
    /\ lease = [owner |-> NoProc, token |-> 0, expires |-> 0]
    /\ held = [p \in Procs |-> 0]
    /\ renewing = [p \in Procs |-> FALSE]
    /\ snap = [p \in Procs |-> [t \in Threads |-> "none"]]
    /\ up = Procs
    /\ writer = 0

-----------------------------------------------------------------------------
(* The document as a thread sees it.                                       *)

\* lease_expires_at is in the future.
Live == lease.expires > now

\* check_lease with a lease: still granted to this process, under its token,
\* and not expired.
Fenced(p) == lease.owner = p /\ lease.token = held[p] /\ Live

\* Mutant: the check without a lease is dropped.
Unchecked == TRUE

\* check_lease without a lease: refused while anybody's lease is live.
Unleased == lease.owner = NoProc \/ ~Live

\* Mutant: writes leave the sequence number alone.
UnnumberedWrites == snap

\* Any write of the document makes every other thread's read outdated.
Outdated ==
    [p \in Procs |-> [t \in Threads |->
        IF snap[p][t] = "none" THEN "none" ELSE "stale"]]

\* source_state + check_lease of patch_state, by thread t of process p.
ReadState(p, t) ==
    /\ held[p] # 0
    /\ snap[p][t] = "none"
    /\ Fenced(p)
    /\ snap' = [snap EXCEPT ![p][t] = "current"]
    /\ UNCHANGED <<now, lease, held, renewing, up, writer>>

\* Mutant: the document is written without if_seq_no.
UnconditionalWrite(p, t) ==
    /\ snap[p][t] # "none"
    /\ snap' = [Outdated EXCEPT ![p][t] = "none"]
    /\ writer' = held[p]

\* write_state with the if_seq_no of the read: accepted only if nothing was
\* written since.
WriteState(p, t) ==
    /\ snap[p][t] = "current"
    /\ snap' = [Outdated EXCEPT ![p][t] = "none"]
    /\ writer' = held[p]

\* The write was refused (409, always so once the read is outdated) or the
\* request failed before it reached the server.
WriteFails(p, t) ==
    /\ snap[p][t] # "none"
    /\ snap' = [snap EXCEPT ![p][t] = "none"]

-----------------------------------------------------------------------------
(* Mutant: the Lease handed out counts the increment twice.                 *)
SkippingAcquire(p) ==
    /\ p \in up
    /\ held[p] = 0
    /\ lease.owner = p \/ Unleased
    /\ lease.token < MaxToken
    /\ lease' = [owner |-> p, token |-> lease.token + 1, expires |-> now + TTL]
    /\ held' = [held EXCEPT ![p] = lease.token + 2]
    /\ renewing' = [renewing EXCEPT ![p] = TRUE]
    /\ snap' = Outdated
    /\ UNCHANGED <<now, up, writer>>

(* acquire_lease: refused while another owner's lease is live; the owner    *)
(* itself may take it again.  Every grant increments the token.  The read   *)
(* and the compare-and-swap are one step: the swap succeeds only if the     *)
(* document did not change, and a lease that had expired stays expired.     *)
Acquire(p) ==
    /\ p \in up
    /\ held[p] = 0
    /\ lease.owner = p \/ Unleased
    /\ lease.token < MaxToken
    /\ lease' = [owner |-> p, token |-> lease.token + 1, expires |-> now + TTL]
    /\ held' = [held EXCEPT ![p] = lease.token + 1]
    /\ renewing' = [renewing EXCEPT ![p] = TRUE]
    /\ snap' = Outdated
    /\ UNCHANGED <<now, up, writer>>

\* patch_state by the pass itself (begin, publish, abort, set_online).
PatchRead(p) == ReadState(p, "main")

Patch(p) ==
    /\ WriteState(p, "main")
    /\ UNCHANGED <<now, lease, held, renewing, up>>

PatchFails(p) ==
    /\ WriteFails(p, "main")
    /\ UNCHANGED <<now, lease, held, renewing, up, writer>>

\* renew_lease, from the renewal thread.
RenewRead(p) == renewing[p] /\ ReadState(p, "renew")

Renew(p) ==
    /\ WriteState(p, "renew")
    /\ lease' = [lease EXCEPT !.expires = now + TTL]
    /\ UNCHANGED <<now, held, renewing, up>>

\* The first renewal that fails, for whatever reason, ends the thread; the
\* pass goes on.  The end of the pass ends it too.
RenewalEnds(p) ==
    /\ renewing[p]
    /\ renewing' = [renewing EXCEPT ![p] = FALSE]
    /\ snap' = [snap EXCEPT ![p]["renew"] = "none"]
    /\ UNCHANGED <<now, lease, held, up, writer>>

\* Mutant: releasing clears the token with the owner.
ForgetfulRelease(p) ==
    /\ held[p] # 0
    /\ ~renewing[p]
    /\ snap[p]["main"] = "none"
    /\ held' = [held EXCEPT ![p] = 0]
    /\ \/ /\ Fenced(p)
          /\ lease' = [owner |-> NoProc, token |-> 0, expires |-> 0]
          /\ snap' = Outdated
          /\ writer' = held[p]
       \/ UNCHANGED <<lease, snap, writer>>
    /\ UNCHANGED <<now, renewing, up>>

\* release_lease, after the renewal thread was joined: clears owner and
\* expiry but keeps the token; a superseded or expired lease is left alone.
Release(p) ==
    /\ held[p] # 0
    /\ ~renewing[p]
    /\ snap[p]["main"] = "none"
    /\ held' = [held EXCEPT ![p] = 0]
    /\ \/ /\ Fenced(p)
          /\ lease' = [lease EXCEPT !.owner = NoProc, !.expires = 0]
          /\ snap' = Outdated
          /\ writer' = held[p]
       \/ UNCHANGED <<lease, snap, writer>>
    /\ UNCHANGED <<now, renewing, up>>

\* A patch without a lease (set_source_enabled, require_full_rebuild).
AdminPatch ==
    /\ Unleased
    /\ snap' = Outdated
    /\ UNCHANGED <<now, lease, held, renewing, up, writer>>

\* The process dies; the document still names it as owner.
Crash(p) ==
    /\ p \in up
    /\ up' = up \ {p}
    /\ held' = [held EXCEPT ![p] = 0]
    /\ renewing' = [renewing EXCEPT ![p] = FALSE]
    /\ snap' = [snap EXCEPT ![p] = [t \in Threads |-> "none"]]
    /\ UNCHANGED <<now, lease, writer>>

Tick ==
    /\ now < MaxTime
    /\ now' = now + 1
    /\ UNCHANGED <<lease, held, renewing, snap, up, writer>>

Next ==
    \/ \E p \in Procs :
          \/ Acquire(p) \/ PatchRead(p) \/ Patch(p) \/ PatchFails(p)
          \/ RenewRead(p) \/ Renew(p) \/ RenewalEnds(p)
          \/ Release(p) \/ Crash(p)
    \/ AdminPatch
    \/ Tick

Spec == Init /\ [][Next]_leaseVars

-----------------------------------------------------------------------------
(* A thread whose read is still current is the holder: nobody was granted   *)
(* the lease between its check and its write, so its write cannot overwrite *)
(* what a newer holder did (patch_state, "lease must still be the source's  *)
(* live writer lease").                                                     *)
CurrentReadIsHolders ==
    \A p \in Procs, t \in Threads :
        snap[p][t] = "current" => lease.owner = p /\ lease.token = held[p]

(* No two processes ever hold the same fencing token, and none holds one    *)
(* the document has not granted (acquire_lease, "each grant increments the  *)
(* fencing token").                                                         *)
TokensUnique ==
    /\ \A p \in Procs : held[p] <= lease.token
    /\ \A p, q \in Procs : p # q /\ held[p] # 0 => held[p] # held[q]

(* Changes of the document are ordered by fencing token: once a newer       *)
(* holder has changed it, a superseded one, whatever it read before, never  *)
(* does again (acquire_lease, "a superseded holder's later state writes     *)
(* (publish, abort) are refused").                                          *)
WritesInTokenOrder == [][writer' >= writer]_leaseVars

(* A live lease changes hands only by the holder's own act: nobody is       *)
(* granted the lease, and nobody shortens it, while another process's lease *)
(* is live (acquire_lease, "Fails ... while another owner's lease is live"). *)
LiveLeaseKept ==
    [][ Live /\ lease.owner \in Procs
        => \/ lease'.owner = lease.owner /\ lease'.expires >= lease.expires
           \/ lease'.owner = NoProc /\ held[lease.owner] = lease.token ]_leaseVars
=============================================================================
