----------------------------- MODULE ServerStatus -----------------------------
(***************************************************************************)
(* `docmonk status` in server mode beside the passes of other hosts: the   *)
(* snapshot of docmonk-backends/src/status.rs, which reads the catalog,    *)
(* then counts per published build, then the catalog again; the heartbeat  *)
(* documents that passes write under their lease's token; the session of   *)
(* --watch that keeps counts for a while (docmonk-status/src/server.rs);   *)
(* and the verdicts on runs, sources and the whole (runtime.rs, health.rs, *)
(* snapshot.rs).                                                           *)
(*                                                                         *)
(* A build's records are counted as its own number, so that a count of     *)
(* another build, or of one that was collected, differs.                   *)
(***************************************************************************)
EXTENDS Naturals, FiniteSets

CONSTANTS
    Hosted,         \* sources
    Contended,      \* those of them that passes work on
    Reads,          \* bound on status snapshots
    MaxWork,        \* bound on passes and builds of a source together
    MaxSlips        \* bound on failed reads, lost or late writes and deaths

ASSUME StatusAssumption == Contended \subseteq Hosted

NoBuildYet == 0

VARIABLES
    served,         \* source -> its active build, 0 before the first
    failing,        \* sources whose last build failed
    kept,           \* source -> builds with records
    graphBase,      \* source -> build that its promoted graph is of
    token,          \* source -> token of its last lease
    leaseLive,      \* source -> that lease is held
    runOf,          \* source -> "none", or what became of the pass of that lease
    note,           \* source -> its heartbeat document
    lateNote,       \* a write that was given up and may still arrive
    read,           \* the status command
    session,        \* counts kept by --watch
    orderly,        \* source -> tokens of passes that ended in order (ghost)
    muddled,        \* a write was lost or came late (ghost)
    reads, slips

statusVars == <<served, failing, kept, graphBase, token, leaseLive, runOf, note,
                lateNote, read, session, orderly, muddled, reads, slips>>
catalogVars == <<served, failing, kept, graphBase>>
hostVars == <<token, leaseLive, runOf, note, lateNote, orderly, muddled>>

NoNote == [token |-> 0, active |-> FALSE, fresh |-> FALSE]
NoCounts == [s \in Hosted |-> [files |-> 0, records |-> 0]]
Unread == [step |-> "idle", heavy |-> TRUE, states |-> [s \in Hosted |-> NoBuildYet],
           builds |-> [s \in Hosted |-> NoBuildYet], wanted |-> {}, counts |-> NoCounts,
           graphs |-> [s \in Hosted |-> NoBuildYet], missing |-> {}, unsure |-> {},
           notes |-> [s \in Hosted |-> NoNote]]
NoSession == [builds |-> [s \in Hosted |-> NoBuildYet], counts |-> NoCounts,
              graphs |-> [s \in Hosted |-> NoBuildYet], held |-> FALSE]

StatusInit ==
    /\ served = [s \in Hosted |-> 1] /\ failing = {}
    /\ kept = [s \in Hosted |-> {1}] /\ graphBase = [s \in Hosted |-> 1]
    /\ token = [s \in Hosted |-> 0] /\ leaseLive = [s \in Hosted |-> FALSE]
    /\ runOf = [s \in Hosted |-> "none"]
    /\ note = [s \in Hosted |-> NoNote]
    /\ lateNote = [s \in Hosted |-> NoNote]
    /\ read = Unread /\ session = NoSession
    /\ orderly = [s \in Hosted |-> {}] /\ muddled = FALSE /\ reads = 0 /\ slips = 0

Slip == slips < MaxSlips /\ slips' = slips + 1

-----------------------------------------------------------------------------
(* Passes.                                                                 *)

\* FENCED_PUT: a document of a newer lease is kept.
Fenced(old, new) == IF old.token > new.token THEN old ELSE new

Beaten(s) == [token |-> token[s], active |-> TRUE, fresh |-> TRUE]

StartHosted(s) ==
    /\ token[s] + served[s] < MaxWork /\ ~leaseLive[s]
    /\ token' = [token EXCEPT ![s] = @ + 1]
    /\ leaseLive' = [leaseLive EXCEPT ![s] = TRUE]
    /\ runOf' = [runOf EXCEPT ![s] = "in"]
    /\ note' = [note EXCEPT ![s] = Fenced(@, [Beaten(s) EXCEPT !.token = @ + 1])]
    /\ UNCHANGED <<catalogVars, lateNote, read, session, orderly, muddled, reads, slips>>

\* A heartbeat, or one whose answer never comes: it may arrive much later.
BeatRun(s) ==
    /\ runOf[s] = "in"
    /\ \/ /\ note[s] # Beaten(s)
          /\ note' = [note EXCEPT ![s] = Fenced(@, Beaten(s))]
          /\ UNCHANGED <<lateNote, muddled, slips>>
       \/ /\ Slip /\ lateNote[s] = NoNote /\ muddled' = TRUE
          /\ lateNote' = [lateNote EXCEPT ![s] = Beaten(s)] /\ UNCHANGED note
    /\ UNCHANGED <<catalogVars, token, leaseLive, runOf, read, session, orderly, reads>>

ArriveLate(s) ==
    /\ lateNote[s] # NoNote
    /\ note' = [note EXCEPT ![s] = Fenced(@, lateNote[s])]
    /\ lateNote' = [lateNote EXCEPT ![s] = NoNote]
    /\ UNCHANGED <<catalogVars, token, leaseLive, runOf, read, session, orderly, muddled,
                   reads, slips>>

\* The pass publishes: the build before goes after a later publication.
PublishHosted(s) ==
    /\ runOf[s] = "in" /\ token[s] + served[s] < MaxWork
    /\ served' = [served EXCEPT ![s] = @ + 1]
    /\ kept' = [kept EXCEPT ![s] = {served[s], served[s] + 1}]
    /\ failing' = failing \ {s}
    /\ UNCHANGED <<graphBase, hostVars, read, session, reads, slips>>

CollectBuild(s) ==
    /\ kept[s] # {served[s]}
    /\ kept' = [kept EXCEPT ![s] = {served[s]}]
    /\ UNCHANGED <<served, failing, graphBase, hostVars, read, session, reads, slips>>

PromoteGraph(s) ==
    /\ graphBase[s] # served[s]
    /\ graphBase' = [graphBase EXCEPT ![s] = served[s]]
    /\ UNCHANGED <<served, failing, kept, hostVars, read, session, reads, slips>>

FailBuild(s) ==
    /\ runOf[s] = "in" /\ s \notin failing
    /\ failing' = failing \cup {s}
    /\ UNCHANGED <<served, kept, graphBase, hostVars, read, session, reads, slips>>

\* The terminal document, which may fail, before the lease is given back.
EndNote(s) ==
    /\ runOf[s] = "in"
    /\ runOf' = [runOf EXCEPT ![s] = "ended"]
    /\ orderly' = [orderly EXCEPT ![s] = @ \cup {token[s]}]
    /\ \/ /\ note' = [note EXCEPT ![s] = Fenced(@, [Beaten(s) EXCEPT !.active = FALSE])]
          /\ UNCHANGED <<muddled, slips>>
       \/ Slip /\ muddled' = TRUE /\ UNCHANGED note
    /\ UNCHANGED <<catalogVars, token, leaseLive, lateNote, read, session, reads>>

GiveBack(s) ==
    /\ runOf[s] = "ended" /\ leaseLive[s]
    /\ leaseLive' = [leaseLive EXCEPT ![s] = FALSE]
    /\ UNCHANGED <<catalogVars, token, runOf, note, lateNote, read, session, orderly,
                   muddled, reads, slips>>

DieOut(s) ==
    /\ runOf[s] \in {"in", "ended"} /\ leaseLive[s] /\ Slip
    /\ runOf' = [runOf EXCEPT ![s] = IF @ = "in" THEN "dead" ELSE @]
    /\ UNCHANGED <<catalogVars, token, leaseLive, note, lateNote, read, session, orderly,
                   muddled, reads>>

\* Nobody beats or renews for a pass that is gone: note and lease run out.
RunOut(s) ==
    /\ runOf[s] # "in"
    /\ \/ /\ note[s].active /\ note[s].fresh
          /\ note' = [note EXCEPT ![s].fresh = FALSE] /\ UNCHANGED leaseLive
       \/ /\ leaseLive[s] /\ leaseLive' = [leaseLive EXCEPT ![s] = FALSE]
          /\ UNCHANGED note
    /\ UNCHANGED <<catalogVars, token, runOf, lateNote, read, session, orderly, muddled,
                   reads, slips>>

-----------------------------------------------------------------------------
(* The snapshot.                                                           *)

StateOf(s) == [failed |-> s \in failing,
               graph |-> graphBase[s], token |-> token[s], live |-> leaseLive[s]]
HostsRest == UNCHANGED <<catalogVars, hostVars>>

\* The catalog; counts that the session still holds are not read.
ReadStates ==
    /\ read.step = "idle" /\ reads < Reads /\ reads' = reads + 1
    /\ \E heavy \in BOOLEAN :
           /\ ~heavy => session.held
           /\ read' = [Unread EXCEPT !.step = IF heavy THEN "files" ELSE "reuse",
                  !.heavy = heavy, !.states = [s \in Hosted |-> StateOf(s)],
                  !.builds = served, !.wanted = Hosted]
    /\ HostsRest /\ UNCHANGED <<session, slips>>

\* No publication since: the kept counts are used; otherwise all is read.
ReuseCounts ==
    /\ read.step = "reuse"
    /\ IF session.builds = read.builds
       THEN read' = [read EXCEPT !.step = "notes", !.counts = session.counts,
                                 !.graphs = session.graphs]
       ELSE read' = [Unread EXCEPT !.step = "files",
                  !.states = [s \in Hosted |-> StateOf(s)],
                  !.builds = served, !.wanted = Hosted]
    /\ HostsRest /\ UNCHANGED <<session, reads, slips>>

Found(s) == IF read.builds[s] \in kept[s] THEN read.builds[s] ELSE 0

CountFiles ==
    /\ read.step = "files"
    /\ \/ read' = [read EXCEPT !.step = "records", !.counts =
              [s \in Hosted |-> IF s \in read.wanted THEN [@[s] EXCEPT !.files = Found(s)]
                                ELSE @[s]]] /\ UNCHANGED slips
       \/ read' = [read EXCEPT !.step = "notes", !.missing = @ \cup {"published"}] /\ Slip
    /\ HostsRest /\ UNCHANGED <<session, reads>>

\* The first round goes on with the catalog, the second with its confirmation.
CountRecords ==
    /\ read.step = "records"
    /\ read' = [read EXCEPT !.step = IF read.wanted = Hosted THEN "recheck" ELSE "confirm",
           !.counts = [s \in Hosted |->
               IF s \in read.wanted THEN [@[s] EXCEPT !.records = Found(s)] ELSE @[s]]]
    /\ HostsRest /\ UNCHANGED <<session, reads, slips>>

\* Sources that were published meanwhile are read once more.
AskAgain ==
    /\ read.step = "recheck"
    /\ LET changed == {s \in Hosted : read.builds[s] # served[s]} IN
       read' = IF changed = {} THEN [read EXCEPT !.step = "graphs"]
               ELSE [read EXCEPT !.step = "files", !.wanted = changed,
                         !.builds = [s \in Hosted |->
                             IF s \in changed THEN served[s] ELSE read.builds[s]]]
    /\ HostsRest /\ UNCHANGED <<session, reads, slips>>

\* Mutant: what was read again is taken without asking a third time.
ConfirmNothing ==
    /\ read.step = "confirm"
    /\ read' = [read EXCEPT !.step = "graphs"]
    /\ HostsRest /\ UNCHANGED <<session, reads, slips>>

\* Those that changed again are reported as inconsistent.
Confirm ==
    /\ read.step = "confirm"
    /\ read' = [read EXCEPT !.step = "graphs",
           !.unsure = {s \in read.wanted : read.builds[s] # served[s]}]
    /\ HostsRest /\ UNCHANGED <<session, reads, slips>>

\* The visible graph of the catalog that was read first, on the builds read last.
GraphShown(s) == read.states[s].graph = read.builds[s]

CountGraphs ==
    /\ read.step = "graphs"
    /\ read' = [read EXCEPT !.step = "notes", !.graphs =
           [s \in Hosted |-> IF GraphShown(s) /\ graphBase[s] = read.builds[s]
                             THEN read.builds[s] ELSE 0]]
    /\ HostsRest /\ UNCHANGED <<session, reads, slips>>

\* The heartbeats come last; the session keeps what was read whole.
ReadNotes ==
    /\ read.step = "notes"
    /\ \/ read' = [read EXCEPT !.step = "done", !.notes = note] /\ UNCHANGED slips
       \/ read' = [read EXCEPT !.step = "done", !.missing = @ \cup {"runtime"}] /\ Slip
    /\ session' = IF read.heavy /\ "published" \notin read.missing
                  THEN [builds |-> read.builds, counts |-> read.counts,
                        graphs |-> read.graphs, held |-> TRUE]
                  ELSE session
    /\ HostsRest /\ UNCHANGED reads

ExpireSession ==
    /\ session.held /\ read.step = "idle"
    /\ session' = NoSession
    /\ HostsRest /\ UNCHANGED <<read, reads, slips>>

Forget == read.step = "done" /\ read' = Unread /\ HostsRest /\ UNCHANGED <<session, reads, slips>>

StatusNext ==
    \/ \E s \in Contended :
           \/ StartHosted(s) \/ BeatRun(s) \/ ArriveLate(s) \/ PublishHosted(s)
           \/ CollectBuild(s) \/ PromoteGraph(s) \/ FailBuild(s) \/ EndNote(s)
           \/ GiveBack(s) \/ DieOut(s) \/ RunOut(s)
    \/ ReadStates \/ ReuseCounts \/ CountFiles \/ CountRecords \/ AskAgain \/ Confirm
    \/ CountGraphs \/ ReadNotes \/ ExpireSession \/ Forget

StatusSpec == StatusInit /\ [][StatusNext]_statusVars

-----------------------------------------------------------------------------
(* The report (server_runs, source_index_state, problems, overall).        *)

LeaseValid(s) == read.states[s].live /\ read.states[s].token = read.notes[s].token

RunVerdict(s) ==
    LET n == read.notes[s] IN
    IF n = NoNote THEN "none"
    ELSE IF ~n.active THEN "finished"
    ELSE IF ~LeaseValid(s) THEN "expired"
    ELSE IF ~n.fresh THEN "stalled" ELSE "live"

Unpublished == "published" \in read.missing

IndexState(s) ==
    IF RunVerdict(s) = "live" THEN "active"
    ELSE IF RunVerdict(s) \in {"stalled", "expired"} THEN "stalled"
    ELSE IF Unpublished THEN "unknown"
    ELSE IF read.builds[s] = 0 /\ read.states[s].failed THEN "failed"
    ELSE IF read.builds[s] # 0 THEN "completed" ELSE "not_indexed"

GraphStale(s) == ~GraphShown(s)

Errors ==
    {s \in Hosted : RunVerdict(s) = "stalled"}
        \cup {s \in Hosted : read.states[s].failed /\ read.builds[s] = 0}

Warnings ==
    {s \in Hosted : \/ RunVerdict(s) = "expired" \/ read.states[s].failed \/ GraphStale(s)}

Health ==
    IF Errors # {} THEN "failed"
    ELSE IF read.missing # {} \/ read.unsure # {} THEN "unknown"
    ELSE IF Warnings # {} THEN "degraded" ELSE "healthy"

(* Counts that are shown without a warning are those of one build, whole,    *)
(* and of the build the report names; a report that says healthy names no    *)
(* other.  A pass is shown as live only if it ran when its heartbeat was     *)
(* read, or died less than a threshold before, as long as no write of a      *)
(* heartbeat went astray.  A heartbeat of a superseded pass never replaces   *)
(* that of its successor.  Code: status.rs:528-626, server.rs:123-167,       *)
(* runtime.rs:224-296, health.rs:34-72, 127-440.                             *)
Told == read.step = "done"

CountsTrue ==
    Told /\ ~Unpublished =>
        \A s \in Hosted \ read.unsure :
            read.counts[s] = [files |-> read.builds[s], records |-> read.builds[s]]

HealthyMeansWell ==
    Told /\ Health = "healthy" =>
        \A s \in Hosted :
            /\ read.counts[s] = [files |-> read.builds[s], records |-> read.builds[s]]
            /\ IndexState(s) \in {"active", "completed"}

LiveMeansRunning ==
    Told /\ ~muddled =>
        \A s \in Hosted : RunVerdict(s) = "live" =>
            read.notes[s].token \notin orderly[s] \/ read.notes[s] # note[s]

NotesForward == \A s \in Hosted : runOf[s] = "in" => note[s].token = token[s]

StatusRight == CountsTrue /\ HealthyMeansWell /\ LiveMeansRunning /\ NotesForward
=============================================================================
