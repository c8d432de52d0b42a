------------------------------- MODULE AnnIndex -------------------------------
(***************************************************************************)
(* The persistent vector index of a project (docmonk-ml/src/ann.rs): a      *)
(* base file replaced by rename, a delta log appended to, a cache per       *)
(* searching process, and the revision token SQLite replaces with every     *)
(* write of vectors (docmonk-storage/src/vectors.rs).                        *)
(*                                                                         *)
(* SQLite is authoritative: a search uses the index only when it is stamped *)
(* with the current revision.  Passes that write vectors hold the source's  *)
(* run lock, so there is one writer; searches run beside it.                *)
(*                                                                         *)
(* An index is the vector of each label; the graph built on them is left    *)
(* out.  A revision stands for the build and its random token together, and *)
(* a file's checksum for its content.  Of a log's records only what their   *)
(* replay, in the order they were appended, makes of the base file is kept. *)
(***************************************************************************)
EXTENDS Naturals, Sequences

CONSTANTS
    Labels,         \* subjects: chunks and entities, by their stable ids
    Vectors,
    Missing,        \* a subject without a vector
    Keep,           \* a label a delta record says nothing about
    VectorsOf,      \* per label: the vectors its text may be embedded to
    Searchers,      \* processes that search
    NoFile,         \* a file that does not exist, or is not a valid one
    MaxRev          \* bound: writes of vectors

Contents == {c \in [Labels -> Vectors \cup {Missing}] :
                \A l \in Labels : c[l] \in VectorsOf[l] \cup {Missing}}
Revs == 1 .. MaxRev
Files == [index : Contents, rev : Revs]
Logs  == [of : Files, to : Files, torn : BOOLEAN]
Deltas == [Labels -> Vectors \cup {Missing, Keep}]

ASSUME AnnAssumption ==
    /\ VectorsOf \in [Labels -> SUBSET Vectors]
    /\ Missing \notin Vectors /\ Keep \notin Vectors /\ Keep # Missing
    /\ MaxRev \in Nat \ {0}
    /\ NoFile \notin Files \cup Logs

VARIABLES
    vecs,           \* the vectors at each revision there ever was
    committed,      \* the revision other connections see
    working,        \* the revision the writing pass sees
    base,           \* the base file
    log,            \* the delta log
    pc,             \* where sync is
    plan,           \* what it is about to write
    spc,            \* where each search is
    current,        \* the revision the search read
    got,            \* the base file the search read
    cache           \* the index the searching process remembers

dbVars == <<vecs, committed, working>>
fileVars == <<base, log>>
searchVars == <<spc, current, got, cache>>
annVars == <<dbVars, fileVars, pc, plan, searchVars>>

Nothing == [l \in Labels |-> Missing]
NoPlan == [index |-> Nothing, ops |-> [l \in Labels |-> Keep], append |-> FALSE]

(* The variables have their types, and a revision is never current before it *)
(* was written.                                                             *)
AnnTypeOK ==
    /\ vecs \in Seq(Contents) /\ Len(vecs) \in Revs
    /\ committed \in 1 .. Len(vecs) /\ working \in committed .. Len(vecs)
    /\ base \in Files \cup {NoFile}
    /\ log \in Logs \cup {NoFile}
    /\ pc \in {"idle", "write", "unlink", "done"}
    /\ plan \in [index : Contents, ops : Deltas, append : BOOLEAN]
    /\ spc \in [Searchers -> {"idle", "base", "log", "answer"}]
    /\ current \in [Searchers -> Revs]
    /\ got \in [Searchers -> Files \cup {NoFile}]
    /\ cache \in [Searchers -> Files \cup {NoFile}]

AnnInit ==
    /\ vecs = <<Nothing>>
    /\ committed = 1
    /\ working = 1
    /\ base = NoFile
    /\ log = NoFile
    /\ pc = "idle"
    /\ plan = NoPlan
    /\ spc = [s \in Searchers |-> "idle"]
    /\ current = [s \in Searchers |-> 1]
    /\ got = [s \in Searchers |-> NoFile]
    /\ cache = [s \in Searchers |-> NoFile]

-----------------------------------------------------------------------------
(* The files.                                                               *)

\* Mutant: a record is taken for the whole index.
ApplyOnly(index, ops) == ops

Apply(index, ops) ==
    [l \in Labels |-> IF ops[l] = Keep THEN index[l] ELSE ops[l]]

\* replay: a record of revision rev leaves its changes and its header behind.
Replay(file, rev, ops) == [index |-> Apply(file.index, ops), rev |-> rev]

\* load_full: the log is replayed up to a torn record, if it is this base
\* file's.
Replayed(file, lg) ==
    IF lg = NoFile \/ lg.of # file THEN file ELSE lg.to

\* The whole log was replayed, so it can be appended to.
Clean(file, lg) == lg = NoFile \/ (lg.of = file /\ ~lg.torn)

-----------------------------------------------------------------------------
(* The writing pass: vectors change, sync, and the pass commits or not.     *)

Between == pc \in {"idle", "done"}

\* Mutant: the token is a counter, which a rollback turns back.
WriteVectorsCounting(contents, visible) ==
    /\ Between
    /\ working < MaxRev
    /\ vecs' = Append(SubSeq(vecs, 1, working), contents)
    /\ working' = working + 1
    /\ committed' = IF visible THEN working' ELSE committed
    /\ pc' = "idle"
    /\ UNCHANGED <<fileVars, plan, searchVars>>

\* put_embeddings, delete_file_rows, delete_stale_embeddings: with a fresh
\* revision, seen by others at once or only when the pass commits.
WriteVectors(contents, visible) ==
    /\ Between
    /\ Len(vecs) < MaxRev
    /\ vecs' = Append(vecs, contents)
    /\ working' = Len(vecs) + 1
    /\ committed' = IF visible THEN working' ELSE committed
    /\ pc' = "idle"
    /\ UNCHANGED <<fileVars, plan, searchVars>>

Commit ==
    /\ Between
    /\ committed' = working
    /\ UNCHANGED <<vecs, working, fileVars, pc, plan, searchVars>>

\* The pass fails and rolls back, or its process dies, at any point.
Abandon ==
    /\ working' = committed
    /\ pc' = "idle"
    /\ plan' = NoPlan
    /\ UNCHANGED <<vecs, committed, fileVars, searchVars>>

\* `docmonk vectors rebuild`, alone under the locks, removes the base file and
\* only that; its sync follows.
RemoveBase ==
    /\ Between
    /\ working = committed
    /\ vecs[committed] # Nothing
    /\ base' = NoFile
    /\ pc' = "idle"
    /\ UNCHANGED <<dbVars, log, plan, searchVars>>

\* Labels the index must lose or gain; one it has and keeps is not touched.
Difference(index, wanted) ==
    [l \in Labels |->
        IF (index[l] = Missing) = (wanted[l] = Missing) THEN Keep ELSE wanted[l]]

\* Mutant: any log may be appended to.
AppendToAny(file) == file # NoFile

\* A base file whose log, if any, was replayed to its end.
Appendable(file) == file # NoFile /\ Clean(file, log)

\* sync: it reads the revision, the files and the vectors under the run lock.
SyncStart ==
    LET loaded == IF base = NoFile THEN [index |-> Nothing, rev |-> working]
                  ELSE Replayed(base, log)
        ops    == Difference(loaded.index, vecs[working])
    IN
    /\ pc = "idle"
    /\ IF base # NoFile /\ loaded.rev = working
       THEN pc' = "done" /\ UNCHANGED plan
       ELSE /\ pc' = "write"
            /\ plan' = [index |-> Apply(loaded.index, ops), ops |-> ops,
                        append |-> Appendable(base)]
    /\ UNCHANGED <<dbVars, fileVars, searchVars>>

\* append_delta: one record, after the base file's checksum in a new log.
\* The write may be cut short.
AppendDelta(torn) ==
    /\ pc = "write"
    /\ plan.append
    /\ LET old == IF log = NoFile THEN [of |-> base, to |-> base, torn |-> FALSE]
                  ELSE log
       IN  log' = IF torn THEN [old EXCEPT !.torn = TRUE]
                  ELSE [old EXCEPT !.to = Replay(@, working, plan.ops)]
    /\ pc' = IF torn THEN "idle" ELSE "done"
    /\ plan' = NoPlan
    /\ UNCHANGED <<dbVars, base, searchVars>>

\* save: the temporary file is renamed over the base file, then the log is
\* removed.  Also when the log would outgrow the base, or on compaction.
Rename ==
    /\ pc = "write"
    /\ base' = [index |-> plan.index, rev |-> working]
    /\ pc' = "unlink"
    /\ plan' = NoPlan
    /\ UNCHANGED <<dbVars, log, searchVars>>

Unlink ==
    /\ pc = "unlink"
    /\ log' = NoFile
    /\ pc' = "done"
    /\ UNCHANGED <<dbVars, base, plan, searchVars>>

\* An I/O error: sync gives up, the pass goes on.
SyncFails ==
    /\ pc \in {"write", "unlink"}
    /\ pc' = "idle"
    /\ plan' = NoPlan
    /\ UNCHANGED <<dbVars, fileVars, searchVars>>

-----------------------------------------------------------------------------
(* search_timed.  An exact search over SQLite changes nothing here: the     *)
(* search just ends.                                                       *)

Usable(file, rev) == file # NoFile /\ file.rev = rev

ReadRevision(s) ==
    /\ spc[s] = "idle"
    /\ current' = [current EXCEPT ![s] = committed]
    /\ spc' = [spc EXCEPT ![s] =
           IF Usable(cache[s], committed) THEN "answer" ELSE "base"]
    /\ UNCHANGED <<dbVars, fileVars, pc, plan, got, cache>>

ReadBase(s) ==
    /\ spc[s] = "base"
    /\ got' = [got EXCEPT ![s] = base]
    /\ spc' = [spc EXCEPT ![s] = IF base = NoFile THEN "idle" ELSE "log"]
    /\ UNCHANGED <<dbVars, fileVars, pc, plan, current, cache>>

ReadLog(s) ==
    LET file == Replayed(got[s], log) IN
    /\ spc[s] = "log"
    /\ got' = [got EXCEPT ![s] = NoFile]
    /\ IF Usable(file, current[s])
       THEN /\ cache' = [cache EXCEPT ![s] = file]
            /\ spc' = [spc EXCEPT ![s] = "answer"]
       ELSE spc' = [spc EXCEPT ![s] = "idle"] /\ UNCHANGED cache
    /\ UNCHANGED <<dbVars, fileVars, pc, plan, current>>

Answer(s) ==
    /\ spc[s] = "answer"
    /\ spc' = [spc EXCEPT ![s] = "idle"]
    /\ UNCHANGED <<dbVars, fileVars, pc, plan, current, got, cache>>

AnnNext ==
    \/ \E c \in Contents, visible \in BOOLEAN : WriteVectors(c, visible)
    \/ Commit \/ Abandon \/ RemoveBase
    \/ SyncStart \/ Rename \/ Unlink \/ SyncFails
    \/ \E torn \in BOOLEAN : AppendDelta(torn)
    \/ \E s \in Searchers : ReadRevision(s) \/ ReadBase(s) \/ ReadLog(s) \/ Answer(s)

AnnSpec == AnnInit /\ [][AnnNext]_annVars

-----------------------------------------------------------------------------
Known(contents) == {l \in Labels : contents[l] # Missing}

(* A search that is answered from the index sees exactly the subjects that   *)
(* had vectors at the revision it read, through torn logs, a crash between   *)
(* the rename and the removal of the log, rollbacks, and files replaced      *)
(* between its two reads (ann.rs, "Queries use the index only when its       *)
(* header names the requested build and model and its token still equals    *)
(* SQLite's").                                                              *)
SearchSeesSubjects ==
    \A s \in Searchers :
        spc[s] = "answer" => Known(cache[s].index) = Known(vecs[current[s]])

(* The module comment, "The index file is a cache of the active build's      *)
(* vectors": such a search also compares the query with their vectors.       *)
SearchTruthful ==
    \A s \in Searchers :
        spc[s] = "answer" => cache[s].index = vecs[current[s]]

(* A sync that reports success leaves files from which the next search loads *)
(* the revision it synced, whatever state earlier syncs left them in (sync,  *)
(* "Brings the project's index in line with build_id's vectors").            *)
SyncedIsUsed ==
    pc = "done" => base # NoFile /\ Replayed(base, log).rev = working

(* IndexTrusted: a search through the index sees the subjects of the         *)
(* revision it read, and an index that was synced is one a search uses.      *)
IndexTrusted == SearchSeesSubjects /\ SyncedIsUsed
=============================================================================
