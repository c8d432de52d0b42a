---------------------------- MODULE KnowledgeStore ----------------------------
(***************************************************************************)
(* A source's knowledge database (docmonk-storage/src/knowledge.rs,         *)
(* vectors.rs, graph.rs, schema.rs): rows of several builds side by side,   *)
(* lexical indexes that share their base rows' rowids, vectors with a       *)
(* revision, and the graph rows that outlive the base rows they came from.  *)
(*                                                                         *)
(* One pass writes it in sessions (SQLite transactions), a graph stage on a *)
(* connection of its own replaces the graph, readers see what is committed. *)
(* The process may die at any step: an open session is lost, what was       *)
(* committed stays.                                                         *)
(*                                                                         *)
(* A content stands for what a file holds: the names it defines with their  *)
(* text, the sections of a document, and the names it refers to.  A text    *)
(* stands for the words a search finds it by and for what a model embeds.   *)
(* The order of hits, limits, names of passages and the job queue (which    *)
(* nothing in the program uses) are left out.                               *)
(***************************************************************************)
EXTENDS Naturals, FiniteSets, FiniteSetsExt, Functions, TLC

CONSTANTS
    Papers,         \* the files of the source
    FileContents,
    FileMay,        \* the contents each file may have
    Firsts,         \* the contents of a first build
    Defines,        \* <<name, text>> a content defines
    Sections,       \* <<ordinal, text>> of a document
    Refers,         \* <<name, name>>: in which definition, to which
    Spells,         \* <<text, name>>: the text names the name
    WindowSize,     \* EMBED_WINDOW: what one call of the model takes
    MaxDrafts,      \* bound: full builds
    MaxModels,      \* bound: embedding models
    MaxWrites,      \* bound: files written or removed
    MaxFailedPasses \* bound: passes that fail or die

Drafts == 1 .. MaxDrafts
NoDraft == 0
NoContent == "nothing"
NoGraphPlan == [build |-> NoDraft]
NoTxn == [open |-> FALSE]
Models == 1 .. MaxModels
NoModel == 0            \* the model cannot be loaded

ASSUME StoreAssumption ==
    /\ FileMay \in [Papers -> SUBSET FileContents] /\ NoContent \notin FileContents
    /\ MaxDrafts \in Nat /\ MaxModels \in Nat \ {0}
    /\ MaxWrites \in Nat /\ MaxFailedPasses \in Nat

VARIABLES
    db,             \* the committed tables
    txn,            \* the pass's open transaction
    worker,         \* what the pass is doing, with which build
    activeBuild, pendingBuild,  \* the control plane's builds of this source
    model,          \* the model of the running program
    graphPlan,      \* what the graph stage planned, and its staged rows
    writes, failures  \* counted for the bounds

knowledgeVars == <<db, txn, worker, activeBuild, pendingBuild, model, graphPlan, writes, failures>>

EmptyTable == <<>>

\* The tables of what was extracted and derived, and those made from them.
EmptyTables ==
    [status |-> [b \in Drafts |-> "none"],
     files |-> EmptyTable, entities |-> EmptyTable, chunks |-> EmptyTable, documents |-> {},
     edges |-> {}, links |-> {}]

EmptyIndexes ==
    [vectors |-> {}, cache |-> {}, moved |-> {},
     graph |-> [ready |-> FALSE, base |-> NoDraft, of |-> NoDraft, lost |-> {}],
     keys |-> [f \in Papers |-> NoContent], refs |-> {},
     pathFts |-> EmptyTable, codeFts |-> EmptyTable, chunkFts |-> EmptyTable]

EmptyStore == EmptyTables @@ EmptyIndexes

-----------------------------------------------------------------------------
(* What the statements do to the tables of a store s.                       *)

\* A table maps rowids to rows; a new row gets the one after the largest,
\* which may be that of a row deleted before.
Added(table, rows) ==
    LET top == Max(DOMAIN table \cup {0})
    IN CHOOSE new \in Bijection(top + 1 .. top + Cardinality(rows), rows) : TRUE

Minus(table, rowids) == Restrict(table, DOMAIN table \ rowids)

RowsOfBuild(table, b) == {r \in DOMAIN table : table[r].build = b}

RowsOfFiles(table, b, F) == {r \in RowsOfBuild(table, b) : table[r].file \in F}

\* The base rows of files F of a build go, and what was made from them: what
\* the indexes have first, while the rowids are known.
Dropped(s, b, F) ==
    LET goes(table) == RowsOfFiles(table, b, F)
        Stays(row) == ~(row.build = b /\ row.file \in F)
    IN [s EXCEPT !.codeFts = Minus(@, goes(s.entities)),
                 !.chunkFts = Minus(@, goes(s.chunks)),
                 !.pathFts = Minus(@, goes(s.files)),
                 !.vectors = {v \in @ : Stays(v)},
                 !.chunks = Minus(@, goes(s.chunks)),
                 !.documents = {d \in @ : Stays(d)},
                 !.entities = Minus(@, goes(s.entities)),
                 !.files = Minus(@, goes(s.files))]

\* delete_file_rows: the graph rows stay until the graph stage replaces them.
DeleteFileRows(s, b, f) == [Dropped(s, b, {f}) EXCEPT !.moved = @ \cup {b}]

\* delete_build_rows and the deletion of the build itself.
DeleteBuild(s, b) ==
    [Dropped(s, b, Papers) EXCEPT
        !.links = {l \in @ : l.build # b}, !.edges = {e \in @ : e.build # b},
        !.moved = @ \ {b}, !.status[b] = "none"]

FileRow(b, f, c) == [build |-> b, file |-> f, id |-> f, text |-> f, holds |-> c]

EntityRow(b, f, x) == [build |-> b, file |-> f, id |-> <<f, x[1]>>, text |-> x[2]]

DocumentRow(b, f) == [build |-> b, file |-> f, id |-> f]

ChunkRow(b, f, x) == [build |-> b, file |-> f, id |-> <<f, x[1]>>, text |-> x[2]]

\* What an index keeps of a row, under the row's rowid.
Lexical(row) == [build |-> row.build, id |-> row.id, text |-> row.text]

Indexing(rows) == [r \in DOMAIN rows |-> Lexical(rows[r])]

\* insert_knowledge: what a file with content c defines and says.
InsertKnowledge(s, b, f, c) ==
    LET entities == Added(s.entities, {EntityRow(b, f, x) : x \in Defines[c]})
        chunks == Added(s.chunks, {ChunkRow(b, f, x) : x \in Sections[c]})
    IN [s EXCEPT !.entities = @ @@ entities, !.codeFts = @ @@ Indexing(entities),
                 !.documents = @ \cup {DocumentRow(b, f) : x \in Sections[c]},
                 !.chunks = @ @@ chunks, !.chunkFts = @ @@ Indexing(chunks)]

\* put_file_rows: all the rows of the file are replaced.
PutFileRows(s, b, f, c) ==
    LET d == DeleteFileRows(s, b, f)
        file == Added(d.files, {FileRow(b, f, c)})
    IN InsertKnowledge([d EXCEPT !.files = @ @@ file, !.pathFts = @ @@ Indexing(file)], b, f, c)

\* gc_builds_keeping
GcKeeping(s, keep) ==
    LET ended == {b \in Drafts \ keep : s.status[b] \in {"aborted", "superseded", "building"}}
        After[B \in SUBSET ended] ==
            IF B = {} THEN s
            ELSE LET b == CHOOSE x \in B : TRUE IN DeleteBuild(After[B \ {b}], b)
    IN After[ended]

\* mark_published
Published(s, b) ==
    [s EXCEPT !.status = [x \in Drafts |-> IF x = b THEN "published"
                                           ELSE IF @[x] = "published" THEN "superseded" ELSE @[x]]]

-----------------------------------------------------------------------------
(* Reads of a build of a store.                                             *)

FilesOf(s, b) == {s.files[r] : r \in RowsOfBuild(s.files, b)}
EntitiesOf(s, b) == {s.entities[r] : r \in RowsOfBuild(s.entities, b)}
ChunkRows(s, b) == {s.chunks[r] : r \in RowsOfBuild(s.chunks, b)}
DocumentsOf(s, b) == {d \in s.documents : d.build = b}

EntitiesById(s, b, ids) == {e \in EntitiesOf(s, b) : e.id \in ids}

\* The sections of each document.
KindCounts(s, b) ==
    [d \in {x.id : x \in DocumentsOf(s, b)} |-> Cardinality({c \in ChunkRows(s, b) : c.file = d})]

PathsOf(s, b, f) == {x.text : x \in {y \in FilesOf(s, b) : y.id = f}}

\* The rowids of an index's rows that match q in build b.
FtsRows(fts, b, q) == {r \in DOMAIN fts : fts[r].build = b /\ fts[r].text = q}

\* ReadFilter: no path or document named, or one of them.
Passes(named, x) == named = {} \/ x \in named

\* A row with its file joined in: nothing when the file is not there.
Joined(s, b, row) == {[id |-> row.id, path |-> p] : p \in PathsOf(s, b, row.file)}

AllJoined(s, b, rows, filter) ==
    {h \in UNION {Joined(s, b, row) : row \in rows} : Passes(filter.paths, h.path)}

Everything == [paths |-> {}, documents |-> {}]

\* A document filter admits no entity and no path.
EntitiesFts(s, b, q, filter) ==
    {h \in AllJoined(s, b, {s.entities[r] : r \in FtsRows(s.codeFts, b, q) \cap DOMAIN s.entities},
                     filter) : filter.documents = {}}

EntitiesAlias(s, b, name) ==
    AllJoined(s, b, {e \in EntitiesOf(s, b) : e.id[2] = name}, Everything)

ChunksFts(s, b, q, filter) ==
    LET hits == {s.chunks[r] : r \in FtsRows(s.chunkFts, b, q) \cap DOMAIN s.chunks}
    IN AllJoined(s, b, {c \in hits : /\ Passes(filter.documents, c.file)
                                     /\ \E d \in DocumentsOf(s, b) : d.id = c.file}, filter)

DocumentTitles(s, b) == AllJoined(s, b, DocumentsOf(s, b), Everything)

\* By the lexical index, and by the paths themselves when that finds nothing.
PathsProjection(s, b, p, filter) ==
    LET found == AllJoined(s, b, {s.files[r] : r \in FtsRows(s.pathFts, b, p) \cap DOMAIN s.files},
                           filter)
        direct == AllJoined(s, b, {x \in FilesOf(s, b) : x.text = p}, filter)
    IN {h \in (IF found # {} THEN found ELSE direct) : filter.documents = {}}

Siblings(s, b, c) == {x.id : x \in {y \in ChunkRows(s, b) : y.file = c.file /\ y.id # c.id}}

\* What a model embeds: entities and chunks with their text.
EmbeddingSubjects(s, b) ==
    {[kind |-> "entity", row |-> e] : e \in EntitiesOf(s, b)} \cup
    {[kind |-> "chunk", row |-> c] : c \in ChunkRows(s, b)}

EmbeddingsOf(s, b) == {v \in s.vectors : v.build = b}

IsOf(v, x) == v.kind = x.kind /\ v.build = x.row.build /\ v.subject = x.row.id

PendingSubjects(s, b, m) ==
    {x \in EmbeddingSubjects(s, b) : ~\E v \in s.vectors : IsOf(v, x) /\ v.model = m}

\* Whatever model the cached vector is of.
VectorOfText(s, text, m) ==
    LET cached == {c \in s.cache : c.text = text}
    IN IF cached = {} THEN <<text, m>> ELSE (CHOOSE c \in cached : TRUE).vector

\* The vector of a text: the cached one, if there is one for this model.
Vector(s, text, m) ==
    LET cached == {c \in s.cache : c.text = text /\ c.model = m}
    IN IF cached = {} THEN <<text, m>> ELSE (CHOOSE c \in cached : TRUE).vector

EmbeddingRow(b, x, m, vector) ==
    [build |-> b, kind |-> x.kind, subject |-> x.row.id, file |-> x.row.file, model |-> m,
     vector |-> vector]

PutEmbeddings(s, b, X, m) ==
    [s EXCEPT
        !.vectors = {v \in @ : ~\E x \in X : IsOf(v, x)} \cup
                    {EmbeddingRow(b, x, m, Vector(s, x.row.text, m)) : x \in X},
        !.cache = @ \cup {[text |-> x.row.text, model |-> m, vector |-> Vector(s, x.row.text, m)] :
                            x \in X},
        !.moved = @ \cup {b}]

MetaOf(s, b, v) ==
    UNION {Joined(s, b, x.row) : x \in {y \in EmbeddingSubjects(s, b) : IsOf(v, y)}}

\* The base generation is a build with the time it was finished.  Times are
\* only compared for being the same: graph.of is the build whose present
\* generation the graph is of, if it is.
IsCurrent(s, b) == s.graph.ready /\ s.graph.of = b /\ s.status[b] = "published"

Refinished(s, b) == [s EXCEPT !.graph.of = IF @ = b THEN NoDraft ELSE @]

GraphVisible(s, b, strict) ==
    IsCurrent(s, b) \/ (~strict /\ s.graph.ready /\ s.graph.base = b)

VisibleEdges(s, b, strict) == {e \in s.edges : GraphVisible(s, b, strict) /\ e.build = b}

\* From an entity, and to a symbol.
EntityEdgesOf(s, b, x, strict) == {e \in VisibleEdges(s, b, strict) : e.from = x}

SymbolEdgesOf(s, b, name, strict) == {e \in VisibleEdges(s, b, strict) : e.to = name}

EntityLinksOf(s, b, entity, strict) ==
    {l \in s.links : /\ GraphVisible(s, b, strict) /\ l.build = b /\ l.entity = entity
                     /\ \E d \in DocumentsOf(s, b) : d.id = l.document}

\* The files that refer to a name, by the manifest.
Referring(s, name) == {r[2] : r \in {x \in s.refs : x[1] = name}}

\* A store whose first build is published, with the contents first[f].
StoreOf(first) ==
    LET Put[F \in SUBSET Papers] ==
            IF F = {} THEN [EmptyStore EXCEPT !.status[1] = "building"]
            ELSE LET f == CHOOSE x \in F : TRUE
                 IN PutFileRows(Put[F \ {f}], 1, f, first[f])
        put == Put[Papers]
    IN Published([PutEmbeddings(put, 1, EmbeddingSubjects(put, 1), 1) EXCEPT !.moved = {}], 1)

\* Before the first build, or after it.
StoreInit ==
    /\ \/ activeBuild = NoDraft /\ db = EmptyStore
       \/ activeBuild = 1 /\ \E first \in Firsts : db = StoreOf(first)
    /\ txn = NoTxn
    /\ worker = [at |-> "idle", build |-> NoDraft]
    /\ pendingBuild = NoDraft
    /\ model \in Models \cup {NoModel} /\ graphPlan = NoGraphPlan
    /\ writes = 0 /\ failures = 0

-----------------------------------------------------------------------------
(* The pass.                                                                *)

\* What was written is what everyone sees.
Committed(s) == [s EXCEPT !.moved = {}]

\* The tables the pass's connection sees, and a write through it: into its
\* open session, or a transaction of its own (write_tx).
Tables == IF txn.open THEN txn.tables ELSE db

WriteTx(s) ==
    IF txn.open THEN txn' = [txn EXCEPT !.tables = s] /\ UNCHANGED db
    ELSE db' = Committed(s) /\ UNCHANGED txn

CommitSession == db' = Committed(txn.tables) /\ txn' = NoTxn

Open(s) == txn' = [open |-> TRUE, tables |-> s]

Moves(at) == worker' = [worker EXCEPT !.at = at]

\* A full build: what earlier passes left is collected, a new build opened.
BeginFull ==
    /\ worker.at = "idle"
    /\ pendingBuild' \in {b \in Drafts : db.status[b] = "none" /\ \A x \in Drafts :
                        db.status[x] # "none" => x < b}
    /\ pendingBuild' > activeBuild
    /\ db' = IF pendingBuild = NoDraft THEN db ELSE GcKeeping(db, {activeBuild})
    /\ Open([db' EXCEPT !.status[pendingBuild'] = "building"])
    /\ worker' = [at |-> "write", build |-> pendingBuild']
    /\ UNCHANGED <<activeBuild, model, graphPlan, writes, failures>>

\* A pass that died in a full build is taken up where it last committed.
ResumeFull ==
    /\ worker.at = "idle" /\ pendingBuild \notin {NoDraft, activeBuild}
    /\ db.status[pendingBuild] = "building"
    /\ db' = GcKeeping(db, {activeBuild, pendingBuild})
    /\ Open(db')
    /\ worker' = [at |-> "write", build |-> pendingBuild]
    /\ UNCHANGED <<activeBuild, pendingBuild, model, graphPlan, writes, failures>>

BeginInPlace ==
    /\ worker.at = "idle" /\ activeBuild # NoDraft
    /\ db' = IF pendingBuild = NoDraft THEN db ELSE GcKeeping(db, {activeBuild})
    /\ Open(db')
    /\ pendingBuild' = activeBuild
    /\ worker' = [at |-> "write", build |-> activeBuild]
    /\ UNCHANGED <<activeBuild, model, graphPlan, writes, failures>>

Spent == writes < MaxWrites /\ writes' = writes + 1

PutFiles(f, c) ==
    /\ worker.at = "write" /\ c \in FileMay[f] /\ Spent
    /\ WriteTx(PutFileRows(Tables, worker.build, f, c))
    /\ UNCHANGED <<worker, activeBuild, pendingBuild, model, graphPlan, failures>>

DropFile(f) ==
    /\ worker.at = "write" /\ PathsOf(Tables, worker.build, f) # {} /\ Spent
    /\ WriteTx(DeleteFileRows(Tables, worker.build, f))
    /\ UNCHANGED <<worker, activeBuild, pendingBuild, model, graphPlan, failures>>

\* Only a full build commits between files: nobody sees it yet.
NextSegment ==
    /\ worker.at = "write" /\ worker.build # activeBuild /\ txn.tables # db
    /\ db' = Committed(txn.tables) /\ Open(db')
    /\ UNCHANGED <<worker, activeBuild, pendingBuild, model, graphPlan, writes, failures>>

\* A full build is embedded with no transaction open, an update inside its own.
EndWriting ==
    /\ worker.at = "write"
    /\ IF worker.build = activeBuild THEN UNCHANGED <<db, txn>> ELSE CommitSession
    /\ Moves("embed")
    /\ UNCHANGED <<activeBuild, pendingBuild, model, graphPlan, writes, failures>>

Embedding == worker.at = "embed" \/ (worker.at = "idle" /\ activeBuild # NoDraft)

Embedded == IF worker.at = "embed" THEN worker.build ELSE activeBuild

Stale == {v \in EmbeddingsOf(Tables, Embedded) : v.model # model}

\* The vectors of another model are dropped before anything is embedded.
DropStale ==
    /\ Embedding /\ model # NoModel /\ Stale # {}
    /\ WriteTx([Tables EXCEPT
                !.vectors = @ \ Stale,
                !.moved = @ \cup {Embedded}])
    /\ UNCHANGED <<worker, activeBuild, pendingBuild, model, graphPlan, writes, failures>>

\* One window of what has no vector under the running model.
Window(s, b) ==
    LET waiting == PendingSubjects(s, b, model)
    IN CHOOSE X \in SUBSET waiting : Cardinality(X) = Min({WindowSize, Cardinality(waiting)})

Embed ==
    /\ Embedding /\ model # NoModel /\ Stale = {} /\ PendingSubjects(Tables, Embedded, model) # {}
    /\ WriteTx(PutEmbeddings(Tables, Embedded, Window(Tables, Embedded), model))
    /\ UNCHANGED <<worker, activeBuild, pendingBuild, model, graphPlan, writes, failures>>

\* Without a model the vectors are left as they are.
FullyEmbedded == model = NoModel \/ (Stale = {} /\ PendingSubjects(Tables, Embedded, model) = {})

\* An update of the visible build is committed with a new base generation.
FinishInPlace ==
    /\ worker.at = "embed" /\ worker.build = activeBuild /\ FullyEmbedded
    /\ db' = Refinished(Committed(txn.tables), activeBuild) /\ txn' = NoTxn
    /\ graphPlan' = IF graphPlan = NoGraphPlan THEN NoGraphPlan ELSE [graphPlan EXCEPT !.current = FALSE]
    /\ pendingBuild' = NoDraft
    /\ worker' = [at |-> "idle", build |-> NoDraft]
    /\ UNCHANGED <<activeBuild, model, writes, failures>>

\* A new build: the control plane switches to it, then its row says so, the
\* graph of the old one is carried into it, and the old one is collected.
ActivateBuild ==
    /\ worker.at = "embed" /\ worker.build # activeBuild /\ FullyEmbedded
    /\ activeBuild' = worker.build /\ pendingBuild' = NoDraft
    /\ worker' = [at |-> "mark", build |-> worker.build, before |-> activeBuild]
    /\ UNCHANGED <<db, txn, model, graphPlan, writes, failures>>

MarkBuild ==
    /\ worker.at = "mark"
    /\ db' = Published(db, worker.build)
    /\ Moves("carry")
    /\ UNCHANGED <<txn, activeBuild, pendingBuild, model, graphPlan, writes, failures>>

\* carry_graph_forward: the manifest still names the files whose rows are
\* not taken along; `lost` remembers them for GraphRight.
CarriedOver(s, from, to) ==
    IF s.graph.base # from \/ from = NoDraft THEN s
    ELSE [s EXCEPT
        !.edges = @ \cup {[e EXCEPT !.build = to] : e \in
            {x \in s.edges : x.build = from /\ PathsOf(s, to, x.file) # {}}},
        !.links = @ \cup {[l EXCEPT !.build = to] : l \in
            {x \in s.links : /\ x.build = from
                             /\ \E e \in EntitiesOf(s, to) : e.id = x.entity
                             /\ \E d \in DocumentsOf(s, to) : d.id = x.document}},
        !.graph.base = to,
        !.graph.lost = @ \cup {f \in Papers : s.keys[f] # NoContent /\ PathsOf(s, to, f) = {}}]

CarryForward ==
    /\ worker.at = "carry"
    /\ db' = CarriedOver(db, worker.before, worker.build)
    /\ Moves("collect")
    /\ UNCHANGED <<txn, activeBuild, pendingBuild, model, graphPlan, writes, failures>>

GcBuilds ==
    /\ worker.at = "collect"
    /\ db' = GcKeeping(db, {activeBuild})
    /\ worker' = [at |-> "idle", build |-> NoDraft]
    /\ UNCHANGED <<txn, activeBuild, pendingBuild, model, graphPlan, writes, failures>>

\* A pass fails before anyone sees what it wrote.
WriterFails ==
    /\ worker.at \in {"write", "embed"} /\ failures < MaxFailedPasses /\ failures' = failures + 1
    /\ txn' = NoTxn /\ pendingBuild' = NoDraft
    /\ db' = IF worker.build # activeBuild /\ db.status[worker.build] = "building"
             THEN [db EXCEPT !.status[worker.build] = "aborted"] ELSE db
    /\ worker' = IF worker.build = activeBuild THEN [at |-> "idle", build |-> NoDraft]
                  ELSE [worker EXCEPT !.at = "collect"]
    /\ UNCHANGED <<activeBuild, model, graphPlan, writes>>

WriterDies ==
    /\ failures < MaxFailedPasses /\ failures' = failures + 1
    /\ worker.at # "idle" \/ graphPlan # NoGraphPlan
    /\ txn' = NoTxn /\ graphPlan' = NoGraphPlan
    /\ worker' = [at |-> "idle", build |-> NoDraft]
    /\ UNCHANGED <<db, activeBuild, pendingBuild, model, writes>>

-----------------------------------------------------------------------------
(* The graph stage.                                                         *)

KeyOf(s, b, f) ==
    LET held == {x.holds : x \in {y \in FilesOf(s, b) : y.id = f}}
    IN IF held = {} THEN NoContent ELSE CHOOSE c \in held : TRUE

DerivedRows(b, f, c) ==
    {[build |-> b, file |-> f, from |-> <<f, x[1]>>, to |-> x[2]] : x \in Refers[c]}

\* Rows are derived into a table of the connection's own, no lock held.
PlanRows ==
    /\ graphPlan = NoGraphPlan /\ activeBuild # NoDraft
    /\ db.status[activeBuild] = "published" /\ ~IsCurrent(db, activeBuild)
    /\ LET full == db.graph.base # activeBuild \/ ~db.graph.ready
           here == {f \in Papers : KeyOf(db, activeBuild, f) # NoContent}
           changed == IF full THEN here
                      ELSE {f \in here : KeyOf(db, activeBuild, f) # db.keys[f]}
       IN graphPlan' = [build |-> activeBuild, current |-> TRUE,
                        full |-> full, changed |-> changed,
                        removed |-> {f \in Papers \ here : db.keys[f] # NoContent},
                        keys |-> [f \in Papers |-> KeyOf(db, activeBuild, f)],
                        staged |-> UNION {DerivedRows(activeBuild, f, KeyOf(db, activeBuild, f)) : f \in changed}]
    /\ UNCHANGED <<db, txn, worker, activeBuild, pendingBuild, model, writes, failures>>

ClearGraph(s, b) ==
    [s EXCEPT !.edges = {e \in @ : e.build # b}, !.links = {l \in @ : l.build # b}]

ClearFileGraph(s, b, F) ==
    [s EXCEPT !.edges = {e \in @ : e.build # b \/ e.file \notin F},
              !.links = {l \in @ : \/ l.build # b
                                   \/ /\ ~\E d \in DocumentsOf(s, b) : d.file \in F /\ d.id = l.document
                                      /\ ~\E e \in EntitiesOf(s, b) : e.file \in F /\ e.id = l.entity}]

ClearOrphans(s, b) ==
    [s EXCEPT !.edges = {e \in @ : e.build # b \/ PathsOf(s, b, e.file) # {}},
              !.links = {l \in @ : \/ l.build # b
                                   \/ /\ \E e \in EntitiesOf(s, b) : e.id = l.entity
                                      /\ \E d \in DocumentsOf(s, b) : d.id = l.document}]

\* What the linker finds for the touched files.
LinkedBy(s, b, touched) ==
    {[build |-> b, entity |-> x[1].id, document |-> x[2].file] :
        x \in {y \in EntitiesOf(s, b) \X ChunkRows(s, b) :
                /\ <<y[2].text, y[1].id[2]>> \in Spells
                /\ y[1].file \in touched \/ y[2].file \in touched}}

ReferredIn(s, b, F) == {<<e.to, e.file>> : e \in {x \in s.edges : x.build = b /\ x.file \in F}}

PublishStaged(s, rows) == [s EXCEPT !.edges = @ \cup rows]

\* The manifest of a full promotion is replaced, of any other changed for
\* the files it is about.
PutManifest(s, p) ==
    LET touched == p.changed \cup p.removed
    IN [s EXCEPT !.keys = IF p.full THEN p.keys
                          ELSE [f \in Papers |-> IF f \in touched THEN p.keys[f] ELSE @[f]],
                 !.refs = {r \in @ : ~p.full /\ r[2] \notin touched} \cup
                          ReferredIn(s, p.build, p.changed),
                 !.graph = [ready |-> TRUE, base |-> p.build, of |-> p.build,
                            lost |-> IF p.full THEN {} ELSE s.graph.lost \ touched]]

WithGraph(s, p) ==
    LET cleared == IF p.full THEN ClearGraph(s, p.build)
                   ELSE ClearOrphans(ClearFileGraph(s, p.build, p.changed), p.build)
        derived == PublishStaged(cleared, p.staged)
    IN PutManifest([derived EXCEPT !.links = @ \cup LinkedBy(s, p.build, p.changed)], p)

\* Fenced against a base that was published again meanwhile.
PublishRows ==
    /\ graphPlan # NoGraphPlan /\ ~txn.open
    /\ db' = IF graphPlan.current /\ db.status[graphPlan.build] = "published"
             THEN WithGraph(db, graphPlan) ELSE db
    /\ graphPlan' = NoGraphPlan
    /\ UNCHANGED <<txn, worker, activeBuild, pendingBuild, model, writes, failures>>

StoreNext ==
    \/ BeginFull \/ ResumeFull \/ BeginInPlace
    \/ \E f \in Papers : (\E c \in FileContents : PutFiles(f, c)) \/ DropFile(f)
    \/ NextSegment \/ EndWriting
    \/ DropStale \/ Embed
    \/ FinishInPlace \/ ActivateBuild \/ MarkBuild \/ CarryForward \/ GcBuilds
    \/ WriterFails \/ WriterDies
    \/ PlanRows \/ PublishRows

-----------------------------------------------------------------------------
(* Properties of a store s, committed or in the open session.               *)

\* The lexical indexes are their base rows', rowid by rowid: a leftover would
\* name, through its rowid, a row that was inserted later.
Indexed(s) ==
    /\ s.pathFts = Indexing(s.files)
    /\ s.codeFts = Indexing(s.entities)
    /\ s.chunkFts = Indexing(s.chunks)

\* <<file, x>> for the x that the files' recorded contents hold.
HeldBy(s, b, part) ==
    UNION {{<<f, x>> : x \in part[KeyOf(s, b, f)]} :
            f \in {g \in Papers : KeyOf(s, b, g) # NoContent}}

TextsHeld == {x[2] : x \in UNION {Defines[c] \cup Sections[c] : c \in FileContents}}

Filters == {Everything} \cup [paths : {{f} : f \in Papers}, documents : {{}}]
                     \cup [paths : {{}}, documents : {{f} : f \in Papers}]

\* A search of a build finds exactly what its files hold by their recorded
\* content, in the filter, with the path of the file, and nothing of another
\* build.
SearchesRight(s) ==
    \A b \in {x \in Drafts : s.status[x] # "none"} :
        LET here == {f \in Papers : KeyOf(s, b, f) # NoContent}
            defined == HeldBy(s, b, Defines)
            written == HeldBy(s, b, Sections)
            Hit(h) == [id |-> <<h[1], h[2][1]>>, path |-> h[1]]
        IN
        /\ \A filter \in Filters :
            LET seen == {f \in here : Passes(filter.paths, f)}
                whole == {f \in seen : filter.documents = {}}
            IN /\ \A q \in TextsHeld :
                    /\ EntitiesFts(s, b, q, filter) =
                        {Hit(h) : h \in {x \in defined : x[2][2] = q /\ x[1] \in whole}}
                    /\ ChunksFts(s, b, q, filter) =
                        {Hit(h) : h \in {x \in written : /\ x[2][2] = q /\ x[1] \in seen
                                                        /\ Passes(filter.documents, x[1])}}
               /\ \A f \in Papers : PathsProjection(s, b, f, filter) =
                    {[id |-> g, path |-> g] : g \in {f} \cap whole}
        /\ \A h \in defined :
            /\ EntitiesAlias(s, b, h[2][1]) = {Hit(x) : x \in {y \in defined : y[2][1] = h[2][1]}}
            /\ {e.text : e \in EntitiesById(s, b, {Hit(h).id})} =
                {y[2][2] : y \in {z \in defined : Hit(z).id = Hit(h).id}}
        /\ KindCounts(s, b) = [f \in {h[1] : h \in written} |->
                                Cardinality({h \in written : h[1] = f})]
        /\ DocumentTitles(s, b) = {[id |-> h[1], path |-> h[1]] : h \in written}
        /\ \A c \in ChunkRows(s, b) :
            Siblings(s, b, c) = {Hit(h).id : h \in {x \in written : x[1] = c.file}} \ {c.id}

\* Every vector is of something the build has, made from its present text.
VectorsRight(s) ==
    \A v \in s.vectors :
        /\ MetaOf(s, v.build, v) # {}
        /\ \A x \in EmbeddingSubjects(s, v.build) : IsOf(v, x) => v.vector = <<x.row.text, v.model>>

\* A graph recorded for a build's present generation is that of its files,
\* those aside that an earlier build had and a later one has again (the run
\* graph_carried is about them).
GraphRight(s) ==
    \A b \in Drafts : IsCurrent(s, b) =>
        LET sure == Papers \ s.graph.lost
            derived == UNION {DerivedRows(b, f, KeyOf(s, b, f)) : f \in {g \in sure : KeyOf(s, b, g) # NoContent}}
            linked == LinkedBy(s, b, Papers)
            entities == {<<h[1], h[2][1]>> : h \in HeldBy(s, b, Defines)}
            names == {x[2] : x \in UNION {Refers[c] : c \in FileContents}}
            Sure(edges) == {e \in edges : e.file \in sure}
        IN /\ \A x \in {e.from : e \in s.edges} \cup entities :
                Sure(EntityEdgesOf(s, b, x, TRUE)) = {e \in derived : e.from = x}
           /\ \A name \in names :
                Sure(SymbolEdgesOf(s, b, name, TRUE)) = {e \in derived : e.to = name}
           /\ \A x \in {l.entity : l \in s.links} \cup entities : x[1] \in sure =>
                {l \in EntityLinksOf(s, b, x, TRUE) : l.document \in sure} =
                    {l \in linked : l.entity = x /\ l.document \in sure}
           /\ \A name \in names : Referring(s, name) \cap sure = {e.file : e \in {x \in derived : x.to = name}}
           /\ s.keys = [f \in Papers |-> KeyOf(s, b, f)]

\* Nothing is left of a build that is not recorded.
NothingLeft(s) ==
    \A b \in Drafts : s.status[b] = "none" =>
        /\ FilesOf(s, b) = {} /\ EntitiesOf(s, b) = {} /\ ChunkRows(s, b) = {}
        /\ DocumentsOf(s, b) = {} /\ EmbeddingsOf(s, b) = {}
        /\ \A x \in s.edges \cup s.links : x.build # b

\* A pass that has the revision the committed vectors have sees those vectors:
\* an index stamped with it serves both.
RevisionsRight(s) == \A b \in Drafts \ s.moved : EmbeddingsOf(s, b) = EmbeddingsOf(db, b)

(* Whatever passes wrote, left, resumed or lost, with a graph stage between   *)
(* their steps: of the tables as a pass writes them (what readers see was     *)
(* written so), the lexical indexes name the rows they were made from, every  *)
(* search of a build finds what its files hold and nothing of another build,  *)
(* a vector is of its subject's present text, nothing is left of a build that *)
(* was collected, and a revision stands for one set of vectors; and the graph *)
(* that readers see as current is the one its build's files derive.           *)
StoreRight ==
    /\ Indexed(Tables) /\ SearchesRight(Tables) /\ VectorsRight(Tables)
    /\ NothingLeft(Tables) /\ RevisionsRight(Tables) /\ GraphRight(db)

=============================================================================
