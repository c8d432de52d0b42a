------------------------------- MODULE Records -------------------------------
(***************************************************************************)
(* What a server holds of a source, record by record                       *)
(* (docmonk-backends/src/publish.rs, backend.rs, reader.rs).  A publication *)
(* compares a digest of every staged file with the one on the server,       *)
(* attaches the records of equal files to the new build and writes the      *)
(* others anew; a record carries what the local store would join in (its    *)
(* file's path and time, its document's title, its parent's title).         *)
(*                                                                         *)
(* The same reads are made on a local store and on a server                 *)
(* (docmonk-storage/src/read.rs): a build must answer them on the server as *)
(* the rows it was published from do.  Leases and the graph's own           *)
(* publication are in ServerPublish and ServerGraph; the order of answers   *)
(* and their limits are left out.                                           *)
(***************************************************************************)
EXTENDS Naturals, FiniteSets, FiniteSetsExt

CONSTANTS
    Volumes,        \* the files of the source
    Editions,       \* what a file may hold
    Unread,         \* that of a file nothing could be taken from
    MayHold,        \* the editions of each file
    Declares,       \* <<name, qualified name>> an edition declares
    Titles,         \* <<index, title>> of its documents; 0 is the file's own
    Passages,       \* [doc, ordinal, under, kind, text] of its documents
    Names,          \* <<text, qualified name>>: the text names it
    Suffixed,       \* the files each path or file name stands for
    FirstStagings,  \* what a first build may have been staged from
    MaxEdits,       \* bound: changes of the staged build
    MaxVersions,    \* bound: builds published or aborted
    MaxEmbedders,   \* bound: embedding models
    MaxPinned       \* bound: manual links added

NoEdition == "no edition"
NoVersion == 0
Versions == 1 .. MaxVersions
NoEmbedder == 0
Embedders == 1 .. MaxEmbedders
Own == 0                                   \* the index of a file's own document
Nowhere == <<>>                            \* no parent, no chunk

\* What the local build has of a file.
StagedRow ==
    [edition : Editions \cup {NoEdition}, stat : {0, 1}, status : {"indexed", "retry", "failed"},
     entities : {NoEmbedder} \cup Embedders, chunks : {NoEmbedder} \cup Embedders]

ASSUME RecordsAssumption ==
    /\ MayHold \in [Volumes -> SUBSET Editions] /\ NoEdition \notin Editions
    /\ Unread \in Editions /\ Declares[Unread] \cup Titles[Unread] \cup Passages[Unread] = {}
    /\ FirstStagings \subseteq [Volumes -> StagedRow]
    /\ MaxEdits \in Nat /\ MaxVersions \in Nat \ {0} /\ MaxEmbedders \in Nat \ {0}

\* What the ids of rows are made of tells the rows of a file apart, a passage
\* is of a document and a part of a document has the file's own beside it.
ASSUME EditionsAssumption ==
    \A e \in Editions :
        /\ \A x, y \in Declares[e] : x[2] = y[2] => x[1] = y[1]
        /\ \A x, y \in Titles[e] : x[1] = y[1] => x[2] = y[2]
        /\ \A x, y \in Passages[e] : x.doc = y.doc /\ x.ordinal = y.ordinal => x = y
        /\ \A x \in Passages[e] : \E t \in Titles[e] : t[1] = x.doc
        /\ \A x \in Titles[e] : \E t \in Titles[e] : t[1] = Own

VARIABLES
    staging,        \* the local build: what it has of each file
    embedder,       \* the model that embeds
    records,        \* per build and file, the records written: for which builds
    generations,    \* the base builds whose generation of links has its records
    manualLinks,    \* the records of manual links
    catalog,        \* the source-state document
    publishing,     \* where the publication is
    snapshots,      \* what was staged when each build was published
    edits, pinned   \* counted for the bounds; the links added and not removed

linkVars == <<generations, manualLinks>>
recordVars == <<staging, embedder, records, linkVars, catalog, publishing, snapshots, edits, pinned>>

-----------------------------------------------------------------------------
(* The rows of a staged build s.                                            *)

Unstaged == [edition |-> NoEdition, stat |-> 0, status |-> "indexed",
             entities |-> NoEmbedder, chunks |-> NoEmbedder]

HeldFiles(s) == {f \in Volumes : s[f].edition # NoEdition}

FileRowOf(f, row) == [id |-> f, stat |-> row.stat, status |-> row.status]

EntityRowsOf ==
    [f \in Volumes |-> [e \in Editions |->
        {[id |-> <<f, x[2]>>, file |-> f, name |-> x[1], qualified |-> x[2]] : x \in Declares[e]}]]

DocumentRowsOf ==
    [f \in Volumes |-> [e \in Editions |->
        {[id |-> <<f, x[1]>>, file |-> f, index |-> x[1], title |-> x[2],
          parent |-> IF x[1] = Own THEN Nowhere ELSE <<f, Own>>] : x \in Titles[e]}]]

ChunkRowsOf ==
    [f \in Volumes |-> [e \in Editions |->
        {[id |-> <<f, x.doc, x.ordinal>>, document |-> <<f, x.doc>>, file |-> f,
          ordinal |-> x.ordinal, under |-> x.under, kind |-> x.kind, text |-> x.text] :
            x \in Passages[e]}]]

AllFiles(s) == {FileRowOf(f, s[f]) : f \in HeldFiles(s)}
AllEntities(s) == UNION {EntityRowsOf[f][s[f].edition] : f \in HeldFiles(s)}
AllDocuments(s) == UNION {DocumentRowsOf[f][s[f].edition] : f \in HeldFiles(s)}
AllChunks(s) == UNION {ChunkRowsOf[f][s[f].edition] : f \in HeldFiles(s)}

\* embedding_fingerprint: of the models vectors were made with, the last.
Fingerprint(s) ==
    Max({NoEmbedder} \cup UNION {{s[f].entities, s[f].chunks} : f \in HeldFiles(s)})

HasVector(made, fp) == made = fp /\ fp # NoEmbedder

\* Rows, each with whether there is a vector of it.
Marked(rows, made, fp) == {<<x, HasVector(made, fp)>> : x \in rows}

\* Without the file's row: a touched file looks the same.
DigestOfContent(f, row, fp) ==
    [entities |-> Marked(EntityRowsOf[f][row.edition], row.entities, fp),
     documents |-> DocumentRowsOf[f][row.edition],
     chunks |-> Marked(ChunkRowsOf[f][row.edition], row.chunks, fp),
     fingerprint |-> fp]

\* A file's digest tells any two of the things fed to it apart.
KnowledgeDigest(f, row, fp) ==
    [row |-> FileRowOf(f, row),
     entities |-> Marked(EntityRowsOf[f][row.edition], row.entities, fp),
     documents |-> DocumentRowsOf[f][row.edition],
     chunks |-> Marked(ChunkRowsOf[f][row.edition], row.chunks, fp),
     fingerprint |-> fp]

ContentDigest(s) == {KnowledgeDigest(f, s[f], Fingerprint(s)) : f \in HeldFiles(s)}

\* What the linker finds in the chunks of a build.
LinksIn(s) ==
    {[id |-> <<x[1].id, x[2].id, {}>>, entity |-> x[1].id, document |-> x[2].document,
      chunk |-> x[2].id] :
        x \in {y \in AllEntities(s) \X AllChunks(s) : <<y[2].text, y[1].qualified>> \in Names}}

-----------------------------------------------------------------------------
(* The records written for a file, which have their builds in common: all   *)
(* that a record holds comes from the file's own rows.                      *)

VectorField(made, fp) == IF HasVector(made, fp) THEN fp ELSE NoEmbedder

DocumentNamed(f, row, id) == CHOOSE d \in DocumentRowsOf[f][row.edition] : d.id = id

ParentTitle(f, row, d) ==
    IF d.parent = Nowhere THEN Nowhere ELSE <<DocumentNamed(f, row, d.parent).title>>

FileDoc(f, row, fp) ==
    [file |-> f, stat |-> row.stat, status |-> row.status, digest |-> KnowledgeDigest(f, row, fp)]

EntityDocs(f, row, fp) ==
    {[entity |-> e.id, file |-> e.file, name |-> e.name, qualified |-> e.qualified,
      stat |-> row.stat, embedding |-> VectorField(row.entities, fp)] :
        e \in EntityRowsOf[f][row.edition]}

DocumentDocs(f, row) ==
    {[document |-> d.id, file |-> d.file, index |-> d.index, title |-> d.title,
      parent |-> d.parent, parentTitle |-> ParentTitle(f, row, d), stat |-> row.stat] :
        d \in DocumentRowsOf[f][row.edition]}

ChunkDoc(f, row, fp, c, d) ==
    [chunk |-> c.id, document |-> c.document, file |-> c.file, ordinal |-> c.ordinal,
     under |-> c.under, kind |-> c.kind, text |-> c.text, title |-> d.title,
     parent |-> d.parent, parentTitle |-> ParentTitle(f, row, d), index |-> d.index,
     stat |-> row.stat, embedding |-> VectorField(row.chunks, fp)]

ChunkDocs(f, row, fp) ==
    {ChunkDoc(f, row, fp, c, DocumentNamed(f, row, c.document)) : c \in ChunkRowsOf[f][row.edition]}

Unwritten == [builds |-> {}, row |-> Unstaged, fp |-> NoEmbedder]

\* A record's id names the build it was written for.
WrittenFor(b, s, F, fp) ==
    [f \in Volumes |-> IF f \in F THEN [builds |-> {b}, row |-> s[f], fp |-> fp] ELSE Unwritten]

\* Every record with its new builds: what belongs to none is deleted.
WithBuilds(builds) ==
    [w \in Versions |-> [f \in Volumes |->
        IF builds[w][f] = {} THEN Unwritten ELSE [records[w][f] EXCEPT !.builds = builds[w][f]]]]

\* DETACH_SCRIPT
Detached(b) == WithBuilds([w \in Versions |-> [f \in Volumes |-> records[w][f].builds \ {b}]])

\* gc_source: what belongs to none of the kept builds.
Surviving(keep) ==
    WithBuilds([w \in Versions |-> [f \in Volumes |->
        IF records[w][f].builds \cap keep = {} THEN {} ELSE records[w][f].builds]])

\* ATTACH_SCRIPT, on the records of files F in build b.
Attached(from, b, F, keep) ==
    WithBuilds([w \in Versions |-> [f \in Volumes |->
        IF from \in records[w][f].builds /\ f \in F
        THEN (records[w][f].builds \cap keep) \cup {b} ELSE records[w][f].builds]])

-----------------------------------------------------------------------------
(* Reads of build b on the server.                                          *)

WrittenIn(b) ==
    {[file |-> x[2], row |-> records[x[1]][x[2]].row, fp |-> records[x[1]][x[2]].fp] :
        x \in {y \in Versions \X Volumes : b \in records[y[1]][y[2]].builds}}

FilesIn(b) == {FileDoc(w.file, w.row, w.fp) : w \in WrittenIn(b)}
EntitiesAt(b) == UNION {EntityDocs(w.file, w.row, w.fp) : w \in WrittenIn(b)}
DocumentsAt(b) == UNION {DocumentDocs(w.file, w.row) : w \in WrittenIn(b)}
ChunksAt(b) == UNION {ChunkDocs(w.file, w.row, w.fp) : w \in WrittenIn(b)}

\* Paths are the files' names here; file_mtimes, entity_search_rows and the
\* other hits have the path and time that were copied into the record.
ServerFileRows(b) == {[id |-> d.file, stat |-> d.stat, status |-> d.status] : d \in FilesIn(b)}

EntityOfDoc(d) == [id |-> d.entity, file |-> d.file, name |-> d.name, qualified |-> d.qualified]

ServerEntities(b) == {EntityOfDoc(d) : d \in EntitiesAt(b)}

ServerEntity(b, id) == {e \in ServerEntities(b) : e.id = id}

\* By its id, or all that have the name.
EntityNamed(b, ref) ==
    IF ServerEntity(b, ref) # {} THEN ServerEntity(b, ref)
    ELSE {e \in ServerEntities(b) : ref = <<e.name>>}

ServerSymbol(b, q) == {e \in ServerEntities(b) : q \in {e.name, e.qualified}}

ServerEntityHits(b) == {<<d.entity, d.file, d.stat>> : d \in EntitiesAt(b)}

ServerDocumentRows(b) ==
    {[id |-> d.document, file |-> d.file, index |-> d.index, title |-> d.title,
      parent |-> d.parent] : d \in DocumentsAt(b)}

ServerTitleHits(b, title) ==
    {<<d.document, d.file, d.stat, d.parent, d.parentTitle>> :
        d \in {x \in DocumentsAt(b) : x.title = title}}

ServerAttachment(b, id) ==
    {<<d.index, d.parent, d.parentTitle>> :
        d \in {x \in DocumentsAt(b) : x.document = id /\ x.parent # Nowhere}}

ChunkOfDoc(d) ==
    [id |-> d.chunk, document |-> d.document, file |-> d.file, ordinal |-> d.ordinal,
     under |-> d.under, kind |-> d.kind, text |-> d.text]

ServerChunks(b) == {ChunkOfDoc(d) : d \in ChunksAt(b)}

ServerChunk(b, id) == {c \in ServerChunks(b) : c.id = id}

ServerChunkAt(b, document, n) ==
    {c \in ServerChunks(b) : c.document = document /\ c.ordinal = n}

\* Before and after it, under the same heading of the same document.
ServerSiblings(b, c) ==
    LET near == {x \in ServerChunks(b) : x.document = c.document /\ x.under = c.under}
    IN <<{x \in near : x.ordinal < c.ordinal}, {x \in near : x.ordinal > c.ordinal}>>

\* A chunk hit carries its document's title and attachment.
ServerChunkHits(b) ==
    {<<d.chunk, d.title, d.file, d.stat, d.parent, d.parentTitle>> : d \in ChunksAt(b)}

ServerKindCounts(b) ==
    {<<x[1], x[2], Cardinality({c \in ServerChunks(b) : c.document = x[1] /\ c.kind = x[2]})>> :
        x \in {<<c.document, c.kind>> : c \in ServerChunks(b)}}

\* The subjects a vector search with fp can find.
ServerVectors(b, fp) ==
    {<<"entity", d.entity>> : d \in {x \in EntitiesAt(b) : x.embedding = fp}} \cup
    {<<"chunk", d.chunk>> : d \in {x \in ChunksAt(b) : x.embedding = fp}}

\* A document by its id, else the one file a path or name stands for.
ServerResolves(b, ref) ==
    LET byId == {d \in ServerDocumentRows(b) : d.id = ref}
        matches == {d \in ServerDocumentRows(b) :
                      /\ d.parent = Nowhere
                      /\ \E name \in DOMAIN Suffixed : ref = <<name>> /\ d.file \in Suffixed[name]}
    IN IF byId # {} THEN byId ELSE IF Cardinality(matches) = 1 THEN matches ELSE {}

\* Of the generation of base build g, the records there are.
GenerationLinks(g) == IF g \in generations THEN LinksIn(snapshots[g]) ELSE {}

\* The automatic links of a generation and the source's manual ones, of
\* documents of the build, with the place of the chunk they name.
ServerEntityLinks(b, g, entity) ==
    {<<l.id, l.document, {c.under : c \in ServerChunk(b, l.chunk)}>> :
        l \in {x \in GenerationLinks(g) \cup manualLinks :
                 x.entity = entity /\ \E d \in ServerDocumentRows(b) : d.id = x.document}}

\* The list of links of the entities a reference names, with what each names:
\* the entity's qualified name, the file of the document.
ServerLinkRows(b, g, ref) ==
    {<<l.id, l.entity, {e.qualified : e \in ServerEntity(b, l.entity)}, l.document,
       {d.file : d \in {x \in ServerDocumentRows(b) : x.id = l.document}}, l.chunk>> :
        l \in {x \in GenerationLinks(g) \cup manualLinks :
                 x.entity \in {e.id : e \in EntityNamed(b, ref)}}}

\* KnowledgeRead, of a server: every read of rows and of search hits.
ServerRows(b) ==
    [files |-> ServerFileRows(b), entities |-> ServerEntities(b),
     documents |-> ServerDocumentRows(b), chunks |-> ServerChunks(b),
     found |-> ServerEntityHits(b) \cup ServerChunkHits(b), kinds |-> ServerKindCounts(b)]

-----------------------------------------------------------------------------
(* The same reads of the local store, with its joins.                       *)

StatOf(s, f) == (CHOOSE x \in AllFiles(s) : x.id = f).stat

LocalParentTitle(s, d) ==
    IF d.parent = Nowhere THEN Nowhere
    ELSE <<(CHOOSE p \in AllDocuments(s) : p.id = d.parent).title>>

LocalEntityHits(s) == {<<e.id, e.file, StatOf(s, e.file)>> : e \in AllEntities(s)}

LocalSymbol(s, q) == {e \in AllEntities(s) : e.name = q \/ e.qualified = q}

LocalTitleHits(s, title) ==
    {<<d.id, d.file, StatOf(s, d.file), d.parent, LocalParentTitle(s, d)>> :
        d \in {x \in AllDocuments(s) : x.title = title}}

LocalAttachment(s, id) ==
    {<<d.index, d.parent, LocalParentTitle(s, d)>> :
        d \in {x \in AllDocuments(s) : x.id = id /\ x.parent # Nowhere}}

LocalChunkHits(s) ==
    {<<x[1].id, x[2].title, x[1].file, StatOf(s, x[1].file), x[2].parent, LocalParentTitle(s, x[2])>> :
        x \in {y \in AllChunks(s) \X AllDocuments(s) : y[1].document = y[2].id}}

LocalSiblings(s, c) ==
    LET Near(x) == x.document = c.document /\ x.under = c.under
    IN <<{x \in AllChunks(s) : Near(x) /\ x.ordinal < c.ordinal},
         {x \in AllChunks(s) : Near(x) /\ x.ordinal > c.ordinal}>>

LocalKindCounts(s) ==
    {<<c.document, c.kind,
       Cardinality({x \in AllChunks(s) : x.document = c.document /\ x.kind = c.kind})>> :
        c \in AllChunks(s)}

LocalVectors(s, fp) ==
    {<<"entity", e.id>> : e \in {x \in AllEntities(s) : s[x.file].entities = fp}} \cup
    {<<"chunk", c.id>> : c \in {x \in AllChunks(s) : s[x.file].chunks = fp}}

LocalResolves(s, ref) ==
    LET byId == {d \in AllDocuments(s) : d.id = ref}
        matches == {d \in AllDocuments(s) :
                      /\ d.index = Own
                      /\ \E name \in DOMAIN Suffixed : ref = <<name>> /\ d.file \in Suffixed[name]}
    IN IF byId # {} THEN byId ELSE IF Cardinality(matches) = 1 THEN matches ELSE {}

LocalEntityLinks(s, entity) ==
    {<<l.id, l.document, {c.under : c \in {x \in AllChunks(s) : x.id = l.chunk}}>> :
        l \in {x \in LinksIn(s) : x.entity = entity}}

\* Without a visible graph no automatic link is listed.
LocalLinkRows(s, visible, ref) ==
    LET byId == {e \in AllEntities(s) : e.id = ref}
        named == IF byId # {} THEN byId ELSE {e \in AllEntities(s) : ref = <<e.name>>}
    IN {<<l.id, l.entity, {e.qualified : e \in {x \in AllEntities(s) : x.id = l.entity}}, l.document,
          {d.file : d \in {x \in AllDocuments(s) : x.id = l.document}}, l.chunk>> :
            l \in {x \in LinksIn(s) : visible /\ x.entity \in {e.id : e \in named}}}

LocalRows(s) ==
    [files |-> AllFiles(s), entities |-> AllEntities(s),
     documents |-> AllDocuments(s), chunks |-> AllChunks(s),
     found |-> LocalEntityHits(s) \cup LocalChunkHits(s), kinds |-> LocalKindCounts(s)]

-----------------------------------------------------------------------------
NotPublishing == [at |-> "idle", build |-> NoVersion, full |-> FALSE, copy |-> {}, write |-> {}]

NoCatalog == [active |-> NoVersion, waiting |-> NoVersion, retired |-> {}, graph |-> NoVersion]

\* Before the first publication, or after it.
RecordsInit ==
    /\ staging \in FirstStagings
    /\ \/ catalog = NoCatalog /\ publishing = NotPublishing
       \/ catalog = [NoCatalog EXCEPT !.active = 1] /\ publishing = [NotPublishing EXCEPT !.build = 1]
    /\ records = [w \in Versions |->
            WrittenFor(w, staging, IF w = catalog.active THEN HeldFiles(staging) ELSE {},
                       Fingerprint(staging))]
    /\ generations = {} /\ manualLinks = {}
    /\ embedder = 1
    /\ snapshots = [b \in Versions |-> staging]
    /\ edits = 0 /\ pinned = {}

Readable == ({catalog.active} \ {NoVersion}) \cup catalog.retired

-----------------------------------------------------------------------------
(* The staged build changes between publications.                           *)

Staging(f, row) ==
    /\ publishing.at = "idle" /\ edits < MaxEdits
    /\ staging' = [staging EXCEPT ![f] = row] /\ edits' = edits + 1
    /\ UNCHANGED <<embedder, linkVars, records, catalog, publishing, snapshots, pinned>>

\* A file's rows are replaced, and its vectors go.
EditVolume(f) ==
    \E e \in MayHold[f] \ {staging[f].edition} :
        Staging(f, [Unstaged EXCEPT !.edition = e, !.stat = staging[f].stat])

\* set_file_stat: the content is the same.
TouchVolume(f) ==
    /\ f \in HeldFiles(staging) /\ staging[f].stat = 0
    /\ Staging(f, [staging[f] EXCEPT !.stat = 1])

\* It could not be read: its row says so, and nothing was taken from it.
FailVolume(f) ==
    Staging(f, [Unstaged EXCEPT !.edition = Unread, !.stat = staging[f].stat,
                                !.status = IF staging[f].status = "indexed" THEN "retry"
                                           ELSE "failed"])

RemoveVolume(f) == f \in HeldFiles(staging) /\ Staging(f, Unstaged)

\* The vectors that are not of the present model; a pass may end before the
\* chunks' turn.
EmbedVolume(f) ==
    /\ publishing.at = "idle" /\ f \in HeldFiles(staging) /\ edits < MaxEdits
    /\ edits' = edits + 1
    /\ \/ staging[f].entities # embedder
          /\ staging' = [staging EXCEPT ![f].entities = embedder]
       \/ staging[f].entities = embedder /\ staging[f].chunks # embedder
          /\ staging' = [staging EXCEPT ![f].chunks = embedder]
    /\ UNCHANGED <<embedder, linkVars, records, catalog, publishing, snapshots, pinned>>

\* Another model: the vectors of the staged build are of the old one.
ChangeEmbedder ==
    /\ publishing.at = "idle" /\ embedder < MaxEmbedders
    /\ embedder' = embedder + 1
    /\ UNCHANGED <<staging, linkVars, records, catalog, publishing, snapshots, edits, pinned>>

-----------------------------------------------------------------------------
(* publish_from_store.                                                      *)

\* build_file_digests
ServerDigests == {d.digest : d \in FilesIn(catalog.active)}

\* The overall digest is kept with the active build, of what it was
\* published from.
SameContent ==
    /\ catalog.active # NoVersion
    /\ ContentDigest(snapshots[catalog.active]) = ContentDigest(staging)

\* A build's id is new.
NextVersion == publishing.build + 1

\* Nothing is published when the server has exactly this content; what is
\* left of an abandoned build is deleted before a new one is begun.
BeginPublishing(full) ==
    /\ publishing.at = "idle" /\ NextVersion <= MaxVersions
    /\ full \/ ~SameContent
    /\ LET fp == Fingerprint(staging)
           same == {f \in HeldFiles(staging) :
                      /\ ~full /\ catalog.active # NoVersion
                      /\ KnowledgeDigest(f, staging[f], fp) \in ServerDigests}
       IN /\ publishing' = [at |-> "copy", build |-> NextVersion, full |-> full, copy |-> same,
                            write |-> HeldFiles(staging) \ same]
          /\ records' = IF catalog.waiting = NoVersion THEN records ELSE Detached(catalog.waiting)
          /\ catalog' = [catalog EXCEPT !.waiting = NextVersion]
    /\ UNCHANGED <<staging, embedder, linkVars, snapshots, edits, pinned>>

\* copy_forward: of the build that is active, and only ids still wanted.
CopyRecords ==
    /\ publishing.at = "copy"
    /\ records' = Attached(catalog.active, publishing.build, publishing.copy,
                           {catalog.active, publishing.build} \cup catalog.retired)
    /\ publishing' = [publishing EXCEPT !.at = "write"]
    /\ UNCHANGED <<staging, embedder, linkVars, catalog, snapshots, edits, pinned>>

\* The task that attaches them outlives its budget and is cancelled, with any
\* of them attached.
CopyTimesOut ==
    /\ publishing.at = "copy"
    /\ \E F \in SUBSET publishing.copy :
        records' = Attached(catalog.active, publishing.build, F,
                            {catalog.active, publishing.build} \cup catalog.retired)
    /\ publishing' = [publishing EXCEPT !.at = "failed"]
    /\ UNCHANGED <<staging, embedder, linkVars, catalog, snapshots, edits, pinned>>

WriteRecords(f) ==
    /\ publishing.at = "write" /\ f \in publishing.write
    /\ records' = [records EXCEPT ![publishing.build][f] =
                        [builds |-> {publishing.build}, row |-> staging[f],
                         fp |-> Fingerprint(staging)]]
    /\ publishing' = [publishing EXCEPT !.write = @ \ {f}]
    /\ UNCHANGED <<staging, embedder, linkVars, catalog, snapshots, edits, pinned>>

\* The old build retires; those past their grace period are forgotten.
SwapVersion ==
    /\ publishing.at = "write" /\ publishing.write = {}
    /\ LET retired == catalog.retired \cup ({catalog.active} \ {NoVersion})
       IN /\ \E kept \in SUBSET retired :
                catalog' = [catalog EXCEPT !.active = publishing.build, !.waiting = NoVersion,
                                        !.retired = kept]
          /\ snapshots' = [snapshots EXCEPT ![publishing.build] = staging]
    /\ publishing' = [publishing EXCEPT !.at = "collect"]
    /\ UNCHANGED <<staging, embedder, linkVars, records, edits, pinned>>

\* No generation of links is a base build; a manual link is no build's.
CollectVersions ==
    /\ publishing.at = "collect"
    /\ records' = Surviving({catalog.active} \cup catalog.retired)
    /\ generations' = {}
    /\ publishing' = [NotPublishing EXCEPT !.build = publishing.build]
    /\ UNCHANGED <<staging, embedder, manualLinks, catalog, snapshots, edits, pinned>>

\* A request failed: the build is aborted, unless that fails too.
AbandonPublishing ==
    /\ publishing.at \in {"copy", "failed", "write", "collect"}
    /\ \/ publishing.at # "collect"
          /\ records' = Detached(publishing.build)
          /\ catalog' = [catalog EXCEPT !.waiting = NoVersion]
       \/ UNCHANGED <<records, catalog>>
    /\ publishing' = [NotPublishing EXCEPT !.build = publishing.build]
    /\ UNCHANGED <<staging, embedder, linkVars, snapshots, edits, pinned>>

-----------------------------------------------------------------------------
\* The links of the active build, as a generation of its own.
PublishLinks ==
    /\ publishing.at = "idle" /\ catalog.active # NoVersion
    /\ catalog.graph # catalog.active
    /\ generations' = generations \cup {catalog.active}
    /\ catalog' = [catalog EXCEPT !.graph = catalog.active]
    /\ UNCHANGED <<staging, embedder, records, manualLinks, publishing, snapshots, edits, pinned>>

\* server_link_add, and put_manual_link: a link that is there stays as it is.
PinLink(entityRef, documentRef, section) ==
    LET found == EntityNamed(catalog.active, entityRef)
        into == ServerResolves(catalog.active, documentRef)
        chunk == {c \in ServerChunk(catalog.active, section) : \E d \in into : c.document = d.id}
    IN /\ catalog.active # NoVersion /\ Cardinality(pinned) < MaxPinned
       /\ Cardinality(found) = 1 /\ Cardinality(into) = 1
       /\ section = Nowhere \/ chunk # {}
       /\ \E e \in found, d \in into :
            LET id == <<<<e.qualified>>, <<d.file>>, {c.ordinal : c \in chunk}>>
            IN /\ \A l \in manualLinks : l.id # id
               /\ manualLinks' = manualLinks \cup
                    {[id |-> id, entity |-> e.id, document |-> d.id, chunk |-> section]}
               /\ pinned' = pinned \cup {id}
       /\ UNCHANGED <<staging, embedder, records, generations, catalog, publishing, snapshots, edits>>

\* remove_manual_link
UnpinLink(id) ==
    /\ \E l \in manualLinks : l.id = id
    /\ manualLinks' = {l \in manualLinks : l.id # id}
    /\ pinned' = pinned \ {id}
    /\ UNCHANGED <<staging, embedder, records, generations, catalog, publishing, snapshots, edits>>

EntityRefs == {e.id : e \in ServerEntities(catalog.active)} \cup
              {<<e.name>> : e \in ServerEntities(catalog.active)}
DocumentRefs == {d.id : d \in ServerDocumentRows(catalog.active)} \cup
                {<<name>> : name \in DOMAIN Suffixed}
Sections == {Nowhere} \cup {c.id : c \in ServerChunks(catalog.active)}

RecordsNext ==
    \/ \E f \in Volumes : \/ EditVolume(f) \/ TouchVolume(f) \/ FailVolume(f)
                          \/ RemoveVolume(f) \/ EmbedVolume(f) \/ WriteRecords(f)
    \/ ChangeEmbedder
    \/ \E full \in BOOLEAN : BeginPublishing(full)
    \/ CopyRecords \/ CopyTimesOut \/ SwapVersion \/ CollectVersions \/ AbandonPublishing
    \/ PublishLinks
    \/ \E e \in EntityRefs, d \in DocumentRefs, c \in Sections : PinLink(e, d, c)
    \/ \E id \in pinned : UnpinLink(id)

RecordsSpec == RecordsInit /\ [][RecordsNext]_recordVars

-----------------------------------------------------------------------------
\* Every read of one thing: a symbol, a title, a document, a chunk.
SameLookups(b, s) ==
    /\ \A e \in AllEntities(s) : /\ ServerSymbol(b, e.name) = LocalSymbol(s, e.name)
                                 /\ ServerSymbol(b, e.qualified) = LocalSymbol(s, e.qualified)
                                 /\ ServerEntity(b, e.id) = {e}
    /\ \A d \in AllDocuments(s) : /\ ServerTitleHits(b, d.title) = LocalTitleHits(s, d.title)
                                  /\ ServerAttachment(b, d.id) = LocalAttachment(s, d.id)
                                  /\ ServerResolves(b, d.id) = LocalResolves(s, d.id)
    /\ \A name \in DOMAIN Suffixed : ServerResolves(b, <<name>>) = LocalResolves(s, <<name>>)
    /\ \A c \in AllChunks(s) : /\ ServerChunk(b, c.id) = {c}
                               /\ ServerChunkAt(b, c.document, c.ordinal) = {c}
                               /\ ServerSiblings(b, c) = LocalSiblings(s, c)

\* A search by vector finds what has a vector of the build's model, and
\* nothing by another model.
SameVectors(b, s) ==
    \A fp \in Embedders :
        ServerVectors(b, fp) = IF fp = Fingerprint(s) THEN LocalVectors(s, fp) ELSE {}

\* While the graph is of this build: its links, and the manual ones that
\* name a document of it.
SameLinks(b, s) ==
    \A e \in AllEntities(s) :
        LET answered == ServerEntityLinks(b, b, e.id)
            manual == {l \in manualLinks : l.entity = e.id}
        IN /\ LocalEntityLinks(s, e.id) \subseteq answered
           /\ {l[1] : l \in answered} = {l[1] : l \in LocalEntityLinks(s, e.id)} \cup
                {l.id : l \in {x \in manual : \E d \in AllDocuments(s) : d.id = x.document}}

\* The list of links tells apart which are there: the graph's of this build,
\* if it has one, and the manual ones of the entities that are named.
SameListing(b, s, visible) ==
    \A ref \in {e.id : e \in AllEntities(s)} \cup {<<e.name>> : e \in AllEntities(s)} :
        LET listed == ServerLinkRows(b, catalog.graph, ref)
            named == {e.id : e \in EntityNamed(b, ref)}
        IN /\ LocalLinkRows(s, visible, ref) \subseteq listed
           /\ {r[1] : r \in listed} = {r[1] : r \in LocalLinkRows(s, visible, ref)} \cup
                {l.id : l \in {x \in manualLinks : x.entity \in named}}

\* A build that may be read answers on the server what the rows it was
\* published from answer locally, whatever was edited, touched, embedded,
\* copied forward, aborted or collected since; a manual link stays until it
\* is removed.
RecordsRight ==
    /\ \A b \in Readable : /\ ServerRows(b) = LocalRows(snapshots[b])
                           /\ SameLookups(b, snapshots[b])
                           /\ SameVectors(b, snapshots[b])
    /\ catalog.active # NoVersion /\ catalog.graph = catalog.active =>
           SameLinks(catalog.active, snapshots[catalog.active])
    /\ catalog.active # NoVersion /\ catalog.graph \in {NoVersion, catalog.active} =>
           SameListing(catalog.active, snapshots[catalog.active], catalog.graph # NoVersion)
    /\ {l.id : l \in manualLinks} = pinned
=============================================================================
