---------------------------- MODULE ServerReading ----------------------------
(***************************************************************************)
(* A ServerReader: one request's view of one published build in the server *)
(* indexes.  Lexical retrieval sends its searches ahead in one `_msearch`, *)
(* by making its calls once while they are only recorded; the semantic     *)
(* thread of an eager request uses the same reader meanwhile.  Graph reads *)
(* go to the generation that was served when the reader first asked, in    *)
(* one search for many keys while the result window allows, and listings   *)
(* page through a whole index.                                             *)
(*                                                                         *)
(* A record has the index and build it is in, `at` for its place in that   *)
(* index's order, and `terms`, what finds it: <<kind of query, word>>.     *)
(***************************************************************************)
EXTENDS Ordering

CONSTANTS
    Contents,      \* the records of the published builds
    Queries,       \* [word, dotted, exprs, docs, scoped, limit]
    Edges,         \* [id, gen, type, key]: graph records of every generation
    EdgeReads,     \* [keys, types, limit]: batched reads of the graph
    MaxRead,       \* MAX_READ, the largest result window
    PageSize,      \* records per page of a listing
    BaseBuilds,        \* base builds, in the order they are published
    GraphGens    \* graph generations, in the order they are promoted

\* Records of one index and build have an id and a place of their own, and no
\* two subjects of a build are as near and in the same place: what the engines
\* sort by and break ties by.  A search for more than a window is refused.
ASSUME ReadingAssumption ==
    /\ IsFiniteSet(Contents) /\ MaxRead \in Nat /\ PageSize \in Nat \ {0}
    /\ \A r \in Contents :
        /\ r.at \in Nat \ {0} /\ r.near \in Nat
        /\ r.near > 0 => r.index \in {"code", "chunks"}
        /\ r.near > 0 <=> <<"knn", "v">> \in r.terms
    /\ \A r, s \in Contents :
        /\ <<"id", s.id>> \in r.terms <=> s.id = r.id
        /\ r.build = s.build /\ r.index = s.index /\ (r.id = s.id \/ r.at = s.at) => r = s
        /\ r.build = s.build /\ r.near > 0 /\ r.near = s.near /\ r.at = s.at => r = s
    /\ \A q \in Queries : q.limit \in 0..MaxRead
    /\ IsFiniteSet(Edges) /\ \A e \in Edges : e.type \in Int /\ e.id \in Int
    /\ \A d, e \in Edges : d.gen = e.gen /\ d.type = e.type /\ d.id = e.id => d = e
    /\ \A r \in EdgeReads : r.limit \in Nat
    /\ BaseBuilds \subseteq Nat /\ GraphGens \subseteq Nat

VARIABLES
    reader,      \* what the reader is used for: [kind, build, ...]
    recording,   \* [on, bodies]: searches collected instead of sent
    prefetched,  \* answers waiting: a set of [body, hits]
    lexical,     \* the lexical thread: [at, calls, got]
    semantic,    \* the semantic thread: [at, found, known]
    listing,     \* a paged listing: [after, got, done]
    graphDoc,    \* the source's graph state: [state, base, gen]
    gensThere,        \* the generations whose records are still there
    servedGraph, \* what the reader resolved
    graphReads   \* the answers of its graph reads

readingVars == <<reader, recording, prefetched, lexical, semantic, listing,
                 graphDoc, gensThere, servedGraph, graphReads>>

NoReader == [kind |-> "none"]
NotRecording == [on |-> FALSE, bodies |-> {}]
NoLexical == [at |-> "idle", calls |-> <<>>, got |-> <<>>]
NoSemantic == [at |-> "idle", found |-> {}, known |-> {}]
NoListing == [after |-> 0, got |-> <<>>, done |-> FALSE]
Unresolved == [gen |-> -1, stale |-> FALSE]
NoGraph == [gen |-> 0, stale |-> FALSE]

ReadingInit ==
    /\ reader = NoReader /\ recording = NotRecording /\ prefetched = {}
    /\ lexical = NoLexical /\ semantic = NoSemantic /\ listing = NoListing
    /\ graphDoc = [state |-> "pending", base |-> 0, gen |-> 0] /\ gensThere = {}
    /\ servedGraph = Unresolved /\ graphReads = {}

-----------------------------------------------------------------------------
(* Searches.                                                               *)

Body(index, how, want, size) ==
    [index |-> index, how |-> how, want |-> want, docs |-> {}, scoped |-> FALSE,
     size |-> IF size > MaxRead THEN MaxRead ELSE size]

\* Every search is bound to the reader's build.
Holds(r, b) ==
    /\ r.index = b.index /\ r.build = reader.build
    /\ \E w \in b.want : <<b.how, w>> \in r.terms
    /\ b.scoped => r.scope
    /\ b.docs # {} => r.doc \in b.docs

\* What the server answers, best first.
Answer(b) ==
    TopOf(InOrder({r \in Contents : Holds(r, b)},
                  LAMBDA r : <<IF b.how = "knn" THEN -r.near ELSE 0, r.at>>), b.size)

\* The searches of lexical retrieval, in its order; those of entities and
\* paths are not made for a search of given documents.
NameBodies(q) ==
    <<Body("code", "term", {q.word}, MaxRead)>>
    \o (IF q.dotted THEN <<Body("code", "wildcard", {q.word}, MaxRead)>> ELSE <<>>)

TextBodies(q, index) ==
    IF index = "code" /\ q.docs # {} THEN <<>>
    ELSE [i \in DOMAIN q.exprs |->
            [Body(index, "match", q.exprs[i], q.limit) EXCEPT
                !.scoped = q.scoped,
                !.docs = IF index = "chunks" THEN q.docs ELSE {}]]

PathBodies(q) ==
    IF q.docs # {} THEN <<>>
    ELSE [i \in 1..2 |-> [Body("files", IF i = 1 THEN "match" ELSE "wildcard",
                               {q.word}, q.limit) EXCEPT !.scoped = q.scoped]]

LexicalCalls(q) ==
    NameBodies(q) \o TextBodies(q, "code") \o <<Body("documents", "title", {q.word}, q.limit)>>
    \o TextBodies(q, "chunks") \o PathBodies(q)

\* The paths' second search is made when the first found nothing.
Due(b) ==
    b.index = "files" /\ b.how = "wildcard" =>
        \E g \in Range(lexical.got) : g.body = [b EXCEPT !.how = "match"] /\ g.hits = <<>>

\* A plan that has enough rows leaves its other expressions out.
MayLeaveOut(body) == body.how = "match" /\ body.index \in {"code", "chunks"}

BeginRead ==
    /\ reader.kind = "none"
    /\ \E b \in BaseBuilds :
         \/ \E q \in Queries, eager \in BOOLEAN :
              /\ reader' = [kind |-> "search", build |-> b, query |-> q, eager |-> eager]
              /\ lexical' = [NoLexical EXCEPT !.at = "record", !.calls = LexicalCalls(q)]
              /\ semantic' = [NoSemantic EXCEPT !.at = IF eager THEN "chunks" ELSE "late"]
              /\ UNCHANGED graphDoc
         \/ \E index \in {"code", "chunks"} :
              /\ reader' = [kind |-> "list", build |-> b, index |-> index]
              /\ UNCHANGED <<lexical, semantic, graphDoc>>
         \/ \E strict \in BOOLEAN :
              /\ reader' = [kind |-> "graph", build |-> b, strict |-> strict]
              /\ UNCHANGED <<lexical, semantic, graphDoc>>
    /\ UNCHANGED <<recording, prefetched, listing, gensThere, servedGraph, graphReads>>

\* prefetch: recording starts, the calls are made, and what was recorded
\* since is sent.  A search that failed is not kept.
StartRecording ==
    /\ lexical.at = "record" /\ lexical' = [lexical EXCEPT !.at = "recorded"]
    /\ recording' = [on |-> TRUE, bodies |-> {}]
    /\ UNCHANGED <<reader, prefetched, semantic, listing, graphDoc, gensThere, servedGraph, graphReads>>

RecordCalls ==
    /\ lexical.at = "recorded" /\ lexical' = [lexical EXCEPT !.at = "send"]
    /\ recording' = [recording EXCEPT !.bodies = @ \cup Range(lexical.calls)]
    /\ UNCHANGED <<reader, prefetched, semantic, listing, graphDoc, gensThere, servedGraph, graphReads>>

\* BUG: a failed search is kept as one that found nothing.
KeepingFailed(bodies, failed) ==
    {[body |-> b, hits |-> IF b \in failed THEN <<>> ELSE Answer(b)] : b \in bodies}

Answered(bodies, failed) == {[body |-> b, hits |-> Answer(b)] : b \in bodies \ failed}

SendRecorded ==
    /\ lexical.at = "send" /\ recording' = NotRecording
    /\ \E failed \in {f \in SUBSET recording.bodies : Cardinality(f) <= 1} :
         prefetched' = {p \in prefetched : p.body \notin recording.bodies \ failed}
                       \cup Answered(recording.bodies, failed)
    /\ lexical' = [lexical EXCEPT !.at = "call"]
    /\ UNCHANGED <<reader, semantic, listing, graphDoc, gensThere, servedGraph, graphReads>>

\* One search: recorded, served from what was sent ahead (once), or sent.
Hits(b) ==
    IF recording.on THEN <<>>
    ELSE IF \E p \in prefetched : p.body = b THEN (CHOOSE p \in prefetched : p.body = b).hits
    ELSE Answer(b)

NoteSearch(b) ==
    /\ recording' = IF recording.on THEN [recording EXCEPT !.bodies = @ \cup {b}] ELSE recording
    /\ prefetched' = IF recording.on THEN prefetched ELSE {p \in prefetched : p.body # b}

LexicalCall ==
    /\ lexical.at = "call" /\ lexical.calls # <<>>
    /\ LET b == Head(lexical.calls)
       IN \/ /\ Due(b) /\ NoteSearch(b)
             /\ lexical' = [lexical EXCEPT !.calls = Tail(@),
                                          !.got = Append(@, [body |-> b, hits |-> Hits(b)])]
          \/ /\ MayLeaveOut(b) \/ ~Due(b)
             /\ lexical' = [lexical EXCEPT !.calls = Tail(@)]
             /\ UNCHANGED <<recording, prefetched>>
    /\ UNCHANGED <<reader, semantic, listing, graphDoc, gensThere, servedGraph, graphReads>>

\* A search that fails, the lexical thread's or the other's, fails the request.
SearchFails ==
    /\ reader.kind = "search" /\ (lexical.at \in {"send", "call"} \/ semantic.at \in {"chunks", "code"})
    /\ reader' = [kind |-> "failed"] /\ recording' = NotRecording /\ prefetched' = {}
    /\ lexical' = NoLexical /\ semantic' = NoSemantic
    /\ UNCHANGED <<listing, graphDoc, gensThere, servedGraph, graphReads>>

-----------------------------------------------------------------------------
(* The semantic stage: the nearest of each index, then what is told of     *)
(* them; a subject nothing is told of is left out.                         *)

VectorBody(index) == Body(index, "knn", {"v"}, reader.query.limit)
Subjects(index) == {r.id : r \in {r \in semantic.found : r.index = index}}
MetaBody(index) == Body(index, "id", Subjects(index), Cardinality(Subjects(index)))

Nearest(rows, k) == TopOf(InOrder(rows, LAMBDA r : <<-r.near, r.at>>), k)

\* Without lexical confidence to wait for, the stage runs beside the lexical one.
VectorSearch(index, next) ==
    /\ semantic.at = index \/ (semantic.at = "late" /\ index = "chunks"
                               /\ lexical.at = "call" /\ lexical.calls = <<>>)
    /\ LET b == VectorBody(index)
           found == semantic.found \cup Range(Hits(b))
       IN /\ NoteSearch(b)
          /\ semantic' = [semantic EXCEPT !.at = next, !.found =
                             IF next = "meta code" THEN Range(Nearest(found, reader.query.limit))
                             ELSE found]
    /\ UNCHANGED <<reader, lexical, listing, graphDoc, gensThere, servedGraph, graphReads>>

SubjectMeta(index, at, next) ==
    /\ semantic.at = at
    /\ IF Subjects(index) = {} THEN UNCHANGED <<recording, prefetched>>
       ELSE NoteSearch(MetaBody(index))
    /\ semantic' = [semantic EXCEPT !.at = next, !.known =
                       IF Subjects(index) = {} THEN @ ELSE @ \cup Range(Hits(MetaBody(index)))]
    /\ UNCHANGED <<reader, lexical, listing, graphDoc, gensThere, servedGraph, graphReads>>

-----------------------------------------------------------------------------
(* Listings: search_after on the id, until a page is not full.             *)

Whole(index) == {r \in Contents : r.index = index /\ r.build = reader.build}

Page ==
    /\ reader.kind = "list" /\ ~listing.done
    /\ LET rest == {r \in Whole(reader.index) : r.at > listing.after}
           page == TopOf(InOrder(rest, LAMBDA r : <<r.at>>), PageSize)
       IN listing' = [after |-> IF page = <<>> THEN 0 ELSE Last(page).at,
                      got |-> listing.got \o page,
                      done |-> Len(page) < PageSize]
    /\ UNCHANGED <<reader, recording, prefetched, lexical, semantic, graphDoc, gensThere,
                   servedGraph, graphReads>>

-----------------------------------------------------------------------------
(* The graph.                                                              *)

\* The state document changes, before the reader resolves the graph or after:
\* a generation is derived from a base and takes the place of the last, whose
\* records go; a graph is disabled.
GraphPromoted ==
    /\ reader.kind = "graph"
    /\ \E b \in BaseBuilds, g \in GraphGens :
         /\ g > graphDoc.gen /\ \A h \in GraphGens : h > graphDoc.gen => g <= h
         /\ graphDoc' = [state |-> "ready", base |-> b, gen |-> g]
         /\ gensThere' = gensThere \cup {g}
    /\ UNCHANGED <<reader, recording, prefetched, lexical, semantic, listing,
                   servedGraph, graphReads>>

CollectGraphs ==
    /\ gensThere # {graphDoc.gen} /\ gensThere' = gensThere \cap {graphDoc.gen}
    /\ UNCHANGED <<reader, recording, prefetched, lexical, semantic, listing, graphDoc,
                   servedGraph, graphReads>>

DisableGraph ==
    /\ graphDoc.state = "ready" /\ graphDoc' = [graphDoc EXCEPT !.state = "disabled"]
    /\ UNCHANGED <<reader, recording, prefetched, lexical, semantic, listing, gensThere,
                   servedGraph, graphReads>>

\* served_generation: the current one, else the last one, flagged.
ServedNow ==
    IF graphDoc.state = "ready" /\ graphDoc.base = reader.build
    THEN [gen |-> graphDoc.gen, stale |-> FALSE]
    ELSE IF reader.strict \/ graphDoc.state \in {"disabled", "pending"} THEN NoGraph
    ELSE [gen |-> graphDoc.gen, stale |-> TRUE]

\* Resolved once per reader.
Resolve == IF servedGraph = Unresolved THEN ServedNow ELSE servedGraph

EdgesOf(gen, there) == {e \in Edges : e.gen = gen /\ gen \in there}
FirstEdges(edges, n) == Range(TopOf(InOrder(edges, LAMBDA e : <<e.type, e.id>>), n))

\* One key: its first edges, of each type that was asked for.
EdgesOfKey(edges, key, types, limit) ==
    LET of == {e \in edges : e.key = key}
    IN IF types = {} THEN FirstEdges(of, limit)
       ELSE UNION {FirstEdges({e \in of : e.type = t}, limit) : t \in types}

\* Many keys in one window, which must not be full, else key by key.
EdgesMany(edges, keys, types, limit) ==
    LET wanted == {e \in edges : e.key \in keys /\ (types # {} => e.type \in types)}
        window == FirstEdges(wanted, MaxRead)
        bucket(e) == {d \in window : d.key = e.key /\ (types # {} => d.type = e.type)}
    IN IF Cardinality(window) >= MaxRead
       THEN [k \in keys |-> EdgesOfKey(edges, k, types, limit)]
       ELSE [k \in keys |-> {e \in window : e.key = k /\ e \in FirstEdges(bucket(e), limit)}]

ReadEdges ==
    /\ reader.kind = "graph" /\ Cardinality(graphReads) < 2
    /\ servedGraph' = Resolve
    /\ \E r \in EdgeReads :
         graphReads' = graphReads \cup
             {[read |-> r, gen |-> servedGraph'.gen, there |-> gensThere,
               got |-> EdgesMany(EdgesOf(servedGraph'.gen, gensThere), r.keys, r.types, r.limit)]}
    /\ UNCHANGED <<reader, recording, prefetched, lexical, semantic, listing, graphDoc, gensThere>>

GraphFreshness ==
    /\ reader.kind = "graph" /\ servedGraph = Unresolved /\ servedGraph' = Resolve
    /\ UNCHANGED <<reader, recording, prefetched, lexical, semantic, listing, graphDoc,
                   gensThere, graphReads>>

ReadingNext ==
    \/ BeginRead
    \/ StartRecording \/ RecordCalls \/ SendRecorded \/ LexicalCall \/ SearchFails
    \/ VectorSearch("chunks", "code") \/ VectorSearch("code", "meta code")
    \/ SubjectMeta("code", "meta code", "meta chunks") \/ SubjectMeta("chunks", "meta chunks", "done")
    \/ Page
    \/ GraphPromoted \/ CollectGraphs \/ DisableGraph \/ ReadEdges \/ GraphFreshness

ReadingSpec == ReadingInit /\ [][ReadingNext]_readingVars

-----------------------------------------------------------------------------
(* Properties.                                                             *)

\* What was sent ahead is what each search alone would have found, whichever
\* of the searches failed in between ("Results are identical to sending each
\* search alone").
LexicalSame == \A g \in Range(lexical.got) : g.hits = Answer(g.body)

\* The semantic stage finds the nearest subjects of the build, and what is
\* told of them, whatever the lexical thread does meanwhile.
NearestFound ==
    semantic.at = "done" =>
        semantic.known = Range(Nearest({r \in Contents : r.build = reader.build /\ r.near > 0},
                                       reader.query.limit))

\* Pages add up to the whole index of the build, each record once, in order.
ListedWhole ==
    listing.done => listing.got = InOrder(Whole(reader.index), LAMBDA r : <<r.at>>)

\* The graph reads of a request are of one generation, the one its freshness
\* is told of; a batched read gives what one read per key and type would.
GraphReadsRight ==
    \A g \in graphReads :
        /\ g.gen = servedGraph.gen
        /\ \A k \in g.read.keys :
             g.got[k] = EdgesOfKey(EdgesOf(g.gen, g.there), k, g.read.types, g.read.limit)

\* Run after the lexical stages, it does.
LateNearestFound == reader.kind = "search" /\ ~reader.eager => NearestFound

ReadingRight == LexicalSame /\ LateNearestFound /\ ListedWhole /\ GraphReadsRight
=============================================================================
