------------------------------ MODULE Searching ------------------------------
(***************************************************************************)
(* One `search`: a lexical query plan run most precise tier first in every *)
(* source, the merge of what the sources found, the collapse of sibling    *)
(* chunks, the hard filters, the semantic stage behind its confidence gate *)
(* and the fused ranking with its optional neural pass.                    *)
(*                                                                         *)
(* A row stands for one entity, document, chunk or file of a published     *)
(* build; words are opaque.  How well a text matches is not modelled:      *)
(* `bm25` gives the row's place among the rows that an expression of each  *)
(* tier finds, `order` its place under the last tie-breaks (recency,       *)
(* source, path, id), `near` its similarity to the query's vector, 0       *)
(* without one.                                                            *)
(***************************************************************************)
EXTENDS Ordering

CONSTANTS
    Shelves,          \* the published contents considered, sets of rows
    Questions,        \* [words : sequence, dotted : a qualified name]
    Settings,         \* what a request and the configuration fix
    StopWords, LongWords, IdentWords,
    WordStarts,           \* <<longer word, word it starts with>>
    MaxGroups,        \* MAX_MSM_GROUPS
    PerFile,          \* PLAIN_SEARCH_CHUNKS_PER_DOCUMENT
    LexicalBudget, SemanticBudget, FusionBudget

VARIABLES
    ask,       \* the request being answered
    step,      \* how far it is
    hitsOf,    \* source -> the hits of its lexical stages
    near,      \* the semantic stage
    page,      \* the lexical results
    pool,      \* the fused ranking before the neural pass
    ranking    \* the hybrid ranking

searchVars == <<ask, step, hitsOf, near, page, pool, ranking>>

NoAsk == [question |-> "none"]
NoVectors == [state |-> "off", hits |-> <<>>]

SearchInit ==
    /\ ask = NoAsk /\ step = "idle" /\ hitsOf = <<>> /\ near = NoVectors
    /\ page = <<>> /\ pool = <<>> /\ ranking = <<>>

-----------------------------------------------------------------------------
(* Words of a text.                                                        *)

Run(words, text) ==
    \E i \in 0..(Len(text) - Len(words)) : SubSeq(text, i + 1, i + Len(words)) = words

-----------------------------------------------------------------------------
(* The query plan: full-text expressions, most precise first.              *)

Tier == [exact |-> 0, qualified |-> 1, alias |-> 2, title |-> 3,
         path |-> 4, fts |-> 5, fragment |-> 6]

AnyGroup(groups) == [phrase |-> <<>>, groups |-> groups, prefix |-> FALSE]
Singles(words) == {{w} : w \in words}

ContentOf(words) ==
    LET content == SelectSeq(words, LAMBDA w : w \notin StopWords)
    IN IF content = <<>> THEN words ELSE content

\* At least half of the terms: every group of that many, or any of them
\* when the groups would be single terms or too many.
HalfOf(terms) ==
    LET k == (Cardinality(terms) + 1) \div 2
        groups == kSubset(k, terms)
    IN IF k = 1 \/ Cardinality(groups) > MaxGroups THEN Singles(terms) ELSE groups

QueryPlan(words, loose) ==
    LET terms == ToSet(ContentOf(words))
        several == Cardinality(terms) > 1
        variants ==
            <<[tier |-> 0, expr |-> IF Len(words) = 1 THEN AnyGroup({{words[1]}})
                                    ELSE [AnyGroup({}) EXCEPT !.phrase = words]],
              [tier |-> 1, expr |-> AnyGroup({terms})]>>
            \o (IF several /\ terms \cap LongWords # {}
                THEN <<[tier |-> 2, expr |-> [AnyGroup({terms}) EXCEPT !.prefix = TRUE]]>>
                ELSE <<>>)
            \o (IF several /\ loose THEN <<[tier |-> 3, expr |-> AnyGroup(HalfOf(terms))]>> ELSE <<>>)
            \o (IF several /\ loose /\ terms \cap IdentWords # {}
                THEN <<[tier |-> 3, expr |-> AnyGroup(Singles(terms \cap IdentWords))]>>
                ELSE <<>>)
        repeated(i) == \E j \in 1..(i - 1) : variants[j].expr = variants[i].expr
        kept == {i \in DOMAIN variants : ~repeated(i)}
    IN [i \in kept |-> variants[i]]

WordMatches(w, text, prefix) ==
    \E t \in ToSet(text) : t = w \/ (prefix /\ w \in LongWords /\ <<t, w>> \in WordStarts)

Matches(text, expr) ==
    IF expr.phrase # <<>> THEN Run(expr.phrase, text)
    ELSE \E g \in expr.groups : \A w \in g : WordMatches(w, text, expr.prefix)

-----------------------------------------------------------------------------
(* Reads of one build.                                                     *)

KindOf(r) ==
    CASE r.table = "entities" -> "entity"
      [] r.table = "files"    -> "path"
      [] OTHER                -> "document"

\* What the reads themselves are given of the filters: paths, documents.
PushedDown(r, f) ==
    /\ f.paths => r.scope
    /\ f.docs # {} => r.doc \in f.docs

AsHit(r, tier, qtier, rank) == [row |-> r, tier |-> tier, qtier |-> qtier, rank |-> rank]

\* One full-text read: the first `limit` rows in scope that match.
FtsRead(rows, v, limit, f) ==
    LET matching == {r \in rows : Matches(r.text, v.expr) /\ PushedDown(r, f)}
    IN TopOf(InOrder(matching, LAMBDA r : <<r.bm25[v.tier + 1], r.order>>), limit)

\* The plan's reads, until `limit` distinct rows were seen: <<row, tier, rank>>.
RunPlan(rows, words, limit, f) ==
    LET plan == QueryPlan(words, f.loose)
        read == [i \in DOMAIN plan |-> FtsRead(rows, plan[i], limit, f)]
        seen(i) == UNION {ToSet(read[j]) : j \in {j \in DOMAIN plan : j < i}}
        runs == {i \in DOMAIN plan : Cardinality(seen(i)) < limit}
    IN UNION {{<<read[i][n], plan[i].tier, n - 1>> : n \in DOMAIN read[i]} : i \in runs}

Named(r, q) ==
    IF q.dotted THEN q.words = r.text
    ELSE Len(q.words) = 1 /\ q.words[1] = Last(r.text)

SearchEntities(rows, q, limit, f) ==
    LET entities == {r \in rows : r.table = "entities"}
        exact == {r \in entities : Named(r, q) /\ (f.paths => r.scope)}
        alias == {r \in entities : /\ q.dotted /\ Len(q.words) = 2 /\ Len(r.text) > 2
                                   /\ IsSuffix(q.words, r.text)}
        aliases == ToSet(TopOf(InOrder(alias, LAMBDA r : <<r.order>>), limit))
    IN IF f.docs # {} THEN {}
       ELSE {AsHit(r, IF q.dotted /\ Len(r.text) > 1 THEN Tier.qualified ELSE Tier.exact, 0, 0)
                : r \in exact}
            \cup {AsHit(r, Tier.alias, 0, 0)
                    : r \in {r \in aliases \ exact : f.paths => r.scope}}
            \cup {AsHit(h[1], Tier.fts, h[2], h[3]) : h \in RunPlan(entities, q.words, limit, f)}

\* A heading pins its chunk when the words stand in it as one run.
SearchDocuments(rows, q, limit, f) ==
    LET titled == {r \in rows : r.table = "documents" /\ ~q.dotted /\ r.text = q.words}
        titles == ToSet(TopOf(InOrder(titled, LAMBDA r : <<r.order>>), limit))
        chunks == {r \in rows : r.table = "chunks"}
    IN {AsHit(r, Tier.title, 0, 0) : r \in {r \in titles : PushedDown(r, f)}}
       \cup {AsHit(h[1], IF Run(q.words, h[1].head) THEN Tier.title ELSE Tier.fts, h[2], h[3])
               : h \in RunPlan(chunks, q.words, limit, f)}

\* Paths that hold every word, else those that hold the query somewhere.
SearchPaths(rows, q, limit, f) ==
    LET files == {r \in rows : r.table = "files" /\ PushedDown(r, f)}
        whole == {r \in files : Matches(r.text, AnyGroup({ToSet(q.words)}))}
        part == {r \in files : /\ Len(q.words) = 1
                               /\ \E t \in ToSet(r.text) : <<t, q.words[1]>> \in WordStarts}
        chosen == IF whole # {} THEN whole ELSE part
        read == ToSet(TopOf(InOrder(chosen, LAMBDA r : <<r.order>>), limit))
    IN IF f.docs # {} THEN {}
       ELSE {AsHit(r, IF IsSuffix(q.words, r.text) THEN Tier.path ELSE Tier.fragment, 0, 0)
               : r \in read}

Wants(f, kind) == f.kinds = {} \/ kind \in f.kinds

CorpusSearch(rows, q, limit, f) ==
    (IF Wants(f, "entity") THEN SearchEntities(rows, q, limit, f) ELSE {})
    \cup (IF Wants(f, "document") THEN SearchDocuments(rows, q, limit, f) ELSE {})
    \cup (IF Wants(f, "path") THEN SearchPaths(rows, q, limit, f) ELSE {})

-----------------------------------------------------------------------------
(* Ranking.                                                                *)

HitKey(h) == <<h.tier, h.qtier, h.rank, h.row.kindRank, h.row.order>>
SameSubject(a, b) == KindOf(a.row) = KindOf(b.row) /\ a.row.id = b.row.id

\* Each subject's best hit, best first.
MergeHits(hits) ==
    InOrder({h \in hits : ~\E g \in hits : SameSubject(g, h) /\ Less(HitKey(g), HitKey(h))},
            HitKey)

Pinned(h) == h.tier < Tier.fts

\* At most PerFile unpinned chunks of one file, the first ones.
Collapse(seq) ==
    LET sibling(i, j) == /\ KindOf(seq[j].row) = "document" /\ ~Pinned(seq[j])
                         /\ seq[j].row.src = seq[i].row.src /\ seq[j].row.file = seq[i].row.file
        dropped == {i \in DOMAIN seq : /\ KindOf(seq[i].row) = "document" /\ ~Pinned(seq[i])
                                       /\ Cardinality({j \in 1..i : sibling(i, j)}) > PerFile}
        kept == DOMAIN seq \ dropped
    IN [n \in 1..Cardinality(kept) |->
            seq[CHOOSE i \in kept : Cardinality({j \in kept : j < i}) = n - 1]]

Allowed(r, f) ==
    /\ f.sources = {} \/ r.src \in f.sources
    /\ f.paths => r.scope
    /\ Wants(f, KindOf(r))
    /\ f.docs # {} => KindOf(r) = "document" /\ r.doc \in f.docs
    /\ ~(f.noAttachments /\ r.attached)

Unfiltered(f) ==
    f.sources = {} /\ ~f.paths /\ f.kinds = {} /\ f.docs = {} /\ ~f.noAttachments

\* Hits of both kinds of search in one candidate per subject, each input
\* capped; 0 stands for a rank that a signal did not give.
FusionInput(lexical, semantic) ==
    LET lex == TopOf(lexical, LexicalBudget)
        sem == TopOf(semantic, SemanticBudget)
        rankIn(r) == IF r \in ToSet(sem) THEN PlaceOf(sem, r) ELSE 0
        only == {i \in DOMAIN sem : ~\E n \in DOMAIN lex : lex[n].row = sem[i]}
    IN {[row |-> lex[n].row, tier |-> lex[n].tier, qtier |-> lex[n].qtier,
         rank |-> lex[n].rank, lex |-> n, sem |-> rankIn(lex[n].row)] : n \in DOMAIN lex}
       \cup {[row |-> sem[i], tier |-> Tier.fts, qtier |-> 0,
              rank |-> 0, lex |-> 0, sem |-> i] : i \in only}

\* 1/(60 + rank) of both signals, in millionths.
Rrf(c) ==
    (IF c.lex = 0 THEN 0 ELSE 1000000 \div (60 + c.lex))
    + (IF c.sem = 0 THEN 0 ELSE 1000000 \div (60 + c.sem))

TailKey(c) ==
    <<c.qtier, c.rank, IF c.lex = 0 THEN 99 ELSE c.row.kindRank,
      IF c.sem = 0 THEN 1 ELSE -c.row.near, c.row.order>>

\* Exact and structural matches in their order, then the fused tier.
FusedRanking(candidates, limit) ==
    LET pinned == {c \in candidates : Pinned(c)}
        fused == InOrder(candidates \ pinned, LAMBDA c : <<-Rrf(c)>> \o TailKey(c))
    IN TopOf(InOrder(pinned, LAMBDA c : <<c.tier>> \o TailKey(c))
               \o TopOf(fused, FusionBudget), limit)

-----------------------------------------------------------------------------
(* The request, stage by stage.                                            *)

ReadableCorpora == {r.src : r \in {r \in ask.shelf : ask.filter.sources = {} \/ r.src \in ask.filter.sources}}
RowsOf(s) == {r \in ask.shelf : r.src = s}
FetchLimit == ask.limit * (IF Unfiltered(ask.filter) THEN 2 ELSE 4)
RunsEarly == ask.server /\ ask.semantic = "eager"

Ask ==
    /\ step = "idle"
    /\ \E shelf \in Shelves, q \in Questions, s \in Settings :
         ask' = [question |-> q, shelf |-> shelf, limit |-> s.limit, filter |-> s.filter,
                 server |-> s.server, semantic |-> s.semantic, hybrid |-> s.hybrid,
                 window |-> s.window]
    /\ step' = "read" /\ hitsOf' = <<>>
    /\ UNCHANGED <<near, page, pool, ranking>>

\* Server readers are searched side by side, local stores one by one.
ReadCorpus(s) ==
    /\ step = "read" /\ s \in ReadableCorpora \ DOMAIN hitsOf
    /\ ask.server \/ \A t \in ReadableCorpora \ DOMAIN hitsOf : s <= t
    /\ hitsOf' = [t \in DOMAIN hitsOf \cup {s} |->
                   IF t \in DOMAIN hitsOf THEN hitsOf[t]
                   ELSE CorpusSearch(RowsOf(s), ask.question, FetchLimit, ask.filter)]
    /\ UNCHANGED <<ask, step, near, page, pool, ranking>>

\* A read that fails fails the request.
ReadFails ==
    /\ step = "read" /\ step' = "failed"
    /\ ask' = NoAsk /\ hitsOf' = <<>> /\ near' = NoVectors
    /\ UNCHANGED <<page, pool, ranking>>

NearestRows(rows, n) == TopOf(InOrder({r \in rows : r.near > 0}, LAMBDA r : <<-r.near>>), n)

\* The corpora that can answer give their nearest rows, merged by score; the
\* stage is unavailable without the model or when none can answer.
VectorHits(answering) ==
    NearestRows(UNION {ToSet(NearestRows(RowsOf(s), ask.limit)) : s \in answering}, ask.limit)

SemanticStage ==
    \/ near' = [state |-> "unavailable", hits |-> <<>>]
    \/ \E answering \in SUBSET ReadableCorpora :
         /\ answering # {}
         /\ ask.server \/ answering = ReadableCorpora
         /\ near' = [state |-> "ok", hits |-> VectorHits(answering)]

\* Without a confidence gate a server request searches vectors meanwhile.
SearchVectorsEarly ==
    /\ step = "read" /\ RunsEarly /\ near.state = "off"
    /\ SemanticStage
    /\ UNCHANGED <<ask, step, hitsOf, page, pool, ranking>>

\* Merge and first cut, collapse, filters re-checked, the limit.
Select ==
    /\ step = "read" /\ DOMAIN hitsOf = ReadableCorpora
    /\ RunsEarly => near.state # "off"
    /\ LET merged == TopOf(MergeHits(UNION {hitsOf[s] : s \in DOMAIN hitsOf}), FetchLimit)
           scoped == SelectSeq(Collapse(merged), LAMBDA h : Allowed(h.row, ask.filter))
       IN page' = TopOf(scoped, ask.limit)
    /\ step' = "selected" /\ hitsOf' = <<>>
    /\ UNCHANGED <<ask, near, pool, ranking>>

Confident == \E i \in DOMAIN page : Pinned(page[i])
RunsSemantic == ask.semantic # "off" /\ ~(ask.semantic = "lazy" /\ Confident)

\* What the filters leave of the semantic stage, run now unless it has been.
SearchVectors ==
    /\ step = "selected" /\ RunsSemantic /\ near.state = "off"
    /\ SemanticStage
    /\ UNCHANGED <<ask, step, hitsOf, page, pool, ranking>>

KeepNear ==
    /\ step = "selected"
    /\ RunsSemantic => near.state # "off"
    /\ near' = [near EXCEPT !.hits = SelectSeq(@, LAMBDA r : Allowed(r, ask.filter))]
    /\ step' = IF ask.hybrid THEN "fuse" ELSE "answered"
    /\ UNCHANGED <<ask, hitsOf, page, pool, ranking>>

PoolSize == (IF ask.window > ask.limit THEN ask.window ELSE ask.limit) * 2

Fuse ==
    /\ step = "fuse"
    /\ pool' = Collapse(FusedRanking(FusionInput(page, near.hits), PoolSize))
    /\ step' = "pooled"
    /\ UNCHANGED <<ask, hitsOf, near, page, ranking>>

\* The model orders the first `window` of n hits as it likes.
Scored(n, window) ==
    {p \in Permutations(1 .. n) : \A i \in 1 .. n : i > window => p[i] = i}

\* BUG: the exact matches are in the window.
RescoredWithPins(seq, window) == Scored(Len(seq), window)

\* The pinned hits are not scored, and keep their places before the others.
Rescored(seq, window) ==
    LET pins == Cardinality({i \in DOMAIN seq : Pinned(seq[i])})
        Place(p, i) == IF i <= pins THEN i ELSE pins + p[i - pins]
    IN {[i \in DOMAIN seq |-> Place(p, i)] : p \in Scored(Len(seq) - pins, window)}

\* Without an encoder, or when it fails, the order stays.
Rerank ==
    /\ step = "pooled"
    /\ \/ ranking' = TopOf(pool, ask.limit)
       \/ /\ ask.window > 0
          /\ \E p \in Rescored(pool, ask.window) :
               ranking' = TopOf([i \in DOMAIN pool |-> pool[p[i]]], ask.limit)
    /\ step' = "answered" /\ pool' = <<>>
    /\ UNCHANGED <<ask, hitsOf, near, page>>

SearchNext ==
    \/ Ask \/ ReadFails \/ SearchVectorsEarly \/ Select
    \/ SearchVectors \/ KeepNear \/ Fuse \/ Rerank
    \/ \E s \in {1, 2} : ReadCorpus(s)

SearchSpec == SearchInit /\ [][SearchNext]_searchVars

-----------------------------------------------------------------------------
(* Properties.                                                             *)

Shown == {page, ranking}
Answering == step \notin {"idle", "read", "failed"}

\* Every entity and chunk in scope that some tier of the plan describes.
Matching(q, f) ==
    {r \in ask.shelf : /\ r.table \in {"entities", "chunks"} /\ Wants(f, KindOf(r))
                       /\ r.src \in ReadableCorpora /\ PushedDown(r, f)
                       /\ f.docs # {} => r.table = "chunks"
                       /\ \E v \in Range(QueryPlan(q.words, f.loose)) : Matches(r.text, v.expr)}

\* The filters are an authorization boundary: nothing outside them is shown,
\* by whichever stage it was found.
InScope ==
    Answering => /\ \A seq \in Shown : \A i \in DOMAIN seq : Allowed(seq[i].row, ask.filter)
                 /\ step # "selected" => \A i \in DOMAIN near.hits : Allowed(near.hits[i], ask.filter)

\* A subject is shown once in each list.
OnceEach ==
    \A seq \in Shown : \A i, j \in DOMAIN seq : SameSubject(seq[i], seq[j]) => i = j

\* Exact and structural matches head both lists, also after the neural pass.
PinnedFirst ==
    \A seq \in Shown : \A i, j \in DOMAIN seq : i < j /\ Pinned(seq[j]) => Pinned(seq[i])

\* A hit of a full-text read carries the most precise tier of the plan that
\* its text matches, however early the plan stopped.
PreciseTier ==
    Answering =>
        \A i \in DOMAIN page :
            page[i].tier = Tier.fts =>
                LET plan == QueryPlan(ask.question.words, ask.filter.loose)
                IN \A n \in DOMAIN plan :
                     Matches(page[i].row.text, plan[n].expr) => page[i].qtier <= plan[n].tier

\* A page that is not full holds every match in scope, or PerFile siblings
\* of it, unless more rows matched than the stages fetch.  Attachments are
\* not filtered by the reads and are left out here.
ShortPageComplete ==
    LET f == ask.filter
        unscoped == [f EXCEPT !.paths = FALSE, !.docs = {}, !.kinds = {}]
        siblings(r) == {i \in DOMAIN page : KindOf(page[i].row) = "document"
                                            /\ page[i].row.src = r.src /\ page[i].row.file = r.file}
    IN step = "selected" /\ Len(page) < ask.limit /\ ~f.noAttachments
       /\ Cardinality(Matching(ask.question, unscoped)) <= FetchLimit - 4 =>
          \A r \in Matching(ask.question, f) :
              \/ \E i \in DOMAIN page : KindOf(page[i].row) = KindOf(r) /\ page[i].row.id = r.id
              \/ r.table = "chunks" /\ Cardinality(siblings(r)) >= PerFile

SearchRight == InScope /\ OnceEach /\ PinnedFirst /\ PreciseTier /\ ShortPageComplete
=============================================================================
