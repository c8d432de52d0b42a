----------------------------- MODULE Traversing -----------------------------
(***************************************************************************)
(* The questions asked of the relationship graph: callers, callees,        *)
(* references, impact and explore.  A question finds the entities of a     *)
(* name in every source, walks from each of them level by level (one       *)
(* batched read per source and level), adds the edges that are recorded    *)
(* under a name only, resolves the other ends and composes the answer.     *)
(*                                                                         *)
(* Every read is a statement of its own: between two of them a local graph *)
(* build may replace the edges in place, or a publication may collect the  *)
(* build that the question reads.                                          *)
(*                                                                         *)
(* `impact` and `explore` tell what of the walks they have room for: the   *)
(* documents linked to the matches, and the context that a budget of       *)
(* files, characters and graph nodes leaves.  An item of evidence is       *)
(* [path, line, page, section, entity, conf, size]; `conf` is its place on *)
(* the confidence ladder, `size` its characters.                           *)
(*                                                                         *)
(* Names, paths, types and symbols are numbers in the order of the strings *)
(* they stand for; 0 is none.                                              *)
(***************************************************************************)
EXTENDS Ordering

CONSTANTS
    Entities,       \* [id, corpus, name, qual, path, line, test, size]
    EntityLinks,    \* [id, corpus, entity, doc, chunk, conf, path, page, section, size]
    Graphs,         \* sets of [id, corpus, type, from, to, symbol, conf]
    Asks,           \* what is asked: [kind, name, dir, types, depth, limit, ...]
    TextHits,       \* what lexical search may return, sequences of evidence items
    VectorItems,    \* what semantic search may return, likewise
    CallTypes, ReferenceTypes,
    DefaultDepth, DefaultLimit,   \* of explore's walks
    LowMax, MediumMax             \* bounds of the blast radius

VARIABLES
    question,   \* what is asked, with the texts explore is given
    at,         \* "idle", "match", "walk", "names", "resolve", "links", ..., "told"
    edgesNow,   \* the visible edges
    collected,  \* the build's rows are gone
    disturbed,  \* whether either changed since the question was asked
    legs,       \* the walks still to make; the first is under way
    matches,    \* the entities of the name, in order
    walks,      \* of the leg under way, one per match
    level,
    results,    \* finished legs: [leg, edges per match, known ends]
    docLinks,   \* evidence of linked documents
    reply

graphVars == <<question, at, edgesNow, collected, disturbed, legs, matches, walks, level,
               results, docLinks, reply>>

Absent == 0
NoQuestion == [kind |-> "none"]
NoReply == [kind |-> "none"]

GraphQueryInit ==
    /\ question = NoQuestion /\ at = "idle" /\ edgesNow = {} /\ collected = FALSE
    /\ disturbed = FALSE /\ legs = <<>> /\ matches = <<>> /\ walks = <<>> /\ level = 0
    /\ results = <<>> /\ docLinks = <<>> /\ reply = NoReply

-----------------------------------------------------------------------------
(* Reads.                                                                  *)

EdgeTarget(e) == IF e.to # Absent THEN e.to ELSE e.symbol
EdgeKey(e) == <<e.type, EdgeTarget(e), e.id>>

\* The first rows of one key: of each type asked for, or of all types.
LimitedRows(of, types, n) ==
    IF types = {} THEN ToSet(TopOf(InOrder(of, LAMBDA e : <<e.type, e.id>>), n))
    ELSE UNION {ToSet(TopOf(InOrder({e \in of : e.type = t}, LAMBDA e : <<e.id>>), n)) : t \in types}

NearEnd(e, dir) == IF dir = "in" THEN e.to ELSE e.from
FarEnd(e, dir) == IF dir = "in" THEN e.from ELSE e.to

EntityEdges(c, id, dir, types, n) ==
    LimitedRows({e \in edgesNow : e.corpus = c /\ NearEnd(e, dir) = id}, types, n)

SymbolEdges(c, symbol, types, n) ==
    LimitedRows({e \in edgesNow : e.corpus = c /\ e.to = Absent /\ e.symbol = symbol}, types, n)

EntitiesNow == IF collected THEN {} ELSE Entities

SortedEdges(S) == InOrder(S, LAMBDA e : EdgeKey(e))

-----------------------------------------------------------------------------
(* What is asked, and the walks it takes.                                  *)

Leg(dir, types, named) == [dir |-> dir, types |-> types, named |-> named]
CallersLeg == Leg("in", CallTypes, TRUE)
CalleesLeg == Leg("out", CallTypes, FALSE)
TestsLeg == Leg("in", ReferenceTypes, TRUE)

\* plan: the first rule that the query's text satisfies.
Intent(shape) ==
    LET rules == <<"impact", "callers", "callees", "document", "identifier">>
        fits == {i \in DOMAIN rules : rules[i] \in shape}
    IN IF fits = {} THEN "general" ELSE rules[Min(fits)]

Strategies(intent, semantic) ==
    (CASE intent = "impact" -> {"identifier", "callers", "callees", "tests", "documents"}
       [] intent = "callers" -> {"identifier", "callers"}
       [] intent = "callees" -> {"identifier", "callees"}
       [] intent = "document" -> {"fts", "documents"}
       [] intent = "identifier" -> {"identifier", "fts"}
       [] OTHER -> {"identifier", "fts", "references"})
    \cup (IF semantic /\ intent \in {"document", "general"} THEN {"semantic"} ELSE {})

Uses(strategy) == strategy \in Strategies(Intent(question.shape), question.semantic)

LegsOf(q, found) ==
    LET of(strategy, leg) == IF Uses(strategy) THEN <<leg>> ELSE <<>>
    IN CASE q.kind = "calls" -> <<Leg(q.dir, q.types, q.dir = "in")>>
         [] q.kind = "references" -> <<Leg("in", ReferenceTypes, TRUE), Leg("out", ReferenceTypes, FALSE)>>
         [] q.kind = "impact" -> <<CallersLeg, CalleesLeg, TestsLeg>>
         [] OTHER -> IF ~found THEN <<>>
                     ELSE of("callers", CallersLeg) \o of("callees", CalleesLeg) \o of("tests", TestsLeg)

MaxDepth == IF question.kind = "explore" THEN DefaultDepth ELSE question.depth
Limit == IF question.kind = "explore" THEN DefaultLimit ELSE question.limit

AskGraph ==
    /\ at = "idle"
    /\ \E q \in Asks, g \in Graphs :
         /\ edgesNow' = g
         /\ \/ q.kind # "explore" /\ question' = q
            \/ /\ q.kind = "explore"
               /\ \E t \in TextHits, v \in VectorItems :
                    question' = q @@ [texts |-> t, vectors |-> v]
    /\ at' = "match"
    /\ UNCHANGED <<collected, disturbed, legs, matches, walks, level, results, docLinks, reply>>

-----------------------------------------------------------------------------
(* What happens between the reads of a question.                           *)

Asking == at \notin {"idle", "told"} /\ ~disturbed

\* A graph build commits: the rows are replaced in place.
GraphReplaced ==
    /\ Asking /\ at # "match"
    /\ \E g \in Graphs : edgesNow' = g /\ g # edgesNow
    /\ disturbed' = TRUE
    /\ UNCHANGED <<question, at, collected, legs, matches, walks, level, results, docLinks, reply>>

\* A publication collects the build the question reads.
BuildCollected ==
    /\ Asking /\ collected' = TRUE /\ edgesNow' = {} /\ disturbed' = TRUE
    /\ UNCHANGED <<question, at, legs, matches, walks, level, results, docLinks, reply>>

-----------------------------------------------------------------------------
(* Matches and walks.                                                      *)

NewWalk(m) == [corpus |-> m.corpus, visited |-> {m.id}, frontier |-> <<m.id>>, out |-> <<>>]

StartLeg(todo, found) ==
    /\ legs' = todo
    /\ walks' = IF todo = <<>> THEN <<>> ELSE [i \in DOMAIN found |-> NewWalk(found[i])]
    /\ level' = IF todo = <<>> THEN 0 ELSE 1

FindSymbolMatches ==
    /\ at = "match"
    /\ LET named == {m \in EntitiesNow : m.name = question.name \/ m.qual = question.name}
           found == InOrder(named, LAMBDA m : <<m.qual, m.corpus, m.path, m.line, m.id>>)
           search == question.kind # "explore" \/ Uses("identifier")
       IN /\ matches' = IF search THEN found ELSE <<>>
          /\ StartLeg(LegsOf(question, matches' # <<>>), matches')
          /\ at' = CASE question.kind = "calls" /\ matches' = <<>> ->
                            (IF question.dir = "in" THEN "names" ELSE "told")
                     [] question.kind = "impact" /\ matches' = <<>> -> "told"
                     [] question.kind = "explore" /\ legs' = <<>> -> "links"
                     [] OTHER -> "walk"
          /\ reply' = CASE at' # "told" -> reply
                        [] question.kind = "calls" -> [kind |-> "edges", edges |-> <<>>]
                        [] OTHER -> [kind |-> "not found"]
    /\ UNCHANGED <<question, edgesNow, collected, disturbed, results, docLinks>>

Active(w) == w.frontier # <<>> /\ Len(w.out) < Limit

\* The ends first reached by a sequence of edges, in order.
FirstReached(edges, dir, visited) ==
    LET end(i) == FarEnd(edges[i], dir)
        new == {i \in DOMAIN edges : /\ end(i) \notin visited \cup {Absent}
                                     /\ \A j \in 1..(i - 1) : end(j) # end(i)}
        order == InOrder(new, LAMBDA i : <<i>>)
    IN [k \in DOMAIN order |-> end(order[k])]

\* One level of one walk: the edges of its frontier until the limit.
Advance(w, leg) ==
    LET of(id) == SortedEdges(EntityEdges(w.corpus, id, leg.dir, leg.types, Limit))
        edges == FlattenSeq([i \in DOMAIN w.frontier |-> of(w.frontier[i])])
        taken == TopOf(edges, Limit - Len(w.out))
        next == FirstReached(taken, leg.dir, w.visited)
    IN [w EXCEPT !.visited = @ \cup ToSet(next), !.frontier = next,
                 !.out = @ \o [i \in DOMAIN taken |-> [edge |-> taken[i], depth |-> level]]]

\* BUG: the walks of a leg share what they have visited.
SharedVisits(w, leg) ==
    LET seen == UNION {walks[i].visited : i \in DOMAIN walks}
    IN [Advance(w, leg) EXCEPT !.frontier = SelectSeq(@, LAMBDA n : n \notin seen)]

WalkLevel(w, leg) == IF Active(w) THEN Advance(w, leg) ELSE w

Descend ==
    /\ at = "walk" /\ level <= MaxDepth
    /\ \E i \in DOMAIN walks : Active(walks[i])
    /\ walks' = [i \in DOMAIN walks |-> WalkLevel(walks[i], Head(legs))]
    /\ level' = level + 1
    /\ UNCHANGED <<question, at, edgesNow, collected, disturbed, legs, matches, results, docLinks, reply>>

-----------------------------------------------------------------------------
(* The edges recorded under a name only.                                   *)

\* Each name of a source goes to the first match that has it.
Claims(i) ==
    LET names(k) == {<<matches[k].corpus, s>> : s \in {question.name, matches[k].name}}
    IN names(i) \ UNION {names(k) : k \in 1..(i - 1)}

NamedEdges(claim, types) ==
    LET sorted == TopOf(SortedEdges(SymbolEdges(claim[1], claim[2], types, Limit)), Limit)
    IN [i \in DOMAIN sorted |-> [edge |-> sorted[i], depth |-> 1]]

\* The query's name first, then the match's own.
NamedOf(i, types) ==
    LET order == InOrder(Claims(i), LAMBDA c : <<IF c[2] = question.name THEN 0 ELSE 1>>)
    IN FlattenSeq([k \in DOMAIN order |-> NamedEdges(order[k], types)])

Resolves == question.kind \in {"impact", "explore"}

EndLeg(edges) ==
    /\ results' = Append(results, [leg |-> Head(legs), edges |-> edges, ends |-> {}])
    /\ IF Resolves THEN at' = "resolve" /\ UNCHANGED <<legs, walks, level>>
       ELSE /\ StartLeg(Tail(legs), matches)
            /\ at' = IF Tail(legs) = <<>> THEN "compose" ELSE "walk"

EndWalks ==
    /\ at = "walk"
    /\ level > MaxDepth \/ \A i \in DOMAIN walks : ~Active(walks[i])
    /\ IF Head(legs).named
       THEN at' = "names" /\ UNCHANGED <<legs, walks, level, results>>
       ELSE EndLeg([i \in DOMAIN walks |-> walks[i].out])
    /\ UNCHANGED <<question, edgesNow, collected, disturbed, matches, docLinks, reply>>

AddNamed ==
    /\ at = "names" /\ ~(question.kind = "calls" /\ matches = <<>>)
    /\ EndLeg([i \in DOMAIN walks |-> walks[i].out \o NamedOf(i, Head(legs).types)])
    /\ UNCHANGED <<question, edgesNow, collected, disturbed, matches, docLinks, reply>>

\* Nothing has the name: its edges in every source.
OnlyNamed ==
    /\ at = "names" /\ matches = <<>> /\ question.kind = "calls"
    /\ LET corpora == {m.corpus : m \in Entities}
           order == InOrder(corpora, LAMBDA c : <<c>>)
           all == FlattenSeq([i \in DOMAIN order |->
                                NamedEdges(<<order[i], question.name>>, question.types)])
       IN reply' = [kind |-> "edges", edges |-> TopOf(SortedBy(all, LAMBDA x : EdgeKey(x.edge)), Limit)]
    /\ at' = "told"
    /\ UNCHANGED <<question, edgesNow, collected, disturbed, legs, matches, walks, level, results, docLinks>>

\* resolve_all: one read of the other ends.
ResolveEnds ==
    /\ at = "resolve"
    /\ LET r == Last(results)
           far(i) == {FarEnd(x.edge, r.leg.dir) : x \in ToSet(r.edges[i])}
           ends == UNION {{m \in EntitiesNow : m.corpus = matches[i].corpus /\ m.id \in far(i)}
                            : i \in DOMAIN r.edges}
       IN results' = [results EXCEPT ![Len(results)].ends = ends]
    /\ StartLeg(Tail(legs), matches)
    /\ at' = IF Tail(legs) = <<>> THEN "links" ELSE "walk"
    /\ UNCHANGED <<question, edgesNow, collected, disturbed, matches, docLinks, reply>>
\* callers, callees, references: nearest first, at most the limit.
AnswerEdges ==
    /\ at = "compose"
    /\ LET of(i) == FlattenSeq([k \in DOMAIN results |-> results[k].edges[i]])
           all == FlattenSeq([i \in DOMAIN matches |-> of(i)])
           sorted == SortedBy(all, LAMBDA x : <<x.depth>> \o EdgeKey(x.edge))
       IN reply' = [kind |-> "edges", edges |-> TopOf(sorted, Limit)]
    /\ at' = "told"
    /\ UNCHANGED <<question, edgesNow, collected, disturbed, legs, matches, walks, level, results, docLinks>>

GraphQueryNext ==
    \/ AskGraph \/ GraphReplaced \/ BuildCollected
    \/ FindSymbolMatches \/ Descend \/ EndWalks \/ AddNamed \/ OnlyNamed
    \/ ResolveEnds \/ AnswerEdges

-----------------------------------------------------------------------------
(* Properties.                                                             *)

OfLeg(e, leg) == leg.types = {} \/ e.type \in leg.types

\* The entities within n hops of a match.
Around(m, leg, n) ==
    LET hops[k \in 0..n] ==
            IF k = 0 THEN {m.id}
            ELSE hops[k - 1] \cup
                 ({FarEnd(e, leg.dir) : e \in {e \in edgesNow : /\ e.corpus = m.corpus /\ OfLeg(e, leg)
                                                     /\ NearEnd(e, leg.dir) \in hops[k - 1]}} \ {Absent})
    IN hops[n]

\* The edges at a distance of at most n from a match, and how far they are.
EdgesWithin(m, leg, n) ==
    IF n = 0 THEN {}
    ELSE {e \in edgesNow : /\ e.corpus = m.corpus /\ OfLeg(e, leg)
                           /\ NearEnd(e, leg.dir) \in Around(m, leg, n - 1)}

Distance(e, m, leg) == Min({n \in 1..MaxDepth : e \in EdgesWithin(m, leg, n)})

\* Each walk follows edges from what it reached before, takes none twice and
\* keeps its limit, whatever is written meanwhile.  Undisturbed it has every
\* edge at the levels it has read, at its shortest distance, unless the limit
\* came first: then none nearer than those it has.  "Each start keeps its own
\* BFS" while the levels of all of them are read together.
WalksNearest ==
    \A i \in DOMAIN walks :
        LET w == walks[i]
            m == matches[i]
            leg == Head(legs)
            got == {x.edge : x \in ToSet(w.out)}
            read == EdgesWithin(m, leg, level - 1)
            linked(x) ==
                IF x.depth = 1 THEN NearEnd(x.edge, leg.dir) = m.id
                ELSE \E y \in ToSet(w.out) : /\ y.depth = x.depth - 1
                                             /\ FarEnd(y.edge, leg.dir) = NearEnd(x.edge, leg.dir)
        IN /\ Len(w.out) <= Limit /\ Cardinality(got) = Len(w.out)
           /\ \A x \in ToSet(w.out) : linked(x)
           /\ ~disturbed =>
                /\ got \subseteq read
                /\ Len(w.out) < Limit => got = read
                /\ \A x \in ToSet(w.out) :
                     /\ x.depth = Distance(x.edge, m, leg)
                     /\ \A e \in read \ got : Distance(e, m, leg) >= x.depth

\* The reference for an answer of edges: <<edge, distance>> of every edge
\* around a match or under one of its names.
LegsAsked == LegsOf(question, matches # <<>>)
EdgesMeant ==
    LET around(m, leg) == {<<e, Distance(e, m, leg)>> : e \in EdgesWithin(m, leg, MaxDepth)}
        named(m, leg) == {<<e, 1>> : e \in {e \in edgesNow : /\ leg.named /\ OfLeg(e, leg) /\ e.to = Absent
                                                          /\ e.corpus = m.corpus
                                                          /\ e.symbol \in {question.name, m.name}}}
    IN IF matches = <<>>
       THEN {<<e, 1>> : e \in {e \in edgesNow : /\ question.kind = "calls" /\ question.dir = "in"
                                                /\ OfLeg(e, question) /\ e.to = Absent
                                                /\ e.symbol = question.name}}
       ELSE UNION {around(m, leg) \cup named(m, leg) : m \in ToSet(matches), leg \in ToSet(LegsAsked)}

\* callers, callees and references answer with the nearest edges: all of them
\* below the limit, a caller known by a name only never twice.
NearestAnswered ==
    reply.kind = "edges" =>
        LET edges == reply.edges
            got == {<<x.edge, x.depth>> : x \in ToSet(edges)}
        IN /\ Len(edges) <= Limit
           /\ \A i, j \in DOMAIN edges :
                i < j => /\ edges[i].depth <= edges[j].depth
                         /\ question.kind = "calls" /\ edges[i].edge = edges[j].edge =>
                                edges[i].edge.to # Absent
           /\ ~disturbed =>
                /\ got \subseteq EdgesMeant
                /\ Len(edges) < Limit => got = EdgesMeant
                /\ \A x \in EdgesMeant \ got : \A y \in got : y[2] <= x[2]

-----------------------------------------------------------------------------
(* Linked documents.                                                       *)

\* Strongest first; a link is read with the graph.
LinksOf(m) ==
    InOrder({l \in EntityLinks : ~collected /\ l.corpus = m.corpus /\ l.entity = m.id},
            LAMBDA l : <<-l.conf, l.id>>)

LinkEvidence(m, l) ==
    [path |-> l.path, line |-> Absent, page |-> IF l.chunk # Absent THEN l.page ELSE Absent,
     section |-> IF l.chunk # Absent THEN l.section ELSE Absent,
     entity |-> m.qual, conf |-> l.conf, size |-> m.size]

\* One per document and chunk, in the order of the matches.
LinkedDocumentEvidence ==
    LET of(m) == LET links == LinksOf(m)
                 IN [k \in DOMAIN links |-> [match |-> m, link |-> links[k]]]
        all == FlattenSeq([i \in DOMAIN matches |-> of(matches[i])])
        subject(x) == <<x.match.corpus, x.link.doc, x.link.chunk>>
        first == {i \in DOMAIN all : \A j \in 1..(i - 1) : subject(all[j]) # subject(all[i])}
        order == InOrder(first, LAMBDA i : <<i>>)
    IN [k \in DOMAIN order |-> LinkEvidence(all[order[k]].match, all[order[k]].link)]

ReadLinks ==
    /\ at = "links" /\ at' = "answer"
    /\ docLinks' = IF question.kind = "impact" \/ Uses("documents") THEN LinkedDocumentEvidence ELSE <<>>
    /\ UNCHANGED <<question, edgesNow, collected, disturbed, legs, matches, walks, level, results, reply>>

-----------------------------------------------------------------------------
(* Impact.                                                                 *)

\* The edges of a leg, in the order of the matches, and their known ends.
EdgesFound(leg) ==
    LET r == {i \in DOMAIN results : results[i].leg = leg}
    IN IF r = {} THEN <<>> ELSE FlattenSeq(results[Min(r)].edges)

EndOf(x, leg) ==
    LET r == results[Min({i \in DOMAIN results : results[i].leg = leg})]
    IN {m \in r.ends : m.corpus = x.edge.corpus /\ m.id = FarEnd(x.edge, leg.dir)}

Ends(leg) == UNION {EndOf(x, leg) : x \in ToSet(EdgesFound(leg))}
NamesOf(S) == {m.qual : m \in S}
Highest(S) == IF S = {} THEN -1 ELSE Max(S)

BlastRadius(score) ==
    IF score <= LowMax THEN "LOW" ELSE IF score <= MediumMax THEN "MEDIUM" ELSE "HIGH"

BlastScore ==
    LET documents == {<<docLinks[i].path, docLinks[i].section>> : i \in DOMAIN docLinks}
    IN Cardinality(Ends(CallersLeg)) + Cardinality(documents)

AnswerImpact ==
    /\ at = "answer" /\ question.kind = "impact" /\ at' = "told"
    /\ reply' =
         [kind |-> "impact", defined |-> matches,
          callers |-> NamesOf(Ends(CallersLeg)), callees |-> NamesOf(Ends(CalleesLeg)),
          tests |-> NamesOf({m \in Ends(TestsLeg) : m.test}),
          code |-> Highest({x.edge.conf : x \in ToSet(EdgesFound(CallersLeg) \o EdgesFound(CalleesLeg))}),
          documents |-> Highest({d.conf : d \in ToSet(docLinks)}),
          score |-> BlastScore, radius |-> BlastRadius(BlastScore)]
    /\ UNCHANGED <<question, edgesNow, collected, disturbed, legs, matches, walks, level, results, docLinks>>

-----------------------------------------------------------------------------
(* Explore.                                                                *)

EdgeEvidence(x, leg) ==
    [k \in 1..Cardinality(EndOf(x, leg)) |->
        LET m == CHOOSE m \in EndOf(x, leg) : TRUE
        IN [path |-> m.path, line |-> m.line, page |-> Absent, section |-> Absent,
            entity |-> m.qual, conf |-> x.edge.conf, size |-> m.size]]

EdgeItems(leg) ==
    LET found == EdgesFound(leg) IN FlattenSeq([i \in DOMAIN found |-> EdgeEvidence(found[i], leg)])

\* What explore offers to the context, in order.
Offered ==
    EdgeItems(CallersLeg) \o EdgeItems(CalleesLeg) \o docLinks
    \o (IF matches = <<>> THEN SelectSeq(question.texts, LAMBDA t : t.size > 0) ELSE <<>>)
    \o (IF Uses("semantic") THEN question.vectors ELSE <<>>)

\* Every path is shown with the first match's name.
ShownName == IF matches = <<>> THEN question.name ELSE matches[1].qual

Paths(leg) ==
    LET found == EdgesFound(leg)
        other(x) == IF EndOf(x, leg) # {} THEN (CHOOSE m \in EndOf(x, leg) : TRUE).qual
                    ELSE x.edge.symbol
    IN [i \in DOMAIN found |->
            IF leg.dir = "in" THEN <<other(found[i]), ShownName>> ELSE <<ShownName, other(found[i])>>]

OfferedPaths == Paths(CallersLeg) \o Paths(CalleesLeg)

Location(i) == <<i.path, i.line, i.page, i.section>>

\* dedupe: the higher confidence, of equal ones the first, at the place where
\* the location was first offered.
Dedupe(items) ==
    LET at1(i) == Min({j \in DOMAIN items : Location(items[j]) = Location(items[i])})
        best == {i \in DOMAIN items :
                    \A j \in DOMAIN items :
                        Location(items[j]) = Location(items[i]) =>
                            \/ items[j].conf < items[i].conf
                            \/ items[j].conf = items[i].conf /\ j >= i}
        order == InOrder(best, LAMBDA i : <<at1(i)>>)
    IN [k \in DOMAIN order |-> items[order[k]]]

NoneLast(v) == IF v = Absent THEN <<1, 0>> ELSE <<0, v>>
Strength(i) == <<-i.conf, i.path>> \o NoneLast(i.line) \o NoneLast(i.page) \o <<i.entity>>

EmptyContext == [items |-> <<>>, paths |-> <<>>, files |-> {}, chars |-> 0, nodes |-> {}, over |-> {}]

TakeItem(ctx, i, budget) ==
    IF i.path \notin ctx.files /\ Cardinality(ctx.files) >= budget.files
    THEN [ctx EXCEPT !.over = @ \cup {"files"}]
    ELSE IF ctx.chars + i.size > budget.chars THEN [ctx EXCEPT !.over = @ \cup {"chars"}]
    ELSE [ctx EXCEPT !.items = Append(@, i), !.files = @ \cup {i.path}, !.chars = @ + i.size]

TakePath(ctx, p, budget) ==
    IF Cardinality(ctx.nodes \cup ToSet(p)) > budget.nodes THEN [ctx EXCEPT !.over = @ \cup {"nodes"}]
    ELSE [ctx EXCEPT !.paths = Append(@, p), !.nodes = @ \cup ToSet(p)]

BuildContext(items, paths, budget) ==
    LET ordered == SortedBy(Dedupe(items), LAMBDA i : Strength(i))
        filled == FoldLeft(LAMBDA ctx, i : TakeItem(ctx, i, budget), EmptyContext, ordered)
    IN FoldLeft(LAMBDA ctx, p : TakePath(ctx, p, budget), filled, paths)

AnswerExplore ==
    /\ at = "answer" /\ question.kind = "explore" /\ at' = "told"
    /\ reply' = [kind |-> "explore", context |-> BuildContext(Offered, OfferedPaths, question.budget),
                 tests |-> NamesOf({m \in Ends(TestsLeg) : m.test}),
                 callees |-> NamesOf(Ends(CalleesLeg))]
    /\ UNCHANGED <<question, edgesNow, collected, disturbed, legs, matches, walks, level, results, docLinks>>

ExploreNext == GraphQueryNext \/ ReadLinks \/ AnswerImpact \/ AnswerExplore

ExploreSpec == GraphQueryInit /\ [][ExploreNext]_graphVars

-----------------------------------------------------------------------------
(* Properties.                                                             *)

\* The context keeps its budget; each location is in it at most once and with
\* the best confidence that was offered for it; what is left out has no room
\* in what is left, and the reasons say that something was left out exactly
\* when it was.
ContextRight ==
    reply.kind = "explore" =>
        LET ctx == reply.context
            budget == question.budget
            items == ToSet(ctx.items)
            offered == ToSet(Offered)
            chars == FoldLeft(LAMBDA sum, i : sum + i.size, 0, ctx.items)
            out == {o \in offered : \A i \in items : Location(i) # Location(o)}
            best(o) == \A p \in offered : Location(p) = Location(o) => p.conf <= o.conf
            pathsOut == ToSet(OfferedPaths) \ ToSet(ctx.paths)
        IN /\ ctx.chars = chars /\ chars <= budget.chars
           /\ Cardinality({i.path : i \in items}) <= budget.files
           /\ Cardinality(UNION {ToSet(p) : p \in ToSet(ctx.paths)}) <= budget.nodes
           /\ \A i, j \in DOMAIN ctx.items : i < j =>
                /\ Location(ctx.items[i]) # Location(ctx.items[j])
                /\ ctx.items[i].conf >= ctx.items[j].conf
           /\ \A i \in items : best(i)
           /\ \A o \in out : best(o) =>
                \/ o.path \notin ctx.files /\ Cardinality(ctx.files) = budget.files
                \/ chars + o.size > budget.chars
           /\ ctx.over = {} <=> out = {} /\ pathsOut = {}

\* Undisturbed and below the limit, impact tells of every caller within the
\* depth, known or not by more than a name; a test that is told of refers to
\* the symbol; the score counts each caller and each document section once.
ImpactRight ==
    reply.kind = "impact" =>
        LET near(leg, n) == UNION {EdgesWithin(m, leg, n) : m \in ToSet(matches)}
            named(leg) == {e \in edgesNow : /\ e.to = Absent /\ OfLeg(e, leg)
                                            /\ \E m \in ToSet(matches) :
                                                 e.corpus = m.corpus /\ e.symbol \in {question.name, m.name}}
            far(edges, dir) == {m \in Entities : \E e \in edges : FarEnd(e, dir) = m.id /\ e.corpus = m.corpus}
            callers == far(near(CallersLeg, MaxDepth) \cup named(CallersLeg), "in")
            room == \A i \in DOMAIN results : \A k \in DOMAIN results[i].edges :
                        Len(results[i].edges[k]) < Limit
        IN /\ ~disturbed /\ room =>
                /\ reply.callers = NamesOf(callers)
                /\ reply.callees = NamesOf(far(near(CalleesLeg, MaxDepth), "out"))
                /\ reply.tests = NamesOf({m \in far(near(TestsLeg, MaxDepth) \cup named(TestsLeg), "in") : m.test})
                /\ reply.score = Cardinality(callers)
                     + Cardinality({<<l.path, IF l.chunk # Absent THEN l.section ELSE Absent>> :
                          l \in {l \in EntityLinks : \E m \in ToSet(matches) : l.corpus = m.corpus /\ l.entity = m.id}})
           /\ reply.score >= Cardinality(reply.callers)

ExploringRight == WalksNearest /\ NearestAnswered /\ ContextRight /\ ImpactRight
=============================================================================
