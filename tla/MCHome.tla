-------------------------------- MODULE MCHome --------------------------------
(* Components of a home that are checked by what must always hold, side by *)
(* side: they share no state, `part` chooses which of them runs, the others*)
(* stay where they start.                                                  *)
EXTENDS Scanning, Installing, Restoring, DaemonLife, Reporting,
        ServerStatus, Traversing, MCServerReading, Searching, Evidence,
        KnowledgeStore, Linking, TLC

VARIABLE part

\* Scanning: files changed, moved, copied, deleted or unreadable, directories
\* that come, go or are ignored, and links.
File(h) == [is |-> "file", hash |-> h, stated |-> TRUE]
Dir == [is |-> "dir", listed |-> TRUE]
Link(p) == [is |-> "link", to |-> p]
Src == <<"src">>
A == <<"src", "a.rs">>
B == <<"src", "b.md">>
Lib == <<"lib">>
C == <<"lib", "c.rs">>
Out == <<"out">>
D == <<"out", "d.rs">>
Mod == <<"out", "modules">>
E == <<"out", "modules", "e.rs">>
L == <<"l.rs">>
FirstMC == {Src :> Dir @@ A :> File(1) @@ B :> File(2) @@ Lib :> Dir @@ C :> File(1),
            Src :> Dir @@ A :> File(1)}
Drop(t, S) == [p \in {q \in DOMAIN t : \A d \in S : q # d /\ ~Below(q, d)} |-> t[p]]
Changes ==
    {A :> File(2), A :> Link(B), A :> Dir @@ <<"src", "a.rs", "x.rs">> :> File(1), Lib :> Link(Src), Src :> File(2), L :> Link(Lib),
     Out :> Dir @@ D :> File(1), Lib :> Dir @@ C :> File(1),
     L :> Link(A), L :> Link(<<"lib", "c.rs">>), L :> Link(<<Outside>>), L :> File(1), L :> File(2),
     <<"b.md">> :> File(1) @@ L :> File(1),
     Out :> Dir @@ Mod :> Dir @@ E :> File(2), Src :> [is |-> "dir", listed |-> FALSE] @@ L :> File(1),
     A :> [is |-> "file", hash |-> 1, stated |-> FALSE]}
TreesMC == {x \in {c @@ Drop(t, S) : c \in Changes, t \in FirstMC, S \in {{}, {A}, {Src}, {Lib}, {A, C}}} :
                \A p \in DOMAIN x : Parent(p) = Root \/ (Parent(p) \in DOMAIN x /\ x[Parent(p)].is = "dir")}
RulesMC == {[patterns |-> {}, includes |-> {}],
            [patterns |-> {[dirOnly |-> TRUE, hits |-> {Out}]}, includes |-> {}],
            [patterns |-> {[dirOnly |-> FALSE, hits |-> {A, D, L}]}, includes |-> {[dirOnly |-> FALSE, hits |-> {A}]}]}

\* Installing: a draft, a release that does not start, one without an archive.
AsRelease(v, draft, asset, starts) ==
    [version |-> v, draft |-> draft, asset |-> asset, starts |-> starts]
MCReleases ==
    <<AsRelease(2, FALSE, TRUE, TRUE), AsRelease(4, TRUE, TRUE, TRUE),
      AsRelease(6, FALSE, TRUE, FALSE), AsRelease(8, FALSE, FALSE, TRUE),
      AsRelease(10, FALSE, TRUE, TRUE)>>

Ent(id, c, name, qual, path, test) ==
    [id |-> id, corpus |-> c, name |-> name, qual |-> qual, path |-> path, line |-> id, test |-> test, size |-> 1]
MCEntities ==
    {Ent(1, 1, 20, 21, 1, FALSE), Ent(2, 1, 20, 22, 2, FALSE), Ent(3, 1, 30, 31, 2, TRUE),
     Ent(4, 1, 40, 41, 3, FALSE), Ent(5, 2, 20, 21, 4, FALSE), Ent(6, 2, 50, 51, 5, TRUE)}
MCEntityLinks ==
    {[id |-> 1, corpus |-> 1, entity |-> 1, doc |-> 1, chunk |-> 1, conf |-> 2, path |-> 9, page |-> 1, section |-> 1],
     [id |-> 2, corpus |-> 1, entity |-> 1, doc |-> 1, chunk |-> 2, conf |-> 3, path |-> 9, page |-> 1, section |-> 1],
     [id |-> 3, corpus |-> 1, entity |-> 2, doc |-> 1, chunk |-> 1, conf |-> 3, path |-> 9, page |-> 1, section |-> 1],
     [id |-> 4, corpus |-> 1, entity |-> 2, doc |-> 1, chunk |-> 0, conf |-> 1, path |-> 9, page |-> 0, section |-> 0]}
Edg(id, c, type, from, to, symbol, conf) ==
    [id |-> id, corpus |-> c, type |-> type, from |-> from, to |-> to, symbol |-> symbol, conf |-> conf]
MCEdgesAlways == {Edg(1, 1, 1, 3, 1, 0, 3), Edg(2, 1, 1, 4, 3, 0, 2), Edg(3, 1, 1, 4, 0, 20, 1)}
MCEdgesMay ==
    {Edg(4, 1, 2, 4, 1, 0, 2), Edg(5, 1, 1, 3, 2, 0, 1), Edg(6, 1, 1, 1, 4, 0, 3), Edg(7, 2, 1, 6, 0, 20, 1),
     Edg(8, 2, 1, 6, 5, 0, 0)}
MCGraphs == {MCEdgesAlways \cup {e \in MCEdgesMay : e.id \in s} : s \in {{}, {4, 5}, {5, 6, 7}, {4, 7, 8}, {4, 5, 6, 7, 8}}}
Asked1(kind, name, dir, types, depth, limit, shape, budget) ==
    [kind |-> kind, name |-> name, dir |-> dir, types |-> types, depth |-> depth, limit |-> limit,
     shape |-> shape, semantic |-> TRUE, budget |-> budget]
Budget(f, c, n) == [files |-> f, chars |-> c, nodes |-> n]
MCAsks ==
    {Asked1("calls", n, d, ts, 2, l, {}, Budget(1, 1, 1)) :
        n \in {20, 99}, d \in {"in", "out"}, ts \in {{}, {1}}, l \in {1, 2, 9}}
    \cup {Asked1("calls", n, "in", ts, 4, 9, {}, Budget(1, 1, 1)) : n \in {20, 30}, ts \in {{}, {1}}}
    \cup {Asked1("references", 20, "in", {}, 2, l, {}, Budget(1, 1, 1)) : l \in {2, 9}}
    \cup {Asked1("impact", 20, "in", {}, d, 4, {}, Budget(1, 1, 1)) : d \in {1, 2}}
    \cup {Asked1("explore", n, "in", {}, 1, 1, s, b) :
            n \in {20, 99}, s \in {{"impact"}, {"document"}, {}}, b \in {Budget(2, 3, 3), Budget(4, 9, 9)}}
Item(path, line, conf, size) ==
    [path |-> path, line |-> line, page |-> 0, section |-> 0, entity |-> path, conf |-> conf, size |-> size]
MCTextHits == {<<Item(1, 1, 3, 2), Item(2, 2, 1, 0), Item(7, 1, 1, 2), Item(2, 1, 1, 1)>>}
MCVectorItems == {<<>>, <<Item(7, 1, 0, 1), Item(2, 1, 2, 2)>>}

\* Searching: two sources; one document has more chunks than a page keeps, and
\* an attachment beside them.
AsRow(table, id, src, text, ranked, sim) ==
    [table |-> table, id |-> id, src |-> src, file |-> id, doc |-> "none", text |-> text,
     head |-> <<>>, place |-> 0, parent |-> -1, cost |-> 1, scope |-> TRUE, attached |-> FALSE, order |-> ranked, kindRank |-> 5,
     near |-> sim, bm25 |-> <<ranked, 20 - ranked, ranked, 20 - ranked>>]
AsChunk(row, doc, head) == [row EXCEPT !.doc = doc, !.file = doc, !.head = head, !.kindRank = 99]
Under(row, spot) == [row EXCEPT !.place = spot, !.parent = 0]
Aside(row) == [row EXCEPT !.scope = FALSE]
MCRows ==
    {AsRow("entities", "e1", 1, <<"billing", "order">>, 4, 3),
     Aside(AsRow("entities", "e2", 1, <<"app", "billing", "order">>, 2, 0)),
     AsChunk(AsRow("chunks", "c1", 1, <<"order", "of", "policy">>, 1, 0), "d1", <<"order">>),
     Under(AsChunk(AsRow("chunks", "c2", 1, <<"orders", "policy">>, 3, 5), "d1", <<>>), 2),
     Under(AsChunk(AsRow("chunks", "c7", 1, <<"index">>, 12, 0), "d1", <<>>), 1),
     [AsChunk(AsRow("chunks", "c3", 1, <<"order", "policy", "Ab7">>, 5, 2), "d1", <<>>)
        EXCEPT !.attached = TRUE, !.doc = "a1"],
     Under(AsChunk(AsRow("chunks", "c4", 1, <<"policy", "Ab7">>, 7, 1), "d1", <<>>), 3),
     AsChunk(AsRow("chunks", "c6", 1, <<"policy">>, 11, 0), "d3", <<>>),
     AsChunk(AsRow("chunks", "c5", 2, <<"policy", "billing", "order">>, 6, 6), "d2", <<>>),
     AsChunk(AsRow("documents", "d2", 2, <<"order", "policy">>, 8, 0), "d2", <<>>),
     Aside(AsRow("files", "f1", 2, <<"src", "order">>, 10, 0)),
     AsRow("files", "f2", 2, <<"orders", "policy">>, 9, 0)}
MCWordStarts == {<<"orders", "order">>}
MCShelves == {MCRows, {r \in MCRows : r.table # "entities" /\ r.id # "c1"}}
Asked(words, dotted) == [words |-> words, dotted |-> dotted]
MCQuestions ==
    {Asked(<<"order">>, FALSE), Asked(<<"policy">>, FALSE), Asked(<<"order", "policy">>, FALSE),
     Asked(<<"the", "order", "of", "policy">>, FALSE), Asked(<<"billing", "order">>, TRUE),
     Asked(<<"policy", "Ab7", "order">>, FALSE), Asked(<<"of", "the">>, FALSE)}
NoFilter == [sources |-> {}, paths |-> FALSE, kinds |-> {}, docs |-> {}, noAttachments |-> FALSE,
             loose |-> TRUE]
MCFilters ==
    {NoFilter, [NoFilter EXCEPT !.paths = TRUE], [NoFilter EXCEPT !.docs = {"d1", "d2"}],
     [NoFilter EXCEPT !.noAttachments = TRUE, !.sources = {1}],
     [NoFilter EXCEPT !.kinds = {"document", "path"}]}
Setting(limit, filter, server, mode, hybrid, window) ==
    [limit |-> limit, filter |-> filter, server |-> server, semantic |-> mode,
     hybrid |-> hybrid, window |-> window]
MCSettings ==
    {Setting(l, f, TRUE, "eager", TRUE, 2) : l \in {1, 2, 4}, f \in MCFilters}
    \cup {Setting(2, f, s, m, TRUE, 0) : f \in MCFilters, s \in BOOLEAN, m \in {"off", "lazy"}}

Inquiry(q, cues, sides, filter, limit, ai) ==
    [question |-> q, cues |-> cues, twoNames |-> FALSE, sides |-> sides,
     target |-> "order", filter |-> filter, limit |-> limit, ai |-> ai]
Sentence == Asked(<<"the", "order", "of", "policy">>, FALSE)
TwoSides == <<Asked(<<"billing", "order">>, FALSE), Asked(<<"policy">>, FALSE)>>
MCInquiries ==
    {Inquiry(Asked(<<"order">>, FALSE), {"identifier"}, <<>>, NoFilter, 2, FALSE),
     Inquiry(Asked(<<"order">>, FALSE), {"navigation", "question"}, <<>>, NoFilter, 2, TRUE),
     Inquiry(Asked(<<"order">>, FALSE), {"impact"}, <<>>, [NoFilter EXCEPT !.paths = TRUE], 3, FALSE),
     Inquiry(Sentence, {"comparison"}, TwoSides, NoFilter, 2, FALSE),
     Inquiry(Sentence, {"several"}, TwoSides \o <<Sentence>>, [NoFilter EXCEPT !.noAttachments = TRUE], 3, FALSE),
     Inquiry(Sentence, {"question"}, <<>>, [NoFilter EXCEPT !.docs = {"d1", "d2"}], 4, FALSE),
     Inquiry(Asked(<<"policy", "Ab7", "order">>, FALSE), {"document"}, <<>>, NoFilter, 3, TRUE),
     Inquiry(Asked(<<"policy", "Ab7">>, FALSE), {"document"}, <<>>, [NoFilter EXCEPT !.docs = {"d1"}], 2, FALSE),
     Inquiry(Asked(<<"orders", "policy">>, FALSE), {}, <<>>, NoFilter, 4, FALSE),
     Inquiry(Asked(<<"absent">>, FALSE), {}, <<>>, NoFilter, 2, TRUE)}
Switch(routing, diversity, grounding, minCoverage, maxTokens) ==
    [routing |-> routing, decomposition |-> TRUE, semantic |-> TRUE, maxParts |-> 3, perFile |-> 2,
     perSource |-> 0, diversity |-> diversity, lambda |-> 50, grounding |-> grounding,
     minCoverage |-> minCoverage, parentHeading |-> TRUE, previous |-> maxTokens - 1, next |-> 1,
     maxTokens |-> maxTokens]
MCSwitches == {Switch(TRUE, FALSE, TRUE, 50, 3), Switch(TRUE, TRUE, TRUE, 80, 2), Switch(FALSE, FALSE, FALSE, 50, 9)}
MCCallsOf ==
    {[target |-> "order", caller |-> r, depth |-> IF r.id = "e1" THEN 2 ELSE 1] :
        r \in {r \in MCRows : r.table = "entities"}}

\* KnowledgeStore: a file of code and a document, two contents each.
StoreContents == {"c1", "c2", "d1", "d2"}
StoreHolds == ("code" :> {"c1", "c2"} @@ "doc" :> {"d1", "d2"})
StoreDefines == ("c1" :> {<<"m", "x">>} @@ "c2" :> {<<"m", "y">>, <<"n", "x">>} @@ "d1" :> {} @@ "d2" :> {})
StoreSections == ("c1" :> {} @@ "c2" :> {} @@ "d1" :> {<<"s1", "x">>} @@ "d2" :> {<<"s1", "y">>, <<"s2", "x">>})
StoreRefers == ("c1" :> {<<"m", "n">>} @@ "c2" :> {<<"n", "m">>} @@ "d1" :> {} @@ "d2" :> {})
StoreMentions == {<<"x", "m">>, <<"y", "n">>}
StoreFirsts == {("code" :> "c1" @@ "doc" :> "d1")}

\* Graph and vectors share no table: where the graph stage runs nothing is
\* embedded.
StorePart == StoreNext /\ (graphPlan' # NoGraphPlan => model = NoModel)

Entity(id, f, segments, ns) == [id |-> id, file |-> f, segments |-> segments, namespace |-> ns]
Code(entities, routes) == [entities |-> entities, routes |-> routes, parts |-> <<>>]
Doc(parts) == [entities |-> {}, routes |-> <<>>, parts |-> parts]
MCNamesOf == [f \in {"order.js", "$.js"} |->
    IF f = "order.js" THEN {<<"order", ".", "js">>, <<"order">>} ELSE {<<"$", ".", "js">>, <<"$">>}]
MCPathOf == [f \in {"guide", "help"} |->
    IF f = "guide" THEN <<"docs", "/", "order", ".", "md">> ELSE <<"order", ".", "md">>]
Shop == Entity("shop", "order.js", <<<<"shop">>>>, TRUE)
OrderCode == Code({Shop, Entity("order", "order.js", <<<<"shop">>, <<"order">>>>, FALSE),
                   Entity("cancel", "order.js", <<<<"shop">>, <<"order">>, <<"cancel">>>>, FALSE)},
                  <<[entity |-> "cancel", path |-> <<"/", "orders">>], [entity |-> "cancel", path |-> <<"/", "cancel">>],
                    [entity |-> "shop", path |-> <<"/", "orders">>]>>)
ListCode == Code({Shop, Entity("get", "order.js", <<<<"shop">>, <<"get">>>>, FALSE)}, <<>>)
UserCode == Code({Entity("user", "$.js", <<<<"user", "$">>>>, TRUE),
                  Entity("end", "$.js", <<<<"order">>, <<"cancel">>>>, FALSE)}, <<>>)
LongGuide == Doc(<<<<<<"see", " ", "order", ".">>, <<"shop", ".", "order", ".", "cancel">>,
                     <<"order", " ", "/", "cancel">>, <<"get", " ", "order", " ", "/", "orders">>>>,
                   <<<<"order", ".", "cancel">>>>>>)
ShortGuide == Doc(<<<<<<"cancel", " ", "user", "$">>, <<"shop", ".", "get">>>>>>)
NameHelp == Doc(<<<<<<"see", " ", "order", ".", "js">>>>>>)
PathHelp == Doc(<<<<<<"/", "orders", "/", "$">>, <<"get">>>>>>)
MCLinkContents == [f \in {"order.js", "$.js", "guide", "help"} |->
    CASE f = "order.js" -> {OrderCode, ListCode} [] f = "$.js" -> {UserCode}
      [] f = "guide" -> {ShortGuide} [] OTHER -> {NameHelp, PathHelp}]
MCFirst == [f \in {"order.js", "$.js", "guide", "help"} |->
    CASE f = "order.js" -> OrderCode [] f = "$.js" -> UserCode [] f = "guide" -> LongGuide [] OTHER -> NameHelp]
Ref(id, name, f, p, path, ordinal) ==
    [entity |-> [id |-> id, name |-> name], document |-> [id |-> [file |-> f, part |-> p], path |-> path],
     ordinal |-> ordinal]
MCGenericNames == {<<"get">>}
MCLinkRefs ==
    {Ref("", <<"order">>, "guide", 1, <<>>, 3), Ref("", <<"cancel">>, "", 0, <<"order", ".", "md">>, 0),
     Ref("end", <<>>, "guide", 2, <<>>, 0)}

homeVars ==
    <<part, scanVars, installVars, tellVars, restoreVars, lifeVars,
      reportVars, statusVars, graphVars, readingVars, searchVars,
      evidenceVars, knowledgeVars, linkVars>>

HomeInit ==
    /\ part \in
         {"scan", "install", "notice", "restore", "life", "report",
          "status", "graph query", "reading", "search", "evidence",
          "store", "linking"}
    /\ ScanInit
    /\ InstallInit
    /\ NoticeInit
    /\ RestoreInit
    /\ LifeInit
    /\ ReportInit
    /\ StatusInit
    /\ GraphQueryInit
    /\ ReadingInit
    /\ SearchInit
    /\ EvidenceInit
    /\ StoreInit
    /\ LinkingInit
    /\ part # "store" => activeBuild = NoDraft /\ model = NoModel

\* Part p runs, and only it.
Only(p) ==
    /\ part = p /\ UNCHANGED part
    /\ IF p = "scan" THEN TRUE ELSE UNCHANGED scanVars
    /\ IF p = "install" THEN TRUE ELSE UNCHANGED installVars
    /\ IF p = "notice" THEN TRUE ELSE UNCHANGED tellVars
    /\ IF p = "restore" THEN TRUE ELSE UNCHANGED restoreVars
    /\ IF p = "life" THEN TRUE ELSE UNCHANGED lifeVars
    /\ IF p = "report" THEN TRUE ELSE UNCHANGED reportVars
    /\ IF p = "status" THEN TRUE ELSE UNCHANGED statusVars
    /\ IF p = "graph query" THEN TRUE ELSE UNCHANGED graphVars
    /\ IF p = "reading" THEN TRUE ELSE UNCHANGED readingVars
    /\ IF p = "search" THEN TRUE ELSE UNCHANGED searchVars
    /\ IF p = "evidence" THEN TRUE ELSE UNCHANGED evidenceVars
    /\ IF p = "store" THEN TRUE ELSE UNCHANGED knowledgeVars
    /\ IF p = "linking" THEN TRUE ELSE UNCHANGED linkVars

HomeNext ==
    \/ Only("scan") /\ ScanNext
    \/ Only("install") /\ InstallNext
    \/ Only("notice") /\ NoticeNext
    \/ Only("restore") /\ RestoreNext
    \/ Only("life") /\ LifeNext
    \/ Only("report") /\ ReportNext
    \/ Only("status") /\ StatusNext
    \/ Only("graph query") /\ ExploreNext
    \/ Only("reading") /\ ReadingNext
    \/ Only("search") /\ SearchNext
    \/ Only("evidence") /\ EvidenceNext
    \/ Only("store") /\ StorePart
    \/ Only("linking") /\ LinkingNext

HomeSpec == HomeInit /\ [][HomeNext]_homeVars

(* What is answered. A search ranks what is in scope, each once, what is   *)
(* pinned first; a graph question tells of the nearest edges and only of   *)
(* what there is; evidence cites what was found in scope, and an answer    *)
(* counts as grounded when it should.                                      *)
AnswersRight == SearchRight /\ ExploringRight /\ (part = "evidence" => EvidenceRight)
===============================================================================
