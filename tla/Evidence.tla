------------------------------- MODULE Evidence -------------------------------
(***************************************************************************)
(* `evidence` and `ask`: a question is routed to the stages it needs,      *)
(* split into parts when it compares or asks several things, each part is  *)
(* retrieved and ranked, the rankings are fused and thinned out, callers   *)
(* are added, and what is shown is cited: every citation is read again     *)
(* from the builds that were opened, and the verdict tells how much of     *)
(* each part the valid ones cover.  `ask` calls a provider only for a      *)
(* question that some evidence supports, and checks what its answer cites. *)
(*                                                                         *)
(* Rows, full-text reads and rankings are those of Searching.  A row also  *)
(* has its `place`, `parent` (place of its heading, -1 without one) and    *)
(* `cost` in its document; shares are in percent.                          *)
(***************************************************************************)
EXTENDS Searching

CONSTANTS
    Inquiries,   \* [question, cues, twoNames, sides, target, filter, limit, ai]
    Switches,    \* what the configuration fixes
    Calls,       \* [target, caller (a row), depth]
    MinFetch,    \* candidates fetched per part at least
    PrintWords,  \* words of a text that its fingerprint stands for
    MaxWindows   \* document hits that get their surroundings

VARIABLES
    inquiry,     \* the request, its route and its parts
    doing,       \* "idle", "retrieve", "rank", "callers", "ground", "expand", "told"
    lists,       \* the ranking of each part
    chosen,      \* the hits shown
    citations,   \* of each: "valid", "filtered" or "missing"
    coverage,    \* of each part
    verdict,
    surroundings,     \* the surroundings shown: a set of [of, parent, before, after]
    overBudget,  \* the request's time is spent
    lostRows,    \* sources whose rows of the opened build are gone
    skipped,     \* parts reported as skipped
    outcome         \* what `ask` did

evidenceVars == <<inquiry, doing, lists, chosen, citations, coverage, verdict, surroundings,
                  overBudget, lostRows, skipped, outcome>>

NoInquiry == [limit |-> 0]
NotAsked == [called |-> FALSE]

EvidenceInit ==
    /\ inquiry = NoInquiry /\ doing = "idle" /\ lists = <<>> /\ chosen = <<>>
    /\ citations = <<>> /\ coverage = <<>> /\ verdict = "none" /\ surroundings = {}
    /\ overBudget = FALSE /\ lostRows = {} /\ skipped = {} /\ outcome = NotAsked

-----------------------------------------------------------------------------
(* Routing.                                                                *)

\* The phrase rules in order, with their score for a query that names two
\* identifiers and for any other.
PhraseRules ==
    <<[cue |-> "impact", intent |-> "impact", two |-> 90, one |-> 90],
      [cue |-> "navigation", intent |-> "navigation", two |-> 85, one |-> 85],
      [cue |-> "comparison", intent |-> "comparison", two |-> 90, one |-> 75],
      [cue |-> "several", intent |-> "multi hop", two |-> 85, one |-> 85],
      [cue |-> "hops", intent |-> "multi hop", two |-> 80, one |-> 60],
      [cue |-> "document", intent |-> "document", two |-> 70, one |-> 70],
      [cue |-> "question", intent |-> "conceptual", two |-> 60, one |-> 60]>>

\* Shapes first, then the best score, of equal ones the first rule.
IntentOf(cues, twoNames) ==
    LET fired == {i \in DOMAIN PhraseRules : PhraseRules[i].cue \in cues}
        score(i) == IF twoNames THEN PhraseRules[i].two ELSE PhraseRules[i].one
        best == {i \in fired : \A j \in fired : score(j) < score(i) \/ (score(j) = score(i) /\ i <= j)}
    IN IF "path" \in cues THEN "path"
       ELSE IF "identifier" \in cues THEN "symbol"
       ELSE IF fired = {} THEN "ambiguous"
       ELSE PhraseRules[CHOOSE i \in best : TRUE].intent

StagesOf(intent, s) ==
    LET splits == IF s.decomposition THEN {"decompose"} ELSE {}
        vectors == IF s.semantic THEN {"semantic"} ELSE {}
    IN CASE intent = "path" -> {}
         [] intent = "symbol" -> {"graph"}
         [] intent = "impact" -> {"graph", "context"}
         [] intent = "navigation" -> {"graph"}
         [] intent = "comparison" -> {"context"} \cup splits \cup vectors
         [] intent = "multi hop" -> {"graph", "context"} \cup splits \cup vectors
         [] intent \in {"document", "conceptual"} -> {"context"} \cup vectors
         [] OTHER -> vectors

\* A query falls into at least two different parts, or into none.
PartsOf(q, intent, s) ==
    LET different == {i \in DOMAIN q.sides : \A j \in 1..(i - 1) : q.sides[j] # q.sides[i]}
        parts == LET order == InOrder(different, LAMBDA i : <<i>>)
                 IN [k \in DOMAIN order |-> q.sides[order[k]]]
    IN IF "decompose" \in StagesOf(intent, s) /\ Len(parts) >= 2
       THEN TopOf(parts, s.maxParts) ELSE <<q.question>>

BeginEvidence ==
    /\ doing = "idle"
    /\ \E q \in Inquiries, s \in Switches, shelf \in Shelves :
         LET intent == IF s.routing THEN IntentOf(q.cues, q.twoNames) ELSE "ambiguous"
             stages == IF s.routing THEN StagesOf(intent, s) ELSE {}
             parts == IF s.routing THEN PartsOf(q, intent, s) ELSE <<q.question>>
         IN inquiry' = q @@ s @@ [intent |-> intent, stages |-> stages, parts |-> parts, shelf |-> shelf]
    /\ doing' = "retrieve"
    /\ UNCHANGED <<lists, chosen, citations, coverage, verdict, surroundings, overBudget, lostRows, skipped, outcome>>

-----------------------------------------------------------------------------
(* What happens meanwhile: time passes, and a publication may collect the  *)
(* local build that a source was opened with.                              *)

Working == doing \notin {"idle", "support", "ask", "told"}

BudgetSpent ==
    /\ Working /\ ~overBudget /\ overBudget' = TRUE
    /\ UNCHANGED <<inquiry, doing, lists, chosen, citations, coverage, verdict, surroundings, lostRows, skipped, outcome>>

RowsLost(s) ==
    /\ Working /\ lostRows = {} /\ lostRows' = {s}
    /\ UNCHANGED <<inquiry, doing, lists, chosen, citations, coverage, verdict, surroundings, overBudget, skipped, outcome>>

InFilter(s) == inquiry.filter.sources = {} \/ s \in inquiry.filter.sources
OpenedRows == {r \in inquiry.shelf : InFilter(r.src)}
RowsThere == {r \in OpenedRows : r.src \notin lostRows}

-----------------------------------------------------------------------------
(* Retrieval of one part.                                                  *)

FetchSize == IF 4 * inquiry.limit > MinFetch THEN 4 * inquiry.limit ELSE MinFetch

\* The loosest expressions are left out when vectors answer a concept.
PushedFilter ==
    [inquiry.filter EXCEPT !.loose = ~(inquiry.intent = "conceptual" /\ "semantic" \in inquiry.stages)]

InQuestionScope(seq, Row(_)) == SelectSeq(seq, LAMBDA h : Allowed(Row(h), inquiry.filter))

LexicalPart(part) ==
    LET of(s) == TopOf(MergeHits(CorpusSearch({r \in RowsThere : r.src = s}, part, FetchSize, PushedFilter)),
                       FetchSize)
        allowed(s) == {h \in ToSet(of(s)) : Allowed(h.row, inquiry.filter)}
    IN MergeHits(UNION {allowed(s) : s \in {r.src : r \in OpenedRows}})

\* BUG: what the vectors find is not filtered.
UnfilteredSemantic(answers) == IF answers THEN NearestRows(RowsThere, FetchSize) ELSE <<>>

\* Vector search has no filter of its own; without a model it finds nothing.
SemanticPart(answers) ==
    IF answers THEN InQuestionScope(NearestRows(RowsThere, FetchSize), LAMBDA r : r) ELSE <<>>

RetrievePart ==
    /\ doing = "retrieve" /\ Len(lists) < Len(inquiry.parts)
    /\ LET i == Len(lists) + 1
       IN IF i > 1 /\ overBudget
          THEN lists' = Append(lists, <<>>) /\ skipped' = skipped \cup {i}
          ELSE /\ \E answers \in (IF "semantic" \in inquiry.stages THEN BOOLEAN ELSE {FALSE}) :
                    lists' = Append(lists, FusedRanking(FusionInput(LexicalPart(inquiry.parts[i]),
                                                                     SemanticPart(answers)), FetchSize))
               /\ UNCHANGED skipped
    /\ doing' = IF Len(lists') = Len(inquiry.parts) THEN "rank" ELSE "retrieve"
    /\ UNCHANGED <<inquiry, chosen, citations, coverage, verdict, surroundings, overBudget, lostRows, outcome>>

-----------------------------------------------------------------------------
(* Fusion of the parts and what is left of it.                             *)

\* Every subject once, as its first part has it: pinned ones by path, then by
\* the sum of 1/(61 + rank), in millionths.
FuseParts(ls) ==
    LET places == {<<i, k>> \in (DOMAIN ls) \X (1..FetchSize) : k <= Len(ls[i])}
        of(p) == ls[p[1]][p[2]]
        same(p) == {x \in places : SameSubject(of(x), of(p))}
        first == {p \in places : \A x \in same(p) : p[1] < x[1] \/ (p[1] = x[1] /\ p[2] <= x[2])}
        sum(p) == FoldFunction(LAMBDA a, b : a + b, 0, [x \in same(p) |-> 1000000 \div (60 + x[2])])
        rank(p) == Min({x[2] : x \in same(p)})
        key(p) == IF Pinned(of(p)) THEN <<0, of(p).row.order, -sum(p), rank(p), of(p).row.order>>
                  ELSE <<1, 0, -sum(p), rank(p), of(p).row.order>>
        order == InOrder(first, key)
    IN [n \in DOMAIN order |-> of(order[n])]

\* One hit per text that is long enough to be told apart.
DropRepeats(seq) ==
    LET repeated(i) == /\ Len(seq[i].row.text) >= PrintWords
                       /\ \E j \in 1..(i - 1) : seq[j].row.text = seq[i].row.text
        kept == InOrder({i \in DOMAIN seq : ~repeated(i)}, LAMBDA i : <<i>>)
    IN [n \in DOMAIN kept |-> seq[kept[n]]]

SameFile(a, b) == a.row.src = b.row.src /\ a.row.file = b.row.file

CapSiblings(seq) ==
    LET has(acc, Like(_)) == Cardinality({i \in DOMAIN acc : Like(acc[i])})
        room(acc, h) == /\ has(acc, LAMBDA g : SameFile(g, h)) < inquiry.perFile
                        /\ \/ inquiry.perSource = 0
                           \/ has(acc, LAMBDA g : g.row.src = h.row.src) < inquiry.perSource
        keep(acc, h) == IF Pinned(h) \/ room(acc, h) THEN Append(acc, h) ELSE acc
    IN FoldLeft(keep, <<>>, seq)

InsertHit(seq, h, before) ==
    LET at == IF before < Len(seq) THEN before ELSE Len(seq)
    IN SubSeq(seq, 1, at) \o <<h>> \o SubSeq(seq, at + 1, Len(seq))

WithoutRow(seq, rows) == SelectSeq(seq, LAMBDA h : h.row \notin rows)

\* The best hit of each part is put last of those shown when it is missing.
KeepSides(seq, ls) ==
    LET missing(acc, l) ==
            /\ l # <<>> /\ acc # <<>>
            /\ \A i \in DOMAIN TopOf(acc, inquiry.limit) : acc[i].row # l[1].row
        keep(acc, l) == IF missing(acc, l)
                        THEN InsertHit(WithoutRow(acc, {l[1].row}), l[1], inquiry.limit - 1)
                        ELSE acc
    IN IF Len(ls) > 1 THEN FoldLeft(keep, seq, ls) ELSE seq

TermsOf(q) == ToSet(q.words) \ StopWords
Says(r, t) == \E w \in ToSet(r.text) \cup ToSet(r.head) : w = t \/ <<w, t>> \in WordStarts
PinsIn(seq) == Cardinality({i \in DOMAIN seq : \A j \in 1..i : Pinned(seq[j])})

\* Of hits that no name pins, those first that say more of the query.
ByCover(seq) ==
    LET pins == PinsIn(seq)
        says(h) == Cardinality({t \in TermsOf(inquiry.question) : Says(h.row, t)})
    IN IF inquiry.routing /\ inquiry.intent \in {"document", "conceptual", "ambiguous"}
       THEN SubSeq(seq, 1, pins) \o SortedBy(SubSeq(seq, pins + 1, Len(seq)), LAMBDA h : <<-says(h)>>)
       ELSE seq

\* Pinned hits, then one by one the hit with the best of rank and novelty.
Diversified(seq) ==
    LET pins == SelectSeq(seq, Pinned)
        rest == SelectSeq(seq, LAMBDA h : ~Pinned(h))
        overlap(a, b) == LET s == ToSet(a.row.text) t == ToSet(b.row.text)
                         IN (200 * Cardinality(s \cap t)) \div (Cardinality(s) + Cardinality(t))
        score(i, out) ==
            inquiry.lambda * (100 - (100 * (i - 1)) \div Len(rest))
            - (100 - inquiry.lambda) * Max({0} \cup {overlap(rest[i], out[k]) : k \in DOMAIN out})
        pick(acc, n) ==
            LET best == InOrder(acc.pool, LAMBDA j : <<-score(j, acc.out), j>>)
                i == best[1]
            IN [out |-> Append(acc.out, rest[i]), pool |-> acc.pool \ {i}]
    IN FoldLeft(pick, [out |-> pins, pool |-> DOMAIN rest], [n \in DOMAIN rest |-> n]).out

FusedAndThinned == CapSiblings(DropRepeats(FuseParts(lists)))

RankEvidence ==
    /\ doing = "rank"
    /\ LET ranked == ByCover(KeepSides(FusedAndThinned, lists))
           final == IF inquiry.diversity /\ ~overBudget THEN Diversified(ranked) ELSE ranked
       IN chosen' = TopOf(final, inquiry.limit)
    /\ doing' = "callers"
    /\ UNCHANGED <<inquiry, lists, citations, coverage, verdict, surroundings, overBudget, lostRows, skipped, outcome>>

-----------------------------------------------------------------------------
(* Callers of the target: of a navigation or an impact question they are   *)
(* the answer and come right after the pinned definitions.                 *)

AsCaller(r) == AsHit(r, Tier.fts, 0, 0)

\* Each caller once, the nearest first.
CallersOf(target) ==
    LET found == {c \in Calls : c.target = target /\ c.caller \in RowsThere /\ Allowed(c.caller, inquiry.filter)}
        nearest == {c \in found : \A d \in found : d.caller = c.caller => c.depth <= d.depth}
        order == InOrder(nearest, LAMBDA c : <<c.depth, c.caller.order>>)
    IN [n \in DOMAIN order |-> AsCaller(order[n].caller)]

WithCallers(seq, callers) ==
    LET rest == WithoutRow(seq, {callers[n].row : n \in DOMAIN callers})
        insert(acc, n) == InsertHit(acc, callers[n], PinsIn(seq) + n - 1)
    IN FoldLeft(insert, rest, [n \in DOMAIN callers |-> n])

CallersAnswer == inquiry.intent \in {"navigation", "impact"} /\ "graph" \in inquiry.stages

AddCallers ==
    /\ doing = "callers"
    /\ chosen' = IF CallersAnswer /\ ~overBudget
                 THEN TopOf(WithCallers(chosen, CallersOf(inquiry.target)), inquiry.limit)
                 ELSE chosen
    /\ doing' = "ground"
    /\ UNCHANGED <<inquiry, lists, citations, coverage, verdict, surroundings, overBudget, lostRows, skipped, outcome>>

-----------------------------------------------------------------------------
(* Grounding: every citation is read again.                                *)

ChunksOf(doc) == {r \in RowsThere : r.table = "chunks" /\ r.doc = doc}

\* A title hit cites its document, which is there when its first chunk is.
RecordThere(r) ==
    IF r.table = "documents" THEN \E c \in ChunksOf(r.id) : c.place = 0 ELSE r \in RowsThere

Citation(r) ==
    LET f == inquiry.filter
        chunk == r.table = "chunks" /\ r \in RowsThere
        doc == IF chunk THEN r.doc ELSE r.id
        inside == /\ f.sources = {} \/ r.src \in f.sources
                  /\ f.paths => r.scope
                  /\ Wants(f, KindOf(r))
                  /\ f.docs = {} \/ doc \in f.docs
                  /\ ~(f.noAttachments /\ chunk /\ r.attached)
    IN IF ~inside THEN "filtered" ELSE IF RecordThere(r) THEN "valid" ELSE "missing"

ValidRows == {chosen[i].row : i \in {i \in DOMAIN chosen : citations[i] = "valid"}}

\* The share of a part's terms that the texts of the valid citations say.
CoverageBy(part, rows) ==
    LET terms == TermsOf(part)
        said == {t \in terms : \E r \in rows : Says(r, t)}
    IN IF terms = {} THEN IF rows = {} THEN 0 ELSE 100
       ELSE (100 * Cardinality(said)) \div Cardinality(terms)

StatusOf(share) ==
    IF share = 0 THEN "missing" ELSE IF share >= inquiry.minCoverage THEN "supported" ELSE "partial"

Abstain(shares) ==
    LET ok == {i \in DOMAIN shares : StatusOf(shares[i]) = "supported"}
    IN IF ok = {} THEN "insufficient" ELSE IF ok = DOMAIN shares THEN "supported" ELSE "partial"

CheckCitations ==
    /\ doing = "ground"
    /\ citations' = [i \in DOMAIN chosen |-> Citation(chosen[i].row)]
    /\ doing' = "support"
    /\ UNCHANGED <<inquiry, lists, chosen, coverage, verdict, surroundings, overBudget, lostRows, skipped, outcome>>

Ground ==
    /\ doing = "support"
    /\ coverage' = [i \in DOMAIN inquiry.parts |-> CoverageBy(inquiry.parts[i], ValidRows)]
    /\ verdict' = IF inquiry.grounding THEN Abstain(coverage') ELSE "not checked"
    /\ doing' = "expand" /\ lists' = <<>>
    /\ UNCHANGED <<inquiry, chosen, citations, surroundings, overBudget, lostRows, skipped, outcome>>

-----------------------------------------------------------------------------
(* The surroundings of the first document hits.                            *)

CostOf(rows) == FoldSet(LAMBDA r, sum : sum + r.cost, 0, rows)

\* Nearest first, until one does not fit.
TakeWhileFits(seq, used) ==
    LET upTo(k) == CostOf({seq[i] : i \in 1..k})
    IN {seq[i] : i \in {k \in DOMAIN seq : used + upTo(k) <= inquiry.maxTokens}}

\* The heading is taken first, then what stands before, then what follows.
WindowOf(r) ==
    LET headings == {h \in ChunksOf(r.doc) : h.place = r.parent /\ r.cost + h.cost <= inquiry.maxTokens}
        parent == IF inquiry.parentHeading THEN headings ELSE {}
        beside == {c \in ChunksOf(r.doc) : c.parent = r.parent}
        earlier == TopOf(InOrder({c \in beside : c.place < r.place}, LAMBDA c : <<-c.place>>), inquiry.previous)
        later == TopOf(InOrder({c \in beside : c.place > r.place}, LAMBDA c : <<c.place>>), inquiry.next)
        before == TakeWhileFits(earlier, r.cost + CostOf(parent))
    IN [of |-> r, parent |-> parent, before |-> before,
        after |-> TakeWhileFits(later, r.cost + CostOf(parent \cup before))]

Expands == "context" \in inquiry.stages
           /\ (inquiry.parentHeading \/ inquiry.previous > 0 \/ inquiry.next > 0)

\* The budget may be spent before any of the windows: the rest is left out.
Expand ==
    /\ doing = "expand"
    /\ LET documents == TopOf(SelectSeq(chosen, LAMBDA h : KindOf(h.row) = "document"), MaxWindows)
           windowed(n) == {WindowOf(documents[i].row) :
                             i \in {i \in 1..n : documents[i].row \in ChunksOf(documents[i].row.doc)}}
       IN IF ~Expands THEN UNCHANGED <<surroundings, overBudget>>
          ELSE \E n \in 0..Len(documents) :
                 /\ overBudget => n = 0
                 /\ surroundings' = windowed(n)
                 /\ overBudget' = (overBudget \/ n < Len(documents))
    /\ doing' = IF inquiry.ai THEN "ask" ELSE "told"
    /\ UNCHANGED <<inquiry, lists, chosen, citations, coverage, verdict, lostRows, skipped, outcome>>

-----------------------------------------------------------------------------
(* `ask`: the provider sees valid evidence only, under the numbers it has. *)

ValidIds == {i \in DOMAIN chosen : citations[i] = "valid"}

CheckAnswer(cited, uncited) ==
    IF cited \ ValidIds # {} \/ (cited = {} /\ uncited) THEN "ungrounded"
    ELSE IF uncited THEN "partially grounded" ELSE "grounded"

AskProvider ==
    /\ doing = "ask"
    /\ \/ inquiry.grounding /\ verdict = "insufficient" /\ outcome' = [called |-> FALSE, abstained |-> TRUE]
       \/ /\ ~(inquiry.grounding /\ verdict = "insufficient")
          /\ \/ outcome' = [called |-> TRUE, failed |-> TRUE]
             \/ \E cited \in SUBSET (1..(Len(chosen) + 1)), uncited \in BOOLEAN :
                  /\ Cardinality(cited) <= 1
                  /\ outcome' = [called |-> TRUE, failed |-> FALSE, given |-> ValidIds, cited |-> cited,
                              uncited |-> uncited, status |-> CheckAnswer(cited, uncited)]
    /\ doing' = "told"
    /\ UNCHANGED <<inquiry, lists, chosen, citations, coverage, verdict, surroundings, overBudget, lostRows, skipped>>

EvidenceNext ==
    \/ BeginEvidence \/ BudgetSpent \/ RetrievePart \/ RankEvidence \/ AddCallers
    \/ CheckCitations \/ Ground \/ Expand \/ AskProvider
    \/ \E s \in {1, 2} : RowsLost(s)

EvidenceSpec == EvidenceInit /\ [][EvidenceNext]_evidenceVars

-----------------------------------------------------------------------------
(* Properties.                                                             *)

\* No stage widens the filters: every hit that is ranked or shown is one
\* that the request allows, callers and vectors included.
NothingOutOfScope ==
    /\ \A i \in DOMAIN chosen : Allowed(chosen[i].row, inquiry.filter)
    /\ \A i \in DOMAIN lists : \A k \in DOMAIN lists[i] : Allowed(lists[i][k].row, inquiry.filter)

\* What is shown has no subject twice and no more than the limit, and of an
\* undivided question no long text twice, and the exact matches first.
ShownOnce ==
    /\ Len(chosen) <= inquiry.limit
    /\ \A i, j \in DOMAIN chosen : i < j => chosen[i].row # chosen[j].row
    /\ doing \notin {"idle", "retrieve"} /\ Len(inquiry.parts) = 1 =>
         \A i, j \in DOMAIN chosen : i < j =>
            /\ Pinned(chosen[j]) => Pinned(chosen[i])
            /\ chosen[i].row.text = chosen[j].row.text =>
                 Len(chosen[i].row.text) < PrintWords \/ CallersAnswer

\* The best hit of the last part that found any is shown.
LastSideShown ==
    doing = "callers" /\ Len(lists) > 1 /\ ~inquiry.diversity =>
        LET sides == {i \in DOMAIN lists : lists[i] # <<>>}
        IN sides # {} => \E k \in DOMAIN chosen : chosen[k].row = lists[Max(sides)][1].row

\* A citation is wrong only when its rows went meanwhile, and what is gone
\* when the citations are checked is never cited as valid.
CitationsHonest ==
    /\ doing \in {"support", "expand", "ask", "told"} =>
         \A i \in DOMAIN chosen : citations[i] # "valid" => chosen[i].row.src \in lostRows
    /\ doing = "support" =>
         \A i \in DOMAIN chosen : chosen[i].row.src \in lostRows => citations[i] # "valid"

\* "supported" is said only of a question whose every part has enough of its
\* words in rows that are cited as valid; nothing is called supported when
\* nothing valid is shown.
VerdictEarned ==
    verdict = "supported" =>
        \A i \in DOMAIN inquiry.parts :
            LET terms == TermsOf(inquiry.parts[i])
                said == {t \in terms : \E k \in ValidIds : Says(chosen[k].row, t)}
            IN ValidIds # {} /\ 100 * Cardinality(said) >= inquiry.minCoverage * Cardinality(terms)

\* A window surrounds a hit that is shown, stays within its budget and has no
\* gap: every sibling between one it shows and the hit is shown too.
WindowsRight ==
    \A w \in surroundings :
        LET around == w.before \cup w.after
        IN /\ \E i \in DOMAIN chosen : chosen[i].row = w.of
           /\ CostOf(w.parent \cup around \cup {w.of}) <= inquiry.maxTokens \/ w.parent \cup around = {}
           /\ \A a \in around : \A c \in OpenedRows :
                /\ c.table = "chunks" /\ c.doc = w.of.doc /\ c.parent = w.of.parent
                /\ (a.place < c.place /\ c.place < w.of.place) \/ (w.of.place < c.place /\ c.place < a.place)
                => c \in around

\* The provider is asked only on evidence that supports some part, sees only
\* valid evidence, and its answer is called grounded only when it cites
\* nothing else and leaves nothing uncited.
AnsweredOnEvidence ==
    outcome # NotAsked /\ outcome.called =>
        /\ inquiry.grounding => \E i \in DOMAIN coverage : coverage[i] >= inquiry.minCoverage
        /\ ~outcome.failed => (outcome.status = "grounded" => outcome.cited \subseteq outcome.given /\ ~outcome.uncited)

EvidenceRight ==
    NothingOutOfScope /\ ShownOnce /\ LastSideShown /\ CitationsHonest /\ VerdictEarned
    /\ WindowsRight /\ AnsweredOnEvidence

=============================================================================
