------------------------------ MODULE Linking ------------------------------
(***************************************************************************)
(* Links between code entities and documents.  The graph pass of a build   *)
(* matches the names, qualified names, aliases, file names and routes of   *)
(* the changed code files with every document, and the changed documents   *)
(* with the entities they may mention; it keeps the links of everything    *)
(* else.  Links the user asks for are kept as intents that survive every   *)
(* build and are written into the current one by the command that adds or  *)
(* removes one, and again by every pass.                                   *)
(*                                                                         *)
(* A text is a sequence of atoms: whole words, and the marks (spaces,      *)
(* dots, slashes...) between them.                                         *)
(***************************************************************************)
EXTENDS Ordering

CONSTANTS
    CodeFiles, DocFiles,
    FileNames,        \* of a code file: its file name and its stem, as texts
    PathOf,         \* of a document file: its path, as a text
    LinkContents,       \* of a file: the set of what it may hold
    FirstContents,
    Marks,          \* the atoms that are not words
    GenericNames,   \* COMMON_NAMES, and the names shorter than MIN_BARE_NAME_CHARS
    LinkRefs,       \* what the user may name: [entity, document, ordinal]
    MaxLinks,       \* MAX_LINKS_PER_DOCUMENT
    MaxEdits, MaxLinkCommands    \* bounds of the model

VARIABLES
    fileContents,           \* what every file holds in the active build
    build,          \* the active build
    links,          \* its cross_links
    graph,          \* the graph state: "none", or what its last pass read
    graphShown,          \* whether the graph belongs to what the build holds
    intents,        \* manual_links
    command,        \* the link command under way
    sound,          \* since a pass no command died, met a publication, or wrote before the pass it was due
    loss,           \* whether a new build dropped links of a file that came back
    hosted,         \* whether the source is kept on the server
    shared,         \* manual links of a source that is kept on the server
    edits, asked

linkVars == <<fileContents, build, links, graph, graphShown, intents, command, sound, loss, hosted, shared, edits, asked>>

LinkFiles == CodeFiles \cup DocFiles
Missing == [entities |-> {}, routes |-> <<>>, parts |-> <<>>]
NeverLinked == [kind |-> "none"]
NoCommand == [step |-> "idle"]
WholeDocument == 0      \* the document itself rather than one of its chunks
User == "user"

LinkingInit ==
    /\ fileContents = [f \in LinkFiles |-> Missing] /\ build = 0 /\ links = {} /\ graph = NeverLinked
    /\ graphShown = FALSE /\ intents = {} /\ command = NoCommand /\ sound = TRUE /\ loss = "none"
    /\ hosted = FALSE /\ shared = {} /\ edits = 0 /\ asked = 0

-----------------------------------------------------------------------------
(* Texts and needles.                                                      *)

IsWord(a) == a \notin Marks
WordsIn(text) == {a \in ToSet(text) : IsWord(a)}

OccursAt(text, needle, i) ==
    i + Len(needle) - 1 <= Len(text) /\ SubSeq(text, i, i + Len(needle) - 1) = needle

WordAt(text, i) == i \in DOMAIN text /\ IsWord(text[i])
DotAt(text, i) == i \in DOMAIN text /\ text[i] = "."

LeadingBoundary(text, i) == ~WordAt(text, i - 1) /\ ~DotAt(text, i - 1)
TrailingBoundary(text, i) == ~WordAt(text, i) /\ (DotAt(text, i) => ~WordAt(text, i + 1))

\* A needle occurs as an identifier of its own.
ContainsIdentifier(text, needle) ==
    /\ needle # <<>>
    /\ \E i \in DOMAIN text :
        /\ OccursAt(text, needle, i)
        /\ LeadingBoundary(text, i) /\ TrailingBoundary(text, i + Len(needle))

\* Every posting list of the needle's words holds the unit: a filter before
\* the exact check.
MayContain(text, needle) == WordsIn(needle) \subseteq WordsIn(text)

MatchesNeedle(text, needle) == MayContain(text, needle) /\ ContainsIdentifier(text, needle)

\* A route's path may follow anything, and no word follows it.
MentionsRoute(text, path) ==
    path # <<>> /\ \E i \in DOMAIN text : OccursAt(text, path, i) /\ ~WordAt(text, i + Len(path))

Dotted(segments) ==
    [i \in 1..(2 * Len(segments) - 1) |-> IF i % 2 = 1 THEN segments[(i + 1) \div 2] ELSE <<".">>]
QualifiedName(e) == FlattenSeq(Dotted(e.segments))
BareName(e) == Last(e.segments)
AliasOf(e) == FlattenSeq(Dotted(SubSeq(e.segments, Len(e.segments) - 1, Len(e.segments))))

IsSequence(s) == s \in Seq(ToSet(s))

MayHold(f) == LinkContents[f] \cup {FirstContents[f]}

\* What a file may hold: its own entities, under ids that no other file has,
\* with names; routes; documents of units of text.
ASSUME LinkAssumption ==
    /\ MaxLinks \in Nat
    /\ \A f \in CodeFiles : \A n \in FileNames[f] : IsSequence(n)
    /\ \A f \in CodeFiles : \A c \in MayHold(f) :
        /\ IsSequence(c.routes) /\ \A i \in DOMAIN c.routes : IsSequence(c.routes[i].path)
        /\ \A e \in c.entities :
            /\ e.file = f /\ IsSequence(e.segments) /\ e.segments # <<>>
            /\ IsSequence(BareName(e)) /\ IsSequence(QualifiedName(e)) /\ ToSet(BareName(e)) \subseteq ToSet(QualifiedName(e))
            /\ Len(e.segments) > 2 => IsSequence(AliasOf(e)) /\ ToSet(BareName(e)) \subseteq ToSet(AliasOf(e))
            /\ \A g \in CodeFiles : \A d \in UNION {b.entities : b \in MayHold(g)} :
                e.id = d.id => f = g /\ (d \in c.entities => d = e)
    /\ \A f \in DocFiles : \A c \in MayHold(f) :
        \A i \in DOMAIN c.parts : IsSequence(c.parts[i]) /\ \A p \in DOMAIN c.parts[i] : IsSequence(c.parts[i][p])
    /\ LinkContents = [f \in LinkFiles |-> LinkContents[f]]
    /\ FirstContents = [f \in LinkFiles |-> FirstContents[f]]

\* The kinds of automatic link, and their link types.
LinkTypeOf ==
    [exact |-> "mentioned_in", qualified |-> "documented_by", alias |-> "mentioned_in",
     filename |-> "mentioned_in", route |-> "related_to"]

MatchExact(e, text) == BareName(e) \notin GenericNames /\ MatchesNeedle(text, BareName(e))
MatchQualified(e, text) == Len(e.segments) > 1 /\ MatchesNeedle(text, QualifiedName(e))
MatchAlias(e, text) == Len(e.segments) >= 3 /\ MatchesNeedle(text, AliasOf(e))
MatchFilename(e, text) == e.namespace /\ \E n \in FileNames[e.file] : MatchesNeedle(text, n)

-----------------------------------------------------------------------------
(* What a build holds.                                                     *)

EntitiesIn(f) == fileContents[f].entities
AllEntities == UNION {EntitiesIn(f) : f \in CodeFiles}
\* A document file is a document, followed by its attachments.
DocumentsIn(f) == {[file |-> f, part |-> i] : i \in DOMAIN fileContents[f].parts}
AllDocuments == UNION {DocumentsIn(f) : f \in DocFiles}
UnitsOf(d) == fileContents[d.file].parts[d.part]
\* The places of an entity's routes in its file.
RoutesOf(e) == {i \in DOMAIN fileContents[e.file].routes : fileContents[e.file].routes[i].entity = e.id}
RoutePath(e, i) == fileContents[e.file].routes[i].path
WordsOfFile(f) == UNION {WordsIn(u) : u \in UNION {ToSet(UnitsOf(d)) : d \in DocumentsIn(f)}}

-----------------------------------------------------------------------------
(* Matching an entity with a document.                                     *)

Matched(e, d, resolver) ==
    {p \in DOMAIN UnitsOf(d) :
        CASE resolver = "exact" -> MatchExact(e, UnitsOf(d)[p])
          [] resolver = "qualified" -> MatchQualified(e, UnitsOf(d)[p])
          [] resolver = "alias" -> MatchAlias(e, UnitsOf(d)[p])
          [] resolver = "filename" -> MatchFilename(e, UnitsOf(d)[p])
          [] resolver = "route" -> \E i \in RoutesOf(e) : MentionsRoute(UnitsOf(d)[p], RoutePath(e, i))}

\* Routes are matched one after the other, everything else in document order.
FoundAt(e, d, resolver, p) ==
    IF resolver # "route" THEN <<p>>
    ELSE <<Min({i \in RoutesOf(e) : MentionsRoute(UnitsOf(d)[p], RoutePath(e, i))}), p>>

\* Of one entity, document and resolver only the first chunks are linked.
LinkedChunks(e, d, resolver) ==
    ToSet(TopOf(InOrder(Matched(e, d, resolver), LAMBDA p : FoundAt(e, d, resolver, p)), MaxLinks))

CandidateLinks(e, d) ==
    UNION {{[entity |-> e.id, document |-> d, chunk |-> p, type |-> LinkTypeOf[r], resolver |-> r] :
                p \in LinkedChunks(e, d, r)} : r \in DOMAIN LinkTypeOf}

LinksBetween(entities, documents) == UNION {CandidateLinks(e, d) : e \in entities, d \in documents}

-----------------------------------------------------------------------------
(* The pass over the files that changed.                                   *)

\* Mutant: only the names of entities are looked for in the documents.
ForgetsSpelled(f, words) == FALSE

\* File names whose words the touched documents all use.
Spelled(f, words) == \E n \in FileNames[f] : WordsIn(n) # {} /\ WordsIn(n) \subseteq words

\* The entities a pass over touched documents loads.
LoadedFor(touched) ==
    LET words == UNION {WordsOfFile(f) : f \in touched \cap DocFiles}
        files == {f \in CodeFiles : Spelled(f, words)} \cup (touched \cap CodeFiles)
    IN {e \in AllEntities : Len(BareName(e)) = 1 /\ BareName(e)[1] \in words}
        \cup UNION {EntitiesIn(f) : f \in files}

CoveredFiles(touched) == {f \in touched \cap CodeFiles : EntitiesIn(f) # {}}

CodeSide(touched) ==
    LinksBetween(UNION {EntitiesIn(f) : f \in CoveredFiles(touched)}, AllDocuments)

\* Routes are loaded for the whole build, whatever entities are.
DocSide(touched) ==
    LET documents == UNION {DocumentsIn(f) : f \in touched \cap DocFiles}
        others == {e \in AllEntities : e.file \notin CoveredFiles(touched)}
    IN LinksBetween(others \cap LoadedFor(touched), documents)
        \cup {l \in LinksBetween(others, documents) : l.resolver = "route"}

LinkTouchedFiles(touched) == CodeSide(touched) \cup DocSide(touched)

Dangling(l) == l.entity \notin {e.id : e \in AllEntities} \/ l.document \notin AllDocuments

\* Links of the touched files, and links whose entity or document is gone.
ClearedBy(touched) ==
    {l \in links :
        \/ l.document.file \in touched
        \/ l.entity \in {e.id : e \in UNION {EntitiesIn(f) : f \in touched \cap CodeFiles}}
        \/ Dangling(l)}

-----------------------------------------------------------------------------
(* Links the user asked for.                                               *)

ResolveEntity(ref) ==
    LET byId == {e \in AllEntities : e.id = ref.id}
        named == {e \in AllEntities : ref.name \in {BareName(e), QualifiedName(e)}}
    IN IF byId # {} THEN byId ELSE named

EndsWith(text, tail) == Len(tail) <= Len(text) /\ OccursAt(text, tail, Len(text) - Len(tail) + 1)

\* Attachments are named by their id only.
ResolveDocument(ref) ==
    LET byId == {d \in AllDocuments : d = ref.id}
        atPath == {d \in AllDocuments : d.part = 1 /\ EndsWith(PathOf[d.file], ref.path)}
    IN IF byId # {} THEN byId ELSE atPath

\* The rows of one intent: one per entity of the qualified name; a section
\* that is not there any more falls back to the document.
RowsOfIntent(m) ==
    IF m.document \notin AllDocuments THEN {}
    ELSE LET chunk == IF m.ordinal \in DOMAIN UnitsOf(m.document) THEN m.ordinal ELSE WholeDocument
         IN {[entity |-> e.id, document |-> m.document, chunk |-> chunk,
              type |-> "documented_by", resolver |-> User] :
                e \in {e \in AllEntities : QualifiedName(e) = m.entity}}

Materialized == UNION {RowsOfIntent(m) : m \in intents}
UserRows == {l \in links : l.resolver = User}

-----------------------------------------------------------------------------
(* Publications and passes.                                                *)

StartSource ==
    /\ build = 0
    /\ fileContents' = FirstContents /\ build' = 1 /\ hosted' \in BOOLEAN
    /\ UNCHANGED <<links, graph, graphShown, intents, command, sound, loss, shared, edits, asked>>

\* A publication of one changed file: in place the links stay as they are,
\* a new build takes over those whose entity and document it holds.
PublishFile ==
    /\ build > 0 /\ edits < MaxEdits
    /\ \E f \in LinkFiles, inPlace \in BOOLEAN : \E content \in LinkContents[f] \cup {Missing} :
        /\ fileContents' = [fileContents EXCEPT ![f] = content]
        /\ build' = IF inPlace THEN build ELSE build + 1
        /\ links' = IF inPlace THEN links ELSE {l \in links : ~Dangling(l)'}
        /\ loss' = IF graph = NeverLinked THEN loss
                   ELSE CASE loss = "dropped" /\ fileContents[f] # content /\ graph.files[f] = content -> "returned"
                          [] loss = "none" /\ links' # links -> "dropped"
                          [] OTHER -> loss
    /\ graphShown' = FALSE /\ edits' = edits + 1
    /\ sound' = (sound /\ command = NoCommand)
    /\ UNCHANGED <<graph, intents, command, hosted, shared, asked>>

\* What the pass reads: the files, and the intents, of which the digest is made.
Digest == [kind |-> "ready", files |-> fileContents, intents |-> intents]

\* Nothing changed but the generation: the rows are confirmed as they are.
Rebind ==
    /\ build > 0 /\ ~graphShown /\ graph = Digest
    /\ graphShown' = TRUE
    /\ UNCHANGED <<fileContents, build, links, graph, intents, command, sound, loss, hosted, shared, edits, asked>>

Full == graph = NeverLinked
Touched == IF Full THEN LinkFiles ELSE {f \in LinkFiles : fileContents[f] # graph.files[f] /\ fileContents[f] # Missing}

\* The pass, in one transaction: clear, link, and write the intents again.
LinkPass ==
    /\ build > 0 /\ graph # Digest
    /\ LET kept == IF Full THEN {} ELSE links \ ClearedBy(Touched)
           automatic == {l \in kept : l.resolver # User} \cup LinkTouchedFiles(Touched)
       IN links' = automatic \cup Materialized
    /\ graph' = Digest /\ graphShown' = TRUE
    /\ sound' = (sound \/ command = NoCommand)
    /\ loss' = IF loss = "dropped" THEN "none" ELSE loss
    /\ UNCHANGED <<fileContents, build, intents, command, hosted, shared, edits, asked>>

-----------------------------------------------------------------------------
(* Link commands: each of their statements is a transaction of its own.    *)

\* Both names must resolve to one thing, in one source only.
BeginAdd ==
    /\ command = NoCommand /\ build > 0 /\ ~hosted /\ asked < MaxLinkCommands
    /\ \E ref \in LinkRefs :
        /\ Cardinality(ResolveEntity(ref.entity)) = 1
        /\ Cardinality(ResolveDocument(ref.document)) = 1
        /\ LET e == CHOOSE e \in ResolveEntity(ref.entity) : TRUE
               d == CHOOSE d \in ResolveDocument(ref.document) : TRUE
           IN /\ ref.ordinal = WholeDocument \/ ref.ordinal \in DOMAIN UnitsOf(d)
              /\ command' = [step |-> "add", build |-> build, rows |-> {}, entity |-> e.id,
                             intent |-> [entity |-> QualifiedName(e), document |-> d, ordinal |-> ref.ordinal]]
    /\ asked' = asked + 1
    /\ UNCHANGED <<fileContents, build, links, graph, graphShown, intents, sound, loss, hosted, shared, edits>>

EntityHeld == command.build = build /\ command.entity \in {e.id : e \in AllEntities}

\* The entity is looked up again in the build that was opened; a link that
\* is there already changes nothing.
AddIntent ==
    /\ command.step = "add"
    /\ IF EntityHeld /\ command.intent \notin intents
       THEN /\ intents' = intents \cup {command.intent}
            /\ command' = [command EXCEPT !.step = "clear"]
       ELSE command' = NoCommand /\ UNCHANGED intents
    /\ UNCHANGED <<fileContents, build, links, graph, graphShown, sound, loss, hosted, shared, edits, asked>>

RemoveIntent ==
    /\ command = NoCommand /\ build > 0 /\ ~hosted /\ asked < MaxLinkCommands
    /\ \E m \in intents :
        /\ intents' = intents \ {m}
        /\ command' = [step |-> "clear", build |-> build, rows |-> {}, entity |-> WholeDocument, intent |-> m]
    /\ asked' = asked + 1
    /\ UNCHANGED <<fileContents, build, links, graph, graphShown, sound, loss, hosted, shared, edits>>

ClearUserRows ==
    /\ command.step = "clear"
    /\ links' = IF command.build = build THEN links \ UserRows ELSE links
    /\ command' = [command EXCEPT !.step = "read"]
    /\ sound' = (sound /\ (graph = NeverLinked \/ graph.files = fileContents))
    /\ UNCHANGED <<fileContents, build, graph, graphShown, intents, loss, hosted, shared, edits, asked>>

ReadIntents ==
    /\ command.step = "read"
    /\ command' = [command EXCEPT !.step = "put", !.rows = IF command.build = build THEN Materialized ELSE {}]
    /\ UNCHANGED <<fileContents, build, links, graph, graphShown, intents, sound, loss, hosted, shared, edits, asked>>

PutUserRows ==
    /\ command.step = "put"
    /\ links' = IF command.build = build THEN links \cup command.rows ELSE links
    /\ command' = NoCommand
    /\ UNCHANGED <<fileContents, build, graph, graphShown, intents, sound, loss, hosted, shared, edits, asked>>

\* The process of a command dies.
CommandDies ==
    /\ command # NoCommand
    /\ command' = NoCommand
    /\ sound' = (sound /\ command.step = "add")
    /\ UNCHANGED <<fileContents, build, links, graph, graphShown, intents, loss, hosted, shared, edits, asked>>

-----------------------------------------------------------------------------
(* A source kept on the server: a manual link is one document, created     *)
(* under its natural key and deleted by it; no build holds a copy.         *)

\* Entities are found by their id or their short name.
ServerAdd ==
    /\ hosted /\ build > 0 /\ asked < MaxLinkCommands
    /\ \E ref \in LinkRefs :
        LET byId == {e \in AllEntities : e.id = ref.entity.id}
            named == {e \in AllEntities : BareName(e) = ref.entity.name}
            found == IF byId # {} THEN byId ELSE named
            documents == ResolveDocument(ref.document)
        IN /\ Cardinality(found) = 1 /\ Cardinality(documents) = 1
           /\ \E e \in found, d \in documents :
                /\ ref.ordinal = WholeDocument \/ ref.ordinal \in DOMAIN UnitsOf(d)
                /\ shared' = IF \E m \in shared : m.entity = QualifiedName(e) /\ m.document.file = d.file
                                                    /\ m.chunk = ref.ordinal
                             THEN shared
                             ELSE shared \cup {[entity |-> QualifiedName(e), of |-> e.id, document |-> d,
                                                chunk |-> ref.ordinal]}
    /\ asked' = asked + 1
    /\ UNCHANGED <<fileContents, build, links, graph, graphShown, intents, command, sound, loss, hosted, edits>>

ServerRemove ==
    /\ hosted /\ build > 0 /\ asked < MaxLinkCommands
    /\ \E m \in shared : shared' = shared \ {m}
    /\ asked' = asked + 1
    /\ UNCHANGED <<fileContents, build, links, graph, graphShown, intents, command, sound, loss, hosted, edits>>

LinkingNext ==
    \/ StartSource \/ PublishFile \/ Rebind \/ LinkPass
    \/ BeginAdd \/ AddIntent \/ RemoveIntent \/ ClearUserRows \/ ReadIntents \/ PutUserRows
    \/ CommandDies \/ ServerAdd \/ ServerRemove

-----------------------------------------------------------------------------
(* Properties.                                                             *)

\* What no needle of words can find is left out of the entities loaded for
\* a touched document.
Findable(e, r) ==
    CASE r = "route" -> TRUE
      [] r = "filename" -> \A n \in FileNames[e.file] : WordsIn(n) # {}
      [] OTHER -> Len(BareName(e)) = 1 /\ IsWord(BareName(e)[1])

\* A unit mentions an entity in the way a resolver looks for.
Mentions(e, r, text) ==
    CASE r = "exact" -> BareName(e) \notin GenericNames /\ ContainsIdentifier(text, BareName(e))
      [] r = "qualified" -> Len(e.segments) > 1 /\ ContainsIdentifier(text, QualifiedName(e))
      [] r = "alias" -> Len(e.segments) > 2 /\ ContainsIdentifier(text, AliasOf(e))
      [] r = "filename" -> e.namespace /\ \E n \in FileNames[e.file] : ContainsIdentifier(text, n)
      [] r = "route" -> \E i \in RoutesOf(e) : MentionsRoute(text, RoutePath(e, i))

LinkRowsOf(e, d, r) == {l \in links : l.entity = e.id /\ l.document = d /\ l.resolver = r}
ChunksIn(rows) == {l.chunk : l \in rows}

\* A graph that is shown links every entity with every document that
\* mentions it, up to the limit and first chunks first, and with nothing
\* else, however the changes came about that it was brought up to date with.
AutomaticRight ==
    graphShown /\ loss # "returned" =>
        /\ \A l \in links : ~Dangling(l) \/ l.resolver = User
        /\ \A e \in AllEntities, d \in AllDocuments, r \in DOMAIN LinkTypeOf :
            LET rows == ChunksIn(LinkRowsOf(e, d, r))
                mentioned == {p \in DOMAIN UnitsOf(d) : Mentions(e, r, UnitsOf(d)[p])}
            IN /\ rows \subseteq mentioned
               /\ Findable(e, r) =>
                    \/ rows = mentioned /\ Cardinality(rows) <= MaxLinks
                    \/ Cardinality(rows) = MaxLinks
               /\ r # "route" => \A p \in rows, q \in mentioned \ rows : p < q

\* A row links an entity as an intent says: to its section if it is there,
\* else to the document.
StandsFor(l, m, e) ==
    /\ l.entity = e.id /\ m.entity = QualifiedName(e) /\ l.document = m.document
    /\ l.chunk = IF m.ordinal \in DOMAIN UnitsOf(m.document) THEN m.ordinal ELSE WholeDocument

\* Once no command is under way the links of the user are what the intents
\* say, unless a command died or files changed under it.
UserLinksRight ==
    graphShown /\ command = NoCommand /\ sound /\ loss # "returned" =>
        /\ \A l \in UserRows : ~Dangling(l) /\ \E m \in intents, e \in AllEntities : StandsFor(l, m, e)
        /\ \A m \in intents, e \in AllEntities :
            m.document \in AllDocuments /\ m.entity = QualifiedName(e) =>
                \E l \in UserRows : StandsFor(l, m, e)

\* The links a reader is shown (linker.rs "incremental passes equal a full
\* build", manual.rs "survive every rebuild").
LinkingRight == AutomaticRight /\ UserLinksRight

LinkingSpec == LinkingInit /\ [][LinkingNext]_linkVars
===============================================================================
