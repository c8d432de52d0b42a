---------------------------- MODULE Dependencies ----------------------------
(***************************************************************************)
(* The third stage of a run (docmonk-service/src/dependencies.rs).  What a *)
(* consumer source names and does not define is looked up in its producers *)
(* (those its project files reference and those the configuration lists),  *)
(* and the outcome is kept in its manifest, with a fingerprint of every    *)
(* lookup, so that a producer that publishes again makes only the changed  *)
(* lookups happen again.  The stage holds the run lock of the consumer and *)
(* none of its producers, which may publish at any time.                   *)
(*                                                                         *)
(* In server mode the stores are caches of this host and a second copy of  *)
(* the manifest is kept in the source-state document.  What a source holds *)
(* is the entities of each qualified name it defines and the names it      *)
(* refers to; a relationship is its name, a fingerprint the entities found.*)
(***************************************************************************)
EXTENDS Naturals, FiniteSets

CONSTANTS
    Repos,          \* the registered sources
    QualNames,      \* qualified names
    Offers,         \* of a source: the set of what it may hold
    FirstOffers,    \* what it holds at first
    FirstProjects,  \* of a source: what its project files reference at first
    LaterProjects,  \* and what they may reference
    DeclaredSets,   \* what indexing.relationship_dependencies may list
    MaxEvents,      \* bound: publications, edits, crashes, failing calls
    MaxStages       \* bound: runs of the stage

VARIABLES
    declared,       \* indexing.relationship_dependencies
    projects,       \* what the project files on disk reference
    allowed,        \* the enabled sources
    bases,          \* the published build of each source: id, generation, content
    derived,        \* its relationship graph: generation, base, unresolved names
    book,           \* its manifest in the store
    copy,           \* its manifest on the server
    onServer,       \* whether the sources are kept on a server
    run,            \* the run of the stage under way
    told,           \* what the stage last said of a consumer that is as it was then
    events, stages,
    misread,        \* history: a lookup of the manifest failed and counted as empty
    renumbered      \* history: the graph is numbered anew since the store was lost

dependencyVars ==
    <<declared, projects, allowed, bases, derived, book, copy, onServer, run,
      told, events, stages, misread, renumbered>>

NoBase == [build |-> 0, gen |-> 0, offer |-> [defs |-> [n \in QualNames |-> {}], refs |-> {}]]
NoDerived == [gen |-> 0, of |-> 0, from |-> NoBase.offer]
NoBook == [state |-> "none", graph |-> 0, from |-> << >>, lookups |-> << >>, bound |-> << >>,
           unsupported |-> {}]
Resting == [at |-> "idle", consumer |-> "none"]
Unsaid == [is |-> "none", of |-> << >>]
Elsewhere == {"outside", "package"}      \* references that lead to no registered source

\* The names a source refers to and no entity of its own has.
Unresolved(offer) == {n \in offer.refs : offer.defs[n] = {}}

DependencyInit ==
    /\ declared \in DeclaredSets /\ projects = FirstProjects /\ allowed = Repos
    /\ onServer \in BOOLEAN
    /\ bases = [s \in Repos |-> [build |-> 1, gen |-> 1, offer |-> FirstOffers[s]]]
    /\ derived = [s \in Repos |-> [gen |-> 1, of |-> 1, from |-> FirstOffers[s]]]
    /\ book = [s \in Repos |-> NoBook] /\ copy = book
    /\ run = Resting /\ told = [s \in Repos |-> Unsaid] /\ events = 0 /\ stages = 0
    /\ misread = {} /\ renumbered = {}

-----------------------------------------------------------------------------
(* The sources and what happens to them.                                    *)

HasView(s) == bases[s].gen # 0

\* The graph of the source is ready for its base: neither hidden nor stale.
GraphFresh(s) == derived[s].of # 0 /\ derived[s].of = bases[s].gen

\* The stage holds only the lock of the consumer it is at.
Unlocked(s) == run.consumer # s

Event == events < MaxEvents /\ events' = events + 1

Forgotten(s) == told' = [told EXCEPT ![s] = Unsaid]

RepublishBase(s, offer, full) ==
    /\ Unlocked(s) /\ Event
    /\ full \/ HasView(s)
    /\ bases' = [bases EXCEPT ![s] =
                  [build |-> IF full THEN events + 2 ELSE bases[s].build, gen |-> events + 2,
                   offer |-> offer]]
    /\ Forgotten(s)
    /\ UNCHANGED <<declared, projects, allowed, derived, book, copy, onServer, run, stages,
                   misread, renumbered>>

\* A graph of the same content is bound to the new base, another is derived.
DeriveRelations(s) ==
    /\ Unlocked(s) /\ HasView(s) /\ ~GraphFresh(s)
    /\ derived' = [derived EXCEPT ![s] =
                     [gen |-> IF @.gen # 0 /\ @.from = bases[s].offer THEN @.gen ELSE @.gen + 1,
                      of |-> bases[s].gen, from |-> bases[s].offer]]
    /\ Forgotten(s)
    /\ UNCHANGED <<declared, projects, allowed, bases, book, copy, onServer, run, events, stages,
                   misread, renumbered>>

EditProjects(s) ==
    /\ \E refs \in LaterProjects[s] \ {projects[s]} : projects' = [projects EXCEPT ![s] = refs]
    /\ Event
    /\ UNCHANGED <<declared, allowed, bases, derived, book, copy, onServer, run, told,
                   stages, misread, renumbered>>

Declare ==
    /\ \E d \in DeclaredSets \ {declared} : declared' = d
    /\ Event
    /\ UNCHANGED <<projects, allowed, bases, derived, book, copy, onServer, run, told,
                   stages, misread, renumbered>>

SetAllowed(s) ==
    /\ allowed' = IF s \in allowed THEN allowed \ {s} ELSE allowed \cup {s}
    /\ Event
    /\ UNCHANGED <<declared, projects, bases, derived, book, copy, onServer, run, told,
                   stages, misread, renumbered>>

\* The staging cache of a source is deleted, or another host publishes it.
LoseStore(s) ==
    /\ onServer /\ run = Resting /\ Event
    /\ bases' = [bases EXCEPT ![s] = NoBase]
    /\ derived' = [derived EXCEPT ![s] = NoDerived]
    /\ book' = [book EXCEPT ![s] = NoBook]
    /\ renumbered' = renumbered \cup {s} /\ Forgotten(s)
    /\ UNCHANGED <<declared, projects, allowed, copy, onServer, run, stages, misread>>

-----------------------------------------------------------------------------
(* The stage.                                                               *)

Edges ==
    {d \in declared : d.consumer \in Repos /\ d.producer \in Repos /\ d.consumer # d.producer}
    \cup {d \in [consumer : {s \in Repos : HasView(s)}, producer : Repos, via : {"project"}] :
             d.consumer # d.producer /\ d.producer \in projects[d.consumer]}

\* The manifest keeps one reason per producer: a project file's.
ProducersOf(edges, c) ==
    [p \in {d.producer : d \in {d \in edges : d.consumer = c}} |->
        IF \E d \in edges : d.consumer = c /\ d.producer = p /\ d.via = "project"
        THEN "project" ELSE "declared"]

WorldUnchanged == UNCHANGED <<declared, projects, allowed, bases, derived, onServer, renumbered>>
OnlyStage == WorldUnchanged /\ UNCHANGED <<book, copy, stages, misread>>

\* On to the next consumer, after what the stage says of c; the edges stay
\* those of the start.
StepTo(next) == run' = next /\ UNCHANGED told
LeaveAs(c, outcome) ==
    /\ run' = [at |-> "visit", consumer |-> "none", edges |-> run.edges, todo |-> run.todo \ {c},
                 unsupported |-> run.unsupported]
    /\ told' = [told EXCEPT ![c] =
                  [is |-> outcome,
                   of |-> IF outcome \in {"stale", "pending"} THEN << >>
                          ELSE [p \in DOMAIN run.opened |-> run.opened[p].base.offer.defs]]]

BeginStage ==
    /\ run = Resting /\ stages < MaxStages /\ stages' = stages + 1
    /\ StepTo([at |-> "visit", consumer |-> "none",
               edges |-> Edges, todo |-> {d.consumer : d \in Edges},
               unsupported |->
                   [s \in Repos |-> IF HasView(s) THEN projects[s] \cap Elsewhere ELSE {}]])
    /\ UNCHANGED <<book, copy, events, misread>> /\ WorldUnchanged

EndStage ==
    /\ run.at = "visit" /\ run.todo = {} /\ StepTo(Resting)
    /\ OnlyStage /\ UNCHANGED events

DepStageDies ==
    /\ run # Resting /\ Event /\ StepTo(Resting)
    /\ OnlyStage

\* At consumer c with what the stage holds of it: its manifest, the producers
\* as they were opened, what is left to look up and what was found.
AtStep(step, c, m) ==
    [at |-> step, consumer |-> c, edges |-> run.edges, todo |-> run.todo,
     unsupported |-> run.unsupported,
     manifest |-> m, next |-> "leave", outcome |-> "stale", opened |-> << >>, full |-> FALSE, left |-> {},
     changed |-> {}, found |-> << >>]

Visit(next) == run' = next /\ Forgotten(next.consumer)
Visiting(c) == run.at = "visit" /\ run.todo # {} /\ c = CHOOSE d \in run.todo : TRUE

ConsumerBusy(c) ==
    /\ Visiting(c) /\ Event /\ LeaveAs(c, "stale")
    /\ OnlyStage

ConsumerAway(c) ==
    /\ Visiting(c) /\ (c \notin allowed \/ ~HasView(c)) /\ LeaveAs(c, "pending")
    /\ OnlyStage /\ UNCHANGED events

\* The manifest the update starts from: a lost store falls back on the server.
HeldManifest(c) == IF book[c] = NoBook /\ onServer THEN copy[c] ELSE book[c]
ManifestOf(c) == [HeldManifest(c) EXCEPT !.unsupported = run.unsupported[c]]

AsStale(m) == [m EXCEPT !.state = "stale"]
Unavailable == {p \in Repos : p \notin allowed \/ ~HasView(p)}

\* The graph of the consumer is not current, or a producer cannot be read.
MarkStale(c) ==
    /\ Visiting(c) /\ c \notin Unavailable
    /\ LET m == ManifestOf(c)
       IN \/ /\ ~GraphFresh(c)
             /\ IF m.state = "stale" THEN LeaveAs(c, "stale") ELSE Visit(AtStep("store", c, AsStale(m)))
          \/ /\ GraphFresh(c) /\ DOMAIN ProducersOf(run.edges, c) \cap Unavailable # {}
             /\ Visit(AtStep("store", c, AsStale(m)))
    /\ OnlyStage /\ UNCHANGED events

\* The producers are opened; a manifest made of another graph or of other
\* producers is made anew, any other is compared where a producer moved.
OpenConsumer(c) ==
    /\ Visiting(c) /\ c \notin Unavailable /\ GraphFresh(c)
    /\ LET m == ManifestOf(c)
           via == ProducersOf(run.edges, c)
           opened == [p \in DOMAIN via |-> [base |-> bases[p], via |-> via[p]]]
           same == DOMAIN m.from = DOMAIN opened /\ \A p \in DOMAIN opened : m.from[p].via = via[p]
           full == m.state # "current" \/ m.graph # derived[c].gen \/ ~same
           moved == {p \in DOMAIN m.lookups : m.from[p].gen # opened[p].base.gen}
           before == IF full THEN {} ELSE UNION {{p} \X DOMAIN m.lookups[p] : p \in moved}
       IN /\ DOMAIN via \cap Unavailable = {}
          /\ Visit([AtStep(IF full THEN "dirty" ELSE "compare", c, m) EXCEPT
                      !.opened = opened, !.full = full, !.left = before])
    /\ OnlyStage /\ UNCHANGED events

\* What a lookup in an opened build can return: the rows as they are now, or
\* those of a superseded build, or none once it is collected.
RowsOf(p, n) ==
    IF run.opened[p].base.build = bases[p].build THEN {bases[p].offer.defs[n]}
    ELSE {run.opened[p].base.offer.defs[n], {}}

\* The lookups are made one by one, in an order of their own.
LookupDue(p, n) == run.left # {} /\ <<p, n>> = CHOOSE x \in run.left : TRUE

Compare(p, n) ==
    /\ run.at = "compare" /\ LookupDue(p, n)
    /\ \E rows \in RowsOf(p, n) :
          StepTo([run EXCEPT !.left = @ \ {<<p, n>>},
                               !.changed = IF rows = run.manifest.lookups[p][n] THEN @ ELSE @ \cup {n}])
    /\ OnlyStage /\ UNCHANGED events

\* Taken when the outcome is recorded, not when the producer was opened.
SnapshotsNow == [p \in DOMAIN run.opened |-> [gen |-> bases[p].gen, via |-> run.opened[p].via]]

Snapshots == [p \in DOMAIN run.opened |-> [gen |-> run.opened[p].base.gen, via |-> run.opened[p].via]]

\* Nothing the consumer looked up changed: only the store learns the bases.
Untouched ==
    /\ run.at = "compare" /\ run.left = {} /\ run.changed = {}
    /\ book' = [book EXCEPT ![run.consumer] =
                  IF Snapshots = run.manifest.from THEN @ ELSE [run.manifest EXCEPT !.from = Snapshots]]
    /\ LeaveAs(run.consumer, "current")
    /\ UNCHANGED <<copy, events, stages, misread>> /\ WorldUnchanged

\* Stale before anything is looked up.
Dirty ==
    /\ run.at = "dirty" \/ (run.at = "compare" /\ run.left = {} /\ run.changed # {})
    /\ StepTo([run EXCEPT !.at = "store", !.manifest = AsStale(@), !.next = "lookup"])
    /\ OnlyStage /\ UNCHANGED events

\* The lookups to make: of every unresolved name, or of those that changed.
Asked == {n \in Unresolved(derived[run.consumer].from) : run.full \/ n \in run.changed}

\* persist: the store first, then the server.
Persisted ==
    IF run.next = "lookup"
    THEN StepTo([run EXCEPT !.at = "lookup", !.left = (DOMAIN run.opened) \X Asked,
                              !.found = IF run.full THEN << >> ELSE run.manifest.lookups])
    ELSE LeaveAs(run.consumer, run.outcome)

\* All is looked up again, once no copy of the old manifest is current.
Reread == IF run.next = "lookup" /\ run.full THEN misread \ {run.consumer} ELSE misread

Store ==
    /\ run.at = "store"
    /\ book' = [book EXCEPT ![run.consumer] = run.manifest]
    /\ IF onServer THEN StepTo([run EXCEPT !.at = "copy"]) ELSE Persisted
    /\ misread' = IF onServer THEN misread ELSE Reread
    /\ UNCHANGED <<copy, events, stages>> /\ WorldUnchanged

CopyToServer ==
    /\ run.at = "copy"
    /\ copy' = [copy EXCEPT ![run.consumer] = run.manifest]
    /\ Persisted /\ misread' = Reread
    /\ UNCHANGED <<book, events, stages>> /\ WorldUnchanged

\* The lease is held elsewhere or the server does not answer: the consumer is
\* left with what was written.
CopyFails ==
    /\ run.at = "copy" /\ Event /\ LeaveAs(run.consumer, "stale")
    /\ OnlyStage

\* A fingerprint recorded under a producer and a name.
Put(f, p, n, rows) ==
    LET of == IF p \in DOMAIN f THEN f[p] ELSE << >>
    IN [q \in DOMAIN f \cup {p} |->
          IF q # p THEN f[q] ELSE [k \in DOMAIN of \cup {n} |-> IF k = n THEN rows ELSE of[k]]]

LookUp(p, n) ==
    /\ run.at = "lookup" /\ LookupDue(p, n)
    /\ \E rows \in RowsOf(p, n) :
          StepTo([run EXCEPT !.left = @ \ {<<p, n>>}, !.found = Put(@, p, n, rows)])
    /\ OnlyStage /\ UNCHANGED events

\* A lookup that fails counts as one that finds nothing.
LookUpFails(p, n) ==
    /\ run.at = "lookup" /\ LookupDue(p, n) /\ Event
    /\ StepTo([run EXCEPT !.left = @ \ {<<p, n>>}, !.found = Put(@, p, n, {})])
    /\ misread' = misread \cup {run.consumer}
    /\ UNCHANGED <<book, copy, stages>> /\ WorldUnchanged

\* What a name is bound to: its candidate in the producers, if it has just one.
Candidates(found, n) ==
    UNION {{p} \X found[p][n] : p \in {p \in DOMAIN found : n \in DOMAIN found[p]}}
Binding(found, n) ==
    LET all == Candidates(found, n)
    IN [target |-> IF Cardinality(all) = 1 THEN all ELSE {}, ambiguous |-> Cardinality(all) > 1]

\* The names not looked up again keep their bindings.
Bindings ==
    LET kept == IF run.full THEN {} ELSE DOMAIN run.manifest.bound \ run.changed
        held == {n \in Asked : Candidates(run.found, n) # {}}
    IN [n \in kept \cup held |-> IF n \in held THEN Binding(run.found, n) ELSE run.manifest.bound[n]]

\* The fence: a producer that moved leaves the manifest stale.
PromoteManifest ==
    /\ run.at = "lookup" /\ run.left = {}
    /\ IF \A p \in DOMAIN run.opened : bases[p].gen = run.opened[p].base.gen
       THEN StepTo([run EXCEPT
                      !.at = "store", !.next = "leave", !.outcome = "updated",
                      !.manifest = [state |-> "current", graph |-> derived[run.consumer].gen, from |-> Snapshots,
                                    lookups |-> run.found, bound |-> Bindings, unsupported |-> @.unsupported]])
       ELSE StepTo([run EXCEPT !.at = "store", !.next = "leave"])
    /\ OnlyStage /\ UNCHANGED events

DependencyNext ==
    \/ \E s \in Repos :
          \/ \E offer \in Offers[s], full \in BOOLEAN : RepublishBase(s, offer, full)
          \/ DeriveRelations(s) \/ EditProjects(s) \/ SetAllowed(s) \/ LoseStore(s)
          \/ ConsumerBusy(s) \/ ConsumerAway(s) \/ MarkStale(s) \/ OpenConsumer(s)
          \/ \E n \in QualNames : Compare(s, n) \/ LookUp(s, n) \/ LookUpFails(s, n)
    \/ Declare \/ BeginStage \/ EndStage \/ DepStageDies
    \/ Untouched \/ Dirty \/ Store \/ CopyToServer \/ CopyFails \/ PromoteManifest

-----------------------------------------------------------------------------
(* Properties.                                                              *)

\* What a current manifest of c says, in one of its copies.
Says(c, m) ==
    m.state = "current" /\ c \notin misread /\ m.graph = derived[c].gen =>
        LET asked == Unresolved(derived[c].from)
        IN /\ \A p \in DOMAIN m.from : m.from[p].gen = bases[p].gen =>
                 \A n \in asked : m.lookups[p][n] = bases[p].offer.defs[n]
           /\ DOMAIN m.lookups \subseteq DOMAIN m.from
           /\ \A n \in asked \cup DOMAIN m.bound :
                 LET all == Candidates(m.lookups, n)
                 IN IF n \notin DOMAIN m.bound THEN all = {}
                    ELSE IF m.bound[n].ambiguous THEN m.bound[n].target = {} /\ Cardinality(all) > 1
                    ELSE m.bound[n].target = all /\ Cardinality(all) = 1

(* A manifest that is current for the graph of its consumer, in the store    *)
(* and on the server, tells the candidates of every unresolved name in every *)
(* producer that has not published since, binds what has exactly one and     *)
(* guesses nothing, whatever was published, lost, refused or interrupted     *)
(* while the stage ran.  A consumer the stage called current or updated has  *)
(* such a manifest, of the producers the stage knew, while it is as it was,  *)
(* and an update saw each producer at one base.  Left out is a manifest      *)
(* whose lookups failed, and one that outlived the store its graph was       *)
(* numbered in.                                                             *)
BindingsTrue ==
    \A c \in Repos :
        /\ c \notin renumbered => Says(c, book[c]) /\ Says(c, copy[c])
        /\ told[c].is \in {"current", "updated"} =>
              /\ GraphFresh(c) /\ HeldManifest(c).state = "current" /\ HeldManifest(c).graph = derived[c].gen
              /\ DOMAIN HeldManifest(c).from = DOMAIN told[c].of
        /\ told[c].is = "updated" /\ c \notin misread =>
              \A p \in DOMAIN told[c].of, n \in Unresolved(derived[c].from) :
                 HeldManifest(c).lookups[p][n] = told[c].of[p][n]
=============================================================================
