------------------------------ MODULE Scanning ------------------------------
(***************************************************************************)
(* What a pass finds on disk and what it makes of it: the walk of a root   *)
(* and the scan of named paths (docmonk-indexing/src/scan.rs), the ignore  *)
(* rules (ignore.rs), the classification by extension (classify.rs) and    *)
(* the differences to the rows of the last build, moves included (diff.rs).*)
(*                                                                         *)
(* A path is a sequence of names below the root.  Glob matching is data: a *)
(* pattern is the set of paths it matches.  A hash stands for the content; *)
(* that a matching stat proves it is LocalBuild's subject.                 *)
(***************************************************************************)
EXTENDS Naturals, Sequences, FiniteSets

CONSTANTS
    Trees,          \* trees: path -> entry (file, dir or link)
    FirstTrees,     \* those the rows may come from
    RuleSets,       \* [patterns, includes] of a source and its root
    ExcludedNames,  \* DEFAULT_EXCLUDE_DIRS
    SecretNames,    \* names of secret files
    CodeNames       \* names with an extension of code

Outside == "outside"

\* Every entry but the root is in a directory; nothing below the root is
\* called what stands for a place outside of it.
ScanAssumption ==
    \A t \in Trees \cup FirstTrees : \A p \in DOMAIN t :
        /\ p \in Seq(STRING) /\ p # <<>> /\ p[1] # Outside
        /\ t[p].is \in {"file", "dir", "link"}
        /\ t[p].is = "link" => t[p].to \in Seq(STRING)
        /\ \A i \in 1 .. Len(p) - 1 : /\ SubSeq(p, 1, i) \in DOMAIN t
                                     /\ t[SubSeq(p, 1, i)].is = "dir"

ASSUME ScanAssumption

VARIABLES
    scanStep,       \* "pick", "targets", "walk", "moves", "apply", "done"
    tree,           \* what is on disk
    rules,
    follow,         \* indexing.follow_symlinks
    named,          \* paths a watcher reported; {<<>>} in a full pass
    full,
    toName,         \* named paths still to look at
    stack,          \* directories still to list
    seenDirs, seenPaths,
    found,          \* ScanOutcome.files
    scanErrors,     \* ScanOutcome.errors is not empty
    missing,        \* named paths that do not exist
    walked,         \* named directories
    fileRows,       \* the build: path -> [hash, kind]
    toMatch,        \* new files still to compare with vanished rows
    moves           \* new path -> the path its row came from

scanVars == <<scanStep, tree, rules, follow, named, full, toName, stack,
              seenDirs, seenPaths, found, scanErrors, missing, walked, fileRows,
              toMatch, moves>>

Root == <<>>
EmptyTree == [p \in {} |-> 0]

ScanInit ==
    /\ scanStep = "pick"
    /\ tree = EmptyTree /\ rules = [patterns |-> {}, includes |-> {}]
    /\ follow = FALSE /\ named = {} /\ full = FALSE /\ toName = {}
    /\ stack = {} /\ seenDirs = {} /\ seenPaths = {}
    /\ found = {} /\ scanErrors = FALSE /\ missing = {} /\ walked = {}
    /\ fileRows = EmptyTree /\ toMatch = {} /\ moves = EmptyTree

-----------------------------------------------------------------------------
(* Paths and rules.                                                        *)

Below(p, d) == Len(d) < Len(p) /\ SubSeq(p, 1, Len(d)) = d
Parent(p) == SubSeq(p, 1, Len(p) - 1)
NameOf(p) == p[Len(p)]

IsA(p, is) == IF p = Root THEN is = "dir" ELSE p \in DOMAIN tree /\ tree[p].is = is

\* paths::resolve: the links in a path are replaced (here at most one); what
\* does not exist stays as it is.
LinkIn(p) == {q \in DOMAIN tree : tree[q].is = "link" /\ (q = p \/ Below(p, q))}
Resolved(p) ==
    IF LinkIn(p) = {} THEN p
    ELSE LET q == CHOOSE q \in LinkIn(p) : TRUE
         IN  tree[q].to \o SubSeq(p, Len(q) + 1, Len(p))

\* PathGuard: a link may lead out of the root.
Inside(p) == p = Root \/ p[1] # Outside

PatternHits(patterns, p, isDir) ==
    \E pattern \in patterns : (pattern.dirOnly => isDir) /\ p \in pattern.hits

IsIgnored(p, isDir) ==
    \/ isDir /\ NameOf(p) \in ExcludedNames
    \/ \E i \in 1 .. Len(p) - 1 : p[i] \in ExcludedNames
    \/ ~isDir /\ NameOf(p) \in SecretNames
    \/ /\ PatternHits(rules.patterns, p, isDir)
       /\ rules.includes = {} \/ ~PatternHits(rules.includes, p, isDir)

Kind(p) == IF NameOf(p) \in CodeNames THEN "code" ELSE "document"

-----------------------------------------------------------------------------
(* Reference: the files the rules let in, and the rows they should have.   *)

Admitted ==
    {p \in DOMAIN tree :
        /\ tree[p].is = "file" /\ ~IsIgnored(p, FALSE)
        /\ \A i \in 1 .. Len(p) - 1 : ~IsIgnored(SubSeq(p, 1, i), TRUE)}

RowOf(t, p) == [hash |-> t[p].hash, kind |-> Kind(p)]

-----------------------------------------------------------------------------
(* One pass.  The rows are those of a tree the pass before saw whole; the   *)
(* watcher named what changed since, or a directory it is in.              *)

ChangedSince(old, t) ==
    {p \in DOMAIN old \cup DOMAIN t :
        ~(p \in DOMAIN old /\ p \in DOMAIN t /\ old[p] = t[p])}

\* What a watcher may name: each path, or a directory that came or went for
\* all that is in it.
Topmost(S) == {p \in S : \A d \in S : ~Below(p, d)}
Names(S) == {{Root}, S, Topmost(S)} \ {{}}

Pick(old, t, r, links, paths) ==
    /\ rules' = r /\ follow' = links /\ named' = paths
    /\ full' = (paths = {Root})
    /\ fileRows' = old
    /\ scanStep' = "rows" /\ tree' = t
    /\ UNCHANGED <<toName, stack, seenDirs, seenPaths, found, scanErrors,
                   missing, walked, toMatch, moves>>

\* `fileRows` holds the old tree: its admitted files had rows.
FirstRows ==
    /\ scanStep = "rows"
    /\ LET old == fileRows
           in  == {p \in DOMAIN old :
                      /\ old[p].is = "file" /\ ~IsIgnored(p, FALSE)
                      /\ \A i \in 1 .. Len(p) - 1 : ~IsIgnored(SubSeq(p, 1, i), TRUE)}
       IN  fileRows' = [p \in in |-> RowOf(old, p)]
    /\ IF full
       THEN scanStep' = "walk" /\ stack' = {Root} /\ seenDirs' = {Root} /\ UNCHANGED toName
       ELSE scanStep' = "targets" /\ toName' = named /\ UNCHANGED <<stack, seenDirs>>
    /\ UNCHANGED <<tree, rules, follow, named, full, seenPaths, found,
                   scanErrors, missing, walked, toMatch, moves>>

Entries(d) == {p \in DOMAIN tree : Len(p) = Len(d) + 1 /\ Below(p, d)}

\* Mutant: a link's target is taken as the link's own path.
CandidatesByLink(d) ==
    {p \in Entries(d) :
        /\ ~IsIgnored(p, IsA(Resolved(p), "dir"))
        /\ Inside(Resolved(p))}

\* walk: a listed entry that is neither a link, unless followed, nor ignored,
\* nor outside.
Candidates(d) ==
    {p \in Entries(d) :
        /\ tree[p].is = "link" => follow
        /\ ~IsIgnored(p, IsA(Resolved(p), "dir"))
        /\ Inside(Resolved(p))}

Unlistable(d) == d # Root /\ ~tree[d].listed
Stated(p) == p \in DOMAIN tree /\ tree[p].is = "file" /\ tree[p].stated

Fail(d) ==
    /\ scanErrors' = TRUE /\ stack' = stack \ {d}
    /\ UNCHANGED <<seenDirs, seenPaths, found>>

List(d) ==
    LET reached == {Resolved(p) : p \in Candidates(d)}
        dirs    == {p \in reached : IsA(p, "dir")} \ seenDirs
        files   == {p \in reached : ~IsA(p, "dir")} \ seenPaths
    IN
    /\ stack' = (stack \ {d}) \cup dirs
    /\ seenDirs' = seenDirs \cup dirs
    /\ seenPaths' = seenPaths \cup files
    /\ found' = found \cup {p \in files : Stated(p)}
    /\ scanErrors' = (scanErrors \/ \E p \in files : ~Stated(p))

Walk ==
    /\ scanStep \in {"walk", "targets"}
    /\ \E d \in stack : IF Unlistable(d) THEN Fail(d) ELSE List(d)
    /\ UNCHANGED <<scanStep, tree, rules, follow, named, full, toName, missing,
                   walked, fileRows, toMatch, moves>>

\* scan_targets: one named path.  A directory is walked before the next one.
Target(c) ==
    LET p == Resolved(c)
        skip == (c \in DOMAIN tree /\ tree[c].is = "link" /\ ~follow)
                \/ ~Inside(p) \/ p \in seenPaths
        dir == IsA(p, "dir")
    IN
    /\ scanStep = "targets" /\ stack = {} /\ c \in toName
    /\ toName' = toName \ {c}
    /\ seenPaths' = IF skip THEN seenPaths ELSE seenPaths \cup {p}
    /\ missing' = IF ~skip /\ ~dir /\ ~Stated(p) THEN missing \cup {p} ELSE missing
    /\ IF ~skip /\ dir /\ (p = Root \/ ~IsIgnored(p, TRUE))
       THEN walked' = walked \cup {p} /\ stack' = {p} /\ seenDirs' = {p}
       ELSE UNCHANGED <<walked, stack, seenDirs>>
    /\ found' = IF ~skip /\ Stated(p) /\ ~IsIgnored(p, FALSE)
                THEN found \cup {p} ELSE found
    /\ UNCHANGED <<scanStep, tree, rules, follow, named, full, scanErrors, fileRows,
                   toMatch, moves>>

\* Mutant: a vanished directory is taken for a file.
BaseOfFiles ==
    IF full THEN DOMAIN fileRows
    ELSE {p \in DOMAIN fileRows :
             \/ p \in found \cup missing
             \/ \E d \in walked : Below(p, d)}

\* run_source_with: a pass over named paths leaves other rows alone.  What
\* vanished may have been a directory.
Base ==
    IF full THEN DOMAIN fileRows
    ELSE {p \in DOMAIN fileRows :
             \/ p \in found \cup missing
             \/ \E d \in missing \cup walked : Below(p, d)}

Scanned ==
    /\ scanStep \in {"walk", "targets"} /\ stack = {} /\ toName = {}
    /\ scanStep' = "moves"
    /\ toMatch' = IF Base \subseteq found THEN {} ELSE found \ Base
    /\ UNCHANGED <<tree, rules, follow, named, full, toName, stack, seenDirs,
                   seenPaths, found, scanErrors, missing, walked, fileRows, moves>>

\* diff: rows that vanished, by hash.  The files come in the order listed.
Vanished(hash) == {p \in Base \ found : fileRows[p].hash = hash}
Consumed == {moves[p] : p \in DOMAIN moves}

\* Mutant: any vanished row with the hash will do, also one taken before.
AnyMove(p) == Vanished(tree[p].hash)

MoveOf(p) ==
    {q \in Vanished(tree[p].hash) \ Consumed :
        Cardinality(Vanished(tree[p].hash)) = 1 /\ fileRows[q].kind = Kind(p)}

Match(p) ==
    /\ scanStep = "moves" /\ p \in toMatch
    /\ toMatch' = toMatch \ {p}
    /\ IF MoveOf(p) = {} THEN UNCHANGED moves
       ELSE \E q \in MoveOf(p) :
                moves' = [x \in DOMAIN moves \cup {p} |-> IF x = p THEN q ELSE moves[x]]
    /\ UNCHANGED <<scanStep, tree, rules, follow, named, full, toName, stack,
                   seenDirs, seenPaths, found, scanErrors, missing, walked, fileRows>>

\* Deletions need a complete scan; what was found is processed or is as it was.
Gone == IF scanErrors THEN Consumed ELSE Base \ found

Apply ==
    /\ scanStep = "moves" /\ toMatch = {}
    /\ scanStep' = "done"
    /\ fileRows' = [p \in (DOMAIN fileRows \ Gone) \cup found |->
                   IF p \in found THEN RowOf(tree, p) ELSE fileRows[p]]
    /\ UNCHANGED <<tree, rules, follow, named, full, toName, stack, seenDirs,
                   seenPaths, found, scanErrors, missing, walked, toMatch, moves>>

ScanNext ==
    \/ /\ scanStep = "pick"
       /\ \E old \in FirstTrees, t \in Trees, r \in RuleSets, links \in BOOLEAN :
              \E paths \in Names(ChangedSince(old, t)) : Pick(old, t, r, links, paths)
    \/ FirstRows \/ Walk \/ Scanned \/ Apply
    \/ \E p \in toName : Target(p)
    \/ \E p \in toMatch : Match(p)

ScanSpec == ScanInit /\ [][ScanNext]_scanVars

-----------------------------------------------------------------------------
(* A pass over the paths a watcher named leaves the rows a full pass would:  *)
(* those of the files the rules admit, with what they hold, where everything *)
(* could be read.  It may keep the row of a path that is another kind of     *)
(* thing now (Replaced).  A row moves from at most one path, which is gone,  *)
(* to one new path.  Left out: a move out of a directory that could not be   *)
(* listed, which takes the row of a file that may still be there, and a      *)
(* named file that cannot be stat'ed, which counts as missing (Readable); a  *)
(* named path below a directory that a pattern ignores, where scan_targets   *)
(* looks at the path only; and what only a followed link reaches.            *)
(* Code: scan.rs:112-306, ignore.rs:92-128, diff.rs:121-273,                 *)
(* coordinator.rs:651-733.                                                   *)
Readable == \A p \in DOMAIN tree : /\ tree[p].is = "dir" => tree[p].listed
                                   /\ tree[p].is = "file" => tree[p].stated
NamedInIgnored ==
    \E c \in named : \E i \in 1 .. Len(Resolved(c)) - 1 :
        IsIgnored(SubSeq(Resolved(c), 1, i), TRUE)

\* A row's file gave way to a directory or a link, or to a link or a file
\* that replaced a directory it was in.
Replaced(p) ==
    \/ IsA(p, "dir") \/ LinkIn(p) # {}
    \/ \E q \in DOMAIN tree : tree[q].is = "file" /\ Below(p, q)

ScanRight ==
    scanStep = "done" =>
        /\ Readable /\ ~NamedInIgnored =>
               /\ ~scanErrors \/ follow
               /\ \A p \in Admitted : p \in DOMAIN fileRows /\ fileRows[p] = RowOf(tree, p)
               /\ ~follow => \A p \in DOMAIN fileRows :
                                 p \in Admitted \/ (~full /\ Replaced(p))
        /\ \A p \in found : IsA(p, "file") /\ p \in DOMAIN fileRows
        /\ \A p, q \in DOMAIN moves : moves[p] = moves[q] => p = q
        /\ \A p \in DOMAIN moves : moves[p] \notin DOMAIN fileRows
=============================================================================
