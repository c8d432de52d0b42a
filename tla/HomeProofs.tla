------------------------------ MODULE HomeProofs ------------------------------
(***************************************************************************)
(* The commands of a home: the daemon that they start and find, what a run  *)
(* reports and a status tells, backup and restore, update and rollback, and *)
(* the notice of a release.  For any processes, sources, releases and       *)
(* limits, whichever calls fail and whoever dies.                           *)
(***************************************************************************)
EXTENDS DaemonLife, Reporting, ServerStatus, Restoring, Installing,
        FiniteSetTheorems, SequenceTheorems, TLAPS

-----------------------------------------------------------------------------
(* The daemon's lifecycle.                                                   *)

LifeTypes ==
    /\ pidFile \in Pids \cup {NoPid} /\ healthFile \in Pids \cup {NoPid}
    /\ proc \in [Pids -> ShellPhases]
    /\ order \in [Shells -> [step : {"idle", "spawn", "record", "await", "wait"}, pid : Pids \cup {NoPid}]]
    /\ crossed \in BOOLEAN /\ late \in BOOLEAN /\ misreport \in BOOLEAN

Upcoming(p) == proc[p] \in {"spawned", "checked"}
Busy(c) == order[c] # NoOrder

\* A process that serves is the recorded one, and while one gets ready, which
\* at most one does, none serves.
ServesRecorded == \A p \in Pids : Serving(p) => pidFile = p
OneUpcoming == \A p, q \in Pids : Upcoming(p) /\ Upcoming(q) => p = q
CheckedAlone == \A p, q \in Pids : proc[p] = "checked" => ~Serving(q)

\* A command is alone, and the only process there may be is the one it is about.
CommandAlone == \A c, d \in Shells : Busy(c) /\ Busy(d) => c = d
CommandsOwn ==
    \A c \in Shells, q \in Pids :
        Busy(c) /\ (Serving(q) \/ Upcoming(q)) =>
            /\ order[c].pid = q
            /\ order[c].step \in {"record", "await"} \/ (order[c].step = "wait" /\ Serving(q))
ChildsHealth ==
    \A c \in Shells : order[c].step \in {"record", "await"} => healthFile \in {NoPid, order[c].pid}

LifeCalm ==
    /\ ServesRecorded /\ OneUpcoming /\ CheckedAlone
    /\ CommandAlone /\ CommandsOwn /\ ChildsHealth /\ ~misreport

LifeInv == LifeTypes /\ (~crossed /\ ~late => LifeCalm)

(* No daemon runs and no command is under way at the start.                  *)
LEMMA LifeStarts == LifeInit => LifeInv
  <1> SUFFICES ASSUME LifeInit PROVE LifeInv
    OBVIOUS
  <1>1. /\ \A c \in Shells : order[c].step = "idle" /\ ~Busy(c)
        /\ \A p \in Pids : ~Serving(p) /\ ~Upcoming(p) /\ proc[p] # "checked"
    BY DEF LifeInit, Busy, Serving, Upcoming, NoOrder
  <1>2. LifeTypes
    BY DEF LifeInit, LifeTypes, NoOrder, NoPid, ShellPhases
  <1>3. ~misreport
    BY DEF LifeInit
  <1> QED BY <1>1, <1>2, <1>3 DEF LifeInv, LifeCalm, ServesRecorded, OneUpcoming, CheckedAlone,
                            CommandAlone, CommandsOwn, ChildsHealth

(* Every step of a command or a process keeps the types.                     *)
LEMMA LifeTyped ==
    ASSUME LifeTypes, LifeNext PROVE LifeTypes'
  <1> USE LifeAssumption DEF LifeTypes, NoOrder, ShellPhases
  <1>1. ASSUME NEW c \in Shells, StartDaemon(c) PROVE LifeTypes'
    BY <1>1 DEF StartDaemon
  <1>2. ASSUME NEW c \in Shells, Spawn(c) PROVE LifeTypes'
    BY <1>2 DEF Spawn
  <1>3. ASSUME NEW c \in Shells, RecordChild(c) PROVE LifeTypes'
    BY <1>3 DEF RecordChild
  <1>4. ASSUME NEW c \in Shells, Await(c) PROVE LifeTypes'
    <2>1. misreport' \in BOOLEAN /\ late' \in BOOLEAN
      BY <1>4 DEF Await
    <2> QED BY <1>4, <2>1 DEF Await
  <1>5. ASSUME NEW c \in Shells, StopDaemon(c) PROVE LifeTypes'
    <2>1. Recorded \in Pids \cup {NoPid}
      BY DEF Recorded
    <2> QED BY <1>5, <2>1 DEF StopDaemon, Signalled
  <1>6. ASSUME NEW c \in Shells, WaitStopped(c) PROVE LifeTypes'
    BY <1>6 DEF WaitStopped
  <1>7. CASE BareRun
    BY <1>7 DEF BareRun
  <1>8. ASSUME NEW p \in Pids, CheckDaemon(p) \/ ComeUp(p) \/ Beat(p) \/ WindDown(p) \/ Killed(p) \/ Reuse(p)
        PROVE LifeTypes'
    BY <1>8 DEF CheckDaemon, ComeUp, Beat, WindDown, Killed, Reuse
  <1> QED BY <1>1, <1>2, <1>3, <1>4, <1>5, <1>6, <1>7, <1>8 DEF LifeNext

(* As long as no two commands crossed and no child came late, every step     *)
(* keeps who is recorded and who serves in agreement (daemon.rs).            *)
LEMMA LifeStaysCalm ==
    ASSUME LifeTypes, LifeTypes', LifeNext, ~crossed', ~late', ~crossed /\ ~late => LifeCalm
    PROVE  LifeCalm'
  <1>1. ~crossed /\ ~late
    BY DEF LifeTypes, LifeNext, StartDaemon, Spawn, RecordChild, Await, StopDaemon, WaitStopped, BareRun,
           CheckDaemon, ComeUp, Beat, WindDown, Killed, Reuse
  <1> USE LifeAssumption, <1>1 DEF LifeCalm, ServesRecorded, OneUpcoming, CheckedAlone, CommandAlone, CommandsOwn,
                   ChildsHealth, Busy, Upcoming, Serving, NoOrder, ShellPhases, LifeTypes
  <1>2. ASSUME NEW c \in Shells, StartDaemon(c) PROVE LifeCalm'
    <2>1. AllIdle /\ \A p \in Pids : ~Upcoming(p)
      BY <1>2 DEF StartDaemon
    <2>2. Recorded = NoPid => \A p \in Pids : ~Serving(p)
      BY DEF Recorded, Alive, NoPid
    <2> QED BY <1>2, <2>1, <2>2 DEF StartDaemon, AllIdle
  <1>3. ASSUME NEW c \in Shells, Spawn(c) PROVE LifeCalm'
    BY <1>3 DEF Spawn
  <1>4. ASSUME NEW c \in Shells, RecordChild(c) PROVE LifeCalm'
    BY <1>4 DEF RecordChild
  <1>5. ASSUME NEW c \in Shells, Await(c) PROVE LifeCalm'
    BY <1>5 DEF Await, Alive
  <1>6. ASSUME NEW c \in Shells, StopDaemon(c) PROVE LifeCalm'
    <2>1. AllIdle /\ \A p \in Pids : ~Upcoming(p)
      BY <1>6 DEF StopDaemon
    <2>2. CASE Recorded = NoPid
      <3>1. \A p \in Pids : ~Serving(p)
        BY <2>2 DEF Recorded, Alive, NoPid
      <3> QED BY <1>6, <2>1, <2>2, <3>1 DEF StopDaemon, AllIdle
    <2>3. CASE Recorded # NoPid
      <3>1. \A p \in Pids : Serving(p) => p = Recorded
        BY DEF Recorded, Alive, NoPid
      <3>2. \A p \in Pids : (Serving(p)' <=> Serving(p)) /\ ~Upcoming(p)'
        BY <1>6, <2>1, <2>3 DEF StopDaemon, Signalled
      <3> QED BY <1>6, <2>1, <2>3, <3>1, <3>2 DEF StopDaemon, AllIdle
    <2> QED BY <2>2, <2>3
  <1>7. ASSUME NEW c \in Shells, WaitStopped(c) PROVE LifeCalm'
    BY <1>7 DEF WaitStopped, Alive
  <1>8. CASE BareRun
    <2>1. AllIdle /\ \A p \in Pids : ~Upcoming(p)
      BY <1>8 DEF BareRun
    <2> QED BY <1>8, <2>1 DEF BareRun, AllIdle, Free
  <1>9. ASSUME NEW p \in Pids, CheckDaemon(p) PROVE LifeCalm'
    <2>1. Recorded \in {NoPid, p} => \A q \in Pids : ~Serving(q)
      BY <1>9 DEF CheckDaemon, Recorded, Alive, NoPid
    <2> QED BY <1>9, <2>1 DEF CheckDaemon
  <1>10. ASSUME NEW p \in Pids, ComeUp(p) PROVE LifeCalm'
    BY <1>10 DEF ComeUp
  <1>11. ASSUME NEW p \in Pids, Beat(p) PROVE LifeCalm'
    BY <1>11 DEF Beat
  <1>12. ASSUME NEW p \in Pids, WindDown(p) PROVE LifeCalm'
    BY <1>12 DEF WindDown
  <1>13. ASSUME NEW p \in Pids, Killed(p) \/ Reuse(p) PROVE LifeCalm'
    BY <1>13 DEF Killed, Reuse
  <1> QED BY <1>2, <1>3, <1>4, <1>5, <1>6, <1>7, <1>8, <1>9, <1>10, <1>11, <1>12, <1>13 DEF LifeNext

(* Every step keeps the inductive invariant.                                 *)
LEMMA LifeStep == ASSUME LifeInv, [LifeNext]_lifeVars PROVE LifeInv'
  <1>1. CASE LifeNext
    <2>1. LifeTypes'
      BY <1>1, LifeTyped DEF LifeInv
    <2> QED BY <1>1, <2>1, LifeStaysCalm DEF LifeInv
  <1>2. CASE UNCHANGED lifeVars
    BY <1>2 DEF lifeVars, LifeInv, LifeTypes, LifeCalm, ServesRecorded, OneUpcoming, CheckedAlone, CommandAlone,
                CommandsOwn, ChildsHealth, Busy, Upcoming, Serving
  <1> QED BY <1>1, <1>2

(* Where the commands did not cross, what they report and leave is right.    *)
LEMMA CalmIsRight == ASSUME LifeInv PROVE LifeRight
  <1> SUFFICES ASSUME ~crossed, ~late PROVE LifeRight
    BY DEF LifeRight
  <1>1. LifeCalm
    BY DEF LifeInv
  <1>2. Cardinality({p \in Pids : Serving(p)}) <= 1
    <2> DEFINE S == {p \in Pids : Serving(p)}
    <2>1. S = {} \/ S = {pidFile}
      BY <1>1 DEF LifeCalm, ServesRecorded
    <2>2. Cardinality(S) \in {0, 1}
      BY <2>1, FS_EmptySet, FS_Singleton
    <2> QED BY <2>2
  <1> QED BY <1>1, <1>2 DEF LifeRight, LifeCalm, ServesRecorded, Serving

(* Every reachable state of the daemon and the commands that start and stop  *)
(* it satisfies the inductive invariant.                                     *)
THEOREM LifeInvariant == LifeSpec => []LifeInv
  BY LifeStarts, LifeStep, PTL DEF LifeSpec

(* Commands find the daemon of their home: a start leaves one daemon that is *)
(* recorded, a stop none (daemon.rs:82-250).                                 *)
THEOREM CommandsFindDaemon == LifeSpec => []LifeRight
  BY LifeInvariant, CalmIsRight, PTL

-----------------------------------------------------------------------------
(* What a run tells of itself.                                               *)

RunFields == {"running", "outcome", "owner", "pid", "entries", "ok", "bad"}
RunEntry == [active : BOOLEAN, processed : Nat, at : Nat]
Tasks == {NoOwner, "todo", "in", "over", "indexed", "pending", "graph"}

RunType(r) ==
    /\ DOMAIN r = RunFields
    /\ r.running \in BOOLEAN /\ r.outcome \in {NoOwner, "running", "completed", "failed"}
    /\ r.owner \in Owners \cup {NoOwner} /\ r.pid \in Nat /\ r.ok \in Nat /\ r.bad \in Nat
    /\ DOMAIN r.entries \subseteq ReportedSources
    /\ \A s \in DOMAIN r.entries : r.entries[s] \in RunEntry

ReportTypes ==
    /\ DOMAIN mem = Owners /\ (\A p \in Owners : RunType(mem[p])) /\ RunType(file)
    /\ lockHeld \in [ReportedSources -> Owners \cup {NoOwner}]
    /\ task \in [Owners -> [ReportedSources -> Tasks]]
    /\ pid \in [Owners -> Nat] /\ alive \in [Owners -> BOOLEAN] /\ going \in [Owners -> BOOLEAN]
    /\ uiActive \in BOOLEAN /\ ended \in [Owners -> Nat]
    /\ reborn \in [Owners -> SUBSET ReportedSources] /\ deaths \in Nat

Shows(r, s) == s \in DOMAIN r.entries /\ r.entries[s].active

\* A run that is this process's, counts its passes and shows those in progress.
RunFits(p, r) ==
    /\ RunType(r) /\ r.running /\ r.owner = p /\ r.pid = pid[p] /\ r.ok + r.bad = ended[p]
    /\ \A s \in ReportedSources :
          /\ task[p][s] = "in" => Shows(r, s)
          /\ Shows(r, s) => task[p][s] = "in" \/ s \in reborn[p]

MemFits ==
    \A p \in Owners :
        /\ going[p] => alive[p] /\ RunFits(p, mem[p])
        /\ ~going[p] => ended[p] = 0 /\ \A s \in ReportedSources : task[p][s] = NoOwner

LocksFit == \A p \in Owners, s \in ReportedSources : task[p][s] \in {"in", "graph"} <=> lockHeld[s] = p

\* The file shows no pass as running that its owner's own snapshot does not.
FileFits ==
    file.running =>
        /\ file.owner \in Owners /\ file.pid <= pid[file.owner]
        /\ going[file.owner] /\ file.pid = pid[file.owner] =>
              \A s \in ReportedSources : Shows(file, s) => Shows(mem[file.owner], s)

NobodyDied ==
    deaths = 0 =>
        /\ \A p \in Owners : alive[p]
        /\ file.running => going[file.owner] /\ file.pid = pid[file.owner]
        /\ uiActive => "ui" \in Owners /\ going["ui"]

ReportInv == ReportTypes /\ MemFits /\ LocksFit /\ FileFits /\ NobodyDied

(* No process has the name that stands for none.                             *)
LEMMA NoneRuns == NoOwner \notin Owners
  BY ReportAssumption DEF NoOwner

(* The empty snapshot is one, and shows no pass.                             *)
LEMMA NoRunFits == RunType(NoRun) /\ ~NoRun.running /\ \A s : ~Shows(NoRun, s)
  BY DEF NoRun, RunType, RunFields, Shows

(* A normalised snapshot keeps its counts and every active entry             *)
(* (progress.rs:251-269).                                                    *)
LEMMA NormalizedFits ==
  ASSUME NEW r, RunType(r)
  PROVE  /\ RunType(Normalized(r))
         /\ Normalized(r).running = r.running /\ Normalized(r).owner = r.owner /\ Normalized(r).pid = r.pid
         /\ Normalized(r).ok = r.ok /\ Normalized(r).bad = r.bad
         /\ \A s : Shows(Normalized(r), s) <=> Shows(r, s)
  <1> DEFINE ages == {r.entries[s].at : s \in {x \in DOMAIN r.entries : ~r.entries[x].active}}
  <1> DEFINE left == {s \in DOMAIN r.entries : r.entries[s].active \/ Cardinality({a \in ages : a > r.entries[s].at}) < MaxKept}
  <1>1. left \subseteq DOMAIN r.entries /\ \A s \in DOMAIN r.entries : r.entries[s].active => s \in left
    OBVIOUS
  <1>2. Normalized(r) = [r EXCEPT !.entries = [s \in left |-> r.entries[s]]]
    BY DEF Normalized
  <1> HIDE DEF left
  <1>3. /\ DOMAIN Normalized(r) = RunFields /\ Normalized(r).entries = [s \in left |-> r.entries[s]]
        /\ Normalized(r).running = r.running /\ Normalized(r).owner = r.owner /\ Normalized(r).pid = r.pid
        /\ Normalized(r).ok = r.ok /\ Normalized(r).bad = r.bad /\ Normalized(r).outcome = r.outcome
    BY <1>2 DEF RunType, RunFields
  <1>4. /\ DOMAIN Normalized(r).entries = left
        /\ \A s \in left : Normalized(r).entries[s] = r.entries[s]
    BY <1>3
  <1>5. RunType(Normalized(r))
    BY <1>1, <1>3, <1>4 DEF RunType
  <1> QED BY <1>1, <1>3, <1>4, <1>5 DEF Shows

(* An entry that is set changes what the snapshot shows of its source only.  *)
LEMMA PutFits ==
  ASSUME NEW r, RunType(r), NEW s \in ReportedSources, NEW e \in RunEntry
  PROVE  /\ RunType(Put(r, s, e))
         /\ Put(r, s, e).running = r.running /\ Put(r, s, e).owner = r.owner /\ Put(r, s, e).pid = r.pid
         /\ Put(r, s, e).ok = r.ok /\ Put(r, s, e).bad = r.bad
         /\ Shows(Put(r, s, e), s) <=> e.active
         /\ \A x : x # s => (Shows(Put(r, s, e), x) <=> Shows(r, x))
  <1> DEFINE D == DOMAIN r.entries \cup {s}
  <1> DEFINE f == [x \in D |-> IF x = s THEN e ELSE r.entries[x]]
  <1>1. Put(r, s, e) = [r EXCEPT !.entries = f]
    BY DEF Put
  <1>2. DOMAIN f = D /\ f[s] = e /\ \A x \in DOMAIN r.entries : x # s => f[x] = r.entries[x]
    OBVIOUS
  <1>3. D \subseteq ReportedSources /\ \A x : x \in D <=> x = s \/ x \in DOMAIN r.entries
    BY DEF RunType
  <1> HIDE DEF f, D
  <1>4. /\ DOMAIN Put(r, s, e) = RunFields /\ Put(r, s, e).entries = f
        /\ Put(r, s, e).running = r.running /\ Put(r, s, e).owner = r.owner /\ Put(r, s, e).pid = r.pid
        /\ Put(r, s, e).ok = r.ok /\ Put(r, s, e).bad = r.bad /\ Put(r, s, e).outcome = r.outcome
    BY <1>1 DEF RunType, RunFields
  <1>5. RunType(Put(r, s, e))
    BY <1>2, <1>3, <1>4 DEF RunType
  <1> QED BY <1>2, <1>3, <1>4, <1>5 DEF Shows

(* The entry of a source, an existing or a new one, and how it ends.         *)
LEMMA EntryFits ==
  ASSUME NEW r, RunType(r), NEW s
  PROVE  /\ Entry(r, s) \in RunEntry /\ NewEntry \in RunEntry /\ NewEntry.active
         /\ s \in DOMAIN r.entries => (Entry(r, s).active <=> Shows(r, s))
         /\ s \notin DOMAIN r.entries => Entry(r, s) = NewEntry
         /\ \A n \in Nat : Ended(Entry(r, s), n) \in RunEntry /\ ~Ended(Entry(r, s), n).active
  <1>1. NewEntry \in RunEntry /\ NewEntry.active
    BY DEF NewEntry, RunEntry
  <1>2. Entry(r, s) \in RunEntry
    BY <1>1 DEF Entry, RunType
  <1>3. \A e \in RunEntry, n \in Nat : Ended(e, n) \in RunEntry /\ ~Ended(e, n).active
    BY DEF Ended, RunEntry
  <1> QED BY <1>1, <1>2, <1>3 DEF Entry, Shows

(* The first snapshot of a run is of its process and shows nothing.          *)
LEMMA BeginFits ==
  ASSUME NEW p \in Owners, ReportTypes
  PROVE  /\ RunType(BeginEntry(p)) /\ BeginEntry(p).running /\ BeginEntry(p).owner = p /\ BeginEntry(p).pid = pid[p]
         /\ BeginEntry(p).ok = 0 /\ BeginEntry(p).bad = 0 /\ \A s : ~Shows(BeginEntry(p), s)
  BY NoRunFits DEF BeginEntry, NoRun, RunType, RunFields, Shows, ReportTypes

(* The last snapshot of a run says that it does not run.                     *)
LEMMA TerminalFits ==
  ASSUME NEW r, RunType(r), NEW n \in Nat, NEW outcome \in {"completed", "failed"}
  PROVE  RunType(Terminal(r, outcome, n)) /\ ~Terminal(r, outcome, n).running /\ Terminal(r, outcome, n).owner = r.owner
  <1> DEFINE f == [s \in DOMAIN r.entries |-> IF r.entries[s].active THEN Ended(r.entries[s], n) ELSE r.entries[s]]
  <1>1. \A s \in DOMAIN r.entries : f[s] \in RunEntry
    BY DEF RunType, Ended, RunEntry
  <1>2. Terminal(r, outcome, n) = [r EXCEPT !.running = FALSE, !.outcome = outcome, !.entries = f]
    BY DEF Terminal
  <1>3. DOMAIN f = DOMAIN r.entries
    OBVIOUS
  <1> HIDE DEF f
  <1>4. LET t == Terminal(r, outcome, n)
        IN  /\ DOMAIN t = RunFields /\ t.entries = f /\ t.running = FALSE /\ t.outcome = outcome
            /\ t.owner = r.owner /\ t.pid = r.pid /\ t.ok = r.ok /\ t.bad = r.bad
    BY <1>2 DEF RunType, RunFields
  <1> QED BY <1>1, <1>3, <1>4 DEF RunType

(* What a store of a run that goes on leaves.                                *)
LEMMA AfterStore ==
  ASSUME ReportInv, NEW p \in Owners, NEW r, Store(p, r), RunFits(p, r)', going'[p], alive'[p],
         UNCHANGED <<pid, alive, deaths>>, DOMAIN going' = Owners,
         \A q \in Owners \ {p} : /\ going'[q] = going[q] /\ task'[q] = task[q]
                                 /\ ended'[q] = ended[q] /\ reborn'[q] = reborn[q],
         uiActive' => uiActive \/ p = "ui"
  PROVE  DOMAIN mem' = Owners /\ (\A q \in Owners : RunType(mem'[q])) /\ RunType(file') /\ MemFits' /\ FileFits' /\ NobodyDied'
  <1> USE DEF ReportInv, ReportTypes
  <1> DEFINE w == Normalized(r)
  <1>1. RunType(r) /\ r.running /\ r.owner = p /\ r.pid = pid[p]
    BY DEF RunFits
  <1>2. RunType(w) /\ w.running /\ w.owner = p /\ w.pid = pid[p] /\ w.ok = r.ok /\ w.bad = r.bad /\ \A s : Shows(w, s) <=> Shows(r, s)
    BY <1>1, NormalizedFits
  <1>3. mem' = [mem EXCEPT ![p] = w] /\ file' = w
    BY <1>1 DEF Store
  <1> HIDE DEF w
  <1>4. mem'[p] = w /\ DOMAIN mem' = Owners /\ \A q \in Owners \ {p} : mem'[q] = mem[q]
    BY <1>3
  <1>5. RunFits(p, w)'
    BY <1>2 DEF RunFits
  <1>6. MemFits'
    <2> SUFFICES ASSUME NEW q \in Owners
                 PROVE  /\ going'[q] => alive'[q] /\ RunFits(q, mem[q])'
                        /\ ~going'[q] => ended'[q] = 0 /\ \A s \in ReportedSources : task'[q][s] = NoOwner
      BY DEF MemFits
    <2>1. CASE q = p
      BY <1>4, <1>5, <2>1 DEF RunFits
    <2>2. CASE q # p
      BY <1>4, <2>2 DEF MemFits, RunFits
    <2> QED BY <2>1, <2>2
  <1>7. FileFits'
    <2>1. pid[p] \in Nat
      OBVIOUS
    <2> QED BY <1>2, <1>3, <1>4, <2>1 DEF FileFits
  <1>8. NobodyDied'
    <2> SUFFICES ASSUME deaths' = 0 PROVE /\ \A q \in Owners : alive'[q]
                                          /\ file'.running => going'[file'.owner] /\ file'.pid = pid'[file'.owner]
                                          /\ uiActive' => "ui" \in Owners /\ going'["ui"]
      BY DEF NobodyDied
    <2>1. \A q \in Owners : alive'[q]
      BY DEF NobodyDied
    <2>2. going'[file'.owner] /\ file'.pid = pid'[file'.owner]
      BY <1>2, <1>3
    <2>3. uiActive' => "ui" \in Owners /\ going'["ui"]
      BY DEF NobodyDied
    <2> QED BY <2>1, <2>2, <2>3
  <1> QED BY <1>2, <1>3, <1>4, <1>6, <1>7, <1>8

(* What the final store of a run leaves.                                     *)
LEMMA AfterEnd ==
  ASSUME ReportInv, NEW p \in Owners, NEW r, Store(p, r), RunType(r), ~r.running, r.owner = p, ~going'[p], ended'[p] = 0,
         \A s \in ReportedSources : task'[p][s] = NoOwner, UNCHANGED <<pid, alive, deaths>>,
         \A q \in Owners \ {p} : /\ going'[q] = going[q] /\ task'[q] = task[q]
                                 /\ ended'[q] = ended[q] /\ reborn'[q] = reborn[q],
         uiActive' => uiActive /\ p # "ui"
  PROVE  DOMAIN mem' = Owners /\ (\A q \in Owners : RunType(mem'[q])) /\ RunType(file') /\ MemFits' /\ FileFits' /\ NobodyDied'
  <1> USE DEF ReportInv, ReportTypes
  <1> DEFINE w == Normalized(r)
  <1>1. RunType(w) /\ ~w.running
    BY NormalizedFits
  <1>2. mem' = [mem EXCEPT ![p] = NoRun] /\ file' = w
    BY DEF Store
  <1> HIDE DEF w
  <1>3. mem'[p] = NoRun /\ DOMAIN mem' = Owners /\ \A q \in Owners \ {p} : mem'[q] = mem[q]
    BY <1>2
  <1>4. MemFits'
    BY <1>3 DEF MemFits, RunFits
  <1>5. FileFits' /\ NobodyDied'
    BY <1>1, <1>2 DEF FileFits, NobodyDied
  <1> QED BY <1>1, <1>2, <1>3, <1>4, <1>5, NoRunFits

(* Nothing runs at the start, and the file says so.                          *)
LEMMA ReportStarts == ReportInit => ReportInv
  <1> SUFFICES ASSUME ReportInit PROVE ReportInv
    OBVIOUS
  <1>1. ReportTypes
    <2>1. DOMAIN mem = Owners /\ (\A p \in Owners : RunType(mem[p])) /\ RunType(file)
      BY NoRunFits DEF ReportInit
    <2> QED BY <2>1 DEF ReportInit, ReportTypes, Tasks
  <1>2. MemFits /\ FileFits /\ NobodyDied
    BY NoRunFits DEF ReportInit, MemFits, FileFits, NobodyDied
  <1>3. LocksFit
    BY NoneRuns DEF ReportInit, LocksFit, NoOwner
  <1> QED BY <1>1, <1>2, <1>3 DEF ReportInv

(* A command or the UI begins a run: its snapshot shows nothing yet.         *)
LEMMA BeginRunStep ==
  ASSUME ReportInv, NEW p \in Owners, BeginRun(p) PROVE ReportInv'
  <1> USE DEF ReportInv, ReportTypes
  <1>1. PICK r : r = BeginEntry(p)
    OBVIOUS
  <1>2. RunType(r) /\ r.running /\ r.owner = p /\ r.pid = pid[p] /\ r.ok = 0 /\ r.bad = 0 /\ \A s : ~Shows(r, s)
    BY <1>1, BeginFits
  <1>3. ended[p] = 0 /\ \A s \in ReportedSources : task[p][s] = NoOwner
    BY DEF BeginRun, MemFits
  <1>4. /\ Store(p, r) /\ alive[p] /\ going' = [going EXCEPT ![p] = TRUE]
        /\ task' = [task EXCEPT ![p] = [s \in ReportedSources |-> "todo"]]
        /\ uiActive' = (uiActive \/ p = "ui") /\ UNCHANGED <<lockHeld, pid, alive, ended, reborn, deaths>>
    BY <1>1 DEF BeginRun
  <1>5. RunFits(p, r)'
    BY <1>2, <1>3, <1>4 DEF RunFits
  <1>6. DOMAIN mem' = Owners /\ (\A q \in Owners : RunType(mem'[q])) /\ RunType(file') /\ MemFits' /\ FileFits' /\ NobodyDied'
    BY <1>4, <1>5, AfterStore
  <1>7. LocksFit'
    BY <1>3, <1>4 DEF LocksFit, NoOwner
  <1>8. ReportTypes'
    <2>1. task' \in [Owners -> [ReportedSources -> Tasks]]
      BY <1>4 DEF Tasks
    <2>2. uiActive' \in BOOLEAN
      BY <1>4
    <2> QED BY <1>4, <1>6, <2>1, <2>2
  <1> QED BY <1>6, <1>7, <1>8

(* A pass of a batch gets its lock and its entry, or is blocked and gets     *)
(* neither.                                                                  *)
LEMMA StartPassStep ==
  ASSUME ReportInv, NEW p \in Owners, NEW s \in ReportedSources, StartPass(p, s) PROVE ReportInv'
  <1> USE DEF ReportInv, ReportTypes
  <1>1. /\ going[p] /\ alive[p] /\ RunFits(p, mem[p]) /\ task[p][s] = "todo"
        /\ UNCHANGED <<pid, alive, going, uiActive, ended, reborn, runs, deaths>>
    BY DEF StartPass, MemFits
  <1>2. CASE /\ lockHeld[s] = NoOwner /\ lockHeld' = [lockHeld EXCEPT ![s] = p]
             /\ task' = [task EXCEPT ![p][s] = "in"] /\ Store(p, Put(mem[p], s, NewEntry))
    <2>1. PICK r : r = Put(mem[p], s, NewEntry)
      OBVIOUS
    <2>2. /\ RunType(r) /\ r.running /\ r.owner = p /\ r.pid = pid[p] /\ r.ok + r.bad = ended[p]
          /\ Shows(r, s) /\ \A x : x # s => (Shows(r, x) <=> Shows(mem[p], x))
      <3>1. NewEntry \in RunEntry /\ NewEntry.active
        BY NoRunFits, EntryFits
      <3>2. RunType(mem[p])
        OBVIOUS
      <3>3. /\ RunType(r) /\ r.running = mem[p].running /\ r.owner = mem[p].owner /\ r.pid = mem[p].pid
            /\ r.ok = mem[p].ok /\ r.bad = mem[p].bad
            /\ Shows(r, s) /\ \A x : x # s => (Shows(r, x) <=> Shows(mem[p], x))
        BY <2>1, <3>1, <3>2, PutFits
      <3> QED BY <1>1, <3>3 DEF RunFits
    <2>3. RunFits(p, r)'
      BY <1>1, <1>2, <2>2 DEF RunFits
    <2>4. DOMAIN mem' = Owners /\ (\A q \in Owners : RunType(mem'[q])) /\ RunType(file') /\ MemFits' /\ FileFits' /\ NobodyDied'
      BY <1>1, <1>2, <2>1, <2>3, AfterStore
    <2>5. LocksFit'
      BY <1>1, <1>2, NoneRuns DEF LocksFit
    <2>6. task' \in [Owners -> [ReportedSources -> Tasks]]
      BY <1>2 DEF Tasks
    <2> QED BY <1>1, <1>2, <2>4, <2>5, <2>6
  <1>3. CASE task' = [task EXCEPT ![p][s] = "over"] /\ UNCHANGED <<lockHeld, mem, file, fresh>>
    <2>1. task' \in [Owners -> [ReportedSources -> Tasks]]
      BY <1>3 DEF Tasks
    <2>2. MemFits'
      BY <1>1, <1>3 DEF MemFits, RunFits
    <2>3. LocksFit' /\ FileFits' /\ NobodyDied'
      BY <1>1, <1>3 DEF LocksFit, FileFits, NobodyDied
    <2> QED BY <1>1, <1>3, <2>1, <2>2, <2>3
  <1> QED BY <1>2, <1>3 DEF StartPass

(* A pass of the daemon gets its lock and its entry; the first one begins    *)
(* the run.                                                                  *)
LEMMA DaemonPassStep ==
  ASSUME ReportInv, NEW s \in ReportedSources, DaemonPass(s) PROVE ReportInv'
  <1> USE DEF ReportInv, ReportTypes
  <1>1. PICK p : p = "daemon"
    OBVIOUS
  <1>2. PICK r : r = Put(IF going[p] THEN mem[p] ELSE BeginEntry(p), s, NewEntry)
    OBVIOUS
  <1>3. /\ p \in Owners /\ alive[p] /\ task[p][s] = NoOwner /\ lockHeld[s] = NoOwner
        /\ going' = [going EXCEPT ![p] = TRUE] /\ lockHeld' = [lockHeld EXCEPT ![s] = p]
        /\ task' = [task EXCEPT ![p][s] = "in"] /\ Store(p, r)
        /\ UNCHANGED <<pid, alive, uiActive, ended, reborn, deaths>>
    BY <1>1, <1>2 DEF DaemonPass
  <1>4. /\ RunType(r) /\ r.running /\ r.owner = p /\ r.pid = pid[p] /\ r.ok + r.bad = ended[p]
        /\ Shows(r, s)
        /\ \A x \in ReportedSources : x # s =>
              (task[p][x] = "in" => Shows(r, x)) /\ (Shows(r, x) => task[p][x] = "in" \/ x \in reborn[p])
    <2>1. CASE going[p]
      <3>1. RunFits(p, mem[p])
        BY <1>3, <2>1 DEF MemFits
      <3>2. r = Put(mem[p], s, NewEntry)
        BY <1>2, <2>1
      <3>3. NewEntry \in RunEntry /\ NewEntry.active
        BY NoRunFits, EntryFits
      <3>4. RunType(mem[p])
        BY <1>3
      <3>5. /\ RunType(r) /\ r.running = mem[p].running /\ r.owner = mem[p].owner /\ r.pid = mem[p].pid
            /\ r.ok = mem[p].ok /\ r.bad = mem[p].bad
            /\ Shows(r, s) /\ \A x : x # s => (Shows(r, x) <=> Shows(mem[p], x))
        BY <3>2, <3>3, <3>4, PutFits
      <3> QED BY <3>1, <3>5 DEF RunFits
    <2>2. CASE ~going[p]
      <3>1. ended[p] = 0 /\ \A x \in ReportedSources : task[p][x] = NoOwner
        BY <1>3, <2>2 DEF MemFits
      <3>2. r = Put(BeginEntry(p), s, NewEntry)
        BY <1>2, <2>2
      <3>3. NewEntry \in RunEntry /\ NewEntry.active
        BY NoRunFits, EntryFits
      <3>4. /\ RunType(BeginEntry(p)) /\ BeginEntry(p).running /\ BeginEntry(p).owner = p /\ BeginEntry(p).pid = pid[p]
            /\ BeginEntry(p).ok = 0 /\ BeginEntry(p).bad = 0 /\ \A x : ~Shows(BeginEntry(p), x)
        BY <1>3, BeginFits
      <3>5. /\ RunType(r) /\ r.running /\ r.owner = p /\ r.pid = pid[p] /\ r.ok = 0 /\ r.bad = 0
            /\ Shows(r, s) /\ \A x : x # s => ~Shows(r, x)
        BY <3>2, <3>3, <3>4, PutFits
      <3> QED BY <3>1, <3>5 DEF NoOwner
    <2> QED BY <2>1, <2>2
  <1>5. RunFits(p, r)'
    BY <1>3, <1>4 DEF RunFits
  <1>6. DOMAIN mem' = Owners /\ (\A q \in Owners : RunType(mem'[q])) /\ RunType(file') /\ MemFits' /\ FileFits' /\ NobodyDied'
    BY <1>3, <1>5, AfterStore
  <1>7. LocksFit'
    BY <1>3, NoneRuns DEF LocksFit, NoOwner
  <1>8. task' \in [Owners -> [ReportedSources -> Tasks]]
    BY <1>3 DEF Tasks
  <1> QED BY <1>3, <1>6, <1>7, <1>8

(* A file that is counted leaves what is shown.                              *)
LEMMA PassEventStep ==
  ASSUME ReportInv, NEW p \in Owners, NEW s \in ReportedSources, PassEvent(p, s) PROVE ReportInv'
  <1> USE DEF ReportInv, ReportTypes
  <1>0. going[p]
    BY DEF PassEvent, MemFits, NoOwner
  <1>1. PICK r : r = Put(mem[p], s, [Entry(mem[p], s) EXCEPT !.processed = 1])
    OBVIOUS
  <1>2. /\ alive[p] /\ task[p][s] = "in" /\ RunFits(p, mem[p]) /\ Count(p, r)
        /\ UNCHANGED <<lockHeld, task, pid, alive, going, uiActive, ended, reborn, runs, deaths>>
    BY <1>0, <1>1 DEF PassEvent, MemFits
  <1>3. /\ Entry(mem[p], s) \in RunEntry /\ Entry(mem[p], s).active
    BY <1>2, EntryFits DEF RunFits, Shows
  <1>4. PICK e \in RunEntry : e = [Entry(mem[p], s) EXCEPT !.processed = 1] /\ e.active
    <2>1. \A b \in RunEntry : /\ [b EXCEPT !.processed = 1] \in RunEntry
                             /\ [b EXCEPT !.processed = 1].active = b.active
      BY DEF RunEntry
    <2> QED BY <1>3, <2>1
  <1>5. /\ RunType(r) /\ r.running /\ r.owner = p /\ r.pid = pid[p] /\ r.ok + r.bad = ended[p]
        /\ \A x : Shows(r, x) <=> Shows(mem[p], x)
    <2>1. r = Put(mem[p], s, e)
      BY <1>1, <1>4
    <2>2. Shows(mem[p], s) /\ RunType(mem[p])
      BY <1>2 DEF RunFits
    <2>3. /\ RunType(r) /\ r.running = mem[p].running /\ r.owner = mem[p].owner /\ r.pid = mem[p].pid
          /\ r.ok = mem[p].ok /\ r.bad = mem[p].bad
          /\ Shows(r, s) /\ \A x : x # s => (Shows(r, x) <=> Shows(mem[p], x))
      <3>1. /\ RunType(r) /\ r.running = mem[p].running /\ r.owner = mem[p].owner /\ r.pid = mem[p].pid
            /\ r.ok = mem[p].ok /\ r.bad = mem[p].bad
            /\ Shows(r, s) <=> e.active
            /\ \A x : x # s => (Shows(r, x) <=> Shows(mem[p], x))
        BY <2>1, <2>2, PutFits
      <3>2. e.active
        BY <1>4
      <3> QED BY <3>1, <3>2
    <2> QED BY <1>2, <2>2, <2>3 DEF RunFits
  <1>6. RunFits(p, r)'
    BY <1>2, <1>5 DEF RunFits
  <1>7. CASE Store(p, r)
    BY <1>0, <1>2, <1>6, <1>7, AfterStore DEF LocksFit
  <1>8. CASE mem' = [mem EXCEPT ![p] = r] /\ UNCHANGED <<file, fresh>>
    <2>1. MemFits'
      BY <1>2, <1>6, <1>8 DEF MemFits, RunFits
    <2>2. FileFits' /\ NobodyDied' /\ LocksFit'
      BY <1>2, <1>5, <1>8 DEF FileFits, NobodyDied, LocksFit
    <2> QED BY <1>2, <1>5, <1>8, <2>1, <2>2
  <1> QED BY <1>2, <1>7, <1>8 DEF Count

(* A pass that ends is counted once and gives its lock back; the last one of *)
(* the daemon ends the run.                                                  *)
LEMMA FinishPassStep ==
  ASSUME ReportInv, NEW p \in Owners, NEW s \in ReportedSources, FinishPass(p, s) PROVE ReportInv'
  <1> USE DEF ReportInv, ReportTypes
  <1>0. going[p]
    BY DEF FinishPass, MemFits, NoOwner
  <1>1. PICK ok \in BOOLEAN :
           LET n == ended[p] + 1
               r == Put(Counted(mem[p], s, ok), s, Ended(Entry(mem[p], s), n))
               last == p = "daemon" /\ \A x \in ReportedSources \ {s} : task[p][x] = NoOwner
           IN /\ task' = [task EXCEPT ![p][s] =
                     IF p = "daemon" THEN NoOwner ELSE IF ok THEN "indexed" ELSE "over"]
              /\ Store(p, IF last
                          THEN Terminal(r, IF ok THEN "completed" ELSE "failed", n) ELSE r)
              /\ ended' = [ended EXCEPT ![p] = IF last THEN 0 ELSE n]
              /\ going' = IF last THEN [going EXCEPT ![p] = FALSE] ELSE going
    BY DEF FinishPass
  <1>2. PICK n : n = ended[p] + 1
    OBVIOUS
  <1>3. PICK r : r = Put(Counted(mem[p], s, ok), s, Ended(Entry(mem[p], s), n))
    OBVIOUS
  <1>4. PICK last \in BOOLEAN : last <=> p = "daemon" /\ \A x \in ReportedSources \ {s} : task[p][x] = NoOwner
    OBVIOUS
  <1>5. PICK end : end = Terminal(r, IF ok THEN "completed" ELSE "failed", n)
    OBVIOUS
  <1>6. /\ task' = [task EXCEPT ![p][s] = IF p = "daemon" THEN NoOwner ELSE IF ok THEN "indexed" ELSE "over"]
        /\ last => /\ Store(p, end) /\ ended' = [ended EXCEPT ![p] = 0] /\ going' = [going EXCEPT ![p] = FALSE]
        /\ ~last => /\ Store(p, r) /\ ended' = [ended EXCEPT ![p] = n] /\ going' = going
    BY <1>1, <1>2, <1>3, <1>4, <1>5
  <1>7. /\ alive[p] /\ task[p][s] = "in" /\ lockHeld[s] = p /\ RunFits(p, mem[p])
        /\ lockHeld' = [lockHeld EXCEPT ![s] = NoOwner]
        /\ UNCHANGED <<pid, alive, uiActive, reborn, deaths>>
    BY <1>0 DEF FinishPass, MemFits
  <1>8. /\ n \in Nat /\ RunType(mem[p]) /\ Entry(mem[p], s).active
    BY <1>2, <1>7, EntryFits DEF RunFits, Shows
  <1>9. PICK c : c = Counted(mem[p], s, ok)
    OBVIOUS
  <1>10. /\ RunType(c) /\ c.running /\ c.owner = p /\ c.pid = pid[p] /\ c.ok + c.bad = n
         /\ \A x : Shows(c, x) <=> Shows(mem[p], x)
    <2>1. c = IF ok THEN [mem[p] EXCEPT !.ok = @ + 1] ELSE [mem[p] EXCEPT !.bad = @ + 1]
      BY <1>8, <1>9 DEF Counted
    <2>2. /\ DOMAIN c = RunFields /\ c.running = mem[p].running /\ c.owner = mem[p].owner /\ c.pid = mem[p].pid
          /\ c.entries = mem[p].entries /\ c.outcome = mem[p].outcome
          /\ c.ok = IF ok THEN mem[p].ok + 1 ELSE mem[p].ok
          /\ c.bad = IF ok THEN mem[p].bad ELSE mem[p].bad + 1
      BY <1>8, <2>1 DEF RunType, RunFields
    <2>3. RunType(c)
      BY <1>8, <2>2 DEF RunType
    <2>4. c.ok + c.bad = n
      <3>1. mem[p].ok + mem[p].bad = ended[p] /\ mem[p].ok \in Nat /\ mem[p].bad \in Nat
        BY <1>7, <1>8 DEF RunFits, RunType
      <3>2. CASE ok
        BY <1>2, <2>2, <3>1, <3>2
      <3>3. CASE ~ok
        BY <1>2, <2>2, <3>1, <3>3
      <3> QED BY <3>2, <3>3
    <2> QED BY <1>7, <2>2, <2>3, <2>4 DEF RunFits, Shows
  <1>11. PICK e \in RunEntry : e = Ended(Entry(mem[p], s), n) /\ ~e.active
    BY <1>8, EntryFits
  <1>12. /\ RunType(r) /\ r.running /\ r.owner = p /\ r.pid = pid[p] /\ r.ok + r.bad = n
         /\ ~Shows(r, s) /\ \A x : x # s => (Shows(r, x) <=> Shows(mem[p], x))
    <2>1. r = Put(c, s, e)
      BY <1>3, <1>9, <1>11
    <2> QED BY <1>10, <1>11, <2>1, PutFits
  <1>13. LocksFit'
    BY <1>6, <1>7, NoneRuns DEF LocksFit, NoOwner
  <1>14. task' \in [Owners -> [ReportedSources -> Tasks]]
    BY <1>6 DEF Tasks
  <1>15. CASE ~last
    <2>1. RunFits(p, r)'
      <3>1. task'[p][s] # "in" /\ \A x \in ReportedSources \ {s} : task'[p][x] = task[p][x]
        BY <1>6 DEF NoOwner
      <3>2. ended'[p] = n
        BY <1>6, <1>15
      <3> QED BY <1>7, <1>12, <3>1, <3>2 DEF RunFits
    <2>2. DOMAIN mem' = Owners /\ (\A q \in Owners : RunType(mem'[q])) /\ RunType(file') /\ MemFits' /\ FileFits' /\ NobodyDied'
      BY <1>0, <1>6, <1>7, <1>15, <2>1, AfterStore
    <2> QED BY <1>6, <1>7, <1>8, <1>13, <1>14, <1>15, <2>2
  <1>16. CASE last
    <2>1. RunType(end) /\ ~end.running /\ end.owner = p
      BY <1>5, <1>8, <1>12, TerminalFits
    <2>2. \A x \in ReportedSources : task'[p][x] = NoOwner
      BY <1>4, <1>6, <1>16
    <2>3. p # "ui"
      BY <1>4, <1>16
    <2>4. DOMAIN mem' = Owners /\ (\A q \in Owners : RunType(mem'[q])) /\ RunType(file') /\ MemFits' /\ FileFits' /\ NobodyDied'
      BY <1>6, <1>7, <1>16, <2>1, <2>2, <2>3, AfterEnd
    <2>5. lockHeld' \in [ReportedSources -> Owners \cup {NoOwner}]
      BY <1>7
    <2>6. going' \in [Owners -> BOOLEAN] /\ ended' \in [Owners -> Nat]
      <3>1. ended' = [ended EXCEPT ![p] = 0] /\ going' = [going EXCEPT ![p] = FALSE]
        BY <1>6, <1>16
      <3> QED BY <3>1
    <2> QED BY <1>7, <1>13, <1>14, <2>4, <2>5, <2>6
  <1> QED BY <1>15, <1>16

(* A graph that is due keeps the ended entry of its source, or makes one     *)
(* again.                                                                    *)
LEMMA GraphDueStep ==
  ASSUME ReportInv, NEW p \in Owners, NEW s \in ReportedSources, GraphDue(p, s) PROVE ReportInv'
  <1> USE DEF ReportInv, ReportTypes
  <1>1. PICK r : r = Put(mem[p], s, Entry(mem[p], s))
    OBVIOUS
  <1>2. /\ going[p] /\ alive[p] /\ task[p][s] = "indexed" /\ RunFits(p, mem[p]) /\ Store(p, r)
        /\ task' = [task EXCEPT ![p][s] = "pending"]
        /\ reborn' = [reborn EXCEPT ![p] = IF s \in DOMAIN mem[p].entries THEN @ ELSE @ \cup {s}]
        /\ UNCHANGED <<lockHeld, pid, alive, going, uiActive, ended, runs, deaths>>
    BY <1>1 DEF GraphDue, MemFits
  <1>3. RunType(mem[p]) /\ Entry(mem[p], s) \in RunEntry
    BY EntryFits
  <1>4. /\ RunType(r) /\ r.running /\ r.owner = p /\ r.pid = pid[p] /\ r.ok + r.bad = ended[p]
        /\ Shows(r, s) <=> Entry(mem[p], s).active
        /\ \A x : x # s => (Shows(r, x) <=> Shows(mem[p], x))
    BY <1>1, <1>2, <1>3, PutFits DEF RunFits
  <1>5. Shows(r, s) => s \in reborn'[p]
    BY <1>2, <1>3, <1>4, EntryFits DEF RunFits
  <1>6. RunFits(p, r)'
    BY <1>2, <1>4, <1>5 DEF RunFits
  <1>7. DOMAIN mem' = Owners /\ (\A q \in Owners : RunType(mem'[q])) /\ RunType(file') /\ MemFits' /\ FileFits' /\ NobodyDied'
    BY <1>2, <1>6, AfterStore
  <1>8. LocksFit'
    BY <1>2 DEF LocksFit
  <1>9. task' \in [Owners -> [ReportedSources -> Tasks]]
    BY <1>2 DEF Tasks
  <1> QED BY <1>2, <1>7, <1>8, <1>9

(* A graph stage takes the lock of its source and gives it back.             *)
LEMMA BuildGraphStep ==
  ASSUME ReportInv, NEW p \in Owners, NEW s \in ReportedSources, BuildGraph(p, s) PROVE ReportInv'
  <1> USE DEF ReportInv, ReportTypes
  <1>1. PICK r : r = Put(mem[p], s, Entry(mem[p], s))
    OBVIOUS
  <1>2. /\ going[p] /\ alive[p] /\ task[p][s] \in {"pending", "graph"} /\ RunFits(p, mem[p]) /\ Store(p, r)
        /\ reborn' = [reborn EXCEPT ![p] = IF s \in DOMAIN mem[p].entries THEN @ ELSE @ \cup {s}]
        /\ UNCHANGED <<pid, alive, going, uiActive, ended, runs, deaths>>
    BY <1>1 DEF BuildGraph, MemFits
  <1>3. \/ /\ lockHeld[s] = NoOwner /\ lockHeld' = [lockHeld EXCEPT ![s] = p]
           /\ task' = [task EXCEPT ![p][s] = "graph"]
        \/ /\ lockHeld' = IF lockHeld[s] = p THEN [lockHeld EXCEPT ![s] = NoOwner] ELSE lockHeld
           /\ task' = [task EXCEPT ![p][s] = "over"]
    BY DEF BuildGraph
  <1>4. RunType(mem[p]) /\ Entry(mem[p], s) \in RunEntry
    BY EntryFits
  <1>5. /\ RunType(r) /\ r.running /\ r.owner = p /\ r.pid = pid[p] /\ r.ok + r.bad = ended[p]
        /\ Shows(r, s) <=> Entry(mem[p], s).active
        /\ \A x : x # s => (Shows(r, x) <=> Shows(mem[p], x))
    BY <1>1, <1>2, <1>4, PutFits DEF RunFits
  <1>6. Shows(r, s) => s \in reborn'[p]
    BY <1>2, <1>4, <1>5, EntryFits DEF RunFits
  <1>7. task'[p][s] \in {"graph", "over"} /\ \A x \in ReportedSources \ {s} : task'[p][x] = task[p][x]
    BY <1>3
  <1>8. RunFits(p, r)'
    BY <1>2, <1>5, <1>6, <1>7 DEF RunFits
  <1>9. \A q \in Owners \ {p} : task'[q] = task[q] /\ reborn'[q] = reborn[q]
    BY <1>2, <1>3
  <1>10. DOMAIN mem' = Owners /\ (\A q \in Owners : RunType(mem'[q])) /\ RunType(file') /\ MemFits' /\ FileFits' /\ NobodyDied'
    BY <1>2, <1>8, <1>9, AfterStore
  <1>11. LocksFit'
    BY SMTT(30), <1>3, NoneRuns DEF LocksFit
  <1>12. task' \in [Owners -> [ReportedSources -> Tasks]]
    <2>1. CASE task' = [task EXCEPT ![p][s] = "graph"]
      BY <2>1 DEF Tasks
    <2>2. CASE task' = [task EXCEPT ![p][s] = "over"]
      BY <2>2 DEF Tasks
    <2> QED BY <1>3, <2>1, <2>2
  <1>13. lockHeld' \in [ReportedSources -> Owners \cup {NoOwner}]
    BY <1>3
  <1> QED BY <1>2, <1>10, <1>11, <1>12, <1>13

(* The final snapshot of a batch says that nothing runs.                     *)
LEMMA EndRunStep ==
  ASSUME ReportInv, NEW p \in Owners, EndRun(p) PROVE ReportInv'
  <1> USE DEF ReportInv, ReportTypes
  <1>1. PICK outcome \in {"completed", "failed"} : Store(p, Terminal(mem[p], outcome, ended[p] + 1))
    BY DEF EndRun
  <1>2. PICK end : end = Terminal(mem[p], outcome, ended[p] + 1)
    OBVIOUS
  <1>3. RunFits(p, mem[p]) /\ going[p] /\ \A s \in ReportedSources : task[p][s] \in {"over", NoOwner}
    BY DEF EndRun, MemFits
  <1>4. RunType(end) /\ ~end.running /\ end.owner = p
    <2>1. ended[p] + 1 \in Nat /\ RunType(mem[p]) /\ mem[p].owner = p
      BY <1>3 DEF RunFits
    <2> QED BY <1>2, <2>1, TerminalFits
  <1>5. /\ going' = [going EXCEPT ![p] = FALSE] /\ uiActive' = (uiActive /\ p # "ui")
        /\ task' = [task EXCEPT ![p] = [s \in ReportedSources |-> NoOwner]]
        /\ ended' = [ended EXCEPT ![p] = 0] /\ reborn' = [reborn EXCEPT ![p] = {}]
        /\ UNCHANGED <<lockHeld, pid, alive, runs, deaths>>
    BY DEF EndRun
  <1>6. DOMAIN mem' = Owners /\ (\A q \in Owners : RunType(mem'[q])) /\ RunType(file') /\ MemFits' /\ FileFits' /\ NobodyDied'
    BY <1>1, <1>2, <1>4, <1>5, AfterEnd
  <1>7. LocksFit'
    BY <1>3, <1>5 DEF LocksFit, NoOwner
  <1>8. task' \in [Owners -> [ReportedSources -> Tasks]]
    BY <1>5 DEF Tasks
  <1>9. uiActive' \in BOOLEAN
    BY <1>5
  <1> QED BY <1>5, <1>6, <1>7, <1>8, <1>9

(* A heartbeat writes what the run knows.                                    *)
LEMMA HeartbeatStep ==
  ASSUME ReportInv, NEW p \in Owners, Heartbeat(p) PROVE ReportInv'
  <1> USE DEF ReportInv, ReportTypes
  <1>1. PICK r : r = mem[p]
    OBVIOUS
  <1>2. /\ going[p] /\ alive[p] /\ RunFits(p, r) /\ Store(p, r)
        /\ UNCHANGED <<lockHeld, task, pid, alive, going, uiActive, ended, reborn, runs, deaths>>
    BY <1>1 DEF Heartbeat, MemFits
  <1>3. RunFits(p, r)'
    BY <1>2 DEF RunFits
  <1>4. DOMAIN mem' = Owners /\ (\A q \in Owners : RunType(mem'[q])) /\ RunType(file') /\ MemFits' /\ FileFits' /\ NobodyDied'
    BY <1>2, <1>3, AfterStore
  <1> QED BY <1>2, <1>4 DEF LocksFit

(* A process that dies, and a run that panics: its run is gone at once.      *)
LEMMA Gone ==
  ASSUME ReportInv, NEW p \in Owners, deaths' = deaths + 1,
         going' = [going EXCEPT ![p] = FALSE],
         task' = [task EXCEPT ![p] = [s \in ReportedSources |-> NoOwner]],
         lockHeld' = Unlocked(p), mem' = [mem EXCEPT ![p] = NoRun],
         ended' = [ended EXCEPT ![p] = 0], reborn' = [reborn EXCEPT ![p] = {}],
         uiActive' \in BOOLEAN, UNCHANGED <<file, pid>>,
         alive' \in [Owners -> BOOLEAN], \A q \in Owners \ {p} : alive'[q] = alive[q]
  PROVE  ReportInv'
  <1> USE DEF ReportInv, ReportTypes
  <1>1. deaths' # 0 /\ deaths' \in Nat
    OBVIOUS
  <1>2. task' \in [Owners -> [ReportedSources -> Tasks]]
    BY DEF Tasks
  <1>3. lockHeld' \in [ReportedSources -> Owners \cup {NoOwner}]
    BY DEF Unlocked
  <1>4. MemFits'
    BY DEF MemFits, RunFits
  <1>5. LocksFit'
    <2> SUFFICES ASSUME NEW q \in Owners, NEW s \in ReportedSources
                 PROVE  task'[q][s] \in {"in", "graph"} <=> lockHeld'[s] = q
      BY DEF LocksFit
    <2>1. CASE q = p
      BY <2>1, NoneRuns DEF LocksFit, Unlocked, NoOwner
    <2>2. CASE q # p
      BY <2>2, NoneRuns DEF LocksFit, Unlocked
    <2> QED BY <2>1, <2>2
  <1>6. FileFits'
    BY DEF FileFits
  <1>7. NobodyDied'
    BY <1>1 DEF NobodyDied
  <1> QED BY <1>1, <1>2, <1>3, <1>4, <1>5, <1>6, <1>7, NoRunFits

(* A process that dies leaves its file and nothing else.                     *)
LEMMA OwnerDiesStep ==
  ASSUME ReportInv, NEW p \in Owners, OwnerDies(p) PROVE ReportInv'
  <1>1. uiActive' \in BOOLEAN /\ alive' \in [Owners -> BOOLEAN] /\ \A q \in Owners \ {p} : alive'[q] = alive[q]
    BY DEF ReportInv, ReportTypes, OwnerDies
  <1> QED BY <1>1, Gone DEF OwnerDies

(* A run of the UI that panics leaves its file and the flag of a run under   *)
(* way.                                                                      *)
LEMMA PanicStep == ASSUME ReportInv, Panic PROVE ReportInv'
  <1>1. uiActive' \in BOOLEAN /\ alive' \in [Owners -> BOOLEAN] /\ \A q \in Owners \ {"ui"} : alive'[q] = alive[q]
    BY DEF ReportInv, ReportTypes, Panic
  <1> QED BY <1>1, Gone DEF Panic

(* A process that starts again has another id than the one in the file.      *)
LEMMA RestartStep ==
  ASSUME ReportInv, NEW p \in Owners, Restart(p) PROVE ReportInv'
  <1> USE DEF ReportInv, ReportTypes
  <1>1. ~going[p] /\ ~alive[p]
    BY DEF Restart, MemFits
  <1>2. alive' = [alive EXCEPT ![p] = TRUE] /\ pid' = [pid EXCEPT ![p] = pid[p] + 1]
    BY DEF Restart
  <1>3. UNCHANGED <<mem, file, fresh, lockHeld, task, going, uiActive, ended, reborn, runs, deaths>>
    BY DEF Restart
  <1>4. MemFits'
    BY <1>1, <1>2, <1>3 DEF MemFits, RunFits
  <1>5. FileFits'
    BY <1>1, <1>2, <1>3 DEF FileFits, RunType
  <1>6. NobodyDied'
    BY <1>1, <1>2, <1>3 DEF NobodyDied
  <1> QED BY <1>2, <1>3, <1>4, <1>5, <1>6 DEF LocksFit

(* A heartbeat that gets old changes nothing else.                           *)
LEMMA TimePassesStep == ASSUME ReportInv, TimePasses PROVE ReportInv'
  BY DEF TimePasses, ReportInv, ReportTypes, MemFits, RunFits, LocksFit, FileFits, NobodyDied

(* Every reachable state of the runs and their snapshots satisfies the       *)
(* inductive invariant.                                                      *)
THEOREM ReportInvariant == ReportSpec => []ReportInv
  <1>1. ReportInit => ReportInv
    BY ReportStarts
  <1>2. ReportInv /\ [ReportNext]_reportVars => ReportInv'
    <2> SUFFICES ASSUME ReportInv, [ReportNext]_reportVars PROVE ReportInv'
      OBVIOUS
    <2>1. CASE UNCHANGED reportVars
      BY <2>1 DEF reportVars, ReportInv, ReportTypes, MemFits, RunFits, LocksFit, FileFits, NobodyDied
    <2>2. ASSUME NEW p \in Owners, BeginRun(p) \/ EndRun(p) \/ Heartbeat(p) \/ OwnerDies(p) \/ Restart(p)
          PROVE  ReportInv'
      BY <2>2, BeginRunStep, EndRunStep, HeartbeatStep, OwnerDiesStep, RestartStep
    <2>3. ASSUME NEW p \in Owners, NEW s \in ReportedSources,
                 StartPass(p, s) \/ PassEvent(p, s) \/ FinishPass(p, s) \/ GraphDue(p, s) \/ BuildGraph(p, s)
          PROVE  ReportInv'
      BY <2>3, StartPassStep, PassEventStep, FinishPassStep, GraphDueStep, BuildGraphStep
    <2> QED BY <2>1, <2>2, <2>3, DaemonPassStep, PanicStep, TimePassesStep DEF ReportNext
  <1> QED BY <1>1, <1>2, PTL DEF ReportSpec

(* What runs is shown as live whoever wrote the file last, what is shown as  *)
(* live runs or has just stopped, passes are counted once                    *)
(* (runtime.rs:50-169, progress.rs:274-600).                                 *)
THEOREM RunsAreReported == ReportSpec => []ReportRight
  <1>1. ReportInv => ReportRight
    <2> SUFFICES ASSUME ReportInv PROVE ReportRight
      OBVIOUS
    <2> USE DEF ReportInv, ReportTypes
    <2>1. ASSUME NEW s \in ReportedSources, IsRunning(s) PROVE Verdict(s) = "live"
      <3>1. PICK p \in Owners : task[p][s] \in {"in", "graph"}
        BY <2>1 DEF IsRunning
      <3>2. lockHeld[s] = p /\ lockHeld[s] # NoOwner
        BY <3>1, NoneRuns DEF LocksFit
      <3> QED BY <3>2 DEF Verdict
    <2>2. ASSUME NEW s \in ReportedSources, Verdict(s) = "live"
          PROVE  IsRunning(s) \/ s \in reborn[file.owner] \/ (fresh /\ alive[file.owner] /\ ~going[file.owner])
      <3>1. CASE lockHeld[s] # NoOwner
        <4>1. PICK p \in Owners : lockHeld[s] = p
          BY <3>1
        <4>2. task[p][s] \in {"in", "graph"}
          BY <4>1 DEF LocksFit
        <4>3. going[p]
          BY <4>2 DEF MemFits, NoOwner
        <4> QED BY <4>2, <4>3 DEF IsRunning
      <3>2. CASE lockHeld[s] = NoOwner
        <4>1. Shows(file, s) /\ ProcessAlive(file) /\ fresh
          BY <2>2, <3>2 DEF Verdict, Shows, NoOwner
        <4>2. file.running /\ alive[file.owner] /\ pid[file.owner] = file.pid /\ file.owner \in Owners
          BY <4>1 DEF ProcessAlive, FileFits
        <4>3. going[file.owner] => task[file.owner][s] = "in" \/ s \in reborn[file.owner]
          BY <4>1, <4>2 DEF FileFits, MemFits, RunFits
        <4> QED BY <4>1, <4>2, <4>3 DEF IsRunning
      <3> QED BY <3>1, <3>2
    <2>3. \A p \in Owners : going[p] => mem[p].ok + mem[p].bad = ended[p]
      BY DEF MemFits, RunFits
    <2>4. deaths = 0 /\ (\A p \in Owners : ~going[p]) => ~file.running /\ ~uiActive
      BY DEF NobodyDied, FileFits
    <2>5. LastRun = "crashed" => deaths > 0
      <3>1. ASSUME LastRun = "crashed" PROVE file.running /\ ~ProcessAlive(file)
        BY <3>1 DEF LastRun, RunType, NoOwner
      <3>2. deaths = 0 /\ file.running => ProcessAlive(file)
        BY DEF NobodyDied, ProcessAlive, FileFits
      <3> QED BY <3>1, <3>2
    <2> QED BY <2>1, <2>2, <2>3, <2>4, <2>5 DEF ReportRight
  <1> QED BY <1>1, ReportInvariant, PTL

-----------------------------------------------------------------------------
(* The status of a server beside the passes of other hosts.                  *)

StatusNotes == [token : Nat, active : BOOLEAN, fresh : BOOLEAN]
StatusCounts == [files : Nat, records : Nat]
ReadSteps ==
    {"idle", "files", "reuse", "records", "recheck", "confirm", "graphs", "notes", "done"}

ReadFields ==
    {"step", "heavy", "states", "builds", "wanted", "counts", "graphs", "missing", "unsure", "notes"}

StatusTypes ==
    /\ served \in [Hosted -> Nat \ {0}] /\ kept \in [Hosted -> SUBSET Nat]
    /\ token \in [Hosted -> Nat] /\ orderly \in [Hosted -> SUBSET Nat]
    /\ runOf \in [Hosted -> {"none", "in", "ended", "dead"}]
    /\ note \in [Hosted -> StatusNotes] /\ lateNote \in [Hosted -> StatusNotes]
    /\ muddled \in BOOLEAN
    /\ DOMAIN read = ReadFields
    /\ read.step \in ReadSteps /\ read.heavy \in BOOLEAN
    /\ read.builds \in [Hosted -> Nat] /\ read.counts \in [Hosted -> StatusCounts]
    /\ read.wanted \subseteq Hosted /\ read.unsure \subseteq Hosted
    /\ session.builds \in [Hosted -> Nat] /\ session.counts \in [Hosted -> StatusCounts]

\* A heartbeat is of a pass that started, and of the one that runs; that of a
\* pass that ended in order says so, as long as no write went astray.
NotesFit ==
    \A s \in Hosted :
        /\ note[s].token <= token[s] /\ lateNote[s].token <= token[s]
        /\ runOf[s] = "in" => note[s].token = token[s] /\ token[s] \notin orderly[s]
        /\ \A n \in orderly[s] : n <= token[s]
        /\ ~muddled => lateNote[s] = NoNote
        /\ ~muddled /\ note[s].token \in orderly[s] => ~note[s].active

BuildsKept == \A s \in Hosted : served[s] \in kept[s]

Whole(r, s) == r.counts[s] = [files |-> r.builds[s], records |-> r.builds[s]]

\* The counts of a build that is still the active one are whole, so far as they
\* were read; the others are asked for again.
ReadFits ==
    /\ read.step # "idle" => \A s \in Hosted : read.builds[s] \in 1 .. served[s]
    /\ read.step \in {"files", "records", "recheck", "confirm"} =>
          \A s \in Hosted \ read.wanted : Whole(read, s)
    /\ read.step = "records" =>
          \A s \in Hosted : read.builds[s] = served[s] => read.counts[s].files = read.builds[s]
    /\ read.step \in {"recheck", "confirm"} =>
          \A s \in Hosted : read.builds[s] = served[s] => Whole(read, s)
    /\ read.step = "recheck" => read.wanted = Hosted
    /\ read.step \in {"idle", "files", "reuse", "records", "recheck", "confirm"} =>
          read.unsure = {} /\ read.missing = {}
    /\ read.step \in {"graphs", "notes", "done"} /\ "published" \notin read.missing =>
          \A s \in Hosted \ read.unsure : Whole(read, s)
    /\ \A s \in read.unsure : read.builds[s] < served[s]

\* What --watch keeps is whole where it is of the active build.
SessionFits ==
    /\ \A s \in Hosted : session.builds[s] \in 0 .. served[s]
    /\ \A s \in Hosted : session.builds[s] = served[s] => Whole(session, s)
    /\ read.step = "reuse" => \A s \in Hosted : session.builds[s] = read.builds[s] => Whole(session, s)

StatusInv == StatusTypes /\ NotesFit /\ BuildsKept /\ ReadFits /\ SessionFits

(* What the status command knows before it reads.                            *)
LEMMA UnreadFields ==
    /\ DOMAIN Unread = ReadFields /\ Unread.step = "idle" /\ Unread.heavy = TRUE
    /\ Unread.builds = [s \in Hosted |-> 0] /\ Unread.wanted = {} /\ Unread.unsure = {} /\ Unread.missing = {}
    /\ Unread.builds \in [Hosted -> Nat] /\ Unread.counts \in [Hosted -> StatusCounts]
  <1>1. NoCounts \in [Hosted -> StatusCounts]
    BY DEF NoCounts, StatusCounts
  <1> QED BY <1>1 DEF Unread, ReadFields, NoBuildYet


(* Nothing is read and no pass runs at the start.                            *)
LEMMA StatusStarts == StatusInit => StatusInv
  <1> SUFFICES ASSUME StatusInit PROVE StatusInv
    OBVIOUS
  <1>1. NoNote \in StatusNotes /\ NoCounts \in [Hosted -> StatusCounts]
    BY DEF NoNote, NoCounts, StatusNotes, StatusCounts
  <1>2. StatusTypes
    <2>1. read.step \in ReadSteps /\ read.heavy \in BOOLEAN /\ read.builds \in [Hosted -> Nat]
      BY DEF StatusInit, Unread, ReadSteps, NoBuildYet
    <2>2. read.counts \in [Hosted -> StatusCounts] /\ read.wanted \subseteq Hosted /\ read.unsure \subseteq Hosted
      BY <1>1 DEF StatusInit, Unread
    <2>3. session.builds \in [Hosted -> Nat] /\ session.counts \in [Hosted -> StatusCounts]
      BY <1>1 DEF StatusInit, NoSession, NoBuildYet
    <2>4. /\ served \in [Hosted -> Nat \ {0}] /\ kept \in [Hosted -> SUBSET Nat]
          /\ token \in [Hosted -> Nat] /\ orderly \in [Hosted -> SUBSET Nat]
          /\ runOf \in [Hosted -> {"none", "in", "ended", "dead"}]
      BY DEF StatusInit
    <2>5. note \in [Hosted -> StatusNotes] /\ lateNote \in [Hosted -> StatusNotes] /\ muddled \in BOOLEAN
      BY <1>1 DEF StatusInit
    <2>6. DOMAIN read = ReadFields
      BY UnreadFields DEF StatusInit
    <2> QED BY <2>1, <2>2, <2>3, <2>4, <2>5, <2>6 DEF StatusTypes
  <1>3. NotesFit /\ BuildsKept
    BY DEF StatusInit, NotesFit, BuildsKept, NoNote
  <1>4. ReadFits
    BY DEF StatusInit, ReadFits, Unread
  <1>5. SessionFits
    BY DEF StatusInit, SessionFits, Unread, NoSession, NoCounts, NoBuildYet, Whole
  <1> QED BY <1>2, <1>3, <1>4, <1>5 DEF StatusInv

(* A pass that starts writes the first heartbeat of a new token.             *)
LEMMA StartHostedStep ==
  ASSUME StatusInv, NEW s \in Contended, StartHosted(s) PROVE StatusInv'
  <1> USE StatusAssumption DEF StatusInv, StatusTypes
  <1>0. s \in Hosted
    OBVIOUS
  <1>1. StatusTypes'
    <2>1. [Beaten(s) EXCEPT !.token = @ + 1] \in StatusNotes
      <3>1. Beaten(s) \in StatusNotes
        BY <1>0 DEF Beaten, StatusNotes
      <3>2. \A b \in StatusNotes : [b EXCEPT !.token = @ + 1] \in StatusNotes
        BY SMTT(30) DEF StatusNotes
      <3> QED BY <3>1, <3>2
    <2>2. note' \in [Hosted -> StatusNotes]
      BY <1>0, <2>1 DEF StartHosted, Fenced
    <2> QED BY <1>0, <2>2 DEF StartHosted, catalogVars
  <1>2. NotesFit'
    BY <1>0 DEF StartHosted, catalogVars, hostVars, Slip, Fenced, Beaten, NotesFit, StatusNotes, NoNote
  <1>3. BuildsKept'
    BY <1>0 DEF StartHosted, catalogVars, hostVars, Slip, Fenced, Beaten, BuildsKept
  <1>4. ReadFits'
    BY <1>0 DEF StartHosted, catalogVars, hostVars, Slip, Fenced, Beaten, ReadFits, Whole
  <1>5. SessionFits'
    BY <1>0 DEF StartHosted, catalogVars, hostVars, Slip, Fenced, Beaten, SessionFits, Whole
  <1> QED BY <1>1, <1>2, <1>3, <1>4, <1>5

(* A heartbeat is of the token of the pass that runs.                        *)
LEMMA BeatRunStep ==
  ASSUME StatusInv, NEW s \in Contended, BeatRun(s) PROVE StatusInv'
  <1> USE StatusAssumption DEF StatusInv, StatusTypes
  <1>0. s \in Hosted
    OBVIOUS
  <1>1. StatusTypes'
    <2>1. Beaten(s) \in StatusNotes
      BY <1>0 DEF Beaten, StatusNotes
    <2>2. note' \in [Hosted -> StatusNotes] /\ lateNote' \in [Hosted -> StatusNotes]
      BY <1>0, <2>1 DEF BeatRun, Fenced
    <2>3. muddled' \in BOOLEAN
      BY DEF BeatRun
    <2> QED BY <1>0, <2>2, <2>3 DEF BeatRun, catalogVars
  <1>2. NotesFit'
    <2>1. Beaten(s).token = token[s] /\ note[s].token = token[s] /\ token[s] \in Nat
      BY <1>0 DEF BeatRun, NotesFit, Beaten
    <2>2. CASE UNCHANGED <<lateNote, muddled>> /\ note' = [note EXCEPT ![s] = Beaten(s)]
      BY <1>0, <2>1, <2>2 DEF BeatRun, NotesFit
    <2>3. CASE UNCHANGED note /\ muddled' = TRUE /\ lateNote' = [lateNote EXCEPT ![s] = Beaten(s)]
      BY <1>0, <2>1, <2>3 DEF BeatRun, NotesFit
    <2>4. Fenced(note[s], Beaten(s)) = Beaten(s)
      BY <2>1 DEF Fenced
    <2> QED BY <2>2, <2>3, <2>4 DEF BeatRun
  <1>3. BuildsKept'
    BY <1>0 DEF BeatRun, catalogVars, hostVars, Slip, Fenced, Beaten, BuildsKept
  <1>4. ReadFits'
    BY <1>0 DEF BeatRun, catalogVars, hostVars, Slip, Fenced, Beaten, ReadFits, Whole
  <1>5. SessionFits'
    BY <1>0 DEF BeatRun, catalogVars, hostVars, Slip, Fenced, Beaten, SessionFits, Whole
  <1> QED BY <1>1, <1>2, <1>3, <1>4, <1>5

(* A heartbeat that arrives late is of an older token, or of the same one.   *)
LEMMA ArriveLateStep ==
  ASSUME StatusInv, NEW s \in Contended, ArriveLate(s) PROVE StatusInv'
  <1> USE StatusAssumption DEF StatusInv, StatusTypes
  <1>0. s \in Hosted
    OBVIOUS
  <1>1. StatusTypes'
    BY <1>0 DEF ArriveLate, catalogVars, hostVars, Slip, Fenced, Beaten, StatusNotes, NoNote
  <1>2. NotesFit'
    <2>1. muddled /\ UNCHANGED <<token, runOf, orderly, muddled>>
      BY <1>0 DEF ArriveLate, NotesFit
    <2>2. lateNote' = [lateNote EXCEPT ![s] = NoNote] /\ NoNote.token = 0
      BY DEF ArriveLate, NoNote
    <2>3. note[s].token \in Nat /\ lateNote[s].token \in Nat /\ token[s] \in Nat
      BY <1>0 DEF StatusNotes
    <2>4. CASE note[s].token > lateNote[s].token
      <3>1. note' = [note EXCEPT ![s] = note[s]]
        BY <2>4 DEF ArriveLate, Fenced
      <3> QED BY <1>0, <2>1, <2>2, <2>3, <3>1 DEF NotesFit
    <2>5. CASE note[s].token <= lateNote[s].token
      <3>1. ~(note[s].token > lateNote[s].token)
        BY <2>3, <2>5
      <3>2. note' = [note EXCEPT ![s] = lateNote[s]]
        BY <3>1 DEF ArriveLate, Fenced
      <3>3. note'[s].token = lateNote[s].token /\ \A x \in Hosted \ {s} : note'[x] = note[x]
        BY <1>0, <3>2
      <3>4. runOf[s] = "in" => lateNote[s].token = token[s]
        <4>1. lateNote[s].token <= token[s] /\ (runOf[s] = "in" => note[s].token = token[s])
          BY <1>0 DEF NotesFit
        <4> QED BY <2>3, <2>5, <4>1
      <3>5. \A x \in Hosted : lateNote'[x] = lateNote[x] \/ lateNote'[x].token = 0
        BY <2>1, <2>2
      <3>6. ASSUME NEW x \in Hosted
            PROVE  /\ note'[x].token <= token[x] /\ lateNote'[x].token <= token[x]
                   /\ runOf[x] = "in" => note'[x].token = token[x] /\ token[x] \notin orderly[x]
                   /\ \A n \in orderly[x] : n <= token[x]
        <4>1. token[x] \in Nat /\ 0 <= token[x]
          OBVIOUS
        <4>2. lateNote'[x].token <= token[x]
          BY <3>5, <4>1 DEF NotesFit
        <4> QED BY <3>3, <3>4, <4>1, <4>2 DEF NotesFit
      <3> QED BY <2>1, <3>6 DEF NotesFit
    <2> QED BY <2>3, <2>4, <2>5
  <1>3. BuildsKept'
    BY <1>0 DEF ArriveLate, catalogVars, hostVars, Slip, Fenced, Beaten, BuildsKept
  <1>4. ReadFits'
    BY <1>0 DEF ArriveLate, catalogVars, hostVars, Slip, Fenced, Beaten, ReadFits, Whole
  <1>5. SessionFits'
    BY <1>0 DEF ArriveLate, catalogVars, hostVars, Slip, Fenced, Beaten, SessionFits, Whole
  <1> QED BY <1>1, <1>2, <1>3, <1>4, <1>5

(* A publication keeps the build before and the new one.                     *)
LEMMA PublishHostedStep ==
  ASSUME StatusInv, NEW s \in Contended, PublishHosted(s) PROVE StatusInv'
  <1> USE StatusAssumption DEF StatusInv, StatusTypes
  <1>0. s \in Hosted
    OBVIOUS
  <1>1. StatusTypes'
    BY <1>0 DEF PublishHosted, catalogVars, hostVars, Slip, Fenced, Beaten, StatusNotes, NoNote
  <1>2. NotesFit'
    BY <1>0 DEF PublishHosted, catalogVars, hostVars, Slip, Fenced, Beaten, NotesFit, StatusNotes, NoNote
  <1>3. BuildsKept'
    BY <1>0 DEF PublishHosted, catalogVars, hostVars, Slip, Fenced, Beaten, BuildsKept
  <1>4. ReadFits'
    BY <1>0 DEF PublishHosted, catalogVars, hostVars, Slip, Fenced, Beaten, ReadFits, Whole
  <1>5. SessionFits'
    BY <1>0 DEF PublishHosted, catalogVars, hostVars, Slip, Fenced, Beaten, SessionFits, Whole
  <1> QED BY <1>1, <1>2, <1>3, <1>4, <1>5

(* A collection keeps the active build.                                      *)
LEMMA CollectBuildStep ==
  ASSUME StatusInv, NEW s \in Contended, CollectBuild(s) PROVE StatusInv'
  <1> USE StatusAssumption DEF StatusInv, StatusTypes
  <1>0. s \in Hosted
    OBVIOUS
  <1>1. StatusTypes'
    BY <1>0 DEF CollectBuild, catalogVars, hostVars, Slip, Fenced, Beaten, StatusNotes, NoNote
  <1>2. NotesFit'
    BY <1>0 DEF CollectBuild, catalogVars, hostVars, Slip, Fenced, Beaten, NotesFit, StatusNotes, NoNote
  <1>3. BuildsKept'
    BY <1>0 DEF CollectBuild, catalogVars, hostVars, Slip, Fenced, Beaten, BuildsKept
  <1>4. ReadFits'
    BY <1>0 DEF CollectBuild, catalogVars, hostVars, Slip, Fenced, Beaten, ReadFits, Whole
  <1>5. SessionFits'
    BY <1>0 DEF CollectBuild, catalogVars, hostVars, Slip, Fenced, Beaten, SessionFits, Whole
  <1> QED BY <1>1, <1>2, <1>3, <1>4, <1>5

(* A promotion of a graph leaves the builds alone.                           *)
LEMMA PromoteGraphStep ==
  ASSUME StatusInv, NEW s \in Contended, PromoteGraph(s) PROVE StatusInv'
  <1> USE StatusAssumption DEF StatusInv, StatusTypes
  <1>0. s \in Hosted
    OBVIOUS
  <1>1. StatusTypes'
    BY <1>0 DEF PromoteGraph, catalogVars, hostVars, Slip, Fenced, Beaten, StatusNotes, NoNote
  <1>2. NotesFit'
    BY <1>0 DEF PromoteGraph, catalogVars, hostVars, Slip, Fenced, Beaten, NotesFit, StatusNotes, NoNote
  <1>3. BuildsKept'
    BY <1>0 DEF PromoteGraph, catalogVars, hostVars, Slip, Fenced, Beaten, BuildsKept
  <1>4. ReadFits'
    BY <1>0 DEF PromoteGraph, catalogVars, hostVars, Slip, Fenced, Beaten, ReadFits, Whole
  <1>5. SessionFits'
    BY <1>0 DEF PromoteGraph, catalogVars, hostVars, Slip, Fenced, Beaten, SessionFits, Whole
  <1> QED BY <1>1, <1>2, <1>3, <1>4, <1>5

(* A failed build leaves the active one alone.                               *)
LEMMA FailBuildStep ==
  ASSUME StatusInv, NEW s \in Contended, FailBuild(s) PROVE StatusInv'
  <1> USE StatusAssumption DEF StatusInv, StatusTypes
  <1>0. s \in Hosted
    OBVIOUS
  <1>1. StatusTypes'
    BY <1>0 DEF FailBuild, catalogVars, hostVars, Slip, Fenced, Beaten, StatusNotes, NoNote
  <1>2. NotesFit'
    BY <1>0 DEF FailBuild, catalogVars, hostVars, Slip, Fenced, Beaten, NotesFit, StatusNotes, NoNote
  <1>3. BuildsKept'
    BY <1>0 DEF FailBuild, catalogVars, hostVars, Slip, Fenced, Beaten, BuildsKept
  <1>4. ReadFits'
    BY <1>0 DEF FailBuild, catalogVars, hostVars, Slip, Fenced, Beaten, ReadFits, Whole
  <1>5. SessionFits'
    BY <1>0 DEF FailBuild, catalogVars, hostVars, Slip, Fenced, Beaten, SessionFits, Whole
  <1> QED BY <1>1, <1>2, <1>3, <1>4, <1>5

(* A pass that ends writes that it does not run, or the write goes astray.   *)
LEMMA EndNoteStep ==
  ASSUME StatusInv, NEW s \in Contended, EndNote(s) PROVE StatusInv'
  <1> USE StatusAssumption DEF StatusInv, StatusTypes
  <1>0. s \in Hosted
    OBVIOUS
  <1>1. StatusTypes'
    <2>1. [Beaten(s) EXCEPT !.active = FALSE] \in StatusNotes
      BY <1>0 DEF Beaten, StatusNotes
    <2>2. note' \in [Hosted -> StatusNotes]
      BY <1>0, <2>1 DEF EndNote, Fenced
    <2>3. muddled' \in BOOLEAN
      BY DEF EndNote
    <2>4. orderly' \in [Hosted -> SUBSET Nat]
      BY <1>0 DEF EndNote
    <2> QED BY <1>0, <2>2, <2>3, <2>4 DEF EndNote, catalogVars
  <1>2. NotesFit'
    <2> DEFINE last == [Beaten(s) EXCEPT !.active = FALSE]
    <2>1. last.token = token[s] /\ ~last.active /\ note[s].token = token[s] /\ token[s] \in Nat
      BY <1>0 DEF EndNote, NotesFit, Beaten
    <2>2. orderly' = [orderly EXCEPT ![s] = @ \cup {token[s]}] /\ runOf' = [runOf EXCEPT ![s] = "ended"] /\ UNCHANGED <<token, lateNote>>
      BY DEF EndNote
    <2>3. \/ UNCHANGED muddled /\ note' = [note EXCEPT ![s] = last]
          \/ muddled' = TRUE /\ UNCHANGED note
      BY <2>1 DEF EndNote, Fenced
    <2> HIDE DEF last
    <2>4. CASE UNCHANGED muddled /\ note' = [note EXCEPT ![s] = last]
      BY <1>0, <2>1, <2>2, <2>4 DEF NotesFit
    <2>5. CASE muddled' = TRUE /\ UNCHANGED note
      BY <1>0, <2>1, <2>2, <2>5 DEF NotesFit
    <2> QED BY <2>3, <2>4, <2>5
  <1>3. BuildsKept'
    BY <1>0 DEF EndNote, catalogVars, hostVars, Slip, Fenced, Beaten, BuildsKept
  <1>4. ReadFits'
    BY <1>0 DEF EndNote, catalogVars, hostVars, Slip, Fenced, Beaten, ReadFits, Whole
  <1>5. SessionFits'
    BY <1>0 DEF EndNote, catalogVars, hostVars, Slip, Fenced, Beaten, SessionFits, Whole
  <1> QED BY <1>1, <1>2, <1>3, <1>4, <1>5

(* A lease that is given back leaves the rest alone.                         *)
LEMMA GiveBackStep ==
  ASSUME StatusInv, NEW s \in Contended, GiveBack(s) PROVE StatusInv'
  <1> USE StatusAssumption DEF StatusInv, StatusTypes
  <1>0. s \in Hosted
    OBVIOUS
  <1>1. StatusTypes'
    BY <1>0 DEF GiveBack, catalogVars, hostVars, Slip, Fenced, Beaten, StatusNotes, NoNote
  <1>2. NotesFit'
    BY <1>0 DEF GiveBack, catalogVars, hostVars, Slip, Fenced, Beaten, NotesFit, StatusNotes, NoNote
  <1>3. BuildsKept'
    BY <1>0 DEF GiveBack, catalogVars, hostVars, Slip, Fenced, Beaten, BuildsKept
  <1>4. ReadFits'
    BY <1>0 DEF GiveBack, catalogVars, hostVars, Slip, Fenced, Beaten, ReadFits, Whole
  <1>5. SessionFits'
    BY <1>0 DEF GiveBack, catalogVars, hostVars, Slip, Fenced, Beaten, SessionFits, Whole
  <1> QED BY <1>1, <1>2, <1>3, <1>4, <1>5

(* A pass that dies writes nothing.                                          *)
LEMMA DieOutStep ==
  ASSUME StatusInv, NEW s \in Contended, DieOut(s) PROVE StatusInv'
  <1> USE StatusAssumption DEF StatusInv, StatusTypes
  <1>0. s \in Hosted
    OBVIOUS
  <1>1. StatusTypes'
    BY <1>0 DEF DieOut, catalogVars, hostVars, Slip, Fenced, Beaten, StatusNotes, NoNote
  <1>2. NotesFit'
    BY <1>0 DEF DieOut, catalogVars, hostVars, Slip, Fenced, Beaten, NotesFit, StatusNotes, NoNote
  <1>3. BuildsKept'
    BY <1>0 DEF DieOut, catalogVars, hostVars, Slip, Fenced, Beaten, BuildsKept
  <1>4. ReadFits'
    BY <1>0 DEF DieOut, catalogVars, hostVars, Slip, Fenced, Beaten, ReadFits, Whole
  <1>5. SessionFits'
    BY <1>0 DEF DieOut, catalogVars, hostVars, Slip, Fenced, Beaten, SessionFits, Whole
  <1> QED BY <1>1, <1>2, <1>3, <1>4, <1>5

(* A heartbeat or a lease that runs out keeps its token.                     *)
LEMMA RunOutStep ==
  ASSUME StatusInv, NEW s \in Contended, RunOut(s) PROVE StatusInv'
  <1> USE StatusAssumption DEF StatusInv, StatusTypes
  <1>0. s \in Hosted
    OBVIOUS
  <1>1. StatusTypes'
    <2>1. [note[s] EXCEPT !.fresh = FALSE] \in StatusNotes
      <3>1. note[s] \in StatusNotes
        BY <1>0
      <3> QED BY <3>1 DEF StatusNotes
    <2>2. note' \in [Hosted -> StatusNotes]
      BY <1>0, <2>1 DEF RunOut
    <2> QED BY <2>2 DEF RunOut, catalogVars
  <1>2. NotesFit'
    <2>1. note[s] \in StatusNotes
      BY <1>0
    <2>2. \A x \in Hosted : note'[x].token = note[x].token /\ note'[x].active = note[x].active
      <3>1. [note[s] EXCEPT !.fresh = FALSE].token = note[s].token /\ [note[s] EXCEPT !.fresh = FALSE].active = note[s].active
        BY <2>1 DEF StatusNotes
      <3>2. note' = note \/ note' = [note EXCEPT ![s] = [note[s] EXCEPT !.fresh = FALSE]]
        BY DEF RunOut
      <3> QED BY <1>0, <3>1, <3>2
    <2>3. UNCHANGED <<token, runOf, lateNote, orderly, muddled>>
      BY DEF RunOut
    <2> QED BY <2>2, <2>3 DEF NotesFit
  <1>3. BuildsKept'
    BY <1>0 DEF RunOut, catalogVars, hostVars, Slip, Fenced, Beaten, BuildsKept
  <1>4. ReadFits'
    BY <1>0 DEF RunOut, catalogVars, hostVars, Slip, Fenced, Beaten, ReadFits, Whole
  <1>5. SessionFits'
    BY <1>0 DEF RunOut, catalogVars, hostVars, Slip, Fenced, Beaten, SessionFits, Whole
  <1> QED BY <1>1, <1>2, <1>3, <1>4, <1>5

(* The catalog is read: every build named is the active one.                 *)
LEMMA ReadStatesStep ==
  ASSUME StatusInv, ReadStates PROVE StatusInv'
  <1> USE DEF StatusInv, StatusTypes
  <1>1. /\ DOMAIN read' = ReadFields
        /\ read'.step \in {"files", "reuse"} /\ read'.heavy \in BOOLEAN
        /\ read'.builds = served /\ read'.wanted = Hosted /\ read'.unsure = {} /\ read'.missing = {}
        /\ read'.counts \in [Hosted -> StatusCounts]
    BY UnreadFields DEF ReadStates, ReadFields
  <1>2. UNCHANGED <<catalogVars, hostVars, session>>
    BY DEF ReadStates, HostsRest
  <1>3. StatusTypes'
    BY <1>1, <1>2 DEF ReadSteps, catalogVars, hostVars
  <1>4. NotesFit' /\ BuildsKept'
    BY <1>2 DEF catalogVars, hostVars, NotesFit, BuildsKept
  <1>5. ReadFits'
    BY <1>1, <1>2 DEF catalogVars, ReadFits
  <1>6. SessionFits'
    BY <1>1, <1>2 DEF catalogVars, SessionFits, Whole
  <1> QED BY <1>3, <1>4, <1>5, <1>6

(* Counts of the session are used where no source was published since.       *)
LEMMA ReuseCountsStep ==
  ASSUME StatusInv, ReuseCounts PROVE StatusInv'
  <1> USE DEF StatusInv, StatusTypes
  <1>1. UNCHANGED <<catalogVars, hostVars, session>>
    BY DEF ReuseCounts, HostsRest
  <1>2. NotesFit' /\ BuildsKept'
    BY <1>1 DEF catalogVars, hostVars, NotesFit, BuildsKept
  <1>3. CASE session.builds = read.builds
    <2>1. /\ DOMAIN read' = ReadFields
          /\ read'.step = "notes" /\ read'.counts = session.counts
          /\ UNCHANGED <<read.heavy, read.builds, read.wanted, read.unsure, read.missing>>
      <3>1. read' = [read EXCEPT !.step = "notes", !.counts = session.counts, !.graphs = session.graphs]
        BY <1>3 DEF ReuseCounts
      <3> QED BY <3>1 DEF ReadFields
    <2>2. StatusTypes'
      BY <1>1, <2>1 DEF ReadSteps, catalogVars, hostVars
    <2>3. \A s \in Hosted : Whole(read, s)'
      BY <1>3, <2>1 DEF ReuseCounts, SessionFits, Whole
    <2>4. ReadFits'
      BY <1>1, <2>1, <2>3 DEF catalogVars, ReadFits, ReuseCounts
    <2>5. SessionFits'
      BY <1>1, <2>1 DEF catalogVars, SessionFits, Whole
    <2> QED BY <1>2, <2>2, <2>4, <2>5
  <1>4. CASE session.builds # read.builds
    <2>1. /\ DOMAIN read' = ReadFields
          /\ read'.step = "files" /\ read'.heavy = TRUE
          /\ read'.builds = served /\ read'.wanted = Hosted /\ read'.unsure = {} /\ read'.missing = {}
          /\ read'.counts \in [Hosted -> StatusCounts]
      <3>1. read' = [Unread EXCEPT !.step = "files", !.states = [s \in Hosted |-> StateOf(s)],
                                   !.builds = served, !.wanted = Hosted]
        BY <1>4 DEF ReuseCounts
      <3> QED BY <3>1, UnreadFields DEF ReadFields
    <2>2. StatusTypes'
      BY <1>1, <2>1 DEF ReadSteps, catalogVars, hostVars
    <2>3. ReadFits'
      BY <1>1, <2>1 DEF catalogVars, ReadFits
    <2>4. SessionFits'
      BY <1>1, <2>1 DEF catalogVars, SessionFits, Whole
    <2> QED BY <1>2, <2>2, <2>3, <2>4
  <1> QED BY <1>3, <1>4

(* Files are counted: of a build that is still active, all of them.          *)
LEMMA CountFilesStep ==
  ASSUME StatusInv, CountFiles PROVE StatusInv'
  <1> USE DEF StatusInv, StatusTypes
  <1>1. UNCHANGED <<catalogVars, hostVars, session>>
    BY DEF CountFiles, HostsRest
  <1>2. NotesFit' /\ BuildsKept'
    BY <1>1 DEF catalogVars, hostVars, NotesFit, BuildsKept
  <1>3. DOMAIN read' = ReadFields /\ UNCHANGED <<read.heavy, read.builds, read.wanted, read.unsure>>
    BY ZenonT(30) DEF CountFiles, ReadFields
  <1>4. read.step = "files"
    BY DEF CountFiles
  <1>6. CASE /\ read'.step = "records" /\ read'.missing = read.missing
             /\ read'.counts = [s \in Hosted |-> IF s \in read.wanted THEN [read.counts[s] EXCEPT !.files = Found(s)]
                                                 ELSE read.counts[s]]
    <2>1. \A s \in Hosted : Found(s) \in Nat /\ (read.builds[s] = served[s] => Found(s) = read.builds[s])
      BY DEF Found, BuildsKept
    <2>2. read'.counts \in [Hosted -> StatusCounts]
      <3>1. \A s \in Hosted : [read.counts[s] EXCEPT !.files = Found(s)] \in StatusCounts
        BY <2>1 DEF StatusCounts
      <3> QED BY ZenonT(30), <1>6, <3>1
    <2>3. \A s \in Hosted : read.builds[s] = served[s] => read'.counts[s].files = read.builds[s]
      <3> TAKE s \in Hosted
      <3>1. CASE s \in read.wanted
        BY <1>6, <2>1, <3>1 DEF StatusCounts
      <3>2. CASE s \notin read.wanted
        <4>1. Whole(read, s) /\ read'.counts[s] = read.counts[s]
          BY <1>4, <1>6, <3>2 DEF ReadFits
        <4> QED BY <4>1 DEF Whole
      <3> QED BY <3>1, <3>2
    <2>4. \A s \in Hosted \ read.wanted : read'.counts[s] = read.counts[s]
      BY <1>6
    <2>5. StatusTypes'
      BY <1>1, <1>3, <1>6, <2>2 DEF ReadSteps, catalogVars, hostVars
    <2>6. ReadFits'
      BY <1>1, <1>3, <1>4, <1>6, <2>3, <2>4 DEF catalogVars, ReadFits, Whole
    <2>7. SessionFits'
      BY <1>1, <1>6 DEF catalogVars, SessionFits, Whole
    <2> QED BY <1>2, <2>5, <2>6, <2>7
  <1>7. CASE read'.step = "notes" /\ read'.missing = read.missing \cup {"published"} /\ read'.counts = read.counts
    <2>1. StatusTypes'
      BY <1>1, <1>3, <1>7 DEF ReadSteps, catalogVars, hostVars
    <2>2. ReadFits'
      BY <1>1, <1>3, <1>4, <1>7 DEF catalogVars, ReadFits
    <2>3. SessionFits'
      BY <1>1, <1>7 DEF catalogVars, SessionFits, Whole
    <2> QED BY <1>2, <2>1, <2>2, <2>3
  <1> QED BY <1>6, <1>7 DEF CountFiles, ReadFields

(* Records are counted: of a build that is still active, all of them.        *)
LEMMA CountRecordsStep ==
  ASSUME StatusInv, CountRecords PROVE StatusInv'
  <1> USE DEF StatusInv, StatusTypes
  <1>1. UNCHANGED <<catalogVars, hostVars, session>>
    BY DEF CountRecords, HostsRest
  <1>2. NotesFit' /\ BuildsKept'
    BY <1>1 DEF catalogVars, hostVars, NotesFit, BuildsKept
  <1>3. /\ DOMAIN read' = ReadFields /\ UNCHANGED <<read.heavy, read.builds, read.wanted, read.unsure, read.missing>>
        /\ read.step = "records" /\ read'.step = IF read.wanted = Hosted THEN "recheck" ELSE "confirm"
        /\ read'.counts = [s \in Hosted |-> IF s \in read.wanted THEN [read.counts[s] EXCEPT !.records = Found(s)]
                                            ELSE read.counts[s]]
    BY DEF CountRecords, ReadFields
  <1>4. \A s \in Hosted : Found(s) \in Nat /\ (read.builds[s] = served[s] => Found(s) = read.builds[s])
    BY DEF Found, BuildsKept
  <1>5. read'.counts \in [Hosted -> StatusCounts]
    <2>1. \A s \in Hosted : [read.counts[s] EXCEPT !.records = Found(s)] \in StatusCounts
      BY <1>4 DEF StatusCounts
    <2> QED BY ZenonT(30), <1>3, <2>1
  <1>6. \A s \in Hosted : read.builds[s] = served[s] => Whole(read, s)'
    <2> SUFFICES ASSUME NEW s \in Hosted, read.builds[s] = served[s] PROVE Whole(read, s)'
      OBVIOUS
    <2>1. CASE s \in read.wanted
      <3>1. read.counts[s].files = read.builds[s] /\ read.counts[s] \in StatusCounts
        BY <1>3 DEF ReadFits
      <3>2. read'.counts[s] = [read.counts[s] EXCEPT !.records = read.builds[s]]
        BY <1>3, <1>4, <2>1
      <3>3. read'.builds[s] = read.builds[s]
        BY <1>3
      <3> QED BY <3>1, <3>2, <3>3 DEF Whole, StatusCounts
    <2>2. CASE s \notin read.wanted
      BY <1>3, <2>2 DEF ReadFits, Whole
    <2> QED BY <2>1, <2>2
  <1>7. \A s \in Hosted \ read.wanted : read'.counts[s] = read.counts[s]
    BY <1>3
  <1>8. StatusTypes'
    BY <1>1, <1>3, <1>5 DEF ReadSteps, catalogVars, hostVars
  <1>9. ReadFits'
    <2>1. /\ read.step # "idle" /\ read'.step \in {"recheck", "confirm"}
          /\ read'.step = "recheck" => read'.wanted = Hosted
      BY <1>3
    <2>2. served' = served /\ read'.builds = read.builds /\ read'.wanted = read.wanted
      BY <1>1, <1>3 DEF catalogVars
    <2>3. \A s \in Hosted \ read.wanted : Whole(read, s)'
      BY <1>3, <1>7, <2>2 DEF ReadFits, Whole
    <2>4. /\ \A s \in Hosted : read.builds[s] \in 1 .. served[s]
          /\ read'.unsure = {} /\ read'.missing = {}
      BY <1>3, <2>1 DEF ReadFits
    <2> HIDE DEF StatusInv, StatusTypes
    <2>5. /\ \A s \in Hosted : read'.builds[s] \in 1 .. served'[s]
          /\ \A s \in Hosted : read'.builds[s] = served'[s] => Whole(read, s)'
      BY <1>6, <2>2, <2>4
    <2>6. \A s \in Hosted \ read'.wanted : Whole(read, s)'
      BY <2>2, <2>3
    <2> QED BY <2>1, <2>4, <2>5, <2>6 DEF ReadFits
  <1>10. SessionFits'
    BY <1>1, <1>3 DEF catalogVars, SessionFits, Whole
  <1> QED BY <1>2, <1>8, <1>9, <1>10

(* The catalog is read again: what did not change is whole.                  *)
LEMMA AskAgainStep ==
  ASSUME StatusInv, AskAgain PROVE StatusInv'
  <1> USE DEF StatusInv, StatusTypes
  <1>1. UNCHANGED <<catalogVars, hostVars, session>>
    BY DEF AskAgain, HostsRest
  <1>2. NotesFit' /\ BuildsKept'
    BY <1>1 DEF catalogVars, hostVars, NotesFit, BuildsKept
  <1> DEFINE changed == {s \in Hosted : read.builds[s] # served[s]}
  <1>3. /\ DOMAIN read' = ReadFields /\ UNCHANGED <<read.heavy, read.counts, read.unsure, read.missing>>
        /\ read.step = "recheck" /\ read'.step \in {"graphs", "files"}
    BY DEF AskAgain, ReadFields
  <1>4. \A s \in Hosted \ changed : Whole(read, s)
    BY <1>3 DEF ReadFits
  <1>5. CASE changed = {}
    <2>1. UNCHANGED <<read.builds, read.wanted>> /\ read'.step = "graphs"
      BY <1>5 DEF AskAgain, ReadFields
    <2>2. StatusTypes'
      BY <1>1, <1>3, <2>1 DEF ReadSteps, catalogVars, hostVars
    <2>3. ReadFits'
      BY <1>1, <1>3, <1>4, <1>5, <2>1 DEF catalogVars, ReadFits, Whole
    <2>4. SessionFits'
      BY <1>1, <2>1 DEF catalogVars, SessionFits, Whole
    <2> QED BY <1>2, <2>2, <2>3, <2>4
  <1>6. CASE changed # {}
    <2>1. /\ read'.step = "files" /\ read'.wanted = changed
          /\ read'.builds = [s \in Hosted |-> IF s \in changed THEN served[s] ELSE read.builds[s]]
      BY <1>6 DEF AskAgain, ReadFields
    <2>2. \A s \in Hosted \ changed : Whole(read, s)'
      BY <1>3, <1>4, <2>1 DEF Whole
    <2>3. read'.builds = served
      BY <2>1
    <2>4. StatusTypes'
      BY <1>1, <1>3, <2>1, <2>3 DEF ReadSteps, catalogVars, hostVars
    <2>5. ReadFits'
      BY <1>1, <1>3, <2>1, <2>2, <2>3 DEF catalogVars, ReadFits
    <2>6. SessionFits'
      BY <1>1, <2>1 DEF catalogVars, SessionFits, Whole
    <2> QED BY <1>2, <2>4, <2>5, <2>6
  <1> QED BY <1>5, <1>6

(* The catalog is read a third time: what changed again is unsure.           *)
LEMMA ConfirmStep ==
  ASSUME StatusInv, Confirm PROVE StatusInv'
  <1> USE DEF StatusInv, StatusTypes
  <1>1. UNCHANGED <<catalogVars, hostVars, session>>
    BY DEF Confirm, HostsRest
  <1>2. /\ DOMAIN read' = ReadFields /\ UNCHANGED <<read.heavy, read.builds, read.counts, read.wanted, read.missing>>
        /\ read.step = "confirm" /\ read'.step = "graphs"
        /\ read'.unsure = {s \in read.wanted : read.builds[s] # served[s]}
    BY DEF Confirm, ReadFields
  <1>3. NotesFit' /\ BuildsKept'
    BY <1>1 DEF catalogVars, hostVars, NotesFit, BuildsKept
  <1>4. \A s \in Hosted \ read'.unsure : Whole(read, s)'
    BY <1>2 DEF ReadFits, Whole
  <1>5. \A s \in read'.unsure : read.builds[s] < served[s]
    BY <1>2 DEF ReadFits
  <1>6. StatusTypes'
    BY <1>1, <1>2 DEF ReadSteps, catalogVars, hostVars
  <1>7. ReadFits'
    BY <1>1, <1>2, <1>4, <1>5 DEF catalogVars, ReadFits
  <1>8. SessionFits'
    BY <1>1, <1>2 DEF catalogVars, SessionFits, Whole
  <1> QED BY <1>3, <1>6, <1>7, <1>8

(* Counting graphs leaves the other counts alone.                            *)
LEMMA CountGraphsStep ==
  ASSUME StatusInv, CountGraphs PROVE StatusInv'
  <1> USE DEF StatusInv, StatusTypes
  <1>1. UNCHANGED <<catalogVars, hostVars, session>>
    BY DEF CountGraphs, HostsRest
  <1>2. /\ DOMAIN read' = ReadFields /\ UNCHANGED <<read.heavy, read.builds, read.counts, read.wanted, read.unsure, read.missing>>
        /\ read.step = "graphs" /\ read'.step = "notes"
    BY DEF CountGraphs, ReadFields
  <1>3. NotesFit' /\ BuildsKept'
    BY <1>1 DEF catalogVars, hostVars, NotesFit, BuildsKept
  <1>4. StatusTypes'
    BY <1>1, <1>2 DEF ReadSteps, catalogVars, hostVars
  <1>5. ReadFits'
    BY <1>1, <1>2 DEF catalogVars, ReadFits, Whole
  <1>6. SessionFits'
    BY <1>1, <1>2 DEF catalogVars, SessionFits, Whole
  <1> QED BY <1>3, <1>4, <1>5, <1>6

(* The heartbeats are read, and the session keeps what was read whole.       *)
LEMMA ReadNotesStep ==
  ASSUME StatusInv, ReadNotes PROVE StatusInv'
  <1> USE DEF StatusInv, StatusTypes
  <1>1. UNCHANGED <<catalogVars, hostVars>>
    BY DEF ReadNotes, HostsRest
  <1>2. /\ DOMAIN read' = ReadFields /\ UNCHANGED <<read.heavy, read.builds, read.counts, read.wanted, read.unsure>>
        /\ read.step = "notes" /\ read'.step = "done"
        /\ read'.missing = read.missing \/ read'.missing = read.missing \cup {"runtime"}
    <2>1. read.step = "notes" /\ DOMAIN read = ReadFields
      BY DEF ReadNotes
    <2>2. \/ read' = [read EXCEPT !.step = "done", !.notes = note]
          \/ read' = [read EXCEPT !.step = "done", !.missing = @ \cup {"runtime"}]
      BY DEF ReadNotes
    <2> HIDE DEF StatusInv, StatusTypes
    <2>3. CASE read' = [read EXCEPT !.step = "done", !.notes = note]
      BY <2>1, <2>3 DEF ReadFields
    <2>4. CASE read' = [read EXCEPT !.step = "done", !.missing = @ \cup {"runtime"}]
      BY <2>1, <2>4 DEF ReadFields
    <2> QED BY <2>2, <2>3, <2>4
  <1>3. NotesFit' /\ BuildsKept'
    BY <1>1 DEF catalogVars, hostVars, NotesFit, BuildsKept
  <1>4. ReadFits'
    BY <1>1, <1>2 DEF catalogVars, ReadFits, Whole
  <1>5. CASE session' = session
    <2>1. StatusTypes'
      BY <1>1, <1>2, <1>5 DEF ReadSteps, catalogVars, hostVars
    <2>2. SessionFits'
      BY <1>1, <1>2, <1>5 DEF catalogVars, SessionFits, Whole
    <2> QED BY <1>3, <1>4, <2>1, <2>2
  <1>6. CASE /\ "published" \notin read.missing
             /\ session'.builds = read.builds /\ session'.counts = read.counts
    <2>1. StatusTypes'
      BY <1>1, <1>2, <1>6 DEF ReadSteps, catalogVars, hostVars
    <2>2. \A s \in Hosted : read.builds[s] \in 0 .. served[s] /\ (read.builds[s] = served[s] => Whole(read, s))
      BY <1>2, <1>6 DEF ReadFits
    <2>3. SessionFits'
      BY <1>1, <1>2, <1>6, <2>2 DEF catalogVars, SessionFits, Whole
    <2> QED BY <1>3, <1>4, <2>1, <2>3
  <1> QED BY <1>5, <1>6 DEF ReadNotes

(* A session that expires keeps nothing.                                     *)
LEMMA ExpireSessionStep ==
  ASSUME StatusInv, ExpireSession PROVE StatusInv'
  <1> USE DEF StatusInv, StatusTypes
  <1>1. UNCHANGED <<catalogVars, hostVars, read>> /\ read.step = "idle" /\ session' = NoSession
    BY DEF ExpireSession, HostsRest
  <1>2. NotesFit' /\ BuildsKept' /\ ReadFits'
    BY <1>1 DEF catalogVars, hostVars, NotesFit, BuildsKept, ReadFits, Whole
  <1>3. /\ session'.builds = [s \in Hosted |-> 0]
        /\ session'.counts = [s \in Hosted |-> [files |-> 0, records |-> 0]]
    BY <1>1 DEF NoSession, NoCounts, NoBuildYet
  <1>4. session'.builds \in [Hosted -> Nat] /\ session'.counts \in [Hosted -> StatusCounts]
    BY <1>3 DEF StatusCounts
  <1>5. StatusTypes'
    BY <1>1, <1>4 DEF catalogVars, hostVars
  <1>6. SessionFits'
    BY <1>1, <1>3 DEF catalogVars, SessionFits, Whole
  <1> QED BY <1>2, <1>5, <1>6

(* A report that was shown is forgotten.                                     *)
LEMMA ForgetStep ==
  ASSUME StatusInv, Forget PROVE StatusInv'
  <1> USE DEF StatusInv, StatusTypes
  <1>1. UNCHANGED <<catalogVars, hostVars, session>> /\ read' = Unread
    BY DEF Forget, HostsRest
  <1>2. StatusTypes'
    BY <1>1, UnreadFields DEF catalogVars, hostVars, ReadSteps
  <1>3. NotesFit' /\ BuildsKept'
    BY <1>1 DEF catalogVars, hostVars, NotesFit, BuildsKept
  <1>4. ReadFits'
    BY <1>1, UnreadFields DEF catalogVars, ReadFits
  <1>5. SessionFits'
    BY <1>1, UnreadFields DEF catalogVars, SessionFits, Whole
  <1> QED BY <1>2, <1>3, <1>4, <1>5


(* Every reachable state of the status beside the passes satisfies the       *)
(* inductive invariant.                                                      *)
THEOREM StatusInvariant == StatusSpec => []StatusInv
  <1>1. StatusInit => StatusInv
    BY StatusStarts
  <1>2. StatusInv /\ [StatusNext]_statusVars => StatusInv'
    <2> SUFFICES ASSUME StatusInv, [StatusNext]_statusVars PROVE StatusInv'
      OBVIOUS
    <2>1. CASE UNCHANGED statusVars
      BY <2>1 DEF statusVars, StatusInv, StatusTypes, NotesFit, BuildsKept, ReadFits, SessionFits, Whole
    <2>2. CASE \E s \in Contended :
               \/ StartHosted(s) \/ BeatRun(s) \/ ArriveLate(s) \/ PublishHosted(s)
               \/ CollectBuild(s) \/ PromoteGraph(s) \/ FailBuild(s) \/ EndNote(s)
               \/ GiveBack(s) \/ DieOut(s) \/ RunOut(s)
      BY <2>2, StartHostedStep, BeatRunStep, ArriveLateStep, PublishHostedStep, CollectBuildStep, PromoteGraphStep,
         FailBuildStep, EndNoteStep, GiveBackStep, DieOutStep, RunOutStep
    <2> QED BY <2>1, <2>2, ReadStatesStep, ReuseCountsStep, CountFilesStep, CountRecordsStep, AskAgainStep, ConfirmStep,
               CountGraphsStep, ReadNotesStep, ExpireSessionStep, ForgetStep DEF StatusNext
  <1> QED BY <1>1, <1>2, PTL DEF StatusSpec

(* The status tells counts of whole builds, calls healthy only what is, and  *)
(* shows as live only what runs, when no heartbeat went astray               *)
(* (status.rs:528-626, server.rs:123-167).                                   *)
THEOREM ReportsAreRight == StatusSpec => []StatusRight
  <1>1. StatusInv => StatusRight
    <2> SUFFICES ASSUME StatusInv PROVE StatusRight
      OBVIOUS
    <2> USE DEF StatusInv
    <2>1. CountsTrue
      BY DEF CountsTrue, Told, Unpublished, ReadFits, Whole
    <2>2. HealthyMeansWell
      BY DEF HealthyMeansWell, Health, Told, Unpublished, ReadFits, Whole, IndexState, Errors, Warnings, RunVerdict
    <2>3. LiveMeansRunning
      BY DEF LiveMeansRunning, RunVerdict, NotesFit
    <2>4. NotesForward
      BY DEF NotesForward, NotesFit
    <2> QED BY <2>1, <2>2, <2>3, <2>4 DEF StatusRight
  <1> QED BY <1>1, StatusInvariant, PTL

-----------------------------------------------------------------------------
(* Backup and restore.                                                       *)

Contents == [active : Nat, buildRows : SUBSET Nat, torn : BOOLEAN]

RestoreTypes ==
    /\ live \in [Dirs -> 0 .. NoDir] /\ aside \in [Dirs -> 0 .. NoDir] /\ before \in [Dirs -> 0 .. NoDir]
    /\ staging \subseteq Dirs /\ todo \subseteq Dirs
    /\ active \in [Generations -> Nat] /\ buildRows \in [Generations -> SUBSET Nat]
    /\ runLock \in {"free", "pass", "backup"}
    /\ passStep \in {"idle", "lock", "write", "publish", "collect"}
    /\ passStep # "idle" => passState \in Generations
    /\ passStep \notin {"idle", "lock"} => passRows \in Generations
    /\ passes \in Nat /\ restores \in 0 .. MaxRestores
    /\ backStep \in {"idle", "control", "projects", "pack", "done"}
    /\ snapshot \in Contents /\ archive \in Contents
    /\ resStep \in {"idle", "stop", "aside", "swap", "undo", "clean", "halfway"}
    /\ overlap \in BOOLEAN

\* Who writes holds the run lock.
LockFits ==
    /\ passStep \in {"write", "publish", "collect"} => runLock = "pass"
    /\ backStep \in {"control", "projects", "pack"} => runLock = "backup"

\* What was in the home is there or next to it.
AsideFits ==
    /\ resStep = "aside" => \A d \in Dirs :
          before[d] \in {NoDir, IF d \in todo THEN live[d] ELSE aside[d]}
    /\ resStep \in {"swap", "undo"} => \A d \in Dirs : before[d] \in {NoDir, aside[d]}
    /\ resStep = "halfway" => \A d \in Dirs : before[d] \in {NoDir, live[d], aside[d]}

\* A generation that readers can be sent to, with the rows in the same one.
Solid(g) == g \in 0 .. restores /\ active[g] # 0 /\ active[g] \in buildRows[g]
Home(f, g) == \A d \in Dirs : f[d] = g

\* A backup comes before the first restore.
ArchiveFits ==
    /\ backStep # "done" => restores = 0 /\ resStep = "idle" /\ archive.torn
    /\ restores = 0 => resStep = "idle" /\ ~overlap
    /\ snapshot.torn
    /\ backStep = "projects" => snapshot.active = active[live["state"]]
    /\ backStep = "pack" => snapshot.active # 0 /\ snapshot.active \in snapshot.buildRows
    /\ ~archive.torn => archive.active # 0 /\ archive.active \in archive.buildRows

\* While no pass had a database open as directories moved: one generation is
\* in the home, that of the last restore waits for it, and a pass works on the
\* one in the home.
AtRest(g) ==
    /\ Home(live, g) /\ Solid(g)
    /\ passStep # "idle" => passState = g
    /\ passStep \notin {"idle", "lock"} => passRows = g
    /\ passStep = "publish" => passes + 1 \in buildRows[g]

InHome == live["state"]
Calm ==
    /\ resStep \in {"idle", "stop", "clean"} => AtRest(InHome)
    /\ resStep = "idle" /\ restores > 0 => before = live \/ InHome = restores
    /\ resStep = "stop" => before = live
    /\ resStep = "clean" => InHome = restores
    /\ resStep \in {"stop", "aside", "swap"} => Solid(restores)
    /\ resStep = "stop" => InHome # restores
    /\ resStep \in {"stop", "aside"} => staging = Dirs
    /\ Moving => /\ passStep = "idle"
                 /\ Solid(before["state"]) /\ before["state"] # restores /\ Home(before, before["state"])
    /\ resStep = "aside" => \A d \in Dirs :
          IF d \in todo THEN live[d] = before[d] ELSE aside[d] = before[d] /\ live[d] \in {NoDir, Blank}
    /\ resStep \in {"swap", "undo"} => aside = before
    /\ resStep = "swap" => \A d \in Dirs : IF d \in todo THEN live[d] \in {NoDir, Blank} ELSE live[d] = restores

RestoreInv ==
    RestoreTypes /\ LockFits /\ AsideFits /\ ArchiveFits /\ (~overlap /\ resStep # "halfway" => Calm)
(* A home with one build, no backup and no restore.                          *)
LEMMA RestoreStarts == RestoreInit => RestoreInv
  <1> SUFFICES ASSUME RestoreInit PROVE RestoreInv
    OBVIOUS
  <1>0. MaxRestores \in Nat /\ First = 0 /\ NoDir = MaxRestores + 2 /\ Generations = 0 .. MaxRestores + 1
    BY RestoreAssumption DEF First, NoDir, Generations, Blank
  <1>1. RestoreTypes
    <2>1. NoArchive \in Contents
      BY DEF NoArchive, Contents
    <2>2. live \in [Dirs -> 0 .. NoDir] /\ aside \in [Dirs -> 0 .. NoDir] /\ before \in [Dirs -> 0 .. NoDir]
      BY <1>0 DEF RestoreInit
    <2>3. active \in [Generations -> Nat] /\ buildRows \in [Generations -> SUBSET Nat]
      BY DEF RestoreInit
    <2>4. overlap \in BOOLEAN
      BY DEF RestoreInit
    <2>5. /\ staging \subseteq Dirs /\ todo \subseteq Dirs /\ restores \in 0 .. MaxRestores
          /\ snapshot \in Contents /\ archive \in Contents /\ passes \in Nat
      BY <1>0, <2>1 DEF RestoreInit
    <2> QED BY <2>2, <2>3, <2>4, <2>5 DEF RestoreInit, RestoreTypes
  <1>2. LockFits /\ AsideFits /\ ArchiveFits
    BY <1>0 DEF RestoreInit, LockFits, AsideFits, ArchiveFits, NoArchive, Dirs
  <1>3. Calm
    BY <1>0 DEF RestoreInit, Calm, AtRest, Home, Solid, Moving, InHome, Dirs
  <1> QED BY <1>1, <1>2, <1>3 DEF RestoreInv

(* Until the backup is done, the home is the first one, untouched by a       *)
(* restore.                                                                  *)
LEMMA BackupAlone ==
  ASSUME RestoreInv, backStep # "done" PROVE InHome = 0 /\ AtRest(0) /\ live["state"] = 0 /\ live["projects"] = 0 /\ Solid(0)
  <1>1. restores = 0 /\ resStep = "idle" /\ Calm
    BY DEF RestoreInv, ArchiveFits
  <1>2. AtRest(InHome) /\ InHome \in 0 .. 0
    BY <1>1 DEF Calm, AtRest, Solid
  <1>3. InHome = 0
    BY <1>2
  <1> QED BY <1>2, <1>3 DEF AtRest, Home, Dirs

(* A pass opens the control plane, or makes an empty one where directories   *)
(* move.                                                                     *)
LEMMA OpenControlStep == ASSUME RestoreInv, NEW owner \in {"daemon", "cli"}, OpenControl(owner) PROVE RestoreInv'
  <1> USE DEF RestoreInv, RestoreTypes
  <1>0. MaxRestores \in Nat /\ NoDir = MaxRestores + 2 /\ Blank = MaxRestores + 1 /\ Generations = 0 .. MaxRestores + 1
    BY RestoreAssumption DEF NoDir, Generations, Blank
  <1>1. RestoreTypes'
    <2>1. Opened("state") \in 0 .. NoDir
      BY <1>0 DEF Opened, Dirs
    <2>2. live' \in [Dirs -> 0 .. NoDir]
      BY <2>1 DEF OpenControl
    <2>3. passStep' # "idle" => passState' \in Generations
      BY <1>0 DEF OpenControl, passVars, Dirs
    <2>4. passStep' \in {"idle", "lock"} /\ passes' \in Nat
      BY DEF OpenControl, passVars
    <2>5. overlap' \in BOOLEAN
      BY DEF OpenControl, Moving
    <2> QED BY <2>2, <2>3, <2>4, <2>5 DEF OpenControl, backVars, resVars
  <1>2. LockFits'
    BY <1>0 DEF OpenControl, Opened, passVars, backVars, resVars, Dirs, Fault, LockFits
  <1>3. AsideFits'
    BY <1>0 DEF OpenControl, Opened, passVars, backVars, resVars, Dirs, Fault, AsideFits
  <1>4. ArchiveFits'
    <2>1. CASE backStep = "done"
      BY <2>1 DEF OpenControl, passVars, backVars, resVars, ArchiveFits, Moving
    <2>2. CASE backStep # "done"
      <3>1. live["state"] = 0
        BY <2>2, BackupAlone
      <3>2. live'["state"] = 0
        BY <1>0, <3>1 DEF OpenControl, Opened, Dirs
      <3> QED BY <2>2, <3>1, <3>2 DEF OpenControl, passVars, backVars, resVars, ArchiveFits, Moving
    <2> QED BY <2>1, <2>2
  <1>5. ASSUME ~overlap', resStep' # "halfway" PROVE Calm'
    <2>1. Calm
      BY <1>5 DEF OpenControl, Opened, passVars, backVars, resVars, Dirs, Fault
    <2>2. CASE resStep \in {"idle", "stop", "clean"}
      <3>1. live["state"] \in 0 .. MaxRestores
        BY <1>0, <2>1, <2>2 DEF Calm, AtRest, Solid, InHome
      <3>2. live' = live
        BY <1>0, <3>1 DEF OpenControl, Opened
      <3>3. passStep' # "idle" => passState' = live["state"]
        BY <2>1, <2>2 DEF OpenControl, Calm, AtRest, InHome, passVars
      <3>4. passStep' \in {"idle", "lock"}
        BY DEF OpenControl, passVars
      <3>5. AtRest(InHome)'
        BY <2>1, <2>2, <3>2, <3>3, <3>4 DEF OpenControl, Calm, AtRest, Home, Solid, InHome, resVars
      <3> QED BY <2>1, <2>2, <3>2, <3>5 DEF OpenControl, Calm, Home, Solid, InHome, Moving, resVars
    <2>3. CASE Moving
      <3>1. UNCHANGED passVars
        BY <1>5, <2>3 DEF OpenControl
      <3>2. live' = [live EXCEPT !["state"] = IF @ = NoDir THEN Blank ELSE @]
        BY DEF OpenControl, Opened
      <3>3. Blank # NoDir /\ live["state"] # Blank /\ resStep \notin {"idle", "stop", "clean"}
        BY <1>0, <2>3 DEF OpenControl, Moving
      <3>4. live["state"] \in {NoDir, Blank}
        BY <1>5, <2>3, <3>1 DEF OpenControl, passVars
      <3>5. live["state"] = NoDir /\ live' = [live EXCEPT !["state"] = Blank]
        BY <3>2, <3>3, <3>4
      <3> QED BY <1>0, <2>1, <2>3, <3>1, <3>3, <3>5 DEF OpenControl, Calm, Home, Solid, Moving, resVars, passVars, Dirs
    <2> QED BY <1>5, <2>2, <2>3 DEF OpenControl, resVars, Moving
  <1> QED BY <1>1, <1>2, <1>3, <1>4, <1>5

(* A pass takes the locks and opens the store.                               *)
LEMMA OpenStoreStep == ASSUME RestoreInv, OpenStore PROVE RestoreInv'
  <1> USE DEF RestoreInv, RestoreTypes
  <1>0. MaxRestores \in Nat /\ NoDir = MaxRestores + 2 /\ Blank = MaxRestores + 1 /\ Generations = 0 .. MaxRestores + 1
    BY RestoreAssumption DEF NoDir, Generations, Blank
  <1>1. RestoreTypes'
    <2>1. /\ live' \in [Dirs -> 0 .. NoDir] /\ aside' \in [Dirs -> 0 .. NoDir] /\ before' \in [Dirs -> 0 .. NoDir]
          /\ staging' \subseteq Dirs /\ todo' \subseteq Dirs
      BY <1>0 DEF OpenStore, Opened, passVars, backVars, resVars, Dirs, Fault, Contents
    <2>2. active' \in [Generations -> Nat] /\ buildRows' \in [Generations -> SUBSET Nat]
      BY <1>0 DEF OpenStore, Opened, passVars, backVars, resVars, Dirs, Fault, Contents
    <2>3. snapshot' \in Contents /\ archive' \in Contents
      BY <1>0 DEF OpenStore, Opened, passVars, backVars, resVars, Dirs, Fault, Contents
    <2>4. /\ passStep' # "idle" => passState' \in Generations
          /\ passStep' \notin {"idle", "lock"} => passRows' \in Generations
          /\ passes' \in Nat /\ restores' \in 0 .. MaxRestores
      BY <1>0 DEF OpenStore, Opened, passVars, backVars, resVars, Dirs, Fault, Contents
    <2>5. /\ runLock' \in {"free", "pass", "backup"} /\ overlap' \in BOOLEAN
          /\ passStep' \in {"idle", "lock", "write", "publish", "collect"}
          /\ backStep' \in {"idle", "control", "projects", "pack", "done"}
          /\ resStep' \in {"idle", "stop", "aside", "swap", "undo", "clean", "halfway"}
      BY <1>0 DEF OpenStore, Opened, passVars, backVars, resVars, Dirs, Fault, Contents
    <2> QED BY <2>1, <2>2, <2>3, <2>4, <2>5
  <1>2. LockFits'
    BY <1>0 DEF OpenStore, Opened, passVars, backVars, resVars, Dirs, Fault, LockFits
  <1>3. AsideFits'
    BY <1>0 DEF OpenStore, Opened, passVars, backVars, resVars, Dirs, Fault, AsideFits
  <1>4. ArchiveFits'
    BY <1>0 DEF OpenStore, Opened, passVars, backVars, resVars, Dirs, Fault, ArchiveFits, Contents
  <1>5. ASSUME ~overlap', resStep' # "halfway" PROVE Calm'
    <2>1. Calm
      BY <1>5 DEF OpenStore, Opened, passVars, backVars, resVars, Dirs, Fault
    <2> QED BY <1>0, <1>5, <2>1 DEF OpenStore, Opened, passVars, backVars, resVars, Dirs, Fault, Calm, AtRest, Home, Solid, Moving, InHome, ArchiveFits
  <1> QED BY <1>1, <1>2, <1>3, <1>4, <1>5

(* A pass adds the rows of its build.                                        *)
LEMMA WriteRowsStep == ASSUME RestoreInv, WriteRows PROVE RestoreInv'
  <1> USE DEF RestoreInv, RestoreTypes
  <1>0. MaxRestores \in Nat /\ NoDir = MaxRestores + 2 /\ Blank = MaxRestores + 1 /\ Generations = 0 .. MaxRestores + 1
    BY RestoreAssumption DEF NoDir, Generations, Blank
  <1>1. RestoreTypes'
    <2>1. /\ live' \in [Dirs -> 0 .. NoDir] /\ aside' \in [Dirs -> 0 .. NoDir] /\ before' \in [Dirs -> 0 .. NoDir]
          /\ staging' \subseteq Dirs /\ todo' \subseteq Dirs
      BY <1>0 DEF WriteRows, passVars, backVars, resVars, Dirs, Fault, Contents
    <2>2. active' \in [Generations -> Nat] /\ buildRows' \in [Generations -> SUBSET Nat]
      BY SMTT(30), <1>0 DEF WriteRows, passVars, backVars, resVars, Dirs, Fault, Contents
    <2>3. snapshot' \in Contents /\ archive' \in Contents
      BY <1>0 DEF WriteRows, passVars, backVars, resVars, Dirs, Fault, Contents
    <2>4. /\ passStep' # "idle" => passState' \in Generations
          /\ passStep' \notin {"idle", "lock"} => passRows' \in Generations
          /\ passes' \in Nat /\ restores' \in 0 .. MaxRestores
      BY <1>0 DEF WriteRows, passVars, backVars, resVars, Dirs, Fault, Contents
    <2>5. /\ runLock' \in {"free", "pass", "backup"} /\ overlap' \in BOOLEAN
          /\ passStep' \in {"idle", "lock", "write", "publish", "collect"}
          /\ backStep' \in {"idle", "control", "projects", "pack", "done"}
          /\ resStep' \in {"idle", "stop", "aside", "swap", "undo", "clean", "halfway"}
      BY <1>0 DEF WriteRows, passVars, backVars, resVars, Dirs, Fault, Contents
    <2> QED BY <2>1, <2>2, <2>3, <2>4, <2>5
  <1>2. LockFits'
    BY <1>0 DEF WriteRows, passVars, backVars, resVars, Dirs, Fault, LockFits
  <1>3. AsideFits'
    BY <1>0 DEF WriteRows, passVars, backVars, resVars, Dirs, Fault, AsideFits
  <1>4. ArchiveFits'
    BY <1>0 DEF WriteRows, passVars, backVars, resVars, Dirs, Fault, ArchiveFits, Contents
  <1>5. ASSUME ~overlap', resStep' # "halfway" PROVE Calm'
    <2>1. Calm
      BY <1>5 DEF WriteRows, passVars, backVars, resVars, Dirs, Fault
    <2> QED BY <1>0, <1>5, <2>1 DEF WriteRows, passVars, backVars, resVars, Dirs, Fault, Calm, AtRest, Home, Solid, Moving, InHome, ArchiveFits
  <1> QED BY <1>1, <1>2, <1>3, <1>4, <1>5

(* A pass sends readers to a build with rows.                                *)
LEMMA PublishBuildStep == ASSUME RestoreInv, PublishBuild PROVE RestoreInv'
  <1> USE DEF RestoreInv, RestoreTypes
  <1>0. MaxRestores \in Nat /\ NoDir = MaxRestores + 2 /\ Blank = MaxRestores + 1 /\ Generations = 0 .. MaxRestores + 1
    BY RestoreAssumption DEF NoDir, Generations, Blank
  <1>1. RestoreTypes'
    <2>1. /\ live' \in [Dirs -> 0 .. NoDir] /\ aside' \in [Dirs -> 0 .. NoDir] /\ before' \in [Dirs -> 0 .. NoDir]
          /\ staging' \subseteq Dirs /\ todo' \subseteq Dirs
      BY <1>0 DEF PublishBuild, passVars, backVars, resVars, Dirs, Fault, Contents
    <2>2. active' \in [Generations -> Nat] /\ buildRows' \in [Generations -> SUBSET Nat]
      BY <1>0 DEF PublishBuild, passVars, backVars, resVars, Dirs, Fault, Contents
    <2>3. snapshot' \in Contents /\ archive' \in Contents
      BY <1>0 DEF PublishBuild, passVars, backVars, resVars, Dirs, Fault, Contents
    <2>4. /\ passStep' # "idle" => passState' \in Generations
          /\ passStep' \notin {"idle", "lock"} => passRows' \in Generations
          /\ passes' \in Nat /\ restores' \in 0 .. MaxRestores
      BY <1>0 DEF PublishBuild, passVars, backVars, resVars, Dirs, Fault, Contents
    <2>5. /\ runLock' \in {"free", "pass", "backup"} /\ overlap' \in BOOLEAN
          /\ passStep' \in {"idle", "lock", "write", "publish", "collect"}
          /\ backStep' \in {"idle", "control", "projects", "pack", "done"}
          /\ resStep' \in {"idle", "stop", "aside", "swap", "undo", "clean", "halfway"}
      BY <1>0 DEF PublishBuild, passVars, backVars, resVars, Dirs, Fault, Contents
    <2> QED BY <2>1, <2>2, <2>3, <2>4, <2>5
  <1>2. LockFits'
    BY <1>0 DEF PublishBuild, passVars, backVars, resVars, Dirs, Fault, LockFits
  <1>3. AsideFits'
    BY <1>0 DEF PublishBuild, passVars, backVars, resVars, Dirs, Fault, AsideFits
  <1>4. ArchiveFits'
    <2>1. passStep = "publish" /\ runLock = "pass" /\ backStep \notin {"control", "projects", "pack"}
      BY DEF PublishBuild, LockFits
    <2> QED BY <2>1 DEF PublishBuild, backVars, resVars, ArchiveFits
  <1>5. ASSUME ~overlap', resStep' # "halfway" PROVE Calm'
    <2>1. Calm
      BY <1>5 DEF PublishBuild, passVars, backVars, resVars, Dirs, Fault
    <2> QED BY <1>0, <1>5, <2>1 DEF PublishBuild, passVars, backVars, resVars, Dirs, Fault, Calm, AtRest, Home, Solid, Moving, InHome, ArchiveFits
  <1> QED BY <1>1, <1>2, <1>3, <1>4, <1>5

(* A pass leaves the rows of the build readers are sent to.                  *)
LEMMA CollectRowsStep == ASSUME RestoreInv, CollectRows PROVE RestoreInv'
  <1> USE DEF RestoreInv, RestoreTypes
  <1>0. MaxRestores \in Nat /\ NoDir = MaxRestores + 2 /\ Blank = MaxRestores + 1 /\ Generations = 0 .. MaxRestores + 1
    BY RestoreAssumption DEF NoDir, Generations, Blank
  <1>1. RestoreTypes'
    <2>1. /\ live' \in [Dirs -> 0 .. NoDir] /\ aside' \in [Dirs -> 0 .. NoDir] /\ before' \in [Dirs -> 0 .. NoDir]
          /\ staging' \subseteq Dirs /\ todo' \subseteq Dirs
      BY <1>0 DEF CollectRows, passVars, backVars, resVars, Dirs, Fault, Contents
    <2>2. active' \in [Generations -> Nat] /\ buildRows' \in [Generations -> SUBSET Nat]
      BY <1>0 DEF CollectRows, passVars, backVars, resVars, Dirs, Fault, Contents
    <2>3. snapshot' \in Contents /\ archive' \in Contents
      BY <1>0 DEF CollectRows, passVars, backVars, resVars, Dirs, Fault, Contents
    <2>4. /\ passStep' # "idle" => passState' \in Generations
          /\ passStep' \notin {"idle", "lock"} => passRows' \in Generations
          /\ passes' \in Nat /\ restores' \in 0 .. MaxRestores
      BY <1>0 DEF CollectRows, passVars, backVars, resVars, Dirs, Fault, Contents
    <2>5. /\ runLock' \in {"free", "pass", "backup"} /\ overlap' \in BOOLEAN
          /\ passStep' \in {"idle", "lock", "write", "publish", "collect"}
          /\ backStep' \in {"idle", "control", "projects", "pack", "done"}
          /\ resStep' \in {"idle", "stop", "aside", "swap", "undo", "clean", "halfway"}
      BY <1>0 DEF CollectRows, passVars, backVars, resVars, Dirs, Fault, Contents
    <2> QED BY <2>1, <2>2, <2>3, <2>4, <2>5
  <1>2. LockFits'
    BY <1>0 DEF CollectRows, passVars, backVars, resVars, Dirs, Fault, LockFits
  <1>3. AsideFits'
    BY <1>0 DEF CollectRows, passVars, backVars, resVars, Dirs, Fault, AsideFits
  <1>4. ArchiveFits'
    BY <1>0 DEF CollectRows, passVars, backVars, resVars, Dirs, Fault, ArchiveFits, Contents
  <1>5. ASSUME ~overlap', resStep' # "halfway" PROVE Calm'
    <2>1. Calm
      BY <1>5 DEF CollectRows, passVars, backVars, resVars, Dirs, Fault
    <2> QED BY <1>0, <1>5, <2>1 DEF CollectRows, passVars, backVars, resVars, Dirs, Fault, Calm, AtRest, Home, Solid, Moving, InHome, ArchiveFits
  <1> QED BY <1>1, <1>2, <1>3, <1>4, <1>5

(* A pass that ends early gives its locks back.                              *)
LEMMA PassEndsStep == ASSUME RestoreInv, PassEnds PROVE RestoreInv'
  <1> USE DEF RestoreInv, RestoreTypes
  <1>0. MaxRestores \in Nat /\ NoDir = MaxRestores + 2 /\ Blank = MaxRestores + 1 /\ Generations = 0 .. MaxRestores + 1
    BY RestoreAssumption DEF NoDir, Generations, Blank
  <1>1. RestoreTypes'
    <2>1. /\ live' \in [Dirs -> 0 .. NoDir] /\ aside' \in [Dirs -> 0 .. NoDir] /\ before' \in [Dirs -> 0 .. NoDir]
          /\ staging' \subseteq Dirs /\ todo' \subseteq Dirs
      BY <1>0 DEF PassEnds, passVars, backVars, resVars, Dirs, Fault, Contents
    <2>2. active' \in [Generations -> Nat] /\ buildRows' \in [Generations -> SUBSET Nat]
      BY <1>0 DEF PassEnds, passVars, backVars, resVars, Dirs, Fault, Contents
    <2>3. snapshot' \in Contents /\ archive' \in Contents
      BY <1>0 DEF PassEnds, passVars, backVars, resVars, Dirs, Fault, Contents
    <2>4. /\ passStep' # "idle" => passState' \in Generations
          /\ passStep' \notin {"idle", "lock"} => passRows' \in Generations
          /\ passes' \in Nat /\ restores' \in 0 .. MaxRestores
      BY <1>0 DEF PassEnds, passVars, backVars, resVars, Dirs, Fault, Contents
    <2>5. /\ runLock' \in {"free", "pass", "backup"} /\ overlap' \in BOOLEAN
          /\ passStep' \in {"idle", "lock", "write", "publish", "collect"}
          /\ backStep' \in {"idle", "control", "projects", "pack", "done"}
          /\ resStep' \in {"idle", "stop", "aside", "swap", "undo", "clean", "halfway"}
      BY <1>0 DEF PassEnds, passVars, backVars, resVars, Dirs, Fault, Contents
    <2> QED BY <2>1, <2>2, <2>3, <2>4, <2>5
  <1>2. LockFits'
    BY <1>0 DEF PassEnds, passVars, backVars, resVars, Dirs, Fault, LockFits
  <1>3. AsideFits'
    BY <1>0 DEF PassEnds, passVars, backVars, resVars, Dirs, Fault, AsideFits
  <1>4. ArchiveFits'
    BY <1>0 DEF PassEnds, passVars, backVars, resVars, Dirs, Fault, ArchiveFits, Contents
  <1>5. ASSUME ~overlap', resStep' # "halfway" PROVE Calm'
    <2>1. Calm
      BY <1>5 DEF PassEnds, passVars, backVars, resVars, Dirs, Fault
    <2> QED BY <1>0, <1>5, <2>1 DEF PassEnds, passVars, backVars, resVars, Dirs, Fault, Calm, AtRest, Home, Solid, Moving, InHome, ArchiveFits
  <1> QED BY <1>1, <1>2, <1>3, <1>4, <1>5

(* A backup takes every lock of the home (indexing.rs:189-219).              *)
LEMMA LockHomeStep == ASSUME RestoreInv, LockHome PROVE RestoreInv'
  <1> USE DEF RestoreInv, RestoreTypes
  <1>0. MaxRestores \in Nat /\ NoDir = MaxRestores + 2 /\ Blank = MaxRestores + 1 /\ Generations = 0 .. MaxRestores + 1
    BY RestoreAssumption DEF NoDir, Generations, Blank
  <1>1. RestoreTypes'
    <2>1. /\ live' \in [Dirs -> 0 .. NoDir] /\ aside' \in [Dirs -> 0 .. NoDir] /\ before' \in [Dirs -> 0 .. NoDir]
          /\ staging' \subseteq Dirs /\ todo' \subseteq Dirs
      BY <1>0 DEF LockHome, passVars, backVars, resVars, Dirs, Fault, Contents
    <2>2. active' \in [Generations -> Nat] /\ buildRows' \in [Generations -> SUBSET Nat]
      BY <1>0 DEF LockHome, passVars, backVars, resVars, Dirs, Fault, Contents
    <2>3. snapshot' \in Contents /\ archive' \in Contents
      BY <1>0 DEF LockHome, passVars, backVars, resVars, Dirs, Fault, Contents
    <2>4. /\ passStep' # "idle" => passState' \in Generations
          /\ passStep' \notin {"idle", "lock"} => passRows' \in Generations
          /\ passes' \in Nat /\ restores' \in 0 .. MaxRestores
      BY <1>0 DEF LockHome, passVars, backVars, resVars, Dirs, Fault, Contents
    <2>5. /\ runLock' \in {"free", "pass", "backup"} /\ overlap' \in BOOLEAN
          /\ passStep' \in {"idle", "lock", "write", "publish", "collect"}
          /\ backStep' \in {"idle", "control", "projects", "pack", "done"}
          /\ resStep' \in {"idle", "stop", "aside", "swap", "undo", "clean", "halfway"}
      BY <1>0 DEF LockHome, passVars, backVars, resVars, Dirs, Fault, Contents
    <2> QED BY <2>1, <2>2, <2>3, <2>4, <2>5
  <1>2. LockFits'
    BY <1>0 DEF LockHome, passVars, backVars, resVars, Dirs, Fault, LockFits
  <1>3. AsideFits'
    BY <1>0 DEF LockHome, passVars, backVars, resVars, Dirs, Fault, AsideFits
  <1>4. ArchiveFits'
    BY <1>0 DEF LockHome, passVars, backVars, resVars, Dirs, Fault, ArchiveFits, Contents
  <1>5. ASSUME ~overlap', resStep' # "halfway" PROVE Calm'
    <2>1. Calm
      BY <1>5 DEF LockHome, passVars, backVars, resVars, Dirs, Fault
    <2> QED BY <1>0, <1>5, <2>1 DEF LockHome, passVars, backVars, resVars, Dirs, Fault, Calm, AtRest, Home, Solid, Moving, InHome, ArchiveFits
  <1> QED BY <1>1, <1>2, <1>3, <1>4, <1>5

(* A backup reads which build readers are sent to.                           *)
LEMMA SnapshotControlStep == ASSUME RestoreInv, SnapshotControl PROVE RestoreInv'
  <1> USE DEF RestoreInv, RestoreTypes
  <1>0. MaxRestores \in Nat /\ NoDir = MaxRestores + 2 /\ Blank = MaxRestores + 1 /\ Generations = 0 .. MaxRestores + 1
    BY RestoreAssumption DEF NoDir, Generations, Blank
  <1>1. RestoreTypes'
    <2>1. live["state"] = 0 /\ Opened("state") = 0
      BY <1>0, BackupAlone DEF SnapshotControl, Opened
    <2>2. live' = live
      BY <2>1 DEF SnapshotControl
    <2>3. active[0] \in Nat
      BY <1>0
    <2>4. snapshot' \in Contents
      BY <2>1, <2>3 DEF SnapshotControl, Contents
    <2> QED BY <2>2, <2>4 DEF SnapshotControl, passVars, resVars
  <1>2. LockFits'
    BY <1>0 DEF SnapshotControl, Opened, passVars, backVars, resVars, Dirs, Fault, LockFits
  <1>3. AsideFits'
    BY <1>0 DEF SnapshotControl, Opened, passVars, backVars, resVars, Dirs, Fault, AsideFits
  <1>4. ArchiveFits'
    BY <1>0 DEF SnapshotControl, Opened, passVars, backVars, resVars, Dirs, Fault, ArchiveFits, Contents
  <1>5. ASSUME ~overlap', resStep' # "halfway" PROVE Calm'
    <2>1. Calm
      BY <1>5 DEF SnapshotControl, Opened, passVars, backVars, resVars, Dirs, Fault
    <2> QED BY <1>0, <1>5, <2>1 DEF SnapshotControl, Opened, passVars, backVars, resVars, Dirs, Fault, Calm, AtRest, Home, Solid, Moving, InHome, ArchiveFits
  <1> QED BY <1>1, <1>2, <1>3, <1>4, <1>5

(* A backup reads the rows, which the locks kept as they were.               *)
LEMMA SnapshotProjectsStep == ASSUME RestoreInv, SnapshotProjects PROVE RestoreInv'
  <1> USE DEF RestoreInv, RestoreTypes
  <1>0. MaxRestores \in Nat /\ NoDir = MaxRestores + 2 /\ Blank = MaxRestores + 1 /\ Generations = 0 .. MaxRestores + 1
    BY RestoreAssumption DEF NoDir, Generations, Blank
  <1>1. RestoreTypes'
    <2>1. (IF live["projects"] = NoDir THEN {} ELSE buildRows[live["projects"]]) \in SUBSET Nat
      <3>1. live["projects"] \in 0 .. NoDir /\ (live["projects"] = 0 => live["projects"] \in Generations)
        BY <1>0 DEF Dirs
      <3>2. live["projects"] = 0
        BY BackupAlone DEF SnapshotProjects
      <3> QED BY <3>1, <3>2
    <2>2. snapshot' \in Contents
      BY <2>1 DEF SnapshotProjects, Contents
    <2> QED BY <2>2 DEF SnapshotProjects, passVars, resVars
  <1>2. LockFits'
    BY <1>0 DEF SnapshotProjects, passVars, backVars, resVars, Dirs, Fault, LockFits
  <1>3. AsideFits'
    BY <1>0 DEF SnapshotProjects, passVars, backVars, resVars, Dirs, Fault, AsideFits
  <1>4. ArchiveFits'
    <2>1. live["state"] = 0 /\ live["projects"] = 0 /\ Solid(0)
      BY BackupAlone DEF SnapshotProjects
    <2>2. snapshot.active = active[0] /\ snapshot.torn
      BY <2>1 DEF SnapshotProjects, ArchiveFits
    <2>3. snapshot' = [snapshot EXCEPT !.buildRows = buildRows[0]]
      <3>1. live["projects"] # NoDir
        BY <1>0, <2>1
      <3> QED BY <2>1, <3>1 DEF SnapshotProjects
    <2>4. snapshot'.active = active[0] /\ snapshot'.torn /\ snapshot'.buildRows = buildRows[0]
      BY <2>2, <2>3 DEF Contents
    <2> QED BY <2>1, <2>4 DEF SnapshotProjects, ArchiveFits, Solid, resVars
  <1>5. ASSUME ~overlap', resStep' # "halfway" PROVE Calm'
    <2>1. Calm
      BY <1>5 DEF SnapshotProjects, passVars, backVars, resVars, Dirs, Fault
    <2> QED BY <1>0, <1>5, <2>1 DEF SnapshotProjects, passVars, backVars, resVars, Dirs, Fault, Calm, AtRest, Home, Solid, Moving, InHome, ArchiveFits
  <1> QED BY <1>1, <1>2, <1>3, <1>4, <1>5

(* A backup is written, or torn, and the locks are given back.               *)
LEMMA PackStep == ASSUME RestoreInv, Pack PROVE RestoreInv'
  <1> USE DEF RestoreInv, RestoreTypes
  <1>0. MaxRestores \in Nat /\ NoDir = MaxRestores + 2 /\ Blank = MaxRestores + 1 /\ Generations = 0 .. MaxRestores + 1
    BY RestoreAssumption DEF NoDir, Generations, Blank
  <1>1. RestoreTypes'
    <2>1. /\ live' \in [Dirs -> 0 .. NoDir] /\ aside' \in [Dirs -> 0 .. NoDir] /\ before' \in [Dirs -> 0 .. NoDir]
          /\ staging' \subseteq Dirs /\ todo' \subseteq Dirs
      BY <1>0 DEF Pack, passVars, backVars, resVars, Dirs, Fault, Contents
    <2>2. active' \in [Generations -> Nat] /\ buildRows' \in [Generations -> SUBSET Nat]
      BY <1>0 DEF Pack, passVars, backVars, resVars, Dirs, Fault, Contents
    <2>3. snapshot' \in Contents /\ archive' \in Contents
      BY <1>0 DEF Pack, passVars, backVars, resVars, Dirs, Fault, Contents
    <2>4. /\ passStep' # "idle" => passState' \in Generations
          /\ passStep' \notin {"idle", "lock"} => passRows' \in Generations
          /\ passes' \in Nat /\ restores' \in 0 .. MaxRestores
      BY <1>0 DEF Pack, passVars, backVars, resVars, Dirs, Fault, Contents
    <2>5. /\ runLock' \in {"free", "pass", "backup"} /\ overlap' \in BOOLEAN
          /\ passStep' \in {"idle", "lock", "write", "publish", "collect"}
          /\ backStep' \in {"idle", "control", "projects", "pack", "done"}
          /\ resStep' \in {"idle", "stop", "aside", "swap", "undo", "clean", "halfway"}
      BY <1>0 DEF Pack, passVars, backVars, resVars, Dirs, Fault, Contents
    <2> QED BY <2>1, <2>2, <2>3, <2>4, <2>5
  <1>2. LockFits'
    BY <1>0 DEF Pack, passVars, backVars, resVars, Dirs, Fault, LockFits
  <1>3. AsideFits'
    BY <1>0 DEF Pack, passVars, backVars, resVars, Dirs, Fault, AsideFits
  <1>4. ArchiveFits'
    BY <1>0 DEF Pack, passVars, backVars, resVars, Dirs, Fault, ArchiveFits, Contents
  <1>5. ASSUME ~overlap', resStep' # "halfway" PROVE Calm'
    <2>1. Calm
      BY <1>5 DEF Pack, passVars, backVars, resVars, Dirs, Fault
    <2> QED BY <1>0, <1>5, <2>1 DEF Pack, passVars, backVars, resVars, Dirs, Fault, Calm, AtRest, Home, Solid, Moving, InHome, ArchiveFits
  <1> QED BY <1>1, <1>2, <1>3, <1>4, <1>5

(* A whole archive is extracted into a generation of its own.                *)
LEMMA ExtractStep == ASSUME RestoreInv, Extract PROVE RestoreInv'
  <1> USE DEF RestoreInv, RestoreTypes
  <1>0. MaxRestores \in Nat /\ NoDir = MaxRestores + 2 /\ Blank = MaxRestores + 1 /\ Generations = 0 .. MaxRestores + 1
    BY RestoreAssumption DEF NoDir, Generations, Blank
  <1>1. RestoreTypes'
    <2>1. /\ live' \in [Dirs -> 0 .. NoDir] /\ aside' \in [Dirs -> 0 .. NoDir] /\ before' \in [Dirs -> 0 .. NoDir]
          /\ staging' \subseteq Dirs /\ todo' \subseteq Dirs
      BY <1>0 DEF Extract, Staged, passVars, backVars, resVars, Dirs, Fault, Contents
    <2>2. active' \in [Generations -> Nat] /\ buildRows' \in [Generations -> SUBSET Nat]
      BY <1>0 DEF Extract, Staged, passVars, backVars, resVars, Dirs, Fault, Contents
    <2>3. snapshot' \in Contents /\ archive' \in Contents
      BY <1>0 DEF Extract, Staged, passVars, backVars, resVars, Dirs, Fault, Contents
    <2>4. /\ passStep' # "idle" => passState' \in Generations
          /\ passStep' \notin {"idle", "lock"} => passRows' \in Generations
          /\ passes' \in Nat /\ restores' \in 0 .. MaxRestores
      BY <1>0 DEF Extract, Staged, passVars, backVars, resVars, Dirs, Fault, Contents
    <2>5. /\ runLock' \in {"free", "pass", "backup"} /\ overlap' \in BOOLEAN
          /\ passStep' \in {"idle", "lock", "write", "publish", "collect"}
          /\ backStep' \in {"idle", "control", "projects", "pack", "done"}
          /\ resStep' \in {"idle", "stop", "aside", "swap", "undo", "clean", "halfway"}
      BY <1>0 DEF Extract, Staged, passVars, backVars, resVars, Dirs, Fault, Contents
    <2> QED BY <2>1, <2>2, <2>3, <2>4, <2>5
  <1>2. LockFits'
    BY <1>0 DEF Extract, Staged, passVars, backVars, resVars, Dirs, Fault, LockFits
  <1>3. AsideFits'
    BY <1>0 DEF Extract, Staged, passVars, backVars, resVars, Dirs, Fault, AsideFits
  <1>4. ArchiveFits'
    BY <1>0 DEF Extract, Staged, passVars, backVars, resVars, Dirs, Fault, ArchiveFits, Contents
  <1>5. ASSUME ~overlap', resStep' # "halfway" PROVE Calm'
    <2>1. Calm
      BY <1>5 DEF Extract, Staged, passVars, backVars, resVars, Dirs, Fault
    <2> QED BY <1>0, <1>5, <2>1 DEF Extract, Staged, passVars, backVars, resVars, Dirs, Fault, Calm, AtRest, Home, Solid, Moving, InHome, ArchiveFits
  <1> QED BY <1>1, <1>2, <1>3, <1>4, <1>5

(* The daemon is stopped and the move begins, or the restore is refused.     *)
LEMMA StopFirstStep == ASSUME RestoreInv, StopFirst PROVE RestoreInv'
  <1> USE DEF RestoreInv, RestoreTypes
  <1>0. MaxRestores \in Nat /\ NoDir = MaxRestores + 2 /\ Blank = MaxRestores + 1 /\ Generations = 0 .. MaxRestores + 1
    BY RestoreAssumption DEF NoDir, Generations, Blank
  <1>1. RestoreTypes'
    <2>1. /\ live' \in [Dirs -> 0 .. NoDir] /\ aside' \in [Dirs -> 0 .. NoDir] /\ before' \in [Dirs -> 0 .. NoDir]
          /\ staging' \subseteq Dirs /\ todo' \subseteq Dirs
      BY <1>0 DEF StopFirst, passVars, backVars, resVars, Dirs, Fault, Contents
    <2>2. active' \in [Generations -> Nat] /\ buildRows' \in [Generations -> SUBSET Nat]
      BY <1>0 DEF StopFirst, passVars, backVars, resVars, Dirs, Fault, Contents
    <2>3. snapshot' \in Contents /\ archive' \in Contents
      BY <1>0 DEF StopFirst, passVars, backVars, resVars, Dirs, Fault, Contents
    <2>4. /\ passStep' # "idle" => passState' \in Generations
          /\ passStep' \notin {"idle", "lock"} => passRows' \in Generations
          /\ passes' \in Nat /\ restores' \in 0 .. MaxRestores
      BY <1>0 DEF StopFirst, passVars, backVars, resVars, Dirs, Fault, Contents
    <2>5. /\ runLock' \in {"free", "pass", "backup"} /\ overlap' \in BOOLEAN
          /\ passStep' \in {"idle", "lock", "write", "publish", "collect"}
          /\ backStep' \in {"idle", "control", "projects", "pack", "done"}
          /\ resStep' \in {"idle", "stop", "aside", "swap", "undo", "clean", "halfway"}
      BY <1>0 DEF StopFirst, passVars, backVars, resVars, Dirs, Fault, Contents
    <2> QED BY <2>1, <2>2, <2>3, <2>4, <2>5
  <1>2. LockFits'
    BY <1>0 DEF StopFirst, passVars, backVars, resVars, Dirs, Fault, LockFits
  <1>3. AsideFits'
    BY <1>0 DEF StopFirst, passVars, backVars, resVars, Dirs, Fault, AsideFits
  <1>4. ArchiveFits'
    BY <1>0 DEF StopFirst, passVars, backVars, resVars, Dirs, Fault, ArchiveFits, Contents
  <1>5. ASSUME ~overlap', resStep' # "halfway" PROVE Calm'
    <2>1. Calm
      BY <1>5 DEF StopFirst, passVars, backVars, resVars, Dirs, Fault
    <2> QED BY <1>0, <1>5, <2>1 DEF StopFirst, passVars, backVars, resVars, Dirs, Fault, Calm, AtRest, Home, Solid, Moving, InHome, ArchiveFits
  <1> QED BY <1>1, <1>2, <1>3, <1>4, <1>5

(* What is in the home is moved aside, one directory after the other.        *)
LEMMA MoveAsideStep == ASSUME RestoreInv, MoveAside PROVE RestoreInv'
  <1> USE DEF RestoreInv, RestoreTypes
  <1>0. MaxRestores \in Nat /\ NoDir = MaxRestores + 2 /\ Blank = MaxRestores + 1 /\ Generations = 0 .. MaxRestores + 1
    BY RestoreAssumption DEF NoDir, Generations, Blank
  <1>1. RestoreTypes'
    <2>1. FirstOf(todo) \in Dirs
      BY DEF FirstOf, Dirs
    <2>2. live[FirstOf(todo)] \in 0 .. NoDir /\ NoDir \in 0 .. NoDir
      BY <1>0, <2>1
    <2>3. live' \in [Dirs -> 0 .. NoDir] /\ aside' \in [Dirs -> 0 .. NoDir]
      BY <2>1, <2>2 DEF MoveAside
    <2>4. todo' \subseteq Dirs /\ staging' \subseteq Dirs /\ resStep' \in {"aside", "swap", "halfway"}
      BY DEF MoveAside
    <2> QED BY <2>3, <2>4 DEF MoveAside, passVars, backVars
  <1>2. LockFits'
    BY <1>0 DEF MoveAside, FirstOf, passVars, backVars, resVars, Dirs, Fault, LockFits
  <1>3. AsideFits'
    <2>1. CASE todo # {} /\ resStep' = resStep
      <3> DEFINE d == FirstOf(todo)
      <3>1. d \in todo /\ d \in Dirs
        BY <2>1 DEF FirstOf, Dirs
      <3>2. todo' = todo \ {d} /\ live' = [live EXCEPT ![d] = NoDir] /\ aside' = [aside EXCEPT ![d] = live[d]]
        BY <2>1 DEF MoveAside
      <3> HIDE DEF d
      <3> QED BY <2>1, <3>1, <3>2 DEF MoveAside, AsideFits
    <2>2. CASE todo = {} /\ resStep' = "swap"
      BY <2>2 DEF MoveAside, AsideFits
    <2>3. CASE resStep' = "halfway"
      BY <2>3 DEF MoveAside, AsideFits
    <2> QED BY <2>1, <2>2, <2>3 DEF MoveAside
  <1>4. ArchiveFits'
    BY <1>0 DEF MoveAside, FirstOf, passVars, backVars, resVars, Dirs, Fault, ArchiveFits, Contents
  <1>5. ASSUME ~overlap', resStep' # "halfway" PROVE Calm'
    <2>1. Calm
      BY <1>5 DEF MoveAside, FirstOf, passVars, backVars, resVars, Dirs, Fault
    <2>2. CASE todo # {} /\ resStep' = resStep
      <3> DEFINE d == FirstOf(todo)
      <3>1. d \in todo /\ d \in Dirs
        BY <2>2 DEF FirstOf, Dirs
      <3>2. todo' = todo \ {d} /\ live' = [live EXCEPT ![d] = NoDir] /\ aside' = [aside EXCEPT ![d] = live[d]]
        BY <2>2 DEF MoveAside
      <3> HIDE DEF d
      <3>3. \A e \in Dirs : IF e \in todo' THEN live'[e] = before[e] ELSE aside'[e] = before[e] /\ live'[e] \in {NoDir, Blank}
        BY <2>1, <3>1, <3>2 DEF Calm, MoveAside
      <3> QED BY <1>0, <2>1, <2>2, <3>3 DEF MoveAside, Calm, Home, Solid, Moving, passVars, backVars
    <2>3. CASE todo = {} /\ resStep' = "swap"
      <3>1. todo' = Dirs /\ UNCHANGED <<aside, live, staging>>
        BY <2>1, <2>3 DEF MoveAside, Calm
      <3>2. \A d \in Dirs : aside[d] = before[d] /\ live[d] \in {NoDir, Blank}
        BY <2>1, <2>3 DEF Calm, MoveAside
      <3>3. aside = before
        BY <3>2
      <3> QED BY <1>0, <2>1, <2>3, <3>1, <3>2, <3>3 DEF MoveAside, Calm, Home, Solid, Moving, passVars, backVars
    <2> QED BY <1>5, <2>2, <2>3 DEF MoveAside
  <1> QED BY <1>1, <1>2, <1>3, <1>4, <1>5

(* What was extracted is moved in, one directory after the other.            *)
LEMMA SwapStep == ASSUME RestoreInv, Swap PROVE RestoreInv'
  <1> USE DEF RestoreInv, RestoreTypes
  <1>0. MaxRestores \in Nat /\ NoDir = MaxRestores + 2 /\ Blank = MaxRestores + 1 /\ Generations = 0 .. MaxRestores + 1
    BY RestoreAssumption DEF NoDir, Generations, Blank
  <1>1. RestoreTypes'
    <2>1. FirstOf(todo) \in Dirs
      BY DEF FirstOf, Dirs
    <2>2. restores \in 0 .. NoDir
      BY <1>0
    <2>3. live' \in [Dirs -> 0 .. NoDir]
      BY <2>1, <2>2 DEF Swap, Staged
    <2>4. todo' \subseteq Dirs /\ staging' \subseteq Dirs /\ resStep' \in {"swap", "clean", "undo"}
      BY DEF Swap
    <2> QED BY <2>3, <2>4 DEF Swap, passVars, backVars
  <1>2. LockFits'
    BY <1>0 DEF Swap, FirstOf, Staged, passVars, backVars, resVars, Dirs, Fault, LockFits
  <1>3. AsideFits'
    BY <1>0 DEF Swap, FirstOf, Staged, passVars, backVars, resVars, Dirs, Fault, AsideFits
  <1>4. ArchiveFits'
    BY <1>0 DEF Swap, FirstOf, Staged, passVars, backVars, resVars, Dirs, Fault, ArchiveFits, Contents
  <1>5. ASSUME ~overlap', resStep' # "halfway" PROVE Calm'
    <2>1. Calm
      BY <1>5 DEF Swap, FirstOf, Staged, passVars, backVars, resVars, Dirs, Fault
    <2> QED BY <1>0, <1>5, <2>1 DEF Swap, FirstOf, Staged, passVars, backVars, resVars, Dirs, Fault, Calm, AtRest, Home, Solid, Moving, InHome, ArchiveFits
  <1> QED BY <1>1, <1>2, <1>3, <1>4, <1>5

(* What was moved aside comes back.                                          *)
LEMMA UndoStep == ASSUME RestoreInv, Undo PROVE RestoreInv'
  <1> USE DEF RestoreInv, RestoreTypes
  <1>0. MaxRestores \in Nat /\ NoDir = MaxRestores + 2 /\ Blank = MaxRestores + 1 /\ Generations = 0 .. MaxRestores + 1
    BY RestoreAssumption DEF NoDir, Generations, Blank
  <1>1. RestoreTypes'
    <2>1. /\ live' \in [Dirs -> 0 .. NoDir] /\ aside' \in [Dirs -> 0 .. NoDir] /\ before' \in [Dirs -> 0 .. NoDir]
          /\ staging' \subseteq Dirs /\ todo' \subseteq Dirs
      BY <1>0 DEF Undo, passVars, backVars, resVars, Dirs, Fault, Contents
    <2>2. active' \in [Generations -> Nat] /\ buildRows' \in [Generations -> SUBSET Nat]
      BY <1>0 DEF Undo, passVars, backVars, resVars, Dirs, Fault, Contents
    <2>3. snapshot' \in Contents /\ archive' \in Contents
      BY <1>0 DEF Undo, passVars, backVars, resVars, Dirs, Fault, Contents
    <2>4. /\ passStep' # "idle" => passState' \in Generations
          /\ passStep' \notin {"idle", "lock"} => passRows' \in Generations
          /\ passes' \in Nat /\ restores' \in 0 .. MaxRestores
      BY <1>0 DEF Undo, passVars, backVars, resVars, Dirs, Fault, Contents
    <2>5. /\ runLock' \in {"free", "pass", "backup"} /\ overlap' \in BOOLEAN
          /\ passStep' \in {"idle", "lock", "write", "publish", "collect"}
          /\ backStep' \in {"idle", "control", "projects", "pack", "done"}
          /\ resStep' \in {"idle", "stop", "aside", "swap", "undo", "clean", "halfway"}
      BY <1>0 DEF Undo, passVars, backVars, resVars, Dirs, Fault, Contents
    <2> QED BY <2>1, <2>2, <2>3, <2>4, <2>5
  <1>2. LockFits'
    BY <1>0 DEF Undo, passVars, backVars, resVars, Dirs, Fault, LockFits
  <1>3. AsideFits'
    BY <1>0 DEF Undo, passVars, backVars, resVars, Dirs, Fault, AsideFits
  <1>4. ArchiveFits'
    BY <1>0 DEF Undo, passVars, backVars, resVars, Dirs, Fault, ArchiveFits, Contents
  <1>5. ASSUME ~overlap', resStep' # "halfway" PROVE Calm'
    <2>1. Calm
      BY <1>5 DEF Undo, passVars, backVars, resVars, Dirs, Fault
    <2> QED BY <1>0, <1>5, <2>1 DEF Undo, passVars, backVars, resVars, Dirs, Fault, Calm, AtRest, Home, Solid, Moving, InHome, ArchiveFits
  <1> QED BY <1>1, <1>2, <1>3, <1>4, <1>5

(* What was moved aside goes, the daemon comes back.                         *)
LEMMA CleanStep == ASSUME RestoreInv, Clean PROVE RestoreInv'
  <1> USE DEF RestoreInv, RestoreTypes
  <1>0. MaxRestores \in Nat /\ NoDir = MaxRestores + 2 /\ Blank = MaxRestores + 1 /\ Generations = 0 .. MaxRestores + 1
    BY RestoreAssumption DEF NoDir, Generations, Blank
  <1>1. RestoreTypes'
    <2>1. /\ live' \in [Dirs -> 0 .. NoDir] /\ aside' \in [Dirs -> 0 .. NoDir] /\ before' \in [Dirs -> 0 .. NoDir]
          /\ staging' \subseteq Dirs /\ todo' \subseteq Dirs
      BY <1>0 DEF Clean, passVars, backVars, resVars, Dirs, Fault, Contents
    <2>2. active' \in [Generations -> Nat] /\ buildRows' \in [Generations -> SUBSET Nat]
      BY <1>0 DEF Clean, passVars, backVars, resVars, Dirs, Fault, Contents
    <2>3. snapshot' \in Contents /\ archive' \in Contents
      BY <1>0 DEF Clean, passVars, backVars, resVars, Dirs, Fault, Contents
    <2>4. /\ passStep' # "idle" => passState' \in Generations
          /\ passStep' \notin {"idle", "lock"} => passRows' \in Generations
          /\ passes' \in Nat /\ restores' \in 0 .. MaxRestores
      BY <1>0 DEF Clean, passVars, backVars, resVars, Dirs, Fault, Contents
    <2>5. /\ runLock' \in {"free", "pass", "backup"} /\ overlap' \in BOOLEAN
          /\ passStep' \in {"idle", "lock", "write", "publish", "collect"}
          /\ backStep' \in {"idle", "control", "projects", "pack", "done"}
          /\ resStep' \in {"idle", "stop", "aside", "swap", "undo", "clean", "halfway"}
      BY <1>0 DEF Clean, passVars, backVars, resVars, Dirs, Fault, Contents
    <2> QED BY <2>1, <2>2, <2>3, <2>4, <2>5
  <1>2. LockFits'
    BY <1>0 DEF Clean, passVars, backVars, resVars, Dirs, Fault, LockFits
  <1>3. AsideFits'
    BY <1>0 DEF Clean, passVars, backVars, resVars, Dirs, Fault, AsideFits
  <1>4. ArchiveFits'
    BY <1>0 DEF Clean, passVars, backVars, resVars, Dirs, Fault, ArchiveFits, Contents
  <1>5. ASSUME ~overlap', resStep' # "halfway" PROVE Calm'
    <2>1. Calm
      BY <1>5 DEF Clean, passVars, backVars, resVars, Dirs, Fault
    <2> QED BY <1>0, <1>5, <2>1 DEF Clean, passVars, backVars, resVars, Dirs, Fault, Calm, AtRest, Home, Solid, Moving, InHome, ArchiveFits
  <1> QED BY <1>1, <1>2, <1>3, <1>4, <1>5

(* A restore that dies leaves what it moved where it is.                     *)
LEMMA DieStep == ASSUME RestoreInv, Die PROVE RestoreInv'
  <1> USE DEF RestoreInv, RestoreTypes
  <1>0. MaxRestores \in Nat /\ NoDir = MaxRestores + 2 /\ Blank = MaxRestores + 1 /\ Generations = 0 .. MaxRestores + 1
    BY RestoreAssumption DEF NoDir, Generations, Blank
  <1>1. RestoreTypes'
    <2>1. /\ live' \in [Dirs -> 0 .. NoDir] /\ aside' \in [Dirs -> 0 .. NoDir] /\ before' \in [Dirs -> 0 .. NoDir]
          /\ staging' \subseteq Dirs /\ todo' \subseteq Dirs
      BY <1>0 DEF Die, passVars, backVars, resVars, Dirs, Fault, Contents
    <2>2. active' \in [Generations -> Nat] /\ buildRows' \in [Generations -> SUBSET Nat]
      BY <1>0 DEF Die, passVars, backVars, resVars, Dirs, Fault, Contents
    <2>3. snapshot' \in Contents /\ archive' \in Contents
      BY <1>0 DEF Die, passVars, backVars, resVars, Dirs, Fault, Contents
    <2>4. /\ passStep' # "idle" => passState' \in Generations
          /\ passStep' \notin {"idle", "lock"} => passRows' \in Generations
          /\ passes' \in Nat /\ restores' \in 0 .. MaxRestores
      BY <1>0 DEF Die, passVars, backVars, resVars, Dirs, Fault, Contents
    <2>5. /\ runLock' \in {"free", "pass", "backup"} /\ overlap' \in BOOLEAN
          /\ passStep' \in {"idle", "lock", "write", "publish", "collect"}
          /\ backStep' \in {"idle", "control", "projects", "pack", "done"}
          /\ resStep' \in {"idle", "stop", "aside", "swap", "undo", "clean", "halfway"}
      BY <1>0 DEF Die, passVars, backVars, resVars, Dirs, Fault, Contents
    <2> QED BY <2>1, <2>2, <2>3, <2>4, <2>5
  <1>2. LockFits'
    BY <1>0 DEF Die, passVars, backVars, resVars, Dirs, Fault, LockFits
  <1>3. AsideFits'
    BY <1>0 DEF Die, passVars, backVars, resVars, Dirs, Fault, AsideFits
  <1>4. ArchiveFits'
    BY <1>0 DEF Die, passVars, backVars, resVars, Dirs, Fault, ArchiveFits, Contents
  <1>5. ASSUME ~overlap', resStep' # "halfway" PROVE Calm'
    <2>1. Calm
      BY <1>5 DEF Die, passVars, backVars, resVars, Dirs, Fault
    <2> QED BY <1>0, <1>5, <2>1 DEF Die, passVars, backVars, resVars, Dirs, Fault, Calm, AtRest, Home, Solid, Moving, InHome, ArchiveFits
  <1> QED BY <1>1, <1>2, <1>3, <1>4, <1>5

(* Every reachable state of backup, restore and the passes beside them       *)
(* satisfies the inductive invariant.                                        *)
THEOREM RestoreInvariant == RestoreSpec => []RestoreInv
  <1>1. RestoreInit => RestoreInv
    BY RestoreStarts
  <1>2. RestoreInv /\ [RestoreNext]_restoreVars => RestoreInv'
    <2> SUFFICES ASSUME RestoreInv, [RestoreNext]_restoreVars PROVE RestoreInv'
      OBVIOUS
    <2>1. CASE UNCHANGED restoreVars
      BY <2>1 DEF restoreVars, RestoreInv, RestoreTypes, LockFits, AsideFits, ArchiveFits, Calm, AtRest, Home, Solid, Moving, InHome
    <2>2. ASSUME NEW owner \in {"daemon", "cli"}, OpenControl(owner) PROVE RestoreInv'
      BY <2>2, OpenControlStep
    <2> QED BY <2>1, <2>2, OpenStoreStep, WriteRowsStep, PublishBuildStep, CollectRowsStep, PassEndsStep, LockHomeStep,
               SnapshotControlStep, SnapshotProjectsStep, PackStep, ExtractStep, StopFirstStep, MoveAsideStep, SwapStep,
               UndoStep, CleanStep, DieStep DEF RestoreNext
  <1> QED BY <1>1, <1>2, PTL DEF RestoreSpec

(* An archive is whole, a restore loses nothing and puts in all or nothing,  *)
(* and what readers are sent to has rows when no pass had a database open    *)
(* meanwhile (backup.rs:52-261).                                             *)
THEOREM RestoresAreRight == RestoreSpec => []RestoreRight
  <1>1. RestoreInv => RestoreRight
    <2> SUFFICES ASSUME RestoreInv PROVE RestoreRight
      OBVIOUS
    <2>0. MaxRestores \in Nat /\ NoDir = MaxRestores + 2 /\ Blank = MaxRestores + 1
      BY RestoreAssumption DEF NoDir, Blank
    <2>1. ArchiveWhole
      BY DEF RestoreInv, ArchiveFits, ArchiveWhole
    <2>2. NothingLost
      BY <2>0 DEF RestoreInv, RestoreTypes, AsideFits, NothingLost
    <2>3. AllOrNothing
      BY <2>0 DEF RestoreInv, Calm, AtRest, Home, InHome, AllOrNothing, Staged, Dirs
    <2>4. ServedWhole
      BY <2>0 DEF RestoreInv, RestoreTypes, Calm, AtRest, Home, InHome, Solid, ServedWhole, Served, Dirs
    <2> QED BY <2>1, <2>2, <2>3, <2>4 DEF RestoreRight
  <1> QED BY <1>1, RestoreInvariant, PTL

-----------------------------------------------------------------------------
(* Update and rollback.                                                      *)

InstallSteps ==
    {"first", "idle", "unpack", "place", "check", "models", "point", "copyExe", "record", "recheck", "prune"}
InstallRecord == [current : Nat, previous : Nat]

InstallTypes ==
    /\ windows \in BOOLEAN /\ goingBack \in BOOLEAN
    /\ published \in 0 .. Len(Releases)
    /\ dirs \subseteq Nat \ {0} /\ partials \subseteq Nat /\ condemned \subseteq Nat
    /\ link \in Nat /\ target \in Nat /\ mishaps \in Nat
    /\ record \in InstallRecord /\ upBefore \in [link : Nat, record : InstallRecord]
    /\ models \in [ModelFiles -> Nat] /\ toCopy \subseteq ModelFiles
    /\ upStep \in InstallSteps

Known(v) == v = FirstVersion \/ \E i \in 1 .. published : Releases[i].version = v
Good(v) == v # None /\ Known(v) /\ Starts(v)

\* What runs, and where the command is.
LinkFits ==
    /\ link # None => link \in dirs /\ Good(link)
    /\ link = None => windows /\ (upStep = "copyExe" \/ (upStep = "idle" /\ mishaps > 0))
    /\ upStep \in {"unpack", "place", "check", "models", "point"} => link = upBefore.link
    /\ upStep = "copyExe" => upBefore.link \in dirs /\ Good(upBefore.link)
    /\ upStep \in {"record", "recheck", "prune"} => link = target

\* The version the command is about.
TargetFits ==
    /\ upStep \notin {"first", "idle"} => target # None /\ Known(target)
    /\ upStep \in {"models", "point", "copyExe", "record", "recheck", "prune"} => Good(target)
    /\ upStep \in {"point", "copyExe", "record"} => target \in dirs

\* What is recorded started once, and an install goes from the version that runs
\* to a newer one.
RecordFits ==
    /\ record.current # None => Good(record.current)
    /\ record.previous # None => Good(record.previous)
    /\ record.current \in dirs \cup {None} \cup condemned
    /\ record.previous \in dirs \cup {None} \cup condemned
    /\ upStep \in {"recheck", "prune"} => record.current = target
    /\ upStep \in {"unpack", "place", "check"} => ~goingBack
    /\ ~goingBack /\ upStep \in {"unpack", "place", "check", "models", "point", "copyExe", "record"} =>
          record = upBefore.record /\ target > upBefore.link /\ upBefore.link # None
    /\ upStep \in {"recheck", "prune"} /\ upBefore.record.current = upBefore.link =>
          record = [current |-> target, previous |-> upBefore.link]

\* Where no call failed: nothing is left over between commands, and in a command
\* only what it is about is new.
KeptDirs == {record.current, record.previous} \ {None}
NoTrouble ==
    mishaps = 0 =>
        /\ record.current # None /\ record.current # record.previous /\ KeptDirs \subseteq dirs
        /\ upStep \in {"first", "idle", "unpack", "place", "check", "models", "point"} => record.current = link
        /\ upStep = "copyExe" => record.current = upBefore.link
        /\ partials = IF upStep = "place" THEN {target} ELSE {}
        /\ upStep \in {"first", "idle", "unpack", "place", "check"} => \A f \in ModelFiles : models[f] = link
        /\ upStep = "models" => \A f \in ModelFiles : f \in toCopy \/ models[f] = target
        /\ upStep \in {"point", "copyExe", "record", "recheck", "prune"} => \A f \in ModelFiles : models[f] = target
        /\ upStep \in {"first", "idle", "unpack", "place"} => dirs = KeptDirs
        /\ upStep \in {"check", "models", "point", "copyExe", "record"} => dirs = KeptDirs \cup {target}
        /\ goingBack /\ upStep \in {"models", "point", "copyExe", "record"} => target = record.previous

InstallInv == InstallTypes /\ LinkFits /\ TargetFits /\ RecordFits /\ NoTrouble

(* Every release has a version of its own, none is the one that stands for   *)
(* none.                                                                     *)
LEMMA VersionsFit ==
    Len(Releases) \in Nat /\ \A i \in 1 .. Len(Releases) : Releases[i].version \in Nat \ {0}
  <1>1. \A i \in 1 .. Len(Releases) :
            Releases[i] \in [version : Nat \ {0}, draft : BOOLEAN, asset : BOOLEAN, starts : BOOLEAN]
    BY InstallAssumption, ElementOfSeq
  <1> QED BY <1>1, InstallAssumption, LenProperties

(* What is known of a release does not change when others come out.          *)
LEMMA KnownStays ==
  ASSUME InstallTypes, NEW v, Known(v), published' \in {published, published + 1}, published' \in 0 .. Len(Releases)
  PROVE  Known(v)' /\ (Starts(v)' <=> Starts(v))
  <1>1. CASE v = FirstVersion
    BY <1>1 DEF Known, Starts
  <1>2. ASSUME NEW i \in 1 .. published, Releases[i].version = v PROVE Known(v)' /\ (Starts(v)' <=> Starts(v))
    <2>1. Len(Releases) \in Nat \/ Len(Releases) \notin Nat
      OBVIOUS
    <2>2. i \in 1 .. published' /\ published \in Int
      BY <1>2 DEF InstallTypes
    <2>3. \A j \in 1 .. published : Releases[j].version = v => j = i
      <3> TAKE j \in 1 .. published
      <3>1. i \in 1 .. Len(Releases) /\ j \in 1 .. Len(Releases)
        BY VersionsFit DEF InstallTypes
      <3> QED BY <1>2, <3>1, InstallAssumption
    <2>4. \A j \in 1 .. published' : Releases[j].version = v => j = i
      <3> TAKE j \in 1 .. published'
      <3>1. i \in 1 .. Len(Releases) /\ j \in 1 .. Len(Releases)
        BY <2>2, VersionsFit DEF InstallTypes
      <3> QED BY <1>2, <3>1, InstallAssumption
    <2>5. ReleaseOf(v) = Releases[i]
      BY <1>2, <2>3 DEF ReleaseOf, OutNow
    <2>6. ReleaseOf(v)' = Releases[i]
      BY <1>2, <2>2, <2>4 DEF ReleaseOf, OutNow
    <2> QED BY <1>2, <2>2, <2>5, <2>6 DEF Known, Starts
  <1> QED BY <1>1, <1>2 DEF Known

(* A version that started once starts, whatever comes out later.             *)
LEMMA GoodStays ==
  ASSUME InstallTypes, NEW v, Good(v), published' \in {published, published + 1}, published' \in 0 .. Len(Releases)
  PROVE  Good(v)'
  BY KnownStays DEF Good

(* The first version is installed, linked and recorded.                      *)
LEMMA InstallStarts == InstallInit => InstallInv
  <1> SUFFICES ASSUME InstallInit PROVE InstallInv
    OBVIOUS
  <1>1. Good(FirstVersion) /\ FirstVersion \in Nat \ {0}
    BY InstallAssumption DEF Good, Known, Starts, None
  <1>2. InstallTypes
    <2>1. record = [current |-> FirstVersion, previous |-> None] /\ record \in InstallRecord
      BY <1>1 DEF InstallInit, InstallRecord, None
    <2>2. upBefore \in [link : Nat, record : InstallRecord]
      BY <1>1, <2>1 DEF InstallInit
    <2>3. published \in 0 .. Len(Releases)
      BY VersionsFit DEF InstallInit
    <2> QED BY <1>1, <2>1, <2>2, <2>3 DEF InstallInit, InstallTypes, InstallSteps, None
  <1> QED BY <1>1, <1>2 DEF InstallInit, InstallInv, LinkFits, TargetFits, RecordFits, NoTrouble, KeptDirs, None

(* An install is of a newer release with an archive.                         *)
LEMMA InstallLatestStep ==
  ASSUME InstallInv, NEW channel \in Channels, InstallLatest(channel) PROVE InstallInv'
  <1> USE DEF InstallInv, InstallTypes
  <1>0. \A v : (Good(v)' <=> Good(v)) /\ (Known(v)' <=> Known(v))
    BY DEF Good, Known, Starts, ReleaseOf, OutNow, InstallLatest, IsNewer
  <1> DEFINE v == FetchLatest(channel)
  <1>6. /\ upStep = "idle" /\ link # None /\ v # None /\ v > link
        /\ target' = v /\ goingBack' = FALSE /\ upBefore' = [link |-> link, record |-> record]
        /\ upStep' \in {"check", "unpack"} /\ (upStep' = "check" => v \in dirs) /\ (upStep' = "unpack" => v \notin dirs)
        /\ UNCHANGED <<windows, published, dirs, partials, link, record, models, toCopy, mishaps, condemned>>
    BY DEF InstallLatest, IsNewer
  <1>7. PICK i \in 1 .. published : Releases[i].version = v
    BY DEF InstallLatest, OutNow
  <1>8. v \in Nat /\ Known(v)
    <2>1. i \in 1 .. Len(Releases)
      BY VersionsFit
    <2> QED BY <1>7, <2>1, VersionsFit DEF Known
  <1> HIDE DEF v
  <1>1. InstallTypes'
    BY <1>6, <1>8 DEF InstallSteps, InstallRecord, None
  <1>2. LinkFits'
    BY <1>0, <1>6, <1>8 DEF LinkFits, TargetFits, RecordFits, None
  <1>3. TargetFits'
    BY <1>0, <1>6, <1>8 DEF LinkFits, TargetFits, RecordFits, None
  <1>4. RecordFits'
    BY <1>0, <1>6, <1>8 DEF LinkFits, TargetFits, RecordFits, InstallRecord, None
  <1>5. NoTrouble'
    BY <1>0, <1>6, <1>8 DEF LinkFits, TargetFits, RecordFits, NoTrouble, KeptDirs, InstallRecord, None
  <1> QED BY <1>1, <1>2, <1>3, <1>4, <1>5

(* The archive is unpacked next to the versions, or the call fails.          *)
LEMMA UnpackStep ==
  ASSUME InstallInv, Unpack PROVE InstallInv'
  <1> USE DEF InstallInv, InstallTypes
  <1>0. \A v : (Good(v)' <=> Good(v)) /\ (Known(v)' <=> Known(v))
    BY DEF Good, Known, Starts, ReleaseOf, OutNow, Unpack, Mishap
  <1>1. InstallTypes'
    BY <1>0 DEF Unpack, Mishap, InstallSteps, InstallRecord, None
  <1>2. LinkFits'
    BY <1>0 DEF Unpack, Mishap, LinkFits, TargetFits, RecordFits, None
  <1>3. TargetFits'
    BY <1>0 DEF Unpack, Mishap, LinkFits, TargetFits, RecordFits, None
  <1>4. RecordFits'
    BY <1>0 DEF Unpack, Mishap, LinkFits, TargetFits, RecordFits, InstallRecord, None
  <1>5. NoTrouble'
    <2>1. CASE upStep' = "place"
      BY <1>0, <2>1 DEF Unpack, LinkFits, TargetFits, RecordFits, NoTrouble, KeptDirs
    <2>2. CASE upStep' = "idle"
      <3>1. mishaps' # 0
        BY <2>2 DEF Unpack, Mishap
      <3> QED BY <3>1 DEF NoTrouble
    <2> QED BY <2>1, <2>2 DEF Unpack
  <1> QED BY <1>1, <1>2, <1>3, <1>4, <1>5

(* A whole directory is moved into its place.                                *)
LEMMA PlaceStep ==
  ASSUME InstallInv, Place PROVE InstallInv'
  <1> USE DEF InstallInv, InstallTypes
  <1>0. \A v : (Good(v)' <=> Good(v)) /\ (Known(v)' <=> Known(v))
    BY DEF Good, Known, Starts, ReleaseOf, OutNow, Place, Mishap
  <1>1. InstallTypes'
    <2>1. target \in Nat \ {0}
      BY DEF Place, TargetFits, None
    <2>2. dirs' \subseteq dirs \cup {target}
      BY DEF Place
    <2>3. partials' \subseteq partials /\ condemned' \subseteq condemned /\ mishaps' \in Nat
      BY DEF Place, Mishap
    <2> QED BY <2>1, <2>2, <2>3 DEF Place, InstallSteps
  <1>2. LinkFits'
    BY <1>0 DEF Place, Mishap, LinkFits, TargetFits, RecordFits, None
  <1>3. TargetFits'
    BY <1>0 DEF Place, Mishap, LinkFits, TargetFits, RecordFits, None
  <1>4. RecordFits'
    BY <1>0 DEF Place, Mishap, LinkFits, TargetFits, RecordFits, InstallRecord, None
  <1>5. NoTrouble'
    BY <1>0 DEF Place, Mishap, LinkFits, TargetFits, RecordFits, NoTrouble, KeptDirs, InstallRecord, None
  <1> QED BY <1>1, <1>2, <1>3, <1>4, <1>5

(* Only a version that starts goes on; another one is removed.               *)
LEMMA SelfCheckStep ==
  ASSUME InstallInv, SelfCheck PROVE InstallInv'
  <1> USE DEF InstallInv, InstallTypes
  <1>0. \A v : (Good(v)' <=> Good(v)) /\ (Known(v)' <=> Known(v))
    BY DEF Good, Known, Starts, ReleaseOf, OutNow, SelfCheck, Mishap
  <1>6. \A v : Good(v) <=> v # None /\ Known(v) /\ Starts(v)
    BY DEF Good
  <1>1. InstallTypes'
    <2>1. dirs' \subseteq dirs
      BY DEF SelfCheck
    <2>2. condemned' \subseteq condemned \cup dirs /\ mishaps' \in Nat /\ toCopy' \subseteq ModelFiles
      BY DEF SelfCheck, Mishap
    <2>3. upStep' \in InstallSteps
      BY DEF SelfCheck, InstallSteps
    <2> QED BY <2>1, <2>2, <2>3 DEF SelfCheck
  <1>2. LinkFits'
    BY <1>0, <1>6 DEF SelfCheck, Mishap, LinkFits, TargetFits, RecordFits, None
  <1>3. TargetFits'
    BY <1>0, <1>6 DEF SelfCheck, Mishap, LinkFits, TargetFits, RecordFits, None
  <1>4. RecordFits'
    BY <1>0, <1>6 DEF SelfCheck, Mishap, LinkFits, TargetFits, RecordFits, InstallRecord, None
  <1>5. NoTrouble'
    <2>1. ASSUME mishaps' = 0, upStep' = "models" PROVE NoTrouble'
      BY <1>0, <2>1 DEF SelfCheck, Mishap, LinkFits, TargetFits, RecordFits, NoTrouble, KeptDirs
    <2>2. ASSUME mishaps' = 0, upStep' = "idle" PROVE NoTrouble'
      <3>1. mishaps = 0 /\ ~Starts(target) /\ target # None
        BY <2>2 DEF SelfCheck, Mishap, TargetFits
      <3>2. target \notin KeptDirs
        BY <1>6, <3>1 DEF RecordFits, KeptDirs
      <3>3. dirs = KeptDirs \cup {target} /\ record.current # target
        BY <3>1, <3>2 DEF NoTrouble, SelfCheck, KeptDirs
      <3>4. dirs' = KeptDirs
        BY <2>2, <3>2, <3>3 DEF SelfCheck
      <3> QED BY <2>2, <3>1, <3>4 DEF SelfCheck, NoTrouble, KeptDirs
    <2> QED BY <2>1, <2>2 DEF SelfCheck, NoTrouble
  <1> QED BY <1>1, <1>2, <1>3, <1>4, <1>5

(* A rollback is to the version recorded before.                             *)
LEMMA RollbackStep ==
  ASSUME InstallInv, Rollback PROVE InstallInv'
  <1> USE DEF InstallInv, InstallTypes
  <1>0. \A v : (Good(v)' <=> Good(v)) /\ (Known(v)' <=> Known(v))
    BY DEF Good, Known, Starts, ReleaseOf, OutNow, Rollback
  <1>6. \A v : Good(v) <=> v # None /\ Known(v) /\ Starts(v)
    BY DEF Good
  <1>1. InstallTypes'
    BY <1>0, <1>6 DEF Rollback, InstallSteps, InstallRecord, None
  <1>2. LinkFits'
    BY <1>0, <1>6 DEF Rollback, LinkFits, TargetFits, RecordFits, None
  <1>3. TargetFits'
    BY <1>0, <1>6 DEF Rollback, LinkFits, TargetFits, RecordFits, None
  <1>4. RecordFits'
    BY <1>0, <1>6 DEF Rollback, LinkFits, TargetFits, RecordFits, InstallRecord, None
  <1>5. NoTrouble'
    BY <1>0, <1>6 DEF Rollback, LinkFits, TargetFits, RecordFits, NoTrouble, KeptDirs, InstallRecord, None
  <1> QED BY <1>1, <1>2, <1>3, <1>4, <1>5

(* A model file is copied.                                                   *)
LEMMA CopyModelStep ==
  ASSUME InstallInv, NEW f \in ModelFiles, CopyModel(f) PROVE InstallInv'
  <1> USE DEF InstallInv, InstallTypes
  <1>0. \A v : (Good(v)' <=> Good(v)) /\ (Known(v)' <=> Known(v))
    BY DEF Good, Known, Starts, ReleaseOf, OutNow, CopyModel
  <1>1. InstallTypes'
    BY <1>0 DEF CopyModel, InstallSteps, InstallRecord, None
  <1>2. LinkFits'
    BY <1>0 DEF CopyModel, LinkFits, TargetFits, RecordFits, None
  <1>3. TargetFits'
    BY <1>0 DEF CopyModel, LinkFits, TargetFits, RecordFits, None
  <1>4. RecordFits'
    BY <1>0 DEF CopyModel, LinkFits, TargetFits, RecordFits, InstallRecord, None
  <1>5. NoTrouble'
    BY <1>0 DEF CopyModel, LinkFits, TargetFits, RecordFits, NoTrouble, KeptDirs, InstallRecord, None
  <1> QED BY <1>1, <1>2, <1>3, <1>4, <1>5

(* All models are of the version that is installed.                          *)
LEMMA ModelsCopiedStep ==
  ASSUME InstallInv, ModelsCopied PROVE InstallInv'
  <1> USE DEF InstallInv, InstallTypes
  <1>0. \A v : (Good(v)' <=> Good(v)) /\ (Known(v)' <=> Known(v))
    BY DEF Good, Known, Starts, ReleaseOf, OutNow, ModelsCopied
  <1>1. InstallTypes'
    BY <1>0 DEF ModelsCopied, InstallSteps, InstallRecord, None
  <1>2. LinkFits'
    BY <1>0 DEF ModelsCopied, LinkFits, TargetFits, RecordFits, None
  <1>3. TargetFits'
    BY <1>0 DEF ModelsCopied, LinkFits, TargetFits, RecordFits, None
  <1>4. RecordFits'
    BY <1>0 DEF ModelsCopied, LinkFits, TargetFits, RecordFits, InstallRecord, None
  <1>5. NoTrouble'
    BY <1>0 DEF ModelsCopied, LinkFits, TargetFits, RecordFits, NoTrouble, KeptDirs, InstallRecord, None
  <1> QED BY <1>1, <1>2, <1>3, <1>4, <1>5

(* The command becomes that of a version that starts (install.rs:200).       *)
LEMMA PointCurrentStep ==
  ASSUME InstallInv, PointCurrent PROVE InstallInv'
  <1> USE DEF InstallInv, InstallTypes
  <1>0. \A v : (Good(v)' <=> Good(v)) /\ (Known(v)' <=> Known(v))
    BY DEF Good, Known, Starts, ReleaseOf, OutNow, PointCurrent
  <1>1. InstallTypes'
    BY <1>0 DEF PointCurrent, InstallSteps, InstallRecord, None
  <1>2. LinkFits'
    BY <1>0 DEF PointCurrent, LinkFits, TargetFits, RecordFits, None
  <1>3. TargetFits'
    BY <1>0 DEF PointCurrent, LinkFits, TargetFits, RecordFits, None
  <1>4. RecordFits'
    BY <1>0 DEF PointCurrent, LinkFits, TargetFits, RecordFits, InstallRecord, None
  <1>5. NoTrouble'
    BY <1>0 DEF PointCurrent, LinkFits, TargetFits, RecordFits, NoTrouble, KeptDirs, InstallRecord, None
  <1> QED BY <1>1, <1>2, <1>3, <1>4, <1>5

(* On Windows the command is copied, or the one before comes back.           *)
LEMMA CopyExeStep ==
  ASSUME InstallInv, CopyExe PROVE InstallInv'
  <1> USE DEF InstallInv, InstallTypes
  <1>0. \A v : (Good(v)' <=> Good(v)) /\ (Known(v)' <=> Known(v))
    BY DEF Good, Known, Starts, ReleaseOf, OutNow, CopyExe, Mishap
  <1>1. InstallTypes'
    BY <1>0 DEF CopyExe, Mishap, InstallSteps, InstallRecord, None
  <1>2. LinkFits'
    BY <1>0 DEF CopyExe, Mishap, LinkFits, TargetFits, RecordFits, None
  <1>3. TargetFits'
    BY <1>0 DEF CopyExe, Mishap, LinkFits, TargetFits, RecordFits, None
  <1>4. RecordFits'
    BY <1>0 DEF CopyExe, Mishap, LinkFits, TargetFits, RecordFits, InstallRecord, None
  <1>5. NoTrouble'
    BY <1>0 DEF CopyExe, Mishap, LinkFits, TargetFits, RecordFits, NoTrouble, KeptDirs, InstallRecord, None
  <1> QED BY <1>1, <1>2, <1>3, <1>4, <1>5

(* The version that runs is recorded, with the one before.                   *)
LEMMA RecordStep ==
  ASSUME InstallInv, Record PROVE InstallInv'
  <1> USE DEF InstallInv, InstallTypes
  <1>0. \A v : (Good(v)' <=> Good(v)) /\ (Known(v)' <=> Known(v))
    BY DEF Good, Known, Starts, ReleaseOf, OutNow, Record
  <1>1. InstallTypes'
    BY <1>0 DEF Record, InstallSteps, InstallRecord, None
  <1>2. LinkFits'
    BY <1>0 DEF Record, LinkFits, TargetFits, RecordFits, None
  <1>3. TargetFits'
    BY <1>0 DEF Record, LinkFits, TargetFits, RecordFits, None
  <1>4. RecordFits'
    BY <1>0 DEF Record, LinkFits, TargetFits, RecordFits, InstallRecord, None
  <1>5. NoTrouble'
    BY <1>0 DEF Record, LinkFits, TargetFits, RecordFits, NoTrouble, KeptDirs, InstallRecord, None
  <1> QED BY <1>1, <1>2, <1>3, <1>4, <1>5

(* The installed version is checked once more, or the one before comes back. *)
LEMMA RecheckStep ==
  ASSUME InstallInv, Recheck PROVE InstallInv'
  <1> USE DEF InstallInv, InstallTypes
  <1>0. \A v : (Good(v)' <=> Good(v)) /\ (Known(v)' <=> Known(v))
    BY DEF Good, Known, Starts, ReleaseOf, OutNow, Recheck, Mishap
  <1>6. \A v : Good(v) <=> v # None /\ Known(v) /\ Starts(v)
    BY DEF Good
  <1>1. InstallTypes'
    <2>1. upBefore' = upBefore \/ upBefore' = [upBefore EXCEPT !.link = link]
      BY DEF Recheck
    <2>2. upBefore' \in [link : Nat, record : InstallRecord]
      BY <2>1
    <2>3. record.previous \in Nat
      BY DEF InstallRecord
    <2>4. target' \in Nat /\ goingBack' \in BOOLEAN
      BY <2>3 DEF Recheck
    <2>5. mishaps' \in Nat /\ upStep' \in InstallSteps
      BY DEF Recheck, Mishap, InstallSteps
    <2> QED BY <2>2, <2>4, <2>5 DEF Recheck
  <1>2. LinkFits'
    BY <1>0, <1>6 DEF Recheck, Mishap, LinkFits, TargetFits, RecordFits, None
  <1>3. TargetFits'
    BY <1>0, <1>6 DEF Recheck, Mishap, LinkFits, TargetFits, RecordFits, None
  <1>4. RecordFits'
    BY <1>0, <1>6 DEF Recheck, Mishap, LinkFits, TargetFits, RecordFits, InstallRecord, None
  <1>5. NoTrouble'
    BY <1>0, <1>6 DEF Recheck, Mishap, LinkFits, TargetFits, RecordFits, NoTrouble, KeptDirs, InstallRecord, None
  <1> QED BY <1>1, <1>2, <1>3, <1>4, <1>5

(* Pruning keeps what runs and the way back.                                 *)
LEMMA PruneStep ==
  ASSUME InstallInv, Prune PROVE InstallInv'
  <1> USE DEF InstallInv, InstallTypes
  <1>0. \A v : (Good(v)' <=> Good(v)) /\ (Known(v)' <=> Known(v))
    BY DEF Good, Known, Starts, ReleaseOf, OutNow, Prune
  <1>1. InstallTypes'
    BY <1>0 DEF Prune, InstallSteps, InstallRecord, None
  <1>2. LinkFits'
    BY <1>0 DEF Prune, LinkFits, TargetFits, RecordFits, None
  <1>3. TargetFits'
    BY <1>0 DEF Prune, LinkFits, TargetFits, RecordFits, None
  <1>4. RecordFits'
    BY <1>0 DEF Prune, LinkFits, TargetFits, RecordFits, InstallRecord, None
  <1>5. NoTrouble'
    BY <1>0 DEF Prune, LinkFits, TargetFits, RecordFits, NoTrouble, KeptDirs, InstallRecord, None
  <1> QED BY <1>1, <1>2, <1>3, <1>4, <1>5

(* A call that fails, or a death, in the middle of a command.                *)
LEMMA BreakStep ==
  ASSUME InstallInv, Break PROVE InstallInv'
  <1> USE DEF InstallInv, InstallTypes
  <1>0. \A v : (Good(v)' <=> Good(v)) /\ (Known(v)' <=> Known(v))
    BY DEF Good, Known, Starts, ReleaseOf, OutNow, Break, Error, End, Mishap
  <1>1. InstallTypes'
    BY <1>0 DEF Break, Error, End, Mishap, InstallSteps, InstallRecord, None
  <1>2. LinkFits'
    BY <1>0 DEF Break, Error, End, Mishap, LinkFits, TargetFits, RecordFits, None
  <1>3. TargetFits'
    BY <1>0 DEF Break, Error, End, Mishap, LinkFits, TargetFits, RecordFits, None
  <1>4. RecordFits'
    BY <1>0 DEF Break, Error, End, Mishap, LinkFits, TargetFits, RecordFits, InstallRecord, None
  <1>5. NoTrouble'
    BY <1>0 DEF Break, Error, End, Mishap, LinkFits, TargetFits, RecordFits, NoTrouble, KeptDirs, InstallRecord, None
  <1> QED BY <1>1, <1>2, <1>3, <1>4, <1>5

(* A record that cannot be read is as if there were none.                    *)
LEMMA LoseRecordStep ==
  ASSUME InstallInv, LoseRecord PROVE InstallInv'
  <1> USE DEF InstallInv, InstallTypes
  <1>0. \A v : (Good(v)' <=> Good(v)) /\ (Known(v)' <=> Known(v))
    BY DEF Good, Known, Starts, ReleaseOf, OutNow, LoseRecord, Mishap
  <1>1. InstallTypes'
    BY <1>0 DEF LoseRecord, Mishap, InstallSteps, InstallRecord, None
  <1>2. LinkFits'
    BY <1>0 DEF LoseRecord, Mishap, LinkFits, TargetFits, RecordFits, None
  <1>3. TargetFits'
    BY <1>0 DEF LoseRecord, Mishap, LinkFits, TargetFits, RecordFits, None
  <1>4. RecordFits'
    BY <1>0 DEF LoseRecord, Mishap, LinkFits, TargetFits, RecordFits, InstallRecord, None
  <1>5. NoTrouble'
    BY <1>0 DEF LoseRecord, Mishap, LinkFits, TargetFits, RecordFits, NoTrouble, KeptDirs, InstallRecord, None
  <1> QED BY <1>1, <1>2, <1>3, <1>4, <1>5

(* The platform is chosen once.                                              *)
LEMMA ChoosePlatformStep ==
  ASSUME InstallInv, ChoosePlatform PROVE InstallInv'
  <1> USE DEF InstallInv, InstallTypes
  <1>0. \A v : (Good(v)' <=> Good(v)) /\ (Known(v)' <=> Known(v))
    BY DEF Good, Known, Starts, ReleaseOf, OutNow, ChoosePlatform
  <1>1. InstallTypes'
    BY <1>0 DEF ChoosePlatform, InstallSteps, InstallRecord, None
  <1>2. LinkFits'
    BY <1>0 DEF ChoosePlatform, LinkFits, TargetFits, RecordFits, None
  <1>3. TargetFits'
    BY <1>0 DEF ChoosePlatform, LinkFits, TargetFits, RecordFits, None
  <1>4. RecordFits'
    BY <1>0 DEF ChoosePlatform, LinkFits, TargetFits, RecordFits, InstallRecord, None
  <1>5. NoTrouble'
    BY <1>0 DEF ChoosePlatform, LinkFits, TargetFits, RecordFits, NoTrouble, KeptDirs, InstallRecord, None
  <1> QED BY <1>1, <1>2, <1>3, <1>4, <1>5

(* A release comes out.                                                      *)
LEMMA PublishStep ==
  ASSUME InstallInv, Publish PROVE InstallInv'
  <1>1. InstallTypes /\ published' = published + 1 /\ published' \in 0 .. Len(Releases) /\ upStep = "idle"
        /\ UNCHANGED <<windows, dirs, partials, link, record, models, upStep, target,
                       goingBack, upBefore, toCopy, commands, mishaps, condemned>>
    BY VersionsFit DEF InstallInv, InstallTypes, Publish
  <1>2. \A v : (Good(v) => Good(v)') /\ (Known(v) => Known(v)')
    BY <1>1, GoodStays, KnownStays
  <1>3. InstallTypes'
    BY <1>1 DEF InstallTypes
  <1>4. LinkFits'
    BY <1>1, <1>2 DEF InstallInv, LinkFits
  <1>5. TargetFits'
    BY <1>1, <1>2 DEF InstallInv, TargetFits
  <1>6. RecordFits'
    BY <1>1, <1>2 DEF InstallInv, RecordFits
  <1>7. NoTrouble'
    BY <1>1 DEF InstallInv, NoTrouble, KeptDirs
  <1> QED BY <1>3, <1>4, <1>5, <1>6, <1>7 DEF InstallInv

(* Every step keeps the inductive invariant.                                 *)
LEMMA InstallStep == ASSUME InstallInv, [InstallNext]_installVars PROVE InstallInv'
  <1>1. CASE InstallNext
    BY <1>1, ChoosePlatformStep, PublishStep, InstallLatestStep, UnpackStep, PlaceStep, SelfCheckStep, RollbackStep,
       CopyModelStep, ModelsCopiedStep, PointCurrentStep, CopyExeStep, RecordStep, RecheckStep, PruneStep,
       BreakStep, LoseRecordStep DEF InstallNext
  <1>2. CASE UNCHANGED installVars
    <2>1. UNCHANGED <<windows, published, dirs, partials, link, record, models, upStep, target,
                      goingBack, upBefore, toCopy, commands, mishaps, condemned>>
      BY <1>2 DEF installVars
    <2>2. \A v : (Good(v)' <=> Good(v)) /\ (Known(v)' <=> Known(v))
      BY <2>1 DEF Good, Known, Starts, ReleaseOf, OutNow
    <2>3. InstallTypes' /\ NoTrouble'
      BY <2>1 DEF InstallInv, InstallTypes, NoTrouble, KeptDirs
    <2>4. LinkFits' /\ TargetFits'
      BY <2>1, <2>2 DEF InstallInv, LinkFits, TargetFits
    <2>5. RecordFits'
      BY <2>1, <2>2 DEF InstallInv, RecordFits
    <2> QED BY <2>3, <2>4, <2>5 DEF InstallInv
  <1> QED BY <1>1, <1>2

(* Every reachable state of update and rollback satisfies the inductive      *)
(* invariant.                                                                *)
THEOREM InstallInvariant == InstallSpec => []InstallInv
  BY InstallStarts, InstallStep, PTL DEF InstallSpec

(* What runs is installed, started once and is what is recorded, a way back  *)
(* stays, and without failures nothing is left over (install.rs, layout.rs). *)
THEOREM UpdatesAreRight == InstallSpec => []InstallRight
  <1>1. ASSUME InstallInv PROVE InstallRight
    <2>1. CurrentRuns
      BY <1>1 DEF InstallInv, LinkFits, CurrentRuns, Good
    <2>2. WayBack
      BY <1>1 DEF InstallInv, RecordFits, WayBack
    <2>3. Tidy
      BY <1>1 DEF InstallInv, NoTrouble, KeptDirs, Tidy
    <2> QED BY <2>1, <2>2, <2>3 DEF InstallRight
  <1> QED BY <1>1, InstallInvariant, PTL

-----------------------------------------------------------------------------
(* The update notice.                                                        *)

CacheEntry == [latest : Nat, notified : Nat, fresh : BOOLEAN]

NoticeTypes ==
    /\ release \in Nat \ {0} /\ cache \in CacheEntry
    /\ noticing \in [Terminals -> CacheEntry] /\ checking \in [Checkers -> CacheEntry]
    /\ fetched \in [Checkers -> Nat]
    /\ told \in [1 .. LastRelease -> Nat]
    /\ overtaken \in BOOLEAN

\* While no two had the cache in hand: what a command read is what is there
\* still, what a check is to write is what it would read now, and the cache
\* never falls behind what was announced.
InHand(c) ==
    noticing[c] # Nothing =>
        /\ noticing[c].latest = cache.latest /\ noticing[c].notified = cache.notified
        /\ cache # Nothing /\ cache.notified # cache.latest
ToWrite(k) ==
    /\ Pending(k) => cache.latest <= fetched[k] /\ fetched[k] <= release
    /\ checking[k] # Nothing =>
          /\ Pending(k) /\ checking[k].latest = fetched[k]
          /\ checking[k].notified = Carried(fetched[k])
Marked(v) ==
    told[v] = 0 \/ (told[v] = 1 /\ (v < cache.latest \/ (v = cache.latest /\ cache.notified = v)))

Orderly ==
    /\ cache.latest <= release /\ (cache.latest = 0 => cache = Nothing)
    /\ \A c \in Terminals : InHand(c)
    /\ \A k \in Checkers : ToWrite(k)
    /\ \A v \in 1 .. LastRelease : Marked(v)

NoticeInv == NoticeTypes /\ (~overtaken => Orderly)

(* Nothing is announced at the start.                                        *)
LEMMA NoticeStarts == NoticeInit => NoticeInv
  <1> SUFFICES ASSUME NoticeInit PROVE NoticeInv
    OBVIOUS
  <1>1. NoticeTypes
    <2>1. Nothing \in CacheEntry
      BY DEF Nothing, CacheEntry
    <2>2. told \in [1 .. LastRelease -> Nat]
      BY DEF NoticeInit
    <2>3. /\ noticing \in [Terminals -> CacheEntry] /\ checking \in [Checkers -> CacheEntry]
          /\ cache \in CacheEntry
      BY <2>1 DEF NoticeInit
    <2>4. overtaken \in BOOLEAN
      BY DEF NoticeInit
    <2>5. release = 1 /\ fetched = [k \in Checkers |-> 0]
      BY DEF NoticeInit
    <2> QED BY <2>2, <2>3, <2>4, <2>5 DEF NoticeTypes
  <1>2. cache = Nothing /\ cache.latest = 0 /\ release = 1
    BY DEF NoticeInit, Nothing
  <1>3. \A c \in Terminals : InHand(c)
    BY DEF NoticeInit, InHand
  <1>4. \A k \in Checkers : ToWrite(k)
    BY DEF NoticeInit, ToWrite, Pending
  <1>5. \A v \in 1 .. LastRelease : Marked(v)
    BY DEF NoticeInit, Marked
  <1> QED BY <1>1, <1>2, <1>3, <1>4, <1>5 DEF NoticeInv, Orderly

(* Every step keeps the types.                                               *)
LEMMA NoticeTyped == ASSUME NoticeTypes, NoticeNext PROVE NoticeTypes'
  <1> USE DEF NoticeTypes, CacheEntry
  <1>1. CASE NewRelease \/ Install \/ Tick
    <2>1. release' \in Nat \ {0}
      BY <1>1 DEF NewRelease, Install, Tick
    <2>2. cache' \in CacheEntry
      BY <1>1 DEF NewRelease, Install, Tick
    <2> QED BY <1>1, <2>1, <2>2 DEF NewRelease, Install, Tick
  <1>2. ASSUME NEW c \in Terminals, ReadNotice(c) PROVE NoticeTypes'
    BY <1>2 DEF ReadNotice
  <1>3. ASSUME NEW c \in Terminals, TakeNotice(c) PROVE NoticeTypes'
    <2> DEFINE v == noticing[c].latest
    <2>1. v \in Nat /\ [noticing[c] EXCEPT !.notified = v] \in CacheEntry /\ Nothing \in CacheEntry
      BY DEF Nothing
    <2>2. told' \in [1 .. LastRelease -> Nat]
      <3> DEFINE n == IF told[v] < 2 THEN told[v] + 1 ELSE told[v]
      <3>1. told' = [told EXCEPT ![v] = n]
        BY <1>3 DEF TakeNotice
      <3>2. CASE v \in 1 .. LastRelease
        <4>1. n \in Nat
          BY <3>2
        <4> QED BY <3>1, <4>1
      <3>3. CASE v \notin 1 .. LastRelease
        BY <3>1, <3>3
      <3> QED BY <3>2, <3>3
    <2>3. overtaken' \in BOOLEAN
      BY <1>3 DEF TakeNotice, Write
    <2> QED BY <1>3, <2>1, <2>2, <2>3 DEF TakeNotice, Write
  <1>4. ASSUME NEW k \in Checkers, Fetch(k) PROVE NoticeTypes'
    BY <1>4 DEF Fetch
  <1>5. ASSUME NEW k \in Checkers, ReadMark(k) PROVE NoticeTypes'
    <2>1. [latest |-> fetched[k], notified |-> Carried(fetched[k]), fresh |-> TRUE] \in CacheEntry
      BY DEF Carried
    <2> QED BY <1>5, <2>1 DEF ReadMark
  <1>6. ASSUME NEW k \in Checkers, CheckNow(k) \/ FailCheck(k) PROVE NoticeTypes'
    <2>1. Nothing \in CacheEntry
      BY DEF Nothing
    <2>2. overtaken' \in BOOLEAN
      BY <1>6 DEF CheckNow, FailCheck, Write
    <2>3. cache' \in CacheEntry /\ checking' \in [Checkers -> CacheEntry] /\ fetched' \in [Checkers -> Nat]
      <3>1. CASE CheckNow(k)
        BY <2>1, <3>1 DEF CheckNow, Write
      <3>2. CASE FailCheck(k)
        BY <2>1, <3>2 DEF FailCheck
      <3> QED BY <1>6, <3>1, <3>2
    <2> QED BY <1>6, <2>2, <2>3 DEF CheckNow, FailCheck
  <1> QED BY <1>1, <1>2, <1>3, <1>4, <1>5, <1>6 DEF NoticeNext

(* As long as no write of the cache was overtaken, every step keeps what was *)
(* told in the cache.                                                        *)
LEMMA NoticeStaysOrderly ==
    ASSUME NoticeTypes, NoticeTypes', NoticeNext, ~overtaken', ~overtaken => Orderly
    PROVE  Orderly'
  <1>1. ~overtaken
    BY DEF NoticeTypes, NoticeNext, NewRelease, Install, Tick, ReadNotice, TakeNotice, Write, Fetch, ReadMark,
           CheckNow, FailCheck
  <1>2. Orderly
    BY <1>1
  <1>3. CASE NewRelease
    <2>1. release' = release + 1 /\ UNCHANGED <<cache, noticing, checking, fetched, told>>
      BY <1>3 DEF NewRelease
    <2>2. release \in Nat /\ cache.latest \in Nat /\ \A k \in Checkers : fetched[k] \in Nat
      BY DEF NoticeTypes, CacheEntry
    <2>3. cache'.latest <= release'
      BY <1>2, <2>1, <2>2 DEF Orderly
    <2>4. \A k \in Checkers : ToWrite(k)'
      BY <1>2, <2>1, <2>2 DEF Orderly, ToWrite, Pending, Carried
    <2> QED BY <1>2, <2>1, <2>3, <2>4 DEF Orderly, InHand, Marked
  <1>4. CASE Install
    BY <1>2, <1>4 DEF Install, Orderly, InHand, ToWrite, Marked, Pending, Carried
  <1>5. CASE Tick
    <2>1. /\ cache'.latest = cache.latest /\ cache'.notified = cache.notified /\ cache # Nothing
          /\ UNCHANGED <<release, running, noticing, checking, fetched, told, overtaken>>
      BY <1>5 DEF Tick, NoticeTypes, CacheEntry
    <2>2. cache.latest # 0
      BY <1>2, <2>1 DEF Orderly
    <2>3. cache' # Nothing
      BY <2>1, <2>2 DEF Nothing
    <2>4. \A v : Carried(v)' = Carried(v)
      BY <2>1, <2>3 DEF Carried
    <2> QED BY <1>2, <2>1, <2>2, <2>3, <2>4 DEF Orderly, InHand, ToWrite, Marked, Pending
  <1>6. ASSUME NEW c \in Terminals, ReadNotice(c) PROVE Orderly'
    <2>1. \A d \in Terminals : noticing'[d] = noticing[d] \/ (d = c /\ noticing'[d] = cache)
      BY <1>6 DEF ReadNotice, NoticeTypes
    <2>2. cache # Nothing /\ cache.notified # cache.latest /\ UNCHANGED <<release, cache, checking, fetched, told>>
      BY <1>6 DEF ReadNotice, ToAnnounce
    <2>3. \A d \in Terminals : InHand(d)'
      BY <1>2, <2>1, <2>2 DEF Orderly, InHand
    <2> QED BY <1>2, <2>2, <2>3 DEF Orderly, ToWrite, Marked, Pending, Carried
  <1>7. ASSUME NEW c \in Terminals, TakeNotice(c) PROVE Orderly'
    <2> DEFINE v == noticing[c].latest
    <2>1. /\ noticing[c] # Nothing /\ ~Crowded
          /\ told' = [told EXCEPT ![v] = IF @ < 2 THEN @ + 1 ELSE @]
          /\ cache' = [noticing[c] EXCEPT !.notified = v]
          /\ noticing' = [noticing EXCEPT ![c] = Nothing]
          /\ UNCHANGED <<release, running, checking, fetched>>
      BY <1>7 DEF TakeNotice, Write
    <2>2. /\ \A d \in Terminals : noticing'[d] = Nothing
          /\ \A k \in Checkers : ~Pending(k)
      BY <2>1 DEF Crowded, NoticeTypes
    <2>3. v = cache.latest /\ cache.notified # v /\ cache # Nothing /\ v \in Nat /\ v # 0
      BY <1>2, <2>1 DEF Orderly, InHand, NoticeTypes, CacheEntry
    <2>4. cache'.latest = v /\ cache'.notified = v
      BY <2>1 DEF NoticeTypes, CacheEntry
    <2>5. ASSUME NEW u \in 1 .. LastRelease PROVE Marked(u)'
      <3>1. Marked(u) /\ told[u] \in Nat
        BY <1>2 DEF Orderly, NoticeTypes
      <3>2. CASE u = v
        <4>1. told[u] = 0
          BY <2>3, <3>1, <3>2 DEF Marked, NoticeTypes, CacheEntry
        <4>2. told'[u] = 1
          BY <2>1, <3>2, <4>1 DEF NoticeTypes
        <4> QED BY <2>4, <3>2, <4>2 DEF Marked
      <3>3. CASE u # v
        <4>1. told'[u] = told[u]
          BY <2>1, <3>3 DEF NoticeTypes
        <4> QED BY <2>3, <2>4, <3>1, <3>3, <4>1 DEF Marked
      <3> QED BY <3>2, <3>3
    <2>6. \A k \in Checkers : ToWrite(k)'
      BY <1>2, <2>1, <2>2 DEF Orderly, ToWrite, Pending
    <2>7. \A d \in Terminals : InHand(d)'
      BY <2>2 DEF InHand
    <2> QED BY <1>2, <2>1, <2>3, <2>4, <2>5, <2>6, <2>7 DEF Orderly
  <1>8. ASSUME NEW k \in Checkers, Fetch(k) PROVE Orderly'
    <2>1. /\ ~Pending(k) /\ fetched'[k] = release /\ \A l \in Checkers \ {k} : fetched'[l] = fetched[l]
          /\ UNCHANGED <<release, cache, noticing, checking, told>>
      BY <1>8 DEF Fetch, NoticeTypes
    <2>2. checking[k] = Nothing /\ cache.latest <= release
      BY <1>2, <2>1 DEF Orderly, ToWrite
    <2>3. \A l \in Checkers : ToWrite(l)'
      BY <1>2, <2>1, <2>2 DEF Orderly, ToWrite, Pending, Carried, NoticeTypes
    <2> QED BY <1>2, <2>1, <2>3 DEF Orderly, InHand, Marked
  <1>9. ASSUME NEW k \in Checkers, ReadMark(k) PROVE Orderly'
    <2>1. /\ Pending(k) /\ UNCHANGED <<release, cache, noticing, fetched, told>>
          /\ checking'[k] = [latest |-> fetched[k], notified |-> Carried(fetched[k]), fresh |-> TRUE]
          /\ \A l \in Checkers \ {k} : checking'[l] = checking[l]
      BY <1>9 DEF ReadMark, NoticeTypes
    <2>2. \A l \in Checkers : ToWrite(l)'
      BY <1>2, <2>1 DEF Orderly, ToWrite, Pending, Carried
    <2> QED BY <1>2, <2>1, <2>2 DEF Orderly, InHand, Marked
  <1>10. ASSUME NEW k \in Checkers, CheckNow(k) PROVE Orderly'
    <2>1. /\ checking[k] # Nothing /\ ~Crowded /\ cache' = checking[k]
          /\ checking' = [checking EXCEPT ![k] = Nothing] /\ fetched' = [fetched EXCEPT ![k] = 0]
          /\ UNCHANGED <<release, noticing, told>>
      BY <1>10 DEF CheckNow, Write
    <2>2. /\ Pending(k) /\ cache'.latest = fetched[k] /\ cache'.notified = Carried(fetched[k])
          /\ cache.latest <= fetched[k] /\ fetched[k] <= release /\ fetched[k] # 0
      BY <1>2, <2>1 DEF Orderly, ToWrite, Pending
    <2>3. /\ \A c \in Terminals : noticing[c] = Nothing
          /\ \A l \in Checkers \ {k} : ~Pending(l)
      BY <2>1, <2>2 DEF Crowded
    <2>4. \A l \in Checkers : ~Pending(l)' /\ checking'[l] = Nothing
      BY <1>2, <2>1, <2>3 DEF Orderly, ToWrite, Pending, NoticeTypes
    <2>5. ASSUME NEW u \in 1 .. LastRelease PROVE Marked(u)'
      <3>1. Marked(u) /\ told'[u] = told[u]
        BY <1>2, <2>1 DEF Orderly
      <3>2. cache.latest \in Nat /\ fetched[k] \in Nat
        BY DEF NoticeTypes, CacheEntry
      <3>3. CASE told[u] = 1 /\ u = cache.latest /\ u = fetched[k]
        <4>1. cache # Nothing
          <5>1. u # 0
            BY NoticeAssumption
          <5>2. Nothing.latest = 0
            BY DEF Nothing
          <5> QED BY <3>3, <5>1, <5>2
        <4>2. cache'.notified = u
          BY <2>2, <3>1, <3>2, <3>3, <4>1 DEF Carried, Marked
        <4> QED BY <2>2, <3>1, <3>3, <4>2 DEF Marked
      <3> QED BY <2>2, <3>1, <3>2, <3>3 DEF Marked
    <2>6. \A c \in Terminals : InHand(c)'
      BY <2>1, <2>3 DEF InHand
    <2>7. \A l \in Checkers : ToWrite(l)'
      BY <2>4 DEF ToWrite
    <2> QED BY <2>1, <2>2, <2>5, <2>6, <2>7 DEF Orderly
  <1>11. ASSUME NEW k \in Checkers, FailCheck(k) PROVE Orderly'
    <2>1. /\ checking'[k] = Nothing /\ fetched'[k] = 0
          /\ \A l \in Checkers \ {k} : checking'[l] = checking[l] /\ fetched'[l] = fetched[l]
          /\ UNCHANGED <<release, cache, noticing, told>>
      BY <1>11 DEF FailCheck, NoticeTypes
    <2>2. \A l \in Checkers : ToWrite(l)'
      BY <1>2, <2>1 DEF Orderly, ToWrite, Pending, Carried
    <2> QED BY <1>2, <2>1, <2>2 DEF Orderly, InHand, Marked
  <1> QED BY <1>3, <1>4, <1>5, <1>6, <1>7, <1>8, <1>9, <1>10, <1>11 DEF NoticeNext

(* Every step keeps the inductive invariant.                                 *)
LEMMA NoticeStep == ASSUME NoticeInv, [NoticeNext]_tellVars PROVE NoticeInv'
  <1>1. CASE NoticeNext
    BY <1>1, NoticeTyped, NoticeStaysOrderly DEF NoticeInv
  <1>2. CASE UNCHANGED tellVars
    BY <1>2 DEF tellVars, NoticeInv, NoticeTypes, CacheEntry, Orderly, InHand, ToWrite, Marked, Pending, Carried
  <1> QED BY <1>1, <1>2

(* Every reachable state of the notices satisfies the inductive invariant.   *)
THEOREM NoticeInvariant == NoticeSpec => []NoticeInv
  BY NoticeStarts, NoticeStep, PTL DEF NoticeSpec

(* A release is announced once, when no write of the cache was overtaken by  *)
(* another (check.rs:18-80).                                                 *)
THEOREM AnnouncedOnce == NoticeSpec => []ToldOnce
  <1>1. NoticeInv => ToldOnce
    BY DEF NoticeInv, NoticeTypes, Orderly, Marked, ToldOnce
  <1> QED BY <1>1, NoticeInvariant, PTL
=============================================================================
