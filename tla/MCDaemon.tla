---------------------------- MODULE MCDaemon ----------------------------
(***************************************************************************)
(* Model values for Daemon, and two scenarios: two sources in a quiet world, *)
(* or one source amid faults, whose run lock another process takes, which   *)
(* is disabled and enabled, and whose catalog fails.                        *)
(***************************************************************************)
EXTENDS Daemon, TLC

CONSTANTS srcA, srcB, x, w1, w2

WorkerSymmetry == Permutations({w1, w2})

ScenarioInit == DaemonInit /\ (~faulty => \A s \in Sources : dirty[s] = {})

\* Of the two sources only srcA has small passes asked for.
OneWatched == x \notin owed'[srcB]

\* Amid faults, nothing triggers srcB.  In the quiet world nothing becomes dirty:
\* what a pass finds to index changes no step of the daemon.
ScenarioNext ==
    /\ WorldNext
    /\ IF faulty THEN pending'[srcB] = "none" /\ dirty'[srcB] = {} /\ srcB \in enabled'
       ELSE OneWatched /\ \A s \in Sources : holder'[s] # Outsider /\ dirty'[s] = {}

\* What of srcB is not indexed at first must be, whatever srcA's watcher
\* reports; the bounds withhold no step that fairness promises.
FairNext == WorldNext /\ OneWatched /\ dirty'[srcB] \subseteq dirty[srcB]

FairScenario == QuietInit /\ [][FairNext]_worldVars /\ DaemonFairness
=============================================================================
