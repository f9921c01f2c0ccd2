---------------------------- MODULE MonitorStatus ----------------------------
(***************************************************************************)
(* The monitor status of an asset: probes read the asset's row, take their *)
(* time, and write the five-state machine's next state of what they read   *)
(* (runProbeFor, probeAsset and recordProbeResult of monitoringService).   *)
(* Two probes of an asset may overlap: the one of the monitor pass or the  *)
(* queue, of which there is one per asset, and one from a request (Refresh *)
(* or an agent's sample), which reads the row after the probe.             *)
(*                                                                         *)
(* DependencyTree composes these actions with what a transition starts.    *)
(* How a device is probed is left out: a probe succeeds or fails.          *)
(***************************************************************************)
EXTENDS Naturals

CONSTANTS
  Assets,
  Agents,      \* assets whose response time the agent on the host reports
  Thresholds,  \* possible failureThreshold settings
  MaxResults   \* bound on the results recorded

ASSUME MonitorAssumption ==
  Agents \subseteq Assets /\ Thresholds \subseteq Nat \ {0} /\ MaxResults \in Nat

VARIABLES
  row,        \* the monitor columns of the asset's row
  probe,      \* the row a probe in flight has read, per asset and kind
  threshold,
  results,    \* results recorded so far
  streak,     \* history: the last equal results recorded of an asset
  overtaken   \* history: a result of the asset was written over a newer row

mVars == <<row, probe, threshold, results, streak, overtaken>>

Statuses == {"unknown", "up", "warning", "recovering", "down"}
Kinds == {"pass", "request"}
Counts == 0..MaxResults
Row == [monitored: BOOLEAN, status: Statuses, cf: Counts, cs: Counts]
NoProbe == [monitored |-> FALSE, status |-> "unknown", cf |-> 0, cs |-> 0, busy |-> FALSE]

MTypeOK ==
  /\ row \in [Assets -> Row]
  /\ probe \in [Assets -> [Kinds -> {NoProbe} \cup
        [monitored: BOOLEAN, status: Statuses, cf: Counts, cs: Counts, busy: {TRUE}]]]
  /\ threshold \in Thresholds /\ results \in Counts
  /\ streak \in [Assets -> [ok: BOOLEAN, n: Counts]] /\ overtaken \in [Assets -> BOOLEAN]

MInit ==
  /\ row = [a \in Assets |-> [monitored |-> TRUE, status |-> "unknown", cf |-> 0, cs |-> 0]]
  /\ probe = [a \in Assets |-> [k \in Kinds |-> NoProbe]]
  /\ threshold \in Thresholds
  /\ results = 0
  /\ streak = [a \in Assets |-> [ok |-> TRUE, n |-> 0]]
  /\ overtaken = [a \in Assets |-> FALSE]

\* The columns recordProbeResult decides on.
Seen(r) == [status |-> r.status, cf |-> r.cf, cs |-> r.cs]

-----------------------------------------------------------------------------
\* A probe reads the asset's row.  The pass and the queue probe monitored
\* assets, and one at a time.
ProbeRead(a, k) ==
  /\ ~probe[a][k].busy
  /\ k = "pass" => row[a].monitored
  /\ results < MaxResults
  /\ probe' = [probe EXCEPT ![a][k] =
                 [monitored |-> row[a].monitored, status |-> row[a].status,
                  cf |-> row[a].cf, cs |-> row[a].cs, busy |-> TRUE]]
  /\ UNCHANGED <<row, threshold, results, streak, overtaken>>

\* The counters after a result.  The mutant forgets to reset the failures.
Mut_Failures(r, ok) == IF ok THEN r.cf ELSE r.cf + 1
Failures(r, ok) == IF ok THEN 0 ELSE r.cf + 1
Successes(r, ok) == IF ok THEN r.cs + 1 ELSE 0

nextStatus(r, ok) ==
  CASE ok /\ (r.status = "up" \/ Successes(r, ok) >= threshold) -> "up"
    [] ok /\ ~(r.status = "up" \/ Successes(r, ok) >= threshold) ->
         IF r.status \in {"warning", "recovering"} THEN r.status ELSE "recovering"
    [] ~ok /\ Failures(r, ok) >= threshold -> "down"
    [] OTHER -> IF r.status \in {"up", "unknown"} THEN "warning" ELSE r.status

\* Does the result of the probe raise monitor.status_changed?
Transition(a, k, ok) ==
  LET next == nextStatus(probe[a][k], ok)
  IN next # probe[a][k].status /\ next \in {"up", "down"}

\* An agent's asset ignores the result of the pass.
Ignored(a, k) == a \in Agents /\ k = "pass"

recordProbeResult(a, k, ok) ==
  LET r == probe[a][k] IN
  /\ r.busy /\ ~Ignored(a, k)
  /\ results < MaxResults
  /\ ~r.monitored => ~ok      \* "Monitoring disabled" is a failure
  /\ row' = [row EXCEPT ![a] = [monitored |-> row[a].monitored, status |-> nextStatus(r, ok),
                                cf |-> Failures(r, ok), cs |-> Successes(r, ok)]]
  /\ streak' = [streak EXCEPT ![a] =
                  [ok |-> ok, n |-> IF @.ok = ok THEN @.n + 1 ELSE 1]]
  /\ overtaken' = [overtaken EXCEPT ![a] = @ \/ Seen(row[a]) # Seen(r)]
  /\ results' = results + 1
  /\ probe' = [probe EXCEPT ![a][k] = NoProbe]
  /\ UNCHANGED threshold

\* The probe crashed, or its result is ignored: nothing is written.
ProbeLost(a, k) ==
  /\ probe[a][k].busy
  /\ probe' = [probe EXCEPT ![a][k] = NoProbe]
  /\ UNCHANGED <<row, threshold, results, streak, overtaken>>

\* The operator turns the monitoring of an asset on or off
\* (clampMonitoredState).
SetMonitored(a, on) ==
  /\ row' = [row EXCEPT ![a] =
       IF on THEN [monitored |-> TRUE, status |-> "recovering", cf |-> 0, cs |-> 0]
             ELSE [@ EXCEPT !.monitored = FALSE, !.cf = 0]]
  /\ streak' = IF on THEN [streak EXCEPT ![a].n = 0] ELSE streak
  /\ UNCHANGED <<probe, threshold, results, overtaken>>

-----------------------------------------------------------------------------
\* "Same number of confirmations either direction": so long as no result was
\* written over a row newer than the one its probe had read, an asset goes
\* down only with the threshold-th failure in a row and up only with the
\* threshold-th success in a row, counted from when monitoring was turned on.
Confirmed ==
  [][\A a \in Assets :
       LET status == row'[a].status
       IN (status # row[a].status /\ status \in {"up", "down"} /\ ~overtaken'[a]) =>
            streak'[a].n >= threshold /\ streak'[a].ok = (status = "up")]_mVars

-----------------------------------------------------------------------------
(* The inductive invariant behind Confirmed.                               *)

\* No counter has counted more than the results there were.
Bounded ==
  \A a \in Assets :
    /\ row[a].cf <= results /\ row[a].cs <= results /\ streak[a].n <= results
    /\ \A k \in Kinds : probe[a][k].cf <= results /\ probe[a][k].cs <= results

\* The counters of a row no stale result was written over count the last equal
\* results: failures if those were failures, successes if they were successes.
Tallied ==
  \A a \in Assets : ~overtaken[a] =>
    /\ row[a].cf > 0 => ~streak[a].ok /\ row[a].cf <= streak[a].n
    /\ row[a].cs > 0 => streak[a].ok /\ row[a].cs <= streak[a].n

MIInv == MTypeOK /\ Bounded /\ Tallied

=============================================================================
