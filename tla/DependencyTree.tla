--------------------------- MODULE DependencyTree ---------------------------
(***************************************************************************)
(* Dependency-aware monitoring (dependencyTreeService): the tree of parent *)
(* rows, computed from discovery's signals at the end of a discovery and   *)
(* overridden by the operator, and the flag dependencySuppressed, which    *)
(* the 60 s reconciler and the hook of every confirmed up or down set from *)
(* the tree and the monitor status (MonitorStatus, composed here).         *)
(*                                                                         *)
(* The inventory is fixed; ids and hostnames have the order of the asset's *)
(* number.  Which signal found an edge is kept so far as the layering asks *)
(* for it (cable or controller); events are left out.                      *)
(***************************************************************************)
EXTENDS MonitorStatus, Sequences, FiniteSetsExt, SequencesExt

CONSTANTS
  Firewalls,     \* the other assets are switches and access points
  Integrations,
  DiscoveredBy,  \* the integration of an asset
  Wirings,       \* possible signals: cables, {a, b}, and controllers, <<child, parent>>
  Overrides,     \* override requests: <<asset, parents>>
  Hooks,         \* slots for reconciles started by a hook or a request
  Mixes          \* what may happen in a behaviour: the operations and how many
                 \* disturbances, the assets concerned, how many results, the
                 \* thresholds and first wirings

ASSUME TreeAssumption ==
  /\ IsFiniteSet(Assets) /\ Assets = 1..Cardinality(Assets)
  /\ Firewalls \subseteq Assets /\ DiscoveredBy \in [Assets -> Integrations]
  /\ Overrides \subseteq Assets \X SUBSET Assets
  /\ "tick" \notin Hooks

VARIABLES
  wiring,      \* the signals discovery would see
  tree,        \* what recompute makes of them: the layers
  computed,    \* the rows with source "computed": the parents of an asset
  override,    \* those with source "override"
  layer,       \* dependencyLayer, 0 for null
  suppressed,  \* dependencySuppressed
  test,        \* dependencyTestUntil
  rec,         \* the reconciles in flight
  disc,        \* the recomputes in flight, one per integration
  put,         \* the override request in flight
  mix,
  budget       \* disturbances left

tVars == <<wiring, tree, computed, override, layer, suppressed, test, rec, disc, put, mix, budget>>
vars == <<mVars, tVars>>

Parents == [Assets -> SUBSET Assets]
Layers == [Assets -> 0..Cardinality(Assets)]
Recs == {"tick"} \cup Hooks

Idle == [pc |-> "idle"]
Scanned(expired) == [pc |-> "read", expired |-> expired]
Reading(states) == [pc |-> "eval", states |-> states]
Writing(on, off) == [pc |-> "write", on |-> on, off |-> off]
NoPut == <<>>

TypeOK ==
  /\ MTypeOK
  /\ wiring \in Wirings /\ computed \in Parents /\ override \in Parents /\ layer \in Layers
  /\ tree \in Layers
  /\ suppressed \in [Assets -> BOOLEAN]
  /\ test \in [Assets -> {"none", "active", "lapsed"}]
  /\ \A s \in Recs : rec[s].pc \in {"idle", "read", "eval", "write"}
  /\ \A i \in Integrations : disc[i].pc \in {"idle", "write"}
  /\ put \in {NoPut} \cup Overrides
  /\ budget \in Nat

-----------------------------------------------------------------------------
(* The tree that discovery's signals give.                                 *)

Cabled(w, a, b) == {a, b} \in w.cables
Controls(w, child, parent) == <<child, parent>> \in w.controllers
Signal(w, child, parent) == Cabled(w, child, parent) \/ Controls(w, child, parent)

\* physicalBfs: spread the layers from the seeds, all of one layer, over the
\* cables to assets without one.
physicalBfs(w, lay, seed) ==
  LET base == lay[Min(seed)]
      grown[k \in 0..Cardinality(Assets)] ==
        IF k = 0 THEN lay
        ELSE LET prev == grown[k - 1]
                 ring == {b \in Assets : prev[b] = base + k - 1 /\ (b \in seed \/ lay[b] = 0)}
             IN [a \in Assets |-> IF prev[a] = 0 /\ \E b \in ring : Cabled(w, a, b)
                                   THEN base + k ELSE prev[a]]
  IN IF seed = {} THEN lay ELSE grown[Cardinality(Assets)]

\* The controllers to which an asset may be attached, and the best.
Attachable(w, lay, a) ==
  {p \in Assets : lay[p] # 0 /\ (Controls(w, a, p) \/ Controls(w, p, a))}
Bucket(w, lay, p) ==
  {a \in Assets : /\ lay[a] = 0 /\ p \in Attachable(w, lay, a)
                  /\ \A q \in Attachable(w, lay, a) :
                       lay[p] < lay[q] \/ (lay[p] = lay[q] /\ p <= q)}

\* A daisy chain, three or more in a line, hangs on its first end; the others
\* are siblings.  The mutant attaches nothing.
ChainEnds(w, S) ==
  LET next(a) == {b \in S : Cabled(w, a, b)}
      ends == {a \in S : Cardinality(next(a)) = 1}
      degrees == MapThenSumSet(LAMBDA a : Cardinality(next(a)), S)
  IN IF /\ Cardinality(S) >= 3 /\ degrees = 2 * (Cardinality(S) - 1)
        /\ Cardinality(ends) = 2 /\ \A a \in S : Cardinality(next(a)) <= 2
     THEN ends ELSE {}

Mut_Attach(w, lay, p, S) == lay
Attach(w, lay, p, S) ==
  LET heads == IF ChainEnds(w, S) = {} THEN S ELSE {Min(ChainEnds(w, S))}
      headed == [a \in Assets |-> IF a \in heads THEN lay[p] + 1 ELSE lay[a]]
  IN physicalBfs(w, headed, heads)

\* assignLayers: firewalls are layer 1, then the cables, then the controllers
\* of those the cables do not reach, as long as some are attached.
assignLayers(w) ==
  LET cabled == physicalBfs(w, [a \in Assets |-> IF a \in Firewalls THEN 1 ELSE 0], Firewalls)
      round(lay) ==
        LET after[p \in 0..Cardinality(Assets)] ==
              IF p = 0 THEN lay
              ELSE LET prev == after[p - 1]
                       members == Bucket(w, lay, p)
                   IN IF members = {} THEN prev ELSE Attach(w, prev, p, members)
        IN after[Cardinality(Assets)]
      rounds[n \in 0..Cardinality(Assets)] == IF n = 0 THEN cabled ELSE round(rounds[n - 1])
  IN rounds[Cardinality(Assets)]

KeptParents(w, lay, a) ==
  {p \in Assets : Signal(w, a, p) /\ lay[p] # 0 /\ lay[a] = lay[p] + 1}

-----------------------------------------------------------------------------
(* The effective tree and what it suppresses.                              *)

\* loadEffectiveParents: any override row hides the computed ones.
Effective(a) == IF override[a] # {} THEN override[a] ELSE computed[a]

Orders == SetToSeqs(Assets)

\* Orders evaluateSuppression may walk the assets in: by layer, null last;
\* the query gives no order within a layer.
LayerOrders(lay) ==
  {q \in Orders : \A i, j \in DOMAIN q : i < j =>
                    lay[q[j]] = 0 \/ (lay[q[i]] # 0 /\ lay[q[i]] <= lay[q[j]])}

\* An asset through which the walk goes on to its parents.
Transparent(states, a) == ~states[a].monitored /\ states[a].test # "active"

\* The least set that holds S and what f gives for its members.
Closure(S, f(_)) ==
  {a \in Assets : \A T \in SUBSET Assets :
                    (S \subseteq T /\ \A t \in T : f(t) \subseteq T) => a \in T}

\* The assets an asset's parents stand for, walking up through the transparent.
WalkUp(states, par, a) ==
  IF \A p \in par[a] : ~Transparent(states, p) THEN par[a]
  ELSE Closure(par[a], LAMBDA p : IF Transparent(states, p) THEN par[p] ELSE {})

isParentOk(states, par, sup, p) ==
  IF Transparent(states, p) THEN par[p] = {}
  ELSE states[p].test # "active" /\ states[p].status # "down" /\ p \notin sup

\* One pass in the order q: of the others an asset sees what the pass has
\* suppressed before it.  The result is the set of suppressed assets.
evaluateSuppression(states, par, q) ==
  LET held(a, sup) == /\ par[a] # {}
                      /\ \A p \in WalkUp(states, par, a) : ~isParentOk(states, par, sup, p)
  IN CHOOSE S \in SUBSET Assets :
       \A n \in DOMAIN q : q[n] \in S <=> held(q[n], S \cap {q[i] : i \in 1..(n - 1)})

-----------------------------------------------------------------------------
Init ==
  /\ MInit
  /\ mix \in Mixes
  /\ threshold \in mix.thresholds /\ wiring \in mix.wirings
  /\ tree = assignLayers(wiring) /\ layer = tree
  /\ computed = [a \in Assets |-> KeptParents(wiring, layer, a)]
  /\ override = [a \in Assets |-> {}]
  /\ suppressed = [a \in Assets |-> FALSE]
  /\ test = [a \in Assets |-> "none"]
  /\ rec = [s \in Recs |-> Idle]
  /\ disc = [i \in Integrations |-> Idle]
  /\ put = NoPut
  /\ budget = mix.budget

Disturb(op) == op \in mix.ops /\ budget > 0 /\ budget' = budget - 1

-----------------------------------------------------------------------------
(* reconcileDependencySuppression.  The tick skips when it is running; a   *)
(* hook starts one more.                                                   *)

FreeHook == {s \in Hooks : rec[s] = Idle}

\* Starts with the read of the tests that have run out.
Expired == {a \in Assets : test[a] = "lapsed"}
Hook == /\ FreeHook # {}
        /\ rec' = [rec EXCEPT ![CHOOSE s \in FreeHook : TRUE] = Scanned(Expired)]

Tick ==
  /\ rec["tick"] = Idle
  /\ rec' = [rec EXCEPT !["tick"] = Scanned(Expired)]
  /\ UNCHANGED <<mVars, wiring, tree, computed, override, layer, suppressed, test, disc, put, budget>>

\* Clears the tests that had run out, by id, and reads the assets.
RecRead(s) ==
  LET cleared == [a \in Assets |-> IF a \in rec[s].expired THEN "none" ELSE test[a]] IN
  /\ rec[s].pc = "read"
  /\ test' = cleared
  /\ rec' = [rec EXCEPT ![s] = Reading([a \in Assets |->
       [monitored |-> row[a].monitored, status |-> row[a].status, layer |-> layer[a],
        suppressed |-> suppressed[a], test |-> cleared[a]]])]
  /\ UNCHANGED <<mVars, wiring, tree, computed, override, layer, suppressed, disc, put, budget>>

\* Reads the parents and compares the result with the flags read before.
RecEval(s) ==
  LET states == rec[s].states IN
  /\ rec[s].pc = "eval"
  /\ \E q \in LayerOrders([a \in Assets |-> states[a].layer]) :
       LET held == evaluateSuppression(states, [a \in Assets |-> Effective(a)], q)
           on == {a \in held : ~states[a].suppressed}
           off == {a \in Assets \ held : states[a].suppressed}
       IN rec' = [rec EXCEPT ![s] = IF on \cup off = {} THEN Idle ELSE Writing(on, off)]
  /\ UNCHANGED <<mVars, wiring, tree, computed, override, layer, suppressed, test, disc, put, budget>>

\* The mutant never resumes an asset.
Mut_RecWrite(s) ==
  /\ rec[s].pc = "write"
  /\ suppressed' = [a \in Assets |-> a \in rec[s].on \/ suppressed[a]]
  /\ rec' = [rec EXCEPT ![s] = Idle]
  /\ UNCHANGED <<mVars, wiring, tree, computed, override, layer, test, disc, put, budget>>
RecWrite(s) ==
  /\ rec[s].pc = "write"
  /\ suppressed' = [a \in Assets |-> a \in rec[s].on \/ (suppressed[a] /\ a \notin rec[s].off)]
  /\ rec' = [rec EXCEPT ![s] = Idle]
  /\ UNCHANGED <<mVars, wiring, tree, computed, override, layer, test, disc, put, budget>>

\* The database fails or the process restarts: the reconcile is given up.
RecFail(s) ==
  /\ Disturb("fail") /\ rec[s] # Idle
  /\ rec' = [rec EXCEPT ![s] = Idle]
  /\ UNCHANGED <<mVars, wiring, tree, computed, override, layer, suppressed, test, disc, put>>

-----------------------------------------------------------------------------
(* Probes and their hook, and the dependency test.                         *)

Probe(a, k) ==
  /\ k \in mix.ops /\ a \in mix.subjects /\ results < mix.results
  /\ ProbeRead(a, k)
  /\ UNCHANGED <<wiring, tree, computed, override, layer, suppressed, test, rec, disc, put, budget>>

ProbeDone(a, k) ==
  /\ \/ \E ok \in BOOLEAN : /\ results < mix.results
                            /\ recordProbeResult(a, k, ok)
                            /\ IF Transition(a, k, ok) THEN Hook ELSE UNCHANGED rec
     \/ ProbeLost(a, k) /\ UNCHANGED rec
  /\ UNCHANGED <<wiring, tree, computed, override, layer, suppressed, test, disc, put, budget>>

Monitor(a, on) ==
  /\ Disturb("monitor") /\ a \in mix.subjects
  /\ SetMonitored(a, on)
  /\ UNCHANGED <<wiring, tree, computed, override, layer, suppressed, test, rec, disc, put>>

\* POST and DELETE dependency-test.
StartTest(a) ==
  /\ Disturb("test") /\ a \in mix.subjects
  /\ test' = [test EXCEPT ![a] = "active"]
  /\ Hook
  /\ UNCHANGED <<mVars, wiring, tree, computed, override, layer, suppressed, disc, put>>

ClearTest(a) ==
  /\ Disturb("test") /\ test[a] # "none"
  /\ test' = [test EXCEPT ![a] = "none"]
  /\ Hook
  /\ UNCHANGED <<mVars, wiring, tree, computed, override, layer, suppressed, disc, put>>

Lapse(a) ==
  /\ test[a] = "active"
  /\ test' = [test EXCEPT ![a] = "lapsed"]
  /\ UNCHANGED <<mVars, wiring, tree, computed, override, layer, suppressed, rec, disc, put, budget>>

-----------------------------------------------------------------------------
(* The tree: recomputeDependencyTree at the end of a discovery, and the    *)
(* operator's overrides.                                                   *)

Rewire(w) ==
  /\ Disturb("rewire") /\ w # wiring
  /\ wiring' = w /\ tree' = assignLayers(w)
  /\ UNCHANGED <<mVars, computed, override, layer, suppressed, test, rec, disc, put>>

\* The signals of the whole inventory are read, ..
RecomputeRead(i) ==
  /\ "rewire" \in mix.ops
  /\ disc[i] = Idle
  /\ disc' = [disc EXCEPT ![i] = [pc |-> "write", wiring |-> wiring, layers |-> tree]]
  /\ UNCHANGED <<mVars, wiring, tree, computed, override, layer, suppressed, test, rec, put, budget>>

\* .. and the rows and layers of the integration's own assets replaced.
RecomputeWrite(i) ==
  LET own == {a \in Assets : DiscoveredBy[a] = i}
      lay == disc[i].layers
  IN
  /\ disc[i].pc = "write"
  /\ computed' = [a \in Assets |-> IF a \in own THEN KeptParents(disc[i].wiring, lay, a)
                                   ELSE computed[a]]
  /\ layer' = [a \in Assets |-> IF a \in own THEN lay[a] ELSE layer[a]]
  /\ disc' = [disc EXCEPT ![i] = Idle]
  /\ UNCHANGED <<mVars, wiring, tree, override, suppressed, test, rec, put, budget>>

Recompute(i) == RecomputeRead(i) \/ RecomputeWrite(i)

\* Everything above the proposed parents.
Ancestors(P) == Closure(P, Effective)

\* PUT override: refused when it closes a cycle; then the rows are replaced.
PutCheck(o) ==
  /\ Disturb("override") /\ put = NoPut
  /\ o[1] \notin Ancestors(o[2])
  /\ put' = o
  /\ UNCHANGED <<mVars, wiring, tree, computed, override, layer, suppressed, test, rec, disc>>

PutWrite ==
  /\ put # NoPut
  /\ override' = [override EXCEPT ![put[1]] = put[2]]
  /\ put' = NoPut
  /\ UNCHANGED <<mVars, wiring, tree, computed, layer, suppressed, test, rec, disc, budget>>

ClearOverride(a) ==
  /\ Disturb("override") /\ override[a] # {}
  /\ override' = [override EXCEPT ![a] = {}]
  /\ UNCHANGED <<mVars, wiring, tree, computed, layer, suppressed, test, rec, disc, put>>

-----------------------------------------------------------------------------
Step ==
  \/ Tick \/ \E s \in Recs : RecRead(s) \/ RecEval(s) \/ RecWrite(s) \/ RecFail(s)
  \/ \E a \in Assets, k \in Kinds : Probe(a, k) \/ ProbeDone(a, k)
  \/ \E a \in Assets, on \in BOOLEAN : Monitor(a, on)
  \/ \E a \in Assets : StartTest(a) \/ ClearTest(a) \/ Lapse(a) \/ ClearOverride(a)
  \/ \E w \in Wirings : Rewire(w)
  \/ \E i \in Integrations : Recompute(i)
  \/ \E o \in Overrides : PutCheck(o)
  \/ PutWrite

Next == Step /\ UNCHANGED mix

\* The reconciler's timer goes on for ever and so do its steps; discoveries
\* of every integration come round.  The hooks need not get anywhere.
Reconciler == Tick \/ RecRead("tick") \/ RecEval("tick") \/ RecWrite("tick")
Fairness ==
  /\ WF_vars(Reconciler /\ UNCHANGED mix)
  /\ \A i \in Integrations : WF_vars(Recompute(i) /\ UNCHANGED mix)

Spec == Init /\ [][Next]_vars
FairSpec == Spec /\ Fairness

-----------------------------------------------------------------------------
(* Properties.                                                             *)

Down(a) == test[a] = "active" \/ (row[a].monitored /\ row[a].status = "down")

\* The assets the header's rule holds back, whatever the layers: down, or
\* all parents are.
HeldBack(down, par) ==
  {a \in Assets : \A B \in SUBSET Assets :
     (\A b \in Assets : b \in down \/ (par[b] # {} /\ par[b] \subseteq B) => b \in B)
       => a \in B}
Blocked == HeldBack({a \in Assets : Down(a)}, [a \in Assets |-> Effective(a)])

\* "parent's effective state is settled before its children are evaluated":
\* an override may break this.
OverridesDescend ==
  \A a \in Assets : \A p \in override[a] : layer[p] # 0 /\ (layer[a] = 0 \/ layer[p] < layer[a])

\* "an asset is suppressed iff it has at least one effective parent AND every
\* effective parent is either confirmed down or itself suppressed": when
\* changes cease the flags come to say just that, whatever stale reconciles
\* wrote in between, unless an override puts a parent below its child.
SuppressionSettles ==
  <>[](OverridesDescend =>
         \A a \in Assets : suppressed[a] <=> Effective(a) # {} /\ Effective(a) \subseteq Blocked)

\* The assets that some signals, through the assets in S, connect to a firewall.
Connected(S) ==
  Closure(Firewalls \cap S,
          LAMBDA b : {a \in S : Signal(wiring, a, b) \/ Signal(wiring, b, a)})

\* "FG -> 148F-1 -> 148F-2 layers correctly": without overrides, whatever the
\* wiring, an asset that down assets cut off from every firewall comes to be
\* suppressed.
CutOffSuppressed ==
  <>[]((\A a \in Assets : override[a] = {}) =>
         LET live == {a \in Assets : ~Down(a)}
         IN \A a \in (live \cap Connected(Assets)) \ Connected(live) : suppressed[a])

-----------------------------------------------------------------------------
(* One reconcile, against the rule.                                        *)

\* What a reconcile has read of the assets gives these for down, ..
DownIn(states) ==
  {a \in Assets : states[a].test = "active" \/ (states[a].monitored /\ states[a].status = "down")}

\* .. and the rule suppresses these.
Ruled(states, par) ==
  {a \in Assets : par[a] # {} /\ par[a] \subseteq HeldBack(DownIn(states), par)}

\* Every parent has a smaller layer than its child, null being the largest.
Descends(lay, par) ==
  \A a \in Assets : \A p \in par[a] : lay[p] # 0 /\ (lay[a] = 0 \/ lay[p] < lay[a])

\* "so a parent's effective state is settled before its children are
\* evaluated": one pass over the assets in the order of their layers decides
\* as the rule does, through parents that are not monitored too, whenever the
\* parents it reads descend by the layers it read before.
ReconcileExact ==
  [][\A s \in Recs : RecEval(s) =>
       LET states == rec[s].states
           par == [a \in Assets |-> Effective(a)]
           flagged == {a \in Assets : states[a].suppressed}
           after == IF rec'[s] = Idle THEN flagged ELSE (flagged \cup rec'[s].on) \ rec'[s].off
       IN Descends([a \in Assets |-> states[a].layer], par) => after = Ruled(states, par)]_vars

=============================================================================
