------------------------ MODULE DependencyTreeProofs ------------------------
(***************************************************************************)
(* The five-state machine of the monitor confirms what it reports: for     *)
(* every set of assets, every threshold and every interleaving of probes   *)
(* of both kinds with the reconciler, the operator and discovery.  And a   *)
(* reconcile decides as the rule in the service's header does, for every   *)
(* inventory and tree whose parents descend by the layers.                 *)
(***************************************************************************)
EXTENDS DependencyTree, FiniteSetTheorems, WellFoundedInduction, TLAPS

\* The constraint of Confirmed on one step.
ConfirmedStep ==
  \A a \in Assets :
    LET status == row'[a].status
    IN (status # row[a].status /\ status \in {"up", "down"} /\ ~overtaken'[a]) =>
         streak'[a].n >= threshold /\ streak'[a].ok = (status = "up")

\* Steps of the monitor; everything else leaves its variables alone.
MStep ==
  \/ \E a \in Assets, k \in Kinds : \/ ProbeRead(a, k)
                                    \/ \E ok \in BOOLEAN : recordProbeResult(a, k, ok)
                                    \/ ProbeLost(a, k)
  \/ \E a \in Assets, on \in BOOLEAN : SetMonitored(a, on)

\* What a step of the whole system does to the monitor.
LEMMA StepOfMonitor ==
  ASSUME [Next]_vars
  PROVE  MStep \/ UNCHANGED mVars
<1>1. CASE UNCHANGED vars
  BY <1>1 DEF vars
<1>2. ASSUME NEW s \in Recs, RecRead(s) \/ RecEval(s) \/ RecWrite(s) \/ RecFail(s)
      PROVE  UNCHANGED mVars
  BY <1>2 DEF RecRead, RecEval, RecWrite, RecFail
<1>3. ASSUME NEW a \in Assets, NEW k \in Kinds, Probe(a, k) \/ ProbeDone(a, k)
      PROVE  MStep
  BY <1>3 DEF Probe, ProbeDone, MStep
<1>4. ASSUME NEW a \in Assets, NEW on \in BOOLEAN, Monitor(a, on)
      PROVE  MStep
  BY <1>4 DEF Monitor, MStep
<1>5. ASSUME NEW a \in Assets, StartTest(a) \/ ClearTest(a) \/ Lapse(a) \/ ClearOverride(a)
      PROVE  UNCHANGED mVars
  BY <1>5 DEF StartTest, ClearTest, Lapse, ClearOverride
<1>6. ASSUME NEW w \in Wirings, Rewire(w)
      PROVE  UNCHANGED mVars
  BY <1>6 DEF Rewire
<1>7. ASSUME NEW i \in Integrations, Recompute(i)
      PROVE  UNCHANGED mVars
  BY <1>7 DEF Recompute, RecomputeRead, RecomputeWrite
<1>8. ASSUME NEW o \in Overrides, PutCheck(o)
      PROVE  UNCHANGED mVars
  BY <1>8 DEF PutCheck
<1>9. CASE PutWrite
  BY <1>9 DEF PutWrite
<1>10. CASE Tick
  BY <1>10 DEF Tick
<1> QED
  BY <1>1, <1>2, <1>3, <1>4, <1>5, <1>6, <1>7, <1>8, <1>9, <1>10 DEF Next, Step

\* A fresh system.
LEMMA InitGood == Init => MIInv
  BY MonitorAssumption
     DEF Init, MInit, MIInv, MTypeOK, Bounded, Tallied, Row, Statuses, Counts, NoProbe, Kinds

\* A probe reads the row.
LEMMA ReadGood ==
  ASSUME MIInv, NEW a \in Assets, NEW k \in Kinds, ProbeRead(a, k)
  PROVE  MIInv'
<1> USE DEF MIInv
<1>1. MTypeOK'
  BY MonitorAssumption DEF MTypeOK, ProbeRead, Row, Counts
<1>2. Bounded'
  BY DEF Bounded, MTypeOK, ProbeRead
<1>3. Tallied'
  BY DEF Tallied, ProbeRead
<1> QED
  BY <1>1, <1>2, <1>3

\* A probe comes to nothing.
LEMMA LostGood ==
  ASSUME MIInv, NEW a \in Assets, NEW k \in Kinds, ProbeLost(a, k)
  PROVE  MIInv'
<1> USE DEF MIInv
<1>1. MTypeOK'
  BY DEF MTypeOK, ProbeLost
<1>2. Bounded'
  BY MonitorAssumption DEF Bounded, MTypeOK, ProbeLost, NoProbe, Counts
<1>3. Tallied'
  BY DEF Tallied, ProbeLost
<1> QED
  BY <1>1, <1>2, <1>3

\* The operator turns monitoring on or off.
LEMMA SetGood ==
  ASSUME MIInv, NEW a \in Assets, NEW on \in BOOLEAN, SetMonitored(a, on)
  PROVE  MIInv' /\ ConfirmedStep
<1> USE DEF MIInv
<1>1. MTypeOK'
  <2>1. 0 \in Counts /\ "recovering" \in Statuses
    BY MonitorAssumption DEF Counts, Statuses
  <2>2. row' \in [Assets -> Row]
    BY <2>1 DEF MTypeOK, SetMonitored, Row
  <2>3. streak' \in [Assets -> [ok: BOOLEAN, n: Counts]]
    BY <2>1 DEF MTypeOK, SetMonitored
  <2> QED
    BY <2>2, <2>3 DEF MTypeOK, SetMonitored
<1>2. Bounded'
  BY MonitorAssumption DEF Bounded, MTypeOK, SetMonitored, Row, Counts
<1>3. Tallied'
  BY MonitorAssumption DEF Tallied, MTypeOK, SetMonitored, Row, Counts
<1>4. ConfirmedStep
  BY DEF ConfirmedStep, SetMonitored, MTypeOK, Row
<1> QED
  BY <1>1, <1>2, <1>3, <1>4

\* What a probe in flight holds is a row some results old.
LEMMA ProbeTyped ==
  ASSUME MIInv, NEW a \in Assets, NEW k \in Kinds
  PROVE  LET r == probe[a][k] IN
         /\ r.monitored \in BOOLEAN /\ r.status \in Statuses /\ r.busy \in BOOLEAN
         /\ r.cf \in Nat /\ r.cs \in Nat /\ r.cf <= results /\ r.cs <= results
<1>1. probe[a][k] \in {NoProbe} \cup
         [monitored: BOOLEAN, status: Statuses, cf: Counts, cs: Counts, busy: {TRUE}]
  BY DEF MIInv, MTypeOK
<1>2. probe[a][k].cf <= results /\ probe[a][k].cs <= results
  BY DEF MIInv, Bounded
<1>3. CASE probe[a][k] = NoProbe
  BY <1>2, <1>3 DEF NoProbe, Statuses
<1>4. CASE probe[a][k] \in
             [monitored: BOOLEAN, status: Statuses, cf: Counts, cs: Counts, busy: {TRUE}]
  <2>1. probe[a][k].cf \in Counts /\ probe[a][k].cs \in Counts
    BY <1>4
  <2>2. probe[a][k].cf \in Nat /\ probe[a][k].cs \in Nat
    BY <2>1, MonitorAssumption DEF Counts
  <2> QED
    BY <1>2, <1>4, <2>2
<1> QED
  BY <1>1, <1>3, <1>4

\* A result is written.
LEMMA RecordGood ==
  ASSUME MIInv, NEW a \in Assets, NEW k \in Kinds, NEW ok \in BOOLEAN,
         recordProbeResult(a, k, ok)
  PROVE  MIInv' /\ ConfirmedStep
<1> USE DEF MIInv
<1> DEFINE r == probe[a][k]
<1>1. /\ r.busy /\ r.monitored \in BOOLEAN /\ r.status \in Statuses
      /\ r.cf \in Nat /\ r.cs \in Nat /\ r.cf <= results /\ r.cs <= results
      /\ results \in Nat /\ results < MaxResults /\ threshold \in Nat
      /\ streak[a].n \in Nat /\ streak[a].n <= results /\ streak[a].ok \in BOOLEAN
  <2>1. /\ r.busy /\ r.monitored \in BOOLEAN /\ r.status \in Statuses
        /\ r.cf \in Nat /\ r.cs \in Nat /\ r.cf <= results /\ r.cs <= results
    BY ProbeTyped DEF recordProbeResult
  <2> QED
    BY <2>1, MonitorAssumption DEF MTypeOK, Bounded, recordProbeResult, Counts
<1>2. /\ nextStatus(r, ok) \in Statuses
      /\ Failures(r, ok) \in 0..(results + 1) /\ Successes(r, ok) \in 0..(results + 1)
  BY <1>1 DEF nextStatus, Failures, Successes, Statuses
<1>3. MTypeOK'
  <2>1. results' \in Counts /\ 0..(results + 1) \subseteq Counts
    BY <1>1, MonitorAssumption DEF recordProbeResult, Counts
  <2>2. row' \in [Assets -> Row]
    BY <1>2, <2>1 DEF MTypeOK, recordProbeResult, Row
  <2>3. (IF streak[a].ok = ok THEN streak[a].n + 1 ELSE 1) \in Counts
    BY <1>1, MonitorAssumption DEF Counts
  <2>4. streak' \in [Assets -> [ok: BOOLEAN, n: Counts]]
    BY <2>3 DEF MTypeOK, recordProbeResult
  <2>5. probe' = [probe EXCEPT ![a][k] = NoProbe]
    BY DEF recordProbeResult
  <2>6. probe' \in [Assets -> [Kinds -> {NoProbe} \cup
          [monitored: BOOLEAN, status: Statuses, cf: Counts, cs: Counts, busy: {TRUE}]]]
    BY <2>5 DEF MTypeOK
  <2> QED
    BY <2>1, <2>2, <2>4, <2>6 DEF MTypeOK, recordProbeResult
<1>4. Bounded'
  <2> SUFFICES ASSUME NEW b \in Assets
               PROVE  /\ row'[b].cf <= results' /\ row'[b].cs <= results'
                      /\ streak'[b].n <= results'
                      /\ \A j \in Kinds : probe'[b][j].cf <= results' /\ probe'[b][j].cs <= results'
    BY DEF Bounded
  <2>1. results' = results + 1
    BY DEF recordProbeResult
  <2>2. /\ row[b].cf \in Nat /\ row[b].cs \in Nat /\ streak[b].n \in Nat
        /\ row[b].cf <= results /\ row[b].cs <= results /\ streak[b].n <= results
    BY MonitorAssumption DEF MTypeOK, Bounded, Row, Counts
  <2>3. row'[b].cf <= results' /\ row'[b].cs <= results'
    BY <1>1, <1>2, <2>1, <2>2 DEF recordProbeResult, MTypeOK
  <2>4. streak'[b].n <= results'
    BY <1>1, <2>1, <2>2 DEF recordProbeResult, MTypeOK
  <2>5. ASSUME NEW j \in Kinds
        PROVE  probe'[b][j].cf <= results' /\ probe'[b][j].cs <= results'
    <3>1. /\ probe[b][j].cf \in Nat /\ probe[b][j].cs \in Nat
          /\ probe[b][j].cf <= results /\ probe[b][j].cs <= results
      BY ProbeTyped
    <3>2. probe'[b][j] = probe[b][j] \/ probe'[b][j] = NoProbe
      BY DEF recordProbeResult, MTypeOK
    <3> QED
      BY <1>1, <2>1, <3>1, <3>2 DEF NoProbe
  <2> QED
    BY <2>3, <2>4, <2>5
<1>5. ~overtaken'[a] => ~overtaken[a] /\ row[a].status = r.status /\ row[a].cf = r.cf
                          /\ row[a].cs = r.cs
  BY DEF recordProbeResult, MTypeOK, Seen
<1>6. /\ row' = [row EXCEPT ![a] = [monitored |-> row[a].monitored,
                    status |-> nextStatus(r, ok),
                    cf |-> Failures(r, ok), cs |-> Successes(r, ok)]]
      /\ streak'[a].ok = ok
      /\ streak'[a].n = IF streak[a].ok = ok THEN streak[a].n + 1 ELSE 1
      /\ \A b \in Assets \ {a} : streak'[b] = streak[b] /\ overtaken'[b] = overtaken[b]
  BY DEF recordProbeResult, MTypeOK
<1>7. ~overtaken'[a] =>
        /\ Failures(r, ok) > 0 => ~ok /\ Failures(r, ok) <= streak'[a].n
        /\ Successes(r, ok) > 0 => ok /\ Successes(r, ok) <= streak'[a].n
  BY <1>1, <1>5, <1>6 DEF Tallied, Failures, Successes
<1>8. Tallied'
  BY <1>6, <1>7 DEF Tallied, MTypeOK, Row
<1>9. ConfirmedStep
  <2>1. ASSUME nextStatus(r, ok) # r.status, nextStatus(r, ok) \in {"up", "down"}
        PROVE  /\ nextStatus(r, ok) = "up" => ok /\ Successes(r, ok) >= threshold
               /\ nextStatus(r, ok) = "down" => ~ok /\ Failures(r, ok) >= threshold
    BY <1>1, <2>1 DEF nextStatus, Statuses, Failures, Successes
  <2> QED
    BY <1>1, <1>2, <1>5, <1>6, <1>7, <2>1, MonitorAssumption DEF ConfirmedStep, MTypeOK, Row, Counts
<1> QED
  BY <1>3, <1>4, <1>8, <1>9

\* Every step keeps the invariant and confirms what it reports.
LEMMA StepGood ==
  ASSUME MIInv, [Next]_vars
  PROVE  MIInv' /\ (ConfirmedStep \/ UNCHANGED mVars)
<1>1. CASE UNCHANGED mVars
  BY <1>1 DEF MIInv, MTypeOK, Bounded, Tallied, mVars
<1>2. ASSUME NEW a \in Assets, NEW k \in Kinds, ProbeRead(a, k) \/ ProbeLost(a, k)
      PROVE  MIInv' /\ ConfirmedStep
  <2>1. UNCHANGED row
    BY <1>2 DEF ProbeRead, ProbeLost
  <2> QED
    BY <1>2, <2>1, ReadGood, LostGood DEF ConfirmedStep
<1>3. ASSUME NEW a \in Assets, NEW k \in Kinds, NEW ok \in BOOLEAN, recordProbeResult(a, k, ok)
      PROVE  MIInv' /\ ConfirmedStep
  BY <1>3, RecordGood
<1>4. ASSUME NEW a \in Assets, NEW on \in BOOLEAN, SetMonitored(a, on)
      PROVE  MIInv' /\ ConfirmedStep
  BY <1>4, SetGood
<1> QED
  BY <1>1, <1>2, <1>3, <1>4, StepOfMonitor DEF MStep

\* "Same number of confirmations either direction" (recordProbeResult): an
\* asset goes up or down only with the threshold-th equal result in a row, in
\* every behaviour of the monitor composed with the dependency tree, so long
\* as no result was written over a newer row.
THEOREM ConfirmedHolds == Spec => Confirmed
<1>1. Init => MIInv
  BY InitGood
<1>2. MIInv /\ [Next]_vars => MIInv'
  BY StepGood
<1>3. MIInv /\ [Next]_vars => [ConfirmedStep]_mVars
  BY StepGood
<1> QED
  BY <1>1, <1>2, <1>3, PTL DEF Spec, Confirmed, ConfirmedStep

-----------------------------------------------------------------------------
(***************************************************************************)
(* One pass of evaluateSuppression decides as the rule does.               *)
(***************************************************************************)

\* The order of the numbers, as a relation.
Less == {p \in Nat \X Nat : p[1] < p[2]}

\* A set of numbers has a least one.
LEMMA LeastNumber ==
  ASSUME NEW S \in SUBSET Nat, S # {}
  PROVE  \E x \in S : \A y \in S : x <= y
<1>1. Less = OpToRel(<, Nat)
  BY Zenon DEF Less, OpToRel
<1>2. PICK x \in S : \A y \in S : <<y, x>> \notin Less
  BY <1>1, WFMin, NatLessThanWellFounded
<1>3. ASSUME NEW y \in S PROVE x <= y
  <2>1. x \in Nat /\ y \in Nat /\ <<y, x>> \notin Less
    BY <1>2
  <2> QED
    BY <2>1 DEF Less
<1> QED
  BY <1>3

\* The rule's own equation: an asset is held back when it is down or has
\* parents, all of them held back.
LEMMA HeldBackIs ==
  ASSUME NEW D, NEW par \in Parents
  PROVE  /\ HeldBack(D, par) \subseteq Assets
         /\ \A b \in Assets : b \in HeldBack(D, par) <=>
              b \in D \/ (par[b] # {} /\ par[b] \subseteq HeldBack(D, par))
<1> DEFINE B == HeldBack(D, par)
           Closed(T) == \A b \in Assets : b \in D \/ (par[b] # {} /\ par[b] \subseteq T) => b \in T
<1>1. B = {a \in Assets : \A T \in SUBSET Assets : Closed(T) => a \in T}
  BY DEF HeldBack
<1> HIDE DEF B
<1>2. ASSUME NEW b \in Assets, b \in D \/ (par[b] # {} /\ par[b] \subseteq B)
      PROVE  b \in B
  <2> SUFFICES ASSUME NEW T \in SUBSET Assets, Closed(T) PROVE b \in T
    BY <1>1
  <2>1. B \subseteq T
    BY <1>1
  <2> QED
    BY <1>2, <2>1
<1>3. ASSUME NEW b \in B PROVE b \in D \/ (par[b] # {} /\ par[b] \subseteq B)
  <2> DEFINE T == {c \in Assets : c \in D \/ (par[c] # {} /\ par[c] \subseteq B)}
  <2>1. T \subseteq B /\ T \in SUBSET Assets
    BY <1>2
  <2>2. Closed(T)
    BY <2>1
  <2>3. b \in T
    BY <1>1, <2>1, <2>2
  <2> QED
    BY <2>3
<1> QED
  BY <1>1, <1>2, <1>3 DEF B

\* The walk up from an asset: its parents, and the parents of those through
\* which the walk goes on, and nothing else.
LEMMA WalkUpIs ==
  ASSUME NEW states, NEW par \in Parents, NEW a \in Assets
  PROVE  /\ WalkUp(states, par, a) \subseteq Assets
         /\ par[a] \subseteq WalkUp(states, par, a)
         /\ \A t \in WalkUp(states, par, a) :
              Transparent(states, t) => par[t] \subseteq WalkUp(states, par, a)
         /\ \A T \in SUBSET Assets :
              (par[a] \subseteq T /\ \A t \in T : Transparent(states, t) => par[t] \subseteq T)
                => WalkUp(states, par, a) \subseteq T
<1> DEFINE W == WalkUp(states, par, a)
<1>1. par[a] \subseteq Assets /\ \A t \in Assets : par[t] \subseteq Assets
  BY DEF Parents
<1>2. CASE \A p \in par[a] : ~Transparent(states, p)
  <2>1. W = par[a]
    BY <1>2 DEF WalkUp
  <2> HIDE DEF W
  <2> QED
    BY <1>1, <1>2, <2>1 DEF W
<1>3. CASE ~\A p \in par[a] : ~Transparent(states, p)
  <2> DEFINE up(p) == IF Transparent(states, p) THEN par[p] ELSE {}
             Closed(T) == par[a] \subseteq T /\ \A t \in T : up(t) \subseteq T
  <2>1. W = {x \in Assets : \A T \in SUBSET Assets : Closed(T) => x \in T}
    BY <1>3 DEF WalkUp, Closure
  <2> HIDE DEF W
  <2>2. W \subseteq Assets /\ par[a] \subseteq W
    BY <1>1, <2>1
  <2>3. ASSUME NEW t \in W, Transparent(states, t), NEW x \in par[t] PROVE x \in W
    <3>1. x \in Assets
      BY <1>1, <2>2, <2>3
    <3> SUFFICES ASSUME NEW T \in SUBSET Assets, Closed(T) PROVE x \in T
      BY <2>1, <3>1
    <3>2. t \in T
      BY <2>1
    <3> QED
      BY <2>3, <3>2
  <2>4. ASSUME NEW T \in SUBSET Assets, par[a] \subseteq T,
               \A t \in T : Transparent(states, t) => par[t] \subseteq T
        PROVE  W \subseteq T
    <3>1. Closed(T)
      BY <2>4
    <3> QED
      BY <2>1, <3>1
  <2> QED
    BY <2>2, <2>3, <2>4 DEF W
<1> QED
  BY <1>2, <1>3

\* When the parents descend, the walk from an asset only meets smaller layers.
LEMMA WalkDescends ==
  ASSUME NEW states, NEW par \in Parents, NEW lay \in [Assets -> Nat], Descends(lay, par),
         NEW a \in Assets, NEW p \in WalkUp(states, par, a)
  PROVE  lay[p] # 0 /\ (lay[a] = 0 \/ lay[p] < lay[a])
<1> DEFINE T == {x \in Assets : lay[x] # 0 /\ (lay[a] = 0 \/ lay[x] < lay[a])}
<1>1. par[a] \subseteq T
  BY DEF Descends, Parents
<1>2. ASSUME NEW t \in T, NEW x \in par[t] PROVE x \in T
  <2>1. x \in Assets /\ t \in Assets /\ lay[x] \in Nat /\ lay[t] \in Nat /\ lay[a] \in Nat
    BY <1>2 DEF Parents
  <2>2. lay[x] # 0 /\ lay[x] < lay[t]
    BY <1>2, <2>1 DEF Descends
  <2> QED
    BY <1>2, <2>1, <2>2
<1>3. WalkUp(states, par, a) \subseteq T
  <2>1. T \in SUBSET Assets
    OBVIOUS
  <2> HIDE DEF T
  <2> QED
    BY <1>1, <1>2, <2>1, WalkUpIs
<1> QED
  BY <1>3

\* What the code asks of the assets on the walk is what the rule asks of the
\* parents.
LEMMA WalkAgrees ==
  ASSUME NEW states, NEW par \in Parents, NEW lay \in [Assets -> Nat], Descends(lay, par),
         \A x \in Assets : states[x].monitored \in BOOLEAN,
         NEW a \in Assets
  PROVE  par[a] \subseteq HeldBack(DownIn(states), par) <=>
         \A p \in WalkUp(states, par, a) : ~isParentOk(states, par, Ruled(states, par), p)
<1> DEFINE B == HeldBack(DownIn(states), par)
           W == WalkUp(states, par, a)
           R == Ruled(states, par)
<1>1. B \subseteq Assets /\ \A b \in Assets : b \in B <=> b \in DownIn(states) \/ b \in R
  BY HeldBackIs DEF Ruled
<1>2. \A b \in Assets : b \in R <=> par[b] # {} /\ par[b] \subseteq B
  BY DEF Ruled
<1>3. /\ W \subseteq Assets /\ par[a] \subseteq W
      /\ \A t \in W : Transparent(states, t) => par[t] \subseteq W
      /\ \A T \in SUBSET Assets :
           (par[a] \subseteq T /\ \A t \in T : Transparent(states, t) => par[t] \subseteq T) => W \subseteq T
  BY WalkUpIs
<1>4. \A p \in W : lay[p] # 0
  BY WalkDescends
<1> HIDE DEF B, W, R
<1>5. ASSUME NEW p \in Assets, ~Transparent(states, p) PROVE ~isParentOk(states, par, R, p) <=> p \in B
  BY <1>1, <1>5 DEF Transparent, isParentOk, DownIn
<1>6. ASSUME NEW p \in Assets, Transparent(states, p)
      PROVE  /\ ~isParentOk(states, par, R, p) <=> par[p] # {}
             /\ p \in B <=> par[p] # {} /\ par[p] \subseteq B
  BY <1>1, <1>2, <1>6 DEF Transparent, isParentOk, DownIn
<1>7. ASSUME par[a] \subseteq B, NEW p \in W PROVE ~isParentOk(states, par, R, p)
  <2>1. \A t \in B : Transparent(states, t) => par[t] \subseteq B
    BY <1>1, <1>6
  <2>2. p \in B /\ p \in Assets
    BY <1>1, <1>3, <1>7, <2>1
  <2> QED
    BY <1>5, <1>6, <2>2
<1>8. ASSUME \A p \in W : ~isParentOk(states, par, R, p) PROVE W \subseteq B
  <2> DEFINE bad == {lay[p] : p \in W \ B}
  <2> SUFFICES ASSUME bad # {} PROVE FALSE
    OBVIOUS
  <2>1. bad \in SUBSET Nat
    BY <1>3
  <2>2. PICK m \in bad : \A y \in bad : m <= y
    BY <2>1, LeastNumber
  <2>3. PICK p \in W \ B : lay[p] = m
    BY <2>2
  <2>4. p \in Assets /\ Transparent(states, p) /\ par[p] # {}
    BY <1>3, <1>5, <1>6, <1>8, <2>3
  <2>5. PICK x \in par[p] : x \notin B
    BY <1>6, <2>3, <2>4
  <2>6. x \in W /\ x \in Assets
    BY <1>3, <2>3, <2>4, <2>5
  <2>7. lay[x] \in bad /\ lay[x] \in Nat /\ lay[p] \in Nat
    BY <2>4, <2>5, <2>6
  <2>8. lay[x] < lay[p]
    BY <1>4, <2>3, <2>4, <2>5 DEF Descends
  <2> QED
    BY <2>2, <2>3, <2>7, <2>8
<1> QED
  BY <1>3, <1>7, <1>8 DEF B, W, R

\* An order of the assets has each of them, once.
LEMMA OrderIs ==
  ASSUME NEW q \in Orders
  PROVE  /\ DOMAIN q = Assets /\ q \in [Assets -> Assets]
         /\ \A a \in Assets : \E n \in Assets : q[n] = a
         /\ \A i, j \in Assets : q[i] = q[j] => i = j
<1>1. /\ q \in [Assets -> Assets] /\ \A i, j \in Assets : i # j => q[i] # q[j]
  BY TreeAssumption DEF Orders, SetToSeqs
<1>2. q \in Injection(Assets, Assets)
  BY <1>1 DEF Injection, IsInjective
<1>3. q \in Surjection(Assets, Assets)
  BY <1>2, TreeAssumption, FS_Injection
<1> QED
  BY <1>1, <1>3 DEF Surjection

\* One pass in the order of the layers, over parents that descend: the result
\* is the rule's, whichever order the query gives within a layer.
THEOREM OnePassExact ==
  ASSUME NEW states, \A x \in Assets : states[x].monitored \in BOOLEAN,
         NEW par \in Parents, NEW lay \in [Assets -> Nat], Descends(lay, par),
         NEW q \in LayerOrders(lay)
  PROVE  evaluateSuppression(states, par, q) = Ruled(states, par)
<1> DEFINE R == Ruled(states, par)
           held(a, sup) == /\ par[a] # {}
                           /\ \A p \in WalkUp(states, par, a) : ~isParentOk(states, par, sup, p)
           before(n) == {q[i] : i \in 1..(n - 1)}
           Pass(S) == \A n \in DOMAIN q : q[n] \in S <=> held(q[n], S \cap before(n))
<1>1. q \in Orders /\ \A i, j \in DOMAIN q : i < j =>
                        lay[q[j]] = 0 \/ (lay[q[i]] # 0 /\ lay[q[i]] <= lay[q[j]])
  BY DEF LayerOrders
<1>2. /\ DOMAIN q = Assets /\ q \in [Assets -> Assets]
      /\ \A a \in Assets : \E n \in Assets : q[n] = a
      /\ \A i, j \in Assets : q[i] = q[j] => i = j
  BY <1>1, OrderIs
<1>3. /\ Assets \subseteq Nat \ {0} /\ \A n \in Assets : 1..(n - 1) \subseteq Assets
  <2>1. Cardinality(Assets) \in Nat
    BY TreeAssumption, FS_CardinalityType
  <2>2. Assets = 1..Cardinality(Assets)
    BY TreeAssumption
  <2> QED
    BY <2>1, <2>2
\* Every asset on the walk comes earlier in the pass.
<1>4. ASSUME NEW n \in Assets, NEW p \in WalkUp(states, par, q[n]) PROVE p \in before(n)
  <2>1. q[n] \in Assets /\ p \in Assets
    BY <1>2, WalkUpIs
  <2>2. lay[p] # 0 /\ (lay[q[n]] = 0 \/ lay[p] < lay[q[n]])
    BY <2>1, WalkDescends
  <2>3. PICK i \in Assets : q[i] = p
    BY <1>2, <2>1
  <2>4. lay[p] \in Nat /\ lay[q[n]] \in Nat /\ i \in Nat \ {0} /\ n \in Nat \ {0}
    BY <1>3, <2>1
  <2>5. ~(n < i)
    BY <1>1, <1>2, <2>2, <2>3, <2>4
  <2>6. i # n
    BY <2>2, <2>3, <2>4
  <2>7. i \in 1..(n - 1)
    BY <2>4, <2>5, <2>6
  <2> QED
    BY <2>3, <2>7
<1>5. R \in SUBSET Assets /\ Pass(R)
  <2>1. R \in SUBSET Assets
    BY DEF Ruled
  <2>2. ASSUME NEW n \in Assets PROVE q[n] \in R <=> held(q[n], R \cap before(n))
    <3>1. q[n] \in Assets
      BY <1>2
    <3>2. q[n] \in R <=> par[q[n]] # {} /\ par[q[n]] \subseteq HeldBack(DownIn(states), par)
      BY <3>1 DEF Ruled
    <3>3. par[q[n]] \subseteq HeldBack(DownIn(states), par) <=>
            \A p \in WalkUp(states, par, q[n]) : ~isParentOk(states, par, R, p)
      BY <3>1, WalkAgrees
    <3>4. ASSUME NEW p \in WalkUp(states, par, q[n])
          PROVE  isParentOk(states, par, R, p) <=> isParentOk(states, par, R \cap before(n), p)
      <4>1. p \in before(n)
        BY <1>4
      <4> HIDE DEF before, R
      <4> QED
        BY <4>1 DEF isParentOk
    <3> HIDE DEF R, before
    <3> QED
      BY <3>2, <3>3, <3>4
  <2> QED
    BY <1>2, <2>1, <2>2
\* Two results of one pass agree at every place: look at the first at which
\* they would not.
<1>6. ASSUME NEW S \in SUBSET Assets, NEW T \in SUBSET Assets, Pass(S), Pass(T)
      PROVE  S = T
  <2> DEFINE bad == {n \in Assets : ~(q[n] \in S <=> q[n] \in T)}
  <2>1. bad = {}
    <3> SUFFICES ASSUME bad # {} PROVE FALSE
      OBVIOUS
    <3>1. bad \in SUBSET Nat
      BY <1>3
    <3>2. PICK n \in bad : \A y \in bad : n <= y
      BY <3>1, LeastNumber
    <3>3. \A i \in 1..(n - 1) : i \in Assets /\ i \notin bad
      BY <1>3, <3>2
    <3>4. S \cap before(n) = T \cap before(n)
      BY <3>3
    <3>5. n \in DOMAIN q /\ n \in Assets
      BY <1>2
    <3>6. q[n] \in S <=> held(q[n], S \cap before(n))
      BY <1>6, <3>5
    <3>7. q[n] \in T <=> held(q[n], T \cap before(n))
      BY <1>6, <3>5
    <3> HIDE DEF held, before
    <3> QED
      BY <3>2, <3>4, <3>6, <3>7
  <2>2. ASSUME NEW a \in Assets PROVE a \in S <=> a \in T
    <3>1. PICK n \in Assets : q[n] = a
      BY <1>2
    <3>2. n \notin bad
      BY <2>1
    <3> QED
      BY <3>1, <3>2
  <2> HIDE DEF held, before, Pass, bad
  <2> QED
    BY <2>2
<1>7. evaluateSuppression(states, par, q) = CHOOSE S \in SUBSET Assets : Pass(S)
  BY DEF evaluateSuppression
<1> HIDE DEF Pass, R
<1> QED
  BY <1>5, <1>6, <1>7 DEF R

-----------------------------------------------------------------------------
(***************************************************************************)
(* The layers are numbers.  physicalBfs and assignLayers are functions     *)
(* defined by recursion: first that such functions exist.                  *)
(***************************************************************************)

\* Induction over a set of numbers: a set with zero and with the successor
\* of each of its elements has them all.
LEMMA Induction ==
  ASSUME NEW S \in SUBSET Nat, 0 \in S, \A n \in S : n + 1 \in S
  PROVE  S = Nat
<1> SUFFICES ASSUME Nat \ S # {} PROVE FALSE
  OBVIOUS
<1>1. PICK x \in Nat \ S : \A y \in Nat \ S : x <= y
  <2>1. Nat \ S \in SUBSET Nat
    OBVIOUS
  <2> QED
    BY <2>1, LeastNumber
<1>2. x # 0 /\ x - 1 \in Nat
  BY <1>1
<1>3. x - 1 \in S
  BY <1>1, <1>2
<1>4. (x - 1) + 1 \in S
  BY <1>3
<1> QED
  BY <1>1, <1>4

\* A layering: a number for each asset.
Numbered == [Assets -> Nat]

\* There is a function with a given start and a given step.
LEMMA RecursiveFunction ==
  ASSUME NEW v \in Numbered, NEW step \in [Nat -> [Numbered -> Numbered]]
  PROVE  \E f \in [Nat -> Numbered] : f[0] = v /\ \A n \in Nat : f[n + 1] = step[n][f[n]]
<1> DEFINE Good(g, n) == g[0] = v /\ \A i \in 0..(n - 1) : g[i + 1] = step[i][g[i]]
           S == {n \in Nat : \E g \in [Nat -> Numbered] : Good(g, n)}
<1>1. 0 \in S
  <2>1. [i \in Nat |-> v] \in [Nat -> Numbered] /\ Good([i \in Nat |-> v], 0)
    OBVIOUS
  <2> QED
    BY <2>1
<1>2. ASSUME NEW n \in S PROVE n + 1 \in S
  <2>1. PICK g \in [Nat -> Numbered] : Good(g, n)
    BY <1>2
  <2>2. n \in Nat /\ step[n][g[n]] \in Numbered
    BY <1>2
  <2> DEFINE k == [g EXCEPT ![n + 1] = step[n][g[n]]]
  <2>3. k \in [Nat -> Numbered]
    BY <2>2
  <2>4. k[0] = v
    BY <2>1, <2>2
  <2>5. ASSUME NEW i \in 0..n PROVE k[i + 1] = step[i][k[i]]
    <3>1. CASE i = n
      BY <2>2, <3>1
    <3>2. CASE i # n
      <4>1. i \in 0..(n - 1) /\ i + 1 # n + 1 /\ i # n + 1 /\ i + 1 \in Nat /\ i \in Nat
        BY <2>2, <3>2
      <4> QED
        BY <2>1, <4>1
    <3> QED
      BY <3>1, <3>2
  <2> HIDE DEF k
  <2>6. Good(k, n + 1)
    BY <2>2, <2>4, <2>5
  <2> QED
    BY <2>2, <2>3, <2>6
<1>3. S = Nat
  <2>1. S \in SUBSET Nat
    OBVIOUS
  <2> HIDE DEF S
  <2> QED
    BY <2>1, <1>1, <1>2, Induction
<1> DEFINE G == [n \in Nat |-> CHOOSE g \in [Nat -> Numbered] : Good(g, n)]
<1>4. ASSUME NEW n \in Nat PROVE G[n] \in [Nat -> Numbered] /\ Good(G[n], n)
  <2>1. \E g \in [Nat -> Numbered] : Good(g, n)
    BY <1>3
  <2> QED
    BY <2>1
\* Two functions that are good up to n agree up to n.
<1>5. ASSUME NEW m \in Nat, NEW n \in Nat, m <= n,
             NEW a \in [Nat -> Numbered], NEW b \in [Nat -> Numbered], Good(a, m), Good(b, n)
      PROVE  a[m] = b[m]
  <2> DEFINE E == {i \in Nat : i <= m => a[i] = b[i]}
  <2>1. 0 \in E
    BY <1>5
  <2>2. ASSUME NEW i \in E PROVE i + 1 \in E
    <3>1. CASE i + 1 <= m
      <4>1. a[i] = b[i] /\ i \in 0..(m - 1) /\ i \in 0..(n - 1) /\ i + 1 \in Nat
        BY <1>5, <2>2, <3>1
      <4> QED
        BY <1>5, <4>1
    <3>2. CASE ~(i + 1 <= m)
      BY <3>2, <2>2
    <3> QED
      BY <3>1, <3>2
  <2>3. E = Nat
    <3>1. E \in SUBSET Nat
      OBVIOUS
    <3> HIDE DEF E
    <3> QED
      BY <3>1, <2>1, <2>2, Induction
  <2> QED
    BY <1>5, <2>3
<1> DEFINE f == [n \in Nat |-> G[n][n]]
<1>6. f \in [Nat -> Numbered]
  BY <1>4
<1>7. f[0] = v
  BY <1>4
<1>8. ASSUME NEW n \in Nat PROVE f[n + 1] = step[n][f[n]]
  <2>0. n + 1 \in Nat /\ n <= n + 1
    OBVIOUS
  <2> HIDE DEF Good, G
  <2>1. /\ G[n] \in [Nat -> Numbered] /\ Good(G[n], n)
        /\ G[n + 1] \in [Nat -> Numbered] /\ Good(G[n + 1], n + 1)
    BY <1>4, <2>0
  <2>2. G[n][n] = G[n + 1][n]
    BY <2>0, <2>1, <1>5
  <2>3. n \in 0..(n + 1 - 1)
    OBVIOUS
  <2>4. G[n + 1][n + 1] = step[n][G[n + 1][n]]
    BY <2>1, <2>3 DEF Good
  <2> QED
    BY <2>0, <2>2, <2>4
<1> HIDE DEF f
<1> QED
  BY <1>6, <1>7, <1>8

\* The same up to a bound.
LEMMA BoundedRecursion ==
  ASSUME NEW v \in Numbered, NEW step \in [Nat -> [Numbered -> Numbered]], NEW N \in Nat
  PROVE  \E g \in [0..N -> Numbered] : g[0] = v /\ \A k \in 1..N : g[k] = step[k - 1][g[k - 1]]
<1>1. PICK f \in [Nat -> Numbered] : f[0] = v /\ \A n \in Nat : f[n + 1] = step[n][f[n]]
  BY RecursiveFunction
<1> DEFINE g == [k \in 0..N |-> f[k]]
<1>2. g \in [0..N -> Numbered] /\ g[0] = v
  BY <1>1
<1>3. ASSUME NEW k \in 1..N PROVE g[k] = step[k - 1][g[k - 1]]
  <2>1. k - 1 \in Nat /\ (k - 1) + 1 = k /\ k \in 0..N /\ k - 1 \in 0..N
    OBVIOUS
  <2>2. f[(k - 1) + 1] = step[k - 1][f[k - 1]]
    BY <1>1, <2>1
  <2> QED
    BY <2>1, <2>2
<1> HIDE DEF g
<1> QED
  BY <1>2, <1>3

LEMMA AssetsAre ==
  /\ Cardinality(Assets) \in Nat /\ Assets = 1..Cardinality(Assets)
  /\ Assets \subseteq Nat
<1>1. Cardinality(Assets) \in Nat
  BY TreeAssumption, FS_CardinalityType
<1> QED
  BY <1>1, TreeAssumption

LEMMA MinIn ==
  ASSUME NEW S \in SUBSET Assets, S # {}
  PROVE  Min(S) \in S
<1>1. S \in SUBSET Nat
  BY AssetsAre
<1> QED
  BY <1>1, LeastNumber DEF Min

\* One ring more of the spread over the cables.
LEMMA BfsNumbered ==
  ASSUME NEW w, NEW lay \in Numbered, NEW seed \in SUBSET Assets
  PROVE  physicalBfs(w, lay, seed) \in Numbered
<1> DEFINE N == Cardinality(Assets)
           base == lay[Min(seed)]
           ring(prev, k) == {b \in Assets : prev[b] = base + k - 1 /\ (b \in seed \/ lay[b] = 0)}
           wider(prev, k) == [a \in Assets |-> IF prev[a] = 0 /\ \E b \in ring(prev, k) : Cabled(w, a, b)
                                                THEN base + k ELSE prev[a]]
           Grows(g) == g = [k \in 0..N |-> IF k = 0 THEN lay ELSE wider(g[k - 1], k)]
<1>1. N \in Nat
  BY AssetsAre
<1>2. CASE seed = {}
  BY <1>2 DEF physicalBfs
<1>3. CASE seed # {}
  <2>1. base \in Nat
    BY <1>3, MinIn DEF Numbered
  <2>2. physicalBfs(w, lay, seed) = (CHOOSE g : Grows(g))[N]
    BY <1>3 DEF physicalBfs
  <2> HIDE DEF base, N
  <2>3. ASSUME NEW prev \in Numbered, NEW k \in Nat PROVE wider(prev, k) \in Numbered
    <3>1. base + k \in Nat
      BY <2>1
    <3> HIDE DEF ring
    <3> QED
      BY <3>1 DEF Numbered
  <2> HIDE DEF wider
  <2>4. \E g : Grows(g)
    <3> DEFINE step == [n \in Nat |-> [prev \in Numbered |-> wider(prev, n + 1)]]
    <3>1. step \in [Nat -> [Numbered -> Numbered]]
      <4>1. \A n \in Nat : n + 1 \in Nat
        OBVIOUS
      <4> QED
        BY <2>3, <4>1
    <3> HIDE DEF step
    <3>2. PICK g \in [0..N -> Numbered] : g[0] = lay /\ \A k \in 1..N : g[k] = step[k - 1][g[k - 1]]
      BY <1>1, <3>1, BoundedRecursion
    <3>3. ASSUME NEW k \in 1..N PROVE g[k] = wider(g[k - 1], k)
      <4>1. k - 1 \in Nat /\ k - 1 \in 0..N /\ (k - 1) + 1 = k
        BY <1>1
      <4>2. g[k - 1] \in Numbered
        BY <4>1
      <4> QED
        BY <3>2, <4>1, <4>2 DEF step
    <3>4. \A k \in 0..N : g[k] = IF k = 0 THEN lay ELSE wider(g[k - 1], k)
      BY <1>1, <3>2, <3>3
    <3>5. Grows(g)
      BY <3>4
    <3> QED
      BY <3>5
  <2> DEFINE grown == CHOOSE g : Grows(g)
  <2>5. Grows(grown)
    BY <2>4
  <2> HIDE DEF grown
  <2> DEFINE I == {n \in Nat : n <= N => grown[n] \in Numbered}
  <2>6. 0 \in I
    BY <1>1, <2>5
  <2>7. ASSUME NEW n \in I PROVE n + 1 \in I
    <3> SUFFICES ASSUME n + 1 <= N PROVE grown[n + 1] \in Numbered
      OBVIOUS
    <3>1. n \in Nat /\ n + 1 \in 0..N /\ n + 1 # 0 /\ (n + 1) - 1 = n /\ n <= N /\ n + 1 \in Nat
      BY <1>1
    <3>2. grown[n + 1] = wider(grown[n], n + 1)
      BY <2>5, <3>1
    <3> QED
      BY <2>3, <3>1, <3>2
  <2>8. I = Nat
    <3>1. I \in SUBSET Nat
      OBVIOUS
    <3> HIDE DEF I
    <3> QED
      BY <2>6, <2>7, <3>1, Induction
  <2>9. grown[N] \in Numbered
    BY <1>1, <2>8
  <2> QED
    BY <2>2, <2>9 DEF grown, N
<1> QED
  BY <1>2, <1>3


LEMMA AttachNumbered ==
  ASSUME NEW w, NEW lay \in Numbered, NEW p \in Assets, NEW S \in SUBSET Assets
  PROVE  Attach(w, lay, p, S) \in Numbered
<1> DEFINE heads == IF ChainEnds(w, S) = {} THEN S ELSE {Min(ChainEnds(w, S))}
           headed == [a \in Assets |-> IF a \in heads THEN lay[p] + 1 ELSE lay[a]]
<1>1. ChainEnds(w, S) \subseteq S
  BY DEF ChainEnds
<1>2. heads \subseteq Assets
  <2>1. ChainEnds(w, S) # {} => Min(ChainEnds(w, S)) \in Assets
    BY <1>1, MinIn
  <2> QED
    BY <2>1
<1> HIDE DEF heads
<1>3. headed \in Numbered
  BY DEF Numbered
<1> HIDE DEF headed
<1>4. physicalBfs(w, headed, heads) \in Numbered
  BY <1>2, <1>3, BfsNumbered
<1> QED
  BY <1>4 DEF Attach, headed, heads

\* The layers discovery computes are numbers, whatever the signals.
LEMMA LayersNumbered ==
  ASSUME NEW w
  PROVE  assignLayers(w) \in Numbered
<1> DEFINE N == Cardinality(Assets)
           first == [a \in Assets |-> IF a \in Firewalls THEN 1 ELSE 0]
           cabled == physicalBfs(w, first, Firewalls)
           attached(lay, prev, p) ==
             IF Bucket(w, lay, p) = {} THEN prev ELSE Attach(w, prev, p, Bucket(w, lay, p))
           Attaches(lay, g) == g = [p \in 0..N |-> IF p = 0 THEN lay ELSE attached(lay, g[p - 1], p)]
           round(lay) == (CHOOSE g : Attaches(lay, g))[N]
           Rounds(g) == g = [n \in 0..N |-> IF n = 0 THEN cabled ELSE round(g[n - 1])]
<1>1. N \in Nat /\ Assets = 1..N
  BY AssetsAre
<1>2. assignLayers(w) = (CHOOSE g : Rounds(g))[N]
  BY DEF assignLayers
<1>3. cabled \in Numbered
  <2>1. first \in Numbered /\ Firewalls \in SUBSET Assets
    BY TreeAssumption DEF Numbered
  <2> QED
    BY <2>1, BfsNumbered
<1> HIDE DEF N, cabled
<1>4. ASSUME NEW lay \in Numbered, NEW prev \in Numbered, NEW p \in 1..N
      PROVE  attached(lay, prev, p) \in Numbered
  <2>1. Bucket(w, lay, p) \in SUBSET Assets /\ p \in Assets
    BY <1>1 DEF Bucket
  <2> QED
    BY <2>1, AttachNumbered
<1> HIDE DEF attached
<1>5. ASSUME NEW lay \in Numbered PROVE round(lay) \in Numbered
  <2>1. \E g : Attaches(lay, g)
    <3> DEFINE step == [n \in Nat |-> [prev \in Numbered |->
                         IF n + 1 \in 1..N THEN attached(lay, prev, n + 1) ELSE prev]]
    <3>1. step \in [Nat -> [Numbered -> Numbered]]
      BY <1>4
    <3> HIDE DEF step
    <3>2. PICK g \in [0..N -> Numbered] : g[0] = lay /\ \A k \in 1..N : g[k] = step[k - 1][g[k - 1]]
      BY <1>1, <3>1, BoundedRecursion
    <3>3. ASSUME NEW k \in 1..N PROVE g[k] = attached(lay, g[k - 1], k)
      <4>1. k - 1 \in Nat /\ k - 1 \in 0..N /\ (k - 1) + 1 = k
        BY <1>1
      <4>2. g[k - 1] \in Numbered
        BY <4>1
      <4> QED
        BY <3>2, <4>1, <4>2 DEF step
    <3>4. \A k \in 0..N : g[k] = IF k = 0 THEN lay ELSE attached(lay, g[k - 1], k)
      BY <1>1, <3>2, <3>3
    <3>5. Attaches(lay, g)
      BY <3>4
    <3> QED
      BY <3>5
  <2> DEFINE after == CHOOSE g : Attaches(lay, g)
  <2>2. Attaches(lay, after)
    BY <2>1
  <2> HIDE DEF after
  <2> DEFINE I == {n \in Nat : n <= N => after[n] \in Numbered}
  <2>3. 0 \in I
    BY <1>1, <2>2
  <2>4. ASSUME NEW n \in I PROVE n + 1 \in I
    <3> SUFFICES ASSUME n + 1 <= N PROVE after[n + 1] \in Numbered
      OBVIOUS
    <3>1. n \in Nat /\ n + 1 \in 0..N /\ n + 1 # 0 /\ (n + 1) - 1 = n /\ n <= N /\ n + 1 \in 1..N
      BY <1>1
    <3>2. after[n + 1] = attached(lay, after[n], n + 1)
      BY <2>2, <3>1
    <3> QED
      BY <1>4, <3>1, <3>2
  <2>5. I = Nat
    <3>1. I \in SUBSET Nat
      OBVIOUS
    <3> HIDE DEF I
    <3> QED
      BY <2>3, <2>4, <3>1, Induction
  <2>6. after[N] \in Numbered
    BY <1>1, <2>5
  <2> QED
    BY <2>6 DEF after
<1> HIDE DEF round
<1>6. \E g : Rounds(g)
  <2> DEFINE step == [n \in Nat |-> [prev \in Numbered |-> round(prev)]]
  <2>1. step \in [Nat -> [Numbered -> Numbered]]
    BY <1>5
  <2> HIDE DEF step
  <2>2. PICK g \in [0..N -> Numbered] : g[0] = cabled /\ \A k \in 1..N : g[k] = step[k - 1][g[k - 1]]
    BY <1>1, <1>3, <2>1, BoundedRecursion
  <2>3. ASSUME NEW k \in 1..N PROVE g[k] = round(g[k - 1])
    <3>1. k - 1 \in Nat /\ k - 1 \in 0..N
      BY <1>1
    <3>2. g[k - 1] \in Numbered
      BY <3>1
    <3> QED
      BY <2>2, <3>1, <3>2 DEF step
  <2>4. \A k \in 0..N : g[k] = IF k = 0 THEN cabled ELSE round(g[k - 1])
    BY <1>1, <2>2, <2>3
  <2>5. Rounds(g)
    BY <2>4
  <2> QED
    BY <2>5
<1> DEFINE rounds == CHOOSE g : Rounds(g)
<1>7. Rounds(rounds)
  BY <1>6
<1> HIDE DEF rounds
<1> DEFINE I == {n \in Nat : n <= N => rounds[n] \in Numbered}
<1>8. 0 \in I
  BY <1>1, <1>3, <1>7
<1>9. ASSUME NEW n \in I PROVE n + 1 \in I
  <2> SUFFICES ASSUME n + 1 <= N PROVE rounds[n + 1] \in Numbered
    OBVIOUS
  <2>1. n \in Nat /\ n + 1 \in 0..N /\ n + 1 # 0 /\ (n + 1) - 1 = n /\ n <= N
    BY <1>1
  <2>2. rounds[n + 1] = round(rounds[n])
    BY <1>7, <2>1
  <2> QED
    BY <1>5, <2>1, <2>2
<1>10. I = Nat
  <2>1. I \in SUBSET Nat
    OBVIOUS
  <2> HIDE DEF I
  <2> QED
    BY <1>8, <1>9, <2>1, Induction
<1>11. rounds[N] \in Numbered
  BY <1>1, <1>10
<1> QED
  BY <1>2, <1>11 DEF rounds

-----------------------------------------------------------------------------
(***************************************************************************)
(* Every reconcile, in every behaviour, decides as the rule does on what   *)
(* it has read.                                                            *)
(***************************************************************************)

\* What a reconcile reads of the assets.
Snapshot == [Assets -> [monitored: BOOLEAN, status: Statuses, layer: Nat,
                        suppressed: BOOLEAN, test: {"none", "active", "lapsed"}]]

\* Rows, layers and what is in flight: the parts of the type the pass rests on.
TreeTyped ==
  /\ computed \in Parents /\ override \in Parents
  /\ tree \in Numbered /\ layer \in Numbered
  /\ suppressed \in [Assets -> BOOLEAN] /\ test \in [Assets -> {"none", "active", "lapsed"}]
  /\ DOMAIN disc = Integrations
  /\ \A i \in Integrations : disc[i].pc = "write" => disc[i].layers \in Numbered
  /\ put \in {NoPut} \cup Overrides

RecTyped == DOMAIN rec = Recs /\ \A s \in Recs : rec[s].pc = "eval" => rec[s].states \in Snapshot

RIInv == MIInv /\ TreeTyped /\ RecTyped

\* A fresh system.
LEMMA InitTyped == Init => RIInv
<1> SUFFICES ASSUME Init PROVE RIInv
  OBVIOUS
<1>1. MIInv
  BY InitGood
<1>2. tree \in Numbered /\ layer \in Numbered
  BY LayersNumbered DEF Init
<1>3. computed \in Parents
  BY DEF Init, KeptParents, Parents
<1>4. override \in Parents
  BY DEF Init, Parents
<1>5. RecTyped
  BY DEF Init, RecTyped, Idle
<1>6. DOMAIN disc = Integrations /\ \A i \in Integrations : disc[i].pc # "write"
  BY DEF Init, Idle
<1> QED
  BY <1>1, <1>2, <1>3, <1>4, <1>5, <1>6 DEF RIInv, TreeTyped, Init

\* A hook takes a free slot.
LEMMA HookTyped ==
  ASSUME RecTyped, Hook
  PROVE  RecTyped'
<1>1. PICK s \in Recs : rec' = [rec EXCEPT ![s] = Scanned(Expired)]
  <2>1. (CHOOSE s \in FreeHook : TRUE) \in Recs
    BY DEF Hook, FreeHook, Recs
  <2> QED
    BY <2>1 DEF Hook
<1> QED
  BY <1>1 DEF RecTyped, Scanned

\* A reconcile reads the assets.
LEMMA ReadTyped ==
  ASSUME RIInv, NEW s \in Recs, RecRead(s)
  PROVE  TreeTyped' /\ RecTyped'
<1> USE DEF RIInv
<1> DEFINE cleared == [a \in Assets |-> IF a \in rec[s].expired THEN "none" ELSE test[a]]
           st == [a \in Assets |->
                   [monitored |-> row[a].monitored, status |-> row[a].status, layer |-> layer[a],
                    suppressed |-> suppressed[a], test |-> cleared[a]]]
<1>1. cleared \in [Assets -> {"none", "active", "lapsed"}]
  BY DEF TreeTyped
<1>2. test' = cleared /\ rec' = [rec EXCEPT ![s] = Reading(st)]
  BY DEF RecRead
<1> HIDE DEF cleared
<1>3. st \in Snapshot
  BY <1>1 DEF Snapshot, TreeTyped, MIInv, MTypeOK, Row, Numbered
<1> HIDE DEF st
<1>4. RecTyped'
  BY <1>2, <1>3 DEF RecTyped, Reading
<1>5. TreeTyped'
  BY <1>1, <1>2 DEF TreeTyped, RecRead
<1> QED
  BY <1>4, <1>5

\* The other steps of a reconcile.
LEMMA WriteTyped ==
  ASSUME RIInv, NEW s \in Recs, RecEval(s) \/ RecWrite(s) \/ RecFail(s)
  PROVE  TreeTyped' /\ RecTyped'
<1> USE DEF RIInv
<1>1. TreeTyped'
  <2>1. suppressed' \in [Assets -> BOOLEAN]
    BY DEF TreeTyped, RecEval, RecWrite, RecFail
  <2> QED
    BY <2>1 DEF TreeTyped, RecEval, RecWrite, RecFail
<1>2. PICK x : rec' = [rec EXCEPT ![s] = x] /\ x.pc # "eval"
  <2>1. CASE RecEval(s)
    <3> DEFINE held(q) == evaluateSuppression(rec[s].states, [a \in Assets |-> Effective(a)], q)
               on(q) == {a \in held(q) : ~rec[s].states[a].suppressed}
               off(q) == {a \in Assets \ held(q) : rec[s].states[a].suppressed}
    <3>1. PICK q : rec' = [rec EXCEPT ![s] = IF on(q) \cup off(q) = {} THEN Idle
                                              ELSE Writing(on(q), off(q))]
      BY <2>1 DEF RecEval
    <3> DEFINE x == IF on(q) \cup off(q) = {} THEN Idle ELSE Writing(on(q), off(q))
    <3>2. x.pc # "eval"
      BY DEF Idle, Writing
    <3>3. rec' = [rec EXCEPT ![s] = x]
      BY <3>1
    <3> HIDE DEF x
    <3> QED
      BY <3>2, <3>3
  <2>2. CASE RecWrite(s) \/ RecFail(s)
    BY <2>2 DEF RecWrite, RecFail, Idle
  <2> QED
    BY <2>1, <2>2
<1>3. RecTyped'
  BY <1>2 DEF RecTyped
<1> QED
  BY <1>1, <1>3

\* A discovery replaces rows and layers.
LEMMA RecomputeTyped ==
  ASSUME RIInv, NEW i \in Integrations, Recompute(i)
  PROVE  TreeTyped' /\ RecTyped'
<1> USE DEF RIInv
<1>1. CASE RecomputeRead(i)
  <2>1. TreeTyped'
    BY <1>1 DEF RecomputeRead, TreeTyped
  <2> QED
    BY <1>1, <2>1 DEF RecomputeRead, RecTyped
<1>2. CASE RecomputeWrite(i)
  <2>1. computed' \in Parents
    BY <1>2 DEF RecomputeWrite, TreeTyped, Parents, KeptParents
  <2>2. layer' \in Numbered
    BY <1>2 DEF RecomputeWrite, TreeTyped, Numbered
  <2>3. DOMAIN disc' = Integrations /\ \A j \in Integrations : disc'[j].pc = "write" => disc'[j].layers \in Numbered
    BY <1>2 DEF RecomputeWrite, TreeTyped, Idle
  <2> QED
    BY <1>2, <2>1, <2>2, <2>3 DEF RecomputeWrite, TreeTyped, RecTyped
<1> QED
  BY <1>1, <1>2 DEF Recompute

\* Every step keeps the types.
LEMMA StepTyped ==
  ASSUME RIInv, [Next]_vars
  PROVE  RIInv'
<1> USE DEF RIInv
<1>1. MIInv'
  BY StepGood
<1>2. CASE UNCHANGED vars
  BY <1>1, <1>2 DEF vars, tVars, TreeTyped, RecTyped
<1>3. ASSUME NEW s \in Recs, RecRead(s) \/ RecEval(s) \/ RecWrite(s) \/ RecFail(s)
      PROVE  TreeTyped' /\ RecTyped'
  BY <1>3, ReadTyped, WriteTyped
<1>4. ASSUME NEW a \in Assets, NEW k \in Kinds, Probe(a, k) \/ ProbeDone(a, k)
      PROVE  TreeTyped' /\ RecTyped'
  <2>1. TreeTyped'
    BY <1>4 DEF Probe, ProbeDone, TreeTyped
  <2>2. Hook \/ UNCHANGED rec
    BY <1>4 DEF Probe, ProbeDone
  <2> QED
    BY <2>1, <2>2, HookTyped DEF RecTyped
<1>5. ASSUME NEW a \in Assets, NEW on \in BOOLEAN, Monitor(a, on)
      PROVE  TreeTyped' /\ RecTyped'
  BY <1>5 DEF Monitor, TreeTyped, RecTyped
<1>6. ASSUME NEW a \in Assets, StartTest(a) \/ ClearTest(a) \/ Lapse(a)
      PROVE  TreeTyped' /\ RecTyped'
  <2>1. TreeTyped'
    BY <1>6 DEF StartTest, ClearTest, Lapse, TreeTyped
  <2>2. Hook \/ UNCHANGED rec
    BY <1>6 DEF StartTest, ClearTest, Lapse
  <2> QED
    BY <2>1, <2>2, HookTyped DEF RecTyped
<1>7. ASSUME NEW a \in Assets, ClearOverride(a)
      PROVE  TreeTyped' /\ RecTyped'
  BY <1>7 DEF ClearOverride, TreeTyped, RecTyped, Parents
<1>8. ASSUME NEW w \in Wirings, Rewire(w)
      PROVE  TreeTyped' /\ RecTyped'
  <2>1. tree' \in Numbered
    BY <1>8, LayersNumbered DEF Rewire
  <2> QED
    BY <1>8, <2>1 DEF Rewire, TreeTyped, RecTyped
<1>9. ASSUME NEW i \in Integrations, Recompute(i)
      PROVE  TreeTyped' /\ RecTyped'
  BY <1>9, RecomputeTyped
<1>10. ASSUME NEW o \in Overrides, PutCheck(o)
       PROVE  TreeTyped' /\ RecTyped'
  BY <1>10 DEF PutCheck, TreeTyped, RecTyped
<1>11. CASE PutWrite
  <2>1. put[2] \in SUBSET Assets
    BY <1>11, TreeAssumption DEF PutWrite, TreeTyped
  <2>2. override' \in Parents
    BY <1>11, <2>1 DEF PutWrite, TreeTyped, Parents
  <2> QED
    BY <1>1, <1>11, <2>2 DEF PutWrite, TreeTyped, RecTyped
<1>12. CASE Tick
  <2>1. "tick" \in Recs
    BY DEF Recs
  <2> QED
    BY <1>1, <1>12, <2>1 DEF Tick, TreeTyped, RecTyped, Scanned
<1>13. CASE Next
  BY <1>1, <1>3, <1>4, <1>5, <1>6, <1>7, <1>8, <1>9, <1>10, <1>11, <1>12, <1>13 DEF Next, Step
<1> QED
  BY <1>2, <1>13

\* The constraint of ReconcileExact on the step of one reconcile.
LEMMA EvalExact ==
  ASSUME RIInv, NEW s \in Recs, RecEval(s),
         Descends([a \in Assets |-> rec[s].states[a].layer], [a \in Assets |-> Effective(a)])
  PROVE  LET states == rec[s].states
             flagged == {a \in Assets : states[a].suppressed}
         IN (IF rec'[s] = Idle THEN flagged ELSE (flagged \cup rec'[s].on) \ rec'[s].off)
              = Ruled(states, [a \in Assets |-> Effective(a)])
<1> DEFINE states == rec[s].states
           lay == [a \in Assets |-> states[a].layer]
           par == [a \in Assets |-> Effective(a)]
           R == Ruled(states, par)
           on == {a \in R : ~states[a].suppressed}
           off == {a \in Assets \ R : states[a].suppressed}
<1>1. states \in Snapshot
  BY DEF RIInv, RecTyped, RecEval
<1>2. par \in Parents
  BY DEF RIInv, TreeTyped, Parents, Effective
<1>3. lay \in [Assets -> Nat] /\ \A x \in Assets : states[x].monitored \in BOOLEAN
  BY <1>1 DEF Snapshot
<1>4. PICK q \in LayerOrders(lay) :
        LET held == evaluateSuppression(states, par, q)
            up == {a \in held : ~states[a].suppressed}
            dn == {a \in Assets \ held : states[a].suppressed}
        IN rec' = [rec EXCEPT ![s] = IF up \cup dn = {} THEN Idle ELSE Writing(up, dn)]
  BY DEF RecEval
<1>5. Descends(lay, par)
  OBVIOUS
<1>6. R \subseteq Assets
  BY DEF Ruled
<1> HIDE DEF states, lay, par
<1>7. evaluateSuppression(states, par, q) = R
  BY <1>2, <1>3, <1>5, OnePassExact
<1> HIDE DEF R
<1>8. rec'[s] = IF on \cup off = {} THEN Idle ELSE Writing(on, off)
  BY <1>4, <1>7 DEF RIInv, RecTyped
<1>9. Writing(on, off) # Idle /\ Writing(on, off).on = on /\ Writing(on, off).off = off
  BY DEF Writing, Idle
<1>10. (IF rec'[s] = Idle THEN {a \in Assets : states[a].suppressed}
        ELSE ({a \in Assets : states[a].suppressed} \cup rec'[s].on) \ rec'[s].off) = R
  <2>1. CASE on \cup off = {}
    BY <1>6, <1>8, <2>1
  <2>2. CASE on \cup off # {}
    BY <1>6, <1>8, <1>9, <2>2
  <2> QED
    BY <2>1, <2>2
<1> QED
  BY <1>10 DEF R, states, par

\* In every behaviour, a reconcile whose parents descend by the layers it has
\* read comes to just the flags of the rule: whatever probes, tests, overrides
\* and discoveries did between its two reads.
THEOREM ReconcileAlwaysExact == Spec => ReconcileExact
<1>1. Init => RIInv
  BY InitTyped
<1>2. RIInv /\ [Next]_vars => RIInv'
  BY StepTyped
<1>3. RIInv /\ [Next]_vars =>
        [\A s \in Recs : RecEval(s) =>
           LET states == rec[s].states
               par == [a \in Assets |-> Effective(a)]
               flagged == {a \in Assets : states[a].suppressed}
               after == IF rec'[s] = Idle THEN flagged ELSE (flagged \cup rec'[s].on) \ rec'[s].off
           IN Descends([a \in Assets |-> states[a].layer], par) => after = Ruled(states, par)]_vars
  BY EvalExact
<1> QED
  BY <1>1, <1>2, <1>3, PTL DEF Spec, ReconcileExact

=============================================================================
