----------------------------- MODULE Quarantine -----------------------------
(***************************************************************************)
(* MAC quarantine of one asset: quarantineAsset, releaseQuarantine and     *)
(* verifyAssetQuarantine (assetQuarantineService.ts), the routes of        *)
(* assets.ts that call them or guard the asset's status, the DHCP phase of *)
(* a discovery sync with its auto-quarantine pass (integrations.ts), and   *)
(* decommissionStaleAssets.                                                *)
(*                                                                         *)
(* Handlers are split at their device calls and at their last write, with  *)
(* the asset row they read at their start kept in h.  Every FortiGate has  *)
(* an integration of its own; a token's scope is a set of FortiGates.  The *)
(* asset is no firewall, switch or access point (quarantineAsset refuses   *)
(* these).  Names, reasons, actors, times and the event log are left out.  *)
(***************************************************************************)
EXTENDS Naturals, FiniteSets

CONSTANTS
  Fgts,      \* FortiGates
  Macs,      \* normalised MAC addresses
  Slots,     \* requests that run at the same time
  Mixes,     \* the loads: which operations happen
  MaxFaults, \* bound on failed calls and edits made at a device
  None

AllOps == {"quarantine", "release", "verify", "token", "put", "delete", "unmac",
           "sync", "decommission", "age", "toggle", "lose", "ignore", "admin"}

ASSUME MixesAssumption == Mixes \subseteq SUBSET AllOps
ASSUME FaultsAssumption == MaxFaults \in Nat

VARIABLES
  mix,      \* the load of this behaviour
  status,   \* Asset.status; "deleted" once the row is gone
  before,   \* Asset.statusBeforeQuarantine
  targets,  \* Asset.quarantineTargets, by FortiGate
  macs,     \* the MACs of the asset
  sighted,  \* FortiGates with a sighting younger than sightingMaxAgeDays
  intg,     \* the integration of each FortiGate
  dev,      \* the asset's quarantine target on each FortiGate: Absent or its MACs
  h,        \* the handler in each slot
  faults,   \* calls that failed, edits at a device (bound MaxFaults)
  told,     \* FortiGates whose latest push or unpush was reported as failed
  touched   \* FortiGates edited by hand since the latest verified push

row == <<status, before, targets>>
env == <<macs, sighted, intg>>
ghosts == <<told, touched>>
vars == <<mix, row, env, dev, h, faults, ghosts>>

Absent == [held |-> FALSE, macs |-> {}]
Target(ms) == [held |-> TRUE, macs |-> ms]
NoRecord == [st |-> "none", macs |-> {}]
NoTargets == [g \in Fgts |-> NoRecord]
Failed == [st |-> "failed", macs |-> {}]

DevTargets == {Absent} \cup {Target(ms) : ms \in SUBSET Macs}
Record == [st : {"none", "synced", "failed", "drift"}, macs : SUBSET Macs]
Statuses == {"active", "storage", "decommissioned", "quarantined", "deleted"}

Pcs == {"idle", "q_next", "q_post", "q_macs", "q_verify", "q_rollback", "r_next", "v_next",
        "s_update", "s_sight", "s_auto", "put", "delete"}
Handler == [pc : Pcs, g : Fgts \cup {None}, todo : SUBSET Fgts, status : Statuses,
            before : Statuses \cup {None}, macs : SUBSET Macs, list : [Fgts -> Record],
            isNew : BOOLEAN, add : SUBSET Macs, del : SUBSET Macs, drift : BOOLEAN]

Idle == [pc |-> "idle", g |-> None, todo |-> {}, status |-> "deleted", before |-> None,
         macs |-> {}, list |-> NoTargets, isNew |-> FALSE, add |-> {}, del |-> {},
         drift |-> FALSE]

TypeOK ==
  /\ mix \in Mixes
  /\ status \in Statuses
  /\ before \in Statuses \cup {None}
  /\ targets \in [Fgts -> Record]
  /\ macs \subseteq Macs
  /\ sighted \subseteq Fgts
  /\ intg \in [Fgts -> {"on", "off", "gone"}]
  /\ dev \in [Fgts -> DevTargets]
  /\ h \in [Slots -> Handler]
  /\ faults \in 0..MaxFaults
  /\ told \subseteq Fgts /\ touched \subseteq Fgts

\* An asset with some recent sightings, never quarantined.
Init ==
  /\ mix \in Mixes
  /\ status = "active" /\ before = None /\ targets = NoTargets
  /\ macs \in SUBSET Macs \ {{}}
  /\ sighted \in SUBSET Fgts
  /\ intg = [g \in Fgts |-> "on"]
  /\ dev = [g \in Fgts |-> Absent]
  /\ h = [w \in Slots |-> Idle]
  /\ faults = 0 /\ told = {} /\ touched = {}

-----------------------------------------------------------------------------
Exists == status # "deleted"
Become(w, hw) == h' = [h EXCEPT ![w] = hw]
Finish(w) == Become(w, Idle)
Begin(w, op) == op \in mix /\ h[w].pc = "idle" /\ Exists

\* A call that fails, or answers without doing anything.
Fault(kind) == kind \in mix /\ faults < MaxFaults /\ faults' = faults + 1
Calm == UNCHANGED faults

Read(pc, todo) == [Idle EXCEPT !.pc = pc, !.todo = todo, !.status = status,
                               !.before = before, !.macs = macs]

\* Only what is known to be there.
Mut_Recorded == {g \in Fgts : targets[g].st = "synced"}

\* Targets release and verify go through: every record, whatever its status.
Recorded == {g \in Fgts : targets[g].st # "none"}

\* verifyQuarantineOnFortigate: the target exists and has every MAC.
Present(g, ms) == dev[g].held /\ ms \subseteq dev[g].macs

-----------------------------------------------------------------------------
(* quarantineAsset.                                                        *)

\* getQuarantineCandidates and the token filter; FortiGates whose integration
\* is disabled, deleted or does not push are skipped.
Candidates(scope) == {g \in sighted \cap scope : intg[g] = "on"}

\* Refused without a MAC; without a candidate nothing is ever written.
Quarantinable(scope) == macs # {} /\ Candidates(scope) # {}
QuarantineRead(scope) == Read("q_next", Candidates(scope))

QuarantineBegin(w, scope) ==
  /\ Begin(w, "quarantine") /\ Quarantinable(scope)
  /\ Become(w, QuarantineRead(scope))
  /\ UNCHANGED <<row, env, dev, faults, ghosts>>

\* The push to one FortiGate threw: rolled back if it made the target.
PushFails(w) ==
  /\ Become(w, [h[w] EXCEPT !.list[h[w].g] = Failed,
                            !.pc = IF h[w].isNew THEN "q_rollback" ELSE "q_next"])
  /\ told' = told \cup {h[w].g} /\ UNCHANGED touched

\* pushQuarantineToFortigate: transport and getTarget.
PushGet(w, g) ==
  /\ h[w].pc = "q_next" /\ g \in h[w].todo
  /\ LET rest == [h[w] EXCEPT !.g = g, !.todo = @ \ {g}, !.isNew = FALSE] IN
     \/ /\ Become(w, [rest EXCEPT !.pc = IF dev[g].held THEN "q_macs" ELSE "q_post",
                                  !.isNew = ~dev[g].held,
                                  !.add = h[w].macs \ dev[g].macs,
                                  !.del = dev[g].macs \ h[w].macs])
        /\ Calm /\ UNCHANGED ghosts
     \/ /\ Fault("lose")
        /\ Become(w, [rest EXCEPT !.list[g] = Failed])
        /\ told' = told \cup {g} /\ UNCHANGED touched
  /\ UNCHANGED <<row, env, dev>>

\* One write to the device: done (when it can be), refused, lost or ignored.
DeviceWrite(w, can, after, hw) ==
  \/ /\ can /\ dev' = [dev EXCEPT ![h[w].g] = after]
     /\ Become(w, hw) /\ Calm /\ UNCHANGED ghosts
  \/ /\ ~can /\ PushFails(w) /\ Calm /\ UNCHANGED dev
  \/ /\ can /\ Fault("lose") /\ PushFails(w)
     /\ dev' \in {dev, [dev EXCEPT ![h[w].g] = after]}
  \/ /\ can /\ Fault("ignore") /\ Become(w, hw) /\ UNCHANGED <<dev, ghosts>>

PushPost(w) ==
  /\ h[w].pc = "q_post"
  /\ DeviceWrite(w, ~dev[h[w].g].held, Target(h[w].macs), [h[w] EXCEPT !.pc = "q_verify"])
  /\ UNCHANGED <<row, env>>

\* Reconcile an existing target: add the missing MACs, then remove stale ones.
PushMacs(w) ==
  LET t == dev[h[w].g] IN
  /\ h[w].pc = "q_macs"
  /\ \/ \E m \in h[w].add :
          DeviceWrite(w, t.held /\ m \notin t.macs, Target(t.macs \cup {m}),
                      [h[w] EXCEPT !.add = @ \ {m}])
     \/ \E m \in h[w].del :
          /\ h[w].add = {}
          /\ DeviceWrite(w, t.held /\ m \in t.macs, Target(t.macs \ {m}),
                         [h[w] EXCEPT !.del = @ \ {m}])
     \/ /\ h[w].add = {} /\ h[w].del = {}
        /\ Become(w, [h[w] EXCEPT !.pc = "q_verify"])
        /\ Calm /\ UNCHANGED <<dev, ghosts>>
  /\ UNCHANGED <<row, env>>

\* The read-back; what the record then says was verified.
Verified(w) ==
  /\ Become(w, [h[w] EXCEPT !.list[h[w].g] = [st |-> "synced", macs |-> h[w].macs],
                            !.pc = "q_next"])
  /\ told' = told \ {h[w].g} /\ touched' = touched \ {h[w].g}

\* The write was answered, so it is taken for done.
Mut_PushVerify(w) ==
  /\ h[w].pc = "q_verify" /\ Verified(w) /\ Calm
  /\ UNCHANGED <<row, env, dev>>

PushVerify(w) ==
  /\ h[w].pc = "q_verify"
  /\ \/ Present(h[w].g, h[w].macs) /\ Verified(w) /\ Calm
     \/ ~Present(h[w].g, h[w].macs) /\ PushFails(w) /\ Calm
     \/ Fault("lose") /\ PushFails(w)
  /\ UNCHANGED <<row, env, dev>>

\* deleteTarget in the catch block; a failed rollback is swallowed.
PushRollback(w) ==
  LET gone == [dev EXCEPT ![h[w].g] = Absent] IN
  /\ h[w].pc = "q_rollback"
  /\ Become(w, [h[w] EXCEPT !.pc = "q_next"])
  /\ \/ dev' = gone /\ Calm
     \/ Fault("lose") /\ dev' \in {dev, gone}
  /\ UNCHANGED <<row, env, ghosts>>

\* The final update, from the row read at the start; none if nothing landed.
QuarantineCommit(w) ==
  /\ h[w].pc = "q_next" /\ h[w].todo = {}
  /\ IF Exists /\ \E g \in Fgts : h[w].list[g].st = "synced"
       THEN /\ status' = "quarantined"
            /\ before' = IF h[w].status = "quarantined" THEN h[w].before ELSE h[w].status
            /\ targets' = h[w].list
       ELSE UNCHANGED row
  /\ Finish(w)
  /\ UNCHANGED <<env, dev, faults, ghosts>>

-----------------------------------------------------------------------------
(* releaseQuarantine.                                                      *)

ReleaseBegin(w, scope) ==
  /\ Begin(w, "release") /\ status = "quarantined" /\ Recorded \subseteq scope
  /\ Become(w, Read("r_next", Recorded))
  /\ UNCHANGED <<row, env, dev, faults, ghosts>>

\* deleteTarget: a target that is already absent counts as removed.
ReleaseUnpush(w, g) ==
  LET gone == [dev EXCEPT ![g] = Absent] IN
  /\ h[w].pc = "r_next" /\ g \in h[w].todo
  /\ Become(w, [h[w] EXCEPT !.todo = @ \ {g}])
  /\ \/ intg[g] = "gone" /\ told' = told \cup {g} /\ Calm /\ UNCHANGED dev
     \/ intg[g] # "gone" /\ dev' = gone /\ told' = told \ {g} /\ Calm
     \/ /\ intg[g] # "gone" /\ Fault("lose")
        /\ dev' \in {dev, gone} /\ told' = told \cup {g}
  /\ UNCHANGED <<row, env, touched>>

ReleaseCommit(w) ==
  /\ h[w].pc = "r_next" /\ h[w].todo = {}
  /\ IF Exists
       THEN /\ status' = IF h[w].before = None THEN "active" ELSE h[w].before
            /\ before' = None /\ targets' = NoTargets
       ELSE UNCHANGED row
  /\ Finish(w)
  /\ UNCHANGED <<env, dev, faults, ghosts>>

-----------------------------------------------------------------------------
(* verifyAssetQuarantine and the callers' write of its result.             *)

VerifyRead == [Read("v_next", {g \in Recorded : intg[g] # "gone"}) EXCEPT !.list = targets]

VerifyBegin(w, scope) ==
  /\ Begin(w, "verify") /\ Recorded \subseteq scope
  /\ Become(w, VerifyRead)
  /\ UNCHANGED <<row, env, dev, faults, ghosts>>

VerifyGet(w, g) ==
  LET lost == h[w].list[g].st = "synced" /\ ~Present(g, h[w].macs)
      rest == [h[w] EXCEPT !.todo = @ \ {g}]
  IN
  /\ h[w].pc = "v_next" /\ g \in h[w].todo
  /\ \/ Calm /\ Become(w, IF lost THEN [rest EXCEPT !.list[g].st = "drift", !.drift = TRUE]
                                  ELSE rest)
     \/ Fault("lose") /\ Become(w, rest)
  /\ UNCHANGED <<row, env, dev, ghosts>>

VerifyCommit(w) ==
  /\ h[w].pc = "v_next" /\ h[w].todo = {}
  /\ targets' = IF h[w].drift /\ Exists THEN h[w].list ELSE targets
  /\ Finish(w)
  /\ UNCHANGED <<status, before, env, dev, faults, ghosts>>

-----------------------------------------------------------------------------
(* Phase 6 of a discovery sync: a DHCP lease of MAC m at FortiGate g.      *)

SyncBegin(w, g, m) ==
  /\ Begin(w, "sync") /\ intg[g] # "gone"
  /\ Become(w, [Read("s_update", {}) EXCEPT !.g = g, !.macs = macs \cup {m}])
  /\ UNCHANGED <<row, env, dev, faults, ghosts>>

\* The batched update: status "active" and the MAC list of the snapshot.  A
\* rejected update is logged and the sync goes on.
SyncUpdate(w) ==
  /\ h[w].pc = "s_update"
  /\ Become(w, [h[w] EXCEPT !.pc = "s_sight"])
  /\ \/ Exists /\ Calm /\ status' = "active" /\ macs' = h[w].macs
     \/ ~Exists /\ Calm /\ UNCHANGED <<status, macs>>
     \/ Fault("lose") /\ UNCHANGED <<status, macs>>
  /\ UNCHANGED <<before, targets, sighted, intg, dev, ghosts>>

\* recordSightings.
SyncSight(w) ==
  /\ h[w].pc = "s_sight"
  /\ Become(w, [h[w] EXCEPT !.pc = "s_auto"])
  /\ sighted' = IF Exists THEN sighted \cup {h[w].g} ELSE sighted
  /\ UNCHANGED <<row, macs, intg, dev, faults, ghosts>>

\* The auto-quarantine pass: extend, or verify what is already covered.
SyncAuto(w) ==
  LET covered == targets[h[w].g].st = "synced" IN
  /\ h[w].pc = "s_auto"
  /\ \/ status = "quarantined" /\ ~covered /\ Quarantinable(Fgts)
          /\ Become(w, QuarantineRead(Fgts))
     \/ status = "quarantined" /\ covered /\ Become(w, VerifyRead)
     \/ (status # "quarantined" \/ (~covered /\ ~Quarantinable(Fgts))) /\ Finish(w)
  /\ UNCHANGED <<row, env, dev, faults, ghosts>>

-----------------------------------------------------------------------------
(* Other writers of the asset.                                             *)

\* PUT /assets/:id may not enter or leave "quarantined".
PutBegin(w) ==
  /\ Begin(w, "put") /\ status # "quarantined"
  /\ Become(w, Read("put", {}))
  /\ UNCHANGED <<row, env, dev, faults, ghosts>>

PutWrite(w) ==
  /\ h[w].pc = "put" /\ Finish(w)
  /\ status' = IF Exists THEN "storage" ELSE status
  /\ UNCHANGED <<before, targets, env, dev, faults, ghosts>>

\* DELETE /assets/:id refuses a quarantined asset.
DeleteBegin(w) ==
  /\ Begin(w, "delete") /\ status # "quarantined"
  /\ Become(w, Read("delete", {}))
  /\ UNCHANGED <<row, env, dev, faults, ghosts>>

DeleteWrite(w) ==
  /\ h[w].pc = "delete" /\ Finish(w)
  /\ status' = "deleted" /\ before' = None /\ targets' = NoTargets
  /\ macs' = {} /\ sighted' = {}
  /\ UNCHANGED <<intg, dev, faults, ghosts>>

\* DELETE /assets/:id/macs/:mac.
RemoveMac(m) ==
  /\ "unmac" \in mix /\ m \in macs
  /\ macs' = macs \ {m}
  /\ UNCHANGED <<row, sighted, intg, dev, h, faults, ghosts>>

\* decommissionStaleAssets: any status but decommissioned and disabled.
Decommission ==
  /\ "decommission" \in mix /\ Exists /\ status # "decommissioned"
  /\ status' = "decommissioned"
  /\ UNCHANGED <<before, targets, env, dev, h, faults, ghosts>>

\* A sighting grows older than sightingMaxAgeDays.
Age(g) ==
  /\ "age" \in mix /\ g \in sighted
  /\ sighted' = sighted \ {g}
  /\ UNCHANGED <<row, macs, intg, dev, h, faults, ghosts>>

\* An integration, or its pushQuarantine, is switched, or it is deleted.
Toggle(g, to) ==
  /\ "toggle" \in mix /\ intg[g] \notin {to, "gone"}
  /\ intg' = [intg EXCEPT ![g] = to]
  /\ UNCHANGED <<row, macs, sighted, dev, h, faults, ghosts>>

\* A FortiGate administrator edits or removes the target.
AdminEdit(g, t) ==
  /\ Fault("admin") /\ dev[g].held /\ t # dev[g]
  /\ dev' = [dev EXCEPT ![g] = t]
  /\ touched' = touched \cup {g}
  /\ UNCHANGED <<row, env, h, told>>

-----------------------------------------------------------------------------
Continue(w) ==
  \/ \E g \in Fgts : PushGet(w, g) \/ ReleaseUnpush(w, g) \/ VerifyGet(w, g)
  \/ PushPost(w) \/ PushMacs(w) \/ PushVerify(w) \/ PushRollback(w) \/ QuarantineCommit(w)
  \/ ReleaseCommit(w) \/ VerifyCommit(w)
  \/ SyncUpdate(w) \/ SyncSight(w) \/ SyncAuto(w)
  \/ PutWrite(w) \/ DeleteWrite(w)

\* A session may go everywhere, an API token where its integrations are.
Scopes == IF "token" \in mix THEN SUBSET Fgts ELSE {Fgts}

Start(w) ==
  \/ \E scope \in Scopes :
       QuarantineBegin(w, scope) \/ ReleaseBegin(w, scope) \/ VerifyBegin(w, scope)
  \/ \E g \in Fgts, m \in Macs : SyncBegin(w, g, m)
  \/ PutBegin(w) \/ DeleteBegin(w)

Environment ==
  \/ \E m \in Macs : RemoveMac(m)
  \/ Decommission
  \/ \E g \in Fgts : Age(g) \/ \E to \in {"on", "off", "gone"} : Toggle(g, to)
  \/ \E g \in Fgts, t \in DevTargets : AdminEdit(g, t)

Step == (\E w \in Slots : Start(w) \/ Continue(w)) \/ Environment
Next == Step /\ UNCHANGED mix
Spec == Init /\ [][Next]_vars

\* The event loop resumes every handler.
FairSpec == Spec /\ \A w \in Slots : WF_vars(Continue(w) /\ UNCHANGED mix)

-----------------------------------------------------------------------------
(* Properties.                                                             *)

Quiescent == \A w \in Slots : h[w].pc = "idle"

\* At rest, a FortiGate recorded as synced really blocks every MAC that was
\* pushed to it, unless a later push to it was reported as failed or somebody
\* edited the target there: whether the target was created or reconciled,
\* whatever calls were silently ignored on the way, and whatever became of the
\* asset and its MACs since.
SyncedHeld ==
  Quiescent => \A g \in Fgts \ (told \cup touched) :
    targets[g].st = "synced" => Present(g, targets[g].macs)

\* No candidate can drop out between two quarantines, and nothing but the
\* quarantine endpoints writes the status.
Steady == mix \cap {"token", "sync", "decommission", "age", "toggle"} = {}

\* At rest, a FortiGate that holds the asset's target is one the asset is
\* quarantined on and has on record, so that a release will go there, or one
\* for which a failed call was reported: Polaris's view and what the
\* FortiGates enforce do not drift apart unnoticed.
Accounted ==
  Steady /\ Quiescent => \A g \in Fgts : dev[g].held =>
    (status = "quarantined" /\ g \in Recorded) \/ g \in told

\* "Auto-quarantine re-fires when a quarantined device shows up on a new
\* FortiGate": once a sync has found a lease of a quarantined asset at a
\* FortiGate, a push to that FortiGate is attempted.
AutoExtends ==
  \A w \in Slots, g \in Fgts :
    (h[w].pc = "s_update" /\ h[w].g = g /\ status = "quarantined")
      ~> (targets[g].st # "none")

-----------------------------------------------------------------------------
(* The inductive invariant behind SyncedHeld and Accounted, for requests   *)
(* that do not overlap (one slot).                                         *)

Pushing == {"q_next", "q_post", "q_macs", "q_verify", "q_rollback"}

\* A handler that goes on with a FortiGate knows which one.
Located ==
  \A w \in Slots :
    h[w].pc \in {"q_post", "q_macs", "q_verify", "q_rollback", "s_update", "s_sight", "s_auto"}
      => h[w].g \in Fgts

\* An asset that is gone has no targets.
GoneBare == status = "deleted" => targets = NoTargets

\* What a list of targets says about FortiGate g is so.
Holds(list, g) ==
  list[g].st = "synced" /\ g \notin told \cup touched => Present(g, list[g].macs)

\* The FortiGate a quarantine is pushing to.
Current(w, g) == h[w].pc # "q_next" /\ h[w].g = g

\* A quarantine under way: the FortiGates it has done are on its list as they
\* are, those it failed at were reported, the others are as they were.
PushState(w) ==
  /\ h[w].pc # "q_next" => h[w].list[h[w].g].st # "synced"
  /\ h[w].pc = "q_rollback" => h[w].list[h[w].g].st = "failed"
  /\ \A g \in h[w].todo : h[w].list[g].st = "none" /\ ~Current(w, g)
  /\ \A g \in Fgts : /\ Holds(h[w].list, g)
                     /\ h[w].list[g].st = "failed" => g \in told
                     /\ h[w].list[g].st \in {"none", "synced", "failed"}
                     /\ h[w].list[g].st = "none" /\ ~Current(w, g) => Holds(targets, g)

HandlerState(w) ==
  /\ h[w].pc \in Pushing => PushState(w)
  /\ h[w].pc \notin Pushing \cup {"r_next"} => \A g \in Fgts : Holds(targets, g)
  /\ h[w].pc = "v_next" => \A g \in Fgts : h[w].list[g].st = "synced" => h[w].list[g] = targets[g]

HeldInv == TypeOK /\ Located /\ GoneBare /\ \A w \in Slots : HandlerState(w)

\* Nothing but the FortiGates that see the asset holds its target unreported.
SteadyState ==
  /\ intg = [g \in Fgts |-> "on"]
  /\ \A g \in Recorded : g \in sighted

SteadyHandler(w) ==
  /\ h[w].pc \notin {"s_update", "s_sight", "s_auto"}
  /\ h[w].pc \in Pushing =>
       /\ Exists
       /\ \A g \in Fgts : dev[g].held => g \in told \cup sighted
       /\ \A g \in sighted : h[w].list[g].st # "none" \/ g \in h[w].todo \/ Current(w, g)
       /\ \A g \in Fgts : h[w].list[g].st # "none" => g \in sighted
       /\ h[w].todo \subseteq sighted /\ (h[w].pc # "q_next" => h[w].g \in sighted)
  /\ h[w].pc = "r_next" =>
       \A g \in Fgts : dev[g].held => g \in told \/ g \in h[w].todo
  /\ h[w].pc \in {"put", "delete"} => \A g \in Fgts : dev[g].held => g \in told
  /\ h[w].pc = "v_next" => \A g \in Fgts : (h[w].list[g].st = "none") <=> (targets[g].st = "none")
  /\ h[w].pc \in {"idle", "v_next"} =>
       \A g \in Fgts : dev[g].held => (status = "quarantined" /\ g \in Recorded) \/ g \in told

SteadyInv == Steady => SteadyState /\ \A w \in Slots : SteadyHandler(w)

=============================================================================
