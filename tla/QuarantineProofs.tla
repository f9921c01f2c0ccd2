-------------------------- MODULE QuarantineProofs --------------------------
(***************************************************************************)
(* Proofs about the MAC quarantine of an asset, for any FortiGates, any    *)
(* MACs, any load and any number of faults.  Type correctness holds for    *)
(* any number of requests at the same time; SyncedHeld and Accounted hold  *)
(* when the requests on one asset do not overlap (they fail with two       *)
(* slots: see the hazard at pushQuarantineToFortigate's rollback).         *)
(***************************************************************************)
EXTENDS Quarantine, TLAPS

-----------------------------------------------------------------------------
(* Type correctness.                                                       *)

\* What a handler holds when it starts.
LEMMA ReadTyped ==
  ASSUME TypeOK, NEW pc \in Pcs, NEW todo \in SUBSET Fgts
  PROVE  /\ Read(pc, todo) \in Handler /\ Idle \in Handler
         /\ Read(pc, todo).pc = pc /\ Read(pc, todo).todo = todo
         /\ Read(pc, todo).list = NoTargets /\ Read(pc, todo).macs = macs
         /\ Read(pc, todo).status = status /\ Read(pc, todo).before = before
         /\ Idle.pc = "idle"
<1>1. NoTargets \in [Fgts -> Record]
  BY DEF NoTargets, NoRecord, Record
<1>2. "deleted" \in Statuses /\ "idle" \in Pcs
  BY DEF Statuses, Pcs
<1>3. Idle \in Handler /\ Idle.pc = "idle"
  BY <1>1, <1>2 DEF Idle, Handler
<1> QED
  BY <1>1, <1>2, <1>3 DEF Read, Idle, Handler, TypeOK

\* A handler's next state is the one it becomes, the others wait.
LEMMA BecomeTyped ==
  ASSUME TypeOK, NEW w \in Slots, NEW hw \in Handler, Become(w, hw)
  PROVE  /\ h' \in [Slots -> Handler] /\ h'[w] = hw
         /\ \A v \in Slots \ {w} : h'[v] = h[v]
BY DEF TypeOK, Become

\* What a FortiGate has of the asset.
LEMMA DevFields ==
  ASSUME TypeOK, NEW g \in Fgts
  PROVE  dev[g] \in DevTargets /\ dev[g].held \in BOOLEAN /\ dev[g].macs \subseteq Macs
<1>1. dev[g] \in DevTargets
  BY DEF TypeOK
<1>2. ASSUME NEW ms \in SUBSET Macs, dev[g] = Target(ms)
      PROVE  dev[g].held \in BOOLEAN /\ dev[g].macs \subseteq Macs
  BY <1>2 DEF Target
<1>3. CASE dev[g] = Absent
  BY <1>1, <1>3 DEF Absent
<1> QED
  BY <1>1, <1>2, <1>3 DEF DevTargets

\* The fields of a handler.
LEMMA HandlerFields ==
  ASSUME TypeOK, NEW w \in Slots
  PROVE  /\ h[w] \in Handler /\ h[w].pc \in Pcs /\ h[w].g \in Fgts \cup {None}
         /\ h[w].todo \subseteq Fgts /\ h[w].status \in Statuses
         /\ h[w].before \in Statuses \cup {None} /\ h[w].macs \subseteq Macs
         /\ h[w].list \in [Fgts -> Record] /\ h[w].isNew \in BOOLEAN
         /\ h[w].add \subseteq Macs /\ h[w].del \subseteq Macs /\ h[w].drift \in BOOLEAN
BY DEF TypeOK, Handler

\* The state a failed push leaves the handler in.
LEMMA FailedTyped ==
  ASSUME TypeOK, NEW w \in Slots, h[w].g \in Fgts, PushFails(w)
  PROVE  /\ h' \in [Slots -> Handler]
         /\ h'[w] = [h[w] EXCEPT !.list = [h[w].list EXCEPT ![h[w].g] = Failed],
                                 !.pc = IF h[w].isNew THEN "q_rollback" ELSE "q_next"]
         /\ \A v \in Slots \ {w} : h'[v] = h[v]
         /\ told' = told \cup {h[w].g} /\ touched' = touched
         /\ h'[w].g = h[w].g
<1> DEFINE hw == [h[w] EXCEPT !.list = [h[w].list EXCEPT ![h[w].g] = Failed],
                              !.pc = IF h[w].isNew THEN "q_rollback" ELSE "q_next"]
<1>1. /\ Failed \in Record /\ "q_rollback" \in Pcs /\ "q_next" \in Pcs
  BY DEF Failed, Record, Pcs
<1>2. [h[w].list EXCEPT ![h[w].g] = Failed] \in [Fgts -> Record]
  BY <1>1, HandlerFields
<1>3. hw \in Handler /\ hw.g = h[w].g
  BY <1>1, <1>2, HandlerFields DEF Handler
<1>4. Become(w, hw)
  BY DEF PushFails
<1> QED
  BY <1>3, <1>4, BecomeTyped DEF PushFails

\* What the database row, the devices and the counters need to be typed.
LEMMA FaultTyped ==
  ASSUME TypeOK, NEW kind, Fault(kind) \/ Calm
  PROVE  faults' \in 0..MaxFaults
BY FaultsAssumption DEF TypeOK, Fault, Calm

\* A device write, whatever becomes of it, keeps the types.
LEMMA DeviceWriteTyped ==
  ASSUME TypeOK, Located, NEW w \in Slots, h[w].g \in Fgts,
         NEW can, NEW after \in DevTargets, NEW hw \in Handler, hw.g = h[w].g,
         DeviceWrite(w, can, after, hw), UNCHANGED <<mix, row, env>>
  PROVE  TypeOK' /\ Located'
<1>1. dev' \in [Fgts -> DevTargets]
  BY DEF DeviceWrite, TypeOK
<1>2. faults' \in 0..MaxFaults
  BY FaultTyped DEF DeviceWrite
<1>3. /\ h' \in [Slots -> Handler] /\ h'[w].g = h[w].g
      /\ \A v \in Slots \ {w} : h'[v] = h[v]
      /\ told' \subseteq Fgts /\ touched' \subseteq Fgts
  <2>1. CASE Become(w, hw) /\ UNCHANGED ghosts
    BY <2>1, BecomeTyped DEF ghosts, TypeOK
  <2>2. CASE PushFails(w)
    BY <2>2, FailedTyped DEF TypeOK
  <2> QED
    BY <2>1, <2>2 DEF DeviceWrite, ghosts
<1>4. TypeOK'
  BY <1>1, <1>2, <1>3 DEF TypeOK, row, env
<1>5. Located'
  BY <1>3 DEF Located
<1> QED
  BY <1>4, <1>5

\* A step that only lets a handler become something typed keeps the types.
LEMMA PassTyped ==
  ASSUME TypeOK, Located, NEW w \in Slots, NEW hw \in Handler, Become(w, hw),
         hw.g = h[w].g \/ hw.g \in Fgts \/ hw.pc \in {"idle", "q_next", "r_next", "v_next", "put", "delete"},
         h[w].g \in Fgts \/ hw.g \in Fgts \/ hw.pc \in {"idle", "q_next", "r_next", "v_next", "put", "delete"}
  PROVE  h' \in [Slots -> Handler] /\ Located'
<1>1. /\ h' \in [Slots -> Handler] /\ h'[w] = hw
      /\ \A v \in Slots \ {w} : h'[v] = h[v]
  BY BecomeTyped
<1> QED
  BY <1>1 DEF Located

\* quarantineAsset's steps keep the types.
LEMMA QuarantineTyped ==
  ASSUME TypeOK, Located, NEW w \in Slots, UNCHANGED mix,
         \/ \E scope \in Scopes : QuarantineBegin(w, scope)
         \/ \E g \in Fgts : PushGet(w, g)
         \/ PushPost(w) \/ PushMacs(w) \/ PushVerify(w) \/ PushRollback(w) \/ QuarantineCommit(w)
  PROVE  TypeOK' /\ Located'
<1> USE HandlerFields
<1>0. h[w].pc \in {"q_post", "q_macs", "q_verify", "q_rollback"} => h[w].g \in Fgts
  BY DEF Located
<1>1. ASSUME NEW scope, QuarantineBegin(w, scope) PROVE TypeOK' /\ Located'
  <2>1. Candidates(scope) \in SUBSET Fgts /\ "q_next" \in Pcs
    BY DEF Candidates, TypeOK, Pcs
  <2>2. QuarantineRead(scope) \in Handler /\ QuarantineRead(scope).pc = "q_next"
    BY <2>1, ReadTyped DEF QuarantineRead
  <2>3. h' \in [Slots -> Handler] /\ Located'
    BY <1>1, <2>2, PassTyped DEF QuarantineBegin
  <2> QED
    BY <1>1, <2>3 DEF QuarantineBegin, TypeOK, row, env, ghosts
<1>2. ASSUME NEW g \in Fgts, PushGet(w, g) PROVE TypeOK' /\ Located'
  <2> DEFINE rest == [h[w] EXCEPT !.g = g, !.todo = @ \ {g}, !.isNew = FALSE]
             ok == [rest EXCEPT !.pc = IF dev[g].held THEN "q_macs" ELSE "q_post",
                                !.isNew = ~dev[g].held,
                                !.add = h[w].macs \ dev[g].macs,
                                !.del = dev[g].macs \ h[w].macs]
             bad == [rest EXCEPT !.list[g] = Failed]
  <2>1. dev[g].held \in BOOLEAN /\ dev[g].macs \subseteq Macs
    BY DevFields
  <2>2. rest \in Handler /\ rest.g = g /\ rest.list = h[w].list
    BY DEF Handler
  <2>3. ok \in Handler /\ ok.g = g
    <3> HIDE DEF rest
    <3> QED
      BY <2>1, <2>2 DEF Handler, Pcs
  <2>4. bad \in Handler /\ bad.g = g
    <3>1. Failed \in Record
      BY DEF Failed, Record
    <3>2. [rest.list EXCEPT ![g] = Failed] \in [Fgts -> Record]
      BY <2>2, <3>1
    <3> HIDE DEF rest
    <3> QED
      BY <2>2, <3>2 DEF Handler
  <2>5. CASE Become(w, ok) /\ Calm /\ UNCHANGED ghosts
    <3>1. h' \in [Slots -> Handler] /\ Located'
      BY <2>3, <2>5, PassTyped
    <3> QED
      BY <1>2, <2>5, <3>1 DEF PushGet, Calm, TypeOK, row, env, ghosts
  <2>6. CASE Fault("lose") /\ Become(w, bad) /\ told' = told \cup {g} /\ UNCHANGED touched
    <3>1. h' \in [Slots -> Handler] /\ Located'
      BY <2>4, <2>6, PassTyped
    <3>2. faults' \in 0..MaxFaults
      BY <2>6, FaultTyped
    <3> QED
      BY <1>2, <2>6, <3>1, <3>2 DEF PushGet, TypeOK, row, env, ghosts
  <2> QED
    BY <1>2, <2>5, <2>6 DEF PushGet
<1>3. CASE PushPost(w)
  <2> DEFINE hw == [h[w] EXCEPT !.pc = "q_verify"]
  <2>1. h[w].g \in Fgts /\ UNCHANGED <<row, env>>
    BY <1>0, <1>3 DEF PushPost
  <2>2. hw \in Handler /\ hw.g = h[w].g /\ Target(h[w].macs) \in DevTargets
    BY DEF Handler, Pcs, DevTargets
  <2>3. DeviceWrite(w, ~dev[h[w].g].held, Target(h[w].macs), hw)
    BY <1>3 DEF PushPost
  <2> QED
    BY <2>1, <2>2, <2>3, DeviceWriteTyped
<1>4. CASE PushMacs(w)
  <2> DEFINE t == dev[h[w].g]
  <2>1. h[w].g \in Fgts /\ UNCHANGED <<row, env>>
    BY <1>0, <1>4 DEF PushMacs
  <2>2. t.macs \subseteq Macs
    BY <2>1, DevFields
  <2>3. ASSUME NEW m \in h[w].add,
               DeviceWrite(w, t.held /\ m \notin t.macs, Target(t.macs \cup {m}),
                           [h[w] EXCEPT !.add = @ \ {m}])
        PROVE  TypeOK' /\ Located'
    <3>1. /\ [h[w] EXCEPT !.add = @ \ {m}] \in Handler
          /\ [h[w] EXCEPT !.add = @ \ {m}].g = h[w].g
      BY DEF Handler
    <3>2. Target(t.macs \cup {m}) \in DevTargets
      BY <2>2 DEF DevTargets
    <3> QED
      BY <2>1, <2>3, <3>1, <3>2, DeviceWriteTyped
  <2>4. ASSUME NEW m \in h[w].del,
               DeviceWrite(w, t.held /\ m \in t.macs, Target(t.macs \ {m}),
                           [h[w] EXCEPT !.del = @ \ {m}])
        PROVE  TypeOK' /\ Located'
    <3>1. /\ [h[w] EXCEPT !.del = @ \ {m}] \in Handler
          /\ [h[w] EXCEPT !.del = @ \ {m}].g = h[w].g
      BY DEF Handler
    <3>2. Target(t.macs \ {m}) \in DevTargets
      BY <2>2 DEF DevTargets
    <3> QED
      BY <2>1, <2>4, <3>1, <3>2, DeviceWriteTyped
  <2>5. CASE Become(w, [h[w] EXCEPT !.pc = "q_verify"]) /\ Calm /\ UNCHANGED <<dev, ghosts>>
    <3>1. [h[w] EXCEPT !.pc = "q_verify"] \in Handler
      BY DEF Handler, Pcs
    <3>2. [h[w] EXCEPT !.pc = "q_verify"].g = h[w].g
      BY DEF Handler
    <3>3. h' \in [Slots -> Handler] /\ Located'
      BY <2>1, <2>5, <3>1, <3>2, PassTyped
    <3> QED
      BY <2>1, <2>5, <3>3 DEF Calm, TypeOK, row, env, ghosts
  <2> QED
    BY <1>4, <2>3, <2>4, <2>5 DEF PushMacs
<1>5. CASE PushVerify(w)
  <2>1. h[w].g \in Fgts /\ UNCHANGED <<row, env, dev>>
    BY <1>0, <1>5 DEF PushVerify
  <2>2. faults' \in 0..MaxFaults
    BY <1>5, FaultTyped DEF PushVerify
  <2>3. CASE Verified(w)
    <3> DEFINE done == [st |-> "synced", macs |-> h[w].macs]
               hw == [h[w] EXCEPT !.list[h[w].g] = done, !.pc = "q_next"]
    <3>1. [h[w].list EXCEPT ![h[w].g] = done] \in [Fgts -> Record]
      BY DEF Record
    <3>2. hw \in Handler /\ hw.g = h[w].g
      BY <3>1 DEF Handler, Pcs
    <3>3. Become(w, hw)
      BY <2>3 DEF Verified
    <3>4. h' \in [Slots -> Handler] /\ Located'
      BY <2>1, <3>2, <3>3, PassTyped
    <3>5. told' \subseteq Fgts /\ touched' \subseteq Fgts
      BY <2>3 DEF Verified, TypeOK
    <3> QED
      BY <2>1, <2>2, <3>4, <3>5 DEF TypeOK, row, env
  <2>4. CASE PushFails(w)
    <3>1. h' \in [Slots -> Handler] /\ Located'
      BY <2>1, <2>4, FailedTyped DEF Located
    <3>2. told' = told \cup {h[w].g} /\ touched' = touched
      BY <2>4 DEF PushFails
    <3> QED
      BY <2>1, <2>2, <3>1, <3>2 DEF TypeOK, row, env
  <2> QED
    BY <1>5, <2>3, <2>4 DEF PushVerify
<1>6. CASE PushRollback(w)
  <2>1. [h[w] EXCEPT !.pc = "q_next"] \in Handler
    BY DEF Handler, Pcs
  <2>2. [h[w] EXCEPT !.pc = "q_next"].pc = "q_next"
    BY DEF Handler
  <2>3. h' \in [Slots -> Handler] /\ Located'
    BY <1>6, <2>1, <2>2, PassTyped DEF PushRollback
  <2>4. dev' \in [Fgts -> DevTargets]
    BY <1>6 DEF PushRollback, TypeOK, DevTargets
  <2>5. faults' \in 0..MaxFaults
    BY <1>6, FaultTyped DEF PushRollback
  <2> QED
    BY <1>6, <2>3, <2>4, <2>5 DEF PushRollback, TypeOK, row, env, ghosts
<1>7. CASE QuarantineCommit(w)
  <2>1. Idle \in Handler /\ Idle.pc = "idle"
    BY ReadTyped DEF Pcs
  <2>2. h' \in [Slots -> Handler] /\ Located'
    BY <1>7, <2>1, PassTyped DEF QuarantineCommit, Finish
  <2>3. /\ status' \in Statuses /\ before' \in Statuses \cup {None}
        /\ targets' \in [Fgts -> Record]
    BY <1>7 DEF QuarantineCommit, TypeOK, Statuses, row
  <2> QED
    BY <1>7, <2>2, <2>3 DEF QuarantineCommit, TypeOK, env, ghosts
<1> QED
  BY <1>1, <1>2, <1>3, <1>4, <1>5, <1>6, <1>7

\* releaseQuarantine's steps keep the types.
LEMMA ReleaseTyped ==
  ASSUME TypeOK, Located, NEW w \in Slots, UNCHANGED mix,
         \/ \E scope \in Scopes : ReleaseBegin(w, scope)
         \/ \E g \in Fgts : ReleaseUnpush(w, g)
         \/ ReleaseCommit(w)
  PROVE  TypeOK' /\ Located'
<1> USE HandlerFields
<1>1. ASSUME NEW scope, ReleaseBegin(w, scope) PROVE TypeOK' /\ Located'
  <2>1. Recorded \in SUBSET Fgts /\ "r_next" \in Pcs
    BY DEF Recorded, Pcs
  <2>2. Read("r_next", Recorded) \in Handler /\ Read("r_next", Recorded).pc = "r_next"
    BY <2>1, ReadTyped
  <2>3. h' \in [Slots -> Handler] /\ Located'
    BY <1>1, <2>2, PassTyped DEF ReleaseBegin
  <2> QED
    BY <1>1, <2>3 DEF ReleaseBegin, TypeOK, row, env, ghosts
<1>2. ASSUME NEW g \in Fgts, ReleaseUnpush(w, g) PROVE TypeOK' /\ Located'
  <2> DEFINE hw == [h[w] EXCEPT !.todo = @ \ {g}]
  <2>1. hw \in Handler /\ hw.pc = "r_next"
    BY <1>2 DEF ReleaseUnpush, Handler
  <2>2. h' \in [Slots -> Handler] /\ Located'
    BY <1>2, <2>1, PassTyped DEF ReleaseUnpush
  <2>3. dev' \in [Fgts -> DevTargets] /\ told' \subseteq Fgts
    BY <1>2 DEF ReleaseUnpush, TypeOK, DevTargets
  <2>4. faults' \in 0..MaxFaults
    BY <1>2, FaultTyped DEF ReleaseUnpush
  <2> QED
    BY <1>2, <2>2, <2>3, <2>4 DEF ReleaseUnpush, TypeOK, row, env
<1>3. CASE ReleaseCommit(w)
  <2>1. Idle \in Handler /\ Idle.pc = "idle"
    BY ReadTyped DEF Pcs
  <2>2. h' \in [Slots -> Handler] /\ Located'
    BY <1>3, <2>1, PassTyped DEF ReleaseCommit, Finish
  <2>3. NoTargets \in [Fgts -> Record]
    BY DEF NoTargets, NoRecord, Record
  <2>4. /\ status' \in Statuses /\ before' \in Statuses \cup {None}
        /\ targets' \in [Fgts -> Record]
    BY <1>3, <2>3 DEF ReleaseCommit, TypeOK, Statuses, row
  <2> QED
    BY <1>3, <2>2, <2>4 DEF ReleaseCommit, TypeOK, env, ghosts
<1> QED
  BY <1>1, <1>2, <1>3

\* What verifyAssetQuarantine starts from.
LEMMA VerifyReadTyped ==
  ASSUME TypeOK
  PROVE  /\ VerifyRead \in Handler /\ VerifyRead.pc = "v_next" /\ VerifyRead.list = targets
         /\ VerifyRead.macs = macs /\ VerifyRead.todo \subseteq Recorded
<1> DEFINE todo == {g \in Recorded : intg[g] # "gone"}
<1>1. todo \in SUBSET Fgts /\ "v_next" \in Pcs /\ targets \in [Fgts -> Record]
  BY DEF Recorded, Pcs, TypeOK
<1>2. /\ Read("v_next", todo) \in Handler /\ Read("v_next", todo).pc = "v_next"
      /\ Read("v_next", todo).macs = macs /\ Read("v_next", todo).todo = todo
  BY <1>1, ReadTyped
<1>3. VerifyRead = [Read("v_next", todo) EXCEPT !.list = targets]
  BY DEF VerifyRead
<1> HIDE DEF todo
<1>4. todo \subseteq Recorded
  BY DEF todo
<1> QED
  BY <1>1, <1>2, <1>3, <1>4 DEF Handler

\* verifyAssetQuarantine's steps keep the types.
LEMMA VerifyTyped ==
  ASSUME TypeOK, Located, NEW w \in Slots, UNCHANGED mix,
         \/ \E scope \in Scopes : VerifyBegin(w, scope)
         \/ \E g \in Fgts : VerifyGet(w, g)
         \/ VerifyCommit(w)
  PROVE  TypeOK' /\ Located'
<1> USE HandlerFields
<1>1. ASSUME NEW scope, VerifyBegin(w, scope) PROVE TypeOK' /\ Located'
  <2>1. h' \in [Slots -> Handler] /\ Located'
    BY <1>1, VerifyReadTyped, PassTyped DEF VerifyBegin
  <2> QED
    BY <1>1, <2>1 DEF VerifyBegin, TypeOK, row, env, ghosts
<1>2. ASSUME NEW g \in Fgts, VerifyGet(w, g) PROVE TypeOK' /\ Located'
  <2> DEFINE rest == [h[w] EXCEPT !.todo = @ \ {g}]
             lost == [rest EXCEPT !.list[g].st = "drift", !.drift = TRUE]
  <2>1. rest \in Handler /\ rest.pc = "v_next" /\ rest.list = h[w].list
    BY <1>2 DEF VerifyGet, Handler
  <2>2. lost \in Handler /\ lost.pc = "v_next"
    <3>1. [rest.list EXCEPT ![g].st = "drift"] \in [Fgts -> Record]
      BY <2>1 DEF Record
    <3> HIDE DEF rest
    <3> QED
      BY <2>1, <3>1 DEF Handler
  <2>3. Become(w, rest) \/ Become(w, lost)
    BY <1>2 DEF VerifyGet
  <2>4. h' \in [Slots -> Handler] /\ Located'
    BY <2>1, <2>2, <2>3, PassTyped
  <2>5. faults' \in 0..MaxFaults
    BY <1>2, FaultTyped DEF VerifyGet
  <2> QED
    BY <1>2, <2>4, <2>5 DEF VerifyGet, TypeOK, row, env, ghosts
<1>3. CASE VerifyCommit(w)
  <2>1. Idle \in Handler /\ Idle.pc = "idle"
    BY ReadTyped DEF Pcs
  <2>2. h' \in [Slots -> Handler] /\ Located'
    BY <1>3, <2>1, PassTyped DEF VerifyCommit, Finish
  <2>3. targets' \in [Fgts -> Record]
    BY <1>3 DEF VerifyCommit, TypeOK
  <2> QED
    BY <1>3, <2>2, <2>3 DEF VerifyCommit, TypeOK, env, ghosts
<1> QED
  BY <1>1, <1>2, <1>3

\* The steps of a discovery sync keep the types.
LEMMA SyncTyped ==
  ASSUME TypeOK, Located, NEW w \in Slots, UNCHANGED mix,
         \/ \E g \in Fgts, m \in Macs : SyncBegin(w, g, m)
         \/ SyncUpdate(w) \/ SyncSight(w) \/ SyncAuto(w)
  PROVE  TypeOK' /\ Located'
<1> USE HandlerFields
<1>0. h[w].pc \in {"s_update", "s_sight", "s_auto"} => h[w].g \in Fgts
  BY DEF Located
<1>1. ASSUME NEW g \in Fgts, NEW m \in Macs, SyncBegin(w, g, m) PROVE TypeOK' /\ Located'
  <2> DEFINE hw == [Read("s_update", {}) EXCEPT !.g = g, !.macs = macs \cup {m}]
  <2>1. Read("s_update", {}) \in Handler
    BY ReadTyped DEF Pcs
  <2>2. macs \cup {m} \in SUBSET Macs
    BY DEF TypeOK
  <2>3. hw \in Handler /\ hw.g = g
    BY <2>1, <2>2 DEF Handler
  <2>4. h' \in [Slots -> Handler] /\ Located'
    BY <1>1, <2>3, PassTyped DEF SyncBegin
  <2> QED
    BY <1>1, <2>4 DEF SyncBegin, TypeOK, row, env, ghosts
<1>2. CASE SyncUpdate(w)
  <2> DEFINE hw == [h[w] EXCEPT !.pc = "s_sight"]
  <2>1. hw \in Handler /\ hw.g = h[w].g
    BY DEF Handler, Pcs
  <2>2. h' \in [Slots -> Handler] /\ Located'
    BY <1>0, <1>2, <2>1, PassTyped DEF SyncUpdate
  <2>3. status' \in Statuses /\ macs' \subseteq Macs
    BY <1>2 DEF SyncUpdate, TypeOK, Statuses
  <2>4. faults' \in 0..MaxFaults
    BY <1>2, FaultTyped DEF SyncUpdate
  <2> QED
    BY <1>2, <2>2, <2>3, <2>4 DEF SyncUpdate, TypeOK, ghosts
<1>3. CASE SyncSight(w)
  <2> DEFINE hw == [h[w] EXCEPT !.pc = "s_auto"]
  <2>1. hw \in Handler /\ hw.g = h[w].g
    BY DEF Handler, Pcs
  <2>2. h[w].g \in Fgts
    BY <1>0, <1>3 DEF SyncSight
  <2>3. h' \in [Slots -> Handler] /\ Located'
    BY <1>3, <2>1, <2>2, PassTyped DEF SyncSight
  <2>4. sighted' \subseteq Fgts
    BY <1>3, <2>2 DEF SyncSight, TypeOK
  <2> QED
    BY <1>3, <2>3, <2>4 DEF SyncSight, TypeOK, row, ghosts
<1>4. CASE SyncAuto(w)
  <2>1. Candidates(Fgts) \in SUBSET Fgts /\ "q_next" \in Pcs
    BY DEF Candidates, TypeOK, Pcs
  <2>2. QuarantineRead(Fgts) \in Handler /\ QuarantineRead(Fgts).pc = "q_next"
    BY <2>1, ReadTyped DEF QuarantineRead
  <2>3. Idle \in Handler /\ Idle.pc = "idle"
    BY ReadTyped DEF Pcs
  <2>4. Become(w, QuarantineRead(Fgts)) \/ Become(w, VerifyRead) \/ Become(w, Idle)
    BY <1>4 DEF SyncAuto, Finish
  <2>5. h' \in [Slots -> Handler] /\ Located'
    BY <2>2, <2>3, <2>4, VerifyReadTyped, PassTyped
  <2> QED
    BY <1>4, <2>5 DEF SyncAuto, TypeOK, row, env, ghosts
<1> QED
  BY <1>1, <1>2, <1>3, <1>4

\* The other writers' requests keep the types.
LEMMA OthersTyped ==
  ASSUME TypeOK, Located, NEW w \in Slots, UNCHANGED mix,
         PutBegin(w) \/ PutWrite(w) \/ DeleteBegin(w) \/ DeleteWrite(w)
  PROVE  TypeOK' /\ Located'
<1>1. Idle \in Handler /\ Idle.pc = "idle"
  BY ReadTyped DEF Pcs
<1>2. Read("put", {}) \in Handler /\ Read("put", {}).pc = "put"
  BY ReadTyped DEF Pcs
<1>3. Read("delete", {}) \in Handler /\ Read("delete", {}).pc = "delete"
  BY ReadTyped DEF Pcs
<1>4. Become(w, Read("put", {})) \/ Become(w, Read("delete", {})) \/ Become(w, Idle)
  BY DEF PutBegin, PutWrite, DeleteBegin, DeleteWrite, Finish
<1>5. h' \in [Slots -> Handler] /\ Located'
  BY <1>1, <1>2, <1>3, <1>4, PassTyped
<1>6. NoTargets \in [Fgts -> Record]
  BY DEF NoTargets, NoRecord, Record
<1>7. CASE PutBegin(w) \/ DeleteBegin(w)
  BY <1>5, <1>7 DEF PutBegin, DeleteBegin, TypeOK, row, env, ghosts
<1>8. CASE PutWrite(w)
  BY <1>5, <1>8 DEF PutWrite, TypeOK, env, ghosts, Statuses
<1>9. CASE DeleteWrite(w)
  BY <1>5, <1>6, <1>9 DEF DeleteWrite, TypeOK, ghosts, Statuses
<1> QED
  BY <1>7, <1>8, <1>9

\* What happens without a request keeps the types.
LEMMA EnvironmentTyped ==
  ASSUME TypeOK, Located, UNCHANGED mix, Environment
  PROVE  TypeOK' /\ Located' /\ h' = h
<1>1. ASSUME NEW m \in Macs, RemoveMac(m) PROVE TypeOK' /\ h' = h
  BY <1>1 DEF RemoveMac, TypeOK, row, ghosts
<1>2. ASSUME Decommission PROVE TypeOK' /\ h' = h
  BY <1>2 DEF Decommission, TypeOK, Statuses, env, ghosts
<1>3. ASSUME NEW g \in Fgts, Age(g) PROVE TypeOK' /\ h' = h
  BY <1>3 DEF Age, TypeOK, row, ghosts
<1>4. ASSUME NEW g \in Fgts, NEW to \in {"on", "off", "gone"}, Toggle(g, to)
      PROVE  TypeOK' /\ h' = h
  BY <1>4 DEF Toggle, TypeOK, row, ghosts
<1>5. ASSUME NEW g \in Fgts, NEW t \in DevTargets, AdminEdit(g, t) PROVE TypeOK' /\ h' = h
  BY <1>5, FaultTyped DEF AdminEdit, TypeOK, row, env
<1>6. TypeOK' /\ h' = h
  BY <1>1, <1>2, <1>3, <1>4, <1>5 DEF Environment
<1> QED
  BY <1>6 DEF Located

\* Every step keeps the types.
LEMMA StepTyped ==
  ASSUME TypeOK, Located, [Next]_vars
  PROVE  TypeOK' /\ Located'
<1>1. CASE UNCHANGED vars
  BY <1>1 DEF vars, row, env, ghosts, TypeOK, Located
<1>2. ASSUME NEW w \in Slots, Start(w), UNCHANGED mix PROVE TypeOK' /\ Located'
  BY <1>2, QuarantineTyped, ReleaseTyped, VerifyTyped, SyncTyped, OthersTyped DEF Start
<1>3. ASSUME NEW w \in Slots, Continue(w), UNCHANGED mix PROVE TypeOK' /\ Located'
  BY <1>3, QuarantineTyped, ReleaseTyped, VerifyTyped, SyncTyped, OthersTyped DEF Continue
<1> QED
  BY <1>1, <1>2, <1>3, EnvironmentTyped DEF Next, Step

\* The initial states are typed.
LEMMA InitTyped == Init => TypeOK /\ Located
<1> SUFFICES ASSUME Init PROVE TypeOK /\ Located
  OBVIOUS
<1>1. Idle \in Handler /\ Idle.pc = "idle" /\ NoTargets \in [Fgts -> Record]
  <2>1. NoTargets \in [Fgts -> Record]
    BY DEF NoTargets, NoRecord, Record
  <2> QED
    BY <2>1 DEF Idle, Handler, Statuses, Pcs
<1>2. TypeOK
  BY <1>1, FaultsAssumption DEF Init, TypeOK, Statuses, DevTargets
<1> QED
  BY <1>1, <1>2 DEF Init, Located

\* Whatever the number of overlapping requests on the asset, every variable and
\* every handler stays within its type, and a handler that goes on with a
\* FortiGate, or reports it as failed, has one.
THEOREM TypeCorrect == Spec => [](TypeOK /\ Located)
  BY InitTyped, StepTyped, PTL DEF Spec

-----------------------------------------------------------------------------
(* What is recorded as synced is enforced, requests not overlapping.       *)

\* A quarantine starts with an empty list.
LEMMA BeginHeld ==
  ASSUME HeldInv, NEW w, Slots = {w}, NEW scope, TypeOK',
         h[w].pc \notin Pushing \cup {"r_next"}, Become(w, QuarantineRead(scope)),
         UNCHANGED <<row, dev, ghosts>>
  PROVE  HandlerState(w)'
<1>1. /\ h'[w].pc = "q_next" /\ h'[w].list = NoTargets /\ h'[w].todo \subseteq Fgts
  <2>1. Candidates(scope) \in SUBSET Fgts /\ "q_next" \in Pcs
    BY DEF HeldInv, TypeOK, Candidates, Pcs
  <2>2. /\ QuarantineRead(scope) \in Handler /\ QuarantineRead(scope).pc = "q_next"
        /\ QuarantineRead(scope).list = NoTargets
        /\ QuarantineRead(scope).todo = Candidates(scope)
    BY <2>1, ReadTyped DEF QuarantineRead, HeldInv
  <2>3. h'[w] = QuarantineRead(scope)
    BY <2>2, BecomeTyped DEF HeldInv
  <2> QED
    BY <2>1, <2>2, <2>3
<1>2. \A g \in Fgts : Holds(targets, g)
  BY DEF HeldInv, HandlerState
<1>3. \A g \in Fgts : Holds(targets, g)'
  BY <1>2 DEF Holds, Present, row, ghosts
<1>4. \A g \in Fgts : h'[w].list[g].st = "none"
  BY <1>1 DEF NoTargets, NoRecord
<1>5. PushState(w)'
  BY <1>1, <1>3, <1>4 DEF PushState, Holds, Current
<1> QED
  BY <1>1, <1>5 DEF HandlerState, Pushing

\* After a failed push its FortiGate is on the list as failed and reported.
LEMMA FailHeld ==
  ASSUME HeldInv, NEW w, Slots = {w},
         h[w].pc \in {"q_post", "q_macs", "q_verify"}, PushFails(w),
         \A g \in Fgts : g # h[w].g => dev'[g] = dev[g],
         UNCHANGED row
  PROVE  HandlerState(w)'
<1>0. h[w].g \in Fgts /\ TypeOK /\ PushState(w)
  BY DEF HeldInv, Located, HandlerState, Pushing
<1>1. /\ h'[w].pc \in {"q_next", "q_rollback"} /\ h'[w].g = h[w].g
      /\ h'[w].list = [h[w].list EXCEPT ![h[w].g] = Failed] /\ h'[w].todo = h[w].todo
      /\ told' = told \cup {h[w].g} /\ touched' = touched
  <2>1. /\ h'[w] = [h[w] EXCEPT !.list = [h[w].list EXCEPT ![h[w].g] = Failed],
                                !.pc = IF h[w].isNew THEN "q_rollback" ELSE "q_next"]
        /\ told' = told \cup {h[w].g} /\ touched' = touched
    BY <1>0, FailedTyped
  <2>2. h[w] \in Handler
    BY <1>0, HandlerFields
  <2> QED
    BY <2>1, <2>2 DEF Handler
<1>2. h[w].list \in [Fgts -> Record]
  BY <1>0, HandlerFields
<1>3. ASSUME NEW g \in Fgts
      PROVE  /\ h'[w].list[g] = IF g = h[w].g THEN Failed ELSE h[w].list[g]
             /\ g # h[w].g /\ Holds(targets, g) => Holds(targets, g)'
             /\ Holds(h[w].list, g)'
             /\ h'[w].list[g].st = "failed" => g \in told'
             /\ h'[w].list[g].st \in {"none", "synced", "failed"}
             /\ h'[w].list[g].st = "none" => g # h[w].g /\ Holds(targets, g)'
  <2>1. h'[w].list[g] = IF g = h[w].g THEN Failed ELSE h[w].list[g]
    BY <1>1, <1>2
  <2>2. CASE g = h[w].g
    BY <1>1, <2>1, <2>2 DEF Failed, Holds
  <2>3. CASE g # h[w].g
    <3>1. Holds(targets, g) => Holds(targets, g)'
      BY <1>1, <2>3 DEF Holds, Present, row
    <3>2. Holds(h[w].list, g)'
      BY <1>0, <1>1, <2>1, <2>3 DEF PushState, Holds, Present
    <3>3. ~Current(w, g)
      BY <2>3 DEF Current
    <3> QED
      BY <1>0, <1>1, <2>1, <2>3, <3>1, <3>2, <3>3 DEF PushState
  <2> QED
    BY <2>2, <2>3
<1>4. \A g \in h[w].todo : g \in Fgts /\ h[w].list[g].st = "none" /\ g # h[w].g
  BY <1>0, HandlerFields DEF PushState, Current
<1>5. PushState(w)'
  <2>1. /\ h'[w].pc # "q_next" => h'[w].list[h'[w].g].st # "synced"
        /\ h'[w].pc = "q_rollback" => h'[w].list[h'[w].g].st = "failed"
    BY <1>0, <1>1, <1>3 DEF Failed
  <2>2. \A g \in h'[w].todo : h'[w].list[g].st = "none" /\ ~Current(w, g)'
    BY <1>1, <1>3, <1>4 DEF Current
  <2>3. \A g \in Fgts :
          /\ Holds(h[w].list, g)' /\ h'[w].list[g].st \in {"none", "synced", "failed"}
          /\ h'[w].list[g].st = "failed" => g \in told'
          /\ h'[w].list[g].st = "none" /\ ~Current(w, g)' => Holds(targets, g)'
    BY <1>3
  <2> QED
    BY <2>1, <2>2, <2>3 DEF PushState
<1> QED
  BY <1>1, <1>5 DEF HandlerState, Pushing

\* A device write of a push only changes what nothing is claimed about yet.
LEMMA WriteHeld ==
  ASSUME HeldInv, NEW w, Slots = {w},
         h[w].pc \in {"q_post", "q_macs"},
         NEW can, NEW after, NEW hw \in Handler, hw.g = h[w].g, hw.list = h[w].list,
         hw.todo = h[w].todo, hw.pc \in {"q_macs", "q_verify"},
         DeviceWrite(w, can, after, hw), UNCHANGED row
  PROVE  HandlerState(w)'
<1>0. h[w].g \in Fgts /\ TypeOK /\ PushState(w)
  BY DEF HeldInv, Located, HandlerState, Pushing
<1>1. \A g \in Fgts : g # h[w].g => dev'[g] = dev[g]
  BY <1>0 DEF DeviceWrite, TypeOK
<1>2. CASE PushFails(w)
  BY <1>1, <1>2, FailHeld
<1>3. CASE Become(w, hw) /\ UNCHANGED ghosts
  <2>1. h'[w] = hw
    BY <1>0, <1>3, BecomeTyped
  <2>2. told' = told /\ touched' = touched /\ targets' = targets
    BY <1>3 DEF ghosts, row
  <2>3. \A g \in Fgts : Current(w, g)' <=> g = h[w].g
    BY <2>1 DEF Current
  <2>4. \A g \in Fgts : Current(w, g) <=> g = h[w].g
    BY DEF Current
  <2>5. \A g \in Fgts : Holds(h[w].list, g)'
    BY <1>0, <1>1, <2>1, <2>2 DEF PushState, Holds, Present
  <2>6. \A g \in Fgts : g # h[w].g /\ Holds(targets, g) => Holds(targets, g)'
    BY <1>1, <2>2 DEF Holds, Present
  <2>7. PushState(w)'
    <3>1. h'[w].list[h'[w].g].st # "synced" /\ h'[w].pc # "q_rollback"
      BY <1>0, <2>1 DEF PushState
    <3>2. \A g \in h'[w].todo : h'[w].list[g].st = "none" /\ ~Current(w, g)'
      BY <1>0, <2>1, <2>3, <2>4, HandlerFields DEF PushState
    <3>3. \A g \in Fgts :
          /\ Holds(h[w].list, g)' /\ h'[w].list[g].st \in {"none", "synced", "failed"}
          /\ h'[w].list[g].st = "failed" => g \in told'
          /\ h'[w].list[g].st = "none" /\ ~Current(w, g)' => Holds(targets, g)'
      BY <1>0, <2>1, <2>2, <2>3, <2>4, <2>5, <2>6 DEF PushState
    <3> QED
      BY <3>1, <3>2, <3>3 DEF PushState
  <2> QED
    BY <2>1, <2>7 DEF HandlerState, Pushing
<1> QED
  BY <1>2, <1>3 DEF DeviceWrite, ghosts

\* quarantineAsset: every FortiGate it has done is on its list as it is.
LEMMA QuarantineHeld ==
  ASSUME HeldInv, NEW w, Slots = {w}, TypeOK', Located',
         \/ \E scope \in Scopes : QuarantineBegin(w, scope)
         \/ \E g \in Fgts : PushGet(w, g)
         \/ PushPost(w) \/ PushMacs(w) \/ PushVerify(w) \/ PushRollback(w) \/ QuarantineCommit(w)
  PROVE  GoneBare' /\ HandlerState(w)'
<1> USE HandlerFields
<1>0. TypeOK /\ GoneBare /\ HandlerState(w) /\ h[w] \in Handler
  BY DEF HeldInv
<1>a. h[w].pc \in {"q_post", "q_macs", "q_verify", "q_rollback"} => h[w].g \in Fgts
  BY DEF HeldInv, Located
<1>1. ASSUME NEW scope, QuarantineBegin(w, scope) PROVE GoneBare' /\ HandlerState(w)'
  <2>1. HandlerState(w)'
    BY <1>1, BeginHeld DEF QuarantineBegin, Begin, Pushing
  <2> QED
    BY <1>0, <1>1, <2>1 DEF QuarantineBegin, GoneBare, row
<1>2. ASSUME NEW g \in Fgts, PushGet(w, g) PROVE GoneBare' /\ HandlerState(w)'
  <2> DEFINE rest == [h[w] EXCEPT !.g = g, !.todo = @ \ {g}, !.isNew = FALSE]
             ok == [rest EXCEPT !.pc = IF dev[g].held THEN "q_macs" ELSE "q_post",
                                !.isNew = ~dev[g].held,
                                !.add = h[w].macs \ dev[g].macs,
                                !.del = dev[g].macs \ h[w].macs]
             bad == [rest EXCEPT !.list[g] = Failed]
  <2>1. /\ h[w].pc = "q_next" /\ g \in h[w].todo /\ PushState(w)
        /\ targets' = targets /\ dev' = dev /\ touched' = touched
    BY <1>0, <1>2 DEF PushGet, HandlerState, Pushing, row, ghosts
  <2>2. \A x \in Fgts : ~Current(w, x)
    BY <2>1 DEF Current
  <2>3. h[w].list[g].st = "none"
    BY <2>1 DEF PushState
  <2>4. CASE Become(w, ok) /\ UNCHANGED ghosts
    <3>1. h'[w] = ok
      BY <1>0, <2>4 DEF Become, TypeOK
    <3>2. /\ h'[w].pc \in {"q_macs", "q_post"} /\ h'[w].g = g
          /\ h'[w].todo = h[w].todo \ {g} /\ h'[w].list = h[w].list
      BY <1>0, <3>1 DEF Handler
    <3>3. told' = told
      BY <2>4 DEF ghosts
    <3>4. \A x \in Fgts : Current(w, x)' <=> x = g
      BY <3>2 DEF Current
    <3>5. \A x \in Fgts : /\ Holds(h[w].list, x)'
                          /\ Holds(targets, x) => Holds(targets, x)'
      BY <2>1, <3>2, <3>3 DEF PushState, Holds, Present
    <3>6. PushState(w)'
      <4>1. h'[w].list[h'[w].g].st # "synced" /\ h'[w].pc # "q_rollback"
        BY <2>3, <3>2
      <4>2. \A x \in h'[w].todo : h'[w].list[x].st = "none" /\ ~Current(w, x)'
        BY <1>0, <2>1, <3>2, <3>4 DEF PushState
      <4>3. \A x \in Fgts :
              /\ Holds(h[w].list, x)' /\ h'[w].list[x].st \in {"none", "synced", "failed"}
              /\ h'[w].list[x].st = "failed" => x \in told'
              /\ h'[w].list[x].st = "none" /\ ~Current(w, x)' => Holds(targets, x)'
        BY <2>1, <2>2, <3>2, <3>3, <3>5 DEF PushState
      <4> QED
        BY <4>1, <4>2, <4>3 DEF PushState
    <3> QED
      BY <1>0, <1>2, <3>2, <3>6 DEF HandlerState, Pushing, PushGet, GoneBare, row
  <2>5. CASE Become(w, bad) /\ told' = told \cup {g}
    <3>1. h'[w] = bad
      BY <1>0, <2>5 DEF Become, TypeOK
    <3>2. /\ h'[w].pc = "q_next"
          /\ h'[w].todo = h[w].todo \ {g} /\ h'[w].list = [h[w].list EXCEPT ![g] = Failed]
      BY <1>0, <2>1, <3>1 DEF Handler
    <3>3. \A x \in Fgts : h'[w].list[x] = IF x = g THEN Failed ELSE h[w].list[x]
      BY <1>0, <3>2
    <3>4. \A x \in Fgts : ~Current(w, x)'
      BY <3>2 DEF Current
    <3>5. \A x \in Fgts : /\ Holds(h[w].list, x)'
                          /\ Holds(targets, x) => Holds(targets, x)'
      BY <2>1, <2>5, <3>3 DEF PushState, Holds, Present, Failed
    <3>6. PushState(w)'
      <4>1. \A x \in h'[w].todo : h'[w].list[x].st = "none" /\ ~Current(w, x)'
        BY <1>0, <2>1, <3>2, <3>3, <3>4 DEF PushState
      <4>2. \A x \in Fgts :
              /\ Holds(h[w].list, x)' /\ h'[w].list[x].st \in {"none", "synced", "failed"}
              /\ h'[w].list[x].st = "failed" => x \in told'
              /\ h'[w].list[x].st = "none" /\ ~Current(w, x)' => Holds(targets, x)'
        BY <2>1, <2>2, <2>5, <3>3, <3>5 DEF PushState, Failed
      <4> QED
        BY <3>2, <4>1, <4>2 DEF PushState
    <3> QED
      BY <1>0, <1>2, <3>2, <3>6 DEF HandlerState, Pushing, PushGet, GoneBare, row
  <2> QED
    BY <1>2, <2>4, <2>5 DEF PushGet
<1>3. CASE PushPost(w)
  <2> DEFINE hw == [h[w] EXCEPT !.pc = "q_verify"]
  <2>1. /\ hw \in Handler /\ hw.g = h[w].g /\ hw.list = h[w].list /\ hw.todo = h[w].todo
        /\ hw.pc = "q_verify"
    BY <1>0 DEF Handler, Pcs
  <2>2. DeviceWrite(w, ~dev[h[w].g].held, Target(h[w].macs), hw) /\ UNCHANGED row
        /\ h[w].pc = "q_post"
    BY <1>3 DEF PushPost
  <2>3. HandlerState(w)'
    BY <2>1, <2>2, WriteHeld
  <2> QED
    BY <1>0, <2>2, <2>3 DEF GoneBare, row
<1>4. CASE PushMacs(w)
  <2> DEFINE t == dev[h[w].g]
  <2>1. UNCHANGED row /\ h[w].pc = "q_macs"
    BY <1>4 DEF PushMacs
  <2>2. ASSUME NEW m \in h[w].add,
               DeviceWrite(w, t.held /\ m \notin t.macs, Target(t.macs \cup {m}),
                           [h[w] EXCEPT !.add = @ \ {m}])
        PROVE  HandlerState(w)'
    <3> DEFINE hw == [h[w] EXCEPT !.add = @ \ {m}]
    <3>1. /\ hw \in Handler /\ hw.g = h[w].g /\ hw.list = h[w].list
          /\ hw.todo = h[w].todo /\ hw.pc = "q_macs"
      BY <1>0, <2>1 DEF Handler
    <3> QED
      BY <2>1, <2>2, <3>1, WriteHeld
  <2>3. ASSUME NEW m \in h[w].del,
               DeviceWrite(w, t.held /\ m \in t.macs, Target(t.macs \ {m}),
                           [h[w] EXCEPT !.del = @ \ {m}])
        PROVE  HandlerState(w)'
    <3> DEFINE hw == [h[w] EXCEPT !.del = @ \ {m}]
    <3>1. /\ hw \in Handler /\ hw.g = h[w].g /\ hw.list = h[w].list
          /\ hw.todo = h[w].todo /\ hw.pc = "q_macs"
      BY <1>0, <2>1 DEF Handler
    <3> QED
      BY <2>1, <2>3, <3>1, WriteHeld
  <2>4. ASSUME Become(w, [h[w] EXCEPT !.pc = "q_verify"]), UNCHANGED <<dev, ghosts>>
        PROVE  HandlerState(w)'
    <3> DEFINE hw == [h[w] EXCEPT !.pc = "q_verify"]
    <3>1. /\ hw \in Handler /\ hw.g = h[w].g /\ hw.list = h[w].list /\ hw.todo = h[w].todo
          /\ hw.pc = "q_verify"
      BY <1>0 DEF Handler, Pcs
    <3>2. h'[w] = hw
      BY <1>0, <2>4, <3>1, BecomeTyped
    <3> HIDE DEF hw
    <3>3. PushState(w)
      BY <1>0, <2>1 DEF HandlerState, Pushing
    <3>4. PushState(w)'
      BY <2>1, <2>4, <3>1, <3>2, <3>3 DEF PushState, Holds, Present, Current, row, ghosts
    <3> QED
      BY <3>1, <3>2, <3>4 DEF HandlerState, Pushing
  <2>5. HandlerState(w)'
    BY <1>4, <2>2, <2>3, <2>4 DEF PushMacs
  <2> QED
    BY <1>0, <2>1, <2>5 DEF GoneBare, row
<1>5. CASE PushVerify(w)
  <2>1. h[w].pc = "q_verify" /\ UNCHANGED <<row, env, dev>>
    BY <1>5 DEF PushVerify
  <2>2. CASE PushFails(w)
    BY <1>0, <2>1, <2>2, FailHeld DEF GoneBare, row
  <2>3. CASE Verified(w) /\ Present(h[w].g, h[w].macs)
    <3> DEFINE done == [st |-> "synced", macs |-> h[w].macs]
    <3>1. h'[w] = [h[w] EXCEPT !.list = [h[w].list EXCEPT ![h[w].g] = done], !.pc = "q_next"]
      BY <1>0, <2>3 DEF Verified, Become, TypeOK
    <3>2. /\ h'[w].pc = "q_next" /\ h'[w].list = [h[w].list EXCEPT ![h[w].g] = done]
          /\ h'[w].todo = h[w].todo
      BY <1>0, <3>1 DEF Handler
    <3>3. PushState(w) /\ h[w].g \in Fgts
      BY <1>0, <1>a, <2>1 DEF HandlerState, Pushing
    <3>4. \A x \in Fgts : h'[w].list[x] = IF x = h[w].g THEN done ELSE h[w].list[x]
      BY <1>0, <3>2
    <3>5. \A x \in Fgts : (Current(w, x) <=> x = h[w].g) /\ ~Current(w, x)'
      BY <2>1, <3>2 DEF Current
    <3>6. /\ targets' = targets /\ dev' = dev
          /\ told' = told \ {h[w].g} /\ touched' = touched \ {h[w].g}
      BY <2>1, <2>3 DEF Verified, row
    <3>7. ASSUME NEW x \in Fgts
          PROVE  /\ Holds(h[w].list, x)'
                 /\ h'[w].list[x].st = "failed" => x \in told'
                 /\ h'[w].list[x].st \in {"none", "synced", "failed"}
                 /\ h'[w].list[x].st = "none" => Holds(targets, x)'
      <4>1. CASE x = h[w].g
        BY <2>3, <3>4, <3>6, <4>1 DEF Holds, Present
      <4>2. CASE x # h[w].g
        <5>1. Holds(h[w].list, x)'
          BY <3>3, <3>4, <3>6, <4>2 DEF PushState, Holds, Present
        <5>2. Holds(targets, x) => Holds(targets, x)'
          BY <3>6, <4>2 DEF Holds, Present
        <5> QED
          BY <3>3, <3>4, <3>5, <3>6, <4>2, <5>1, <5>2 DEF PushState
      <4> QED
        BY <4>1, <4>2
    <3>8. \A x \in h'[w].todo : h'[w].list[x].st = "none" /\ ~Current(w, x)'
      BY <1>0, <3>2, <3>3, <3>4, <3>5 DEF PushState
    <3>9. PushState(w)'
      BY <3>2, <3>7, <3>8 DEF PushState
    <3> QED
      BY <1>0, <2>1, <3>2, <3>9 DEF HandlerState, Pushing, GoneBare, row
  <2> QED
    BY <1>5, <2>2, <2>3 DEF PushVerify
<1>6. CASE PushRollback(w)
  <2>1. /\ h'[w] = [h[w] EXCEPT !.pc = "q_next"]
        /\ h[w].pc = "q_rollback" /\ targets' = targets /\ told' = told /\ touched' = touched
    BY <1>0, <1>6 DEF PushRollback, Become, TypeOK, row, ghosts
  <2>2. /\ h'[w].pc = "q_next" /\ h'[w].list = h[w].list /\ h'[w].todo = h[w].todo
    BY <1>0, <2>1 DEF Handler
  <2>3. PushState(w) /\ h[w].g \in Fgts
    BY <1>0, <1>a, <2>1 DEF HandlerState, Pushing
  <2>4. \A x \in Fgts : x # h[w].g => dev'[x] = dev[x]
    BY <1>0, <1>6 DEF PushRollback, TypeOK
  <2>5. \A x \in Fgts : (Current(w, x) <=> x = h[w].g) /\ ~Current(w, x)'
    BY <2>1, <2>2 DEF Current
  <2>6. h[w].list[h[w].g].st = "failed"
    BY <2>1, <2>3 DEF PushState
  <2>7. \A x \in Fgts : /\ Holds(h[w].list, x)'
                        /\ x # h[w].g /\ Holds(targets, x) => Holds(targets, x)'
    BY <2>1, <2>2, <2>3, <2>4, <2>6 DEF PushState, Holds, Present
  <2>8. PushState(w)'
    <3>1. \A x \in h'[w].todo : h'[w].list[x].st = "none" /\ ~Current(w, x)'
      BY <1>0, <2>2, <2>3, <2>5 DEF PushState
    <3>2. \A x \in Fgts :
            /\ Holds(h[w].list, x)' /\ h'[w].list[x].st \in {"none", "synced", "failed"}
            /\ h'[w].list[x].st = "failed" => x \in told'
            /\ h'[w].list[x].st = "none" /\ ~Current(w, x)' => Holds(targets, x)'
      BY <2>1, <2>2, <2>3, <2>5, <2>6, <2>7 DEF PushState
    <3> QED
      BY <2>2, <3>1, <3>2 DEF PushState
  <2> QED
    BY <1>0, <1>6, <2>2, <2>8 DEF HandlerState, Pushing, PushRollback, GoneBare, row
<1>7. CASE QuarantineCommit(w)
  <2>1. /\ h[w].pc = "q_next" /\ dev' = dev /\ told' = told /\ touched' = touched
    BY <1>7 DEF QuarantineCommit, ghosts
  <2>2. h'[w].pc = "idle"
    BY <1>0, <1>7 DEF QuarantineCommit, Finish, Become, Idle, TypeOK
  <2>3. PushState(w)
    BY <1>0, <2>1 DEF HandlerState, Pushing
  <2>4. \A g \in Fgts : /\ Holds(h[w].list, g)
                        /\ h[w].list[g].st = "none" => Holds(targets, g)
                        /\ h[w].list[g].st = "failed" => g \in told
                        /\ h[w].list[g].st \in {"none", "synced", "failed"}
    BY <2>1, <2>3 DEF PushState, Current
  <2>5. CASE Exists /\ \E g \in Fgts : h[w].list[g].st = "synced"
    <3>1. targets' = h[w].list /\ status' = "quarantined"
      BY <1>7, <2>5 DEF QuarantineCommit
    <3>2. \A g \in Fgts : Holds(targets, g)'
      BY <2>1, <2>4, <3>1 DEF Holds, Present
    <3> QED
      BY <2>2, <3>1, <3>2 DEF HandlerState, GoneBare, Pushing
  <2>6. CASE ~(Exists /\ \E g \in Fgts : h[w].list[g].st = "synced")
    <3>1. targets' = targets /\ status' = status
      BY <1>7, <2>6 DEF QuarantineCommit, row
    <3>2. ASSUME NEW g \in Fgts PROVE Holds(targets, g)
      <4>1. CASE ~Exists
        <5>1. targets[g].st = "none"
          BY <1>0, <4>1 DEF GoneBare, Exists, NoTargets, NoRecord
        <5> QED
          BY <5>1 DEF Holds
      <4>2. CASE Exists
        <5>1. h[w].list[g].st # "synced"
          BY <2>6, <4>2
        <5> QED
          BY <2>4, <5>1 DEF Holds
      <4> QED
        BY <4>1, <4>2
    <3>3. \A g \in Fgts : Holds(targets, g)'
      BY <2>1, <3>1, <3>2 DEF Holds, Present
    <3> QED
      BY <1>0, <2>2, <3>1, <3>3 DEF HandlerState, GoneBare, Pushing
  <2> QED
    BY <2>5, <2>6
<1> QED
  BY <1>1, <1>2, <1>3, <1>4, <1>5, <1>6, <1>7

\* releaseQuarantine: it makes no claim until its update empties the record.
LEMMA ReleaseHeld ==
  ASSUME HeldInv, NEW w, Slots = {w},
         \/ \E scope \in Scopes : ReleaseBegin(w, scope)
         \/ \E g \in Fgts : ReleaseUnpush(w, g)
         \/ ReleaseCommit(w)
  PROVE  GoneBare' /\ HandlerState(w)'
<1>0. TypeOK /\ GoneBare /\ HandlerState(w) /\ h[w] \in Handler
  BY HandlerFields DEF HeldInv
<1>1. ASSUME NEW scope, ReleaseBegin(w, scope) PROVE GoneBare' /\ HandlerState(w)'
  <2>1. h'[w].pc = "r_next"
    BY <1>0, <1>1 DEF ReleaseBegin, Become, Read, Idle, TypeOK
  <2> QED
    BY <1>0, <1>1, <2>1 DEF ReleaseBegin, HandlerState, Pushing, GoneBare, row
<1>2. ASSUME NEW g \in Fgts, ReleaseUnpush(w, g) PROVE GoneBare' /\ HandlerState(w)'
  <2>1. h'[w] = [h[w] EXCEPT !.todo = @ \ {g}] /\ h[w].pc = "r_next"
    BY <1>0, <1>2 DEF ReleaseUnpush, Become, TypeOK
  <2>2. h'[w].pc = "r_next"
    BY <1>0, <2>1 DEF Handler
  <2> QED
    BY <1>0, <1>2, <2>2 DEF ReleaseUnpush, HandlerState, Pushing, GoneBare, row
<1>3. CASE ReleaseCommit(w)
  <2>1. h'[w].pc = "idle"
    BY <1>0, <1>3 DEF ReleaseCommit, Finish, Become, Idle, TypeOK
  <2>2. targets' = NoTargets
    BY <1>0, <1>3 DEF ReleaseCommit, Exists, GoneBare, row
  <2>3. \A g \in Fgts : Holds(targets, g)'
    BY <2>2 DEF Holds, NoTargets, NoRecord
  <2> QED
    BY <2>1, <2>2, <2>3 DEF HandlerState, Pushing, GoneBare
<1> QED
  BY <1>1, <1>2, <1>3

\* A verify starts from the record.
LEMMA VerifyReadHeld ==
  ASSUME HeldInv, NEW w, Slots = {w}, Become(w, VerifyRead),
         h[w].pc \notin Pushing \cup {"r_next"}, UNCHANGED <<row, dev, ghosts>>
  PROVE  HandlerState(w)'
<1>1. h'[w] = VerifyRead /\ VerifyRead.pc = "v_next" /\ VerifyRead.list = targets
  BY VerifyReadTyped, BecomeTyped DEF HeldInv
<1>2. \A g \in Fgts : Holds(targets, g)
  BY DEF HeldInv, HandlerState
<1>3. \A g \in Fgts : Holds(targets, g)'
  BY <1>2 DEF Holds, Present, row, ghosts
<1> QED
  BY <1>1, <1>3 DEF HandlerState, Pushing, row

\* verifyAssetQuarantine: it may only take claims back.
LEMMA VerifyHeld ==
  ASSUME HeldInv, NEW w, Slots = {w},
         \/ \E scope \in Scopes : VerifyBegin(w, scope)
         \/ \E g \in Fgts : VerifyGet(w, g)
         \/ VerifyCommit(w)
  PROVE  GoneBare' /\ HandlerState(w)'
<1>0. /\ TypeOK /\ GoneBare /\ HandlerState(w) /\ h[w] \in Handler
      /\ h[w].list \in [Fgts -> Record]
  BY HandlerFields DEF HeldInv
<1>1. ASSUME NEW scope, VerifyBegin(w, scope) PROVE GoneBare' /\ HandlerState(w)'
  BY <1>0, <1>1, VerifyReadHeld DEF VerifyBegin, Begin, Pushing, GoneBare, row
<1>2. ASSUME NEW g \in Fgts, VerifyGet(w, g) PROVE GoneBare' /\ HandlerState(w)'
  <2> DEFINE rest == [h[w] EXCEPT !.todo = @ \ {g}]
             lost == [rest EXCEPT !.list[g].st = "drift", !.drift = TRUE]
  <2>1. h[w].pc = "v_next" /\ UNCHANGED <<row, dev, ghosts>> /\ h'[w] \in {rest, lost}
    BY <1>0, <1>2 DEF VerifyGet, Become, TypeOK
  <2>2. rest \in Handler /\ rest.list = h[w].list /\ rest.pc = h[w].pc
    BY <1>0 DEF Handler
  <2>3. lost.list = [h[w].list EXCEPT ![g].st = "drift"] /\ lost.pc = h[w].pc
    <3> HIDE DEF rest
    <3> QED
      BY <2>2 DEF Handler
  <2>4. /\ h'[w].pc = "v_next"
        /\ \A x \in Fgts : h'[w].list[x].st = "synced" => h'[w].list[x] = h[w].list[x]
    <3>1. CASE h'[w] = rest
      BY <2>1, <2>2, <3>1
    <3>2. CASE h'[w] = lost
      <4>1. h[w].list[g] \in Record
        BY <1>0
      <4>2. [h[w].list[g] EXCEPT !.st = "drift"].st = "drift"
        BY <4>1 DEF Record
      <4>3. h'[w].list = [h[w].list EXCEPT ![g] = [h[w].list[g] EXCEPT !.st = "drift"]]
        BY <2>3, <3>2
      <4> QED
        BY <1>0, <2>1, <2>3, <3>2, <4>2, <4>3
    <3> QED
      BY <2>1, <3>1, <3>2
  <2>5. \A x \in Fgts : Holds(targets, x)
    BY <1>0, <2>1 DEF HandlerState, Pushing
  <2>6. \A x \in Fgts : Holds(targets, x)'
    BY <2>1, <2>5 DEF Holds, Present, row, ghosts
  <2> HIDE DEF rest, lost
  <2> QED
    BY <1>0, <2>1, <2>4, <2>6 DEF HandlerState, Pushing, GoneBare, row
<1>3. CASE VerifyCommit(w)
  <2>1. h'[w].pc = "idle" /\ h[w].pc = "v_next"
    BY <1>0, <1>3 DEF VerifyCommit, Finish, Become, Idle, TypeOK
  <2>2. \A x \in Fgts : Holds(targets, x)
    BY <1>0, <2>1 DEF HandlerState, Pushing
  <2>3. \A x \in Fgts : h[w].list[x].st = "synced" => h[w].list[x] = targets[x]
    BY <1>0, <2>1 DEF HandlerState
  <2>4. \A x \in Fgts : targets'[x].st = "synced" => targets'[x] = targets[x]
    BY <1>3, <2>3 DEF VerifyCommit
  <2>5. \A x \in Fgts : Holds(targets, x)'
    BY <1>3, <2>2, <2>4 DEF VerifyCommit, Holds, Present, ghosts
  <2> QED
    BY <1>0, <1>3, <2>1, <2>5 DEF HandlerState, Pushing, GoneBare, VerifyCommit, Exists
<1> QED
  BY <1>1, <1>2, <1>3

\* Requests that touch neither a device nor a target.
LEMMA IndifferentHeld ==
  ASSUME HeldInv, NEW w, Slots = {w},
         h[w].pc \notin Pushing \cup {"r_next"},
         h'[w].pc \notin Pushing \cup {"r_next", "v_next"},
         \/ targets' = targets /\ (status' = status \/ (Exists /\ status' # "deleted"))
         \/ targets' = NoTargets,
         UNCHANGED <<dev, ghosts>>
  PROVE  GoneBare' /\ HandlerState(w)'
<1>1. \A g \in Fgts : Holds(targets, g)
  BY DEF HeldInv, HandlerState
<1>2. CASE targets' = targets /\ (status' = status \/ (Exists /\ status' # "deleted"))
  <2>1. \A g \in Fgts : Holds(targets, g)'
    BY <1>1, <1>2 DEF Holds, Present, ghosts
  <2> QED
    BY <1>2, <2>1 DEF HandlerState, HeldInv, GoneBare
<1>3. CASE targets' = NoTargets
  <2>1. \A g \in Fgts : Holds(targets, g)'
    BY <1>3 DEF Holds, NoTargets, NoRecord
  <2> QED
    BY <1>3, <2>1 DEF HandlerState, GoneBare
<1> QED
  BY <1>2, <1>3

\* A discovery sync, and the other writers.
LEMMA OthersHeld ==
  ASSUME HeldInv, NEW w, Slots = {w}, TypeOK',
         \/ \E g \in Fgts, m \in Macs : SyncBegin(w, g, m)
         \/ SyncUpdate(w) \/ SyncSight(w) \/ SyncAuto(w)
         \/ PutBegin(w) \/ PutWrite(w) \/ DeleteBegin(w) \/ DeleteWrite(w)
  PROVE  GoneBare' /\ HandlerState(w)'
<1>0. TypeOK /\ h[w] \in Handler /\ Idle \in Handler /\ Idle.pc = "idle"
  BY HandlerFields, ReadTyped DEF HeldInv, Pcs
<1>1. ASSUME NEW g \in Fgts, NEW m \in Macs, SyncBegin(w, g, m)
      PROVE  GoneBare' /\ HandlerState(w)'
  <2>1. h'[w].pc = "s_update" /\ h[w].pc = "idle"
    BY <1>0, <1>1 DEF SyncBegin, Begin, Become, Read, Idle, TypeOK
  <2> QED
    BY <1>1, <2>1, IndifferentHeld DEF SyncBegin, Pushing, row
<1>2. CASE SyncUpdate(w)
  <2>1. h'[w] = [h[w] EXCEPT !.pc = "s_sight"] /\ h[w].pc = "s_update"
    BY <1>0, <1>2 DEF SyncUpdate, Become, TypeOK
  <2>2. h'[w].pc = "s_sight"
    BY <1>0, <2>1 DEF Handler
  <2>3. targets' = targets /\ (status' = status \/ (Exists /\ status' # "deleted"))
    BY <1>2 DEF SyncUpdate
  <2> QED
    BY <1>2, <2>1, <2>2, <2>3, IndifferentHeld DEF SyncUpdate, Pushing
<1>3. CASE SyncSight(w)
  <2>1. h'[w] = [h[w] EXCEPT !.pc = "s_auto"] /\ h[w].pc = "s_sight"
    BY <1>0, <1>3 DEF SyncSight, Become, TypeOK
  <2>2. h'[w].pc = "s_auto"
    BY <1>0, <2>1 DEF Handler
  <2> QED
    BY <1>3, <2>1, <2>2, IndifferentHeld DEF SyncSight, Pushing, row
<1>4. CASE SyncAuto(w)
  <2>1. h[w].pc = "s_auto" /\ UNCHANGED <<row, dev, ghosts>> /\ GoneBare'
    BY <1>4 DEF SyncAuto, HeldInv, GoneBare, row
  <2>2. CASE Become(w, QuarantineRead(Fgts))
    BY <2>1, <2>2, BeginHeld DEF Pushing
  <2>3. CASE Become(w, VerifyRead)
    BY <2>1, <2>3, VerifyReadHeld DEF Pushing
  <2>4. CASE Finish(w)
    <3>1. h'[w].pc = "idle"
      BY <1>0, <2>4, BecomeTyped DEF Finish
    <3> QED
      BY <2>1, <3>1, IndifferentHeld DEF Pushing, row
  <2> QED
    BY <1>4, <2>2, <2>3, <2>4 DEF SyncAuto
<1>5. CASE PutBegin(w) \/ DeleteBegin(w)
  <2>1. h'[w].pc \in {"put", "delete"} /\ h[w].pc = "idle"
    BY <1>0, <1>5 DEF PutBegin, DeleteBegin, Begin, Become, Read, Idle, TypeOK
  <2> QED
    BY <1>5, <2>1, IndifferentHeld DEF PutBegin, DeleteBegin, Pushing, row
<1>6. CASE PutWrite(w)
  <2>1. h'[w].pc = "idle" /\ h[w].pc = "put"
    BY <1>0, <1>6, BecomeTyped DEF PutWrite, Finish
  <2> QED
    BY <1>6, <2>1, IndifferentHeld DEF PutWrite, Pushing
<1>7. CASE DeleteWrite(w)
  <2>1. h'[w].pc = "idle" /\ h[w].pc = "delete"
    BY <1>0, <1>7, BecomeTyped DEF DeleteWrite, Finish
  <2> QED
    BY <1>7, <2>1, IndifferentHeld DEF DeleteWrite, Pushing
<1> QED
  BY <1>1, <1>2, <1>3, <1>4, <1>5, <1>6, <1>7

\* What happens without a request: an edit at a FortiGate takes the claim about
\* it back, and nothing else bears on the claims.
LEMMA EnvironmentHeld ==
  ASSUME HeldInv, NEW w, Slots = {w}, Environment
  PROVE  GoneBare' /\ HandlerState(w)'
<1>0. TypeOK /\ GoneBare /\ HandlerState(w)
  BY DEF HeldInv
<1>1. /\ h' = h /\ targets' = targets /\ told' = told /\ touched \subseteq touched'
      /\ status' = status \/ (Exists /\ status' # "deleted")
      /\ \A x \in Fgts : x \in touched' \/ dev'[x] = dev[x]
  <2>1. CASE \E m \in Macs : RemoveMac(m)
    BY <2>1 DEF RemoveMac, row, ghosts
  <2>2. CASE Decommission
    BY <2>2 DEF Decommission, ghosts
  <2>3. CASE \E g \in Fgts : Age(g)
    BY <2>3 DEF Age, row, ghosts
  <2>4. CASE \E g \in Fgts : \E to \in {"on", "off", "gone"} : Toggle(g, to)
    BY <2>4 DEF Toggle, row, ghosts
  <2>5. CASE \E g \in Fgts, t \in DevTargets : AdminEdit(g, t)
    BY <1>0, <2>5 DEF AdminEdit, row, TypeOK
  <2> QED
    BY <2>1, <2>2, <2>3, <2>4, <2>5 DEF Environment
<1>2. \A g \in Fgts : /\ Holds(targets, g) => Holds(targets, g)'
                      /\ Holds(h[w].list, g) => Holds(h[w].list, g)'
                      /\ Current(w, g)' <=> Current(w, g)
  BY <1>1 DEF Holds, Present, Current
<1>3. PushState(w) => PushState(w)'
  <2>1. \A g \in h[w].todo : Current(w, g)' <=> Current(w, g)
    BY <1>1 DEF Current
  <2> QED
    BY <1>1, <1>2, <2>1 DEF PushState
<1> QED
  BY <1>0, <1>1, <1>2, <1>3 DEF HandlerState, GoneBare, Exists

\* Nothing is claimed at the start.
LEMMA InitHeld == Init => HeldInv
<1> SUFFICES ASSUME Init PROVE HeldInv
  OBVIOUS
<1>1. TypeOK /\ Located
  BY InitTyped
<1>2. \A w \in Slots : h[w].pc = "idle"
  BY DEF Init, Idle
<1>3. \A g \in Fgts : Holds(targets, g)
  BY DEF Init, Holds, NoTargets, NoRecord
<1>4. \A w \in Slots : HandlerState(w)
  BY <1>2, <1>3 DEF HandlerState, Pushing
<1> QED
  BY <1>1, <1>4 DEF HeldInv, GoneBare, Init

\* With one request at a time, every step keeps what is on record true.
LEMMA StepHeld ==
  ASSUME HeldInv, [Next]_vars, NEW w, Slots = {w}
  PROVE  HeldInv'
<1>0. TypeOK' /\ Located' /\ TypeOK /\ Located
  BY StepTyped DEF HeldInv
<1>1. CASE UNCHANGED vars
  BY <1>0, <1>1 DEF vars, row, env, ghosts, HeldInv, GoneBare, HandlerState, PushState, Holds,
                    Present, Current
<1>2. CASE Start(w)
  BY <1>0, <1>2, QuarantineHeld, ReleaseHeld, VerifyHeld, OthersHeld DEF Start, HeldInv
<1>3. CASE Continue(w)
  BY <1>0, <1>3, QuarantineHeld, ReleaseHeld, VerifyHeld, OthersHeld DEF Continue, HeldInv
<1>4. CASE Environment
  BY <1>0, <1>4, EnvironmentHeld DEF HeldInv
<1> QED
  BY <1>1, <1>2, <1>3, <1>4 DEF Next, Step

\* With one request on the asset at a time, whatever its FortiGates, MACs, load
\* and faults: at rest, a FortiGate recorded as synced blocks every MAC that was
\* pushed to it, unless a later call to it was reported as failed or somebody
\* edited the target there.
THEOREM SyncedHeldHolds ==
  ASSUME NEW w, Slots = {w}
  PROVE  Spec => []SyncedHeld
<1>1. HeldInv => SyncedHeld
  BY DEF HeldInv, HandlerState, SyncedHeld, Quiescent, Holds, Pushing
<1>2. HeldInv /\ [Next]_vars => HeldInv'
  BY StepHeld
<1> QED
  BY <1>1, <1>2, InitHeld, PTL DEF Spec

-----------------------------------------------------------------------------
(* What is enforced is on record or was reported, in the steady loads.     *)

\* In a steady load every candidate stays one.
LEMMA SteadyFacts ==
  ASSUME HeldInv, SteadyInv, Steady, NEW w, Slots = {w}
  PROVE  /\ TypeOK /\ SteadyState /\ SteadyHandler(w) /\ h[w] \in Handler
         /\ Scopes = {Fgts} /\ Candidates(Fgts) = sighted
<1>1. TypeOK /\ SteadyState /\ SteadyHandler(w)
  BY DEF HeldInv, SteadyInv
<1>2. Scopes = {Fgts}
  BY DEF Scopes, Steady
<1>3. Candidates(Fgts) = sighted
  BY <1>1 DEF Candidates, SteadyState, TypeOK
<1> QED
  BY <1>1, <1>2, <1>3, HandlerFields

\* A failed push was reported, and its FortiGate is on the list.
LEMMA FailSteady ==
  ASSUME HeldInv, SteadyInv, Steady, NEW w, Slots = {w},
         h[w].pc \in {"q_post", "q_macs", "q_verify"}, PushFails(w),
         \A g \in Fgts : g # h[w].g => dev'[g] = dev[g],
         UNCHANGED <<row, env>>
  PROVE  SteadyState' /\ SteadyHandler(w)'
<1>0. /\ h[w].g \in Fgts /\ TypeOK /\ SteadyState /\ SteadyHandler(w) /\ h[w] \in Handler
      /\ h[w].list \in [Fgts -> Record]
  BY SteadyFacts, HandlerFields DEF HeldInv, Located
<1>1. /\ h'[w].pc \in {"q_next", "q_rollback"} /\ h'[w].g = h[w].g
      /\ h'[w].list = [h[w].list EXCEPT ![h[w].g] = Failed] /\ h'[w].todo = h[w].todo
      /\ told' = told \cup {h[w].g}
  <2>1. /\ h'[w] = [h[w] EXCEPT !.list = [h[w].list EXCEPT ![h[w].g] = Failed],
                                !.pc = IF h[w].isNew THEN "q_rollback" ELSE "q_next"]
        /\ told' = told \cup {h[w].g}
    BY <1>0, FailedTyped
  <2> QED
    BY <1>0, <2>1 DEF Handler
<1>2. \A g \in Fgts : h'[w].list[g] = IF g = h[w].g THEN Failed ELSE h[w].list[g]
  BY <1>0, <1>1
<1>3. status' = status /\ targets' = targets /\ sighted' = sighted /\ intg' = intg
  BY DEF row, env
<1>4. /\ \A g \in Fgts : dev[g].held => g \in told \cup sighted
      /\ \A g \in sighted : h[w].list[g].st # "none" \/ g \in h[w].todo \/ g = h[w].g
      /\ \A g \in Fgts : h[w].list[g].st # "none" => g \in sighted
      /\ h[w].todo \subseteq sighted /\ h[w].g \in sighted /\ Exists
      /\ sighted \subseteq Fgts
  BY <1>0 DEF SteadyHandler, Pushing, Current, TypeOK
<1>5. SteadyState'
  BY <1>0, <1>3 DEF SteadyState, Recorded
<1>6. /\ Exists' /\ h'[w].todo \subseteq sighted' /\ h'[w].g \in sighted'
      /\ \A g \in Fgts : dev'[g].held => g \in told' \cup sighted'
      /\ \A g \in sighted' : h'[w].list[g].st # "none" \/ g \in h'[w].todo
      /\ \A g \in Fgts : h'[w].list[g].st # "none" => g \in sighted'
  <2>1. \A g \in Fgts : dev'[g].held => g \in told' \cup sighted'
    BY <1>1, <1>3, <1>4
  <2>2. \A g \in sighted : h'[w].list[g].st # "none" \/ g \in h'[w].todo
    BY <1>1, <1>2, <1>4 DEF Failed
  <2>3. \A g \in Fgts : h'[w].list[g].st # "none" => g \in sighted
    BY <1>2, <1>4
  <2> QED
    BY <1>1, <1>3, <1>4, <2>1, <2>2, <2>3 DEF Exists
<1> QED
  BY <1>1, <1>5, <1>6 DEF SteadyHandler, Pushing, Current

\* A device write of a push is at a FortiGate that sees the asset.
LEMMA WriteSteady ==
  ASSUME HeldInv, SteadyInv, Steady, NEW w, Slots = {w},
         h[w].pc \in {"q_post", "q_macs"},
         NEW can, NEW after, NEW hw \in Handler, hw.g = h[w].g, hw.list = h[w].list,
         hw.todo = h[w].todo, hw.pc \in {"q_macs", "q_verify"},
         DeviceWrite(w, can, after, hw), UNCHANGED <<row, env>>
  PROVE  SteadyState' /\ SteadyHandler(w)'
<1>0. /\ h[w].g \in Fgts /\ TypeOK /\ SteadyState /\ SteadyHandler(w)
  BY SteadyFacts DEF HeldInv, Located
<1>1. \A g \in Fgts : g # h[w].g => dev'[g] = dev[g]
  BY <1>0 DEF DeviceWrite, TypeOK
<1>2. CASE PushFails(w)
  BY <1>1, <1>2, FailSteady
<1>3. CASE Become(w, hw) /\ UNCHANGED ghosts
  <2>1. h'[w] = hw
    BY <1>0, <1>3, BecomeTyped
  <2>2. told' = told /\ status' = status /\ targets' = targets /\ sighted' = sighted
        /\ intg' = intg
    BY <1>3 DEF ghosts, row, env
  <2>3. SteadyState'
    BY <1>0, <2>2 DEF SteadyState, Recorded
  <2>4. /\ \A g \in Fgts : dev[g].held => g \in told \cup sighted
        /\ \A g \in sighted : h[w].list[g].st # "none" \/ g \in h[w].todo \/ g = h[w].g
        /\ \A g \in Fgts : h[w].list[g].st # "none" => g \in sighted
        /\ h[w].todo \subseteq sighted /\ h[w].g \in sighted /\ Exists
    BY <1>0 DEF SteadyHandler, Pushing, Current
  <2>5. \A g \in Fgts : dev'[g].held => g \in told' \cup sighted'
    BY <1>1, <2>2, <2>4
  <2> QED
    BY <2>1, <2>2, <2>3, <2>4, <2>5 DEF SteadyHandler, Pushing, Current, Exists
<1> QED
  BY <1>2, <1>3 DEF DeviceWrite, ghosts

\* quarantineAsset: every FortiGate that sees the asset gets on the list.
LEMMA QuarantineSteady ==
  ASSUME HeldInv, SteadyInv, Steady, NEW w, Slots = {w},
         \/ \E scope \in Scopes : QuarantineBegin(w, scope)
         \/ \E g \in Fgts : PushGet(w, g)
         \/ PushPost(w) \/ PushMacs(w) \/ PushVerify(w) \/ PushRollback(w) \/ QuarantineCommit(w)
  PROVE  SteadyState' /\ SteadyHandler(w)'
<1>0. /\ TypeOK /\ SteadyState /\ SteadyHandler(w) /\ h[w] \in Handler
      /\ h[w].list \in [Fgts -> Record] /\ h[w].todo \subseteq Fgts /\ sighted \subseteq Fgts
  BY SteadyFacts, HandlerFields DEF TypeOK
<1>a. h[w].pc \in {"q_post", "q_macs", "q_verify", "q_rollback"} => h[w].g \in Fgts
  BY DEF HeldInv, Located
<1>b. h[w].pc \in Pushing =>
        /\ \A g \in Fgts : dev[g].held => g \in told \cup sighted
        /\ \A g \in sighted : \/ h[w].list[g].st # "none" \/ g \in h[w].todo
                              \/ h[w].pc # "q_next" /\ g = h[w].g
        /\ \A g \in Fgts : h[w].list[g].st # "none" => g \in sighted
        /\ h[w].todo \subseteq sighted /\ Exists
        /\ h[w].pc # "q_next" => h[w].g \in sighted
  BY <1>0 DEF SteadyHandler, Current
<1>1. CASE \E scope \in Scopes : QuarantineBegin(w, scope)
  <2>1. QuarantineBegin(w, Fgts)
    BY <1>1, SteadyFacts
  <2>2. Candidates(Fgts) = sighted /\ sighted \in SUBSET Fgts /\ "q_next" \in Pcs
    BY SteadyFacts DEF TypeOK, Pcs
  <2>3. /\ QuarantineRead(Fgts) \in Handler /\ QuarantineRead(Fgts).pc = "q_next"
        /\ QuarantineRead(Fgts).list = NoTargets /\ QuarantineRead(Fgts).todo = sighted
    BY <1>0, <2>2, ReadTyped DEF QuarantineRead
  <2>4. h'[w] = QuarantineRead(Fgts)
    BY <1>0, <2>1, <2>3, BecomeTyped DEF QuarantineBegin
  <2>5. /\ status' = status /\ targets' = targets /\ sighted' = sighted /\ intg' = intg
        /\ dev' = dev /\ told' = told /\ Exists /\ h[w].pc = "idle"
    BY <2>1 DEF QuarantineBegin, Begin, row, env, ghosts
  <2>6. \A g \in Fgts : dev[g].held => g \in told \cup sighted
    BY <1>0, <2>5 DEF SteadyHandler, SteadyState
  <2>7. \A g \in Fgts : NoTargets[g].st = "none"
    BY DEF NoTargets, NoRecord
  <2>8. SteadyState'
    BY <1>0, <2>5 DEF SteadyState, Recorded
  <2> QED
    BY <1>0, <2>3, <2>4, <2>5, <2>6, <2>7, <2>8 DEF SteadyHandler, Pushing, Exists
<1>2. ASSUME NEW g \in Fgts, PushGet(w, g) PROVE SteadyState' /\ SteadyHandler(w)'
  <2> DEFINE rest == [h[w] EXCEPT !.g = g, !.todo = @ \ {g}, !.isNew = FALSE]
             ok == [rest EXCEPT !.pc = IF dev[g].held THEN "q_macs" ELSE "q_post",
                                !.isNew = ~dev[g].held,
                                !.add = h[w].macs \ dev[g].macs,
                                !.del = dev[g].macs \ h[w].macs]
             bad == [rest EXCEPT !.list[g] = Failed]
  <2>1. /\ h[w].pc = "q_next" /\ g \in h[w].todo /\ status' = status
        /\ targets' = targets /\ dev' = dev /\ sighted' = sighted /\ intg' = intg
    BY <1>2 DEF PushGet, row, env
  <2>2. SteadyState'
    BY <1>0, <2>1 DEF SteadyState, Recorded
  <2>3. CASE Become(w, ok) /\ UNCHANGED ghosts
    <3>1. h'[w] = ok
      BY <1>0, <2>3 DEF Become, TypeOK
    <3>2. /\ h'[w].pc \in {"q_macs", "q_post"} /\ h'[w].g = g
          /\ h'[w].todo = h[w].todo \ {g} /\ h'[w].list = h[w].list
      BY <1>0, <3>1 DEF Handler
    <3>3. told' = told
      BY <2>3 DEF ghosts
    <3> HIDE DEF ok
    <3> QED
      BY <1>b, <2>1, <2>2, <3>2, <3>3 DEF SteadyHandler, Pushing, Current, Exists
  <2>4. CASE Become(w, bad) /\ told' = told \cup {g}
    <3>1. h'[w] = bad
      BY <1>0, <2>4 DEF Become, TypeOK
    <3>2. /\ h'[w].pc = "q_next"
          /\ h'[w].todo = h[w].todo \ {g} /\ h'[w].list = [h[w].list EXCEPT ![g] = Failed]
      BY <1>0, <2>1, <3>1 DEF Handler
    <3>3. \A x \in Fgts : h'[w].list[x] = IF x = g THEN Failed ELSE h[w].list[x]
      BY <1>0, <3>2
    <3>4. /\ \A x \in sighted : h'[w].list[x].st # "none" \/ x \in h'[w].todo
          /\ \A x \in Fgts : h'[w].list[x].st # "none" => x \in sighted
      BY <1>0, <1>b, <2>1, <3>2, <3>3 DEF Failed, Pushing
    <3> HIDE DEF bad
    <3> QED
      BY <1>b, <2>1, <2>2, <2>4, <3>2, <3>4 DEF SteadyHandler, Pushing, Exists
  <2> QED
    BY <1>2, <2>3, <2>4 DEF PushGet
<1>3. CASE PushPost(w)
  <2> DEFINE hw == [h[w] EXCEPT !.pc = "q_verify"]
  <2>1. /\ hw \in Handler /\ hw.g = h[w].g /\ hw.list = h[w].list /\ hw.todo = h[w].todo
        /\ hw.pc = "q_verify"
    BY <1>0 DEF Handler, Pcs
  <2>2. DeviceWrite(w, ~dev[h[w].g].held, Target(h[w].macs), hw) /\ UNCHANGED <<row, env>>
        /\ h[w].pc = "q_post"
    BY <1>3 DEF PushPost
  <2> QED
    BY <2>1, <2>2, WriteSteady
<1>4. CASE PushMacs(w)
  <2> DEFINE t == dev[h[w].g]
  <2>1. UNCHANGED <<row, env>> /\ h[w].pc = "q_macs"
    BY <1>4 DEF PushMacs
  <2>2. ASSUME NEW m \in h[w].add,
               DeviceWrite(w, t.held /\ m \notin t.macs, Target(t.macs \cup {m}),
                           [h[w] EXCEPT !.add = @ \ {m}])
        PROVE  SteadyState' /\ SteadyHandler(w)'
    <3> DEFINE hw == [h[w] EXCEPT !.add = @ \ {m}]
    <3>1. /\ hw \in Handler /\ hw.g = h[w].g /\ hw.list = h[w].list
          /\ hw.todo = h[w].todo /\ hw.pc = "q_macs"
      BY <1>0, <2>1 DEF Handler
    <3> QED
      BY <2>1, <2>2, <3>1, WriteSteady
  <2>3. ASSUME NEW m \in h[w].del,
               DeviceWrite(w, t.held /\ m \in t.macs, Target(t.macs \ {m}),
                           [h[w] EXCEPT !.del = @ \ {m}])
        PROVE  SteadyState' /\ SteadyHandler(w)'
    <3> DEFINE hw == [h[w] EXCEPT !.del = @ \ {m}]
    <3>1. /\ hw \in Handler /\ hw.g = h[w].g /\ hw.list = h[w].list
          /\ hw.todo = h[w].todo /\ hw.pc = "q_macs"
      BY <1>0, <2>1 DEF Handler
    <3> QED
      BY <2>1, <2>3, <3>1, WriteSteady
  <2>4. ASSUME Become(w, [h[w] EXCEPT !.pc = "q_verify"]), UNCHANGED <<dev, ghosts>>
        PROVE  SteadyState' /\ SteadyHandler(w)'
    <3>1. h'[w] = [h[w] EXCEPT !.pc = "q_verify"]
      BY <1>0, <2>4 DEF Become, TypeOK
    <3>2. /\ h'[w].g = h[w].g /\ h'[w].list = h[w].list /\ h'[w].todo = h[w].todo
          /\ h'[w].pc = "q_verify"
      BY <1>0, <3>1 DEF Handler
    <3>3. /\ status' = status /\ targets' = targets /\ dev' = dev /\ sighted' = sighted
          /\ intg' = intg /\ told' = told
      BY <2>1, <2>4 DEF row, env, ghosts
    <3>4. SteadyState'
      BY <1>0, <3>3 DEF SteadyState, Recorded
    <3> QED
      BY <1>b, <2>1, <3>2, <3>3, <3>4 DEF SteadyHandler, Pushing, Current, Exists
  <2> QED
    BY <1>4, <2>2, <2>3, <2>4 DEF PushMacs
<1>5. CASE PushVerify(w)
  <2>1. h[w].pc = "q_verify" /\ UNCHANGED <<row, env, dev>>
    BY <1>5 DEF PushVerify
  <2>2. CASE PushFails(w)
    BY <2>1, <2>2, FailSteady
  <2>3. CASE Verified(w)
    <3> DEFINE done == [st |-> "synced", macs |-> h[w].macs]
    <3>1. h'[w] = [h[w] EXCEPT !.list = [h[w].list EXCEPT ![h[w].g] = done], !.pc = "q_next"]
      BY <1>0, <2>3 DEF Verified, Become, TypeOK
    <3>2. /\ h'[w].pc = "q_next" /\ h'[w].list = [h[w].list EXCEPT ![h[w].g] = done]
          /\ h'[w].todo = h[w].todo
      BY <1>0, <3>1 DEF Handler
    <3>3. \A x \in Fgts : h'[w].list[x] = IF x = h[w].g THEN done ELSE h[w].list[x]
      BY <1>0, <3>2
    <3>4. /\ status' = status /\ targets' = targets /\ dev' = dev /\ sighted' = sighted
          /\ intg' = intg /\ told' = told \ {h[w].g}
      BY <2>1, <2>3 DEF row, env, Verified
    <3>5. h[w].g \in sighted /\ h[w].pc \in Pushing
      BY <1>b, <2>1 DEF Pushing
    <3>6. /\ \A x \in sighted : h'[w].list[x].st # "none" \/ x \in h'[w].todo
          /\ \A x \in Fgts : h'[w].list[x].st # "none" => x \in sighted
      BY <1>0, <1>b, <3>2, <3>3, <3>5
    <3>7. SteadyState'
      BY <1>0, <3>4 DEF SteadyState, Recorded
    <3> QED
      BY <1>b, <2>1, <3>2, <3>4, <3>5, <3>6, <3>7 DEF SteadyHandler, Pushing, Exists
  <2> QED
    BY <1>5, <2>2, <2>3 DEF PushVerify
<1>6. CASE PushRollback(w)
  <2>1. /\ h'[w] = [h[w] EXCEPT !.pc = "q_next"]
        /\ h[w].pc = "q_rollback" /\ targets' = targets /\ told' = told /\ status' = status
        /\ sighted' = sighted /\ intg' = intg
    BY <1>0, <1>6 DEF PushRollback, Become, TypeOK, row, env, ghosts
  <2>2. /\ h'[w].pc = "q_next" /\ h'[w].list = h[w].list /\ h'[w].todo = h[w].todo
    BY <1>0, <2>1 DEF Handler
  <2>3. h[w].g \in Fgts /\ h[w].pc \in Pushing
    BY <1>a, <2>1 DEF Pushing
  <2>4. \A x \in Fgts : dev'[x].held => dev[x].held
    BY <1>0, <1>6 DEF PushRollback, TypeOK, Absent
  <2>5. h[w].list[h[w].g].st = "failed"
    BY <2>1, <2>3 DEF HeldInv, HandlerState, PushState
  <2>6. \A x \in sighted : h'[w].list[x].st # "none" \/ x \in h'[w].todo
    BY <1>b, <2>2, <2>3, <2>5
  <2>7. SteadyState'
    BY <1>0, <2>1 DEF SteadyState, Recorded
  <2> QED
    BY <1>b, <2>1, <2>2, <2>3, <2>4, <2>6, <2>7 DEF SteadyHandler, Pushing, Exists
<1>7. CASE QuarantineCommit(w)
  <2>1. /\ h[w].pc = "q_next" /\ dev' = dev /\ told' = told /\ h[w].todo = {}
        /\ sighted' = sighted /\ intg' = intg /\ h[w].pc \in Pushing
    BY <1>7 DEF QuarantineCommit, env, ghosts, Pushing
  <2>2. h'[w].pc = "idle"
    BY <1>0, <1>7 DEF QuarantineCommit, Finish, Become, Idle, TypeOK
  <2>3. PushState(w)
    BY <2>1 DEF HeldInv, HandlerState
  <2>4. \A g \in sighted : h[w].list[g].st # "none"
    BY <1>b, <2>1
  <2>5. CASE \E g \in Fgts : h[w].list[g].st = "synced"
    <3>1. targets' = h[w].list /\ status' = "quarantined"
      BY <1>7, <1>b, <2>1, <2>5 DEF QuarantineCommit
    <3>2. SteadyState'
      BY <1>0, <1>b, <2>1, <3>1 DEF SteadyState, Recorded
    <3>3. \A g \in Fgts : dev'[g].held => g \in Recorded' \/ g \in told'
      BY <1>b, <2>1, <2>4, <3>1 DEF Recorded
    <3> QED
      BY <2>2, <3>1, <3>2, <3>3 DEF SteadyHandler, Pushing
  <2>6. CASE ~\E g \in Fgts : h[w].list[g].st = "synced"
    <3>1. targets' = targets /\ status' = status
      BY <1>7, <2>6 DEF QuarantineCommit, row
    <3>2. \A g \in sighted : g \in told
      BY <1>0, <2>3, <2>4, <2>6 DEF PushState
    <3>3. \A g \in Fgts : dev'[g].held => g \in told'
      BY <1>b, <2>1, <3>2
    <3>4. SteadyState'
      BY <1>0, <2>1, <3>1 DEF SteadyState, Recorded
    <3> QED
      BY <2>2, <3>3, <3>4 DEF SteadyHandler, Pushing
  <2> QED
    BY <2>5, <2>6
<1> QED
  BY <1>1, <1>2, <1>3, <1>4, <1>5, <1>6, <1>7

\* releaseQuarantine goes to every FortiGate on record.
LEMMA ReleaseSteady ==
  ASSUME HeldInv, SteadyInv, Steady, NEW w, Slots = {w},
         \/ \E scope \in Scopes : ReleaseBegin(w, scope)
         \/ \E g \in Fgts : ReleaseUnpush(w, g)
         \/ ReleaseCommit(w)
  PROVE  SteadyState' /\ SteadyHandler(w)'
<1>0. /\ TypeOK /\ SteadyState /\ SteadyHandler(w) /\ h[w] \in Handler
  BY SteadyFacts
<1>1. ASSUME NEW scope, ReleaseBegin(w, scope) PROVE SteadyState' /\ SteadyHandler(w)'
  <2>1. Recorded \in SUBSET Fgts /\ "r_next" \in Pcs
    BY DEF Recorded, Pcs
  <2>2. /\ Read("r_next", Recorded) \in Handler /\ Read("r_next", Recorded).pc = "r_next"
        /\ Read("r_next", Recorded).todo = Recorded
    BY <1>0, <2>1, ReadTyped
  <2>3. h'[w] = Read("r_next", Recorded)
    BY <1>0, <1>1, <2>2, BecomeTyped DEF ReleaseBegin
  <2>4. /\ targets' = targets /\ sighted' = sighted /\ intg' = intg /\ dev' = dev
        /\ told' = told /\ h[w].pc = "idle"
    BY <1>1 DEF ReleaseBegin, Begin, row, env, ghosts
  <2>5. \A g \in Fgts : dev[g].held => g \in Recorded \/ g \in told
    BY <1>0, <2>4 DEF SteadyHandler
  <2>6. SteadyState'
    BY <1>0, <2>4 DEF SteadyState, Recorded
  <2>7. h'[w].pc = "r_next" /\ \A g \in Fgts : dev'[g].held => g \in told' \/ g \in h'[w].todo
    BY <2>2, <2>3, <2>4, <2>5
  <2> QED
    BY <2>6, <2>7 DEF SteadyHandler, Pushing
<1>2. ASSUME NEW g \in Fgts, ReleaseUnpush(w, g) PROVE SteadyState' /\ SteadyHandler(w)'
  <2>1. h'[w] = [h[w] EXCEPT !.todo = @ \ {g}] /\ h[w].pc = "r_next"
    BY <1>0, <1>2 DEF ReleaseUnpush, Become, TypeOK
  <2>2. h'[w].pc = "r_next" /\ h'[w].todo = h[w].todo \ {g}
    BY <1>0, <2>1 DEF Handler
  <2>3. targets' = targets /\ sighted' = sighted /\ intg' = intg
    BY <1>2 DEF ReleaseUnpush, row, env
  <2>4. SteadyState'
    BY <1>0, <2>3 DEF SteadyState, Recorded
  <2>5. \A x \in Fgts : dev[x].held => x \in told \/ x \in h[w].todo
    BY <1>0, <2>1 DEF SteadyHandler
  <2>6. ASSUME NEW x \in Fgts, dev'[x].held PROVE x \in told' \/ x \in h'[w].todo
    <3>1. CASE x = g
      <4>1. told' = told \cup {g} \/ ~dev'[g].held
        BY <1>0, <1>2 DEF ReleaseUnpush, TypeOK, Absent
      <4> QED
        BY <2>6, <3>1, <4>1
    <3>2. CASE x # g
      <4>1. dev'[x] = dev[x] /\ (x \in told <=> x \in told')
        BY <1>0, <1>2, <3>2 DEF ReleaseUnpush, TypeOK
      <4> QED
        BY <2>2, <2>5, <2>6, <3>2, <4>1
    <3> QED
      BY <3>1, <3>2
  <2> QED
    BY <2>2, <2>4, <2>6 DEF SteadyHandler, Pushing
<1>3. CASE ReleaseCommit(w)
  <2>1. h'[w].pc = "idle"
    BY <1>0, <1>3 DEF ReleaseCommit, Finish, Become, Idle, TypeOK
  <2>2. /\ h[w].pc = "r_next" /\ h[w].todo = {} /\ dev' = dev /\ told' = told
        /\ sighted' = sighted /\ intg' = intg
    BY <1>3 DEF ReleaseCommit, env, ghosts
  <2>3. \A g \in Fgts : dev'[g].held => g \in told'
    BY <1>0, <2>2 DEF SteadyHandler
  <2>4. targets' = targets \/ targets' = NoTargets
    BY <1>3 DEF ReleaseCommit, row
  <2>5. SteadyState'
    BY <1>0, <2>2, <2>4 DEF SteadyState, Recorded, NoTargets, NoRecord
  <2> QED
    BY <2>1, <2>3, <2>5 DEF SteadyHandler, Pushing
<1> QED
  BY <1>1, <1>2, <1>3

\* verifyAssetQuarantine keeps every FortiGate on record.
LEMMA VerifySteady ==
  ASSUME HeldInv, SteadyInv, Steady, NEW w, Slots = {w},
         \/ \E scope \in Scopes : VerifyBegin(w, scope)
         \/ \E g \in Fgts : VerifyGet(w, g)
         \/ VerifyCommit(w)
  PROVE  SteadyState' /\ SteadyHandler(w)'
<1>0. /\ TypeOK /\ SteadyState /\ SteadyHandler(w) /\ h[w] \in Handler
      /\ h[w].list \in [Fgts -> Record]
  BY SteadyFacts, HandlerFields
<1>1. ASSUME NEW scope, VerifyBegin(w, scope) PROVE SteadyState' /\ SteadyHandler(w)'
  <2>1. h'[w] = VerifyRead /\ VerifyRead.pc = "v_next" /\ VerifyRead.list = targets
    BY <1>0, <1>1, VerifyReadTyped, BecomeTyped DEF VerifyBegin
  <2>2. /\ targets' = targets /\ sighted' = sighted /\ intg' = intg /\ dev' = dev
        /\ told' = told /\ h[w].pc = "idle" /\ status' = status
    BY <1>1 DEF VerifyBegin, Begin, row, env, ghosts
  <2> QED
    BY <1>0, <2>1, <2>2 DEF SteadyState, SteadyHandler, Recorded, Pushing
<1>2. ASSUME NEW g \in Fgts, VerifyGet(w, g) PROVE SteadyState' /\ SteadyHandler(w)'
  <2> DEFINE rest == [h[w] EXCEPT !.todo = @ \ {g}]
             lost == [rest EXCEPT !.list[g].st = "drift", !.drift = TRUE]
  <2>1. /\ h[w].pc = "v_next" /\ UNCHANGED <<row, env, dev, ghosts>>
        /\ h'[w] = rest \/ (h'[w] = lost /\ h[w].list[g].st = "synced")
    BY <1>0, <1>2 DEF VerifyGet, Become, TypeOK
  <2>2. rest \in Handler /\ rest.list = h[w].list /\ rest.pc = h[w].pc
    BY <1>0 DEF Handler
  <2>3. lost.list = [h[w].list EXCEPT ![g].st = "drift"] /\ lost.pc = h[w].pc
    <3> HIDE DEF rest
    <3> QED
      BY <2>2 DEF Handler
  <2>4. /\ h'[w].pc = "v_next"
        /\ \A x \in Fgts : h'[w].list[x].st = "none" <=> h[w].list[x].st = "none"
    <3>1. CASE h'[w] = rest
      BY <2>1, <2>2, <3>1
    <3>2. CASE h'[w] = lost /\ h[w].list[g].st = "synced"
      <4>1. h[w].list[g] \in Record
        BY <1>0
      <4>2. [h[w].list[g] EXCEPT !.st = "drift"].st = "drift"
        BY <4>1 DEF Record
      <4>3. h'[w].list = [h[w].list EXCEPT ![g] = [h[w].list[g] EXCEPT !.st = "drift"]]
        BY <2>3, <3>2
      <4> QED
        BY <1>0, <2>1, <2>3, <3>2, <4>2, <4>3
    <3> QED
      BY <2>1, <3>1, <3>2
  <2> HIDE DEF rest, lost
  <2>5. /\ targets' = targets /\ sighted' = sighted /\ intg' = intg /\ dev' = dev
        /\ told' = told /\ status' = status
    BY <2>1 DEF row, env, ghosts
  <2> QED
    BY <1>0, <2>1, <2>4, <2>5 DEF SteadyState, SteadyHandler, Recorded, Pushing
<1>3. CASE VerifyCommit(w)
  <2>1. h'[w].pc = "idle" /\ h[w].pc = "v_next"
    BY <1>0, <1>3 DEF VerifyCommit, Finish, Become, Idle, TypeOK
  <2>2. \A x \in Fgts : targets'[x].st = "none" <=> targets[x].st = "none"
    BY <1>0, <1>3, <2>1 DEF VerifyCommit, SteadyHandler
  <2>3. /\ sighted' = sighted /\ intg' = intg /\ dev' = dev
        /\ told' = told /\ status' = status
    BY <1>3 DEF VerifyCommit, env, ghosts
  <2> QED
    BY <1>0, <2>1, <2>2, <2>3 DEF SteadyState, SteadyHandler, Recorded, Pushing
<1> QED
  BY <1>1, <1>2, <1>3

\* A status change or a delete is refused for a quarantined asset.
LEMMA OthersSteady ==
  ASSUME HeldInv, SteadyInv, Steady, NEW w, Slots = {w},
         PutBegin(w) \/ PutWrite(w) \/ DeleteBegin(w) \/ DeleteWrite(w)
  PROVE  SteadyState' /\ SteadyHandler(w)'
<1>0. /\ TypeOK /\ SteadyState /\ SteadyHandler(w)
  BY SteadyFacts
<1>1. CASE PutBegin(w) \/ DeleteBegin(w)
  <2>1. h'[w].pc \in {"put", "delete"} /\ h[w].pc = "idle" /\ status # "quarantined"
    BY <1>0, <1>1 DEF PutBegin, DeleteBegin, Begin, Become, Read, Idle, TypeOK
  <2>2. /\ targets' = targets /\ sighted' = sighted /\ intg' = intg /\ dev' = dev
        /\ told' = told
    BY <1>1 DEF PutBegin, DeleteBegin, row, env, ghosts
  <2>3. \A g \in Fgts : dev'[g].held => g \in told'
    BY <1>0, <2>1, <2>2 DEF SteadyHandler
  <2>4. SteadyState'
    BY <1>0, <2>2 DEF SteadyState, Recorded
  <2> QED
    BY <2>1, <2>3, <2>4 DEF SteadyHandler, Pushing
<1>2. CASE PutWrite(w) \/ DeleteWrite(w)
  <2>1. h'[w].pc = "idle" /\ h[w].pc \in {"put", "delete"}
    BY <1>0, <1>2 DEF PutWrite, DeleteWrite, Finish, Become, Idle, TypeOK
  <2>2. /\ intg' = intg /\ dev' = dev /\ told' = told
        /\ \/ targets' = targets /\ sighted' = sighted
           \/ targets' = NoTargets
    BY <1>2 DEF PutWrite, DeleteWrite, env, ghosts
  <2>3. \A g \in Fgts : dev'[g].held => g \in told'
    BY <1>0, <2>1, <2>2 DEF SteadyHandler
  <2>4. SteadyState'
    BY <1>0, <2>2 DEF SteadyState, Recorded, NoTargets, NoRecord
  <2> QED
    BY <2>1, <2>3, <2>4 DEF SteadyHandler, Pushing
<1> QED
  BY <1>1, <1>2

\* In a steady load the environment may only take a target away.
LEMMA EnvironmentSteady ==
  ASSUME HeldInv, SteadyInv, Steady, NEW w, Slots = {w}, Environment
  PROVE  SteadyState' /\ SteadyHandler(w)'
<1>0. /\ TypeOK /\ SteadyState /\ SteadyHandler(w)
  BY SteadyFacts
<1>1. /\ h' = h /\ targets' = targets /\ told' = told /\ status' = status
      /\ sighted' = sighted /\ intg' = intg
      /\ \A x \in Fgts : dev'[x].held => dev[x].held
  <2>1. CASE \E m \in Macs : RemoveMac(m)
    BY <2>1 DEF RemoveMac, row, ghosts
  <2>2. CASE \E g \in Fgts, t \in DevTargets : AdminEdit(g, t)
    BY <1>0, <2>2 DEF AdminEdit, row, env, TypeOK
  <2>3. /\ ~Decommission
        /\ \A g \in Fgts : ~Age(g) /\ \A to \in {"on", "off", "gone"} : ~Toggle(g, to)
    BY DEF Steady, Decommission, Age, Toggle
  <2> QED
    BY <2>1, <2>2, <2>3 DEF Environment
<1>2. SteadyState'
  BY <1>0, <1>1 DEF SteadyState, Recorded
<1>3. \A g \in Fgts : g \in Recorded' <=> g \in Recorded
  BY <1>1 DEF Recorded
<1>4. \A g \in sighted : Current(w, g)' <=> Current(w, g)
  BY <1>1 DEF Current
<1>5. SteadyHandler(w)'
  BY <1>0, <1>1, <1>3, <1>4 DEF SteadyHandler, Exists
<1> QED
  BY <1>2, <1>5

\* Nothing is enforced at the start.
LEMMA InitSteady == Init => SteadyInv
<1> SUFFICES ASSUME Init PROVE SteadyInv
  OBVIOUS
<1>1. SteadyState
  BY DEF Init, SteadyState, Recorded, NoTargets, NoRecord
<1>2. \A w \in Slots : h[w].pc = "idle"
  BY DEF Init, Idle
<1>3. \A g \in Fgts : ~dev[g].held
  BY DEF Init, Absent
<1>4. \A w \in Slots : SteadyHandler(w)
  BY <1>2, <1>3 DEF SteadyHandler, Pushing
<1> QED
  BY <1>1, <1>4 DEF SteadyInv

\* With one request at a time, every step of a steady load keeps what is
\* enforced on record or reported.
LEMMA StepSteady ==
  ASSUME HeldInv, SteadyInv, [Next]_vars, NEW w, Slots = {w}
  PROVE  SteadyInv'
<1>1. SUFFICES ASSUME Steady PROVE SteadyState' /\ SteadyHandler(w)'
  <2>1. mix' = mix
    BY DEF Next, vars
  <2>2. Steady' => Steady
    BY <2>1 DEF Steady
  <2> QED
    BY <2>2 DEF SteadyInv
<1>2. CASE UNCHANGED vars
  BY <1>1, <1>2, SteadyFacts
     DEF vars, row, env, ghosts, SteadyState, SteadyHandler, Recorded, Current, Exists
<1>3. CASE Start(w)
  <2>1. \A g \in Fgts, m \in Macs : ~SyncBegin(w, g, m)
    BY <1>1 DEF Steady, SyncBegin, Begin
  <2> QED
    BY <1>1, <1>3, <2>1, QuarantineSteady, ReleaseSteady, VerifySteady, OthersSteady DEF Start
<1>4. CASE Continue(w)
  <2>1. h[w].pc \notin {"s_update", "s_sight", "s_auto"}
    BY <1>1, SteadyFacts DEF SteadyHandler
  <2>2. ~SyncUpdate(w) /\ ~SyncSight(w) /\ ~SyncAuto(w)
    BY <2>1 DEF SyncUpdate, SyncSight, SyncAuto
  <2> QED
    BY <1>1, <1>4, <2>2, QuarantineSteady, ReleaseSteady, VerifySteady, OthersSteady DEF Continue
<1>5. CASE Environment
  BY <1>1, <1>5, EnvironmentSteady
<1> QED
  BY <1>2, <1>3, <1>4, <1>5 DEF Next, Step

\* With one request on the asset at a time, while no candidate drops out and
\* only the quarantine endpoints write the status: at rest, a FortiGate that
\* holds the asset's target is on the record of a quarantined asset, so that a
\* release goes there, or a failed call to it was reported.
THEOREM AccountedHolds ==
  ASSUME NEW w, Slots = {w}
  PROVE  Spec => []Accounted
<1>1. SteadyInv => Accounted
  BY DEF SteadyInv, SteadyHandler, Accounted, Quiescent
<1>2. HeldInv /\ SteadyInv /\ [Next]_vars => HeldInv' /\ SteadyInv'
  BY StepHeld, StepSteady
<1> QED
  BY <1>1, <1>2, InitHeld, InitSteady, PTL DEF Spec

=============================================================================
