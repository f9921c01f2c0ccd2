---------------------------- MODULE DiscoveryRuns ----------------------------
(***************************************************************************)
(* Discovery runs of one FortiManager integration: triggerDiscovery and    *)
(* the abort route of src/api/routes/integrations.ts, the scheduler of     *)
(* src/jobs/discoveryScheduler.ts, the slow-run check, and the database    *)
(* restore that must not meet a run.  A run makes its calls through the    *)
(* integration's FmgWorker, whose state this module shares; the run is the *)
(* signal its calls carry.  One roster call and one device call stand for  *)
(* the calls of a run, and one call without a signal for the requests of   *)
(* other features that share the worker.                                   *)
(*                                                                         *)
(* The activeDiscovery map has at most one entry for an integration, so it *)
(* is one variable.  A run goes through the phases                         *)
(*   idle, test (loads the row, tests the credentials), stamp (registered, *)
(*   writes lastDiscoveryAt), roster, device (calls awaited), sync (writes *)
(*   the device's data), finalize (deprecates what is gone), done.         *)
(***************************************************************************)
EXTENDS Naturals, Sequences, FiniteSets

CONSTANTS Runs,          \* the calls of triggerDiscovery
          Scheduled,     \* those of the scheduler; the others are operators'
          RosterOf, DeviceOf,  \* the two calls a run makes
          PushCall,      \* a call of another feature, or None
          Checkers,      \* concurrent slow-run checks
          Ops,           \* what may happen besides scheduled runs
          Calls, NoSignal, SignalOf, ProxyCalls, None

ASSUME RunAssumption == Scheduled \subseteq Runs /\ None \notin Runs
ASSUME SignalAssumption == /\ NoSignal \notin Runs
                           /\ SignalOf \in [Calls -> Runs \cup {NoSignal}]
ASSUME CallAssumption == ProxyCalls \subseteq Calls /\ None \notin Calls
ASSUME PushAssumption == PushCall # None => PushCall \in Calls /\ SignalOf[PushCall] = NoSignal
ASSUME OpsAssumption == Ops \subseteq {"abort", "testFails", "stampFails", "callFails",
                                       "restore", "slow"}

VARIABLES proxyQueue, proxyInFlight, proxyDraining, nativeInFlight,
          promise, aborted, firing, ticket, clock,
          activeDiscovery,  \* the run whose entry is in the map, or None
          run,              \* the phase of each run
          lastTestOk,       \* Integration.lastTestOk
          restoring,        \* a database restore is under way
          slowAlerted,      \* runs whose entry has the flag set
          slowEvents,       \* slow-run events emitted for each run
          checker           \* a slow-run check waiting for the baselines

W == INSTANCE FmgWorker WITH Signals <- Runs

workerVars == <<proxyQueue, proxyInFlight, proxyDraining, nativeInFlight,
                promise, aborted, firing, ticket, clock>>
runVars == <<activeDiscovery, run, lastTestOk>>
slowVars == <<slowAlerted, slowEvents, checker>>
vars == <<workerVars, runVars, restoring, slowVars>>

Phases == {"idle", "test", "stamp", "roster", "device", "sync", "finalize", "done"}

TypeOK ==
  /\ W!TypeOK
  /\ activeDiscovery \in Runs \cup {None}
  /\ run \in [Runs -> Phases]
  /\ lastTestOk \in BOOLEAN
  /\ restoring \in BOOLEAN
  /\ slowAlerted \subseteq Runs
  /\ slowEvents \in [Runs -> Nat]
  /\ checker \in [Checkers -> {"idle", "waiting"}]

Init ==
  /\ W!Init
  /\ activeDiscovery = None
  /\ run = [r \in Runs |-> "idle"]
  /\ lastTestOk = TRUE
  /\ restoring = FALSE
  /\ slowAlerted = {}
  /\ slowEvents = [r \in Runs |-> 0]
  /\ checker = [k \in Checkers |-> "idle"]

Moves(r, phase) == run' = [run EXCEPT ![r] = phase]

-----------------------------------------------------------------------------
(***************************************************************************)
(* triggerDiscovery.  Ticks of the scheduler are 15 minutes apart and the  *)
(* credential test answers or times out within seconds, so no tick falls   *)
(* into the test of an earlier scheduled run.                              *)
(***************************************************************************)
SchedulerSkips == activeDiscovery # None \/ ~lastTestOk

Trigger(r) ==
  /\ firing = {}
  /\ run[r] = "idle"
  /\ r \in Scheduled => ~SchedulerSkips /\ \A o \in Scheduled : run[o] # "test"
  /\ Moves(r, "test")
  /\ UNCHANGED <<workerVars, activeDiscovery, lastTestOk, restoring, slowVars>>

\* The credential test fails; the outcome is saved and the trigger throws.
TestFails(r) ==
  /\ "testFails" \in Ops
  /\ firing = {}
  /\ run[r] = "test"
  /\ lastTestOk' = FALSE
  /\ Moves(r, "done")
  /\ UNCHANGED <<workerVars, activeDiscovery, restoring, slowVars>>

\* The entry of the integration is replaced, and the run that owned it is
\* aborted first.
Supersede == IF activeDiscovery \in Runs \ aborted
             THEN W!Abort(activeDiscovery)
             ELSE UNCHANGED workerVars

Register(r) ==
  /\ firing = {}
  /\ run[r] = "test"
  /\ lastTestOk' = TRUE
  /\ Supersede
  /\ activeDiscovery' = r
  /\ Moves(r, "stamp")
  /\ UNCHANGED <<restoring, slowVars>>

\* lastDiscoveryAt is written; if that write fails the trigger throws and
\* nothing removes the entry.
Stamp(r) ==
  /\ firing = {}
  /\ run[r] = "stamp"
  /\ \/ Moves(r, "roster")
     \/ "stampFails" \in Ops /\ Moves(r, "done")
  /\ UNCHANGED <<workerVars, activeDiscovery, lastTestOk, restoring, slowVars>>

-----------------------------------------------------------------------------
(***************************************************************************)
(* The detached run.  discoverDhcpSubnets awaits the roster, then each     *)
(* device; a roster that fails throws out of the run, a device that fails  *)
(* is skipped.  The data of a device is written when its call is back, and *)
(* the finalize phase is only entered by a run that was not aborted.       *)
(***************************************************************************)
\* The `finally` of the run deletes the entry of the integration, whosever
\* it is.
Leaves(r) == activeDiscovery' = None /\ Moves(r, "done")

Mut_MayFinalize(r) == TRUE
MayFinalize(r) == r \notin aborted

\* discoverDhcpSubnets returned: finalize, or end.
Returned(r) == IF MayFinalize(r)
               THEN Moves(r, "finalize") /\ UNCHANGED activeDiscovery
               ELSE Leaves(r)

AskRoster(r) ==
  /\ run[r] = "roster"
  /\ W!submitNative(RosterOf[r])
  /\ UNCHANGED <<runVars, restoring, slowVars>>

\* The mutant has no case for a call that the worker rejected.
Mut_RosterBack(r) ==
  /\ firing = {}
  /\ run[r] = "roster"
  /\ \/ promise[RosterOf[r]] = "resolved" /\ Moves(r, "device") /\ UNCHANGED activeDiscovery
     \/ promise[RosterOf[r]] = "failed" /\ Leaves(r)
  /\ UNCHANGED <<workerVars, lastTestOk, restoring, slowVars>>

RosterBack(r) ==
  /\ firing = {}
  /\ run[r] = "roster"
  /\ \/ promise[RosterOf[r]] = "resolved" /\ Moves(r, "device") /\ UNCHANGED activeDiscovery
     \/ promise[RosterOf[r]] \in {"failed", "aborted"} /\ Leaves(r)
  /\ UNCHANGED <<workerVars, lastTestOk, restoring, slowVars>>

\* dispatchDevice does nothing for an aborted run.
AskDevice(r) ==
  /\ run[r] = "device" /\ promise[DeviceOf[r]] = "new"
  /\ \/ /\ r \notin aborted
        /\ W!submitProxy(DeviceOf[r])
        /\ UNCHANGED <<activeDiscovery, run>>
     \/ /\ r \in aborted /\ firing = {}
        /\ Returned(r)
        /\ UNCHANGED workerVars
  /\ UNCHANGED <<lastTestOk, restoring, slowVars>>

DeviceBack(r) ==
  /\ firing = {}
  /\ run[r] = "device"
  /\ \/ promise[DeviceOf[r]] = "resolved" /\ Moves(r, "sync") /\ UNCHANGED activeDiscovery
     \/ promise[DeviceOf[r]] \in {"failed", "aborted"} /\ Returned(r)
  /\ UNCHANGED <<workerVars, lastTestOk, restoring, slowVars>>

Synced(r) ==
  /\ firing = {}
  /\ run[r] = "sync"
  /\ Returned(r)
  /\ UNCHANGED <<workerVars, lastTestOk, restoring, slowVars>>

Finalized(r) ==
  /\ firing = {}
  /\ run[r] = "finalize"
  /\ Leaves(r)
  /\ UNCHANGED <<workerVars, lastTestOk, restoring, slowVars>>

-----------------------------------------------------------------------------
\* DELETE /integrations/:id/discover: aborts and forgets the entry.
AbortRoute ==
  /\ "abort" \in Ops
  /\ firing = {}
  /\ activeDiscovery # None
  /\ IF activeDiscovery \in aborted THEN UNCHANGED workerVars ELSE W!Abort(activeDiscovery)
  /\ activeDiscovery' = None
  /\ UNCHANGED <<run, lastTestOk, restoring, slowVars>>

\* The restore refuses to start while an entry is in the map.
Mut_MayRestore == TRUE
MayRestore == activeDiscovery = None

RestoreBegin ==
  /\ "restore" \in Ops
  /\ firing = {}
  /\ ~restoring /\ MayRestore
  /\ restoring' = TRUE
  /\ UNCHANGED <<workerVars, runVars, slowVars>>

RestoreEnd ==
  /\ firing = {}
  /\ restoring
  /\ restoring' = FALSE
  /\ UNCHANGED <<workerVars, runVars, slowVars>>

-----------------------------------------------------------------------------
\* checkForSlowRuns awaits the baselines of the runs it saw, then looks at
\* the entries again; whether a run is overdue is up to the clock.
SlowCheckBegin(k) ==
  /\ "slow" \in Ops
  /\ firing = {}
  /\ checker[k] = "idle"
  /\ activeDiscovery # None /\ activeDiscovery \notin slowAlerted
  /\ checker' = [checker EXCEPT ![k] = "waiting"]
  /\ UNCHANGED <<workerVars, runVars, restoring, slowAlerted, slowEvents>>

\* The flag is tested after the await; the mutant trusts the test before it.
Mut_NeedsAlert(r) == TRUE
NeedsAlert(r) == r \notin slowAlerted

SlowCheckEnd(k) ==
  /\ firing = {}
  /\ checker[k] = "waiting"
  /\ checker' = [checker EXCEPT ![k] = "idle"]
  /\ \/ UNCHANGED <<slowAlerted, slowEvents>>
     \/ /\ activeDiscovery # None /\ NeedsAlert(activeDiscovery)
        /\ slowAlerted' = slowAlerted \cup {activeDiscovery}
        /\ slowEvents' = [slowEvents EXCEPT ![activeDiscovery] = @ + 1]
  /\ UNCHANGED <<workerVars, runVars, restoring>>

-----------------------------------------------------------------------------
\* The worker's own steps, and the call of another feature.
Outcomes == IF "callFails" \in Ops THEN {"resolved", "failed"} ELSE {"resolved"}
WorkerStep ==
  /\ \/ \E out \in Outcomes : W!ProxySettles(out)
     \/ \E c \in Calls, out \in Outcomes : W!NativeSettles(c, out)
     \/ \E c \in Calls : W!OnAbort(c)
  /\ UNCHANGED <<runVars, restoring, slowVars>>

OtherCall == /\ PushCall # None
             /\ W!submitProxy(PushCall)
             /\ UNCHANGED <<runVars, restoring, slowVars>>

RunStep(r) ==
  \/ TestFails(r) \/ Register(r) \/ Stamp(r)
  \/ AskRoster(r) \/ RosterBack(r) \/ AskDevice(r) \/ DeviceBack(r)
  \/ Synced(r) \/ Finalized(r)

Next ==
  \/ \E r \in Runs : Trigger(r) \/ RunStep(r)
  \/ AbortRoute
  \/ RestoreBegin \/ RestoreEnd
  \/ \E k \in Checkers : SlowCheckBegin(k) \/ SlowCheckEnd(k)
  \/ WorkerStep
  \/ OtherCall

Spec == Init /\ [][Next]_vars

(***************************************************************************)
(* Database calls and requests return, so a run that can go on does; the   *)
(* scheduler keeps ticking.  Nothing obliges an operator to act.           *)
(***************************************************************************)
Fairness == /\ WF_vars(WorkerStep)
            /\ \A r \in Runs : WF_vars(RunStep(r))
            /\ \A r \in Scheduled : WF_vars(Trigger(r))

FairSpec == Spec /\ Fairness

-----------------------------------------------------------------------------
Writing(r) == run[r] \in {"sync", "finalize"}

\* A run that was aborted takes no destructive action: it does not begin to
\* deprecate what it did not see, whatever phase the abort caught it in.
AbortedNeverFinalizes ==
  [][\A r \in Runs : r \in aborted /\ run[r] # "finalize" => run'[r] # "finalize"]_vars

\* A slow run is reported once, although the background job and the polled
\* endpoint check at the same time.
OneSlowEvent == \A r \in Runs : slowEvents[r] <= 1

\* Aborting runs leaves the queued calls of other features alone.
PushUnharmed == PushCall # None => promise[PushCall] # "aborted"

\* "A discovery is currently running - wait for it to finish or abort it
\* before restoring": a restore of the database does not begin while a run
\* that nobody aborted is writing to it.  The one way around it: a run that
\* was replaced has ended since, and its `finally` took the entry of the run
\* that replaced it.
RestoreAlone ==
  [][~restoring /\ restoring' =>
       \A r \in Runs : Writing(r) /\ r \notin aborted =>
         \E o \in Runs \ {r} : o \in aborted /\ run[o] = "done"]_vars

\* A triggered run comes to its end, aborted or not, and whatever the worker
\* is doing for others.
RunsEnd == \A r \in Runs : run[r] = "test" ~> run[r] = "done"

-----------------------------------------------------------------------------
(* What the worker promises to all its users, on the calls of these runs.  *)

\* One request at most is open in the proxy lane, whoever submitted it.
OneAtATime == W!OneAtATime

\* The proxy lane sends in the order of arrival, also around aborted calls.
Fifo == W!Fifo

\* The abstract lane: the entry in flight with the queue behind it, and a
\* call that waits or is open counts as taken.
Line == IF proxyInFlight = None THEN <<>> ELSE <<proxyInFlight>> \o proxyQueue
FateOf(c) == IF promise[c] \in {"queued", "running"} THEN "taken" ELSE promise[c]
Lane == INSTANCE ProxyLane WITH Calls <- ProxyCalls, Signals <- Runs, line <- Line,
                                fate <- [c \in ProxyCalls |-> FateOf(c)], gone <- aborted

\* To its callers the proxy lane is one line whose first call is always being
\* served, answered in the order of arrival, which a call leaves only by its
\* answer or when its signal fires, and then before the lane moves on.
LaneServes == Lane!Spec

\* No caller of the proxy lane is forgotten when another run is aborted.
NotStranded == W!NotStranded

\* Nothing is sent for a run after its abort.
AbortedNotSent == W!AbortedNotSent

-----------------------------------------------------------------------------
(* The inductive invariant behind these.                                   *)

\* An event was emitted for the runs whose flag is set, and for no other.
Flagged == \A r \in Runs : slowEvents[r] = IF r \in slowAlerted THEN 1 ELSE 0

\* A registered run that nobody aborted owns the entry, unless a run that was
\* replaced has taken the entry away as it ended.
Registered == {"stamp", "roster", "device", "sync", "finalize"}
Owned == \A r \in Runs : run[r] \in Registered /\ r \notin aborted =>
           \/ activeDiscovery = r
           \/ \E o \in Runs \ {r} : o \in aborted /\ run[o] = "done"

\* A call that waits and whose signal has fired has its listener still to
\* run: drainProxy never meets such an entry.
QuitsFirst == \A c \in ProxyCalls : promise[c] = "queued" /\ W!Aborted(c) => c \in firing

\* The native lane counts the requests it has open.
NativeOpen == {c \in Calls \ ProxyCalls : promise[c] = "running"}
NativeCounted == IsFiniteSet(NativeOpen) /\ nativeInFlight = Cardinality(NativeOpen)
WorkerInv == W!LaneInv /\ NativeCounted

IInv == TypeOK /\ WorkerInv /\ Flagged /\ Owned
=============================================================================
