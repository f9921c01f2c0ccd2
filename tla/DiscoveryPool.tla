---------------------------- MODULE DiscoveryPool ----------------------------
(***************************************************************************)
(* The device pool of one FortiManager discovery run, in                   *)
(* discoverDhcpSubnets of src/services/fortimanagerService.ts.  Two        *)
(* producers hand FortiGates to dispatchDevice: the warm-cache one those   *)
(* whose management IP is known, the verify one the rest, after resolving  *)
(* the IP through FortiManager.  `executing` is the set both share, and    *)
(* its size the only semaphore; a producer that finds it full waits for    *)
(* Promise.race(executing), which wakes every waiter at once.              *)
(*                                                                         *)
(* Devices are handed over in name order; no property depends on the       *)
(* order, so a producer takes any device it has left.                      *)
(***************************************************************************)
EXTENDS Naturals, FiniteSets

CONSTANTS Devices,      \* FortiGates of the roster
          Parallelisms, \* values of config.discoveryParallelism
          None

ASSUME PoolAssumption == /\ IsFiniteSet(Devices) /\ None \notin Devices
                         /\ Parallelisms \subseteq Nat

Producers == {"warm", "verify"}

VARIABLES useProxy,    \* every call goes through FortiManager
          concurrency, \* the cap of the pool, computed once
          todo,        \* devices each producer has still to hand over
          pc, device,  \* where each producer is, and with which device
          executing,   \* devices whose task is running
          dispatched,  \* how often each device was started
          aborted,     \* the run's signal has fired
          returned     \* discoverDhcpSubnets has returned its result

vars == <<useProxy, concurrency, todo, pc, device, executing, dispatched, aborted, returned>>

config == <<useProxy, concurrency>>

TypeOK ==
  /\ useProxy \in BOOLEAN
  /\ concurrency \in Nat \ {0}
  /\ todo \in [Producers -> SUBSET Devices]
  /\ pc \in [Producers -> {"next", "resolve", "wait", "awake", "done"}]
  /\ device \in [Producers -> Devices \cup {None}]
  /\ executing \subseteq Devices
  /\ dispatched \in [Devices -> Nat]
  /\ aborted \in BOOLEAN
  /\ returned \in BOOLEAN

\* The devices of the warm cache are set aside before either producer runs,
\* so the verify producer sees the final set; in the mutant it sees the
\* first of them only.
Mut_VerifyTargets(w) == IF w = {} THEN Devices ELSE Devices \ {CHOOSE d \in w : TRUE}
VerifyTargets(w) == Devices \ w

\* FortiManager drops parallel proxy connections, so proxy mode has one slot.
Slots(proxy, p) == IF proxy \/ p = 0 THEN 1 ELSE p

Init ==
  /\ useProxy \in BOOLEAN
  /\ \E p \in Parallelisms : concurrency = Slots(useProxy, p)
  /\ \E w \in SUBSET Devices :
       /\ useProxy => w = {}
       /\ todo = [p \in Producers |-> IF p = "warm" THEN w ELSE VerifyTargets(w)]
  /\ pc = [p \in Producers |-> "next"]
  /\ device = [p \in Producers |-> None]
  /\ executing = {}
  /\ dispatched = [d \in Devices |-> 0]
  /\ aborted = FALSE
  /\ returned = FALSE

Goes(p, place) == pc' = [pc EXCEPT ![p] = place]

-----------------------------------------------------------------------------
\* dispatchDevice(d) once it holds a slot: the task starts, the producer
\* goes on to its next device.
Start(p, d) ==
  /\ executing' = executing \cup {d}
  /\ dispatched' = [dispatched EXCEPT ![d] = @ + 1]
  /\ device' = [device EXCEPT ![p] = None]
  /\ Goes(p, "next")

\* `executing.size >= concurrency`, and the same one task too early.
Mut_Full == Cardinality(executing) + 1 >= concurrency
Full == Cardinality(executing) >= concurrency

\* The device stays with the producer across an await.
Keep(p, d) == device' = [device EXCEPT ![p] = d]

\* A full pool makes the producer wait.
Claim(p, d) ==
  IF Full
  THEN Goes(p, "wait") /\ Keep(p, d) /\ UNCHANGED <<executing, dispatched>>
  ELSE Start(p, d)

\* The head of a producer's loop.  The verify producer first asks
\* FortiManager for the address of a connected device.
ProducerEnds(p) ==
  /\ pc[p] = "next"
  /\ aborted \/ todo[p] = {}
  /\ Goes(p, "done")
  /\ UNCHANGED <<config, todo, device, executing, dispatched, aborted, returned>>

ProducerTakes(p, d) ==
  /\ pc[p] = "next" /\ ~aborted /\ d \in todo[p]
  /\ todo' = [todo EXCEPT ![p] = @ \ {d}]
  /\ \/ Claim(p, d)
     \/ /\ p = "verify" /\ ~useProxy
        /\ Goes(p, "resolve")
        /\ Keep(p, d)
        /\ UNCHANGED <<executing, dispatched>>
  /\ UNCHANGED <<config, aborted, returned>>

\* dispatchDevice returns without a task when the run was aborted meanwhile.
Drop(p) == /\ device' = [device EXCEPT ![p] = None]
           /\ Goes(p, "next")
           /\ UNCHANGED <<executing, dispatched>>

\* The address arrived or could not be resolved; both go to dispatchDevice.
Resolved(p) ==
  /\ pc[p] = "resolve"
  /\ IF aborted THEN Drop(p) ELSE Claim(p, device[p])
  /\ UNCHANGED <<config, todo, aborted, returned>>

\* A woken producer tests the size again; in the mutant, with `if` for
\* `while`, it takes the slot it waited for.
Mut_Retry(p) == IF aborted THEN Drop(p) ELSE Start(p, device[p])
Retry(p) == IF aborted THEN Drop(p) ELSE Claim(p, device[p])

Woken(p) ==
  /\ pc[p] = "awake"
  /\ Retry(p)
  /\ UNCHANGED <<config, todo, aborted, returned>>

\* The task of a device ends, scraped and synced or failed: its errors are
\* swallowed.  Every producer that waits is woken.
TaskEnds(d) ==
  /\ d \in executing
  /\ executing' = executing \ {d}
  /\ pc' = [p \in Producers |-> IF pc[p] = "wait" THEN "awake" ELSE pc[p]]
  /\ UNCHANGED <<config, todo, device, dispatched, aborted, returned>>

Abort == /\ ~aborted /\ ~returned
         /\ aborted' = TRUE
         /\ UNCHANGED <<config, todo, pc, device, executing, dispatched, returned>>

\* Both producers are awaited, then the tasks still executing; the mutant
\* awaits the producers only.
Mut_AllDone == \A p \in Producers : pc[p] = "done"
AllDone == (\A p \in Producers : pc[p] = "done") /\ executing = {}

Return == /\ ~returned /\ AllDone
          /\ returned' = TRUE
          /\ UNCHANGED <<config, todo, pc, device, executing, dispatched, aborted>>

ProducerStep(p) ==
  \/ ProducerEnds(p)
  \/ \E d \in Devices : ProducerTakes(p, d)
  \/ Resolved(p)
  \/ Woken(p)

Next ==
  \/ \E p \in Producers : ProducerStep(p)
  \/ \E d \in Devices : TaskEnds(d)
  \/ Abort
  \/ Return

Spec == Init /\ [][Next]_vars

\* Awaited calls return: every request to a device or to FortiManager has a
\* timeout.
Fairness == /\ \A p \in Producers : WF_vars(ProducerStep(p))
            /\ \A d \in Devices : WF_vars(TaskEnds(d))
            /\ WF_vars(Return)

FairSpec == Spec /\ Fairness

-----------------------------------------------------------------------------
\* The pool never runs more tasks than its cap, although one ending task
\* wakes both producers.
PoolCap == Cardinality(executing) <= concurrency

\* Each FortiGate is scraped and synced by one task: the producers share no
\* device, and neither hands one over twice.
EachOnce == \A d \in Devices : dispatched[d] <= 1

\* A run that returns is ready for the sweep of what it did not see: no task
\* of it is still writing and, unless it was aborted, its whole roster was
\* dispatched.
SweepReady ==
  returned => /\ executing = {}
              /\ aborted \/ \A d \in Devices : dispatched[d] = 1

\* The run returns, however its tasks end and whenever it is aborted: no
\* producer waits for a slot while no task is running, where Promise.race of
\* nothing would never settle.
Returns == <>returned

-----------------------------------------------------------------------------
(* The inductive invariant behind the four safety properties: until it is  *)
(* started, a device is in exactly one producer's hands.                   *)

\* A producer holds a device while it resolves its address or waits.
Held == \A p \in Producers : device[p] # None <=> pc[p] \in {"resolve", "wait", "awake"}

\* What is in a producer's hands was not started and is nowhere else.
Ownership ==
  \A p, q \in Producers, d \in Devices :
    /\ d \in todo[p] => dispatched[d] = 0 /\ device[q] # d /\ (p # q => d \notin todo[q])
    /\ device[p] = d => dispatched[d] = 0 /\ (p # q => device[q] # d)

\* No device is lost as long as the run was not aborted.
Accounted ==
  ~aborted => \A d \in Devices :
    dispatched[d] = 1 \/ \E p \in Producers : d \in todo[p] \/ device[p] = d

\* A producer is done when it has nothing left, and the run returns after both.
Ended ==
  /\ \A p \in Producers : pc[p] = "done" => aborted \/ todo[p] = {}
  /\ returned => executing = {} /\ \A p \in Producers : pc[p] = "done"

IInv == TypeOK /\ PoolCap /\ EachOnce /\ Held /\ Ownership /\ Accounted /\ Ended
=============================================================================
