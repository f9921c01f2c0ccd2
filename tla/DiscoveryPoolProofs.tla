------------------------- MODULE DiscoveryPoolProofs -------------------------
(***************************************************************************)
(* The device pool is correct for every finite roster, every configured    *)
(* parallelism and every warm cache.                                       *)
(***************************************************************************)
EXTENDS DiscoveryPool, FiniteSetTheorems, TLAPS

\* Where a producer that goes on with device d has it from: its list, or its
\* own hands.
From(p, d) ==
  \/ d \in todo[p] /\ device[p] = None /\ todo' = [todo EXCEPT ![p] = @ \ {d}]
  \/ device[p] = d /\ UNCHANGED todo

\* The size of the set of running tasks after one more and after one less.
LEMMA OneMore ==
  ASSUME NEW d \in Devices, executing \subseteq Devices, concurrency \in Nat,
         ~Full
  PROVE  Cardinality(executing \cup {d}) <= concurrency
<1>1. IsFiniteSet(executing)
  BY PoolAssumption, FS_Subset
<1>2. /\ Cardinality(executing) \in Nat
      /\ \/ Cardinality(executing \cup {d}) = Cardinality(executing)
         \/ Cardinality(executing \cup {d}) = Cardinality(executing) + 1
  BY <1>1, FS_AddElement, FS_CardinalityType
<1> QED
  BY <1>2 DEF Full

\* A task that ends leaves the pool within its cap.
LEMMA OneLess ==
  ASSUME NEW d \in Devices, executing \subseteq Devices, concurrency \in Nat, PoolCap
  PROVE  Cardinality(executing \ {d}) <= concurrency
<1>1. IsFiniteSet(executing)
  BY PoolAssumption, FS_Subset
<1>2. executing \ {d} \subseteq executing
  OBVIOUS
<1>3. /\ Cardinality(executing \ {d}) <= Cardinality(executing)
      /\ Cardinality(executing) \in Nat /\ Cardinality(executing \ {d}) \in Nat
  BY <1>1, <1>2, FS_Subset, FS_CardinalityType
<1> QED
  BY <1>3 DEF PoolCap

\* A producer starts the task of a device it has.
LEMMA StartGood ==
  ASSUME IInv, NEW p \in Producers, NEW d \in Devices, pc[p] # "done",
         From(p, d), ~Full, Start(p, d), UNCHANGED <<config, aborted, returned>>
  PROVE  IInv'
<1> USE DEF IInv
<1>1. TypeOK'
  BY DEF TypeOK, From, Start, Goes, config
<1>2. PoolCap'
  <2>1. Cardinality(executing \cup {d}) <= concurrency
    BY OneMore DEF TypeOK
  <2> QED
    BY <2>1 DEF PoolCap, Start, config
<1>3. dispatched[d] = 0
  BY DEF From, Ownership
<1>4. /\ dispatched' = [dispatched EXCEPT ![d] = 1]
      /\ device' = [device EXCEPT ![p] = None]
      /\ pc' = [pc EXCEPT ![p] = "next"]
  BY <1>3 DEF Start, Goes, TypeOK
<1>5. EachOnce'
  BY <1>4 DEF EachOnce, TypeOK
<1>6. Held'
  BY <1>4 DEF Held, TypeOK
<1>7. Ownership'
  BY <1>4, PoolAssumption DEF Ownership, From, TypeOK
<1>8. Accounted'
  BY <1>4 DEF Accounted, From, TypeOK
<1>9. Ended'
  BY <1>4 DEF Ended, From, TypeOK
<1> QED
  BY <1>1, <1>2, <1>5, <1>6, <1>7, <1>8, <1>9

\* A producer keeps a device across an await.
LEMMA KeepGood ==
  ASSUME IInv, NEW p \in Producers, NEW d \in Devices, pc[p] # "done",
         From(p, d), NEW place \in {"resolve", "wait"}, Goes(p, place), Keep(p, d),
         UNCHANGED <<config, executing, dispatched, aborted, returned>>
  PROVE  IInv'
<1> USE DEF IInv
<1>1. TypeOK'
  BY DEF TypeOK, From, Keep, Goes, config
<1>2. PoolCap' /\ EachOnce'
  BY DEF PoolCap, EachOnce, config
<1>3. /\ device' = [device EXCEPT ![p] = d]
      /\ pc' = [pc EXCEPT ![p] = place]
  BY DEF Keep, Goes
<1>4. Held'
  BY <1>3, PoolAssumption DEF Held, TypeOK
<1>5. Ownership'
  BY <1>3 DEF Ownership, From, TypeOK
<1>6. Accounted'
  BY <1>3, PoolAssumption DEF Accounted, From, TypeOK
<1>7. Ended'
  BY <1>3 DEF Ended, From, TypeOK
<1> QED
  BY <1>1, <1>2, <1>4, <1>5, <1>6, <1>7

\* dispatchDevice, by a producer that has the device.
LEMMA ClaimGood ==
  ASSUME IInv, NEW p \in Producers, NEW d \in Devices, pc[p] # "done",
         From(p, d), Claim(p, d), UNCHANGED <<config, aborted, returned>>
  PROVE  IInv'
<1>1. CASE Full
  BY <1>1, KeepGood DEF Claim
<1>2. CASE ~Full
  BY <1>2, StartGood DEF Claim
<1> QED
  BY <1>1, <1>2

\* An aborted run's producer lets its device go.
LEMMA DropGood ==
  ASSUME IInv, NEW p \in Producers, pc[p] # "done", aborted, Drop(p),
         UNCHANGED <<config, todo, aborted, returned>>
  PROVE  IInv'
<1> USE DEF IInv, Drop, Goes
<1>1. TypeOK'
  BY DEF TypeOK, config
<1>2. PoolCap' /\ EachOnce'
  BY DEF PoolCap, EachOnce, config
<1>3. Held' /\ Ownership'
  BY PoolAssumption DEF Held, Ownership, TypeOK
<1>4. Accounted' /\ Ended'
  BY DEF Accounted, Ended, TypeOK
<1> QED
  BY <1>1, <1>2, <1>3, <1>4

\* A device in a producer's hands is a device.
LEMMA HeldDevice ==
  ASSUME IInv, NEW p \in Producers, pc[p] \in {"resolve", "awake"}
  PROVE  device[p] \in Devices /\ pc[p] # "done"
BY DEF IInv, TypeOK, Held

-----------------------------------------------------------------------------
\* Every run begins with the roster split between the two producers.
LEMMA InitGood == Init => IInv
<1> SUFFICES ASSUME Init PROVE IInv
  OBVIOUS
<1>0. concurrency \in Nat \ {0}
  <2>1. PICK p \in Parallelisms : concurrency = IF useProxy \/ p = 0 THEN 1 ELSE p
    BY DEF Init, Slots
  <2>2. p \in Nat
    BY PoolAssumption
  <2> QED
    BY <2>1, <2>2
<1>1. TypeOK
  BY <1>0 DEF Init, TypeOK, Producers, VerifyTargets
<1>2. PoolCap
  BY <1>1, FS_EmptySet DEF Init, PoolCap, TypeOK
<1>3. EachOnce /\ Held /\ Ended
  BY DEF Init, EachOnce, Held, Ended, Producers
<1>4. Ownership
  BY PoolAssumption DEF Init, Ownership, Producers, VerifyTargets
<1>5. Accounted
  BY DEF Init, Accounted, Producers, VerifyTargets
<1> QED
  BY <1>1, <1>2, <1>3, <1>4, <1>5 DEF IInv

\* Every step of the producers, the tasks and the run keeps the invariant.
LEMMA Inductive == IInv /\ [Next]_vars => IInv'
<1> SUFFICES ASSUME IInv, [Next]_vars PROVE IInv'
  OBVIOUS
<1>1. ASSUME NEW p \in Producers, ProducerEnds(p) PROVE IInv'
  <2> USE <1>1 DEF ProducerEnds, Goes
  <2>1. TypeOK'
    BY DEF IInv, TypeOK, config
  <2>2. PoolCap' /\ EachOnce' /\ Ownership' /\ Accounted'
    BY DEF IInv, PoolCap, EachOnce, Ownership, Accounted, config
  <2>3. Held' /\ Ended'
    BY DEF IInv, TypeOK, Held, Ended
  <2> QED
    BY <2>1, <2>2, <2>3 DEF IInv
<1>2. ASSUME NEW p \in Producers, NEW d \in Devices, ProducerTakes(p, d) PROVE IInv'
  <2>1. pc[p] # "done" /\ From(p, d) /\ UNCHANGED <<config, aborted, returned>>
    BY <1>2 DEF ProducerTakes, From, IInv, TypeOK, Held
  <2>2. CASE Claim(p, d)
    BY <2>1, <2>2, ClaimGood
  <2>3. CASE Goes(p, "resolve") /\ Keep(p, d) /\ UNCHANGED <<executing, dispatched>>
    BY <2>1, <2>3, KeepGood
  <2> QED
    BY <1>2, <2>2, <2>3 DEF ProducerTakes
<1>3. ASSUME NEW p \in Producers, Resolved(p) \/ Woken(p) PROVE IInv'
  <2>1. /\ device[p] \in Devices /\ pc[p] # "done"
        /\ UNCHANGED <<config, todo, aborted, returned>>
        /\ IF aborted THEN Drop(p) ELSE Claim(p, device[p])
    BY <1>3, HeldDevice DEF Resolved, Woken, Retry
  <2>2. From(p, device[p])
    BY <2>1 DEF From
  <2>3. CASE aborted
    BY <2>1, <2>3, DropGood
  <2>4. CASE ~aborted
    BY <2>1, <2>2, <2>4, ClaimGood
  <2> QED
    BY <2>3, <2>4
<1>4. ASSUME NEW d \in Devices, TaskEnds(d) PROVE IInv'
  <2> USE <1>4 DEF TaskEnds
  <2>1. TypeOK'
    BY DEF IInv, TypeOK, config
  <2>2. PoolCap'
    <3>1. Cardinality(executing \ {d}) <= concurrency
      BY OneLess DEF IInv, TypeOK
    <3> QED
      BY <3>1 DEF PoolCap, config
  <2>3. EachOnce' /\ Ownership' /\ Accounted'
    BY DEF IInv, EachOnce, Ownership, Accounted
  <2>4. Held' /\ Ended'
    BY DEF IInv, TypeOK, Held, Ended
  <2> QED
    BY <2>1, <2>2, <2>3, <2>4 DEF IInv
<1>5. CASE Abort
  BY <1>5 DEF Abort, config, IInv, TypeOK, PoolCap, EachOnce, Held, Ownership, Accounted, Ended
<1>6. CASE Return
  BY <1>6 DEF Return, AllDone, config, IInv, TypeOK, PoolCap, EachOnce, Held, Ownership, Accounted, Ended
<1>7. CASE UNCHANGED vars
  BY <1>7 DEF vars, IInv, TypeOK, PoolCap, EachOnce, Held, Ownership, Accounted, Ended
<1> QED
  BY <1>1, <1>2, <1>3, <1>4, <1>5, <1>6, <1>7 DEF Next, ProducerStep

\* So the invariant holds in every reachable state.
LEMMA Always == Spec => []IInv
BY InitGood, Inductive, PTL DEF Spec

-----------------------------------------------------------------------------
\* The pool keeps its types.
THEOREM TypeCorrect == Spec => []TypeOK
<1>1. IInv => TypeOK
  BY DEF IInv
<1> QED
  BY <1>1, Always, PTL

\* However many producers a finished task wakes, no more tasks run than the
\* configured parallelism allows, and one in proxy mode.
THEOREM PoolCapHolds == Spec => []PoolCap
<1>1. IInv => PoolCap
  BY DEF IInv
<1> QED
  BY <1>1, Always, PTL

\* No device is scraped by two tasks.
THEOREM EachOnceHolds == Spec => []EachOnce
<1>1. IInv => EachOnce
  BY DEF IInv
<1> QED
  BY <1>1, Always, PTL

\* When the run returns nothing is being written and, unless it was aborted,
\* every device of the roster was started: what is missing is gone.
THEOREM SweepReadyHolds == Spec => []SweepReady
<1>1. IInv => SweepReady
  <2> SUFFICES ASSUME IInv, returned PROVE executing = {} /\ (aborted \/ \A d \in Devices : dispatched[d] = 1)
    BY DEF SweepReady
  <2>1. executing = {} /\ \A p \in Producers : pc[p] = "done"
    BY DEF IInv, Ended
  <2>2. ASSUME ~aborted, NEW d \in Devices PROVE dispatched[d] = 1
    BY <2>1, <2>2, PoolAssumption DEF IInv, Ended, Accounted, Held, TypeOK
  <2> QED
    BY <2>1, <2>2
<1> QED
  BY <1>1, Always, PTL
=============================================================================
