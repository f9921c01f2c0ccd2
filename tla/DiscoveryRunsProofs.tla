------------------------- MODULE DiscoveryRunsProofs -------------------------
(***************************************************************************)
(* Proofs about discovery runs and the FortiManager worker they share, for *)
(* any number of runs, calls and slow-run checks.                          *)
(***************************************************************************)
EXTENDS DiscoveryRuns, SequenceTheorems, FiniteSetTheorems, WellFoundedInduction, TLAPS

-----------------------------------------------------------------------------
(* The operators of the worker.                                            *)

\* The natural numbers are well ordered: stated on a set of pairs, which the
\* provers can take apart.
Less == {p \in Nat \X Nat : p[1] < p[2]}

\* A nonempty set of numbers has a least one.
LEMMA LeastNumber ==
  ASSUME NEW S \in SUBSET Nat, S # {}
  PROVE  \E m \in S : \A j \in S : m <= j
<1>1. Less = OpToRel(<, Nat)
  BY Zenon DEF Less, OpToRel
<1>2. PICK m \in S : \A j \in S : <<j, m>> \notin Less
  BY <1>1, WFMin, NatLessThanWellFounded
<1>3. ASSUME NEW j \in S PROVE m <= j
  <2>1. j \in Nat /\ m \in Nat /\ <<j, m>> \notin Less
    BY <1>2
  <2> QED
    BY <2>1 DEF Less
<1> QED
  BY <1>3

\* The first of some places in a queue is one of them, and none is before it.
LEMMA FirstIsLeast ==
  ASSUME NEW S \in SUBSET Nat, S # {}
  PROVE  W!First(S) \in S /\ \A j \in S : W!First(S) <= j
  BY LeastNumber DEF W!First

\* Who waits in a queue, and that the queue is in the order of the tickets t.
Holds(q, c) == \E i \in DOMAIN q : q[i] = c
InTicketOrder(q, t) == \A i, j \in DOMAIN q : i < j => t[q[i]] < t[q[j]]

\* Two places of a queue in ticket order hold different calls.
LEMMA DistinctEntries ==
  ASSUME NEW q \in Seq(ProxyCalls), NEW t \in [Calls -> Nat], InTicketOrder(q, t),
         NEW i \in DOMAIN q, NEW j \in DOMAIN q, q[i] = q[j]
  PROVE  i = j
<1>1. DOMAIN q = 1..Len(q) /\ Len(q) \in Nat /\ \A k \in DOMAIN q : q[k] \in Calls
  BY LenProperties, ElementOfSeq, CallAssumption
<1>2. i \in Int /\ j \in Int /\ t[q[i]] \in Nat /\ t[q[j]] \in Nat
  BY <1>1
<1>3. ~(i < j) /\ ~(j < i)
  BY <1>2 DEF InTicketOrder
<1> QED
  BY <1>2, <1>3

\* The end of a queue after its first i entries.
LEMMA RestOfQueue ==
  ASSUME NEW q \in Seq(ProxyCalls), NEW i \in DOMAIN q
  PROVE  LET rest == SubSeq(q, i + 1, Len(q)) IN
         /\ rest \in Seq(ProxyCalls) /\ DOMAIN rest = 1..(Len(q) - i)
         /\ \A k \in DOMAIN rest : k + i \in DOMAIN q /\ rest[k] = q[k + i]
         /\ \A c : Holds(rest, c) <=> \E k \in DOMAIN q : k > i /\ q[k] = c
         /\ \A t : InTicketOrder(q, t) => InTicketOrder(rest, t)
<1> DEFINE rest == SubSeq(q, i + 1, Len(q))
<1>1. DOMAIN q = 1..Len(q) /\ Len(q) \in Nat /\ i \in 1..Len(q)
  BY LenProperties
<1>2. \A k \in (i + 1)..Len(q) : q[k] \in ProxyCalls
  BY <1>1, ElementOfSeq
<1>3. /\ rest \in Seq(ProxyCalls)
      /\ Len(rest) = IF i + 1 <= Len(q) THEN Len(q) - (i + 1) + 1 ELSE 0
      /\ \A k \in 1..(Len(q) - (i + 1) + 1) : rest[k] = q[(i + 1) + k - 1]
  BY <1>1, <1>2, SubSeqProperties
<1> HIDE DEF rest
<1>4. Len(rest) = Len(q) - i
  BY <1>1, <1>3
<1>5. DOMAIN rest = 1..(Len(q) - i)
  BY <1>3, <1>4, LenProperties
<1>6. ASSUME NEW k \in DOMAIN rest PROVE k + i \in DOMAIN q /\ rest[k] = q[k + i]
  <2>1. k \in 1..(Len(q) - i) /\ k \in 1..(Len(q) - (i + 1) + 1) /\ (i + 1) + k - 1 = k + i
    BY <1>1, <1>5
  <2>2. k + i \in DOMAIN q
    BY <1>1, <2>1
  <2>3. rest[k] = q[(i + 1) + k - 1]
    BY <1>3, <2>1, Zenon
  <2> QED
    BY <2>1, <2>2, <2>3, Zenon
<1>7. ASSUME NEW c PROVE Holds(rest, c) <=> \E k \in DOMAIN q : k > i /\ q[k] = c
  <2>1. ASSUME Holds(rest, c) PROVE \E k \in DOMAIN q : k > i /\ q[k] = c
    <3>1. PICK k \in DOMAIN rest : rest[k] = c
      BY <2>1 DEF Holds
    <3>2. k + i \in DOMAIN q /\ q[k + i] = c /\ k + i > i
      BY <1>1, <1>5, <1>6, <3>1
    <3> QED
      BY <3>2
  <2>2. ASSUME NEW k \in DOMAIN q, k > i, q[k] = c PROVE Holds(rest, c)
    <3>1. k - i \in DOMAIN rest /\ (k - i) + i = k
      BY <1>1, <1>5, <2>2
    <3> QED
      BY <1>6, <2>2, <3>1 DEF Holds
  <2> QED
    BY <2>1, <2>2
<1>8. ASSUME NEW t, InTicketOrder(q, t) PROVE InTicketOrder(rest, t)
  <2> SUFFICES ASSUME NEW j \in DOMAIN rest, NEW k \in DOMAIN rest, j < k
               PROVE  t[rest[j]] < t[rest[k]]
    BY DEF InTicketOrder
  <2>1. j + i < k + i
    BY <1>1, <1>5
  <2> QED
    BY <1>6, <1>8, <2>1 DEF InTicketOrder
<1> QED
  BY <1>3, <1>5, <1>6, <1>7, <1>8 DEF rest

-----------------------------------------------------------------------------
(***************************************************************************)
(* drainProxy up to its next await, on a queue q and promises p with no    *)
(* request open.  t are the tickets after the step.                        *)
(***************************************************************************)
LEMMA DrainKeeps ==
  ASSUME NEW q \in Seq(ProxyCalls), NEW p \in [Calls -> W!Promises], NEW t \in [Calls -> Nat],
         InTicketOrder(q, t),
         \A c \in ProxyCalls : p[c] = "queued" <=> Holds(q, c),
         \A c \in ProxyCalls : p[c] # "running",
         \A c, d \in ProxyCalls : p[c] \in {"resolved", "failed"} /\ p[d] = "queued" => t[c] < t[d],
         W!Drain(q, p)
  PROVE  /\ proxyQueue' \in Seq(ProxyCalls) /\ proxyInFlight' \in ProxyCalls \cup {None}
         /\ proxyDraining' \in BOOLEAN /\ promise' \in [Calls -> W!Promises]
         /\ proxyDraining' <=> proxyInFlight' # None
         /\ ~proxyDraining' => proxyQueue' = <<>>
         /\ \A c \in ProxyCalls : promise'[c] = "queued" <=> Holds(proxyQueue', c)
         /\ InTicketOrder(proxyQueue', t)
         /\ \A c \in ProxyCalls : promise'[c] = "running" <=> proxyInFlight' = c
         /\ \A c, d \in ProxyCalls : promise'[c] \in {"running", "resolved", "failed"}
                                      /\ promise'[d] = "queued" => t[c] < t[d]
         /\ \A c \in Calls : promise'[c] # p[c] =>
              /\ c \in ProxyCalls /\ p[c] = "queued"
              /\ \/ promise'[c] = "aborted" /\ W!Aborted(c)
                 \/ promise'[c] = "running" /\ ~W!Aborted(c)
<1>1. /\ DOMAIN q = 1..Len(q) /\ Len(q) \in Nat /\ \A k \in DOMAIN q : q[k] \in ProxyCalls
      /\ ProxyCalls \subseteq Calls /\ None \notin ProxyCalls
  BY LenProperties, ElementOfSeq, CallAssumption
<1>2. CASE W!Dispatchable(q) = {}
  <2>1. /\ proxyQueue' = <<>> /\ proxyInFlight' = None /\ proxyDraining' = FALSE
        /\ promise' = [c \in Calls |-> IF c \in {q[k] : k \in 1..Len(q)} THEN "aborted" ELSE p[c]]
    BY <1>2 DEF W!Drain
  <2>2. \A c \in Calls : promise'[c] = IF Holds(q, c) THEN "aborted" ELSE p[c]
    BY <1>1, <2>1 DEF Holds
  <2>3. \A k \in DOMAIN q : W!Aborted(q[k])
    BY <1>2 DEF W!Dispatchable
  <2>4. promise' \in [Calls -> W!Promises]
    BY <2>1 DEF W!Promises
  <2>5. \A c \in ProxyCalls : promise'[c] # "queued" /\ promise'[c] # "running"
    BY <1>1, <2>2
  <2>6. /\ <<>> \in Seq(ProxyCalls) /\ \A c : ~Holds(<<>>, c) /\ InTicketOrder(<<>>, t)
    BY EmptySeq DEF Holds, InTicketOrder
  <2>7. ASSUME NEW c \in Calls, promise'[c] # p[c]
        PROVE  /\ c \in ProxyCalls /\ p[c] = "queued"
               /\ promise'[c] = "aborted" /\ W!Aborted(c)
    <3>1. Holds(q, c) /\ promise'[c] = "aborted"
      BY <2>2, <2>7
    <3>2. PICK k \in DOMAIN q : q[k] = c
      BY <3>1 DEF Holds
    <3>3. c \in ProxyCalls /\ W!Aborted(c)
      BY <1>1, <2>3, <3>2
    <3> QED
      BY <3>1, <3>3
  <2> QED
    BY <1>1, <2>1, <2>4, <2>5, <2>6, <2>7
<1>3. CASE W!Dispatchable(q) # {}
  <2> DEFINE i == W!First(W!Dispatchable(q))
  <2>1. i \in DOMAIN q /\ ~W!Aborted(q[i]) /\ \A k \in DOMAIN q : k < i => W!Aborted(q[k])
    <3>1. W!Dispatchable(q) \subseteq DOMAIN q /\ W!Dispatchable(q) \subseteq Nat
      BY <1>1 DEF W!Dispatchable
    <3>2. i \in W!Dispatchable(q) /\ \A j \in W!Dispatchable(q) : i <= j
      BY <1>3, <3>1, FirstIsLeast
    <3> HIDE DEF i
    <3>3. i \in Nat /\ i \in DOMAIN q /\ ~W!Aborted(q[i])
      BY <3>1, <3>2 DEF W!Dispatchable
    <3>4. ASSUME NEW k \in DOMAIN q, k < i PROVE W!Aborted(q[k])
      <4>1. k \in Nat /\ ~(i <= k)
        BY <1>1, <3>3, <3>4
      <4> QED
        BY <3>2, <4>1 DEF W!Dispatchable
    <3> QED
      BY <3>3, <3>4
  <2>2. /\ proxyQueue' = SubSeq(q, i + 1, Len(q)) /\ proxyInFlight' = q[i] /\ proxyDraining' = TRUE
        /\ promise' = [[c \in Calls |-> IF c \in {q[k] : k \in 1..(i - 1)} THEN "aborted" ELSE p[c]]
                         EXCEPT ![q[i]] = "running"]
    BY <1>3 DEF W!Drain
  <2> HIDE DEF i
  <2>3. i \in 1..Len(q) /\ q[i] \in ProxyCalls /\ q[i] \in Calls
    BY <1>1, <2>1
  <2>4. \A c \in Calls : promise'[c] = IF c = q[i] THEN "running"
                           ELSE IF c \in {q[k] : k \in 1..(i - 1)} THEN "aborted" ELSE p[c]
    BY <2>2, <2>3
  <2>5. \A c : c \in {q[k] : k \in 1..(i - 1)} <=> \E k \in DOMAIN q : k < i /\ q[k] = c
    <3>1. ASSUME NEW k \in 1..(i - 1) PROVE k \in DOMAIN q /\ k < i
      BY <1>1, <2>3
    <3>2. ASSUME NEW k \in DOMAIN q, k < i PROVE k \in 1..(i - 1)
      BY <1>1, <2>3, <3>2
    <3> QED
      BY <3>1, <3>2
  <2>6. promise' \in [Calls -> W!Promises]
    BY <2>2 DEF W!Promises
  <2>7. /\ proxyQueue' \in Seq(ProxyCalls)
        /\ \A c : Holds(proxyQueue', c) <=> \E k \in DOMAIN q : k > i /\ q[k] = c
        /\ InTicketOrder(proxyQueue', t)
    BY <2>1, <2>2, RestOfQueue
  <2>8. \A k \in DOMAIN q : q[k] = q[i] => k = i
    BY <2>1, DistinctEntries
  <2>9. ASSUME NEW c \in ProxyCalls PROVE promise'[c] = "queued" <=> Holds(proxyQueue', c)
    <3>1. CASE c = q[i]
      <4>1. promise'[c] = "running"
        BY <2>3, <2>4, <3>1
      <4>2. \A k \in DOMAIN q : k > i => q[k] # c
        BY <2>3, <2>8, <3>1
      <4> QED
        BY <2>7, <4>1, <4>2
    <3>2. CASE \E k \in DOMAIN q : k < i /\ q[k] = c
      <4>1. PICK k \in DOMAIN q : k < i /\ q[k] = c
        BY <3>2
      <4>2. c # q[i]
        BY <1>1, <2>3, <2>8, <4>1
      <4>3. promise'[c] = "aborted"
        BY <1>1, <2>4, <2>5, <4>1, <4>2
      <4>4. ASSUME NEW j \in DOMAIN q, j > i, q[j] = c PROVE FALSE
        <5>1. j = k
          BY <4>1, <4>4, DistinctEntries
        <5> QED
          BY <1>1, <2>3, <4>1, <4>4, <5>1
      <4> QED
        BY <2>7, <4>3, <4>4
    <3>3. CASE c # q[i] /\ ~\E k \in DOMAIN q : k < i /\ q[k] = c
      <4>1. promise'[c] = p[c]
        BY <1>1, <2>4, <2>5, <3>3
      <4>2. Holds(q, c) <=> \E k \in DOMAIN q : k > i /\ q[k] = c
        <5>1. \A k \in DOMAIN q : q[k] = c => k > i
          BY <1>1, <2>3, <3>3
        <5> QED
          BY <5>1 DEF Holds
      <4> QED
        BY <2>7, <4>1, <4>2
    <3> QED
      BY <3>1, <3>2, <3>3
  <2>10. \A c \in ProxyCalls : promise'[c] = "running" <=> proxyInFlight' = c
    BY <1>1, <2>2, <2>4
  <2>11. ASSUME NEW c \in ProxyCalls, NEW d \in ProxyCalls,
                promise'[c] \in {"running", "resolved", "failed"}, promise'[d] = "queued"
         PROVE  t[c] < t[d]
    <3>1. PICK k \in DOMAIN q : k > i /\ q[k] = d
      BY <2>7, <2>9, <2>11
    <3>2. CASE c = q[i]
      BY <2>1, <3>1, <3>2 DEF InTicketOrder
    <3>3. CASE c # q[i]
      <4>1. p[c] \in {"resolved", "failed"}
        BY <1>1, <2>4, <2>11, <3>3
      <4>2. p[d] = "queued"
        BY <3>1 DEF Holds
      <4> QED
        BY <4>1, <4>2
    <3> QED
      BY <3>2, <3>3
  <2>12. ASSUME NEW c \in Calls, promise'[c] # p[c]
         PROVE  /\ c \in ProxyCalls /\ p[c] = "queued"
                /\ \/ promise'[c] = "aborted" /\ W!Aborted(c)
                   \/ promise'[c] = "running" /\ ~W!Aborted(c)
    <3>1. CASE c = q[i]
      BY <2>1, <2>3, <2>4, <3>1 DEF Holds
    <3>2. CASE c # q[i]
      <4>1. c \in {q[k] : k \in 1..(i - 1)} /\ promise'[c] = "aborted"
        BY <2>4, <2>12, <3>2
      <4>2. PICK k \in DOMAIN q : k < i /\ q[k] = c
        BY <2>5, <4>1
      <4>3. c \in ProxyCalls /\ Holds(q, c) /\ W!Aborted(c)
        BY <1>1, <2>1, <4>2 DEF Holds
      <4> QED
        BY <4>1, <4>3
    <3> QED
      BY <3>1, <3>2
  <2>13. /\ proxyInFlight' \in ProxyCalls \cup {None} /\ proxyDraining' \in BOOLEAN
         /\ proxyDraining' <=> proxyInFlight' # None
         /\ ~proxyDraining' => proxyQueue' = <<>>
    BY <1>1, <2>2, <2>3
  <2> QED
    BY <2>6, <2>7, <2>9, <2>10, <2>11, <2>12, <2>13
<1> QED
  BY <1>2, <1>3

-----------------------------------------------------------------------------
(* Every step of the worker keeps its invariant, and sends nothing for a   *)
(* signal that has fired.                                                  *)

NoLateSend == \A c \in Calls : SignalOf[c] \in aborted /\ promise[c] # "running"
                                 => promise'[c] # "running"

\* The lane's part of the invariant, on a queue q, promises p and tickets t.
LaneOrder(q, p, t) ==
  /\ q \in Seq(ProxyCalls) /\ p \in [Calls -> W!Promises] /\ t \in [Calls -> Nat]
  /\ InTicketOrder(q, t)
  /\ \A c \in ProxyCalls : p[c] = "queued" <=> Holds(q, c)
  /\ \A c, d \in ProxyCalls : p[c] \in {"running", "resolved", "failed"} /\ p[d] = "queued"
                                => t[c] < t[d]

\* It is part of the worker's invariant.
LEMMA LaneOrderIs ==
  ASSUME WorkerInv
  PROVE  /\ LaneOrder(proxyQueue, promise, ticket)
         /\ proxyInFlight \in ProxyCalls \cup {None} /\ proxyDraining \in BOOLEAN
         /\ nativeInFlight \in Nat /\ aborted \subseteq Runs
         /\ firing \subseteq ProxyCalls /\ clock \in Nat
         /\ \A c \in Calls : ticket[c] < clock
         /\ W!LoopState /\ W!OneAtATime /\ NativeCounted /\ W!OnlyAborted
<1>1. /\ W!TypeOK /\ W!LoopState /\ W!QueueState /\ W!Fifo
      /\ W!OneAtATime /\ NativeCounted /\ W!OnlyAborted
  BY DEF WorkerInv, W!LaneInv
<1>2. /\ \A c \in ProxyCalls : promise[c] = "queued" <=> Holds(proxyQueue, c)
      /\ InTicketOrder(proxyQueue, ticket)
      /\ \A c \in Calls : ticket[c] < clock
  BY <1>1 DEF W!QueueState, W!InQueue, InTicketOrder, Holds
<1>3. \A c, d \in ProxyCalls :
        promise[c] \in {"running", "resolved", "failed"} /\ promise[d] = "queued"
          => ticket[c] < ticket[d]
  BY <1>1 DEF W!Fifo, W!Sent
<1>4. /\ proxyQueue \in Seq(ProxyCalls) /\ proxyInFlight \in ProxyCalls \cup {None}
      /\ proxyDraining \in BOOLEAN /\ nativeInFlight \in Nat
      /\ promise \in [Calls -> W!Promises] /\ aborted \subseteq Runs
      /\ firing \subseteq ProxyCalls /\ ticket \in [Calls -> Nat] /\ clock \in Nat
  BY <1>1 DEF W!TypeOK
<1>5. LaneOrder(proxyQueue, promise, ticket)
  BY <1>2, <1>3, <1>4 DEF LaneOrder
<1> QED
  BY <1>1, <1>2, <1>4, <1>5

\* An entry that joins the queue with the newest ticket keeps the order.
LEMMA PushKeeps ==
  ASSUME WorkerInv, NEW c \in ProxyCalls, promise[c] = "new"
  PROVE  /\ LaneOrder(W!Push(c), [promise EXCEPT ![c] = "queued"], [ticket EXCEPT ![c] = clock])
         /\ \A d \in Calls : [ticket EXCEPT ![c] = clock][d] < clock + 1
<1> DEFINE q == Append(proxyQueue, c)
           p == [promise EXCEPT ![c] = "queued"]
           t == [ticket EXCEPT ![c] = clock]
           n == Len(proxyQueue)
<1>1. /\ LaneOrder(proxyQueue, promise, ticket) /\ clock \in Nat
      /\ \A d \in Calls : ticket[d] < clock
      /\ c \in Calls /\ ProxyCalls \subseteq Calls
  BY LaneOrderIs, CallAssumption
<1>2. /\ n \in Nat /\ DOMAIN proxyQueue = 1..n
      /\ \A k \in DOMAIN proxyQueue : proxyQueue[k] \in ProxyCalls
  BY <1>1, LenProperties, ElementOfSeq DEF LaneOrder
<1>3. /\ q \in Seq(ProxyCalls) /\ Len(q) = n + 1 /\ q[n + 1] = c
      /\ \A k \in 1..n : q[k] = proxyQueue[k]
  BY <1>1, AppendProperties DEF LaneOrder
<1> HIDE DEF q
<1>4. DOMAIN q = 1..(n + 1)
  BY <1>3, LenProperties
<1>5. p \in [Calls -> W!Promises] /\ t \in [Calls -> Nat]
  BY <1>1 DEF LaneOrder, W!Promises
<1>6. /\ \A d \in Calls : p[d] = IF d = c THEN "queued" ELSE promise[d]
      /\ \A d \in Calls : t[d] = IF d = c THEN clock ELSE ticket[d]
  BY <1>1 DEF LaneOrder
<1> HIDE DEF p, t
<1>7. \A k \in DOMAIN proxyQueue : proxyQueue[k] # c
  BY <1>1 DEF LaneOrder, Holds
<1>8. ASSUME NEW i \in DOMAIN q, NEW j \in DOMAIN q, i < j PROVE t[q[i]] < t[q[j]]
  <2>1. i \in 1..n /\ q[i] = proxyQueue[i] /\ q[i] \in Calls /\ q[i] # c
    BY <1>1, <1>2, <1>3, <1>4, <1>7, <1>8
  <2>2. CASE j = n + 1
    BY <1>1, <1>3, <1>6, <2>1, <2>2
  <2>3. CASE j # n + 1
    <3>1. j \in 1..n /\ q[j] = proxyQueue[j] /\ q[j] \in Calls /\ q[j] # c
      BY <1>1, <1>2, <1>3, <1>4, <1>7, <1>8, <2>3
    <3>2. ticket[proxyQueue[i]] < ticket[proxyQueue[j]]
      BY <1>1, <1>2, <1>8, <2>1, <3>1 DEF LaneOrder, InTicketOrder
    <3> QED
      BY <1>6, <2>1, <3>1, <3>2
  <2> QED
    BY <2>2, <2>3
<1>9. ASSUME NEW d \in ProxyCalls PROVE p[d] = "queued" <=> Holds(q, d)
  <2>1. Holds(q, d) <=> d = c \/ Holds(proxyQueue, d)
    <3>1. ASSUME Holds(q, d) PROVE d = c \/ Holds(proxyQueue, d)
      <4>1. PICK k \in 1..(n + 1) : q[k] = d
        BY <1>4, <3>1 DEF Holds
      <4>2. k = n + 1 \/ k \in 1..n
        BY <1>2
      <4> QED
        BY <1>2, <1>3, <4>1, <4>2 DEF Holds
    <3>2. ASSUME d = c PROVE Holds(q, d)
      <4>1. n + 1 \in DOMAIN q
        BY <1>2, <1>4
      <4> QED
        BY <1>3, <3>2, <4>1 DEF Holds
    <3>3. ASSUME Holds(proxyQueue, d) PROVE Holds(q, d)
      <4>1. PICK k \in 1..n : proxyQueue[k] = d
        BY <1>2, <3>3 DEF Holds
      <4>2. k \in DOMAIN q /\ q[k] = d
        BY <1>2, <1>3, <1>4, <4>1
      <4> QED
        BY <4>2 DEF Holds
    <3> QED
      BY <3>1, <3>2, <3>3
  <2> QED
    BY <1>1, <1>6, <2>1 DEF LaneOrder
<1>10. ASSUME NEW a \in ProxyCalls, NEW d \in ProxyCalls,
              p[a] \in {"running", "resolved", "failed"}, p[d] = "queued"
       PROVE  t[a] < t[d]
  <2>1. a # c /\ a \in Calls /\ d \in Calls /\ promise[a] \in {"running", "resolved", "failed"}
    BY <1>1, <1>6, <1>10
  <2>2. CASE d = c
    BY <1>1, <1>6, <2>1, <2>2
  <2>3. CASE d # c
    BY <1>1, <1>6, <1>10, <2>1, <2>3 DEF LaneOrder
  <2> QED
    BY <2>2, <2>3
<1>11. \A d \in Calls : t[d] < clock + 1
  BY <1>1, <1>6 DEF LaneOrder
<1>12. LaneOrder(q, p, t)
  BY <1>3, <1>5, <1>8, <1>9, <1>10 DEF LaneOrder, InTicketOrder
<1> QED
  BY <1>11, <1>12 DEF q, p, t, W!Push

\* The invariant after a step that fires no signal and opens or closes no
\* native request.
LaneNext ==
  /\ LaneOrder(proxyQueue', promise', ticket')
  /\ proxyInFlight' \in ProxyCalls \cup {None} /\ proxyDraining' \in BOOLEAN
  /\ proxyDraining' <=> proxyInFlight' # None
  /\ ~proxyDraining' => proxyQueue' = <<>>
  /\ clock' \in Nat /\ \A c \in Calls : ticket'[c] < clock'
  /\ \A c \in ProxyCalls : promise'[c] = "running" <=> proxyInFlight' = c
  /\ \A c \in Calls \ ProxyCalls : promise'[c] = "running" <=> promise[c] = "running"
  /\ \A c \in Calls : promise'[c] = "aborted" => W!Aborted(c)
  /\ UNCHANGED <<nativeInFlight, aborted>>
  /\ firing' \subseteq firing /\ \A c \in firing' : promise'[c] = "queued"

\* Every step of the lane keeps the worker's invariant.
LEMMA InvariantNext ==
  ASSUME WorkerInv, LaneNext
  PROVE  WorkerInv'
<1> USE DEF LaneNext
<1>1. W!TypeOK' /\ W!LoopState'
  BY LaneOrderIs DEF W!TypeOK, W!LoopState, LaneOrder
<1>2. W!QueueState'
  BY DEF W!QueueState, W!InQueue, LaneOrder, Holds, InTicketOrder
<1>3. W!OneAtATime' /\ W!Fifo'
  BY DEF W!OneAtATime, W!Fifo, W!Sent, LaneOrder
<1>4. NativeCounted'
  <2>1. NativeOpen' = NativeOpen
    BY DEF NativeOpen
  <2> QED
    BY <2>1, LaneOrderIs DEF NativeCounted
<1>5. W!OnlyAborted'
  <2>1. \A c \in Calls : promise'[c] = "aborted" => W!Aborted(c)'
    BY DEF W!Aborted
  <2>2. \A c \in firing' : W!Aborted(c)'
    BY LaneOrderIs DEF W!OnlyAborted, W!Aborted
  <2> QED
    BY <2>1, <2>2 DEF W!OnlyAborted
<1> QED
  BY <1>1, <1>2, <1>3, <1>4, <1>5 DEF WorkerInv, W!LaneInv

\* The loop goes on, with an entry more or a request settled.
LEMMA DrainGood ==
  ASSUME WorkerInv, NEW q, NEW p, LaneOrder(q, p, ticket'),
         \A c \in ProxyCalls : p[c] # "running",
         \A c \in Calls \ ProxyCalls : p[c] = promise[c],
         \A c \in Calls : p[c] = "aborted" => W!Aborted(c),
         W!Drain(q, p),
         clock' \in Nat, \A c \in Calls : ticket'[c] < clock',
         firing = {}, UNCHANGED <<nativeInFlight, aborted, firing>>
  PROVE  WorkerInv' /\ NoLateSend
<1>1. /\ q \in Seq(ProxyCalls) /\ p \in [Calls -> W!Promises] /\ ticket' \in [Calls -> Nat]
      /\ InTicketOrder(q, ticket')
      /\ \A c \in ProxyCalls : p[c] = "queued" <=> Holds(q, c)
      /\ \A c, d \in ProxyCalls : p[c] \in {"resolved", "failed"} /\ p[d] = "queued"
                                    => ticket'[c] < ticket'[d]
  BY DEF LaneOrder
<1>2. /\ proxyQueue' \in Seq(ProxyCalls) /\ proxyInFlight' \in ProxyCalls \cup {None}
      /\ proxyDraining' \in BOOLEAN /\ promise' \in [Calls -> W!Promises]
      /\ proxyDraining' <=> proxyInFlight' # None
      /\ ~proxyDraining' => proxyQueue' = <<>>
      /\ \A c \in ProxyCalls : promise'[c] = "queued" <=> Holds(proxyQueue', c)
      /\ InTicketOrder(proxyQueue', ticket')
      /\ \A c \in ProxyCalls : promise'[c] = "running" <=> proxyInFlight' = c
      /\ \A c, d \in ProxyCalls : promise'[c] \in {"running", "resolved", "failed"}
                                   /\ promise'[d] = "queued" => ticket'[c] < ticket'[d]
      /\ \A c \in Calls : promise'[c] # p[c] =>
           /\ c \in ProxyCalls /\ p[c] = "queued"
           /\ \/ promise'[c] = "aborted" /\ W!Aborted(c)
              \/ promise'[c] = "running" /\ ~W!Aborted(c)
  BY <1>1, DrainKeeps
<1>3. LaneOrder(proxyQueue', promise', ticket')
  BY <1>1, <1>2 DEF LaneOrder
<1>4. /\ \A c \in Calls \ ProxyCalls : promise'[c] = promise[c]
      /\ \A c \in Calls : promise'[c] = "aborted" => W!Aborted(c)
  BY <1>2
<1>5. LaneNext
  BY <1>2, <1>3, <1>4 DEF LaneNext
<1>6. NoLateSend
  BY <1>2, <1>4 DEF NoLateSend, W!Aborted
<1> QED
  BY <1>5, <1>6, InvariantNext

\* A submission whose signal has fired is rejected, in either lane.
LEMMA RejectGood ==
  ASSUME WorkerInv, NEW c \in Calls, promise[c] = "new", W!Aborted(c), W!Reject(c),
         firing = {}, UNCHANGED <<aborted, firing>>
  PROVE  WorkerInv' /\ NoLateSend
<1>1. /\ promise' = [promise EXCEPT ![c] = "aborted"]
      /\ UNCHANGED <<proxyQueue, proxyInFlight, proxyDraining, nativeInFlight, ticket, clock>>
  BY DEF W!Reject, W!proxyVars
<1>2. /\ LaneOrder(proxyQueue, promise, ticket) /\ clock \in Nat /\ ProxyCalls \subseteq Calls
      /\ \A d \in Calls : ticket[d] < clock
  BY LaneOrderIs, CallAssumption
<1>3. \A d \in Calls : promise'[d] = IF d = c THEN "aborted" ELSE promise[d]
  BY <1>1, <1>2 DEF LaneOrder
<1>4. promise' \in [Calls -> W!Promises]
  BY <1>1, <1>2 DEF LaneOrder, W!Promises
<1>5. LaneOrder(proxyQueue', promise', ticket')
  BY <1>1, <1>2, <1>3, <1>4 DEF LaneOrder
<1>6. \A d \in ProxyCalls : promise'[d] = "running" <=> proxyInFlight' = d
  BY <1>1, <1>2, <1>3, LaneOrderIs DEF W!OneAtATime
<1>7. \A d \in Calls : promise'[d] = "aborted" => W!Aborted(d)
  BY <1>3, LaneOrderIs DEF W!OnlyAborted
<1>8. LaneNext
  <2>1. /\ proxyInFlight \in ProxyCalls \cup {None} /\ proxyDraining \in BOOLEAN
        /\ proxyDraining <=> proxyInFlight # None
        /\ ~proxyDraining => proxyQueue = <<>>
    BY LaneOrderIs DEF W!LoopState
  <2> QED
    BY <1>1, <1>2, <1>3, <1>5, <1>6, <1>7, <2>1 DEF LaneNext
<1>9. NoLateSend
  BY <1>3 DEF NoLateSend
<1> QED
  BY <1>8, <1>9, InvariantNext

\* A call enters the proxy lane.
LEMMA SubmitProxyGood ==
  ASSUME WorkerInv, NEW c, W!submitProxy(c)
  PROVE  WorkerInv' /\ NoLateSend
<1>1. c \in ProxyCalls /\ c \in Calls /\ promise[c] = "new" /\ firing = {} /\ UNCHANGED <<aborted, firing>>
  BY CallAssumption DEF W!submitProxy
<1>2. CASE W!Aborted(c) /\ W!Reject(c)
  BY <1>1, <1>2, RejectGood
<1>3. CASE /\ ~W!Aborted(c)
           /\ W!Enter(c, [promise EXCEPT ![c] = "queued"])
           /\ ticket' = [ticket EXCEPT ![c] = clock]
           /\ clock' = clock + 1
           /\ UNCHANGED nativeInFlight
  <2> DEFINE p == [promise EXCEPT ![c] = "queued"]
  <2>1. /\ LaneOrder(W!Push(c), p, ticket') /\ clock' \in Nat
        /\ \A d \in Calls : ticket'[d] < clock'
    <3>1. clock \in Nat
      BY LaneOrderIs
    <3>2. /\ LaneOrder(W!Push(c), p, [ticket EXCEPT ![c] = clock])
          /\ \A d \in Calls : [ticket EXCEPT ![c] = clock][d] < clock + 1
      BY <1>1, PushKeeps
    <3> HIDE DEF p
    <3> QED
      BY <1>3, <3>1, <3>2
  <2>2. \A d \in Calls : p[d] = IF d = c THEN "queued" ELSE promise[d]
    BY <1>1, LaneOrderIs DEF LaneOrder
  <2>3. W!Enter(c, p)
    BY <1>3
  <2> HIDE DEF p
  <2>4. \A d \in Calls : p[d] = "aborted" => W!Aborted(d)
    BY <2>2, LaneOrderIs DEF W!OnlyAborted
  <2>5. \A d \in Calls \ ProxyCalls : p[d] = promise[d]
    BY <1>1, <2>2
  <2>6. CASE proxyDraining
    <3>1. /\ proxyQueue' = W!Push(c) /\ promise' = p
          /\ UNCHANGED <<proxyInFlight, proxyDraining>>
      BY <2>3, <2>6 DEF W!Enter
    <3>2. \A d \in ProxyCalls : promise'[d] = "running" <=> proxyInFlight' = d
      BY <1>1, <2>2, <3>1, CallAssumption, LaneOrderIs DEF W!OneAtATime
    <3>3. LaneNext
      <4>1. /\ proxyInFlight \in ProxyCalls \cup {None} /\ proxyDraining \in BOOLEAN
            /\ proxyDraining <=> proxyInFlight # None
        BY LaneOrderIs DEF W!LoopState
      <4> QED
        BY <1>1, <1>3, <2>1, <2>4, <2>5, <2>6, <3>1, <3>2, <4>1 DEF LaneNext
    <3>4. NoLateSend
      BY <2>2, <3>1 DEF NoLateSend
    <3> QED
      BY <3>3, <3>4, InvariantNext
  <2>7. CASE ~proxyDraining
    <3>1. W!Drain(W!Push(c), p)
      BY <2>3, <2>7 DEF W!Enter
    <3>2. proxyInFlight = None
      BY <2>7, LaneOrderIs DEF W!LoopState
    <3>3. \A d \in ProxyCalls : p[d] # "running"
      BY <2>2, <3>2, CallAssumption, LaneOrderIs DEF W!OneAtATime
    <3> QED
      BY <1>1, <1>3, <2>1, <2>4, <2>5, <3>1, <3>3, DrainGood
  <2> QED
    BY <2>6, <2>7
<1> QED
  BY <1>2, <1>3 DEF W!submitProxy

\* The request in flight settles.
LEMMA ProxySettlesGood ==
  ASSUME WorkerInv, NEW out \in {"resolved", "failed"}, W!ProxySettles(out)
  PROVE  WorkerInv' /\ NoLateSend
<1> DEFINE a == proxyInFlight
           p == [promise EXCEPT ![a] = out]
<1>1. /\ firing = {} /\ UNCHANGED <<nativeInFlight, aborted, firing, ticket, clock>>
      /\ a \in ProxyCalls /\ a \in Calls /\ promise[a] = "running"
  BY LaneOrderIs, CallAssumption DEF W!ProxySettles, W!OneAtATime
<1>2. W!Drain(proxyQueue, p)
  BY DEF W!ProxySettles
<1>3. \A d \in Calls : p[d] = IF d = a THEN out ELSE promise[d]
  BY LaneOrderIs DEF LaneOrder
<1>4. p \in [Calls -> W!Promises]
  BY LaneOrderIs DEF LaneOrder, W!Promises
<1> HIDE DEF p
<1>5. /\ LaneOrder(proxyQueue, promise, ticket) /\ clock \in Nat /\ ProxyCalls \subseteq Calls
      /\ \A d \in Calls : ticket[d] < clock
  BY LaneOrderIs, CallAssumption
<1>6. LaneOrder(proxyQueue, p, ticket')
  BY <1>1, <1>3, <1>4, <1>5 DEF LaneOrder
<1>7. \A d \in ProxyCalls : p[d] # "running"
  BY <1>1, <1>3, <1>5, LaneOrderIs DEF W!OneAtATime
<1>8. \A d \in Calls : p[d] = "aborted" => W!Aborted(d)
  BY <1>3, LaneOrderIs DEF W!OnlyAborted
<1>9. \A d \in Calls \ ProxyCalls : p[d] = promise[d]
  BY <1>1, <1>3
<1> QED
  BY <1>1, <1>2, <1>5, <1>6, <1>7, <1>8, <1>9, DrainGood

\* A call takes the native lane, which counts it.
LEMMA SubmitNativeGood ==
  ASSUME WorkerInv, NEW c, W!submitNative(c)
  PROVE  WorkerInv' /\ NoLateSend
<1>1. /\ c \in Calls \ ProxyCalls /\ promise[c] = "new" /\ firing = {}
      /\ UNCHANGED <<aborted, firing>>
  BY DEF W!submitNative
<1>2. CASE W!Aborted(c) /\ W!Reject(c)
  BY <1>1, <1>2, RejectGood
<1>3. CASE /\ ~W!Aborted(c)
           /\ nativeInFlight' = nativeInFlight + 1
           /\ promise' = [promise EXCEPT ![c] = "running"]
           /\ UNCHANGED <<W!proxyVars, ticket, clock>>
  <2>1. /\ \A d \in Calls : promise'[d] = IF d = c THEN "running" ELSE promise[d]
        /\ promise' \in [Calls -> W!Promises] /\ ProxyCalls \subseteq Calls
    BY <1>1, <1>3, LaneOrderIs, CallAssumption DEF LaneOrder, W!Promises
  <2>2. UNCHANGED <<proxyQueue, proxyInFlight, proxyDraining, ticket, clock>>
    BY <1>3 DEF W!proxyVars
  <2>3. NativeCounted' /\ nativeInFlight' \in Nat
    <3>1. NativeOpen' = NativeOpen \cup {c} /\ c \notin NativeOpen
      BY <1>1, <2>1 DEF NativeOpen
    <3>2. IsFiniteSet(NativeOpen) /\ nativeInFlight = Cardinality(NativeOpen)
          /\ nativeInFlight \in Nat
      BY LaneOrderIs DEF NativeCounted
    <3> QED
      BY <1>3, <3>1, <3>2, FS_AddElement DEF NativeCounted
  <2>4. W!TypeOK' /\ W!LoopState'
    BY <1>1, <2>1, <2>2, <2>3, LaneOrderIs DEF W!TypeOK, W!LoopState, LaneOrder
  <2>5. \A d \in ProxyCalls : promise'[d] = promise[d]
    BY <1>1, <2>1
  <2>6. W!QueueState' /\ W!Fifo' /\ W!OneAtATime'
    BY <2>2, <2>5 DEF WorkerInv, W!LaneInv, W!QueueState, W!InQueue, W!Fifo, W!Sent, W!OneAtATime
  <2>7. W!OnlyAborted'
    BY <1>1, <2>1, LaneOrderIs DEF W!OnlyAborted, W!Aborted
  <2>8. NoLateSend
    BY <1>3, <2>1 DEF NoLateSend, W!Aborted
  <2> QED
    BY <2>3, <2>4, <2>6, <2>7, <2>8 DEF WorkerInv, W!LaneInv
<1> QED
  BY <1>2, <1>3 DEF W!submitNative

\* A native request settles, and the lane counts one less.
LEMMA NativeSettlesGood ==
  ASSUME WorkerInv, NEW c, NEW out \in {"resolved", "failed"}, W!NativeSettles(c, out)
  PROVE  WorkerInv' /\ NoLateSend
<1>1. /\ c \in Calls \ ProxyCalls /\ promise[c] = "running" /\ firing = {}
      /\ nativeInFlight' = nativeInFlight - 1
      /\ promise' = [promise EXCEPT ![c] = out]
      /\ UNCHANGED <<proxyQueue, proxyInFlight, proxyDraining, aborted, firing, ticket, clock>>
  BY DEF W!NativeSettles, W!proxyVars
<1>2. /\ \A d \in Calls : promise'[d] = IF d = c THEN out ELSE promise[d]
      /\ promise' \in [Calls -> W!Promises] /\ ProxyCalls \subseteq Calls
  BY <1>1, LaneOrderIs, CallAssumption DEF LaneOrder, W!Promises
<1>3. NativeCounted' /\ nativeInFlight' \in Nat
  <2>1. NativeOpen' = NativeOpen \ {c} /\ c \in NativeOpen
    BY <1>1, <1>2 DEF NativeOpen
  <2>2. IsFiniteSet(NativeOpen) /\ nativeInFlight = Cardinality(NativeOpen)
    BY LaneOrderIs DEF NativeCounted
  <2>3. IsFiniteSet(NativeOpen') /\ nativeInFlight' = Cardinality(NativeOpen')
    BY <1>1, <2>1, <2>2, FS_RemoveElement
  <2> QED
    BY <2>3, FS_CardinalityType DEF NativeCounted
<1>4. W!TypeOK' /\ W!LoopState'
  BY <1>1, <1>2, <1>3, LaneOrderIs DEF W!TypeOK, W!LoopState, LaneOrder
<1>5. \A d \in ProxyCalls : promise'[d] = promise[d]
  BY <1>1, <1>2
<1>6. W!QueueState' /\ W!Fifo' /\ W!OneAtATime'
  BY <1>1, <1>5 DEF WorkerInv, W!LaneInv, W!QueueState, W!InQueue, W!Fifo, W!Sent, W!OneAtATime
<1>7. W!OnlyAborted'
  BY <1>1, <1>2, LaneOrderIs DEF W!OnlyAborted, W!Aborted
<1>8. NoLateSend
  BY <1>2 DEF NoLateSend
<1> QED
  BY <1>3, <1>4, <1>6, <1>7, <1>8 DEF WorkerInv, W!LaneInv

\* A signal fires: the waiting calls that carry it are still to be rejected.
LEMMA AbortGood ==
  ASSUME WorkerInv, NEW r \in Runs, W!Abort(r)
  PROVE  WorkerInv' /\ NoLateSend
<1>1. /\ aborted' = aborted \cup {r} /\ firing' = W!Listening(r)
      /\ UNCHANGED <<proxyQueue, proxyInFlight, proxyDraining, nativeInFlight, promise, ticket, clock>>
  BY DEF W!Abort, W!proxyVars
<1>2. W!TypeOK' /\ W!LoopState'
  BY <1>1 DEF WorkerInv, W!LaneInv, W!TypeOK, W!LoopState, W!Listening
<1>3. W!QueueState' /\ W!OneAtATime' /\ W!Fifo' /\ NativeCounted'
  BY <1>1 DEF WorkerInv, W!LaneInv, W!QueueState, W!InQueue, W!OneAtATime, W!Fifo, W!Sent,
     NativeCounted, NativeOpen
<1>4. W!OnlyAborted'
  BY <1>1 DEF WorkerInv, W!LaneInv, W!OnlyAborted, W!Aborted, W!Listening
<1>5. NoLateSend
  BY <1>1 DEF NoLateSend
<1> QED
  BY <1>2, <1>3, <1>4, <1>5 DEF WorkerInv, W!LaneInv

\* splice(indexOf(entry), 1): the entries before place i, and those behind it
\* moved up by one.
LEMMA SpliceIs ==
  ASSUME NEW q \in Seq(ProxyCalls), NEW i \in DOMAIN q
  PROVE  /\ W!Splice(q, i) \in Seq(ProxyCalls) /\ Len(W!Splice(q, i)) = Len(q) - 1
         /\ \A k \in 1..(Len(q) - 1) :
              /\ (IF k < i THEN k ELSE k + 1) \in 1..Len(q)
              /\ W!Splice(q, i)[k] = q[IF k < i THEN k ELSE k + 1]
<1> DEFINE front == SubSeq(q, 1, i - 1)
           rest == SubSeq(q, i + 1, Len(q))
           s == front \o rest
           n == Len(q)
           from(k) == IF k < i THEN k ELSE k + 1
<1>1. /\ n \in Nat /\ DOMAIN q = 1..n /\ i \in 1..n
      /\ \A k \in 1..n : q[k] \in ProxyCalls
  BY LenProperties, ElementOfSeq
<1>2. /\ front \in Seq(ProxyCalls) /\ Len(front) = i - 1
      /\ \A k \in 1..(i - 1) : front[k] = q[k]
  <2>1. \A k \in 1..(i - 1) : q[k] \in ProxyCalls
    BY <1>1
  <2>2. /\ front \in Seq(ProxyCalls) /\ Len(front) = IF 1 <= i - 1 THEN (i - 1) - 1 + 1 ELSE 0
        /\ \A k \in 1..((i - 1) - 1 + 1) : front[k] = q[1 + k - 1]
    BY <1>1, <2>1, SubSeqProperties
  <2> HIDE DEF front
  <2>3. Len(front) = i - 1 /\ (i - 1) - 1 + 1 = i - 1 /\ \A k \in 1..(i - 1) : 1 + k - 1 = k
    BY <1>1, <2>2
  <2> QED
    BY <2>2, <2>3
<1>3. /\ rest \in Seq(ProxyCalls) /\ DOMAIN rest = 1..(n - i)
      /\ \A k \in DOMAIN rest : rest[k] = q[k + i]
  BY RestOfQueue
<1>4. Len(rest) = n - i
  <2> HIDE DEF rest
  <2>1. DOMAIN rest = 1..Len(rest) /\ Len(rest) \in Nat
    BY <1>3, LenProperties
  <2> QED
    BY <1>1, <1>3, <2>1
<1>5. /\ s \in Seq(ProxyCalls) /\ Len(s) = Len(front) + Len(rest)
      /\ \A k \in 1..(Len(front) + Len(rest)) :
           s[k] = IF k <= Len(front) THEN front[k] ELSE rest[k - Len(front)]
  <2> HIDE DEF front, rest
  <2> QED
    BY <1>2, <1>3, ConcatProperties, Zenon
<1> HIDE DEF front, rest, s
<1>6. Len(s) = n - 1
  BY <1>1, <1>2, <1>4, <1>5
<1>7. ASSUME NEW k \in 1..(n - 1) PROVE s[k] = q[from(k)] /\ from(k) \in 1..n
  <2>1. k \in 1..(Len(front) + Len(rest)) /\ Len(front) = i - 1
    BY <1>1, <1>2, <1>4
  <2>2. CASE k < i
    <3>1. k <= Len(front) /\ k \in 1..(i - 1)
      BY <1>1, <2>1, <2>2
    <3>2. s[k] = q[k]
      BY <1>2, <1>5, <2>1, <3>1
    <3> QED
      BY <1>1, <2>2, <3>2
  <2>3. CASE ~(k < i)
    <3>1. ~(k <= Len(front)) /\ k - Len(front) \in DOMAIN rest /\ (k - Len(front)) + i = k + 1
      BY <1>1, <1>3, <2>1, <2>3
    <3>2. s[k] = q[k + 1]
      BY <1>3, <1>5, <2>1, <3>1
    <3> QED
      BY <1>1, <2>3, <3>2
  <2> QED
    BY <2>2, <2>3
<1> QED
  BY <1>5, <1>6, <1>7 DEF W!Splice, s, front, rest

\* So it takes one entry out and leaves the order of the others.
LEMMA SpliceKeeps ==
  ASSUME NEW q \in Seq(ProxyCalls), NEW i \in DOMAIN q
  PROVE  /\ W!Splice(q, i) \in Seq(ProxyCalls)
         /\ \A c : Holds(W!Splice(q, i), c) <=> \E k \in DOMAIN q : k # i /\ q[k] = c
         /\ \A t : InTicketOrder(q, t) => InTicketOrder(W!Splice(q, i), t)
<1> DEFINE s == W!Splice(q, i)
           n == Len(q)
           from(k) == IF k < i THEN k ELSE k + 1
<1>1. n \in Nat /\ DOMAIN q = 1..n /\ i \in 1..n
  BY LenProperties
<1>2. s \in Seq(ProxyCalls) /\ Len(s) = n - 1
  BY SpliceIs
<1>3. \A k \in 1..(n - 1) : s[k] = q[from(k)]
  BY SpliceIs
<1> HIDE DEF s
<1>4. DOMAIN s = 1..(n - 1)
  BY <1>2, LenProperties
<1>5. ASSUME NEW k \in 1..(n - 1) PROVE s[k] = q[from(k)] /\ from(k) \in DOMAIN q /\ from(k) # i
  BY <1>1, <1>3
<1>6. ASSUME NEW c PROVE Holds(s, c) <=> \E k \in DOMAIN q : k # i /\ q[k] = c
  <2>1. ASSUME Holds(s, c) PROVE \E k \in DOMAIN q : k # i /\ q[k] = c
    <3>1. PICK k \in 1..(n - 1) : s[k] = c
      BY <1>4, <2>1 DEF Holds
    <3> QED
      BY <1>5, <3>1
  <2>2. ASSUME NEW k \in DOMAIN q, k # i, q[k] = c PROVE Holds(s, c)
    <3>1. CASE k < i
      <4>1. k \in 1..(n - 1) /\ from(k) = k
        BY <1>1, <3>1
      <4> QED
        BY <1>4, <1>5, <2>2, <4>1 DEF Holds
    <3>2. CASE k > i
      <4>1. k - 1 \in 1..(n - 1) /\ from(k - 1) = k
        BY <1>1, <3>2
      <4> QED
        BY <1>4, <1>5, <2>2, <4>1 DEF Holds
    <3> QED
      BY <1>1, <2>2, <3>1, <3>2
  <2> QED
    BY <2>1, <2>2
<1>7. ASSUME NEW t, InTicketOrder(q, t) PROVE InTicketOrder(s, t)
  <2> SUFFICES ASSUME NEW j \in 1..(n - 1), NEW k \in 1..(n - 1), j < k
               PROVE  t[s[j]] < t[s[k]]
    BY <1>4 DEF InTicketOrder
  <2>1. from(j) < from(k)
    BY <1>1
  <2> HIDE DEF from
  <2> QED
    BY <1>5, <1>7, <2>1 DEF InTicketOrder
<1> QED
  BY <1>2, <1>6, <1>7 DEF s

\* The listener of a waiting entry runs.
LEMMA OnAbortGood ==
  ASSUME WorkerInv, NEW c, W!OnAbort(c)
  PROVE  WorkerInv' /\ NoLateSend
<1>1. /\ c \in firing /\ firing' = firing \ {c}
      /\ promise' = [promise EXCEPT ![c] = "aborted"]
      /\ UNCHANGED <<proxyInFlight, proxyDraining, nativeInFlight, aborted, ticket, clock>>
  BY DEF W!OnAbort
<1>2. PICK i \in DOMAIN proxyQueue : proxyQueue[i] = c /\ proxyQueue' = W!Splice(proxyQueue, i)
  BY DEF W!OnAbort
<1>3. /\ LaneOrder(proxyQueue, promise, ticket) /\ clock \in Nat /\ ProxyCalls \subseteq Calls
      /\ \A d \in Calls : ticket[d] < clock
      /\ c \in ProxyCalls /\ W!Aborted(c) /\ promise[c] = "queued" /\ W!LoopState
  BY <1>1, LaneOrderIs, CallAssumption DEF W!OnlyAborted
<1>4. /\ \A d \in Calls : promise'[d] = IF d = c THEN "aborted" ELSE promise[d]
      /\ promise' \in [Calls -> W!Promises]
  BY <1>1, <1>3 DEF LaneOrder, W!Promises
<1>5. /\ proxyQueue' \in Seq(ProxyCalls)
      /\ \A d : Holds(proxyQueue', d) <=> \E k \in DOMAIN proxyQueue : k # i /\ proxyQueue[k] = d
      /\ InTicketOrder(proxyQueue', ticket)
  BY <1>2, <1>3, SpliceKeeps DEF LaneOrder
<1>6. ASSUME NEW d \in ProxyCalls PROVE promise'[d] = "queued" <=> Holds(proxyQueue', d)
  <2>1. CASE d = c
    <3>1. \A k \in DOMAIN proxyQueue : proxyQueue[k] = d => k = i
      BY <1>2, <1>3, <2>1, DistinctEntries DEF LaneOrder
    <3> QED
      BY <1>3, <1>4, <1>5, <2>1, <3>1
  <2>2. CASE d # c
    <3>1. Holds(proxyQueue', d) <=> Holds(proxyQueue, d)
      BY <1>2, <1>5, <2>2 DEF Holds
    <3> QED
      BY <1>3, <1>4, <2>2, <3>1 DEF LaneOrder
  <2> QED
    BY <2>1, <2>2
<1>7. LaneOrder(proxyQueue', promise', ticket')
  BY <1>1, <1>3, <1>4, <1>5, <1>6 DEF LaneOrder
<1>8. \A d \in ProxyCalls : promise'[d] = "running" <=> proxyInFlight' = d
  BY <1>1, <1>3, <1>4, LaneOrderIs DEF W!OneAtATime
<1>9. \A d \in Calls : promise'[d] = "aborted" => W!Aborted(d)
  BY <1>3, <1>4, LaneOrderIs DEF W!OnlyAborted
<1>10. /\ proxyInFlight' \in ProxyCalls \cup {None} /\ proxyDraining' \in BOOLEAN
       /\ proxyDraining' <=> proxyInFlight' # None
       /\ proxyDraining'
  <2>1. proxyQueue # <<>>
    BY <1>2, EmptySeq
  <2> QED
    BY <1>1, <2>1, LaneOrderIs DEF W!LoopState
<1>11. firing' \subseteq firing /\ \A d \in firing' : promise'[d] = "queued"
  BY <1>1, <1>3, <1>4, LaneOrderIs DEF W!OnlyAborted
<1>12. LaneNext
  BY <1>1, <1>3, <1>4, <1>7, <1>8, <1>9, <1>10, <1>11 DEF LaneNext
<1>13. NoLateSend
  BY <1>3, <1>4 DEF NoLateSend
<1> QED
  BY <1>12, <1>13, InvariantNext

-----------------------------------------------------------------------------
(* What a step of the whole does to the worker.                            *)

WorkerAction ==
  \/ \E c : W!submitProxy(c) \/ W!submitNative(c) \/ W!OnAbort(c)
  \/ \E out \in {"resolved", "failed"} : W!ProxySettles(out) \/ \E c : W!NativeSettles(c, out)
  \/ \E r \in Runs : W!Abort(r)

\* A discovery run, the abort route, a check or a restore either makes one of
\* the worker's steps or leaves the worker alone.
LEMMA StepOfWorker ==
  ASSUME [Next]_vars, activeDiscovery \in Runs \cup {None}
  PROVE  WorkerAction \/ UNCHANGED workerVars
<1>1. CASE UNCHANGED vars
  BY <1>1 DEF vars
<1>2. ASSUME NEW r \in Runs, Trigger(r) \/ TestFails(r) \/ Stamp(r) \/ RosterBack(r)
                             \/ DeviceBack(r) \/ Synced(r) \/ Finalized(r)
      PROVE  UNCHANGED workerVars
  BY <1>2 DEF Trigger, TestFails, Stamp, RosterBack, DeviceBack, Synced, Finalized
<1>3. ASSUME NEW r \in Runs, Register(r) PROVE WorkerAction \/ UNCHANGED workerVars
  BY <1>3 DEF Register, Supersede, WorkerAction
<1>4. ASSUME NEW r \in Runs, AskRoster(r) \/ AskDevice(r)
      PROVE  WorkerAction \/ UNCHANGED workerVars
  BY <1>4 DEF AskRoster, AskDevice, WorkerAction
<1>5. CASE AbortRoute
  BY <1>5 DEF AbortRoute, WorkerAction
<1>6. CASE RestoreBegin \/ RestoreEnd
  BY <1>6 DEF RestoreBegin, RestoreEnd
<1>7. ASSUME NEW k \in Checkers, SlowCheckBegin(k) \/ SlowCheckEnd(k) PROVE UNCHANGED workerVars
  BY <1>7 DEF SlowCheckBegin, SlowCheckEnd
<1>8. CASE WorkerStep \/ OtherCall
  BY <1>8 DEF WorkerStep, OtherCall, Outcomes, WorkerAction
<1> QED
  BY <1>1, <1>2, <1>3, <1>4, <1>5, <1>6, <1>7, <1>8 DEF Next, RunStep

\* So every step keeps the worker's invariant and sends nothing too late.
LEMMA WorkerGood ==
  ASSUME WorkerInv, WorkerAction \/ UNCHANGED workerVars
  PROVE  WorkerInv' /\ (NoLateSend \/ UNCHANGED workerVars) /\ aborted \subseteq aborted'
<1>1. CASE UNCHANGED workerVars
  BY <1>1 DEF workerVars, WorkerInv, W!LaneInv, W!TypeOK, W!LoopState, W!QueueState, W!InQueue,
     W!OneAtATime, W!Fifo, W!Sent, W!OnlyAborted, W!Aborted, NativeCounted, NativeOpen
<1>2. CASE WorkerAction
  <2>1. WorkerInv' /\ NoLateSend
    BY <1>2, SubmitProxyGood, SubmitNativeGood, OnAbortGood, ProxySettlesGood, NativeSettlesGood,
       AbortGood DEF WorkerAction
  <2>2. aborted \subseteq aborted'
    BY <1>2 DEF WorkerAction, W!submitProxy, W!submitNative, W!OnAbort, W!ProxySettles,
       W!NativeSettles, W!Abort
  <2> QED
    BY <2>1, <2>2
<1> QED
  BY <1>1, <1>2

-----------------------------------------------------------------------------
(* What a step does to the entry of the integration.                       *)

\* A run that moves on keeps every other run's claim, and its own.
LEMMA MoveOwned ==
  ASSUME TypeOK, Owned, NEW r \in Runs, NEW phase, Moves(r, phase), run[r] # "done",
         phase \in Registered => run[r] \in Registered,
         UNCHANGED activeDiscovery, aborted \subseteq aborted'
  PROVE  Owned'
<1> SUFFICES ASSUME NEW s \in Runs, run'[s] \in Registered, s \notin aborted'
             PROVE  \/ activeDiscovery' = s
                    \/ \E o \in Runs \ {s} : o \in aborted' /\ run'[o] = "done"
  BY DEF Owned
<1>1. \A o \in Runs : run'[o] = IF o = r THEN phase ELSE run[o]
  BY DEF Moves, TypeOK
<1>2. run[s] \in Registered /\ s \notin aborted
  BY <1>1
<1>3. CASE activeDiscovery = s
  BY <1>3
<1>4. CASE \E o \in Runs \ {s} : o \in aborted /\ run[o] = "done"
  BY <1>1, <1>4
<1> QED
  BY <1>2, <1>3, <1>4 DEF Owned

\* The run that ends deletes the entry: its own, or it was replaced before.
LEMMA LeaveOwned ==
  ASSUME TypeOK, Owned, NEW r \in Runs, Leaves(r), run[r] \in Registered, UNCHANGED aborted
  PROVE  Owned'
<1> SUFFICES ASSUME NEW s \in Runs, run'[s] \in Registered, s \notin aborted
             PROVE  \E o \in Runs \ {s} : o \in aborted /\ run'[o] = "done"
  BY DEF Owned
<1>1. \A o \in Runs : run'[o] = IF o = r THEN "done" ELSE run[o]
  BY DEF Leaves, Moves, TypeOK
<1>2. s # r /\ run[s] \in Registered
  BY <1>1 DEF Registered
<1>3. CASE r \in aborted
  BY <1>1, <1>2, <1>3
<1>4. CASE r \notin aborted /\ activeDiscovery = s
  <2>1. PICK o \in Runs \ {r} : o \in aborted /\ run[o] = "done"
    BY <1>2, <1>4 DEF Owned
  <2> QED
    BY <1>1, <2>1
<1>5. CASE r \notin aborted /\ activeDiscovery # s
  <2>1. PICK o \in Runs \ {s} : o \in aborted /\ run[o] = "done"
    BY <1>2, <1>5 DEF Owned
  <2> QED
    BY <1>1, <2>1
<1> QED
  BY <1>3, <1>4, <1>5

\* The new run takes the entry, and aborts the run it takes it from.
LEMMA RegisterOwned ==
  ASSUME TypeOK, Owned, NEW r \in Runs, Register(r)
  PROVE  Owned'
<1> SUFFICES ASSUME NEW s \in Runs, run'[s] \in Registered, s \notin aborted'
             PROVE  \/ activeDiscovery' = s
                    \/ \E o \in Runs \ {s} : o \in aborted' /\ run'[o] = "done"
  BY DEF Owned
<1>1. \A o \in Runs : run'[o] = IF o = r THEN "stamp" ELSE run[o]
  BY DEF Register, Moves, TypeOK
<1>2. activeDiscovery' = r /\ run[r] = "test"
  BY DEF Register
<1>3. aborted \subseteq aborted' /\ (activeDiscovery \in Runs => activeDiscovery \in aborted')
  BY DEF Register, Supersede, W!Abort, workerVars
<1>4. CASE s = r
  BY <1>2, <1>4
<1>5. CASE s # r
  <2>1. run[s] \in Registered /\ s \notin aborted /\ activeDiscovery # s
    BY <1>1, <1>3, <1>5
  <2>2. PICK o \in Runs \ {s} : o \in aborted /\ run[o] = "done"
    BY <2>1 DEF Owned
  <2> QED
    BY <1>1, <1>2, <1>3, <2>2
<1> QED
  BY <1>4, <1>5

\* The abort route forgets the entry of the run it aborts.
LEMMA AbortOwned ==
  ASSUME TypeOK, Owned, AbortRoute
  PROVE  Owned'
<1> SUFFICES ASSUME NEW s \in Runs, run[s] \in Registered, s \notin aborted'
             PROVE  \E o \in Runs \ {s} : o \in aborted' /\ run[o] = "done"
  BY DEF Owned, AbortRoute
<1>1. aborted \subseteq aborted' /\ activeDiscovery \in aborted'
  BY DEF AbortRoute, W!Abort, workerVars
<1> QED
  BY <1>1 DEF Owned

-----------------------------------------------------------------------------
(* What a step of a run can be.                                            *)

Goes(r, phase) == /\ Moves(r, phase) /\ phase \in Phases /\ run[r] # "done"
                  /\ phase \in Registered => run[r] \in Registered
                  /\ phase = "finalize" => r \notin aborted
                  /\ UNCHANGED activeDiscovery
Ends(r) == Leaves(r) /\ run[r] \in Registered /\ UNCHANGED aborted

\* A run whose sync has returned finalises or ends.
LEMMA ReturnedShape ==
  ASSUME NEW r \in Runs, Returned(r), run[r] \in {"device", "sync"}, UNCHANGED workerVars
  PROVE  Goes(r, "finalize") \/ Ends(r)
  BY DEF Returned, MayFinalize, Goes, Ends, Phases, Registered, workerVars

\* Whatever a run does, it waits, goes on, takes the entry, or ends.
LEMMA RunShape ==
  ASSUME TypeOK, NEW r \in Runs, Trigger(r) \/ RunStep(r)
  PROVE  /\ UNCHANGED <<restoring, slowAlerted, slowEvents, checker>> /\ lastTestOk' \in BOOLEAN
         /\ \/ UNCHANGED <<run, activeDiscovery>>
            \/ \E phase : Goes(r, phase)
            \/ Ends(r)
            \/ Register(r)
<1>1. CASE Trigger(r)
  <2>1. Goes(r, "test")
    BY <1>1 DEF Trigger, Goes, Phases, Registered
  <2> QED
    BY <1>1, <2>1 DEF Trigger, slowVars, TypeOK
<1>2. CASE TestFails(r)
  <2>1. Goes(r, "done")
    BY <1>2 DEF TestFails, Goes, Phases, Registered
  <2> QED
    BY <1>2, <2>1 DEF TestFails, slowVars
<1>3. CASE Register(r)
  BY <1>3 DEF Register, slowVars
<1>4. CASE Stamp(r)
  <2>1. Goes(r, "roster") \/ Goes(r, "done")
    BY <1>4 DEF Stamp, Goes, Phases, Registered
  <2> QED
    BY <1>4, <2>1 DEF Stamp, slowVars, TypeOK
<1>5. CASE AskRoster(r)
  BY <1>5 DEF AskRoster, slowVars, runVars, TypeOK
<1>6. CASE RosterBack(r)
  <2>1. Goes(r, "device") \/ Ends(r)
    BY <1>6 DEF RosterBack, Goes, Ends, Phases, Registered, workerVars
  <2> QED
    BY <1>6, <2>1 DEF RosterBack, slowVars, TypeOK
<1>7. CASE AskDevice(r)
  <2>1. UNCHANGED <<run, activeDiscovery>> \/ Goes(r, "finalize") \/ Ends(r)
    BY <1>7, ReturnedShape DEF AskDevice
  <2> QED
    BY <1>7, <2>1 DEF AskDevice, slowVars, TypeOK
<1>8. CASE DeviceBack(r)
  <2>1. Goes(r, "sync") \/ Goes(r, "finalize") \/ Ends(r)
    <3>1. CASE Returned(r)
      BY <1>8, <3>1, ReturnedShape DEF DeviceBack
    <3>2. CASE Moves(r, "sync") /\ UNCHANGED activeDiscovery
      BY <1>8, <3>2 DEF DeviceBack, Goes, Phases, Registered
    <3> QED
      BY <1>8, <3>1, <3>2 DEF DeviceBack
  <2> QED
    BY <1>8, <2>1 DEF DeviceBack, slowVars, TypeOK
<1>9. CASE Synced(r)
  <2>1. Goes(r, "finalize") \/ Ends(r)
    BY <1>9, ReturnedShape DEF Synced
  <2> QED
    BY <1>9, <2>1 DEF Synced, slowVars, TypeOK
<1>10. CASE Finalized(r)
  <2>1. Ends(r)
    BY <1>10 DEF Finalized, Ends, Registered, workerVars
  <2> QED
    BY <1>10, <2>1 DEF Finalized, slowVars, TypeOK
<1> QED
  BY <1>1, <1>2, <1>3, <1>4, <1>5, <1>6, <1>7, <1>8, <1>9, <1>10 DEF RunStep

-----------------------------------------------------------------------------
(* Every step keeps the invariant, and does what the action properties say. *)

RunTypes == /\ activeDiscovery \in Runs \cup {None} /\ run \in [Runs -> Phases]
            /\ lastTestOk \in BOOLEAN /\ restoring \in BOOLEAN
            /\ slowAlerted \subseteq Runs /\ slowEvents \in [Runs -> Nat]
            /\ checker \in [Checkers -> {"idle", "waiting"}]

FinalizeStep == \A r \in Runs : r \in aborted /\ run[r] # "finalize" => run'[r] # "finalize"
RestoreStep == ~restoring /\ restoring' =>
                 \A r \in Runs : Writing(r) /\ r \notin aborted =>
                   \E o \in Runs \ {r} : o \in aborted /\ run[o] = "done"

\* A step of a run.
LEMMA RunGood ==
  ASSUME TypeOK, Flagged, Owned, NEW r \in Runs, Trigger(r) \/ RunStep(r), aborted \subseteq aborted'
  PROVE  RunTypes' /\ Flagged' /\ Owned' /\ FinalizeStep /\ RestoreStep
<1>1. UNCHANGED <<restoring, slowAlerted, slowEvents, checker>> /\ lastTestOk' \in BOOLEAN
  BY RunShape
<1>2. Flagged' /\ RestoreStep
  BY <1>1 DEF Flagged, RestoreStep
<1>3. CASE UNCHANGED <<run, activeDiscovery>>
  <2>1. Owned'
    BY <1>3 DEF Owned
  <2> QED
    BY <1>1, <1>2, <1>3, <2>1 DEF RunTypes, TypeOK, FinalizeStep
<1>4. ASSUME NEW phase, Goes(r, phase)
      PROVE  RunTypes' /\ Owned' /\ FinalizeStep
  <2>1. Owned'
    BY <1>4, MoveOwned DEF Goes
  <2> QED
    BY <1>1, <1>4, <2>1 DEF RunTypes, TypeOK, FinalizeStep, Goes, Moves
<1>5. CASE Ends(r)
  <2>1. Owned'
    BY <1>5, LeaveOwned DEF Ends
  <2> QED
    BY <1>1, <1>2, <1>5, <2>1 DEF RunTypes, TypeOK, FinalizeStep, Ends, Leaves, Moves, Phases
<1>6. CASE Register(r)
  <2>1. Owned'
    BY <1>6, RegisterOwned
  <2> QED
    BY <1>1, <1>2, <1>6, <2>1 DEF RunTypes, TypeOK, FinalizeStep, Register, Moves, Phases
<1> QED
  BY <1>2, <1>3, <1>4, <1>5, <1>6, RunShape

\* A slow-run check: the flag is tested again after the await.
LEMMA SlowGood ==
  ASSUME TypeOK, Flagged, NEW k \in Checkers, SlowCheckBegin(k) \/ SlowCheckEnd(k)
  PROVE  /\ slowAlerted' \subseteq Runs /\ slowEvents' \in [Runs -> Nat]
         /\ checker' \in [Checkers -> {"idle", "waiting"}]
         /\ Flagged'
         /\ UNCHANGED <<workerVars, runVars, restoring>>
<1>1. CASE SlowCheckBegin(k)
  BY <1>1 DEF SlowCheckBegin, TypeOK, Flagged
<1>2. CASE SlowCheckEnd(k) /\ UNCHANGED <<slowAlerted, slowEvents>>
  BY <1>2 DEF SlowCheckEnd, TypeOK, Flagged
<1>3. CASE /\ SlowCheckEnd(k)
           /\ activeDiscovery # None /\ NeedsAlert(activeDiscovery)
           /\ slowAlerted' = slowAlerted \cup {activeDiscovery}
           /\ slowEvents' = [slowEvents EXCEPT ![activeDiscovery] = @ + 1]
  <2>1. activeDiscovery \in Runs /\ activeDiscovery \notin slowAlerted
    BY <1>3 DEF TypeOK, NeedsAlert
  <2>2. slowEvents[activeDiscovery] = 0
    BY <2>1 DEF Flagged
  <2>3. slowAlerted' \subseteq Runs /\ slowEvents' \in [Runs -> Nat]
    BY <1>3, <2>1, <2>2 DEF TypeOK
  <2>4. Flagged'
    BY <1>3, <2>1, <2>2 DEF Flagged, TypeOK
  <2>5. checker' \in [Checkers -> {"idle", "waiting"}]
    BY <1>3 DEF SlowCheckEnd, TypeOK
  <2>6. UNCHANGED <<workerVars, runVars, restoring>>
    BY <1>3 DEF SlowCheckEnd
  <2> QED
    BY <2>3, <2>4, <2>5, <2>6
<1> QED
  BY <1>1, <1>2, <1>3 DEF SlowCheckEnd

\* Every step keeps the invariant and is one the action properties allow.
LEMMA StepGood ==
  ASSUME IInv, [Next]_vars
  PROVE  /\ IInv'
         /\ FinalizeStep /\ RestoreStep
         /\ NoLateSend \/ UNCHANGED workerVars
<1>1. /\ TypeOK /\ WorkerInv /\ Flagged /\ Owned
      /\ activeDiscovery \in Runs \cup {None}
  BY DEF IInv, TypeOK
<1>2. WorkerInv' /\ (NoLateSend \/ UNCHANGED workerVars) /\ aborted \subseteq aborted'
  BY <1>1, StepOfWorker, WorkerGood
<1>3. RunTypes' /\ Flagged' /\ Owned' /\ FinalizeStep /\ RestoreStep
  <2>1. CASE UNCHANGED <<runVars, restoring, slowVars>>
    BY <1>1, <1>2, <2>1 DEF runVars, slowVars, RunTypes, TypeOK, Flagged, Owned, FinalizeStep, RestoreStep
  <2>2. ASSUME NEW r \in Runs, Trigger(r) \/ RunStep(r)
        PROVE  RunTypes' /\ Flagged' /\ Owned' /\ FinalizeStep /\ RestoreStep
    BY <1>1, <1>2, <2>2, RunGood
  <2>3. CASE AbortRoute
    <3>1. Owned'
      BY <1>1, <2>3, AbortOwned
    <3> QED
      BY <1>1, <2>3, <3>1 DEF AbortRoute, slowVars, RunTypes, TypeOK, Flagged, FinalizeStep, RestoreStep
  <2>4. CASE RestoreBegin \/ RestoreEnd
    <3>1. UNCHANGED <<workerVars, runVars, slowVars>> /\ restoring' \in BOOLEAN
      BY <2>4 DEF RestoreBegin, RestoreEnd
    <3>2. UNCHANGED <<aborted, run, activeDiscovery>>
      BY <3>1 DEF workerVars, runVars
    <3>3. RestoreStep
      <4> SUFFICES ASSUME ~restoring, restoring', NEW r \in Runs, Writing(r), r \notin aborted
                   PROVE  \E o \in Runs \ {r} : o \in aborted /\ run[o] = "done"
        BY DEF RestoreStep
      <4>1. activeDiscovery = None
        BY <2>4 DEF RestoreBegin, RestoreEnd, MayRestore
      <4>2. run[r] \in Registered
        BY DEF Writing, Registered
      <4> QED
        BY <1>1, <4>1, <4>2, RunAssumption DEF Owned
    <3>4. Owned' /\ FinalizeStep
      BY <1>1, <3>2 DEF Owned, FinalizeStep
    <3> QED
      BY <1>1, <3>1, <3>3, <3>4 DEF runVars, slowVars, RunTypes, TypeOK, Flagged
  <2>5. ASSUME NEW k \in Checkers, SlowCheckBegin(k) \/ SlowCheckEnd(k)
        PROVE  RunTypes' /\ Flagged' /\ Owned' /\ FinalizeStep /\ RestoreStep
    <3>1. /\ slowAlerted' \subseteq Runs /\ slowEvents' \in [Runs -> Nat]
          /\ checker' \in [Checkers -> {"idle", "waiting"}] /\ Flagged'
          /\ UNCHANGED <<workerVars, runVars, restoring>>
      BY <1>1, <2>5, SlowGood
    <3> QED
      BY <1>1, <3>1 DEF workerVars, runVars, RunTypes, TypeOK, Owned, FinalizeStep, RestoreStep
  <2> QED
    BY <2>1, <2>2, <2>3, <2>4, <2>5 DEF Next, WorkerStep, OtherCall, vars
<1>4. TypeOK'
  BY <1>2, <1>3 DEF TypeOK, RunTypes, WorkerInv, W!LaneInv
<1> QED
  BY <1>2, <1>3, <1>4 DEF IInv

\* The process starts with an idle worker and no entry.
LEMMA InitGood == Init => IInv
<1> SUFFICES ASSUME Init PROVE IInv
  OBVIOUS
<1>1. W!TypeOK /\ W!LoopState /\ W!OneAtATime /\ W!Fifo /\ W!OnlyAborted
  BY EmptySeq, CallAssumption DEF Init, W!Init, W!TypeOK, W!LoopState, W!OneAtATime, W!Fifo,
     W!Sent, W!OnlyAborted, W!Promises
<1>2. W!QueueState
  BY EmptySeq, CallAssumption DEF Init, W!Init, W!QueueState, W!InQueue
<1>3. NativeCounted
  <2>1. NativeOpen = {}
    BY DEF Init, W!Init, NativeOpen
  <2> QED
    BY <2>1, FS_EmptySet DEF Init, W!Init, NativeCounted
<1>4. TypeOK /\ Flagged /\ Owned
  BY <1>1 DEF Init, TypeOK, Flagged, Owned, Phases, Registered
<1> QED
  BY <1>1, <1>2, <1>3, <1>4 DEF IInv, WorkerInv, W!LaneInv

\* In every behaviour.
LEMMA Invariance == Spec => []IInv
<1>1. IInv /\ [Next]_vars => IInv'
  BY StepGood
<1> QED
  BY <1>1, InitGood, PTL DEF Spec

-----------------------------------------------------------------------------
(***************************************************************************)
(* The worker implements the abstract lane of ProxyLane.  The line is the  *)
(* entry in flight with the queue behind it.                               *)
(***************************************************************************)

\* The line of an entry a in flight and a queue q behind it.
LineOf(a, q) == IF a = None THEN <<>> ELSE <<a>> \o q

\* Its first place is the entry in flight, and the others are the queue's.
LEMMA LineIs ==
  ASSUME NEW a \in ProxyCalls, NEW q \in Seq(ProxyCalls)
  PROVE  /\ LineOf(a, q) \in Seq(ProxyCalls) /\ LineOf(a, q) # <<>>
         /\ Len(LineOf(a, q)) = Len(q) + 1
         /\ LineOf(a, q)[1] = a
         /\ \A k \in 1..Len(q) : LineOf(a, q)[k + 1] = q[k]
         /\ Head(LineOf(a, q)) = a /\ Tail(LineOf(a, q)) = q
<1> DEFINE s == <<a>> \o q
<1>1. /\ LineOf(a, q) = s /\ Len(q) \in Nat
      /\ <<a>> \in Seq(ProxyCalls) /\ Len(<<a>>) = 1 /\ <<a>>[1] = a
  BY CallAssumption, LenProperties DEF LineOf
<1>2. /\ s \in Seq(ProxyCalls) /\ Len(s) = 1 + Len(q)
      /\ \A k \in 1..(1 + Len(q)) : s[k] = IF k <= 1 THEN a ELSE q[k - 1]
  <2>1. /\ s \in Seq(ProxyCalls) /\ Len(s) = Len(<<a>>) + Len(q)
        /\ \A k \in 1..(Len(<<a>>) + Len(q)) :
             s[k] = IF k <= Len(<<a>>) THEN <<a>>[k] ELSE q[k - Len(<<a>>)]
    BY <1>1, ConcatProperties, Zenon
  <2> HIDE DEF s
  <2>2. \A k \in 1..(1 + Len(q)) : k <= 1 => k = 1
    BY <1>1
  <2> QED
    BY <1>1, <2>1, <2>2
<1> HIDE DEF s
<1>3. Len(s) = Len(q) + 1 /\ s[1] = a /\ s # <<>>
  BY <1>1, <1>2, EmptySeq
<1>4. ASSUME NEW k \in 1..Len(q) PROVE s[k + 1] = q[k]
  <2>1. k + 1 \in 1..(1 + Len(q)) /\ ~(k + 1 <= 1) /\ (k + 1) - 1 = k
    BY <1>1
  <2> QED
    BY <1>2, <2>1
<1>5. Head(s) = a
  BY <1>2, <1>3, <1>1 DEF Head
<1>6. Tail(s) = q
  <2>1. /\ Tail(s) \in Seq(ProxyCalls) /\ Len(Tail(s)) = Len(s) - 1
        /\ \A k \in 1..Len(Tail(s)) : Tail(s)[k] = s[k + 1]
    BY <1>2, <1>3, HeadTailProperties
  <2>2. Len(Tail(s)) = Len(q) /\ \A k \in 1..Len(Tail(s)) : Tail(s)[k] = q[k]
    BY <1>1, <1>3, <1>4, <2>1
  <2> QED
    BY <2>1, <2>2, SeqEqual
<1> QED
  BY <1>1, <1>2, <1>3, <1>4, <1>5, <1>6

\* What a state of the worker is as a line.
LEMMA LineNow ==
  ASSUME WorkerInv
  PROVE  /\ Line = LineOf(proxyInFlight, proxyQueue)
         /\ proxyQueue \in Seq(ProxyCalls) /\ proxyInFlight \in ProxyCalls \cup {None}
         /\ None \notin ProxyCalls /\ ProxyCalls \subseteq Calls
         /\ proxyInFlight = None => proxyQueue = <<>> /\ Line = <<>>
         /\ promise \in [Calls -> W!Promises]
         /\ \A k \in DOMAIN proxyQueue : /\ proxyQueue[k] \in ProxyCalls
                                         /\ promise[proxyQueue[k]] = "queued"
<1>1. /\ LaneOrder(proxyQueue, promise, ticket) /\ W!LoopState
      /\ proxyInFlight \in ProxyCalls \cup {None}
  BY LaneOrderIs
<1>2. \A k \in DOMAIN proxyQueue : proxyQueue[k] \in ProxyCalls
  BY <1>1, LenProperties, ElementOfSeq DEF LaneOrder
<1> QED
  BY <1>1, <1>2, CallAssumption DEF LaneOrder, Holds, W!LoopState, Line, LineOf

\* While no listener is still to run, nobody in the queue was aborted, and
\* nobody is about to leave the line.
LEMMA NobodyLeaving ==
  ASSUME WorkerInv, QuitsFirst, firing = {}
  PROVE  /\ \A k \in DOMAIN proxyQueue : ~W!Aborted(proxyQueue[k])
         /\ Lane!Leaving = {}
<1>1. \A k \in DOMAIN proxyQueue : ~W!Aborted(proxyQueue[k])
  BY LineNow DEF QuitsFirst
<1>2. ASSUME NEW i \in 2..Len(Line) PROVE SignalOf[Line[i]] \notin aborted
  <2>1. proxyInFlight \in ProxyCalls
    BY LineNow, EmptySeq
  <2>2. /\ Len(Line) = Len(proxyQueue) + 1 /\ Len(proxyQueue) \in Nat
        /\ DOMAIN proxyQueue = 1..Len(proxyQueue)
        /\ \A k \in 1..Len(proxyQueue) : Line[k + 1] = proxyQueue[k]
    <3>1. /\ Len(LineOf(proxyInFlight, proxyQueue)) = Len(proxyQueue) + 1
          /\ \A k \in 1..Len(proxyQueue) : LineOf(proxyInFlight, proxyQueue)[k + 1] = proxyQueue[k]
      BY <2>1, LineNow, LineIs
    <3> QED
      BY <3>1, LineNow, LenProperties
  <2>3. i - 1 \in DOMAIN proxyQueue /\ (i - 1) + 1 = i
    BY <2>2
  <2> QED
    BY <1>1, <2>2, <2>3 DEF W!Aborted
<1> QED
  BY <1>1, <1>2 DEF Lane!Leaving

\* drainProxy on a queue in which nobody was aborted takes its first entry and
\* rejects nobody: the line is then the queue.
LEMMA DrainTakesFirst ==
  ASSUME NEW q \in Seq(ProxyCalls), NEW p \in [Calls -> W!Promises],
         \A k \in DOMAIN q : ~W!Aborted(q[k]),
         W!Drain(q, p)
  PROVE  /\ LineOf(proxyInFlight', proxyQueue') = q
         /\ \A c \in Calls : \/ promise'[c] = p[c]
                             \/ promise'[c] = "running" /\ \E k \in DOMAIN q : q[k] = c
<1>1. /\ DOMAIN q = 1..Len(q) /\ Len(q) \in Nat /\ \A k \in DOMAIN q : q[k] \in ProxyCalls
      /\ ProxyCalls \subseteq Calls /\ None \notin ProxyCalls
  BY LenProperties, ElementOfSeq, CallAssumption
<1>2. W!Dispatchable(q) = DOMAIN q
  BY DEF W!Dispatchable
<1>3. CASE q = <<>>
  <2>1. Len(q) = 0 /\ DOMAIN q = {}
    BY <1>1, <1>3, EmptySeq
  <2>2. /\ proxyQueue' = <<>> /\ proxyInFlight' = None
        /\ promise' = [c \in Calls |-> IF c \in {q[k] : k \in 1..Len(q)} THEN "aborted" ELSE p[c]]
    BY <1>2, <2>1 DEF W!Drain
  <2> QED
    BY <1>1, <1>3, <2>1, <2>2 DEF LineOf
<1>4. CASE q # <<>>
  <2>1. 1 \in DOMAIN q /\ Len(q) \in Nat \ {0}
    BY <1>1, <1>4, EmptySeq
  <2>2. W!First(W!Dispatchable(q)) = 1
    <3>1. DOMAIN q \in SUBSET Nat /\ DOMAIN q # {}
      BY <1>1, <2>1
    <3>2. W!First(DOMAIN q) \in DOMAIN q /\ W!First(DOMAIN q) <= 1
      BY <2>1, <3>1, FirstIsLeast
    <3> QED
      BY <1>1, <1>2, <3>2
  <2>3. /\ proxyQueue' = SubSeq(q, 1 + 1, Len(q)) /\ proxyInFlight' = q[1]
        /\ promise' = [[c \in Calls |-> IF c \in {q[k] : k \in 1..(1 - 1)} THEN "aborted" ELSE p[c]]
                         EXCEPT ![q[1]] = "running"]
    <3>1. W!Dispatchable(q) # {}
      BY <1>2, <2>1
    <3> QED
      BY <2>2, <3>1 DEF W!Drain
  <2>4. /\ proxyQueue' \in Seq(ProxyCalls) /\ DOMAIN proxyQueue' = 1..(Len(q) - 1)
        /\ \A k \in DOMAIN proxyQueue' : proxyQueue'[k] = q[k + 1]
    BY <2>1, <2>3, RestOfQueue
  <2>5. Len(proxyQueue') = Len(q) - 1
    BY <2>1, <2>4, LenProperties
  <2> DEFINE s == LineOf(proxyInFlight', proxyQueue')
  <2>6. /\ s \in Seq(ProxyCalls) /\ Len(s) = Len(q) /\ s[1] = q[1]
        /\ \A k \in 1..(Len(q) - 1) : s[k + 1] = q[k + 1]
    <3>1. proxyInFlight' \in ProxyCalls
      BY <1>1, <2>1, <2>3
    <3>2. /\ s \in Seq(ProxyCalls) /\ Len(s) = Len(proxyQueue') + 1 /\ s[1] = proxyInFlight'
          /\ \A k \in 1..Len(proxyQueue') : s[k + 1] = proxyQueue'[k]
      BY <2>4, <3>1, LineIs
    <3> HIDE DEF s
    <3> QED
      BY <2>1, <2>3, <2>4, <2>5, <3>2
  <2> HIDE DEF s
  <2>7. ASSUME NEW k \in 1..Len(s) PROVE s[k] = q[k]
    <3>1. CASE k = 1
      BY <2>6, <3>1
    <3>2. CASE k # 1
      <4>1. k - 1 \in 1..(Len(q) - 1) /\ (k - 1) + 1 = k
        BY <2>1, <2>6, <3>2
      <4> QED
        BY <2>6, <4>1
    <3> QED
      BY <3>1, <3>2
  <2>8. s = q
    BY <2>6, <2>7, SeqEqual
  <2>9. \A c \in Calls : promise'[c] = IF c = q[1] THEN "running" ELSE p[c]
    BY <1>1, <2>1, <2>3
  <2> QED
    BY <2>1, <2>8, <2>9 DEF s
<1> QED
  BY <1>3, <1>4

\* A call's fate after a step, for a step that gives c the fate f.
LEMMA FateChange ==
  ASSUME NEW c \in ProxyCalls, NEW f,
         \A d \in ProxyCalls : FateOf(d)' = IF d = c THEN f ELSE FateOf(d)
  PROVE  Lane!Becomes(c, f)
  BY DEF Lane!Becomes

\* A call that enters the lane joins the line, or is turned away.
LEMMA SubmitIsJoin ==
  ASSUME WorkerInv, QuitsFirst, NEW c, W!submitProxy(c)
  PROVE  Lane!Join(c) \/ Lane!TurnAway(c)
<1>1. /\ c \in ProxyCalls /\ c \in Calls /\ promise[c] = "new" /\ firing = {}
      /\ aborted' = aborted
  BY CallAssumption DEF W!submitProxy
<1>2. FateOf(c) = "new"
  BY <1>1 DEF FateOf
<1>3. CASE W!Aborted(c) /\ W!Reject(c)
  <2>1. \A d \in ProxyCalls : promise'[d] = IF d = c THEN "aborted" ELSE promise[d]
    BY <1>1, <1>3, LineNow DEF W!Reject
  <2>2. Lane!Becomes(c, "aborted")
    <3>1. \A d \in ProxyCalls : FateOf(d)' = IF d = c THEN "aborted" ELSE FateOf(d)
      BY <2>1 DEF FateOf
    <3> QED
      BY <1>1, <3>1, FateChange
  <2>3. Line' = Line
    BY <1>3 DEF W!Reject, W!proxyVars, Line
  <2> QED
    BY <1>1, <1>2, <1>3, <2>2, <2>3 DEF Lane!TurnAway, W!Aborted
<1>4. CASE ~W!Aborted(c) /\ W!Enter(c, [promise EXCEPT ![c] = "queued"])
  <2> DEFINE p == [promise EXCEPT ![c] = "queued"]
             q == Append(proxyQueue, c)
             n == Len(proxyQueue)
  <2>1. /\ p \in [Calls -> W!Promises]
        /\ \A d \in Calls : p[d] = IF d = c THEN "queued" ELSE promise[d]
    BY <1>1, LineNow DEF W!Promises
  <2>2. /\ q \in Seq(ProxyCalls) /\ Len(q) = n + 1 /\ q[n + 1] = c /\ n \in Nat
        /\ \A k \in 1..n : q[k] = proxyQueue[k]
    BY <1>1, LineNow, AppendProperties, LenProperties
  <2>3. /\ \A k \in DOMAIN proxyQueue : ~W!Aborted(proxyQueue[k])
        /\ Lane!Leaving = {}
    BY <1>1, NobodyLeaving
  <2>4. W!Enter(c, p) /\ W!Push(c) = q
    BY <1>4 DEF W!Push
  <2> HIDE DEF p, q
  <2>5. CASE proxyDraining
    <3>1. proxyQueue' = q /\ promise' = p /\ UNCHANGED proxyInFlight
      BY <2>4, <2>5 DEF W!Enter
    <3>2. proxyInFlight \in ProxyCalls
      BY <2>5, LaneOrderIs DEF W!LoopState
    <3>3. Line' = LineOf(proxyInFlight, q)
      BY <3>1 DEF Line, LineOf
    <3> DEFINE s == LineOf(proxyInFlight, proxyQueue)
               t == LineOf(proxyInFlight, q)
    <3>4. /\ s \in Seq(ProxyCalls) /\ Len(s) = n + 1 /\ s[1] = proxyInFlight
          /\ \A k \in 1..n : s[k + 1] = proxyQueue[k]
      BY <3>2, LineNow, LineIs
    <3>5. /\ t \in Seq(ProxyCalls) /\ Len(t) = n + 1 + 1 /\ t[1] = proxyInFlight
          /\ \A k \in 1..(n + 1) : t[k + 1] = q[k]
      <4>1. /\ t \in Seq(ProxyCalls) /\ Len(t) = Len(q) + 1 /\ t[1] = proxyInFlight
            /\ \A k \in 1..Len(q) : t[k + 1] = q[k]
        BY <2>2, <3>2, LineIs
      <4> HIDE DEF t
      <4> QED
        BY <2>2, <4>1
    <3> HIDE DEF s, t
    <3>6. /\ Append(s, c) \in Seq(ProxyCalls) /\ Len(Append(s, c)) = n + 1 + 1
          /\ \A k \in 1..(n + 1) : Append(s, c)[k] = s[k]
          /\ Append(s, c)[n + 1 + 1] = c
      BY <1>1, <3>4, AppendProperties
    <3>7. ASSUME NEW k \in 1..(n + 1 + 1) PROVE Append(s, c)[k] = t[k]
      <4>1. CASE k = 1
        BY <2>2, <3>4, <3>5, <3>6, <4>1
      <4>2. CASE k = n + 1 + 1
        <5>1. n + 1 \in 1..(n + 1)
          BY <2>2
        <5> QED
          BY <2>2, <3>5, <3>6, <4>2, <5>1
      <4>3. CASE k # 1 /\ k # n + 1 + 1
        <5>1. k - 1 \in 1..n /\ k - 1 \in 1..(n + 1) /\ k \in 1..(n + 1) /\ (k - 1) + 1 = k
          BY <2>2, <4>3
        <5>2. t[k] = q[k - 1] /\ s[k] = proxyQueue[k - 1]
          BY <3>4, <3>5, <5>1
        <5> QED
          BY <2>2, <3>6, <5>1, <5>2
      <4> QED
        BY <4>1, <4>2, <4>3
    <3>8. Append(s, c) = t
      BY <3>5, <3>6, <3>7, SeqEqual
    <3>9. Line' = Append(Line, c)
      BY <3>3, <3>8, LineNow DEF s, t
    <3>10. Lane!Becomes(c, "taken")
      <4>1. \A d \in ProxyCalls : FateOf(d)' = IF d = c THEN "taken" ELSE FateOf(d)
        BY <2>1, <3>1, LineNow DEF FateOf
      <4> QED
        BY <1>1, <4>1, FateChange
    <3> QED
      BY <1>1, <1>2, <1>4, <2>3, <3>9, <3>10 DEF Lane!Join, W!Aborted
  <2>6. CASE ~proxyDraining
    <3>1. W!Drain(q, p)
      BY <2>4, <2>6 DEF W!Enter
    <3>2. Line = <<>> /\ proxyQueue = <<>>
      BY <2>6, LineNow, LaneOrderIs DEF W!LoopState
    <3>3. /\ q = Append(Line, c) /\ n = 0 /\ DOMAIN q = {1} /\ q[1] = c
      <4>1. n = 0 /\ DOMAIN q = 1..1
        BY <2>2, <3>2, EmptySeq, LenProperties
      <4> QED
        BY <2>2, <3>2, <4>1 DEF q
    <3>4. /\ LineOf(proxyInFlight', proxyQueue') = q
          /\ \A d \in Calls : \/ promise'[d] = p[d]
                              \/ promise'[d] = "running" /\ \E k \in DOMAIN q : q[k] = d
      <4>1. q \in Seq(ProxyCalls) /\ p \in [Calls -> W!Promises] /\ \A k \in DOMAIN q : ~W!Aborted(q[k])
        BY <1>4, <2>1, <2>2, <3>3
      <4> QED
        BY <3>1, <4>1, DrainTakesFirst
    <3>5. Line' = Append(Line, c)
      BY <3>3, <3>4 DEF Line, LineOf
    <3>6. Lane!Becomes(c, "taken")
      <4>1. \A d \in ProxyCalls : FateOf(d)' = IF d = c THEN "taken" ELSE FateOf(d)
        BY <2>1, <3>3, <3>4, LineNow DEF FateOf
      <4> QED
        BY <1>1, <4>1, FateChange
    <3> QED
      BY <1>1, <1>2, <1>4, <2>3, <3>5, <3>6 DEF Lane!Join, W!Aborted
  <2> QED
    BY <2>5, <2>6
<1> QED
  BY <1>3, <1>4 DEF W!submitProxy

\* The request in flight settles: the first of the line is answered.
LEMMA SettleIsAnswer ==
  ASSUME WorkerInv, QuitsFirst, NEW out \in {"resolved", "failed"}, W!ProxySettles(out)
  PROVE  Lane!Answer(out)
<1> DEFINE a == proxyInFlight
           p == [promise EXCEPT ![a] = out]
<1>1. /\ firing = {} /\ aborted' = aborted /\ W!Drain(proxyQueue, p)
      /\ a \in ProxyCalls /\ a \in Calls
  BY LineNow DEF W!ProxySettles
<1>2. /\ p \in [Calls -> W!Promises]
      /\ \A d \in Calls : p[d] = IF d = a THEN out ELSE promise[d]
  BY <1>1, LineNow DEF W!Promises
<1> HIDE DEF p
<1>3. /\ \A k \in DOMAIN proxyQueue : ~W!Aborted(proxyQueue[k])
      /\ Lane!Leaving = {}
  BY <1>1, NobodyLeaving
<1>4. /\ LineOf(proxyInFlight', proxyQueue') = proxyQueue
      /\ \A d \in Calls : \/ promise'[d] = p[d]
                          \/ promise'[d] = "running" /\ \E k \in DOMAIN proxyQueue : proxyQueue[k] = d
  BY <1>1, <1>2, <1>3, LineNow, DrainTakesFirst
<1>5. Line # <<>> /\ Head(Line) = a /\ Line' = Tail(Line)
  <2>1. Line' = proxyQueue
    BY <1>4 DEF Line, LineOf
  <2>2. LineOf(a, proxyQueue) # <<>> /\ Head(LineOf(a, proxyQueue)) = a /\ Tail(LineOf(a, proxyQueue)) = proxyQueue
    BY <1>1, LineNow, LineIs
  <2> QED
    BY <2>1, <2>2, LineNow
<1>6. Lane!Becomes(a, out)
  <2>1. promise[a] = "running"
    BY <1>1, LaneOrderIs DEF W!OneAtATime
  <2>2. ASSUME NEW d \in ProxyCalls PROVE FateOf(d)' = IF d = a THEN out ELSE FateOf(d)
    <3>1. d \in Calls /\ (d = a => ~\E k \in DOMAIN proxyQueue : proxyQueue[k] = d)
      BY <2>1, LineNow
    <3>2. CASE promise'[d] = p[d]
      BY <1>2, <3>1, <3>2 DEF FateOf
    <3>3. CASE promise'[d] = "running" /\ \E k \in DOMAIN proxyQueue : proxyQueue[k] = d
      BY <3>1, <3>3, LineNow DEF FateOf
    <3> QED
      BY <1>4, <3>1, <3>2, <3>3
  <2> QED
    BY <1>1, <2>2, FateChange
<1> QED
  BY <1>1, <1>3, <1>5, <1>6 DEF Lane!Answer

\* drainProxy lets nobody wait who did not wait before.
LEMMA QueuedByDrain ==
  ASSUME NEW q, NEW p, W!Drain(q, p), NEW c \in Calls
  PROVE  promise'[c] = p[c] \/ promise'[c] # "queued"
  BY DEF W!Drain

\* A listener runs: its call leaves the line from the place behind its place
\* in the queue.
LEMMA OnAbortIsGiveUp ==
  ASSUME WorkerInv, NEW c, W!OnAbort(c)
  PROVE  \E i \in Lane!Leaving : Lane!GiveUp(i)
<1> DEFINE a == proxyInFlight
           q == proxyQueue
           n == Len(q)
<1>1. /\ c \in firing /\ promise' = [promise EXCEPT ![c] = "aborted"]
      /\ UNCHANGED <<proxyInFlight, aborted>>
  BY DEF W!OnAbort
<1>2. PICK i \in DOMAIN q : q[i] = c /\ proxyQueue' = W!Splice(q, i)
  BY DEF W!OnAbort
<1>3. /\ c \in ProxyCalls /\ c \in Calls /\ SignalOf[c] \in aborted
  BY <1>1, LaneOrderIs, CallAssumption DEF W!OnlyAborted, W!Aborted
<1>4. /\ q \in Seq(ProxyCalls) /\ n \in Nat /\ DOMAIN q = 1..n /\ i \in 1..n
      /\ a \in ProxyCalls
  BY <1>2, LineNow, LenProperties, EmptySeq
<1>5. /\ proxyQueue' \in Seq(ProxyCalls) /\ Len(proxyQueue') = n - 1
      /\ \A k \in 1..(n - 1) : proxyQueue'[k] = q[IF k < i THEN k ELSE k + 1]
  BY <1>2, <1>4, SpliceIs
<1> DEFINE s == LineOf(a, q)
           t == LineOf(a, proxyQueue')
<1>6. /\ s \in Seq(ProxyCalls) /\ Len(s) = n + 1 /\ s[1] = a
      /\ \A k \in 1..n : s[k + 1] = q[k]
  BY <1>4, LineIs
<1>7. /\ t \in Seq(ProxyCalls) /\ Len(t) = Len(proxyQueue') + 1 /\ t[1] = a
      /\ \A k \in 1..Len(proxyQueue') : t[k + 1] = proxyQueue'[k]
  BY <1>4, <1>5, LineIs
<1>8. Line = s /\ Line' = t
  BY <1>1, LineNow DEF Line, LineOf
<1> HIDE DEF s, t, q
<1> DEFINE u == W!Splice(s, i + 1)
<1>9. i + 1 \in 2..(n + 1) /\ i + 1 \in DOMAIN s /\ s[i + 1] = c
  <2>1. DOMAIN s = 1..(n + 1)
    BY <1>6, LenProperties
  <2> QED
    BY <1>2, <1>4, <1>6, <2>1
<1>10. /\ u \in Seq(ProxyCalls) /\ Len(u) = n
       /\ \A k \in 1..n : u[k] = s[IF k < i + 1 THEN k ELSE k + 1]
  <2>1. /\ u \in Seq(ProxyCalls) /\ Len(u) = Len(s) - 1
        /\ \A k \in 1..(Len(s) - 1) : u[k] = s[IF k < i + 1 THEN k ELSE k + 1]
    BY <1>6, <1>9, SpliceIs
  <2>2. Len(s) - 1 = n
    BY <1>4, <1>6
  <2> HIDE DEF u
  <2> QED
    BY <2>1, <2>2
<1> HIDE DEF u
<1>11. ASSUME NEW k \in 1..n PROVE t[k] = u[k]
  <2>1. CASE k = 1
    <3>1. 1 < i + 1
      BY <1>4
    <3> QED
      BY <1>6, <1>7, <1>10, <2>1, <3>1
  <2>2. CASE k # 1
    <3>1. k - 1 \in 1..(n - 1) /\ (k - 1) + 1 = k
      BY <1>4, <2>2
    <3>2. t[k] = q[IF k - 1 < i THEN k - 1 ELSE k]
      BY <1>5, <1>7, <3>1
    <3>3. CASE k < i + 1
      <4>1. k - 1 < i /\ k - 1 \in 1..n /\ u[k] = s[k]
        BY <1>4, <1>10, <3>1, <3>3
      <4>2. s[(k - 1) + 1] = q[k - 1]
        BY <1>6, <4>1
      <4> QED
        BY <3>1, <3>2, <4>1, <4>2
    <3>4. CASE ~(k < i + 1)
      <4>1. ~(k - 1 < i) /\ k \in 1..n /\ u[k] = s[k + 1]
        BY <1>4, <1>10, <3>1, <3>4
      <4> QED
        BY <1>6, <3>2, <4>1
    <3> QED
      BY <3>3, <3>4
  <2> QED
    BY <2>1, <2>2
<1>12. t = u
  <2>1. Len(t) = n /\ Len(t) = Len(u)
    BY <1>4, <1>5, <1>7, <1>10
  <2> QED
    BY <1>7, <1>10, <1>11, <2>1, SeqEqual
<1>13. Line' = SubSeq(Line, 1, (i + 1) - 1) \o SubSeq(Line, (i + 1) + 1, Len(Line))
  BY <1>8, <1>12 DEF u, W!Splice
<1>14. i + 1 \in Lane!Leaving
  BY <1>3, <1>6, <1>8, <1>9 DEF Lane!Leaving
<1>15. Lane!Becomes(Line[i + 1], "aborted")
  <2>1. \A d \in ProxyCalls : FateOf(d)' = IF d = c THEN "aborted" ELSE FateOf(d)
    BY <1>1, <1>3, LineNow DEF FateOf
  <2> QED
    BY <1>3, <1>8, <1>9, <2>1, FateChange
<1> QED
  BY <1>1, <1>13, <1>14, <1>15 DEF Lane!GiveUp

\* A step of the native lane, or none of the worker, is none of the lane.
LEMMA NativeIsNothing ==
  ASSUME WorkerInv,
         \/ UNCHANGED workerVars
         \/ \E c, out : W!submitNative(c) \/ W!NativeSettles(c, out)
  PROVE  UNCHANGED Lane!laneVars
<1>1. UNCHANGED <<proxyQueue, proxyInFlight, aborted>>
      /\ \A d \in ProxyCalls : promise'[d] = promise[d]
  BY LineNow DEF workerVars, W!submitNative, W!NativeSettles, W!Reject, W!proxyVars
<1>2. Line' = Line /\ aborted' = aborted
  BY <1>1 DEF Line
<1>3. [d \in ProxyCalls |-> FateOf(d)]' = [d \in ProxyCalls |-> FateOf(d)]
  BY <1>1 DEF FateOf
<1> QED
  BY <1>2, <1>3 DEF Lane!laneVars

\* A signal fires.
LEMMA AbortIsFire ==
  ASSUME WorkerInv, QuitsFirst, NEW r \in Runs, W!Abort(r)
  PROVE  Lane!Fire(r)
<1>1. /\ firing = {} /\ r \notin aborted /\ aborted' = aborted \cup {r}
      /\ UNCHANGED <<proxyQueue, proxyInFlight, promise>>
  BY DEF W!Abort, W!proxyVars
<1>2. Line' = Line /\ [d \in ProxyCalls |-> FateOf(d)]' = [d \in ProxyCalls |-> FateOf(d)]
  BY <1>1 DEF Line, FateOf
<1> QED
  BY <1>1, <1>2, NobodyLeaving DEF Lane!Fire

\* Every step of the worker is one of the lane, or none.
LEMMA LaneStep ==
  ASSUME WorkerInv, QuitsFirst, WorkerAction \/ UNCHANGED workerVars
  PROVE  [Lane!Next]_(Lane!laneVars)
<1>1. ASSUME NEW c, W!submitProxy(c) PROVE Lane!Next
  <2>1. c \in ProxyCalls
    BY <1>1 DEF W!submitProxy
  <2> QED
    BY <1>1, <2>1, SubmitIsJoin DEF Lane!Next
<1>2. ASSUME NEW c, W!OnAbort(c) PROVE Lane!Next
  BY <1>2, OnAbortIsGiveUp DEF Lane!Next
<1>3. ASSUME NEW out \in {"resolved", "failed"}, W!ProxySettles(out) PROVE Lane!Next
  BY <1>3, SettleIsAnswer DEF Lane!Next
<1>4. ASSUME NEW r \in Runs, W!Abort(r) PROVE Lane!Next
  BY <1>4, AbortIsFire DEF Lane!Next
<1>5. ASSUME \/ UNCHANGED workerVars
             \/ \E c, out : W!submitNative(c) \/ W!NativeSettles(c, out)
      PROVE  UNCHANGED Lane!laneVars
  BY <1>5, NativeIsNothing
<1> QED
  BY <1>1, <1>2, <1>3, <1>4, <1>5 DEF WorkerAction

\* A waiting call whose signal fired keeps its listener until it has run: a
\* signal fires for all its waiting calls at once, and nothing else happens
\* before the last listener is done.
LEMMA QuitsFirstStep ==
  ASSUME WorkerInv, QuitsFirst, WorkerAction \/ UNCHANGED workerVars
  PROVE  QuitsFirst'
<1>1. CASE UNCHANGED workerVars
  BY <1>1 DEF workerVars, QuitsFirst, W!Aborted
<1>2. ASSUME NEW c, W!submitProxy(c) PROVE QuitsFirst'
  <2> SUFFICES ASSUME NEW d \in ProxyCalls, promise'[d] = "queued", W!Aborted(d)' PROVE FALSE
    BY DEF QuitsFirst
  <2>1. /\ c \in ProxyCalls /\ c \in Calls /\ d \in Calls /\ firing = {} /\ aborted' = aborted
    BY <1>2, CallAssumption DEF W!submitProxy
  <2>2. promise[d] # "queued"
    BY <2>1 DEF QuitsFirst, W!Aborted
  <2>3. CASE W!Reject(c)
    BY <2>1, <2>2, <2>3, LineNow DEF W!Reject
  <2>4. CASE ~W!Aborted(c) /\ W!Enter(c, [promise EXCEPT ![c] = "queued"])
    <3> DEFINE p == [promise EXCEPT ![c] = "queued"]
    <3>1. p[d] # "queued" /\ d # c
      BY <2>1, <2>2, <2>4, LineNow DEF W!Aborted
    <3>2. W!Enter(c, p)
      BY <2>4
    <3> HIDE DEF p
    <3>3. promise'[d] = p[d] \/ promise'[d] # "queued"
      BY <2>1, <3>2, QueuedByDrain DEF W!Enter
    <3> QED
      BY <3>1, <3>3
  <2> QED
    BY <1>2, <2>3, <2>4 DEF W!submitProxy
<1>3. ASSUME NEW out \in {"resolved", "failed"}, W!ProxySettles(out) PROVE QuitsFirst'
  <2> SUFFICES ASSUME NEW d \in ProxyCalls, promise'[d] = "queued", W!Aborted(d)' PROVE FALSE
    BY DEF QuitsFirst
  <2> DEFINE p == [promise EXCEPT ![proxyInFlight] = out]
  <2>1. firing = {} /\ aborted' = aborted /\ d \in Calls /\ W!Drain(proxyQueue, p)
    BY <1>3, CallAssumption DEF W!ProxySettles
  <2>2. p[d] # "queued"
    BY <2>1, LineNow DEF QuitsFirst, W!Aborted
  <2> HIDE DEF p
  <2> QED
    BY <2>1, <2>2, QueuedByDrain
<1>4. ASSUME NEW c, NEW out, W!submitNative(c) \/ (out \in {"resolved", "failed"} /\ W!NativeSettles(c, out))
      PROVE  QuitsFirst'
  BY <1>4, LineNow DEF W!submitNative, W!NativeSettles, W!Reject, QuitsFirst, W!Aborted
<1>5. ASSUME NEW c, W!OnAbort(c) PROVE QuitsFirst'
  BY <1>5, LineNow DEF W!OnAbort, QuitsFirst, W!Aborted
<1>6. ASSUME NEW r \in Runs, W!Abort(r) PROVE QuitsFirst'
  BY <1>6 DEF W!Abort, W!Listening, QuitsFirst, W!Aborted
<1> QED
  BY <1>1, <1>2, <1>3, <1>4, <1>5, <1>6 DEF WorkerAction

-----------------------------------------------------------------------------
(* What is proved.                                                         *)

\* One proxied request at most is open to a FortiManager, whoever submitted
\* it, through every abort (drainProxy).
THEOREM OneAtATimeHolds == Spec => []OneAtATime
<1>1. IInv => OneAtATime
  BY DEF IInv, WorkerInv, W!LaneInv, OneAtATime
<1> QED
  BY <1>1, Invariance, PTL

\* The proxy lane sends in the order of arrival, also when a listener takes an
\* aborted entry out of the middle of the queue.
THEOREM FifoHolds == Spec => []Fifo
<1>1. IInv => Fifo
  BY DEF IInv, WorkerInv, W!LaneInv, Fifo
<1> QED
  BY <1>1, Invariance, PTL

\* To its callers the proxy lane is the line of ProxyLane: the worker, with all
\* the runs, aborts and other features that use it, implements that
\* specification.  In particular the loop of drainProxy never comes to an entry
\* whose signal has fired, which its listener has removed before.
THEOREM LaneServesHolds == Spec => LaneServes
<1>1. Init => QuitsFirst /\ Lane!Init
  <2> SUFFICES ASSUME Init PROVE QuitsFirst /\ Lane!Init
    OBVIOUS
  <2>1. QuitsFirst
    BY CallAssumption DEF Init, W!Init, QuitsFirst
  <2>2. Line = <<>> /\ aborted = {} /\ \A c \in ProxyCalls : FateOf(c) = "new"
    BY CallAssumption DEF Init, W!Init, Line, FateOf
  <2> QED
    BY <2>1, <2>2 DEF Lane!Init
<1>2. IInv /\ QuitsFirst /\ [Next]_vars => QuitsFirst' /\ [Lane!Next]_(Lane!laneVars)
  <2> SUFFICES ASSUME IInv, QuitsFirst, [Next]_vars
               PROVE  QuitsFirst' /\ [Lane!Next]_(Lane!laneVars)
    OBVIOUS
  <2>1. WorkerInv /\ (WorkerAction \/ UNCHANGED workerVars)
    BY StepOfWorker DEF IInv, TypeOK
  <2> QED
    BY <2>1, LaneStep, QuitsFirstStep
<1> QED
  BY <1>1, <1>2, Invariance, PTL DEF Spec, LaneServes, Lane!Spec

\* A waiting caller is in the queue and a loop is there to come to it.
THEOREM NotStrandedHolds == Spec => []NotStranded
<1>1. IInv => NotStranded
  <2> SUFFICES ASSUME IInv, NEW c \in ProxyCalls, promise[c] = "queued"
               PROVE  W!InQueue(c) /\ proxyDraining
    BY DEF NotStranded, W!NotStranded
  <2>1. W!QueueState /\ W!LoopState /\ W!TypeOK
    BY DEF IInv, WorkerInv, W!LaneInv
  <2>2. W!InQueue(c)
    BY <2>1 DEF W!QueueState
  <2>3. proxyQueue # <<>>
    BY <2>2, EmptySeq DEF W!InQueue
  <2> QED
    BY <2>1, <2>2, <2>3 DEF W!LoopState
<1> QED
  BY <1>1, Invariance, PTL

\* Aborting runs leaves the queued call of another feature alone: it carries
\* no signal.
THEOREM PushUnharmedHolds == Spec => []PushUnharmed
<1>1. IInv => PushUnharmed
  <2> SUFFICES ASSUME IInv, PushCall # None, promise[PushCall] = "aborted" PROVE FALSE
    BY DEF PushUnharmed
  <2>1. aborted \subseteq Runs /\ W!OnlyAborted
    BY DEF IInv, WorkerInv, W!LaneInv, W!TypeOK
  <2> QED
    BY <2>1, PushAssumption, SignalAssumption DEF W!OnlyAborted, W!Aborted
<1> QED
  BY <1>1, Invariance, PTL

\* A slow run is reported once, however many checks are under way
\* (checkForSlowRuns).
THEOREM OneSlowEventHolds == Spec => []OneSlowEvent
<1>1. IInv => OneSlowEvent
  BY DEF IInv, Flagged, OneSlowEvent
<1> QED
  BY <1>1, Invariance, PTL

\* Nothing is sent for a run after its abort.
THEOREM AbortedNotSentHolds == Spec => AbortedNotSent
<1>1. IInv /\ [Next]_vars => [NoLateSend]_(W!vars)
  BY StepGood DEF workerVars, W!vars, W!proxyVars
<1> QED
  BY <1>1, Invariance, PTL DEF Spec, AbortedNotSent, W!AbortedNotSent, NoLateSend

\* A run that was aborted never begins to deprecate what it did not see,
\* whatever phase the abort caught it in (triggerDiscovery).
THEOREM AbortedNeverFinalizesHolds == Spec => AbortedNeverFinalizes
<1>1. IInv /\ [Next]_vars => [FinalizeStep]_vars
  BY StepGood
<1> QED
  BY <1>1, Invariance, PTL DEF Spec, AbortedNeverFinalizes, FinalizeStep

\* A restore of the database begins beside a writing run that nobody aborted
\* only when a run that was replaced took that run's entry away as it ended.
THEOREM RestoreAloneHolds == Spec => RestoreAlone
<1>1. IInv /\ [Next]_vars => [RestoreStep]_vars
  BY StepGood
<1> QED
  BY <1>1, Invariance, PTL DEF Spec, RestoreAlone, RestoreStep

=============================================================================
