---------------------------- MODULE SampleProofs ----------------------------
(***************************************************************************)
(* Proofs about the way of a sample.                                       *)
(*                                                                         *)
(* SampleWriteBuffer, for any number of rows, any flush threshold, any     *)
(* number of tries and any number of lost answers: rows are written in     *)
(* their order and once, and the shutdown hook drains what it took.        *)
(*                                                                         *)
(* SampleTiers, for every length of the hour, the day and the chunk, every *)
(* retention and every lateness below two hours: what a closed hour and a  *)
(* closed day say of their last sample, and that the tier picked for a     *)
(* chart is complete.                                                      *)
(***************************************************************************)
EXTENDS SampleWriteBuffer, SampleTiers,
        SequenceTheorems, FiniteSetTheorems, WellFoundedInduction, TLAPS

-----------------------------------------------------------------------------
(* The write buffer.                                                       *)

\* The elements of a concatenation are those of its parts.
LEMMA ToSetConcat ==
  ASSUME NEW S, NEW s \in Seq(S), NEW t \in Seq(S)
  PROVE  ToSet(s \o t) = ToSet(s) \cup ToSet(t)
<1>1. /\ s \o t \in Seq(S) /\ Len(s \o t) = Len(s) + Len(t)
      /\ \A i \in 1..(Len(s) + Len(t)) :
           (s \o t)[i] = IF i <= Len(s) THEN s[i] ELSE t[i - Len(s)]
  BY ConcatProperties
<1>2. /\ Len(s) \in Nat /\ Len(t) \in Nat
      /\ DOMAIN s = 1..Len(s) /\ DOMAIN t = 1..Len(t)
      /\ DOMAIN (s \o t) = 1..(Len(s) + Len(t))
  BY <1>1, LenProperties
<1>3. ASSUME NEW x \in ToSet(s \o t) PROVE x \in ToSet(s) \cup ToSet(t)
  <2>1. PICK i \in 1..(Len(s) + Len(t)) : x = (s \o t)[i]
    BY <1>2 DEF ToSet
  <2>2. CASE i <= Len(s)
    <3>1. i \in 1..Len(s) /\ x = s[i]
      BY <1>1, <1>2, <2>1, <2>2
    <3> QED
      BY <1>2, <3>1 DEF ToSet
  <2>3. CASE ~(i <= Len(s))
    <3>1. i - Len(s) \in 1..Len(t) /\ x = t[i - Len(s)]
      BY <1>1, <1>2, <2>1, <2>3
    <3> QED
      BY <1>2, <3>1 DEF ToSet
  <2> QED
    BY <2>2, <2>3
<1>4. ASSUME NEW x \in ToSet(s) PROVE x \in ToSet(s \o t)
  <2>1. PICK i \in 1..Len(s) : x = s[i]
    BY <1>2 DEF ToSet
  <2>2. i \in 1..(Len(s) + Len(t)) /\ x = (s \o t)[i]
    BY <1>1, <1>2, <2>1
  <2> QED
    BY <1>2, <2>2 DEF ToSet
<1>5. ASSUME NEW x \in ToSet(t) PROVE x \in ToSet(s \o t)
  <2>1. PICK i \in 1..Len(t) : x = t[i]
    BY <1>2 DEF ToSet
  <2>2. i + Len(s) \in 1..(Len(s) + Len(t)) /\ x = (s \o t)[i + Len(s)]
    BY <1>1, <1>2, <2>1
  <2> QED
    BY <1>2, <2>2 DEF ToSet
<1> QED
  BY <1>3, <1>4, <1>5

\* No row is in an empty batch.
LEMMA ToSetEmpty == ToSet(<<>>) = {}
  BY EmptySeq DEF ToSet

\* The rows of an enqueue continue the arrivals.
LEMMA ArrivingRows ==
  ASSUME BTypeOK, NEW n \in Nat, arrived + n <= MaxRows
  PROVE  /\ Arriving(n) \in Seq(Rows) /\ Len(Arriving(n)) = n
         /\ \A i \in 1..n : Arriving(n)[i] = arrived + i
         /\ \A r \in (arrived + 1)..(arrived + n) : r \in ToSet(Arriving(n))
<1>1. \A i \in 1..n : arrived + i \in Rows
  BY BufferAssumption DEF BTypeOK, Rows
<1>2. Arriving(n) \in [1..n -> Rows]
  BY <1>1 DEF Arriving
<1>3. Arriving(n) \in Seq(Rows)
  BY <1>2, SeqDef
<1>4. DOMAIN Arriving(n) = 1..n
  BY DEF Arriving
<1>5. Len(Arriving(n)) = n
  BY <1>3, <1>4, LenProperties
<1>6. \A i \in 1..n : Arriving(n)[i] = arrived + i
  BY DEF Arriving
<1>7. ASSUME NEW r \in (arrived + 1)..(arrived + n) PROVE r \in ToSet(Arriving(n))
  <2>1. r - arrived \in 1..n /\ Arriving(n)[r - arrived] = r
    BY <1>6, BufferAssumption DEF BTypeOK
  <2> QED
    BY <1>4, <2>1 DEF ToSet
<1> QED
  BY <1>3, <1>5, <1>6, <1>7

\* Arrivals in their order, continued by an enqueue, are arrivals in their order.
LEMMA OrderContinued ==
  ASSUME BTypeOK, NEW n \in Nat, arrived + n <= MaxRows,
         NEW s \in Seq(Rows), s = [i \in 1..arrived |-> i]
  PROVE  s \o Arriving(n) = [i \in 1..(arrived + n) |-> i]
<1> DEFINE u == s \o Arriving(n)
           w == [i \in 1..(arrived + n) |-> i]
<1>1. arrived \in Nat /\ arrived + n \in Nat
  BY BufferAssumption DEF BTypeOK
<1>2. Len(s) = arrived /\ Arriving(n) \in Seq(Rows) /\ Len(Arriving(n)) = n
  <2>1. DOMAIN s = 1..arrived /\ DOMAIN s = 1..Len(s) /\ Len(s) \in Nat
    BY LenProperties
  <2> QED
    BY <1>1, <2>1, ArrivingRows
<1>3. /\ u \in Seq(Rows) /\ Len(u) = arrived + n
      /\ \A i \in 1..(arrived + n) : u[i] = IF i <= arrived THEN s[i] ELSE Arriving(n)[i - arrived]
  <2>1. /\ u \in Seq(Rows) /\ Len(u) = Len(s) + Len(Arriving(n))
        /\ \A i \in 1..(Len(s) + Len(Arriving(n))) :
             u[i] = IF i <= Len(s) THEN s[i] ELSE Arriving(n)[i - Len(s)]
    <3> HIDE DEF u
    <3>1. u = s \o Arriving(n)
      BY DEF u
    <3> QED
      BY <1>2, <3>1, ConcatProperties, Zenon
  <2> HIDE DEF u
  <2> QED
    BY <1>2, <2>1
<1>4. \A i \in 1..(arrived + n) : u[i] = i
  BY <1>1, <1>3, ArrivingRows
<1>5. DOMAIN u = 1..(arrived + n) /\ u \in [1..(arrived + n) -> Rows]
  BY <1>3, LenProperties
<1> QED
  BY <1>4, <1>5

-----------------------------------------------------------------------------
(* flushTable up to its await moves rows from the buffer to the batch, and *)
(* leaves their order and the batch of a flush in flight alone.            *)

\* A flush moves rows from the buffer to the batch, unless one is under way.
LEMMA FlushMoves ==
  ASSUME BTypeOK, FlushState, NEW b \in Seq(Rows), Flush(b)
  PROVE  /\ buffer' \in Seq(Rows) /\ sending' \in Seq(Rows) /\ flushing' \in BOOLEAN
         /\ ~flushing' => sending' = <<>>
         /\ flushing => flushing' /\ sending' = sending
         /\ table \o sending' \o buffer' = table \o sending \o b
         /\ ToSet(sending') \cup ToSet(buffer') = ToSet(sending) \cup ToSet(b)
         /\ ~flushing => sending' = b /\ buffer' = <<>>
<1>1. CASE flushing
  BY <1>1 DEF Flush, BTypeOK
<1>2. CASE ~flushing /\ b = <<>>
  BY <1>2 DEF Flush, BTypeOK, FlushState
<1>3. CASE ~flushing /\ b # <<>>
  <2>1. sending = <<>> /\ sending' = b /\ buffer' = <<>> /\ flushing'
    BY <1>3 DEF Flush, FlushState
  <2>2. table \o sending' \o buffer' = table \o b
    BY <2>1, ConcatProperties, ConcatEmptySeq DEF BTypeOK
  <2>3. table \o sending \o b = table \o b
    BY <2>1, ConcatEmptySeq DEF BTypeOK
  <2>4. buffer' \in Seq(Rows) /\ flushing' \in BOOLEAN
    BY <1>3, <2>1, EmptySeq DEF Flush
  <2> QED
    BY <1>3, <2>1, <2>2, <2>3, <2>4, ToSetEmpty
<1> QED
  BY <1>1, <1>2, <1>3

-----------------------------------------------------------------------------
(* Every step keeps the invariant.                                         *)

\* The buffer starts empty.
LEMMA InitGood == BInit => BIInv
<1> SUFFICES ASSUME BInit PROVE BIInv
  OBVIOUS
<1>1. BTypeOK
  <2>1. 0 \in 0..(MaxAttempts - 1) /\ 0 \in 0..MaxRows /\ 0 \in 0..MaxLost
    BY BufferAssumption
  <2>2. <<>> \in Seq(Rows)
    BY EmptySeq
  <2> QED
    BY <2>1, <2>2 DEF BInit, BTypeOK
<1>2. table \o sending \o buffer = <<>>
  BY ConcatEmptySeq DEF BInit, BTypeOK
<1>3. [i \in 1..arrived |-> i] = <<>>
  BY DEF BInit
<1>4. FlushState /\ InOrder /\ NoneDropped /\ HookHolds /\ ShutdownDrains
  BY <1>2, <1>3 DEF BInit, FlushState, InOrder, NoneDropped, HookHolds, ShutdownDrains
<1> QED
  BY <1>1, <1>4 DEF BIInv

\* Rows arrive: they follow the others, in the buffer or in a new batch.
LEMMA EnqueueGood ==
  ASSUME BIInv, NEW n \in 1..2, Enqueue(n)
  PROVE  BIInv'
<1> USE DEF BIInv
<1> DEFINE b == buffer \o Arriving(n)
<1>1. n \in Nat /\ arrived \in Nat /\ arrived + n <= MaxRows /\ arrived' = arrived + n
  BY BufferAssumption DEF BTypeOK, Enqueue
<1>2. /\ b \in Seq(Rows)
      /\ ToSet(b) = ToSet(buffer) \cup ToSet(Arriving(n))
  BY <1>1, ArrivingRows, ConcatProperties, ToSetConcat DEF BTypeOK
<1>3. /\ buffer' \in Seq(Rows) /\ sending' \in Seq(Rows) /\ flushing' \in BOOLEAN
      /\ ~flushing' => sending' = <<>>
      /\ flushing => flushing' /\ sending' = sending
      /\ table \o sending' \o buffer' = table \o sending \o b
      /\ ToSet(sending') \cup ToSet(buffer') = ToSet(sending) \cup ToSet(b)
  <2>1. CASE Flush(b)
    BY <1>2, <2>1, FlushMoves
  <2>2. CASE buffer' = b /\ UNCHANGED <<sending, flushing>>
    BY <1>2, <2>2 DEF BTypeOK, FlushState
  <2> QED
    BY <2>1, <2>2 DEF Enqueue
<1>4. BTypeOK'
  BY <1>1, <1>3, BufferAssumption DEF BTypeOK, Enqueue
<1>5. FlushState'
  BY <1>3 DEF FlushState, Enqueue
<1>6. InOrder'
  <2> SUFFICES ASSUME process # "exited", lost = 0
               PROVE  table \o sending' \o buffer' = [i \in 1..(arrived + n) |-> i]
    BY <1>1 DEF InOrder, Enqueue
  <2>1. table \o sending \in Seq(Rows) /\ table \o sending \o buffer \in Seq(Rows)
    BY ConcatProperties DEF BTypeOK
  <2>2. table \o sending \o b = (table \o sending \o buffer) \o Arriving(n)
    <3>1. Arriving(n) \in Seq(Rows) /\ buffer \in Seq(Rows)
      BY <1>1, ArrivingRows DEF BTypeOK
    <3> QED
      BY <2>1, <3>1, ConcatAssociative
  <2>3. table \o sending \o buffer = [i \in 1..arrived |-> i]
    BY DEF InOrder
  <2> QED
    BY <1>1, <1>3, <2>1, <2>2, <2>3, OrderContinued
<1>7. NoneDropped'
  <2> SUFFICES ASSUME process # "exited", NEW r \in 1..(arrived + n)
               PROVE  r \in ToSet(table) \cup ToSet(sending') \cup ToSet(buffer')
    BY <1>1 DEF NoneDropped, Enqueue
  <2>1. CASE r \in 1..arrived
    BY <1>2, <1>3, <2>1 DEF NoneDropped
  <2>2. CASE r \in (arrived + 1)..(arrived + n)
    BY <1>1, <1>2, <1>3, <2>2, ArrivingRows
  <2> QED
    BY <1>1, <2>1, <2>2
<1>8. HookHolds'
  BY <1>3 DEF HookHolds, FlushState, Enqueue
<1>9. ShutdownDrains'
  BY DEF ShutdownDrains, Enqueue
<1> QED
  BY <1>4, <1>5, <1>6, <1>7, <1>8, <1>9

\* The timer flushes.
LEMMA TickGood ==
  ASSUME BIInv, FlushTick
  PROVE  BIInv'
<1> USE DEF BIInv
<1>1. /\ buffer' \in Seq(Rows) /\ sending' \in Seq(Rows) /\ flushing' \in BOOLEAN
      /\ ~flushing' => sending' = <<>>
      /\ flushing => flushing' /\ sending' = sending
      /\ table \o sending' \o buffer' = table \o sending \o buffer
      /\ ToSet(sending') \cup ToSet(buffer') = ToSet(sending) \cup ToSet(buffer)
  BY FlushMoves DEF FlushTick, BTypeOK
<1>2. BTypeOK' /\ FlushState'
  BY <1>1 DEF BTypeOK, FlushState, FlushTick
<1>3. InOrder' /\ NoneDropped'
  BY <1>1 DEF InOrder, NoneDropped, FlushTick
<1>4. HookHolds' /\ ShutdownDrains'
  BY DEF HookHolds, ShutdownDrains, FlushTick
<1> QED
  BY <1>2, <1>3, <1>4

\* The write succeeds.
LEMMA WriteOkGood ==
  ASSUME BIInv, WriteOk
  PROVE  BIInv'
<1> USE DEF BIInv
<1>1. /\ table \o sending \in Seq(Rows)
      /\ ToSet(table \o sending) = ToSet(table) \cup ToSet(sending)
      /\ <<>> \in Seq(Rows)
  BY ConcatProperties, ToSetConcat, EmptySeq DEF BTypeOK
<1>2. BTypeOK'
  <2>1. 0 \in 0..(MaxAttempts - 1)
    BY BufferAssumption
  <2> QED
    BY <1>1, <2>1 DEF BTypeOK, WriteOk
<1>3. FlushState'
  BY DEF FlushState, WriteOk
<1>4. table' \o sending' \o buffer' = table \o sending \o buffer
  BY <1>1, ConcatEmptySeq DEF WriteOk
<1>5. InOrder'
  BY <1>4 DEF InOrder, WriteOk
<1>6. NoneDropped' /\ HookHolds' /\ ShutdownDrains'
  BY <1>1, ToSetEmpty DEF NoneDropped, HookHolds, ShutdownDrains, WriteOk
<1> QED
  BY <1>2, <1>3, <1>5, <1>6

\* The batch is tried again.
LEMMA DeadlockGood ==
  ASSUME BIInv, WriteDeadlock
  PROVE  BIInv'
<1> USE DEF BIInv
<1>1. BTypeOK'
  BY BufferAssumption DEF BTypeOK, WriteDeadlock, RetryLeft
<1>2. FlushState' /\ InOrder' /\ NoneDropped' /\ HookHolds' /\ ShutdownDrains'
  BY DEF FlushState, InOrder, NoneDropped, HookHolds, ShutdownDrains, WriteDeadlock
<1> QED
  BY <1>1, <1>2

\* The write fails, or its answer is lost: the batch returns to the front.
LEMMA FailsGood ==
  ASSUME BIInv, WriteFails
  PROVE  BIInv'
<1> USE DEF BIInv
<1>1. /\ PutBack \in Seq(Rows)
      /\ ToSet(PutBack) = ToSet(sending) \cup ToSet(buffer)
      /\ table \o sending \in Seq(Rows)
      /\ ToSet(table \o sending) = ToSet(table) \cup ToSet(sending)
      /\ <<>> \in Seq(Rows)
  BY ConcatProperties, ToSetConcat, EmptySeq DEF BTypeOK, PutBack
<1>2. /\ buffer' = PutBack /\ sending' = <<>> /\ flushing' = FALSE /\ attempt' = 0
      /\ hookFlush' = FALSE /\ due' = (IF hookFlush THEN 0 ELSE due)
      /\ UNCHANGED <<arrived, process, jobs>> /\ process # "exited"
      /\ \/ UNCHANGED <<table, lost>>
         \/ lost < MaxLost /\ lost' = lost + 1 /\ table' = table \o sending
  BY DEF WriteFails
<1>3. BTypeOK'
  <2>1. 0 \in 0..(MaxAttempts - 1) /\ 0 \in 0..MaxRows
    BY BufferAssumption
  <2>2. lost' \in 0..MaxLost
    BY <1>2, BufferAssumption DEF BTypeOK
  <2>3. table' \in Seq(Rows) /\ due' \in 0..MaxRows
    BY <1>1, <1>2, <2>1 DEF BTypeOK
  <2> QED
    BY <1>1, <1>2, <2>1, <2>2, <2>3 DEF BTypeOK
<1>4. FlushState'
  BY <1>2 DEF FlushState
<1>5. InOrder'
  <2> SUFFICES ASSUME lost' = 0
               PROVE  table' \o sending' \o buffer' = [i \in 1..arrived |-> i]
    BY <1>2 DEF InOrder
  <2>1. table' = table /\ lost = 0
    BY <1>2 DEF BTypeOK
  <2>2. table' \o sending' \o buffer' = table \o (sending \o buffer)
    BY <1>2, <2>1, ConcatEmptySeq DEF BTypeOK, PutBack
  <2>3. table \o (sending \o buffer) = table \o sending \o buffer
    BY ConcatAssociative DEF BTypeOK
  <2> QED
    BY <1>2, <2>1, <2>2, <2>3 DEF InOrder
<1>6. NoneDropped'
  BY <1>1, <1>2 DEF NoneDropped
<1>7. HookHolds' /\ ShutdownDrains'
  <2>1. ToSet(table) \subseteq ToSet(table')
    BY <1>1, <1>2
  <2>2. process = "stopping" => \A r \in 1..due' : r \in ToSet(table)
    BY <1>2 DEF HookHolds
  <2> QED
    BY <1>2, <2>1, <2>2 DEF HookHolds, ShutdownDrains
<1> QED
  BY <1>3, <1>4, <1>5, <1>6, <1>7

\* The signal: with no flush in flight the hook's batch, or the table, has
\* every row that arrived.
LEMMA SigtermGood ==
  ASSUME BIInv, Sigterm
  PROVE  BIInv'
<1> USE DEF BIInv
<1>1. /\ buffer' \in Seq(Rows) /\ sending' \in Seq(Rows) /\ flushing' \in BOOLEAN
      /\ ~flushing' => sending' = <<>>
      /\ table \o sending' \o buffer' = table \o sending \o buffer
      /\ ToSet(sending') \cup ToSet(buffer') = ToSet(sending) \cup ToSet(buffer)
      /\ ~flushing => sending' = buffer /\ buffer' = <<>>
  BY FlushMoves DEF Sigterm, BTypeOK
<1>2. BTypeOK'
  BY <1>1, BufferAssumption DEF BTypeOK, Sigterm
<1>3. FlushState'
  BY <1>1 DEF FlushState, Sigterm, Flush
<1>4. InOrder' /\ NoneDropped'
  BY <1>1 DEF InOrder, NoneDropped, Sigterm
<1>5. HookHolds'
  <2> SUFFICES ASSUME NEW r \in 1..due'
               PROVE  r \in ToSet(table') \/ (hookFlush' /\ r \in ToSet(sending'))
    BY DEF HookHolds
  <2>1. ~flushing /\ r \in 1..arrived
    BY DEF Sigterm
  <2>2. r \in ToSet(table) \cup ToSet(buffer)
    BY <2>1, ToSetEmpty DEF NoneDropped, FlushState, Sigterm
  <2> QED
    BY <1>1, <2>1, <2>2, ToSetEmpty DEF Sigterm
<1>6. ShutdownDrains'
  BY DEF ShutdownDrains, Sigterm
<1> QED
  BY <1>2, <1>3, <1>4, <1>5, <1>6

\* The jobs end.
LEMMA DrainedGood ==
  ASSUME BIInv, JobsDrained
  PROVE  BIInv'
  BY DEF BIInv, BTypeOK, FlushState, InOrder, NoneDropped, HookHolds, ShutdownDrains, JobsDrained

\* The process exits.
LEMMA ExitGood ==
  ASSUME BIInv, Exit
  PROVE  BIInv'
<1> USE DEF BIInv
<1>1. /\ table \o sending \in Seq(Rows)
      /\ ToSet(table \o sending) = ToSet(table) \cup ToSet(sending)
  BY ConcatProperties, ToSetConcat DEF BTypeOK
<1>2. BTypeOK' /\ FlushState'
  BY <1>1 DEF BTypeOK, FlushState, Exit
<1>3. InOrder' /\ NoneDropped' /\ HookHolds'
  BY DEF InOrder, NoneDropped, HookHolds, Exit
<1>4. ShutdownDrains'
  BY <1>1 DEF ShutdownDrains, HookHolds, Exit, HookDone
<1> QED
  BY <1>2, <1>3, <1>4

\* Every step keeps the invariant.
LEMMA StepGood == BIInv /\ [BNext]_bvars => BIInv'
<1> SUFFICES ASSUME BIInv, [BNext]_bvars PROVE BIInv'
  OBVIOUS
<1>1. CASE UNCHANGED bvars
  BY <1>1 DEF bvars, BIInv, BTypeOK, FlushState, InOrder, NoneDropped, HookHolds, ShutdownDrains
<1>2. CASE BNext
  BY <1>2, EnqueueGood, TickGood, WriteOkGood, DeadlockGood, FailsGood, SigtermGood,
     DrainedGood, ExitGood DEF BNext
<1> QED
  BY <1>1, <1>2

-----------------------------------------------------------------------------
\* Every row is in one place and written once, in the order of the arrivals,
\* although failed batches return to the buffer while more rows arrive
\* (flushTable), in every behaviour of the buffer and for every bound.
THEOREM InOrderHolds == BSpec => []InOrder
<1>1. BIInv => InOrder
  BY DEF BIInv
<1> QED
  BY <1>1, InitGood, StepGood, PTL DEF BSpec

\* No row the buffer took is dropped by the running process, even when the
\* answer to a committed write is lost and the batch is written twice.
THEOREM NoneDroppedHolds == BSpec => []NoneDropped
<1>1. BIInv => NoneDropped
  BY DEF BIInv
<1> QED
  BY <1>1, InitGood, StepGood, PTL DEF BSpec

\* The shutdown hook (shutdown of app.ts) drains what it took: at the exit the
\* table has every row of before the signal, if no flush was in flight then
\* and the hook's own write did not fail.
THEOREM ShutdownDrainsHolds == BSpec => []ShutdownDrains
<1>1. BIInv => ShutdownDrains
  BY DEF BIInv
<1> QED
  BY <1>1, InitGood, StepGood, PTL DEF BSpec

-----------------------------------------------------------------------------
(* The tiers: arithmetic of buckets.                                       *)

\* Equal bucket numbers, equal bucket starts; the order of the one is that
\* of the other.
LEMMA ScaledOrder ==
  ASSUME NEW a \in Int, NEW b \in Int, NEW k \in Nat, a <= b
  PROVE  a * k <= b * k
<1>1. b - a \in Nat
  OBVIOUS
<1>2. (b - a) * k \in Nat
  BY <1>1
<1>3. (b - a) * k = b * k - a * k
  OBVIOUS
<1> QED
  BY <1>2, <1>3

\* A number lies in its bucket.
LEMMA InBucket ==
  ASSUME NEW n \in Nat, NEW k \in Nat \ {0}
  PROVE  n \div k \in Nat /\ (n \div k) * k <= n /\ n < (n \div k + 1) * k
<1>1. n \div k \in Int /\ n % k \in 0..(k - 1) /\ n = k * (n \div k) + (n % k)
  OBVIOUS
<1>2. (n \div k) * k <= n /\ n < (n \div k) * k + k
  BY <1>1
<1>3. (n \div k + 1) * k = (n \div k) * k + k
  BY <1>1
<1>4. n \div k >= 0
  <2>1. SUFFICES ASSUME n \div k <= -1 PROVE FALSE
    BY <1>1
  <2>2. (n \div k) * k <= (-1) * k
    BY <1>1, <2>1, ScaledOrder
  <2> QED
    BY <1>2, <2>2
<1> QED
  BY <1>1, <1>2, <1>3, <1>4

\* Buckets are in the order of the numbers.
LEMMA BucketOrder ==
  ASSUME NEW m \in Nat, NEW n \in Nat, NEW k \in Nat \ {0}, m <= n
  PROVE  m \div k <= n \div k
<1>1. SUFFICES ASSUME n \div k + 1 <= m \div k PROVE FALSE
  BY InBucket
<1>2. /\ m \div k \in Nat /\ n \div k \in Nat
      /\ (m \div k) * k <= m /\ n < (n \div k + 1) * k
  BY InBucket
<1>3. (n \div k + 1) * k <= (m \div k) * k
  BY <1>1, <1>2, ScaledOrder
<1> DEFINE x == (m \div k) * k
           y == (n \div k + 1) * k
<1>4. x \in Int /\ y \in Int
  BY <1>2
<1> HIDE DEF x, y
<1>5. x <= m /\ n < y /\ y <= x
  BY <1>2, <1>3 DEF x, y
<1> QED
  BY <1>4, <1>5

\* The rest of a division is determined.
LEMMA RestOf ==
  ASSUME NEW q \in Nat, NEW r \in Nat, NEW k \in Nat \ {0}, r < k
  PROVE  (q * k + r) % k = r
<1> DEFINE n == q * k + r
<1>1. n \in Nat
  OBVIOUS
<1>2. n \div k \in Nat /\ n % k \in 0..(k - 1) /\ n = (n \div k) * k + (n % k)
  BY <1>1, InBucket
<1>3. n \div k = q
  <2>1. ASSUME n \div k + 1 <= q PROVE FALSE
    <3>1. (n \div k + 1) * k <= q * k
      BY <1>2, <2>1, ScaledOrder
    <3>2. n < (n \div k + 1) * k
      BY <1>1, InBucket
    <3>3. (n \div k + 1) * k \in Int /\ q * k \in Int
      BY <1>2
    <3> QED
      BY <3>1, <3>2, <3>3
  <2>2. ASSUME q + 1 <= n \div k PROVE FALSE
    <3>1. (q + 1) * k <= (n \div k) * k
      BY <1>2, <2>2, ScaledOrder
    <3>2. (q + 1) * k = q * k + k
      OBVIOUS
    <3>3. (n \div k) * k <= n
      BY <1>1, InBucket
    <3> QED
      BY <1>2, <3>1, <3>2, <3>3
  <2> QED
    BY <1>2, <2>1, <2>2
<1> QED
  BY <1>2, <1>3

\* The lengths are whole and positive, and a day has two hours.
LEMMA Lengths ==
  /\ HourLen \in Nat \ {0} /\ DayHours \in Nat \ {0} /\ ChunkLen \in Nat \ {0}
  /\ Day \in Nat \ {0} /\ 2 * HourLen <= Day
  /\ Late \in Nat /\ Late + 1 <= 2 * HourLen
  /\ DailyAt \in Nat /\ Late + 2 <= DailyAt /\ DailyAt < Day
  /\ MaxTime \in Nat
<1>1. /\ HourLen \in Nat \ {0} /\ DayHours \in Nat \ {0, 1} /\ ChunkLen \in Nat \ {0}
      /\ Late \in Nat /\ Late < 2 * HourLen /\ MaxTime \in Nat
  BY UnitsAssumption, BoundsAssumption
<1>2. 2 * HourLen <= Day
  BY <1>1, ScaledOrder DEF Day
<1>3. Day \in Nat
  BY <1>1 DEF Day
<1>4. DailyAt \in (Late + 2)..(Day - 1)
  BY UnitsAssumption
<1> HIDE DEF Day
<1> QED
  BY <1>1, <1>2, <1>3, <1>4

\* A sample's hour is an hour of the table and the sample lies in it.
LEMMA HourFacts ==
  ASSUME NEW t \in Times
  PROVE  /\ HourOf(t) \in Nat /\ HourOf(t) \in Hours
         /\ Start(HourOf(t)) <= t /\ t < Start(HourOf(t) + 1)
<1>1. t \in Nat /\ t <= MaxTime /\ MaxTime \in Nat
  BY Lengths DEF Times
<1>2. HourOf(t) \in Nat /\ HourOf(MaxTime) \in Nat /\ HourOf(t) <= HourOf(MaxTime)
  BY <1>1, Lengths, InBucket, BucketOrder DEF HourOf
<1> QED
  BY <1>1, <1>2, Lengths, InBucket DEF HourOf, Hours, Start

\* Hours start in their order.
LEMMA StartOrder ==
  ASSUME NEW b \in Int, NEW c \in Int
  PROVE  /\ Start(b) \in Int /\ Start(b + 1) = Start(b) + HourLen
         /\ b <= c => Start(b) <= Start(c)
         /\ Start(b) < Start(c) => b < c
<1>1. Start(b) \in Int /\ Start(c) \in Int /\ Start(b + 1) = Start(b) + HourLen
  BY Lengths DEF Start
<1>2. b <= c => Start(b) <= Start(c)
  BY Lengths, ScaledOrder DEF Start
<1>3. c <= b => Start(c) <= Start(b)
  BY Lengths, ScaledOrder DEF Start
<1> HIDE DEF Start
<1> QED
  BY <1>1, <1>2, <1>3

\* Hours are numbers.
LEMMA HoursInt == Hours \subseteq Nat /\ Days \subseteq Nat
<1>1. HourOf(MaxTime) \in Nat
  BY Lengths, InBucket DEF HourOf
<1>2. DayOf(HourOf(MaxTime)) \in Nat
  BY <1>1, Lengths, InBucket DEF DayOf
<1> QED
  BY <1>1, <1>2 DEF Hours, Days

\* A sample of a later hour is a later sample.
LEMMA LaterHour ==
  ASSUME NEW t \in Times, NEW u \in Times, HourOf(t) < HourOf(u)
  PROVE  t < u
<1>1. /\ HourOf(t) \in Nat /\ HourOf(u) \in Nat
      /\ t < Start(HourOf(t) + 1) /\ Start(HourOf(u)) <= u
  BY HourFacts
<1>2. HourOf(t) + 1 <= HourOf(u)
  BY <1>1
<1>3. /\ Start(HourOf(t) + 1) <= Start(HourOf(u))
      /\ Start(HourOf(t) + 1) \in Int /\ Start(HourOf(u)) \in Int
  BY <1>1, <1>2, StartOrder
<1>4. t \in Int /\ u \in Int
  BY Lengths DEF Times
<1> QED
  BY <1>1, <1>3, <1>4

\* An hour lies within its day.
LEMMA DayFacts ==
  ASSUME NEW b \in Hours
  PROVE  /\ DayOf(b) \in Nat /\ DayOf(b) \in Days
         /\ DayOf(b) * Day \in Nat /\ (DayOf(b) + 1) * Day = DayOf(b) * Day + Day
         /\ DayOf(b) * Day <= Start(b) /\ Start(b + 1) <= (DayOf(b) + 1) * Day
<1>1. HourOf(MaxTime) \in Nat
  BY Lengths, InBucket DEF HourOf
<1>2. b \in Nat /\ b <= HourOf(MaxTime)
  BY <1>1 DEF Hours
<1>3. DayOf(b) \in Nat /\ DayOf(HourOf(MaxTime)) \in Nat /\ DayOf(b) <= DayOf(HourOf(MaxTime))
  BY <1>1, <1>2, Lengths, InBucket, BucketOrder DEF DayOf
<1>4. DayOf(b) * DayHours <= b /\ b + 1 <= (DayOf(b) + 1) * DayHours
  <2>1. DayOf(b) * DayHours <= b /\ b < (DayOf(b) + 1) * DayHours
    BY <1>2, Lengths, InBucket DEF DayOf
  <2>2. (DayOf(b) + 1) * DayHours \in Int
    BY <1>3, Lengths
  <2> QED
    BY <1>2, <2>1, <2>2
<1>5. ASSUME NEW e \in Nat PROVE (e * DayHours) * HourLen = e * Day /\ e * DayHours \in Nat
  BY Lengths DEF Day
<1>6. (DayOf(b) * DayHours) * HourLen <= b * HourLen
  BY <1>2, <1>3, <1>4, <1>5, Lengths, ScaledOrder
<1>7. (b + 1) * HourLen <= ((DayOf(b) + 1) * DayHours) * HourLen
  <2>1. (DayOf(b) + 1) * DayHours \in Nat
    BY <1>3, <1>5
  <2> QED
    BY <1>2, <1>4, <2>1, Lengths, ScaledOrder
<1>8. DayOf(b) * Day \in Nat /\ (DayOf(b) + 1) * Day = DayOf(b) * Day + Day
  BY <1>3, Lengths
<1>9. DayOf(b) \in Days
  BY <1>3 DEF Days
<1>10. DayOf(b) * Day <= Start(b)
  BY <1>3, <1>5, <1>6 DEF Start
<1>11. Start(b + 1) <= (DayOf(b) + 1) * Day
  <2>1. DayOf(b) + 1 \in Nat
    BY <1>3
  <2> QED
    BY <2>1, <1>5, <1>7 DEF Start
<1> QED
  BY <1>3, <1>8, <1>9, <1>10, <1>11

-----------------------------------------------------------------------------
(* Greatest elements.                                                      *)

\* The order of the numbers, as a relation.
Less == {p \in Nat \X Nat : p[1] < p[2]}

\* A set of numbers below a bound has a greatest element, and Max is it.
LEMMA MaxIs ==
  ASSUME NEW m \in Nat, NEW S \in SUBSET (0..m), S # {}
  PROVE  Max(S) \in S /\ \A y \in S : y <= Max(S)
<1> DEFINE T == {m - x : x \in S}
<1>1. T \in SUBSET Nat /\ T # {}
  <2>1. \A x \in S : m - x \in Nat
    OBVIOUS
  <2> QED
    BY <2>1, Zenon
<1>2. Less = OpToRel(<, Nat)
  BY Zenon DEF Less, OpToRel
<1>3. PICK z \in T : \A y \in T : <<y, z>> \notin Less
  BY <1>1, <1>2, WFMin, NatLessThanWellFounded
<1>4. PICK x \in S : z = m - x
  BY <1>3
<1>5. ASSUME NEW y \in S PROVE x >= y
  <2>1. m - y \in T /\ <<m - y, z>> \notin Less /\ m - y \in Nat /\ z \in Nat
    BY <1>1, <1>3
  <2>2. ~(m - y < z)
    BY <2>1 DEF Less
  <2>3. x \in Int /\ y \in Int
    OBVIOUS
  <2> HIDE DEF T
  <2> QED
    BY <1>4, <2>2, <2>3
<1>6. \E a \in S : \A y \in S : a >= y
  BY <1>4, <1>5
<1>7. Max(S) \in S /\ \A y \in S : Max(S) >= y
  BY <1>6, Zenon DEF Max
<1>8. Max(S) \in Int /\ S \subseteq Int
  BY <1>7
<1> QED
  BY <1>7, <1>8

\* An element that none exceeds is the maximum.
LEMMA IsMax ==
  ASSUME NEW S \in SUBSET Int, NEW x \in S, \A y \in S : y <= x
  PROVE  Max(S) = x
<1>1. \A y \in S : x >= y
  OBVIOUS
<1>2. Max(S) \in S /\ \A y \in S : Max(S) >= y
  BY <1>1, Zenon DEF Max
<1>3. Max(S) >= x /\ x >= Max(S)
  BY <1>1, <1>2
<1>4. Max(S) \in Int /\ x \in Int
  BY <1>2
<1> QED
  BY <1>3, <1>4

-----------------------------------------------------------------------------
(* Sums over sets.  MapThenSumSet is a recursive function over the subsets *)
(* of its set; that it exists, and what bounds it, is shown for the least  *)
(* number of elements for which it would fail.                             *)

\* A set of numbers has a least element.
LEMMA LeastNumber ==
  ASSUME NEW S \in SUBSET Nat, S # {}
  PROVE  \E m \in S : \A j \in S : m <= j
<1>1. Less = OpToRel(<, Nat)
  BY Zenon DEF Less, OpToRel
<1>2. PICK m \in S : \A j \in S : <<j, m>> \notin Less
  BY <1>1, WFMin, NatLessThanWellFounded
<1>3. ASSUME NEW j \in S PROVE m <= j
  <2>1. j \in Nat /\ m \in Nat /\ <<j, m>> \notin Less
    BY <1>2
  <2> QED
    BY <2>1 DEF Less
<1> QED
  BY <1>3

\* The element that the sum takes next, and the equation it solves over the
\* subsets of H with at most n elements.
Pick(s) == CHOOSE x \in s : TRUE
Small(H, n) == {s \in SUBSET H : Cardinality(s) <= n}
Sums(f, D) ==
  f = [s \in D |-> IF s = {} THEN 0 ELSE hourly[Pick(s)].n + f[s \ {Pick(s)}]]

\* A set without its picked element has one element less.
LEMMA PickFacts ==
  ASSUME NEW H, IsFiniteSet(H), NEW s \in SUBSET H, s # {}
  PROVE  /\ Pick(s) \in s /\ s \ {Pick(s)} \in SUBSET H
         /\ IsFiniteSet(s) /\ Cardinality(s) \in Nat \ {0}
         /\ Cardinality(s \ {Pick(s)}) = Cardinality(s) - 1
<1>1. Pick(s) \in s
  BY Zenon DEF Pick
<1>2. IsFiniteSet(s) /\ Cardinality(s) \in Nat
  BY FS_Subset, FS_CardinalityType
<1>3. Cardinality(s) # 0
  BY <1>2, FS_EmptySet
<1> QED
  BY <1>1, <1>2, <1>3, FS_RemoveElement

\* From a solution up to n elements, one up to n + 1.
LEMMA SumsStep ==
  ASSUME NEW H, IsFiniteSet(H), NEW n \in Nat, NEW f, Sums(f, Small(H, n))
  PROVE  \E g : Sums(g, Small(H, n + 1))
<1> DEFINE body(h, s) == IF s = {} THEN 0 ELSE hourly[Pick(s)].n + h[s \ {Pick(s)}]
           g == [s \in Small(H, n + 1) |-> body(f, s)]
<1>1. ASSUME NEW s \in Small(H, n) PROVE s \in Small(H, n + 1) /\ g[s] = f[s]
  <2>1. Cardinality(s) \in Nat /\ Cardinality(s) <= n /\ s \in SUBSET H
    BY FS_Subset, FS_CardinalityType DEF Small
  <2>2. s \in Small(H, n + 1)
    BY <2>1 DEF Small
  <2>3. f[s] = body(f, s)
    BY DEF Sums
  <2> QED
    BY <2>2, <2>3
<1>2. ASSUME NEW s \in Small(H, n + 1) PROVE body(f, s) = body(g, s)
  <2>1. CASE s = {}
    BY <2>1
  <2>2. CASE s # {}
    <3>1. s \in SUBSET H /\ Cardinality(s) <= n + 1
      BY DEF Small
    <3>2. /\ s \ {Pick(s)} \in SUBSET H /\ Cardinality(s) \in Nat
          /\ Cardinality(s \ {Pick(s)}) = Cardinality(s) - 1
      BY <2>2, <3>1, PickFacts
    <3>3. s \ {Pick(s)} \in Small(H, n)
      BY <3>1, <3>2 DEF Small
    <3>4. g[s \ {Pick(s)}] = f[s \ {Pick(s)}]
      BY <1>1, <3>3
    <3> HIDE DEF g
    <3> QED
      BY <2>2, <3>4
  <2> QED
    BY <2>1, <2>2
<1>3. g = [s \in Small(H, n + 1) |-> body(g, s)]
  <2> DEFINE k == [s \in Small(H, n + 1) |-> body(g, s)]
  <2>1. \A s \in Small(H, n + 1) : g[s] = k[s]
    <3> HIDE DEF body
    <3> QED
      BY <1>2
  <2> HIDE DEF body
  <2> QED
    BY <2>1
<1>4. Sums(g, Small(H, n + 1))
  BY <1>3, Zenon DEF Sums
<1> QED
  BY <1>4

\* The sum over a finite set is a solution over all its subsets.
LEMMA TotalIs ==
  ASSUME NEW H, IsFiniteSet(H)
  PROVE  \E f : Sums(f, SUBSET H) /\ Total(H) = f[H]
<1> DEFINE Bad == {n \in Nat : ~(\E f : Sums(f, Small(H, n)))}
<1>1. Bad = {}
  <2>1. SUFFICES ASSUME Bad # {} PROVE FALSE
    OBVIOUS
  <2>2. PICK m \in Bad : \A j \in Bad : m <= j
    BY <2>1, LeastNumber
  <2>3. m \in Nat /\ ~(\E f : Sums(f, Small(H, m)))
    BY <2>2
  <2>4. m # 0
    <3>1. ASSUME m = 0 PROVE FALSE
      <4> DEFINE f == [s \in Small(H, 0) |-> 0]
      <4>1. ASSUME NEW s \in Small(H, 0) PROVE s = {}
        <5>1. s \in SUBSET H /\ Cardinality(s) <= 0
          BY DEF Small
        <5>2. IsFiniteSet(s) /\ Cardinality(s) \in Nat
          BY <5>1, FS_Subset, FS_CardinalityType
        <5>3. Cardinality(s) = 0
          BY <5>1, <5>2
        <5> QED
          BY <5>2, <5>3, FS_EmptySet
      <4>2. Sums(f, Small(H, 0))
        BY <4>1 DEF Sums
      <4> QED
        BY <2>3, <3>1, <4>2
    <3> QED
      BY <3>1
  <2>5. m - 1 \in Nat /\ m = (m - 1) + 1
    BY <2>3, <2>4
  <2>6. m - 1 \notin Bad
    BY <2>2, <2>5
  <2>7. PICK f : Sums(f, Small(H, m - 1))
    BY <2>5, <2>6
  <2>8. \E g : Sums(g, Small(H, (m - 1) + 1))
    BY <2>5, <2>7, SumsStep
  <2> QED
    BY <2>3, <2>5, <2>8
<1>2. Cardinality(H) \in Nat
  BY FS_CardinalityType
<1>3. Small(H, Cardinality(H)) = SUBSET H
  BY FS_Subset DEF Small
<1>4. \E f : Sums(f, SUBSET H)
  <2>1. \E f : Sums(f, Small(H, Cardinality(H)))
    BY <1>1, <1>2
  <2> QED
    BY <1>3, <2>1, Zenon
<1> DEFINE F == CHOOSE f : Sums(f, SUBSET H)
<1>5. Sums(F, SUBSET H)
  BY <1>4, Zenon
<1>6. Total(H) = F[H]
  BY Zenon DEF Total, MapThenSumSet, MapThenFoldSet, Sums, Pick
<1> QED
  BY <1>5, <1>6

\* Sets of samples are finite, and a larger set counts no less.
LEMMA LandedCount ==
  ASSUME NEW m \in Nat, NEW S, S \subseteq 0..m, NEW T, T \subseteq S
  PROVE  /\ IsFiniteSet(T) /\ Cardinality(T) \in Nat /\ Cardinality(S) \in Nat
         /\ Cardinality(T) <= Cardinality(S)
<1>1. IsFiniteSet(0..m)
  BY FS_Interval
<1>2. IsFiniteSet(S)
  BY <1>1, FS_Subset
<1> QED
  BY <1>2, FS_Subset, FS_CardinalityType

\* The samples of some hours.
InHours(s) == {t \in landed : HourOf(t) \in s}

\* A sum of counts that no hour exceeds is at most the number of samples.
LEMMA TotalBound ==
  ASSUME NEW m \in Nat, landed \subseteq 0..m, NEW H, IsFiniteSet(H),
         \A b \in H : hourly[b].n \in 1..Cardinality(LandedIn(b))
  PROVE  Total(H) \in 0..Cardinality(InHours(H))
<1>1. PICK f : Sums(f, SUBSET H) /\ Total(H) = f[H]
  BY TotalIs
<1> DEFINE Bound(s) == f[s] \in 0..Cardinality(InHours(s))
           Bad == {n \in Nat : \E s \in SUBSET H : Cardinality(s) = n /\ ~Bound(s)}
<1>2. \A s : /\ InHours(s) \subseteq 0..m /\ IsFiniteSet(InHours(s))
             /\ Cardinality(InHours(s)) \in Nat
  BY LandedCount DEF InHours
<1>3. Bad = {}
  <2>1. SUFFICES ASSUME Bad # {} PROVE FALSE
    OBVIOUS
  <2>2. PICK k \in Bad : \A j \in Bad : k <= j
    BY <2>1, LeastNumber
  <2>3. PICK s \in SUBSET H : Cardinality(s) = k /\ ~Bound(s)
    BY <2>2
  <2>4. f[s] = IF s = {} THEN 0 ELSE hourly[Pick(s)].n + f[s \ {Pick(s)}]
    BY <1>1 DEF Sums
  <2>5. s # {}
    <3>1. s = {} => f[s] = 0
      BY <2>4
    <3> QED
      BY <1>2, <2>3, <3>1
  <2> DEFINE x == Pick(s)
             r == s \ {x}
  <2>6. /\ x \in s /\ x \in H /\ r \in SUBSET H
        /\ Cardinality(s) \in Nat \ {0} /\ Cardinality(r) = Cardinality(s) - 1
    BY <2>5, PickFacts
  <2>7. Bound(r)
    <3>1. Cardinality(r) \in Nat /\ Cardinality(r) < k
      BY <2>3, <2>6
    <3>2. ~Bound(r) => Cardinality(r) \in Bad
      BY <2>6, <3>1
    <3>3. k \in Nat
      BY <2>2
    <3> HIDE DEF Bad, Bound, r
    <3> QED
      BY <2>2, <3>1, <3>2, <3>3
  <2>8. /\ InHours(s) = LandedIn(x) \cup InHours(r)
        /\ LandedIn(x) \cap InHours(r) = {}
    BY <2>6 DEF InHours, LandedIn
  <2>9. IsFiniteSet(LandedIn(x)) /\ Cardinality(LandedIn(x)) \in Nat
    <3>1. LandedIn(x) \subseteq 0..m
      BY DEF LandedIn
    <3> QED
      BY <3>1, LandedCount
  <2>10. Cardinality(InHours(s)) = Cardinality(LandedIn(x)) + Cardinality(InHours(r))
    <3>1. IsFiniteSet(InHours(r)) /\ Cardinality(InHours(r)) \in Nat
      BY <1>2
    <3> HIDE DEF x, r
    <3>2. Cardinality(LandedIn(x) \cup InHours(r)) =
            Cardinality(LandedIn(x)) + Cardinality(InHours(r)) - Cardinality({})
      BY <2>8, <2>9, <3>1, FS_Union
    <3> QED
      BY <2>8, <2>9, <3>1, <3>2, FS_EmptySet
  <2>11. hourly[x].n \in 1..Cardinality(LandedIn(x)) /\ f[s] = hourly[x].n + f[r]
    BY <2>4, <2>5, <2>6
  <2>12. Cardinality(InHours(r)) \in Nat
    BY <1>2
  <2> HIDE DEF x, r
  <2> QED
    BY <2>3, <2>7, <2>9, <2>10, <2>11, <2>12
<1>4. Cardinality(H) \in Nat
  BY FS_CardinalityType
<1>5. Bound(H)
  BY <1>3, <1>4
<1> QED
  BY <1>1, <1>5

-----------------------------------------------------------------------------
(* Retention.                                                              *)

\* The days are numbers, and Longest is the greatest of a tier's.
LEMMA LongestIs ==
  ASSUME retention \in Retentions, NEW tier \in Tiers
  PROVE  /\ \A c \in Classes : retention[tier][c] \in Nat /\ retention[tier][c] <= Longest(tier)
         /\ Longest(tier) \in Nat
<1> DEFINE S == {retention[tier][c] : c \in Classes}
<1>1. retention[tier] \in [Classes -> Nat]
  BY SettingsAssumption
<1> DEFINE x == retention[tier]["default"]
           y == retention[tier]["switch"]
           z == retention[tier]["accessPoint"]
<1>2. S = {x, y, z} /\ x \in Nat /\ y \in Nat /\ z \in Nat
  BY <1>1 DEF Classes
<1>3. PICK a \in S : \A b \in S : b <= a
  <2> HIDE DEF x, y, z, S
  <2>1. CASE x >= y /\ x >= z
    BY <1>2, <2>1
  <2>2. CASE y >= x /\ y >= z
    BY <1>2, <2>2
  <2>3. CASE z >= y /\ z >= x
    BY <1>2, <2>3
  <2> QED
    BY <1>2, <2>1, <2>2, <2>3
<1>4. S \subseteq Nat
  BY <1>1
<1>5. Max(S) = a
  <2> HIDE DEF S
  <2>1. S \in SUBSET Int
    BY <1>4
  <2> QED
    BY <1>3, <2>1, IsMax
<1>6. Longest(tier) = a
  BY <1>5 DEF Longest
<1> QED
  BY <1>1, <1>3, <1>4, <1>6

\* The class that prunes and the class that is charted are classes.
LEMMA ClassFacts == PruneClass \in Classes /\ ChartClass \in Classes
  BY DEF PruneClass, ChartClass, Classes

\* What Keeps says, over numbers.
LEMMA KeepsIs ==
  ASSUME retention \in Retentions, now \in Times, NEW tier \in Tiers, NEW t \in Nat
  PROVE  LET days == retention[tier][PruneClass]
             long == Longest(tier)
             end == (t \div ChunkLen + 1) * ChunkLen
         IN /\ days \in Nat /\ long \in Nat /\ days <= long
            /\ days * Day \in Nat /\ long * Day \in Nat /\ days * Day <= long * Day
            /\ days > 0 => days * Day >= Day
            /\ long > 0 => long * Day >= Day
            /\ end \in Nat /\ end > t /\ now \in Nat
            /\ Keeps(tier, t) <=> /\ (timescale /\ long > 0) => end > now - long * Day
                                  /\ days > 0 => t >= now - days * Day
<1> DEFINE days == retention[tier][PruneClass]
           long == Longest(tier)
           end == (t \div ChunkLen + 1) * ChunkLen
<1>1. days \in Nat /\ long \in Nat /\ days <= long
  BY LongestIs, ClassFacts
<1>2. Keeps(tier, t) <=> /\ (timescale /\ long > 0) => end > now - long * Day
                         /\ days > 0 => t >= now - days * Day
  BY DEF Keeps
<1>3. end > t /\ end \in Nat
  BY Lengths, InBucket
<1>4. now \in Nat
  BY Lengths DEF Times
<1> HIDE DEF days, long, end
<1>5. days * Day \in Nat /\ long * Day \in Nat /\ days * Day <= long * Day
  BY <1>1, Lengths, ScaledOrder
<1>6. days > 0 => days * Day >= Day
  <2>1. days > 0 => 1 * Day <= days * Day
    BY <1>1, Lengths, ScaledOrder
  <2> QED
    BY <2>1, Lengths
<1>7. long > 0 => long * Day >= Day
  <2>1. long > 0 => 1 * Day <= long * Day
    BY <1>1, Lengths, ScaledOrder
  <2> QED
    BY <2>1, Lengths
<1>8. /\ days \in Nat /\ long \in Nat /\ days <= long
      /\ days * Day \in Nat /\ long * Day \in Nat /\ days * Day <= long * Day
      /\ days > 0 => days * Day >= Day
      /\ long > 0 => long * Day >= Day
      /\ end \in Nat /\ end > t /\ now \in Nat
      /\ Keeps(tier, t) <=> /\ (timescale /\ long > 0) => end > now - long * Day
                            /\ days > 0 => t >= now - days * Day
  BY <1>1, <1>2, <1>3, <1>4, <1>5, <1>6, <1>7
<1> QED
  BY <1>8 DEF days, long, end

\* The retention takes the older first.
LEMMA KeepsYounger ==
  ASSUME retention \in Retentions, now \in Times, NEW tier \in Tiers,
         NEW s \in Nat, NEW t \in Nat, s <= t, Keeps(tier, s)
  PROVE  Keeps(tier, t)
<1> DEFINE end(u) == (u \div ChunkLen + 1) * ChunkLen
<1>1. s \div ChunkLen \in Nat /\ t \div ChunkLen \in Nat /\ s \div ChunkLen <= t \div ChunkLen
  BY Lengths, InBucket, BucketOrder
<1>2. s \div ChunkLen + 1 <= t \div ChunkLen + 1
  BY <1>1
<1>3. end(s) <= end(t)
  BY <1>1, <1>2, Lengths, ScaledOrder
<1> DEFINE days == retention[tier][PruneClass]
           long == Longest(tier)
<1>4. /\ days * Day \in Nat /\ long * Day \in Nat /\ end(s) \in Nat /\ now \in Nat
      /\ Keeps(tier, s) => /\ (timescale /\ long > 0) => end(s) > now - long * Day
                           /\ days > 0 => s >= now - days * Day
  BY KeepsIs
<1>5. /\ end(t) \in Nat
      /\ (/\ (timescale /\ long > 0) => end(t) > now - long * Day
          /\ days > 0 => t >= now - days * Day) => Keeps(tier, t)
  BY KeepsIs
<1> HIDE DEF days, long, end
<1> QED
  BY <1>3, <1>4, <1>5

\* What is kept later is kept now.
LEMMA KeepsEarlier ==
  ASSUME retention \in Retentions, now \in Times, now' \in Times, UNCHANGED setup,
         now <= now', NEW tier \in Tiers, NEW t \in Nat, Keeps(tier, t)'
  PROVE  Keeps(tier, t)
<1>1. /\ retention' = retention /\ timescale' = timescale /\ asset' = asset
  BY DEF setup
<1>2. Longest(tier)' = Longest(tier) /\ PruneClass' = PruneClass
  BY <1>1 DEF Longest, PruneClass
<1> DEFINE days == retention[tier][PruneClass]
           long == Longest(tier)
           end == (t \div ChunkLen + 1) * ChunkLen
<1>3. /\ (timescale /\ long > 0) => end > now' - long * Day
      /\ days > 0 => t >= now' - days * Day
  BY <1>1, <1>2 DEF Keeps
<1>4. /\ days * Day \in Nat /\ long * Day \in Nat /\ end \in Nat /\ now \in Nat
      /\ (/\ (timescale /\ long > 0) => end > now - long * Day
          /\ days > 0 => t >= now - days * Day) => Keeps(tier, t)
  BY KeepsIs
<1>5. now' \in Nat
  BY Lengths DEF Times
<1> HIDE DEF days, long, end
<1> QED
  BY <1>3, <1>4, <1>5

\* Nothing of the last day is pruned.
LEMMA RecentKept ==
  ASSUME retention \in Retentions, now \in Times, NEW tier \in Tiers,
         NEW t \in Nat, t >= now - Day
  PROVE  Keeps(tier, t)
<1> DEFINE days == retention[tier][PruneClass]
           long == Longest(tier)
           end == (t \div ChunkLen + 1) * ChunkLen
<1>1. /\ days * Day \in Nat /\ long * Day \in Nat /\ end \in Nat /\ now \in Nat
      /\ days > 0 => days * Day >= Day
      /\ long > 0 => long * Day >= Day
      /\ end > t
      /\ (/\ (timescale /\ long > 0) => end > now - long * Day
          /\ days > 0 => t >= now - days * Day) => Keeps(tier, t)
  BY KeepsIs
<1>2. Day \in Nat
  BY Lengths
<1> HIDE DEF days, long, end
<1> QED
  BY <1>1, <1>2

\* Where the settings are honoured, what the chart's class keeps is kept.
LEMMA HonouredKept ==
  ASSUME retention \in Retentions, now \in Times, NEW tier \in Tiers, Honoured(tier),
         NEW t \in Nat, NEW since \in Nat, t >= since,
         retention[tier][ChartClass] > 0 => since >= now - retention[tier][ChartClass] * Day
  PROVE  Keeps(tier, t)
<1> DEFINE days == retention[tier][PruneClass]
           long == Longest(tier)
           end == (t \div ChunkLen + 1) * ChunkLen
<1>1. /\ days \in Nat /\ long \in Nat /\ days * Day <= long * Day
      /\ days * Day \in Nat /\ long * Day \in Nat /\ end \in Nat /\ now \in Nat
      /\ end > t
      /\ (/\ (timescale /\ long > 0) => end > now - long * Day
          /\ days > 0 => t >= now - days * Day) => Keeps(tier, t)
  BY KeepsIs
<1>2. /\ timescale /\ days = 0 => long = 0
      /\ days > 0 => since >= now - days * Day
  BY DEF Honoured
<1> HIDE DEF days, long, end
<1> QED
  BY <1>1, <1>2

\* Under FeedsDaily an hour's row lives until the daily job after its day.
LEMMA FeedsKept ==
  ASSUME retention \in Retentions, now \in Times, FeedsDaily,
         NEW t \in Nat, t >= now - (Day + DailyAt)
  PROVE  Keeps("hourly", t)
<1> DEFINE days == retention["hourly"][PruneClass]
           long == Longest("hourly")
           end == (t \div ChunkLen + 1) * ChunkLen
<1>1. /\ days \in Nat /\ long \in Nat
      /\ days * Day \in Nat /\ long * Day \in Nat /\ end \in Nat /\ now \in Nat
      /\ end > t
      /\ (/\ (timescale /\ long > 0) => end > now - long * Day
          /\ days > 0 => t >= now - days * Day) => Keeps("hourly", t)
  BY KeepsIs DEF Tiers
<1>2. /\ days = 0 \/ days * Day >= Day + DailyAt
      /\ timescale => long = 0 \/ long * Day >= Day + DailyAt
  BY DEF FeedsDaily
<1>3. Day \in Nat /\ DailyAt \in Nat
  BY Lengths
<1> HIDE DEF days, long, end
<1> QED
  BY <1>1, <1>2, <1>3

-----------------------------------------------------------------------------
(* The steps.                                                              *)

\* A step that leaves the clock and the settings alone changes no retention.
LEMMA SameRetention ==
  ASSUME UNCHANGED setup
  PROVE  /\ FeedsDaily' = FeedsDaily
         /\ now' = now => \A tier, t : Keeps(tier, t)' = Keeps(tier, t)
  BY DEF setup, FeedsDaily, Keeps, Longest, PruneClass

\* Every sample of the clock's past is a time of the model.
LEMMA LandedTimes ==
  ASSUME Typed, NEW t \in landed
  PROVE  t \in Times /\ t \in Nat /\ t <= now /\ now \in Nat
  BY Lengths DEF Typed, Times

\* A sample is inserted: its hour, and no hour already rolled up for good, is due again.
LEMMA InsertKeeps ==
  ASSUME IInv, NEW u \in Times, Insert(u)
  PROVE  IInv'
<1>0. /\ Typed /\ DetailKept /\ HourlyReal /\ HourlyCurrent /\ DailyReal /\ DailyCurrent
  BY DEF IInv
<1>1. /\ u \in Nat /\ u <= now /\ now <= u + Late /\ now \in Nat
  BY <1>0, Lengths DEF Insert, Typed, Times
<1>2. /\ detail' = detail \cup {u} /\ landed' = landed \cup {u}
      /\ now' = now /\ UNCHANGED setup /\ hourly' = hourly /\ daily' = daily
      /\ ticked' = ticked /\ rolled' = rolled
  BY DEF Insert
<1>3. /\ FeedsDaily' = FeedsDaily
      /\ \A tier, t : Keeps(tier, t)' = Keeps(tier, t)
  BY <1>2, SameRetention
<1>4. Typed'
  BY <1>0, <1>1, <1>2 DEF Typed, setup
<1>5. DetailKept'
  BY <1>0, <1>2, <1>3 DEF DetailKept
<1>6. HourlyReal'
  <2>1. ASSUME NEW b \in Hours, hourly[b] # NoRow
        PROVE  /\ hourly[b].last \in LandedIn(b)'
               /\ hourly[b].n \in 1..Cardinality(LandedIn(b)')
    <3>1. LandedIn(b) \subseteq LandedIn(b)'
      BY <1>2 DEF LandedIn
    <3>2. hourly[b].last \in LandedIn(b) /\ hourly[b].n \in 1..Cardinality(LandedIn(b))
      BY <1>0, <2>1 DEF HourlyReal
    <3>3. LandedIn(b)' \subseteq 0..now
      BY <1>2, <1>4 DEF LandedIn, Typed
    <3>4. /\ Cardinality(LandedIn(b)) <= Cardinality(LandedIn(b)')
          /\ Cardinality(LandedIn(b)) \in Nat /\ Cardinality(LandedIn(b)') \in Nat
      BY <1>1, <3>1, <3>3, LandedCount
    <3> QED
      BY <3>1, <3>2, <3>4
  <2> QED
    BY <1>2, <2>1 DEF HourlyReal
<1>7. HourlyCurrent'
  <2>1. \A t : Due(t)' = Due(t)
    BY <1>2 DEF Due
  <2>2. ~Due(u)
    BY <1>1, Lengths DEF Due
  <2> QED
    BY <1>0, <1>2, <1>3, <2>1, <2>2 DEF HourlyCurrent
<1>8. DailyReal'
  <2>1. ASSUME NEW d \in Days, daily[d] # NoRow
        PROVE  /\ daily[d].last \in LandedOn(d)'
               /\ daily[d].n \in 0..Cardinality(LandedOn(d)')
    <3>1. LandedOn(d) \subseteq LandedOn(d)'
      BY <1>2 DEF LandedOn
    <3>2. daily[d].last \in LandedOn(d) /\ daily[d].n \in 0..Cardinality(LandedOn(d))
      BY <1>0, <2>1 DEF DailyReal
    <3>3. LandedOn(d)' \subseteq 0..now
      BY <1>2, <1>4 DEF LandedOn, Typed
    <3>4. /\ Cardinality(LandedOn(d)) <= Cardinality(LandedOn(d)')
          /\ Cardinality(LandedOn(d)) \in Nat /\ Cardinality(LandedOn(d)') \in Nat
      BY <1>1, <3>1, <3>3, LandedCount
    <3> QED
      BY <3>1, <3>2, <3>4
  <2> QED
    BY <1>2, <2>1 DEF DailyReal
<1>9. DailyCurrent'
  <2>1. \A d : DayDue(d)' = DayDue(d)
    BY <1>2 DEF DayDue, DayClosed
  <2>2. ~DayDue(DayOf(HourOf(u)))
    <3> DEFINE b == HourOf(u)
               e == (DayOf(b) + 1) * Day
    <3>1. b \in Hours /\ b \in Nat /\ u < Start(b + 1)
      BY HourFacts
    <3>2. Start(b + 1) <= e /\ e \in Int
      BY <3>1, DayFacts, Lengths
    <3>3. Start(b + 1) \in Int
      BY <3>1, StartOrder
    <3>4. ~(now > e + DailyAt) /\ ~(now = e + DailyAt)
      <4> HIDE DEF b, e
      <4> QED
        BY <1>1, <3>1, <3>2, <3>3, Lengths
    <3> QED
      BY <3>4 DEF DayDue, DayClosed
  <2> QED
    BY <1>0, <1>2, <1>3, <2>1, <2>2 DEF DailyCurrent
<1> QED
  BY <1>4, <1>5, <1>6, <1>7, <1>8, <1>9 DEF IInv

\* Time passes: what becomes closed was current.
LEMMA AdvanceKeeps ==
  ASSUME IInv, Advance
  PROVE  IInv'
<1>0. /\ Typed /\ DetailKept /\ HourlyReal /\ HourlyCurrent /\ DailyReal /\ DailyCurrent
  BY DEF IInv
<1>1. /\ now < MaxTime /\ ticked /\ (now % Day = DailyAt => rolled)
      /\ now' = now + 1 /\ ticked' = FALSE /\ rolled' = FALSE
      /\ UNCHANGED setup /\ detail' = detail /\ landed' = landed
      /\ hourly' = hourly /\ daily' = daily
  BY DEF Advance
<1>2. /\ now \in Times /\ now' \in Times /\ now \in Nat /\ now <= now'
      /\ retention \in Retentions
  BY <1>0, <1>1, Lengths DEF Typed, Times
<1>3. ASSUME NEW tier \in Tiers, NEW t \in Nat, Keeps(tier, t)' PROVE Keeps(tier, t)
  BY <1>1, <1>2, <1>3, KeepsEarlier
<1>4. Typed'
  <2>1. landed \subseteq 0..(now + 1)
    BY <1>0, <1>2 DEF Typed
  <2>2. asset' = asset /\ retention' = retention /\ timescale' = timescale
    BY <1>1 DEF setup
  <2> QED
    BY <1>0, <1>1, <1>2, <2>1, <2>2 DEF Typed
<1>5. DetailKept'
  BY <1>0, <1>1, <1>3, LandedTimes DEF DetailKept, Tiers
<1>6. HourlyReal' /\ DailyReal'
  BY <1>0, <1>1 DEF HourlyReal, DailyReal, LandedIn, LandedOn
<1>7. HourlyCurrent'
  <2>1. ASSUME NEW t \in landed, Due(t)' PROVE Due(t)
    <3>1. t \in Nat
      BY <1>0, LandedTimes
    <3> QED
      BY <1>1, <1>2, <2>1, <3>1, Lengths DEF Due
  <2>2. ASSUME NEW t \in landed, ~Keeps("hourly", Start(HourOf(t)))
        PROVE  ~Keeps("hourly", Start(HourOf(t)))'
    <3>1. HourOf(t) \in Nat
      BY <1>0, LandedTimes, HourFacts
    <3>2. Start(HourOf(t)) \in Nat
      BY <3>1, Lengths DEF Start
    <3> QED
      BY <1>3, <2>2, <3>2 DEF Tiers
  <2> QED
    BY <1>0, <1>1, <2>1, <2>2 DEF HourlyCurrent
<1>8. DailyCurrent'
  <2>1. FeedsDaily' = FeedsDaily
    BY <1>1, SameRetention
  <2>2. ASSUME NEW t \in landed
        PROVE  LET d == DayOf(HourOf(t))
               IN /\ DayDue(d)' => DayDue(d)
                  /\ Keeps("daily", d * Day)' => Keeps("daily", d * Day)
    <3> DEFINE d == DayOf(HourOf(t))
    <3>1. HourOf(t) \in Hours
      BY <1>0, LandedTimes, HourFacts
    <3>2. d \in Nat /\ d * Day \in Nat
      BY <3>1, DayFacts
    <3>3. Keeps("daily", d * Day)' => Keeps("daily", d * Day)
      BY <1>3, <3>2 DEF Tiers
    <3>4. ASSUME DayDue(d)' PROVE DayDue(d)
      <4>1. now + 1 > (d + 1) * Day + DailyAt
        BY <1>1, <3>4 DEF DayDue, DayClosed
      <4>2. CASE now = (d + 1) * Day + DailyAt
        <5>1. d + 1 \in Nat
          BY <3>2
        <5>2. ((d + 1) * Day + DailyAt) % Day = DailyAt
          BY <5>1, Lengths, RestOf
        <5> QED
          BY <1>1, <4>2, <5>2 DEF DayDue
      <4>3. (d + 1) * Day + DailyAt \in Int
        BY <3>2, Lengths
      <4> QED
        BY <1>2, <4>1, <4>2, <4>3 DEF DayDue, DayClosed
    <3> QED
      BY <3>3, <3>4
  <2> QED
    BY <1>0, <1>1, <2>1, <2>2 DEF DailyCurrent
<1> QED
  BY <1>4, <1>5, <1>6, <1>7, <1>8 DEF IInv

\* What an hourly job aggregates into the row of hour b.
Window(b) == {t \in detail : t >= HourlySince /\ HourOf(t) = b}

\* The window of an hourly job holds every sample of its time, and a row that
\* it writes is of samples of the hour.
LEMMA WindowFacts ==
  ASSUME IInv, NEW b \in Hours
  PROVE  /\ \A t \in landed : t >= HourlySince /\ HourOf(t) = b => t \in Window(b)
         /\ Window(b) \subseteq LandedIn(b) /\ HourlySince \in Int
         /\ Window(b) # {} => /\ Max(Window(b)) \in Window(b)
                              /\ \A t \in Window(b) : t <= Max(Window(b))
<1>0. Typed /\ DetailKept
  BY DEF IInv
<1>1. now \in Nat /\ now \in Times /\ retention \in Retentions /\ HourlySince \in Int
      /\ HourlySince >= now - Day
  BY <1>0, Lengths DEF Typed, Times, HourlySince
<1>2. ASSUME NEW t \in landed, t >= HourlySince, HourOf(t) = b PROVE t \in Window(b)
  <2>1. t \in Nat /\ t >= now - Day
    BY <1>0, <1>1, <1>2, LandedTimes, Lengths
  <2>2. Keeps("detail", t)
    BY <1>1, <2>1, RecentKept DEF Tiers
  <2> QED
    BY <1>0, <1>2, <2>2 DEF DetailKept, Window
<1>3. Window(b) \subseteq LandedIn(b) /\ Window(b) \subseteq 0..now
  BY <1>0 DEF Window, LandedIn, Typed
<1> QED
  BY <1>1, <1>2, <1>3, MaxIs

\* The hourly pass recomputes the hours of its window from the samples.
LEMMA RollupHourlyKeeps ==
  ASSUME IInv, rollupHourly
  PROVE  IInv'
<1>0. /\ Typed /\ DetailKept /\ HourlyReal /\ HourlyCurrent /\ DailyReal /\ DailyCurrent
  BY DEF IInv
<1> DEFINE row(S) == [n |-> Cardinality(S), first |-> Min(S), last |-> Max(S)]
<1>1. /\ hourly' = [b \in Hours |-> IF Window(b) = {} THEN hourly[b] ELSE row(Window(b))]
      /\ ticked' = TRUE /\ rolled' = rolled
      /\ now' = now /\ UNCHANGED setup /\ detail' = detail /\ landed' = landed /\ daily' = daily
  BY DEF rollupHourly, Window, Upsert
<1>2. /\ FeedsDaily' = FeedsDaily
      /\ \A tier, t : Keeps(tier, t)' = Keeps(tier, t)
  BY <1>1, SameRetention
<1>3. Typed'
  BY <1>0, <1>1 DEF Typed, setup
<1>4. DetailKept' /\ DailyReal' /\ DailyCurrent'
  BY <1>0, <1>1, <1>2 DEF DetailKept, DailyReal, LandedOn, DailyCurrent, DayDue, DayClosed
<1>5. now \in Nat
  BY <1>0, Lengths DEF Typed, Times
<1>6. \A b \in Hours : LandedIn(b)' = LandedIn(b) /\ LandedIn(b) \subseteq 0..now
  BY <1>0, <1>1 DEF LandedIn, Typed
<1>7. ASSUME NEW b \in Hours, Window(b) # {}
      PROVE  /\ hourly'[b].last = Max(Window(b)) /\ hourly'[b] # NoRow
             /\ hourly'[b].last \in LandedIn(b)
             /\ hourly'[b].n \in 1..Cardinality(LandedIn(b))
  <2>1. hourly'[b] = row(Window(b))
    BY <1>1, <1>7
  <2>2. Max(Window(b)) \in LandedIn(b) /\ Window(b) \subseteq LandedIn(b)
    BY <1>7, WindowFacts
  <2>3. Max(Window(b)) \in Nat
    BY <1>5, <1>6, <2>2
  <2>4. /\ IsFiniteSet(Window(b)) /\ Cardinality(Window(b)) \in Nat
        /\ Cardinality(LandedIn(b)) \in Nat
        /\ Cardinality(Window(b)) <= Cardinality(LandedIn(b))
    BY <1>5, <1>6, <2>2, LandedCount
  <2>5. Cardinality(Window(b)) # 0
    BY <1>7, <2>4, FS_EmptySet
  <2>6. hourly'[b].n = Cardinality(Window(b)) /\ hourly'[b].last = Max(Window(b))
    BY <2>1
  <2>7. hourly'[b] # NoRow
    BY <2>3, <2>6 DEF NoRow
  <2> QED
    BY <2>2, <2>4, <2>5, <2>6, <2>7
<1>8. HourlyReal'
  <2>1. ASSUME NEW b \in Hours, hourly'[b] # NoRow
        PROVE  hourly'[b].last \in LandedIn(b) /\ hourly'[b].n \in 1..Cardinality(LandedIn(b))
    <3>1. CASE Window(b) = {}
      BY <1>0, <1>1, <2>1, <3>1 DEF HourlyReal
    <3> QED
      BY <1>7, <3>1
  <2> QED
    BY <1>6, <2>1 DEF HourlyReal
<1>9. ASSUME NEW t \in landed, Due(t)'
      PROVE  LET b == HourOf(t)
             IN \/ hourly'[b] # NoRow /\ hourly'[b].last >= t
                \/ /\ hourly'[b] = NoRow /\ ~Keeps("hourly", Start(b))
                   /\ \A c \in Hours : c < b => hourly'[c] = NoRow
  <2> DEFINE b == HourOf(t)
  <2>1. b \in Hours /\ b \in Nat /\ t \in Nat /\ t \in Times
    BY <1>0, LandedTimes, HourFacts
  <2>2. HourlySince \in Int /\ (t >= HourlySince => t \in Window(b))
    BY <2>1, WindowFacts
  <2>3. CASE Window(b) # {}
    <3>1. /\ Max(Window(b)) \in Window(b)
          /\ \A u \in Window(b) : u <= Max(Window(b))
      BY <2>1, <2>3, WindowFacts
    <3>2. Max(Window(b)) >= HourlySince /\ Max(Window(b)) \in Nat
      BY <1>0, <3>1, LandedTimes DEF Window, Typed
    <3>3. Max(Window(b)) >= t
      BY <2>1, <2>2, <3>1, <3>2
    <3> QED
      BY <1>7, <2>1, <2>3, <3>3
  <2>4. CASE Window(b) = {}
    <3>1. t < HourlySince
      BY <2>1, <2>2, <2>4
    <3>2. Due(t)
      <4>1. now' = now /\ (now > t + Late + 1 \/ now = t + Late + 1)
        BY <1>1, <1>9 DEF Due
      <4>2. HourlySince = now - 2 * HourLen
        BY DEF HourlySince
      <4>3. now # t + Late + 1
        BY <1>5, <2>1, <3>1, <4>2, Lengths
      <4> QED
        BY <4>1, <4>3 DEF Due
    <3>3. hourly'[b] = hourly[b]
      BY <1>1, <2>1, <2>4
    <3>4. CASE hourly[b] # NoRow /\ hourly[b].last >= t
      BY <3>3, <3>4
    <3>5. CASE /\ hourly[b] = NoRow /\ ~Keeps("hourly", Start(b))
               /\ \A c \in Hours : c < b => hourly[c] = NoRow
      <4>1. ASSUME NEW c \in Hours, c < b PROVE hourly'[c] = NoRow
        <5>1. ASSUME NEW u \in Window(c) PROVE FALSE
          <6>1. u \in landed /\ u >= HourlySince /\ HourOf(u) = c
            BY <1>0 DEF Window, Typed
          <6>2. u \in Times /\ u \in Nat
            BY <1>0, <6>1, LandedTimes
          <6>3. u < t
            BY <2>1, <4>1, <6>1, <6>2, LaterHour
          <6> QED
            BY <2>1, <2>2, <3>1, <6>1, <6>2, <6>3
        <5> QED
          BY <1>1, <3>5, <4>1, <5>1
      <4> QED
        BY <3>3, <3>5, <4>1
    <3> QED
      BY <1>0, <3>2, <3>4, <3>5 DEF HourlyCurrent
  <2> QED
    BY <2>3, <2>4
<1>10. HourlyCurrent'
  BY <1>1, <1>2, <1>9 DEF HourlyCurrent
<1> QED
  BY <1>3, <1>4, <1>8, <1>10 DEF IInv

\* What a daily job aggregates into the row of day d.
HoursOf(d) == {b \in Hours : hourly[b] # NoRow /\ Start(b) >= DailySince /\ DayOf(b) = d}

\* The last hour of those has a row whose last sample is of that hour.
LEMMA LastHour ==
  ASSUME IInv, NEW d, HoursOf(d) # {}
  PROVE  LET m == Max(HoursOf(d))
         IN /\ m \in HoursOf(d) /\ \A b \in HoursOf(d) : b <= m
            /\ hourly[m].last \in LandedIn(m)
<1>0. HourlyReal
  BY DEF IInv
<1>1. HourOf(MaxTime) \in Nat
  BY Lengths, InBucket DEF HourOf
<1>2. HoursOf(d) \in SUBSET (0..HourOf(MaxTime))
  BY DEF HoursOf, Hours
<1>3. Max(HoursOf(d)) \in HoursOf(d) /\ \A b \in HoursOf(d) : b <= Max(HoursOf(d))
  BY <1>1, <1>2, MaxIs
<1>4. Max(HoursOf(d)) \in Hours /\ hourly[Max(HoursOf(d))] # NoRow
  BY <1>3 DEF HoursOf
<1> QED
  BY <1>0, <1>3, <1>4 DEF HourlyReal

\* The count of a daily row is at most that of the day's samples.
LEMMA DayTotal ==
  ASSUME IInv, NEW d
  PROVE  Total(HoursOf(d)) \in 0..Cardinality(LandedOn(d))
<1>0. Typed /\ HourlyReal
  BY DEF IInv
<1>1. now \in Nat /\ landed \subseteq 0..now
  BY <1>0, Lengths DEF Typed, Times
<1>2. IsFiniteSet(HoursOf(d))
  <2>1. HourOf(MaxTime) \in Nat
    BY Lengths, InBucket DEF HourOf
  <2>2. HoursOf(d) \subseteq 0..HourOf(MaxTime)
    BY DEF HoursOf, Hours
  <2> QED
    BY <2>1, <2>2, LandedCount
<1>3. \A b \in HoursOf(d) : hourly[b].n \in 1..Cardinality(LandedIn(b))
  BY <1>0 DEF HourlyReal, HoursOf
<1>4. Total(HoursOf(d)) \in 0..Cardinality(InHours(HoursOf(d)))
  BY <1>1, <1>2, <1>3, TotalBound
<1>5. InHours(HoursOf(d)) \subseteq LandedOn(d) /\ LandedOn(d) \subseteq 0..now
  BY <1>1 DEF InHours, HoursOf, LandedOn
<1>6. /\ Cardinality(InHours(HoursOf(d))) <= Cardinality(LandedOn(d))
      /\ Cardinality(InHours(HoursOf(d))) \in Nat /\ Cardinality(LandedOn(d)) \in Nat
  BY <1>1, <1>5, LandedCount
<1> QED
  BY <1>4, <1>6

\* The daily pass sums the hourly rows of the days of its window.
LEMMA RollupDailyKeeps ==
  ASSUME IInv, rollupDaily
  PROVE  IInv'
<1>0. /\ Typed /\ DetailKept /\ HourlyReal /\ HourlyCurrent /\ DailyReal /\ DailyCurrent
  BY DEF IInv
<1> DEFINE row(H) == [n |-> Total(H), first |-> hourly[Min(H)].first, last |-> hourly[Max(H)].last]
<1>1. /\ daily' = [d \in Days |-> IF HoursOf(d) = {} THEN daily[d] ELSE row(HoursOf(d))]
      /\ rolled' = TRUE /\ ticked' = ticked
      /\ now' = now /\ UNCHANGED setup /\ detail' = detail /\ landed' = landed /\ hourly' = hourly
  BY DEF rollupDaily, HoursOf, Upsert
<1>2. /\ FeedsDaily' = FeedsDaily
      /\ \A tier, t : Keeps(tier, t)' = Keeps(tier, t)
  BY <1>1, SameRetention
<1>3. Typed'
  BY <1>0, <1>1 DEF Typed, setup
<1>4. DetailKept' /\ HourlyReal' /\ HourlyCurrent'
  BY <1>0, <1>1, <1>2 DEF DetailKept, HourlyReal, LandedIn, HourlyCurrent, Due
<1>5. ASSUME NEW d \in Days, HoursOf(d) # {}
      PROVE  LET m == Max(HoursOf(d))
             IN /\ m \in Hours /\ hourly[m] # NoRow /\ Start(m) >= DailySince /\ DayOf(m) = d
                /\ daily'[d].last = hourly[m].last /\ daily'[d] # NoRow
                /\ hourly[m].last \in landed /\ HourOf(hourly[m].last) = m
  <2> DEFINE m == Max(HoursOf(d))
  <2>1. m \in HoursOf(d) /\ hourly[m].last \in LandedIn(m)
    BY <1>5, LastHour
  <2>2. hourly[m].last \in landed /\ HourOf(hourly[m].last) = m
    BY <2>1 DEF LandedIn
  <2>3. hourly[m].last \in Nat
    BY <1>0, <2>2, LandedTimes
  <2>4. daily'[d].last = hourly[m].last
    BY <1>1, <1>5
  <2>5. daily'[d] # NoRow
    BY <2>3, <2>4 DEF NoRow
  <2> HIDE DEF m
  <2>6. m \in Hours /\ hourly[m] # NoRow /\ Start(m) >= DailySince /\ DayOf(m) = d
    BY <2>1 DEF HoursOf
  <2> QED
    BY <2>2, <2>4, <2>5, <2>6 DEF m
<1>6. DailyReal'
  <2>1. ASSUME NEW d \in Days, daily'[d] # NoRow
        PROVE  daily'[d].last \in LandedOn(d) /\ daily'[d].n \in 0..Cardinality(LandedOn(d))
    <3>1. CASE HoursOf(d) = {}
      BY <1>0, <1>1, <2>1, <3>1 DEF DailyReal
    <3>2. CASE HoursOf(d) # {}
      <4>1. daily'[d].last \in LandedOn(d)
        BY <1>5, <3>2 DEF LandedOn
      <4>2. daily'[d].n = Total(HoursOf(d))
        BY <1>1, <3>2
      <4>3. Total(HoursOf(d)) \in 0..Cardinality(LandedOn(d))
        BY <1>0, DayTotal
      <4> QED
        BY <4>1, <4>2, <4>3
    <3> QED
      BY <3>1, <3>2
  <2> QED
    BY <1>1, <2>1 DEF DailyReal, LandedOn
<1>7. ASSUME FeedsDaily, NEW t \in landed, DayDue(DayOf(HourOf(t)))'
      PROVE  LET d == DayOf(HourOf(t))
             IN \/ daily'[d] # NoRow /\ daily'[d].last >= t
                \/ daily'[d] = NoRow /\ ~Keeps("daily", d * Day)
  <2> DEFINE b == HourOf(t)
             d == DayOf(b)
             e == (d + 1) * Day
  <2>1. b \in Hours /\ b \in Nat /\ t \in Nat /\ t \in Times /\ t < Start(b + 1) /\ now \in Nat
    BY <1>0, LandedTimes, HourFacts
  <2>2. /\ d \in Days /\ d \in Nat /\ d * Day \in Nat /\ e = d * Day + Day
        /\ d * Day <= Start(b) /\ Start(b + 1) <= e
    BY <2>1, DayFacts
  <2>3. Start(b) \in Int /\ Start(b + 1) \in Int
    BY <2>1, StartOrder
  <2>4. now = e + DailyAt \/ now > e + DailyAt
    BY <1>1, <1>7 DEF DayDue, DayClosed
  <2>5. Due(t)
    <3>1. now > t + Late + 1
      <4> HIDE DEF b, d, e
      <4> QED
        BY <2>1, <2>2, <2>3, <2>4, Lengths
    <3> QED
      BY <3>1 DEF Due
  <2>6. \/ hourly[b] # NoRow /\ hourly[b].last >= t
        \/ /\ hourly[b] = NoRow /\ ~Keeps("hourly", Start(b))
           /\ \A c \in Hours : c < b => hourly[c] = NoRow
    BY <1>0, <2>5 DEF HourlyCurrent
  <2>7. CASE HoursOf(d) # {}
    <3> DEFINE m == Max(HoursOf(d))
    <3>1. /\ m \in Hours /\ hourly[m] # NoRow /\ Start(m) >= DailySince
          /\ daily'[d].last = hourly[m].last /\ daily'[d] # NoRow
          /\ hourly[m].last \in landed /\ HourOf(hourly[m].last) = m
      BY <1>5, <2>2, <2>7
    <3>2. \A c \in HoursOf(d) : c <= m
      BY <2>7, LastHour
    <3>3. m \in Nat /\ hourly[m].last \in Times /\ hourly[m].last \in Nat
      BY <1>0, <3>1, LandedTimes, HoursInt
    <3>4. hourly[m].last >= t
      <4>1. CASE b < m
        BY <2>1, <3>1, <3>3, <4>1, LaterHour
      <4>2. CASE b = m
        BY <2>6, <3>1, <4>2
      <4>3. CASE m < b
        <5>1. hourly[b] # NoRow
          BY <2>6, <3>1, <4>3
        <5>2. Start(m) <= Start(b) /\ Start(m) \in Int /\ DailySince \in Int
          BY <2>1, <3>3, <4>3, StartOrder, Lengths DEF DailySince
        <5>3. b \in HoursOf(d)
          BY <2>1, <2>3, <3>1, <5>1, <5>2 DEF HoursOf
        <5> QED
          BY <2>1, <3>2, <3>3, <4>3, <5>3
      <4> QED
        BY <2>1, <3>3, <4>1, <4>2, <4>3
    <3> QED
      BY <3>1, <3>4
  <2>8. CASE HoursOf(d) = {}
    <3>1. daily'[d] = daily[d]
      BY <1>1, <2>2, <2>8
    <3>2. CASE DayDue(d)
      BY <1>0, <1>7, <3>1, <3>2 DEF DailyCurrent
    <3>3. CASE now = e + DailyAt
      <4>1. Start(b) >= now - (Day + DailyAt) /\ Start(b) \in Nat /\ Start(b) >= now - 2 * Day
        <5> HIDE DEF b, d, e
        <5> QED
          BY <2>1, <2>2, <2>3, <3>3, Lengths
      <4>2. Keeps("hourly", Start(b))
        BY <1>0, <1>7, <4>1, FeedsKept DEF Typed
      <4>3. b \in HoursOf(d)
        BY <2>1, <2>6, <4>1, <4>2 DEF HoursOf, DailySince
      <4> QED
        BY <2>8, <4>3
    <3> QED
      BY <2>4, <3>2, <3>3 DEF DayDue, DayClosed
  <2> QED
    BY <2>7, <2>8
<1>8. DailyCurrent'
  BY <1>1, <1>2, <1>7 DEF DailyCurrent
<1> QED
  BY <1>3, <1>4, <1>6, <1>8 DEF IInv

\* Pruning drops only chunks whose samples are rolled up.
LEMMA PruneKeeps ==
  ASSUME IInv, Prune
  PROVE  IInv'
<1>0. /\ Typed /\ DetailKept /\ HourlyReal /\ HourlyCurrent /\ DailyReal /\ DailyCurrent
  BY DEF IInv
<1>1. /\ detail' = {t \in detail : Keeps("detail", t)}
      /\ hourly' = [b \in Hours |-> IF Keeps("hourly", Start(b)) THEN hourly[b] ELSE NoRow]
      /\ daily' = [d \in Days |-> IF Keeps("daily", d * Day) THEN daily[d] ELSE NoRow]
      /\ now' = now /\ UNCHANGED setup /\ landed' = landed
      /\ ticked' = ticked /\ rolled' = rolled
  BY DEF Prune
<1>2. /\ FeedsDaily' = FeedsDaily
      /\ \A tier, t : Keeps(tier, t)' = Keeps(tier, t)
  BY <1>1, SameRetention
<1>3. Typed'
  BY <1>0, <1>1 DEF Typed, setup
<1>4. DetailKept'
  BY <1>0, <1>1, <1>2 DEF DetailKept
<1>5. HourlyReal' /\ DailyReal'
  BY <1>0, <1>1 DEF HourlyReal, DailyReal, LandedIn, LandedOn
<1>6. ASSUME NEW t \in landed, Due(t)
      PROVE  LET b == HourOf(t)
             IN \/ hourly'[b] # NoRow /\ hourly'[b].last >= t
                \/ /\ hourly'[b] = NoRow /\ ~Keeps("hourly", Start(b))
                   /\ \A c \in Hours : c < b => hourly'[c] = NoRow
  <2> DEFINE b == HourOf(t)
  <2>1. b \in Hours /\ b \in Nat
    BY <1>0, LandedTimes, HourFacts
  <2>2. \/ hourly[b] # NoRow /\ hourly[b].last >= t
        \/ /\ hourly[b] = NoRow /\ ~Keeps("hourly", Start(b))
           /\ \A c \in Hours : c < b => hourly[c] = NoRow
    BY <1>0, <1>6 DEF HourlyCurrent
  <2>3. CASE Keeps("hourly", Start(b))
    BY <1>1, <2>1, <2>2, <2>3
  <2>4. CASE ~Keeps("hourly", Start(b))
    <3>1. ASSUME NEW c \in Hours, c < b PROVE ~Keeps("hourly", Start(c))
      <4>1. c \in Nat
        BY HoursInt
      <4>2. Start(c) \in Nat /\ Start(b) \in Nat
        BY <2>1, <4>1, Lengths DEF Start
      <4>3. Start(c) <= Start(b)
        BY <2>1, <3>1, <4>1, StartOrder
      <4> QED
        BY <1>0, <2>4, <4>2, <4>3, KeepsYounger DEF Typed, Tiers
    <3> QED
      BY <1>1, <2>1, <2>4, <3>1
  <2> QED
    BY <2>3, <2>4
<1>7. HourlyCurrent'
  <2>1. \A t : Due(t)' = Due(t)
    BY <1>1 DEF Due
  <2> QED
    BY <1>1, <1>2, <1>6, <2>1 DEF HourlyCurrent
<1>8. DailyCurrent'
  <2>1. \A d : DayDue(d)' = DayDue(d)
    BY <1>1 DEF DayDue, DayClosed
  <2>2. \A t \in landed : DayOf(HourOf(t)) \in Days
    BY <1>0, LandedTimes, HourFacts, DayFacts
  <2> QED
    BY <1>0, <1>1, <1>2, <2>1, <2>2 DEF DailyCurrent
<1> QED
  BY <1>3, <1>4, <1>5, <1>7, <1>8 DEF IInv

\* When an hour is closed its samples are due.
LEMMA ClosedDue ==
  ASSUME Typed, NEW t \in landed, Closed(HourOf(t))
  PROVE  Due(t)
<1>1. t \in Times /\ t \in Nat /\ now \in Nat /\ ticked \in BOOLEAN
  BY LandedTimes DEF Typed
<1>2. HourOf(t) \in Nat /\ t < Start(HourOf(t) + 1)
  BY <1>1, HourFacts
<1>3. Start(HourOf(t) + 1) \in Int
  BY <1>2, StartOrder
<1>4. \/ now > Start(HourOf(t) + 1) + Late
      \/ now = Start(HourOf(t) + 1) + Late /\ ticked
  BY DEF Closed
<1>5. \/ now > t + Late + 1
      \/ now = t + Late + 1 /\ ticked
  BY <1>1, <1>2, <1>3, <1>4, Lengths
<1> QED
  BY <1>5 DEF Due

-----------------------------------------------------------------------------
(* The theorems.                                                           *)

\* Every table starts empty.
LEMMA InitHolds ==
  ASSUME Init
  PROVE  IInv
<1>1. Typed
  <2>1. hourly = [b \in Hours |-> hourly[b]] /\ daily = [d \in Days |-> daily[d]]
    BY DEF Init
  <2>2. now \in Times /\ detail \subseteq landed /\ landed \subseteq 0..now
    BY Lengths DEF Init, Times
  <2> QED
    BY <2>1, <2>2 DEF Init, Typed
<1> QED
  BY <1>1 DEF Init, IInv, DetailKept, HourlyReal, HourlyCurrent, DailyReal, DailyCurrent

\* Every step keeps the invariant.
LEMMA NextKeeps ==
  ASSUME IInv, [Next]_vars
  PROVE  IInv'
<1>1. CASE UNCHANGED vars
  <2>0. /\ Typed /\ DetailKept /\ HourlyReal /\ HourlyCurrent /\ DailyReal /\ DailyCurrent
    BY DEF IInv
  <2>1. /\ now' = now /\ UNCHANGED setup /\ detail' = detail /\ landed' = landed
        /\ hourly' = hourly /\ daily' = daily /\ ticked' = ticked /\ rolled' = rolled
    BY <1>1 DEF vars
  <2>2. /\ FeedsDaily' = FeedsDaily
        /\ \A tier, t : Keeps(tier, t)' = Keeps(tier, t)
    BY <2>1, SameRetention
  <2>3. Typed' /\ DetailKept'
    BY <2>0, <2>1, <2>2 DEF Typed, DetailKept, setup
  <2>4. HourlyReal' /\ DailyReal'
    BY <2>0, <2>1 DEF HourlyReal, DailyReal, LandedIn, LandedOn
  <2>5. HourlyCurrent' /\ DailyCurrent'
    BY <2>0, <2>1, <2>2 DEF HourlyCurrent, DailyCurrent, Due, DayDue, DayClosed
  <2> QED
    BY <2>3, <2>4, <2>5 DEF IInv
<1>2. CASE Next
  BY <1>2, InsertKeeps, AdvanceKeeps, RollupHourlyKeeps, RollupDailyKeeps, PruneKeeps DEF Next
<1> QED
  BY <1>1, <1>2

\* Inserts up to Late after their timestamp, hourly and daily jobs that run as
\* often as they like beside the ones that are due, and prunes at any time
\* keep the invariant that relates the three tables to the samples inserted.
THEOREM Inductive == Spec => []IInv
<1>1. Init => IInv
  BY InitHolds
<1>2. IInv /\ [Next]_vars => IInv'
  BY NextKeeps
<1> QED
  BY <1>1, <1>2, PTL DEF Spec

\* rollupHourly and rollupDaily are idempotent: no row counts a sample twice.
THEOREM NoDoubleCountHolds == Spec => []NoDoubleCount
<1>1. ASSUME IInv PROVE NoDoubleCount
  <2>0. Typed /\ HourlyReal /\ DailyReal
    BY <1>1 DEF IInv
  <2>1. now \in Nat /\ landed \subseteq 0..now
    BY <2>0, Lengths DEF Typed, Times
  <2>2. ASSUME NEW S, S \subseteq landed PROVE Cardinality(S) \in Nat
    <3>1. S \subseteq 0..now
      BY <2>1, <2>2
    <3> QED
      BY <2>1, <3>1, LandedCount
  <2>3. \A b : Cardinality(LandedIn(b)) \in Nat
    BY <2>2 DEF LandedIn
  <2>4. \A d : Cardinality(LandedOn(d)) \in Nat
    BY <2>2 DEF LandedOn
  <2>5. ASSUME NEW b \in Hours PROVE hourly[b].n <= Cardinality(LandedIn(b))
    BY <2>0, <2>3 DEF HourlyReal, NoRow
  <2>6. ASSUME NEW d \in Days PROVE daily[d].n <= Cardinality(LandedOn(d))
    BY <2>0, <2>4 DEF DailyReal, NoRow
  <2> QED
    BY <2>5, <2>6 DEF NoDoubleCount
<1> QED
  BY <1>1, Inductive, PTL

\* The row of a closed hour, and of a closed day whose hourly rows live until
\* the daily job, ends with the last sample, however late it was inserted.
THEOREM ClosingExactHolds == Spec => []ClosingExact
<1>1. ASSUME IInv PROVE ClosingExact
  <2>0. Typed /\ HourlyReal /\ HourlyCurrent /\ DailyReal /\ DailyCurrent
    BY <1>1 DEF IInv
  <2>1. now \in Nat /\ landed \subseteq Int
    BY <2>0, Lengths DEF Typed, Times
  <2>2. ASSUME NEW b \in Hours, Closed(b), hourly[b] # NoRow
        PROVE  hourly[b].last = Max(LandedIn(b))
    <3>1. hourly[b].last \in LandedIn(b) /\ LandedIn(b) \subseteq Int
      BY <2>0, <2>1, <2>2 DEF HourlyReal, LandedIn
    <3>2. ASSUME NEW t \in LandedIn(b) PROVE t <= hourly[b].last
      <4>1. t \in landed /\ HourOf(t) = b
        BY DEF LandedIn
      <4>2. Due(t)
        BY <2>0, <2>2, <4>1, ClosedDue
      <4>3. hourly[b].last >= t
        BY <2>0, <2>2, <4>1, <4>2 DEF HourlyCurrent
      <4> QED
        BY <3>1, <4>3
    <3> QED
      BY <3>1, <3>2, IsMax
  <2>3. ASSUME FeedsDaily, NEW d \in Days, DayClosed(d), daily[d] # NoRow
        PROVE  daily[d].last = Max(LandedOn(d))
    <3>1. daily[d].last \in LandedOn(d) /\ LandedOn(d) \subseteq Int
      BY <2>0, <2>1, <2>3 DEF DailyReal, LandedOn
    <3>2. ASSUME NEW t \in LandedOn(d) PROVE t <= daily[d].last
      <4>1. t \in landed /\ DayOf(HourOf(t)) = d /\ DayDue(d)
        BY <2>3 DEF LandedOn, DayDue
      <4>2. daily[d].last >= t
        BY <2>0, <2>3, <4>1 DEF DailyCurrent
      <4> QED
        BY <3>1, <4>2
    <3> QED
      BY <3>1, <3>2, IsMax
  <2> QED
    BY <2>2, <2>3 DEF ClosingExact
<1> QED
  BY <1>1, Inductive, PTL

\* The tier picked for a chart has everything the range asks for.
THEOREM ChartCompleteHolds == Spec => []ChartComplete
<1>1. ASSUME IInv, NEW since \in 0..now,
             LET tier == pickSampleTier(since)
                 days == retention["daily"][ChartClass]
             IN Honoured(tier) /\ (days > 0 => since >= now - days * Day)
      PROVE  LET tier == pickSampleTier(since) IN
             CASE tier = "detail" -> {t \in landed : t >= since} \subseteq detail
               [] tier = "hourly" -> \A b \in Hours : Start(b) >= since /\ Closed(b)
                                        /\ LandedIn(b) # {} => hourly[b] # NoRow
               [] OTHER -> \A d \in Days : d * Day >= since /\ DayClosed(d)
                                        /\ LandedOn(d) # {} => daily[d] # NoRow
  <2> DEFINE tier == pickSampleTier(since)
  <2>0. Typed /\ DetailKept /\ HourlyCurrent /\ DailyCurrent
    BY <1>1 DEF IInv
  <2>1. now \in Nat /\ now \in Times /\ retention \in Retentions /\ since \in Nat
    BY <2>0, Lengths DEF Typed, Times
  <2>2. CASE tier = "detail"
    <3>1. since >= now - retention["detail"][ChartClass] * Day
      BY <2>2 DEF pickSampleTier
    <3>2. ASSUME NEW t \in landed, t >= since PROVE t \in detail
      <4>1. t \in Nat
        BY <2>0, LandedTimes
      <4>2. Keeps("detail", t)
        BY <1>1, <2>1, <2>2, <3>1, <3>2, <4>1, HonouredKept DEF Tiers
      <4> QED
        BY <2>0, <4>2 DEF DetailKept
    <3> QED
      BY <2>2, <3>2
  <2>3. CASE tier = "hourly"
    <3>1. since >= now - retention["hourly"][ChartClass] * Day
      BY <2>3 DEF pickSampleTier
    <3>2. ASSUME NEW b \in Hours, Start(b) >= since, Closed(b), NEW t \in LandedIn(b)
          PROVE  hourly[b] # NoRow
      <4>1. t \in landed /\ HourOf(t) = b
        BY DEF LandedIn
      <4>2. Due(t)
        BY <2>0, <3>2, <4>1, ClosedDue
      <4>3. Start(b) \in Nat
        BY HoursInt, Lengths DEF Start
      <4>4. Keeps("hourly", Start(b))
        BY <1>1, <2>1, <2>3, <3>1, <3>2, <4>3, HonouredKept DEF Tiers
      <4> QED
        BY <2>0, <4>1, <4>2, <4>4 DEF HourlyCurrent
    <3> QED
      BY <2>3, <3>2
  <2>4. CASE tier # "detail" /\ tier # "hourly"
    <3>1. tier = "daily"
      BY <2>4 DEF pickSampleTier
    <3>2. ASSUME NEW d \in Days, d * Day >= since, DayClosed(d), NEW t \in LandedOn(d)
          PROVE  daily[d] # NoRow
      <4>1. t \in landed /\ DayOf(HourOf(t)) = d /\ DayDue(d)
        BY <3>2 DEF LandedOn, DayDue
      <4>2. FeedsDaily
        BY <1>1, <3>1 DEF Honoured
      <4>3. d * Day \in Nat
        BY HoursInt, Lengths
      <4>4. Keeps("daily", d * Day)
        <5>1. Honoured("daily")
          BY <1>1, <3>1
        <5>2. retention["daily"][ChartClass] > 0 =>
                since >= now - retention["daily"][ChartClass] * Day
          BY <1>1
        <5> QED
          BY <2>1, <3>2, <4>3, <5>1, <5>2, HonouredKept DEF Tiers
      <4> QED
        BY <2>0, <4>1, <4>2, <4>4 DEF DailyCurrent
    <3> QED
      BY <2>4, <3>2
  <2> QED
    BY <2>2, <2>3, <2>4
<1>2. ASSUME IInv PROVE ChartComplete
  BY <1>1, <1>2 DEF ChartComplete
<1> QED
  BY <1>2, Inductive, PTL

=============================================================================
