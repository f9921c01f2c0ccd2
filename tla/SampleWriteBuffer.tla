-------------------------- MODULE SampleWriteBuffer --------------------------
(***************************************************************************)
(* The write buffer of one monitor sample table, after                     *)
(* src/services/sampleWriteBuffer.ts, with the shutdown hook of src/app.ts *)
(* and the deadlock retry of src/utils/dbRetry.ts.  The six tables have a  *)
(* buffer and a flag each and share nothing, so one stands for all.        *)
(*                                                                         *)
(* A row is the number of its arrival.  `sending` is the batch a flush has *)
(* taken out of the buffer and is awaiting the write of.                   *)
(***************************************************************************)
EXTENDS Naturals, Sequences, SequencesExt

CONSTANTS MaxRows,         \* bound on the rows that arrive
          SIZE_THRESHOLD,  \* depth at which an enqueue flushes early
          MaxAttempts,     \* tries of retryOnDeadlock
          MaxLost          \* bound on the answers that get lost

ASSUME BufferAssumption == /\ MaxRows \in Nat
                           /\ SIZE_THRESHOLD \in Nat \ {0}
                           /\ MaxAttempts \in Nat \ {0}
                           /\ MaxLost \in Nat

VARIABLES buffer, sending, flushing,
          attempt,    \* tries used on the batch in flight
          table,      \* rows in Postgres, in the order they were written
          arrived,    \* how many rows were enqueued so far
          lost,       \* answers to committed writes that got lost so far
          due,        \* how many rows the shutdown hook has answered for
          process,    \* up, stopping (the shutdown hook runs), exited
          hookFlush,  \* the shutdown hook awaits the flush in flight
          jobs        \* monitor jobs may still deliver rows

bvars == <<buffer, sending, flushing, attempt, table, arrived, lost, due, process, hookFlush, jobs>>

Rows == 1..MaxRows

BTypeOK ==
  /\ buffer \in Seq(Rows) /\ sending \in Seq(Rows) /\ table \in Seq(Rows)
  /\ flushing \in BOOLEAN
  /\ attempt \in 0..(MaxAttempts - 1)
  /\ arrived \in 0..MaxRows /\ lost \in 0..MaxLost /\ due \in 0..MaxRows
  /\ process \in {"up", "stopping", "exited"}
  /\ hookFlush \in BOOLEAN /\ jobs \in BOOLEAN

BInit ==
  /\ buffer = <<>> /\ sending = <<>> /\ table = <<>>
  /\ flushing = FALSE
  /\ attempt = 0
  /\ arrived = 0 /\ lost = 0 /\ due = 0
  /\ process = "up"
  /\ hookFlush = FALSE /\ jobs = TRUE

-----------------------------------------------------------------------------
\* flushTable(key) up to its await, with b the buffer: nothing happens while
\* a flush is in flight or the buffer is empty.
Flush(b) == IF flushing \/ b = <<>>
            THEN buffer' = b /\ UNCHANGED <<sending, flushing>>
            ELSE sending' = b /\ buffer' = <<>> /\ flushing' = TRUE

\* An enqueue of n rows, with the early flush.
Arriving(n) == [i \in 1..n |-> arrived + i]

Enqueue(n) ==
  /\ process # "exited" /\ jobs
  /\ arrived + n <= MaxRows
  /\ arrived' = arrived + n
  /\ LET b == buffer \o Arriving(n)
     IN IF Len(b) >= SIZE_THRESHOLD THEN Flush(b)
        ELSE buffer' = b /\ UNCHANGED <<sending, flushing>>
  /\ UNCHANGED <<attempt, table, lost, process, hookFlush, jobs, due>>

\* The two second timer, which the shutdown hook clears.
FlushTick ==
  /\ process = "up"
  /\ ~flushing /\ buffer # <<>>
  /\ Flush(buffer)
  /\ UNCHANGED <<attempt, table, arrived, lost, process, hookFlush, jobs, due>>

-----------------------------------------------------------------------------
\* createMany is one statement: it writes the whole batch or nothing.
WriteOk ==
  /\ process # "exited" /\ flushing
  /\ table' = table \o sending
  /\ sending' = <<>> /\ flushing' = FALSE /\ attempt' = 0
  /\ hookFlush' = FALSE
  /\ UNCHANGED <<buffer, arrived, lost, process, jobs, due>>

\* The loop of retryOnDeadlock.
RetryLeft == attempt < MaxAttempts - 1

\* Postgres broke a deadlock; the same batch is tried again.
WriteDeadlock ==
  /\ process # "exited" /\ flushing
  /\ RetryLeft
  /\ attempt' = attempt + 1
  /\ UNCHANGED <<buffer, sending, flushing, table, arrived, lost, process, hookFlush, jobs, due>>

\* The buffer with the rows of a failed batch back in front; the mutants
\* put them behind the rows that came meanwhile, and drop them.
Mut_PutBackLast == buffer \o sending
Mut_PutBackNone == buffer
PutBack == sending \o buffer

\* Any other error, or the last deadlock.  The answer to a write that was
\* committed may be lost, which looks the same to the buffer.  The hook does
\* not try its flush again.
WriteFails ==
  /\ process # "exited" /\ flushing
  /\ \/ UNCHANGED <<table, lost>>
     \/ /\ lost < MaxLost
        /\ lost' = lost + 1
        /\ table' = table \o sending
  /\ buffer' = PutBack
  /\ sending' = <<>> /\ flushing' = FALSE /\ attempt' = 0
  /\ hookFlush' = FALSE
  /\ due' = IF hookFlush THEN 0 ELSE due
  /\ UNCHANGED <<arrived, process, jobs>>

-----------------------------------------------------------------------------
(***************************************************************************)
(* SIGTERM or SIGINT: the hook stops the timer and flushes, and beside it  *)
(* stops the pg-boss workers, which finish the jobs they have and deliver  *)
(* their rows.  A flush already in flight is not awaited: flushTable just  *)
(* returns.  The process exits when both are done.                         *)
(***************************************************************************)
Sigterm ==
  /\ process = "up"
  /\ process' = "stopping"
  /\ Flush(buffer)
  /\ hookFlush' = (~flushing /\ buffer # <<>>)
  /\ due' = IF flushing THEN 0 ELSE arrived
  /\ UNCHANGED <<attempt, table, arrived, lost, jobs>>

JobsDrained ==
  /\ process = "stopping" /\ jobs
  /\ jobs' = FALSE
  /\ UNCHANGED <<buffer, sending, flushing, attempt, table, arrived, lost, process, hookFlush, due>>

\* The hook awaits the flush it started; the mutant only starts it.
Mut_HookDone == TRUE
HookDone == ~hookFlush

\* Postgres may still commit a write that was in flight.
Exit ==
  /\ process = "stopping" /\ ~jobs /\ HookDone
  /\ process' = "exited"
  /\ table' \in {table, table \o sending}
  /\ UNCHANGED <<buffer, sending, flushing, attempt, arrived, lost, hookFlush, jobs, due>>

BNext ==
  \/ \E n \in 1..2 : Enqueue(n)
  \/ FlushTick
  \/ WriteOk \/ WriteDeadlock \/ WriteFails
  \/ Sigterm \/ JobsDrained \/ Exit

BSpec == BInit /\ [][BNext]_bvars

\* The timer keeps firing and a write that is tried again and again succeeds
\* in the end: the database comes back.
Fairness == WF_bvars(FlushTick) /\ SF_bvars(WriteOk)
FairSpec == BSpec /\ Fairness

-----------------------------------------------------------------------------
\* As long as no answer was lost every row is in exactly one place and is
\* written once: the places together are the arrivals in their order, so the
\* table is appended to in order although failed batches return to the buffer.
InOrder == process # "exited" /\ lost = 0 =>
  table \o sending \o buffer = [i \in 1..arrived |-> i]

\* The shutdown hook drains what it took: when no flush was in flight at the
\* signal and the hook's own write succeeded, the table has every row that
\* had arrived by then, although jobs deliver more rows while it waits.
ShutdownDrains == process = "exited" => \A r \in 1..due : r \in ToSet(table)

\* Every row reaches the table, unless the process is told to stop before.
AllWritten == \A r \in Rows : r <= arrived ~> r \in ToSet(table) \/ process # "up"

-----------------------------------------------------------------------------
(* The inductive invariant behind InOrder and ShutdownDrains.              *)

\* A batch is out of the buffer only while a flush is in flight, and the hook
\* awaits and answers for nothing before the signal.
FlushState ==
  /\ ~flushing => sending = <<>>
  /\ hookFlush => flushing
  /\ process = "up" => ~hookFlush /\ due = 0

\* No row is dropped while the process lives, lost answers or not.
NoneDropped == process # "exited" =>
  \A r \in 1..arrived : r \in ToSet(table) \cup ToSet(sending) \cup ToSet(buffer)

\* What the hook answers for is written, or in the batch it awaits.
HookHolds == process = "stopping" =>
  \A r \in 1..due : r \in ToSet(table) \/ (hookFlush /\ r \in ToSet(sending))

BIInv == /\ BTypeOK /\ FlushState
        /\ InOrder /\ NoneDropped
        /\ HookHolds /\ ShutdownDrains
=============================================================================
