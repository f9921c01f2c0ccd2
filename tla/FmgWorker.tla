------------------------------ MODULE FmgWorker ------------------------------
(***************************************************************************)
(* The per-integration FortiManager worker of src/services/fmgWorker.ts.   *)
(* Every call Polaris makes to one FortiManager goes through one worker.   *)
(* Calls that FortiManager forwards to a FortiGate (/sys/proxy/json) take  *)
(* the proxy lane, which must never have two of them open; every other     *)
(* call takes the native lane, which only counts.  A call may carry an     *)
(* abort signal, which several calls of one discovery run share.           *)
(*                                                                         *)
(* JavaScript runs a handler to its next await without interruption, so an *)
(* action is such a stretch of code.  Dispatching an abort event runs the  *)
(* listeners one after the other and nothing else in between: `firing`     *)
(* holds the entries whose listener is still to run, and every other       *)
(* action waits until it is empty.                                         *)
(*                                                                         *)
(* DiscoveryRuns composes the worker with the runs that use it.            *)
(***************************************************************************)
EXTENDS Naturals, Sequences

CONSTANTS Calls,        \* the calls that may be submitted
          Signals,      \* the abort signals
          NoSignal,     \* a call submitted without a signal
          SignalOf,     \* the signal each call carries
          ProxyCalls,   \* the calls whose payload targets /sys/proxy/json
          None

VARIABLES proxyQueue,      \* entries waiting for the proxy lane
          proxyInFlight,   \* the entry whose run() is awaited, or None
          proxyDraining,   \* a drain loop is active
          nativeInFlight,  \* count of native calls in flight
          promise,         \* what became of each call
          aborted,         \* signals that have fired
          firing,          \* entries whose abort listener is still to run
          ticket, clock    \* history: when each call entered the proxy queue

proxyVars == <<proxyQueue, proxyInFlight, proxyDraining>>
vars == <<proxyVars, nativeInFlight, promise, aborted, firing, ticket, clock>>

\* `running` is an open request; the last three are settled promises.
Promises == {"new", "queued", "running", "resolved", "failed", "aborted"}
Settled == {"resolved", "failed", "aborted"}

TypeOK ==
  /\ proxyQueue \in Seq(ProxyCalls)
  /\ proxyInFlight \in ProxyCalls \cup {None}
  /\ proxyDraining \in BOOLEAN
  /\ nativeInFlight \in Nat
  /\ promise \in [Calls -> Promises]
  /\ aborted \subseteq Signals
  /\ firing \subseteq ProxyCalls
  /\ ticket \in [Calls -> Nat]
  /\ clock \in Nat

Init ==
  /\ proxyQueue = <<>>
  /\ proxyInFlight = None
  /\ proxyDraining = FALSE
  /\ nativeInFlight = 0
  /\ promise = [c \in Calls |-> "new"]
  /\ aborted = {}
  /\ firing = {}
  /\ ticket = [c \in Calls |-> 0]
  /\ clock = 1

\* signal?.aborted, and a worker that never looks at it.
Mut_Aborted(c) == FALSE
Aborted(c) == SignalOf[c] \in aborted

-----------------------------------------------------------------------------
(***************************************************************************)
(* drainProxy up to its next await: entries whose signal has fired are     *)
(* rejected, the first other one is dispatched, and when none is left the  *)
(* loop ends and drops the flag.  p is the promise table at that moment.   *)
(***************************************************************************)
Dispatchable(q) == {i \in DOMAIN q : ~Aborted(q[i])}
First(S) == CHOOSE i \in S : \A j \in S : i <= j

Drain(q, p) ==
  LET skip(n) == {q[i] : i \in 1..n}
      settle(n) == [c \in Calls |-> IF c \in skip(n) THEN "aborted" ELSE p[c]]
  IN IF Dispatchable(q) = {}
     THEN /\ proxyQueue' = <<>>
          /\ proxyInFlight' = None
          /\ proxyDraining' = FALSE
          /\ promise' = settle(Len(q))
     ELSE LET i == First(Dispatchable(q))
          IN /\ proxyQueue' = SubSeq(q, i + 1, Len(q))
             /\ proxyInFlight' = q[i]
             /\ proxyDraining' = TRUE
             /\ promise' = [settle(i - 1) EXCEPT ![q[i]] = "running"]

\* The queue with a new entry, and the same at the wrong end.
Mut_Push(c) == <<c>> \o proxyQueue
Push(c) == Append(proxyQueue, c)

\* The entry joins the queue and drainProxy is called: it returns at once
\* when a loop is active.  Without the test of the flag a second loop starts.
Mut_Enter(c, p) == Drain(Push(c), p)

Enter(c, p) ==
  IF proxyDraining
  THEN /\ proxyQueue' = Push(c)
       /\ promise' = p
       /\ UNCHANGED <<proxyInFlight, proxyDraining>>
  ELSE Drain(Push(c), p)

\* A call whose signal has fired already is refused, before anything is
\* counted.
Reject(c) == /\ promise' = [promise EXCEPT ![c] = "aborted"]
             /\ UNCHANGED <<proxyVars, nativeInFlight, ticket, clock>>

submitProxy(c) ==
  /\ firing = {}
  /\ c \in ProxyCalls /\ promise[c] = "new"
  /\ \/ Aborted(c) /\ Reject(c)
     \/ /\ ~Aborted(c)
        /\ Enter(c, [promise EXCEPT ![c] = "queued"])
        /\ ticket' = [ticket EXCEPT ![c] = clock]
        /\ clock' = clock + 1
        /\ UNCHANGED nativeInFlight
  /\ UNCHANGED <<aborted, firing>>

submitNative(c) ==
  /\ firing = {}
  /\ c \in Calls \ ProxyCalls /\ promise[c] = "new"
  /\ \/ Aborted(c) /\ Reject(c)
     \/ /\ ~Aborted(c)
        /\ nativeInFlight' = nativeInFlight + 1
        /\ promise' = [promise EXCEPT ![c] = "running"]
        /\ UNCHANGED <<proxyVars, ticket, clock>>
  /\ UNCHANGED <<aborted, firing>>

-----------------------------------------------------------------------------
\* The task of the in-flight entry settles; the loop settles the caller's
\* promise with it and goes on with the next entry.
ProxySettles(out) ==
  /\ firing = {}
  /\ proxyInFlight # None
  /\ Drain(proxyQueue, [promise EXCEPT ![proxyInFlight] = out])
  /\ UNCHANGED <<nativeInFlight, aborted, firing, ticket, clock>>

\* The `finally` of submitNative runs on either outcome.
NativeSettles(c, out) ==
  /\ firing = {}
  /\ c \in Calls \ ProxyCalls /\ promise[c] = "running"
  /\ nativeInFlight' = nativeInFlight - 1
  /\ promise' = [promise EXCEPT ![c] = out]
  /\ UNCHANGED <<proxyVars, aborted, firing, ticket, clock>>

-----------------------------------------------------------------------------
\* Entries that still have their abort listener: the drain loop removes it
\* when it takes the entry.  The mutant empties the queue for any signal.
Mut_Listening(s) == {c \in ProxyCalls : promise[c] = "queued"}
Listening(s) == {c \in ProxyCalls : SignalOf[c] = s /\ promise[c] = "queued"}

Abort(s) ==
  /\ firing = {}
  /\ s \in Signals \ aborted
  /\ aborted' = aborted \cup {s}
  /\ firing' = Listening(s)
  /\ UNCHANGED <<proxyVars, nativeInFlight, promise, ticket, clock>>

\* splice(indexOf(entry), 1), and the same one place off.
Mut_Splice(q, i) == SubSeq(q, 1, i) \o SubSeq(q, i + 2, Len(q))
Splice(q, i) == SubSeq(q, 1, i - 1) \o SubSeq(q, i + 1, Len(q))

\* The listener of a waiting entry always finds it: NotStranded.
OnAbort(c) ==
  /\ c \in firing
  /\ firing' = firing \ {c}
  /\ \E i \in DOMAIN proxyQueue : /\ proxyQueue[i] = c
                                  /\ proxyQueue' = Splice(proxyQueue, i)
  /\ promise' = [promise EXCEPT ![c] = "aborted"]
  /\ UNCHANGED <<proxyInFlight, proxyDraining, nativeInFlight, aborted, ticket, clock>>

-----------------------------------------------------------------------------
InQueue(c) == \E i \in DOMAIN proxyQueue : proxyQueue[i] = c

\* The proxy lane never has two requests open, and the entry it believes to
\* be in flight is the one whose request is open: FortiManager drops
\* parallel proxy connections.
OneAtATime == \A c \in ProxyCalls : promise[c] = "running" <=> proxyInFlight = c

\* No call overtakes another: a request that was ever sent had entered the
\* queue before every call that is still waiting.  Removing an aborted entry
\* from the middle of the queue must not disturb this.
Sent(c) == promise[c] \in {"running", "resolved", "failed"}
Fifo == \A c, d \in ProxyCalls :
          Sent(c) /\ promise[d] = "queued" => ticket[c] < ticket[d]

\* No caller is forgotten: an unsettled call of the proxy lane is in the queue
\* or in flight, and a waiting call has a drain loop that will come to it.
NotStranded == \A c \in ProxyCalls :
  promise[c] = "queued" => InQueue(c) /\ proxyDraining

\* A call whose signal has fired is never sent afterwards, whether it was
\* waiting when the signal fired or was submitted later: an aborted discovery
\* run opens no further request.
AbortedNotSent == [][\A c \in Calls : SignalOf[c] \in aborted /\ promise[c] # "running"
                                         => promise'[c] # "running"]_vars

-----------------------------------------------------------------------------
(* The inductive invariant of the worker.                                  *)

\* A loop is active exactly while it awaits an entry, and only then do others
\* wait.
LoopState == /\ proxyDraining <=> proxyInFlight # None
             /\ ~proxyDraining => proxyQueue = <<>>

\* The entries of the queue are the waiting calls, in the order of arrival.
QueueState ==
  /\ \A c \in ProxyCalls : promise[c] = "queued" <=> InQueue(c)
  /\ \A i, j \in DOMAIN proxyQueue : i < j => ticket[proxyQueue[i]] < ticket[proxyQueue[j]]
  /\ \A c \in Calls : ticket[c] < clock

\* Only the calls of an aborted signal are rejected, and only their listeners
\* are still to run.
OnlyAborted == /\ \A c \in Calls : promise[c] = "aborted" => Aborted(c)
               /\ \A c \in firing : promise[c] = "queued" /\ Aborted(c)

LaneInv == /\ TypeOK /\ LoopState /\ QueueState
           /\ OneAtATime /\ Fifo /\ OnlyAborted
=============================================================================
