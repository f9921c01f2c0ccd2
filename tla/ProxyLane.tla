------------------------------ MODULE ProxyLane ------------------------------
(***************************************************************************)
(* What the proxy lane of a FortiManager worker promises to its callers,   *)
(* with nothing of how src/services/fmgWorker.ts does it: one line of      *)
(* calls, of which the first is being served, always; callers join at the  *)
(* end, and those behind the first may give up, which they do as soon as   *)
(* their signal fires and before anything else happens in the lane.        *)
(*                                                                         *)
(* DiscoveryRuns shows that the worker implements this specification.      *)
(***************************************************************************)
EXTENDS Naturals, Sequences

CONSTANTS Calls,     \* the calls that may be made
          Signals,   \* the abort signals
          SignalOf   \* the signal each call carries

VARIABLES line,      \* the calls that were taken and have no answer yet
          fate,      \* what became of each call
          gone       \* the signals that have fired

laneVars == <<line, fate, gone>>

Init == /\ line = <<>>
        /\ fate = [c \in Calls |-> "new"]
        /\ gone = {}

Becomes(c, f) == fate' = [fate EXCEPT ![c] = f]

\* The places behind the first whose signal has fired.
Leaving == {i \in 2..Len(line) : SignalOf[line[i]] \in gone}

\* A call takes the last place.
Join(c) == /\ fate[c] = "new" /\ SignalOf[c] \notin gone /\ Leaving = {}
           /\ line' = Append(line, c)
           /\ Becomes(c, "taken")
           /\ UNCHANGED gone

\* A call whose signal has fired is turned away.
TurnAway(c) == /\ fate[c] = "new" /\ SignalOf[c] \in gone
               /\ Becomes(c, "aborted")
               /\ UNCHANGED <<line, gone>>

\* The first call is answered, and the lane turns to the next at once.
Answer(out) == /\ line # <<>> /\ Leaving = {}
               /\ line' = Tail(line)
               /\ Becomes(Head(line), out)
               /\ UNCHANGED gone

Fire(s) == /\ s \notin gone /\ Leaving = {}
           /\ gone' = gone \cup {s}
           /\ UNCHANGED <<line, fate>>

\* The others keep their order.
GiveUp(i) == /\ i \in Leaving
             /\ line' = SubSeq(line, 1, i - 1) \o SubSeq(line, i + 1, Len(line))
             /\ Becomes(line[i], "aborted")
             /\ UNCHANGED gone

Next == \/ \E c \in Calls : Join(c) \/ TurnAway(c)
        \/ \E out \in {"resolved", "failed"} : Answer(out)
        \/ \E s \in Signals : Fire(s)
        \/ \E i \in Leaving : GiveUp(i)

Spec == Init /\ [][Next]_laneVars
=============================================================================
