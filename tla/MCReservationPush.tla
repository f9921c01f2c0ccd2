-------------------------- MODULE MCReservationPush --------------------------
(* Instances of ReservationPush for TLC. *)
EXTENDS ReservationPush, TLC

CONSTANTS w1, w2

\* One request at a time beside a gate that flaps; two overlapping requests
\* with an administrator at the device and restarts.
Loads == {[does |-> {"create", "update", "release", "expire", "hook", "now", "refresh",
                     "gate", "refuse"}, slots |-> {w1}],
          [does |-> {"create", "update", "release", "admin", "crash"},
           slots |-> {w1, w2}]}

\* One request beside the retry tick, calls lost, the gate and the push flag
\* changing.
Retries == {[does |-> {"create", "release", "expire", "tick", "toggle", "gate", "lose"},
             slots |-> {w1}]}

Symmetry == Permutations(Rows) \cup Permutations(Macs) \cup Permutations(Ips)
=============================================================================
