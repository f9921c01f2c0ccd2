---------------------------- MODULE MCQuarantine ----------------------------
(* Instances of Quarantine for TLC. *)
EXTENDS Quarantine, TLC

\* The quarantine endpoints with faults and edits at the devices; the endpoints
\* beside everything else that happens to an asset and its sightings.
Loads == {{"quarantine", "release", "verify", "put", "delete", "unmac", "lose", "ignore",
           "admin"},
          {"quarantine", "release", "verify", "token", "sync", "decommission", "age",
           "toggle", "lose", "ignore"}}

\* A quarantined asset goes on being discovered.
Rediscovery == {{"quarantine", "sync"}}

Symmetry == Permutations(Fgts) \cup Permutations(Macs)
=============================================================================
