--------------------------- MODULE MCDiscoveryRuns ---------------------------
(* Each run has a roster call and a device call of its own, and carries    *)
(* its own signal; the push carries none.                                  *)
EXTENDS DiscoveryRuns

MCRosterOf == [r \in Runs |-> <<r, "roster">>]
MCDeviceOf == [r \in Runs |-> <<r, "device">>]
MCCalls == (Runs \X {"roster", "device"}) \cup {PushCall}
MCProxyCalls == (Runs \X {"device"}) \cup {PushCall}
MCSignalOf == [c \in MCCalls |-> IF c = PushCall THEN NoSignal ELSE c[1]]
=============================================================================
