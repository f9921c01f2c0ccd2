----------------------------- MODULE MCDnsMarkers -----------------------------
EXTENDS DnsMarkers

CONSTANTS i1, i2

\* Operators and discovery race at one address; an asset moves between two,
\* is retired and deleted.
Loads == {[ops |-> {"create", "expiring", "release", "discover"}, ips |-> {i1}],
          [ops |-> {"retire", "clear", "delete"}, ips |-> {i1, i2}]}

=============================================================================
