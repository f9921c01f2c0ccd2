-------------------------- MODULE MCDependencyTree --------------------------
EXTENDS DependencyTree

\* The firewall 1 and three switches: a cabled chain; a pair of switches
\* cabled to the firewall and to each other, with 4 below both; nothing but
\* the controller, with 2, 3, 4 in a line.
By == [a \in 1..4 |-> IF a < 3 THEN "A" ELSE "B"]
AllControlled == {<<a, 1>> : a \in 2..4}
Chain == [cables |-> {{1, 2}, {2, 3}, {3, 4}}, controllers |-> AllControlled]
Pair == [cables |-> {{1, 2}, {1, 3}, {2, 3}, {2, 4}, {3, 4}}, controllers |-> AllControlled]
Line == [cables |-> {{2, 3}, {3, 4}}, controllers |-> AllControlled]
Plans == {Chain, Pair, Line}

\* 4 below the firewall; 2 below 3, against the layers of the chain.
Requests == {<<4, {1}>>, <<2, {3}>>}
Loads == {[ops |-> {"pass", "request", "monitor"}, budget |-> 1, subjects |-> {2},
           results |-> 3, thresholds |-> {2}, wirings |-> {Chain}],
          [ops |-> {"pass", "request"}, budget |-> 0, subjects |-> {4},
           results |-> 2, thresholds |-> {2}, wirings |-> {Chain}],
          [ops |-> {"pass", "fail"}, budget |-> 1, subjects |-> {2, 3},
           results |-> 4, thresholds |-> {1}, wirings |-> {Pair}],
          [ops |-> {"pass", "test"}, budget |-> 2, subjects |-> {2},
           results |-> 1, thresholds |-> {1}, wirings |-> {Chain}],
          [ops |-> {"pass", "monitor"}, budget |-> 1, subjects |-> {1, 2},
           results |-> 2, thresholds |-> {1}, wirings |-> {Chain}],
          [ops |-> {"pass", "override", "rewire"}, budget |-> 2, subjects |-> {1},
           results |-> 1, thresholds |-> {1}, wirings |-> {Chain, Line}]}
=============================================================================
