---------------------------- MODULE MCSampleTiers ----------------------------
EXTENDS SampleTiers

Days3(detailDays, hourlyDays, dailyDays) ==
  [tier \in Tiers |-> CASE tier = "detail" -> detailDays
                        [] tier = "hourly" -> hourlyDays
                        [] OTHER -> dailyDays]
Same(n) == [c \in Classes |-> n]
SwitchKeeps(n, m) == [c \in Classes |-> IF c = "switch" THEN n ELSE m]

\* The same days for all; switches kept longer; switches kept for ever.
Settings == {Days3(Same(1), Same(2), Same(0)),
             Days3(SwitchKeeps(2, 1), SwitchKeeps(2, 1), Same(3)),
             Days3(SwitchKeeps(0, 1), SwitchKeeps(0, 1), SwitchKeeps(0, 1))}

\* A Fortinet switch, another switch, a server.
Kinds == {[type |-> "switch", fortinet |-> TRUE], [type |-> "switch", fortinet |-> FALSE],
          [type |-> "server", fortinet |-> FALSE]}

=============================================================================
