CONSTANTS
  Assets = {1, 2, 3, 4}
  Agents = {4}
  Thresholds = {1, 2}
  MaxResults = 4
  Firewalls = {1}
  Integrations = {"A", "B"}
  DiscoveredBy <- By
  Wirings <- Plans
  Overrides <- Requests
  Hooks = {"h1"}
  Mixes <- Loads
SPECIFICATION FairSpec
CHECK_DEADLOCK FALSE
PROPERTIES Confirmed SuppressionSettles 
