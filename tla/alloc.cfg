CONSTANTS
  W = 4
  NoCidr = none
  Block <- LowHalf
  Requested <- SomeCidrs
  Lengths = {2, 3, 4}
  Templates <- Fitting
  Anchors = {3}
  PageSize = 2
  Requests = {w1}
  Mixes <- Loads
  MaxSubnets = 4
  MaxClaims = 3
SPECIFICATION Spec
CHECK_DEADLOCK FALSE
INVARIANTS NoOverlap RoomFound Contained  
 
