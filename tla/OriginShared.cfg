SPECIFICATION Spec
CONSTANTS
  Worker = {w1, w2}
  Spacing = 2
  MaxDelay = 3
  MaxTime = 6
  MaxTurns = 3
  MaxCrashes = 1
  MaxFaults = 2
INVARIANTS
  TypeOK
  FenceExclusive
  
  
PROPERTIES
  SpacedRequests
  PermitNeverMovesBack
  CooldownHonored
  NoRequestWhileStopped
SYMMETRY OriginSymmetry
