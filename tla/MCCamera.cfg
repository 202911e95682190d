SPECIFICATION Spec
CONSTANTS
  h1 = h1
  h2 = h2
  Nobody = Nobody
  b1 = b1
  b2 = b2
SYMMETRY Symmetric
CHECK_DEADLOCK FALSE
INVARIANTS
  CacheMatchesCamera
  HandlesCounted
  HeldWhileUsed
  DriverHoldsItsBuffers
  DoneIsOneFrame
