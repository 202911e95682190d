SPECIFICATION Spec
CHECK_DEADLOCK FALSE
INVARIANTS
  InstalledIsDurable
  GenerationWhole
  NothingLost
