SPECIFICATION OperationsSpec
CONSTANTS
  Users = {u1, u2}
  Slots = {s1, s2}
  MaxInode = 2
  None = None
  Foreign = Foreign
  Fingers = {"f1", "f2"}
  Paired = {"f1"}
  Ids = {i1, i2}
CHECK_DEADLOCK FALSE
INVARIANTS
  GrantIsDurable
  StateIsOwned
  MatchedTruth
  AnswerIsBacked
