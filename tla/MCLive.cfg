SPECIFICATION LiveSpec
CONSTANTS
  Direct = {}
  Standard = {s1}
  MaxToken = 1
  Kinds = {"Enroll"}
  MaxProgress = 1
  Reports = {"Enrolled"}
  broker = broker
  other = other
  r1 = r1
  r2 = r2
  e1 = e1
  e2 = e2
  nobody = nobody
  Names = {a, b}
CHECK_DEADLOCK FALSE
PROPERTIES
  EveryOperationEnds
  ServedAgain
