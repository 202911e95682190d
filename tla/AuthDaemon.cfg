\* A direct and a standard connection sharing the one worker.
SPECIFICATION Spec
CONSTANTS
  Direct = {d1}
  Standard = {s1}
  MaxToken = 2
  Kinds = {"Authenticate", "Enroll"}
  MaxProgress = 1
  Reports = {"Matched", "Enrolled"}
INVARIANTS
  HonestReplies
PROPERTY
  DaemonUsesAuthority
