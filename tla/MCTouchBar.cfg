SPECIFICATION Spec
CONSTANTS
  r1 = r1
  r2 = r2
  s1 = s1
  s2 = s2
  None = None
INVARIANTS
  NoForeignPixels
  KeyNeverStuck
  SessionFollowsConnection
SYMMETRY Symmetry
