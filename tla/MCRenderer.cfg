SPECIFICATION Spec
INVARIANTS
  AnswersMatch
  CleanMeansCurrent
PROPERTIES
  DarkIsInert
