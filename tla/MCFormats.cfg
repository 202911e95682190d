SPECIFICATION Spec
CHECK_DEADLOCK FALSE
INVARIANTS
  StreamIsWhatWasDescribed
  CommitIsReported
  ChoiceIsNearest
  AcceptedIsSaid
