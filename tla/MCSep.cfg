SPECIFICATION SepSpec
CONSTANTS
  Kinds = {"authentication", "enrollment", "relay"}
  Notifications = 2
  SkipLimit = 2
  broker = broker
  other = other
  Names = {a, b}
CHECK_DEADLOCK FALSE
INVARIANTS
  ReplyAnswersRequest
  BuffersOutliveUrbs
  SepOwnedOnce
  SepExcluded
  NoStrandedListener
PROPERTY
  HonestEnd
