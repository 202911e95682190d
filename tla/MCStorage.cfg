SPECIFICATION StorageSpec
CONSTANTS
  MaxGeneration = 4
  Operations = {"enroll", "label", "delete"}
  Conns = {1, 2}
  MaxVersion = 3
  Secrets = {s1, s2, s3, s4}
  Nil = Nil
INVARIANTS
  StoreIsKept
  ToolsKeepStore
  AcknowledgedSaveSurvives
  StoredPairOpens
PROPERTIES
  ImplementsRegister
