\* Two tokens and every kind of operation: a stale handle, the current one and
\* the exhausted counter all occur.
SPECIFICATION AuthoritySpec
CONSTANTS
  MaxToken = 2
  Kinds = {"Authenticate", "Enrollment", "Enroll", "Verify", "Identify", "DeleteIdentity", "ListIdentities"}
CHECK_DEADLOCK FALSE
INVARIANTS
  CancelledNeverSucceeds
PROPERTIES
  AnswersAreFinal
  ImplementsOperations
