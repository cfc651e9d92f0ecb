SPECIFICATION Spec
CONSTANTS
  Files <- MCFiles
  Fields <- MCOneField
  Contents <- MCOneContent
  MaxDrafts = 2
  MaxRevision = 3
  MaxDraftRevision = 3
  Faults = {"worker_crash", "submit_crash", "slow_read"}
INVARIANTS
  DocumentInPlace
  OneSubmissionPerRevision
  OneQuotePerFile
PROPERTIES
  ImplementsRegister
CHECK_DEADLOCK FALSE
