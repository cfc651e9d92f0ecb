SPECIFICATION Spec
CONSTANTS
  Files <- MCOneFile
  Fields <- MCFields
  Contents <- MCContents
  MaxDrafts = 2
  MaxRevision = 4
  MaxDraftRevision = 3
  Faults = {"lost_commit"}
INVARIANTS
  SubmittedWasConfirmed
CHECK_DEADLOCK FALSE
