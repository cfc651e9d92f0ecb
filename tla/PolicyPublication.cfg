SPECIFICATION Spec
CONSTANTS
  Clients = {c1, c2}
  Files <- MCFiles
  Versions <- MCVersions
  Contents <- MCContents
  MaxRevision = 3
SYMMETRY ClientSymmetry
INVARIANTS
  PublishedFileIsIndexed
  BoundIsRetrievable

  
CHECK_DEADLOCK FALSE
