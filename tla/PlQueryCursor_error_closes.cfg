CONSTANTS
  t1 = t1
  t2 = t2
  Threads <- MCThreads
  NumRows <- MCNumRows
  FetchCountArgs <- MCFetchCountArgs
SPECIFICATION Spec
SYMMETRY ThreadSymmetry
PROPERTY ErrorOrEndCloses
