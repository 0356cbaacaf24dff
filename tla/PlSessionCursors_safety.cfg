CONSTANTS
  t1 = t1
  t2 = t2
  Threads <- MCThreads
  QueryIds <- MCQueryIds
  SHRT_MAX <- MCShrtMax
  MaxCursors <- MCMaxCursors
SPECIFICATION Spec
SYMMETRY ThreadSymmetry
INVARIANT TypeOK
INVARIANT RegistryMatchesCursors
PROPERTY CursorTableRefined
CHECK_DEADLOCK FALSE
