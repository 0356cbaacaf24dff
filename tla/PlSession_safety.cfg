CONSTANTS
  t1 = t1
  t2 = t2
  c1 = c1
  Threads <- MCThreads
  Conns <- MCConns
  METHOD_MAX_RECURSION_DEPTH <- MCMaxDepth
  MaxFrames <- MCMaxFrames
  ExternalReasons <- MCExternalReasons
SPECIFICATION Spec
SYMMETRY ThreadSymmetry
INVARIANT TypeOK
INVARIANT StackMatchesRegistry
INVARIANT EndedCallIsPopped
PROPERTY PopDestroysNewest
PROPERTY CallStackRefined
