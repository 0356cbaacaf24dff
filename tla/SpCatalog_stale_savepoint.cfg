CONSTANTS
  UserProcs <- MCUserProcs
  UserArgs <- MCUserArgs
  CodeIds <- MCCodeIds
  MaxCalls <- MCMaxCalls
  BuiltinOrder <- MCBuiltinOrder
  Alphabet <- MCAlphabet
  MaxLen <- MCMaxLen
SPECIFICATION Spec
INVARIANT FailedAddKeepsCatalog
