SPECIFICATION Spec
CONSTANTS
  Endpoints <- MCNumberedErrors
  MaxEndpoints = 4
  TagConfig <- MCTagConfig
  Numbered <- MCNumbered
INVARIANTS ErrorNamesUnique
CHECK_DEADLOCK FALSE
