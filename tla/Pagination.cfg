SPECIFICATION Spec
CONSTANTS
  Names = {1, 2, 3}
  Mtimes = {1, 2}
  IdOf <- MCIdOf
  JsonLen <- MCJsonLen
  Limits <- MCLimits
  StrayTokens <- MCStray
  page_max_nitems = 2
  page_default_nitems = 1
  MAX_TOKEN_LENGTH = 512
  MaxChanges = 2
INVARIANTS ScanComplete TokensSound
PROPERTIES ScanProgress
CHECK_DEADLOCK FALSE
