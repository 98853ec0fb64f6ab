SPECIFICATION MCSpec
CONSTANTS
  Schemas <- MCSchemas
  Defs <- MCDefs
  Values <- MCValues
  Endpoints <- MCEndpoints
  MaxEndpoints = 4
  TagConfig <- MCTagConfig
  Numbered <- MCNumbered
INVARIANTS ParametersSound ConversionSound DocumentWhole
PROPERTIES SchemasEnd
CHECK_DEADLOCK FALSE
