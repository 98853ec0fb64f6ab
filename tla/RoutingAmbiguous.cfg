SPECIFICATION Spec
CONSTANTS
  NoVersion = NoVersion
  Garbage = Garbage
  BadEncoding = BadEncoding
  NoEndpoint = NoEndpoint
  NoPolicy = NoPolicy
  NoRequest = NoRequest
  Decode <- MCDecode
  TagConfig <- MCTagConfig
  ApiVersions = {1, 2, 3}
  Endpoints <- MCEndpoints
  Policies <- MCPolicies
  Methods = {"GET", "PUT"}
  RawPaths <- MCRawPaths
  Headers <- MCHeaders
INVARIANT NeverAmbiguous
CONSTRAINT OneSuite
CHECK_DEADLOCK FALSE
