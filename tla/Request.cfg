SPECIFICATION RequestSpec
CONSTANTS
  Requests <- MCRequests
  Starts <- MCStarts
  MaxSends = 3
  default_request_body_max_bytes = 2
  Overrides <- MCOverrides
  SharedLists <- MCSharedLists
  FrameSizes = {1, 2}
  MaxFrames <- MCMaxFrames
  Defects = {"path variable", "query string", "header field"}
  ContentTypes = {"none", "invalid", "Json", "UrlEncoded", "multipart", "other"}
  Payloads = {"Json", "UrlEncoded", "garbage"}
  MIN_COMPRESS_SIZE = 512
  Clients = {"c1", "c2"}
  Accepts <- MCAccepts
  Methods = {"GET", "HEAD"}
  compression = "Gzip"
  Returned <- MCReturned
INVARIANTS BodyCapped ArgumentsChecked UpgradeSound CompressionSound AnswersTruthful
PROPERTIES AnsweredOnceSent TaskDoesNotHang
CHECK_DEADLOCK FALSE
