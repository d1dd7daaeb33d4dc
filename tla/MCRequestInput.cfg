SPECIFICATION Spec
CONSTANTS
  PhpExt <- MCPhpExt
  IndexFile <- MCIndexFile
  CommonNames <- MCCommonNames
  Alphabet <- MCAlphabet
  MaxText <- MCMaxText
  Roots <- MCRoots
  SplitLists <- MCSplitLists
  GO_IS_PRINT_16 <- MCPrint16
  GO_IS_NOT_PRINT_16 <- MCNotPrint16
  GO_IS_PRINT_32 <- MCPrint32
  GO_IS_NOT_PRINT_32 <- MCNotPrint32
  Targets <- MCTargets
  Fields <- MCFields
  MaxFields = 3
  MaxBody = 3
  MaxRead = 2
  DocumentRoot <- MCDocumentRoot
  RemoteAddr <- MCRemoteAddr
  CONTENT_LENGTH <- MCContentLength
  CONTENT_TYPE <- MCContentType
  AUTHORIZATION <- MCAuthorization
  COOKIE <- MCCookie
  HOST <- MCHost
  MaxI64 = 10
INVARIANTS InputTypeOK PathsFindTheirScript NamesAndAddressesAgree
  LoggedTextIsReversible RequestReachesPhp BodyIsWhole
CHECK_DEADLOCK FALSE
