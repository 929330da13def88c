\* A server that sends and closes before the client has read.
SPECIFICATION Spec
CONSTANTS
  Methods = {"NOAUTH"}
  Allowed = {"CONN"}
  AllowDomains = FALSE
  BindFamilies = {"IPV4"}
  UdpaFamilies = {}
  Offers <- OneOffer
  Requests <- ConnectLiteral
  Answers = {}
  Errnos = {101}
  Faults = {}
  Pipelined = FALSE
  Cap = 4
  ReadMax = 2
  MaxClient = 4
  MaxServer = 1
INVARIANT FlushedBeforeClose
CHECK_DEADLOCK FALSE
