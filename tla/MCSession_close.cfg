\* A client that leaves while its server stays silent.
SPECIFICATION FairSpec
CONSTANTS
  Methods = {"NOAUTH"}
  Allowed = {"CONN"}
  AllowDomains = FALSE
  BindFamilies = {"IPV4"}
  UdpaFamilies = {}
  Offers <- OneOffer
  Requests <- ConnectLiteral
  Answers = {}
  Errnos = {101}
  Faults = {}
  Pipelined = FALSE
  Cap = 4
  ReadMax = 2
  MaxClient = 4
  MaxServer = 0
PROPERTY ClosedReleases
CHECK_DEADLOCK FALSE
