\* Connect to a name: the request is one unit longer than the code asks for.
SPECIFICATION Spec
CONSTANTS
  Methods = {"NOAUTH"}
  Allowed = {"CONN"}
  AllowDomains = TRUE
  BindFamilies = {"IPV4"}
  UdpaFamilies = {}
  Offers <- OneOffer
  Requests <- ConnectDomain
  Answers <- OneAddress
  Errnos = {101}
  Faults = {}
  Pipelined = FALSE
  Cap = 4
  ReadMax = 2
  MaxClient = 6
  MaxServer = 1
INVARIANT UpstreamExact
CHECK_DEADLOCK FALSE
