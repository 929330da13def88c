\* A client that does not wait for the reply.
SPECIFICATION Spec
CONSTANTS
  Methods = {"NOAUTH"}
  Allowed = {"CONN"}
  AllowDomains = FALSE
  BindFamilies = {"IPV4"}
  UdpaFamilies = {}
  Offers <- OneOffer
  Requests <- ConnectLiteral
  Answers = {}
  Errnos = {101}
  Faults = {}
  Pipelined = TRUE
  Cap = 4
  ReadMax = 2
  MaxClient = 5
  MaxServer = 0
INVARIANT UpstreamExact
CHECK_DEADLOCK FALSE
