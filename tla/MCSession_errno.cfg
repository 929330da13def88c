\* A connection that times out, is refused, or finds no route to the host.
SPECIFICATION Spec
CONSTANTS
  Methods = {"NOAUTH"}
  Allowed = {"CONN"}
  AllowDomains = FALSE
  BindFamilies = {"IPV4"}
  UdpaFamilies = {}
  Offers <- OneOffer
  Requests <- ConnectLiteral
  Answers = {}
  Errnos = {110, 111, 113}
  Faults = {}
  Pipelined = FALSE
  Cap = 4
  ReadMax = 2
  MaxClient = 4
  MaxServer = 0
INVARIANT ProperErrorCode
CHECK_DEADLOCK FALSE
