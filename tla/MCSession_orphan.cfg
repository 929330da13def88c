\* A bind that a host other than the named one connects to.
SPECIFICATION Spec
CONSTANTS
  Methods = {"NOAUTH"}
  Allowed = {"BIND"}
  AllowDomains = FALSE
  BindFamilies = {"IPV4"}
  UdpaFamilies = {}
  Offers <- OneOffer
  Requests <- BindLiteral
  Answers = {}
  Errnos = {101}
  Faults = {}
  Pipelined = FALSE
  Cap = 4
  ReadMax = 2
  MaxClient = 4
  MaxServer = 0
INVARIANT NoOrphans
CHECK_DEADLOCK FALSE
