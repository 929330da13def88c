\* A name with two addresses, the first of which does not answer.
SPECIFICATION Spec
CONSTANTS
  Methods = {"NOAUTH"}
  Allowed = {"CONN"}
  AllowDomains = TRUE
  BindFamilies = {"IPV4"}
  UdpaFamilies = {}
  Offers <- OneOffer
  Requests <- ConnectDomain
  Answers <- TwoAddresses
  Errnos = {101}
  Faults = {}
  Pipelined = FALSE
  Cap = 4
  ReadMax = 2
  MaxClient = 5
  MaxServer = 0
INVARIANT GrantedIsConnected
CHECK_DEADLOCK FALSE
