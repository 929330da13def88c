\* Connect and bind to a literal address under the fairness of the event loop,
\* a client that waits its turn and may leave at any time.
SPECIFICATION FairSpec
CONSTANTS
  Methods = {"NOAUTH"}
  Allowed = {"CONN", "BIND"}
  AllowDomains = FALSE
  BindFamilies = {"IPV4"}
  UdpaFamilies = {}
  Offers <- OneOffer
  Requests <- LiveRequests
  Answers = {}
  Errnos = {101}
  Faults = {}
  Pipelined = FALSE
  Cap = 4
  ReadMax = 2
  MaxClient = 5
  MaxServer = 2
INVARIANT GrantedIsConnected
PROPERTY RequestAnswered
PROPERTY RefusalEnds
PROPERTY FailedConnectReleased
PROPERTY StreamMoves
PROPERTY HalfCloseEnds
CHECK_DEADLOCK FALSE
