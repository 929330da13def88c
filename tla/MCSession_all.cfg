\* Every command, by address and by name, every failing call, a client that
\* sends whenever it likes, and two ends that send more than the buffers hold.
SPECIFICATION Spec
CONSTANTS
  Methods = {"NOAUTH", "USERPW"}
  Allowed = {"CONN", "BIND", "UDPA"}
  AllowDomains = TRUE
  BindFamilies = {"IPV4"}
  UdpaFamilies = {"IPV4"}
  Offers <- AllOffers
  Requests <- AllRequests
  Answers <- TwoAddresses
  Errnos = {101}
  Faults = {"accept", "malloc", "socket", "connect", "bind", "getsockname", "epoll_add", "bind_accept"}
  Pipelined = TRUE
  Cap = 4
  ReadMax = 2
  MaxClient = 9
  MaxServer = 5
INVARIANT TypeOK
INVARIANT PendingEventsLive
INVARIANT InfoLive
INVARIANT RearmsRegistered
INVARIANT WakeupArmed
INVARIANT RelayAfterReply
INVARIANT OrphansBounded
INVARIANT BlockedNeverReached
PROPERTY DownstreamKept
PROPERTY UpstreamKept
PROPERTY GrantIsFinal
PROPERTY ImplementsLifecycle
CHECK_DEADLOCK FALSE
