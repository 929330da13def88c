\* One connection more than max-connections.
SPECIFICATION Spec
CONSTANTS
  Listener = {l1}
  Client = {c1, c2}
  max_conns = 1
  AllowDomains = FALSE
  MaxBacklog = 1
  Faults = {}
INVARIANT MaxConnections
CHECK_DEADLOCK FALSE
