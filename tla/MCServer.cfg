\* Two listeners, two clients, the resolver, and room for two events a turn;
\* every call may fail.
SPECIFICATION FairSpec
CONSTANTS
  Listener = {l1, l2}
  Client = {c1, c2}
  max_conns = 2
  AllowDomains = TRUE
  MaxBacklog = 2
  Faults <- AllFaults
INVARIANT StartedWhole
INVARIANT NoLostWakeup
PROPERTY EachServed
PROPERTY ListensOrEnds
CHECK_DEADLOCK FALSE
