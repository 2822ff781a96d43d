SPECIFICATION FairSpec
CONSTANTS
  None = None
  Servers = {s1}
  Clients = {c1, c2}
  Keys = {1, 2, 3, 4, 5, 6}
  Priority <- MCPriority
  UnmatchedPings = 1
  Backlog = 2
  MaxRetry = 2
  MaxRequests = 2
  MaxFaults = 2
INVARIANTS
  TypeOK
  WorkConserving
  PendingIsFree
  OneHolder
PROPERTIES
  DeviceComesBack
  NoStarvation
  
