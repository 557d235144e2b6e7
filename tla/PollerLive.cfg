SPECIFICATION FairSpec
CONSTANTS
  Servers = {s1}
  Idents = {a, b}
  Revs = {1}
  Clients = {c1}
  None = None
  MaxApplies = 2
  MaxRequests = 2
  MaxCalls = 3
PROPERTIES ApplyReturns ConfigReachesWorker ManualRequestsAreServed AutoKeepsCollecting
