SPECIFICATION Spec
CONSTANTS
  Servers = {s1}
  Idents = {a}
  Revs = {1}
  Clients = {c1}
  None = None
  MaxApplies = 0
  MaxRequests = 3
  MaxCalls = 3
PROPERTIES SwitchStopsTimer
