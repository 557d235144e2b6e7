SPECIFICATION Spec
CONSTANTS
  Servers = {s1, s2}
  Idents = {a, b}
  Revs = {1}
  Clients = {c1, c2}
  None = None
  MaxApplies = 2
  MaxRequests = 2
  MaxCalls = 2
INVARIANTS
  TypeOK ApplyConfigIsSafe SeriesFollowServers TimerSurvives
PROPERTIES WorkersFollowConfig AtMostOneLateTick
SYMMETRY Symmetry
