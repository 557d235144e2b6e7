SPECIFICATION FairPluginSpec
CONSTANTS
    None = None
    d1 = d1  d2 = d2  d3 = d3  s1 = s1
    Dashboards = {d1, d2, d3}
    Legacy = {d1}
    Servers = {s1}
    ServerOf <- DashboardServer
    Flows = {"f1", "f2"}
    MaxClicks = 2
    MaxMoves = 1
    MaxCollections = 1
    Document <- HomeItems
    Grid = {"g1", "g2"}
    MaxRenders = 3
INVARIANTS
    PluginTypeOK PresentationFollowsPage
PROPERTIES
    OneCollectionPerCooldown AutomaticRefresh FlowsEnd
CHECK_DEADLOCK FALSE
