SPECIFICATION FairSpec
CONSTANTS
    None = None
    d1 = d1  d2 = d2  s1 = s1  s2 = s2
    Dashboards = {d1, d2}
    Servers = {s1, s2}
    ServerOf <- DashboardServer
    Retries = 1
    Loads = {"l1", "l2"}
    MaxSwitches = 1
    Tasks = {"t1", "t2"}
    Earlier = {"t1"}
    Slow = {"t1"}
    MaxCalls = 1
    MaxReplies = 2
    Repos = {"r1", "r2"}
    TurnLimit = 3
    MaxQuestions = 3
    MaxReloads = 1
INVARIANTS
    TypeOK ConversationIsCoherent
PROPERTIES
    OverviewFollowsDashboard PageFollowsTask PagesUnlock
CHECK_DEADLOCK FALSE
