CONSTANTS
    Requests = {r1, r2}
    None = None
    FreshArgs = FALSE
    MaxEdits = 2
    MaxAlters = 1
    MaxRequests = 4
    Sources = {"frame"}
    Torn = Torn
    Base = {"group", "amount"}
    Computed = {"month"}
    DetailRows = 5
    MaxSaves = 2
    Clients = {k1, k2, k3}
    Ids = {a, b, c}
    SingleWriter = TRUE
    MaxChanges = 5
    Plugins = {p1, p2, p3}
    NodePlugins = {p1, p2}
    MaxCalls = 2
    MaxNodeCalls = 1
SPECIFICATION Configured
INVARIANTS
    EnginesOfTheirRequests
    OpenReReadsAlone
    DrillsToThePoint
    EnginesOfTheirPlugins
    NodesRunAsFilledIn
PROPERTIES
    OneActiveUntilDeleted
