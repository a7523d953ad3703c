CONSTANTS
    None = None
    Flows = {f1, f2}
    Empty = {}
    Cyclic = {f2}
    MaxRuns = 2
    MaxSockets = 2
    MaxLosses = 1
    EmptyKey = EmptyKey
    MaxSessions = 2
    MaxFaults = 2
SPECIFICATION Clients
INVARIANTS
    TabFollowsItsFlow
    SameKey
PROPERTIES
    RunningEnds
    CrashesAreTold
    NeverOutlives
