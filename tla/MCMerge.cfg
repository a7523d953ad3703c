CONSTANTS
    a = a
    b = b
    c = c
    d = d
    x = x
    y = y
    None = None
    Default = y
    Handles = {x, y}
    Nodes = {a, b, c, d}
    Flows <- MergeFlows
    Drivers = {"sequential"}
    Faults = {}
    MaxRuns = 1
SPECIFICATION Spec
INVARIANTS
    MergeNodeRuns
