CONSTANTS
    a = a
    b = b
    c = c
    d = d
    x = x
    y = y
    None = None
    Default = y
    Handles = {x, y}
    Nodes = {a, b, c, d}
    Flows <- EndFlows
    Drivers = {"sequential", "parallel"}
    Faults = {"unwritten"}
    MaxRuns = 1
SPECIFICATION FairSpec
PROPERTIES
    RowSettles
    ImplementsFlowRun
