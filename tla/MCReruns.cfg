CONSTANTS
    a = a
    b = b
    c = c
    d = d
    x = x
    y = y
    None = None
    Default = y
    Handles = {x, y}
    Nodes = {a, b, c}
    Flows <- RerunFlows
    Drivers = {"sequential", "parallel"}
    Faults = {"unwritten", "torn", "stored", "sink", "clear", "flush", "crash"}
    MaxRuns = 2
SPECIFICATION Spec
INVARIANTS
    OneVerdictPerNode
    SuccessLeavesFrame
PROPERTIES
    FreshInputs
