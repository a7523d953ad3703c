CONSTANTS
    a = a
    b = b
    c = c
    d = d
    x = x
    y = y
    Default = y
    Handles = {x, y}
    Nodes = {a, b, c, d}
    Graphs <- AllGraphs
    Walks <- AllWalks
SPECIFICATION Functions
INVARIANTS
    RaisesOnCyclesOnly
    ReturnsTopologicalOrder
    LayersAreDependencyLayers
    SeesDescendants
PROPERTIES
    WalkEnds
