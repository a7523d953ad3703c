CONSTANTS
    None = None
    MaxLines = 3
    Requests = {r1, r2}
    Tasks = {t1, t2, t3}
    Connections = {c1}
    Dialects = {"local", "reset", "session", "hint", "waited"}
    MaxAsked = 3
    Nodes = {trg, src, step, end}
    AiNodes = {src, step, end}
    Declares = {step}
    MaxEdges = 5
SPECIFICATION TimeLimits
INVARIANTS
    FramesAreReal
    OnlyOwnLimit
    NotesToldAllThatIsKnown
PROPERTIES
    LimitedOnesEnd
