CONSTANTS
    f = f
    g = g
    Fresh <- Created
    Absent = Absent
    Empty = Empty
    Garbled = Garbled
    NoJob = NoJob
    Clients = {c1, c2}
    Payloads <- SomePayloads
    MaxSaves = 2
    Restarts = "ever"
    Config <- Configured
    Faults = {"db"}
    MaxFirings = 2
SPECIFICATION FairSpec
INVARIANTS
    SavedAndScheduled
    RowsTellFirings
    AlertsTellFailures
PROPERTIES
    FiringsEnd
