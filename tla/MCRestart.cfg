CONSTANTS
    f = f
    g = g
    Fresh <- Created
    Absent = Absent
    Empty = Empty
    Garbled = Garbled
    NoJob = NoJob
    Clients = {c1}
    Payloads <- SomePayloads
    MaxSaves = 2
    Restarts = "quiet"
    Config <- Configured
    Faults = {"db"}
    MaxFirings = 0
SPECIFICATION Spec
INVARIANTS
    JobsFollowFile
