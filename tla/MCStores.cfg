CONSTANTS
    Writers = {w1, w2}
    Readers = {x1, x2}
    None = None
    MaxWrites = 2
    MaxReads = 2
    Viewers = {v1, v2}
    WriterTries = 2
    ViewerTries = 2
    MaxReports = 2
    Dialects = {"postgresql", "clickhouse", "iceberg", "bulk", "starrocks", "other", "trino"}
    Elsewhere = FALSE
    Chunks = 2
    MaxCalls = 3
    MaxTimeouts = 1
SPECIFICATION Stores
INVARIANTS
    MetaIsOfItsKey
    PagesTellReports
    LoadsAreWhole
PROPERTIES
    AllEnd
