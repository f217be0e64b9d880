SPECIFICATION Spec
CONSTANTS
    Readers = {r1, r2}
    Writers = {w1}
    Closers = {k1}
    CloseWriters = {s1}
    Configs <- MCConfigs
    MaxReads = 1
    MaxRecords = 2
    MaxWarn = 1
    MaxEmpty = 1
INVARIANTS
    DataOnlyInSession
    NothingLostBeforeError
PROPERTIES
    QuietAfterClose
    CallsReturn
