SPECIFICATION Spec
CONSTANTS
    Bots = {b1}
    Files = {f1}
    long = long
    blank = blank
    short = short
    Docs = {short}
    NChunks <- MCNChunks
    Workers = {w1, w2}
    Keyed = {w1}
    BatchSize = 2
    MaxRetries = 0
    Patchable = {f1}
    Redeliverable = {f1}
    NULL = NULL
INVARIANTS
    ErrorMatchesStatus
    NoneLeftBehind
CHECK_DEADLOCK FALSE
