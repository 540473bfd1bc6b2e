SPECIFICATION Spec
CONSTANTS
    Bots = {b1, b2}
    Files = {f1}
    long = long
    blank = blank
    short = short
    Docs = {long, blank}
    NChunks <- MCNChunks
    Workers = {w1, w2}
    Keyed = {w1}
    BatchSize = 2
    MaxRetries = 3
    Patchable = {}
    Redeliverable = {}
    NULL = NULL
INVARIANTS
    DeletedStaysDeleted
CHECK_DEADLOCK FALSE
