SPECIFICATION FairSpec
CONSTANTS
    Bots = {b1}
    Files = {f1, f2}
    long = long
    blank = blank
    short = short
    Docs = {long, short}
    NChunks <- MCNChunks
    Workers = {w1, w2}
    Keyed = {w1}
    BatchSize = 2
    MaxRetries = 1
    Patchable = {}
    Redeliverable = {}
    NULL = NULL
INVARIANTS
    TypeOK
    UniqueChunks
    CompletedIsIndexed
    NoneLeftBehind
PROPERTIES
    CompletedIsFinal
    ImplementsKnowledgeBase
    EventuallySettles
CHECK_DEADLOCK FALSE
