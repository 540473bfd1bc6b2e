SPECIFICATION Spec
CONSTANTS
    openaiBot = openaiBot
    geminiBot = geminiBot
    Bots = {geminiBot}
    Visitors = {v1}
    Requests = {r1}
    Legacy = legacy
    Llm <- MCLlm
    Entries <- AllEntries
    HistoryLimit = 2
    MaxPieces = 1
    Serial = {}
    NULL = NULL
INVARIANTS
    StreamTracksUsage
CHECK_DEADLOCK FALSE
