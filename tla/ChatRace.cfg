SPECIFICATION Spec
CONSTANTS
    openaiBot = openaiBot
    geminiBot = geminiBot
    Bots = {openaiBot}
    Visitors = {v1}
    Requests = {r1, r2}
    Legacy = legacy
    Llm <- MCLlm
    Entries <- AllEntries
    HistoryLimit = 2
    MaxPieces = 1
    Serial = {}
    NULL = NULL
INVARIANTS
    OneConversation
CHECK_DEADLOCK FALSE
