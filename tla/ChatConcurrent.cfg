SPECIFICATION Spec
CONSTANTS
    openaiBot = openaiBot
    geminiBot = geminiBot
    Bots = {openaiBot, geminiBot}
    Visitors = {v1}
    Requests = {r1, r2}
    Legacy = legacy
    Llm <- MCLlm
    Entries <- AllEntries
    HistoryLimit = 2
    MaxPieces = 1
    Serial = {}
    NULL = NULL
INVARIANTS
    TypeOK
    AnswerStoredOnce
    InOwnConversation
    PreviewKeptApart
SYMMETRY SameRequests
CHECK_DEADLOCK FALSE
