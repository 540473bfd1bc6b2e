SPECIFICATION Spec
CONSTANTS
    openaiBot = openaiBot
    geminiBot = geminiBot
    Bots = {openaiBot}
    Visitors = {v1, v2}
    Requests = {r1, r2, r3}
    Legacy = legacy
    Llm <- MCLlm
    Entries <- TelegramEntries
    HistoryLimit = 3
    MaxPieces = 0
    Serial = {v1}
    NULL = NULL
INVARIANTS
    OneConversationIfSerial
    HistoryIsDialogue
SYMMETRY SameRequests
CHECK_DEADLOCK FALSE
