SPECIFICATION Spec
CONSTANTS
    Tabs = {a1, a2}
    MaxBots = 4
    BotLimit = 2
    T0 = T0
    T1 = T1
    Texts <- MCTexts
    Blank = T0
    NULL = NULL
    Pages = {p1, p2}
    Slots = {1, 2}
    Embedded = 1
    Elsewhere <- MCElsewhere
    MaxTokens = 2
    Keys = {k1, k2}
    Dialogs = {d1, d2}
    Updates = {u1}
    MaxSecrets = 3
    Budgets <- MCBudgets
INVARIANTS
    AcceptedIsOk
CHECK_DEADLOCK FALSE
