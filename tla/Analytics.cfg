SPECIFICATION Spec
CONSTANTS
    LastBot = 2
    c1 = c1
    c2 = c2
    Convs = {c1, c2}
    BotOf <- MCBotOf
    Runs = {r1, r2}
    Messages = {m1, m2}
    Window = 2
    MaxDays = 3
    Budgets <- MCBudgets
    NULL = NULL
INVARIANTS
    TypeOK
    SettledDayIsCounted
    RunCoversEveryBot
    HitsWithinMessages
    OverviewCountsOnce
SYMMETRY Alike
CHECK_DEADLOCK FALSE
