SPECIFICATION Spec
CONSTANTS
    Admins = {a1, a2}
    Limits <- MCLimits
    Creds = {k1}
    NULL = NULL
INVARIANTS
    TypeOK
    SerialHistory
SYMMETRY SameAdmins
CHECK_DEADLOCK FALSE
