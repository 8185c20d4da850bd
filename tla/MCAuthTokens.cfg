SPECIFICATION Spec
CONSTANTS
    Requests = {r1, r2}
    MaxTokens = 3
    MaxPasswords = 3
    MaxResets = 1
    MaxFaults = 1
SYMMETRY Symmetry
INVARIANTS
    RotatedOnce
    ResetOnce
    SessionsFollowPassword
CHECK_DEADLOCK FALSE
