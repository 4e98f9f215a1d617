\* Three PIN attempts as in the UnlockSIM_* tests and one PUK attempt (the
\* tests have ten; one is enough to reach exhaustion), four calls and two
\* dialogs.  The modem answers every call and the loop handles every
\* signal (weak fairness in Spec).
CONSTANTS
    PinTries <- MCPinTries
    PukTries <- MCPukTries
    MaxCalls = 4
    MaxSessions = 2
SPECIFICATION Spec
INVARIANT TypeOK
INVARIANT SessionFollowsLock
PROPERTY UnlockClosesDialog
