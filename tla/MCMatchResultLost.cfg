CONSTANTS
    Results = {r1, r2}
    Locs <- MCLocs
    Msgs = {m1, m2}
    MaxMsgs = 2

SPECIFICATION Spec



INVARIANT NoMessageLost
