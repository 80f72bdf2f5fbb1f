SPECIFICATION MCSpec
CONSTANTS
    a = a
    b = b
    c = c
    d = d
    Zero = Zero
    NoField = NoField
    Wallet <- MixNotes
    Requests <- MixRequests
    Prefix = "clair"
    Chain = "clairveil-1"
    Skew = 0
    DefaultLife = 2
    MaxTime = 1
    MaxRoots = 0
    MaxBuilds = 2
    MaxJobs = 3
    MaxPayloads = 3
    MaxMessages = 1
    MaxSent = 0
INVARIANTS
    WithdrawIsSound
    DepositsAreSound
    PathsAreSound
\* The bounds stop the system.
CHECK_DEADLOCK FALSE
