CONSTANTS
    Wallet <- MixWallet
    Requests <- MixRequests
    Draws <- MixDraws
    Auditor = "auditor"
    Chain = "clairveil-1"
    Lifetime = 1
    MaxTime = 0
    MaxRoots = 0
    MaxDrafts = 2
    MaxByHand = 0
    MaxPayloads = 3
    MaxSent = 0
SPECIFICATION MCSpec
INVARIANTS
    TransferIsSound
    PayloadsAreSound
    DisclosureIsSound
CONSTRAINT SmallInOneWay
\* The bounds on drafts, payloads and time stop the system.
CHECK_DEADLOCK FALSE
