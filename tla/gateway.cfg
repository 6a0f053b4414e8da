CONSTANTS
    a1 = a1
    a2 = a2
    Attempts = {a1, a2}
    Profiles <- Mixed
    Hosts = {target, jump1}
    Keys = {k1, k2}
    NoKey = NoKey
    target = target
    jump1 = jump1
    jump2 = jump2
SPECIFICATION FairSpec
CHECK_DEADLOCK FALSE
INVARIANTS TypeOK AuthenticatesSavedKeys SavesApprovedKeys FailureReleases ChallengeHasTransport MismatchBlocks
PROPERTY OnlyWaitsForUser
