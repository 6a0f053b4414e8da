CONSTANTS
    a1 = a1
    a2 = a2
    Attempts = {a1}
    Profiles <- Chained
    Hosts = {target, jump1, jump2}
    Keys = {k1, k2}
    NoKey = NoKey
    target = target
    jump1 = jump1
    jump2 = jump2
SPECIFICATION Spec
CHECK_DEADLOCK FALSE
INVARIANT AskedForItsServer
