CONSTANTS
    a1 = a1
    a2 = a2
    Attempts = {a1, a2}
    Profiles <- BothDirect
    Hosts = {target}
    Keys = {k1, k2}
    NoKey = NoKey
    target = target
    jump1 = jump1
    jump2 = jump2
SPECIFICATION Spec
CHECK_DEADLOCK FALSE
PROPERTY NoSecondKey
