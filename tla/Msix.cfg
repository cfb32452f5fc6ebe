SPECIFICATION FairSpec
CONSTANTS
    Vectors = {v1, v2}
    Msgs = {m0, m1}
    ZeroMsg = m0
    NoMsg = none
    Backends = {v2}
INVARIANTS
    InterruptNotLost
    OpenIsRouted
    MaskedIsSilent
PROPERTIES
    OwedIsSent
