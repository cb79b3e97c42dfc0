SPECIFICATION Spec
CONSTANTS
    Subs = {s1, s2}
    Phones = {p1}
    Emails = {e1}
    Codes = {k1, k2, k3}
    MaxConfs = 3
    MaxAged = 3
    MaxAttempts = 2
    MaxMergeHops = 3
    None = None
SYMMETRY Symmetry
INVARIANTS
    OneLiveToken
    EveryGuessCounts
PROPERTIES
    StoppedWithoutTokenIsFinal
