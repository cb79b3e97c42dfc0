SPECIFICATION Spec
CONSTANTS
    Subs = {s1, s2}
    Phones = {p1}
    Emails = {e1}
    Codes = {k1, k2}
    MaxConfs = 4
    MaxAged = 0
    MaxAttempts = 1
    MaxMergeHops = 3
    None = None
SYMMETRY Symmetry
PROPERTIES
    OptedOutIsFinal
