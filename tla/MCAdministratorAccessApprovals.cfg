CONSTANTS
    p = p
    q = q
    a1 = a1
    a2 = a2
    w1 = w1
    w2 = w2
    Nobody = Nobody
    NoTask = NoTask
    People = {p, q}
    Roles = {"admin"}
    Initial <- MCInitial
    Temporary = {}
    Asked <- MCAsked
    Actors = {a1, a2}
    Minimum = 1
    Workers = {w1, w2}
    MaxChanges = 2
    MaxClaims = 2
    MaxRows = 1
SPECIFICATION Spec
SYMMETRY MCSymmetry
CONSTRAINT MCThreeClaims
CHECK_DEADLOCK FALSE
INVARIANTS
    LastAdministratorKept
    SecondPersonCarriesOut
    RefusedHasNoEffect
PROPERTIES
    DecisionIsFinal
