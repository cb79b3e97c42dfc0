CONSTANTS
    c1 = c1
    c2 = c2
    c3 = c3
    Crossings = {c1, c2, c3}
    AutoSent = {c1, c2, c3}
    Track <- MCTrack
    At <- MCAt
    Cooldown = 2
    MaxDeliveries = 2
    MaxClaims = 2
    Months = {1, 2}
    Revisions = 2
    Managers = {w1, w2}
    Below = 2
    MaxChanges = 2
    Null = Null
SPECIFICATION MCSpec
SYMMETRY Symmetry
CONSTRAINTS
    OneAtLength
    OneAtATime
    SecondMonth
CHECK_DEADLOCK FALSE
INVARIANTS
    PostingIsReserved
    TwiceOnlyAfterLapse
    CooldownHolds
    SharedStillMatches
    ProofShowsFinalized
    FinalizedAsReviewed
PROPERTIES
    FinalIsFinal
    ImplementsLease
    IssuedWasFinalized
