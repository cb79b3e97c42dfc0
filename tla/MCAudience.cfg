SPECIFICATION MCSpec
CONSTANTS
    Subs = {s1, s2}
    Phones = {p1}
    Emails = {e1}
    Codes = {k1}
    MaxConfs = 2
    MaxAged = 0
    MaxAttempts = 1
    MaxMergeHops = 2
    None = None
    Messages = {m1}
    Audiences = {}
    Targets <- NoTargets
    Requested = {"sms", "email"}
    MaxDeliveries = 1
    Records = {1, 2, 3}
    Categories = {c1}
    RouteIds = {a, b}
    ZoneIds = {}
SYMMETRY Symmetry
CONSTRAINTS
    InOrder
    OneSaysAnything
INVARIANTS
    OneAlertPerContact
    AlertHasConsent
    EveryRecipientIsLogged
    ColumnsAreWhatWasAsked
PROPERTIES
    FoldKeepsNamedAlerts
