SPECIFICATION FairDispatchSpec
CONSTANTS
    Subs = {s1}
    Phones = {}
    Emails = {e1}
    Codes = {}
    MaxConfs = 1
    MaxAged = 0
    MaxAttempts = 1
    MaxMergeHops = 2
    None = None
    Messages = {m1}
    a1 = a1
    a2 = a2
    Audiences = {a1, a2}
    Targets <- Repeated
    Requested = {"email"}
    MaxDeliveries = 2
ACTION_CONSTRAINT OneKindOfReader
PROPERTIES
    EventIsSettled
    LoggedAsSentIsNotReposted
