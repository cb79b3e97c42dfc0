CONSTANTS
    Months = {1}
    Revisions = 1
    Managers = {w1, w2}
    Below = 2
    MaxChanges = 1
    Null = Null
SPECIFICATION AssessmentSpec
CHECK_DEADLOCK FALSE
INVARIANT FinalizedWasReviewed
