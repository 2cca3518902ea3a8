CONSTANTS
    c1 = c1
    c2 = c2
    Calls = {c1, c2}
    Methods <- Queries
    MaxLimits = 0
    MaxErrors = 0
    MaxDrops = 0
SPECIFICATION Spec
CHECK_DEADLOCK FALSE
PROPERTIES
    HealthyAnswers
