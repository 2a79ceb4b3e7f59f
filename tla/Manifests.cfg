SPECIFICATION FairSpec
CONSTANTS
    p = p
    q = q
    Resources = {p, q}
    Inputs <- MCInputs
    MaxCreates = 2
    MaxEvents = 2
 
PROPERTIES GoneIsGone Settles
CHECK_DEADLOCK FALSE
