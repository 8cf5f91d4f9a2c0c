\* The conditional-mediation ceremony has no timeout.
CONSTANTS
    p1 = p1
    p2 = p2
    Providers <- MC_Providers
    PasskeyEnabled = TRUE
    Keys <- MC_Keys
    MaxQuery = 3
    MaxBegins = 2
    MaxPasskey = 2
SPECIFICATION Spec
PROPERTY
    PasskeySettles
CHECK_DEADLOCK FALSE
