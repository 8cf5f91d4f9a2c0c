\* Provider and passkey login with any initial query of up to three parameters.
CONSTANTS
    p1 = p1
    p2 = p2
    Providers <- MC_Providers
    PasskeyEnabled = TRUE
    Keys <- MC_Keys
    MaxQuery = 3
    MaxBegins = 2
    MaxPasskey = 2
SPECIFICATION Spec
SYMMETRY MC_Symmetry
INVARIANTS
    TypeOK
PROPERTY
    PasskeyRefinesAttempt
CHECK_DEADLOCK FALSE
