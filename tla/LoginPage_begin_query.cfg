\* A provider click before the re-render that carries reqCommon.
CONSTANTS
    p1 = p1
    p2 = p2
    Providers <- MC_Providers
    PasskeyEnabled = TRUE
    Keys <- MC_Keys
    MaxQuery = 3
    MaxBegins = 2
    MaxPasskey = 2
SPECIFICATION Spec
INVARIANT
    BeginCarriesQuery
CHECK_DEADLOCK FALSE
