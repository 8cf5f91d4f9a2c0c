\* The forEach/delete loop of the mount effect against "delete every key".
CONSTANTS
    p1 = p1
    p2 = p2
    Providers <- MC_Providers
    PasskeyEnabled = TRUE
    Keys <- MC_Keys
    MaxQuery = 3
    MaxBegins = 2
    MaxPasskey = 2
SPECIFICATION Spec
INVARIANT
    URLClearedAfterMount
CHECK_DEADLOCK FALSE
