\* Faithful server; a Fido or TOTP result arriving after Cancel or after a newer mutate().
CONSTANTS
    a1 = a1
    a2 = a2
    Authns <- MC_Authns
    Kind <- MC_Kind
    MainAuthn <- MC_MainAuthn
    MaxExecs = 3
    MaxMounts = 2
    ServerSkew = FALSE
SPECIFICATION Spec
PROPERTY
    StaleResultInert
CHECK_DEADLOCK FALSE
