\* Faithful server; two executions of the main FIDO authenticator.
CONSTANTS
    a1 = a1
    a2 = a2
    Authns <- MC_Authns
    Kind <- MC_Kind
    MainAuthn <- MC_MainAuthn
    MaxExecs = 3
    MaxMounts = 2
    ServerSkew = FALSE
SPECIFICATION Spec
PROPERTY
    RespondPairsWithLatestBegin
CHECK_DEADLOCK FALSE
