\* Server of another version: begin may answer any challenge kind or none.
CONSTANTS
    a1 = a1
    a2 = a2
    Authns <- MC_Authns
    Kind <- MC_Kind
    MainAuthn <- MC_MainAuthn
    MaxExecs = 3
    MaxMounts = 2
    ServerSkew = TRUE
SPECIFICATION Spec
PROPERTY
    EveryExecutionSettles
CHECK_DEADLOCK FALSE
