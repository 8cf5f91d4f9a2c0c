\* Calls from rows after a delete has shifted the rows.
CONSTANTS
    a1 = a1
    a2 = a2
    n1 = n1
    Order <- MC_Order
    Names <- MC_Names
    Kind <- MC_Kind
    MaxMuts = 3
SPECIFICATION Spec
INVARIANT
    RowCallsTargetIntended
CHECK_DEADLOCK FALSE
