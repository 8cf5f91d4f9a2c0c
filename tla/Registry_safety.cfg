\* Reliable replies: deletes and renames from two rows, with refetches.
CONSTANTS
    a1 = a1
    a2 = a2
    n1 = n1
    Order <- MC_Order
    Names <- MC_Names
    Kind <- MC_Kind
    MaxMuts = 2
SPECIFICATION Spec
INVARIANTS
    TypeOK
    QuiescentCacheFresh
CHECK_DEADLOCK FALSE
