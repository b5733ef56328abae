SPECIFICATION Spec
CONSTANTS
    None = None
    Storages = {s1, s2}
    Registries = {r1, r2}
    Addresses = {a1, a2}
    MaxRequests = 1
 
INVARIANT CleanStop
PROPERTY SignalStops
CHECK_DEADLOCK FALSE
