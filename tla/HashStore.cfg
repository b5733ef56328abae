CONSTANTS
    Creates = {c1, c2, c3}
    Bodies = {a, b}
    Refs = {r}
    Deletes = TRUE
    Timeouts = TRUE
    Torn = Torn
    None = None
SPECIFICATION Spec
 
PROPERTY ImplementsStore
SYMMETRY MCSymmetry
CHECK_DEADLOCK FALSE
