SPECIFICATION Spec
CONSTANTS
    None = None
    a = a
    b = b
    staying = staying
    moving = moving
    Calls = {c1, c2}
    Hashes = {a, b}
    Names = {staying, moving}
    Binds <- MCBinds
    Looked = {staying}
    Timeouts = TRUE
    WriteFaults = TRUE
INVARIANTS TypeOK   
PROPERTIES   EveryCallEnds
