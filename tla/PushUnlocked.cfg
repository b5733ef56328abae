SPECIFICATION Spec
CONSTANTS
    None = None
    Torn = Torn
    BlobPuts = {b1}
    ManifestPuts = {m1, m2}
    BlobGets = {}
    ManifestGets = {h1}
    Bodies = {x, y}
    Named = {x, y}
    Tags = {latest}
    Locked = FALSE
    Timeouts = FALSE
    WriteFaults = FALSE
    MaxCrashes = 0
INVARIANT TypeOK
 
