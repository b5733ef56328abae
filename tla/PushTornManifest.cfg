SPECIFICATION Spec
CONSTANTS
    None = None
    Torn = Torn
    BlobPuts = {}
    ManifestPuts = {m1, m2}
    BlobGets = {}
    ManifestGets = {}
    Bodies = {x}
    Named = {x}
    Tags = {latest}
    Locked = TRUE
    Timeouts = FALSE
    WriteFaults = TRUE
    MaxCrashes = 0
INVARIANT AckedManifestWhole
