SPECIFICATION Spec
CONSTANTS
    None = None
    Torn = Torn
    BlobPuts = {b1, b2}
    ManifestPuts = {}
    BlobGets = {}
    ManifestGets = {}
    Bodies = {x, y}
    Named = {x, y}
    Tags = {latest}
    Locked = TRUE
    Timeouts = FALSE
    WriteFaults = FALSE
    MaxCrashes = 0
INVARIANT MatchingUploadSucceeds
