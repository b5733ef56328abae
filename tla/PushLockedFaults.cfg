SPECIFICATION Spec
CONSTANTS
    None = None
    Torn = Torn
    BlobPuts = {b1, b2}
    ManifestPuts = {m1}
    BlobGets = {g1}
    ManifestGets = {h1}
    Bodies = {x, y}
    Named = {x}
    Tags = {latest}
    Locked = TRUE
    Timeouts = TRUE
    WriteFaults = TRUE
    MaxCrashes = 2
SYMMETRY MCPutSymmetry
INVARIANT ContentAddressed
INVARIANT MetaMeansWhole
INVARIANT AckedBlobKept
INVARIANT ServedWhole
INVARIANT ReferenceFindsArtifact
PROPERTY ImplementsRegistry
