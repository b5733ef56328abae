SPECIFICATION Spec
CONSTANTS
    None = None
    StagingKeys = {}
    ContentKeys = {a, b}
    Shards = {a, b}
    ShardOf <- MCOwnShard
    Refs = {r, q}
    ValidTags = {t}
    OversizeTags = {}
    Byte = {0, 1}
    Payloads <- MCOnePayload
    Patches = {}
    MaxInt = 3
INVARIANT TypeOK
INVARIANT ReferencedArtifactKept
INVARIANT LookupBacked
 
 
SYMMETRY MCSymmetry
