SPECIFICATION Spec
CONSTANTS
    None = None
    StagingKeys = {s}
    ContentKeys = {a}
    Shards = {x}
    ShardOf <- MCOneShard
    Refs = {r}
    ValidTags = {t}
    OversizeTags = {big}
    Byte = {0, 1}
    Payloads <- MCOnePayload
    Patches <- MCPatches
    MaxInt = 3
INVARIANT MetaHasBlob
INVARIANT ReadExact
VIEW files
