SPECIFICATION Spec
CONSTANTS
    None = None
    StagingKeys = {}
    ContentKeys = {a, b}
    Shards = {x}
    ShardOf <- MCOneShard
    Refs = {r, q}
    ValidTags = {t}
    OversizeTags = {}
    Byte = {0, 1}
    Payloads <- MCOnePayload
    Patches = {}
    MaxInt = 3
PROPERTY DeleteKeepsOtherArtifacts
