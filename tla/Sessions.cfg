SPECIFICATION FairSpec
CONSTANTS
    None = None
    Sessions = {s1}
    Chunks = {c1, c2}
    Completions = {k1, k2}
    Strangers = {c2, k2}
INVARIANT TypeOK
INVARIANT CompletionOwnsFile
INVARIANT TempFileHasOwner
 
PROPERTY ImplementsUpload
PROPERTY EveryRequestEnds
PROPERTY ExpiredReclaimed
