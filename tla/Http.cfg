SPECIFICATION Spec
CONSTANTS
    None = None
    Byte = {1}
    MaxLength = 1
    Sha256 <- MCSha256
    Sha512 <- MCSha512
    StagedDigest = "sha256:upload"
    Uuids <- MCUuids
    Segments <- MCSegments
    Paths <- MCPaths
INVARIANT TypeOK
INVARIANT SessionsReachable
INVARIANT HeadAgreesWithGet
 
INVARIANT AckedBlobServed
 
