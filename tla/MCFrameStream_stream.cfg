\* A core or an http connection; three posts of any of its messages; reads
\* of 1, 7 or 64 bytes; a write that times out before any byte went out.
CONSTANTS
    MaxBodyLength <- MCMaxBodyLength
    Protocols = {"core", "http"}
    CoreMessages <- MCCoreMessages
    HttpMessages <- MCHttpMessages
    ReadSizes = {1, 7, 64}
    MaxSends = 3
    MaxPartial = 0
SPECIFICATION Spec
INVARIANT TypeOK
INVARIANT FramingSound
\* Posts are bounded; once the wire is drained nothing is left to do.
CHECK_DEADLOCK FALSE
