\* A core connection; two posts, the first of which may time out after
\* writing up to 3 bytes of its frame, the connection staying open.
CONSTANTS
    MaxBodyLength <- MCMaxBodyLength
    Protocols = {"core"}
    CoreMessages <- MCCoreMessages
    HttpMessages <- MCHttpMessages
    ReadSizes = {1, 7, 64}
    MaxSends = 2
    MaxPartial = 3
SPECIFICATION Spec
INVARIANT DispatchedAsSent
\* Posts are bounded; once the wire is drained nothing is left to do.
CHECK_DEADLOCK FALSE
