\* One gateway connection; the gateway may go away, after which two more
\* writes still fit in the send buffer.
CONSTANTS
    MaxBuffered = 2
SPECIFICATION FairSpec
INVARIANT TypeOK
PROPERTY DeadPeerClosed
\* A closed connection stops: its read loop has returned and no goroutine
\* is left.
CHECK_DEADLOCK FALSE
