\* Both dispatch variants.  core: three calls, a well-behaved peer.  http:
\* two calls and one duplicate response (its read loop may panic, see
\* MCRpcSocket_http_panic.cfg; this run checks what callers still get).
CONSTANTS
    c1 = c1
    c2 = c2
    Callers <- MCCallers
    Variants = {"core", "http"}
    IdSpace <- MCIdSpace
    MaxCalls <- MCBothCalls
    MaxDup <- MCBothDup
    ChanCap = 1
SPECIFICATION FairSpec
INVARIANT TypeOK
INVARIANT CoreNoSendOnClosedChannel
PROPERTY RefinesRpcCall
PROPERTY SendReturns
\* The number of calls is bounded, so every behaviour ends.
CHECK_DEADLOCK FALSE
