\* http dispatch (channel looked up under the lock, sent to after it), well-behaved peer.
CONSTANTS
    c1 = c1
    c2 = c2
    Callers <- MCCallers
    Variants = {"http"}
    IdSpace <- MCIdSpace
    MaxCalls <- MCCalls3
    MaxDup <- MCDup0
    ChanCap = 1
SPECIFICATION FairSpec
INVARIANT NoSendOnClosedChannel
\* The number of calls is bounded, so every behaviour ends.
CHECK_DEADLOCK FALSE
