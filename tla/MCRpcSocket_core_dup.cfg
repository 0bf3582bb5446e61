\* core dispatch; the peer may send one Response twice.
CONSTANTS
    c1 = c1
    c2 = c2
    Callers <- MCCallers
    Variants = {"core"}
    IdSpace <- MCIdSpace
    MaxCalls <- MCCalls2
    MaxDup <- MCDup1
    ChanCap = 1
SPECIFICATION FairSpec
PROPERTY SendReturns
\* The number of calls is bounded, so every behaviour ends.
CHECK_DEADLOCK FALSE
