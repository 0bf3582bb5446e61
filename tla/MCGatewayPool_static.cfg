\* Static gateway list: every register outcome, connections dropping at any time.
CONSTANTS
    k1 = k1
    k2 = k2
    nil = nil
    Keys <- MCKeys2
    NoKey = nil
    MaxDials = 5
    MaxSocks = 5
    MaxEvents = 0
    RegOutcomes = {"ok", "timeout", "error"}
    FailDuringRegister = TRUE
SPECIFICATION Spec
INVARIANT TypeOK
INVARIANT NoLeakedSocket
\* The number of dials, connections and events is bounded, so behaviours end.
CHECK_DEADLOCK FALSE
