\* Static list, one address: register fails with an error whose text does
\* not contain "send timeout" (a write deadline's "timeout: ..." or a bad
\* reply), and no connection drops on its own.
CONSTANTS
    k1 = k1
    k2 = k2
    nil = nil
    Keys <- MCKeys1
    NoKey = nil
    MaxDials = 5
    MaxSocks = 5
    MaxEvents = 0
    RegOutcomes = {"ok", "error"}
    FailDuringRegister = FALSE
SPECIFICATION Spec
INVARIANT PendingHasDial
\* The number of dials, connections and events is bounded, so behaviours end.
CHECK_DEADLOCK FALSE
