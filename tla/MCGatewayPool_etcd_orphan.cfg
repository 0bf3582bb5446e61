\* etcd discovery: a gateway is deleted while its dial registers.
CONSTANTS
    k1 = k1
    k2 = k2
    nil = nil
    Keys <- MCKeys1
    NoKey = nil
    MaxDials = 5
    MaxSocks = 5
    MaxEvents = 2
    RegOutcomes = {"ok"}
    FailDuringRegister = FALSE
SPECIFICATION Spec
INVARIANT NoLeakedSocket
\* The number of dials, connections and events is bounded, so behaviours end.
CHECK_DEADLOCK FALSE
