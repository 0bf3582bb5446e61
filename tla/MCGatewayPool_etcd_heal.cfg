\* etcd discovery, gateway accepts every registration: addresses left in
\* etcd end up running.
CONSTANTS
    k1 = k1
    k2 = k2
    nil = nil
    Keys <- MCKeys1
    NoKey = nil
    MaxDials = 5
    MaxSocks = 5
    MaxEvents = 3
    RegOutcomes = {"ok"}
    FailDuringRegister = FALSE
SPECIFICATION FairSpec
PROPERTY StoredHeals
\* The number of dials, connections and events is bounded, so behaviours end.
CHECK_DEADLOCK FALSE
