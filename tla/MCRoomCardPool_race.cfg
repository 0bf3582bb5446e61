\* Default thresholds; every call to the dispatch server answers.
CONSTANTS
    r1 = r1
    r2 = r2
    r3 = r3
    r4 = r4
    r5 = r5
    r6 = r6
    Cards <- MCCards
    InitialSize = 2
    ScaleUpSize = 2
    ScaleDownSize = 2
    UpNum = 4
    DownNum = 2
    Den = 5
    RpcOutcomes = {"ok"}
    MaxGets = 5
    MaxSpawn = 3
SYMMETRY MCSymmetry
SPECIFICATION Spec
INVARIANT CardsOwnedOnce
\* The number of calls is bounded, so behaviours end.
CHECK_DEADLOCK FALSE
