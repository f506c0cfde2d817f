SPECIFICATION FairSpec
CONSTANTS
    p1 = p1
    p2 = p2
    p3 = p3
    ka = ka
    kb = kb
    f1 = f1
    f2 = f2
    pcapA = pcapA
    Packets <- ThreePackets
    Keys <- MCKeys
    Flows <- MCFlows
    KeysOf <- ThreeKeysOf
    FlowOf <- ThreeFlowOf
    Files <- MCFiles
    Content <- ThreeContent
    NoFile = NoFile
    BatchSize = 2
    QueueCap = 2
    DrainMax = 2
    PacketEveryChoices = {0, 1, 2}
    MaxCaptures = 1
    MaxRuns = 1
    MaxFaults = 1
INVARIANTS RowLedger
PROPERTIES EndCaptureReturns CloseReturns RowsReachWriter
CHECK_DEADLOCK FALSE
