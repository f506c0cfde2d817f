SPECIFICATION Spec
CONSTANTS
    p1 = p1
    p2 = p2
    p3 = p3
    ka = ka
    kb = kb
    f1 = f1
    f2 = f2
    pcapA = pcapA
    Packets <- TwoPackets
    Keys <- MCKeys
    Flows <- MCFlows
    KeysOf <- TwoKeysOf
    FlowOf <- TwoFlowOf
    Files <- MCFiles
    Content <- MCContent
    NoFile = NoFile
    BatchSize = 2
    QueueCap = 1
    DrainMax = 1
    PacketEveryChoices = {1}
    MaxCaptures = 2
    MaxRuns = 2
    MaxFaults = 1
INVARIANTS BucketLedger TablesAgree CompleteIsExact
PROPERTIES TotalsGrow ImplementsPcapCache
CHECK_DEADLOCK FALSE
