SPECIFICATION PageSpec
CONSTANTS
    Node = {"a", "b"}
    Edge = {"ab", "ba"}
    From <- MCFrom
    To <- MCTo
    Pos = {0, 2}
    Value = {0, 1}
    LabelOf <- MCLabelOf
    EdgeLabel <- MCEdgeLabel
    Text <- MCText
    Size = 4
    Width <- MCWidth
    Height <- MCHeight
    Gap = 1
    End = 2
    MaxParticles = 2
    Caps = {1, 2}
    MaxChecks = 3
    MaxActs = 3
    None = None
    NodeOrder <- MCNodeOrder
    EdgeOrder <- MCEdgeOrder
    Style <- MCStyle
    PerCall = 1
    MaxLabels = 1
    CosmosParticles = 2
    CosmosEnd = 3
    CosmosActs = 4
INVARIANTS BuffersFollow ParticlesFlow AutoFitYields SpritesApart SolarFollows
PROPERTIES SizesFrozen
CHECK_DEADLOCK FALSE
