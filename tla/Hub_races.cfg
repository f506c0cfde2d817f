SPECIFICATION Spec
CONSTANTS
    a = a
    b = b
    c = c
    None = None
    browser1 = browser1
    browser2 = browser2
    MaxConns = 1
    Browsers = {browser1}
    BrowserOf <- OneBrowser
    Graphs <- TwoGraphs
    FirstGraph <- Start
    Large <- MCLarge
    DefaultView = "all"
    Views <- OneView
    Windows <- MCWindows
    Picture <- MCPicture
    FullChunkSize = 2
    SendCap = 2
    RebuildEvery = 1
    MaxEvents = 3
INVARIANTS NothingForgotten
CHECK_DEADLOCK FALSE
