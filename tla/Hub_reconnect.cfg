SPECIFICATION Spec
CONSTANTS
    a = a
    b = b
    c = c
    None = None
    browser1 = browser1
    browser2 = browser2
    MaxConns = 2
    Browsers = {browser1}
    BrowserOf <- OneBrowser
    Graphs <- SwapGraphs
    FirstGraph <- Shrunk
    Large <- MCLarge
    DefaultView = "all"
    Views <- MCViews
    Windows = {}
    Picture <- MCPicture
    FullChunkSize = 2
    SendCap = 2
    RebuildEvery = 1
    MaxEvents = 1
INVARIANTS ChannelClosedOnce StreamRebuildsBaseline ScreensAreSound
CHECK_DEADLOCK FALSE
