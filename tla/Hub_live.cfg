SPECIFICATION FairSpec
CONSTANTS
    a = a
    b = b
    c = c
    None = None
    browser1 = browser1
    browser2 = browser2
    MaxConns = 1
    Browsers = {browser1}
    BrowserOf <- OneBrowser
    Graphs <- FewGraphs
    FirstGraph <- Start
    Large <- MCLarge
    DefaultView = "all"
    Views <- MCViews
    Windows <- MCWindows
    Picture <- MCPicture
    FullChunkSize = 2
    SendCap = 2
    RebuildEvery = 2
    MaxEvents = 1
PROPERTIES ForgottenIsClosed ScreensCatchUp
CHECK_DEADLOCK FALSE
