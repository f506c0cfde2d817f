SPECIFICATION DetailsSpec
CONSTANTS
    Host = {h1, h2}
    MaxActs = 4
    None = None
PROPERTIES PanelSettles
CHECK_DEADLOCK FALSE
