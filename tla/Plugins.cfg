SPECIFICATION FairSpec
CONSTANTS
    Client <- Plugins_
    MaxLink = 2
    MaxCalls = 3
    Logs = 2
    Chunks = 2
    MaxListRetries = 1
    MaxLists = 1
    MaxDownloads = 2
    MaxLost = 1
INVARIANTS OneStream FirstFileWhole
PROPERTIES PluginsEnd
CHECK_DEADLOCK FALSE
