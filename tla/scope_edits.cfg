SPECIFICATION MCScopeSpec
CONSTANTS
    s1 = s1
    s2 = s2
    a = a
    b = b
    Servers <- MCServers
    Refreshing = {s2}
    Searched <- MCSearched
    Tools = {t1}
    Names <- MCNames
    None = None
    MaxEdits = 2
    MaxCrashes = 1
INVARIANTS
    NoEditIsLost
    ConfigStaysLoadable
    CopyHasOwnEdits
    ProvidersMatchTheCopy
PROPERTIES
    OnlyToolsEditARefreshedScope
CHECK_DEADLOCK FALSE
