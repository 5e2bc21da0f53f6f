SPECIFICATION ReadSpec
CONSTANTS
    Lines <- MCLines
    Target = 2
    Soft = 3
    Hard = 4
    Overlap = 2
    MaxLines = 7
    Contexts = {1}
    Limits = {1, 2, 5}
    Names <- MCNames
    Markdown <- MCMarkdown
    Parts <- MCParts
    Depth = 3
    None = None
    Scopes <- MCScopes
CONSTRAINT
    Explored
INVARIANTS
    PathsEnclose
    NothingIsLost
    PiecesAdvance
    PiecesAreBounded
    TablesAreOutsideFences
    LineEndIsShown
    LinesResolve
    IndexedFilesAreReadable
    FilesAreFoundOnce
    NearestOverrideDecides
