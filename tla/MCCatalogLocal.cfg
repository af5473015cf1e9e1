CONSTANTS
    Procs = {p1, p2}
    None = None
    Names = {"l", "draft"}
    Draft = "draft"
    Git = {}
    SourceOf <- LocalSource
    Dirs = {"d"}
    Contents = {"a", "b"}
    IdOf <- LoneIds
    Latest = Latest
    Trees <- LoneTrees
    MaxEdits = 1
    MaxCommands = 3
CHECK_DEADLOCK FALSE
SPECIFICATION CatalogSpec
PROPERTY GrantsAreImmutable
