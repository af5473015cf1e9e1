CONSTANTS
    Procs = {p1, p2}
    None = None
    Names = {"g", "h", "draft"}
    Draft = "draft"
    Git <- GitNames
    SourceOf <- GitSource
    Dirs = {"d", "e"}
    Contents = {"a", "b", "c"}
    IdOf <- PairIds
    Latest = Latest
    Trees <- PairTrees
    MaxEdits = 1
    MaxCommands = 3
SYMMETRY Alike
CHECK_DEADLOCK FALSE
SPECIFICATION CatalogSpec
INVARIANTS
    CatalogTypes
    BundlesAreTrue
    PinnedInForce
    OffersOneCommit
    SettledAgrees
PROPERTIES
    ConfigKept
    
