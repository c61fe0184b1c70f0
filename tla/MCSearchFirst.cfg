\* One object over two archives whose indexes have different valuesmaps.
CONSTANTS
    o1 = o1
    a1 = a1
    a2 = a2
    Nil = Nil
    Objs = {o1}
    o2 = o2
    Arch <- MCArch
    ArchiveKinds <- MCArchiveKinds
    GeoKey <- MCGeoKey
    TitleKey <- MCTitleKey
    SnippetKey <- MCSnippetKey
    SizeKey <- MCSizeKey
    WordcountKey <- MCWordcountKey
    End = End
    NoSlot = NoSlot
    Queries = {"", "q"}
    EmptyQuery = ""
    BadQueries = {}
    MaxArchives = 2
SPECIFICATION IterSpec
INVARIANT AccessorsReadOwnSlots
