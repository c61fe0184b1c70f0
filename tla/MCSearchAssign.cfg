\* Two objects over one archive, for the copy constructor and copy
\* assignment; one query that parses.
CONSTANTS
    o1 = o1
    o2 = o2
    a1 = a1
    a2 = a2
    Nil = Nil
    Objs <- MCObjs
    Arch = {a1}
    ArchiveKinds <- MCArchiveKinds
    GeoKey <- MCGeoKey
    TitleKey <- MCTitleKey
    SnippetKey <- MCSnippetKey
    SizeKey <- MCSizeKey
    WordcountKey <- MCWordcountKey
    End = End
    NoSlot = NoSlot
    Queries = {""}
    EmptyQuery = ""
    BadQueries = {}
    MaxArchives = 1
SPECIFICATION IterSpec
INVARIANT NoNullInternalUse
