\* An updated source under two parsers and two chunkers.
SPECIFICATION Spec
CONSTANTS
    c1 = c1
    p1 = p1
    p2 = p2
    k1 = k1
    k2 = k2
    g1 = g1
    None = None
    Versions <- TwoVersions
    First = 1
    Becomes <- Update
    ParserVersions <- TwoParsers
    FirstParser = 1
    Text <- TextsRead
    Objects <- TwoObjects
    Layouts <- ApartOnly
    Collectors = {c1}
    Parsers = {p1, p2}
    Chunkers = {k1, k2}
    Indexers = {g1}
    Budgets <- OneEach
    MaxRequeues = 0
CHECK_DEADLOCK FALSE
SYMMETRY WorkerSymmetry
INVARIANTS TypeOK NothingStranded ProcessableHasArtifact ChunksOfDocument
PROPERTY DocumentForward
