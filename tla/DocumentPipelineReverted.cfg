\* A source that is updated and then put back to what it held before.
SPECIFICATION FairSpec
CONSTANTS
    c1 = c1
    p1 = p1
    p2 = p2
    k1 = k1
    k2 = k2
    g1 = g1
    None = None
    Versions <- TwoVersions
    First = 1
    Becomes <- UpdateAndRevert
    ParserVersions <- TwoParsers
    FirstParser = 1
    Text <- TextsRead
    Objects <- TwoObjects
    Layouts <- ApartOnly
    Collectors = {c1}
    Parsers = {p1}
    Chunkers = {k1}
    Indexers = {g1}
    Budgets <- NoTrouble
    MaxRequeues = 0
CHECK_DEADLOCK FALSE
PROPERTY DocumentFollowsSource
