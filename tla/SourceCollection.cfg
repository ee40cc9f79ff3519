\* Two collectors of a data source of any kind, which is configured once.
SPECIFICATION Spec
CONSTANTS
    c1 = c1
    c2 = c2
    x1 = x1
    x2 = x2
    Kinds <- AllKinds
    Items = {x1, x2}
    Configured = {}
    PageSize = 1
    ListMax = 2
    Limits = {0, 1}
    Overlap = 1
    Collectors = {c1, c2}
    MaxTime = 3
    MaxEdits = 1
    MaxFaults = 1
SYMMETRY CollectionSymmetry
INVARIANTS TypeOK NothingMissed
