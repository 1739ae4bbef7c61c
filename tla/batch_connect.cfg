SPECIFICATION FairSpec
CONSTANTS
    Hosts = {h1, h2, h3, h4}
    Limit = 2
    None = None
INVARIANTS
    TypeOK
    ToldIsDropped
    CardIsCurrent
PROPERTIES
    KeepsPromise
    BatchEnds
