SPECIFICATION FairSpec
CONSTANTS
    ann = ann
    bob = bob
    everyone = everyone
    arrivals = arrivals
    Vertex <- MCVertex
    Observer <- MCObserver
    Watches <- MCWatches
    Handles <- MCHandles
    Limit = 2
    MaxPending = 3
INVARIANTS
    TypeOK
    EntitiesInSync
    ToldWhatChanged
PROPERTIES
    Atomic
    CallsEnd
