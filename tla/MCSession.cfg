CONSTANTS
    Client = {c}
    Graph = {g, h}
    Vertex = {v}
    NoGraph = none
    MaxPending = 2
    MaxIssued = 3
    SwitchAnytime = FALSE
SPECIFICATION FairSpec
INVARIANTS TypeOK ExactlyOnce
PROPERTIES ActsAsPrivateGraphs CallsEnd
