SPECIFICATION Spec
CONSTANTS
    a = a
    b = b
    person = person
    city = city
    likes = likes
    Vertex <- MCVertex
    TypeName <- MCTypeName
    TypeOf <- MCTypeOf
    Label <- MCLabel
    MaxVertexLog = 3
    MaxEdgeLog = 3
INVARIANTS
    TypeOK
    NoDanglingEdges
    TrunksMirror
    TypeIndexExact
    LogsAlternate
PROPERTIES
    Transactions
    RollbackRunsTheLoop
    ApplyRunsTheLoop
