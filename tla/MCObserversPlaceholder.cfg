SPECIFICATION Spec
CONSTANTS
    ann = ann
    bob = bob
    rome = rome
    person = person
    city = city
    likes = likes
    lives = lives
    x = x
    y = y
    Anything = Anything
    Unnamed = Unnamed
    RefName = {x, y}
    Vertex <- MCVertex
    TypeName <- MCTypeName
    TypeOf <- MCTypeOf
    Label <- MCLabel
    Edge <- MCEdge
    Match <- MCMatch
    Deps <- MCDeps
    Starts <- MCStarts
    StartDeps <- MCStartDeps
    Query <- MCQuery
    NestedMatch <- MCNestedMatch
    ExpressionId <- MCExpressionId
    ExpressionOf <- MCExpressionOf
    HeightOf <- MCHeightOf
    MaxHeight = 2
    Observer <- Ann
    PatternOf <- MCPatternOf
    EventsOf <- MCEventsOf
    RegisterAnytime = FALSE
PROPERTIES
    NewSubgraphsReported
