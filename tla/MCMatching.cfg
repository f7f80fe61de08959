SPECIFICATION Spec
CONSTANTS
    ann = ann
    bob = bob
    rome = rome
    person = person
    city = city
    likes = likes
    lives = lives
    x = x
    y = y
    Anything = Anything
    Unnamed = Unnamed
    RefName = {x, y}
    Elsewhere = Elsewhere
    Vertex <- MCVertex
    TypeName <- MCTypeName
    TypeOf <- MCTypeOf
    Edge <- MCEdge
    Patterns <- MCPatterns
    ExpressionId <- MCExpressionId
    ExpressionOf <- MCExpressionOf
INVARIANTS
    TypeOK
    FindsWhatIsMeant
