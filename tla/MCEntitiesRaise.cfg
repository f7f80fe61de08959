SPECIFICATION CarelessSpec
CONSTANTS
    post = post
    user = user
    text = text
    author = author
    title = title
    favourites = favourites
    Primitive <- MCPrimitive
    Plain <- MCPlain
    Label <- MCLabel
    LabelsOf <- MCLabelsOf
    Collections = {favourites}
    Optional = {author}
    RangeOf <- MCRangeOf
INVARIANT FieldsMirrorEdges
