SPECIFICATION Spec
CONSTANTS
    Item = {a, b, c}
    NoItem = NoItem
    a = a
    b = b
    c = c
    Punct = {comma, default}
    comma = comma
    default = default
    DefaultPunct = default
    Parsed <- ParsedLists
    MaxLen = 3
INVARIANTS
    TypeOK
    WalkOffersEach
    WireRoundTrips
PROPERTIES
    PunctsStayInFront
    ImplementsSequenceView
