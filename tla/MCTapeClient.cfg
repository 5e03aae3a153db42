SPECIFICATION Spec
CONSTANTS
    Atom = {a, b}
    NoAtom = NoAtom
    a = a
    b = b
    Sources <- MCSources
    MaxPushed = 2
    MaxDepth = 2
INVARIANTS
    TypeOK
    CursorsOrdered
    RetentionScoped
PROPERTIES
    NeverPolledAfterEnd
    ImplementsRewindableStream
