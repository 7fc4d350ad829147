SPECIFICATION Spec
CONSTANTS
    Entities = {e1, e2, e3, e4}
    Points <- MCPoints
    Radii = {0, 5}
    NoPoint = NoPoint
    NoQuad = NoQuad
    NoAnswer = NoAnswer
    Widths = {5, 8}
    MaxEntities = 2
SYMMETRY Symmetry
CHECK_DEADLOCK FALSE
INVARIANTS
    TypeOK
    EntityReachable
    LeafBounded
    InnerQuadsFull
    ChildFound
PROPERTIES
    IsSpatialIndex
