SPECIFICATION Spec
CONSTANTS
    Entities = {e1, e2, e3}
    Points <- MCPoints
    Radii = {0}
    NoPoint = NoPoint
    NoQuad = NoQuad
    NoAnswer = NoAnswer
    Widths = {8}
    MaxEntities = 1
CHECK_DEADLOCK FALSE
INVARIANT BrothersNeedNotBeLeaves
