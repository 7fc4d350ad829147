SPECIFICATION Spec
CONSTANTS
    Players = {p1, p2}
    Monsters = {m1}
    Npcs = {n1}
    Loots = {l1}
    Maps = {0, 1}
    Points <- MCPoints
    NoPoint = NoPoint
    Width = 2
    Sight = 1
    Deltas <- MCDeltas
    MaxStrayed = 1
SYMMETRY Symmetry
INVARIANTS
    MapsMatchWorld
    SeesAround
    NoGhosts
PROPERTIES
    StaysShown
