---------------------------- MODULE SpatialIndex ----------------------------
(***************************************************************************)
(* What the map asks of its quadtree: entities are placed at points, and a *)
(* query reaches all of those within a radius.  It may reach others, which *)
(* its callback has to leave out.                                          *)
(***************************************************************************)
EXTENDS Integers

CONSTANTS
    Entities,  \* the entities of a map
    Points,    \* points of the plane: [x : Int, y : Int]
    Radii,     \* the radii that are asked for
    NoPoint,   \* where an entity is that is not in the index
    NoAnswer   \* there has been no query since the last change

VARIABLES
    placed,  \* [Entities -> Points]: m_x, m_y of the entities in the index
    answer   \* of the last query, or NoAnswer: the entities it has reached

vars == <<placed, answer>>

\* quad_entity::distance truncates: it is at most r if the square of the
\* exact distance is below that of r + 1.
Within(p, q, r) ==
    (p.x - q.x) * (p.x - q.x) + (p.y - q.y) * (p.y - q.y) < (r + 1) * (r + 1)

Init ==
    /\ placed = [e \in Entities |-> NoPoint]
    /\ answer = NoAnswer

Insert(e, p) ==
    /\ placed[e] = NoPoint
    /\ placed' = [placed EXCEPT ![e] = p]
    /\ answer' = NoAnswer

Remove(e) ==
    /\ placed[e] # NoPoint
    /\ placed' = [placed EXCEPT ![e] = NoPoint]
    /\ answer' = NoAnswer

Placed == {e \in Entities : placed[e] # NoPoint}

Query(p, r) ==
    /\ \E reached \in SUBSET Placed :
          /\ {e \in Placed : Within(placed[e], p, r)} \subseteq reached
          /\ answer' = [p |-> p, r |-> r, reached |-> reached]
    /\ UNCHANGED placed

Next ==
    \/ \E e \in Entities, p \in Points : Insert(e, p)
    \/ \E e \in Entities : Remove(e)
    \/ \E p \in Points, r \in Radii : Query(p, r)

Spec == Init /\ [][Next]_vars

=============================================================================
