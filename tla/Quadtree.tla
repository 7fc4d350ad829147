------------------------------ MODULE Quadtree ------------------------------
(***************************************************************************)
(* The quadtree of core/space.                                             *)
(*                                                                         *)
(* A quad is named by its path from the root: the numbers of the children  *)
(* taken, in the order in which inner() tries them.  A quad is a leaf      *)
(* while it has a container.                                               *)
(*                                                                         *)
(* The recursion is a list of what is left to do.  Inserting into a full   *)
(* leaf puts the leaf's entities in front of the one being inserted (todo: *)
(* their order is that of an unordered_map, any); after a removal, and     *)
(* after each merge, the parent's merge() comes next (up).  WorldMap's     *)
(* mutex keeps other calls out until both are done.                        *)
(***************************************************************************)
EXTENDS Integers, FiniteSets, Sequences, Functions

CONSTANTS
    Entities,     \* the entities of a map
    Points,       \* where entities are put and queries are made
    Radii,        \* radii of the queries
    NoPoint,      \* where an entity is that is not in the tree
    NoAnswer,     \* there has been no query since the last change
    NoQuad,       \* no quad: a null parent, nothing to merge
    Widths,       \* the root's square may have one of these
    MaxEntities   \* m_max_container_entities

ASSUME EntitiesAssumption == IsFiniteSet(Entities)
ASSUME PointsAssumption  == Points \subseteq [x : Int, y : Int] /\ NoPoint \notin Points
ASSUME RadiiAssumption   == Radii \subseteq Nat
ASSUME WidthsAssumption  == Widths \subseteq Nat
ASSUME MaxAssumption     == MaxEntities \in Nat \ {0}
ASSUME NoQuadAssumption  == NoQuad \notin Seq(1..4)

VARIABLES
    boundary,  \* [quads that exist -> Square]: m_boundary
    at,        \* [Entities -> quads]: the leaf whose container holds an entity
    pos,       \* [Entities -> Points]: m_x, m_y of the entities in the tree
    todo,      \* the entities that an insertion still has to put into leaves
    up,        \* the quad whose merge() runs next
    answer,    \* the last query and the entities it has passed to its callback
    fault      \* "none", or the null pointer that has ended the process

vars == <<boundary, at, pos, todo, up, answer, fault>>

Square == [x : Int, y : Int, w : Nat]

Fault == {"none", "no child", "no container"}

Quads == DOMAIN boundary
Root  == <<>>

\* Variant: children that do not share their borders.
ChildApart(b, k) ==
    LET h == b.w \div 2
    IN  [x |-> IF k \in {2, 4} THEN b.x + h ELSE b.x,
         y |-> IF k \in {1, 2} THEN b.y + h ELSE b.y,
         w |-> h - 1]

\* The children: top left, top right, bottom left, bottom right.
Child(b, k) ==
    LET h == b.w \div 2
    IN  [x |-> IF k \in {2, 4} THEN b.x + h ELSE b.x,
         y |-> IF k \in {1, 2} THEN b.y + h ELSE b.y,
         w |-> h]

\* The quads on the way from the root to c: the k-th below the root.
Ancestor(c, k) == SubSeq(c, 1, k)

Parent(c) == IF c = Root THEN NoQuad ELSE Ancestor(c, Len(c) - 1)

IsLeaf(c) == Append(c, 1) \notin Quads

\* in_boundary(point): the border belongs to the square, so neighbours share it.
InBoundary(b, p) ==
    /\ b.x <= p.x /\ p.x <= b.x + b.w
    /\ b.y <= p.y /\ p.y <= b.y + b.w

\* in_boundary(square)
Overlaps(a, b) ==
    /\ b.x <= a.x + a.w /\ a.x <= b.x + b.w
    /\ b.y <= a.y + a.w /\ a.y <= b.y + b.w

\* Variant: a square as wide as the radius.
AroundHalf(p, r) == [x |-> p.x - r, y |-> p.y - r, w |-> r]

\* The square around a circle: in_boundary(point, radius).
Around(p, r) == [x |-> p.x - r, y |-> p.y - r, w |-> 2 * r]

\* inner(): the first of the children of c that p lies in is the k-th.
Inner(c, k, p) ==
    /\ InBoundary(boundary[Append(c, k)], p)
    /\ \A j \in 1 .. k - 1 : ~InBoundary(boundary[Append(c, j)], p)

\* insert() and remove() come from the root to the leaf c.
Reaches(c, p) ==
    /\ IsLeaf(c)
    /\ \A k \in 1 .. Len(c) : Inner(Ancestor(c, k - 1), c[k], p)

\* distinct_size(): the number of points that hold an entity, below c.
Below(c) == {e \in Entities :
    at[e] # NoQuad /\ Len(c) <= Len(at[e]) /\ Ancestor(at[e], Len(c)) = c}

DistinctSize(c) == Cardinality({pos[e] : e \in Below(c)})

CanSubdivide(c) == boundary[c].w > 1

Idle == todo = <<>> /\ up = NoQuad /\ fault = "none"

Init ==
    /\ \E w \in Widths : boundary = [c \in {Root} |-> [x |-> 0, y |-> 0, w |-> w]]
    /\ at = [e \in Entities |-> NoQuad]
    /\ pos = [e \in Entities |-> NoPoint]
    /\ todo = <<>>
    /\ up = NoQuad
    /\ answer = NoAnswer
    /\ fault = "none"

-----------------------------------------------------------------------------
(* insert                                                                   *)

\* A point outside the root makes insert() throw; WorldMap::Add logs it.
Insert(e, p) ==
    /\ Idle
    /\ pos[e] = NoPoint
    /\ InBoundary(boundary[Root], p)
    /\ pos' = [pos EXCEPT ![e] = p]
    /\ todo' = <<e>>
    /\ answer' = NoAnswer
    /\ UNCHANGED <<boundary, at, up, fault>>

\* Variant: a container takes one point more than it may.
InsertIntoLeafOneMore(c) ==
    /\ todo # <<>> /\ fault = "none"
    /\ Reaches(c, pos[Head(todo)])
    /\ DistinctSize(c) <= MaxEntities \/ ~CanSubdivide(c)
    /\ at' = [at EXCEPT ![Head(todo)] = c]
    /\ todo' = Tail(todo)
    /\ UNCHANGED <<boundary, pos, up, answer, fault>>

\* The next entity goes into the leaf's container.
InsertIntoLeaf(c) ==
    /\ todo # <<>> /\ fault = "none"
    /\ Reaches(c, pos[Head(todo)])
    /\ DistinctSize(c) < MaxEntities \/ ~CanSubdivide(c)
    /\ at' = [at EXCEPT ![Head(todo)] = c]
    /\ todo' = Tail(todo)
    /\ UNCHANGED <<boundary, pos, up, answer, fault>>

\* The orders in which for_each may pass the entities of S.
Orders(S) == Bijection(1 .. Cardinality(S), S)

\* Variant: the entities of the old container are not put into the new ones.
SubdivideForgets(c) ==
    /\ todo # <<>> /\ fault = "none"
    /\ Reaches(c, pos[Head(todo)])
    /\ DistinctSize(c) >= MaxEntities /\ CanSubdivide(c)
    /\ boundary' = [q \in Quads \cup {Append(c, k) : k \in 1..4} |->
                       IF q \in Quads THEN boundary[q] ELSE Child(boundary[c], q[Len(q)])]
    /\ at' = [e \in Entities |-> IF at[e] = c THEN NoQuad ELSE at[e]]
    /\ UNCHANGED <<pos, todo, up, answer, fault>>

\* The leaf is full: it gets children, and all of its entities go into them.
Subdivide(c) ==
    /\ todo # <<>> /\ fault = "none"
    /\ Reaches(c, pos[Head(todo)])
    /\ DistinctSize(c) >= MaxEntities /\ CanSubdivide(c)
    /\ boundary' = [q \in Quads \cup {Append(c, k) : k \in 1..4} |->
                       IF q \in Quads THEN boundary[q] ELSE Child(boundary[c], q[Len(q)])]
    /\ at' = [e \in Entities |-> IF at[e] = c THEN NoQuad ELSE at[e]]
    /\ \E order \in Orders({e \in Entities : at[e] = c}) : todo' = order \o todo
    /\ UNCHANGED <<pos, up, answer, fault>>

\* inner() returns nullptr where the children do not cover their parent.
NoChild ==
    /\ todo # <<>> /\ fault = "none"
    /\ \A c \in Quads : ~Reaches(c, pos[Head(todo)])
    /\ fault' = "no child"
    /\ UNCHANGED <<boundary, at, pos, todo, up, answer>>

-----------------------------------------------------------------------------
(* remove and merge                                                         *)

Remove(e) ==
    /\ Idle
    /\ pos[e] # NoPoint
    /\ at[e] # NoQuad /\ Reaches(at[e], pos[e])
    /\ at' = [at EXCEPT ![e] = NoQuad]
    /\ pos' = [pos EXCEPT ![e] = NoPoint]
    /\ up' = Parent(at[e])
    /\ answer' = NoAnswer
    /\ UNCHANGED <<boundary, todo, fault>>

Merging == up # NoQuad /\ fault = "none"

\* merge(): too many entities to do anything.
KeepChildren ==
    /\ Merging
    /\ DistinctSize(up) > MaxEntities
    /\ up' = NoQuad
    /\ UNCHANGED <<boundary, at, pos, todo, answer, fault>>

\* Variant: the pointer to the last child is not reset.
MergeKeepsChild ==
    /\ Merging
    /\ DistinctSize(up) <= MaxEntities
    /\ \A k \in 1..4 : IsLeaf(Append(up, k))
    /\ boundary' = [q \in Quads \ {Append(up, k) : k \in 1..3} |-> boundary[q]]
    /\ at' = [e \in Entities |-> IF e \in Below(up) THEN up ELSE at[e]]
    /\ up' = Parent(up)
    /\ UNCHANGED <<pos, todo, answer, fault>>

\* Variant: the parent does not try to merge.
MergeOnce ==
    /\ Merging
    /\ DistinctSize(up) <= MaxEntities
    /\ \A k \in 1..4 : IsLeaf(Append(up, k))
    /\ boundary' = [q \in Quads \ {Append(up, k) : k \in 1..4} |-> boundary[q]]
    /\ at' = [e \in Entities |-> IF e \in Below(up) THEN up ELSE at[e]]
    /\ up' = NoQuad
    /\ UNCHANGED <<pos, todo, answer, fault>>

\* merge(): the children's containers become one, then the parent tries.
Merge ==
    /\ Merging
    /\ DistinctSize(up) <= MaxEntities
    /\ \A k \in 1..4 : IsLeaf(Append(up, k))
    /\ boundary' = [q \in Quads \ {Append(up, k) : k \in 1..4} |-> boundary[q]]
    /\ at' = [e \in Entities |-> IF e \in Below(up) THEN up ELSE at[e]]
    /\ up' = Parent(up)
    /\ UNCHANGED <<pos, todo, answer, fault>>

\* merge(): the container of a child that is no leaf is a null pointer.
NoContainer ==
    /\ Merging
    /\ DistinctSize(up) <= MaxEntities
    /\ \E k \in 1..4 : ~IsLeaf(Append(up, k))
    /\ fault' = "no container"
    /\ UNCHANGED <<boundary, at, pos, todo, up, answer>>

-----------------------------------------------------------------------------
(* query                                                                    *)

\* The query goes down to the leaf c: no quad on its way is out of reach.
Visits(c, p, r) ==
    \A k \in 0 .. Len(c) : Overlaps(boundary[Ancestor(c, k)], Around(p, r))

\* A second query before the next change would see the same tree.
Query(p, r) ==
    /\ Idle
    /\ answer = NoAnswer
    /\ answer' = [p |-> p, r |-> r,
                  reached |-> {e \in Entities : at[e] # NoQuad /\ Visits(at[e], p, r)}]
    /\ UNCHANGED <<boundary, at, pos, todo, up, fault>>

-----------------------------------------------------------------------------

Next ==
    \/ \E e \in Entities, p \in Points : Insert(e, p)
    \/ \E c \in Quads : InsertIntoLeaf(c)
    \/ \E c \in Quads : Subdivide(c)
    \/ NoChild
    \/ \E e \in Entities : Remove(e)
    \/ KeepChildren
    \/ Merge
    \/ NoContainer
    \/ \E p \in Points, r \in Radii : Query(p, r)

Spec == Init /\ [][Next]_vars

-----------------------------------------------------------------------------
(* Properties                                                               *)

\* Every variable has its type, and all four children of a quad exist or none.
TypeOK ==
    /\ Quads \subseteq Seq(1..4) /\ Root \in Quads
    /\ \A c \in Quads : \A k \in 1..4 : Append(c, k) \in Quads <=> ~IsLeaf(c)
    /\ boundary \in [Quads -> Square]
    /\ at \in [Entities -> Quads \cup {NoQuad}]
    /\ pos \in [Entities -> Points \cup {NoPoint}]
    /\ todo \in Seq(Entities)
    /\ up \in Quads \cup {NoQuad}
    /\ answer \in [p : Points, r : Radii, reached : SUBSET Entities] \cup {NoAnswer}
    /\ fault \in Fault

\* Between two calls every entity put into the tree is in a leaf, and in the
\* leaf that inner() leads to from the root: remove() will find it there,
\* whatever has been divided and merged since it was inserted.
EntityReachable ==
    Idle => \A e \in Entities :
        pos[e] # NoPoint => at[e] # NoQuad /\ Reaches(at[e], pos[e])

\* QUADTREE_MAX_NODES limits the points held by a container, unless its square
\* is too small to be divided (quadtree.h:12).
LeafBounded ==
    Idle => \A c \in Quads :
        IsLeaf(c) => DistinctSize(c) <= MaxEntities \/ ~CanSubdivide(c)

\* No removal leaves an inner quad that its merge() should have dissolved: an
\* inner quad holds as many points as a leaf may, or more.
InnerQuadsFull ==
    Idle => \A c \in Quads : ~IsLeaf(c) => DistinctSize(c) >= MaxEntities

\* As long as only quads of even width have been divided, inner() finds a child
\* for every point that insert() lets into the root.
ChildFound ==
    (\A c \in Quads : ~IsLeaf(c) => boundary[c].w % 2 = 0) => fault # "no child"

\* "recursively subdividing it into four quadrants" (README.md:147): the children
\* of a quad cover it, whatever its width.
QuadrantsCover == fault # "no child"

\* merge() says of the children "Brother doesnt need to be leaf!"
\* (quadtree.h:290), and then reads the containers of all four.
BrothersNeedNotBeLeaves == fault # "no container"

Index == INSTANCE SpatialIndex WITH placed <- pos

\* The tree is an index of its entities: inserting and removing change what a
\* query may see, dividing and merging do not, and a query passes all entities
\* within its radius to the callback.
IsSpatialIndex == Index!Spec

=============================================================================
