--------------------------- MODULE QuadtreeProofs ---------------------------
(***************************************************************************)
(* Proofs about Quadtree, for any width, any limit of a container and any  *)
(* entities, points and radii.                                             *)
(*                                                                         *)
(* Located is what makes the tree an index: an entity in a container is in *)
(* the one that inner() leads to, hence all quads on the way contain it,   *)
(* and a query whose square contains it overlaps all of them.              *)
(***************************************************************************)
EXTENDS Quadtree, SequenceTheorems, FiniteSetTheorems, TLAPS

\* The tree has the ancestors of its quads.
PathsClosed ==
    \A c \in Quads : \A k \in 0 .. Len(c) : Ancestor(c, k) \in Quads

\* An entity in a container is in the one that inner() leads to.
Located ==
    \A e \in Entities : at[e] # NoQuad => pos[e] # NoPoint /\ Reaches(at[e], pos[e])

\* insert() has let no entity in whose point is outside the root.
Inside ==
    \A e \in Entities : pos[e] # NoPoint => InBoundary(boundary[Root], pos[e])

\* An entity that has a point and no container waits for one, once.
Pending ==
    /\ \A e \in Entities :
          pos[e] # NoPoint /\ at[e] = NoQuad => \E i \in DOMAIN todo : todo[i] = e
    /\ \A i \in DOMAIN todo : pos[todo[i]] # NoPoint /\ at[todo[i]] = NoQuad
    /\ \A i, j \in DOMAIN todo : todo[i] = todo[j] => i = j

TreeInv == TypeOK /\ PathsClosed /\ Located /\ Inside /\ Pending

-----------------------------------------------------------------------------
(* Paths.                                                                   *)

LEMMA AncestorOf ==
    ASSUME NEW c \in Seq(1..4), NEW k \in 0 .. Len(c)
    PROVE  /\ Ancestor(c, k) \in Seq(1..4)
           /\ Len(Ancestor(c, k)) = k
           /\ \A i \in 1 .. k : Ancestor(c, k)[i] = c[i]
           /\ \A m \in 0 .. k : Ancestor(Ancestor(c, k), m) = Ancestor(c, m)
           /\ k = Len(c) => Ancestor(c, k) = c
           /\ k = 0 => Ancestor(c, k) = Root
  BY DEF Ancestor, Root

LEMMA NextAncestor ==
    ASSUME NEW c \in Seq(1..4), NEW k \in 1 .. Len(c)
    PROVE  Append(Ancestor(c, k - 1), c[k]) = Ancestor(c, k)
  BY DEF Ancestor

LEMMA ChildPath ==
    ASSUME NEW c \in Seq(1..4), NEW k \in 1..4
    PROVE  /\ Append(c, k) \in Seq(1..4)
           /\ Append(c, k) # Root
           /\ Len(Append(c, k)) = Len(c) + 1
           /\ Append(c, k)[Len(c) + 1] = k
           /\ \A m \in 0 .. Len(c) : Ancestor(Append(c, k), m) = Ancestor(c, m)
           /\ Ancestor(Append(c, k), Len(c) + 1) = Append(c, k)
           /\ Ancestor(Append(c, k), Len(c)) = c
  BY DEF Ancestor, Root

LEMMA SameChild ==
    ASSUME NEW c \in Seq(1..4), NEW d \in Seq(1..4), NEW j \in 1..4, NEW k \in 1..4,
           Append(c, j) = Append(d, k)
    PROVE  c = d /\ j = k
  <1>1. Len(c) = Len(d)
    BY ChildPath
  <1>2. c = Ancestor(Append(c, j), Len(c)) /\ d = Ancestor(Append(d, k), Len(d))
    BY ChildPath
  <1>3. j = Append(c, j)[Len(c) + 1] /\ k = Append(d, k)[Len(d) + 1]
    BY ChildPath
  <1>. QED BY <1>1, <1>2, <1>3

\* All the children of the quads on the way to c exist.
LEMMA ChildrenExist ==
    ASSUME TypeOK, PathsClosed, NEW c \in Quads, NEW k \in 1 .. Len(c), NEW j \in 1..4
    PROVE  /\ Ancestor(c, k - 1) \in Quads
           /\ ~IsLeaf(Ancestor(c, k - 1))
           /\ Append(Ancestor(c, k - 1), j) \in Quads
  <1>0. c \in Seq(1..4) /\ c[k] \in 1..4
    BY DEF TypeOK
  <1>1. Ancestor(c, k - 1) \in Quads /\ Ancestor(c, k) \in Quads
    BY <1>0 DEF PathsClosed
  <1>2. Append(Ancestor(c, k - 1), c[k]) \in Quads
    BY <1>0, <1>1, NextAncestor
  <1>. QED BY <1>0, <1>1, <1>2 DEF TypeOK

\* The way to a leaf does not change where the boundaries on it do not.
LEMMA SameWay ==
    ASSUME NEW c \in Seq(1..4), NEW p, Reaches(c, p), IsLeaf(c)',
           \A k \in 1 .. Len(c) : \A j \in 1..4 :
              boundary'[Append(Ancestor(c, k - 1), j)] = boundary[Append(Ancestor(c, k - 1), j)]
    PROVE  Reaches(c, p)'
  <1>1. ASSUME NEW k \in 1 .. Len(c)
        PROVE  Inner(Ancestor(c, k - 1), c[k], p)'
    <2>1. Inner(Ancestor(c, k - 1), c[k], p) /\ c[k] \in 1..4
      BY DEF Reaches
    <2>. QED BY <2>1 DEF Inner
  <1>. QED BY <1>1 DEF Reaches

-----------------------------------------------------------------------------
(* The actions.                                                             *)

\* An action that keeps the tree, and puts no entity anywhere.
LEMMA QuietPreserves ==
    ASSUME TreeInv, UNCHANGED <<boundary, at, pos, todo>>,
           up' \in Quads \cup {NoQuad}, fault' \in Fault,
           answer' \in [p : Points, r : Radii, reached : SUBSET Entities] \cup {NoAnswer}
    PROVE  TreeInv'
  <1>1. UNCHANGED <<Quads>>
    BY DEF Quads
  <1>2. TypeOK'
    BY <1>1 DEF TreeInv, TypeOK, IsLeaf
  <1>3. PathsClosed'
    BY <1>1 DEF TreeInv, PathsClosed
  <1>4. Located'
    BY <1>1 DEF TreeInv, Located, Reaches, Inner, IsLeaf
  <1>5. Inside' /\ Pending'
    BY DEF TreeInv, Inside, Pending
  <1>. QED BY <1>2, <1>3, <1>4, <1>5 DEF TreeInv

LEMMA ParentQuad ==
    ASSUME TypeOK, PathsClosed, NEW c \in Quads
    PROVE  Parent(c) \in Quads \cup {NoQuad}
  <1>1. c \in Seq(1..4)
    BY DEF TypeOK
  <1>2. CASE c # Root
    <2>1. Len(c) - 1 \in 0 .. Len(c)
      BY <1>1, <1>2 DEF Root
    <2>. QED BY <2>1 DEF Parent, PathsClosed
  <1>. QED BY <1>2 DEF Parent

LEMMA InitInv == Init => TreeInv
  <1> SUFFICES ASSUME Init PROVE TreeInv
    OBVIOUS
  <1>1. Quads = {Root} /\ Root \in Seq(1..4)
    BY DEF Init, Quads, Root
  <1>2. \A k \in 1..4 : Append(Root, k) # Root
    BY <1>1, ChildPath
  <1>3. TypeOK
    BY <1>1, <1>2, WidthsAssumption DEF Init, TypeOK, IsLeaf, Square, Fault
  <1>4. PathsClosed
    BY <1>1 DEF PathsClosed, Ancestor, Root
  <1>5. Located /\ Inside /\ Pending
    BY DEF Init, Located, Inside, Pending
  <1>. QED BY <1>3, <1>4, <1>5 DEF TreeInv

LEMMA InsertInv ==
    ASSUME TreeInv, NEW e \in Entities, NEW p \in Points, Insert(e, p)
    PROVE  TreeInv'
  <1>1. UNCHANGED <<Quads>>
    BY DEF Quads, Insert
  <1>2. at[e] = NoQuad /\ NoPoint # p
    BY PointsAssumption DEF TreeInv, Located, Insert
  <1>3. TypeOK'
    BY <1>1 DEF TreeInv, TypeOK, IsLeaf, Insert
  <1>4. PathsClosed'
    BY <1>1 DEF TreeInv, PathsClosed, Insert
  <1>5. Located'
    BY <1>1, <1>2 DEF TreeInv, TypeOK, Located, Reaches, Inner, IsLeaf, Insert
  <1>6. Inside'
    BY DEF TreeInv, TypeOK, Inside, Insert
  <1>7. Pending'
    BY <1>2 DEF TreeInv, TypeOK, Pending, Insert, Idle
  <1>. QED BY <1>3, <1>4, <1>5, <1>6, <1>7 DEF TreeInv

LEMMA InsertIntoLeafInv ==
    ASSUME TreeInv, NEW c \in Quads, InsertIntoLeaf(c)
    PROVE  TreeInv'
  <1>1. UNCHANGED <<Quads, boundary, pos>>
    BY DEF Quads, InsertIntoLeaf
  <1>2. /\ todo \in Seq(Entities) /\ todo # <<>> /\ Head(todo) = todo[1] /\ todo[1] \in Entities
        /\ Tail(todo) \in Seq(Entities)
        /\ \A i \in DOMAIN Tail(todo) : i + 1 \in DOMAIN todo /\ Tail(todo)[i] = todo[i + 1]
        /\ \A i \in DOMAIN todo : i = 1 \/ i - 1 \in DOMAIN Tail(todo)
    BY HeadTailProperties DEF TreeInv, TypeOK, InsertIntoLeaf
  <1>3. at' = [at EXCEPT ![todo[1]] = c] /\ todo' = Tail(todo)
    BY <1>2 DEF InsertIntoLeaf
  <1>4. TypeOK'
    BY <1>1, <1>2, <1>3 DEF TreeInv, TypeOK, IsLeaf, InsertIntoLeaf
  <1>5. PathsClosed' /\ Inside'
    BY <1>1 DEF TreeInv, PathsClosed, Inside
  <1>6. Located'
    <2>1. Reaches(c, pos[todo[1]]) /\ pos[todo[1]] # NoPoint
      BY <1>2 DEF InsertIntoLeaf, TreeInv, Pending
    <2>2. \A d \in Quads : \A p : Reaches(d, p) => Reaches(d, p)'
      BY <1>1 DEF Reaches, Inner, IsLeaf
    <2>3. c # NoQuad
      BY NoQuadAssumption DEF TreeInv, TypeOK
    <2>. QED BY <1>1, <1>2, <1>3, <2>1, <2>2, <2>3 DEF TreeInv, TypeOK, Located
  <1>7. Pending'
    <2>1. c # NoQuad /\ 1 \in DOMAIN todo
      BY <1>2, NoQuadAssumption DEF TreeInv, TypeOK
    <2>2. ASSUME NEW e \in Entities, pos'[e] # NoPoint, at'[e] = NoQuad
          PROVE  \E i \in DOMAIN todo' : todo'[i] = e
      <3>1. e # todo[1] /\ at[e] = NoQuad
        BY <1>2, <1>3, <2>1, <2>2 DEF TreeInv, TypeOK
      <3>2. PICK i \in DOMAIN todo : todo[i] = e
        BY <1>1, <2>2, <3>1 DEF TreeInv, Pending
      <3>3. i # 1 /\ i \in Int
        BY <1>2, <3>1, <3>2
      <3>4. i - 1 \in DOMAIN Tail(todo) /\ Tail(todo)[i - 1] = todo[(i - 1) + 1]
        BY <1>2, <3>3
      <3>. QED BY <1>3, <3>2, <3>3, <3>4
    <2>3. ASSUME NEW i \in DOMAIN todo'
          PROVE  pos'[todo'[i]] # NoPoint /\ at'[todo'[i]] = NoQuad
      <3>1. i + 1 \in DOMAIN todo /\ todo'[i] = todo[i + 1] /\ i + 1 # 1
        BY <1>2, <1>3
      <3>2. todo[i + 1] # todo[1] /\ todo[i + 1] \in Entities
        BY <2>1, <3>1, <1>2 DEF TreeInv, Pending
      <3>. QED BY <1>1, <1>3, <3>1, <3>2 DEF TreeInv, TypeOK, Pending
    <2>4. \A i, j \in DOMAIN todo' : todo'[i] = todo'[j] => i = j
      BY <1>2, <1>3 DEF TreeInv, Pending
    <2>. QED BY <2>2, <2>3, <2>4 DEF Pending
  <1>. QED BY <1>4, <1>5, <1>6, <1>7 DEF TreeInv

LEMMA SubdivideInv ==
    ASSUME TreeInv, NEW c \in Quads, Subdivide(c)
    PROVE  TreeInv'
  <1> DEFINE New  == {Append(c, k) : k \in 1..4}
             Held == {e \in Entities : at[e] = c}
  <1>0. c \in Seq(1..4) /\ Quads \subseteq Seq(1..4) /\ c # NoQuad
    BY NoQuadAssumption DEF TreeInv, TypeOK
  <1>1. /\ IsLeaf(c)
        /\ at' = [e \in Entities |-> IF at[e] = c THEN NoQuad ELSE at[e]]
        /\ UNCHANGED <<pos, up, answer, fault>>
    BY DEF Subdivide, Reaches
  <1>2. New \cap Quads = {}
    BY <1>0, <1>1 DEF TreeInv, TypeOK
  <1>3. /\ Quads' = Quads \cup New
        /\ \A q \in Quads : boundary'[q] = boundary[q]
        /\ \A q \in New : boundary'[q] = Child(boundary[c], q[Len(q)])
        /\ boundary' = [q \in Quads' |-> boundary'[q]]
    <2>1. boundary' = [q \in Quads \cup New |->
                          IF q \in Quads THEN boundary[q] ELSE Child(boundary[c], q[Len(q)])]
      BY DEF Subdivide
    <2>2. Quads' = Quads \cup New
      BY <2>1 DEF Quads
    <2>. QED BY <1>2, <2>1, <2>2
  <1>4. PICK order \in Orders(Held) : todo' = order \o todo
    BY DEF Subdivide
  <1> DEFINE n == Len(order)
  <1>a. /\ order \in Seq(Entities) /\ \A i \in DOMAIN order : order[i] \in Held
        /\ \A i, j \in DOMAIN order : order[i] = order[j] => i = j
        /\ \A e \in Held : \E i \in DOMAIN order : order[i] = e
    <2>1. Cardinality(Held) \in Nat
      BY EntitiesAssumption, FS_Subset, FS_CardinalityType
    <2>2. /\ order \in [1 .. Cardinality(Held) -> Held]
          /\ \A i, j \in 1 .. Cardinality(Held) : order[i] = order[j] => i = j
          /\ \A e \in Held : \E i \in 1 .. Cardinality(Held) : order[i] = e
      BY <1>4 DEF Orders, Bijection, Injection, Surjection, IsInjective
    <2>3. order \in Seq(Entities) /\ DOMAIN order = 1 .. Cardinality(Held)
      BY <2>1, <2>2
    <2>. QED BY <2>2, <2>3
  <1>5. \A d \in Quads : \A j \in 1..4 :
            d # c => (Append(d, j) \in Quads' <=> Append(d, j) \in Quads)
    BY <1>0, <1>3, SameChild
  <1>6. \A k, j \in 1..4 : Append(Append(c, k), j) \notin Quads'
    <2>1. ASSUME NEW k \in 1..4, NEW j \in 1..4, Append(Append(c, k), j) \in Quads
          PROVE  FALSE
      <3>1. Append(c, k) \in Seq(1..4) /\ Len(Append(c, k)) = Len(c) + 1
        BY <1>0, ChildPath
      <3>2. /\ Ancestor(Append(Append(c, k), j), Len(c) + 1) = Append(c, k)
            /\ Len(c) + 1 \in 0 .. Len(Append(Append(c, k), j))
        <4>1. /\ Len(Append(Append(c, k), j)) = Len(Append(c, k)) + 1
              /\ Ancestor(Append(Append(c, k), j), Len(Append(c, k))) = Append(c, k)
          BY <3>1, ChildPath
        <4>. QED BY <1>0, <3>1, <4>1
      <3>. QED BY <1>2, <2>1, <3>1, <3>2 DEF TreeInv, PathsClosed
    <2>2. ASSUME NEW k \in 1..4, NEW j \in 1..4, Append(Append(c, k), j) \in New
          PROVE  FALSE
      <3>1. PICK i \in 1..4 : Append(Append(c, k), j) = Append(c, i)
        BY <2>2
      <3>2. /\ Append(c, k) \in Seq(1..4) /\ Len(Append(c, k)) = Len(c) + 1
            /\ Len(Append(c, i)) = Len(c) + 1
        BY <1>0, ChildPath
      <3>3. Len(Append(Append(c, k), j)) = Len(Append(c, k)) + 1
        BY <3>2, ChildPath
      <3>. QED BY <1>0, <3>1, <3>2, <3>3
    <2>. QED BY <1>3, <2>1, <2>2
  <1>7. TypeOK'
    <2>1. Quads' \subseteq Seq(1..4) /\ Root \in Quads'
      <3>1. New \subseteq Seq(1..4)
        BY <1>0, ChildPath
      <3>. QED BY <1>0, <1>3, <3>1 DEF TreeInv, TypeOK
    <2>2. \A d \in Quads' : \A k \in 1..4 : Append(d, k) \in Quads' <=> ~IsLeaf(d)'
      <3>1. ASSUME NEW d \in Quads, d # c
            PROVE  \A k \in 1..4 : Append(d, k) \in Quads' <=> ~IsLeaf(d)'
        BY <1>5, <3>1 DEF TreeInv, TypeOK, IsLeaf
      <3>2. \A k \in 1..4 : Append(c, k) \in Quads' <=> ~IsLeaf(c)'
        BY <1>3 DEF IsLeaf
      <3>3. ASSUME NEW d \in New
            PROVE  \A k \in 1..4 : Append(d, k) \in Quads' <=> ~IsLeaf(d)'
        <4>1. PICK i \in 1..4 : d = Append(c, i)
          OBVIOUS
        <4>. QED BY <1>6, <4>1 DEF IsLeaf
      <3>. QED BY <1>3, <3>1, <3>2, <3>3
    <2>3. boundary' \in [Quads' -> Square]
      <3>1. boundary[c] \in Square
        BY DEF TreeInv, TypeOK
      <3>2. \A k \in 1..4 : Child(boundary[c], k) \in Square
        BY <3>1 DEF Child, Square
      <3>3. \A q \in New : q[Len(q)] \in 1..4
        BY <1>0, ChildPath
      <3>4. \A q \in Quads : boundary[q] \in Square
        BY DEF TreeInv, TypeOK
      <3>. QED BY <1>3, <3>2, <3>3, <3>4
    <2>4. todo' \in Seq(Entities)
      <3>1. todo \in Seq(Entities)
        BY DEF TreeInv, TypeOK
      <3>. QED BY <1>4, <1>a, <3>1, ConcatProperties
    <2>. QED BY <1>1, <1>3, <2>1, <2>2, <2>3, <2>4 DEF TreeInv, TypeOK
  <1>8. PathsClosed'
    <2>1. ASSUME NEW j \in 1..4, NEW k \in 0 .. Len(Append(c, j))
          PROVE  Ancestor(Append(c, j), k) \in Quads'
      <3>1. CASE k = Len(c) + 1
        BY <1>0, <1>3, <3>1, ChildPath
      <3>2. CASE k \in 0 .. Len(c)
        BY <1>0, <1>3, <3>2, ChildPath DEF TreeInv, PathsClosed
      <3>. QED BY <1>0, <3>1, <3>2, ChildPath
    <2>. QED BY <1>3, <2>1 DEF TreeInv, PathsClosed
  <1>9. Located'
    <2> SUFFICES ASSUME NEW e \in Entities, at'[e] # NoQuad
                 PROVE  (pos[e] # NoPoint /\ Reaches(at[e], pos[e]))'
      BY DEF Located
    <2>0. PICK d, p : d = at[e] /\ p = pos[e]
      OBVIOUS
    <2>1. /\ at'[e] = d /\ pos'[e] = p /\ d \in Quads /\ d # c /\ p # NoPoint
          /\ Reaches(d, p)
      BY <1>1, <2>0 DEF TreeInv, TypeOK, Located
    <2>2. IsLeaf(d)'
      BY <1>5, <2>1 DEF IsLeaf, Reaches
    <2>3. \A k \in 1 .. Len(d) : \A j \in 1..4 :
             boundary'[Append(Ancestor(d, k - 1), j)] = boundary[Append(Ancestor(d, k - 1), j)]
      BY <1>3, <2>1, ChildrenExist DEF TreeInv
    <2>4. Reaches(d, p)'
      BY <1>0, <2>1, <2>2, <2>3, SameWay
    <2>. QED BY <2>1, <2>4 DEF Reaches
  <1>10. Inside'
    BY <1>1, <1>3 DEF TreeInv, TypeOK, Inside
  <1>11. Pending'
    <2>0. /\ todo \in Seq(Entities) /\ Len(todo) \in Nat /\ n \in Nat
          /\ DOMAIN todo = 1 .. Len(todo) /\ DOMAIN order = 1 .. n
      BY <1>a DEF TreeInv, TypeOK
    <2>1. /\ DOMAIN todo' = 1 .. n + Len(todo)
          /\ \A i \in DOMAIN todo' : todo'[i] = IF i <= n THEN order[i] ELSE todo[i - n]
      BY <1>4, <1>a, <2>0, ConcatProperties
    <2>2. \A i \in DOMAIN todo' :
             \/ i \in DOMAIN order /\ todo'[i] = order[i]
             \/ i - n \in DOMAIN todo /\ todo'[i] = todo[i - n]
      BY <2>0, <2>1
    <2>3. ASSUME NEW e \in Entities, pos'[e] # NoPoint, at'[e] = NoQuad
          PROVE  \E i \in DOMAIN todo' : todo'[i] = e
      <3>1. CASE e \in Held
        <4>1. PICK i \in DOMAIN order : order[i] = e
          BY <1>a, <3>1
        <4>. QED BY <2>0, <2>1, <4>1
      <3>2. CASE e \notin Held
        <4>1. PICK i \in DOMAIN todo : todo[i] = e
          BY <1>1, <2>3, <3>2 DEF TreeInv, Pending
        <4>2. n + i \in DOMAIN todo' /\ ~(n + i <= n) /\ (n + i) - n = i
          BY <2>0, <2>1, <4>1
        <4>. QED BY <2>1, <4>1, <4>2
      <3>. QED BY <3>1, <3>2
    <2>4. \A e \in Held : pos[e] # NoPoint /\ at'[e] = NoQuad /\ at[e] # NoQuad
      BY <1>0, <1>1 DEF TreeInv, Located
    <2>5. \A i \in DOMAIN todo : /\ todo[i] \in Entities
                                 /\ pos[todo[i]] # NoPoint /\ at[todo[i]] = NoQuad
      BY <2>0 DEF TreeInv, Pending
    <2>6. \A i \in DOMAIN todo' : pos'[todo'[i]] # NoPoint /\ at'[todo'[i]] = NoQuad
      BY <1>1, <1>a, <2>2, <2>4, <2>5
    <2>7. \A i, j \in DOMAIN todo' : todo'[i] = todo'[j] => i = j
      <3> SUFFICES ASSUME NEW i \in DOMAIN todo', NEW j \in DOMAIN todo', todo'[i] = todo'[j]
                   PROVE  i = j
        OBVIOUS
      <3>1. CASE i \in DOMAIN order /\ todo'[i] = order[i]
        <4>1. order[i] \in Held /\ at[order[i]] # NoQuad
          BY <1>a, <2>4, <3>1
        <4>2. j \in DOMAIN order /\ todo'[j] = order[j]
          BY <2>2, <2>5, <3>1, <4>1
        <4>. QED BY <1>a, <3>1, <4>2
      <3>2. CASE i - n \in DOMAIN todo /\ todo'[i] = todo[i - n]
        <4>1. j - n \in DOMAIN todo /\ todo'[j] = todo[j - n]
          <5>1. at[todo'[j]] = NoQuad
            BY <2>5, <3>2
          <5>. QED BY <1>a, <2>2, <2>4, <5>1
        <4>2. i - n = j - n
          BY <3>2, <4>1 DEF TreeInv, Pending
        <4>. QED BY <2>0, <2>1, <4>2
      <3>. QED BY <2>2, <3>1, <3>2
    <2>. QED BY <2>3, <2>6, <2>7 DEF Pending
  <1>. QED BY <1>7, <1>8, <1>9, <1>10, <1>11 DEF TreeInv

LEMMA RemoveInv ==
    ASSUME TreeInv, NEW e \in Entities, Remove(e)
    PROVE  TreeInv'
  <1>1. UNCHANGED <<Quads, boundary, todo, fault>>
    BY DEF Quads, Remove
  <1>2. at[e] \in Quads /\ at[e] # NoQuad
    BY DEF TreeInv, TypeOK, Remove
  <1>3. at' = [at EXCEPT ![e] = NoQuad] /\ pos' = [pos EXCEPT ![e] = NoPoint]
    BY DEF Remove
  <1>4. TypeOK'
    <2>1. up' \in Quads \cup {NoQuad}
      BY <1>2, ParentQuad DEF TreeInv, Remove
    <2>. QED BY <1>1, <1>3, <2>1 DEF TreeInv, TypeOK, IsLeaf, Remove
  <1>5. PathsClosed'
    BY <1>1 DEF TreeInv, PathsClosed
  <1>6. Located'
    BY <1>1, <1>3 DEF TreeInv, TypeOK, Located, Reaches, Inner, IsLeaf
  <1>7. Inside'
    BY <1>1, <1>3 DEF TreeInv, TypeOK, Inside
  <1>8. Pending'
    BY <1>1, <1>2, <1>3 DEF TreeInv, TypeOK, Pending
  <1>. QED BY <1>4, <1>5, <1>6, <1>7, <1>8 DEF TreeInv

LEMMA MergeInv ==
    ASSUME TreeInv, Merge
    PROVE  TreeInv'
  <1>0. PICK u : u = up
    OBVIOUS
  <1> DEFINE Gone  == {Append(u, k) : k \in 1..4}
             Moved == Below(u)
  <1>1. /\ u \in Quads /\ u \in Seq(1..4) /\ Quads \subseteq Seq(1..4)
        /\ \A k \in 1..4 : IsLeaf(Append(u, k))
        /\ at' = [e \in Entities |-> IF e \in Moved THEN u ELSE at[e]]
        /\ u # NoQuad
        /\ UNCHANGED <<pos, todo, answer, fault>>
    BY <1>0 DEF TreeInv, TypeOK, Merge, Merging
  <1>2. /\ Quads' = Quads \ Gone
        /\ \A q \in Quads' : boundary'[q] = boundary[q]
        /\ boundary' = [q \in Quads' |-> boundary'[q]]
    BY <1>0 DEF Merge, Quads
  <1>3. u \in Quads' /\ Root \in Quads'
    BY <1>1, <1>2, ChildPath DEF TreeInv, TypeOK
  <1>4. \A k \in 1..4 : Append(u, k) \notin Quads'
    BY <1>2
  <1>5. \A d \in Quads : \A j \in 1..4 :
            d # u => (Append(d, j) \in Quads' <=> Append(d, j) \in Quads)
    <2>1. ASSUME NEW d \in Quads, NEW j \in 1..4, Append(d, j) \in Gone
          PROVE  d = u
      <3>1. PICK k \in 1..4 : Append(d, j) = Append(u, k)
        BY <2>1
      <3>2. d \in Seq(1..4)
        BY <1>1
      <3>. QED BY <1>1, <3>1, <3>2, SameChild
    <2>. QED BY <1>2, <2>1
  \* What lies below a quad that goes has been in it.
  <1>6. ASSUME NEW d \in Quads, NEW k \in 0 .. Len(d), Ancestor(d, k) \in Gone
        PROVE  d = Ancestor(d, k)
    <2>0. d \in Seq(1..4)
      BY <1>1
    <2>1. SUFFICES ASSUME k # Len(d) PROVE FALSE
      BY <2>0, AncestorOf
    <2>2. PICK j \in 1..4 : Ancestor(d, k) = Append(u, j)
      BY <1>6
    <2>3. k + 1 \in 1 .. Len(d) /\ (k + 1) - 1 = k
      BY <2>0, <2>1
    <2>4. ~IsLeaf(Ancestor(d, (k + 1) - 1))
      BY <2>3, ChildrenExist DEF TreeInv
    <2>. QED BY <1>1, <2>2, <2>3, <2>4
  <1>7. \A e \in Entities : e \notin Moved /\ at[e] # NoQuad => at[e] \in Quads'
    <2> SUFFICES ASSUME NEW e \in Entities, e \notin Moved, at[e] # NoQuad,
                        NEW k \in 1..4, at[e] = Append(u, k)
                 PROVE  FALSE
      BY <1>2 DEF TreeInv, TypeOK
    <2>1. Len(u) <= Len(at[e]) /\ Ancestor(at[e], Len(u)) = u
      BY <1>1, ChildPath
    <2>. QED BY <2>1 DEF Below
  <1>8. TypeOK'
    <2>1. \A d \in Quads' : \A k \in 1..4 : Append(d, k) \in Quads' <=> ~IsLeaf(d)'
      <3>1. ASSUME NEW d \in Quads', d # u
            PROVE  \A k \in 1..4 : Append(d, k) \in Quads' <=> ~IsLeaf(d)'
        <4>1. d \in Quads
          BY <1>2
        <4>2. \A k \in 1..4 : Append(d, k) \in Quads <=> Append(d, 1) \in Quads
          BY <4>1 DEF TreeInv, TypeOK, IsLeaf
        <4>3. \A k \in 1..4 : Append(d, k) \in Quads' <=> Append(d, k) \in Quads
          BY <1>5, <3>1, <4>1
        <4>4. IsLeaf(d)' <=> Append(d, 1) \notin Quads'
          BY DEF IsLeaf
        <4>. QED BY <4>2, <4>3, <4>4
      <3>2. \A k \in 1..4 : Append(u, k) \in Quads' <=> ~IsLeaf(u)'
        BY <1>4 DEF IsLeaf
      <3>. QED BY <3>1, <3>2
    <2>2. boundary' \in [Quads' -> Square]
      BY <1>2 DEF TreeInv, TypeOK
    <2>3. at' \in [Entities -> Quads' \cup {NoQuad}]
      BY <1>1, <1>3, <1>7 DEF TreeInv, TypeOK
    <2>4. up' \in Quads' \cup {NoQuad}
      <3>1. up' = Parent(u) /\ Parent(u) \in Quads \cup {NoQuad}
        BY <1>0, <1>1, ParentQuad DEF TreeInv, Merge
      <3>2. Parent(u) \notin Gone
        <4>1. CASE u = Root
          <5>1. Parent(u) = NoQuad
            BY <4>1 DEF Parent
          <5>. QED BY <1>1, <5>1, ChildPath, NoQuadAssumption
        <4>2. CASE u # Root
          <5>1. Len(u) - 1 \in 0 .. Len(u) /\ Parent(u) = Ancestor(u, Len(u) - 1)
            BY <1>1, <4>2 DEF Parent, Root
          <5>2. Len(Parent(u)) = Len(u) - 1
            BY <1>1, <5>1, AncestorOf
          <5>. QED BY <1>1, <5>2, ChildPath
        <4>. QED BY <4>1, <4>2
      <3>. QED BY <1>2, <3>1, <3>2
    <2>5. Quads' \subseteq Seq(1..4)
      BY <1>1, <1>2
    <2>. QED BY <1>1, <1>3, <2>1, <2>2, <2>3, <2>4, <2>5 DEF TreeInv, TypeOK
  <1>9. PathsClosed'
    BY <1>2, <1>6 DEF TreeInv, PathsClosed
  <1>10. Located'
    <2> SUFFICES ASSUME NEW e \in Entities, at'[e] # NoQuad
                 PROVE  (pos[e] # NoPoint /\ Reaches(at[e], pos[e]))'
      BY DEF Located
    <2>0. PICK d, p : d = at[e] /\ p = pos[e]
      OBVIOUS
    <2>1. /\ d \in Quads /\ d \in Seq(1..4) /\ d # NoQuad
          /\ p # NoPoint /\ pos'[e] = p /\ Reaches(d, p)
      BY <1>1, <2>0 DEF TreeInv, TypeOK, Located, Below
    <2>2. CASE e \in Moved
      <3>1. at'[e] = u /\ Len(u) \in 0 .. Len(d) /\ Ancestor(d, Len(u)) = u
        BY <1>1, <2>0, <2>1, <2>2 DEF Below
      <3>2. IsLeaf(u)'
        BY <1>4 DEF IsLeaf
      <3>3. ASSUME NEW k \in 1 .. Len(u)
            PROVE  Inner(Ancestor(u, k - 1), u[k], p)'
        <4>1. /\ k \in 1 .. Len(d) /\ u[k] = d[k] /\ u[k] \in 1..4
              /\ Ancestor(u, k - 1) = Ancestor(d, k - 1)
          BY <1>1, <2>1, <3>1, AncestorOf
        <4>2. Inner(Ancestor(u, k - 1), u[k], p)
          BY <2>1, <4>1 DEF Reaches
        <4>3. Ancestor(u, k - 1) \in Quads /\ Ancestor(u, k - 1) # u
          <5>1. Len(Ancestor(u, k - 1)) = k - 1
            BY <1>1, AncestorOf
          <5>. QED BY <1>1, <5>1, ChildrenExist DEF TreeInv
        <4>4. \A j \in 1..4 : Append(Ancestor(u, k - 1), j) \in Quads'
          BY <1>1, <1>5, <4>3, ChildrenExist DEF TreeInv
        <4>5. \A j \in 1..4 : boundary'[Append(Ancestor(u, k - 1), j)]
                             = boundary[Append(Ancestor(u, k - 1), j)]
          BY <1>2, <4>4
        <4>. QED BY <4>1, <4>2, <4>5 DEF Inner
      <3>4. Reaches(u, p)'
        BY <3>2, <3>3 DEF Reaches
      <3>. QED BY <2>1, <3>1, <3>4 DEF Reaches
    <2>3. CASE e \notin Moved
      <3>1. at'[e] = d
        BY <1>1, <2>0, <2>3
      <3>2. IsLeaf(d)'
        BY <1>2, <2>1 DEF IsLeaf, Reaches
      <3>3. ASSUME NEW k \in 1 .. Len(d), NEW j \in 1..4
            PROVE  Append(Ancestor(d, k - 1), j) \in Quads'
        <4>1. Ancestor(d, k - 1) # u
          <5>1. Len(Ancestor(d, k - 1)) = k - 1
            BY <2>1, AncestorOf
          <5>. QED BY <2>0, <2>1, <2>3, <5>1 DEF Below
        <4>. QED BY <1>5, <2>1, <4>1, ChildrenExist DEF TreeInv
      <3>4. Reaches(d, p)'
        BY <1>2, <2>1, <3>2, <3>3, SameWay
      <3>. QED BY <2>1, <3>1, <3>4 DEF Reaches
    <2>. QED BY <2>2, <2>3
  <1>11. Inside'
    BY <1>1, <1>2, <1>3 DEF TreeInv, TypeOK, Inside
  <1>12. Pending'
    BY <1>1 DEF TreeInv, TypeOK, Pending, Below
  <1>. QED BY <1>8, <1>9, <1>10, <1>11, <1>12 DEF TreeInv

LEMMA QueryInv ==
    ASSUME TreeInv, NEW p \in Points, NEW r \in Radii, Query(p, r)
    PROVE  TreeInv'
  <1>1. answer' \in [p : Points, r : Radii, reached : SUBSET Entities]
    BY DEF Query
  <1>. QED BY <1>1, QuietPreserves DEF TreeInv, TypeOK, Query

LEMMA StepInv == TreeInv /\ [Next]_vars => TreeInv'
  <1> SUFFICES ASSUME TreeInv, [Next]_vars PROVE TreeInv'
    OBVIOUS
  <1>1. ASSUME NEW e \in Entities, NEW p \in Points, Insert(e, p) PROVE TreeInv'
    BY <1>1, InsertInv
  <1>2. ASSUME NEW c \in Quads, InsertIntoLeaf(c) PROVE TreeInv'
    BY <1>2, InsertIntoLeafInv
  <1>3. ASSUME NEW c \in Quads, Subdivide(c) PROVE TreeInv'
    BY <1>3, SubdivideInv
  <1>4. CASE NoChild
    BY <1>4, QuietPreserves DEF TreeInv, TypeOK, NoChild, Fault
  <1>5. ASSUME NEW e \in Entities, Remove(e) PROVE TreeInv'
    BY <1>5, RemoveInv
  <1>6. CASE KeepChildren
    BY <1>6, QuietPreserves DEF TreeInv, TypeOK, KeepChildren
  <1>7. CASE Merge
    BY <1>7, MergeInv
  <1>8. CASE NoContainer
    BY <1>8, QuietPreserves DEF TreeInv, TypeOK, NoContainer, Fault
  <1>9. ASSUME NEW p \in Points, NEW r \in Radii, Query(p, r) PROVE TreeInv'
    BY <1>9, QueryInv
  <1>10. CASE UNCHANGED vars
    BY <1>10, QuietPreserves DEF TreeInv, TypeOK, vars
  <1>. QED
    BY <1>1, <1>2, <1>3, <1>4, <1>5, <1>6, <1>7, <1>8, <1>9, <1>10 DEF Next

LEMMA TreeInvariant == Spec => []TreeInv
  BY InitInv, StepInv, PTL DEF Spec

-----------------------------------------------------------------------------
(* The theorems.                                                            *)

\* Every variable has its type, and a quad has all four children or none.
THEOREM TypeCorrect == Spec => []TypeOK
  BY TreeInvariant, PTL DEF TreeInv

\* remove() finds every entity where inner() leads, whatever the tree has gone
\* through since the entity was inserted.
THEOREM RemoveFinds == Spec => []EntityReachable
  <1>1. TreeInv => EntityReachable
    BY DEF TreeInv, TypeOK, Located, Pending, EntityReachable, Idle
  <1>. QED BY <1>1, TreeInvariant, PTL

\* A point within the radius lies in the square around the circle.
LEMMA WithinSquare ==
    ASSUME NEW p \in Points, NEW q \in Points, NEW r \in Radii, Index!Within(q, p, r)
    PROVE  /\ p.x - r <= q.x /\ q.x <= p.x + r
           /\ p.y - r <= q.y /\ q.y <= p.y + r
  <1>0. p.x \in Int /\ p.y \in Int /\ q.x \in Int /\ q.y \in Int /\ r \in Nat
    BY PointsAssumption, RadiiAssumption
  <1>1. ASSUME NEW a \in Int, NEW b \in Int, a * a + b * b < (r + 1) * (r + 1)
        PROVE  -r <= a /\ a <= r
    <2>1. \A n \in Int : n * n >= 0
      OBVIOUS
    <2>2. ASSUME NEW n \in Int, n >= r + 1
          PROVE  n * n >= (r + 1) * (r + 1)
      <3>1. PICK d \in Nat : n = (r + 1) + d
        <4>1. n - (r + 1) \in Nat
          BY <1>0, <2>2
        <4>. QED BY <1>0, <4>1
      <3>2. n * n = (r + 1) * (r + 1) + 2 * d * (r + 1) + d * d
        BY <1>0, <3>1
      <3>3. 2 * d * (r + 1) >= 0 /\ d * d >= 0
        BY <1>0
      <3>. QED BY <1>0, <3>2, <3>3
    <2>3. a * a < (r + 1) * (r + 1) /\ (-a) * (-a) = a * a
      BY <1>0, <1>1, <2>1
    <2>4. ~(a >= r + 1) /\ ~(-a >= r + 1)
      BY <1>0, <2>2, <2>3
    <2>. QED BY <1>0, <2>4
  <1>2. /\ -r <= q.x - p.x /\ q.x - p.x <= r
        /\ -r <= q.y - p.y /\ q.y - p.y <= r
    BY <1>0, <1>1 DEF Index!Within
  <1>. QED BY <1>0, <1>2

\* A query comes to the leaf of every entity within its radius.
LEMMA QueryReaches ==
    ASSUME TreeInv, NEW e \in Entities, NEW p \in Points, NEW r \in Radii,
           pos[e] # NoPoint, at[e] # NoQuad, Index!Within(pos[e], p, r)
    PROVE  Visits(at[e], p, r)
  <1> DEFINE c == at[e]
             q == pos[e]
  <1>1. /\ c \in Quads /\ c \in Seq(1..4) /\ q \in Points /\ Reaches(c, q)
        /\ InBoundary(boundary[Root], q)
    BY DEF TreeInv, TypeOK, Located, Inside
  <1>2. /\ p.x - r <= q.x /\ q.x <= p.x + r
        /\ p.y - r <= q.y /\ q.y <= p.y + r
        /\ p.x \in Int /\ p.y \in Int /\ q.x \in Int /\ q.y \in Int /\ r \in Nat
    BY <1>1, WithinSquare, PointsAssumption, RadiiAssumption
  <1>3. ASSUME NEW b \in Square, InBoundary(b, q)
        PROVE  Overlaps(b, Around(p, r))
    <2>1. b.x \in Int /\ b.y \in Int /\ b.w \in Nat
      BY DEF Square
    <2>. QED BY <1>2, <1>3, <2>1 DEF InBoundary, Overlaps, Around
  <1>4. ASSUME NEW k \in 0 .. Len(c)
        PROVE  InBoundary(boundary[Ancestor(c, k)], q)
    <2>1. CASE k = 0
      BY <1>1, <2>1, AncestorOf
    <2>2. CASE k \in 1 .. Len(c)
      BY <1>1, <2>2, NextAncestor DEF Reaches, Inner
    <2>. QED BY <1>1, <2>1, <2>2
  <1>5. \A k \in 0 .. Len(c) : boundary[Ancestor(c, k)] \in Square
    BY <1>1 DEF TreeInv, TypeOK, PathsClosed
  <1>. QED BY <1>3, <1>4, <1>5 DEF Visits

\* The quadtree is an index of its entities: its queries miss none that is
\* within the radius, however insert(), remove() and merge() have shaped it.
THEOREM Implements == Spec => IsSpatialIndex
  <1>1. Init => Index!Init
    BY DEF Init, Index!Init
  <1>2. TreeInv /\ [Next]_vars => [Index!Next]_Index!vars
    <2> SUFFICES ASSUME TreeInv, [Next]_vars PROVE [Index!Next]_Index!vars
      OBVIOUS
    <2>1. ASSUME NEW e \in Entities, NEW p \in Points, Insert(e, p)
          PROVE  Index!Next
      BY <2>1 DEF Insert, Index!Insert, Index!Next
    <2>2. ASSUME NEW e \in Entities, Remove(e)
          PROVE  Index!Next
      BY <2>2 DEF Remove, Index!Remove, Index!Next
    <2>3. ASSUME NEW p \in Points, NEW r \in Radii, Query(p, r)
          PROVE  Index!Next
      <3> DEFINE reached == {e \in Entities : at[e] # NoQuad /\ Visits(at[e], p, r)}
      <3>1. reached \in SUBSET Index!Placed
        BY DEF TreeInv, Located, Index!Placed
      <3>2. \A e \in Index!Placed : at[e] # NoQuad
        BY <2>3 DEF TreeInv, TypeOK, Pending, Query, Idle, Index!Placed
      <3>3. {e \in Index!Placed : Index!Within(pos[e], p, r)} \subseteq reached
        BY <3>2, QueryReaches DEF Index!Placed
      <3>4. answer' = [p |-> p, r |-> r, reached |-> reached] /\ UNCHANGED pos
        BY <2>3 DEF Query
      <3>5. Index!Query(p, r)
        BY <3>1, <3>3, <3>4 DEF Index!Query
      <3>. QED BY <3>5 DEF Index!Next
    <2>4. ASSUME NEW c \in Quads, InsertIntoLeaf(c) \/ Subdivide(c)
          PROVE  UNCHANGED Index!vars
      BY <2>4 DEF InsertIntoLeaf, Subdivide, Index!vars
    <2>5. CASE NoChild \/ KeepChildren \/ Merge \/ NoContainer \/ UNCHANGED vars
      BY <2>5 DEF NoChild, KeepChildren, Merge, NoContainer, vars, Index!vars
    <2>. QED BY <2>1, <2>2, <2>3, <2>4, <2>5 DEF Next
  <1>. QED BY <1>1, <1>2, TreeInvariant, PTL DEF Spec, IsSpatialIndex, Index!Spec

-----------------------------------------------------------------------------
(* How full the quads are, and that inner() finds a child.                  *)
(*                                                                          *)
(* The entities of a leaf that is being divided are in no container until   *)
(* they are in the new ones.  What a quad is to hold, Wanted, depends only  *)
(* on the points and the boundaries, so dividing and merging leave it       *)
(* alone; between two calls it is what lies below the quad.                 *)

\* inner() leads to c.
OnWay(c, p) == \A k \in 1 .. Len(c) : Inner(Ancestor(c, k - 1), c[k], p)

\* The entities that are below c, or will be when the insertion is done.
Wanted(c) == {e \in Entities : pos[e] # NoPoint /\ OnWay(c, pos[e])}

\* merge() has yet to look at c: it is called for up, and then for its parents.
MayMerge(c) == up # NoQuad /\ Len(c) <= Len(up) /\ Ancestor(up, Len(c)) = c

\* The way of a point ends at a leaf, or in a quad whose children leave points out.
ChildrenCover ==
    \A p \in Points : InBoundary(boundary[Root], p) =>
        \E c \in Quads : OnWay(c, p) /\ (IsLeaf(c) \/ boundary[c].w % 2 # 0)

LeavesBounded ==
    \A c \in Quads : IsLeaf(c) => DistinctSize(c) <= MaxEntities \/ ~CanSubdivide(c)

InnersFull ==
    \A c \in Quads :
        ~IsLeaf(c) => \/ Cardinality({pos[e] : e \in Wanted(c)}) >= MaxEntities
                      \/ MayMerge(c)

BoundsInv == ChildrenCover /\ LeavesBounded /\ InnersFull /\ ChildFound

-----------------------------------------------------------------------------
(* Numbers of points.                                                       *)

LEMMA Smallest ==
    ASSUME NEW T \in SUBSET Nat, T # {}
    PROVE  \E m \in T : \A k \in T : m <= k
  <1> DEFINE U == {0 .. n : n \in T}
  <1>1. U \subseteq FiniteSubsetsOf(Nat) /\ U # {}
    <2>1. \A n \in T : 0 .. n \subseteq Nat /\ IsFiniteSet(0 .. n)
      BY FS_Interval
    <2>. QED BY <2>1 DEF FiniteSubsetsOf
  <1>2. PICK x \in U : \A y \in U : <<y, x>> \notin StrictSubsetOrdering(Nat)
    <2> HIDE DEF U
    <2>. QED BY <1>1, FS_StrictSubsetOrderingWellFounded, WFMin
  <1>3. PICK m \in T : x = 0 .. m
    OBVIOUS
  <1>4. ASSUME NEW k \in T, ~(m <= k)
        PROVE  FALSE
    <2>1. 0 .. k \subseteq 0 .. m /\ m \in 0 .. m /\ m \notin 0 .. k
      BY <1>4
    <2>2. 0 .. k \in SUBSET Nat /\ 0 .. m \in SUBSET Nat
      OBVIOUS
    <2>3. <<0 .. k, 0 .. m>> \in StrictSubsetOrdering(Nat)
      BY <2>1, <2>2 DEF StrictSubsetOrdering
    <2>. QED BY <1>2, <1>3, <2>3
  <1>. QED BY <1>4

LEMMA Images ==
    ASSUME NEW f, NEW T \in SUBSET Entities, NEW S \in SUBSET T
    PROVE  /\ IsFiniteSet({f[e] : e \in S})
           /\ Cardinality({f[e] : e \in S}) \in Nat
           /\ Cardinality({f[e] : e \in T}) \in Nat
           /\ Cardinality({f[e] : e \in S}) <= Cardinality({f[e] : e \in T})
  <1>1. ASSUME NEW R \in SUBSET Entities
        PROVE  IsFiniteSet({f[e] : e \in R})
    <2> DEFINE g == [e \in R |-> f[e]]
    <2>1. g \in Surjection(R, {f[e] : e \in R})
      BY DEF Surjection
    <2>2. IsFiniteSet(R)
      BY EntitiesAssumption, FS_Subset
    <2>. QED BY <2>1, <2>2, FS_Surjection
  <1>2. S \in SUBSET Entities /\ {f[e] : e \in S} \in SUBSET {f[e] : e \in T}
    OBVIOUS
  <1>. QED BY <1>1, <1>2, FS_Subset, FS_CardinalityType

LEMMA OneMore ==
    ASSUME NEW f, NEW S \in SUBSET Entities, NEW x \in Entities
    PROVE  Cardinality({f[e] : e \in S \cup {x}}) <= Cardinality({f[e] : e \in S}) + 1
  <1>1. {f[e] : e \in S \cup {x}} = {f[e] : e \in S} \cup {f[x]}
    OBVIOUS
  <1>2. IsFiniteSet({f[e] : e \in S}) /\ Cardinality({f[e] : e \in S}) \in Nat
    BY Images
  <1>3. Cardinality({f[e] : e \in S} \cup {f[x]})
          = IF f[x] \in {f[e] : e \in S} THEN Cardinality({f[e] : e \in S})
                                         ELSE Cardinality({f[e] : e \in S}) + 1
    BY <1>2, FS_AddElement
  <1>. QED BY <1>1, <1>2, <1>3

-----------------------------------------------------------------------------
(* Ways.                                                                    *)

\* inner() names one child at most, so two ways of a point share their beginning.
LEMMA OneWay ==
    ASSUME NEW c \in Seq(1..4), NEW d \in Seq(1..4), NEW p,
           OnWay(c, p), OnWay(d, p), Len(c) <= Len(d)
    PROVE  Ancestor(d, Len(c)) = c
  <1> DEFINE T == {k \in 1 .. Len(c) : c[k] # d[k]}
  <1>0. Len(c) \in 0 .. Len(d) /\ Len(c) \in Nat /\ Len(d) \in Nat
    OBVIOUS
  <1>1. CASE T = {}
    <2>1. /\ Ancestor(d, Len(c)) \in Seq(1..4) /\ Len(Ancestor(d, Len(c))) = Len(c)
          /\ \A i \in 1 .. Len(c) : Ancestor(d, Len(c))[i] = d[i]
      BY <1>0, AncestorOf
    <2>2. \A i \in 1 .. Len(c) : c[i] = d[i]
      BY <1>1
    <2>. QED BY <2>1, <2>2, SeqEqual
  <1>2. CASE T # {}
    <2>1. T \in SUBSET Nat
      BY <1>0
    <2>2. PICK m \in T : \A k \in T : m <= k
      <3> HIDE DEF T
      <3>. QED BY <1>2, <2>1, Smallest
    <2>3. m \in 1 .. Len(c) /\ m \in 1 .. Len(d) /\ m - 1 \in 0 .. Len(c) /\ m - 1 \in 0 .. Len(d)
      BY <1>0
    <2>4. Ancestor(c, m - 1) = Ancestor(d, m - 1)
      <3>1. /\ Ancestor(c, m - 1) \in Seq(1..4) /\ Len(Ancestor(c, m - 1)) = m - 1
            /\ \A i \in 1 .. m - 1 : Ancestor(c, m - 1)[i] = c[i]
        BY <2>3, AncestorOf
      <3>2. /\ Ancestor(d, m - 1) \in Seq(1..4) /\ Len(Ancestor(d, m - 1)) = m - 1
            /\ \A i \in 1 .. m - 1 : Ancestor(d, m - 1)[i] = d[i]
        BY <2>3, AncestorOf
      <3>3. \A i \in 1 .. m - 1 : c[i] = d[i]
        <4>1. \A i \in 1 .. m - 1 : i \in 1 .. Len(c) /\ ~(m <= i)
          BY <2>3
        <4>. QED BY <2>2, <4>1
      <3>. QED BY <3>1, <3>2, <3>3, SeqEqual
    <2>5. Inner(Ancestor(c, m - 1), c[m], p) /\ Inner(Ancestor(c, m - 1), d[m], p)
      BY <2>3, <2>4 DEF OnWay
    <2>6. c[m] \in 1..4 /\ d[m] \in 1..4 /\ c[m] # d[m]
      BY <2>3
    <2>7. c[m] \in 1 .. d[m] - 1 \/ d[m] \in 1 .. c[m] - 1
      BY <2>6
    <2>. QED BY <2>5, <2>7 DEF Inner
  <1>. QED BY <1>1, <1>2

LEMMA WayUp ==
    ASSUME NEW c \in Seq(1..4), NEW n \in 0 .. Len(c), NEW p, OnWay(c, p)
    PROVE  OnWay(Ancestor(c, n), p)
  <1>1. /\ Len(Ancestor(c, n)) = n
        /\ \A k \in 1 .. n : /\ k \in 1 .. Len(c) /\ Ancestor(c, n)[k] = c[k]
                             /\ Ancestor(Ancestor(c, n), k - 1) = Ancestor(c, k - 1)
    BY AncestorOf
  <1>. QED BY <1>1 DEF OnWay

LEMMA WayDown ==
    ASSUME NEW c \in Seq(1..4), NEW j \in 1..4, NEW p, OnWay(c, p), Inner(c, j, p)
    PROVE  OnWay(Append(c, j), p)
  <1>1. /\ Len(Append(c, j)) = Len(c) + 1 /\ Append(c, j)[Len(c) + 1] = j
        /\ \A m \in 0 .. Len(c) : Ancestor(Append(c, j), m) = Ancestor(c, m)
        /\ Ancestor(Append(c, j), Len(c)) = c
        /\ \A k \in 1 .. Len(c) : Append(c, j)[k] = c[k]
    BY ChildPath
  <1>2. ASSUME NEW k \in 1 .. Len(c) + 1
        PROVE  Inner(Ancestor(Append(c, j), k - 1), Append(c, j)[k], p)
    <2>1. CASE k = Len(c) + 1
      BY <1>1, <2>1
    <2>2. CASE k \in 1 .. Len(c)
      BY <1>1, <2>2 DEF OnWay
    <2>. QED BY <2>1, <2>2
  <1>. QED BY <1>1, <1>2 DEF OnWay

\* The quads on the way of a point contain it.
LEMMA WayInside ==
    ASSUME NEW c \in Seq(1..4), NEW p, OnWay(c, p), InBoundary(boundary[Root], p)
    PROVE  InBoundary(boundary[c], p)
  <1>1. CASE c = Root
    BY <1>1
  <1>2. CASE c # Root
    <2>1. Len(c) \in 1 .. Len(c)
      BY <1>2 DEF Root
    <2>2. Inner(Ancestor(c, Len(c) - 1), c[Len(c)], p)
      BY <2>1 DEF OnWay
    <2>3. Append(Ancestor(c, Len(c) - 1), c[Len(c)]) = Ancestor(c, Len(c))
      BY <2>1, NextAncestor
    <2>4. Ancestor(c, Len(c)) = c
      BY <2>1, AncestorOf
    <2>. QED BY <2>2, <2>3, <2>4 DEF Inner
  <1>. QED BY <1>1, <1>2

\* The boundary of a quad never changes, so neither does the way to it.
SameBoundaries == \A q \in Quads : q \in Quads' => boundary'[q] = boundary[q]

LEMMA WayKept ==
    ASSUME TreeInv, TreeInv', SameBoundaries, NEW c, c \in Quads, c \in Quads', NEW p
    PROVE  OnWay(c, p)' <=> OnWay(c, p)
  <1>0. c \in Seq(1..4) /\ Len(c) \in Nat
    BY DEF TreeInv, TypeOK
  <1>1. ASSUME NEW k \in 1 .. Len(c), NEW j \in 1..4
        PROVE  boundary'[Append(Ancestor(c, k - 1), j)] = boundary[Append(Ancestor(c, k - 1), j)]
    <2>1. Append(Ancestor(c, k - 1), j) \in Quads
      BY ChildrenExist DEF TreeInv
    <2>2. k \in 0 .. Len(c) /\ k - 1 \in 0 .. Len(c) /\ c[k] \in 1..4
      BY <1>0
    <2>3. Ancestor(c, k - 1) \in Quads' /\ Append(Ancestor(c, k - 1), c[k]) \in Quads'
      BY <1>0, <2>2, NextAncestor DEF TreeInv, PathsClosed
    <2>4. Append(Ancestor(c, k - 1), j) \in Quads'
      BY <2>2, <2>3 DEF TreeInv, TypeOK
    <2>. QED BY <2>1, <2>4 DEF SameBoundaries
  <1>2. ASSUME NEW k \in 1 .. Len(c)
        PROVE  Inner(Ancestor(c, k - 1), c[k], p)' <=> Inner(Ancestor(c, k - 1), c[k], p)
    <2>1. c[k] \in 1..4
      BY <1>0
    <2>. QED BY <1>1, <2>1 DEF Inner
  <1>. QED BY <1>2 DEF OnWay

LEMMA WantedKept ==
    ASSUME TreeInv, TreeInv', SameBoundaries, NEW c, c \in Quads, c \in Quads', pos' = pos
    PROVE  Wanted(c)' = Wanted(c)
  <1>1. ASSUME NEW e \in Entities
        PROVE  OnWay(c, pos[e])' <=> OnWay(c, pos[e])
    <2>1. PICK p : p = pos[e]
      OBVIOUS
    <2>2. OnWay(c, p)' <=> OnWay(c, p)
      BY WayKept
    <2>. QED BY <2>1, <2>2 DEF OnWay
  <1>. QED BY <1>1 DEF Wanted

\* Nothing is below a leaf.
LEMMA NoneBelow ==
    ASSUME NEW Q \in SUBSET Seq(1..4), NEW c \in Q, NEW d \in Q,
           \A k \in 0 .. Len(d) : Ancestor(d, k) \in Q,
           \A k \in 1..4 : Append(c, k) \notin Q,
           Len(c) <= Len(d), Ancestor(d, Len(c)) = c
    PROVE  d = c
  <1>0. c \in Seq(1..4) /\ d \in Seq(1..4) /\ Len(c) \in Nat /\ Len(d) \in Nat
    OBVIOUS
  <1>1. CASE Len(d) = Len(c)
    BY <1>0, <1>1, AncestorOf
  <1>2. CASE Len(d) # Len(c)
    <2>1. /\ Len(c) + 1 \in 1 .. Len(d) /\ Len(c) + 1 \in 0 .. Len(d)
          /\ (Len(c) + 1) - 1 = Len(c) /\ d[Len(c) + 1] \in 1..4
      BY <1>0, <1>2
    <2>2. Append(Ancestor(d, (Len(c) + 1) - 1), d[Len(c) + 1]) = Ancestor(d, Len(c) + 1)
      BY <1>0, <2>1, NextAncestor
    <2>. QED BY <2>1, <2>2
  <1>. QED BY <1>1, <1>2

\* What lies below a leaf is what its container holds, before a step and after it.
LEMMA LeafBelow ==
    ASSUME TreeInv, NEW c \in Quads, IsLeaf(c)
    PROVE  Below(c) = {e \in Entities : at[e] = c}
  <1>1. /\ Quads \in SUBSET Seq(1..4) /\ c # NoQuad /\ c \in Seq(1..4)
        /\ \A k \in 1..4 : Append(c, k) \notin Quads
    BY NoQuadAssumption DEF TreeInv, TypeOK
  <1>2. \A d \in Quads : \A k \in 0 .. Len(d) : Ancestor(d, k) \in Quads
    BY DEF TreeInv, PathsClosed
  <1>3. ASSUME NEW e \in Entities, at[e] # NoQuad, Len(c) <= Len(at[e]),
               Ancestor(at[e], Len(c)) = c
        PROVE  at[e] = c
    <2>1. at[e] \in Quads
      BY <1>3 DEF TreeInv, TypeOK
    <2>. QED BY <1>1, <1>2, <1>3, <2>1, NoneBelow
  <1>4. Len(c) <= Len(c) /\ Ancestor(c, Len(c)) = c
    BY <1>1, AncestorOf
  <1>. QED BY <1>1, <1>3, <1>4 DEF Below

LEMMA LeafBelowNext ==
    ASSUME TreeInv', NEW c, c \in Quads', IsLeaf(c)'
    PROVE  Below(c)' = {e \in Entities : at'[e] = c}
  <1>1. /\ Quads' \in SUBSET Seq(1..4) /\ c # NoQuad /\ c \in Seq(1..4)
        /\ \A k \in 1..4 : Append(c, k) \notin Quads'
    BY NoQuadAssumption DEF TreeInv, TypeOK
  <1>2. \A d \in Quads' : \A k \in 0 .. Len(d) : Ancestor(d, k) \in Quads'
    BY DEF TreeInv, PathsClosed
  <1>3. ASSUME NEW e \in Entities, at'[e] # NoQuad, Len(c) <= Len(at'[e]),
               Ancestor(at'[e], Len(c)) = c
        PROVE  at'[e] = c
    <2>1. at'[e] \in Quads'
      BY <1>3 DEF TreeInv, TypeOK
    <2>. QED BY <1>1, <1>2, <1>3, <2>1, NoneBelow
  <1>4. Len(c) <= Len(c) /\ Ancestor(c, Len(c)) = c
    BY <1>1, AncestorOf
  <1>. QED BY <1>1, <1>3, <1>4 DEF Below

LEMMA BelowWanted ==
    ASSUME TreeInv, NEW c \in Quads
    PROVE  Below(c) \subseteq Wanted(c)
  <1> SUFFICES ASSUME NEW e \in Below(c) PROVE e \in Wanted(c)
    OBVIOUS
  <1>1. /\ e \in Entities /\ at[e] \in Seq(1..4) /\ c \in Seq(1..4)
        /\ Len(c) <= Len(at[e]) /\ Ancestor(at[e], Len(c)) = c
        /\ pos[e] # NoPoint /\ Reaches(at[e], pos[e])
    BY DEF Below, TreeInv, TypeOK, Located
  <1>2. OnWay(at[e], pos[e]) /\ Len(c) \in 0 .. Len(at[e])
    BY <1>1 DEF Reaches, OnWay
  <1>. QED BY <1>1, <1>2, WayUp DEF Wanted

\* When all are in containers, what is wanted below a quad is there.
LEMMA WantedBelow ==
    ASSUME TreeInv, NEW c \in Quads, todo = <<>>
    PROVE  Wanted(c) = Below(c)
  <1> SUFFICES ASSUME NEW e \in Wanted(c) PROVE e \in Below(c)
    BY BelowWanted
  <1>1. e \in Entities /\ pos[e] # NoPoint /\ OnWay(c, pos[e])
    BY DEF Wanted
  <1>2. at[e] # NoQuad
    BY <1>1 DEF TreeInv, Pending
  <1>3. /\ at[e] \in Quads /\ at[e] \in Seq(1..4) /\ c \in Seq(1..4)
        /\ IsLeaf(at[e]) /\ OnWay(at[e], pos[e])
    BY <1>1, <1>2 DEF TreeInv, TypeOK, Located, Reaches, OnWay
  <1>4. CASE Len(c) <= Len(at[e])
    BY <1>1, <1>2, <1>3, <1>4, OneWay DEF Below
  <1>5. CASE ~(Len(c) <= Len(at[e]))
    <2>1. Len(at[e]) <= Len(c) /\ Len(at[e]) + 1 \in 1 .. Len(c) /\ (Len(at[e]) + 1) - 1 = Len(at[e])
      BY <1>3, <1>5
    <2>2. Ancestor(c, Len(at[e])) = at[e]
      BY <1>1, <1>3, <2>1, OneWay
    <2>3. ~IsLeaf(Ancestor(c, (Len(at[e]) + 1) - 1))
      BY <2>1, ChildrenExist DEF TreeInv
    <2>. QED BY <1>3, <2>1, <2>2, <2>3
  <1>. QED BY <1>4, <1>5

-----------------------------------------------------------------------------
(* The actions.                                                             *)

\* An action that leaves the quads, the points and the containers alone.
LEMMA QuietBounds ==
    ASSUME BoundsInv, UNCHANGED <<boundary, at, pos, up>>, ChildFound'
    PROVE  BoundsInv'
  <1>1. UNCHANGED Quads
    BY DEF Quads
  <1>2. ChildrenCover'
    BY <1>1 DEF BoundsInv, ChildrenCover, OnWay, Inner, IsLeaf
  <1>3. LeavesBounded'
    BY <1>1 DEF BoundsInv, LeavesBounded, DistinctSize, Below, CanSubdivide, IsLeaf
  <1>4. InnersFull'
    BY <1>1 DEF BoundsInv, InnersFull, Wanted, OnWay, Inner, MayMerge, IsLeaf
  <1>. QED BY <1>2, <1>3, <1>4 DEF BoundsInv

\* Where the boundaries stay, so do the ways.
LEMMA SameTree ==
    ASSUME ChildrenCover, UNCHANGED boundary
    PROVE  ChildrenCover'
  <1>1. UNCHANGED Quads
    BY DEF Quads
  <1>. QED BY <1>1 DEF ChildrenCover, OnWay, Inner, IsLeaf

LEMMA InitBounds == Init => BoundsInv
  <1> SUFFICES ASSUME Init PROVE BoundsInv
    OBVIOUS
  <1>1. Quads = {Root} /\ TreeInv
    BY InitInv DEF Init, Quads, Root
  <1>2. IsLeaf(Root)
    BY <1>1, ChildPath DEF IsLeaf, Root
  <1>3. ChildrenCover
    <2>1. \A p : OnWay(Root, p)
      BY DEF OnWay, Root
    <2>. QED BY <1>1, <1>2, <2>1 DEF ChildrenCover
  <1>4. LeavesBounded
    <2>1. Below(Root) = {}
      BY DEF Below, Init
    <2>2. {pos[e] : e \in Below(Root)} = {}
      BY <2>1
    <2>3. DistinctSize(Root) = 0
      BY <2>2, FS_EmptySet DEF DistinctSize
    <2>. QED BY <1>1, <2>3, MaxAssumption DEF LeavesBounded
  <1>5. InnersFull /\ ChildFound
    BY <1>1, <1>2 DEF InnersFull, ChildFound, Init
  <1>. QED BY <1>3, <1>4, <1>5 DEF BoundsInv

LEMMA InsertBounds ==
    ASSUME TreeInv, BoundsInv, NEW e \in Entities, NEW p \in Points, Insert(e, p)
    PROVE  BoundsInv'
  <1>1. UNCHANGED <<Quads, boundary, at, up, fault>>
    BY DEF Quads, Insert
  <1>2. /\ pos[e] = NoPoint /\ at[e] = NoQuad /\ pos'[e] = p /\ p # NoPoint
        /\ \A d \in Entities : d # e => pos'[d] = pos[d]
    BY PointsAssumption DEF TreeInv, TypeOK, Located, Insert
  <1>3. ChildrenCover' /\ ChildFound'
    BY <1>1, SameTree DEF BoundsInv, ChildFound, IsLeaf
  <1>4. LeavesBounded'
    <2>1. ASSUME NEW c \in Quads
          PROVE  DistinctSize(c)' = DistinctSize(c)
      <3>1. Below(c)' = Below(c) /\ e \notin Below(c) /\ Below(c) \subseteq Entities
        BY <1>1, <1>2 DEF Below
      <3>2. {pos'[d] : d \in Below(c)} = {pos[d] : d \in Below(c)}
        BY <1>2, <3>1
      <3>. QED BY <3>1, <3>2 DEF DistinctSize
    <2>. QED BY <1>1, <2>1 DEF BoundsInv, LeavesBounded, CanSubdivide, IsLeaf
  <1>5. InnersFull'
    <2> SUFFICES ASSUME NEW c \in Quads, ~IsLeaf(c)
                 PROVE  \/ Cardinality({pos'[d] : d \in Wanted(c)'}) >= MaxEntities
                        \/ MayMerge(c)'
      BY <1>1 DEF InnersFull, IsLeaf
    <2>1. Wanted(c) \subseteq Entities /\ Wanted(c)' \subseteq Entities /\ e \notin Wanted(c)
      BY <1>2 DEF Wanted
    <2>2. Wanted(c) \subseteq Wanted(c)'
      BY <1>1, <1>2 DEF Wanted, OnWay, Inner
    <2>3. {pos'[d] : d \in Wanted(c)} = {pos[d] : d \in Wanted(c)}
      BY <1>2, <2>1
    <2>4. /\ Cardinality({pos'[d] : d \in Wanted(c)})
               <= Cardinality({pos'[d] : d \in Wanted(c)'})
          /\ Cardinality({pos'[d] : d \in Wanted(c)}) \in Nat
          /\ Cardinality({pos'[d] : d \in Wanted(c)'}) \in Nat
      BY <2>1, <2>2, Images
    <2>5. Cardinality({pos[d] : d \in Wanted(c)}) >= MaxEntities
      BY DEF BoundsInv, InnersFull, MayMerge, Insert, Idle
    <2>6. PICK old, new : /\ old = Cardinality({pos'[d] : d \in Wanted(c)})
                          /\ new = Cardinality({pos'[d] : d \in Wanted(c)'})
      OBVIOUS
    <2>7. old >= MaxEntities
      BY <2>3, <2>5, <2>6
    <2>8. old \in Nat /\ new \in Nat /\ old <= new
      BY <2>4, <2>6
    <2>9. new >= MaxEntities
      BY <2>7, <2>8, MaxAssumption
    <2>. QED BY <2>6, <2>9
  <1>. QED BY <1>3, <1>4, <1>5 DEF BoundsInv

LEMMA InsertIntoLeafBounds ==
    ASSUME TreeInv, TreeInv', BoundsInv, NEW c \in Quads, InsertIntoLeaf(c)
    PROVE  BoundsInv'
  <1>1. UNCHANGED <<Quads, boundary, pos, up, fault>>
    BY DEF Quads, InsertIntoLeaf
  <1>2. IsLeaf(c) /\ Head(todo) \in Entities /\ at' = [at EXCEPT ![Head(todo)] = c]
    BY HeadTailProperties DEF TreeInv, TypeOK, InsertIntoLeaf, Reaches
  <1>3. ChildrenCover' /\ ChildFound'
    BY <1>1, SameTree DEF BoundsInv, ChildFound, IsLeaf
  <1>4. LeavesBounded'
    <2> SUFFICES ASSUME NEW d \in Quads, IsLeaf(d)
                 PROVE  (DistinctSize(d) <= MaxEntities \/ ~CanSubdivide(d))'
      BY <1>1 DEF LeavesBounded, IsLeaf
    <2>1. /\ Below(d) = {e \in Entities : at[e] = d}
          /\ Below(d)' = {e \in Entities : at'[e] = d}
      BY <1>1, LeafBelow, LeafBelowNext DEF IsLeaf
    <2>2. CASE d # c
      <3>1. Below(d)' \subseteq Below(d) /\ Below(d) \subseteq Entities
        BY <1>2, <2>1, <2>2 DEF TreeInv, TypeOK
      <3>2. /\ Cardinality({pos[e] : e \in Below(d)'}) <= Cardinality({pos[e] : e \in Below(d)})
            /\ Cardinality({pos[e] : e \in Below(d)'}) \in Nat
            /\ Cardinality({pos[e] : e \in Below(d)}) \in Nat
        BY <3>1, Images
      <3>. QED BY <1>1, <3>2, MaxAssumption
               DEF BoundsInv, LeavesBounded, DistinctSize, CanSubdivide
    <2>3. CASE d = c
      <3>1. Below(d)' = Below(d) \cup {Head(todo)} /\ Below(d) \in SUBSET Entities
        BY <1>2, <2>1, <2>3 DEF TreeInv, TypeOK
      <3>2. /\ Cardinality({pos[e] : e \in Below(d)'}) <= Cardinality({pos[e] : e \in Below(d)}) + 1
            /\ Cardinality({pos[e] : e \in Below(d)'}) \in Nat
            /\ Cardinality({pos[e] : e \in Below(d)}) \in Nat
        BY <1>2, <3>1, OneMore, Images
      <3>3. DistinctSize(d) < MaxEntities \/ ~CanSubdivide(d)
        BY <2>3 DEF InsertIntoLeaf
      <3>. QED BY <1>1, <3>2, <3>3, MaxAssumption DEF DistinctSize, CanSubdivide
    <2>. QED BY <2>2, <2>3
  <1>5. InnersFull'
    BY <1>1 DEF BoundsInv, InnersFull, Wanted, OnWay, Inner, MayMerge, IsLeaf
  <1>. QED BY <1>3, <1>4, <1>5 DEF BoundsInv

\* The halves of an even width leave no point out.
LEMMA EvenCovers ==
    ASSUME NEW b \in Square, b.w % 2 = 0, NEW p \in Points, InBoundary(b, p)
    PROVE  \E k \in 1..4 : /\ InBoundary(Child(b, k), p)
                           /\ \A j \in 1 .. k - 1 : ~InBoundary(Child(b, j), p)
  <1> DEFINE In(k) == InBoundary(Child(b, k), p)
  <1>1. /\ b.x \in Int /\ b.y \in Int /\ b.w \in Nat /\ p.x \in Int /\ p.y \in Int
        /\ b.w = 2 * (b.w \div 2)
    BY PointsAssumption DEF Square
  <1>2. In(1) \/ In(2) \/ In(3) \/ In(4)
    BY <1>1 DEF InBoundary, Child
  <1> HIDE DEF In
  <1>3. \E k \in 1..4 : In(k) /\ \A j \in 1 .. k - 1 : ~In(j)
    <2>1. CASE In(1)
      BY <2>1
    <2>2. CASE ~In(1) /\ In(2)
      <3>1. \A j \in 1 .. 2 - 1 : j = 1
        OBVIOUS
      <3>. QED BY <2>2, <3>1
    <2>3. CASE ~In(1) /\ ~In(2) /\ In(3)
      <3>1. \A j \in 1 .. 3 - 1 : j = 1 \/ j = 2
        OBVIOUS
      <3>. QED BY <2>3, <3>1
    <2>4. CASE ~In(1) /\ ~In(2) /\ ~In(3) /\ In(4)
      <3>1. \A j \in 1 .. 4 - 1 : j = 1 \/ j = 2 \/ j = 3
        OBVIOUS
      <3>. QED BY <2>4, <3>1
    <2>. QED BY <1>2, <2>1, <2>2, <2>3, <2>4
  <1>. QED BY <1>3 DEF In

LEMMA SubdivideBounds ==
    ASSUME TreeInv, TreeInv', BoundsInv, NEW c \in Quads, Subdivide(c)
    PROVE  BoundsInv'
  <1> DEFINE New == {Append(c, k) : k \in 1..4}
  <1>1. /\ IsLeaf(c) /\ c \in Seq(1..4) /\ Quads \subseteq Seq(1..4)
        /\ DistinctSize(c) >= MaxEntities /\ New \cap Quads = {}
        /\ at' = [e \in Entities |-> IF at[e] = c THEN NoQuad ELSE at[e]]
        /\ UNCHANGED <<pos, up, fault>> /\ fault = "none"
    <2>1. IsLeaf(c) /\ c \in Seq(1..4) /\ Quads \subseteq Seq(1..4)
      BY DEF Subdivide, Reaches, TreeInv, TypeOK
    <2>2. New \cap Quads = {}
      BY <2>1 DEF TreeInv, TypeOK
    <2>. QED BY <2>1, <2>2 DEF Subdivide
  <1>2. /\ Quads' = Quads \cup New
        /\ \A q \in Quads : boundary'[q] = boundary[q]
        /\ \A k \in 1..4 : boundary'[Append(c, k)] = Child(boundary[c], k)
    <2>1. boundary' = [q \in Quads \cup New |->
                          IF q \in Quads THEN boundary[q] ELSE Child(boundary[c], q[Len(q)])]
      BY DEF Subdivide
    <2>2. Quads' = Quads \cup New
      BY <2>1 DEF Quads
    <2>3. ASSUME NEW k \in 1..4
          PROVE  /\ Append(c, k) \in New /\ Append(c, k) \notin Quads
                 /\ Append(c, k)[Len(Append(c, k))] = k
      <3>1. Append(c, k) \in New /\ Append(c, k) \notin Quads
        BY <1>1
      <3>2. Len(Append(c, k)) = Len(c) + 1 /\ Append(c, k)[Len(c) + 1] = k
        BY <1>1, ChildPath
      <3>. QED BY <3>1, <3>2
    <2>. QED BY <2>1, <2>2, <2>3
  <1>3. SameBoundaries
    BY <1>2 DEF SameBoundaries
  <1>4. /\ \A d \in Quads : d # c => (IsLeaf(d)' <=> IsLeaf(d))
        /\ ~IsLeaf(c)'
        /\ \A d \in New : IsLeaf(d)'
    <2>1. ASSUME NEW d \in Quads, d # c
          PROVE  IsLeaf(d)' <=> IsLeaf(d)
      <3>1. Append(d, 1) \notin New
        BY <1>1, <2>1, SameChild
      <3>. QED BY <1>2, <3>1 DEF IsLeaf
    <2>2. ~IsLeaf(c)'
      BY <1>2 DEF IsLeaf
    <2>3. ASSUME NEW k \in 1..4, Append(Append(c, k), 1) \in Quads'
          PROVE  FALSE
      <3>1. /\ Append(c, k) \in Seq(1..4) /\ Len(Append(c, k)) = Len(c) + 1
            /\ Len(Append(Append(c, k), 1)) = (Len(c) + 1) + 1
            /\ Ancestor(Append(Append(c, k), 1), Len(c) + 1) = Append(c, k)
        <4>1. PICK d : d = Append(c, k)
          OBVIOUS
        <4>2. d \in Seq(1..4) /\ Len(d) = Len(c) + 1
          BY <1>1, <4>1, ChildPath
        <4>3. Len(Append(d, 1)) = Len(d) + 1 /\ Ancestor(Append(d, 1), Len(d)) = d
          BY <4>2, ChildPath
        <4>. QED BY <4>1, <4>2, <4>3
      <3>2. Append(Append(c, k), 1) \notin New
        <4>1. \A i \in 1..4 : Len(Append(c, i)) = Len(c) + 1
          BY <1>1, ChildPath
        <4>. QED BY <1>1, <3>1, <4>1
      <3>3. Append(Append(c, k), 1) \in Quads /\ Len(c) + 1 \in 0 .. Len(Append(Append(c, k), 1))
        BY <1>1, <1>2, <2>3, <3>1, <3>2
      <3>. QED BY <1>1, <3>1, <3>3 DEF TreeInv, PathsClosed
    <2>. QED BY <2>1, <2>2, <2>3 DEF IsLeaf
  <1>5. ChildrenCover'
    <2> SUFFICES ASSUME NEW p \in Points, InBoundary(boundary[Root], p)
                 PROVE  \E d \in Quads' :
                           OnWay(d, p)' /\ (IsLeaf(d)' \/ boundary'[d].w % 2 # 0)
      BY <1>2 DEF ChildrenCover, TreeInv, TypeOK
    <2>1. PICK d \in Quads : OnWay(d, p) /\ (IsLeaf(d) \/ boundary[d].w % 2 # 0)
      BY DEF BoundsInv, ChildrenCover
    <2>2. d \in Quads' /\ OnWay(d, p)' /\ boundary'[d] = boundary[d]
      BY <1>2, <1>3, <2>1, WayKept
    <2>3. CASE d # c \/ boundary[c].w % 2 # 0
      BY <1>4, <2>1, <2>2, <2>3
    <2>4. CASE d = c /\ boundary[c].w % 2 = 0
      <3>1. InBoundary(boundary[c], p) /\ boundary[c] \in Square
        BY <1>1, <2>1, <2>4, WayInside DEF TreeInv, TypeOK
      <3>2. PICK k \in 1..4 : /\ InBoundary(Child(boundary[c], k), p)
                             /\ \A j \in 1 .. k - 1 : ~InBoundary(Child(boundary[c], j), p)
        BY <2>4, <3>1, EvenCovers
      <3>3. \A j \in 1 .. k - 1 : j \in 1..4
        OBVIOUS
      <3>4. Inner(c, k, p)'
        BY <1>2, <3>2, <3>3 DEF Inner
      <3>5. OnWay(Append(c, k), p)'
        <4>1. /\ Len(Append(c, k)) = Len(c) + 1 /\ Append(c, k)[Len(c) + 1] = k
              /\ \A m \in 0 .. Len(c) : Ancestor(Append(c, k), m) = Ancestor(c, m)
              /\ Ancestor(Append(c, k), Len(c)) = c
              /\ \A i \in 1 .. Len(c) : Append(c, k)[i] = c[i]
          BY <1>1, ChildPath
        <4>2. ASSUME NEW i \in 1 .. Len(c) + 1
              PROVE  Inner(Ancestor(Append(c, k), i - 1), Append(c, k)[i], p)'
          <5>1. CASE i = Len(c) + 1
            BY <3>4, <4>1, <5>1
          <5>2. CASE i \in 1 .. Len(c)
            BY <2>2, <2>4, <4>1, <5>2 DEF OnWay
          <5>. QED BY <5>1, <5>2
        <4>. QED BY <4>1, <4>2 DEF OnWay
      <3>. QED BY <1>2, <1>4, <3>5
    <2>. QED BY <2>3, <2>4
  <1>6. LeavesBounded'
    <2> SUFFICES ASSUME NEW d, d \in Quads', IsLeaf(d)'
                 PROVE  (DistinctSize(d) <= MaxEntities \/ ~CanSubdivide(d))'
      BY DEF LeavesBounded
    <2>1. Below(d)' = {e \in Entities : at'[e] = d}
      BY LeafBelowNext
    <2>2. CASE d \in Quads /\ d # c
      <3>1. Below(d) = {e \in Entities : at[e] = d} /\ d # NoQuad
        BY <1>4, <2>2, LeafBelow, NoQuadAssumption DEF TreeInv, TypeOK
      <3>2. Below(d)' = Below(d)
        BY <1>1, <2>1, <2>2, <3>1 DEF TreeInv, TypeOK
      <3>3. DistinctSize(d)' = DistinctSize(d)
        BY <1>1, <3>2 DEF DistinctSize
      <3>4. CanSubdivide(d)' = CanSubdivide(d)
        BY <1>2, <2>2 DEF CanSubdivide
      <3>5. DistinctSize(d) <= MaxEntities \/ ~CanSubdivide(d)
        BY <1>4, <2>2 DEF BoundsInv, LeavesBounded
      <3>. QED BY <3>3, <3>4, <3>5
    <2>3. CASE d \in New
      <3>1. d \notin Quads /\ d # NoQuad
        <4>1. New \subseteq Seq(1..4)
          BY <1>1, ChildPath
        <4>. QED BY <1>1, <2>3, <4>1, NoQuadAssumption
      <3>2. \A e \in Entities : at'[e] # d
        BY <1>1, <3>1 DEF TreeInv, TypeOK
      <3>3. {pos'[e] : e \in Below(d)'} = {}
        BY <2>1, <3>2
      <3>. QED BY <3>3, FS_EmptySet, MaxAssumption DEF DistinctSize
    <2>. QED BY <1>2, <1>4, <2>2, <2>3
  <1>7. InnersFull'
    <2> SUFFICES ASSUME NEW d, d \in Quads', ~IsLeaf(d)'
                 PROVE  \/ Cardinality({pos'[e] : e \in Wanted(d)'}) >= MaxEntities
                        \/ MayMerge(d)'
      BY DEF InnersFull
    <2>1. d \in Quads /\ Wanted(d)' = Wanted(d)
      BY <1>1, <1>2, <1>3, <1>4, WantedKept
    <2>2. CASE d # c
      BY <1>1, <1>4, <2>1, <2>2 DEF BoundsInv, InnersFull, MayMerge
    <2>3. CASE d = c
      <3>1. Below(c) \subseteq Wanted(c) /\ Wanted(c) \subseteq Entities
        BY BelowWanted DEF Wanted
      <3>2. /\ Cardinality({pos[e] : e \in Below(c)}) <= Cardinality({pos[e] : e \in Wanted(c)})
            /\ Cardinality({pos[e] : e \in Below(c)}) \in Nat
            /\ Cardinality({pos[e] : e \in Wanted(c)}) \in Nat
        BY <3>1, Images
      <3>. QED BY <1>1, <2>1, <2>3, <3>2, MaxAssumption DEF DistinctSize
    <2>. QED BY <2>2, <2>3
  <1>8. ChildFound'
    BY <1>1 DEF ChildFound
  <1>. QED BY <1>5, <1>6, <1>7, <1>8 DEF BoundsInv

LEMMA RemoveBounds ==
    ASSUME TreeInv, TreeInv', BoundsInv, NEW e \in Entities, Remove(e)
    PROVE  BoundsInv'
  <1>1. /\ UNCHANGED <<Quads, boundary, todo, fault>> /\ fault = "none"
        /\ todo = <<>> /\ up = NoQuad
        /\ pos[e] # NoPoint /\ at[e] \in Quads /\ at[e] \in Seq(1..4) /\ IsLeaf(at[e])
        /\ Reaches(at[e], pos[e]) /\ up' = Parent(at[e])
    BY DEF Quads, Remove, Idle, TreeInv, TypeOK, Reaches
  <1>2. /\ pos'[e] = NoPoint /\ at'[e] = NoQuad
        /\ \A d \in Entities : d # e => pos'[d] = pos[d] /\ at'[d] = at[d]
    BY DEF Remove, TreeInv, TypeOK
  <1>3. ChildrenCover' /\ ChildFound'
    BY <1>1, SameTree DEF BoundsInv, ChildFound
  <1>4. LeavesBounded'
    <2>1. ASSUME NEW c \in Quads
          PROVE  DistinctSize(c)' <= DistinctSize(c) /\ DistinctSize(c)' \in Nat
                 /\ DistinctSize(c) \in Nat
      <3>1. Below(c)' \subseteq Below(c) /\ e \notin Below(c)' /\ Below(c) \in SUBSET Entities
        BY <1>2 DEF Below
      <3>2. {pos'[d] : d \in Below(c)'} = {pos[d] : d \in Below(c)'}
        BY <1>2, <3>1
      <3>. QED BY <3>1, <3>2, Images DEF DistinctSize
    <2>2. ASSUME NEW c \in Quads, IsLeaf(c)
          PROVE  (DistinctSize(c) <= MaxEntities \/ ~CanSubdivide(c))'
      <3>1. DistinctSize(c) <= MaxEntities \/ ~CanSubdivide(c)
        BY <2>2 DEF BoundsInv, LeavesBounded
      <3>2. CanSubdivide(c)' = CanSubdivide(c)
        BY <1>1 DEF CanSubdivide
      <3>. QED BY <2>1, <3>1, <3>2, MaxAssumption
    <2>. QED BY <1>1, <2>2 DEF LeavesBounded, IsLeaf
  <1>5. InnersFull'
    <2> SUFFICES ASSUME NEW c \in Quads, ~IsLeaf(c)
                 PROVE  \/ Cardinality({pos'[d] : d \in Wanted(c)'}) >= MaxEntities
                        \/ MayMerge(c)'
      BY <1>1 DEF InnersFull, IsLeaf
    <2>1. CASE e \in Wanted(c)
      <3>1. c \in Seq(1..4) /\ OnWay(c, pos[e]) /\ OnWay(at[e], pos[e])
        BY <1>1, <2>1 DEF Wanted, Reaches, OnWay, TreeInv, TypeOK
      <3>2. c # at[e] /\ Len(c) \in Nat /\ Len(at[e]) \in Nat
        BY <1>1, <3>1
      <3>3. e \in Below(c)
        BY <1>1, <2>1, WantedBelow
      <3>4. Len(c) <= Len(at[e]) /\ Ancestor(at[e], Len(c)) = c
        BY <3>3 DEF Below
      <3>5. Len(c) # Len(at[e])
        BY <1>1, <3>2, <3>4, AncestorOf
      <3>6. /\ at[e] # Root /\ Len(at[e]) - 1 \in 0 .. Len(at[e])
            /\ Len(c) \in 0 .. Len(at[e]) - 1
        BY <3>2, <3>4, <3>5 DEF Root
      <3>7. /\ up' = Ancestor(at[e], Len(at[e]) - 1) /\ Len(up') = Len(at[e]) - 1
            /\ Ancestor(up', Len(c)) = Ancestor(at[e], Len(c)) /\ up' \in Seq(1..4)
        BY <1>1, <3>6, AncestorOf DEF Parent
      <3>. QED BY <3>2, <3>4, <3>6, <3>7, NoQuadAssumption DEF MayMerge
    <2>2. CASE e \notin Wanted(c)
      <3>1. Wanted(c)' = Wanted(c) /\ Wanted(c) \subseteq Entities
        BY <1>1, <1>2, <2>2 DEF Wanted, OnWay, Inner
      <3>2. {pos'[d] : d \in Wanted(c)} = {pos[d] : d \in Wanted(c)}
        BY <1>2, <2>2, <3>1
      <3>. QED BY <1>1, <3>1, <3>2 DEF BoundsInv, InnersFull, MayMerge
    <2>. QED BY <2>1, <2>2
  <1>. QED BY <1>3, <1>4, <1>5 DEF BoundsInv

LEMMA KeepChildrenBounds ==
    ASSUME TreeInv, TreeInv', BoundsInv, KeepChildren
    PROVE  BoundsInv'
  <1>1. /\ UNCHANGED <<Quads, boundary, at, pos, todo, fault>>
        /\ up \in Quads /\ up \in Seq(1..4) /\ DistinctSize(up) > MaxEntities /\ up' = NoQuad
    BY DEF Quads, KeepChildren, Merging, TreeInv, TypeOK
  <1>2. ChildrenCover' /\ ChildFound'
    BY <1>1, SameTree DEF BoundsInv, ChildFound, IsLeaf
  <1>3. LeavesBounded'
    BY <1>1 DEF BoundsInv, LeavesBounded, DistinctSize, Below, CanSubdivide, IsLeaf
  <1>4. ASSUME NEW c \in Quads, MayMerge(c)
        PROVE  Cardinality({pos[e] : e \in Wanted(c)}) >= MaxEntities
    <2>1. Below(up) \subseteq Below(c)
      <3> SUFFICES ASSUME NEW e \in Below(up) PROVE e \in Below(c)
        OBVIOUS
      <3>1. /\ e \in Entities /\ at[e] # NoQuad /\ at[e] \in Seq(1..4) /\ c \in Seq(1..4)
            /\ Len(up) <= Len(at[e]) /\ Ancestor(at[e], Len(up)) = up
            /\ Len(c) <= Len(up) /\ Ancestor(up, Len(c)) = c
        BY <1>4 DEF Below, MayMerge, TreeInv, TypeOK
      <3>2. Len(up) \in 0 .. Len(at[e]) /\ Len(c) \in 0 .. Len(up)
        BY <1>1, <3>1
      <3>3. Ancestor(at[e], Len(c)) = c
        BY <3>1, <3>2, AncestorOf
      <3>. QED BY <3>1, <3>2, <3>3 DEF Below
    <2>2. Below(up) \subseteq Wanted(c) /\ Wanted(c) \subseteq Entities
      BY <2>1, BelowWanted DEF Wanted
    <2>3. /\ Cardinality({pos[e] : e \in Below(up)}) <= Cardinality({pos[e] : e \in Wanted(c)})
          /\ Cardinality({pos[e] : e \in Below(up)}) \in Nat
          /\ Cardinality({pos[e] : e \in Wanted(c)}) \in Nat
      BY <2>2, Images
    <2>. QED BY <1>1, <2>3, MaxAssumption DEF DistinctSize
  <1>5. InnersFull'
    <2>1. \A c \in Quads : ~IsLeaf(c) => Cardinality({pos[e] : e \in Wanted(c)}) >= MaxEntities
      BY <1>4 DEF BoundsInv, InnersFull
    <2>. QED BY <1>1, <2>1 DEF InnersFull, Wanted, OnWay, Inner, IsLeaf
  <1>. QED BY <1>2, <1>3, <1>5 DEF BoundsInv

LEMMA MergeBounds ==
    ASSUME TreeInv, TreeInv', BoundsInv, Merge
    PROVE  BoundsInv'
  <1>0. PICK u : u = up
    OBVIOUS
  <1> DEFINE Gone == {Append(u, k) : k \in 1..4}
  <1>1. /\ u \in Quads /\ u \in Seq(1..4) /\ u # NoQuad /\ Quads \subseteq Seq(1..4)
        /\ \A k \in 1..4 : IsLeaf(Append(u, k))
        /\ DistinctSize(u) <= MaxEntities
        /\ at' = [e \in Entities |-> IF e \in Below(u) THEN u ELSE at[e]]
        /\ up' = Parent(u) /\ UNCHANGED <<pos, todo, fault>> /\ fault = "none"
    BY <1>0 DEF TreeInv, TypeOK, Merge, Merging
  <1>2. Quads' = Quads \ Gone /\ \A q \in Quads' : boundary'[q] = boundary[q]
    BY <1>0 DEF Merge, Quads
  <1>3. SameBoundaries
    BY <1>2 DEF SameBoundaries
  <1>4. u \in Quads' /\ Root \in Quads'
    BY <1>1, <1>2, ChildPath DEF TreeInv, TypeOK
  <1>5. /\ IsLeaf(u)'
        /\ \A d \in Quads' : d # u => (IsLeaf(d)' <=> IsLeaf(d))
    <2>1. ASSUME NEW d \in Quads', d # u
          PROVE  IsLeaf(d)' <=> IsLeaf(d)
      <3>1. d \in Seq(1..4)
        BY <1>1, <1>2
      <3>2. Append(d, 1) \notin Gone
        BY <1>1, <2>1, <3>1, SameChild
      <3>. QED BY <1>2, <3>2 DEF IsLeaf
    <2>. QED BY <1>2, <2>1 DEF IsLeaf
  <1>6. ChildrenCover'
    <2> SUFFICES ASSUME NEW p \in Points, InBoundary(boundary[Root], p)
                 PROVE  \E d \in Quads' :
                           OnWay(d, p)' /\ (IsLeaf(d)' \/ boundary'[d].w % 2 # 0)
      BY <1>2, <1>4 DEF ChildrenCover
    <2>1. PICK d \in Quads : OnWay(d, p) /\ (IsLeaf(d) \/ boundary[d].w % 2 # 0)
      BY DEF BoundsInv, ChildrenCover
    <2>2. CASE d \in Quads'
      <3>1. OnWay(d, p)' /\ boundary'[d] = boundary[d]
        BY <1>2, <1>3, <2>1, <2>2, WayKept
      <3>. QED BY <1>5, <2>1, <2>2, <3>1
    <2>3. CASE d \in Gone
      <3>1. Ancestor(d, Len(u)) = u /\ Len(u) \in 0 .. Len(d) /\ d \in Seq(1..4)
        <4>1. PICK k \in 1..4 : d = Append(u, k)
          BY <2>3
        <4>2. d \in Seq(1..4) /\ Len(d) = Len(u) + 1 /\ Ancestor(d, Len(u)) = u
          BY <1>1, <4>1, ChildPath
        <4>. QED BY <1>1, <4>2
      <3>2. OnWay(u, p)
        BY <2>1, <3>1, WayUp
      <3>3. OnWay(u, p)'
        BY <1>1, <1>3, <1>4, <3>2, WayKept
      <3>. QED BY <1>4, <1>5, <3>3
    <2>. QED BY <1>2, <2>2, <2>3
  <1>7. LeavesBounded'
    <2> SUFFICES ASSUME NEW d, d \in Quads', IsLeaf(d)'
                 PROVE  DistinctSize(d)' <= MaxEntities \/ ~CanSubdivide(d)'
      BY DEF LeavesBounded
    <2>1. Below(d)' = {e \in Entities : at'[e] = d}
      BY LeafBelowNext
    <2>2. CASE d = u
      <3>1. Below(u) = {e \in Entities : at'[e] = u}
        <4>1. \A e \in Entities : at[e] = u => e \in Below(u)
          <5>1. Len(u) <= Len(u) /\ Ancestor(u, Len(u)) = u
            BY <1>1, AncestorOf
          <5>. QED BY <1>1, <5>1 DEF Below
        <4>2. Below(u) \subseteq Entities
          BY DEF Below
        <4>. QED BY <1>1, <4>1, <4>2
      <3>2. DistinctSize(d)' = DistinctSize(u)
        BY <1>1, <2>1, <2>2, <3>1 DEF DistinctSize
      <3>. QED BY <1>1, <3>2
    <2>3. CASE d # u
      <3>1. d \in Quads /\ IsLeaf(d)
        BY <1>2, <1>5, <2>3
      <3>2. Below(d) = {e \in Entities : at[e] = d}
        BY <3>1, LeafBelow
      <3>3. Below(d)' \subseteq Below(d) /\ Below(d) \in SUBSET Entities
        BY <1>1, <2>1, <2>3, <3>2
      <3>4. /\ Cardinality({pos[e] : e \in Below(d)'}) <= Cardinality({pos[e] : e \in Below(d)})
            /\ Cardinality({pos[e] : e \in Below(d)'}) \in Nat
            /\ Cardinality({pos[e] : e \in Below(d)}) \in Nat
        BY <3>3, Images
      <3>5. DistinctSize(d) <= MaxEntities \/ ~CanSubdivide(d)
        BY <3>1 DEF BoundsInv, LeavesBounded
      <3>6. CanSubdivide(d)' = CanSubdivide(d)
        BY <1>2 DEF CanSubdivide
      <3>7. /\ DistinctSize(d)' = Cardinality({pos[e] : e \in Below(d)'})
            /\ DistinctSize(d) = Cardinality({pos[e] : e \in Below(d)})
        BY <1>1 DEF DistinctSize
      <3>. QED BY <3>4, <3>5, <3>6, <3>7, MaxAssumption
    <2>. QED BY <2>2, <2>3
  <1>8. InnersFull'
    <2> SUFFICES ASSUME NEW d, d \in Quads', ~IsLeaf(d)'
                 PROVE  \/ Cardinality({pos'[e] : e \in Wanted(d)'}) >= MaxEntities
                        \/ MayMerge(d)'
      BY DEF InnersFull
    <2>1. /\ d \in Quads /\ d \in Seq(1..4) /\ d # u /\ ~IsLeaf(d)
          /\ Wanted(d)' = Wanted(d)
      BY <1>1, <1>2, <1>3, <1>5, WantedKept
    <2>2. CASE ~MayMerge(d)
      BY <1>1, <2>1, <2>2 DEF BoundsInv, InnersFull
    <2>3. CASE MayMerge(d)
      <3>1. Len(d) <= Len(u) /\ Ancestor(u, Len(d)) = d /\ Len(d) \in Nat /\ Len(u) \in Nat
        BY <1>0, <1>1, <2>1, <2>3 DEF MayMerge
      <3>2. Len(d) # Len(u)
        BY <1>1, <2>1, <3>1, AncestorOf
      <3>3. u # Root /\ Len(u) - 1 \in 0 .. Len(u) /\ Len(d) \in 0 .. Len(u) - 1
        BY <3>1, <3>2 DEF Root
      <3>4. /\ up' = Ancestor(u, Len(u) - 1) /\ Len(up') = Len(u) - 1
            /\ Ancestor(up', Len(d)) = Ancestor(u, Len(d)) /\ up' \in Seq(1..4)
        BY <1>1, <3>3, AncestorOf DEF Parent
      <3>. QED BY <3>1, <3>3, <3>4, NoQuadAssumption DEF MayMerge
    <2>. QED BY <2>2, <2>3
  <1>9. ChildFound'
    BY <1>1 DEF ChildFound
  <1>. QED BY <1>6, <1>7, <1>8, <1>9 DEF BoundsInv

\* Where inner() finds nothing, a quad of odd width has been divided.
LEMMA NoChildBounds ==
    ASSUME TreeInv, BoundsInv, NoChild
    PROVE  BoundsInv'
  <1>1. UNCHANGED <<boundary, at, pos, todo, up>> /\ todo # <<>>
    BY DEF NoChild
  <1> DEFINE e == Head(todo)
             p == pos[e]
  <1>2. e \in Entities /\ p \in Points /\ InBoundary(boundary[Root], p)
    <2>1. e = todo[1] /\ 1 \in DOMAIN todo /\ e \in Entities
      BY <1>1, HeadTailProperties DEF TreeInv, TypeOK
    <2>. QED BY <2>1 DEF TreeInv, TypeOK, Pending, Inside
  <1>3. PICK c \in Quads : OnWay(c, p) /\ (IsLeaf(c) \/ boundary[c].w % 2 # 0)
    BY <1>2 DEF BoundsInv, ChildrenCover
  <1>4. ~IsLeaf(c)
    BY <1>3 DEF NoChild, Reaches, OnWay
  <1>5. ChildFound'
    BY <1>1, <1>3, <1>4 DEF ChildFound, IsLeaf, Quads
  <1>. QED BY <1>1, <1>5, QuietBounds

LEMMA StepBounds == TreeInv /\ BoundsInv /\ [Next]_vars => BoundsInv'
  <1> SUFFICES ASSUME TreeInv, BoundsInv, [Next]_vars PROVE BoundsInv'
    OBVIOUS
  <1>0. TreeInv'
    BY StepInv
  <1>1. ASSUME NEW e \in Entities, NEW p \in Points, Insert(e, p) PROVE BoundsInv'
    BY <1>1, InsertBounds
  <1>2. ASSUME NEW c \in Quads, InsertIntoLeaf(c) PROVE BoundsInv'
    BY <1>0, <1>2, InsertIntoLeafBounds
  <1>3. ASSUME NEW c \in Quads, Subdivide(c) PROVE BoundsInv'
    BY <1>0, <1>3, SubdivideBounds
  <1>4. CASE NoChild
    BY <1>4, NoChildBounds
  <1>5. ASSUME NEW e \in Entities, Remove(e) PROVE BoundsInv'
    BY <1>0, <1>5, RemoveBounds
  <1>6. CASE KeepChildren
    BY <1>0, <1>6, KeepChildrenBounds
  <1>7. CASE Merge
    BY <1>0, <1>7, MergeBounds
  <1>8. CASE NoContainer
    <2>1. ChildFound'
      BY <1>8 DEF NoContainer, ChildFound
    <2>. QED BY <1>8, <2>1, QuietBounds DEF NoContainer
  <1>9. ASSUME NEW p \in Points, NEW r \in Radii, Query(p, r) PROVE BoundsInv'
    <2>1. ChildFound'
      BY <1>9 DEF Query, Idle, ChildFound
    <2>. QED BY <1>9, <2>1, QuietBounds DEF Query
  <1>10. CASE UNCHANGED vars
    <2>1. ChildFound'
      BY <1>10 DEF vars, BoundsInv, ChildFound, IsLeaf, Quads
    <2>. QED BY <1>10, <2>1, QuietBounds DEF vars
  <1>. QED
    BY <1>1, <1>2, <1>3, <1>4, <1>5, <1>6, <1>7, <1>8, <1>9, <1>10 DEF Next

LEMMA BoundsInvariant == Spec => [](TreeInv /\ BoundsInv)
  BY InitInv, StepInv, InitBounds, StepBounds, PTL DEF Spec

-----------------------------------------------------------------------------
(* The theorems.                                                            *)

\* A container holds QUADTREE_MAX_NODES points at most, unless its square is too
\* small to be divided.
THEOREM LeavesStayBounded == Spec => []LeafBounded
  <1>1. BoundsInv => LeafBounded
    BY DEF BoundsInv, LeavesBounded, LeafBounded
  <1>. QED BY <1>1, BoundsInvariant, PTL

\* The cascade of merge() after a removal dissolves every quad it should.
THEOREM MergesAreComplete == Spec => []InnerQuadsFull
  <1>1. TreeInv /\ BoundsInv => InnerQuadsFull
    <2> SUFFICES ASSUME TreeInv, BoundsInv, Idle, NEW c \in Quads, ~IsLeaf(c)
                 PROVE  DistinctSize(c) >= MaxEntities
      BY DEF InnerQuadsFull
    <2>1. Wanted(c) = Below(c) /\ ~MayMerge(c)
      BY WantedBelow DEF Idle, MayMerge
    <2>. QED BY <2>1 DEF BoundsInv, InnersFull, DistinctSize
  <1>. QED BY <1>1, BoundsInvariant, PTL

\* inner() returns nullptr only below a quad of odd width.
THEOREM ChildrenFound == Spec => []ChildFound
  <1>1. BoundsInv => ChildFound
    BY DEF BoundsInv
  <1>. QED BY <1>1, BoundsInvariant, PTL

=============================================================================
