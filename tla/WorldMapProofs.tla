--------------------------- MODULE WorldMapProofs ---------------------------
(***************************************************************************)
(* Proofs about WorldMap, for any entities, maps, points and sight.        *)
(***************************************************************************)
EXTENDS WorldMap, TLAPS

\* An ID that has not been given yet is nowhere, and no client shows it.
Fresh ==
    \A e \in (Monsters \cup Loots) \ used :
        /\ e \notin inWorld /\ e \notin strayed
        /\ \A p \in Players : e \notin shown[p]
        /\ e \in Monsters => gstate[e] = "normal"

\* Those who have not strayed are inside.
InsideUnlessStrayed == \A e \in inWorld \ strayed : Inside(pos[e])

WorldInv ==
    TypeOK /\ MapsMatchWorld /\ SeesAround /\ NoGhosts /\ Fresh /\ InsideUnlessStrayed

\* What StaysShown says of a step.
Kept ==
    \A p \in Players, e \in Entities :
        /\ Meet(p, e) /\ Near(pos[p], pos[e]) /\ e \in shown[p]
        /\ Meet(p, e)' /\ Near(pos[p], pos[e])'
        /\ e \in Monsters => gstate'[e] = gstate[e]
        => e \in shown'[p]

-----------------------------------------------------------------------------

LEMMA NearSymmetric ==
    ASSUME NEW p \in Points, NEW q \in Points
    PROVE  Near(p, q) <=> Near(q, p)
<1>1. p.x \in Int /\ p.y \in Int /\ q.x \in Int /\ q.y \in Int
  BY PointsAssumption
<1>2. \A a, b \in Int : (a - b) * (a - b) = (b - a) * (b - a)
  OBVIOUS
<1>. QED BY <1>1, <1>2 DEF Near, Index!Within

\* Where an entity is, its distance is from a point of the map.
LEMMA InWorldPoint ==
    ASSUME TypeOK, NEW e \in Entities, e \in inWorld
    PROVE  pos[e] \in Points
BY DEF TypeOK

LEMMA InitInv ==
    ASSUME Init
    PROVE  WorldInv
<1>1. /\ Npcs \subseteq Entities /\ Players \subseteq Entities
      /\ \A e \in Npcs : e \notin Players /\ e \notin Monsters /\ e \notin Loots
  BY KindsAssumption DEF Entities
<1>2. TypeOK
  BY <1>1, PointsAssumption DEF Init, TypeOK, GState
<1>3. MapsMatchWorld /\ InsideUnlessStrayed
  BY <1>1 DEF Init, MapsMatchWorld, InsideUnlessStrayed
<1>4. SeesAround /\ NoGhosts /\ Fresh
  BY <1>1 DEF Init, SeesAround, NoGhosts, Fresh, Meet
<1>. QED BY <1>2, <1>3, <1>4 DEF WorldInv

-----------------------------------------------------------------------------
(* Entering the world.                                                      *)

LEMMA AddPreserves ==
    ASSUME WorldInv, NEW e \in Entities, NEW p \in Points, NEW m \in Maps,
           e \notin inWorld, Add(e, p, m)
    PROVE  /\ inWorld' = inWorld \cup {e} /\ inWorld' \subseteq Entities
           /\ pos' \in [Entities -> Points \cup {NoPoint}]
           /\ \A x \in Entities : x \in inWorld' <=> pos'[x] # NoPoint
           /\ pos'[e] = p /\ map'[e] = m
           /\ \A x \in Entities : x # e => pos'[x] = pos[x] /\ map'[x] = map[x]
           /\ map' \in [Entities -> Maps]
           /\ quad' \in [Maps -> SUBSET Entities]
           /\ listed' \in [Maps -> SUBSET Entities]
           /\ strayed \subseteq strayed' /\ strayed' \subseteq strayed \cup {e}
           /\ MapsMatchWorld' /\ InsideUnlessStrayed'
<1>1. /\ inWorld' = inWorld \cup {e} /\ inWorld' \subseteq Entities
      /\ pos' \in [Entities -> Points \cup {NoPoint}]
      /\ \A x \in Entities : x \in inWorld' <=> pos'[x] # NoPoint
      /\ pos'[e] = p /\ map'[e] = m
      /\ \A x \in Entities : x # e => pos'[x] = pos[x] /\ map'[x] = map[x]
      /\ map' \in [Entities -> Maps]
  BY PointsAssumption DEF WorldInv, TypeOK, Add
<1>2. /\ \A n \in Maps : /\ quad'[n] = IF n = m /\ Inside(p) THEN quad[n] \cup {e} ELSE quad[n]
                         /\ listed'[n] = IF n = m /\ Inside(p) THEN listed[n] \cup {e} ELSE listed[n]
      /\ quad' \in [Maps -> SUBSET Entities] /\ listed' \in [Maps -> SUBSET Entities]
  BY DEF WorldInv, TypeOK, Add, WithIfInside, With
<1>3. strayed' = IF Inside(p) THEN strayed ELSE strayed \cup {e}
  BY DEF Add, Stray
<1>4. MapsMatchWorld'
  BY <1>1, <1>2, <1>3 DEF WorldInv, MapsMatchWorld
<1>5. InsideUnlessStrayed'
  BY <1>1, <1>3 DEF WorldInv, InsideUnlessStrayed, TypeOK
<1>. QED BY <1>1, <1>2, <1>3, <1>4, <1>5

LEMMA OnStartInv ==
    ASSUME WorldInv, NEW e \in Players, NEW p \in Points, NEW m \in Maps, OnStart(e, p, m)
    PROVE  WorldInv' /\ Kept
<1>0. /\ e \in Entities /\ e \notin inWorld /\ Add(e, p, m)
      /\ Players \subseteq Entities
      /\ e \notin Monsters /\ e \notin Loots
  BY KindsAssumption DEF OnStart, Entities
<1>1. /\ inWorld' = inWorld \cup {e} /\ inWorld' \subseteq Entities
      /\ pos' \in [Entities -> Points \cup {NoPoint}]
      /\ \A x \in Entities : x \in inWorld' <=> pos'[x] # NoPoint
      /\ pos'[e] = p /\ map'[e] = m
      /\ \A x \in Entities : x # e => pos'[x] = pos[x] /\ map'[x] = map[x]
      /\ map' \in [Entities -> Maps]
      /\ quad' \in [Maps -> SUBSET Entities]
      /\ listed' \in [Maps -> SUBSET Entities]
      /\ strayed \subseteq strayed' /\ strayed' \subseteq strayed \cup {e}
      /\ MapsMatchWorld' /\ InsideUnlessStrayed'
  BY <1>0, AddPreserves
<1>2. gstate' = gstate /\ used' = used
  BY DEF OnStart
<1>3. Around(m, p) \subseteq Entities
  BY DEF WorldInv, TypeOK, Around
<1>4. /\ shown' \in [Players -> SUBSET Entities]
      /\ shown'[e] = Around(m, p)
      /\ \A q \in Players : q # e =>
            shown'[q] = shown[q] \cup {x \in {e} : q \in Around(m, p)}
  BY <1>0, <1>3 DEF OnStart, Told, WorldInv, TypeOK
<1>5. \A x \in Entities : x \in Around(m, p) <=>
         x \in inWorld /\ map[x] = m /\ Inside(pos[x]) /\ Near(pos[x], p)
  BY DEF WorldInv, MapsMatchWorld, Around
<1>6. \A x \in Entities : x \in inWorld => (Near(pos[x], p) <=> Near(p, pos[x]))
  BY NearSymmetric, InWorldPoint DEF WorldInv
<1>7. TypeOK'
  BY <1>0, <1>1, <1>2, <1>4 DEF WorldInv, TypeOK
<1>8. SeesAround'
  <2>1. ASSUME NEW q \in Players, NEW x \in Entities \ Loots, Meet(q, x)', Near(pos[q], pos[x])',
               (x \in Monsters => gstate[x] # "CGS_KO")'
        PROVE  x \in shown'[q]
    <3>1. CASE q = e
      BY <1>0, <1>1, <1>4, <1>5, <1>6, <2>1, <3>1 DEF Meet, WorldInv, InsideUnlessStrayed
    <3>2. CASE q # e /\ x = e
      BY <1>0, <1>1, <1>4, <1>5, <1>6, <2>1, <3>2 DEF Meet, WorldInv, InsideUnlessStrayed
    <3>3. CASE q # e /\ x # e
      BY <1>0, <1>1, <1>2, <1>4, <2>1, <3>3 DEF Meet, WorldInv, SeesAround
    <3>. QED BY <3>1, <3>2, <3>3
  <2>. QED BY <2>1 DEF SeesAround
<1>9. NoGhosts'
  <2>1. ASSUME NEW q \in Players, NEW x \in shown'[q], q \notin strayed', x \notin strayed'
        PROVE  \/ Meet(q, x)' /\ Near(pos[q], pos[x])'
               \/ x \in Monsters /\ x \notin inWorld' /\ gstate'[x] = "CGS_KO"
    <3>1. CASE q = e
      BY <1>0, <1>1, <1>3, <1>4, <1>5, <1>6, <2>1, <3>1 DEF Meet
    <3>2. CASE q # e /\ x = e
      <4>1. x \notin shown[q]
        BY <1>0, <1>1, <2>1, <3>2 DEF WorldInv, NoGhosts, Meet
      <4>. QED BY <1>0, <1>1, <1>4, <1>5, <2>1, <3>2, <4>1 DEF Meet
    <3>3. CASE q # e /\ x # e
      BY <1>0, <1>1, <1>2, <1>4, <2>1, <3>3 DEF Meet, WorldInv, NoGhosts, TypeOK
    <3>. QED BY <3>1, <3>2, <3>3
  <2>. QED BY <2>1 DEF NoGhosts
<1>10. Fresh'
  BY <1>0, <1>1, <1>2, <1>3, <1>4, <1>5 DEF WorldInv, Fresh, Entities
<1>11. Kept
  BY <1>0, <1>4 DEF Kept, Meet
<1>. QED BY <1>1, <1>7, <1>8, <1>9, <1>10, <1>11 DEF WorldInv

LEMMA SpawnMonsterInv ==
    ASSUME WorldInv, NEW e \in Monsters, NEW p \in Points, SpawnMonster(e, p)
    PROVE  WorldInv' /\ Kept
<1>0. /\ e \in Entities /\ e \notin inWorld /\ e \notin strayed /\ Add(e, p, 0) /\ 0 \in Maps
      /\ Players \subseteq Entities /\ e \notin Players /\ e \notin Loots
      /\ \A q \in Players : e \notin shown[q]
  BY KindsAssumption, MapsAssumption DEF SpawnMonster, Entities, WorldInv, Fresh
<1>1. /\ inWorld' = inWorld \cup {e} /\ inWorld' \subseteq Entities
      /\ pos' \in [Entities -> Points \cup {NoPoint}]
      /\ \A x \in Entities : x \in inWorld' <=> pos'[x] # NoPoint
      /\ pos'[e] = p /\ map'[e] = 0
      /\ \A x \in Entities : x # e => pos'[x] = pos[x] /\ map'[x] = map[x]
      /\ map' \in [Entities -> Maps]
      /\ quad' \in [Maps -> SUBSET Entities]
      /\ listed' \in [Maps -> SUBSET Entities]
      /\ strayed \subseteq strayed' /\ strayed' \subseteq strayed \cup {e}
      /\ MapsMatchWorld' /\ InsideUnlessStrayed'
  BY <1>0, AddPreserves
<1>2. gstate' = gstate /\ used' = used \cup {e}
  BY DEF SpawnMonster
<1>3. /\ shown' \in [Players -> SUBSET Entities]
      /\ \A q \in Players :
            shown'[q] = shown[q] \cup {x \in {e} : q \in Around(0, p)}
  BY <1>0 DEF SpawnMonster, Told, WorldInv, TypeOK
<1>4. \A x \in Entities : x \in Around(0, p) <=>
         x \in inWorld /\ map[x] = 0 /\ Inside(pos[x]) /\ Near(pos[x], p)
  BY <1>0 DEF WorldInv, MapsMatchWorld, Around
<1>5. TypeOK'
  BY <1>0, <1>1, <1>2, <1>3 DEF WorldInv, TypeOK
<1>6. SeesAround'
  <2>1. ASSUME NEW q \in Players, NEW x \in Entities \ Loots, Meet(q, x)', Near(pos[q], pos[x])',
               (x \in Monsters => gstate[x] # "CGS_KO")'
        PROVE  x \in shown'[q]
    <3>1. CASE x = e
      BY <1>0, <1>1, <1>3, <1>4, <2>1, <3>1 DEF Meet, WorldInv, InsideUnlessStrayed
    <3>2. CASE x # e
      BY <1>0, <1>1, <1>2, <1>3, <2>1, <3>2 DEF Meet, WorldInv, SeesAround
    <3>. QED BY <3>1, <3>2
  <2>. QED BY <2>1 DEF SeesAround
<1>7. NoGhosts'
  <2>1. ASSUME NEW q \in Players, NEW x \in shown'[q], q \notin strayed', x \notin strayed'
        PROVE  \/ Meet(q, x)' /\ Near(pos[q], pos[x])'
               \/ x \in Monsters /\ x \notin inWorld' /\ gstate'[x] = "CGS_KO"
    <3>1. CASE x = e
      BY <1>0, <1>1, <1>3, <1>4, <2>1, <3>1 DEF Meet
    <3>2. CASE x # e
      BY <1>0, <1>1, <1>2, <1>3, <2>1, <3>2 DEF Meet, WorldInv, NoGhosts, TypeOK
    <3>. QED BY <3>1, <3>2
  <2>. QED BY <2>1 DEF NoGhosts
<1>8. Fresh'
  BY <1>0, <1>1, <1>2, <1>3 DEF WorldInv, Fresh
<1>9. Kept
  BY <1>3 DEF Kept
<1>. QED BY <1>1, <1>5, <1>6, <1>7, <1>8, <1>9 DEF WorldInv

-----------------------------------------------------------------------------
(* Moving.                                                                  *)

LEMMA OnMoveInv ==
    ASSUME WorldInv, NEW e \in Players, NEW dx \in Deltas, NEW dy \in Deltas,
           OnMove(e, dx, dy)
    PROVE  WorldInv' /\ Kept
<1>. DEFINE to     == Step(pos[e], dx, dy)
            others == quad[map[e]] \ {e}
            gone   == {o \in others : Near(pos[o], pos[e]) /\ ~Near(pos[o], to)}
            there  == {o \in others : ~Near(pos[o], pos[e]) /\ Near(pos[o], to)}
<1>0. /\ e \in Entities /\ e \in inWorld /\ to \in Points /\ map[e] \in Maps
      /\ Players \subseteq Entities
      /\ e \notin Monsters /\ e \notin Loots
  BY KindsAssumption DEF OnMove, Entities, WorldInv, TypeOK
<1>1. /\ inWorld' = inWorld /\ map' = map /\ listed' = listed
      /\ gstate' = gstate /\ used' = used
      /\ pos' = [pos EXCEPT ![e] = to]
      /\ quad' = WithIfInside(Without(quad, map[e], e), map[e], e, to)
      /\ shown' = [Told(e, gone, there) EXCEPT ![e] = (@ \ gone) \cup (there \ Loots)]
      /\ strayed' = IF Inside(to) THEN strayed ELSE strayed \cup {e}
  BY DEF OnMove, Stray
<1>2. \A x \in Entities : x \in others <=>
         x # e /\ x \in inWorld /\ map[x] = map[e] /\ Inside(pos[x])
  BY <1>0 DEF WorldInv, MapsMatchWorld
<1>3. others \subseteq Entities
  BY <1>0 DEF WorldInv, TypeOK
<1>. HIDE DEF to, others
<1>4. /\ pos'[e] = to /\ \A x \in Entities : x # e => pos'[x] = pos[x]
      /\ pos' \in [Entities -> Points \cup {NoPoint}]
  BY <1>0, <1>1 DEF WorldInv, TypeOK
<1>5. /\ quad' \in [Maps -> SUBSET Entities]
      /\ \A n \in Maps, x \in Entities : x \in quad'[n] <=>
            IF x = e THEN n = map[e] /\ Inside(to) ELSE x \in quad[n]
  BY <1>0, <1>1 DEF WorldInv, TypeOK, MapsMatchWorld, WithIfInside, With, Without
<1>6. /\ shown' \in [Players -> SUBSET Entities]
      /\ shown'[e] = (shown[e] \ gone) \cup (there \ Loots)
      /\ \A q \in Players : q # e => shown'[q] =
            (shown[q] \ {x \in {e} : q \in gone}) \cup {x \in {e} : q \in there}
  BY <1>0, <1>1, <1>2, <1>3 DEF Told, WorldInv, TypeOK
<1>7. \A x \in Entities : x \in inWorld =>
         /\ Near(pos[x], to) <=> Near(to, pos[x])
         /\ Near(pos[x], pos[e]) <=> Near(pos[e], pos[x])
  BY <1>0, NearSymmetric, InWorldPoint DEF WorldInv
<1>8. TypeOK'
  <2>1. \A x \in Entities : x \in inWorld' <=> pos'[x] # NoPoint
    BY <1>0, <1>1, <1>4, PointsAssumption DEF WorldInv, TypeOK
  <2>2. strayed' \subseteq Entities
    BY <1>0, <1>1 DEF WorldInv, TypeOK
  <2>3. /\ inWorld' \subseteq Entities /\ map' \in [Entities -> Maps]
        /\ listed' \in [Maps -> SUBSET Entities] /\ gstate' \in [Monsters -> GState]
        /\ used' \subseteq Monsters \cup Loots
    BY <1>1 DEF WorldInv, TypeOK
  <2>. QED BY <1>4, <1>5, <1>6, <2>1, <2>2, <2>3 DEF TypeOK
<1>9. MapsMatchWorld'
  BY <1>0, <1>1, <1>4, <1>5 DEF WorldInv, MapsMatchWorld
<1>10. InsideUnlessStrayed'
  BY <1>0, <1>1, <1>4 DEF WorldInv, InsideUnlessStrayed, TypeOK
<1>11. SeesAround'
  <2>1. ASSUME NEW q \in Players, NEW x \in Entities \ Loots, Meet(q, x)', Near(pos[q], pos[x])',
               (x \in Monsters => gstate[x] # "CGS_KO")'
        PROVE  x \in shown'[q]
    <3>0. Meet(q, x) /\ Inside(pos[q]) /\ Inside(pos[x])
      BY <1>0, <1>1, <2>1 DEF Meet, WorldInv, InsideUnlessStrayed
    <3>1. CASE q = e
      BY <1>0, <1>1, <1>2, <1>4, <1>6, <1>7, <2>1, <3>0, <3>1 DEF Meet, WorldInv, SeesAround
    <3>2. CASE q # e /\ x = e
      BY <1>0, <1>1, <1>2, <1>4, <1>6, <1>7, <2>1, <3>0, <3>2 DEF Meet, WorldInv, SeesAround
    <3>3. CASE q # e /\ x # e
      BY <1>0, <1>1, <1>4, <1>6, <2>1, <3>0, <3>3 DEF Meet, WorldInv, SeesAround
    <3>. QED BY <3>1, <3>2, <3>3
  <2>. QED BY <2>1 DEF SeesAround
<1>12. NoGhosts'
  <2>1. ASSUME NEW q \in Players, NEW x \in shown'[q], q \notin strayed', x \notin strayed'
        PROVE  \/ Meet(q, x)' /\ Near(pos[q], pos[x])'
               \/ x \in Monsters /\ x \notin inWorld' /\ gstate'[x] = "CGS_KO"
    <3>0. q \in Entities /\ x \in Entities /\ q \notin strayed /\ x \notin strayed
      BY <1>0, <1>1, <1>6, <2>1
    <3>1. CASE q = e /\ x \in shown[e] \ gone
      BY <1>0, <1>1, <1>2, <1>4, <1>7, <2>1, <3>0, <3>1
         DEF Meet, WorldInv, NoGhosts, InsideUnlessStrayed
    <3>2. CASE q = e /\ x \in there
      BY <1>0, <1>1, <1>2, <1>4, <1>7, <2>1, <3>0, <3>2 DEF Meet
    <3>3. CASE q # e /\ x = e
      BY <1>0, <1>1, <1>2, <1>4, <1>6, <1>7, <2>1, <3>0, <3>3
         DEF Meet, WorldInv, NoGhosts, InsideUnlessStrayed
    <3>4. CASE q # e /\ x # e
      BY <1>0, <1>1, <1>4, <1>6, <2>1, <3>0, <3>4 DEF Meet, WorldInv, NoGhosts
    <3>. QED BY <1>6, <2>1, <3>1, <3>2, <3>3, <3>4
  <2>. QED BY <2>1 DEF NoGhosts
<1>13. Fresh'
  BY <1>0, <1>1, <1>2, <1>6 DEF WorldInv, Fresh, Entities
<1>14. Kept
  <2>1. ASSUME NEW q \in Players, NEW x \in Entities, Meet(q, x), Near(pos[q], pos[x]),
               x \in shown[q], Meet(q, x)', Near(pos[q], pos[x])'
        PROVE  x \in shown'[q]
    BY <1>0, <1>1, <1>2, <1>4, <1>6, <1>7, <2>1 DEF Meet
  <2>. QED BY <2>1 DEF Kept
<1>. QED BY <1>8, <1>9, <1>10, <1>11, <1>12, <1>13, <1>14 DEF WorldInv

LEMMA TeleportInv ==
    ASSUME WorldInv, NEW e \in Players, NEW to \in Points, Teleport(e, to)
    PROVE  WorldInv' /\ Kept
<1>. DEFINE gone  == Around(map[e], pos[e]) \ {e}
            there == Around(map[e], to) \ {e}
<1>0. /\ e \in Entities /\ e \in inWorld /\ map[e] \in Maps
      /\ Players \subseteq Entities
      /\ e \notin Monsters /\ e \notin Loots
  BY KindsAssumption DEF Teleport, Entities, WorldInv, TypeOK
<1>1. /\ inWorld' = inWorld /\ map' = map /\ gstate' = gstate /\ used' = used
      /\ pos' = [pos EXCEPT ![e] = to]
      /\ quad' = WithIfInside(Without(quad, map[e], e), map[e], e, to)
      /\ listed' = WithIfInside(Without(listed, map[e], e), map[e], e, to)
      /\ shown' = [Told(e, gone, there) EXCEPT ![e] = there]
      /\ strayed' = IF Inside(to) THEN strayed ELSE strayed \cup {e}
  BY DEF Teleport, Stray
<1>2. /\ gone \subseteq Entities /\ there \subseteq Entities
      /\ \A x \in Entities :
            /\ x \in gone <=> /\ x # e /\ x \in inWorld /\ map[x] = map[e]
                              /\ Inside(pos[x]) /\ Near(pos[x], pos[e])
            /\ x \in there <=> /\ x # e /\ x \in inWorld /\ map[x] = map[e]
                               /\ Inside(pos[x]) /\ Near(pos[x], to)
  BY <1>0 DEF WorldInv, TypeOK, MapsMatchWorld, Around
<1>. HIDE DEF gone, there
<1>3. /\ pos'[e] = to /\ \A x \in Entities : x # e => pos'[x] = pos[x]
      /\ pos' \in [Entities -> Points \cup {NoPoint}]
  BY <1>0, <1>1 DEF WorldInv, TypeOK
<1>4. /\ quad' \in [Maps -> SUBSET Entities]
      /\ \A n \in Maps, x \in Entities : x \in quad'[n] <=>
            IF x = e THEN n = map[e] /\ Inside(to) ELSE x \in quad[n]
  BY <1>0, <1>1 DEF WorldInv, TypeOK, MapsMatchWorld, WithIfInside, With, Without
<1>5. /\ listed' \in [Maps -> SUBSET Entities]
      /\ \A n \in Maps, x \in Entities : x \in listed'[n] <=>
            IF x = e THEN n = map[e] /\ Inside(to) ELSE x \in listed[n]
  BY <1>0, <1>1 DEF WorldInv, TypeOK, MapsMatchWorld, WithIfInside, With, Without
<1>6. /\ shown' \in [Players -> SUBSET Entities] /\ shown'[e] = there
      /\ \A q \in Players : q # e => shown'[q] =
            (shown[q] \ {x \in {e} : q \in gone}) \cup {x \in {e} : q \in there}
  BY <1>0, <1>1, <1>2 DEF Told, WorldInv, TypeOK
<1>7. \A x \in Entities : x \in inWorld =>
         /\ Near(pos[x], to) <=> Near(to, pos[x])
         /\ Near(pos[x], pos[e]) <=> Near(pos[e], pos[x])
  BY <1>0, NearSymmetric, InWorldPoint DEF WorldInv
<1>8. TypeOK'
  <2>1. \A x \in Entities : x \in inWorld' <=> pos'[x] # NoPoint
    BY <1>0, <1>1, <1>3, PointsAssumption DEF WorldInv, TypeOK
  <2>2. strayed' \subseteq Entities
    BY <1>0, <1>1 DEF WorldInv, TypeOK
  <2>3. /\ inWorld' \subseteq Entities /\ map' \in [Entities -> Maps]
        /\ gstate' \in [Monsters -> GState] /\ used' \subseteq Monsters \cup Loots
    BY <1>1 DEF WorldInv, TypeOK
  <2>. QED BY <1>3, <1>4, <1>5, <1>6, <2>1, <2>2, <2>3 DEF TypeOK
<1>9. MapsMatchWorld'
  BY <1>0, <1>1, <1>3, <1>4, <1>5 DEF WorldInv, MapsMatchWorld
<1>10. InsideUnlessStrayed'
  BY <1>0, <1>1, <1>3 DEF WorldInv, InsideUnlessStrayed, TypeOK
<1>11. SeesAround'
  <2>1. ASSUME NEW q \in Players, NEW x \in Entities \ Loots, Meet(q, x)', Near(pos[q], pos[x])',
               (x \in Monsters => gstate[x] # "CGS_KO")'
        PROVE  x \in shown'[q]
    <3>0. Meet(q, x) /\ Inside(pos[q]) /\ Inside(pos[x])
      BY <1>0, <1>1, <2>1 DEF Meet, WorldInv, InsideUnlessStrayed
    <3>1. CASE q = e
      BY <1>0, <1>1, <1>2, <1>3, <1>6, <1>7, <2>1, <3>0, <3>1 DEF Meet
    <3>2. CASE q # e /\ x = e
      BY <1>0, <1>1, <1>2, <1>3, <1>6, <1>7, <2>1, <3>0, <3>2 DEF Meet
    <3>3. CASE q # e /\ x # e
      BY <1>0, <1>1, <1>3, <1>6, <2>1, <3>0, <3>3 DEF Meet, WorldInv, SeesAround
    <3>. QED BY <3>1, <3>2, <3>3
  <2>. QED BY <2>1 DEF SeesAround
<1>12. NoGhosts'
  <2>1. ASSUME NEW q \in Players, NEW x \in shown'[q], q \notin strayed', x \notin strayed'
        PROVE  \/ Meet(q, x)' /\ Near(pos[q], pos[x])'
               \/ x \in Monsters /\ x \notin inWorld' /\ gstate'[x] = "CGS_KO"
    <3>0. q \in Entities /\ x \in Entities /\ q \notin strayed /\ x \notin strayed
      BY <1>0, <1>1, <1>6, <2>1
    <3>1. CASE q = e
      BY <1>0, <1>1, <1>2, <1>3, <1>6, <1>7, <2>1, <3>0, <3>1 DEF Meet
    <3>2. CASE q # e /\ x = e
      BY <1>0, <1>1, <1>2, <1>3, <1>6, <1>7, <2>1, <3>0, <3>2
         DEF Meet, WorldInv, NoGhosts, InsideUnlessStrayed
    <3>3. CASE q # e /\ x # e
      BY <1>0, <1>1, <1>3, <1>6, <2>1, <3>0, <3>3 DEF Meet, WorldInv, NoGhosts
    <3>. QED BY <3>1, <3>2, <3>3
  <2>. QED BY <2>1 DEF NoGhosts
<1>13. Fresh'
  BY <1>0, <1>1, <1>2, <1>6 DEF WorldInv, Fresh, Entities
<1>14. Kept
  <2>1. ASSUME NEW q \in Players, NEW x \in Entities, Meet(q, x), x \in shown[q],
               Meet(q, x)', Near(pos[q], pos[x])'
        PROVE  x \in shown'[q]
    <3>1. Inside(pos[q]) /\ Inside(pos[x])
      BY <2>1 DEF Meet, WorldInv, InsideUnlessStrayed
    <3>. QED BY <1>0, <1>1, <1>2, <1>3, <1>6, <1>7, <2>1, <3>1 DEF Meet
  <2>. QED BY <2>1 DEF Kept
<1>. QED BY <1>8, <1>9, <1>10, <1>11, <1>12, <1>13, <1>14 DEF WorldInv

-----------------------------------------------------------------------------
(* Leaving the world.                                                       *)

LEMMA LeaveInv ==
    ASSUME WorldInv, NEW e \in Players, Leave(e)
    PROVE  WorldInv' /\ Kept
<1>0. /\ e \in Entities /\ e \in inWorld /\ map[e] \in Maps
      /\ Players \subseteq Entities
      /\ e \notin Monsters /\ e \notin Loots
  BY KindsAssumption DEF Leave, Entities, WorldInv, TypeOK
<1>1. /\ inWorld' = inWorld \ {e} /\ map' = map /\ gstate' = gstate /\ used' = used
      /\ strayed' = strayed
      /\ pos' = [pos EXCEPT ![e] = NoPoint]
      /\ quad' = Without(quad, map[e], e) /\ listed' = Without(listed, map[e], e)
      /\ shown' = [Told(e, Around(map[e], pos[e]), {}) EXCEPT ![e] = {}]
  BY DEF Leave
<1>2. /\ pos'[e] = NoPoint /\ \A x \in Entities : x # e => pos'[x] = pos[x]
      /\ pos' \in [Entities -> Points \cup {NoPoint}]
  BY <1>0, <1>1 DEF WorldInv, TypeOK
<1>3. /\ quad' \in [Maps -> SUBSET Entities] /\ listed' \in [Maps -> SUBSET Entities]
      /\ \A n \in Maps, x \in Entities :
            /\ x \in quad'[n] <=> x # e /\ x \in quad[n]
            /\ x \in listed'[n] <=> x # e /\ x \in listed[n]
  BY <1>0, <1>1 DEF WorldInv, TypeOK, MapsMatchWorld, Without
<1>4. /\ shown' \in [Players -> SUBSET Entities] /\ shown'[e] = {}
      /\ \A q \in Players : q # e =>
            shown'[q] = shown[q] \ {x \in {e} : q \in Around(map[e], pos[e])}
  BY <1>0, <1>1 DEF Told, WorldInv, TypeOK
<1>5. \A x \in Entities : x \in inWorld /\ map[x] = map[e] /\ Inside(pos[x])
                           /\ Near(pos[x], pos[e]) => x \in Around(map[e], pos[e])
  BY <1>0 DEF WorldInv, MapsMatchWorld, Around
<1>6. TypeOK'
  BY <1>0, <1>1, <1>2, <1>3, <1>4 DEF WorldInv, TypeOK
<1>7. MapsMatchWorld' /\ InsideUnlessStrayed'
  BY <1>0, <1>1, <1>2, <1>3 DEF WorldInv, MapsMatchWorld, InsideUnlessStrayed, TypeOK
<1>8. SeesAround'
  <2>1. ASSUME NEW q \in Players, NEW x \in Entities \ Loots, Meet(q, x)', Near(pos[q], pos[x])',
               (x \in Monsters => gstate[x] # "CGS_KO")'
        PROVE  x \in shown'[q]
    BY <1>0, <1>1, <1>2, <1>4, <2>1 DEF Meet, WorldInv, SeesAround
  <2>. QED BY <2>1 DEF SeesAround
<1>9. NoGhosts'
  <2>1. ASSUME NEW q \in Players, NEW x \in shown'[q], q \notin strayed', x \notin strayed'
        PROVE  \/ Meet(q, x)' /\ Near(pos[q], pos[x])'
               \/ x \in Monsters /\ x \notin inWorld' /\ gstate'[x] = "CGS_KO"
    <3>0. q # e /\ x \in shown[q] /\ q \in Entities /\ x \in Entities
      BY <1>0, <1>4, <2>1 DEF WorldInv, TypeOK
    <3>1. x # e
      BY <1>0, <1>1, <1>4, <1>5, <2>1, <3>0
         DEF Meet, WorldInv, NoGhosts, InsideUnlessStrayed
    <3>. QED BY <1>0, <1>1, <1>2, <2>1, <3>0, <3>1 DEF Meet, WorldInv, NoGhosts
  <2>. QED BY <2>1 DEF NoGhosts
<1>10. Fresh'
  BY <1>0, <1>1, <1>4 DEF WorldInv, Fresh
<1>11. Kept
  BY <1>0, <1>1, <1>4 DEF Kept, Meet
<1>. QED BY <1>6, <1>7, <1>8, <1>9, <1>10, <1>11 DEF WorldInv

LEMMA RemoveLootInv ==
    ASSUME WorldInv, NEW S \in SUBSET Loots, S \subseteq inWorld, RemoveLoot(S)
    PROVE  WorldInv' /\ Kept
<1>0. /\ S \subseteq Entities /\ Players \subseteq Entities
      /\ \A x \in S : x \notin Players /\ x \notin Monsters
  BY KindsAssumption DEF Entities
<1>1. /\ inWorld' = inWorld \ S /\ map' = map /\ gstate' = gstate /\ used' = used
      /\ strayed' = strayed
      /\ pos' = [e \in Entities |-> IF e \in S THEN NoPoint ELSE pos[e]]
      /\ quad' = [m \in Maps |-> quad[m] \ S] /\ listed' = [m \in Maps |-> listed[m] \ S]
      /\ shown' = ToldOf(S)
  BY DEF RemoveLoot
<1>2. /\ \A x \in Entities : pos'[x] = IF x \in S THEN NoPoint ELSE pos[x]
      /\ pos' \in [Entities -> Points \cup {NoPoint}]
  BY <1>1 DEF WorldInv, TypeOK
<1>3. /\ quad' \in [Maps -> SUBSET Entities] /\ listed' \in [Maps -> SUBSET Entities]
      /\ \A n \in Maps : quad'[n] = quad[n] \ S /\ listed'[n] = listed[n] \ S
  BY <1>1 DEF WorldInv, TypeOK
<1>4. /\ shown' \in [Players -> SUBSET Entities]
      /\ \A q \in Players, x \in Entities : x \in shown'[q] <=>
            x \in shown[q] /\ ~(x \in S /\ q \in Around(map[x], pos[x]))
  BY <1>1 DEF ToldOf, WorldInv, TypeOK
<1>5. \A q \in Players, x \in S :
         /\ q \in inWorld /\ map[q] = map[x] /\ Inside(pos[q])
         /\ Near(pos[q], pos[x])
         => q \in Around(map[x], pos[x])
  BY <1>0 DEF WorldInv, TypeOK, MapsMatchWorld, Around
<1>6. TypeOK'
  BY <1>0, <1>1, <1>2, <1>3, <1>4 DEF WorldInv, TypeOK
<1>7. MapsMatchWorld' /\ InsideUnlessStrayed'
  BY <1>0, <1>1, <1>2, <1>3 DEF WorldInv, MapsMatchWorld, InsideUnlessStrayed, TypeOK
<1>8. SeesAround'
  <2>1. ASSUME NEW q \in Players, NEW x \in Entities \ Loots, Meet(q, x)', Near(pos[q], pos[x])',
               (x \in Monsters => gstate[x] # "CGS_KO")'
        PROVE  x \in shown'[q]
    BY <1>0, <1>1, <1>2, <1>4, <2>1 DEF Meet, WorldInv, SeesAround
  <2>. QED BY <2>1 DEF SeesAround
<1>9. NoGhosts'
  <2>1. ASSUME NEW q \in Players, NEW x \in shown'[q], q \notin strayed', x \notin strayed'
        PROVE  \/ Meet(q, x)' /\ Near(pos[q], pos[x])'
               \/ x \in Monsters /\ x \notin inWorld' /\ gstate'[x] = "CGS_KO"
    <3>0. q \notin S /\ q \in Entities /\ x \in Entities /\ x \in shown[q]
      BY <1>0, <1>4, <2>1 DEF WorldInv, TypeOK
    <3>1. x \notin S
      <4>1. ASSUME x \in S PROVE q \in Around(map[x], pos[x])
        <5>1. x \in inWorld /\ Meet(q, x) /\ Near(pos[q], pos[x])
          BY <1>0, <1>1, <2>1, <3>0, <4>1 DEF WorldInv, NoGhosts
        <5>. QED BY <1>5, <2>1, <4>1, <5>1 DEF Meet, WorldInv, InsideUnlessStrayed
      <4>. QED BY <1>4, <2>1, <3>0, <4>1
    <3>. QED BY <1>1, <1>2, <2>1, <3>0, <3>1 DEF Meet, WorldInv, NoGhosts
  <2>. QED BY <2>1 DEF NoGhosts
<1>10. Fresh'
  BY <1>0, <1>1, <1>4 DEF WorldInv, Fresh, Entities
<1>11. Kept
  BY <1>0, <1>1, <1>4 DEF Kept, Meet
<1>. QED BY <1>6, <1>7, <1>8, <1>9, <1>10, <1>11 DEF WorldInv

-----------------------------------------------------------------------------
(* The death of monsters.                                                   *)

LEMMA FinishInv ==
    ASSUME WorldInv, NEW e \in Monsters, e \in used, gstate[e] # "CGS_KO",
           NoDrop, Die(e, shown)
    PROVE  WorldInv' /\ Kept
<1>1. /\ inWorld' = inWorld /\ pos' = pos /\ map' = map /\ quad' = quad
      /\ listed' = listed /\ used' = used /\ strayed' = strayed
  BY DEF NoDrop
<1>2. /\ gstate' \in [Monsters -> GState]
      /\ \A x \in Monsters : x # e => gstate'[x] = gstate[x]
      /\ gstate'[e] = "CGS_KO" \/ shown' = shown
  BY DEF Die, GState, WorldInv, TypeOK
<1>3. /\ shown' \in [Players -> SUBSET Entities]
      /\ \A q \in Players : shown'[q] \subseteq shown[q] /\ shown[q] \ {e} \subseteq shown'[q]
  BY DEF Die, Dies, WorldInv, TypeOK
<1>4. \A m, q : Meet(m, q)' <=> Meet(m, q)
  BY <1>1 DEF Meet
<1>5. TypeOK'
  BY <1>1, <1>2, <1>3 DEF WorldInv, TypeOK
<1>6. MapsMatchWorld' /\ InsideUnlessStrayed'
  BY <1>1 DEF WorldInv, MapsMatchWorld, InsideUnlessStrayed
<1>7. SeesAround'
  <2>1. ASSUME NEW q \in Players, NEW x \in Entities \ Loots, Meet(q, x)', Near(pos[q], pos[x])',
               (x \in Monsters => gstate[x] # "CGS_KO")'
        PROVE  x \in shown'[q]
    BY <1>1, <1>2, <1>3, <1>4, <2>1 DEF WorldInv, SeesAround
  <2>. QED BY <2>1 DEF SeesAround
<1>8. NoGhosts'
  BY <1>1, <1>2, <1>3, <1>4 DEF WorldInv, NoGhosts
<1>9. Fresh'
  BY <1>1, <1>2, <1>3 DEF WorldInv, Fresh
<1>10. Kept
  BY <1>2, <1>3 DEF Kept
<1>. QED BY <1>5, <1>6, <1>7, <1>8, <1>9, <1>10 DEF WorldInv

LEMMA DropInv ==
    ASSUME WorldInv, NEW e \in Monsters, e \in inWorld, gstate[e] # "CGS_KO",
           NEW l \in Loots, NEW p \in Points, Drop(l, e, p),
           Die(e, Told(l, {}, Around(map[e], p)))
    PROVE  WorldInv' /\ Kept
<1>. DEFINE m == map[e]
            f == Told(l, {}, Around(m, p))
<1>0. /\ e \in Entities /\ l \in Entities /\ l # e /\ m \in Maps
      /\ l \notin Monsters /\ l \notin Players
      /\ l \notin inWorld /\ l \notin strayed /\ Add(l, p, m)
      /\ Players \subseteq Entities
      /\ \A q \in Players : l \notin shown[q]
  BY KindsAssumption DEF Drop, Entities, WorldInv, TypeOK, Fresh
<1>1. /\ inWorld' = inWorld \cup {l} /\ inWorld' \subseteq Entities
      /\ pos' \in [Entities -> Points \cup {NoPoint}]
      /\ \A x \in Entities : x \in inWorld' <=> pos'[x] # NoPoint
      /\ pos'[l] = p /\ map'[l] = m
      /\ \A x \in Entities : x # l => pos'[x] = pos[x] /\ map'[x] = map[x]
      /\ map' \in [Entities -> Maps]
      /\ quad' \in [Maps -> SUBSET Entities]
      /\ listed' \in [Maps -> SUBSET Entities]
      /\ strayed \subseteq strayed' /\ strayed' \subseteq strayed \cup {l}
      /\ MapsMatchWorld' /\ InsideUnlessStrayed'
  BY <1>0, AddPreserves
<1>2. used' = used \cup {l}
  BY DEF Drop
<1>3. \A x \in Entities : x \in Around(m, p) <=>
         x \in inWorld /\ map[x] = m /\ Inside(pos[x]) /\ Near(pos[x], p)
  BY <1>0 DEF WorldInv, MapsMatchWorld, Around
<1>4. /\ f \in [Players -> SUBSET Entities]
      /\ \A q \in Players : f[q] = shown[q] \cup {x \in {l} : q \in Around(m, p)}
  BY <1>0 DEF Told, WorldInv, TypeOK
<1>. HIDE DEF m, f
<1>5. /\ gstate' \in [Monsters -> GState]
      /\ \A x \in Monsters : x # e => gstate'[x] = gstate[x]
      /\ gstate'[e] = "CGS_KO" \/ shown' = f
  BY DEF Die, GState, WorldInv, TypeOK, f, m
<1>6. /\ shown' \in [Players -> SUBSET Entities]
      /\ \A q \in Players : shown'[q] \subseteq f[q] /\ f[q] \ {e} \subseteq shown'[q]
  BY <1>4 DEF Die, Dies, f, m
<1>7. TypeOK'
  BY <1>0, <1>1, <1>2, <1>5, <1>6 DEF WorldInv, TypeOK
<1>8. SeesAround'
  <2>1. ASSUME NEW q \in Players, NEW x \in Entities \ Loots, Meet(q, x)', Near(pos[q], pos[x])',
               (x \in Monsters => gstate[x] # "CGS_KO")'
        PROVE  x \in shown'[q]
    <3>1. x # l /\ q # l /\ q \in Entities
      BY <1>0, <2>1
    <3>2. x \in shown[q]
      <4>1. (x \in Monsters => gstate[x] # "CGS_KO")
        BY <1>5, <2>1
      <4>. QED BY <1>1, <2>1, <3>1, <4>1 DEF Meet, WorldInv, SeesAround
    <3>. QED BY <1>0, <1>4, <1>5, <1>6, <2>1, <3>2
  <2>. QED BY <2>1 DEF SeesAround
<1>9. NoGhosts'
  <2>1. ASSUME NEW q \in Players, NEW x \in shown'[q], q \notin strayed', x \notin strayed'
        PROVE  \/ Meet(q, x)' /\ Near(pos[q], pos[x])'
               \/ x \in Monsters /\ x \notin inWorld' /\ gstate'[x] = "CGS_KO"
    <3>0. q # l /\ q \in Entities /\ x \in Entities /\ x \in f[q]
      BY <1>0, <1>6, <2>1
    <3>1. CASE x = l
      BY <1>0, <1>1, <1>3, <1>4, <2>1, <3>0, <3>1 DEF Meet
    <3>2. CASE x # l
      <4>1. x \in shown[q] /\ q \notin strayed /\ x \notin strayed
        BY <1>1, <1>4, <2>1, <3>0, <3>2
      <4>2. CASE Meet(q, x) /\ Near(pos[q], pos[x])
        BY <1>1, <2>1, <3>0, <3>2, <4>2 DEF Meet
      <4>3. CASE x \in Monsters /\ x \notin inWorld /\ gstate[x] = "CGS_KO"
        BY <1>1, <1>5, <3>2, <4>3
      <4>. QED BY <4>1, <4>2, <4>3 DEF WorldInv, NoGhosts
    <3>. QED BY <3>1, <3>2
  <2>. QED BY <2>1 DEF NoGhosts
<1>10. Fresh'
  <2>1. ASSUME NEW x \in (Monsters \cup Loots) \ used'
        PROVE  /\ x \notin inWorld' /\ x \notin strayed'
               /\ \A q \in Players : x \notin shown'[q]
               /\ x \in Monsters => gstate'[x] = "normal"
    <3>1. x \notin used /\ x # l /\ x # e
      BY <1>2, <2>1 DEF WorldInv, Fresh
    <3>. QED BY <1>1, <1>4, <1>5, <1>6, <2>1, <3>1 DEF WorldInv, Fresh
  <2>. QED BY <2>1 DEF Fresh
<1>11. Kept
  BY <1>4, <1>5, <1>6 DEF Kept
<1>. QED BY <1>1, <1>7, <1>8, <1>9, <1>10, <1>11 DEF WorldInv

LEMMA KillInv ==
    ASSUME WorldInv, NEW a \in Players, NEW e \in Monsters, Kill(a, e)
    PROVE  WorldInv' /\ Kept
<1>1. e \in inWorld /\ e \in used /\ gstate[e] # "CGS_KO"
  BY DEF Kill, CanFind, WorldInv, MapsMatchWorld, Fresh, Entities
<1>2. CASE NoDrop /\ Die(e, shown)
  BY <1>1, <1>2, FinishInv
<1>3. ASSUME NEW l \in Loots, NEW p \in Points, Drop(l, e, p),
             Die(e, Told(l, {}, Around(map[e], p)))
      PROVE  WorldInv' /\ Kept
  BY <1>1, <1>3, DropInv
<1>. QED BY <1>2, <1>3 DEF Kill

LEMMA KneelingDies ==
    ASSUME WorldInv, NEW e \in Monsters, Finish(e)
    PROVE  WorldInv' /\ Kept
<1>1. e \in used /\ gstate[e] # "CGS_KO" /\ NoDrop /\ Die(e, shown)
  BY DEF Finish, Die, NoDrop, WorldInv, Fresh
<1>. QED BY <1>1, FinishInv

LEMMA RemoveDeadMonstersInv ==
    ASSUME WorldInv, RemoveDeadMonsters
    PROVE  WorldInv' /\ Kept
<1>. DEFINE dead == {e \in Monsters \cap inWorld : gstate[e] = "CGS_KO"}
<1>0. /\ \A x \in dead : /\ x \in Entities /\ x \notin Players /\ x \in Monsters
                         /\ x \in inWorld /\ gstate[x] = "CGS_KO"
      /\ Players \subseteq Entities
  BY KindsAssumption DEF Entities
<1>1. /\ inWorld' = inWorld \ dead /\ map' = map /\ gstate' = gstate /\ used' = used
      /\ strayed' = strayed /\ shown' = shown
      /\ pos' = [e \in Entities |-> IF e \in dead THEN NoPoint ELSE pos[e]]
      /\ quad' = [m \in Maps |-> quad[m] \ dead]
      /\ listed' = [m \in Maps |-> listed[m] \ dead]
  BY DEF RemoveDeadMonsters
<1>. HIDE DEF dead
<1>2. /\ \A x \in Entities : pos'[x] = IF x \in dead THEN NoPoint ELSE pos[x]
      /\ pos' \in [Entities -> Points \cup {NoPoint}]
  BY <1>1 DEF WorldInv, TypeOK
<1>3. /\ quad' \in [Maps -> SUBSET Entities] /\ listed' \in [Maps -> SUBSET Entities]
      /\ \A n \in Maps : quad'[n] = quad[n] \ dead /\ listed'[n] = listed[n] \ dead
  BY <1>1 DEF WorldInv, TypeOK
<1>4. TypeOK'
  BY <1>0, <1>1, <1>2, <1>3 DEF WorldInv, TypeOK
<1>5. MapsMatchWorld' /\ InsideUnlessStrayed'
  BY <1>0, <1>1, <1>2, <1>3 DEF WorldInv, MapsMatchWorld, InsideUnlessStrayed, TypeOK
<1>6. SeesAround'
  <2>1. ASSUME NEW q \in Players, NEW x \in Entities \ Loots, Meet(q, x)', Near(pos[q], pos[x])',
               (x \in Monsters => gstate[x] # "CGS_KO")'
        PROVE  x \in shown'[q]
    BY <1>0, <1>1, <1>2, <2>1 DEF Meet, WorldInv, SeesAround
  <2>. QED BY <2>1 DEF SeesAround
<1>7. NoGhosts'
  <2>1. ASSUME NEW q \in Players, NEW x \in shown'[q], q \notin strayed', x \notin strayed'
        PROVE  \/ Meet(q, x)' /\ Near(pos[q], pos[x])'
               \/ x \in Monsters /\ x \notin inWorld' /\ gstate'[x] = "CGS_KO"
    <3>1. CASE x \in dead
      BY <1>0, <1>1, <3>1
    <3>2. CASE x \notin dead
      BY <1>0, <1>1, <1>2, <2>1, <3>2 DEF Meet, WorldInv, NoGhosts, TypeOK
    <3>. QED BY <3>1, <3>2
  <2>. QED BY <2>1 DEF NoGhosts
<1>8. Fresh'
  BY <1>1 DEF WorldInv, Fresh
<1>9. Kept
  BY <1>1 DEF Kept
<1>. QED BY <1>4, <1>5, <1>6, <1>7, <1>8, <1>9 DEF WorldInv

-----------------------------------------------------------------------------

LEMMA StepInv ==
    ASSUME WorldInv, [Next]_vars
    PROVE  WorldInv' /\ (Kept \/ UNCHANGED vars)
<1>1. ASSUME NEW e \in Players, NEW p \in Points, NEW m \in Maps, OnStart(e, p, m)
      PROVE  WorldInv' /\ Kept
  BY <1>1, OnStartInv
<1>2. ASSUME NEW e \in Monsters, NEW p \in Points, SpawnMonster(e, p)
      PROVE  WorldInv' /\ Kept
  BY <1>2, SpawnMonsterInv
<1>3. ASSUME NEW e \in Players, NEW dx \in Deltas, NEW dy \in Deltas, OnMove(e, dx, dy)
      PROVE  WorldInv' /\ Kept
  BY <1>3, OnMoveInv
<1>4. ASSUME NEW e \in Players, NEW p \in Points, Teleport(e, p)
      PROVE  WorldInv' /\ Kept
  BY <1>4, TeleportInv
<1>5. ASSUME NEW e \in Players, Leave(e)
      PROVE  WorldInv' /\ Kept
  BY <1>5, LeaveInv
<1>6. ASSUME NEW l \in Loots, OnPickUpItem(l)
      PROVE  WorldInv' /\ Kept
  BY <1>6, RemoveLootInv DEF OnPickUpItem
<1>7. ASSUME NEW S \in SUBSET Loots, RemoveExpiredLoot(S)
      PROVE  WorldInv' /\ Kept
  BY <1>7, RemoveLootInv DEF RemoveExpiredLoot
<1>8. ASSUME NEW a \in Players, NEW e \in Monsters, Kill(a, e)
      PROVE  WorldInv' /\ Kept
  BY <1>8, KillInv
<1>9. ASSUME NEW a \in Players, NEW e \in Monsters, Behead(a, e)
      PROVE  WorldInv' /\ Kept
  BY <1>9, KneelingDies DEF Behead
<1>10. ASSUME NEW e \in Monsters, Tick(e)
       PROVE  WorldInv' /\ Kept
  BY <1>10, KneelingDies DEF Tick
<1>11. CASE RemoveDeadMonsters
  BY <1>11, RemoveDeadMonstersInv
<1>12. CASE UNCHANGED vars
  <2>1. TypeOK' /\ MapsMatchWorld'
    BY <1>12 DEF vars, WorldInv, TypeOK, MapsMatchWorld
  <2>2. SeesAround' /\ NoGhosts' /\ Fresh' /\ InsideUnlessStrayed'
    BY <1>12 DEF vars, WorldInv, SeesAround, NoGhosts, Meet, Fresh, InsideUnlessStrayed
  <2>. QED BY <1>12, <2>1, <2>2 DEF WorldInv
<1>. QED BY <1>1, <1>2, <1>3, <1>4, <1>5, <1>6, <1>7, <1>8, <1>9, <1>10, <1>11, <1>12 DEF Next

LEMMA Invariant == Spec => []WorldInv
<1>1. Init => WorldInv
  BY InitInv
<1>2. WorldInv /\ [Next]_vars => WorldInv'
  BY StepInv
<1>. QED BY <1>1, <1>2, PTL DEF Spec

\* Entities have a point exactly while they are in the world: World::Add and
\* World::Remove of every kind of entity.
THEOREM TypeCorrect == Spec => []TypeOK
<1>1. WorldInv => TypeOK
  BY DEF WorldInv
<1>. QED BY <1>1, Invariant, PTL

\* The quadtree and the list of every WorldMap hold those whom the world holds
\* on it: no pointer to an entity that is gone stays behind.
THEOREM MapsHoldTheWorld == Spec => []MapsMatchWorld
<1>1. WorldInv => MapsMatchWorld
  BY DEF WorldInv
<1>. QED BY <1>1, Invariant, PTL

\* What World and WorldMap tell the clients makes them show all that is in sight.
THEOREM EveryoneIsSeen == Spec => []SeesAround
<1>1. WorldInv => SeesAround
  BY DEF WorldInv
<1>. QED BY <1>1, Invariant, PTL

\* What World and WorldMap tell the clients makes them show nothing else.
THEOREM NobodyStaysBehind == Spec => []NoGhosts
<1>1. WorldInv => NoGhosts
  BY DEF WorldInv
<1>. QED BY <1>1, Invariant, PTL

\* No step of World or WorldMap takes from a client what is still in sight.
THEOREM NothingInSightVanishes == Spec => StaysShown
<1>1. WorldInv /\ [Next]_vars => [Kept]_vars
  BY StepInv
<1>2. Spec => [][Kept]_vars
  BY <1>1, Invariant, PTL DEF Spec
<1>. QED BY <1>2 DEF StaysShown, Kept

=============================================================================
