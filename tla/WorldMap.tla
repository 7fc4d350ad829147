------------------------------ MODULE WorldMap ------------------------------
(***************************************************************************)
(* World and its maps: who is in the world, which maps hold him, and what  *)
(* the clients have been told to show.                                     *)
(*                                                                         *)
(* Every operation holds m_entities_rmtx until it is done, and is one      *)
(* step.  Monsters and loot get a new ID whenever they enter the world, so *)
(* Monsters and Loots are IDs; a player keeps his as long as his session   *)
(* lasts and may enter and leave many times.                               *)
(***************************************************************************)
EXTENDS Integers, FiniteSets

CONSTANTS
    Players, Monsters, Npcs, Loots,  \* the IDs, by GetType()
    Maps,        \* numbers of the maps
    Points,      \* points of the plane: [x : Int, y : Int]
    NoPoint,     \* where an entity is that is not in the world
    Width,       \* MAP_WIDTH
    Sight,       \* MAP_SIGHT
    Deltas,      \* what a move may add to x and y: the values of an int8_t
    MaxStrayed   \* bound: of the entities that have been outside their map

Entities == Players \cup Monsters \cup Npcs \cup Loots

ASSUME KindsAssumption ==
    /\ Players \cap (Monsters \cup Npcs \cup Loots) = {}
    /\ Monsters \cap (Npcs \cup Loots) = {}
    /\ Npcs \cap Loots = {}
ASSUME MapsAssumption   == Maps \subseteq Nat /\ 0 \in Maps
ASSUME PointsAssumption == Points \subseteq [x : Int, y : Int] /\ NoPoint \notin Points
ASSUME SightAssumption  == Sight \in Nat /\ Width \in Nat /\ Deltas \subseteq Int

VARIABLES
    inWorld,  \* m_players, m_monsters, m_npcs and m_loots of World
    pos,      \* [Entities -> Points]: m_x, m_y of those in the world
    map,      \* [Entities -> Maps]: m_map
    quad,     \* [Maps -> sets of entities]: in m_quad of the map
    listed,   \* [Maps -> sets of entities]: in m_entities of the map
    gstate,   \* [Monsters -> GState]
    used,     \* the monsters and loots that have entered the world
    shown,    \* [Players -> sets of entities]: what their clients show
    strayed   \* history: those who have been outside their map

vars == <<inWorld, pos, map, quad, listed, gstate, used, shown, strayed>>

GState == {"normal", "CGS_KNEE", "CGS_KO"}

Index == INSTANCE SpatialIndex
    WITH Radii <- {Sight}, NoAnswer <- NoPoint, placed <- pos, answer <- NoPoint

\* distance() is at most m_sight.
Near(p, q) == Index!Within(p, q, Sight)

\* quad::in_boundary of the map's square.
Inside(p) == 0 <= p.x /\ p.x <= Width /\ 0 <= p.y /\ p.y <= Width

\* What the callback of a query around c keeps.  SpatialIndex says that the
\* query reaches all of them.
Around(m, c) == {e \in quad[m] : Near(pos[e], c)}

\* m_on_disappear and m_on_appear of e: one set of players is told that e is
\* gone, another one that it is there.
Told(e, gone, there) ==
    [q \in Players |->
        (shown[q] \ {x \in {e} : q \in gone}) \cup {x \in {e} : q \in there}]

\* A set of entities per map, with e on map m, or without it.
With(f, m, e)    == [f EXCEPT ![m] = @ \cup {e}]
Without(f, m, e) == [f EXCEPT ![m] = @ \ {e}]

\* quad::insert throws for a point outside, and WorldMap::Add returns.
WithIfInside(f, m, e, p) == IF Inside(p) THEN With(f, m, e) ELSE f

Stray(e, p) ==
    /\ strayed' = IF Inside(p) THEN strayed ELSE strayed \cup {e}
    /\ Cardinality(strayed') <= MaxStrayed

Init ==
    /\ inWorld = Npcs
    /\ map \in {f \in [Entities -> Maps] : \A e \in Entities \ Npcs : f[e] = 0}
    /\ \E f \in [Npcs -> {p \in Points : Inside(p)}] :
          pos = [e \in Entities |-> IF e \in Npcs THEN f[e] ELSE NoPoint]
    /\ quad = [m \in Maps |-> {e \in Npcs : map[e] = m}]
    /\ listed = quad
    /\ gstate = [m \in Monsters |-> "normal"]
    /\ used = {}
    /\ shown = [p \in Players |-> {}]
    /\ strayed = {}

-----------------------------------------------------------------------------
(* Entering the world                                                       *)

\* World::Add and WorldMap::Add of any entity.
Add(e, p, m) ==
    /\ inWorld' = inWorld \cup {e}
    /\ pos' = [pos EXCEPT ![e] = p]
    /\ map' = [map EXCEPT ![e] = m]
    /\ quad' = WithIfInside(quad, m, e, p)
    /\ listed' = WithIfInside(listed, m, e, p)
    /\ Stray(e, p)

\* OnStart: a player enters where OnLoadPlayer has put him.
OnStart(e, p, m) ==
    /\ e \notin inWorld
    /\ Add(e, p, m)
    /\ shown' = [Told(e, {}, Around(m, p)) EXCEPT ![e] = Around(m, p)]
    /\ UNCHANGED <<gstate, used>>

\* Spawn::CreateSpawn, Spawn::RespawnOnWorld and Monster::Summon.  Neither
\* constructor passes the map on to Monster, whose default is 0.
SpawnMonster(e, p) ==
    /\ e \notin used
    /\ used' = used \cup {e}
    /\ Add(e, p, 0)
    /\ shown' = Told(e, {}, Around(0, p))
    /\ UNCHANGED gstate

-----------------------------------------------------------------------------
(* Moving                                                                   *)

\* The point that OnMove leads to.
Step(p, dx, dy) == [x |-> p.x + dx, y |-> p.y + dy]

\* Variant: those whom a player leaves behind are not told.
OnMoveForgets(e, dx, dy) ==
    LET to     == Step(pos[e], dx, dy)
        others == quad[map[e]] \ {e}
        there  == {o \in others : ~Near(pos[o], pos[e]) /\ Near(pos[o], to)}
    IN  /\ e \in inWorld
        /\ to \in Points
        /\ pos' = [pos EXCEPT ![e] = to]
        /\ quad' = WithIfInside(Without(quad, map[e], e), map[e], e, to)
        /\ shown' = [Told(e, {}, there) EXCEPT ![e] = @ \cup (there \ Loots)]
        /\ Stray(e, to)
        /\ UNCHANGED <<inWorld, map, listed, gstate, used>>

\* Variant: only the others are told.
OnMoveOneSided(e, dx, dy) ==
    LET to     == Step(pos[e], dx, dy)
        others == quad[map[e]] \ {e}
        gone   == {o \in others : Near(pos[o], pos[e]) /\ ~Near(pos[o], to)}
        there  == {o \in others : ~Near(pos[o], pos[e]) /\ Near(pos[o], to)}
    IN  /\ e \in inWorld
        /\ to \in Points
        /\ pos' = [pos EXCEPT ![e] = to]
        /\ quad' = WithIfInside(Without(quad, map[e], e), map[e], e, to)
        /\ shown' = [Told(e, gone, there) EXCEPT ![e] = @ \ gone]
        /\ Stray(e, to)
        /\ UNCHANGED <<inWorld, map, listed, gstate, used>>

\* WorldMap::Move: those whose distance passes m_sight are told, on both
\* sides.  The second query leaves the loot out.
OnMove(e, dx, dy) ==
    LET to     == Step(pos[e], dx, dy)
        others == quad[map[e]] \ {e}
        gone   == {o \in others : Near(pos[o], pos[e]) /\ ~Near(pos[o], to)}
        there  == {o \in others : ~Near(pos[o], pos[e]) /\ Near(pos[o], to)}
    IN  /\ e \in inWorld
        /\ to \in Points
        /\ pos' = [pos EXCEPT ![e] = to]
        /\ quad' = WithIfInside(Without(quad, map[e], e), map[e], e, to)
        /\ shown' = [Told(e, gone, there) EXCEPT ![e] = (@ \ gone) \cup (there \ Loots)]
        /\ Stray(e, to)
        /\ UNCHANGED <<inWorld, map, listed, gstate, used>>

\* Variant: the player is added before he is removed.
TeleportLate(e, to) ==
    LET gone  == Around(map[e], pos[e]) \ {e}
        there == Around(map[e], to) \ {e}
    IN  /\ e \in inWorld
        /\ pos' = [pos EXCEPT ![e] = to]
        /\ quad' = WithIfInside(Without(quad, map[e], e), map[e], e, to)
        /\ listed' = WithIfInside(Without(listed, map[e], e), map[e], e, to)
        /\ shown' = [Told(e, gone, there \ gone) EXCEPT ![e] = there]
        /\ Stray(e, to)
        /\ UNCHANGED <<inWorld, map, gstate, used>>

\* Player::Teleport asks the client, which may be asked by a command at any
\* time; OnTeleportAnswer is WorldMap::Remove and WorldMap::Add.  The client
\* has given up what it showed when it went there.
Teleport(e, to) ==
    LET gone  == Around(map[e], pos[e]) \ {e}
        there == Around(map[e], to) \ {e}
    IN  /\ e \in inWorld
        /\ pos' = [pos EXCEPT ![e] = to]
        /\ quad' = WithIfInside(Without(quad, map[e], e), map[e], e, to)
        /\ listed' = WithIfInside(Without(listed, map[e], e), map[e], e, to)
        /\ shown' = [Told(e, gone, there) EXCEPT ![e] = there]
        /\ Stray(e, to)
        /\ UNCHANGED <<inWorld, map, gstate, used>>

-----------------------------------------------------------------------------
(* Leaving the world                                                        *)

\* World::Remove: of a player in OnRestart and OnDisconnected.
Leave(e) ==
    /\ e \in inWorld
    /\ inWorld' = inWorld \ {e}
    /\ pos' = [pos EXCEPT ![e] = NoPoint]
    /\ quad' = Without(quad, map[e], e)
    /\ listed' = Without(listed, map[e], e)
    /\ shown' = [Told(e, Around(map[e], pos[e]), {}) EXCEPT ![e] = {}]
    /\ UNCHANGED <<map, gstate, used, strayed>>

\* The players who are told that some loot is gone.
ToldOf(S) == [q \in Players |-> shown[q] \ {l \in S : q \in Around(map[l], pos[l])}]

\* World::Remove of loot: S leaves the world.
RemoveLoot(S) ==
    /\ inWorld' = inWorld \ S
    /\ pos' = [e \in Entities |-> IF e \in S THEN NoPoint ELSE pos[e]]
    /\ quad' = [m \in Maps |-> quad[m] \ S]
    /\ listed' = [m \in Maps |-> listed[m] \ S]
    /\ shown' = ToldOf(S)
    /\ UNCHANGED <<map, gstate, used, strayed>>

\* The packet needs no role: a player who is not in the world may send it.
OnPickUpItem(l) ==
    /\ l \in inWorld
    /\ RemoveLoot({l})

RemoveExpiredLoot(S) ==
    /\ S # {} /\ S \subseteq inWorld
    /\ RemoveLoot(S)

-----------------------------------------------------------------------------
(* The death of monsters                                                    *)

\* The clients in sight are told that e has died; they remove it themselves.
\* Told after the loot, which may be where e is.
Dies(e, f) ==
    [q \in Players |-> IF q \in Around(map[e], pos[e]) THEN f[q] \ {e} ELSE f[q]]

\* RollLoot: a piece of loot falls at p.
Drop(l, e, p) ==
    /\ l \notin used
    /\ used' = used \cup {l}
    /\ Add(l, p, map[e])

NoDrop == UNCHANGED <<inWorld, pos, map, quad, listed, used, strayed>>

\* The last hit: RegularMonster::Die, or BeheadableMonster::Die, by its race.
Die(e, f) ==
    \/ gstate' = [gstate EXCEPT ![e] = "CGS_KO"]   /\ shown' = Dies(e, f)
    \/ gstate' = [gstate EXCEPT ![e] = "CGS_KNEE"] /\ shown' = f

\* ForCharacterInMap: the player's map has to list e.  Skills need no role,
\* so the player may still be outside the world, with another m_map loaded.
CanFind(a, e) == \E m \in Maps : e \in listed[m] /\ (a \in inWorld => map[a] = m)

\* OnAttack and PhysicalSkill::Execute.  Of the loot, one piece is enough.
Kill(a, e) ==
    /\ CanFind(a, e)
    /\ gstate[e] = "normal"
    /\ \/ NoDrop /\ Die(e, shown)
       \/ \E l \in Loots, p \in Points :
             Drop(l, e, p) /\ Die(e, Told(l, {}, Around(map[e], p)))

\* A kneeling monster dies.
Finish(e) ==
    /\ gstate[e] = "CGS_KNEE"
    /\ gstate' = [gstate EXCEPT ![e] = "CGS_KO"]
    /\ shown' = Dies(e, shown)
    /\ UNCHANGED <<inWorld, pos, map, quad, listed, used, strayed>>

\* Behead::Execute
Behead(a, e) == CanFind(a, e) /\ Finish(e)

\* BeheadableMonster::Tick, when the monster has been kneeling for long enough.
Tick(e) == e \in inWorld /\ Finish(e)

\* Variant: the map is not told.
RemoveDeadMonstersFromWorld ==
    LET dead == {e \in Monsters \cap inWorld : gstate[e] = "CGS_KO"}
    IN  /\ dead # {}
        /\ inWorld' = inWorld \ dead
        /\ pos' = [e \in Entities |-> IF e \in dead THEN NoPoint ELSE pos[e]]
        /\ UNCHANGED <<map, quad, listed, gstate, used, shown, strayed>>

\* RemoveDeadMonsters: WorldMap::Remove with on_monster_death tells nobody.
RemoveDeadMonsters ==
    LET dead == {e \in Monsters \cap inWorld : gstate[e] = "CGS_KO"}
    IN  /\ dead # {}
        /\ inWorld' = inWorld \ dead
        /\ pos' = [e \in Entities |-> IF e \in dead THEN NoPoint ELSE pos[e]]
        /\ quad' = [m \in Maps |-> quad[m] \ dead]
        /\ listed' = [m \in Maps |-> listed[m] \ dead]
        /\ UNCHANGED <<map, gstate, used, shown, strayed>>

-----------------------------------------------------------------------------

Next ==
    \/ \E e \in Players, p \in Points, m \in Maps : OnStart(e, p, m)
    \/ \E e \in Monsters, p \in Points : SpawnMonster(e, p)
    \/ \E e \in Players, dx, dy \in Deltas : OnMove(e, dx, dy)
    \/ \E e \in Players, p \in Points : Teleport(e, p)
    \/ \E e \in Players : Leave(e)
    \/ \E l \in Loots : OnPickUpItem(l)
    \/ \E S \in SUBSET Loots : RemoveExpiredLoot(S)
    \/ \E a \in Players, e \in Monsters : Kill(a, e)
    \/ \E a \in Players, e \in Monsters : Behead(a, e)
    \/ \E e \in Monsters : Tick(e)
    \/ RemoveDeadMonsters

Spec == Init /\ [][Next]_vars

-----------------------------------------------------------------------------
(* Properties                                                               *)

\* Every variable has its type; an entity has a point while it is in the world.
TypeOK ==
    /\ inWorld \subseteq Entities
    /\ pos \in [Entities -> Points \cup {NoPoint}]
    /\ \A e \in Entities : e \in inWorld <=> pos[e] # NoPoint
    /\ map \in [Entities -> Maps]
    /\ quad \in [Maps -> SUBSET Entities]
    /\ listed \in [Maps -> SUBSET Entities]
    /\ gstate \in [Monsters -> GState]
    /\ used \subseteq Monsters \cup Loots
    /\ shown \in [Players -> SUBSET Entities]
    /\ strayed \subseteq Entities

\* A map points at nobody who has left the world or is on another map; its
\* quadtree holds exactly those on it who are inside, and its list too, as long
\* as they have not strayed.
MapsMatchWorld ==
    \A m \in Maps, e \in Entities :
        /\ e \in quad[m] <=> e \in inWorld /\ map[e] = m /\ Inside(pos[e])
        /\ e \in listed[m] => e \in inWorld /\ map[e] = m
        /\ e \in inWorld \ strayed /\ map[e] = m => e \in listed[m]

\* Both are on one map, and neither has ever left it.
Meet(p, e) ==
    /\ p # e /\ p \in inWorld /\ e \in inWorld /\ map[p] = map[e]
    /\ p \notin strayed /\ e \notin strayed

\* A player's client shows every player and monster in his sight, except monsters
\* that have died already.  Loot is not spoken of: whoever walks up to it is not
\* told.  (What of it is shown goes on being shown: StaysShown.)
SeesAround ==
    \A p \in Players, e \in Entities \ Loots :
        Meet(p, e) /\ Near(pos[p], pos[e])
                   /\ (e \in Monsters => gstate[e] # "CGS_KO") => e \in shown[p]

\* A client shows nothing that is out of its player's sight or gone, except
\* dead monsters that RemoveDeadMonsters has taken away.
NoGhosts ==
    \A p \in Players : \A e \in shown[p] :
        \/ p \in strayed \/ e \in strayed
        \/ Meet(p, e) /\ Near(pos[p], pos[e])
        \/ e \in Monsters /\ e \notin inWorld /\ gstate[e] = "CGS_KO"

\* Whatever a client shows, loot and dead monsters included, it goes on showing
\* while both stay in sight of each other, however they move, whatever happens
\* to others, and until the death of a monster.
StaysShown ==
    [][\A p \in Players, e \in Entities :
          /\ Meet(p, e) /\ Near(pos[p], pos[e]) /\ e \in shown[p]
          /\ Meet(p, e)' /\ Near(pos[p], pos[e])'
          /\ e \in Monsters => gstate'[e] = gstate[e]
          => e \in shown'[p]]_vars

=============================================================================
