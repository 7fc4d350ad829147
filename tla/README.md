# A TLA+ model of bango-sdk

bango-sdk is a server for an online game: a *game server* that keeps the players,
monsters and items of a world in memory, a *database server* that stores accounts,
players and items in MySQL for it, and the *core* libraries both are built on. The
modules in this directory model its parts, the `.cfg` files check them on small
instances with TLC, and the `*Proofs` modules prove the most important facts for
every instance with TLAPS. `PROJECT.json` maps every definition to the lines it models.

| module | models | checked by | proved in |
|---|---|---|---|
| `Session.tla` | the life of a connection, the answers of the database server, its registry of active accounts | `Session`, `SessionLive` | `SessionProofs.tla` |
| `Party.tla` | parties of players and the mutexes their handlers take | `Party` and one run that refutes a comment | `PartyProofs.tla` |
| `SpatialIndex.tla` | what the map asks of its quadtree | as a property of `Quadtree` | — |
| `Quadtree.tla` | the quadtree of `core/space` | `Quadtree` and one run that refutes a comment | `QuadtreeProofs.tla` |
| `WorldMap.tla` | who is in the world, on which map, and what the clients are told to show | `WorldMap` | `WorldMapProofs.tla` |
| `Spawns.tla` | the life of monsters and loot between the tick thread and the handlers | `Spawns` | `SpawnsProofs.tla` |
| `Items.tla` | the inventory and the item table at the other end of the link | `Items` | `ItemsProofs.tla` |
| `Growth.tla` | experience, levels, points and skills, in memory and in the tables | `Growth` | `GrowthProofs.tla` |
| `Packets.tla` | packets, and streams cut into packets | `Packets` | `ReadersProofs.tla` |
| `Parser.tla` | the parser of the configuration files and the tables made of them | `Parser` | `ReadersProofs.tla` |

## 1. Inventory

### Processes, threads and links

* **Game server** (`apps/gameserver`). tacopie, the TCP library, runs the read callbacks
  of all connections in a pool of threads. `server::on_new_message` arms a connection for
  reading again only when its handler has returned, so one connection's handlers run one
  after another, and those of two connections run at the same time. The answers of the
  database server come through one more connection (`client`). The main thread waits for
  the end; a thread started in `main` calls `World::Tick` every second.
* **Database server** (`apps/dbserver`). It uses the same `server` class, with one
  session per game server; the packets of one game server are handled in order.
* **Link**. Both directions are streams in order. `writable::write` ignores the error of a
  broken connection. Neither side reconnects: the game server has to be started again.

### Components

| component | state | operations | hard because |
|---|---|---|---|
| `core/network`: `server`, `client`, `writable`, `authorizable` | `m_sessions`, the bytes left over from the last read, `m_roles` of a session, callbacks and required roles per packet type | accept, read and cut into packets, dispatch by role, `for_each`, erase a session | `m_roles` is a plain `int` written by two threads; a handler that throws ends the reading of its connection; packets arrive in pieces |
| `core/network`: `packet` | a buffer and a read position | push, pop, strings, merge | bounds |
| `core/space`: `quadtree` | a tree of squares, entities in its leaves | insert, subdivide, remove, merge, query | recursion, borders shared by squares, several entities at one point |
| `core/processor` | a position in a file, a depth, a stack of lists; tables read from the game's data files | cut into tokens, build lists, load rows | characters given back for the next token; two counts of the same brackets |
| `core/persistence` | a pool of MySQL connections | wrapper of libzdb | pure I/O; not modelled |
| `User`, `Player`, `DBListener` | roles, AID, the loaded player | log-in, lobby, load, start, restart, disconnect, and the answers of the database server | races between a connection's thread and the database callback; late answers |
| `Party` | members, leader, `m_parties` of the world | invite, answer, ban, leave | locks of two players and of the world taken in different orders; leaving and disconnecting at once |
| `World`, `WorldMap`, `Container` | players, monsters, NPCs, loot, parties; who is where on 32 maps | add, remove, move, teleport, tick, clean up | every entity must be told exactly of what it sees; locks |
| `Spawn`, `Monster`, skills | monsters and their states (kneeling, dead), times of the next spawn | tick, damage, death, behead, respawn | an order of states kept by three parts of the code; unsigned times |
| `Inventory`, items | items by local ID, worn items; rows of the item table | insert, split, trash, wear, use; answers with the IID of a row | an item is used before the database has told its IID |
| loot, experience, properties | tables of chances, experience and level | roll, level up, spend points | bounds and overflow |
| `DatabaseManager` | `m_active_users`; account, player, item and skill tables | log-in, lists of players, load, save | the registry has to mirror what another process does |
| `CommandDispatcher`, `debugapp`, `shared/inix` | — | chat commands, a scratch client, constants | no state of their own |

### What makes them correct

* **Session and accounts.** No two sessions work under one account; an account in use is
  registered as active; the end of a session frees its account; a log-in is answered;
  a player is in `World::m_players` exactly while his session is in the game.
* **Party.** A player's `m_party` and the list of members agree; the list holds pointers
  only to players whose sessions exist; removing a member finds him; the handlers never
  wait for each other in a circle.
* **Quadtree.** A query reaches every entity within the radius; removing finds what was
  inserted; an inner square is never treated as a leaf.
* **World map.** A player has been told to show exactly the entities in his sight.
* **Spawns.** A monster is in the world or waits for its respawn, never both; it respawns
  after its delay.
* **Items.** What the database holds is what the inventory held when the last update was
  sent; what is worn, what is flagged as worn and what it adds agree; the table can be
  loaded whenever a server stops.
* **Growth.** Nobody gets points twice or for nothing, in memory or in the tables; a player
  is loaded as he left; a bonus is that of the skill's grade.
* **Framing and packets.** Any way of cutting the stream into reads yields the same
  packets; popping what was pushed gives it back, within the bounds.
* **Parser.** Every file is read to an end; nothing of it is lost; brackets that do not
  match are found; the first row of an index is the one that is found.

The hazards behind these properties are listed with their lines in `PROJECT.json`.

## 2. Plan

All modules of the plan are there: `Session`, `Party`, `SpatialIndex` and `Quadtree`,
`WorldMap`, `Spawns`, `Items`, `Growth`, `Packets` and `Parser`, and so are the proofs about
each of them.

The induction theorems of the library are out of reach of the provers, since they take an
operator as a parameter. What a sum over a set is, which is defined with a fold, what
reading a list one entry at a time makes of it and what pushing and popping a list of values
does are proved all the same: the sizes, or the places in the list, of the
counterexamples are a set of numbers, and one that is not empty has a least element
(`BonusMatchesWorn`, `ExpShared`, `RollShares`, `InOrder`, `NobodyGetsFreePoints`).
`NothingLost` of `Parser` is written with a recursive operator and stays with TLC, and so does what must happen some day
(`LoginAnswered`, `DisconnectFreesAccount`, `Respawns`, `Terminates`).

## 3. Session

### State and actions

`conn`, `roles` and `aid` are what the game server knows of a UID: whether its session is
in `m_sessions`, its `m_roles`, its `m_credentials.AID`. `pc` says where its handler
stands. `world` is `World::m_players`; `active` is `m_active_users`; `s2d` and `d2s` are
the two directions of the link, `link` its state and `dbpc` the state of the database
callback. Two history variables name what the code cannot keep track of: `raced`, the
players one of whose role updates has been lost, and `robbed`, the accounts that an
`S2D_DISCONNECT` has named by chance. `m_credentials.AID` is not initialised
(`UninitAid`): a session that ends between the two statements of `OnAuthorized` reports
whatever its memory held, and if that is the AID of another account, this account is
freed while somebody may be using it.

One action stands for one handler, except where a handler does two things that another
thread can see one without the other: `OnLoadPlayer` and `OnStart` update the roles
twice, so each has two actions; `OnAuthorized` assigns the role before it sets the AID.
`RoleWrite` is the unsynchronised read-modify-write of `m_roles`: either it happens
alone, or it overlaps an update by the database callback and one of the two is lost.
`m_sessions_mtx` keeps `Connect` and `EraseSession` out of a `for_each`.

Requests whose handlers do the same to this state are one packet type (creating, deleting
and restoring a player; the three kinds of secondary log-in); answers that are only
passed on to the client are left out, and so are names, passwords and the players' data.
A handler that throws (`World::Add`, `World::Remove`) leaves its connection `halted`: the
exception ends in the thread pool and nothing arms the connection again.

Failures: the link may break and each side may have received any prefix; the game server
may die and, once the database server has seen the link close, start again. There is one
game server for a database server. (`on_disconnected` forgets the accounts of all of
them; with a second one, accounts in use would be forgotten.)

### Runs

| run | instance | properties | result |
|---|---|---|---|
| `Session` | 2 users, 2 accounts, 2 packets in flight when a request is sent, any AID in fresh memory; 3,623,278 states | `SessionInv`, `OneSessionPerAccount`, `UsedAccountsActive`, `WorldMatchesRoles`, `AccountFixed` | hold |
| `SessionLive` | 2 users, 1 account, no AID in fresh memory, fairness; 216,054 states | `LoginAnswered`, `DisconnectFreesAccount` | hold |

*Bounds.* Users are connections, not people: two users and two accounts give two
connections that compete for one account, one that works under an account while the
other logs in under another, and, after a restart of the game server, new connections
with the same UIDs. `MaxInFlight` bounds the requests only, never the answers: with 2 a
request can overtake the answer to another one, and a disconnection can meet anything.
`Session` lets a new session begin with any AID (`AnyAid`). `SessionLive` does not
(`FreshAid`): neither of its properties is about the AID of a new session, and with
`AnyAid` the check of liveness would take too long.

*Fairness* (`SessionLive`). The threads of both servers keep running: weak fairness of
the database server, of the database callback and of handlers that have begun. Users owe
nothing, and failures never have to happen.

*What the code does not keep* (section 13). `WorldPlayersOwned`: a role update lost to the database
callback lets a session end without `World::Remove`. `LoadedBeforeStart`: `OnStart` is
allowed before the player's data has arrived. `DisconnectNamesAccount`: a session that
ends between the two statements of `OnAuthorized` reports an AID that was never set and
its account stays registered. `OnAuthorized` for a session that has ended leaves the
account registered as well (`ListenerAuthorizedDropped`), until the link closes.

### Proofs

`SessionProofs` proves, for any sets of users and accounts and any bounds, that `Spec`
implies `[]TypeOK`, `[]SessionInv`, `[]OneSessionPerAccount`, `[]UsedAccountsActive`,
`[]WorldMatchesRoles` and `AccountFixed`. Nothing is assumed of the AID that a new session
holds before `SetAID`: the statements about accounts except those in `robbed`, and no
other step breaks them.

`OneSessionPerAccount` is not inductive: a second session could come to use an account
through a `D2S_AUTHORIZED` on its way, and an account could become available through an
`S2D_DISCONNECT` on its way. `SessionInv` says that an account in `m_active_users` has
*one* holder among the sessions that use it, the grants and the releases in flight
(`HoldersInv`, `ActiveInv`), that a UID logs in once (`LoginsInv`) and that the packet the
database callback is busy with has its session (`AidInv`). The proof has one lemma per action. Actions that
leave accounts alone are instances of `QuietPreserves`; `robbed` only grows until the
server starts again, so that what is said of fewer accounts stays true (`GiftsKept`); lemmas on sequences say what
taking from, appending to and cutting a queue do to its packets.

`WorldMatchesRoles` is inductive together with `SessionInv`. Only `OnStart`, `OnRestart`,
`OnDisconnected` and a restart of the server touch `world`; every other handler, and the
database callback, leaves INGAME as it was in the roles it writes, unless it overlaps
another update, and then its player is in `raced` (`RoleWritten`).

Liveness is model-checked only.

## 4. Party

### State and actions

The threads are the players (each one's handlers run one at a time) and `Ticker`. `lock`
and `ent` say who holds each player's mutex and the entities mutex; `pc` names the mutex a
thread waits for, or what it reads next. A step of a handler ends before it takes a mutex
and before it reads something unguarded; a party's own mutex is taken inside `AddMember`
and `RemoveMember` only, each of which is part of one step, while `GetSize` and
`GetLeader` read without it and are steps of their own. `party`, `members`, `parties` and
`inviter` are the fields of the same names; `Return` is the end of a handler, where the
guards on the stack release what it holds.

`OnRestart` and `OnDisconnected` are `Leave` with another `why`: they keep the player's
mutex, leave the party and then remove the player from the world. `LeaveLeader` reads
`GetLeader` of a list that may be empty by then, and `LeaveLeaderLock` locks a player that
may be destroyed or in another party by then: the first two end the process (`fault`);
in the third case the handler ends the party its former leader is in now, as the code
does. Levels, distances and what is written to clients are left out; "too far away" is
a choice. The other handlers that lock a player under the entities mutex change no
party; `Ticker` stands for them.

### Runs

| run | instance | properties | result |
|---|---|---|---|
| `Party` | 3 players, 2 parties; 1,784,497 states | `MembersMatchParty`, `MembersInWorld`, `MemberFound` | hold |
| `Party_TickNotBlocked` | the same | `TickNotBlocked` | violated |

*Bounds.* Three players are enough for two members who leave at once while the third
stays, for a leader who is in a new party when a former member comes to lock him, and
for a ban that meets a departure. The number of parties bounds the `Party` objects in
memory and `m_parties`, where parties that end without `World::RemoveParty` stay.
Deadlock is not checked in `Party` because the handlers do block each other for good,
which is what `Party_TickNotBlocked` shows: a handler holds its player's mutex and waits
for the entities mutex, and the tick thread holds that one and waits for the player's.

### Proofs

`PartyProofs` proves `[]TypeOK`, `[]MembersMatchParty`, `[]MembersInWorld` and
`[]MemberFound` for any players, parties and size limit. They say what the lists and
`m_party` are, but a handler goes on with what it read several mutexes ago, so they are
not inductive. `PartyInv` adds

* `LocksInv`: which mutexes a thread holds at each point of its handlers;
* `TargetInv`: what it knows of the other player there. A handler that has locked the former
  leader, for instance, holds another player's mutex than its own, and that player has a party;
* `PlayerInv`: whether a player has a party at each point of its own handlers, and that it is in the
  list of that party except between `RemoveMember` and the end of `LeaveParty`;
* `ListsInv`: a player is in one list at most, once, and in the world.

What one thread has read stays true because another one would need a mutex that the first
holds; so each action has a lemma, and under it a case for the thread that moves and
`OthersKeep` for the rest. The order in which the mutexes are taken is no part of it:
`TickNotBlocked` is refuted by the code.

## 5. Quadtree

### State and actions

A quad is named by its path from the root, a sequence of the numbers 1 to 4 in the order
in which `inner()` tries the children. `boundary` is `m_boundary` of the quads that exist;
`at` says whose container holds an entity and `pos` is its `m_x` and `m_y`. `m_container`,
`m_size` and `m_distinct_sizes` of a quad follow from these: a quad has a container exactly
while it has no children, and `Below` and `DistinctSize` count what is below it.

The recursion of the code is split into its steps. `todo` lists the entities that an
insertion still has to put into leaves: `Subdivide` puts the entities of a full leaf in
front of the one being inserted, in any order, as a container is an `unordered_map`.
`up` is the quad whose `merge()` is called next: `Remove` sets it to the parent of the leaf,
`Merge` to the parent of the merged quad. The mutex of a `WorldMap` keeps other calls out
until the recursion is done (`Idle`). `NoChild` and `NoContainer` are the two places where
the code follows a null pointer; `fault` records it, and the process ends.

The model takes from `WorldMap` that a point changes only between a removal and the next
insertion, and that only what is in the tree is removed. (Both can be broken by the races
of `Session`; the hazards say where.) `SpatialIndex` is what a caller needs: entities
are placed and taken away, and a query reaches every entity within its radius and perhaps
others, which the callbacks of `WorldMap` sort out by distance.

### Runs

| run | instance | properties | result |
|---|---|---|---|
| `Quadtree` | 4 entities, 8 points, root 5 or 8 wide, 2 points in a leaf; 19,774 states | `TypeOK`, `EntityReachable`, `LeafBounded`, `InnerQuadsFull`, `ChildFound`, `IsSpatialIndex` | hold |
| `Quadtree_BrothersNeedNotBeLeaves` | 3 entities, root 8 wide, 1 point in a leaf | `BrothersNeedNotBeLeaves` | violated |

*Bounds.* A root 8 wide is divided down to leaves of width 1, which cannot be divided; one
5 wide has children that do not cover it. The points lie on borders shared by two and by
four quads, in corners, and close enough together to need three divisions; some
are outside the root. Four entities with two points to a leaf fill a leaf, divide it,
put two entities at one point, and let a removal merge two levels at once. The radii 0 and
5 reach one point, and some of the points but not all. The
entities are symmetric. Deadlock is not checked because the process ends at a fault.

*What the code does not keep.* `QuadrantsCover` (section 13): the halves of an odd width leave the upper
and the right border to no child. The maps are 50 · 8192 = 2^14 · 25 wide, so the first
quads with an odd width are those 25 wide. `ChildFound` says that this is the only cause:
as long as the divided quads have an even width, no point is without a child.
`BrothersNeedNotBeLeaves`: a second entity at a point of a full leaf divides it without
adding a point; `merge()` of its parent may then find few enough points while one of the
four children has no container.

### Proofs

`QuadtreeProofs` proves `[]TypeOK`, `[]EntityReachable` and that `Spec` implements
`SpatialIndex`, for every set of widths, limit, set of points and radii, and every finite
set of entities. The inductive invariant `TreeInv` adds to `TypeOK` that the ancestors of a
quad exist (`PathsClosed`), that each entity is in the leaf that `inner()` leads to, also
in the middle of an insertion or merge (`Located`), that its point is in the root
(`Inside`), and that the entities in no leaf are exactly those in `todo`, once each
(`Pending`). `Located` and `Inside` make queries complete: the point of an entity is in
every quad on the way to its leaf, and if it is in range it is in the square around the
circle too, so that square overlaps them all. `Pending` makes `EntityReachable` follow
when `todo` is empty.

It also proves `[]LeafBounded`, `[]InnerQuadsFull` and `[]ChildFound` under the same
assumptions. What lies below a quad changes in the middle of a call: a divided leaf is empty until its
entities are in the new ones. So `BoundsInv` counts instead the entities whose point `inner()`
leads into the quad (`Wanted`), which only the points and the boundaries
decide: an inner quad wants at least as many points as a leaf may hold, unless `merge()` has yet to look at
it, that is, unless it is `up` or above it (`InnersFull`). Between two calls the two counts are the
same (`BelowWanted`). `ChildrenCover` says that the way of each point in the root ends at a leaf
or at a quad of an odd width; `EvenCovers` is the arithmetic of the halves.

## 6. World map

### State and actions

`inWorld` stands for the four maps of pointers in `World`, `pos` and `map` for `m_x`, `m_y`
and `m_map` of an entity. `quad` is what the quadtree of a `WorldMap` holds and `listed`
its `m_entities`; they differ when `insert()` has thrown. `gstate` is `m_gstate` of the
monsters. `shown` is what a client shows if it does what it is told: `m_on_appear`,
`m_on_disappear` and `AT_DIE` packets change it. `used` are the IDs of monsters and loot that
have been given, and `strayed` is a history variable: who has been outside the square of
his map.

Every operation locks `m_entities_rmtx` before it reads or changes this state and holds it
to the end, so each is one action: `OnStart` (`World::Add` of a player), `SpawnMonster` (`CreateSpawn`,
`RespawnOnWorld`, `Summon`), `OnMove`, `Teleport` (the client's answer, `Remove` and `Add`),
`Leave` (`OnRestart`, `OnDisconnected`), `OnPickUpItem`, `RemoveExpiredLoot`, `Kill` (an attack or
a skill, with the loot it drops), `Behead`, `Tick` of a kneeling monster, and
`RemoveDeadMonsters`. `Around(m, c)` is what the callback of a query keeps: `SpatialIndex` says
the query reaches all of it, and the tree's own state stays in `Quadtree`.

What the model takes from outside `src/`: a client gives up everything it shows when it
leaves the world or is moved to another place, and removes a monster itself some time
after `AT_DIE`. A dropped piece of loot stands for all that a monster drops. A request to
teleport is not kept: commands may ask for one at any time. NPCs start inside their map;
only players move. Monsters are always on map 0: the constructors of `RegularMonster` and
`BeheadableMonster` do not pass the map on. `World::Cleanup` at the end of the process and
the packets that only describe a character (health, chat) are left out.

### Properties

`SeesAround`, `NoGhosts` and `StaysShown` relate `shown` to the positions, and have three
exceptions, each of which is something the code does. Loot that a player walks up to is
not shown to him, as the second query of `Move` leaves it out. A monster that a player meets
after its death stays on his client, as `RemoveDeadMonsters` tells nobody. And who has been
outside the square of his map is on no quadtree, so those who met him may be wrong about
him until they part (`strayed`).

### Run

| run | instance | properties | result |
|---|---|---|---|
| `WorldMap` | 2 players, 1 NPC, 1 monster, 1 piece of loot, 2 maps, 4 points; 238,968 states | `MapsMatchWorld`, `SeesAround`, `NoGhosts`, `StaysShown` | hold |

*Bounds.* Four points, of which the last is outside the square of width 2, and a sight of 1
make some pairs of places in sight of each other and others not; a move can keep, enter or
leave sight. Two players are told of each other on both sides and of the other kinds; one
ID of monster and loot is enough because the properties speak of one player and one
entity, and no operation but `Kill` reads two others; the proofs need no such bound.
`MaxStrayed` = 1 lets one entity stray: a pair is exempt as soon as one of the two has.
The players are symmetric. Deadlock is checked: the world never stops.

### Proofs

`WorldMapProofs` proves these four properties and `TypeOK` for any sets of entities, maps and points, any
sight and width. The invariant `WorldInv` adds two facts to the properties: an ID that has
not been given is shown nowhere (`Fresh`), without which a new monster could be a ghost, and
who has not strayed is inside (`InsideUnlessStrayed`), so that queries reach him.
`NoGhosts` needs `MapsMatchWorld`: those who show an entity are told of its departure
because they are in the quadtree of its map. There is one lemma per action; each also
shows `Kept`, what `StaysShown` says of the step. `AddPreserves` is what all entering actions
share, and `FinishInv` what all deaths do.


## 7. Spawns

### State and actions

`mon` holds the objects of class `Monster`: life points, `m_gstate` (`KNEE`, `KO`), the
removed flag, hostility. `monsters` and `loots` are the containers of `World`, `onMap` the
monsters of the map, `since` the clock of each spawn. `World::Tick` is a sequence of
phases, and each takes and releases the entities mutex: `TickMonsters` (`ForEachMonster`),
`RemoveExpiredLoot`, `RemoveDeadMonsters`, then `Respawn` and `SpawnDone` for every spawn.
The handlers of the players fall between them: `Attack` (with `Die`, `DistributeExp` and
the roll for loot), `Behead`, `Summon` and `PickUp`. A spawn's monsters are also held by
`m_area_monsters` and are used again; a summoned one is destroyed with its entry.

Clocks are differences that stop where no comparison of the code tells them apart, so time
needs no bound. `time::rep` and `total_hostility` are numbers modulo `Width`. The tables of
chances are functions from cumulative chances; `Loaded` is what reading a list makes of
it, or `Refused` where the code ends the start of the server. Parties share experience by
other rules, and damage by formulas, both left out: who is paid and how much is dealt are
choices. The constructor leaves `total_hostility` uninitialised, which `Leftovers` stands
for: in the first life of a monster the shares may be anything, so `ExpShared` speaks of
the later ones.

### Run

| run | instance | properties | result |
|---|---|---|---|
| `Spawns` | 1 beheadable monster of a spawn, 1 summoned, 2 players; 190,572 states | `EntriesAgree`, `DiesOnce`, `ExpShared`, `RollShares`, `Respawns` | hold |

*Bounds.* The rectangle of the spawn is partly outside of the map, so a monster may be
alive and out of reach. Two players share a death. A cycle of two seconds is longer than the
knee of one, so that a monster can be dead before and after its spawn is due. `MaxId` = 5
gives IDs for several lives of the first monster and one of the second. Chances go up
to 4 instead of 1000: the tables have a first entry, one behind a gap and one that ends at
the maximum, an entry that is ignored and one that is refused. Deadlock is not checked
because a client may take all IDs and the world then only waits.

*Fairness.* `WF_vars(TickThread)`: the thread that `main` starts calls `World::Tick` until
the server is closed. Players owe nothing. `Respawns` therefore says that neither the
handlers nor an unlucky order of phases can keep a monster of a spawn dead.

*What the code does not keep.* `RespawnsAfterDelay` (section 13).

### Proofs

`SpawnsProofs` proves `[]TypeOK`, `[]EntriesAgree`, `[]DiesOnce`, `[]ExpShared` and
`[]RollShares` for any spawns, numbers and tables, any summonable monsters, and finite sets of
spawned monsters and of players: IDs are counted, and experience is summed. The inductive
invariant `SpawnsInv` adds three facts. A monster has no life points exactly while it kneels or lies, only then it is removed, and
its attackers have dealt no more than it has lost and are forgotten at its death
(`LifeInv`): without it, nothing would say that a monster `RemoveDeadMonsters` takes away
has died, nor that one that is respawned starts from nothing. No two monsters share an ID
(`IdsUnique`): the entries that go belong to the monsters that are flagged. A summoned monster
is in `m_monsters` while it exists (`CountsInv`). There is one lemma per action;
`MonstersChange` is what all steps share that leave the containers alone, `PostureChanges`
what kneeling and falling do, `Enters` what every way into the world does.

`ExpShared` rests on `SharesInv`: what was dealt to a monster in this life and the life points
it has left are no more than `MaxHp` together, and since its first death `total_hostility` is
the sum of what was dealt. The sum does not wrap because it has twice the bits of the life
points (`Width > MaxHp`, an assumption). A share is rounded down, so all of them are
no more than the whole (`SharesBounded`). `RollShares` rests on `TablesInv`, that the keys of a
loaded table are rolls (`LoadedSound`, by induction over the list): `upper_bound` then gives an
entry the rolls from the chance before it up to its own (`HitsOf`). It speaks of entries that
drop what no other entry of the table drops, and something; two that drop the same share
its rolls. `Respawns` stays with TLC.

## 8. Items

### State and actions

`bag` is `m_inventory`: `m_items` by local ID, `m_wear_items`, `m_ride`, what `m_equipment`
shows, and the sums that `ApplySpecialty` adds to, as one number of 16 bits. `rows` is the
item table, `s2d` and `d2s` the link. The game server changes the inventory first, sends the
update and waits for nothing; a new item has IID 0 until `D2S_UPDATEITEMIID` comes back.
`InsertItem` stands for `OnGetItem` and `OnPickUpItem`: `AddToItem` when a counted item is
there, `NewItem` otherwise. `OnTrashItem`, `OnPutOnItem` and `OnPutOffItem` change an item;
the `Db*` actions are the statements of the database server, `OnLoadItems`, `OnLoadPlayer`,
`OnPlayerInfo` and `OnUpdateItemIID` the callbacks. The connection's life is `Session`'s,
reduced to the roles that decide when items can change. `Crash` ends the game server with
any part of the updates on their way.

A load may be refused: for a player who is deleted or not the account's (`NoPid` in the
request) `LoadPlayer` answers 1 and sends no items (`DatabaseManager.cpp:463`), and of that the
listener only tells the client (`DBListener.cpp:97`). The PlayerID stays that of the load
before, and so does the role `LOADING`, so that `START` can follow.

`awaiting`, `loaded`, `lost`, `origin`, `mixed` and `early` are history: the loads not answered yet,
whether items have been loaded into this inventory, the items that changed while their IID
was 0, the item a row was made for or loaded as, whether a load was asked for or answered out
of turn or a new item got while one was awaited, and whether an item was put on by a player
whose own had not been loaded. The properties name these exceptions, which the code has. An
update that names IID 0 changes no row and is never repeated. Nothing stops a client from
asking for a second load, or from getting an item, before a load is answered, which puts a
row into the inventory twice. And nothing stops it from starting after a refusal: a player
who restarts, is refused and starts is in the game under his old PlayerID with an empty
inventory (`InventoryHoldsRows` asks for `loaded`), and an item that he puts on then may be the
second in its slot in the table (`RowsWearable` and `WearMatchesFlags` ask for `~early`; the
others do not).

### Run

| run | instance | properties | result |
|---|---|---|---|
| `Items` | 2 players of an account, a two-handed sword worn at the start, a shield, a ride, a counted potion, refused loads; 6,388,023 states | `RowsFollowInventory`, `InventoryHoldsRows`, `WearMatchesFlags`, `BonusMatchesWorn`, `RowsWearable` | hold |

*Bounds.* `MaxLocal` = 4 local IDs allow a loaded row, a new item and a second load.
`MaxIid` = 2 rows, one from the start: the second is made while something else happens.
Two connections (`MaxUid`) let answers for one arrive at the next. Two packets on the link
when a request is sent let an item be trashed before its IID is known, and an update and
its reversal be in flight together. The bonus of an item is 40000, so that two worn items
pass the end of `uint16_t`. Deadlock is not checked: the bounds end the behaviours.

*What the code does not keep.* `PutOffFindsItem` (section 13).

### Proofs

`ItemsProofs` proves the five properties for any players, indexes, slots, bonuses and
bounds. It assumes what the module states of its constants: the table at the start is one
that can be put on (`FirstRowsAssumption`), rides and counted items have no slot, two-handed swords and
shields have theirs. `BonusMatchesWorn` stands alone; it is a sum over the worn items, and each
step changes one of them or all (`SumOf` and its lemmas).

The others need one another, and none is inductive. `RowsFollowInventory` says what the table
is *after* the packets on the link, so the invariant has to follow every packet from its sending to its
reading. `IInv` is made of parts, each of which is kept because of those before it:

* `NumbersInv`: local IDs and IIDs on the link, in the table and in the inventory have been
  given, and a new item is named once: neither two inserts nor two answers have its ID.
* `KindsInv`: an IID stands for an item of the same index everywhere, also on the link; what is
  flagged as worn can be worn. An update carries no index, so the rows could otherwise
  become something else under it.
* `ConnInv` and `LoadInv`: there are no items without a connection, and an insert or an answer about
  an item in memory is this connection's. While a load is awaited the inventory is
  empty, there is one request or one answer on the link, nothing about items is behind
  the request, and the answer is a refusal or has the rows the table has until it is read.
* `ItemsInv`: an item with an IID has a row of its player that no packet trashes, and the last
  packet about it, or the row if there is none, has its number and its flag; for an item
  that has no IID yet its insert has, and then the row that the answer names.
* `HoldInv`: the converse, once items have been loaded (between the answer about the player
  and his items it says nothing). A row of the player who is loaded belongs to an item in memory, unless it
  is about to be trashed, its IID is on its way, or it was changed without one; a row that
  is left worn by the packets on the link belongs to a worn item.
* `RowsInv`: after every prefix of `s2d` the worn rows of a player can be worn together. It is
  stated for all prefixes since the database server may stop between any two packets, and a load
  finds what they have left.
* `PlaceInv`: slots, ride, flags and what others are shown agree, in both directions.

`RowsInv` needs `PlaceInv`: a packet that puts an item on is sent when its slot is free, which says
nothing about the rows unless the slots say what is flagged. `PlaceInv` needs `RowsInv`: a load
puts on whatever the rows say, and `Insert` would overwrite a slot. `HoldInv` carries the
one to the other: who puts an item on has been loaded, or else is `early`. With `mixed` set,
`ItemsInv`, `HoldInv`, `RowsInv` and `PlaceInv` say nothing, and with `early` the last two:
those are the exceptions the properties make, too.

## 9. Growth

### State and actions

`data` is `m_data` of the player, `skills` the grades in his `SkillManager`, `hit` the bonus
that `WeaponMastery` adds. `own` is where the handler of his connection stands, `holder` where
the thread that holds his mutex stands: `Monster::DistributeExp` in the thread of another
player's connection, or `World::Tick`. Handlers of his own connection spend points without
the mutex, so `OnUpdateProperty`, `OnSkillUp` and `OnLearnSkill` are three steps each: a
change and a read, `WritePoints`, and the packet (`SendStats`, `SendSkill`). `UpdateExp`, `LevelUp`
and `Tick` take a snapshot in one step and write it in another (`SendSnapshot`). The tables
are `row` and `rows`; learning a skill is two statements of the database server
(`LearnSkill` or `UpgradeSkill`, then `UpdateSUPoint`). `GameServerStops` loses any end of what was
sent, `DatabaseServerStops` falls between the two statements.

`slipped` says that an unsynchronised update has been lost, that a snapshot has been
overtaken by a packet sent from the other thread, or that a second statement has not been
executed; `NoFreePoints` is about what is left when none of these happens, which is all
of the ordering the code relies on. `left` remembers a player as he left. The five stats
are one. `/getexp` calls `UpdateExp` as a kill does.

Clients need not wait. `START` needs the role that the request to load has assigned, and
the packets of skills need no role; a load may be refused (an `idplayer` that is deleted or
of another account, `NoOne` here), after which the memory is what it was, and in a new
`Player` that is whatever was there before (`Leftover`). All of this is in the model; `early`
records that a client has started, or used a skill, before the skills of his player had
arrived. From then on the server may play a player who is not all there, load a second
time into a manager that is not empty (the call of `OnApply` of `nullptr`, mode `fault`), or
save under a `PlayerID` that is no player of the account. What the code keeps even then is
`HitMatchesMastery` and that no number of points goes below zero; `NoFreePoints` and
`ProgressKept` are about the states before.

### Run and proofs

| run | instance | properties | result |
|---|---|---|---|
| `Growth` | 1 player, 3 levels, 1 stat, 2 skills of which one needs grade 2 of the other; 7,626,073 states | `NoFreePoints`, `ProgressKept`, `HitMatchesMastery` | hold |

*Bounds.* Two levels to gain are the least with which two can be gained at once and with
which the last one resets the experience. `MaxGrade` = 2 is where `OnApply` adds for the
first time. One packet in flight when a handler begins still lets the other thread send a
second and a third: both threads are then between their change and their packet.
`MaxPoints` and `MaxRows` bound what a client who is early may gather by loading himself
again; they are above what a player who waits ever has. `MCLeftover` is a `PlayerInfo` of the
highest level with a point for a skill, what a client would need to learn one before any
load. `LevelUp` stops at a level past `MaxLevel`, which only a load that comes late
reaches. Deadlock is checked: a player can always come back.

`GrowthProofs` proves for any players, skills, prices, grants and limits, and any number of
packets on the link: `NobodyGetsFreePoints`, `ProgressIsKept` and `BonusMatchesGrade` are the three
properties of the run, `GrowthTyped` is `TypeOK` (no handler brings a number of points below
zero, though each compares in one step and another thread writes in between) and
`SkillsAlwaysLoad` is `SkillsLoad` until a client is early.

*Hypotheses.* The theorems have none but the module's assumptions: skills are finitely many,
limits and tables hold natural numbers, `NoOne` is no player and `NoSkill` no skill, and what
an uninitialised player holds are numbers. TLC evaluates them on the run. Of clients they
assume nothing: `GrowthTyped` and `BonusMatchesGrade` hold of all of them, and the other
three say in their statements that nobody has been early yet (`ProgressKept` remembers nobody
after that). This cannot be dropped: TLC finds `SkillsLoad`, and `NoFreePoints` without its
`~early`, violated.

*The invariant* is `Wide`, the types and the bonus in every state, and `~early => Inv`. `Inv` is
a conjunction of six parts. `TypesInv` and `HitInv` say what the
numbers are, also while a handler is half-way. `Phases` says what each stage of a session may
find on the link. `RowsInv` says that the table of skills has one row for a skill. `Honest`
limits the points in memory. `Order` is what makes the rest inductive: the tables as they
are (`Current`, with the second statement of the database server taken as executed)
lead, packet by packet, to tables `f` that are *settled* (a player who left is found in them
as he was) and *in step* with memory. In step means that grades, stat and level agree but for
what the two threads have in hand, and that the points in `f`, in memory, in a handler's
local variables and in a snapshot are each paid for by what is already in the tables
(`PayingStats`, `PayingSkills`, `Holding`). Since `GameServerStops` may cut the link anywhere, the
tables after *every* packet have to be fair, not only the last ones (`IsRun`): an update that
arrives before its payment would be lost on the way. Neither the properties of the run nor `Order`
without the intermediate tables are inductive. TLC checked `Inv` on the instance of the run
with clients that wait, with one packet and with two, before it was proved.

*Sums.* What the stats, skills and levels cost or grant are folds over sets. `PaidMore`, `PaidOther`
and `EarnedMore` say how they change when one element does; they rest, as elsewhere, on the
least size for which they would fail.

## 10. Packets

### State and actions

`New`, `FromBytes`, `Push`, `Pop`, `Merge`, `ResetSize` and `ChangeType` are the class `packet` on its
buffer of `Cap` bytes: `m_header`, `m_begin` and `m_end` are positions in it, and a header is
written again in front of `m_begin` after every push and pop. `Write`, `Read`, `Execute` and
`KeepRest` are a stream into a `server`, cut anywhere; its handler relays the packets as
`User` and `DBListener` do, by appending the UID or by popping it from the front. `ClientRead`,
`ClientExecute` and `ClientWaits` are `client`, which keeps its rest in another way.

Two things of the code limit what can be said of it. `server` reads two bytes for a size when
only one has arrived: the second is whatever follows the buffer (`SizesInFront`), so that a
size with a low byte of 0 or 1 (256, 257) may be taken for 0 or 1 and believed. The history
variable `guessed` becomes true when a packet has been handled in this way; after that the
streams are out of step, which is what `SizesAreRead` (section 13) shows, and the properties
speak of the behaviours before. And `reset_size` copies the type from its old place after it
has written the size; after a pop of one or two bytes this place has been overwritten. The
relays of the code call `change_type` before they write. A push that does not fit is dropped
silently, a string or a merge throws.

### Run and proofs

| run | instance | properties | result |
|---|---|---|---|
| `Packets` | bytes of 4 values, a buffer of 12, 3 types, 3 messages; 340,147 states | `InOrder`, `NothingKeptBack` | hold |

*Bounds.* `Base` = 4 makes sizes of more than one byte out of packets of 4 to 8 bytes, so that a
size itself is cut in two, and one of 5 has the low byte 1, as 257 does with real bytes. Every
way of cutting the streams is a behaviour. Three messages are
enough for one to be cut at both ends. `Cap` = 12 exceeds the packets of the run; the limit is
the subject of the theorems. Deadlock is not checked: the sender has a last message.

`ReadersProofs` proves for every `Base` and `Cap`, and every well-formed packet, what one
operation does: `PushAppends` and `MergeAppends` (the content grows by exactly the bytes that
are pushed, or nothing changes when they do not fit), `PopTakes` (the first bytes are
answered and the rest stays, or zeros are and nothing changes), `NewIsEmpty`, and `WireKeeps` (a packet made of
the bytes of another holds its content). Each also shows that the result is `WellFormed`, which
is the assertion of `packet.h:98`: the size in the header is the distance from `m_header` to
`m_end`. Of these, by induction over the list of values, `ComesBack`: what is packed, relayed
and made a packet again is popped value for value, strings up to their zero and words byte by
byte. The induction is on the numbers for which it fails, which would have a least one
(`Smallest`, `Induct`).

Both properties of the run are proved for any formats, any lists of values, any number of
messages and every way to cut the two streams (`ValuesInOrder`, `NothingWaits`). Neither
is inductive: `InOrder` says nothing of the bytes that are not popped yet. The invariant,
`StreamsInv`, says that there are numbers r and k <= r, the packets that the server and
the client have handled, such that

- what the server holds, followed by its wire, is exactly the packets sent after the r-th, one
  after another (`Remains`), and likewise on the client's side those relayed after the k-th;
- a side that waits for the next read holds less than one whole packet;
- what has been popped is what the relay makes of the first k messages.

A read moves bytes from the wire to the end of what is held and changes neither stream. The size in
front of a buffer is then the size of the next packet as soon as two bytes are there, so
that a loop cuts off exactly that one, and ends only if less is left.

*Assumptions.* `TypesAssumption` and `FormatAssumption` say that types are bytes, that a packet
has at least one value, and that two types with one relayed type have one relayed format. `ContentsAssumption` says
that the values are of the types of the format (a string has no zero in it), and that a packet fits the
buffer with the UID that is appended to it: the code does not check this, and drops the UID of a
packet that is too long for it without a word (`packet.h:148`). TLC evaluates all three on the run's instance.
The two theorems have no other hypothesis: packets may be of any size up to `Cap`. What they
prove inductive is `~guessed => StreamsInv` (`StreamsOrGuess`). The only step that breaks
`StreamsInv` is the one that guesses a size, the hazard of `server.h:109`; every packet
handled up to that step has been handled as it was sent.

## 11. Parser

### State and actions

`XParser::GetToken` is a jump table in the source: `label` is the label it is at, `view` is
`m_pView`. `Words`, `Whole` and the like say which characters lead from a label to which;
`Bracket`, `Quote`, `Quoted`, `Begin`, `Continue`, `Comment` and the others are its steps.
A character stands for a class of characters that every label treats alike. `LoadAtom`,
`LoadOpen`, `LoadReturn` and `LoadError` are `OnLoad`, whose recursion is `stack`; the `Parse*` actions are
`ParseList`, which has a stack of its own and a second count of the brackets, `m_nDepth`.
`LoadRow` is the loop of `db_object::load`.

Found while modelling, and part of the model: of two quotes in a row only the first is
taken into the string, and the second is read again; `Load` ends at a closing bracket
that matches none, without an error, and never reads the rest; `Load` does not look at
`m_nDepth`; an atom beside the rows becomes a row of index 0. A float as an index is left out.

### Run and proofs

| run | instance | properties | result |
|---|---|---|---|
| `Parser` | all files of up to 4 characters out of two alphabets of 9 and 10, and of up to 4 pieces of rows out of 7; 528,493 states | `DepthIsStack`, `UnmatchedFound`, `FirstRowStays`, `NothingLost`, `Terminates` | hold |

*Bounds.* Four characters reach every label of `GetToken` (an exponent needs a digit, its
letter and a digit or sign) and give every pair of brackets, quotes, comments and ends. The pieces put two
rows of the same index, written in decimal, octal and hexadecimal numbers, in one file,
and brackets that do not match around them. *Fairness*: `WF_vars(Next)`, as the thread
that reads a file does nothing else. Deadlock is not checked: a file ends.

`ReadersProofs` proves for every set of files, of any length: `DepthCountsStack` (`m_nDepth` is
the length of the stack of `ParseList`), from which `AssertionHolds` (the assertion of
`parser.cpp:425`) follows; `UnmatchedRefused`, whose invariant relates the depth to the
tokens answered so far; and `FirstRowFound`. `NothingLost` is a recursive definition over
the lists and stays with TLC, like `Terminates`.

## 12. Not modelled

* `core/persistence` passes statements to libzdb, `core/utils` reads the clock, keeps a pool of
  numbers and draws random ones; the modules state what they take from them.
* `CommandDispatcher` calls actions that other modules have; `debugapp` is a scratch
  program; `shared/inix` holds constants of the game's protocol.
* The table of players: creating, deleting and restoring a player are requests of `Session`
  whose effect on the table is a row. (`RestorePlayer` does not look at `MAX_CHARACTER`,
  `DatabaseManager.cpp:426`.)
* Formulas: damage, resistance, experience in a party, distances of attacks.
* Printing and copying of lists, values of floats, and reading files.
* Two game servers for one database server, which `on_disconnected` does not provide for.
* `quadtree::remove` of an entity that is not in the tree, and a position that changes while
  the entity is in the tree. Both need one of the races of `Session` first; the hazards name them.

`TypeOK` of `Items` and `Growth` documents the values of their variables and is no property
of their runs; `GrowthTyped` proves the second. That of `Session` is a part of `SessionInv`; `PartyProofs`, `WorldMapProofs` and
`SpawnsProofs` prove those of `Party`, `WorldMap` and `Spawns`, and `TypesInv` of `ItemsProofs` is that of
`Items` without its bounds.

## 13. Statements the code does not keep

Two comments are refuted by runs of their own: `Party_TickNotBlocked` and
`Quadtree_BrothersNeedNotBeLeaves` (sections 4 and 5; `PROJECT.json`, findings). The modules
state eight more that TLC refutes when they are named as `INVARIANT` in a copy of the module's
configuration (`RespawnsAfterDelay`: as `PROPERTY`), with the changes given here.

| statement | module | change | what the counterexample shows |
|---|---|---|---|
| `WorldPlayersOwned` (`World.h`: ownership is held by the server's sessions) | `Session` | 1 account, `MaxInFlight` = 3 | a role update is lost to the database callback, and the session ends without `World::Remove` |
| `LoadedBeforeStart` (`Player.cpp`: the last information "before game start") | `Session` | 1 account, `MaxInFlight` = 3 | `OnStart` is allowed by the request to load, not by its answer |
| `DisconnectNamesAccount` (`User.h`: the AID is that of an account) | `Session` | 1 account, `MaxInFlight` = 3 | a session that ends inside `OnAuthorized` reports an AID that was never set |
| `QuadrantsCover` (`README.md:147` of the repository) | `Quadtree` | `Entities = {e1, e2, e3}`, `Radii = {0}`, `Widths = {5}`, `MaxEntities = 1` | a point on the border that the halves of an odd width leave out is in no child |
| `RespawnsAfterDelay` (`Spawn.h`: "with given delay") | `Spawns` | as it is | the difference of unsigned times is huge while the cycle is still to come, so the monster is back at the next tick |
| `PutOffFindsItem` (`Inventory.cpp`: the assertion in `PutOff`) | `Items` | as it is | two loads of one session put the rows into the inventory twice; the slot is emptied through one of the items and the other is still flagged |
| `SkillsLoad` (`Player.cpp:129`: an exception is made, not thrown) | `Growth` | as it is | a client that starts early is loaded a second time: a skill that is there is added, and `OnApply` is called of `nullptr`; until a client is early it is a theorem, `SkillsAlwaysLoad` |
| `SizesAreRead` (`packet.h:98`: the size in the header is that of the packet) | `Packets` | as it is | the first byte of a packet whose size has the low byte 1 arrives alone and is taken for a whole packet |
