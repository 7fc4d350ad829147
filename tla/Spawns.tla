-------------------------------- MODULE Spawns --------------------------------
(***************************************************************************)
(* The life of monsters and of the loot they drop: the tick thread of the  *)
(* game server, which lets the beheadable ones die, removes the dead and   *)
(* the expired, and respawns, against the handlers of the players, which   *)
(* attack, behead, summon and pick up.                                     *)
(*                                                                         *)
(* A handler holds the entities mutex while it works on its target, and so *)
(* does each phase of World::Tick; between the phases the mutex is free.   *)
(* Each of these is one step here.  Spawn::Tick takes the mutex only in    *)
(* World::Add; until then nobody can reach the monster it respawns.        *)
(*                                                                         *)
(* Clocks are kept as differences and stop where no comparison tells them  *)
(* apart any more, so that time needs no bound.                            *)
(***************************************************************************)
EXTENDS Integers, FiniteSetsExt, SequencesExt

CONSTANTS
    Players,
    Spawned,      \* the monsters of m_area_monsters of all spawns
    Summonable,   \* those of the command /mob
    Spawns,
    SpawnOf,      \* [Spawned -> Spawns]
    Beheadable,   \* those of race MR_MAGUNI
    Straying,     \* spawns whose rectangle is partly outside of the map
    MaxHp,        \* GetMaxHP
    Exp,          \* InitMonster::Exp
    Leftovers,    \* what may be in the memory that becomes total_hostility
    Width,        \* two to the power of the width of total_hostility, of time::rep
    Cycle,        \* GetSpawnCycle, in seconds
    KneeTime,     \* MAX_KNEE_TIME, in seconds
    LootTime,     \* DISAPPEAR_TIME, in seconds
    MaxRoll,      \* 1000: RollLoot and RollGroup throw 1..MaxRoll
    GroupTables,  \* the lists of Group.txt that the server may be started with
    ItemGroupTables, \* those of ItemGroup.txt
    NoItem,       \* a roll that hits nothing
    MaxId         \* bound: IDs of g_max_id

Monsters == Spawned \cup Summonable
Ids == 0..MaxId

ASSUME SpawnOfAssumption  == SpawnOf \in [Spawned -> Spawns] /\ Straying \subseteq Spawns
ASSUME SummonAssumption   == Spawned \cap Summonable = {} /\ Beheadable \subseteq Monsters
ASSUME FiniteAssumption   == IsFiniteSet(Spawned) /\ IsFiniteSet(Players)
\* GetMaxHP has 32 bits, total_hostility and time::rep have 64.
ASSUME NumbersAssumption  ==
    /\ {MaxHp, Exp, Cycle, KneeTime, LootTime, MaxRoll, MaxId} \subseteq Nat \ {0}
    /\ Width \in Nat /\ Width > MaxHp /\ Width > 2 * Cycle
    /\ Leftovers \subseteq 0..Width - 1
\* The lists are pairs of an unsigned number and what it is the chance of.
EntryLists == ItemGroupTables \cup UNION {Range(gs) : gs \in GroupTables}
ASSUME ListsAssumption    ==
    \A es \in EntryLists : es \in Seq(Nat \X {es[i][2] : i \in DOMAIN es})

VARIABLES
    phase,      \* what World::Tick does next, "wait" between two of them
    todo,       \* the spawns that ForEachSpawn has still to tick
    mon,        \* the objects of class Monster
    monsters,   \* [IDs -> Monsters]: World::m_monsters
    onMap,      \* [IDs -> Monsters]: the monsters of the map
    loots,      \* [IDs -> loots]: World::m_loots
    since,      \* [Spawns -> Int]: time::now() - m_next_spawn_cycle
    nextId,     \* g_max_id
    groups,     \* Group::DB
    itemGroup,  \* the one entry of ItemGroup::DB that is rolled for
    \* History: no code reads these.
    lives,      \* [Monsters -> Nat]: how often it was added to the world
    deaths,     \* [Monsters -> Nat]: how often Die was called
    share       \* [Monsters -> [Players -> Nat]]: experience of its last death

world == <<mon, monsters, onMap>>
tables == <<groups, itemGroup>>
history == <<lives, deaths, share>>
vars == <<phase, todo, world, loots, since, nextId, tables, history>>

-----------------------------------------------------------------------------
(* Loot tables: a std::map from cumulative chances to what is chosen.       *)

\* A map after map[i] = x.
With(f, i, x) == [j \in DOMAIN f \cup {i} |-> IF j = i THEN x ELSE f[j]]

\* In place of a table that cannot be loaded: no table has a chance of 0.
Refused == With(<<>>, 0, NoItem)

MaxMapKey(table) == Max(DOMAIN table \cup {0})

\* AssignGroup and AssignItemGroup, with ValidateLootInfo and ValidateGroupInfo,
\* for one entry <<chance, what>>; what throws ends the start of the server.
Assign(table, entry) ==
    LET chance == entry[1] IN
    IF table = Refused THEN Refused
    ELSE IF MaxMapKey(table) = 0 /\ chance = 0 THEN table
    ELSE IF chance > MaxRoll \/ chance <= MaxMapKey(table) THEN Refused
    ELSE With(table, chance, entry[2])

Loaded(entries) == FoldLeft(Assign, <<>>, entries)

\* Variant: lower_bound, the first entry that is not less.
LowerBound(table, roll) ==
    LET K == {c \in DOMAIN table : c >= roll} IN
    IF K = {} THEN NoItem ELSE table[Min(K)]

\* upper_bound: the first entry whose chance is greater.
UpperBound(table, roll) ==
    LET K == {c \in DOMAIN table : c > roll} IN
    IF K = {} THEN NoItem ELSE table[Min(K)]

RollGroup(roll) == UpperBound(itemGroup, roll)

RollLoot(group, roll) == UpperBound(groups[group], roll)

\* What one roll of an item group may drop.
Drops ==
    LET hit == {RollGroup(r) : r \in 1..MaxRoll} IN
    UNION {IF g = NoItem THEN {NoItem} ELSE {RollLoot(g, r) : r \in 1..MaxRoll} : g \in hit}

-----------------------------------------------------------------------------
(* class Monster.                                                           *)

NoHostility == [p \in Players |-> 0]

\* The constructor leaves total_hostility as it finds it.
NewMonster(id, leftover) ==
    [id |-> id, hp |-> MaxHp, gstate |-> {}, removed |-> FALSE, dying |-> 0,
     hostility |-> NoHostility, total |-> leftover]

\* RestoreInitialState: ResetStates, AssignNewId, m_curhp and is_removed.
Restored(m, id) ==
    [mon[m] EXCEPT !.id = id, !.hp = MaxHp, !.gstate = {}, !.removed = FALSE]

\* World::Add for a monster at a random point of its rectangle: outside of the
\* map it is in m_monsters, but in no quad and in no list of the map.
AddMonster(m, id, inside) ==
    /\ monsters' = With(monsters, id, m)
    /\ onMap' = IF inside THEN With(onMap, id, m) ELSE onMap
    /\ lives' = [lives EXCEPT ![m] = @ + 1]

Inside(m) ==
    IF m \in Spawned /\ SpawnOf[m] \in Straying THEN BOOLEAN ELSE {TRUE}

\* DistributeExp: shares of the damage, for players who are in the world and in
\* no party.  (With a total of 0 the share is no number.)
Shares(hostility, total, paid) ==
    [p \in Players |-> IF p \in paid /\ total # 0
                       THEN (hostility[p] * Exp) \div total ELSE 0]

\* The IDs that the monsters get when the spawns are created.
FirstIds == CHOOSE f \in [Spawned -> 0..Cardinality(Spawned) - 1] :
              \A m, n \in Spawned : m # n => f[m] # f[n]

Init ==
    \E leftover \in [Spawned -> Leftovers], inside \in [Spawned -> BOOLEAN],
       gs \in GroupTables, is \in ItemGroupTables :
        /\ \A m \in Spawned : inside[m] \in Inside(m)
        /\ phase = "wait" /\ todo = {}
        /\ mon = [m \in Spawned |-> NewMonster(FirstIds[m], leftover[m])]
        /\ monsters = AntiFunction(FirstIds)
        /\ onMap = Restrict(monsters, {FirstIds[m] : m \in {n \in Spawned : inside[n]}})
        /\ loots = <<>>
        /\ since = [s \in Spawns |-> -Cycle]
        /\ nextId = Cardinality(Spawned)
        /\ groups = [g \in DOMAIN gs |-> Loaded(gs[g])]
        /\ \A g \in DOMAIN gs : groups[g] # Refused
        /\ itemGroup = Loaded(is) /\ itemGroup # Refused
        /\ lives = [m \in Monsters |-> IF m \in Spawned THEN 1 ELSE 0]
        /\ deaths = [m \in Monsters |-> 0]
        /\ share = [m \in Monsters |-> NoHostility]

-----------------------------------------------------------------------------
(* The handlers of the players.                                             *)

\* Enough IDs for all that the dead and the next to die will need.
IdsLeft(n) == nextId + Cardinality({m \in DOMAIN mon : mon[m].hp = 0}) + n <= MaxId

\* Variant: the target's own check is left out.
CanAttackAny(m) == TRUE

\* CanAttack; CanExecute of a skill asks for life points only, which what kneels
\* or lies has none of (DiesOnce).
CanAttack(m) == mon[m].hp > 0 /\ mon[m].gstate = {}

\* Variant: hostility_map is not cleared.
DieKeepsHostility(m, hurt, paid) ==
    /\ share' = [share EXCEPT ![m] = Shares(hurt.hostility, hurt.total, paid)]
    /\ deaths' = [deaths EXCEPT ![m] = @ + 1]
    /\ mon' = [mon EXCEPT ![m] =
         [hurt EXCEPT !.total = 0,
                      !.gstate = @ \cup {IF m \in Beheadable THEN "KNEE" ELSE "KO"},
                      !.dying = 0]]

\* Die of RegularMonster and BeheadableMonster, but for the loot.
Die(m, hurt, paid) ==
    /\ share' = [share EXCEPT ![m] = Shares(hurt.hostility, hurt.total, paid)]
    /\ deaths' = [deaths EXCEPT ![m] = @ + 1]
    /\ mon' = [mon EXCEPT ![m] =
         [hurt EXCEPT !.hostility = NoHostility, !.total = 0,
                      !.gstate = @ \cup {IF m \in Beheadable THEN "KNEE" ELSE "KO"},
                      !.dying = 0]]

DropLoot(drop) ==
    IF drop = NoItem THEN UNCHANGED <<loots, nextId>>
    ELSE /\ loots' = With(loots, nextId, [item |-> drop, age |-> 0])
         /\ nextId' = nextId + 1

\* The damage is cut to what the target has left: ReceiveDamage throws otherwise.
Dealt(m, damage) == Min({damage, mon[m].hp})

\* OnAttack and PhysicalSkill::Execute, in the lock of the target.
Attack(p, id, damage) ==
    /\ id \in DOMAIN onMap
    /\ LET m == onMap[id]
           dealt == Dealt(m, damage)
           hurt == [mon[m] EXCEPT !.hp = @ - dealt, !.hostility[p] = @ + dealt,
                                  !.total = (@ + dealt) % Width]
       IN
       /\ CanAttack(m)
       /\ IF hurt.hp > 0
          THEN /\ mon' = [mon EXCEPT ![m] = hurt]
               /\ UNCHANGED <<loots, nextId, share, deaths>>
          ELSE /\ IdsLeft(2)
               /\ \E paid \in SUBSET Players, drop \in Drops :
                    Die(m, hurt, paid) /\ DropLoot(drop)
    /\ UNCHANGED <<phase, todo, monsters, onMap, since, tables, lives>>

\* Behead::Execute.
Behead(id) ==
    /\ id \in DOMAIN onMap
    /\ LET m == onMap[id] IN
       /\ "KNEE" \in mon[m].gstate /\ "KO" \notin mon[m].gstate
       /\ mon' = [mon EXCEPT ![m].gstate = (@ \cup {"KO"}) \ {"KNEE"}]
    /\ UNCHANGED <<phase, todo, monsters, onMap, loots, since, nextId, tables, history>>

\* The command /mob.
Summon(m) ==
    /\ m \in Summonable \ DOMAIN mon /\ IdsLeft(1)
    /\ \E leftover \in Leftovers : mon' = With(mon, m, NewMonster(nextId, leftover))
    /\ AddMonster(m, nextId, TRUE)
    /\ nextId' = nextId + 1
    /\ UNCHANGED <<phase, todo, loots, since, tables, deaths, share>>

\* OnPickUpItem, which asks for no role; the item goes to InsertItem of Items.
PickUp(id) ==
    /\ id \in DOMAIN loots
    /\ loots' = [i \in DOMAIN loots \ {id} |-> loots[i]]
    /\ UNCHANGED <<phase, todo, world, since, nextId, tables, history>>

-----------------------------------------------------------------------------
(* The tick thread.                                                         *)

\* The wait of one second between two calls of World::Tick.
Wait ==
    /\ phase = "wait"
    /\ phase' = "monsters"
    /\ since' = [s \in Spawns |-> Min({since[s] + 1, Cycle})]
    /\ mon' = [m \in DOMAIN mon |-> [mon[m] EXCEPT !.dying = Min({@ + 1, KneeTime})]]
    /\ loots' = [i \in DOMAIN loots |->
                   [item |-> loots[i].item, age |-> Min({loots[i].age + 1, LootTime})]]
    /\ UNCHANGED <<todo, monsters, onMap, nextId, tables, history>>

\* ForEachMonster: BeheadableMonster::Tick.
TickMonsters ==
    LET tired == {m \in Beheadable \cap {monsters[i] : i \in DOMAIN monsters} :
                    "KNEE" \in mon[m].gstate /\ mon[m].dying >= KneeTime}
    IN
    /\ phase = "monsters"
    /\ phase' = "loots"
    /\ mon' = [m \in DOMAIN mon |->
                 IF m \in tired
                 THEN [mon[m] EXCEPT !.gstate = (@ \cup {"KO"}) \ {"KNEE"}] ELSE mon[m]]
    /\ UNCHANGED <<todo, monsters, onMap, loots, since, nextId, tables, history>>

RemoveExpiredLoot ==
    /\ phase = "loots"
    /\ phase' = "dead"
    /\ loots' = [i \in {j \in DOMAIN loots : loots[j].age < LootTime} |-> loots[i]]
    /\ UNCHANGED <<todo, world, since, nextId, tables, history>>

Dead == {i \in DOMAIN monsters : "KO" \in mon[monsters[i]].gstate}

\* Variant: without FlagRemoved.
DestroyOnly(gone) == [m \in DOMAIN mon \ (gone \ Spawned) |-> mon[m]]

\* A summoned monster is destroyed with its last pointer, the one in m_monsters;
\* of the spawned ones m_area_monsters holds another.
FlagAndDestroy(gone) ==
    [m \in DOMAIN mon \ (gone \ Spawned) |->
        IF m \in gone THEN [mon[m] EXCEPT !.removed = TRUE] ELSE mon[m]]

RemoveDeadMonsters ==
    LET gone == {monsters[i] : i \in Dead} IN
    /\ phase = "dead"
    /\ phase' = "spawns" /\ todo' = Spawns
    /\ mon' = FlagAndDestroy(gone)
    /\ onMap' = [i \in DOMAIN onMap \ Dead |-> onMap[i]]
    /\ monsters' = [i \in DOMAIN monsters \ Dead |-> monsters[i]]
    /\ UNCHANGED <<loots, since, nextId, tables, history>>

\* cmp_less of a difference of unsigned numbers: while the next spawn cycle is
\* still to come, the difference is the largest of all.
Early(s) == since[s] % Width < Cycle

\* Variant: what lies dead on the ground is respawned, removed or not.
AreaMonstersDown(s) == {m \in Spawned : SpawnOf[m] = s /\ mon[m].hp = 0}

\* The monsters that Spawn::Tick respawns: those flagged as removed.
AreaMonsters(s) == {m \in Spawned : SpawnOf[m] = s /\ mon[m].removed}

\* Respawn one monster of the loop in Spawn::Tick.
Respawn(s) ==
    /\ phase = "spawns" /\ s \in todo /\ ~Early(s)
    /\ \E m \in AreaMonsters(s) : \E inside \in Inside(m) :
         /\ mon' = [mon EXCEPT ![m] = Restored(m, nextId)]
         /\ AddMonster(m, nextId, inside)
    /\ nextId' = nextId + 1
    /\ UNCHANGED <<phase, todo, loots, since, tables, deaths, share>>

\* The end of Spawn::Tick, after the loop or before it.
SpawnDone(s) ==
    /\ phase = "spawns" /\ s \in todo
    /\ Early(s) \/ AreaMonsters(s) = {}
    /\ since' = IF Early(s) THEN since ELSE [since EXCEPT ![s] = -Cycle]
    /\ todo' = todo \ {s}
    /\ phase' = IF todo' = {} THEN "wait" ELSE "spawns"
    /\ UNCHANGED <<world, loots, nextId, tables, history>>

TickThread ==
    \/ Wait \/ TickMonsters \/ RemoveExpiredLoot \/ RemoveDeadMonsters
    \/ \E s \in Spawns : Respawn(s) \/ SpawnDone(s)

Handlers ==
    \/ \E p \in Players, id \in Ids, d \in 0..MaxHp : Attack(p, id, d)
    \/ \E id \in Ids : Behead(id) \/ PickUp(id)
    \/ \E m \in Summonable : Summon(m)

Next == TickThread \/ Handlers

\* The tick thread runs until the server is closed; nobody else has to act.
Spec == Init /\ [][Next]_vars /\ WF_vars(TickThread)

-----------------------------------------------------------------------------
(* Properties.                                                              *)

\* The values of the variables: the objects of class Monster, the containers of
\* World, the clocks of the spawns and the tables.
TypeOK ==
    /\ phase \in {"wait", "monsters", "loots", "dead", "spawns"}
    /\ todo \subseteq Spawns
    /\ Spawned \subseteq DOMAIN mon /\ DOMAIN mon \subseteq Monsters
    /\ \A m \in DOMAIN mon :
          mon[m] \in [id : 0..nextId - 1, hp : 0..MaxHp, gstate : SUBSET {"KNEE", "KO"},
                     removed : BOOLEAN, dying : 0..KneeTime,
                     hostility : [Players -> 0..MaxHp], total : 0..Width - 1]
    /\ DOMAIN monsters \cup DOMAIN onMap \cup DOMAIN loots \subseteq 0..nextId - 1
    /\ \A i \in DOMAIN loots : loots[i].age \in 0..LootTime
    /\ since \in [Spawns -> -Cycle..Cycle]
    /\ nextId \in Nat

\* The containers agree: a monster is in m_monsters at most once and under its
\* present ID; a spawned one is flagged as removed exactly while it is in none;
\* the map, which holds plain pointers, points to nothing that m_monsters does
\* not own, and misses nothing but what was placed outside of it.
EntriesAgree ==
    /\ \A i \in DOMAIN monsters : monsters[i] \in DOMAIN mon /\ mon[monsters[i]].id = i
    /\ \A m \in Spawned : mon[m].removed <=> mon[m].id \notin DOMAIN monsters
    /\ \A i \in DOMAIN onMap : i \in DOMAIN monsters /\ onMap[i] = monsters[i]
    /\ \A i \in DOMAIN monsters \ DOMAIN onMap : FALSE \in Inside(monsters[i])

\* Whoever attacks, beheads or waits, and however the phases of World::Tick lie
\* between them, a monster dies exactly once in each of its lives: experience
\* and loot are given once, and nobody kills what kneels or lies.
DiesOnce ==
    \A m \in Monsters :
        lives[m] = deaths[m] + (IF m \in DOMAIN mon /\ mon[m].hp > 0 THEN 1 ELSE 0)

\* The players who share a death are never given more than Exp together, from
\* the second life of a spawned monster on: in the first total_hostility starts
\* with whatever was in its memory.
ExpShared ==
    \A m \in Spawned :
        deaths[m] > 1 => MapThenSumSet(LAMBDA p : share[m][p], Players) <= Exp

\* Entries that differ in what they drop keep their odds: one is hit by as many
\* rolls as its chance exceeds the one before it, the first by one less, for no
\* roll is 0.
RollShares ==
    \A t \in Range(groups) \cup {itemGroup} : \A c \in DOMAIN t :
        LET alone == t[c] # NoItem /\ \A k \in DOMAIN t : t[k] = t[c] => k = c
            before == Max({0} \cup {k \in DOMAIN t : k < c})
            first == IF before = 0 THEN 1 ELSE 0
        IN  alone => Cardinality({r \in 1..MaxRoll : UpperBound(t, r) = t[c]})
                     = c - before - first

\* A spawned monster that has died is alive again some day: it kneels no longer
\* than KneeTime, is removed, and its spawn finds it due.
Respawns == \A m \in Spawned : (mon[m].hp = 0) ~> (mon[m].hp > 0)

\* Refuted.  "Re-inserts monsters with flagged as removed, tagged to spawns into
\* the world with given delay."
RespawnsAfterDelay ==
    [][\A m \in Spawned :
        mon[m].removed /\ ~mon'[m].removed => since[SpawnOf[m]] >= 0]_vars

=============================================================================
