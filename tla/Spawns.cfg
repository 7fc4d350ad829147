SPECIFICATION Spec
CONSTANTS
    Players = {p1, p2}
    wolf = wolf
    ghost = ghost
    weak = weak
    strong = strong
    gold = gold
    gem = gem
    Spawned = {wolf}
    Summonable = {ghost}
    Spawns = {s1}
    SpawnOf <- OneSpawn
    Beheadable = {wolf}
    Straying = {s1}
    MaxHp = 2
    Exp = 10
    Leftovers = {255}
    Width = 256
    Cycle = 2
    KneeTime = 1
    LootTime = 2
    MaxRoll = 4
    GroupTables <- Lists
    ItemGroupTables <- ItemLists
    NoItem = NoItem
    MaxId = 5
CHECK_DEADLOCK FALSE
INVARIANTS
    EntriesAgree
    DiesOnce
    ExpShared
    RollShares
PROPERTY Respawns
