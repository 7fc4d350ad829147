SPECIFICATION Spec
CONSTANTS
    Pids = {p1, p2}
    NoPid = NoPid
    Indexes = {sword, shield, ride, potion}
    Plural = {potion}
    Rides = {ride}
    Slots = {weapon, offhand}
    NoSlot = NoSlot
    SlotOf <- SlotOfIndex
    WeaponSlot = weapon
    ShieldSlot = offhand
    TwoHanded = {sword}
    Shields = {shield}
    Bonus <- BonusOfIndex
    Permitted = {sword, shield, ride}
    FirstRows <- SwordRow
    NoItem = NoItem
    MaxLocal = 4
    MaxIid = 2
    MaxUid = 2
    MaxNum = 2
    MaxInFlight = 2
CHECK_DEADLOCK FALSE
INVARIANTS
    RowsFollowInventory
    InventoryHoldsRows
    WearMatchesFlags
    BonusMatchesWorn
    RowsWearable
