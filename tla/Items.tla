-------------------------------- MODULE Items --------------------------------
(***************************************************************************)
(* The items of a player: his inventory in the memory of the game server,  *)
(* the rows of the item table, and the packets between the two.            *)
(*                                                                         *)
(* The inventory is changed first and the database told afterwards; nobody *)
(* waits for an answer.  An item gets its local ID at once and the ID of   *)
(* its row, the IID, when D2S_UPDATEITEMIID arrives: until then its IID is *)
(* 0, and packets that name it name no row.                                *)
(*                                                                         *)
(* The module follows the connections of one account, of which one exists  *)
(* at a time (OneSessionPerAccount of Session).  Other accounts have other *)
(* UIDs, local IDs and rows.  Handlers are atomic here: each reads and     *)
(* changes one inventory, and sends one packet.                            *)
(***************************************************************************)
EXTENDS Integers, Sequences, FiniteSetsExt

CONSTANTS
    Pids,         \* the account's players: values of idplayer
    NoPid,        \* the m_data.PlayerID of a session that has loaded nobody
    Indexes,      \* the entries of InitItem
    Plural,       \* those that are counted
    Rides,        \* those of class IC_RIDE
    Slots,        \* the WearIds
    NoSlot,       \* what cannot be worn
    SlotOf,       \* [Indexes -> Slots]: WearId
    WeaponSlot,   \* WS_WEAPON
    ShieldSlot,   \* WS_SHIELD
    TwoHanded,    \* those of kind ISC_SWORD2HAND
    Shields,      \* those of kind ISC_SHIELD
    Bonus,        \* [Indexes -> Nat]: Specialty, one number for all of it
    Permitted,    \* those that class and level of the players let them wear
    FirstRows,    \* the item table at the start
    NoItem,       \* a null pointer to an item
    MaxLocal,     \* bound: local IDs given by one run of the game server
    MaxIid,       \* bound: rows ever inserted
    MaxUid,       \* bound: connections in one run of the game server
    MaxNum,       \* bound: the count of a plural item
    MaxInFlight   \* bound: packets on the link when a request is sent

Iids == 1..MaxIid
Locals == 1..MaxLocal

ItemInfo == [iid : {0} \cup Iids, index : Indexes, num : 1..MaxNum, worn : BOOLEAN]
Row == [pid : Pids, index : Indexes, num : 1..MaxNum, worn : BOOLEAN]

ASSUME PluralAssumption == Plural \subseteq Indexes
ASSUME RidesAssumption  == Rides \subseteq Indexes \ Plural
ASSUME SlotsAssumption  ==
    /\ NoSlot \notin Slots /\ {WeaponSlot, ShieldSlot} \subseteq Slots
    /\ SlotOf \in [Indexes -> Slots \cup {NoSlot}]
    /\ \A i \in Rides \cup Plural : SlotOf[i] = NoSlot
    /\ \A i \in TwoHanded : SlotOf[i] = WeaponSlot
    /\ \A i \in Shields : SlotOf[i] = ShieldSlot
ASSUME BonusAssumption  == Bonus \in [Indexes -> Nat]
ASSUME NoPidAssumption  == NoPid \notin Pids
ASSUME NoItemAssumption == NoItem \notin Nat
ASSUME RowsAssumption   ==
    /\ DOMAIN FirstRows = 1..Cardinality(DOMAIN FirstRows)
    /\ DOMAIN FirstRows \subseteq Iids
    /\ FirstRows \in [DOMAIN FirstRows -> Row]
ASSUME BoundsAssumption ==
    {MaxLocal, MaxIid, MaxUid, MaxNum, MaxInFlight} \subseteq Nat \ {0}

VARIABLES
    conn,       \* whether the account has a connection
    uid,        \* the UID of that connection, or of the last one
    roles,      \* its roles, of which LOBBY, LOADING and INGAME matter here
    pid,        \* m_data.PlayerID
    bag,        \* m_inventory
    nextLocal,  \* the last local ID given: g_max_local_id
    rows,       \* [IIDs -> Row]: the item table
    nextIid,    \* its next AUTO_INCREMENT value
    s2d,        \* packets to the database server, in order
    d2s,        \* packets to the game server, in order
    \* History: no code reads these.
    awaiting,   \* S2D_LOADPLAYER requests of this connection without answer
    loaded,     \* whether items have been loaded since the bag was last emptied
    lost,       \* local IDs of items that were changed while their IID was 0
    origin,     \* [IIDs -> Locals]: the item a row was last in memory as
    mixed,      \* whether a load was asked for or answered out of turn: while there
                \* were items, or another load, or the player was in the game
    early       \* whether an item was put on by a player whose items were not loaded

game == <<conn, uid, roles, pid, bag, nextLocal>>
history == <<awaiting, loaded, lost, origin, mixed, early>>
vars == <<game, rows, nextIid, s2d, d2s, history>>

-----------------------------------------------------------------------------
(* class Inventory.  A bag holds m_items, m_wear_items and m_ride; shown is *)
(* what m_equipment shows (an array, of which all equal entries are removed *)
(* at once); bonus is the sum in m_stats, m_hp, m_def and the like.         *)

EmptyBag == [items |-> <<>>, wear |-> [s \in Slots |-> NoItem],
             ride |-> NoItem, shown |-> {}, bonus |-> 0]

Wearable(i) == SlotOf[i] # NoSlot

\* What a player may wear at one time: one item in a slot, one ride, and no
\* shield beside a two-handed sword.
Together(i, j) ==
    /\ Wearable(i) => SlotOf[i] # SlotOf[j]
    /\ ~(i \in Rides /\ j \in Rides)
    /\ ~(i \in TwoHanded /\ j \in Shields)

\* The item table has been written by this program.
ASSUME FirstRowsAssumption ==
    \A i \in DOMAIN FirstRows : FirstRows[i].worn =>
        /\ Wearable(FirstRows[i].index) \/ FirstRows[i].index \in Rides
        /\ \A j \in DOMAIN FirstRows \ {i} :
              FirstRows[j].worn /\ FirstRows[j].pid = FirstRows[i].pid
                  => Together(FirstRows[i].index, FirstRows[j].index)

\* The entries of new added to the map old.
Added(new, old) == [k \in DOMAIN new \cup DOMAIN old |->
                       IF k \in DOMAIN new THEN new[k] ELSE old[k]]

BonusOf(items, L) == MapThenSumSet(LAMBDA l : Bonus[items[l].index], L)

\* The later of the new items that claim one pointer is left in it.
Claimed(L, old) == IF L = {} THEN old ELSE Max(L)

\* Insert, for one item after another in the order of their local IDs.
Insert(b, new) ==
    LET worn == {l \in DOMAIN new : new[l].worn /\ Wearable(new[l].index)}
        ridden == {l \in DOMAIN new : new[l].worn /\ new[l].index \in Rides}
    IN  [items |-> Added(new, b.items),
         wear  |-> [s \in Slots |->
                      Claimed({l \in worn : SlotOf[new[l].index] = s}, b.wear[s])],
         ride  |-> Claimed(ridden, b.ride),
         shown |-> b.shown \cup {new[l].index : l \in worn \cup ridden},
         bonus |-> (b.bonus + BonusOf(new, worn)) % 65536]

\* Inventory::operator= of a fresh inventory, as ResetStates does it.
Reset == EmptyBag

FindByIndex(b, i) == {l \in DOMAIN b.items : b.items[l].index = i}

\* Variant: Trash does not look at ITEM_PUTON.
CanTrashWorn(b, l) == l \in DOMAIN b.items

CanTrash(b, l) == l \in DOMAIN b.items /\ ~b.items[l].worn

Trash(b, l) == [b EXCEPT !.items = [k \in DOMAIN b.items \ {l} |-> b.items[k]]]

\* Variant: the shield in the other hand is not looked for.
CanPutOnTwoHanded(b, l) ==
    LET i == b.items[l].index IN
    /\ l \in DOMAIN b.items /\ ~b.items[l].worn
    /\ \/ i \in Rides /\ b.ride = NoItem
       \/ Wearable(i) /\ b.wear[SlotOf[i]] = NoItem

CanPutOn(b, l) ==
    LET i == b.items[l].index IN
    /\ l \in DOMAIN b.items /\ ~b.items[l].worn
    /\ \/ i \in Rides /\ b.ride = NoItem
       \/ /\ Wearable(i)
          /\ i \in TwoHanded => b.wear[ShieldSlot] = NoItem
          /\ i \in Shields /\ b.wear[WeaponSlot] # NoItem
                => b.items[b.wear[WeaponSlot]].index \notin TwoHanded
          /\ b.wear[SlotOf[i]] = NoItem

PutOn(b, l) ==
    LET i == b.items[l].index
        flagged == [b EXCEPT !.items[l].worn = TRUE, !.shown = @ \cup {i}]
    IN  IF i \in Rides THEN [flagged EXCEPT !.ride = l]
        ELSE [flagged EXCEPT !.wear[SlotOf[i]] = l,
                             !.bonus = (@ + Bonus[i]) % 65536]

CanPutOff(b, l) ==
    /\ l \in DOMAIN b.items /\ b.items[l].worn
    /\ b.items[l].index \in Rides => b.ride # NoItem

\* Variant: FreeSpecialty is not called.
PutOffKeepsBonus(b, l) ==
    LET i == b.items[l].index
        flagged == [b EXCEPT !.items[l].worn = FALSE, !.shown = @ \ {i}]
    IN  IF i \in Rides THEN [flagged EXCEPT !.ride = NoItem]
        ELSE [flagged EXCEPT !.wear[SlotOf[i]] = NoItem]

PutOff(b, l) ==
    LET i == b.items[l].index
        flagged == [b EXCEPT !.items[l].worn = FALSE, !.shown = @ \ {i}]
    IN  IF i \in Rides THEN [flagged EXCEPT !.ride = NoItem]
        ELSE [flagged EXCEPT !.wear[SlotOf[i]] = NoItem,
                             !.bonus = (@ - Bonus[i]) % 65536]

-----------------------------------------------------------------------------
(* What the handlers share.                                                 *)

Init ==
    /\ conn = FALSE /\ uid = 0 /\ roles = {} /\ pid = NoPid
    /\ bag = EmptyBag /\ nextLocal = 0
    /\ rows = FirstRows /\ nextIid = Cardinality(DOMAIN FirstRows) + 1
    /\ s2d = <<>> /\ d2s = <<>>
    /\ awaiting = 0 /\ loaded = FALSE /\ lost = {} /\ origin = <<>> /\ mixed = FALSE
    /\ early = FALSE

CanHandle(required) == conn /\ required \subseteq roles

CanRequest == Len(s2d) + Len(d2s) < MaxInFlight

Send(packet) == s2d' = Append(s2d, packet)

\* An item that changes in memory while its row cannot be named.
Lose(l) == lost' = IF bag.items[l].iid = 0 THEN lost \cup {l} ELSE lost

-----------------------------------------------------------------------------
(* The life of the connection, as far as it decides what is in m_inventory. *)

\* A new Player object, whose log-in is answered with the list of players.
Connect ==
    /\ ~conn /\ uid < MaxUid /\ CanRequest
    /\ conn' = TRUE
    /\ uid' = uid + 1
    /\ Send([type |-> "S2D_PLAYERS", uid |-> uid + 1])
    /\ UNCHANGED <<roles, pid, bag, nextLocal, rows, nextIid, d2s, history>>

\* S2D_NEWPLAYER, S2D_DELPLAYER and S2D_RESTOREPLAYER are answered with the
\* list as well.
OnPlayersRequest ==
    /\ CanHandle({"LOBBY"}) /\ CanRequest
    /\ Send([type |-> "S2D_PLAYERS", uid |-> uid])
    /\ UNCHANGED <<game, rows, nextIid, d2s, history>>

\* p is what the client sends: it may be a player who is deleted, or one of
\* another account, for whom NoPid stands.
OnLoadPlayerRequest(p) ==
    /\ CanHandle({"LOBBY"}) /\ CanRequest
    /\ nextLocal + MaxIid * (awaiting + 1) <= MaxLocal
    /\ roles' = (roles \cup {"LOADING"}) \ {"LOBBY"}
    /\ Send([type |-> "S2D_LOADPLAYER", uid |-> uid, pid |-> p])
    /\ awaiting' = awaiting + 1
    /\ mixed' = (mixed \/ awaiting > 0 \/ DOMAIN bag.items # {})
    /\ UNCHANGED <<conn, uid, pid, bag, nextLocal, rows, nextIid, d2s, loaded, lost, origin, early>>

\* World::Add throws for a player who is in the world: see Session.
OnStart ==
    /\ CanHandle({"LOADING"}) /\ "INGAME" \notin roles
    /\ roles' = (roles \cup {"INGAME"}) \ {"LOADING"}
    /\ UNCHANGED <<conn, uid, pid, bag, nextLocal, rows, nextIid, s2d, d2s, history>>

OnRestart ==
    /\ CanHandle({"INGAME"}) /\ CanRequest
    /\ bag' = Reset
    /\ roles' = roles \ {"INGAME"}
    /\ Send([type |-> "S2D_PLAYERS", uid |-> uid])
    /\ loaded' = FALSE
    /\ UNCHANGED <<conn, uid, pid, nextLocal, rows, nextIid, d2s, awaiting, lost, origin, mixed, early>>

\* The Player object is destroyed with its session.
OnDisconnected ==
    /\ conn
    /\ conn' = FALSE /\ roles' = {} /\ pid' = NoPid /\ bag' = EmptyBag
    /\ awaiting' = 0 /\ loaded' = FALSE
    /\ UNCHANGED <<uid, nextLocal, rows, nextIid, s2d, d2s, lost, origin, mixed, early>>

\* The game server dies and is started again; what the database server has
\* not read by then is lost.
Crash ==
    /\ conn' = FALSE /\ roles' = {} /\ pid' = NoPid /\ bag' = EmptyBag
    /\ uid' = 0 /\ nextLocal' = 0
    /\ s2d' = <<>> /\ d2s' = <<>>
    /\ awaiting' = 0 /\ loaded' = FALSE /\ lost' = {} /\ origin' = <<>>
    /\ UNCHANGED <<rows, nextIid, mixed, early>>

-----------------------------------------------------------------------------
(* The handlers that change items.                                          *)

\* Variant: the database is told what was added, not the sum.
AddToItemSendsAdded(i, num) ==
    /\ i \in Plural
    /\ \E l \in FindByIndex(bag, i) :
          LET total == bag.items[l].num + num IN
          /\ total <= MaxNum
          /\ bag' = [bag EXCEPT !.items[l].num = total]
          /\ Send([type |-> "S2D_UPDATEITEMNUM", iid |-> bag.items[l].iid, num |-> num])
          /\ Lose(l)
    /\ UNCHANGED <<conn, uid, roles, pid, nextLocal, rows, nextIid, d2s,
                   awaiting, loaded, origin, mixed, early>>

\* InsertItem for a counted item that is there already.
AddToItem(i, num) ==
    /\ i \in Plural
    /\ \E l \in FindByIndex(bag, i) :
          LET total == bag.items[l].num + num IN
          /\ total <= MaxNum
          /\ bag' = [bag EXCEPT !.items[l].num = total]
          /\ Send([type |-> "S2D_UPDATEITEMNUM", iid |-> bag.items[l].iid, num |-> total])
          /\ Lose(l)
    /\ UNCHANGED <<conn, uid, roles, pid, nextLocal, rows, nextIid, d2s,
                   awaiting, loaded, origin, mixed, early>>

\* InsertItem for any other, with a row still to be made for it.
NewItem(i, num) ==
    LET l == nextLocal + 1
        count == IF i \in Plural THEN num ELSE 1
        info == [iid |-> 0, index |-> i, num |-> count, worn |-> FALSE]
    IN
    /\ i \in Plural => FindByIndex(bag, i) = {}
    /\ l + MaxIid * awaiting <= MaxLocal
    /\ nextIid + Len(SelectSeq(s2d, LAMBDA m : m.type = "S2D_INSERTITEM")) <= MaxIid
    /\ nextLocal' = l
    /\ bag' = Insert(bag, [k \in {l} |-> info])
    /\ Send([type |-> "S2D_INSERTITEM", uid |-> uid, local |-> l, pid |-> pid,
             index |-> i, num |-> count])
    /\ mixed' = (mixed \/ awaiting > 0)
    /\ UNCHANGED <<conn, uid, roles, pid, rows, nextIid, d2s, awaiting, loaded, lost, origin, early>>

\* OnGetItem and OnPickUpItem; picking up asks for no role.  (A session that
\* has loaded nobody would name a player who is not in the table.)
InsertItem(i, num) ==
    /\ CanHandle({}) /\ pid # NoPid /\ CanRequest
    /\ AddToItem(i, num) \/ NewItem(i, num)

\* Variant: GetIID is called after Trash, and finds no item.
OnTrashItemIidLate(l) ==
    /\ CanHandle({"INGAME"}) /\ CanRequest
    /\ CanTrash(bag, l)
    /\ bag' = Trash(bag, l)
    /\ Send([type |-> "S2D_TRASHITEM", iid |-> 0])
    /\ Lose(l)
    /\ UNCHANGED <<conn, uid, roles, pid, nextLocal, rows, nextIid, d2s,
                   awaiting, loaded, origin, mixed, early>>

OnTrashItem(l) ==
    /\ CanHandle({"INGAME"}) /\ CanRequest
    /\ CanTrash(bag, l)
    /\ bag' = Trash(bag, l)
    /\ Send([type |-> "S2D_TRASHITEM", iid |-> bag.items[l].iid])
    /\ Lose(l)
    /\ UNCHANGED <<conn, uid, roles, pid, nextLocal, rows, nextIid, d2s,
                   awaiting, loaded, origin, mixed, early>>

SendInfo(l, worn) ==
    Send([type |-> "S2D_UPDATEITEMINFO", iid |-> bag.items[l].iid, worn |-> worn])

OnPutOnItem(l) ==
    /\ CanHandle({"INGAME"}) /\ CanRequest
    /\ CanPutOn(bag, l) /\ bag.items[l].index \in Permitted
    /\ bag' = PutOn(bag, l)
    /\ SendInfo(l, TRUE)
    /\ Lose(l)
    /\ early' = (early \/ ~loaded)
    /\ UNCHANGED <<conn, uid, roles, pid, nextLocal, rows, nextIid, d2s, awaiting, loaded, origin, mixed>>

OnPutOffItem(l) ==
    /\ CanHandle({"INGAME"}) /\ CanRequest
    /\ CanPutOff(bag, l)
    /\ bag' = PutOff(bag, l)
    /\ SendInfo(l, FALSE)
    /\ Lose(l)
    /\ UNCHANGED <<conn, uid, roles, pid, nextLocal, rows, nextIid, d2s,
                   awaiting, loaded, origin, mixed, early>>

-----------------------------------------------------------------------------
(* The database server: one packet of the link after another.               *)

Received(t) == s2d # <<>> /\ Head(s2d).type = t

Reply(packets) ==
    /\ s2d' = Tail(s2d)
    /\ d2s' = d2s \o packets
    /\ UNCHANGED <<game, history>>

RowsOf(p) == {i \in DOMAIN rows : rows[i].pid = p}

\* SendPlayerList, at a log-in, a restart or a change of the list.
DbPlayers ==
    /\ Received("S2D_PLAYERS")
    /\ Reply(<<[type |-> "D2S_PLAYER_INFO", uid |-> Head(s2d).uid]>>)
    /\ UNCHANGED <<rows, nextIid>>

\* LoadPlayer and LoadItems; a refusal (the answer 1) has no items after it.
DbLoadPlayer ==
    LET m == Head(s2d) IN
    /\ Received("S2D_LOADPLAYER")
    /\ Reply(IF m.pid \in Pids
             THEN <<[type |-> "D2S_LOADPLAYER", uid |-> m.uid, pid |-> m.pid],
                    [type |-> "D2S_LOADITEMS", uid |-> m.uid,
                     rows |-> [i \in RowsOf(m.pid) |-> rows[i]]]>>
             ELSE <<[type |-> "D2S_LOADPLAYER", uid |-> m.uid, pid |-> NoPid]>>)
    /\ UNCHANGED <<rows, nextIid>>

DbInsertItem ==
    LET m == Head(s2d)
        row == [pid |-> m.pid, index |-> m.index, num |-> m.num, worn |-> FALSE]
    IN
    /\ Received("S2D_INSERTITEM")
    /\ rows' = Added([i \in {nextIid} |-> row], rows)
    /\ nextIid' = nextIid + 1
    /\ origin' = Added([i \in {nextIid} |-> m.local], origin)
    /\ s2d' = Tail(s2d)
    /\ d2s' = Append(d2s, [type |-> "D2S_UPDATEITEMIID", uid |-> m.uid,
                           local |-> m.local, iid |-> nextIid])
    /\ UNCHANGED <<game, awaiting, loaded, lost, mixed, early>>

\* An UPDATE or DELETE of an IID that is in no row changes nothing.
DbUpdateItemNum ==
    LET m == Head(s2d) IN
    /\ Received("S2D_UPDATEITEMNUM")
    /\ rows' = IF m.iid \in DOMAIN rows THEN [rows EXCEPT ![m.iid].num = m.num] ELSE rows
    /\ Reply(<<>>)
    /\ UNCHANGED nextIid

DbUpdateItemInfo ==
    LET m == Head(s2d) IN
    /\ Received("S2D_UPDATEITEMINFO")
    /\ rows' = IF m.iid \in DOMAIN rows THEN [rows EXCEPT ![m.iid].worn = m.worn] ELSE rows
    /\ Reply(<<>>)
    /\ UNCHANGED nextIid

DbTrashItem ==
    /\ Received("S2D_TRASHITEM")
    /\ rows' = [i \in DOMAIN rows \ {Head(s2d).iid} |-> rows[i]]
    /\ Reply(<<>>)
    /\ UNCHANGED nextIid

-----------------------------------------------------------------------------
(* The callbacks of the database connection.  for_each finds no session     *)
(* with the UID of one that has ended.                                      *)

Answered(t) == d2s # <<>> /\ Head(d2s).type = t

ForUid == conn /\ Head(d2s).uid = uid

ListenerDropped ==
    /\ d2s # <<>> /\ ~ForUid
    /\ d2s' = Tail(d2s)
    /\ UNCHANGED <<game, rows, nextIid, s2d, history>>

OnPlayerInfo ==
    /\ Answered("D2S_PLAYER_INFO") /\ ForUid
    /\ roles' = roles \cup {"LOBBY"}
    /\ d2s' = Tail(d2s)
    /\ UNCHANGED <<conn, uid, pid, bag, nextLocal, rows, nextIid, s2d, history>>

\* Of a refusal the client is told, and nothing changes: the PlayerID is the
\* one of the load before, and the role LOADING stays.
OnLoadPlayer ==
    /\ Answered("D2S_LOADPLAYER") /\ ForUid
    /\ \/ /\ Head(d2s).pid # NoPid
          /\ pid' = Head(d2s).pid
          /\ UNCHANGED awaiting
       \/ /\ Head(d2s).pid = NoPid
          /\ awaiting' = awaiting - 1
          /\ UNCHANGED pid
    /\ d2s' = Tail(d2s)
    /\ UNCHANGED <<conn, uid, roles, bag, nextLocal, rows, nextIid, s2d, loaded, lost, origin, mixed, early>>

\* OnLoadItems numbers the items in the order of the packet.
OnLoadItems ==
    LET sent == Head(d2s).rows
        local == [i \in DOMAIN sent |->
                    nextLocal + Cardinality({j \in DOMAIN sent : j <= i})]
        new == [l \in {local[i] : i \in DOMAIN sent} |->
                  LET i == CHOOSE j \in DOMAIN sent : local[j] = l IN
                  [iid |-> i, index |-> sent[i].index, num |-> sent[i].num,
                   worn |-> sent[i].worn]]
    IN
    /\ Answered("D2S_LOADITEMS") /\ ForUid
    /\ bag' = Insert(bag, new)
    /\ nextLocal' = nextLocal + Cardinality(DOMAIN sent)
    /\ awaiting' = awaiting - 1
    /\ loaded' = TRUE
    /\ origin' = Added(local, origin)
    /\ mixed' = (mixed \/ "INGAME" \in roles \/ DOMAIN bag.items # {})
    /\ d2s' = Tail(d2s)
    /\ UNCHANGED <<conn, uid, roles, pid, rows, nextIid, s2d, lost, early>>

\* UpdateItemIID of an item that is no longer in m_items does nothing.
OnUpdateItemIID ==
    LET m == Head(d2s) IN
    /\ Answered("D2S_UPDATEITEMIID") /\ ForUid
    /\ bag' = IF m.local \in DOMAIN bag.items
              THEN [bag EXCEPT !.items[m.local].iid = m.iid] ELSE bag
    /\ d2s' = Tail(d2s)
    /\ UNCHANGED <<conn, uid, roles, pid, nextLocal, rows, nextIid, s2d, history>>

-----------------------------------------------------------------------------
\* Both servers read what arrives on the link.
Db == DbPlayers \/ DbLoadPlayer \/ DbInsertItem \/ DbUpdateItemNum
      \/ DbUpdateItemInfo \/ DbTrashItem

Listener == ListenerDropped \/ OnPlayerInfo \/ OnLoadPlayer \/ OnLoadItems
            \/ OnUpdateItemIID

Next ==
    \/ Connect \/ OnPlayersRequest \/ OnStart \/ OnRestart \/ OnDisconnected \/ Crash
    \/ \E p \in Pids \cup {NoPid} : OnLoadPlayerRequest(p)
    \/ \E i \in Indexes : InsertItem(i, 1)
    \/ \E l \in Locals : OnTrashItem(l) \/ OnPutOnItem(l) \/ OnPutOffItem(l)
    \/ Db \/ Listener

Spec == Init /\ [][Next]_vars

-----------------------------------------------------------------------------
(* Properties.                                                              *)

\* The values of the variables: the types of uid, roles, m_data.PlayerID, of
\* the inventory and of the item table.
TypeOK ==
    /\ conn \in BOOLEAN /\ uid \in 0..MaxUid
    /\ roles \subseteq {"LOBBY", "LOADING", "INGAME"}
    /\ pid \in Pids \cup {NoPid}
    /\ DOMAIN bag.items \subseteq 1..nextLocal
    /\ \A l \in DOMAIN bag.items : bag.items[l] \in ItemInfo
    /\ bag.wear \in [Slots -> Locals \cup {NoItem}]
    /\ bag.ride \in Locals \cup {NoItem}
    /\ bag.shown \subseteq Indexes /\ bag.bonus \in 0..65535
    /\ nextLocal \in 0..MaxLocal
    /\ nextIid \in 1..MaxIid + 1
    /\ DOMAIN rows \subseteq 1..nextIid - 1
    /\ \A i \in DOMAIN rows : rows[i] \in Row
    /\ awaiting \in Nat /\ lost \subseteq 1..nextLocal
    /\ {loaded, mixed, early} \subseteq BOOLEAN

\* What the database server will have done when it has read all of s2d.
Pending(t, i) == {k \in DOMAIN s2d : s2d[k].type = t /\ s2d[k].iid = i}

Kept(i) == i \in DOMAIN rows /\ Pending("S2D_TRASHITEM", i) = {}

NumAfter(i) ==
    LET K == Pending("S2D_UPDATEITEMNUM", i) IN
    IF K = {} THEN rows[i].num ELSE s2d[Max(K)].num

WornAfter(i) ==
    LET K == Pending("S2D_UPDATEITEMINFO", i) IN
    IF K = {} THEN rows[i].worn ELSE s2d[Max(K)].worn

\* What the player owns is what the database will hold: an item whose IID is
\* known has a row, of the same index, and once the packets on the link are
\* read with the same number and the same ITEM_PUTON.  Two things may break
\* it: a change made while the IID was 0 (it is lost for good), and a load out of
\* turn: one that is asked for or not answered yet while there are items, or while
\* another load is not answered, or answered while the player is in the game.
RowsFollowInventory ==
    ~mixed => \A l \in DOMAIN bag.items \ lost :
        LET it == bag.items[l] IN
        it.iid # 0 =>
            /\ Kept(it.iid)
            /\ rows[it.iid].index = it.index
            /\ NumAfter(it.iid) = it.num
            /\ WornAfter(it.iid) = it.worn

\* The IID of a row is on its way to the item it was made for.
IidOnItsWay(i) ==
    \E k \in DOMAIN d2s :
        /\ d2s[k].type = "D2S_UPDATEITEMIID" /\ d2s[k].iid = i
        /\ d2s[k].local \in DOMAIN bag.items

\* Nothing comes back: while a player is in the game and his items have been
\* loaded, each of his rows that will be kept belongs to an item that he has,
\* so that loading him again brings no item that he had trashed.  The
\* exception is an item trashed or changed while its IID was 0.  (START does not
\* ask whether they have been loaded: after a load that is refused there are none.)
InventoryHoldsRows ==
    ~mixed /\ "INGAME" \in roles /\ loaded /\ awaiting = 0 =>
        \A i \in RowsOf(pid) :
            \/ ~Kept(i)
            \/ \E l \in DOMAIN bag.items : bag.items[l].iid = i
            \/ IidOnItsWay(i)
            \/ i \in DOMAIN origin /\ origin[i] \in lost

\* m_wear_items, m_ride and m_equipment agree with the ITEM_PUTON flags: a
\* flagged item is in its slot (what PutOff asserts), a slot holds a flagged
\* item that is in m_items, and others are shown the indexes of these.  Loads out
\* of turn break it, and so does a table with two worn items in a slot, which a
\* player can make who starts after a refusal: he puts on an item while the one
\* he had left there has not been loaded.
WearMatchesFlags ==
    ~mixed /\ ~early =>
        LET worn == {l \in DOMAIN bag.items : bag.items[l].worn} IN
        /\ \A l \in worn : \/ bag.items[l].index \in Rides /\ bag.ride = l
                          \/ /\ Wearable(bag.items[l].index)
                             /\ bag.wear[SlotOf[bag.items[l].index]] = l
        /\ \A s \in Slots : bag.wear[s] \in worn \cup {NoItem}
        /\ bag.ride \in worn \cup {NoItem}
        /\ bag.shown = {bag.items[l].index : l \in worn}

\* ApplySpecialty and FreeSpecialty are called in pairs: the sums hold exactly
\* what the flagged items give, however the items came into the inventory.
BonusMatchesWorn ==
    bag.bonus = BonusOf(bag.items, {l \in DOMAIN bag.items :
                                      bag.items[l].worn /\ Wearable(bag.items[l].index)})
                % 65536

\* In the item table, whatever part of the updates has reached it when the
\* game server dies: a player wears at most one item in a slot, rides at most
\* one, and has no shield beside a two-handed sword.  Insert relies on it.  The
\* exceptions are those of WearMatchesFlags.
RowsWearable ==
    ~mixed /\ ~early => \A p \in Pids : \A i, j \in RowsOf(p) :
        rows[i].worn /\ rows[j].worn /\ i # j => Together(rows[i].index, rows[j].index)

\* Refuted.  "assert(m_wear_items[item->GetInit().WearId] != nullptr)": an item
\* that is put off is in the slot it is taken from.
PutOffFindsItem ==
    \A l \in DOMAIN bag.items :
        bag.items[l].worn /\ Wearable(bag.items[l].index)
            => bag.wear[SlotOf[bag.items[l].index]] # NoItem

=============================================================================
