----------------------------- MODULE ItemsProofs -----------------------------
(***************************************************************************)
(* Proofs about Items, for any players, indexes and slots.                 *)
(***************************************************************************)
EXTENDS Items, SequenceTheorems, FiniteSetTheorems, WellFoundedInduction, TLAPS

\* Maps from numbers; the packets of the link.
Maps(S) == UNION {[D -> S] : D \in SUBSET (Nat \ {0})}

Info == [iid : Nat, index : Indexes, num : 1..MaxNum, worn : BOOLEAN]

ToDb == [type : {"S2D_PLAYERS"}, uid : Nat]
        \cup [type : {"S2D_LOADPLAYER"}, uid : Nat, pid : Pids \cup {NoPid}]
        \cup [type : {"S2D_INSERTITEM"}, uid : Nat, local : Nat, pid : Pids,
              index : Indexes, num : 1..MaxNum]
        \cup [type : {"S2D_UPDATEITEMNUM"}, iid : Nat, num : 1..MaxNum]
        \cup [type : {"S2D_UPDATEITEMINFO"}, iid : Nat, worn : BOOLEAN]
        \cup [type : {"S2D_TRASHITEM"}, iid : Nat]

ToGame == [type : {"D2S_PLAYER_INFO"}, uid : Nat]
          \cup [type : {"D2S_LOADPLAYER"}, uid : Nat, pid : Pids \cup {NoPid}]
          \cup [type : {"D2S_LOADITEMS"}, uid : Nat, rows : Maps(Row)]
          \cup [type : {"D2S_UPDATEITEMIID"}, uid : Nat, local : Nat, iid : Nat]

Bag == [items : Maps(Info), wear : [Slots -> Nat \cup {NoItem}], ride : Nat \cup {NoItem},
        shown : SUBSET Indexes, bonus : Int]

Naming == {"S2D_UPDATEITEMNUM", "S2D_UPDATEITEMINFO", "S2D_TRASHITEM"}
CanBeWorn(i) == Wearable(i) \/ i \in Rides

\* s2d[k] is of a type; d2s[k] is.
Up(t, k) == k \in DOMAIN s2d /\ s2d[k].type = t
Down(t, k) == k \in DOMAIN d2s /\ d2s[k].type = t
Names(k, i) == k \in DOMAIN s2d /\ s2d[k].type \in Naming /\ s2d[k].iid = i

TypesInv ==
    /\ conn \in BOOLEAN /\ uid \in Nat /\ roles \subseteq {"LOBBY", "LOADING", "INGAME"}
    /\ pid \in Pids \cup {NoPid}
    /\ bag \in Bag
    /\ nextLocal \in Nat /\ nextIid \in Nat \ {0}
    /\ rows \in Maps(Row)
    /\ s2d \in Seq(ToDb) /\ d2s \in Seq(ToGame)
    /\ awaiting \in Int /\ loaded \in BOOLEAN /\ mixed \in BOOLEAN /\ early \in BOOLEAN
    /\ lost \subseteq Nat
    /\ origin \in Maps(Nat)

\* Numbers in the inventory, the table and on the link have been given.
BagNumbers == \A l \in DOMAIN bag.items : l <= nextLocal /\ bag.items[l].iid < nextIid

RowNumbers == \A i \in DOMAIN rows : i < nextIid

UpGiven(m, u, l, i) ==
    /\ m.type \in Naming => m.iid < i
    /\ m.type \notin Naming => m.uid <= u
    /\ m.type = "S2D_INSERTITEM" => m.local <= l

DownGiven(m, u, l, i) ==
    /\ m.uid <= u
    /\ m.type = "D2S_UPDATEITEMIID" => m.local <= l /\ m.iid \in 1 .. i - 1
    /\ m.type = "D2S_LOADITEMS" => \A j \in DOMAIN m.rows : j < i

UpNumbers == \A k \in DOMAIN s2d : UpGiven(s2d[k], uid, nextLocal, nextIid)
DownNumbers == \A k \in DOMAIN d2s : DownGiven(d2s[k], uid, nextLocal, nextIid)

\* A new item is named once.
NamedOnce ==
    /\ \A k, j : Up("S2D_INSERTITEM", k) /\ Up("S2D_INSERTITEM", j) /\ j # k
                    => s2d[k].local # s2d[j].local
    /\ \A k, j : Up("S2D_INSERTITEM", k) /\ Down("D2S_UPDATEITEMIID", j)
                    => s2d[k].local # d2s[j].local
    /\ \A k, j : Down("D2S_UPDATEITEMIID", k) /\ Down("D2S_UPDATEITEMIID", j) /\ j # k
                    => d2s[k].local # d2s[j].local /\ d2s[k].iid # d2s[j].iid

\* A player is followed by his items, and a refusal is not.
ItemsFollow ==
    \A k : Down("D2S_LOADPLAYER", k) /\ d2s[k].pid # NoPid =>
        Down("D2S_LOADITEMS", k + 1) /\ d2s[k + 1].uid = d2s[k].uid

NumbersInv == BagNumbers /\ RowNumbers /\ UpNumbers /\ DownNumbers /\ NamedOnce /\ ItemsFollow

\* An IID stands for the same kind of item everywhere, and what is worn can be worn.
BagKinds == \A l \in DOMAIN bag.items : bag.items[l].iid \in DOMAIN rows =>
    rows[bag.items[l].iid].index = bag.items[l].index

BagWearable == \A l \in DOMAIN bag.items : bag.items[l].worn => CanBeWorn(bag.items[l].index)

TableWearable == \A i \in DOMAIN rows : rows[i].worn => CanBeWorn(rows[i].index)

InfoKinds == \A k : Up("S2D_UPDATEITEMINFO", k) /\ s2d[k].worn /\ s2d[k].iid \in DOMAIN rows =>
    CanBeWorn(rows[s2d[k].iid].index)

InsertKinds == \A k : Up("S2D_INSERTITEM", k) /\ s2d[k].local \in DOMAIN bag.items =>
    s2d[k].index = bag.items[s2d[k].local].index

AnswerKinds == \A k : Down("D2S_UPDATEITEMIID", k) /\ d2s[k].local \in DOMAIN bag.items
                         /\ d2s[k].iid \in DOMAIN rows =>
    rows[d2s[k].iid].index = bag.items[d2s[k].local].index

LoadKinds == \A k : Down("D2S_LOADITEMS", k) => \A i \in DOMAIN d2s[k].rows :
    /\ i \in DOMAIN rows => rows[i].index = d2s[k].rows[i].index
    /\ d2s[k].rows[i].worn => CanBeWorn(d2s[k].rows[i].index)

KindsInv == /\ BagKinds /\ BagWearable /\ TableWearable /\ InfoKinds /\ InsertKinds
            /\ AnswerKinds /\ LoadKinds

\* Without a connection there are no items, and those there are were got by this one.
NoConn == ~conn => awaiting = 0 /\ ~loaded /\ roles = {} /\ bag = EmptyBag

InsertUid == \A k : Up("S2D_INSERTITEM", k) /\ s2d[k].local \in DOMAIN bag.items => s2d[k].uid = uid

AnswerUid == \A k : Down("D2S_UPDATEITEMIID", k) /\ d2s[k].local \in DOMAIN bag.items =>
    d2s[k].uid = uid

ConnInv == NoConn /\ InsertUid /\ AnswerUid

Asked(k) == Up("S2D_LOADPLAYER", k) /\ s2d[k].uid = uid
Refusal(k) == Down("D2S_LOADPLAYER", k) /\ d2s[k].pid = NoPid
Answer(k) == (Down("D2S_LOADITEMS", k) \/ Refusal(k)) /\ d2s[k].uid = uid
Quiet(k) == k \in DOMAIN s2d => s2d[k].type \in {"S2D_PLAYERS", "S2D_LOADPLAYER"}

\* The load that is not answered yet: nothing that is about items follows it, and
\* the answer has the rows of the table.
Unasked == \A k : ~Asked(k) /\ ~Answer(k)

AskedOnce == \A k : Asked(k) =>
    /\ \A j : Asked(j) => j = k
    /\ \A j : ~Answer(j)
    /\ \A j : j > k => Quiet(j)

SameAsTable(sent) == \A i \in DOMAIN sent : i \in DOMAIN rows /\ sent[i] = rows[i]

\* The player of the answer is the session's, or the one the packet before is about.
AnswerPlace(k) ==
    /\ k = 1 => RowsOf(pid) = DOMAIN d2s[k].rows
    /\ k # 1 => /\ Down("D2S_LOADPLAYER", k - 1) /\ ~Refusal(k - 1)
                /\ RowsOf(d2s[k - 1].pid) = DOMAIN d2s[k].rows

AnsweredOnce == \A k : Answer(k) =>
    /\ \A j : Answer(j) => j = k
    /\ \A j : Quiet(j)
    /\ Down("D2S_LOADITEMS", k) => SameAsTable(d2s[k].rows) /\ AnswerPlace(k)

LoadInv ==
    conn /\ ~mixed =>
        \/ awaiting = 0 /\ Unasked
        \/ awaiting = 1 /\ DOMAIN bag.items = {} /\ AskedOnce /\ AnsweredOnce

\* s2d[k] is of a type, about row i; k is the last such of the first n packets, or 0.
For(t, k, i) == Up(t, k) /\ s2d[k].iid = i

Last(t, i, n, k) == /\ k \in 0 .. n /\ (k # 0 => For(t, k, i))
                    /\ \A j : For(t, j, i) /\ j <= n => j <= k

\* Row i, once these packets have been read.
NumIs(i, v) ==
    \E k :
        /\ Last("S2D_UPDATEITEMNUM", i, Len(s2d), k)
        /\ k = 0 => rows[i].num = v
        /\ k # 0 => s2d[k].num = v

WornAt(i, n) ==
    \E k :
        /\ Last("S2D_UPDATEITEMINFO", i, n, k)
        /\ k = 0 => rows[i].worn
        /\ k # 0 => s2d[k].worn

WornEver(i) == WornAt(i, Len(s2d))

Untrashed(i) == \A k : ~For("S2D_TRASHITEM", k, i)
Unnamed(i) == \A k : ~Names(k, i)

\* The row of an item whose IID is known.
RowKnown == \A l \in DOMAIN bag.items : bag.items[l].iid # 0 =>
    /\ bag.items[l].iid \in DOMAIN rows /\ rows[bag.items[l].iid].pid = pid
    /\ Untrashed(bag.items[l].iid)
    /\ \A m \in DOMAIN bag.items : bag.items[m].iid = bag.items[l].iid => m = l

RowFollows == \A l \in DOMAIN bag.items : bag.items[l].iid # 0 /\ l \notin lost =>
    NumIs(bag.items[l].iid, bag.items[l].num) /\ (WornEver(bag.items[l].iid) <=> bag.items[l].worn)

\* The item of a packet that will make its row, or that brings its IID.
InsertAhead == \A k : Up("S2D_INSERTITEM", k) /\ s2d[k].local \in DOMAIN bag.items =>
    LET it == bag.items[s2d[k].local] IN
    /\ it.iid = 0 /\ s2d[k].pid = pid
    /\ s2d[k].local \notin lost => it.num = s2d[k].num /\ ~it.worn

AnswerAhead == \A k : Down("D2S_UPDATEITEMIID", k) /\ d2s[k].local \in DOMAIN bag.items =>
    LET it == bag.items[d2s[k].local] i == d2s[k].iid IN
    /\ it.iid = 0
    /\ i \in DOMAIN rows /\ rows[i].pid = pid /\ ~rows[i].worn
    /\ Unnamed(i)
    /\ \A m \in DOMAIN bag.items : bag.items[m].iid # i
    /\ i \in DOMAIN origin /\ origin[i] = d2s[k].local
    /\ d2s[k].local \notin lost => it.num = rows[i].num /\ ~it.worn

ItemsInv == ~mixed => RowKnown /\ RowFollows /\ InsertAhead /\ AnswerAhead

\* What is in the table, or will be, is in the inventory of the player who is loaded,
\* but where the PlayerID is that of the items that come next.
ItemsNext == Down("D2S_LOADITEMS", 1) /\ d2s[1].uid = uid

Loaded == conn /\ loaded /\ ~ItemsNext

Held(i) == \/ ~Untrashed(i)
           \/ \E l \in DOMAIN bag.items : bag.items[l].iid = i
           \/ IidOnItsWay(i)
           \/ i \in DOMAIN origin /\ origin[i] \in lost

RowsHeld == \A i \in DOMAIN rows : rows[i].pid = pid => Held(i)

InsertsHeld == \A k : Up("S2D_INSERTITEM", k) /\ s2d[k].pid = pid =>
    s2d[k].local \in DOMAIN bag.items \cup lost

WornHeld == \A i \in DOMAIN rows : rows[i].pid = pid /\ WornEver(i) =>
    \E l \in DOMAIN bag.items : bag.items[l].iid = i /\ bag.items[l].worn

HoldInv == ~mixed /\ Loaded => RowsHeld /\ InsertsHeld /\ WornHeld

\* However many of the packets have been read.
RowsInv ==
    ~mixed /\ ~early => \A n \in 0 .. Len(s2d) : \A i, j \in DOMAIN rows :
        i # j /\ rows[i].pid = rows[j].pid /\ WornAt(i, n) /\ WornAt(j, n)
            => Together(rows[i].index, rows[j].index)

\* A flagged item is in its place, and what is in a place is flagged.
Worn(l) == l \in DOMAIN bag.items /\ bag.items[l].worn

WornInPlace == \A l : Worn(l) =>
    LET i == bag.items[l].index IN
    (i \in Rides /\ bag.ride = l) \/ (Wearable(i) /\ bag.wear[SlotOf[i]] = l)

SlotsWorn == \A s \in Slots : bag.wear[s] # NoItem =>
    Worn(bag.wear[s]) /\ SlotOf[bag.items[bag.wear[s]].index] = s

RideWorn == bag.ride # NoItem => Worn(bag.ride) /\ bag.items[bag.ride].index \in Rides

ShownWorn == \A i : i \in bag.shown <=> \E l : Worn(l) /\ bag.items[l].index = i

WearInPlace == WornInPlace /\ SlotsWorn /\ RideWorn /\ ShownWorn

PlaceInv == ~mixed /\ ~early => WearInPlace
-----------------------------------------------------------------------------
(* Sums over finite sets.  The sets grow by one element at a time, and the   *)
(* numbers of elements by one: Induct is what the proofs rest on.            *)

\* A set of numbers that is not empty has a least one.
LEMMA Smallest ==
    ASSUME NEW T \in SUBSET Nat, T # {}
    PROVE  \E m \in T : \A k \in T : m <= k
  <1> DEFINE U == {0 .. n : n \in T}
  <1>1. U \subseteq FiniteSubsetsOf(Nat) /\ U # {}
    <2>1. \A n \in T : 0 .. n \subseteq Nat /\ IsFiniteSet(0 .. n)
      BY FS_Interval
    <2>. QED BY <2>1 DEF FiniteSubsetsOf
  <1>2. PICK x \in U : \A y \in U : <<y, x>> \notin StrictSubsetOrdering(Nat)
    <2> HIDE DEF U
    <2>. QED BY <1>1, FS_StrictSubsetOrderingWellFounded, WFMin
  <1>3. PICK m \in T : x = 0 .. m
    OBVIOUS
  <1>4. ASSUME NEW k \in T, ~(m <= k)
        PROVE  FALSE
    <2>1. 0 .. k \subseteq 0 .. m /\ m \in 0 .. m /\ m \notin 0 .. k
      BY <1>4
    <2>2. 0 .. k \in SUBSET Nat /\ 0 .. m \in SUBSET Nat
      OBVIOUS
    <2>3. <<0 .. k, 0 .. m>> \in StrictSubsetOrdering(Nat)
      BY <2>1, <2>2 DEF StrictSubsetOrdering
    <2>. QED BY <1>2, <1>3, <2>3
  <1>. QED BY <1>4

LEMMA Induct ==
    ASSUME NEW T \in SUBSET Nat, 0 \in T, \A n \in T : n + 1 \in T
    PROVE  T = Nat
<1>. SUFFICES ASSUME Nat \ T # {} PROVE FALSE
  OBVIOUS
<1>1. PICK m \in Nat \ T : \A k \in Nat \ T : m <= k
  BY Smallest
<1>2. m # 0 /\ m - 1 \in Nat /\ m = (m - 1) + 1
  OBVIOUS
<1>3. m - 1 \in T
  BY <1>1, <1>2
<1>. QED  BY <1>2, <1>3

\* MapThenSumSet for a function, and the sets that it is the sum of.
SumOf(f, S) == MapThenSumSet(LAMBDA x : f[x], S)

First(s) == CHOOSE x \in s : TRUE

Adds(it, f, S) ==
    it = [s \in SUBSET S |-> IF s = {} THEN 0 ELSE f[First(s)] + it[s \ {First(s)}]]

LEMMA Fewer ==
    ASSUME NEW U, IsFiniteSet(U), NEW s \in SUBSET U, s # {}
    PROVE  /\ First(s) \in s /\ s \ {First(s)} \in SUBSET U
           /\ Cardinality(s) \in Nat /\ Cardinality(s \ {First(s)}) \in Nat
           /\ Cardinality(s \ {First(s)}) = Cardinality(s) - 1
<1>1. First(s) \in s
  BY DEF First
<1>2. IsFiniteSet(s)
  BY FS_Subset
<1>. QED  BY <1>1, <1>2, FS_RemoveElement, FS_CardinalityType

AddsUpTo(n, it, f, S) ==
    /\ it = [s \in SUBSET S |-> it[s]]
    /\ \A s \in SUBSET S : Cardinality(s) <= n =>
          it[s] = IF s = {} THEN 0 ELSE f[First(s)] + it[s \ {First(s)}]

LEMMA AddsExists ==
    ASSUME NEW U, IsFiniteSet(U), NEW f
    PROVE  \E it : Adds(it, f, U)
<1>. DEFINE T == {n \in Nat : \E it : AddsUpTo(n, it, f, U)}
<1>1. \A s \in SUBSET U : Cardinality(s) \in Nat /\ (Cardinality(s) = 0 <=> s = {})
  BY FS_Subset, FS_CardinalityType, FS_EmptySet
<1>2. 0 \in T
  <2>1. AddsUpTo(0, [s \in SUBSET U |-> 0], f, U)
    BY <1>1 DEF AddsUpTo
  <2>. QED  BY <2>1
<1>3. ASSUME NEW n \in T PROVE n + 1 \in T
  <2>1. PICK it : AddsUpTo(n, it, f, U)
    BY <1>3
  <2>. DEFINE jt == [s \in SUBSET U |-> IF Cardinality(s) <= n THEN it[s]
                                        ELSE f[First(s)] + it[s \ {First(s)}]]
  <2>2. ASSUME NEW s \in SUBSET U, Cardinality(s) <= n + 1
        PROVE  jt[s] = IF s = {} THEN 0 ELSE f[First(s)] + jt[s \ {First(s)}]
    <3>1. CASE s = {}
      <4>1. Cardinality(s) <= n
        BY <1>1, <3>1
      <4>. QED  BY <2>1, <4>1, <3>1 DEF AddsUpTo
    <3>2. CASE s # {}
      <4>1. s \ {First(s)} \in SUBSET U /\ Cardinality(s \ {First(s)}) <= n
        BY <2>2, <3>2, Fewer
      <4>2. jt[s \ {First(s)}] = it[s \ {First(s)}]
        BY <4>1
      <4>. QED  BY <2>1, <3>2, <4>2 DEF AddsUpTo
    <3>. QED  BY <3>1, <3>2
  <2>3. jt = [s \in SUBSET U |-> jt[s]]
    OBVIOUS
  <2>. HIDE DEF jt
  <2>4. AddsUpTo(n + 1, jt, f, U)
    BY <2>2, <2>3 DEF AddsUpTo
  <2>. QED  BY <2>4
<1>4. T = Nat
  BY <1>2, <1>3, Induct
<1>5. PICK it : AddsUpTo(Cardinality(U), it, f, U)
  BY <1>1, <1>4
<1>6. \A s \in SUBSET U : Cardinality(s) <= Cardinality(U)
  BY FS_Subset
<1>. QED  BY <1>5, <1>6 DEF Adds, AddsUpTo

LEMMA SumAdds ==
    ASSUME NEW U, IsFiniteSet(U), NEW f
    PROVE  \E it : Adds(it, f, U) /\ SumOf(f, U) = it[U]
<1>1. SumOf(f, U) = (CHOOSE it : Adds(it, f, U))[U]
  BY DEF SumOf, MapThenSumSet, MapThenFoldSet, Adds, First
<1>. QED  BY <1>1, AddsExists

LEMMA AddsStep ==
    ASSUME NEW U, NEW f, NEW it, Adds(it, f, U)
    PROVE  \A s \in SUBSET U :
              it[s] = IF s = {} THEN 0 ELSE f[First(s)] + it[s \ {First(s)}]
BY DEF Adds

\* Sums depend on the values in the set only.
LEMMA SameAdds ==
    ASSUME NEW U, NEW V, IsFiniteSet(U), IsFiniteSet(V), NEW f, NEW g, NEW it, NEW jt,
           Adds(it, f, U), Adds(jt, g, V)
    PROVE  \A s \in SUBSET (U \cap V) : (\A x \in s : f[x] = g[x]) => it[s] = jt[s]
<1>. DEFINE Same(s) == (\A x \in s : f[x] = g[x]) => it[s] = jt[s]
            T == {n \in Nat : \A s \in SUBSET (U \cap V) : Cardinality(s) = n => Same(s)}
<1>1. IsFiniteSet(U \cap V) /\ \A s \in SUBSET (U \cap V) : s \in SUBSET U /\ s \in SUBSET V
  BY FS_Subset, U \cap V \in SUBSET U
<1>2. \A s \in SUBSET (U \cap V) : Cardinality(s) \in Nat /\ (Cardinality(s) = 0 <=> s = {})
  BY <1>1, FS_Subset, FS_CardinalityType, FS_EmptySet
<1>3. it[{}] = 0 /\ jt[{}] = 0
  BY AddsStep
<1>4. 0 \in T
  BY <1>2, <1>3
<1>5. ASSUME NEW n \in T PROVE n + 1 \in T
  <2>1. SUFFICES ASSUME NEW s \in SUBSET (U \cap V), Cardinality(s) = n + 1,
                        \A x \in s : f[x] = g[x]
                 PROVE  it[s] = jt[s]
    OBVIOUS
  <2>2. s # {} /\ s \in SUBSET U /\ s \in SUBSET V
    BY <1>1, <1>2, <2>1
  <2>3. /\ First(s) \in s /\ s \ {First(s)} \in SUBSET (U \cap V)
        /\ Cardinality(s \ {First(s)}) = n
    BY <1>1, <2>1, <2>2, Fewer
  <2>4. it[s \ {First(s)}] = jt[s \ {First(s)}]
    BY <1>5, <2>1, <2>3
  <2>5. it[s] = f[First(s)] + it[s \ {First(s)}]
    BY <2>2, AddsStep
  <2>6. jt[s] = g[First(s)] + jt[s \ {First(s)}]
    BY <2>2, AddsStep
  <2>. QED  BY <2>1, <2>3, <2>4, <2>5, <2>6
<1>6. T = Nat
  <2>. HIDE DEF T
  <2>. QED  BY <1>4, <1>5, Induct, T \in SUBSET Nat DEF T
<1>7. \A s \in SUBSET (U \cap V) : Same(s)
  BY <1>2, <1>6
<1>. QED  BY <1>7

LEMMA SumEmpty ==
    ASSUME NEW f
    PROVE  SumOf(f, {}) = 0
<1>1. PICK it : Adds(it, f, {}) /\ SumOf(f, {}) = it[{}]
  BY SumAdds, FS_EmptySet
<1>. QED  BY <1>1, AddsStep

LEMMA SumSame ==
    ASSUME NEW S, IsFiniteSet(S), NEW f, NEW g, \A x \in S : f[x] = g[x]
    PROVE  SumOf(f, S) = SumOf(g, S)
<1>1. PICK it : Adds(it, f, S) /\ SumOf(f, S) = it[S]
  BY SumAdds
<1>2. PICK jt : Adds(jt, g, S) /\ SumOf(g, S) = jt[S]
  BY SumAdds
<1>3. S \in SUBSET (S \cap S)
  OBVIOUS
<1>. QED  BY <1>1, <1>2, <1>3, SameAdds

LEMMA SumFirst ==
    ASSUME NEW S, IsFiniteSet(S), S # {}, NEW f
    PROVE  SumOf(f, S) = f[First(S)] + SumOf(f, S \ {First(S)})
<1>1. PICK it : Adds(it, f, S) /\ SumOf(f, S) = it[S]
  BY SumAdds
<1>2. S \ {First(S)} \in SUBSET S /\ IsFiniteSet(S \ {First(S)})
  BY FS_Subset
<1>3. PICK jt : Adds(jt, f, S \ {First(S)}) /\ SumOf(f, S \ {First(S)}) = jt[S \ {First(S)}]
  BY <1>2, SumAdds
<1>4. jt[S \ {First(S)}] = it[S \ {First(S)}]
  <2>1. S \ {First(S)} \in SUBSET (S \cap (S \ {First(S)}))
    OBVIOUS
  <2>. QED  BY <1>1, <1>2, <1>3, <2>1, SameAdds
<1>. QED  BY <1>1, <1>3, <1>4, AddsStep

\* A sum is an integer, and any element may be added last.
LEMMA SumTakes ==
    ASSUME NEW U, IsFiniteSet(U), NEW f, \A x \in U : f[x] \in Int
    PROVE  \A S \in SUBSET U :
              /\ SumOf(f, S) \in Int
              /\ \A x \in S : SumOf(f, S) = f[x] + SumOf(f, S \ {x})
<1>. DEFINE Good(S) == /\ SumOf(f, S) \in Int
                       /\ \A x \in S : SumOf(f, S) = f[x] + SumOf(f, S \ {x})
            T == {n \in Nat : \A S \in SUBSET U : Cardinality(S) <= n => Good(S)}
<1>1. \A S \in SUBSET U : IsFiniteSet(S) /\ Cardinality(S) \in Nat
                          /\ (Cardinality(S) = 0 <=> S = {})
  BY FS_Subset, FS_CardinalityType, FS_EmptySet
<1>2. 0 \in T
  <2>1. \A S \in SUBSET U : Cardinality(S) <= 0 => S = {}
    BY <1>1
  <2>2. Good({})
    BY SumEmpty
  <2>. QED  BY <2>1, <2>2
<1>3. ASSUME NEW n \in T PROVE n + 1 \in T
  <2>1. SUFFICES ASSUME NEW S \in SUBSET U, Cardinality(S) <= n + 1, S # {}
                 PROVE  Good(S)
    BY <1>1, <1>2
  <2>. DEFINE p == First(S)
  <2>2. S # {}
    BY <2>1
  <2>3. p \in S /\ S \ {p} \in SUBSET U /\ Cardinality(S \ {p}) <= n
    BY <2>1, <2>2, Fewer
  <2>4. SumOf(f, S) = f[p] + SumOf(f, S \ {p})
    BY <1>1, <2>2, SumFirst
  <2>5. Good(S \ {p})
    BY <1>3, <2>3
  <2>. HIDE DEF p
  <2>6. ASSUME NEW x \in S, x # p
        PROVE  SumOf(f, S) = f[x] + SumOf(f, S \ {x})
    <3>1. /\ S \ {x} \in SUBSET U /\ p \in S \ {x} /\ x \in S \ {p}
          /\ (S \ {x}) \ {p} = (S \ {p}) \ {x}
      BY <2>3, <2>6
    <3>2. Cardinality(S \ {x}) <= n
      BY <1>1, <2>1, FS_RemoveElement
    <3>3. Good(S \ {x})
      BY <1>3, <3>1, <3>2
    <3>4. SumOf(f, S \ {p}) = f[x] + SumOf(f, (S \ {p}) \ {x})
      BY <2>5, <3>1
    <3>5. SumOf(f, S \ {x}) = f[p] + SumOf(f, (S \ {p}) \ {x})
      BY <3>1, <3>3
    <3>6. SumOf(f, (S \ {p}) \ {x}) \in Int
      BY <1>1, <1>3, <2>3, FS_RemoveElement
    <3>. QED  BY <2>3, <2>4, <3>4, <3>5, <3>6
  <2>. QED  BY <2>3, <2>4, <2>5, <2>6
<1>4. T = Nat
  <2>. HIDE DEF T
  <2>. QED  BY <1>2, <1>3, Induct, T \in SUBSET Nat DEF T
<1>. QED  BY <1>1, <1>4
-----------------------------------------------------------------------------
(* Maps and packets.                                                        *)

LEMMA InMaps ==
    ASSUME NEW S, NEW r
    PROVE  r \in Maps(S) <=> /\ DOMAIN r \subseteq Nat \ {0}
                             /\ r = [i \in DOMAIN r |-> r[i]]
                             /\ \A i \in DOMAIN r : r[i] \in S
<1>1. ASSUME r \in Maps(S)
      PROVE  /\ DOMAIN r \subseteq Nat \ {0}
             /\ r = [i \in DOMAIN r |-> r[i]]
             /\ \A i \in DOMAIN r : r[i] \in S
  <2>1. PICK D \in SUBSET (Nat \ {0}) : r \in [D -> S]
    BY <1>1 DEF Maps
  <2>. QED  BY <2>1
<1>2. ASSUME DOMAIN r \subseteq Nat \ {0}, r = [i \in DOMAIN r |-> r[i]],
             \A i \in DOMAIN r : r[i] \in S
      PROVE  r \in Maps(S)
  <2>1. r \in [DOMAIN r -> S]
    BY <1>2
  <2>. QED  BY <1>2, <2>1 DEF Maps
<1>. QED  BY <1>1, <1>2

\* c has the entries of new, and those of old for other keys.
IsAdded(c, new, old) ==
    /\ DOMAIN c = DOMAIN new \cup DOMAIN old
    /\ \A k \in DOMAIN new : c[k] = new[k]
    /\ \A k \in DOMAIN old \ DOMAIN new : c[k] = old[k]

LEMMA AddedMap ==
    ASSUME NEW S, NEW new \in Maps(S), NEW old \in Maps(S)
    PROVE  Added(new, old) \in Maps(S) /\ IsAdded(Added(new, old), new, old)
<1>1. /\ DOMAIN Added(new, old) = DOMAIN new \cup DOMAIN old
      /\ \A k \in DOMAIN new : Added(new, old)[k] = new[k]
      /\ \A k \in DOMAIN old \ DOMAIN new : Added(new, old)[k] = old[k]
      /\ Added(new, old) = [k \in DOMAIN Added(new, old) |-> Added(new, old)[k]]
  BY DEF Added
<1>. QED  BY <1>1, InMaps DEF IsAdded

LEMMA OneEntry ==
    ASSUME NEW S, NEW k \in Nat \ {0}, NEW v \in S
    PROVE  /\ [i \in {k} |-> v] \in Maps(S)
           /\ DOMAIN [i \in {k} |-> v] = {k} /\ [i \in {k} |-> v][k] = v
  BY InMaps

LEMMA Emptied == EmptyBag \in Bag /\ DOMAIN EmptyBag.items = {}
<1>1. DOMAIN <<>> = {}
  OBVIOUS
<1>2. <<>> \in Maps(Info)
  <2>1. <<>> \in [{} -> Info] /\ {} \in SUBSET (Nat \ {0})
    OBVIOUS
  <2>. QED  BY <2>1 DEF Maps
<1>3. [s \in Slots |-> NoItem] \in [Slots -> Nat \cup {NoItem}]
  OBVIOUS
<1>4. ASSUME NEW I \in Maps(Info), NEW W \in [Slots -> Nat \cup {NoItem}]
      PROVE  [items |-> I, wear |-> W, ride |-> NoItem, shown |-> {}, bonus |-> 0] \in Bag
  BY DEF Bag
<1>5. EmptyBag \in Bag
  BY <1>2, <1>3, <1>4 DEF EmptyBag
<1>. QED  BY <1>1, <1>5 DEF EmptyBag

\* What the packets carry.
LEMMA ToDbFields ==
    ASSUME NEW m \in ToDb
    PROVE  /\ m.type = "S2D_PLAYERS" => m.uid \in Nat
           /\ m.type = "S2D_LOADPLAYER" => m.uid \in Nat /\ m.pid \in Pids \cup {NoPid}
           /\ m.type = "S2D_INSERTITEM" =>
                 /\ m.uid \in Nat /\ m.local \in Nat /\ m.pid \in Pids
                 /\ m.index \in Indexes /\ m.num \in 1..MaxNum
           /\ m.type = "S2D_UPDATEITEMNUM" => m.iid \in Nat /\ m.num \in 1..MaxNum
           /\ m.type = "S2D_UPDATEITEMINFO" => m.iid \in Nat /\ m.worn \in BOOLEAN
           /\ m.type = "S2D_TRASHITEM" => m.iid \in Nat
           /\ m.type \in Naming \cup {"S2D_PLAYERS", "S2D_LOADPLAYER", "S2D_INSERTITEM"}
  BY DEF ToDb, Naming

LEMMA ToGameFields ==
    ASSUME NEW m \in ToGame
    PROVE  /\ m.uid \in Nat
           /\ m.type = "D2S_LOADPLAYER" => m.pid \in Pids \cup {NoPid}
           /\ m.type = "D2S_LOADITEMS" => m.rows \in Maps(Row)
           /\ m.type = "D2S_UPDATEITEMIID" => m.local \in Nat /\ m.iid \in Nat
           /\ m.type \in {"D2S_PLAYER_INFO", "D2S_LOADPLAYER", "D2S_LOADITEMS",
                          "D2S_UPDATEITEMIID"}
  BY DEF ToGame

\* A handler that writes one packet.
LEMMA Sends ==
    ASSUME s2d \in Seq(ToDb), NEW m \in ToDb, Send(m)
    PROVE  /\ s2d' \in Seq(ToDb) /\ Len(s2d') = Len(s2d) + 1 /\ Len(s2d) \in Nat
           /\ DOMAIN s2d = 1 .. Len(s2d) /\ DOMAIN s2d' = 1 .. Len(s2d) + 1
           /\ \A k \in 1 .. Len(s2d) : s2d'[k] = s2d[k]
           /\ s2d'[Len(s2d) + 1] = m
  BY AppendProperties DEF Send

\* The database server takes one.
LEMMA Taken ==
    ASSUME NEW S, NEW q \in Seq(S), q # <<>>
    PROVE  /\ Tail(q) \in Seq(S) /\ Len(q) \in Nat \ {0} /\ Len(Tail(q)) = Len(q) - 1
           /\ DOMAIN q = 1 .. Len(q) /\ DOMAIN Tail(q) = 1 .. Len(q) - 1
           /\ \A k \in 1 .. Len(q) - 1 : Tail(q)[k] = q[k + 1]
           /\ Head(q) = q[1] /\ Head(q) \in S
  BY HeadTailProperties

LEMMA Answers ==
    ASSUME NEW S, NEW q \in Seq(S), NEW a \in S, NEW b \in S
    PROVE  /\ q \o <<a>> \in Seq(S) /\ q \o <<a, b>> \in Seq(S) /\ q \o <<>> = q
           /\ Len(q) \in Nat /\ DOMAIN q = 1 .. Len(q)
           /\ DOMAIN (q \o <<a>>) = 1 .. Len(q) + 1
           /\ DOMAIN (q \o <<a, b>>) = 1 .. Len(q) + 2
           /\ \A k \in 1 .. Len(q) : (q \o <<a>>)[k] = q[k] /\ (q \o <<a, b>>)[k] = q[k]
           /\ (q \o <<a>>)[Len(q) + 1] = a
           /\ (q \o <<a, b>>)[Len(q) + 1] = a /\ (q \o <<a, b>>)[Len(q) + 2] = b
<1>1. <<a>> \in Seq(S) /\ <<a, b>> \in Seq(S) /\ <<>> \in Seq(S)
  OBVIOUS
<1>2. Len(<<a>>) = 1 /\ Len(<<a, b>>) = 2 /\ Len(<<>>) = 0
  OBVIOUS
<1>. QED  BY <1>1, <1>2, ConcatProperties, ConcatEmptySeq

-----------------------------------------------------------------------------
(* What the operations of an inventory do.                                  *)

LEMMA ConstantTypes ==
    /\ MaxNum \in Nat \ {0} /\ NoItem \notin Nat /\ NoPid \notin Pids
    /\ WeaponSlot \in Slots /\ ShieldSlot \in Slots /\ NoSlot \notin Slots
<1>1. MaxNum \in Nat \ {0}
  BY BoundsAssumption
<1>2. WeaponSlot \in Slots /\ ShieldSlot \in Slots /\ NoSlot \notin Slots
  BY SlotsAssumption
<1>. QED  BY <1>1, <1>2, NoPidAssumption, NoItemAssumption

LEMMA SlotTypes ==
    ASSUME NEW i \in Indexes
    PROVE  /\ Bonus[i] \in Int
           /\ i \in Rides => ~Wearable(i)
           /\ Wearable(i) => SlotOf[i] \in Slots
           /\ i \in TwoHanded => SlotOf[i] = WeaponSlot
           /\ i \in Shields => SlotOf[i] = ShieldSlot
<1>. QED  BY BonusAssumption, SlotsAssumption DEF Wearable

\* c has the items of b, and it in place of item l.
Replaces(c, b, l, it) ==
    /\ DOMAIN c.items = DOMAIN b.items /\ c.items[l] = it
    /\ \A k \in DOMAIN b.items \ {l} : c.items[k] = b.items[k]

LEMMA SetItem ==
    ASSUME NEW b \in Bag, NEW l \in DOMAIN b.items, NEW it \in Info
    PROVE  /\ [b EXCEPT !.items[l] = it] \in Bag
           /\ Replaces([b EXCEPT !.items[l] = it], b, l, it)
<1>1. [b.items EXCEPT ![l] = it] \in Maps(Info)
  BY InMaps DEF Bag
<1>. QED  BY <1>1 DEF Bag, Replaces

LEMMA ItemTypes ==
    ASSUME NEW b \in Bag, NEW l \in DOMAIN b.items
    PROVE  /\ b.items[l] \in Info /\ l \in Nat \ {0}
           /\ \A n \in 1 .. MaxNum : [b.items[l] EXCEPT !.num = n] \in Info
           /\ \A w \in BOOLEAN : [b.items[l] EXCEPT !.worn = w] \in Info
           /\ \A i \in Nat : [b.items[l] EXCEPT !.iid = i] \in Info
<1>1. b.items[l] \in Info /\ l \in Nat \ {0}
  BY InMaps DEF Bag
<1>. QED  BY <1>1 DEF Info

\* c is b with the flag of item l set to w, and what is shown.
Flagged(b, l, w, shown) == [b EXCEPT !.items[l].worn = w, !.shown = shown]

LEMMA FlagItem ==
    ASSUME NEW b \in Bag, NEW l \in DOMAIN b.items, NEW w \in BOOLEAN,
           NEW shown \in SUBSET Indexes
    PROVE  LET c == Flagged(b, l, w, shown) IN
           /\ c \in Bag /\ Replaces(c, b, l, [b.items[l] EXCEPT !.worn = w])
           /\ c.shown = shown /\ c.wear = b.wear /\ c.ride = b.ride /\ c.bonus = b.bonus
<1>. DEFINE it == [b.items[l] EXCEPT !.worn = w]
            d == [b EXCEPT !.items[l] = it]
<1>1. it \in Info
  BY ItemTypes
<1>2. Flagged(b, l, w, shown) = [d EXCEPT !.shown = shown]
  BY DEF Bag, Flagged
<1>. HIDE DEF it
<1>3. d \in Bag /\ Replaces(d, b, l, it)
  BY <1>1, SetItem
<1>4. d.wear = b.wear /\ d.ride = b.ride /\ d.bonus = b.bonus
  BY DEF Bag
<1>. HIDE DEF d
<1>5. LET c == [d EXCEPT !.shown = shown] IN
      /\ c \in Bag /\ c.items = d.items /\ c.shown = shown
      /\ c.wear = d.wear /\ c.ride = d.ride /\ c.bonus = d.bonus
  BY <1>3 DEF Bag
<1>. QED  BY <1>2, <1>3, <1>4, <1>5 DEF it, Replaces

\* What is put into, or taken from, a slot or the ride.
LEMMA SetRide ==
    ASSUME NEW c \in Bag, NEW r \in Nat \cup {NoItem}
    PROVE  LET d == [c EXCEPT !.ride = r] IN
           /\ d \in Bag /\ d.items = c.items /\ d.shown = c.shown
           /\ d.wear = c.wear /\ d.ride = r /\ d.bonus = c.bonus
  BY DEF Bag

Wears(d, c, s, r, sum) ==
    /\ d.items = c.items /\ d.shown = c.shown
    /\ \A t \in Slots : d.wear[t] = IF t = s THEN r ELSE c.wear[t]
    /\ d.ride = c.ride /\ d.bonus = sum

Slotted(c, s, r, sum) == [c EXCEPT !.wear[s] = r, !.bonus = sum]

LEMMA SetWear ==
    ASSUME NEW c \in Bag, NEW s, NEW r \in Nat \cup {NoItem}, NEW sum
    PROVE  LET d == Slotted(c, s, r, sum) IN
           (sum \in Int => d \in Bag) /\ Wears(d, c, s, r, sum)
<1>. DEFINE w == [c.wear EXCEPT ![s] = r]
<1>1. /\ w \in [Slots -> Nat \cup {NoItem}]
      /\ \A t \in Slots : w[t] = IF t = s THEN r ELSE c.wear[t]
  BY DEF Bag
<1>2. Slotted(c, s, r, sum) = [c EXCEPT !.wear = w, !.bonus = sum]
  BY DEF Bag, Slotted
<1>. HIDE DEF w
<1>3. LET d == [c EXCEPT !.wear = w, !.bonus = sum] IN
      /\ sum \in Int => d \in Bag
      /\ d.items = c.items /\ d.shown = c.shown
      /\ d.wear = w /\ d.ride = c.ride /\ d.bonus = sum
  BY <1>1 DEF Bag
<1>. QED  BY <1>1, <1>2, <1>3 DEF Wears

\* c is b with item l worn.
IsPutOn(c, b, l) ==
    LET i == b.items[l].index IN
    /\ Replaces(c, b, l, [b.items[l] EXCEPT !.worn = TRUE])
    /\ c.shown = b.shown \cup {i}
    /\ i \in Rides => /\ c.ride = l /\ c.wear = b.wear /\ c.bonus = b.bonus
    /\ i \notin Rides =>
          /\ c.ride = b.ride
          /\ \A s \in Slots : c.wear[s] = IF s = SlotOf[i] THEN l ELSE b.wear[s]
          /\ c.bonus = (b.bonus + Bonus[i]) % 65536

LEMMA PutOnDoes ==
    ASSUME NEW b \in Bag, NEW l \in DOMAIN b.items
    PROVE  PutOn(b, l) \in Bag /\ IsPutOn(PutOn(b, l), b, l)
<1>. DEFINE i == b.items[l].index
            c == Flagged(b, l, TRUE, b.shown \cup {i})
            sum == (b.bonus + Bonus[i]) % 65536
<1>1. i \in Indexes /\ l \in Nat \cup {NoItem} /\ Bonus[i] \in Int
  BY ItemTypes, SlotTypes DEF Info
<1>2. b.shown \cup {i} \in SUBSET Indexes /\ b.bonus \in Int
  BY <1>1 DEF Bag
<1>3. /\ c \in Bag /\ Replaces(c, b, l, [b.items[l] EXCEPT !.worn = TRUE])
      /\ c.shown = b.shown \cup {i} /\ c.wear = b.wear /\ c.ride = b.ride /\ c.bonus = b.bonus
  BY <1>2, FlagItem
<1>4. PutOn(b, l) = IF i \in Rides THEN [c EXCEPT !.ride = l]
              ELSE [c EXCEPT !.wear[SlotOf[i]] = l, !.bonus = (c.bonus + Bonus[i]) % 65536]
  BY DEF PutOn, Flagged, Bag
<1>5. sum \in Int
  BY <1>1, <1>2
<1>. HIDE DEF c, i
<1>6. CASE i \in Rides
  <2>1. PutOn(b, l) = [c EXCEPT !.ride = l]
    BY <1>4, <1>6
  <2>. QED  BY <1>1, <1>3, <1>6, <2>1, SetRide DEF Replaces, i, IsPutOn
<1>7. CASE i \notin Rides
  <2>1. PutOn(b, l) = Slotted(c, SlotOf[i], l, sum)
    BY <1>3, <1>4, <1>7 DEF Slotted
  <2>. HIDE DEF sum
  <2>2. PutOn(b, l) \in Bag /\ Wears(PutOn(b, l), c, SlotOf[i], l, sum)
    BY <1>1, <1>3, <1>5, <2>1, SetWear
  <2>. QED  BY <1>3, <1>7, <2>2 DEF Replaces, Wears, i, sum, IsPutOn
<1>. QED  BY <1>6, <1>7

\* c is b with item l taken off.
IsPutOff(c, b, l) ==
    LET i == b.items[l].index IN
    /\ Replaces(c, b, l, [b.items[l] EXCEPT !.worn = FALSE])
    /\ c.shown = b.shown \ {i}
    /\ i \in Rides => /\ c.ride = NoItem /\ c.wear = b.wear /\ c.bonus = b.bonus
    /\ i \notin Rides =>
          /\ c.ride = b.ride
          /\ \A s \in Slots : c.wear[s] = IF s = SlotOf[i] THEN NoItem ELSE b.wear[s]
          /\ c.bonus = (b.bonus - Bonus[i]) % 65536

LEMMA PutOffDoes ==
    ASSUME NEW b \in Bag, NEW l \in DOMAIN b.items
    PROVE  PutOff(b, l) \in Bag /\ IsPutOff(PutOff(b, l), b, l)
<1>. DEFINE i == b.items[l].index
            c == Flagged(b, l, FALSE, b.shown \ {i})
            sum == (b.bonus - Bonus[i]) % 65536
<1>1. i \in Indexes /\ NoItem \in Nat \cup {NoItem} /\ Bonus[i] \in Int
  BY ItemTypes, SlotTypes DEF Info
<1>2. b.shown \ {i} \in SUBSET Indexes /\ b.bonus \in Int
  BY <1>1 DEF Bag
<1>3. /\ c \in Bag /\ Replaces(c, b, l, [b.items[l] EXCEPT !.worn = FALSE])
      /\ c.shown = b.shown \ {i} /\ c.wear = b.wear /\ c.ride = b.ride /\ c.bonus = b.bonus
  BY <1>2, FlagItem
<1>4. PutOff(b, l) = IF i \in Rides THEN [c EXCEPT !.ride = NoItem]
              ELSE [c EXCEPT !.wear[SlotOf[i]] = NoItem, !.bonus = (c.bonus - Bonus[i]) % 65536]
  BY DEF PutOff, Flagged, Bag
<1>5. sum \in Int
  BY <1>1, <1>2
<1>. HIDE DEF c, i
<1>6. CASE i \in Rides
  <2>1. PutOff(b, l) = [c EXCEPT !.ride = NoItem]
    BY <1>4, <1>6
  <2>. QED  BY <1>1, <1>3, <1>6, <2>1, SetRide DEF Replaces, i, IsPutOff
<1>7. CASE i \notin Rides
  <2>1. PutOff(b, l) = Slotted(c, SlotOf[i], NoItem, sum)
    BY <1>3, <1>4, <1>7 DEF Slotted
  <2>. HIDE DEF sum
  <2>2. PutOff(b, l) \in Bag /\ Wears(PutOff(b, l), c, SlotOf[i], NoItem, sum)
    BY <1>1, <1>3, <1>5, <2>1, SetWear
  <2>. QED  BY <1>3, <1>7, <2>2 DEF Replaces, Wears, i, sum, IsPutOff
<1>. QED  BY <1>6, <1>7

\* c is b without item l.
IsTrashed(c, b, l) ==
    /\ DOMAIN c.items = DOMAIN b.items \ {l}
    /\ \A k \in DOMAIN c.items : c.items[k] = b.items[k]
    /\ c.wear = b.wear /\ c.ride = b.ride /\ c.shown = b.shown /\ c.bonus = b.bonus

LEMMA TrashDoes ==
    ASSUME NEW b \in Bag, NEW l
    PROVE  Trash(b, l) \in Bag /\ IsTrashed(Trash(b, l), b, l)
<1>1. [k \in DOMAIN b.items \ {l} |-> b.items[k]] \in Maps(Info)
  BY InMaps DEF Bag
<1>. QED  BY <1>1 DEF Bag, Trash, IsTrashed

\* Claimed(L, old) is old or one of L.
LEMMA ClaimedOne ==
    ASSUME NEW L \in SUBSET (Nat \ {0}), NEW old, \A k, l \in L : k = l
    PROVE  /\ L = {} => Claimed(L, old) = old
           /\ \A l \in L : Claimed(L, old) = l
<1>. SUFFICES ASSUME NEW l \in L PROVE Claimed(L, old) = l
  BY DEF Claimed
<1>1. l \in Nat /\ L = {l} /\ L # {}
  OBVIOUS
<1>2. Max(L) = l
  BY <1>1 DEF Max
<1>. QED  BY <1>1, <1>2 DEF Claimed

LEMMA SumUnion ==
    ASSUME NEW U, IsFiniteSet(U), NEW f, \A x \in U : f[x] \in Int
    PROVE  \A A, B \in SUBSET U : A \cap B = {} =>
              SumOf(f, A \cup B) = SumOf(f, A) + SumOf(f, B)
<1>. DEFINE Good(A) == \A B \in SUBSET U : A \cap B = {} =>
                          SumOf(f, A \cup B) = SumOf(f, A) + SumOf(f, B)
            T == {n \in Nat : \A A \in SUBSET U : Cardinality(A) = n => Good(A)}
<1>1. \A S \in SUBSET U : IsFiniteSet(S) /\ Cardinality(S) \in Nat /\ (Cardinality(S) = 0 <=> S = {})
  BY FS_Subset, FS_CardinalityType, FS_EmptySet
<1>2. \A S \in SUBSET U : SumOf(f, S) \in Int
  BY SumTakes
<1>3. 0 \in T
  <2>1. SUFFICES ASSUME NEW B \in SUBSET U PROVE SumOf(f, {} \cup B) = SumOf(f, {}) + SumOf(f, B)
    BY <1>1
  <2>2. {} \cup B = B
    OBVIOUS
  <2>. QED  BY <1>2, <2>2, SumEmpty
<1>4. ASSUME NEW n \in T PROVE n + 1 \in T
  <2>1. SUFFICES ASSUME NEW A \in SUBSET U, Cardinality(A) = n + 1,
                        NEW B \in SUBSET U, A \cap B = {}
                 PROVE  SumOf(f, A \cup B) = SumOf(f, A) + SumOf(f, B)
    OBVIOUS
  <2>2. PICK x \in A : TRUE
    BY <1>1, <2>1
  <2>3. A \ {x} \in SUBSET U /\ Cardinality(A \ {x}) = n
    <3>1. IsFiniteSet(A) /\ n \in Nat
      BY <1>1
    <3>2. Cardinality(A \ {x}) = Cardinality(A) - 1
      BY <3>1, FS_RemoveElement
    <3>. QED  BY <2>1, <3>1, <3>2
  <2>4. SumOf(f, (A \ {x}) \cup B) = SumOf(f, A \ {x}) + SumOf(f, B)
    BY <2>1, <2>3
  <2>5. A \cup B \in SUBSET U /\ (A \cup B) \ {x} = (A \ {x}) \cup B /\ x \in A \cup B /\ x \in U
    BY <2>1
  <2>6. SumOf(f, A \cup B) = f[x] + SumOf(f, (A \cup B) \ {x})
    BY <2>5, SumTakes
  <2>7. SumOf(f, A) = f[x] + SumOf(f, A \ {x})
    BY SumTakes
  <2>8. SumOf(f, A \ {x}) \in Int /\ SumOf(f, B) \in Int /\ f[x] \in Int
    BY <1>2, <2>3, <2>5
  <2>9. SumOf(f, A \cup B) = f[x] + SumOf(f, (A \ {x}) \cup B)
    BY <2>5, <2>6
  <2>. QED  BY <2>4, <2>7, <2>8, <2>9
<1>. HIDE DEF T
<1>5. T = Nat
  <2>1. T \in SUBSET Nat
    BY DEF T
  <2>. QED  BY <1>3, <1>4, <2>1, Induct
<1>. QED  BY <1>1, <1>5 DEF T

\* The sums of the model.
BonusIn(items) == [l \in DOMAIN items |-> Bonus[items[l].index]]

\* it is BonusOf for every subset of L.
BonusAdds(it, items, L) ==
    it = [s \in SUBSET L |-> IF s = {} THEN 0
                             ELSE Bonus[items[First(s)].index] + it[s \ {First(s)}]]

LEMMA BonusIs ==
    ASSUME NEW items, NEW L \in SUBSET DOMAIN items, IsFiniteSet(L)
    PROVE  BonusOf(items, L) = SumOf(BonusIn(items), L)
<1>1. \A it : BonusAdds(it, items, L) <=> Adds(it, BonusIn(items), L)
  <2>. SUFFICES ASSUME NEW it
                PROVE  BonusAdds(it, items, L) <=> Adds(it, BonusIn(items), L)
    OBVIOUS
  <2>1. \A s \in SUBSET L : s # {} => First(s) \in L
    BY Fewer
  <2>2. \A x \in L : BonusIn(items)[x] = Bonus[items[x].index]
    BY DEF BonusIn
  <2>3. [s \in SUBSET L |-> IF s = {} THEN 0
                            ELSE Bonus[items[First(s)].index] + it[s \ {First(s)}]]
        = [s \in SUBSET L |-> IF s = {} THEN 0
                              ELSE BonusIn(items)[First(s)] + it[s \ {First(s)}]]
    BY <2>1, <2>2
  <2>. QED  BY <2>3 DEF BonusAdds, Adds
<1>2. BonusOf(items, L) = (CHOOSE it : BonusAdds(it, items, L))[L]
  BY DEF BonusOf, MapThenSumSet, MapThenFoldSet, BonusAdds, First
<1>3. PICK it : BonusAdds(it, items, L) /\ BonusOf(items, L) = it[L]
  BY <1>1, <1>2, AddsExists
<1>4. PICK jt : Adds(jt, BonusIn(items), L) /\ SumOf(BonusIn(items), L) = jt[L]
  BY SumAdds
<1>5. L \in SUBSET (L \cap L)
  OBVIOUS
<1>. QED  BY <1>1, <1>3, <1>4, <1>5, SameAdds

\* The items of a map whose keys are bounded.
LEMMA BonusInts ==
    ASSUME NEW items \in Maps(Info), NEW N \in Nat, \A l \in DOMAIN items : l <= N
    PROVE  /\ IsFiniteSet(DOMAIN items)
           /\ \A x \in DOMAIN items : BonusIn(items)[x] = Bonus[items[x].index]
                                      /\ Bonus[items[x].index] \in Int
           /\ \A L \in SUBSET DOMAIN items :
                 BonusOf(items, L) = SumOf(BonusIn(items), L) /\ BonusOf(items, L) \in Int
<1>1. DOMAIN items \in SUBSET (1 .. N) /\ \A x \in DOMAIN items : items[x] \in Info
  BY InMaps
<1>2. IsFiniteSet(DOMAIN items)
  <2>1. IsFiniteSet(1 .. N)
    BY FS_Interval
  <2>. QED  BY <1>1, <2>1, FS_Subset
<1>3. \A x \in DOMAIN items : items[x].index \in Indexes
  BY <1>1 DEF Info
<1>4. \A x \in DOMAIN items : BonusIn(items)[x] = Bonus[items[x].index]
                              /\ Bonus[items[x].index] \in Int
  BY <1>3, SlotTypes DEF BonusIn
<1>5. ASSUME NEW L \in SUBSET DOMAIN items
      PROVE  BonusOf(items, L) = SumOf(BonusIn(items), L) /\ BonusOf(items, L) \in Int
  <2>1. IsFiniteSet(L)
    BY <1>2, FS_Subset
  <2>2. SumOf(BonusIn(items), L) \in Int
    BY <1>2, <1>4, SumTakes
  <2>. QED  BY <2>1, <2>2, BonusIs
<1>. QED  BY <1>2, <1>4, <1>5

LEMMA LatestIs ==
    ASSUME NEW K, NEW k \in K, \A j \in K : j \in Int /\ j <= k
    PROVE  Max(K) = k
<1>. DEFINE M(x) == x \in K /\ \A y \in K : x >= y
<1>1. Max(K) = CHOOSE x : M(x)
  BY DEF Max
<1>2. M(k)
  OBVIOUS
<1>3. M(CHOOSE x : M(x))
  BY <1>2
<1>4. Max(K) \in K /\ Max(K) >= k
  BY <1>1, <1>3
<1>. QED  BY <1>4

LEMMA MaxIs ==
    ASSUME NEW L \in SUBSET Nat, L # {}, NEW N \in Nat, \A k \in L : k <= N
    PROVE  Max(L) \in L /\ \A k \in L : k <= Max(L)
<1>. DEFINE T == {n \in Nat : \A k \in L : k <= n}
<1>1. PICK m \in T : \A k \in T : m <= k
  <2>. N \in T
    OBVIOUS
  <2>. QED  BY Smallest
<1>2. m \in L
  <2>. SUFFICES ASSUME m \notin L PROVE FALSE
    OBVIOUS
  <2>1. \A k \in L : k <= m - 1
    BY <1>1
  <2>2. m - 1 \in T
    <3>1. PICK k \in L : TRUE
      OBVIOUS
    <3>2. k <= m - 1 /\ k \in Nat /\ m \in Int
      BY <1>1, <2>1
    <3>3. m - 1 \in Nat
      BY <3>2
    <3>. QED  BY <2>1, <3>3
  <2>. QED  BY <1>1, <2>2
<1>3. \E x \in L : \A y \in L : x >= y
  BY <1>1, <1>2
<1>. QED  BY <1>3 DEF Max

LEMMA ClaimedIn ==
    ASSUME NEW L \in SUBSET (Nat \ {0}), NEW N \in Nat, \A k \in L : k <= N,
           NEW old \in Nat \cup {NoItem}
    PROVE  Claimed(L, old) \in Nat \cup {NoItem}
<1>1. L # {} => Max(L) \in Nat
  BY MaxIs
<1>. QED  BY <1>1 DEF Claimed

\* The new items that are put into a slot, those that are ridden.
WornIn(new) == {l \in DOMAIN new : new[l].worn /\ Wearable(new[l].index)}
Ridden(new) == {l \in DOMAIN new : new[l].worn /\ new[l].index \in Rides}

InSlot(new, s) == {l \in WornIn(new) : SlotOf[new[l].index] = s}
ShownBy(new) == {new[l].index : l \in WornIn(new) \cup Ridden(new)}

\* c is b with the items new.
IsInserted(c, b, new) ==
    /\ c.items = Added(new, b.items)
    /\ \A s \in Slots : c.wear[s] = Claimed(InSlot(new, s), b.wear[s])
    /\ c.ride = Claimed(Ridden(new), b.ride)
    /\ c.shown = b.shown \cup ShownBy(new)
    /\ c.bonus = (b.bonus + BonusOf(new, WornIn(new))) % 65536

LEMMA InsertDoes ==
    ASSUME NEW b \in Bag, NEW new \in Maps(Info), NEW N \in Nat, \A l \in DOMAIN new : l <= N
    PROVE  Insert(b, new) \in Bag /\ IsInserted(Insert(b, new), b, new)
<1>. DEFINE items == Added(new, b.items)
            wear == [s \in Slots |-> Claimed(InSlot(new, s), b.wear[s])]
            ride == Claimed(Ridden(new), b.ride)
            shown == b.shown \cup ShownBy(new)
            bonus == (b.bonus + BonusOf(new, WornIn(new))) % 65536
<1>1. Insert(b, new) = [items |-> items, wear |-> wear, ride |-> ride,
                        shown |-> shown, bonus |-> bonus]
  BY DEF Insert, WornIn, Ridden, InSlot, ShownBy
<1>2. \A s \in Slots : wear[s] = Claimed(InSlot(new, s), b.wear[s])
  OBVIOUS
<1>3. \A l \in DOMAIN new : l \in Nat \ {0} /\ new[l] \in Info
  BY InMaps
<1>4. items \in Maps(Info)
  BY AddedMap DEF Bag
<1>5. wear \in [Slots -> Nat \cup {NoItem}]
  <2>1. ASSUME NEW s \in Slots
        PROVE  Claimed(InSlot(new, s), b.wear[s]) \in Nat \cup {NoItem}
    <3>1. InSlot(new, s) \in SUBSET (Nat \ {0})
      BY <1>3 DEF WornIn, InSlot
    <3>2. b.wear[s] \in Nat \cup {NoItem}
      BY DEF Bag
    <3>. QED  BY <3>1, <3>2, ClaimedIn DEF WornIn, InSlot
  <2>. QED  BY <2>1
<1>6. ride \in Nat \cup {NoItem}
  <2>1. Ridden(new) \in SUBSET (Nat \ {0}) /\ b.ride \in Nat \cup {NoItem}
    BY <1>3 DEF Ridden, Bag
  <2>. QED  BY <2>1, ClaimedIn DEF Ridden
<1>7. shown \in SUBSET Indexes
  BY <1>3 DEF Bag, Info, WornIn, Ridden, ShownBy
<1>8. bonus \in Int
  <2>1. BonusOf(new, WornIn(new)) \in Int
    BY BonusInts DEF WornIn
  <2>2. b.bonus \in Int
    BY DEF Bag
  <2>. QED  BY <2>1, <2>2
<1>. HIDE DEF items, wear, ride, shown, bonus
<1>9. Insert(b, new) \in Bag
  BY <1>1, <1>4, <1>5, <1>6, <1>7, <1>8 DEF Bag
<1>10. /\ Insert(b, new).items = items /\ Insert(b, new).wear = wear
       /\ Insert(b, new).ride = ride /\ Insert(b, new).shown = shown
       /\ Insert(b, new).bonus = bonus
  BY <1>1
<1>. QED  BY <1>2, <1>9, <1>10 DEF IsInserted, items, ride, shown, bonus

-----------------------------------------------------------------------------
(* What a load brings.                                                      *)

RowsTo(sent, i) == {j \in DOMAIN sent : j <= i}

Numbers(sent, n) == [i \in DOMAIN sent |-> n + Cardinality(RowsTo(sent, i))]

Brought(sent, local) ==
    [l \in {local[i] : i \in DOMAIN sent} |->
       LET i == CHOOSE j \in DOMAIN sent : local[j] = l IN
       [iid |-> i, index |-> sent[i].index, num |-> sent[i].num, worn |-> sent[i].worn]]

AsItem(i, row) == [iid |-> i, index |-> row.index, num |-> row.num, worn |-> row.worn]

\* Each row of the answer gets a local ID of its own, after all that were given.
IsBrought(new, local, sent, n, size) ==
    /\ DOMAIN local = DOMAIN sent
    /\ \A i \in DOMAIN sent : local[i] \in n + 1 .. n + size
    /\ \A i, j \in DOMAIN sent : local[i] = local[j] => i = j
    /\ DOMAIN new = {local[i] : i \in DOMAIN sent}
    /\ \A i \in DOMAIN sent : new[local[i]] = AsItem(i, sent[i])

LEMMA NumberingDoes ==
    ASSUME NEW sent \in Maps(Row), NEW n \in Nat, NEW N \in Nat, \A i \in DOMAIN sent : i <= N
    PROVE  LET local == Numbers(sent, n) new == Brought(sent, local) size == Cardinality(DOMAIN sent) IN
           /\ size \in Nat /\ new \in Maps(Info) /\ local \in Maps(Nat)
           /\ IsBrought(new, local, sent, n, size)
<1>. DEFINE local == Numbers(sent, n)
            new == Brought(sent, local)
            size == Cardinality(DOMAIN sent)
<1>1. DOMAIN sent \in SUBSET (1 .. N) /\ \A i \in DOMAIN sent : i \in Nat \ {0} /\ sent[i] \in Row
  BY InMaps
<1>2. IsFiniteSet(DOMAIN sent) /\ size \in Nat
  <2>1. IsFiniteSet(1 .. N)
    BY FS_Interval
  <2>2. IsFiniteSet(DOMAIN sent)
    BY <1>1, <2>1, FS_Subset
  <2>. QED  BY <2>2, FS_CardinalityType
<1>3. \A i \in DOMAIN sent : IsFiniteSet(RowsTo(sent, i)) /\ Cardinality(RowsTo(sent, i)) \in 1 .. size
  <2>. SUFFICES ASSUME NEW i \in DOMAIN sent
                PROVE  IsFiniteSet(RowsTo(sent, i)) /\ Cardinality(RowsTo(sent, i)) \in 1 .. size
    OBVIOUS
  <2>1. RowsTo(sent, i) \in SUBSET DOMAIN sent /\ i \in RowsTo(sent, i)
    BY <1>1 DEF RowsTo
  <2>2. IsFiniteSet(RowsTo(sent, i)) /\ Cardinality(RowsTo(sent, i)) <= size
    BY <1>2, <2>1, FS_Subset
  <2>3. Cardinality(RowsTo(sent, i)) \in Nat /\ Cardinality(RowsTo(sent, i)) # 0
    BY <2>1, <2>2, FS_CardinalityType, FS_EmptySet
  <2>. QED  BY <1>2, <2>2, <2>3
<1>4. DOMAIN local = DOMAIN sent /\ \A i \in DOMAIN sent : local[i] = n + Cardinality(RowsTo(sent, i))
  BY DEF Numbers
<1>. HIDE DEF local
<1>5. ASSUME NEW i \in DOMAIN sent, NEW j \in DOMAIN sent, i < j
      PROVE  local[i] # local[j]
  <2>1. RowsTo(sent, i) \in SUBSET RowsTo(sent, j) /\ j \in RowsTo(sent, j) /\ j \notin RowsTo(sent, i)
    BY <1>1, <1>5 DEF RowsTo
  <2>2. Cardinality(RowsTo(sent, i)) # Cardinality(RowsTo(sent, j))
    BY <1>3, <2>1, FS_Subset
  <2>. QED  BY <1>3, <1>4, <2>2
<1>6. \A i, j \in DOMAIN sent : local[i] = local[j] => i = j
  BY <1>1, <1>5
<1>7. \A i \in DOMAIN sent : local[i] \in n + 1 .. n + size
  BY <1>2, <1>3, <1>4
<1>8. DOMAIN new = {local[i] : i \in DOMAIN sent}
  BY DEF Brought
<1>9. ASSUME NEW i \in DOMAIN sent PROVE new[local[i]] = AsItem(i, sent[i])
  <2>1. local[i] \in DOMAIN new
    BY <1>8
  <2>2. i = CHOOSE j \in DOMAIN sent : local[j] = local[i]
    BY <1>6
  <2>. QED  BY <2>1, <2>2 DEF Brought, AsItem
<1>10. \A i \in DOMAIN sent : AsItem(i, sent[i]) \in Info
  BY <1>1 DEF AsItem, Info, Row
<1>11. new \in Maps(Info)
  <2>1. new = [l \in DOMAIN new |-> new[l]]
    BY DEF Brought
  <2>. HIDE DEF new
  <2>2. DOMAIN new \subseteq Nat \ {0} /\ \A l \in DOMAIN new : new[l] \in Info
    BY <1>2, <1>7, <1>8, <1>9, <1>10
  <2>. QED  BY <2>1, <2>2, InMaps
<1>12. local \in Maps(Nat)
  <2>1. local = [i \in DOMAIN local |-> local[i]]
    BY DEF Numbers, local
  <2>2. \A i \in DOMAIN local : local[i] \in Nat
    BY <1>2, <1>4, <1>7
  <2>. QED  BY <1>1, <1>4, <2>1, <2>2, InMaps
<1>. HIDE DEF new, size
<1>. QED  BY <1>2, <1>4, <1>6, <1>7, <1>8, <1>9, <1>11, <1>12 DEF IsBrought, local, new, size

-----------------------------------------------------------------------------
(* What the actions do to the link and to the inventory.                    *)

\* The last packet is new; the first has been taken.
Sent(m) ==
    /\ s2d' \in Seq(ToDb) /\ Len(s2d) \in Nat /\ Len(s2d') = Len(s2d) + 1
    /\ DOMAIN s2d = 1 .. Len(s2d) /\ DOMAIN s2d' = 1 .. Len(s2d) + 1
    /\ \A k \in 1 .. Len(s2d) : s2d'[k] = s2d[k]
    /\ s2d'[Len(s2d) + 1] = m

Fetched ==
    /\ s2d' \in Seq(ToDb) /\ Len(s2d) \in Nat \ {0} /\ Len(s2d') = Len(s2d) - 1
    /\ DOMAIN s2d = 1 .. Len(s2d) /\ DOMAIN s2d' = 1 .. Len(s2d) - 1
    /\ \A k \in 1 .. Len(s2d) - 1 : s2d'[k] = s2d[k + 1]
    /\ Head(s2d) = s2d[1] /\ Head(s2d) \in ToDb

Heard ==
    /\ d2s' \in Seq(ToGame) /\ Len(d2s) \in Nat \ {0} /\ Len(d2s') = Len(d2s) - 1
    /\ DOMAIN d2s = 1 .. Len(d2s) /\ DOMAIN d2s' = 1 .. Len(d2s) - 1
    /\ \A k \in 1 .. Len(d2s) - 1 : d2s'[k] = d2s[k + 1]
    /\ Head(d2s) = d2s[1] /\ Head(d2s) \in ToGame

Answered1(a) ==
    /\ d2s' \in Seq(ToGame) /\ Len(d2s) \in Nat
    /\ DOMAIN d2s = 1 .. Len(d2s) /\ DOMAIN d2s' = 1 .. Len(d2s) + 1
    /\ \A k \in 1 .. Len(d2s) : d2s'[k] = d2s[k]
    /\ d2s'[Len(d2s) + 1] = a

Answered2(a, b) ==
    /\ d2s' \in Seq(ToGame) /\ Len(d2s) \in Nat
    /\ DOMAIN d2s = 1 .. Len(d2s) /\ DOMAIN d2s' = 1 .. Len(d2s) + 2
    /\ \A k \in 1 .. Len(d2s) : d2s'[k] = d2s[k]
    /\ d2s'[Len(d2s) + 1] = a /\ d2s'[Len(d2s) + 2] = b

LEMMA SendDoes ==
    ASSUME TypesInv, NEW m \in ToDb, Send(m)
    PROVE  Sent(m)
  BY Sends DEF Sent, TypesInv

LEMMA ReceivedDoes ==
    ASSUME TypesInv, NEW t, Received(t), s2d' = Tail(s2d)
    PROVE  Fetched /\ s2d[1].type = t
<1>1. s2d \in Seq(ToDb) /\ s2d # <<>>
  BY DEF TypesInv, Received
<1>. QED  BY <1>1, Taken DEF Fetched, Received

LEMMA AnsweredDoes ==
    ASSUME TypesInv, d2s # <<>>, d2s' = Tail(d2s)
    PROVE  Heard
<1>1. d2s \in Seq(ToGame)
  BY DEF TypesInv
<1>. QED  BY <1>1, Taken DEF Heard

LEMMA ReplyOne ==
    ASSUME TypesInv, NEW a \in ToGame, d2s' = d2s \o <<a>>
    PROVE  Answered1(a)
<1>1. d2s \in Seq(ToGame)
  BY DEF TypesInv
<1>. QED  BY <1>1, Answers DEF Answered1

LEMMA ReplyTwo ==
    ASSUME TypesInv, NEW a \in ToGame, NEW b \in ToGame, d2s' = d2s \o <<a, b>>
    PROVE  Answered2(a, b)
<1>1. d2s \in Seq(ToGame)
  BY DEF TypesInv
<1>. QED  BY <1>1, Answers DEF Answered2

SameWear(c, b) == c.wear = b.wear /\ c.ride = b.ride /\ c.shown = b.shown /\ c.bonus = b.bonus

LEMMA SetOne ==
    ASSUME NEW b \in Bag, NEW l \in DOMAIN b.items, NEW it \in Info
    PROVE  SameWear([b EXCEPT !.items[l] = it], b)
  BY DEF Bag, SameWear

LEMMA AddDoes ==
    ASSUME TypesInv, NEW i \in Indexes, AddToItem(i, 1)
    PROVE  /\ \E l \in DOMAIN bag.items, n \in 1 .. MaxNum :
                 /\ bag' \in Bag /\ SameWear(bag', bag)
                 /\ Replaces(bag', bag, l, [bag.items[l] EXCEPT !.num = n])
                 /\ Sent([type |-> "S2D_UPDATEITEMNUM", iid |-> bag.items[l].iid, num |-> n])
                 /\ Lose(l)
           /\ UNCHANGED <<conn, uid, roles, pid, nextLocal, rows, nextIid, d2s, awaiting, loaded, origin, mixed, early>>
<1>. DEFINE num(l) == bag.items[l].num + 1
            m(l) == [type |-> "S2D_UPDATEITEMNUM", iid |-> bag.items[l].iid, num |-> num(l)]
<1>1. PICK l \in DOMAIN bag.items :
         /\ num(l) <= MaxNum /\ bag' = [bag EXCEPT !.items[l].num = num(l)]
         /\ Send(m(l)) /\ Lose(l)
  BY DEF AddToItem, FindByIndex
<1>2. bag \in Bag
  BY DEF TypesInv
<1>3. bag.items[l] \in Info
  BY <1>2, ItemTypes
<1>4. num(l) \in 1 .. MaxNum
  BY <1>1, <1>3, ConstantTypes DEF Info
<1>. HIDE DEF num
<1>. DEFINE it == [bag.items[l] EXCEPT !.num = num(l)]
<1>5. it \in Info
  BY <1>2, <1>4, ItemTypes
<1>6. bag' = [bag EXCEPT !.items[l] = it]
  BY <1>1
<1>7. bag' \in Bag /\ SameWear(bag', bag) /\ Replaces(bag', bag, l, it)
  BY <1>2, <1>5, <1>6, SetItem, SetOne
<1>8. m(l) \in ToDb
  BY <1>3, <1>4 DEF Info, ToDb
<1>9. Sent(m(l))
  BY <1>1, <1>8, SendDoes
<1>. QED  BY <1>1, <1>4, <1>7, <1>9 DEF AddToItem

NewInfo(i) == [iid |-> 0, index |-> i, num |-> 1, worn |-> FALSE]

GotNew(i) ==
    LET l == nextLocal + 1 IN
    /\ nextLocal' = l /\ bag' \in Bag
    /\ DOMAIN bag'.items = DOMAIN bag.items \cup {l} /\ bag'.items[l] = NewInfo(i)
    /\ \A k \in DOMAIN bag.items \ {l} : bag'.items[k] = bag.items[k]
    /\ bag'.wear = bag.wear /\ bag'.ride = bag.ride /\ bag'.shown = bag.shown
    /\ bag'.bonus = bag.bonus % 65536
    /\ Sent([type |-> "S2D_INSERTITEM", uid |-> uid, local |-> l, pid |-> pid,
             index |-> i, num |-> 1])
    /\ mixed' = (mixed \/ awaiting > 0)
    /\ UNCHANGED <<conn, uid, roles, pid, rows, nextIid, d2s, awaiting, loaded, lost, origin, early>>

LEMMA NewDoes ==
    ASSUME TypesInv, NEW i \in Indexes, NewItem(i, 1), pid # NoPid
    PROVE  GotNew(i)
<1>. DEFINE l == nextLocal + 1
            new == [k \in {l} |-> NewInfo(i)]
            m == [type |-> "S2D_INSERTITEM", uid |-> uid, local |-> l, pid |-> pid,
                  index |-> i, num |-> 1]
<1>1. l \in Nat \ {0} /\ bag \in Bag /\ uid \in Nat /\ pid \in Pids /\ 1 \in 1 .. MaxNum
  BY ConstantTypes DEF TypesInv
<1>2. NewInfo(i) \in Info
  BY <1>1 DEF NewInfo, Info
<1>3. new \in Maps(Info) /\ DOMAIN new = {l} /\ new[l] = NewInfo(i)
  BY <1>1, <1>2, OneEntry
<1>4. bag' = Insert(bag, new) /\ Send(m) /\ nextLocal' = l
  BY DEF NewItem, NewInfo
<1>5. m \in ToDb
  BY <1>1 DEF ToDb
<1>6. Sent(m)
  BY <1>4, <1>5, SendDoes
<1>. HIDE DEF new, m, l
<1>7. bag' \in Bag /\ IsInserted(bag', bag, new)
  BY <1>1, <1>3, <1>4, InsertDoes
<1>8. WornIn(new) = {} /\ Ridden(new) = {}
  BY <1>3 DEF WornIn, Ridden, NewInfo
<1>9. \A s \in Slots : InSlot(new, s) = {}
  BY <1>8 DEF InSlot
<1>10. \A s \in Slots : bag'.wear[s] = bag.wear[s]
  BY <1>7, <1>9 DEF IsInserted, Claimed
<1>11. bag'.wear = bag.wear
  BY <1>1, <1>7, <1>10 DEF Bag
<1>12. bag'.ride = bag.ride
  BY <1>7, <1>8 DEF IsInserted, Claimed
<1>13. bag'.shown = bag.shown
  <2>1. ShownBy(new) = {}
    BY <1>8 DEF ShownBy
  <2>. QED  BY <1>7, <2>1 DEF IsInserted
<1>14. bag'.bonus = bag.bonus % 65536
  <2>1. BonusOf(new, WornIn(new)) = 0
    <3>1. {} \in SUBSET DOMAIN new /\ IsFiniteSet({})
      BY FS_EmptySet
    <3>. QED  BY <1>8, <3>1, BonusIs, SumEmpty
  <2>2. bag'.bonus = (bag.bonus + 0) % 65536
    BY <1>7, <2>1 DEF IsInserted
  <2>. QED  BY <1>1, <2>2 DEF Bag
<1>15. /\ DOMAIN bag'.items = DOMAIN bag.items \cup {l} /\ bag'.items[l] = NewInfo(i)
       /\ \A k \in DOMAIN bag.items \ {l} : bag'.items[k] = bag.items[k]
  <2>1. bag'.items = Added(new, bag.items) /\ bag.items \in Maps(Info)
    BY <1>1, <1>7 DEF IsInserted, Bag
  <2>2. IsAdded(bag'.items, new, bag.items)
    BY <1>3, <2>1, AddedMap
  <2>. QED  BY <1>3, <2>2 DEF IsAdded
<1>16. /\ mixed' = (mixed \/ awaiting > 0)
       /\ UNCHANGED <<conn, uid, roles, pid, rows, nextIid, d2s, awaiting, loaded, lost, origin, early>>
  BY DEF NewItem
<1>. QED  BY <1>4, <1>6, <1>7, <1>11, <1>12, <1>13, <1>14, <1>15, <1>16 DEF GotNew, m, l

\* What a change of one item does besides.
ChangedOne(l) ==
    /\ Lose(l)
    /\ UNCHANGED <<conn, uid, roles, pid, nextLocal, rows, nextIid, d2s, awaiting, loaded, origin>>

LEMMA TrashItemDoes ==
    ASSUME TypesInv, NEW l, OnTrashItem(l)
    PROVE  /\ l \in DOMAIN bag.items /\ ~bag.items[l].worn /\ conn /\ "INGAME" \in roles
           /\ bag' \in Bag /\ IsTrashed(bag', bag, l)
           /\ Sent([type |-> "S2D_TRASHITEM", iid |-> bag.items[l].iid])
           /\ ChangedOne(l) /\ UNCHANGED <<mixed, early>>
<1>1. /\ l \in DOMAIN bag.items /\ ~bag.items[l].worn /\ conn /\ "INGAME" \in roles
      /\ bag \in Bag /\ ChangedOne(l) /\ UNCHANGED <<mixed, early>>
  BY DEF OnTrashItem, CanTrash, CanHandle, TypesInv, ChangedOne
<1>2. bag' \in Bag /\ IsTrashed(bag', bag, l)
  BY <1>1, TrashDoes DEF OnTrashItem
<1>3. [type |-> "S2D_TRASHITEM", iid |-> bag.items[l].iid] \in ToDb
  BY <1>1, ItemTypes DEF Info, ToDb
<1>4. Sent([type |-> "S2D_TRASHITEM", iid |-> bag.items[l].iid])
  BY <1>3, SendDoes DEF OnTrashItem
<1>. QED  BY <1>1, <1>2, <1>4

LEMMA InfoSent ==
    ASSUME TypesInv, NEW l \in DOMAIN bag.items, NEW w \in BOOLEAN, SendInfo(l, w)
    PROVE  Sent([type |-> "S2D_UPDATEITEMINFO", iid |-> bag.items[l].iid, worn |-> w])
<1>1. bag.items[l] \in Info
  BY ItemTypes DEF TypesInv
<1>2. [type |-> "S2D_UPDATEITEMINFO", iid |-> bag.items[l].iid, worn |-> w] \in ToDb
  BY <1>1 DEF Info, ToDb
<1>. QED  BY <1>2, SendDoes DEF SendInfo

LEMMA PutOnItemDoes ==
    ASSUME TypesInv, NEW l, OnPutOnItem(l)
    PROVE  /\ CanPutOn(bag, l) /\ conn /\ "INGAME" \in roles
           /\ l \in DOMAIN bag.items /\ bag' \in Bag /\ IsPutOn(bag', bag, l)
           /\ Sent([type |-> "S2D_UPDATEITEMINFO", iid |-> bag.items[l].iid, worn |-> TRUE])
           /\ ChangedOne(l) /\ mixed' = mixed /\ early' = (early \/ ~loaded)
<1>1. /\ l \in DOMAIN bag.items /\ CanPutOn(bag, l) /\ conn /\ "INGAME" \in roles
      /\ bag \in Bag /\ ChangedOne(l) /\ mixed' = mixed /\ early' = (early \/ ~loaded)
  BY DEF OnPutOnItem, CanPutOn, CanHandle, TypesInv, ChangedOne
<1>2. bag' \in Bag /\ IsPutOn(bag', bag, l)
  BY <1>1, PutOnDoes DEF OnPutOnItem
<1>3. Sent([type |-> "S2D_UPDATEITEMINFO", iid |-> bag.items[l].iid, worn |-> TRUE])
  BY <1>1, InfoSent DEF OnPutOnItem
<1>. QED  BY <1>1, <1>2, <1>3

LEMMA PutOffItemDoes ==
    ASSUME TypesInv, NEW l, OnPutOffItem(l)
    PROVE  /\ CanPutOff(bag, l) /\ conn /\ "INGAME" \in roles
           /\ l \in DOMAIN bag.items /\ bag' \in Bag /\ IsPutOff(bag', bag, l)
           /\ Sent([type |-> "S2D_UPDATEITEMINFO", iid |-> bag.items[l].iid, worn |-> FALSE])
           /\ ChangedOne(l) /\ UNCHANGED <<mixed, early>>
<1>1. /\ l \in DOMAIN bag.items /\ CanPutOff(bag, l) /\ conn /\ "INGAME" \in roles
      /\ bag \in Bag /\ ChangedOne(l) /\ UNCHANGED <<mixed, early>>
  BY DEF OnPutOffItem, CanPutOff, CanHandle, TypesInv, ChangedOne
<1>2. bag' \in Bag /\ IsPutOff(bag', bag, l)
  BY <1>1, PutOffDoes DEF OnPutOffItem
<1>3. Sent([type |-> "S2D_UPDATEITEMINFO", iid |-> bag.items[l].iid, worn |-> FALSE])
  BY <1>1, InfoSent DEF OnPutOffItem
<1>. QED  BY <1>1, <1>2, <1>3

\* Where the head of d2s is an answer with items.
Loads(new, local, size) ==
    /\ d2s[1].type = "D2S_LOADITEMS" /\ d2s[1].uid = uid /\ conn /\ d2s[1].rows \in Maps(Row)
    /\ size \in Nat /\ new \in Maps(Info) /\ local \in Maps(Nat)
    /\ IsBrought(new, local, d2s[1].rows, nextLocal, size)
    /\ bag' \in Bag /\ IsInserted(bag', bag, new)
    /\ nextLocal' = nextLocal + size /\ awaiting' = awaiting - 1 /\ loaded' = TRUE
    /\ origin' = Added(local, origin)
    /\ mixed' = (mixed \/ "INGAME" \in roles \/ DOMAIN bag.items # {})
    /\ Heard /\ UNCHANGED <<conn, uid, roles, pid, rows, nextIid, s2d, lost, early>>

LEMMA LoadItemsDoes ==
    ASSUME TypesInv, NumbersInv, OnLoadItems
    PROVE  \E new, local, size : Loads(new, local, size)
<1>. DEFINE sent == Head(d2s).rows
            local == Numbers(sent, nextLocal)
            new == Brought(sent, local)
            size == Cardinality(DOMAIN sent)
<1>1. Heard /\ Head(d2s).type = "D2S_LOADITEMS" /\ Head(d2s).uid = uid /\ conn
  BY AnsweredDoes DEF OnLoadItems, Answered, ForUid
<1>2. sent \in Maps(Row) /\ Down("D2S_LOADITEMS", 1) /\ sent = d2s[1].rows
  BY <1>1, ToGameFields DEF Heard, Down
<1>3. /\ bag \in Bag /\ nextLocal \in Nat /\ nextIid \in Nat
      /\ \A i \in DOMAIN sent : i <= nextIid
  <2>1. bag \in Bag /\ nextLocal \in Nat /\ nextIid \in Nat
    BY DEF TypesInv
  <2>2. \A i \in DOMAIN sent : i \in Nat /\ i < nextIid
    BY <1>2, InMaps DEF NumbersInv, DownNumbers, DownGiven, Down
  <2>. QED  BY <2>1, <2>2
<1>4. /\ bag' = Insert(bag, new) /\ nextLocal' = nextLocal + size /\ awaiting' = awaiting - 1
      /\ loaded' = TRUE /\ origin' = Added(local, origin)
      /\ mixed' = (mixed \/ "INGAME" \in roles \/ DOMAIN bag.items # {})
      /\ UNCHANGED <<conn, uid, roles, pid, rows, nextIid, s2d, lost, early>>
  BY DEF OnLoadItems, Numbers, RowsTo, Brought
<1>. HIDE DEF sent
<1>5. /\ size \in Nat /\ new \in Maps(Info) /\ local \in Maps(Nat)
      /\ IsBrought(new, local, sent, nextLocal, size)
  BY <1>2, <1>3, NumberingDoes
<1>. HIDE DEF local, new, size
<1>6. \A l \in DOMAIN new : l \in Nat /\ l <= nextLocal + size
  BY <1>3, <1>5 DEF IsBrought
<1>7. bag' \in Bag /\ IsInserted(bag', bag, new)
  BY <1>3, <1>4, <1>5, <1>6, InsertDoes
<1>8. Loads(new, local, size)
  BY <1>1, <1>2, <1>4, <1>5, <1>7 DEF Loads, Heard
<1>. QED  BY <1>8

\* Where it is the IID of an item.
Learns(l, i) ==
    /\ d2s[1].type = "D2S_UPDATEITEMIID" /\ d2s[1].uid = uid /\ conn
    /\ l = d2s[1].local /\ i = d2s[1].iid /\ l \in Nat /\ i \in Nat /\ bag' \in Bag
    /\ l \in DOMAIN bag.items => Replaces(bag', bag, l, [bag.items[l] EXCEPT !.iid = i])
    /\ l \notin DOMAIN bag.items => bag' = bag
    /\ SameWear(bag', bag)
    /\ Heard /\ UNCHANGED <<conn, uid, roles, pid, nextLocal, rows, nextIid, s2d, history>>

LEMMA UpdateItemIIDDoes ==
    ASSUME TypesInv, OnUpdateItemIID
    PROVE  \E l, i : Learns(l, i)
<1>. DEFINE l == Head(d2s).local
            i == Head(d2s).iid
            it == [bag.items[l] EXCEPT !.iid = i]
<1>1. /\ Heard /\ Head(d2s).type = "D2S_UPDATEITEMIID" /\ Head(d2s).uid = uid /\ conn
      /\ UNCHANGED <<conn, uid, roles, pid, nextLocal, rows, nextIid, s2d, history>>
  BY AnsweredDoes DEF OnUpdateItemIID, Answered, ForUid
<1>2. l \in Nat /\ i \in Nat /\ bag \in Bag
  BY <1>1, ToGameFields DEF Heard, TypesInv
<1>3. bag' = IF l \in DOMAIN bag.items THEN [bag EXCEPT !.items[l].iid = i] ELSE bag
  BY DEF OnUpdateItemIID
<1>4. CASE l \in DOMAIN bag.items
  <2>1. it \in Info
    BY <1>2, <1>4, ItemTypes
  <2>2. bag' = [bag EXCEPT !.items[l] = it]
    BY <1>3, <1>4
  <2>3. bag' \in Bag /\ SameWear(bag', bag) /\ Replaces(bag', bag, l, it)
    BY <1>2, <1>4, <2>1, <2>2, SetItem, SetOne
  <2>4. Learns(l, i)
    BY <1>1, <1>2, <1>4, <2>3 DEF Learns, Heard
  <2>. QED  BY <2>4
<1>5. CASE l \notin DOMAIN bag.items
  <2>1. Learns(l, i)
    BY <1>1, <1>2, <1>3, <1>5 DEF Learns, Heard, SameWear
  <2>. QED  BY <2>1
<1>. QED  BY <1>4, <1>5

\* What the database server does with the head of s2d.
Kind(t) == Fetched /\ s2d[1].type = t /\ UNCHANGED <<game, awaiting, loaded, lost, mixed, early>>

Inserts ==
    /\ Kind("S2D_INSERTITEM") /\ rows' \in Maps(Row) /\ origin' \in Maps(Nat)
    /\ s2d[1].pid \in Pids /\ s2d[1].index \in Indexes
    /\ nextIid' = nextIid + 1
    /\ DOMAIN rows' = DOMAIN rows \cup {nextIid}
    /\ rows'[nextIid] = [pid |-> s2d[1].pid, index |-> s2d[1].index,
                         num |-> s2d[1].num, worn |-> FALSE]
    /\ \A i \in DOMAIN rows \ {nextIid} : rows'[i] = rows[i]
    /\ DOMAIN origin' = DOMAIN origin \cup {nextIid} /\ origin'[nextIid] = s2d[1].local
    /\ \A i \in DOMAIN origin \ {nextIid} : origin'[i] = origin[i]
    /\ Answered1([type |-> "D2S_UPDATEITEMIID", uid |-> s2d[1].uid,
                  local |-> s2d[1].local, iid |-> nextIid])

SameRows == DOMAIN rows' = DOMAIN rows /\ rows' \in Maps(Row)

SetsNum ==
    /\ Kind("S2D_UPDATEITEMNUM") /\ SameRows /\ UNCHANGED <<nextIid, d2s, origin>>
    /\ \A i \in DOMAIN rows :
          /\ rows'[i].pid = rows[i].pid /\ rows'[i].index = rows[i].index
          /\ rows'[i].worn = rows[i].worn
          /\ i = s2d[1].iid => rows'[i].num = s2d[1].num
          /\ i # s2d[1].iid => rows'[i] = rows[i]

SetsWorn ==
    /\ Kind("S2D_UPDATEITEMINFO") /\ SameRows /\ UNCHANGED <<nextIid, d2s, origin>>
    /\ \A i \in DOMAIN rows :
          /\ rows'[i].pid = rows[i].pid /\ rows'[i].index = rows[i].index
          /\ rows'[i].num = rows[i].num
          /\ i = s2d[1].iid => rows'[i].worn = s2d[1].worn
          /\ i # s2d[1].iid => rows'[i] = rows[i]

Deletes ==
    /\ Kind("S2D_TRASHITEM") /\ rows' \in Maps(Row) /\ UNCHANGED <<nextIid, d2s, origin>>
    /\ DOMAIN rows' = DOMAIN rows \ {s2d[1].iid}
    /\ \A i \in DOMAIN rows' : rows'[i] = rows[i]

Lists ==
    /\ Kind("S2D_PLAYERS") /\ UNCHANGED <<rows, nextIid, origin>>
    /\ Answered1([type |-> "D2S_PLAYER_INFO", uid |-> s2d[1].uid])

Reads(sent) ==
    /\ Kind("S2D_LOADPLAYER") /\ UNCHANGED <<rows, nextIid, origin>>
    /\ s2d[1].pid \in Pids
    /\ DOMAIN sent = RowsOf(s2d[1].pid) /\ \A i \in DOMAIN sent : sent[i] = rows[i]
    /\ sent \in Maps(Row)
    /\ Answered2([type |-> "D2S_LOADPLAYER", uid |-> s2d[1].uid, pid |-> s2d[1].pid],
                 [type |-> "D2S_LOADITEMS", uid |-> s2d[1].uid, rows |-> sent])

Refuses ==
    /\ Kind("S2D_LOADPLAYER") /\ s2d[1].pid = NoPid /\ UNCHANGED <<rows, nextIid, origin>>
    /\ Answered1([type |-> "D2S_LOADPLAYER", uid |-> s2d[1].uid, pid |-> NoPid])

LEMMA SetField ==
    ASSUME NEW r \in Maps(Row), NEW i \in DOMAIN r, NEW v \in Row
    PROVE  /\ [r EXCEPT ![i] = v] \in Maps(Row) /\ DOMAIN [r EXCEPT ![i] = v] = DOMAIN r
           /\ [r EXCEPT ![i] = v][i] = v
           /\ \A k \in DOMAIN r \ {i} : [r EXCEPT ![i] = v][k] = r[k]
  BY InMaps

LEMMA ReplyDoes ==
    ASSUME TypesInv, NEW t, Received(t), NEW packets, Reply(packets)
    PROVE  Kind(t) /\ UNCHANGED origin /\ d2s' = d2s \o packets
  BY ReceivedDoes DEF Reply, Kind, history

LEMMA NoReply ==
    ASSUME TypesInv, d2s' = d2s \o <<>>
    PROVE  d2s' = d2s
  BY ConcatEmptySeq DEF TypesInv

LEMMA DbPlayersDoes ==
    ASSUME TypesInv, DbPlayers
    PROVE  Lists
<1>1. Kind("S2D_PLAYERS") /\ UNCHANGED <<rows, nextIid, origin>>
      /\ d2s' = d2s \o <<[type |-> "D2S_PLAYER_INFO", uid |-> s2d[1].uid]>>
  BY ReplyDoes DEF DbPlayers, Kind, Fetched
<1>2. [type |-> "D2S_PLAYER_INFO", uid |-> s2d[1].uid] \in ToGame
  BY <1>1, ToDbFields DEF Kind, Fetched, ToGame
<1>. QED  BY <1>1, <1>2, ReplyOne DEF Lists, Refuses

LEMMA DbLoadPlayerDoes ==
    ASSUME TypesInv, DbLoadPlayer, s2d[1].pid # NoPid
    PROVE  \E sent : Reads(sent)
<1>. DEFINE sent == [i \in RowsOf(Head(s2d).pid) |-> rows[i]]
            a == [type |-> "D2S_LOADPLAYER", uid |-> Head(s2d).uid, pid |-> Head(s2d).pid]
            b == [type |-> "D2S_LOADITEMS", uid |-> Head(s2d).uid, rows |-> sent]
<1>0. Kind("S2D_LOADPLAYER")
  BY ReplyDoes DEF DbLoadPlayer
<1>2. /\ Head(s2d) = s2d[1] /\ Head(s2d).uid \in Nat /\ Head(s2d).pid \in Pids
  BY <1>0, ToDbFields DEF Kind, Fetched
<1>1. Kind("S2D_LOADPLAYER") /\ UNCHANGED <<rows, nextIid, origin>> /\ d2s' = d2s \o <<a, b>>
  <2>1. Received("S2D_LOADPLAYER") /\ Reply(<<a, b>>) /\ UNCHANGED <<rows, nextIid>>
    BY <1>2 DEF DbLoadPlayer
  <2>. QED  BY <2>1, ReplyDoes
<1>3. sent \in Maps(Row)
  <2>1. /\ DOMAIN sent \subseteq DOMAIN rows /\ sent = [i \in DOMAIN sent |-> sent[i]]
        /\ \A i \in DOMAIN sent : sent[i] = rows[i]
    BY DEF RowsOf
  <2>2. rows \in Maps(Row)
    BY DEF TypesInv
  <2>. HIDE DEF sent
  <2>3. DOMAIN sent \subseteq Nat \ {0} /\ \A i \in DOMAIN sent : sent[i] \in Row
    BY <2>1, <2>2, InMaps
  <2>. QED  BY <2>1, <2>3, InMaps
<1>4. DOMAIN sent = RowsOf(Head(s2d).pid) /\ \A i \in DOMAIN sent : sent[i] = rows[i]
  OBVIOUS
<1>. HIDE DEF sent
<1>5. a \in ToGame /\ b \in ToGame
  BY <1>2, <1>3 DEF ToGame
<1>. HIDE DEF a, b
<1>6. Answered2(a, b)
  BY <1>1, <1>5, ReplyTwo
<1>7. Reads(sent)
  BY <1>1, <1>2, <1>3, <1>4, <1>6 DEF Reads, a, b
<1>. QED  BY <1>7

LEMMA DbRefusesDoes ==
    ASSUME TypesInv, DbLoadPlayer, s2d[1].pid = NoPid
    PROVE  Refuses
<1>. DEFINE a == [type |-> "D2S_LOADPLAYER", uid |-> s2d[1].uid, pid |-> NoPid]
<1>1. Kind("S2D_LOADPLAYER")
  BY ReplyDoes DEF DbLoadPlayer
<1>2. Head(s2d) = s2d[1] /\ s2d[1].uid \in Nat /\ NoPid \notin Pids
  BY <1>1, ToDbFields, NoPidAssumption DEF Kind, Fetched
<1>3. UNCHANGED <<rows, nextIid, origin>> /\ d2s' = d2s \o <<a>>
  <2>1. Received("S2D_LOADPLAYER") /\ Reply(<<a>>) /\ UNCHANGED <<rows, nextIid>>
    BY <1>2 DEF DbLoadPlayer
  <2>. QED  BY <2>1, ReplyDoes
<1>4. a \in ToGame
  BY <1>2 DEF ToGame
<1>. HIDE DEF a
<1>5. Answered1(a)
  BY <1>3, <1>4, ReplyOne
<1>. QED  BY <1>1, <1>3, <1>5 DEF Refuses, a

LEMMA DbInsertItemDoes ==
    ASSUME TypesInv, DbInsertItem
    PROVE  Inserts
<1>. DEFINE row == [pid |-> Head(s2d).pid, index |-> Head(s2d).index,
                    num |-> Head(s2d).num, worn |-> FALSE]
            a == [type |-> "D2S_UPDATEITEMIID", uid |-> Head(s2d).uid,
                  local |-> Head(s2d).local, iid |-> nextIid]
<1>1. Kind("S2D_INSERTITEM")
  BY ReceivedDoes DEF DbInsertItem, Kind
<1>2. /\ Head(s2d) = s2d[1] /\ Head(s2d).uid \in Nat /\ Head(s2d).pid \in Pids
      /\ Head(s2d).local \in Nat /\ Head(s2d).index \in Indexes /\ Head(s2d).num \in 1 .. MaxNum
  BY <1>1, ToDbFields DEF Kind, Fetched
<1>3. rows \in Maps(Row) /\ origin \in Maps(Nat) /\ nextIid \in Nat \ {0}
  BY DEF TypesInv
<1>4. row \in Row /\ a \in ToGame
  BY <1>2, <1>3 DEF Row, ToGame
<1>5. /\ rows' = Added([i \in {nextIid} |-> row], rows)
      /\ origin' = Added([i \in {nextIid} |-> Head(s2d).local], origin)
      /\ nextIid' = nextIid + 1 /\ d2s' = Append(d2s, a)
  BY DEF DbInsertItem
<1>6. Answered1(a)
  <2>1. d2s \in Seq(ToGame)
    BY DEF TypesInv
  <2>. QED  BY <1>4, <1>5, <2>1, AppendProperties DEF Answered1
<1>. HIDE DEF row, a
<1>7. /\ [i \in {nextIid} |-> row] \in Maps(Row) /\ DOMAIN [i \in {nextIid} |-> row] = {nextIid}
      /\ [i \in {nextIid} |-> row][nextIid] = row
  BY <1>3, <1>4, OneEntry
<1>8. /\ rows' \in Maps(Row) /\ DOMAIN rows' = DOMAIN rows \cup {nextIid}
      /\ rows'[nextIid] = row /\ \A i \in DOMAIN rows \ {nextIid} : rows'[i] = rows[i]
  <2>. DEFINE new == [i \in {nextIid} |-> row]
  <2>1. new \in Maps(Row) /\ DOMAIN new = {nextIid} /\ new[nextIid] = row
        /\ rows' = Added(new, rows) /\ rows \in Maps(Row)
    BY <1>3, <1>5, <1>7
  <2>. HIDE DEF new
  <2>2. rows' \in Maps(Row) /\ IsAdded(rows', new, rows)
    BY <2>1, AddedMap
  <2>. QED  BY <2>1, <2>2 DEF IsAdded
<1>9. /\ origin' \in Maps(Nat) /\ DOMAIN origin' = DOMAIN origin \cup {nextIid}
      /\ origin'[nextIid] = Head(s2d).local
      /\ \A i \in DOMAIN origin \ {nextIid} : origin'[i] = origin[i]
  <2>. DEFINE new == [i \in {nextIid} |-> Head(s2d).local]
  <2>1. /\ new \in Maps(Nat) /\ DOMAIN new = {nextIid} /\ new[nextIid] = Head(s2d).local
        /\ origin' = Added(new, origin) /\ origin \in Maps(Nat)
    BY <1>2, <1>3, <1>5, OneEntry
  <2>. HIDE DEF new
  <2>2. origin' \in Maps(Nat) /\ IsAdded(origin', new, origin)
    BY <2>1, AddedMap
  <2>. QED  BY <2>1, <2>2 DEF IsAdded
<1>. QED  BY <1>1, <1>2, <1>5, <1>6, <1>8, <1>9 DEF Inserts, row, a

LEMMA RowFields ==
    ASSUME NEW row \in Row
    PROVE  /\ \A n \in 1 .. MaxNum : [row EXCEPT !.num = n] \in Row
           /\ \A w \in BOOLEAN : [row EXCEPT !.worn = w] \in Row
  BY DEF Row

LEMMA DbUpdateItemNumDoes ==
    ASSUME TypesInv, DbUpdateItemNum
    PROVE  SetsNum
<1>. DEFINE i == Head(s2d).iid
            n == Head(s2d).num
<1>1. Kind("S2D_UPDATEITEMNUM") /\ UNCHANGED <<nextIid, origin, d2s>> /\ Head(s2d) = s2d[1]
  BY ReplyDoes, NoReply DEF DbUpdateItemNum, Kind, Fetched
<1>2. rows \in Maps(Row) /\ n \in 1 .. MaxNum
  BY <1>1, ToDbFields DEF TypesInv, Kind, Fetched
<1>3. CASE i \in DOMAIN rows
  <2>. DEFINE row == [rows[i] EXCEPT !.num = n]
  <2>1. rows[i] \in Row
    BY <1>2, <1>3, InMaps
  <2>2. /\ row \in Row /\ row.pid = rows[i].pid /\ row.index = rows[i].index
        /\ row.worn = rows[i].worn /\ row.num = n
    BY <1>2, <2>1, RowFields DEF Row
  <2>3. rows' = [rows EXCEPT ![i] = row]
    BY <1>3 DEF DbUpdateItemNum
  <2>. HIDE DEF row
  <2>4. /\ rows' \in Maps(Row) /\ DOMAIN rows' = DOMAIN rows /\ rows'[i] = row
        /\ \A k \in DOMAIN rows \ {i} : rows'[k] = rows[k]
    BY <1>2, <1>3, <2>2, <2>3, SetField
  <2>. QED  BY <1>1, <1>3, <2>2, <2>4 DEF SetsNum, SameRows
<1>4. CASE i \notin DOMAIN rows
  <2>1. rows' = rows
    BY <1>4 DEF DbUpdateItemNum
  <2>. QED  BY <1>1, <1>2, <1>4, <2>1 DEF SetsNum, SameRows
<1>. QED  BY <1>3, <1>4

LEMMA DbUpdateItemInfoDoes ==
    ASSUME TypesInv, DbUpdateItemInfo
    PROVE  SetsWorn
<1>. DEFINE i == Head(s2d).iid
            w == Head(s2d).worn
<1>1. Kind("S2D_UPDATEITEMINFO") /\ UNCHANGED <<nextIid, origin, d2s>> /\ Head(s2d) = s2d[1]
  BY ReplyDoes, NoReply DEF DbUpdateItemInfo, Kind, Fetched
<1>2. rows \in Maps(Row) /\ w \in BOOLEAN
  BY <1>1, ToDbFields DEF TypesInv, Kind, Fetched
<1>3. CASE i \in DOMAIN rows
  <2>. DEFINE row == [rows[i] EXCEPT !.worn = w]
  <2>1. rows[i] \in Row
    BY <1>2, <1>3, InMaps
  <2>2. /\ row \in Row /\ row.pid = rows[i].pid /\ row.index = rows[i].index
        /\ row.worn = w /\ row.num = rows[i].num
    BY <1>2, <2>1, RowFields DEF Row
  <2>3. rows' = [rows EXCEPT ![i] = row]
    BY <1>3 DEF DbUpdateItemInfo
  <2>. HIDE DEF row
  <2>4. /\ rows' \in Maps(Row) /\ DOMAIN rows' = DOMAIN rows /\ rows'[i] = row
        /\ \A k \in DOMAIN rows \ {i} : rows'[k] = rows[k]
    BY <1>2, <1>3, <2>2, <2>3, SetField
  <2>. QED  BY <1>1, <1>3, <2>2, <2>4 DEF SetsWorn, SameRows
<1>4. CASE i \notin DOMAIN rows
  <2>1. rows' = rows
    BY <1>4 DEF DbUpdateItemInfo
  <2>. QED  BY <1>1, <1>2, <1>4, <2>1 DEF SetsWorn, SameRows
<1>. QED  BY <1>3, <1>4

LEMMA DbTrashItemDoes ==
    ASSUME TypesInv, DbTrashItem
    PROVE  Deletes
<1>1. Kind("S2D_TRASHITEM") /\ UNCHANGED <<nextIid, origin, d2s>> /\ Head(s2d) = s2d[1]
  BY ReplyDoes, NoReply DEF DbTrashItem, Kind, Fetched
<1>2. rows' = [i \in DOMAIN rows \ {s2d[1].iid} |-> rows[i]]
  BY <1>1 DEF DbTrashItem
<1>3. DOMAIN rows' = DOMAIN rows \ {s2d[1].iid} /\ \A i \in DOMAIN rows' : rows'[i] = rows[i]
  BY <1>2
<1>4. rows' \in Maps(Row)
  <2>1. rows' = [i \in DOMAIN rows' |-> rows'[i]]
    BY <1>2
  <2>2. rows \in Maps(Row)
    BY DEF TypesInv
  <2>3. DOMAIN rows' \subseteq Nat \ {0} /\ \A i \in DOMAIN rows' : rows'[i] \in Row
    BY <1>3, <2>2, InMaps
  <2>. QED  BY <2>1, <2>3, InMaps
<1>. QED  BY <1>1, <1>3, <1>4 DEF Deletes

Connects ==
    /\ ~conn /\ conn' = TRUE /\ uid' = uid + 1
    /\ Sent([type |-> "S2D_PLAYERS", uid |-> uid + 1])
    /\ UNCHANGED <<roles, pid, bag, nextLocal, rows, nextIid, d2s, history>>

Asks ==
    /\ conn /\ Sent([type |-> "S2D_PLAYERS", uid |-> uid])
    /\ UNCHANGED <<game, rows, nextIid, d2s, history>>

AsksLoad(p) ==
    /\ conn /\ "LOBBY" \in roles /\ roles' = (roles \cup {"LOADING"}) \ {"LOBBY"}
    /\ Sent([type |-> "S2D_LOADPLAYER", uid |-> uid, pid |-> p])
    /\ awaiting' = awaiting + 1
    /\ mixed' = (mixed \/ awaiting > 0 \/ DOMAIN bag.items # {})
    /\ UNCHANGED <<conn, uid, pid, bag, nextLocal, rows, nextIid, d2s, loaded, lost, origin, early>>

Starts ==
    /\ conn /\ "LOADING" \in roles /\ roles' = (roles \cup {"INGAME"}) \ {"LOADING"}
    /\ UNCHANGED <<conn, uid, pid, bag, nextLocal, rows, nextIid, s2d, d2s, history>>

Restarts ==
    /\ conn /\ "INGAME" \in roles /\ roles' = roles \ {"INGAME"} /\ bag' = EmptyBag
    /\ Sent([type |-> "S2D_PLAYERS", uid |-> uid])
    /\ loaded' = FALSE
    /\ UNCHANGED <<conn, uid, pid, nextLocal, rows, nextIid, d2s, awaiting, lost, origin, mixed, early>>

AddsTo(l, n) ==
    /\ l \in DOMAIN bag.items /\ n \in 1 .. MaxNum /\ conn /\ pid # NoPid
    /\ bag' \in Bag /\ SameWear(bag', bag)
    /\ Replaces(bag', bag, l, [bag.items[l] EXCEPT !.num = n])
    /\ Sent([type |-> "S2D_UPDATEITEMNUM", iid |-> bag.items[l].iid, num |-> n])
    /\ ChangedOne(l) /\ UNCHANGED <<mixed, early>>

Trashes(l) ==
    /\ l \in DOMAIN bag.items /\ ~bag.items[l].worn /\ conn /\ "INGAME" \in roles
    /\ bag' \in Bag /\ IsTrashed(bag', bag, l)
    /\ Sent([type |-> "S2D_TRASHITEM", iid |-> bag.items[l].iid])
    /\ ChangedOne(l) /\ UNCHANGED <<mixed, early>>

PutsOn(l) ==
    /\ CanPutOn(bag, l) /\ conn /\ "INGAME" \in roles
    /\ l \in DOMAIN bag.items /\ bag' \in Bag /\ IsPutOn(bag', bag, l)
    /\ Sent([type |-> "S2D_UPDATEITEMINFO", iid |-> bag.items[l].iid, worn |-> TRUE])
    /\ ChangedOne(l) /\ mixed' = mixed /\ early' = (early \/ ~loaded)

PutsOff(l) ==
    /\ CanPutOff(bag, l) /\ conn /\ "INGAME" \in roles
    /\ l \in DOMAIN bag.items /\ bag' \in Bag /\ IsPutOff(bag', bag, l)
    /\ Sent([type |-> "S2D_UPDATEITEMINFO", iid |-> bag.items[l].iid, worn |-> FALSE])
    /\ ChangedOne(l) /\ UNCHANGED <<mixed, early>>

Drops == Heard /\ ~(conn /\ d2s[1].uid = uid) /\ UNCHANGED <<game, rows, nextIid, s2d, history>>

Told(t) == Heard /\ conn /\ d2s[1].uid = uid /\ d2s[1].type = t

GetsPlayers ==
    /\ Told("D2S_PLAYER_INFO") /\ roles' = roles \cup {"LOBBY"}
    /\ UNCHANGED <<conn, uid, pid, bag, nextLocal, rows, nextIid, s2d, history>>

GetsPlayer ==
    /\ Told("D2S_LOADPLAYER") /\ pid' = d2s[1].pid /\ pid' \in Pids
    /\ UNCHANGED <<conn, uid, roles, bag, nextLocal, rows, nextIid, s2d, history>>

IsRefused ==
    /\ Told("D2S_LOADPLAYER") /\ d2s[1].pid = NoPid /\ awaiting' = awaiting - 1
    /\ UNCHANGED <<game, rows, nextIid, s2d, loaded, lost, origin, mixed, early>>

\* A step of the connection, of a handler, of the database server, of a callback.
LifeStep == \/ UNCHANGED vars \/ Connects \/ Asks \/ (\E p \in Pids \cup {NoPid} : AsksLoad(p))
            \/ Starts \/ Restarts \/ OnDisconnected \/ Crash
ItemStep == \/ \E l, n : AddsTo(l, n)
            \/ \E i \in Indexes : GotNew(i) /\ conn /\ pid # NoPid
            \/ \E l : Trashes(l) \/ PutsOn(l) \/ PutsOff(l)
DbStep == Lists \/ Refuses \/ (\E sent : Reads(sent)) \/ Inserts \/ SetsNum \/ SetsWorn \/ Deletes
ListenerStep == \/ Drops \/ GetsPlayers \/ GetsPlayer \/ IsRefused
                \/ \E new, local, size : Loads(new, local, size)
                \/ \E l, i : Learns(l, i)

LEMMA StepCases ==
    ASSUME TypesInv, NumbersInv, [Next]_vars
    PROVE  LifeStep \/ ItemStep \/ DbStep \/ ListenerStep
<1>1. uid \in Nat
  BY DEF TypesInv
<1>2. ASSUME Connect PROVE Connects
  <2>1. [type |-> "S2D_PLAYERS", uid |-> uid + 1] \in ToDb
    BY <1>1 DEF ToDb
  <2>. QED  BY <1>2, <2>1, SendDoes DEF Connect, Connects
<1>3. [type |-> "S2D_PLAYERS", uid |-> uid] \in ToDb
  BY <1>1 DEF ToDb
<1>4. ASSUME OnPlayersRequest PROVE Asks
  BY <1>3, <1>4, SendDoes DEF OnPlayersRequest, Asks, CanHandle
<1>5. ASSUME NEW p \in Pids \cup {NoPid}, OnLoadPlayerRequest(p) PROVE AsksLoad(p)
  <2>1. [type |-> "S2D_LOADPLAYER", uid |-> uid, pid |-> p] \in ToDb
    BY <1>1 DEF ToDb
  <2>. QED  BY <1>5, <2>1, SendDoes DEF OnLoadPlayerRequest, AsksLoad, CanHandle
<1>6. ASSUME OnStart PROVE Starts
  BY <1>6 DEF OnStart, Starts, CanHandle
<1>7. ASSUME OnRestart PROVE Restarts
  BY <1>3, <1>7, SendDoes DEF OnRestart, Restarts, CanHandle, Reset
<1>8. ASSUME NEW i \in Indexes, InsertItem(i, 1) PROVE ItemStep
  <2>1. conn /\ pid # NoPid
    BY <1>8 DEF InsertItem, CanHandle
  <2>2. CASE AddToItem(i, 1)
    BY <2>1, <2>2, AddDoes DEF AddsTo, ChangedOne, ItemStep
  <2>3. CASE NewItem(i, 1)
    BY <2>1, <2>3, NewDoes DEF ItemStep
  <2>. QED  BY <1>8, <2>2, <2>3 DEF InsertItem
<1>9. ASSUME NEW l \in Locals, OnTrashItem(l) \/ OnPutOnItem(l) \/ OnPutOffItem(l)
      PROVE  ItemStep
  <2>1. CASE OnTrashItem(l)
    BY <2>1, TrashItemDoes DEF Trashes, ItemStep
  <2>2. CASE OnPutOnItem(l)
    BY <2>2, PutOnItemDoes DEF PutsOn, ItemStep
  <2>3. CASE OnPutOffItem(l)
    BY <2>3, PutOffItemDoes DEF PutsOff, ItemStep
  <2>. QED  BY <1>9, <2>1, <2>2, <2>3
<1>10. ASSUME Db PROVE DbStep
  BY <1>10, DbPlayersDoes, DbLoadPlayerDoes, DbRefusesDoes, DbInsertItemDoes, DbUpdateItemNumDoes,
     DbUpdateItemInfoDoes, DbTrashItemDoes DEF Db, DbStep
<1>11. ASSUME Listener PROVE ListenerStep
  <2>1. CASE ListenerDropped
    <3>1. Heard
      BY <2>1, AnsweredDoes DEF ListenerDropped
    <3>. QED  BY <2>1, <3>1 DEF ListenerDropped, ForUid, Heard, Drops, ListenerStep
  <2>2. CASE OnPlayerInfo
    <3>1. Heard
      BY <2>2, AnsweredDoes DEF OnPlayerInfo, Answered
    <3>. QED  BY <2>2, <3>1 DEF OnPlayerInfo, Answered, ForUid, Heard, Told, GetsPlayers, ListenerStep
  <2>3. CASE OnLoadPlayer
    <3>1. Heard
      BY <2>3, AnsweredDoes DEF OnLoadPlayer, Answered
    <3>2. Head(d2s).pid \in Pids \cup {NoPid}
      BY <2>3, <3>1, ToGameFields DEF OnLoadPlayer, Answered, Heard
    <3>3. Told("D2S_LOADPLAYER") /\ Head(d2s) = d2s[1]
      BY <2>3, <3>1 DEF OnLoadPlayer, Answered, ForUid, Heard, Told
    <3>4. CASE Head(d2s).pid # NoPid
      <4>1. GetsPlayer
        BY <2>3, <3>2, <3>3, <3>4 DEF OnLoadPlayer, GetsPlayer, history
      <4>. QED  BY <4>1 DEF ListenerStep
    <3>5. CASE Head(d2s).pid = NoPid
      <4>1. IsRefused
        BY <2>3, <3>3, <3>5 DEF OnLoadPlayer, IsRefused, game
      <4>. QED  BY <4>1 DEF ListenerStep
    <3>. QED  BY <3>4, <3>5
  <2>4. CASE OnLoadItems
    BY <2>4, LoadItemsDoes DEF ListenerStep
  <2>5. CASE OnUpdateItemIID
    BY <2>5, UpdateItemIIDDoes DEF ListenerStep
  <2>. QED  BY <1>11, <2>1, <2>2, <2>3, <2>4, <2>5 DEF Listener
<1>. QED  BY <1>2, <1>4, <1>5, <1>6, <1>7, <1>8, <1>9, <1>10, <1>11 DEF Next, LifeStep

LEMMA TypesStep ==
    ASSUME TypesInv, LifeStep \/ ItemStep \/ DbStep \/ ListenerStep
    PROVE  TypesInv'
<1>. USE DEF TypesInv, game, history
<1>1. CASE LifeStep
  <2>1. CASE UNCHANGED vars
    BY <2>1 DEF vars
  <2>2. CASE Connects
    BY <2>2 DEF Connects, Sent
  <2>3. CASE Asks
    BY <2>3 DEF Asks, Sent
  <2>4. CASE \E p \in Pids \cup {NoPid} : AsksLoad(p)
    BY <2>4 DEF AsksLoad, Sent
  <2>5. CASE Starts
    BY <2>5 DEF Starts
  <2>6. CASE Restarts
    BY <2>6, Emptied DEF Restarts, Sent
  <2>7. CASE OnDisconnected
    <3>1. /\ conn' \in BOOLEAN /\ roles' \subseteq {"LOBBY", "LOADING", "INGAME"} /\ bag' \in Bag
          /\ loaded' \in BOOLEAN
      BY <2>7, Emptied DEF OnDisconnected
    <3>. QED  BY <2>7, <3>1 DEF OnDisconnected
  <2>8. CASE Crash
    <3>1. <<>> \in Maps(Nat)
      <4>1. <<>> \in [{} -> Nat] /\ {} \in SUBSET (Nat \ {0})
        OBVIOUS
      <4>. QED  BY <4>1 DEF Maps
    <3>2. /\ conn' \in BOOLEAN /\ roles' \subseteq {"LOBBY", "LOADING", "INGAME"} /\ bag' \in Bag
          /\ loaded' \in BOOLEAN
      BY <2>8, Emptied DEF Crash
    <3>. QED  BY <2>8, <3>1, <3>2 DEF Crash
  <2>. QED  BY <1>1, <2>1, <2>2, <2>3, <2>4, <2>5, <2>6, <2>7, <2>8 DEF LifeStep
<1>2. CASE ItemStep
  <2>1. ASSUME NEW l \in DOMAIN bag.items, Lose(l) PROVE lost' \subseteq Nat
    <3>1. l \in Nat
      BY ItemTypes
    <3>. QED  BY <2>1, <3>1 DEF Lose
  <2>2. CASE \E l, n : AddsTo(l, n)
    BY <2>1, <2>2 DEF AddsTo, ChangedOne, Sent
  <2>3. CASE \E i \in Indexes : GotNew(i) /\ conn /\ pid # NoPid
    BY <2>3 DEF GotNew, Sent
  <2>4. CASE \E l : Trashes(l)
    BY <2>1, <2>4 DEF Trashes, ChangedOne, Sent
  <2>5. CASE \E l : PutsOn(l)
    BY <2>1, <2>5 DEF PutsOn, ChangedOne, Sent
  <2>6. CASE \E l : PutsOff(l)
    BY <2>1, <2>6 DEF PutsOff, ChangedOne, Sent
  <2>. QED  BY <1>2, <2>2, <2>3, <2>4, <2>5, <2>6 DEF ItemStep
<1>3. CASE DbStep
  <2>1. CASE Lists \/ Refuses
    BY <2>1 DEF Lists, Refuses, Kind, Fetched, Answered1
  <2>2. CASE \E sent : Reads(sent)
    BY <2>2 DEF Reads, Kind, Fetched, Answered2
  <2>3. CASE Inserts
    BY <2>3 DEF Inserts, Kind, Fetched, Answered1
  <2>4. CASE SetsNum
    BY <2>4 DEF SetsNum, SameRows, Kind, Fetched
  <2>5. CASE SetsWorn
    BY <2>5 DEF SetsWorn, SameRows, Kind, Fetched
  <2>6. CASE Deletes
    BY <2>6 DEF Deletes, Kind, Fetched
  <2>. QED  BY <1>3, <2>1, <2>2, <2>3, <2>4, <2>5, <2>6 DEF DbStep
<1>4. CASE ListenerStep
  <2>1. CASE Drops
    BY <2>1 DEF Drops, Heard
  <2>2. CASE GetsPlayers
    BY <2>2 DEF GetsPlayers, Told, Heard
  <2>3. CASE GetsPlayer
    BY <2>3 DEF GetsPlayer, Told, Heard
  <2>9. CASE IsRefused
    <3>1. awaiting - 1 \in Int
      OBVIOUS
    <3>. QED  BY <2>9, <3>1 DEF IsRefused, Told, Heard, game
  <2>4. CASE \E new, local, size : Loads(new, local, size)
    <3>1. PICK new, local, size : Loads(new, local, size)
      BY <2>4
    <3>2. origin' \in Maps(Nat)
      BY <3>1, AddedMap DEF Loads
    <3>. QED  BY <3>1, <3>2 DEF Loads, Heard
  <2>5. CASE \E l, i : Learns(l, i)
    BY <2>5 DEF Learns, Heard
  <2>. QED  BY <1>4, <2>1, <2>2, <2>3, <2>9, <2>4, <2>5 DEF ListenerStep
<1>. QED  BY <1>1, <1>2, <1>3, <1>4

-----------------------------------------------------------------------------
(* NumbersInv is kept.                                                      *)

\* The counters do not fall, unless everything is forgotten.
Grows == nextLocal' >= nextLocal /\ nextIid' >= nextIid /\ uid' >= uid

Step == LifeStep \/ ItemStep \/ DbStep \/ ListenerStep

LEMMA GrowsOrCrash ==
    ASSUME TypesInv, Step
    PROVE  Grows \/ Crash
<1>5. uid \in Nat /\ nextLocal \in Nat /\ nextIid \in Nat
  BY DEF TypesInv
<1>. USE <1>5 DEF Grows, game
<1>1. CASE LifeStep
  <2>1. CASE UNCHANGED vars
    BY <2>1 DEF vars
  <2>2. CASE Connects
    BY <2>2 DEF Connects
  <2>3. CASE Asks
    BY <2>3 DEF Asks
  <2>4. CASE \E p \in Pids \cup {NoPid} : AsksLoad(p)
    BY <2>4 DEF AsksLoad
  <2>5. CASE Starts
    BY <2>5 DEF Starts
  <2>6. CASE Restarts
    BY <2>6 DEF Restarts
  <2>7. CASE OnDisconnected
    BY <2>7 DEF OnDisconnected
  <2>8. CASE Crash
    BY <2>8 DEF Crash
  <2>. QED  BY <1>1, <2>1, <2>2, <2>3, <2>4, <2>5, <2>6, <2>7, <2>8 DEF LifeStep
<1>2. CASE ItemStep
  <2>1. CASE \E l, n : AddsTo(l, n)
    BY <2>1 DEF AddsTo, ChangedOne
  <2>2. CASE \E i \in Indexes : GotNew(i) /\ conn /\ pid # NoPid
    BY <2>2 DEF GotNew
  <2>3. CASE \E l : Trashes(l)
    BY <2>3 DEF Trashes, ChangedOne
  <2>4. CASE \E l : PutsOn(l)
    BY <2>4 DEF PutsOn, ChangedOne
  <2>5. CASE \E l : PutsOff(l)
    BY <2>5 DEF PutsOff, ChangedOne
  <2>. QED  BY <1>2, <2>1, <2>2, <2>3, <2>4, <2>5 DEF ItemStep
<1>3. CASE DbStep
  <2>1. CASE Lists \/ Refuses
    BY <2>1 DEF Lists, Refuses, Kind
  <2>2. CASE \E sent : Reads(sent)
    BY <2>2 DEF Reads, Kind
  <2>3. CASE Inserts
    BY <2>3 DEF Inserts, Kind
  <2>4. CASE SetsNum
    BY <2>4 DEF SetsNum, Kind
  <2>5. CASE SetsWorn
    BY <2>5 DEF SetsWorn, Kind
  <2>6. CASE Deletes
    BY <2>6 DEF Deletes, Kind
  <2>. QED  BY <1>3, <2>1, <2>2, <2>3, <2>4, <2>5, <2>6 DEF DbStep
<1>4. CASE ListenerStep
  <2>1. CASE Drops
    BY <2>1 DEF Drops
  <2>2. CASE GetsPlayers
    BY <2>2 DEF GetsPlayers, Told
  <2>3. CASE GetsPlayer \/ IsRefused
    BY <2>3 DEF GetsPlayer, IsRefused, Told
  <2>4. CASE \E new, local, size : Loads(new, local, size)
    BY <2>4 DEF Loads
  <2>5. CASE \E l, i : Learns(l, i)
    BY <2>5 DEF Learns
  <2>. QED  BY <1>4, <2>1, <2>2, <2>3, <2>4, <2>5 DEF ListenerStep
<1>. QED  BY <1>1, <1>2, <1>3, <1>4 DEF Step

\* What was given stays given.
LEMMA UpGivenStays ==
    ASSUME TypesInv, TypesInv', Grows
    PROVE  \A m \in ToDb : UpGiven(m, uid, nextLocal, nextIid) => UpGiven(m, uid', nextLocal', nextIid')
<1>. SUFFICES ASSUME NEW m \in ToDb, UpGiven(m, uid, nextLocal, nextIid)
              PROVE  UpGiven(m, uid', nextLocal', nextIid')
  OBVIOUS
<1>1. m.type \in Naming => m.iid \in Nat
  BY ToDbFields DEF Naming
<1>2. m.type \notin Naming => m.uid \in Nat
  BY ToDbFields DEF Naming
<1>3. m.type = "S2D_INSERTITEM" => m.local \in Nat
  BY ToDbFields
<1>4. /\ uid \in Int /\ nextLocal \in Int /\ nextIid \in Int
      /\ uid' \in Int /\ nextLocal' \in Int /\ nextIid' \in Int
  BY DEF TypesInv
<1>5. m.type \in Naming => m.iid < nextIid'
  BY <1>1, <1>4 DEF Grows, UpGiven
<1>6. m.type \notin Naming => m.uid <= uid'
  BY <1>2, <1>4 DEF Grows, UpGiven
<1>7. m.type = "S2D_INSERTITEM" => m.local <= nextLocal'
  BY <1>3, <1>4 DEF Grows, UpGiven
<1>. QED  BY <1>5, <1>6, <1>7 DEF UpGiven

LEMMA DownGivenStays ==
    ASSUME TypesInv, TypesInv', Grows
    PROVE  \A m \in ToGame : DownGiven(m, uid, nextLocal, nextIid) => DownGiven(m, uid', nextLocal', nextIid')
<1>. SUFFICES ASSUME NEW m \in ToGame, DownGiven(m, uid, nextLocal, nextIid)
              PROVE  DownGiven(m, uid', nextLocal', nextIid')
  OBVIOUS
<1>1. m.uid \in Nat /\ (m.type = "D2S_UPDATEITEMIID" => m.local \in Nat /\ m.iid \in Nat)
  BY ToGameFields
<1>2. m.type = "D2S_LOADITEMS" => \A i \in DOMAIN m.rows : i \in Nat
  BY ToGameFields, InMaps
<1>3. /\ nextIid \in Nat /\ nextIid' \in Nat /\ nextIid <= nextIid'
      /\ nextLocal \in Nat /\ nextLocal' \in Nat /\ nextLocal <= nextLocal'
      /\ uid \in Nat /\ uid' \in Nat /\ uid <= uid'
  BY DEF TypesInv, Grows
<1>4. m.uid <= uid'
  BY <1>1, <1>3 DEF DownGiven
<1>5. m.type = "D2S_UPDATEITEMIID" => m.local <= nextLocal' /\ m.iid \in 1 .. nextIid' - 1
  BY <1>1, <1>3 DEF DownGiven
<1>6. m.type = "D2S_LOADITEMS" => \A j \in DOMAIN m.rows : j < nextIid'
  BY <1>2, <1>3 DEF DownGiven
<1>. QED  BY <1>4, <1>5, <1>6 DEF DownGiven

\* Where the packets of s2d' come from.
UpFrom(m) ==
    \A k \in DOMAIN s2d' : (\E j \in DOMAIN s2d : s2d'[k] = s2d[j]) \/ s2d'[k] = m

DownFrom(a, b) ==
    \A k \in DOMAIN d2s' : (\E j \in DOMAIN d2s : d2s'[k] = d2s[j]) \/ d2s'[k] \in {a, b}

LEMMA UpNumbersKept ==
    ASSUME TypesInv, TypesInv', Grows, UpNumbers, NEW m, UpFrom(m), UpGiven(m, uid', nextLocal', nextIid')
    PROVE  UpNumbers'
<1>1. \A j \in DOMAIN s2d : s2d[j] \in ToDb
  BY DEF TypesInv
<1>2. \A j \in DOMAIN s2d : UpGiven(s2d[j], uid', nextLocal', nextIid')
  BY <1>1, UpGivenStays DEF UpNumbers
<1>. QED  BY <1>2 DEF UpFrom, UpNumbers

LEMMA DownNumbersKept ==
    ASSUME TypesInv, TypesInv', Grows, DownNumbers, NEW a, NEW b, DownFrom(a, b),
           DownGiven(a, uid', nextLocal', nextIid'), DownGiven(b, uid', nextLocal', nextIid')
    PROVE  DownNumbers'
<1>1. \A j \in DOMAIN d2s : d2s[j] \in ToGame
  BY DEF TypesInv
<1>2. \A j \in DOMAIN d2s : DownGiven(d2s[j], uid', nextLocal', nextIid')
  BY <1>1, DownGivenStays DEF DownNumbers
<1>. QED  BY <1>2 DEF DownFrom, DownNumbers

LEMMA SentFrom ==
    ASSUME NEW m, Sent(m)
    PROVE  UpFrom(m)
  BY DEF Sent, UpFrom

LEMMA FetchedFrom ==
    ASSUME NEW m, Fetched
    PROVE  UpFrom(m)
<1>. SUFFICES ASSUME NEW k \in DOMAIN s2d' PROVE \E j \in DOMAIN s2d : s2d'[k] = s2d[j]
  BY DEF UpFrom
<1>1. k + 1 \in DOMAIN s2d /\ s2d'[k] = s2d[k + 1]
  BY DEF Fetched
<1>. QED  BY <1>1

LEMMA HeardFrom ==
    ASSUME NEW a, NEW b, Heard
    PROVE  DownFrom(a, b)
<1>. SUFFICES ASSUME NEW k \in DOMAIN d2s' PROVE \E j \in DOMAIN d2s : d2s'[k] = d2s[j]
  BY DEF DownFrom
<1>1. k + 1 \in DOMAIN d2s /\ d2s'[k] = d2s[k + 1]
  BY DEF Heard
<1>. QED  BY <1>1

LEMMA AnsweredFrom ==
    ASSUME NEW a, NEW b, Answered1(a) \/ Answered2(a, b)
    PROVE  DownFrom(a, b)
<1>1. CASE Answered1(a)
  BY <1>1 DEF Answered1, DownFrom
<1>2. CASE Answered2(a, b)
  BY <1>2 DEF Answered2, DownFrom
<1>. QED  BY <1>1, <1>2


\* The packets of types T are those that were there before, all as far from the
\* end or the head as they were.
UpOld(T) == \E c \in {0, 1} : \A k \in DOMAIN s2d' : s2d'[k].type \in T =>
                k + c \in DOMAIN s2d /\ s2d'[k] = s2d[k + c]

DownOld(T) == \E c \in {0, 1} : \A k \in DOMAIN d2s' : d2s'[k].type \in T =>
                k + c \in DOMAIN d2s /\ d2s'[k] = d2s[k + c]

LEMMA SentOld ==
    ASSUME NEW T, NEW m, Sent(m), m.type \notin T
    PROVE  UpOld(T)
<1>1. ASSUME NEW k \in DOMAIN s2d', s2d'[k].type \in T
      PROVE  k + 0 \in DOMAIN s2d /\ s2d'[k] = s2d[k + 0]
  <2>1. k \in 1 .. Len(s2d) /\ k \in Int
    BY <1>1 DEF Sent
  <2>. QED  BY <2>1 DEF Sent
<1>. QED  BY <1>1 DEF UpOld

LEMMA FetchedOld ==
    ASSUME NEW T, Fetched
    PROVE  UpOld(T)
<1>1. ASSUME NEW k \in DOMAIN s2d'
      PROVE  k + 1 \in DOMAIN s2d /\ s2d'[k] = s2d[k + 1]
  BY DEF Fetched
<1>. QED  BY <1>1 DEF UpOld

LEMMA SameUpOld ==
    ASSUME NEW T, TypesInv, UNCHANGED s2d
    PROVE  UpOld(T)
<1>1. ASSUME NEW k \in DOMAIN s2d' PROVE k + 0 \in DOMAIN s2d /\ s2d'[k] = s2d[k + 0]
  <2>1. k \in Nat
    BY DEF TypesInv
  <2>. QED  BY <2>1
<1>. QED  BY <1>1 DEF UpOld

LEMMA GoneOld ==
    ASSUME NEW T
    PROVE  (s2d' = <<>> => UpOld(T)) /\ (d2s' = <<>> => DownOld(T))
<1>1. DOMAIN <<>> = {}
  OBVIOUS
<1>. QED  BY <1>1 DEF UpOld, DownOld

LEMMA HeardOld ==
    ASSUME NEW T, Heard
    PROVE  DownOld(T)
<1>1. ASSUME NEW k \in DOMAIN d2s'
      PROVE  k + 1 \in DOMAIN d2s /\ d2s'[k] = d2s[k + 1]
  BY DEF Heard
<1>. QED  BY <1>1 DEF DownOld

LEMMA SameDownOld ==
    ASSUME NEW T, TypesInv, UNCHANGED d2s
    PROVE  DownOld(T)
<1>1. ASSUME NEW k \in DOMAIN d2s' PROVE k + 0 \in DOMAIN d2s /\ d2s'[k] = d2s[k + 0]
  <2>1. k \in Nat
    BY DEF TypesInv
  <2>. QED  BY <2>1
<1>. QED  BY <1>1 DEF DownOld

LEMMA Answered1Old ==
    ASSUME NEW T, NEW a, Answered1(a), a.type \notin T
    PROVE  DownOld(T)
<1>1. ASSUME NEW k \in DOMAIN d2s', d2s'[k].type \in T
      PROVE  k + 0 \in DOMAIN d2s /\ d2s'[k] = d2s[k + 0]
  <2>1. k \in 1 .. Len(d2s) /\ k \in Int
    BY <1>1 DEF Answered1
  <2>. QED  BY <2>1 DEF Answered1
<1>. QED  BY <1>1 DEF DownOld

LEMMA Answered2Old ==
    ASSUME NEW T, NEW a, NEW b, Answered2(a, b), a.type \notin T, b.type \notin T
    PROVE  DownOld(T)
<1>1. ASSUME NEW k \in DOMAIN d2s', d2s'[k].type \in T
      PROVE  k + 0 \in DOMAIN d2s /\ d2s'[k] = d2s[k + 0]
  <2>1. k \in 1 .. Len(d2s) /\ k \in Int
    BY <1>1 DEF Answered2
  <2>. QED  BY <2>1 DEF Answered2
<1>. QED  BY <1>1 DEF DownOld

\* Packets are old, or the step that sends them is known.
LEMMA OldUps ==
    ASSUME TypesInv, Step, NEW T
    PROVE  \/ UpOld(T)
           \/ "S2D_PLAYERS" \in T
           \/ "S2D_LOADPLAYER" \in T /\ \E p \in Pids \cup {NoPid} : AsksLoad(p)
           \/ "S2D_INSERTITEM" \in T /\ \E i \in Indexes : GotNew(i) /\ conn /\ pid # NoPid
           \/ "S2D_UPDATEITEMNUM" \in T /\ \E l, n : AddsTo(l, n)
           \/ "S2D_UPDATEITEMINFO" \in T /\ \E l : PutsOn(l) \/ PutsOff(l)
           \/ "S2D_TRASHITEM" \in T /\ \E l : Trashes(l)
<1>1. CASE LifeStep
  <2>1. CASE UNCHANGED vars
    BY <2>1, SameUpOld DEF vars
  <2>2. CASE Connects
    <3>1. [type |-> "S2D_PLAYERS", uid |-> uid + 1].type = "S2D_PLAYERS"
      OBVIOUS
    <3>. QED  BY <2>2, <3>1, SentOld DEF Connects
  <2>3. CASE Asks
    <3>1. [type |-> "S2D_PLAYERS", uid |-> uid].type = "S2D_PLAYERS"
      OBVIOUS
    <3>. QED  BY <2>3, <3>1, SentOld DEF Asks
  <2>4. CASE \E p \in Pids \cup {NoPid} : AsksLoad(p)
    <3>1. PICK p \in Pids \cup {NoPid} : AsksLoad(p)
      BY <2>4
    <3>2. [type |-> "S2D_LOADPLAYER", uid |-> uid, pid |-> p].type = "S2D_LOADPLAYER"
      OBVIOUS
    <3>. QED  BY <3>1, <3>2, SentOld DEF AsksLoad
  <2>5. CASE Starts
    BY <2>5, SameUpOld DEF Starts
  <2>6. CASE Restarts
    <3>1. [type |-> "S2D_PLAYERS", uid |-> uid].type = "S2D_PLAYERS"
      OBVIOUS
    <3>. QED  BY <2>6, <3>1, SentOld DEF Restarts
  <2>7. CASE OnDisconnected
    BY <2>7, SameUpOld DEF OnDisconnected
  <2>8. CASE Crash
    BY <2>8, GoneOld DEF Crash
  <2>. QED  BY <1>1, <2>1, <2>2, <2>3, <2>4, <2>5, <2>6, <2>7, <2>8 DEF LifeStep
<1>2. CASE ItemStep
  <2>1. CASE \E l, n : AddsTo(l, n)
    <3>1. PICK l, n : AddsTo(l, n)
      BY <2>1
    <3>2. [type |-> "S2D_UPDATEITEMNUM", iid |-> bag.items[l].iid, num |-> n].type = "S2D_UPDATEITEMNUM"
      OBVIOUS
    <3>. QED  BY <3>1, <3>2, SentOld DEF AddsTo
  <2>2. CASE \E i \in Indexes : GotNew(i) /\ conn /\ pid # NoPid
    <3>1. PICK i \in Indexes : GotNew(i) /\ conn /\ pid # NoPid
      BY <2>2
    <3>2. [type |-> "S2D_INSERTITEM", uid |-> uid, local |-> nextLocal + 1, pid |-> pid,
           index |-> i, num |-> 1].type = "S2D_INSERTITEM"
      OBVIOUS
    <3>. QED  BY <3>1, <3>2, SentOld DEF GotNew
  <2>3. CASE \E l : Trashes(l)
    <3>1. PICK l : Trashes(l)
      BY <2>3
    <3>2. [type |-> "S2D_TRASHITEM", iid |-> bag.items[l].iid].type = "S2D_TRASHITEM"
      OBVIOUS
    <3>. QED  BY <3>1, <3>2, SentOld DEF Trashes
  <2>4. CASE \E l : PutsOn(l)
    <3>1. PICK l : PutsOn(l)
      BY <2>4
    <3>2. [type |-> "S2D_UPDATEITEMINFO", iid |-> bag.items[l].iid, worn |-> TRUE].type = "S2D_UPDATEITEMINFO"
      OBVIOUS
    <3>. QED  BY <3>1, <3>2, SentOld DEF PutsOn
  <2>5. CASE \E l : PutsOff(l)
    <3>1. PICK l : PutsOff(l)
      BY <2>5
    <3>2. [type |-> "S2D_UPDATEITEMINFO", iid |-> bag.items[l].iid, worn |-> FALSE].type = "S2D_UPDATEITEMINFO"
      OBVIOUS
    <3>. QED  BY <3>1, <3>2, SentOld DEF PutsOff
  <2>. QED  BY <1>2, <2>1, <2>2, <2>3, <2>4, <2>5 DEF ItemStep
<1>3. CASE DbStep
  <2>1. CASE Lists \/ Refuses
    BY <2>1, FetchedOld DEF Lists, Refuses, Kind
  <2>2. CASE \E sent : Reads(sent)
    BY <2>2, FetchedOld DEF Reads, Kind
  <2>3. CASE Inserts
    BY <2>3, FetchedOld DEF Inserts, Kind
  <2>4. CASE SetsNum
    BY <2>4, FetchedOld DEF SetsNum, Kind
  <2>5. CASE SetsWorn
    BY <2>5, FetchedOld DEF SetsWorn, Kind
  <2>6. CASE Deletes
    BY <2>6, FetchedOld DEF Deletes, Kind
  <2>. QED  BY <1>3, <2>1, <2>2, <2>3, <2>4, <2>5, <2>6 DEF DbStep
<1>4. CASE ListenerStep
  <2>1. CASE Drops
    BY <2>1, SameUpOld DEF Drops
  <2>2. CASE GetsPlayers
    BY <2>2, SameUpOld DEF GetsPlayers, Told
  <2>3. CASE GetsPlayer \/ IsRefused
    BY <2>3, SameUpOld DEF GetsPlayer, IsRefused, Told
  <2>4. CASE \E new, local, size : Loads(new, local, size)
    BY <2>4, SameUpOld DEF Loads
  <2>5. CASE \E l, i : Learns(l, i)
    BY <2>5, SameUpOld DEF Learns
  <2>. QED  BY <1>4, <2>1, <2>2, <2>3, <2>4, <2>5 DEF ListenerStep
<1>. QED  BY <1>1, <1>2, <1>3, <1>4 DEF Step

LEMMA OldDowns ==
    ASSUME TypesInv, Step, NEW T
    PROVE  \/ DownOld(T)
           \/ "D2S_PLAYER_INFO" \in T
           \/ "D2S_UPDATEITEMIID" \in T /\ Inserts
           \/ "D2S_LOADPLAYER" \in T /\ Refuses
           \/ {"D2S_LOADPLAYER", "D2S_LOADITEMS"} \cap T # {} /\ \E sent : Reads(sent)
<1>1. CASE LifeStep
  <2>1. CASE UNCHANGED vars
    BY <2>1, SameDownOld DEF vars, vars
  <2>2. CASE Connects
    BY <2>2, SameDownOld DEF Connects
  <2>3. CASE Asks
    BY <2>3, SameDownOld DEF Asks, game
  <2>4. CASE \E p \in Pids \cup {NoPid} : AsksLoad(p)
    BY <2>4, SameDownOld DEF AsksLoad
  <2>5. CASE Starts
    BY <2>5, SameDownOld DEF Starts
  <2>6. CASE Restarts
    BY <2>6, SameDownOld DEF Restarts
  <2>7. CASE OnDisconnected
    BY <2>7, SameDownOld DEF OnDisconnected
  <2>8. CASE Crash
    BY <2>8, GoneOld DEF Crash
  <2>. QED  BY <1>1, <2>1, <2>2, <2>3, <2>4, <2>5, <2>6, <2>7, <2>8 DEF LifeStep
<1>2. CASE ItemStep
  <2>1. CASE \E l, n : AddsTo(l, n)
    BY <2>1, SameDownOld DEF AddsTo, ChangedOne
  <2>2. CASE \E i \in Indexes : GotNew(i) /\ conn /\ pid # NoPid
    BY <2>2, SameDownOld DEF GotNew
  <2>3. CASE \E l : Trashes(l)
    BY <2>3, SameDownOld DEF Trashes, ChangedOne
  <2>4. CASE \E l : PutsOn(l)
    BY <2>4, SameDownOld DEF PutsOn, ChangedOne
  <2>5. CASE \E l : PutsOff(l)
    BY <2>5, SameDownOld DEF PutsOff, ChangedOne
  <2>. QED  BY <1>2, <2>1, <2>2, <2>3, <2>4, <2>5 DEF ItemStep
<1>3. CASE DbStep
  <2>1. CASE Lists
    <3>1. [type |-> "D2S_PLAYER_INFO", uid |-> s2d[1].uid].type = "D2S_PLAYER_INFO"
      OBVIOUS
    <3>. QED  BY <2>1, <3>1, Answered1Old DEF Lists
  <2>7. CASE Refuses
    <3>1. [type |-> "D2S_LOADPLAYER", uid |-> s2d[1].uid, pid |-> NoPid].type = "D2S_LOADPLAYER"
      OBVIOUS
    <3>. QED  BY <2>7, <3>1, Answered1Old DEF Refuses
  <2>2. CASE \E sent : Reads(sent)
    <3>1. PICK sent : Reads(sent)
      BY <2>2
    <3>. DEFINE a == [type |-> "D2S_LOADPLAYER", uid |-> s2d[1].uid, pid |-> s2d[1].pid]
                b == [type |-> "D2S_LOADITEMS", uid |-> s2d[1].uid, rows |-> sent]
    <3>2. a.type = "D2S_LOADPLAYER" /\ b.type = "D2S_LOADITEMS" /\ Answered2(a, b)
      BY <3>1 DEF Reads
    <3>. HIDE DEF a, b
    <3>3. a.type \notin T /\ b.type \notin T => DownOld(T)
      BY <3>2, Answered2Old
    <3>. QED  BY <3>1, <3>2, <3>3
  <2>3. CASE Inserts
    <3>1. [type |-> "D2S_UPDATEITEMIID", uid |-> s2d[1].uid,
           local |-> s2d[1].local, iid |-> nextIid].type = "D2S_UPDATEITEMIID"
      OBVIOUS
    <3>. QED  BY <2>3, <3>1, Answered1Old DEF Inserts
  <2>4. CASE SetsNum
    BY <2>4, SameDownOld DEF SetsNum, Kind
  <2>5. CASE SetsWorn
    BY <2>5, SameDownOld DEF SetsWorn, Kind
  <2>6. CASE Deletes
    BY <2>6, SameDownOld DEF Deletes, Kind
  <2>. QED  BY <1>3, <2>1, <2>2, <2>3, <2>4, <2>5, <2>6, <2>7 DEF DbStep
<1>4. CASE ListenerStep
  <2>1. CASE Drops
    BY <2>1, HeardOld DEF Drops
  <2>2. CASE GetsPlayers
    BY <2>2, HeardOld DEF GetsPlayers, Told
  <2>3. CASE GetsPlayer \/ IsRefused
    BY <2>3, HeardOld DEF GetsPlayer, IsRefused, Told
  <2>4. CASE \E new, local, size : Loads(new, local, size)
    BY <2>4, HeardOld DEF Loads
  <2>5. CASE \E l, i : Learns(l, i)
    BY <2>5, HeardOld DEF Learns
  <2>. QED  BY <1>4, <2>1, <2>2, <2>3, <2>4, <2>5 DEF ListenerStep
<1>. QED  BY <1>1, <1>2, <1>3, <1>4 DEF Step

\* A packet for a new item is new only with the item; an IID is answered to one.
LEMMA OldInserts ==
    ASSUME TypesInv, Step
    PROVE  UpOld({"S2D_INSERTITEM"}) \/ \E i \in Indexes : GotNew(i)
  BY OldUps

LEMMA OldAnswers ==
    ASSUME TypesInv, Step
    PROVE  DownOld({"D2S_UPDATEITEMIID"}) \/ Inserts
  BY OldDowns

LEMMA BagNumbersFrom ==
    ASSUME TypesInv, TypesInv', BagNumbers, Grows,
           \A l \in DOMAIN bag'.items :
              \/ l \in DOMAIN bag.items /\ bag'.items[l].iid = bag.items[l].iid
              \/ l <= nextLocal' /\ bag'.items[l].iid < nextIid'
    PROVE  BagNumbers'
<1>. SUFFICES ASSUME NEW l \in DOMAIN bag'.items
              PROVE  l <= nextLocal' /\ bag'.items[l].iid < nextIid'
  BY DEF BagNumbers
<1>1. ASSUME l \in DOMAIN bag.items, bag'.items[l].iid = bag.items[l].iid
      PROVE  l <= nextLocal' /\ bag'.items[l].iid < nextIid'
  <2>1. l \in Nat /\ bag.items[l].iid \in Nat
    BY <1>1, ItemTypes DEF TypesInv, Info
  <2>2. l <= nextLocal /\ bag.items[l].iid < nextIid
    BY <1>1 DEF BagNumbers
  <2>. QED  BY SMTT(30), <1>1, <2>1, <2>2 DEF TypesInv, Grows
<1>. QED  BY <1>1

\* The items are some of those that were there.
BagShrinks == \A l \in DOMAIN bag'.items :
    /\ l \in DOMAIN bag.items /\ bag'.items[l].iid = bag.items[l].iid
    /\ bag'.items[l].index = bag.items[l].index

LEMMA ReplacedShrinks ==
    ASSUME TypesInv, NEW l \in DOMAIN bag.items,
           \/ \E n : Replaces(bag', bag, l, [bag.items[l] EXCEPT !.num = n])
           \/ \E w : Replaces(bag', bag, l, [bag.items[l] EXCEPT !.worn = w])
    PROVE  BagShrinks
<1>1. bag.items[l] \in Info
  BY ItemTypes DEF TypesInv
<1>2. ASSUME NEW n, Replaces(bag', bag, l, [bag.items[l] EXCEPT !.num = n])
      PROVE  BagShrinks
  BY <1>1, <1>2 DEF Replaces, BagShrinks, Info
<1>3. ASSUME NEW w, Replaces(bag', bag, l, [bag.items[l] EXCEPT !.worn = w])
      PROVE  BagShrinks
  BY <1>1, <1>3 DEF Replaces, BagShrinks, Info
<1>. QED  BY <1>2, <1>3

LEMMA BagCases ==
    ASSUME TypesInv, Step
    PROVE  \/ BagShrinks
           \/ \E i \in Indexes : GotNew(i) /\ conn /\ pid # NoPid
           \/ \E new, local, size : Loads(new, local, size)
           \/ \E l, i : Learns(l, i)
<1>1. CASE LifeStep
  <2>1. CASE UNCHANGED vars
    BY <2>1 DEF vars, BagShrinks, vars, game
  <2>2. CASE Connects
    BY <2>2 DEF Connects, BagShrinks, game
  <2>3. CASE Asks
    BY <2>3 DEF Asks, BagShrinks, game
  <2>4. CASE \E p \in Pids \cup {NoPid} : AsksLoad(p)
    BY <2>4 DEF AsksLoad, BagShrinks, game
  <2>5. CASE Starts
    BY <2>5 DEF Starts, BagShrinks, game
  <2>6. CASE Restarts
    BY <2>6, Emptied DEF Restarts, BagShrinks
  <2>7. CASE OnDisconnected
    BY <2>7, Emptied DEF OnDisconnected, BagShrinks
  <2>8. CASE Crash
    BY <2>8, Emptied DEF Crash, BagShrinks
  <2>. QED  BY <1>1, <2>1, <2>2, <2>3, <2>4, <2>5, <2>6, <2>7, <2>8 DEF LifeStep
<1>2. CASE ItemStep
  <2>1. CASE \E l, n : AddsTo(l, n)
    <3>1. PICK l, n : AddsTo(l, n)
      BY <2>1
    <3>. QED  BY <3>1, ReplacedShrinks DEF AddsTo
  <2>2. CASE \E i \in Indexes : GotNew(i) /\ conn /\ pid # NoPid
    BY <2>2
  <2>3. CASE \E l : Trashes(l)
    BY <2>3 DEF Trashes, ChangedOne, IsTrashed, BagShrinks
  <2>4. CASE \E l : PutsOn(l)
    <3>1. PICK l : PutsOn(l)
      BY <2>4
    <3>2. l \in DOMAIN bag.items /\ Replaces(bag', bag, l, [bag.items[l] EXCEPT !.worn = TRUE])
      BY <3>1 DEF PutsOn, IsPutOn
    <3>. QED  BY <3>2, ReplacedShrinks
  <2>5. CASE \E l : PutsOff(l)
    <3>1. PICK l : PutsOff(l)
      BY <2>5
    <3>2. l \in DOMAIN bag.items /\ Replaces(bag', bag, l, [bag.items[l] EXCEPT !.worn = FALSE])
      BY <3>1 DEF PutsOff, IsPutOff
    <3>. QED  BY <3>2, ReplacedShrinks
  <2>. QED  BY <1>2, <2>1, <2>2, <2>3, <2>4, <2>5 DEF ItemStep
<1>3. CASE DbStep
  <2>1. CASE Lists \/ Refuses
    BY <2>1 DEF Lists, Refuses, Kind, BagShrinks, game
  <2>2. CASE \E sent : Reads(sent)
    BY <2>2 DEF Reads, Kind, BagShrinks, game
  <2>3. CASE Inserts
    BY <2>3 DEF Inserts, Kind, BagShrinks, game
  <2>4. CASE SetsNum
    BY <2>4 DEF SetsNum, Kind, BagShrinks, game
  <2>5. CASE SetsWorn
    BY <2>5 DEF SetsWorn, Kind, BagShrinks, game
  <2>6. CASE Deletes
    BY <2>6 DEF Deletes, Kind, BagShrinks, game
  <2>. QED  BY <1>3, <2>1, <2>2, <2>3, <2>4, <2>5, <2>6 DEF DbStep
<1>4. CASE ListenerStep
  <2>1. CASE Drops
    BY <2>1 DEF Drops, BagShrinks, game
  <2>2. CASE GetsPlayers
    BY <2>2 DEF GetsPlayers, Told, BagShrinks, game
  <2>3. CASE GetsPlayer \/ IsRefused
    BY <2>3 DEF GetsPlayer, IsRefused, Told, BagShrinks, game
  <2>4. CASE \E new, local, size : Loads(new, local, size)
    BY <2>4
  <2>5. CASE \E l, i : Learns(l, i)
    BY <2>5
  <2>. QED  BY <1>4, <2>1, <2>2, <2>3, <2>4, <2>5 DEF ListenerStep
<1>. QED  BY <1>1, <1>2, <1>3, <1>4 DEF Step

LEMMA BagNumbersStep ==
    ASSUME TypesInv, TypesInv', NumbersInv, Step, Grows
    PROVE  BagNumbers'
<1>. DEFINE Old(l) == l \in DOMAIN bag.items /\ bag'.items[l].iid = bag.items[l].iid
            New(l) == l <= nextLocal' /\ bag'.items[l].iid < nextIid'
<1>1. nextLocal \in Nat /\ nextIid \in Nat \ {0}
  BY DEF TypesInv
<1>2. BagNumbers /\ DownNumbers
  BY DEF NumbersInv
<1>3. CASE BagShrinks
  BY <1>2, <1>3, BagNumbersFrom DEF BagShrinks
<1>4. CASE \E i \in Indexes : GotNew(i)
  <2>1. \A l \in DOMAIN bag'.items : Old(l) \/ (l = nextLocal' /\ bag'.items[l].iid = 0)
    BY <1>4 DEF GotNew, NewInfo
  <2>2. nextLocal' \in Nat /\ nextIid' \in Nat \ {0}
    BY DEF TypesInv
  <2>3. \A l \in DOMAIN bag'.items : Old(l) \/ New(l)
    BY <2>1, <2>2
  <2>. QED  BY <1>2, <2>3, BagNumbersFrom
<1>5. CASE \E new, local, size : Loads(new, local, size)
  <2>1. PICK new, local, size : Loads(new, local, size)
    BY <1>5
  <2>. DEFINE sent == d2s[1].rows
  <2>2. DownGiven(d2s[1], uid, nextLocal, nextIid) /\ d2s[1].type = "D2S_LOADITEMS"
    BY <1>2, <2>1 DEF DownNumbers, Loads, Heard
  <2>3. \A i \in DOMAIN sent : i < nextIid
    BY <2>2 DEF DownGiven
  <2>4. IsBrought(new, local, sent, nextLocal, size) /\ nextLocal' = nextLocal + size /\ size \in Nat
        /\ nextIid' = nextIid
    BY <2>1 DEF Loads
  <2>5. \A l \in DOMAIN bag'.items : Old(l) \/ (l \in DOMAIN new /\ bag'.items[l] = new[l])
    BY <2>1 DEF Loads, IsInserted, Added
  <2>6. ASSUME NEW l \in DOMAIN new
        PROVE  l <= nextLocal' /\ new[l].iid < nextIid'
    <3>1. PICK i \in DOMAIN sent : l = local[i]
      BY <2>4 DEF IsBrought
    <3>2. new[l].iid = i /\ l \in nextLocal + 1 .. nextLocal + size
      <4>1. new[l] = AsItem(i, sent[i]) /\ l \in nextLocal + 1 .. nextLocal + size
        BY <2>4, <3>1 DEF IsBrought
      <4>. QED  BY <4>1 DEF AsItem
    <3>. QED  BY <1>1, <2>3, <2>4, <3>1, <3>2
  <2>7. \A l \in DOMAIN bag'.items : Old(l) \/ New(l)
    BY <2>5, <2>6
  <2>. QED  BY <1>2, <2>7, BagNumbersFrom
<1>6. CASE \E l, i : Learns(l, i)
  <2>1. PICK l, i : Learns(l, i)
    BY <1>6
  <2>2. DownGiven(d2s[1], uid, nextLocal, nextIid) /\ d2s[1].type = "D2S_UPDATEITEMIID"
    BY <1>2, <2>1 DEF DownNumbers, Learns, Heard
  <2>3. l <= nextLocal' /\ i < nextIid'
    BY <1>1, <2>1, <2>2 DEF DownGiven, Learns
  <2>4. \A k \in DOMAIN bag'.items : Old(k) \/ (k = l /\ bag'.items[k].iid = i)
    <3>1. CASE l \in DOMAIN bag.items
      <4>1. bag.items[l] \in Info /\ Replaces(bag', bag, l, [bag.items[l] EXCEPT !.iid = i])
        BY <2>1, <3>1, ItemTypes DEF Learns, TypesInv
      <4>. QED  BY <4>1 DEF Replaces, Info
    <3>2. CASE l \notin DOMAIN bag.items
      BY <2>1, <3>2 DEF Learns
    <3>. QED  BY <3>1, <3>2
  <2>. QED  BY <1>2, <2>3, <2>4, BagNumbersFrom
<1>. QED  BY <1>3, <1>4, <1>5, <1>6, BagCases

LEMMA RowNumbersStep ==
    ASSUME TypesInv, NumbersInv, Step
    PROVE  RowNumbers'
<1>5. nextIid \in Nat \ {0} /\ RowNumbers /\ \A i \in DOMAIN rows : i \in Nat
  BY InMaps DEF TypesInv, NumbersInv
<1>. USE <1>5 DEF RowNumbers
<1>1. CASE LifeStep
  <2>1. CASE UNCHANGED vars
    BY <2>1 DEF vars, vars
  <2>2. CASE Connects
    BY <2>2 DEF Connects
  <2>3. CASE Asks
    BY <2>3 DEF Asks
  <2>4. CASE \E p \in Pids \cup {NoPid} : AsksLoad(p)
    BY <2>4 DEF AsksLoad
  <2>5. CASE Starts
    BY <2>5 DEF Starts
  <2>6. CASE Restarts
    BY <2>6 DEF Restarts
  <2>7. CASE OnDisconnected
    BY <2>7 DEF OnDisconnected
  <2>8. CASE Crash
    BY <2>8 DEF Crash
  <2>. QED  BY <1>1, <2>1, <2>2, <2>3, <2>4, <2>5, <2>6, <2>7, <2>8 DEF LifeStep
<1>2. CASE ItemStep
  <2>1. CASE \E l, n : AddsTo(l, n)
    BY <2>1 DEF AddsTo, ChangedOne
  <2>2. CASE \E i \in Indexes : GotNew(i) /\ conn /\ pid # NoPid
    BY <2>2 DEF GotNew
  <2>3. CASE \E l : Trashes(l)
    BY <2>3 DEF Trashes, ChangedOne
  <2>4. CASE \E l : PutsOn(l)
    BY <2>4 DEF PutsOn, ChangedOne
  <2>5. CASE \E l : PutsOff(l)
    BY <2>5 DEF PutsOff, ChangedOne
  <2>. QED  BY <1>2, <2>1, <2>2, <2>3, <2>4, <2>5 DEF ItemStep
<1>3. CASE DbStep
  <2>1. CASE Lists \/ Refuses
    BY <2>1 DEF Lists, Refuses, Kind
  <2>2. CASE \E sent : Reads(sent)
    BY <2>2 DEF Reads, Kind
  <2>3. CASE Inserts
    BY <2>3 DEF Inserts, Kind
  <2>4. CASE SetsNum
    BY <2>4 DEF SetsNum, Kind, SameRows
  <2>5. CASE SetsWorn
    BY <2>5 DEF SetsWorn, Kind, SameRows
  <2>6. CASE Deletes
    BY <2>6 DEF Deletes, Kind
  <2>. QED  BY <1>3, <2>1, <2>2, <2>3, <2>4, <2>5, <2>6 DEF DbStep
<1>4. CASE ListenerStep
  <2>1. CASE Drops
    BY <2>1 DEF Drops
  <2>2. CASE GetsPlayers
    BY <2>2 DEF GetsPlayers, Told
  <2>3. CASE GetsPlayer \/ IsRefused
    BY <2>3 DEF GetsPlayer, IsRefused, Told
  <2>4. CASE \E new, local, size : Loads(new, local, size)
    BY <2>4 DEF Loads
  <2>5. CASE \E l, i : Learns(l, i)
    BY <2>5 DEF Learns
  <2>. QED  BY <1>4, <2>1, <2>2, <2>3, <2>4, <2>5 DEF ListenerStep
<1>. QED  BY <1>1, <1>2, <1>3, <1>4 DEF Step

\* What is sent has been given.
LEMMA UpNew ==
    ASSUME TypesInv, TypesInv', NumbersInv, Step
    PROVE  \/ UNCHANGED s2d \/ s2d' = <<>> \/ Fetched
           \/ \E m : Sent(m) /\ UpGiven(m, uid', nextLocal', nextIid')
<1>5. uid \in Nat /\ nextLocal \in Nat /\ nextIid \in Nat \ {0} /\ nextIid' \in Nat \ {0} /\ uid' \in Nat
  BY DEF TypesInv
<1>6. BagNumbers
  BY DEF NumbersInv
<1>1. CASE LifeStep
  <2>1. CASE UNCHANGED vars
    BY <2>1 DEF vars, vars
  <2>2. CASE Connects
    <3>. DEFINE m == [type |-> "S2D_PLAYERS", uid |-> uid + 1]
    <3>1. Sent(m) /\ uid' = uid + 1
      BY <2>2 DEF Connects, game
    <3>2. UpGiven(m, uid', nextLocal', nextIid')
      BY <1>5, <3>1 DEF UpGiven, Naming
    <3>. QED  BY <3>1, <3>2
  <2>3. CASE Asks
    <3>. DEFINE m == [type |-> "S2D_PLAYERS", uid |-> uid]
    <3>1. Sent(m) /\ uid' = uid
      BY <2>3 DEF Asks, game
    <3>2. UpGiven(m, uid', nextLocal', nextIid')
      BY <1>5, <3>1 DEF UpGiven, Naming
    <3>. QED  BY <3>1, <3>2
  <2>4. CASE \E p \in Pids \cup {NoPid} : AsksLoad(p)
    <3>1. PICK p \in Pids \cup {NoPid} : AsksLoad(p)
      BY <2>4
    <3>. DEFINE m == [type |-> "S2D_LOADPLAYER", uid |-> uid, pid |-> p]
    <3>2. Sent(m) /\ uid' = uid
      BY <3>1 DEF AsksLoad
    <3>3. UpGiven(m, uid', nextLocal', nextIid')
      BY <1>5, <3>2 DEF UpGiven, Naming
    <3>. QED  BY <3>2, <3>3
  <2>5. CASE Starts
    BY <2>5 DEF Starts
  <2>6. CASE Restarts
    <3>. DEFINE m == [type |-> "S2D_PLAYERS", uid |-> uid]
    <3>1. Sent(m) /\ uid' = uid
      BY <2>6 DEF Restarts, game
    <3>2. UpGiven(m, uid', nextLocal', nextIid')
      BY <1>5, <3>1 DEF UpGiven, Naming
    <3>. QED  BY <3>1, <3>2
  <2>7. CASE OnDisconnected
    BY <2>7 DEF OnDisconnected
  <2>8. CASE Crash
    BY <2>8 DEF Crash
  <2>. QED  BY <1>1, <2>1, <2>2, <2>3, <2>4, <2>5, <2>6, <2>7, <2>8 DEF LifeStep
<1>2. CASE ItemStep
  <2>1. CASE \E l, n : AddsTo(l, n)
    <3>1. PICK l, n : AddsTo(l, n)
      BY <2>1
    <3>. DEFINE m == [type |-> "S2D_UPDATEITEMNUM", iid |-> bag.items[l].iid, num |-> n]
    <3>2. Sent(m) /\ nextIid' = nextIid /\ l \in DOMAIN bag.items
      BY <3>1 DEF AddsTo, ChangedOne
    <3>3. bag.items[l].iid < nextIid
      BY <1>6, <3>2 DEF BagNumbers
    <3>4. UpGiven(m, uid', nextLocal', nextIid')
      BY <3>2, <3>3 DEF UpGiven, Naming
    <3>. QED  BY <3>2, <3>4
  <2>2. CASE \E i \in Indexes : GotNew(i) /\ conn /\ pid # NoPid
    <3>1. PICK i \in Indexes : GotNew(i)
      BY <2>2
    <3>. DEFINE m == [type |-> "S2D_INSERTITEM", uid |-> uid, local |-> nextLocal + 1, pid |-> pid,
                      index |-> i, num |-> 1]
    <3>2. Sent(m) /\ uid' = uid /\ nextLocal' = nextLocal + 1
      BY <3>1 DEF GotNew
    <3>3. UpGiven(m, uid', nextLocal', nextIid')
      BY <1>5, <3>2 DEF UpGiven, Naming
    <3>. QED  BY <3>2, <3>3
  <2>3. CASE \E l : Trashes(l)
    <3>1. PICK l : Trashes(l)
      BY <2>3
    <3>. DEFINE m == [type |-> "S2D_TRASHITEM", iid |-> bag.items[l].iid]
    <3>2. Sent(m) /\ nextIid' = nextIid /\ l \in DOMAIN bag.items
      BY <3>1 DEF Trashes, ChangedOne
    <3>3. bag.items[l].iid < nextIid
      BY <1>6, <3>2 DEF BagNumbers
    <3>4. UpGiven(m, uid', nextLocal', nextIid')
      BY <3>2, <3>3 DEF UpGiven, Naming
    <3>. QED  BY <3>2, <3>4
  <2>4. CASE \E l : PutsOn(l)
    <3>1. PICK l : PutsOn(l)
      BY <2>4
    <3>. DEFINE m == [type |-> "S2D_UPDATEITEMINFO", iid |-> bag.items[l].iid, worn |-> TRUE]
    <3>2. Sent(m) /\ nextIid' = nextIid /\ l \in DOMAIN bag.items
      BY <3>1 DEF PutsOn, ChangedOne
    <3>3. bag.items[l].iid < nextIid
      BY <1>6, <3>2 DEF BagNumbers
    <3>4. UpGiven(m, uid', nextLocal', nextIid')
      BY <3>2, <3>3 DEF UpGiven, Naming
    <3>. QED  BY <3>2, <3>4
  <2>5. CASE \E l : PutsOff(l)
    <3>1. PICK l : PutsOff(l)
      BY <2>5
    <3>. DEFINE m == [type |-> "S2D_UPDATEITEMINFO", iid |-> bag.items[l].iid, worn |-> FALSE]
    <3>2. Sent(m) /\ nextIid' = nextIid /\ l \in DOMAIN bag.items
      BY <3>1 DEF PutsOff, ChangedOne
    <3>3. bag.items[l].iid < nextIid
      BY <1>6, <3>2 DEF BagNumbers
    <3>4. UpGiven(m, uid', nextLocal', nextIid')
      BY <3>2, <3>3 DEF UpGiven, Naming
    <3>. QED  BY <3>2, <3>4
  <2>. QED  BY <1>2, <2>1, <2>2, <2>3, <2>4, <2>5 DEF ItemStep
<1>3. CASE DbStep
  <2>1. CASE Lists \/ Refuses
    BY <2>1 DEF Lists, Refuses, Kind
  <2>2. CASE \E sent : Reads(sent)
    BY <2>2 DEF Reads, Kind
  <2>3. CASE Inserts
    BY <2>3 DEF Inserts, Kind
  <2>4. CASE SetsNum
    BY <2>4 DEF SetsNum, Kind
  <2>5. CASE SetsWorn
    BY <2>5 DEF SetsWorn, Kind
  <2>6. CASE Deletes
    BY <2>6 DEF Deletes, Kind
  <2>. QED  BY <1>3, <2>1, <2>2, <2>3, <2>4, <2>5, <2>6 DEF DbStep
<1>4. CASE ListenerStep
  <2>1. CASE Drops
    BY <2>1 DEF Drops
  <2>2. CASE GetsPlayers
    BY <2>2 DEF GetsPlayers, Told
  <2>3. CASE GetsPlayer \/ IsRefused
    BY <2>3 DEF GetsPlayer, IsRefused, Told
  <2>4. CASE \E new, local, size : Loads(new, local, size)
    BY <2>4 DEF Loads
  <2>5. CASE \E l, i : Learns(l, i)
    BY <2>5 DEF Learns
  <2>. QED  BY <1>4, <2>1, <2>2, <2>3, <2>4, <2>5 DEF ListenerStep
<1>. QED  BY <1>1, <1>2, <1>3, <1>4 DEF Step

\* What is answered has been given.
LEMMA DownNew ==
    ASSUME TypesInv, TypesInv', NumbersInv, Step
    PROVE  \/ UNCHANGED d2s \/ d2s' = <<>> \/ Heard
           \/ \E a, b : /\ Answered1(a) \/ Answered2(a, b)
                        /\ DownGiven(a, uid', nextLocal', nextIid')
                        /\ DownGiven(b, uid', nextLocal', nextIid')
<1>5. nextIid \in Nat \ {0}
  BY DEF TypesInv
<1>6. Fetched => UpGiven(s2d[1], uid, nextLocal, nextIid)
  BY DEF NumbersInv, UpNumbers, Fetched
<1>7. UpNumbers /\ RowNumbers
  BY DEF NumbersInv
<1>1. CASE LifeStep
  <2>1. CASE UNCHANGED vars
    BY <2>1 DEF vars, vars
  <2>2. CASE Connects
    BY <2>2 DEF Connects
  <2>3. CASE Asks
    BY <2>3 DEF Asks, game
  <2>4. CASE \E p \in Pids \cup {NoPid} : AsksLoad(p)
    BY <2>4 DEF AsksLoad
  <2>5. CASE Starts
    BY <2>5 DEF Starts
  <2>6. CASE Restarts
    BY <2>6 DEF Restarts
  <2>7. CASE OnDisconnected
    BY <2>7 DEF OnDisconnected
  <2>8. CASE Crash
    BY <2>8 DEF Crash
  <2>. QED  BY <1>1, <2>1, <2>2, <2>3, <2>4, <2>5, <2>6, <2>7, <2>8 DEF LifeStep
<1>2. CASE ItemStep
  <2>1. CASE \E l, n : AddsTo(l, n)
    BY <2>1 DEF AddsTo, ChangedOne
  <2>2. CASE \E i \in Indexes : GotNew(i) /\ conn /\ pid # NoPid
    BY <2>2 DEF GotNew
  <2>3. CASE \E l : Trashes(l)
    BY <2>3 DEF Trashes, ChangedOne
  <2>4. CASE \E l : PutsOn(l)
    BY <2>4 DEF PutsOn, ChangedOne
  <2>5. CASE \E l : PutsOff(l)
    BY <2>5 DEF PutsOff, ChangedOne
  <2>. QED  BY <1>2, <2>1, <2>2, <2>3, <2>4, <2>5 DEF ItemStep
<1>3. CASE DbStep
  <2>1. CASE Lists
    <3>. DEFINE a == [type |-> "D2S_PLAYER_INFO", uid |-> s2d[1].uid]
    <3>1. Answered1(a) /\ Kind("S2D_PLAYERS")
      BY <2>1 DEF Lists
    <3>2. DownGiven(a, uid', nextLocal', nextIid')
      BY <2>1, <1>6, <3>1 DEF UpGiven, DownGiven, Naming, Kind, Lists, game
    <3>. QED  BY <3>1, <3>2
  <2>7. CASE Refuses
    <3>. DEFINE a == [type |-> "D2S_LOADPLAYER", uid |-> s2d[1].uid, pid |-> NoPid]
    <3>1. Answered1(a) /\ Kind("S2D_LOADPLAYER")
      BY <2>7 DEF Refuses
    <3>2. DownGiven(a, uid', nextLocal', nextIid')
      BY <2>7, <1>6, <3>1 DEF UpGiven, DownGiven, Naming, Kind, Refuses, game
    <3>. QED  BY <3>1, <3>2
  <2>2. CASE \E sent : Reads(sent)
    <3>1. PICK sent : Reads(sent)
      BY <2>2
    <3>. DEFINE a == [type |-> "D2S_LOADPLAYER", uid |-> s2d[1].uid, pid |-> s2d[1].pid]
                b == [type |-> "D2S_LOADITEMS", uid |-> s2d[1].uid, rows |-> sent]
    <3>2. Answered2(a, b) /\ Kind("S2D_LOADPLAYER") /\ UNCHANGED nextIid
      BY <3>1 DEF Reads
    <3>3. s2d[1].uid <= uid'
      BY <1>6, <3>2 DEF UpGiven, Naming, Kind, game
    <3>4. \A i \in DOMAIN sent : i < nextIid
      BY <1>7, <3>1 DEF Reads, RowsOf, RowNumbers
    <3>5. DownGiven(a, uid', nextLocal', nextIid') /\ DownGiven(b, uid', nextLocal', nextIid')
      BY <3>2, <3>3, <3>4 DEF DownGiven
    <3>. HIDE DEF a, b
    <3>. QED  BY <3>2, <3>5
  <2>3. CASE Inserts
    <3>. DEFINE a == [type |-> "D2S_UPDATEITEMIID", uid |-> s2d[1].uid,
                      local |-> s2d[1].local, iid |-> nextIid]
    <3>1. Answered1(a) /\ Kind("S2D_INSERTITEM") /\ nextIid' = nextIid + 1
      BY <2>3 DEF Inserts
    <3>2. s2d[1].uid <= uid' /\ s2d[1].local <= nextLocal'
      BY <1>6, <3>1 DEF UpGiven, Naming, Kind, game
    <3>3. nextIid \in 1 .. nextIid' - 1
      BY <1>5, <3>1
    <3>4. DownGiven(a, uid', nextLocal', nextIid')
      BY <3>2, <3>3 DEF DownGiven
    <3>. HIDE DEF a
    <3>. QED  BY <3>1, <3>4
  <2>4. CASE SetsNum
    BY <2>4 DEF SetsNum, Kind
  <2>5. CASE SetsWorn
    BY <2>5 DEF SetsWorn, Kind
  <2>6. CASE Deletes
    BY <2>6 DEF Deletes, Kind
  <2>. QED  BY <1>3, <2>1, <2>2, <2>3, <2>4, <2>5, <2>6, <2>7 DEF DbStep
<1>4. CASE ListenerStep
  <2>1. CASE Drops
    BY <2>1 DEF Drops
  <2>2. CASE GetsPlayers
    BY <2>2 DEF GetsPlayers, Told
  <2>3. CASE GetsPlayer \/ IsRefused
    BY <2>3 DEF GetsPlayer, IsRefused, Told
  <2>4. CASE \E new, local, size : Loads(new, local, size)
    BY <2>4 DEF Loads
  <2>5. CASE \E l, i : Learns(l, i)
    BY <2>5 DEF Learns
  <2>. QED  BY <1>4, <2>1, <2>2, <2>3, <2>4, <2>5 DEF ListenerStep
<1>. QED  BY <1>1, <1>2, <1>3, <1>4 DEF Step

LEMMA UpNumbersStep ==
    ASSUME TypesInv, TypesInv', NumbersInv, Step, Grows
    PROVE  UpNumbers'
<1>1. UpNumbers
  BY DEF NumbersInv
<1>. DEFINE m0 == [type |-> "S2D_TRASHITEM", iid |-> 0]
<1>2. UpGiven(m0, uid', nextLocal', nextIid')
  BY DEF TypesInv, UpGiven, Naming
<1>. HIDE DEF m0
<1>3. UNCHANGED s2d => UpFrom(m0)
  BY DEF UpFrom
<1>4. s2d' = <<>> => UpFrom(m0)
  BY DEF UpFrom
<1>5. \E m : UpFrom(m) /\ UpGiven(m, uid', nextLocal', nextIid')
  BY <1>2, <1>3, <1>4, UpNew, FetchedFrom, SentFrom
<1>. QED  BY <1>1, <1>5, UpNumbersKept

LEMMA DownNumbersStep ==
    ASSUME TypesInv, TypesInv', NumbersInv, Step, Grows
    PROVE  DownNumbers'
<1>1. DownNumbers
  BY DEF NumbersInv
<1>. DEFINE a0 == [type |-> "D2S_PLAYER_INFO", uid |-> 0]
<1>2. DownGiven(a0, uid', nextLocal', nextIid')
  BY DEF TypesInv, DownGiven
<1>. HIDE DEF a0
<1>3. UNCHANGED d2s => DownFrom(a0, a0)
  BY DEF DownFrom
<1>4. d2s' = <<>> => DownFrom(a0, a0)
  BY DEF DownFrom
<1>5. \E a, b : /\ DownFrom(a, b) /\ DownGiven(a, uid', nextLocal', nextIid')
                /\ DownGiven(b, uid', nextLocal', nextIid')
  BY <1>2, <1>3, <1>4, DownNew, HeardFrom, AnsweredFrom
<1>. QED  BY <1>1, <1>5, DownNumbersKept

LEMMA Shifted ==
    ASSUME NEW j \in Int, NEW k \in Int, j # k, NEW c \in Int
    PROVE  j + c # k + c
  OBVIOUS

LEMMA NamedOnceStep ==
    ASSUME TypesInv, NumbersInv, Step
    PROVE  NamedOnce'
<1>. DEFINE Ins == {"S2D_INSERTITEM"}
            Ids == {"D2S_UPDATEITEMIID"}
<1>1. NamedOnce /\ UpNumbers /\ DownNumbers
  BY DEF NumbersInv
<1>2. nextLocal \in Nat /\ nextIid \in Nat \ {0} /\ DOMAIN s2d \subseteq Nat /\ DOMAIN d2s \subseteq Nat
  BY DEF TypesInv
<1>3. \A k : Up("S2D_INSERTITEM", k) => s2d[k].local \in Nat /\ s2d[k].local <= nextLocal
  BY <1>1, ToDbFields DEF Up, TypesInv, UpNumbers, UpGiven
<1>4. \A k : Down("D2S_UPDATEITEMIID", k) =>
          /\ d2s[k].local \in Nat /\ d2s[k].local <= nextLocal
          /\ d2s[k].iid \in Nat /\ d2s[k].iid < nextIid
  BY <1>1, <1>2, ToGameFields DEF Down, TypesInv, DownNumbers, DownGiven
<1>5. CASE UpOld(Ins) /\ DownOld(Ids)
  <2>1. PICK c \in {0, 1} : \A k : Up("S2D_INSERTITEM", k)' =>
            Up("S2D_INSERTITEM", k + c) /\ s2d'[k] = s2d[k + c]
    BY <1>5 DEF UpOld, Up
  <2>2. PICK d \in {0, 1} : \A k : Down("D2S_UPDATEITEMIID", k)' =>
            Down("D2S_UPDATEITEMIID", k + d) /\ d2s'[k] = d2s[k + d]
    BY <1>5 DEF DownOld, Down
  <2>3. \A k : (Up("S2D_INSERTITEM", k)' \/ Down("D2S_UPDATEITEMIID", k)') => k \in Int
    BY TypesStep DEF Up, Down, TypesInv, Step
  <2>4. \A k, j : Up("S2D_INSERTITEM", k)' /\ Up("S2D_INSERTITEM", j)' /\ j # k => j + c # k + c
    BY <2>3, Shifted, {0, 1} \subseteq Int
  <2>5. \A k, j : Down("D2S_UPDATEITEMIID", k)' /\ Down("D2S_UPDATEITEMIID", j)' /\ j # k => j + d # k + d
    BY <2>3, Shifted, {0, 1} \subseteq Int
  <2>6. \A k, j : Up("S2D_INSERTITEM", k)' /\ Up("S2D_INSERTITEM", j)' /\ j # k
                    => s2d'[k].local # s2d'[j].local
    BY <1>1, <2>1, <2>4 DEF NamedOnce
  <2>7. \A k, j : Up("S2D_INSERTITEM", k)' /\ Down("D2S_UPDATEITEMIID", j)'
                    => s2d'[k].local # d2s'[j].local
    <3>1. ASSUME NEW k, NEW j, Up("S2D_INSERTITEM", k)', Down("D2S_UPDATEITEMIID", j)'
          PROVE  s2d'[k].local # d2s'[j].local
      <4>1. Up("S2D_INSERTITEM", k + c) /\ s2d'[k] = s2d[k + c]
        BY <2>1, <3>1
      <4>2. Down("D2S_UPDATEITEMIID", j + d) /\ d2s'[j] = d2s[j + d]
        BY <2>2, <3>1
      <4>. QED  BY <1>1, <4>1, <4>2 DEF NamedOnce
    <3>. QED  BY <3>1
  <2>8. \A k, j : Down("D2S_UPDATEITEMIID", k)' /\ Down("D2S_UPDATEITEMIID", j)' /\ j # k
                    => d2s'[k].local # d2s'[j].local /\ d2s'[k].iid # d2s'[j].iid
    BY <1>1, <2>2, <2>5 DEF NamedOnce
  <2>. QED  BY <2>6, <2>7, <2>8 DEF NamedOnce
<1>6. CASE \E i \in Indexes : GotNew(i)
  <2>. DEFINE e == Len(s2d) + 1
  <2>1. d2s' = d2s /\ s2d'[e].local = nextLocal + 1 /\ e \in Nat
        /\ \A k : Up("S2D_INSERTITEM", k)' => k = e \/ (Up("S2D_INSERTITEM", k) /\ s2d'[k] = s2d[k])
    BY <1>6 DEF GotNew, Sent, Up
  <2>. HIDE DEF e
  <2>2. \A k : Up("S2D_INSERTITEM", k) => s2d[k].local # nextLocal + 1
    BY <1>2, <1>3
  <2>3. \A k : Down("D2S_UPDATEITEMIID", k) => d2s[k].local # nextLocal + 1
    BY <1>2, <1>4
  <2>4. \A k : Down("D2S_UPDATEITEMIID", k)' => Down("D2S_UPDATEITEMIID", k) /\ d2s'[k] = d2s[k]
    BY <2>1 DEF Down
  <2>5. \A k, j : Up("S2D_INSERTITEM", k)' /\ Up("S2D_INSERTITEM", j)' /\ j # k
                    => s2d'[k].local # s2d'[j].local
    BY <1>1, <2>1, <2>2 DEF NamedOnce
  <2>6. \A k, j : Up("S2D_INSERTITEM", k)' /\ Down("D2S_UPDATEITEMIID", j)'
                    => s2d'[k].local # d2s'[j].local
    <3>1. ASSUME NEW k, NEW j, Up("S2D_INSERTITEM", k)', Down("D2S_UPDATEITEMIID", j)'
          PROVE  s2d'[k].local # d2s'[j].local
      <4>1. Down("D2S_UPDATEITEMIID", j) /\ d2s'[j] = d2s[j] /\ d2s[j].local # nextLocal + 1
        BY <2>3, <2>4, <3>1
      <4>2. CASE k = e
        BY <2>1, <4>1, <4>2
      <4>3. CASE Up("S2D_INSERTITEM", k) /\ s2d'[k] = s2d[k]
        BY <1>1, <4>1, <4>3 DEF NamedOnce
      <4>. QED  BY <2>1, <3>1, <4>2, <4>3
    <3>. QED  BY <3>1
  <2>7. \A k, j : Down("D2S_UPDATEITEMIID", k)' /\ Down("D2S_UPDATEITEMIID", j)' /\ j # k
                    => d2s'[k].local # d2s'[j].local /\ d2s'[k].iid # d2s'[j].iid
    BY <1>1, <2>4 DEF NamedOnce
  <2>. QED  BY <2>5, <2>6, <2>7 DEF NamedOnce
<1>7. CASE Inserts
  <2>. DEFINE e == Len(d2s) + 1
  <2>1. /\ d2s'[e].local = s2d[1].local /\ d2s'[e].iid = nextIid /\ Up("S2D_INSERTITEM", 1)
        /\ \A k : Down("D2S_UPDATEITEMIID", k)' => k = e \/ (Down("D2S_UPDATEITEMIID", k) /\ d2s'[k] = d2s[k])
    BY <1>7 DEF Inserts, Answered1, Kind, Fetched, Up, Down
  <2>. HIDE DEF e
  <2>2. \A k : Up("S2D_INSERTITEM", k)' =>
            Up("S2D_INSERTITEM", k + 1) /\ s2d'[k] = s2d[k + 1] /\ k + 1 # 1 /\ k \in Int
    BY <1>7 DEF Inserts, Kind, Fetched, Up
  <2>3. \A k : Down("D2S_UPDATEITEMIID", k) => d2s[k].iid # nextIid
    BY <1>2, <1>4
  <2>4. \A k, j : Up("S2D_INSERTITEM", k)' /\ Up("S2D_INSERTITEM", j)' /\ j # k => j + 1 # k + 1
    BY <2>2
  <2>5. \A k, j : Up("S2D_INSERTITEM", k)' /\ Up("S2D_INSERTITEM", j)' /\ j # k
                    => s2d'[k].local # s2d'[j].local
    BY <1>1, <2>2, <2>4 DEF NamedOnce
  <2>6. \A k, j : Up("S2D_INSERTITEM", k)' /\ Down("D2S_UPDATEITEMIID", j)'
                    => s2d'[k].local # d2s'[j].local
    <3>1. ASSUME NEW k, NEW j, Up("S2D_INSERTITEM", k)', Down("D2S_UPDATEITEMIID", j)'
          PROVE  s2d'[k].local # d2s'[j].local
      <4>1. Up("S2D_INSERTITEM", k + 1) /\ s2d'[k] = s2d[k + 1] /\ k + 1 # 1
        BY <2>2, <3>1
      <4>2. j = e \/ (Down("D2S_UPDATEITEMIID", j) /\ d2s'[j] = d2s[j])
        BY <2>1, <3>1
      <4>3. s2d[k + 1].local # s2d[1].local
        <5>. DEFINE h == k + 1
        <5>1. Up("S2D_INSERTITEM", h) /\ Up("S2D_INSERTITEM", 1) /\ h # 1
          BY <2>1, <4>1
        <5>. HIDE DEF h
        <5>2. s2d[h].local # s2d[1].local
          BY <1>1, <5>1 DEF NamedOnce
        <5>. QED  BY <5>2 DEF h
      <4>4. CASE j = e
        BY <2>1, <4>1, <4>3, <4>4
      <4>5. CASE Down("D2S_UPDATEITEMIID", j) /\ d2s'[j] = d2s[j]
        BY <1>1, <4>1, <4>5 DEF NamedOnce
      <4>. QED  BY <4>2, <4>4, <4>5
    <3>. QED  BY <3>1
  <2>7. \A k, j : Down("D2S_UPDATEITEMIID", k)' /\ Down("D2S_UPDATEITEMIID", j)' /\ j # k
                    => d2s'[k].local # d2s'[j].local /\ d2s'[k].iid # d2s'[j].iid
    <3>1. \A k : Down("D2S_UPDATEITEMIID", k) => d2s[k].local # s2d[1].local
      BY <1>1, <2>1 DEF NamedOnce
    <3>. QED  BY <1>1, <2>1, <2>3, <3>1 DEF NamedOnce
  <2>. QED  BY <2>5, <2>6, <2>7 DEF NamedOnce
<1>. QED  BY <1>5, <1>6, <1>7, OldInserts, OldAnswers

LEMMA FollowKept ==
    ASSUME ItemsFollow, UNCHANGED d2s \/ d2s' = <<>> \/ Heard
    PROVE  ItemsFollow'
<1>1. CASE UNCHANGED d2s
  BY <1>1 DEF ItemsFollow, Down
<1>2. CASE d2s' = <<>>
  <2>1. DOMAIN <<>> = {}
    OBVIOUS
  <2>. QED  BY <1>2, <2>1 DEF ItemsFollow, Down
<1>3. CASE Heard
  <2>1. ASSUME NEW k, Down("D2S_LOADPLAYER", k)', d2s'[k].pid # NoPid
        PROVE  Down("D2S_LOADITEMS", k + 1)' /\ d2s'[k + 1].uid = d2s'[k].uid
    <3>1. k \in Int /\ Down("D2S_LOADPLAYER", k + 1) /\ d2s'[k] = d2s[k + 1]
      BY <1>3, <2>1 DEF Down, Heard
    <3>2. Down("D2S_LOADITEMS", k + 2) /\ d2s[k + 2].uid = d2s[k + 1].uid
      BY <2>1, <3>1 DEF ItemsFollow
    <3>3. k + 1 \in DOMAIN d2s' /\ d2s'[k + 1] = d2s[k + 2]
      BY <1>3, <2>1, <3>1, <3>2 DEF Down, Heard
    <3>. QED  BY <3>1, <3>2, <3>3 DEF Down
  <2>. QED  BY <2>1 DEF ItemsFollow
<1>. QED  BY <1>1, <1>2, <1>3

LEMMA FollowAnswered ==
    ASSUME ItemsFollow, NEW a, Answered1(a), a.type = "D2S_LOADPLAYER" => a.pid = NoPid
    PROVE  ItemsFollow'
<1>1. ASSUME NEW k, Down("D2S_LOADPLAYER", k)', d2s'[k].pid # NoPid
      PROVE  Down("D2S_LOADITEMS", k + 1)' /\ d2s'[k + 1].uid = d2s'[k].uid
  <2>1. Down("D2S_LOADPLAYER", k) /\ d2s'[k] = d2s[k]
    BY <1>1 DEF Down, Answered1
  <2>2. Down("D2S_LOADITEMS", k + 1) /\ d2s[k + 1].uid = d2s[k].uid
    BY <1>1, <2>1 DEF ItemsFollow
  <2>. QED  BY <2>1, <2>2 DEF Down, Answered1
<1>. QED  BY <1>1 DEF ItemsFollow

LEMMA FollowRead ==
    ASSUME ItemsFollow, NEW sent, Reads(sent)
    PROVE  ItemsFollow'
<1>. DEFINE n == Len(d2s)
<1>1. /\ DOMAIN d2s' = 1 .. n + 2 /\ DOMAIN d2s = 1 .. n /\ n \in Nat
      /\ \A k \in 1 .. n : d2s'[k] = d2s[k]
      /\ d2s'[n + 1].type = "D2S_LOADPLAYER" /\ d2s'[n + 2].type = "D2S_LOADITEMS"
      /\ d2s'[n + 1].uid = d2s'[n + 2].uid
  BY DEF Reads, Answered2
<1>. HIDE DEF n
<1>2. ASSUME NEW k, Down("D2S_LOADPLAYER", k)', d2s'[k].pid # NoPid
      PROVE  Down("D2S_LOADITEMS", k + 1)' /\ d2s'[k + 1].uid = d2s'[k].uid
  <2>1. CASE k \in 1 .. n
    <3>1. Down("D2S_LOADITEMS", k + 1) /\ d2s[k + 1].uid = d2s[k].uid
      BY <1>1, <1>2, <2>1 DEF ItemsFollow, Down
    <3>. QED  BY <1>1, <2>1, <3>1 DEF Down
  <2>2. CASE k = n + 1
    <3>1. k + 1 = n + 2 /\ n + 2 \in DOMAIN d2s'
      BY <1>1, <2>2
    <3>. QED  BY <1>1, <2>2, <3>1 DEF Down
  <2>. QED  BY <1>1, <1>2, <2>1, <2>2 DEF Down
<1>. QED  BY <1>2 DEF ItemsFollow

LEMMA ItemsFollowStep ==
    ASSUME TypesInv, NumbersInv, Step
    PROVE  ItemsFollow'
<1>5. ItemsFollow
  BY DEF NumbersInv
<1>1. CASE LifeStep
  <2>1. CASE UNCHANGED vars
    BY <2>1, <1>5, FollowKept DEF vars, vars
  <2>2. CASE Connects
    BY <2>2, <1>5, FollowKept DEF Connects
  <2>3. CASE Asks
    BY <2>3, <1>5, FollowKept DEF Asks
  <2>4. CASE \E p \in Pids \cup {NoPid} : AsksLoad(p)
    BY <2>4, <1>5, FollowKept DEF AsksLoad
  <2>5. CASE Starts
    BY <2>5, <1>5, FollowKept DEF Starts
  <2>6. CASE Restarts
    BY <2>6, <1>5, FollowKept DEF Restarts
  <2>7. CASE OnDisconnected
    BY <2>7, <1>5, FollowKept DEF OnDisconnected
  <2>8. CASE Crash
    BY <2>8, <1>5, FollowKept DEF Crash
  <2>. QED  BY <1>1, <2>1, <2>2, <2>3, <2>4, <2>5, <2>6, <2>7, <2>8 DEF LifeStep
<1>2. CASE ItemStep
  <2>1. CASE \E l, n : AddsTo(l, n)
    BY <2>1, <1>5, FollowKept DEF AddsTo, ChangedOne
  <2>2. CASE \E i \in Indexes : GotNew(i) /\ conn /\ pid # NoPid
    BY <2>2, <1>5, FollowKept DEF GotNew
  <2>3. CASE \E l : Trashes(l)
    BY <2>3, <1>5, FollowKept DEF Trashes, ChangedOne
  <2>4. CASE \E l : PutsOn(l)
    BY <2>4, <1>5, FollowKept DEF PutsOn, ChangedOne
  <2>5. CASE \E l : PutsOff(l)
    BY <2>5, <1>5, FollowKept DEF PutsOff, ChangedOne
  <2>. QED  BY <1>2, <2>1, <2>2, <2>3, <2>4, <2>5 DEF ItemStep
<1>3. CASE DbStep
  <2>1. CASE Lists
    <3>1. [type |-> "D2S_PLAYER_INFO", uid |-> s2d[1].uid].type # "D2S_LOADPLAYER"
      OBVIOUS
    <3>. QED  BY <2>1, <1>5, <3>1, FollowAnswered DEF Lists
  <2>7. CASE Refuses
    <3>1. [type |-> "D2S_LOADPLAYER", uid |-> s2d[1].uid, pid |-> NoPid].pid = NoPid
      OBVIOUS
    <3>. QED  BY <2>7, <1>5, <3>1, FollowAnswered DEF Refuses
  <2>2. CASE \E sent : Reads(sent)
    BY <2>2, <1>5, FollowRead
  <2>3. CASE Inserts
    <3>1. [type |-> "D2S_UPDATEITEMIID", uid |-> s2d[1].uid, local |-> s2d[1].local,
           iid |-> nextIid].type # "D2S_LOADPLAYER"
      OBVIOUS
    <3>. QED  BY <2>3, <1>5, <3>1, FollowAnswered DEF Inserts
  <2>4. CASE SetsNum
    BY <2>4, <1>5, FollowKept DEF SetsNum, Kind
  <2>5. CASE SetsWorn
    BY <2>5, <1>5, FollowKept DEF SetsWorn, Kind
  <2>6. CASE Deletes
    BY <2>6, <1>5, FollowKept DEF Deletes, Kind
  <2>. QED  BY <1>3, <2>1, <2>2, <2>3, <2>4, <2>5, <2>6, <2>7 DEF DbStep
<1>4. CASE ListenerStep
  <2>1. CASE Drops
    BY <2>1, <1>5, FollowKept DEF Drops
  <2>2. CASE GetsPlayers
    BY <2>2, <1>5, FollowKept DEF GetsPlayers, Told
  <2>3. CASE GetsPlayer \/ IsRefused
    BY <2>3, <1>5, FollowKept DEF GetsPlayer, IsRefused, Told
  <2>4. CASE \E new, local, size : Loads(new, local, size)
    BY <2>4, <1>5, FollowKept DEF Loads
  <2>5. CASE \E l, i : Learns(l, i)
    BY <2>5, <1>5, FollowKept DEF Learns
  <2>. QED  BY <1>4, <2>1, <2>2, <2>3, <2>4, <2>5 DEF ListenerStep
<1>. QED  BY <1>1, <1>2, <1>3, <1>4 DEF Step

LEMMA NumbersStep ==
    ASSUME TypesInv, TypesInv', NumbersInv, Step
    PROVE  NumbersInv'
<1>1. CASE Grows
  BY <1>1, BagNumbersStep, RowNumbersStep, UpNumbersStep, DownNumbersStep, NamedOnceStep,
     ItemsFollowStep DEF NumbersInv
<1>2. CASE Crash
  <2>1. DOMAIN bag'.items = {} /\ DOMAIN s2d' = {} /\ DOMAIN d2s' = {}
    BY <1>2, Emptied DEF Crash
  <2>2. BagNumbers' /\ UpNumbers' /\ DownNumbers'
    BY <2>1 DEF BagNumbers, UpNumbers, DownNumbers
  <2>. QED  BY <2>2, RowNumbersStep, NamedOnceStep, ItemsFollowStep DEF NumbersInv
<1>. QED  BY <1>1, <1>2, GrowsOrCrash


-----------------------------------------------------------------------------
(* KindsInv is kept.                                                        *)

\* What had a number before the step is what it was, or is gone.
BagKept == \A l \in DOMAIN bag'.items : l <= nextLocal =>
    l \in DOMAIN bag.items /\ bag'.items[l].index = bag.items[l].index

RowsKept == \A i \in DOMAIN rows' : i < nextIid =>
    i \in DOMAIN rows /\ rows'[i].index = rows[i].index /\ rows'[i].pid = rows[i].pid

LEMMA BroughtItem ==
    ASSUME TypesInv, NEW new, NEW local, NEW size, Loads(new, local, size), NEW l \in DOMAIN new
    PROVE  /\ l > nextLocal /\ ~(l <= nextLocal)
           /\ \E i \in DOMAIN d2s[1].rows : l = local[i] /\ new[l] = AsItem(i, d2s[1].rows[i])
<1>. DEFINE sent == d2s[1].rows
<1>1. nextLocal \in Nat /\ size \in Nat
  BY DEF TypesInv, Loads
<1>2. IsBrought(new, local, sent, nextLocal, size)
  BY DEF Loads
<1>3. PICK i \in DOMAIN sent : l = local[i]
  BY <1>2 DEF IsBrought
<1>4. new[l] = AsItem(i, sent[i]) /\ l \in nextLocal + 1 .. nextLocal + size
  BY <1>2, <1>3 DEF IsBrought
<1>5. l > nextLocal /\ ~(l <= nextLocal)
  BY <1>1, <1>4
<1>. QED  BY <1>3, <1>4, <1>5

\* An item of the inventory after a load was there, or is of the answer.
LEMMA LoadedItem ==
    ASSUME NEW new, NEW local, NEW size, Loads(new, local, size), NEW l \in DOMAIN bag'.items
    PROVE  \/ l \in DOMAIN new /\ bag'.items[l] = new[l]
           \/ l \notin DOMAIN new /\ l \in DOMAIN bag.items /\ bag'.items[l] = bag.items[l]
  BY DEF Loads, IsInserted, Added

\* Only the item that learns its IID is another.
LEMMA LearntItem ==
    ASSUME TypesInv, NEW l, NEW i, Learns(l, i), NEW k \in DOMAIN bag'.items
    PROVE  /\ k \in DOMAIN bag.items /\ bag'.items[k].index = bag.items[k].index
           /\ bag'.items[k].num = bag.items[k].num /\ bag'.items[k].worn = bag.items[k].worn
           /\ k = l => bag'.items[k].iid = i
           /\ k # l => bag'.items[k] = bag.items[k]
<1>1. CASE l \in DOMAIN bag.items
  <2>1. bag.items[l] \in Info /\ Replaces(bag', bag, l, [bag.items[l] EXCEPT !.iid = i])
    BY <1>1, ItemTypes DEF Learns, TypesInv
  <2>. QED  BY <2>1 DEF Replaces, Info
<1>2. CASE l \notin DOMAIN bag.items
  BY <1>2 DEF Learns
<1>. QED  BY <1>1, <1>2

LEMMA BagIsKept ==
    ASSUME TypesInv, Step
    PROVE  BagKept
<1>1. CASE BagShrinks
  BY <1>1 DEF BagShrinks, BagKept
<1>2. CASE \E i \in Indexes : GotNew(i)
  <2>1. ~(nextLocal + 1 <= nextLocal)
    BY DEF TypesInv
  <2>. QED  BY <1>2, <2>1 DEF GotNew, BagKept
<1>3. CASE \E new, local, size : Loads(new, local, size)
  BY <1>3, LoadedItem, BroughtItem DEF BagKept
<1>4. CASE \E l, i : Learns(l, i)
  BY <1>4, LearntItem DEF BagKept
<1>. QED  BY <1>1, <1>2, <1>3, <1>4, BagCases

LEMMA RowsAreKept ==
    ASSUME TypesInv, Step
    PROVE  RowsKept
<1>5. ~(nextIid < nextIid)
  BY DEF TypesInv
<1>. USE DEF RowsKept
<1>1. CASE LifeStep
  <2>1. CASE UNCHANGED vars
    BY <2>1 DEF vars, vars
  <2>2. CASE Connects
    BY <2>2 DEF Connects
  <2>3. CASE Asks
    BY <2>3 DEF Asks
  <2>4. CASE \E p \in Pids \cup {NoPid} : AsksLoad(p)
    BY <2>4 DEF AsksLoad
  <2>5. CASE Starts
    BY <2>5 DEF Starts
  <2>6. CASE Restarts
    BY <2>6 DEF Restarts
  <2>7. CASE OnDisconnected
    BY <2>7 DEF OnDisconnected
  <2>8. CASE Crash
    BY <2>8 DEF Crash
  <2>. QED  BY <1>1, <2>1, <2>2, <2>3, <2>4, <2>5, <2>6, <2>7, <2>8 DEF LifeStep
<1>2. CASE ItemStep
  <2>1. CASE \E l, n : AddsTo(l, n)
    BY <2>1 DEF AddsTo, ChangedOne
  <2>2. CASE \E i \in Indexes : GotNew(i) /\ conn /\ pid # NoPid
    BY <2>2 DEF GotNew
  <2>3. CASE \E l : Trashes(l)
    BY <2>3 DEF Trashes, ChangedOne
  <2>4. CASE \E l : PutsOn(l)
    BY <2>4 DEF PutsOn, ChangedOne
  <2>5. CASE \E l : PutsOff(l)
    BY <2>5 DEF PutsOff, ChangedOne
  <2>. QED  BY <1>2, <2>1, <2>2, <2>3, <2>4, <2>5 DEF ItemStep
<1>3. CASE DbStep
  <2>1. CASE Lists \/ Refuses
    BY <2>1 DEF Lists, Refuses, Kind
  <2>2. CASE \E sent : Reads(sent)
    BY <2>2 DEF Reads, Kind
  <2>3. CASE Inserts
    BY <2>3, <1>5 DEF Inserts, Kind
  <2>4. CASE SetsNum
    BY <2>4 DEF SetsNum, Kind, SameRows
  <2>5. CASE SetsWorn
    BY <2>5 DEF SetsWorn, Kind, SameRows
  <2>6. CASE Deletes
    BY <2>6 DEF Deletes, Kind
  <2>. QED  BY <1>3, <2>1, <2>2, <2>3, <2>4, <2>5, <2>6 DEF DbStep
<1>4. CASE ListenerStep
  <2>1. CASE Drops
    BY <2>1 DEF Drops
  <2>2. CASE GetsPlayers
    BY <2>2 DEF GetsPlayers, Told
  <2>3. CASE GetsPlayer \/ IsRefused
    BY <2>3 DEF GetsPlayer, IsRefused, Told
  <2>4. CASE \E new, local, size : Loads(new, local, size)
    BY <2>4 DEF Loads
  <2>5. CASE \E l, i : Learns(l, i)
    BY <2>5 DEF Learns
  <2>. QED  BY <1>4, <2>1, <2>2, <2>3, <2>4, <2>5 DEF ListenerStep
<1>. QED  BY <1>1, <1>2, <1>3, <1>4 DEF Step

LEMMA BagKindsStep ==
    ASSUME TypesInv, NumbersInv, KindsInv, Step
    PROVE  BagKinds'
<1>1. BagKinds /\ LoadKinds /\ AnswerKinds /\ BagNumbers /\ DownNumbers
  BY DEF KindsInv, NumbersInv
<1>2. RowsKept
  BY RowsAreKept
<1>3. CASE BagShrinks
  BY <1>1, <1>2, <1>3 DEF BagShrinks, BagKinds, RowsKept, BagNumbers
<1>4. CASE \E i \in Indexes : GotNew(i)
  <2>1. \A l \in DOMAIN bag'.items : \/ bag'.items[l].iid = 0
                                     \/ l \in DOMAIN bag.items /\ bag'.items[l] = bag.items[l]
    BY <1>4 DEF GotNew, NewInfo
  <2>2. 0 \notin DOMAIN rows /\ rows' = rows
    BY <1>4, InMaps DEF TypesInv, GotNew
  <2>. QED  BY <1>1, <2>1, <2>2 DEF BagKinds
<1>5. CASE \E new, local, size : Loads(new, local, size)
  <2>1. PICK new, local, size : Loads(new, local, size)
    BY <1>5
  <2>2. ASSUME NEW l \in DOMAIN new, new[l].iid \in DOMAIN rows
        PROVE  rows[new[l].iid].index = new[l].index
    <3>1. PICK i \in DOMAIN d2s[1].rows : new[l] = AsItem(i, d2s[1].rows[i])
      BY <2>1, BroughtItem
    <3>2. Down("D2S_LOADITEMS", 1)
      BY <2>1 DEF Loads, Heard, Down
    <3>3. new[l].iid = i /\ new[l].index = d2s[1].rows[i].index
      BY <3>1 DEF AsItem
    <3>. QED  BY <1>1, <2>2, <3>2, <3>3 DEF LoadKinds
  <2>3. rows' = rows
    BY <2>1 DEF Loads
  <2>. QED  BY <1>1, <2>1, <2>2, <2>3, LoadedItem DEF BagKinds
<1>6. CASE \E l, i : Learns(l, i)
  <2>1. PICK l, i : Learns(l, i)
    BY <1>6
  <2>2. Down("D2S_UPDATEITEMIID", 1) /\ d2s[1].local = l /\ d2s[1].iid = i /\ rows' = rows
    BY <2>1 DEF Learns, Heard, Down
  <2>. QED  BY <1>1, <2>1, <2>2, LearntItem DEF BagKinds, AnswerKinds
<1>. QED  BY <1>3, <1>4, <1>5, <1>6, BagCases

LEMMA BagWearableStep ==
    ASSUME TypesInv, KindsInv, Step
    PROVE  BagWearable'
<1>5. BagWearable /\ LoadKinds /\ DOMAIN EmptyBag.items = {}
  BY Emptied DEF KindsInv
<1>6. \A l \in DOMAIN bag.items : bag.items[l] \in Info
  BY ItemTypes DEF TypesInv
<1>. USE <1>5 DEF BagWearable
<1>1. CASE LifeStep
  <2>1. CASE UNCHANGED vars
    BY <2>1 DEF vars, vars, game
  <2>2. CASE Connects
    BY <2>2 DEF Connects
  <2>3. CASE Asks
    BY <2>3 DEF Asks, game
  <2>4. CASE \E p \in Pids \cup {NoPid} : AsksLoad(p)
    BY <2>4 DEF AsksLoad
  <2>5. CASE Starts
    BY <2>5 DEF Starts
  <2>6. CASE Restarts
    BY <2>6 DEF Restarts
  <2>7. CASE OnDisconnected
    BY <2>7 DEF OnDisconnected
  <2>8. CASE Crash
    BY <2>8 DEF Crash
  <2>. QED  BY <1>1, <2>1, <2>2, <2>3, <2>4, <2>5, <2>6, <2>7, <2>8 DEF LifeStep
<1>2. CASE ItemStep
  <2>1. CASE \E l, n : AddsTo(l, n)
    <3>1. PICK l, n : AddsTo(l, n)
      BY <2>1
    <3>2. l \in DOMAIN bag.items /\ Replaces(bag', bag, l, [bag.items[l] EXCEPT !.num = n])
      BY <3>1 DEF AddsTo
    <3>3. bag.items[l] \in Info
      BY <1>6, <3>2
    <3>4. bag'.items[l].index = bag.items[l].index /\ bag'.items[l].worn = bag.items[l].worn
      BY <3>2, <3>3 DEF Replaces, Info
    <3>. QED  BY <3>2, <3>4 DEF Replaces
  <2>2. CASE \E i \in Indexes : GotNew(i) /\ conn /\ pid # NoPid
    BY <2>2 DEF GotNew, NewInfo
  <2>3. CASE \E l : Trashes(l)
    BY <2>3 DEF Trashes, ChangedOne, IsTrashed
  <2>4. CASE \E l : PutsOn(l)
    <3>1. PICK l : PutsOn(l)
      BY <2>4
    <3>2. l \in DOMAIN bag.items /\ Replaces(bag', bag, l, [bag.items[l] EXCEPT !.worn = TRUE])
      BY <3>1 DEF PutsOn, IsPutOn
    <3>3. bag.items[l] \in Info
      BY <1>6, <3>2
    <3>4. bag'.items[l].index = bag.items[l].index /\ bag'.items[l].worn = TRUE
      BY <3>2, <3>3 DEF Replaces, Info
    <3>5. CanBeWorn(bag.items[l].index)
      BY <3>1 DEF PutsOn, CanPutOn, CanBeWorn
    <3>. QED  BY <3>5, <3>2, <3>4 DEF Replaces
  <2>5. CASE \E l : PutsOff(l)
    <3>1. PICK l : PutsOff(l)
      BY <2>5
    <3>2. l \in DOMAIN bag.items /\ Replaces(bag', bag, l, [bag.items[l] EXCEPT !.worn = FALSE])
      BY <3>1 DEF PutsOff, IsPutOff
    <3>3. bag.items[l] \in Info
      BY <1>6, <3>2
    <3>4. bag'.items[l].index = bag.items[l].index /\ bag'.items[l].worn = FALSE
      BY <3>2, <3>3 DEF Replaces, Info
    <3>. QED  BY <3>2, <3>4 DEF Replaces
  <2>. QED  BY <1>2, <2>1, <2>2, <2>3, <2>4, <2>5 DEF ItemStep
<1>3. CASE DbStep
  <2>1. CASE Lists \/ Refuses
    BY <2>1 DEF Lists, Refuses, Kind, game
  <2>2. CASE \E sent : Reads(sent)
    BY <2>2 DEF Reads, Kind, game
  <2>3. CASE Inserts
    BY <2>3 DEF Inserts, Kind, game
  <2>4. CASE SetsNum
    BY <2>4 DEF SetsNum, Kind, game
  <2>5. CASE SetsWorn
    BY <2>5 DEF SetsWorn, Kind, game
  <2>6. CASE Deletes
    BY <2>6 DEF Deletes, Kind, game
  <2>. QED  BY <1>3, <2>1, <2>2, <2>3, <2>4, <2>5, <2>6 DEF DbStep
<1>4. CASE ListenerStep
  <2>1. CASE Drops
    BY <2>1 DEF Drops, game
  <2>2. CASE GetsPlayers
    BY <2>2 DEF GetsPlayers, Told
  <2>3. CASE GetsPlayer \/ IsRefused
    BY <2>3 DEF GetsPlayer, IsRefused, Told, game
  <2>4. CASE \E new, local, size : Loads(new, local, size)
    <3>1. PICK new, local, size : Loads(new, local, size)
      BY <2>4
    <3>2. ASSUME NEW l \in DOMAIN new, new[l].worn
          PROVE  CanBeWorn(new[l].index)
      <4>1. PICK i \in DOMAIN d2s[1].rows : new[l] = AsItem(i, d2s[1].rows[i])
        BY <3>1, BroughtItem
      <4>2. Down("D2S_LOADITEMS", 1)
        BY <3>1 DEF Loads, Heard, Down
      <4>3. new[l].worn = d2s[1].rows[i].worn /\ new[l].index = d2s[1].rows[i].index
        BY <4>1 DEF AsItem
      <4>. QED  BY <3>2, <4>2, <4>3 DEF LoadKinds
    <3>. QED  BY <3>1, <3>2, LoadedItem
  <2>5. CASE \E l, i : Learns(l, i)
    BY <2>5, LearntItem
  <2>. QED  BY <1>4, <2>1, <2>2, <2>3, <2>4, <2>5 DEF ListenerStep
<1>. QED  BY <1>1, <1>2, <1>3, <1>4 DEF Step

LEMMA TableWearableStep ==
    ASSUME TypesInv, KindsInv, Step
    PROVE  TableWearable'
<1>5. TableWearable /\ InfoKinds
  BY DEF KindsInv
<1>. USE <1>5 DEF TableWearable
<1>1. CASE LifeStep
  <2>1. CASE UNCHANGED vars
    BY <2>1 DEF vars, vars
  <2>2. CASE Connects
    BY <2>2 DEF Connects
  <2>3. CASE Asks
    BY <2>3 DEF Asks
  <2>4. CASE \E p \in Pids \cup {NoPid} : AsksLoad(p)
    BY <2>4 DEF AsksLoad
  <2>5. CASE Starts
    BY <2>5 DEF Starts
  <2>6. CASE Restarts
    BY <2>6 DEF Restarts
  <2>7. CASE OnDisconnected
    BY <2>7 DEF OnDisconnected
  <2>8. CASE Crash
    BY <2>8 DEF Crash
  <2>. QED  BY <1>1, <2>1, <2>2, <2>3, <2>4, <2>5, <2>6, <2>7, <2>8 DEF LifeStep
<1>2. CASE ItemStep
  <2>1. CASE \E l, n : AddsTo(l, n)
    BY <2>1 DEF AddsTo, ChangedOne
  <2>2. CASE \E i \in Indexes : GotNew(i) /\ conn /\ pid # NoPid
    BY <2>2 DEF GotNew
  <2>3. CASE \E l : Trashes(l)
    BY <2>3 DEF Trashes, ChangedOne
  <2>4. CASE \E l : PutsOn(l)
    BY <2>4 DEF PutsOn, ChangedOne
  <2>5. CASE \E l : PutsOff(l)
    BY <2>5 DEF PutsOff, ChangedOne
  <2>. QED  BY <1>2, <2>1, <2>2, <2>3, <2>4, <2>5 DEF ItemStep
<1>3. CASE DbStep
  <2>1. CASE Lists \/ Refuses
    BY <2>1 DEF Lists, Refuses, Kind
  <2>2. CASE \E sent : Reads(sent)
    BY <2>2 DEF Reads, Kind
  <2>3. CASE Inserts
    BY <2>3 DEF Inserts, Kind
  <2>4. CASE SetsNum
    BY <2>4 DEF SetsNum, Kind, SameRows
  <2>5. CASE SetsWorn
    BY <2>5 DEF SetsWorn, Kind, SameRows, InfoKinds, Up, Fetched
  <2>6. CASE Deletes
    BY <2>6 DEF Deletes, Kind
  <2>. QED  BY <1>3, <2>1, <2>2, <2>3, <2>4, <2>5, <2>6 DEF DbStep
<1>4. CASE ListenerStep
  <2>1. CASE Drops
    BY <2>1 DEF Drops
  <2>2. CASE GetsPlayers
    BY <2>2 DEF GetsPlayers, Told
  <2>3. CASE GetsPlayer \/ IsRefused
    BY <2>3 DEF GetsPlayer, IsRefused, Told
  <2>4. CASE \E new, local, size : Loads(new, local, size)
    BY <2>4 DEF Loads
  <2>5. CASE \E l, i : Learns(l, i)
    BY <2>5 DEF Learns
  <2>. QED  BY <1>4, <2>1, <2>2, <2>3, <2>4, <2>5 DEF ListenerStep
<1>. QED  BY <1>1, <1>2, <1>3, <1>4 DEF Step

\* A packet of another type than T, or one that was there.
LEMMA UpIsOld ==
    ASSUME NEW T, UpOld(T), NEW k \in DOMAIN s2d', s2d'[k].type \in T
    PROVE  \E j \in DOMAIN s2d : s2d'[k] = s2d[j]
  BY DEF UpOld

LEMMA DownIsOld ==
    ASSUME NEW T, DownOld(T), NEW k \in DOMAIN d2s', d2s'[k].type \in T
    PROVE  \E j \in DOMAIN d2s : d2s'[k] = d2s[j]
  BY DEF DownOld

LEMMA InfoKindsStep ==
    ASSUME TypesInv, NumbersInv, KindsInv, Step
    PROVE  InfoKinds'
<1>1. InfoKinds /\ BagKinds /\ UpNumbers /\ BagNumbers
  BY DEF KindsInv, NumbersInv
<1>2. RowsKept
  BY RowsAreKept
<1>. DEFINE T == {"S2D_UPDATEITEMINFO"}
            Good(m) == m.worn /\ m.iid \in DOMAIN rows' => CanBeWorn(rows'[m.iid].index)
<1>3. ASSUME NEW k, Up("S2D_UPDATEITEMINFO", k)
      PROVE  Good(s2d[k])
  <2>1. s2d[k].iid < nextIid
    BY <1>1, <1>3 DEF UpNumbers, UpGiven, Up, Naming
  <2>. QED  BY <1>1, <1>2, <1>3, <2>1 DEF RowsKept, InfoKinds
<1>4. ASSUME NEW k, Up("S2D_UPDATEITEMINFO", k)'
      PROVE  Good(s2d'[k])
  <2>1. CASE UpOld(T)
    <3>1. PICK j \in DOMAIN s2d : s2d'[k] = s2d[j]
      BY <1>4, <2>1, UpIsOld DEF Up
    <3>. QED  BY <1>3, <1>4, <3>1 DEF Up
  <2>2. CASE \E l : PutsOn(l)
    <3>1. PICK l : PutsOn(l)
      BY <2>2
    <3>2. \/ Up("S2D_UPDATEITEMINFO", k) /\ s2d'[k] = s2d[k]
          \/ s2d'[k].iid = bag.items[l].iid
      BY <1>4, <3>1 DEF PutsOn, Sent, Up
    <3>3. CASE s2d'[k].iid = bag.items[l].iid
      <4>1. l \in DOMAIN bag.items /\ CanBeWorn(bag.items[l].index) /\ rows' = rows
        BY <3>1 DEF PutsOn, CanPutOn, CanBeWorn, ChangedOne
      <4>. QED  BY <1>1, <3>3, <4>1 DEF BagKinds
    <3>. QED  BY <1>3, <3>2, <3>3
  <2>3. CASE \E l : PutsOff(l)
    <3>1. PICK l : PutsOff(l)
      BY <2>3
    <3>2. \/ Up("S2D_UPDATEITEMINFO", k) /\ s2d'[k] = s2d[k]
          \/ s2d'[k].worn = FALSE
      BY <1>4, <3>1 DEF PutsOff, Sent, Up
    <3>. QED  BY <1>3, <3>2
  <2>. QED  BY <2>1, <2>2, <2>3, OldUps
<1>. QED  BY <1>4 DEF InfoKinds

LEMMA InsertKindsStep ==
    ASSUME TypesInv, NumbersInv, KindsInv, Step
    PROVE  InsertKinds'
<1>1. InsertKinds /\ UpNumbers
  BY DEF KindsInv, NumbersInv
<1>2. BagKept
  BY BagIsKept
<1>. DEFINE T == {"S2D_INSERTITEM"}
            Good(m) == m.local \in DOMAIN bag'.items => m.index = bag'.items[m.local].index
<1>3. ASSUME NEW k, Up("S2D_INSERTITEM", k)
      PROVE  Good(s2d[k])
  <2>1. s2d[k].local <= nextLocal
    BY <1>1, <1>3 DEF UpNumbers, UpGiven, Up
  <2>. QED  BY <1>1, <1>2, <1>3, <2>1 DEF BagKept, InsertKinds
<1>4. ASSUME NEW k, Up("S2D_INSERTITEM", k)'
      PROVE  Good(s2d'[k])
  <2>1. CASE UpOld(T)
    <3>1. PICK j \in DOMAIN s2d : s2d'[k] = s2d[j]
      BY <1>4, <2>1, UpIsOld DEF Up
    <3>. QED  BY <1>3, <1>4, <3>1 DEF Up
  <2>2. CASE \E i \in Indexes : GotNew(i)
    <3>1. PICK i \in Indexes : GotNew(i)
      BY <2>2
    <3>2. \/ Up("S2D_INSERTITEM", k) /\ s2d'[k] = s2d[k]
          \/ s2d'[k].local = nextLocal + 1 /\ s2d'[k].index = i
      BY <1>4, <3>1 DEF GotNew, Sent, Up
    <3>3. bag'.items[nextLocal + 1].index = i
      BY <3>1 DEF GotNew, NewInfo
    <3>. QED  BY <1>3, <3>2, <3>3
  <2>. QED  BY <2>1, <2>2, OldInserts
<1>. QED  BY <1>4 DEF InsertKinds

LEMMA AnswerKindsStep ==
    ASSUME TypesInv, NumbersInv, KindsInv, Step
    PROVE  AnswerKinds'
<1>1. AnswerKinds /\ InsertKinds /\ UpNumbers /\ DownNumbers
  BY DEF KindsInv, NumbersInv
<1>2. BagKept /\ RowsKept
  BY BagIsKept, RowsAreKept
<1>. DEFINE T == {"D2S_UPDATEITEMIID"}
            Good(m) == m.local \in DOMAIN bag'.items /\ m.iid \in DOMAIN rows' =>
                          rows'[m.iid].index = bag'.items[m.local].index
<1>3. ASSUME NEW k, Down("D2S_UPDATEITEMIID", k)
      PROVE  Good(d2s[k])
  <2>1. d2s[k].local <= nextLocal /\ d2s[k].iid \in 1 .. nextIid - 1
    BY <1>1, <1>3 DEF DownNumbers, DownGiven, Down
  <2>2. d2s[k].iid < nextIid
    BY <2>1 DEF TypesInv
  <2>. QED  BY <1>1, <1>2, <1>3, <2>1, <2>2 DEF BagKept, RowsKept, AnswerKinds
<1>4. ASSUME NEW k, Down("D2S_UPDATEITEMIID", k)'
      PROVE  Good(d2s'[k])
  <2>1. CASE DownOld(T)
    <3>1. PICK j \in DOMAIN d2s : d2s'[k] = d2s[j]
      BY <1>4, <2>1, DownIsOld DEF Down
    <3>. QED  BY <1>3, <1>4, <3>1 DEF Down
  <2>2. CASE Inserts
    <3>1. \/ Down("D2S_UPDATEITEMIID", k) /\ d2s'[k] = d2s[k]
          \/ d2s'[k].local = s2d[1].local /\ d2s'[k].iid = nextIid
      BY <1>4, <2>2 DEF Inserts, Answered1, Down
    <3>2. rows'[nextIid].index = s2d[1].index /\ bag' = bag /\ Up("S2D_INSERTITEM", 1)
      BY <2>2 DEF Inserts, Kind, game, Fetched, Up
    <3>3. s2d[1].local \in DOMAIN bag.items => rows'[nextIid].index = bag.items[s2d[1].local].index
      BY <1>1, <3>2 DEF InsertKinds
    <3>. QED  BY <1>3, <3>1, <3>2, <3>3
  <2>. QED  BY <2>1, <2>2, OldAnswers
<1>. QED  BY <1>4 DEF AnswerKinds

LEMMA LoadKindsStep ==
    ASSUME TypesInv, NumbersInv, KindsInv, Step
    PROVE  LoadKinds'
<1>1. LoadKinds /\ TableWearable /\ DownNumbers /\ RowNumbers
  BY DEF KindsInv, NumbersInv
<1>2. RowsKept
  BY RowsAreKept
<1>. DEFINE T == {"D2S_LOADITEMS"}
            Good(m) == \A i \in DOMAIN m.rows :
                          /\ i \in DOMAIN rows' => rows'[i].index = m.rows[i].index
                          /\ m.rows[i].worn => CanBeWorn(m.rows[i].index)
<1>3. ASSUME NEW k, Down("D2S_LOADITEMS", k)
      PROVE  Good(d2s[k])
  <2>1. \A i \in DOMAIN d2s[k].rows : i < nextIid
    BY <1>1, <1>3 DEF DownNumbers, DownGiven, Down
  <2>. QED  BY <1>1, <1>2, <1>3, <2>1 DEF RowsKept, LoadKinds
<1>4. ASSUME NEW k, Down("D2S_LOADITEMS", k)'
      PROVE  Good(d2s'[k])
  <2>1. CASE DownOld(T)
    <3>1. PICK j \in DOMAIN d2s : d2s'[k] = d2s[j]
      BY <1>4, <2>1, DownIsOld DEF Down
    <3>. QED  BY <1>3, <1>4, <3>1 DEF Down
  <2>2. CASE \E sent : Reads(sent)
    <3>1. PICK sent : Reads(sent)
      BY <2>2
    <3>2. \/ Down("D2S_LOADITEMS", k) /\ d2s'[k] = d2s[k]
          \/ d2s'[k].rows = sent
      BY <1>4, <3>1 DEF Reads, Answered2, Down
    <3>3. \A i \in DOMAIN sent : i \in DOMAIN rows /\ sent[i] = rows[i] /\ rows' = rows
      BY <3>1 DEF Reads, RowsOf
    <3>. QED  BY <1>1, <1>3, <3>2, <3>3 DEF TableWearable
  <2>. QED  BY <2>1, <2>2, OldDowns
<1>. QED  BY <1>4 DEF LoadKinds

LEMMA KindsStep ==
    ASSUME TypesInv, NumbersInv, KindsInv, Step
    PROVE  KindsInv'
  BY BagKindsStep, BagWearableStep, TableWearableStep, InfoKindsStep, InsertKindsStep,
     AnswerKindsStep, LoadKindsStep DEF KindsInv


-----------------------------------------------------------------------------
(* BonusMatchesWorn.                                                        *)

Worth(items) == BonusOf(items, WornIn(items))

\* What is worn in the map c is what is worn in d.
SameWorn(c, d) ==
    /\ \A l \in WornIn(c) : l \in WornIn(d) /\ c[l].index = d[l].index
    /\ \A l \in WornIn(d) : l \in WornIn(c)

LEMMA SameWorth ==
    ASSUME NEW c \in Maps(Info), NEW d \in Maps(Info), NEW N \in Nat,
           \A l \in DOMAIN c : l <= N, \A l \in DOMAIN d : l <= N, SameWorn(c, d)
    PROVE  Worth(c) = Worth(d)
<1>1. WornIn(c) = WornIn(d) /\ WornIn(c) \subseteq DOMAIN c /\ WornIn(d) \subseteq DOMAIN d
  <2>1. WornIn(c) \subseteq WornIn(d) /\ WornIn(d) \subseteq WornIn(c)
    BY DEF SameWorn
  <2>. QED  BY <2>1 DEF WornIn
<1>2. /\ BonusOf(c, WornIn(c)) = SumOf(BonusIn(c), WornIn(c))
      /\ BonusOf(d, WornIn(d)) = SumOf(BonusIn(d), WornIn(d))
      /\ IsFiniteSet(DOMAIN c)
  BY <1>1, BonusInts
<1>3. IsFiniteSet(WornIn(c))
  BY <1>1, <1>2, FS_Subset
<1>4. \A l \in WornIn(c) : BonusIn(c)[l] = BonusIn(d)[l]
  BY <1>1 DEF SameWorn, BonusIn
<1>5. SumOf(BonusIn(c), WornIn(c)) = SumOf(BonusIn(d), WornIn(c))
  BY <1>3, <1>4, SumSame
<1>. QED  BY <1>1, <1>2, <1>5 DEF Worth

\* c has the worn items of d, and l.
OneMoreWorn(c, d, l) ==
    /\ l \in WornIn(c) /\ l \notin WornIn(d)
    /\ \A k \in WornIn(c) : k = l \/ (k \in WornIn(d) /\ c[k].index = d[k].index)
    /\ \A k \in WornIn(d) : k \in WornIn(c)

LEMMA OneMoreWorth ==
    ASSUME NEW c \in Maps(Info), NEW d \in Maps(Info), NEW N \in Nat,
           \A l \in DOMAIN c : l <= N, \A l \in DOMAIN d : l <= N,
           NEW l, OneMoreWorn(c, d, l)
    PROVE  /\ Worth(c) = Worth(d) + Bonus[c[l].index]
           /\ Worth(d) \in Int /\ Worth(c) \in Int /\ Bonus[c[l].index] \in Int
<1>1. WornIn(c) \ {l} = WornIn(d) /\ WornIn(c) \subseteq DOMAIN c /\ WornIn(d) \subseteq DOMAIN d
  <2>1. WornIn(c) \ {l} \subseteq WornIn(d) /\ WornIn(d) \subseteq WornIn(c) \ {l}
    BY DEF OneMoreWorn
  <2>. QED  BY <2>1 DEF WornIn
<1>2. /\ BonusOf(c, WornIn(c)) = SumOf(BonusIn(c), WornIn(c))
      /\ BonusOf(d, WornIn(d)) = SumOf(BonusIn(d), WornIn(d))
      /\ BonusOf(c, WornIn(c)) \in Int /\ BonusOf(d, WornIn(d)) \in Int
      /\ IsFiniteSet(DOMAIN c) /\ IsFiniteSet(DOMAIN d)
      /\ \A x \in DOMAIN c : BonusIn(c)[x] = Bonus[c[x].index] /\ Bonus[c[x].index] \in Int
  BY <1>1, BonusInts
<1>3. IsFiniteSet(WornIn(d))
  BY <1>1, <1>2, FS_Subset
<1>4. \A k \in WornIn(d) : BonusIn(c)[k] = BonusIn(d)[k]
  BY <1>1 DEF OneMoreWorn, BonusIn
<1>5. SumOf(BonusIn(c), WornIn(d)) = SumOf(BonusIn(d), WornIn(d))
  BY <1>3, <1>4, SumSame
<1>6. l \in WornIn(c) /\ l \in DOMAIN c
  BY <1>1 DEF OneMoreWorn
<1>7. SumOf(BonusIn(c), WornIn(c)) = BonusIn(c)[l] + SumOf(BonusIn(c), WornIn(c) \ {l})
  <2>1. \A x \in DOMAIN c : BonusIn(c)[x] \in Int
    BY <1>2
  <2>. QED  BY <1>1, <1>2, <1>6, <2>1, SumTakes
<1>8. Worth(c) = Bonus[c[l].index] + Worth(d) /\ Worth(d) \in Int /\ Worth(c) \in Int
      /\ Bonus[c[l].index] \in Int
  BY <1>1, <1>2, <1>5, <1>6, <1>7 DEF Worth
<1>. QED  BY <1>8

\* c has the items of d, and others.
BothWorn(c, new, d) ==
    /\ \A k \in DOMAIN new : k \in DOMAIN c /\ c[k] = new[k]
    /\ \A k \in DOMAIN d : k \in DOMAIN c /\ c[k] = d[k] /\ k \notin DOMAIN new
    /\ \A k \in DOMAIN c : k \in DOMAIN new \/ k \in DOMAIN d

LEMMA BothWorth ==
    ASSUME NEW c \in Maps(Info), NEW new \in Maps(Info), NEW d \in Maps(Info), NEW N \in Nat,
           \A l \in DOMAIN c : l <= N, BothWorn(c, new, d)
    PROVE  Worth(c) = Worth(new) + Worth(d) /\ Worth(new) \in Int /\ Worth(d) \in Int
<1>1. /\ WornIn(c) = WornIn(new) \cup WornIn(d) /\ WornIn(new) \cap WornIn(d) = {}
      /\ WornIn(new) \subseteq DOMAIN new /\ WornIn(d) \subseteq DOMAIN d
      /\ WornIn(new) \subseteq DOMAIN c /\ WornIn(d) \subseteq DOMAIN c
  BY DEF WornIn, BothWorn
<1>2. (\A l \in DOMAIN new : l <= N) /\ (\A l \in DOMAIN d : l <= N)
  BY DEF BothWorn
<1>3. /\ BonusOf(c, WornIn(c)) = SumOf(BonusIn(c), WornIn(c)) /\ IsFiniteSet(DOMAIN c)
      /\ \A x \in DOMAIN c : BonusIn(c)[x] = Bonus[c[x].index] /\ Bonus[c[x].index] \in Int
  BY <1>1, BonusInts
<1>4. /\ BonusOf(new, WornIn(new)) = SumOf(BonusIn(new), WornIn(new)) /\ IsFiniteSet(DOMAIN new)
      /\ BonusOf(new, WornIn(new)) \in Int
  BY <1>1, <1>2, BonusInts
<1>5. /\ BonusOf(d, WornIn(d)) = SumOf(BonusIn(d), WornIn(d)) /\ IsFiniteSet(DOMAIN d)
      /\ BonusOf(d, WornIn(d)) \in Int
  BY <1>1, <1>2, BonusInts
<1>6. IsFiniteSet(WornIn(new)) /\ IsFiniteSet(WornIn(d))
  BY <1>1, <1>4, <1>5, FS_Subset
<1>7. (\A k \in WornIn(new) : BonusIn(c)[k] = BonusIn(new)[k])
      /\ (\A k \in WornIn(d) : BonusIn(c)[k] = BonusIn(d)[k])
  BY <1>1 DEF BothWorn, BonusIn
<1>8. SumOf(BonusIn(c), WornIn(new)) = SumOf(BonusIn(new), WornIn(new))
      /\ SumOf(BonusIn(c), WornIn(d)) = SumOf(BonusIn(d), WornIn(d))
  BY <1>6, <1>7, SumSame
<1>9. SumOf(BonusIn(c), WornIn(new) \cup WornIn(d))
        = SumOf(BonusIn(c), WornIn(new)) + SumOf(BonusIn(c), WornIn(d))
  <2>1. \A x \in DOMAIN c : BonusIn(c)[x] \in Int
    BY <1>3
  <2>. QED  BY <1>1, <1>3, <2>1, SumUnion
<1>. QED  BY <1>1, <1>3, <1>4, <1>5, <1>8, <1>9 DEF Worth

LEMMA Wraps ==
    ASSUME NEW a \in Int, NEW b \in Int
    PROVE  /\ (a % 65536) % 65536 = a % 65536
           /\ ((a % 65536) + b) % 65536 = (a + b) % 65536
           /\ ((a % 65536) - b) % 65536 = (a - b) % 65536
  OBVIOUS

LEMMA BonusSame ==
    ASSUME TypesInv, TypesInv', BagNumbers, BagNumbers', nextLocal' >= nextLocal, BonusMatchesWorn,
           SameWorn(bag'.items, bag.items),
           bag'.bonus = bag.bonus \/ bag'.bonus = bag.bonus % 65536
    PROVE  BonusMatchesWorn'
<1>. DEFINE c == bag'.items
            d == bag.items
<1>1. c \in Maps(Info) /\ d \in Maps(Info) /\ nextLocal' \in Nat /\ nextLocal \in Nat
  BY DEF TypesInv, Bag
<1>2. (\A l \in DOMAIN c : l <= nextLocal') /\ (\A l \in DOMAIN d : l <= nextLocal')
  <2>1. \A l \in DOMAIN c : l <= nextLocal'
    BY DEF BagNumbers
  <2>2. ASSUME NEW l \in DOMAIN d PROVE l <= nextLocal'
    <3>1. l \in Nat /\ l <= nextLocal
      BY <1>1, InMaps DEF BagNumbers
    <3>. QED  BY <1>1, <3>1
  <2>. QED  BY <2>1, <2>2
<1>3. bag.bonus = Worth(d) % 65536
  BY DEF BonusMatchesWorn, Worth, WornIn
<1>4. Worth(c) = Worth(d) /\ Worth(d) \in Int
  <2>1. WornIn(d) \in SUBSET DOMAIN d
    BY DEF WornIn
  <2>2. BonusOf(d, WornIn(d)) \in Int
    BY <1>1, <1>2, <2>1, BonusInts
  <2>. QED  BY <1>1, <1>2, <2>2, SameWorth DEF Worth
<1>5. bag'.bonus = Worth(c) % 65536
  BY <1>3, <1>4, Wraps
<1>. HIDE DEF c, d
<1>6. \A items : Worth(items) = BonusOf(items, {l \in DOMAIN items :
                                   items[l].worn /\ Wearable(items[l].index)})
  BY DEF Worth, WornIn
<1>. QED  BY <1>5, <1>6 DEF BonusMatchesWorn, c

LEMMA BonusStep ==
    ASSUME TypesInv, TypesInv', NumbersInv, NumbersInv', KindsInv, BonusMatchesWorn, Step
    PROVE  BonusMatchesWorn'
<1>5. /\ nextLocal \in Nat /\ nextLocal >= nextLocal /\ bag.items \in Maps(Info) /\ bag'.items \in Maps(Info)
      /\ nextLocal' \in Nat
  BY DEF TypesInv, Bag
<1>6. BagNumbers /\ BagNumbers'
  BY DEF NumbersInv
<1>7. SameWorn(bag.items, bag.items)
  BY DEF SameWorn, WornIn
<1>8. bag.bonus = Worth(bag.items) % 65536 /\ (BonusMatchesWorn' <=> bag'.bonus = Worth(bag'.items) % 65536)
  BY DEF BonusMatchesWorn, Worth, WornIn
<1>9. bag' = EmptyBag => BonusMatchesWorn'
  <2>1. ASSUME bag' = EmptyBag PROVE bag'.bonus = Worth(bag'.items) % 65536
    <3>1. DOMAIN EmptyBag.items = {} /\ EmptyBag.bonus = 0 /\ EmptyBag.items \in Maps(Info)
      BY Emptied DEF EmptyBag, Bag
    <3>2. WornIn(EmptyBag.items) = {}
      BY <3>1 DEF WornIn
    <3>3. BonusOf(EmptyBag.items, {}) = SumOf(BonusIn(EmptyBag.items), {})
      BY <3>1, BonusInts, 0 \in Nat
    <3>4. Worth(EmptyBag.items) = 0
      BY <3>2, <3>3, SumEmpty DEF Worth
    <3>. QED  BY <2>1, <3>1, <3>4
  <2>. QED  BY <1>8, <2>1
<1>10. ASSUME UNCHANGED bag, nextLocal' >= nextLocal
       PROVE  BonusMatchesWorn'
  BY <1>6, <1>7, <1>10, BonusSame
<1>11. \A l \in DOMAIN bag.items : bag.items[l].worn => CanBeWorn(bag.items[l].index)
  BY DEF KindsInv, BagWearable
<1>1. CASE LifeStep
  <2>1. CASE UNCHANGED vars
    BY <2>1, <1>5, <1>10 DEF vars, vars, game
  <2>2. CASE Connects
    BY <2>2, <1>5, <1>10 DEF Connects
  <2>3. CASE Asks
    BY <2>3, <1>5, <1>10 DEF Asks, game
  <2>4. CASE \E p \in Pids \cup {NoPid} : AsksLoad(p)
    BY <2>4, <1>5, <1>10 DEF AsksLoad
  <2>5. CASE Starts
    BY <2>5, <1>5, <1>10 DEF Starts
  <2>6. CASE Restarts
    BY <2>6, <1>9 DEF Restarts
  <2>7. CASE OnDisconnected
    BY <2>7, <1>9 DEF OnDisconnected
  <2>8. CASE Crash
    BY <2>8, <1>9 DEF Crash
  <2>. QED  BY <1>1, <2>1, <2>2, <2>3, <2>4, <2>5, <2>6, <2>7, <2>8 DEF LifeStep
<1>2. CASE ItemStep
  <2>1. CASE \E l, n : AddsTo(l, n)
    <3>1. PICK l, n : AddsTo(l, n)
      BY <2>1
    <3>2. /\ l \in DOMAIN bag.items /\ Replaces(bag', bag, l, [bag.items[l] EXCEPT !.num = n])
          /\ nextLocal' = nextLocal /\ bag'.bonus = bag.bonus
      BY <3>1 DEF AddsTo, ChangedOne, SameWear
    <3>3. bag'.items[l].index = bag.items[l].index /\ bag'.items[l].worn = bag.items[l].worn
      BY <3>2, ItemTypes DEF Replaces, Info, TypesInv
    <3>4. SameWorn(bag'.items, bag.items)
      BY <3>2, <3>3 DEF Replaces, SameWorn, WornIn
    <3>. QED  BY <1>5, <1>6, <3>2, <3>4, BonusSame
  <2>2. CASE \E i \in Indexes : GotNew(i) /\ conn /\ pid # NoPid
    <3>1. PICK i \in Indexes : GotNew(i)
      BY <2>2
    <3>2. /\ DOMAIN bag'.items = DOMAIN bag.items \cup {nextLocal + 1}
          /\ ~bag'.items[nextLocal + 1].worn /\ bag'.bonus = bag.bonus % 65536
          /\ \A k \in DOMAIN bag.items \ {nextLocal + 1} : bag'.items[k] = bag.items[k]
      BY <3>1 DEF GotNew, NewInfo
    <3>3. nextLocal + 1 \notin DOMAIN bag.items
      <4>1. ~(nextLocal + 1 <= nextLocal)
        BY <1>5
      <4>. QED  BY <1>6, <4>1 DEF BagNumbers
    <3>4. SameWorn(bag'.items, bag.items)
      BY <3>2, <3>3 DEF SameWorn, WornIn
    <3>5. nextLocal' >= nextLocal
      BY <1>5, <3>1 DEF GotNew
    <3>. QED  BY <1>6, <3>2, <3>4, <3>5, BonusSame
  <2>3. CASE \E l : Trashes(l)
    <3>1. PICK l : Trashes(l)
      BY <2>3
    <3>2. /\ IsTrashed(bag', bag, l) /\ ~bag.items[l].worn
          /\ nextLocal' = nextLocal /\ bag'.bonus = bag.bonus
      BY <3>1 DEF Trashes, ChangedOne, IsTrashed
    <3>3. SameWorn(bag'.items, bag.items)
      BY <3>2 DEF IsTrashed, SameWorn, WornIn
    <3>. QED  BY <1>5, <1>6, <3>2, <3>3, BonusSame
  <2>4. CASE \E l : PutsOn(l)
    <3>1. PICK l : PutsOn(l)
      BY <2>4
    <3>. DEFINE i == bag.items[l].index
    <3>2. /\ l \in DOMAIN bag.items /\ Replaces(bag', bag, l, [bag.items[l] EXCEPT !.worn = TRUE])
          /\ nextLocal' = nextLocal /\ CanBeWorn(i)
      BY <3>1, <1>11 DEF PutsOn, IsPutOn, ChangedOne, CanPutOn, CanPutOff, CanBeWorn
    <3>3. /\ bag'.items[l].index = i /\ bag'.items[l].worn = TRUE /\ i \in Indexes
          /\ l \in Nat /\ \A k \in DOMAIN bag.items \ {l} : bag'.items[k] = bag.items[k]
      BY <3>2, ItemTypes DEF Replaces, Info, TypesInv
    <3>4. CASE i \in Rides
      <4>1. ~Wearable(i)
        BY <3>3, <3>4, SlotTypes
      <4>2. SameWorn(bag'.items, bag.items)
        BY <3>2, <3>3, <4>1 DEF Replaces, SameWorn, WornIn
      <4>3. bag'.bonus = bag.bonus
        BY <3>1, <3>4 DEF PutsOn, IsPutOn
      <4>. QED  BY <1>5, <1>6, <3>2, <4>2, <4>3, BonusSame
    <3>5. CASE i \notin Rides
      <4>1. Wearable(i)
        BY <3>2, <3>5 DEF CanBeWorn
      <4>2. OneMoreWorn(bag'.items, bag.items, l)
        BY <3>1, <3>2, <3>3, <4>1 DEF PutsOn, CanPutOn, CanPutOff, Replaces, OneMoreWorn, WornIn
      <4>3. (\A k \in DOMAIN bag.items : k <= nextLocal) /\ (\A k \in DOMAIN bag'.items : k <= nextLocal)
        BY <1>6, <3>2 DEF BagNumbers
      <4>4. bag'.bonus = (bag.bonus + Bonus[i]) % 65536
        BY <3>1, <3>5 DEF PutsOn, IsPutOn
      <4>5. /\ Worth(bag'.items) = Worth(bag.items) + Bonus[i]
            /\ Worth(bag.items) \in Int /\ Worth(bag'.items) \in Int /\ Bonus[i] \in Int
        BY <1>5, <3>3, <4>2, <4>3, OneMoreWorth
      <4>6. bag'.bonus = (Worth(bag.items) + Bonus[i]) % 65536
        BY <1>8, <4>4, <4>5, Wraps
      <4>7. Worth(bag'.items) = Worth(bag.items) + Bonus[i]
        BY <4>5
      <4>. QED  BY <1>8, <4>6, <4>7
    <3>. QED  BY <3>4, <3>5
  <2>5. CASE \E l : PutsOff(l)
    <3>1. PICK l : PutsOff(l)
      BY <2>5
    <3>. DEFINE i == bag.items[l].index
    <3>2. /\ l \in DOMAIN bag.items /\ Replaces(bag', bag, l, [bag.items[l] EXCEPT !.worn = FALSE])
          /\ nextLocal' = nextLocal /\ CanBeWorn(i)
      BY <3>1, <1>11 DEF PutsOff, IsPutOff, ChangedOne, CanPutOn, CanPutOff, CanBeWorn
    <3>3. /\ bag'.items[l].index = i /\ bag'.items[l].worn = FALSE /\ i \in Indexes
          /\ l \in Nat /\ \A k \in DOMAIN bag.items \ {l} : bag'.items[k] = bag.items[k]
      BY <3>2, ItemTypes DEF Replaces, Info, TypesInv
    <3>4. CASE i \in Rides
      <4>1. ~Wearable(i)
        BY <3>3, <3>4, SlotTypes
      <4>2. SameWorn(bag'.items, bag.items)
        BY <3>2, <3>3, <4>1 DEF Replaces, SameWorn, WornIn
      <4>3. bag'.bonus = bag.bonus
        BY <3>1, <3>4 DEF PutsOff, IsPutOff
      <4>. QED  BY <1>5, <1>6, <3>2, <4>2, <4>3, BonusSame
    <3>5. CASE i \notin Rides
      <4>1. Wearable(i)
        BY <3>2, <3>5 DEF CanBeWorn
      <4>2. OneMoreWorn(bag.items, bag'.items, l)
        BY <3>1, <3>2, <3>3, <4>1 DEF PutsOff, CanPutOn, CanPutOff, Replaces, OneMoreWorn, WornIn
      <4>3. (\A k \in DOMAIN bag.items : k <= nextLocal) /\ (\A k \in DOMAIN bag'.items : k <= nextLocal)
        BY <1>6, <3>2 DEF BagNumbers
      <4>4. bag'.bonus = (bag.bonus - Bonus[i]) % 65536
        BY <3>1, <3>5 DEF PutsOff, IsPutOff
      <4>5. /\ Worth(bag.items) = Worth(bag'.items) + Bonus[i]
            /\ Worth(bag.items) \in Int /\ Worth(bag'.items) \in Int /\ Bonus[i] \in Int
        BY <1>5, <3>3, <4>2, <4>3, OneMoreWorth
      <4>6. bag'.bonus = (Worth(bag.items) - Bonus[i]) % 65536
        BY <1>8, <4>4, <4>5, Wraps
      <4>7. Worth(bag'.items) = Worth(bag.items) - Bonus[i]
        BY <4>5
      <4>. QED  BY <1>8, <4>6, <4>7
    <3>. QED  BY <3>4, <3>5
  <2>. QED  BY <1>2, <2>1, <2>2, <2>3, <2>4, <2>5 DEF ItemStep
<1>3. CASE DbStep
  <2>1. CASE Lists \/ Refuses
    BY <2>1, <1>5, <1>10 DEF Lists, Refuses, Kind, game
  <2>2. CASE \E sent : Reads(sent)
    BY <2>2, <1>5, <1>10 DEF Reads, Kind, game
  <2>3. CASE Inserts
    BY <2>3, <1>5, <1>10 DEF Inserts, Kind, game
  <2>4. CASE SetsNum
    BY <2>4, <1>5, <1>10 DEF SetsNum, Kind, game
  <2>5. CASE SetsWorn
    BY <2>5, <1>5, <1>10 DEF SetsWorn, Kind, game
  <2>6. CASE Deletes
    BY <2>6, <1>5, <1>10 DEF Deletes, Kind, game
  <2>. QED  BY <1>3, <2>1, <2>2, <2>3, <2>4, <2>5, <2>6 DEF DbStep
<1>4. CASE ListenerStep
  <2>1. CASE Drops
    BY <2>1, <1>5, <1>10 DEF Drops, game
  <2>2. CASE GetsPlayers
    BY <2>2, <1>5, <1>10 DEF GetsPlayers, Told
  <2>3. CASE GetsPlayer \/ IsRefused
    BY <2>3, <1>5, <1>10 DEF GetsPlayer, IsRefused, Told, game
  <2>4. CASE \E new, local, size : Loads(new, local, size)
    <3>1. PICK new, local, size : Loads(new, local, size)
      BY <2>4
    <3>2. /\ new \in Maps(Info) /\ bag'.bonus = (bag.bonus + Worth(new)) % 65536
          /\ bag'.items = Added(new, bag.items)
      BY <3>1 DEF Loads, IsInserted, Worth
    <3>3. \A k \in DOMAIN bag.items : k \notin DOMAIN new
      BY <1>6, <3>1, BroughtItem DEF BagNumbers
    <3>4. BothWorn(bag'.items, new, bag.items)
      BY <3>2, <3>3 DEF Added, BothWorn
    <3>5. \A k \in DOMAIN bag'.items : k <= nextLocal'
      BY <1>6 DEF BagNumbers
    <3>6. Worth(bag'.items) = Worth(new) + Worth(bag.items) /\ Worth(new) \in Int /\ Worth(bag.items) \in Int
      BY <1>5, <3>2, <3>4, <3>5, BothWorth
    <3>7. bag'.bonus = (Worth(bag.items) + Worth(new)) % 65536
      BY <1>8, <3>2, <3>6, Wraps
    <3>8. Worth(bag'.items) = Worth(bag.items) + Worth(new)
      BY <3>6
    <3>. QED  BY <1>8, <3>7, <3>8
  <2>5. CASE \E l, i : Learns(l, i)
    <3>1. PICK l, i : Learns(l, i)
      BY <2>5
    <3>2. nextLocal' = nextLocal /\ bag'.bonus = bag.bonus /\ DOMAIN bag'.items = DOMAIN bag.items
      BY <3>1 DEF Learns, SameWear, Replaces
    <3>3. SameWorn(bag'.items, bag.items)
      BY <3>1, <3>2, LearntItem DEF SameWorn, WornIn
    <3>. QED  BY <1>5, <1>6, <3>2, <3>3, BonusSame
  <2>. QED  BY <1>4, <2>1, <2>2, <2>3, <2>4, <2>5 DEF ListenerStep
<1>. QED  BY <1>1, <1>2, <1>3, <1>4 DEF Step


-----------------------------------------------------------------------------
(* ConnInv is kept.                                                         *)

LEMMA NoConnStep ==
    ASSUME NoConn, Step
    PROVE  NoConn'
<1>. USE DEF NoConn
<1>1. CASE LifeStep
  <2>1. CASE UNCHANGED vars
    BY <2>1 DEF vars, vars, game, history
  <2>2. CASE Connects
    BY <2>2 DEF Connects, game
  <2>3. CASE Asks
    BY <2>3 DEF Asks, game, history
  <2>4. CASE \E p \in Pids \cup {NoPid} : AsksLoad(p)
    BY <2>4 DEF AsksLoad, game
  <2>5. CASE Starts
    BY <2>5 DEF Starts, game, history
  <2>6. CASE Restarts
    BY <2>6 DEF Restarts, game, history
  <2>7. CASE OnDisconnected
    BY <2>7 DEF OnDisconnected, game
  <2>8. CASE Crash
    BY <2>8 DEF Crash, game
  <2>. QED  BY <1>1, <2>1, <2>2, <2>3, <2>4, <2>5, <2>6, <2>7, <2>8 DEF LifeStep
<1>2. CASE ItemStep
  <2>1. CASE \E l, n : AddsTo(l, n)
    BY <2>1 DEF AddsTo, ChangedOne
  <2>2. CASE \E i \in Indexes : GotNew(i) /\ conn /\ pid # NoPid
    BY <2>2 DEF GotNew
  <2>3. CASE \E l : Trashes(l)
    BY <2>3 DEF Trashes, ChangedOne
  <2>4. CASE \E l : PutsOn(l)
    BY <2>4 DEF PutsOn, ChangedOne
  <2>5. CASE \E l : PutsOff(l)
    BY <2>5 DEF PutsOff, ChangedOne
  <2>. QED  BY <1>2, <2>1, <2>2, <2>3, <2>4, <2>5 DEF ItemStep
<1>3. CASE DbStep
  <2>1. CASE Lists \/ Refuses
    BY <2>1 DEF Lists, Refuses, Kind, game, history
  <2>2. CASE \E sent : Reads(sent)
    BY <2>2 DEF Reads, Kind, game, history
  <2>3. CASE Inserts
    BY <2>3 DEF Inserts, Kind, game, history
  <2>4. CASE SetsNum
    BY <2>4 DEF SetsNum, Kind, game, history
  <2>5. CASE SetsWorn
    BY <2>5 DEF SetsWorn, Kind, game, history
  <2>6. CASE Deletes
    BY <2>6 DEF Deletes, Kind, game, history
  <2>. QED  BY <1>3, <2>1, <2>2, <2>3, <2>4, <2>5, <2>6 DEF DbStep
<1>4. CASE ListenerStep
  <2>1. CASE Drops
    BY <2>1 DEF Drops, game, history
  <2>2. CASE GetsPlayers
    BY <2>2 DEF GetsPlayers, Told, game, history
  <2>3. CASE GetsPlayer \/ IsRefused
    BY <2>3 DEF GetsPlayer, IsRefused, Told, game, history
  <2>4. CASE \E new, local, size : Loads(new, local, size)
    BY <2>4 DEF Loads, game
  <2>5. CASE \E l, i : Learns(l, i)
    BY <2>5 DEF Learns, game, history
  <2>. QED  BY <1>4, <2>1, <2>2, <2>3, <2>4, <2>5 DEF ListenerStep
<1>. QED  BY <1>1, <1>2, <1>3, <1>4 DEF Step

LEMMA UidCases ==
    ASSUME Step
    PROVE  uid' = uid \/ Connects \/ Crash
<1>1. CASE LifeStep
  <2>1. CASE UNCHANGED vars
    BY <2>1 DEF vars, vars, game
  <2>2. CASE Connects
    BY <2>2 DEF Connects, game
  <2>3. CASE Asks
    BY <2>3 DEF Asks, game
  <2>4. CASE \E p \in Pids \cup {NoPid} : AsksLoad(p)
    BY <2>4 DEF AsksLoad, game
  <2>5. CASE Starts
    BY <2>5 DEF Starts, game
  <2>6. CASE Restarts
    BY <2>6 DEF Restarts, game
  <2>7. CASE OnDisconnected
    BY <2>7 DEF OnDisconnected, game
  <2>8. CASE Crash
    BY <2>8 DEF Crash, game
  <2>. QED  BY <1>1, <2>1, <2>2, <2>3, <2>4, <2>5, <2>6, <2>7, <2>8 DEF LifeStep
<1>2. CASE ItemStep
  <2>1. CASE \E l, n : AddsTo(l, n)
    BY <2>1 DEF AddsTo, ChangedOne
  <2>2. CASE \E i \in Indexes : GotNew(i) /\ conn /\ pid # NoPid
    BY <2>2 DEF GotNew
  <2>3. CASE \E l : Trashes(l)
    BY <2>3 DEF Trashes, ChangedOne
  <2>4. CASE \E l : PutsOn(l)
    BY <2>4 DEF PutsOn, ChangedOne
  <2>5. CASE \E l : PutsOff(l)
    BY <2>5 DEF PutsOff, ChangedOne
  <2>. QED  BY <1>2, <2>1, <2>2, <2>3, <2>4, <2>5 DEF ItemStep
<1>3. CASE DbStep
  <2>1. CASE Lists \/ Refuses
    BY <2>1 DEF Lists, Refuses, Kind, game
  <2>2. CASE \E sent : Reads(sent)
    BY <2>2 DEF Reads, Kind, game
  <2>3. CASE Inserts
    BY <2>3 DEF Inserts, Kind, game
  <2>4. CASE SetsNum
    BY <2>4 DEF SetsNum, Kind, game
  <2>5. CASE SetsWorn
    BY <2>5 DEF SetsWorn, Kind, game
  <2>6. CASE Deletes
    BY <2>6 DEF Deletes, Kind, game
  <2>. QED  BY <1>3, <2>1, <2>2, <2>3, <2>4, <2>5, <2>6 DEF DbStep
<1>4. CASE ListenerStep
  <2>1. CASE Drops
    BY <2>1 DEF Drops, game
  <2>2. CASE GetsPlayers
    BY <2>2 DEF GetsPlayers, Told, game
  <2>3. CASE GetsPlayer \/ IsRefused
    BY <2>3 DEF GetsPlayer, IsRefused, Told, game
  <2>4. CASE \E new, local, size : Loads(new, local, size)
    BY <2>4 DEF Loads, game
  <2>5. CASE \E l, i : Learns(l, i)
    BY <2>5 DEF Learns, game
  <2>. QED  BY <1>4, <2>1, <2>2, <2>3, <2>4, <2>5 DEF ListenerStep
<1>. QED  BY <1>1, <1>2, <1>3, <1>4 DEF Step

\* The connection is another only where there are no items and no packets.
LEMMA UidKept ==
    ASSUME NoConn, Step
    PROVE  \/ uid' = uid
           \/ bag' = EmptyBag
<1>1. CASE Connects
  BY <1>1 DEF Connects, NoConn
<1>2. CASE Crash
  BY <1>2 DEF Crash
<1>. QED  BY <1>1, <1>2, UidCases

LEMMA InsertUidStep ==
    ASSUME TypesInv, NumbersInv, ConnInv, Step
    PROVE  InsertUid'
<1>1. InsertUid /\ UpNumbers /\ NoConn
  BY DEF ConnInv, NumbersInv
<1>2. BagKept /\ (uid' = uid \/ DOMAIN bag'.items = {})
  BY <1>1, BagIsKept, UidKept, Emptied
<1>. DEFINE T == {"S2D_INSERTITEM"}
            Good(m) == m.local \in DOMAIN bag'.items => m.uid = uid'
<1>3. ASSUME NEW k, Up("S2D_INSERTITEM", k)
      PROVE  Good(s2d[k])
  <2>1. s2d[k].local <= nextLocal
    BY <1>1, <1>3 DEF UpNumbers, UpGiven, Up
  <2>. QED  BY <1>1, <1>2, <1>3, <2>1 DEF BagKept, InsertUid
<1>4. ASSUME NEW k, Up("S2D_INSERTITEM", k)'
      PROVE  Good(s2d'[k])
  <2>1. CASE UpOld(T)
    <3>1. PICK j \in DOMAIN s2d : s2d'[k] = s2d[j]
      BY <1>4, <2>1, UpIsOld DEF Up
    <3>. QED  BY <1>3, <1>4, <3>1 DEF Up
  <2>2. CASE \E i \in Indexes : GotNew(i)
    <3>2. \/ Up("S2D_INSERTITEM", k) /\ s2d'[k] = s2d[k]
          \/ s2d'[k].uid = uid'
      BY <1>4, <2>2 DEF GotNew, Sent, Up
    <3>. QED  BY <1>3, <3>2
  <2>. QED  BY <2>1, <2>2, OldInserts
<1>. QED  BY <1>4 DEF InsertUid

LEMMA AnswerUidStep ==
    ASSUME TypesInv, NumbersInv, ConnInv, Step
    PROVE  AnswerUid'
<1>1. AnswerUid /\ InsertUid /\ DownNumbers /\ NoConn
  BY DEF ConnInv, NumbersInv
<1>2. BagKept /\ (uid' = uid \/ DOMAIN bag'.items = {})
  BY <1>1, BagIsKept, UidKept, Emptied
<1>. DEFINE T == {"D2S_UPDATEITEMIID"}
            Good(m) == m.local \in DOMAIN bag'.items => m.uid = uid'
<1>3. ASSUME NEW k, Down("D2S_UPDATEITEMIID", k)
      PROVE  Good(d2s[k])
  <2>1. d2s[k].local <= nextLocal
    BY <1>1, <1>3 DEF DownNumbers, DownGiven, Down
  <2>. QED  BY <1>1, <1>2, <1>3, <2>1 DEF BagKept, AnswerUid
<1>4. ASSUME NEW k, Down("D2S_UPDATEITEMIID", k)'
      PROVE  Good(d2s'[k])
  <2>1. CASE DownOld(T)
    <3>1. PICK j \in DOMAIN d2s : d2s'[k] = d2s[j]
      BY <1>4, <2>1, DownIsOld DEF Down
    <3>. QED  BY <1>3, <1>4, <3>1 DEF Down
  <2>2. CASE Inserts
    <3>1. \/ Down("D2S_UPDATEITEMIID", k) /\ d2s'[k] = d2s[k]
          \/ d2s'[k].local = s2d[1].local /\ d2s'[k].uid = s2d[1].uid
      BY <1>4, <2>2 DEF Inserts, Answered1, Down
    <3>2. bag' = bag /\ uid' = uid /\ Up("S2D_INSERTITEM", 1)
      BY <2>2 DEF Inserts, Kind, game, Fetched, Up
    <3>. QED  BY <1>1, <1>3, <3>1, <3>2 DEF InsertUid
  <2>. QED  BY <2>1, <2>2, OldAnswers
<1>. QED  BY <1>4 DEF AnswerUid

LEMMA ConnStep ==
    ASSUME TypesInv, NumbersInv, ConnInv, Step
    PROVE  ConnInv'
  BY NoConnStep, InsertUidStep, AnswerUidStep DEF ConnInv


-----------------------------------------------------------------------------
(* LoadInv is kept.                                                         *)

LEMMA MixedStays ==
    ASSUME Step, mixed
    PROVE  mixed'
<1>1. CASE LifeStep
  <2>1. CASE UNCHANGED vars
    BY <2>1 DEF vars, vars, history
  <2>2. CASE Connects
    BY <2>2 DEF Connects, history
  <2>3. CASE Asks
    BY <2>3 DEF Asks, history
  <2>4. CASE \E p \in Pids \cup {NoPid} : AsksLoad(p)
    BY <2>4 DEF AsksLoad
  <2>5. CASE Starts
    BY <2>5 DEF Starts, history
  <2>6. CASE Restarts
    BY <2>6 DEF Restarts, history
  <2>7. CASE OnDisconnected
    BY <2>7 DEF OnDisconnected, history
  <2>8. CASE Crash
    BY <2>8 DEF Crash, history
  <2>. QED  BY <1>1, <2>1, <2>2, <2>3, <2>4, <2>5, <2>6, <2>7, <2>8 DEF LifeStep
<1>2. CASE ItemStep
  <2>1. CASE \E l, n : AddsTo(l, n)
    BY <2>1 DEF AddsTo, ChangedOne
  <2>2. CASE \E i \in Indexes : GotNew(i) /\ conn /\ pid # NoPid
    <3>1. mixed' = (mixed \/ awaiting > 0)
      BY <2>2 DEF GotNew
    <3>. QED  BY <3>1
  <2>3. CASE \E l : Trashes(l)
    BY <2>3 DEF Trashes, ChangedOne
  <2>4. CASE \E l : PutsOn(l)
    BY <2>4 DEF PutsOn, ChangedOne
  <2>5. CASE \E l : PutsOff(l)
    BY <2>5 DEF PutsOff, ChangedOne
  <2>. QED  BY <1>2, <2>1, <2>2, <2>3, <2>4, <2>5 DEF ItemStep
<1>3. CASE DbStep
  <2>1. CASE Lists \/ Refuses
    BY <2>1 DEF Lists, Refuses, Kind, history
  <2>2. CASE \E sent : Reads(sent)
    BY <2>2 DEF Reads, Kind, history
  <2>3. CASE Inserts
    BY <2>3 DEF Inserts, Kind, history
  <2>4. CASE SetsNum
    BY <2>4 DEF SetsNum, Kind, history
  <2>5. CASE SetsWorn
    BY <2>5 DEF SetsWorn, Kind, history
  <2>6. CASE Deletes
    BY <2>6 DEF Deletes, Kind, history
  <2>. QED  BY <1>3, <2>1, <2>2, <2>3, <2>4, <2>5, <2>6 DEF DbStep
<1>4. CASE ListenerStep
  <2>1. CASE Drops
    BY <2>1 DEF Drops, history
  <2>2. CASE GetsPlayers
    BY <2>2 DEF GetsPlayers, Told, history
  <2>3. CASE GetsPlayer \/ IsRefused
    BY <2>3 DEF GetsPlayer, IsRefused, Told, history
  <2>4. CASE \E new, local, size : Loads(new, local, size)
    BY <2>4 DEF Loads
  <2>5. CASE \E l, i : Learns(l, i)
    BY <2>5 DEF Learns, history
  <2>. QED  BY <1>4, <2>1, <2>2, <2>3, <2>4, <2>5 DEF ListenerStep
<1>. QED  BY <1>1, <1>2, <1>3, <1>4 DEF Step

LEMMA EarlyStays ==
    ASSUME Step, early
    PROVE  early'
<1>1. CASE LifeStep
  <2>1. CASE UNCHANGED vars
    BY <2>1 DEF vars, vars, history
  <2>2. CASE Connects
    BY <2>2 DEF Connects, history
  <2>3. CASE Asks
    BY <2>3 DEF Asks, history
  <2>4. CASE \E p \in Pids \cup {NoPid} : AsksLoad(p)
    BY <2>4 DEF AsksLoad
  <2>5. CASE Starts
    BY <2>5 DEF Starts, history
  <2>6. CASE Restarts
    BY <2>6 DEF Restarts, history
  <2>7. CASE OnDisconnected
    BY <2>7 DEF OnDisconnected, history
  <2>8. CASE Crash
    BY <2>8 DEF Crash, history
  <2>. QED  BY <1>1, <2>1, <2>2, <2>3, <2>4, <2>5, <2>6, <2>7, <2>8 DEF LifeStep
<1>2. CASE ItemStep
  <2>1. CASE \E l, n : AddsTo(l, n)
    BY <2>1 DEF AddsTo, ChangedOne
  <2>2. CASE \E i \in Indexes : GotNew(i) /\ conn /\ pid # NoPid
    BY <2>2 DEF GotNew
  <2>3. CASE \E l : Trashes(l)
    BY <2>3 DEF Trashes, ChangedOne
  <2>4. CASE \E l : PutsOn(l)
    BY <2>4 DEF PutsOn, ChangedOne
  <2>5. CASE \E l : PutsOff(l)
    BY <2>5 DEF PutsOff, ChangedOne
  <2>. QED  BY <1>2, <2>1, <2>2, <2>3, <2>4, <2>5 DEF ItemStep
<1>3. CASE DbStep
  <2>1. CASE Lists \/ Refuses
    BY <2>1 DEF Lists, Refuses, Kind, history
  <2>2. CASE \E sent : Reads(sent)
    BY <2>2 DEF Reads, Kind, history
  <2>3. CASE Inserts
    BY <2>3 DEF Inserts, Kind, history
  <2>4. CASE SetsNum
    BY <2>4 DEF SetsNum, Kind, history
  <2>5. CASE SetsWorn
    BY <2>5 DEF SetsWorn, Kind, history
  <2>6. CASE Deletes
    BY <2>6 DEF Deletes, Kind, history
  <2>. QED  BY <1>3, <2>1, <2>2, <2>3, <2>4, <2>5, <2>6 DEF DbStep
<1>4. CASE ListenerStep
  <2>1. CASE Drops
    BY <2>1 DEF Drops, history
  <2>2. CASE GetsPlayers
    BY <2>2 DEF GetsPlayers, Told, history
  <2>3. CASE GetsPlayer \/ IsRefused
    BY <2>3 DEF GetsPlayer, IsRefused, Told, history
  <2>4. CASE \E new, local, size : Loads(new, local, size)
    BY <2>4 DEF Loads
  <2>5. CASE \E l, i : Learns(l, i)
    BY <2>5 DEF Learns, history
  <2>. QED  BY <1>4, <2>1, <2>2, <2>3, <2>4, <2>5 DEF ListenerStep
<1>. QED  BY <1>1, <1>2, <1>3, <1>4 DEF Step

LEMMA ConnStays ==
    ASSUME Step, conn'
    PROVE  (conn /\ uid' = uid) \/ Connects
<1>1. CASE LifeStep
  <2>1. CASE UNCHANGED vars
    BY <2>1 DEF vars, vars, game
  <2>2. CASE Connects
    BY <2>2 DEF Connects, game
  <2>3. CASE Asks
    BY <2>3 DEF Asks, game
  <2>4. CASE \E p \in Pids \cup {NoPid} : AsksLoad(p)
    BY <2>4 DEF AsksLoad, game
  <2>5. CASE Starts
    BY <2>5 DEF Starts, game
  <2>6. CASE Restarts
    BY <2>6 DEF Restarts, game
  <2>7. CASE OnDisconnected
    BY <2>7 DEF OnDisconnected, game
  <2>8. CASE Crash
    BY <2>8 DEF Crash, game
  <2>. QED  BY <1>1, <2>1, <2>2, <2>3, <2>4, <2>5, <2>6, <2>7, <2>8 DEF LifeStep
<1>2. CASE ItemStep
  <2>1. CASE \E l, n : AddsTo(l, n)
    BY <2>1 DEF AddsTo, ChangedOne
  <2>2. CASE \E i \in Indexes : GotNew(i) /\ conn /\ pid # NoPid
    BY <2>2 DEF GotNew
  <2>3. CASE \E l : Trashes(l)
    BY <2>3 DEF Trashes, ChangedOne
  <2>4. CASE \E l : PutsOn(l)
    BY <2>4 DEF PutsOn, ChangedOne
  <2>5. CASE \E l : PutsOff(l)
    BY <2>5 DEF PutsOff, ChangedOne
  <2>. QED  BY <1>2, <2>1, <2>2, <2>3, <2>4, <2>5 DEF ItemStep
<1>3. CASE DbStep
  <2>1. CASE Lists \/ Refuses
    BY <2>1 DEF Lists, Refuses, Kind, game
  <2>2. CASE \E sent : Reads(sent)
    BY <2>2 DEF Reads, Kind, game
  <2>3. CASE Inserts
    BY <2>3 DEF Inserts, Kind, game
  <2>4. CASE SetsNum
    BY <2>4 DEF SetsNum, Kind, game
  <2>5. CASE SetsWorn
    BY <2>5 DEF SetsWorn, Kind, game
  <2>6. CASE Deletes
    BY <2>6 DEF Deletes, Kind, game
  <2>. QED  BY <1>3, <2>1, <2>2, <2>3, <2>4, <2>5, <2>6 DEF DbStep
<1>4. CASE ListenerStep
  <2>1. CASE Drops
    BY <2>1 DEF Drops, game
  <2>2. CASE GetsPlayers
    BY <2>2 DEF GetsPlayers, Told, game
  <2>3. CASE GetsPlayer \/ IsRefused
    BY <2>3 DEF GetsPlayer, IsRefused, Told, game
  <2>4. CASE \E new, local, size : Loads(new, local, size)
    BY <2>4 DEF Loads, game
  <2>5. CASE \E l, i : Learns(l, i)
    BY <2>5 DEF Learns, game
  <2>. QED  BY <1>4, <2>1, <2>2, <2>3, <2>4, <2>5 DEF ListenerStep
<1>. QED  BY <1>1, <1>2, <1>3, <1>4 DEF Step

LEMMA AskedIsOld ==
    ASSUME TypesInv, NumbersInv, Step, uid' = uid \/ uid' = uid + 1, NEW k, Asked(k)'
    PROVE  \/ uid' = uid /\ \E j : Asked(j) /\ s2d'[k] = s2d[j]
           \/ \E p \in Pids \cup {NoPid} : AsksLoad(p)
<1>. DEFINE T == {"S2D_LOADPLAYER"}
<1>1. k \in DOMAIN s2d' /\ s2d'[k].type = "S2D_LOADPLAYER" /\ s2d'[k].uid = uid'
  BY DEF Asked, Up
<1>2. CASE UpOld(T)
  <2>1. PICK j \in DOMAIN s2d : s2d'[k] = s2d[j]
    BY <1>1, <1>2, UpIsOld
  <2>2. s2d[j].uid <= uid
    BY <1>1, <2>1 DEF NumbersInv, UpNumbers, UpGiven, Naming
  <2>3. ~(uid + 1 <= uid)
    BY DEF TypesInv
  <2>. QED  BY <1>1, <2>1, <2>2, <2>3 DEF Asked, Up
<1>. QED  BY <1>2, OldUps

LEMMA AnswerIsOld ==
    ASSUME TypesInv, NumbersInv, Step, uid' = uid \/ uid' = uid + 1, NEW k, Answer(k)'
    PROVE  \/ uid' = uid /\ \E j : Answer(j) /\ d2s'[k] = d2s[j]
           \/ ((\E sent : Reads(sent)) \/ Refuses) /\ Asked(1)
<1>. DEFINE T == {"D2S_LOADITEMS", "D2S_LOADPLAYER"}
<1>1. /\ k \in DOMAIN d2s' /\ d2s'[k].uid = uid' /\ d2s'[k].type \in T
      /\ d2s'[k].type = "D2S_LOADPLAYER" => d2s'[k].pid = NoPid
  BY DEF Answer, Refusal, Down
<1>2. CASE DownOld(T)
  <2>1. PICK j \in DOMAIN d2s : d2s'[k] = d2s[j]
    BY <1>1, <1>2, DownIsOld
  <2>2. d2s[j].uid <= uid
    BY <2>1 DEF NumbersInv, DownNumbers, DownGiven
  <2>3. ~(uid + 1 <= uid)
    BY DEF TypesInv
  <2>. QED  BY <1>1, <2>1, <2>2, <2>3 DEF Answer, Refusal, Down
<1>3. CASE \E sent : Reads(sent)
  <2>1. PICK sent : Reads(sent)
    BY <1>3
  <2>2. s2d[1].type = "S2D_LOADPLAYER" /\ 1 \in DOMAIN s2d /\ uid' = uid
    BY <2>1 DEF Reads, Kind, Fetched, game
  <2>3. \/ k \in DOMAIN d2s /\ d2s'[k] = d2s[k]
        \/ d2s'[k].uid = s2d[1].uid
    BY <1>1, <2>1 DEF Reads, Answered2
  <2>. QED  BY <1>1, <1>3, <2>2, <2>3 DEF Answer, Refusal, Asked, Down, Up
<1>4. CASE Refuses
  <2>2. s2d[1].type = "S2D_LOADPLAYER" /\ 1 \in DOMAIN s2d /\ uid' = uid
    BY <1>4 DEF Refuses, Kind, Fetched, game
  <2>3. \/ k \in DOMAIN d2s /\ d2s'[k] = d2s[k]
        \/ d2s'[k].uid = s2d[1].uid
    BY <1>1, <1>4 DEF Refuses, Answered1
  <2>. QED  BY <1>1, <1>4, <2>2, <2>3 DEF Answer, Refusal, Asked, Down, Up
<1>. QED  BY <1>2, <1>3, <1>4, OldDowns

\* Without an unanswered load there is none after a step, but where one is asked for.
LEMMA UnaskedKept ==
    ASSUME TypesInv, NumbersInv, Step, Unasked, uid' = uid, ~\E p \in Pids \cup {NoPid} : AsksLoad(p)
    PROVE  Unasked'
  BY AskedIsOld, AnswerIsOld DEF Unasked

LEMMA UnaskedNewConn ==
    ASSUME TypesInv, NumbersInv, Step, Connects
    PROVE  Unasked'
<1>1. uid' = uid + 1 /\ uid' # uid
  BY DEF Connects, TypesInv
<1>2. (\A p : ~AsksLoad(p)) /\ (\A sent : ~Reads(sent)) /\ ~Refuses
  BY <1>1 DEF AsksLoad, Reads, Refuses, Kind, game
<1>. QED  BY <1>1, <1>2, AskedIsOld, AnswerIsOld DEF Unasked

\* Where the packets of s2d' and d2s' were.
UpMoved(c) == \A k \in DOMAIN s2d' : \/ k + c \in DOMAIN s2d /\ s2d'[k] = s2d[k + c]
                                     \/ k + c \notin DOMAIN s2d /\ s2d'[k].type = "S2D_PLAYERS"

DownMoved(c) == \A k \in DOMAIN d2s' : \/ k + c \in DOMAIN d2s /\ d2s'[k] = d2s[k + c]
                                       \/ k + c \notin DOMAIN d2s /\ ~Answer(k)'

UpMoves == \E c \in {0, 1} : UpMoved(c)

\* The head of d2s is gone, or d2s goes on.
DownMoves == \/ DownMoved(0) /\ UNCHANGED pid
             \/ /\ DownMoved(1) /\ 1 \in DOMAIN d2s
                /\ \/ GetsPlayer
                   \/ UNCHANGED pid /\ (d2s[1].type # "D2S_LOADPLAYER" \/ d2s[1].uid # uid)

LEMMA SameMoves ==
    ASSUME TypesInv
    PROVE  (UNCHANGED s2d => UpMoves) /\ (UNCHANGED <<d2s, pid>> => DownMoves)
<1>1. \A k \in DOMAIN s2d : k + 0 = k
  BY DEF TypesInv
<1>2. \A k \in DOMAIN d2s : k + 0 = k
  BY DEF TypesInv
<1>3. ASSUME UNCHANGED s2d PROVE UpMoves
  BY <1>1, <1>3 DEF UpMoved, UpMoves
<1>4. ASSUME UNCHANGED <<d2s, pid>> PROVE DownMoves
  BY <1>2, <1>4 DEF DownMoved, DownMoves
<1>. QED  BY <1>3, <1>4

LEMMA SentMoves ==
    ASSUME NEW m, Sent(m), m.type = "S2D_PLAYERS"
    PROVE  UpMoves
<1>1. ASSUME NEW k \in DOMAIN s2d'
      PROVE  \/ k + 0 \in DOMAIN s2d /\ s2d'[k] = s2d[k + 0]
             \/ k + 0 \notin DOMAIN s2d /\ s2d'[k].type = "S2D_PLAYERS"
  <2>1. k + 0 = k /\ (k \in DOMAIN s2d \/ (k = Len(s2d) + 1 /\ k \notin DOMAIN s2d))
    BY DEF Sent
  <2>. QED  BY <2>1 DEF Sent
<1>. QED  BY <1>1 DEF UpMoved, UpMoves

LEMMA FetchedMoves ==
    ASSUME Fetched
    PROVE  UpMoves
<1>1. \A k \in DOMAIN s2d' : k + 1 \in DOMAIN s2d /\ s2d'[k] = s2d[k + 1]
  BY DEF Fetched
<1>. QED  BY <1>1 DEF UpMoved, UpMoves

LEMMA HeardMoves ==
    ASSUME Heard, \/ GetsPlayer
                  \/ UNCHANGED pid /\ (d2s[1].type # "D2S_LOADPLAYER" \/ d2s[1].uid # uid)
    PROVE  DownMoves
<1>1. \A k \in DOMAIN d2s' : k + 1 \in DOMAIN d2s /\ d2s'[k] = d2s[k + 1]
  BY DEF Heard
<1>2. 1 \in DOMAIN d2s
  BY DEF Heard
<1>. QED  BY <1>1, <1>2 DEF DownMoved, DownMoves

LEMMA AnsweredMoves ==
    ASSUME NEW a, NEW b, Answered1(a) \/ Answered2(a, b), UNCHANGED pid,
           \A m \in {a, b} : \/ m.uid # uid'
                             \/ /\ m.type # "D2S_LOADITEMS"
                                /\ m.type = "D2S_LOADPLAYER" => m.pid # NoPid
    PROVE  DownMoves
<1>1. ASSUME NEW k \in DOMAIN d2s'
      PROVE  \/ k + 0 \in DOMAIN d2s /\ d2s'[k] = d2s[k + 0]
             \/ k + 0 \notin DOMAIN d2s /\ ~Answer(k)'
  <2>1. k + 0 = k /\ (k \in DOMAIN d2s \/ (k \notin DOMAIN d2s /\ k \in {Len(d2s) + 1, Len(d2s) + 2}))
    BY DEF Answered1, Answered2
  <2>2. CASE Answered1(a)
    <3>1. k \in DOMAIN d2s => d2s'[k] = d2s[k]
      BY <2>2 DEF Answered1
    <3>2. k \notin DOMAIN d2s => d2s'[k] = a
      BY <2>2 DEF Answered1
    <3>. QED  BY <2>1, <3>1, <3>2 DEF Answer, Refusal, Down
  <2>3. CASE Answered2(a, b)
    <3>1. k \in DOMAIN d2s => d2s'[k] = d2s[k]
      BY <2>3 DEF Answered2
    <3>2. k \notin DOMAIN d2s => d2s'[k] \in {a, b}
      BY <2>1, <2>3 DEF Answered2
    <3>. QED  BY <2>1, <3>1, <3>2 DEF Answer, Refusal, Down
  <2>. QED  BY <2>2, <2>3
<1>. QED  BY <1>1 DEF DownMoved, DownMoves

\* The steps while an answer is awaited.
LEMMA AwaitingCases ==
    ASSUME TypesInv, Step, conn, conn', ~mixed', awaiting = 1, DOMAIN bag.items = {}
    PROVE  \/ ((\E sent : Reads(sent)) \/ Refuses) /\ Asked(1)
           \/ IsRefused \/ \E new, local, size : Loads(new, local, size)
           \/ /\ UpMoves /\ DownMoves /\ UNCHANGED <<awaiting, uid>> /\ DOMAIN bag'.items = {}
              /\ UNCHANGED rows \/ ~Quiet(1)
<1>5. awaiting > 0 /\ DOMAIN EmptyBag.items = {}
  BY Emptied
<1>6. UNCHANGED s2d => UpMoves
  BY SameMoves
<1>7. UNCHANGED <<d2s, pid>> => DownMoves
  BY SameMoves
<1>. USE DEF game, history
<1>1. CASE LifeStep
  <2>1. CASE UNCHANGED vars
    <3>1. UNCHANGED <<s2d, d2s, pid, awaiting, uid, bag, rows>>
      BY <2>1 DEF vars
    <3>. QED  BY <1>6, <1>7, <3>1
  <2>2. CASE Connects
    BY <2>2 DEF Connects
  <2>3. CASE Asks
    <3>1. [type |-> "S2D_PLAYERS", uid |-> uid].type = "S2D_PLAYERS"
      OBVIOUS
    <3>2. UpMoves
      BY <2>3, <3>1, SentMoves DEF Asks
    <3>3. UNCHANGED <<d2s, pid, awaiting, uid, rows>> /\ DOMAIN bag'.items = {}
      BY <2>3, <1>5 DEF Asks
    <3>. QED  BY <1>7, <3>2, <3>3
  <2>4. CASE \E p \in Pids \cup {NoPid} : AsksLoad(p)
    BY <2>4, <1>5 DEF AsksLoad
  <2>5. CASE Starts
    <3>1. UNCHANGED <<s2d, d2s, pid, awaiting, uid, bag, rows>>
      BY <2>5 DEF Starts
    <3>. QED  BY <1>6, <1>7, <3>1
  <2>6. CASE Restarts
    <3>1. [type |-> "S2D_PLAYERS", uid |-> uid].type = "S2D_PLAYERS"
      OBVIOUS
    <3>2. UpMoves
      BY <2>6, <3>1, SentMoves DEF Restarts
    <3>3. UNCHANGED <<d2s, pid, awaiting, uid, rows>> /\ DOMAIN bag'.items = {}
      BY <2>6, <1>5 DEF Restarts
    <3>. QED  BY <1>7, <3>2, <3>3
  <2>7. CASE OnDisconnected
    BY <2>7 DEF OnDisconnected
  <2>8. CASE Crash
    BY <2>8 DEF Crash
  <2>. QED  BY <1>1, <2>1, <2>2, <2>3, <2>4, <2>5, <2>6, <2>7, <2>8 DEF LifeStep
<1>2. CASE ItemStep
  <2>1. CASE \E l, n : AddsTo(l, n)
    BY <2>1 DEF AddsTo, ChangedOne
  <2>2. CASE \E i \in Indexes : GotNew(i) /\ conn /\ pid # NoPid
    <3>1. mixed' = (mixed \/ awaiting > 0)
      BY <2>2 DEF GotNew
    <3>. QED  BY <1>5, <3>1
  <2>3. CASE \E l : Trashes(l)
    BY <2>3 DEF Trashes, ChangedOne
  <2>4. CASE \E l : PutsOn(l)
    BY <2>4 DEF PutsOn, ChangedOne
  <2>5. CASE \E l : PutsOff(l)
    BY <2>5 DEF PutsOff, ChangedOne
  <2>. QED  BY <1>2, <2>1, <2>2, <2>3, <2>4, <2>5 DEF ItemStep
<1>3. CASE DbStep
  <2>1. CASE Lists
    <3>. DEFINE a == [type |-> "D2S_PLAYER_INFO", uid |-> s2d[1].uid]
    <3>1. UpMoves
      BY <2>1, FetchedMoves DEF Lists, Kind
    <3>2. UNCHANGED <<pid, awaiting, uid, bag, rows>>
      BY <2>1 DEF Lists, Kind
    <3>4. a.type # "D2S_LOADITEMS" /\ a.type # "D2S_LOADPLAYER" /\ Answered1(a)
      BY <2>1 DEF Lists
    <3>. HIDE DEF a
    <3>5. DownMoves
      BY <3>2, <3>4, AnsweredMoves
    <3>. QED  BY <3>1, <3>2, <3>5
  <2>7. CASE Refuses
    <3>. DEFINE a == [type |-> "D2S_LOADPLAYER", uid |-> s2d[1].uid, pid |-> NoPid]
    <3>1. UpMoves
      BY <2>7, FetchedMoves DEF Refuses, Kind
    <3>2. UNCHANGED <<pid, awaiting, uid, bag, rows>>
      BY <2>7 DEF Refuses, Kind
    <3>3. ~Asked(1) => s2d[1].uid # uid'
      BY <2>7, <3>2 DEF Refuses, Kind, Fetched, Asked, Up
    <3>4. Answered1(a) /\ a.uid = s2d[1].uid
      BY <2>7 DEF Refuses
    <3>. HIDE DEF a
    <3>5. ~Asked(1) => DownMoves
      BY <3>2, <3>3, <3>4, AnsweredMoves
    <3>. QED  BY <2>7, <3>1, <3>2, <3>5
  <2>2. CASE \E sent : Reads(sent)
    <3>1. PICK sent : Reads(sent)
      BY <2>2
    <3>. DEFINE a == [type |-> "D2S_LOADPLAYER", uid |-> s2d[1].uid, pid |-> s2d[1].pid]
                b == [type |-> "D2S_LOADITEMS", uid |-> s2d[1].uid, rows |-> sent]
    <3>2. UpMoves
      BY <3>1, FetchedMoves DEF Reads, Kind
    <3>3. UNCHANGED <<pid, awaiting, uid, bag, rows>>
      BY <3>1 DEF Reads, Kind
    <3>4. a.uid = s2d[1].uid /\ Answered2(a, b) /\ b.uid = s2d[1].uid
      BY <3>1 DEF Reads
    <3>5. ~Asked(1) => s2d[1].uid # uid'
      BY <3>1, <3>3 DEF Reads, Kind, Fetched, Asked, Up
    <3>. HIDE DEF a, b
    <3>6. ~Asked(1) => DownMoves
      BY <3>3, <3>4, <3>5, AnsweredMoves
    <3>. QED  BY <3>1, <3>2, <3>3, <3>6
  <2>3. CASE Inserts
    <3>. DEFINE a == [type |-> "D2S_UPDATEITEMIID", uid |-> s2d[1].uid,
                      local |-> s2d[1].local, iid |-> nextIid]
    <3>1. UpMoves
      BY <2>3, FetchedMoves DEF Inserts, Kind
    <3>2. UNCHANGED <<pid, awaiting, uid, bag>>
      BY <2>3 DEF Inserts, Kind
    <3>3. ~Quiet(1)
      BY <2>3 DEF Inserts, Kind, Quiet, Fetched
    <3>4. a.type # "D2S_LOADITEMS" /\ a.type # "D2S_LOADPLAYER" /\ Answered1(a)
      BY <2>3 DEF Inserts
    <3>. HIDE DEF a
    <3>5. DownMoves
      BY <3>2, <3>4, AnsweredMoves
    <3>. QED  BY <3>1, <3>2, <3>3, <3>5
  <2>4. CASE SetsNum
    <3>1. UpMoves
      BY <2>4, FetchedMoves DEF SetsNum, Kind
    <3>2. UNCHANGED <<d2s, pid, awaiting, uid, bag>>
      BY <2>4 DEF SetsNum, Kind
    <3>3. ~Quiet(1)
      BY <2>4 DEF SetsNum, Kind, Quiet, Fetched
    <3>. QED  BY <1>7, <3>1, <3>2, <3>3
  <2>5. CASE SetsWorn
    <3>1. UpMoves
      BY <2>5, FetchedMoves DEF SetsWorn, Kind
    <3>2. UNCHANGED <<d2s, pid, awaiting, uid, bag>>
      BY <2>5 DEF SetsWorn, Kind
    <3>3. ~Quiet(1)
      BY <2>5 DEF SetsWorn, Kind, Quiet, Fetched
    <3>. QED  BY <1>7, <3>1, <3>2, <3>3
  <2>6. CASE Deletes
    <3>1. UpMoves
      BY <2>6, FetchedMoves DEF Deletes, Kind
    <3>2. UNCHANGED <<d2s, pid, awaiting, uid, bag>>
      BY <2>6 DEF Deletes, Kind
    <3>3. ~Quiet(1)
      BY <2>6 DEF Deletes, Kind, Quiet, Fetched
    <3>. QED  BY <1>7, <3>1, <3>2, <3>3
  <2>. QED  BY <1>3, <2>1, <2>2, <2>3, <2>4, <2>5, <2>6, <2>7 DEF DbStep
<1>4. CASE ListenerStep
  <2>1. CASE Drops
    <3>1. DownMoves
      BY <2>1, HeardMoves DEF Drops
    <3>2. UNCHANGED <<s2d, awaiting, uid, bag, rows>>
      BY <2>1 DEF Drops
    <3>. QED  BY <1>6, <3>1, <3>2
  <2>2. CASE GetsPlayers
    <3>1. DownMoves
      BY <2>2, HeardMoves DEF GetsPlayers, Told
    <3>2. UNCHANGED <<s2d, awaiting, uid, bag, rows>>
      BY <2>2 DEF GetsPlayers
    <3>. QED  BY <1>6, <3>1, <3>2
  <2>3. CASE GetsPlayer
    <3>1. DownMoves
      BY <2>3, HeardMoves DEF GetsPlayer, Told
    <3>2. UNCHANGED <<s2d, awaiting, uid, bag, rows>>
      BY <2>3 DEF GetsPlayer
    <3>. QED  BY <1>6, <3>1, <3>2
  <2>4. CASE \E new, local, size : Loads(new, local, size)
    BY <2>4 DEF Loads
  <2>5. CASE \E l, i : Learns(l, i)
    <3>1. PICK l, i : Learns(l, i)
      BY <2>5
    <3>2. DownMoves
      BY <3>1, HeardMoves DEF Learns
    <3>3. UNCHANGED <<s2d, awaiting, uid, rows>> /\ DOMAIN bag'.items = {}
      BY <3>1 DEF Learns
    <3>. QED  BY <1>6, <3>2, <3>3
  <2>. QED  BY <1>4, <2>1, <2>2, <2>3, <2>4, <2>5 DEF ListenerStep
<1>. QED  BY <1>1, <1>2, <1>3, <1>4 DEF Step

LEMMA AskedMoved ==
    ASSUME NEW c \in {0, 1}, UpMoved(c), NEW k, Asked(k)', uid' = uid
    PROVE  Asked(k + c) /\ s2d'[k] = s2d[k + c]
  BY DEF UpMoved, Asked, Up

LEMMA AnswerMoved ==
    ASSUME NEW c \in {0, 1}, DownMoved(c), NEW k, Answer(k)', uid' = uid
    PROVE  Answer(k + c) /\ d2s'[k] = d2s[k + c]
<1>1. k \in DOMAIN d2s'
  BY DEF Answer, Refusal, Down
<1>2. k + c \in DOMAIN d2s /\ d2s'[k] = d2s[k + c]
  BY <1>1 DEF DownMoved
<1>. QED  BY <1>2 DEF Answer, Refusal, Down

LEMMA QuietMoved ==
    ASSUME TypesInv', NEW c \in {0, 1}, UpMoved(c), NEW j, j \in Int => Quiet(j + c)
    PROVE  Quiet(j)'
<1>. SUFFICES ASSUME j \in DOMAIN s2d' PROVE s2d'[j].type \in {"S2D_PLAYERS", "S2D_LOADPLAYER"}
  BY DEF Quiet
<1>1. j \in Int
  BY DEF TypesInv
<1>. QED  BY <1>1 DEF Quiet, UpMoved

LEMMA ShiftsOn ==
    ASSUME NEW j \in Int, NEW k \in Int, NEW c \in {0, 1}
    PROVE  (j > k => j + c > k + c) /\ (j + c = k + c => j = k)
  OBVIOUS

LEMMA AskedOnceKept ==
    ASSUME TypesInv', AskedOnce, UpMoves, DownMoves, uid' = uid
    PROVE  AskedOnce'
<1>1. PICK c \in {0, 1} : UpMoved(c)
  BY DEF UpMoves
<1>2. PICK d \in {0, 1} : DownMoved(d)
  BY DEF DownMoves
<1>3. ASSUME NEW k, Asked(k)'
      PROVE  (\A j : Asked(j)' => j = k) /\ (\A j : ~Answer(j)') /\ (\A j : j > k => Quiet(j)')
  <2>1. Asked(k + c) /\ k \in Int
    BY <1>1, <1>3, AskedMoved DEF Asked, Up, TypesInv
  <2>2. ASSUME NEW j, Asked(j)' PROVE j = k
    <3>1. Asked(j + c) /\ j \in Int
      BY <1>1, <2>2, AskedMoved DEF Asked, Up, TypesInv
    <3>2. j + c = k + c
      BY <2>1, <3>1 DEF AskedOnce
    <3>. QED  BY <2>1, <3>1, <3>2, ShiftsOn
  <2>3. \A j : ~Answer(j)'
    BY <1>2, <2>1, AnswerMoved DEF AskedOnce
  <2>4. ASSUME NEW j, j > k PROVE Quiet(j)'
    <3>1. j \in Int => j + c > k + c
      BY <2>1, <2>4, ShiftsOn
    <3>2. j \in Int => Quiet(j + c)
      BY <2>1, <3>1 DEF AskedOnce
    <3>. QED  BY <1>1, <3>2, QuietMoved
  <2>. QED  BY <2>2, <2>3, <2>4
<1>. QED  BY <1>3 DEF AskedOnce

LEMMA PlaceAfter ==
    ASSUME NEW k, NEW j, AnswerPlace(k), k # 1, k - 1 = j
    PROVE  /\ Down("D2S_LOADPLAYER", j) /\ d2s[j].pid # NoPid
           /\ RowsOf(d2s[j].pid) = DOMAIN d2s[k].rows
  BY DEF AnswerPlace, Refusal

LEMMA AnswerPlaceKept ==
    ASSUME TypesInv, TypesInv', ItemsFollow, DownMoves, uid' = uid, UNCHANGED rows, NEW k, Answer(k)',
           Down("D2S_LOADITEMS", k)',
           NEW d \in {0, 1}, DownMoved(d), AnswerPlace(k + d),
           d = 0 => UNCHANGED pid,
           d = 1 => /\ 1 \in DOMAIN d2s
                    /\ \/ GetsPlayer
                       \/ UNCHANGED pid /\ (d2s[1].type # "D2S_LOADPLAYER" \/ d2s[1].uid # uid)
    PROVE  AnswerPlace(k)'
<1>1. k \in Nat \ {0} /\ k \in DOMAIN d2s'
  BY DEF Down, TypesInv
<1>2. Answer(k + d) /\ d2s'[k] = d2s[k + d]
  BY AnswerMoved
<1>3. \A p : RowsOf(p)' = RowsOf(p)
  BY DEF RowsOf
<1>4. CASE k = 1
  <2>1. CASE d = 0
    <3>1. k + d = 1
      BY <1>4, <2>1
    <3>2. RowsOf(pid) = DOMAIN d2s[k + d].rows /\ pid' = pid
      BY <2>1, <3>1 DEF AnswerPlace
    <3>. QED  BY <1>2, <1>3, <1>4, <3>2 DEF AnswerPlace
  <2>2. CASE d = 1
    <3>1. k + d # 1 /\ (k + d) - 1 = 1
      BY <1>4, <2>2
    <3>2. Down("D2S_LOADPLAYER", 1) /\ d2s[1].pid # NoPid /\ RowsOf(d2s[1].pid) = DOMAIN d2s[k + d].rows
      BY <3>1, PlaceAfter
    <3>3. d2s[1 + 1].uid = d2s[1].uid
      BY <3>2 DEF ItemsFollow
    <3>4. d2s[1].type = "D2S_LOADPLAYER" /\ d2s[1].uid = uid
      <4>1. k + d = 1 + 1
        BY <1>4, <2>2
      <4>2. d2s[1 + 1].uid = uid
        BY <1>2, <4>1 DEF Answer
      <4>. QED  BY <3>2, <3>3, <4>2 DEF Down
    <3>5. pid' = d2s[1].pid
      BY <2>2, <3>4 DEF GetsPlayer, IsRefused
    <3>. QED  BY <1>2, <1>3, <1>4, <3>2, <3>5 DEF AnswerPlace
  <2>. QED  BY <2>1, <2>2
<1>5. CASE k # 1
  <2>. DEFINE h == k - 1
  <2>1. k + d # 1 /\ (k + d) - 1 = h + d /\ h \in DOMAIN d2s'
    <3>1. k + d # 1 /\ (k + d) - 1 = h + d
      BY <1>1, <1>5
    <3>2. h \in DOMAIN d2s'
      <4>1. DOMAIN d2s' = 1 .. Len(d2s') /\ Len(d2s') \in Nat
        BY DEF TypesInv
      <4>. QED  BY <1>1, <1>5, <4>1
    <3>. QED  BY <3>1, <3>2
  <2>2. Down("D2S_LOADPLAYER", h + d) /\ d2s[h + d].pid # NoPid /\ RowsOf(d2s[h + d].pid) = DOMAIN d2s[k + d].rows
    BY <2>1, PlaceAfter
  <2>3. d2s'[h] = d2s[h + d]
    BY <2>1, <2>2 DEF DownMoved, Down
  <2>4. Down("D2S_LOADPLAYER", h)' /\ d2s'[h].pid # NoPid /\ RowsOf(d2s[h].pid)' = DOMAIN d2s'[k].rows
    BY <1>2, <1>3, <2>1, <2>2, <2>3 DEF Down
  <2>. QED  BY <1>5, <2>4 DEF AnswerPlace, Refusal
<1>. QED  BY <1>4, <1>5

LEMMA AnsweredOnceKept ==
    ASSUME TypesInv, TypesInv', ItemsFollow, AnsweredOnce, UpMoves, DownMoves, uid' = uid,
           UNCHANGED rows \/ ~Quiet(1)
    PROVE  AnsweredOnce'
<1>1. PICK c \in {0, 1} : UpMoved(c)
  BY DEF UpMoves
<1>2. PICK d \in {0, 1} :
        /\ DownMoved(d)
        /\ d = 0 => UNCHANGED pid
        /\ d = 1 => /\ 1 \in DOMAIN d2s
                    /\ \/ GetsPlayer
                       \/ UNCHANGED pid /\ (d2s[1].type # "D2S_LOADPLAYER" \/ d2s[1].uid # uid)
  BY DEF DownMoves
<1>3. ASSUME NEW k, Answer(k)'
      PROVE  /\ \A j : Answer(j)' => j = k
             /\ \A j : Quiet(j)'
             /\ Down("D2S_LOADITEMS", k)' => SameAsTable(d2s[k].rows)' /\ AnswerPlace(k)'
  <2>1. Answer(k + d) /\ k \in Int /\ d2s'[k] = d2s[k + d]
    BY SMTT(30), <1>2, <1>3, AnswerMoved DEF Answer, Refusal, Down, TypesInv
  <2>2. ASSUME NEW j, Answer(j)' PROVE j = k
    <3>1. Answer(j + d) /\ j \in Int
      BY SMTT(30), <1>2, <2>2, AnswerMoved DEF Answer, Refusal, Down, TypesInv
    <3>2. j + d = k + d
      BY <2>1, <3>1 DEF AnsweredOnce
    <3>. QED  BY <2>1, <3>1, <3>2, ShiftsOn
  <2>3. \A j : Quiet(j)
    BY <2>1 DEF AnsweredOnce
  <2>4. \A j : Quiet(j)'
    BY <1>1, <2>3, QuietMoved
  <2>5. UNCHANGED rows
    BY <2>3
  <2>6. ASSUME Down("D2S_LOADITEMS", k)' PROVE SameAsTable(d2s[k].rows)' /\ AnswerPlace(k)'
    <3>1. Down("D2S_LOADITEMS", k + d)
      BY <2>1, <2>6 DEF Answer, Refusal, Down
    <3>2. SameAsTable(d2s[k + d].rows) /\ AnswerPlace(k + d)
      BY <2>1, <3>1 DEF AnsweredOnce
    <3>3. SameAsTable(d2s[k].rows)'
      BY <2>1, <2>5, <3>2 DEF SameAsTable
    <3>4. AnswerPlace(k)'
      BY <1>2, <1>3, <2>5, <2>6, <3>2, AnswerPlaceKept
    <3>. QED  BY <3>3, <3>4
  <2>. QED  BY <2>2, <2>4, <2>6
<1>. QED  BY <1>3 DEF AnsweredOnce

\* The request is answered.
LEMMA ReadsAnswer ==
    ASSUME TypesInv, TypesInv', AskedOnce, AnsweredOnce, Asked(1), NEW sent, Reads(sent)
    PROVE  AskedOnce' /\ AnsweredOnce'
<1>. DEFINE n == Len(d2s)
<1>1. /\ UNCHANGED <<rows, pid, uid>> /\ \A k \in DOMAIN s2d' : k + 1 \in DOMAIN s2d /\ s2d'[k] = s2d[k + 1]
      /\ \A k \in DOMAIN s2d' : k \in Int /\ k + 1 # 1 /\ k + 1 > 1
  BY DEF Reads, Kind, Fetched, game
<1>2. \A j : ~Asked(j)'
  <2>1. ASSUME NEW j, Asked(j)' PROVE Asked(j + 1) /\ j + 1 # 1
    BY <1>1, <2>1 DEF Asked, Up
  <2>. QED  BY <2>1 DEF AskedOnce
<1>3. \A j : Quiet(j)'
  BY <1>1 DEF AskedOnce, Quiet
<1>4. /\ DOMAIN d2s' = 1 .. n + 2 /\ n \in Nat
      /\ \A k \in 1 .. n : d2s'[k] = d2s[k] /\ k \in DOMAIN d2s
      /\ d2s'[n + 1] = [type |-> "D2S_LOADPLAYER", uid |-> s2d[1].uid, pid |-> s2d[1].pid]
      /\ d2s'[n + 2] = [type |-> "D2S_LOADITEMS", uid |-> s2d[1].uid, rows |-> sent]
      /\ s2d[1].pid # NoPid
      /\ DOMAIN sent = RowsOf(s2d[1].pid) /\ \A i \in DOMAIN sent : sent[i] = rows[i]
  BY NoPidAssumption DEF Reads, Answered2
<1>. HIDE DEF n
<1>5. ASSUME NEW k, Answer(k)' PROVE k = n + 2
  <2>1. CASE k \in 1 .. n
    <3>1. Answer(k)
      BY <1>1, <1>4, <1>5, <2>1 DEF Answer, Refusal, Down
    <3>. QED  BY <3>1 DEF AskedOnce
  <2>2. CASE k = n + 1
    BY <1>4, <1>5, <2>2 DEF Answer, Refusal, Down
  <2>3. k \in 1 .. n \/ k = n + 1 \/ k = n + 2
    BY <1>4, <1>5 DEF Answer, Refusal, Down
  <2>. QED  BY <2>1, <2>2, <2>3
<1>6. PICK e, h : e = n + 1 /\ h = n + 2
  OBVIOUS
<1>7. SameAsTable(d2s[h].rows)' /\ AnswerPlace(h)'
  <2>. DEFINE P(p) == {i \in DOMAIN rows' : rows'[i].pid = p}
  <2>1. h # 1 /\ h - 1 = e /\ e \in DOMAIN d2s'
    BY <1>4, <1>6
  <2>2. \A p : P(p) = RowsOf(p)
    BY <1>1 DEF RowsOf
  <2>3. d2s'[e].pid = s2d[1].pid /\ d2s'[e].pid # NoPid /\ d2s'[e].type = "D2S_LOADPLAYER" /\ d2s'[h].rows = sent
    BY <1>4, <1>6
  <2>4. \A i \in DOMAIN sent : i \in DOMAIN rows' /\ sent[i] = rows'[i]
    <3>1. \A p : \A i \in RowsOf(p) : i \in DOMAIN rows
      BY DEF RowsOf
    <3>. QED  BY <1>1, <1>4, <3>1
  <2>. HIDE DEF P
  <2>5. Down("D2S_LOADPLAYER", e)'
    BY <2>1, <2>3 DEF Down
  <2>6. P(d2s'[e].pid) = DOMAIN d2s'[h].rows
    BY <1>4, <2>2, <2>3
  <2>7. RowsOf(d2s[e].pid)' = DOMAIN d2s'[h].rows
    BY <2>6 DEF P, RowsOf
  <2>8. AnswerPlace(h)'
    BY <2>1, <2>3, <2>5, <2>7 DEF AnswerPlace, Refusal
  <2>9. SameAsTable(d2s[h].rows)'
    BY <2>3, <2>4 DEF SameAsTable
  <2>. QED  BY <2>8, <2>9
<1>8. AskedOnce'
  BY <1>2 DEF AskedOnce
<1>9. AnsweredOnce'
  <2>1. \A k : Answer(k)' => k = h
    BY <1>5, <1>6
  <2>. QED  BY <1>3, <1>7, <2>1 DEF AnsweredOnce
<1>. QED  BY <1>8, <1>9

LEMMA RefusesAnswers ==
    ASSUME TypesInv, TypesInv', AskedOnce, AnsweredOnce, Asked(1), Refuses
    PROVE  AskedOnce' /\ AnsweredOnce'
<1>. DEFINE n == Len(d2s)
<1>1. /\ UNCHANGED uid /\ \A k \in DOMAIN s2d' : k + 1 \in DOMAIN s2d /\ s2d'[k] = s2d[k + 1]
      /\ \A k \in DOMAIN s2d' : k \in Int /\ k + 1 # 1 /\ k + 1 > 1
  BY DEF Refuses, Kind, Fetched, game
<1>2. \A j : ~Asked(j)'
  <2>1. ASSUME NEW j, Asked(j)' PROVE Asked(j + 1) /\ j + 1 # 1
    BY <1>1, <2>1 DEF Asked, Up
  <2>. QED  BY <2>1 DEF AskedOnce
<1>3. \A j : Quiet(j)'
  BY <1>1 DEF AskedOnce, Quiet
<1>4. /\ DOMAIN d2s' = 1 .. n + 1 /\ n \in Nat
      /\ \A k \in 1 .. n : d2s'[k] = d2s[k] /\ k \in DOMAIN d2s
      /\ d2s'[n + 1].type = "D2S_LOADPLAYER"
  BY DEF Refuses, Answered1
<1>. HIDE DEF n
<1>5. ASSUME NEW k, Answer(k)' PROVE k = n + 1
  <2>1. CASE k \in 1 .. n
    <3>1. Answer(k)
      BY <1>1, <1>4, <1>5, <2>1 DEF Answer, Refusal, Down
    <3>. QED  BY <3>1 DEF AskedOnce
  <2>2. k \in 1 .. n \/ k = n + 1
    BY <1>4, <1>5 DEF Answer, Refusal, Down
  <2>. QED  BY <2>1, <2>2
<1>6. PICK h : h = n + 1
  OBVIOUS
<1>7. ~Down("D2S_LOADITEMS", h)'
  BY <1>4, <1>6 DEF Down
<1>8. AskedOnce'
  BY <1>2 DEF AskedOnce
<1>9. AnsweredOnce'
  <2>1. \A k : Answer(k)' => k = h
    BY <1>5, <1>6
  <2>. QED  BY <1>3, <1>7, <2>1 DEF AnsweredOnce
<1>. QED  BY <1>8, <1>9

LEMMA IdleStep ==
    ASSUME Step, awaiting = 0, Unasked, conn', conn
    PROVE  \/ awaiting' = 0
           \/ \E p \in Pids \cup {NoPid} : AsksLoad(p)
<1>. USE DEF game, history
<1>1. CASE LifeStep
  <2>1. CASE UNCHANGED vars
    BY <2>1 DEF vars, vars
  <2>2. CASE Connects
    BY <2>2 DEF Connects
  <2>3. CASE Asks
    BY <2>3 DEF Asks
  <2>4. CASE \E p \in Pids \cup {NoPid} : AsksLoad(p)
    BY <2>4
  <2>5. CASE Starts
    BY <2>5 DEF Starts
  <2>6. CASE Restarts
    BY <2>6 DEF Restarts
  <2>7. CASE OnDisconnected
    BY <2>7 DEF OnDisconnected
  <2>8. CASE Crash
    BY <2>8 DEF Crash
  <2>. QED  BY <1>1, <2>1, <2>2, <2>3, <2>4, <2>5, <2>6, <2>7, <2>8 DEF LifeStep
<1>2. CASE ItemStep
  <2>1. CASE \E l, n : AddsTo(l, n)
    BY <2>1 DEF AddsTo, ChangedOne
  <2>2. CASE \E i \in Indexes : GotNew(i) /\ conn /\ pid # NoPid
    BY <2>2 DEF GotNew
  <2>3. CASE \E l : Trashes(l)
    BY <2>3 DEF Trashes, ChangedOne
  <2>4. CASE \E l : PutsOn(l)
    BY <2>4 DEF PutsOn, ChangedOne
  <2>5. CASE \E l : PutsOff(l)
    BY <2>5 DEF PutsOff, ChangedOne
  <2>. QED  BY <1>2, <2>1, <2>2, <2>3, <2>4, <2>5 DEF ItemStep
<1>3. CASE DbStep
  <2>1. CASE Lists \/ Refuses
    BY <2>1 DEF Lists, Refuses, Kind
  <2>2. CASE \E sent : Reads(sent)
    BY <2>2 DEF Reads, Kind
  <2>3. CASE Inserts
    BY <2>3 DEF Inserts, Kind
  <2>4. CASE SetsNum
    BY <2>4 DEF SetsNum, Kind
  <2>5. CASE SetsWorn
    BY <2>5 DEF SetsWorn, Kind
  <2>6. CASE Deletes
    BY <2>6 DEF Deletes, Kind
  <2>. QED  BY <1>3, <2>1, <2>2, <2>3, <2>4, <2>5, <2>6 DEF DbStep
<1>4. CASE ListenerStep
  <2>1. CASE Drops
    BY <2>1 DEF Drops
  <2>2. CASE GetsPlayers
    BY <2>2 DEF GetsPlayers, Told
  <2>3. CASE GetsPlayer \/ IsRefused
    <3>1. IsRefused => Answer(1)
      BY DEF IsRefused, Told, Heard, Answer, Refusal, Down
    <3>. QED  BY <2>3, <3>1 DEF GetsPlayer, Told, Unasked
  <2>4. CASE \E new, local, size : Loads(new, local, size)
    <3>1. Answer(1)
      BY <2>4 DEF Loads, Heard, Answer, Down
    <3>. QED  BY <3>1 DEF Unasked
  <2>5. CASE \E l, i : Learns(l, i)
    BY <2>5 DEF Learns
  <2>. QED  BY <1>4, <2>1, <2>2, <2>3, <2>4, <2>5 DEF ListenerStep
<1>. QED  BY <1>1, <1>2, <1>3, <1>4 DEF Step

LEMMA AsksOne ==
    ASSUME TypesInv, Unasked, NEW p \in Pids \cup {NoPid}, AsksLoad(p)
    PROVE  AskedOnce' /\ AnsweredOnce'
<1>1. /\ \A k : Up("S2D_LOADPLAYER", k)' => k = Len(s2d) + 1 \/ (Up("S2D_LOADPLAYER", k) /\ s2d'[k] = s2d[k])
      /\ DOMAIN s2d' = 1 .. Len(s2d) + 1 /\ Len(s2d) \in Nat /\ d2s' = d2s /\ uid' = uid
  BY DEF AsksLoad, Sent, Up
<1>2. \A k : Asked(k)' => k = Len(s2d) + 1
  BY <1>1 DEF Unasked, Asked, Up
<1>3. \A k : ~Answer(k)'
  BY <1>1 DEF Unasked, Answer, Refusal, Down
<1>4. \A j : j > Len(s2d) + 1 => Quiet(j)'
  BY <1>1 DEF Quiet
<1>5. PICK e : e = Len(s2d) + 1
  OBVIOUS
<1>6. AskedOnce'
  BY <1>2, <1>3, <1>4, <1>5 DEF AskedOnce
<1>. QED  BY <1>3, <1>6 DEF AnsweredOnce

LEMMA AnswerHeard ==
    ASSUME TypesInv, AskedOnce, AnsweredOnce, Answer(1), Heard, UNCHANGED <<s2d, uid>>
    PROVE  Unasked'
<1>1. \A k : ~Asked(k)'
  BY DEF AskedOnce, Asked, Up
<1>2. ASSUME NEW k, Answer(k)' PROVE FALSE
  <2>1. k + 1 \in DOMAIN d2s /\ d2s'[k] = d2s[k + 1] /\ k + 1 # 1
    BY <1>2 DEF Heard, Answer, Refusal, Down
  <2>2. Answer(k + 1)
    BY <1>2, <2>1 DEF Answer, Refusal, Down
  <2>. QED  BY <2>1, <2>2 DEF AnsweredOnce
<1>. QED  BY <1>1, <1>2 DEF Unasked

LEMMA LoadsAnswered ==
    ASSUME TypesInv, AskedOnce, AnsweredOnce, NEW new, NEW local, NEW size, Loads(new, local, size)
    PROVE  Unasked'
<1>1. Answer(1) /\ Heard /\ UNCHANGED <<s2d, uid>>
  BY DEF Loads, Heard, Answer, Down
<1>. QED  BY <1>1, AnswerHeard

LEMMA RefusedAnswered ==
    ASSUME TypesInv, AskedOnce, AnsweredOnce, IsRefused
    PROVE  Unasked'
<1>1. Answer(1) /\ Heard /\ UNCHANGED <<s2d, uid>>
  BY DEF IsRefused, Told, Heard, Answer, Refusal, Down, game
<1>. QED  BY <1>1, AnswerHeard

LEMMA LoadStep ==
    ASSUME TypesInv, TypesInv', NumbersInv, ConnInv, LoadInv, Step
    PROVE  LoadInv'
<1>. SUFFICES ASSUME conn', ~mixed'
              PROVE  \/ awaiting' = 0 /\ Unasked'
                     \/ awaiting' = 1 /\ DOMAIN bag'.items = {} /\ AskedOnce' /\ AnsweredOnce'
  BY DEF LoadInv
<1>1. ~mixed
  BY MixedStays
<1>2. CASE Connects
  <2>1. awaiting' = 0
    BY <1>2 DEF ConnInv, NoConn, Connects, history
  <2>. QED  BY <1>2, <2>1, UnaskedNewConn
<1>3. CASE conn /\ uid' = uid /\ awaiting = 0 /\ Unasked
  <2>1. CASE \E p \in Pids \cup {NoPid} : AsksLoad(p)
    <3>1. PICK p \in Pids \cup {NoPid} : AsksLoad(p)
      BY <2>1
    <3>2. awaiting' = 1
      BY <1>3, <3>1 DEF AsksLoad
    <3>3. mixed' = (mixed \/ awaiting > 0 \/ DOMAIN bag.items # {}) /\ bag' = bag
      BY <3>1 DEF AsksLoad
    <3>. QED  BY <1>3, <3>1, <3>2, <3>3, AsksOne
  <2>2. CASE ~\E p \in Pids \cup {NoPid} : AsksLoad(p)
    BY <1>3, <2>2, IdleStep, UnaskedKept
  <2>. QED  BY <2>1, <2>2
<1>4. CASE conn /\ uid' = uid /\ awaiting = 1 /\ DOMAIN bag.items = {} /\ AskedOnce /\ AnsweredOnce
  <2>4. CASE Refuses /\ Asked(1)
    <3>1. UNCHANGED <<awaiting, bag>>
      BY <2>4 DEF Refuses, Kind, game
    <3>. QED  BY <1>4, <2>4, <3>1, RefusesAnswers
  <2>5. CASE IsRefused
    <3>1. awaiting' = 0
      BY <1>4, <2>5 DEF IsRefused
    <3>. QED  BY <1>4, <2>5, <3>1, RefusedAnswered
  <2>1. CASE (\E sent : Reads(sent)) /\ Asked(1)
    <3>1. PICK sent : Reads(sent)
      BY <2>1
    <3>2. UNCHANGED <<awaiting, bag>>
      BY <3>1 DEF Reads, Kind, game
    <3>. QED  BY <1>4, <2>1, <3>1, <3>2, ReadsAnswer
  <2>2. CASE \E new, local, size : Loads(new, local, size)
    <3>1. PICK new, local, size : Loads(new, local, size)
      BY <2>2
    <3>2. awaiting' = 0
      BY <1>4, <3>1 DEF Loads
    <3>. QED  BY <1>4, <3>1, <3>2, LoadsAnswered
  <2>3. CASE /\ UpMoves /\ DownMoves /\ UNCHANGED <<awaiting, uid>> /\ DOMAIN bag'.items = {}
             /\ UNCHANGED rows \/ ~Quiet(1)
    BY <1>4, <2>3, AskedOnceKept, AnsweredOnceKept DEF NumbersInv
  <2>. QED  BY <1>4, <2>1, <2>2, <2>3, <2>4, <2>5, AwaitingCases
<1>. QED  BY <1>1, <1>2, <1>3, <1>4, ConnStays DEF LoadInv


-----------------------------------------------------------------------------
(* ItemsInv is kept.                                                        *)

\* What becomes of an item.
SameItem(l) == l \in DOMAIN bag.items /\ bag'.items[l] = bag.items[l]

ItemChanges(l) == (\E n : AddsTo(l, n)) \/ PutsOn(l) \/ PutsOff(l)

ChangedItem(l) ==
    /\ l \in DOMAIN bag.items /\ ItemChanges(l)
    /\ bag'.items[l].iid = bag.items[l].iid
    /\ bag.items[l].iid = 0 => l \in lost'

LearntIid(l) == l \in DOMAIN bag.items /\ \E i : Learns(l, i) /\ bag'.items[l].iid = i

FoundItem(l) == \E i \in Indexes : GotNew(i) /\ conn /\ l = nextLocal + 1 /\ bag'.items[l] = NewInfo(i)

FetchedItem(l) == \E new, local, size : Loads(new, local, size) /\ l \in DOMAIN new /\ bag'.items[l] = new[l]

LEMMA ChangesItem ==
    ASSUME TypesInv, NEW l, ItemChanges(l)
    PROVE  /\ l \in DOMAIN bag.items /\ DOMAIN bag'.items = DOMAIN bag.items
           /\ bag'.items[l].iid = bag.items[l].iid
           /\ bag.items[l].iid = 0 => l \in lost'
           /\ \A k \in DOMAIN bag.items \ {l} : bag'.items[k] = bag.items[k]
           /\ ChangedOne(l) /\ conn
<1>1. l \in DOMAIN bag.items
  BY DEF ItemChanges, AddsTo, PutsOn, PutsOff
<1>2. bag.items[l] \in Info
  BY <1>1, ItemTypes DEF TypesInv
<1>3. \E it : Replaces(bag', bag, l, it) /\ it.iid = bag.items[l].iid
  <2>1. ASSUME NEW n, AddsTo(l, n)
        PROVE  Replaces(bag', bag, l, [bag.items[l] EXCEPT !.num = n])
    BY <2>1 DEF AddsTo
  <2>2. CASE PutsOn(l) \/ PutsOff(l)
    <3>1. PutsOn(l) => Replaces(bag', bag, l, [bag.items[l] EXCEPT !.worn = TRUE])
      BY DEF PutsOn, IsPutOn
    <3>2. PutsOff(l) => Replaces(bag', bag, l, [bag.items[l] EXCEPT !.worn = FALSE])
      BY DEF PutsOff, IsPutOff
    <3>3. PICK w \in BOOLEAN : Replaces(bag', bag, l, [bag.items[l] EXCEPT !.worn = w])
      BY <2>2, <3>1, <3>2
    <3>4. [bag.items[l] EXCEPT !.worn = w].iid = bag.items[l].iid
      BY <1>2 DEF Info
    <3>. QED  BY <3>3, <3>4
  <2>3. \A n : [bag.items[l] EXCEPT !.num = n].iid = bag.items[l].iid
    BY <1>2 DEF Info
  <2>. QED  BY <2>1, <2>2, <2>3 DEF ItemChanges
<1>4. ChangedOne(l) /\ conn
  BY DEF ItemChanges, AddsTo, PutsOn, PutsOff
<1>5. bag.items[l].iid = 0 => l \in lost'
  BY <1>4 DEF ChangedOne, Lose
<1>. QED  BY <1>1, <1>3, <1>4, <1>5 DEF Replaces

LEMMA ItemCases ==
    ASSUME TypesInv, Step, NEW x \in DOMAIN bag'.items
    PROVE  SameItem(x) \/ ChangedItem(x) \/ LearntIid(x) \/ FoundItem(x) \/ FetchedItem(x)
<1>1. CASE LifeStep
  <2>1. CASE UNCHANGED vars
    BY <2>1 DEF vars, SameItem, game
  <2>2. CASE Connects
    BY <2>2 DEF Connects, SameItem, game
  <2>3. CASE Asks
    BY <2>3 DEF Asks, SameItem, game
  <2>4. CASE \E p \in Pids \cup {NoPid} : AsksLoad(p)
    BY <2>4 DEF AsksLoad, SameItem, game
  <2>5. CASE Starts
    BY <2>5 DEF Starts, SameItem, game
  <2>6. CASE Restarts
    BY <2>6, Emptied DEF Restarts, SameItem, game
  <2>7. CASE OnDisconnected
    BY <2>7, Emptied DEF OnDisconnected, SameItem, game
  <2>8. CASE Crash
    BY <2>8, Emptied DEF Crash, SameItem, game
  <2>. QED  BY <1>1, <2>1, <2>2, <2>3, <2>4, <2>5, <2>6, <2>7, <2>8 DEF LifeStep
<1>2. CASE ItemStep
  <2>1. CASE \E l, n : AddsTo(l, n)
    <3>1. PICK k : ItemChanges(k)
      BY <2>1 DEF ItemChanges
    <3>. QED  BY <3>1, ChangesItem DEF SameItem, ChangedItem
  <2>2. CASE \E i \in Indexes : GotNew(i) /\ conn /\ pid # NoPid
    <3>1. PICK i \in Indexes : GotNew(i) /\ conn
      BY <2>2
    <3>2. x = nextLocal + 1 \/ (x \in DOMAIN bag.items /\ x # nextLocal + 1)
      BY <3>1 DEF GotNew
    <3>. QED  BY <3>1, <3>2 DEF GotNew, SameItem, FoundItem
  <2>3. CASE \E l : Trashes(l)
    BY <2>3 DEF Trashes, ChangedOne, SameItem, game, IsTrashed
  <2>4. CASE \E l : PutsOn(l)
    <3>1. PICK k : ItemChanges(k)
      BY <2>4 DEF ItemChanges
    <3>. QED  BY <3>1, ChangesItem DEF SameItem, ChangedItem
  <2>5. CASE \E l : PutsOff(l)
    <3>1. PICK k : ItemChanges(k)
      BY <2>5 DEF ItemChanges
    <3>. QED  BY <3>1, ChangesItem DEF SameItem, ChangedItem
  <2>. QED  BY <1>2, <2>1, <2>2, <2>3, <2>4, <2>5 DEF ItemStep
<1>3. CASE DbStep
  <2>1. CASE Lists \/ Refuses
    BY <2>1 DEF Lists, Refuses, Kind, SameItem, game
  <2>2. CASE \E sent : Reads(sent)
    BY <2>2 DEF Reads, Kind, SameItem, game
  <2>3. CASE Inserts
    BY <2>3 DEF Inserts, Kind, SameItem, game
  <2>4. CASE SetsNum
    BY <2>4 DEF SetsNum, Kind, SameItem, game
  <2>5. CASE SetsWorn
    BY <2>5 DEF SetsWorn, Kind, SameItem, game
  <2>6. CASE Deletes
    BY <2>6 DEF Deletes, Kind, SameItem, game
  <2>. QED  BY <1>3, <2>1, <2>2, <2>3, <2>4, <2>5, <2>6 DEF DbStep
<1>4. CASE ListenerStep
  <2>1. CASE Drops
    BY <2>1 DEF Drops, SameItem, game
  <2>2. CASE GetsPlayers
    BY <2>2 DEF GetsPlayers, Told, SameItem, game
  <2>3. CASE GetsPlayer \/ IsRefused
    BY <2>3 DEF GetsPlayer, IsRefused, Told, SameItem, game
  <2>4. CASE \E new, local, size : Loads(new, local, size)
    <3>1. PICK new, local, size : Loads(new, local, size)
      BY <2>4
    <3>. QED  BY <3>1, LoadedItem DEF SameItem, FetchedItem
  <2>5. CASE \E l, i : Learns(l, i)
    <3>1. PICK k, i : Learns(k, i)
      BY <2>5
    <3>. QED  BY <3>1, LearntItem DEF SameItem, LearntIid
  <2>. QED  BY <1>4, <2>1, <2>2, <2>3, <2>4, <2>5 DEF ListenerStep
<1>. QED  BY <1>1, <1>2, <1>3, <1>4 DEF Step

LEMMA LostStays ==
    ASSUME Step
    PROVE  lost \subseteq lost' \/ (DOMAIN bag'.items = {} /\ ~conn')
<1>1. CASE LifeStep
  <2>1. CASE UNCHANGED vars
    BY <2>1 DEF vars, history
  <2>2. CASE Connects
    BY <2>2 DEF Connects, history
  <2>3. CASE Asks
    BY <2>3 DEF Asks, history
  <2>4. CASE \E p \in Pids \cup {NoPid} : AsksLoad(p)
    BY <2>4 DEF AsksLoad, history
  <2>5. CASE Starts
    BY <2>5 DEF Starts, history
  <2>6. CASE Restarts
    BY <2>6 DEF Restarts, history
  <2>7. CASE OnDisconnected
    BY <2>7 DEF OnDisconnected, history
  <2>8. CASE Crash
    BY <2>8, Emptied DEF Crash, history
  <2>. QED  BY <1>1, <2>1, <2>2, <2>3, <2>4, <2>5, <2>6, <2>7, <2>8 DEF LifeStep
<1>2. CASE ItemStep
  <2>1. CASE \E l, n : AddsTo(l, n)
    BY <2>1 DEF AddsTo, ChangedOne, history, Lose
  <2>2. CASE \E i \in Indexes : GotNew(i) /\ conn /\ pid # NoPid
    BY <2>2 DEF GotNew, history
  <2>3. CASE \E l : Trashes(l)
    BY <2>3 DEF Trashes, ChangedOne, history, Lose
  <2>4. CASE \E l : PutsOn(l)
    BY <2>4 DEF PutsOn, ChangedOne, history, Lose
  <2>5. CASE \E l : PutsOff(l)
    BY <2>5 DEF PutsOff, ChangedOne, history, Lose
  <2>. QED  BY <1>2, <2>1, <2>2, <2>3, <2>4, <2>5 DEF ItemStep
<1>3. CASE DbStep
  <2>1. CASE Lists \/ Refuses
    BY <2>1 DEF Lists, Refuses, Kind, history
  <2>2. CASE \E sent : Reads(sent)
    BY <2>2 DEF Reads, Kind, history
  <2>3. CASE Inserts
    BY <2>3 DEF Inserts, Kind, history
  <2>4. CASE SetsNum
    BY <2>4 DEF SetsNum, Kind, history
  <2>5. CASE SetsWorn
    BY <2>5 DEF SetsWorn, Kind, history
  <2>6. CASE Deletes
    BY <2>6 DEF Deletes, Kind, history
  <2>. QED  BY <1>3, <2>1, <2>2, <2>3, <2>4, <2>5, <2>6 DEF DbStep
<1>4. CASE ListenerStep
  <2>1. CASE Drops
    BY <2>1 DEF Drops, history
  <2>2. CASE GetsPlayers
    BY <2>2 DEF GetsPlayers, Told, history
  <2>3. CASE GetsPlayer \/ IsRefused
    BY <2>3 DEF GetsPlayer, IsRefused, Told, history
  <2>4. CASE \E new, local, size : Loads(new, local, size)
    BY <2>4 DEF Loads, history
  <2>5. CASE \E l, i : Learns(l, i)
    BY <2>5 DEF Learns, history
  <2>. QED  BY <1>4, <2>1, <2>2, <2>3, <2>4, <2>5 DEF ListenerStep
<1>. QED  BY <1>1, <1>2, <1>3, <1>4 DEF Step

\* Unless the items are gone, the connection and the player are the same.
LEMMA PidKept ==
    ASSUME TypesInv, ItemsFollow, ConnInv, LoadInv, Step, ~mixed', DOMAIN bag'.items # {}
    PROVE  conn /\ conn' /\ uid' = uid /\ pid' = pid
<1>5. ~mixed
  BY MixedStays
<1>6. conn \/ DOMAIN bag.items = {}
  BY Emptied DEF ConnInv, NoConn
<1>1. CASE LifeStep
  <2>1. CASE UNCHANGED vars
    BY <2>1, <1>6 DEF vars, game
  <2>2. CASE Connects
    BY <2>2, <1>6 DEF Connects, game
  <2>3. CASE Asks
    BY <2>3, <1>6 DEF Asks, game
  <2>4. CASE \E p \in Pids \cup {NoPid} : AsksLoad(p)
    BY <2>4, <1>6 DEF AsksLoad, game
  <2>5. CASE Starts
    BY <2>5, <1>6 DEF Starts, game
  <2>6. CASE Restarts
    BY <2>6, <1>6, Emptied DEF Restarts, game
  <2>7. CASE OnDisconnected
    BY <2>7, <1>6, Emptied DEF OnDisconnected, game
  <2>8. CASE Crash
    BY <2>8, <1>6, Emptied DEF Crash, game
  <2>. QED  BY <1>1, <2>1, <2>2, <2>3, <2>4, <2>5, <2>6, <2>7, <2>8 DEF LifeStep
<1>2. CASE ItemStep
  <2>1. CASE \E l, n : AddsTo(l, n)
    BY <2>1, <1>6 DEF AddsTo, ChangedOne, game
  <2>2. CASE \E i \in Indexes : GotNew(i) /\ conn /\ pid # NoPid
    BY <2>2, <1>6 DEF GotNew, game
  <2>3. CASE \E l : Trashes(l)
    BY <2>3, <1>6 DEF Trashes, ChangedOne, game
  <2>4. CASE \E l : PutsOn(l)
    BY <2>4, <1>6 DEF PutsOn, ChangedOne, game
  <2>5. CASE \E l : PutsOff(l)
    BY <2>5, <1>6 DEF PutsOff, ChangedOne, game
  <2>. QED  BY <1>2, <2>1, <2>2, <2>3, <2>4, <2>5 DEF ItemStep
<1>3. CASE DbStep
  <2>1. CASE Lists \/ Refuses
    BY <2>1, <1>6 DEF Lists, Refuses, Kind, game
  <2>2. CASE \E sent : Reads(sent)
    BY <2>2, <1>6 DEF Reads, Kind, game
  <2>3. CASE Inserts
    BY <2>3, <1>6 DEF Inserts, Kind, game
  <2>4. CASE SetsNum
    BY <2>4, <1>6 DEF SetsNum, Kind, game
  <2>5. CASE SetsWorn
    BY <2>5, <1>6 DEF SetsWorn, Kind, game
  <2>6. CASE Deletes
    BY <2>6, <1>6 DEF Deletes, Kind, game
  <2>. QED  BY <1>3, <2>1, <2>2, <2>3, <2>4, <2>5, <2>6 DEF DbStep
<1>4. CASE ListenerStep
  <2>1. CASE Drops
    BY <2>1, <1>6 DEF Drops, game
  <2>2. CASE GetsPlayers
    BY <2>2, <1>6 DEF GetsPlayers, Told, game
  <2>6. CASE IsRefused
    BY <2>6, <1>6 DEF IsRefused, Told, game
  <2>3. CASE GetsPlayer
    <3>1. Down("D2S_LOADPLAYER", 1) /\ d2s[1].pid # NoPid
      BY <2>3, NoPidAssumption DEF GetsPlayer, Told, Heard, Down
    <3>2. Down("D2S_LOADITEMS", 1 + 1) /\ d2s[1 + 1].uid = d2s[1].uid
      BY <3>1 DEF ItemsFollow
    <3>3. Answer(1 + 1)
      BY <2>3, <3>2 DEF GetsPlayer, Told, Answer
    <3>4. DOMAIN bag.items = {}
      BY <2>3, <1>5, <3>3 DEF GetsPlayer, Told, LoadInv, Unasked
    <3>. QED  BY <2>3, <3>4 DEF GetsPlayer
  <2>4. CASE \E new, local, size : Loads(new, local, size)
    BY <2>4, <1>6 DEF Loads, game
  <2>5. CASE \E l, i : Learns(l, i)
    BY <2>5, <1>6 DEF Learns, game
  <2>. QED  BY <1>4, <2>1, <2>2, <2>3, <2>4, <2>5, <2>6 DEF ListenerStep
<1>. QED  BY <1>1, <1>2, <1>3, <1>4 DEF Step

\* Rows that nothing on the link is about.
LEMMA RowStays ==
    ASSUME TypesInv, RowNumbers, Step, NEW x \in DOMAIN rows, Untrashed(x)
    PROVE  x \in DOMAIN rows' /\ rows'[x].pid = rows[x].pid
<1>1. CASE LifeStep
  <2>1. CASE UNCHANGED vars
    BY <2>1 DEF vars, game
  <2>2. CASE Connects
    BY <2>2 DEF Connects, game
  <2>3. CASE Asks
    BY <2>3 DEF Asks, game
  <2>4. CASE \E p \in Pids \cup {NoPid} : AsksLoad(p)
    BY <2>4 DEF AsksLoad, game
  <2>5. CASE Starts
    BY <2>5 DEF Starts, game
  <2>6. CASE Restarts
    BY <2>6 DEF Restarts, game
  <2>7. CASE OnDisconnected
    BY <2>7 DEF OnDisconnected, game
  <2>8. CASE Crash
    BY <2>8 DEF Crash, game
  <2>. QED  BY <1>1, <2>1, <2>2, <2>3, <2>4, <2>5, <2>6, <2>7, <2>8 DEF LifeStep
<1>2. CASE ItemStep
  <2>1. CASE \E l, n : AddsTo(l, n)
    BY <2>1 DEF AddsTo, ChangedOne, game
  <2>2. CASE \E i \in Indexes : GotNew(i) /\ conn /\ pid # NoPid
    BY <2>2 DEF GotNew, game
  <2>3. CASE \E l : Trashes(l)
    BY <2>3 DEF Trashes, ChangedOne, game
  <2>4. CASE \E l : PutsOn(l)
    BY <2>4 DEF PutsOn, ChangedOne, game
  <2>5. CASE \E l : PutsOff(l)
    BY <2>5 DEF PutsOff, ChangedOne, game
  <2>. QED  BY <1>2, <2>1, <2>2, <2>3, <2>4, <2>5 DEF ItemStep
<1>3. CASE DbStep
  <2>1. CASE Lists \/ Refuses
    BY <2>1 DEF Lists, Refuses, Kind, game
  <2>2. CASE \E sent : Reads(sent)
    BY <2>2 DEF Reads, Kind, game
  <2>3. CASE Inserts
    <3>1. nextIid \in Nat
      BY DEF TypesInv
    <3>2. x # nextIid
      BY <3>1 DEF RowNumbers
    <3>. QED  BY <2>3, <3>2 DEF Inserts
  <2>4. CASE SetsNum
    BY <2>4 DEF SetsNum, Kind, game, SameRows
  <2>5. CASE SetsWorn
    BY <2>5 DEF SetsWorn, Kind, game, SameRows
  <2>6. CASE Deletes
    <3>1. x = s2d[1].iid => For("S2D_TRASHITEM", 1, x)
      BY <2>6 DEF Deletes, Kind, Fetched, For, Up
    <3>. QED  BY <2>6, <3>1 DEF Deletes, Untrashed
  <2>. QED  BY <1>3, <2>1, <2>2, <2>3, <2>4, <2>5, <2>6 DEF DbStep
<1>4. CASE ListenerStep
  <2>1. CASE Drops
    BY <2>1 DEF Drops, game
  <2>2. CASE GetsPlayers
    BY <2>2 DEF GetsPlayers, Told, game
  <2>3. CASE GetsPlayer \/ IsRefused
    BY <2>3 DEF GetsPlayer, IsRefused, Told, game
  <2>4. CASE \E new, local, size : Loads(new, local, size)
    BY <2>4 DEF Loads, game
  <2>5. CASE \E l, i : Learns(l, i)
    BY <2>5 DEF Learns, game
  <2>. QED  BY <1>4, <2>1, <2>2, <2>3, <2>4, <2>5 DEF ListenerStep
<1>. QED  BY <1>1, <1>2, <1>3, <1>4 DEF Step

-----------------------------------------------------------------------------
(* The last packet about a row.                                             *)

LEMMA ForIs ==
    ASSUME TypesInv, NEW t, NEW j, NEW i, For(t, j, i)
    PROVE  j \in Nat \ {0} /\ j <= Len(s2d) /\ j \in DOMAIN s2d
  BY DEF For, Up, TypesInv

LEMMA ForSent ==
    ASSUME NEW m, Sent(m), NEW t, NEW i, NEW j, j \in DOMAIN s2d
    PROVE  For(t, j, i)' <=> For(t, j, i)
  BY DEF Sent, For, Up

LEMMA ForNew ==
    ASSUME NEW m, Sent(m), NEW t, NEW i, NEW j, For(t, j, i)'
    PROVE  j \in DOMAIN s2d \/ (j = Len(s2d) + 1 /\ m.type = t /\ m.iid = i)
<1>1. j \in DOMAIN s2d' /\ s2d'[j].type = t /\ s2d'[j].iid = i
  BY DEF For, Up
<1>2. j \in DOMAIN s2d \/ j = Len(s2d) + 1
  BY <1>1 DEF Sent
<1>3. \A k : k = Len(s2d) + 1 => s2d'[k] = m
  BY DEF Sent
<1>. QED  BY <1>1, <1>2, <1>3

LEMMA LastSent ==
    ASSUME TypesInv, TypesInv', NEW m, Sent(m), NEW t, NEW i, NEW n \in 0 .. Len(s2d), NEW k
    PROVE  Last(t, i, n, k)' <=> Last(t, i, n, k)
<1>1. \A j : j \in Nat \ {0} /\ j <= n => j \in DOMAIN s2d
  BY DEF Sent
<1>2. \A j : j \in Nat \ {0} /\ j <= n => (For(t, j, i)' <=> For(t, j, i))
  BY <1>1, ForSent
<1>3. \A j : For(t, j, i) => j \in Nat \ {0}
  BY ForIs
<1>4. \A j : For(t, j, i)' => j \in Nat \ {0}
  <2>1. ASSUME NEW j, For(t, j, i)' PROVE j \in Nat \ {0}
    BY <2>1 DEF For, Up, Sent
  <2>. QED  BY <2>1
<1>5. \A j : For(t, j, i) /\ j <= n <=> For(t, j, i)' /\ j <= n
  BY <1>2, <1>3, <1>4
<1>6. k \in 0 .. n => k = 0 \/ (k \in Nat \ {0} /\ k <= n)
  OBVIOUS
<1>. QED  BY <1>2, <1>5, <1>6 DEF Last

\* The packet that is sent is about the row.
LEMMA LastNew ==
    ASSUME TypesInv, NEW m, Sent(m), NEW t, NEW i, m.type = t, m.iid = i,
           NEW n, n = Len(s2d) + 1, NEW k
    PROVE  Last(t, i, n, k)' <=> k = n
<1>1. n \in DOMAIN s2d' /\ n \in Nat \ {0}
  BY DEF Sent
<1>2. For(t, n, i)'
  BY <1>1 DEF Sent, For, Up
<1>3. ASSUME NEW j, For(t, j, i)' PROVE j <= n
  BY <1>3, <1>1, ForNew DEF Sent
<1>4. ASSUME Last(t, i, n, k)' PROVE k = n
  <2>1. k \in 0 .. n /\ n <= k
    BY <1>1, <1>2, <1>4 DEF Last
  <2>. QED  BY <1>1, <2>1
<1>5. Last(t, i, n, n)'
  BY <1>1, <1>2, <1>3 DEF Last
<1>. QED  BY <1>4, <1>5

\* It is about another.
LEMMA LastOther ==
    ASSUME TypesInv, TypesInv', NEW m, Sent(m), NEW t, NEW i, ~(m.type = t /\ m.iid = i),
           NEW n, n = Len(s2d), NEW e, e = n + 1, NEW k
    PROVE  Last(t, i, e, k)' <=> Last(t, i, n, k)
<1>1. n \in Nat /\ DOMAIN s2d = 1 .. n
  BY DEF Sent
<1>2. \A j : For(t, j, i)' => j \in 1 .. n
  BY <1>1, ForNew
<1>3. \A j : For(t, j, i)' /\ j <= e <=> For(t, j, i)' /\ j <= n
  BY <1>1, <1>2
<1>4. k # 0 /\ For(t, k, i)' => k \in 0 .. n
  BY <1>1, <1>2
<1>5. (k \in 0 .. e /\ (k # 0 => For(t, k, i)')) <=> (k \in 0 .. n /\ (k # 0 => For(t, k, i)'))
  BY <1>1, <1>4
<1>6. Last(t, i, e, k)' <=> Last(t, i, n, k)'
  BY <1>3, <1>5 DEF Last
<1>. QED  BY <1>1, <1>6, LastSent

LEMMA ForFetched ==
    ASSUME TypesInv, Fetched, NEW t, NEW i, NEW j \in Nat \ {0}
    PROVE  For(t, j, i)' <=> For(t, j + 1, i)
<1>1. j \in DOMAIN s2d' <=> j + 1 \in DOMAIN s2d
  BY DEF Fetched
<1>2. j \in DOMAIN s2d' => s2d'[j] = s2d[j + 1]
  BY DEF Fetched
<1>. QED  BY <1>1, <1>2 DEF For, Up

LEMMA LastFetched ==
    ASSUME TypesInv, Fetched, NEW t, NEW i, NEW n \in 0 .. Len(s2d) - 1
    PROVE  /\ \A k \in Nat \ {0} : Last(t, i, n, k)' <=> Last(t, i, n + 1, k + 1)
           /\ Last(t, i, n, 0)' <=> Last(t, i, n + 1, 0) \/ Last(t, i, n + 1, 1)
<1>1. \A j : For(t, j, i) => j \in Nat \ {0}
  BY ForIs
<1>2. \A j : For(t, j, i)' => j \in Nat \ {0}
  <2>1. ASSUME NEW j, For(t, j, i)' PROVE j \in Nat \ {0}
    BY <2>1 DEF For, Up, Fetched
  <2>. QED  BY <2>1
<1>3. \A j \in Nat \ {0} : For(t, j, i)' <=> For(t, j + 1, i)
  BY ForFetched
<1>4. n \in Nat
  BY DEF Fetched
<1>5. ASSUME NEW k \in Nat
      PROVE  (\A j : For(t, j, i)' /\ j <= n => j <= k)
                <=> (\A j : For(t, j, i) /\ j <= n + 1 => j <= k + 1)
  <2>1. ASSUME \A j : For(t, j, i)' /\ j <= n => j <= k, NEW j, For(t, j, i), j <= n + 1
        PROVE  j <= k + 1
    <3>1. j \in Nat \ {0}
      BY <1>1, <2>1
    <3>2. CASE j = 1
      BY <3>2
    <3>3. CASE j # 1
      <4>1. PICK g : g = j - 1
        OBVIOUS
      <4>2. g \in Nat \ {0} /\ g + 1 = j /\ g <= n
        BY <3>1, <3>3, <4>1, <1>4, <2>1
      <4>3. For(t, g, i)'
        BY <1>3, <2>1, <4>2
      <4>4. g <= k
        BY <2>1, <4>2, <4>3
      <4>. QED  BY <4>2, <4>4
    <3>. QED  BY <3>2, <3>3
  <2>2. ASSUME \A j : For(t, j, i) /\ j <= n + 1 => j <= k + 1, NEW j, For(t, j, i)', j <= n
        PROVE  j <= k
    <3>1. j \in Nat \ {0}
      BY <1>2, <2>2
    <3>2. For(t, j + 1, i) /\ j + 1 <= n + 1
      BY <1>3, <1>4, <2>2, <3>1
    <3>3. j + 1 <= k + 1
      BY <2>2, <3>2
    <3>. QED  BY <3>1, <3>3
  <2>. QED  BY <2>1, <2>2
<1>6. ASSUME NEW k \in Nat \ {0}
      PROVE  Last(t, i, n, k)' <=> Last(t, i, n + 1, k + 1)
  <2>1. k \in 0 .. n <=> k + 1 \in 0 .. n + 1
    BY <1>4
  <2>2. k # 0 /\ k + 1 # 0
    OBVIOUS
  <2>. QED  BY <1>3, <1>5, <2>1, <2>2 DEF Last
<1>7. Last(t, i, n, 0)' <=> Last(t, i, n + 1, 0) \/ Last(t, i, n + 1, 1)
  <2>1. Last(t, i, n, 0)' <=> \A j : For(t, j, i) /\ j <= n + 1 => j <= 0 + 1
    BY <1>4, <1>5 DEF Last
  <2>2. Last(t, i, n + 1, 0) <=> \A j : For(t, j, i) /\ j <= n + 1 => j <= 0
    BY <1>4 DEF Last
  <2>3. Last(t, i, n + 1, 1) <=> For(t, 1, i) /\ \A j : For(t, j, i) /\ j <= n + 1 => j <= 1
    BY <1>4 DEF Last
  <2>4. \A j \in Nat \ {0} : (j <= 0 + 1 <=> j = 1) /\ (j <= 1 <=> j = 1) /\ ~(j <= 0)
    OBVIOUS
  <2>. QED  BY <1>1, <2>1, <2>2, <2>3, <2>4
<1>. QED  BY <1>6, <1>7

\* What the row will say: as before, but for a packet about it.
Tells(m, t, i) == m.type = t /\ m.iid = i

LEMMA WornSent ==
    ASSUME TypesInv, TypesInv', NEW m, Sent(m), UNCHANGED rows, NEW i, NEW n \in 0 .. Len(s2d)
    PROVE  WornAt(i, n)' <=> WornAt(i, n)
<1>1. \A k : Last("S2D_UPDATEITEMINFO", i, n, k)' <=> Last("S2D_UPDATEITEMINFO", i, n, k)
  BY LastSent
<1>2. \A k : Last("S2D_UPDATEITEMINFO", i, n, k) => k = 0 \/ s2d'[k] = s2d[k]
  BY DEF Last, Sent
<1>. QED  BY <1>1, <1>2 DEF WornAt

LEMMA WornOther ==
    ASSUME TypesInv, TypesInv', NEW m, Sent(m), UNCHANGED rows, NEW i,
           ~Tells(m, "S2D_UPDATEITEMINFO", i)
    PROVE  WornEver(i)' <=> WornEver(i)
<1>1. PICK n, e : n = Len(s2d) /\ e = Len(s2d') /\ e = n + 1
  BY DEF Sent
<1>2. \A k : Last("S2D_UPDATEITEMINFO", i, e, k)' <=> Last("S2D_UPDATEITEMINFO", i, n, k)
  BY <1>1, LastOther DEF Tells
<1>3. \A k : Last("S2D_UPDATEITEMINFO", i, n, k) => k = 0 \/ s2d'[k] = s2d[k]
  BY <1>1 DEF Last, Sent
<1>4. WornAt(i, e)' <=> WornAt(i, n)
  BY <1>2, <1>3 DEF WornAt
<1>. QED  BY <1>1, <1>4 DEF WornEver

LEMMA WornNew ==
    ASSUME TypesInv, NEW m, Sent(m), NEW i, Tells(m, "S2D_UPDATEITEMINFO", i)
    PROVE  WornEver(i)' <=> m.worn
<1>1. PICK n : n = Len(s2d) + 1 /\ n = Len(s2d') /\ n # 0 /\ s2d'[n] = m
  BY DEF Sent
<1>2. \A k : Last("S2D_UPDATEITEMINFO", i, n, k)' <=> k = n
  BY <1>1, LastNew DEF Tells
<1>3. WornAt(i, n)' <=> m.worn
  BY <1>1, <1>2 DEF WornAt
<1>. QED  BY <1>1, <1>3 DEF WornEver

LEMMA WornFetched ==
    ASSUME TypesInv, Fetched, NEW i,
           Tells(s2d[1], "S2D_UPDATEITEMINFO", i) => rows'[i].worn = s2d[1].worn,
           ~Tells(s2d[1], "S2D_UPDATEITEMINFO", i) => rows'[i].worn = rows[i].worn,
           NEW n \in 0 .. Len(s2d) - 1
    PROVE  WornAt(i, n)' <=> WornAt(i, n + 1)
<1>. DEFINE t == "S2D_UPDATEITEMINFO"
<1>1. /\ \A k \in Nat \ {0} : Last(t, i, n, k)' <=> Last(t, i, n + 1, k + 1)
      /\ Last(t, i, n, 0)' <=> Last(t, i, n + 1, 0) \/ Last(t, i, n + 1, 1)
  BY LastFetched
<1>2. n \in Nat /\ 1 \in DOMAIN s2d
  BY DEF Fetched
<1>3. For(t, 1, i) <=> Tells(s2d[1], t, i)
  BY <1>2 DEF For, Up, Tells
<1>4. Last(t, i, n + 1, 1) => Tells(s2d[1], t, i)
  BY <1>3 DEF Last
<1>5. Last(t, i, n + 1, 0) => ~Tells(s2d[1], t, i)
  BY <1>2, <1>3 DEF Last
<1>6. \A k \in Nat \ {0} : k <= n => s2d'[k] = s2d[k + 1]
  BY DEF Fetched
<1>7. ASSUME WornAt(i, n)' PROVE WornAt(i, n + 1)
  <2>1. PICK k : Last(t, i, n, k)' /\ (k = 0 => rows'[i].worn) /\ (k # 0 => s2d'[k].worn)
    BY <1>7 DEF WornAt
  <2>2. k = 0 \/ (k \in Nat \ {0} /\ k <= n)
    BY <1>2, <2>1 DEF Last
  <2>3. CASE k = 0
    <3>1. Last(t, i, n + 1, 0) \/ Last(t, i, n + 1, 1)
      BY <1>1, <2>1, <2>3
    <3>2. ASSUME Last(t, i, n + 1, 0) PROVE rows[i].worn
      BY <1>5, <2>1, <2>3, <3>2
    <3>3. ASSUME Last(t, i, n + 1, 1) PROVE s2d[1].worn
      BY <1>4, <2>1, <2>3, <3>3
    <3>. QED  BY <3>1, <3>2, <3>3 DEF WornAt
  <2>4. CASE k \in Nat \ {0} /\ k <= n
    <3>1. k # 0 /\ k + 1 # 0
      BY <2>4
    <3>2. Last(t, i, n + 1, k + 1)
      BY <1>1, <2>1, <2>4
    <3>3. s2d'[k] = s2d[k + 1] /\ s2d'[k].worn
      BY <1>6, <2>1, <2>4, <3>1
    <3>. QED  BY <3>1, <3>2, <3>3 DEF WornAt
  <2>. QED  BY <2>2, <2>3, <2>4
<1>8. ASSUME WornAt(i, n + 1) PROVE WornAt(i, n)'
  <2>1. PICK k : Last(t, i, n + 1, k) /\ (k = 0 => rows[i].worn) /\ (k # 0 => s2d[k].worn)
    BY <1>8 DEF WornAt
  <2>2. PICK g : g = k - 1
    OBVIOUS
  <2>3. k = 0 \/ k = 1 \/ (g \in Nat \ {0} /\ g + 1 = k /\ g <= n)
    BY <1>2, <2>1, <2>2 DEF Last
  <2>4. CASE k = 0 \/ k = 1
    <3>1. Last(t, i, n, 0)'
      BY <1>1, <2>1, <2>4
    <3>2. rows'[i].worn
      BY <1>4, <1>5, <2>1, <2>4
    <3>. QED  BY <3>1, <3>2 DEF WornAt
  <2>5. CASE g \in Nat \ {0} /\ g + 1 = k /\ g <= n
    <3>1. k # 0 /\ g # 0
      BY <2>5
    <3>2. Last(t, i, n, g)'
      BY <1>1, <2>1, <2>5
    <3>3. s2d'[g] = s2d[k] /\ s2d[k].worn
      BY <1>6, <2>1, <2>5, <3>1
    <3>. QED  BY <3>1, <3>2, <3>3 DEF WornAt
  <2>. QED  BY <2>3, <2>4, <2>5
<1>. QED  BY <1>7, <1>8

LEMMA NumOther ==
    ASSUME TypesInv, TypesInv', NEW m, Sent(m), UNCHANGED rows, NEW i, NEW v, NumIs(i, v),
           ~Tells(m, "S2D_UPDATEITEMNUM", i)
    PROVE  NumIs(i, v)'
<1>1. PICK n, e : n = Len(s2d) /\ e = Len(s2d') /\ e = n + 1
  BY DEF Sent
<1>2. \A k : Last("S2D_UPDATEITEMNUM", i, e, k)' <=> Last("S2D_UPDATEITEMNUM", i, n, k)
  BY <1>1, LastOther DEF Tells
<1>3. \A k : Last("S2D_UPDATEITEMNUM", i, n, k) => k = 0 \/ s2d'[k] = s2d[k]
  BY <1>1 DEF Last, Sent
<1>. QED  BY <1>1, <1>2, <1>3 DEF NumIs

LEMMA NumNew ==
    ASSUME TypesInv, NEW m, Sent(m), NEW i, Tells(m, "S2D_UPDATEITEMNUM", i)
    PROVE  NumIs(i, m.num)'
<1>1. PICK n : n = Len(s2d) + 1 /\ n = Len(s2d') /\ n # 0 /\ s2d'[n] = m
  BY DEF Sent
<1>2. Last("S2D_UPDATEITEMNUM", i, n, n)'
  BY <1>1, LastNew DEF Tells
<1>. QED  BY <1>1, <1>2 DEF NumIs

LEMMA NumFetched ==
    ASSUME TypesInv, Fetched, NEW i, NEW v, NumIs(i, v),
           Tells(s2d[1], "S2D_UPDATEITEMNUM", i) => rows'[i].num = s2d[1].num,
           ~Tells(s2d[1], "S2D_UPDATEITEMNUM", i) => rows'[i].num = rows[i].num
    PROVE  NumIs(i, v)'
<1>. DEFINE t == "S2D_UPDATEITEMNUM"
<1>1. PICK n \in 0 .. Len(s2d) - 1 : n = Len(s2d') /\ n + 1 = Len(s2d)
  BY DEF Fetched
<1>2. /\ \A k \in Nat \ {0} : Last(t, i, n, k)' <=> Last(t, i, n + 1, k + 1)
      /\ Last(t, i, n, 0)' <=> Last(t, i, n + 1, 0) \/ Last(t, i, n + 1, 1)
  BY LastFetched
<1>3. n \in Nat /\ 1 \in DOMAIN s2d
  BY <1>1 DEF Fetched
<1>4. For(t, 1, i) <=> Tells(s2d[1], t, i)
  BY <1>3 DEF For, Up, Tells
<1>5. \A k \in Nat \ {0} : k <= n => s2d'[k] = s2d[k + 1]
  BY DEF Fetched
<1>6. PICK k : Last(t, i, n + 1, k) /\ (k = 0 => rows[i].num = v) /\ (k # 0 => s2d[k].num = v)
  BY <1>1 DEF NumIs
<1>7. PICK g : g = k - 1
  OBVIOUS
<1>8. k = 0 \/ k = 1 \/ (g \in Nat \ {0} /\ g + 1 = k /\ g <= n)
  BY <1>3, <1>6, <1>7 DEF Last
<1>9. CASE k = 0 \/ k = 1
  <2>1. Last(t, i, n, 0)'
    BY <1>2, <1>6, <1>9
  <2>2. k = 1 => Tells(s2d[1], t, i)
    BY <1>4, <1>6 DEF Last
  <2>3. k = 0 => ~Tells(s2d[1], t, i)
    BY <1>3, <1>4, <1>6 DEF Last
  <2>4. rows'[i].num = v
    BY <1>6, <1>9, <2>2, <2>3
  <2>. QED  BY <1>1, <2>1, <2>4 DEF NumIs
<1>10. CASE g \in Nat \ {0} /\ g + 1 = k /\ g <= n
  <2>1. k # 0 /\ g # 0
    BY <1>10
  <2>2. Last(t, i, n, g)'
    BY <1>2, <1>6, <1>10
  <2>3. s2d'[g] = s2d[k] /\ s2d[k].num = v
    BY <1>5, <1>6, <1>10, <2>1
  <2>. QED  BY <1>1, <2>1, <2>2, <2>3 DEF NumIs
<1>. QED  BY <1>8, <1>9, <1>10

\* Nothing is about the row.
LEMMA NoneLast ==
    ASSUME NEW t, NEW i, \A k : ~For(t, k, i), NEW n \in Nat, NEW k
    PROVE  Last(t, i, n, k) <=> k = 0
  BY DEF Last

LEMMA AsInRow ==
    ASSUME TypesInv, NEW i, \A k : ~For("S2D_UPDATEITEMNUM", k, i) /\ ~For("S2D_UPDATEITEMINFO", k, i)
    PROVE  /\ NumIs(i, rows[i].num)
           /\ \A n \in 0 .. Len(s2d) : WornAt(i, n) <=> rows[i].worn
           /\ WornEver(i) <=> rows[i].worn
<1>1. PICK e \in Nat : e = Len(s2d)
  BY DEF TypesInv
<1>2. Last("S2D_UPDATEITEMNUM", i, e, 0)
  BY NoneLast
<1>3. NumIs(i, rows[i].num)
  BY <1>1, <1>2 DEF NumIs
<1>4. ASSUME NEW n \in 0 .. e PROVE WornAt(i, n) <=> rows[i].worn
  <2>1. n \in Nat
    OBVIOUS
  <2>2. \A k : Last("S2D_UPDATEITEMINFO", i, n, k) <=> k = 0
    BY <2>1, NoneLast
  <2>. QED  BY <2>2 DEF WornAt
<1>5. e \in 0 .. e
  OBVIOUS
<1>. QED  BY <1>1, <1>3, <1>4, <1>5 DEF WornEver

LEMMA UnnamedFor ==
    ASSUME NEW i, Unnamed(i)
    PROVE  \A t \in Naming : \A k : ~For(t, k, i)
  BY DEF Unnamed, Names, For, Up

LEMMA QuietFor ==
    ASSUME \A j : Quiet(j)
    PROVE  \A t \in Naming : \A k, i : ~For(t, k, i)
  BY DEF Quiet, For, Up, Naming

LEMMA SameRowSaid ==
    ASSUME UNCHANGED s2d, NEW i, rows'[i] = rows[i]
    PROVE  /\ \A v : NumIs(i, v)' <=> NumIs(i, v)
           /\ \A n : WornAt(i, n)' <=> WornAt(i, n)
           /\ WornEver(i)' <=> WornEver(i)
<1>1. \A t, k : For(t, k, i)' <=> For(t, k, i)
  BY DEF For, Up
<1>2. \A t, n, k : Last(t, i, n, k)' <=> Last(t, i, n, k)
  BY <1>1 DEF Last
<1>3. ASSUME NEW n PROVE WornAt(i, n)' <=> WornAt(i, n)
  BY <1>2 DEF WornAt
<1>4. ASSUME NEW v PROVE NumIs(i, v)' <=> NumIs(i, v)
  BY <1>2 DEF NumIs
<1>. QED  BY <1>3, <1>4 DEF WornEver

SaidKept(x) == /\ \A v : NumIs(x, v) => NumIs(x, v)'
               /\ WornEver(x)' <=> WornEver(x)

LEMMA SentSaid ==
    ASSUME TypesInv, TypesInv', NEW m, Sent(m), UNCHANGED rows, NEW x,
           ~Tells(m, "S2D_UPDATEITEMNUM", x), ~Tells(m, "S2D_UPDATEITEMINFO", x)
    PROVE  SaidKept(x)
  BY NumOther, WornOther DEF SaidKept

LEMMA FetchedSaid ==
    ASSUME TypesInv, Fetched, NEW x,
           Tells(s2d[1], "S2D_UPDATEITEMNUM", x) => rows'[x].num = s2d[1].num,
           ~Tells(s2d[1], "S2D_UPDATEITEMNUM", x) => rows'[x].num = rows[x].num,
           Tells(s2d[1], "S2D_UPDATEITEMINFO", x) => rows'[x].worn = s2d[1].worn,
           ~Tells(s2d[1], "S2D_UPDATEITEMINFO", x) => rows'[x].worn = rows[x].worn
    PROVE  SaidKept(x)
<1>1. \A v : NumIs(x, v) => NumIs(x, v)'
  BY NumFetched
<1>2. PICK n, e : n \in 0 .. Len(s2d) - 1 /\ n = Len(s2d') /\ e = Len(s2d) /\ e = n + 1
  BY DEF Fetched
<1>3. WornAt(x, n)' <=> WornAt(x, n + 1)
  BY <1>2, WornFetched
<1>4. WornEver(x)' <=> WornEver(x)
  BY <1>2, <1>3 DEF WornEver
<1>. QED  BY <1>1, <1>4 DEF SaidKept

LEMMA ChangeSent ==
    ASSUME NEW k, ItemChanges(k)
    PROVE  \E m : Sent(m) /\ m.iid = bag.items[k].iid
<1>1. ASSUME NEW n, AddsTo(k, n) PROVE \E m : Sent(m) /\ m.iid = bag.items[k].iid
  <2>1. PICK m : m = [type |-> "S2D_UPDATEITEMNUM", iid |-> bag.items[k].iid, num |-> n]
    OBVIOUS
  <2>2. Sent(m)
    BY <1>1, <2>1 DEF AddsTo
  <2>3. m.iid = bag.items[k].iid
    BY <2>1
  <2>. QED  BY <2>2, <2>3
<1>2. ASSUME NEW w \in BOOLEAN,
             Sent([type |-> "S2D_UPDATEITEMINFO", iid |-> bag.items[k].iid, worn |-> w])
      PROVE  \E m : Sent(m) /\ m.iid = bag.items[k].iid
  <2>1. PICK m : m = [type |-> "S2D_UPDATEITEMINFO", iid |-> bag.items[k].iid, worn |-> w]
    OBVIOUS
  <2>2. m.iid = bag.items[k].iid
    BY <2>1
  <2>. QED  BY <1>2, <2>1, <2>2
<1>3. CASE PutsOn(k)
  BY <1>2, <1>3 DEF PutsOn
<1>4. CASE PutsOff(k)
  BY <1>2, <1>4 DEF PutsOff
<1>. QED  BY <1>1, <1>3, <1>4 DEF ItemChanges

\* What a row will say, once the link is read, changes with a handler that says so.
LEMMA RowSaid ==
    ASSUME TypesInv, TypesInv', RowNumbers, Step, NEW x \in DOMAIN rows, x \in DOMAIN rows',
           conn'
    PROVE  SaidKept(x) \/ \E k : ItemChanges(k) /\ bag.items[k].iid = x
<1>1. CASE LifeStep
  <2>1. CASE UNCHANGED vars
    <3>1. UNCHANGED <<s2d, rows>>
      BY <2>1 DEF vars, game, history
    <3>. QED  BY <3>1, SameRowSaid DEF SaidKept
  <2>2. CASE Connects
    <3>1. ~Tells([type |-> "S2D_PLAYERS", uid |-> uid + 1], "S2D_UPDATEITEMNUM", x) /\ ~Tells([type |-> "S2D_PLAYERS", uid |-> uid + 1], "S2D_UPDATEITEMINFO", x)
      BY DEF Tells
    <3>2. Sent([type |-> "S2D_PLAYERS", uid |-> uid + 1]) /\ UNCHANGED rows
      BY <2>2 DEF Connects
    <3>. QED  BY <3>1, <3>2, SentSaid
  <2>3. CASE Asks
    <3>1. ~Tells([type |-> "S2D_PLAYERS", uid |-> uid], "S2D_UPDATEITEMNUM", x) /\ ~Tells([type |-> "S2D_PLAYERS", uid |-> uid], "S2D_UPDATEITEMINFO", x)
      BY DEF Tells
    <3>2. Sent([type |-> "S2D_PLAYERS", uid |-> uid]) /\ UNCHANGED rows
      BY <2>3 DEF Asks, game, history
    <3>. QED  BY <3>1, <3>2, SentSaid
  <2>4. CASE \E p \in Pids \cup {NoPid} : AsksLoad(p)
    <3>0. PICK p \in Pids \cup {NoPid} : AsksLoad(p)
      BY <2>4
    <3>1. ~Tells([type |-> "S2D_LOADPLAYER", uid |-> uid, pid |-> p], "S2D_UPDATEITEMNUM", x) /\ ~Tells([type |-> "S2D_LOADPLAYER", uid |-> uid, pid |-> p], "S2D_UPDATEITEMINFO", x)
      BY DEF Tells
    <3>2. Sent([type |-> "S2D_LOADPLAYER", uid |-> uid, pid |-> p]) /\ UNCHANGED rows
      BY <3>0 DEF AsksLoad
    <3>. QED  BY <3>1, <3>2, SentSaid
  <2>5. CASE Starts
    <3>1. UNCHANGED <<s2d, rows>>
      BY <2>5 DEF Starts, game, history
    <3>. QED  BY <3>1, SameRowSaid DEF SaidKept
  <2>6. CASE Restarts
    <3>1. ~Tells([type |-> "S2D_PLAYERS", uid |-> uid], "S2D_UPDATEITEMNUM", x) /\ ~Tells([type |-> "S2D_PLAYERS", uid |-> uid], "S2D_UPDATEITEMINFO", x)
      BY DEF Tells
    <3>2. Sent([type |-> "S2D_PLAYERS", uid |-> uid]) /\ UNCHANGED rows
      BY <2>6 DEF Restarts, game, history
    <3>. QED  BY <3>1, <3>2, SentSaid
  <2>7. CASE OnDisconnected
    BY <2>7 DEF OnDisconnected
  <2>8. CASE Crash
    BY <2>8 DEF Crash
  <2>. QED  BY <1>1, <2>1, <2>2, <2>3, <2>4, <2>5, <2>6, <2>7, <2>8 DEF LifeStep
<1>2. CASE ItemStep
  <2>1. CASE \E l, n : AddsTo(l, n)
    <3>1. PICK k : ItemChanges(k)
      BY <2>1 DEF ItemChanges
    <3>2. CASE bag.items[k].iid = x
      BY <3>1, <3>2
    <3>3. CASE bag.items[k].iid # x
      <4>1. PICK m : Sent(m) /\ m.iid = bag.items[k].iid
        BY <3>1, ChangeSent
      <4>2. UNCHANGED rows
        BY <3>1, ChangesItem DEF ChangedOne
      <4>. QED  BY <3>3, <4>1, <4>2, SentSaid DEF Tells
    <3>. QED  BY <3>2, <3>3
  <2>2. CASE \E i \in Indexes : GotNew(i) /\ conn /\ pid # NoPid
    <3>0. PICK i \in Indexes : GotNew(i)
      BY <2>2
    <3>1. ~Tells([type |-> "S2D_INSERTITEM", uid |-> uid, local |-> nextLocal + 1, pid |-> pid,
                   index |-> i, num |-> 1], "S2D_UPDATEITEMNUM", x) /\ ~Tells([type |-> "S2D_INSERTITEM", uid |-> uid, local |-> nextLocal + 1, pid |-> pid,
                   index |-> i, num |-> 1], "S2D_UPDATEITEMINFO", x)
      BY DEF Tells
    <3>2. Sent([type |-> "S2D_INSERTITEM", uid |-> uid, local |-> nextLocal + 1, pid |-> pid,
                   index |-> i, num |-> 1]) /\ UNCHANGED rows
      BY <3>0 DEF GotNew
    <3>. QED  BY <3>1, <3>2, SentSaid
  <2>3. CASE \E l : Trashes(l)
    <3>1. PICK k : Trashes(k)
      BY <2>3
    <3>2. ~Tells([type |-> "S2D_TRASHITEM", iid |-> bag.items[k].iid], "S2D_UPDATEITEMNUM", x)
          /\ ~Tells([type |-> "S2D_TRASHITEM", iid |-> bag.items[k].iid], "S2D_UPDATEITEMINFO", x)
      BY DEF Tells
    <3>3. Sent([type |-> "S2D_TRASHITEM", iid |-> bag.items[k].iid]) /\ UNCHANGED rows
      BY <3>1 DEF Trashes, ChangedOne
    <3>. QED  BY <3>2, <3>3, SentSaid
  <2>4. CASE \E l : PutsOn(l)
    <3>1. PICK k : ItemChanges(k)
      BY <2>4 DEF ItemChanges
    <3>2. CASE bag.items[k].iid = x
      BY <3>1, <3>2
    <3>3. CASE bag.items[k].iid # x
      <4>1. PICK m : Sent(m) /\ m.iid = bag.items[k].iid
        BY <3>1, ChangeSent
      <4>2. UNCHANGED rows
        BY <3>1, ChangesItem DEF ChangedOne
      <4>. QED  BY <3>3, <4>1, <4>2, SentSaid DEF Tells
    <3>. QED  BY <3>2, <3>3
  <2>5. CASE \E l : PutsOff(l)
    <3>1. PICK k : ItemChanges(k)
      BY <2>5 DEF ItemChanges
    <3>2. CASE bag.items[k].iid = x
      BY <3>1, <3>2
    <3>3. CASE bag.items[k].iid # x
      <4>1. PICK m : Sent(m) /\ m.iid = bag.items[k].iid
        BY <3>1, ChangeSent
      <4>2. UNCHANGED rows
        BY <3>1, ChangesItem DEF ChangedOne
      <4>. QED  BY <3>3, <4>1, <4>2, SentSaid DEF Tells
    <3>. QED  BY <3>2, <3>3
  <2>. QED  BY <1>2, <2>1, <2>2, <2>3, <2>4, <2>5 DEF ItemStep
<1>3. CASE DbStep
  <2>1. CASE Lists \/ Refuses
    <3>1. Fetched /\ rows' = rows /\ s2d[1].type \notin {"S2D_UPDATEITEMNUM", "S2D_UPDATEITEMINFO"}
      BY <2>1 DEF Lists, Refuses, Kind
    <3>2. ~Tells(s2d[1], "S2D_UPDATEITEMNUM", x) /\ ~Tells(s2d[1], "S2D_UPDATEITEMINFO", x)
      BY <3>1 DEF Tells
    <3>. QED  BY <3>1, <3>2, FetchedSaid
  <2>2. CASE \E sent : Reads(sent)
    <3>1. Fetched /\ rows' = rows /\ s2d[1].type \notin {"S2D_UPDATEITEMNUM", "S2D_UPDATEITEMINFO"}
      BY <2>2 DEF Reads, Kind
    <3>2. ~Tells(s2d[1], "S2D_UPDATEITEMNUM", x) /\ ~Tells(s2d[1], "S2D_UPDATEITEMINFO", x)
      BY <3>1 DEF Tells
    <3>. QED  BY <3>1, <3>2, FetchedSaid
  <2>3. CASE Inserts
    <3>1. Fetched /\ s2d[1].type \notin {"S2D_UPDATEITEMNUM", "S2D_UPDATEITEMINFO"}
      BY <2>3 DEF Inserts, Kind
    <3>2. ~Tells(s2d[1], "S2D_UPDATEITEMNUM", x) /\ ~Tells(s2d[1], "S2D_UPDATEITEMINFO", x)
      BY <3>1 DEF Tells
    <3>3. nextIid \in Nat
      BY DEF TypesInv
    <3>4. x # nextIid
      BY <3>3 DEF RowNumbers
    <3>5. rows'[x] = rows[x]
      BY <2>3, <3>4 DEF Inserts
    <3>. QED  BY <3>1, <3>2, <3>5, FetchedSaid
  <2>4. CASE SetsNum
    <3>1. Fetched /\ s2d[1].type = "S2D_UPDATEITEMNUM"
      BY <2>4 DEF SetsNum, Kind
    <3>2. ~Tells(s2d[1], "S2D_UPDATEITEMINFO", x) /\ (Tells(s2d[1], "S2D_UPDATEITEMNUM", x) <=> x = s2d[1].iid)
      BY <3>1 DEF Tells
    <3>3. rows'[x].worn = rows[x].worn /\ (x = s2d[1].iid => rows'[x].num = s2d[1].num)
           /\ (x # s2d[1].iid => rows'[x] = rows[x])
      BY <2>4 DEF SetsNum
    <3>. QED  BY <3>1, <3>2, <3>3, FetchedSaid
  <2>5. CASE SetsWorn
    <3>1. Fetched /\ s2d[1].type = "S2D_UPDATEITEMINFO"
      BY <2>5 DEF SetsWorn, Kind
    <3>2. ~Tells(s2d[1], "S2D_UPDATEITEMNUM", x) /\ (Tells(s2d[1], "S2D_UPDATEITEMINFO", x) <=> x = s2d[1].iid)
      BY <3>1 DEF Tells
    <3>3. rows'[x].num = rows[x].num /\ (x = s2d[1].iid => rows'[x].worn = s2d[1].worn)
           /\ (x # s2d[1].iid => rows'[x] = rows[x])
      BY <2>5 DEF SetsWorn
    <3>. QED  BY <3>1, <3>2, <3>3, FetchedSaid
  <2>6. CASE Deletes
    <3>1. Fetched /\ s2d[1].type \notin {"S2D_UPDATEITEMNUM", "S2D_UPDATEITEMINFO"}
      BY <2>6 DEF Deletes, Kind
    <3>2. ~Tells(s2d[1], "S2D_UPDATEITEMNUM", x) /\ ~Tells(s2d[1], "S2D_UPDATEITEMINFO", x)
      BY <3>1 DEF Tells
    <3>3. rows'[x] = rows[x]
      BY <2>6 DEF Deletes
    <3>. QED  BY <3>1, <3>2, <3>3, FetchedSaid
  <2>. QED  BY <1>3, <2>1, <2>2, <2>3, <2>4, <2>5, <2>6 DEF DbStep
<1>4. CASE ListenerStep
  <2>1. CASE Drops
    <3>1. UNCHANGED <<s2d, rows>>
      BY <2>1 DEF Drops, game, history
    <3>. QED  BY <3>1, SameRowSaid DEF SaidKept
  <2>2. CASE GetsPlayers
    <3>1. UNCHANGED <<s2d, rows>>
      BY <2>2 DEF GetsPlayers, Told, game, history
    <3>. QED  BY <3>1, SameRowSaid DEF SaidKept
  <2>3. CASE GetsPlayer \/ IsRefused
    <3>1. UNCHANGED <<s2d, rows>>
      BY <2>3 DEF GetsPlayer, IsRefused, Told, game, history
    <3>. QED  BY <3>1, SameRowSaid DEF SaidKept
  <2>4. CASE \E new, local, size : Loads(new, local, size)
    <3>1. UNCHANGED <<s2d, rows>>
      BY <2>4 DEF Loads, game, history
    <3>. QED  BY <3>1, SameRowSaid DEF SaidKept
  <2>5. CASE \E l, i : Learns(l, i)
    <3>1. UNCHANGED <<s2d, rows>>
      BY <2>5 DEF Learns, game, history
    <3>. QED  BY <3>1, SameRowSaid DEF SaidKept
  <2>. QED  BY <1>4, <2>1, <2>2, <2>3, <2>4, <2>5 DEF ListenerStep
<1>. QED  BY <1>1, <1>2, <1>3, <1>4 DEF Step

LEMMA UntrashedKept ==
    ASSUME TypesInv, Step, NEW x, Untrashed(x), \A k : Trashes(k) => bag.items[k].iid # x
    PROVE  Untrashed(x)'
<1>. SUFFICES ASSUME NEW k, For("S2D_TRASHITEM", k, x)' PROVE FALSE
  BY DEF Untrashed
<1>1. k \in DOMAIN s2d' /\ s2d'[k].type = "S2D_TRASHITEM" /\ s2d'[k].iid = x
  BY DEF For, Up
<1>2. UpOld({"S2D_TRASHITEM"}) \/ \E l : Trashes(l)
  BY OldUps
<1>3. CASE UpOld({"S2D_TRASHITEM"})
  <2>1. PICK j \in DOMAIN s2d : s2d'[k] = s2d[j]
    BY <1>1, <1>3, UpIsOld
  <2>. QED  BY <1>1, <2>1 DEF Untrashed, For, Up
<1>4. ASSUME NEW l, Trashes(l) PROVE FALSE
  <2>1. PICK m : m = [type |-> "S2D_TRASHITEM", iid |-> bag.items[l].iid]
    OBVIOUS
  <2>2. Sent(m) /\ m.iid # x
    BY <1>4, <2>1 DEF Trashes
  <2>3. k \in DOMAIN s2d
    BY <2>2, ForNew
  <2>. QED  BY <2>2, <2>3, ForSent DEF Untrashed
<1>. QED  BY <1>2, <1>3, <1>4

LEMMA UnnamedKept ==
    ASSUME TypesInv, Step, NEW x, Unnamed(x),
           \A k : Trashes(k) \/ ItemChanges(k) => bag.items[k].iid # x
    PROVE  Unnamed(x)'
<1>. SUFFICES ASSUME NEW k, Names(k, x)' PROVE FALSE
  BY DEF Unnamed
<1>1. k \in DOMAIN s2d' /\ s2d'[k].type \in Naming /\ s2d'[k].iid = x
  BY DEF Names
<1>2. UpOld(Naming) \/ \E l : Trashes(l) \/ ItemChanges(l)
  BY OldUps DEF Naming, ItemChanges
<1>3. CASE UpOld(Naming)
  <2>1. PICK j \in DOMAIN s2d : s2d'[k] = s2d[j]
    BY <1>1, <1>3, UpIsOld
  <2>. QED  BY <1>1, <2>1 DEF Unnamed, Names
<1>4. ASSUME NEW l, Trashes(l) \/ ItemChanges(l) PROVE FALSE
  <2>1. PICK m : Sent(m) /\ m.iid = bag.items[l].iid
    <3>1. CASE Trashes(l)
      <4>1. PICK m : m = [type |-> "S2D_TRASHITEM", iid |-> bag.items[l].iid]
        OBVIOUS
      <4>. QED  BY <3>1, <4>1 DEF Trashes
    <3>. QED  BY <1>4, <3>1, ChangeSent
  <2>2. m.iid # x
    BY <1>4, <2>1
  <2>3. k \in DOMAIN s2d \/ s2d'[k] = m
    BY <1>1, <2>1 DEF Sent
  <2>4. k \in DOMAIN s2d => s2d'[k] = s2d[k]
    BY <2>1 DEF Sent
  <2>. QED  BY <1>1, <2>2, <2>3, <2>4 DEF Unnamed, Names
<1>. QED  BY <1>2, <1>3, <1>4

\* An answer with items comes to an empty inventory, and has the rows of the player.
LEMMA LoadsWhen ==
    ASSUME LoadInv, ~mixed, NEW new, NEW local, NEW size, Loads(new, local, size)
    PROVE  /\ DOMAIN bag.items = {} /\ awaiting = 1
           /\ SameAsTable(d2s[1].rows) /\ RowsOf(pid) = DOMAIN d2s[1].rows
           /\ \A j : Quiet(j)
           /\ "INGAME" \notin roles \/ mixed'
<1>1. Answer(1)
  BY DEF Loads, Heard, Answer, Down
<1>2. awaiting = 1 /\ DOMAIN bag.items = {} /\ AnsweredOnce
  BY <1>1 DEF LoadInv, Unasked, Loads
<1>3. SameAsTable(d2s[1].rows) /\ AnswerPlace(1) /\ \A j : Quiet(j)
  <2>1. Down("D2S_LOADITEMS", 1)
    BY DEF Loads, Heard, Down
  <2>. QED  BY <1>1, <1>2, <2>1 DEF AnsweredOnce
<1>4. mixed' = (mixed \/ "INGAME" \in roles \/ DOMAIN bag.items # {})
  BY DEF Loads
<1>. QED  BY <1>2, <1>3, <1>4 DEF AnswerPlace

\* The item of an answer with an IID.
LEMMA LearnsWhen ==
    ASSUME AnswerAhead, NEW l \in DOMAIN bag.items, NEW i, Learns(l, i)
    PROVE  /\ i \in DOMAIN rows /\ rows[i].pid = pid /\ ~rows[i].worn /\ Unnamed(i)
           /\ \A k \in DOMAIN bag.items : bag.items[k].iid # i
           /\ l \notin lost => bag.items[l].num = rows[i].num /\ ~bag.items[l].worn
           /\ bag.items[l].iid = 0
<1>1. Down("D2S_UPDATEITEMIID", 1) /\ d2s[1].local = l /\ d2s[1].iid = i
  BY DEF Learns, Heard, Down
<1>. QED  BY <1>1 DEF AnswerAhead

\* While there are items, none are loaded.
LEMMA NotFetched ==
    ASSUME LoadInv, ~mixed, NEW k \in DOMAIN bag.items, NEW x
    PROVE  ~FetchedItem(x)
  BY LoadsWhen DEF FetchedItem

LEMMA RowKnownStep ==
    ASSUME TypesInv, TypesInv', NumbersInv, ConnInv, LoadInv, ItemsInv, Step, ~mixed'
    PROVE  RowKnown'
<1>1. ~mixed /\ RowKnown /\ AnswerAhead /\ RowNumbers /\ ItemsFollow
  BY MixedStays DEF ItemsInv, NumbersInv
<1>. SUFFICES ASSUME NEW l \in DOMAIN bag'.items, NEW y, y = bag'.items[l].iid, y # 0
              PROVE  /\ y \in DOMAIN rows' /\ rows'[y].pid = pid'
                     /\ Untrashed(y)'
                     /\ \A m \in DOMAIN bag'.items : bag'.items[m].iid = y => m = l
  BY DEF RowKnown
<1>2. pid' = pid
  BY <1>1, PidKept
<1>3. ASSUME l \in DOMAIN bag.items, bag.items[l].iid = y
      PROVE  /\ y \in DOMAIN rows' /\ rows'[y].pid = pid'
             /\ Untrashed(y)'
             /\ \A m \in DOMAIN bag'.items : bag'.items[m].iid = y => m = l
  <2>1. /\ y \in DOMAIN rows /\ rows[y].pid = pid /\ Untrashed(y)
        /\ \A m \in DOMAIN bag.items : bag.items[m].iid = y => m = l
    BY <1>1, <1>3 DEF RowKnown
  <2>2. y \in DOMAIN rows' /\ rows'[y].pid = pid'
    BY <1>1, <1>2, <2>1, RowStays
  <2>3. \A k : Trashes(k) => bag.items[k].iid # y
    BY <2>1 DEF Trashes, IsTrashed
  <2>4. Untrashed(y)'
    BY <2>1, <2>3, UntrashedKept
  <2>5. ASSUME NEW m \in DOMAIN bag'.items, bag'.items[m].iid = y
        PROVE  m = l
    <3>1. CASE SameItem(m) \/ ChangedItem(m)
      BY <2>1, <2>5, <3>1 DEF SameItem, ChangedItem
    <3>2. CASE LearntIid(m)
      BY SMTT(30), <1>1, <1>3, <2>5, <3>2, LearnsWhen DEF LearntIid
    <3>3. CASE FoundItem(m)
      BY <2>5, <3>3 DEF FoundItem, NewInfo
    <3>4. CASE FetchedItem(m)
      BY <1>1, <1>3, <3>4, NotFetched
    <3>. QED  BY <3>1, <3>2, <3>3, <3>4, ItemCases
  <2>. QED  BY <2>2, <2>4, <2>5
<1>4. CASE SameItem(l) \/ ChangedItem(l)
  BY <1>3, <1>4 DEF SameItem, ChangedItem
<1>5. CASE LearntIid(l)
  <2>1. PICK i : Learns(l, i) /\ l \in DOMAIN bag.items /\ i = y
    BY <1>5 DEF LearntIid
  <2>2. /\ y \in DOMAIN rows /\ rows[y].pid = pid /\ Unnamed(y)
        /\ \A k \in DOMAIN bag.items : bag.items[k].iid # y
    BY <1>1, <2>1, LearnsWhen
  <2>3. rows' = rows /\ s2d' = s2d
    BY <2>1 DEF Learns
  <2>4. Untrashed(y)
    BY <2>2 DEF Unnamed, Untrashed, Names, For, Up, Naming
  <2>5. Untrashed(y)'
    BY <2>3, <2>4 DEF Untrashed, For, Up
  <2>6. \A m \in DOMAIN bag'.items : bag'.items[m].iid = y => m = l
    BY <2>1, <2>2, LearntItem
  <2>. QED  BY <1>2, <2>2, <2>3, <2>5, <2>6
<1>6. CASE FoundItem(l)
  BY <1>6 DEF FoundItem, NewInfo
<1>7. CASE FetchedItem(l)
  <2>1. PICK new, local, size : Loads(new, local, size) /\ l \in DOMAIN new /\ bag'.items[l] = new[l]
    BY <1>7 DEF FetchedItem
  <2>2. /\ SameAsTable(d2s[1].rows) /\ RowsOf(pid) = DOMAIN d2s[1].rows
        /\ \A j : Quiet(j) /\ DOMAIN bag.items = {}
    BY <1>1, <2>1, LoadsWhen
  <2>3. \A k \in DOMAIN new : \E i \in DOMAIN d2s[1].rows :
           k = local[i] /\ new[k] = AsItem(i, d2s[1].rows[i])
    BY <2>1, BroughtItem
  <2>4. \A k \in DOMAIN new : new[k].iid \in DOMAIN d2s[1].rows /\ k = local[new[k].iid]
    BY <2>3 DEF AsItem
  <2>5. y \in DOMAIN rows /\ rows[y].pid = pid
    BY <2>1, <2>2, <2>4 DEF RowsOf
  <2>6. rows' = rows /\ s2d' = s2d
    BY <2>1 DEF Loads
  <2>7. Untrashed(y)'
    BY <2>2, <2>6, QuietFor DEF Untrashed, For, Up, Naming
  <2>8. \A m \in DOMAIN bag'.items : m \in DOMAIN new /\ bag'.items[m] = new[m]
    BY <2>1, <2>2, LoadedItem
  <2>9. \A m \in DOMAIN bag'.items : bag'.items[m].iid = y => m = l
    BY <2>1, <2>4, <2>8
  <2>. QED  BY <1>2, <2>5, <2>6, <2>7, <2>9
<1>. QED  BY <1>4, <1>5, <1>6, <1>7, ItemCases

\* A handler that changes an item says so of its row.
LEMMA ChangeFollows ==
    ASSUME TypesInv, TypesInv', NEW l, ItemChanges(l), NEW y, y = bag.items[l].iid,
           NEW v, v = bag'.items[l].num, NEW w, w = bag'.items[l].worn,
           NumIs(y, bag.items[l].num), WornEver(y) <=> bag.items[l].worn
    PROVE  NumIs(y, v)' /\ (WornEver(y)' <=> w)
<1>1. bag.items[l] \in Info /\ l \in DOMAIN bag.items
  BY ChangesItem, ItemTypes DEF TypesInv
<1>2. UNCHANGED rows
  BY ChangesItem DEF ChangedOne
<1>3. ASSUME NEW n, AddsTo(l, n)
      PROVE  NumIs(y, v)' /\ (WornEver(y)' <=> w)
  <2>1. PICK m : m = [type |-> "S2D_UPDATEITEMNUM", iid |-> y, num |-> n]
    OBVIOUS
  <2>2. Sent(m)
    BY <1>3, <2>1 DEF AddsTo
  <2>3. Tells(m, "S2D_UPDATEITEMNUM", y) /\ ~Tells(m, "S2D_UPDATEITEMINFO", y) /\ m.num = n
    BY <2>1 DEF Tells
  <2>4. v = n /\ w = bag.items[l].worn
    BY <1>1, <1>3 DEF AddsTo, Replaces, Info
  <2>5. NumIs(y, n)'
    BY <2>2, <2>3, NumNew
  <2>6. WornEver(y)' <=> WornEver(y)
    BY <1>2, <2>2, <2>3, WornOther
  <2>. QED  BY <2>4, <2>5, <2>6
<1>4. ASSUME NEW b \in BOOLEAN, PutsOn(l) \/ PutsOff(l),
             Sent([type |-> "S2D_UPDATEITEMINFO", iid |-> bag.items[l].iid, worn |-> b]),
             Replaces(bag', bag, l, [bag.items[l] EXCEPT !.worn = b])
      PROVE  NumIs(y, v)' /\ (WornEver(y)' <=> w)
  <2>1. PICK m : m = [type |-> "S2D_UPDATEITEMINFO", iid |-> y, worn |-> b]
    OBVIOUS
  <2>2. Sent(m)
    BY <1>4, <2>1
  <2>3. Tells(m, "S2D_UPDATEITEMINFO", y) /\ ~Tells(m, "S2D_UPDATEITEMNUM", y) /\ m.worn = b
    BY <2>1 DEF Tells
  <2>4. v = bag.items[l].num /\ w = b
    BY <1>1, <1>4 DEF Replaces, Info
  <2>5. WornEver(y)' <=> b
    BY <2>2, <2>3, WornNew
  <2>6. NumIs(y, bag.items[l].num)'
    BY <1>2, <2>2, <2>3, <2>4, NumOther
  <2>. QED  BY <2>4, <2>5, <2>6
<1>5. CASE PutsOn(l)
  <2>1. /\ Sent([type |-> "S2D_UPDATEITEMINFO", iid |-> bag.items[l].iid, worn |-> TRUE])
        /\ Replaces(bag', bag, l, [bag.items[l] EXCEPT !.worn = TRUE])
    BY <1>5 DEF PutsOn, IsPutOn
  <2>. QED  BY <1>4, <1>5, <2>1
<1>6. CASE PutsOff(l)
  <2>1. /\ Sent([type |-> "S2D_UPDATEITEMINFO", iid |-> bag.items[l].iid, worn |-> FALSE])
        /\ Replaces(bag', bag, l, [bag.items[l] EXCEPT !.worn = FALSE])
    BY <1>6 DEF PutsOff, IsPutOff
  <2>. QED  BY <1>4, <1>6, <2>1
<1>. QED  BY <1>3, <1>5, <1>6 DEF ItemChanges

LEMMA RowFollowsStep ==
    ASSUME TypesInv, TypesInv', NumbersInv, ConnInv, LoadInv, ItemsInv, Step, ~mixed'
    PROVE  RowFollows'
<1>1. ~mixed /\ RowKnown /\ RowFollows /\ AnswerAhead /\ RowNumbers /\ ItemsFollow
  BY MixedStays DEF ItemsInv, NumbersInv
<1>. SUFFICES ASSUME NEW l \in DOMAIN bag'.items, NEW y, y = bag'.items[l].iid, y # 0,
                     l \notin lost', NEW v, v = bag'.items[l].num, NEW w, w = bag'.items[l].worn
              PROVE  NumIs(y, v)' /\ (WornEver(y)' <=> w)
  BY DEF RowFollows
<1>2. l \notin lost
  BY LostStays
<1>3. ASSUME l \in DOMAIN bag.items, bag.items[l].iid = y
      PROVE  /\ NumIs(y, bag.items[l].num) /\ (WornEver(y) <=> bag.items[l].worn)
             /\ SaidKept(y) \/ ItemChanges(l)
  <2>1. /\ y \in DOMAIN rows /\ Untrashed(y)
        /\ \A m \in DOMAIN bag.items : bag.items[m].iid = y => m = l
    BY <1>1, <1>3 DEF RowKnown
  <2>2. SaidKept(y) \/ \E k : ItemChanges(k) /\ bag.items[k].iid = y
    <3>1. y \in DOMAIN rows'
      BY <1>1, <2>1, RowStays
    <3>2. conn'
      BY <1>1, PidKept
    <3>. QED  BY <1>1, <2>1, <3>1, <3>2, RowSaid
  <2>3. SaidKept(y) \/ ItemChanges(l)
    BY <2>1, <2>2, ChangesItem
  <2>. QED  BY <1>1, <1>2, <1>3, <2>3 DEF RowFollows
<1>4. CASE l \in DOMAIN bag.items /\ ItemChanges(l)
  <2>1. bag.items[l].iid = y
    BY <1>4, ChangesItem
  <2>. QED  BY <1>3, <1>4, <2>1, ChangeFollows
<1>5. CASE SameItem(l) /\ ~ItemChanges(l)
  <2>1. l \in DOMAIN bag.items /\ bag.items[l].iid = y /\ v = bag.items[l].num /\ w = bag.items[l].worn
    BY <1>5 DEF SameItem
  <2>2. SaidKept(y) /\ NumIs(y, v) /\ (WornEver(y) <=> w)
    BY <1>3, <1>5, <2>1
  <2>. QED  BY <2>2 DEF SaidKept
<1>6. CASE LearntIid(l)
  <2>1. PICK i : Learns(l, i) /\ l \in DOMAIN bag.items /\ i = y
    BY <1>6 DEF LearntIid
  <2>2. /\ ~rows[y].worn /\ Unnamed(y)
        /\ bag.items[l].num = rows[y].num /\ ~bag.items[l].worn
    BY <1>1, <1>2, <2>1, LearnsWhen
  <2>3. rows' = rows /\ s2d' = s2d
    BY <2>1 DEF Learns
  <2>4. v = rows[y].num /\ (w <=> rows[y].worn)
    BY <2>1, <2>2, LearntItem
  <2>5. NumIs(y, v) /\ (WornEver(y) <=> w)
    BY <2>2, <2>4, AsInRow, UnnamedFor DEF Naming
  <2>. QED  BY <2>3, <2>5, SameRowSaid
<1>7. CASE FoundItem(l)
  BY <1>7 DEF FoundItem, NewInfo
<1>8. CASE FetchedItem(l)
  <2>1. PICK new, local, size : Loads(new, local, size) /\ l \in DOMAIN new /\ bag'.items[l] = new[l]
    BY <1>8 DEF FetchedItem
  <2>2. SameAsTable(d2s[1].rows) /\ \A j : Quiet(j)
    BY <1>1, <2>1, LoadsWhen
  <2>3. PICK i \in DOMAIN d2s[1].rows : new[l] = AsItem(i, d2s[1].rows[i])
    BY <2>1, BroughtItem
  <2>4. i = y /\ v = rows[y].num /\ w = rows[y].worn
    BY <2>1, <2>2, <2>3 DEF AsItem, SameAsTable
  <2>5. rows' = rows /\ s2d' = s2d
    BY <2>1 DEF Loads
  <2>6. NumIs(y, v) /\ (WornEver(y) <=> w)
    BY <2>2, <2>4, AsInRow, QuietFor DEF Naming
  <2>. QED  BY <2>5, <2>6, SameRowSaid
<1>9. ItemChanges(l) => l \in DOMAIN bag.items
  BY ChangesItem
<1>. QED  BY <1>4, <1>5, <1>6, <1>7, <1>8, <1>9, ItemCases DEF ChangedItem

LEMMA OldLocals ==
    ASSUME TypesInv, NumbersInv, NEW x \in Nat, x <= nextLocal
    PROVE  ~FoundItem(x) /\ ~FetchedItem(x)
<1>1. nextLocal \in Nat
  BY DEF TypesInv
<1>2. ~FoundItem(x)
  BY <1>1 DEF FoundItem
<1>3. ~FetchedItem(x)
  BY BroughtItem DEF FetchedItem
<1>. QED  BY <1>2, <1>3

LEMMA InsertAheadStep ==
    ASSUME TypesInv, TypesInv', NumbersInv, ConnInv, LoadInv, ItemsInv, Step, ~mixed'
    PROVE  InsertAhead'
<1>1. ~mixed /\ InsertAhead /\ NamedOnce /\ ItemsFollow /\ UpNumbers
  BY MixedStays DEF ItemsInv, NumbersInv
<1>. SUFFICES ASSUME NEW k, k \in DOMAIN s2d', s2d'[k].type = "S2D_INSERTITEM",
                     NEW x \in DOMAIN bag'.items, x = s2d'[k].local
              PROVE  /\ bag'.items[x].iid = 0 /\ s2d'[k].pid = pid'
                     /\ x \notin lost' => bag'.items[x].num = s2d'[k].num /\ ~bag'.items[x].worn
  BY DEF InsertAhead, Up
<1>2. pid' = pid /\ conn
  BY <1>1, PidKept
<1>3. x \in lost => x \in lost'
  BY LostStays
<1>4. ASSUME NEW j \in DOMAIN s2d, s2d'[k] = s2d[j]
      PROVE  /\ bag'.items[x].iid = 0 /\ s2d'[k].pid = pid'
             /\ x \notin lost' => bag'.items[x].num = s2d'[k].num /\ ~bag'.items[x].worn
  <2>1. Up("S2D_INSERTITEM", j) /\ s2d[j].local = x
    BY <1>4 DEF Up
  <2>2. x \in DOMAIN bag.items =>
           /\ bag.items[x].iid = 0 /\ s2d[j].pid = pid
           /\ x \notin lost => bag.items[x].num = s2d[j].num /\ ~bag.items[x].worn
    BY <1>1, <2>1 DEF InsertAhead
  <2>3. CASE SameItem(x)
    BY <1>2, <1>3, <1>4, <2>2, <2>3 DEF SameItem
  <2>4. CASE ChangedItem(x)
    BY <1>2, <1>4, <2>2, <2>4 DEF ChangedItem
  <2>5. ~LearntIid(x)
    <3>1. ASSUME NEW i, Learns(x, i) PROVE FALSE
      <4>1. Down("D2S_UPDATEITEMIID", 1) /\ d2s[1].local = x
        BY <3>1 DEF Learns, Heard, Down
      <4>. QED  BY <1>1, <2>1, <4>1 DEF NamedOnce
    <3>. QED  BY <3>1 DEF LearntIid
  <2>6. x \in Nat /\ x <= nextLocal
    BY <1>1, <2>1, ToDbFields DEF UpNumbers, UpGiven, Up, Naming, TypesInv
  <2>. QED  BY <2>3, <2>4, <2>5, <2>6, OldLocals, ItemCases
<1>5. CASE UpOld({"S2D_INSERTITEM"})
  <2>1. PICK j \in DOMAIN s2d : s2d'[k] = s2d[j]
    BY <1>5, UpIsOld
  <2>. QED  BY <1>4, <2>1
<1>6. ASSUME NEW i \in Indexes, GotNew(i)
      PROVE  /\ bag'.items[x].iid = 0 /\ s2d'[k].pid = pid'
             /\ x \notin lost' => bag'.items[x].num = s2d'[k].num /\ ~bag'.items[x].worn
  <2>1. PICK m : m = [type |-> "S2D_INSERTITEM", uid |-> uid, local |-> nextLocal + 1, pid |-> pid,
                      index |-> i, num |-> 1]
    OBVIOUS
  <2>2. Sent(m) /\ bag'.items[nextLocal + 1] = NewInfo(i)
    BY <1>6, <2>1 DEF GotNew
  <2>3. (k \in DOMAIN s2d /\ s2d'[k] = s2d[k]) \/ s2d'[k] = m
    BY <2>2 DEF Sent
  <2>4. CASE s2d'[k] = m
    <3>1. x = nextLocal + 1 /\ m.pid = pid /\ m.num = 1
      BY <2>1, <2>4
    <3>. QED  BY <1>2, <2>2, <2>4, <3>1 DEF NewInfo
  <2>. QED  BY <1>4, <2>3, <2>4
<1>. QED  BY <1>5, <1>6, OldInserts

LEMMA OthersLearn ==
    ASSUME TypesInv, NamedOnce, NEW l, NEW i, Learns(l, i), NEW k \in DOMAIN d2s',
           d2s'[k].type = "D2S_UPDATEITEMIID"
    PROVE  d2s'[k].local # l /\ d2s'[k].iid # i
<1>1. PICK j : j = k + 1 /\ j # 1 /\ j \in DOMAIN d2s /\ d2s'[k] = d2s[j]
  BY DEF Learns, Heard
<1>2. Down("D2S_UPDATEITEMIID", 1) /\ d2s[1].local = l /\ d2s[1].iid = i
  BY DEF Learns, Heard, Down
<1>3. Down("D2S_UPDATEITEMIID", j)
  BY <1>1 DEF Down
<1>. QED  BY <1>1, <1>2, <1>3 DEF NamedOnce

\* A row that nothing names is not changed.
LEMMA UnnamedRow ==
    ASSUME TypesInv, RowNumbers, Step, NEW x \in DOMAIN rows, Unnamed(x)
    PROVE  x \in DOMAIN rows' /\ rows'[x] = rows[x]
<1>1. CASE LifeStep
  <2>1. CASE UNCHANGED vars
    BY <2>1 DEF vars, game
  <2>2. CASE Connects
    BY <2>2 DEF Connects, game
  <2>3. CASE Asks
    BY <2>3 DEF Asks, game
  <2>4. CASE \E p \in Pids \cup {NoPid} : AsksLoad(p)
    BY <2>4 DEF AsksLoad, game
  <2>5. CASE Starts
    BY <2>5 DEF Starts, game
  <2>6. CASE Restarts
    BY <2>6 DEF Restarts, game
  <2>7. CASE OnDisconnected
    BY <2>7 DEF OnDisconnected, game
  <2>8. CASE Crash
    BY <2>8 DEF Crash, game
  <2>. QED  BY <1>1, <2>1, <2>2, <2>3, <2>4, <2>5, <2>6, <2>7, <2>8 DEF LifeStep
<1>2. CASE ItemStep
  <2>1. CASE \E l, n : AddsTo(l, n)
    BY <2>1 DEF AddsTo, ChangedOne, game
  <2>2. CASE \E i \in Indexes : GotNew(i) /\ conn /\ pid # NoPid
    BY <2>2 DEF GotNew, game
  <2>3. CASE \E l : Trashes(l)
    BY <2>3 DEF Trashes, ChangedOne, game
  <2>4. CASE \E l : PutsOn(l)
    BY <2>4 DEF PutsOn, ChangedOne, game
  <2>5. CASE \E l : PutsOff(l)
    BY <2>5 DEF PutsOff, ChangedOne, game
  <2>. QED  BY <1>2, <2>1, <2>2, <2>3, <2>4, <2>5 DEF ItemStep
<1>3. CASE DbStep
  <2>1. CASE Lists \/ Refuses
    BY <2>1 DEF Lists, Refuses, Kind, game
  <2>2. CASE \E sent : Reads(sent)
    BY <2>2 DEF Reads, Kind, game
  <2>3. CASE Inserts
    <3>1. nextIid \in Nat
      BY DEF TypesInv
    <3>2. x # nextIid
      BY <3>1 DEF RowNumbers
    <3>. QED  BY <2>3, <3>2 DEF Inserts
  <2>4. CASE SetsNum
    <3>1. x = s2d[1].iid => Names(1, x)
      BY <2>4 DEF SetsNum, Kind, Fetched, Names, Naming
    <3>. QED  BY <2>4, <3>1 DEF SetsNum, SameRows, Unnamed
  <2>5. CASE SetsWorn
    <3>1. x = s2d[1].iid => Names(1, x)
      BY <2>5 DEF SetsWorn, Kind, Fetched, Names, Naming
    <3>. QED  BY <2>5, <3>1 DEF SetsWorn, SameRows, Unnamed
  <2>6. CASE Deletes
    <3>1. x = s2d[1].iid => Names(1, x)
      BY <2>6 DEF Deletes, Kind, Fetched, Names, Naming
    <3>. QED  BY <2>6, <3>1 DEF Deletes, SameRows, Unnamed
  <2>. QED  BY <1>3, <2>1, <2>2, <2>3, <2>4, <2>5, <2>6 DEF DbStep
<1>4. CASE ListenerStep
  <2>1. CASE Drops
    BY <2>1 DEF Drops, game
  <2>2. CASE GetsPlayers
    BY <2>2 DEF GetsPlayers, Told, game
  <2>3. CASE GetsPlayer \/ IsRefused
    BY <2>3 DEF GetsPlayer, IsRefused, Told, game
  <2>4. CASE \E new, local, size : Loads(new, local, size)
    BY <2>4 DEF Loads, game
  <2>5. CASE \E l, i : Learns(l, i)
    BY <2>5 DEF Learns, game
  <2>. QED  BY <1>4, <2>1, <2>2, <2>3, <2>4, <2>5 DEF ListenerStep
<1>. QED  BY <1>1, <1>2, <1>3, <1>4 DEF Step

LEMMA OriginKept ==
    ASSUME Step, LoadInv, ~mixed, DOMAIN bag.items # {}, DOMAIN bag'.items # {},
           NEW x \in DOMAIN origin, x # nextIid
    PROVE  x \in DOMAIN origin' /\ origin'[x] = origin[x]
<1>1. CASE LifeStep
  <2>1. CASE UNCHANGED vars
    BY <2>1 DEF vars, history
  <2>2. CASE Connects
    BY <2>2 DEF Connects, history
  <2>3. CASE Asks
    BY <2>3 DEF Asks, history
  <2>4. CASE \E p \in Pids \cup {NoPid} : AsksLoad(p)
    BY <2>4 DEF AsksLoad, history
  <2>5. CASE Starts
    BY <2>5 DEF Starts, history
  <2>6. CASE Restarts
    BY <2>6 DEF Restarts, history
  <2>7. CASE OnDisconnected
    BY <2>7, Emptied DEF OnDisconnected, history
  <2>8. CASE Crash
    BY <2>8, Emptied DEF Crash, history
  <2>. QED  BY <1>1, <2>1, <2>2, <2>3, <2>4, <2>5, <2>6, <2>7, <2>8 DEF LifeStep
<1>2. CASE ItemStep
  <2>1. CASE \E l, n : AddsTo(l, n)
    BY <2>1 DEF AddsTo, ChangedOne, history
  <2>2. CASE \E i \in Indexes : GotNew(i) /\ conn /\ pid # NoPid
    BY <2>2 DEF GotNew, history
  <2>3. CASE \E l : Trashes(l)
    BY <2>3 DEF Trashes, ChangedOne, history
  <2>4. CASE \E l : PutsOn(l)
    BY <2>4 DEF PutsOn, ChangedOne, history
  <2>5. CASE \E l : PutsOff(l)
    BY <2>5 DEF PutsOff, ChangedOne, history
  <2>. QED  BY <1>2, <2>1, <2>2, <2>3, <2>4, <2>5 DEF ItemStep
<1>3. CASE DbStep
  <2>1. CASE Lists \/ Refuses
    BY <2>1 DEF Lists, Refuses, Kind, history
  <2>2. CASE \E sent : Reads(sent)
    BY <2>2 DEF Reads, Kind, history
  <2>3. CASE Inserts
    BY <2>3 DEF Inserts, Kind, history
  <2>4. CASE SetsNum
    BY <2>4 DEF SetsNum, Kind, history
  <2>5. CASE SetsWorn
    BY <2>5 DEF SetsWorn, Kind, history
  <2>6. CASE Deletes
    BY <2>6 DEF Deletes, Kind, history
  <2>. QED  BY <1>3, <2>1, <2>2, <2>3, <2>4, <2>5, <2>6 DEF DbStep
<1>4. CASE ListenerStep
  <2>1. CASE Drops
    BY <2>1 DEF Drops, history
  <2>2. CASE GetsPlayers
    BY <2>2 DEF GetsPlayers, Told, history
  <2>3. CASE GetsPlayer \/ IsRefused
    BY <2>3 DEF GetsPlayer, IsRefused, Told, history
  <2>4. CASE \E new, local, size : Loads(new, local, size)
    BY <2>4, LoadsWhen DEF Loads, history
  <2>5. CASE \E l, i : Learns(l, i)
    BY <2>5 DEF Learns, history
  <2>. QED  BY <1>4, <2>1, <2>2, <2>3, <2>4, <2>5 DEF ListenerStep
<1>. QED  BY <1>1, <1>2, <1>3, <1>4 DEF Step

LEMMA AnswerAheadStep ==
    ASSUME TypesInv, TypesInv', NumbersInv, ConnInv, LoadInv, ItemsInv, Step, ~mixed'
    PROVE  AnswerAhead'
<1>1. /\ ~mixed /\ InsertAhead /\ AnswerAhead /\ NamedOnce /\ ItemsFollow
      /\ BagNumbers /\ RowNumbers /\ UpNumbers /\ DownNumbers
  BY MixedStays DEF ItemsInv, NumbersInv
<1>2. nextIid \in Nat \ {0}
  BY DEF TypesInv
<1>. SUFFICES ASSUME NEW k, k \in DOMAIN d2s', d2s'[k].type = "D2S_UPDATEITEMIID",
                     NEW x \in DOMAIN bag'.items, x = d2s'[k].local, NEW i, i = d2s'[k].iid
              PROVE  /\ bag'.items[x].iid = 0
                     /\ i \in DOMAIN rows' /\ rows'[i].pid = pid' /\ ~rows'[i].worn
                     /\ Unnamed(i)'
                     /\ \A m \in DOMAIN bag'.items : bag'.items[m].iid # i
                     /\ i \in DOMAIN origin' /\ origin'[i] = x
                     /\ x \notin lost' => bag'.items[x].num = rows'[i].num /\ ~bag'.items[x].worn
  BY DEF AnswerAhead, Down
<1>3. pid' = pid
  BY <1>1, PidKept
<1>4. x \in lost => x \in lost'
  BY LostStays
<1>5. CASE \E j \in DOMAIN d2s : d2s'[k] = d2s[j]
  <2>1. PICK j \in DOMAIN d2s : d2s'[k] = d2s[j]
    BY <1>5
  <2>2. Down("D2S_UPDATEITEMIID", j) /\ d2s[j].local = x /\ d2s[j].iid = i
    BY <2>1 DEF Down
  <2>3. x \in Nat /\ x <= nextLocal
    BY <1>1, <2>2, ToGameFields DEF DownNumbers, DownGiven, Down, TypesInv
  <2>4. ~LearntIid(x)
    BY <1>1, OthersLearn DEF LearntIid
  <2>5. SameItem(x) \/ ChangedItem(x)
    BY <2>3, <2>4, OldLocals, ItemCases
  <2>6. x \in DOMAIN bag.items
    BY <2>5 DEF SameItem, ChangedItem
  <2>7. /\ bag.items[x].iid = 0
        /\ i \in DOMAIN rows /\ rows[i].pid = pid /\ ~rows[i].worn
        /\ Unnamed(i)
        /\ \A m \in DOMAIN bag.items : bag.items[m].iid # i
        /\ i \in DOMAIN origin /\ origin[i] = x
        /\ x \notin lost => bag.items[x].num = rows[i].num /\ ~bag.items[x].worn
    BY <1>1, <2>2, <2>6 DEF AnswerAhead
  <2>8. i \in DOMAIN rows' /\ rows'[i] = rows[i]
    BY <1>1, <2>7, UnnamedRow
  <2>9. bag'.items[x].iid = 0
    BY <2>5, <2>7 DEF SameItem, ChangedItem
  <2>10. Unnamed(i)'
    <3>1. \A m : Trashes(m) \/ ItemChanges(m) => bag.items[m].iid # i
      BY <2>7, ChangesItem DEF Trashes
    <3>. QED  BY <2>7, <3>1, UnnamedKept
  <2>11. ASSUME NEW m \in DOMAIN bag'.items PROVE bag'.items[m].iid # i
    <3>1. CASE SameItem(m) \/ ChangedItem(m)
      BY <2>7, <3>1 DEF SameItem, ChangedItem
    <3>2. CASE LearntIid(m)
      BY <1>1, <3>2, OthersLearn DEF LearntIid
    <3>3. CASE FoundItem(m)
      <4>1. i # 0
        BY SMTT(30), <2>7, InMaps DEF TypesInv
      <4>. QED  BY <3>3, <4>1 DEF FoundItem, NewInfo
    <3>4. ~FetchedItem(m)
      BY <1>1, <2>6, NotFetched
    <3>. QED  BY <3>1, <3>2, <3>3, <3>4, ItemCases
  <2>12. i \in DOMAIN origin' /\ origin'[i] = x
    <3>1. i # nextIid
      BY <1>1, <1>2, <2>7 DEF RowNumbers
    <3>. QED  BY <1>1, <2>6, <2>7, <3>1, OriginKept
  <2>13. x \notin lost' => bag'.items[x].num = rows'[i].num /\ ~bag'.items[x].worn
    BY <1>4, <2>5, <2>7, <2>8 DEF SameItem, ChangedItem
  <2>. QED  BY <1>3, <2>7, <2>8, <2>9, <2>10, <2>11, <2>12, <2>13
<1>6. CASE Inserts /\ ~\E j \in DOMAIN d2s : d2s'[k] = d2s[j]
  <2>1. bag' = bag /\ lost' = lost
    BY <1>6 DEF Inserts, Kind, game
  <2>2. PICK a : a = [type |-> "D2S_UPDATEITEMIID", uid |-> s2d[1].uid,
                      local |-> s2d[1].local, iid |-> nextIid]
    OBVIOUS
  <2>3. d2s'[k] = a
    BY <1>6, <2>2 DEF Inserts, Answered1
  <2>4. x = s2d[1].local /\ i = nextIid
    BY <2>2, <2>3
  <2>5. Up("S2D_INSERTITEM", 1)
    BY <1>6 DEF Inserts, Kind, Fetched, Up
  <2>6. /\ bag.items[x].iid = 0 /\ s2d[1].pid = pid
        /\ x \notin lost => bag.items[x].num = s2d[1].num /\ ~bag.items[x].worn
    BY <1>1, <2>1, <2>4, <2>5 DEF InsertAhead
  <2>7. /\ i \in DOMAIN rows' /\ rows'[i].pid = s2d[1].pid /\ ~rows'[i].worn
        /\ rows'[i].num = s2d[1].num
    BY <1>6, <2>4 DEF Inserts
  <2>8. \A m \in DOMAIN bag.items : bag.items[m].iid # i
    BY <1>1, <1>2, <2>4 DEF BagNumbers
  <2>9. Unnamed(i)
    <3>1. ASSUME NEW m, Names(m, i) PROVE FALSE
      <4>1. s2d[m].iid < nextIid /\ s2d[m].iid = nextIid
        BY <1>1, <2>4, <3>1 DEF Names, UpNumbers, UpGiven
      <4>. QED  BY <1>2, <4>1
    <3>. QED  BY <3>1 DEF Unnamed
  <2>10. Unnamed(i)'
    <3>1. \A m : Trashes(m) \/ ItemChanges(m) => bag.items[m].iid # i
      BY <2>8, ChangesItem DEF Trashes
    <3>. QED  BY <2>9, <3>1, UnnamedKept
  <2>11. i \in DOMAIN origin' /\ origin'[i] = x
    BY <1>6, <2>4 DEF Inserts
  <2>. QED  BY <1>3, <2>1, <2>6, <2>7, <2>8, <2>10, <2>11
<1>7. \/ \E j \in DOMAIN d2s : d2s'[k] = d2s[j]
      \/ Inserts
  BY OldAnswers, DownIsOld
<1>. QED  BY <1>5, <1>6, <1>7

LEMMA ItemsStep ==
    ASSUME TypesInv, TypesInv', NumbersInv, ConnInv, LoadInv, ItemsInv, Step
    PROVE  ItemsInv'
  BY RowKnownStep, RowFollowsStep, InsertAheadStep, AnswerAheadStep DEF ItemsInv


-----------------------------------------------------------------------------
(* HoldInv is kept.                                                         *)

\* What there is stays, unless it is taken.
LEMMA ItemStays ==
    ASSUME TypesInv, Step, conn', NEW x \in DOMAIN bag.items
    PROVE  x \in DOMAIN bag'.items \/ Trashes(x) \/ Restarts
<1>1. CASE LifeStep
  <2>1. CASE UNCHANGED vars
    BY <2>1 DEF vars, game
  <2>2. CASE Connects
    BY <2>2 DEF Connects, game
  <2>3. CASE Asks
    BY <2>3 DEF Asks, game
  <2>4. CASE \E p \in Pids \cup {NoPid} : AsksLoad(p)
    BY <2>4 DEF AsksLoad, game
  <2>5. CASE Starts
    BY <2>5 DEF Starts, game
  <2>6. CASE Restarts
    BY <2>6 DEF Restarts, game
  <2>7. CASE OnDisconnected
    BY <2>7 DEF OnDisconnected, game
  <2>8. CASE Crash
    BY <2>8 DEF Crash, game
  <2>. QED  BY <1>1, <2>1, <2>2, <2>3, <2>4, <2>5, <2>6, <2>7, <2>8 DEF LifeStep
<1>2. CASE ItemStep
  <2>1. CASE \E l, n : AddsTo(l, n)
    <3>1. PICK k : ItemChanges(k)
      BY <2>1 DEF ItemChanges
    <3>. QED  BY <3>1, ChangesItem
  <2>2. CASE \E i \in Indexes : GotNew(i) /\ conn /\ pid # NoPid
    BY <2>2 DEF GotNew, game
  <2>3. CASE \E l : Trashes(l)
    BY <2>3 DEF Trashes, ChangedOne, game, IsTrashed
  <2>4. CASE \E l : PutsOn(l)
    <3>1. PICK k : ItemChanges(k)
      BY <2>4 DEF ItemChanges
    <3>. QED  BY <3>1, ChangesItem
  <2>5. CASE \E l : PutsOff(l)
    <3>1. PICK k : ItemChanges(k)
      BY <2>5 DEF ItemChanges
    <3>. QED  BY <3>1, ChangesItem
  <2>. QED  BY <1>2, <2>1, <2>2, <2>3, <2>4, <2>5 DEF ItemStep
<1>3. CASE DbStep
  <2>1. CASE Lists \/ Refuses
    BY <2>1 DEF Lists, Refuses, Kind, game
  <2>2. CASE \E sent : Reads(sent)
    BY <2>2 DEF Reads, Kind, game
  <2>3. CASE Inserts
    BY <2>3 DEF Inserts, Kind, game
  <2>4. CASE SetsNum
    BY <2>4 DEF SetsNum, Kind, game
  <2>5. CASE SetsWorn
    BY <2>5 DEF SetsWorn, Kind, game
  <2>6. CASE Deletes
    BY <2>6 DEF Deletes, Kind, game
  <2>. QED  BY <1>3, <2>1, <2>2, <2>3, <2>4, <2>5, <2>6 DEF DbStep
<1>4. CASE ListenerStep
  <2>1. CASE Drops
    BY <2>1 DEF Drops, game
  <2>2. CASE GetsPlayers
    BY <2>2 DEF GetsPlayers, Told, game
  <2>3. CASE GetsPlayer \/ IsRefused
    BY <2>3 DEF GetsPlayer, IsRefused, Told, game
  <2>4. CASE \E new, local, size : Loads(new, local, size)
    BY <2>4 DEF Loads, game, IsInserted, Added
  <2>5. CASE \E l, i : Learns(l, i)
    BY <2>5 DEF Learns, game, Replaces
  <2>. QED  BY <1>4, <2>1, <2>2, <2>3, <2>4, <2>5 DEF ListenerStep
<1>. QED  BY <1>1, <1>2, <1>3, <1>4 DEF Step

LEMMA UpStays ==
    ASSUME TypesInv, Step, conn', NEW x \in DOMAIN s2d
    PROVE  \/ \E j \in DOMAIN s2d' : s2d'[j] = s2d[x]
           \/ x = 1 /\ DbStep
<1>1. CASE LifeStep
  <2>1. CASE UNCHANGED vars
    BY <2>1 DEF vars, game, history
  <2>2. CASE Connects
    <3>1. PICK m : Sent(m)
      BY <2>2 DEF Connects
    <3>. QED  BY <3>1 DEF Sent
  <2>3. CASE Asks
    <3>1. PICK m : Sent(m)
      BY <2>3 DEF Asks
    <3>. QED  BY <3>1 DEF Sent
  <2>4. CASE \E p \in Pids \cup {NoPid} : AsksLoad(p)
    <3>1. PICK p \in Pids \cup {NoPid} : AsksLoad(p)
      BY <2>4
    <3>2. PICK m : Sent(m)
      BY <3>1 DEF AsksLoad
    <3>. QED  BY <3>2 DEF Sent
  <2>5. CASE Starts
    BY <2>5 DEF Starts, game, history
  <2>6. CASE Restarts
    <3>1. PICK m : Sent(m)
      BY <2>6 DEF Restarts
    <3>. QED  BY <3>1 DEF Sent
  <2>7. CASE OnDisconnected
    BY <2>7 DEF OnDisconnected, game, history
  <2>8. CASE Crash
    BY <2>8 DEF Crash, game, history
  <2>. QED  BY <1>1, <2>1, <2>2, <2>3, <2>4, <2>5, <2>6, <2>7, <2>8 DEF LifeStep
<1>2. CASE ItemStep
  <2>1. CASE \E l, n : AddsTo(l, n)
    <3>1. PICK l, n : AddsTo(l, n)
      BY <2>1
    <3>2. PICK m : Sent(m)
      BY <3>1 DEF AddsTo
    <3>. QED  BY <3>2 DEF Sent
  <2>2. CASE \E i \in Indexes : GotNew(i) /\ conn /\ pid # NoPid
    <3>1. PICK i \in Indexes : GotNew(i)
      BY <2>2
    <3>2. PICK m : Sent(m)
      BY <3>1 DEF GotNew
    <3>. QED  BY <3>2 DEF Sent
  <2>3. CASE \E l : Trashes(l)
    <3>1. PICK l : Trashes(l)
      BY <2>3
    <3>2. PICK m : Sent(m)
      BY <3>1 DEF Trashes
    <3>. QED  BY <3>2 DEF Sent
  <2>4. CASE \E l : PutsOn(l)
    <3>1. PICK l : PutsOn(l)
      BY <2>4
    <3>2. PICK m : Sent(m)
      BY <3>1 DEF PutsOn
    <3>. QED  BY <3>2 DEF Sent
  <2>5. CASE \E l : PutsOff(l)
    <3>1. PICK l : PutsOff(l)
      BY <2>5
    <3>2. PICK m : Sent(m)
      BY <3>1 DEF PutsOff
    <3>. QED  BY <3>2 DEF Sent
  <2>. QED  BY <1>2, <2>1, <2>2, <2>3, <2>4, <2>5 DEF ItemStep
<1>3. CASE DbStep
  <2>1. CASE Lists \/ Refuses
    <3>1. Fetched
      BY <2>1 DEF Lists, Refuses, Kind
    <3>2. x = 1 \/ (x - 1 \in DOMAIN s2d' /\ s2d'[x - 1] = s2d[x])
      BY <3>1 DEF Fetched
    <3>. QED  BY <1>3, <3>2
  <2>2. CASE \E sent : Reads(sent)
    <3>1. Fetched
      BY <2>2 DEF Reads, Kind
    <3>2. x = 1 \/ (x - 1 \in DOMAIN s2d' /\ s2d'[x - 1] = s2d[x])
      BY <3>1 DEF Fetched
    <3>. QED  BY <1>3, <3>2
  <2>3. CASE Inserts
    <3>1. Fetched
      BY <2>3 DEF Inserts, Kind
    <3>2. x = 1 \/ (x - 1 \in DOMAIN s2d' /\ s2d'[x - 1] = s2d[x])
      BY <3>1 DEF Fetched
    <3>. QED  BY <1>3, <3>2
  <2>4. CASE SetsNum
    <3>1. Fetched
      BY <2>4 DEF SetsNum, Kind
    <3>2. x = 1 \/ (x - 1 \in DOMAIN s2d' /\ s2d'[x - 1] = s2d[x])
      BY <3>1 DEF Fetched
    <3>. QED  BY <1>3, <3>2
  <2>5. CASE SetsWorn
    <3>1. Fetched
      BY <2>5 DEF SetsWorn, Kind
    <3>2. x = 1 \/ (x - 1 \in DOMAIN s2d' /\ s2d'[x - 1] = s2d[x])
      BY <3>1 DEF Fetched
    <3>. QED  BY <1>3, <3>2
  <2>6. CASE Deletes
    <3>1. Fetched
      BY <2>6 DEF Deletes, Kind
    <3>2. x = 1 \/ (x - 1 \in DOMAIN s2d' /\ s2d'[x - 1] = s2d[x])
      BY <3>1 DEF Fetched
    <3>. QED  BY <1>3, <3>2
  <2>. QED  BY <1>3, <2>1, <2>2, <2>3, <2>4, <2>5, <2>6 DEF DbStep
<1>4. CASE ListenerStep
  <2>1. CASE Drops
    BY <2>1 DEF Drops, game, history
  <2>2. CASE GetsPlayers
    BY <2>2 DEF GetsPlayers, Told, game, history
  <2>3. CASE GetsPlayer \/ IsRefused
    BY <2>3 DEF GetsPlayer, IsRefused, Told, game, history
  <2>4. CASE \E new, local, size : Loads(new, local, size)
    BY <2>4 DEF Loads, game, history
  <2>5. CASE \E l, i : Learns(l, i)
    BY <2>5 DEF Learns, game, history
  <2>. QED  BY <1>4, <2>1, <2>2, <2>3, <2>4, <2>5 DEF ListenerStep
<1>. QED  BY <1>1, <1>2, <1>3, <1>4 DEF Step

LEMMA DownStays ==
    ASSUME TypesInv, Step, conn', NEW x \in DOMAIN d2s
    PROVE  \/ \E j \in DOMAIN d2s' : d2s'[j] = d2s[x]
           \/ x = 1 /\ ListenerStep
<1>1. CASE LifeStep
  <2>1. CASE UNCHANGED vars
    BY <2>1 DEF vars, game, history
  <2>2. CASE Connects
    BY <2>2 DEF Connects, game, history
  <2>3. CASE Asks
    BY <2>3 DEF Asks, game, history
  <2>4. CASE \E p \in Pids \cup {NoPid} : AsksLoad(p)
    BY <2>4 DEF AsksLoad, game, history
  <2>5. CASE Starts
    BY <2>5 DEF Starts, game, history
  <2>6. CASE Restarts
    BY <2>6 DEF Restarts, game, history
  <2>7. CASE OnDisconnected
    BY <2>7 DEF OnDisconnected, game, history
  <2>8. CASE Crash
    BY <2>8 DEF Crash, game, history
  <2>. QED  BY <1>1, <2>1, <2>2, <2>3, <2>4, <2>5, <2>6, <2>7, <2>8 DEF LifeStep
<1>2. CASE ItemStep
  <2>1. CASE \E l, n : AddsTo(l, n)
    BY <2>1 DEF AddsTo, ChangedOne, game, history
  <2>2. CASE \E i \in Indexes : GotNew(i) /\ conn /\ pid # NoPid
    BY <2>2 DEF GotNew, game, history
  <2>3. CASE \E l : Trashes(l)
    BY <2>3 DEF Trashes, ChangedOne, game, history
  <2>4. CASE \E l : PutsOn(l)
    BY <2>4 DEF PutsOn, ChangedOne, game, history
  <2>5. CASE \E l : PutsOff(l)
    BY <2>5 DEF PutsOff, ChangedOne, game, history
  <2>. QED  BY <1>2, <2>1, <2>2, <2>3, <2>4, <2>5 DEF ItemStep
<1>3. CASE DbStep
  <2>1. CASE Lists
    BY <2>1 DEF Lists, Kind, game, history, Answered1
  <2>9. CASE Refuses
    BY <2>9 DEF Refuses, Kind, game, history, Answered1
  <2>2. CASE \E sent : Reads(sent)
    BY <2>2 DEF Reads, Kind, game, history, Answered2
  <2>3. CASE Inserts
    BY <2>3 DEF Inserts, Kind, game, history, Answered1
  <2>4. CASE SetsNum
    BY <2>4 DEF SetsNum, Kind, game, history
  <2>5. CASE SetsWorn
    BY <2>5 DEF SetsWorn, Kind, game, history
  <2>6. CASE Deletes
    BY <2>6 DEF Deletes, Kind, game, history
  <2>. QED  BY <1>3, <2>1, <2>9, <2>2, <2>3, <2>4, <2>5, <2>6 DEF DbStep
<1>4. CASE ListenerStep
  <2>1. CASE Drops
    <3>1. Heard
      BY <2>1 DEF Drops
    <3>2. x = 1 \/ (x - 1 \in DOMAIN d2s' /\ d2s'[x - 1] = d2s[x])
      BY <3>1 DEF Heard
    <3>. QED  BY <1>4, <3>2
  <2>2. CASE GetsPlayers
    <3>1. Heard
      BY <2>2 DEF GetsPlayers, Told
    <3>2. x = 1 \/ (x - 1 \in DOMAIN d2s' /\ d2s'[x - 1] = d2s[x])
      BY <3>1 DEF Heard
    <3>. QED  BY <1>4, <3>2
  <2>3. CASE GetsPlayer \/ IsRefused
    <3>1. Heard
      BY <2>3 DEF GetsPlayer, IsRefused, Told
    <3>2. x = 1 \/ (x - 1 \in DOMAIN d2s' /\ d2s'[x - 1] = d2s[x])
      BY <3>1 DEF Heard
    <3>. QED  BY <1>4, <3>2
  <2>4. CASE \E new, local, size : Loads(new, local, size)
    <3>1. Heard
      BY <2>4 DEF Loads
    <3>2. x = 1 \/ (x - 1 \in DOMAIN d2s' /\ d2s'[x - 1] = d2s[x])
      BY <3>1 DEF Heard
    <3>. QED  BY <1>4, <3>2
  <2>5. CASE \E l, i : Learns(l, i)
    <3>1. Heard
      BY <2>5 DEF Learns
    <3>2. x = 1 \/ (x - 1 \in DOMAIN d2s' /\ d2s'[x - 1] = d2s[x])
      BY <3>1 DEF Heard
    <3>. QED  BY <1>4, <3>2
  <2>. QED  BY <1>4, <2>1, <2>2, <2>3, <2>4, <2>5 DEF ListenerStep
<1>. QED  BY <1>1, <1>2, <1>3, <1>4 DEF Step

\* The items that come next stay next until they are heard of.
LEMMA StillNext ==
    ASSUME ItemsNext, uid' = uid, NEW a, NEW b, UNCHANGED d2s \/ Answered1(a) \/ Answered2(a, b)
    PROVE  ItemsNext'
<1>1. 1 \in DOMAIN d2s /\ d2s[1].type = "D2S_LOADITEMS" /\ d2s[1].uid = uid
  BY DEF ItemsNext, Down
<1>2. 1 \in DOMAIN d2s' /\ d2s'[1] = d2s[1]
  BY <1>1 DEF Answered1, Answered2
<1>. QED  BY <1>1, <1>2 DEF ItemsNext, Down

\* A player is loaded by the answer to a request, and stays.
LEMMA LoadedCases ==
    ASSUME TypesInv, ItemsFollow, ConnInv, LoadInv, Step, ~mixed', Loaded'
    PROVE  (Loaded /\ pid' = pid) \/ \E new, local, size : Loads(new, local, size)
<1>5. ~mixed
  BY MixedStays
<1>6. \A a, b : ItemsNext /\ uid' = uid /\ (UNCHANGED d2s \/ Answered1(a) \/ Answered2(a, b)) => ItemsNext'
  BY StillNext
<1>7. conn' /\ loaded' /\ ~ItemsNext'
  BY DEF Loaded
<1>1. CASE LifeStep
  <2>1. CASE UNCHANGED vars
    BY <2>1, <1>6, <1>7 DEF vars, Loaded, game, history
  <2>2. CASE Connects
    BY <2>2, <1>6, <1>7 DEF Connects, Loaded, game, history, ConnInv, NoConn
  <2>3. CASE Asks
    BY <2>3, <1>6, <1>7 DEF Asks, Loaded, game, history
  <2>4. CASE \E p \in Pids \cup {NoPid} : AsksLoad(p)
    BY <2>4, <1>6, <1>7 DEF AsksLoad, Loaded, game, history
  <2>5. CASE Starts
    BY <2>5, <1>6, <1>7 DEF Starts, Loaded, game, history
  <2>6. CASE Restarts
    BY <2>6, <1>6, <1>7 DEF Restarts, Loaded, game, history
  <2>7. CASE OnDisconnected
    BY <2>7, <1>6, <1>7 DEF OnDisconnected, Loaded, game, history
  <2>8. CASE Crash
    BY <2>8, <1>6, <1>7 DEF Crash, Loaded, game, history
  <2>. QED  BY <1>1, <2>1, <2>2, <2>3, <2>4, <2>5, <2>6, <2>7, <2>8 DEF LifeStep
<1>2. CASE ItemStep
  <2>1. CASE \E l, n : AddsTo(l, n)
    BY <2>1, <1>6, <1>7 DEF AddsTo, ChangedOne, Loaded, game, history
  <2>2. CASE \E i \in Indexes : GotNew(i) /\ conn /\ pid # NoPid
    BY <2>2, <1>6, <1>7 DEF GotNew, Loaded, game, history
  <2>3. CASE \E l : Trashes(l)
    BY <2>3, <1>6, <1>7 DEF Trashes, ChangedOne, Loaded, game, history
  <2>4. CASE \E l : PutsOn(l)
    BY <2>4, <1>6, <1>7 DEF PutsOn, ChangedOne, Loaded, game, history
  <2>5. CASE \E l : PutsOff(l)
    BY <2>5, <1>6, <1>7 DEF PutsOff, ChangedOne, Loaded, game, history
  <2>. QED  BY <1>2, <2>1, <2>2, <2>3, <2>4, <2>5 DEF ItemStep
<1>3. CASE DbStep
  <2>1. CASE Lists \/ Refuses
    BY <2>1, <1>6, <1>7 DEF Lists, Refuses, Kind, Loaded, game, history
  <2>2. CASE \E sent : Reads(sent)
    BY <2>2, <1>6, <1>7 DEF Reads, Kind, Loaded, game, history
  <2>3. CASE Inserts
    BY <2>3, <1>6, <1>7 DEF Inserts, Kind, Loaded, game, history
  <2>4. CASE SetsNum
    BY <2>4, <1>6, <1>7 DEF SetsNum, Kind, Loaded, game, history
  <2>5. CASE SetsWorn
    BY <2>5, <1>6, <1>7 DEF SetsWorn, Kind, Loaded, game, history
  <2>6. CASE Deletes
    BY <2>6, <1>6, <1>7 DEF Deletes, Kind, Loaded, game, history
  <2>. QED  BY <1>3, <2>1, <2>2, <2>3, <2>4, <2>5, <2>6 DEF DbStep
<1>4. CASE ListenerStep
  <2>1. CASE Drops
    BY <2>1, <1>6, <1>7 DEF Drops, ItemsNext, Down, Loaded, game, history
  <2>2. CASE GetsPlayers
    BY <2>2, <1>6, <1>7 DEF GetsPlayers, Told, ItemsNext, Down, Loaded, game, history
  <2>6. CASE IsRefused
    BY <2>6, <1>7 DEF IsRefused, Told, ItemsNext, Down, Loaded, game, history
  <2>3. CASE GetsPlayer
    <3>1. Down("D2S_LOADPLAYER", 1) /\ d2s[1].pid # NoPid /\ d2s[1].uid = uid /\ uid' = uid /\ Heard
      BY <2>3, NoPidAssumption DEF GetsPlayer, Told, Heard, Down
    <3>2. Down("D2S_LOADITEMS", 1 + 1) /\ d2s[1 + 1].uid = uid
      BY <3>1 DEF ItemsFollow
    <3>3. 1 \in DOMAIN d2s' /\ d2s'[1] = d2s[1 + 1]
      BY <3>1, <3>2 DEF Heard, Down
    <3>. QED  BY <1>7, <3>1, <3>2, <3>3 DEF ItemsNext, Down
  <2>4. CASE \E new, local, size : Loads(new, local, size)
    BY <2>4 DEF Loads, Loaded, game, history
  <2>5. CASE \E l, i : Learns(l, i)
    BY <2>5 DEF Learns, ItemsNext, Down, Loaded, game, history
  <2>. QED  BY <1>4, <2>1, <2>2, <2>3, <2>4, <2>5, <2>6 DEF ListenerStep
<1>. QED  BY <1>1, <1>2, <1>3, <1>4 DEF Step

LEMMA HoldAfterLoad ==
    ASSUME TypesInv, LoadInv, ~mixed, NEW new, NEW local, NEW size, Loads(new, local, size)
    PROVE  RowsHeld' /\ InsertsHeld' /\ WornHeld'
<1>1. /\ DOMAIN bag.items = {} /\ SameAsTable(d2s[1].rows)
      /\ RowsOf(pid) = DOMAIN d2s[1].rows /\ \A j : Quiet(j)
  BY LoadsWhen
<1>2. rows' = rows /\ s2d' = s2d /\ pid' = pid
  BY DEF Loads
<1>3. ASSUME NEW i \in DOMAIN rows', rows'[i].pid = pid'
      PROVE  \E l \in DOMAIN bag'.items : bag'.items[l].iid = i /\ bag'.items[l].worn = rows[i].worn
  <2>1. i \in DOMAIN d2s[1].rows /\ d2s[1].rows[i] = rows[i]
    BY <1>1, <1>2, <1>3 DEF RowsOf, SameAsTable
  <2>2. local[i] \in DOMAIN new /\ new[local[i]] = AsItem(i, rows[i])
    BY <2>1 DEF Loads, IsBrought
  <2>3. local[i] \in DOMAIN bag'.items /\ bag'.items[local[i]] = new[local[i]]
    BY <2>2 DEF Loads, IsInserted, Added
  <2>4. AsItem(i, rows[i]).iid = i /\ AsItem(i, rows[i]).worn = rows[i].worn
    BY DEF AsItem
  <2>. QED  BY <2>2, <2>3, <2>4
<1>4. RowsHeld'
  <2>1. ASSUME NEW i \in DOMAIN rows', rows'[i].pid = pid' PROVE Held(i)'
    BY <1>3, <2>1 DEF Held
  <2>. QED  BY <2>1 DEF RowsHeld
<1>5. InsertsHeld'
  BY <1>1, <1>2 DEF InsertsHeld, Up, Quiet
<1>6. ASSUME NEW i, WornEver(i)' PROVE rows[i].worn
  <2>1. WornEver(i)
    BY <1>2, <1>6, SameRowSaid
  <2>. QED  BY <1>1, <2>1, AsInRow, QuietFor DEF Naming
<1>7. WornHeld'
  <2>1. ASSUME NEW i \in DOMAIN rows', rows'[i].pid = pid', WornEver(i)'
        PROVE  \E l \in DOMAIN bag'.items : bag'.items[l].iid = i /\ bag'.items[l].worn
    BY <1>3, <1>6, <2>1
  <2>. QED  BY <2>1 DEF WornHeld
<1>. QED  BY <1>4, <1>5, <1>7

\* What holds of the steps of a player who is loaded and stays so.
LEMMA WhileLoaded ==
    ASSUME Loaded, Loaded', Step
    PROVE  /\ ~Restarts /\ conn /\ conn'
           /\ \A x : ~FetchedItem(x)
           /\ \A new, local, size : ~Loads(new, local, size)
<1>1. \A new, local, size : ~Loads(new, local, size)
  BY DEF Loads, Heard, Down, ItemsNext, Loaded
<1>. QED  BY <1>1 DEF FetchedItem, Restarts, Loaded

LEMMA HeldTrashed ==
    ASSUME TypesInv, Step, conn', NEW i \in DOMAIN rows', ~Untrashed(i)
    PROVE  ~Untrashed(i)'
<1>1. PICK k : For("S2D_TRASHITEM", k, i)
  BY DEF Untrashed
<1>2. k \in DOMAIN s2d /\ s2d[k].type = "S2D_TRASHITEM" /\ s2d[k].iid = i
  BY <1>1 DEF For, Up
<1>3. CASE \E j \in DOMAIN s2d' : s2d'[j] = s2d[k]
  BY <1>2, <1>3 DEF Untrashed, For, Up
<1>4. CASE k = 1 /\ DbStep
  <2>1. Deletes
    BY <1>2, <1>4 DEF DbStep, Lists, Refuses, Reads, Inserts, SetsNum, SetsWorn, Kind
  <2>. QED  BY <1>2, <1>4, <2>1 DEF Deletes
<1>. QED  BY <1>2, <1>3, <1>4, UpStays

\* The row of an item that goes is told to go.
LEMMA TrashedRow ==
    ASSUME NEW l, Trashes(l), NEW i, i = bag.items[l].iid
    PROVE  ~Untrashed(i)' /\ (i = 0 => l \in lost')
<1>2. PICK m : m = [type |-> "S2D_TRASHITEM", iid |-> i]
  OBVIOUS
<1>3. Sent(m)
  BY <1>2 DEF Trashes
<1>4. PICK n : n \in DOMAIN s2d' /\ s2d'[n] = m
  BY <1>3 DEF Sent
<1>5. For("S2D_TRASHITEM", n, i)'
  BY <1>2, <1>4 DEF For, Up
<1>6. ~Untrashed(i)'
  BY <1>5 DEF Untrashed
<1>7. i = 0 => l \in lost'
  BY DEF Trashes, ChangedOne, Lose
<1>. QED  BY <1>6, <1>7

LEMMA HeldItem ==
    ASSUME TypesInv, NumbersInv, LoadInv, ItemsInv, Step, ~mixed', Loaded, Loaded',
           NEW l \in DOMAIN bag.items, bag.items[l].iid # 0
    PROVE  \/ l \in DOMAIN bag'.items /\ (SameItem(l) \/ ItemChanges(l))
                /\ bag'.items[l].iid = bag.items[l].iid
           \/ Trashes(l)
<1>1. ~mixed /\ AnswerAhead /\ BagNumbers
  BY MixedStays DEF ItemsInv, NumbersInv
<1>2. ~Restarts /\ conn' /\ \A x : ~FetchedItem(x)
  BY <1>1, WhileLoaded
<1>3. CASE l \in DOMAIN bag'.items
  <2>1. ~LearntIid(l)
    BY <1>1, LearnsWhen DEF LearntIid
  <2>2. ~FoundItem(l)
    <3>1. l \in Nat /\ l <= nextLocal
      BY <1>1, ItemTypes DEF BagNumbers, TypesInv
    <3>. QED  BY <3>1, OldLocals
  <2>. QED  BY <1>2, <1>3, <2>1, <2>2, ItemCases DEF SameItem, ChangedItem
<1>. QED  BY <1>2, <1>3, ItemStays

LEMMA OriginHeld ==
    ASSUME Step, conn', NEW x \in DOMAIN origin, x # nextIid,
           \A new, local, size : ~Loads(new, local, size)
    PROVE  x \in DOMAIN origin' /\ origin'[x] = origin[x] /\ lost \subseteq lost'
<1>1. CASE LifeStep
  <2>1. CASE UNCHANGED vars
    BY <2>1 DEF vars, history
  <2>2. CASE Connects
    BY <2>2 DEF Connects, history
  <2>3. CASE Asks
    BY <2>3 DEF Asks, history
  <2>4. CASE \E p \in Pids \cup {NoPid} : AsksLoad(p)
    BY <2>4 DEF AsksLoad, history
  <2>5. CASE Starts
    BY <2>5 DEF Starts, history
  <2>6. CASE Restarts
    BY <2>6 DEF Restarts, history
  <2>7. CASE OnDisconnected
    BY <2>7 DEF OnDisconnected, history
  <2>8. CASE Crash
    BY <2>8 DEF Crash, history
  <2>. QED  BY <1>1, <2>1, <2>2, <2>3, <2>4, <2>5, <2>6, <2>7, <2>8 DEF LifeStep
<1>2. CASE ItemStep
  <2>1. CASE \E l, n : AddsTo(l, n)
    BY <2>1 DEF AddsTo, ChangedOne, history, Lose
  <2>2. CASE \E i \in Indexes : GotNew(i) /\ conn /\ pid # NoPid
    BY <2>2 DEF GotNew, history
  <2>3. CASE \E l : Trashes(l)
    BY <2>3 DEF Trashes, ChangedOne, history, Lose
  <2>4. CASE \E l : PutsOn(l)
    BY <2>4 DEF PutsOn, ChangedOne, history, Lose
  <2>5. CASE \E l : PutsOff(l)
    BY <2>5 DEF PutsOff, ChangedOne, history, Lose
  <2>. QED  BY <1>2, <2>1, <2>2, <2>3, <2>4, <2>5 DEF ItemStep
<1>3. CASE DbStep
  <2>1. CASE Lists \/ Refuses
    BY <2>1 DEF Lists, Refuses, Kind, history
  <2>2. CASE \E sent : Reads(sent)
    BY <2>2 DEF Reads, Kind, history
  <2>3. CASE Inserts
    BY <2>3 DEF Inserts, Kind, history
  <2>4. CASE SetsNum
    BY <2>4 DEF SetsNum, Kind, history
  <2>5. CASE SetsWorn
    BY <2>5 DEF SetsWorn, Kind, history
  <2>6. CASE Deletes
    BY <2>6 DEF Deletes, Kind, history
  <2>. QED  BY <1>3, <2>1, <2>2, <2>3, <2>4, <2>5, <2>6 DEF DbStep
<1>4. CASE ListenerStep
  <2>1. CASE Drops
    BY <2>1 DEF Drops, history
  <2>2. CASE GetsPlayers
    BY <2>2 DEF GetsPlayers, Told, history
  <2>3. CASE GetsPlayer \/ IsRefused
    BY <2>3 DEF GetsPlayer, IsRefused, Told, history
  <2>4. CASE \E new, local, size : Loads(new, local, size)
    BY <2>4 DEF Loads, history
  <2>5. CASE \E l, i : Learns(l, i)
    BY <2>5 DEF Learns, history
  <2>. QED  BY <1>4, <2>1, <2>2, <2>3, <2>4, <2>5 DEF ListenerStep
<1>. QED  BY <1>1, <1>2, <1>3, <1>4 DEF Step

\* A row of the table was there, or has just been inserted.
LEMMA RowOrNew ==
    ASSUME TypesInv, Step, NEW x \in DOMAIN rows'
    PROVE  \/ x \in DOMAIN rows /\ rows'[x].pid = rows[x].pid /\ rows'[x].index = rows[x].index
           \/ Inserts /\ x = nextIid
<1>1. CASE LifeStep
  <2>1. CASE UNCHANGED vars
    BY <2>1 DEF vars, game
  <2>2. CASE Connects
    BY <2>2 DEF Connects, game
  <2>3. CASE Asks
    BY <2>3 DEF Asks, game
  <2>4. CASE \E p \in Pids \cup {NoPid} : AsksLoad(p)
    BY <2>4 DEF AsksLoad, game
  <2>5. CASE Starts
    BY <2>5 DEF Starts, game
  <2>6. CASE Restarts
    BY <2>6 DEF Restarts, game
  <2>7. CASE OnDisconnected
    BY <2>7 DEF OnDisconnected, game
  <2>8. CASE Crash
    BY <2>8 DEF Crash, game
  <2>. QED  BY <1>1, <2>1, <2>2, <2>3, <2>4, <2>5, <2>6, <2>7, <2>8 DEF LifeStep
<1>2. CASE ItemStep
  <2>1. CASE \E l, n : AddsTo(l, n)
    BY <2>1 DEF AddsTo, ChangedOne, game
  <2>2. CASE \E i \in Indexes : GotNew(i) /\ conn /\ pid # NoPid
    BY <2>2 DEF GotNew, game
  <2>3. CASE \E l : Trashes(l)
    BY <2>3 DEF Trashes, ChangedOne, game
  <2>4. CASE \E l : PutsOn(l)
    BY <2>4 DEF PutsOn, ChangedOne, game
  <2>5. CASE \E l : PutsOff(l)
    BY <2>5 DEF PutsOff, ChangedOne, game
  <2>. QED  BY <1>2, <2>1, <2>2, <2>3, <2>4, <2>5 DEF ItemStep
<1>3. CASE DbStep
  <2>1. CASE Lists \/ Refuses
    BY <2>1 DEF Lists, Refuses, Kind, game
  <2>2. CASE \E sent : Reads(sent)
    BY <2>2 DEF Reads, Kind, game
  <2>3. CASE Inserts
    BY <2>3 DEF Inserts, Kind, game
  <2>4. CASE SetsNum
    BY <2>4 DEF SetsNum, Kind, game, SameRows
  <2>5. CASE SetsWorn
    BY <2>5 DEF SetsWorn, Kind, game, SameRows
  <2>6. CASE Deletes
    BY <2>6 DEF Deletes, Kind, game
  <2>. QED  BY <1>3, <2>1, <2>2, <2>3, <2>4, <2>5, <2>6 DEF DbStep
<1>4. CASE ListenerStep
  <2>1. CASE Drops
    BY <2>1 DEF Drops, game
  <2>2. CASE GetsPlayers
    BY <2>2 DEF GetsPlayers, Told, game
  <2>3. CASE GetsPlayer \/ IsRefused
    BY <2>3 DEF GetsPlayer, IsRefused, Told, game
  <2>4. CASE \E new, local, size : Loads(new, local, size)
    BY <2>4 DEF Loads, game
  <2>5. CASE \E l, i : Learns(l, i)
    BY <2>5 DEF Learns, game
  <2>. QED  BY <1>4, <2>1, <2>2, <2>3, <2>4, <2>5 DEF ListenerStep
<1>. QED  BY <1>1, <1>2, <1>3, <1>4 DEF Step

\* An IID that is on its way arrives, or the item has gone.
LEMMA HeldOnItsWay ==
    ASSUME TypesInv, NumbersInv, NumbersInv', ConnInv, LoadInv, ItemsInv, Step, ~mixed',
           Loaded, Loaded', NEW i \in DOMAIN rows, IidOnItsWay(i)
    PROVE  Held(i)'
<1>1. /\ ~mixed /\ InsertAhead /\ AnswerAhead /\ BagNumbers /\ DownNumbers /\ RowNumbers
      /\ NamedOnce
  BY MixedStays DEF ItemsInv, NumbersInv
<1>3. ~Restarts /\ conn' /\ conn /\ (\A x : ~FetchedItem(x))
      /\ \A new, local, size : ~Loads(new, local, size)
  BY <1>1, WhileLoaded
<1>4. PICK k \in DOMAIN d2s : d2s[k].type = "D2S_UPDATEITEMIID" /\ d2s[k].iid = i
                              /\ d2s[k].local \in DOMAIN bag.items
  BY DEF IidOnItsWay
<1>5. PICK x : x = d2s[k].local
  OBVIOUS
<1>6. Down("D2S_UPDATEITEMIID", k)
  BY <1>4 DEF Down
<1>7. bag.items[x].iid = 0 /\ i \in DOMAIN origin /\ origin[i] = x
  BY <1>1, <1>4, <1>5, <1>6 DEF AnswerAhead
<1>8. x \in DOMAIN bag'.items \/ Trashes(x)
  BY <1>3, <1>4, <1>5, ItemStays
<1>9. CASE Trashes(x)
  <2>1. x \in lost'
    BY <1>7, <1>9, TrashedRow
  <2>2. origin' = origin
    BY <1>9 DEF Trashes, ChangedOne
  <2>. QED  BY <1>7, <2>1, <2>2 DEF Held
<1>10. CASE x \in DOMAIN bag'.items /\ \E j \in DOMAIN d2s' : d2s'[j] = d2s[k]
  BY <1>4, <1>5, <1>10 DEF Held, IidOnItsWay
<1>11. CASE x \in DOMAIN bag'.items /\ k = 1 /\ ListenerStep
  <2>1. d2s[1].uid = uid
    BY <1>4, <1>6, <1>11 DEF ConnInv, AnswerUid
  <2>2. PICK l, n : Learns(l, n)
    BY <1>3, <1>4, <1>11, <2>1 DEF ListenerStep, Drops, GetsPlayers, GetsPlayer, IsRefused, Told
  <2>3. l = x /\ n = i
    BY <1>4, <1>5, <1>11, <2>2 DEF Learns
  <2>4. bag'.items[x].iid = i
    BY <1>11, <2>2, <2>3, LearntItem
  <2>. QED  BY <1>11, <2>4 DEF Held
<1>. QED  BY <1>3, <1>8, <1>9, <1>10, <1>11, DownStays

LEMMA RowsHeldStep ==
    ASSUME TypesInv, TypesInv', NumbersInv, NumbersInv', ConnInv, LoadInv, ItemsInv,
           RowsHeld, InsertsHeld, Step, ~mixed', Loaded, Loaded', pid' = pid
    PROVE  RowsHeld'
<1>1. ~mixed /\ InsertAhead /\ RowNumbers
  BY MixedStays DEF ItemsInv, NumbersInv
<1>2. ~Restarts /\ conn' /\ conn /\ \A new, local, size : ~Loads(new, local, size)
  BY <1>1, WhileLoaded
<1>3. nextIid \in Nat \ {0}
  BY DEF TypesInv
<1>. SUFFICES ASSUME NEW i \in DOMAIN rows', rows'[i].pid = pid' PROVE Held(i)'
  BY DEF RowsHeld
<1>4. CASE i \in DOMAIN rows /\ rows[i].pid = pid
  <2>1. Held(i)
    BY <1>4 DEF RowsHeld
  <2>2. i # nextIid /\ i # 0
    BY <1>1, <1>3, <1>4, InMaps DEF RowNumbers, TypesInv
  <2>3. CASE ~Untrashed(i)
    BY <1>2, <2>3, HeldTrashed DEF Held
  <2>4. CASE \E l \in DOMAIN bag.items : bag.items[l].iid = i
    <3>1. PICK l \in DOMAIN bag.items : bag.items[l].iid = i
      BY <2>4
    <3>2. (l \in DOMAIN bag'.items /\ bag'.items[l].iid = i) \/ Trashes(l)
      BY <2>2, <3>1, HeldItem
    <3>3. Trashes(l) => ~Untrashed(i)'
      BY <3>1, TrashedRow
    <3>. QED  BY <3>2, <3>3 DEF Held
  <2>5. CASE IidOnItsWay(i)
    BY <1>4, <2>5, HeldOnItsWay
  <2>6. CASE i \in DOMAIN origin /\ origin[i] \in lost
    <3>1. i \in DOMAIN origin' /\ origin'[i] = origin[i] /\ lost \subseteq lost'
      BY <1>2, <2>2, <2>6, OriginHeld
    <3>. QED  BY <2>6, <3>1 DEF Held
  <2>. QED  BY <2>1, <2>3, <2>4, <2>5, <2>6 DEF Held
<1>5. CASE Inserts /\ i = nextIid
  <2>1. bag' = bag /\ lost' = lost
    BY <1>5 DEF Inserts, Kind, game
  <2>2. PICK x : x = s2d[1].local
    OBVIOUS
  <2>3. s2d[1].pid = pid /\ Up("S2D_INSERTITEM", 1)
    BY <1>5 DEF Inserts, Kind, game, Fetched, Up
  <2>4. x \in DOMAIN bag.items \cup lost
    BY <2>2, <2>3 DEF InsertsHeld
  <2>5. PICK a : a = [type |-> "D2S_UPDATEITEMIID", uid |-> s2d[1].uid,
                      local |-> s2d[1].local, iid |-> nextIid]
    OBVIOUS
  <2>6. PICK n \in DOMAIN d2s' : d2s'[n] = a
    BY <1>5, <2>5 DEF Inserts, Answered1
  <2>7. a.type = "D2S_UPDATEITEMIID" /\ a.iid = i /\ a.local = x
    BY <1>5, <2>2, <2>5
  <2>8. CASE x \in DOMAIN bag.items
    BY <2>1, <2>6, <2>7, <2>8 DEF Held, IidOnItsWay
  <2>9. CASE x \in lost
    BY <1>5, <2>1, <2>2, <2>9 DEF Held, Inserts
  <2>. QED  BY <2>4, <2>8, <2>9
<1>. QED  BY <1>4, <1>5, RowOrNew

LEMMA InsertsHeldStep ==
    ASSUME TypesInv, NumbersInv, LoadInv, ItemsInv, InsertsHeld, Step, ~mixed',
           Loaded, Loaded', pid' = pid
    PROVE  InsertsHeld'
<1>1. ~mixed /\ InsertAhead
  BY MixedStays DEF ItemsInv
<1>2. ~Restarts /\ conn' /\ lost \subseteq lost'
  BY <1>1, WhileLoaded, LostStays
<1>. SUFFICES ASSUME NEW k \in DOMAIN s2d', s2d'[k].type = "S2D_INSERTITEM", s2d'[k].pid = pid',
                     NEW x, x = s2d'[k].local
              PROVE  x \in DOMAIN bag'.items \cup lost'
  BY DEF InsertsHeld, Up
<1>3. ASSUME NEW j \in DOMAIN s2d, s2d'[k] = s2d[j]
      PROVE  x \in DOMAIN bag'.items \cup lost'
  <2>1. Up("S2D_INSERTITEM", j) /\ s2d[j].local = x /\ s2d[j].pid = pid
    BY <1>3 DEF Up
  <2>2. CASE x \in lost
    BY <1>2, <2>2
  <2>3. CASE x \in DOMAIN bag.items
    <3>1. bag.items[x].iid = 0
      BY <1>1, <2>1, <2>3 DEF InsertAhead
    <3>2. Trashes(x) => x \in lost'
      BY <3>1, TrashedRow
    <3>. QED  BY <1>2, <2>3, <3>2, ItemStays
  <2>. QED  BY <2>1, <2>2, <2>3 DEF InsertsHeld
<1>4. CASE UpOld({"S2D_INSERTITEM"})
  <2>1. PICK j \in DOMAIN s2d : s2d'[k] = s2d[j]
    BY <1>4, UpIsOld
  <2>. QED  BY <1>3, <2>1
<1>5. ASSUME NEW i \in Indexes, GotNew(i)
      PROVE  x \in DOMAIN bag'.items \cup lost'
  <2>1. PICK m : m = [type |-> "S2D_INSERTITEM", uid |-> uid, local |-> nextLocal + 1, pid |-> pid,
                      index |-> i, num |-> 1]
    OBVIOUS
  <2>2. Sent(m) /\ nextLocal + 1 \in DOMAIN bag'.items
    BY <1>5, <2>1 DEF GotNew
  <2>3. (k \in DOMAIN s2d /\ s2d'[k] = s2d[k]) \/ s2d'[k] = m
    BY <2>2 DEF Sent
  <2>4. s2d'[k] = m => x = nextLocal + 1
    BY <2>1
  <2>. QED  BY <1>3, <2>2, <2>3, <2>4
<1>. QED  BY <1>4, <1>5, OldInserts

LEMMA NewRowUnnamed ==
    ASSUME TypesInv, NumbersInv, Step, NEW i, i = nextIid
    PROVE  Unnamed(i)'
<1>1. BagNumbers /\ UpNumbers /\ nextIid \in Nat
  BY DEF NumbersInv, TypesInv
<1>2. ASSUME NEW m, Names(m, i) PROVE FALSE
  <2>1. s2d[m].iid < nextIid /\ s2d[m].iid = nextIid
    BY <1>1, <1>2 DEF Names, UpNumbers, UpGiven
  <2>. QED  BY <1>1, <2>1
<1>3. Unnamed(i)
  BY <1>2 DEF Unnamed
<1>4. \A m \in DOMAIN bag.items : bag.items[m].iid # i
  BY <1>1 DEF BagNumbers
<1>5. \A m : Trashes(m) \/ ItemChanges(m) => bag.items[m].iid # i
  BY <1>4, ChangesItem DEF Trashes
<1>. QED  BY <1>3, <1>5, UnnamedKept

\* A row that has just been inserted is worn by nobody.
LEMMA NewRowUnworn ==
    ASSUME TypesInv, NumbersInv, Step, Inserts, NEW i, i = nextIid, NEW n
    PROVE  ~WornAt(i, n)'
<1>1. ~rows'[i].worn
  BY DEF Inserts
<1>2. Unnamed(i)'
  BY NewRowUnnamed
<1>3. \A k : ~For("S2D_UPDATEITEMINFO", k, i)'
  BY <1>2 DEF Unnamed, Names, For, Up, Naming
<1>4. \A k : Last("S2D_UPDATEITEMINFO", i, n, k)' => k = 0
  BY <1>3 DEF Last
<1>. QED  BY <1>1, <1>4 DEF WornAt

\* What a change of an item says of its row, and makes of the item.
LEMMA ChangeWorn ==
    ASSUME TypesInv, TypesInv', NEW l, ItemChanges(l), NEW i, i = bag.items[l].iid
    PROVE  \/ PutsOn(l) /\ WornEver(i)' /\ bag'.items[l].worn
           \/ PutsOff(l) /\ ~WornEver(i)' /\ ~bag'.items[l].worn
           \/ (WornEver(i)' <=> WornEver(i)) /\ bag'.items[l].worn = bag.items[l].worn
<1>1. bag.items[l] \in Info /\ l \in DOMAIN bag.items
  BY ChangesItem, ItemTypes DEF TypesInv
<1>2. ASSUME NEW n, AddsTo(l, n)
      PROVE  (WornEver(i)' <=> WornEver(i)) /\ bag'.items[l].worn = bag.items[l].worn
  <2>1. PICK m : m = [type |-> "S2D_UPDATEITEMNUM", iid |-> i, num |-> n]
    OBVIOUS
  <2>2. Sent(m) /\ UNCHANGED rows
    BY <1>2, <2>1 DEF AddsTo, ChangedOne
  <2>3. ~Tells(m, "S2D_UPDATEITEMINFO", i)
    BY <2>1 DEF Tells
  <2>4. bag'.items[l].worn = bag.items[l].worn
    BY <1>1, <1>2 DEF AddsTo, Replaces, Info
  <2>. QED  BY <2>2, <2>3, <2>4, WornOther
<1>3. ASSUME NEW b \in BOOLEAN,
             Sent([type |-> "S2D_UPDATEITEMINFO", iid |-> bag.items[l].iid, worn |-> b]),
             Replaces(bag', bag, l, [bag.items[l] EXCEPT !.worn = b])
      PROVE  (WornEver(i)' <=> b) /\ bag'.items[l].worn = b
  <2>1. PICK m : m = [type |-> "S2D_UPDATEITEMINFO", iid |-> i, worn |-> b]
    OBVIOUS
  <2>2. Sent(m)
    BY <1>3, <2>1
  <2>3. Tells(m, "S2D_UPDATEITEMINFO", i) /\ m.worn = b
    BY <2>1 DEF Tells
  <2>4. bag'.items[l].worn = b
    BY <1>1, <1>3 DEF Replaces, Info
  <2>. QED  BY <2>2, <2>3, <2>4, WornNew
<1>4. CASE PutsOn(l)
  <2>1. /\ Sent([type |-> "S2D_UPDATEITEMINFO", iid |-> bag.items[l].iid, worn |-> TRUE])
        /\ Replaces(bag', bag, l, [bag.items[l] EXCEPT !.worn = TRUE])
    BY <1>4 DEF PutsOn, IsPutOn
  <2>. QED  BY <1>3, <1>4, <2>1
<1>5. CASE PutsOff(l)
  <2>1. /\ Sent([type |-> "S2D_UPDATEITEMINFO", iid |-> bag.items[l].iid, worn |-> FALSE])
        /\ Replaces(bag', bag, l, [bag.items[l] EXCEPT !.worn = FALSE])
    BY <1>5 DEF PutsOff, IsPutOff
  <2>. QED  BY <1>3, <1>5, <2>1
<1>. QED  BY <1>2, <1>4, <1>5 DEF ItemChanges

LEMMA WornHeldStep ==
    ASSUME TypesInv, TypesInv', NumbersInv, LoadInv, ItemsInv, WornHeld, Step, ~mixed',
           Loaded, Loaded', pid' = pid
    PROVE  WornHeld'
<1>1. ~mixed /\ RowKnown /\ RowNumbers
  BY MixedStays DEF ItemsInv, NumbersInv
<1>2. ~Restarts /\ conn'
  BY <1>1, WhileLoaded
<1>. SUFFICES ASSUME NEW i \in DOMAIN rows', rows'[i].pid = pid', WornEver(i)'
              PROVE  \E l \in DOMAIN bag'.items : bag'.items[l].iid = i /\ bag'.items[l].worn
  BY DEF WornHeld
<1>3. ~(Inserts /\ i = nextIid)
  BY NewRowUnworn DEF WornEver
<1>4. i \in DOMAIN rows /\ rows[i].pid = pid
  BY <1>3, RowOrNew
<1>5. i # 0
  BY <1>4, InMaps DEF TypesInv
<1>6. WornEver(i) => \E l \in DOMAIN bag.items : bag.items[l].iid = i /\ bag.items[l].worn
  BY <1>4 DEF WornHeld
<1>7. ASSUME NEW k, ItemChanges(k), bag.items[k].iid = i
      PROVE  \E l \in DOMAIN bag'.items : bag'.items[l].iid = i /\ bag'.items[l].worn
  <2>1. k \in DOMAIN bag.items /\ k \in DOMAIN bag'.items /\ bag'.items[k].iid = i
    BY <1>7, ChangesItem
  <2>2. WornEver(i) => bag.items[k].worn
    BY <1>1, <1>5, <1>6, <1>7, <2>1 DEF RowKnown
  <2>. QED  BY <1>7, <2>1, <2>2, ChangeWorn
<1>8. CASE SaidKept(i) /\ ~\E k : ItemChanges(k) /\ bag.items[k].iid = i
  <2>1. WornEver(i)
    BY <1>8 DEF SaidKept
  <2>2. PICK l \in DOMAIN bag.items : bag.items[l].iid = i /\ bag.items[l].worn
    BY <1>6, <2>1
  <2>3. ~Trashes(l) /\ ~ItemChanges(l)
    BY <1>8, <2>2 DEF Trashes
  <2>4. l \in DOMAIN bag'.items /\ SameItem(l)
    BY <1>5, <2>2, <2>3, HeldItem
  <2>. QED  BY <2>2, <2>4 DEF SameItem
<1>. QED  BY <1>1, <1>2, <1>4, <1>7, <1>8, RowSaid

LEMMA HoldStep ==
    ASSUME TypesInv, TypesInv', NumbersInv, NumbersInv', ConnInv, LoadInv, ItemsInv, HoldInv, Step
    PROVE  HoldInv'
<1>. SUFFICES ASSUME ~mixed', Loaded'
              PROVE  RowsHeld' /\ InsertsHeld' /\ WornHeld'
  BY DEF HoldInv
<1>1. ~mixed /\ ItemsFollow
  BY MixedStays DEF NumbersInv
<1>2. CASE Loaded /\ pid' = pid
  <2>1. RowsHeld /\ InsertsHeld /\ WornHeld
    BY <1>1, <1>2 DEF HoldInv
  <2>. QED  BY <1>2, <2>1, RowsHeldStep, InsertsHeldStep, WornHeldStep
<1>3. CASE \E new, local, size : Loads(new, local, size)
  BY <1>1, <1>3, HoldAfterLoad
<1>. QED  BY <1>1, <1>2, <1>3, LoadedCases

-----------------------------------------------------------------------------
(* PlaceInv is kept.                                                        *)

\* The step changes no flag and no place.
SameFlags ==
    /\ bag'.wear = bag.wear /\ bag'.ride = bag.ride /\ bag'.shown = bag.shown
    /\ \A l : Worn(l)' <=> Worn(l)
    /\ \A l : Worn(l) => bag'.items[l].index = bag.items[l].index

LEMMA OtherFlags ==
    ASSUME TypesInv, NEW l \in DOMAIN bag.items, SameWear(bag', bag),
           \/ \E n : Replaces(bag', bag, l, [bag.items[l] EXCEPT !.num = n])
           \/ \E i : Replaces(bag', bag, l, [bag.items[l] EXCEPT !.iid = i])
    PROVE  SameFlags
<1>1. bag.items[l] \in Info
  BY ItemTypes DEF TypesInv
<1>2. \E it : Replaces(bag', bag, l, it) /\ it.worn = bag.items[l].worn
                /\ it.index = bag.items[l].index
  <2>1. \A n : LET it == [bag.items[l] EXCEPT !.num = n] IN
               it.worn = bag.items[l].worn /\ it.index = bag.items[l].index
    BY <1>1 DEF Info
  <2>2. \A i : LET it == [bag.items[l] EXCEPT !.iid = i] IN
               it.worn = bag.items[l].worn /\ it.index = bag.items[l].index
    BY <1>1 DEF Info
  <2>. QED  BY <2>1, <2>2
<1>3. bag'.wear = bag.wear /\ bag'.ride = bag.ride /\ bag'.shown = bag.shown
  BY DEF SameWear
<1>. QED  BY <1>2, <1>3 DEF SameFlags, Worn, Replaces

LEMMA FlagCases ==
    ASSUME TypesInv, BagNumbers, Step
    PROVE  \/ SameFlags \/ bag' = EmptyBag
           \/ \E new, local, size : Loads(new, local, size)
           \/ \E l : PutsOn(l) \/ PutsOff(l)
<1>1. CASE LifeStep
  <2>1. CASE UNCHANGED vars
    BY <2>1 DEF vars, SameFlags, Worn, game
  <2>2. CASE Connects
    BY <2>2 DEF Connects, SameFlags, Worn, game
  <2>3. CASE Asks
    BY <2>3 DEF Asks, SameFlags, Worn, game
  <2>4. CASE \E p \in Pids \cup {NoPid} : AsksLoad(p)
    BY <2>4 DEF AsksLoad, SameFlags, Worn, game
  <2>5. CASE Starts
    BY <2>5 DEF Starts, SameFlags, Worn, game
  <2>6. CASE Restarts
    BY <2>6 DEF Restarts, SameFlags, Worn, game
  <2>7. CASE OnDisconnected
    BY <2>7 DEF OnDisconnected, SameFlags, Worn, game
  <2>8. CASE Crash
    BY <2>8 DEF Crash, SameFlags, Worn, game
  <2>. QED  BY <1>1, <2>1, <2>2, <2>3, <2>4, <2>5, <2>6, <2>7, <2>8 DEF LifeStep
<1>2. CASE ItemStep
  <2>1. CASE \E l, n : AddsTo(l, n)
    <3>1. PICK l, n : AddsTo(l, n)
      BY <2>1
    <3>2. l \in DOMAIN bag.items /\ SameWear(bag', bag)
              /\ \E k : Replaces(bag', bag, l, [bag.items[l] EXCEPT !.num = k])
      BY <3>1 DEF AddsTo
    <3>. QED  BY <3>2, OtherFlags
  <2>2. CASE \E i \in Indexes : GotNew(i) /\ conn /\ pid # NoPid
    <3>1. PICK i \in Indexes : GotNew(i)
      BY <2>2
    <3>2. nextLocal + 1 \notin DOMAIN bag.items
      BY DEF BagNumbers, TypesInv
    <3>3. ~bag'.items[nextLocal + 1].worn
      BY <3>1 DEF GotNew, NewInfo
    <3>4. PICK y : y = nextLocal + 1
      OBVIOUS
    <3>5. /\ bag'.wear = bag.wear /\ bag'.ride = bag.ride /\ bag'.shown = bag.shown
          /\ DOMAIN bag'.items = DOMAIN bag.items \cup {y}
          /\ \A k \in DOMAIN bag.items \ {y} : bag'.items[k] = bag.items[k]
      BY <3>1, <3>4 DEF GotNew
    <3>. QED  BY <3>2, <3>3, <3>4, <3>5 DEF SameFlags, Worn
  <2>3. CASE \E l : Trashes(l)
    <3>1. PICK l : Trashes(l)
      BY <2>3
    <3>2. ~bag.items[l].worn /\ IsTrashed(bag', bag, l)
      BY <3>1 DEF Trashes
    <3>. QED  BY <3>2 DEF SameFlags, Worn, IsTrashed, SameWear
  <2>4. CASE \E l : PutsOn(l)
    BY <2>4
  <2>5. CASE \E l : PutsOff(l)
    BY <2>5
  <2>. QED  BY <1>2, <2>1, <2>2, <2>3, <2>4, <2>5 DEF ItemStep
<1>3. CASE DbStep
  <2>1. CASE Lists \/ Refuses
    BY <2>1 DEF Lists, Refuses, Kind, SameFlags, Worn, game
  <2>2. CASE \E sent : Reads(sent)
    BY <2>2 DEF Reads, Kind, SameFlags, Worn, game
  <2>3. CASE Inserts
    BY <2>3 DEF Inserts, Kind, SameFlags, Worn, game
  <2>4. CASE SetsNum
    BY <2>4 DEF SetsNum, Kind, SameFlags, Worn, game
  <2>5. CASE SetsWorn
    BY <2>5 DEF SetsWorn, Kind, SameFlags, Worn, game
  <2>6. CASE Deletes
    BY <2>6 DEF Deletes, Kind, SameFlags, Worn, game
  <2>. QED  BY <1>3, <2>1, <2>2, <2>3, <2>4, <2>5, <2>6 DEF DbStep
<1>4. CASE ListenerStep
  <2>1. CASE Drops
    BY <2>1 DEF Drops, SameFlags, Worn, game
  <2>2. CASE GetsPlayers
    BY <2>2 DEF GetsPlayers, Told, SameFlags, Worn, game
  <2>3. CASE GetsPlayer \/ IsRefused
    BY <2>3 DEF GetsPlayer, IsRefused, Told, SameFlags, Worn, game
  <2>4. CASE \E new, local, size : Loads(new, local, size)
    BY <2>4
  <2>5. CASE \E l, i : Learns(l, i)
    <3>1. PICK l, i : Learns(l, i)
      BY <2>5
    <3>2. CASE l \in DOMAIN bag.items
      <4>1. SameWear(bag', bag) /\ Replaces(bag', bag, l, [bag.items[l] EXCEPT !.iid = i])
        BY <3>1, <3>2 DEF Learns
      <4>. QED  BY <3>2, <4>1, OtherFlags
    <3>3. CASE l \notin DOMAIN bag.items
      BY <3>1, <3>3 DEF Learns, SameFlags, Worn
    <3>. QED  BY <3>2, <3>3
  <2>. QED  BY <1>4, <2>1, <2>2, <2>3, <2>4, <2>5 DEF ListenerStep
<1>. QED  BY <1>1, <1>2, <1>3, <1>4 DEF Step

LEMMA PlaceSame ==
    ASSUME WearInPlace, SameFlags
    PROVE  WearInPlace'
<1>1. WornInPlace'
  BY DEF WearInPlace, WornInPlace, SameFlags
<1>2. SlotsWorn'
  BY DEF WearInPlace, SlotsWorn, SameFlags
<1>3. RideWorn'
  BY DEF WearInPlace, RideWorn, SameFlags
<1>4. ShownWorn'
  BY DEF WearInPlace, ShownWorn, SameFlags
<1>. QED  BY <1>1, <1>2, <1>3, <1>4 DEF WearInPlace

LEMMA PlaceEmpty ==
    ASSUME bag' = EmptyBag
    PROVE  WearInPlace'
<1>1. \A l : ~Worn(l)'
  BY Emptied DEF Worn
<1>2. (\A s \in Slots : bag'.wear[s] = NoItem) /\ bag'.ride = NoItem /\ bag'.shown = {}
  BY DEF EmptyBag
<1>. QED  BY <1>1, <1>2 DEF WearInPlace, WornInPlace, SlotsWorn, RideWorn, ShownWorn

\* Only item l gets another flag.
Flags(l, w) ==
    /\ l \in DOMAIN bag.items /\ Worn(l)' = w
    /\ \A k : k # l => (Worn(k)' <=> Worn(k))
    /\ \A k \in DOMAIN bag.items : bag'.items[k].index = bag.items[k].index

LEMMA PutsFlags ==
    ASSUME TypesInv, NEW l
    PROVE  /\ PutsOn(l) => Flags(l, TRUE) /\ ~Worn(l)
           /\ PutsOff(l) => Flags(l, FALSE) /\ Worn(l)
<1>1. ASSUME NEW w \in BOOLEAN, l \in DOMAIN bag.items,
             Replaces(bag', bag, l, [bag.items[l] EXCEPT !.worn = w])
      PROVE  Flags(l, w)
  <2>1. bag.items[l] \in Info
    BY <1>1, ItemTypes DEF TypesInv
  <2>2. PICK it : Replaces(bag', bag, l, it) /\ it.worn = w /\ it.index = bag.items[l].index
    BY <1>1, <2>1 DEF Info
  <2>3. l \in DOMAIN bag'.items /\ bag'.items[l].worn = w
    BY <1>1, <2>2 DEF Replaces
  <2>4. Worn(l)' = w
    BY <2>3, Zenon DEF Worn
  <2>. QED  BY <1>1, <2>2, <2>4 DEF Replaces, Flags, Worn
<1>2. ASSUME PutsOn(l)
      PROVE  Flags(l, TRUE) /\ ~Worn(l)
  <2>1. l \in DOMAIN bag.items /\ Replaces(bag', bag, l, [bag.items[l] EXCEPT !.worn = TRUE])
    BY <1>2 DEF PutsOn, IsPutOn
  <2>2. ~Worn(l)
    BY <1>2 DEF PutsOn, CanPutOn, Worn
  <2>. QED  BY <1>1, <2>1, <2>2
<1>3. ASSUME PutsOff(l)
      PROVE  Flags(l, FALSE) /\ Worn(l)
  <2>1. l \in DOMAIN bag.items /\ Replaces(bag', bag, l, [bag.items[l] EXCEPT !.worn = FALSE])
    BY <1>3 DEF PutsOff, IsPutOff
  <2>2. Worn(l)
    BY <1>3 DEF PutsOff, CanPutOff, Worn
  <2>. QED  BY <1>1, <2>1, <2>2
<1>. QED  BY <1>2, <1>3

LEMMA PlacePutOn ==
    ASSUME TypesInv, WearInPlace, NEW l, PutsOn(l)
    PROVE  WearInPlace'
<1>1. Flags(l, TRUE) /\ ~Worn(l) /\ Worn(l)'
  BY PutsFlags DEF Flags
<1>2. PICK i : i = bag.items[l].index
  OBVIOUS
<1>3. l \in Nat /\ l # NoItem /\ i \in Indexes
  BY <1>1, <1>2, ItemTypes, ConstantTypes DEF Flags, TypesInv, Info
<1>4. /\ bag'.shown = bag.shown \cup {i}
      /\ i \in Rides => /\ bag'.ride = l /\ bag'.wear = bag.wear
      /\ i \notin Rides =>
            /\ bag'.ride = bag.ride
            /\ \A s \in Slots : bag'.wear[s] = IF s = SlotOf[i] THEN l ELSE bag.wear[s]
  BY <1>2 DEF PutsOn, IsPutOn
<1>5. /\ i \in Rides => bag.ride = NoItem
      /\ i \notin Rides => Wearable(i) /\ SlotOf[i] \in Slots /\ bag.wear[SlotOf[i]] = NoItem
  BY <1>2, <1>3, SlotTypes DEF PutsOn, CanPutOn
<1>6. bag'.items[l].index = i /\ \A k : Worn(k)' => k = l \/ (Worn(k) /\ bag'.items[k].index = bag.items[k].index)
  BY <1>1, <1>2 DEF Flags, Worn
<1>7. \A k : Worn(k) => k # l /\ Worn(k)' /\ k # NoItem /\ bag'.items[k].index = bag.items[k].index
                       /\ bag.items[k].index \in Indexes
  <2>1. \A k : Worn(k) => k # NoItem /\ bag.items[k].index \in Indexes
    BY ItemTypes, ConstantTypes DEF Worn, TypesInv, Info
  <2>. QED  BY <1>1, <2>1 DEF Flags, Worn
<1>8. WornInPlace'
  <2>. SUFFICES ASSUME NEW k, Worn(k)', NEW j, j = bag'.items[k].index
                PROVE  (j \in Rides /\ bag'.ride = k) \/ (Wearable(j) /\ bag'.wear[SlotOf[j]] = k)
    BY DEF WornInPlace
  <2>1. CASE k = l
    BY <1>4, <1>5, <1>6, <2>1
  <2>2. CASE k # l
    <3>1. Worn(k) /\ j = bag.items[k].index /\ j \in Indexes /\ k # NoItem
      BY <1>6, <1>7, <2>2
    <3>2. \/ j \in Rides /\ bag.ride = k
          \/ Wearable(j) /\ SlotOf[j] \in Slots /\ bag.wear[SlotOf[j]] = k
      BY <3>1, SlotTypes DEF WearInPlace, WornInPlace
    <3>. QED  BY <1>4, <1>5, <3>1, <3>2
  <2>. QED  BY <2>1, <2>2
<1>9. SlotsWorn'
  <2>. SUFFICES ASSUME NEW s \in Slots, NEW k, k = bag'.wear[s], k # NoItem
                PROVE  Worn(k)' /\ SlotOf[bag'.items[k].index] = s
    BY DEF SlotsWorn
  <2>1. CASE k = bag.wear[s]
    <3>1. Worn(k) /\ SlotOf[bag.items[k].index] = s
      BY <2>1 DEF WearInPlace, SlotsWorn
    <3>. QED  BY <1>7, <3>1
  <2>2. CASE k = l /\ s = SlotOf[i]
    BY <1>1, <1>6, <2>2
  <2>. QED  BY <1>4, <2>1, <2>2
<1>10. RideWorn'
  <2>1. RideWorn
    BY DEF WearInPlace
  <2>2. CASE i \in Rides
    BY <1>1, <1>4, <1>6, <2>2 DEF RideWorn
  <2>3. CASE i \notin Rides
    BY <1>4, <1>7, <2>1, <2>3 DEF RideWorn
  <2>. QED  BY <2>2, <2>3
<1>11. ShownWorn'
  <2>1. \A j : j \in bag.shown <=> \E k : Worn(k) /\ bag.items[k].index = j
    BY DEF WearInPlace, ShownWorn
  <2>2. \A j : (\E k : Worn(k)' /\ bag'.items[k].index = j)
                  <=> j = i \/ \E k : Worn(k) /\ bag.items[k].index = j
    BY <1>1, <1>6, <1>7
  <2>. QED  BY <1>4, <2>1, <2>2 DEF ShownWorn
<1>. QED  BY <1>8, <1>9, <1>10, <1>11 DEF WearInPlace

LEMMA PlacePutOff ==
    ASSUME TypesInv, WearInPlace, NEW l, PutsOff(l)
    PROVE  WearInPlace'
<1>1. Flags(l, FALSE) /\ Worn(l) /\ ~Worn(l)'
  BY PutsFlags DEF Flags
<1>2. PICK i : i = bag.items[l].index
  OBVIOUS
<1>3. l # NoItem /\ i \in Indexes
  BY <1>1, <1>2, ItemTypes, ConstantTypes DEF Flags, TypesInv, Info
<1>4. /\ bag'.shown = bag.shown \ {i}
      /\ i \in Rides => /\ bag'.ride = NoItem /\ bag'.wear = bag.wear
      /\ i \notin Rides =>
            /\ bag'.ride = bag.ride
            /\ \A s \in Slots : bag'.wear[s] = IF s = SlotOf[i] THEN NoItem ELSE bag.wear[s]
  BY <1>2 DEF PutsOff, IsPutOff
<1>5. /\ i \in Rides => bag.ride = l /\ ~Wearable(i)
      /\ i \notin Rides => Wearable(i) /\ SlotOf[i] \in Slots /\ bag.wear[SlotOf[i]] = l
  BY <1>1, <1>2, <1>3, SlotTypes DEF WearInPlace, WornInPlace
<1>6. \A k : Worn(k)' => k # l /\ Worn(k) /\ bag'.items[k].index = bag.items[k].index
  BY <1>1 DEF Flags, Worn
<1>7. \A k : Worn(k) /\ k # l => Worn(k)' /\ bag'.items[k].index = bag.items[k].index
                                  /\ bag.items[k].index \in Indexes
  <2>1. \A k : Worn(k) => bag.items[k].index \in Indexes
    BY ItemTypes DEF Worn, TypesInv, Info
  <2>. QED  BY <1>1, <2>1 DEF Flags, Worn
<1>8. \A k : Worn(k) /\ k # l => bag.items[k].index # i
  <2>1. ASSUME NEW k, Worn(k), k # l, bag.items[k].index = i PROVE FALSE
    <3>1. (i \in Rides /\ bag.ride = k) \/ (Wearable(i) /\ bag.wear[SlotOf[i]] = k)
      BY <2>1 DEF WearInPlace, WornInPlace
    <3>. QED  BY <1>5, <2>1, <3>1
  <2>. QED  BY <2>1
<1>9. WornInPlace'
  <2>. SUFFICES ASSUME NEW k, Worn(k)', NEW j, j = bag'.items[k].index
                PROVE  (j \in Rides /\ bag'.ride = k) \/ (Wearable(j) /\ bag'.wear[SlotOf[j]] = k)
    BY DEF WornInPlace
  <2>1. Worn(k) /\ k # l /\ j = bag.items[k].index /\ j \in Indexes
    BY <1>6, <1>7
  <2>2. \/ j \in Rides /\ bag.ride = k
        \/ Wearable(j) /\ SlotOf[j] \in Slots /\ bag.wear[SlotOf[j]] = k
    BY <2>1, SlotTypes DEF WearInPlace, WornInPlace
  <2>. QED  BY <1>4, <1>5, <2>1, <2>2
<1>10. SlotsWorn'
  <2>. SUFFICES ASSUME NEW s \in Slots, NEW k, k = bag'.wear[s], k # NoItem
                PROVE  Worn(k)' /\ SlotOf[bag'.items[k].index] = s
    BY DEF SlotsWorn
  <2>1. k = bag.wear[s] /\ (i \notin Rides => s # SlotOf[i])
    BY <1>4
  <2>2. Worn(k) /\ SlotOf[bag.items[k].index] = s
    BY <2>1 DEF WearInPlace, SlotsWorn
  <2>3. k # l
    <3>1. k = l => SlotOf[i] = s
      BY <1>2, <2>2
    <3>2. i \in Rides => SlotOf[i] \notin Slots
      BY <1>5, ConstantTypes DEF Wearable
    <3>. QED  BY <2>1, <3>1, <3>2
  <2>. QED  BY <1>7, <2>2, <2>3
<1>11. RideWorn'
  <2>. SUFFICES ASSUME NEW k, k = bag'.ride, k # NoItem
                PROVE  Worn(k)' /\ bag'.items[k].index \in Rides
    BY DEF RideWorn
  <2>1. i \notin Rides /\ k = bag.ride
    BY <1>4
  <2>2. Worn(k) /\ bag.items[k].index \in Rides
    BY <2>1 DEF WearInPlace, RideWorn
  <2>. QED  BY <1>2, <1>7, <2>1, <2>2
<1>12. ShownWorn'
  <2>1. \A j : j \in bag.shown <=> \E k : Worn(k) /\ bag.items[k].index = j
    BY DEF WearInPlace, ShownWorn
  <2>2. \A j : (\E k : Worn(k)' /\ bag'.items[k].index = j)
                  <=> j # i /\ \E k : Worn(k) /\ bag.items[k].index = j
    <3>1. \A k : Worn(k)' => bag'.items[k].index # i /\ Worn(k) /\ bag'.items[k].index = bag.items[k].index
      BY <1>6, <1>8
    <3>2. \A k : Worn(k) /\ bag.items[k].index # i => Worn(k)' /\ bag'.items[k].index = bag.items[k].index
      BY <1>2, <1>7
    <3>. QED  BY <3>1, <3>2
  <2>. QED  BY <1>4, <2>1, <2>2 DEF ShownWorn
<1>. QED  BY <1>9, <1>10, <1>11, <1>12 DEF WearInPlace

\* A claim by one item.
LEMMA ClaimedByOne ==
    ASSUME NEW L \in SUBSET Nat, NEW old, \A k, l \in L : k = l
    PROVE  /\ \A l \in L : Claimed(L, old) = l
           /\ L = {} => Claimed(L, old) = old
<1>1. ASSUME NEW l \in L PROVE Claimed(L, old) = l
  <2>1. \A j \in L : j \in Int /\ j <= l
    OBVIOUS
  <2>2. Max(L) = l
    BY <2>1, LatestIs
  <2>. QED  BY <2>2 DEF Claimed
<1>. QED  BY <1>1 DEF Claimed

\* The flags of the table, before any packet is read.
LEMMA WornAtFirst ==
    ASSUME TypesInv, NEW i
    PROVE  WornAt(i, 0) <=> rows[i].worn
<1>1. \A k : Last("S2D_UPDATEITEMINFO", i, 0, k) <=> k = 0
  BY ForIs DEF Last
<1>. QED  BY <1>1 DEF WornAt

\* What the answer flags can be worn, and together.
LEMMA BroughtTogether ==
    ASSUME TypesInv, KindsInv, LoadInv, RowsInv, ~mixed, ~early,
           NEW new, NEW local, NEW size, Loads(new, local, size),
           NEW l \in DOMAIN new, new[l].worn
    PROVE  /\ CanBeWorn(new[l].index) /\ new[l].index \in Indexes
           /\ \A m \in DOMAIN new : new[m].worn /\ m # l => Together(new[l].index, new[m].index)
<1>. DEFINE sent == d2s[1].rows
<1>1. SameAsTable(sent) /\ RowsOf(pid) = DOMAIN sent
  BY LoadsWhen
<1>2. \A m \in DOMAIN new : \E i \in DOMAIN sent : m = local[i] /\ new[m] = AsItem(i, sent[i])
  BY BroughtItem
<1>3. \A m \in DOMAIN new : \E i \in DOMAIN rows : /\ m = local[i] /\ i \in DOMAIN sent
           /\ new[m].index = rows[i].index /\ new[m].worn = rows[i].worn /\ rows[i].pid = pid
  BY <1>1, <1>2 DEF SameAsTable, RowsOf, AsItem
<1>4. PICK i \in DOMAIN rows : /\ l = local[i] /\ i \in DOMAIN sent
           /\ new[l].index = rows[i].index /\ new[l].worn = rows[i].worn /\ rows[i].pid = pid
  BY <1>3
<1>5. CanBeWorn(new[l].index) /\ new[l].index \in Indexes
  <2>1. TableWearable /\ rows[i] \in Row
    BY InMaps DEF KindsInv, TypesInv
  <2>. QED  BY <1>4, <2>1 DEF TableWearable, Row
<1>6. ASSUME NEW m \in DOMAIN new, new[m].worn, m # l
      PROVE  Together(new[l].index, new[m].index)
  <2>1. PICK j \in DOMAIN rows : /\ m = local[j] /\ j \in DOMAIN sent
           /\ new[m].index = rows[j].index /\ new[m].worn = rows[j].worn /\ rows[j].pid = pid
    BY <1>3
  <2>2. i # j
    BY <1>4, <1>6, <2>1
  <2>3. WornAt(i, 0) /\ WornAt(j, 0)
    BY <1>4, <1>6, <2>1, WornAtFirst
  <2>4. 0 \in 0 .. Len(s2d)
    BY LenProperties DEF TypesInv
  <2>5. Together(rows[i].index, rows[j].index)
    BY <1>4, <2>1, <2>2, <2>3, <2>4 DEF RowsInv
  <2>. QED  BY <1>4, <2>1, <2>5
<1>. QED  BY <1>5, <1>6

LEMMA PlaceLoaded ==
    ASSUME TypesInv, KindsInv, LoadInv, RowsInv, WearInPlace, ~mixed, ~early,
           NEW new, NEW local, NEW size, Loads(new, local, size)
    PROVE  WearInPlace'
<1>. DEFINE On(l) == l \in DOMAIN new /\ new[l].worn
            Of(l) == new[l].index
<1>1. DOMAIN bag.items = {} /\ new \in Maps(Info) /\ bag.items \in Maps(Info)
  BY LoadsWhen DEF Loads, TypesInv, Bag
<1>2. IsInserted(bag', bag, new)
  BY DEF Loads
<1>3. IsAdded(bag'.items, new, bag.items)
  BY <1>1, <1>2, AddedMap DEF IsInserted
<1>4. \A l : (Worn(l)' <=> On(l)) /\ (On(l) => bag'.items[l].index = Of(l))
  BY <1>1, <1>3 DEF IsAdded, Worn
<1>5. \A l : On(l) => /\ CanBeWorn(Of(l)) /\ Of(l) \in Indexes
                     /\ \A m : On(m) /\ m # l => Together(Of(l), Of(m))
  BY BroughtTogether
<1>6. \A l : On(l) => l \in Nat
  BY <1>1, InMaps
<1>7. \A s \in Slots : bag.wear[s] = NoItem
  BY <1>1 DEF WearInPlace, SlotsWorn, Worn
<1>8. bag.ride = NoItem /\ bag.shown = {}
  BY <1>1 DEF WearInPlace, RideWorn, ShownWorn, Worn
<1>9. ASSUME NEW s \in Slots
      PROVE  /\ \A l : On(l) /\ SlotOf[Of(l)] = s => bag'.wear[s] = l
             /\ bag'.wear[s] # NoItem => On(bag'.wear[s]) /\ SlotOf[Of(bag'.wear[s])] = s
  <2>1. \A l : l \in InSlot(new, s) <=> On(l) /\ SlotOf[Of(l)] = s
    BY ConstantTypes DEF InSlot, WornIn, Wearable
  <2>2. InSlot(new, s) \in SUBSET Nat
    BY <1>6, <2>1
  <2>3. \A k, l \in InSlot(new, s) : k = l
    BY <1>5, <2>1, ConstantTypes DEF Together, Wearable
  <2>4. bag'.wear[s] = Claimed(InSlot(new, s), NoItem)
    BY <1>2, <1>7 DEF IsInserted
  <2>. HIDE DEF On, Of
  <2>5. \A l \in InSlot(new, s) : bag'.wear[s] = l
    BY <2>2, <2>3, <2>4, ClaimedByOne
  <2>6. InSlot(new, s) = {} => bag'.wear[s] = NoItem
    BY <2>2, <2>3, <2>4, ClaimedByOne
  <2>. QED  BY <2>1, <2>5, <2>6
<1>10. /\ \A l : On(l) /\ Of(l) \in Rides => bag'.ride = l
       /\ bag'.ride # NoItem => On(bag'.ride) /\ Of(bag'.ride) \in Rides
  <2>1. \A l : l \in Ridden(new) <=> On(l) /\ Of(l) \in Rides
    BY DEF Ridden
  <2>2. Ridden(new) \in SUBSET Nat
    BY <1>6, <2>1
  <2>3. \A k, l \in Ridden(new) : k = l
    BY <1>5, <2>1 DEF Together
  <2>4. bag'.ride = Claimed(Ridden(new), NoItem)
    BY <1>2, <1>8 DEF IsInserted
  <2>. HIDE DEF On, Of
  <2>5. \A l \in Ridden(new) : bag'.ride = l
    BY <2>2, <2>3, <2>4, ClaimedByOne
  <2>6. Ridden(new) = {} => bag'.ride = NoItem
    BY <2>2, <2>3, <2>4, ClaimedByOne
  <2>. QED  BY <2>1, <2>5, <2>6
<1>11. \A j : j \in bag'.shown <=> \E l : On(l) /\ Of(l) = j
  <2>1. bag'.shown = ShownBy(new)
    BY <1>2, <1>8 DEF IsInserted
  <2>2. \A l : l \in WornIn(new) \cup Ridden(new) <=> On(l)
    BY <1>5 DEF WornIn, Ridden, CanBeWorn
  <2>. QED  BY <2>1, <2>2 DEF ShownBy
<1>. HIDE DEF On, Of
<1>12. WornInPlace'
  <2>. SUFFICES ASSUME NEW k, Worn(k)', NEW j, j = bag'.items[k].index
                PROVE  (j \in Rides /\ bag'.ride = k) \/ (Wearable(j) /\ bag'.wear[SlotOf[j]] = k)
    BY DEF WornInPlace
  <2>1. On(k) /\ j = Of(k) /\ CanBeWorn(j) /\ j \in Indexes
    BY <1>4, <1>5
  <2>2. Wearable(j) => SlotOf[j] \in Slots
    BY <2>1, SlotTypes
  <2>. QED  BY <1>9, <1>10, <2>1, <2>2 DEF CanBeWorn
<1>13. SlotsWorn'
  BY <1>4, <1>9 DEF SlotsWorn
<1>14. RideWorn'
  BY <1>4, <1>10 DEF RideWorn
<1>15. ShownWorn'
  BY <1>4, <1>11 DEF ShownWorn
<1>. QED  BY <1>12, <1>13, <1>14, <1>15 DEF WearInPlace

LEMMA PlaceStep ==
    ASSUME TypesInv, NumbersInv, KindsInv, LoadInv, RowsInv, PlaceInv, Step
    PROVE  PlaceInv'
<1>. SUFFICES ASSUME ~mixed', ~early'
              PROVE  WearInPlace'
  BY DEF PlaceInv
<1>1. ~mixed /\ ~early /\ WearInPlace /\ BagNumbers
  BY MixedStays, EarlyStays DEF PlaceInv, NumbersInv
<1>2. CASE bag' = EmptyBag
  BY <1>2, PlaceEmpty
<1>3. ASSUME NEW new, NEW local, NEW size, Loads(new, local, size)
      PROVE  WearInPlace'
  BY <1>1, <1>3, PlaceLoaded
<1>. QED  BY <1>1, <1>2, <1>3, FlagCases, PlaceSame, PlacePutOn, PlacePutOff

-----------------------------------------------------------------------------
(* RowsInv is kept.                                                         *)

\* What the rows say after n packets of s2d', they said after h of s2d.
WasWorn(n, h) ==
    \A x \in DOMAIN rows \cap DOMAIN rows' : WornAt(x, n)' => WornAt(x, h)

LEMMA SentWas ==
    ASSUME TypesInv, TypesInv', NEW m, Sent(m), UNCHANGED rows,
           m.type = "S2D_UPDATEITEMINFO" => ~m.worn,
           NEW n \in 0 .. Len(s2d')
    PROVE  \E h \in 0 .. Len(s2d) : WasWorn(n, h)
<1>1. PICK e : e = Len(s2d) /\ e \in Nat /\ Len(s2d') = e + 1
  BY DEF Sent
<1>2. CASE n <= e
  <2>1. n \in 0 .. Len(s2d)
    BY <1>1, <1>2
  <2>. QED  BY <2>1, WornSent DEF WasWorn
<1>3. CASE n = e + 1
  <2>1. n = Len(s2d')
    BY <1>1, <1>3
  <2>2. ASSUME NEW x, WornAt(x, n)' PROVE WornAt(x, e)
    <3>1. WornEver(x)'
      BY <2>1, <2>2 DEF WornEver
    <3>2. ~Tells(m, "S2D_UPDATEITEMINFO", x)
      BY <3>1, WornNew DEF Tells
    <3>3. WornEver(x)
      BY <3>1, <3>2, WornOther
    <3>. QED  BY <1>1, <3>3 DEF WornEver
  <2>3. WasWorn(n, e) /\ e \in 0 .. Len(s2d)
    BY <1>1, <2>2 DEF WasWorn
  <2>. QED  BY <2>3
<1>. QED  BY <1>1, <1>2, <1>3

LEMMA FetchedWas ==
    ASSUME TypesInv, Fetched,
           \A x \in DOMAIN rows \cap DOMAIN rows' :
              /\ Tells(s2d[1], "S2D_UPDATEITEMINFO", x) => rows'[x].worn = s2d[1].worn
              /\ ~Tells(s2d[1], "S2D_UPDATEITEMINFO", x) => rows'[x].worn = rows[x].worn,
           NEW n \in 0 .. Len(s2d')
    PROVE  \E h \in 0 .. Len(s2d) : WasWorn(n, h)
<1>1. n \in 0 .. Len(s2d) - 1 /\ n + 1 \in 0 .. Len(s2d)
  BY DEF Fetched
<1>2. \A x \in DOMAIN rows \cap DOMAIN rows' : WornAt(x, n)' <=> WornAt(x, n + 1)
  BY <1>1, WornFetched
<1>3. WasWorn(n, n + 1)
  BY <1>2 DEF WasWorn
<1>. QED  BY <1>1, <1>3

LEMMA SameWas ==
    ASSUME UNCHANGED s2d, UNCHANGED rows, NEW n \in 0 .. Len(s2d')
    PROVE  \E h \in 0 .. Len(s2d) : WasWorn(n, h)
<1>1. WasWorn(n, n)
  BY SameRowSaid DEF WasWorn
<1>. QED  BY <1>1

LEMMA GoneWas ==
    ASSUME TypesInv, TypesInv', s2d' = <<>>, UNCHANGED rows, NEW n \in 0 .. Len(s2d')
    PROVE  \E h \in 0 .. Len(s2d) : WasWorn(n, h)
<1>1. n = 0 /\ 0 \in 0 .. Len(s2d)
  BY LenProperties DEF TypesInv
<1>2. \A x : rows'[x] = rows[x]
  OBVIOUS
<1>3. \A x : WornAt(x, 0) <=> rows[x].worn
  BY WornAtFirst
<1>4. \A x : Last("S2D_UPDATEITEMINFO", x, 0, 0)' /\ \A k : Last("S2D_UPDATEITEMINFO", x, 0, k)' => k = 0
  BY DEF Last, For, Up
<1>5. \A x : WornAt(x, 0)' <=> rows'[x].worn
  BY <1>4 DEF WornAt
<1>6. WasWorn(n, 0)
  BY <1>1, <1>2, <1>3, <1>5 DEF WasWorn
<1>. QED  BY <1>1, <1>6

\* Only a handler that puts an item on lets more rows be worn.
LEMMA WornBefore ==
    ASSUME TypesInv, TypesInv', RowNumbers, Step, NEW q \in 0 .. Len(s2d')
    PROVE  \/ \E h \in 0 .. Len(s2d) : WasWorn(q, h)
           \/ \E l : PutsOn(l)
<1>1. CASE LifeStep
  <2>1. CASE UNCHANGED vars
    <3>1. UNCHANGED s2d /\ UNCHANGED rows
      BY <2>1 DEF vars, game, history
    <3>. QED  BY <3>1, SameWas
  <2>2. CASE Connects
    <3>1. PICK m : m = [type |-> "S2D_PLAYERS", uid |-> uid + 1]
      OBVIOUS
    <3>2. Sent(m) /\ UNCHANGED rows
      BY <2>2, <3>1 DEF Connects
    <3>3. m.type = "S2D_UPDATEITEMINFO" => ~m.worn
      BY <3>1
    <3>. QED  BY <3>2, <3>3, SentWas
  <2>3. CASE Asks
    <3>1. PICK m : m = [type |-> "S2D_PLAYERS", uid |-> uid]
      OBVIOUS
    <3>2. Sent(m) /\ UNCHANGED rows
      BY <2>3, <3>1 DEF Asks
    <3>3. m.type = "S2D_UPDATEITEMINFO" => ~m.worn
      BY <3>1
    <3>. QED  BY <3>2, <3>3, SentWas
  <2>4. CASE \E p \in Pids \cup {NoPid} : AsksLoad(p)
    <3>0. PICK p \in Pids \cup {NoPid} : AsksLoad(p)
      BY <2>4
    <3>1. PICK m : m = [type |-> "S2D_LOADPLAYER", uid |-> uid, pid |-> p]
      OBVIOUS
    <3>2. Sent(m) /\ UNCHANGED rows
      BY <3>0, <3>1 DEF AsksLoad
    <3>3. m.type = "S2D_UPDATEITEMINFO" => ~m.worn
      BY <3>1
    <3>. QED  BY <3>2, <3>3, SentWas
  <2>5. CASE Starts
    <3>1. UNCHANGED s2d /\ UNCHANGED rows
      BY <2>5 DEF Starts, game, history
    <3>. QED  BY <3>1, SameWas
  <2>6. CASE Restarts
    <3>1. PICK m : m = [type |-> "S2D_PLAYERS", uid |-> uid]
      OBVIOUS
    <3>2. Sent(m) /\ UNCHANGED rows
      BY <2>6, <3>1 DEF Restarts
    <3>3. m.type = "S2D_UPDATEITEMINFO" => ~m.worn
      BY <3>1
    <3>. QED  BY <3>2, <3>3, SentWas
  <2>7. CASE OnDisconnected
    <3>1. UNCHANGED s2d /\ UNCHANGED rows
      BY <2>7 DEF OnDisconnected, game, history
    <3>. QED  BY <3>1, SameWas
  <2>8. CASE Crash
    <3>1. s2d' = <<>> /\ UNCHANGED rows
      BY <2>8 DEF Crash
    <3>. QED  BY <3>1, GoneWas
  <2>. QED  BY <1>1, <2>1, <2>2, <2>3, <2>4, <2>5, <2>6, <2>7, <2>8 DEF LifeStep
<1>2. CASE ItemStep
  <2>1. CASE \E l, n : AddsTo(l, n)
    <3>0. PICK l, k : AddsTo(l, k)
      BY <2>1
    <3>1. PICK m : m = [type |-> "S2D_UPDATEITEMNUM", iid |-> bag.items[l].iid, num |-> k]
      OBVIOUS
    <3>2. Sent(m) /\ UNCHANGED rows
      BY <3>0, <3>1 DEF AddsTo, ChangedOne
    <3>3. m.type = "S2D_UPDATEITEMINFO" => ~m.worn
      BY <3>1
    <3>. QED  BY <3>2, <3>3, SentWas
  <2>2. CASE \E i \in Indexes : GotNew(i) /\ conn /\ pid # NoPid
    <3>0. PICK i \in Indexes : GotNew(i)
      BY <2>2
    <3>1. PICK m : m = [type |-> "S2D_INSERTITEM", uid |-> uid, local |-> nextLocal + 1, pid |-> pid,
                       index |-> i, num |-> 1]
      OBVIOUS
    <3>2. Sent(m) /\ UNCHANGED rows
      BY <3>0, <3>1 DEF GotNew
    <3>3. m.type = "S2D_UPDATEITEMINFO" => ~m.worn
      BY <3>1
    <3>. QED  BY <3>2, <3>3, SentWas
  <2>3. CASE \E l : Trashes(l)
    <3>0. PICK l : Trashes(l)
      BY <2>3
    <3>1. PICK m : m = [type |-> "S2D_TRASHITEM", iid |-> bag.items[l].iid]
      OBVIOUS
    <3>2. Sent(m) /\ UNCHANGED rows
      BY <3>0, <3>1 DEF Trashes, ChangedOne
    <3>3. m.type = "S2D_UPDATEITEMINFO" => ~m.worn
      BY <3>1
    <3>. QED  BY <3>2, <3>3, SentWas
  <2>4. CASE \E l : PutsOn(l)
    BY <2>4
  <2>5. CASE \E l : PutsOff(l)
    <3>0. PICK l : PutsOff(l)
      BY <2>5
    <3>1. PICK m : m = [type |-> "S2D_UPDATEITEMINFO", iid |-> bag.items[l].iid, worn |-> FALSE]
      OBVIOUS
    <3>2. Sent(m) /\ UNCHANGED rows
      BY <3>0, <3>1 DEF PutsOff, ChangedOne
    <3>3. m.type = "S2D_UPDATEITEMINFO" => ~m.worn
      BY <3>1
    <3>. QED  BY <3>2, <3>3, SentWas
  <2>. QED  BY <1>2, <2>1, <2>2, <2>3, <2>4, <2>5 DEF ItemStep
<1>3. CASE DbStep
  <2>1. CASE Lists \/ Refuses
    <3>1. Fetched /\ s2d[1].type # "S2D_UPDATEITEMINFO"
      BY <2>1 DEF Lists, Refuses, Kind
    <3>2. \A x \in DOMAIN rows \cap DOMAIN rows' : rows'[x].worn = rows[x].worn
      BY <2>1 DEF Lists, Refuses
    <3>. QED  BY <3>1, <3>2, FetchedWas DEF Tells
  <2>2. CASE \E sent : Reads(sent)
    <3>1. Fetched /\ s2d[1].type # "S2D_UPDATEITEMINFO"
      BY <2>2 DEF Reads, Kind
    <3>2. \A x \in DOMAIN rows \cap DOMAIN rows' : rows'[x].worn = rows[x].worn
      BY <2>2 DEF Reads
    <3>. QED  BY <3>1, <3>2, FetchedWas DEF Tells
  <2>3. CASE Inserts
    <3>1. Fetched /\ s2d[1].type # "S2D_UPDATEITEMINFO"
      BY <2>3 DEF Inserts, Kind
    <3>3. nextIid \notin DOMAIN rows
      BY DEF RowNumbers, TypesInv
    <3>2. \A x \in DOMAIN rows \cap DOMAIN rows' : rows'[x].worn = rows[x].worn
      BY <2>3, <3>3 DEF Inserts
    <3>. QED  BY <3>1, <3>2, FetchedWas DEF Tells
  <2>4. CASE SetsNum
    <3>1. Fetched /\ s2d[1].type # "S2D_UPDATEITEMINFO"
      BY <2>4 DEF SetsNum, Kind
    <3>2. \A x \in DOMAIN rows \cap DOMAIN rows' : rows'[x].worn = rows[x].worn
      BY <2>4 DEF SetsNum
    <3>. QED  BY <3>1, <3>2, FetchedWas DEF Tells
  <2>5. CASE SetsWorn
    <3>1. Fetched /\ \A x : Tells(s2d[1], "S2D_UPDATEITEMINFO", x) <=> x = s2d[1].iid
      BY <2>5 DEF SetsWorn, Kind, Tells
    <3>2. \A x \in DOMAIN rows :
              /\ x = s2d[1].iid => rows'[x].worn = s2d[1].worn
              /\ x # s2d[1].iid => rows'[x] = rows[x]
      BY <2>5 DEF SetsWorn
    <3>3. \A x \in DOMAIN rows \cap DOMAIN rows' :
              /\ Tells(s2d[1], "S2D_UPDATEITEMINFO", x) => rows'[x].worn = s2d[1].worn
              /\ ~Tells(s2d[1], "S2D_UPDATEITEMINFO", x) => rows'[x].worn = rows[x].worn
      <4>. SUFFICES ASSUME NEW x \in DOMAIN rows
                    PROVE  /\ x = s2d[1].iid => rows'[x].worn = s2d[1].worn
                           /\ x # s2d[1].iid => rows'[x].worn = rows[x].worn
        BY <3>1
      <4>1. x # s2d[1].iid => rows'[x] = rows[x]
        BY <3>2
      <4>2. x # s2d[1].iid => rows'[x].worn = rows[x].worn
        BY <4>1
      <4>. QED  BY <3>2, <4>2
    <3>. QED  BY <3>1, <3>3, FetchedWas
  <2>6. CASE Deletes
    <3>1. Fetched /\ s2d[1].type # "S2D_UPDATEITEMINFO"
      BY <2>6 DEF Deletes, Kind
    <3>2. \A x \in DOMAIN rows \cap DOMAIN rows' : rows'[x].worn = rows[x].worn
      BY <2>6 DEF Deletes
    <3>. QED  BY <3>1, <3>2, FetchedWas DEF Tells
  <2>. QED  BY <1>3, <2>1, <2>2, <2>3, <2>4, <2>5, <2>6 DEF DbStep
<1>4. CASE ListenerStep
  <2>1. CASE Drops
    <3>1. UNCHANGED s2d /\ UNCHANGED rows
      BY <2>1 DEF Drops, game, history
    <3>. QED  BY <3>1, SameWas
  <2>2. CASE GetsPlayers
    <3>1. UNCHANGED s2d /\ UNCHANGED rows
      BY <2>2 DEF GetsPlayers, Told, game, history
    <3>. QED  BY <3>1, SameWas
  <2>3. CASE GetsPlayer \/ IsRefused
    <3>1. UNCHANGED s2d /\ UNCHANGED rows
      BY <2>3 DEF GetsPlayer, IsRefused, Told, game, history
    <3>. QED  BY <3>1, SameWas
  <2>4. CASE \E new, local, size : Loads(new, local, size)
    <3>1. UNCHANGED s2d /\ UNCHANGED rows
      BY <2>4 DEF Loads, game, history
    <3>. QED  BY <3>1, SameWas
  <2>5. CASE \E l, i : Learns(l, i)
    <3>1. UNCHANGED s2d /\ UNCHANGED rows
      BY <2>5 DEF Learns, game, history
    <3>. QED  BY <3>1, SameWas
  <2>. QED  BY <1>4, <2>1, <2>2, <2>3, <2>4, <2>5 DEF ListenerStep
<1>. QED  BY <1>1, <1>2, <1>3, <1>4 DEF Step

\* What can be put on can be worn with what is worn.
LEMMA PutsTogether ==
    ASSUME TypesInv, WearInPlace, NEW l, CanPutOn(bag, l), NEW m, Worn(m),
           NEW i, i = bag.items[l].index, NEW j, j = bag.items[m].index
    PROVE  Together(i, j) /\ Together(j, i)
<1>1. /\ i \in Indexes /\ j \in Indexes /\ m # NoItem
  BY ItemTypes, ConstantTypes DEF CanPutOn, Worn, TypesInv, Info
<1>2. (j \in Rides /\ bag.ride = m) \/ (Wearable(j) /\ bag.wear[SlotOf[j]] = m)
  BY DEF WearInPlace, WornInPlace
<1>3. \/ i \in Rides /\ bag.ride = NoItem
      \/ /\ Wearable(i)
         /\ i \in TwoHanded => bag.wear[ShieldSlot] = NoItem
         /\ i \in Shields /\ bag.wear[WeaponSlot] # NoItem
               => bag.items[bag.wear[WeaponSlot]].index \notin TwoHanded
         /\ bag.wear[SlotOf[i]] = NoItem
  BY DEF CanPutOn
<1>4. \A k \in {i, j} : /\ k \in Rides => ~Wearable(k)
                        /\ k \in TwoHanded => SlotOf[k] = WeaponSlot
                        /\ k \in Shields => SlotOf[k] = ShieldSlot
  BY <1>1, SlotTypes
<1>5. \A k : k \in TwoHanded => Wearable(k)
  BY ConstantTypes, SlotsAssumption DEF Wearable
<1>6. \A k : k \in Shields => Wearable(k)
  BY ConstantTypes, SlotsAssumption DEF Wearable
<1>7. ~(i \in Rides /\ j \in Rides)
  BY <1>1, <1>2, <1>3, <1>4
<1>8. Wearable(i) \/ Wearable(j) => SlotOf[i] # SlotOf[j]
  <2>. SUFFICES ASSUME Wearable(i) \/ Wearable(j), SlotOf[i] = SlotOf[j] PROVE FALSE
    OBVIOUS
  <2>1. Wearable(i) /\ Wearable(j)
    BY DEF Wearable
  <2>. QED  BY <1>1, <1>2, <1>3, <1>4, <2>1
<1>9. ~(i \in TwoHanded /\ j \in Shields)
  BY <1>1, <1>2, <1>3, <1>4, <1>5, <1>6
<1>10. ~(j \in TwoHanded /\ i \in Shields)
  BY <1>1, <1>2, <1>3, <1>4, <1>5, <1>6
<1>. QED  BY <1>7, <1>8, <1>9, <1>10 DEF Together

\* The rows of a player that are worn when one of his items has been put on.
LEMMA RowsPutOn ==
    ASSUME TypesInv, TypesInv', KindsInv, ConnInv, LoadInv, ItemsInv, HoldInv, RowsInv, PlaceInv,
           ~mixed', ~early', NEW l, PutsOn(l), NEW n \in 0 .. Len(s2d'),
           NEW i \in DOMAIN rows, NEW j \in DOMAIN rows, i # j, rows[i].pid = rows[j].pid,
           WornAt(i, n)', WornAt(j, n)'
    PROVE  Together(rows[i].index, rows[j].index)
<1>1. PICK m, y : y = bag.items[l].iid /\ m = [type |-> "S2D_UPDATEITEMINFO", iid |-> y, worn |-> TRUE]
  OBVIOUS
<1>2. Sent(m) /\ UNCHANGED rows /\ l \in DOMAIN bag.items /\ CanPutOn(bag, l) /\ conn /\ "INGAME" \in roles
  BY <1>1 DEF PutsOn, ChangedOne
<1>3. PICK e : e = Len(s2d) /\ e \in Nat /\ Len(s2d') = e + 1
  BY <1>2 DEF Sent
<1>6. ~mixed /\ ~early /\ loaded
  <2>1. mixed' = mixed /\ early' = (early \/ ~loaded)
    BY DEF PutsOn
  <2>. QED  BY <2>1
<1>4. CASE n <= e
  <2>1. n \in 0 .. Len(s2d)
    BY <1>3, <1>4
  <2>2. WornAt(i, n) /\ WornAt(j, n)
    BY <1>2, <2>1, WornSent
  <2>. QED  BY <1>6, <2>1, <2>2 DEF RowsInv
<1>5. CASE n = e + 1
  <2>1. WornEver(i)' /\ WornEver(j)'
    BY <1>3, <1>5 DEF WornEver
  <2>2. \A x : x # y => ~Tells(m, "S2D_UPDATEITEMINFO", x)
    BY <1>1 DEF Tells
  <2>3. \A x \in {i, j} : x # y => WornEver(x)
    BY <1>2, <2>1, <2>2, WornOther
  <2>4. CASE i # y /\ j # y
    <3>1. WornAt(i, e) /\ WornAt(j, e) /\ e \in 0 .. Len(s2d)
      BY <1>3, <2>3, <2>4 DEF WornEver
    <3>. QED  BY <1>6, <3>1 DEF RowsInv
  <2>5. ASSUME NEW x \in DOMAIN rows, x # y, WornEver(x), y \in DOMAIN rows, rows[x].pid = rows[y].pid
        PROVE  /\ Together(rows[x].index, rows[y].index)
               /\ Together(rows[y].index, rows[x].index)
    <3>1. y # 0
      BY <2>5, InMaps DEF TypesInv
    <3>2. rows[y].pid = pid
      BY <1>1, <1>2, <1>6, <3>1 DEF ItemsInv, RowKnown
    <3>3. ~ItemsNext
      BY <1>2, <1>6 DEF LoadInv, Unasked, Answer, ItemsNext
    <3>4. WornHeld
      BY <1>2, <1>6, <3>3 DEF HoldInv, Loaded
    <3>5. PICK k \in DOMAIN bag.items : bag.items[k].iid = x /\ bag.items[k].worn
      BY <2>5, <3>2, <3>4 DEF WornHeld
    <3>6. rows[x].index = bag.items[k].index /\ rows[y].index = bag.items[l].index
      BY <1>1, <1>2, <2>5, <3>5 DEF KindsInv, BagKinds
    <3>7. WearInPlace /\ Worn(k)
      BY <1>6, <3>5 DEF PlaceInv, Worn
    <3>. QED  BY <1>2, <3>6, <3>7, PutsTogether
  <2>. QED  BY <2>3, <2>4, <2>5
<1>. QED  BY <1>3, <1>4, <1>5

LEMMA RowsStep ==
    ASSUME TypesInv, TypesInv', NumbersInv, KindsInv, ConnInv, LoadInv, ItemsInv, HoldInv,
           RowsInv, PlaceInv, Step
    PROVE  RowsInv'
<1>. SUFFICES ASSUME ~mixed', ~early', NEW n \in 0 .. Len(s2d'),
                     NEW i \in DOMAIN rows', NEW j \in DOMAIN rows', i # j, rows'[i].pid = rows'[j].pid, WornAt(i, n)', WornAt(j, n)'
              PROVE  Together(rows'[i].index, rows'[j].index)
  BY DEF RowsInv
<1>1. ~mixed /\ ~early /\ RowNumbers
  BY MixedStays, EarlyStays DEF NumbersInv
<1>2. \A x \in {i, j} : /\ x \in DOMAIN rows /\ rows'[x].pid = rows[x].pid
                        /\ rows'[x].index = rows[x].index
  BY RowOrNew, NewRowUnworn
<1>3. ASSUME NEW h \in 0 .. Len(s2d), WasWorn(n, h)
      PROVE  Together(rows'[i].index, rows'[j].index)
  <2>1. WornAt(i, h) /\ WornAt(j, h)
    BY <1>2, <1>3 DEF WasWorn
  <2>2. Together(rows[i].index, rows[j].index)
    BY <1>1, <1>2, <2>1 DEF RowsInv
  <2>. QED  BY <1>2, <2>2
<1>4. ASSUME NEW l, PutsOn(l)
      PROVE  Together(rows'[i].index, rows'[j].index)
  <2>1. i \in DOMAIN rows /\ j \in DOMAIN rows /\ rows[i].pid = rows[j].pid
    BY <1>2
  <2>2. Together(rows[i].index, rows[j].index)
    BY <1>1, <1>4, <2>1, RowsPutOn
  <2>. QED  BY <1>2, <2>2
<1>. QED  BY <1>1, <1>3, <1>4, WornBefore

-----------------------------------------------------------------------------
(* The initial state.                                                       *)

LEMMA NoPackets ==
    /\ <<>> \in Seq(ToDb) /\ <<>> \in Seq(ToGame) /\ DOMAIN <<>> = {}
    /\ \A S : <<>> \in Maps(S)
<1>1. DOMAIN <<>> = {}
  OBVIOUS
<1>2. ASSUME NEW S PROVE <<>> \in Maps(S)
  <2>1. <<>> \in [{} -> S] /\ {} \in SUBSET (Nat \ {0})
    OBVIOUS
  <2>. QED  BY <2>1 DEF Maps
<1>. QED  BY <1>1, <1>2

LEMMA FirstRowsCount ==
    /\ Cardinality(DOMAIN FirstRows) \in Nat
    /\ DOMAIN FirstRows = 1 .. Cardinality(DOMAIN FirstRows)
    /\ FirstRows \in Maps(Row)
<1>1. MaxIid \in Nat
  BY BoundsAssumption
<1>2. IsFiniteSet(Iids)
  BY <1>1, FS_Interval DEF Iids
<1>3. DOMAIN FirstRows \subseteq Iids
  BY RowsAssumption
<1>4. Cardinality(DOMAIN FirstRows) \in Nat
  BY <1>2, <1>3, FS_Subset, FS_CardinalityType
<1>5. DOMAIN FirstRows = 1 .. Cardinality(DOMAIN FirstRows)
  BY RowsAssumption
<1>6. FirstRows \in [DOMAIN FirstRows -> Row]
  BY RowsAssumption
<1>7. DOMAIN FirstRows \in SUBSET (Nat \ {0})
  BY <1>1, <1>3 DEF Iids
<1>. QED  BY <1>4, <1>5, <1>6, <1>7 DEF Maps

LEMMA TypesInit ==
    ASSUME Init
    PROVE  TypesInv
<1>1. conn \in BOOLEAN /\ uid \in Nat /\ roles \subseteq {"LOBBY", "LOADING", "INGAME"}
      /\ pid \in Pids \cup {NoPid} /\ nextLocal \in Nat
  BY DEF Init
<1>2. bag \in Bag
  BY Emptied DEF Init
<1>3. nextIid \in Nat \ {0} /\ rows \in Maps(Row)
  BY FirstRowsCount DEF Init
<1>4. s2d \in Seq(ToDb) /\ d2s \in Seq(ToGame) /\ origin \in Maps(Nat)
  BY NoPackets DEF Init
<1>5. awaiting = 0 /\ loaded = FALSE /\ mixed = FALSE /\ early = FALSE /\ lost = {}
  BY DEF Init
<1>6. awaiting \in Int
  BY <1>5
<1>7. loaded \in BOOLEAN /\ mixed \in BOOLEAN /\ early \in BOOLEAN
  BY <1>5, Zenon
<1>8. lost \subseteq Nat
  BY <1>5
<1>. QED  BY <1>1, <1>2, <1>3, <1>4, <1>6, <1>7, <1>8 DEF TypesInv

\* There are no packets and no items.
LEMMA NothingAtFirst ==
    ASSUME Init
    PROVE  /\ DOMAIN s2d = {} /\ DOMAIN d2s = {} /\ DOMAIN bag.items = {}
           /\ Len(s2d) = 0 /\ \A t, k : ~Up(t, k) /\ ~Down(t, k)
<1>1. s2d = <<>> /\ d2s = <<>> /\ DOMAIN bag.items = {}
  BY Emptied DEF Init
<1>. QED  BY <1>1, NoPackets DEF Up, Down

LEMMA NumbersInit ==
    ASSUME Init
    PROVE  NumbersInv
<1>. USE NothingAtFirst
<1>1. BagNumbers /\ UpNumbers /\ DownNumbers
  BY DEF BagNumbers, UpNumbers, DownNumbers
<1>2. RowNumbers
  BY FirstRowsCount DEF RowNumbers, Init
<1>3. NamedOnce /\ ItemsFollow
  BY DEF NamedOnce, ItemsFollow
<1>. QED  BY <1>1, <1>2, <1>3 DEF NumbersInv

LEMMA KindsInit ==
    ASSUME Init
    PROVE  KindsInv
<1>. USE NothingAtFirst
<1>1. BagKinds /\ BagWearable
  BY DEF BagKinds, BagWearable
<1>2. TableWearable
  BY FirstRowsAssumption DEF TableWearable, Init, CanBeWorn
<1>3. InfoKinds /\ InsertKinds /\ AnswerKinds /\ LoadKinds
  BY DEF InfoKinds, InsertKinds, AnswerKinds, LoadKinds
<1>. QED  BY <1>1, <1>2, <1>3 DEF KindsInv

LEMMA BonusInit ==
    ASSUME Init
    PROVE  BonusMatchesWorn
<1>1. bag = EmptyBag /\ DOMAIN bag.items = {}
  BY Emptied DEF Init
<1>2. bag.bonus = 0
  BY <1>1 DEF EmptyBag
<1>3. {l \in DOMAIN bag.items : bag.items[l].worn /\ Wearable(bag.items[l].index)} = {}
  BY <1>1
<1>4. BonusOf(bag.items, {}) = 0
  BY BonusIs, SumEmpty, FS_EmptySet
<1>. QED  BY <1>2, <1>3, <1>4 DEF BonusMatchesWorn

LEMMA OthersInit ==
    ASSUME Init
    PROVE  ConnInv /\ LoadInv /\ ItemsInv /\ HoldInv
<1>1. /\ DOMAIN s2d = {} /\ DOMAIN d2s = {} /\ DOMAIN bag.items = {}
      /\ \A t, k : ~Up(t, k) /\ ~Down(t, k)
  BY NothingAtFirst
<1>2. ~conn /\ awaiting = 0 /\ ~loaded /\ roles = {} /\ bag = EmptyBag
  BY DEF Init
<1>3. ConnInv
  BY <1>1, <1>2 DEF ConnInv, NoConn, InsertUid, AnswerUid
<1>4. LoadInv /\ HoldInv
  BY <1>2 DEF LoadInv, HoldInv, Loaded
<1>5. ItemsInv
  BY <1>1 DEF ItemsInv, RowKnown, RowFollows, InsertAhead, AnswerAhead
<1>. QED  BY <1>3, <1>4, <1>5

LEMMA RowsInit ==
    ASSUME Init
    PROVE  RowsInv
<1>. SUFFICES ASSUME NEW n \in 0 .. Len(s2d), NEW i \in DOMAIN rows, NEW j \in DOMAIN rows,
                     i # j, rows[i].pid = rows[j].pid, WornAt(i, n), WornAt(j, n)
              PROVE  Together(rows[i].index, rows[j].index)
  BY DEF RowsInv
<1>1. n = 0 /\ TypesInv
  BY NothingAtFirst, TypesInit
<1>2. rows[i].worn /\ rows[j].worn
  BY <1>1, WornAtFirst
<1>3. rows = FirstRows
  BY DEF Init
<1>. QED  BY <1>2, <1>3, FirstRowsAssumption

LEMMA PlaceInit ==
    ASSUME Init
    PROVE  PlaceInv
<1>1. bag = EmptyBag
  BY DEF Init
<1>2. \A l : ~Worn(l)
  BY <1>1, Emptied DEF Worn
<1>3. (\A s \in Slots : bag.wear[s] = NoItem) /\ bag.ride = NoItem /\ bag.shown = {}
  BY <1>1 DEF EmptyBag
<1>. QED  BY <1>2, <1>3 DEF PlaceInv, WearInPlace, WornInPlace, SlotsWorn, RideWorn, ShownWorn

-----------------------------------------------------------------------------
(* What the invariant says of the properties.                               *)

LEMMA LastPending ==
    ASSUME TypesInv, NEW t, NEW i, NEW k, Last(t, i, Len(s2d), k)
    PROVE  /\ k = 0 => Pending(t, i) = {}
           /\ k # 0 => Pending(t, i) # {} /\ Max(Pending(t, i)) = k
<1>1. \A j : j \in Pending(t, i) <=> For(t, j, i)
  BY DEF Pending, For, Up
<1>2. \A j \in Pending(t, i) : j \in Int /\ j <= k /\ j > 0
  BY <1>1, ForIs DEF Last
<1>3. k = 0 => Pending(t, i) = {}
  BY <1>2
<1>4. k # 0 => k \in Pending(t, i)
  BY <1>1 DEF Last
<1>. QED  BY <1>2, <1>3, <1>4, LatestIs

LEMMA NumAfterIs ==
    ASSUME TypesInv, NEW i, NEW v, NumIs(i, v)
    PROVE  NumAfter(i) = v
<1>1. PICK k : /\ Last("S2D_UPDATEITEMNUM", i, Len(s2d), k)
               /\ k = 0 => rows[i].num = v
               /\ k # 0 => s2d[k].num = v
  BY DEF NumIs
<1>. QED  BY <1>1, LastPending DEF NumAfter

LEMMA LastOnce ==
    ASSUME NEW t, NEW i, NEW n \in Nat, NEW k, NEW j, Last(t, i, n, k), Last(t, i, n, j)
    PROVE  k = j
<1>1. k \in 0 .. n /\ j \in 0 .. n
  BY DEF Last
<1>2. (k # 0 => k <= j) /\ (j # 0 => j <= k)
  BY <1>1 DEF Last
<1>. QED  BY <1>1, <1>2

\* There is a last one, or none.
LEMMA LastThere ==
    ASSUME TypesInv, NEW t, NEW i, NEW n \in 0 .. Len(s2d)
    PROVE  \E k : Last(t, i, n, k)
<1>. DEFINE T == {m \in Nat : m <= n => \E k : Last(t, i, m, k)}
<1>1. Len(s2d) \in Nat /\ n \in Nat
  BY DEF TypesInv
<1>2. \A j : For(t, j, i) => j \in Nat \ {0}
  BY ForIs
<1>3. 0 \in T
  <2>1. Last(t, i, 0, 0)
    BY <1>2 DEF Last
  <2>. QED  BY <2>1
<1>4. ASSUME NEW m \in T PROVE m + 1 \in T
  <2>. SUFFICES ASSUME m + 1 <= n PROVE \E k : Last(t, i, m + 1, k)
    OBVIOUS
  <2>1. m \in Nat /\ m <= n
    BY <1>1
  <2>2. PICK k : Last(t, i, m, k)
    BY <2>1
  <2>3. CASE For(t, m + 1, i)
    <3>1. Last(t, i, m + 1, m + 1)
      BY <2>1, <2>3 DEF Last
    <3>. QED  BY <3>1
  <2>4. CASE ~For(t, m + 1, i)
    <3>1. \A j : For(t, j, i) /\ j <= m + 1 => j <= m
      BY <1>2, <2>1, <2>4
    <3>2. Last(t, i, m + 1, k)
      BY <2>1, <2>2, <3>1 DEF Last
    <3>. QED  BY <3>2
  <2>. QED  BY <2>3, <2>4
<1>5. T = Nat
  <2>. HIDE DEF T
  <2>1. T \in SUBSET Nat
    BY DEF T
  <2>. QED  BY <1>3, <1>4, <2>1, Induct
<1>. QED  BY SMTT(30), <1>1, <1>5

LEMMA WornAfterIs ==
    ASSUME TypesInv, NEW i \in DOMAIN rows, NEW w \in BOOLEAN, WornEver(i) <=> w
    PROVE  WornAfter(i) = w
<1>1. PICK e : e = Len(s2d) /\ e \in Nat /\ e \in 0 .. Len(s2d)
  BY DEF TypesInv
<1>2. PICK k : Last("S2D_UPDATEITEMINFO", i, e, k)
  BY <1>1, LastThere
<1>3. WornEver(i) <=> (k = 0 => rows[i].worn) /\ (k # 0 => s2d[k].worn)
  BY <1>1, <1>2, LastOnce DEF WornEver, WornAt
<1>4. rows[i] \in Row
  BY InMaps DEF TypesInv
<1>5. rows[i].worn \in BOOLEAN
  BY <1>4 DEF Row
<1>6. k # 0 => s2d[k].worn \in BOOLEAN
  <2>1. k # 0 => Up("S2D_UPDATEITEMINFO", k)
    BY <1>2 DEF Last, For
  <2>. QED  BY <2>1, ToDbFields DEF Up, TypesInv
<1>7. CASE k = 0
  <2>1. WornAfter(i) = rows[i].worn
    BY <1>1, <1>2, <1>7, LastPending DEF WornAfter
  <2>. QED  BY <1>3, <1>5, <1>7, <2>1
<1>8. CASE k # 0
  <2>1. WornAfter(i) = s2d[k].worn
    BY <1>1, <1>2, <1>8, LastPending DEF WornAfter
  <2>. QED  BY <1>3, <1>6, <1>8, <2>1
<1>. QED  BY <1>7, <1>8

LEMMA ItemsSaid ==
    ASSUME TypesInv, KindsInv, ItemsInv
    PROVE  RowsFollowInventory
<1>. SUFFICES ASSUME ~mixed, NEW l \in DOMAIN bag.items \ lost, bag.items[l].iid # 0
              PROVE  /\ Kept(bag.items[l].iid)
                     /\ rows[bag.items[l].iid].index = bag.items[l].index
                     /\ NumAfter(bag.items[l].iid) = bag.items[l].num
                     /\ WornAfter(bag.items[l].iid) = bag.items[l].worn
  BY DEF RowsFollowInventory
<1>1. PICK i : i = bag.items[l].iid
  OBVIOUS
<1>2. i \in DOMAIN rows /\ Untrashed(i)
  BY <1>1 DEF ItemsInv, RowKnown
<1>3. NumIs(i, bag.items[l].num) /\ (WornEver(i) <=> bag.items[l].worn)
  BY <1>1 DEF ItemsInv, RowFollows
<1>4. Kept(i)
  BY <1>2 DEF Kept, Pending, Untrashed, For, Up
<1>5. rows[i].index = bag.items[l].index
  BY <1>1, <1>2 DEF KindsInv, BagKinds
<1>6. bag.items[l].worn \in BOOLEAN
  BY ItemTypes DEF TypesInv, Info
<1>7. NumAfter(i) = bag.items[l].num
  BY <1>3, NumAfterIs
<1>8. WornAfter(i) = bag.items[l].worn
  BY <1>2, <1>3, <1>6, WornAfterIs
<1>. QED  BY <1>1, <1>4, <1>5, <1>7, <1>8

LEMMA HoldSaid ==
    ASSUME ConnInv, LoadInv, HoldInv
    PROVE  InventoryHoldsRows
<1>. SUFFICES ASSUME ~mixed, loaded, awaiting = 0, NEW i \in RowsOf(pid)
              PROVE  \/ ~Kept(i)
                     \/ \E l \in DOMAIN bag.items : bag.items[l].iid = i
                     \/ IidOnItsWay(i)
                     \/ i \in DOMAIN origin /\ origin[i] \in lost
  BY DEF InventoryHoldsRows
<1>1. Loaded
  <2>1. conn
    BY DEF ConnInv, NoConn
  <2>2. Unasked
    BY <2>1 DEF LoadInv
  <2>. QED  BY <2>1, <2>2 DEF Loaded, Unasked, Answer, ItemsNext
<1>2. Held(i)
  BY <1>1 DEF HoldInv, RowsHeld, RowsOf
<1>3. ~Untrashed(i) => ~Kept(i)
  BY DEF Untrashed, Kept, Pending, For, Up
<1>. QED  BY <1>2, <1>3 DEF Held

LEMMA RowsSaid ==
    ASSUME TypesInv, RowsInv
    PROVE  RowsWearable
<1>1. 0 \in 0 .. Len(s2d)
  BY LenProperties DEF TypesInv
<1>2. \A i : WornAt(i, 0) <=> rows[i].worn
  BY WornAtFirst
<1>. QED  BY <1>1, <1>2 DEF RowsInv, RowsWearable, RowsOf

LEMMA PlaceSaid ==
    ASSUME PlaceInv
    PROVE  WearMatchesFlags
<1>. SUFFICES ASSUME ~mixed, ~early
              PROVE  LET worn == {l \in DOMAIN bag.items : bag.items[l].worn} IN
                     /\ \A l \in worn : \/ bag.items[l].index \in Rides /\ bag.ride = l
                                       \/ /\ Wearable(bag.items[l].index)
                                          /\ bag.wear[SlotOf[bag.items[l].index]] = l
                     /\ \A s \in Slots : bag.wear[s] \in worn \cup {NoItem}
                     /\ bag.ride \in worn \cup {NoItem}
                     /\ bag.shown = {bag.items[l].index : l \in worn}
  BY DEF WearMatchesFlags
<1>1. WornInPlace /\ SlotsWorn /\ RideWorn /\ ShownWorn
  BY DEF PlaceInv, WearInPlace
<1>. DEFINE worn == {l \in DOMAIN bag.items : bag.items[l].worn}
<1>2. \A l : l \in worn <=> Worn(l)
  BY DEF Worn
<1>. HIDE DEF worn
<1>3. \A l \in worn : \/ bag.items[l].index \in Rides /\ bag.ride = l
                      \/ /\ Wearable(bag.items[l].index)
                         /\ bag.wear[SlotOf[bag.items[l].index]] = l
  BY <1>1, <1>2 DEF WornInPlace
<1>4. \A s \in Slots : bag.wear[s] \in worn \cup {NoItem}
  BY <1>1, <1>2 DEF SlotsWorn
<1>5. bag.ride \in worn \cup {NoItem}
  BY <1>1, <1>2 DEF RideWorn
<1>6. bag.shown = {bag.items[l].index : l \in worn}
  BY <1>1, <1>2 DEF ShownWorn
<1>. QED  BY <1>3, <1>4, <1>5, <1>6 DEF worn

-----------------------------------------------------------------------------
(* Theorems.                                                                *)

LEMMA NextIsStep ==
    ASSUME TypesInv, NumbersInv, [Next]_vars
    PROVE  Step
  BY StepCases DEF Step

\* The inductive invariant, with an order among its parts: each is kept because
\* those before it hold, and the last three because of each other as well.
IInv ==
    /\ TypesInv /\ NumbersInv /\ KindsInv /\ BonusMatchesWorn
    /\ ConnInv /\ LoadInv /\ ItemsInv /\ HoldInv
    /\ RowsInv /\ PlaceInv

LEMMA InvInit == Init => IInv
  BY TypesInit, NumbersInit, KindsInit, BonusInit, OthersInit, RowsInit, PlaceInit DEF IInv

LEMMA InvStep ==
    ASSUME IInv, [Next]_vars
    PROVE  IInv'
<1>1. /\ TypesInv /\ NumbersInv /\ KindsInv /\ BonusMatchesWorn
      /\ ConnInv /\ LoadInv /\ ItemsInv /\ HoldInv
      /\ RowsInv /\ PlaceInv
  BY DEF IInv
<1>2. Step
  BY <1>1, NextIsStep
<1>3. TypesInv'
  BY <1>1, <1>2, TypesStep DEF Step
<1>4. NumbersInv'
  BY <1>1, <1>2, <1>3, NumbersStep
<1>5. KindsInv'
  BY <1>1, <1>2, KindsStep
<1>6. BonusMatchesWorn'
  BY <1>1, <1>2, <1>3, <1>4, BonusStep
<1>7. ConnInv'
  BY <1>1, <1>2, ConnStep
<1>8. LoadInv'
  BY <1>1, <1>2, <1>3, LoadStep
<1>9. ItemsInv'
  BY <1>1, <1>2, <1>3, ItemsStep
<1>10. HoldInv'
  BY <1>1, <1>2, <1>3, <1>4, HoldStep
<1>11. RowsInv'
  BY <1>1, <1>2, <1>3, RowsStep
<1>12. PlaceInv'
  BY <1>1, <1>2, PlaceStep
<1>. QED  BY <1>3, <1>4, <1>5, <1>6, <1>7, <1>8, <1>9, <1>10, <1>11, <1>12 DEF IInv

\* The invariant holds in every state: what the packets on the link are about has
\* been given, one request for items is answered at most once and with the rows of
\* the table, and items, rows and packets agree.
THEOREM InvHolds == Spec => []IInv
<1>1. IInv /\ [Next]_vars => IInv'
  BY InvStep
<1>. QED  BY InvInit, <1>1, PTL DEF Spec

\* The sums of what is worn hold what the worn items give, whatever the indexes
\* give and however often the sums have left uint16_t.
THEOREM BonusHolds == Spec => []BonusMatchesWorn
<1>1. IInv => BonusMatchesWorn
  BY DEF IInv
<1>. QED  BY <1>1, InvHolds, PTL

\* The item table will hold what the inventory holds, when the packets that are on
\* the link have been read: the handlers change memory first and wait for no answer.
\* (mixed, loads out of turn, is the exception, and lost, items without an IID.)
THEOREM RowsFollow == Spec => []RowsFollowInventory
<1>1. IInv => RowsFollowInventory
  BY ItemsSaid DEF IInv
<1>. QED  BY <1>1, InvHolds, PTL

\* No item comes back: once items have been loaded, each row that will be kept belongs
\* to an item in memory, or to one that was changed while its IID was 0.
THEOREM NothingComesBack == Spec => []InventoryHoldsRows
<1>1. IInv => InventoryHoldsRows
  BY HoldSaid DEF IInv
<1>. QED  BY <1>1, InvHolds, PTL

\* A flagged item is where PutOff looks for it, and a slot, the ride and what others
\* are shown hold flagged items only.  (mixed and early are the exceptions: loads out
\* of turn, and items put on by a player whose own have not been loaded.)
THEOREM WearMatches == Spec => []WearMatchesFlags
<1>1. IInv => WearMatchesFlags
  BY PlaceSaid DEF IInv
<1>. QED  BY <1>1, InvHolds, PTL

\* Wherever the game server dies between two packets, the table holds what Insert can
\* put on: one item in a slot, one ride, no shield beside a two-handed sword.  The
\* exceptions are those of WearMatches.
THEOREM TableWearableAlways == Spec => []RowsWearable
<1>1. IInv => RowsWearable
  BY RowsSaid DEF IInv
<1>. QED  BY <1>1, InvHolds, PTL

=============================================================================
