---------------------------- MODULE SpawnsProofs ----------------------------
(***************************************************************************)
(* Proofs about Spawns, for any monsters, spawns, players, times and       *)
(* tables.                                                                 *)
(***************************************************************************)
EXTENDS Spawns, FiniteSetTheorems, WellFoundedInduction, TLAPS

\* What TypeOK says of one monster.
MonsterType ==
    [id : 0..nextId - 1, hp : 0..MaxHp, gstate : SUBSET {"KNEE", "KO"},
     removed : BOOLEAN, dying : 0..KneeTime,
     hostility : [Players -> 0..MaxHp], total : 0..Width - 1]

\* A monster lies or kneels exactly when it has no life points, and only then it
\* may be removed; its attackers have dealt no more than it has lost, and are
\* forgotten when it dies.
LifeInv ==
    \A m \in DOMAIN mon :
        /\ mon[m].hp = 0 <=> mon[m].gstate # {}
        /\ mon[m].removed => mon[m].hp = 0
        /\ \A p \in Players : mon[m].hostility[p] + mon[m].hp <= MaxHp
        /\ mon[m].hp = 0 => mon[m].hostility = NoHostility

\* No two monsters have one ID.
IdsUnique == \A m, n \in DOMAIN mon : mon[m].id = mon[n].id => m = n

\* The history: numbers, and summoned monsters are in the world while they are.
CountsInv ==
    /\ lives \in [Monsters -> Nat] /\ deaths \in [Monsters -> Nat]
    /\ \A m \in DOMAIN mon \ Spawned : ~mon[m].removed /\ mon[m].id \in DOMAIN monsters

SpawnsInv == TypeOK /\ EntriesAgree /\ DiesOnce /\ LifeInv /\ IdsUnique /\ CountsInv

-----------------------------------------------------------------------------
(* Numbers.                                                                 *)

LEMMA Numbers ==
    /\ MaxHp \in Nat /\ MaxHp > 0 /\ Cycle \in Nat /\ KneeTime \in Nat
    /\ LootTime \in Nat /\ Width \in Nat /\ Width > 0
BY NumbersAssumption

LEMMA MinOfTwo ==
    ASSUME NEW a \in Int, NEW b \in Int
    PROVE  /\ Min({a, b}) \in {a, b}
           /\ Min({a, b}) <= a /\ Min({a, b}) <= b
<1>1. \E x \in {a, b} : \A y \in {a, b} : x =< y
  <2>1. CASE a <= b
    BY <2>1
  <2>2. CASE ~(a <= b)
    BY <2>2
  <2>. QED BY <2>1, <2>2
<1>2. /\ Min({a, b}) \in {a, b}
      /\ \A y \in {a, b} : Min({a, b}) =< y
  BY <1>1 DEF Min
<1>. QED BY <1>2

LEMMA CappedCount ==
    ASSUME NEW n \in Int, NEW cap \in Nat, NEW low \in Int, low <= n, low <= cap
    PROVE  Min({n + 1, cap}) \in low..cap
<1> DEFINE m == n + 1
<1>1. m \in Int /\ low <= m
  OBVIOUS
<1> HIDE DEF m
<1>2. Min({m, cap}) \in low..cap
  BY <1>1, MinOfTwo
<1>. QED BY <1>2 DEF m

LEMMA IntervalGrows ==
    ASSUME NEW a \in Nat, NEW b \in Nat, a <= b
    PROVE  0 .. a - 1 \subseteq 0 .. b - 1
OBVIOUS

LEMMA ModInRange ==
    ASSUME NEW n \in Int, NEW w \in Nat, w > 0
    PROVE  n % w \in 0 .. w - 1
OBVIOUS

\* The IDs of the monsters that the spawns are created with.
LEMMA FirstIdsGiven ==
    /\ Cardinality(Spawned) \in Nat
    /\ FirstIds \in [Spawned -> 0 .. Cardinality(Spawned) - 1]
    /\ \A m, n \in Spawned : m # n => FirstIds[m] # FirstIds[n]
<1> DEFINE c == Cardinality(Spawned)
<1>1. c \in Nat /\ ExistsBijection(1..c, Spawned)
  BY FS_CardinalityType, FiniteAssumption
<1>2. PICK f \in [1..c -> Spawned] :
        /\ \A i, j \in 1..c : f[i] = f[j] => i = j
        /\ \A m \in Spawned : \E i \in 1..c : f[i] = m
  BY <1>1 DEF ExistsBijection, Bijection, Injection, Surjection, IsInjective
<1> DEFINE g == [m \in Spawned |-> (CHOOSE i \in 1..c : f[i] = m) - 1]
<1>3. \A m \in Spawned : (CHOOSE i \in 1..c : f[i] = m) \in 1..c
                         /\ f[CHOOSE i \in 1..c : f[i] = m] = m
  BY <1>2
<1>4. g \in [Spawned -> 0..c - 1]
  BY <1>1, <1>3
<1>5. \A m, n \in Spawned : m # n => g[m] # g[n]
  BY <1>1, <1>3
<1>6. \E h \in [Spawned -> 0..c - 1] : \A m, n \in Spawned : m # n => h[m] # h[n]
  BY <1>4, <1>5
<1>. QED BY <1>1, <1>6 DEF FirstIds

-----------------------------------------------------------------------------
(* The monsters of a state.                                                 *)

LEMMA MonsterTypes ==
    ASSUME SpawnsInv, NEW m \in DOMAIN mon
    PROVE  mon[m] \in MonsterType
BY DEF SpawnsInv, TypeOK, MonsterType

\* The initial state.
LEMMA InitInv == Init => SpawnsInv
<1> SUFFICES ASSUME Init PROVE SpawnsInv
  OBVIOUS
<1> DEFINE c == Cardinality(Spawned)
<1>1. /\ c \in Nat
      /\ FirstIds \in [Spawned -> 0..c - 1]
      /\ \A m, n \in Spawned : m # n => FirstIds[m] # FirstIds[n]
  BY FirstIdsGiven
<1>2. PICK leftover \in [Spawned -> Leftovers], inside \in [Spawned -> BOOLEAN] :
        /\ \A m \in Spawned : inside[m] \in Inside(m)
        /\ mon = [m \in Spawned |-> NewMonster(FirstIds[m], leftover[m])]
        /\ onMap = Restrict(monsters, {FirstIds[m] : m \in {n \in Spawned : inside[n]}})
  BY DEF Init
<1>3. /\ phase = "wait" /\ todo = {} /\ loots = <<>>
      /\ monsters = AntiFunction(FirstIds)
      /\ since = [s \in Spawns |-> -Cycle] /\ nextId = c
      /\ lives = [m \in Monsters |-> IF m \in Spawned THEN 1 ELSE 0]
      /\ deaths = [m \in Monsters |-> 0]
  BY DEF Init
<1>4. /\ DOMAIN monsters = {FirstIds[m] : m \in Spawned}
      /\ \A m \in Spawned : monsters[FirstIds[m]] = m
  BY <1>1, <1>3 DEF AntiFunction, Inverse, Range
<1>5. \A m \in Spawned : mon[m] = NewMonster(FirstIds[m], leftover[m])
  BY <1>2
<1>6. \A m \in DOMAIN mon : mon[m] \in MonsterType
  <2> SUFFICES ASSUME NEW m \in Spawned PROVE mon[m] \in MonsterType
    BY <1>2
  <2>1. FirstIds[m] \in 0..nextId - 1
    BY <1>1, <1>3
  <2>2. leftover[m] \in 0..Width - 1
    BY <1>2, NumbersAssumption
  <2>3. NoHostility \in [Players -> 0..MaxHp]
    BY Numbers DEF NoHostility
  <2>4. MaxHp \in 0..MaxHp /\ 0 \in 0..KneeTime
    BY Numbers
  <2>5. mon[m] = NewMonster(FirstIds[m], leftover[m])
    BY <1>5
  <2>. QED BY <2>1, <2>2, <2>3, <2>4, <2>5 DEF NewMonster, MonsterType
<1>7. DOMAIN onMap \subseteq DOMAIN monsters
      /\ \A i \in DOMAIN onMap : onMap[i] = monsters[i]
  BY <1>2, <1>4 DEF Restrict
<1>8. TypeOK
  <2>1. DOMAIN loots = {}
    BY <1>3
  <2>2. since \in [Spawns -> -Cycle..Cycle]
    BY <1>3, Numbers
  <2>3. DOMAIN monsters \cup DOMAIN onMap \cup DOMAIN loots \subseteq 0..nextId - 1
    BY <1>1, <1>3, <1>4, <1>7, <2>1
  <2>. QED BY <1>1, <1>2, <1>3, <1>6, <2>1, <2>2, <2>3 DEF TypeOK, MonsterType, Monsters
<1>9. EntriesAgree
  <2>1. \A i \in DOMAIN monsters : monsters[i] \in DOMAIN mon /\ mon[monsters[i]].id = i
    BY <1>2, <1>4, <1>5 DEF NewMonster
  <2>2. \A m \in Spawned : mon[m].removed <=> mon[m].id \notin DOMAIN monsters
    <3> SUFFICES ASSUME NEW m \in Spawned
                 PROVE  ~mon[m].removed /\ mon[m].id \in DOMAIN monsters
      OBVIOUS
    <3>1. mon[m] = NewMonster(FirstIds[m], leftover[m])
      BY <1>5
    <3>2. ~mon[m].removed /\ mon[m].id = FirstIds[m]
      BY <3>1 DEF NewMonster
    <3>. QED BY <1>4, <3>2
  <2>3. ASSUME NEW i \in DOMAIN monsters \ DOMAIN onMap
        PROVE  FALSE \in Inside(monsters[i])
    <3>1. PICK m \in Spawned : i = FirstIds[m]
      BY <1>4
    <3>2. inside[m] = FALSE
      BY <1>2, <1>4, <3>1, <2>3 DEF Restrict
    <3>. QED BY <1>2, <1>4, <3>1, <3>2
  <2>. QED BY <1>7, <2>1, <2>2, <2>3 DEF EntriesAgree
<1>10. DiesOnce
  BY <1>2, <1>3, <1>5, Numbers DEF DiesOnce, NewMonster, Monsters
<1>11. LifeInv
  BY <1>2, <1>5, Numbers DEF LifeInv, NewMonster, NoHostility
<1>12. IdsUnique
  BY <1>1, <1>2, <1>5 DEF IdsUnique, NewMonster
<1>13. CountsInv
  BY <1>2, <1>3 DEF CountsInv
<1>. QED BY <1>8, <1>9, <1>10, <1>11, <1>12, <1>13 DEF SpawnsInv

-----------------------------------------------------------------------------
(* The steps.                                                               *)

\* A step that leaves the monsters and their containers alone.
LEMMA Quiet ==
    ASSUME SpawnsInv, UNCHANGED <<world, lives, deaths>>,
           phase' \in {"wait", "monsters", "loots", "dead", "spawns"},
           todo' \subseteq Spawns, since' \in [Spawns -> -Cycle..Cycle],
           nextId' \in Nat, nextId <= nextId',
           DOMAIN loots' \subseteq 0..nextId' - 1,
           \A i \in DOMAIN loots' : loots'[i].age \in 0..LootTime
    PROVE  SpawnsInv'
<1>1. nextId \in Nat
  BY DEF SpawnsInv, TypeOK
<1>2. TypeOK'
  BY <1>1 DEF SpawnsInv, TypeOK, world
<1>3. EntriesAgree' /\ DiesOnce'
  BY DEF SpawnsInv, EntriesAgree, DiesOnce, world
<1>4. LifeInv' /\ IdsUnique' /\ CountsInv'
  BY DEF SpawnsInv, LifeInv, IdsUnique, CountsInv, world
<1>. QED BY <1>2, <1>3, <1>4 DEF SpawnsInv

\* A step that changes monsters and leaves the containers alone: each keeps its
\* ID and its flag, and dies if it loses all it has left.
LEMMA MonstersChange ==
    ASSUME SpawnsInv, UNCHANGED <<todo, monsters, onMap, lives>>,
           phase' \in {"wait", "monsters", "loots", "dead", "spawns"},
           since' \in [Spawns -> -Cycle..Cycle],
           nextId' \in Nat, nextId <= nextId',
           DOMAIN loots' \subseteq 0..nextId' - 1,
           \A i \in DOMAIN loots' : loots'[i].age \in 0..LootTime,
           DOMAIN mon' = DOMAIN mon,
           \A m \in DOMAIN mon :
             /\ mon'[m] \in MonsterType
             /\ mon'[m].id = mon[m].id /\ mon'[m].removed = mon[m].removed
             /\ mon'[m].hp = 0 <=> mon'[m].gstate # {}
             /\ mon[m].hp = 0 => mon'[m].hp = 0
             /\ mon'[m].hp = 0 => mon'[m].hostility = NoHostility
             /\ \A p \in Players : mon'[m].hostility[p] + mon'[m].hp <= MaxHp,
           deaths' \in [Monsters -> Nat],
           \A m \in Monsters :
             deaths'[m] = deaths[m] + (IF m \in DOMAIN mon /\ mon[m].hp > 0 /\ mon'[m].hp = 0
                                       THEN 1 ELSE 0)
    PROVE  SpawnsInv'
<1>1. nextId \in Nat
  BY DEF SpawnsInv, TypeOK
<1>2. \A m \in DOMAIN mon : mon[m].hp \in 0..MaxHp /\ mon'[m].hp \in 0..MaxHp
  BY DEF SpawnsInv, TypeOK, MonsterType
<1>3. TypeOK'
  <2>1. 0..nextId - 1 \subseteq 0..nextId' - 1
    BY <1>1, IntervalGrows
  <2>2. \A m \in DOMAIN mon' :
          mon'[m] \in [id : 0..nextId' - 1, hp : 0..MaxHp, gstate : SUBSET {"KNEE", "KO"},
                       removed : BOOLEAN, dying : 0..KneeTime,
                       hostility : [Players -> 0..MaxHp], total : 0..Width - 1]
    BY <2>1 DEF MonsterType
  <2>3. DOMAIN monsters' \cup DOMAIN onMap' \cup DOMAIN loots' \subseteq 0..nextId' - 1
    BY <2>1 DEF SpawnsInv, TypeOK
  <2>. QED BY <2>2, <2>3 DEF SpawnsInv, TypeOK
<1>4. EntriesAgree'
  <2>1. Spawned \subseteq DOMAIN mon
    BY DEF SpawnsInv, TypeOK
  <2>. QED BY <2>1 DEF SpawnsInv, EntriesAgree, Inside
<1>5. DiesOnce'
  <2> SUFFICES ASSUME NEW m \in Monsters
               PROVE  lives'[m] = deaths'[m] +
                        (IF m \in DOMAIN mon' /\ mon'[m].hp > 0 THEN 1 ELSE 0)
    BY DEF DiesOnce
  <2>1. lives[m] = deaths[m] + (IF m \in DOMAIN mon /\ mon[m].hp > 0 THEN 1 ELSE 0)
        /\ lives[m] \in Nat /\ deaths[m] \in Nat
    BY DEF SpawnsInv, DiesOnce, CountsInv
  <2>2. CASE m \notin DOMAIN mon
    BY <2>1, <2>2
  <2>3. CASE m \in DOMAIN mon
    <3>1. mon[m].hp \in 0..MaxHp /\ mon'[m].hp \in 0..MaxHp
      BY <1>2, <2>3
    <3>2. mon[m].hp = 0 => mon'[m].hp = 0
      BY <2>3
    <3>3. deaths'[m] = deaths[m] + (IF mon[m].hp > 0 /\ mon'[m].hp = 0 THEN 1 ELSE 0)
      BY <2>3
    <3>. QED BY <2>1, <2>3, <3>1, <3>2, <3>3, Numbers
  <2>. QED BY <2>2, <2>3
<1>6. LifeInv'
  BY DEF SpawnsInv, LifeInv
<1>7. IdsUnique'
  BY DEF SpawnsInv, IdsUnique
<1>8. CountsInv'
  BY DEF SpawnsInv, CountsInv
<1>. QED BY <1>3, <1>4, <1>5, <1>6, <1>7, <1>8 DEF SpawnsInv

\* The damage an attack deals.
LEMMA DealtBound ==
    ASSUME SpawnsInv, NEW m \in DOMAIN mon, NEW d \in 0..MaxHp
    PROVE  Dealt(m, d) \in 0..mon[m].hp
<1>1. mon[m].hp \in 0..MaxHp
  BY MonsterTypes DEF MonsterType
<1>2. /\ Min({d, mon[m].hp}) \in {d, mon[m].hp}
      /\ Min({d, mon[m].hp}) <= mon[m].hp
  BY <1>1, MinOfTwo, Numbers
<1>. QED BY <1>1, <1>2, Numbers DEF Dealt

\* The target of a handler: the map holds monsters that exist, under their IDs.
LEMMA OnMapExists ==
    ASSUME SpawnsInv, NEW id \in DOMAIN onMap
    PROVE  onMap[id] \in DOMAIN mon /\ onMap[id] \in Monsters
BY DEF SpawnsInv, EntriesAgree, TypeOK

LEMMA LootDropped ==
    ASSUME SpawnsInv, NEW drop, DropLoot(drop)
    PROVE  /\ nextId' \in Nat /\ nextId <= nextId'
           /\ DOMAIN loots' \subseteq 0..nextId' - 1
           /\ \A i \in DOMAIN loots' : loots'[i].age \in 0..LootTime
<1>1. nextId \in Nat /\ DOMAIN loots \subseteq 0..nextId - 1
      /\ \A i \in DOMAIN loots : loots[i].age \in 0..LootTime
  BY DEF SpawnsInv, TypeOK
<1>2. CASE drop = NoItem
  BY <1>1, <1>2 DEF DropLoot
<1>3. CASE drop # NoItem
  <2>1. loots' = With(loots, nextId, [item |-> drop, age |-> 0]) /\ nextId' = nextId + 1
    BY <1>3 DEF DropLoot
  <2>2. DOMAIN loots' = DOMAIN loots \cup {nextId}
        /\ \A i \in DOMAIN loots' : loots'[i] = (IF i = nextId THEN [item |-> drop, age |-> 0]
                                                ELSE loots[i])
    BY <2>1 DEF With
  <2>3. 0..nextId - 1 \subseteq 0..nextId' - 1 /\ nextId \in 0..nextId' - 1
    BY <1>1, <2>1, IntervalGrows
  <2>. QED BY <1>1, <2>1, <2>2, <2>3, Numbers
<1>. QED BY <1>2, <1>3

LEMMA AttackInv ==
    ASSUME SpawnsInv, NEW p \in Players, NEW id \in Ids, NEW d \in 0..MaxHp,
           Attack(p, id, d)
    PROVE  SpawnsInv'
<1> DEFINE m == onMap[id]
           dealt == Dealt(m, d)
           hurt == [mon[m] EXCEPT !.hp = @ - dealt, !.hostility[p] = @ + dealt,
                                  !.total = (@ + dealt) % Width]
           dead == [hurt EXCEPT !.hostility = NoHostility, !.total = 0,
                        !.gstate = @ \cup {IF m \in Beheadable THEN "KNEE" ELSE "KO"},
                        !.dying = 0]
<1>1. m \in DOMAIN mon /\ m \in Monsters /\ mon[m] \in MonsterType
  BY OnMapExists, MonsterTypes DEF Attack
<1>2. dealt \in 0..mon[m].hp
  BY <1>1, DealtBound
<1>3. mon[m].hp > 0 /\ mon[m].gstate = {} /\ mon[m].hp \in 0..MaxHp
  BY <1>1 DEF Attack, CanAttack, MonsterType
<1>4. /\ \A q \in Players : mon[m].hostility[q] + mon[m].hp <= MaxHp
      /\ mon[m].hostility \in [Players -> 0..MaxHp] /\ mon[m].total \in 0..Width - 1
  BY <1>1 DEF SpawnsInv, LifeInv, MonsterType
<1>5. /\ hurt.id = mon[m].id /\ hurt.removed = mon[m].removed
      /\ hurt.gstate = {} /\ hurt.hp = mon[m].hp - dealt
      /\ hurt.hostility = [mon[m].hostility EXCEPT ![p] = @ + dealt]
  BY <1>1, <1>3 DEF MonsterType
<1>6. /\ hurt.hp \in 0..MaxHp
      /\ \A q \in Players : hurt.hostility[q] \in 0..MaxHp
                            /\ hurt.hostility[q] + hurt.hp <= MaxHp
  BY <1>2, <1>3, <1>4, <1>5, Numbers
<1>7. (mon[m].total + dealt) % Width \in 0..Width - 1
  <2>1. mon[m].total + dealt \in Int
    BY <1>2, <1>3, <1>4, Numbers
  <2>. QED BY <2>1, ModInRange, Numbers
<1>8. hurt \in MonsterType
  <2>1. hurt.hostility \in [Players -> 0..MaxHp]
    BY <1>4, <1>5, <1>6
  <2>. QED BY <1>1, <1>5, <1>6, <1>7, <2>1 DEF MonsterType
<1>9. deaths \in [Monsters -> Nat]
  BY DEF SpawnsInv, CountsInv
<1> HIDE DEF hurt
<1>10. /\ \A n \in DOMAIN mon : mon[n] \in MonsterType
       /\ \A n \in DOMAIN mon :
             /\ mon[n].hp = 0 <=> mon[n].gstate # {}
             /\ mon[n].hp = 0 => mon[n].hostility = NoHostility
             /\ \A q \in Players : mon[n].hostility[q] + mon[n].hp <= MaxHp
  BY MonsterTypes DEF SpawnsInv, LifeInv
<1>11. CASE hurt.hp > 0
  <2>1. mon' = [mon EXCEPT ![m] = hurt] /\ UNCHANGED <<loots, nextId, deaths>>
    BY <1>11 DEF Attack, hurt
  <2>2. \A n \in DOMAIN mon : mon'[n] = (IF n = m THEN hurt ELSE mon[n])
    BY <2>1
  <2>3. /\ DOMAIN mon' = DOMAIN mon
        /\ \A n \in DOMAIN mon :
             /\ mon'[n] \in MonsterType
             /\ mon'[n].id = mon[n].id /\ mon'[n].removed = mon[n].removed
             /\ mon'[n].hp = 0 <=> mon'[n].gstate # {}
             /\ mon[n].hp = 0 => mon'[n].hp = 0
             /\ mon'[n].hp = 0 => mon'[n].hostility = NoHostility
             /\ \A q \in Players : mon'[n].hostility[q] + mon'[n].hp <= MaxHp
    <3>1. hurt.hp # 0 /\ hurt.gstate = {} /\ mon[m].hp # 0
      BY <1>3, <1>5, <1>6, <1>11
    <3> SUFFICES ASSUME NEW n \in DOMAIN mon
                 PROVE  /\ mon'[n] \in MonsterType
                        /\ mon'[n].id = mon[n].id /\ mon'[n].removed = mon[n].removed
                        /\ mon'[n].hp = 0 <=> mon'[n].gstate # {}
                        /\ mon[n].hp = 0 => mon'[n].hp = 0
                        /\ mon'[n].hp = 0 => mon'[n].hostility = NoHostility
                        /\ \A q \in Players : mon'[n].hostility[q] + mon'[n].hp <= MaxHp
      BY <2>1
    <3>2. CASE n = m
      BY <1>5, <1>6, <1>8, <2>2, <3>1, <3>2
    <3>3. CASE n # m
      BY <1>10, <2>2, <3>3
    <3>. QED BY <3>2, <3>3
  <2>4. \A n \in Monsters :
          deaths'[n] = deaths[n] + (IF n \in DOMAIN mon /\ mon[n].hp > 0 /\ mon'[n].hp = 0
                                    THEN 1 ELSE 0)
    <3> SUFFICES ASSUME NEW n \in Monsters
                 PROVE  ~(n \in DOMAIN mon /\ mon[n].hp > 0 /\ mon'[n].hp = 0)
      BY <1>9, <2>1
    <3>1. hurt.hp # 0
      BY <1>6, <1>11
    <3>2. n \in DOMAIN mon => mon[n].hp \in 0..MaxHp
      BY <1>10 DEF MonsterType
    <3>. QED BY <2>2, <3>1, <3>2
  <2>. QED BY <1>9, <2>1, <2>3, <2>4, MonstersChange DEF Attack, SpawnsInv, TypeOK
<1>12. CASE ~(hurt.hp > 0)
  <2>1. PICK paid \in SUBSET Players, drop \in Drops : Die(m, hurt, paid) /\ DropLoot(drop)
    BY <1>12 DEF Attack, hurt
  <2>2. mon' = [mon EXCEPT ![m] = dead] /\ deaths' = [deaths EXCEPT ![m] = @ + 1]
    BY <2>1 DEF Die
  <2>3. \A n \in DOMAIN mon : mon'[n] = (IF n = m THEN dead ELSE mon[n])
    BY <2>2
  <2>4. hurt.hp = 0
    BY <1>6, <1>12, Numbers
  <2>5. /\ dead.id = mon[m].id /\ dead.removed = mon[m].removed /\ dead.hp = 0
        /\ dead.gstate = {IF m \in Beheadable THEN "KNEE" ELSE "KO"}
        /\ dead.hostility = NoHostility
        /\ dead \in MonsterType
    <3>1. NoHostility \in [Players -> 0..MaxHp]
      BY Numbers DEF NoHostility
    <3>2. {IF m \in Beheadable THEN "KNEE" ELSE "KO"} \in SUBSET {"KNEE", "KO"}
      OBVIOUS
    <3>3. 0 \in 0..MaxHp /\ 0 \in 0..KneeTime /\ 0 \in 0..Width - 1
      BY Numbers
    <3>4. /\ dead.id = hurt.id /\ dead.removed = hurt.removed /\ dead.hp = hurt.hp
          /\ dead.hostility = NoHostility /\ dead.total = 0 /\ dead.dying = 0
          /\ dead.gstate = hurt.gstate \cup {IF m \in Beheadable THEN "KNEE" ELSE "KO"}
      BY <1>8 DEF MonsterType
    <3>5. dead.gstate = {IF m \in Beheadable THEN "KNEE" ELSE "KO"}
      BY <1>5, <3>4
    <3>6. dead \in MonsterType
      BY <1>8, <3>1, <3>2, <3>3, <3>4, <3>5 DEF MonsterType
    <3>. QED BY <1>5, <2>4, <3>4, <3>5, <3>6
  <2>6. \A q \in Players : dead.hostility[q] + dead.hp <= MaxHp
    BY <2>5, Numbers DEF NoHostility
  <2>7. /\ DOMAIN mon' = DOMAIN mon
        /\ \A n \in DOMAIN mon :
             /\ mon'[n] \in MonsterType
             /\ mon'[n].id = mon[n].id /\ mon'[n].removed = mon[n].removed
             /\ mon'[n].hp = 0 <=> mon'[n].gstate # {}
             /\ mon[n].hp = 0 => mon'[n].hp = 0
             /\ mon'[n].hp = 0 => mon'[n].hostility = NoHostility
             /\ \A q \in Players : mon'[n].hostility[q] + mon'[n].hp <= MaxHp
    <3> SUFFICES ASSUME NEW n \in DOMAIN mon
                 PROVE  /\ mon'[n] \in MonsterType
                        /\ mon'[n].id = mon[n].id /\ mon'[n].removed = mon[n].removed
                        /\ mon'[n].hp = 0 <=> mon'[n].gstate # {}
                        /\ mon[n].hp = 0 => mon'[n].hp = 0
                        /\ mon'[n].hp = 0 => mon'[n].hostility = NoHostility
                        /\ \A q \in Players : mon'[n].hostility[q] + mon'[n].hp <= MaxHp
      BY <2>2
    <3>1. CASE n = m
      BY <2>3, <2>5, <2>6, <3>1
    <3>2. CASE n # m
      BY <1>10, <2>3, <3>2
    <3>. QED BY <3>1, <3>2
  <2>8. deaths' \in [Monsters -> Nat]
    BY <1>1, <1>9, <2>2
  <2>9. \A n \in Monsters :
          deaths'[n] = deaths[n] + (IF n \in DOMAIN mon /\ mon[n].hp > 0 /\ mon'[n].hp = 0
                                    THEN 1 ELSE 0)
    <3> SUFFICES ASSUME NEW n \in Monsters
                 PROVE  deaths'[n] = deaths[n] +
                   (IF n \in DOMAIN mon /\ mon[n].hp > 0 /\ mon'[n].hp = 0 THEN 1 ELSE 0)
      OBVIOUS
    <3>1. CASE n = m
      BY <1>1, <1>3, <1>9, <2>2, <2>3, <2>5, <3>1
    <3>2. CASE n # m
      <4>1. deaths'[n] = deaths[n] /\ deaths[n] \in Nat
        BY <1>9, <2>2, <3>2
      <4>2. ~(n \in DOMAIN mon /\ mon[n].hp > 0 /\ mon'[n].hp = 0)
        BY <1>10, <2>3, <3>2 DEF MonsterType
      <4>. QED BY <4>1, <4>2
    <3>. QED BY <3>1, <3>2
  <2>10. /\ nextId' \in Nat /\ nextId <= nextId'
         /\ DOMAIN loots' \subseteq 0..nextId' - 1
         /\ \A i \in DOMAIN loots' : loots'[i].age \in 0..LootTime
    BY <2>1, LootDropped
  <2>. QED BY <2>7, <2>8, <2>9, <2>10, MonstersChange DEF Attack, SpawnsInv, TypeOK
<1>. QED BY <1>11, <1>12

\* A step after which the monsters lie or kneel in another way, or longer.
LEMMA PostureChanges ==
    ASSUME SpawnsInv, UNCHANGED <<todo, monsters, onMap, nextId, lives, deaths>>,
           phase' \in {"wait", "monsters", "loots", "dead", "spawns"},
           since' \in [Spawns -> -Cycle..Cycle],
           DOMAIN loots' \subseteq DOMAIN loots,
           \A i \in DOMAIN loots' : loots'[i].age \in 0..LootTime,
           DOMAIN mon' = DOMAIN mon,
           \A m \in DOMAIN mon :
             /\ mon'[m] \in MonsterType
             /\ mon'[m].id = mon[m].id /\ mon'[m].removed = mon[m].removed
             /\ mon'[m].hp = mon[m].hp /\ mon'[m].hostility = mon[m].hostility
             /\ mon'[m].gstate = {} <=> mon[m].gstate = {}
    PROVE  SpawnsInv'
<1>1. nextId \in Nat /\ DOMAIN loots' \subseteq 0..nextId' - 1
  BY DEF SpawnsInv, TypeOK
<1>2. \A m \in DOMAIN mon :
        /\ mon[m].hp = 0 <=> mon[m].gstate # {}
        /\ mon[m].hp = 0 => mon[m].hostility = NoHostility
        /\ \A p \in Players : mon[m].hostility[p] + mon[m].hp <= MaxHp
  BY DEF SpawnsInv, LifeInv
<1>3. deaths \in [Monsters -> Nat]
  BY DEF SpawnsInv, CountsInv
<1>4. \A m \in DOMAIN mon : mon[m].hp \in 0..MaxHp
  BY MonsterTypes DEF MonsterType
<1>5. \A m \in Monsters :
        deaths'[m] = deaths[m] + (IF m \in DOMAIN mon /\ mon[m].hp > 0 /\ mon'[m].hp = 0
                                  THEN 1 ELSE 0)
  <2> SUFFICES ASSUME NEW m \in Monsters
               PROVE  ~(m \in DOMAIN mon /\ mon[m].hp > 0 /\ mon'[m].hp = 0)
    BY <1>3
  <2>. QED BY <1>4
<1>6. \A m \in DOMAIN mon :
        /\ mon'[m] \in MonsterType
        /\ mon'[m].id = mon[m].id /\ mon'[m].removed = mon[m].removed
        /\ mon'[m].hp = 0 <=> mon'[m].gstate # {}
        /\ mon[m].hp = 0 => mon'[m].hp = 0
        /\ mon'[m].hp = 0 => mon'[m].hostility = NoHostility
        /\ \A p \in Players : mon'[m].hostility[p] + mon'[m].hp <= MaxHp
  BY <1>2
<1>. QED BY <1>1, <1>3, <1>5, <1>6, MonstersChange

\* The kneeling monster that is beheaded or has knelt long enough.
LEMMA Fallen ==
    ASSUME SpawnsInv, NEW m \in DOMAIN mon, mon[m].gstate # {},
           NEW fallen, fallen = [mon[m] EXCEPT !.gstate = (@ \cup {"KO"}) \ {"KNEE"}]
    PROVE  /\ fallen \in MonsterType
           /\ fallen.id = mon[m].id /\ fallen.removed = mon[m].removed
           /\ fallen.hp = mon[m].hp /\ fallen.hostility = mon[m].hostility
           /\ fallen.gstate # {}
<1>1. mon[m] \in MonsterType
  BY MonsterTypes
<1>2. fallen.gstate = (mon[m].gstate \cup {"KO"}) \ {"KNEE"}
  BY <1>1 DEF MonsterType
<1>3. fallen.gstate # {} /\ fallen.gstate \in SUBSET {"KNEE", "KO"}
  BY <1>1, <1>2 DEF MonsterType
<1>. QED BY <1>1, <1>3 DEF MonsterType

LEMMA BeheadInv ==
    ASSUME SpawnsInv, NEW id \in Ids, Behead(id)
    PROVE  SpawnsInv'
<1> DEFINE m == onMap[id]
           fallen == [mon[m] EXCEPT !.gstate = (@ \cup {"KO"}) \ {"KNEE"}]
<1>1. m \in DOMAIN mon
  BY OnMapExists DEF Behead
<1>2. mon' = [mon EXCEPT ![m] = fallen] /\ mon[m].gstate # {}
  BY DEF Behead
<1>3. /\ fallen \in MonsterType
      /\ fallen.id = mon[m].id /\ fallen.removed = mon[m].removed
      /\ fallen.hp = mon[m].hp /\ fallen.hostility = mon[m].hostility
      /\ fallen.gstate # {}
  BY <1>1, <1>2, Fallen
<1> HIDE DEF fallen
<1>4. \A n \in DOMAIN mon :
        /\ mon'[n] \in MonsterType
        /\ mon'[n].id = mon[n].id /\ mon'[n].removed = mon[n].removed
        /\ mon'[n].hp = mon[n].hp /\ mon'[n].hostility = mon[n].hostility
        /\ mon'[n].gstate = {} <=> mon[n].gstate = {}
  BY <1>2, <1>3, MonsterTypes
<1>5. DOMAIN mon' = DOMAIN mon
  BY <1>2
<1>. QED BY <1>4, <1>5, PostureChanges DEF Behead, SpawnsInv, TypeOK, history

LEMMA TickMonstersInv ==
    ASSUME SpawnsInv, TickMonsters
    PROVE  SpawnsInv'
<1> DEFINE tired == {m \in Beheadable \cap {monsters[i] : i \in DOMAIN monsters} :
                       "KNEE" \in mon[m].gstate /\ mon[m].dying >= KneeTime}
           fallen(m) == [mon[m] EXCEPT !.gstate = (@ \cup {"KO"}) \ {"KNEE"}]
<1>1. mon' = [m \in DOMAIN mon |-> IF m \in tired THEN fallen(m) ELSE mon[m]]
  BY DEF TickMonsters
<1>2. \A m \in tired : mon[m].gstate # {}
  OBVIOUS
<1> HIDE DEF tired
<1>3. ASSUME NEW n \in DOMAIN mon
      PROVE  /\ mon'[n] \in MonsterType
             /\ mon'[n].id = mon[n].id /\ mon'[n].removed = mon[n].removed
             /\ mon'[n].hp = mon[n].hp /\ mon'[n].hostility = mon[n].hostility
             /\ mon'[n].gstate = {} <=> mon[n].gstate = {}
  <2>1. CASE n \in tired
    <3>1. mon'[n] = fallen(n)
      BY <1>1, <2>1
    <3> HIDE DEF fallen
    <3>2. /\ fallen(n) \in MonsterType
          /\ fallen(n).id = mon[n].id /\ fallen(n).removed = mon[n].removed
          /\ fallen(n).hp = mon[n].hp /\ fallen(n).hostility = mon[n].hostility
          /\ fallen(n).gstate # {}
      BY <1>2, <2>1, Fallen DEF fallen
    <3>. QED BY <1>2, <2>1, <3>1, <3>2
  <2>2. CASE n \notin tired
    <3>1. mon'[n] = mon[n]
      BY <1>1, <2>2
    <3>. QED BY <3>1, MonsterTypes
  <2>. QED BY <2>1, <2>2
<1>4. DOMAIN mon' = DOMAIN mon
  BY <1>1
<1>. QED BY <1>3, <1>4, PostureChanges DEF TickMonsters, SpawnsInv, TypeOK, history

LEMMA WaitInv ==
    ASSUME SpawnsInv, Wait
    PROVE  SpawnsInv'
<1>1. mon' = [m \in DOMAIN mon |-> [mon[m] EXCEPT !.dying = Min({@ + 1, KneeTime})]]
  BY DEF Wait
<1>2. ASSUME NEW n \in DOMAIN mon
      PROVE  /\ mon'[n] \in MonsterType
             /\ mon'[n].id = mon[n].id /\ mon'[n].removed = mon[n].removed
             /\ mon'[n].hp = mon[n].hp /\ mon'[n].hostility = mon[n].hostility
             /\ mon'[n].gstate = mon[n].gstate
  <2>1. mon[n] \in MonsterType
    BY MonsterTypes
  <2> DEFINE t == Min({mon[n].dying + 1, KneeTime})
  <2>2. t \in 0..KneeTime
    <3>1. mon[n].dying \in 0..KneeTime
      BY <2>1 DEF MonsterType
    <3> DEFINE d == mon[n].dying
    <3>2. d \in Int /\ 0 <= d /\ 0 <= KneeTime /\ 0 \in Int
      BY <3>1, Numbers
    <3> HIDE DEF d
    <3>3. Min({d + 1, KneeTime}) \in 0..KneeTime
      BY <3>2, CappedCount, Numbers
    <3>. QED BY <3>3 DEF d
  <2>3. mon'[n] = [mon[n] EXCEPT !.dying = t]
    BY <1>1
  <2> HIDE DEF t
  <2>. QED BY <2>1, <2>2, <2>3 DEF MonsterType
<1>3. DOMAIN mon' = DOMAIN mon
  BY <1>1
<1>4. since' \in [Spawns -> -Cycle..Cycle]
  <2> SUFFICES ASSUME NEW s \in Spawns PROVE Min({since[s] + 1, Cycle}) \in -Cycle..Cycle
    BY DEF Wait
  <2>1. since[s] \in -Cycle..Cycle
    BY DEF SpawnsInv, TypeOK
  <2> DEFINE d == since[s]
             low == -Cycle
  <2>2. d \in Int /\ low \in Int /\ low <= d /\ low <= Cycle
    BY <2>1, Numbers
  <2> HIDE DEF d, low
  <2>3. Min({d + 1, Cycle}) \in low..Cycle
    BY <2>2, CappedCount, Numbers
  <2>. QED BY <2>3 DEF d, low
<1>5. DOMAIN loots' \subseteq DOMAIN loots
      /\ \A i \in DOMAIN loots' : loots'[i].age \in 0..LootTime
  <2>1. loots' = [i \in DOMAIN loots |->
                    [item |-> loots[i].item, age |-> Min({loots[i].age + 1, LootTime})]]
    BY DEF Wait
  <2> SUFFICES ASSUME NEW i \in DOMAIN loots PROVE loots'[i].age \in 0..LootTime
    BY <2>1
  <2>2. loots[i].age \in 0..LootTime
    BY DEF SpawnsInv, TypeOK
  <2>3. loots'[i].age = Min({loots[i].age + 1, LootTime})
    BY <2>1
  <2> DEFINE d == loots[i].age
  <2>4. d \in Int /\ 0 <= d /\ 0 <= LootTime /\ 0 \in Int
    BY <2>2, Numbers
  <2> HIDE DEF d
  <2>5. Min({d + 1, LootTime}) \in 0..LootTime
    BY <2>4, CappedCount, Numbers
  <2>. QED BY <2>3, <2>5 DEF d
<1>. QED BY <1>2, <1>3, <1>4, <1>5, PostureChanges DEF Wait, SpawnsInv, TypeOK, history

\* A monster enters the world: a summoned one for the first time, one of a spawn
\* with its next life.
LEMMA Enters ==
    ASSUME SpawnsInv, NEW m \in Monsters, NEW inside \in Inside(m),
           m \in DOMAIN mon => mon[m].hp = 0,
           \A i \in DOMAIN monsters : monsters[i] # m,
           DOMAIN mon' = DOMAIN mon \cup {m},
           \A n \in DOMAIN mon : n # m => mon'[n] = mon[n],
           mon'[m].id = nextId, mon'[m].hp = MaxHp, mon'[m].gstate = {}, ~mon'[m].removed,
           mon'[m].hostility = NoHostility, mon'[m] \in MonsterType',
           AddMonster(m, nextId, inside), nextId' = nextId + 1,
           UNCHANGED <<phase, todo, loots, since, deaths>>
    PROVE  SpawnsInv'
<1>1. nextId \in Nat
  BY DEF SpawnsInv, TypeOK
<1>2. /\ DOMAIN monsters' = DOMAIN monsters \cup {nextId}
      /\ monsters'[nextId] = m
      /\ \A i \in DOMAIN monsters : i # nextId => monsters'[i] = monsters[i]
  BY DEF AddMonster, With
<1>3. \/ onMap' = onMap /\ FALSE \in Inside(m)
      \/ /\ DOMAIN onMap' = DOMAIN onMap \cup {nextId}
         /\ onMap'[nextId] = m
         /\ \A i \in DOMAIN onMap : i # nextId => onMap'[i] = onMap[i]
  <2>1. CASE inside
    BY <2>1 DEF AddMonster, With
  <2>2. CASE ~inside
    <3>1. inside = FALSE
      BY <2>2 DEF Inside
    <3>. QED BY <2>2, <3>1 DEF AddMonster
  <2>. QED BY <2>1, <2>2
<1>4. nextId \notin DOMAIN monsters /\ nextId \notin DOMAIN onMap
      /\ \A n \in DOMAIN mon : mon[n].id # nextId
  <2>1. nextId \notin 0..nextId - 1
    BY <1>1
  <2>. QED BY <2>1 DEF SpawnsInv, TypeOK
<1>5. 0..nextId - 1 \subseteq 0..nextId' - 1 /\ nextId \in 0..nextId' - 1
  BY <1>1, IntervalGrows
<1>6. \A n \in DOMAIN mon : mon[n] \in MonsterType'
  BY <1>5, MonsterTypes DEF MonsterType
<1>7. TypeOK'
  <2>1. \A n \in DOMAIN mon' : mon'[n] \in MonsterType'
    BY <1>6
  <2>2. DOMAIN monsters' \cup DOMAIN onMap' \cup DOMAIN loots' \subseteq 0..nextId' - 1
    BY <1>2, <1>3, <1>5 DEF SpawnsInv, TypeOK
  <2>3. Spawned \subseteq DOMAIN mon' /\ DOMAIN mon' \subseteq Monsters /\ nextId' \in Nat
    BY <1>1 DEF SpawnsInv, TypeOK
  <2>4. /\ phase' \in {"wait", "monsters", "loots", "dead", "spawns"}
        /\ todo' \subseteq Spawns
        /\ \A i \in DOMAIN loots' : loots'[i].age \in 0..LootTime
        /\ since' \in [Spawns -> -Cycle..Cycle]
    BY DEF SpawnsInv, TypeOK
  <2>. QED BY <2>1, <2>2, <2>3, <2>4 DEF TypeOK, MonsterType
<1>8. EntriesAgree'
  <2>1. \A i \in DOMAIN monsters' : monsters'[i] \in DOMAIN mon' /\ mon'[monsters'[i]].id = i
    <3> SUFFICES ASSUME NEW i \in DOMAIN monsters'
                 PROVE  monsters'[i] \in DOMAIN mon' /\ mon'[monsters'[i]].id = i
      OBVIOUS
    <3>1. CASE i = nextId
      BY <1>2, <3>1
    <3>2. CASE i # nextId
      <4>1. i \in DOMAIN monsters /\ monsters'[i] = monsters[i]
        BY <1>2, <3>2
      <4>2. monsters[i] \in DOMAIN mon /\ mon[monsters[i]].id = i /\ monsters[i] # m
        BY <4>1 DEF SpawnsInv, EntriesAgree
      <4>. QED BY <4>1, <4>2
    <3>. QED BY <3>1, <3>2
  <2>2. ASSUME NEW n \in Spawned
        PROVE  mon'[n].removed <=> mon'[n].id \notin DOMAIN monsters'
    <3>1. CASE n = m
      BY <1>2, <3>1
    <3>2. CASE n # m
      <4>1. n \in DOMAIN mon /\ mon'[n] = mon[n] /\ mon[n].id # nextId
        BY <1>4, <3>2 DEF SpawnsInv, TypeOK
      <4>2. mon[n].removed <=> mon[n].id \notin DOMAIN monsters
        BY DEF SpawnsInv, EntriesAgree
      <4>. QED BY <1>2, <4>1, <4>2
    <3>. QED BY <3>1, <3>2
  <2>3. ASSUME NEW i \in DOMAIN onMap'
        PROVE  i \in DOMAIN monsters' /\ onMap'[i] = monsters'[i]
    <3>1. CASE i = nextId
      BY <1>2, <1>3, <1>4, <2>3, <3>1
    <3>2. CASE i # nextId
      <4>1. i \in DOMAIN onMap /\ onMap'[i] = onMap[i]
        BY <1>3, <2>3, <3>2
      <4>2. i \in DOMAIN monsters /\ onMap[i] = monsters[i]
        BY <4>1 DEF SpawnsInv, EntriesAgree
      <4>. QED BY <1>2, <3>2, <4>1, <4>2
    <3>. QED BY <3>1, <3>2
  <2>4. ASSUME NEW i \in DOMAIN monsters' \ DOMAIN onMap'
        PROVE  FALSE \in Inside(monsters'[i])
    <3>1. CASE i = nextId
      BY <1>2, <1>3, <2>4, <3>1
    <3>2. CASE i # nextId
      <4>1. i \in DOMAIN monsters \ DOMAIN onMap /\ monsters'[i] = monsters[i]
        BY <1>2, <1>3, <2>4, <3>2
      <4>. QED BY <4>1 DEF SpawnsInv, EntriesAgree
    <3>. QED BY <3>1, <3>2
  <2>. QED BY <2>1, <2>2, <2>3, <2>4 DEF EntriesAgree, Inside
<1>9. CountsInv' /\ \A n \in Monsters : lives'[n] = lives[n] + (IF n = m THEN 1 ELSE 0)
  <2>1. /\ lives \in [Monsters -> Nat] /\ deaths \in [Monsters -> Nat]
        /\ \A n \in DOMAIN mon \ Spawned : ~mon[n].removed /\ mon[n].id \in DOMAIN monsters
    BY DEF SpawnsInv, CountsInv
  <2>2. lives' = [lives EXCEPT ![m] = @ + 1]
    BY DEF AddMonster
  <2>3. lives' \in [Monsters -> Nat] /\ deaths' \in [Monsters -> Nat]
    BY <2>1, <2>2
  <2>4. \A n \in DOMAIN mon' \ Spawned : ~mon'[n].removed /\ mon'[n].id \in DOMAIN monsters'
    BY <1>2, <2>1
  <2>. QED BY <2>1, <2>2, <2>3, <2>4 DEF CountsInv
<1>10. DiesOnce'
  <2> SUFFICES ASSUME NEW n \in Monsters
               PROVE  lives'[n] = deaths'[n] +
                        (IF n \in DOMAIN mon' /\ mon'[n].hp > 0 THEN 1 ELSE 0)
    BY DEF DiesOnce
  <2>1. /\ lives[n] = deaths[n] + (IF n \in DOMAIN mon /\ mon[n].hp > 0 THEN 1 ELSE 0)
        /\ lives[n] \in Nat /\ deaths[n] \in Nat
    BY DEF SpawnsInv, DiesOnce, CountsInv
  <2>2. CASE n = m
    <3>1. lives[n] = deaths[n]
      BY <2>1, <2>2
    <3>. QED BY <1>9, <2>1, <2>2, <3>1, Numbers
  <2>3. CASE n # m
    BY <1>9, <2>1, <2>3
  <2>. QED BY <2>2, <2>3
<1>11. LifeInv'
  <2> SUFFICES ASSUME NEW n \in DOMAIN mon'
               PROVE  /\ mon'[n].hp = 0 <=> mon'[n].gstate # {}
                      /\ mon'[n].removed => mon'[n].hp = 0
                      /\ \A p \in Players : mon'[n].hostility[p] + mon'[n].hp <= MaxHp
                      /\ mon'[n].hp = 0 => mon'[n].hostility = NoHostility
    BY DEF LifeInv
  <2>1. CASE n = m
    BY <2>1, Numbers DEF NoHostility
  <2>2. CASE n # m
    <3>1. n \in DOMAIN mon /\ mon'[n] = mon[n]
      BY <2>2
    <3>. QED BY <3>1 DEF SpawnsInv, LifeInv
  <2>. QED BY <2>1, <2>2
<1>12. IdsUnique'
  BY <1>4 DEF SpawnsInv, IdsUnique
<1>. QED BY <1>7, <1>8, <1>9, <1>10, <1>11, <1>12 DEF SpawnsInv

LEMMA SummonInv ==
    ASSUME SpawnsInv, NEW m \in Summonable, Summon(m)
    PROVE  SpawnsInv'
<1>1. PICK leftover \in Leftovers : mon' = With(mon, m, NewMonster(nextId, leftover))
  BY DEF Summon
<1>2. /\ DOMAIN mon' = DOMAIN mon \cup {m} /\ mon'[m] = NewMonster(nextId, leftover)
      /\ \A n \in DOMAIN mon : n # m => mon'[n] = mon[n]
  BY <1>1 DEF With
<1>3. /\ mon'[m].id = nextId /\ mon'[m].hp = MaxHp /\ mon'[m].gstate = {}
      /\ ~mon'[m].removed /\ mon'[m].hostility = NoHostility
  BY <1>2 DEF NewMonster
<1>4. nextId \in Nat /\ nextId' = nextId + 1 /\ m \notin DOMAIN mon /\ m \in Monsters
      /\ m \notin Spawned
  BY SummonAssumption DEF SpawnsInv, TypeOK, Summon, Monsters
<1>5. mon'[m] \in MonsterType'
  <2>1. nextId \in 0..nextId' - 1 /\ MaxHp \in 0..MaxHp /\ 0 \in 0..KneeTime
    BY <1>4, Numbers
  <2>2. leftover \in 0..Width - 1
    BY NumbersAssumption
  <2>3. NoHostility \in [Players -> 0..MaxHp]
    BY Numbers DEF NoHostility
  <2>. QED BY <1>2, <2>1, <2>2, <2>3 DEF NewMonster, MonsterType
<1>6. \A i \in DOMAIN monsters : monsters[i] # m
  BY <1>4 DEF SpawnsInv, EntriesAgree
<1>7. TRUE \in Inside(m)
  BY <1>4 DEF Inside
<1>. QED BY <1>2, <1>3, <1>4, <1>5, <1>6, <1>7, Enters DEF Summon

LEMMA RespawnInv ==
    ASSUME SpawnsInv, NEW s \in Spawns, Respawn(s)
    PROVE  SpawnsInv'
<1>1. PICK m \in AreaMonsters(s) : \E inside \in Inside(m) :
         /\ mon' = [mon EXCEPT ![m] = Restored(m, nextId)]
         /\ AddMonster(m, nextId, inside)
  BY DEF Respawn
<1>2. PICK inside \in Inside(m) :
         /\ mon' = [mon EXCEPT ![m] = Restored(m, nextId)]
         /\ AddMonster(m, nextId, inside)
  BY <1>1
<1>3. m \in Spawned /\ m \in Monsters /\ m \in DOMAIN mon /\ mon[m].removed
      /\ mon[m] \in MonsterType
  BY MonsterTypes DEF AreaMonsters, Monsters, SpawnsInv, TypeOK
<1>4. mon[m].hp = 0 /\ mon[m].hostility = NoHostility
  BY <1>3 DEF SpawnsInv, LifeInv
<1>5. DOMAIN mon' = DOMAIN mon \cup {m} /\ mon'[m] = Restored(m, nextId)
      /\ \A n \in DOMAIN mon : n # m => mon'[n] = mon[n]
  BY <1>2, <1>3
<1>6. /\ mon'[m].id = nextId /\ mon'[m].hp = MaxHp /\ mon'[m].gstate = {}
      /\ ~mon'[m].removed /\ mon'[m].hostility = NoHostility
  BY <1>3, <1>4, <1>5 DEF Restored, MonsterType
<1>7. nextId \in Nat /\ nextId' = nextId + 1
  BY DEF SpawnsInv, TypeOK, Respawn
<1>8. mon'[m] \in MonsterType'
  <2>1. nextId \in 0..nextId' - 1 /\ MaxHp \in 0..MaxHp
    BY <1>7, Numbers
  <2>2. mon[m].total \in 0..Width - 1 /\ mon[m].dying \in 0..KneeTime
        /\ mon[m].hostility \in [Players -> 0..MaxHp]
    BY <1>3 DEF MonsterType
  <2>3. {} \in SUBSET {"KNEE", "KO"} /\ FALSE \in BOOLEAN
    OBVIOUS
  <2>4. mon'[m] = [id |-> nextId, hp |-> MaxHp, gstate |-> {}, removed |-> FALSE,
                   dying |-> mon[m].dying, hostility |-> mon[m].hostility,
                   total |-> mon[m].total]
    BY <1>3, <1>5 DEF Restored, MonsterType
  <2>. QED BY <2>1, <2>2, <2>3, <2>4 DEF MonsterType
<1>9. \A i \in DOMAIN monsters : monsters[i] # m
  BY <1>3 DEF SpawnsInv, EntriesAgree
<1>. QED BY <1>2, <1>3, <1>4, <1>5, <1>6, <1>7, <1>8, <1>9, Enters DEF Respawn

LEMMA RemoveDeadMonstersInv ==
    ASSUME SpawnsInv, RemoveDeadMonsters
    PROVE  SpawnsInv'
<1> DEFINE dead == Dead
           gone == {monsters[i] : i \in dead}
           left == DOMAIN mon \ (gone \ Spawned)
<1>1. /\ DOMAIN mon' = left
      /\ \A m \in left : mon'[m] = (IF m \in gone THEN [mon[m] EXCEPT !.removed = TRUE]
                                   ELSE mon[m])
  BY DEF RemoveDeadMonsters, FlagAndDestroy
<1>2. /\ DOMAIN monsters' = DOMAIN monsters \ dead
      /\ \A i \in DOMAIN monsters' : monsters'[i] = monsters[i]
      /\ DOMAIN onMap' = DOMAIN onMap \ dead
      /\ \A i \in DOMAIN onMap' : onMap'[i] = onMap[i]
  BY DEF RemoveDeadMonsters
<1>3. /\ Spawned \subseteq DOMAIN mon /\ DOMAIN mon \subseteq Monsters
      /\ \A m \in DOMAIN mon : mon[m] \in MonsterType
  BY MonsterTypes DEF SpawnsInv, TypeOK
<1>4. dead \subseteq DOMAIN monsters
      /\ \A i \in dead : monsters[i] \in DOMAIN mon /\ mon[monsters[i]].id = i
                         /\ mon[monsters[i]].hp = 0
  <2>1. \A i \in dead : i \in DOMAIN monsters /\ mon[monsters[i]].gstate # {}
    BY DEF Dead
  <2>. QED BY <2>1 DEF SpawnsInv, EntriesAgree, LifeInv
<1> HIDE DEF dead
<1>5. \A m \in gone : m \in DOMAIN mon /\ mon[m].hp = 0 /\ mon[m].id \in dead
  BY <1>4
<1>6. \A m \in DOMAIN mon : mon[m].id \in dead => m \in gone
  BY <1>4 DEF SpawnsInv, IdsUnique
<1> HIDE DEF gone
<1>7. ASSUME NEW m \in left
      PROVE  /\ mon'[m] \in MonsterType
             /\ mon'[m].id = mon[m].id /\ mon'[m].hp = mon[m].hp
             /\ mon'[m].gstate = mon[m].gstate /\ mon'[m].hostility = mon[m].hostility
             /\ m \in gone => mon'[m].removed
             /\ m \notin gone => mon'[m].removed = mon[m].removed
  <2>1. CASE m \in gone
    <3>1. mon'[m] = [mon[m] EXCEPT !.removed = TRUE] /\ mon[m] \in MonsterType
      BY <1>1, <1>3, <2>1
    <3>. QED BY <2>1, <3>1 DEF MonsterType
  <2>2. CASE m \notin gone
    BY <1>1, <1>3, <2>2
  <2>. QED BY <2>1, <2>2
<1>8. Spawned \subseteq left /\ left \subseteq DOMAIN mon
  BY <1>3
<1>9. \A i \in DOMAIN monsters' : monsters'[i] \in left /\ monsters'[i] \notin gone
  <2> SUFFICES ASSUME NEW i \in DOMAIN monsters'
               PROVE  monsters[i] \in DOMAIN mon /\ monsters[i] \notin gone
    BY <1>2
  <2>1. monsters[i] \in DOMAIN mon /\ mon[monsters[i]].id = i /\ i \notin dead
    BY <1>2 DEF SpawnsInv, EntriesAgree
  <2>. QED BY <1>5, <2>1
<1>10. UNCHANGED <<loots, since, nextId, lives, deaths>> /\ phase' = "spawns" /\ todo' = Spawns
  BY DEF RemoveDeadMonsters, history
<1>11. TypeOK'
  <2>1. \A m \in DOMAIN mon' : mon'[m] \in MonsterType'
    BY <1>1, <1>7, <1>10 DEF MonsterType
  <2>2. DOMAIN monsters' \cup DOMAIN onMap' \cup DOMAIN loots' \subseteq 0..nextId' - 1
    BY <1>2, <1>10 DEF SpawnsInv, TypeOK
  <2>3. Spawned \subseteq DOMAIN mon' /\ DOMAIN mon' \subseteq Monsters
    BY <1>1, <1>3, <1>8
  <2>4. /\ phase' \in {"wait", "monsters", "loots", "dead", "spawns"}
        /\ todo' \subseteq Spawns /\ nextId' \in Nat
        /\ \A i \in DOMAIN loots' : loots'[i].age \in 0..LootTime
        /\ since' \in [Spawns -> -Cycle..Cycle]
    BY <1>10 DEF SpawnsInv, TypeOK
  <2>. QED BY <2>1, <2>2, <2>3, <2>4 DEF TypeOK, MonsterType
<1>12. EntriesAgree'
  <2>1. \A i \in DOMAIN monsters' : monsters'[i] \in DOMAIN mon' /\ mon'[monsters'[i]].id = i
    <3> SUFFICES ASSUME NEW i \in DOMAIN monsters'
                 PROVE  monsters'[i] \in DOMAIN mon' /\ mon'[monsters'[i]].id = i
      OBVIOUS
    <3>1. monsters'[i] \in left /\ monsters'[i] = monsters[i] /\ i \in DOMAIN monsters
      BY <1>2, <1>9
    <3>2. mon[monsters[i]].id = i
      BY <3>1 DEF SpawnsInv, EntriesAgree
    <3>. QED BY <1>1, <1>7, <3>1, <3>2
  <2>2. ASSUME NEW m \in Spawned
        PROVE  mon'[m].removed <=> mon'[m].id \notin DOMAIN monsters'
    <3>1. m \in left /\ m \in DOMAIN mon
      BY <1>8
    <3>2. mon[m].removed <=> mon[m].id \notin DOMAIN monsters
      BY DEF SpawnsInv, EntriesAgree
    <3>3. CASE m \in gone
      BY <1>2, <1>5, <1>7, <3>1, <3>3
    <3>4. CASE m \notin gone
      BY <1>2, <1>6, <1>7, <3>1, <3>2, <3>4
    <3>. QED BY <3>3, <3>4
  <2>3. \A i \in DOMAIN onMap' : i \in DOMAIN monsters' /\ onMap'[i] = monsters'[i]
    BY <1>2 DEF SpawnsInv, EntriesAgree
  <2>4. \A i \in DOMAIN monsters' \ DOMAIN onMap' : FALSE \in Inside(monsters'[i])
    BY <1>2 DEF SpawnsInv, EntriesAgree
  <2>. QED BY <2>1, <2>2, <2>3, <2>4 DEF EntriesAgree, Inside
<1>13. DiesOnce'
  <2> SUFFICES ASSUME NEW m \in Monsters
               PROVE  lives'[m] = deaths'[m] +
                        (IF m \in DOMAIN mon' /\ mon'[m].hp > 0 THEN 1 ELSE 0)
    BY DEF DiesOnce
  <2>1. lives[m] = deaths[m] + (IF m \in DOMAIN mon /\ mon[m].hp > 0 THEN 1 ELSE 0)
    BY DEF SpawnsInv, DiesOnce
  <2>2. m \in DOMAIN mon' /\ mon'[m].hp > 0 <=> m \in DOMAIN mon /\ mon[m].hp > 0
    <3>1. CASE m \in left
      BY <1>1, <1>7, <1>8, <3>1
    <3>2. CASE m \notin left
      BY <1>1, <1>5, <3>2
    <3>. QED BY <3>1, <3>2
  <2>. QED BY <1>10, <2>1, <2>2
<1>14. LifeInv'
  <2> SUFFICES ASSUME NEW m \in DOMAIN mon'
               PROVE  /\ mon'[m].hp = 0 <=> mon'[m].gstate # {}
                      /\ mon'[m].removed => mon'[m].hp = 0
                      /\ \A p \in Players : mon'[m].hostility[p] + mon'[m].hp <= MaxHp
                      /\ mon'[m].hp = 0 => mon'[m].hostility = NoHostility
    BY DEF LifeInv
  <2>1. /\ mon[m].hp = 0 <=> mon[m].gstate # {}
        /\ mon[m].removed => mon[m].hp = 0
        /\ \A p \in Players : mon[m].hostility[p] + mon[m].hp <= MaxHp
        /\ mon[m].hp = 0 => mon[m].hostility = NoHostility
    BY <1>1, <1>8 DEF SpawnsInv, LifeInv
  <2>2. mon'[m].removed => mon'[m].hp = 0
    BY <1>1, <1>5, <1>7, <2>1
  <2>. QED BY <1>1, <1>7, <2>1, <2>2
<1>15. IdsUnique'
  BY <1>1, <1>7, <1>8 DEF SpawnsInv, IdsUnique
<1>16. CountsInv'
  <2>1. lives' \in [Monsters -> Nat] /\ deaths' \in [Monsters -> Nat]
    BY <1>10 DEF SpawnsInv, CountsInv
  <2>2. ASSUME NEW m \in DOMAIN mon' \ Spawned
        PROVE  ~mon'[m].removed /\ mon'[m].id \in DOMAIN monsters'
    <3>1. m \in left /\ m \notin gone /\ m \in DOMAIN mon \ Spawned
      BY <1>1, <2>2
    <3>2. ~mon[m].removed /\ mon[m].id \in DOMAIN monsters
      BY <3>1 DEF SpawnsInv, CountsInv
    <3>. QED BY <1>2, <1>6, <1>7, <3>1, <3>2
  <2>. QED BY <2>1, <2>2 DEF CountsInv
<1>. QED BY <1>11, <1>12, <1>13, <1>14, <1>15, <1>16 DEF SpawnsInv

LEMMA SpawnDoneInv ==
    ASSUME SpawnsInv, NEW s \in Spawns, SpawnDone(s)
    PROVE  SpawnsInv'
<1>1. since' \in [Spawns -> -Cycle..Cycle]
  <2>1. since \in [Spawns -> -Cycle..Cycle] /\ -Cycle \in -Cycle..Cycle
    BY Numbers DEF SpawnsInv, TypeOK
  <2>2. since' = since \/ since' = [since EXCEPT ![s] = -Cycle]
    BY DEF SpawnDone
  <2>. QED BY <2>1, <2>2
<1>2. /\ phase' \in {"wait", "monsters", "loots", "dead", "spawns"}
      /\ todo' \subseteq Spawns /\ UNCHANGED <<world, loots, nextId, lives, deaths>>
  BY DEF SpawnDone, SpawnsInv, TypeOK, history
<1>3. /\ nextId \in Nat /\ DOMAIN loots \subseteq 0..nextId - 1
      /\ \A i \in DOMAIN loots : loots[i].age \in 0..LootTime
  BY DEF SpawnsInv, TypeOK
<1>. QED BY <1>1, <1>2, <1>3, Quiet

LEMMA LootGoes ==
    ASSUME SpawnsInv, UNCHANGED <<world, since, nextId, history>>,
           DOMAIN loots' \subseteq DOMAIN loots,
           \A i \in DOMAIN loots' : loots'[i] = loots[i],
           phase' \in {"wait", "monsters", "loots", "dead", "spawns"}, todo' = todo
    PROVE  SpawnsInv'
<1>1. /\ nextId \in Nat /\ DOMAIN loots' \subseteq 0..nextId' - 1
      /\ \A i \in DOMAIN loots' : loots'[i].age \in 0..LootTime
      /\ since' \in [Spawns -> -Cycle..Cycle] /\ todo' \subseteq Spawns
  BY DEF SpawnsInv, TypeOK
<1>. QED BY <1>1, Quiet DEF history

LEMMA StepInv == SpawnsInv /\ [Next]_vars => SpawnsInv'
<1> SUFFICES ASSUME SpawnsInv, [Next]_vars PROVE SpawnsInv'
  OBVIOUS
<1>1. CASE Wait
  BY <1>1, WaitInv
<1>2. CASE TickMonsters
  BY <1>2, TickMonstersInv
<1>3. CASE RemoveExpiredLoot
  BY <1>3, LootGoes DEF RemoveExpiredLoot
<1>4. CASE RemoveDeadMonsters
  BY <1>4, RemoveDeadMonstersInv
<1>5. ASSUME NEW s \in Spawns, Respawn(s) \/ SpawnDone(s)
      PROVE  SpawnsInv'
  BY <1>5, RespawnInv, SpawnDoneInv
<1>6. ASSUME NEW p \in Players, NEW id \in Ids, NEW d \in 0..MaxHp, Attack(p, id, d)
      PROVE  SpawnsInv'
  BY <1>6, AttackInv
<1>7. ASSUME NEW id \in Ids, Behead(id)
      PROVE  SpawnsInv'
  BY <1>7, BeheadInv
<1>8. ASSUME NEW id \in Ids, PickUp(id)
      PROVE  SpawnsInv'
  <2>1. phase \in {"wait", "monsters", "loots", "dead", "spawns"}
    BY DEF SpawnsInv, TypeOK
  <2>. QED BY <1>8, <2>1, LootGoes DEF PickUp
<1>9. ASSUME NEW m \in Summonable, Summon(m)
      PROVE  SpawnsInv'
  BY <1>9, SummonInv
<1>10. CASE UNCHANGED vars
  <2>1. /\ phase \in {"wait", "monsters", "loots", "dead", "spawns"}
        /\ UNCHANGED <<phase, todo, world, loots, since, nextId, history>>
    BY <1>10 DEF SpawnsInv, TypeOK, vars
  <2>. QED BY <2>1, LootGoes
<1>. QED BY <1>1, <1>2, <1>3, <1>4, <1>5, <1>6, <1>7, <1>8, <1>9, <1>10
         DEF Next, TickThread, Handlers

LEMMA Invariant == Spec => []SpawnsInv
<1>1. Init => SpawnsInv
  BY InitInv
<1>2. SpawnsInv /\ [Next]_vars => SpawnsInv'
  BY StepInv
<1>. QED BY <1>1, <1>2, PTL DEF Spec

\* Numbers stay in their ranges: life points are never negative, hostility is
\* never more than a monster has, and no ID is used that has not been given.
THEOREM TypeCorrect == Spec => []TypeOK
<1>1. SpawnsInv => TypeOK
  BY DEF SpawnsInv
<1>. QED BY <1>1, Invariant, PTL

\* World::m_monsters, the maps and the monsters of the spawns agree in every
\* state between two phases of World::Tick: the maps point to nothing that
\* has been destroyed.
THEOREM NothingDangles == Spec => []EntriesAgree
<1>1. SpawnsInv => EntriesAgree
  BY DEF SpawnsInv
<1>. QED BY <1>1, Invariant, PTL

\* Monster::Die is called once in every life of a monster.
THEOREM OneDeath == Spec => []DiesOnce
<1>1. SpawnsInv => DiesOnce
  BY DEF SpawnsInv
<1>. QED BY <1>1, Invariant, PTL

-----------------------------------------------------------------------------
(* Sums over finite sets.  The sets grow by one element at a time, and the   *)
(* numbers of elements by one: Induct is what the proofs rest on.            *)

\* A set of numbers that is not empty has a least one.
LEMMA Smallest ==
    ASSUME NEW T \in SUBSET Nat, T # {}
    PROVE  \E m \in T : \A k \in T : m <= k
  <1> DEFINE U == {0 .. n : n \in T}
  <1>1. U \subseteq FiniteSubsetsOf(Nat) /\ U # {}
    <2>1. \A n \in T : 0 .. n \subseteq Nat /\ IsFiniteSet(0 .. n)
      BY FS_Interval
    <2>. QED BY <2>1 DEF FiniteSubsetsOf
  <1>2. PICK x \in U : \A y \in U : <<y, x>> \notin StrictSubsetOrdering(Nat)
    <2> HIDE DEF U
    <2>. QED BY <1>1, FS_StrictSubsetOrderingWellFounded, WFMin
  <1>3. PICK m \in T : x = 0 .. m
    OBVIOUS
  <1>4. ASSUME NEW k \in T, ~(m <= k)
        PROVE  FALSE
    <2>1. 0 .. k \subseteq 0 .. m /\ m \in 0 .. m /\ m \notin 0 .. k
      BY <1>4
    <2>2. 0 .. k \in SUBSET Nat /\ 0 .. m \in SUBSET Nat
      OBVIOUS
    <2>3. <<0 .. k, 0 .. m>> \in StrictSubsetOrdering(Nat)
      BY <2>1, <2>2 DEF StrictSubsetOrdering
    <2>. QED BY <1>2, <1>3, <2>3
  <1>. QED BY <1>4

LEMMA Induct ==
    ASSUME NEW T \in SUBSET Nat, 0 \in T, \A n \in T : n + 1 \in T
    PROVE  T = Nat
<1>. SUFFICES ASSUME Nat \ T # {} PROVE FALSE
  OBVIOUS
<1>1. PICK m \in Nat \ T : \A k \in Nat \ T : m <= k
  BY Smallest
<1>2. m # 0 /\ m - 1 \in Nat /\ m = (m - 1) + 1
  OBVIOUS
<1>3. m - 1 \in T
  BY <1>1, <1>2
<1>. QED  BY <1>2, <1>3

\* MapThenSumSet for a function, and the sets that it is the sum of.
SumOf(f, S) == MapThenSumSet(LAMBDA x : f[x], S)

First(s) == CHOOSE x \in s : TRUE

Adds(it, f, S) ==
    it = [s \in SUBSET S |-> IF s = {} THEN 0 ELSE f[First(s)] + it[s \ {First(s)}]]

LEMMA Fewer ==
    ASSUME NEW U, IsFiniteSet(U), NEW s \in SUBSET U, s # {}
    PROVE  /\ First(s) \in s /\ s \ {First(s)} \in SUBSET U
           /\ Cardinality(s) \in Nat /\ Cardinality(s \ {First(s)}) \in Nat
           /\ Cardinality(s \ {First(s)}) = Cardinality(s) - 1
<1>1. First(s) \in s
  BY DEF First
<1>2. IsFiniteSet(s)
  BY FS_Subset
<1>. QED  BY <1>1, <1>2, FS_RemoveElement, FS_CardinalityType

AddsUpTo(n, it, f, S) ==
    /\ it = [s \in SUBSET S |-> it[s]]
    /\ \A s \in SUBSET S : Cardinality(s) <= n =>
          it[s] = IF s = {} THEN 0 ELSE f[First(s)] + it[s \ {First(s)}]

LEMMA AddsExists ==
    ASSUME NEW U, IsFiniteSet(U), NEW f
    PROVE  \E it : Adds(it, f, U)
<1>. DEFINE T == {n \in Nat : \E it : AddsUpTo(n, it, f, U)}
<1>1. \A s \in SUBSET U : Cardinality(s) \in Nat /\ (Cardinality(s) = 0 <=> s = {})
  BY FS_Subset, FS_CardinalityType, FS_EmptySet
<1>2. 0 \in T
  <2>1. AddsUpTo(0, [s \in SUBSET U |-> 0], f, U)
    BY <1>1 DEF AddsUpTo
  <2>. QED  BY <2>1
<1>3. ASSUME NEW n \in T PROVE n + 1 \in T
  <2>1. PICK it : AddsUpTo(n, it, f, U)
    BY <1>3
  <2>. DEFINE jt == [s \in SUBSET U |-> IF Cardinality(s) <= n THEN it[s]
                                        ELSE f[First(s)] + it[s \ {First(s)}]]
  <2>2. ASSUME NEW s \in SUBSET U, Cardinality(s) <= n + 1
        PROVE  jt[s] = IF s = {} THEN 0 ELSE f[First(s)] + jt[s \ {First(s)}]
    <3>1. CASE s = {}
      <4>1. Cardinality(s) <= n
        BY <1>1, <3>1
      <4>. QED  BY <2>1, <4>1, <3>1 DEF AddsUpTo
    <3>2. CASE s # {}
      <4>1. s \ {First(s)} \in SUBSET U /\ Cardinality(s \ {First(s)}) <= n
        BY <2>2, <3>2, Fewer
      <4>2. jt[s \ {First(s)}] = it[s \ {First(s)}]
        BY <4>1
      <4>. QED  BY <2>1, <3>2, <4>2 DEF AddsUpTo
    <3>. QED  BY <3>1, <3>2
  <2>3. jt = [s \in SUBSET U |-> jt[s]]
    OBVIOUS
  <2>. HIDE DEF jt
  <2>4. AddsUpTo(n + 1, jt, f, U)
    BY <2>2, <2>3 DEF AddsUpTo
  <2>. QED  BY <2>4
<1>4. T = Nat
  BY <1>2, <1>3, Induct
<1>5. PICK it : AddsUpTo(Cardinality(U), it, f, U)
  BY <1>1, <1>4
<1>6. \A s \in SUBSET U : Cardinality(s) <= Cardinality(U)
  BY FS_Subset
<1>. QED  BY <1>5, <1>6 DEF Adds, AddsUpTo

LEMMA SumAdds ==
    ASSUME NEW U, IsFiniteSet(U), NEW f
    PROVE  \E it : Adds(it, f, U) /\ SumOf(f, U) = it[U]
<1>1. SumOf(f, U) = (CHOOSE it : Adds(it, f, U))[U]
  BY DEF SumOf, MapThenSumSet, MapThenFoldSet, Adds, First
<1>. QED  BY <1>1, AddsExists

LEMMA AddsStep ==
    ASSUME NEW U, NEW f, NEW it, Adds(it, f, U)
    PROVE  \A s \in SUBSET U :
              it[s] = IF s = {} THEN 0 ELSE f[First(s)] + it[s \ {First(s)}]
BY DEF Adds

\* Sums depend on the values in the set only.
LEMMA SameAdds ==
    ASSUME NEW U, NEW V, IsFiniteSet(U), IsFiniteSet(V), NEW f, NEW g, NEW it, NEW jt,
           Adds(it, f, U), Adds(jt, g, V)
    PROVE  \A s \in SUBSET (U \cap V) : (\A x \in s : f[x] = g[x]) => it[s] = jt[s]
<1>. DEFINE Same(s) == (\A x \in s : f[x] = g[x]) => it[s] = jt[s]
            T == {n \in Nat : \A s \in SUBSET (U \cap V) : Cardinality(s) = n => Same(s)}
<1>1. IsFiniteSet(U \cap V) /\ \A s \in SUBSET (U \cap V) : s \in SUBSET U /\ s \in SUBSET V
  BY FS_Subset, U \cap V \in SUBSET U
<1>2. \A s \in SUBSET (U \cap V) : Cardinality(s) \in Nat /\ (Cardinality(s) = 0 <=> s = {})
  BY <1>1, FS_Subset, FS_CardinalityType, FS_EmptySet
<1>3. it[{}] = 0 /\ jt[{}] = 0
  BY AddsStep
<1>4. 0 \in T
  BY <1>2, <1>3
<1>5. ASSUME NEW n \in T PROVE n + 1 \in T
  <2>1. SUFFICES ASSUME NEW s \in SUBSET (U \cap V), Cardinality(s) = n + 1,
                        \A x \in s : f[x] = g[x]
                 PROVE  it[s] = jt[s]
    OBVIOUS
  <2>2. s # {} /\ s \in SUBSET U /\ s \in SUBSET V
    BY <1>1, <1>2, <2>1
  <2>3. /\ First(s) \in s /\ s \ {First(s)} \in SUBSET (U \cap V)
        /\ Cardinality(s \ {First(s)}) = n
    BY <1>1, <2>1, <2>2, Fewer
  <2>4. it[s \ {First(s)}] = jt[s \ {First(s)}]
    BY <1>5, <2>1, <2>3
  <2>5. it[s] = f[First(s)] + it[s \ {First(s)}]
    BY <2>2, AddsStep
  <2>6. jt[s] = g[First(s)] + jt[s \ {First(s)}]
    BY <2>2, AddsStep
  <2>. QED  BY <2>1, <2>3, <2>4, <2>5, <2>6
<1>6. T = Nat
  <2>. HIDE DEF T
  <2>. QED  BY <1>4, <1>5, Induct, T \in SUBSET Nat DEF T
<1>7. \A s \in SUBSET (U \cap V) : Same(s)
  BY <1>2, <1>6
<1>. QED  BY <1>7

LEMMA SumEmpty ==
    ASSUME NEW f
    PROVE  SumOf(f, {}) = 0
<1>1. PICK it : Adds(it, f, {}) /\ SumOf(f, {}) = it[{}]
  BY SumAdds, FS_EmptySet
<1>. QED  BY <1>1, AddsStep

LEMMA SumSame ==
    ASSUME NEW S, IsFiniteSet(S), NEW f, NEW g, \A x \in S : f[x] = g[x]
    PROVE  SumOf(f, S) = SumOf(g, S)
<1>1. PICK it : Adds(it, f, S) /\ SumOf(f, S) = it[S]
  BY SumAdds
<1>2. PICK jt : Adds(jt, g, S) /\ SumOf(g, S) = jt[S]
  BY SumAdds
<1>3. S \in SUBSET (S \cap S)
  OBVIOUS
<1>. QED  BY <1>1, <1>2, <1>3, SameAdds

LEMMA SumFirst ==
    ASSUME NEW S, IsFiniteSet(S), S # {}, NEW f
    PROVE  SumOf(f, S) = f[First(S)] + SumOf(f, S \ {First(S)})
<1>1. PICK it : Adds(it, f, S) /\ SumOf(f, S) = it[S]
  BY SumAdds
<1>2. S \ {First(S)} \in SUBSET S /\ IsFiniteSet(S \ {First(S)})
  BY FS_Subset
<1>3. PICK jt : Adds(jt, f, S \ {First(S)}) /\ SumOf(f, S \ {First(S)}) = jt[S \ {First(S)}]
  BY <1>2, SumAdds
<1>4. jt[S \ {First(S)}] = it[S \ {First(S)}]
  <2>1. S \ {First(S)} \in SUBSET (S \cap (S \ {First(S)}))
    OBVIOUS
  <2>. QED  BY <1>1, <1>2, <1>3, <2>1, SameAdds
<1>. QED  BY <1>1, <1>3, <1>4, AddsStep

\* A sum is an integer, and any element may be added last.
LEMMA SumTakes ==
    ASSUME NEW U, IsFiniteSet(U), NEW f, \A x \in U : f[x] \in Int
    PROVE  \A S \in SUBSET U :
              /\ SumOf(f, S) \in Int
              /\ \A x \in S : SumOf(f, S) = f[x] + SumOf(f, S \ {x})
<1>. DEFINE Good(S) == /\ SumOf(f, S) \in Int
                       /\ \A x \in S : SumOf(f, S) = f[x] + SumOf(f, S \ {x})
            T == {n \in Nat : \A S \in SUBSET U : Cardinality(S) <= n => Good(S)}
<1>1. \A S \in SUBSET U : IsFiniteSet(S) /\ Cardinality(S) \in Nat
                          /\ (Cardinality(S) = 0 <=> S = {})
  BY FS_Subset, FS_CardinalityType, FS_EmptySet
<1>2. 0 \in T
  BY <1>1, SumEmpty
<1>3. ASSUME NEW n \in T PROVE n + 1 \in T
  <2>1. SUFFICES ASSUME NEW S \in SUBSET U, Cardinality(S) <= n + 1, S # {}
                 PROVE  Good(S)
    BY <1>1, <1>2
  <2>. DEFINE p == First(S)
  <2>2. S # {}
    BY <2>1
  <2>3. p \in S /\ S \ {p} \in SUBSET U /\ Cardinality(S \ {p}) <= n
    BY <2>1, <2>2, Fewer
  <2>4. SumOf(f, S) = f[p] + SumOf(f, S \ {p})
    BY <1>1, <2>2, SumFirst
  <2>5. Good(S \ {p})
    BY <1>3, <2>3
  <2>. HIDE DEF p
  <2>6. ASSUME NEW x \in S, x # p
        PROVE  SumOf(f, S) = f[x] + SumOf(f, S \ {x})
    <3>1. /\ S \ {x} \in SUBSET U /\ p \in S \ {x} /\ x \in S \ {p}
          /\ (S \ {x}) \ {p} = (S \ {p}) \ {x}
      BY <2>3, <2>6
    <3>2. Cardinality(S \ {x}) <= n
      BY <1>1, <2>1, FS_RemoveElement
    <3>3. Good(S \ {x})
      BY <1>3, <3>1, <3>2
    <3>4. SumOf(f, S \ {p}) = f[x] + SumOf(f, (S \ {p}) \ {x})
      BY <2>5, <3>1
    <3>5. SumOf(f, S \ {x}) = f[p] + SumOf(f, (S \ {p}) \ {x})
      BY <3>1, <3>3
    <3>6. SumOf(f, (S \ {p}) \ {x}) \in Int
      BY <1>1, <1>3, <2>3, FS_RemoveElement
    <3>. QED  BY <2>3, <2>4, <3>4, <3>5, <3>6
  <2>. QED  BY <2>3, <2>4, <2>5, <2>6
<1>4. T = Nat
  <2>. HIDE DEF T
  <2>. QED  BY <1>2, <1>3, Induct, T \in SUBSET Nat DEF T
<1>. QED  BY <1>1, <1>4

\* What holds of every element, up to two factors, holds of the sums.
LEMMA SumScaled ==
    ASSUME NEW U, IsFiniteSet(U), NEW f, NEW g, NEW a \in Int, NEW b \in Int,
           \A x \in U : f[x] \in Int /\ g[x] \in Int /\ f[x] * a <= g[x] * b
    PROVE  SumOf(f, U) * a <= SumOf(g, U) * b
<1>. DEFINE Good(S) == SumOf(f, S) * a <= SumOf(g, S) * b
            T == {n \in Nat : \A S \in SUBSET U : Cardinality(S) = n => Good(S)}
<1>1. \A S \in SUBSET U : IsFiniteSet(S) /\ Cardinality(S) \in Nat
                          /\ (Cardinality(S) = 0 <=> S = {})
  BY FS_Subset, FS_CardinalityType, FS_EmptySet
<1>2. 0 \in T
  <2>1. SumOf(f, {}) = 0 /\ SumOf(g, {}) = 0
    BY SumEmpty
  <2>. QED  BY <1>1, <2>1
<1>3. ASSUME NEW n \in T PROVE n + 1 \in T
  <2>1. SUFFICES ASSUME NEW S \in SUBSET U, Cardinality(S) = n + 1
                 PROVE  Good(S)
    OBVIOUS
  <2>2. S # {}
    BY <1>1, <2>1
  <2>3. PICK x \in S : TRUE
    BY <2>2
  <2>4. S \ {x} \in SUBSET U /\ Cardinality(S \ {x}) = n
    <3>1. Cardinality(S \ {x}) = Cardinality(S) - 1
      BY <1>1, <2>3, FS_RemoveElement
    <3>. QED  BY <2>1, <3>1
  <2>5. Good(S \ {x})
    BY <1>3, <2>4
  <2>6. /\ SumOf(f, S) = f[x] + SumOf(f, S \ {x})
        /\ SumOf(f, S \ {x}) \in Int
    BY <2>3, <2>4, SumTakes
  <2>7. /\ SumOf(g, S) = g[x] + SumOf(g, S \ {x})
        /\ SumOf(g, S \ {x}) \in Int
    BY <2>3, <2>4, SumTakes
  <2>. DEFINE F == SumOf(f, S \ {x})
              H == SumOf(g, S \ {x})
  <2>8. F \in Int /\ H \in Int /\ F * a <= H * b
    BY <2>5, <2>6, <2>7
  <2>9. f[x] \in Int /\ g[x] \in Int /\ f[x] * a <= g[x] * b
    BY <2>3
  <2>10. SumOf(f, S) = f[x] + F /\ SumOf(g, S) = g[x] + H
    BY <2>6, <2>7
  <2>. HIDE DEF F, H
  <2>11. (f[x] + F) * a <= (g[x] + H) * b
    BY <2>8, <2>9
  <2>. QED  BY <2>10, <2>11
<1>4. T = Nat
  <2>. HIDE DEF T
  <2>. QED  BY <1>2, <1>3, Induct, T \in SUBSET Nat DEF T
<1>. QED  BY <1>1, <1>4

LEMMA SumZero ==
    ASSUME NEW U, IsFiniteSet(U), NEW f, \A x \in U : f[x] = 0
    PROVE  SumOf(f, U) = 0
<1>1. SumOf(f, U) \in Int
  BY SumTakes
<1>2. SumOf(f, U) * 1 <= SumOf(f, U) * 0
  BY SumScaled
<1>3. SumOf(f, U) * 0 <= SumOf(f, U) * 1
  BY SumScaled
<1>. QED  BY <1>1, <1>2, <1>3

\* One value of the sum grows.
LEMMA SumGrows ==
    ASSUME NEW U, IsFiniteSet(U), NEW f, \A x \in U : f[x] \in Int,
           NEW p \in U, NEW d \in Int, NEW g, \A x \in U \ {p} : g[x] = f[x], g[p] = f[p] + d
    PROVE  SumOf(g, U) = SumOf(f, U) + d
<1>1. SumOf(f, U) = f[p] + SumOf(f, U \ {p}) /\ SumOf(f, U \ {p}) \in Int
  BY SumTakes
<1>2. \A x \in U : g[x] \in Int
  OBVIOUS
<1>3. SumOf(g, U) = g[p] + SumOf(g, U \ {p})
  BY <1>2, SumTakes
<1>4. SumOf(g, U \ {p}) = SumOf(f, U \ {p})
  BY FS_Subset, SumSame
<1>. QED  BY <1>1, <1>3, <1>4

-----------------------------------------------------------------------------
(* The experience of a death.                                               *)

LEMMA DivAtMost ==
    ASSUME NEW a \in Nat, NEW t \in Nat, t > 0
    PROVE  a \div t \in Nat /\ (a \div t) * t <= a
OBVIOUS

LEMMA CancelFactor ==
    ASSUME NEW a \in Int, NEW b \in Int, NEW t \in Int, t > 0, a * t <= t * b
    PROVE  a <= b
<1>. SUFFICES ASSUME a >= b + 1 PROVE FALSE
  OBVIOUS
<1>1. a * t >= (b + 1) * t
  OBVIOUS
<1>2. (b + 1) * t = t * b + t
  OBVIOUS
<1>. QED  BY <1>1, <1>2

\* The shares of a total that is the sum of what was dealt are Exp at most.
LEMMA SharesBounded ==
    ASSUME NEW h \in [Players -> Nat], NEW t \in Nat, t = SumOf(h, Players),
           NEW paid \in SUBSET Players
    PROVE  SumOf(Shares(h, t, paid), Players) <= Exp
<1>. DEFINE sh == Shares(h, t, paid)
<1>1. Exp \in Nat /\ IsFiniteSet(Players)
  BY NumbersAssumption, FiniteAssumption
<1>2. CASE t = 0
  <2>1. \A p \in Players : sh[p] = 0
    BY <1>2 DEF Shares
  <2>. QED  BY <1>1, <2>1, SumZero
<1>3. CASE t # 0
  <2>1. ASSUME NEW p \in Players
        PROVE  sh[p] \in Int /\ h[p] \in Int /\ sh[p] * t <= h[p] * Exp
    <3>. DEFINE e == h[p] * Exp
    <3>1. e \in Nat
      BY <1>1
    <3>2. sh[p] = IF p \in paid THEN e \div t ELSE 0
      BY <1>3 DEF Shares
    <3>. HIDE DEF e, sh
    <3>3. e \div t \in Nat /\ (e \div t) * t <= e
      BY <1>3, <3>1, DivAtMost
    <3>4. CASE p \in paid
      BY <3>2, <3>3, <3>4 DEF e
    <3>5. CASE p \notin paid
      <4>1. sh[p] = 0
        BY <3>2, <3>5
      <4>2. sh[p] * t = 0
        BY <4>1
      <4>. QED  BY <3>1, <4>1, <4>2 DEF e
    <3>. QED  BY <3>4, <3>5
  <2>. HIDE DEF sh
  <2>2. SumOf(sh, Players) * t <= SumOf(h, Players) * Exp
    BY <1>1, <2>1, SumScaled
  <2>3. SumOf(sh, Players) \in Int
    BY <1>1, <2>1, SumTakes
  <2>. QED  BY <1>1, <1>3, <2>2, <2>3, CancelFactor DEF sh
<1>. QED  BY <1>2, <1>3

\* What was dealt to one in this life is what it has lost at most, and since its
\* first death total_hostility is the sum of it.
Fair(m) ==
    /\ SumOf(mon[m].hostility, Players) + mon[m].hp <= MaxHp
    /\ deaths[m] > 0 => mon[m].total = SumOf(mon[m].hostility, Players)
    /\ deaths[m] > 1 => SumOf(share[m], Players) <= Exp

SharesInv == DOMAIN share = Monsters /\ \A m \in Spawned : Fair(m)

LEMMA SharesInit == Init => SharesInv
<1>. SUFFICES ASSUME Init, NEW m \in Spawned PROVE Fair(m)
  BY DEF SharesInv, Init
<1>1. PICK leftover \in [Spawned -> Leftovers] :
        mon = [n \in Spawned |-> NewMonster(FirstIds[n], leftover[n])]
  BY DEF Init
<1>2. mon[m].hostility = NoHostility /\ mon[m].hp = MaxHp
  BY <1>1 DEF NewMonster
<1>3. deaths[m] = 0
  BY DEF Init, Monsters
<1>4. SumOf(NoHostility, Players) = 0
  BY FiniteAssumption, SumZero DEF NoHostility
<1>. QED  BY <1>2, <1>3, <1>4, Numbers DEF Fair

\* A step that deals nothing: who is respawned has been forgotten by his attackers.
LEMMA FairKept ==
    ASSUME SpawnsInv, SharesInv, NEW m \in Spawned,
           mon'[m].hostility = mon[m].hostility, mon'[m].total = mon[m].total,
           mon'[m].hp = mon[m].hp \/ (mon'[m].hp = MaxHp /\ mon[m].hp = 0),
           deaths'[m] = deaths[m], share'[m] = share[m]
    PROVE  Fair(m)'
<1>1. Fair(m)
  BY DEF SharesInv
<1>2. CASE mon'[m].hp = mon[m].hp
  BY <1>1, <1>2 DEF Fair
<1>3. CASE mon'[m].hp = MaxHp /\ mon[m].hp = 0
  <2>1. m \in DOMAIN mon
    BY DEF SpawnsInv, TypeOK
  <2>2. mon[m].hostility = NoHostility
    BY <1>3, <2>1 DEF SpawnsInv, LifeInv
  <2>3. SumOf(NoHostility, Players) = 0
    BY FiniteAssumption, SumZero DEF NoHostility
  <2>. QED  BY <1>1, <1>3, <2>2, <2>3, Numbers DEF Fair
<1>. QED  BY <1>2, <1>3

\* The damage is in both counts, and the life points have lost it.
LEMMA HurtFair ==
    ASSUME SpawnsInv, NEW m \in DOMAIN mon, NEW p \in Players, NEW dealt \in 0..mon[m].hp,
           NEW hurt, hurt = [mon[m] EXCEPT !.hp = @ - dealt, !.hostility[p] = @ + dealt,
                                           !.total = (@ + dealt) % Width],
           SumOf(mon[m].hostility, Players) + mon[m].hp <= MaxHp
    PROVE  /\ hurt.hostility \in [Players -> Nat]
           /\ hurt.total \in Nat
           /\ SumOf(hurt.hostility, Players) + hurt.hp <= MaxHp
           /\ mon[m].total = SumOf(mon[m].hostility, Players)
                => hurt.total = SumOf(hurt.hostility, Players)
<1>. DEFINE h == mon[m].hostility
            k == hurt.hostility
            t == mon[m].total
<1>1. mon[m] \in MonsterType
  BY MonsterTypes
<1>2. /\ mon[m].hp \in 0..MaxHp /\ h \in [Players -> 0..MaxHp] /\ t \in 0..Width - 1
      /\ hurt.hp = mon[m].hp - dealt /\ k = [h EXCEPT ![p] = @ + dealt]
      /\ hurt.total = (t + dealt) % Width
  BY <1>1 DEF MonsterType
<1>3. IsFiniteSet(Players) /\ \A x \in Players : h[x] \in Int
  BY <1>2, FiniteAssumption, Numbers
<1>4. dealt \in Nat /\ t \in Nat /\ MaxHp \in Nat /\ Width \in Nat /\ Width > MaxHp
  BY <1>2, NumbersAssumption
<1>5. /\ \A x \in Players \ {p} : k[x] = h[x]
      /\ k[p] = h[p] + dealt
  BY <1>2
<1>6. k \in [Players -> Nat]
  BY <1>2, <1>4
<1>. HIDE DEF h, k, t
<1>7. /\ SumOf(h, Players) \in Int
      /\ SumOf(k, Players) = SumOf(h, Players) + dealt
  BY <1>3, <1>4, <1>5, SumTakes, SumGrows
<1>8. SumOf(h, Players) + mon[m].hp <= MaxHp
  BY DEF h
<1>9. SumOf(k, Players) + hurt.hp <= MaxHp /\ SumOf(h, Players) + dealt <= MaxHp
  BY <1>2, <1>4, <1>7, <1>8
<1>10. hurt.total \in Nat
  <2>1. t + dealt \in Int
    BY <1>4
  <2>. QED  BY <1>2, <1>4, <2>1, ModInRange
<1>11. ASSUME t = SumOf(h, Players) PROVE hurt.total = SumOf(k, Players)
  <2>1. t + dealt \in 0 .. Width - 1
    BY <1>4, <1>9, <1>11
  <2>2. (t + dealt) % Width = t + dealt
    BY <1>4, <2>1
  <2>. QED  BY <1>2, <1>7, <1>11, <2>2
<1>. QED  BY <1>6, <1>9, <1>10, <1>11 DEF h, k, t

LEMMA SharesAttack ==
    ASSUME SpawnsInv, SharesInv, NEW p \in Players, NEW id \in Ids, NEW d \in 0..MaxHp,
           Attack(p, id, d)
    PROVE  SharesInv'
<1>. DEFINE m == onMap[id]
            dealt == Dealt(m, d)
            hurt == [mon[m] EXCEPT !.hp = @ - dealt, !.hostility[p] = @ + dealt,
                                   !.total = (@ + dealt) % Width]
            dead == [hurt EXCEPT !.hostility = NoHostility, !.total = 0,
                         !.gstate = @ \cup {IF m \in Beheadable THEN "KNEE" ELSE "KO"},
                         !.dying = 0]
<1>1. m \in DOMAIN mon /\ m \in Monsters /\ mon[m] \in MonsterType
  BY OnMapExists, MonsterTypes DEF Attack
<1>2. dealt \in 0..mon[m].hp /\ mon[m].hp \in 0..MaxHp
  BY <1>1, DealtBound DEF MonsterType
<1>3. /\ deaths \in [Monsters -> Nat] /\ DOMAIN share = Monsters
      /\ Spawned \subseteq DOMAIN mon /\ Spawned \subseteq Monsters
  BY DEF SpawnsInv, CountsInv, SharesInv, TypeOK, Monsters
<1>4. hurt.hp = mon[m].hp - dealt /\ hurt \in [DOMAIN mon[m] -> UNION {{hurt[x]} : x \in DOMAIN mon[m]}]
  BY <1>1 DEF MonsterType
<1>5. m \in Spawned =>
        /\ hurt.hostility \in [Players -> Nat]
        /\ hurt.total \in Nat
        /\ SumOf(hurt.hostility, Players) + hurt.hp <= MaxHp
        /\ deaths[m] > 0 => hurt.total = SumOf(hurt.hostility, Players)
  <2>. SUFFICES ASSUME m \in Spawned
                PROVE  /\ hurt.hostility \in [Players -> Nat]
                       /\ hurt.total \in Nat
                       /\ SumOf(hurt.hostility, Players) + hurt.hp <= MaxHp
                       /\ deaths[m] > 0 => hurt.total = SumOf(hurt.hostility, Players)
    OBVIOUS
  <2>1. Fair(m)
    BY DEF SharesInv
  <2>2. hurt = [mon[m] EXCEPT !.hp = @ - dealt, !.hostility[p] = @ + dealt,
                              !.total = (@ + dealt) % Width]
    OBVIOUS
  <2>. HIDE DEF m, dealt, hurt
  <2>3. SumOf(mon[m].hostility, Players) + mon[m].hp <= MaxHp
    BY <2>1 DEF Fair
  <2>4. /\ hurt.hostility \in [Players -> Nat]
        /\ hurt.total \in Nat
        /\ SumOf(hurt.hostility, Players) + hurt.hp <= MaxHp
        /\ mon[m].total = SumOf(mon[m].hostility, Players)
             => hurt.total = SumOf(hurt.hostility, Players)
    BY <1>1, <1>2, <2>2, <2>3, HurtFair
  <2>. QED  BY <2>1, <2>4 DEF Fair
<1>6. dead.hostility = NoHostility /\ dead.total = 0 /\ dead.hp = hurt.hp
  BY <1>1 DEF MonsterType
<1>7. /\ ~(hurt.hp > 0) => \E paid \in SUBSET Players : Die(m, hurt, paid)
      /\ hurt.hp > 0 => mon' = [mon EXCEPT ![m] = hurt] /\ UNCHANGED <<share, deaths>>
  BY DEF Attack
<1>8. ASSUME NEW paid, Die(m, hurt, paid)
      PROVE  /\ share' = [share EXCEPT ![m] = Shares(hurt.hostility, hurt.total, paid)]
             /\ deaths' = [deaths EXCEPT ![m] = @ + 1]
             /\ mon' = [mon EXCEPT ![m] = dead]
  BY <1>8 DEF Die
<1>. HIDE DEF hurt, dead, m
<1>9. CASE hurt.hp > 0
  <2>1. mon' = [mon EXCEPT ![m] = hurt] /\ share' = share /\ deaths' = deaths
    BY <1>7, <1>9
  <2>2. ASSUME NEW n \in Spawned PROVE Fair(n)'
    <3>1. CASE n = m
      <4>1. Fair(m) /\ mon'[m] = hurt
        BY <1>1, <2>1, <3>1 DEF SharesInv
      <4>. QED  BY <1>5, <2>1, <3>1, <4>1 DEF Fair
    <3>2. CASE n # m
      <4>1. mon'[n] = mon[n]
        BY <1>3, <2>1, <3>2
      <4>. QED  BY <2>1, <4>1, FairKept
    <3>. QED  BY <3>1, <3>2
  <2>. QED  BY <1>3, <2>1, <2>2 DEF SharesInv
<1>10. CASE ~(hurt.hp > 0)
  <2>1. PICK paid \in SUBSET Players : Die(m, hurt, paid)
    BY <1>7, <1>10
  <2>2. /\ share' = [share EXCEPT ![m] = Shares(hurt.hostility, hurt.total, paid)]
        /\ deaths' = [deaths EXCEPT ![m] = @ + 1]
        /\ mon' = [mon EXCEPT ![m] = dead]
    BY <1>8, <2>1
  <2>3. hurt.hp <= MaxHp /\ hurt.hp \in Int
    BY <1>2, <1>4, Numbers
  <2>4. ASSUME NEW n \in Spawned PROVE Fair(n)'
    <3>1. CASE n = m
      <4>1. /\ mon'[m] = dead /\ deaths'[m] = deaths[m] + 1 /\ deaths[m] \in Nat
            /\ share'[m] = Shares(hurt.hostility, hurt.total, paid)
        BY <1>1, <1>3, <2>2
      <4>2. SumOf(NoHostility, Players) = 0
        BY FiniteAssumption, SumZero DEF NoHostility
      <4>3. mon'[m].hostility = NoHostility /\ mon'[m].total = 0 /\ mon'[m].hp = hurt.hp
        BY <1>6, <4>1
      <4>4. deaths[m] > 0 => SumOf(share'[m], Players) <= Exp
        BY <1>5, <3>1, <4>1, SharesBounded
      <4>. QED  BY <2>3, <3>1, <4>1, <4>2, <4>3, <4>4, Numbers DEF Fair
    <3>2. CASE n # m
      <4>1. mon'[n] = mon[n] /\ share'[n] = share[n] /\ deaths'[n] = deaths[n]
        BY <1>3, <2>2, <3>2
      <4>. QED  BY <4>1, FairKept
    <3>. QED  BY <3>1, <3>2
  <2>. QED  BY <1>3, <2>2, <2>4 DEF SharesInv
<1>. QED  BY <1>9, <1>10

LEMMA SharesStep == SpawnsInv /\ SharesInv /\ [Next]_vars => SharesInv'
<1>. SUFFICES ASSUME SpawnsInv, SharesInv, [Next]_vars PROVE SharesInv'
  OBVIOUS
<1>1. \A m \in Spawned : m \in DOMAIN mon /\ mon[m] \in MonsterType
  BY MonsterTypes DEF SpawnsInv, TypeOK
<1>2. ASSUME UNCHANGED <<deaths, share>>,
             \A m \in Spawned :
               /\ mon'[m].hostility = mon[m].hostility /\ mon'[m].total = mon[m].total
               /\ mon'[m].hp = mon[m].hp \/ (mon'[m].hp = MaxHp /\ mon[m].hp = 0)
      PROVE  SharesInv'
  BY <1>2, FairKept DEF SharesInv
<1>3. CASE Wait
  <2>1. \A m \in Spawned :
          /\ mon'[m].hostility = mon[m].hostility /\ mon'[m].total = mon[m].total
          /\ mon'[m].hp = mon[m].hp
    BY <1>1, <1>3 DEF Wait, MonsterType
  <2>. QED  BY <1>2, <1>3, <2>1 DEF Wait, history
<1>4. CASE TickMonsters
  <2>1. \A m \in Spawned :
          /\ mon'[m].hostility = mon[m].hostility /\ mon'[m].total = mon[m].total
          /\ mon'[m].hp = mon[m].hp
    BY <1>1, <1>4 DEF TickMonsters, MonsterType
  <2>. QED  BY <1>2, <1>4, <2>1 DEF TickMonsters, history
<1>5. CASE RemoveDeadMonsters
  <2>1. \A m \in Spawned :
          /\ mon'[m].hostility = mon[m].hostility /\ mon'[m].total = mon[m].total
          /\ mon'[m].hp = mon[m].hp
    BY <1>1, <1>5 DEF RemoveDeadMonsters, FlagAndDestroy, MonsterType
  <2>. QED  BY <1>2, <1>5, <2>1 DEF RemoveDeadMonsters, history
<1>6. ASSUME NEW s \in Spawns, Respawn(s)
      PROVE  SharesInv'
  <2>1. PICK m \in AreaMonsters(s) : mon' = [mon EXCEPT ![m] = Restored(m, nextId)]
    BY <1>6 DEF Respawn
  <2>2. m \in Spawned /\ mon[m].removed
    BY DEF AreaMonsters
  <2>3. mon[m].hp = 0
    BY <1>1, <2>2 DEF SpawnsInv, LifeInv
  <2>4. /\ mon'[m].hostility = mon[m].hostility /\ mon'[m].total = mon[m].total
        /\ mon'[m].hp = MaxHp
    BY <1>1, <2>1, <2>2 DEF Restored, MonsterType
  <2>5. \A n \in Spawned : n # m => mon'[n] = mon[n]
    BY <1>1, <2>1
  <2>. QED  BY <1>2, <1>6, <2>3, <2>4, <2>5 DEF Respawn
<1>7. ASSUME NEW id \in Ids, Behead(id)
      PROVE  SharesInv'
  <2>1. \A m \in Spawned :
          /\ mon'[m].hostility = mon[m].hostility /\ mon'[m].total = mon[m].total
          /\ mon'[m].hp = mon[m].hp
    BY <1>1, <1>7 DEF Behead, MonsterType
  <2>. QED  BY <1>2, <1>7, <2>1 DEF Behead, history
<1>8. ASSUME NEW n \in Summonable, Summon(n)
      PROVE  SharesInv'
  <2>1. \A m \in Spawned : mon'[m] = mon[m]
    BY <1>1, <1>8, SummonAssumption DEF Summon, With
  <2>. QED  BY <1>2, <1>8, <2>1 DEF Summon
<1>9. ASSUME UNCHANGED <<world, history>> PROVE SharesInv'
  BY <1>2, <1>9 DEF world, history
<1>10. CASE RemoveExpiredLoot
  BY <1>9, <1>10 DEF RemoveExpiredLoot
<1>11. ASSUME NEW s \in Spawns, SpawnDone(s) PROVE SharesInv'
  BY <1>9, <1>11 DEF SpawnDone
<1>12. ASSUME NEW id \in Ids, PickUp(id) PROVE SharesInv'
  BY <1>9, <1>12 DEF PickUp
<1>13. CASE UNCHANGED vars
  BY <1>9, <1>13 DEF vars
<1>14. ASSUME NEW p \in Players, NEW id \in Ids, NEW d \in 0..MaxHp, Attack(p, id, d)
       PROVE  SharesInv'
  BY <1>14, SharesAttack
<1>. QED BY <1>3, <1>4, <1>5, <1>6, <1>7, <1>8, <1>10, <1>11, <1>12, <1>13, <1>14
         DEF Next, TickThread, Handlers

\* From the second life of a spawned monster on, those who share its death are never
\* given more than it is worth together, for any players and numbers: what was dealt
\* is forgotten at each death, and the total is the sum of it.
THEOREM ExpNeverExceeded == Spec => []ExpShared
<1>1. SpawnsInv /\ SharesInv /\ [Next]_vars => SharesInv'
  BY SharesStep
<1>2. SharesInv => ExpShared
  BY DEF SharesInv, Fair, ExpShared, SumOf
<1>. QED  BY <1>1, <1>2, SharesInit, Invariant, PTL DEF Spec

-----------------------------------------------------------------------------
(* The tables of chances.                                                   *)

LEMMA Least ==
    ASSUME NEW T \in SUBSET Nat, T # {}
    PROVE  Min(T) \in T /\ \A k \in T : Min(T) <= k
<1>1. \E m \in T : \A k \in T : m =< k
  BY Smallest
<1>. QED  BY <1>1 DEF Min

LEMMA Greatest ==
    ASSUME NEW n \in Nat, NEW T \in SUBSET (0 .. n), T # {}
    PROVE  Max(T) \in T /\ \A k \in T : k <= Max(T)
<1>. DEFINE U == {n - k : k \in T}
<1>1. PICK u \in U : \A v \in U : u <= v
  <2>1. \A k \in T : n - k \in Nat
    OBVIOUS
  <2>2. U \in SUBSET Nat /\ U # {}
    BY <2>1
  <2>. HIDE DEF U
  <2>. QED  BY <2>2, Smallest
<1>2. PICK m \in T : u = n - m
  OBVIOUS
<1>3. \A k \in T : m >= k
  <2>. SUFFICES ASSUME NEW k \in T PROVE m >= k
    OBVIOUS
  <2>1. n - m <= n - k
    BY <1>1, <1>2
  <2>. QED  BY <2>1
<1>4. Max(T) \in T /\ \A k \in T : Max(T) >= k
  BY <1>3 DEF Max
<1>. QED  BY <1>4

\* A table is refused, or its keys are chances that a roll can reach.
Sound(t) == t = Refused \/ DOMAIN t \subseteq 1 .. MaxRoll

LEMMA AssignSound ==
    ASSUME NEW t, Sound(t), NEW e, e[1] \in Nat
    PROVE  Sound(Assign(t, e))
<1>1. MaxRoll \in Nat
  BY NumbersAssumption
<1>2. CASE t = Refused
  BY <1>2 DEF Assign, Sound
<1>3. CASE t # Refused
  <2>1. DOMAIN t \subseteq 1 .. MaxRoll
    BY <1>3 DEF Sound
  <2>2. MaxMapKey(t) \in 0 .. MaxRoll
    <3>1. DOMAIN t \cup {0} \in SUBSET (0 .. MaxRoll) /\ DOMAIN t \cup {0} # {}
      BY <1>1, <2>1
    <3>. QED  BY <1>1, <3>1, Greatest DEF MaxMapKey
  <2>3. ASSUME e[1] <= MaxRoll, e[1] > MaxMapKey(t)
        PROVE  DOMAIN With(t, e[1], e[2]) \subseteq 1 .. MaxRoll
    <3>1. e[1] \in 1 .. MaxRoll
      BY <1>1, <2>2, <2>3
    <3>. QED  BY <2>1, <3>1 DEF With
  <2>4. \/ Assign(t, e) = t \/ Assign(t, e) = Refused
        \/ Assign(t, e) = With(t, e[1], e[2]) /\ ~(e[1] > MaxRoll \/ e[1] <= MaxMapKey(t))
    BY <1>3 DEF Assign
  <2>. QED  BY <1>1, <2>1, <2>2, <2>3, <2>4 DEF Sound
<1>. QED  BY <1>2, <1>3

Rest(s) == s \ {Max(s)}

\* it is what FoldLeft computes of every part of a list.
Loads(it, es) ==
    it = [s \in SUBSET DOMAIN es |-> IF s = {} THEN <<>> ELSE Assign(it[Rest(s)], es[Max(s)])]

LoadsUpTo(n, it, es) ==
    /\ it = [s \in SUBSET DOMAIN es |-> it[s]]
    /\ \A s \in SUBSET DOMAIN es : Cardinality(s) <= n =>
          it[s] = IF s = {} THEN <<>> ELSE Assign(it[Rest(s)], es[Max(s)])

LEMMA PartOfList ==
    ASSUME NEW n \in Nat
    PROVE  \A s \in SUBSET (1 .. n) :
              /\ IsFiniteSet(s) /\ Cardinality(s) \in Nat
              /\ Cardinality(s) = 0 <=> s = {}
              /\ Cardinality(s) <= Cardinality(1 .. n)
<1>1. 1 \in Int /\ n \in Int
  OBVIOUS
<1>2. IsFiniteSet(1 .. n)
  BY <1>1, FS_Interval
<1>3. \A s \in SUBSET (1 .. n) : IsFiniteSet(s) /\ Cardinality(s) <= Cardinality(1 .. n)
  BY <1>2, FS_Subset
<1>. QED  BY <1>3, FS_CardinalityType, FS_EmptySet

LEMMA LastEntry ==
    ASSUME NEW n \in Nat, NEW s \in SUBSET (1 .. n), s # {}
    PROVE  /\ Max(s) \in s /\ Rest(s) \in SUBSET (1 .. n)
           /\ Cardinality(s) \in Nat /\ Cardinality(Rest(s)) \in Nat
           /\ Cardinality(Rest(s)) = Cardinality(s) - 1
<1>1. Max(s) \in s
  <2>1. s \in SUBSET (0 .. n)
    OBVIOUS
  <2>. QED  BY <2>1, Greatest
<1>2. IsFiniteSet(s)
  BY PartOfList
<1>. QED  BY <1>1, <1>2, FS_RemoveElement, FS_CardinalityType DEF Rest

LEMMA LoadsExists ==
    ASSUME NEW n \in Nat, NEW es, DOMAIN es = 1 .. n
    PROVE  \E it : Loads(it, es)
<1>. DEFINE U == DOMAIN es
            T == {k \in Nat : \E it : LoadsUpTo(k, it, es)}
<1>1. \A s \in SUBSET U : Cardinality(s) \in Nat /\ (Cardinality(s) = 0 <=> s = {})
  BY PartOfList
<1>2. 0 \in T
  <2>. DEFINE it == [s \in SUBSET U |-> <<>>]
  <2>1. it = [s \in SUBSET U |-> it[s]]
    OBVIOUS
  <2>2. \A s \in SUBSET U : Cardinality(s) <= 0 => s = {} /\ it[s] = <<>>
    BY <1>1
  <2>. HIDE DEF it
  <2>3. LoadsUpTo(0, it, es)
    BY <2>1, <2>2 DEF LoadsUpTo
  <2>. QED  BY <2>3
<1>3. ASSUME NEW k \in T PROVE k + 1 \in T
  <2>1. PICK it : LoadsUpTo(k, it, es)
    BY <1>3
  <2>. DEFINE jt == [s \in SUBSET U |-> IF Cardinality(s) <= k THEN it[s]
                                        ELSE Assign(it[Rest(s)], es[Max(s)])]
  <2>2. ASSUME NEW s \in SUBSET U, Cardinality(s) <= k + 1
        PROVE  jt[s] = IF s = {} THEN <<>> ELSE Assign(jt[Rest(s)], es[Max(s)])
    <3>1. CASE s = {}
      <4>1. Cardinality(s) <= k
        BY <1>1, <3>1
      <4>. QED  BY <2>1, <4>1, <3>1 DEF LoadsUpTo
    <3>2. CASE s # {}
      <4>1. Rest(s) \in SUBSET U /\ Cardinality(Rest(s)) <= k
        BY <2>2, <3>2, LastEntry
      <4>2. jt[Rest(s)] = it[Rest(s)]
        BY <4>1
      <4>3. jt[s] = IF Cardinality(s) <= k THEN it[s] ELSE Assign(it[Rest(s)], es[Max(s)])
        OBVIOUS
      <4>4. Cardinality(s) <= k => it[s] = Assign(it[Rest(s)], es[Max(s)])
        BY <2>1, <3>2 DEF LoadsUpTo
      <4>. HIDE DEF jt
      <4>. QED  BY <3>2, <4>2, <4>3, <4>4
    <3>. QED  BY <3>1, <3>2
  <2>3. jt = [s \in SUBSET U |-> jt[s]]
    OBVIOUS
  <2>. HIDE DEF jt
  <2>4. LoadsUpTo(k + 1, jt, es)
    BY <2>2, <2>3 DEF LoadsUpTo
  <2>. QED  BY <2>4
<1>4. T = Nat
  <2>. HIDE DEF T
  <2>. QED  BY <1>2, <1>3, Induct, T \in SUBSET Nat DEF T
<1>5. PICK it : LoadsUpTo(Cardinality(U), it, es)
  BY <1>1, <1>4
<1>6. \A s \in SUBSET U : Cardinality(s) <= Cardinality(U)
  BY PartOfList
<1>. QED  BY <1>5, <1>6 DEF Loads, LoadsUpTo

\* What a list is read into is refused, or a table of chances.
LEMMA LoadedSound ==
    ASSUME NEW es \in EntryLists
    PROVE  Sound(Loaded(es))
<1>1. /\ Len(es) \in Nat /\ DOMAIN es = 1 .. Len(es)
      /\ \A i \in DOMAIN es : es[i][1] \in Nat
  <2>1. es \in Seq(Nat \X {es[i][2] : i \in DOMAIN es})
    BY ListsAssumption
  <2>. QED  BY <2>1
<1>2. Loaded(es) = (CHOOSE it : Loads(it, es))[DOMAIN es]
  BY DEF Loaded, FoldLeft, MapThenFoldSet, Loads, Rest
<1>3. PICK it : Loads(it, es) /\ Loaded(es) = it[DOMAIN es]
  BY <1>1, <1>2, LoadsExists
<1>. DEFINE U == DOMAIN es
            T == {k \in Nat : \A s \in SUBSET U : Cardinality(s) = k => Sound(it[s])}
<1>4. \A s \in SUBSET U : Cardinality(s) \in Nat /\ (Cardinality(s) = 0 <=> s = {})
  BY <1>1, PartOfList
<1>5. \A s \in SUBSET U : it[s] = IF s = {} THEN <<>> ELSE Assign(it[Rest(s)], es[Max(s)])
  BY <1>3 DEF Loads
<1>6. 0 \in T
  <2>1. Sound(<<>>)
    BY DEF Sound
  <2>. QED  BY <1>4, <1>5, <2>1
<1>7. ASSUME NEW k \in T PROVE k + 1 \in T
  <2>1. SUFFICES ASSUME NEW s \in SUBSET U, Cardinality(s) = k + 1
                 PROVE  Sound(it[s])
    OBVIOUS
  <2>2. s # {}
    BY <1>4, <2>1
  <2>3. Max(s) \in s /\ Rest(s) \in SUBSET U /\ Cardinality(Rest(s)) = k
    BY <1>1, <2>1, <2>2, LastEntry
  <2>4. Sound(it[Rest(s)]) /\ es[Max(s)][1] \in Nat
    BY <1>1, <1>7, <2>3
  <2>. QED  BY <1>5, <2>2, <2>4, AssignSound
<1>8. T = Nat
  <2>. HIDE DEF T
  <2>. QED  BY <1>6, <1>7, Induct, T \in SUBSET Nat DEF T
<1>9. Sound(it[U])
  BY <1>4, <1>8
<1>. QED  BY <1>3, <1>9

TablesInv == \A t \in Range(groups) \cup {itemGroup} : DOMAIN t \subseteq 1 .. MaxRoll

LEMMA TablesInit == Init => TablesInv
<1>. SUFFICES ASSUME Init PROVE TablesInv
  OBVIOUS
<1>1. PICK gs \in GroupTables, is \in ItemGroupTables :
        /\ groups = [g \in DOMAIN gs |-> Loaded(gs[g])]
        /\ \A g \in DOMAIN gs : groups[g] # Refused
        /\ itemGroup = Loaded(is) /\ itemGroup # Refused
  BY DEF Init
<1>2. is \in EntryLists /\ \A g \in DOMAIN gs : gs[g] \in EntryLists
  <2>1. \A g \in DOMAIN gs : gs[g] \in Range(gs)
    BY DEF Range
  <2>. QED  BY <2>1 DEF EntryLists
<1>. QED  BY <1>1, <1>2, LoadedSound DEF TablesInv, Sound, Range

\* No table changes after the start.
LEMMA TablesStep == TablesInv /\ [Next]_vars => TablesInv'
<1>1. ASSUME [Next]_vars PROVE UNCHANGED tables
  <2>1. CASE Wait \/ TickMonsters \/ RemoveExpiredLoot \/ RemoveDeadMonsters \/ UNCHANGED vars
    BY <2>1 DEF Wait, TickMonsters, RemoveExpiredLoot, RemoveDeadMonsters, vars
  <2>2. ASSUME NEW s \in Spawns, Respawn(s) \/ SpawnDone(s) PROVE UNCHANGED tables
    BY <2>2 DEF Respawn, SpawnDone
  <2>3. ASSUME NEW p \in Players, NEW id \in Ids, NEW d \in 0..MaxHp, Attack(p, id, d)
        PROVE  UNCHANGED tables
    BY <2>3 DEF Attack
  <2>4. ASSUME NEW id \in Ids, Behead(id) \/ PickUp(id) PROVE UNCHANGED tables
    BY <2>4 DEF Behead, PickUp
  <2>5. ASSUME NEW m \in Summonable, Summon(m) PROVE UNCHANGED tables
    BY <2>5 DEF Summon
  <2>. QED  BY <1>1, <2>1, <2>2, <2>3, <2>4, <2>5 DEF Next, TickThread, Handlers
<1>. QED  BY <1>1 DEF TablesInv, tables

\* The rolls that hit one entry are those from the one before it.
LEMMA HitsOf ==
    ASSUME NEW t, DOMAIN t \subseteq 1 .. MaxRoll, NEW c \in DOMAIN t,
           t[c] # NoItem, \A k \in DOMAIN t : t[k] = t[c] => k = c,
           NEW r \in Nat, NEW before, before = Max({0} \cup {k \in DOMAIN t : k < c})
    PROVE  /\ before \in Nat /\ before < c
           /\ UpperBound(t, r) = t[c] <=> before <= r /\ r < c
<1>. DEFINE B == {0} \cup {k \in DOMAIN t : k < c}
            K == {k \in DOMAIN t : k > r}
<1>1. MaxRoll \in Nat /\ DOMAIN t \subseteq Nat /\ c \in Nat /\ c > 0
  BY NumbersAssumption
<1>2. before \in B /\ \A k \in B : k <= before
  <2>1. B \in SUBSET (0 .. MaxRoll) /\ B # {}
    BY <1>1
  <2>. HIDE DEF B
  <2>. QED  BY <1>1, <2>1, Greatest DEF B
<1>3. K # {} => Min(K) \in K /\ \A k \in K : Min(K) <= k
  <2>1. K \in SUBSET Nat
    BY <1>1
  <2>. HIDE DEF K
  <2>. QED  BY <2>1, Least
<1>4. UpperBound(t, r) = IF K = {} THEN NoItem ELSE t[Min(K)]
  BY DEF UpperBound
<1>5. before \in Nat /\ before < c
  BY <1>1, <1>2
<1>6. UpperBound(t, r) = t[c] <=> K # {} /\ Min(K) = c
  BY <1>3, <1>4
<1>7. ASSUME before <= r, r < c PROVE K # {} /\ Min(K) = c
  <2>1. c \in K
    BY <1>7
  <2>2. \A k \in K : ~(k < c)
    BY <1>1, <1>2, <1>5, <1>7
  <2>. HIDE DEF K
  <2>3. K \subseteq Nat
    BY <1>1 DEF K
  <2>. QED  BY <1>1, <1>3, <2>1, <2>2, <2>3
<1>8. ASSUME K # {}, Min(K) = c PROVE before <= r /\ r < c
  <2>1. c \in K
    BY <1>3, <1>8
  <2>2. before \notin K
    BY <1>1, <1>3, <1>5, <1>8
  <2>3. before = 0 \/ before \in DOMAIN t
    BY <1>2
  <2>. QED  BY <1>1, <1>5, <2>1, <2>2, <2>3
<1>. QED  BY <1>5, <1>6, <1>7, <1>8

LEMMA SharesOfRolls ==
    ASSUME NEW t, DOMAIN t \subseteq 1 .. MaxRoll, NEW c \in DOMAIN t,
           t[c] # NoItem, \A k \in DOMAIN t : t[k] = t[c] => k = c,
           NEW before, before = Max({0} \cup {k \in DOMAIN t : k < c})
    PROVE  Cardinality({r \in 1 .. MaxRoll : UpperBound(t, r) = t[c]})
              = c - before - (IF before = 0 THEN 1 ELSE 0)
<1>. DEFINE low == IF before = 0 THEN 1 ELSE before
<1>1. MaxRoll \in Nat /\ c \in 1 .. MaxRoll
  BY NumbersAssumption
<1>2. before \in Nat /\ before < c
  BY HitsOf
<1>3. \A r \in 1 .. MaxRoll : UpperBound(t, r) = t[c] <=> before <= r /\ r < c
  BY <1>1, HitsOf
<1>4. {r \in 1 .. MaxRoll : UpperBound(t, r) = t[c]} = low .. c - 1
  BY <1>1, <1>2, <1>3
<1>5. low \in Int /\ c - 1 \in Int /\ low <= c
  BY <1>1, <1>2
<1>6. Cardinality(low .. c - 1) = c - low
  <2>. HIDE DEF low
  <2>1. CASE low > c - 1
    <3>1. low = c
      BY <1>1, <1>5, <2>1
    <3>. QED  BY <1>1, <1>5, <2>1, <3>1, FS_Interval
  <2>2. CASE ~(low > c - 1)
    <3>1. Cardinality(low .. c - 1) = (c - 1) - low + 1
      BY <1>5, <2>2, FS_Interval
    <3>. QED  BY <1>1, <1>5, <3>1
  <2>. QED  BY <2>1, <2>2
<1>7. c - low = c - before - (IF before = 0 THEN 1 ELSE 0)
  BY <1>1, <1>2
<1>. HIDE DEF low
<1>. QED  BY <1>4, <1>6, <1>7

\* The odds of all tables that the server starts with: upper_bound gives each entry
\* the rolls from the chance before it up to its own, whatever the lists.
THEOREM OddsKept == Spec => []RollShares
<1>1. TablesInv => RollShares
  BY SharesOfRolls DEF TablesInv, RollShares
<1>. QED  BY <1>1, TablesInit, TablesStep, PTL DEF Spec

=============================================================================
