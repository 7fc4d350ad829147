---------------------------- MODULE GrowthProofs ----------------------------
(***************************************************************************)
(* Proofs about Growth, for any players, skills, prices and limits.        *)
(***************************************************************************)
EXTENDS Growth, SequenceTheorems, FiniteSetTheorems, WellFoundedInduction, TLAPS

-----------------------------------------------------------------------------
(* Types.                                                                   *)

Known == Pids \cup {NoOne}
InMemory == [pid : Known, level : 0 .. MaxLevel, exp : Nat, pu : Nat, su : Nat,
             stat : 0 .. MaxStat]
Snap == [pid : Known, level : 0 .. MaxLevel, exp : Nat, pu : Nat, su : Nat]
Learned == [Skills -> 0 .. MaxGrade]
SkillRow == [skill : Skills, grade : 0 .. MaxGrade]

Message == [type : {"load"}, pid : Known]
           \cup [type : {"save"}, snap : Snap]
           \cup [type : {"stats"}, pid : Known, stat : 0 .. MaxStat, pu : Nat]
           \cup [type : {"up", "learn"}, pid : Known, skill : Skills,
                 grade : 0 .. MaxGrade, su : Nat]

Answer == [type : {"player"}, data : InMemory]
          \cup [type : {"skills"}, rows : Seq(SkillRow)]

\* A player that exists has a level.
Grown(d) == d.pid \in Pids => d.level >= 1

OwnTyped ==
    /\ own.at \in {"idle", "stats", "statsWritten", "skill", "skillWritten"}
    /\ own.at = "idle" => own = Idle
    /\ own.at = "stats" => own.was \in Nat /\ own.need \in 0 .. own.was
    /\ own.at = "skill" => own.was \in Nat \ {0}
    /\ own.at = "skillWritten" => own.su \in Nat
    /\ own.at \in {"skill", "skillWritten"} =>
          /\ own.skill \in Skills /\ own.type \in {"up", "learn"}
          /\ skills[own.skill] >= 1

HolderTyped ==
    /\ holder.at \in {"free", "grow", "save"}
    /\ holder.at = "free" => holder = Free
    /\ holder.at = "grow" => /\ holder.pu \in Nat /\ holder.su \in Nat
                             /\ data.level < MaxLevel
    /\ holder.at = "save" => /\ holder.snap \in Snap /\ Grown(holder.snap)
                             /\ holder.why \in {"level", "tick"}

LinkTyped ==
    /\ s2d \in Seq(Message) /\ d2s \in Seq(Answer)
    /\ \A i \in DOMAIN s2d : s2d[i].type = "save" => Grown(s2d[i].snap)
    /\ \A i \in DOMAIN d2s : d2s[i].type = "player" => Grown(d2s[i].data)

TablesTyped ==
    /\ dbpc.at \in {"idle", "points"}
    /\ dbpc.at = "idle" => dbpc = Idle
    /\ dbpc.at = "points" => dbpc.pid \in Known /\ dbpc.su \in Nat
    /\ row \in [Pids -> Row]
    /\ rows \in [Pids -> Seq(SkillRow)]

MemoryTyped ==
    /\ mode \in {"away", "lobby", "loading", "ingame", "fault"}
    /\ have \in {"none", "player", "skills"}
    /\ have = "none" => data \in PlayerInfo
    /\ have # "none" => data.pid \in Pids /\ data \in InMemory /\ Grown(data)
    /\ skills \in Learned /\ hit \in Nat

TypesInv ==
    /\ MemoryTyped /\ OwnTyped /\ HolderTyped
    /\ LinkTyped /\ TablesTyped
    /\ slipped \in BOOLEAN
    /\ left = [p \in Pids |-> left[p]]

Half(n) == n \div 2

\* The bonus of the passive skill, also while its handler is on the way.
HitInv ==
    IF own.at \in {"skill", "skillWritten"} /\ own.skill = Mastery
    THEN hit = IF own.type = "up" THEN Half(skills[Mastery] - 1) ELSE 0
    ELSE hit = Half(skills[Mastery])

-----------------------------------------------------------------------------
(* What clients that follow their screen reach.                             *)

NoLoads(q) == \A i \in DOMAIN q : q[i].type # "load"
LoadLast(q, p) ==
    /\ q # <<>> /\ q[Len(q)].type = "load" /\ q[Len(q)].pid = p
    /\ \A i \in DOMAIN q : i # Len(q) => q[i].type # "load"

Out == own = Idle /\ holder = Free

Asked(p) == /\ LoadLast(s2d, p) /\ d2s = <<>>
            /\ have = "none" /\ skills = NoSkills
Refused == /\ NoLoads(s2d) /\ d2s = <<>>
           /\ have = "none" /\ skills = NoSkills
Answered(p) == /\ s2d = <<>> /\ dbpc = Idle
               /\ d2s = <<[type |-> "player", data |-> Restored(p, row[p])],
                          [type |-> "skills", rows |-> rows[p]]>>
               /\ have = "none" /\ skills = NoSkills
HalfLoaded(p) == /\ s2d = <<>> /\ dbpc = Idle
                 /\ d2s = <<[type |-> "skills", rows |-> rows[p]]>>
                 /\ have = "player" /\ skills = NoSkills
                 /\ data = Restored(p, row[p])
Loaded(p) == /\ s2d = <<>> /\ dbpc = Idle /\ d2s = <<>>
             /\ have = "skills" /\ skills = Grades(rows[p])
             /\ data = Restored(p, row[p])

Phases ==
    /\ mode # "fault"
    /\ mode # "ingame" => Out
    /\ mode \in {"away", "lobby"} => skills = NoSkills /\ hit = 0
    /\ mode # "loading" => d2s = <<>> /\ NoLoads(s2d)
    /\ mode = "ingame" => /\ data.pid \in Pids /\ have = "skills"
                          /\ left[data.pid] = NoOne
    /\ mode = "loading" => /\ hit = Half(skills[Mastery])
                           /\ \/ Asked(NoOne) \/ Refused
                              \/ \E p \in Pids : \/ Asked(p) \/ Answered(p)
                                                 \/ HalfLoaded(p) \/ Loaded(p)

\* One row for each skill that a player has.
UniqueSkills(rs) ==
    /\ \A i \in DOMAIN rs : rs[i].grade >= 1
    /\ \A i, j \in DOMAIN rs : rs[i].skill = rs[j].skill => i = j

RowsInv == \A p \in Pids : UniqueSkills(rows[p])

-----------------------------------------------------------------------------
(* The tables as they will be when the packets on the way are handled.      *)

Stored == [row : [Pids -> Row], grades : [Pids -> Learned]]

Current ==
    [row |-> [p \in Pids |-> IF dbpc.at = "points" /\ dbpc.pid = p
                             THEN [row[p] EXCEPT !.su = dbpc.su] ELSE row[p]],
     grades |-> [p \in Pids |-> Grades(rows[p])]]

RowAfter(r, p, m) ==
    IF m.type = "save" /\ m.snap.pid = p
    THEN [level |-> m.snap.level, exp |-> m.snap.exp, pu |-> m.snap.pu,
          su |-> m.snap.su, stat |-> r.stat]
    ELSE IF m.type = "stats" /\ m.pid = p
    THEN [level |-> r.level, exp |-> r.exp, pu |-> m.pu, su |-> r.su, stat |-> m.stat]
    ELSE IF m.type \in {"up", "learn"} /\ m.pid = p
    THEN [level |-> r.level, exp |-> r.exp, pu |-> r.pu, su |-> m.su, stat |-> r.stat]
    ELSE r

GradesAfter(g, p, m) ==
    IF m.type \in {"up", "learn"} /\ m.pid = p
    THEN [g EXCEPT ![m.skill] = m.grade] ELSE g

Applied(t, m) == [row |-> [p \in Pids |-> RowAfter(t.row[p], p, m)],
                  grades |-> [p \in Pids |-> GradesAfter(t.grades[p], p, m)]]

\* A packet is about a player that exists, and finds the rows that it needs.
Sound(t, m) ==
    /\ m.type = "save" => m.snap.pid \in Pids
    /\ m.type \notin {"save", "load"} => m.pid \in Pids
    /\ m.type = "learn" => m.grade = 1 /\ t.grades[m.pid][m.skill] = 0
    /\ m.type = "up" => m.grade >= 1 /\ t.grades[m.pid][m.skill] >= 1

FairRow(r, g) ==
    /\ r.pu + PaidPU(r.stat) <= EarnedPU(r.level)
    /\ r.su + PaidSU(g) <= r.level - 1

Fair(t) == \A p \in Pids : FairRow(t.row[p], t.grades[p])

\* After the packets q the tables t are f; free of slips, they are fair all the way.
IsRun(h, q, t, f, slip) ==
    /\ h[0] = t /\ h[Len(q)] = f
    /\ \A i \in 0 .. Len(q) : h[i] \in Stored
    /\ \A i \in 1 .. Len(q) : Sound(h[i - 1], q[i]) /\ h[i] = Applied(h[i - 1], q[i])
    /\ ~slip => \A i \in 0 .. Len(q) : Fair(h[i])

Leads(q, t, f, slip) == \E h : IsRun(h, q, t, f, slip)

\* A player who has left will be found as he was.
Settled(f) ==
    \A p \in Pids : left[p] # NoOne =>
        left[p] = [data |-> Restored(p, f.row[p]), skills |-> f.grades[p]]

InHand == own.at \in {"skill", "skillWritten"}
Granted == holder.at = "save" /\ holder.why = "level"

\* Outside the game, and in it, nobody has more than his levels granted.
Honest ==
    ~slipped /\ have # "none" /\ own.at # "stats" =>
        data.pu + PaidPU(data.stat) <= EarnedPU(data.level)

\* The grades in the table are those of the game server, but for the one in hand.
SameGrades(g) ==
    /\ ~InHand => g = skills
    /\ InHand => /\ g = [skills EXCEPT ![own.skill] = @ - 1]
                 /\ own.type = "learn" => skills[own.skill] = 1
                 /\ own.type = "up" => skills[own.skill] >= 2

SameStat(r) ==
    /\ own.at \notin {"stats", "statsWritten"} => r.stat = data.stat
    /\ r.stat <= data.stat
    /\ own.at = "stats" => own.need = PaidPU(data.stat) - PaidPU(r.stat)

SameLevel(r) ==
    /\ ~Granted => r.level = data.level
    /\ holder.at = "save" => holder.snap.pid = data.pid /\ holder.snap.level = data.level

PayingStats(r) ==
    own.at = "stats" => data.pu + PaidPU(r.stat) <= EarnedPU(data.level)

PayingSkills(g) ==
    /\ own.at = "skill" => data.su + PaidSU(g) <= data.level - 1
    /\ own.at # "skill" => data.su + PaidSU(skills) <= data.level - 1
    /\ own.at = "skillWritten" => own.su + PaidSU(skills) <= data.level - 1

Holding(r, g) ==
    /\ holder.at = "grow" => holder.pu = data.pu /\ holder.su = data.su
    /\ holder.at = "save" => /\ holder.snap.pu + PaidPU(r.stat) <= EarnedPU(data.level)
                             /\ holder.snap.su + PaidSU(g) <= data.level - 1

InStep(r, g) ==
    /\ SameGrades(g) /\ SameStat(r) /\ SameLevel(r)
    /\ ~slipped => PayingStats(r) /\ PayingSkills(g) /\ Holding(r, g)

Ends(f) ==
    /\ Leads(s2d, Current, f, slipped) /\ Settled(f)
    /\ mode = "ingame" => InStep(f.row[data.pid], f.grades[data.pid])

Order == \E f \in Stored : Ends(f)

Inv ==
    /\ TypesInv /\ HitInv /\ Phases /\ RowsInv
    /\ Honest /\ Order

-----------------------------------------------------------------------------
(* Sums over finite sets.  The sets grow by one element at a time, and the   *)
(* numbers of elements by one: Induct is what the proofs rest on.            *)

\* A set of numbers that is not empty has a least one.
LEMMA Smallest ==
    ASSUME NEW T \in SUBSET Nat, T # {}
    PROVE  \E m \in T : \A k \in T : m <= k
  <1> DEFINE U == {0 .. n : n \in T}
  <1>1. U \subseteq FiniteSubsetsOf(Nat) /\ U # {}
    <2>1. \A n \in T : 0 .. n \subseteq Nat /\ IsFiniteSet(0 .. n)
      BY FS_Interval
    <2>. QED BY <2>1 DEF FiniteSubsetsOf
  <1>2. PICK x \in U : \A y \in U : <<y, x>> \notin StrictSubsetOrdering(Nat)
    <2> HIDE DEF U
    <2>. QED BY <1>1, FS_StrictSubsetOrderingWellFounded, WFMin
  <1>3. PICK m \in T : x = 0 .. m
    OBVIOUS
  <1>4. ASSUME NEW k \in T, ~(m <= k)
        PROVE  FALSE
    <2>1. 0 .. k \subseteq 0 .. m /\ m \in 0 .. m /\ m \notin 0 .. k
      BY <1>4
    <2>2. 0 .. k \in SUBSET Nat /\ 0 .. m \in SUBSET Nat
      OBVIOUS
    <2>3. <<0 .. k, 0 .. m>> \in StrictSubsetOrdering(Nat)
      BY <2>1, <2>2 DEF StrictSubsetOrdering
    <2>. QED BY <1>2, <1>3, <2>3
  <1>. QED BY <1>4

LEMMA Induct ==
    ASSUME NEW T \in SUBSET Nat, 0 \in T, \A n \in T : n + 1 \in T
    PROVE  T = Nat
<1>. SUFFICES ASSUME Nat \ T # {} PROVE FALSE
  OBVIOUS
<1>1. PICK m \in Nat \ T : \A k \in Nat \ T : m <= k
  BY Smallest
<1>2. m # 0 /\ m - 1 \in Nat /\ m = (m - 1) + 1
  OBVIOUS
<1>3. m - 1 \in T
  BY <1>1, <1>2
<1>. QED  BY <1>2, <1>3

\* MapThenSumSet for a function, and the sets that it is the sum of.
SumOf(f, S) == MapThenSumSet(LAMBDA x : f[x], S)

First(s) == CHOOSE x \in s : TRUE

Adds(it, f, S) ==
    it = [s \in SUBSET S |-> IF s = {} THEN 0 ELSE f[First(s)] + it[s \ {First(s)}]]

LEMMA Fewer ==
    ASSUME NEW U, IsFiniteSet(U), NEW s \in SUBSET U, s # {}
    PROVE  /\ First(s) \in s /\ s \ {First(s)} \in SUBSET U
           /\ Cardinality(s) \in Nat /\ Cardinality(s \ {First(s)}) \in Nat
           /\ Cardinality(s \ {First(s)}) = Cardinality(s) - 1
<1>1. First(s) \in s
  BY DEF First
<1>2. IsFiniteSet(s)
  BY FS_Subset
<1>. QED  BY <1>1, <1>2, FS_RemoveElement, FS_CardinalityType

AddsUpTo(n, it, f, S) ==
    /\ it = [s \in SUBSET S |-> it[s]]
    /\ \A s \in SUBSET S : Cardinality(s) <= n =>
          it[s] = IF s = {} THEN 0 ELSE f[First(s)] + it[s \ {First(s)}]

LEMMA AddsExists ==
    ASSUME NEW U, IsFiniteSet(U), NEW f
    PROVE  \E it : Adds(it, f, U)
<1>. DEFINE T == {n \in Nat : \E it : AddsUpTo(n, it, f, U)}
<1>1. \A s \in SUBSET U : Cardinality(s) \in Nat /\ (Cardinality(s) = 0 <=> s = {})
  BY FS_Subset, FS_CardinalityType, FS_EmptySet
<1>2. 0 \in T
  <2>1. AddsUpTo(0, [s \in SUBSET U |-> 0], f, U)
    BY <1>1 DEF AddsUpTo
  <2>. QED  BY <2>1
<1>3. ASSUME NEW n \in T PROVE n + 1 \in T
  <2>1. PICK it : AddsUpTo(n, it, f, U)
    BY <1>3
  <2>. DEFINE jt == [s \in SUBSET U |-> IF Cardinality(s) <= n THEN it[s]
                                        ELSE f[First(s)] + it[s \ {First(s)}]]
  <2>2. ASSUME NEW s \in SUBSET U, Cardinality(s) <= n + 1
        PROVE  jt[s] = IF s = {} THEN 0 ELSE f[First(s)] + jt[s \ {First(s)}]
    <3>1. CASE s = {}
      <4>1. Cardinality(s) <= n
        BY <1>1, <3>1
      <4>. QED  BY <2>1, <4>1, <3>1 DEF AddsUpTo
    <3>2. CASE s # {}
      <4>1. s \ {First(s)} \in SUBSET U /\ Cardinality(s \ {First(s)}) <= n
        BY <2>2, <3>2, Fewer
      <4>2. jt[s \ {First(s)}] = it[s \ {First(s)}]
        BY <4>1
      <4>. QED  BY <2>1, <3>2, <4>2 DEF AddsUpTo
    <3>. QED  BY <3>1, <3>2
  <2>3. jt = [s \in SUBSET U |-> jt[s]]
    OBVIOUS
  <2>. HIDE DEF jt
  <2>4. AddsUpTo(n + 1, jt, f, U)
    BY <2>2, <2>3 DEF AddsUpTo
  <2>. QED  BY <2>4
<1>4. T = Nat
  BY <1>2, <1>3, Induct
<1>5. PICK it : AddsUpTo(Cardinality(U), it, f, U)
  BY <1>1, <1>4
<1>6. \A s \in SUBSET U : Cardinality(s) <= Cardinality(U)
  BY FS_Subset
<1>. QED  BY <1>5, <1>6 DEF Adds, AddsUpTo

LEMMA SumAdds ==
    ASSUME NEW U, IsFiniteSet(U), NEW f
    PROVE  \E it : Adds(it, f, U) /\ SumOf(f, U) = it[U]
<1>1. SumOf(f, U) = (CHOOSE it : Adds(it, f, U))[U]
  BY DEF SumOf, MapThenSumSet, MapThenFoldSet, Adds, First
<1>. QED  BY <1>1, AddsExists

LEMMA AddsStep ==
    ASSUME NEW U, NEW f, NEW it, Adds(it, f, U)
    PROVE  \A s \in SUBSET U :
              it[s] = IF s = {} THEN 0 ELSE f[First(s)] + it[s \ {First(s)}]
BY DEF Adds

\* Sums depend on the values in the set only.
LEMMA SameAdds ==
    ASSUME NEW U, NEW V, IsFiniteSet(U), IsFiniteSet(V), NEW f, NEW g, NEW it, NEW jt,
           Adds(it, f, U), Adds(jt, g, V)
    PROVE  \A s \in SUBSET (U \cap V) : (\A x \in s : f[x] = g[x]) => it[s] = jt[s]
<1>. DEFINE Same(s) == (\A x \in s : f[x] = g[x]) => it[s] = jt[s]
            T == {n \in Nat : \A s \in SUBSET (U \cap V) : Cardinality(s) = n => Same(s)}
<1>1. IsFiniteSet(U \cap V) /\ \A s \in SUBSET (U \cap V) : s \in SUBSET U /\ s \in SUBSET V
  BY FS_Subset, U \cap V \in SUBSET U
<1>2. \A s \in SUBSET (U \cap V) : Cardinality(s) \in Nat /\ (Cardinality(s) = 0 <=> s = {})
  BY <1>1, FS_Subset, FS_CardinalityType, FS_EmptySet
<1>3. it[{}] = 0 /\ jt[{}] = 0
  BY AddsStep
<1>4. 0 \in T
  BY <1>2, <1>3
<1>5. ASSUME NEW n \in T PROVE n + 1 \in T
  <2>1. SUFFICES ASSUME NEW s \in SUBSET (U \cap V), Cardinality(s) = n + 1,
                        \A x \in s : f[x] = g[x]
                 PROVE  it[s] = jt[s]
    OBVIOUS
  <2>2. s # {} /\ s \in SUBSET U /\ s \in SUBSET V
    BY <1>1, <1>2, <2>1
  <2>3. /\ First(s) \in s /\ s \ {First(s)} \in SUBSET (U \cap V)
        /\ Cardinality(s \ {First(s)}) = n
    BY <1>1, <2>1, <2>2, Fewer
  <2>4. it[s \ {First(s)}] = jt[s \ {First(s)}]
    BY <1>5, <2>1, <2>3
  <2>5. it[s] = f[First(s)] + it[s \ {First(s)}]
    BY <2>2, AddsStep
  <2>6. jt[s] = g[First(s)] + jt[s \ {First(s)}]
    BY <2>2, AddsStep
  <2>. QED  BY <2>1, <2>3, <2>4, <2>5, <2>6
<1>6. T = Nat
  <2>. HIDE DEF T
  <2>. QED  BY <1>4, <1>5, Induct, T \in SUBSET Nat DEF T
<1>7. \A s \in SUBSET (U \cap V) : Same(s)
  BY <1>2, <1>6
<1>. QED  BY <1>7

LEMMA SumEmpty ==
    ASSUME NEW f
    PROVE  SumOf(f, {}) = 0
<1>1. PICK it : Adds(it, f, {}) /\ SumOf(f, {}) = it[{}]
  BY SumAdds, FS_EmptySet
<1>. QED  BY <1>1, AddsStep

LEMMA SumSame ==
    ASSUME NEW S, IsFiniteSet(S), NEW f, NEW g, \A x \in S : f[x] = g[x]
    PROVE  SumOf(f, S) = SumOf(g, S)
<1>1. PICK it : Adds(it, f, S) /\ SumOf(f, S) = it[S]
  BY SumAdds
<1>2. PICK jt : Adds(jt, g, S) /\ SumOf(g, S) = jt[S]
  BY SumAdds
<1>3. S \in SUBSET (S \cap S)
  OBVIOUS
<1>. QED  BY <1>1, <1>2, <1>3, SameAdds

LEMMA SumFirst ==
    ASSUME NEW S, IsFiniteSet(S), S # {}, NEW f
    PROVE  SumOf(f, S) = f[First(S)] + SumOf(f, S \ {First(S)})
<1>1. PICK it : Adds(it, f, S) /\ SumOf(f, S) = it[S]
  BY SumAdds
<1>2. S \ {First(S)} \in SUBSET S /\ IsFiniteSet(S \ {First(S)})
  BY FS_Subset
<1>3. PICK jt : Adds(jt, f, S \ {First(S)}) /\ SumOf(f, S \ {First(S)}) = jt[S \ {First(S)}]
  BY <1>2, SumAdds
<1>4. jt[S \ {First(S)}] = it[S \ {First(S)}]
  <2>1. S \ {First(S)} \in SUBSET (S \cap (S \ {First(S)}))
    OBVIOUS
  <2>. QED  BY <1>1, <1>2, <1>3, <2>1, SameAdds
<1>. QED  BY <1>1, <1>3, <1>4, AddsStep

\* A sum is an integer, and any element may be added last.
LEMMA SumTakes ==
    ASSUME NEW U, IsFiniteSet(U), NEW f, \A x \in U : f[x] \in Int
    PROVE  \A S \in SUBSET U :
              /\ SumOf(f, S) \in Int
              /\ \A x \in S : SumOf(f, S) = f[x] + SumOf(f, S \ {x})
<1>. DEFINE Good(S) == /\ SumOf(f, S) \in Int
                       /\ \A x \in S : SumOf(f, S) = f[x] + SumOf(f, S \ {x})
            T == {n \in Nat : \A S \in SUBSET U : Cardinality(S) <= n => Good(S)}
<1>1. \A S \in SUBSET U : IsFiniteSet(S) /\ Cardinality(S) \in Nat
                          /\ (Cardinality(S) = 0 <=> S = {})
  BY FS_Subset, FS_CardinalityType, FS_EmptySet
<1>2. 0 \in T
  BY <1>1, SumEmpty
<1>3. ASSUME NEW n \in T PROVE n + 1 \in T
  <2>1. SUFFICES ASSUME NEW S \in SUBSET U, Cardinality(S) <= n + 1, S # {}
                 PROVE  Good(S)
    BY <1>1, <1>2
  <2>. DEFINE p == First(S)
  <2>2. S # {}
    BY <2>1
  <2>3. p \in S /\ S \ {p} \in SUBSET U /\ Cardinality(S \ {p}) <= n
    BY <2>1, <2>2, Fewer
  <2>4. SumOf(f, S) = f[p] + SumOf(f, S \ {p})
    BY <1>1, <2>2, SumFirst
  <2>5. Good(S \ {p})
    BY <1>3, <2>3
  <2>. HIDE DEF p
  <2>6. ASSUME NEW x \in S, x # p
        PROVE  SumOf(f, S) = f[x] + SumOf(f, S \ {x})
    <3>1. /\ S \ {x} \in SUBSET U /\ p \in S \ {x} /\ x \in S \ {p}
          /\ (S \ {x}) \ {p} = (S \ {p}) \ {x}
      BY <2>3, <2>6
    <3>2. Cardinality(S \ {x}) <= n
      BY <1>1, <2>1, FS_RemoveElement
    <3>3. Good(S \ {x})
      BY <1>3, <3>1, <3>2
    <3>4. SumOf(f, S \ {p}) = f[x] + SumOf(f, (S \ {p}) \ {x})
      BY <2>5, <3>1
    <3>5. SumOf(f, S \ {x}) = f[p] + SumOf(f, (S \ {p}) \ {x})
      BY <3>1, <3>3
    <3>6. SumOf(f, (S \ {p}) \ {x}) \in Int
      BY <1>1, <1>3, <2>3, FS_RemoveElement
    <3>. QED  BY <2>3, <2>4, <3>4, <3>5, <3>6
  <2>. QED  BY <2>3, <2>4, <2>5, <2>6
<1>4. T = Nat
  <2>. HIDE DEF T
  <2>. QED  BY <1>2, <1>3, Induct, T \in SUBSET Nat DEF T
<1>. QED  BY <1>1, <1>4
-----------------------------------------------------------------------------
(* What is earned and what is paid.                                         *)

LEMMA LastOne ==
    ASSUME NEW f, NEW a \in Int, NEW b \in Int, a <= b, \A x \in a .. b : f[x] \in Int
    PROVE  SumOf(f, a .. b) = SumOf(f, a .. b - 1) + f[b]
           /\ SumOf(f, a .. b) \in Int /\ SumOf(f, a .. b - 1) \in Int
<1>1. IsFiniteSet(a .. b)
  BY FS_Interval
<1>2. b \in a .. b /\ (a .. b) \ {b} = a .. b - 1
  OBVIOUS
<1>3. a .. b - 1 \in SUBSET (a .. b) /\ a .. b \in SUBSET (a .. b)
  OBVIOUS
<1>4. SumOf(f, a .. b) = f[b] + SumOf(f, (a .. b) \ {b})
  BY <1>1, <1>2, <1>3, SumTakes
<1>5. SumOf(f, a .. b) \in Int /\ SumOf(f, a .. b - 1) \in Int /\ f[b] \in Int
  BY <1>1, <1>2, <1>3, SumTakes
<1>6. SumOf(f, (a .. b) \ {b}) = SumOf(f, a .. b - 1)
  BY <1>2, Zenon
<1>. QED  BY <1>4, <1>5, <1>6

LEMMA None ==
    ASSUME NEW f, NEW a \in Int, NEW b \in Int, b < a
    PROVE  SumOf(f, a .. b) = 0
<1>1. a .. b = {}
  OBVIOUS
<1>. QED  BY <1>1, SumEmpty

\* An interval that is cut in two.
IsCut(f, k, n) ==
    /\ SumOf(f, k .. k + n - 1) \in Nat
    /\ SumOf(f, 0 .. k - 1) \in Int
    /\ SumOf(f, 0 .. k + n - 1) = SumOf(f, 0 .. k - 1) + SumOf(f, k .. k + n - 1)

LEMMA Cut ==
    ASSUME NEW f, NEW N \in Nat, \A x \in 0 .. N - 1 : f[x] \in Nat,
           NEW k \in 0 .. N
    PROVE  \A n \in 0 .. N - k : IsCut(f, k, n)
<1>. DEFINE Good(n) == IsCut(f, k, n)
            T == {n \in Nat : n <= N - k => Good(n)}
<1>1. 0 \in T
  <2>1. SumOf(f, k .. k + 0 - 1) = 0
    BY None
  <2>2. SumOf(f, 0 .. k - 1) \in Int
    <3>1. CASE k = 0
      BY <3>1, None
    <3>2. CASE k # 0
      BY <3>2, LastOne
    <3>. QED  BY <3>1, <3>2
  <2>3. k + 0 - 1 = k - 1
    OBVIOUS
  <2>4. Good(0)
    BY <2>1, <2>2, <2>3 DEF IsCut
  <2>. QED  BY <2>4
<1>2. ASSUME NEW n \in T PROVE n + 1 \in T
  <2>. SUFFICES ASSUME n + 1 <= N - k PROVE Good(n + 1)
    OBVIOUS
  <2>1. Good(n)
    BY <1>2
  <2>2. k + (n + 1) - 1 = k + n /\ k <= k + n /\ k + n \in 0 .. N - 1
    OBVIOUS
  <2>3. /\ SumOf(f, k .. k + n) = SumOf(f, k .. k + n - 1) + f[k + n]
        /\ SumOf(f, 0 .. k + n) = SumOf(f, 0 .. k + n - 1) + f[k + n]
    <3>1. k \in Int /\ 0 \in Int /\ k + n \in Int /\ 0 <= k + n
      BY <2>2
    <3>2. \A x \in 0 .. k + n : f[x] \in Int
      BY <2>2
    <3>3. \A x \in k .. k + n : f[x] \in Int
      BY <2>2
    <3>. QED  BY <2>2, <3>1, <3>2, <3>3, LastOne
  <2>4. f[k + n] \in Nat
    BY <2>2
  <2>. QED  BY <2>1, <2>2, <2>3, <2>4 DEF IsCut
<1>3. T = Nat
  <2>1. T \in SUBSET Nat
    OBVIOUS
  <2>. HIDE DEF T
  <2>. QED  BY <1>1, <1>2, <2>1, Induct
<1>4. ASSUME NEW n \in 0 .. N - k
      PROVE  Good(n)
  <2>1. n \in Nat /\ n <= N - k
    OBVIOUS
  <2>2. n \in T
    <3>. HIDE DEF T
    <3>. QED  BY <1>3, <2>1
  <2>. HIDE DEF Good
  <2>. QED  BY <2>1, <2>2
<1>. QED  BY <1>4

\* Points of a stat cost what the table of prices says, one by one.
LEMMA Prices ==
    ASSUME NEW cur \in Nat, NEW add \in Nat, cur + add <= MaxStat
    PROVE  /\ GetReqPU(cur, add) \in Nat
           /\ PaidPU(cur) \in Int
           /\ PaidPU(cur + add) = PaidPU(cur) + GetReqPU(cur, add)
<1>1. GetReqPU(cur, add) = SumOf(NeedPU, cur .. cur + add - 1)
  BY DEF GetReqPU, SumOf
<1>2. PaidPU(cur) = SumOf(NeedPU, 0 .. 0 + cur - 1)
  BY DEF PaidPU, GetReqPU, SumOf
<1>3. PaidPU(cur + add) = SumOf(NeedPU, 0 .. 0 + (cur + add) - 1)
  BY DEF PaidPU, GetReqPU, SumOf
<1>4. 0 + cur - 1 = cur - 1 /\ 0 + (cur + add) - 1 = cur + add - 1
  OBVIOUS
<1>5. /\ MaxStat \in Nat /\ \A x \in 0 .. MaxStat - 1 : NeedPU[x] \in Nat
      /\ cur \in 0 .. MaxStat /\ add \in 0 .. MaxStat - cur
  BY Limits, Tables
<1>6. IsCut(NeedPU, cur, add)
  BY <1>5, Cut
<1>. QED  BY <1>1, <1>2, <1>3, <1>4, <1>6 DEF IsCut

LEMMA PaidNothing == PaidPU(0) = 0
<1>1. PaidPU(0) = SumOf(NeedPU, 0 .. 0 + 0 - 1)
  BY DEF PaidPU, GetReqPU, SumOf
<1>. QED  BY <1>1, None

LEMMA PaidMore ==
    ASSUME NEW a \in 0 .. MaxStat, NEW b \in 0 .. MaxStat, a <= b
    PROVE  PaidPU(a) \in Int /\ PaidPU(b) \in Int /\ PaidPU(a) <= PaidPU(b)
<1>1. MaxStat \in Nat
  BY Limits
<1>2. a \in Nat /\ b - a \in Nat /\ a + (b - a) <= MaxStat /\ a + (b - a) = b
  BY <1>1
<1>3. GetReqPU(a, b - a) \in Nat /\ PaidPU(a) \in Int
      /\ PaidPU(a + (b - a)) = PaidPU(a) + GetReqPU(a, b - a)
  BY <1>2, Prices
<1>. QED  BY <1>2, <1>3

LEMMA PaidTyped ==
    ASSUME NEW a \in 0 .. MaxStat
    PROVE  PaidPU(a) \in Int
BY PaidMore, Limits

LEMMA EarnedMore ==
    ASSUME NEW l \in 1 .. MaxLevel
    PROVE  /\ EarnedPU(l) \in Int
           /\ l + 1 <= MaxLevel => EarnedPU(l + 1) = EarnedPU(l) + LevelPU[l + 1]
<1>1. \A k : EarnedPU(k) = SumOf(LevelPU, 2 .. k)
  BY DEF EarnedPU, SumOf
<1>2. \A x \in 1 .. MaxLevel : LevelPU[x] \in Int
  BY Tables, Limits
<1>3. MaxLevel \in Nat
  BY Limits
<1>4. EarnedPU(l) \in Int
  <2>1. CASE l = 1
    BY <1>1, <2>1, None
  <2>2. CASE l # 1
    <3>1. 2 <= l /\ l \in Int /\ \A x \in 2 .. l : LevelPU[x] \in Int
      BY <1>2, <1>3, <2>2
    <3>. QED  BY <1>1, <3>1, LastOne
  <2>. QED  BY <2>1, <2>2
<1>5. ASSUME l + 1 <= MaxLevel
      PROVE  EarnedPU(l + 1) = EarnedPU(l) + LevelPU[l + 1]
  <2>1. 2 <= l + 1 /\ l + 1 \in Int /\ (l + 1) - 1 = l
        /\ \A x \in 2 .. l + 1 : LevelPU[x] \in Int
    BY <1>2, <1>3, <1>5
  <2>2. SumOf(LevelPU, 2 .. l + 1) = SumOf(LevelPU, 2 .. (l + 1) - 1) + LevelPU[l + 1]
    BY <2>1, LastOne
  <2>. QED  BY <1>1, <2>1, <2>2
<1>. QED  BY <1>4, <1>5

LEMMA EarnedFirst == EarnedPU(1) = 0
<1>1. EarnedPU(1) = SumOf(LevelPU, 2 .. 1)
  BY DEF EarnedPU, SumOf
<1>. QED  BY <1>1, None

\* The grades above the first ones.
Above(g) == [s \in Skills |-> g[s] - FirstGrades[s]]

AboveAdds(it, g) ==
    it = [S \in SUBSET Skills |-> IF S = {} THEN 0
             ELSE (g[First(S)] - FirstGrades[First(S)]) + it[S \ {First(S)}]]

LEMMA PaidSUIs ==
    ASSUME NEW g
    PROVE  PaidSU(g) = SumOf(Above(g), Skills)
<1>1. \A it : AboveAdds(it, g) <=> Adds(it, Above(g), Skills)
  <2>. SUFFICES ASSUME NEW it
                PROVE  AboveAdds(it, g) <=> Adds(it, Above(g), Skills)
    OBVIOUS
  <2>1. \A S \in SUBSET Skills : S # {} => First(S) \in Skills
    BY Fewer, OwnSkills
  <2>2. \A x \in Skills : Above(g)[x] = g[x] - FirstGrades[x]
    BY DEF Above
  <2>3. [S \in SUBSET Skills |-> IF S = {} THEN 0
             ELSE (g[First(S)] - FirstGrades[First(S)]) + it[S \ {First(S)}]]
        = [S \in SUBSET Skills |-> IF S = {} THEN 0
             ELSE Above(g)[First(S)] + it[S \ {First(S)}]]
    BY <2>1, <2>2
  <2>. QED  BY <2>3 DEF AboveAdds, Adds
<1>2. PaidSU(g) = (CHOOSE it : AboveAdds(it, g))[Skills]
  BY DEF PaidSU, MapThenSumSet, MapThenFoldSet, AboveAdds, First
<1>3. PICK it : AboveAdds(it, g) /\ PaidSU(g) = it[Skills]
  BY <1>1, <1>2, AddsExists, OwnSkills
<1>4. PICK jt : Adds(jt, Above(g), Skills) /\ SumOf(Above(g), Skills) = jt[Skills]
  BY SumAdds, OwnSkills
<1>5. Skills \in SUBSET (Skills \cap Skills)
  OBVIOUS
<1>. QED  BY <1>1, <1>3, <1>4, <1>5, SameAdds, OwnSkills

LEMMA AboveTyped ==
    ASSUME NEW g \in Learned
    PROVE  \A s \in Skills : g[s] \in 0 .. MaxGrade /\ g[s] \in Int /\ FirstGrades[s] \in Int
                             /\ Above(g)[s] = g[s] - FirstGrades[s] /\ Above(g)[s] \in Int
BY Limits DEF Learned, Above, FirstGrades

LEMMA PaidSUTyped ==
    ASSUME NEW g \in Learned
    PROVE  PaidSU(g) \in Int
<1>1. \A s \in Skills : Above(g)[s] \in Int
  BY AboveTyped
<1>. QED  BY <1>1, PaidSUIs, SumTakes, OwnSkills

\* A skill of another grade.
LEMMA PaidOther ==
    ASSUME NEW g \in Learned, NEW h \in Learned, NEW s \in Skills,
           \A x \in Skills : x # s => h[x] = g[x]
    PROVE  /\ PaidSU(g) \in Int /\ PaidSU(h) \in Int
           /\ PaidSU(h) = PaidSU(g) + h[s] - g[s]
<1>1. /\ \A x \in Skills : g[x] \in Int /\ FirstGrades[x] \in Int
                           /\ Above(g)[x] = g[x] - FirstGrades[x] /\ Above(g)[x] \in Int
      /\ \A x \in Skills : h[x] \in Int /\ FirstGrades[x] \in Int
                           /\ Above(h)[x] = h[x] - FirstGrades[x] /\ Above(h)[x] \in Int
  BY AboveTyped
<1>2. IsFiniteSet(Skills) /\ Skills \in SUBSET Skills /\ Skills \ {s} \in SUBSET Skills
  BY OwnSkills
<1>3. IsFiniteSet(Skills \ {s})
  BY <1>2, FS_Subset
<1>4. /\ SumOf(Above(g), Skills) = Above(g)[s] + SumOf(Above(g), Skills \ {s})
      /\ SumOf(Above(h), Skills) = Above(h)[s] + SumOf(Above(h), Skills \ {s})
      /\ SumOf(Above(g), Skills \ {s}) \in Int
  BY <1>1, <1>2, SumTakes
<1>5. \A x \in Skills \ {s} : Above(g)[x] = Above(h)[x]
  BY <1>1
<1>6. SumOf(Above(g), Skills \ {s}) = SumOf(Above(h), Skills \ {s})
  BY <1>3, <1>5, SumSame
<1>7. PaidSU(g) = SumOf(Above(g), Skills) /\ PaidSU(h) = SumOf(Above(h), Skills)
  BY PaidSUIs
<1>8. /\ Above(g)[s] = g[s] - FirstGrades[s] /\ Above(h)[s] = h[s] - FirstGrades[s]
      /\ g[s] \in Int /\ h[s] \in Int /\ FirstGrades[s] \in Int
  BY <1>1
<1>. QED  BY <1>4, <1>6, <1>7, <1>8

LEMMA PaidFirst == FirstGrades \in Learned /\ PaidSU(FirstGrades) = 0
<1>1. FirstGrades \in Learned
  BY Limits DEF FirstGrades, Learned
<1>. DEFINE Z == [s \in Skills |-> 0]
            T == {n \in Nat : \A S \in SUBSET Skills : Cardinality(S) = n => SumOf(Z, S) = 0}
<1>2. \A S \in SUBSET Skills : IsFiniteSet(S) /\ Cardinality(S) \in Nat
                               /\ (Cardinality(S) = 0 <=> S = {})
  BY FS_Subset, FS_CardinalityType, FS_EmptySet, OwnSkills
<1>3. 0 \in T
  BY <1>2, SumEmpty
<1>4. ASSUME NEW n \in T PROVE n + 1 \in T
  <2>. SUFFICES ASSUME NEW S \in SUBSET Skills, Cardinality(S) = n + 1
                PROVE  SumOf(Z, S) = 0
    OBVIOUS
  <2>1. S # {}
    BY <1>2
  <2>2. First(S) \in S /\ S \ {First(S)} \in SUBSET Skills /\ Cardinality(S \ {First(S)}) = n
    BY <2>1, Fewer, OwnSkills
  <2>3. SumOf(Z, S) = Z[First(S)] + SumOf(Z, S \ {First(S)})
    BY <1>2, <2>1, SumFirst
  <2>4. SumOf(Z, S \ {First(S)}) = 0
    BY <1>4, <2>2
  <2>5. Z[First(S)] = 0
    BY <2>2
  <2>. QED  BY <2>3, <2>4, <2>5
<1>5. T = Nat
  <2>. HIDE DEF T
  <2>. QED  BY <1>3, <1>4, Induct, T \in SUBSET Nat DEF T
<1>6. SumOf(Z, Skills) = 0
  BY <1>2, <1>5
<1>7. Above(FirstGrades) = Z
  BY <1>1 DEF Above, Learned
<1>. QED  BY <1>1, <1>6, <1>7, PaidSUIs

-----------------------------------------------------------------------------
(* The grades in the rows of the table skill.                               *)

GradeIn(rs) == [i \in DOMAIN rs |-> rs[i].grade]

RowsAdd(it, rs, L) ==
    it = [S \in SUBSET L |-> IF S = {} THEN 0
                             ELSE rs[First(S)].grade + it[S \ {First(S)}]]

LEMMA SumOfRows ==
    ASSUME NEW rs, NEW L \in SUBSET DOMAIN rs, IsFiniteSet(L)
    PROVE  MapThenSumSet(LAMBDA i : rs[i].grade, L) = SumOf(GradeIn(rs), L)
<1>1. \A it : RowsAdd(it, rs, L) <=> Adds(it, GradeIn(rs), L)
  <2>. SUFFICES ASSUME NEW it
                PROVE  RowsAdd(it, rs, L) <=> Adds(it, GradeIn(rs), L)
    OBVIOUS
  <2>1. \A S \in SUBSET L : S # {} => First(S) \in L
    BY Fewer
  <2>2. \A x \in L : GradeIn(rs)[x] = rs[x].grade
    BY DEF GradeIn
  <2>3. [S \in SUBSET L |-> IF S = {} THEN 0
                            ELSE rs[First(S)].grade + it[S \ {First(S)}]]
        = [S \in SUBSET L |-> IF S = {} THEN 0
                              ELSE GradeIn(rs)[First(S)] + it[S \ {First(S)}]]
    BY <2>1, <2>2
  <2>. QED  BY <2>3 DEF RowsAdd, Adds
<1>2. MapThenSumSet(LAMBDA i : rs[i].grade, L) = (CHOOSE it : RowsAdd(it, rs, L))[L]
  BY DEF MapThenSumSet, MapThenFoldSet, RowsAdd, First
<1>3. PICK it : RowsAdd(it, rs, L) /\ MapThenSumSet(LAMBDA i : rs[i].grade, L) = it[L]
  BY <1>1, <1>2, AddsExists
<1>4. PICK jt : Adds(jt, GradeIn(rs), L) /\ SumOf(GradeIn(rs), L) = jt[L]
  BY SumAdds
<1>5. L \in SUBSET (L \cap L)
  OBVIOUS
<1>. QED  BY <1>1, <1>3, <1>4, <1>5, SameAdds

\* The rows of one skill.
Of(rs, s) == {i \in DOMAIN rs : rs[i].skill = s}

LEMMA GradesAre ==
    ASSUME NEW R, NEW rs \in Seq(R), NEW s \in Skills
    PROVE  /\ Grades(rs)[s] = SumOf(GradeIn(rs), Of(rs, s))
           /\ IsFiniteSet(Of(rs, s)) /\ Of(rs, s) \subseteq DOMAIN rs
           /\ Grades(rs) = [x \in Skills |-> Grades(rs)[x]]
<1>1. DOMAIN rs = 1 .. Len(rs) /\ Len(rs) \in Nat
  BY LenProperties
<1>2. Of(rs, s) \in SUBSET (1 .. Len(rs)) /\ Of(rs, s) \in SUBSET DOMAIN rs
  BY <1>1 DEF Of
<1>3. IsFiniteSet(Of(rs, s))
  <2>1. IsFiniteSet(1 .. Len(rs))
    BY <1>1, FS_Interval
  <2>. QED  BY <1>2, <2>1, FS_Subset
<1>4. Grades(rs)[s] = MapThenSumSet(LAMBDA i : rs[i].grade, {i \in DOMAIN rs : rs[i].skill = s})
  BY DEF Grades
<1>5. Grades(rs)[s] = SumOf(GradeIn(rs), {i \in DOMAIN rs : rs[i].skill = s})
  BY <1>2, <1>3, <1>4, SumOfRows DEF Of
<1>6. Grades(rs) = [x \in Skills |-> Grades(rs)[x]]
  BY DEF Grades
<1>. QED  BY <1>2, <1>3, <1>5, <1>6 DEF Of

\* A skill without a row, and one with its row.
LEMMA GradeNone ==
    ASSUME NEW R, NEW rs \in Seq(R), NEW s \in Skills,
           \A i \in DOMAIN rs : rs[i].skill # s
    PROVE  Grades(rs)[s] = 0
<1>1. Of(rs, s) = {}
  BY DEF Of
<1>. QED  BY <1>1, GradesAre, SumEmpty

LEMMA OneRow ==
    ASSUME NEW R, NEW rs \in Seq(R), NEW i \in DOMAIN rs,
           rs[i].skill \in Skills, rs[i].grade \in Nat,
           \A j \in DOMAIN rs : rs[j].skill = rs[i].skill => j = i
    PROVE  Grades(rs)[rs[i].skill] = rs[i].grade
<1>. DEFINE s == rs[i].skill
<1>1. Of(rs, s) = {i}
  BY DEF Of
<1>2. Of(rs, s) \ {i} = {} /\ Of(rs, s) \in SUBSET Of(rs, s)
  BY <1>1
<1>3. \A x \in Of(rs, s) : GradeIn(rs)[x] \in Int
  BY <1>1 DEF GradeIn
<1>4. GradeIn(rs)[i] = rs[i].grade
  BY DEF GradeIn
<1>5. s \in Skills /\ i \in Of(rs, s)
  BY <1>1
<1>. HIDE DEF s
<1>6. SumOf(GradeIn(rs), Of(rs, s)) = GradeIn(rs)[i] + SumOf(GradeIn(rs), Of(rs, s) \ {i})
  <2>1. IsFiniteSet(Of(rs, s))
    BY <1>5, GradesAre
  <2>. QED  BY <1>2, <1>3, <1>5, <2>1, SumTakes
<1>7. SumOf(GradeIn(rs), Of(rs, s) \ {i}) = 0
  BY <1>2, SumEmpty
<1>8. Grades(rs)[s] = SumOf(GradeIn(rs), Of(rs, s))
  BY <1>5, GradesAre
<1>9. Grades(rs)[s] = rs[i].grade
  BY <1>4, <1>6, <1>7, <1>8
<1>. QED  BY <1>9 DEF s

LEMMA GradeOne ==
    ASSUME NEW rs \in Seq(SkillRow), UniqueSkills(rs), NEW i \in DOMAIN rs
    PROVE  /\ rs[i].skill \in Skills
           /\ Grades(rs)[rs[i].skill] = rs[i].grade
           /\ rs[i].grade \in 1 .. MaxGrade
<1>1. DOMAIN rs = 1 .. Len(rs) /\ Len(rs) \in Nat /\ rs[i] \in SkillRow
  BY LenProperties, ElementOfSeq
<1>2. rs[i].skill \in Skills /\ rs[i].grade \in 0 .. MaxGrade /\ MaxGrade \in Nat
  BY <1>1, Limits DEF SkillRow
<1>3. rs[i].grade \in 1 .. MaxGrade /\ rs[i].grade \in Nat
  BY <1>2 DEF UniqueSkills
<1>4. \A j \in DOMAIN rs : rs[j].skill = rs[i].skill => j = i
  BY DEF UniqueSkills
<1>. QED  BY <1>2, <1>3, <1>4, OneRow

LEMMA GradesTyped ==
    ASSUME NEW rs \in Seq(SkillRow), UniqueSkills(rs)
    PROVE  Grades(rs) \in Learned
<1>1. ASSUME NEW s \in Skills
      PROVE  Grades(rs)[s] \in 0 .. MaxGrade
  <2>1. CASE \A i \in DOMAIN rs : rs[i].skill # s
    BY <2>1, GradeNone, Limits
  <2>2. CASE \E i \in DOMAIN rs : rs[i].skill = s
    <3>1. PICK i \in DOMAIN rs : rs[i].skill = s
      BY <2>2
    <3>2. Grades(rs)[s] = rs[i].grade /\ rs[i].grade \in 1 .. MaxGrade
      BY <3>1, GradeOne
    <3>. QED  BY <3>2, Limits
  <2>. QED  BY <2>1, <2>2
<1>2. Grades(rs) = [s \in Skills |-> Grades(rs)[s]]
  BY DEF Grades
<1>. QED  BY <1>1, <1>2 DEF Learned

\* Which function the grades are.
LEMMA GradesBy ==
    ASSUME NEW rs \in Seq(SkillRow), UniqueSkills(rs), NEW g,
           g = [s \in Skills |-> g[s]],
           \A i \in DOMAIN rs : g[rs[i].skill] = rs[i].grade,
           \A s \in Skills : (\A i \in DOMAIN rs : rs[i].skill # s) => g[s] = 0
    PROVE  Grades(rs) = g
<1>1. ASSUME NEW s \in Skills
      PROVE  Grades(rs)[s] = g[s]
  <2>1. CASE \A i \in DOMAIN rs : rs[i].skill # s
    BY <2>1, GradeNone
  <2>2. CASE \E i \in DOMAIN rs : rs[i].skill = s
    <3>1. PICK i \in DOMAIN rs : rs[i].skill = s
      BY <2>2
    <3>2. Grades(rs)[s] = rs[i].grade
      BY <3>1, GradeOne
    <3>. QED  BY <3>1, <3>2
  <2>. QED  BY <2>1, <2>2
<1>2. Grades(rs) = [s \in Skills |-> Grades(rs)[s]]
  BY DEF Grades
<1>. QED  BY <1>1, <1>2

LEMMA InsertedRows ==
    ASSUME NEW rs \in Seq(SkillRow), UniqueSkills(rs), NEW s \in Skills,
           NEW g \in 1 .. MaxGrade, Grades(rs)[s] = 0
    PROVE  /\ Inserted(rs, s, g) \in Seq(SkillRow) /\ UniqueSkills(Inserted(rs, s, g))
           /\ Grades(Inserted(rs, s, g)) = [Grades(rs) EXCEPT ![s] = g]
<1>. DEFINE new == [skill |-> s, grade |-> g]
            ss == Append(rs, new)
            n == Len(rs)
<1>1. new \in SkillRow /\ new.skill = s /\ new.grade = g
  BY Limits DEF SkillRow
<1>2. Inserted(rs, s, g) = ss
  BY DEF Inserted
<1>. HIDE DEF new
<1>3. /\ ss \in Seq(SkillRow) /\ n \in Nat /\ Len(ss) = n + 1
      /\ \A i \in 1 .. n : ss[i] = rs[i]
      /\ ss[n + 1] = new
  BY <1>1, AppendProperties, LenProperties
<1>4. DOMAIN rs = 1 .. n /\ DOMAIN ss = 1 .. n + 1
  BY <1>3, LenProperties
<1>. HIDE DEF ss, n
<1>5. ASSUME NEW i \in DOMAIN rs
      PROVE  rs[i].skill # s /\ rs[i].grade >= 1
  <2>1. Grades(rs)[rs[i].skill] = rs[i].grade /\ rs[i].grade \in 1 .. MaxGrade
    BY GradeOne
  <2>. QED  BY <2>1, Limits
<1>6. \A i \in DOMAIN ss : \/ i \in DOMAIN rs /\ ss[i] = rs[i]
                           \/ i = n + 1 /\ ss[i] = new
  BY <1>3, <1>4
<1>7. UniqueSkills(ss)
  <2>1. \A i \in DOMAIN ss : ss[i].grade >= 1
    BY <1>1, <1>5, <1>6
  <2>2. \A i, j \in DOMAIN ss : ss[i].skill = ss[j].skill => i = j
    BY <1>1, <1>5, <1>6 DEF UniqueSkills
  <2>. QED  BY <2>1, <2>2 DEF UniqueSkills
<1>. DEFINE h == [Grades(rs) EXCEPT ![s] = g]
<1>8. h = [x \in Skills |-> h[x]] /\ h[s] = g /\ \A x \in Skills : x # s => h[x] = Grades(rs)[x]
  BY GradesAre
<1>. HIDE DEF h
<1>9. \A i \in DOMAIN ss : h[ss[i].skill] = ss[i].grade
  <2>1. \A i \in DOMAIN rs : rs[i].skill \in Skills /\ Grades(rs)[rs[i].skill] = rs[i].grade
    BY GradeOne
  <2>. QED  BY <1>1, <1>5, <1>6, <1>8, <2>1
<1>10. ASSUME NEW x \in Skills, \A i \in DOMAIN ss : ss[i].skill # x
       PROVE  h[x] = 0
  <2>1. x # s
    BY <1>1, <1>3, <1>4, <1>10
  <2>2. \A i \in DOMAIN rs : rs[i].skill # x
    BY <1>3, <1>4, <1>10
  <2>. QED  BY <1>8, <2>1, <2>2, GradeNone
<1>11. Grades(ss) = h
  <2>1. /\ ss \in Seq(SkillRow) /\ h = [x \in Skills |-> h[x]]
        /\ \A x \in Skills : (\A i \in DOMAIN ss : ss[i].skill # x) => h[x] = 0
    BY <1>3, <1>8, <1>10
  <2>. QED  BY <1>7, <1>9, <2>1, GradesBy
<1>. QED  BY <1>2, <1>3, <1>7, <1>11 DEF h

LEMMA UpdatedRows ==
    ASSUME NEW rs \in Seq(SkillRow), UniqueSkills(rs), NEW s \in Skills,
           NEW g \in 1 .. MaxGrade, Grades(rs)[s] >= 1
    PROVE  /\ Updated(rs, s, g) \in Seq(SkillRow) /\ UniqueSkills(Updated(rs, s, g))
           /\ Grades(Updated(rs, s, g)) = [Grades(rs) EXCEPT ![s] = g]
<1>. DEFINE ss == Updated(rs, s, g)
<1>1. DOMAIN rs = 1 .. Len(rs) /\ Len(rs) \in Nat
  BY LenProperties
<1>2. \A i \in DOMAIN rs : rs[i] \in SkillRow
  BY <1>1, ElementOfSeq
<1>3. /\ DOMAIN ss = DOMAIN rs /\ ss = [i \in DOMAIN rs |-> ss[i]]
      /\ \A i \in DOMAIN rs : ss[i] = IF rs[i].skill = s
                                      THEN [rs[i] EXCEPT !.grade = g] ELSE rs[i]
  BY DEF Updated
<1>. HIDE DEF ss
<1>4. \A i \in DOMAIN rs : /\ ss[i] \in SkillRow /\ ss[i].skill = rs[i].skill
                           /\ rs[i].skill = s => ss[i].grade = g
                           /\ rs[i].skill # s => ss[i].grade = rs[i].grade
  BY <1>2, <1>3, Limits DEF SkillRow
<1>5. ss \in Seq(SkillRow)
  BY <1>1, <1>3, <1>4, SeqDef
<1>6. UniqueSkills(ss)
  <2>1. \A i \in DOMAIN ss : ss[i].grade >= 1
    BY <1>3, <1>4, Limits DEF UniqueSkills
  <2>2. \A i, j \in DOMAIN ss : ss[i].skill = ss[j].skill => i = j
    BY <1>3, <1>4 DEF UniqueSkills
  <2>. QED  BY <2>1, <2>2 DEF UniqueSkills
<1>7. PICK k \in DOMAIN rs : rs[k].skill = s
  <2>. SUFFICES ASSUME \A i \in DOMAIN rs : rs[i].skill # s PROVE FALSE
    OBVIOUS
  <2>1. Grades(rs)[s] = 0
    BY GradeNone
  <2>. QED  BY <2>1
<1>. DEFINE h == [Grades(rs) EXCEPT ![s] = g]
<1>8. h = [x \in Skills |-> h[x]] /\ h[s] = g /\ \A x \in Skills : x # s => h[x] = Grades(rs)[x]
  BY GradesAre
<1>. HIDE DEF h
<1>9. \A i \in DOMAIN ss : h[ss[i].skill] = ss[i].grade
  <2>1. \A i \in DOMAIN rs : rs[i].skill \in Skills /\ Grades(rs)[rs[i].skill] = rs[i].grade
    BY GradeOne
  <2>. QED  BY <1>3, <1>4, <1>8, <2>1
<1>10. ASSUME NEW x \in Skills, \A i \in DOMAIN ss : ss[i].skill # x
       PROVE  h[x] = 0
  <2>1. \A i \in DOMAIN rs : rs[i].skill # x
    BY <1>3, <1>4, <1>10
  <2>2. x # s
    BY <1>7, <2>1
  <2>. QED  BY <1>8, <2>1, <2>2, GradeNone
<1>11. Grades(ss) = h
  BY <1>5, <1>6, <1>8, <1>9, <1>10, GradesBy
<1>. QED  BY <1>5, <1>6, <1>11 DEF h, ss

\* What player_after_insert gives.
LEMMA GivenRows ==
    /\ SetToSeq({[skill |-> s, grade |-> 1] : s \in Given}) \in Seq(SkillRow)
    /\ UniqueSkills(SetToSeq({[skill |-> s, grade |-> 1] : s \in Given}))
    /\ Grades(SetToSeq({[skill |-> s, grade |-> 1] : s \in Given})) = FirstGrades
<1>. DEFINE S == {[skill |-> s, grade |-> 1] : s \in Given}
            n == Cardinality(S)
            rs == SetToSeq(S)
<1>1. IsFiniteSet(Given) /\ Given \subseteq Skills
  BY OwnSkills, FS_Subset
<1>2. IsFiniteSet(S)
  <2>. DEFINE mk == [s \in Given |-> [skill |-> s, grade |-> 1]]
  <2>1. mk \in [Given -> S] /\ \A x \in S : \E s \in Given : mk[s] = x
    OBVIOUS
  <2>2. mk \in Surjection(Given, S)
    BY <2>1 DEF Surjection
  <2>. QED  BY <1>1, <2>2, FS_Surjection
<1>3. S \subseteq SkillRow /\ \A x \in S : x.grade = 1
  BY <1>1, Limits DEF SkillRow
<1>4. PICK f \in [1 .. n -> S] : IsInjective(f)
  <2>1. n \in Nat /\ ExistsBijection(1 .. n, S)
    BY <1>2, FS_CardinalityType
  <2>2. PICK b \in Bijection(1 .. n, S) : TRUE
    BY <2>1 DEF ExistsBijection
  <2>. HIDE DEF S
  <2>. QED  BY <2>2 DEF Bijection, Injection, IsInjective
<1>5. rs \in [1 .. n -> S] /\ IsInjective(rs)
  <2>1. rs = CHOOSE c \in [1 .. n -> S] : IsInjective(c)
    BY DEF SetToSeq
  <2>. HIDE DEF S, n, rs
  <2>. QED  BY <1>4, <2>1
<1>. HIDE DEF rs, n
<1>6. n \in Nat
  BY <1>2, FS_CardinalityType DEF n
<1>7. DOMAIN rs = 1 .. n /\ \A i \in 1 .. n : rs[i] \in S
  BY <1>5
<1>8. rs \in Seq(SkillRow)
  BY <1>3, <1>5, <1>6, SeqDef
<1>9. \A i \in DOMAIN rs : \E s \in Given : rs[i] = [skill |-> s, grade |-> 1]
  BY <1>7
<1>10. UniqueSkills(rs)
  <2>1. \A i, j \in DOMAIN rs : rs[i].skill = rs[j].skill => rs[i] = rs[j]
    BY <1>9
  <2>2. \A i, j \in DOMAIN rs : rs[i] = rs[j] => i = j
    BY <1>5 DEF IsInjective
  <2>3. \A i \in DOMAIN rs : rs[i].grade >= 1
    BY <1>9
  <2>. QED  BY <2>1, <2>2, <2>3 DEF UniqueSkills
<1>11. ASSUME NEW s \in Given
       PROVE  \E i \in DOMAIN rs : rs[i].skill = s
  <2>. SUFFICES \E i \in 1 .. n : rs[i] = [skill |-> s, grade |-> 1]
    BY <1>7
  <2>1. [skill |-> s, grade |-> 1] \in S
    OBVIOUS
  <2>2. rs \in Injection(1 .. n, S)
    BY <1>5 DEF Injection, IsInjective
  <2>3. IsFiniteSet(1 .. n) /\ Cardinality(1 .. n) = n
    BY <1>6, FS_Interval
  <2>4. rs \in Surjection(1 .. n, S)
    BY <1>2, <2>2, <2>3, FS_Injection DEF n
  <2>. QED  BY <2>1, <2>4 DEF Surjection
<1>12. Grades(rs) = FirstGrades
  <2>1. \A i \in DOMAIN rs : FirstGrades[rs[i].skill] = rs[i].grade
    BY <1>1, <1>9 DEF FirstGrades
  <2>2. \A s \in Skills : (\A i \in DOMAIN rs : rs[i].skill # s) => FirstGrades[s] = 0
    BY <1>11 DEF FirstGrades
  <2>3. FirstGrades = [s \in Skills |-> FirstGrades[s]]
    BY DEF FirstGrades
  <2>. QED  BY <1>8, <1>10, <2>1, <2>2, <2>3, GradesBy
<1>. QED  BY <1>8, <1>10, <1>12 DEF rs

-----------------------------------------------------------------------------
(* The packets on the way.                                                  *)

LEMMA LeadsLess ==
    ASSUME NEW q, NEW t, NEW f, NEW a, NEW b, Leads(q, t, f, a), a => b
    PROVE  Leads(q, t, f, b)
<1>1. PICK h : IsRun(h, q, t, f, a)
  BY DEF Leads
<1>2. IsRun(h, q, t, f, b)
  BY <1>1 DEF IsRun
<1>. QED  BY <1>2 DEF Leads

LEMMA LeadsEnds ==
    ASSUME NEW q \in Seq(Message), NEW t, NEW f, NEW slip, Leads(q, t, f, slip)
    PROVE  /\ t \in Stored /\ f \in Stored
           /\ ~slip => Fair(t) /\ Fair(f)
<1>1. PICK h : IsRun(h, q, t, f, slip)
  BY DEF Leads
<1>2. Len(q) \in Nat
  BY LenProperties
<1>. QED  BY <1>1, <1>2 DEF IsRun

LEMMA LeadsNowhere ==
    ASSUME NEW q, q = <<>>, NEW t, NEW f, NEW slip, Leads(q, t, f, slip)
    PROVE  f = t
<1>1. PICK h : IsRun(h, q, t, f, slip)
  BY DEF Leads
<1>2. Len(q) = 0
  BY EmptySeq
<1>. QED  BY <1>1, <1>2 DEF IsRun

LEMMA LeadsNow ==
    ASSUME NEW t \in Stored, NEW slip, ~slip => Fair(t)
    PROVE  Leads(<<>>, t, t, slip)
<1>. DEFINE h == [i \in {0} |-> t]
<1>1. Len(<<>>) = 0
  BY EmptySeq
<1>2. h[0] = t
  OBVIOUS
<1>. HIDE DEF h
<1>3. IsRun(h, <<>>, t, t, slip)
  BY <1>1, <1>2 DEF IsRun
<1>. QED  BY <1>3 DEF Leads

LEMMA LeadsOn ==
    ASSUME NEW q \in Seq(Message), NEW t, NEW f, NEW slip, Leads(q, t, f, slip),
           NEW m \in Message, Sound(f, m), Applied(f, m) \in Stored,
           ~slip => Fair(Applied(f, m))
    PROVE  Leads(Append(q, m), t, Applied(f, m), slip)
<1>1. PICK h : IsRun(h, q, t, f, slip)
  BY DEF Leads
<1>. DEFINE n == Len(q)
            r == Append(q, m)
            k == [i \in 0 .. n + 1 |-> IF i = n + 1 THEN Applied(f, m) ELSE h[i]]
<1>2. /\ n \in Nat /\ Len(r) = n + 1
      /\ \A i \in 1 .. n : r[i] = q[i]
      /\ r[n + 1] = m
  BY LenProperties, AppendProperties
<1>3. k[n + 1] = Applied(f, m) /\ \A i \in 0 .. n : k[i] = h[i]
  BY <1>2
<1>. HIDE DEF n, r, k
<1>4. /\ h[0] = t /\ h[n] = f
      /\ \A i \in 0 .. n : h[i] \in Stored
      /\ \A i \in 1 .. n : Sound(h[i - 1], q[i]) /\ h[i] = Applied(h[i - 1], q[i])
      /\ ~slip => \A i \in 0 .. n : Fair(h[i])
  BY <1>1 DEF IsRun, n
<1>5. k[0] = t /\ k[n] = f /\ k[n + 1] = Applied(f, m)
  BY <1>2, <1>3, <1>4
<1>6. \A i \in 0 .. n + 1 : k[i] \in Stored
  <2>1. \A i \in 0 .. n + 1 : i \in 0 .. n \/ i = n + 1
    BY <1>2
  <2>. QED  BY <1>3, <1>4, <2>1
<1>7. ASSUME NEW i \in 1 .. n + 1
      PROVE  Sound(k[i - 1], r[i]) /\ k[i] = Applied(k[i - 1], r[i])
  <2>1. CASE i = n + 1
    <3>1. i - 1 = n /\ k[i - 1] = f /\ r[i] = m
      BY <1>2, <1>5, <2>1
    <3>. QED  BY <1>5, <2>1, <3>1
  <2>2. CASE i # n + 1
    <3>1. i \in 1 .. n /\ i - 1 \in 0 .. n /\ i \in 0 .. n
      BY <1>2, <2>2
    <3>2. k[i] = h[i] /\ k[i - 1] = h[i - 1] /\ r[i] = q[i]
      BY <1>2, <1>3, <3>1
    <3>. QED  BY <1>4, <3>1, <3>2
  <2>. QED  BY <2>1, <2>2
<1>8. ~slip => \A i \in 0 .. n + 1 : Fair(k[i])
  BY <1>2, <1>3, <1>4
<1>9. IsRun(k, r, t, Applied(f, m), slip)
  BY <1>2, <1>5, <1>6, <1>7, <1>8 DEF IsRun
<1>. QED  BY <1>9 DEF Leads, r

LEMMA LeadsFirst ==
    ASSUME NEW q \in Seq(Message), q # <<>>, NEW t, NEW f, NEW slip, Leads(q, t, f, slip)
    PROVE  /\ Head(q) \in Message /\ Tail(q) \in Seq(Message)
           /\ Sound(t, Head(q)) /\ Applied(t, Head(q)) \in Stored
           /\ Leads(Tail(q), Applied(t, Head(q)), f, slip)
<1>1. PICK h : IsRun(h, q, t, f, slip)
  BY DEF Leads
<1>. DEFINE n == Len(q)
            r == Tail(q)
            k == [i \in 0 .. n - 1 |-> h[i + 1]]
<1>2. /\ n \in Nat \ {0} /\ Len(r) = n - 1 /\ Head(q) = q[1]
      /\ Head(q) \in Message /\ r \in Seq(Message)
      /\ \A i \in 1 .. n - 1 : r[i] = q[i + 1]
  BY EmptySeq, HeadTailProperties
<1>3. \A i \in 0 .. n - 1 : k[i] = h[i + 1]
  OBVIOUS
<1>. HIDE DEF n, r, k
<1>4. /\ h[0] = t /\ h[n] = f
      /\ \A i \in 0 .. n : h[i] \in Stored
      /\ \A i \in 1 .. n : Sound(h[i - 1], q[i]) /\ h[i] = Applied(h[i - 1], q[i])
      /\ ~slip => \A i \in 0 .. n : Fair(h[i])
  BY <1>1 DEF IsRun, n
<1>5. Sound(h[0], q[1]) /\ h[1] = Applied(h[0], q[1]) /\ h[1] \in Stored
  <2>1. 1 \in 1 .. n /\ 1 \in 0 .. n /\ 1 - 1 = 0
    BY <1>2
  <2>. QED  BY <1>4, <2>1
<1>6. k[0] = h[1] /\ k[n - 1] = f
  <2>1. 0 \in 0 .. n - 1 /\ n - 1 \in 0 .. n - 1 /\ (n - 1) + 1 = n /\ 0 + 1 = 1
    BY <1>2
  <2>. QED  BY <1>3, <1>4, <2>1
<1>7. \A i \in 0 .. n - 1 : k[i] \in Stored /\ i + 1 \in 0 .. n
  <2>1. \A i \in 0 .. n - 1 : i + 1 \in 0 .. n
    BY <1>2
  <2>. QED  BY <1>3, <1>4, <2>1
<1>8. ASSUME NEW i \in 1 .. n - 1
      PROVE  Sound(k[i - 1], r[i]) /\ k[i] = Applied(k[i - 1], r[i])
  <2>1. i - 1 \in 0 .. n - 1 /\ i \in 0 .. n - 1 /\ i + 1 \in 1 .. n /\ (i - 1) + 1 = (i + 1) - 1
    BY <1>2
  <2>2. k[i] = h[i + 1] /\ k[i - 1] = h[(i + 1) - 1] /\ r[i] = q[i + 1]
    BY <1>2, <1>3, <2>1
  <2>. QED  BY <1>4, <2>1, <2>2
<1>9. ~slip => \A i \in 0 .. n - 1 : Fair(k[i])
  BY <1>3, <1>4, <1>7
<1>10. IsRun(k, r, Applied(t, Head(q)), f, slip)
  BY <1>2, <1>4, <1>5, <1>6, <1>7, <1>8, <1>9 DEF IsRun
<1>. QED  BY <1>2, <1>4, <1>5, <1>10 DEF Leads, r

LEMMA LeadsPart ==
    ASSUME NEW q \in Seq(Message), NEW t, NEW f, NEW slip, Leads(q, t, f, slip),
           NEW n \in 0 .. Len(q), NEW r \in Seq(Message), Len(r) = n,
           \A i \in 1 .. n : r[i] = q[i]
    PROVE  \E g \in Stored : Leads(r, t, g, slip)
<1>1. PICK h : IsRun(h, q, t, f, slip)
  BY DEF Leads
<1>2. Len(q) \in Nat
  BY LenProperties
<1>3. IsRun(h, r, t, h[n], slip) /\ h[n] \in Stored
  BY <1>1, <1>2 DEF IsRun
<1>. QED  BY <1>3 DEF Leads

LEMMA LoadChangesNothing ==
    ASSUME NEW t \in Stored, NEW m, m.type = "load"
    PROVE  Applied(t, m) = t
<1>1. t = [row |-> t.row, grades |-> t.grades]
      /\ t.row \in [Pids -> Row] /\ t.grades \in [Pids -> Learned]
  BY DEF Stored
<1>2. \A p \in Pids : RowAfter(t.row[p], p, m) = t.row[p]
                      /\ GradesAfter(t.grades[p], p, m) = t.grades[p]
  BY DEF RowAfter, GradesAfter
<1>3. [p \in Pids |-> RowAfter(t.row[p], p, m)] = t.row
      /\ [p \in Pids |-> GradesAfter(t.grades[p], p, m)] = t.grades
  BY <1>1, <1>2
<1>. QED  BY <1>1, <1>3 DEF Applied

\* A request to load that is last and is not handled.
LEMMA LeadsWithout ==
    ASSUME NEW q \in Seq(Message), NEW t, NEW f, NEW slip, Leads(q, t, f, slip),
           q # <<>>, q[Len(q)].type = "load",
           NEW r \in Seq(Message), Len(r) = Len(q) - 1,
           \A i \in 1 .. Len(r) : r[i] = q[i]
    PROVE  Leads(r, t, f, slip)
<1>1. PICK h : IsRun(h, q, t, f, slip)
  BY DEF Leads
<1>. DEFINE n == Len(q)
<1>2. n \in Nat \ {0}
  BY EmptySeq
<1>3. n \in 1 .. n /\ n - 1 \in 0 .. n
  BY <1>2
<1>4. h[n] = Applied(h[n - 1], q[n]) /\ h[n - 1] \in Stored /\ h[n] = f
  BY <1>1, <1>3 DEF IsRun
<1>5. h[n - 1] = f
  BY <1>4, LoadChangesNothing
<1>6. IsRun(h, r, t, f, slip)
  BY <1>1, <1>2, <1>5 DEF IsRun
<1>. QED  BY <1>6 DEF Leads

\* Packets before the first request to load.
LEMMA Kept ==
    ASSUME NEW q \in Seq(Message), NEW n \in 0 .. Len(q),
           \A i \in 1 .. n : q[i].type # "load",
           \A i \in 1 .. Len(q) : i > n => q[i].type = "load"
    PROVE  /\ WithoutLoads(q) \in Seq(Message) /\ Len(WithoutLoads(q)) = n
           /\ \A i \in 1 .. n : WithoutLoads(q)[i] = q[i]
           /\ NoLoads(WithoutLoads(q))
<1>. DEFINE kept == {i \in DOMAIN q : q[i].type # "load"}
            nth(k) == CHOOSE i \in kept : Cardinality({j \in kept : j < i}) = k - 1
<1>1. Len(q) \in Nat /\ DOMAIN q = 1 .. Len(q) /\ \A i \in 1 .. Len(q) : q[i] \in Message
  BY LenProperties, ElementOfSeq
<1>2. kept = 1 .. n
  BY <1>1
<1>3. Cardinality(kept) = n
  <2>1. Cardinality(1 .. n) = n
    BY <1>1, FS_Interval
  <2>. QED  BY <1>2, <2>1
<1>4. ASSUME NEW k \in 1 .. n
      PROVE  nth(k) = k
  <2>1. ASSUME NEW i \in 1 .. n
        PROVE  Cardinality({j \in 1 .. n : j < i}) = i - 1
    <3>1. {j \in 1 .. n : j < i} = 1 .. i - 1
      BY <1>1
    <3>2. Cardinality(1 .. i - 1) = i - 1
      BY <1>1, FS_Interval
    <3>. QED  BY <3>1, <3>2
  <2>2. nth(k) = CHOOSE i \in 1 .. n : Cardinality({j \in 1 .. n : j < i}) = k - 1
    BY <1>2
  <2>3. \A i \in 1 .. n : Cardinality({j \in 1 .. n : j < i}) = k - 1 <=> i = k
    BY <1>1, <2>1
  <2>. QED  BY <2>2, <2>3
<1>5. WithoutLoads(q) = [k \in 1 .. Cardinality(kept) |-> q[nth(k)]]
  BY DEF WithoutLoads
<1>. DEFINE r == WithoutLoads(q)
<1>. HIDE DEF kept, nth, r
<1>6. r = [k \in 1 .. n |-> q[nth(k)]]
  BY <1>3, <1>5 DEF r
<1>7. \A k \in 1 .. n : r[k] = q[k] /\ r[k] \in Message
  BY <1>1, <1>4, <1>6
<1>8. r \in [1 .. n -> Message] /\ n \in Nat
  BY <1>1, <1>6, <1>7
<1>9. r \in Seq(Message) /\ DOMAIN r = 1 .. n
  BY <1>8, SeqDef
<1>10. Len(r) = n
  <2>1. Len(r) \in Nat /\ DOMAIN r = 1 .. Len(r)
    BY <1>9, LenProperties
  <2>2. 1 .. Len(r) = 1 .. n
    BY <1>9, <2>1
  <2>. QED  BY <1>8, <2>1, <2>2
<1>. QED  BY <1>7, <1>9, <1>10 DEF NoLoads, r

-----------------------------------------------------------------------------
(* What each packet does to the tables.                                     *)

LEMMA Messages ==
    /\ \A p \in Known : [type |-> "load", pid |-> p] \in Message
    /\ \A x \in Snap : [type |-> "save", snap |-> x] \in Message
    /\ \A p \in Known, v \in 0 .. MaxStat, n \in Nat :
          [type |-> "stats", pid |-> p, stat |-> v, pu |-> n] \in Message
    /\ \A t \in {"up", "learn"}, p \in Known, s \in Skills, g \in 0 .. MaxGrade, n \in Nat :
          [type |-> t, pid |-> p, skill |-> s, grade |-> g, su |-> n] \in Message
BY DEF Message

LEMMA MessageIs ==
    ASSUME NEW m \in Message
    PROVE  /\ m.type \in {"load", "save", "stats", "up", "learn"}
           /\ m.type = "save" => m.snap \in Snap
           /\ m.type # "save" => m.pid \in Known
           /\ m.type = "stats" => m.stat \in 0 .. MaxStat /\ m.pu \in Nat
           /\ m.type \in {"up", "learn"} => /\ m.skill \in Skills
                                            /\ m.grade \in 0 .. MaxGrade /\ m.su \in Nat
BY DEF Message

LEMMA StoredIs ==
    ASSUME NEW t \in Stored
    PROVE  /\ t.row \in [Pids -> Row] /\ t.grades \in [Pids -> Learned]
           /\ \A p \in Pids : /\ t.row[p].level \in 1 .. MaxLevel /\ t.row[p].exp \in Nat
                              /\ t.row[p].pu \in Nat /\ t.row[p].su \in Nat
                              /\ t.row[p].stat \in 0 .. MaxStat
                              /\ t.grades[p] \in Learned
BY DEF Stored, Row

LEMMA Rebuilt ==
    ASSUME NEW t, NEW m,
           \A p \in Pids : /\ RowAfter(t.row[p], p, m) \in Row
                           /\ GradesAfter(t.grades[p], p, m) \in Learned
    PROVE  /\ Applied(t, m) \in Stored
           /\ \A p \in Pids : /\ Applied(t, m).row[p] = RowAfter(t.row[p], p, m)
                              /\ Applied(t, m).grades[p] = GradesAfter(t.grades[p], p, m)
BY DEF Applied, Stored

\* What happens to the others.
OthersSame(g, f, p) ==
    \A q \in Pids : q # p => g.row[q] = f.row[q] /\ g.grades[q] = f.grades[q]

LEMMA SaveOn ==
    ASSUME NEW f \in Stored, NEW x \in Snap, x.pid \in Pids, Grown(x)
    PROVE  LET m == [type |-> "save", snap |-> x]
               g == Applied(f, m)
           IN  /\ m \in Message /\ Sound(f, m) /\ g \in Stored
               /\ OthersSame(g, f, x.pid)
               /\ g.grades[x.pid] = f.grades[x.pid]
               /\ g.row[x.pid] = [level |-> x.level, exp |-> x.exp, pu |-> x.pu,
                                  su |-> x.su, stat |-> f.row[x.pid].stat]
<1>. DEFINE m == [type |-> "save", snap |-> x]
            new == [level |-> x.level, exp |-> x.exp, pu |-> x.pu,
                    su |-> x.su, stat |-> f.row[x.pid].stat]
<1>1. m \in Message /\ m.type = "save" /\ m.snap = x
  BY Messages
<1>2. Sound(f, m)
  BY DEF Sound
<1>3. new \in Row
  BY StoredIs DEF Snap, Grown, Row
<1>. HIDE DEF m
<1>4. \A q \in Pids : /\ RowAfter(f.row[q], q, m) = IF q = x.pid THEN new ELSE f.row[q]
                      /\ GradesAfter(f.grades[q], q, m) = f.grades[q]
                      /\ f.row[q] \in Row /\ f.grades[q] \in Learned
  BY <1>1, StoredIs DEF RowAfter, GradesAfter
<1>. HIDE DEF new
<1>5. /\ Applied(f, m) \in Stored
      /\ \A q \in Pids : /\ Applied(f, m).row[q] = RowAfter(f.row[q], q, m)
                         /\ Applied(f, m).grades[q] = GradesAfter(f.grades[q], q, m)
  BY <1>3, <1>4, Rebuilt
<1>6. OthersSame(Applied(f, m), f, x.pid)
  BY <1>4, <1>5 DEF OthersSame
<1>7. Applied(f, m).grades[x.pid] = f.grades[x.pid] /\ Applied(f, m).row[x.pid] = new
  BY <1>4, <1>5
<1>. QED  BY <1>1, <1>2, <1>5, <1>6, <1>7 DEF m, new

LEMMA StatsOn ==
    ASSUME NEW f \in Stored, NEW p \in Pids, NEW v \in 0 .. MaxStat, NEW n \in Nat
    PROVE  LET m == [type |-> "stats", pid |-> p, stat |-> v, pu |-> n]
               g == Applied(f, m)
           IN  /\ m \in Message /\ Sound(f, m) /\ g \in Stored
               /\ OthersSame(g, f, p)
               /\ g.grades[p] = f.grades[p]
               /\ g.row[p] = [level |-> f.row[p].level, exp |-> f.row[p].exp, pu |-> n,
                              su |-> f.row[p].su, stat |-> v]
<1>. DEFINE m == [type |-> "stats", pid |-> p, stat |-> v, pu |-> n]
            new == [level |-> f.row[p].level, exp |-> f.row[p].exp, pu |-> n,
                    su |-> f.row[p].su, stat |-> v]
<1>1. m \in Message /\ m.type = "stats" /\ m.pid = p /\ m.stat = v /\ m.pu = n
  BY Messages DEF Known
<1>2. Sound(f, m)
  BY DEF Sound
<1>3. new \in Row
  BY StoredIs DEF Row
<1>. HIDE DEF m
<1>4. \A q \in Pids : /\ RowAfter(f.row[q], q, m) = IF q = p THEN new ELSE f.row[q]
                      /\ GradesAfter(f.grades[q], q, m) = f.grades[q]
                      /\ f.row[q] \in Row /\ f.grades[q] \in Learned
  BY <1>1, StoredIs DEF RowAfter, GradesAfter
<1>. HIDE DEF new
<1>5. /\ Applied(f, m) \in Stored
      /\ \A q \in Pids : /\ Applied(f, m).row[q] = RowAfter(f.row[q], q, m)
                         /\ Applied(f, m).grades[q] = GradesAfter(f.grades[q], q, m)
  BY <1>3, <1>4, Rebuilt
<1>6. OthersSame(Applied(f, m), f, p)
  BY <1>4, <1>5 DEF OthersSame
<1>7. Applied(f, m).grades[p] = f.grades[p] /\ Applied(f, m).row[p] = new
  BY <1>4, <1>5
<1>. QED  BY <1>1, <1>2, <1>5, <1>6, <1>7 DEF m, new

LEMMA SkillOn ==
    ASSUME NEW f \in Stored, NEW p \in Pids, NEW t \in {"up", "learn"}, NEW s \in Skills,
           NEW v \in 1 .. MaxGrade, NEW n \in Nat,
           t = "learn" => v = 1 /\ f.grades[p][s] = 0,
           t = "up" => f.grades[p][s] >= 1
    PROVE  LET m == [type |-> t, pid |-> p, skill |-> s, grade |-> v, su |-> n]
               g == Applied(f, m)
           IN  /\ m \in Message /\ Sound(f, m) /\ g \in Stored
               /\ OthersSame(g, f, p)
               /\ g.grades[p] = [f.grades[p] EXCEPT ![s] = v]
               /\ g.row[p] = [level |-> f.row[p].level, exp |-> f.row[p].exp,
                              pu |-> f.row[p].pu, su |-> n, stat |-> f.row[p].stat]
<1>. DEFINE m == [type |-> t, pid |-> p, skill |-> s, grade |-> v, su |-> n]
            new == [level |-> f.row[p].level, exp |-> f.row[p].exp,
                    pu |-> f.row[p].pu, su |-> n, stat |-> f.row[p].stat]
            grown == [f.grades[p] EXCEPT ![s] = v]
<1>0. v \in 0 .. MaxGrade /\ v >= 1
  BY Limits
<1>1. /\ m \in Message /\ m.type = t /\ m.pid = p /\ m.skill = s /\ m.grade = v /\ m.su = n
      /\ m.type \in {"up", "learn"} /\ m.type # "save" /\ m.type # "stats"
  BY <1>0, Messages DEF Known
<1>. HIDE DEF m
<1>2. Sound(f, m)
  BY <1>0, <1>1 DEF Sound
<1>3. new \in Row /\ grown \in Learned
  BY <1>0, StoredIs DEF Row, Learned
<1>4. \A q \in Pids : /\ RowAfter(f.row[q], q, m) = IF q = p THEN new ELSE f.row[q]
                      /\ GradesAfter(f.grades[q], q, m) = IF q = p THEN grown ELSE f.grades[q]
                      /\ f.row[q] \in Row /\ f.grades[q] \in Learned
  BY <1>1, StoredIs DEF RowAfter, GradesAfter
<1>. HIDE DEF new, grown
<1>5. /\ Applied(f, m) \in Stored
      /\ \A q \in Pids : /\ Applied(f, m).row[q] = RowAfter(f.row[q], q, m)
                         /\ Applied(f, m).grades[q] = GradesAfter(f.grades[q], q, m)
  BY <1>3, <1>4, Rebuilt
<1>6. OthersSame(Applied(f, m), f, p)
  BY <1>4, <1>5 DEF OthersSame
<1>7. Applied(f, m).grades[p] = grown /\ Applied(f, m).row[p] = new
  BY <1>4, <1>5
<1>. QED  BY <1>1, <1>2, <1>5, <1>6, <1>7 DEF m, new, grown

LEMMA FairOn ==
    ASSUME NEW f, NEW g, NEW p \in Pids, Fair(f), OthersSame(g, f, p),
           FairRow(g.row[p], g.grades[p])
    PROVE  Fair(g)
<1>1. \A q \in Pids : q # p => FairRow(g.row[q], g.grades[q])
  BY DEF Fair, OthersSame
<1>. QED  BY <1>1 DEF Fair

\* A packet is sent.
LEMMA Sends ==
    ASSUME LinkTyped, NEW m \in Message, m.type = "save" => Grown(m.snap),
           s2d' = Append(s2d, m), UNCHANGED d2s
    PROVE  /\ LinkTyped'
           /\ NoLoads(s2d) /\ m.type # "load" => NoLoads(s2d)'
           /\ NoLoads(s2d) /\ m.type = "load" => LoadLast(s2d', m.pid)
<1>. DEFINE n == Len(s2d)
<1>1. /\ s2d \in Seq(Message) /\ s2d' \in Seq(Message) /\ n \in Nat /\ Len(s2d') = n + 1
      /\ \A i \in 1 .. n : s2d'[i] = s2d[i]
      /\ s2d'[n + 1] = m
      /\ DOMAIN s2d = 1 .. n /\ DOMAIN s2d' = 1 .. n + 1
  BY LenProperties, AppendProperties DEF LinkTyped
<1>. HIDE DEF n
<1>2. \A i \in DOMAIN s2d' : \/ i \in DOMAIN s2d /\ s2d'[i] = s2d[i] /\ i # n + 1
                             \/ i = n + 1 /\ s2d'[i] = m
  BY <1>1
<1>3. LinkTyped'
  BY <1>1, <1>2 DEF LinkTyped
<1>4. NoLoads(s2d) /\ m.type # "load" => NoLoads(s2d)'
  BY <1>2 DEF NoLoads
<1>5. ASSUME NoLoads(s2d), m.type = "load"
      PROVE  LoadLast(s2d', m.pid)
  <2>1. s2d' # <<>>
    BY <1>1, EmptySeq
  <2>. QED  BY <1>1, <1>2, <1>5, <2>1 DEF LoadLast, NoLoads
<1>. QED  BY <1>3, <1>4, <1>5

-----------------------------------------------------------------------------
(* Steps of the session.                                                    *)

LEMMA Halves ==
    /\ Half(0) = 0 /\ Half(1) = 0
    /\ \A n \in Nat : Half(n) \in Nat /\ (n >= 1 => Half(n) >= Half(n - 1))
BY DEF Half

LEMMA Nobody ==
    /\ NoPlayer \in PlayerInfo /\ InMemory \subseteq PlayerInfo
    /\ NoSkills \in Learned /\ NoSkills[Mastery] = 0
BY Limits, OwnSkills DEF NoPlayer, PlayerInfo, InMemory, Known, NoSkills, Learned

LEMMA OutTyped ==
    ASSUME Out
    PROVE  OwnTyped /\ HolderTyped /\ ~InHand /\ ~Granted
           /\ own.at = "idle" /\ holder.at = "free"
BY DEF Out, OwnTyped, HolderTyped, Idle, Free, InHand, Granted

LEMMA IdleTyped ==
    ASSUME own = Idle
    PROVE  OwnTyped /\ ~InHand /\ own.at = "idle"
BY DEF OwnTyped, Idle, InHand

LEMMA TablesSame ==
    ASSUME TablesTyped, RowsInv, UNCHANGED database
    PROVE  TablesTyped' /\ RowsInv' /\ Current' = Current
BY DEF database, TablesTyped, RowsInv, Current

LEMMA LinkSame ==
    ASSUME LinkTyped, UNCHANGED <<s2d, d2s>>
    PROVE  LinkTyped'
BY DEF LinkTyped

LEMMA HolderSame ==
    ASSUME HolderTyped, UNCHANGED holder, holder.at = "grow" => data'.level < MaxLevel
    PROVE  HolderTyped'
BY DEF HolderTyped

LEMMA LeftSame ==
    ASSUME NEW f, Settled(f), UNCHANGED left
    PROVE  Settled(f)'
BY DEF Settled

LEMMA ConnectKeeps ==
    ASSUME Inv, Connect
    PROVE  Inv'
<1>1. TypesInv /\ HitInv /\ Phases /\ RowsInv /\ Order
  BY DEF Inv
<1>2. /\ mode = "away" /\ mode' = "lobby" /\ have' = "none" /\ data' \in Leftover
      /\ skills' = NoSkills /\ hit' = 0
      /\ UNCHANGED <<own, holder, s2d, d2s, slipped, left>> /\ UNCHANGED database
  BY DEF Connect, history
<1>3. Out /\ d2s = <<>> /\ NoLoads(s2d)
  BY <1>1, <1>2 DEF Phases
<1>4. Out'
  BY <1>2, <1>3 DEF Out
<1>5. OwnTyped' /\ HolderTyped' /\ ~InHand'
  BY <1>4, OutTyped, PTL
<1>6. TablesTyped' /\ RowsInv' /\ Current' = Current
  BY <1>1, <1>2, TablesSame DEF TypesInv
<1>7. TypesInv'
  <2>1. MemoryTyped'
    BY <1>2, Nobody, Uninitialised DEF MemoryTyped
  <2>2. LinkTyped'
    BY <1>1, <1>2, LinkSame DEF TypesInv
  <2>. QED  BY <1>1, <1>2, <1>5, <1>6, <2>1, <2>2 DEF TypesInv
<1>8. HitInv'
  BY <1>2, <1>5, Nobody, Halves DEF HitInv, InHand
<1>9. Phases'
  BY <1>2, <1>3, <1>4 DEF Phases, NoLoads
<1>10. Honest'
  BY <1>2 DEF Honest
<1>11. Order'
  <2>1. PICK f \in Stored : Ends(f)
    BY <1>1 DEF Order
  <2>2. Ends(f)'
    BY <1>2, <1>6, <2>1, LeftSame DEF Ends
  <2>. QED  BY <2>1, <2>2 DEF Order
<1>. QED  BY <1>6, <1>7, <1>8, <1>9, <1>10, <1>11 DEF Inv

\* Every packet of r is one of q.
From(r, q) == \A i \in DOMAIN r : \E j \in DOMAIN q : r[i] = q[j]

LEMMA LoadLastIs ==
    ASSUME NEW q \in Seq(Message), NEW p, LoadLast(q, p)
    PROVE  /\ WithoutLoads(q) \in Seq(Message) /\ NoLoads(WithoutLoads(q))
           /\ From(WithoutLoads(q), q)
           /\ \A t, f, slip : Leads(q, t, f, slip) => Leads(WithoutLoads(q), t, f, slip)
<1>. DEFINE n == Len(q)
            r == WithoutLoads(q)
<1>1. n \in Nat \ {0} /\ DOMAIN q = 1 .. n
  BY EmptySeq, LenProperties DEF LoadLast
<1>2. /\ n - 1 \in 0 .. n
      /\ \A i \in 1 .. n - 1 : q[i].type # "load"
      /\ \A i \in 1 .. n : i > n - 1 => q[i].type = "load"
  BY <1>1 DEF LoadLast
<1>. HIDE DEF r
<1>3. /\ r \in Seq(Message) /\ Len(r) = n - 1 /\ NoLoads(r)
      /\ \A i \in 1 .. n - 1 : r[i] = q[i]
  BY <1>2, Kept DEF r
<1>4. ASSUME NEW t, NEW f, NEW slip, Leads(q, t, f, slip)
      PROVE  Leads(r, t, f, slip)
  BY <1>3, <1>4, LeadsWithout DEF LoadLast
<1>5. From(r, q)
  <2>1. DOMAIN r = 1 .. n - 1
    BY <1>3, LenProperties
  <2>. QED  BY <1>1, <1>3, <2>1 DEF From
<1>. QED  BY <1>3, <1>4, <1>5 DEF r

LEMMA NoLoadsIs ==
    ASSUME NEW q \in Seq(Message), NoLoads(q)
    PROVE  WithoutLoads(q) = q
<1>. DEFINE n == Len(q)
            r == WithoutLoads(q)
<1>1. n \in Nat /\ DOMAIN q = 1 .. n
  BY LenProperties
<1>2. /\ n \in 0 .. n
      /\ \A i \in 1 .. n : q[i].type # "load"
      /\ \A i \in 1 .. n : i > n => q[i].type = "load"
  BY <1>1 DEF NoLoads
<1>. HIDE DEF r
<1>3. r \in Seq(Message) /\ Len(r) = n /\ \A i \in 1 .. n : r[i] = q[i]
  BY <1>2, Kept DEF r
<1>. QED  BY <1>3, SeqEqual DEF r

LEMMA RequestLoadKeeps ==
    ASSUME Inv, NEW p \in Pids \cup {NoOne}, RequestLoad(p)
    PROVE  Inv'
<1>1. TypesInv /\ HitInv /\ Phases /\ RowsInv /\ Honest /\ Order
  BY DEF Inv
<1>. DEFINE m == [type |-> "load", pid |-> p]
<1>2. /\ mode = "lobby" /\ mode' = "loading" /\ have' = "none"
      /\ s2d' = Append(s2d, m)
      /\ UNCHANGED <<data, skills, hit, own, holder, d2s, slipped, left>> /\ UNCHANGED database
  BY DEF RequestLoad, history
<1>3. Out /\ d2s = <<>> /\ NoLoads(s2d) /\ skills = NoSkills /\ hit = 0
  BY <1>1, <1>2 DEF Phases
<1>4. Out'
  BY <1>2, <1>3 DEF Out
<1>5. OwnTyped' /\ HolderTyped' /\ ~InHand'
  BY <1>4, OutTyped, PTL
<1>6. TablesTyped' /\ RowsInv' /\ Current' = Current
  BY <1>1, <1>2, TablesSame DEF TypesInv
<1>7. m \in Message /\ m.type = "load" /\ m.pid = p
  BY Messages DEF Known
<1>. HIDE DEF m
<1>8. LinkTyped' /\ LoadLast(s2d', p)
  BY <1>1, <1>2, <1>3, <1>7, Sends DEF TypesInv
<1>9. TypesInv'
  <2>1. MemoryTyped'
    BY <1>1, <1>2, Nobody DEF MemoryTyped, TypesInv
  <2>. QED  BY <1>1, <1>2, <1>5, <1>6, <1>8, <2>1 DEF TypesInv
<1>10. HitInv'
  BY <1>2, <1>3, <1>5, Nobody, Halves DEF HitInv, InHand
<1>11. Phases'
  <2>1. Asked(p)'
    BY <1>2, <1>3, <1>8 DEF Asked
  <2>2. hit' = Half(skills[Mastery])'
    BY <1>2, <1>3, Nobody, Halves
  <2>. QED  BY <1>2, <1>3, <1>4, <2>1, <2>2 DEF Phases
<1>12. Honest'
  BY <1>1, <1>2 DEF Honest
<1>13. Order'
  <2>1. PICK f \in Stored : Ends(f)
    BY <1>1 DEF Order
  <2>2. Applied(f, m) = f /\ Sound(f, m)
    BY <1>7, LoadChangesNothing DEF Sound
  <2>3. Leads(s2d, Current, f, slipped) /\ s2d \in Seq(Message)
    BY <1>1, <2>1 DEF Ends, TypesInv, LinkTyped
  <2>4. ~slipped => Fair(f)
    BY <2>3, LeadsEnds
  <2>5. Leads(s2d', Current, f, slipped)
    BY <1>2, <1>7, <2>2, <2>3, <2>4, LeadsOn
  <2>6. Ends(f)'
    BY <1>2, <1>6, <2>1, <2>5, LeftSame DEF Ends
  <2>. QED  BY <2>1, <2>6 DEF Order
<1>. QED  BY <1>6, <1>9, <1>10, <1>11, <1>12, <1>13 DEF Inv

LEMMA CurrentIdle ==
    ASSUME dbpc = Idle
    PROVE  \A p \in Pids : Current.row[p] = row[p] /\ Current.grades[p] = Grades(rows[p])
BY DEF Current, Idle

LEMMA OnStartKeeps ==
    ASSUME Inv, ~early', OnStart
    PROVE  Inv'
<1>1. TypesInv /\ HitInv /\ Phases /\ RowsInv /\ Honest /\ Order
  BY DEF Inv
<1>2. /\ mode = "loading" /\ have = "skills" /\ mode' = "ingame"
      /\ left' = [p \in Pids |-> IF p = data.pid THEN NoOne ELSE left[p]]
      /\ UNCHANGED <<have, data, skills, hit, own, holder, s2d, d2s, slipped>>
      /\ UNCHANGED database
  BY DEF OnStart
<1>3. Out /\ hit = Half(skills[Mastery])
  BY <1>1, <1>2 DEF Phases
<1>4. PICK p \in Pids : Loaded(p)
  BY <1>1, <1>2 DEF Phases, Asked, Refused, Answered, HalfLoaded
<1>5. /\ s2d = <<>> /\ dbpc = Idle /\ d2s = <<>> /\ skills = Grades(rows[p])
      /\ data = Restored(p, row[p]) /\ data.pid = p /\ data.pid # NoOne
  BY <1>4, NoPlayerIsNoOne DEF Loaded, Restored
<1>6. OwnTyped /\ HolderTyped /\ ~InHand /\ ~Granted /\ own.at = "idle" /\ holder.at = "free"
  BY <1>3, OutTyped
<1>7. Out'
  BY <1>2, <1>3 DEF Out
<1>8. OwnTyped' /\ HolderTyped'
  BY <1>7, OutTyped, PTL
<1>9. TablesTyped' /\ RowsInv' /\ Current' = Current
  BY <1>1, <1>2, TablesSame DEF TypesInv
<1>10. TypesInv'
  <2>1. MemoryTyped'
    BY <1>1, <1>2 DEF MemoryTyped, TypesInv
  <2>2. LinkTyped'
    BY <1>1, <1>2, LinkSame DEF TypesInv
  <2>. QED  BY <1>1, <1>2, <1>8, <1>9, <2>1, <2>2 DEF TypesInv
<1>11. HitInv'
  BY <1>1, <1>2 DEF HitInv
<1>12. Phases'
  <2>1. left'[p] = NoOne
    BY <1>2, <1>5
  <2>2. NoLoads(s2d)'
    BY <1>2, <1>5, EmptySeq DEF NoLoads
  <2>. QED  BY <1>1, <1>2, <1>5, <2>1, <2>2 DEF Phases
<1>13. Honest'
  BY <1>1, <1>2 DEF Honest
<1>14. Order'
  <2>1. PICK f \in Stored : Ends(f)
    BY <1>1 DEF Order
  <2>2. Leads(s2d, Current, f, slipped) /\ s2d \in Seq(Message)
    BY <1>1, <2>1 DEF Ends, TypesInv, LinkTyped
  <2>3. (~slipped => Fair(f)) /\ f = Current
    <3>1. ~slipped => Fair(f)
      BY <2>2, LeadsEnds
    <3>2. f = Current
      BY <1>5, <2>2, LeadsNowhere
    <3>. QED  BY <3>1, <3>2
  <2>4. f.row[p] = row[p] /\ f.grades[p] = skills
    BY <1>5, <2>3, CurrentIdle
  <2>5. Settled(f)'
    BY <1>2, <2>1 DEF Ends, Settled
  <2>6. InStep(row[p], skills)
    <3>1. /\ row[p].stat = data.stat /\ row[p].level = data.level
          /\ row[p].su = data.su /\ row[p].stat <= data.stat
      BY <1>5, <2>1, <2>4, StoredIs, Limits DEF Restored
    <3>2. SameGrades(skills) /\ SameStat(row[p]) /\ SameLevel(row[p])
      BY <1>6, <3>1 DEF SameGrades, SameStat, SameLevel
    <3>3. ~slipped => PayingStats(row[p]) /\ Holding(row[p], skills)
      BY <1>6 DEF PayingStats, Holding
    <3>4. ~slipped => PayingSkills(skills)
      BY <1>6, <2>3, <2>4, <3>1 DEF PayingSkills, Fair, FairRow
    <3>. QED  BY <3>2, <3>3, <3>4 DEF InStep
  <2>7. InStep(row[p], skills)'
    BY <1>2, <2>6 DEF InStep, SameGrades, SameStat, SameLevel, PayingStats, PayingSkills,
                      Holding, InHand, Granted, database
  <2>8. InStep(f.row[data.pid], f.grades[data.pid])'
    BY <1>2, <1>5, <2>4, <2>7 DEF database
  <2>9. Ends(f)'
    BY <1>2, <1>9, <2>2, <2>5, <2>8 DEF Ends
  <2>. QED  BY <2>1, <2>9 DEF Order
<1>. QED  BY <1>9, <1>10, <1>11, <1>12, <1>13, <1>14 DEF Inv

LEMMA DataIs ==
    ASSUME NEW d \in InMemory
    PROVE  /\ d = [pid |-> d.pid, level |-> d.level, exp |-> d.exp, pu |-> d.pu,
                   su |-> d.su, stat |-> d.stat]
           /\ d.pid \in Known /\ d.level \in 0 .. MaxLevel /\ d.level \in Nat
           /\ d.exp \in Nat /\ d.pu \in Nat /\ d.su \in Nat
           /\ d.stat \in 0 .. MaxStat /\ d.stat \in Nat
BY Limits DEF InMemory

\* Packets of a player leave the others as they are.
LEMMA OthersSettled ==
    ASSUME NEW f, NEW g, NEW p \in Pids, Settled(f), OthersSame(g, f, p),
           \A q \in Pids : q # p => left'[q] = left[q],
           left'[p] # NoOne => left'[p] = [data |-> Restored(p, g.row[p]),
                                           skills |-> g.grades[p]]
    PROVE  Settled(g)'
<1>1. ASSUME NEW q \in Pids, left'[q] # NoOne
      PROVE  left'[q] = [data |-> Restored(q, g.row[q]), skills |-> g.grades[q]]
  <2>1. CASE q = p
    BY <1>1, <2>1
  <2>2. CASE q # p
    BY <1>1, <2>2 DEF Settled, OthersSame
  <2>. QED  BY <2>1, <2>2
<1>. QED  BY <1>1 DEF Settled

LEMMA LeavesWell ==
    ASSUME Inv, ~early, mode = "ingame", Out, left' = Leaving
    PROVE  LET m == [type |-> "save", snap |-> Snapshot]
           IN  /\ m \in Message /\ m.type = "save" /\ Grown(m.snap)
               /\ \E g \in Stored : Leads(Append(s2d, m), Current, g, slipped) /\ Settled(g)'
<1>. DEFINE m == [type |-> "save", snap |-> Snapshot]
            p == data.pid
<1>1. TypesInv /\ Phases /\ Honest /\ Order
  BY DEF Inv
<1>2. own.at = "idle" /\ holder.at = "free" /\ ~InHand /\ ~Granted
  BY OutTyped
<1>3. /\ p \in Pids /\ left[p] = NoOne /\ p # NoOne
      /\ left' = [q \in Pids |-> IF q = p THEN [data |-> data, skills |-> skills]
                                          ELSE left[q]]
  <2>1. p \in Pids /\ left[p] = NoOne
    BY <1>1 DEF Phases
  <2>. QED  BY <2>1, NoPlayerIsNoOne DEF Leaving
<1>3a. have # "none"
  BY <1>1 DEF Phases
<1>4. data \in InMemory /\ Grown(data) /\ left = [q \in Pids |-> left[q]]
      /\ s2d \in Seq(Message)
  BY <1>1, <1>3a DEF TypesInv, MemoryTyped, LinkTyped
<1>5. PICK f \in Stored : Ends(f)
  BY <1>1 DEF Order
<1>6. Leads(s2d, Current, f, slipped) /\ Settled(f) /\ InStep(f.row[p], f.grades[p])
  BY <1>5 DEF Ends
<1>7. /\ f.grades[p] = skills /\ f.row[p].stat = data.stat
      /\ ~slipped => data.su + PaidSU(skills) <= data.level - 1
      /\ ~slipped => data.pu + PaidPU(data.stat) <= EarnedPU(data.level)
  BY <1>1, <1>2, <1>3, <1>3a, <1>6 DEF InStep, SameGrades, SameStat, PayingSkills, Honest
<1>8. /\ Snapshot \in Snap /\ Snapshot.pid = p /\ Grown(Snapshot)
      /\ Snapshot.level = data.level /\ Snapshot.exp = data.exp
      /\ Snapshot.pu = data.pu /\ Snapshot.su = data.su
  BY <1>4, DataIs DEF Snapshot, Snap, Grown
<1>8a. PICK g : g = Applied(f, m)
  OBVIOUS
<1>9. /\ m \in Message /\ Sound(f, m) /\ g \in Stored
      /\ OthersSame(g, f, p)
      /\ g.grades[p] = f.grades[p]
      /\ g.row[p] = [level |-> data.level, exp |-> data.exp, pu |-> data.pu,
                     su |-> data.su, stat |-> data.stat]
  BY <1>3, <1>7, <1>8, <1>8a, SaveOn
<1>10. m.type = "save" /\ m.snap = Snapshot
  OBVIOUS
<1>. HIDE DEF m, p
<1>11. ~slipped => Fair(g)
  <2>. SUFFICES ASSUME ~slipped PROVE Fair(g)
    OBVIOUS
  <2>1. Fair(f)
    BY <1>4, <1>6, LeadsEnds
  <2>2. FairRow(g.row[p], g.grades[p])
    BY <1>7, <1>9 DEF FairRow
  <2>. QED  BY <1>3, <1>9, <2>1, <2>2, FairOn
<1>12. Leads(Append(s2d, m), Current, g, slipped)
  BY <1>4, <1>6, <1>8a, <1>9, <1>11, LeadsOn
<1>13. Settled(g)'
  <2>1. \A q \in Pids : q # p => left'[q] = left[q]
    BY <1>3, <1>4
  <2>2. left'[p] = [data |-> data, skills |-> skills]
    BY <1>3, <1>4
  <2>3. data = Restored(p, g.row[p])
    <3>1. data = [pid |-> p, level |-> data.level, exp |-> data.exp, pu |-> data.pu,
                  su |-> data.su, stat |-> data.stat]
      BY <1>4, DataIs DEF p
    <3>2. /\ g.row[p].level = data.level /\ g.row[p].exp = data.exp
          /\ g.row[p].pu = data.pu /\ g.row[p].su = data.su /\ g.row[p].stat = data.stat
      BY <1>9
    <3>. QED  BY <3>1, <3>2 DEF Restored
  <2>4. g.grades[p] = skills
    BY <1>7, <1>9
  <2>. QED  BY <1>3, <1>6, <1>9, <2>1, <2>2, <2>3, <2>4, OthersSettled
<1>. QED  BY <1>8, <1>9, <1>10, <1>12, <1>13 DEF m

LEMMA OnRestartKeeps ==
    ASSUME Inv, ~early, OnRestart
    PROVE  Inv'
<1>1. TypesInv /\ HitInv /\ Phases /\ RowsInv /\ Honest /\ Order
  BY DEF Inv
<1>. DEFINE m == [type |-> "save", snap |-> Snapshot]
<1>2. /\ mode = "ingame" /\ mode' = "lobby" /\ s2d' = Append(s2d, m) /\ left' = Leaving
      /\ skills' = NoSkills /\ hit' = 0 /\ Out
      /\ UNCHANGED <<have, data, own, holder, d2s, slipped>> /\ UNCHANGED database
  BY DEF OnRestart, InGame, Out
<1>3. /\ m \in Message /\ m.type = "save" /\ Grown(m.snap)
      /\ \E g \in Stored : Leads(Append(s2d, m), Current, g, slipped) /\ Settled(g)'
  BY <1>2, LeavesWell
<1>. HIDE DEF m
<1>4. d2s = <<>> /\ NoLoads(s2d)
  BY <1>1, <1>2 DEF Phases
<1>5. Out'
  BY <1>2 DEF Out
<1>6. OwnTyped' /\ HolderTyped' /\ ~InHand'
  BY <1>5, OutTyped, PTL
<1>7. TablesTyped' /\ RowsInv' /\ Current' = Current
  BY <1>1, <1>2, TablesSame DEF TypesInv
<1>8. LinkTyped' /\ NoLoads(s2d)'
  BY <1>1, <1>2, <1>3, <1>4, Sends DEF TypesInv
<1>9. left' = [p \in Pids |-> left'[p]]
  BY <1>1, <1>2 DEF TypesInv, Leaving
<1>10. TypesInv'
  <2>1. MemoryTyped'
    BY <1>1, <1>2, Nobody DEF MemoryTyped, TypesInv
  <2>. QED  BY <1>1, <1>2, <1>6, <1>7, <1>8, <1>9, <2>1 DEF TypesInv
<1>11. HitInv'
  BY <1>2, <1>6, Nobody, Halves DEF HitInv, InHand
<1>12. Phases'
  BY <1>1, <1>2, <1>4, <1>5, <1>8 DEF Phases
<1>13. Honest'
  BY <1>1, <1>2 DEF Honest
<1>14. Order'
  <2>1. PICK g \in Stored : Leads(Append(s2d, m), Current, g, slipped) /\ Settled(g)'
    BY <1>3
  <2>2. Ends(g)'
    BY <1>2, <1>7, <2>1 DEF Ends
  <2>. QED  BY <2>1, <2>2 DEF Order
<1>. QED  BY <1>7, <1>10, <1>11, <1>12, <1>13, <1>14 DEF Inv

LEMMA OnDisconnectedKeeps ==
    ASSUME Inv, ~early, OnDisconnected
    PROVE  Inv'
<1>1. TypesInv /\ HitInv /\ Phases /\ RowsInv /\ Honest /\ Order
  BY DEF Inv
<1>. DEFINE m == [type |-> "save", snap |-> Snapshot]
<1>2. /\ mode \in {"lobby", "loading", "ingame"} /\ mode' = "away" /\ have' = "none"
      /\ own = Idle /\ (mode = "ingame" => holder = Free)
      /\ s2d' = WithoutLoads(s2d) \o IF mode = "ingame" THEN <<m>> ELSE <<>>
      /\ d2s' = <<>> /\ left' = IF mode = "ingame" THEN Leaving ELSE left
      /\ data' = NoPlayer /\ skills' = NoSkills /\ hit' = 0
      /\ UNCHANGED <<own, holder, slipped>> /\ UNCHANGED database
  BY DEF OnDisconnected
<1>3. Out
  BY <1>1, <1>2 DEF Phases, Out
<1>4. s2d \in Seq(Message) /\ (\A i \in DOMAIN s2d : s2d[i].type = "save" => Grown(s2d[i].snap))
  BY <1>1 DEF TypesInv, LinkTyped
<1>5. Out'
  BY <1>2, <1>3 DEF Out
<1>6. OwnTyped' /\ HolderTyped' /\ ~InHand'
  BY <1>5, OutTyped, PTL
<1>7. TablesTyped' /\ RowsInv' /\ Current' = Current
  BY <1>1, <1>2, TablesSame DEF TypesInv
<1>8. /\ s2d' \in Seq(Message) /\ NoLoads(s2d)'
      /\ \A i \in DOMAIN s2d' : s2d'[i].type = "save" => Grown(s2d'[i].snap)
      /\ left' = [p \in Pids |-> left'[p]]
      /\ \E g \in Stored : Leads(s2d', Current, g, slipped) /\ Settled(g)'
  <2>1. CASE mode = "ingame"
    <3>1. NoLoads(s2d) /\ left' = Leaving
      BY <1>1, <1>2, <2>1 DEF Phases
    <3>2. /\ m \in Message /\ m.type = "save" /\ Grown(m.snap)
          /\ \E g \in Stored : Leads(Append(s2d, m), Current, g, slipped) /\ Settled(g)'
      BY <1>3, <2>1, <3>1, LeavesWell
    <3>. HIDE DEF m
    <3>3. s2d' = Append(s2d, m)
      <4>1. WithoutLoads(s2d) = s2d
        BY <1>4, <3>1, NoLoadsIs
      <4>2. s2d' = s2d \o <<m>>
        BY <1>2, <2>1, <4>1
      <4>. QED  BY <1>4, <3>2, <4>2, AppendIsConcat
    <3>. DEFINE n == Len(s2d)
    <3>4. /\ s2d' \in Seq(Message) /\ n \in Nat
          /\ \A i \in 1 .. n : s2d'[i] = s2d[i]
          /\ s2d'[n + 1] = m
          /\ DOMAIN s2d = 1 .. n /\ DOMAIN s2d' = 1 .. n + 1
      BY <1>4, <3>2, <3>3, LenProperties, AppendProperties
    <3>. HIDE DEF n
    <3>5. \A i \in DOMAIN s2d' : \/ i \in DOMAIN s2d /\ s2d'[i] = s2d[i]
                                 \/ s2d'[i] = m
      BY <3>4
    <3>6. NoLoads(s2d)' /\ \A i \in DOMAIN s2d' : s2d'[i].type = "save" => Grown(s2d'[i].snap)
      BY <1>4, <3>1, <3>2, <3>5 DEF NoLoads
    <3>7. left' = [p \in Pids |-> left'[p]]
      BY <1>1, <3>1 DEF TypesInv, Leaving
    <3>. QED  BY <3>2, <3>3, <3>4, <3>6, <3>7
  <2>2. CASE mode # "ingame"
    <3>1. PICK f \in Stored : Leads(s2d, Current, f, slipped) /\ Settled(f)
      BY <1>1 DEF Order, Ends
    <3>2. /\ WithoutLoads(s2d) \in Seq(Message) /\ NoLoads(WithoutLoads(s2d))
          /\ From(WithoutLoads(s2d), s2d)
          /\ Leads(WithoutLoads(s2d), Current, f, slipped)
      <4>1. CASE NoLoads(s2d)
        BY <1>4, <3>1, <4>1, NoLoadsIs DEF From
      <4>2. CASE \E p \in Pids \cup {NoOne} : LoadLast(s2d, p)
        BY <1>4, <3>1, <4>2, LoadLastIs
      <4>3. CASE s2d = <<>>
        <5>1. NoLoads(s2d)
          BY <4>3, EmptySeq DEF NoLoads
        <5>. QED  BY <4>1, <5>1
      <4>. QED  BY <1>1, <1>2, <2>2, <4>1, <4>2, <4>3 DEF Phases, Asked, Refused, Answered,
                                                            HalfLoaded, Loaded
    <3>3. s2d' = WithoutLoads(s2d)
      BY <1>2, <2>2, <3>2, ConcatEmptySeq
    <3>4. \A i \in DOMAIN s2d' : s2d'[i].type = "save" => Grown(s2d'[i].snap)
      BY <1>4, <3>2, <3>3 DEF From
    <3>5. Settled(f)'
      BY <1>2, <2>2, <3>1, LeftSame
    <3>. QED  BY <1>1, <1>2, <2>2, <3>1, <3>2, <3>3, <3>4, <3>5 DEF TypesInv
  <2>. QED  BY <2>1, <2>2
<1>9. TypesInv'
  <2>1. MemoryTyped'
    BY <1>2, Nobody DEF MemoryTyped
  <2>2. LinkTyped'
    BY <1>2, <1>8, EmptySeq DEF LinkTyped
  <2>. QED  BY <1>1, <1>2, <1>6, <1>7, <1>8, <2>1, <2>2 DEF TypesInv
<1>10. HitInv'
  BY <1>2, <1>6, Nobody, Halves DEF HitInv, InHand
<1>11. Phases'
  BY <1>2, <1>5, <1>8 DEF Phases
<1>12. Honest'
  BY <1>2 DEF Honest
<1>13. Order'
  BY <1>2, <1>7, <1>8 DEF Order, Ends
<1>. QED  BY <1>7, <1>9, <1>10, <1>11, <1>12, <1>13 DEF Inv

-----------------------------------------------------------------------------
(* Steps of the callback and of the database server.                        *)

\* An answer is on its way only while a player is loaded.
LEMMA AnswerOnItsWay ==
    ASSUME Phases, d2s # <<>>
    PROVE  /\ mode = "loading" /\ Out /\ hit = Half(skills[Mastery])
           /\ \E p \in Pids : Answered(p) \/ HalfLoaded(p)
           /\ s2d = <<>> /\ dbpc = Idle /\ skills = NoSkills
BY DEF Phases, Asked, Refused, Answered, HalfLoaded, Loaded

LEMMA OnLoadPlayerKeeps ==
    ASSUME Inv, OnLoadPlayer
    PROVE  Inv'
<1>1. TypesInv /\ HitInv /\ Phases /\ RowsInv /\ Honest /\ Order
  BY DEF Inv
<1>2. /\ d2s # <<>> /\ Head(d2s).type = "player"
      /\ d2s' = Tail(d2s) /\ data' = Head(d2s).data /\ have' = "player"
      /\ UNCHANGED <<mode, skills, hit, own, holder, s2d, slipped, left>>
      /\ UNCHANGED database
  BY DEF OnLoadPlayer, history
<1>3. /\ mode = "loading" /\ Out /\ hit = Half(skills[Mastery])
      /\ \E p \in Pids : Answered(p) \/ HalfLoaded(p)
      /\ s2d = <<>> /\ dbpc = Idle /\ skills = NoSkills
  BY <1>1, <1>2, AnswerOnItsWay
<1>4. PICK p \in Pids : Answered(p)
  <2>1. \A p \in Pids : ~HalfLoaded(p)
    <3>1. \A p \in Pids : HalfLoaded(p) => Head(d2s).type = "skills"
      BY DEF HalfLoaded
    <3>. QED  BY <1>2, <3>1
  <2>. QED  BY <1>3, <2>1
<1>5. /\ data' = Restored(p, row[p])
      /\ d2s' = <<[type |-> "skills", rows |-> rows[p]]>>
  BY <1>2, <1>4 DEF Answered
<1>6. row[p] \in Row /\ rows[p] \in Seq(SkillRow)
  BY <1>1 DEF TypesInv, TablesTyped
<1>7. data' \in InMemory /\ data'.pid = p /\ data'.level = row[p].level
      /\ data'.pu = row[p].pu /\ data'.stat = row[p].stat /\ data'.level >= 1
  BY <1>5, <1>6, Limits DEF Restored, InMemory, Row, Known
<1>8. Out'
  BY <1>2, <1>3 DEF Out
<1>9. OwnTyped' /\ HolderTyped'
  BY <1>8, OutTyped, PTL
<1>10. TablesTyped' /\ RowsInv' /\ Current' = Current
  BY <1>1, <1>2, TablesSame DEF TypesInv
<1>11. TypesInv'
  <2>1. MemoryTyped'
    BY <1>1, <1>2, <1>7 DEF MemoryTyped, TypesInv, Grown
  <2>2. LinkTyped'
    <3>1. [type |-> "skills", rows |-> rows[p]] \in Answer
      BY <1>6 DEF Answer
    <3>2. /\ d2s' \in Seq(Answer) /\ DOMAIN d2s' = {1}
          /\ d2s'[1] = [type |-> "skills", rows |-> rows[p]]
      BY <1>5, <3>1
    <3>3. \A i \in DOMAIN d2s' : d2s'[i].type = "skills"
      BY <3>2
    <3>. QED  BY <1>1, <1>2, <3>2, <3>3 DEF LinkTyped, TypesInv
  <2>. QED  BY <1>1, <1>2, <1>9, <1>10, <2>1, <2>2 DEF TypesInv
<1>12. HitInv'
  BY <1>1, <1>2 DEF HitInv
<1>13. Phases'
  <2>1. HalfLoaded(p)'
    BY <1>2, <1>3, <1>5 DEF HalfLoaded, database
  <2>. QED  BY <1>2, <1>3, <1>8, <2>1 DEF Phases
<1>14. PICK f \in Stored : Ends(f)
  BY <1>1 DEF Order
<1>15. Leads(s2d, Current, f, slipped) /\ s2d \in Seq(Message)
  BY <1>1, <1>14 DEF Ends, TypesInv, LinkTyped
<1>16. Honest'
  <2>. SUFFICES ASSUME ~slipped PROVE data'.pu + PaidPU(data'.stat) <= EarnedPU(data'.level)
    BY <1>2 DEF Honest
  <2>1. Fair(f)
    BY <1>15, LeadsEnds
  <2>2. f = Current
    BY <1>3, <1>15, LeadsNowhere
  <2>3. f.row[p] = row[p]
    BY <1>3, <2>2, CurrentIdle
  <2>. QED  BY <1>7, <2>1, <2>3 DEF Fair, FairRow
<1>17. Order'
  <2>1. Ends(f)'
    BY <1>2, <1>3, <1>10, <1>14, LeftSame DEF Ends
  <2>. QED  BY <1>14, <2>1 DEF Order
<1>. QED  BY <1>10, <1>11, <1>12, <1>13, <1>16, <1>17 DEF Inv

LEMMA OnLoadSkillsKeeps ==
    ASSUME Inv, OnLoadSkills
    PROVE  Inv'
<1>1. TypesInv /\ HitInv /\ Phases /\ RowsInv /\ Honest /\ Order
  BY DEF Inv
<1>2. /\ d2s # <<>> /\ Head(d2s).type = "skills" /\ d2s' = Tail(d2s)
      /\ UNCHANGED <<data, s2d, slipped, left>> /\ UNCHANGED database
  BY DEF OnLoadSkills, history
<1>3. /\ mode = "loading" /\ Out /\ hit = Half(skills[Mastery])
      /\ \E p \in Pids : Answered(p) \/ HalfLoaded(p)
      /\ s2d = <<>> /\ dbpc = Idle /\ skills = NoSkills
  BY <1>1, <1>2, AnswerOnItsWay
<1>4. PICK p \in Pids : HalfLoaded(p)
  <2>1. \A p \in Pids : ~Answered(p)
    <3>1. \A p \in Pids : Answered(p) => Head(d2s).type = "player"
      BY DEF Answered
    <3>. QED  BY <1>2, <3>1
  <2>. QED  BY <1>3, <2>1
<1>. DEFINE rs == rows[p]
<1>5. d2s' = <<>> /\ Head(d2s).rows = rs /\ data = Restored(p, row[p])
  BY <1>2, <1>4 DEF HalfLoaded
<1>6. rs \in Seq(SkillRow) /\ UniqueSkills(rs)
  BY <1>1 DEF TypesInv, TablesTyped, RowsInv
<1>7. AllAdded(rs)
  <2>1. DOMAIN rs = 1 .. Len(rs) /\ Len(rs) \in Nat
    BY <1>6, LenProperties
  <2>2. \A i \in DOMAIN rs : rs[i].skill \in Skills
    BY <1>6, GradeOne
  <2>3. \A i \in DOMAIN rs : ~Has(rs[i].skill)
    BY <1>3, <2>2 DEF Has, NoSkills
  <2>4. \A i \in DOMAIN rs : \A j \in 1 .. (i - 1) : rs[j].skill # rs[i].skill
    BY <1>6, <2>1 DEF UniqueSkills
  <2>. QED  BY <2>3, <2>4 DEF AllAdded
<1>8. /\ skills' = [s \in Skills |-> skills[s] + Grades(rs)[s]]
      /\ hit' = hit + OnApply(Mastery, 0, Grades(rs)[Mastery])
      /\ have' = "skills" /\ UNCHANGED <<mode, own, holder>>
  BY <1>5, <1>7 DEF OnLoadSkills
<1>9. Grades(rs) \in Learned
  BY <1>6, GradesTyped
<1>10. skills' = Grades(rs)
  <2>1. \A s \in Skills : skills[s] + Grades(rs)[s] = Grades(rs)[s]
    BY <1>3, <1>9, Limits DEF NoSkills, Learned
  <2>2. Grades(rs) = [s \in Skills |-> Grades(rs)[s]]
    BY <1>9 DEF Learned
  <2>. QED  BY <1>8, <2>1, <2>2
<1>. HIDE DEF rs
<1>11. hit' = Half(skills'[Mastery]) /\ hit' \in Nat
  <2>1. OnApply(Mastery, 0, skills'[Mastery]) = Half(skills'[Mastery]) - Half(0)
    BY DEF OnApply, Half
  <2>2. skills'[Mastery] \in Nat
    BY <1>9, <1>10, OwnSkills, Limits DEF Learned
  <2>3. hit = 0
    BY <1>3, Nobody, Halves
  <2>. QED  BY <1>8, <1>10, <2>1, <2>2, <2>3, Halves
<1>12. Out'
  BY <1>3, <1>8 DEF Out
<1>13. OwnTyped' /\ HolderTyped' /\ ~InHand'
  BY <1>12, OutTyped, PTL
<1>14. TablesTyped' /\ RowsInv' /\ Current' = Current
  BY <1>1, <1>2, TablesSame DEF TypesInv
<1>15. TypesInv'
  <2>1. MemoryTyped'
    BY <1>1, <1>2, <1>4, <1>8, <1>9, <1>10, <1>11 DEF MemoryTyped, TypesInv, HalfLoaded
  <2>2. LinkTyped'
    BY <1>1, <1>2, <1>5, EmptySeq DEF LinkTyped, TypesInv
  <2>. QED  BY <1>1, <1>2, <1>13, <1>14, <2>1, <2>2 DEF TypesInv
<1>16. HitInv'
  BY <1>11, <1>13 DEF HitInv, InHand
<1>17. Phases'
  <2>1. Loaded(p)'
    BY <1>2, <1>3, <1>5, <1>8, <1>10 DEF Loaded, database, rs
  <2>. QED  BY <1>2, <1>3, <1>8, <1>11, <1>12, <2>1 DEF Phases
<1>18. Honest'
  BY <1>1, <1>2, <1>4, <1>8 DEF Honest, HalfLoaded
<1>19. Order'
  <2>1. PICK f \in Stored : Ends(f)
    BY <1>1 DEF Order
  <2>2. Ends(f)'
    BY <1>2, <1>3, <1>8, <1>14, <2>1, LeftSame DEF Ends
  <2>. QED  BY <2>1, <2>2 DEF Order
<1>. QED  BY <1>14, <1>15, <1>16, <1>17, <1>18, <1>19 DEF Inv

\* A request to load is the last packet.
LEMMA LoadIsLast ==
    ASSUME NEW q \in Seq(Message), NEW p, LoadLast(q, p)
    PROVE  /\ Head(q).type = "load" => Tail(q) = <<>> /\ Head(q).pid = p
           /\ Head(q).type # "load" => LoadLast(Tail(q), p)
<1>. DEFINE n == Len(q)
            r == Tail(q)
<1>1. /\ n \in Nat \ {0} /\ DOMAIN q = 1 .. n /\ Head(q) = q[1] /\ q # <<>>
      /\ q[n].type = "load" /\ q[n].pid = p
      /\ \A i \in 1 .. n : i # n => q[i].type # "load"
  BY EmptySeq, LenProperties DEF LoadLast
<1>2. r \in Seq(Message) /\ Len(r) = n - 1 /\ \A i \in 1 .. n - 1 : r[i] = q[i + 1]
  BY <1>1, HeadTailProperties
<1>3. DOMAIN r = 1 .. n - 1
  BY <1>2, LenProperties
<1>. HIDE DEF n, r
<1>4. CASE n = 1
  <2>1. r = <<>>
    BY <1>1, <1>2, <1>4, EmptySeq
  <2>. QED  BY <1>1, <1>4, <2>1 DEF r
<1>5. CASE n # 1
  <2>1. Head(q).type # "load"
    BY <1>1, <1>5
  <2>2. r # <<>> /\ n - 1 \in 1 .. n - 1 /\ r[n - 1] = q[n]
    BY <1>1, <1>2, <1>5, EmptySeq
  <2>3. \A i \in 1 .. n - 1 : i # n - 1 => r[i].type # "load"
    BY <1>1, <1>2
  <2>4. LoadLast(r, p)
    BY <1>1, <1>2, <1>3, <2>2, <2>3 DEF LoadLast
  <2>. QED  BY <2>1, <2>4 DEF r
<1>. QED  BY <1>4, <1>5

LEMMA TailTyped ==
    ASSUME LinkTyped, s2d # <<>>, s2d' = Tail(s2d), UNCHANGED d2s
    PROVE  /\ LinkTyped' /\ Head(s2d) \in Message
           /\ Head(s2d).type = "save" => Grown(Head(s2d).snap)
           /\ NoLoads(s2d) => NoLoads(s2d)' /\ Head(s2d).type # "load"
<1>. DEFINE n == Len(s2d)
<1>1. /\ s2d' \in Seq(Message) /\ Len(s2d') = n - 1 /\ Head(s2d) \in Message
      /\ n \in Nat \ {0} /\ Head(s2d) = s2d[1] /\ DOMAIN s2d = 1 .. n
      /\ \A i \in 1 .. n - 1 : s2d'[i] = s2d[i + 1]
  BY HeadTailProperties, EmptySeq, LenProperties DEF LinkTyped
<1>2. DOMAIN s2d' = 1 .. n - 1
  BY <1>1, LenProperties
<1>. HIDE DEF n
<1>3. \A i \in DOMAIN s2d' : i + 1 \in DOMAIN s2d /\ s2d'[i] = s2d[i + 1]
  BY <1>1, <1>2
<1>4. 1 \in DOMAIN s2d
  BY <1>1
<1>5. LinkTyped'
  BY <1>1, <1>3 DEF LinkTyped
<1>6. NoLoads(s2d) => NoLoads(s2d)' /\ Head(s2d).type # "load"
  BY <1>1, <1>3, <1>4 DEF NoLoads
<1>. QED  BY <1>1, <1>4, <1>5, <1>6 DEF LinkTyped

\* The first packet has been handled, and the tables are what it makes of them.
LEMMA Handled ==
    ASSUME Inv, s2d # <<>>, Head(s2d).type # "load", s2d' = Tail(s2d),
           UNCHANGED <<memory, d2s, slipped, left>>,
           TablesTyped', RowsInv', Current' = Applied(Current, Head(s2d))
    PROVE  Inv'
<1>1. TypesInv /\ HitInv /\ Phases /\ Honest /\ Order
  BY DEF Inv
<1>2. UNCHANGED <<mode, have, data, skills, hit, own, holder>>
  BY DEF memory
<1>3. LinkTyped' /\ s2d \in Seq(Message) /\ (NoLoads(s2d) => NoLoads(s2d)')
  BY <1>1, TailTyped DEF TypesInv, LinkTyped
<1>4. TypesInv'
  BY <1>1, <1>2, <1>3 DEF TypesInv, MemoryTyped, OwnTyped, HolderTyped, InHand
<1>5. HitInv' /\ Honest'
  BY <1>1, <1>2 DEF HitInv, Honest
<1>6. Phases'
  <2>1. mode = "loading" => Asked(NoOne)' \/ Refused' \/ \E p \in Pids : Asked(p)'
    <3>1. ASSUME NEW p, Asked(p)
          PROVE  Asked(p)'
      <4>1. LoadLast(s2d', p)
        BY <1>3, <3>1, LoadIsLast DEF Asked
      <4>. QED  BY <1>2, <3>1, <4>1 DEF Asked
    <3>2. Refused => Refused'
      BY <1>2, <1>3 DEF Refused
    <3>3. mode = "loading" => Asked(NoOne) \/ Refused \/ \E p \in Pids : Asked(p)
      BY <1>1 DEF Phases, Answered, HalfLoaded, Loaded
    <3>. QED  BY <3>1, <3>2, <3>3
  <2>2. (mode # "loading" => d2s = <<>> /\ NoLoads(s2d))'
    BY <1>1, <1>2, <1>3 DEF Phases
  <2>. QED  BY <1>1, <1>2, <2>1, <2>2 DEF Phases, Out
<1>7. Order'
  <2>1. PICK f \in Stored : Ends(f)
    BY <1>1 DEF Order
  <2>2. Leads(s2d, Current, f, slipped)
    BY <2>1 DEF Ends
  <2>3. Leads(s2d', Current', f, slipped)
    BY <1>3, <2>2, LeadsFirst
  <2>4. mode = "ingame" => InStep(f.row[data.pid], f.grades[data.pid])'
    BY <1>2, <2>1 DEF Ends, InStep, SameGrades, SameStat, SameLevel, PayingStats,
                      PayingSkills, Holding, InHand, Granted
  <2>5. Ends(f)'
    BY <1>2, <2>1, <2>3, <2>4, LeftSame DEF Ends
  <2>. QED  BY <2>1, <2>5 DEF Order
<1>. QED  BY <1>4, <1>5, <1>6, <1>7 DEF Inv

\* What is known of the packet that is handled.
LEMMA FirstPacket ==
    ASSUME Inv, s2d # <<>>, dbpc = Idle
    PROVE  /\ Head(s2d) \in Message /\ Sound(Current, Head(s2d))
           /\ Head(s2d).type = "save" => Grown(Head(s2d).snap)
           /\ \A p \in Pids : /\ row[p] \in Row /\ rows[p] \in Seq(SkillRow)
                              /\ UniqueSkills(rows[p])
                              /\ Current.row[p] = row[p] /\ Current.grades[p] = Grades(rows[p])
           /\ row \in [Pids -> Row] /\ rows \in [Pids -> Seq(SkillRow)]
<1>1. TypesInv /\ Order /\ RowsInv
  BY DEF Inv
<1>2. s2d \in Seq(Message) /\ DOMAIN s2d = 1 .. Len(s2d) /\ Len(s2d) \in Nat \ {0}
      /\ Head(s2d) = s2d[1]
  BY <1>1, LenProperties, EmptySeq, HeadTailProperties DEF TypesInv, LinkTyped
<1>3. PICK f \in Stored : Leads(s2d, Current, f, slipped)
  BY <1>1 DEF Order, Ends
<1>4. Head(s2d) \in Message /\ Sound(Current, Head(s2d))
  BY <1>2, <1>3, LeadsFirst
<1>5. Head(s2d).type = "save" => Grown(Head(s2d).snap)
  BY <1>1, <1>2 DEF TypesInv, LinkTyped
<1>6. row \in [Pids -> Row] /\ rows \in [Pids -> Seq(SkillRow)]
  BY <1>1 DEF TypesInv, TablesTyped
<1>7. \A p \in Pids : row[p] \in Row /\ rows[p] \in Seq(SkillRow) /\ UniqueSkills(rows[p])
  BY <1>1, <1>6 DEF RowsInv
<1>. QED  BY <1>4, <1>5, <1>6, <1>7, CurrentIdle

LEMMA CurrentFollows ==
    ASSUME NEW m, \A p \in Pids : /\ Current'.row[p] = RowAfter(Current.row[p], p, m)
                                  /\ Current'.grades[p] = GradesAfter(Current.grades[p], p, m)
    PROVE  Current' = Applied(Current, m)
<1>. DEFINE r == Applied(Current, m)
<1>1. /\ Current' = [row |-> Current'.row, grades |-> Current'.grades]
      /\ Current'.row = [p \in Pids |-> Current'.row[p]]
      /\ Current'.grades = [p \in Pids |-> Current'.grades[p]]
  BY DEF Current
<1>2. /\ [p \in Pids |-> Current'.row[p]] = [p \in Pids |-> RowAfter(Current.row[p], p, m)]
      /\ [p \in Pids |-> Current'.grades[p]]
         = [p \in Pids |-> GradesAfter(Current.grades[p], p, m)]
  OBVIOUS
<1>. QED  BY <1>1, <1>2 DEF Applied

LEMMA SaveAllPropertyKeeps ==
    ASSUME Inv, SaveAllProperty
    PROVE  Inv'
<1>. DEFINE m == Head(s2d)
            x == m.snap
<1>1. /\ s2d # <<>> /\ dbpc = Idle /\ m.type = "save" /\ s2d' = Tail(s2d)
      /\ row' = [p \in Pids |-> IF p # x.pid THEN row[p] ELSE
                      [row[p] EXCEPT !.level = x.level, !.exp = x.exp,
                                     !.pu = x.pu, !.su = x.su]]
      /\ UNCHANGED <<memory, d2s, dbpc, rows, slipped, left>>
  BY DEF SaveAllProperty, history, Received
<1>2. /\ m \in Message /\ Sound(Current, m) /\ Grown(x)
      /\ \A p \in Pids : /\ row[p] \in Row /\ rows[p] \in Seq(SkillRow)
                         /\ UniqueSkills(rows[p])
                         /\ Current.row[p] = row[p] /\ Current.grades[p] = Grades(rows[p])
      /\ rows \in [Pids -> Seq(SkillRow)]
  BY <1>1, FirstPacket
<1>3. x \in Snap /\ x.pid \in Pids
  BY <1>1, <1>2, MessageIs DEF Sound
<1>. HIDE DEF m, x
<1>4. ASSUME NEW p \in Pids
      PROVE  row'[p] = RowAfter(row[p], p, m) /\ row'[p] \in Row
  <2>1. CASE p = x.pid
    <3>1. row'[p] = [row[p] EXCEPT !.level = x.level, !.exp = x.exp,
                                   !.pu = x.pu, !.su = x.su]
      BY <1>1, <2>1
    <3>2. row'[p] = [level |-> x.level, exp |-> x.exp, pu |-> x.pu,
                     su |-> x.su, stat |-> row[p].stat]
      BY <1>2, <3>1 DEF Row
    <3>3. RowAfter(row[p], p, m) = [level |-> x.level, exp |-> x.exp, pu |-> x.pu,
                                    su |-> x.su, stat |-> row[p].stat]
      BY <1>1, <2>1 DEF RowAfter, x
    <3>4. row'[p] \in Row
      BY <1>2, <1>3, <3>2 DEF Row, Snap, Grown
    <3>. QED  BY <3>2, <3>3, <3>4
  <2>2. CASE p # x.pid
    BY <1>1, <1>2, <2>2 DEF RowAfter, x
  <2>. QED  BY <2>1, <2>2
<1>5. TablesTyped' /\ RowsInv'
  <2>1. row' \in [Pids -> Row]
    BY <1>1, <1>4
  <2>. QED  BY <1>1, <1>2, <2>1 DEF TablesTyped, RowsInv, Idle
<1>6. Current' = Applied(Current, m)
  <2>1. dbpc' = Idle /\ rows' = rows
    BY <1>1
  <2>2. \A p \in Pids : Current'.row[p] = row'[p] /\ Current'.grades[p] = Grades(rows[p])
    <3>1. Current' = [row |-> [p \in Pids |-> row'[p]],
                      grades |-> [p \in Pids |-> Grades(rows[p])]]
      BY <2>1 DEF Current, Idle
    <3>. QED  BY <3>1
  <2>3. \A p \in Pids : GradesAfter(Grades(rows[p]), p, m) = Grades(rows[p])
    BY <1>1 DEF GradesAfter
  <2>. QED  BY <1>2, <1>4, <2>2, <2>3, CurrentFollows
<1>. QED  BY <1>1, <1>5, <1>6, Handled DEF m

LEMMA UpdatePropertyKeeps ==
    ASSUME Inv, UpdateProperty
    PROVE  Inv'
<1>. DEFINE m == Head(s2d)
<1>1. /\ s2d # <<>> /\ dbpc = Idle /\ m.type = "stats" /\ s2d' = Tail(s2d)
      /\ row' = [p \in Pids |-> IF p # m.pid THEN row[p] ELSE
                      [row[p] EXCEPT !.stat = m.stat, !.pu = m.pu]]
      /\ UNCHANGED <<memory, d2s, dbpc, rows, slipped, left>>
  BY DEF UpdateProperty, history, Received
<1>2. /\ m \in Message
      /\ \A p \in Pids : /\ row[p] \in Row /\ rows[p] \in Seq(SkillRow)
                         /\ UniqueSkills(rows[p])
                         /\ Current.row[p] = row[p] /\ Current.grades[p] = Grades(rows[p])
      /\ rows \in [Pids -> Seq(SkillRow)]
  BY <1>1, FirstPacket
<1>3. m.stat \in 0 .. MaxStat /\ m.pu \in Nat
  BY <1>1, <1>2, MessageIs
<1>. HIDE DEF m
<1>4. ASSUME NEW p \in Pids
      PROVE  row'[p] = RowAfter(row[p], p, m) /\ row'[p] \in Row
  <2>1. CASE p = m.pid
    <3>1. row'[p] = [row[p] EXCEPT !.stat = m.stat, !.pu = m.pu]
      BY <1>1, <2>1
    <3>2. row'[p] = [level |-> row[p].level, exp |-> row[p].exp, pu |-> m.pu,
                     su |-> row[p].su, stat |-> m.stat]
      BY <1>2, <3>1 DEF Row
    <3>3. RowAfter(row[p], p, m) = [level |-> row[p].level, exp |-> row[p].exp, pu |-> m.pu,
                                    su |-> row[p].su, stat |-> m.stat]
      BY <1>1, <2>1 DEF RowAfter
    <3>4. row'[p] \in Row
      BY <1>2, <1>3, <3>2 DEF Row
    <3>. QED  BY <3>2, <3>3, <3>4
  <2>2. CASE p # m.pid
    BY <1>1, <1>2, <2>2 DEF RowAfter
  <2>. QED  BY <2>1, <2>2
<1>5. TablesTyped' /\ RowsInv'
  <2>1. row' \in [Pids -> Row]
    BY <1>1, <1>4
  <2>. QED  BY <1>1, <1>2, <2>1 DEF TablesTyped, RowsInv, Idle
<1>6. Current' = Applied(Current, m)
  <2>1. dbpc' = Idle /\ rows' = rows
    BY <1>1
  <2>2. \A p \in Pids : Current'.row[p] = row'[p] /\ Current'.grades[p] = Grades(rows[p])
    <3>1. Current' = [row |-> [p \in Pids |-> row'[p]],
                      grades |-> [p \in Pids |-> Grades(rows[p])]]
      BY <2>1 DEF Current, Idle
    <3>. QED  BY <3>1
  <2>3. \A p \in Pids : GradesAfter(Grades(rows[p]), p, m) = Grades(rows[p])
    BY <1>1 DEF GradesAfter
  <2>. QED  BY <1>2, <1>4, <2>2, <2>3, CurrentFollows
<1>. QED  BY <1>1, <1>5, <1>6, Handled DEF m

\* The two handlers that change the rows of skills first and the points later.
LEMMA SkillHandled ==
    ASSUME Inv, s2d # <<>>, dbpc = Idle, Head(s2d).type \in {"up", "learn"},
           s2d' = Tail(s2d),
           dbpc' = [at |-> "points", pid |-> Head(s2d).pid, su |-> Head(s2d).su],
           rows' = [rows EXCEPT ![Head(s2d).pid] = rows'[Head(s2d).pid]],
           rows'[Head(s2d).pid] \in Seq(SkillRow), UniqueSkills(rows'[Head(s2d).pid]),
           Grades(rows'[Head(s2d).pid])
             = [Grades(rows[Head(s2d).pid]) EXCEPT ![Head(s2d).skill] = Head(s2d).grade],
           UNCHANGED <<memory, d2s, row, slipped, left>>
    PROVE  Inv'
<1>. DEFINE m == Head(s2d)
<1>1. /\ m \in Message /\ Sound(Current, m)
      /\ \A p \in Pids : /\ row[p] \in Row /\ rows[p] \in Seq(SkillRow)
                         /\ UniqueSkills(rows[p])
                         /\ Current.row[p] = row[p] /\ Current.grades[p] = Grades(rows[p])
      /\ row \in [Pids -> Row] /\ rows \in [Pids -> Seq(SkillRow)]
  BY FirstPacket
<1>2. m.pid \in Pids /\ m.su \in Nat /\ m.type # "save" /\ m.type # "stats" /\ m.type # "load"
      /\ m.type \in {"up", "learn"}
  BY <1>1, MessageIs DEF Sound
<1>. DEFINE rs == rows'[m.pid]
<1>3. /\ rows' = [rows EXCEPT ![m.pid] = rs] /\ rs \in Seq(SkillRow) /\ UniqueSkills(rs)
      /\ Grades(rs) = [Grades(rows[m.pid]) EXCEPT ![m.skill] = m.grade]
      /\ dbpc' = [at |-> "points", pid |-> m.pid, su |-> m.su] /\ row' = row
  OBVIOUS
<1>. HIDE DEF m, rs
<1>4. \A p \in Pids : rows'[p] = IF p = m.pid THEN rs ELSE rows[p]
  BY <1>1, <1>3
<1>5. TablesTyped'
  <2>1. rows' \in [Pids -> Seq(SkillRow)]
    BY <1>1, <1>3
  <2>2. dbpc'.at = "points" /\ dbpc'.pid \in Known /\ dbpc'.su \in Nat
    BY <1>2, <1>3 DEF Known
  <2>. QED  BY <1>1, <1>3, <2>1, <2>2 DEF TablesTyped
<1>6. RowsInv'
  <2>1. \A p \in Pids : UniqueSkills(rows'[p])
    BY <1>1, <1>3, <1>4
  <2>. QED  BY <2>1 DEF RowsInv
<1>7. ASSUME NEW p \in Pids
      PROVE  /\ Current'.row[p] = RowAfter(Current.row[p], p, m)
             /\ Current'.grades[p] = GradesAfter(Current.grades[p], p, m)
  <2>1. /\ Current'.row[p] = IF m.pid = p THEN [row[p] EXCEPT !.su = m.su] ELSE row[p]
        /\ Current'.grades[p] = Grades(rows'[p])
    BY <1>3 DEF Current
  <2>2. CASE p = m.pid
    <3>1. Current'.row[p] = [level |-> row[p].level, exp |-> row[p].exp, pu |-> row[p].pu,
                             su |-> m.su, stat |-> row[p].stat]
      <4>1. row[p] \in Row /\ Current'.row[p] = [row[p] EXCEPT !.su = m.su]
        BY <1>1, <2>1, <2>2
      <4>. QED  BY <4>1 DEF Row
    <3>2. RowAfter(row[p], p, m) = [level |-> row[p].level, exp |-> row[p].exp,
                                    pu |-> row[p].pu, su |-> m.su, stat |-> row[p].stat]
      BY <1>2, <2>2 DEF RowAfter
    <3>3. Current'.grades[p] = GradesAfter(Grades(rows[p]), p, m)
      BY <1>2, <1>3, <1>4, <2>1, <2>2 DEF GradesAfter
    <3>. QED  BY <1>1, <3>1, <3>2, <3>3
  <2>3. CASE p # m.pid
    <3>1. RowAfter(row[p], p, m) = row[p] /\ GradesAfter(Grades(rows[p]), p, m) = Grades(rows[p])
      BY <1>2, <2>3 DEF RowAfter, GradesAfter
    <3>2. Current'.row[p] = row[p] /\ Current'.grades[p] = Grades(rows[p])
      BY <1>4, <2>1, <2>3
    <3>. QED  BY <1>1, <3>1, <3>2
  <2>. QED  BY <2>2, <2>3
<1>8. Current' = Applied(Current, m)
  BY <1>7, CurrentFollows
<1>9. UNCHANGED <<memory, d2s, slipped, left>>
  OBVIOUS
<1>. QED  BY <1>2, <1>5, <1>6, <1>8, <1>9, Handled DEF m

LEMMA LearnSkillKeeps ==
    ASSUME Inv, LearnSkill
    PROVE  Inv'
<1>. DEFINE m == Head(s2d)
<1>1. /\ s2d # <<>> /\ dbpc = Idle /\ m.type = "learn" /\ s2d' = Tail(s2d)
      /\ rows' = [rows EXCEPT ![m.pid] = Inserted(rows[m.pid], m.skill, 1)]
      /\ dbpc' = [at |-> "points", pid |-> m.pid, su |-> m.su]
      /\ UNCHANGED <<memory, d2s, row, slipped, left>>
  BY DEF LearnSkill, history, Received
<1>2. /\ m \in Message /\ Sound(Current, m)
      /\ \A p \in Pids : /\ rows[p] \in Seq(SkillRow) /\ UniqueSkills(rows[p])
                         /\ Current.grades[p] = Grades(rows[p])
      /\ rows \in [Pids -> Seq(SkillRow)]
  BY <1>1, FirstPacket
<1>3. m.pid \in Pids /\ m.skill \in Skills /\ m.grade = 1 /\ Grades(rows[m.pid])[m.skill] = 0
      /\ 1 \in 1 .. MaxGrade
  BY <1>1, <1>2, MessageIs, Limits DEF Sound
<1>. DEFINE before == rows[m.pid]
            rs == Inserted(before, m.skill, 1)
<1>4. /\ rs \in Seq(SkillRow) /\ UniqueSkills(rs)
      /\ Grades(rs) = [Grades(before) EXCEPT ![m.skill] = 1]
  <2>1. /\ before \in Seq(SkillRow) /\ UniqueSkills(before)
        /\ m.skill \in Skills /\ 1 \in 1 .. MaxGrade /\ Grades(before)[m.skill] = 0
    BY <1>2, <1>3
  <2>. HIDE DEF m, before
  <2>. QED  BY <2>1, InsertedRows
<1>. HIDE DEF rs
<1>5. rows'[m.pid] = rs
  BY <1>1, <1>2, <1>3 DEF rs
<1>6. rows' = [rows EXCEPT ![m.pid] = rows'[m.pid]]
  BY <1>1, <1>5 DEF rs
<1>7. /\ rows'[m.pid] \in Seq(SkillRow) /\ UniqueSkills(rows'[m.pid])
      /\ Grades(rows'[m.pid]) = [Grades(rows[m.pid]) EXCEPT ![m.skill] = m.grade]
  BY <1>3, <1>4, <1>5
<1>8. m.type \in {"up", "learn"}
  BY <1>1
<1>. QED  BY <1>1, <1>6, <1>7, <1>8, SkillHandled

LEMMA UpgradeSkillKeeps ==
    ASSUME Inv, UpgradeSkill
    PROVE  Inv'
<1>. DEFINE m == Head(s2d)
<1>1. /\ s2d # <<>> /\ dbpc = Idle /\ m.type = "up" /\ s2d' = Tail(s2d)
      /\ rows' = [rows EXCEPT ![m.pid] = Updated(rows[m.pid], m.skill, m.grade)]
      /\ dbpc' = [at |-> "points", pid |-> m.pid, su |-> m.su]
      /\ UNCHANGED <<memory, d2s, row, slipped, left>>
  <2>1. /\ s2d # <<>> /\ dbpc = Idle /\ m.type = "up" /\ s2d' = Tail(s2d)
        /\ rows' = [p \in Pids |-> IF p # m.pid THEN rows[p] ELSE Updated(rows[p], m.skill, m.grade)]
        /\ dbpc' = [at |-> "points", pid |-> m.pid, su |-> m.su]
        /\ UNCHANGED <<memory, d2s, row, slipped, left>>
    BY DEF UpgradeSkill, history, Received
  <2>2. rows \in [Pids -> Seq(SkillRow)]
    BY <2>1, FirstPacket
  <2>. HIDE DEF m
  <2>3. rows' = [rows EXCEPT ![m.pid] = Updated(rows[m.pid], m.skill, m.grade)]
    BY <2>1, <2>2
  <2>. QED  BY <2>1, <2>3
<1>2. /\ m \in Message /\ Sound(Current, m)
      /\ \A p \in Pids : /\ rows[p] \in Seq(SkillRow) /\ UniqueSkills(rows[p])
                         /\ Current.grades[p] = Grades(rows[p])
      /\ rows \in [Pids -> Seq(SkillRow)]
  BY <1>1, FirstPacket
<1>3. m.pid \in Pids /\ m.skill \in Skills /\ m.grade \in 1 .. MaxGrade
      /\ Grades(rows[m.pid])[m.skill] >= 1
  BY <1>1, <1>2, MessageIs, Limits DEF Sound
<1>. DEFINE before == rows[m.pid]
            rs == Updated(before, m.skill, m.grade)
<1>4. /\ rs \in Seq(SkillRow) /\ UniqueSkills(rs)
      /\ Grades(rs) = [Grades(before) EXCEPT ![m.skill] = m.grade]
  <2>1. /\ before \in Seq(SkillRow) /\ UniqueSkills(before)
        /\ m.skill \in Skills /\ m.grade \in 1 .. MaxGrade /\ Grades(before)[m.skill] >= 1
    BY <1>2, <1>3
  <2>. HIDE DEF m, before
  <2>. QED  BY <2>1, UpdatedRows
<1>. HIDE DEF rs
<1>5. rows'[m.pid] = rs
  BY <1>1, <1>2, <1>3 DEF rs
<1>6. rows' = [rows EXCEPT ![m.pid] = rows'[m.pid]]
  BY <1>1, <1>5 DEF rs
<1>7. /\ rows'[m.pid] \in Seq(SkillRow) /\ UniqueSkills(rows'[m.pid])
      /\ Grades(rows'[m.pid]) = [Grades(rows[m.pid]) EXCEPT ![m.skill] = m.grade]
  BY <1>3, <1>4, <1>5
<1>8. m.type \in {"up", "learn"}
  BY <1>1
<1>. QED  BY <1>1, <1>6, <1>7, <1>8, SkillHandled

LEMMA UpdateSUPointKeeps ==
    ASSUME Inv, UpdateSUPoint
    PROVE  Inv'
<1>1. TypesInv /\ HitInv /\ Phases /\ RowsInv /\ Honest /\ Order
  BY DEF Inv
<1>2. /\ dbpc.at = "points"
      /\ row' = [p \in Pids |-> IF p # dbpc.pid THEN row[p]
                               ELSE [row[p] EXCEPT !.su = dbpc.su]]
      /\ dbpc' = Idle
      /\ UNCHANGED <<memory, s2d, d2s, rows, slipped, left>>
  BY DEF UpdateSUPoint, history
<1>3. UNCHANGED <<mode, have, data, skills, hit, own, holder>>
  BY <1>2 DEF memory
<1>4. row \in [Pids -> Row] /\ dbpc.su \in Nat /\ rows \in [Pids -> Seq(SkillRow)]
  BY <1>1, <1>2 DEF TypesInv, TablesTyped
<1>5. \A p \in Pids : row'[p] = IF dbpc.pid = p THEN [row[p] EXCEPT !.su = dbpc.su] ELSE row[p]
  BY <1>2, <1>4
<1>6. row' \in [Pids -> Row]
  <2>1. \A p \in Pids : row[p] \in Row /\ [row[p] EXCEPT !.su = dbpc.su] \in Row
    BY <1>4 DEF Row
  <2>. QED  BY <1>2, <1>4, <1>5, <2>1
<1>7. Current' = Current
  <2>1. Current' = [row |-> [p \in Pids |-> row'[p]], grades |-> [p \in Pids |-> Grades(rows[p])]]
    BY <1>2 DEF Current, Idle
  <2>2. Current = [row |-> [p \in Pids |-> row'[p]], grades |-> [p \in Pids |-> Grades(rows[p])]]
    BY <1>2, <1>5 DEF Current
  <2>. QED  BY <2>1, <2>2
<1>8. TypesInv'
  <2>1. TablesTyped'
    BY <1>2, <1>4, <1>6 DEF TablesTyped, Idle
  <2>. QED  BY <1>1, <1>2, <1>3, <2>1 DEF TypesInv, MemoryTyped, OwnTyped, HolderTyped,
                                          LinkTyped, InHand
<1>9. HitInv' /\ Honest' /\ RowsInv'
  BY <1>1, <1>2, <1>3 DEF HitInv, Honest, RowsInv
<1>10. Phases'
  <2>1. dbpc # Idle
    BY <1>2 DEF Idle
  <2>2. (\A p : Asked(p) => Asked(p)') /\ (Refused => Refused')
    BY <1>2, <1>3 DEF Asked, Refused, LoadLast, NoLoads
  <2>3. mode = "loading" => Asked(NoOne)' \/ Refused' \/ \E p \in Pids : Asked(p)'
    BY <1>1, <2>1, <2>2 DEF Phases, Answered, HalfLoaded, Loaded
  <2>. QED  BY <1>1, <1>2, <1>3, <2>3 DEF Phases, Out, NoLoads
<1>11. Order'
  <2>1. PICK f \in Stored : Ends(f)
    BY <1>1 DEF Order
  <2>2. mode = "ingame" => InStep(f.row[data.pid], f.grades[data.pid])'
    BY <1>2, <1>3, <2>1 DEF Ends, InStep, SameGrades, SameStat, SameLevel, PayingStats,
                      PayingSkills, Holding, InHand, Granted
  <2>3. Ends(f)'
    BY <1>2, <1>3, <1>7, <2>1, <2>2, LeftSame DEF Ends
  <2>. QED  BY <2>1, <2>3 DEF Order
<1>. QED  BY <1>8, <1>9, <1>10, <1>11 DEF Inv

\* A refusal changes nothing in the game server.
LEMMA RefusedKeeps ==
    ASSUME Inv, mode = "loading", s2d # <<>>, dbpc = Idle, Asked(NoOne),
           Head(s2d).type = "load", s2d' = Tail(s2d),
           UNCHANGED <<memory, d2s, database, slipped, left>>
    PROVE  Inv'
<1>1. TypesInv /\ HitInv /\ Phases /\ RowsInv /\ Honest /\ Order
  BY DEF Inv
<1>2. UNCHANGED <<mode, have, data, skills, hit, own, holder>> /\ UNCHANGED <<dbpc, row, rows>>
      /\ UNCHANGED database
  BY DEF memory, database
<1>3. s2d \in Seq(Message)
  BY <1>1 DEF TypesInv, LinkTyped
<1>4. s2d' = <<>> /\ d2s = <<>> /\ have = "none" /\ skills = NoSkills
  BY <1>3, LoadIsLast DEF Asked
<1>5. TablesTyped' /\ RowsInv' /\ Current' = Current
  BY <1>1, <1>2, TablesSame DEF TypesInv
<1>6. LinkTyped'
  BY <1>1, <1>4, EmptySeq DEF LinkTyped, TypesInv
<1>7. TypesInv'
  BY <1>1, <1>2, <1>5, <1>6 DEF TypesInv, MemoryTyped, OwnTyped, HolderTyped, InHand
<1>8. HitInv' /\ Honest'
  BY <1>1, <1>2 DEF HitInv, Honest
<1>9. Phases'
  <2>1. NoLoads(s2d)'
    BY <1>4, EmptySeq DEF NoLoads
  <2>2. Refused'
    BY <1>2, <1>4, <2>1 DEF Refused
  <2>. QED  BY <1>1, <1>2, <2>2 DEF Phases, Out
<1>10. Order'
  <2>1. PICK f \in Stored : Ends(f)
    BY <1>1 DEF Order
  <2>2. Leads(s2d, Current, f, slipped)
    BY <2>1 DEF Ends
  <2>3. Current \in Stored
    BY <1>3, <2>2, LeadsEnds
  <2>4. Applied(Current, Head(s2d)) = Current
    BY <2>3, LoadChangesNothing
  <2>5. Leads(s2d', Current, f, slipped)
    BY <1>3, <2>2, <2>4, LeadsFirst
  <2>6. Ends(f)'
    BY <1>2, <1>5, <2>1, <2>5, LeftSame DEF Ends
  <2>. QED  BY <2>1, <2>6 DEF Order
<1>. QED  BY <1>5, <1>7, <1>8, <1>9, <1>10 DEF Inv

LEMMA AnswersKeep ==
    ASSUME Inv, Head(s2d).pid \in Pids, LoadPlayer
    PROVE  Inv'
<1>1. TypesInv /\ HitInv /\ Phases /\ RowsInv /\ Honest /\ Order
  BY DEF Inv
<1>. DEFINE m == Head(s2d)
            a == [type |-> "player", data |-> Restored(m.pid, row[m.pid])]
            b == [type |-> "skills", rows |-> rows[m.pid]]
<1>2. /\ s2d # <<>> /\ dbpc = Idle /\ m.type = "load" /\ s2d' = Tail(s2d)
      /\ d2s' = d2s \o <<a, b>>
      /\ UNCHANGED memory /\ UNCHANGED database /\ UNCHANGED <<slipped, left>>
  BY DEF LoadPlayer, history, Received
<1>3. UNCHANGED <<mode, have, data, skills, hit, own, holder>>
  BY <1>2 DEF memory
<1>4. UNCHANGED <<dbpc, row, rows>>
  BY <1>2 DEF database
<1>5. s2d \in Seq(Message) /\ ~NoLoads(s2d)
  <2>1. s2d \in Seq(Message)
    BY <1>1 DEF TypesInv, LinkTyped
  <2>2. 1 \in DOMAIN s2d /\ s2d[1] = m
    BY <1>2, <2>1, EmptySeq, LenProperties, HeadTailProperties
  <2>. QED  BY <1>2, <2>1, <2>2 DEF NoLoads
<1>6. mode = "loading"
  BY <1>1, <1>5 DEF Phases
<1>7. PICK p \in Pids : Asked(p)
  <2>1. ~Asked(NoOne)
    BY <1>2, <1>5, LoadIsLast, NoPlayerIsNoOne DEF Asked
  <2>. QED  BY <1>1, <1>2, <1>5, <1>6, <2>1 DEF Phases, Refused, Answered, HalfLoaded, Loaded
<1>8. m.pid = p /\ s2d' = <<>> /\ d2s = <<>> /\ have = "none" /\ skills = NoSkills
  BY <1>2, <1>5, <1>7, LoadIsLast DEF Asked
<1>9. row[p] \in Row /\ rows[p] \in Seq(SkillRow)
  BY <1>1 DEF TypesInv, TablesTyped
<1>10. a \in Answer /\ b \in Answer /\ Grown(a.data)
  <2>1. Restored(p, row[p]) \in InMemory /\ Restored(p, row[p]).level >= 1
    BY <1>9, Limits DEF Restored, InMemory, Row, Known
  <2>2. a.data = Restored(p, row[p])
    BY <1>8
  <2>. QED  BY <1>8, <1>9, <2>1, <2>2 DEF Answer, Grown
<1>. HIDE DEF a, b, m
<1>11. d2s' = <<a, b>>
  <2>1. <<a, b>> \in Seq(Answer)
    BY <1>10
  <2>. QED  BY <1>2, <1>8, <2>1, ConcatEmptySeq
<1>12. TablesTyped' /\ RowsInv' /\ Current' = Current
  BY <1>1, <1>2, TablesSame DEF TypesInv
<1>13. LinkTyped'
  <2>1. <<a, b>> \in Seq(Answer) /\ DOMAIN <<a, b>> = {1, 2}
        /\ <<a, b>>[1] = a /\ <<a, b>>[2] = b
    BY <1>10
  <2>2. b.type = "skills"
    BY DEF b
  <2>3. d2s' \in Seq(Answer) /\ \A i \in DOMAIN d2s' : d2s'[i].type = "player" => Grown(d2s'[i].data)
    BY <1>10, <1>11, <2>1, <2>2
  <2>. QED  BY <1>8, <2>3, EmptySeq DEF LinkTyped
<1>14. TypesInv'
  BY <1>1, <1>2, <1>3, <1>12, <1>13 DEF TypesInv, MemoryTyped, OwnTyped, HolderTyped, InHand
<1>15. HitInv' /\ Honest'
  BY <1>1, <1>2, <1>3 DEF HitInv, Honest
<1>16. Phases'
  <2>1. Answered(p)'
    BY <1>2, <1>3, <1>4, <1>8, <1>11 DEF Answered, a, b
  <2>. QED  BY <1>1, <1>3, <1>6, <2>1 DEF Phases, Out
<1>17. Order'
  <2>1. PICK f \in Stored : Ends(f)
    BY <1>1 DEF Order
  <2>2. Leads(s2d, Current, f, slipped)
    BY <2>1 DEF Ends
  <2>3. Current \in Stored
    BY <1>5, <2>2, LeadsEnds
  <2>4. Applied(Current, m) = Current
    BY <1>2, <2>3, LoadChangesNothing
  <2>5. Leads(s2d', Current, f, slipped)
    BY <1>2, <1>5, <2>2, <2>4, LeadsFirst DEF m
  <2>6. Ends(f)'
    BY <1>2, <1>3, <1>6, <1>12, <2>1, <2>5, LeftSame DEF Ends
  <2>. QED  BY <2>1, <2>6 DEF Order
<1>. QED  BY <1>12, <1>14, <1>15, <1>16, <1>17 DEF Inv

LEMMA LoadPlayerKeeps ==
    ASSUME Inv, LoadPlayer
    PROVE  Inv'
<1>1. CASE Head(s2d).pid \in Pids
  BY <1>1, AnswersKeep
<1>2. CASE Head(s2d).pid \notin Pids
  <2>1. /\ s2d # <<>> /\ dbpc = Idle /\ Head(s2d).type = "load" /\ s2d' = Tail(s2d)
        /\ UNCHANGED <<memory, d2s, database, slipped, left>>
    BY <1>2 DEF LoadPlayer, Received, history
  <2>2. Phases /\ s2d \in Seq(Message)
    BY DEF Inv, TypesInv, LinkTyped
  <2>3. ~NoLoads(s2d)
    <3>1. 1 \in DOMAIN s2d /\ s2d[1] = Head(s2d)
      BY <2>1, <2>2, EmptySeq, LenProperties, HeadTailProperties
    <3>. QED  BY <2>1, <3>1 DEF NoLoads
  <2>4. mode = "loading"
    BY <2>2, <2>3 DEF Phases
  <2>5. \A p \in Pids : ~Asked(p)
    BY <1>2, <2>1, <2>2, LoadIsLast DEF Asked
  <2>6. Asked(NoOne)
    BY <2>1, <2>2, <2>3, <2>4, <2>5 DEF Phases, Refused, Answered, HalfLoaded, Loaded
  <2>. QED  BY <2>1, <2>4, <2>6, RefusedKeeps
<1>. QED  BY <1>1, <1>2

-----------------------------------------------------------------------------
(* In the game.                                                             *)

LEMMA InGameIs ==
    ASSUME Inv, mode = "ingame"
    PROVE  /\ data.pid \in Pids /\ data.pid # NoOne /\ left[data.pid] = NoOne
           /\ have = "skills" /\ d2s = <<>> /\ NoLoads(s2d)
           /\ data \in InMemory /\ data.level >= 1 /\ skills \in Learned /\ hit \in Nat
           /\ OwnTyped /\ HolderTyped /\ LinkTyped /\ s2d \in Seq(Message)
           /\ slipped \in BOOLEAN
           /\ ~slipped /\ own.at # "stats" => data.pu + PaidPU(data.stat) <= EarnedPU(data.level)
<1>1. TypesInv /\ Phases /\ Honest
  BY DEF Inv
<1>2. /\ data.pid \in Pids /\ data.pid # NoOne /\ left[data.pid] = NoOne
      /\ have = "skills" /\ d2s = <<>> /\ NoLoads(s2d)
  BY <1>1, NoPlayerIsNoOne DEF Phases
<1>. QED  BY <1>1, <1>2 DEF TypesInv, MemoryTyped, LinkTyped, Grown, Honest

\* Both threads are at rest unless the player is in the game.
LEMMA AtWork ==
    ASSUME Inv, own.at # "idle" \/ holder.at # "free"
    PROVE  mode = "ingame"
<1>1. mode # "ingame" => Out
  BY DEF Inv, Phases
<1>. QED  BY <1>1, OutTyped

LEMMA SkillsSmall ==
    ASSUME NEW g \in Learned, NEW s \in Skills
    PROVE  g[s] \in 0 .. MaxGrade /\ g[s] \in Nat
BY Limits DEF Learned

\* What a step in the game has to keep.
LEMMA PlayKeeps ==
    ASSUME Inv, mode = "ingame", UNCHANGED <<mode, have, d2s, left>>, UNCHANGED database,
           data'.pid = data.pid, data' \in InMemory, data'.level >= 1,
           skills' \in Learned, hit' \in Nat,
           OwnTyped', HolderTyped', LinkTyped', NoLoads(s2d)', slipped' \in BOOLEAN,
           HitInv', Honest', Order'
    PROVE  Inv'
<1>1. TypesInv /\ RowsInv /\ Phases
  BY DEF Inv
<1>2. TablesTyped' /\ RowsInv'
  BY <1>1, TablesSame DEF TypesInv
<1>3. MemoryTyped'
  BY <1>1, InGameIs DEF TypesInv, MemoryTyped, Grown
<1>4. TypesInv'
  BY <1>1, <1>2, <1>3 DEF TypesInv
<1>5. Phases'
  BY <1>1, InGameIs DEF Phases
<1>. QED  BY <1>2, <1>4, <1>5 DEF Inv

\* A step that sends nothing.
LEMMA QuietOrder ==
    ASSUME Inv, mode = "ingame", UNCHANGED <<mode, s2d, left>>, UNCHANGED database,
           slipped => slipped',
           NEW f \in Stored, Ends(f), InStep(f.row[data.pid], f.grades[data.pid])'
    PROVE  Order'
<1>1. Current' = Current
  BY TablesSame DEF Inv, TypesInv
<1>2. Leads(s2d, Current, f, slipped) /\ Settled(f)
  BY DEF Ends
<1>3. Leads(s2d, Current, f, slipped')
  BY <1>2, LeadsLess
<1>4. Ends(f)'
  BY <1>1, <1>2, <1>3, LeftSame DEF Ends
<1>. QED  BY <1>4 DEF Order

\* A step that sends a packet of this player.
LEMMA SendingOrder ==
    ASSUME Inv, mode = "ingame", UNCHANGED <<mode, left>>, UNCHANGED database,
           slipped => slipped',
           NEW f \in Stored, Ends(f), NEW m \in Message, Sound(f, m), s2d' = Append(s2d, m),
           NEW g \in Stored, g = Applied(f, m), OthersSame(g, f, data.pid),
           ~slipped' => FairRow(g.row[data.pid], g.grades[data.pid]),
           InStep(g.row[data.pid], g.grades[data.pid])'
    PROVE  Order'
<1>1. Current' = Current
  BY TablesSame DEF Inv, TypesInv
<1>2. Leads(s2d, Current, f, slipped) /\ Settled(f) /\ s2d \in Seq(Message)
      /\ data.pid \in Pids /\ left[data.pid] = NoOne
  BY InGameIs DEF Ends
<1>3. ~slipped => Fair(f)
  BY <1>2, LeadsEnds
<1>4. ~slipped' => Fair(g)
  BY <1>2, <1>3, FairOn
<1>5. Leads(s2d, Current, f, slipped')
  BY <1>2, LeadsLess
<1>6. Leads(Append(s2d, m), Current, g, slipped')
  BY <1>2, <1>4, <1>5, LeadsOn
<1>7. Settled(g)'
  BY <1>2, OthersSettled
<1>8. Ends(g)'
  BY <1>1, <1>6, <1>7 DEF Ends
<1>. QED  BY <1>8 DEF Order

LEMMA OnUpdatePropertyKeeps ==
    ASSUME Inv, NEW add \in 1 .. MaxStat, OnUpdateProperty(add)
    PROVE  Inv'
<1>. DEFINE price == GetReqPU(data.stat, add)
<1>1. /\ mode = "ingame" /\ own = Idle /\ data.stat + add <= MaxStat /\ price <= data.pu
      /\ data' = [data EXCEPT !.stat = data.stat + add]
      /\ own' = [at |-> "stats", was |-> data.pu, need |-> price]
      /\ UNCHANGED <<mode, have, skills, hit, holder, s2d, d2s, slipped, left>>
      /\ UNCHANGED database
  BY DEF OnUpdateProperty, history, InGame
<1>2. own.at = "idle" /\ ~InHand
  BY <1>1, IdleTyped
<1>3. data.stat \in Nat /\ add \in Nat /\ data.stat \in 0 .. MaxStat /\ data.pu \in Nat
      /\ data.stat + add \in 0 .. MaxStat
  BY <1>1, InGameIs, DataIs, Limits
<1>4. /\ price \in Nat /\ PaidPU(data.stat) \in Int
      /\ PaidPU(data.stat + add) = PaidPU(data.stat) + price
  BY <1>1, <1>3, Prices
<1>. HIDE DEF price
<1>5. /\ data'.pid = data.pid /\ data'.level = data.level /\ data'.exp = data.exp
      /\ data'.pu = data.pu /\ data'.su = data.su /\ data'.stat = data.stat + add
      /\ data' \in InMemory
  BY <1>1, <1>3, InGameIs DEF InMemory
<1>6. OwnTyped' /\ own'.at = "stats" /\ own'.need = price /\ ~InHand'
  BY <1>1, <1>3, <1>4 DEF OwnTyped, InHand
<1>7. HolderTyped' /\ LinkTyped' /\ NoLoads(s2d)'
  <2>1. HolderTyped'
    BY <1>1, <1>5, InGameIs, HolderSame DEF HolderTyped
  <2>2. LinkTyped'
    BY <1>1, InGameIs, LinkSame
  <2>. QED  BY <1>1, <2>1, <2>2, InGameIs DEF NoLoads
<1>8. HitInv' /\ Honest'
  BY <1>1, <1>2, <1>6 DEF Inv, HitInv, Honest, InHand
<1>9. Order'
  <2>1. PICK f \in Stored : Ends(f)
    BY DEF Inv, Order
  <2>2. PICK r, g : r = f.row[data.pid] /\ g = f.grades[data.pid]
    OBVIOUS
  <2>3. InStep(r, g) /\ r.stat \in 0 .. MaxStat /\ r.stat = data.stat
    BY <1>1, <1>2, <2>1, <2>2, InGameIs, StoredIs DEF Ends, InStep, SameStat
  <2>4. SameGrades(g)' /\ SameLevel(r)'
    BY <1>1, <1>2, <1>5, <1>6, <2>3 DEF InStep, SameGrades, SameLevel, Granted
  <2>5. SameStat(r)'
    BY <1>3, <1>4, <1>5, <1>6, <2>3 DEF SameStat
  <2>6. ~slipped => PayingStats(r)'
    BY <1>1, <1>2, <1>5, <2>3, InGameIs DEF PayingStats
  <2>7. ~slipped => PayingSkills(g)' /\ Holding(r, g)'
    BY <1>1, <1>2, <1>5, <1>6, <2>3 DEF InStep, PayingSkills, Holding
  <2>8. InStep(r, g)'
    BY <1>1, <2>4, <2>5, <2>6, <2>7 DEF InStep
  <2>9. InStep(f.row[data.pid], f.grades[data.pid])'
    BY <1>5, <2>2, <2>8
  <2>. QED  BY <1>1, <2>1, <2>9, QuietOrder
<1>. QED  BY <1>1, <1>5, <1>6, <1>7, <1>8, <1>9, InGameIs, PlayKeeps

\* A skill is taken in hand: the table has its grade before.
LEMMA TakesInHand ==
    ASSUME Inv, mode = "ingame", own = Idle, NEW s \in Skills, NEW t \in {"up", "learn"},
           skills[s] < MaxGrade, data.su > 0, t = "up" <=> skills[s] > 0,
           skills' = [skills EXCEPT ![s] = skills[s] + 1],
           own' = [at |-> "skill", was |-> data.su, skill |-> s, type |-> t],
           UNCHANGED <<mode, have, data, hit, holder, s2d, d2s, slipped, left>>,
           UNCHANGED database
    PROVE  Inv'
<1>1. own.at = "idle" /\ ~InHand
  BY IdleTyped
<1>2. /\ skills \in Learned /\ skills[s] \in Nat /\ skills' \in Learned
      /\ skills'[s] = skills[s] + 1 /\ skills'[s] \in Nat
      /\ \A x \in Skills : x # s => skills'[x] = skills[x]
  <2>1. skills \in Learned /\ skills[s] \in Nat
    BY InGameIs, SkillsSmall
  <2>2. skills[s] + 1 \in 0 .. MaxGrade
    BY <2>1, Limits
  <2>3. skills' \in Learned /\ skills'[s] = skills[s] + 1
    BY <2>1, <2>2 DEF Learned
  <2>. QED  BY <2>1, <2>3 DEF Learned
<1>3. own'.at = "skill" /\ own'.skill = s /\ own'.type = t /\ own'.was = data.su /\ InHand'
  BY DEF InHand
<1>4. OwnTyped'
  <2>1. data.su \in Nat \ {0}
    BY InGameIs, DataIs
  <2>. QED  BY <1>2, <1>3, <2>1 DEF OwnTyped
<1>5. HolderTyped' /\ LinkTyped' /\ NoLoads(s2d)'
  <2>1. HolderTyped' /\ LinkTyped'
    BY InGameIs, LinkSame DEF HolderTyped
  <2>. QED  BY <2>1, InGameIs DEF NoLoads
<1>6. HitInv'
  <2>1. hit = Half(skills[Mastery])
    BY <1>1 DEF Inv, HitInv
  <2>2. CASE s = Mastery
    <3>1. t = "up" => hit' = Half(skills'[Mastery] - 1)
      BY <1>2, <2>1, <2>2
    <3>2. t = "learn" => hit' = 0
      BY <1>2, <2>1, <2>2, Halves
    <3>. QED  BY <1>3, <2>2, <3>1, <3>2 DEF HitInv
  <2>3. CASE s # Mastery
    BY <1>2, <1>3, <2>1, <2>3, OwnSkills DEF HitInv
  <2>. QED  BY <2>2, <2>3
<1>7. Honest'
  BY <1>1, <1>3 DEF Inv, Honest
<1>8. Order'
  <2>1. PICK f \in Stored : Ends(f)
    BY DEF Inv, Order
  <2>2. PICK r, g : r = f.row[data.pid] /\ g = f.grades[data.pid]
    OBVIOUS
  <2>3. InStep(r, g) /\ g = skills
    BY <1>1, <2>1, <2>2 DEF Ends, InStep, SameGrades
  <2>4. SameGrades(g)'
    <3>1. g = [skills' EXCEPT ![s] = skills'[s] - 1]
      <4>1. /\ skills = [x \in Skills |-> skills[x]]
            /\ skills' = [x \in Skills |-> skills'[x]]
        BY <1>2 DEF Learned
      <4>2. skills'[s] - 1 = skills[s]
        BY <1>2
      <4>3. [skills' EXCEPT ![s] = skills'[s] - 1]
            = [x \in Skills |-> IF x = s THEN skills'[s] - 1 ELSE skills'[x]]
        BY <4>1
      <4>4. [x \in Skills |-> IF x = s THEN skills'[s] - 1 ELSE skills'[x]]
            = [x \in Skills |-> skills[x]]
        BY <1>2, <4>2
      <4>. QED  BY <2>3, <4>1, <4>3, <4>4
    <3>2. (t = "learn" => skills'[s] = 1) /\ (t = "up" => skills'[s] >= 2)
      BY <1>2
    <3>. QED  BY <1>3, <3>1, <3>2 DEF SameGrades
  <2>5. SameStat(r)' /\ SameLevel(r)'
    BY <1>1, <1>3, <2>3 DEF InStep, SameStat, SameLevel, Granted
  <2>6. ~slipped => PayingStats(r)' /\ PayingSkills(g)' /\ Holding(r, g)'
    BY <1>1, <1>3, <2>3 DEF InStep, PayingStats, PayingSkills, Holding
  <2>7. InStep(r, g)'
    BY <2>4, <2>5, <2>6 DEF InStep
  <2>8. InStep(f.row[data.pid], f.grades[data.pid])'
    BY <2>2, <2>7
  <2>. QED  BY <2>1, <2>8, QuietOrder
<1>. QED  BY <1>2, <1>4, <1>5, <1>6, <1>7, <1>8, InGameIs, PlayKeeps

LEMMA OnSkillUpKeeps ==
    ASSUME Inv, ~early', NEW s \in Skills, OnSkillUp(s)
    PROVE  Inv'
<1>1. /\ mode = "ingame" /\ own = Idle /\ data.su > 0 /\ skills[s] < MaxGrade /\ skills[s] > 0
      /\ skills' = [skills EXCEPT ![s] = skills[s] + 1]
      /\ own' = [at |-> "skill", was |-> data.su, skill |-> s, type |-> "up"]
      /\ UNCHANGED <<mode, have, data, hit, holder, s2d, d2s, slipped, left>>
      /\ UNCHANGED database
  <2>1. ~early' /\ left = [p \in Pids |-> left[p]]
    BY DEF Inv, TypesInv
  <2>2. mode = "ingame" /\ left' = left
    BY <2>1 DEF OnSkillUp, MayAskForSkill
  <2>. QED  BY <2>2 DEF OnSkillUp, MayAskForSkill, CanLearnSkill, CanLearn, Has
<1>. QED  BY <1>1, TakesInHand

LEMMA OnLearnSkillKeeps ==
    ASSUME Inv, ~early', NEW s \in Skills, OnLearnSkill(s)
    PROVE  Inv'
<1>1. /\ mode = "ingame" /\ own = Idle /\ data.su > 0 /\ skills[s] < MaxGrade /\ ~(skills[s] > 0)
      /\ skills' = [skills EXCEPT ![s] = 1]
      /\ own' = [at |-> "skill", was |-> data.su, skill |-> s, type |-> "learn"]
      /\ UNCHANGED <<mode, have, data, hit, holder, s2d, d2s, slipped, left>>
      /\ UNCHANGED database
  <2>1. ~early' /\ left = [p \in Pids |-> left[p]]
    BY DEF Inv, TypesInv
  <2>2. mode = "ingame" /\ left' = left
    BY <2>1 DEF OnLearnSkill, MayAskForSkill
  <2>. QED  BY <2>2 DEF OnLearnSkill, MayAskForSkill, CanLearnSkill, CanLearn, Has
<1>2. skills[s] = 0
  BY <1>1, InGameIs, SkillsSmall
<1>3. skills' = [skills EXCEPT ![s] = skills[s] + 1]
  BY <1>1, <1>2
<1>. QED  BY <1>1, <1>2, <1>3, TakesInHand

LEMMA WriteStatsKeeps ==
    ASSUME Inv, own.at = "stats",
           data' = [data EXCEPT !.pu = own.was - own.need],
           own' = [at |-> "statsWritten"],
           slipped' = (slipped \/ data.pu # own.was \/ holder.at = "grow"),
           UNCHANGED <<mode, have, skills, hit, holder, s2d, d2s, left>>, UNCHANGED database
    PROVE  Inv'
<1>1. mode = "ingame" /\ ~InHand
  BY AtWork DEF InHand
<1>2. own.was \in Nat /\ own.need \in 0 .. own.was /\ own.was - own.need \in Nat
  <2>1. own.was \in Nat /\ own.need \in 0 .. own.was
    BY <1>1, InGameIs DEF OwnTyped
  <2>. QED  BY <2>1
<1>3. /\ data'.pid = data.pid /\ data'.level = data.level /\ data'.exp = data.exp
      /\ data'.pu = own.was - own.need /\ data'.su = data.su /\ data'.stat = data.stat
      /\ data' \in InMemory
  BY <1>1, <1>2, InGameIs DEF InMemory
<1>4. OwnTyped' /\ own'.at = "statsWritten" /\ ~InHand'
  BY DEF OwnTyped, InHand
<1>5. HolderTyped' /\ LinkTyped' /\ NoLoads(s2d)'
  <2>1. HolderTyped' /\ LinkTyped'
    BY <1>1, <1>3, InGameIs, LinkSame DEF HolderTyped
  <2>. QED  BY <1>1, <2>1, InGameIs DEF NoLoads
<1>6. slipped' \in BOOLEAN /\ (slipped => slipped')
      /\ (~slipped' => ~slipped /\ data.pu = own.was /\ holder.at # "grow")
  OBVIOUS
<1>7. HitInv'
  BY <1>1, <1>4 DEF Inv, HitInv, InHand
<1>8. PICK f \in Stored : Ends(f)
  BY DEF Inv, Order
<1>9. PICK r, g : r = f.row[data.pid] /\ g = f.grades[data.pid]
  OBVIOUS
<1>10. InStep(r, g) /\ r.stat \in 0 .. MaxStat
  BY <1>1, <1>8, <1>9, InGameIs, StoredIs DEF Ends
<1>11. /\ own.need = PaidPU(data.stat) - PaidPU(r.stat) /\ r.stat <= data.stat
       /\ PaidPU(data.stat) \in Int /\ PaidPU(r.stat) \in Int
  <2>1. own.need = PaidPU(data.stat) - PaidPU(r.stat) /\ r.stat <= data.stat
    BY <1>10 DEF InStep, SameStat
  <2>. QED  BY <1>1, <1>10, <2>1, InGameIs, DataIs, PaidTyped
<1>12. ~slipped' => data'.pu + PaidPU(data'.stat) <= EarnedPU(data'.level)
  <2>. SUFFICES ASSUME ~slipped' PROVE data'.pu + PaidPU(data'.stat) <= EarnedPU(data'.level)
    OBVIOUS
  <2>1. data.pu + PaidPU(r.stat) <= EarnedPU(data.level)
    BY <1>6, <1>10 DEF InStep, PayingStats
  <2>2. data'.pu = data.pu - own.need /\ data.pu \in Nat
    BY <1>2, <1>3, <1>6
  <2>3. data'.pu + PaidPU(data.stat) = data.pu + PaidPU(r.stat)
    BY <1>11, <2>2
  <2>. QED  BY <1>3, <2>1, <2>3
<1>13. Honest'
  BY <1>12 DEF Honest
<1>14. Order'
  <2>1. SameGrades(g)' /\ SameLevel(r)' /\ SameStat(r)'
    BY <1>1, <1>3, <1>4, <1>10 DEF InStep, SameGrades, SameLevel, SameStat, Granted
  <2>2. ~slipped' => PayingStats(r)' /\ PayingSkills(g)' /\ Holding(r, g)'
    BY <1>3, <1>4, <1>6, <1>10 DEF InStep, PayingStats, PayingSkills, Holding
  <2>3. InStep(r, g)'
    BY <2>1, <2>2 DEF InStep
  <2>4. InStep(f.row[data.pid], f.grades[data.pid])'
    BY <1>3, <1>9, <2>3
  <2>. QED  BY <1>1, <1>6, <1>8, <2>4, QuietOrder
<1>. QED  BY <1>1, <1>3, <1>4, <1>5, <1>6, <1>7, <1>13, <1>14, InGameIs, PlayKeeps

\* What the skill in hand costs.
LEMMA OneGrade ==
    ASSUME Inv, mode = "ingame", InHand, NEW g, SameGrades(g)
    PROVE  /\ own.skill \in Skills /\ skills[own.skill] \in 1 .. MaxGrade
           /\ g \in Learned /\ g[own.skill] = skills[own.skill] - 1
           /\ PaidSU(g) \in Int /\ PaidSU(skills) \in Int
           /\ PaidSU(skills) = PaidSU(g) + 1
           /\ skills = [g EXCEPT ![own.skill] = skills[own.skill]]
<1>. DEFINE s == own.skill
<1>1. s \in Skills /\ skills \in Learned /\ skills[s] \in 1 .. MaxGrade /\ skills[s] - 1 \in 0 .. MaxGrade
  <2>1. s \in Skills /\ skills \in Learned /\ skills[s] >= 1
    BY InGameIs DEF OwnTyped, InHand
  <2>2. skills[s] \in 0 .. MaxGrade
    BY <2>1, SkillsSmall
  <2>. QED  BY <2>1, <2>2, Limits
<1>2. g = [skills EXCEPT ![s] = skills[s] - 1]
  BY DEF SameGrades
<1>. HIDE DEF s
<1>3. /\ g \in Learned /\ g[s] = skills[s] - 1
      /\ \A x \in Skills : x # s => g[x] = skills[x]
  BY <1>1, <1>2 DEF Learned
<1>4. /\ PaidSU(g) \in Int /\ PaidSU(skills) \in Int
      /\ PaidSU(skills) = PaidSU(g) + skills[s] - g[s]
  BY <1>1, <1>3, PaidOther
<1>5. PaidSU(skills) = PaidSU(g) + 1
  BY <1>1, <1>3, <1>4
<1>6. skills = [g EXCEPT ![s] = skills[s]]
  <2>1. skills = [x \in Skills |-> skills[x]] /\ g = [x \in Skills |-> g[x]]
    BY <1>1, <1>3 DEF Learned
  <2>2. [g EXCEPT ![s] = skills[s]] = [x \in Skills |-> IF x = s THEN skills[s] ELSE g[x]]
    BY <2>1
  <2>3. [x \in Skills |-> IF x = s THEN skills[s] ELSE g[x]] = [x \in Skills |-> skills[x]]
    BY <1>3
  <2>. QED  BY <2>1, <2>2, <2>3
<1>. QED  BY <1>1, <1>3, <1>4, <1>5, <1>6 DEF s

LEMMA WriteSkillKeeps ==
    ASSUME Inv, own.at = "skill",
           data' = [data EXCEPT !.su = own.was - 1],
           own' = [at |-> "skillWritten", su |-> own.was - 1,
                   skill |-> own.skill, type |-> own.type],
           slipped' = (slipped \/ data.su # own.was \/ holder.at = "grow"),
           UNCHANGED <<mode, have, skills, hit, holder, s2d, d2s, left>>, UNCHANGED database
    PROVE  Inv'
<1>1. mode = "ingame" /\ InHand
  BY AtWork DEF InHand
<1>2. own.was \in Nat \ {0} /\ own.was - 1 \in Nat
  <2>1. own.was \in Nat \ {0}
    BY <1>1, InGameIs DEF OwnTyped
  <2>. QED  BY <2>1
<1>3. /\ data'.pid = data.pid /\ data'.level = data.level /\ data'.exp = data.exp
      /\ data'.pu = data.pu /\ data'.su = own.was - 1 /\ data'.stat = data.stat
      /\ data' \in InMemory
  BY <1>1, <1>2, InGameIs DEF InMemory
<1>4. /\ own'.at = "skillWritten" /\ own'.su = own.was - 1
      /\ own'.skill = own.skill /\ own'.type = own.type /\ InHand'
  BY DEF InHand
<1>5. OwnTyped'
  BY <1>1, <1>2, <1>4, InGameIs DEF OwnTyped
<1>6. HolderTyped' /\ LinkTyped' /\ NoLoads(s2d)'
  <2>1. HolderTyped' /\ LinkTyped'
    BY <1>1, <1>3, InGameIs, LinkSame DEF HolderTyped
  <2>. QED  BY <1>1, <2>1, InGameIs DEF NoLoads
<1>7. slipped' \in BOOLEAN /\ (slipped => slipped')
      /\ (~slipped' => ~slipped /\ data.su = own.was /\ holder.at # "grow")
  OBVIOUS
<1>8. HitInv'
  BY <1>1, <1>4 DEF Inv, HitInv, InHand
<1>9. Honest'
  BY <1>1, <1>3, <1>7, InGameIs DEF Honest
<1>10. Order'
  <2>1. PICK f \in Stored : Ends(f)
    BY DEF Inv, Order
  <2>2. PICK r, g : r = f.row[data.pid] /\ g = f.grades[data.pid]
    OBVIOUS
  <2>3. InStep(r, g)
    BY <1>1, <2>1, <2>2 DEF Ends
  <2>4. PaidSU(g) \in Int /\ PaidSU(skills) = PaidSU(g) + 1
    BY <1>1, <2>3, OneGrade DEF InStep
  <2>5. SameGrades(g)' /\ SameLevel(r)' /\ SameStat(r)'
    BY <1>1, <1>3, <1>4, <2>3 DEF InStep, SameGrades, SameLevel, SameStat, Granted
  <2>6. ~slipped' => PayingSkills(g)'
    <3>. SUFFICES ASSUME ~slipped' PROVE PayingSkills(g)'
      OBVIOUS
    <3>1. data.su + PaidSU(g) <= data.level - 1 /\ data.su = own.was
      BY <1>7, <2>3 DEF InStep, PayingSkills
    <3>2. (own.was - 1) + PaidSU(skills) <= data.level - 1
      BY <1>2, <2>4, <3>1
    <3>. QED  BY <1>3, <1>4, <3>2 DEF PayingSkills
  <2>7. ~slipped' => PayingStats(r)' /\ Holding(r, g)'
    BY <1>3, <1>4, <1>7, <2>3 DEF InStep, PayingStats, Holding
  <2>8. InStep(r, g)'
    BY <2>5, <2>6, <2>7 DEF InStep
  <2>9. InStep(f.row[data.pid], f.grades[data.pid])'
    BY <1>3, <2>2, <2>8
  <2>. QED  BY <1>1, <1>7, <2>1, <2>9, QuietOrder
<1>. QED  BY <1>1, <1>3, <1>5, <1>6, <1>7, <1>8, <1>9, <1>10, InGameIs, PlayKeeps

LEMMA WritePointsKeeps ==
    ASSUME Inv, WritePoints
    PROVE  Inv'
<1>1. CASE own.at = "stats"
  BY <1>1, WriteStatsKeeps DEF WritePoints
<1>2. CASE own.at = "skill"
  BY <1>2, WriteSkillKeeps DEF WritePoints
<1>. QED  BY <1>1, <1>2 DEF WritePoints

LEMMA SendStatsKeeps ==
    ASSUME Inv, SendStats
    PROVE  Inv'
<1>. DEFINE m == [type |-> "stats", pid |-> data.pid, stat |-> data.stat, pu |-> data.pu]
<1>1. /\ own.at = "statsWritten" /\ s2d' = Append(s2d, m) /\ own' = Idle
      /\ slipped' = (slipped \/ Overtakes("pu"))
      /\ UNCHANGED <<mode, have, data, skills, hit, holder, d2s, left>>
      /\ UNCHANGED database
  BY DEF SendStats
<1>2. mode = "ingame" /\ ~InHand
  BY <1>1, AtWork DEF InHand
<1>3. OwnTyped' /\ ~InHand' /\ own'.at = "idle"
  BY <1>1 DEF OwnTyped, InHand, Idle
<1>4. /\ data \in InMemory /\ data.pid \in Pids /\ data.stat \in 0 .. MaxStat /\ data.pu \in Nat
      /\ PaidPU(data.stat) \in Int
  BY <1>2, InGameIs, DataIs, PaidTyped
<1>5. /\ slipped' \in BOOLEAN /\ (slipped => slipped')
      /\ ~slipped' => /\ ~slipped /\ ~Granted
                      /\ holder.at = "save" => ~(holder.snap.pu > data.pu)
  <2>1. Overtakes("pu") <=> /\ holder.at = "save"
                            /\ holder.snap.pu > data.pu \/ holder.why = "level"
    BY DEF Overtakes
  <2>2. slipped \in BOOLEAN
    BY <1>2, InGameIs
  <2>3. Overtakes("pu") \in BOOLEAN
    BY DEF Overtakes
  <2>. QED  BY <1>1, <2>1, <2>2, <2>3 DEF Granted
<1>6. PICK f \in Stored : Ends(f)
  BY DEF Inv, Order
<1>7. PICK r, g : r = f.row[data.pid] /\ g = f.grades[data.pid]
  OBVIOUS
<1>8. InStep(r, g) /\ r \in Row /\ g = skills
  BY <1>2, <1>4, <1>6, <1>7, StoredIs DEF Ends, InStep, SameGrades
<1>9. PICK t : t = Applied(f, m)
  OBVIOUS
<1>10. /\ m \in Message /\ Sound(f, m) /\ t \in Stored /\ OthersSame(t, f, data.pid)
       /\ t.grades[data.pid] = g
       /\ t.row[data.pid] = [level |-> r.level, exp |-> r.exp, pu |-> data.pu,
                             su |-> r.su, stat |-> data.stat]
  BY <1>4, <1>6, <1>7, <1>9, StatsOn
<1>11. m.type = "stats"
  OBVIOUS
<1>. HIDE DEF m
<1>12. PICK q : q = t.row[data.pid]
  OBVIOUS
<1>13. q.level = r.level /\ q.pu = data.pu /\ q.su = r.su /\ q.stat = data.stat
  BY <1>10, <1>12
<1>14. LinkTyped' /\ NoLoads(s2d)'
  BY <1>1, <1>2, <1>10, <1>11, InGameIs, Sends
<1>15. HolderTyped'
  BY <1>1, <1>2, InGameIs DEF HolderTyped
<1>16. HitInv' /\ Honest'
  <2>1. HitInv'
    BY <1>1, <1>2, <1>3 DEF Inv, HitInv, InHand
  <2>. QED  BY <1>1, <1>2, <1>5, <2>1, InGameIs DEF Honest
<1>17. ~slipped' => FairRow(q, g)
  <2>. SUFFICES ASSUME ~slipped' PROVE FairRow(q, g)
    OBVIOUS
  <2>1. FairRow(r, g)
    BY <1>2, <1>4, <1>5, <1>6, <1>7, InGameIs, LeadsEnds DEF Ends, Fair
  <2>2. r.level = data.level
    BY <1>5, <1>8 DEF InStep, SameLevel
  <2>3. data.pu + PaidPU(data.stat) <= EarnedPU(data.level)
    BY <1>1, <1>2, <1>5, InGameIs
  <2>. QED  BY <1>13, <2>1, <2>2, <2>3 DEF FairRow
<1>18. InStep(q, g)'
  <2>1. SameGrades(g)' /\ SameLevel(q)' /\ SameStat(q)'
    BY <1>1, <1>2, <1>3, <1>4, <1>8, <1>13 DEF InStep, SameGrades, SameLevel, SameStat, Granted
  <2>2. ~slipped' => PayingStats(q)' /\ PayingSkills(g)'
    BY <1>1, <1>3, <1>5, <1>8 DEF InStep, PayingStats, PayingSkills
  <2>3. ASSUME ~slipped', holder.at = "save"
        PROVE  holder.snap.pu + PaidPU(q.stat) <= EarnedPU(data.level)
    <3>1. data.pu + PaidPU(data.stat) <= EarnedPU(data.level) /\ EarnedPU(data.level) \in Int
      <4>1. data.level \in 1 .. MaxLevel
        BY <1>2, InGameIs, DataIs
      <4>. QED  BY <1>1, <1>2, <1>5, <2>3, <4>1, InGameIs, EarnedMore
    <3>2. holder.snap.pu <= data.pu /\ holder.snap.pu \in Nat
      BY <1>2, <1>4, <1>5, <2>3, InGameIs DEF HolderTyped, Snap
    <3>. QED  BY <1>4, <1>13, <3>1, <3>2
  <2>4. ~slipped' => Holding(q, g)'
    BY <1>1, <1>5, <1>8, <2>3 DEF InStep, Holding
  <2>. QED  BY <2>1, <2>2, <2>4 DEF InStep
<1>19. Order'
  <2>1. InStep(t.row[data.pid], t.grades[data.pid])'
    BY <1>1, <1>10, <1>12, <1>18
  <2>. QED  BY <1>1, <1>2, <1>5, <1>6, <1>9, <1>10, <1>12, <1>17, <2>1, SendingOrder
<1>. QED  BY <1>1, <1>2, <1>3, <1>5, <1>14, <1>15, <1>16, <1>19, InGameIs, PlayKeeps

LEMMA Bonus ==
    ASSUME NEW s, NEW a, NEW b
    PROVE  /\ s = Mastery => OnApply(s, a, b) = Half(b) - Half(a)
           /\ s # Mastery => OnApply(s, a, b) = 0
BY DEF OnApply, Half

LEMMA SendSkillKeeps ==
    ASSUME Inv, SendSkill
    PROVE  Inv'
<1>. DEFINE s == own.skill
            m == [type |-> own.type, pid |-> data.pid, skill |-> s,
                  grade |-> skills[s], su |-> own.su]
            added == OnApply(s, IF own.type = "up" THEN skills[s] - 1 ELSE 0, skills[s])
<1>1. /\ own.at = "skillWritten" /\ s2d' = Append(s2d, m) /\ own' = Idle
      /\ hit' = hit + added /\ slipped' = (slipped \/ Overtakes("su"))
      /\ UNCHANGED <<mode, have, data, skills, holder, d2s, left>> /\ UNCHANGED database
  BY DEF SendSkill
<1>2. mode = "ingame" /\ InHand
  BY <1>1, AtWork DEF InHand
<1>3. OwnTyped' /\ ~InHand' /\ own'.at = "idle"
  BY <1>1 DEF OwnTyped, InHand, Idle
<1>4. /\ data \in InMemory /\ data.pid \in Pids /\ data.su \in Nat
      /\ data.level \in 1 .. MaxLevel /\ skills \in Learned /\ PaidSU(skills) \in Int
  BY <1>2, InGameIs, DataIs, PaidSUTyped
<1>5. s \in Skills /\ own.type \in {"up", "learn"} /\ own.su \in Nat
  BY <1>1, <1>2, InGameIs DEF OwnTyped
<1>6. /\ slipped' \in BOOLEAN /\ (slipped => slipped')
      /\ ~slipped' => /\ ~slipped /\ ~Granted
                      /\ holder.at = "save" => ~(holder.snap.su > data.su)
  <2>1. Overtakes("su") <=> /\ holder.at = "save"
                            /\ holder.snap.su > data.su \/ holder.why = "level"
    BY DEF Overtakes
  <2>2. slipped \in BOOLEAN /\ Overtakes("su") \in BOOLEAN
    BY <1>2, InGameIs DEF Overtakes
  <2>. QED  BY <1>1, <2>1, <2>2 DEF Granted
<1>7. PICK f \in Stored : Ends(f)
  BY DEF Inv, Order
<1>8. PICK r, g : r = f.row[data.pid] /\ g = f.grades[data.pid]
  OBVIOUS
<1>9. InStep(r, g) /\ r \in Row
  BY <1>2, <1>4, <1>7, <1>8, StoredIs DEF Ends
<1>10. /\ skills[s] \in 1 .. MaxGrade /\ g[s] = skills[s] - 1 /\ skills[s] \in Nat
       /\ skills = [g EXCEPT ![s] = skills[s]]
       /\ own.type = "learn" => skills[s] = 1
       /\ own.type = "up" => skills[s] >= 2
  <2>1. skills[s] \in 1 .. MaxGrade /\ g[s] = skills[s] - 1
        /\ skills = [g EXCEPT ![s] = skills[s]]
    BY <1>2, <1>9, OneGrade DEF InStep
  <2>2. (own.type = "learn" => skills[s] = 1) /\ (own.type = "up" => skills[s] >= 2)
    BY <1>2, <1>9 DEF InStep, SameGrades
  <2>. QED  BY <2>1, <2>2, Limits
<1>11. PICK t : t = Applied(f, m)
  OBVIOUS
<1>12. /\ m \in Message /\ Sound(f, m) /\ t \in Stored /\ OthersSame(t, f, data.pid)
       /\ t.grades[data.pid] = skills
       /\ t.row[data.pid] = [level |-> r.level, exp |-> r.exp, pu |-> r.pu,
                             su |-> own.su, stat |-> r.stat]
  <2>1. own.type = "learn" => skills[s] = 1 /\ f.grades[data.pid][s] = 0
    BY <1>8, <1>10
  <2>2. own.type = "up" => f.grades[data.pid][s] >= 1
    BY <1>8, <1>10
  <2>. HIDE DEF s
  <2>3. /\ m \in Message /\ Sound(f, m) /\ t \in Stored /\ OthersSame(t, f, data.pid)
        /\ t.grades[data.pid] = [g EXCEPT ![s] = skills[s]]
        /\ t.row[data.pid] = [level |-> r.level, exp |-> r.exp, pu |-> r.pu,
                              su |-> own.su, stat |-> r.stat]
    BY <1>4, <1>5, <1>7, <1>8, <1>10, <1>11, <2>1, <2>2, SkillOn
  <2>. QED  BY <1>10, <2>3
<1>13. m.type \in {"up", "learn"}
  BY <1>5
<1>14. HitInv' /\ hit' \in Nat
  <2>1. hit \in Nat /\ skills' = skills /\ Mastery \in Skills
    BY <1>1, <1>2, InGameIs, OwnSkills
  <2>2. CASE s = Mastery
    <3>1. added = Half(skills[s]) - Half(IF own.type = "up" THEN skills[s] - 1 ELSE 0)
      BY <2>2, Bonus
    <3>2. hit = IF own.type = "up" THEN Half(skills[Mastery] - 1) ELSE 0
      BY <1>2, <2>2 DEF Inv, HitInv, InHand
    <3>3. Half(0) = 0 /\ Half(skills[s]) \in Nat
      BY <1>10, Halves
    <3>. HIDE DEF added, s
    <3>4. hit' = Half(skills[Mastery])
      BY <1>1, <2>1, <2>2, <3>1, <3>2, <3>3
    <3>. QED  BY <1>3, <2>1, <2>2, <3>3, <3>4 DEF HitInv, InHand
  <2>3. CASE s # Mastery
    <3>1. added = 0
      BY <2>3, Bonus
    <3>2. hit = Half(skills[Mastery])
      BY <2>3 DEF Inv, HitInv
    <3>. HIDE DEF added, s
    <3>3. hit' = hit
      BY <1>1, <2>1, <3>1
    <3>. QED  BY <1>3, <2>1, <3>2, <3>3 DEF HitInv, InHand
  <2>. QED  BY <2>2, <2>3
<1>. HIDE DEF m, s, added
<1>15. PICK q : q = t.row[data.pid]
  OBVIOUS
<1>16. q.level = r.level /\ q.pu = r.pu /\ q.su = own.su /\ q.stat = r.stat
  BY <1>12, <1>15
<1>17. LinkTyped' /\ NoLoads(s2d)'
  BY <1>1, <1>2, <1>12, <1>13, InGameIs, Sends
<1>18. HolderTyped' /\ Honest'
  BY <1>1, <1>2, <1>6, InGameIs DEF HolderTyped, Honest
<1>19. ~slipped' => FairRow(q, skills)
  <2>. SUFFICES ASSUME ~slipped' PROVE FairRow(q, skills)
    OBVIOUS
  <2>1. FairRow(r, g)
    BY <1>2, <1>4, <1>6, <1>7, <1>8, InGameIs, LeadsEnds DEF Ends, Fair
  <2>2. r.level = data.level
    BY <1>6, <1>9 DEF InStep, SameLevel
  <2>3. own.su + PaidSU(skills) <= data.level - 1
    BY <1>1, <1>6, <1>9 DEF InStep, PayingSkills
  <2>. QED  BY <1>16, <2>1, <2>2, <2>3 DEF FairRow
<1>20. InStep(q, skills)'
  <2>1. SameGrades(skills)' /\ SameLevel(q)' /\ SameStat(q)'
    BY <1>1, <1>3, <1>9, <1>16 DEF InStep, SameGrades, SameLevel, SameStat, Granted
  <2>2. ~slipped' => data.su + PaidSU(skills) <= data.level - 1
    BY <1>1, <1>6, <1>9 DEF InStep, PayingSkills
  <2>3. ~slipped' => PayingStats(q)' /\ PayingSkills(skills)'
    BY <1>1, <1>3, <2>2 DEF PayingStats, PayingSkills
  <2>4. ASSUME ~slipped', holder.at = "save"
        PROVE  holder.snap.su + PaidSU(skills) <= data.level - 1
    <3>1. holder.snap.su <= data.su /\ holder.snap.su \in Nat
      BY <1>2, <1>4, <1>6, <2>4, InGameIs DEF HolderTyped, Snap
    <3>. QED  BY <1>4, <2>2, <2>4, <3>1
  <2>5. ~slipped' => Holding(q, skills)'
    BY <1>1, <1>6, <1>9, <1>16, <2>4 DEF InStep, Holding
  <2>. QED  BY <2>1, <2>3, <2>5 DEF InStep
<1>21. Order'
  <2>1. InStep(t.row[data.pid], t.grades[data.pid])'
    BY <1>1, <1>12, <1>15, <1>20
  <2>. QED  BY <1>1, <1>2, <1>6, <1>7, <1>11, <1>12, <1>15, <1>19, <2>1, SendingOrder
<1>. QED  BY <1>1, <1>2, <1>3, <1>4, <1>6, <1>14, <1>17, <1>18, <1>21, InGameIs, PlayKeeps

-----------------------------------------------------------------------------
(* Under the player's mutex.                                                *)

\* Only the experience changes.
LEMMA ExpOnly ==
    ASSUME Inv, mode = "ingame", NEW x \in Nat, data' = [data EXCEPT !.exp = x]
    PROVE  /\ data'.pid = data.pid /\ data'.level = data.level /\ data'.exp = x
           /\ data'.pu = data.pu /\ data'.su = data.su /\ data'.stat = data.stat
           /\ data' \in InMemory
BY InGameIs DEF InMemory

LEMMA OwnSame ==
    ASSUME OwnTyped, UNCHANGED <<own, skills>>
    PROVE  OwnTyped'
BY DEF OwnTyped

LEMMA HitSame ==
    ASSUME HitInv, UNCHANGED <<own, skills, hit>>
    PROVE  HitInv'
BY DEF HitInv

\* A step under the mutex that sends nothing and leaves level and points alone.
LEMMA HoldingKeeps ==
    ASSUME Inv, mode = "ingame",
           UNCHANGED <<mode, have, skills, hit, own, s2d, d2s, slipped, left>>,
           UNCHANGED database,
           NEW x \in Nat, data' = [data EXCEPT !.exp = x],
           holder.at = "free",
           \/ holder' = Free
           \/ holder' = Grow /\ data.level < MaxLevel
    PROVE  Inv'
<1>1. /\ data'.pid = data.pid /\ data'.level = data.level
      /\ data'.pu = data.pu /\ data'.su = data.su /\ data'.stat = data.stat
      /\ data' \in InMemory
  BY ExpOnly
<1>2. /\ holder'.at \in {"free", "grow"}
      /\ holder'.at = "free" => holder' = Free
      /\ holder'.at = "grow" => /\ holder'.pu = data.pu /\ holder'.su = data.su
                                /\ data.level < MaxLevel
  BY DEF Free, Grow
<1>3. HolderTyped'
  BY <1>1, <1>2, InGameIs, DataIs DEF HolderTyped
<1>4. OwnTyped' /\ LinkTyped' /\ NoLoads(s2d)'
  <2>1. OwnTyped' /\ LinkTyped'
    BY InGameIs, LinkSame, OwnSame
  <2>. QED  BY <2>1, InGameIs DEF NoLoads
<1>5. HitInv' /\ Honest'
  BY <1>1, HitSame DEF Inv, Honest
<1>6. Order'
  <2>1. PICK f \in Stored : Ends(f)
    BY DEF Inv, Order
  <2>2. PICK r, g : r = f.row[data.pid] /\ g = f.grades[data.pid]
    OBVIOUS
  <2>3. InStep(r, g)
    BY <2>1, <2>2 DEF Ends
  <2>4. SameGrades(g)' /\ SameStat(r)' /\ SameLevel(r)'
    BY <1>1, <1>2, <2>3 DEF InStep, SameGrades, SameStat, SameLevel, InHand, Granted
  <2>5. ~slipped => PayingStats(r)' /\ PayingSkills(g)' /\ Holding(r, g)'
    BY <1>1, <1>2, <2>3 DEF InStep, PayingStats, PayingSkills, Holding
  <2>6. InStep(r, g)'
    BY <2>4, <2>5 DEF InStep
  <2>7. InStep(f.row[data.pid], f.grades[data.pid])'
    BY <1>1, <2>2, <2>6
  <2>. QED  BY <2>1, <2>7, QuietOrder
<1>. QED  BY <1>1, <1>3, <1>4, <1>5, <1>6, InGameIs, PlayKeeps

\* What the next level asks for.
LEMMA Needed ==
    ASSUME Inv, mode = "ingame", NEW x \in Nat, Rises(x)
    PROVE  data.level < MaxLevel /\ x - NeedExp[data.level] \in Nat
<1>1. data.level \in 0 .. MaxLevel - 1
  BY InGameIs, DataIs, Limits DEF Rises
<1>. QED  BY <1>1, Tables DEF Rises

LEMMA UpdateExpKeeps ==
    ASSUME Inv, NEW amount \in Amounts, UpdateExp(amount)
    PROVE  Inv'
<1>. DEFINE x == data.exp + amount
<1>1. /\ mode = "ingame" /\ holder = Free /\ holder.at = "free"
      /\ UNCHANGED <<mode, have, skills, hit, own, s2d, d2s, slipped, left>>
      /\ UNCHANGED database
  BY DEF UpdateExp, history, Free
<1>2. x \in Nat
  BY <1>1, InGameIs, DataIs, Experience
<1>. HIDE DEF x
<1>3. CASE Rises(x)
  <2>1. data' = [data EXCEPT !.exp = x - NeedExp[data.level]] /\ holder' = Grow
    BY <1>3 DEF UpdateExp, history, x
  <2>2. data.level < MaxLevel /\ x - NeedExp[data.level] \in Nat
    BY <1>1, <1>2, <1>3, Needed
  <2>. QED  BY <1>1, <2>1, <2>2, HoldingKeeps
<1>4. CASE ~Rises(x)
  <2>1. data' = [data EXCEPT !.exp = x] /\ holder' = holder
    BY <1>4 DEF UpdateExp, history, x
  <2>. QED  BY <1>1, <1>2, <2>1, HoldingKeeps
<1>. QED  BY <1>3, <1>4

LEMMA LoseExpKeeps ==
    ASSUME Inv, NEW amount \in Losses, LoseExp(amount)
    PROVE  Inv'
<1>. DEFINE x == IF amount > data.exp THEN 0 ELSE data.exp - amount
<1>1. /\ mode = "ingame" /\ holder = Free /\ holder.at = "free" /\ holder' = holder
      /\ data' = [data EXCEPT !.exp = x]
      /\ UNCHANGED <<mode, have, skills, hit, own, s2d, d2s, slipped, left>>
      /\ UNCHANGED database
  BY DEF LoseExp, history, Free
<1>2. x \in Nat
  BY <1>1, InGameIs, DataIs, Experience
<1>. HIDE DEF x
<1>. QED  BY <1>1, <1>2, HoldingKeeps

\* What a snapshot of the player may say.
LEMMA Affordable ==
    ASSUME Inv, mode = "ingame", ~slipped, NEW r \in Row, NEW g \in Learned, InStep(r, g)
    PROVE  /\ data.pu + PaidPU(r.stat) <= EarnedPU(data.level)
           /\ data.su + PaidSU(g) <= data.level - 1
<1>1. /\ data.pu \in Nat /\ data.su \in Nat /\ data.level \in 1 .. MaxLevel
      /\ data.stat \in 0 .. MaxStat /\ r.stat \in 0 .. MaxStat
  BY InGameIs, DataIs DEF Row
<1>2. data.pu + PaidPU(r.stat) <= EarnedPU(data.level)
  <2>1. CASE own.at = "stats"
    BY <2>1 DEF InStep, PayingStats
  <2>2. CASE own.at # "stats"
    <3>1. data.pu + PaidPU(data.stat) <= EarnedPU(data.level)
      BY <2>2, InGameIs
    <3>2. r.stat <= data.stat
      BY DEF InStep, SameStat
    <3>3. PaidPU(r.stat) \in Int /\ PaidPU(data.stat) \in Int
          /\ PaidPU(r.stat) <= PaidPU(data.stat)
      BY <1>1, <3>2, PaidMore
    <3>4. EarnedPU(data.level) \in Int
      BY <1>1, EarnedMore
    <3>. QED  BY <1>1, <3>1, <3>3, <3>4
  <2>. QED  BY <2>1, <2>2
<1>3. data.su + PaidSU(g) <= data.level - 1
  <2>1. CASE own.at = "skill"
    BY <2>1 DEF InStep, PayingSkills
  <2>2. CASE own.at # "skill"
    <3>1. data.su + PaidSU(skills) <= data.level - 1
      BY <2>2 DEF InStep, PayingSkills
    <3>2. CASE InHand
      <4>1. PaidSU(g) \in Int /\ PaidSU(skills) \in Int /\ PaidSU(skills) = PaidSU(g) + 1
        BY <3>2, OneGrade DEF InStep
      <4>. QED  BY <1>1, <3>1, <4>1
    <3>3. CASE ~InHand
      BY <3>1, <3>3 DEF InStep, SameGrades
    <3>. QED  BY <3>2, <3>3
  <2>. QED  BY <2>1, <2>2
<1>. QED  BY <1>2, <1>3

\* A snapshot is taken: of the player as he is, or of the level he has reached.
LEMMA SnapshotIs ==
    ASSUME NEW d \in InMemory, NEW why
    PROVE  /\ Save(d, why).at = "save" /\ Save(d, why).why = why
           /\ Save(d, why).snap \in Snap
           /\ Save(d, why).snap.pid = d.pid /\ Save(d, why).snap.level = d.level
           /\ Save(d, why).snap.pu = d.pu /\ Save(d, why).snap.su = d.su
BY DataIs DEF Save, Snap

LEMMA TickKeeps ==
    ASSUME Inv, Tick
    PROVE  Inv'
<1>1. /\ mode = "ingame" /\ holder = Free /\ holder' = Save(data, "tick")
      /\ UNCHANGED <<mode, have, data, skills, hit, own, s2d, d2s, slipped, left>>
      /\ UNCHANGED database
  BY DEF Tick, history
<1>2. holder.at = "free"
  BY <1>1 DEF Free
<1>3. data \in InMemory /\ data.level >= 1 /\ data.pid \in Pids
  BY <1>1, InGameIs
<1>4. /\ holder'.at = "save" /\ holder'.why = "tick" /\ holder'.snap \in Snap
      /\ holder'.snap.pid = data.pid /\ holder'.snap.level = data.level
      /\ holder'.snap.pu = data.pu /\ holder'.snap.su = data.su
  BY <1>1, <1>3, SnapshotIs
<1>5. HolderTyped'
  BY <1>3, <1>4 DEF HolderTyped, Grown
<1>6. OwnTyped' /\ LinkTyped' /\ NoLoads(s2d)'
  <2>1. OwnTyped' /\ LinkTyped'
    BY <1>1, InGameIs, LinkSame, OwnSame
  <2>. QED  BY <1>1, <2>1, InGameIs DEF NoLoads
<1>7. HitInv' /\ Honest'
  BY <1>1, HitSame DEF Inv, Honest
<1>8. Order'
  <2>1. PICK f \in Stored : Ends(f)
    BY DEF Inv, Order
  <2>2. PICK r, g : r = f.row[data.pid] /\ g = f.grades[data.pid]
    OBVIOUS
  <2>3. InStep(r, g) /\ r \in Row /\ g \in Learned
    BY <1>1, <1>3, <2>1, <2>2, StoredIs DEF Ends
  <2>4. SameGrades(g)' /\ SameStat(r)' /\ SameLevel(r)'
    BY <1>1, <1>2, <1>4, <2>3 DEF InStep, SameGrades, SameStat, SameLevel, InHand, Granted
  <2>5. ~slipped => /\ data.pu + PaidPU(r.stat) <= EarnedPU(data.level)
                    /\ data.su + PaidSU(g) <= data.level - 1
    BY <1>1, <2>3, Affordable
  <2>6. ~slipped => PayingStats(r)' /\ PayingSkills(g)' /\ Holding(r, g)'
    BY <1>1, <1>4, <2>3, <2>5 DEF InStep, PayingStats, PayingSkills, Holding
  <2>7. InStep(r, g)'
    BY <1>1, <2>4, <2>6 DEF InStep
  <2>8. InStep(f.row[data.pid], f.grades[data.pid])'
    BY <1>1, <2>2, <2>7
  <2>. QED  BY <1>1, <2>1, <2>8, QuietOrder
<1>. QED  BY <1>1, <1>3, <1>5, <1>6, <1>7, <1>8, InGameIs, PlayKeeps

LEMMA LevelUpKeeps ==
    ASSUME Inv, LevelUp
    PROVE  Inv'
<1>. DEFINE points == holder.pu + LevelPU[data.level + 1]
            grown == [data EXCEPT !.level = data.level + 1, !.su = holder.su + 1, !.pu = points]
<1>1. /\ holder.at = "grow" /\ data' = grown /\ holder' = Save(grown, "level")
      /\ UNCHANGED <<mode, have, skills, hit, own, s2d, d2s, slipped, left>>
      /\ UNCHANGED database
  BY DEF LevelUp, history
<1>2. mode = "ingame"
  BY <1>1, AtWork
<1>3. /\ holder.pu \in Nat /\ holder.su \in Nat /\ data \in InMemory /\ data.pid \in Pids
      /\ data.level \in 1 .. MaxLevel /\ data.level + 1 \in 1 .. MaxLevel
      /\ data.level \in Nat /\ data.pu \in Nat /\ data.su \in Nat
  BY <1>1, <1>2, InGameIs, DataIs, Limits DEF HolderTyped
<1>4. LevelPU[data.level + 1] \in Nat /\ points \in Nat
  BY <1>3, Tables, Limits
<1>5. /\ EarnedPU(data.level) \in Int
      /\ EarnedPU(data.level + 1) = EarnedPU(data.level) + LevelPU[data.level + 1]
  BY <1>3, EarnedMore
<1>6. /\ data'.pid = data.pid /\ data'.level = data.level + 1 /\ data'.exp = data.exp
      /\ data'.pu = points /\ data'.su = holder.su + 1 /\ data'.stat = data.stat
      /\ data' \in InMemory
  <2>1. holder.su + 1 \in Nat /\ data.level + 1 \in 0 .. MaxLevel
    BY <1>3
  <2>. HIDE DEF points
  <2>2. grown \in InMemory
    BY <1>3, <1>4, <2>1 DEF InMemory
  <2>3. /\ grown.pid = data.pid /\ grown.level = data.level + 1 /\ grown.exp = data.exp
        /\ grown.pu = points /\ grown.su = holder.su + 1 /\ grown.stat = data.stat
    BY <1>3 DEF InMemory
  <2>. QED  BY <1>1, <2>2, <2>3
<1>7. /\ holder'.at = "save" /\ holder'.why = "level" /\ holder'.snap \in Snap
      /\ holder'.snap.pid = data.pid /\ holder'.snap.level = data'.level
      /\ holder'.snap.pu = data'.pu /\ holder'.snap.su = data'.su
  <2>. HIDE DEF grown
  <2>. QED  BY <1>1, <1>6, SnapshotIs
<1>. HIDE DEF points, grown
<1>8. HolderTyped'
  BY <1>3, <1>6, <1>7 DEF HolderTyped, Grown
<1>9. OwnTyped' /\ LinkTyped' /\ NoLoads(s2d)'
  <2>1. OwnTyped' /\ LinkTyped'
    BY <1>1, <1>2, InGameIs, LinkSame, OwnSame
  <2>. QED  BY <1>1, <1>2, <2>1, InGameIs DEF NoLoads
<1>10. PICK f \in Stored : Ends(f)
  BY DEF Inv, Order
<1>11. PICK r, g : r = f.row[data.pid] /\ g = f.grades[data.pid]
  OBVIOUS
<1>12. /\ InStep(r, g) /\ r \in Row /\ g \in Learned
       /\ PaidPU(r.stat) \in Int /\ PaidPU(data.stat) \in Int
       /\ PaidSU(g) \in Int /\ PaidSU(skills) \in Int
  <2>1. InStep(r, g) /\ r \in Row /\ g \in Learned /\ r.stat \in 0 .. MaxStat
    BY <1>2, <1>3, <1>10, <1>11, StoredIs DEF Ends
  <2>. QED  BY <1>2, <2>1, InGameIs, DataIs, PaidTyped, PaidSUTyped
<1>13. ~slipped => /\ data'.pu = data.pu + LevelPU[data.level + 1]
                   /\ data'.su = data.su + 1
  BY <1>1, <1>6, <1>12 DEF InStep, Holding, points
<1>14. HitInv' /\ Honest'
  <2>1. HitInv'
    BY <1>1, HitSame DEF Inv
  <2>2. ASSUME ~slipped, own.at # "stats"
        PROVE  data'.pu + PaidPU(data.stat) <= EarnedPU(data.level + 1)
    <3>1. data.pu + PaidPU(data.stat) <= EarnedPU(data.level)
      BY <1>2, <2>2, InGameIs
    <3>. QED  BY <1>3, <1>4, <1>5, <1>12, <1>13, <2>2, <3>1
  <2>. QED  BY <1>1, <1>6, <2>1, <2>2 DEF Honest
<1>15. ASSUME ~slipped
       PROVE  /\ data'.pu + PaidPU(r.stat) <= EarnedPU(data.level + 1)
              /\ data'.su + PaidSU(g) <= (data.level + 1) - 1
  <2>1. /\ data.pu + PaidPU(r.stat) <= EarnedPU(data.level)
        /\ data.su + PaidSU(g) <= data.level - 1
    BY <1>2, <1>12, <1>15, Affordable
  <2>. QED  BY <1>3, <1>4, <1>5, <1>12, <1>13, <1>15, <2>1
<1>16. ~slipped => PayingSkills(g)'
  <2>1. ASSUME ~slipped, own.at # "skill"
        PROVE  data'.su + PaidSU(skills) <= (data.level + 1) - 1
    <3>1. data.su + PaidSU(skills) <= data.level - 1
      BY <1>12, <2>1 DEF InStep, PayingSkills
    <3>. QED  BY <1>3, <1>12, <1>13, <2>1, <3>1
  <2>2. ASSUME ~slipped, own.at = "skillWritten"
        PROVE  own.su + PaidSU(skills) <= (data.level + 1) - 1
    <3>1. own.su + PaidSU(skills) <= data.level - 1 /\ own.su \in Nat
      BY <1>2, <1>12, <2>2, InGameIs DEF InStep, PayingSkills, OwnTyped
    <3>. QED  BY <1>3, <1>12, <3>1
  <2>. QED  BY <1>1, <1>6, <1>15, <2>1, <2>2 DEF PayingSkills
<1>17. InStep(r, g)'
  <2>1. SameGrades(g)' /\ SameStat(r)' /\ SameLevel(r)'
    BY <1>1, <1>6, <1>7, <1>12 DEF InStep, SameGrades, SameStat, SameLevel, InHand, Granted
  <2>2. ~slipped => PayingStats(r)' /\ Holding(r, g)'
    BY <1>1, <1>6, <1>7, <1>15 DEF PayingStats, Holding
  <2>. QED  BY <1>1, <1>16, <2>1, <2>2 DEF InStep
<1>18. Order'
  <2>1. InStep(f.row[data.pid], f.grades[data.pid])'
    BY <1>6, <1>11, <1>17
  <2>. QED  BY <1>1, <1>2, <1>10, <2>1, QuietOrder
<1>. QED  BY <1>1, <1>2, <1>3, <1>6, <1>8, <1>9, <1>14, <1>18, InGameIs, PlayKeeps

LEMMA SendSnapshotKeeps ==
    ASSUME Inv, SendSnapshot
    PROVE  Inv'
<1>. DEFINE m == [type |-> "save", snap |-> holder.snap]
            exp == IF holder.why = "level" /\ data.level >= MaxLevel THEN 0 ELSE data.exp
            again == holder.why = "level" /\ Rises(exp)
            x == IF again THEN exp - NeedExp[data.level] ELSE exp
<1>1. /\ holder.at = "save" /\ s2d' = Append(s2d, m)
      /\ data' = [data EXCEPT !.exp = x] /\ holder' = IF again THEN Grow ELSE Free
      /\ UNCHANGED <<mode, have, skills, hit, own, d2s, slipped, left>>
      /\ UNCHANGED database
  BY DEF SendSnapshot, history
<1>2. mode = "ingame"
  BY <1>1, AtWork
<1>3. /\ holder.snap \in Snap /\ Grown(holder.snap)
      /\ data.pid \in Pids /\ data.level \in 1 .. MaxLevel /\ data.exp \in Nat
  BY <1>1, <1>2, InGameIs, DataIs DEF HolderTyped
<1>4. x \in Nat /\ (again => data.level < MaxLevel)
  <2>1. exp \in Nat
    BY <1>3
  <2>. HIDE DEF exp
  <2>2. again => data.level < MaxLevel /\ exp - NeedExp[data.level] \in Nat
    BY <1>2, <2>1, Needed
  <2>. QED  BY <2>1, <2>2
<1>5. /\ m \in Message /\ m.type = "save" /\ m.snap = holder.snap
  BY <1>3, Messages
<1>6. /\ holder'.at \in {"free", "grow"}
      /\ holder'.at = "free" => holder' = Free
      /\ holder'.at = "grow" => /\ holder'.pu = data.pu /\ holder'.su = data.su
                                /\ data.level < MaxLevel
  BY <1>1, <1>4 DEF Free, Grow
<1>. HIDE DEF m, exp, again, x
<1>7. /\ data'.pid = data.pid /\ data'.level = data.level
      /\ data'.pu = data.pu /\ data'.su = data.su /\ data'.stat = data.stat
      /\ data' \in InMemory
  BY <1>1, <1>2, <1>4, ExpOnly
<1>8. HolderTyped'
  BY <1>2, <1>6, <1>7, InGameIs, DataIs DEF HolderTyped
<1>9. LinkTyped' /\ NoLoads(s2d)'
  BY <1>1, <1>2, <1>3, <1>5, InGameIs, Sends
<1>10. OwnTyped' /\ HitInv' /\ Honest'
  BY <1>1, <1>2, <1>7, InGameIs, OwnSame, HitSame DEF Inv, Honest
<1>11. PICK f \in Stored : Ends(f)
  BY DEF Inv, Order
<1>12. PICK r, g : r = f.row[data.pid] /\ g = f.grades[data.pid]
  OBVIOUS
<1>13. InStep(r, g)
  BY <1>2, <1>11, <1>12 DEF Ends
<1>14. holder.snap.pid = data.pid /\ holder.snap.level = data.level
  BY <1>1, <1>13 DEF InStep, SameLevel
<1>15. PICK t : t = Applied(f, m)
  OBVIOUS
<1>16. /\ Sound(f, m) /\ t \in Stored /\ OthersSame(t, f, data.pid)
       /\ t.grades[data.pid] = g
       /\ t.row[data.pid] = [level |-> holder.snap.level, exp |-> holder.snap.exp,
                             pu |-> holder.snap.pu, su |-> holder.snap.su, stat |-> r.stat]
  BY <1>3, <1>11, <1>12, <1>14, <1>15, SaveOn DEF m
<1>17. PICK q : q = t.row[data.pid]
  OBVIOUS
<1>18. /\ q.level = data.level /\ q.pu = holder.snap.pu /\ q.su = holder.snap.su
       /\ q.stat = r.stat
  BY <1>14, <1>16, <1>17
<1>19. ~slipped => FairRow(q, g)
  BY <1>1, <1>13, <1>18 DEF InStep, Holding, FairRow
<1>20. InStep(q, g)'
  <2>1. SameGrades(g)' /\ SameStat(q)' /\ SameLevel(q)'
    BY <1>1, <1>6, <1>7, <1>13, <1>18 DEF InStep, SameGrades, SameStat, SameLevel, InHand, Granted
  <2>2. ~slipped => PayingStats(q)' /\ PayingSkills(g)' /\ Holding(q, g)'
    BY <1>1, <1>6, <1>7, <1>13, <1>18 DEF InStep, PayingStats, PayingSkills, Holding
  <2>. QED  BY <1>1, <2>1, <2>2 DEF InStep
<1>21. Order'
  <2>1. InStep(t.row[data.pid], t.grades[data.pid])'
    BY <1>7, <1>16, <1>17, <1>20
  <2>. QED  BY <1>1, <1>2, <1>5, <1>11, <1>15, <1>16, <1>17, <1>19, <2>1, SendingOrder
<1>. QED  BY <1>1, <1>2, <1>7, <1>8, <1>9, <1>10, <1>21, InGameIs, PlayKeeps

-----------------------------------------------------------------------------
(* Failures.                                                                *)

\* The packets that have arrived, without the request that nobody waits for.
LEMMA Arrived ==
    ASSUME NEW q \in Seq(Message), NoLoads(q) \/ \E p \in Known : LoadLast(q, p),
           NEW n \in 0 .. Len(q), NEW t, NEW f, NEW slip, Leads(q, t, f, slip)
    PROVE  LET r == WithoutLoads(SubSeq(q, 1, n))
           IN  /\ r \in Seq(Message) /\ NoLoads(r) /\ From(r, q)
               /\ \E g \in Stored : Leads(r, t, g, slip)
<1>. DEFINE s == SubSeq(q, 1, n)
            r == WithoutLoads(s)
<1>1. /\ Len(q) \in Nat /\ DOMAIN q = 1 .. Len(q) /\ n \in Nat
      /\ \A i \in 1 .. Len(q) : q[i] \in Message
  BY LenProperties, ElementOfSeq
<1>2. s \in Seq(Message) /\ Len(s) = n /\ \A i \in 1 .. n : s[i] = q[i]
  <2>1. /\ s \in Seq(Message) /\ Len(s) = IF 1 <= n THEN n - 1 + 1 ELSE 0
        /\ \A i \in 1 .. n - 1 + 1 : s[i] = q[1 + i - 1]
    BY <1>1, SubSeqProperties
  <2>. HIDE DEF s
  <2>. QED  BY <1>1, <2>1
<1>3. DOMAIN s = 1 .. n
  BY <1>2, LenProperties
<1>. HIDE DEF s
<1>4. PICK g \in Stored : Leads(s, t, g, slip)
  BY <1>2, LeadsPart
<1>5. CASE NoLoads(s)
  <2>1. r = s
    BY <1>2, <1>5, NoLoadsIs
  <2>2. From(s, q)
    BY <1>1, <1>2, <1>3 DEF From
  <2>. QED  BY <1>2, <1>4, <1>5, <2>1, <2>2 DEF s
<1>6. CASE ~NoLoads(s)
  <2>1. ~NoLoads(q)
    BY <1>1, <1>2, <1>3, <1>6 DEF NoLoads
  <2>2. PICK p \in Known : LoadLast(q, p)
    BY <2>1
  <2>3. s = q
    <3>1. PICK i \in 1 .. n : s[i].type = "load"
      BY <1>3, <1>6 DEF NoLoads
    <3>2. i \in 1 .. Len(q) /\ q[i].type = "load"
      BY <1>1, <1>2, <3>1
    <3>3. i = Len(q)
      BY <1>1, <2>2, <3>2 DEF LoadLast
    <3>4. n = Len(q)
      <4>1. n \in Nat /\ Len(q) \in Nat /\ n <= Len(q)
        BY <1>1
      <4>2. i \in Nat /\ i <= n
        BY <3>1, <4>1
      <4>. QED  BY <3>3, <4>1, <4>2
    <3>. QED  BY <1>2, <3>4, SeqEqual
  <2>. QED  BY <2>2, <2>3, <1>4, LoadLastIs DEF s
<1>. QED  BY <1>5, <1>6

\* The game server starts again; whatever the tables hold is fair.
LEMMA StopKeeps ==
    ASSUME Inv, mode' = "away", have' = "none", data' = NoPlayer, skills' = NoSkills, hit' = 0,
           own' = Idle, holder' = Free, d2s' = <<>>,
           s2d' \in Seq(Message), NoLoads(s2d'), From(s2d', s2d),
           left' = [p \in Pids |-> NoOne], slipped' \in BOOLEAN,
           TablesTyped', RowsInv',
           NEW g \in Stored, Leads(s2d', Current', g, slipped')
    PROVE  Inv'
<1>1. Out'
  BY DEF Out
<1>2. OwnTyped' /\ HolderTyped' /\ ~InHand'
  BY <1>1, OutTyped, PTL
<1>3. TypesInv'
  <2>1. MemoryTyped'
    BY Nobody DEF MemoryTyped
  <2>2. \A i \in DOMAIN s2d' : s2d'[i].type = "save" => Grown(s2d'[i].snap)
    BY DEF Inv, TypesInv, LinkTyped, From
  <2>3. LinkTyped'
    BY <2>2, EmptySeq DEF LinkTyped
  <2>. QED  BY <1>2, <2>1, <2>3 DEF TypesInv
<1>4. HitInv'
  BY <1>2, Nobody, Halves DEF HitInv, InHand
<1>5. Phases'
  BY <1>1, Nobody, NoPlayerIsNoOne DEF Phases
<1>6. Honest'
  BY Nobody DEF Honest
<1>7. Order'
  <2>1. Settled(g)'
    BY DEF Settled
  <2>. QED  BY <2>1 DEF Order, Ends
<1>. QED  BY <1>3, <1>4, <1>5, <1>6, <1>7 DEF Inv

LEMMA GameServerStopsKeeps ==
    ASSUME Inv, GameServerStops
    PROVE  Inv'
<1>1. /\ mode' = "away" /\ have' = "none" /\ data' = NoPlayer /\ skills' = NoSkills /\ hit' = 0
      /\ own' = Idle /\ holder' = Free /\ d2s' = <<>> /\ left' = [p \in Pids |-> NoOne]
      /\ slipped' = slipped /\ UNCHANGED database
  BY DEF GameServerStops
<1>2. PICK n \in 0 .. Len(s2d) : s2d' = WithoutLoads(SubSeq(s2d, 1, n))
  BY DEF GameServerStops
<1>3. TypesInv /\ RowsInv /\ Phases /\ Order
  BY DEF Inv
<1>4. s2d \in Seq(Message) /\ slipped \in BOOLEAN
  BY <1>3 DEF TypesInv, LinkTyped
<1>5. TablesTyped' /\ RowsInv' /\ Current' = Current
  BY <1>1, <1>3, TablesSame DEF TypesInv
<1>6. NoLoads(s2d) \/ \E p \in Known : LoadLast(s2d, p)
  <2>1. CASE s2d = <<>>
    BY <2>1, EmptySeq DEF NoLoads
  <2>2. CASE s2d # <<>>
    BY <1>3, <2>2 DEF Phases, Asked, Refused, Answered, HalfLoaded, Loaded, Known
  <2>. QED  BY <2>1, <2>2
<1>7. PICK f \in Stored : Leads(s2d, Current, f, slipped)
  BY <1>3 DEF Order, Ends
<1>8. /\ s2d' \in Seq(Message) /\ NoLoads(s2d') /\ From(s2d', s2d)
      /\ \E g \in Stored : Leads(s2d', Current, g, slipped)
  BY <1>2, <1>4, <1>6, <1>7, Arrived
<1>9. PICK g \in Stored : Leads(s2d', Current', g, slipped')
  BY <1>1, <1>5, <1>8
<1>. QED  BY <1>1, <1>4, <1>5, <1>8, <1>9, StopKeeps

LEMMA DatabaseServerStopsKeeps ==
    ASSUME Inv, DatabaseServerStops
    PROVE  Inv'
<1>1. /\ mode' = "away" /\ have' = "none" /\ data' = NoPlayer /\ skills' = NoSkills /\ hit' = 0
      /\ own' = Idle /\ holder' = Free /\ d2s' = <<>> /\ left' = [p \in Pids |-> NoOne]
      /\ s2d' = <<>> /\ dbpc' = Idle /\ slipped' = TRUE /\ UNCHANGED <<row, rows>>
  BY DEF DatabaseServerStops
<1>2. /\ row \in [Pids -> Row] /\ rows \in [Pids -> Seq(SkillRow)]
      /\ \A p \in Pids : UniqueSkills(rows[p])
  BY DEF Inv, TypesInv, TablesTyped, RowsInv
<1>3. TablesTyped' /\ RowsInv'
  BY <1>1, <1>2 DEF TablesTyped, RowsInv, Idle
<1>4. Current' = [row |-> [p \in Pids |-> row[p]], grades |-> [p \in Pids |-> Grades(rows[p])]]
  BY <1>1 DEF Current, Idle
<1>5. Current' \in Stored
  <2>1. \A p \in Pids : row[p] \in Row /\ Grades(rows[p]) \in Learned
    BY <1>2, GradesTyped
  <2>. QED  BY <1>4, <2>1 DEF Stored
<1>6. PICK g : g = Current'
  OBVIOUS
<1>7. Leads(<<>>, g, g, TRUE)
  BY <1>5, <1>6, LeadsNow
<1>8. <<>> \in Seq(Message) /\ NoLoads(<<>>) /\ From(<<>>, s2d)
  BY EmptySeq DEF NoLoads, From
<1>. QED  BY <1>1, <1>3, <1>5, <1>6, <1>7, <1>8, StopKeeps

-----------------------------------------------------------------------------
(* The invariant.                                                           *)

LEMMA InitInv ==
    ASSUME Init
    PROVE  Inv
<1>. DEFINE given == SetToSeq({[skill |-> s, grade |-> 1] : s \in Given})
<1>1. /\ mode = "away" /\ have = "none" /\ data = NoPlayer /\ skills = NoSkills /\ hit = 0
      /\ own = Idle /\ holder = Free /\ s2d = <<>> /\ d2s = <<>> /\ dbpc = Idle
      /\ row = [p \in Pids |-> NewRow] /\ rows = [p \in Pids |-> given] /\ slipped = FALSE
      /\ left = [p \in Pids |-> [data |-> Restored(p, NewRow), skills |-> FirstGrades]]
  BY DEF Init
<1>2. given \in Seq(SkillRow) /\ UniqueSkills(given) /\ Grades(given) = FirstGrades
  BY GivenRows
<1>. HIDE DEF given
<1>3. Out /\ OwnTyped /\ HolderTyped /\ ~InHand
  <2>1. Out
    BY <1>1 DEF Out
  <2>. QED  BY <2>1, OutTyped
<1>4. /\ NewRow \in Row /\ NewRow.pu = 0 /\ NewRow.su = 0 /\ NewRow.stat = 0 /\ NewRow.level = 1
  BY Limits DEF NewRow, Row
<1>5. TypesInv
  <2>1. MemoryTyped
    BY <1>1, Nobody DEF MemoryTyped
  <2>2. LinkTyped
    BY <1>1, EmptySeq DEF LinkTyped
  <2>3. TablesTyped
    BY <1>1, <1>2, <1>4 DEF TablesTyped, Idle
  <2>. QED  BY <1>1, <1>3, <2>1, <2>2, <2>3 DEF TypesInv
<1>6. HitInv
  BY <1>1, <1>3, Nobody, Halves DEF HitInv, InHand
<1>7. Phases
  <2>1. NoLoads(s2d)
    BY <1>1, EmptySeq DEF NoLoads
  <2>. QED  BY <1>1, <1>3, <2>1 DEF Phases
<1>8. RowsInv
  BY <1>1, <1>2 DEF RowsInv
<1>9. Honest
  BY <1>1, Nobody DEF Honest
<1>10. Order
  <2>1. \A p \in Pids : Current.row[p] = NewRow /\ Current.grades[p] = FirstGrades
    BY <1>1, <1>2, CurrentIdle
  <2>2. Current \in Stored
    <3>1. /\ Current = [row |-> Current.row, grades |-> Current.grades]
          /\ Current.row = [p \in Pids |-> Current.row[p]]
          /\ Current.grades = [p \in Pids |-> Current.grades[p]]
      BY DEF Current
    <3>2. Current.row \in [Pids -> Row] /\ Current.grades \in [Pids -> Learned]
      BY <1>4, <2>1, <3>1, PaidFirst
    <3>. QED  BY <3>1, <3>2 DEF Stored
  <2>3. FairRow(NewRow, FirstGrades)
    BY <1>4, PaidFirst, PaidNothing, EarnedFirst DEF FairRow
  <2>4. Fair(Current)
    BY <2>1, <2>3 DEF Fair
  <2>5. Leads(s2d, Current, Current, slipped)
    BY <1>1, <2>2, <2>4, LeadsNow
  <2>6. Settled(Current)
    BY <1>1, <2>1 DEF Settled
  <2>. QED  BY <1>1, <2>2, <2>5, <2>6 DEF Order, Ends
<1>. QED  BY <1>5, <1>6, <1>7, <1>8, <1>9, <1>10 DEF Inv

LEMMA StutterKeeps ==
    ASSUME Inv, UNCHANGED vars
    PROVE  Inv'
<1>1. /\ UNCHANGED <<mode, have, data, skills, hit, own, holder>>
      /\ UNCHANGED database /\ UNCHANGED <<dbpc, row, rows>>
      /\ UNCHANGED <<s2d, d2s, slipped, left>>
  BY DEF vars, memory, database, history
<1>2. TypesInv /\ HitInv /\ Phases /\ RowsInv /\ Honest /\ Order
  BY DEF Inv
<1>3. TablesTyped' /\ RowsInv' /\ Current' = Current
  BY <1>1, <1>2, TablesSame DEF TypesInv
<1>4. TypesInv'
  <2>1. MemoryTyped' /\ OwnTyped' /\ HolderTyped' /\ LinkTyped'
    BY <1>1, <1>2, OwnSame, HolderSame, LinkSame DEF TypesInv, MemoryTyped, HolderTyped
  <2>. QED  BY <1>1, <1>2, <1>3, <2>1 DEF TypesInv
<1>5. HitInv' /\ Honest'
  BY <1>1, <1>2, HitSame DEF Honest
<1>6. Phases'
  BY <1>1, <1>2 DEF Phases, Out, Asked, Refused, Answered, HalfLoaded, Loaded, NoLoads
<1>7. Order'
  <2>1. PICK f \in Stored : Ends(f)
    BY <1>2 DEF Order
  <2>2. mode = "ingame" => InStep(f.row[data.pid], f.grades[data.pid])'
    BY <1>1, <2>1 DEF Ends, InStep, SameGrades, SameStat, SameLevel, PayingStats,
                      PayingSkills, Holding, InHand, Granted
  <2>3. Ends(f)'
    BY <1>1, <1>3, <2>1, <2>2, LeftSame DEF Ends
  <2>. QED  BY <2>1, <2>3 DEF Order
<1>. QED  BY <1>3, <1>4, <1>5, <1>6, <1>7 DEF Inv

LEMMA NextKeeps ==
    ASSUME Inv, ~early, ~early', [Next]_vars
    PROVE  Inv'
<1>1. CASE Session
  BY <1>1, ConnectKeeps, RequestLoadKeeps, OnStartKeeps, OnRestartKeeps, OnDisconnectedKeeps
     DEF Session
<1>2. CASE OnLoadPlayer
  BY <1>2, OnLoadPlayerKeeps
<1>3. CASE OnLoadSkills
  BY <1>3, OnLoadSkillsKeeps
<1>4. CASE Spend
  BY <1>4, OnUpdatePropertyKeeps, OnSkillUpKeeps, OnLearnSkillKeeps, WritePointsKeeps,
     SendStatsKeeps, SendSkillKeeps DEF Spend
<1>5. CASE Hold
  BY <1>5, UpdateExpKeeps, LoseExpKeeps, LevelUpKeeps, TickKeeps, SendSnapshotKeeps DEF Hold
<1>6. CASE Database
  BY <1>6, SaveAllPropertyKeeps, UpdatePropertyKeeps, LearnSkillKeeps, UpgradeSkillKeeps,
     UpdateSUPointKeeps, LoadPlayerKeeps DEF Database
<1>7. CASE GameServerStops
  BY <1>7, GameServerStopsKeeps
<1>8. CASE DatabaseServerStops
  BY <1>8, DatabaseServerStopsKeeps
<1>9. CASE UNCHANGED vars
  BY <1>9, StutterKeeps
<1>. QED  BY <1>1, <1>2, <1>3, <1>4, <1>5, <1>6, <1>7, <1>8, <1>9 DEF Next

-----------------------------------------------------------------------------
(* Whatever the clients wait for: the types, and the bonus, that do not need *)
(* anybody to wait.                                                          *)

WideSnap == [pid : Known, level : Nat, exp : Nat, pu : Nat, su : Nat]
WideSkillRow == [skill : Skills, grade : Nat]
WideRow == [level : Nat, exp : Nat, pu : Nat, su : Nat, stat : Nat]

WideMessage == [type : {"load"}, pid : Known]
               \cup [type : {"save"}, snap : WideSnap]
               \cup [type : {"stats"}, pid : Known, stat : Nat, pu : Nat]
               \cup [type : {"up", "learn"}, pid : Known, skill : Skills,
                     grade : Nat, su : Nat]

WideAnswer == [type : {"player"}, data : PlayerInfo]
              \cup [type : {"skills"}, rows : Seq(WideSkillRow)]

WideMemory ==
    /\ mode \in {"away", "lobby", "loading", "ingame", "fault"}
    /\ have \in {"none", "player", "skills"}
    /\ data \in PlayerInfo /\ skills \in [Skills -> Nat] /\ hit \in Nat
    /\ mode \in {"away", "fault"} => own = Idle
    /\ mode # "fault" => HitInv

WideHolder ==
    /\ holder.at \in {"free", "grow", "save"}
    /\ holder.at = "grow" => holder.pu \in Nat /\ holder.su \in Nat
    /\ holder.at = "save" => holder.snap \in WideSnap

WideLink == s2d \in Seq(WideMessage) /\ d2s \in Seq(WideAnswer)

WideTables ==
    /\ dbpc.at \in {"idle", "points"}
    /\ dbpc.at = "points" => dbpc.su \in Nat
    /\ row \in [Pids -> WideRow]
    /\ rows \in [Pids -> Seq(WideSkillRow)]

Wide ==
    /\ WideMemory /\ OwnTyped /\ WideHolder
    /\ WideLink /\ WideTables
    /\ slipped \in BOOLEAN /\ early \in BOOLEAN

LEMMA PlayerIs ==
    ASSUME NEW d \in PlayerInfo
    PROVE  /\ d = [pid |-> d.pid, level |-> d.level, exp |-> d.exp, pu |-> d.pu,
                   su |-> d.su, stat |-> d.stat]
           /\ d.pid \in Known /\ d.level \in Nat /\ d.exp \in Nat
           /\ d.pu \in Nat /\ d.su \in Nat /\ d.stat \in Nat
BY DEF PlayerInfo, Known

LEMMA PlayerWith ==
    ASSUME NEW d \in PlayerInfo, NEW n \in Nat, NEW m \in Nat, NEW k \in Nat
    PROVE  /\ [d EXCEPT !.exp = n] \in PlayerInfo /\ [d EXCEPT !.pu = n] \in PlayerInfo
           /\ [d EXCEPT !.su = n] \in PlayerInfo /\ [d EXCEPT !.stat = n] \in PlayerInfo
           /\ [d EXCEPT !.level = n, !.su = m, !.pu = k] \in PlayerInfo
BY DEF PlayerInfo

LEMMA WideMessages ==
    /\ \A p \in Known : [type |-> "load", pid |-> p] \in WideMessage
    /\ \A x \in WideSnap : [type |-> "save", snap |-> x] \in WideMessage
    /\ \A p \in Known, v \in Nat, n \in Nat :
          [type |-> "stats", pid |-> p, stat |-> v, pu |-> n] \in WideMessage
    /\ \A t \in {"up", "learn"}, p \in Known, s \in Skills, g \in Nat, n \in Nat :
          [type |-> t, pid |-> p, skill |-> s, grade |-> g, su |-> n] \in WideMessage
BY DEF WideMessage

LEMMA WideMessageIs ==
    ASSUME NEW m \in WideMessage
    PROVE  /\ m.type = "save" => m.snap \in WideSnap
           /\ m.type = "stats" => m.stat \in Nat /\ m.pu \in Nat
           /\ m.type \in {"up", "learn"} => /\ m.skill \in Skills
                                            /\ m.grade \in Nat /\ m.su \in Nat
BY DEF WideMessage

LEMMA WideAnswerIs ==
    ASSUME NEW m \in WideAnswer
    PROVE  /\ m.type = "player" => m.data \in PlayerInfo
           /\ m.type = "skills" => m.rows \in Seq(WideSkillRow)
BY DEF WideAnswer

\* Numbers in order pick the elements of a set of numbers.
LEMMA Nth ==
    ASSUME NEW n \in Nat, NEW K \in SUBSET (1 .. n), NEW k \in 1 .. Cardinality(K)
    PROVE  \E i \in K : Cardinality({j \in K : j < i}) = k - 1
<1>. DEFINE T == {m \in Nat : \A L \in SUBSET (1 .. m) : \A c \in 1 .. Cardinality(L) :
                                 \E i \in L : Cardinality({j \in L : j < i}) = c - 1}
<1>1. 0 \in T
  <2>1. 1 .. 0 = {} /\ Cardinality({}) = 0
    BY FS_EmptySet
  <2>2. \A L \in SUBSET (1 .. 0) : 1 .. Cardinality(L) = {}
    BY <2>1
  <2>. QED  BY <2>2
<1>2. ASSUME NEW m \in T PROVE m + 1 \in T
  <2>1. SUFFICES ASSUME NEW L \in SUBSET (1 .. m + 1), NEW c \in 1 .. Cardinality(L)
                 PROVE  \E i \in L : Cardinality({j \in L : j < i}) = c - 1
    OBVIOUS
  <2>2. m \in Nat /\ \A M \in SUBSET (1 .. m) : \A d \in 1 .. Cardinality(M) :
                        \E i \in M : Cardinality({j \in M : j < i}) = d - 1
    OBVIOUS
  <2>. HIDE DEF T
  <2>3. IsFiniteSet(L) /\ Cardinality(L) \in Nat
    <3>1. IsFiniteSet(1 .. m + 1)
      BY <2>2, FS_Interval
    <3>. QED  BY <3>1, FS_Subset, FS_CardinalityType
  <2>4. CASE m + 1 \notin L
    <3>1. L \in SUBSET (1 .. m)
      BY <2>2, <2>4
    <3>. QED  BY <2>2, <3>1
  <2>5. CASE m + 1 \in L
    <3>. DEFINE M == L \ {m + 1}
    <3>1. M \in SUBSET (1 .. m)
      BY <2>2
    <3>2. Cardinality(M) = Cardinality(L) - 1 /\ IsFiniteSet(M)
      BY <2>3, <2>5, FS_RemoveElement
    <3>3. {j \in L : j < m + 1} = M
      <4>1. \A j \in L : j < m + 1 <=> j # m + 1
        BY <2>2
      <4>. QED  BY <4>1
    <3>4. ASSUME NEW i \in M PROVE {j \in L : j < i} = {j \in M : j < i}
      <4>1. i \in 1 .. m /\ ~(m + 1 < i)
        BY <2>2, <3>1
      <4>. QED  BY <4>1
    <3>5. CASE c = Cardinality(L)
      BY <2>3, <2>5, <3>2, <3>3, <3>5
    <3>6. CASE c # Cardinality(L)
      <4>1. c \in 1 .. Cardinality(M)
        BY <2>3, <3>2, <3>6
      <4>2. PICK i \in M : Cardinality({j \in M : j < i}) = c - 1
        BY <2>2, <3>1, <4>1
      <4>3. i \in L /\ Cardinality({j \in L : j < i}) = c - 1
        BY <3>4, <4>2
      <4>. QED  BY <4>3
    <3>. QED  BY <3>5, <3>6
  <2>. QED  BY <2>4, <2>5
<1>3. T \in SUBSET Nat
  OBVIOUS
<1>. HIDE DEF T
<1>4. n \in T
  BY <1>1, <1>2, <1>3, Induct
<1>. QED  BY <1>4 DEF T

LEMMA WithoutLoadsTyped ==
    ASSUME NEW M, NEW q \in Seq(M)
    PROVE  WithoutLoads(q) \in Seq(M)
<1>. DEFINE kept == {i \in DOMAIN q : q[i].type # "load"}
            nth(k) == CHOOSE i \in kept : Cardinality({j \in kept : j < i}) = k - 1
<1>1. Len(q) \in Nat /\ DOMAIN q = 1 .. Len(q) /\ \A i \in 1 .. Len(q) : q[i] \in M
  BY LenProperties, ElementOfSeq
<1>2. kept \in SUBSET (1 .. Len(q))
  BY <1>1
<1>3. Cardinality(kept) \in Nat
  <2>1. IsFiniteSet(1 .. Len(q))
    BY <1>1, FS_Interval
  <2>. QED  BY <1>2, <2>1, FS_Subset, FS_CardinalityType
<1>4. WithoutLoads(q) = [k \in 1 .. Cardinality(kept) |-> q[nth(k)]]
  BY DEF WithoutLoads
<1>5. ASSUME NEW k \in 1 .. Cardinality(kept)
      PROVE  q[nth(k)] \in M
  <2>. HIDE DEF kept
  <2>1. \E i \in kept : Cardinality({j \in kept : j < i}) = k - 1
    BY <1>1, <1>2, Nth
  <2>2. nth(k) \in kept
    BY <2>1
  <2>. QED  BY <1>1, <1>2, <2>2
<1>. HIDE DEF kept, nth
<1>6. [k \in 1 .. Cardinality(kept) |-> q[nth(k)]] \in [1 .. Cardinality(kept) -> M]
  BY <1>5
<1>. QED  BY <1>3, <1>4, <1>6, SeqDef

\* What a step leaves alone, and a connection that begins or ends.
LEMMA WideSame ==
    ASSUME Wide, UNCHANGED <<skills, hit, own>>, data' \in PlayerInfo,
           mode' \in {"away", "lobby", "loading", "ingame", "fault"},
           mode' \in {"away", "fault"} => own = Idle, mode # "fault",
           have' \in {"none", "player", "skills"}
    PROVE  WideMemory' /\ OwnTyped'
<1>1. HitInv' /\ OwnTyped'
  BY HitSame, OwnSame DEF Wide, WideMemory
<1>. QED  BY <1>1 DEF Wide, WideMemory

LEMMA WideEmpty ==
    ASSUME own' = Idle, skills' = NoSkills, hit' = 0, data' \in PlayerInfo,
           mode' \in {"away", "lobby", "loading", "ingame"},
           have' \in {"none", "player", "skills"}
    PROVE  WideMemory' /\ OwnTyped'
<1>1. OwnTyped' /\ ~InHand'
  BY DEF OwnTyped, Idle, InHand
<1>2. HitInv'
  BY <1>1, Nobody, Halves DEF HitInv, InHand
<1>3. NoSkills \in [Skills -> Nat]
  BY DEF NoSkills
<1>. QED  BY <1>1, <1>2, <1>3 DEF WideMemory

LEMMA WideSends ==
    ASSUME Wide, NEW m \in WideMessage, s2d' = Append(s2d, m), UNCHANGED d2s
    PROVE  WideLink'
BY AppendProperties DEF Wide, WideLink

LEMMA WideTakes ==
    ASSUME Wide, s2d # <<>>, s2d' = Tail(s2d), UNCHANGED d2s
    PROVE  WideLink' /\ Head(s2d) \in WideMessage
BY HeadTailProperties DEF Wide, WideLink

LEMMA WideTablesSame ==
    ASSUME Wide, UNCHANGED database
    PROVE  WideTables'
BY DEF Wide, WideTables, database

LEMMA WideHolderSame ==
    ASSUME Wide, UNCHANGED holder
    PROVE  WideHolder'
BY DEF Wide, WideHolder

LEMMA WideLinkSame ==
    ASSUME Wide, UNCHANGED <<s2d, d2s>>
    PROVE  WideLink'
BY DEF Wide, WideLink

LEMMA WideMemorySame ==
    ASSUME Wide, UNCHANGED <<mode, have, data, skills, hit, own>>
    PROVE  WideMemory' /\ OwnTyped'
<1>1. OwnTyped' /\ (HitInv => HitInv')
  BY HitSame, OwnSame DEF Wide
<1>. QED  BY <1>1 DEF Wide, WideMemory

LEMMA WideSnapshot ==
    ASSUME NEW d \in PlayerInfo
    PROVE  [pid |-> d.pid, level |-> d.level, exp |-> d.exp, pu |-> d.pu,
            su |-> d.su] \in WideSnap
BY PlayerIs DEF WideSnap

LEMMA SessionWide ==
    ASSUME Wide, Session
    PROVE  Wide'
<1>1. /\ data \in PlayerInfo /\ slipped \in BOOLEAN /\ early \in BOOLEAN
      /\ [type |-> "save", snap |-> Snapshot] \in WideMessage
  BY WideSnapshot, WideMessages DEF Wide, WideMemory, Snapshot
<1>2. CASE Connect
  <2>1. /\ mode = "away" /\ mode' = "lobby" /\ have' = "none" /\ data' \in Leftover
        /\ skills' = NoSkills /\ hit' = 0
        /\ UNCHANGED <<own, holder, s2d, d2s, slipped, early>> /\ UNCHANGED database
    BY <1>2 DEF Connect, history
  <2>2. own' = Idle
    BY <2>1 DEF Wide, WideMemory
  <2>3. WideMemory' /\ OwnTyped'
    BY <2>1, <2>2, WideEmpty, Uninitialised
  <2>. QED  BY <1>1, <2>1, <2>3, WideHolderSame, WideLinkSame, WideTablesSame DEF Wide
<1>3. ASSUME NEW p \in Known, RequestLoad(p)
      PROVE  Wide'
  <2>1. /\ mode = "lobby" /\ mode' = "loading" /\ have' = "none"
        /\ s2d' = Append(s2d, [type |-> "load", pid |-> p])
        /\ UNCHANGED <<data, skills, hit, own, holder, d2s, slipped, early>>
        /\ UNCHANGED database
    BY <1>3 DEF RequestLoad, history
  <2>2. WideMemory' /\ OwnTyped'
    BY <1>1, <2>1, WideSame
  <2>3. WideLink'
    BY <2>1, WideMessages, WideSends
  <2>. QED  BY <1>1, <2>1, <2>2, <2>3, WideHolderSame, WideTablesSame DEF Wide
<1>4. CASE OnStart
  <2>1. /\ mode = "loading" /\ mode' = "ingame" /\ early' = (early \/ have # "skills")
        /\ UNCHANGED <<have, data, skills, hit, own, holder, s2d, d2s, slipped>>
        /\ UNCHANGED database
    BY <1>4 DEF OnStart
  <2>2. WideMemory' /\ OwnTyped'
    <3>1. have' \in {"none", "player", "skills"} /\ data' \in PlayerInfo
      BY <2>1 DEF Wide, WideMemory
    <3>. QED  BY <2>1, <3>1, WideSame
  <2>3. early' \in BOOLEAN
    BY <1>1, <2>1
  <2>. QED  BY <1>1, <2>1, <2>2, <2>3, WideHolderSame, WideLinkSame, WideTablesSame DEF Wide
<1>5. CASE OnRestart
  <2>1. /\ own = Idle /\ mode' = "lobby" /\ skills' = NoSkills /\ hit' = 0
        /\ s2d' = Append(s2d, [type |-> "save", snap |-> Snapshot])
        /\ UNCHANGED <<have, data, own, holder, d2s, slipped, early>> /\ UNCHANGED database
    BY <1>5 DEF OnRestart, InGame
  <2>2. WideMemory' /\ OwnTyped'
    <3>1. have' \in {"none", "player", "skills"} /\ data' \in PlayerInfo
      BY <2>1 DEF Wide, WideMemory
    <3>. QED  BY <2>1, <3>1, WideEmpty
  <2>3. WideLink'
    BY <1>1, <2>1, WideSends
  <2>. QED  BY <1>1, <2>1, <2>2, <2>3, WideHolderSame, WideTablesSame DEF Wide
<1>6. CASE OnDisconnected
  <2>1. /\ own = Idle /\ mode' = "away" /\ have' = "none" /\ data' = NoPlayer
        /\ skills' = NoSkills /\ hit' = 0 /\ d2s' = <<>>
        /\ s2d' = WithoutLoads(s2d) \o IF mode = "ingame"
                                       THEN <<[type |-> "save", snap |-> Snapshot]>>
                                       ELSE <<>>
        /\ UNCHANGED <<own, holder, slipped, early>> /\ UNCHANGED database
    BY <1>6 DEF OnDisconnected
  <2>2. WideMemory' /\ OwnTyped'
    BY <2>1, WideEmpty, Nobody
  <2>3. WideLink'
    <3>1. WithoutLoads(s2d) \in Seq(WideMessage)
      BY WithoutLoadsTyped DEF Wide, WideLink
    <3>2. \A m \in WideMessage : <<m>> \in Seq(WideMessage)
      OBVIOUS
    <3>3. <<>> \in Seq(WideMessage) /\ <<>> \in Seq(WideAnswer)
      BY EmptySeq
    <3>4. s2d' \in Seq(WideMessage)
      BY <1>1, <2>1, <3>1, <3>2, <3>3, ConcatProperties
    <3>. QED  BY <2>1, <3>3, <3>4 DEF WideLink
  <2>. QED  BY <1>1, <2>1, <2>2, <2>3, WideHolderSame, WideTablesSame DEF Wide
<1>. QED  BY <1>2, <1>3, <1>4, <1>5, <1>6 DEF Session, Known

\* Skills that are all added are of different indices, and were not there.
LEMMA AddedOnce ==
    ASSUME NEW rs \in Seq(WideSkillRow), AllAdded(rs)
    PROVE  /\ Grades(rs) \in [Skills -> Nat]
           /\ \A s \in Skills : Has(s) => Grades(rs)[s] = 0
<1>1. DOMAIN rs = 1 .. Len(rs) /\ Len(rs) \in Nat /\ \A i \in DOMAIN rs : rs[i] \in WideSkillRow
  BY LenProperties, ElementOfSeq
<1>2. \A i \in DOMAIN rs : rs[i].skill \in Skills /\ rs[i].grade \in Nat
  BY <1>1 DEF WideSkillRow
<1>3. \A i, j \in DOMAIN rs : rs[i].skill = rs[j].skill => i = j
  BY <1>1 DEF AllAdded
<1>4. ASSUME NEW s \in Skills
      PROVE  Grades(rs)[s] \in Nat /\ (Has(s) => Grades(rs)[s] = 0)
  <2>1. CASE \A i \in DOMAIN rs : rs[i].skill # s
    BY <2>1, GradeNone
  <2>2. CASE \E i \in DOMAIN rs : rs[i].skill = s
    <3>1. PICK i \in DOMAIN rs : rs[i].skill = s
      BY <2>2
    <3>2. Grades(rs)[s] = rs[i].grade
      BY <1>2, <1>3, <3>1, OneRow
    <3>3. ~Has(s)
      BY <3>1 DEF AllAdded
    <3>. QED  BY <1>2, <3>2, <3>3
  <2>. QED  BY <2>1, <2>2
<1>5. Grades(rs) = [s \in Skills |-> Grades(rs)[s]]
  BY DEF Grades
<1>. QED  BY <1>4, <1>5

LEMMA OnLoadPlayerWide ==
    ASSUME Wide, OnLoadPlayer
    PROVE  Wide'
<1>1. /\ d2s # <<>> /\ Head(d2s).type = "player" /\ d2s' = Tail(d2s) /\ mode # "fault"
      /\ data' = Head(d2s).data /\ have' = "player"
      /\ UNCHANGED <<mode, skills, hit, own, holder, s2d, slipped, early>>
      /\ UNCHANGED database
  BY DEF OnLoadPlayer, history
<1>2. Tail(d2s) \in Seq(WideAnswer) /\ Head(d2s) \in WideAnswer /\ s2d \in Seq(WideMessage)
  BY <1>1, HeadTailProperties DEF Wide, WideLink
<1>3. WideMemory' /\ OwnTyped'
  <2>1. data' \in PlayerInfo
    BY <1>1, <1>2, WideAnswerIs
  <2>2. mode' \in {"away", "lobby", "loading", "ingame", "fault"}
        /\ (mode' \in {"away", "fault"} => own = Idle)
    BY <1>1 DEF Wide, WideMemory
  <2>. QED  BY <1>1, <2>1, <2>2, WideSame
<1>4. WideLink'
  BY <1>1, <1>2 DEF WideLink
<1>. QED  BY <1>1, <1>3, <1>4, WideHolderSame, WideTablesSame DEF Wide

LEMMA OnLoadSkillsWide ==
    ASSUME Wide, OnLoadSkills
    PROVE  Wide'
<1>1. /\ d2s # <<>> /\ Head(d2s).type = "skills" /\ d2s' = Tail(d2s) /\ mode # "fault"
      /\ UNCHANGED <<data, s2d, slipped, early>> /\ UNCHANGED database
  BY DEF OnLoadSkills, history
<1>2. Tail(d2s) \in Seq(WideAnswer) /\ Head(d2s) \in WideAnswer /\ s2d \in Seq(WideMessage)
  BY <1>1, HeadTailProperties DEF Wide, WideLink
<1>3. WideLink'
  BY <1>1, <1>2 DEF WideLink
<1>4. PICK rs : rs = Head(d2s).rows
  OBVIOUS
<1>5. rs \in Seq(WideSkillRow)
  BY <1>1, <1>2, <1>4, WideAnswerIs
<1>6. /\ data \in PlayerInfo /\ skills \in [Skills -> Nat] /\ hit \in Nat /\ HitInv
      /\ mode \in {"away", "lobby", "loading", "ingame", "fault"} /\ OwnTyped
      /\ have \in {"none", "player", "skills"}
      /\ mode = "away" => own = Idle
  BY <1>1 DEF Wide, WideMemory
<1>7. CASE AllAdded(rs)
  <2>. DEFINE g == Grades(rs)
  <2>1. /\ skills' = [s \in Skills |-> skills[s] + g[s]]
        /\ hit' = hit + OnApply(Mastery, 0, g[Mastery])
        /\ have' = "skills" /\ UNCHANGED <<mode, own, holder>>
    BY <1>4, <1>7 DEF OnLoadSkills
  <2>2. g \in [Skills -> Nat] /\ \A s \in Skills : Has(s) => g[s] = 0
    BY <1>5, <1>7, AddedOnce
  <2>. HIDE DEF g
  <2>3. skills' \in [Skills -> Nat] /\ \A s \in Skills : /\ skills'[s] = skills[s] + g[s]
                                                         /\ skills[s] > 0 => skills'[s] = skills[s]
    BY <1>6, <2>1, <2>2 DEF Has
  <2>4. OwnTyped'
    <3>1. \A s \in Skills : skills[s] >= 1 => skills'[s] >= 1
      BY <1>6, <2>2, <2>3
    <3>. QED  BY <1>6, <2>1, <3>1 DEF OwnTyped
  <2>5. Mastery \in Skills /\ skills[Mastery] \in Nat /\ g[Mastery] \in Nat
    BY <1>6, <2>2, OwnSkills
  <2>6. OnApply(Mastery, 0, g[Mastery]) = Half(g[Mastery]) - Half(0)
    BY Bonus
  <2>7. CASE skills[Mastery] > 0
    <3>1. g[Mastery] = 0 /\ skills'[Mastery] = skills[Mastery]
      BY <2>2, <2>3, <2>5, <2>7 DEF Has
    <3>2. hit' = hit
      BY <1>6, <2>1, <2>6, <3>1, Halves
    <3>3. HitInv' /\ hit' \in Nat
      BY <1>6, <2>1, <3>1, <3>2 DEF HitInv
    <3>. QED  BY <1>1, <1>3, <1>6, <2>1, <2>3, <2>4, <3>3, WideHolderSame, WideTablesSame
              DEF Wide, WideMemory
  <2>8. CASE ~(skills[Mastery] > 0)
    <3>1. skills[Mastery] = 0 /\ skills'[Mastery] = g[Mastery]
      BY <2>3, <2>5, <2>8
    <3>2. ~(own.at \in {"skill", "skillWritten"} /\ own.skill = Mastery)
      BY <1>6, <3>1 DEF OwnTyped
    <3>3. hit = 0
      BY <1>6, <3>1, <3>2, Halves DEF HitInv
    <3>4. hit' = Half(skills'[Mastery]) /\ hit' \in Nat
      BY <2>1, <2>5, <2>6, <3>1, <3>3, Halves
    <3>5. HitInv'
      BY <2>1, <3>2, <3>4 DEF HitInv
    <3>. QED  BY <1>1, <1>3, <1>6, <2>1, <2>3, <2>4, <3>4, <3>5, WideHolderSame, WideTablesSame
              DEF Wide, WideMemory
  <2>. QED  BY <2>7, <2>8
<1>8. CASE ~AllAdded(rs)
  <2>1. /\ mode' = "fault" /\ own' = Idle /\ holder' = Free /\ UNCHANGED <<have, skills, hit>>
    BY <1>4, <1>8 DEF OnLoadSkills
  <2>2. OwnTyped' /\ WideHolder'
    BY <2>1 DEF OwnTyped, WideHolder, Idle, Free
  <2>. QED  BY <1>1, <1>3, <1>6, <2>1, <2>2, WideTablesSame DEF Wide, WideMemory
<1>. QED  BY <1>7, <1>8

\* The memory while the connection has something in hand, or takes it.
LEMMA InTheGameIs ==
    ASSUME Wide
    PROVE  /\ data \in PlayerInfo /\ data.pid \in Known /\ data.stat \in Nat
           /\ data.pu \in Nat /\ data.su \in Nat /\ data.exp \in Nat /\ data.level \in Nat
           /\ skills \in [Skills -> Nat] /\ hit \in Nat /\ OwnTyped
           /\ mode \in {"away", "lobby", "loading", "ingame", "fault"}
           /\ have \in {"none", "player", "skills"}
           /\ own # Idle => mode \in {"lobby", "loading", "ingame"} /\ HitInv
           /\ mode # "fault" => HitInv
           /\ slipped \in BOOLEAN /\ early \in BOOLEAN
<1>1. WideMemory /\ OwnTyped /\ slipped \in BOOLEAN /\ early \in BOOLEAN
  BY DEF Wide
<1>2. data \in PlayerInfo
  BY <1>1 DEF WideMemory
<1>. QED  BY <1>1, <1>2, PlayerIs DEF WideMemory

LEMMA OnUpdatePropertyWide ==
    ASSUME Wide, NEW add \in 1 .. MaxStat, OnUpdateProperty(add)
    PROVE  Wide'
<1>. DEFINE need == GetReqPU(data.stat, add)
            set == [data EXCEPT !.stat = data.stat + add]
<1>1. /\ mode = "ingame" /\ own = Idle /\ data.stat + add <= MaxStat /\ need <= data.pu
      /\ data' = set /\ own' = [at |-> "stats", was |-> data.pu, need |-> need]
      /\ UNCHANGED <<mode, have, skills, hit, holder, s2d, d2s, slipped, early>>
      /\ UNCHANGED database
  BY DEF OnUpdateProperty, InGame, history
<1>2. add \in Nat /\ MaxStat \in Nat
  BY Limits
<1>3. /\ data \in PlayerInfo /\ data.stat \in Nat /\ data.pu \in Nat
      /\ HitInv /\ skills \in [Skills -> Nat] /\ hit \in Nat
      /\ have \in {"none", "player", "skills"} /\ slipped \in BOOLEAN /\ early \in BOOLEAN
  BY <1>1, InTheGameIs
<1>4. need \in Nat
  BY <1>1, <1>2, <1>3, Prices
<1>5. set \in PlayerInfo
  <2>1. data.stat + add \in Nat
    BY <1>2, <1>3
  <2>. QED  BY <1>3, <2>1, PlayerWith
<1>. HIDE DEF need, set
<1>6. OwnTyped'
  BY <1>1, <1>3, <1>4 DEF OwnTyped
<1>7. HitInv'
  BY <1>1, <1>3 DEF HitInv, Idle
<1>8. WideMemory'
  BY <1>1, <1>3, <1>5, <1>7 DEF WideMemory
<1>. QED  BY <1>1, <1>3, <1>6, <1>8, WideHolderSame, WideLinkSame, WideTablesSame DEF Wide

LEMMA TakesWide ==
    ASSUME Wide, NEW s \in Skills, NEW n \in Nat, NEW t \in {"up", "learn"},
           mode \in {"lobby", "loading", "ingame"}, own = Idle, data.su > 0,
           t = "up" => n = skills[s] + 1, t = "learn" => skills[s] = 0 /\ n = 1,
           skills' = [skills EXCEPT ![s] = n],
           own' = [at |-> "skill", was |-> data.su, skill |-> s, type |-> t],
           UNCHANGED <<mode, have, data, hit, holder, s2d, d2s, slipped>>,
           UNCHANGED database, early' \in BOOLEAN
    PROVE  Wide'
<1>1. /\ data \in PlayerInfo /\ data.su \in Nat
      /\ HitInv /\ skills \in [Skills -> Nat] /\ hit \in Nat
      /\ have \in {"none", "player", "skills"} /\ slipped \in BOOLEAN
  BY InTheGameIs
<1>2. /\ skills' \in [Skills -> Nat] /\ skills'[s] = n /\ n >= 1
      /\ s # Mastery => skills'[Mastery] = skills[Mastery]
  BY <1>1, OwnSkills
<1>3. OwnTyped'
  BY <1>1, <1>2 DEF OwnTyped
<1>4. hit = Half(skills[Mastery])
  BY <1>1 DEF HitInv, Idle
<1>5. HitInv'
  <2>1. CASE s = Mastery
    <3>1. skills[Mastery] \in Nat
      BY <1>1, OwnSkills
    <3>2. CASE t = "up"
      <4>1. skills'[Mastery] - 1 = skills[Mastery]
        BY <1>2, <2>1, <3>1, <3>2
      <4>. QED  BY <1>4, <2>1, <3>2, <4>1 DEF HitInv
    <3>3. CASE t = "learn"
      BY <1>4, <2>1, <3>3, Halves DEF HitInv
    <3>. QED  BY <3>2, <3>3
  <2>2. CASE s # Mastery
    BY <1>2, <1>4, <2>2 DEF HitInv
  <2>. QED  BY <2>1, <2>2
<1>6. WideMemory'
  BY <1>1, <1>2, <1>5 DEF WideMemory
<1>. QED  BY <1>1, <1>3, <1>6, WideHolderSame, WideLinkSame, WideTablesSame DEF Wide

LEMMA SkillWide ==
    ASSUME Wide, NEW s \in Skills, OnSkillUp(s) \/ OnLearnSkill(s)
    PROVE  Wide'
<1>1. skills[s] \in Nat /\ early \in BOOLEAN
  BY InTheGameIs
<1>2. CASE OnSkillUp(s)
  <2>1. /\ mode \in {"lobby", "loading", "ingame"} /\ own = Idle /\ data.su > 0
        /\ early' \in BOOLEAN /\ skills' = [skills EXCEPT ![s] = skills[s] + 1]
        /\ own' = [at |-> "skill", was |-> data.su, skill |-> s, type |-> "up"]
        /\ UNCHANGED <<mode, have, data, hit, holder, s2d, d2s, slipped>>
        /\ UNCHANGED database
    BY <1>1, <1>2 DEF OnSkillUp, MayAskForSkill, CanLearnSkill
  <2>2. skills[s] + 1 \in Nat
    BY <1>1
  <2>. QED  BY <2>1, <2>2, TakesWide
<1>3. CASE OnLearnSkill(s)
  <2>1. /\ mode \in {"lobby", "loading", "ingame"} /\ own = Idle /\ data.su > 0
        /\ early' \in BOOLEAN /\ skills' = [skills EXCEPT ![s] = 1] /\ ~(skills[s] > 0)
        /\ own' = [at |-> "skill", was |-> data.su, skill |-> s, type |-> "learn"]
        /\ UNCHANGED <<mode, have, data, hit, holder, s2d, d2s, slipped>>
        /\ UNCHANGED database
    BY <1>1, <1>3 DEF OnLearnSkill, MayAskForSkill, CanLearnSkill, Has
  <2>2. skills[s] = 0 /\ 1 \in Nat
    BY <1>1, <2>1
  <2>. QED  BY <2>1, <2>2, TakesWide
<1>. QED  BY <1>2, <1>3

LEMMA WritePointsWide ==
    ASSUME Wide, WritePoints
    PROVE  Wide'
<1>1. /\ own.at \in {"stats", "skill"}
      /\ UNCHANGED <<mode, have, skills, hit, holder, s2d, d2s, early>> /\ UNCHANGED database
      /\ slipped' \in BOOLEAN
  <2>1. slipped \in BOOLEAN
    BY InTheGameIs
  <2>. QED  BY <2>1 DEF WritePoints
<1>2. own # Idle
  BY <1>1 DEF Idle
<1>3. /\ data \in PlayerInfo /\ skills \in [Skills -> Nat] /\ hit \in Nat /\ OwnTyped
      /\ mode \in {"lobby", "loading", "ingame"} /\ HitInv
      /\ have \in {"none", "player", "skills"} /\ early \in BOOLEAN
  BY <1>2, InTheGameIs
<1>4. CASE own.at = "stats"
  <2>1. data' = [data EXCEPT !.pu = own.was - own.need] /\ own' = [at |-> "statsWritten"]
    BY <1>4 DEF WritePoints
  <2>2. own.was - own.need \in Nat
    BY <1>3, <1>4 DEF OwnTyped
  <2>3. data' \in PlayerInfo
    BY <1>3, <2>1, <2>2, PlayerWith
  <2>4. OwnTyped'
    BY <2>1 DEF OwnTyped
  <2>5. HitInv'
    BY <1>1, <1>3, <1>4, <2>1 DEF HitInv
  <2>6. WideMemory'
    BY <1>1, <1>3, <2>3, <2>5 DEF WideMemory
  <2>. QED  BY <1>1, <1>3, <2>4, <2>6, WideHolderSame, WideLinkSame, WideTablesSame DEF Wide
<1>5. CASE own.at = "skill"
  <2>1. /\ data' = [data EXCEPT !.su = own.was - 1]
        /\ own' = [at |-> "skillWritten", su |-> own.was - 1,
                   skill |-> own.skill, type |-> own.type]
    BY <1>5 DEF WritePoints
  <2>2. /\ own.was - 1 \in Nat /\ own.skill \in Skills /\ own.type \in {"up", "learn"}
        /\ skills[own.skill] >= 1
    BY <1>3, <1>5 DEF OwnTyped
  <2>3. data' \in PlayerInfo
    BY <1>3, <2>1, <2>2, PlayerWith
  <2>4. OwnTyped'
    BY <1>1, <2>1, <2>2 DEF OwnTyped
  <2>5. HitInv'
    BY <1>1, <1>3, <1>5, <2>1 DEF HitInv
  <2>6. WideMemory'
    BY <1>1, <1>3, <2>3, <2>5 DEF WideMemory
  <2>. QED  BY <1>1, <1>3, <2>4, <2>6, WideHolderSame, WideLinkSame, WideTablesSame DEF Wide
<1>. QED  BY <1>1, <1>4, <1>5

LEMMA SendStatsWide ==
    ASSUME Wide, SendStats
    PROVE  Wide'
<1>. DEFINE m == [type |-> "stats", pid |-> data.pid, stat |-> data.stat, pu |-> data.pu]
<1>1. /\ own.at = "statsWritten" /\ s2d' = Append(s2d, m) /\ own' = Idle
      /\ UNCHANGED <<mode, have, data, skills, hit, holder, d2s, early>> /\ UNCHANGED database
      /\ slipped' \in BOOLEAN
  <2>1. slipped \in BOOLEAN
    BY InTheGameIs
  <2>. QED  BY <2>1 DEF SendStats, Overtakes
<1>2. own # Idle
  BY <1>1 DEF Idle
<1>3. /\ data \in PlayerInfo /\ data.pid \in Known /\ data.stat \in Nat /\ data.pu \in Nat
      /\ skills \in [Skills -> Nat] /\ hit \in Nat /\ HitInv
      /\ mode \in {"lobby", "loading", "ingame"}
      /\ have \in {"none", "player", "skills"} /\ early \in BOOLEAN
  BY <1>2, InTheGameIs
<1>4. m \in WideMessage
  BY <1>3, WideMessages
<1>. HIDE DEF m
<1>5. WideLink'
  BY <1>1, <1>4, WideSends
<1>6. OwnTyped' /\ HitInv'
  BY <1>1, <1>3 DEF OwnTyped, HitInv, Idle
<1>7. WideMemory'
  BY <1>1, <1>3, <1>6 DEF WideMemory
<1>. QED  BY <1>1, <1>3, <1>5, <1>6, <1>7, WideHolderSame, WideTablesSame DEF Wide

LEMMA SendSkillWide ==
    ASSUME Wide, SendSkill
    PROVE  Wide'
<1>. DEFINE s == own.skill
            m == [type |-> own.type, pid |-> data.pid, skill |-> s,
                  grade |-> skills[s], su |-> own.su]
            added == OnApply(s, IF own.type = "up" THEN skills[s] - 1 ELSE 0, skills[s])
<1>1. /\ own.at = "skillWritten" /\ s2d' = Append(s2d, m) /\ own' = Idle
      /\ hit' = hit + added
      /\ UNCHANGED <<mode, have, data, skills, holder, d2s, early>> /\ UNCHANGED database
      /\ slipped' \in BOOLEAN
  <2>1. slipped \in BOOLEAN
    BY InTheGameIs
  <2>. QED  BY <2>1 DEF SendSkill, Overtakes
<1>2. own # Idle
  BY <1>1 DEF Idle
<1>3. /\ data \in PlayerInfo /\ data.pid \in Known
      /\ skills \in [Skills -> Nat] /\ hit \in Nat /\ HitInv /\ OwnTyped
      /\ mode \in {"lobby", "loading", "ingame"}
      /\ have \in {"none", "player", "skills"} /\ early \in BOOLEAN
  BY <1>2, InTheGameIs
<1>4. s \in Skills /\ own.type \in {"up", "learn"} /\ own.su \in Nat /\ skills[s] >= 1
  BY <1>1, <1>3 DEF OwnTyped
<1>5. skills[s] \in Nat /\ skills[Mastery] \in Nat
  BY <1>3, <1>4, OwnSkills
<1>6. m \in WideMessage
  BY <1>3, <1>4, <1>5, WideMessages
<1>7. hit' = Half(skills[Mastery])
  <2>1. CASE s = Mastery
    <3>1. hit = IF own.type = "up" THEN Half(skills[s] - 1) ELSE 0
      BY <1>1, <1>3, <2>1 DEF HitInv
    <3>2. CASE own.type = "up"
      <4>1. added = Half(skills[s]) - Half(skills[s] - 1)
        BY <2>1, <3>2, Bonus
      <4>2. Half(skills[s]) \in Nat /\ Half(skills[s] - 1) \in Nat
        BY <1>4, <1>5, Halves
      <4>. HIDE DEF added, s
      <4>. QED  BY <1>1, <2>1, <3>1, <3>2, <4>1, <4>2
    <3>3. CASE own.type # "up"
      <4>1. added = Half(skills[s]) - Half(0)
        BY <2>1, <3>3, Bonus
      <4>2. Half(skills[s]) \in Nat /\ Half(0) = 0
        BY <1>5, Halves
      <4>. HIDE DEF added, s
      <4>. QED  BY <1>1, <2>1, <3>1, <3>3, <4>1, <4>2
    <3>. QED  BY <3>2, <3>3
  <2>2. CASE s # Mastery
    <3>1. added = 0
      BY <2>2, Bonus
    <3>2. hit = Half(skills[Mastery])
      BY <1>3, <2>2 DEF HitInv
    <3>. HIDE DEF added
    <3>. QED  BY <1>1, <1>3, <3>1, <3>2
  <2>. QED  BY <2>1, <2>2
<1>. HIDE DEF m, added
<1>8. WideLink'
  BY <1>1, <1>6, WideSends
<1>9. OwnTyped' /\ HitInv' /\ hit' \in Nat
  <2>1. hit' \in Nat
    BY <1>5, <1>7, Halves
  <2>. QED  BY <1>1, <1>7, <2>1 DEF OwnTyped, HitInv, Idle
<1>10. WideMemory'
  BY <1>1, <1>3, <1>9 DEF WideMemory
<1>. QED  BY <1>1, <1>3, <1>8, <1>9, <1>10, WideHolderSame, WideTablesSame DEF Wide

\* The threads that hold the mutex, in a player who is in the game or was.
LEMMA HoldWide ==
    ASSUME Wide, UNCHANGED <<mode, have, skills, hit, own, d2s, slipped, early>>,
           UNCHANGED database, data' \in PlayerInfo, WideHolder',
           UNCHANGED s2d \/ \E m \in WideMessage : s2d' = Append(s2d, m)
    PROVE  Wide'
<1>1. WideMemory' /\ OwnTyped'
  <2>1. OwnTyped' /\ (HitInv => HitInv')
    BY HitSame, OwnSame DEF Wide
  <2>. QED  BY <2>1 DEF Wide, WideMemory
<1>2. WideLink'
  BY WideLinkSame, WideSends
<1>. QED  BY <1>1, <1>2, WideTablesSame DEF Wide

LEMMA HoldStepWide ==
    ASSUME Wide, Hold
    PROVE  Wide'
<1>1. /\ data \in PlayerInfo /\ data.exp \in Nat /\ data.pu \in Nat /\ data.su \in Nat
      /\ data.level \in Nat
  BY InTheGameIs
<1>2. \A x \in Nat : Rises(x) => x - NeedExp[data.level] \in Nat
  <2>1. data.level < MaxLevel => NeedExp[data.level] \in Nat
    <3>1. data.level < MaxLevel => data.level \in 0 .. MaxLevel - 1
      BY <1>1, Limits
    <3>. QED  BY <3>1, Tables
  <2>. QED  BY <2>1 DEF Rises
<1>3. \A x \in Nat : [data EXCEPT !.exp = x] \in PlayerInfo
  BY <1>1, PlayerWith
<1>4. WideHolder /\ (holder' = Grow \/ holder' = Free => WideHolder')
  BY <1>1 DEF Wide, WideHolder, Grow, Free
<1>5. \A d \in PlayerInfo : \A why : holder' = Save(d, why) => WideHolder'
  <2>. SUFFICES ASSUME NEW d \in PlayerInfo, NEW why, holder' = Save(d, why)
                PROVE  WideHolder'
    OBVIOUS
  <2>1. holder'.at = "save" /\ holder'.snap \in WideSnap
    BY WideSnapshot DEF Save
  <2>. QED  BY <2>1 DEF WideHolder
<1>6. ASSUME NEW amount \in Amounts, UpdateExp(amount)
      PROVE  Wide'
  <2>. DEFINE x == data.exp + amount
  <2>1. x \in Nat
    BY <1>1, Experience
  <2>2. UNCHANGED <<mode, have, skills, hit, own, s2d, d2s, slipped, early>> /\ UNCHANGED database
    BY <1>6 DEF UpdateExp, history
  <2>3. \/ Rises(x) /\ data' = [data EXCEPT !.exp = x - NeedExp[data.level]] /\ holder' = Grow
        \/ data' = [data EXCEPT !.exp = x] /\ holder' = holder
    BY <1>6 DEF UpdateExp
  <2>. HIDE DEF x
  <2>4. data' \in PlayerInfo /\ WideHolder'
    BY <1>2, <1>3, <1>4, <2>1, <2>3, WideHolderSame
  <2>. QED  BY <2>2, <2>4, HoldWide
<1>7. ASSUME NEW amount \in Losses, LoseExp(amount)
      PROVE  Wide'
  <2>. DEFINE x == IF amount > data.exp THEN 0 ELSE data.exp - amount
  <2>1. x \in Nat
    BY <1>1, Experience
  <2>2. /\ UNCHANGED <<mode, have, skills, hit, own, holder, s2d, d2s, slipped, early>>
        /\ UNCHANGED database /\ data' = [data EXCEPT !.exp = x]
    BY <1>7 DEF LoseExp, history
  <2>. HIDE DEF x
  <2>3. data' \in PlayerInfo /\ WideHolder'
    BY <1>3, <2>1, <2>2, WideHolderSame
  <2>. QED  BY <2>2, <2>3, HoldWide
<1>8. CASE LevelUp
  <2>. DEFINE grown == [data EXCEPT !.level = data.level + 1, !.su = holder.su + 1,
                                    !.pu = holder.pu + LevelPU[data.level + 1]]
  <2>1. /\ holder.at = "grow" /\ data.level <= MaxLevel
        /\ data' = grown /\ holder' = Save(grown, "level")
        /\ UNCHANGED <<mode, have, skills, hit, own, s2d, d2s, slipped, early>>
        /\ UNCHANGED database
    BY <1>8 DEF LevelUp, history
  <2>2. holder.pu \in Nat /\ holder.su \in Nat
    BY <1>4, <2>1 DEF WideHolder
  <2>3. data.level + 1 \in 1 .. MaxLevel + 1
    BY <1>1, <2>1, Limits
  <2>4. /\ data.level + 1 \in Nat /\ holder.su + 1 \in Nat
        /\ holder.pu + LevelPU[data.level + 1] \in Nat
    BY <2>2, <2>3, Tables, Limits
  <2>5. grown \in PlayerInfo
    BY <1>1, <2>4, PlayerWith
  <2>. HIDE DEF grown
  <2>. QED  BY <1>5, <2>1, <2>5, HoldWide
<1>9. CASE Tick
  <2>1. /\ UNCHANGED <<mode, have, data, skills, hit, own, s2d, d2s, slipped, early>>
        /\ UNCHANGED database /\ holder' = Save(data, "tick")
    BY <1>9 DEF Tick, history
  <2>. QED  BY <1>1, <1>5, <2>1, HoldWide
<1>10. CASE SendSnapshot
  <2>. DEFINE exp == IF holder.why = "level" /\ data.level >= MaxLevel THEN 0 ELSE data.exp
              again == holder.why = "level" /\ Rises(exp)
  <2>1. /\ holder.at = "save" /\ s2d' = Append(s2d, [type |-> "save", snap |-> holder.snap])
        /\ UNCHANGED <<mode, have, skills, hit, own, d2s, slipped, early>> /\ UNCHANGED database
        /\ data' = [data EXCEPT !.exp = IF again THEN exp - NeedExp[data.level] ELSE exp]
        /\ holder' = IF again THEN Grow ELSE Free
    BY <1>10 DEF SendSnapshot, history
  <2>2. exp \in Nat /\ (again => Rises(exp))
    BY <1>1
  <2>3. (IF again THEN exp - NeedExp[data.level] ELSE exp) \in Nat
    <3>. HIDE DEF exp, again
    <3>. QED  BY <1>2, <2>2
  <2>. HIDE DEF exp, again
  <2>4. data' \in PlayerInfo /\ WideHolder'
    BY <1>3, <1>4, <2>1, <2>3
  <2>5. [type |-> "save", snap |-> holder.snap] \in WideMessage
    BY <1>4, <2>1, WideMessages DEF WideHolder
  <2>. QED  BY <2>1, <2>4, <2>5, HoldWide
<1>. QED  BY <1>6, <1>7, <1>8, <1>9, <1>10 DEF Hold

\* The database server.
LEMMA DatabaseWide ==
    ASSUME Wide, Database
    PROVE  Wide'
<1>1. /\ row \in [Pids -> WideRow] /\ rows \in [Pids -> Seq(WideSkillRow)]
      /\ dbpc.at \in {"idle", "points"} /\ (dbpc.at = "points" => dbpc.su \in Nat)
      /\ slipped \in BOOLEAN /\ early \in BOOLEAN
      /\ s2d \in Seq(WideMessage) /\ d2s \in Seq(WideAnswer)
  BY DEF Wide, WideTables, WideLink
<1>2. /\ \A r \in WideRow : /\ r.level \in Nat /\ r.exp \in Nat /\ r.pu \in Nat /\ r.su \in Nat
                            /\ r.stat \in Nat
      /\ \A r \in WideRow, n \in Nat : [r EXCEPT !.su = n] \in WideRow
      /\ \A r \in WideRow, v, n \in Nat : [r EXCEPT !.stat = v, !.pu = n] \in WideRow
      /\ \A r \in WideRow, x \in WideSnap :
            [r EXCEPT !.level = x.level, !.exp = x.exp, !.pu = x.pu, !.su = x.su] \in WideRow
  BY DEF WideRow, WideSnap
<1>3. ASSUME UNCHANGED <<memory, d2s, slipped, early>>, s2d # <<>>, s2d' = Tail(s2d), WideTables'
      PROVE  Wide'
  <2>1. WideMemory' /\ OwnTyped' /\ WideHolder'
    BY <1>3, WideMemorySame, WideHolderSame DEF memory
  <2>2. WideLink'
    BY <1>3, WideTakes
  <2>. QED  BY <1>1, <1>3, <2>1, <2>2 DEF Wide
<1>4. s2d # <<>> => Head(s2d) \in WideMessage
  BY <1>1, HeadTailProperties
<1>5. CASE SaveAllProperty
  <2>1. /\ s2d # <<>> /\ Head(s2d).type = "save" /\ s2d' = Tail(s2d)
        /\ UNCHANGED <<memory, d2s, dbpc, rows, slipped, early>>
    BY <1>5 DEF SaveAllProperty, Received, history
  <2>2. PICK x : x = Head(s2d).snap
    OBVIOUS
  <2>3. x \in WideSnap
    BY <1>4, <2>1, <2>2, WideMessageIs
  <2>4. row' = [p \in Pids |-> IF p # x.pid THEN row[p] ELSE
                   [row[p] EXCEPT !.level = x.level, !.exp = x.exp, !.pu = x.pu, !.su = x.su]]
    BY <1>5, <2>2 DEF SaveAllProperty
  <2>5. row' \in [Pids -> WideRow]
    BY <1>1, <1>2, <2>3, <2>4
  <2>6. WideTables'
    BY <1>1, <2>1, <2>5 DEF WideTables
  <2>. QED  BY <1>3, <2>1, <2>6
<1>6. CASE UpdateProperty
  <2>1. /\ s2d # <<>> /\ Head(s2d).type = "stats" /\ s2d' = Tail(s2d)
        /\ UNCHANGED <<memory, d2s, dbpc, rows, slipped, early>>
    BY <1>6 DEF UpdateProperty, Received, history
  <2>2. PICK m : m = Head(s2d)
    OBVIOUS
  <2>3. m.stat \in Nat /\ m.pu \in Nat
    BY <1>4, <2>1, <2>2, WideMessageIs
  <2>4. row' = [p \in Pids |-> IF p # m.pid THEN row[p] ELSE
                   [row[p] EXCEPT !.stat = m.stat, !.pu = m.pu]]
    BY <1>6, <2>2 DEF UpdateProperty
  <2>5. row' \in [Pids -> WideRow]
    BY <1>1, <1>2, <2>3, <2>4
  <2>6. WideTables'
    BY <1>1, <2>1, <2>5 DEF WideTables
  <2>. QED  BY <1>3, <2>1, <2>6
<1>7. CASE LearnSkill
  <2>1. /\ s2d # <<>> /\ Head(s2d).type = "learn" /\ s2d' = Tail(s2d)
        /\ UNCHANGED <<memory, d2s, row, slipped, early>>
    BY <1>7 DEF LearnSkill, Received, history
  <2>2. PICK m : m = Head(s2d)
    OBVIOUS
  <2>3. m.skill \in Skills /\ m.su \in Nat
    BY <1>4, <2>1, <2>2, WideMessageIs
  <2>4. /\ m.pid \in Pids /\ rows' = [rows EXCEPT ![m.pid] = Inserted(rows[m.pid], m.skill, 1)]
        /\ dbpc' = [at |-> "points", pid |-> m.pid, su |-> m.su]
    BY <1>7, <2>2 DEF LearnSkill
  <2>5. Inserted(rows[m.pid], m.skill, 1) \in Seq(WideSkillRow)
    <3>1. rows[m.pid] \in Seq(WideSkillRow) /\ [skill |-> m.skill, grade |-> 1] \in WideSkillRow
      BY <1>1, <2>3, <2>4 DEF WideSkillRow
    <3>. QED  BY <3>1, AppendProperties DEF Inserted
  <2>6. rows' \in [Pids -> Seq(WideSkillRow)]
    BY <1>1, <2>4, <2>5
  <2>7. WideTables'
    BY <1>1, <2>1, <2>3, <2>4, <2>6 DEF WideTables
  <2>. QED  BY <1>3, <2>1, <2>7
<1>8. CASE UpgradeSkill
  <2>1. /\ s2d # <<>> /\ Head(s2d).type = "up" /\ s2d' = Tail(s2d)
        /\ UNCHANGED <<memory, d2s, row, slipped, early>>
    BY <1>8 DEF UpgradeSkill, Received, history
  <2>2. PICK m : m = Head(s2d)
    OBVIOUS
  <2>3. m.skill \in Skills /\ m.grade \in Nat /\ m.su \in Nat
    BY <1>4, <2>1, <2>2, WideMessageIs
  <2>4. /\ rows' = [p \in Pids |-> IF p # m.pid THEN rows[p]
                                   ELSE Updated(rows[p], m.skill, m.grade)]
        /\ dbpc' = [at |-> "points", pid |-> m.pid, su |-> m.su]
    BY <1>8, <2>2 DEF UpgradeSkill
  <2>5. ASSUME NEW rs \in Seq(WideSkillRow)
        PROVE  Updated(rs, m.skill, m.grade) \in Seq(WideSkillRow)
    <3>1. DOMAIN rs = 1 .. Len(rs) /\ Len(rs) \in Nat /\ \A i \in DOMAIN rs : rs[i] \in WideSkillRow
      BY LenProperties, ElementOfSeq
    <3>2. \A r \in WideSkillRow : [r EXCEPT !.grade = m.grade] \in WideSkillRow
      BY <2>3 DEF WideSkillRow
    <3>3. Updated(rs, m.skill, m.grade) \in [1 .. Len(rs) -> WideSkillRow]
      BY <3>1, <3>2 DEF Updated
    <3>. QED  BY <3>1, <3>3, SeqDef
  <2>6. rows' \in [Pids -> Seq(WideSkillRow)]
    BY <1>1, <2>4, <2>5
  <2>7. WideTables'
    BY <1>1, <2>1, <2>3, <2>4, <2>6 DEF WideTables
  <2>. QED  BY <1>3, <2>1, <2>7
<1>9. CASE UpdateSUPoint
  <2>1. /\ dbpc.at = "points" /\ dbpc' = Idle
        /\ row' = [p \in Pids |-> IF p # dbpc.pid THEN row[p]
                                  ELSE [row[p] EXCEPT !.su = dbpc.su]]
        /\ UNCHANGED <<memory, s2d, d2s, rows, slipped, early>>
    BY <1>9 DEF UpdateSUPoint, history
  <2>2. row' \in [Pids -> WideRow]
    BY <1>1, <1>2, <2>1
  <2>3. WideTables'
    BY <1>1, <2>1, <2>2 DEF WideTables, Idle
  <2>4. WideMemory' /\ OwnTyped' /\ WideHolder'
    BY <2>1, WideMemorySame, WideHolderSame DEF memory
  <2>. QED  BY <1>1, <2>1, <2>3, <2>4, WideLinkSame DEF Wide
<1>10. CASE LoadPlayer
  <2>1. PICK p : p = Head(s2d).pid
    OBVIOUS
  <2>2. /\ s2d # <<>> /\ s2d' = Tail(s2d) /\ UNCHANGED <<memory, slipped, early>>
        /\ UNCHANGED database
        /\ d2s' = IF p \in Pids
                  THEN d2s \o <<[type |-> "player", data |-> Restored(p, row[p])],
                                [type |-> "skills", rows |-> rows[p]]>>
                  ELSE d2s
    BY <1>10, <2>1 DEF LoadPlayer, Received, history
  <2>3. d2s' \in Seq(WideAnswer)
    <3>1. CASE p \in Pids
      <4>1. Restored(p, row[p]) \in PlayerInfo
        BY <1>1, <1>2, <3>1 DEF Restored, PlayerInfo
      <4>2. /\ [type |-> "player", data |-> Restored(p, row[p])] \in WideAnswer
            /\ [type |-> "skills", rows |-> rows[p]] \in WideAnswer
        BY <1>1, <3>1, <4>1 DEF WideAnswer
      <4>3. \A a, b \in WideAnswer : <<a, b>> \in Seq(WideAnswer)
        OBVIOUS
      <4>. QED  BY <1>1, <2>2, <3>1, <4>2, <4>3, ConcatProperties
    <3>2. CASE p \notin Pids
      BY <1>1, <2>2, <3>2
    <3>. QED  BY <3>1, <3>2
  <2>4. WideLink'
    BY <1>1, <2>2, <2>3, HeadTailProperties DEF WideLink
  <2>5. WideMemory' /\ OwnTyped' /\ WideHolder'
    BY <2>2, WideMemorySame, WideHolderSame DEF memory
  <2>. QED  BY <1>1, <2>2, <2>4, <2>5, WideTablesSame DEF Wide
<1>. QED  BY <1>5, <1>6, <1>7, <1>8, <1>9, <1>10 DEF Database

LEMMA StopsWide ==
    ASSUME Wide, GameServerStops \/ DatabaseServerStops
    PROVE  Wide'
<1>1. /\ mode' = "away" /\ have' = "none" /\ data' = NoPlayer
      /\ skills' = NoSkills /\ hit' = 0 /\ own' = Idle /\ holder' = Free
      /\ d2s' = <<>> /\ UNCHANGED <<row, rows, early>>
      /\ dbpc' = dbpc \/ dbpc' = Idle
      /\ slipped' \in BOOLEAN
  <2>1. slipped \in BOOLEAN
    BY InTheGameIs
  <2>. QED  BY <2>1 DEF GameServerStops, DatabaseServerStops, database
<1>2. s2d' \in Seq(WideMessage)
  <2>1. CASE GameServerStops
    <3>1. PICK n \in 0 .. Len(s2d) : s2d' = WithoutLoads(SubSeq(s2d, 1, n))
      BY <2>1 DEF GameServerStops
    <3>2. s2d \in Seq(WideMessage)
      BY DEF Wide, WideLink
    <3>3. SubSeq(s2d, 1, n) \in Seq(WideMessage)
      <4>1. \A i \in 1 .. n : s2d[i] \in WideMessage
        BY <3>2, LenProperties, ElementOfSeq
      <4>. QED  BY <3>2, <4>1, SubSeqProperties
    <3>. QED  BY <3>1, <3>3, WithoutLoadsTyped
  <2>2. CASE DatabaseServerStops
    BY <2>2, EmptySeq DEF DatabaseServerStops
  <2>. QED  BY <2>1, <2>2
<1>3. WideMemory' /\ OwnTyped'
  BY <1>1, WideEmpty, Nobody
<1>4. WideHolder' /\ WideLink' /\ WideTables'
  BY <1>1, <1>2, EmptySeq DEF Wide, WideHolder, WideLink, WideTables, Free, Idle
<1>. QED  BY <1>1, <1>3, <1>4 DEF Wide

LEMMA WideFirst == Init => Wide
<1>. SUFFICES ASSUME Init PROVE Wide
  OBVIOUS
<1>1. /\ mode = "away" /\ have = "none" /\ data = NoPlayer /\ skills = NoSkills /\ hit = 0
      /\ own = Idle /\ holder = Free /\ s2d = <<>> /\ d2s = <<>> /\ dbpc = Idle
      /\ row = [p \in Pids |-> NewRow] /\ slipped = FALSE /\ early = FALSE
      /\ rows = [p \in Pids |-> SetToSeq({[skill |-> s, grade |-> 1] : s \in Given})]
  BY DEF Init
<1>2. \A rs \in Seq(SkillRow) : rs \in Seq(WideSkillRow)
  <2>1. \A r \in SkillRow : r \in WideSkillRow
    BY DEF SkillRow, WideSkillRow
  <2>. SUFFICES ASSUME NEW rs \in Seq(SkillRow) PROVE rs \in Seq(WideSkillRow)
    OBVIOUS
  <2>2. rs \in [1 .. Len(rs) -> WideSkillRow] /\ Len(rs) \in Nat
    BY <2>1, LenProperties, ElementOfSeq
  <2>. QED  BY <2>2, SeqDef
<1>3. SetToSeq({[skill |-> s, grade |-> 1] : s \in Given}) \in Seq(WideSkillRow)
  BY <1>2, GivenRows
<1>4. WideTables
  BY <1>1, <1>3 DEF WideTables, WideRow, NewRow, Idle
<1>5. OwnTyped /\ ~InHand
  BY <1>1 DEF OwnTyped, Idle, InHand
<1>6. WideMemory
  <2>1. HitInv
    BY <1>1, <1>5, Nobody, Halves DEF HitInv, InHand
  <2>2. NoSkills \in [Skills -> Nat]
    BY DEF NoSkills
  <2>. QED  BY <1>1, <2>1, <2>2, Nobody DEF WideMemory
<1>7. WideHolder /\ WideLink
  BY <1>1, EmptySeq DEF WideHolder, WideLink, Free
<1>. QED  BY <1>1, <1>4, <1>5, <1>6, <1>7 DEF Wide

LEMMA WideKept == Wide /\ [Next]_vars => Wide'
<1>. SUFFICES ASSUME Wide, [Next]_vars PROVE Wide'
  OBVIOUS
<1>1. CASE Session
  BY <1>1, SessionWide
<1>2. CASE OnLoadPlayer
  BY <1>2, OnLoadPlayerWide
<1>3. CASE OnLoadSkills
  BY <1>3, OnLoadSkillsWide
<1>4. CASE Spend
  BY <1>4, OnUpdatePropertyWide, SkillWide, WritePointsWide, SendStatsWide, SendSkillWide
     DEF Spend
<1>5. CASE Hold
  BY <1>5, HoldStepWide
<1>6. CASE Database
  BY <1>6, DatabaseWide
<1>7. CASE GameServerStops \/ DatabaseServerStops
  BY <1>7, StopsWide
<1>8. CASE UNCHANGED vars
  <2>1. /\ UNCHANGED <<mode, have, data, skills, hit, own, holder, s2d, d2s, slipped, early>>
        /\ UNCHANGED database
    BY <1>8 DEF vars, memory, history
  <2>. QED  BY <2>1, WideMemorySame, WideHolderSame, WideLinkSame, WideTablesSame DEF Wide
<1>. QED  BY <1>1, <1>2, <1>3, <1>4, <1>5, <1>6, <1>7, <1>8 DEF Next

-----------------------------------------------------------------------------
(* The theorems.                                                            *)

\* A client that has been early has been it for ever.
LEMMA EarlyStays == [Next]_vars /\ ~early' /\ early \in BOOLEAN => ~early
BY DEF Next, vars, memory, database, history, Session, Spend, Hold, Database, Connect,
       RequestLoad, OnStart, OnRestart, OnDisconnected, OnLoadPlayer, OnLoadSkills,
       OnUpdateProperty, MayAskForSkill, OnSkillUp, OnLearnSkill, WritePoints, SendStats,
       SendSkill, UpdateExp, LoseExp, LevelUp, Tick, SendSnapshot, SaveAllProperty,
       UpdateProperty, LearnSkill, UpgradeSkill, UpdateSUPoint, LoadPlayer,
       GameServerStops, DatabaseServerStops

\* In every state that any clients reach: the types, and the bonus, are right; and as
\* long as nobody has started, or used a skill, before his skills had arrived, the
\* packets on their way bring the tables to what the player is, but for what his
\* threads have in hand, and no packet before the last one brings them to more than
\* his levels granted.
THEOREM GrowthInvariant == Spec => [](Wide /\ (~early => Inv))
<1>. DEFINE All == Wide /\ (~early => Inv)
<1>1. Init => All
  BY InitInv, WideFirst
<1>2. All /\ [Next]_vars => All'
  <2>. SUFFICES ASSUME Wide, ~early => Inv, [Next]_vars
                PROVE  Wide' /\ (~early' => Inv')
    OBVIOUS
  <2>1. Wide'
    BY WideKept
  <2>2. ASSUME ~early' PROVE Inv'
    <3>1. ~early
      BY <2>2, EarlyStays DEF Wide
    <3>. QED  BY <2>2, <3>1, NextKeeps
  <2>. QED  BY <2>1, <2>2
<1>. QED  BY <1>1, <1>2, PTL DEF Spec

LEMMA InvTypes == Wide /\ (~early => Inv) => TypeOK
<1>. SUFFICES ASSUME Wide, ~early => Inv PROVE TypeOK
  OBVIOUS
<1>1. /\ WideMemory /\ OwnTyped /\ WideHolder /\ WideTables
      /\ slipped \in BOOLEAN /\ early \in BOOLEAN
  BY DEF Wide
<1>2. ASSUME ~early
      PROVE  /\ have # "none" => data.pid \in Pids /\ data.level \in 1 .. MaxLevel
             /\ have # "none" => data.stat <= MaxStat
             /\ skills \in [Skills -> 0 .. MaxGrade]
             /\ row \in [Pids -> Row]
  <2>1. MemoryTyped /\ TablesTyped
    BY <1>2 DEF Inv, TypesInv
  <2>2. ASSUME have # "none"
        PROVE  data.pid \in Pids /\ data.level \in 1 .. MaxLevel /\ data.stat <= MaxStat
    <3>1. data \in InMemory /\ data.pid \in Pids /\ data.level >= 1
      BY <2>1, <2>2 DEF MemoryTyped, Grown
    <3>. QED  BY <3>1, DataIs, Limits
  <2>. QED  BY <2>1, <2>2 DEF MemoryTyped, TablesTyped, Learned
<1>. QED  BY <1>1, <1>2 DEF TypeOK, WideMemory, OwnTyped, WideHolder, WideTables

\* No number of points ever goes below zero, in memory or in a table, whatever the
\* clients wait for: each handler subtracts from the value that it has compared with
\* the price, whatever the other thread has written since.  The limits of level,
\* statistics and grades are kept until a client has been early.
THEOREM GrowthTyped == Spec => []TypeOK
BY GrowthInvariant, InvTypes, PTL

\* SkillManager::Add refuses nothing that the database server answers, as long as no
\* client has been early: there is one row for each skill, and a player is loaded
\* into a manager that is empty.
THEOREM SkillsAlwaysLoad == Spec => [](~early => SkillsLoad)
<1>1. Wide /\ (~early => Inv) => (~early => SkillsLoad)
  BY DEF Inv, Phases, SkillsLoad
<1>. QED  BY <1>1, GrowthInvariant, PTL

LEMMA InvKept == (~early => Inv) => ProgressKept
<1>. SUFFICES ASSUME Inv, mode = "loading", have = "skills", left[data.pid] # NoOne
              PROVE  data = left[data.pid].data /\ skills = left[data.pid].skills
  BY DEF ProgressKept
<1>1. PICK p \in Pids : Loaded(p)
  BY DEF Inv, Phases, Asked, Refused, Answered, HalfLoaded
<1>2. /\ s2d = <<>> /\ dbpc = Idle /\ skills = Grades(rows[p]) /\ data = Restored(p, row[p])
      /\ data.pid = p
  BY <1>1 DEF Loaded, Restored
<1>3. PICK f \in Stored : Ends(f)
  BY DEF Inv, Order
<1>4. f = Current
  BY <1>2, <1>3, LeadsNowhere DEF Ends
<1>5. left[p] = [data |-> Restored(p, f.row[p]), skills |-> f.grades[p]]
  BY <1>2, <1>3 DEF Ends, Settled
<1>6. f.row[p] = row[p] /\ f.grades[p] = Grades(rows[p])
  BY <1>2, <1>4, CurrentIdle
<1>. QED  BY <1>2, <1>5, <1>6

\* What a player is when he is loaded is what he was when he left, for any number of
\* packets that were on their way then, and any requests that were refused in between.
THEOREM ProgressIsKept == Spec => []ProgressKept
<1>1. Wide /\ (~early => Inv) => ProgressKept
  BY InvKept
<1>. QED  BY <1>1, GrowthInvariant, PTL

LEMMA InvFair == (~early => Inv) => NoFreePoints
<1>. SUFFICES ASSUME Inv, ~slipped
              PROVE  /\ have # "none" /\ own.at \notin {"stats", "skill"} =>
                           /\ data.pu + PaidPU(data.stat) <= EarnedPU(data.level)
                           /\ have = "skills" /\ mode = "ingame" =>
                                 data.su + PaidSU(skills) <= data.level - 1
                     /\ \A p \in Pids :
                           /\ row[p].pu + PaidPU(row[p].stat) <= EarnedPU(row[p].level)
                           /\ dbpc = Idle => row[p].su + PaidSU(Grades(rows[p])) <= row[p].level - 1
  BY DEF NoFreePoints
<1>1. PICK f \in Stored : Ends(f)
  BY DEF Inv, Order
<1>2. s2d \in Seq(Message) /\ row \in [Pids -> Row]
  BY DEF Inv, TypesInv, LinkTyped, TablesTyped
<1>3. Fair(Current)
  BY <1>1, <1>2, LeadsEnds DEF Ends
<1>4. ASSUME NEW p \in Pids
      PROVE  row[p].pu + PaidPU(row[p].stat) <= EarnedPU(row[p].level)
  <2>1. Current.row[p] = IF dbpc.at = "points" /\ dbpc.pid = p
                         THEN [row[p] EXCEPT !.su = dbpc.su] ELSE row[p]
    BY DEF Current
  <2>2. /\ Current.row[p].pu = row[p].pu /\ Current.row[p].stat = row[p].stat
        /\ Current.row[p].level = row[p].level
    <3>1. row[p] \in Row
      BY <1>2
    <3>. QED  BY <2>1, <3>1 DEF Row
  <2>. QED  BY <1>3, <2>2 DEF Fair, FairRow
<1>5. ASSUME NEW p \in Pids, dbpc = Idle
      PROVE  row[p].su + PaidSU(Grades(rows[p])) <= row[p].level - 1
  BY <1>3, <1>5, CurrentIdle DEF Fair, FairRow
<1>6. have # "none" /\ own.at # "stats" => data.pu + PaidPU(data.stat) <= EarnedPU(data.level)
  BY DEF Inv, Honest
<1>7. mode = "ingame" /\ own.at # "skill" => data.su + PaidSU(skills) <= data.level - 1
  BY <1>1 DEF Ends, InStep, PayingSkills
<1>. QED  BY <1>4, <1>5, <1>6, <1>7

\* Nobody has, or is remembered to have, more points than his levels granted, for any
\* prices and grants, for any interleaving of his own thread with kills and ticks, and
\* wherever the game server stops, until an unsynchronised update is lost or a client
\* is early.
THEOREM NobodyGetsFreePoints == Spec => []NoFreePoints
<1>1. Wide /\ (~early => Inv) => NoFreePoints
  BY InvFair
<1>. QED  BY <1>1, GrowthInvariant, PTL

\* The bonus of the passive skill is that of its grade, whatever the clients wait for.
THEOREM BonusMatchesGrade == Spec => []HitMatchesMastery
<1>1. Wide /\ (~early => Inv) => HitMatchesMastery
  BY DEF Wide, WideMemory, HitInv, HitMatchesMastery, Half
<1>. QED  BY <1>1, GrowthInvariant, PTL

=============================================================================
