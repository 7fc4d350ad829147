------------------------------- MODULE Growth -------------------------------
(***************************************************************************)
(* How a player grows: experience, levels, the points each level grants,   *)
(* and what the points are spent on, in the memory of the game server and  *)
(* in the tables player and skill.                                         *)
(*                                                                         *)
(* Three threads touch one player.  The thread of his connection (own)     *)
(* spends points and takes no mutex.  The thread of another connection     *)
(* whose player killed a monster (Monster::DistributeExp) and the thread   *)
(* of World::Tick work under Character::m_mtx (holder).  PUPoint and       *)
(* SUPoint are plain integers: += and -= are a read and a write.  A packet *)
(* is put together first and written to the stream later.                  *)
(*                                                                         *)
(* One account with one connection; its players take turns.                *)
(***************************************************************************)
EXTENDS Integers, Sequences, FiniteSetsExt, SequencesExt

CONSTANTS Pids,         \* PlayerID of the players of the account
          Skills,       \* indices of skills
          Given,        \* the skills player_after_insert gives a new player
          Mastery,      \* SK_WEAPON_MASTERY, the skill with an OnApply
          Trainable,    \* the skills of the job of the players
          Required,     \* RequiredSkillIndex and RequiredSkillGrade of a skill
          NoSkill,      \* a RequiredSkillIndex of 0: no skill is required
          LevelLimit,   \* InitSkill::LevelLimit
          MaxGrade,     \* InitSkill::MaxLevel
          MaxLevel,     \* MAX_LEVEL
          MaxStat,      \* MAX_STAT_DISTRIBUTED
          NeedExp,      \* g_n64NeedExpFinal
          NeedPU,       \* g_byNeedPU: the price of one more point of a stat
          LevelPU,      \* GET_PU_ON_LEVEL_UP
          Amounts,      \* amounts of experience that are given
          Losses,       \* amounts of experience that are taken
          NoOne,        \* an idplayer that is no player of the account
          Leftover,     \* what m_data may hold before the first load
          MaxInFlight,  \* bound: nothing is begun with more packets on the way
          MaxPoints,    \* bound: nothing is begun with more points in memory
          MaxRows       \* bound: nothing is begun with more rows of skills

ASSUME OwnSkills == IsFiniteSet(Skills) /\ Given \subseteq Skills /\ Mastery \in Skills
ASSUME Trained == Trainable \subseteq Skills /\ NoSkill \notin Skills
ASSUME NoPlayerIsNoOne == NoOne \notin Pids
ASSUME Limits == MaxGrade \in Nat \ {0} /\ MaxLevel \in Nat \ {0} /\ MaxStat \in Nat
ASSUME Tables == /\ \A l \in 0 .. MaxLevel - 1 : NeedExp[l] \in Nat
                 /\ \A i \in 0 .. MaxStat - 1 : NeedPU[i] \in Nat
                 /\ \A l \in 1 .. MaxLevel + 1 : LevelPU[l] \in Nat
ASSUME Experience == Amounts \subseteq Nat /\ Losses \subseteq Nat

\* A player in memory: what is followed of PLAYERINFO.
PlayerInfo == [pid : Pids \cup {NoOne}, level : Nat, exp : Nat,
               pu : Nat, su : Nat, stat : Nat]

ASSUME Uninitialised == Leftover \subseteq PlayerInfo

VARIABLES mode,     \* what the connection's roles allow, or "fault"
          have,     \* what has arrived since S2D_LOADPLAYER was sent
          data,     \* Player::m_data
          skills,   \* SkillManager::m_skills: the grade of each, 0: not learned
          hit,      \* m_property_point.nHit
          own,      \* where the handler of the connection stands
          holder,   \* where the thread that holds the player's mutex stands
          s2d,      \* packets to the database server
          d2s,      \* its answers
          dbpc,     \* the second statement of a handler of the database server
          row,      \* the table player
          rows,     \* the table skill: of each player a sequence
          slipped,  \* history: an update of a number has been lost, a snapshot
                    \* has overtaken a newer one, or the second of two
                    \* statements has not been executed
          early,    \* history: a client has started, or used a skill, before the
                    \* skills of his player had arrived
          left      \* history: a player as he was when he last left, until he is back;
                    \* nobody once a client has been early

memory == <<mode, have, data, skills, hit, own, holder>>
database == <<dbpc, row, rows>>
history == <<slipped, early, left>>
vars == <<memory, s2d, d2s, database, history>>

-----------------------------------------------------------------------------
(* Points. *)

\* GetReqPU of one stat: FIND_NEED_PU adds the price of every point.
GetReqPU(cur, add) == MapThenSumSet(LAMBDA i : NeedPU[i], cur .. (cur + add - 1))

\* SkillManager::GetByIndex and Skill::CanLearn.
Has(s) == skills[s] > 0
CanLearn(s) == skills[s] < MaxGrade

CanLearnSkill(s) ==
    /\ data.level >= LevelLimit[s]
    /\ s \in Trainable
    /\ data.su > 0
    /\ Required[s].skill # NoSkill =>
          /\ Has(Required[s].skill)
          /\ skills[Required[s].skill] >= Required[s].grade
    /\ CanLearn(s)

\* WeaponMastery::OnApply after a change of grade: what it adds to nHit.
OnApply(s, previous, grade) ==
    IF s = Mastery THEN grade \div 2 - previous \div 2 ELSE 0

Snapshot == [pid |-> data.pid, level |-> data.level, exp |-> data.exp,
             pu |-> data.pu, su |-> data.su]

Idle == [at |-> "idle"]
Free == [at |-> "free"]
NoSkills == [s \in Skills |-> 0]
NoPlayer == [pid |-> NoOne, level |-> 0, exp |-> 0, pu |-> 0, su |-> 0, stat |-> 0]
NewRow == [level |-> 1, exp |-> 0, pu |-> 0, su |-> 0, stat |-> 0]

\* Rows of the table skill after INSERT and after UPDATE ... WHERE idskill.
Inserted(rs, s, g) == Append(rs, [skill |-> s, grade |-> g])
Updated(rs, s, g) == [i \in DOMAIN rs |-> IF rs[i].skill = s
                                          THEN [rs[i] EXCEPT !.grade = g] ELSE rs[i]]

Grades(rs) == [s \in Skills |-> MapThenSumSet(LAMBDA i : rs[i].grade,
                                     {i \in DOMAIN rs : rs[i].skill = s})]

Restored(p, r) == [pid |-> p, level |-> r.level, exp |-> r.exp,
                   pu |-> r.pu, su |-> r.su, stat |-> r.stat]

-----------------------------------------------------------------------------
(* The connection: load, start, leave. *)

InGame == mode = "ingame" /\ own = Idle

Room ==
    /\ Len(s2d) < MaxInFlight /\ Len(d2s) <= MaxInFlight
    /\ data.pu + data.su <= MaxPoints
    /\ \A p \in Pids : Len(rows[p]) <= MaxRows

\* A log-in that succeeds: a new Player object, in the lobby.  m_data has no
\* initialiser.
Connect ==
    /\ mode = "away"
    /\ mode' = "lobby"
    /\ have' = "none"
    /\ data' \in Leftover
    /\ skills' = NoSkills
    /\ hit' = 0
    /\ UNCHANGED <<own, holder, s2d, d2s, database, history>>

\* p may be a player of another account, a deleted one, or none at all.
RequestLoad(p) ==
    /\ mode = "lobby" /\ own = Idle /\ Room
    /\ mode' = "loading"
    /\ have' = "none"
    /\ s2d' = Append(s2d, [type |-> "load", pid |-> p])
    /\ UNCHANGED <<data, skills, hit, own, holder, d2s, database, history>>

\* OnStart needs the role LOADING, which the request itself assigned: whether
\* the answers are waited for is up to the client, and after a refusal there
\* are none.
OnStart ==
    /\ mode = "loading" /\ own = Idle
    /\ mode' = "ingame"
    /\ early' = (early \/ have # "skills")
    /\ left' = [p \in Pids |-> IF early' \/ p = data.pid THEN NoOne ELSE left[p]]
    /\ UNCHANGED <<have, data, skills, hit, own, holder, s2d, d2s, database, slipped>>

\* The player as the database should give him back.
Leaving == [p \in Pids |-> IF early THEN NoOne
                           ELSE IF p = data.pid THEN [data |-> data, skills |-> skills]
                           ELSE left[p]]

\* Versions of OnRestart: without the mutex, and without Character::ResetStates.
OnRestartUnlocked ==
    /\ InGame
    /\ s2d' = Append(s2d, [type |-> "save", snap |-> Snapshot])
    /\ left' = Leaving
    /\ skills' = NoSkills
    /\ hit' = 0
    /\ mode' = "lobby"
    /\ UNCHANGED <<have, data, own, holder, d2s, database, slipped, early>>

OnRestartKeepsBonus ==
    /\ InGame /\ holder = Free
    /\ s2d' = Append(s2d, [type |-> "save", snap |-> Snapshot])
    /\ left' = Leaving
    /\ skills' = NoSkills
    /\ mode' = "lobby"
    /\ UNCHANGED <<have, data, hit, own, holder, d2s, database, slipped, early>>

\* OnRestart: save, forget the skills and the properties, back to the lobby.
OnRestart ==
    /\ InGame /\ holder = Free
    /\ s2d' = Append(s2d, [type |-> "save", snap |-> Snapshot])
    /\ left' = Leaving
    /\ skills' = NoSkills
    /\ hit' = 0
    /\ mode' = "lobby"
    /\ UNCHANGED <<have, data, own, holder, d2s, database, slipped, early>>

\* Answers for a UID that is gone are dropped, and LoadPlayer only reads: a
\* request of a connection that has ended may as well not be handled.
WithoutLoads(q) ==
    LET kept == {i \in DOMAIN q : q[i].type # "load"}
        nth(k) == CHOOSE i \in kept : Cardinality({j \in kept : j < i}) = k - 1
    IN  [k \in 1 .. Cardinality(kept) |-> q[nth(k)]]

\* OnDisconnected: save under the mutex if in the game; the object is gone.
OnDisconnected ==
    /\ mode \in {"lobby", "loading", "ingame"} /\ own = Idle
    /\ mode = "ingame" => holder = Free
    /\ s2d' = WithoutLoads(s2d) \o IF mode = "ingame"
                                   THEN <<[type |-> "save", snap |-> Snapshot]>>
                                   ELSE <<>>
    /\ d2s' = <<>>
    /\ left' = IF mode = "ingame" THEN Leaving ELSE left
    /\ mode' = "away"
    /\ have' = "none"
    /\ data' = NoPlayer
    /\ skills' = NoSkills
    /\ hit' = 0
    /\ UNCHANGED <<own, holder, database, slipped, early>>

-----------------------------------------------------------------------------
(* The callback of the database server. *)

OnLoadPlayer ==
    /\ d2s # <<>> /\ Head(d2s).type = "player"
    /\ mode # "fault"
    /\ d2s' = Tail(d2s)
    /\ data' = Head(d2s).data
    /\ have' = "player"
    /\ UNCHANGED <<mode, skills, hit, own, holder, s2d, database, history>>

\* SkillManager::Add refuses an index that is there already.
AllAdded(rs) ==
    \A i \in DOMAIN rs :
        /\ ~Has(rs[i].skill)
        /\ \A j \in 1 .. (i - 1) : rs[j].skill # rs[i].skill

\* The exception for a skill that is refused is made and not thrown, and the
\* next line calls OnApply of nullptr.
OnLoadSkills ==
    /\ d2s # <<>> /\ Head(d2s).type = "skills"
    /\ mode # "fault"
    /\ d2s' = Tail(d2s)
    /\ LET rs == Head(d2s).rows
           loaded == Grades(rs)
       IN  IF AllAdded(rs)
           THEN /\ skills' = [s \in Skills |-> skills[s] + loaded[s]]
                /\ hit' = hit + OnApply(Mastery, 0, loaded[Mastery])
                /\ have' = "skills"
                /\ UNCHANGED <<mode, own, holder>>
           ELSE /\ mode' = "fault" /\ own' = Idle /\ holder' = Free
                /\ UNCHANGED <<have, skills, hit>>
    /\ UNCHANGED <<data, s2d, database, history>>

-----------------------------------------------------------------------------
(* The connection: spending points, without the mutex. *)

\* OnUpdateProperty up to reading PUPoint for the subtraction.
OnUpdateProperty(add) ==
    /\ InGame /\ Room
    /\ data.stat + add <= MaxStat
    /\ GetReqPU(data.stat, add) <= data.pu
    /\ data' = [data EXCEPT !.stat = @ + add]
    /\ own' = [at |-> "stats", was |-> data.pu, need |-> GetReqPU(data.stat, add)]
    /\ UNCHANGED <<mode, have, skills, hit, holder, s2d, d2s, database, history>>

\* Skill packets need no role.  What a client learns in the lobby is learned by
\* the player of the last load.
MayAskForSkill ==
    /\ mode \in {"lobby", "loading", "ingame"} /\ own = Idle /\ Room
    /\ early' = (early \/ mode # "ingame")
    /\ left' = [p \in Pids |-> IF early' THEN NoOne ELSE left[p]]

OnSkillUp(s) ==
    /\ MayAskForSkill
    /\ CanLearnSkill(s)
    /\ Has(s)
    /\ skills' = [skills EXCEPT ![s] = @ + 1]
    /\ own' = [at |-> "skill", was |-> data.su, skill |-> s, type |-> "up"]
    /\ UNCHANGED <<mode, have, data, hit, holder, s2d, d2s, database, slipped>>

OnLearnSkill(s) ==
    /\ MayAskForSkill
    /\ CanLearnSkill(s)
    /\ ~Has(s)
    /\ skills' = [skills EXCEPT ![s] = 1]
    /\ own' = [at |-> "skill", was |-> data.su, skill |-> s, type |-> "learn"]
    /\ UNCHANGED <<mode, have, data, hit, holder, s2d, d2s, database, slipped>>

\* The write of -= and --.  An update by the holder since the read is lost, and
\* this one is lost if the holder has read and not written yet.
WritePoints ==
    /\ \/ /\ own.at = "stats"
          /\ data' = [data EXCEPT !.pu = own.was - own.need]
          /\ own' = [at |-> "statsWritten"]
          /\ slipped' = (slipped \/ data.pu # own.was \/ holder.at = "grow")
       \/ /\ own.at = "skill"
          /\ data' = [data EXCEPT !.su = own.was - 1]
          /\ own' = [at |-> "skillWritten", su |-> own.was - 1,
                     skill |-> own.skill, type |-> own.type]
          /\ slipped' = (slipped \/ data.su # own.was \/ holder.at = "grow")
    /\ UNCHANGED <<mode, have, skills, hit, holder, s2d, d2s, database, early, left>>

\* A packet is sent past a snapshot.  One taken before the points were spent will
\* bring them back in the table; one of a new level has not told the table of the
\* level whose points this packet counts.
Overtakes(points) ==
    /\ holder.at = "save"
    /\ holder.snap[points] > data[points] \/ holder.why = "level"

SendStats ==
    /\ own.at = "statsWritten"
    /\ s2d' = Append(s2d, [type |-> "stats", pid |-> data.pid,
                           stat |-> data.stat, pu |-> data.pu])
    /\ own' = Idle
    /\ slipped' = (slipped \/ Overtakes("pu"))
    /\ UNCHANGED <<mode, have, data, skills, hit, holder, d2s, database, early, left>>

\* S2D_SKILLUP or S2D_LEARNSKILL with what -- returned, and Skill::OnApply.
SendSkill ==
    /\ own.at = "skillWritten"
    /\ s2d' = Append(s2d, [type |-> own.type, pid |-> data.pid, skill |-> own.skill,
                           grade |-> skills[own.skill], su |-> own.su])
    /\ hit' = hit + OnApply(own.skill, IF own.type = "up" THEN skills[own.skill] - 1 ELSE 0,
                            skills[own.skill])
    /\ own' = Idle
    /\ slipped' = (slipped \/ Overtakes("su"))
    /\ UNCHANGED <<mode, have, data, skills, holder, d2s, database, early, left>>

-----------------------------------------------------------------------------
(* Threads that hold the player's mutex. *)

\* The loop of UpdateExp: does the player rise, and what has LevelUp read.
Rises(exp) == data.level < MaxLevel /\ exp > NeedExp[data.level]
Grow == [at |-> "grow", pu |-> data.pu, su |-> data.su]
Save(d, why) == [at |-> "save", why |-> why,
                 snap |-> [pid |-> d.pid, level |-> d.level, exp |-> d.exp,
                           pu |-> d.pu, su |-> d.su]]

\* UpdateExp of a killer in another thread, or of the command /getexp.
UpdateExp(amount) ==
    /\ mode = "ingame" /\ holder = Free /\ Room
    /\ data.level < MaxLevel
    /\ LET exp == data.exp + amount
       IN  IF Rises(exp)
           THEN /\ data' = [data EXCEPT !.exp = exp - NeedExp[data.level]]
                /\ holder' = Grow
           ELSE /\ data' = [data EXCEPT !.exp = exp]
                /\ UNCHANGED holder
    /\ UNCHANGED <<mode, have, skills, hit, own, s2d, d2s, database, history>>

\* UpdateExp of a negative amount takes what there is.
LoseExp(amount) ==
    /\ mode = "ingame" /\ holder = Free /\ Room
    /\ data' = [data EXCEPT !.exp = IF amount > @ THEN 0 ELSE @ - amount]
    /\ UNCHANGED <<mode, have, skills, hit, own, holder, s2d, d2s, database, history>>

\* LevelUp: the writes, and the snapshot of SaveAllProperty.  A load that comes
\* late may have brought a player of MAX_LEVEL; the level after it is the bound.
LevelUp ==
    /\ holder.at = "grow" /\ data.level <= MaxLevel
    /\ LET grown == [data EXCEPT !.level = @ + 1,
                                 !.su = holder.su + 1,
                                 !.pu = holder.pu + LevelPU[data.level + 1]]
       IN  data' = grown /\ holder' = Save(grown, "level")
    /\ UNCHANGED <<mode, have, skills, hit, own, s2d, d2s, database, history>>

\* Player::Tick, once in SAVE_ALL_PROPERTY_INTERVAL; World::Cleanup does the same.
Tick ==
    /\ mode = "ingame" /\ holder = Free /\ Room
    /\ holder' = Save(data, "tick")
    /\ UNCHANGED <<mode, have, data, skills, hit, own, s2d, d2s, database, history>>

\* The packet is written; after a level the loop of UpdateExp goes on.
SendSnapshot ==
    /\ holder.at = "save"
    /\ s2d' = Append(s2d, [type |-> "save", snap |-> holder.snap])
    /\ LET exp == IF holder.why = "level" /\ data.level >= MaxLevel THEN 0 ELSE data.exp
           again == holder.why = "level" /\ Rises(exp)
       IN  /\ data' = [data EXCEPT !.exp = IF again THEN exp - NeedExp[data.level] ELSE exp]
           /\ holder' = IF again THEN Grow ELSE Free
    /\ UNCHANGED <<mode, have, skills, hit, own, d2s, database, history>>

-----------------------------------------------------------------------------
(* The database server: its handlers, one packet after another. *)

Received(type) == dbpc = Idle /\ s2d # <<>> /\ Head(s2d).type = type

SaveAllProperty ==
    /\ Received("save")
    /\ LET snap == Head(s2d).snap
       IN  row' = [p \in Pids |-> IF p # snap.pid THEN row[p] ELSE
                      [row[p] EXCEPT !.level = snap.level, !.exp = snap.exp,
                                     !.pu = snap.pu, !.su = snap.su]]
    /\ s2d' = Tail(s2d)
    /\ UNCHANGED <<memory, d2s, dbpc, rows, history>>

UpdateProperty ==
    /\ Received("stats")
    /\ LET m == Head(s2d)
       IN  row' = [p \in Pids |-> IF p # m.pid THEN row[p] ELSE
                      [row[p] EXCEPT !.stat = m.stat, !.pu = m.pu]]
    /\ s2d' = Tail(s2d)
    /\ UNCHANGED <<memory, d2s, dbpc, rows, history>>

\* INSERT or UPDATE of the skill; supoint follows in a second statement.
LearnSkill ==
    /\ Received("learn") /\ Head(s2d).pid \in Pids
    /\ LET m == Head(s2d)
       IN  /\ rows' = [rows EXCEPT ![m.pid] = Inserted(@, m.skill, 1)]
           /\ dbpc' = [at |-> "points", pid |-> m.pid, su |-> m.su]
    /\ s2d' = Tail(s2d)
    /\ UNCHANGED <<memory, d2s, row, history>>

\* A version of UpgradeSkill that forgets supoint.
UpgradeSkillUnpaid ==
    /\ Received("up")
    /\ LET m == Head(s2d)
       IN  rows' = [p \in Pids |-> IF p # m.pid THEN rows[p]
                                   ELSE Updated(rows[p], m.skill, m.grade)]
    /\ s2d' = Tail(s2d)
    /\ UNCHANGED <<memory, d2s, dbpc, row, history>>

UpgradeSkill ==
    /\ Received("up")
    /\ LET m == Head(s2d)
       IN  /\ rows' = [p \in Pids |-> IF p # m.pid THEN rows[p]
                                   ELSE Updated(rows[p], m.skill, m.grade)]
           /\ dbpc' = [at |-> "points", pid |-> m.pid, su |-> m.su]
    /\ s2d' = Tail(s2d)
    /\ UNCHANGED <<memory, d2s, row, history>>

UpdateSUPoint ==
    /\ dbpc.at = "points"
    /\ row' = [p \in Pids |-> IF p # dbpc.pid THEN row[p]
                             ELSE [row[p] EXCEPT !.su = dbpc.su]]
    /\ dbpc' = Idle
    /\ UNCHANGED <<memory, s2d, d2s, rows, history>>

\* LoadPlayer and LoadSkills: two packets.  A refusal is one, which makes the
\* game server write a message and is left out.
LoadPlayer ==
    /\ Received("load")
    /\ LET p == Head(s2d).pid
       IN  d2s' = IF p \in Pids
                  THEN d2s \o <<[type |-> "player", data |-> Restored(p, row[p])],
                                [type |-> "skills", rows |-> rows[p]]>>
                  ELSE d2s
    /\ s2d' = Tail(s2d)
    /\ UNCHANGED <<memory, database, history>>

-----------------------------------------------------------------------------
(* Failures. *)

\* The game server ends, by itself, with its link, or by the call on nullptr;
\* the database server has received any prefix of what was sent.
GameServerStops ==
    /\ mode # "away"
    /\ mode' = "away" /\ have' = "none" /\ data' = NoPlayer
    /\ skills' = NoSkills /\ hit' = 0 /\ own' = Idle /\ holder' = Free
    /\ \E n \in 0 .. Len(s2d) : s2d' = WithoutLoads(SubSeq(s2d, 1, n))
    /\ d2s' = <<>>
    /\ left' = [p \in Pids |-> NoOne]
    /\ UNCHANGED <<database, slipped, early>>

\* The database server ends between two statements, or by the exception for a
\* skill of a player who is not in the table, and the game server's link with it.
DatabaseServerStops ==
    /\ \/ dbpc # Idle
       \/ Received("learn") /\ Head(s2d).pid \notin Pids
    /\ dbpc' = Idle
    /\ mode' = "away" /\ have' = "none" /\ data' = NoPlayer
    /\ skills' = NoSkills /\ hit' = 0 /\ own' = Idle /\ holder' = Free
    /\ s2d' = <<>> /\ d2s' = <<>>
    /\ slipped' = TRUE
    /\ left' = [p \in Pids |-> NoOne]
    /\ UNCHANGED <<row, rows, early>>

-----------------------------------------------------------------------------
FirstGrades == [s \in Skills |-> IF s \in Given THEN 1 ELSE 0]

Init ==
    /\ mode = "away" /\ have = "none" /\ data = NoPlayer
    /\ skills = NoSkills /\ hit = 0 /\ own = Idle /\ holder = Free
    /\ s2d = <<>> /\ d2s = <<>>
    /\ dbpc = Idle
    /\ row = [p \in Pids |-> NewRow]
    /\ rows = [p \in Pids |-> SetToSeq({[skill |-> s, grade |-> 1] : s \in Given})]
    /\ slipped = FALSE /\ early = FALSE
    /\ left = [p \in Pids |-> [data |-> Restored(p, NewRow), skills |-> FirstGrades]]

Session ==
    \/ Connect
    \/ \E p \in Pids \cup {NoOne} : RequestLoad(p)
    \/ OnStart
    \/ OnRestart
    \/ OnDisconnected

Spend ==
    \/ \E add \in 1 .. MaxStat : OnUpdateProperty(add)
    \/ \E s \in Skills : OnSkillUp(s) \/ OnLearnSkill(s)
    \/ WritePoints
    \/ SendStats
    \/ SendSkill

Hold ==
    \/ \E amount \in Amounts : UpdateExp(amount)
    \/ \E amount \in Losses : LoseExp(amount)
    \/ LevelUp
    \/ Tick
    \/ SendSnapshot

Database ==
    \/ SaveAllProperty
    \/ UpdateProperty
    \/ LearnSkill
    \/ UpgradeSkill
    \/ UpdateSUPoint
    \/ LoadPlayer

Next ==
    \/ Session
    \/ OnLoadPlayer
    \/ OnLoadSkills
    \/ Spend
    \/ Hold
    \/ Database
    \/ GameServerStops
    \/ DatabaseServerStops

Spec == Init /\ [][Next]_vars

-----------------------------------------------------------------------------
(* Properties. *)

Row == [level : 1 .. MaxLevel, exp : Nat, pu : Nat, su : Nat, stat : 0 .. MaxStat]

\* The type of every variable: in particular no number of points ever goes below
\* zero (the fields are unsigned: it would become a very large one).  The limits
\* are kept until a client starts, or uses a skill, too early.
TypeOK ==
    /\ mode \in {"away", "lobby", "loading", "ingame", "fault"}
    /\ have \in {"none", "player", "skills"}
    /\ data \in PlayerInfo
    /\ skills \in [Skills -> Nat] /\ hit \in Nat
    /\ own.at \in {"idle", "stats", "statsWritten", "skill", "skillWritten"}
    /\ holder.at \in {"free", "grow", "save"}
    /\ dbpc.at \in {"idle", "points"}
    /\ slipped \in BOOLEAN /\ early \in BOOLEAN
    /\ ~early => /\ have # "none" => data.pid \in Pids /\ data.level \in 1 .. MaxLevel
                 /\ have # "none" => data.stat <= MaxStat
                 /\ skills \in [Skills -> 0 .. MaxGrade]
                 /\ row \in [Pids -> Row]

\* What a level has granted, and what has been paid.
EarnedPU(level) == MapThenSumSet(LAMBDA l : LevelPU[l], 2 .. level)
PaidPU(stat) == GetReqPU(0, stat)
PaidSU(grades) == MapThenSumSet(LAMBDA s : grades[s] - FirstGrades[s], Skills)

\* Nobody has, or is remembered to have, more points than his levels granted:
\* what is left and what has been spent never exceed it, in memory whenever the
\* connection is not in the middle of spending, and in the tables after every
\* packet, so that a game server that stops at any moment gives no points away.
\* It needs the order in which LevelUp, OnUpdateProperty and the skill handlers
\* change numbers and send them; it is lost with an unsynchronised update, and
\* with a client that does not wait for his skills.
NoFreePoints ==
    ~slipped /\ ~early =>
      /\ have # "none" /\ own.at \notin {"stats", "skill"} =>
            /\ data.pu + PaidPU(data.stat) <= EarnedPU(data.level)
            /\ have = "skills" /\ mode = "ingame" =>
                  data.su + PaidSU(skills) <= data.level - 1
      /\ \A p \in Pids :
            /\ row[p].pu + PaidPU(row[p].stat) <= EarnedPU(row[p].level)
            /\ dbpc = Idle => row[p].su + PaidSU(Grades(rows[p])) <= row[p].level - 1

\* What a player is when he is loaded is what he was when he left the game, by
\* OnRestart or by the end of his connection, with every race between his
\* handlers, levels gained by kills and the saves of the tick in between: the
\* save under the mutex is the last packet, and the database server handles it
\* before any request to load.  A client that has started too early has played a
\* player who was not all there.
ProgressKept ==
    ~early /\ mode = "loading" /\ have = "skills" /\ left[data.pid] # NoOne =>
        /\ data = left[data.pid].data
        /\ skills = left[data.pid].skills

\* The bonus that a passive skill has added is that of its grade, after any
\* number of upgrades, restarts and loads, and whatever the client waits for:
\* OnApply adds differences, and only Character::ResetStates takes them back.
HitMatchesMastery ==
    mode # "fault" /\ own.at \notin {"skill", "skillWritten"} =>
        hit = skills[Mastery] \div 2

\* Player.cpp:129 makes an exception for a skill that cannot be loaded: the
\* handler does not go on with a skill that SkillManager::Add has refused.
SkillsLoad == mode # "fault"

=============================================================================
