SPECIFICATION Spec
CONSTANTS
    p1 = p1
    p2 = p2
    mastery = mastery
    slash = slash
    behead = behead
    Pids = {p1}
    Skills = {mastery, slash}
    Given = {mastery}
    Mastery = mastery
    Trainable = {mastery, slash}
    Required <- MCRequired
    LevelLimit <- MCLevelLimit
    MaxGrade = 2
    MaxLevel = 3
    MaxStat = 2
    NeedExp <- MCNeedExp
    NeedPU <- MCNeedPU
    LevelPU <- MCLevelPU
    Amounts = {1, 2}
    Losses = {1}
    NoOne = NoOne
    NoSkill = NoSkill
    Leftover <- MCLeftover
    MaxPoints = 5
    MaxRows = 2
    MaxInFlight = 1
INVARIANTS   HitMatchesMastery
