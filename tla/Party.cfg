SPECIFICATION Spec
CONSTANTS
    Players = {p1, p2, p3}
    Parties = {q1, q2}
    MaxPartySize = 3
    Ticker = Ticker
    NoPlayer = NoPlayer
    NoParty = NoParty
SYMMETRY Symmetry
CHECK_DEADLOCK FALSE
INVARIANTS
    MembersMatchParty
    MembersInWorld
    MemberFound
