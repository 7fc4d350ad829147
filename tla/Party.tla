-------------------------------- MODULE Party --------------------------------
(***************************************************************************)
(* Parties of players, and the mutexes their handlers take.                *)
(*                                                                         *)
(* The handlers of different players run in different threads, beside the  *)
(* thread that executes World::Tick every second.  A player's mutex guards *)
(* his m_party and m_party_inviter_id; the entities mutex guards m_players *)
(* and m_parties; a party's own mutex is held inside AddMember and         *)
(* RemoveMember only, while GetSize and GetLeader read the list of members *)
(* without it.                                                             *)
(*                                                                         *)
(* A step of a handler ends where it needs a mutex that it does not hold,  *)
(* or before it reads something that no mutex it holds guards.  The guard  *)
(* of the next step is that the mutex is free: a handler that waits for    *)
(* one is a thread whose step is not enabled.                              *)
(***************************************************************************)
EXTENDS Naturals, SequencesExt

CONSTANTS
    Players,       \* the Player objects of the sessions
    Parties,       \* bound: the Party objects that exist at once
    MaxPartySize,  \* Party::MAX_PARTY_SIZE
    Ticker,        \* the thread of World::Tick
    NoPlayer,      \* no player, no thread: a free mutex, a null pointer
    NoParty        \* a null m_party

ASSUME MaxPartySizeAssumption == MaxPartySize \in Nat /\ MaxPartySize >= 2
ASSUME TickerAssumption       == Ticker \notin Players
ASSUME NoPlayerAssumption     == NoPlayer \notin Players \cup {Ticker}
ASSUME NoPartyAssumption      == NoParty \notin Parties

VARIABLES
    pc,       \* [Threads -> State]: what a thread is about to do
    tgt,      \* [Threads -> Players]: the other player its handler is about
    why,      \* [Players -> Reason]: the handler that called LeaveParty
    lock,     \* [Players -> Threads]: the holder of Character::m_mtx
    ent,      \* the holder of World::m_entities_rmtx
    inWorld,  \* the players in World::m_players
    alive,    \* the players whose session exists
    party,    \* [Players -> Parties]: m_party
    members,  \* [Parties -> Seq(Players)]: m_members_list, the leader first
    parties,  \* World::m_parties
    inviter,  \* [Players -> Players]: m_party_inviter_id
    fault     \* "none", or what has ended the process

vars == <<pc, tgt, why, lock, ent, inWorld, alive, party, members, parties, inviter, fault>>

\* The handlers of a player run one after another in one thread.
Threads == Players \cup {Ticker}

\* A handler and the mutex it waits for, or what it reads next.
State == {"idle", "closing", "ask_entities", "ask_invited", "answer_entities",
          "answer_inviter", "ban_entities", "ban_banned", "ban_size", "expel_own",
          "leave_size", "leave_leader", "leave_lock", "leave_entities", "leave_end",
          "remove_entities", "tick_player"}

Reason == {"leave", "restart", "disconnect"}

Fault == {"none", "no_leader", "destroyed_leader", "absent_member"}

Init ==
    /\ pc = [t \in Threads |-> "idle"]
    /\ tgt = [t \in Threads |-> NoPlayer]
    /\ why = [p \in Players |-> "leave"]
    /\ lock = [p \in Players |-> NoPlayer]
    /\ ent = NoPlayer
    /\ inWorld = {}
    /\ alive = Players
    /\ party = [p \in Players |-> NoParty]
    /\ members = [q \in Parties |-> <<>>]
    /\ parties = {}
    /\ inviter = [p \in Players |-> NoPlayer]
    /\ fault = "none"

-----------------------------------------------------------------------------
(* What the handlers share.                                                 *)

EntitiesFree == ent = NoPlayer
Free(p) == lock[p] = NoPlayer

\* A handler of thread t goes on from one state to another.
Goto(t, from, to) == pc[t] = from /\ pc' = [pc EXCEPT ![t] = to]

\* It returns: the guards on its stack release what it holds.
Return(t, from) ==
    /\ Goto(t, from, "idle")
    /\ tgt' = [tgt EXCEPT ![t] = NoPlayer]
    /\ lock' = [p \in Players |-> IF lock[p] = t THEN NoPlayer ELSE lock[p]]
    /\ ent' = IF ent = t THEN NoPlayer ELSE ent

\* C2S_ packets of a player in the world, and the end of his connection.
CanHandle(p) == pc[p] = "idle" /\ p \in inWorld

HasParty(p) == party[p] # NoParty
GetLeader(q) == IF members[q] = <<>> THEN NoPlayer ELSE Head(members[q])
IsPartyLeader(p) == HasParty(p) /\ GetLeader(party[p]) = p

WithoutMember(q, p) ==
    RemoveAt(members[q], CHOOSE i \in DOMAIN members[q] : members[q][i] = p)

\* It throws if the player is not in the list.
RemoveMember(q, p) ==
    \/ /\ p \in ToSet(members[q])
       /\ members' = [members EXCEPT ![q] = WithoutMember(q, p)]
       /\ UNCHANGED fault
    \/ /\ p \notin ToSet(members[q])
       /\ fault' = "absent_member"
       /\ UNCHANGED members

\* Party objects that nothing refers to.
FreeParties == {q \in Parties \ parties : \A p \in Players : party[p] # q}

-----------------------------------------------------------------------------
(* OnStart, as far as it concerns m_players.                                *)

OnStart(p) ==
    /\ pc[p] = "idle" /\ p \in alive \ inWorld
    /\ EntitiesFree
    /\ inWorld' = inWorld \cup {p}
    /\ UNCHANGED <<pc, tgt, why, lock, ent, alive, party, members, parties, inviter, fault>>

-----------------------------------------------------------------------------
(* OnAskParty.                                                              *)

\* Returns at once unless p may invite.
AskLock(p, i) ==
    /\ CanHandle(p) /\ Free(p) /\ i # p
    /\ HasParty(p) => GetLeader(party[p]) = p
    /\ Goto(p, "idle", "ask_entities")
    /\ tgt' = [tgt EXCEPT ![p] = i]
    /\ lock' = [lock EXCEPT ![p] = p]
    /\ UNCHANGED <<why, ent, inWorld, alive, party, members, parties, inviter, fault>>

\* ForPlayer does not find i, or he is too far away; or the lambda goes on.
AskEntities(p) ==
    /\ EntitiesFree
    /\ \/ Return(p, "ask_entities")
       \/ /\ tgt[p] \in inWorld
          /\ Goto(p, "ask_entities", "ask_invited")
          /\ ent' = p
          /\ UNCHANGED <<tgt, lock>>
    /\ UNCHANGED <<why, inWorld, alive, party, members, parties, inviter, fault>>

AskInvited(p) ==
    /\ Return(p, "ask_invited")
    /\ Free(tgt[p])
    /\ inviter' = IF HasParty(tgt[p]) THEN inviter ELSE [inviter EXCEPT ![tgt[p]] = p]
    /\ UNCHANGED <<why, inWorld, alive, party, members, parties, fault>>

-----------------------------------------------------------------------------
(* OnAskPartyAnswer.                                                        *)

AnswerLock(p) ==
    /\ CanHandle(p) /\ Free(p)
    /\ ~HasParty(p) /\ inviter[p] # NoPlayer
    /\ Goto(p, "idle", "answer_entities")
    /\ tgt' = [tgt EXCEPT ![p] = inviter[p]]
    /\ lock' = [lock EXCEPT ![p] = p]
    /\ UNCHANGED <<why, ent, inWorld, alive, party, members, parties, inviter, fault>>

\* The inviter is not in the world; or the invitation is used up, and refused
\* (or he is too far away), or accepted (within the bound on parties).
AnswerEntities(p) ==
    /\ EntitiesFree
    /\ \/ /\ tgt[p] \notin inWorld
          /\ Return(p, "answer_entities")
          /\ UNCHANGED inviter
       \/ /\ tgt[p] \in inWorld
          /\ inviter' = [inviter EXCEPT ![p] = NoPlayer]
          /\ \/ Return(p, "answer_entities")
             \/ /\ FreeParties # {}
                /\ Goto(p, "answer_entities", "answer_inviter")
                /\ ent' = p
                /\ UNCHANGED <<tgt, lock>>
    /\ UNCHANGED <<why, inWorld, alive, party, members, parties, fault>>

\* The inviter forms a party with p, or lets him join his own.
NewParty(i, p) ==
    \E q \in FreeParties :
        /\ members' = [members EXCEPT ![q] = <<i, p>>]
        /\ party' = [party EXCEPT ![i] = q, ![p] = q]
        /\ parties' = parties \cup {q}

\* AddMember refuses a player if the party is full.
AddMember(i, p) ==
    LET q == party[i] IN
    /\ Len(members[q]) < MaxPartySize
    /\ members' = [members EXCEPT ![q] = Append(@, p)]
    /\ party' = [party EXCEPT ![p] = q]
    /\ UNCHANGED parties

AnswerInviter(p) ==
    LET i == tgt[p] IN
    /\ Return(p, "answer_inviter")
    /\ Free(i)
    /\ \/ ~HasParty(i) /\ NewParty(i, p)
       \/ IsPartyLeader(i) /\ AddMember(i, p)
       \/ /\ HasParty(i)
          /\ IsPartyLeader(i) => Len(members[party[i]]) >= MaxPartySize
          /\ UNCHANGED <<members, party, parties>>
    /\ UNCHANGED <<why, inWorld, alive, inviter, fault>>

-----------------------------------------------------------------------------
(* BanFromParty, from OnExileParty and from the command /expelparty, which  *)
(* looks for the player by name and so holds the entities mutex already.    *)

BanLock(p, b) ==
    /\ CanHandle(p) /\ Free(p) /\ b # p
    /\ IsPartyLeader(p)
    /\ Goto(p, "idle", "ban_entities")
    /\ tgt' = [tgt EXCEPT ![p] = b]
    /\ lock' = [lock EXCEPT ![p] = p]
    /\ UNCHANGED <<why, ent, inWorld, alive, party, members, parties, inviter, fault>>

BanEntities(p) ==
    /\ EntitiesFree
    /\ \/ tgt[p] \notin inWorld /\ Return(p, "ban_entities")
       \/ /\ tgt[p] \in inWorld
          /\ Goto(p, "ban_entities", "ban_banned")
          /\ ent' = p
          /\ UNCHANGED <<tgt, lock>>
    /\ UNCHANGED <<why, inWorld, alive, party, members, parties, inviter, fault>>

ExpelEntities(p, b) ==
    /\ CanHandle(p) /\ EntitiesFree
    /\ b \in inWorld \ {p}
    /\ Goto(p, "idle", "expel_own")
    /\ tgt' = [tgt EXCEPT ![p] = b]
    /\ ent' = p
    /\ UNCHANGED <<why, lock, inWorld, alive, party, members, parties, inviter, fault>>

ExpelLock(p) ==
    /\ Free(p)
    /\ \/ ~IsPartyLeader(p) /\ Return(p, "expel_own")
       \/ /\ IsPartyLeader(p)
          /\ Goto(p, "expel_own", "ban_banned")
          /\ lock' = [lock EXCEPT ![p] = p]
          /\ UNCHANGED <<tgt, ent>>
    /\ UNCHANGED <<why, inWorld, alive, party, members, parties, inviter, fault>>

\* Variant: the banned player keeps his m_party.
BanBannedKeepsParty(p) ==
    LET b == tgt[p] IN
    /\ pc[p] = "ban_banned" /\ Free(b) /\ party[b] = party[p]
    /\ Goto(p, "ban_banned", "ban_size")
    /\ lock' = [lock EXCEPT ![b] = p]
    /\ RemoveMember(party[p], b)
    /\ UNCHANGED <<tgt, ent, why, inWorld, alive, party, parties, inviter>>

\* Variant: anybody who has a party can be banned from this one.
BanBannedOfAnyParty(p) ==
    LET b == tgt[p] IN
    /\ pc[p] = "ban_banned" /\ Free(b) /\ HasParty(b)
    /\ Goto(p, "ban_banned", "ban_size")
    /\ lock' = [lock EXCEPT ![b] = p]
    /\ RemoveMember(party[p], b)
    /\ party' = [party EXCEPT ![b] = NoParty]
    /\ UNCHANGED <<tgt, ent, why, inWorld, alive, parties, inviter>>

BanBanned(p) ==
    LET b == tgt[p] IN
    /\ pc[p] = "ban_banned" /\ Free(b)
    /\ \/ /\ party[b] # party[p]
          /\ Return(p, "ban_banned")
          /\ UNCHANGED <<party, members, fault>>
       \/ /\ party[b] = party[p]
          /\ Goto(p, "ban_banned", "ban_size")
          /\ lock' = [lock EXCEPT ![b] = p]
          /\ RemoveMember(party[p], b)
          /\ party' = [party EXCEPT ![b] = NoParty]
          /\ UNCHANGED <<tgt, ent>>
    /\ UNCHANGED <<why, inWorld, alive, parties, inviter>>

\* A party of one ends, and stays in m_parties.
BanSize(p) ==
    /\ Return(p, "ban_size")
    /\ \/ /\ Len(members[party[p]]) = 1
          /\ RemoveMember(party[p], p)
          /\ party' = [party EXCEPT ![p] = NoParty]
       \/ /\ Len(members[party[p]]) # 1
          /\ UNCHANGED <<party, members, fault>>
    /\ UNCHANGED <<why, inWorld, alive, parties, inviter>>

-----------------------------------------------------------------------------
(* LeaveParty, from OnLeaveParty, OnRestart and OnDisconnected; the latter  *)
(* two then remove the player from the world.                               *)

\* Variant: only C2S_LEAVEPARTY leaves the party.
LeaveLockOnRequest(p, reason) ==
    /\ CanHandle(p) /\ Free(p)
    /\ lock' = [lock EXCEPT ![p] = p]
    /\ why' = [why EXCEPT ![p] = reason]
    /\ \/ /\ HasParty(p) /\ reason = "leave"
          /\ Goto(p, "idle", "leave_size")
          /\ RemoveMember(party[p], p)
       \/ /\ reason # "leave"
          /\ Goto(p, "idle", "remove_entities")
          /\ UNCHANGED <<members, fault>>
    /\ UNCHANGED <<tgt, ent, inWorld, alive, party, parties, inviter>>

LeaveLock(p, reason) ==
    /\ CanHandle(p) /\ Free(p)
    /\ lock' = [lock EXCEPT ![p] = p]
    /\ why' = [why EXCEPT ![p] = reason]
    /\ \/ /\ HasParty(p)
          /\ Goto(p, "idle", "leave_size")
          /\ RemoveMember(party[p], p)
       \/ /\ ~HasParty(p) /\ reason # "leave"
          /\ Goto(p, "idle", "remove_entities")
          /\ UNCHANGED <<members, fault>>
    /\ UNCHANGED <<tgt, ent, inWorld, alive, party, parties, inviter>>

LeaveSize(p) ==
    /\ Goto(p, "leave_size",
            IF Len(members[party[p]]) = 1 THEN "leave_leader" ELSE "leave_end")
    /\ UNCHANGED <<tgt, why, lock, ent, inWorld, alive, party, members, parties, inviter, fault>>

\* GetLeader of a list that is empty by now is a null pointer.
LeaveLeader(p) ==
    LET leader == GetLeader(party[p]) IN
    /\ Goto(p, "leave_leader", "leave_lock")
    /\ tgt' = [tgt EXCEPT ![p] = leader]
    /\ fault' = IF leader = NoPlayer THEN "no_leader" ELSE fault
    /\ UNCHANGED <<why, lock, ent, inWorld, alive, party, members, parties, inviter>>

LeaveLeaderLock(p) ==
    LET leader == tgt[p] IN
    /\ pc[p] = "leave_lock"
    /\ \/ /\ leader \notin alive
          /\ fault' = "destroyed_leader"
          /\ UNCHANGED <<pc, lock>>
       \/ /\ leader \in alive /\ Free(leader)
          /\ \/ HasParty(leader) /\ Goto(p, "leave_lock", "leave_entities")
                /\ lock' = [lock EXCEPT ![leader] = p]
             \/ ~HasParty(leader) /\ Goto(p, "leave_lock", "leave_end")
                /\ UNCHANGED lock
          /\ UNCHANGED fault
    /\ UNCHANGED <<tgt, why, ent, inWorld, alive, party, members, parties, inviter>>

\* The party that ends is the one the leader has now.
LeaveEntities(p) ==
    LET leader == tgt[p] IN
    /\ EntitiesFree
    /\ Goto(p, "leave_entities", "leave_end")
    /\ parties' = parties \ {party[leader]}
    /\ RemoveMember(party[leader], leader)
    /\ party' = [party EXCEPT ![leader] = NoParty]
    /\ lock' = [lock EXCEPT ![leader] = NoPlayer]
    /\ UNCHANGED <<tgt, why, ent, inWorld, alive, inviter>>

LeaveEnd(p) ==
    /\ party' = [party EXCEPT ![p] = NoParty]
    /\ \/ why[p] = "leave" /\ Return(p, "leave_end")
       \/ /\ why[p] # "leave"
          /\ Goto(p, "leave_end", "remove_entities")
          /\ tgt' = [tgt EXCEPT ![p] = NoPlayer]
          /\ UNCHANGED <<lock, ent>>
    /\ UNCHANGED <<why, inWorld, alive, members, parties, inviter, fault>>

\* World::Remove, and the end of OnRestart or of OnDisconnected.
RemoveEntities(p) ==
    /\ EntitiesFree
    /\ Goto(p, "remove_entities", IF why[p] = "disconnect" THEN "closing" ELSE "idle")
    /\ inWorld' = inWorld \ {p}
    /\ lock' = [lock EXCEPT ![p] = NoPlayer]
    /\ why' = [why EXCEPT ![p] = "leave"]
    /\ UNCHANGED <<tgt, ent, alive, party, members, parties, inviter, fault>>

\* The session, its owner, is erased: the Player object is destroyed.
EraseSession(p) ==
    /\ Goto(p, "closing", "idle")
    /\ alive' = alive \ {p}
    /\ UNCHANGED <<tgt, why, lock, ent, inWorld, party, members, parties, inviter, fault>>

-----------------------------------------------------------------------------
(* The tick thread.  It stands for the other handlers that lock a player    *)
(* under the entities mutex and change no party (OnAttack, the skills,      *)
(* Monster::DistributeExp) as well.                                         *)

\* Tick saves every player whose last save is old: one of them per round is
\* enough here, since the entities mutex is held from the first to the last.
TickEntities ==
    /\ EntitiesFree
    /\ \E p \in inWorld : tgt' = [tgt EXCEPT ![Ticker] = p]
    /\ Goto(Ticker, "idle", "tick_player")
    /\ ent' = Ticker
    /\ UNCHANGED <<why, lock, inWorld, alive, party, members, parties, inviter, fault>>

TickPlayer ==
    /\ pc[Ticker] = "tick_player" /\ Free(tgt[Ticker])
    /\ Return(Ticker, "tick_player")
    /\ UNCHANGED <<why, inWorld, alive, party, members, parties, inviter, fault>>

-----------------------------------------------------------------------------
Ask(p)    == (\E i \in Players : AskLock(p, i)) \/ AskEntities(p) \/ AskInvited(p)
Answer(p) == AnswerLock(p) \/ AnswerEntities(p) \/ AnswerInviter(p)
Ban(p)    == \/ \E b \in Players : BanLock(p, b) \/ ExpelEntities(p, b)
             \/ BanEntities(p) \/ ExpelLock(p) \/ BanBanned(p) \/ BanSize(p)
Leave(p)  == \/ \E reason \in Reason : LeaveLock(p, reason)
             \/ LeaveSize(p) \/ LeaveLeader(p) \/ LeaveLeaderLock(p)
             \/ LeaveEntities(p) \/ LeaveEnd(p)
             \/ RemoveEntities(p) \/ EraseSession(p)

Next ==
    /\ fault = "none"
    /\ \/ \E p \in Players :
             OnStart(p) \/ Ask(p) \/ Answer(p) \/ Ban(p) \/ Leave(p)
       \/ TickEntities \/ TickPlayer

Spec == Init /\ [][Next]_vars

-----------------------------------------------------------------------------
(* Properties.                                                              *)

TypeOK ==
    /\ pc \in [Threads -> State]
    /\ tgt \in [Threads -> Players \cup {NoPlayer}]
    /\ why \in [Players -> Reason]
    /\ lock \in [Players -> Threads \cup {NoPlayer}]
    /\ ent \in Threads \cup {NoPlayer}
    /\ inWorld \subseteq alive
    /\ alive \subseteq Players
    /\ party \in [Players -> Parties \cup {NoParty}]
    /\ members \in [Parties -> Seq(Players)]
    /\ \A q \in Parties : Len(members[q]) <= MaxPartySize
    /\ parties \subseteq Parties
    /\ inviter \in [Players -> Players \cup {NoPlayer}]
    /\ fault \in Fault

\* A player in the list of a party has it as his party, once; and while nobody
\* holds his mutex, a player with a party is in its list.
MembersMatchParty ==
    /\ \A q \in Parties : IsInjective(members[q])
    /\ \A q \in Parties : \A p \in ToSet(members[q]) : party[p] = q
    /\ \A p \in Players : HasParty(p) /\ Free(p) => p \in ToSet(members[party[p]])

\* A party's list holds plain pointers: the players they point to are in the
\* world, so their sessions, which own them, exist.
MembersInWorld == \A q \in Parties : ToSet(members[q]) \subseteq inWorld

\* RemoveMember "throws an exception if player could not be found inside the
\* party": no interleaving of handlers makes it.
MemberFound == fault # "absent_member"

\* The thread whose mutex t waits for.
WaitsFor(t, u) ==
    \/ ent = u /\ pc[t] \in {"ask_entities", "answer_entities", "ban_entities",
                             "leave_entities", "remove_entities"}
    \/ /\ tgt[t] # NoPlayer /\ lock[tgt[t]] = u
       /\ pc[t] \in {"ask_invited", "answer_inviter", "ban_banned", "leave_lock", "tick_player"}
    \/ t # Ticker /\ lock[t] = u /\ pc[t] = "expel_own"

\* World.h: Tick "executes every second on separate thread": its thread is not
\* part of, nor held up by, a set of threads each of which waits for another.
TickNotBlocked ==
    ~ \E S \in SUBSET Threads : Ticker \in S /\ \A t \in S : \E u \in S : WaitsFor(t, u)

=============================================================================
