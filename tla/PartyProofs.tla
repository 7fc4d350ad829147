----------------------------- MODULE PartyProofs -----------------------------
(***************************************************************************)
(* Proofs about Party, for any players and parties.                        *)
(***************************************************************************)
EXTENDS Party, SequenceTheorems, TLAPS

\* A handler that has left its party, but whose m_party is still set.
Leaving == {"leave_size", "leave_leader", "leave_lock", "leave_entities", "leave_end"}

\* The handlers that hold the mutex of their own player.
HoldOwn == {"ask_entities", "ask_invited", "answer_entities", "answer_inviter",
            "ban_entities", "ban_banned", "ban_size", "remove_entities"} \cup Leaving

\* Those that hold the entities mutex.
HoldEntities == {"ask_invited", "answer_inviter", "ban_banned", "ban_size", "expel_own",
                 "tick_player"}

\* Those whose other player is known.
HaveTarget == {"ask_entities", "ask_invited", "answer_entities", "answer_inviter",
               "ban_entities", "ban_banned", "expel_own", "leave_entities", "tick_player"}

InList(q, p) == p \in ToSet(members[q])

\* What a thread relies on at each point of its handlers.
LocksInv(t) ==
    /\ pc[t] \in HoldOwn => lock[t] = t
    /\ pc[t] \in HoldEntities => ent = t
    /\ t = Ticker => pc[t] \in {"idle", "tick_player"}

TargetInv(t) ==
    /\ pc[t] \in HaveTarget => tgt[t] \in Players
    /\ pc[t] = "answer_inviter" => tgt[t] \in inWorld
    /\ pc[t] = "leave_lock" /\ fault = "none" => tgt[t] \in Players
    /\ pc[t] = "leave_entities" => /\ lock[tgt[t]] = t /\ tgt[t] # t
                                   /\ HasParty(tgt[t])

PlayerInv(p) ==
    /\ p \in inWorld => pc[p] # "closing"
    /\ pc[p] \notin {"idle", "closing"} => p \in inWorld
    /\ pc[p] \in {"answer_entities", "answer_inviter", "remove_entities"} => ~HasParty(p)
    /\ pc[p] \in {"ban_entities", "ban_banned", "ban_size"} => HasParty(p)
    /\ pc[p] \in Leaving => HasParty(p) /\ ~InList(party[p], p)
    /\ HasParty(p) /\ pc[p] \notin Leaving => InList(party[p], p)

\* A player is in one list at most, that of his party, once, and in the world.
ListsInv ==
    \A q \in Parties :
        /\ IsInjective(members[q])
        /\ \A p \in Players : InList(q, p) => party[p] = q /\ p \in inWorld

PartyInv ==
    /\ TypeOK /\ MemberFound /\ ListsInv
    /\ \A t \in Threads : LocksInv(t) /\ TargetInv(t)
    /\ \A p \in Players : PlayerInv(p)

-----------------------------------------------------------------------------
(* Sequences.                                                               *)

LEMMA Rest ==
    ASSUME NEW n \in Nat, NEW k \in 1..n
    PROVE  (IF k + 1 <= n THEN n - (k + 1) + 1 ELSE 0) = n - k
<1>1. CASE k = n
  <2>1. ~(k + 1 <= n) /\ n - k = 0
    BY <1>1
  <2>. QED BY <2>1
<1>2. CASE k # n
  <2>1. k + 1 <= n /\ n - (k + 1) + 1 = n - k
    BY <1>2
  <2>. QED BY <2>1
<1>. QED BY <1>1, <1>2

LEMMA RemovedAt ==
    ASSUME NEW S, NEW s \in Seq(S), IsInjective(s), NEW k \in 1..Len(s)
    PROVE  /\ RemoveAt(s, k) \in Seq(S)
           /\ Len(RemoveAt(s, k)) = Len(s) - 1
           /\ IsInjective(RemoveAt(s, k))
           /\ ToSet(RemoveAt(s, k)) = ToSet(s) \ {s[k]}
<1> DEFINE before == SubSeq(s, 1, k - 1)
           after == SubSeq(s, k + 1, Len(s))
           r == before \o after
           From(i) == IF i < k THEN i ELSE i + 1
<1>1. Len(s) \in Nat /\ DOMAIN s = 1..Len(s) /\ \A i \in 1..Len(s) : s[i] \in S
  OBVIOUS
<1>2. /\ before \in Seq(S) /\ Len(before) = k - 1
      /\ \A i \in 1..k - 1 : before[i] = s[i]
  <2>1. \A i \in 1..k - 1 : s[i] \in S
    BY <1>1
  <2>2. /\ before \in Seq(S)
        /\ Len(before) = IF 1 <= k - 1 THEN k - 1 - 1 + 1 ELSE 0
        /\ \A i \in 1..k - 1 - 1 + 1 : before[i] = s[1 + i - 1]
    BY <2>1, SubSeqProperties
  <2>3. \A i \in 1..k - 1 : i \in 1..k - 1 - 1 + 1 /\ 1 + i - 1 = i
    OBVIOUS
  <2>. QED BY <2>2, <2>3
<1>3. /\ after \in Seq(S) /\ Len(after) = Len(s) - k
      /\ \A i \in 1..Len(s) - k : after[i] = s[k + i]
  <2>1. \A i \in k + 1..Len(s) : s[i] \in S
    BY <1>1
  <2>2. /\ after \in Seq(S)
        /\ Len(after) = IF k + 1 <= Len(s) THEN Len(s) - (k + 1) + 1 ELSE 0
        /\ \A i \in 1..Len(s) - (k + 1) + 1 : after[i] = s[k + 1 + i - 1]
    BY <1>1, <2>1, SubSeqProperties
  <2>3. \A i \in 1..Len(s) - k : i \in 1..Len(s) - (k + 1) + 1 /\ k + 1 + i - 1 = k + i
    BY <1>1
  <2>4. (IF k + 1 <= Len(s) THEN Len(s) - (k + 1) + 1 ELSE 0) = Len(s) - k
    BY <1>1, Rest
  <2> HIDE DEF after
  <2>. QED BY <2>2, <2>3, <2>4
<1>4. RemoveAt(s, k) = r
  BY DEF RemoveAt
<1> HIDE DEF before, after
<1>5. /\ r \in Seq(S) /\ Len(r) = Len(s) - 1 /\ DOMAIN r = 1..Len(s) - 1
      /\ \A i \in 1..Len(s) - 1 : r[i] = IF i <= k - 1 THEN before[i] ELSE after[i - (k - 1)]
  <2>1. /\ r \in Seq(S) /\ Len(r) = Len(before) + Len(after)
        /\ \A i \in 1..Len(before) + Len(after) :
              r[i] = IF i <= Len(before) THEN before[i] ELSE after[i - Len(before)]
    BY <1>2, <1>3, ConcatProperties
  <2>2. Len(before) + Len(after) = Len(s) - 1
    BY <1>1, <1>2, <1>3
  <2>. QED BY <1>2, <2>1, <2>2
<1> HIDE DEF r
<1>6. \A i \in 1..Len(s) - 1 : r[i] = s[From(i)] /\ From(i) \in 1..Len(s) /\ From(i) # k
  <2> SUFFICES ASSUME NEW i \in 1..Len(s) - 1
               PROVE  r[i] = s[From(i)] /\ From(i) \in 1..Len(s) /\ From(i) # k
    OBVIOUS
  <2>1. CASE i < k
    BY <1>1, <1>2, <1>5, <2>1
  <2>2. CASE ~(i < k)
    <3>1. i - (k - 1) \in 1..Len(s) - k /\ k + (i - (k - 1)) = i + 1 /\ ~(i <= k - 1)
      BY <1>1, <2>2
    <3>2. r[i] = s[i + 1]
      BY <1>3, <1>5, <3>1
    <3>. QED BY <1>1, <2>2, <3>2
  <2>. QED BY <2>1, <2>2
<1>7. IsInjective(r)
  <2> SUFFICES ASSUME NEW i \in 1..Len(s) - 1, NEW j \in 1..Len(s) - 1, r[i] = r[j]
               PROVE  i = j
    BY <1>5 DEF IsInjective
  <2>1. From(i) = From(j)
    <3> HIDE DEF From
    <3>. QED BY <1>1, <1>6 DEF IsInjective
  <2>. QED BY <1>1, <2>1
<1>8. ToSet(r) \subseteq ToSet(s) \ {s[k]}
  <2> SUFFICES ASSUME NEW i \in 1..Len(s) - 1
               PROVE  r[i] \in ToSet(s) \ {s[k]}
    BY <1>5 DEF ToSet
  <2> HIDE DEF From
  <2>1. r[i] = s[From(i)] /\ From(i) \in DOMAIN s /\ From(i) # k
    BY <1>1, <1>6
  <2>2. k \in DOMAIN s
    BY <1>1
  <2>. QED BY <2>1, <2>2 DEF ToSet, IsInjective
<1>9. ASSUME NEW x \in ToSet(s) \ {s[k]}
      PROVE  x \in ToSet(r)
  <2>1. PICK j \in 1..Len(s) : x = s[j]
    BY <1>1 DEF ToSet
  <2>2. j # k
    BY <2>1
  <2>3. CASE j < k
    <3>1. j \in 1..Len(s) - 1 /\ From(j) = j
      BY <1>1, <2>3
    <3>. QED BY <1>5, <1>6, <2>1, <3>1 DEF ToSet
  <2>4. CASE j > k
    <3>1. j - 1 \in 1..Len(s) - 1 /\ From(j - 1) = j
      BY <1>1, <2>4
    <3>. QED BY <1>5, <1>6, <2>1, <3>1 DEF ToSet
  <2>. QED BY <1>1, <2>2, <2>3, <2>4
<1>10. ToSet(r) = ToSet(s) \ {s[k]}
  BY <1>8, <1>9
<1>. QED BY <1>4, <1>5, <1>7, <1>10

LEMMA Appended ==
    ASSUME NEW S, NEW s \in Seq(S), IsInjective(s), NEW x \in S, x \notin ToSet(s)
    PROVE  /\ Append(s, x) \in Seq(S) /\ Len(Append(s, x)) = Len(s) + 1
           /\ IsInjective(Append(s, x))
           /\ ToSet(Append(s, x)) = ToSet(s) \cup {x}
<1> DEFINE r == Append(s, x)
<1>1. /\ r \in Seq(S) /\ Len(r) = Len(s) + 1 /\ Len(s) \in Nat
      /\ DOMAIN s = 1..Len(s) /\ DOMAIN r = 1..Len(s) + 1
      /\ \A i \in 1..Len(s) : r[i] = s[i]
      /\ r[Len(s) + 1] = x
  OBVIOUS
<1> HIDE DEF r
<1>2. \A i \in DOMAIN s : s[i] # x
  BY DEF ToSet
<1>3. IsInjective(r)
  <2> SUFFICES ASSUME NEW i \in DOMAIN r, NEW j \in DOMAIN r, r[i] = r[j]
               PROVE  i = j
    BY DEF IsInjective
  <2>1. CASE i \in 1..Len(s) /\ j \in 1..Len(s)
    BY <1>1, <2>1 DEF IsInjective
  <2>2. CASE i \in 1..Len(s) /\ j = Len(s) + 1
    BY <1>1, <1>2, <2>2
  <2>3. CASE i = Len(s) + 1 /\ j \in 1..Len(s)
    BY <1>1, <1>2, <2>3
  <2>. QED BY <1>1, <2>1, <2>2, <2>3
<1>4. ToSet(r) \subseteq ToSet(s) \cup {x}
  BY <1>1 DEF ToSet
<1>5. ToSet(s) \cup {x} \subseteq ToSet(r)
  BY <1>1 DEF ToSet
<1>. QED BY <1>1, <1>3, <1>4, <1>5 DEF r

LEMMA TwoMembers ==
    ASSUME NEW S, NEW x \in S, NEW y \in S, x # y
    PROVE  /\ <<x, y>> \in Seq(S) /\ Len(<<x, y>>) = 2
           /\ IsInjective(<<x, y>>) /\ ToSet(<<x, y>>) = {x, y}
<1> DEFINE r == <<x, y>>
<1>1. r \in Seq(S) /\ Len(r) = 2 /\ DOMAIN r = {1, 2} /\ r[1] = x /\ r[2] = y
  OBVIOUS
<1> HIDE DEF r
<1>2. IsInjective(r) /\ ToSet(r) = {x, y}
  BY <1>1 DEF IsInjective, ToSet
<1>. QED BY <1>1, <1>2 DEF r

-----------------------------------------------------------------------------
(* Lists of members.                                                        *)

\* RemoveMember of a player who is in the list.
LEMMA Removal ==
    ASSUME TypeOK, ListsInv, NEW q \in Parties, NEW p \in Players, InList(q, p),
           RemoveMember(q, p)
    PROVE  /\ fault' = fault
           /\ members' \in [Parties -> Seq(Players)]
           /\ \A r \in Parties : Len(members'[r]) <= MaxPartySize
           /\ \A r \in Parties : IsInjective(members'[r])
           /\ \A r \in Parties, x \in Players :
                 InList(r, x)' <=> InList(r, x) /\ ~(r = q /\ x = p)
<1> DEFINE s == members[q]
           k == CHOOSE i \in DOMAIN s : s[i] = p
<1>1. /\ s \in Seq(Players) /\ IsInjective(s) /\ Len(s) <= MaxPartySize /\ Len(s) \in Nat
      /\ members \in [Parties -> Seq(Players)] /\ MaxPartySize \in Nat
  BY MaxPartySizeAssumption DEF TypeOK, ListsInv
<1>2. \E i \in DOMAIN s : s[i] = p
  BY DEF InList, ToSet
<1>3. k \in DOMAIN s /\ s[k] = p
  BY <1>2
<1>4. k \in 1..Len(s)
  BY <1>1, <1>3
<1>5. fault' = fault /\ members' = [members EXCEPT ![q] = RemoveAt(s, k)]
  BY DEF RemoveMember, WithoutMember, InList
<1> HIDE DEF k, s
<1>6. /\ RemoveAt(s, k) \in Seq(Players) /\ Len(RemoveAt(s, k)) = Len(s) - 1
      /\ IsInjective(RemoveAt(s, k)) /\ ToSet(RemoveAt(s, k)) = ToSet(s) \ {p}
  BY <1>1, <1>3, <1>4, RemovedAt
<1>7. /\ members'[q] = RemoveAt(s, k)
      /\ \A r \in Parties : r # q => members'[r] = members[r]
  BY <1>1, <1>5
<1>8. members' \in [Parties -> Seq(Players)]
  <2>1. DOMAIN members' = Parties /\ members' = [r \in Parties |-> members'[r]]
    BY <1>1, <1>5
  <2>2. \A r \in Parties : members'[r] \in Seq(Players)
    BY <1>1, <1>6, <1>7
  <2>. QED BY <2>1, <2>2
<1>9. \A r \in Parties : Len(members'[r]) <= MaxPartySize /\ IsInjective(members'[r])
  <2> SUFFICES ASSUME NEW r \in Parties
               PROVE  Len(members'[r]) <= MaxPartySize /\ IsInjective(members'[r])
    OBVIOUS
  <2>1. CASE r = q
    BY <1>1, <1>6, <1>7, <2>1
  <2>2. CASE r # q
    BY <1>7, <2>2 DEF TypeOK, ListsInv
  <2>. QED BY <2>1, <2>2
<1>10. \A r \in Parties, x \in Players :
          InList(r, x)' <=> InList(r, x) /\ ~(r = q /\ x = p)
  BY <1>6, <1>7 DEF InList, s
<1>. QED BY <1>5, <1>8, <1>9, <1>10

-----------------------------------------------------------------------------
(* Threads.                                                                 *)

LEMMA NoThread == NoPlayer \notin Threads /\ Ticker \notin Players
BY NoPlayerAssumption, TickerAssumption DEF Threads

LEMMA GotoFacts ==
    ASSUME TypeOK, NEW t \in Threads, NEW from, NEW to \in State, Goto(t, from, to)
    PROVE  /\ pc' \in [Threads -> State] /\ pc[t] = from /\ pc'[t] = to
           /\ \A u \in Threads : u # t => pc'[u] = pc[u]
BY DEF Goto, TypeOK

LEMMA ReturnFacts ==
    ASSUME TypeOK, NEW t \in Threads, NEW from, Return(t, from)
    PROVE  /\ pc' \in [Threads -> State] /\ pc[t] = from /\ pc'[t] = "idle"
           /\ \A u \in Threads : u # t => pc'[u] = pc[u] /\ tgt'[u] = tgt[u]
           /\ tgt' \in [Threads -> Players \cup {NoPlayer}]
           /\ lock' \in [Players -> Threads \cup {NoPlayer}]
           /\ \A x \in Players : lock[x] # t => lock'[x] = lock[x]
           /\ ent' \in Threads \cup {NoPlayer}
           /\ ent # t => ent' = ent
<1>1. "idle" \in State
  BY DEF State
<1>2. /\ pc' \in [Threads -> State] /\ pc[t] = from /\ pc'[t] = "idle"
      /\ \A u \in Threads : u # t => pc'[u] = pc[u]
  BY <1>1, GotoFacts DEF Return
<1>. QED BY <1>2 DEF Return, TypeOK

\* What no step of another thread takes from a thread.
LEMMA OthersKeep ==
    ASSUME PartyInv, fault = "none", NEW u \in Threads,
           pc'[u] = pc[u], tgt'[u] = tgt[u],
           \A x \in Players : lock[x] = u => lock'[x] = u /\ party'[x] = party[x],
           ent = u => ent' = u /\ inWorld \subseteq inWorld'
    PROVE  LocksInv(u)' /\ TargetInv(u)'
<1>1. LocksInv(u) /\ TargetInv(u)
  BY DEF PartyInv
<1>2. u # Ticker => u \in Players
  BY DEF Threads
<1>3. LocksInv(u)'
  BY <1>1, <1>2 DEF LocksInv, HoldOwn, HoldEntities, Leaving
<1>4. TargetInv(u)'
  BY <1>1 DEF LocksInv, TargetInv, HasParty, HaveTarget, HoldEntities
<1>. QED BY <1>3, <1>4

LEMMA OtherPlayersKeep ==
    ASSUME PartyInv, NEW u \in Players,
           pc'[u] = pc[u], party'[u] = party[u],
           u \in inWorld' <=> u \in inWorld,
           HasParty(u) => (InList(party[u], u)' <=> InList(party[u], u))
    PROVE  PlayerInv(u)'
<1>1. PlayerInv(u)
  BY DEF PartyInv
<1>. QED BY <1>1 DEF PlayerInv, HasParty, InList

\* Steps that change no list, no m_party and nothing of the world.
LEMMA Moves ==
    ASSUME PartyInv, fault = "none", NEW t \in Threads,
           \A u \in Threads : u # t => pc'[u] = pc[u] /\ tgt'[u] = tgt[u],
           \A x \in Players : lock[x] # NoPlayer /\ lock[x] # t => lock'[x] = lock[x],
           ent # NoPlayer /\ ent # t => ent' = ent,
           UNCHANGED <<inWorld, party, members>>,
           TypeOK', MemberFound', LocksInv(t)', TargetInv(t)',
           t \in Players => PlayerInv(t)'
    PROVE  PartyInv'
<1>1. ASSUME NEW u \in Threads, u # t
      PROVE  LocksInv(u)' /\ TargetInv(u)'
  <2>1. u # NoPlayer
    BY NoThread
  <2>. QED BY <1>1, <2>1, OthersKeep
<1>2. ASSUME NEW u \in Players, u # t
      PROVE  PlayerInv(u)'
  <2>1. u \in Threads
    BY DEF Threads
  <2>. QED BY <1>2, <2>1, OtherPlayersKeep DEF InList
<1>3. ListsInv'
  BY DEF PartyInv, ListsInv, InList
<1>. QED BY <1>1, <1>2, <1>3 DEF PartyInv

\* The ends of handlers that have not left a party.
LEMMA Returns ==
    ASSUME PartyInv, fault = "none", NEW t \in Threads,
           NEW from \in State, from \notin Leaving, from \notin {"idle", "closing"},
           Return(t, from),
           UNCHANGED <<why, inWorld, alive, party, members, parties, fault>>,
           inviter' \in [Players -> Players \cup {NoPlayer}]
    PROVE  PartyInv'
<1>1. TypeOK
  BY DEF PartyInv
<1>2. /\ pc' \in [Threads -> State] /\ pc[t] = from /\ pc'[t] = "idle"
      /\ \A u \in Threads : u # t => pc'[u] = pc[u] /\ tgt'[u] = tgt[u]
      /\ tgt' \in [Threads -> Players \cup {NoPlayer}]
      /\ lock' \in [Players -> Threads \cup {NoPlayer}]
      /\ \A x \in Players : lock[x] # t => lock'[x] = lock[x]
      /\ ent' \in Threads \cup {NoPlayer}
      /\ ent # t => ent' = ent
  BY <1>1, ReturnFacts
<1>3. TypeOK' /\ MemberFound'
  BY <1>1, <1>2 DEF PartyInv, TypeOK, MemberFound
<1>4. LocksInv(t)' /\ TargetInv(t)'
  BY <1>2 DEF LocksInv, TargetInv, HoldOwn, HoldEntities, Leaving, HaveTarget
<1>5. ASSUME t \in Players
      PROVE  PlayerInv(t)'
  <2>1. PlayerInv(t)
    BY <1>5 DEF PartyInv
  <2>. QED BY <1>2, <2>1 DEF PlayerInv, HasParty, InList, Leaving
<1>. QED BY <1>2, <1>3, <1>4, <1>5, Moves

\* Handlers that begin with the mutex of their own player.
LEMMA Begins ==
    ASSUME PartyInv, fault = "none", NEW p \in Players, NEW to, NEW x \in Players,
           CanHandle(p), Free(p), Goto(p, "idle", to),
           \/ to = "ask_entities"
           \/ to = "answer_entities" /\ ~HasParty(p)
           \/ to = "ban_entities" /\ HasParty(p),
           tgt' = [tgt EXCEPT ![p] = x],
           lock' = [lock EXCEPT ![p] = p],
           UNCHANGED <<why, ent, inWorld, alive, party, members, parties, inviter, fault>>
    PROVE  PartyInv'
<1>1. TypeOK /\ PlayerInv(p) /\ p \in Threads /\ to \in State
  BY DEF PartyInv, Threads, State
<1>2. /\ pc' \in [Threads -> State] /\ pc[p] = "idle" /\ pc'[p] = to
      /\ \A u \in Threads : u # p => pc'[u] = pc[u]
  BY <1>1, GotoFacts
<1>3. /\ tgt' \in [Threads -> Players \cup {NoPlayer}] /\ tgt'[p] = x
      /\ \A u \in Threads : u # p => tgt'[u] = tgt[u]
      /\ lock' \in [Players -> Threads \cup {NoPlayer}] /\ lock'[p] = p
      /\ \A y \in Players : y # p => lock'[y] = lock[y]
  BY <1>1 DEF TypeOK
<1>4. TypeOK' /\ MemberFound'
  BY <1>1, <1>2, <1>3 DEF PartyInv, TypeOK, MemberFound
<1>5. LocksInv(p)' /\ TargetInv(p)'
  BY <1>2, <1>3, NoThread DEF LocksInv, TargetInv, HoldEntities
<1>6. PlayerInv(p)'
  BY <1>1, <1>2 DEF PlayerInv, CanHandle, HasParty, InList, Leaving
<1>. QED BY <1>1, <1>2, <1>3, <1>4, <1>5, <1>6, Moves DEF Free

\* Handlers that take the entities mutex and find the other player in the world.
LEMMA FindsOther ==
    ASSUME PartyInv, fault = "none", NEW p \in Players, NEW from, NEW to,
           Goto(p, from, to), EntitiesFree, tgt[p] \in inWorld,
           \/ from = "ask_entities" /\ to = "ask_invited"
           \/ from = "answer_entities" /\ to = "answer_inviter"
           \/ from = "ban_entities" /\ to = "ban_banned",
           ent' = p, inviter' \in [Players -> Players \cup {NoPlayer}],
           UNCHANGED <<tgt, lock, why, inWorld, alive, party, members, parties, fault>>
    PROVE  PartyInv'
<1>1. /\ TypeOK /\ LocksInv(p) /\ TargetInv(p) /\ PlayerInv(p) /\ p \in Threads
      /\ to \in State
  BY DEF PartyInv, Threads, State
<1>2. /\ pc' \in [Threads -> State] /\ pc[p] = from /\ pc'[p] = to
      /\ \A u \in Threads : u # p => pc'[u] = pc[u]
  BY <1>1, GotoFacts
<1>3. TypeOK' /\ MemberFound'
  BY <1>1, <1>2 DEF PartyInv, TypeOK, MemberFound
<1>4. LocksInv(p)' /\ TargetInv(p)'
  BY <1>1, <1>2, NoThread DEF LocksInv, TargetInv, HoldOwn, HaveTarget
<1>5. PlayerInv(p)'
  BY <1>1, <1>2 DEF PlayerInv, HasParty, InList, Leaving
<1>. QED BY <1>1, <1>2, <1>3, <1>4, <1>5, Moves DEF EntitiesFree

-----------------------------------------------------------------------------
(* The start, invitations, and the first steps of a ban.                    *)

LEMMA InitInv == Init => PartyInv
<1> SUFFICES ASSUME Init PROVE PartyInv
  OBVIOUS
<1>1. \A q \in Parties : /\ members[q] \in Seq(Players) /\ Len(members[q]) = 0
                         /\ IsInjective(members[q]) /\ ToSet(members[q]) = {}
  BY DEF Init, IsInjective, ToSet
<1>2. members \in [Parties -> Seq(Players)]
  BY <1>1 DEF Init
<1>3. TypeOK
  <2>1. \A q \in Parties : Len(members[q]) <= MaxPartySize
    BY <1>1, MaxPartySizeAssumption
  <2>2. "idle" \in State /\ "leave" \in Reason /\ "none" \in Fault
    BY DEF State, Reason, Fault
  <2>. QED BY <1>2, <2>1, <2>2 DEF Init, TypeOK
<1>4. ListsInv /\ MemberFound
  BY <1>1 DEF Init, ListsInv, InList, MemberFound
<1>5. \A t \in Threads : LocksInv(t) /\ TargetInv(t)
  BY DEF Init, LocksInv, TargetInv, HoldOwn, HoldEntities, Leaving, HaveTarget
<1>6. \A p \in Players : PlayerInv(p)
  BY DEF Init, PlayerInv, HasParty, Leaving, Threads
<1>. QED BY <1>3, <1>4, <1>5, <1>6 DEF PartyInv

LEMMA OnStartInv ==
    ASSUME PartyInv, fault = "none", NEW p \in Players, OnStart(p)
    PROVE  PartyInv'
<1>1. TypeOK /\ PlayerInv(p) /\ p \in Threads
  BY DEF PartyInv, Threads
<1>2. TypeOK' /\ MemberFound'
  BY <1>1 DEF PartyInv, TypeOK, MemberFound, OnStart
<1>3. ASSUME NEW u \in Threads
      PROVE  LocksInv(u)' /\ TargetInv(u)'
  BY OthersKeep DEF OnStart
<1>4. ASSUME NEW u \in Players
      PROVE  PlayerInv(u)'
  <2>1. CASE u = p
    BY <1>1, <2>1 DEF OnStart, PlayerInv, HasParty, InList, Leaving
  <2>2. CASE u # p
    BY <2>2, OtherPlayersKeep DEF OnStart, InList
  <2>. QED BY <2>1, <2>2
<1>5. ListsInv'
  BY DEF PartyInv, ListsInv, InList, OnStart
<1>. QED BY <1>2, <1>3, <1>4, <1>5 DEF PartyInv

LEMMA AskInv ==
    ASSUME PartyInv, fault = "none", NEW p \in Players, Ask(p)
    PROVE  PartyInv'
<1>1. TypeOK /\ TargetInv(p) /\ p \in Threads
  BY DEF PartyInv, Threads
<1>2. ASSUME NEW i \in Players, AskLock(p, i)
      PROVE  PartyInv'
  BY <1>2, Begins DEF AskLock
<1>3. CASE AskEntities(p)
  <2>1. inviter' \in [Players -> Players \cup {NoPlayer}]
    BY <1>1, <1>3 DEF AskEntities, TypeOK
  <2>2. CASE Return(p, "ask_entities")
    <3>1. "ask_entities" \in State /\ "ask_entities" \notin Leaving
      BY DEF State, Leaving
    <3>. QED BY <1>1, <1>3, <2>1, <2>2, <3>1, Returns DEF AskEntities
  <2>3. CASE ~Return(p, "ask_entities")
    BY <1>3, <2>1, <2>3, FindsOther DEF AskEntities
  <2>. QED BY <2>2, <2>3
<1>4. CASE AskInvited(p)
  <2>1. Return(p, "ask_invited") /\ pc[p] = "ask_invited"
    BY <1>4 DEF AskInvited, Return, Goto
  <2>2. "ask_invited" \in State /\ "ask_invited" \notin Leaving
    BY DEF State, Leaving
  <2>3. tgt[p] \in Players
    BY <1>1, <2>1 DEF TargetInv, HaveTarget
  <2>4. inviter' \in [Players -> Players \cup {NoPlayer}]
    BY <1>1, <1>4, <2>3 DEF AskInvited, TypeOK
  <2>. QED BY <1>1, <1>4, <2>1, <2>2, <2>4, Returns DEF AskInvited
<1>. QED BY <1>2, <1>3, <1>4 DEF Ask

LEMMA AnswerEntitiesInv ==
    ASSUME PartyInv, fault = "none", NEW p \in Players, AnswerEntities(p)
    PROVE  PartyInv'
<1>1. TypeOK /\ p \in Threads
  BY DEF PartyInv, Threads
<1>2. inviter' \in [Players -> Players \cup {NoPlayer}]
  BY <1>1 DEF AnswerEntities, TypeOK
<1>3. CASE Return(p, "answer_entities")
  <2>1. "answer_entities" \in State /\ "answer_entities" \notin Leaving
    BY DEF State, Leaving
  <2>. QED BY <1>1, <1>2, <1>3, <2>1, Returns DEF AnswerEntities
<1>4. CASE ~Return(p, "answer_entities")
  BY <1>2, <1>4, FindsOther DEF AnswerEntities
<1>. QED BY <1>3, <1>4

-----------------------------------------------------------------------------
(* An invitation is accepted.                                               *)

\* The player who answers and the one who invited him are in one party.
LEMMA Joins ==
    ASSUME PartyInv, fault = "none", NEW p \in Players, NEW i \in Players, NEW q \in Parties,
           Return(p, "answer_inviter"), i # p, i \in inWorld, Free(i),
           UNCHANGED <<why, inWorld, alive, inviter, fault>>,
           parties' \subseteq Parties, members' \in [Parties -> Seq(Players)],
           party' \in [Players -> Parties \cup {NoParty}],
           \A r \in Parties : Len(members'[r]) <= MaxPartySize /\ IsInjective(members'[r]),
           \A r \in Parties, x \in Players :
              InList(r, x)' <=> InList(r, x) \/ (r = q /\ x \in {i, p}),
           party'[p] = q /\ party'[i] = q,
           \A x \in Players : x \notin {i, p} => party'[x] = party[x],
           ~HasParty(i) \/ party[i] = q
    PROVE  PartyInv'
<1>1. TypeOK /\ p \in Threads /\ i \in Threads /\ lock[p] = p /\ ~HasParty(p)
      /\ p \in inWorld
  <2>1. pc[p] = "answer_inviter" /\ LocksInv(p) /\ PlayerInv(p)
    BY DEF Return, Goto, PartyInv, Threads
  <2>. QED BY <2>1 DEF PartyInv, LocksInv, PlayerInv, HoldOwn, Threads
<1>2. /\ pc' \in [Threads -> State] /\ pc'[p] = "idle"
      /\ \A u \in Threads : u # p => pc'[u] = pc[u] /\ tgt'[u] = tgt[u]
      /\ tgt' \in [Threads -> Players \cup {NoPlayer}]
      /\ lock' \in [Players -> Threads \cup {NoPlayer}]
      /\ \A x \in Players : lock[x] # p => lock'[x] = lock[x]
      /\ ent' \in Threads \cup {NoPlayer}
      /\ ent # p => ent' = ent
  BY <1>1, ReturnFacts
<1>3. TypeOK' /\ MemberFound'
  BY <1>1, <1>2 DEF PartyInv, TypeOK, MemberFound
<1>4. LocksInv(p)' /\ TargetInv(p)'
  BY <1>2 DEF LocksInv, TargetInv, HoldOwn, HoldEntities, Leaving, HaveTarget
<1>5. ASSUME NEW u \in Threads, u # p
      PROVE  LocksInv(u)' /\ TargetInv(u)'
  <2>1. u # NoPlayer
    BY NoThread
  <2>2. \A x \in Players : lock[x] = u => lock'[x] = u /\ party'[x] = party[x]
    BY <1>1, <1>2, <1>5, <2>1 DEF Free
  <2>. QED BY <1>2, <1>5, <2>2, OthersKeep
<1>6. PlayerInv(p)'
  BY <1>2 DEF PlayerInv, HasParty, InList, Leaving
<1>7. PlayerInv(i)'
  <2>1. pc'[i] = pc[i] /\ PlayerInv(i) /\ LocksInv(i)
    BY <1>1, <1>2 DEF PartyInv
  <2>2. i # NoPlayer /\ pc[i] \notin HoldOwn
    BY <1>1, <2>1, NoThread DEF LocksInv, Free
  <2>3. InList(q, i)'
    OBVIOUS
  <2>. QED BY <2>1, <2>2, <2>3 DEF PlayerInv, HasParty, HoldOwn, InList
<1>8. ASSUME NEW u \in Players, u \notin {i, p}
      PROVE  PlayerInv(u)'
  <2>1. u \in Threads /\ pc'[u] = pc[u] /\ party'[u] = party[u]
    BY <1>2, <1>8 DEF Threads
  <2>2. HasParty(u) => (InList(party[u], u)' <=> InList(party[u], u))
    <3> SUFFICES ASSUME HasParty(u)
                 PROVE  InList(party[u], u)' <=> InList(party[u], u)
      OBVIOUS
    <3>1. party[u] \in Parties
      BY <1>1 DEF TypeOK, HasParty
    <3>2. u \in ToSet(members'[party[u]]) <=> u \in ToSet(members[party[u]])
      BY <1>8, <3>1 DEF InList
    <3>. QED BY <2>1, <3>2 DEF InList
  <2>. QED BY <2>1, <2>2, OtherPlayersKeep
<1>9. ListsInv'
  <2> SUFFICES ASSUME NEW r \in Parties, NEW x \in Players, InList(r, x)'
               PROVE  party'[x] = r /\ x \in inWorld'
    BY DEF ListsInv
  <2>1. CASE InList(r, x)
    <3>1. party[x] = r /\ x \in inWorld
      BY <2>1 DEF PartyInv, ListsInv
    <3>2. HasParty(x)
      BY <3>1, NoPartyAssumption DEF HasParty
    <3>. QED BY <1>1, <3>1, <3>2
  <2>2. CASE r = q /\ x \in {i, p}
    BY <1>1, <2>2
  <2>. QED BY <2>1, <2>2
<1>. QED BY <1>3, <1>4, <1>5, <1>6, <1>7, <1>8, <1>9 DEF PartyInv

LEMMA AnswerInviterInv ==
    ASSUME PartyInv, fault = "none", NEW p \in Players, AnswerInviter(p)
    PROVE  PartyInv'
<1> DEFINE i == tgt[p]
<1>1. TypeOK /\ ListsInv /\ p \in Threads /\ LocksInv(p) /\ TargetInv(p) /\ PlayerInv(p)
  BY DEF PartyInv, Threads
<1>2. Return(p, "answer_inviter") /\ pc[p] = "answer_inviter" /\ Free(i)
      /\ UNCHANGED <<why, inWorld, alive, inviter, fault>>
  BY DEF AnswerInviter, Return, Goto
<1>3. i \in Players /\ i \in inWorld /\ lock[p] = p /\ p # i /\ ~HasParty(p)
      /\ PlayerInv(i)
  <2>1. i \in Players /\ i \in inWorld /\ lock[p] = p /\ ~HasParty(p)
    BY <1>1, <1>2 DEF LocksInv, TargetInv, PlayerInv, HoldOwn, HaveTarget
  <2>2. p # i
    BY <1>1, <1>2, <2>1, NoThread DEF Free
  <2>. QED BY <2>1, <2>2 DEF PartyInv
<1>4. CASE ~HasParty(i) /\ NewParty(i, p)
  <2>1. PICK q \in FreeParties :
           /\ members' = [members EXCEPT ![q] = <<i, p>>]
           /\ party' = [party EXCEPT ![i] = q, ![p] = q]
           /\ parties' = parties \cup {q}
    BY <1>4 DEF NewParty
  <2>2. q \in Parties /\ \A x \in Players : party[x] # q
    BY <2>1 DEF FreeParties
  <2>3. /\ <<i, p>> \in Seq(Players) /\ Len(<<i, p>>) = 2
        /\ IsInjective(<<i, p>>) /\ ToSet(<<i, p>>) = {i, p}
    BY <1>3, TwoMembers
  <2> DEFINE both == <<i, p>>
  <2> HIDE DEF both
  <2>4. /\ both \in Seq(Players) /\ Len(both) = 2 /\ IsInjective(both)
        /\ ToSet(both) = {i, p} /\ members' = [members EXCEPT ![q] = both]
    BY <2>1, <2>3 DEF both
  <2>5. /\ members'[q] = both /\ members' \in [Parties -> Seq(Players)]
        /\ \A r \in Parties : r # q => members'[r] = members[r]
    BY <1>1, <2>2, <2>4 DEF TypeOK
  <2>6. \A r \in Parties : Len(members'[r]) <= MaxPartySize /\ IsInjective(members'[r])
    <3> SUFFICES ASSUME NEW r \in Parties
                 PROVE  Len(members'[r]) <= MaxPartySize /\ IsInjective(members'[r])
      OBVIOUS
    <3>1. CASE r = q
      BY <2>4, <2>5, <3>1, MaxPartySizeAssumption
    <3>2. CASE r # q
      BY <1>1, <2>5, <3>2 DEF TypeOK, ListsInv
    <3>. QED BY <3>1, <3>2
  <2>7. \A x \in Players : ~InList(q, x)
    BY <1>1, <2>2 DEF ListsInv
  <2>8. \A r \in Parties, x \in Players :
           InList(r, x)' <=> InList(r, x) \/ (r = q /\ x \in {i, p})
    BY <2>4, <2>5, <2>7 DEF InList
  <2>9. /\ party' \in [Players -> Parties \cup {NoParty}]
        /\ party'[p] = q /\ party'[i] = q
        /\ \A x \in Players : x \notin {i, p} => party'[x] = party[x]
    BY <1>1, <1>3, <2>1, <2>2 DEF TypeOK
  <2>10. parties' \subseteq Parties
    BY <1>1, <2>1, <2>2 DEF TypeOK
  <2> HIDE DEF i
  <2>. QED BY <1>2, <1>3, <1>4, <2>2, <2>5, <2>6, <2>8, <2>9, <2>10, Joins
<1>5. CASE IsPartyLeader(i) /\ AddMember(i, p)
  <2> DEFINE q == party[i]
             s == members[q]
  <2>1. HasParty(i) /\ q \in Parties
    BY <1>1, <1>3, <1>5 DEF IsPartyLeader, HasParty, TypeOK
  <2>2. /\ s \in Seq(Players) /\ IsInjective(s) /\ Len(s) \in Nat
        /\ p \notin ToSet(s)
    <3>1. ~InList(q, p)
      BY <1>1, <1>3, <2>1, NoPartyAssumption DEF ListsInv, HasParty
    <3>. QED BY <1>1, <2>1, <3>1 DEF TypeOK, ListsInv, InList
  <2>3. /\ Len(s) < MaxPartySize /\ members' = [members EXCEPT ![q] = Append(s, p)]
        /\ party' = [party EXCEPT ![p] = q] /\ parties' = parties
    BY <1>1, <1>5, <2>1 DEF AddMember, TypeOK
  <2> HIDE DEF s, q, i
  <2>4. /\ Append(s, p) \in Seq(Players) /\ Len(Append(s, p)) = Len(s) + 1
        /\ IsInjective(Append(s, p)) /\ ToSet(Append(s, p)) = ToSet(s) \cup {p}
    BY <2>2, Appended
  <2>5. /\ members'[q] = Append(s, p) /\ members' \in [Parties -> Seq(Players)]
        /\ \A r \in Parties : r # q => members'[r] = members[r]
    BY <1>1, <2>1, <2>3, <2>4 DEF TypeOK
  <2>6. \A r \in Parties : Len(members'[r]) <= MaxPartySize /\ IsInjective(members'[r])
    <3> SUFFICES ASSUME NEW r \in Parties
                 PROVE  Len(members'[r]) <= MaxPartySize /\ IsInjective(members'[r])
      OBVIOUS
    <3>1. CASE r = q
      BY <2>2, <2>3, <2>4, <2>5, <3>1, MaxPartySizeAssumption
    <3>2. CASE r # q
      BY <1>1, <2>5, <3>2 DEF TypeOK, ListsInv
    <3>. QED BY <3>1, <3>2
  <2>7. InList(q, i)
    <3>1. pc[i] \notin Leaving
      <4>1. LocksInv(i) /\ i \in Threads
        BY <1>3 DEF PartyInv, Threads
      <4>. QED BY <1>2, <4>1, NoThread DEF LocksInv, HoldOwn, Free
    <3>. QED BY <1>3, <2>1, <3>1 DEF PlayerInv, q
  <2>8. \A r \in Parties, x \in Players :
           InList(r, x)' <=> InList(r, x) \/ (r = q /\ x \in {i, p})
    BY <2>4, <2>5, <2>7 DEF InList, s
  <2>9. /\ party' \in [Players -> Parties \cup {NoParty}]
        /\ party'[p] = q /\ party'[i] = q
        /\ \A x \in Players : x \notin {i, p} => party'[x] = party[x]
    BY <1>1, <1>3, <2>1, <2>3 DEF TypeOK, q
  <2>10. parties' \subseteq Parties /\ party[i] = q
    BY <1>1, <2>3 DEF TypeOK, q
  <2>. QED BY <1>2, <1>3, <2>1, <2>5, <2>6, <2>8, <2>9, <2>10, Joins
<1>6. CASE UNCHANGED <<members, party, parties>>
  <2>1. "answer_inviter" \in State /\ "answer_inviter" \notin Leaving
    BY DEF State, Leaving
  <2>2. inviter' \in [Players -> Players \cup {NoPlayer}]
    BY <1>1, <1>2 DEF TypeOK
  <2>. QED BY <1>1, <1>2, <1>6, <2>1, <2>2, Returns
<1>. QED BY <1>4, <1>5, <1>6 DEF AnswerInviter

LEMMA AnswerInv ==
    ASSUME PartyInv, fault = "none", NEW p \in Players, Answer(p)
    PROVE  PartyInv'
<1>1. ASSUME AnswerLock(p)
      PROVE  PartyInv'
  <2>1. inviter[p] \in Players
    BY <1>1 DEF PartyInv, TypeOK, AnswerLock
  <2>. QED BY <1>1, <2>1, Begins DEF AnswerLock
<1>. QED BY <1>1, AnswerEntitiesInv, AnswerInviterInv DEF Answer

-----------------------------------------------------------------------------
(* Bans, and the other ways out of a party.                                 *)

\* A thread takes a player, whose mutex it holds or gets, out of his party.
LEMMA TakesOut ==
    ASSUME PartyInv, fault = "none", NEW t \in Threads, NEW b \in Players, NEW q \in Parties,
           party[b] = q, InList(q, b), lock[b] \in {NoPlayer, t},
           RemoveMember(q, b), party' = [party EXCEPT ![b] = NoParty],
           UNCHANGED <<why, inWorld, alive, inviter>>, parties' \subseteq Parties,
           \A u \in Threads : u # t => pc'[u] = pc[u] /\ tgt'[u] = tgt[u],
           \A x \in Players : lock[x] # NoPlayer /\ lock[x] # t => lock'[x] = lock[x],
           ent # NoPlayer /\ ent # t => ent' = ent,
           pc' \in [Threads -> State], tgt' \in [Threads -> Players \cup {NoPlayer}],
           lock' \in [Players -> Threads \cup {NoPlayer}],
           ent' \in Threads \cup {NoPlayer},
           LocksInv(t)', TargetInv(t)',
           \/ t = b /\ pc'[t] = "idle" /\ pc[t] = "ban_size"
           \/ t \in Players \ {b} /\ pc[t] = "ban_banned" /\ pc'[t] = "ban_size"
           \/ t \in Players \ {b} /\ pc[t] = "leave_entities" /\ pc'[t] = "leave_end"
    PROVE  PartyInv'
<1>1. TypeOK /\ ListsInv /\ t # NoPlayer
  BY NoThread DEF PartyInv
<1>2. /\ fault' = fault
      /\ members' \in [Parties -> Seq(Players)]
      /\ \A r \in Parties : Len(members'[r]) <= MaxPartySize
      /\ \A r \in Parties : IsInjective(members'[r])
      /\ \A r \in Parties, x \in Players :
            InList(r, x)' <=> InList(r, x) /\ ~(r = q /\ x = b)
  BY <1>1, Removal
<1>3. /\ party' \in [Players -> Parties \cup {NoParty}]
      /\ party'[b] = NoParty /\ \A x \in Players : x # b => party'[x] = party[x]
  BY <1>1 DEF TypeOK
<1>4. TypeOK' /\ MemberFound'
  BY <1>1, <1>2, <1>3 DEF PartyInv, TypeOK, MemberFound
<1>5. ASSUME NEW u \in Threads, u # t
      PROVE  LocksInv(u)' /\ TargetInv(u)'
  <2>1. u # NoPlayer
    BY NoThread
  <2>2. \A x \in Players : lock[x] = u => lock'[x] = u /\ party'[x] = party[x]
    BY <1>3, <1>5, <2>1
  <2>. QED BY <1>5, <2>1, <2>2, OthersKeep
<1>6. ASSUME NEW u \in Players, u # b
      PROVE  /\ party'[u] = party[u]
             /\ HasParty(u) => (u \in ToSet(members'[party[u]]) <=> InList(party[u], u))
  <2>1. HasParty(u) => party[u] \in Parties
    BY <1>1 DEF TypeOK, HasParty
  <2>. QED BY <1>2, <1>3, <1>6, <2>1 DEF InList
<1>7. ASSUME NEW u \in Players
      PROVE  PlayerInv(u)'
  <2>1. PlayerInv(u) /\ u \in Threads
    BY DEF PartyInv, Threads
  <2>2. CASE u = b /\ u = t
    BY <1>3, <2>1, <2>2 DEF PlayerInv, HasParty, Leaving
  <2>3. CASE u = b /\ u # t
    <3>1. pc'[u] = pc[u] /\ pc[u] \notin HoldOwn
      <4>1. LocksInv(u) /\ lock[u] # u
        BY <1>1, <2>1, <2>3, NoThread DEF PartyInv
      <4>. QED BY <2>1, <2>3, <4>1 DEF LocksInv
    <3>. QED BY <1>3, <2>1, <2>3, <3>1 DEF PlayerInv, HasParty, HoldOwn
  <2>4. CASE u # b /\ u = t
    BY <1>6, <2>1, <2>4 DEF PlayerInv, HasParty, InList, Leaving
  <2>5. CASE u # b /\ u # t
    BY <1>6, <2>1, <2>5, OtherPlayersKeep DEF InList
  <2>. QED BY <2>2, <2>3, <2>4, <2>5
<1>8. ListsInv'
  <2> SUFFICES ASSUME NEW r \in Parties, NEW x \in Players, InList(r, x)'
               PROVE  party'[x] = r /\ x \in inWorld'
    BY <1>2 DEF ListsInv
  <2>1. InList(r, x) /\ ~(r = q /\ x = b)
    BY <1>2
  <2>2. party[x] = r /\ x \in inWorld
    BY <1>1, <2>1 DEF ListsInv
  <2>. QED BY <1>3, <2>1, <2>2
<1>. QED BY <1>4, <1>5, <1>7, <1>8 DEF PartyInv, Threads

LEMMA ExpelInv ==
    ASSUME PartyInv, fault = "none", NEW p \in Players,
           (\E b \in Players : ExpelEntities(p, b)) \/ ExpelLock(p)
    PROVE  PartyInv'
<1>1. TypeOK /\ LocksInv(p) /\ TargetInv(p) /\ PlayerInv(p) /\ p \in Threads
  BY DEF PartyInv, Threads
<1>2. ASSUME NEW b \in Players, ExpelEntities(p, b)
      PROVE  PartyInv'
  <2>1. "expel_own" \in State
    BY DEF State
  <2>2. /\ pc' \in [Threads -> State] /\ pc[p] = "idle" /\ pc'[p] = "expel_own"
        /\ \A u \in Threads : u # p => pc'[u] = pc[u]
    BY <1>1, <1>2, <2>1, GotoFacts DEF ExpelEntities
  <2>3. /\ tgt' \in [Threads -> Players \cup {NoPlayer}] /\ tgt'[p] = b
        /\ \A u \in Threads : u # p => tgt'[u] = tgt[u]
    BY <1>1, <1>2 DEF TypeOK, ExpelEntities
  <2>4. TypeOK' /\ MemberFound'
    BY <1>1, <1>2, <2>2, <2>3 DEF PartyInv, TypeOK, MemberFound, ExpelEntities
  <2>5. LocksInv(p)' /\ TargetInv(p)'
    BY <1>1, <1>2, <2>2, <2>3, NoThread
    DEF LocksInv, TargetInv, HoldOwn, HoldEntities, Leaving, ExpelEntities
  <2>6. PlayerInv(p)'
    BY <1>1, <1>2, <2>2 DEF PlayerInv, HasParty, InList, Leaving, ExpelEntities, CanHandle
  <2>. QED BY <1>1, <1>2, <2>2, <2>3, <2>4, <2>5, <2>6, Moves DEF ExpelEntities, EntitiesFree
<1>3. CASE ExpelLock(p) /\ Return(p, "expel_own")
  <2>1. "expel_own" \in State /\ "expel_own" \notin Leaving
    BY DEF State, Leaving
  <2>2. inviter' \in [Players -> Players \cup {NoPlayer}]
    BY <1>1, <1>3 DEF ExpelLock, TypeOK
  <2>. QED BY <1>1, <1>3, <2>1, <2>2, Returns DEF ExpelLock
<1>4. CASE ExpelLock(p) /\ ~Return(p, "expel_own")
  <2>1. /\ Free(p) /\ HasParty(p) /\ Goto(p, "expel_own", "ban_banned")
        /\ lock' = [lock EXCEPT ![p] = p]
        /\ UNCHANGED <<tgt, ent, why, inWorld, alive, party, members, parties, inviter, fault>>
    BY <1>4 DEF ExpelLock, IsPartyLeader
  <2>2. "ban_banned" \in State
    BY DEF State
  <2>3. /\ pc' \in [Threads -> State] /\ pc[p] = "expel_own" /\ pc'[p] = "ban_banned"
        /\ \A u \in Threads : u # p => pc'[u] = pc[u]
    BY <1>1, <2>1, <2>2, GotoFacts
  <2>4. /\ lock' \in [Players -> Threads \cup {NoPlayer}] /\ lock'[p] = p
        /\ \A x \in Players : x # p => lock'[x] = lock[x]
    BY <1>1, <2>1 DEF TypeOK
  <2>5. TypeOK' /\ MemberFound'
    BY <1>1, <2>1, <2>3, <2>4 DEF PartyInv, TypeOK, MemberFound
  <2>6. LocksInv(p)' /\ TargetInv(p)'
    BY <1>1, <2>1, <2>3, <2>4, NoThread DEF LocksInv, TargetInv, HoldEntities, HaveTarget
  <2>7. PlayerInv(p)'
    BY <1>1, <2>1, <2>3 DEF PlayerInv, HasParty, InList, Leaving
  <2>. QED BY <1>1, <2>1, <2>3, <2>4, <2>5, <2>6, <2>7, Moves DEF Free
<1>. QED BY <1>2, <1>3, <1>4

LEMMA BanBannedInv ==
    ASSUME PartyInv, fault = "none", NEW p \in Players, BanBanned(p)
    PROVE  PartyInv'
<1> DEFINE b == tgt[p]
           q == party[p]
<1>1. TypeOK /\ LocksInv(p) /\ TargetInv(p) /\ PlayerInv(p) /\ p \in Threads
  BY DEF PartyInv, Threads
<1>2. pc[p] = "ban_banned" /\ Free(b) /\ UNCHANGED <<why, inWorld, alive, parties, inviter>>
  BY DEF BanBanned
<1>3. b \in Players /\ lock[p] = p /\ ent = p /\ HasParty(p) /\ q \in Parties /\ p # b
  <2>1. b \in Players /\ lock[p] = p /\ ent = p /\ HasParty(p)
    BY <1>1, <1>2 DEF LocksInv, TargetInv, PlayerInv, HoldOwn, HoldEntities, HaveTarget
  <2>. QED BY <1>1, <1>2, <2>1, NoThread DEF Free, HasParty, TypeOK
<1>4. CASE Return(p, "ban_banned") /\ UNCHANGED <<party, members, fault>>
  <2>1. "ban_banned" \in State /\ "ban_banned" \notin Leaving
    BY DEF State, Leaving
  <2>2. inviter' \in [Players -> Players \cup {NoPlayer}]
    BY <1>1, <1>2 DEF TypeOK
  <2>. QED BY <1>1, <1>2, <1>4, <2>1, <2>2, Returns
<1>5. CASE /\ party[b] = q /\ Goto(p, "ban_banned", "ban_size")
           /\ lock' = [lock EXCEPT ![b] = p] /\ RemoveMember(q, b)
           /\ party' = [party EXCEPT ![b] = NoParty] /\ UNCHANGED <<tgt, ent>>
  <2> HIDE DEF b, q
  <2>1. "ban_size" \in State
    BY DEF State
  <2>2. /\ pc' \in [Threads -> State] /\ pc'[p] = "ban_size"
        /\ \A u \in Threads : u # p => pc'[u] = pc[u]
    BY <1>1, <1>5, <2>1, GotoFacts
  <2>3. /\ lock' \in [Players -> Threads \cup {NoPlayer}] /\ lock'[p] = p
        /\ \A x \in Players : x # b => lock'[x] = lock[x]
    BY <1>1, <1>3, <1>5 DEF TypeOK
  <2>4. InList(q, b)
    <3>1. PlayerInv(b) /\ LocksInv(b) /\ b # NoPlayer
      BY <1>3, NoThread DEF PartyInv, Threads
    <3>2. pc[b] \notin Leaving /\ HasParty(b)
      BY <1>2, <1>3, <1>5, <3>1, NoPartyAssumption DEF LocksInv, HoldOwn, Free, HasParty
    <3>. QED BY <1>5, <3>1, <3>2 DEF PlayerInv
  <2>5. LocksInv(p)' /\ TargetInv(p)'
    BY <1>3, <1>5, <2>2, <2>3, NoThread DEF LocksInv, TargetInv, HaveTarget
  <2>6. /\ tgt' \in [Threads -> Players \cup {NoPlayer}] /\ ent' \in Threads \cup {NoPlayer}
        /\ parties' \subseteq Parties
    BY <1>1, <1>2, <1>5 DEF TypeOK
  <2>7. lock[b] = NoPlayer
    BY <1>2 DEF Free
  <2>8. \A u \in Threads : u # p => pc'[u] = pc[u] /\ tgt'[u] = tgt[u]
    BY <1>5, <2>2
  <2>9. \A x \in Players : lock[x] # NoPlayer /\ lock[x] # p => lock'[x] = lock[x]
    BY <2>3, <2>7
  <2>. QED BY <1>1, <1>2, <1>3, <1>5, <2>2, <2>3, <2>4, <2>5, <2>6, <2>7, <2>8, <2>9, TakesOut
<1>. QED BY <1>4, <1>5 DEF BanBanned

LEMMA BanSizeInv ==
    ASSUME PartyInv, fault = "none", NEW p \in Players, BanSize(p)
    PROVE  PartyInv'
<1> DEFINE q == party[p]
<1>1. TypeOK /\ PlayerInv(p) /\ LocksInv(p) /\ p \in Threads
  BY DEF PartyInv, Threads
<1>2. /\ Return(p, "ban_size") /\ pc[p] = "ban_size"
      /\ UNCHANGED <<why, inWorld, alive, parties, inviter>>
  BY DEF BanSize, Return, Goto
<1>3. q \in Parties /\ InList(q, p) /\ lock[p] = p
  BY <1>1, <1>2 DEF PlayerInv, LocksInv, HasParty, TypeOK, Leaving, HoldOwn
<1>4. CASE RemoveMember(q, p) /\ party' = [party EXCEPT ![p] = NoParty]
  <2> HIDE DEF q
  <2>1. /\ pc' \in [Threads -> State] /\ pc'[p] = "idle"
        /\ \A u \in Threads : u # p => pc'[u] = pc[u] /\ tgt'[u] = tgt[u]
        /\ tgt' \in [Threads -> Players \cup {NoPlayer}]
        /\ lock' \in [Players -> Threads \cup {NoPlayer}]
        /\ \A x \in Players : lock[x] # p => lock'[x] = lock[x]
        /\ ent' \in Threads \cup {NoPlayer}
        /\ ent # p => ent' = ent
    BY <1>1, <1>2, ReturnFacts
  <2>2. LocksInv(p)' /\ TargetInv(p)'
    BY <2>1 DEF LocksInv, TargetInv, HoldOwn, HoldEntities, Leaving, HaveTarget
  <2>3. parties' \subseteq Parties /\ party[p] = q
    BY <1>1, <1>2 DEF TypeOK, q
  <2>. QED BY <1>1, <1>2, <1>3, <1>4, <2>1, <2>2, <2>3, TakesOut
<1>5. CASE UNCHANGED <<party, members, fault>>
  <2>1. "ban_size" \in State /\ "ban_size" \notin Leaving
    BY DEF State, Leaving
  <2>2. inviter' \in [Players -> Players \cup {NoPlayer}]
    BY <1>1, <1>2 DEF TypeOK
  <2>. QED BY <1>1, <1>2, <1>5, <2>1, <2>2, Returns
<1>. QED BY <1>4, <1>5 DEF BanSize

LEMMA BanInv ==
    ASSUME PartyInv, fault = "none", NEW p \in Players, Ban(p)
    PROVE  PartyInv'
<1>1. TypeOK /\ p \in Threads
  BY DEF PartyInv, Threads
<1>2. ASSUME NEW b \in Players, BanLock(p, b)
      PROVE  PartyInv'
  <2>1. HasParty(p)
    BY <1>2 DEF BanLock, IsPartyLeader
  <2>. QED BY <1>2, <2>1, Begins DEF BanLock
<1>3. CASE BanEntities(p)
  <2>1. inviter' \in [Players -> Players \cup {NoPlayer}]
    BY <1>1, <1>3 DEF BanEntities, TypeOK
  <2>2. CASE Return(p, "ban_entities")
    <3>1. "ban_entities" \in State /\ "ban_entities" \notin Leaving
      BY DEF State, Leaving
    <3>. QED BY <1>1, <1>3, <2>1, <2>2, <3>1, Returns DEF BanEntities
  <2>3. CASE ~Return(p, "ban_entities")
    BY <1>3, <2>1, <2>3, FindsOther DEF BanEntities
  <2>. QED BY <2>2, <2>3
<1>. QED BY <1>2, <1>3, ExpelInv, BanBannedInv, BanSizeInv DEF Ban

-----------------------------------------------------------------------------
(* LeaveParty, and what OnRestart and OnDisconnected do after it.           *)

LEMMA LeaveLockInv ==
    ASSUME PartyInv, fault = "none", NEW p \in Players, NEW reason \in Reason,
           LeaveLock(p, reason)
    PROVE  PartyInv'
<1>1. /\ TypeOK /\ ListsInv /\ LocksInv(p) /\ PlayerInv(p) /\ p \in Threads
      /\ p # NoPlayer
  BY NoThread DEF PartyInv, Threads
<1>2. /\ pc[p] = "idle" /\ p \in inWorld /\ Free(p)
      /\ UNCHANGED <<tgt, ent, inWorld, alive, party, parties, inviter>>
  BY DEF LeaveLock, CanHandle
<1>3. /\ lock' \in [Players -> Threads \cup {NoPlayer}] /\ lock'[p] = p
      /\ \A x \in Players : x # p => lock'[x] = lock[x]
      /\ why' \in [Players -> Reason]
  BY <1>1 DEF TypeOK, LeaveLock
<1>4. \A x \in Players : lock[x] # NoPlayer /\ lock[x] # p => lock'[x] = lock[x]
  BY <1>2, <1>3 DEF Free
<1>5. CASE ~HasParty(p) /\ Goto(p, "idle", "remove_entities") /\ UNCHANGED <<members, fault>>
  <2>1. "remove_entities" \in State
    BY DEF State
  <2>2. /\ pc' \in [Threads -> State] /\ pc'[p] = "remove_entities"
        /\ \A u \in Threads : u # p => pc'[u] = pc[u]
    BY <1>1, <1>5, <2>1, GotoFacts
  <2>3. TypeOK' /\ MemberFound'
    BY <1>1, <1>2, <1>3, <1>5, <2>2 DEF PartyInv, TypeOK, MemberFound
  <2>4. LocksInv(p)' /\ TargetInv(p)'
    BY <1>3, <2>2, NoThread DEF LocksInv, TargetInv, HoldEntities, HaveTarget
  <2>5. PlayerInv(p)'
    BY <1>1, <1>2, <1>5, <2>2 DEF PlayerInv, HasParty, InList, Leaving
  <2>. QED BY <1>1, <1>2, <1>4, <1>5, <2>2, <2>3, <2>4, <2>5, Moves
<1>6. CASE HasParty(p) /\ Goto(p, "idle", "leave_size") /\ RemoveMember(party[p], p)
  <2> DEFINE q == party[p]
  <2>1. q \in Parties /\ InList(q, p)
    BY <1>1, <1>2, <1>6 DEF PlayerInv, HasParty, TypeOK, Leaving
  <2> HIDE DEF q
  <2>2. "leave_size" \in State /\ RemoveMember(q, p) /\ party[p] = q
    BY <1>6 DEF State, q
  <2>3. /\ pc' \in [Threads -> State] /\ pc'[p] = "leave_size"
        /\ \A u \in Threads : u # p => pc'[u] = pc[u]
    BY <1>1, <1>6, <2>2, GotoFacts
  <2>4. /\ fault' = fault
        /\ members' \in [Parties -> Seq(Players)]
        /\ \A r \in Parties : Len(members'[r]) <= MaxPartySize
        /\ \A r \in Parties : IsInjective(members'[r])
        /\ \A r \in Parties, x \in Players :
              InList(r, x)' <=> InList(r, x) /\ ~(r = q /\ x = p)
    BY <1>1, <2>1, <2>2, Removal
  <2>5. TypeOK' /\ MemberFound'
    BY <1>1, <1>2, <1>3, <2>3, <2>4 DEF PartyInv, TypeOK, MemberFound
  <2>6. LocksInv(p)' /\ TargetInv(p)'
    BY <1>3, <2>3, NoThread DEF LocksInv, TargetInv, HoldEntities, HaveTarget
  <2>7. ASSUME NEW u \in Threads, u # p
        PROVE  LocksInv(u)' /\ TargetInv(u)'
    <3>1. u # NoPlayer
      BY NoThread
    <3>. QED BY <1>2, <1>4, <2>3, <2>7, <3>1, OthersKeep
  <2>8. PlayerInv(p)'
    <3>1. ~(p \in ToSet(members'[q]))
      BY <2>1, <2>4 DEF InList
    <3>. QED BY <1>2, <1>6, <2>2, <2>3, <3>1 DEF PlayerInv, HasParty, InList, Leaving
  <2>9. ASSUME NEW u \in Players, u # p
        PROVE  PlayerInv(u)'
    <3>1. HasParty(u) => (u \in ToSet(members'[party[u]]) <=> InList(party[u], u))
      <4>1. HasParty(u) => party[u] \in Parties
        BY <1>1 DEF TypeOK, HasParty
      <4>. QED BY <2>4, <2>9, <4>1 DEF InList
    <3>2. u \in Threads
      BY DEF Threads
    <3>. QED BY <1>2, <2>3, <2>9, <3>1, <3>2, OtherPlayersKeep DEF InList
  <2>10. ListsInv'
    BY <1>1, <1>2, <2>4 DEF ListsInv
  <2>. QED BY <2>5, <2>6, <2>7, <2>8, <2>9, <2>10 DEF PartyInv
<1>. QED BY <1>5, <1>6 DEF LeaveLock

LEMMA LeaveSizeInv ==
    ASSUME PartyInv, fault = "none", NEW p \in Players, LeaveSize(p)
    PROVE  PartyInv'
<1>1. TypeOK /\ LocksInv(p) /\ TargetInv(p) /\ PlayerInv(p) /\ p \in Threads
  BY DEF PartyInv, Threads
<1>2. PICK to \in {"leave_leader", "leave_end"} :
         /\ Goto(p, "leave_size", to)
         /\ UNCHANGED <<tgt, why, lock, ent, inWorld, alive, party, members, parties,
                        inviter, fault>>
  BY DEF LeaveSize
<1>3. to \in State
  BY DEF State
<1>4. /\ pc' \in [Threads -> State] /\ pc[p] = "leave_size" /\ pc'[p] = to
      /\ \A u \in Threads : u # p => pc'[u] = pc[u]
  BY <1>1, <1>2, <1>3, GotoFacts
<1>5. TypeOK' /\ MemberFound'
  BY <1>1, <1>2, <1>4 DEF PartyInv, TypeOK, MemberFound
<1>6. LocksInv(p)' /\ TargetInv(p)'
  BY <1>1, <1>2, <1>4, NoThread
  DEF LocksInv, TargetInv, HoldOwn, HoldEntities, HaveTarget, Leaving
<1>7. PlayerInv(p)'
  BY <1>1, <1>2, <1>4 DEF PlayerInv, HasParty, InList, Leaving
<1>. QED BY <1>1, <1>2, <1>4, <1>5, <1>6, <1>7, Moves

LEMMA LeaveLeaderInv ==
    ASSUME PartyInv, fault = "none", NEW p \in Players, LeaveLeader(p)
    PROVE  PartyInv'
<1> DEFINE leader == GetLeader(party[p])
<1>1. TypeOK /\ LocksInv(p) /\ TargetInv(p) /\ PlayerInv(p) /\ p \in Threads
  BY DEF PartyInv, Threads
<1>2. /\ Goto(p, "leave_leader", "leave_lock") /\ tgt' = [tgt EXCEPT ![p] = leader]
      /\ fault' = IF leader = NoPlayer THEN "no_leader" ELSE fault
      /\ UNCHANGED <<why, lock, ent, inWorld, alive, party, members, parties, inviter>>
  BY DEF LeaveLeader
<1>3. "leave_lock" \in State /\ "no_leader" \in Fault
  BY DEF State, Fault
<1>4. /\ pc' \in [Threads -> State] /\ pc[p] = "leave_leader" /\ pc'[p] = "leave_lock"
      /\ \A u \in Threads : u # p => pc'[u] = pc[u]
  BY <1>1, <1>2, <1>3, GotoFacts
<1>5. leader \in Players \cup {NoPlayer}
  <2>1. party[p] \in Parties
    BY <1>1, <1>4 DEF PlayerInv, Leaving, HasParty, TypeOK
  <2>2. members[party[p]] \in Seq(Players)
    BY <1>1, <2>1 DEF TypeOK
  <2>. QED BY <2>2 DEF GetLeader
<1> HIDE DEF leader
<1>6. /\ tgt' \in [Threads -> Players \cup {NoPlayer}] /\ tgt'[p] = leader
      /\ \A u \in Threads : u # p => tgt'[u] = tgt[u]
      /\ fault' \in Fault /\ fault' # "absent_member"
  BY <1>1, <1>2, <1>3, <1>5 DEF TypeOK
<1>7. TypeOK' /\ MemberFound'
  BY <1>1, <1>2, <1>4, <1>6 DEF TypeOK, MemberFound
<1>8. LocksInv(p)' /\ TargetInv(p)'
  BY <1>1, <1>2, <1>4, <1>5, <1>6, NoThread
  DEF LocksInv, TargetInv, HoldOwn, HoldEntities, HaveTarget, Leaving
<1>9. PlayerInv(p)'
  BY <1>1, <1>2, <1>4 DEF PlayerInv, HasParty, InList, Leaving
<1>. QED BY <1>1, <1>2, <1>4, <1>6, <1>7, <1>8, <1>9, Moves

LEMMA LeaveLeaderLockInv ==
    ASSUME PartyInv, fault = "none", NEW p \in Players, LeaveLeaderLock(p)
    PROVE  PartyInv'
<1> DEFINE leader == tgt[p]
<1>1. TypeOK /\ LocksInv(p) /\ TargetInv(p) /\ PlayerInv(p) /\ p \in Threads
  BY DEF PartyInv, Threads
<1>2. /\ pc[p] = "leave_lock"
      /\ UNCHANGED <<tgt, why, ent, inWorld, alive, party, members, parties, inviter>>
  BY DEF LeaveLeaderLock
<1>3. lock[p] = p /\ leader \in Players
  BY <1>1, <1>2 DEF LocksInv, TargetInv, HoldOwn, Leaving
<1>4. CASE fault' = "destroyed_leader" /\ UNCHANGED <<pc, lock>>
  <2>1. TypeOK' /\ MemberFound'
    BY <1>1, <1>2, <1>4 DEF TypeOK, Fault, MemberFound
  <2>2. LocksInv(p)' /\ TargetInv(p)'
    BY <1>1, <1>2, <1>4 DEF LocksInv, TargetInv, HaveTarget
  <2>3. PlayerInv(p)'
    BY <1>1, <1>2, <1>4 DEF PlayerInv, HasParty, InList
  <2>. QED BY <1>1, <1>2, <1>4, <2>1, <2>2, <2>3, Moves
<1>5. CASE /\ Free(leader) /\ HasParty(leader) /\ Goto(p, "leave_lock", "leave_entities")
           /\ lock' = [lock EXCEPT ![leader] = p] /\ UNCHANGED fault
  <2> HIDE DEF leader
  <2>1. "leave_entities" \in State
    BY DEF State
  <2>2. /\ pc' \in [Threads -> State] /\ pc'[p] = "leave_entities"
        /\ \A u \in Threads : u # p => pc'[u] = pc[u]
    BY <1>1, <1>5, <2>1, GotoFacts
  <2>3. leader # p
    BY <1>1, <1>3, <1>5, NoThread DEF Free
  <2>4. /\ lock' \in [Players -> Threads \cup {NoPlayer}] /\ lock'[leader] = p /\ lock'[p] = p
        /\ \A x \in Players : x # leader => lock'[x] = lock[x]
    BY <1>1, <1>3, <1>5, <2>3 DEF TypeOK
  <2>5. TypeOK' /\ MemberFound'
    BY <1>1, <1>2, <1>5, <2>2, <2>4 DEF PartyInv, TypeOK, MemberFound
  <2>6. tgt[p] = leader
    BY DEF leader
  <2>7. LocksInv(p)' /\ TargetInv(p)'
    BY <1>2, <1>3, <1>5, <2>2, <2>3, <2>4, <2>6, NoThread
    DEF LocksInv, TargetInv, HoldEntities, HasParty
  <2>8. PlayerInv(p)'
    BY <1>1, <1>2, <2>2 DEF PlayerInv, HasParty, InList, Leaving
  <2>. QED BY <1>1, <1>2, <1>5, <2>2, <2>4, <2>5, <2>7, <2>8, Moves DEF Free
<1>6. CASE Goto(p, "leave_lock", "leave_end") /\ UNCHANGED <<lock, fault>>
  <2>1. "leave_end" \in State
    BY DEF State
  <2>2. /\ pc' \in [Threads -> State] /\ pc'[p] = "leave_end"
        /\ \A u \in Threads : u # p => pc'[u] = pc[u]
    BY <1>1, <1>6, <2>1, GotoFacts
  <2>3. TypeOK' /\ MemberFound'
    BY <1>1, <1>2, <1>6, <2>2 DEF PartyInv, TypeOK, MemberFound
  <2>4. LocksInv(p)' /\ TargetInv(p)'
    BY <1>3, <1>6, <2>2, NoThread DEF LocksInv, TargetInv, HoldEntities, HaveTarget
  <2>5. PlayerInv(p)'
    BY <1>1, <1>2, <2>2 DEF PlayerInv, HasParty, InList, Leaving
  <2>. QED BY <1>1, <1>2, <1>6, <2>2, <2>3, <2>4, <2>5, Moves
<1>. QED BY <1>4, <1>5, <1>6 DEF LeaveLeaderLock

LEMMA LeaveEntitiesInv ==
    ASSUME PartyInv, fault = "none", NEW p \in Players, LeaveEntities(p)
    PROVE  PartyInv'
<1> DEFINE b == tgt[p]
           q == party[b]
<1>1. TypeOK /\ LocksInv(p) /\ TargetInv(p) /\ p \in Threads /\ p # NoPlayer
  BY NoThread DEF PartyInv, Threads
<1>2. /\ Goto(p, "leave_entities", "leave_end") /\ pc[p] = "leave_entities"
      /\ parties' = parties \ {q} /\ RemoveMember(q, b)
      /\ party' = [party EXCEPT ![b] = NoParty] /\ lock' = [lock EXCEPT ![b] = NoPlayer]
      /\ UNCHANGED <<tgt, why, ent, inWorld, alive, inviter>>
  BY DEF LeaveEntities, Goto
<1>3. b \in Players /\ lock[b] = p /\ b # p /\ HasParty(b) /\ q \in Parties /\ lock[p] = p
  <2>1. b \in Players /\ lock[b] = p /\ b # p /\ HasParty(b) /\ lock[p] = p
    BY <1>1, <1>2 DEF TargetInv, LocksInv, HaveTarget, HoldOwn, Leaving
  <2>. QED BY <1>1, <2>1 DEF HasParty, TypeOK
<1>4. InList(q, b)
  <2>1. PlayerInv(b) /\ LocksInv(b)
    BY <1>3 DEF PartyInv, Threads
  <2>2. pc[b] \notin Leaving
    BY <1>3, <2>1 DEF LocksInv, HoldOwn
  <2>. QED BY <1>3, <2>1, <2>2 DEF PlayerInv
<1>5. party[b] = q
  OBVIOUS
<1>6. "leave_end" \in State
  BY DEF State
<1>7. /\ pc' \in [Threads -> State] /\ pc'[p] = "leave_end"
      /\ \A u \in Threads : u # p => pc'[u] = pc[u]
  BY <1>1, <1>2, <1>6, GotoFacts
<1> HIDE DEF b, q
<1>8. /\ lock' \in [Players -> Threads \cup {NoPlayer}] /\ lock'[p] = p
      /\ \A x \in Players : x # b => lock'[x] = lock[x]
  BY <1>1, <1>2, <1>3 DEF TypeOK
<1>9. LocksInv(p)' /\ TargetInv(p)'
  BY <1>2, <1>7, <1>8, NoThread DEF LocksInv, TargetInv, HoldEntities, HaveTarget
<1>10. /\ tgt' \in [Threads -> Players \cup {NoPlayer}] /\ ent' \in Threads \cup {NoPlayer}
       /\ parties' \subseteq Parties
  BY <1>1, <1>2 DEF TypeOK
<1>11. \A u \in Threads : u # p => pc'[u] = pc[u] /\ tgt'[u] = tgt[u]
  BY <1>2, <1>7
<1>12. \A x \in Players : lock[x] # NoPlayer /\ lock[x] # p => lock'[x] = lock[x]
  BY <1>3, <1>8
<1>. QED BY <1>1, <1>2, <1>3, <1>4, <1>5, <1>7, <1>8, <1>9, <1>10, <1>11, <1>12, TakesOut

LEMMA LeaveEndInv ==
    ASSUME PartyInv, fault = "none", NEW p \in Players, LeaveEnd(p)
    PROVE  PartyInv'
<1>1. /\ TypeOK /\ ListsInv /\ LocksInv(p) /\ PlayerInv(p) /\ p \in Threads
      /\ p # NoPlayer
  BY NoThread DEF PartyInv, Threads
<1>2. /\ pc[p] = "leave_end" /\ party' = [party EXCEPT ![p] = NoParty]
      /\ UNCHANGED <<why, inWorld, alive, members, parties, inviter, fault>>
  BY DEF LeaveEnd, Return, Goto
<1>3. lock[p] = p /\ p \in inWorld /\ party[p] \in Parties /\ ~InList(party[p], p)
  BY <1>1, <1>2 DEF LocksInv, PlayerInv, HasParty, TypeOK, HoldOwn, Leaving
<1>4. /\ party' \in [Players -> Parties \cup {NoParty}] /\ party'[p] = NoParty
      /\ \A x \in Players : x # p => party'[x] = party[x]
  BY <1>1, <1>2 DEF TypeOK
<1>5. /\ pc' \in [Threads -> State] /\ pc'[p] \in {"idle", "remove_entities"}
      /\ \A u \in Threads : u # p => pc'[u] = pc[u] /\ tgt'[u] = tgt[u]
      /\ tgt' \in [Threads -> Players \cup {NoPlayer}]
      /\ lock' \in [Players -> Threads \cup {NoPlayer}]
      /\ \A x \in Players : lock[x] # p => lock'[x] = lock[x]
      /\ ent' \in Threads \cup {NoPlayer} /\ (ent # p => ent' = ent)
      /\ pc'[p] = "remove_entities" => lock'[p] = p
  <2>1. CASE Return(p, "leave_end")
    <3>1. /\ pc' \in [Threads -> State] /\ pc'[p] = "idle"
          /\ \A u \in Threads : u # p => pc'[u] = pc[u] /\ tgt'[u] = tgt[u]
          /\ tgt' \in [Threads -> Players \cup {NoPlayer}]
          /\ lock' \in [Players -> Threads \cup {NoPlayer}]
          /\ \A x \in Players : lock[x] # p => lock'[x] = lock[x]
          /\ ent' \in Threads \cup {NoPlayer} /\ (ent # p => ent' = ent)
      BY <1>1, <2>1, ReturnFacts
    <3>. QED BY <3>1
  <2>2. CASE /\ Goto(p, "leave_end", "remove_entities")
             /\ tgt' = [tgt EXCEPT ![p] = NoPlayer] /\ UNCHANGED <<lock, ent>>
    <3>1. "remove_entities" \in State
      BY DEF State
    <3>2. /\ pc' \in [Threads -> State] /\ pc'[p] = "remove_entities"
          /\ \A u \in Threads : u # p => pc'[u] = pc[u]
      BY <1>1, <2>2, <3>1, GotoFacts
    <3>3. /\ tgt' \in [Threads -> Players \cup {NoPlayer}]
          /\ \A u \in Threads : u # p => tgt'[u] = tgt[u]
      BY <1>1, <2>2 DEF TypeOK
    <3>. QED BY <1>1, <1>3, <2>2, <3>2, <3>3 DEF TypeOK
  <2>. QED BY <2>1, <2>2 DEF LeaveEnd
<1>6. TypeOK' /\ MemberFound'
  BY <1>1, <1>2, <1>4, <1>5 DEF PartyInv, TypeOK, MemberFound
<1>7. LocksInv(p)' /\ TargetInv(p)'
  BY <1>5, NoThread DEF LocksInv, TargetInv, HoldEntities, HaveTarget, HoldOwn, Leaving
<1>8. ASSUME NEW u \in Threads, u # p
      PROVE  LocksInv(u)' /\ TargetInv(u)'
  <2>1. \A x \in Players : lock[x] = u => lock'[x] = u /\ party'[x] = party[x]
    BY <1>3, <1>4, <1>5, <1>8
  <2>. QED BY <1>2, <1>5, <1>8, <2>1, OthersKeep
<1>9. PlayerInv(p)'
  BY <1>2, <1>3, <1>4, <1>5 DEF PlayerInv, HasParty, Leaving
<1>10. ASSUME NEW u \in Players, u # p
       PROVE  PlayerInv(u)'
  <2>1. u \in Threads
    BY DEF Threads
  <2>. QED BY <1>2, <1>4, <1>5, <1>10, <2>1, OtherPlayersKeep DEF InList
<1>11. ListsInv'
  <2> SUFFICES ASSUME NEW r \in Parties, NEW x \in Players, InList(r, x)
               PROVE  party'[x] = r /\ x \in inWorld
    BY <1>1, <1>2 DEF ListsInv, InList
  <2>1. party[x] = r /\ x \in inWorld
    BY <1>1 DEF ListsInv
  <2>2. x # p
    BY <1>3, <2>1
  <2>. QED BY <1>4, <2>1, <2>2
<1>. QED BY <1>6, <1>7, <1>8, <1>9, <1>10, <1>11 DEF PartyInv

LEMMA RemoveEntitiesInv ==
    ASSUME PartyInv, fault = "none", NEW p \in Players, RemoveEntities(p)
    PROVE  PartyInv'
<1>1. /\ TypeOK /\ ListsInv /\ LocksInv(p) /\ PlayerInv(p) /\ p \in Threads
      /\ p # NoPlayer
  BY NoThread DEF PartyInv, Threads
<1>2. PICK to \in {"closing", "idle"} : Goto(p, "remove_entities", to)
  BY DEF RemoveEntities
<1>3. /\ ent = NoPlayer /\ inWorld' = inWorld \ {p} /\ lock' = [lock EXCEPT ![p] = NoPlayer]
      /\ UNCHANGED <<tgt, ent, alive, party, members, parties, inviter, fault>>
      /\ why' \in [Players -> Reason]
  BY <1>1 DEF RemoveEntities, EntitiesFree, TypeOK, Reason
<1>4. to \in State
  BY DEF State
<1>5. /\ pc' \in [Threads -> State] /\ pc[p] = "remove_entities" /\ pc'[p] = to
      /\ \A u \in Threads : u # p => pc'[u] = pc[u]
  BY <1>1, <1>2, <1>4, GotoFacts
<1>6. lock[p] = p /\ party[p] = NoParty
  BY <1>1, <1>5 DEF LocksInv, PlayerInv, HoldOwn, HasParty
<1>7. /\ lock' \in [Players -> Threads \cup {NoPlayer}]
      /\ \A x \in Players : x # p => lock'[x] = lock[x]
  BY <1>1, <1>3 DEF TypeOK
<1>8. TypeOK' /\ MemberFound'
  BY <1>1, <1>3, <1>5, <1>7 DEF PartyInv, TypeOK, MemberFound
<1>9. LocksInv(p)' /\ TargetInv(p)'
  BY <1>5, NoThread DEF LocksInv, TargetInv, HoldOwn, HoldEntities, HaveTarget, Leaving
<1>10. ASSUME NEW u \in Threads, u # p
       PROVE  LocksInv(u)' /\ TargetInv(u)'
  <2>1. u # NoPlayer
    BY NoThread
  <2>. QED BY <1>3, <1>5, <1>6, <1>7, <1>10, <2>1, OthersKeep
<1>11. PlayerInv(p)'
  BY <1>3, <1>5, <1>6 DEF PlayerInv, HasParty, Leaving
<1>12. ASSUME NEW u \in Players, u # p
       PROVE  PlayerInv(u)'
  <2>1. u \in Threads
    BY DEF Threads
  <2>. QED BY <1>3, <1>5, <1>12, <2>1, OtherPlayersKeep DEF InList
<1>13. ListsInv'
  BY <1>1, <1>3, <1>6, NoPartyAssumption DEF ListsInv, InList
<1>. QED BY <1>8, <1>9, <1>10, <1>11, <1>12, <1>13 DEF PartyInv

LEMMA EraseSessionInv ==
    ASSUME PartyInv, fault = "none", NEW p \in Players, EraseSession(p)
    PROVE  PartyInv'
<1>1. TypeOK /\ LocksInv(p) /\ PlayerInv(p) /\ p \in Threads
  BY DEF PartyInv, Threads
<1>2. "idle" \in State
  BY DEF State
<1>3. /\ pc' \in [Threads -> State] /\ pc[p] = "closing" /\ pc'[p] = "idle"
      /\ \A u \in Threads : u # p => pc'[u] = pc[u]
  BY <1>1, <1>2, GotoFacts DEF EraseSession
<1>4. TypeOK' /\ MemberFound'
  BY <1>1, <1>3 DEF PartyInv, TypeOK, MemberFound, PlayerInv, EraseSession
<1>5. LocksInv(p)' /\ TargetInv(p)'
  BY <1>3, NoThread DEF LocksInv, TargetInv, HoldOwn, HoldEntities, HaveTarget, Leaving
<1>6. PlayerInv(p)'
  BY <1>1, <1>3 DEF EraseSession, PlayerInv, HasParty, InList, Leaving
<1>. QED BY <1>1, <1>3, <1>4, <1>5, <1>6, Moves DEF EraseSession

-----------------------------------------------------------------------------
(* The tick thread, and all steps together.                                 *)

LEMMA TickInv ==
    ASSUME PartyInv, fault = "none", TickEntities \/ TickPlayer
    PROVE  PartyInv'
<1>1. TypeOK /\ Ticker \in Threads /\ Ticker \notin Players
  BY NoThread DEF PartyInv, Threads
<1>2. CASE TickEntities
  <2>1. PICK p \in inWorld : tgt' = [tgt EXCEPT ![Ticker] = p]
    BY <1>2 DEF TickEntities
  <2>2. "tick_player" \in State /\ p \in Players
    BY <1>1 DEF State, TypeOK
  <2>3. /\ pc' \in [Threads -> State] /\ pc'[Ticker] = "tick_player"
        /\ \A u \in Threads : u # Ticker => pc'[u] = pc[u]
    BY <1>1, <1>2, <2>2, GotoFacts DEF TickEntities
  <2>4. /\ tgt' \in [Threads -> Players \cup {NoPlayer}] /\ tgt'[Ticker] = p
        /\ \A u \in Threads : u # Ticker => tgt'[u] = tgt[u]
    BY <1>1, <2>1, <2>2 DEF TypeOK
  <2>5. TypeOK' /\ MemberFound'
    BY <1>1, <1>2, <2>3, <2>4 DEF PartyInv, TypeOK, MemberFound, TickEntities
  <2>6. LocksInv(Ticker)' /\ TargetInv(Ticker)'
    BY <1>2, <2>2, <2>3, <2>4 DEF LocksInv, TargetInv, HoldOwn, Leaving, TickEntities
  <2>. QED BY <1>1, <1>2, <2>3, <2>4, <2>5, <2>6, Moves DEF TickEntities, EntitiesFree
<1>3. CASE TickPlayer
  <2>1. "tick_player" \in State /\ "tick_player" \notin Leaving
    BY DEF State, Leaving
  <2>2. inviter' \in [Players -> Players \cup {NoPlayer}]
    BY <1>1, <1>3 DEF TickPlayer, TypeOK
  <2>. QED BY <1>1, <1>3, <2>1, <2>2, Returns DEF TickPlayer
<1>. QED BY <1>2, <1>3

LEMMA LeaveInv ==
    ASSUME PartyInv, fault = "none", NEW p \in Players, Leave(p)
    PROVE  PartyInv'
BY LeaveLockInv, LeaveSizeInv, LeaveLeaderInv, LeaveLeaderLockInv, LeaveEntitiesInv,
   LeaveEndInv, RemoveEntitiesInv, EraseSessionInv DEF Leave

LEMMA StepInv == PartyInv /\ [Next]_vars => PartyInv'
<1>1. CASE UNCHANGED vars
  BY <1>1 DEF vars, PartyInv, TypeOK, MemberFound, ListsInv, LocksInv, TargetInv, PlayerInv,
              HasParty, InList
<1>2. CASE PartyInv /\ Next
  BY <1>2, OnStartInv, AskInv, AnswerInv, BanInv, LeaveInv, TickInv DEF Next
<1>. QED BY <1>1, <1>2

LEMMA Invariant == Spec => []PartyInv
BY InitInv, StepInv, PTL DEF Spec

-----------------------------------------------------------------------------
(* The theorems.                                                            *)

\* The variables keep their types: players in the world have a session, no list
\* is longer than Party::MAX_PARTY_SIZE.
THEOREM TypeCorrect == Spec => []TypeOK
<1>1. PartyInv => TypeOK
  BY DEF PartyInv
<1>. QED BY <1>1, Invariant, PTL

\* m_party and the lists of members agree, between the steps of any handlers.
THEOREM MembersAgree == Spec => []MembersMatchParty
<1>1. PartyInv => MembersMatchParty
  <2> SUFFICES ASSUME PartyInv PROVE MembersMatchParty
    OBVIOUS
  <2>1. ASSUME NEW q \in Parties
        PROVE  /\ IsInjective(members[q])
               /\ \A p \in ToSet(members[q]) : party[p] = q
    <3>1. ToSet(members[q]) \subseteq Players
      <4>1. members[q] \in Seq(Players)
        BY DEF PartyInv, TypeOK
      <4>. QED BY <4>1 DEF ToSet
    <3>. QED BY <3>1 DEF PartyInv, ListsInv, InList
  <2>2. ASSUME NEW p \in Players, HasParty(p), Free(p)
        PROVE  p \in ToSet(members[party[p]])
    <3>1. LocksInv(p) /\ PlayerInv(p) /\ p # NoPlayer
      BY NoThread DEF PartyInv, Threads
    <3>2. pc[p] \notin Leaving
      BY <2>2, <3>1 DEF LocksInv, HoldOwn, Free
    <3>. QED BY <2>2, <3>1, <3>2 DEF PlayerInv, InList
  <2>. QED BY <2>1, <2>2 DEF MembersMatchParty
<1>. QED BY <1>1, Invariant, PTL

\* The pointers in a list of members are to players whose sessions exist.
THEOREM MembersExist == Spec => []MembersInWorld
<1>1. PartyInv => MembersInWorld
  <2> SUFFICES ASSUME PartyInv, NEW q \in Parties
               PROVE  ToSet(members[q]) \subseteq inWorld
    BY DEF MembersInWorld
  <2>1. ToSet(members[q]) \subseteq Players
    <3>1. members[q] \in Seq(Players)
      BY DEF PartyInv, TypeOK
    <3>. QED BY <3>1 DEF ToSet
  <2>. QED BY <2>1 DEF PartyInv, ListsInv, InList
<1>. QED BY <1>1, Invariant, PTL

\* Party::RemoveMember never throws.
THEOREM RemovesMembers == Spec => []MemberFound
<1>1. PartyInv => MemberFound
  BY DEF PartyInv
<1>. QED BY <1>1, Invariant, PTL

==============================================================================
