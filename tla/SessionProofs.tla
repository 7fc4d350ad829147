---------------------------- MODULE SessionProofs ----------------------------
(***************************************************************************)
(* Proofs about Session, for any number of users and accounts.             *)
(*                                                                         *)
(* SessionInv is inductive: Init implies it and every action preserves it. *)
(* Most actions leave the packets that matter (S2D_LOGIN, S2D_DISCONNECT,  *)
(* D2S_AUTHORIZED) in their order and add none: the queues only shift.     *)
(* Keeps says so, and QuietStep draws the conclusion once for all of them. *)
(***************************************************************************)
EXTENDS Session, SequenceTheorems, TLAPS

\* The packets of r whose type is in types are packets of q, k places earlier.
Keeps(q, r, k, types) ==
    \A i \in DOMAIN r : r[i].type \in types => i + k \in DOMAIN q /\ r[i] = q[i + k]

\* No packet is of a UID that has not logged in.
Served(r) == \A i \in DOMAIN r : ~NotYetLoggedIn(r[i].uid)

KeepsS2D(r, k) == Keeps(s2d, r, k, {"S2D_LOGIN", "S2D_DISCONNECT"}) /\ Served(r)
KeepsD2S(r, k) == Keeps(d2s, r, k, {"D2S_AUTHORIZED"}) /\ Served(r)

\* The packet that the database callback is busy with stays where it is.
KeepsBusy(r, k) == dbpc = "setaid" => k = 0 /\ r # <<>> /\ Head(r) = Head(d2s)

-----------------------------------------------------------------------------
(* The queues of packets.                                                   *)

LEMMA TailPackets ==
    ASSUME NEW S, NEW q \in Seq(S), q # <<>>
    PROVE  /\ Tail(q) \in Seq(S) /\ Head(q) \in S /\ Head(q) = q[1]
           /\ 1 \in DOMAIN q
           /\ \A i \in DOMAIN Tail(q) : i + 1 \in DOMAIN q /\ Tail(q)[i] = q[i + 1]
  BY HeadTailProperties

LEMMA AppendPacket ==
    ASSUME NEW S, NEW q \in Seq(S), NEW p \in S
    PROVE  /\ Append(q, p) \in Seq(S)
           /\ \A i \in DOMAIN Append(q, p) :
                 \/ i \in DOMAIN q /\ Append(q, p)[i] = q[i]
                 \/ i = Len(q) + 1 /\ Append(q, p)[i] = p
  BY AppendProperties

LEMMA PrefixPackets ==
    ASSUME NEW S, NEW q \in Seq(S), NEW n \in 0..Len(q)
    PROVE  /\ SubSeq(q, 1, n) \in Seq(S)
           /\ DOMAIN SubSeq(q, 1, n) = 1..n
           /\ \A i \in DOMAIN SubSeq(q, 1, n) :
                 i \in DOMAIN q /\ SubSeq(q, 1, n)[i] = q[i]
  BY SubSeqProperties

LEMMA OnePacket ==
    ASSUME NEW S, NEW p \in S
    PROVE  <<p>> \in Seq(S) /\ Len(<<p>>) = 1 /\ DOMAIN <<p>> = {1} /\ <<p>>[1] = p
  OBVIOUS

LEMMA TwoPackets ==
    ASSUME NEW S, NEW p \in S, NEW q \in S
    PROVE  /\ <<p>> \o <<q>> \in Seq(S) /\ DOMAIN (<<p>> \o <<q>>) = {1, 2}
           /\ (<<p>> \o <<q>>)[1] = p /\ (<<p>> \o <<q>>)[2] = q
<1>1. /\ <<p>> \in Seq(S) /\ Len(<<p>>) = 1 /\ <<p>>[1] = p
      /\ <<q>> \in Seq(S) /\ Len(<<q>>) = 1 /\ <<q>>[1] = q
  BY OnePacket
<1>2. /\ <<p>> \o <<q>> \in Seq(S) /\ Len(<<p>> \o <<q>>) = 2
      /\ (<<p>> \o <<q>>)[1] = p /\ (<<p>> \o <<q>>)[2] = q
  BY <1>1, ConcatProperties
<1>. QED  BY <1>2

LEMMA ConcatPackets ==
    ASSUME NEW S, NEW q \in Seq(S), NEW r \in Seq(S)
    PROVE  /\ q \o r \in Seq(S)
           /\ q # <<>> => q \o r # <<>> /\ Head(q \o r) = Head(q)
           /\ \A i \in DOMAIN (q \o r) :
                 \/ i \in DOMAIN q /\ (q \o r)[i] = q[i]
                 \/ /\ i \notin DOMAIN q /\ i - Len(q) \in DOMAIN r
                    /\ (q \o r)[i] = r[i - Len(q)]
  BY ConcatProperties

\* What a handler that writes one request does to the queue of requests.
LEMMA SendPacket ==
    ASSUME TypeOK, NEW t \in S2DType, NEW u \in Users, NEW a \in Aid,
           SendToDb(t, u, a)
    PROVE  /\ s2d' \in Seq(S2DPacket)
           /\ \A i \in DOMAIN s2d' :
                 \/ i \in DOMAIN s2d /\ s2d'[i] = s2d[i]
                 \/ i = Len(s2d) + 1 /\ s2d'[i] = Packet(t, u, a) /\ link = "up"
           /\ link # "up" => s2d' = s2d
<1>1. Packet(t, u, a) \in S2DPacket
  BY DEF Packet, S2DPacket
<1>2. s2d \in Seq(S2DPacket)
  BY DEF TypeOK
<1>3. CASE link = "up"
  BY <1>1, <1>2, <1>3, AppendPacket DEF SendToDb
<1>4. CASE link # "up"
  BY <1>2, <1>4 DEF SendToDb
<1>. QED  BY <1>3, <1>4

LEMMA SendQuietPacket ==
    ASSUME SessionInv, NEW t \in S2DType \ {"S2D_LOGIN", "S2D_DISCONNECT"},
           NEW u \in Users, ~NotYetLoggedIn(u), SendToDb(t, u, aid[u])
    PROVE  s2d' \in Seq(S2DPacket) /\ KeepsS2D(s2d', 0) /\ (link # "up" => s2d' = s2d)
<1>1. TypeOK /\ aid[u] \in Aid /\ s2d \in Seq(S2DPacket) /\ Served(s2d)
  BY DEF SessionInv, TypeOK, LoginsInv, Served
<1>2. Packet(t, u, aid[u]).type = t /\ Packet(t, u, aid[u]).uid = u
  BY DEF Packet
<1>. QED  BY <1>1, <1>2, SendPacket DEF KeepsS2D, Keeps, Served

\* A handler of the database server takes one request and writes its answers.
LEMMA ReplyPackets ==
    ASSUME SessionInv, NEW reply \in Seq(D2SPacket), s2d # <<>>, Reply(reply)
    PROVE  /\ s2d' \in Seq(S2DPacket) /\ KeepsS2D(s2d', 1)
           /\ d2s' \in Seq(D2SPacket)
           /\ d2s # <<>> => d2s' # <<>> /\ Head(d2s') = Head(d2s)
           /\ \A i \in DOMAIN d2s' :
                 \/ i \in DOMAIN d2s /\ d2s'[i] = d2s[i]
                 \/ /\ i \notin DOMAIN d2s /\ i - Len(d2s) \in DOMAIN reply
                    /\ d2s'[i] = reply[i - Len(d2s)]
<1>1. s2d \in Seq(S2DPacket) /\ d2s \in Seq(D2SPacket) /\ Served(s2d)
  BY DEF SessionInv, TypeOK, LoginsInv, Served
<1>2. s2d' \in Seq(S2DPacket) /\ KeepsS2D(s2d', 1)
  BY <1>1, TailPackets DEF Reply, KeepsS2D, Keeps, Served
<1>3. CASE link = "up"
  BY <1>1, <1>2, <1>3, ConcatPackets DEF Reply
<1>4. CASE link # "up"
  BY <1>1, <1>2, <1>4 DEF Reply
<1>. QED  BY <1>3, <1>4

\* An answer that confirms no log-in.
LEMMA QuietReply ==
    ASSUME SessionInv, s2d # <<>>, NEW reply \in Seq(D2SPacket), Reply(reply),
           \A i \in DOMAIN reply : /\ reply[i].type # "D2S_AUTHORIZED"
                                   /\ reply[i].uid = Head(s2d).uid
    PROVE  /\ s2d' \in Seq(S2DPacket) /\ KeepsS2D(s2d', 1)
           /\ d2s' \in Seq(D2SPacket) /\ KeepsD2S(d2s', 0) /\ KeepsBusy(d2s', 0)
<1>1. /\ dbpc = "setaid" => d2s # <<>>
      /\ d2s \in Seq(D2SPacket) /\ Served(d2s)
  BY DEF SessionInv, AidInv, TypeOK, LoginsInv, Served
<1>2. ~NotYetLoggedIn(Head(s2d).uid)
  BY TailPackets DEF SessionInv, TypeOK, LoginsInv
<1>. QED  BY <1>1, <1>2, ReplyPackets DEF KeepsD2S, Keeps, KeepsBusy, Served

\* RoleWrite never disturbs the confirmation of a log-in, raced or not.
LEMMA RoleWritePackets ==
    ASSUME SessionInv, NEW u \in Users, NEW new \in SUBSET Role, RoleWrite(u, new),
           "AUTHORIZED" \in new <=> "AUTHORIZED" \in roles[u],
           ~NotYetLoggedIn(u), "CAN_REQUEST_PRIMARY" \notin new
    PROVE  /\ roles' \in [Users -> SUBSET Role] /\ raced' \subseteq Users
           /\ d2s' \in Seq(D2SPacket)
           /\ \E l \in {0, 1} : KeepsD2S(d2s', l) /\ KeepsBusy(d2s', l)
           /\ \A v \in Users : v # u => roles'[v] = roles[v]
           /\ "AUTHORIZED" \in roles'[u] <=> "AUTHORIZED" \in roles[u]
           /\ "CAN_REQUEST_PRIMARY" \notin roles'[u]
<1>. d2s \in Seq(D2SPacket) /\ roles \in [Users -> SUBSET Role] /\ raced \subseteq Users /\ Served(d2s)
  BY DEF SessionInv, TypeOK, LoginsInv, Served
<1>1. dbpc = "setaid" => d2s # <<>> /\ Head(d2s).type = "D2S_AUTHORIZED"
  BY DEF SessionInv, AidInv
<1>2. CASE roles' = [roles EXCEPT ![u] = new] /\ UNCHANGED <<d2s, raced>>
  BY <1>1, <1>2 DEF KeepsD2S, Keeps, KeepsBusy
<1>3. CASE /\ d2s # <<>> /\ Head(d2s).uid = u
           /\ Head(d2s).type \in {"D2S_LOGIN", "D2S_PLAYER_INFO"}
           /\ \E r \in {new, roles[u] \cup Granted(Head(d2s).type)} :
                roles' = [roles EXCEPT ![u] = r]
           /\ d2s' = Tail(d2s)
           /\ raced' = raced \cup {u}
  <2>1. Granted(Head(d2s).type) \in {{"CAN_REQUEST_SECONDARY"}, {"LOBBY"}}
    BY <1>3 DEF Granted
  <2>2. /\ roles' \in [Users -> SUBSET Role]
        /\ \A v \in Users : v # u => roles'[v] = roles[v]
        /\ "AUTHORIZED" \in roles'[u] <=> "AUTHORIZED" \in roles[u]
        /\ "CAN_REQUEST_PRIMARY" \notin roles'[u]
    BY <1>3, <2>1 DEF Role, NotYetLoggedIn
  <2>3. d2s' \in Seq(D2SPacket) /\ KeepsD2S(d2s', 1) /\ KeepsBusy(d2s', 1)
    BY <1>1, <1>3, TailPackets DEF KeepsD2S, Keeps, KeepsBusy, Served
  <2>. QED  BY <1>3, <2>2, <2>3
<1>. QED  BY <1>2, <1>3 DEF RoleWrite

-----------------------------------------------------------------------------
(* Steps that confirm no log-in, begin none and release no account.         *)

QuietQueues ==
    /\ \E k \in {0, 1} : KeepsS2D(s2d', k)
    /\ \E l \in {0, 1} : KeepsD2S(d2s', l) /\ KeepsBusy(d2s', l)

QuietRoles ==
    \A u \in Users :
        /\ "AUTHORIZED" \in roles'[u] <=> "AUTHORIZED" \in roles[u]
        /\ "CAN_REQUEST_PRIMARY" \in roles'[u] => "CAN_REQUEST_PRIMARY" \in roles[u]
        /\ "CAN_REQUEST_PRIMARY" \in roles'[u] => roles'[u] \subseteq {"CAN_REQUEST_PRIMARY"}
        /\ conn[u] \in {"idle", "gone"} => roles'[u] = {}
        /\ pc'[u] \in {"loading", "starting"} =>
              conn[u] = "open" /\ "CAN_REQUEST_PRIMARY" \notin roles'[u]

\* The packets that matter, as the invariant names them.
KeptLogins(k)   == \A i \in Logins' : i + k \in Logins /\ s2d'[i] = s2d[i + k]
KeptReleases(k) == \A i \in Releases' : i + k \in Releases /\ s2d'[i] = s2d[i + k]
KeptGrants(l)   == \A i \in Grants' : i + l \in Grants /\ d2s'[i] = d2s[i + l]

KeptUses == \A u \in Users, a \in Accounts : Using(u, a)' => Using(u, a)

LEMMA PacketTypes ==
    ASSUME TypeOK
    PROVE  /\ \A i \in DOMAIN s2d : s2d[i].uid \in Users
           /\ \A i \in DOMAIN d2s : d2s[i].uid \in Users
           /\ \A i \in Logins : i \in DOMAIN s2d /\ i \in Nat \ {0} /\ s2d[i].uid \in Users
           /\ \A i \in Releases : i \in DOMAIN s2d /\ i \in Nat \ {0} /\ s2d[i].aid \in Accounts
           /\ \A i \in Grants : /\ i \in DOMAIN d2s /\ i \in Nat
                                /\ d2s[i].uid \in Users /\ d2s[i].aid \in Aid
<1>1. /\ \A i \in DOMAIN s2d : i \in Nat \ {0} /\ s2d[i] \in S2DPacket
      /\ \A i \in DOMAIN d2s : i \in Nat \ {0} /\ d2s[i] \in D2SPacket
  BY DEF TypeOK
<1>. QED  BY <1>1 DEF Logins, Releases, Grants, S2DPacket, D2SPacket, Aid

LEMMA PacketTypesNext ==
    ASSUME TypeOK'
    PROVE  /\ \A i \in DOMAIN s2d' : s2d'[i].uid \in Users
           /\ \A i \in DOMAIN d2s' : d2s'[i].uid \in Users
           /\ \A i \in Logins' : i \in DOMAIN s2d' /\ i \in Nat \ {0} /\ s2d'[i].uid \in Users
           /\ \A i \in Releases' : i \in DOMAIN s2d' /\ i \in Nat \ {0} /\ s2d'[i].aid \in Accounts
           /\ \A i \in Grants' : /\ i \in DOMAIN d2s' /\ i \in Nat
                                 /\ d2s'[i].uid \in Users /\ d2s'[i].aid \in Aid
<1>1. /\ \A i \in DOMAIN s2d' : i \in Nat \ {0} /\ s2d'[i] \in S2DPacket
      /\ \A i \in DOMAIN d2s' : i \in Nat \ {0} /\ d2s'[i] \in D2SPacket
  BY DEF TypeOK
<1>. QED  BY <1>1 DEF Logins, Releases, Grants, S2DPacket, D2SPacket, Aid

\* An account that was robbed stays so as long as the process lives.
LEMMA KeepsKept ==
    ASSUME robbed \subseteq robbed', NEW k
    PROVE  /\ KeepsS2D(s2d', k) => KeptLogins(k) /\ KeptReleases(k)
           /\ KeepsD2S(d2s', k) => KeptGrants(k)
  BY DEF KeepsS2D, KeepsD2S, Keeps, KeptLogins, KeptReleases, KeptGrants,
         Logins, Releases, Grants

LEMMA GiftsKept ==
    ASSUME robbed \subseteq robbed', NEW l, KeptGrants(l)
    PROVE  \A i \in Gifts' : i + l \in Gifts /\ d2s'[i] = d2s[i + l] /\ i \in Grants'
  BY DEF Gifts, KeptGrants

LEMMA HoldersKept ==
    ASSUME SessionInv, TypeOK', KeptUses, robbed \subseteq robbed',
           NEW k \in {0, 1}, KeptReleases(k), NEW l \in {0, 1}, KeptGrants(l)
    PROVE  HoldersInv'
<1>1. \A i \in Grants' : d2s'[i].aid # NoAid /\ d2s'[i].aid \in Accounts /\ i \in Nat
  BY PacketTypesNext DEF KeptGrants, SessionInv, HoldersInv, Aid
<1>2. \A i \in Releases' : s2d'[i].aid \in Accounts /\ i \in Nat
  BY PacketTypesNext
<1>. HoldersInv /\ k \in Nat /\ l \in Nat
  BY DEF SessionInv
<1>0. \A i \in Gifts' : i + l \in Gifts /\ d2s'[i] = d2s[i + l] /\ i \in Grants'
  BY GiftsKept
<1>3. OneSessionPerAccount'
  BY DEF HoldersInv, OneSessionPerAccount, KeptUses
<1>4. \A i, j \in Gifts' : d2s'[i].aid = d2s'[j].aid => i = j
  BY <1>0, <1>1 DEF HoldersInv
<1>5. \A i, j \in Releases' : s2d'[i].aid = s2d'[j].aid => i = j
  BY <1>2 DEF HoldersInv, KeptReleases
<1>6. (\A i \in Gifts, u \in Users : ~Using(u, d2s[i].aid))'
  BY <1>0, <1>1 DEF HoldersInv, KeptUses
<1>7. (\A i \in Releases, u \in Users : ~Using(u, s2d[i].aid))'
  BY <1>2 DEF HoldersInv, KeptUses, KeptReleases
<1>8. \A i \in Releases', j \in Gifts' : s2d'[i].aid # d2s'[j].aid
  BY <1>0 DEF HoldersInv, KeptReleases
<1>. QED  BY <1>1, <1>3, <1>4, <1>5, <1>6, <1>7, <1>8 DEF HoldersInv

LEMMA ActiveKept ==
    ASSUME SessionInv, TypeOK', KeptUses,
           NEW k \in {0, 1}, KeptReleases(k), NEW l \in {0, 1}, KeptGrants(l),
           active \subseteq active', link' # "closed" => link # "closed",
           link' = "closed" => s2d' = <<>>, robbed \subseteq robbed'
    PROVE  ActiveInv'
<1>1. \A i \in Gifts' : i + l \in Gifts /\ d2s'[i] = d2s[i + l]
  BY GiftsKept
<1>. QED  BY <1>1 DEF SessionInv, ActiveInv, KeptUses, KeptReleases

LEMMA BusyKept ==
    ASSUME SessionInv, dbpc' = dbpc, aid' = aid, NEW l, KeepsBusy(d2s', l),
           \A u \in Users : "AUTHORIZED" \in roles'[u] <=> "AUTHORIZED" \in roles[u],
           \A u \in Users : InSessions(u) => InSessions(u)'
    PROVE  AidInv' /\ \A u \in Users : SettingAid(u)' <=> SettingAid(u)
<1>1. ASSUME dbpc = "setaid"
      PROVE  /\ d2s' # <<>> /\ Head(d2s') = Head(d2s) /\ Head(d2s).type = "D2S_AUTHORIZED"
             /\ Head(d2s).uid \in Users /\ InSessions(Head(d2s).uid)
             /\ "AUTHORIZED" \in roles[Head(d2s).uid]
  <2>1. d2s # <<>> /\ d2s \in Seq(D2SPacket)
    BY <1>1 DEF SessionInv, AidInv, TypeOK
  <2>2. Head(d2s) \in D2SPacket
    BY <2>1, TailPackets
  <2>. QED  BY <1>1, <2>2 DEF SessionInv, AidInv, KeepsBusy, D2SPacket
<1>2. \A u \in Users : SettingAid(u)' <=> SettingAid(u)
  BY DEF SettingAid, KeepsBusy
<1>. QED  BY <1>1, <1>2 DEF AidInv

\* What LoginsInv says of each user.
UsersInv ==
    \A u \in Users :
        /\ pc[u] \in {"loading", "starting"} =>
              conn[u] = "open" /\ "CAN_REQUEST_PRIMARY" \notin roles[u]
        /\ conn[u] \in {"idle", "gone"} => roles[u] = {} /\ aid[u] = NoAid
        /\ "CAN_REQUEST_PRIMARY" \in roles[u] => roles[u] \subseteq {"CAN_REQUEST_PRIMARY"}

LEMMA LoginsUsers ==
    ASSUME LoginsInv
    PROVE  UsersInv
  BY DEF LoginsInv, UsersInv, NotYetLoggedIn

\* No user's state goes back to the one before the log-in.
NoNewUser ==
    \A u \in Users : conn'[u] = "idle" \/ "CAN_REQUEST_PRIMARY" \in roles'[u] => NotYetLoggedIn(u)

LEMMA ServedNext ==
    ASSUME TypeOK', NoNewUser, UsersInv', Served(s2d'), Served(d2s')
    PROVE  /\ (\A u \in Users : NotYetLoggedIn(u) => roles[u] \subseteq {"CAN_REQUEST_PRIMARY"})'
           /\ (\A i \in DOMAIN s2d : ~NotYetLoggedIn(s2d[i].uid))'
           /\ (\A i \in DOMAIN d2s : ~NotYetLoggedIn(d2s[i].uid))'
  BY PacketTypesNext DEF Served, NoNewUser, UsersInv, NotYetLoggedIn

LEMMA LoginsKept ==
    ASSUME SessionInv, TypeOK', UsersInv', NoNewUser,
           \A u \in Users : "AUTHORIZED" \in roles'[u] => "AUTHORIZED" \in roles[u],
           NEW k \in {0, 1}, KeptLogins(k), Served(s2d'),
           NEW l \in {0, 1}, KeptGrants(l), Served(d2s'),
           dbpc = "setaid" => dbpc' = "setaid" /\ l = 0
    PROVE  LoginsInv'
<1>. LoginsInv /\ AidInv /\ k \in Nat /\ l \in Nat
  BY DEF SessionInv
<1>2. /\ (\A u \in Users : NotYetLoggedIn(u) => roles[u] \subseteq {"CAN_REQUEST_PRIMARY"})'
      /\ (\A i \in DOMAIN s2d : ~NotYetLoggedIn(s2d[i].uid))'
      /\ (\A i \in DOMAIN d2s : ~NotYetLoggedIn(d2s[i].uid))'
  BY ServedNext
<1>3. \A i, j \in Logins' : s2d'[i].uid = s2d'[j].uid => i = j
  BY PacketTypesNext DEF LoginsInv, KeptLogins
<1>4. \A i \in Logins' : /\ "AUTHORIZED" \notin roles'[s2d'[i].uid]
                         /\ \A j \in Grants' : d2s'[j].uid # s2d'[i].uid
  BY PacketTypesNext DEF LoginsInv, KeptLogins, KeptGrants
<1>5. \A i, j \in Grants' : d2s'[i].uid = d2s'[j].uid => i = j
  BY PacketTypesNext DEF LoginsInv, KeptGrants
<1>6. \A i \in Grants' : "AUTHORIZED" \in roles'[d2s'[i].uid] => dbpc' = "setaid" /\ i = 1
  BY PacketTypesNext DEF LoginsInv, KeptGrants
<1>. QED  BY <1>2, <1>3, <1>4, <1>5, <1>6 DEF LoginsInv, UsersInv

\* The four together, for the steps that confirm no log-in, begin none and
\* release no account.
LEMMA QuietStep ==
    ASSUME SessionInv, TypeOK', QuietQueues, QuietRoles,
           UNCHANGED <<conn, aid, dbpc, robbed>>
    PROVE  /\ LoginsInv' /\ AidInv' /\ HoldersInv' /\ KeptUses
           /\ \E k \in {0, 1} : KeptReleases(k)
           /\ \E l \in {0, 1} : KeptGrants(l)
<1>. PICK k \in {0, 1} : KeepsS2D(s2d', k)
  BY DEF QuietQueues
<1>. PICK l \in {0, 1} : KeepsD2S(d2s', l) /\ KeepsBusy(d2s', l)
  BY DEF QuietQueues
<1>1. KeptLogins(k) /\ KeptReleases(k) /\ KeptGrants(l)
  BY KeepsKept
<1>2. AidInv' /\ \A u \in Users : SettingAid(u)' <=> SettingAid(u)
  BY BusyKept DEF QuietRoles, InSessions
<1>3. KeptUses
  BY <1>2 DEF KeptUses, Using, QuietRoles, Authorized
<1>4. LoginsInv'
  <2>1. UsersInv' /\ NoNewUser
    BY DEF UsersInv, NoNewUser, QuietRoles, NotYetLoggedIn, SessionInv, LoginsInv
  <2>. QED  BY <1>1, <2>1, LoginsKept DEF KeepsS2D, KeepsD2S, QuietRoles, KeepsBusy
<1>5. HoldersInv'
  BY <1>1, <1>3, HoldersKept
<1>. QED  BY <1>1, <1>2, <1>3, <1>4, <1>5

LEMMA QuietPreserves ==
    ASSUME SessionInv, TypeOK', QuietQueues, QuietRoles,
           UNCHANGED <<conn, aid, dbpc, active, link, robbed>>,
           link = "closed" => s2d' = <<>>
    PROVE  SessionInv'
<1>1. /\ LoginsInv' /\ AidInv' /\ HoldersInv' /\ KeptUses
      /\ \E k \in {0, 1} : KeptReleases(k)
      /\ \E l \in {0, 1} : KeptGrants(l)
  BY QuietStep
<1>2. ActiveInv'
  BY <1>1, ActiveKept
<1>. QED  BY <1>1, <1>2 DEF SessionInv

-----------------------------------------------------------------------------
(* The handlers of a session.                                               *)

\* A handler that updates the roles of u and may send a request to the
\* database server that neither logs in nor out.
LEMMA RoleStep ==
    ASSUME SessionInv, NEW u \in Users, NEW new \in SUBSET Role, RoleWrite(u, new),
           "AUTHORIZED" \in new <=> "AUTHORIZED" \in roles[u],
           "CAN_REQUEST_PRIMARY" \notin roles[u], "CAN_REQUEST_PRIMARY" \notin new,
           conn[u] = "open",
           pc' \in [Users -> HandlerState], \A v \in Users : v # u => pc'[v] = pc[v],
           world' \subseteq Users,
           s2d' \in Seq(S2DPacket), KeepsS2D(s2d', 0), link # "up" => s2d' = s2d,
           UNCHANGED <<conn, aid, dbpc, active, link, robbed>>
    PROVE  SessionInv'
<1>1. /\ roles' \in [Users -> SUBSET Role] /\ raced' \subseteq Users
      /\ d2s' \in Seq(D2SPacket)
      /\ \E l \in {0, 1} : KeepsD2S(d2s', l) /\ KeepsBusy(d2s', l)
      /\ \A v \in Users : v # u => roles'[v] = roles[v]
      /\ "AUTHORIZED" \in roles'[u] <=> "AUTHORIZED" \in roles[u]
      /\ "CAN_REQUEST_PRIMARY" \notin roles'[u]
  BY RoleWritePackets DEF NotYetLoggedIn
<1>2. TypeOK'
  BY <1>1 DEF SessionInv, TypeOK
<1>3. QuietQueues
  BY <1>1 DEF QuietQueues
<1>4. QuietRoles
  BY <1>1 DEF SessionInv, LoginsInv, QuietRoles, NotYetLoggedIn
<1>5. link = "closed" => s2d' = <<>>
  BY DEF SessionInv, ActiveInv
<1>. QED  BY <1>2, <1>3, <1>4, <1>5, QuietPreserves

\* A handler that leaves the roles alone.
LEMMA NoRoleStep ==
    ASSUME SessionInv, NEW u \in Users, conn[u] = "open",
           pc' \in [Users -> HandlerState], pc'[u] \in {pc[u], "halted"},
           \A v \in Users : v # u => pc'[v] = pc[v],
           s2d' \in Seq(S2DPacket), KeepsS2D(s2d', 0), link # "up" => s2d' = s2d,
           UNCHANGED <<conn, roles, aid, world, dbpc, active, link, d2s, raced, robbed>>
    PROVE  SessionInv'
<1>1. TypeOK'
  BY DEF SessionInv, TypeOK
<1>2. KeepsD2S(d2s', 0) /\ KeepsBusy(d2s', 0)
  BY DEF SessionInv, TypeOK, LoginsInv, AidInv, KeepsD2S, Keeps, KeepsBusy, Served
<1>3. QuietQueues
  BY <1>2 DEF QuietQueues
<1>4. QuietRoles
  BY DEF SessionInv, LoginsInv, QuietRoles, NotYetLoggedIn
<1>5. link = "closed" => s2d' = <<>>
  BY DEF SessionInv, ActiveInv
<1>. QED  BY <1>1, <1>3, <1>4, <1>5, QuietPreserves

LEMMA UnchangedS2D ==
    ASSUME SessionInv, s2d' = s2d
    PROVE  s2d' \in Seq(S2DPacket) /\ KeepsS2D(s2d', 0)
  BY DEF SessionInv, TypeOK, LoginsInv, KeepsS2D, Keeps, Served

\* A session that has any other role no longer awaits its log-in.
LEMMA ServedUser ==
    ASSUME SessionInv, NEW u \in Users, conn[u] = "open",
           NEW r \in roles[u], r # "CAN_REQUEST_PRIMARY"
    PROVE  "CAN_REQUEST_PRIMARY" \notin roles[u] /\ ~NotYetLoggedIn(u)
  BY DEF SessionInv, LoginsInv, NotYetLoggedIn

LEMMA OnSecondaryLoginPreserves ==
    ASSUME SessionInv, NEW u \in Users, OnSecondaryLogin(u)
    PROVE  SessionInv'
<1>. TypeOK /\ roles[u] \subseteq Role
  BY DEF SessionInv, TypeOK
<1>0. "CAN_REQUEST_PRIMARY" \notin roles[u] /\ ~NotYetLoggedIn(u)
  BY ServedUser DEF OnSecondaryLogin, CanRequest, CanHandle, Authorized
<1>1. s2d' \in Seq(S2DPacket) /\ KeepsS2D(s2d', 0) /\ (link # "up" => s2d' = s2d)
  BY <1>0, SendQuietPacket DEF OnSecondaryLogin, S2DType
<1>. DEFINE new == roles[u] \ {"CAN_REQUEST_SECONDARY"}
<1>2. /\ new \in SUBSET Role
      /\ "AUTHORIZED" \in new <=> "AUTHORIZED" \in roles[u]
      /\ "CAN_REQUEST_PRIMARY" \notin new /\ "CAN_REQUEST_PRIMARY" \notin roles[u]
  BY <1>0
<1>3. RoleWrite(u, new) /\ conn[u] = "open" /\ pc' = pc /\ world' = world
  BY DEF OnSecondaryLogin, CanRequest, CanHandle
<1>. HIDE DEF new
<1>. QED  BY <1>1, <1>2, <1>3, RoleStep DEF OnSecondaryLogin, TypeOK

LEMMA OnPlayersRequestPreserves ==
    ASSUME SessionInv, NEW u \in Users, OnPlayersRequest(u)
    PROVE  SessionInv'
<1>. TypeOK
  BY DEF SessionInv
<1>0. "CAN_REQUEST_PRIMARY" \notin roles[u] /\ ~NotYetLoggedIn(u)
  BY ServedUser DEF OnPlayersRequest, CanRequest, CanHandle, Authorized
<1>1. s2d' \in Seq(S2DPacket) /\ KeepsS2D(s2d', 0) /\ (link # "up" => s2d' = s2d)
  BY <1>0, SendQuietPacket DEF OnPlayersRequest, S2DType
<1>. QED  BY <1>1, NoRoleStep DEF OnPlayersRequest, CanRequest, CanHandle, TypeOK

LEMMA OnLoadPlayerPreserves ==
    ASSUME SessionInv, NEW u \in Users, OnLoadPlayerAssign(u) \/ OnLoadPlayerSend(u)
    PROVE  SessionInv'
<1>. TypeOK /\ roles[u] \subseteq Role
  BY DEF SessionInv, TypeOK
<1>0. conn[u] = "open" /\ "CAN_REQUEST_PRIMARY" \notin roles[u] /\ ~NotYetLoggedIn(u)
  <2>1. CASE OnLoadPlayerAssign(u)
    BY <2>1, ServedUser DEF OnLoadPlayerAssign, CanRequest, CanHandle, Authorized
  <2>2. CASE OnLoadPlayerSend(u)
    BY <2>2 DEF OnLoadPlayerSend, SessionInv, LoginsInv, NotYetLoggedIn
  <2>. QED  BY <2>1, <2>2
<1>1. CASE OnLoadPlayerAssign(u)
  <2>. DEFINE new == roles[u] \cup {"LOADING"}
  <2>1. /\ new \in SUBSET Role
        /\ "AUTHORIZED" \in new <=> "AUTHORIZED" \in roles[u]
        /\ "CAN_REQUEST_PRIMARY" \notin new /\ "CAN_REQUEST_PRIMARY" \notin roles[u]
    BY <1>0 DEF Role
  <2>2. /\ RoleWrite(u, new) /\ conn[u] = "open" /\ world' = world
        /\ pc' \in [Users -> HandlerState] /\ \A v \in Users : v # u => pc'[v] = pc[v]
    BY <1>1 DEF OnLoadPlayerAssign, CanRequest, CanHandle, TypeOK, HandlerState
  <2>3. s2d' = s2d /\ UNCHANGED <<conn, aid, dbpc, active, link, robbed>>
    BY <1>1 DEF OnLoadPlayerAssign
  <2>. HIDE DEF new
  <2>. QED  BY <2>1, <2>2, <2>3, UnchangedS2D, RoleStep DEF TypeOK
<1>2. CASE OnLoadPlayerSend(u)
  <2>. DEFINE new == roles[u] \ {"LOBBY"}
  <2>1. /\ new \in SUBSET Role
        /\ "AUTHORIZED" \in new <=> "AUTHORIZED" \in roles[u]
        /\ "CAN_REQUEST_PRIMARY" \notin new /\ "CAN_REQUEST_PRIMARY" \notin roles[u]
    BY <1>0
  <2>2. /\ RoleWrite(u, new) /\ conn[u] = "open" /\ world' = world
        /\ pc' \in [Users -> HandlerState] /\ \A v \in Users : v # u => pc'[v] = pc[v]
    BY <1>0, <1>2 DEF OnLoadPlayerSend, TypeOK, HandlerState
  <2>3. /\ s2d' \in Seq(S2DPacket) /\ KeepsS2D(s2d', 0) /\ (link # "up" => s2d' = s2d)
        /\ UNCHANGED <<conn, aid, dbpc, active, link, robbed>>
    BY <1>0, <1>2, SendQuietPacket DEF OnLoadPlayerSend, S2DType
  <2>. HIDE DEF new
  <2>. QED  BY <2>1, <2>2, <2>3, RoleStep DEF TypeOK
<1>. QED  BY <1>1, <1>2

LEMMA OnStartPreserves ==
    ASSUME SessionInv, NEW u \in Users, OnStartAdd(u) \/ OnStartDeny(u)
    PROVE  SessionInv'
<1>. TypeOK /\ roles[u] \subseteq Role
  BY DEF SessionInv, TypeOK
<1>0. conn[u] = "open" /\ "CAN_REQUEST_PRIMARY" \notin roles[u] /\ ~NotYetLoggedIn(u)
  <2>1. CASE OnStartAdd(u)
    BY <2>1, ServedUser DEF OnStartAdd, CanHandle, Authorized
  <2>2. CASE OnStartDeny(u)
    BY <2>2 DEF OnStartDeny, SessionInv, LoginsInv, NotYetLoggedIn
  <2>. QED  BY <2>1, <2>2
<1>1. /\ s2d' = s2d /\ s2d' \in Seq(S2DPacket) /\ KeepsS2D(s2d', 0)
      /\ UNCHANGED <<conn, aid, dbpc, active, link, robbed>>
      /\ conn[u] = "open" /\ world' \subseteq Users
      /\ pc' \in [Users -> HandlerState] /\ \A v \in Users : v # u => pc'[v] = pc[v]
  <2>1. s2d' = s2d /\ UNCHANGED <<conn, aid, dbpc, active, link, robbed>>
    BY DEF OnStartAdd, OnStartDeny
  <2>2. /\ conn[u] = "open" /\ world' \subseteq Users
        /\ pc' \in [Users -> HandlerState] /\ \A v \in Users : v # u => pc'[v] = pc[v]
    BY <1>0 DEF OnStartAdd, OnStartDeny, TypeOK, HandlerState
  <2>. QED  BY <2>1, <2>2, UnchangedS2D
<1>2. CASE OnStartAdd(u) /\ u \notin world
  <2>. DEFINE new == roles[u] \cup {"INGAME"}
  <2>1. /\ new \in SUBSET Role
        /\ "AUTHORIZED" \in new <=> "AUTHORIZED" \in roles[u]
        /\ "CAN_REQUEST_PRIMARY" \notin new /\ "CAN_REQUEST_PRIMARY" \notin roles[u]
    BY <1>0 DEF Role
  <2>2. RoleWrite(u, new)
    BY <1>2 DEF OnStartAdd
  <2>. HIDE DEF new
  <2>. QED  BY <1>1, <2>1, <2>2, RoleStep
<1>3. CASE OnStartAdd(u) /\ u \in world
  BY <1>1, <1>3, NoRoleStep DEF OnStartAdd, TypeOK
<1>4. CASE OnStartDeny(u)
  <2>. DEFINE new == roles[u] \ {"LOADING"}
  <2>1. /\ new \in SUBSET Role
        /\ "AUTHORIZED" \in new <=> "AUTHORIZED" \in roles[u]
        /\ "CAN_REQUEST_PRIMARY" \notin new /\ "CAN_REQUEST_PRIMARY" \notin roles[u]
    BY <1>0
  <2>2. RoleWrite(u, new)
    BY <1>4 DEF OnStartDeny
  <2>. HIDE DEF new
  <2>. QED  BY <1>1, <2>1, <2>2, RoleStep
<1>. QED  BY <1>2, <1>3, <1>4

LEMMA OnRestartPreserves ==
    ASSUME SessionInv, NEW u \in Users, OnRestart(u)
    PROVE  SessionInv'
<1>. TypeOK /\ roles[u] \subseteq Role
  BY DEF SessionInv, TypeOK
<1>0. "CAN_REQUEST_PRIMARY" \notin roles[u] /\ ~NotYetLoggedIn(u)
  BY ServedUser DEF OnRestart, CanRequest, CanHandle, Authorized
<1>1. /\ UNCHANGED <<conn, aid, dbpc, active, link, robbed>>
      /\ conn[u] = "open" /\ world' \subseteq Users
      /\ pc' \in [Users -> HandlerState] /\ \A v \in Users : v # u => pc'[v] = pc[v]
  BY DEF OnRestart, CanRequest, CanHandle, TypeOK, HandlerState
<1>2. CASE u \in world
  <2>. DEFINE new == roles[u] \ {"INGAME"}
  <2>1. /\ new \in SUBSET Role
        /\ "AUTHORIZED" \in new <=> "AUTHORIZED" \in roles[u]
        /\ "CAN_REQUEST_PRIMARY" \notin new /\ "CAN_REQUEST_PRIMARY" \notin roles[u]
    BY <1>0
  <2>2. RoleWrite(u, new) /\ SendToDb("S2D_RESTART", u, aid[u])
    BY <1>2 DEF OnRestart
  <2>3. s2d' \in Seq(S2DPacket) /\ KeepsS2D(s2d', 0) /\ (link # "up" => s2d' = s2d)
    BY <1>0, <2>2, SendQuietPacket DEF S2DType
  <2>. HIDE DEF new
  <2>. QED  BY <1>1, <2>1, <2>2, <2>3, RoleStep
<1>3. CASE u \notin world
  BY <1>1, <1>3, UnchangedS2D, NoRoleStep DEF OnRestart, TypeOK
<1>. QED  BY <1>2, <1>3

\* The UID has not logged in before, so no packet of it is on its way.
LEMMA OnLoginPreserves ==
    ASSUME SessionInv, NEW u \in Users, NEW a \in Aid, OnLogin(u, a)
    PROVE  SessionInv'
<1>. DEFINE n == Len(s2d) + 1
<1>. /\ TypeOK /\ LoginsInv /\ AidInv /\ s2d \in Seq(S2DPacket) /\ d2s \in Seq(D2SPacket)
     /\ Served(s2d) /\ Served(d2s) /\ n \in Nat /\ n \notin DOMAIN s2d
  BY DEF SessionInv, TypeOK, LoginsInv, Served
<1>1. /\ RoleWrite(u, roles[u] \ {"CAN_REQUEST_PRIMARY"}) /\ SendToDb("S2D_LOGIN", u, a)
      /\ conn[u] = "open" /\ NotYetLoggedIn(u) /\ "AUTHORIZED" \notin roles[u]
      /\ UNCHANGED <<conn, pc, aid, world, link, dbpc, active, robbed>>
  BY DEF OnLogin, CanRequest, CanHandle, Authorized, NotYetLoggedIn, LoginsInv
<1>2. d2s # <<>> => Head(d2s).uid # u
  BY <1>1, TailPackets DEF LoginsInv
<1>3. roles' = [roles EXCEPT ![u] = {}] /\ UNCHANGED <<d2s, raced>>
  BY <1>1, <1>2 DEF RoleWrite, LoginsInv
<1>4. /\ s2d' \in Seq(S2DPacket)
      /\ \A i \in DOMAIN s2d' :
            \/ i \in DOMAIN s2d /\ s2d'[i] = s2d[i]
            \/ i = n /\ s2d'[i] = Packet("S2D_LOGIN", u, a) /\ link = "up"
      /\ link # "up" => s2d' = s2d
  BY <1>1, SendPacket DEF S2DType
<1>5. TypeOK'
  BY <1>1, <1>3, <1>4 DEF TypeOK
<1>. HIDE DEF n
<1>6. \A i \in DOMAIN s2d' : \/ i \in DOMAIN s2d /\ s2d'[i] = s2d[i] /\ s2d[i].uid # u
                             \/ i = n /\ s2d'[i].uid = u
  <2>1. \A i \in DOMAIN s2d : s2d[i].uid # u
    BY <1>1 DEF Served
  <2>. QED  BY <1>4, <2>1 DEF Packet
<1>7. \A i \in Logins' : \/ i \in Logins /\ s2d'[i] = s2d[i] /\ s2d[i].uid # u
                         \/ i = n /\ s2d'[i].uid = u
  BY <1>6 DEF Logins
<1>8. \A i \in DOMAIN s2d' : s2d'[i].uid # u => ~NotYetLoggedIn(s2d'[i].uid)
  BY <1>6 DEF Served
<1>9. \A i \in DOMAIN d2s : d2s[i].uid # u
  BY <1>1 DEF Served
<1>10. KeptReleases(0) /\ KeptGrants(0)
  <2>1. KeptGrants(0)
    BY <1>3, PacketTypes DEF Grants, KeptGrants
  <2>2. KeptReleases(0)
    BY <1>1, <1>4 DEF Releases, Packet, KeptReleases
  <2>. QED  BY <2>1, <2>2
<1>11. AidInv' /\ \A v \in Users : SettingAid(v)' <=> SettingAid(v)
  BY <1>1, <1>3 DEF AidInv, TypeOK, InSessions, SettingAid
<1>12. HoldersInv' /\ ActiveInv'
  <2>1. KeptUses
    BY <1>1, <1>3, <1>11 DEF KeptUses, Using, Authorized, TypeOK
  <2>. QED  BY <1>1, <1>4, <1>5, <1>10, <2>1, HoldersKept, ActiveKept DEF SessionInv, ActiveInv
<1>13. LoginsInv'
  <2>1. UsersInv'
    BY <1>1, <1>3, LoginsUsers DEF UsersInv, TypeOK
  <2>2. /\ \A v \in Users : /\ NotYetLoggedIn(v)' => NotYetLoggedIn(v) /\ v # u
                            /\ "AUTHORIZED" \in roles'[v] <=> "AUTHORIZED" \in roles[v]
    BY <1>1, <1>3 DEF NotYetLoggedIn, TypeOK
  <2>3. /\ (\A i \in DOMAIN s2d : ~NotYetLoggedIn(s2d[i].uid))'
        /\ (\A i \in DOMAIN d2s : ~NotYetLoggedIn(d2s[i].uid))'
    BY <1>3, <1>5, <1>8, <1>9, <2>2, PacketTypesNext DEF Served
  <2>4. \A i, j \in Logins' : s2d'[i].uid = s2d'[j].uid => i = j
    BY <1>7 DEF LoginsInv
  <2>5. \A i \in Logins' : /\ "AUTHORIZED" \notin roles'[s2d'[i].uid]
                           /\ \A j \in Grants' : d2s'[j].uid # s2d'[i].uid
    BY <1>1, <1>3, <1>5, <1>7, <1>9, <2>2, PacketTypesNext DEF LoginsInv, Grants
  <2>6. \A i \in Grants' : "AUTHORIZED" \in roles'[d2s'[i].uid] => dbpc' = "setaid" /\ i = 1
    BY <1>1, <1>3, <1>5, <2>2, PacketTypesNext DEF LoginsInv, Grants
  <2>7. \A i, j \in Grants' : d2s'[i].uid = d2s'[j].uid => i = j
    BY <1>3 DEF LoginsInv, Grants
  <2>. QED  BY <2>1, <2>3, <2>4, <2>5, <2>6, <2>7 DEF LoginsInv, UsersInv, NotYetLoggedIn
<1>. QED  BY <1>5, <1>11, <1>12, <1>13 DEF SessionInv

\* The account u has used passes to the S2D_DISCONNECT; one whose AID is not
\* set yet releases nothing.
LEMMA OnDisconnectedPreserves ==
    ASSUME SessionInv, NEW u \in Users, OnDisconnected(u)
    PROVE  SessionInv'
<1>. DEFINE n == Len(s2d) + 1
<1>. /\ TypeOK /\ LoginsInv /\ AidInv /\ HoldersInv /\ ActiveInv
     /\ s2d \in Seq(S2DPacket) /\ d2s \in Seq(D2SPacket) /\ aid[u] \in Aid
     /\ Served(s2d) /\ Served(d2s) /\ n \in Nat /\ n \notin DOMAIN s2d
  BY DEF SessionInv, TypeOK, LoginsInv, Served
<1>1. /\ conn[u] = "open" /\ UNCHANGED <<roles, aid, link, d2s, dbpc, active, raced>>
  BY DEF OnDisconnected, CanHandle
<1>2. CASE conn' = conn
  <2>1. /\ pc' = [pc EXCEPT ![u] = "halted"] /\ UNCHANGED <<conn, world, s2d, robbed>>
    BY <1>1, <1>2 DEF OnDisconnected, TypeOK
  <2>. QED  BY <1>1, <2>1, UnchangedS2D, NoRoleStep DEF TypeOK, HandlerState
<1>3. CASE conn' # conn
  <2>1. /\ conn' = [conn EXCEPT ![u] = "closing"] /\ pc' = pc /\ pc[u] = "ready"
        /\ world' \subseteq Users
        /\ \/ /\ "AUTHORIZED" \in roles[u] /\ SendToDb("S2D_DISCONNECT", u, aid[u])
              /\ robbed' = IF SettingAid(u) THEN robbed \cup ({aid[u]} \cap Accounts)
                                            ELSE robbed
           \/ s2d' = s2d /\ robbed' = robbed
    BY <1>3 DEF OnDisconnected, Authorized, CanHandle, TypeOK
  <2>2. /\ s2d' \in Seq(S2DPacket)
        /\ \A i \in DOMAIN s2d' :
              \/ i \in DOMAIN s2d /\ s2d'[i] = s2d[i]
              \/ /\ i = n /\ s2d'[i] = Packet("S2D_DISCONNECT", u, aid[u])
                 /\ "AUTHORIZED" \in roles[u]
                 /\ SettingAid(u) /\ aid[u] \in Accounts => aid[u] \in robbed'
        /\ link # "up" => s2d' = s2d
    BY <2>1, SendPacket DEF S2DType
  <2>0. robbed \subseteq robbed' /\ robbed' \subseteq Accounts
    BY <2>1 DEF TypeOK
  <2>3. TypeOK'
    BY <1>1, <2>0, <2>1, <2>2 DEF TypeOK, ConnState
  <2>. HIDE DEF n
  <2>4. KeptLogins(0)
    BY <2>2 DEF KeptLogins, Logins, Packet
  <2>5. KeptGrants(0)
    BY <1>1, PacketTypes DEF KeptGrants, Grants
  <2>6. \A i \in Releases' :
            \/ i \in Releases /\ s2d'[i] = s2d[i]
            \/ /\ i = n /\ s2d'[i].aid = aid[u] /\ aid[u] \in Accounts \ robbed
               /\ Using(u, aid[u])
    <3>1. ~SettingAid(u) /\ "AUTHORIZED" \in roles[u] => Using(u, aid[u])
      BY <1>1 DEF Using, Authorized
    <3>2. Packet("S2D_DISCONNECT", u, aid[u]).aid = aid[u]
      BY DEF Packet
    <3>. QED  BY <2>0, <2>2, <3>1, <3>2 DEF Releases
  <2>7. ~NotYetLoggedIn(u) \/ s2d' = s2d
    BY <2>1 DEF LoginsInv
  <2>8. Served(s2d') /\ Served(d2s')
    <3>1. Packet("S2D_DISCONNECT", u, aid[u]).uid = u
      BY DEF Packet
    <3>. QED  BY <1>1, <2>2, <2>7, <3>1 DEF Served
  <2>9. AidInv' /\ \A v \in Users : SettingAid(v)' <=> SettingAid(v)
    BY <1>1, <2>1 DEF AidInv, InSessions, SettingAid, TypeOK
  <2>10. \A v \in Users, a \in Accounts : Using(v, a)' => Using(v, a) /\ v # u
    BY <1>1, <2>1, <2>9 DEF Using, Authorized, TypeOK
  <2>11. LoginsInv'
    <3>1. UsersInv' /\ NoNewUser
      BY <1>1, <2>1, LoginsUsers DEF UsersInv, NoNewUser, NotYetLoggedIn, TypeOK
    <3>. QED  BY <1>1, <2>3, <2>4, <2>5, <2>8, <3>1, LoginsKept
  <2>12. HoldersInv'
    <3>1. \A i \in Releases' : i \in Nat /\ s2d'[i].aid \in Accounts
      BY <2>3, PacketTypesNext
    <3>2. Grants' = Grants /\ d2s' = d2s /\ Gifts' \subseteq Gifts
      BY <1>1, <2>0 DEF Grants, Gifts
    <3>3. OneSessionPerAccount'
      BY <2>0, <2>10 DEF HoldersInv, OneSessionPerAccount
    <3>4. \A i, j \in Releases' : s2d'[i].aid = s2d'[j].aid => i = j
      BY <2>6, <3>1 DEF HoldersInv
    <3>5. (\A i \in Releases, v \in Users : ~Using(v, s2d[i].aid))'
      <4>. SUFFICES ASSUME NEW i \in Releases', NEW v \in Users,
                           NEW a, a = s2d'[i].aid, Using(v, a)'
                    PROVE  FALSE
        OBVIOUS
      <4>1. Using(v, a) /\ v # u /\ a \in Accounts
        BY <2>10, <3>1
      <4>0. a \notin robbed
        BY <2>0 DEF Releases
      <4>2. i \notin Releases \/ s2d'[i] # s2d[i]
        BY <4>1 DEF HoldersInv
      <4>3. a = aid[u] /\ Using(u, aid[u])
        BY <2>6, <4>2
      <4>. QED  BY <4>0, <4>1, <4>3 DEF HoldersInv, OneSessionPerAccount
    <3>6. \A i \in Releases', j \in Gifts : s2d'[i].aid # d2s[j].aid
      <4>. SUFFICES ASSUME NEW i \in Releases', NEW j \in Gifts,
                           s2d'[i].aid = d2s[j].aid
                    PROVE  FALSE
        OBVIOUS
      <4>1. i \notin Releases \/ s2d'[i] # s2d[i]
        BY DEF HoldersInv
      <4>2. d2s[j].aid = aid[u] /\ Using(u, aid[u])
        BY <2>6, <4>1
      <4>. QED  BY <4>2 DEF HoldersInv
    <3>7. (\A i \in Gifts, v \in Users : ~Using(v, d2s[i].aid))'
      <4>1. \A i \in Gifts, v \in Users, a \in Accounts : a = d2s[i].aid => ~Using(v, a)'
        BY <2>10 DEF HoldersInv
      <4>2. \A i \in Gifts : d2s[i].aid \in Accounts
        BY PacketTypes DEF HoldersInv, Gifts, Aid
      <4>. QED  BY <3>2, <4>1, <4>2
    <3>. QED  BY <3>2, <3>3, <3>4, <3>5, <3>6, <3>7 DEF HoldersInv
  <2>13. ActiveInv'
    <3>1. Gifts' \subseteq Gifts /\ d2s' = d2s /\ active' = active /\ link' = link
      BY <1>1, <2>0 DEF Grants, Gifts
    <3>2. link # "closed" => \A i \in Releases' : s2d'[i].aid \in active
      BY <2>3, <2>6, PacketTypesNext DEF ActiveInv
    <3>. QED  BY <2>0, <2>2, <2>10, <3>1, <3>2 DEF ActiveInv
  <2>. QED  BY <2>3, <2>9, <2>11, <2>12, <2>13 DEF SessionInv
<1>. QED  BY <1>2, <1>3

\* A session begins with whatever AID its memory holds, and without AUTHORIZED.
LEMMA ConnectPreserves ==
    ASSUME SessionInv, NEW u \in Users, Connect(u)
    PROVE  SessionInv'
<1>. TypeOK /\ LoginsInv /\ AidInv /\ HoldersInv /\ ActiveInv /\ Served(s2d) /\ Served(d2s)
  BY DEF SessionInv, LoginsInv, Served
<1>1. /\ conn[u] = "idle" /\ dbpc = "idle" /\ conn' = [conn EXCEPT ![u] = "open"]
      /\ roles' = [roles EXCEPT ![u] = {"CAN_REQUEST_PRIMARY"}]
      /\ UNCHANGED <<pc, world, link, s2d, d2s, dbpc, active, raced, robbed>>
  BY DEF Connect
<1>2. /\ roles[u] = {} /\ aid' \in [Users -> Aid]
      /\ \A v \in Users : v # u => aid'[v] = aid[v]
  BY <1>1, UninitAidAssumption DEF Connect, LoginsInv, TypeOK, Aid
<1>3. TypeOK'
  BY <1>1, <1>2 DEF TypeOK, ConnState, Role
<1>4. KeptLogins(0) /\ KeptReleases(0) /\ KeptGrants(0) /\ Served(s2d') /\ Served(d2s')
  BY <1>1, PacketTypes DEF KeptLogins, KeptReleases, KeptGrants, Logins, Releases, Grants, Served
<1>5. /\ \A v \in Users : "AUTHORIZED" \in roles'[v] <=> "AUTHORIZED" \in roles[v]
      /\ UsersInv' /\ NoNewUser
  BY <1>1, <1>2, LoginsUsers DEF UsersInv, NoNewUser, NotYetLoggedIn, TypeOK
<1>6. KeptUses
  BY <1>1, <1>2, <1>5 DEF KeptUses, Using, SettingAid, Authorized, TypeOK
<1>7. LoginsInv'
  BY <1>1, <1>3, <1>4, <1>5, LoginsKept
<1>8. AidInv'
  BY <1>1, <1>2, <1>5 DEF AidInv, SettingAid
<1>9. HoldersInv' /\ ActiveInv'
  BY <1>1, <1>3, <1>4, <1>6, HoldersKept, ActiveKept DEF ActiveInv
<1>. QED  BY <1>3, <1>7, <1>8, <1>9 DEF SessionInv

LEMMA EraseSessionPreserves ==
    ASSUME SessionInv, NEW u \in Users, EraseSession(u)
    PROVE  SessionInv'
<1>. TypeOK /\ LoginsInv /\ AidInv /\ HoldersInv /\ ActiveInv /\ Served(s2d) /\ Served(d2s)
  BY DEF SessionInv, LoginsInv, Served
<1>1. /\ conn[u] = "closing" /\ dbpc = "idle" /\ conn' = [conn EXCEPT ![u] = "gone"]
      /\ roles' = [roles EXCEPT ![u] = {}] /\ aid' = [aid EXCEPT ![u] = NoAid]
      /\ UNCHANGED <<pc, world, link, s2d, d2s, dbpc, active, raced, robbed>>
  BY DEF EraseSession
<1>2. TypeOK'
  BY <1>1 DEF TypeOK, ConnState, Aid
<1>3. KeptLogins(0) /\ KeptReleases(0) /\ KeptGrants(0) /\ Served(s2d') /\ Served(d2s')
  BY <1>1, PacketTypes DEF KeptLogins, KeptReleases, KeptGrants, Logins, Releases, Grants, Served
<1>4. /\ \A v \in Users : "AUTHORIZED" \in roles'[v] => "AUTHORIZED" \in roles[v]
      /\ UsersInv' /\ NoNewUser
  BY <1>1, LoginsUsers DEF UsersInv, NoNewUser, NotYetLoggedIn, TypeOK
<1>5. KeptUses
  BY <1>1 DEF KeptUses, Using, SettingAid, Authorized, TypeOK
<1>6. LoginsInv'
  BY <1>1, <1>2, <1>3, <1>4, LoginsKept
<1>7. AidInv'
  BY <1>1 DEF AidInv, SettingAid, TypeOK
<1>8. HoldersInv' /\ ActiveInv'
  BY <1>1, <1>2, <1>3, <1>5, HoldersKept, ActiveKept DEF ActiveInv
<1>. QED  BY <1>2, <1>6, <1>7, <1>8 DEF SessionInv

-----------------------------------------------------------------------------
(* The database server.                                                     *)

\* A request whose answer confirms no log-in.
LEMMA DbQueues ==
    ASSUME SessionInv, s2d # <<>>, NEW reply, Reply(reply),
           \/ reply = <<>> \/ reply = PlayerList(Head(s2d).uid)
           \/ reply = LoginAnswer(Head(s2d).uid)
           \/ reply = <<Packet("D2S_LOADPLAYER", Head(s2d).uid, NoAid)>>
    PROVE  /\ s2d' \in Seq(S2DPacket) /\ d2s' \in Seq(D2SPacket)
           /\ QuietQueues /\ QuietRoles
           /\ KeepsS2D(s2d', 1) /\ link # "closed"
           /\ UNCHANGED <<conn, pc, roles, aid, world, link, dbpc, raced, robbed>>
<1>. DEFINE u == Head(s2d).uid
<1>1. Head(s2d) \in S2DPacket /\ u \in Users
  <2>1. Head(s2d) \in S2DPacket
    BY TailPackets DEF SessionInv, TypeOK
  <2>. QED  BY <2>1 DEF S2DPacket
<1>. HIDE DEF u
<1>2. /\ \A t \in D2SType : /\ Packet(t, u, NoAid) \in D2SPacket
                            /\ Packet(t, u, NoAid).uid = u /\ Packet(t, u, NoAid).type = t
  BY <1>1 DEF Packet, D2SPacket, Aid
<1>3. PICK t \in D2SType \ {"D2S_AUTHORIZED"} : reply = <<>> \/ reply = <<Packet(t, u, NoAid)>>
  BY DEF PlayerList, LoginAnswer, D2SType, u
<1>4. /\ reply \in Seq(D2SPacket)
      /\ \A i \in DOMAIN reply : reply[i].type # "D2S_AUTHORIZED" /\ reply[i].uid = u
  <2>1. CASE reply = <<>>
    BY <2>1
  <2>2. CASE reply = <<Packet(t, u, NoAid)>>
    BY <1>2, <2>2, OnePacket
  <2>. QED  BY <1>3, <2>1, <2>2
<1>5. /\ s2d' \in Seq(S2DPacket) /\ KeepsS2D(s2d', 1)
      /\ d2s' \in Seq(D2SPacket) /\ KeepsD2S(d2s', 0) /\ KeepsBusy(d2s', 0)
  BY <1>4, QuietReply DEF u
<1>6. UNCHANGED <<conn, pc, roles, aid, world, link, dbpc, raced, robbed>>
  BY DEF Reply
<1>7. QuietRoles
  BY <1>6 DEF QuietRoles, SessionInv, LoginsInv, NotYetLoggedIn
<1>. QED  BY <1>5, <1>6, <1>7 DEF QuietQueues, SessionInv, ActiveInv

LEMMA DbQuietPreserves ==
    ASSUME SessionInv,
           DbLoginRefused \/ DbSecondaryLogin \/ DbPlayers \/ DbRestart \/ DbLoadPlayer
    PROVE  SessionInv'
<1>1. s2d # <<>> /\ active' = active
  BY DEF DbLoginRefused, DbSecondaryLogin, DbPlayers, DbRestart, DbLoadPlayer, Received
<1>2. PICK reply : /\ Reply(reply)
                   /\ \/ reply = <<>> \/ reply = PlayerList(Head(s2d).uid)
                      \/ reply = LoginAnswer(Head(s2d).uid)
                      \/ reply = <<Packet("D2S_LOADPLAYER", Head(s2d).uid, NoAid)>>
  BY DEF DbLoginRefused, DbSecondaryLogin, DbPlayers, DbRestart, DbLoadPlayer
<1>3. /\ s2d' \in Seq(S2DPacket) /\ d2s' \in Seq(D2SPacket)
      /\ QuietQueues /\ QuietRoles /\ link # "closed"
      /\ UNCHANGED <<conn, pc, roles, aid, world, link, dbpc, raced, robbed>>
  BY <1>1, <1>2, DbQueues
<1>4. TypeOK'
  BY <1>1, <1>3 DEF SessionInv, TypeOK
<1>. QED  BY <1>1, <1>3, <1>4, QuietPreserves

\* Nobody but the session that has ended held the account.
LEMMA FlagDisconnectedPreserves ==
    ASSUME SessionInv, FlagDisconnected
    PROVE  SessionInv'
<1>. DEFINE a == Head(s2d).aid
<1>. TypeOK /\ HoldersInv /\ ActiveInv
  BY DEF SessionInv
<1>1. s2d # <<>> /\ Head(s2d).type = "S2D_DISCONNECT" /\ active' = active \ {a} /\ Reply(<<>>)
  BY DEF FlagDisconnected, Received
<1>2. /\ s2d' \in Seq(S2DPacket) /\ d2s' \in Seq(D2SPacket)
      /\ QuietQueues /\ QuietRoles /\ KeepsS2D(s2d', 1) /\ link # "closed"
      /\ UNCHANGED <<conn, pc, roles, aid, world, link, dbpc, raced, robbed>>
  BY <1>1, DbQueues
<1>3. TypeOK'
  BY <1>1, <1>2 DEF TypeOK
<1>4. /\ LoginsInv' /\ AidInv' /\ HoldersInv' /\ KeptUses
      /\ \E l \in {0, 1} : KeptGrants(l)
      /\ KeptReleases(1)
  BY <1>2, <1>3, QuietStep, KeepsKept
<1>5. s2d[1] = Head(s2d) /\ 1 \in DOMAIN s2d
  BY <1>1, TailPackets DEF TypeOK
<1>. HIDE DEF a
<1>6. a \in Accounts \ robbed => 1 \in Releases /\ s2d[1].aid = a
  BY <1>1, <1>5 DEF Releases, a
<1>7. \A u \in Users, b \in Accounts \ robbed : Using(u, b)' => b \in active'
  BY <1>1, <1>2, <1>4, <1>6 DEF KeptUses, ActiveInv, HoldersInv
<1>8. \A i \in Gifts' : d2s'[i].aid \in active'
  <2>1. PICK l \in {0, 1} : KeptGrants(l)
    BY <1>4
  <2>2. \A i \in Gifts' : i + l \in Gifts /\ d2s'[i] = d2s[i + l]
    BY <1>2, <2>1, GiftsKept
  <2>3. \A i \in Gifts : d2s[i].aid \in Accounts \ robbed
    BY PacketTypes DEF Gifts, HoldersInv, Aid
  <2>. QED  BY <1>1, <1>2, <1>6, <2>2, <2>3 DEF ActiveInv, HoldersInv
<1>9. \A i \in Releases' : s2d'[i].aid \in active'
  <2>1. \A i \in Releases' : i \in Nat /\ i + 1 \in Releases /\ s2d'[i] = s2d[i + 1] /\ i + 1 # 1
    BY <1>3, <1>4, PacketTypesNext DEF KeptReleases
  <2>. QED  BY <1>1, <1>2, <1>6, <2>1 DEF ActiveInv, HoldersInv, Releases
<1>. QED  BY <1>2, <1>3, <1>4, <1>7, <1>8, <1>9 DEF SessionInv, ActiveInv

\* The account was not active, so that nobody held it; the log-in is the only
\* one of its UID.
LEMMA DbLoginAuthorizedPreserves ==
    ASSUME SessionInv, DbLoginAuthorized
    PROVE  SessionInv'
<1>. DEFINE p == Head(s2d)
            u == p.uid
            a == p.aid
            m == Len(d2s) + 1
<1>. /\ TypeOK /\ LoginsInv /\ AidInv /\ HoldersInv /\ ActiveInv
     /\ s2d \in Seq(S2DPacket) /\ d2s \in Seq(D2SPacket) /\ Served(d2s)
  BY DEF SessionInv, TypeOK, LoginsInv, Served
<1>1. /\ s2d # <<>> /\ p.type = "S2D_LOGIN" /\ a # NoAid /\ a \notin active
      /\ active' = active \cup {a}
      /\ \E answer \in {PlayerList(u), LoginAnswer(u)} :
            Reply(<<Packet("D2S_AUTHORIZED", u, a)>> \o answer)
      /\ UNCHANGED <<conn, pc, roles, aid, world, link, dbpc, raced, robbed>>
  BY DEF DbLoginAuthorized, Received, Reply
<1>2. /\ p \in S2DPacket /\ u \in Users /\ a \in Accounts
      /\ p = s2d[1] /\ 1 \in DOMAIN s2d /\ 1 \in Logins /\ s2d[1].uid = u
  <2>1. p \in S2DPacket /\ p = s2d[1] /\ 1 \in DOMAIN s2d
    BY <1>1, TailPackets
  <2>2. u \in Users /\ a \in Accounts
    BY <1>1, <2>1 DEF S2DPacket, Aid
  <2>3. s2d[1].type = "S2D_LOGIN" /\ s2d[1].uid = u
    BY <1>1, <2>1
  <2>. HIDE DEF p, u, a
  <2>. QED  BY <2>1, <2>2, <2>3 DEF Logins
<1>. HIDE DEF p, u, a
<1>3. PICK t \in {"D2S_PLAYER_INFO", "D2S_LOGIN"} :
        Reply(<<Packet("D2S_AUTHORIZED", u, a)>> \o <<Packet(t, u, NoAid)>>)
  BY <1>1 DEF PlayerList, LoginAnswer
<1>. DEFINE reply == <<Packet("D2S_AUTHORIZED", u, a)>> \o <<Packet(t, u, NoAid)>>
<1>4. /\ reply \in Seq(D2SPacket) /\ DOMAIN reply = {1, 2}
      /\ reply[1] = Packet("D2S_AUTHORIZED", u, a) /\ reply[2].type # "D2S_AUTHORIZED"
      /\ reply[1].type = "D2S_AUTHORIZED" /\ reply[1].uid = u /\ reply[1].aid = a
      /\ reply[2].uid = u
  <2>1. /\ Packet("D2S_AUTHORIZED", u, a) \in D2SPacket /\ Packet(t, u, NoAid) \in D2SPacket
    BY <1>2 DEF Packet, D2SPacket, D2SType, Aid
  <2>2. /\ reply \in Seq(D2SPacket) /\ DOMAIN reply = {1, 2}
        /\ reply[1] = Packet("D2S_AUTHORIZED", u, a) /\ reply[2] = Packet(t, u, NoAid)
    BY <2>1, TwoPackets
  <2>. HIDE DEF reply
  <2>. QED  BY <2>2 DEF Packet
<1>. HIDE DEF reply
<1>5. /\ s2d' \in Seq(S2DPacket) /\ KeepsS2D(s2d', 1) /\ d2s' \in Seq(D2SPacket)
      /\ d2s # <<>> => d2s' # <<>> /\ Head(d2s') = Head(d2s)
      /\ \A i \in DOMAIN d2s' :
            \/ i \in DOMAIN d2s /\ d2s'[i] = d2s[i]
            \/ /\ i \notin DOMAIN d2s /\ i - Len(d2s) \in DOMAIN reply
               /\ d2s'[i] = reply[i - Len(d2s)]
  BY <1>1, <1>3, <1>4, ReplyPackets DEF reply
<1>6. TypeOK'
  BY <1>1, <1>2, <1>5 DEF TypeOK
<1>7. KeptLogins(1) /\ KeptReleases(1) /\ Served(s2d')
  BY <1>1, <1>5, KeepsKept DEF KeepsS2D
<1>8. /\ \A i \in Grants' : \/ i \in Grants /\ d2s'[i] = d2s[i]
                            \/ i = m /\ d2s'[i].uid = u /\ d2s'[i].aid = a
      /\ m \in Nat
  <2>1. \A i \in DOMAIN d2s' :
            \/ i \in DOMAIN d2s /\ d2s'[i] = d2s[i]
            \/ i = m /\ d2s'[i].uid = u /\ d2s'[i].aid = a
            \/ d2s'[i].type # "D2S_AUTHORIZED"
    BY <1>4, <1>5
  <2>2. m \in Nat
    OBVIOUS
  <2>. HIDE DEF m
  <2>. QED  BY <2>1, <2>2 DEF Grants
<1>9. Served(d2s')
  <2>1. ~NotYetLoggedIn(u)
    BY <1>2 DEF LoginsInv
  <2>2. \A i \in DOMAIN d2s' : (i \in DOMAIN d2s /\ d2s'[i] = d2s[i]) \/ d2s'[i].uid = u
    BY <1>4, <1>5
  <2>. QED  BY <2>1, <2>2 DEF Served
<1>10. "AUTHORIZED" \notin roles[u] /\ \A i \in Grants : d2s[i].uid # u
  BY <1>2 DEF LoginsInv
<1>11. link # "closed"
  BY <1>1 DEF ActiveInv
<1>12. /\ a \notin robbed => \A v \in Users : ~Using(v, a)
       /\ \A i \in Gifts : d2s[i].aid # a
       /\ \A i \in Releases : s2d[i].aid # a
  BY <1>1, <1>2, <1>11 DEF ActiveInv
<1>18. \A i \in Gifts' : /\ i \in Grants' /\ d2s'[i].aid \notin robbed
                         /\ \/ i \in Gifts /\ d2s'[i] = d2s[i]
                            \/ i = m /\ d2s'[i].aid = a
  BY <1>1, <1>8 DEF Gifts
<1>13. AidInv' /\ \A v \in Users : SettingAid(v)' <=> SettingAid(v)
  BY <1>1, <1>5 DEF AidInv, InSessions, SettingAid
<1>14. \A v \in Users, b \in Accounts : Using(v, b)' <=> Using(v, b)
  BY <1>1, <1>13 DEF Using, Authorized
<1>. /\ \A i \in Logins' : i \in Nat /\ i + 1 \in Logins /\ s2d'[i] = s2d[i + 1] /\ i + 1 # 1
     /\ \A i \in Releases' : i \in Nat /\ i + 1 \in Releases /\ s2d'[i] = s2d[i + 1]
  BY <1>6, <1>7, PacketTypesNext DEF KeptLogins, KeptReleases
<1>15. LoginsInv'
  <2>1. UsersInv' /\ NoNewUser
    BY <1>1, LoginsUsers DEF UsersInv, NoNewUser, NotYetLoggedIn
  <2>2. /\ (\A v \in Users : NotYetLoggedIn(v) => roles[v] \subseteq {"CAN_REQUEST_PRIMARY"})'
        /\ (\A i \in DOMAIN s2d : ~NotYetLoggedIn(s2d[i].uid))'
        /\ (\A i \in DOMAIN d2s : ~NotYetLoggedIn(d2s[i].uid))'
    BY <1>6, <1>7, <1>9, <2>1, ServedNext
  <2>3. \A i, j \in Logins' : s2d'[i].uid = s2d'[j].uid => i = j
    BY DEF LoginsInv
  <2>4. \A i \in Logins' : /\ "AUTHORIZED" \notin roles'[s2d'[i].uid]
                           /\ \A j \in Grants' : d2s'[j].uid # s2d'[i].uid
    <3>. SUFFICES ASSUME NEW i \in Logins'
                  PROVE  /\ "AUTHORIZED" \notin roles'[s2d'[i].uid]
                         /\ \A j \in Grants' : d2s'[j].uid # s2d'[i].uid
      OBVIOUS
    <3>1. i + 1 \in Logins /\ s2d'[i] = s2d[i + 1] /\ i + 1 # 1
      OBVIOUS
    <3>2. s2d'[i].uid # u
      BY <1>2, <3>1 DEF LoginsInv
    <3>3. "AUTHORIZED" \notin roles[s2d'[i].uid] /\ \A j \in Grants : d2s[j].uid # s2d'[i].uid
      BY <3>1 DEF LoginsInv
    <3>. QED  BY <1>1, <1>8, <3>2, <3>3
  <2>5. \A i, j \in Grants' : d2s'[i].uid = d2s'[j].uid => i = j
    BY <1>8, <1>10 DEF LoginsInv
  <2>6. \A i \in Grants' : "AUTHORIZED" \in roles'[d2s'[i].uid] => dbpc' = "setaid" /\ i = 1
    BY <1>1, <1>8, <1>10 DEF LoginsInv
  <2>. QED  BY <2>1, <2>2, <2>3, <2>4, <2>5, <2>6 DEF LoginsInv, UsersInv
<1>16. HoldersInv'
  <2>1. OneSessionPerAccount'
    BY <1>1, <1>14 DEF HoldersInv, OneSessionPerAccount
  <2>2. \A i \in Grants' : d2s'[i].aid # NoAid /\ d2s'[i].aid \in Accounts
    BY <1>1, <1>6, <1>8, PacketTypesNext DEF HoldersInv, Aid
  <2>3. \A i, j \in Gifts' : d2s'[i].aid = d2s'[j].aid => i = j
    BY <1>12, <1>18 DEF HoldersInv
  <2>4. (\A i \in Gifts, v \in Users : ~Using(v, d2s[i].aid))'
    <3>1. \A i \in Gifts', v \in Users, b \in Accounts : b = d2s'[i].aid => ~Using(v, b)
      BY <1>12, <1>18 DEF HoldersInv
    <3>. QED  BY <1>14, <1>18, <2>2, <3>1
  <2>5. \A i, j \in Releases' : s2d'[i].aid = s2d'[j].aid => i = j
    BY DEF HoldersInv
  <2>6. (\A i \in Releases, v \in Users : ~Using(v, s2d[i].aid))'
    <3>1. \A i \in Releases', v \in Users, b \in Accounts : b = s2d'[i].aid => ~Using(v, b)
      BY DEF HoldersInv
    <3>. QED  BY <1>6, <1>14, <3>1, PacketTypesNext
  <2>7. \A i \in Releases', j \in Gifts' : s2d'[i].aid # d2s'[j].aid
    BY <1>12, <1>18 DEF HoldersInv
  <2>. QED  BY <2>1, <2>2, <2>3, <2>4, <2>5, <2>6, <2>7 DEF HoldersInv
<1>17. ActiveInv'
  <2>1. \A v \in Users, b \in Accounts \ robbed : Using(v, b)' => b \in active'
    BY <1>1, <1>11, <1>14 DEF ActiveInv
  <2>2. \A i \in Gifts' : d2s'[i].aid \in active'
    BY <1>1, <1>11, <1>18 DEF ActiveInv
  <2>3. \A i \in Releases' : s2d'[i].aid \in active'
    BY <1>1, <1>11 DEF ActiveInv
  <2>. QED  BY <1>1, <1>11, <2>1, <2>2, <2>3 DEF ActiveInv
<1>. QED  BY <1>6, <1>13, <1>15, <1>16, <1>17 DEF SessionInv

-----------------------------------------------------------------------------
(* The database callback.                                                   *)

LEMMA TakenPacket ==
    ASSUME SessionInv, d2s # <<>>, d2s' = Tail(d2s)
    PROVE  /\ Head(d2s) \in D2SPacket /\ Head(d2s).uid \in Users /\ Head(d2s).aid \in Aid
           /\ Head(d2s) = d2s[1] /\ 1 \in DOMAIN d2s
           /\ ~NotYetLoggedIn(Head(d2s).uid)
           /\ d2s' \in Seq(D2SPacket) /\ KeepsD2S(d2s', 1)
<1>1. d2s \in Seq(D2SPacket) /\ Served(d2s)
  BY DEF SessionInv, TypeOK, LoginsInv, Served
<1>2. /\ Head(d2s) \in D2SPacket /\ Head(d2s) = d2s[1] /\ 1 \in DOMAIN d2s
      /\ d2s' \in Seq(D2SPacket) /\ KeepsD2S(d2s', 1)
  BY <1>1, TailPackets DEF KeepsD2S, Keeps, Served
<1>3. Head(d2s).uid \in Users /\ Head(d2s).aid \in Aid
  BY <1>2 DEF D2SPacket
<1>. QED  BY <1>1, <1>2, <1>3 DEF Served

\* A packet that confirms no log-in, or whose session is gone.
LEMMA ListenerQuietPreserves ==
    ASSUME SessionInv, ListenerAssign \/ ListenerAuthorizedDropped \/ ListenerLoad
    PROVE  SessionInv'
<1>. DEFINE u == Head(d2s).uid
<1>. TypeOK /\ LoginsInv
  BY DEF SessionInv
<1>1. /\ d2s # <<>> /\ d2s' = Tail(d2s) /\ dbpc = "idle"
      /\ UNCHANGED <<conn, pc, aid, world, link, s2d, dbpc, active, raced, robbed>>
      /\ \/ roles' = roles
         \/ /\ InSessions(u) /\ Head(d2s).type \in {"D2S_LOGIN", "D2S_PLAYER_INFO"}
            /\ roles' = [roles EXCEPT ![u] = @ \cup Granted(Head(d2s).type)]
  BY DEF ListenerAssign, ListenerAuthorizedDropped, ListenerLoad, Take
<1>2. /\ u \in Users /\ ~NotYetLoggedIn(u)
      /\ d2s' \in Seq(D2SPacket) /\ KeepsD2S(d2s', 1) /\ KeepsBusy(d2s', 1)
  BY <1>1, TakenPacket DEF KeepsBusy
<1>3. s2d' \in Seq(S2DPacket) /\ KeepsS2D(s2d', 0)
  BY <1>1, UnchangedS2D
<1>. HIDE DEF u
<1>4. \/ roles' = roles
      \/ /\ InSessions(u)
         /\ \E r \in {"CAN_REQUEST_SECONDARY", "LOBBY"} :
               roles' = [roles EXCEPT ![u] = @ \cup {r}]
  BY <1>1 DEF Granted
<1>5. TypeOK'
  BY <1>1, <1>2, <1>3, <1>4 DEF TypeOK, Role
<1>6. QuietRoles
  BY <1>1, <1>2, <1>4 DEF QuietRoles, TypeOK, LoginsInv, NotYetLoggedIn, InSessions
<1>7. QuietQueues
  BY <1>2, <1>3 DEF QuietQueues
<1>. QED  BY <1>1, <1>5, <1>6, <1>7, QuietPreserves DEF SessionInv, ActiveInv

\* The session has the role but, until SetAID, no account.
LEMMA ListenerAuthorizedPreserves ==
    ASSUME SessionInv, ListenerAuthorized
    PROVE  SessionInv'
<1>. DEFINE u == Head(d2s).uid
<1>. /\ TypeOK /\ LoginsInv /\ AidInv /\ HoldersInv /\ ActiveInv
     /\ s2d \in Seq(S2DPacket) /\ d2s \in Seq(D2SPacket) /\ Served(s2d) /\ Served(d2s)
  BY DEF SessionInv, TypeOK, LoginsInv, Served
<1>1. /\ d2s # <<>> /\ Head(d2s).type = "D2S_AUTHORIZED" /\ dbpc = "idle" /\ dbpc' = "setaid"
      /\ InSessions(u) /\ roles' = [roles EXCEPT ![u] = @ \cup {"AUTHORIZED"}]
      /\ UNCHANGED <<conn, pc, aid, world, link, s2d, d2s, active, raced, robbed>>
  BY DEF ListenerAuthorized, Granted
<1>2. /\ 1 \in Grants /\ d2s[1].uid = u /\ u \in Users /\ Head(d2s) = d2s[1]
  <2>1. 1 \in DOMAIN d2s /\ Head(d2s) = d2s[1] /\ Head(d2s) \in D2SPacket
    BY <1>1, TailPackets
  <2>. QED  BY <1>1, <2>1 DEF Grants, D2SPacket
<1>. HIDE DEF u
<1>3. "AUTHORIZED" \notin roles[u] /\ ~NotYetLoggedIn(u)
  BY <1>1, <1>2 DEF LoginsInv, Grants
<1>4. TypeOK'
  BY <1>1, <1>2 DEF TypeOK, Role
<1>5. Logins' = Logins /\ Releases' = Releases /\ Grants' = Grants
  BY <1>1 DEF Logins, Releases, Grants
<1>6. AidInv'
  BY <1>1, <1>2, <1>3 DEF AidInv, SettingAid, InSessions, TypeOK, u
<1>7. KeptUses
  BY <1>1, <1>2, <1>3 DEF KeptUses, Using, SettingAid, Authorized, TypeOK
<1>8. HoldersInv' /\ ActiveInv'
  <2>1. KeptReleases(0) /\ KeptGrants(0)
    BY <1>1, <1>5, PacketTypes DEF KeptReleases, KeptGrants
  <2>. QED  BY <1>1, <1>4, <1>7, <2>1, HoldersKept, ActiveKept DEF ActiveInv
<1>9. LoginsInv'
  <2>1. UsersInv' /\ NoNewUser
    BY <1>1, <1>2, <1>3, LoginsUsers DEF UsersInv, NoNewUser, NotYetLoggedIn, InSessions, TypeOK
  <2>2. /\ (\A v \in Users : NotYetLoggedIn(v) => roles[v] \subseteq {"CAN_REQUEST_PRIMARY"})'
        /\ (\A i \in DOMAIN s2d : ~NotYetLoggedIn(s2d[i].uid))'
        /\ (\A i \in DOMAIN d2s : ~NotYetLoggedIn(d2s[i].uid))'
    BY <1>1, <1>4, <2>1, ServedNext
  <2>3. \A v \in Users : "AUTHORIZED" \in roles'[v] <=> "AUTHORIZED" \in roles[v] \/ v = u
    BY <1>1, <1>2 DEF TypeOK
  <2>4. \A i \in Logins : /\ "AUTHORIZED" \notin roles'[s2d[i].uid]
                          /\ \A j \in Grants : d2s[j].uid # s2d[i].uid
    BY <1>2, <2>3, PacketTypes DEF LoginsInv
  <2>5. \A i \in Grants : "AUTHORIZED" \in roles'[d2s[i].uid] => i = 1
    BY <1>2, <2>3, PacketTypes DEF LoginsInv
  <2>6. /\ \A i, j \in Logins' : s2d'[i].uid = s2d'[j].uid => i = j
        /\ \A i, j \in Grants' : d2s'[i].uid = d2s'[j].uid => i = j
    BY <1>1, <1>5 DEF LoginsInv
  <2>7. \A i \in Logins' : /\ "AUTHORIZED" \notin roles'[s2d'[i].uid]
                           /\ \A j \in Grants' : d2s'[j].uid # s2d'[i].uid
    BY <1>1, <1>5, <2>4
  <2>8. \A i \in Grants' : "AUTHORIZED" \in roles'[d2s'[i].uid] => dbpc' = "setaid" /\ i = 1
    BY <1>1, <1>5, <2>5
  <2>. QED  BY <2>1, <2>2, <2>6, <2>7, <2>8 DEF LoginsInv, UsersInv
<1>. QED  BY <1>4, <1>6, <1>8, <1>9 DEF SessionInv

\* The account passes from the D2S_AUTHORIZED to the session.
LEMMA ListenerSetAIDPreserves ==
    ASSUME SessionInv, ListenerSetAID
    PROVE  SessionInv'
<1>. DEFINE u == Head(d2s).uid
            a == Head(d2s).aid
<1>. /\ TypeOK /\ LoginsInv /\ AidInv /\ HoldersInv /\ ActiveInv
     /\ s2d \in Seq(S2DPacket) /\ d2s \in Seq(D2SPacket) /\ Served(s2d)
  BY DEF SessionInv, TypeOK, LoginsInv, Served
<1>1. /\ dbpc = "setaid" /\ d2s # <<>> /\ Head(d2s).type = "D2S_AUTHORIZED"
      /\ InSessions(u) /\ "AUTHORIZED" \in roles[u]
      /\ d2s' = Tail(d2s) /\ dbpc' = "idle" /\ aid' = [aid EXCEPT ![u] = a]
      /\ UNCHANGED <<conn, pc, roles, world, link, s2d, active, raced, robbed>>
  BY DEF ListenerSetAID, AidInv
<1>2. /\ u \in Users /\ a \in Aid /\ Head(d2s) = d2s[1]
      /\ d2s' \in Seq(D2SPacket) /\ KeepsD2S(d2s', 1) /\ Served(d2s') /\ 1 \in Grants
  BY <1>1, TakenPacket DEF KeepsD2S, Grants
<1>3. d2s[1].uid = u /\ d2s[1].aid = a /\ a \in Accounts /\ a # NoAid
  BY <1>2 DEF HoldersInv, Aid
<1>4. \A v \in Users : SettingAid(v) <=> v = u
  BY <1>1 DEF SettingAid
<1>. HIDE DEF u, a
<1>5. TypeOK'
  BY <1>1, <1>2 DEF TypeOK
<1>6. /\ Logins' = Logins /\ Releases' = Releases
      /\ \A i \in Grants' : i + 1 \in Grants /\ d2s'[i] = d2s[i + 1] /\ i + 1 # 1
  <2>1. KeptGrants(1) /\ \A i \in Grants' : i \in Nat \ {0}
    BY <1>1, <1>2, <1>5, KeepsKept, PacketTypesNext
  <2>2. \A i \in Grants' : i + 1 \in Grants /\ d2s'[i] = d2s[i + 1] /\ i + 1 # 1
    BY <2>1 DEF KeptGrants
  <2>3. Logins' = Logins /\ Releases' = Releases
    BY <1>1 DEF Logins, Releases
  <2>. QED  BY <2>2, <2>3
<1>7. AidInv'
  BY <1>1, <1>2, <1>4 DEF AidInv, SettingAid, TypeOK
<1>8. \A v \in Users, b \in Accounts : Using(v, b)' => Using(v, b) \/ (v = u /\ b = a)
  BY <1>1, <1>2, <1>4 DEF Using, Authorized, TypeOK
<1>0. \A i \in Gifts' : i + 1 \in Gifts /\ d2s'[i] = d2s[i + 1] /\ i + 1 # 1 /\ i \in Grants'
  BY <1>1, <1>6 DEF Gifts
<1>9. /\ a \notin robbed => \A v \in Users : ~Using(v, a)
      /\ \A i \in Gifts' : d2s'[i].aid # a
      /\ \A i \in Releases : s2d[i].aid # a
  <2>1. a \notin robbed => 1 \in Gifts
    BY <1>2, <1>3 DEF Gifts
  <2>2. \A i \in Gifts' : d2s'[i].aid \notin robbed
    BY <1>1 DEF Gifts
  <2>3. \A i \in Releases : s2d[i].aid \notin robbed
    BY DEF Releases
  <2>4. (a \notin robbed => \A v \in Users : ~Using(v, a)) /\ \A i \in Releases : s2d[i].aid # a
    BY <1>3, <2>1, <2>3 DEF HoldersInv
  <2>5. \A i \in Gifts' : d2s'[i].aid # a
    BY <1>0, <1>3, <2>1, <2>2 DEF HoldersInv
  <2>. QED  BY <2>4, <2>5
<1>10. LoginsInv'
  <2>1. UsersInv' /\ NoNewUser
    BY <1>1, <1>2, LoginsUsers DEF UsersInv, NoNewUser, NotYetLoggedIn, InSessions, TypeOK
  <2>2. /\ (\A v \in Users : NotYetLoggedIn(v) => roles[v] \subseteq {"CAN_REQUEST_PRIMARY"})'
        /\ (\A i \in DOMAIN s2d : ~NotYetLoggedIn(s2d[i].uid))'
        /\ (\A i \in DOMAIN d2s : ~NotYetLoggedIn(d2s[i].uid))'
    BY <1>1, <1>2, <1>5, <2>1, ServedNext
  <2>3. \A i, j \in Grants' : d2s'[i].uid = d2s'[j].uid => i = j
    BY <1>5, <1>6, PacketTypesNext DEF LoginsInv
  <2>4. \A i \in Grants' : "AUTHORIZED" \notin roles[d2s'[i].uid]
    BY <1>6 DEF LoginsInv
  <2>5. \A i \in Logins : /\ "AUTHORIZED" \notin roles[s2d[i].uid]
                          /\ \A j \in Grants' : d2s'[j].uid # s2d[i].uid
    BY <1>6 DEF LoginsInv
  <2>6. \A i \in Grants' : "AUTHORIZED" \notin roles'[d2s'[i].uid]
    BY <1>1, <2>4
  <2>7. \A i \in Logins' : /\ "AUTHORIZED" \notin roles'[s2d'[i].uid]
                           /\ \A j \in Grants' : d2s'[j].uid # s2d'[i].uid
    BY <1>1, <1>6, <2>5
  <2>8. \A i, j \in Logins' : s2d'[i].uid = s2d'[j].uid => i = j
    BY <1>1, <1>6 DEF LoginsInv
  <2>. QED  BY <2>1, <2>2, <2>3, <2>6, <2>7, <2>8 DEF LoginsInv, UsersInv
<1>11. HoldersInv'
  <2>1. OneSessionPerAccount'
    BY <1>1, <1>8, <1>9 DEF HoldersInv, OneSessionPerAccount
  <2>2. \A i \in Grants' : d2s'[i].aid # NoAid /\ d2s'[i].aid \in Accounts
    BY <1>5, <1>6, PacketTypesNext DEF HoldersInv, Aid
  <2>3. \A i, j \in Gifts' : d2s'[i].aid = d2s'[j].aid => i = j
    BY <1>0, <1>5, PacketTypesNext DEF HoldersInv
  <2>4. (\A i \in Gifts, v \in Users : ~Using(v, d2s[i].aid))'
    <3>1. \A i \in Gifts', v \in Users, b \in Accounts : b = d2s'[i].aid => ~Using(v, b)'
      BY <1>0, <1>8, <1>9 DEF HoldersInv
    <3>. QED  BY <1>0, <2>2, <3>1
  <2>5. (\A i \in Releases, v \in Users : ~Using(v, s2d[i].aid))'
    <3>1. \A i \in Releases, v \in Users, b \in Accounts : b = s2d[i].aid => ~Using(v, b)'
      BY <1>8, <1>9 DEF HoldersInv
    <3>. QED  BY <1>1, <1>6, <3>1, PacketTypes
  <2>6. \A i \in Releases, j \in Gifts' : s2d[i].aid # d2s'[j].aid
    BY <1>0 DEF HoldersInv
  <2>7. \A i, j \in Releases : s2d[i].aid = s2d[j].aid => i = j
    BY DEF HoldersInv
  <2>. QED  BY <1>1, <1>6, <2>1, <2>2, <2>3, <2>4, <2>5, <2>6, <2>7 DEF HoldersInv
<1>12. ActiveInv'
  <2>1. link # "closed" /\ a \notin robbed => a \in active
    BY <1>2, <1>3 DEF ActiveInv, Gifts
  <2>. QED  BY <1>0, <1>1, <1>6, <1>8, <2>1 DEF ActiveInv
<1>. QED  BY <1>5, <1>7, <1>10, <1>11, <1>12 DEF SessionInv

-----------------------------------------------------------------------------
(* Failures.                                                                *)

LEMMA BrokenLink ==
    ASSUME SessionInv, BreakLink
    PROVE  /\ s2d' \in Seq(S2DPacket) /\ KeepsS2D(s2d', 0)
           /\ link' \in LinkState /\ (link' = "closed" <=> link = "closed")
           /\ link' = "closed" => s2d' = <<>>
<1>. PICK n \in 0..Len(s2d) : s2d' = SubSeq(s2d, 1, n)
  BY DEF BreakLink
<1>1. s2d \in Seq(S2DPacket) /\ Served(s2d) /\ link \in LinkState
  BY DEF SessionInv, TypeOK, LoginsInv, Served
<1>2. s2d' \in Seq(S2DPacket) /\ \A i \in DOMAIN s2d' : i \in DOMAIN s2d /\ s2d'[i] = s2d[i] /\ i \in Nat
  BY <1>1, PrefixPackets
<1>3. KeepsS2D(s2d', 0)
  BY <1>1, <1>2 DEF KeepsS2D, Keeps, Served
<1>4. link' \in LinkState /\ (link' = "closed" <=> link = "closed")
  BY <1>1 DEF BreakLink, LinkState
<1>5. link = "closed" => s2d' = <<>>
  <2>1. link = "closed" => s2d = <<>>
    BY DEF SessionInv, ActiveInv
  <2>2. s2d = <<>> => DOMAIN s2d' = {}
    BY <1>2
  <2>. QED  BY <1>2, <2>1, <2>2
<1>. QED  BY <1>2, <1>3, <1>4, <1>5

LEMMA LinkLostPreserves ==
    ASSUME SessionInv, LinkLost
    PROVE  SessionInv'
<1>. d2s \in Seq(D2SPacket) /\ Served(d2s) /\ TypeOK
  BY DEF SessionInv, TypeOK, LoginsInv, Served
<1>1. /\ s2d' \in Seq(S2DPacket) /\ KeepsS2D(s2d', 0)
      /\ link' \in LinkState /\ (link' = "closed" <=> link = "closed")
      /\ link' = "closed" => s2d' = <<>>
  BY BrokenLink DEF LinkLost
<1>2. PICK n \in (IF dbpc = "idle" THEN 0 ELSE 1)..Len(d2s) : d2s' = SubSeq(d2s, 1, n)
  BY DEF LinkLost
<1>3. n \in 0..Len(d2s) /\ (dbpc = "setaid" => n >= 1)
  BY <1>2
<1>4. /\ d2s' \in Seq(D2SPacket) /\ DOMAIN d2s' = 1..n
      /\ \A i \in DOMAIN d2s' : i \in DOMAIN d2s /\ d2s'[i] = d2s[i] /\ i \in Nat
  BY <1>2, <1>3, PrefixPackets
<1>5. KeepsD2S(d2s', 0)
  BY <1>4 DEF KeepsD2S, Keeps, Served
<1>6. KeepsBusy(d2s', 0)
  <2>1. SUFFICES ASSUME dbpc = "setaid"
                 PROVE  d2s' # <<>> /\ Head(d2s') = Head(d2s)
    BY DEF KeepsBusy
  <2>2. 1 \in DOMAIN d2s' /\ d2s'[1] = d2s[1] /\ 1 \in DOMAIN d2s
    BY <1>3, <1>4, <2>1
  <2>. QED  BY <1>4, <2>2, TailPackets
<1>7. UNCHANGED <<conn, pc, roles, aid, world, dbpc, active, raced, robbed>>
  BY DEF LinkLost
<1>8. TypeOK'
  BY <1>1, <1>4, <1>7 DEF TypeOK
<1>9. QuietQueues /\ QuietRoles
  BY <1>1, <1>5, <1>6, <1>7 DEF QuietQueues, QuietRoles, SessionInv, LoginsInv, NotYetLoggedIn
<1>10. /\ LoginsInv' /\ AidInv' /\ HoldersInv' /\ KeptUses
       /\ \E k \in {0, 1} : KeptReleases(k)
       /\ \E l \in {0, 1} : KeptGrants(l)
  BY <1>7, <1>8, <1>9, QuietStep
<1>11. ActiveInv'
  BY <1>1, <1>7, <1>8, <1>10, ActiveKept
<1>. QED  BY <1>8, <1>10, <1>11 DEF SessionInv

LEMMA DbLinkClosedPreserves ==
    ASSUME SessionInv, DbLinkClosed
    PROVE  SessionInv'
<1>1. /\ s2d' = s2d /\ d2s' = d2s /\ s2d = <<>> /\ link' = "closed" /\ active' = {}
      /\ UNCHANGED <<conn, pc, roles, aid, world, dbpc, raced, robbed>>
  BY DEF DbLinkClosed
<1>2. TypeOK'
  BY <1>1 DEF SessionInv, TypeOK, LinkState
<1>3. KeepsD2S(d2s', 0) /\ KeepsBusy(d2s', 0) /\ KeepsS2D(s2d', 0)
  BY <1>1, UnchangedS2D DEF SessionInv, TypeOK, LoginsInv, AidInv, KeepsD2S, Keeps, KeepsBusy, Served
<1>4. QuietQueues /\ QuietRoles
  BY <1>1, <1>3 DEF QuietQueues, QuietRoles, SessionInv, LoginsInv, NotYetLoggedIn
<1>5. LoginsInv' /\ AidInv' /\ HoldersInv'
  BY <1>1, <1>2, <1>4, QuietStep
<1>6. ActiveInv'
  BY <1>1 DEF ActiveInv
<1>. QED  BY <1>2, <1>5, <1>6 DEF SessionInv

\* No session is left, and what releases an account may still be on its way.
LEMMA GameServerCrashPreserves ==
    ASSUME SessionInv, GameServerCrash
    PROVE  SessionInv'
<1>. TypeOK /\ LoginsInv /\ HoldersInv
  BY DEF SessionInv
<1>1. /\ s2d' \in Seq(S2DPacket) /\ KeepsS2D(s2d', 0)
      /\ link' \in LinkState /\ (link' = "closed" <=> link = "closed")
      /\ link' = "closed" => s2d' = <<>>
  BY BrokenLink DEF GameServerCrash
<1>2. /\ conn' = [u \in Users |-> "gone"] /\ pc' = [u \in Users |-> "ready"]
      /\ roles' = [u \in Users |-> {}] /\ aid' = [u \in Users |-> NoAid]
      /\ d2s' = <<>> /\ dbpc' = "idle" /\ world' = {} /\ raced' = {} /\ active' = active
      /\ robbed' = robbed
  BY DEF GameServerCrash
<1>3. TypeOK'
  BY <1>1, <1>2 DEF TypeOK, ConnState, HandlerState, Aid
<1>4. /\ KeptLogins(0) /\ KeptReleases(0) /\ Served(s2d')
      /\ Grants' = {} /\ KeptGrants(0) /\ Served(d2s')
  BY <1>1, <1>2, KeepsKept DEF KeepsS2D, Grants, KeptGrants, Served
<1>5. KeptUses
  BY <1>2 DEF KeptUses, Using
<1>6. HoldersInv' /\ ActiveInv'
  BY <1>1, <1>2, <1>3, <1>4, <1>5, HoldersKept, ActiveKept
<1>7. AidInv'
  BY <1>2 DEF AidInv
<1>8. LoginsInv'
  <2>1. UsersInv' /\ NoNewUser
    BY <1>2 DEF UsersInv, NoNewUser
  <2>2. /\ (\A u \in Users : NotYetLoggedIn(u) => roles[u] \subseteq {"CAN_REQUEST_PRIMARY"})'
        /\ (\A i \in DOMAIN s2d : ~NotYetLoggedIn(s2d[i].uid))'
        /\ (\A i \in DOMAIN d2s : ~NotYetLoggedIn(d2s[i].uid))'
    BY <1>3, <1>4, <2>1, ServedNext
  <2>3. \A i, j \in Logins' : s2d'[i].uid = s2d'[j].uid => i = j
    BY <1>3, <1>4, PacketTypesNext DEF LoginsInv, KeptLogins
  <2>4. \A i \in Logins' : "AUTHORIZED" \notin roles'[s2d'[i].uid]
    BY <1>2, <1>3, PacketTypesNext
  <2>. QED  BY <1>4, <2>1, <2>2, <2>3, <2>4 DEF LoginsInv, UsersInv
<1>. QED  BY <1>3, <1>6, <1>7, <1>8 DEF SessionInv

\* The database server has forgotten every account, and both queues are empty.
LEMMA GameServerStartPreserves ==
    ASSUME SessionInv, GameServerStart
    PROVE  SessionInv'
<1>. TypeOK /\ LoginsInv /\ AidInv /\ ActiveInv
  BY DEF SessionInv
<1>1. /\ link = "closed" /\ \A u \in Users : conn[u] = "gone"
      /\ conn' = [u \in Users |-> "idle"] /\ link' = "up"
      /\ d2s' = <<>> /\ world' = {} /\ raced' = {} /\ robbed' = {}
      /\ UNCHANGED <<pc, roles, aid, s2d, dbpc, active>>
  BY DEF GameServerStart
<1>2. /\ s2d = <<>> /\ \A u \in Users : roles[u] = {} /\ aid[u] = NoAid
      /\ dbpc = "idle"
  <2>1. s2d = <<>> /\ \A u \in Users : roles[u] = {} /\ aid[u] = NoAid
    BY <1>1 DEF ActiveInv, LoginsInv
  <2>2. ASSUME dbpc = "setaid"
        PROVE  FALSE
    <3>1. Head(d2s) \in D2SPacket
      BY <2>2, TailPackets DEF AidInv, TypeOK
    <3>. QED  BY <1>1, <2>2, <3>1 DEF AidInv, InSessions, D2SPacket
  <2>. QED  BY <2>1, <2>2 DEF TypeOK
<1>3. TypeOK'
  BY <1>1, <1>2 DEF TypeOK, ConnState, LinkState
<1>4. Logins' = {} /\ Releases' = {} /\ Grants' = {} /\ Gifts' = {}
  BY <1>1, <1>2 DEF Logins, Releases, Grants, Gifts
<1>5. \A u \in Users, a \in Accounts : ~Using(u, a)'
  BY <1>1 DEF Using
<1>6. HoldersInv'
  BY <1>4, <1>5 DEF HoldersInv, OneSessionPerAccount
<1>7. ActiveInv'
  BY <1>1, <1>4, <1>5 DEF ActiveInv
<1>8. AidInv'
  BY <1>1, <1>2 DEF AidInv
<1>9. LoginsInv'
  BY <1>1, <1>2, <1>4 DEF LoginsInv
<1>. QED  BY <1>3, <1>6, <1>7, <1>8, <1>9 DEF SessionInv

-----------------------------------------------------------------------------
(* The theorems.                                                            *)

LEMMA InitSession == Init => SessionInv
<1>. SUFFICES ASSUME Init PROVE SessionInv
  OBVIOUS
<1>1. TypeOK
  BY DEF Init, TypeOK, ConnState, HandlerState, LinkState, Aid
<1>2. Logins = {} /\ Releases = {} /\ Grants = {} /\ Gifts = {}
  BY DEF Init, Logins, Releases, Grants, Gifts
<1>3. \A u \in Users, a \in Accounts : ~Using(u, a)
  BY DEF Init, Using
<1>. QED  BY <1>1, <1>2, <1>3 DEF Init, SessionInv, LoginsInv, AidInv, HoldersInv, ActiveInv,
                                   OneSessionPerAccount

LEMMA StutterSession ==
    ASSUME SessionInv, UNCHANGED vars
    PROVE  SessionInv'
  BY DEF vars, SessionInv, TypeOK, LoginsInv, AidInv, HoldersInv, ActiveInv, Logins, Releases,
         Grants, Gifts, NotYetLoggedIn, Using, SettingAid, InSessions, Authorized, OneSessionPerAccount

\* Every action of the two servers and every failure preserves SessionInv.
LEMMA NextSession ==
    ASSUME SessionInv, Next
    PROVE  SessionInv'
<1>1. ASSUME NEW u \in Users, Connect(u)
      PROVE  SessionInv'
  BY <1>1, ConnectPreserves
<1>2. ASSUME NEW u \in Users, Handler(u)
      PROVE  SessionInv'
  <2>1. ASSUME NEW a \in Aid, OnLogin(u, a)
        PROVE  SessionInv'
    BY <2>1, OnLoginPreserves
  <2>2. CASE OnSecondaryLogin(u)
    BY <2>2, OnSecondaryLoginPreserves
  <2>3. CASE OnPlayersRequest(u)
    BY <2>3, OnPlayersRequestPreserves
  <2>4. CASE OnLoadPlayerAssign(u)
    BY <2>4, OnLoadPlayerPreserves
  <2>5. CASE OnStartAdd(u)
    BY <2>5, OnStartPreserves
  <2>6. CASE OnRestart(u)
    BY <2>6, OnRestartPreserves
  <2>7. CASE OnDisconnected(u)
    BY <2>7, OnDisconnectedPreserves
  <2>. QED  BY <1>2, <2>1, <2>2, <2>3, <2>4, <2>5, <2>6, <2>7 DEF Handler
<1>3. ASSUME NEW u \in Users, HandlerEnd(u)
      PROVE  SessionInv'
  BY <1>3, OnLoadPlayerPreserves, OnStartPreserves, EraseSessionPreserves DEF HandlerEnd
<1>4. CASE DbServer
  BY <1>4, DbQuietPreserves, DbLoginAuthorizedPreserves, FlagDisconnectedPreserves,
     DbLinkClosedPreserves DEF DbServer
<1>5. CASE Listener
  BY <1>5, ListenerQuietPreserves, ListenerAuthorizedPreserves, ListenerSetAIDPreserves
     DEF Listener
<1>6. CASE Failure
  BY <1>6, LinkLostPreserves, GameServerCrashPreserves, GameServerStartPreserves DEF Failure
<1>. QED  BY <1>1, <1>2, <1>3, <1>4, <1>5, <1>6 DEF Next

\* The inductive invariant of log-in and log-out holds for any number of users,
\* accounts and packets on the link, and any AID in a session's fresh memory.
THEOREM SessionInvariant == Spec => []SessionInv
<1>1. Init => SessionInv
  BY InitSession
<1>2. SessionInv /\ [Next]_vars => SessionInv'
  BY NextSession, StutterSession
<1>. QED  BY <1>1, <1>2, PTL DEF Spec

\* Every variable keeps its type: no handler writes a role, an account or a
\* packet that the program does not know.
THEOREM SessionTypes == Spec => []TypeOK
<1>1. SessionInv => TypeOK
  BY DEF SessionInv
<1>. QED  BY <1>1, SessionInvariant, PTL

\* Login's LA_SAMEUSER answer and FlagDisconnected keep every account to one
\* working session, in any order of log-ins, disconnections and failures, until
\* an S2D_DISCONNECT whose AID was never set names the account by chance.
THEOREM OneSession == Spec => []OneSessionPerAccount
<1>1. SessionInv => OneSessionPerAccount
  BY DEF SessionInv, HoldersInv
<1>. QED  BY <1>1, SessionInvariant, PTL

\* While the link is up, DatabaseManager::m_active_users holds every account
\* that some session works under, with the same exception.
THEOREM UsedAccounts == Spec => []UsedAccountsActive
<1>1. SessionInv => UsedAccountsActive
  BY DEF SessionInv, ActiveInv, UsedAccountsActive
<1>. QED  BY <1>1, SessionInvariant, PTL

\* OnAuthorized sets the account of a connection once and no handler changes it.
THEOREM AccountNeverChanges == Spec => AccountFixed
<1>. DEFINE Fixed == \A u \in Users, a \in Accounts :
                        Using(u, a) /\ conn'[u] = "open" => aid'[u] = a
<1>1. ASSUME SessionInv, [Next]_vars
      PROVE  Fixed
  <2>. SUFFICES ASSUME NEW u \in Users, NEW a \in Accounts, Using(u, a), conn'[u] = "open"
                PROVE  aid'[u] = a
    OBVIOUS
  <2>. TypeOK /\ conn[u] = "open" /\ aid[u] = a /\ ~SettingAid(u)
    BY <1>1 DEF SessionInv, Using
  <2>1. CASE aid' = aid
    BY <2>1
  <2>2. ASSUME NEW v \in Users, Connect(v) \/ EraseSession(v)
        PROVE  aid'[u] = a
    BY <2>2 DEF Connect, EraseSession, TypeOK
  <2>3. CASE ListenerSetAID
    BY <2>3 DEF ListenerSetAID, SettingAid, TypeOK
  <2>4. CASE GameServerCrash
    BY <2>4 DEF GameServerCrash
  <2>5. CASE UNCHANGED vars
    BY <2>5 DEF vars
  <2>. QED  BY <1>1, <2>1, <2>2, <2>3, <2>4, <2>5
            DEF Next, Handler, HandlerEnd, DbServer, Listener, Failure,
                OnLogin, OnSecondaryLogin, OnPlayersRequest, OnLoadPlayerAssign,
                OnLoadPlayerSend, OnStartAdd, OnStartDeny, OnRestart, OnDisconnected,
                DbLoginRefused, DbLoginAuthorized, DbSecondaryLogin, DbPlayers, DbRestart,
                DbLoadPlayer, FlagDisconnected, DbLinkClosed, Reply,
                ListenerAssign, ListenerAuthorized, ListenerAuthorizedDropped, ListenerLoad,
                LinkLost, GameServerStart
<1>. QED  BY <1>1, SessionInvariant, PTL DEF AccountFixed, Spec

-----------------------------------------------------------------------------
(* The world and the roles.                                                 *)

\* A role is lost only to an overlap, and the player is in raced then.
LEMMA RoleWritten ==
    ASSUME TypeOK, NEW u \in Users, NEW new \in SUBSET Role, RoleWrite(u, new)
    PROVE  /\ raced \subseteq raced'
           /\ \A v \in Users : v # u => roles'[v] = roles[v]
           /\ u \notin raced' => roles'[u] = new
  BY DEF RoleWrite, TypeOK

\* An action after which v is in the world as before, and has INGAME as before.
LEMMA SameMatch ==
    ASSUME WorldMatchesRoles, NEW v \in Users, v \notin raced,
           v \in world' <=> v \in world,
           conn'[v] = "open" <=> conn[v] = "open",
           "INGAME" \in roles'[v] <=> "INGAME" \in roles[v]
    PROVE  v \in world' <=> conn'[v] = "open" /\ Authorized(v, {"INGAME"})'
  BY DEF WorldMatchesRoles, Authorized

\* Actions that write the roles of one user and leave INGAME alone.
LEMMA WriteMatch ==
    ASSUME TypeOK, WorldMatchesRoles, NEW u \in Users, NEW new \in SUBSET Role,
           RoleWrite(u, new), "INGAME" \in new <=> "INGAME" \in roles[u],
           UNCHANGED <<world, conn>>, NEW v \in Users, v \notin raced'
    PROVE  v \in world' <=> conn'[v] = "open" /\ Authorized(v, {"INGAME"})'
<1>1. v \notin raced /\ ("INGAME" \in roles'[v] <=> "INGAME" \in roles[v])
  BY RoleWritten
<1>. QED  BY <1>1, SameMatch

LEMMA HandlerMatch ==
    ASSUME TypeOK, WorldMatchesRoles, NEW u \in Users, Handler(u) \/ HandlerEnd(u),
           NEW v \in Users, v \notin raced'
    PROVE  v \in world' <=> conn'[v] = "open" /\ Authorized(v, {"INGAME"})'
<1>0. roles[u] \in SUBSET Role
  BY DEF TypeOK
<1>1. ASSUME NEW a \in Aid, OnLogin(u, a)
      PROVE  v \in world' <=> conn'[v] = "open" /\ Authorized(v, {"INGAME"})'
  BY <1>0, <1>1, WriteMatch DEF OnLogin
<1>2. CASE OnSecondaryLogin(u)
  BY <1>0, <1>2, WriteMatch DEF OnSecondaryLogin
<1>3. CASE OnPlayersRequest(u)
  BY <1>3, SameMatch DEF OnPlayersRequest
<1>4. CASE OnLoadPlayerAssign(u)
  <2>1. roles[u] \cup {"LOADING"} \in SUBSET Role
    BY <1>0 DEF Role
  <2>. QED  BY <1>4, <2>1, WriteMatch DEF OnLoadPlayerAssign
<1>5. CASE OnLoadPlayerSend(u)
  BY <1>0, <1>5, WriteMatch DEF OnLoadPlayerSend
<1>6. CASE OnStartAdd(u)
  <2>0. conn[u] = "open" /\ conn' = conn
    BY <1>6 DEF OnStartAdd, CanHandle
  <2>1. CASE u \in world
    BY <1>6, <2>1, SameMatch DEF OnStartAdd
  <2>2. CASE u \notin world
    <3>1. RoleWrite(u, roles[u] \cup {"INGAME"}) /\ world' = world \cup {u}
      BY <1>6, <2>2 DEF OnStartAdd
    <3>2. roles[u] \cup {"INGAME"} \in SUBSET Role
      BY <1>0 DEF Role
    <3>3. /\ v \notin raced /\ (v # u => roles'[v] = roles[v])
          /\ v = u => roles'[v] = roles[u] \cup {"INGAME"}
      BY <3>1, <3>2, RoleWritten
    <3>4. CASE v = u
      BY <2>0, <3>1, <3>3, <3>4 DEF Authorized
    <3>5. CASE v # u
      BY <2>0, <3>1, <3>3, <3>5, SameMatch
    <3>. QED  BY <3>4, <3>5
  <2>. QED  BY <2>1, <2>2
<1>7. CASE OnStartDeny(u)
  BY <1>0, <1>7, WriteMatch DEF OnStartDeny
<1>8. CASE OnRestart(u)
  <2>0. conn' = conn
    BY <1>8 DEF OnRestart
  <2>1. CASE u \notin world
    BY <1>8, <2>1, SameMatch DEF OnRestart
  <2>2. CASE u \in world
    <3>1. RoleWrite(u, roles[u] \ {"INGAME"}) /\ world' = world \ {u}
      BY <1>8, <2>2 DEF OnRestart
    <3>2. /\ v \notin raced /\ (v # u => roles'[v] = roles[v])
          /\ v = u => roles'[v] = roles[u] \ {"INGAME"}
      BY <1>0, <3>1, RoleWritten
    <3>3. CASE v = u
      BY <3>1, <3>2, <3>3 DEF Authorized
    <3>4. CASE v # u
      BY <2>0, <3>1, <3>2, <3>4, SameMatch
    <3>. QED  BY <3>3, <3>4
  <2>. QED  BY <2>1, <2>2
<1>9. CASE OnDisconnected(u)
  <2>0. roles' = roles /\ raced' = raced /\ conn[u] = "open"
    BY <1>9 DEF OnDisconnected, CanHandle
  <2>1. CASE conn' = conn /\ world' = world
    BY <2>0, <2>1, SameMatch
  <2>2. CASE /\ conn' = [conn EXCEPT ![u] = "closing"]
             /\ world' = IF Authorized(u, {"INGAME"}) THEN world \ {u} ELSE world
    <3>1. CASE v = u
      BY <2>0, <2>2, <3>1 DEF WorldMatchesRoles, TypeOK
    <3>2. CASE v # u
      BY <2>0, <2>2, <3>2, SameMatch DEF TypeOK
    <3>. QED  BY <3>1, <3>2
  <2>. QED  BY <1>9, <2>1, <2>2 DEF OnDisconnected
<1>10. CASE EraseSession(u)
  <2>1. CASE v = u
    BY <1>10, <2>1 DEF EraseSession, WorldMatchesRoles, TypeOK
  <2>2. CASE v # u
    BY <1>10, <2>2, SameMatch DEF EraseSession, TypeOK
  <2>. QED  BY <2>1, <2>2
<1>. QED  BY <1>1, <1>2, <1>3, <1>4, <1>5, <1>6, <1>7, <1>8, <1>9, <1>10
          DEF Handler, HandlerEnd

\* The database callback grants no INGAME, to whatever session it finds.
LEMMA ListenerMatch ==
    ASSUME TypeOK, WorldMatchesRoles, Listener, NEW v \in Users, v \notin raced'
    PROVE  v \in world' <=> conn'[v] = "open" /\ Authorized(v, {"INGAME"})'
<1>1. "INGAME" \notin Granted(Head(d2s).type)
  BY DEF Granted
<1>2. UNCHANGED <<world, conn, raced>>
  BY DEF Listener, ListenerAssign, ListenerAuthorized, ListenerSetAID,
         ListenerAuthorizedDropped, ListenerLoad
<1>3. "INGAME" \in roles'[v] <=> "INGAME" \in roles[v]
  <2>1. CASE ListenerAssign
    BY <1>1, <2>1 DEF ListenerAssign, TypeOK
  <2>2. CASE ListenerAuthorized
    BY <1>1, <2>2 DEF ListenerAuthorized, TypeOK
  <2>3. CASE ListenerSetAID \/ ListenerAuthorizedDropped \/ ListenerLoad
    BY <2>3 DEF ListenerSetAID, ListenerAuthorizedDropped, ListenerLoad
  <2>. QED  BY <2>1, <2>2, <2>3 DEF Listener
<1>. QED  BY <1>2, <1>3, SameMatch

\* OnStart, OnRestart and OnDisconnected keep World::m_players and the INGAME
\* role together for every player none of whose role updates is lost.
THEOREM WorldIsInGame == Spec => []WorldMatchesRoles
<1>1. Init => WorldMatchesRoles
  BY DEF Init, WorldMatchesRoles
<1>2. SessionInv /\ WorldMatchesRoles /\ [Next]_vars => WorldMatchesRoles'
  <2>. SUFFICES ASSUME TypeOK, WorldMatchesRoles, [Next]_vars,
                       NEW v \in Users, v \notin raced'
                PROVE  v \in world' <=> conn'[v] = "open" /\ Authorized(v, {"INGAME"})'
    BY DEF SessionInv, WorldMatchesRoles
  <2>1. ASSUME NEW u \in Users, Connect(u)
        PROVE  v \in world' <=> conn'[v] = "open" /\ Authorized(v, {"INGAME"})'
    <3>1. CASE v = u
      BY <2>1, <3>1 DEF Connect, WorldMatchesRoles, Authorized, TypeOK
    <3>2. CASE v # u
      BY <2>1, <3>2, SameMatch DEF Connect, TypeOK
    <3>. QED  BY <3>1, <3>2
  <2>2. ASSUME NEW u \in Users, Handler(u) \/ HandlerEnd(u)
        PROVE  v \in world' <=> conn'[v] = "open" /\ Authorized(v, {"INGAME"})'
    BY <2>2, HandlerMatch
  <2>3. CASE DbServer
    <3>1. UNCHANGED <<world, conn, roles, raced>>
      BY <2>3 DEF DbServer, DbLoginRefused, DbLoginAuthorized, DbSecondaryLogin, DbPlayers,
                  DbRestart, DbLoadPlayer, FlagDisconnected, DbLinkClosed, Reply
    <3>. QED  BY <3>1, SameMatch
  <2>4. CASE Listener
    BY <2>4, ListenerMatch
  <2>5. CASE LinkLost
    BY <2>5, SameMatch DEF LinkLost
  <2>6. CASE GameServerCrash \/ GameServerStart
    BY <2>6 DEF GameServerCrash, GameServerStart, TypeOK
  <2>7. CASE UNCHANGED vars
    BY <2>7, SameMatch DEF vars
  <2>. QED  BY <2>1, <2>2, <2>3, <2>4, <2>5, <2>6, <2>7 DEF Next, Failure
<1>. QED  BY <1>1, <1>2, SessionInvariant, PTL DEF Spec

=============================================================================
