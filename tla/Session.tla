------------------------------- MODULE Session -------------------------------
(***************************************************************************)
(* Log-in, lobby, loading, game and disconnection of the users of one game *)
(* server, and the registry of active accounts of the database server      *)
(* behind it.                                                              *)
(*                                                                         *)
(* Three kinds of threads meet here.  Every connection runs its handlers   *)
(* (User.cpp, Player.cpp) one after another: server.h re-arms the read of  *)
(* a session only when its handler has returned.  One callback at a time   *)
(* serves the database link (DBListener.cpp).  The database server handles *)
(* the packets of the link in order (DatabaseManager.cpp).  The link is a  *)
(* TCP connection: two FIFO queues of packets.                             *)
(*                                                                         *)
(* The role word m_roles is a plain int that the session's own thread and  *)
(* the database callback both read, modify and write: see RoleWrite.       *)
(***************************************************************************)
EXTENDS Naturals, Sequences, FiniteSets

CONSTANTS
    Users,        \* the UIDs one game server process hands out
    Accounts,     \* rows of the account table
    NoAid,        \* an AID that is no row of the account table
    UninitAid,    \* values m_credentials.AID may hold before SetAID
    MaxOnline,    \* server::m_max_online
    MaxInFlight   \* bound: packets on the link when a user sends a request

ASSUME NoAidAssumption       == NoAid \notin Accounts
ASSUME UninitAidAssumption   == UninitAid \subseteq Accounts \cup {NoAid}
ASSUME MaxOnlineAssumption   == MaxOnline \in Nat
ASSUME MaxInFlightAssumption == MaxInFlight \in Nat

VARIABLES
    conn,    \* [Users -> ConnState]: where the session of a UID stands
    pc,      \* [Users -> HandlerState]: where the session's handler stands
    roles,   \* [Users -> SUBSET Role]: authorizable::m_roles
    aid,     \* [Users -> Aid]: m_credentials.AID
    world,   \* the players in World::m_players
    link,    \* state of the link between the two servers
    s2d,     \* packets from the game server to the database server
    d2s,     \* packets from the database server to the game server
    dbpc,    \* where the handler of the database callback stands
    active,  \* DatabaseManager::m_active_users
    raced,   \* history: the users one of whose role updates a race lost
    robbed   \* history: the accounts that a session gave back before its own
             \* AID was set, because m_credentials.AID held them by chance

vars == <<conn, pc, roles, aid, world, link, s2d, d2s, dbpc, active, raced, robbed>>

Aid == Accounts \cup {NoAid}

Role == {"CAN_REQUEST_PRIMARY", "CAN_REQUEST_SECONDARY", "LOBBY", "LOADING",
         "INGAME", "AUTHORIZED"}

\* "idle": the UID is not handed out yet; "open" and "closing": the session is
\* in m_sessions, before and after OnDisconnected; "gone": it was erased.
ConnState == {"idle", "open", "closing", "gone"}

\* "ready": between two handlers; "loading", "starting": between the two role
\* updates of OnLoadPlayer and of OnStart; "halted": a handler threw, so the
\* connection was never armed for reading again.
HandlerState == {"ready", "loading", "starting", "halted"}

\* "up"; "down": broken, the database server still reads what had arrived;
\* "closed": the database server has run its on_disconnected callback.
LinkState == {"up", "down", "closed"}

\* S2D_PLAYERS stands for S2D_NEWPLAYER, S2D_DELPLAYER and S2D_RESTOREPLAYER,
\* D2S_LOGIN also for D2S_SEC_LOGIN: the handlers do the same to this state.
\* D2S_LOADPLAYER stands for the three packets of LoadPlayer, written together
\* and ending with D2S_SKILLINFO.
\* Packets no handler of which touches it (answers that are only forwarded,
\* D2S_DELPLAYERINFO, the saving of properties, items and skills) are left out.
S2DType == {"S2D_LOGIN", "S2D_SECONDARY_LOGIN", "S2D_PLAYERS", "S2D_RESTART",
            "S2D_LOADPLAYER", "S2D_DISCONNECT"}
D2SType == {"D2S_LOGIN", "D2S_AUTHORIZED", "D2S_PLAYER_INFO", "D2S_LOADPLAYER"}

S2DPacket == [type : S2DType, uid : Users, aid : Aid]
D2SPacket == [type : D2SType, uid : Users, aid : Aid]

Packet(t, u, a) == [type |-> t, uid |-> u, aid |-> a]

Init ==
    /\ conn = [u \in Users |-> "idle"]
    /\ pc = [u \in Users |-> "ready"]
    /\ roles = [u \in Users |-> {}]
    /\ aid = [u \in Users |-> NoAid]
    /\ world = {}
    /\ link = "up"
    /\ s2d = <<>>
    /\ d2s = <<>>
    /\ dbpc = "idle"
    /\ active = {}
    /\ raced = {}
    /\ robbed = {}

-----------------------------------------------------------------------------
(* What the handlers share.                                                 *)

InSessions(u) == conn[u] \in {"open", "closing"}

\* OnAuthorized has assigned u the role and not yet set its AID.
SettingAid(u) == dbpc = "setaid" /\ Head(d2s).uid = u

Authorized(u, required) == required \subseteq roles[u]

\* The read callback of a session starts a handler when none is running.
CanHandle(u, required) ==
    conn[u] = "open" /\ pc[u] = "ready" /\ Authorized(u, required)

\* A request that makes the servers exchange packets, within the bound.
CanRequest(u, required) ==
    CanHandle(u, required) /\ Len(s2d) + Len(d2s) < MaxInFlight

\* The role a packet of the database server makes DBListener assign.
Granted(t) ==
    IF t = "D2S_LOGIN" THEN {"CAN_REQUEST_SECONDARY"}
    ELSE IF t = "D2S_PLAYER_INFO" THEN {"LOBBY"}
    ELSE IF t = "D2S_AUTHORIZED" THEN {"AUTHORIZED"} ELSE {}

\* The session's thread updates its role word to new.  If the database
\* callback is updating the same word at that moment the two unsynchronised
\* read-modify-writes may overlap, and either update is lost.  (The AUTHORIZED
\* update never meets another one: no role is left while it is awaited.)
RoleWrite(u, new) ==
    \/ /\ roles' = [roles EXCEPT ![u] = new]
       /\ UNCHANGED <<d2s, raced>>
    \/ /\ d2s # <<>> /\ Head(d2s).uid = u
       /\ Head(d2s).type \in {"D2S_LOGIN", "D2S_PLAYER_INFO"}
       /\ \E r \in {new, roles[u] \cup Granted(Head(d2s).type)} :
            roles' = [roles EXCEPT ![u] = r]
       /\ d2s' = Tail(d2s)
       /\ raced' = raced \cup {u}

\* writable::write ignores the error of a broken connection.
SendToDb(t, u, a) ==
    s2d' = IF link = "up" THEN Append(s2d, Packet(t, u, a)) ELSE s2d

-----------------------------------------------------------------------------
(* Handlers of a session, run by the connection's thread.                   *)

\* server::start: a connection beyond m_max_online gets no session.
Connect(u) ==
    /\ conn[u] = "idle" /\ dbpc = "idle"
    /\ Cardinality({v \in Users : InSessions(v)}) < MaxOnline
    /\ conn' = [conn EXCEPT ![u] = "open"]
    /\ roles' = [roles EXCEPT ![u] = {"CAN_REQUEST_PRIMARY"}]
    /\ \E a \in UninitAid : aid' = [aid EXCEPT ![u] = a]
    /\ UNCHANGED <<pc, world, link, s2d, d2s, dbpc, active, raced, robbed>>

\* a is the account whose name and password were typed, NoAid if they are
\* wrong.
OnLogin(u, a) ==
    /\ CanRequest(u, {"CAN_REQUEST_PRIMARY"})
    /\ RoleWrite(u, roles[u] \ {"CAN_REQUEST_PRIMARY"})
    /\ SendToDb("S2D_LOGIN", u, a)
    /\ UNCHANGED <<conn, pc, aid, world, link, dbpc, active, robbed>>

OnSecondaryLogin(u) ==
    /\ CanRequest(u, {"CAN_REQUEST_SECONDARY"})
    /\ RoleWrite(u, roles[u] \ {"CAN_REQUEST_SECONDARY"})
    /\ SendToDb("S2D_SECONDARY_LOGIN", u, aid[u])
    /\ UNCHANGED <<conn, pc, aid, world, link, dbpc, active, robbed>>

\* OnNewPlayer (when the packet is well formed), OnDeletePlayer and
\* OnRestorePlayer only pass the request on.
OnPlayersRequest(u) ==
    /\ CanRequest(u, {"LOBBY"})
    /\ SendToDb("S2D_PLAYERS", u, aid[u])
    /\ UNCHANGED <<conn, pc, roles, aid, world, link, d2s, dbpc, active, raced, robbed>>

OnLoadPlayerAssign(u) ==
    /\ CanRequest(u, {"LOBBY"})
    /\ RoleWrite(u, roles[u] \cup {"LOADING"})
    /\ pc' = [pc EXCEPT ![u] = "loading"]
    /\ UNCHANGED <<conn, aid, world, link, s2d, dbpc, active, robbed>>

OnLoadPlayerSend(u) ==
    /\ pc[u] = "loading"
    /\ RoleWrite(u, roles[u] \ {"LOBBY"})
    /\ SendToDb("S2D_LOADPLAYER", u, aid[u])
    /\ pc' = [pc EXCEPT ![u] = "ready"]
    /\ UNCHANGED <<conn, aid, world, link, dbpc, active, robbed>>

\* World::Add throws if the player is in the world already.
OnStartAdd(u) ==
    /\ CanHandle(u, {"LOADING"})
    /\ \/ /\ u \notin world
          /\ world' = world \cup {u}
          /\ RoleWrite(u, roles[u] \cup {"INGAME"})
          /\ pc' = [pc EXCEPT ![u] = "starting"]
       \/ /\ u \in world
          /\ pc' = [pc EXCEPT ![u] = "halted"]
          /\ UNCHANGED <<roles, d2s, raced, world>>
    /\ UNCHANGED <<conn, aid, link, s2d, dbpc, active, robbed>>

OnStartDeny(u) ==
    /\ pc[u] = "starting"
    /\ RoleWrite(u, roles[u] \ {"LOADING"})
    /\ pc' = [pc EXCEPT ![u] = "ready"]
    /\ UNCHANGED <<conn, aid, world, link, s2d, dbpc, active, robbed>>

\* Variant: the player leaves the world and keeps INGAME.
OnRestartKeepsRole(u) ==
    /\ CanRequest(u, {"INGAME"}) /\ u \in world
    /\ world' = world \ {u}
    /\ SendToDb("S2D_RESTART", u, aid[u])
    /\ UNCHANGED <<conn, pc, roles, aid, link, d2s, dbpc, active, raced, robbed>>

\* The leaving branch of OnRestart; the other one only answers the client.
\* World::Remove throws if the player is not in the world.
OnRestart(u) ==
    /\ CanRequest(u, {"INGAME"})
    /\ \/ /\ u \in world
          /\ world' = world \ {u}
          /\ RoleWrite(u, roles[u] \ {"INGAME"})
          /\ SendToDb("S2D_RESTART", u, aid[u])
          /\ UNCHANGED pc
       \/ /\ u \notin world
          /\ pc' = [pc EXCEPT ![u] = "halted"]
          /\ UNCHANGED <<roles, d2s, raced, world, s2d>>
    /\ UNCHANGED <<conn, aid, link, dbpc, active, robbed>>

\* The read fails.  World::Remove may throw here, too.
OnDisconnected(u) ==
    /\ CanHandle(u, {})
    /\ \/ /\ Authorized(u, {"INGAME"}) => u \in world
          /\ world' = IF Authorized(u, {"INGAME"}) THEN world \ {u} ELSE world
          /\ \/ /\ Authorized(u, {"AUTHORIZED"})
                /\ SendToDb("S2D_DISCONNECT", u, aid[u])
                /\ robbed' = IF SettingAid(u) THEN robbed \cup ({aid[u]} \cap Accounts)
                                              ELSE robbed
             \/ ~Authorized(u, {"AUTHORIZED"}) /\ UNCHANGED <<s2d, robbed>>
          /\ conn' = [conn EXCEPT ![u] = "closing"]
          /\ UNCHANGED pc
       \/ /\ Authorized(u, {"INGAME"}) /\ u \notin world
          /\ pc' = [pc EXCEPT ![u] = "halted"]
          /\ UNCHANGED <<conn, world, s2d, robbed>>
    /\ UNCHANGED <<roles, aid, link, d2s, dbpc, active, raced>>

\* The end of on_new_message, which destroys the Player; m_sessions_mtx keeps
\* it out of a for_each.
EraseSession(u) ==
    /\ conn[u] = "closing" /\ dbpc = "idle"
    /\ conn' = [conn EXCEPT ![u] = "gone"]
    /\ roles' = [roles EXCEPT ![u] = {}]
    /\ aid' = [aid EXCEPT ![u] = NoAid]
    /\ UNCHANGED <<pc, world, link, s2d, d2s, dbpc, active, raced, robbed>>

-----------------------------------------------------------------------------
(* The database server: one packet of the link after another.               *)

Received(t) == s2d # <<>> /\ Head(s2d).type = t

\* The packet is done with; the packets of reply are written.
Reply(reply) ==
    /\ s2d' = Tail(s2d)
    /\ d2s' = IF link = "up" THEN d2s \o reply ELSE d2s
    /\ UNCHANGED <<conn, pc, roles, aid, world, link, dbpc, raced, robbed>>

PlayerList(u) == <<Packet("D2S_PLAYER_INFO", u, NoAid)>>
LoginAnswer(u) == <<Packet("D2S_LOGIN", u, NoAid)>>

\* Variant: a refused log-in gets no answer.
DbLoginSilent ==
    LET p == Head(s2d) IN
    /\ Received("S2D_LOGIN")
    /\ p.aid = NoAid \/ p.aid \in active
    /\ Reply(<<>>)
    /\ UNCHANGED active

DbLoginRefused ==
    LET p == Head(s2d) IN
    /\ Received("S2D_LOGIN")
    /\ p.aid = NoAid \/ p.aid \in active
    /\ Reply(LoginAnswer(p.uid))
    /\ UNCHANGED active

\* Variant: the log-in does not look for the account in m_active_users.
DbLoginUnchecked ==
    LET p == Head(s2d) IN
    /\ Received("S2D_LOGIN") /\ p.aid # NoAid
    /\ active' = active \cup {p.aid}
    /\ Reply(<<Packet("D2S_AUTHORIZED", p.uid, p.aid)>> \o PlayerList(p.uid))

\* The list of players, or the request to choose a secondary password first.
DbLoginAuthorized ==
    LET p == Head(s2d) IN
    /\ Received("S2D_LOGIN")
    /\ p.aid # NoAid /\ p.aid \notin active
    /\ active' = active \cup {p.aid}
    /\ \E answer \in {PlayerList(p.uid), LoginAnswer(p.uid)} :
            Reply(<<Packet("D2S_AUTHORIZED", p.uid, p.aid)>> \o answer)

\* SecondaryLogin, SecondaryCreate and SecondaryChange: the right password
\* brings the player list or a D2S_LOGIN, a wrong one a D2S_SEC_LOGIN, a
\* malformed one nothing.
DbSecondaryLogin ==
    LET p == Head(s2d) IN
    /\ Received("S2D_SECONDARY_LOGIN")
    /\ \/ p.aid # NoAid /\ Reply(PlayerList(p.uid))
       \/ Reply(LoginAnswer(p.uid))
       \/ Reply(<<>>)
    /\ UNCHANGED active

\* NewPlayer, DeletePlayer and RestorePlayer send the list when they succeed.
DbPlayers ==
    /\ Received("S2D_PLAYERS")
    /\ Reply(PlayerList(Head(s2d).uid)) \/ Reply(<<>>)
    /\ UNCHANGED active

\* Variant: going back to the list of players frees the account.
DbRestartFrees ==
    /\ Received("S2D_RESTART")
    /\ active' = active \ {Head(s2d).aid}
    /\ Reply(PlayerList(Head(s2d).uid))

DbRestart ==
    /\ Received("S2D_RESTART")
    /\ Reply(PlayerList(Head(s2d).uid))
    /\ UNCHANGED active

\* The player's properties, items and skills; or the answer that there is no
\* such player, which DBListener only forwards.
DbLoadPlayer ==
    LET p == Head(s2d) IN
    /\ Received("S2D_LOADPLAYER")
    /\ \/ p.aid # NoAid /\ Reply(<<Packet("D2S_LOADPLAYER", p.uid, NoAid)>>)
       \/ Reply(<<>>)
    /\ UNCHANGED active

\* Variant: the entry of m_active_users stays.
FlagDisconnectedKeeps ==
    /\ Received("S2D_DISCONNECT")
    /\ Reply(<<>>)
    /\ UNCHANGED active

FlagDisconnected ==
    /\ Received("S2D_DISCONNECT")
    /\ active' = active \ {Head(s2d).aid}
    /\ Reply(<<>>)

-----------------------------------------------------------------------------
(* DBListener: the database callback of the game server.  for_each looks up *)
(* the session with the packet's UID; without one the packet is dropped.    *)

Take(types) ==
    /\ d2s # <<>> /\ Head(d2s).type \in types /\ dbpc = "idle"
    /\ d2s' = Tail(d2s)

\* OnLogin, OnSecondaryLogin and OnPlayerInfo.
ListenerAssign ==
    LET p == Head(d2s) IN
    /\ Take({"D2S_LOGIN", "D2S_PLAYER_INFO"})
    /\ roles' = IF InSessions(p.uid)
                THEN [roles EXCEPT ![p.uid] = @ \cup Granted(p.type)]
                ELSE roles
    /\ UNCHANGED <<conn, pc, aid, world, link, s2d, dbpc, active, raced, robbed>>

\* OnAuthorized assigns the role first and sets the AID after it.
ListenerAuthorized ==
    LET p == Head(d2s) IN
    /\ d2s # <<>> /\ p.type = "D2S_AUTHORIZED" /\ dbpc = "idle"
    /\ InSessions(p.uid)
    /\ roles' = [roles EXCEPT ![p.uid] = @ \cup Granted(p.type)]
    /\ dbpc' = "setaid"
    /\ UNCHANGED <<conn, pc, aid, world, link, s2d, d2s, active, raced, robbed>>

\* Variant: every session gets the AID, whatever its UID.
ListenerSetAIDOfAll ==
    /\ dbpc = "setaid"
    /\ aid' = [u \in Users |-> IF InSessions(u) THEN Head(d2s).aid ELSE aid[u]]
    /\ d2s' = Tail(d2s)
    /\ dbpc' = "idle"
    /\ UNCHANGED <<conn, pc, roles, world, link, s2d, active, raced, robbed>>

ListenerSetAID ==
    /\ dbpc = "setaid"
    /\ aid' = [aid EXCEPT ![Head(d2s).uid] = Head(d2s).aid]
    /\ d2s' = Tail(d2s)
    /\ dbpc' = "idle"
    /\ UNCHANGED <<conn, pc, roles, world, link, s2d, active, raced, robbed>>

\* The account stays in m_active_users with no session that will release it.
ListenerAuthorizedDropped ==
    /\ Take({"D2S_AUTHORIZED"})
    /\ ~InSessions(Head(d2s).uid)
    /\ UNCHANGED <<conn, pc, roles, aid, world, link, s2d, dbpc, active, raced, robbed>>

\* OnLoadPlayer, OnLoadItems and OnLoadSkills fill the player's data.
ListenerLoad ==
    /\ Take({"D2S_LOADPLAYER"})
    /\ UNCHANGED <<conn, pc, roles, aid, world, link, s2d, dbpc, active, raced, robbed>>

-----------------------------------------------------------------------------
(* Failures of the link and of the game server process.                     *)

\* Each side has received some prefix of what the other one wrote.
BreakLink ==
    /\ \E n \in 0..Len(s2d) : s2d' = SubSeq(s2d, 1, n)
    /\ link' = IF link = "up" THEN "down" ELSE link

LinkLost ==
    /\ link = "up"
    /\ BreakLink
    /\ \E n \in (IF dbpc = "idle" THEN 0 ELSE 1)..Len(d2s) : d2s' = SubSeq(d2s, 1, n)
    /\ UNCHANGED <<conn, pc, roles, aid, world, dbpc, active, raced, robbed>>

\* on_disconnected of the database server forgets every account.
DbLinkClosed ==
    /\ link = "down" /\ s2d = <<>>
    /\ link' = "closed"
    /\ active' = {}
    /\ UNCHANGED <<conn, pc, roles, aid, world, s2d, d2s, dbpc, raced, robbed>>

GameServerCrash ==
    /\ BreakLink
    /\ conn' = [u \in Users |-> "gone"]
    /\ pc' = [u \in Users |-> "ready"]
    /\ roles' = [u \in Users |-> {}]
    /\ aid' = [u \in Users |-> NoAid]
    /\ d2s' = <<>> /\ dbpc' = "idle" /\ world' = {} /\ raced' = {}
    /\ UNCHANGED <<active, robbed>>

\* A new process, started when the database server has noticed the end of
\* the old link, counts its UIDs from the beginning.
GameServerStart ==
    /\ link = "closed" /\ \A u \in Users : conn[u] = "gone"
    /\ conn' = [u \in Users |-> "idle"]
    /\ link' = "up"
    /\ d2s' = <<>> /\ world' = {} /\ raced' = {} /\ robbed' = {}
    /\ UNCHANGED <<pc, roles, aid, s2d, dbpc, active>>

-----------------------------------------------------------------------------
Handler(u) ==
    \/ \E a \in Aid : OnLogin(u, a)
    \/ OnSecondaryLogin(u) \/ OnPlayersRequest(u)
    \/ OnLoadPlayerAssign(u) \/ OnStartAdd(u) \/ OnRestart(u)
    \/ OnDisconnected(u)

\* A handler that has begun goes on, and a closed session is erased.
HandlerEnd(u) == OnLoadPlayerSend(u) \/ OnStartDeny(u) \/ EraseSession(u)

DbServer ==
    \/ DbLoginRefused \/ DbLoginAuthorized \/ DbSecondaryLogin \/ DbPlayers
    \/ DbRestart \/ DbLoadPlayer \/ FlagDisconnected \/ DbLinkClosed

Listener ==
    \/ ListenerAssign \/ ListenerAuthorized \/ ListenerSetAID
    \/ ListenerAuthorizedDropped \/ ListenerLoad

Failure == LinkLost \/ GameServerCrash \/ GameServerStart

Next ==
    \/ \E u \in Users : Connect(u) \/ Handler(u) \/ HandlerEnd(u)
    \/ DbServer \/ Listener \/ Failure

Spec == Init /\ [][Next]_vars

\* The servers' threads keep running; users and failures owe nothing.
Fairness ==
    /\ \A u \in Users : WF_vars(HandlerEnd(u))
    /\ WF_vars(DbServer)
    /\ WF_vars(Listener)

FairSpec == Spec /\ Fairness

-----------------------------------------------------------------------------
(* Properties.                                                              *)

TypeOK ==
    /\ conn \in [Users -> ConnState]
    /\ pc \in [Users -> HandlerState]
    /\ roles \in [Users -> SUBSET Role]
    /\ aid \in [Users -> Aid]
    /\ world \subseteq Users
    /\ link \in LinkState
    /\ s2d \in Seq(S2DPacket)
    /\ d2s \in Seq(D2SPacket)
    /\ dbpc \in {"idle", "setaid"}
    /\ active \subseteq Accounts
    /\ raced \subseteq Users
    /\ robbed \subseteq Accounts

\* u works under account a: its log-in has been confirmed, its AID is set and
\* its connection has not ended.
Using(u, a) ==
    /\ conn[u] = "open" /\ Authorized(u, {"AUTHORIZED"}) /\ aid[u] = a
    /\ ~SettingAid(u)

\* Whatever the order of log-ins, answers, disconnections, link failures and
\* restarts, no two sessions work under one account at the same time: this is
\* what Login's LA_SAMEUSER answer and FlagDisconnected are for.  One thing
\* breaks it: an S2D_DISCONNECT whose AID was never set names the account.
OneSessionPerAccount ==
    \A u, v \in Users, a \in Accounts \ robbed : Using(u, a) /\ Using(v, a) => u = v

\* While the link is up, an account in use is in m_active_users, so that
\* Login refuses it to anybody else, with the same exception.
UsedAccountsActive ==
    link = "up" => \A u \in Users, a \in Accounts \ robbed : Using(u, a) => a \in active

\* A log-in is confirmed once per connection: OnAuthorized never changes the
\* account of a session that already has one (only a new process does).
AccountFixed ==
    [][\A u \in Users, a \in Accounts :
          Using(u, a) /\ conn'[u] = "open" => aid'[u] = a]_vars

\* A player who lost no role update to a race is in World::m_players exactly
\* while his open session has the INGAME role, whatever packets of the
\* database server arrive late (OnStart, OnRestart, OnDisconnected).
WorldMatchesRoles ==
    \A u \in Users \ raced :
        u \in world <=> conn[u] = "open" /\ Authorized(u, {"INGAME"})

\* A log-in request is answered: the session may ask for the secondary log-in
\* or is in the lobby, unless the connection or the link ends before.
LoginAnswered ==
    \A u \in Users :
        (\E i \in DOMAIN s2d : s2d[i].type = "S2D_LOGIN" /\ s2d[i].uid = u)
            ~> \/ roles[u] \cap {"CAN_REQUEST_SECONDARY", "LOBBY"} # {}
               \/ conn[u] # "open" \/ link # "up"

\* The end of a confirmed session frees its account: once S2D_DISCONNECT is on
\* its way, FlagDisconnected or the loss of the link makes it available again.
DisconnectFreesAccount ==
    \A a \in Accounts :
        (\E i \in DOMAIN s2d : s2d[i].type = "S2D_DISCONNECT" /\ s2d[i].aid = a)
            ~> a \notin active

\* World.h: players are in the world "without ownership. Ownership is held in
\* core server": a player in the world has a session that owns him.
WorldPlayersOwned == \A u \in world : InSessions(u)

\* Player.cpp: the last information from the database comes "before game
\* start": none is on its way to a player who is in the world.
LoadedBeforeStart ==
    \A u \in world, i \in DOMAIN d2s :
        ~(d2s[i].uid = u /\ d2s[i].type = "D2S_LOADPLAYER")

\* User.h: the AID is the index of a row of the account table; the packet that
\* releases an account names one.
DisconnectNamesAccount ==
    \A i \in DOMAIN s2d : s2d[i].type = "S2D_DISCONNECT" => s2d[i].aid \in Accounts

-----------------------------------------------------------------------------
(* The inductive invariant behind OneSessionPerAccount: an account in       *)
(* m_active_users is held by at most one of a session, a D2S_AUTHORIZED and *)
(* an S2D_DISCONNECT on their way, and a UID logs in at most once.  Nothing *)
(* is said of accounts that were robbed.                                    *)

Logins   == {i \in DOMAIN s2d : s2d[i].type = "S2D_LOGIN"}
Releases == {i \in DOMAIN s2d : /\ s2d[i].type = "S2D_DISCONNECT"
                                /\ s2d[i].aid \in Accounts \ robbed}
Grants   == {i \in DOMAIN d2s : d2s[i].type = "D2S_AUTHORIZED"}
Gifts    == {i \in Grants : d2s[i].aid \notin robbed}

NotYetLoggedIn(u) == conn[u] = "idle" \/ "CAN_REQUEST_PRIMARY" \in roles[u]

LoginsInv ==
    /\ \A u \in Users : pc[u] \in {"loading", "starting"} =>
           conn[u] = "open" /\ "CAN_REQUEST_PRIMARY" \notin roles[u]
    /\ \A u \in Users : conn[u] \in {"idle", "gone"} => roles[u] = {} /\ aid[u] = NoAid
    /\ \A u \in Users : NotYetLoggedIn(u) => roles[u] \subseteq {"CAN_REQUEST_PRIMARY"}
    /\ \A i \in DOMAIN s2d : ~NotYetLoggedIn(s2d[i].uid)
    /\ \A i \in DOMAIN d2s : ~NotYetLoggedIn(d2s[i].uid)
    /\ \A i, j \in Logins : s2d[i].uid = s2d[j].uid => i = j
    /\ \A i \in Logins : /\ "AUTHORIZED" \notin roles[s2d[i].uid]
                         /\ \A j \in Grants : d2s[j].uid # s2d[i].uid
    /\ \A i, j \in Grants : d2s[i].uid = d2s[j].uid => i = j
    /\ \A i \in Grants : "AUTHORIZED" \in roles[d2s[i].uid] => dbpc = "setaid" /\ i = 1

AidInv ==
    /\ dbpc = "setaid" => /\ d2s # <<>> /\ Head(d2s).type = "D2S_AUTHORIZED"
                          /\ InSessions(Head(d2s).uid)
                          /\ "AUTHORIZED" \in roles[Head(d2s).uid]

HoldersInv ==
    /\ OneSessionPerAccount
    /\ \A i \in Grants : d2s[i].aid # NoAid
    /\ \A i, j \in Gifts : d2s[i].aid = d2s[j].aid => i = j
    /\ \A i \in Gifts, u \in Users : ~Using(u, d2s[i].aid)
    /\ \A i, j \in Releases : s2d[i].aid = s2d[j].aid => i = j
    /\ \A i \in Releases, u \in Users : ~Using(u, s2d[i].aid)
    /\ \A i \in Releases, j \in Gifts : s2d[i].aid # d2s[j].aid

ActiveInv ==
    /\ link = "closed" => s2d = <<>>
    /\ link # "closed" =>
           /\ \A u \in Users, a \in Accounts \ robbed : Using(u, a) => a \in active
           /\ \A i \in Gifts : d2s[i].aid \in active
           /\ \A i \in Releases : s2d[i].aid \in active

\* The invariant that SessionProofs shows to be inductive, whatever an AID that
\* was never set may be.
SessionInv == TypeOK /\ LoginsInv /\ AidInv /\ HoldersInv /\ ActiveInv

=============================================================================
