---------------------------- MODULE BattleRooms ----------------------------
(***************************************************************************)
(* The battle server: BattleServer, its BattleRoomManager and the part of  *)
(* BackendClient that feeds them (battle/src).                             *)
(*                                                                         *)
(* One yasio loop runs every callback, so each network event, frame and    *)
(* timer tick is one atomic action.  What makes the component hard is the  *)
(* order in which the gateway delivers frames: SessionOnline and           *)
(* SessionOffline come from the tasks of the clients' connections,         *)
(* BattleCreate from the game server's connection, so any order of them    *)
(* may arrive, a second Online of one session and an Online after its      *)
(* Offline included (module Gateway).                                      *)
(*                                                                         *)
(* A signal runs BattleServer::shutdown between two callbacks.  What the   *)
(* client had read or queued by then is still dispatched, so a stopped     *)
(* client can open, and even register, before its YEK_ON_CLOSE: module     *)
(* BattleProcess has the event loop that makes this so, and implements     *)
(* the connection half of this module.                                     *)
(*                                                                         *)
(* The fight itself (the world and its snapshots) is data: a room is the   *)
(* set of sessions that hold a slot in it and its frame number.            *)
(***************************************************************************)
EXTENDS Naturals, FiniteSets, Sequences

CONSTANTS
    Sessions,       \* client session ids
    Battles,        \* battle ids the game server can send
    ZeroId,         \* the battle id 0, which next_battle_id reaches by wrapping
    MaxRooms,       \* [server] max_battles
    MaxSessions,    \* [server] max_sessions
    FrameMod,       \* where m_serverFrame wraps: 2^32 in the code
    None

ASSUME BattleAssumptions ==
    /\ ZeroId \in Battles
    /\ None \notin Battles \cup Sessions
    /\ MaxRooms \in Nat
    /\ MaxSessions \in Nat
    /\ FrameMod \in Nat \ {0}
    /\ IsFiniteSet(Sessions)
    /\ IsFiniteSet(Battles)

VARIABLES
    link,       \* BackendClient::m_state, and how far a stopped client has closed
    running,    \* BattleServer::m_running
    client,     \* BackendClient::m_running
    present,    \* m_roomManager is not null
    mgr,        \* the BattleRoomManager: rooms, the slots of each, session -> room
    online,     \* BackendClient::m_onlineSessions
    acked,      \* slot.lastClientFrame: the battle named by the input it came from
    frame,      \* m_serverFrame of each room
    load,       \* accepting_bindings as the gateway last heard it
    resp        \* the last BattleCreateResp

vars == <<link, running, client, present, mgr, online, acked, frame, load, resp>>

\* "stopping" and "leaving" are a client stopped before it had connected, or
\* before it had registered; "closing" one that is not going to register.
Links == {"connecting", "connected", "registered",
          "stopping", "leaving", "closing", "closed"}

\* roomConfig.maxPlayers of every battle.
MaxPlayers == 2

\* The tables of a BattleRoomManager.
Managers ==
    [rooms  : SUBSET Battles,
     slots  : [Battles -> SUBSET Sessions],
     routes : [Sessions -> Battles \cup {None}]]

NoRooms ==
    [rooms  |-> {},
     slots  |-> [b \in Battles |-> {}],
     routes |-> [s \in Sessions |-> None]]

NoResp == [code |-> None, actor |-> None, players |-> {}]

----------------------------------------------------------------------------
(* BattleRoomManager *)

\* The sessions of m_sessionToRoom.
Active(m) == {s \in Sessions : m.routes[s] # None}

\* canAcceptSession compares with <= where the code has <.
Accepting_OffByOne(m) ==
    /\ Cardinality(m.rooms) <= MaxRooms
    /\ Cardinality(Active(m)) <= MaxSessions

\* canAcceptSession for a session that has no room.
Accepting(m) ==
    /\ Cardinality(m.rooms) < MaxRooms
    /\ Cardinality(Active(m)) < MaxSessions

\* createRoom: an existing room is returned as it is.
CreateRoom(m, b) == [m EXCEPT !.rooms = @ \cup {b}]

RoomCreatable(m, b, mapLoads) ==
    /\ b # ZeroId
    /\ b \in m.rooms \/ (Cardinality(m.rooms) < MaxRooms /\ mapLoads)

\* BattleRoom::addPlayer would find or make a slot for s; `spawns` are the
\* sessions whose class has a role and whose actor spawns.
SlotFor(m, b, s, spawns) ==
    /\ Cardinality(m.slots[b]) < MaxPlayers
    /\ s \in m.slots[b] \/ s \in spawns

\* addPlayerToRoom answers true, though a session that has some other room
\* gets no slot in this one.
Added(m, b, s, spawns) ==
    m.routes[s] # None \/ (Accepting(m) /\ SlotFor(m, b, s, spawns))

AddPlayer(m, b, s, spawns) ==
    IF m.routes[s] = None /\ Accepting(m) /\ SlotFor(m, b, s, spawns)
    THEN [rooms  |-> m.rooms,
          slots  |-> [m.slots EXCEPT ![b] = @ \cup {s}],
          routes |-> [m.routes EXCEPT ![s] = b]]
    ELSE m

\* removePlayer leaves the slot behind.
RemovePlayer_KeepsSlot(m, s) == [m EXCEPT !.routes[s] = None]

\* removePlayer forgets to destroy the room.
RemovePlayer_KeepsRoom(m, s) ==
    IF m.routes[s] = None
    THEN m
    ELSE [m EXCEPT !.slots[m.routes[s]] = @ \ {s}, !.routes[s] = None]

\* removePlayer: the last player takes the room along.
RemovePlayer(m, s) ==
    LET b    == m.routes[s]
        left == m.slots[b] \ {s}
    IN IF b = None
       THEN m
       ELSE [rooms  |-> IF b \in m.rooms /\ left = {} THEN m.rooms \ {b}
                                                      ELSE m.rooms,
             slots  |-> IF b \in m.rooms THEN [m.slots EXCEPT ![b] = left]
                                         ELSE m.slots,
             routes |-> [m.routes EXCEPT ![s] = None]]

\* The manager after stopAllSessions made onSessionOffline remove each of `gone`.
RemoveAll(m, gone) ==
    [rooms  |-> {b \in m.rooms : m.slots[b] = {} \/ m.slots[b] \ gone # {}},
     slots  |-> [b \in Battles |-> m.slots[b] \ gone],
     routes |-> [s \in Sessions |-> IF s \in gone THEN None ELSE m.routes[s]]]

----------------------------------------------------------------------------
(* Connection *)

Init ==
    /\ link = "connecting"
    /\ running = TRUE
    /\ client = TRUE
    /\ present = TRUE
    /\ mgr = NoRooms
    /\ online = {}
    /\ acked = [s \in Sessions |-> None]
    /\ frame = [b \in Battles |-> 0]
    /\ load = (MaxRooms > 0 /\ MaxSessions > 0)
    /\ resp = NoResp

\* Connection events BattleServer is not told of.
ServerUnaware == UNCHANGED <<running, present, mgr, online, acked, frame, load, resp>>

\* YEK_ON_OPEN with status 0: the registration request is sent.  A stopped
\* client connects too, but closes before an answer can be read.
Opened ==
    /\ \/ link = "connecting" /\ link' = "connected"
       \/ link = "stopping" /\ link' = "closing"
    /\ client' = client
    /\ ServerUnaware

\* YEK_ON_OPEN with an error stops the client.  The loop of a stopped client
\* may end without the event.
OpenFailed ==
    /\ link \in {"connecting", "stopping"}
    /\ link' = "closed"
    /\ client' = FALSE
    /\ ServerUnaware

\* ServerRegResp with code 0; every other frame before it is ignored.
Registered ==
    /\ link \in {"connected", "leaving"}
    /\ link' = "registered"
    /\ client' = client
    /\ ServerUnaware

\* ServerRegResp that refuses or does not parse: the transport is closed.
RegRefused ==
    /\ link \in {"connected", "leaving"}
    /\ link' = "closing"
    /\ client' = FALSE
    /\ ServerUnaware

\* A room that is gone takes its frame number along.
FramesLeft == frame' = [b \in Battles |-> IF b \in mgr'.rooms THEN frame[b] ELSE 0]

\* stopAllSessions: onSessionOffline of every session, if there is a manager.
StopAllSessions ==
    /\ online' = {}
    /\ mgr' = IF present THEN RemoveAll(mgr, online) ELSE mgr
    /\ FramesLeft
    /\ acked' = [s \in Sessions |->
                    IF present /\ s \in online THEN None ELSE acked[s]]

\* onDisconnected resets the manager before the state leaves Registered.
GameOffline_ResetsFirst ==
    /\ link = "registered"
    /\ present' = FALSE
    /\ UNCHANGED <<link, running, client, mgr, online, acked, frame, load, resp>>

\* BattleServer::shutdown of a client that runs stops its sessions; one that
\* was stopped before stays as it is.
Shutdown ==
    /\ running' = FALSE
    /\ client' = FALSE
    /\ IF client THEN StopAllSessions ELSE UNCHANGED <<mgr, online, acked, frame>>

\* ServerOfflinePush of the game service.
GameOffline ==
    /\ link = "registered"
    /\ Shutdown
    /\ link' = IF client THEN "closing" ELSE link
    /\ UNCHANGED <<present, load, resp>>

\* SIGINT or SIGTERM while the client is connected or registered.
SignalConnected ==
    /\ link \in {"connected", "registered"}
    /\ Shutdown
    /\ link' = IF ~client THEN link
               ELSE IF link = "connected" THEN "leaving" ELSE "closing"
    /\ UNCHANGED <<present, load, resp>>

\* The signal before that.  stop() does nothing before BackendClient::start,
\* and cannot stop an event loop that has not started: the process goes on to
\* connect.
SignalConnecting(when) ==
    /\ link = "connecting"
    /\ running' = FALSE
    /\ client' = (client /\ when = "before start")
    /\ link' = IF client /\ when = "looping" THEN "stopping" ELSE link
    /\ UNCHANGED <<present, mgr, online, acked, frame, load, resp>>

\* The signal to a client that was stopped.
SignalStopped ==
    /\ link \in {"stopping", "leaving", "closing", "closed"}
    /\ running' = FALSE
    /\ UNCHANGED <<link, client, present, mgr, online, acked, frame, load, resp>>

\* YEK_ON_CLOSE: the sessions are stopped, then onDisconnected drops the
\* manager with every room still in it and shuts down.
Closed ==
    /\ link \in {"connected", "registered", "leaving", "closing"}
    /\ link' = "closed"
    /\ running' = FALSE
    /\ client' = FALSE
    /\ present' = FALSE
    /\ online' = {}
    /\ mgr' = NoRooms
    /\ acked' = [s \in Sessions |-> None]
    /\ frame' = [b \in Battles |-> 0]
    /\ UNCHANGED <<load, resp>>

----------------------------------------------------------------------------
(* Frames *)

\* stopSession: only a session that is online is taken out of its room.
StopSession(s) ==
    IF s \in online
    THEN /\ mgr' = IF present THEN RemovePlayer(mgr, s) ELSE mgr
         /\ acked' = IF present THEN [acked EXCEPT ![s] = None] ELSE acked
         /\ FramesLeft
    ELSE UNCHANGED <<mgr, acked, frame>>

\* SessionOnlinePush: spawnSession stops the session of that id first.
SessionOnline(s) ==
    /\ link = "registered"
    /\ StopSession(s)
    /\ online' = online \cup {s}
    /\ UNCHANGED <<link, running, client, present, load, resp>>

\* SessionOfflinePush.
SessionOffline(s) ==
    /\ link = "registered"
    /\ StopSession(s)
    /\ online' = online \ {s}
    /\ UNCHANGED <<link, running, client, present, load, resp>>

\* BattleCreateReq of a battle that exists: nobody is added.  The inner frame
\* carries session 0, so no actor is found for the requester.
CreateAgain(b) ==
    /\ link = "registered"
    /\ b \in mgr.rooms
    /\ resp' = [code |-> 0, actor |-> None, players |-> mgr.slots[b]]
    /\ UNCHANGED <<link, running, client, present, mgr, online, acked, frame, load>>

\* BattleCreateReq that createRoom cannot serve.
CreateRefused(b, mapLoads) ==
    /\ link = "registered"
    /\ b \notin mgr.rooms
    /\ ~RoomCreatable(mgr, b, mapLoads)
    /\ resp' = [code |-> 3, actor |-> None, players |-> {}]
    /\ UNCHANGED <<link, running, client, present, mgr, online, acked, frame, load>>

\* The actor that an added player has in the room.
ActorIn(m, b, s) == IF s \in m.slots[b] THEN s ELSE None

\* The loop over the one or two players of a request: the manager after it,
\* whether anyone joined, and the actor of the last who did.
JoinLoop(m, b, players, spawns) ==
    LET p  == players[1]
        m1 == AddPlayer(m, b, p, spawns)
        in1 == Added(m, b, p, spawns)
        a1 == IF in1 THEN ActorIn(m1, b, p) ELSE None
        q  == players[2]
        m2 == AddPlayer(m1, b, q, spawns)
        in2 == Added(m1, b, q, spawns)
    IN IF Len(players) = 1
       THEN [mgr |-> m1, joined |-> in1, actor |-> a1]
       ELSE [mgr |-> m2, joined |-> in1 \/ in2,
             actor |-> IF in2 THEN ActorIn(m2, b, q) ELSE a1]

\* BattleCreateReq that makes a room.  The room stays when nobody joined it.
BattleCreate(b, players, spawns) ==
    LET loop == JoinLoop(CreateRoom(mgr, b), b, players, spawns)
    IN /\ link = "registered"
       /\ b \notin mgr.rooms
       /\ RoomCreatable(mgr, b, TRUE)
       /\ mgr' = loop.mgr
       /\ resp' = IF loop.joined
                  THEN [code |-> 0, actor |-> loop.actor,
                        players |-> loop.mgr.slots[b]]
                  ELSE [code |-> 4, actor |-> None, players |-> {}]
       /\ UNCHANGED <<link, running, client, present, online, acked, frame, load>>

\* onBattleInput does not compare the battle id of the input.
BattleInput_AnyBattle(s, b) ==
    /\ link = "registered"
    /\ s \in online
    /\ mgr.routes[s] # None
    /\ acked' = [acked EXCEPT ![s] = b]
    /\ UNCHANGED <<link, running, client, present, mgr, online, frame, load, resp>>

\* BattleInputPush of an online session for the battle it is routed to.
BattleInput(s, b) ==
    /\ link = "registered"
    /\ s \in online
    /\ mgr.routes[s] = b /\ b \in mgr.rooms
    /\ s \in mgr.slots[b]
    /\ acked' = [acked EXCEPT ![s] = b]
    /\ UNCHANGED <<link, running, client, present, mgr, online, frame, load, resp>>

\* tickAll: a room without players stands still.
TickAll(m) ==
    [b \in Battles |-> IF b \in m.rooms /\ m.slots[b] # {}
                      THEN (frame[b] + 1) % FrameMod ELSE frame[b]]

\* The tick timer; `report` when the report timer has run out.  Without a
\* transport the report is not sent.  The snapshots change nothing here.
Tick(report) ==
    /\ running /\ present
    /\ frame' = TickAll(mgr)
    /\ load' = IF report /\ link \in {"connected", "registered"}
               THEN Accepting(mgr) ELSE load
    /\ UNCHANGED <<link, running, client, present, mgr, online, acked, resp>>

----------------------------------------------------------------------------
\* The players lists the game server sends: one for a join, two for a duel.
PlayerLists ==
    {<<p>> : p \in Sessions} \cup {<<p, q>> : p \in Sessions, q \in Sessions}

Connection == Opened \/ OpenFailed \/ Registered \/ RegRefused \/ Closed

Stop ==
    \/ GameOffline \/ SignalConnected \/ SignalStopped
    \/ \E when \in {"before start", "before the loop", "looping"} : SignalConnecting(when)

Create == \E b \in Battles :
    \/ CreateAgain(b)
    \/ \E mapLoads \in BOOLEAN : CreateRefused(b, mapLoads)
    \/ \E players \in PlayerLists :
            \E spawns \in SUBSET {players[i] : i \in DOMAIN players} :
                BattleCreate(b, players, spawns)

SessionFrame == \E s \in Sessions :
    \/ SessionOnline(s)
    \/ SessionOffline(s)
    \/ \E b \in Battles : BattleInput(s, b)

Next == Connection \/ Stop \/ Create \/ SessionFrame
            \/ \E report \in BOOLEAN : Tick(report)

Spec == Init /\ [][Next]_vars

----------------------------------------------------------------------------
(* Properties *)

\* The type invariant: every variable, and the tables of the manager.
TypeOK ==
    /\ link \in Links
    /\ running \in BOOLEAN
    /\ client \in BOOLEAN
    /\ present \in BOOLEAN
    /\ mgr \in Managers
    /\ online \in SUBSET Sessions
    /\ acked \in [Sessions -> Battles \cup {None}]
    /\ frame \in [Battles -> 0 .. FrameMod - 1]
    /\ load \in BOOLEAN
    /\ resp \in [code : {0, 3, 4, None}, actor : Sessions \cup {None},
                 players : SUBSET Sessions]

\* Routes and slots of a manager name each other, and no route dangles.
Routing(m) ==
    /\ \A s \in Sessions, b \in Battles : s \in m.slots[b] <=> m.routes[s] = b
    /\ \A s \in Sessions : m.routes[s] # None => m.routes[s] \in m.rooms

\* The limits of a manager.
Capacity(m) ==
    /\ Cardinality(m.rooms) <= MaxRooms
    /\ Cardinality(Active(m)) <= MaxSessions
    /\ \A b \in Battles : Cardinality(m.slots[b]) <= MaxPlayers

\* Routing (BattleRoomManager.h: session -> room).  A session is routed to a
\* battle exactly when it holds a slot of that battle's room, and the room
\* exists: removePlayer and addPlayerToRoom keep the two maps in step, so
\* findRoomBySession never returns a room of someone else's nor misses one.
RoutesAgree == Routing(mgr)

\* Capacity (BattleRoomManager.h): a room never has more than two players,
\* there are never more rooms than max_battles, and never more seated sessions
\* than max_sessions, though createRoom and canAcceptSession test them apart.
CapacityKept == Capacity(mgr)

\* onBattleCreate and onBattleInput dereference m_roomManager unchecked, also
\* on frames that arrive after a signal: it is gone only once YEK_ON_CLOSE, the
\* last event, has been handled and BattleServer has stopped running.
ManagerPresent ==
    ~present => link = "closed" /\ ~running /\ mgr = NoRooms

\* removePlayer destroys a room when "no players remain": a room that has ever
\* been ticked still has a player.  (A room whose players could not be seated
\* has none from the start and never ticks.)
TickedRoomHasPlayers ==
    \A b \in Battles : frame[b] # 0 => b \in mgr.rooms /\ mgr.slots[b] # {}

\* The input a slot acknowledges (last_processed_client_frame of its snapshots)
\* was sent for the battle the slot is in: neither an input for a battle the
\* session has left nor the slot of an earlier battle shows through.
InputOfOwnBattle ==
    \A s \in Sessions : acked[s] # None => acked[s] = mgr.routes[s]

============================================================================
