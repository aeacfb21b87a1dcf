# AxmolFighter-Server: TLA+ models

This directory holds TLA+ models of the AxmolFighter game servers, TLC
configurations that check them on small instances, and TLAPS proofs for every
size. Every definition is translated from the code under `src/`; `PROJECT.json`
gives the lines of each one, the hazards the properties are aimed at, and what
was found.

## 1. The system

Clients connect only to the **gateway**. The **game**, **battle** and **town**
servers connect to the gateway's internal port and register there. The gateway
routes client frames by message id: game frames go to any game instance, battle
and town frames to the instance the client is *bound* to. Servers call each other
through the gateway.

| Component | State | Operations | Hard behaviour |
|---|---|---|---|
| gateway (`game/gateway`) | `conns`, `instances` (registry), sessions and their authentication, bindings, loads | connect, status request, forward, close, timeout; register, bind, unbind, kick, load report, close | one tokio task per connection; a handler is a sequence of operations on concurrent maps, and any two handlers interleave |
| backend framework: calls | request-id seed, table of pending calls | call, answer, timeout, disconnect | callers, read loop, timers and the clearing share the table |
| backend framework: sessions | session tasks with cancel tokens, server dispatcher | spawn, stop, disconnect, shutdown | a task notices its cancellation between two frames; a session id may get a second task |
| town (`game/town`) | scenes, players, indices by player and by session | enter, leave, state push, session stop, clear, shutdown | dispatcher and session tasks share one mutex; pushes are sent after it is released |
| battle rooms (`battle/src`) | rooms, slots, session routes, connection state | create, input, tick, session pushes, load report, disconnect | frames in any order and twice; limits; a manager that is reset |
| battle process (`main.cpp`, `BackendClient`, yasio's `io_service` as they use it) | running flags, client state, transport handle; channel, transport, timers, queued events, readiness | start, stop, the phases of the event loop, dispatch of an event, signal | the client learns late what the loop did; a signal handler runs between any two steps |
| framing (`codec.rs`, `BackendCodec.cpp`, yasio's `do_read`/`unpack`/`do_write`) | send queue, receive buffer, packet under assembly | send, write a piece, read a piece, extract | pieces cut anywhere, several frames in one read, limits, frames left in a buffer |
| game (`game/game`) | accounts, battles, towns, instance indices, duels, selected characters, each with its own mutex | login, select, enter scene, join battle, duel, offline pushes, disconnect | remote calls between reading and writing the tables; tasks write other sessions' entries |
| connection (`game/base/src/net`, heartbeat of the gateway, `gateway_client.rs`) | writer queue and buffer, pending ping, read buffer of the backend | write, flush, close, ping, pong, register, read | heartbeat, reader and writer are separate tasks; one ping at a time; a close waits behind frames |
| persistence, simulation, transports, message codecs | | | not modelled, see section 8 |

What makes each one correct: backends know every authenticated session and clients
know the services they may use (gateway); a caller gets
its own answer or an error and the table does not leak (calls); indices agree with
the scenes (town); routes agree with slots and limits hold (battle rooms); the
client sees connection events in order, and a loss or a signal ends the process
(battle process); what is sent arrives whole and in order (framing); a login is
owned by the last session, ended sessions leave nothing, and the offline push of a
server reaches the sessions on it (game); a silent backend loses its connection and
one that answers does not (connection).

## 2. Modules

| Module | Models | Proofs | TLC module |
|---|---|---|---|
| `Gateway` | `server_registry.rs`, `router.rs`, `session.rs`, `bind_manager.rs`, `client_listener.rs`, `internal_listener.rs` | `GatewayProofs` | `MCGateway` |
| `BackendRpc` | `rpc.rs`, the request methods of `session.rs`, the connection loop of `gateway_client.rs` | `BackendRpcProofs` | `MCBackendRpc` |
| `TownScene` | `town/src/scene.rs`, `delegate.rs`, dispatcher, session tasks and shutdown of the framework | `TownSceneProofs` | `MCTownScene` |
| `BattleRooms` | `BattleServer.cpp`, `BattleRoomManager.cpp`, `BattleRoom.cpp` (slots), `BackendClient.cpp` (life cycle, sessions) | `BattleRoomsProofs` | `MCBattleRooms` |
| `BattleProcess` | `main.cpp`, start and stop of `BattleServer.cpp`, connection of `BackendClient.cpp`, event loop of yasio's `io_service.cpp` | `BattleProcessProofs` | itself |
| `FrameStream` | `codec.rs`, `BackendCodec.cpp`, the read loops of `gateway_client.rs`, `do_read`, `unpack`, `do_write` and `__builtin_decode_len` of `io_service.cpp` | `FrameStreamProofs` | itself |
| `FrameQueue` | nothing by itself: what a framed connection promises | | checked as a property of `FrameStream` |
| `GameSessions` | `game_shared/mod.rs`, `player/*.rs` (session logic) | `GameSessionsProofs` | `MCGameSessions` |
| `Heartbeat` | `net_session.rs`, the heartbeat of `internal_listener.rs`, `register_stream` and `read_loop` of `gateway_client.rs` | `HeartbeatProofs` | `MCHeartbeat` |

Definitions called `X_Something` next to a definition `X` are mutants: `X` with a
plausible bug. `PROJECT.json` names for every checked property a mutant that breaks
it.

### Gateway
A connection's handlers run one at a time (its task), different connections in
parallel. `pc[t]` is where a task is, `todo[t]` the keys its iteration has still to
visit. Each operation on a concurrent map is one step; an iteration visits every
slot once, at some time; `find_*`, `select_lowest_load_instance`, `list_all` and
`authenticated_sessions` are single steps. Handlers contain no await, so none is
cancelled in the middle. The writer queues are FIFO and kept as what the other end
has been told (`told`, `peers`, `shown`). An error reply changes nothing and is an
action that is not enabled. Client and backend ids come from one counter, so an id
is used once. A backend ignores every frame ahead of its `ServerRegResp`
(`answered`). Bindings, unbindings and kicks are asked by `Requesters` for sessions
that were announced to them at some time. Several backends ask: there may be more
than one game server, and the battle server unbinds too, sessions that ended, live
ones on a repeated `SessionOnlinePush` (`BackendClient.cpp` 485-505, which stops the
session first) and all of them when it stops. `crossed` is history: the sessions and
services for which the requests of two backends overlapped.

### BackendRpc
A call is allocated an id, inserted, sent, and then answered, timed out or
cancelled, in separate steps. `clear_pending` visits slot by slot. Callers are
never dropped in the middle: a session task awaits its handler outside the select.
An answer is matched only by id, so the model assumes that peers answer only what
they were asked; it may come late, also over a later connection.

### TownScene
The manager's operations are atomic (one mutex); the pushes an operation returns
are sent one by one afterwards (enter, leave, state), and the reply after them.
`seen` is what the frames sent to a client amount to. Session tasks, the server
dispatcher, the read loop and the shutdown interleave. The town does not reconnect:
`on_disconnected` and the loss of the game server start the shutdown. Player states
are abstract; the `u64` scene counter does not reach its end.

### BattleRooms
The battle server is one event loop, so each frame is one step; the frames may
come in any order and repeatedly, as the gateway's runs show. Spawning a fighter and
loading a map may fail. `"closing"` is a client that was stopped and whose
transport has not closed yet, `"stopping"` and `"leaving"` one that was stopped
before it had connected or registered. Requests have one player (join) or two
(duel), which is all that game sends. A tick advances the frame of every room that
has players; inputs and snapshots are data.

### BattleProcess
The battle server below `BattleRooms`: the main thread's start, the loop of
`io_service::run` (wait, transports, channels, timers, dispatch) and what
`handleNetworkEvent` does with each event. One phase of the loop is one step, one
event another; a signal runs `BattleServer::shutdown` between any two. It is one
handler, so it is one step: that it may also interrupt an assignment halfway is left
out. `Poll` keeps the readiness of the previous iteration when a timer is due or
packets are left in the buffer, as the loop does. The resolver thread writes the channel's error
without a lock; the network may accept, refuse or not answer; the gateway answers the
registration once, sends frames and closes. One connection is made per process: the
server does not reconnect. `ImplementsBattleRooms` maps the state to `BattleRooms`
(`Link` is the mapping of the connection) without sessions and battles: the order of
opening, registering, stopping and dropping the rooms that `BattleRooms` assumes is
shown here, what the frames do to the rooms is left to it.

### FrameStream and FrameQueue
One direction of a connection and one of three readers: yasio's (battle server),
`GatewayClient`'s (Rust backends), the gateway's. Sizes are constants: a length field,
a header, the largest frame, yasio's receive buffer. A byte is its frame and its
position in it, so that a reader that lost its place reads a wrong length. `queue`
holds the frames sent and not handed over; it is history for the reader and the
variable of `FrameQueue`, which says that frames are handed over from its head, that
only malformed ones are skipped, and that the rest are lost only by a close. yasio hands a frame
that is shorter than a header to the client, which drops it, and refuses one that is
too long; the Rust readers close on both. Sent frames are at least one byte long: no
encoder of the repository writes a length of 0, which yasio takes for a length field
that has not arrived. The client reader's registration loop and read loop, and the
gateway's heartbeat, are there for the frames that stay in the buffer in between.

### GameSessions
One step takes one lock. Remote calls and queries have free outcomes; a success of
an instance is only possible while that instance has not been reported offline
(`gone`). `place` and `index` stand for the battle and the town tables, which have
the same shape; `InstsOf` says which instances are battle and which town servers.
`who`, `inst`, `old`, `duel` are a handler's local variables. The checks of
`handle_duel_invite` are one step, the insertion another. The responder's task binds
the challenger (`BindChallenger`), then itself (`BindBattle`), and lets both leave the
town in that order; a session that went on to a second account can challenge itself,
and then does everything twice (`battle.rs` 335-363).

A session may have several tasks over time (`SessionOf`): a repeated
`SessionOnlinePush` cancels the task there is and spawns another, and the two run side
by side until the first has ended. Histories record what the properties leave out:
`kicked`; `respawned`, the sessions that got a task while an older one ran; `late`, the
sessions whose battle a duel stored after their own `on_stop` had cleared it. `owner`
and `clean` record who logged in last and which challengers the town let go.

### Heartbeat
One connection between gateway and backend. The unit of time is
`HEARTBEAT_INTERVAL` (`Timeout` is 3 in the code); the clock may tick at any moment,
so every task may be late, and `age` and `now` stop at `Timeout`. `queue`, `buf`,
`down` and `inbuf` are the stages of a frame on its way to the backend: the writer
queue, the `BufWriter`, the socket, the read buffer. A read takes any nonempty prefix
of what has arrived. `register_stream` ignores what comes ahead of `ServerRegResp`,
pings too; what was read after it stays in the buffer until `read_loop` gets more
data. A failure of either side ends the connection at any time.

## 3. Runs

| Run | Instance | Shows |
|---|---|---|
| `gateway` | 1 client, 2 backends that both bind and unbind it, the second may register the endpoint of the first, two loads | `OnlineReachesEveryBackend`, `ClientSeesRegistered`, `NoStaleInstanceEntry` |
| `gateway_live` | 1 client, 1 backend, fair | `UnauthenticatedClosed`, `CloseTakesEffect` |
| `rpc` | 3 calls, 2 ids, fair | `NoLeakedEntry`, `NoWaitAcrossDisconnect`, `OwnAnswer`, `EveryCallEnds` |
| `town` | 2 sessions, 2 players of whom one changes scenes, 1 task, fair | `SceneIdsSound`, `PlayerIndexAgrees`, `SessionIndexSound`, `TownFollowsGame` |
| `battle` | 3 sessions, 5 battle ids, 3 rooms, 2 seats, frame numbers modulo 2 | `RoutesAgree`, `CapacityKept`, `ManagerPresent`, `TickedRoomHasPlayers`, `InputOfOwnBattle` |
| `battle_process` | 2 signals, 2 packets on the way, fair | types, `EventOrder`, `HandleNotStale`, `EndsAfterClose`, `SignalWhileLooping`, `LossEnds`, refinement `ImplementsBattleRooms` |
| `frames` | 3 readers, lengths 1 to 5 around limits 3 and 4, a buffer of 3 bytes, 2 frames and a ping, 4 bytes in the kernels, fair | types, `RoomToRead`, `ClosesForCause`, `EveryFrameArrives`, refinement `ImplementsFrameQueue` |
| `game` | 2 sessions, one of which knows 2 accounts and challenges itself, 1 gateway event, fair | types, `StoppedTaskEnds` |
| `game_duel` | 2 sessions: a login, select, enter and join each, a duel between them, the second may log in to the first one's account; 2 battle servers and a town, 1 gateway event | `NothingLeftBehind`, `LastLoginOwns`, `OfflineWillFind` |
| `heartbeat` | 3 pings, 2 other frames, timeout 3, fair | `PingUnderway`, `AnsweredNotClosed`, `SilentPeerClosed` |

The type invariants that section 4 proves, and `OnlineOnItsWay`, the strengthening of
`OnlineReachesEveryBackend`, are proved and not checked again by the runs.

Two runs are expected to find a violation. Each states what a comment, a test or a
message of the repository says, and shows how the code departs from it:

| Run | Statement | What happens |
|---|---|---|
| `gateway_double_register` (`SingleRegistration`) | one registration per instance | check and insertion are separate |
| `battle_signal` (`SignalShutsDown`) | "Received signal {}, shutting down" (`battle/src/main.cpp` 15) | a signal handled before the event loop runs does not stop it: `stop()` returns early, or clears `m_running` while the idle service ignores the stop, and later signals return early too. `SignalWhileLooping` and `LossEnds` say what does hold |

The modules define further statements of this kind that fail in the models. They
have no run of their own; adding the definition to the configuration named here
gives the trace.

| Definition | Statement | What happens | Configuration |
|---|---|---|---|
| `Gateway!OfflineIsFinal` | a close is told to the backends (`gateway_internal.proto` 121) | the replay of a registration works on a snapshot and announces a closed session | `MCGateway` |
| `Gateway!FrameFollowsOnline` | a backend hears of a session before its frames (it drops frames of sessions it does not know) | a frame finds a registering backend in `conns` before the replay of the registration | `MCGateway` |
| `Gateway!OnlineOnce` | told once (`client_listener.rs` 532) | broadcast and replay both tell | `MCGatewayLive` |
| `Gateway!RegisteredPeersKnown` | instances are announced (`gateway_internal.proto` 129) | the broadcasts of two registrations fall into each other's blind spot | `MCGateway` |
| `Gateway!NotifiedBeforeUnbind` | notify, then unbind (`internal_listener.rs` 263) | a client bound in between is not told | `MCGatewayLive` with both backends |
| `Gateway!ClientSeesRegistered` without the conjunct of `Settled` on other connections | clients know the services (`client_listener.rs` 61) | a backend that comes back early: the old connection's offline push arrives last | `MCGateway` |
| `Gateway!CrossedRequestsSeen` | clients know the services (`client_listener.rs` 61) | the binding and the unbinding of one session by two backends overlap, and the status of the unbinding is sent last although the binding was stored last | `MCGateway` |
| `TownScene!StopLeavesScene` | a stop leaves the scene (`scene.rs` 459) | a player moved to a session that has another one already: the stop takes only the last | `MCTownScene` |
| `TownScene!ViewAgrees` | changes are broadcast (`client_town.proto` 15) | pushes of two tasks are swapped | `MCTownScene` with `t1` and `t2`, `Owner <- TaskOfEach` |
| `TownScene!NothingAfterShutdown` | `on_shutdown` is last (`delegate.rs` 54) | the dispatcher goes on | `MCTownScene` |
| `GameSessions!DisplacedIsKicked` | a displaced client is told (`client_game.proto` 282) | three logins at once: the first is not | `MCGameSessions`, without fairness, with three tasks and sessions, `SessionOf <- Three`, `Knows <- SameAccount`, `MaxFrames <- AllLogin`, `MaxEvents` 0 |
| `GameSessions!NotLeftOnDeadBattle` | told when the battle server goes (`client_game.proto` 292) | the bind is recorded after the offline push | `MCGameSessionsDuel` |
| `GameSessions!DuelLeavesTown` | both leave the town (`battle.rs` 358) | the challenger's record stays | `MCGameSessionsDuel` |
| `GameSessions!EndedLeavesBattle` | `on_stop` clears the session (`player/mod.rs` 88) | a duel stores the challenger's battle after that (`battle.rs` 354) | `MCGameSessionsDuel` |
| `GameSessions!RespawnKeepsLogin` | `on_stop` spares a newer login (`player/mod.rs` 97) | the replaced task has the same session id | `MCGameSessions`, without fairness, with one session, `SessionOf <- Respawned`, `Knows <- SameAccount`, `MaxFrames <- AllJoin`, `MaxEvents` 0 |
| `GameSessions!RespawnWillFind` | `OfflineWillFind`, for such sessions | the replaced task removes the place, the new one stores place and index, the replaced one clears the index | the same |

**Bounds.** Two backends that may register the same endpoint are what the
registration races need, and two that bind are what overlapping requests need; one
client suffices because handlers of different clients only meet at a backend's entry.
In `rpc` there is one call more than ids, so that ids collide with calls still pending;
the ids count as wrapped only when an id is handed out again, so two calls with ids of
their own are under way before that, and what the one is owed could reach the other.
Two players whom two sessions and two scenes compete for make evictions, moves and pushes
(`Visits` lets one of them move; `BothMove` passes as well, without liveness); five battle ids let one room be
created, refused and recreated at the limit. In `GameSessions`, `MaxFrames` bounds
the frames of each type per task, and `MaxEvents` the offline pushes and lost
connections; session stops are not bounded. In `game_duel` the challenger logs in,
selects, enters, joins and invites while the responder has its own way to the duel, so
both tasks bind the challenger, to two battle servers; either stops or is kicked at any
point of it. The two battle servers are interchangeable, hence the symmetry. `game`
is smaller since it is checked with liveness; it adds the duel with oneself. In `Heartbeat`
three pings give one ahead of the registration, one around it and one after a pong,
and two other frames put data before and behind a ping. In `BattleProcess` two
signals give one during the start and one in the loop, or a second after the first
has stopped the client; with two packets on the way one is left in the buffer when
the next phase runs. In `FrameStream` the receive buffer is smaller than the longest
frame and larger than a length field, as in the code (64 KiB, 1 MiB, 4 bytes), so a
packet is put together over several reads; two frames in flight let a read hold the
end of one and the start of the next. The properties that
section 4 names are proved without bounds. Deadlock is not
checked: every connection, call and task may end, and the system may stop.

**Fairness.** A tokio task that can run is polled, and a timer fires
(`WF` on the steps a task takes by itself); nothing is assumed of clients and
servers at the other end. In `Gateway` the close of a connection has strong
fairness: a queued Close competes with frames to read, and the session's select
serves both. Remote calls end because each has a timeout. In `BattleProcess` the
main thread runs, timers elapse and a query of a name returns; the gateway and the
network owe nothing, the connect timer covers them. In `FrameStream` both ends run and
the heartbeat goes on (sends its next ping, and times out over one that is pending);
sending and closing are free. A write to a socket is
assumed to end: a peer that keeps its window closed holds up the writer, and with it
a Close that waits in the queue.

## 4. Proofs

All theorems are about the specifications the runs check, for every value of the
constants that satisfies the modules' `ASSUME`s, without further hypotheses. Except
for liveness, every property of a passing run is stated by one of them.

* `GatewayProofs`: `TypeCorrect`, `OnlineIsOnItsWay`, `OnlineDelivered`,
  `InstanceIndexClean`. The property "the backend knows the
  session" is not inductive while the two handlers run. Its strengthening says that a
  backend that has not been told is still in the broadcast's `todo`, or its
  registration has not taken the snapshot, or the session is in the snapshot.
* `GatewayProofs`, what clients are shown: `ClientsSeeRegistered`, in the same manner.
  `StatusOnItsWay` says that an endpoint the client has not been shown is in the list
  of its status reply, in the push of the registration, or in the answer to a binding
  that a backend is still to get; `Recorded` that a delegate's `registered` is the
  entry in `conns`; `Requested` that between an unbinding and the push about it the
  session is not bound again, as long as the requests of two backends have not
  overlapped (`crossed`). For those that have it fails, and the property with it
  (`CrossedRequestsSeen`, section 3).
* `TownSceneProofs`: `TownSceneIds`, `TownPlayerIndex`, `TownSessionIndex`,
  `TownTypes`. The invariant is about the value of the manager and is kept by each
  of its operations; the tasks only pass results on.
* `BattleRoomsProofs`: `BattleRouting`, `BattleCapacity`, `BattleManagerPresent`,
  `BattleInputs`, `BattleNoDeadRoom`, `BattleTypes`. The loop over the players of a request is handled
  by lemmas about one addition, for at most two players. That a ticked room has
  players needs that a room without players has never been ticked and that the frame
  number of a room goes with it.
* `BattleProcessProofs`: `EventsInOrder`, `HandleAlwaysGood`, `LoopEndsAfterClose`,
  `ProcessTypeCorrect`, from one invariant `Connection`. The client lags behind the
  loop, so the invariant says for each state of channel and transport which events
  are queued and what the client has been told (`Lag`); that the timer, the socket and
  what was polled belong to the one attempt under way (`Attempt`); and what the
  client's state and handle may be after what it was told (`Belief`).
* `ProcessImplementsRooms`: `BattleProcess` implements the connection of
  `BattleRooms`; each of its actions is a step of `BattleRooms` or a stutter. It needs
  `Answers` besides: the gateway's answer to the registration is on the wire, in the
  buffer or queued at most once, and never once the client has given up; otherwise a
  packet handled late would register a client that has stopped.
* `FrameStreamProofs`: `FramesImplementQueue`, `FrameClosesForCause`,
  `FrameRoomToRead`, `FrameTypeCorrect`. The invariant lays the frames in flight on
  the bytes: there are positions `at` such that frame `j` is found in `buf \o wire`
  from `at[j]` on, byte by byte, beginning with the frame at the head of which `Taken`
  bytes have already gone into the packet, and ending where the sender has got. A
  length field is therefore read at a position `at[j]`, whatever the pieces, so no
  frame is taken for another. The lemmas state what reading, appending and removing
  bytes does to such a layout. Frames carry a number that no frame in flight has, which
  there is because at most `MaxFlight` frames and one ping are.
* `GameSessionsProofs`: `GameTypeCorrect`, `GameNothingLeft`, for any number of tasks
  of a session. The invariant `LeftToTasks`: a session in a table has a task that is
  not past the step of `on_stop` that takes it out, or its battle was stored late. It
  needs that the steps which write the town, the duels and the characters belong to the
  task's own session (`Whose`).
* `GameSessionsProofs`: `GameLastLoginOwns`, `GameOfflineWillFind`. The invariant:
  whoever logged in last is in `accounts` until its task is done (`OwnerHolds`), and a
  place is in its index unless a step under way is about to put it there or to drop it
  (`Findable`). Both leave out the sessions in `respawned`, for which both properties
  fail (`RespawnKeepsLogin`, `RespawnWillFind` in section 3); for all others `Alone`
  says that at most one of their tasks runs, whatever `SessionOf` is.
* `BackendRpcProofs`: `RpcNoLeak`, `RpcOwnAnswer`, `RpcDisconnectWakes`, `RpcTypes`.
  The invariant ties table and callers in both directions: what is in the table is
  the open sender of a call under way, and an open channel of such a call is in the
  table; so whoever removes an entry ends the wait. Slots that the clearing has
  passed have no waiting caller, since nobody starts to wait without a connection.
* `HeartbeatProofs`: `HeartbeatFair`, `HeartbeatTypes`, `HeartbeatPingUnderway`. The
  invariant: no frame on either way carries a nonce the heartbeat has not reached,
  and the pending ping is the last one and unanswered. The first part keeps a pong
  from answering a ping in advance, which the second part needs when the next ping is
  marked. For `PingUnderway` the stages of a frame are one sequence,
  `inbuf \o down \o buf \o queue`: flushing and reading leave it as it is, and until
  `register_stream` has read the `ServerRegResp`, that answer is in it ahead of every
  ping sent later, so none of those is ignored.

## 5. Only model-checked

Liveness under fairness (`UnauthenticatedClosed`, `CloseTakesEffect`,
`TownFollowsGame`, `EveryCallEnds`, `StoppedTaskEnds`,
`SilentPeerClosed`, `SignalWhileLooping`, `LossEnds`, `EveryFrameArrives`) is out of
the prover's reach. `ImplementsBattleRooms` and `ImplementsFrameQueue` are
refinements of the safety part: neither abstract specification states fairness.

## 6. Hazards

`PROJECT.json` lists them with their lines. Those no property covers are the ones
behind the failing statements of section 3, and the bounded mailbox. The models also
allow, without a statement against it: a battle created after its player's offline
push, a repeated battle id that is answered with the existing room and no actor, a room
that stays because none of its players could be seated, an offline handler that
removes a place on another instance, and leftovers of ended sessions in the game
server: an entry in the index of an instance, an invitation sent to the session, an
account it had logged in to before another one, the battle of a late duel. Of these
`NothingLeftBehind` names the last two. The rollback of a scene entry and the character
limit are part of the plan below.

## 7. Plan

1. `SessionMailbox` (`session.rs` 489-527): the bounded mailbox of a session and
   its refusals.
2. `ServerForward` (`internal_listener.rs` 624-696): calls between servers,
   composed with `BackendRpc`.
3. An abstract specification of "session presence" (a session is online at a
   backend from its announcement to its end) and a refinement of `Gateway` to it,
   with the exceptions that section 3 shows.
4. Composition of game, town and gateway for scene entry, rollback and leave.
5. Persistence: the character limit and the multi-statement updates.

## 8. Not modelled

Listeners and transports (TLS, WebSocket, KCP, QUIC, UDP of `game/base`), message
codecs and generated protocol code, configuration and logging, the fighting simulation
and its snapshots (numeric code on a vendored engine), the battle server's `RpcManager`
(nothing calls it), and SQL statements.

Most of the repository's C++ is vendored or generated: rapidjson, the protobuf
classes, and yasio. Of these only the part of yasio that the battle server's
connection runs through is modelled; the JSON library and the generated classes hold
no state of this system, and yasio's other protocols and server channels are never
used. The servers' own logic in C++ is `battle/src` without `protocol`, about 2300 lines; what
the models leave of it is the simulation, configuration, logging and `RpcManager`.
