----------------------------- MODULE TownScene -----------------------------
(***************************************************************************)
(* The town server: SceneManager behind one mutex, used by the server      *)
(* dispatcher (enter and leave requests of the game server, one at a time) *)
(* and by one task per client session (state pushes, and leave_session     *)
(* when the task stops).                                                   *)
(*                                                                         *)
(* The mutex is released before the pushes of an operation are sent, so    *)
(* the pushes of two tasks interleave.  seen is what the frames sent to a  *)
(* client amount to, in the order they were sent.                          *)
(***************************************************************************)
EXTENDS Integers

CONSTANTS
    Sessions,    \* client sessions
    Players,     \* player ids (account ids)
    Keys,        \* scene keys: a map or a home
    Visits,      \* the scenes each player is sent to
    States,      \* player states
    Tasks,       \* session tasks; a session replayed as online gets a new one
    Owner,       \* the session of each task
    Dispatcher,  \* the server dispatcher task
    None

\* struct Player
Seat == [session : Sessions, state : States]

ASSUME TownAssumptions ==
    /\ Owner \in [Tasks -> Sessions]
    /\ Visits \in [Players -> SUBSET Keys]
    /\ Dispatcher \notin Tasks
    /\ None \notin Sessions \cup Players \cup States \cup Tasks \cup Seat

VARIABLES
    mgr,        \* SceneManager
    current,    \* BackendSession.sessions: the task of each session
    cancelled,  \* tasks whose cancel token is set
    work,       \* where each session task is
    disp,       \* where the dispatcher is
    reply,      \* the response of the dispatcher that is not sent yet
    out,        \* pushes each task still has to send
    seen,       \* the players a client knows in its scene, and their states
    gw,         \* the gateway connection: on, lost (being handled), off
    token,      \* the shutdown token is cancelled
    phase,      \* BackendRuntime::shutdown
    awaited     \* tasks that hold a sender of shutdown_complete

taskVars == <<current, cancelled, work>>
dispVars == <<disp, reply>>
lifeVars == <<gw, token, phase, awaited>>
vars == <<mgr, taskVars, dispVars, out, seen, lifeVars>>

Senders == Tasks \cup {Dispatcher}
View == [Players -> States \cup {None}]
Push == [to : Sessions, kind : {"enter", "leave", "state"}, player : Players,
         state : States \cup {None}]
Reply == [to : Sessions, players : View]

EmptyScene == [p \in Players |-> None]

\* In a manager 0 stands for an absent scene id: next_scene_id is incremented before use.
EmptyManager ==
    [next |-> 0, byKey |-> [k \in Keys |-> 0],
     scenes |-> [i \in {} |-> EmptyScene],
     playerScenes |-> [p \in Players |-> 0],
     sessionPlayers |-> [s \in Sessions |-> None]]

ManagerOK(m) ==
    /\ m = [next |-> m.next, byKey |-> m.byKey, scenes |-> m.scenes,
            playerScenes |-> m.playerScenes, sessionPlayers |-> m.sessionPlayers]
    /\ m.next \in Nat
    /\ m.byKey \in [Keys -> 0..m.next]
    /\ DOMAIN m.scenes \subseteq 1..m.next
    /\ m.scenes \in [DOMAIN m.scenes -> [Players -> Seat \cup {None}]]
    /\ m.playerScenes \in [Players -> 0..m.next]
    /\ m.sessionPlayers \in [Sessions -> Players \cup {None}]

\* The type invariant: the tables of the manager, and where every task is.
TypeOK ==
    /\ ManagerOK(mgr)
    /\ current \in [Sessions -> Tasks \cup {None}]
    /\ cancelled \subseteq Tasks
    /\ work \in [Tasks -> {"none", "idle", "frame", "busy", "leaving", "stopped"}]
    /\ disp \in {"idle", "request", "busy", "exited"}
    /\ reply \in Reply \cup {None}
    /\ out \in [Senders -> SUBSET Push]
    /\ seen \in [Sessions -> View]
    /\ gw \in {"on", "lost", "off"}
    /\ token \in BOOLEAN
    /\ phase \in {"up", "waiting", "cleared", "exited"}
    /\ awaited \subseteq Tasks

Init ==
    /\ mgr = EmptyManager
    /\ current = [s \in Sessions |-> None]
    /\ cancelled = {}
    /\ work = [t \in Tasks |-> "none"]
    /\ disp = "idle"
    /\ reply = None
    /\ out = [t \in Senders |-> {}]
    /\ seen = [s \in Sessions |-> EmptyScene]
    /\ gw = "on"
    /\ token = FALSE
    /\ phase = "up"
    /\ awaited = {}

(***************************************************************************)
(* SceneManager: what each operation makes of a manager m.                 *)
(***************************************************************************)
\* Mutant: the id counter is read but not advanced.
EnsureScene_SameId(m, k) ==
    IF m.byKey[k] # 0 THEN m
    ELSE [m EXCEPT !.next = 1,
                   !.byKey[k] = 1,
                   !.scenes = [j \in DOMAIN m.scenes \cup {1} |->
                                  IF j = 1 THEN EmptyScene ELSE m.scenes[j]]]

EnsureScene(m, k) ==
    IF m.byKey[k] # 0 THEN m
    ELSE LET i == m.next + 1
         IN  [m EXCEPT !.next = i,
                       !.byKey[k] = i,
                       !.scenes = [j \in DOMAIN m.scenes \cup {i} |->
                                      IF j = i THEN EmptyScene ELSE m.scenes[j]]]

\* p has an entry in the scene player_scenes names.
Present(m, p) ==
    /\ m.playerScenes[p] \in DOMAIN m.scenes
    /\ m.scenes[m.playerScenes[p]][p] # None

\* Mutant: the entry in the scene stays.
RemovePlayer_StaysSeated(m, p) ==
    LET i == m.playerScenes[p]
    IN  IF ~Present(m, p) THEN m
        ELSE [m EXCEPT !.playerScenes[p] = 0,
                       !.sessionPlayers[m.scenes[i][p].session] = None]

RemovePlayer(m, p) ==
    LET i == m.playerScenes[p]
    IN  IF ~Present(m, p) THEN [m EXCEPT !.playerScenes[p] = 0]
        ELSE [m EXCEPT !.playerScenes[p] = 0,
                       !.scenes[i][p] = None,
                       !.sessionPlayers[m.scenes[i][p].session] = None]

\* The players of scene i, and the sessions the scene has recorded for them.
PlayersIn(m, i) == {p \in Players : m.scenes[i][p] # None}
Listeners(m, i, ps) == {m.scenes[i][p].session : p \in ps}

\* What enter_response lists.
Snapshot(m, i) ==
    [p \in Players |-> IF m.scenes[i][p] = None THEN None ELSE m.scenes[i][p].state]

Pushes(to, kind, p, x) ==
    {[to |-> s, kind |-> kind, player |-> p, state |-> x] : s \in to}

LeavePushes(m, p) ==
    IF ~Present(m, p) THEN {}
    ELSE LET i == m.playerScenes[p]
         IN  Pushes(Listeners(m, i, PlayersIn(m, i) \ {p}), "leave", p, None)

\* Everyone in scene i but session s hears of the new state of p.
StatePushes(m, i, s, p, x) ==
    Pushes(Listeners(m, i, PlayersIn(m, i)) \ {s}, "state", p, x)

\* The part of enter_scene that evicts the session's former player and the
\* player's former entry.
Evict(m, s, p) ==
    RemovePlayer(IF m.sessionPlayers[s] \in {None, p} THEN m
                 ELSE RemovePlayer(m, m.sessionPlayers[s]), p)

EvictPushes(m, s, p) ==
    IF m.sessionPlayers[s] \in {None, p} THEN LeavePushes(m, p)
    ELSE LeavePushes(m, m.sessionPlayers[s])
         \cup LeavePushes(RemovePlayer(m, m.sessionPlayers[s]), p)

SeatOf(s, x) == [session |-> s, state |-> x]

Seated(m, i, s, p, x) ==
    [next |-> m.next,
     byKey |-> m.byKey,
     scenes |-> [j \in DOMAIN m.scenes |->
                    IF j = i THEN [m.scenes[i] EXCEPT ![p] = SeatOf(s, x)] ELSE m.scenes[j]],
     playerScenes |-> [m.playerScenes EXCEPT ![p] = i],
     sessionPlayers |-> [m.sessionPlayers EXCEPT ![s] = p]]

\* Mutant: the index of the old session stays.
UpdatePlayer_KeepsOldSession(m, i, s, p, x) ==
    IF m.scenes[i][p] = None THEN m ELSE Seated(m, i, s, p, x)

\* update_player_in_scene: the entry changes hands; the session index of its
\* old session goes, whatever player the new session had before stays seated.
UpdatePlayer(m, i, s, p, x) ==
    IF m.scenes[i][p] = None THEN m
    ELSE Seated([m EXCEPT !.sessionPlayers[m.scenes[i][p].session] = None],
                i, s, p, x)

Cleared(m) == [EmptyManager EXCEPT !.next = m.next]

(***************************************************************************)
(* The server dispatcher.                                                  *)
(***************************************************************************)
\* biased select: no further request is taken once the token is cancelled.
TakeRequest ==
    /\ disp = "idle"
    /\ ~token
    /\ disp' = "request"
    /\ UNCHANGED <<mgr, taskVars, reply, out, seen, lifeVars>>

\* A request from another server, for an invalid scene or of an unknown type
\* only gets an error response.
RefuseRequest ==
    /\ disp = "request"
    /\ disp' = "busy"
    /\ UNCHANGED <<mgr, taskVars, reply, out, seen, lifeVars>>

EnterScene(s, p, k, x) ==
    LET m == EnsureScene(mgr, k)
        i == m.byKey[k]
    IN  /\ disp = "request"
        /\ disp' = "busy"
        /\ IF m.playerScenes[p] = i
           THEN /\ mgr' = UpdatePlayer(m, i, s, p, x)
                /\ out' = [out EXCEPT ![Dispatcher] = StatePushes(mgr', i, s, p, x)]
           ELSE LET e == Evict(m, s, p)
                IN  /\ mgr' = Seated(e, i, s, p, x)
                    /\ out' = [out EXCEPT ![Dispatcher] =
                            EvictPushes(m, s, p)
                            \cup Pushes(Listeners(e, i, PlayersIn(e, i)), "enter", p, x)]
        /\ reply' = [to |-> s, players |-> Snapshot(mgr', i)]
        /\ UNCHANGED <<taskVars, seen, lifeVars>>

\* A mismatch is refused (403), an unknown session is a success.
LeaveScene(s, p) ==
    /\ disp = "request"
    /\ disp' = "busy"
    /\ IF mgr.sessionPlayers[s] = p
       THEN /\ mgr' = RemovePlayer(mgr, p)
            /\ out' = [out EXCEPT ![Dispatcher] = LeavePushes(mgr, p)]
       ELSE UNCHANGED <<mgr, out>>
    /\ UNCHANGED <<taskVars, reply, seen, lifeVars>>

\* The response leaves after the pushes.
SendReply ==
    /\ disp = "busy"
    /\ out[Dispatcher] = {}
    /\ disp' = "idle"
    /\ reply' = None
    /\ seen' = IF reply # None /\ gw = "on"
               THEN [seen EXCEPT ![reply.to] = reply.players] ELSE seen
    /\ UNCHANGED <<mgr, taskVars, out, lifeVars>>

DispatcherExit ==
    /\ disp = "idle"
    /\ token
    /\ disp' = "exited"
    /\ UNCHANGED <<mgr, taskVars, reply, out, seen, lifeVars>>

(***************************************************************************)
(* send_pushes: first all enter, then all leave, then all state pushes.    *)
(***************************************************************************)
Rank(kind) == CASE kind = "enter" -> 1 [] kind = "leave" -> 2 [] kind = "state" -> 3

Told(v, push) ==
    CASE push.kind = "enter" -> [v EXCEPT ![push.player] = push.state]
      [] push.kind = "leave" -> [v EXCEPT ![push.player] = None]
      [] push.kind = "state" -> [v EXCEPT ![push.player] = IF @ = None THEN None ELSE push.state]

SendPush(t, push) ==
    /\ push \in out[t]
    /\ \A other \in out[t] : Rank(push.kind) <= Rank(other.kind)
    /\ out' = [out EXCEPT ![t] = @ \ {push}]
    /\ seen' = IF gw = "on" THEN [seen EXCEPT ![push.to] = Told(@, push)] ELSE seen
    /\ UNCHANGED <<mgr, taskVars, dispVars, lifeVars>>

(***************************************************************************)
(* Session tasks.                                                          *)
(***************************************************************************)
\* SessionOnlinePush: spawn_session takes the place of the session's old task.
SessionOnline(t) ==
    /\ gw = "on"
    /\ work[t] = "none"
    /\ work' = [work EXCEPT ![t] = "idle"]
    /\ cancelled' = cancelled \cup ({current[Owner[t]]} \ {None})
    /\ current' = [current EXCEPT ![Owner[t]] = t]
    /\ UNCHANGED <<mgr, dispVars, out, seen, lifeVars>>

SessionOffline(s) ==
    /\ gw = "on"
    /\ current[s] # None
    /\ cancelled' = cancelled \cup {current[s]}
    /\ current' = [current EXCEPT ![s] = None]
    /\ UNCHANGED <<mgr, work, dispVars, out, seen, lifeVars>>

TakeFrame(t) ==
    /\ work[t] = "idle"
    /\ t \notin cancelled
    /\ work' = [work EXCEPT ![t] = "frame"]
    /\ UNCHANGED <<mgr, current, cancelled, dispVars, out, seen, lifeVars>>

\* TownPlayerStatePush, ignored for a session without a player.
UpdateState(t, x) ==
    LET s == Owner[t]
        p == mgr.sessionPlayers[s]
        i == mgr.playerScenes[p]
    IN  /\ work[t] = "frame"
        /\ work' = [work EXCEPT ![t] = "busy"]
        /\ IF p # None /\ Present(mgr, p)
           THEN /\ mgr' = [mgr EXCEPT !.scenes[i][p].state = x]
                /\ out' = [out EXCEPT ![t] = StatePushes(mgr, i, s, p, x)]
           ELSE UNCHANGED <<mgr, out>>
        /\ UNCHANGED <<current, cancelled, dispVars, seen, lifeVars>>

FrameDone(t) ==
    /\ work[t] = "busy"
    /\ out[t] = {}
    /\ work' = [work EXCEPT ![t] = "idle"]
    /\ UNCHANGED <<mgr, current, cancelled, dispVars, out, seen, lifeVars>>

\* on_stop of a cancelled task.
LeaveSession(t) ==
    LET p == mgr.sessionPlayers[Owner[t]]
    IN  /\ work[t] = "idle"
        /\ t \in cancelled
        /\ work' = [work EXCEPT ![t] = "leaving"]
        /\ IF p # None
           THEN /\ mgr' = RemovePlayer(mgr, p)
                /\ out' = [out EXCEPT ![t] = LeavePushes(mgr, p)]
           ELSE UNCHANGED <<mgr, out>>
        /\ UNCHANGED <<current, cancelled, dispVars, seen, lifeVars>>

TaskStopped(t) ==
    /\ work[t] = "leaving"
    /\ out[t] = {}
    /\ work' = [work EXCEPT ![t] = "stopped"]
    /\ UNCHANGED <<mgr, current, cancelled, dispVars, out, seen, lifeVars>>

(***************************************************************************)
(* Shutdown: on the signal, when the game server goes offline, or when the *)
(* gateway connection is lost.                                             *)
(***************************************************************************)
StopAllSessions ==
    /\ cancelled' = cancelled \cup ({current[s] : s \in Sessions} \ {None})
    /\ current' = [s \in Sessions |-> None]

GameOffline ==
    /\ gw = "on"
    /\ ~token
    /\ token' = TRUE
    /\ UNCHANGED <<mgr, taskVars, dispVars, out, seen, gw, phase, awaited>>

\* The connection ended by itself or because of the token: on_disconnected.
Disconnected ==
    /\ gw = "on"
    /\ gw' = "lost"
    /\ mgr' = Cleared(mgr)
    /\ token' = TRUE
    /\ UNCHANGED <<taskVars, dispVars, out, seen, phase, awaited>>

\* Mutant: nothing is done about a disconnect once the shutdown has begun.
DropGateway_OnlyWhenUp ==
    /\ gw = "lost"
    /\ phase = "up"
    /\ gw' = "off"
    /\ StopAllSessions
    /\ UNCHANGED <<mgr, work, dispVars, out, seen, token, phase, awaited>>

\* on_gateway_disconnected: stop_all_sessions, clear_gateway_tx.
DropGateway ==
    /\ gw = "lost"
    /\ gw' = "off"
    /\ StopAllSessions
    /\ UNCHANGED <<mgr, work, dispVars, out, seen, token, phase, awaited>>

\* main leaves its select on the signal, at any time, or on the token.
BeginShutdown ==
    /\ phase = "up"
    /\ phase' = "waiting"
    /\ awaited' = {t \in Tasks : work[t] # "none"}
    /\ StopAllSessions
    /\ UNCHANGED <<mgr, work, dispVars, out, seen, gw, token>>

\* on_shutdown, when the session tasks have ended.  The tasks of the town
\* never wait, so SESSION_SHUTDOWN_TIMEOUT does not expire first; a session
\* announced after the shutdown began is not waited for.
OnShutdown ==
    /\ phase = "waiting"
    /\ \A t \in awaited : work[t] = "stopped"
    /\ phase' = "cleared"
    /\ mgr' = Cleared(mgr)
    /\ UNCHANGED <<taskVars, dispVars, out, seen, gw, token, awaited>>

CancelToken ==
    /\ phase = "cleared"
    /\ ~token
    /\ token' = TRUE
    /\ UNCHANGED <<mgr, taskVars, dispVars, out, seen, gw, phase, awaited>>

Exit ==
    /\ phase = "cleared"
    /\ token
    /\ gw = "off"
    /\ disp = "exited"
    /\ phase' = "exited"
    /\ UNCHANGED <<mgr, taskVars, dispVars, out, seen, gw, token, awaited>>

----------------------------------------------------------------------------
DispatcherStep ==
    \/ RefuseRequest
    \/ \E s \in Sessions, p \in Players :
          \/ \E k \in Visits[p], x \in States : EnterScene(s, p, k, x)
          \/ LeaveScene(s, p)
    \/ SendReply
    \/ \E push \in out[Dispatcher] : SendPush(Dispatcher, push)
    \/ DispatcherExit

TaskStep(t) ==
    \/ \E x \in States : UpdateState(t, x)
    \/ FrameDone(t)
    \/ LeaveSession(t)
    \/ TaskStopped(t)
    \/ \E push \in out[t] : SendPush(t, push)

\* What the gateway and the game server send.
Frame ==
    \/ TakeRequest
    \/ \E t \in Tasks : SessionOnline(t) \/ TakeFrame(t)
    \/ \E s \in Sessions : SessionOffline(s)
    \/ GameOffline

ShutdownStep == OnShutdown \/ CancelToken \/ Exit

Next ==
    \/ DispatcherStep
    \/ \E t \in Tasks : TaskStep(t)
    \/ Frame
    \/ Disconnected
    \/ DropGateway
    \/ BeginShutdown
    \/ ShutdownStep

Spec == Init /\ [][Next]_vars

\* The runtime polls every task; main and the gateway client notice the token.
Fairness ==
    /\ WF_vars(DispatcherStep)
    /\ \A t \in Tasks : WF_vars(TaskStep(t))
    /\ WF_vars(token /\ Disconnected)
    /\ WF_vars(DropGateway)
    /\ WF_vars(token /\ BeginShutdown)
    /\ WF_vars(ShutdownStep)

FairSpec == Spec /\ Fairness
----------------------------------------------------------------------------
(***************************************************************************)
(* Properties.                                                             *)
(***************************************************************************)
\* Every id in an index is the id of a scene; no two keys share a scene.
SceneIds(m) ==
    /\ \A k \in Keys : m.byKey[k] # 0 => m.byKey[k] \in DOMAIN m.scenes
    /\ \A k, l \in Keys : m.byKey[k] # 0 /\ m.byKey[k] = m.byKey[l] => k = l

\* player_scenes is the index of the players maps of the scenes.
PlayerIndex(m) ==
    /\ \A i \in DOMAIN m.scenes, p \in Players :
          m.scenes[i][p] # None <=> m.playerScenes[p] = i
    /\ \A p \in Players : m.playerScenes[p] # 0 =>
          m.playerScenes[p] \in DOMAIN m.scenes

\* session_players leads to a seat of that session.
SessionIndex(m) ==
    \A s \in Sessions :
        LET p == m.sessionPlayers[s]
            i == m.playerScenes[p]
        IN  p # None => /\ i \in DOMAIN m.scenes
                        /\ m.scenes[i][p] # None
                        /\ m.scenes[i][p].session = s

\* The expect() calls of enter_scene and enter_response never fail (a panic
\* would poison the mutex): an id that an index holds is the id of a scene,
\* and two keys never share a scene, also after clear().
SceneIdsSound == SceneIds(mgr)

\* player_scenes agrees with the scenes after any sequence of operations: a
\* player is in one scene at most, and in the one it is looked up in.
PlayerIndexAgrees == PlayerIndex(mgr)

\* session_players never leads to a player that is gone or that another
\* session has taken over: leave_session and update_state act on a player
\* of their own session only.
SessionIndexSound == SessionIndex(mgr)

\* When the game server goes offline, or the connection is lost, every part
\* of the town server comes to its end: sessions, dispatcher, gateway client.
TownFollowsGame == token ~> phase = "exited"

\* The statements below are made by comments and tests of the repository and
\* fail in the model.

\* "session stop leaves the scene": after on_stop no player is left under the
\* session.
StopLeavesScene ==
    [][\A t \in Tasks : LeaveSession(t) =>
          \A i \in DOMAIN mgr'.scenes, p \in Players :
              mgr'.scenes[i][p] # None => mgr'.scenes[i][p].session # Owner[t]]_vars

\* "town broadcasts the changes of the players to the clients of the scene":
\* when every push is sent, a client knows exactly the other players of its
\* scene, and their states.
ViewAgrees ==
    \A s \in Sessions :
        LET p == mgr.sessionPlayers[s]
        IN  /\ gw = "on" /\ p # None
            /\ disp = "idle"
            /\ \A t \in Senders : out[t] = {}
            => \A q \in Players \ {p} :
                   seen[s][q] = Snapshot(mgr, mgr.playerScenes[p])[q]

\* "on_shutdown runs when every session and the server_dispatcher have been
\* stopped": nobody enters a scene once it has cleared them.
NothingAfterShutdown ==
    phase = "cleared" => \A p \in Players : mgr.playerScenes[p] = 0
============================================================================
