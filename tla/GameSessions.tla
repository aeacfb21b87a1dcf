---------------------------- MODULE GameSessions ----------------------------
(***************************************************************************)
(* The game server: GameShared's tables of accounts, battles, towns and    *)
(* duels, each behind a mutex of its own, shared by one task per client    *)
(* session (PlayerSessionDelegate) and by the read loop of the gateway     *)
(* connection.  Every step takes one lock; whatever a handler does next it *)
(* does on what it read then.                                              *)
(*                                                                         *)
(* Remote calls and database queries are steps with a free outcome; one    *)
(* that fails where the handler just returns an error is a step the        *)
(* handler never takes.  Battle ids, characters and scenes are data.       *)
(***************************************************************************)
EXTENDS Naturals

CONSTANTS
    Tasks,      \* runs of PlayerSessionDelegate, each spawned at most once
    Sessions,   \* client session ids
    SessionOf,  \* the session each task is spawned for
    Accounts,
    Knows,      \* the accounts that the client of each task can log in to
    Insts,      \* instance ids of servers
    InstsOf,    \* those of the battle and those of the town servers
    MaxFrames,  \* bound: the frames of each type that each task handles
    MaxEvents,  \* bound: offline pushes of servers and lost connections
    None

Kinds == {"battle", "town"}

FrameTypes == {"login", "select", "enter", "join", "invite", "respond"}

ASSUME GameAssumptions ==
    /\ MaxFrames \in [Tasks -> [FrameTypes -> Nat]]
    /\ MaxEvents \in Nat
    /\ SessionOf \in [Tasks -> Sessions]
    /\ Knows \in [Tasks -> SUBSET Accounts]
    /\ InstsOf \in [Kinds -> SUBSET Insts]
    /\ None \notin Sessions \cup Accounts \cup Insts \cup Tasks

VARIABLES
    pc,         \* where each task is
    stop,       \* its cancel_token
    account,    \* its account_id
    chosen,     \* tasks with a selected_character
    who,        \* the session that its current operation is about
    inst,       \* the instance that it is about to bind
    old,        \* the instance that its last removal found
    duel,       \* the challenger, while it runs handle_duel_respond
    accounts,   \* account_sessions
    place,      \* battle_sessions and town_sessions: the instance
    index,      \* battle_instance_sessions and town_instance_sessions
    duels,      \* pending_duels: the target of each challenger
    selected,   \* selected_characters
    reader,     \* the read loop
    visits,     \* the sessions it still visits for an instance gone offline
    kicked,     \* sessions told that the account logged in elsewhere
    owner,      \* the task that was the last to log in (history)
    gone,       \* instances whose offline push was handled last
    frames,     \* the frames of each type that each task has handled
    events,     \* the offline pushes and lost connections so far
    clean,      \* duels whose challenger left the town with code 0
    respawned,  \* history: sessions that got a task while an older one ran
    late        \* history: sessions that a duel bound to a battle after their
                \* own on_stop had cleared it

task == <<stop, frames, account, chosen>>
held == <<who, inst, duel>>
tables == <<accounts, place, index, duels, selected>>
loop == <<reader, visits, gone, events>>
marks == <<clean, kicked, owner, respawned, late>>
vars == <<pc, task, held, old, tables, loop, marks>>

TaskPCs == {"none", "idle", "login", "owner", "wipeB", "wipeBI", "wipeT",
            "wipeTI", "wipeD", "wipeC", "kick", "logout", "done", "townGw",
            "townB", "townBI", "townIns", "townIdx", "battleGw", "battleB",
            "battleBI", "battleIns", "battleIdx", "invite", "respond",
            "create", "duelGw", "duelB", "duelBI", "duelIns", "duelIdx",
            "away", "awayU", "awayUI", "leave", "unbind", "unbindI", "end"}

ReaderPCs == {"idle", "offB", "offT", "wipeA", "wipeB", "wipeBI", "wipeT",
              "wipeTI", "stop"}

Init ==
    /\ pc = [t \in Tasks |-> "none"]
    /\ stop = [t \in Tasks |-> FALSE]
    /\ account = [t \in Tasks |-> None]
    /\ chosen = {}
    /\ who = [t \in Tasks |-> SessionOf[t]]
    /\ inst = [t \in Tasks |-> None]
    /\ old = [t \in Tasks |-> None]
    /\ duel = [t \in Tasks |-> None]
    /\ clean = {}
    /\ accounts = [a \in Accounts |-> None]
    /\ place = [k \in Kinds |-> [s \in Sessions |-> None]]
    /\ index = [k \in Kinds |-> [i \in Insts |-> {}]]
    /\ duels = [s \in Sessions |-> None]
    /\ selected = {}
    /\ reader = "idle"
    /\ visits = {}
    /\ gone = [k \in Kinds |-> {}]
    /\ frames = [t \in Tasks |-> [f \in FrameTypes |-> 0]]
    /\ events = 0
    /\ kicked = {}
    /\ owner = [a \in Accounts |-> None]
    /\ respawned = {}
    /\ late = {}

Goto(t, l) == pc' = [pc EXCEPT ![t] = l]

\* The handler goes on at l, or returns: then what it held is dropped.
GotoOrReturn(t, go, l) ==
    /\ Goto(t, IF go THEN l ELSE "idle")
    /\ who' = IF go THEN who ELSE [who EXCEPT ![t] = SessionOf[t]]
    /\ inst' = IF go THEN inst ELSE [inst EXCEPT ![t] = None]
    /\ duel' = IF go THEN duel ELSE [duel EXCEPT ![t] = None]

Return(t) == GotoOrReturn(t, FALSE, "idle")

Keep(f, t, v) == f' = [f EXCEPT ![t] = v]

\* A frame of type f is taken from the mailbox: the biased select looks at the
\* cancel token first.
Ready(t, f) ==
    /\ pc[t] = "idle"
    /\ ~stop[t]
    /\ frames[t][f] < MaxFrames[t][f]
    /\ frames' = [frames EXCEPT ![t][f] = @ + 1]

LoggedIn(s) == \E a \in Accounts : accounts[a] = s

----------------------------------------------------------------------------
(* The tables of places, one lock at a time *)

\* clear_battle_session and clear_town_session, the first lock.
RemovePlace(t, k, from, to) ==
    /\ pc[t] = from
    /\ Keep(old, t, place[k][who[t]])
    /\ place' = [place EXCEPT ![k][who[t]] = None]
    /\ Goto(t, to)
    /\ UNCHANGED <<task, held, accounts, index, duels, selected, loop, marks>>

\* The second lock; nothing to do when the first removal found nothing.
Unindex(t, k, from, to) ==
    /\ pc[t] = from
    /\ index' = IF old[t] = None THEN index
                ELSE [index EXCEPT ![k][old[t]] = @ \ {who[t]}]
    /\ Keep(old, t, None)
    /\ Goto(t, to)
    /\ UNCHANGED <<task, held, accounts, place, duels, selected, loop, marks>>

\* Task u is not running, or its on_stop is past the clearing of the battle.
BattleCleared(u) ==
    \/ pc[u] \in {"none", "logout", "done"}
    \/ /\ who[u] = SessionOf[u]
       /\ pc[u] \in {"wipeBI", "wipeT", "wipeTI", "wipeD", "wipeC"}

\* bind_battle_session and bind_town_session after the clearing.
InsertPlace(t, k, from, to) ==
    /\ pc[t] = from
    /\ place' = [place EXCEPT ![k][who[t]] = inst[t]]
    /\ late' = IF \A u \in Tasks : SessionOf[u] = who[t] => BattleCleared(u)
               THEN late \cup {who[t]} ELSE late
    /\ Goto(t, to)
    /\ UNCHANGED <<task, held, old, accounts, index, duels, selected, loop,
                   clean, kicked, owner, respawned>>

InsertIndex(t, k, from) ==
    /\ pc[t] = from
    /\ index' = [index EXCEPT ![k][inst[t]] = @ \cup {who[t]}]
    /\ UNCHANGED <<task, old, accounts, place, duels, selected, loop, marks>>

\* clear_session_runtime_state of who[t], by on_stop or by a later login.
WipePlaces(t) ==
    \/ RemovePlace(t, "battle", "wipeB", "wipeBI")
    \/ Unindex(t, "battle", "wipeBI", "wipeT")
    \/ RemovePlace(t, "town", "wipeT", "wipeTI")
    \/ Unindex(t, "town", "wipeTI", "wipeD")

\* Mutant: only the invitations that the session received are removed.
WipeDuels_Received(t) ==
    /\ pc[t] = "wipeD"
    /\ duels' = [s \in Sessions |->
                    IF duels[s] = who[t] THEN None ELSE duels[s]]
    /\ Goto(t, "wipeC")
    /\ UNCHANGED <<task, held, old, accounts, place, index, selected, loop,
                   marks>>

\* remove_pending_duels_for_session.
WipeDuels(t) ==
    /\ pc[t] = "wipeD"
    /\ duels' = [s \in Sessions |->
                    IF who[t] \in {s, duels[s]} THEN None ELSE duels[s]]
    /\ Goto(t, "wipeC")
    /\ UNCHANGED <<task, held, old, accounts, place, index, selected, loop,
                   marks>>

\* The cached character; on_stop goes on with the account, a login with the
\* kick.
WipeCharacter(t) ==
    /\ pc[t] = "wipeC"
    /\ selected' = selected \ {who[t]}
    /\ Goto(t, IF who[t] = SessionOf[t] THEN "logout" ELSE "kick")
    /\ UNCHANGED <<task, held, old, accounts, place, index, duels, loop,
                   marks>>

----------------------------------------------------------------------------
(* Sessions and accounts *)

\* SessionOnlinePush: spawn_session cancels an older task of the session.
Spawn(t) ==
    /\ reader = "idle"
    /\ pc[t] = "none"
    /\ Goto(t, "idle")
    /\ stop' = [u \in Tasks |->
                   stop[u] \/ (pc[u] # "none" /\ SessionOf[u] = SessionOf[t])]
    /\ respawned' =
           IF \E u \in Tasks : /\ SessionOf[u] = SessionOf[t]
                               /\ pc[u] \notin {"none", "done"}
           THEN respawned \cup {SessionOf[t]} ELSE respawned
    /\ UNCHANGED <<frames, account, chosen, held, old, tables, loop, clean,
                   kicked, owner, late>>

\* SessionOfflinePush.
StopSession(s) ==
    /\ reader = "idle"
    /\ \E t \in Tasks : SessionOf[t] = s /\ pc[t] # "none" /\ ~stop[t]
    /\ stop' = [u \in Tasks |->
                   stop[u] \/ (pc[u] # "none" /\ SessionOf[u] = s)]
    /\ UNCHANGED <<pc, frames, account, chosen, held, old, tables, loop, marks>>

\* Mutant: a session without a login is not stopped.
OnStop_NeedsLogin(t) ==
    /\ pc[t] = "idle"
    /\ stop[t]
    /\ account[t] # None
    /\ Keep(who, t, SessionOf[t])
    /\ Goto(t, "wipeB")
    /\ UNCHANGED <<task, inst, duel, old, tables, loop, marks>>

\* The task sees the cancel token between two frames: on_stop.
OnStop(t) ==
    /\ pc[t] = "idle"
    /\ stop[t]
    /\ Keep(who, t, SessionOf[t])
    /\ Goto(t, "wipeB")
    /\ UNCHANGED <<task, inst, duel, old, tables, loop, marks>>

\* Mutant: the account is removed whoever holds it now.
Logout_AnyHolder(t) ==
    /\ pc[t] = "logout"
    /\ accounts' = IF account[t] = None THEN accounts
                   ELSE [accounts EXCEPT ![account[t]] = None]
    /\ Goto(t, "done")
    /\ UNCHANGED <<task, held, old, place, index, duels, selected, loop,
                   marks>>

\* on_stop removes the account only while this session holds it.
Logout(t) ==
    /\ pc[t] = "logout"
    /\ accounts' = IF account[t] # None /\ accounts[account[t]] = SessionOf[t]
                   THEN [accounts EXCEPT ![account[t]] = None] ELSE accounts
    /\ Goto(t, "done")
    /\ UNCHANGED <<task, held, old, place, index, duels, selected, loop,
                   marks>>

\* handle_login with the right password.
Login(t, a) ==
    /\ Ready(t, "login")
    /\ a \in Knows[t]
    /\ Keep(account, t, a)
    /\ chosen' = chosen \ {t}
    /\ Goto(t, "login")
    /\ UNCHANGED <<stop, held, old, tables, loop, marks>>

\* Mutant: the account is stored where its session belongs.
BindAccount_Swapped(t) ==
    LET a == account[t]
        displaced == accounts[a] \notin {None, SessionOf[t]}
    IN /\ pc[t] = "login"
       /\ accounts' = [accounts EXCEPT ![a] = a]
       /\ owner' = [owner EXCEPT ![a] = t]
       /\ Keep(who, t, IF displaced THEN accounts[a] ELSE SessionOf[t])
       /\ Goto(t, IF displaced THEN "owner" ELSE "idle")
       /\ UNCHANGED <<task, inst, duel, old, place, index, duels, selected,
                      loop, clean, kicked, respawned, late>>

\* bind_account, the insertion.
BindAccount(t) ==
    LET a == account[t]
        displaced == accounts[a] \notin {None, SessionOf[t]}
    IN /\ pc[t] = "login"
       /\ accounts' = [accounts EXCEPT ![a] = SessionOf[t]]
       /\ owner' = [owner EXCEPT ![a] = t]
       /\ Keep(who, t, IF displaced THEN accounts[a] ELSE SessionOf[t])
       /\ Goto(t, IF displaced THEN "owner" ELSE "idle")
       /\ UNCHANGED <<task, inst, duel, old, place, index, duels, selected,
                      loop, clean, kicked, respawned, late>>

\* bind_account, still_owner: a login that was displaced itself kicks nobody.
StillOwner(t) ==
    /\ pc[t] = "owner"
    /\ GotoOrReturn(t, accounts[account[t]] = SessionOf[t], "wipeB")
    /\ UNCHANGED <<task, old, tables, loop, marks>>

\* AccountKickedPush and KickSessionReq.
Kick(t) ==
    /\ pc[t] = "kick"
    /\ kicked' = kicked \cup {who[t]}
    /\ Return(t)
    /\ UNCHANGED <<task, old, tables, loop, clean, owner, respawned, late>>

\* handle_select_character, for a character of the account.
SelectCharacter(t) ==
    /\ Ready(t, "select")
    /\ account[t] # None
    /\ chosen' = chosen \cup {t}
    /\ selected' = selected \cup {SessionOf[t]}
    /\ UNCHANGED <<pc, stop, account, held, old, accounts, place, index,
                   duels, loop, marks>>

----------------------------------------------------------------------------
(* The town *)

\* handle_enter_scene: the town of the session, or any, lets the player in.
EnterScene(t, i) ==
    LET s == SessionOf[t]
    IN /\ Ready(t, "enter")
       /\ account[t] # None
       /\ place["town"][s] \in {None, i}
       /\ i \notin gone["town"]
       /\ Keep(who, t, s)
       /\ Keep(inst, t, i)
       /\ Goto(t, "townGw")
       /\ UNCHANGED <<stop, account, chosen, duel, old, tables, loop, marks>>

\* The gateway binds the session to the town, or the enter is rolled back in
\* the town; the tables of the game are left alone then.
TownGateway(t, ok) ==
    /\ pc[t] = "townGw"
    /\ ok => inst[t] \notin gone["town"]
    /\ GotoOrReturn(t, ok, "townB")
    /\ UNCHANGED <<task, old, tables, loop, marks>>

BindTown(t) ==
    \/ RemovePlace(t, "town", "townB", "townBI")
    \/ Unindex(t, "town", "townBI", "townIns")
    \/ InsertPlace(t, "town", "townIns", "townIdx")
    \/ InsertIndex(t, "town", "townIdx") /\ Return(t)

\* leave_town_scene of the task's own session: the end of a join or of a duel.
LeaveTown(t, from, go, skip, ok) ==
    LET there == account[t] # None /\ place["town"][SessionOf[t]] # None
    IN /\ pc[t] = from
       /\ ok => there
       /\ Keep(who, t, SessionOf[t])
       /\ Goto(t, IF ok THEN go ELSE skip)
       /\ UNCHANGED <<task, inst, duel, old, tables, loop, marks>>

\* The town let the player go; whatever the gateway says to the unbinding, the
\* town is cleared.
UnbindTown(t, from, from2, to) ==
    \/ RemovePlace(t, "town", from, from2)
    \/ Unindex(t, "town", from2, to)

----------------------------------------------------------------------------
(* Battles and duels *)

\* handle_battle_join: a battle server creates the battle.
BattleJoin(t, i) ==
    /\ Ready(t, "join")
    /\ account[t] # None
    /\ t \in chosen
    /\ i \notin gone["battle"]
    /\ Keep(who, t, SessionOf[t])
    /\ Keep(inst, t, i)
    /\ Goto(t, "battleGw")
    /\ UNCHANGED <<stop, account, chosen, duel, old, tables, loop, marks>>

\* The gateway binds who[t] to the battle server; a refusal ends the join or
\* the duel, and what was bound before stays.
BattleGateway(t, from, to, ok) ==
    /\ pc[t] = from
    /\ ok => inst[t] \notin gone["battle"]
    /\ GotoOrReturn(t, ok, to)
    /\ UNCHANGED <<task, old, tables, loop, marks>>

\* The battle of the task's own session: a join, or the second half of a duel.
BindBattle(t) ==
    \/ RemovePlace(t, "battle", "battleB", "battleBI")
    \/ Unindex(t, "battle", "battleBI", "battleIns")
    \/ InsertPlace(t, "battle", "battleIns", "battleIdx")
    \/ /\ InsertIndex(t, "battle", "battleIdx")
       /\ Goto(t, IF duel[t] = None THEN "leave" ELSE "away")
       /\ UNCHANGED held

\* Mutant: the index of the instance left is cleared last.
BindChallenger_ClearsLast(t) ==
    \/ RemovePlace(t, "battle", "duelB", "duelIns")
    \/ InsertPlace(t, "battle", "duelIns", "duelIdx")
    \/ /\ InsertIndex(t, "battle", "duelIdx")
       /\ Goto(t, "duelBI")
       /\ UNCHANGED held
    \/ Unindex(t, "battle", "duelBI", "battleGw")

\* The first half of a duel: the responder's task binds the challenger.
BindChallenger(t) ==
    \/ RemovePlace(t, "battle", "duelB", "duelBI")
    \/ Unindex(t, "battle", "duelBI", "duelIns")
    \/ InsertPlace(t, "battle", "duelIns", "duelIdx")
    \/ /\ InsertIndex(t, "battle", "duelIdx")
       /\ Keep(who, t, SessionOf[t])
       /\ Goto(t, "battleGw")
       /\ UNCHANGED <<inst, duel>>

\* handle_duel_invite, the lookup and the checks.
DuelInvite(t, a) ==
    LET s == SessionOf[t]
        target == accounts[a]
    IN /\ Ready(t, "invite")
       /\ account[t] \notin {None, a}
       /\ t \in chosen
       /\ target # None
       /\ \A x \in {s, target} :
             place["battle"][x] = None /\ place["town"][x] # None
       /\ duels[s] = None
       /\ Keep(who, t, target)
       /\ Goto(t, "invite")
       /\ UNCHANGED <<stop, account, chosen, inst, duel, old, tables, loop,
                      marks>>

\* add_pending_duel and the push to the target.
AddPendingDuel(t) ==
    /\ pc[t] = "invite"
    /\ duels' = [duels EXCEPT ![SessionOf[t]] = who[t]]
    /\ Return(t)
    /\ UNCHANGED <<task, old, accounts, place, index, selected, loop, marks>>

\* handle_duel_respond: some invitation of the session is found ...
DuelRespond(t, c) ==
    /\ Ready(t, "respond")
    /\ duels[c] = SessionOf[t]
    /\ Keep(duel, t, c)
    /\ Goto(t, "respond")
    /\ UNCHANGED <<stop, account, chosen, who, inst, old, tables, loop, marks>>

\* ... and removed, whatever the challenger has pending by now; the duel is
\* refused, or goes on if both have a character.
RemovePendingDuel(t, accept) ==
    LET c == duel[t]
        fit == /\ t \in chosen
               /\ c = SessionOf[t] \/ c \in selected
    IN /\ pc[t] = "respond"
       /\ duels' = [duels EXCEPT ![c] = None]
       /\ accept => fit
       /\ GotoOrReturn(t, accept, "create")
       /\ UNCHANGED <<task, old, accounts, place, index, selected, loop,
                      marks>>

\* start_duel_battle: a battle server creates the battle of both.
CreateDuel(t, i) ==
    /\ pc[t] = "create"
    /\ i \notin gone["battle"]
    /\ Keep(who, t, duel[t])
    /\ Keep(inst, t, i)
    /\ Goto(t, "duelGw")
    /\ UNCHANGED <<task, duel, old, tables, loop, marks>>

\* The battle server is not available.
CreateFails(t) ==
    /\ pc[t] = "create"
    /\ Return(t)
    /\ UNCHANGED <<task, old, tables, loop, marks>>

\* leave_town_for_session of the challenger: the town is asked, and that is
\* all; its answer (ok) is only logged.  A challenger that is the responder
\* itself (a session that went on to a second account) leaves as the responder.
LeaveTownFor(t, ok) ==
    LET c == duel[t]
        asks == place["town"][c] # None /\ LoggedIn(c)
    IN /\ pc[t] = "away"
       /\ c # SessionOf[t]
       /\ ok => asks
       /\ clean' = IF ok THEN clean \cup {t} ELSE clean
       /\ Goto(t, "leave")
       /\ UNCHANGED <<task, held, old, tables, loop, kicked, owner, respawned,
                      late>>

\* The reply of the join, or the DuelStartPush to both.
EndBattle(t) ==
    /\ pc[t] = "end"
    /\ clean' = clean \ {t}
    /\ Return(t)
    /\ UNCHANGED <<task, old, tables, loop, kicked, owner, respawned, late>>

----------------------------------------------------------------------------
(* The read loop *)

OfflinePC(k) == IF k = "battle" THEN "offB" ELSE "offT"

\* handle_battle_server_offline and handle_town_server_offline: the index entry
\* is taken out ...
ServerOffline(k, i) ==
    /\ reader = "idle"
    /\ i \notin gone[k]
    /\ events < MaxEvents
    /\ events' = events + 1
    /\ gone' = [gone EXCEPT ![k] = @ \cup {i}]
    /\ visits' = index[k][i]
    /\ index' = [index EXCEPT ![k][i] = {}]
    /\ reader' = OfflinePC(k)
    /\ UNCHANGED <<pc, task, held, old, accounts, place, duels, selected,
                   marks>>

\* ... and every session in it loses its place, wherever that is by now.
VisitSession(k, s) ==
    /\ reader = OfflinePC(k)
    /\ s \in visits
    /\ visits' = visits \ {s}
    /\ place' = [place EXCEPT ![k][s] = None]
    /\ UNCHANGED <<pc, task, held, old, accounts, index, duels, selected,
                   reader, gone, events, marks>>

OfflineDone(k) ==
    /\ reader = OfflinePC(k)
    /\ visits = {}
    /\ reader' = "idle"
    /\ UNCHANGED <<pc, task, held, old, tables, visits, gone, events, marks>>

\* The instance registers again; nothing in the game server happens.
ServerOnline(k, i) ==
    /\ reader = "idle"
    /\ i \in gone[k]
    /\ gone' = [gone EXCEPT ![k] = @ \ {i}]
    /\ UNCHANGED <<pc, task, held, old, tables, reader, visits, events, marks>>

\* on_disconnected: clear_all_runtime_state, table by table; the pending duels
\* and the selected characters are left to the tasks.
WipeAccounts ==
    /\ reader = "wipeA"
    /\ reader' = "wipeB"
    /\ accounts' = [a \in Accounts |-> None]
    /\ owner' = [a \in Accounts |-> None]
    /\ UNCHANGED <<pc, task, held, old, place, index, duels, selected,
                   visits, gone, events, clean, kicked, respawned, late>>

WipePlace(k, from, to) ==
    /\ reader = from
    /\ reader' = to
    /\ place' = [place EXCEPT ![k] = [s \in Sessions |-> None]]
    /\ UNCHANGED <<pc, task, held, old, accounts, index, duels, selected,
                   visits, gone, events, marks>>

WipeIndex(k, from, to) ==
    /\ reader = from
    /\ reader' = to
    /\ index' = [index EXCEPT ![k] = [i \in Insts |-> {}]]
    /\ UNCHANGED <<pc, task, held, old, accounts, place, duels, selected,
                   visits, gone, events, marks>>

Disconnected ==
    /\ reader = "idle"
    /\ events < MaxEvents
    /\ events' = events + 1
    /\ reader' = "wipeA"
    /\ UNCHANGED <<pc, task, held, old, tables, visits, gone, marks>>

\* stop_all_sessions; afterwards the connection may come back.
StopAllSessions ==
    /\ reader = "stop"
    /\ reader' = "idle"
    /\ stop' = [t \in Tasks |-> pc[t] # "none"]
    /\ UNCHANGED <<pc, frames, account, chosen, held, old, tables, visits,
                   gone, events, marks>>

----------------------------------------------------------------------------
TaskStep(t) ==
    \/ WipePlaces(t)
    \/ WipeDuels(t)
    \/ WipeCharacter(t)
    \/ OnStop(t)
    \/ Logout(t)
    \/ BindAccount(t)
    \/ StillOwner(t)
    \/ Kick(t)
    \/ \E ok \in BOOLEAN : TownGateway(t, ok)
    \/ BindTown(t)
    \/ \E ok \in BOOLEAN : LeaveTown(t, "leave", "unbind", "end", ok)
    \/ UnbindTown(t, "unbind", "unbindI", "end")
    \/ \E ok \in BOOLEAN : BattleGateway(t, "battleGw", "battleB", ok)
    \/ BindBattle(t)
    \/ AddPendingDuel(t)
    \/ \E accept \in BOOLEAN : RemovePendingDuel(t, accept)
    \/ \E i \in InstsOf["battle"] : CreateDuel(t, i)
    \/ CreateFails(t)
    \/ \E ok \in BOOLEAN : BattleGateway(t, "duelGw", "duelB", ok)
    \/ BindChallenger(t)
    \/ \E ok \in BOOLEAN : LeaveTownFor(t, ok)
    \/ /\ duel[t] = SessionOf[t]
       /\ \E ok \in BOOLEAN : LeaveTown(t, "away", "awayU", "leave", ok)
    \/ UnbindTown(t, "awayU", "awayUI", "leave")
    \/ EndBattle(t)

ClientRequest(t) ==
    \/ \E a \in Accounts : Login(t, a) \/ DuelInvite(t, a)
    \/ SelectCharacter(t)
    \/ \E i \in InstsOf["town"] : EnterScene(t, i)
    \/ \E i \in InstsOf["battle"] : BattleJoin(t, i)
    \/ \E c \in Sessions : DuelRespond(t, c)

ReaderStep ==
    \/ \E k \in Kinds : OfflineDone(k) \/ \E s \in Sessions : VisitSession(k, s)
    \/ WipeAccounts
    \/ WipePlace("battle", "wipeB", "wipeBI")
    \/ WipeIndex("battle", "wipeBI", "wipeT")
    \/ WipePlace("town", "wipeT", "wipeTI")
    \/ WipeIndex("town", "wipeTI", "stop")
    \/ StopAllSessions

GatewayInput ==
    \/ \E t \in Tasks : Spawn(t)
    \/ \E s \in Sessions : StopSession(s)
    \/ \E k \in Kinds : \E i \in InstsOf[k] :
          ServerOffline(k, i) \/ ServerOnline(k, i)
    \/ Disconnected

Next ==
    \/ \E t \in Tasks : TaskStep(t) \/ ClientRequest(t)
    \/ ReaderStep
    \/ GatewayInput

Spec == Init /\ [][Next]_vars

\* Tasks and read loop are polled; calls and queries end or time out.
Fairness == WF_vars(ReaderStep) /\ \A t \in Tasks : WF_vars(TaskStep(t))

FairSpec == Spec /\ Fairness

----------------------------------------------------------------------------
(* Properties *)

\* The type invariant.
TypeOK ==
    /\ pc \in [Tasks -> TaskPCs]
    /\ stop \in [Tasks -> BOOLEAN]
    /\ account \in [Tasks -> Accounts \cup {None}]
    /\ chosen \subseteq Tasks
    /\ who \in [Tasks -> Sessions]
    /\ inst \in [Tasks -> Insts \cup {None}]
    /\ old \in [Tasks -> Insts \cup {None}]
    /\ duel \in [Tasks -> Sessions \cup {None}]
    /\ clean \subseteq Tasks
    /\ accounts \in [Accounts -> Sessions \cup {None}]
    /\ place \in [Kinds -> [Sessions -> Insts \cup {None}]]
    /\ index \in [Kinds -> [Insts -> SUBSET Sessions]]
    /\ duels \in [Sessions -> Sessions \cup {None}]
    /\ selected \subseteq Sessions
    /\ reader \in ReaderPCs
    /\ visits \subseteq Sessions
    /\ gone \in [Kinds -> SUBSET Insts]
    /\ frames \in [Tasks -> [FrameTypes -> Nat]]
    /\ \A t \in Tasks, f \in FrameTypes : frames[t][f] <= MaxFrames[t][f]
    /\ events \in 0..MaxEvents
    /\ kicked \subseteq Sessions
    /\ owner \in [Accounts -> Tasks \cup {None}]
    /\ respawned \subseteq Sessions
    /\ late \subseteq Sessions

\* A session whose tasks have ended leaves nothing behind in the tables: no
\* town, no battle, no invitation sent out, no cached character and no account,
\* though a disconnect, a kick, an offline server and duels of others write the
\* same tables while its on_stop runs.  Two entries do stay: the battle that a
\* duel binds it to after on_stop has cleared its battle (late), and an account
\* it had logged in to before it went on to another one.
NothingLeftBehind ==
    \A s \in Sessions :
        (\A t \in Tasks : SessionOf[t] = s => pc[t] \in {"none", "done"}) =>
            /\ place["town"][s] = None
            /\ place["battle"][s] = None \/ s \in late
            /\ duels[s] = None
            /\ s \notin selected
            /\ \A a \in Accounts : accounts[a] = s =>
                   \E t \in Tasks : SessionOf[t] = s /\ account[t] \notin {None, a}

\* Task t is the last that has logged in to a, has gone on to no other account
\* and has not ended.
HoldsLogin(t, a) == t # None /\ account[t] = a /\ pc[t] # "done"

\* The last login to an account keeps it as long as its session runs: neither
\* on_stop of the displaced session nor a kick takes it away.  A session whose
\* task was replaced while it ran is left out: on_stop of the replaced task
\* does take the account away (RespawnKeepsLogin).
LastLoginOwns ==
    \A a \in Accounts : LET t == owner[a] IN
        HoldsLogin(t, a) /\ SessionOf[t] \notin respawned
        => accounts[a] = SessionOf[t]

\* The session s is being bound, or cleared, by some task.
Moving(s) ==
    \/ reader # "idle"
    \/ \E t \in Tasks : who[t] = s /\ pc[t] \notin {"none", "idle", "done"}

\* The session s is placed, its task waits for a frame, and no task moves it.
AtRest(s, k) ==
    /\ ~Moving(s)
    /\ place[k][s] # None
    /\ \E t \in Tasks : SessionOf[t] = s /\ pc[t] = "idle" /\ ~stop[t]

\* A session at rest that the game server has placed on an instance is in the
\* index of that instance, so that the instance's offline push will find it:
\* the two tables are kept by two locks, and its own task and the one that
\* responds to its duel may bind it at the same time.  Left out are sessions
\* that some task clears while another may bind them, from the first lock to
\* the second: a kicked one (the gateway was told to close it), one whose task
\* was replaced while it ran, and one bound by a duel after its on_stop.
OfflineWillFind ==
    \A s \in Sessions, k \in Kinds :
        AtRest(s, k) /\ s \notin kicked \cup respawned \cup late
        => s \in index[k][place[k][s]]

\* A cancelled session's task ends.
StoppedTaskEnds == \A t \in Tasks : stop[t] ~> pc[t] = "done"

\* "the account logged in elsewhere, the server notifies the current client":
\* once all logins are over, a session that lost its account was told.
DisplacedIsKicked ==
    \A t \in Tasks :
        LET a == account[t]
        IN /\ pc[t] = "idle" /\ ~stop[t] /\ a # None
           /\ accounts[a] \notin {None, SessionOf[t]}
           /\ \A u \in Tasks : account[u] = a => pc[u] \in {"idle", "done"}
           => SessionOf[t] \in kicked

\* "pushed to the client when the battle server it is on goes offline": a
\* session is not left on a battle server whose offline push was handled.
NotLeftOnDeadBattle ==
    \A s \in Sessions :
        ~Moving(s) => place["battle"][s] \notin gone["battle"]

\* "both sides leave the town": when a duel starts and the town let the
\* challenger go, the challenger is not recorded in the town any more.
DuelLeavesTown ==
    \A t \in clean : pc[t] = "end" => place["town"][duel[t]] = None

\* "only the session that still holds the account removes it, so that a new
\* session that has logged in is not overwritten", with a session whose task
\* was replaced.
RespawnKeepsLogin ==
    \A a \in Accounts :
        HoldsLogin(owner[a], a) => accounts[a] = SessionOf[owner[a]]

\* OfflineWillFind with a session whose task was replaced: the old task removes
\* the place, the new one inserts both entries, the old one clears the index.
RespawnWillFind ==
    \A s \in Sessions, k \in Kinds :
        AtRest(s, k) /\ s \notin kicked => s \in index[k][place[k][s]]

\* "session disconnected, clearing": a session whose tasks have ended is in no
\* battle, with duels that bind it too late.
EndedLeavesBattle ==
    \A s \in Sessions :
        (\A t \in Tasks : SessionOf[t] = s => pc[t] \in {"none", "done"})
        => place["battle"][s] = None

=============================================================================
