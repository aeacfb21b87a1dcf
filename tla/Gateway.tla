------------------------------ MODULE Gateway ------------------------------
(***************************************************************************)
(* The gateway process: SessionManager, ServerRegistry, Router and         *)
(* BindManager, driven by one task per client connection                   *)
(* (ClientDelegate) and one task per backend connection                    *)
(* (InternalDelegate).                                                     *)
(*                                                                         *)
(* The tasks run on several threads and share DashMaps without a common    *)
(* lock, so a handler is NOT atomic: it is a sequence of map operations    *)
(* and channel sends, and the tasks interleave between any two of them.    *)
(* Every task has a program counter pc; "idle" is the point where it       *)
(* waits for its next frame.  Iterating over a DashMap visits every key    *)
(* slot once, in any order, and sees the entry only if it is there at that *)
(* moment: todo holds the slots (or the collected keys) still to visit.    *)
(*                                                                         *)
(* Writer queues are unbounded FIFOs, so what a peer ends up believing is  *)
(* fixed by the order of the sends.  The queues are therefore kept as that *)
(* belief: told (client sessions a backend believes online), peers         *)
(* (endpoints last announced online to a backend) and shown (endpoints     *)
(* last announced online to a client).                                     *)
(***************************************************************************)
EXTENDS Integers, FiniteSets

CONSTANTS
    Clients,        \* client connections, named by their session id
    Conns,          \* backend connections, named by their session id
    Services,       \* service ids (game, battle, town)
    Instances,      \* instance ids
    BoundServices,  \* services whose route has require_binding = true
    Requesters,     \* connections that send bind, unbind and kick requests
    RegReqs,        \* RegReqs[d]: endpoints that d may ask to register as
    Loads,          \* loads a backend may report
    None            \* an absent map entry

Endpoints == Services \X Instances
Tasks == Clients \cup Conns

\* create_session_id numbers both listeners from one counter, so the ids of
\* clients and backends never meet.
ASSUME GatewayAssumptions ==
    /\ Clients \cap Conns = {}
    /\ Instances \subseteq Nat
    /\ BoundServices \subseteq Services
    /\ Requesters \subseteq Conns
    /\ RegReqs \in [Conns -> SUBSET Endpoints]
    /\ Loads \subseteq [score : Nat, accepting : BOOLEAN]
    /\ None \notin Clients \cup Conns \cup Endpoints \cup Instances

VARIABLES
    sessions,    \* SessionManager.sessions: "absent", "plain" or "auth"
    closing,     \* clients with WriterMessage::Close in their writer queue
    timer,       \* the auth-timeout task of each client
    conns,       \* ServerRegistry.conns: the endpoint of each connection
    load,        \* BackendConn.load of each connection
    instances,   \* ServerRegistry.instances: the connection of each endpoint
    bindings,    \* Router.bindings
    registered,  \* InternalDelegate.registered
    answered,    \* backends whose ServerRegResp is queued
    told, peers, shown,
    known,       \* sessions ever announced to each backend
    crossed,     \* history: session and service pairs for which the requests
                 \* of two backends to bind or unbind have overlapped
    pc, todo,    \* program counter and iteration state of each task
    list,        \* endpoints collected by list_all / build_status
    who, ep      \* session and endpoint of the request a backend task handles

sessionVars == <<sessions, closing, timer>>
registryVars == <<conns, load, instances, registered>>
bindVars == <<bindings, crossed>>
beliefVars == <<answered, told, known, peers, shown>>
taskVars == <<pc, todo, list, who, ep>>
vars == <<sessionVars, registryVars, bindVars, beliefVars, taskVars>>

DefaultLoad == [score |-> 100, accepting |-> FALSE]

ClientPCs == {"none", "idle", "online", "status", "forward",
              "cleanup", "offline", "closed"}
ConnPCs == {"none", "idle", "claim", "insert", "load", "list", "reply",
            "announce", "pushOn", "replay", "bind", "bound", "unbound",
            "kick", "removed", "retire", "pushOff", "closed"}

\* The type invariant.
TypeOK ==
    /\ sessions \in [Clients -> {"absent", "plain", "auth"}]
    /\ closing \subseteq Clients
    /\ timer \in [Clients -> {"off", "armed", "expired", "fired"}]
    /\ conns \in [Conns -> Endpoints \cup {None}]
    /\ load \in [Conns -> [score : 0..100, accepting : BOOLEAN]]
    /\ instances \in [Endpoints -> Conns \cup {None}]
    /\ bindings \in [Clients -> [Services -> Instances \cup {None}]]
    /\ crossed \subseteq Clients \X Services
    /\ registered \in [Conns -> Endpoints \cup {None}]
    /\ answered \subseteq Conns
    /\ told \in [Conns -> SUBSET Clients]
    /\ known \in [Conns -> SUBSET Clients]
    /\ peers \in [Conns -> SUBSET Endpoints]
    /\ shown \in [Clients -> SUBSET Endpoints]
    /\ pc \in [Tasks -> ClientPCs \cup ConnPCs]
    /\ \A s \in Clients : pc[s] \in ClientPCs
    /\ \A d \in Conns : pc[d] \in ConnPCs
    /\ todo \in [Tasks -> SUBSET Tasks]
    /\ list \in [Tasks -> SUBSET Endpoints]
    /\ who \in [Conns -> Clients \cup {None}]
    /\ ep \in [Conns -> Endpoints \cup {None}]

Init ==
    /\ sessions = [s \in Clients |-> "absent"]
    /\ closing = {}
    /\ timer = [s \in Clients |-> "off"]
    /\ conns = [d \in Conns |-> None]
    /\ load = [d \in Conns |-> DefaultLoad]
    /\ instances = [e \in Endpoints |-> None]
    /\ bindings = [s \in Clients |-> [v \in Services |-> None]]
    /\ crossed = {}
    /\ registered = [d \in Conns |-> None]
    /\ answered = {}
    /\ told = [d \in Conns |-> {}]
    /\ known = [d \in Conns |-> {}]
    /\ peers = [d \in Conns |-> {}]
    /\ shown = [s \in Clients |-> {}]
    /\ pc = [t \in Tasks |-> "none"]
    /\ todo = [t \in Tasks |-> {}]
    /\ list = [t \in Tasks |-> {}]
    /\ who = [d \in Conns |-> None]
    /\ ep = [d \in Conns |-> None]

(***************************************************************************)
(* Queries.                                                                *)
(***************************************************************************)
AuthenticatedSessions == {s \in Clients : sessions[s] = "auth"}

\* list_all, with the caller's own entry left out or not.
ListAll(except) == {conns[d] : d \in Conns \ except} \ {None}

ServiceHasUnboundRoute(v) == v \notin BoundServices

ServiceVisible(s, e) ==
    ServiceHasUnboundRoute(e[1]) \/ bindings[s][e[1]] = e[2]

BindingCount(e) == Cardinality({s \in Clients : bindings[s][e[1]] = e[2]})

UpdateLoad(d, l) ==
    load' = [load EXCEPT ![d] =
                [l EXCEPT !.score = IF l.score > 100 THEN 100 ELSE l.score]]

\* The sort key (load_score, binding_count, instance_id) of one candidate is
\* not above the key of another.
NotWorse(a, b) ==
    LET na == BindingCount(conns[a])
        nb == BindingCount(conns[b])
    IN  \/ load[a].score < load[b].score
        \/ /\ load[a].score = load[b].score
           /\ na < nb \/ (na = nb /\ conns[a][2] <= conns[b][2])

\* select_lowest_load_instance: the endpoints it may return for service v.
LowestLoad(v) ==
    LET cand == {d \in Conns : /\ conns[d] # None
                               /\ conns[d][1] = v
                               /\ load[d].accepting
                               /\ load[d].score < 100}
    IN  {conns[d] : d \in {a \in cand : \A b \in cand : NotWorse(a, b)}}

\* Backend x is in a request about the binding of session s to service v.
Binding(x, s, v) ==
    pc[x] \in {"bind", "bound", "unbound"} /\ who[x] = s /\ ep[x][1] = v

\* A request of d about that binding begins; it is recorded when another
\* backend is in one.
NoteCrossing(d, s, v) ==
    crossed' = IF \E x \in Conns \ {d} : Binding(x, s, v)
               THEN crossed \cup {<<s, v>>} ELSE crossed

\* Program counter and iteration set of task t.
Goto(t, l) == pc' = [pc EXCEPT ![t] = l]
Iterate(t, slots) == todo' = [todo EXCEPT ![t] = slots]
Visit(t, k) == k \in todo[t] /\ Iterate(t, todo[t] \ {k})

\* A frame reaches a backend only if the connection is registered, and the
\* backend ignores every frame ahead of its ServerRegResp.
Hears(d) == conns[d] # None /\ d \in answered

\* SessionOnlinePush of s is queued to d.
TellOnline(d, s) ==
    /\ told' = [told EXCEPT ![d] = @ \cup {s}]
    /\ known' = [known EXCEPT ![d] = @ \cup {s}]

(***************************************************************************)
(* Client tasks.                                                           *)
(***************************************************************************)
Connect(s) ==
    /\ pc[s] = "none"
    /\ sessions' = [sessions EXCEPT ![s] = "plain"]
    /\ timer' = [timer EXCEPT ![s] = "armed"]
    /\ Goto(s, "idle")
    /\ UNCHANGED <<closing, registryVars, bindVars, beliefVars, todo, list, who, ep>>

\* Mutant: authenticates without telling the backends.
StatusReq_NoBroadcast(s) ==
    /\ pc[s] = "idle"
    /\ sessions' = [sessions EXCEPT ![s] = "auth"]
    /\ Goto(s, "online")
    /\ UNCHANGED <<closing, timer, registryVars, bindVars, beliefVars,
                   todo, list, who, ep>>

\* ServerStatusReq: only the first one authenticates and is broadcast.
StatusReq(s) ==
    /\ pc[s] = "idle"
    /\ sessions' = [sessions EXCEPT ![s] = "auth"]
    /\ Iterate(s, IF sessions[s] = "plain" THEN Conns ELSE {})
    /\ Goto(s, "online")
    /\ UNCHANGED <<closing, timer, registryVars, bindVars, beliefVars, list, who, ep>>

\* One slot of broadcast_session_online.
BroadcastOnline(s, d) ==
    /\ pc[s] = "online"
    /\ Visit(s, d)
    /\ IF Hears(d) THEN TellOnline(d, s) ELSE UNCHANGED <<told, known>>
    /\ UNCHANGED <<sessionVars, registryVars, bindVars, answered, peers, shown,
                   pc, list, who, ep>>

BuildStatus(s) ==
    /\ pc[s] = "online"
    /\ todo[s] = {}
    /\ list' = [list EXCEPT ![s] = {e \in ListAll({}) : ServiceVisible(s, e)}]
    /\ Goto(s, "status")
    /\ UNCHANGED <<sessionVars, registryVars, bindVars, beliefVars, todo, who, ep>>

SendStatus(s) ==
    /\ pc[s] = "status"
    /\ shown' = [shown EXCEPT ![s] = @ \cup list[s]]
    /\ list' = [list EXCEPT ![s] = {}]
    /\ Goto(s, "idle")
    /\ UNCHANGED <<sessionVars, registryVars, bindVars, answered, told, known, peers,
                   todo, who, ep>>

\* A business frame whose route leads to service v: resolve, then
\* find_by_service or find_by_instance.  The other outcomes (not
\* authenticated, not bound, no instance) only send an error reply.
Resolve(s, v, d) ==
    /\ pc[s] = "idle"
    /\ sessions[s] = "auth"
    /\ conns[d] # None
    /\ conns[d][1] = v
    /\ v \in BoundServices => bindings[s][v] = conns[d][2]
    /\ Iterate(s, {d})
    /\ Goto(s, "forward")
    /\ UNCHANGED <<sessionVars, registryVars, bindVars, beliefVars, list, who, ep>>

\* The frame is put on the queue of the connection that was found.
Forward(s) ==
    /\ pc[s] = "forward"
    /\ Iterate(s, {})
    /\ Goto(s, "idle")
    /\ UNCHANGED <<sessionVars, registryVars, bindVars, beliefVars, list, who, ep>>

\* Mutant: only an authenticated client is closed.
ClientClose_AuthOnly(s) ==
    /\ pc[s] = "idle"
    /\ sessions[s] = "auth"
    /\ sessions' = [sessions EXCEPT ![s] = "absent"]
    /\ closing' = closing \ {s}
    /\ Iterate(s, Conns)
    /\ Goto(s, "cleanup")
    /\ UNCHANGED <<timer, registryVars, bindVars, beliefVars, list, who, ep>>

\* on_session_close: the peer closed the socket or a Close was dequeued.
ClientClose(s) ==
    /\ pc[s] = "idle"
    /\ sessions' = [sessions EXCEPT ![s] = "absent"]
    /\ closing' = closing \ {s}
    /\ Iterate(s, IF sessions[s] = "auth" THEN Conns ELSE {})
    /\ Goto(s, "cleanup")
    /\ UNCHANGED <<timer, registryVars, bindVars, beliefVars, list, who, ep>>

CleanupSession(s) ==
    /\ pc[s] = "cleanup"
    /\ bindings' = [bindings EXCEPT ![s] = [v \in Services |-> None]]
    /\ Goto(s, "offline")
    /\ UNCHANGED <<sessionVars, registryVars, beliefVars, crossed, todo, list, who, ep>>

BroadcastOffline(s, d) ==
    /\ pc[s] = "offline"
    /\ Visit(s, d)
    /\ told' = IF Hears(d) THEN [told EXCEPT ![d] = @ \ {s}] ELSE told
    /\ UNCHANGED <<sessionVars, registryVars, bindVars, answered, known, peers,
                   shown, pc, list, who, ep>>

ClientClosed(s) ==
    /\ pc[s] = "offline"
    /\ todo[s] = {}
    /\ Goto(s, "closed")
    /\ UNCHANGED <<sessionVars, registryVars, bindVars, beliefVars, todo, list, who, ep>>

(***************************************************************************)
(* The auth-timeout task: it reads is_authenticated, then sends Close.     *)
(***************************************************************************)
\* Mutant: the timeout spares the clients it is meant for.
TimerCheck_Inverted(s) ==
    /\ timer[s] = "armed"
    /\ timer' = [timer EXCEPT ![s] =
                    IF sessions[s] = "auth" THEN "expired" ELSE "fired"]
    /\ UNCHANGED <<sessions, closing, registryVars, bindVars, beliefVars, taskVars>>

TimerCheck(s) ==
    /\ timer[s] = "armed"
    /\ timer' = [timer EXCEPT ![s] =
                    IF sessions[s] = "auth" THEN "fired" ELSE "expired"]
    /\ UNCHANGED <<sessions, closing, registryVars, bindVars, beliefVars, taskVars>>

TimerClose(s) ==
    /\ timer[s] = "expired"
    /\ timer' = [timer EXCEPT ![s] = "fired"]
    /\ closing' = IF sessions[s] = "absent" THEN closing ELSE closing \cup {s}
    /\ UNCHANGED <<sessions, registryVars, bindVars, beliefVars, taskVars>>

(***************************************************************************)
(* Backend tasks: registration.                                            *)
(***************************************************************************)
ConnOpen(d) ==
    /\ pc[d] = "none"
    /\ Goto(d, "idle")
    /\ UNCHANGED <<sessionVars, registryVars, bindVars, beliefVars, todo, list, who, ep>>

\* register, the two checks.  Only d's own task writes conns[d].  A rejected
\* request only sends an error code.
RegCheck(d, e) ==
    /\ pc[d] = "idle"
    /\ conns[d] = None
    /\ instances[e] \in {None, d}
    /\ ep' = [ep EXCEPT ![d] = e]
    /\ Goto(d, "claim")
    /\ UNCHANGED <<sessionVars, registryVars, bindVars, beliefVars, todo, list, who>>

\* register, instances.insert.
ClaimInstance(d) ==
    /\ pc[d] = "claim"
    /\ instances' = [instances EXCEPT ![ep[d]] = d]
    /\ Goto(d, "insert")
    /\ UNCHANGED <<sessionVars, conns, load, registered, bindVars, beliefVars,
                   todo, list, who, ep>>

\* register, conns.insert.
InsertConn(d) ==
    /\ pc[d] = "insert"
    /\ conns' = [conns EXCEPT ![d] = ep[d]]
    /\ load' = [load EXCEPT ![d] = DefaultLoad]
    /\ Goto(d, "load")
    /\ UNCHANGED <<sessionVars, instances, registered, bindVars, beliefVars,
                   todo, list, who, ep>>

RegisterLoad(d, l) ==
    /\ pc[d] = "load"
    /\ UpdateLoad(d, l)
    /\ registered' = [registered EXCEPT ![d] = ep[d]]
    /\ Goto(d, "list")
    /\ UNCHANGED <<sessionVars, conns, instances, bindVars, beliefVars,
                   todo, list, who, ep>>

\* AlreadyRegistered: the load is refreshed and nothing is broadcast (ep
\* stays None).
RefreshReg(d, e, l) ==
    /\ pc[d] = "idle"
    /\ conns[d] = e
    /\ UpdateLoad(d, l)
    /\ registered' = [registered EXCEPT ![d] = e]
    /\ Goto(d, "list")
    /\ UNCHANGED <<sessionVars, conns, instances, bindVars, beliefVars,
                   todo, list, who, ep>>

ListServers(d) ==
    /\ pc[d] = "list"
    /\ list' = [list EXCEPT ![d] = ListAll({d})]
    /\ Goto(d, "reply")
    /\ UNCHANGED <<sessionVars, registryVars, bindVars, beliefVars, todo, who, ep>>

RegResp(d) ==
    /\ pc[d] = "reply"
    /\ answered' = answered \cup {d}
    /\ peers' = [peers EXCEPT ![d] = list[d]]
    /\ list' = [list EXCEPT ![d] = {}]
    /\ IF ep[d] = None THEN Goto(d, "idle") /\ Iterate(d, {})
                       ELSE Goto(d, "announce") /\ Iterate(d, Conns \ {d})
    /\ UNCHANGED <<sessionVars, registryVars, bindVars, told, known, shown, who, ep>>

\* One slot of broadcast_except(ServerOnlinePush).
AnnounceOnline(d, x) ==
    /\ pc[d] = "announce"
    /\ Visit(d, x)
    /\ peers' = IF Hears(x) THEN [peers EXCEPT ![x] = @ \cup {ep[d]}] ELSE peers
    /\ UNCHANGED <<sessionVars, registryVars, bindVars, answered, told, known, shown,
                   pc, list, who, ep>>

\* push_service_status(true) collects the authenticated sessions ...
CollectForPush(d) ==
    /\ pc[d] = "announce"
    /\ todo[d] = {}
    /\ Iterate(d, AuthenticatedSessions)
    /\ Goto(d, "pushOn")
    /\ UNCHANGED <<sessionVars, registryVars, bindVars, beliefVars, list, who, ep>>

\* ... and pushes the status to the ones that may see the service.
PushOnline(d, s) ==
    /\ pc[d] = "pushOn"
    /\ Visit(d, s)
    /\ shown' = IF ServiceVisible(s, ep[d]) /\ sessions[s] = "auth"
                THEN [shown EXCEPT ![s] = @ \cup {ep[d]}] ELSE shown
    /\ UNCHANGED <<sessionVars, registryVars, bindVars, answered, told, known, peers,
                   pc, list, who, ep>>

\* The snapshot of authenticated sessions to replay to the new backend.
CollectForReplay(d) ==
    /\ pc[d] = "pushOn"
    /\ todo[d] = {}
    /\ Iterate(d, AuthenticatedSessions)
    /\ Goto(d, "replay")
    /\ UNCHANGED <<sessionVars, registryVars, bindVars, beliefVars, list, who, ep>>

ReplayOnline(d, s) ==
    /\ pc[d] = "replay"
    /\ Visit(d, s)
    /\ TellOnline(d, s)
    /\ UNCHANGED <<sessionVars, registryVars, bindVars, answered, peers, shown,
                   pc, list, who, ep>>

RegDone(d) ==
    /\ pc[d] = "replay"
    /\ todo[d] = {}
    /\ ep' = [ep EXCEPT ![d] = None]
    /\ Goto(d, "idle")
    /\ UNCHANGED <<sessionVars, registryVars, bindVars, beliefVars, todo, list, who>>

(***************************************************************************)
(* Backend tasks: requests of a registered backend.                        *)
(***************************************************************************)
\* BindManager::start, the choice of the instance: the one asked for, or the
\* one with the lowest load.  A backend asks for a session it was told of at
\* some earlier time; the session may be gone, nothing checks it.  A request
\* that finds no instance only sends an error reply.
BindSelect(d, s, v, found) ==
    /\ pc[d] = "idle"
    /\ registered[d] # None
    /\ s \in known[d]
    /\ \E e \in found : ep' = [ep EXCEPT ![d] = e]
    /\ who' = [who EXCEPT ![d] = s]
    /\ NoteCrossing(d, s, v)
    /\ Goto(d, "bind")
    /\ UNCHANGED <<sessionVars, registryVars, bindings, beliefVars, todo, list>>

BindTarget(d, s, v) == BindSelect(d, s, v, {e \in ListAll({}) : e[1] = v})
BindAuto(d, s, v) == BindSelect(d, s, v, LowestLoad(v))

BindService(d) ==
    /\ pc[d] = "bind"
    /\ bindings' = [bindings EXCEPT ![who[d]][ep[d][1]] = ep[d][2]]
    /\ Goto(d, "bound")
    /\ UNCHANGED <<sessionVars, registryVars, beliefVars, crossed, todo, list, who, ep>>

EndRequest(d) ==
    /\ Goto(d, "idle")
    /\ who' = [who EXCEPT ![d] = None]
    /\ ep' = [ep EXCEPT ![d] = None]

\* Mutant: the client is not told of its new instance.
BoundStatus_Silent(d) ==
    /\ pc[d] = "bound"
    /\ EndRequest(d)
    /\ UNCHANGED <<sessionVars, registryVars, bindVars, beliefVars, todo, list>>

BoundStatus(d) ==
    /\ pc[d] = "bound"
    /\ shown' = IF sessions[who[d]] = "auth"
                THEN [shown EXCEPT ![who[d]] = @ \cup {ep[d]}] ELSE shown
    /\ EndRequest(d)
    /\ UNCHANGED <<sessionVars, registryVars, bindVars, answered, told, known, peers,
                   todo, list>>

\* UnbindServiceReq; a request for an absent binding only sends a reply.
UnbindService(d, s, v) ==
    /\ pc[d] = "idle"
    /\ s \in known[d]
    /\ bindings[s][v] # None
    /\ who' = [who EXCEPT ![d] = s]
    /\ ep' = [ep EXCEPT ![d] = <<v, bindings[s][v]>>]
    /\ bindings' = [bindings EXCEPT ![s][v] = None]
    /\ NoteCrossing(d, s, v)
    /\ Goto(d, "unbound")
    /\ UNCHANGED <<sessionVars, registryVars, beliefVars, todo, list>>

UnboundStatus(d) ==
    /\ pc[d] = "unbound"
    /\ shown' = IF sessions[who[d]] = "auth"
                THEN [shown EXCEPT ![who[d]] = @ \ {ep[d]}] ELSE shown
    /\ EndRequest(d)
    /\ UNCHANGED <<sessionVars, registryVars, bindVars, answered, told, known, peers,
                   todo, list>>

Kick(d, s) ==
    /\ pc[d] = "idle"
    /\ s \in known[d]
    /\ closing' = IF sessions[s] = "absent" THEN closing ELSE closing \cup {s}
    /\ who' = [who EXCEPT ![d] = s]
    /\ Goto(d, "kick")
    /\ UNCHANGED <<sessions, timer, registryVars, bindVars, beliefVars,
                   todo, list, ep>>

KickCleanup(d) ==
    /\ pc[d] = "kick"
    /\ bindings' = [bindings EXCEPT ![who[d]] = [v \in Services |-> None]]
    /\ EndRequest(d)
    /\ UNCHANGED <<sessionVars, registryVars, beliefVars, crossed, todo, list>>

\* ServiceLoadReportPush: the identity is the one recorded at registration.
LoadReport(d, l) ==
    /\ pc[d] = "idle"
    /\ registered[d] # None
    /\ conns[d] = registered[d]
    /\ UpdateLoad(d, l)
    /\ UNCHANGED <<sessionVars, conns, instances, registered, bindVars,
                   beliefVars, taskVars>>

(***************************************************************************)
(* Backend tasks: on_session_close.  The backend at the other end stops    *)
(* all its sessions when it loses the connection.                          *)
(***************************************************************************)
ConnClose(d) ==
    /\ pc[d] = "idle"
    /\ ep' = [ep EXCEPT ![d] = conns[d]]
    /\ conns' = [conns EXCEPT ![d] = None]
    /\ load' = [load EXCEPT ![d] = DefaultLoad]
    /\ told' = [told EXCEPT ![d] = {}]
    /\ known' = [known EXCEPT ![d] = {}]
    /\ peers' = [peers EXCEPT ![d] = {}]
    /\ Goto(d, IF conns[d] = None THEN "closed" ELSE "removed")
    /\ UNCHANGED <<sessionVars, instances, registered, bindVars, answered, shown,
                   todo, list, who>>

\* Mutant: the instances entry of a closed connection stays.
RemoveInstance_Stays(d) ==
    /\ pc[d] = "removed"
    /\ Iterate(d, Conns \ {d})
    /\ Goto(d, "retire")
    /\ UNCHANGED <<sessionVars, registryVars, bindVars, beliefVars, list, who, ep>>

\* remove, instances.remove: whoever holds the key.
RemoveInstance(d) ==
    /\ pc[d] = "removed"
    /\ instances' = [instances EXCEPT ![ep[d]] = None]
    /\ Iterate(d, Conns \ {d})
    /\ Goto(d, "retire")
    /\ UNCHANGED <<sessionVars, conns, load, registered, bindVars, beliefVars,
                   list, who, ep>>

AnnounceOffline(d, x) ==
    /\ pc[d] = "retire"
    /\ Visit(d, x)
    /\ peers' = IF Hears(x) THEN [peers EXCEPT ![x] = @ \ {ep[d]}] ELSE peers
    /\ UNCHANGED <<sessionVars, registryVars, bindVars, answered, told, known, shown,
                   pc, list, who, ep>>

CollectForNotify(d) ==
    /\ pc[d] = "retire"
    /\ todo[d] = {}
    /\ Iterate(d, AuthenticatedSessions)
    /\ Goto(d, "pushOff")
    /\ UNCHANGED <<sessionVars, registryVars, bindVars, beliefVars, list, who, ep>>

PushOffline(d, s) ==
    /\ pc[d] = "pushOff"
    /\ Visit(d, s)
    /\ shown' = IF ServiceVisible(s, ep[d]) /\ sessions[s] = "auth"
                THEN [shown EXCEPT ![s] = @ \ {ep[d]}] ELSE shown
    /\ UNCHANGED <<sessionVars, registryVars, bindVars, answered, told, known, peers,
                   pc, list, who, ep>>

UnbindAllByInstance(d) ==
    /\ pc[d] = "pushOff"
    /\ todo[d] = {}
    /\ bindings' = [s \in Clients |->
                      [bindings[s] EXCEPT ![ep[d][1]] =
                          IF @ = ep[d][2] THEN None ELSE @]]
    /\ ep' = [ep EXCEPT ![d] = None]
    /\ Goto(d, "closed")
    /\ UNCHANGED <<sessionVars, registryVars, beliefVars, crossed, todo, list, who>>

----------------------------------------------------------------------------
\* Steps a client task takes by itself once a frame or a close is there.
ClientStep(s) ==
    \/ \E d \in Conns : BroadcastOnline(s, d)
    \/ BuildStatus(s)
    \/ SendStatus(s)
    \/ Forward(s)
    \/ CleanupSession(s)
    \/ \E d \in Conns : BroadcastOffline(s, d)
    \/ ClientClosed(s)

\* What the client at the other end does.
ClientInput(s) ==
    \/ Connect(s)
    \/ StatusReq(s)
    \/ \E v \in Services, d \in Conns : Resolve(s, v, d)
    \/ ClientClose(s)

TimerStep(s) == TimerCheck(s) \/ TimerClose(s)

\* Steps a backend task takes by itself inside a handler.
ConnStep(d) ==
    \/ ClaimInstance(d)
    \/ InsertConn(d)
    \/ \E l \in Loads : RegisterLoad(d, l)
    \/ ListServers(d)
    \/ RegResp(d)
    \/ \E x \in Conns : AnnounceOnline(d, x)
    \/ CollectForPush(d)
    \/ \E s \in Clients : PushOnline(d, s)
    \/ CollectForReplay(d)
    \/ \E s \in Clients : ReplayOnline(d, s)
    \/ RegDone(d)
    \/ BindService(d)
    \/ BoundStatus(d)
    \/ UnboundStatus(d)
    \/ KickCleanup(d)
    \/ RemoveInstance(d)
    \/ \E x \in Conns : AnnounceOffline(d, x)
    \/ CollectForNotify(d)
    \/ \E s \in Clients : PushOffline(d, s)
    \/ UnbindAllByInstance(d)

\* What the backend at the other end does.
ConnInput(d) ==
    \/ ConnOpen(d)
    \/ \E e \in RegReqs[d] : RegCheck(d, e)
    \/ \E e \in RegReqs[d], l \in Loads : RefreshReg(d, e, l)
    \/ \E l \in Loads : LoadReport(d, l)
    \/ ConnClose(d)

\* Bindings are only asked for services whose route needs one.
Request(d) ==
    \/ \E s \in Clients, v \in BoundServices : BindTarget(d, s, v)
    \/ \E s \in Clients, v \in BoundServices : BindAuto(d, s, v)
    \/ \E s \in Clients, v \in BoundServices : UnbindService(d, s, v)
    \/ \E s \in Clients : Kick(d, s)

Next ==
    \/ \E s \in Clients : ClientStep(s) \/ ClientInput(s) \/ TimerStep(s)
    \/ \E d \in Conns : ConnStep(d) \/ ConnInput(d)
    \/ \E d \in Requesters : Request(d)

Spec == Init /\ [][Next]_vars

\* The runtime keeps polling every task, the sleep of the timer task ends,
\* and a queued Close is dequeued sooner or later: poll_read gives way to
\* poll_write in the select, however many frames the client sends.
Fairness ==
    /\ \A s \in Clients : /\ WF_vars(ClientStep(s))
                          /\ WF_vars(TimerStep(s))
                          /\ SF_vars(s \in closing /\ ClientClose(s))
    /\ \A d \in Conns : WF_vars(ConnStep(d))

FairSpec == Spec /\ Fairness
----------------------------------------------------------------------------
(***************************************************************************)
(* Properties.                                                             *)
(***************************************************************************)
\* The part of registration that ends with the snapshot of the sessions.
Registering(d) ==
    /\ pc[d] \in {"load", "list", "reply", "announce", "pushOn"}
    /\ ep[d] # None

\* Inductive form of OnlineReachesEveryBackend: a registered backend that has
\* not been told of an authenticated session is still going to be, by the
\* session's own broadcast or by the replay of its registration.
OnlineOnItsWay ==
    \A d \in Conns, s \in Clients :
        conns[d] # None /\ sessions[s] = "auth" =>
            \/ s \in told[d]
            \/ pc[s] = "online" /\ d \in todo[s]
            \/ Registering(d)
            \/ pc[d] = "replay" /\ s \in todo[d]

\* Once the status request of a session and the registration of a backend are
\* both over, the backend knows the session, whichever of the two
\* handlers overtook the other: authenticate precedes the broadcast, and
\* conns.insert precedes the snapshot of authenticated_sessions.
OnlineReachesEveryBackend ==
    \A d \in Conns, s \in Clients :
        /\ conns[d] # None /\ pc[d] = "idle"
        /\ sessions[s] = "auth" /\ pc[s] \in {"idle", "status", "forward"}
        => s \in told[d]

\* Client s has its status reply, d is registered for an endpoint it may see and
\* no other connection ever was, and no backend task is in a handler.
Settled(s, d) ==
    /\ sessions[s] = "auth" /\ pc[s] \in {"idle", "forward"}
    /\ conns[d] # None
    /\ \A x \in Conns : pc[x] \in {"none", "idle", "closed"}
    /\ \A x \in Conns \ {d} : registered[x] # conns[d]
    /\ ServiceVisible(s, conns[d])

\* A client that has its status reply knows every registered endpoint it may
\* see, however its requests overlapped with the registration of the backend:
\* conns.insert precedes the push, authenticate precedes build_status. Two
\* races of the code are left out. The endpoint must have had one connection
\* only: when a backend comes back while its old connection is being closed,
\* the offline push of the old one may reach the client after the online push
\* of the new one. And no two backends may have bound or unbound the service
\* for that client at the same time (crossed): the table and the push are two
\* steps, so the pushes may come in the other order than the bindings.
ClientSeesRegistered ==
    \A s \in Clients, d \in Conns :
        Settled(s, d) /\ <<s, conns[d][1]>> \notin crossed => conns[d] \in shown[s]

\* An instances entry names a connection that is registered under it, or is
\* inside register or remove: a backend that lost its connection is never
\* locked out by an entry left behind, whatever registrations raced.
NoStaleInstanceEntry ==
    \A e \in Endpoints, d \in Conns :
        instances[e] = d =>
            \/ conns[d] = e
            \/ pc[d] \in {"insert", "removed"} /\ ep[d] = e

\* client_auth_timeout_secs: a connection that never asks for the server
\* status does not stay.
UnauthenticatedClosed ==
    \A s \in Clients : sessions[s] = "plain" ~> sessions[s] # "plain"

\* KickSessionReq and the auth timeout take effect: a queued Close ends in the
\* removal of the session and in the end of its close handler.
CloseTakesEffect ==
    \A s \in Clients : s \in closing ~> pc[s] = "closed"

\* The statements below are made by comments and tests of the gateway; the
\* interleavings of the handlers break them.

\* "the same service instance must not be registered twice".
SingleRegistration ==
    \A d, x \in Conns :
        d # x /\ conns[d] # None => conns[d] # conns[x]

\* "first notify the clients concerned, then clean up the bindings": when the
\* bindings of an instance that went offline are dropped, an authenticated
\* client that was bound to it has been told so.
NotifiedBeforeUnbind ==
    [][\A d \in Conns, s \in Clients :
          /\ UnbindAllByInstance(d)
          /\ sessions[s] = "auth"
          /\ bindings[s][ep[d][1]] = ep[d][2]
          => ep[d] \notin shown[s]]_vars

\* "close of an authenticated client notifies the backend that it is offline":
\* once the close is handled, no backend goes on believing the session online.
OfflineIsFinal ==
    \A d \in Conns, s \in Clients :
        pc[s] = "closed" /\ conns[d] # None /\ pc[d] = "idle" => s \notin told[d]

\* The backend is told of a session before it gets a frame of it (it drops
\* frames of sessions it does not know): broken while the backend registers,
\* between conns.insert, where the frame finds it, and the replay.
FrameFollowsOnline ==
    \A s \in Clients, d \in Conns :
        pc[s] = "forward" /\ d \in todo[s] /\ conns[d] # None => s \in told[d]

\* ClientSeesRegistered with overlapping requests of two backends included.
CrossedRequestsSeen ==
    \A s \in Clients, d \in Conns : Settled(s, d) => conns[d] \in shown[s]

\* "the first status request notifies the backend once".
OnlineOnce ==
    [][\A d \in Conns, s \in Clients :
          \/ BroadcastOnline(s, d) /\ Hears(d)
          \/ ReplayOnline(d, s)
          => s \notin told[d]]_vars

\* "the gateway notifies the backends that an instance is online": two
\* registered backends know each other's endpoint.
RegisteredPeersKnown ==
    \A d, x \in Conns :
        /\ d # x
        /\ conns[d] # None /\ pc[d] = "idle"
        /\ conns[x] # None /\ pc[x] = "idle"
        => conns[x] \in peers[d]
============================================================================
