--------------------------- MODULE GatewayProofs ---------------------------
(***************************************************************************)
(* Proofs about Gateway, for any number of clients, backend connections,   *)
(* services and instances.                                                 *)
(***************************************************************************)
EXTENDS Gateway, TLAPS

\* A backend task inside a handler has the arguments of that handler, and the
\* connection that registers is not in conns yet.  TypeOK is inductive only
\* together with this.
TaskArgs ==
    /\ \A d \in Conns :
        pc[d] \in {"claim", "insert", "load", "announce", "pushOn", "replay",
                  "bind", "bound", "unbound", "removed", "retire", "pushOff"}
        => ep[d] # None
    /\ \A d \in Conns : pc[d] \in {"bind", "bound", "unbound", "kick"} => who[d] # None
    /\ \A d \in Conns : pc[d] \in {"claim", "insert"} => conns[d] = None

\* Which stages of its handlers a connection passes before and after it is in
\* conns and after its ServerRegResp, and when a client's session exists.
Stages ==
    /\ \A d \in Conns : pc[d] \in {"none", "idle", "kick"} => ep[d] = None
    /\ \A d \in Conns :
        pc[d] \in {"none", "claim", "insert", "removed", "retire", "pushOff", "closed"}
        => conns[d] = None
    /\ \A d \in Conns :
        conns[d] # None => d \in answered \/ (pc[d] \in {"load", "list", "reply"} /\ ep[d] # None)
    /\ \A d \in Conns : pc[d] \in {"announce", "pushOn", "replay"} => d \in answered
    /\ \A s \in Clients :
        /\ pc[s] \in {"none", "cleanup", "offline", "closed"} => sessions[s] = "absent"
        /\ pc[s] \in {"online", "status", "forward"} => sessions[s] = "auth"
        /\ pc[s] = "idle" => sessions[s] # "absent"

\* Elements of an optional map entry, and of an endpoint.
LEMMA EndpointParts ==
    ASSUME NEW e \in Endpoints \cup {None}, e # None
    PROVE  e \in Endpoints /\ e[1] \in Services /\ e[2] \in Instances
  BY DEF Endpoints

\* Endpoints with the same service and instance are the same.
LEMMA EndpointEqual ==
    ASSUME NEW e \in Endpoints, NEW f \in Endpoints, e[1] = f[1], e[2] = f[2]
    PROVE  e = f
<1>1. PICK v \in Services, i \in Instances : e = <<v, i>>
  BY DEF Endpoints
<1>2. PICK w \in Services, j \in Instances : f = <<w, j>>
  BY DEF Endpoints
<1>3. v = w /\ i = j
  BY <1>1, <1>2
<1> QED BY <1>1, <1>2, <1>3

\* update_load stores a score of at most 100.
LEMMA LoadType ==
    ASSUME NEW d \in Conns, NEW l \in Loads, UpdateLoad(d, l),
           load \in [Conns -> [score : 0..100, accepting : BOOLEAN]]
    PROVE  load' \in [Conns -> [score : 0..100, accepting : BOOLEAN]]
<1> DEFINE c == [l EXCEPT !.score = IF l.score > 100 THEN 100 ELSE l.score]
<1>1. l \in [score : Nat, accepting : BOOLEAN]
  BY GatewayAssumptions
<1>2. c \in [score : 0..100, accepting : BOOLEAN]
  BY <1>1
<1>3. load' = [load EXCEPT ![d] = c]
  BY DEF UpdateLoad
<1> HIDE DEF c
<1> QED BY <1>2, <1>3

\* Every action keeps the shared maps, the beliefs and the task states of the
\* gateway within their types.
LEMMA TypeStep == TypeOK /\ TaskArgs /\ [Next]_vars => TypeOK'
<1> SUFFICES ASSUME TypeOK, TaskArgs, [Next]_vars PROVE TypeOK'
  OBVIOUS
<1> USE GatewayAssumptions
        DEF TypeOK, Tasks, Endpoints, ClientPCs, ConnPCs, DefaultLoad, Goto, Iterate, Visit,
            sessionVars, registryVars, bindVars, beliefVars, taskVars, vars
<1>1. ASSUME NEW s \in Clients, ClientStep(s) PROVE TypeOK'
  <2>1. ASSUME NEW d \in Conns, BroadcastOnline(s, d) PROVE TypeOK'
    <3>1. told' \in [Conns -> SUBSET Clients] /\ known' \in [Conns -> SUBSET Clients]
      <4>1. CASE TellOnline(d, s)
        BY <4>1 DEF TellOnline
      <4> QED BY <2>1, <4>1 DEF BroadcastOnline
    <3>2. todo' \in [Tasks -> SUBSET Tasks]
      BY <2>1 DEF BroadcastOnline
    <3> QED BY <2>1, <3>1, <3>2 DEF BroadcastOnline
  <2>2. CASE BuildStatus(s)
    BY <2>2 DEF BuildStatus, ListAll
  <2>3. CASE SendStatus(s)
    BY <2>3 DEF SendStatus
  <2>4. CASE Forward(s)
    BY <2>4 DEF Forward
  <2>5. CASE CleanupSession(s)
    BY <2>5 DEF CleanupSession
  <2>6. ASSUME NEW d \in Conns, BroadcastOffline(s, d) PROVE TypeOK'
    BY <2>6 DEF BroadcastOffline
  <2>7. CASE ClientClosed(s)
    BY <2>7 DEF ClientClosed
  <2> QED BY <1>1, <2>1, <2>2, <2>3, <2>4, <2>5, <2>6, <2>7 DEF ClientStep
<1>2. ASSUME NEW s \in Clients, ClientInput(s) PROVE TypeOK'
  <2>1. CASE Connect(s)
    BY <2>1 DEF Connect
  <2>2. CASE StatusReq(s)
    BY <2>2 DEF StatusReq
  <2>3. ASSUME NEW v \in Services, NEW d \in Conns, Resolve(s, v, d) PROVE TypeOK'
    BY <2>3 DEF Resolve
  <2>4. CASE ClientClose(s)
    BY <2>4 DEF ClientClose
  <2> QED BY <1>2, <2>1, <2>2, <2>3, <2>4 DEF ClientInput
<1>3. ASSUME NEW s \in Clients, TimerStep(s) PROVE TypeOK'
  <2>1. CASE TimerCheck(s)
    BY <2>1 DEF TimerCheck
  <2>2. CASE TimerClose(s)
    BY <2>2 DEF TimerClose
  <2> QED BY <1>3, <2>1, <2>2 DEF TimerStep
<1>4. ASSUME NEW d \in Conns, ConnStep(d) PROVE TypeOK'
  <2>1. CASE ClaimInstance(d)
    BY <2>1 DEF ClaimInstance
  <2>2. CASE InsertConn(d)
    BY <2>2 DEF InsertConn
  <2>3. ASSUME NEW l \in Loads, RegisterLoad(d, l) PROVE TypeOK'
    BY <2>3, LoadType DEF RegisterLoad
  <2>4. CASE ListServers(d)
    BY <2>4 DEF ListServers, ListAll
  <2>5. CASE RegResp(d)
    <3>1. /\ todo' \in [Tasks -> SUBSET Tasks]
          /\ pc' \in [Tasks -> ClientPCs \cup ConnPCs]
          /\ \A s \in Clients : pc'[s] \in ClientPCs
          /\ \A x \in Conns : pc'[x] \in ConnPCs
      <4>1. CASE Goto(d, "idle") /\ Iterate(d, {})
        BY <4>1
      <4>2. CASE Goto(d, "announce") /\ Iterate(d, Conns \ {d})
        BY <4>2
      <4> QED BY <2>5, <4>1, <4>2 DEF RegResp
    <3>2. peers' \in [Conns -> SUBSET Endpoints] /\ list' \in [Tasks -> SUBSET Endpoints]
      BY <2>5 DEF RegResp
    <3> QED BY <2>5, <3>1, <3>2 DEF RegResp
  <2>6. ASSUME NEW x \in Conns, AnnounceOnline(d, x) PROVE TypeOK'
    <3>1. ep[d] \in Endpoints
      BY <2>6, EndpointParts DEF AnnounceOnline, TaskArgs
    <3> QED BY <2>6, <3>1 DEF AnnounceOnline
  <2>7. CASE CollectForPush(d)
    BY <2>7 DEF CollectForPush, AuthenticatedSessions
  <2>8. ASSUME NEW s \in Clients, PushOnline(d, s) PROVE TypeOK'
    <3>1. ep[d] \in Endpoints
      BY <2>8, EndpointParts DEF PushOnline, TaskArgs
    <3> QED BY <2>8, <3>1 DEF PushOnline
  <2>9. CASE CollectForReplay(d)
    BY <2>9 DEF CollectForReplay, AuthenticatedSessions
  <2>10. ASSUME NEW s \in Clients, ReplayOnline(d, s) PROVE TypeOK'
    BY <2>10 DEF ReplayOnline, TellOnline
  <2>11. CASE RegDone(d)
    BY <2>11 DEF RegDone
  <2>12. CASE BindService(d)
    <3>1. who[d] \in Clients /\ ep[d][1] \in Services /\ ep[d][2] \in Instances
      BY <2>12, EndpointParts DEF BindService, TaskArgs
    <3> QED BY <2>12, <3>1 DEF BindService
  <2>13. CASE BoundStatus(d)
    <3>1. who[d] \in Clients /\ ep[d] \in Endpoints
      BY <2>13, EndpointParts DEF BoundStatus, TaskArgs
    <3> QED BY <2>13, <3>1 DEF BoundStatus, EndRequest
  <2>14. CASE UnboundStatus(d)
    BY <2>14 DEF UnboundStatus, EndRequest
  <2>15. CASE KickCleanup(d)
    BY <2>15 DEF KickCleanup, EndRequest
  <2>16. CASE RemoveInstance(d)
    BY <2>16 DEF RemoveInstance
  <2>17. ASSUME NEW x \in Conns, AnnounceOffline(d, x) PROVE TypeOK'
    BY <2>17 DEF AnnounceOffline
  <2>18. CASE CollectForNotify(d)
    BY <2>18 DEF CollectForNotify, AuthenticatedSessions
  <2>19. ASSUME NEW s \in Clients, PushOffline(d, s) PROVE TypeOK'
    BY <2>19 DEF PushOffline
  <2>20. CASE UnbindAllByInstance(d)
    <3>1. ep[d][1] \in Services
      BY <2>20, EndpointParts DEF UnbindAllByInstance, TaskArgs
    <3>2. bindings' \in [Clients -> [Services -> Instances \cup {None}]]
      BY <2>20, <3>1 DEF UnbindAllByInstance
    <3> QED BY <2>20, <3>2 DEF UnbindAllByInstance
  <2> QED
    BY <1>4, <2>1, <2>2, <2>3, <2>4, <2>5, <2>6, <2>7, <2>8, <2>9, <2>10, <2>11,
       <2>12, <2>13, <2>14, <2>15, <2>16, <2>17, <2>18, <2>19, <2>20
    DEF ConnStep
<1>5. ASSUME NEW d \in Conns, ConnInput(d) PROVE TypeOK'
  <2>1. CASE ConnOpen(d)
    BY <2>1 DEF ConnOpen
  <2>2. ASSUME NEW e \in RegReqs[d], RegCheck(d, e) PROVE TypeOK'
    BY <2>2 DEF RegCheck
  <2>3. ASSUME NEW e \in RegReqs[d], NEW l \in Loads, RefreshReg(d, e, l)
        PROVE TypeOK'
    BY <2>3, LoadType DEF RefreshReg
  <2>4. ASSUME NEW l \in Loads, LoadReport(d, l) PROVE TypeOK'
    BY <2>4, LoadType DEF LoadReport
  <2>5. CASE ConnClose(d)
    BY <2>5 DEF ConnClose
  <2> QED BY <1>5, <2>1, <2>2, <2>3, <2>4, <2>5 DEF ConnInput
<1>6. ASSUME NEW d \in Requesters, Request(d) PROVE TypeOK'
  <2>1. ASSUME NEW s \in Clients, NEW v \in BoundServices, BindTarget(d, s, v)
        PROVE TypeOK'
    BY <2>1 DEF BindTarget, BindSelect, NoteCrossing, ListAll
  <2>2. ASSUME NEW s \in Clients, NEW v \in BoundServices, BindAuto(d, s, v)
        PROVE TypeOK'
    BY <2>2 DEF BindAuto, BindSelect, NoteCrossing, LowestLoad
  <2>3. ASSUME NEW s \in Clients, NEW v \in BoundServices, UnbindService(d, s, v)
        PROVE TypeOK'
    BY <2>3 DEF UnbindService, NoteCrossing
  <2>4. ASSUME NEW s \in Clients, Kick(d, s) PROVE TypeOK'
    BY <2>4 DEF Kick
  <2> QED BY <1>6, <2>1, <2>2, <2>3, <2>4 DEF Request
<1>7. CASE UNCHANGED vars
  BY <1>7
<1> QED BY <1>1, <1>2, <1>3, <1>4, <1>5, <1>6, <1>7 DEF Next

\* Every handler keeps its arguments, and passes its stages in order.
LEMMA ControlStep == TypeOK /\ TaskArgs /\ Stages /\ [Next]_vars => TaskArgs' /\ Stages'
<1> SUFFICES ASSUME TypeOK, TaskArgs, Stages, [Next]_vars PROVE TaskArgs' /\ Stages'
  OBVIOUS
<1> DEFINE Goal == TaskArgs' /\ Stages'
<1> USE GatewayAssumptions
        DEF TypeOK, TaskArgs, Stages, Tasks, ClientPCs, ConnPCs, Goto, Iterate, Visit,
            sessionVars, registryVars, bindVars, beliefVars, taskVars, vars
<1>1. ASSUME NEW s \in Clients, ClientStep(s) PROVE Goal
  <2>1. ASSUME NEW d \in Conns, BroadcastOnline(s, d)
        PROVE  Goal
    BY <2>1 DEF BroadcastOnline, Hears, TellOnline
  <2>2. CASE BuildStatus(s)
    BY <2>2 DEF BuildStatus
  <2>3. CASE SendStatus(s)
    BY <2>3 DEF SendStatus
  <2>4. CASE Forward(s)
    BY <2>4 DEF Forward
  <2>5. CASE CleanupSession(s)
    BY <2>5 DEF CleanupSession
  <2>6. ASSUME NEW d \in Conns, BroadcastOffline(s, d)
        PROVE  Goal
    BY <2>6 DEF BroadcastOffline, Hears
  <2>7. CASE ClientClosed(s)
    BY <2>7 DEF ClientClosed
  <2> QED BY <1>1, <2>1, <2>2, <2>3, <2>4, <2>5, <2>6, <2>7 DEF ClientStep
<1>2. ASSUME NEW s \in Clients, ClientInput(s) PROVE Goal
  <2>1. CASE Connect(s)
    BY <2>1 DEF Connect
  <2>2. CASE StatusReq(s)
    BY <2>2 DEF StatusReq
  <2>3. ASSUME NEW v \in Services, NEW d \in Conns, Resolve(s, v, d)
        PROVE  Goal
    BY <2>3 DEF Resolve
  <2>4. CASE ClientClose(s)
    BY <2>4 DEF ClientClose
  <2> QED BY <1>2, <2>1, <2>2, <2>3, <2>4 DEF ClientInput
<1>3. ASSUME NEW s \in Clients, TimerStep(s) PROVE Goal
  <2>1. CASE TimerCheck(s)
    BY <2>1 DEF TimerCheck
  <2>2. CASE TimerClose(s)
    BY <2>2 DEF TimerClose
  <2> QED BY <1>3, <2>1, <2>2 DEF TimerStep
<1>4. ASSUME NEW d \in Conns, ConnStep(d) PROVE Goal
  <2>1. CASE ClaimInstance(d)
    BY <2>1 DEF ClaimInstance
  <2>2. CASE InsertConn(d)
    BY <2>2 DEF InsertConn
  <2>3. ASSUME NEW l \in Loads, RegisterLoad(d, l)
        PROVE  Goal
    BY <2>3 DEF RegisterLoad
  <2>4. CASE ListServers(d)
    BY <2>4 DEF ListServers
  <2>5. CASE RegResp(d)
    BY <2>5 DEF RegResp
  <2>6. ASSUME NEW x \in Conns, AnnounceOnline(d, x)
        PROVE  Goal
    BY <2>6 DEF AnnounceOnline
  <2>7. CASE CollectForPush(d)
    BY <2>7 DEF CollectForPush
  <2>8. ASSUME NEW s \in Clients, PushOnline(d, s)
        PROVE  Goal
    BY <2>8 DEF PushOnline
  <2>9. CASE CollectForReplay(d)
    BY <2>9 DEF CollectForReplay, AuthenticatedSessions
  <2>10. ASSUME NEW s \in Clients, ReplayOnline(d, s)
        PROVE  Goal
    BY <2>10 DEF ReplayOnline, TellOnline
  <2>11. CASE RegDone(d)
    BY <2>11 DEF RegDone
  <2>12. CASE BindService(d)
    BY <2>12 DEF BindService
  <2>13. CASE BoundStatus(d)
    BY <2>13 DEF BoundStatus, EndRequest
  <2>14. CASE UnboundStatus(d)
    BY <2>14 DEF UnboundStatus, EndRequest
  <2>15. CASE KickCleanup(d)
    BY <2>15 DEF KickCleanup, EndRequest
  <2>16. CASE RemoveInstance(d)
    BY <2>16 DEF RemoveInstance
  <2>17. ASSUME NEW x \in Conns, AnnounceOffline(d, x)
        PROVE  Goal
    BY <2>17 DEF AnnounceOffline
  <2>18. CASE CollectForNotify(d)
    BY <2>18 DEF CollectForNotify
  <2>19. ASSUME NEW s \in Clients, PushOffline(d, s)
        PROVE  Goal
    BY <2>19 DEF PushOffline
  <2>20. CASE UnbindAllByInstance(d)
    BY <2>20 DEF UnbindAllByInstance
  <2> QED
    BY <1>4, <2>1, <2>2, <2>3, <2>4, <2>5, <2>6, <2>7, <2>8, <2>9, <2>10, <2>11,
       <2>12, <2>13, <2>14, <2>15, <2>16, <2>17, <2>18, <2>19, <2>20
    DEF ConnStep
<1>5. ASSUME NEW d \in Conns, ConnInput(d) PROVE Goal
  <2>1. CASE ConnOpen(d)
    BY <2>1 DEF ConnOpen
  <2>2. ASSUME NEW e \in RegReqs[d], RegCheck(d, e)
        PROVE  Goal
    BY <2>2 DEF RegCheck
  <2>3. ASSUME NEW e \in RegReqs[d], NEW l \in Loads, RefreshReg(d, e, l)
        PROVE  Goal
    BY <2>3 DEF RefreshReg
  <2>4. ASSUME NEW l \in Loads, LoadReport(d, l)
        PROVE  Goal
    BY <2>4 DEF LoadReport
  <2>5. CASE ConnClose(d)
    BY <2>5 DEF ConnClose
  <2> QED BY <1>5, <2>1, <2>2, <2>3, <2>4, <2>5 DEF ConnInput
<1>6. ASSUME NEW d \in Requesters, Request(d) PROVE Goal
  <2>1. ASSUME NEW s \in Clients, NEW v \in BoundServices, BindTarget(d, s, v)
        PROVE  Goal
    BY <2>1 DEF BindTarget, BindSelect, NoteCrossing, ListAll
  <2>2. ASSUME NEW s \in Clients, NEW v \in BoundServices, BindAuto(d, s, v)
        PROVE  Goal
    BY <2>2 DEF BindAuto, BindSelect, NoteCrossing, LowestLoad
  <2>3. ASSUME NEW s \in Clients, NEW v \in BoundServices, UnbindService(d, s, v)
        PROVE  Goal
    <3>1. bindings[s][v] \in Instances /\ v \in Services
      BY <2>3 DEF UnbindService, NoteCrossing
    <3>2. <<v, bindings[s][v]>> # None
      BY <3>1 DEF Endpoints
    <3> QED BY <2>3, <3>2 DEF UnbindService, NoteCrossing
  <2>4. ASSUME NEW s \in Clients, Kick(d, s)
        PROVE  Goal
    BY <2>4 DEF Kick
  <2> QED BY <1>6, <2>1, <2>2, <2>3, <2>4 DEF Request
<1>7. CASE UNCHANGED vars
  BY <1>7
<1> QED BY <1>1, <1>2, <1>3, <1>4, <1>5, <1>6, <1>7 DEF Next

\* No action loses a SessionOnlinePush.
LEMMA OnlineStep ==
    TypeOK /\ TaskArgs /\ Stages /\ OnlineOnItsWay /\ [Next]_vars => OnlineOnItsWay'
<1> SUFFICES ASSUME TypeOK, TaskArgs, Stages, OnlineOnItsWay, [Next]_vars
             PROVE  OnlineOnItsWay'
  OBVIOUS
<1> USE GatewayAssumptions
        DEF TypeOK, TaskArgs, Stages, OnlineOnItsWay, Registering, Tasks, Goto, Iterate, Visit,
            sessionVars, registryVars, bindVars, beliefVars, taskVars, vars
<1>1. ASSUME NEW s \in Clients, ClientStep(s) PROVE OnlineOnItsWay'
  <2>1. ASSUME NEW d \in Conns, BroadcastOnline(s, d)
        PROVE  OnlineOnItsWay'
    BY <2>1 DEF BroadcastOnline, Hears, TellOnline
  <2>2. CASE BuildStatus(s)
    BY <2>2 DEF BuildStatus
  <2>3. CASE SendStatus(s)
    BY <2>3 DEF SendStatus
  <2>4. CASE Forward(s)
    BY <2>4 DEF Forward
  <2>5. CASE CleanupSession(s)
    BY <2>5 DEF CleanupSession
  <2>6. ASSUME NEW d \in Conns, BroadcastOffline(s, d)
        PROVE  OnlineOnItsWay'
    BY <2>6 DEF BroadcastOffline, Hears
  <2>7. CASE ClientClosed(s)
    BY <2>7 DEF ClientClosed
  <2> QED BY <1>1, <2>1, <2>2, <2>3, <2>4, <2>5, <2>6, <2>7 DEF ClientStep
<1>2. ASSUME NEW s \in Clients, ClientInput(s) PROVE OnlineOnItsWay'
  <2>1. CASE Connect(s)
    BY <2>1 DEF Connect
  <2>2. CASE StatusReq(s)
    BY <2>2 DEF StatusReq
  <2>3. ASSUME NEW v \in Services, NEW d \in Conns, Resolve(s, v, d)
        PROVE  OnlineOnItsWay'
    BY <2>3 DEF Resolve
  <2>4. CASE ClientClose(s)
    BY <2>4 DEF ClientClose
  <2> QED BY <1>2, <2>1, <2>2, <2>3, <2>4 DEF ClientInput
<1>3. ASSUME NEW s \in Clients, TimerStep(s) PROVE OnlineOnItsWay'
  <2>1. CASE TimerCheck(s)
    BY <2>1 DEF TimerCheck
  <2>2. CASE TimerClose(s)
    BY <2>2 DEF TimerClose
  <2> QED BY <1>3, <2>1, <2>2 DEF TimerStep
<1>4. ASSUME NEW d \in Conns, ConnStep(d) PROVE OnlineOnItsWay'
  <2>1. CASE ClaimInstance(d)
    BY <2>1 DEF ClaimInstance
  <2>2. CASE InsertConn(d)
    BY <2>2 DEF InsertConn
  <2>3. ASSUME NEW l \in Loads, RegisterLoad(d, l)
        PROVE  OnlineOnItsWay'
    BY <2>3 DEF RegisterLoad
  <2>4. CASE ListServers(d)
    BY <2>4 DEF ListServers
  <2>5. CASE RegResp(d)
    <3>1. CASE Goto(d, "idle") /\ ep[d] = None
      BY <2>5, <3>1 DEF RegResp
    <3>2. CASE Goto(d, "announce") /\ ep[d] # None
      BY <2>5, <3>2 DEF RegResp
    <3> QED BY <2>5, <3>1, <3>2 DEF RegResp
  <2>6. ASSUME NEW x \in Conns, AnnounceOnline(d, x)
        PROVE  OnlineOnItsWay'
    BY <2>6 DEF AnnounceOnline
  <2>7. CASE CollectForPush(d)
    BY <2>7 DEF CollectForPush
  <2>8. ASSUME NEW s \in Clients, PushOnline(d, s)
        PROVE  OnlineOnItsWay'
    BY <2>8 DEF PushOnline
  <2>9. CASE CollectForReplay(d)
    BY <2>9 DEF CollectForReplay, AuthenticatedSessions
  <2>10. ASSUME NEW s \in Clients, ReplayOnline(d, s)
        PROVE  OnlineOnItsWay'
    BY <2>10 DEF ReplayOnline, TellOnline
  <2>11. CASE RegDone(d)
    BY <2>11 DEF RegDone
  <2>12. CASE BindService(d)
    BY <2>12 DEF BindService
  <2>13. CASE BoundStatus(d)
    BY <2>13 DEF BoundStatus, EndRequest
  <2>14. CASE UnboundStatus(d)
    BY <2>14 DEF UnboundStatus, EndRequest
  <2>15. CASE KickCleanup(d)
    BY <2>15 DEF KickCleanup, EndRequest
  <2>16. CASE RemoveInstance(d)
    BY <2>16 DEF RemoveInstance
  <2>17. ASSUME NEW x \in Conns, AnnounceOffline(d, x)
        PROVE  OnlineOnItsWay'
    BY <2>17 DEF AnnounceOffline
  <2>18. CASE CollectForNotify(d)
    BY <2>18 DEF CollectForNotify
  <2>19. ASSUME NEW s \in Clients, PushOffline(d, s)
        PROVE  OnlineOnItsWay'
    BY <2>19 DEF PushOffline
  <2>20. CASE UnbindAllByInstance(d)
    BY <2>20 DEF UnbindAllByInstance
  <2> QED
    BY <1>4, <2>1, <2>2, <2>3, <2>4, <2>5, <2>6, <2>7, <2>8, <2>9, <2>10, <2>11,
       <2>12, <2>13, <2>14, <2>15, <2>16, <2>17, <2>18, <2>19, <2>20
    DEF ConnStep
<1>5. ASSUME NEW d \in Conns, ConnInput(d) PROVE OnlineOnItsWay'
  <2>1. CASE ConnOpen(d)
    BY <2>1 DEF ConnOpen
  <2>2. ASSUME NEW e \in RegReqs[d], RegCheck(d, e)
        PROVE  OnlineOnItsWay'
    BY <2>2 DEF RegCheck
  <2>3. ASSUME NEW e \in RegReqs[d], NEW l \in Loads, RefreshReg(d, e, l)
        PROVE  OnlineOnItsWay'
    BY <2>3 DEF RefreshReg
  <2>4. ASSUME NEW l \in Loads, LoadReport(d, l)
        PROVE  OnlineOnItsWay'
    BY <2>4 DEF LoadReport
  <2>5. CASE ConnClose(d)
    BY <2>5 DEF ConnClose
  <2> QED BY <1>5, <2>1, <2>2, <2>3, <2>4, <2>5 DEF ConnInput
<1>6. ASSUME NEW d \in Requesters, Request(d) PROVE OnlineOnItsWay'
  <2>1. ASSUME NEW s \in Clients, NEW v \in BoundServices, BindTarget(d, s, v)
        PROVE  OnlineOnItsWay'
    BY <2>1 DEF BindTarget, BindSelect, NoteCrossing, ListAll
  <2>2. ASSUME NEW s \in Clients, NEW v \in BoundServices, BindAuto(d, s, v)
        PROVE  OnlineOnItsWay'
    BY <2>2 DEF BindAuto, BindSelect, NoteCrossing, LowestLoad
  <2>3. ASSUME NEW s \in Clients, NEW v \in BoundServices, UnbindService(d, s, v)
        PROVE  OnlineOnItsWay'
    BY <2>3 DEF UnbindService, NoteCrossing
  <2>4. ASSUME NEW s \in Clients, Kick(d, s)
        PROVE  OnlineOnItsWay'
    BY <2>4 DEF Kick
  <2> QED BY <1>6, <2>1, <2>2, <2>3, <2>4 DEF Request
<1>7. CASE UNCHANGED vars
  BY <1>7
<1> QED BY <1>1, <1>2, <1>3, <1>4, <1>5, <1>6, <1>7 DEF Next

\* No action leaves an instances entry behind.
LEMMA InstanceStep ==
    TypeOK /\ TaskArgs /\ Stages /\ NoStaleInstanceEntry /\ [Next]_vars
    => NoStaleInstanceEntry'
<1> SUFFICES ASSUME TypeOK, TaskArgs, Stages, NoStaleInstanceEntry, [Next]_vars
             PROVE  NoStaleInstanceEntry'
  OBVIOUS
<1> USE GatewayAssumptions
        DEF TypeOK, TaskArgs, Stages, NoStaleInstanceEntry, Tasks, Goto, Iterate, Visit,
            sessionVars, registryVars, bindVars, beliefVars, taskVars, vars
<1>1. ASSUME NEW s \in Clients, ClientStep(s) PROVE NoStaleInstanceEntry'
  <2>1. ASSUME NEW d \in Conns, BroadcastOnline(s, d)
        PROVE  NoStaleInstanceEntry'
    BY <2>1 DEF BroadcastOnline, Hears, TellOnline
  <2>2. CASE BuildStatus(s)
    BY <2>2 DEF BuildStatus
  <2>3. CASE SendStatus(s)
    BY <2>3 DEF SendStatus
  <2>4. CASE Forward(s)
    BY <2>4 DEF Forward
  <2>5. CASE CleanupSession(s)
    BY <2>5 DEF CleanupSession
  <2>6. ASSUME NEW d \in Conns, BroadcastOffline(s, d)
        PROVE  NoStaleInstanceEntry'
    BY <2>6 DEF BroadcastOffline, Hears
  <2>7. CASE ClientClosed(s)
    BY <2>7 DEF ClientClosed
  <2> QED BY <1>1, <2>1, <2>2, <2>3, <2>4, <2>5, <2>6, <2>7 DEF ClientStep
<1>2. ASSUME NEW s \in Clients, ClientInput(s) PROVE NoStaleInstanceEntry'
  <2>1. CASE Connect(s)
    BY <2>1 DEF Connect
  <2>2. CASE StatusReq(s)
    BY <2>2 DEF StatusReq
  <2>3. ASSUME NEW v \in Services, NEW d \in Conns, Resolve(s, v, d)
        PROVE  NoStaleInstanceEntry'
    BY <2>3 DEF Resolve
  <2>4. CASE ClientClose(s)
    BY <2>4 DEF ClientClose
  <2> QED BY <1>2, <2>1, <2>2, <2>3, <2>4 DEF ClientInput
<1>3. ASSUME NEW s \in Clients, TimerStep(s) PROVE NoStaleInstanceEntry'
  <2>1. CASE TimerCheck(s)
    BY <2>1 DEF TimerCheck
  <2>2. CASE TimerClose(s)
    BY <2>2 DEF TimerClose
  <2> QED BY <1>3, <2>1, <2>2 DEF TimerStep
<1>4. ASSUME NEW d \in Conns, ConnStep(d) PROVE NoStaleInstanceEntry'
  <2>1. CASE ClaimInstance(d)
    BY <2>1 DEF ClaimInstance
  <2>2. CASE InsertConn(d)
    BY <2>2 DEF InsertConn
  <2>3. ASSUME NEW l \in Loads, RegisterLoad(d, l)
        PROVE  NoStaleInstanceEntry'
    BY <2>3 DEF RegisterLoad
  <2>4. CASE ListServers(d)
    BY <2>4 DEF ListServers
  <2>5. CASE RegResp(d)
    BY <2>5 DEF RegResp
  <2>6. ASSUME NEW x \in Conns, AnnounceOnline(d, x)
        PROVE  NoStaleInstanceEntry'
    BY <2>6 DEF AnnounceOnline
  <2>7. CASE CollectForPush(d)
    BY <2>7 DEF CollectForPush
  <2>8. ASSUME NEW s \in Clients, PushOnline(d, s)
        PROVE  NoStaleInstanceEntry'
    BY <2>8 DEF PushOnline
  <2>9. CASE CollectForReplay(d)
    BY <2>9 DEF CollectForReplay, AuthenticatedSessions
  <2>10. ASSUME NEW s \in Clients, ReplayOnline(d, s)
        PROVE  NoStaleInstanceEntry'
    BY <2>10 DEF ReplayOnline, TellOnline
  <2>11. CASE RegDone(d)
    BY <2>11 DEF RegDone
  <2>12. CASE BindService(d)
    BY <2>12 DEF BindService
  <2>13. CASE BoundStatus(d)
    BY <2>13 DEF BoundStatus, EndRequest
  <2>14. CASE UnboundStatus(d)
    BY <2>14 DEF UnboundStatus, EndRequest
  <2>15. CASE KickCleanup(d)
    BY <2>15 DEF KickCleanup, EndRequest
  <2>16. CASE RemoveInstance(d)
    BY <2>16 DEF RemoveInstance
  <2>17. ASSUME NEW x \in Conns, AnnounceOffline(d, x)
        PROVE  NoStaleInstanceEntry'
    BY <2>17 DEF AnnounceOffline
  <2>18. CASE CollectForNotify(d)
    BY <2>18 DEF CollectForNotify
  <2>19. ASSUME NEW s \in Clients, PushOffline(d, s)
        PROVE  NoStaleInstanceEntry'
    BY <2>19 DEF PushOffline
  <2>20. CASE UnbindAllByInstance(d)
    BY <2>20 DEF UnbindAllByInstance
  <2> QED
    BY <1>4, <2>1, <2>2, <2>3, <2>4, <2>5, <2>6, <2>7, <2>8, <2>9, <2>10, <2>11,
       <2>12, <2>13, <2>14, <2>15, <2>16, <2>17, <2>18, <2>19, <2>20
    DEF ConnStep
<1>5. ASSUME NEW d \in Conns, ConnInput(d) PROVE NoStaleInstanceEntry'
  <2>1. CASE ConnOpen(d)
    BY <2>1 DEF ConnOpen
  <2>2. ASSUME NEW e \in RegReqs[d], RegCheck(d, e)
        PROVE  NoStaleInstanceEntry'
    BY <2>2 DEF RegCheck
  <2>3. ASSUME NEW e \in RegReqs[d], NEW l \in Loads, RefreshReg(d, e, l)
        PROVE  NoStaleInstanceEntry'
    BY <2>3 DEF RefreshReg
  <2>4. ASSUME NEW l \in Loads, LoadReport(d, l)
        PROVE  NoStaleInstanceEntry'
    BY <2>4 DEF LoadReport
  <2>5. CASE ConnClose(d)
    BY <2>5 DEF ConnClose
  <2> QED BY <1>5, <2>1, <2>2, <2>3, <2>4, <2>5 DEF ConnInput
<1>6. ASSUME NEW d \in Requesters, Request(d) PROVE NoStaleInstanceEntry'
  <2>1. ASSUME NEW s \in Clients, NEW v \in BoundServices, BindTarget(d, s, v)
        PROVE  NoStaleInstanceEntry'
    BY <2>1 DEF BindTarget, BindSelect, NoteCrossing, ListAll
  <2>2. ASSUME NEW s \in Clients, NEW v \in BoundServices, BindAuto(d, s, v)
        PROVE  NoStaleInstanceEntry'
    BY <2>2 DEF BindAuto, BindSelect, NoteCrossing, LowestLoad
  <2>3. ASSUME NEW s \in Clients, NEW v \in BoundServices, UnbindService(d, s, v)
        PROVE  NoStaleInstanceEntry'
    BY <2>3 DEF UnbindService, NoteCrossing
  <2>4. ASSUME NEW s \in Clients, Kick(d, s)
        PROVE  NoStaleInstanceEntry'
    BY <2>4 DEF Kick
  <2> QED BY <1>6, <2>1, <2>2, <2>3, <2>4 DEF Request
<1>7. CASE UNCHANGED vars
  BY <1>7
<1> QED BY <1>1, <1>2, <1>3, <1>4, <1>5, <1>6, <1>7 DEF Next

----------------------------------------------------------------------------
(***************************************************************************)
(* What a client is shown.  A binding and an unbinding of one session by   *)
(* two backends may overlap: the status of the one that was handled first  *)
(* can be sent last, and the client then believes its service gone.  So    *)
(* these facts are about the pairs of a session and a service for which no *)
(* two requests have overlapped (crossed).                                 *)
(***************************************************************************)
\* InternalDelegate.registered is the endpoint in conns, and stays when the
\* connection is removed.
Recorded ==
    /\ \A d \in Conns : conns[d] # None /\ pc[d] # "load" => registered[d] = conns[d]
    /\ \A d \in Conns :
        /\ pc[d] \in {"load", "announce", "pushOn"} => conns[d] = ep[d]
        /\ pc[d] \in {"list", "reply"} => conns[d] # None /\ ep[d] \in {None, conns[d]}
        /\ pc[d] \in {"removed", "retire", "pushOff"} => registered[d] = ep[d]
    /\ \A d \in Conns :
        registered[d] # None =>
            \/ conns[d] = registered[d]
            \/ pc[d] \in {"removed", "retire", "pushOff", "closed"}

\* Until the client is told that it is unbound, it is not bound again, unless
\* two requests have overlapped; and an overlap that goes on is recorded.
Requested ==
    /\ \A d \in Conns : pc[d] \in {"bind", "bound", "unbound"} =>
         who[d] # None /\ ep[d] # None /\ ep[d][1] \in BoundServices
    /\ \A d \in Conns : pc[d] = "unbound" =>
         \/ bindings[who[d]][ep[d][1]] = None
         \/ <<who[d], ep[d][1]>> \in crossed
    /\ \A d, x \in Conns :
         /\ pc[d] \in {"bind", "bound", "unbound"}
         /\ x # d /\ Binding(x, who[d], ep[d][1])
         => <<who[d], ep[d][1]>> \in crossed

\* The client knows the endpoint of d, or is going to be told: by its status
\* reply, by the push of the registration, or by the answer to a binding.
Shows(s, d) ==
    \/ conns[d] \in shown[s]
    \/ pc[s] = "online"
    \/ pc[s] = "status" /\ conns[d] \in list[s]
    \/ pc[d] \in {"load", "list", "reply", "announce"} /\ ep[d] # None
    \/ pc[d] = "pushOn" /\ s \in todo[d]
    \/ \E y \in Conns : pc[y] = "bound" /\ who[y] = s /\ ep[y] = conns[d]

\* The endpoint of d has had no other connection.
OnlyConn(d) == conns[d] # None /\ \A x \in Conns \ {d} : registered[x] # conns[d]

\* Inductive form of ClientSeesRegistered.
StatusOnItsWay ==
    \A s \in Clients, d \in Conns :
        /\ sessions[s] = "auth" /\ OnlyConn(d) /\ ServiceVisible(s, conns[d])
        /\ <<s, conns[d][1]>> \notin crossed
        => Shows(s, d)

\* The delegate keeps the endpoint it registered.
LEMMA RecordedStep ==
    TypeOK /\ TaskArgs /\ Stages /\ Recorded /\ [Next]_vars
    => Recorded'
<1> SUFFICES ASSUME TypeOK, TaskArgs, Stages, Recorded, [Next]_vars
             PROVE  Recorded'
  OBVIOUS
<1> USE GatewayAssumptions
        DEF TypeOK, TaskArgs, Stages, Recorded, Tasks, Goto, Iterate, Visit,
            sessionVars, registryVars, bindVars, beliefVars, taskVars, vars
<1>1. ASSUME NEW s \in Clients, ClientStep(s) PROVE Recorded'
  <2>1. ASSUME NEW d \in Conns, BroadcastOnline(s, d)
        PROVE  Recorded'
    BY <2>1 DEF BroadcastOnline, Hears, TellOnline
  <2>2. CASE BuildStatus(s)
    BY <2>2 DEF BuildStatus
  <2>3. CASE SendStatus(s)
    BY <2>3 DEF SendStatus
  <2>4. CASE Forward(s)
    BY <2>4 DEF Forward
  <2>5. CASE CleanupSession(s)
    BY <2>5 DEF CleanupSession
  <2>6. ASSUME NEW d \in Conns, BroadcastOffline(s, d)
        PROVE  Recorded'
    BY <2>6 DEF BroadcastOffline, Hears
  <2>7. CASE ClientClosed(s)
    BY <2>7 DEF ClientClosed
  <2> QED BY <1>1, <2>1, <2>2, <2>3, <2>4, <2>5, <2>6, <2>7 DEF ClientStep
<1>2. ASSUME NEW s \in Clients, ClientInput(s) PROVE Recorded'
  <2>1. CASE Connect(s)
    BY <2>1 DEF Connect
  <2>2. CASE StatusReq(s)
    BY <2>2 DEF StatusReq
  <2>3. ASSUME NEW v \in Services, NEW d \in Conns, Resolve(s, v, d)
        PROVE  Recorded'
    BY <2>3 DEF Resolve
  <2>4. CASE ClientClose(s)
    BY <2>4 DEF ClientClose
  <2> QED BY <1>2, <2>1, <2>2, <2>3, <2>4 DEF ClientInput
<1>3. ASSUME NEW s \in Clients, TimerStep(s) PROVE Recorded'
  <2>1. CASE TimerCheck(s)
    BY <2>1 DEF TimerCheck
  <2>2. CASE TimerClose(s)
    BY <2>2 DEF TimerClose
  <2> QED BY <1>3, <2>1, <2>2 DEF TimerStep
<1>4. ASSUME NEW d \in Conns, ConnStep(d) PROVE Recorded'
  <2>1. CASE ClaimInstance(d)
    BY <2>1 DEF ClaimInstance
  <2>2. CASE InsertConn(d)
    BY <2>2 DEF InsertConn
  <2>3. ASSUME NEW l \in Loads, RegisterLoad(d, l)
        PROVE  Recorded'
    BY <2>3 DEF RegisterLoad
  <2>4. CASE ListServers(d)
    BY <2>4 DEF ListServers
  <2>5. CASE RegResp(d)
    <3>1. CASE Goto(d, "idle") /\ ep[d] = None
      BY <2>5, <3>1 DEF RegResp
    <3>2. CASE Goto(d, "announce") /\ ep[d] # None
      BY <2>5, <3>2 DEF RegResp
    <3> QED BY <2>5, <3>1, <3>2 DEF RegResp
  <2>6. ASSUME NEW x \in Conns, AnnounceOnline(d, x)
        PROVE  Recorded'
    BY <2>6 DEF AnnounceOnline
  <2>7. CASE CollectForPush(d)
    BY <2>7 DEF CollectForPush
  <2>8. ASSUME NEW s \in Clients, PushOnline(d, s)
        PROVE  Recorded'
    BY <2>8 DEF PushOnline
  <2>9. CASE CollectForReplay(d)
    BY <2>9 DEF CollectForReplay, AuthenticatedSessions
  <2>10. ASSUME NEW s \in Clients, ReplayOnline(d, s)
        PROVE  Recorded'
    BY <2>10 DEF ReplayOnline, TellOnline
  <2>11. CASE RegDone(d)
    BY <2>11 DEF RegDone
  <2>12. CASE BindService(d)
    BY <2>12 DEF BindService
  <2>13. CASE BoundStatus(d)
    BY <2>13 DEF BoundStatus, EndRequest
  <2>14. CASE UnboundStatus(d)
    BY <2>14 DEF UnboundStatus, EndRequest
  <2>15. CASE KickCleanup(d)
    BY <2>15 DEF KickCleanup, EndRequest
  <2>16. CASE RemoveInstance(d)
    BY <2>16 DEF RemoveInstance
  <2>17. ASSUME NEW x \in Conns, AnnounceOffline(d, x)
        PROVE  Recorded'
    BY <2>17 DEF AnnounceOffline
  <2>18. CASE CollectForNotify(d)
    BY <2>18 DEF CollectForNotify
  <2>19. ASSUME NEW s \in Clients, PushOffline(d, s)
        PROVE  Recorded'
    BY <2>19 DEF PushOffline
  <2>20. CASE UnbindAllByInstance(d)
    BY <2>20 DEF UnbindAllByInstance
  <2> QED
    BY <1>4, <2>1, <2>2, <2>3, <2>4, <2>5, <2>6, <2>7, <2>8, <2>9, <2>10, <2>11,
       <2>12, <2>13, <2>14, <2>15, <2>16, <2>17, <2>18, <2>19, <2>20
    DEF ConnStep
<1>5. ASSUME NEW d \in Conns, ConnInput(d) PROVE Recorded'
  <2>1. CASE ConnOpen(d)
    BY <2>1 DEF ConnOpen
  <2>2. ASSUME NEW e \in RegReqs[d], RegCheck(d, e)
        PROVE  Recorded'
    BY <2>2 DEF RegCheck
  <2>3. ASSUME NEW e \in RegReqs[d], NEW l \in Loads, RefreshReg(d, e, l)
        PROVE  Recorded'
    BY <2>3 DEF RefreshReg
  <2>4. ASSUME NEW l \in Loads, LoadReport(d, l)
        PROVE  Recorded'
    BY <2>4 DEF LoadReport
  <2>5. CASE ConnClose(d)
    BY <2>5 DEF ConnClose
  <2> QED BY <1>5, <2>1, <2>2, <2>3, <2>4, <2>5 DEF ConnInput
<1>6. ASSUME NEW d \in Requesters, Request(d) PROVE Recorded'
  <2>1. ASSUME NEW s \in Clients, NEW v \in BoundServices, BindTarget(d, s, v)
        PROVE  Recorded'
    BY <2>1 DEF BindTarget, BindSelect, NoteCrossing, ListAll
  <2>2. ASSUME NEW s \in Clients, NEW v \in BoundServices, BindAuto(d, s, v)
        PROVE  Recorded'
    BY <2>2 DEF BindAuto, BindSelect, NoteCrossing, LowestLoad
  <2>3. ASSUME NEW s \in Clients, NEW v \in BoundServices, UnbindService(d, s, v)
        PROVE  Recorded'
    BY <2>3 DEF UnbindService, NoteCrossing
  <2>4. ASSUME NEW s \in Clients, Kick(d, s)
        PROVE  Recorded'
    BY <2>4 DEF Kick
  <2> QED BY <1>6, <2>1, <2>2, <2>3, <2>4 DEF Request
<1>7. CASE UNCHANGED vars
  BY <1>7
<1> QED BY <1>1, <1>2, <1>3, <1>4, <1>5, <1>6, <1>7 DEF Next

\* Only an overlapping request binds a session that is to be told of its
\* unbinding.
LEMMA RequestedStep ==
    TypeOK /\ TaskArgs /\ Stages /\ Requested /\ [Next]_vars
    => Requested'
<1> SUFFICES ASSUME TypeOK, TaskArgs, Stages, Requested, [Next]_vars
             PROVE  Requested'
  OBVIOUS
<1> USE GatewayAssumptions
        DEF TypeOK, TaskArgs, Stages, Requested, Binding, Tasks, Goto, Iterate, Visit,
            sessionVars, registryVars, bindVars, beliefVars, taskVars, vars
<1>1. ASSUME NEW s \in Clients, ClientStep(s) PROVE Requested'
  <2>1. ASSUME NEW d \in Conns, BroadcastOnline(s, d)
        PROVE  Requested'
    BY <2>1 DEF BroadcastOnline, Hears, TellOnline
  <2>2. CASE BuildStatus(s)
    BY <2>2 DEF BuildStatus
  <2>3. CASE SendStatus(s)
    BY <2>3 DEF SendStatus
  <2>4. CASE Forward(s)
    BY <2>4 DEF Forward
  <2>5. CASE CleanupSession(s)
    BY <2>5 DEF CleanupSession
  <2>6. ASSUME NEW d \in Conns, BroadcastOffline(s, d)
        PROVE  Requested'
    BY <2>6 DEF BroadcastOffline, Hears
  <2>7. CASE ClientClosed(s)
    BY <2>7 DEF ClientClosed
  <2> QED BY <1>1, <2>1, <2>2, <2>3, <2>4, <2>5, <2>6, <2>7 DEF ClientStep
<1>2. ASSUME NEW s \in Clients, ClientInput(s) PROVE Requested'
  <2>1. CASE Connect(s)
    BY <2>1 DEF Connect
  <2>2. CASE StatusReq(s)
    BY <2>2 DEF StatusReq
  <2>3. ASSUME NEW v \in Services, NEW d \in Conns, Resolve(s, v, d)
        PROVE  Requested'
    BY <2>3 DEF Resolve
  <2>4. CASE ClientClose(s)
    BY <2>4 DEF ClientClose
  <2> QED BY <1>2, <2>1, <2>2, <2>3, <2>4 DEF ClientInput
<1>3. ASSUME NEW s \in Clients, TimerStep(s) PROVE Requested'
  <2>1. CASE TimerCheck(s)
    BY <2>1 DEF TimerCheck
  <2>2. CASE TimerClose(s)
    BY <2>2 DEF TimerClose
  <2> QED BY <1>3, <2>1, <2>2 DEF TimerStep
<1>4. ASSUME NEW d \in Conns, ConnStep(d) PROVE Requested'
  <2>1. CASE ClaimInstance(d)
    BY <2>1 DEF ClaimInstance
  <2>2. CASE InsertConn(d)
    BY <2>2 DEF InsertConn
  <2>3. ASSUME NEW l \in Loads, RegisterLoad(d, l)
        PROVE  Requested'
    BY <2>3 DEF RegisterLoad
  <2>4. CASE ListServers(d)
    BY <2>4 DEF ListServers
  <2>5. CASE RegResp(d)
    <3>1. CASE Goto(d, "idle") /\ ep[d] = None
      BY <2>5, <3>1 DEF RegResp
    <3>2. CASE Goto(d, "announce") /\ ep[d] # None
      BY <2>5, <3>2 DEF RegResp
    <3> QED BY <2>5, <3>1, <3>2 DEF RegResp
  <2>6. ASSUME NEW x \in Conns, AnnounceOnline(d, x)
        PROVE  Requested'
    BY <2>6 DEF AnnounceOnline
  <2>7. CASE CollectForPush(d)
    BY <2>7 DEF CollectForPush
  <2>8. ASSUME NEW s \in Clients, PushOnline(d, s)
        PROVE  Requested'
    BY <2>8 DEF PushOnline
  <2>9. CASE CollectForReplay(d)
    BY <2>9 DEF CollectForReplay, AuthenticatedSessions
  <2>10. ASSUME NEW s \in Clients, ReplayOnline(d, s)
        PROVE  Requested'
    BY <2>10 DEF ReplayOnline, TellOnline
  <2>11. CASE RegDone(d)
    BY <2>11 DEF RegDone
  <2>12. CASE BindService(d)
    BY <2>12 DEF BindService
  <2>13. CASE BoundStatus(d)
    BY <2>13 DEF BoundStatus, EndRequest
  <2>14. CASE UnboundStatus(d)
    BY <2>14 DEF UnboundStatus, EndRequest
  <2>15. CASE KickCleanup(d)
    BY <2>15 DEF KickCleanup, EndRequest
  <2>16. CASE RemoveInstance(d)
    BY <2>16 DEF RemoveInstance
  <2>17. ASSUME NEW x \in Conns, AnnounceOffline(d, x)
        PROVE  Requested'
    BY <2>17 DEF AnnounceOffline
  <2>18. CASE CollectForNotify(d)
    BY <2>18 DEF CollectForNotify
  <2>19. ASSUME NEW s \in Clients, PushOffline(d, s)
        PROVE  Requested'
    BY <2>19 DEF PushOffline
  <2>20. CASE UnbindAllByInstance(d)
    <3>1. \A x \in Conns : pc[x] = "unbound" => who[x] \in Clients /\ ep[x][1] \in Services
      OBVIOUS
    <3>2. \A s \in Clients, v \in Services : bindings[s][v] = None => bindings'[s][v] = None
      BY <2>20 DEF UnbindAllByInstance
    <3>3. /\ pc' = [pc EXCEPT ![d] = "closed"] /\ who' = who /\ crossed' = crossed
          /\ \A x \in Conns \ {d} : ep'[x] = ep[x]
      BY <2>20 DEF UnbindAllByInstance
    <3>4. \A x \in Conns : pc'[x] \in {"bind", "bound", "unbound"} =>
            x # d /\ pc'[x] = pc[x] /\ who'[x] = who[x] /\ ep'[x] = ep[x]
      BY <3>3
    <3>5. \A x \in Conns : pc'[x] = "unbound" =>
            \/ bindings'[who'[x]][ep'[x][1]] = None
            \/ <<who'[x], ep'[x][1]>> \in crossed'
      BY <3>1, <3>2, <3>3, <3>4
    <3> QED BY <3>3, <3>4, <3>5
  <2> QED
    BY <1>4, <2>1, <2>2, <2>3, <2>4, <2>5, <2>6, <2>7, <2>8, <2>9, <2>10, <2>11,
       <2>12, <2>13, <2>14, <2>15, <2>16, <2>17, <2>18, <2>19, <2>20
    DEF ConnStep
<1>5. ASSUME NEW d \in Conns, ConnInput(d) PROVE Requested'
  <2>1. CASE ConnOpen(d)
    BY <2>1 DEF ConnOpen
  <2>2. ASSUME NEW e \in RegReqs[d], RegCheck(d, e)
        PROVE  Requested'
    BY <2>2 DEF RegCheck
  <2>3. ASSUME NEW e \in RegReqs[d], NEW l \in Loads, RefreshReg(d, e, l)
        PROVE  Requested'
    BY <2>3 DEF RefreshReg
  <2>4. ASSUME NEW l \in Loads, LoadReport(d, l)
        PROVE  Requested'
    BY <2>4 DEF LoadReport
  <2>5. CASE ConnClose(d)
    BY <2>5 DEF ConnClose
  <2> QED BY <1>5, <2>1, <2>2, <2>3, <2>4, <2>5 DEF ConnInput
<1>6. ASSUME NEW d \in Requesters, Request(d) PROVE Requested'
  <2>1. ASSUME NEW s \in Clients, NEW v \in BoundServices, BindTarget(d, s, v)
        PROVE  Requested'
    BY <2>1 DEF BindTarget, BindSelect, NoteCrossing, ListAll
  <2>2. ASSUME NEW s \in Clients, NEW v \in BoundServices, BindAuto(d, s, v)
        PROVE  Requested'
    BY <2>2 DEF BindAuto, BindSelect, NoteCrossing, LowestLoad
  <2>3. ASSUME NEW s \in Clients, NEW v \in BoundServices, UnbindService(d, s, v)
        PROVE  Requested'
    <3>1. bindings[s][v] \in Instances /\ v \in Services
      BY <2>3 DEF UnbindService, NoteCrossing
    <3>2. <<v, bindings[s][v]>> # None /\ <<v, bindings[s][v]>>[1] = v /\ s # None
      BY <3>1 DEF Endpoints
    <3>3. /\ pc' = [pc EXCEPT ![d] = "unbound"] /\ who' = [who EXCEPT ![d] = s]
          /\ ep' = [ep EXCEPT ![d] = <<v, bindings[s][v]>>]
          /\ bindings' = [bindings EXCEPT ![s][v] = None]
          /\ crossed' = IF \E x \in Conns \ {d} : Binding(x, s, v)
                        THEN crossed \cup {<<s, v>>} ELSE crossed
      BY <2>3 DEF UnbindService, NoteCrossing
    <3>4. crossed \subseteq crossed'
      BY <3>3
    <3>5. \A x \in Conns \ {d} :
            pc'[x] = pc[x] /\ who'[x] = who[x] /\ ep'[x] = ep[x]
      BY <3>3
    <3>6. who'[d] = s /\ ep'[d] # None /\ ep'[d][1] = v
      BY <3>2, <3>3
    <3>7. bindings'[s][v] = None /\ \A r \in Clients, w \in Services :
            bindings[r][w] = None => bindings'[r][w] = None
      BY <3>1, <3>3
    <3>8. \A x \in Conns : pc'[x] \in {"bind", "bound", "unbound"} =>
            who'[x] # None /\ ep'[x] # None /\ ep'[x][1] \in BoundServices
      BY <3>2, <3>5, <3>6
    <3>9. \A x \in Conns : pc'[x] = "unbound" =>
            \/ bindings'[who'[x]][ep'[x][1]] = None
            \/ <<who'[x], ep'[x][1]>> \in crossed'
      BY <3>4, <3>5, <3>6, <3>7
    <3>10. \A x, y \in Conns :
             /\ pc'[x] \in {"bind", "bound", "unbound"}
             /\ y # x /\ Binding(y, who[x], ep[x][1])'
             => <<who'[x], ep'[x][1]>> \in crossed'
      BY <3>3, <3>4, <3>5, <3>6
    <3> QED BY <3>8, <3>9, <3>10
  <2>4. ASSUME NEW s \in Clients, Kick(d, s)
        PROVE  Requested'
    BY <2>4 DEF Kick
  <2> QED BY <1>6, <2>1, <2>2, <2>3, <2>4 DEF Request
<1>7. CASE UNCHANGED vars
  BY <1>7
<1> QED BY <1>1, <1>2, <1>3, <1>4, <1>5, <1>6, <1>7 DEF Next

\* No action loses the status of an endpoint: whoever makes it visible, or
\* registers it, still has to send it.
LEMMA StatusStep ==
    TypeOK /\ TaskArgs /\ Stages /\ Recorded /\ Requested /\ StatusOnItsWay /\ [Next]_vars
    => StatusOnItsWay'
<1> SUFFICES ASSUME TypeOK, TaskArgs, Stages, Recorded, Requested, StatusOnItsWay, [Next]_vars,
                    NEW z \in Clients, NEW k \in Conns,
                    sessions'[z] = "auth", OnlyConn(k)', ServiceVisible(z, conns[k])',
                    <<z, conns[k][1]>>' \notin crossed'
             PROVE  Shows(z, k)'
  BY DEF StatusOnItsWay
<1> DEFINE Goal == Shows(z, k)'
<1>h. /\ sessions[z] = "auth" /\ OnlyConn(k) /\ ServiceVisible(z, conns[k])
      /\ <<z, conns[k][1]>> \notin crossed
      => Shows(z, k)
  BY DEF StatusOnItsWay
<1> USE GatewayAssumptions
        DEF TypeOK, Shows, OnlyConn, ServiceVisible, ServiceHasUnboundRoute, Tasks, Goto,
            Iterate, Visit,
            sessionVars, registryVars, bindVars, beliefVars, taskVars, vars
<1>p. \A x \in Conns : conns[x] # None =>
        conns[x] \in Endpoints /\ conns[x][1] \in Services /\ conns[x][2] \in Instances
  BY EndpointParts
<1>b. ASSUME UNCHANGED <<sessions, conns, registered>>, crossed \subseteq crossed',
             \A v \in Services : bindings'[z][v] \in {bindings[z][v], None}
      PROVE  Shows(z, k)
  <2>1. sessions[z] = "auth" /\ OnlyConn(k) /\ <<z, conns[k][1]>> \notin crossed
    BY <1>b
  <2>2. conns[k][1] \in Services /\ conns[k][2] # None
    BY <1>p, <2>1
  <2>3. ServiceVisible(z, conns[k])
    BY <1>b, <2>2
  <2> QED BY <1>h, <2>1, <2>3
<1>k. ASSUME NEW d \in Conns, Shows(z, k), conns'[k] = conns[k],
             conns[k] \in shown[z] => conns[k] \in shown'[z],
             pc[d] \in {"idle", "replay", "bind", "bound", "unbound", "kick", "pushOff"},
             pc[d] = "bound" => ~(who[d] = z /\ ep[d] = conns[k]),
             \A u \in Tasks \ {d} : pc'[u] = pc[u] /\ list'[u] = list[u] /\ todo'[u] = todo[u],
             \A x \in Conns \ {d} : who'[x] = who[x] /\ ep'[x] = ep[x]
      PROVE  Goal
  <2>1. z \in Tasks \ {d} /\ (k # d => k \in Tasks \ {d})
    OBVIOUS
  <2>2. CASE conns[k] \in shown[z]
    BY <1>k, <2>2
  <2>3. CASE pc[z] = "online" \/ (pc[z] = "status" /\ conns[k] \in list[z])
    BY <1>k, <2>1, <2>3
  <2>4. CASE \/ pc[k] \in {"load", "list", "reply", "announce"} /\ ep[k] # None
             \/ pc[k] = "pushOn" /\ z \in todo[k]
    <3>1. k # d
      BY <1>k, <2>4
    <3>2. pc'[k] = pc[k] /\ todo'[k] = todo[k] /\ ep'[k] = ep[k]
      BY <1>k, <2>1, <3>1
    <3> QED BY <2>4, <3>2
  <2>5. ASSUME NEW y \in Conns, pc[y] = "bound", who[y] = z, ep[y] = conns[k]
        PROVE  Goal
    <3>1. y # d
      BY <1>k, <2>5
    <3>2. pc'[y] = "bound" /\ who'[y] = z /\ ep'[y] = conns'[k]
      BY <1>k, <2>5, <3>1
    <3> QED BY <3>2
  <2> QED BY <1>k, <2>2, <2>3, <2>4, <2>5
<1>1. ASSUME NEW s \in Clients, ClientStep(s) PROVE Goal
  <2>1. ASSUME NEW d \in Conns, BroadcastOnline(s, d)
        PROVE  Goal
    BY <1>h, <2>1 DEF BroadcastOnline, Hears, TellOnline
  <2>2. CASE BuildStatus(s)
    <3>1. conns[k] \in ListAll({}) /\ ServiceVisible(z, conns[k]) /\ Shows(z, k)
      BY <1>h, <2>2 DEF BuildStatus, ListAll
    <3>2. CASE s = z
      <4>1. conns[k] \in list'[z]
        BY <2>2, <3>1, <3>2 DEF BuildStatus
      <4> QED BY <2>2, <3>2, <4>1 DEF BuildStatus
    <3>3. CASE s # z
      BY <2>2, <3>1, <3>3 DEF BuildStatus
    <3> QED BY <3>2, <3>3
  <2>3. CASE SendStatus(s)
    BY <1>h, <2>3 DEF SendStatus
  <2>4. CASE Forward(s)
    BY <1>h, <2>4 DEF Forward
  <2>5. CASE CleanupSession(s)
    <3>1. Shows(z, k)
      BY <1>b, <2>5 DEF CleanupSession
    <3> QED BY <2>5, <3>1 DEF CleanupSession, Stages
  <2>6. ASSUME NEW d \in Conns, BroadcastOffline(s, d)
        PROVE  Goal
    BY <1>h, <2>6 DEF BroadcastOffline, Hears
  <2>7. CASE ClientClosed(s)
    BY <1>h, <2>7 DEF ClientClosed
  <2> QED BY <1>1, <2>1, <2>2, <2>3, <2>4, <2>5, <2>6, <2>7 DEF ClientStep
<1>2. ASSUME NEW s \in Clients, ClientInput(s) PROVE Goal
  <2>1. CASE Connect(s)
    BY <1>h, <2>1 DEF Connect
  <2>2. CASE StatusReq(s)
    BY <1>h, <2>2 DEF StatusReq
  <2>3. ASSUME NEW v \in Services, NEW d \in Conns, Resolve(s, v, d)
        PROVE  Goal
    BY <1>h, <2>3 DEF Resolve
  <2>4. CASE ClientClose(s)
    BY <1>h, <2>4 DEF ClientClose
  <2> QED BY <1>2, <2>1, <2>2, <2>3, <2>4 DEF ClientInput
<1>3. ASSUME NEW s \in Clients, TimerStep(s) PROVE Goal
  <2>1. CASE TimerCheck(s)
    BY <1>h, <2>1 DEF TimerCheck
  <2>2. CASE TimerClose(s)
    BY <1>h, <2>2 DEF TimerClose
  <2> QED BY <1>3, <2>1, <2>2 DEF TimerStep
<1>4. ASSUME NEW d \in Conns, ConnStep(d) PROVE Goal
  <2>1. CASE ClaimInstance(d)
    BY <1>h, <2>1 DEF ClaimInstance
  <2>2. CASE InsertConn(d)
    BY <1>h, <2>2 DEF InsertConn
  <2>3. ASSUME NEW l \in Loads, RegisterLoad(d, l)
        PROVE  Goal
    <3>1. CASE d = k
      BY <2>3, <3>1 DEF RegisterLoad, TaskArgs
    <3>2. CASE d # k
      <4>1. registered[d] \in {None, ep[d]} /\ registered'[d] = ep[d]
        BY <2>3 DEF RegisterLoad, Recorded
      <4>2. /\ sessions[z] = "auth" /\ OnlyConn(k) /\ ServiceVisible(z, conns[k])
            /\ <<z, conns[k][1]>> \notin crossed
        BY <2>3, <4>1 DEF RegisterLoad
      <4>3. Shows(z, k)
        BY <1>h, <4>2
      <4> QED BY <2>3, <3>2, <4>3 DEF RegisterLoad
    <3> QED BY <3>1, <3>2
  <2>4. CASE ListServers(d)
    BY <1>h, <2>4 DEF ListServers
  <2>5. CASE RegResp(d)
    <3>1. CASE Goto(d, "idle") /\ ep[d] = None
      BY <1>h, <2>5, <3>1 DEF RegResp
    <3>2. CASE Goto(d, "announce") /\ ep[d] # None
      BY <1>h, <2>5, <3>2 DEF RegResp
    <3> QED BY <1>h, <2>5, <3>1, <3>2 DEF RegResp
  <2>6. ASSUME NEW x \in Conns, AnnounceOnline(d, x)
        PROVE  Goal
    BY <1>h, <2>6 DEF AnnounceOnline
  <2>7. CASE CollectForPush(d)
    <3>1. CASE d = k
      BY <2>7, <3>1 DEF CollectForPush, AuthenticatedSessions
    <3>2. CASE d # k
      BY <1>h, <2>7, <3>2 DEF CollectForPush, AuthenticatedSessions
    <3> QED BY <3>1, <3>2
  <2>8. ASSUME NEW s \in Clients, PushOnline(d, s)
        PROVE  Goal
    <3>1. sessions[z] = "auth" /\ ServiceVisible(z, conns[k]) /\ Shows(z, k)
      BY <1>h, <2>8 DEF PushOnline
    <3>2. CASE d = k /\ s = z
      <4>1. ep[d] = conns[k]
        BY <2>8, <3>2 DEF PushOnline, Recorded
      <4>2. conns[k] \in shown'[z]
        BY <2>8, <3>1, <3>2, <4>1 DEF PushOnline
      <4> QED BY <2>8, <4>2 DEF PushOnline
    <3>3. CASE ~(d = k /\ s = z)
      BY <2>8, <3>1, <3>3 DEF PushOnline
    <3> QED BY <3>2, <3>3
  <2>9. CASE CollectForReplay(d)
    BY <1>h, <2>9 DEF CollectForReplay, AuthenticatedSessions
  <2>10. ASSUME NEW s \in Clients, ReplayOnline(d, s)
        PROVE  Goal
    <3>1. Shows(z, k)
      BY <1>h, <2>10 DEF ReplayOnline
    <3>2. /\ conns'[k] = conns[k]
          /\ \A u \in Tasks \ {d} : pc'[u] = pc[u] /\ list'[u] = list[u] /\ todo'[u] = todo[u]
          /\ \A x \in Conns \ {d} : who'[x] = who[x] /\ ep'[x] = ep[x]
          /\ pc[d] = "replay" /\ shown' = shown
      BY <2>10 DEF ReplayOnline
    <3> QED BY <1>k, <3>1, <3>2
  <2>11. CASE RegDone(d)
    <3>1. Shows(z, k)
      BY <1>h, <2>11 DEF RegDone
    <3>2. /\ conns'[k] = conns[k]
          /\ \A u \in Tasks \ {d} : pc'[u] = pc[u] /\ list'[u] = list[u] /\ todo'[u] = todo[u]
          /\ \A x \in Conns \ {d} : who'[x] = who[x] /\ ep'[x] = ep[x]
          /\ pc[d] = "replay" /\ shown' = shown
      BY <2>11 DEF RegDone
    <3> QED BY <1>k, <3>1, <3>2
  <2>12. CASE BindService(d)
    <3>1. /\ ep[d] \in Endpoints /\ ep[d][1] \in Services /\ ep[d][2] \in Instances
          /\ who[d] \in Clients
      BY <2>12, EndpointParts DEF BindService, TaskArgs
    <3>2. /\ conns[k] \in Endpoints
          /\ conns[k][1] \in Services /\ conns[k][2] \in Instances
      BY <1>p, <2>12 DEF BindService
    <3>3. CASE who[d] = z /\ ep[d][1] = conns[k][1] /\ ep[d][2] = conns[k][2]
      <4>1. ep[d] = conns[k]
        BY <3>1, <3>2, <3>3, EndpointEqual
      <4> QED BY <2>12, <3>3, <4>1 DEF BindService
    <3>4. CASE ~(who[d] = z /\ ep[d][1] = conns[k][1] /\ ep[d][2] = conns[k][2])
      <4>1. ServiceVisible(z, conns[k])
        BY <2>12, <3>1, <3>2, <3>4 DEF BindService
      <4>2. Shows(z, k)
        BY <1>h, <2>12, <4>1 DEF BindService
      <4> QED BY <2>12, <4>2 DEF BindService
    <3> QED BY <3>3, <3>4
  <2>13. CASE BoundStatus(d)
    <3>1. sessions[z] = "auth" /\ Shows(z, k)
      BY <1>h, <2>13 DEF BoundStatus
    <3>2. CASE who[d] = z /\ ep[d] = conns[k]
      <4>1. conns'[k] \in shown'[z]
        BY <2>13, <3>1, <3>2 DEF BoundStatus
      <4> QED BY <4>1
    <3>3. CASE ~(who[d] = z /\ ep[d] = conns[k])
      <4>1. /\ conns'[k] = conns[k]
            /\ \A u \in Tasks \ {d} : pc'[u] = pc[u] /\ list'[u] = list[u] /\ todo'[u] = todo[u]
            /\ \A x \in Conns \ {d} : who'[x] = who[x] /\ ep'[x] = ep[x]
            /\ pc[d] = "bound" /\ (conns[k] \in shown[z] => conns[k] \in shown'[z])
        BY <2>13, <3>1 DEF BoundStatus, EndRequest
      <4> QED BY <1>k, <3>1, <3>3, <4>1
    <3> QED BY <3>2, <3>3
  <2>14. CASE UnboundStatus(d)
    <3>1. /\ ServiceVisible(z, conns[k]) /\ Shows(z, k) /\ conns[k] # None
          /\ <<z, conns[k][1]>> \notin crossed
      BY <1>h, <2>14 DEF UnboundStatus
    <3>2. conns[k][2] # None
      BY <1>p, <3>1
    <3>3. ~(who[d] = z /\ ep[d] = conns[k])
      BY <2>14, <3>1, <3>2 DEF UnboundStatus, Requested
    <3>4. conns[k] \in shown[z] => conns[k] \in shown'[z]
      BY <2>14, <3>3 DEF UnboundStatus
    <3>5. /\ conns'[k] = conns[k]
          /\ \A u \in Tasks \ {d} : pc'[u] = pc[u] /\ list'[u] = list[u] /\ todo'[u] = todo[u]
          /\ \A x \in Conns \ {d} : who'[x] = who[x] /\ ep'[x] = ep[x]
          /\ pc[d] = "unbound"
      BY <2>14 DEF UnboundStatus, EndRequest
    <3> QED BY <1>k, <3>1, <3>4, <3>5
  <2>15. CASE KickCleanup(d)
    <3>1. Shows(z, k)
      BY <1>b, <2>15 DEF KickCleanup
    <3>2. /\ conns'[k] = conns[k]
          /\ \A u \in Tasks \ {d} : pc'[u] = pc[u] /\ list'[u] = list[u] /\ todo'[u] = todo[u]
          /\ \A x \in Conns \ {d} : who'[x] = who[x] /\ ep'[x] = ep[x]
          /\ pc[d] = "kick" /\ shown' = shown
      BY <2>15 DEF KickCleanup, EndRequest
    <3> QED BY <1>k, <3>1, <3>2
  <2>16. CASE RemoveInstance(d)
    BY <1>h, <2>16 DEF RemoveInstance
  <2>17. ASSUME NEW x \in Conns, AnnounceOffline(d, x)
        PROVE  Goal
    BY <1>h, <2>17 DEF AnnounceOffline
  <2>18. CASE CollectForNotify(d)
    BY <1>h, <2>18 DEF CollectForNotify
  <2>19. ASSUME NEW s \in Clients, PushOffline(d, s)
        PROVE  Goal
    <3>1. conns[k] # None /\ OnlyConn(k) /\ Shows(z, k)
      BY <1>h, <2>19 DEF PushOffline
    <3>2. d # k /\ registered[d] = ep[d]
      BY <2>19, <3>1 DEF PushOffline, Stages, Recorded
    <3>3. conns[k] \in shown[z] => conns[k] \in shown'[z]
      BY <2>19, <3>1, <3>2 DEF PushOffline
    <3> QED BY <2>19, <3>1, <3>2, <3>3 DEF PushOffline
  <2>20. CASE UnbindAllByInstance(d)
    <3>1. ep[d][1] \in Services
      BY <2>20, EndpointParts DEF UnbindAllByInstance, TaskArgs
    <3>2. \A v \in Services : bindings'[z][v] \in {bindings[z][v], None}
      BY <2>20, <3>1 DEF UnbindAllByInstance
    <3>3. Shows(z, k)
      BY <1>b, <2>20, <3>2 DEF UnbindAllByInstance
    <3>4. /\ conns'[k] = conns[k]
          /\ \A u \in Tasks \ {d} : pc'[u] = pc[u] /\ list'[u] = list[u] /\ todo'[u] = todo[u]
          /\ \A x \in Conns \ {d} : who'[x] = who[x] /\ ep'[x] = ep[x]
          /\ pc[d] = "pushOff" /\ shown' = shown
      BY <2>20 DEF UnbindAllByInstance
    <3> QED BY <1>k, <3>3, <3>4
  <2> QED
    BY <1>4, <2>1, <2>2, <2>3, <2>4, <2>5, <2>6, <2>7, <2>8, <2>9, <2>10, <2>11,
       <2>12, <2>13, <2>14, <2>15, <2>16, <2>17, <2>18, <2>19, <2>20
    DEF ConnStep
<1>5. ASSUME NEW d \in Conns, ConnInput(d) PROVE Goal
  <2>1. CASE ConnOpen(d)
    BY <1>h, <2>1 DEF ConnOpen
  <2>2. ASSUME NEW e \in RegReqs[d], RegCheck(d, e)
        PROVE  Goal
    <3>1. Shows(z, k)
      BY <1>h, <2>2 DEF RegCheck
    <3>2. /\ conns'[k] = conns[k]
          /\ \A u \in Tasks \ {d} : pc'[u] = pc[u] /\ list'[u] = list[u] /\ todo'[u] = todo[u]
          /\ \A x \in Conns \ {d} : who'[x] = who[x] /\ ep'[x] = ep[x]
          /\ pc[d] = "idle" /\ shown' = shown
      BY <2>2 DEF RegCheck
    <3> QED BY <1>k, <3>1, <3>2
  <2>3. ASSUME NEW e \in RegReqs[d], NEW l \in Loads, RefreshReg(d, e, l)
        PROVE  Goal
    <3>1. registered[d] = e
      BY <2>3, EndpointParts DEF RefreshReg, Recorded
    <3>2. registered' = registered
      BY <2>3, <3>1 DEF RefreshReg
    <3>3. Shows(z, k)
      BY <1>h, <2>3, <3>2 DEF RefreshReg
    <3> QED BY <2>3, <3>3 DEF RefreshReg
  <2>4. ASSUME NEW l \in Loads, LoadReport(d, l)
        PROVE  Goal
    BY <1>h, <2>4 DEF LoadReport
  <2>5. CASE ConnClose(d)
    <3>1. d # k /\ conns[k] = conns'[k]
      BY <2>5 DEF ConnClose
    <3>2. Shows(z, k)
      BY <1>h, <2>5, <3>1 DEF ConnClose
    <3>3. /\ conns'[k] = conns[k]
          /\ \A u \in Tasks \ {d} : pc'[u] = pc[u] /\ list'[u] = list[u] /\ todo'[u] = todo[u]
          /\ \A x \in Conns \ {d} : who'[x] = who[x] /\ ep'[x] = ep[x]
          /\ pc[d] = "idle" /\ shown' = shown
      BY <2>5, <3>1 DEF ConnClose
    <3> QED BY <1>k, <3>2, <3>3
  <2> QED BY <1>5, <2>1, <2>2, <2>3, <2>4, <2>5 DEF ConnInput
<1>6. ASSUME NEW d \in Requesters, Request(d) PROVE Goal
  <2>1. ASSUME NEW s \in Clients, NEW v \in BoundServices, BindTarget(d, s, v)
        PROVE  Goal
    <3>1. Shows(z, k)
      BY <1>h, <2>1 DEF BindTarget, BindSelect, NoteCrossing
    <3>2. /\ conns'[k] = conns[k]
          /\ \A u \in Tasks \ {d} : pc'[u] = pc[u] /\ list'[u] = list[u] /\ todo'[u] = todo[u]
          /\ \A x \in Conns \ {d} : who'[x] = who[x] /\ ep'[x] = ep[x]
          /\ pc[d] = "idle" /\ shown' = shown
      BY <2>1 DEF BindTarget, BindSelect, NoteCrossing
    <3> QED BY <1>k, <3>1, <3>2
  <2>2. ASSUME NEW s \in Clients, NEW v \in BoundServices, BindAuto(d, s, v)
        PROVE  Goal
    <3>1. Shows(z, k)
      BY <1>h, <2>2 DEF BindAuto, BindSelect, NoteCrossing
    <3>2. /\ conns'[k] = conns[k]
          /\ \A u \in Tasks \ {d} : pc'[u] = pc[u] /\ list'[u] = list[u] /\ todo'[u] = todo[u]
          /\ \A x \in Conns \ {d} : who'[x] = who[x] /\ ep'[x] = ep[x]
          /\ pc[d] = "idle" /\ shown' = shown
      BY <2>2 DEF BindAuto, BindSelect, NoteCrossing
    <3> QED BY <1>k, <3>1, <3>2
  <2>3. ASSUME NEW s \in Clients, NEW v \in BoundServices, UnbindService(d, s, v)
        PROVE  Goal
    <3>1. \A w \in Services : bindings'[z][w] \in {bindings[z][w], None}
      BY <2>3 DEF UnbindService, NoteCrossing
    <3>2. Shows(z, k)
      BY <1>b, <2>3, <3>1 DEF UnbindService, NoteCrossing
    <3> QED BY <2>3, <3>2 DEF UnbindService, NoteCrossing
  <2>4. ASSUME NEW s \in Clients, Kick(d, s)
        PROVE  Goal
    BY <1>h, <2>4 DEF Kick
  <2> QED BY <1>6, <2>1, <2>2, <2>3, <2>4 DEF Request
<1>7. CASE UNCHANGED vars
  BY <1>h, <1>7
<1> QED BY <1>1, <1>2, <1>3, <1>4, <1>5, <1>6, <1>7 DEF Next

----------------------------------------------------------------------------
(***************************************************************************)
(* The inductive invariant and what follows from it.                       *)
(***************************************************************************)
GatewayInv == TypeOK /\ TaskArgs /\ Stages /\ OnlineOnItsWay /\ NoStaleInstanceEntry

\* The freshly started gateway satisfies the invariant.
LEMMA GatewayInit == Init => GatewayInv
<1> SUFFICES ASSUME Init PROVE GatewayInv
  OBVIOUS
<1>1. TypeOK
  BY GatewayAssumptions DEF Init, TypeOK, Tasks, ClientPCs, ConnPCs, DefaultLoad
<1>2. TaskArgs /\ Stages
  BY DEF Init, TaskArgs, Stages, Tasks
<1>3. OnlineOnItsWay
  BY DEF Init, OnlineOnItsWay
<1>4. NoStaleInstanceEntry
  BY GatewayAssumptions DEF Init, NoStaleInstanceEntry
<1> QED BY <1>1, <1>2, <1>3, <1>4 DEF GatewayInv

\* Every step of the gateway keeps it.
THEOREM GatewayInvariant == Spec => []GatewayInv
<1>1. GatewayInv /\ [Next]_vars => GatewayInv'
  BY TypeStep, ControlStep, OnlineStep, InstanceStep DEF GatewayInv
<1> QED BY GatewayInit, <1>1, PTL DEF Spec

\* Types: in particular a stored load score never exceeds 100, whatever a
\* backend reports, and a handler that runs to its end has its arguments.
THEOREM TypeCorrect == Spec => []TypeOK
<1>1. GatewayInv => TypeOK
  BY DEF GatewayInv
<1> QED BY GatewayInvariant, <1>1, PTL

\* An authenticated session that a registered backend was not told of is
\* still in a broadcast or in a replay.
THEOREM OnlineIsOnItsWay == Spec => []OnlineOnItsWay
<1>1. GatewayInv => OnlineOnItsWay
  BY DEF GatewayInv
<1> QED BY GatewayInvariant, <1>1, PTL

\* A registered backend whose registration is over knows every authenticated
\* session whose status request is over.
THEOREM OnlineDelivered == Spec => []OnlineReachesEveryBackend
<1>1. GatewayInv => OnlineReachesEveryBackend
  BY DEF GatewayInv, OnlineOnItsWay, OnlineReachesEveryBackend, Registering
<1> QED BY GatewayInvariant, <1>1, PTL

\* The instances index never locks a backend out with an entry of a
\* connection that is gone.
THEOREM InstanceIndexClean == Spec => []NoStaleInstanceEntry
<1>1. GatewayInv => NoStaleInstanceEntry
  BY DEF GatewayInv
<1> QED BY GatewayInvariant, <1>1, PTL

\* The invariant of what the clients are shown.
StatusInv == GatewayInv /\ Recorded /\ Requested /\ StatusOnItsWay

\* What a client has to be shown (by its status reply, the push of a
\* registration, the answer to a binding) stays on its way, as long as no two
\* requests for its binding have overlapped.
THEOREM StatusInvariant == Spec => []StatusInv
<1>1. Init => StatusInv
  <2>1. Init => Recorded /\ Requested /\ StatusOnItsWay
    BY DEF Init, Recorded, Requested, StatusOnItsWay, Tasks
  <2> QED BY <2>1, GatewayInit DEF StatusInv
<1>2. StatusInv /\ [Next]_vars => StatusInv'
  BY TypeStep, ControlStep, OnlineStep, InstanceStep, RecordedStep, RequestedStep, StatusStep
  DEF StatusInv, GatewayInv
<1> QED BY <1>1, <1>2, PTL DEF Spec

\* A client that has its status reply knows every endpoint it may see, once
\* the handlers of the backends are over, however they and its own request
\* overlapped, unless two requests for its binding have overlapped.
THEOREM ClientsSeeRegistered == Spec => []ClientSeesRegistered
<1>1. StatusInv => ClientSeesRegistered
  <2> SUFFICES ASSUME StatusInv, NEW s \in Clients, NEW d \in Conns,
                      Settled(s, d), <<s, conns[d][1]>> \notin crossed
               PROVE  conns[d] \in shown[s]
    BY DEF ClientSeesRegistered
  <2>1. Shows(s, d)
    BY DEF StatusInv, StatusOnItsWay, OnlyConn, Settled
  <2> QED BY <2>1 DEF Shows, Settled
<1> QED BY <1>1, StatusInvariant, PTL
============================================================================
