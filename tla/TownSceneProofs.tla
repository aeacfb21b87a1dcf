-------------------------- MODULE TownSceneProofs --------------------------
(***************************************************************************)
(* Proofs about TownScene, for any number of sessions, players and scenes. *)
(***************************************************************************)
EXTENDS TownScene, TLAPS

\* The indices of a scene manager are consistent.
GoodManager(m) == ManagerOK(m) /\ SceneIds(m) /\ PlayerIndex(m) /\ SessionIndex(m)

\* ensure_scene keeps the indices consistent and returns an existing scene.
LEMMA EnsureGood ==
    ASSUME NEW m, GoodManager(m), NEW k \in Keys
    PROVE  /\ GoodManager(EnsureScene(m, k))
           /\ EnsureScene(m, k).byKey[k] \in DOMAIN EnsureScene(m, k).scenes
<1>1. CASE m.byKey[k] # 0
  BY <1>1 DEF EnsureScene, GoodManager, SceneIds
<1>2. CASE m.byKey[k] = 0
  <2> DEFINE i == m.next + 1
             n == EnsureScene(m, k)
  <2>1. /\ n.next = i
        /\ n.byKey = [m.byKey EXCEPT ![k] = i]
        /\ n.scenes = [j \in DOMAIN m.scenes \cup {i} |->
                         IF j = i THEN EmptyScene ELSE m.scenes[j]]
        /\ n.playerScenes = m.playerScenes
        /\ n.sessionPlayers = m.sessionPlayers
        /\ n = [next |-> n.next, byKey |-> n.byKey, scenes |-> n.scenes,
               playerScenes |-> n.playerScenes, sessionPlayers |-> n.sessionPlayers]
    BY <1>2 DEF EnsureScene, GoodManager, ManagerOK
  <2> HIDE DEF n
  <2>2. ManagerOK(n)
    BY <2>1 DEF GoodManager, ManagerOK, EmptyScene
  <2>3. SceneIds(n) /\ n.byKey[k] \in DOMAIN n.scenes
    BY <2>1 DEF GoodManager, ManagerOK, SceneIds
  <2>4. PlayerIndex(n)
    BY <2>1 DEF GoodManager, ManagerOK, PlayerIndex, EmptyScene
  <2>5. SessionIndex(n)
    BY <2>1 DEF GoodManager, ManagerOK, SessionIndex, EmptyScene
  <2> QED BY <2>2, <2>3, <2>4, <2>5 DEF GoodManager, n
<1> QED BY <1>1, <1>2 DEF GoodManager, ManagerOK

\* remove_player keeps the indices consistent: no index leads to the player.
LEMMA RemoveGood ==
    ASSUME NEW m, GoodManager(m), NEW p \in Players
    PROVE  /\ GoodManager(RemovePlayer(m, p))
           /\ RemovePlayer(m, p).playerScenes[p] = 0
           /\ RemovePlayer(m, p).byKey = m.byKey
           /\ DOMAIN RemovePlayer(m, p).scenes = DOMAIN m.scenes
<1> DEFINE i == m.playerScenes[p]
           n == RemovePlayer(m, p)
<1>1. CASE ~Present(m, p)
  <2>1. m.playerScenes[p] = 0
    BY <1>1 DEF Present, GoodManager, PlayerIndex, ManagerOK
  <2>2. n = m
    BY <1>1, <2>1 DEF RemovePlayer, GoodManager, ManagerOK
  <2> QED BY <2>1, <2>2
<1>2. CASE Present(m, p)
  <2>1. m.scenes[i][p].session \in Sessions /\ i \in DOMAIN m.scenes
    BY <1>2 DEF Present, GoodManager, ManagerOK, Seat
  <2>2. /\ n.next = m.next
        /\ n.byKey = m.byKey
        /\ n.scenes = [m.scenes EXCEPT ![i][p] = None]
        /\ n.playerScenes = [m.playerScenes EXCEPT ![p] = 0]
        /\ n.sessionPlayers = [m.sessionPlayers EXCEPT ![m.scenes[i][p].session] = None]
        /\ n = [next |-> n.next, byKey |-> n.byKey, scenes |-> n.scenes,
               playerScenes |-> n.playerScenes, sessionPlayers |-> n.sessionPlayers]
    BY <1>2 DEF RemovePlayer, GoodManager, ManagerOK
  <2> HIDE DEF n
  <2>3. ManagerOK(n)
    BY <2>1, <2>2 DEF GoodManager, ManagerOK
  <2>4. SceneIds(n)
    BY <2>2 DEF GoodManager, ManagerOK, SceneIds
  <2>5. PlayerIndex(n)
    BY <2>1, <2>2 DEF GoodManager, ManagerOK, PlayerIndex
  <2>6. SessionIndex(n)
    <3> SUFFICES ASSUME NEW s \in Sessions, n.sessionPlayers[s] # None
                 PROVE  LET q == n.sessionPlayers[s]
                            j == n.playerScenes[q]
                        IN  /\ j \in DOMAIN n.scenes
                            /\ n.scenes[j][q] # None
                            /\ n.scenes[j][q].session = s
      BY DEF SessionIndex
    <3>1. s # m.scenes[i][p].session /\ n.sessionPlayers[s] = m.sessionPlayers[s]
      BY <2>1, <2>2 DEF GoodManager, ManagerOK
    <3>2. m.sessionPlayers[s] \in Players \ {p}
      BY <3>1 DEF GoodManager, ManagerOK, SessionIndex
    <3> DEFINE q == m.sessionPlayers[s]
    <3>3. n.playerScenes[q] = m.playerScenes[q]
      BY <2>2, <3>2 DEF GoodManager, ManagerOK
    <3>4. /\ m.playerScenes[q] \in DOMAIN m.scenes
          /\ m.scenes[m.playerScenes[q]][q] # None
          /\ m.scenes[m.playerScenes[q]][q].session = s
      BY <3>2, TownAssumptions DEF GoodManager, SessionIndex
    <3>5. n.scenes[m.playerScenes[q]][q] = m.scenes[m.playerScenes[q]][q]
      BY <2>1, <2>2, <3>2, <3>4 DEF GoodManager, ManagerOK
    <3> QED BY <2>2, <3>1, <3>3, <3>4, <3>5 DEF GoodManager, ManagerOK
  <2>7. n.playerScenes[p] = 0 /\ n.byKey = m.byKey /\ DOMAIN n.scenes = DOMAIN m.scenes
    BY <2>2 DEF GoodManager, ManagerOK
  <2> QED BY <2>3, <2>4, <2>5, <2>6, <2>7 DEF GoodManager, n
<1> QED BY <1>1, <1>2

\* Seating a player that is nowhere, or in this very scene with its session
\* index gone, keeps the indices consistent.
LEMMA SeatedGood ==
    ASSUME NEW m, GoodManager(m), NEW i \in DOMAIN m.scenes, NEW s \in Sessions,
           NEW p \in Players, NEW x \in States, m.playerScenes[p] \in {0, i},
           \A r \in Sessions : m.sessionPlayers[r] # p
    PROVE  GoodManager(Seated(m, i, s, p, x))
<1> DEFINE n == Seated(m, i, s, p, x)
<1>1. /\ n.next = m.next
      /\ n.byKey = m.byKey
      /\ n.scenes = [m.scenes EXCEPT ![i][p] = SeatOf(s, x)]
      /\ n.playerScenes = [m.playerScenes EXCEPT ![p] = i]
      /\ n.sessionPlayers = [m.sessionPlayers EXCEPT ![s] = p]
      /\ n = [next |-> n.next, byKey |-> n.byKey, scenes |-> n.scenes,
             playerScenes |-> n.playerScenes, sessionPlayers |-> n.sessionPlayers]
  BY DEF Seated
<1> HIDE DEF n
<1>0. SeatOf(s, x) \in Seat /\ SeatOf(s, x).session = s /\ None \notin Seat
  BY TownAssumptions DEF Seat, SeatOf
<1>2. ManagerOK(n)
  BY <1>0, <1>1 DEF GoodManager, ManagerOK
<1>3. SceneIds(n)
  BY <1>1 DEF GoodManager, ManagerOK, SceneIds
<1>4. PlayerIndex(n)
  BY <1>0, <1>1 DEF GoodManager, ManagerOK, PlayerIndex
<1>5. SessionIndex(n)
  <2> SUFFICES ASSUME NEW r \in Sessions, n.sessionPlayers[r] # None
               PROVE  LET q == n.sessionPlayers[r]
                          j == n.playerScenes[q]
                      IN  /\ j \in DOMAIN n.scenes
                          /\ n.scenes[j][q] # None
                          /\ n.scenes[j][q].session = r
    BY DEF SessionIndex
  <2>1. CASE r = s
    <3>1. n.sessionPlayers[r] = p /\ n.playerScenes[p] = i
      BY <1>1, <2>1 DEF GoodManager, ManagerOK
    <3>2. n.scenes[i][p] = SeatOf(s, x) /\ DOMAIN n.scenes = DOMAIN m.scenes
      BY <1>1 DEF GoodManager, ManagerOK
    <3> QED BY <1>0, <2>1, <3>1, <3>2
  <2>2. CASE r # s
    <3> DEFINE q == m.sessionPlayers[r]
    <3>1. n.sessionPlayers[r] = q /\ q \in Players \ {p}
      BY <1>1, <2>2 DEF GoodManager, ManagerOK
    <3>2. n.playerScenes[q] = m.playerScenes[q]
      BY <1>1, <3>1 DEF GoodManager, ManagerOK
    <3>3. /\ m.playerScenes[q] \in DOMAIN m.scenes
          /\ m.scenes[m.playerScenes[q]][q] # None
          /\ m.scenes[m.playerScenes[q]][q].session = r
      BY <3>1, TownAssumptions DEF GoodManager, SessionIndex
    <3>4. n.scenes[m.playerScenes[q]][q] = m.scenes[m.playerScenes[q]][q]
      BY <1>1, <3>1, <3>3 DEF GoodManager, ManagerOK
    <3> QED BY <1>1, <3>1, <3>2, <3>3, <3>4 DEF GoodManager, ManagerOK
  <2> QED BY <2>1, <2>2
<1> QED BY <1>2, <1>3, <1>4, <1>5 DEF GoodManager, n

\* update_player_in_scene keeps the indices consistent.
LEMMA UpdateGood ==
    ASSUME NEW m, GoodManager(m), NEW i \in DOMAIN m.scenes, NEW s \in Sessions,
           NEW p \in Players, NEW x \in States, m.playerScenes[p] = i
    PROVE  GoodManager(UpdatePlayer(m, i, s, p, x))
<1> DEFINE old == m.scenes[i][p].session
           n == [m EXCEPT !.sessionPlayers[old] = None]
<1>1. m.scenes[i][p] # None /\ old \in Sessions
  BY DEF GoodManager, ManagerOK, PlayerIndex, Seat
<1>2. /\ n.next = m.next
      /\ n.byKey = m.byKey
      /\ n.scenes = m.scenes
      /\ n.playerScenes = m.playerScenes
      /\ n.sessionPlayers = [m.sessionPlayers EXCEPT ![old] = None]
      /\ n = [next |-> n.next, byKey |-> n.byKey, scenes |-> n.scenes,
             playerScenes |-> n.playerScenes, sessionPlayers |-> n.sessionPlayers]
  BY DEF GoodManager, ManagerOK
<1>3. UpdatePlayer(m, i, s, p, x) = Seated(n, i, s, p, x)
  BY <1>1 DEF UpdatePlayer
<1> HIDE DEF n
<1>4. ManagerOK(n) /\ SceneIds(n) /\ PlayerIndex(n)
  BY <1>1, <1>2 DEF GoodManager, ManagerOK, SceneIds, PlayerIndex
<1>5. SessionIndex(n)
  BY <1>1, <1>2 DEF GoodManager, ManagerOK, SessionIndex
<1>6. \A r \in Sessions : n.sessionPlayers[r] # p
  BY <1>1, <1>2, TownAssumptions DEF GoodManager, ManagerOK, SessionIndex
<1>7. GoodManager(n) /\ i \in DOMAIN n.scenes /\ n.playerScenes[p] \in {0, i}
  BY <1>2, <1>4, <1>5 DEF GoodManager
<1>8. GoodManager(Seated(n, i, s, p, x))
  BY <1>6, <1>7, SeatedGood
<1> QED BY <1>3, <1>8

\* update_state only changes the state of a seat.
LEMMA StateGood ==
    ASSUME NEW m, GoodManager(m), NEW p \in Players, NEW x \in States, Present(m, p)
    PROVE  GoodManager([m EXCEPT !.scenes[m.playerScenes[p]][p].state = x])
<1> DEFINE i == m.playerScenes[p]
           seat == [m.scenes[i][p] EXCEPT !.state = x]
           n == [m EXCEPT !.scenes[i][p].state = x]
<1>1. i \in DOMAIN m.scenes /\ m.scenes[i][p] \in Seat
  BY DEF Present, GoodManager, ManagerOK
<1>2. seat \in Seat /\ seat.session = m.scenes[i][p].session
  BY <1>1 DEF Seat
<1>3. /\ n.next = m.next
      /\ n.byKey = m.byKey
      /\ n.scenes = [m.scenes EXCEPT ![i][p] = seat]
      /\ n.playerScenes = m.playerScenes
      /\ n.sessionPlayers = m.sessionPlayers
      /\ n = [next |-> n.next, byKey |-> n.byKey, scenes |-> n.scenes,
             playerScenes |-> n.playerScenes, sessionPlayers |-> n.sessionPlayers]
  BY <1>1 DEF GoodManager, ManagerOK
<1> HIDE DEF n, seat
<1>4. ManagerOK(n) /\ SceneIds(n)
  BY <1>1, <1>2, <1>3 DEF GoodManager, ManagerOK, SceneIds
<1>5. seat # None
  BY <1>2, TownAssumptions
<1>6. PlayerIndex(n)
  BY <1>1, <1>3, <1>5 DEF GoodManager, ManagerOK, PlayerIndex
<1>7. SessionIndex(n)
  BY <1>1, <1>2, <1>3, <1>5 DEF GoodManager, ManagerOK, SessionIndex
<1> QED BY <1>4, <1>6, <1>7 DEF GoodManager, n

\* clear() leaves nothing behind, and keeps the id counter.
LEMMA ClearedGood ==
    ASSUME NEW m, m.next \in Nat
    PROVE  GoodManager(Cleared(m))
<1> DEFINE n == Cleared(m)
<1>1. n = [next |-> m.next, byKey |-> [k \in Keys |-> 0],
           scenes |-> [i \in {} |-> EmptyScene],
           playerScenes |-> [p \in Players |-> 0],
           sessionPlayers |-> [s \in Sessions |-> None]]
  BY DEF Cleared, EmptyManager
<1> HIDE DEF n
<1> QED BY <1>1 DEF GoodManager, ManagerOK, SceneIds, PlayerIndex, SessionIndex, n

\* enter_scene evicts the former player of the session and the former seat of
\* the player; the indices stay consistent.
LEMMA EvictGood ==
    ASSUME NEW m, GoodManager(m), NEW s \in Sessions, NEW p \in Players
    PROVE  /\ GoodManager(Evict(m, s, p))
           /\ Evict(m, s, p).playerScenes[p] = 0
           /\ Evict(m, s, p).byKey = m.byKey
           /\ DOMAIN Evict(m, s, p).scenes = DOMAIN m.scenes
<1>1. CASE m.sessionPlayers[s] \in {None, p}
  BY <1>1, RemoveGood DEF Evict
<1>2. CASE m.sessionPlayers[s] \notin {None, p}
  <2> DEFINE q == m.sessionPlayers[s]
             n == RemovePlayer(m, q)
  <2>1. q \in Players
    BY <1>2 DEF GoodManager, ManagerOK
  <2>2. GoodManager(n) /\ n.byKey = m.byKey /\ DOMAIN n.scenes = DOMAIN m.scenes
    BY <2>1, RemoveGood
  <2>3. Evict(m, s, p) = RemovePlayer(n, p)
    BY <1>2 DEF Evict
  <2> HIDE DEF n
  <2>4. /\ GoodManager(RemovePlayer(n, p))
        /\ RemovePlayer(n, p).playerScenes[p] = 0
        /\ RemovePlayer(n, p).byKey = n.byKey
        /\ DOMAIN RemovePlayer(n, p).scenes = DOMAIN n.scenes
    BY <2>2, RemoveGood
  <2> QED BY <2>2, <2>3, <2>4 DEF n
<1> QED BY <1>1, <1>2

\* Pushes are addressed to sessions.
LEMMA PushTypes ==
    ASSUME NEW m, GoodManager(m), NEW p \in Players
    PROVE  /\ LeavePushes(m, p) \subseteq Push
           /\ \A i \in DOMAIN m.scenes :
                 /\ Listeners(m, i, PlayersIn(m, i)) \subseteq Sessions
                 /\ Snapshot(m, i) \in View
<1>1. \A i \in DOMAIN m.scenes, q \in Players :
          m.scenes[i][q] # None => m.scenes[i][q].session \in Sessions
                                   /\ m.scenes[i][q].state \in States
  BY DEF GoodManager, ManagerOK, Seat
<1>2. \A i \in DOMAIN m.scenes :
          /\ Listeners(m, i, PlayersIn(m, i)) \subseteq Sessions
          /\ Listeners(m, i, PlayersIn(m, i) \ {p}) \subseteq Sessions
          /\ Snapshot(m, i) \in View
  BY <1>1 DEF Listeners, PlayersIn, Snapshot, View
<1>3. LeavePushes(m, p) \subseteq Push
  BY <1>2 DEF LeavePushes, Pushes, Push, Present
<1> QED BY <1>2, <1>3

----------------------------------------------------------------------------
TownInv == TypeOK /\ SceneIdsSound /\ PlayerIndexAgrees /\ SessionIndexSound

\* The manager of TownInv is a consistent one.
LEMMA TownGood == TownInv => GoodManager(mgr)
  BY DEF TownInv, TypeOK, GoodManager, SceneIdsSound, PlayerIndexAgrees, SessionIndexSound

\* What remains to be shown once the new manager is known to be consistent.
LEMMA TownGoodPrime ==
    ASSUME GoodManager(mgr'), TypeOK' PROVE TownInv'
  BY DEF TownInv, GoodManager, SceneIdsSound, PlayerIndexAgrees, SessionIndexSound

\* enter_scene, with all that it evicts and sends.
LEMMA EnterStep ==
    ASSUME TownInv, NEW s \in Sessions, NEW p \in Players, NEW k \in Keys,
           NEW x \in States, EnterScene(s, p, k, x)
    PROVE  TownInv'
<1> DEFINE m == EnsureScene(mgr, k)
           i == m.byKey[k]
           e == Evict(m, s, p)
<1>1. GoodManager(m) /\ i \in DOMAIN m.scenes
  BY TownGood, EnsureGood
<1>2. GoodManager(mgr') /\ i \in DOMAIN mgr'.scenes /\ out' \in [Senders -> SUBSET Push]
  <2>1. CASE m.playerScenes[p] = i
    <3>1. mgr' = UpdatePlayer(m, i, s, p, x)
      BY <2>1 DEF EnterScene
    <3>2. GoodManager(mgr')
      BY <1>1, <2>1, <3>1, UpdateGood
    <3>3. DOMAIN mgr'.scenes = DOMAIN m.scenes
      BY <1>1, <3>1 DEF UpdatePlayer, Seated, GoodManager, ManagerOK
    <3>4. out' = [out EXCEPT ![Dispatcher] = StatePushes(mgr', i, s, p, x)]
      BY <2>1 DEF EnterScene
    <3>5. StatePushes(mgr', i, s, p, x) \subseteq Push
      BY <1>1, <3>2, <3>3, PushTypes DEF StatePushes, Pushes, Push
    <3> QED BY <1>1, <3>2, <3>3, <3>4, <3>5 DEF TownInv, TypeOK
  <2>2. CASE m.playerScenes[p] # i
    <3>1. mgr' = Seated(e, i, s, p, x)
      BY <2>2 DEF EnterScene
    <3>2. GoodManager(e) /\ e.playerScenes[p] = 0 /\ i \in DOMAIN e.scenes
      BY <1>1, EvictGood
    <3>3. \A r \in Sessions : e.sessionPlayers[r] # p
      BY <3>2, TownAssumptions DEF GoodManager, ManagerOK, SessionIndex
    <3>4. GoodManager(mgr')
      BY <3>1, <3>2, <3>3, SeatedGood
    <3>5. DOMAIN mgr'.scenes = DOMAIN e.scenes
      BY <3>1, <3>2 DEF Seated, GoodManager, ManagerOK
    <3>6. out' = [out EXCEPT ![Dispatcher] =
                    EvictPushes(m, s, p)
                    \cup Pushes(Listeners(e, i, PlayersIn(e, i)), "enter", p, x)]
      BY <2>2 DEF EnterScene
    <3>7. Pushes(Listeners(e, i, PlayersIn(e, i)), "enter", p, x) \subseteq Push
      BY <3>2, PushTypes DEF Pushes, Push
    <3>8. EvictPushes(m, s, p) \subseteq Push
      <4>1. CASE m.sessionPlayers[s] \in {None, p}
        BY <1>1, <4>1, PushTypes DEF EvictPushes
      <4>2. CASE m.sessionPlayers[s] \notin {None, p}
        <5>1. m.sessionPlayers[s] \in Players
          BY <1>1, <4>2 DEF GoodManager, ManagerOK
        <5>2. GoodManager(RemovePlayer(m, m.sessionPlayers[s]))
          BY <1>1, <5>1, RemoveGood
        <5> QED BY <1>1, <4>2, <5>1, <5>2, PushTypes DEF EvictPushes
      <4> QED BY <4>1, <4>2
    <3> QED BY <3>2, <3>4, <3>5, <3>6, <3>7, <3>8 DEF TownInv, TypeOK
  <2> QED BY <2>1, <2>2
<1>3. reply' \in Reply
  <2>1. Snapshot(mgr', i) \in View
    BY <1>2, PushTypes
  <2>2. reply' = [to |-> s, players |-> Snapshot(mgr', i)]
    BY DEF EnterScene
  <2> QED BY <2>1, <2>2 DEF Reply
<1>4. TypeOK'
  <2>1. ManagerOK(mgr')
    BY <1>2 DEF GoodManager
  <2> QED BY <1>2, <1>3, <2>1 DEF TownInv, TypeOK, EnterScene, taskVars, lifeVars
<1> QED BY <1>2, <1>4, TownGoodPrime

\* A player that a task removes, together with the pushes about it.
LEMMA RemoveStep ==
    ASSUME TownInv, NEW p \in Players, NEW t \in Senders,
           mgr' = RemovePlayer(mgr, p), out' = [out EXCEPT ![t] = LeavePushes(mgr, p)]
    PROVE  GoodManager(mgr') /\ ManagerOK(mgr') /\ out' \in [Senders -> SUBSET Push]
<1>1. GoodManager(mgr) /\ GoodManager(RemovePlayer(mgr, p))
  BY TownGood, RemoveGood
<1>2. LeavePushes(mgr, p) \subseteq Push
  BY <1>1, PushTypes
<1> QED BY <1>1, <1>2 DEF TownInv, TypeOK, GoodManager

\* Sending a push changes the queue of the sender and the view of a client.
LEMMA SendStep ==
    ASSUME TownInv, NEW t \in Senders, NEW push \in out[t], SendPush(t, push)
    PROVE  mgr' = mgr /\ TypeOK'
<1>1. push \in Push
  BY DEF TownInv, TypeOK
<1>2. \A v \in View : Told(v, push) \in View
  BY <1>1 DEF Told, View, Push
<1>3. push.to \in Sessions
  BY <1>1 DEF Push
<1>4. seen' \in [Sessions -> View]
  BY <1>2, <1>3 DEF SendPush, TownInv, TypeOK
<1>5. out' \in [Senders -> SUBSET Push]
  BY DEF SendPush, TownInv, TypeOK
<1> QED BY <1>4, <1>5 DEF SendPush, TownInv, TypeOK, taskVars, dispVars, lifeVars

\* Every step of the dispatcher, of a session task or of the shutdown keeps
\* the indices of the scene manager consistent.
LEMMA TownStep == TownInv /\ [Next]_vars => TownInv'
<1> SUFFICES ASSUME TownInv, [Next]_vars PROVE TownInv'
  OBVIOUS
<1> DEFINE Same == mgr' = mgr /\ TypeOK'
<1>0. ASSUME Same PROVE TownInv'
  BY <1>0 DEF TownInv, SceneIdsSound, PlayerIndexAgrees, SessionIndexSound
<1> USE DEF taskVars, dispVars, lifeVars
<1>1. CASE DispatcherStep
  <2>1. CASE RefuseRequest
    BY <1>0, <2>1 DEF RefuseRequest, TownInv, TypeOK
  <2>2. ASSUME NEW s \in Sessions, NEW p \in Players, NEW k \in Visits[p],
               NEW x \in States,
               EnterScene(s, p, k, x)
        PROVE  TownInv'
    <3>1. k \in Keys
      BY TownAssumptions
    <3> QED BY <2>2, <3>1, EnterStep
  <2>3. ASSUME NEW s \in Sessions, NEW p \in Players, LeaveScene(s, p) PROVE TownInv'
    <3>1. CASE mgr.sessionPlayers[s] = p
      <4>1. GoodManager(mgr') /\ ManagerOK(mgr') /\ out' \in [Senders -> SUBSET Push]
        BY <2>3, <3>1, RemoveStep DEF LeaveScene, Senders
      <4>2. TypeOK'
        BY <2>3, <4>1 DEF LeaveScene, TownInv, TypeOK
      <4> QED BY <4>1, <4>2, TownGoodPrime
    <3>2. CASE mgr.sessionPlayers[s] # p
      BY <1>0, <2>3, <3>2 DEF LeaveScene, TownInv, TypeOK
    <3> QED BY <3>1, <3>2
  <2>4. CASE SendReply
    <3>1. seen' \in [Sessions -> View]
      BY <2>4 DEF SendReply, TownInv, TypeOK, Reply
    <3> QED BY <1>0, <2>4, <3>1 DEF SendReply, TownInv, TypeOK
  <2>5. ASSUME NEW push \in out[Dispatcher], SendPush(Dispatcher, push) PROVE TownInv'
    BY <1>0, <2>5, SendStep DEF Senders
  <2>6. CASE DispatcherExit
    BY <1>0, <2>6 DEF DispatcherExit, TownInv, TypeOK
  <2> QED BY <1>1, <2>1, <2>2, <2>3, <2>4, <2>5, <2>6 DEF DispatcherStep
<1>2. ASSUME NEW t \in Tasks, TaskStep(t) PROVE TownInv'
  <2>1. ASSUME NEW x \in States, UpdateState(t, x) PROVE TownInv'
    <3> DEFINE s == Owner[t]
               p == mgr.sessionPlayers[s]
               i == mgr.playerScenes[p]
    <3>1. s \in Sessions /\ p \in Players \cup {None} /\ GoodManager(mgr)
      BY TownGood, TownAssumptions DEF TownInv, TypeOK, ManagerOK
    <3>2. CASE p # None /\ Present(mgr, p)
      <4>1. mgr' = [mgr EXCEPT !.scenes[i][p].state = x]
        BY <2>1, <3>2 DEF UpdateState
      <4>2. GoodManager(mgr')
        BY <3>1, <3>2, <4>1, StateGood
      <4>3. StatePushes(mgr, i, s, p, x) \subseteq Push
        BY <3>1, <3>2, PushTypes DEF StatePushes, Pushes, Push, Present
      <4>4. out' = [out EXCEPT ![t] = StatePushes(mgr, i, s, p, x)]
        BY <2>1, <3>2 DEF UpdateState
      <4>5. TypeOK'
        BY <2>1, <4>2, <4>3, <4>4 DEF UpdateState, TownInv, TypeOK, GoodManager
      <4> QED BY <4>2, <4>5, TownGoodPrime
    <3>3. CASE ~(p # None /\ Present(mgr, p))
      BY <1>0, <2>1, <3>3 DEF UpdateState, TownInv, TypeOK
    <3> QED BY <3>2, <3>3
  <2>2. CASE FrameDone(t)
    BY <1>0, <2>2 DEF FrameDone, TownInv, TypeOK
  <2>3. CASE LeaveSession(t)
    <3> DEFINE p == mgr.sessionPlayers[Owner[t]]
    <3>1. p \in Players \cup {None}
      BY TownAssumptions DEF TownInv, TypeOK, ManagerOK
    <3>2. CASE p # None
      <4>1. GoodManager(mgr') /\ ManagerOK(mgr') /\ out' \in [Senders -> SUBSET Push]
        BY <2>3, <3>1, <3>2, RemoveStep DEF LeaveSession, Senders
      <4>2. TypeOK'
        BY <2>3, <4>1 DEF LeaveSession, TownInv, TypeOK
      <4> QED BY <4>1, <4>2, TownGoodPrime
    <3>3. CASE p = None
      BY <1>0, <2>3, <3>3 DEF LeaveSession, TownInv, TypeOK
    <3> QED BY <3>2, <3>3
  <2>4. CASE TaskStopped(t)
    BY <1>0, <2>4 DEF TaskStopped, TownInv, TypeOK
  <2>5. ASSUME NEW push \in out[t], SendPush(t, push) PROVE TownInv'
    BY <1>0, <2>5, SendStep DEF Senders
  <2> QED BY <1>2, <2>1, <2>2, <2>3, <2>4, <2>5 DEF TaskStep
<1>3. CASE Frame
  <2>1. CASE TakeRequest
    BY <1>0, <2>1 DEF TakeRequest, TownInv, TypeOK
  <2>2. ASSUME NEW t \in Tasks, SessionOnline(t) PROVE TownInv'
    BY <1>0, <2>2, TownAssumptions DEF SessionOnline, TownInv, TypeOK
  <2>3. ASSUME NEW t \in Tasks, TakeFrame(t) PROVE TownInv'
    BY <1>0, <2>3 DEF TakeFrame, TownInv, TypeOK
  <2>4. ASSUME NEW s \in Sessions, SessionOffline(s) PROVE TownInv'
    BY <1>0, <2>4 DEF SessionOffline, TownInv, TypeOK
  <2>5. CASE GameOffline
    BY <1>0, <2>5 DEF GameOffline, TownInv, TypeOK
  <2> QED BY <1>3, <2>1, <2>2, <2>3, <2>4, <2>5 DEF Frame
<1>4. CASE Disconnected
  <2>1. GoodManager(mgr')
    BY <1>4, ClearedGood DEF Disconnected, TownInv, TypeOK, ManagerOK
  <2>2. TypeOK'
    BY <1>4, <2>1 DEF Disconnected, TownInv, TypeOK, GoodManager
  <2> QED BY <2>1, <2>2, TownGoodPrime
<1>5. CASE DropGateway
  BY <1>0, <1>5 DEF DropGateway, StopAllSessions, TownInv, TypeOK
<1>6. CASE BeginShutdown
  BY <1>0, <1>6 DEF BeginShutdown, StopAllSessions, TownInv, TypeOK
<1>7. CASE ShutdownStep
  <2>1. CASE OnShutdown
    <3>1. GoodManager(mgr')
      BY <2>1, ClearedGood DEF OnShutdown, TownInv, TypeOK, ManagerOK
    <3>2. TypeOK'
      BY <2>1, <3>1 DEF OnShutdown, TownInv, TypeOK, GoodManager
    <3> QED BY <3>1, <3>2, TownGoodPrime
  <2>2. CASE CancelToken
    BY <1>0, <2>2 DEF CancelToken, TownInv, TypeOK
  <2>3. CASE Exit
    BY <1>0, <2>3 DEF Exit, TownInv, TypeOK
  <2> QED BY <1>7, <2>1, <2>2, <2>3 DEF ShutdownStep
<1>8. CASE UNCHANGED vars
  BY <1>0, <1>8 DEF vars, TownInv, TypeOK
<1> QED BY <1>1, <1>2, <1>3, <1>4, <1>5, <1>6, <1>7, <1>8 DEF Next

\* Whatever the order of requests, state pushes, stops and clears: the indices
\* of the scene manager agree with its scenes.
THEOREM TownInvariant == Spec => []TownInv
<1>1. Init => TownInv
  <2> SUFFICES ASSUME Init PROVE TownInv
    OBVIOUS
  <2>1. EmptyManager.next = 0 /\ Cleared(EmptyManager) = EmptyManager
    BY DEF EmptyManager, Cleared
  <2>2. GoodManager(mgr)
    BY <2>1, ClearedGood DEF Init
  <2>3. TypeOK
    BY <2>2 DEF Init, TypeOK, GoodManager, View, EmptyScene
  <2> QED BY <2>2, <2>3 DEF TownInv, GoodManager, SceneIdsSound, PlayerIndexAgrees,
                            SessionIndexSound
<1> QED BY <1>1, TownStep, PTL DEF Spec

\* The expect() calls of the scene manager never fail.
THEOREM TownSceneIds == Spec => []SceneIdsSound
<1>1. TownInv => SceneIdsSound
  BY DEF TownInv
<1> QED BY TownInvariant, <1>1, PTL

\* A player is in at most one scene, the one player_scenes names.
THEOREM TownPlayerIndex == Spec => []PlayerIndexAgrees
<1>1. TownInv => PlayerIndexAgrees
  BY DEF TownInv
<1> QED BY TownInvariant, <1>1, PTL

\* A session acts on a player of its own only.
THEOREM TownSessionIndex == Spec => []SessionIndexSound
<1>1. TownInv => SessionIndexSound
  BY DEF TownInv
<1> QED BY TownInvariant, <1>1, PTL

\* Types of the state of the town server.
THEOREM TownTypes == Spec => []TypeOK
<1>1. TownInv => TypeOK
  BY DEF TownInv
<1> QED BY TownInvariant, <1>1, PTL
============================================================================
