------------------------- MODULE BattleRoomsProofs -------------------------
(***************************************************************************)
(* Proofs that the battle server keeps its routing tables and its limits,  *)
(* for every number of sessions, battles, rooms and places.                *)
(*                                                                         *)
(* Each operation of the manager preserves GoodManager; the steps of the   *)
(* server apply those operations and keep what ties the manager to the     *)
(* connection (ManagerPresent), to the inputs (InputOfOwnBattle) and to    *)
(* the frames of the rooms (TickedRoomHasPlayers).                         *)
(***************************************************************************)
EXTENDS BattleRooms, FiniteSetTheorems, TLAPS

\* What every operation of the manager preserves.
GoodManager(m) == m \in Managers /\ Routing(m) /\ Capacity(m)

\* What rooms and places n keeps of m: seating takes nothing away.
Grown(m, n) ==
    /\ m.rooms \subseteq n.rooms
    /\ \A c \in Battles : m.slots[c] \subseteq n.slots[c]

\* Of the rooms n keeps of m, none has lost its last player.
NoneEmptied(m, n) ==
    /\ n.rooms \subseteq m.rooms
    /\ \A c \in n.rooms : m.slots[c] # {} => n.slots[c] # {}

BattleInv ==
    /\ TypeOK
    /\ RoutesAgree
    /\ CapacityKept
    /\ ManagerPresent
    /\ InputOfOwnBattle
    /\ TickedRoomHasPlayers

----------------------------------------------------------------------------
(* Sizes *)

\* A subset of a finite set is no larger (the sizes the limits are about).
LEMMA SubsetSize ==
    ASSUME NEW S, IsFiniteSet(S), NEW T \in SUBSET S
    PROVE  IsFiniteSet(T) /\ Cardinality(T) \in Nat
              /\ Cardinality(T) <= Cardinality(S)
BY FS_Subset, FS_CardinalityType

\* One more element adds at most one.
LEMMA AddSize ==
    ASSUME NEW S, IsFiniteSet(S), NEW x
    PROVE  Cardinality(S \cup {x}) <= Cardinality(S) + 1
<1>1. Cardinality(S) \in Nat
  BY FS_CardinalityType
<1>2. CASE x \in S
  <2>1. S \cup {x} = S BY <1>2
  <2> QED BY <2>1, <1>1
<1>3. CASE x \notin S
  <2>1. Cardinality(S \cup {x}) = Cardinality(S) + 1 BY <1>3, FS_AddElement
  <2> QED BY <2>1, <1>1
<1> QED BY <1>2, <1>3

----------------------------------------------------------------------------
(* BattleRoomManager *)

\* A room's first frame number.
LEMMA FirstFrame == 0 \in 0 .. FrameMod - 1
<1>1. FrameMod \in Nat \ {0}
  BY BattleAssumptions
<1> QED BY <1>1

\* The manager BattleServer::init makes is good.
LEMMA NoRoomsGood == GoodManager(NoRooms)
<1>1. NoRooms \in Managers
  BY DEF NoRooms, Managers
<1>2. Routing(NoRooms)
  BY BattleAssumptions DEF NoRooms, Routing
<1>3. Capacity(NoRooms)
  <2>1. Active(NoRooms) = {}
    BY DEF Active, NoRooms
  <2>2. MaxRooms \in Nat /\ MaxSessions \in Nat
    BY BattleAssumptions
  <2>3. Cardinality({}) = 0
    BY FS_EmptySet
  <2>4. NoRooms.rooms = {} /\ \A b \in Battles : NoRooms.slots[b] = {}
    BY DEF NoRooms
  <2> QED
    BY <2>1, <2>2, <2>3, <2>4 DEF Capacity, MaxPlayers
<1> QED
  BY <1>1, <1>2, <1>3 DEF GoodManager

\* createRoom below the limit keeps the manager good.
LEMMA CreateGood ==
    ASSUME NEW m, GoodManager(m), NEW b \in Battles, b \notin m.rooms,
           RoomCreatable(m, b, TRUE)
    PROVE  GoodManager(CreateRoom(m, b)) /\ b \in CreateRoom(m, b).rooms
<1> DEFINE n == CreateRoom(m, b)
<1>1. /\ n \in Managers
      /\ n.rooms = m.rooms \cup {b}
      /\ n.slots = m.slots
      /\ n.routes = m.routes
  BY DEF CreateRoom, GoodManager, Managers
<1>2. Routing(n)
  BY <1>1 DEF GoodManager, Routing
<1>3. Active(n) = Active(m)
  BY <1>1 DEF Active
<1>4. Cardinality(n.rooms) <= MaxRooms
  <2>1. IsFiniteSet(m.rooms) /\ Cardinality(m.rooms) \in Nat
    BY SubsetSize, BattleAssumptions DEF GoodManager, Managers
  <2>2. IsFiniteSet(n.rooms) /\ Cardinality(n.rooms) \in Nat
    BY <1>1, SubsetSize, BattleAssumptions DEF Managers
  <2> QED
    BY <1>1, <2>1, <2>2, AddSize, BattleAssumptions DEF RoomCreatable
<1> QED
  BY <1>1, <1>2, <1>3, <1>4 DEF GoodManager, Capacity

\* addPlayerToRoom keeps the manager good, and moves no session that already
\* has a room.
LEMMA AddGood ==
    ASSUME NEW m, GoodManager(m), NEW b \in Battles, b \in m.rooms,
           NEW s \in Sessions, NEW spawns
    PROVE  /\ GoodManager(AddPlayer(m, b, s, spawns))
           /\ b \in AddPlayer(m, b, s, spawns).rooms
           /\ \A x \in Sessions : m.routes[x] # None =>
                    AddPlayer(m, b, s, spawns).routes[x] = m.routes[x]
           /\ Grown(m, AddPlayer(m, b, s, spawns))
<1> DEFINE n == [rooms  |-> m.rooms,
                 slots  |-> [m.slots EXCEPT ![b] = @ \cup {s}],
                 routes |-> [m.routes EXCEPT ![s] = b]]
<1> SUFFICES ASSUME m.routes[s] = None, Accepting(m), SlotFor(m, b, s, spawns)
             PROVE  /\ GoodManager(n)
                    /\ b \in n.rooms
                    /\ \A x \in Sessions : m.routes[x] # None =>
                            n.routes[x] = m.routes[x]
                    /\ Grown(m, n)
  BY DEF AddPlayer, Grown
<1>t. /\ m.rooms \in SUBSET Battles
      /\ m.slots \in [Battles -> SUBSET Sessions]
      /\ m.routes \in [Sessions -> Battles \cup {None}]
  BY DEF GoodManager, Managers
<1>1. n \in Managers
  BY <1>t DEF Managers
<1>2. /\ \A c \in Battles : n.slots[c] = IF c = b THEN m.slots[b] \cup {s}
                                                  ELSE m.slots[c]
      /\ \A x \in Sessions : n.routes[x] = IF x = s THEN b ELSE m.routes[x]
      /\ n.rooms = m.rooms
  BY <1>t
<1> HIDE DEF n
<1>3. Routing(n)
  <2>1. Routing(m) BY DEF GoodManager
  <2>2. ASSUME NEW x \in Sessions, NEW c \in Battles
        PROVE  x \in n.slots[c] <=> n.routes[x] = c
    <3>1. CASE x = s BY <3>1, <2>1, <1>2, <1>t, BattleAssumptions DEF Routing
    <3>2. CASE x # s BY <3>2, <2>1, <1>2, <1>t DEF Routing
    <3> QED BY <3>1, <3>2
  <2> QED BY <2>1, <2>2, <1>2 DEF Routing
<1>4. Capacity(n)
  <2>0. Capacity(m) BY DEF GoodManager
  <2>1. Cardinality(n.rooms) <= MaxRooms
    BY <2>0, <1>2 DEF Capacity
  <2>2. Cardinality(Active(n)) <= MaxSessions
    <3>1. Active(n) = Active(m) \cup {s}
      BY <1>2, <1>t, BattleAssumptions DEF Active
    <3>2. /\ IsFiniteSet(Active(m)) /\ Cardinality(Active(m)) \in Nat
          /\ Cardinality(Active(n)) \in Nat
      BY SubsetSize, BattleAssumptions DEF Active
    <3>3. Cardinality(Active(m) \cup {s}) <= Cardinality(Active(m)) + 1
      BY <3>2, AddSize
    <3>4. Cardinality(Active(m)) < MaxSessions
      BY DEF Accepting
    <3> QED
      BY <3>1, <3>2, <3>3, <3>4, BattleAssumptions
  <2>3. ASSUME NEW c \in Battles PROVE Cardinality(n.slots[c]) <= MaxPlayers
    <3>1. CASE c # b BY <3>1, <1>2, <2>0 DEF Capacity
    <3>2. CASE c = b
      <4>1. /\ IsFiniteSet(m.slots[b]) /\ Cardinality(m.slots[b]) \in Nat
            /\ Cardinality(n.slots[b]) \in Nat
        BY SubsetSize, BattleAssumptions, <1>1, <1>t DEF Managers
      <4>2. Cardinality(m.slots[b] \cup {s}) <= Cardinality(m.slots[b]) + 1
        BY <4>1, AddSize
      <4>3. n.slots[b] = m.slots[b] \cup {s} BY <1>2
      <4>4. Cardinality(m.slots[b]) < 2 BY DEF SlotFor, MaxPlayers
      <4>5. Cardinality(n.slots[b]) <= 2 BY <4>1, <4>2, <4>3, <4>4
      <4> QED
        BY <4>5, <3>2 DEF MaxPlayers
    <3> QED BY <3>1, <3>2
  <2> QED BY <2>1, <2>2, <2>3 DEF Capacity
<1>5. Grown(m, n)
  BY <1>2 DEF Grown
<1> QED
  BY <1>1, <1>2, <1>3, <1>4, <1>5 DEF GoodManager

\* A manager whose tables lie within those of a good one has kept its limits.
LEMMA SmallerCapacity ==
    ASSUME NEW m, GoodManager(m), NEW n \in Managers,
           n.rooms \subseteq m.rooms,
           Active(n) \subseteq Active(m),
           \A b \in Battles : n.slots[b] \subseteq m.slots[b]
    PROVE  Capacity(n)
<1>0. Capacity(m) /\ m \in Managers
  BY DEF GoodManager
<1>1. Cardinality(n.rooms) <= MaxRooms
  <2>1. IsFiniteSet(m.rooms) /\ Cardinality(m.rooms) \in Nat
    BY <1>0, SubsetSize, BattleAssumptions DEF Managers
  <2>2. Cardinality(n.rooms) \in Nat /\ Cardinality(n.rooms) <= Cardinality(m.rooms)
    BY <2>1, SubsetSize
  <2> QED BY <1>0, <2>1, <2>2, BattleAssumptions DEF Capacity
<1>2. Cardinality(Active(n)) <= MaxSessions
  <2>1. IsFiniteSet(Active(m)) /\ Cardinality(Active(m)) \in Nat
    BY SubsetSize, BattleAssumptions DEF Active
  <2>2. /\ Cardinality(Active(n)) \in Nat
        /\ Cardinality(Active(n)) <= Cardinality(Active(m))
    BY <2>1, SubsetSize
  <2> QED BY <1>0, <2>1, <2>2, BattleAssumptions DEF Capacity
<1>3. ASSUME NEW b \in Battles PROVE Cardinality(n.slots[b]) <= MaxPlayers
  <2>1. IsFiniteSet(m.slots[b]) /\ Cardinality(m.slots[b]) \in Nat
    BY <1>0, SubsetSize, BattleAssumptions DEF Managers
  <2>2. /\ Cardinality(n.slots[b]) \in Nat
        /\ Cardinality(n.slots[b]) <= Cardinality(m.slots[b])
    BY <2>1, SubsetSize
  <2> QED BY <1>0, <2>1, <2>2 DEF Capacity, MaxPlayers
<1> QED BY <1>1, <1>2, <1>3 DEF Capacity

\* removePlayer keeps the manager good, and touches no other session.
LEMMA RemoveGood ==
    ASSUME NEW m, GoodManager(m), NEW s \in Sessions
    PROVE  /\ GoodManager(RemovePlayer(m, s))
           /\ RemovePlayer(m, s).routes[s] = None
           /\ \A x \in Sessions \ {s} : RemovePlayer(m, s).routes[x] = m.routes[x]
           /\ NoneEmptied(m, RemovePlayer(m, s))
<1> DEFINE b == m.routes[s]
           n == RemovePlayer(m, s)
<1>t. /\ m.rooms \in SUBSET Battles
      /\ m.slots \in [Battles -> SUBSET Sessions]
      /\ m.routes \in [Sessions -> Battles \cup {None}]
      /\ Routing(m)
  BY DEF GoodManager, Managers
<1>a. CASE b = None
  BY <1>a DEF RemovePlayer, NoneEmptied
<1>b. CASE b # None
  <2>1. b \in Battles /\ b \in m.rooms
    BY <1>b, <1>t DEF Routing
  <2>2. n = [rooms  |-> IF m.slots[b] \ {s} = {} THEN m.rooms \ {b} ELSE m.rooms,
             slots  |-> [m.slots EXCEPT ![b] = m.slots[b] \ {s}],
             routes |-> [m.routes EXCEPT ![s] = None]]
    BY <1>b, <2>1 DEF RemovePlayer
  <2>3. /\ n \in Managers
        /\ n.rooms = IF m.slots[b] \ {s} = {} THEN m.rooms \ {b} ELSE m.rooms
        /\ \A c \in Battles : n.slots[c] = IF c = b THEN m.slots[b] \ {s}
                                                    ELSE m.slots[c]
        /\ \A x \in Sessions : n.routes[x] = IF x = s THEN None ELSE m.routes[x]
    BY <2>1, <2>2, <1>t DEF Managers
  <2> HIDE DEF n
  <2>4. Routing(n)
    <3>1. ASSUME NEW x \in Sessions, NEW c \in Battles
          PROVE  x \in n.slots[c] <=> n.routes[x] = c
      <4>1. CASE x = s
        BY <4>1, <2>3, <2>1, <1>t, BattleAssumptions DEF Routing
      <4>2. CASE x # s BY <4>2, <2>3, <2>1, <1>t DEF Routing
      <4> QED BY <4>1, <4>2
    <3>2. ASSUME NEW x \in Sessions, n.routes[x] # None
          PROVE  n.routes[x] \in n.rooms
      <4>1. x # s /\ n.routes[x] = m.routes[x] /\ m.routes[x] \in m.rooms
        BY <3>2, <2>3, <1>t DEF Routing
      <4>2. CASE m.routes[x] # b BY <4>1, <4>2, <2>3
      <4>3. CASE m.routes[x] = b
        <5>1. x \in m.slots[b] BY <4>3, <2>1, <1>t DEF Routing
        <5> QED BY <5>1, <4>1, <2>3
      <4> QED BY <4>2, <4>3
    <3> QED BY <3>1, <3>2 DEF Routing
  <2>5. Capacity(n)
    <3>1. Active(n) \subseteq Active(m) BY <2>3 DEF Active
    <3>2. n.rooms \subseteq m.rooms BY <2>3
    <3>3. \A c \in Battles : n.slots[c] \subseteq m.slots[c] BY <2>3
    <3> QED BY <3>1, <3>2, <3>3, <2>3, SmallerCapacity
  <2>6. NoneEmptied(m, n)
    BY <2>3, <1>t DEF NoneEmptied
  <2> QED
    BY <2>3, <2>4, <2>5, <2>6 DEF GoodManager, n
<1> QED BY <1>a, <1>b

\* stopAllSessions keeps the manager good: the rooms it destroys are those
\* that lost their last player.
LEMMA RemoveAllGood ==
    ASSUME NEW m, GoodManager(m), NEW gone \in SUBSET Sessions
    PROVE  /\ GoodManager(RemoveAll(m, gone))
           /\ \A x \in Sessions : RemoveAll(m, gone).routes[x] =
                    IF x \in gone THEN None ELSE m.routes[x]
           /\ NoneEmptied(m, RemoveAll(m, gone))
<1> DEFINE n == RemoveAll(m, gone)
<1>t. /\ m.rooms \in SUBSET Battles
      /\ m.slots \in [Battles -> SUBSET Sessions]
      /\ m.routes \in [Sessions -> Battles \cup {None}]
      /\ Routing(m)
  BY DEF GoodManager, Managers
<1>1. /\ n \in Managers
      /\ n.rooms = {b \in m.rooms : m.slots[b] = {} \/ m.slots[b] \ gone # {}}
      /\ \A c \in Battles : n.slots[c] = m.slots[c] \ gone
      /\ \A x \in Sessions : n.routes[x] = IF x \in gone THEN None ELSE m.routes[x]
  BY <1>t DEF RemoveAll, Managers
<1> HIDE DEF n
<1>2. Routing(n)
  <2>1. ASSUME NEW x \in Sessions, NEW c \in Battles
        PROVE  x \in n.slots[c] <=> n.routes[x] = c
    BY <1>1, <1>t, BattleAssumptions DEF Routing
  <2>2. ASSUME NEW x \in Sessions, n.routes[x] # None
        PROVE  n.routes[x] \in n.rooms
    <3>1. x \notin gone /\ n.routes[x] = m.routes[x] /\ m.routes[x] \in m.rooms
      BY <2>2, <1>1, <1>t DEF Routing
    <3>2. x \in m.slots[m.routes[x]] BY <3>1, <1>t DEF Routing
    <3> QED BY <3>1, <3>2, <1>1
  <2> QED BY <2>1, <2>2 DEF Routing
<1>3. Capacity(n)
  <2>1. Active(n) \subseteq Active(m) BY <1>1 DEF Active
  <2> QED BY <2>1, <1>1, SmallerCapacity
<1>4. NoneEmptied(m, n)
  BY <1>1, <1>t DEF NoneEmptied
<1> QED BY <1>1, <1>2, <1>3, <1>4 DEF GoodManager, n

----------------------------------------------------------------------------
(* The steps of the server *)

\* The loop over the players of a request keeps the manager good and moves
\* nobody who already has a room; its answer names sessions.
LEMMA LoopGood ==
    ASSUME NEW m, GoodManager(m), NEW b \in Battles, b \in m.rooms,
           NEW players \in PlayerLists, NEW spawns
    PROVE  LET loop == JoinLoop(m, b, players, spawns)
           IN /\ GoodManager(loop.mgr)
              /\ loop.actor \in Sessions \cup {None}
              /\ \A x \in Sessions : m.routes[x] # None =>
                    loop.mgr.routes[x] = m.routes[x]
              /\ Grown(m, loop.mgr)
<1> DEFINE p == players[1]
           q == players[2]
           m1 == AddPlayer(m, b, p, spawns)
           m2 == AddPlayer(m1, b, q, spawns)
           loop == JoinLoop(m, b, players, spawns)
<1>1. /\ p \in Sessions
      /\ Len(players) # 1 => q \in Sessions
  BY DEF PlayerLists
<1>2. /\ GoodManager(m1)
      /\ b \in m1.rooms
      /\ \A x \in Sessions : m.routes[x] # None => m1.routes[x] = m.routes[x]
      /\ Grown(m, m1)
  BY <1>1, AddGood
<1>3. CASE Len(players) = 1
  <2>1. loop.mgr = m1 /\ loop.actor \in {p, None}
    BY <1>3 DEF JoinLoop, ActorIn
  <2> QED BY <2>1, <1>1, <1>2
<1>4. CASE Len(players) # 1
  <2>1. loop.mgr = m2 /\ loop.actor \in {p, q, None}
    BY <1>4 DEF JoinLoop, ActorIn
  <2>2. /\ GoodManager(m2)
        /\ \A x \in Sessions : m1.routes[x] # None => m2.routes[x] = m1.routes[x]
        /\ Grown(m1, m2)
    BY <1>1, <1>2, <1>4, AddGood
  <2>3. Grown(m, m2)
    BY <2>2, <1>2 DEF Grown
  <2> QED BY <2>1, <2>2, <2>3, <1>1, <1>2, <1>4
<1> QED BY <1>3, <1>4

\* BattleInv, seen as a good manager and what ties it to the rest.
Tied == ManagerPresent /\ InputOfOwnBattle /\ TickedRoomHasPlayers

LEMMA InvParts == BattleInv <=> TypeOK /\ GoodManager(mgr) /\ Tied
BY DEF BattleInv, Tied, TypeOK, GoodManager, RoutesAgree, CapacityKept

\* The same after a step.
LEMMA InvPartsPrime == BattleInv' <=> TypeOK' /\ GoodManager(mgr') /\ Tied'
BY DEF BattleInv, Tied, TypeOK, GoodManager, RoutesAgree, CapacityKept, Routing,
       Capacity, Active, Managers

\* The server starts with an empty manager and no connection.
LEMMA BattleInit == Init => BattleInv
<1> SUFFICES ASSUME Init PROVE BattleInv
  OBVIOUS
<1>1. GoodManager(mgr)
  BY NoRoomsGood DEF Init
<1>2. TypeOK
  BY <1>1, BattleAssumptions DEF Init, TypeOK, Links, NoResp, GoodManager
<1>3. Tied
  BY DEF Init, Tied, ManagerPresent, InputOfOwnBattle, TickedRoomHasPlayers
<1> QED BY <1>1, <1>2, <1>3, InvParts

\* Frames of the rooms that are left after players were removed.
LEMMA FramesAfterRemoval ==
    ASSUME TypeOK, TickedRoomHasPlayers, GoodManager(mgr'), NoneEmptied(mgr, mgr'),
           FramesLeft
    PROVE  frame' \in [Battles -> 0 .. FrameMod - 1] /\ TickedRoomHasPlayers'
<1>1. \A b \in Battles : frame'[b] = IF b \in mgr'.rooms THEN frame[b] ELSE 0
  BY DEF FramesLeft
<1>2. frame' \in [Battles -> 0 .. FrameMod - 1]
  BY BattleAssumptions DEF FramesLeft, TypeOK
<1>3. ASSUME NEW b \in Battles, frame'[b] # 0
      PROVE  b \in mgr'.rooms /\ mgr'.slots[b] # {}
  BY <1>1, <1>3 DEF TickedRoomHasPlayers, NoneEmptied
<1> QED BY <1>2, <1>3 DEF TickedRoomHasPlayers

\* Connection events.
LEMMA ConnectionStep == BattleInv /\ Connection => BattleInv'
<1> SUFFICES ASSUME BattleInv, Connection PROVE BattleInv'
  OBVIOUS
<1>t. TypeOK /\ GoodManager(mgr) /\ Tied
  BY InvParts
<1>1. CASE Opened \/ OpenFailed \/ Registered \/ RegRefused
  <2>1. /\ ServerUnaware
        /\ link' \in Links
        /\ link # "closed"
        /\ client' \in {client, FALSE}
    BY <1>1 DEF Opened, OpenFailed, Registered, RegRefused, Links
  <2>2. TypeOK' BY <2>1, <1>t DEF TypeOK, ServerUnaware
  <2>3. Tied'
    BY <2>1, <1>t DEF Tied, ManagerPresent, InputOfOwnBattle, TickedRoomHasPlayers,
                     ServerUnaware
  <2> QED BY <2>1, <2>2, <2>3, <1>t, InvPartsPrime DEF ServerUnaware
<1>2. CASE Closed
  <2>1. GoodManager(mgr')
    BY <1>2, NoRoomsGood DEF Closed
  <2>2. TypeOK'
    <3>1. frame' \in [Battles -> 0 .. FrameMod - 1]
      BY <1>2, FirstFrame DEF Closed
    <3> QED
      BY <3>1, <2>1, <1>2, <1>t DEF Closed, TypeOK, Links, GoodManager
  <2>3. Tied'
    BY <1>2 DEF Closed, Tied, ManagerPresent, InputOfOwnBattle,
                TickedRoomHasPlayers, NoRooms
  <2> QED BY <2>1, <2>2, <2>3, InvPartsPrime
<1> QED BY <1>1, <1>2 DEF Connection

\* stopAllSessions, which both ways of stopping go through.
LEMMA StopAllStep ==
    ASSUME BattleInv, StopAllSessions
    PROVE  /\ GoodManager(mgr')
           /\ online' \in SUBSET Sessions
           /\ acked' \in [Sessions -> Battles \cup {None}]
           /\ frame' \in [Battles -> 0 .. FrameMod - 1]
           /\ InputOfOwnBattle' /\ TickedRoomHasPlayers'
<1>t. TypeOK /\ GoodManager(mgr) /\ Tied
  BY InvParts
<1>1. CASE present
  <2>1. /\ mgr' = RemoveAll(mgr, online)
        /\ acked' = [s \in Sessions |-> IF s \in online THEN None ELSE acked[s]]
        /\ online' = {} /\ FramesLeft
    BY <1>1 DEF StopAllSessions
  <2>2. /\ GoodManager(mgr')
        /\ \A x \in Sessions : mgr'.routes[x] =
                IF x \in online THEN None ELSE mgr.routes[x]
        /\ NoneEmptied(mgr, mgr')
    BY <2>1, <1>t, RemoveAllGood DEF TypeOK
  <2>3. acked' \in [Sessions -> Battles \cup {None}] /\ InputOfOwnBattle'
    BY <2>1, <2>2, <1>t DEF Tied, InputOfOwnBattle, TypeOK
  <2> QED BY <2>1, <2>2, <2>3, <1>t, FramesAfterRemoval DEF Tied
<1>2. CASE ~present
  <2>1. mgr' = mgr /\ acked' = [s \in Sessions |-> acked[s]] /\ online' = {} /\ FramesLeft
    BY <1>2 DEF StopAllSessions
  <2>2. acked' = acked
    BY <2>1, <1>t DEF TypeOK
  <2>3. NoneEmptied(mgr, mgr')
    BY <2>1 DEF NoneEmptied
  <2>4. GoodManager(mgr')
    BY <2>1, <1>t
  <2>5. acked' \in [Sessions -> Battles \cup {None}] /\ InputOfOwnBattle'
    BY <2>1, <2>2, <1>t DEF Tied, InputOfOwnBattle, TypeOK
  <2> QED BY <2>1, <2>3, <2>4, <2>5, <1>t, FramesAfterRemoval DEF Tied
<1> QED BY <1>1, <1>2

\* The game server going offline, and signals.
LEMMA StopStep == BattleInv /\ Stop => BattleInv'
<1> SUFFICES ASSUME BattleInv, Stop PROVE BattleInv'
  OBVIOUS
<1>t. TypeOK /\ GoodManager(mgr) /\ Tied
  BY InvParts
<1>1. CASE GameOffline \/ SignalConnected
  <2>1. /\ Shutdown
        /\ link' \in Links
        /\ link # "closed"
        /\ UNCHANGED <<present, load, resp>>
    BY <1>1 DEF GameOffline, SignalConnected, Links
  <2>2. present' /\ running' = FALSE /\ client' = FALSE
    BY <2>1, <1>t DEF Tied, ManagerPresent, Shutdown, TypeOK
  <2>3. CASE client
    <3>1. StopAllSessions BY <2>1, <2>3 DEF Shutdown
    <3>2. /\ GoodManager(mgr')
          /\ online' \in SUBSET Sessions
          /\ acked' \in [Sessions -> Battles \cup {None}]
          /\ frame' \in [Battles -> 0 .. FrameMod - 1]
          /\ InputOfOwnBattle' /\ TickedRoomHasPlayers'
      BY <3>1, StopAllStep
    <3>3. TypeOK'
      BY <3>2, <2>1, <2>2, <1>t DEF TypeOK, GoodManager
    <3>4. Tied'
      BY <3>2, <2>2 DEF Tied, ManagerPresent
    <3> QED BY <3>2, <3>3, <3>4, InvPartsPrime
  <2>4. CASE ~client
    <3>1. UNCHANGED <<mgr, online, acked, frame>> BY <2>1, <2>4 DEF Shutdown
    <3>2. TypeOK'
      BY <3>1, <2>1, <2>2, <1>t DEF TypeOK
    <3>3. Tied'
      BY <3>1, <2>2, <1>t DEF Tied, ManagerPresent, InputOfOwnBattle,
                             TickedRoomHasPlayers
    <3> QED BY <3>1, <3>2, <3>3, <1>t, InvPartsPrime
  <2> QED BY <2>3, <2>4
<1>2. CASE SignalStopped \/ \E when : SignalConnecting(when)
  <2>1. /\ UNCHANGED <<present, mgr, online, acked, frame, load, resp>>
        /\ link' \in Links
        /\ link = "closed" => link' = "closed"
        /\ running' = FALSE
        /\ client' \in BOOLEAN
    BY <1>2, <1>t DEF SignalStopped, SignalConnecting, Links, TypeOK
  <2>2. TypeOK'
    BY <2>1, <1>t DEF TypeOK
  <2>3. Tied'
    BY <2>1, <1>t DEF Tied, ManagerPresent, InputOfOwnBattle, TickedRoomHasPlayers
  <2> QED BY <2>1, <2>2, <2>3, <1>t, InvPartsPrime
<1> QED BY <1>1, <1>2 DEF Stop

\* Frames about one session: going online, going offline, an input.
LEMMA SessionStep == BattleInv /\ SessionFrame => BattleInv'
<1> SUFFICES ASSUME BattleInv, NEW s \in Sessions,
                    \/ SessionOnline(s)
                    \/ SessionOffline(s)
                    \/ \E b \in Battles : BattleInput(s, b)
             PROVE  BattleInv'
  BY DEF SessionFrame
<1>t. TypeOK /\ GoodManager(mgr) /\ Tied
  BY InvParts
<1>1. CASE SessionOnline(s) \/ SessionOffline(s)
  <2>1. /\ link = "registered" /\ present
        /\ UNCHANGED <<link, running, client, present, load, resp>>
        /\ online' \in SUBSET Sessions
        /\ StopSession(s)
    BY <1>1, <1>t DEF SessionOnline, SessionOffline, Tied, ManagerPresent, TypeOK
  <2>2. /\ GoodManager(mgr')
        /\ acked' \in [Sessions -> Battles \cup {None}]
        /\ frame' \in [Battles -> 0 .. FrameMod - 1]
        /\ InputOfOwnBattle' /\ TickedRoomHasPlayers'
    <3>1. CASE s \in online
      <4>1. /\ mgr' = RemovePlayer(mgr, s)
            /\ acked' = [acked EXCEPT ![s] = None]
            /\ FramesLeft
        BY <3>1, <2>1 DEF StopSession
      <4>2. /\ GoodManager(mgr')
            /\ \A x \in Sessions \ {s} : mgr'.routes[x] = mgr.routes[x]
            /\ NoneEmptied(mgr, mgr')
        BY <4>1, <1>t, RemoveGood
      <4>3. acked' \in [Sessions -> Battles \cup {None}] /\ InputOfOwnBattle'
        BY <4>1, <4>2, <1>t DEF TypeOK, Tied, InputOfOwnBattle
      <4> QED BY <4>1, <4>2, <4>3, <1>t, FramesAfterRemoval DEF Tied
    <3>2. CASE s \notin online
      BY <3>2, <2>1, <1>t DEF StopSession, TypeOK, Tied, InputOfOwnBattle,
                             TickedRoomHasPlayers
    <3> QED BY <3>1, <3>2
  <2>3. TypeOK'
    BY <2>1, <2>2, <1>t DEF TypeOK, GoodManager
  <2>4. Tied'
    BY <2>1, <2>2, <1>t DEF Tied, ManagerPresent
  <2> QED BY <2>2, <2>3, <2>4, InvPartsPrime
<1>2. ASSUME NEW b \in Battles, BattleInput(s, b) PROVE BattleInv'
  <2>1. TypeOK'
    BY <1>2, <1>t DEF BattleInput, TypeOK
  <2>2. Tied'
    BY <1>2, <1>t DEF BattleInput, Tied, ManagerPresent, InputOfOwnBattle,
                     TickedRoomHasPlayers, TypeOK
  <2> QED BY <2>1, <2>2, <1>2, <1>t, InvPartsPrime DEF BattleInput
<1> QED BY <1>1, <1>2

\* BattleCreateReq, served or refused.
LEMMA CreateStep == BattleInv /\ Create => BattleInv'
<1> SUFFICES ASSUME BattleInv, Create PROVE BattleInv'
  OBVIOUS
<1>t. TypeOK /\ GoodManager(mgr) /\ Tied
  BY InvParts
<1> DEFINE Answers == [code : {0, 3, 4, None}, actor : Sessions \cup {None},
                       players : SUBSET Sessions]
<1>1. ASSUME UNCHANGED <<link, running, client, present, mgr, online, acked, frame, load>>,
             resp' \in Answers
      PROVE  BattleInv'
  <2>1. TypeOK' BY <1>1, <1>t DEF TypeOK
  <2>2. Tied'
    BY <1>1, <1>t DEF Tied, ManagerPresent, InputOfOwnBattle, TickedRoomHasPlayers
  <2> QED BY <2>1, <2>2, <1>1, <1>t, InvPartsPrime
<1>2. ASSUME NEW b \in Battles, CreateAgain(b) PROVE BattleInv'
  <2>1. mgr.slots[b] \in SUBSET Sessions BY <1>t DEF TypeOK, Managers
  <2> QED BY <1>1, <1>2, <2>1 DEF CreateAgain
<1>3. ASSUME NEW b \in Battles, NEW mapLoads \in BOOLEAN, CreateRefused(b, mapLoads)
      PROVE  BattleInv'
  BY <1>1, <1>3 DEF CreateRefused
<1>4. ASSUME NEW b \in Battles, NEW players \in PlayerLists, NEW spawns,
             BattleCreate(b, players, spawns)
      PROVE  BattleInv'
  <2> DEFINE m == CreateRoom(mgr, b)
             loop == JoinLoop(m, b, players, spawns)
  <2>1. /\ GoodManager(m) /\ b \in m.rooms
        /\ m.routes = mgr.routes
        /\ Grown(mgr, m)
    <3>1. GoodManager(m) /\ b \in m.rooms
      BY <1>4, <1>t, CreateGood DEF BattleCreate
    <3> QED BY <3>1, <1>t DEF CreateRoom, TypeOK, Managers, Grown
  <2>2. /\ GoodManager(loop.mgr)
        /\ loop.actor \in Sessions \cup {None}
        /\ \A x \in Sessions : mgr.routes[x] # None =>
                loop.mgr.routes[x] = mgr.routes[x]
        /\ Grown(m, loop.mgr)
    BY <2>1, LoopGood
  <2>3. /\ mgr' = loop.mgr
        /\ UNCHANGED <<link, running, client, present, online, acked, frame, load>>
        /\ link = "registered"
        /\ resp' = IF loop.joined
                   THEN [code |-> 0, actor |-> loop.actor,
                         players |-> loop.mgr.slots[b]]
                   ELSE [code |-> 4, actor |-> None, players |-> {}]
    BY <1>4 DEF BattleCreate
  <2>4. resp' \in Answers
    <3>1. loop.mgr.slots[b] \in SUBSET Sessions BY <2>2 DEF GoodManager, Managers
    <3> HIDE DEF loop
    <3> QED BY <3>1, <2>2, <2>3
  <2>5. Grown(mgr, mgr')
    <3> HIDE DEF loop, m
    <3> QED BY <2>1, <2>2, <2>3 DEF Grown
  <2> HIDE DEF loop
  <2>6. TypeOK'
    BY <2>2, <2>3, <2>4, <1>t DEF TypeOK, GoodManager
  <2>7. ManagerPresent'
    BY <2>3, <1>t DEF Tied, ManagerPresent
  <2>8. InputOfOwnBattle'
    BY <2>2, <2>3, <1>t DEF Tied, InputOfOwnBattle, TypeOK
  <2>9. TickedRoomHasPlayers'
    BY <2>3, <2>5, <1>t DEF Tied, TickedRoomHasPlayers, Grown
  <2> QED BY <2>2, <2>3, <2>6, <2>7, <2>8, <2>9, InvPartsPrime DEF Tied
<1> QED BY <1>2, <1>3, <1>4 DEF Create

\* The tick advances only rooms that have a player.
LEMMA TickStep ==
    ASSUME BattleInv, NEW report \in BOOLEAN, Tick(report)
    PROVE  BattleInv'
<1>t. TypeOK /\ GoodManager(mgr) /\ Tied
  BY InvParts
<1>1. load' \in BOOLEAN
  BY <1>t DEF Tick, Accepting, TypeOK
<1>2. \A b \in Battles : (frame[b] + 1) % FrameMod \in 0 .. FrameMod - 1
  BY <1>t, BattleAssumptions DEF TypeOK
<1>3. frame' \in [Battles -> 0 .. FrameMod - 1]
  BY <1>2, <1>t DEF Tick, TickAll, TypeOK
<1>4. TypeOK'
  BY <1>1, <1>3, <1>t DEF Tick, TypeOK
<1>5. TickedRoomHasPlayers'
  BY <1>t DEF Tick, TickAll, Tied, TickedRoomHasPlayers
<1>6. ManagerPresent' /\ InputOfOwnBattle'
  BY <1>t DEF Tick, Tied, ManagerPresent, InputOfOwnBattle
<1> QED BY <1>4, <1>5, <1>6, <1>t, InvPartsPrime DEF Tick, Tied

\* Every step of the server keeps the invariant.
LEMMA BattleStep == BattleInv /\ [Next]_vars => BattleInv'
<1> SUFFICES ASSUME BattleInv, [Next]_vars PROVE BattleInv'
  OBVIOUS
<1>1. CASE UNCHANGED vars
  <2>t. TypeOK /\ GoodManager(mgr) /\ Tied
    BY InvParts
  <2>1. TypeOK' /\ Tied'
    BY <1>1, <2>t DEF vars, TypeOK, Tied, ManagerPresent, InputOfOwnBattle,
                      TickedRoomHasPlayers
  <2> QED BY <2>1, <1>1, <2>t, InvPartsPrime DEF vars
<1> QED BY <1>1, ConnectionStep, StopStep, SessionStep, CreateStep, TickStep DEF Next

----------------------------------------------------------------------------
(* Results *)

\* The inductive invariant of the battle server.
THEOREM BattleInvariant == Spec => []BattleInv
<1>1. Init => BattleInv BY BattleInit
<1>2. BattleInv /\ [Next]_vars => BattleInv' BY BattleStep
<1> QED BY <1>1, <1>2, PTL DEF Spec

\* BattleRoomManager's two maps agree after any sequence of frames.
THEOREM BattleRouting == Spec => []RoutesAgree
<1>1. BattleInv => RoutesAgree BY DEF BattleInv
<1> QED BY <1>1, BattleInvariant, PTL

\* max_battles, max_sessions and two players a room are never exceeded.
THEOREM BattleCapacity == Spec => []CapacityKept
<1>1. BattleInv => CapacityKept BY DEF BattleInv
<1> QED BY <1>1, BattleInvariant, PTL

\* No frame is handled after onDisconnected reset the manager.
THEOREM BattleManagerPresent == Spec => []ManagerPresent
<1>1. BattleInv => ManagerPresent BY DEF BattleInv
<1> QED BY <1>1, BattleInvariant, PTL

\* No slot acknowledges an input meant for another battle.
THEOREM BattleInputs == Spec => []InputOfOwnBattle
<1>1. BattleInv => InputOfOwnBattle BY DEF BattleInv
<1> QED BY <1>1, BattleInvariant, PTL

\* A room that was ever ticked has a player: none outlives its last one.
THEOREM BattleNoDeadRoom == Spec => []TickedRoomHasPlayers
<1>1. BattleInv => TickedRoomHasPlayers BY DEF BattleInv
<1> QED BY <1>1, BattleInvariant, PTL

\* Every variable of the battle server keeps its type.
THEOREM BattleTypes == Spec => []TypeOK
<1>1. BattleInv => TypeOK BY DEF BattleInv
<1> QED BY <1>1, BattleInvariant, PTL

============================================================================
