------------------------- MODULE GameSessionsProofs -------------------------
(***************************************************************************)
(* Proofs about GameSessions: its types, and that no interleaving of the   *)
(* session tasks and of the read loop, each step under one lock, leaves a  *)
(* session behind in the tables, takes an account from the last login, or  *)
(* loses a session from the index that an offline push goes through.       *)
(*                                                                         *)
(* Sessions may have any number of tasks.  What fails for a session whose  *)
(* task was replaced while it ran is excluded by the history respawned of  *)
(* the run itself, not by an assumption on SessionOf.                      *)
(***************************************************************************)
EXTENDS GameSessions, TLAPS

WipePCs == {"wipeB", "wipeBI", "wipeT", "wipeTI", "wipeD", "wipeC"}

TownPCs == {"townGw", "townB", "townBI", "townIns", "townIdx", "unbind",
            "unbindI", "awayU", "awayUI"}

Ended == {"none", "done", "logout"}

Own(t) == who[t] = SessionOf[t]

----------------------------------------------------------------------------
(* The inductive invariant, part by part *)

\* What a handler read before stays there for the steps that use it.
Reads ==
    \A t \in Tasks :
        /\ pc[t] = "login" => account[t] # None
        /\ pc[t] \in {"respond", "create"} => duel[t] # None
        /\ pc[t] = "none" => account[t] = None

TypeInv == TypeOK /\ Reads

\* Whose session a step is about: the town and the end of on_stop are about the
\* task's own; a wipe of its own is on_stop's.
Whose ==
    \A t \in Tasks :
        /\ pc[t] \in TownPCs => Own(t)
        /\ pc[t] = "owner" => ~Own(t)
        /\ pc[t] \in WipePCs /\ Own(t) => stop[t]
        /\ pc[t] = "logout" => stop[t]
        /\ stop[t] => pc[t] # "none"

\* Two tasks of one session run at the same time only after the second was
\* spawned while the first ran; and only a task that ran has logged in.
Runs(t) == pc[t] \notin {"none", "done"}

Alone ==
    /\ \A t, u \in Tasks :
          /\ t # u
          /\ SessionOf[t] = SessionOf[u]
          /\ Runs(t)
          /\ Runs(u)
          => SessionOf[t] \in respawned
    /\ \A a \in Accounts : owner[a] # None => pc[owner[a]] # "none"

\* A session in a table has a task that has not yet come past the step of
\* on_stop that takes it out.
Past(t, l) == pc[t] \in Ended \/ (Own(t) /\ pc[t] \in l)

Attended(s, l) == \E t \in Tasks : SessionOf[t] = s /\ ~Past(t, l)

LeftToTasks ==
    \A s \in Sessions :
        /\ place["town"][s] # None => Attended(s, {"wipeTI", "wipeD", "wipeC"})
        /\ place["battle"][s] # None =>
              \/ s \in late
              \/ Attended(s, {"wipeBI", "wipeT", "wipeTI", "wipeD", "wipeC"})
        /\ duels[s] # None => Attended(s, {"wipeC"})
        /\ s \in selected => Attended(s, {})

\* The last to log in is the session in the table, whatever it does since; and
\* a session in the table has a task that is logged in, or that has gone on to
\* another account.
Logged(s, a) ==
    \E t \in Tasks :
        /\ SessionOf[t] = s
        /\ \/ account[t] = a /\ pc[t] # "done"
           \/ account[t] \notin {None, a}

OwnerHolds ==
    \A a \in Accounts :
        /\ LET t == owner[a] IN
              t # None /\ pc[t] # "done" /\ SessionOf[t] \notin respawned
              => accounts[a] = SessionOf[t]
        /\ accounts[a] # None => Logged(accounts[a], a)

\* Only the task of a session puts it into the town: none does while the task
\* takes it out.
OutOfTown ==
    \A t \in Tasks :
        pc[t] \in {"unbindI", "awayUI"} /\ SessionOf[t] \notin respawned
        => place["town"][SessionOf[t]] = None

\* A place that is missing in the index is about to be put there or to be taken
\* away, or the session is being stopped, or kicked, or the connection is gone.
InsPCs(k) == IF k = "battle" THEN {"battleIns", "duelIns"} ELSE {"townIns"}
IdxPCs(k) == IF k = "battle" THEN {"battleIdx", "duelIdx"} ELSE {"townIdx"}

Binding(s, k) ==
    \E t \in Tasks :
        /\ who[t] = s
        /\ \/ pc[t] \in InsPCs(k)
           \/ pc[t] \in IdxPCs(k) /\ inst[t] = place[k][s]

BeingKicked(s) ==
    \/ s \in kicked
    \/ \E t \in Tasks : who[t] = s /\ ~Own(t) /\ pc[t] \in WipePCs \cup {"kick"}

Stopping(s) == \E t \in Tasks : SessionOf[t] = s /\ stop[t] /\ pc[t] # "done"

ConnectionLost == reader \in {"wipeA", "wipeB", "wipeBI", "wipeT", "wipeTI", "stop"}

Found(s, k) ==
    \/ s \in index[k][place[k][s]]
    \/ Binding(s, k)
    \/ BeingKicked(s)
    \/ Stopping(s)
    \/ reader = OfflinePC(k) /\ s \in visits
    \/ ConnectionLost

Findable ==
    \A s \in Sessions, k \in Kinds :
        place[k][s] # None /\ s \notin respawned \cup late => Found(s, k)

GameInv ==
    /\ TypeInv
    /\ Whose
    /\ Alone
    /\ LeftToTasks
    /\ OwnerHolds
    /\ OutOfTown
    /\ Findable

----------------------------------------------------------------------------
(* Every step keeps each of them *)

\* InsertIndex keeps the index a table of sets of sessions, whatever i is.
LEMMA IndexInserted ==
    ASSUME NEW f \in [Kinds -> [Insts -> SUBSET Sessions]],
           NEW k \in Kinds, NEW i, NEW s \in Sessions
    PROVE  [f EXCEPT ![k][i] = @ \cup {s}] \in [Kinds -> [Insts -> SUBSET Sessions]]
<1> DEFINE g == [f[k] EXCEPT ![i] = @ \cup {s}]
<1>1. g \in [Insts -> SUBSET Sessions]
  OBVIOUS
<1>2. [f EXCEPT ![k][i] = @ \cup {s}] = [f EXCEPT ![k] = g]
  OBVIOUS
<1> HIDE DEF g
<1> QED BY <1>1, <1>2

\* A frame counts as one of its type, up to the bound.
LEMMA FrameCounted ==
    ASSUME TypeOK, NEW t \in Tasks, NEW f \in FrameTypes, Ready(t, f)
    PROVE  /\ frames' \in [Tasks -> [FrameTypes -> Nat]]
           /\ \A u \in Tasks, g \in FrameTypes : frames'[u][g] <= MaxFrames[u][g]
<1> DEFINE row == [frames[t] EXCEPT ![f] = @ + 1]
<1>1. /\ frames \in [Tasks -> [FrameTypes -> Nat]]
      /\ \A u \in Tasks, g \in FrameTypes : frames[u][g] <= MaxFrames[u][g]
      /\ MaxFrames \in [Tasks -> [FrameTypes -> Nat]]
  BY GameAssumptions DEF TypeOK
<1>2. row \in [FrameTypes -> Nat]
  BY <1>1
<1>3. frames[t][f] + 1 <= MaxFrames[t][f]
  BY <1>1 DEF Ready
<1>4. \A g \in FrameTypes : row[g] <= MaxFrames[t][g]
  BY <1>1, <1>3
<1>5. frames' = [frames EXCEPT ![t] = row]
  BY DEF Ready
<1> HIDE DEF row
<1> QED BY <1>1, <1>2, <1>4, <1>5

\* The types, action by action.
LEMMA TypeStep ==
    ASSUME TypeInv, Next
    PROVE  TypeInv'
<1> USE GameAssumptions DEF TypeInv, TypeOK, Reads, TaskPCs, ReaderPCs, task,
       held, tables, loop, marks, Goto, GotoOrReturn, Return, Keep, Ready,
       Kinds
<1>1. ASSUME NEW t \in Tasks, WipePlaces(t)
       PROVE  TypeInv'
  <2>1. CASE RemovePlace(t, "battle", "wipeB", "wipeBI")
    BY <2>1 DEF RemovePlace
  <2>2. CASE Unindex(t, "battle", "wipeBI", "wipeT")
    BY <2>2 DEF Unindex
  <2>3. CASE RemovePlace(t, "town", "wipeT", "wipeTI")
    BY <2>3 DEF RemovePlace
  <2>4. CASE Unindex(t, "town", "wipeTI", "wipeD")
    BY <2>4 DEF Unindex
  <2> QED BY <1>1, <2>1, <2>2, <2>3, <2>4 DEF WipePlaces
<1>2. ASSUME NEW t \in Tasks, WipeDuels(t)
       PROVE  TypeInv'
  BY <1>2 DEF WipeDuels
<1>3. ASSUME NEW t \in Tasks, WipeCharacter(t)
       PROVE  TypeInv'
  BY <1>3 DEF WipeCharacter
<1>4. ASSUME NEW t \in Tasks, OnStop(t)
       PROVE  TypeInv'
  BY <1>4 DEF OnStop
<1>5. ASSUME NEW t \in Tasks, Logout(t)
       PROVE  TypeInv'
  BY <1>5 DEF Logout
<1>6. ASSUME NEW t \in Tasks, BindAccount(t)
       PROVE  TypeInv'
  BY <1>6 DEF BindAccount
<1>7. ASSUME NEW t \in Tasks, StillOwner(t)
       PROVE  TypeInv'
  BY <1>7 DEF StillOwner
<1>8. ASSUME NEW t \in Tasks, Kick(t)
       PROVE  TypeInv'
  BY <1>8 DEF Kick
<1>9. ASSUME NEW t \in Tasks, NEW ok \in BOOLEAN, TownGateway(t, ok)
       PROVE  TypeInv'
  BY <1>9 DEF TownGateway
<1>10. ASSUME NEW t \in Tasks, BindTown(t)
       PROVE  TypeInv'
  <2>1. CASE RemovePlace(t, "town", "townB", "townBI")
    BY <2>1 DEF RemovePlace
  <2>2. CASE Unindex(t, "town", "townBI", "townIns")
    BY <2>2 DEF Unindex
  <2>3. CASE InsertPlace(t, "town", "townIns", "townIdx")
    BY <2>3 DEF InsertPlace
  <2>4. CASE InsertIndex(t, "town", "townIdx") /\ Return(t)
    <3>1. index' \in [Kinds -> [Insts -> SUBSET Sessions]]
      BY <2>4, IndexInserted DEF InsertIndex
    <3> QED BY <2>4, <3>1 DEF InsertIndex
  <2> QED BY <1>10, <2>1, <2>2, <2>3, <2>4 DEF BindTown
<1>11. ASSUME NEW t \in Tasks, NEW ok \in BOOLEAN, LeaveTown(t, "leave", "unbind", "end", ok)
       PROVE  TypeInv'
  BY <1>11 DEF LeaveTown
<1>12. ASSUME NEW t \in Tasks, UnbindTown(t, "unbind", "unbindI", "end")
       PROVE  TypeInv'
  <2>1. CASE RemovePlace(t, "town", "unbind", "unbindI")
    BY <2>1 DEF RemovePlace
  <2>2. CASE Unindex(t, "town", "unbindI", "end")
    BY <2>2 DEF Unindex
  <2> QED BY <1>12, <2>1, <2>2 DEF UnbindTown
<1>13. ASSUME NEW t \in Tasks, NEW ok \in BOOLEAN, BattleGateway(t, "battleGw", "battleB", ok)
       PROVE  TypeInv'
  BY <1>13 DEF BattleGateway
<1>14. ASSUME NEW t \in Tasks, BindBattle(t)
       PROVE  TypeInv'
  <2>1. CASE RemovePlace(t, "battle", "battleB", "battleBI")
    BY <2>1 DEF RemovePlace
  <2>2. CASE Unindex(t, "battle", "battleBI", "battleIns")
    BY <2>2 DEF Unindex
  <2>3. CASE InsertPlace(t, "battle", "battleIns", "battleIdx")
    BY <2>3 DEF InsertPlace
  <2>4. CASE /\ InsertIndex(t, "battle", "battleIdx")
             /\ Goto(t, IF duel[t] = None THEN "leave" ELSE "away")
             /\ UNCHANGED held
    <3>1. index' \in [Kinds -> [Insts -> SUBSET Sessions]]
      BY <2>4, IndexInserted DEF InsertIndex
    <3> QED BY <2>4, <3>1 DEF InsertIndex
  <2> QED BY <1>14, <2>1, <2>2, <2>3, <2>4 DEF BindBattle
<1>15. ASSUME NEW t \in Tasks, AddPendingDuel(t)
       PROVE  TypeInv'
  BY <1>15 DEF AddPendingDuel
<1>16. ASSUME NEW t \in Tasks, NEW ok \in BOOLEAN, RemovePendingDuel(t, ok)
       PROVE  TypeInv'
  BY <1>16 DEF RemovePendingDuel
<1>17. ASSUME NEW t \in Tasks, NEW i \in Insts, CreateDuel(t, i)
       PROVE  TypeInv'
  BY <1>17 DEF CreateDuel
<1>18. ASSUME NEW t \in Tasks, CreateFails(t)
       PROVE  TypeInv'
  BY <1>18 DEF CreateFails
<1>19. ASSUME NEW t \in Tasks, NEW ok \in BOOLEAN, BattleGateway(t, "duelGw", "duelB", ok)
       PROVE  TypeInv'
  BY <1>19 DEF BattleGateway
<1>20. ASSUME NEW t \in Tasks, BindChallenger(t)
       PROVE  TypeInv'
  <2>1. CASE RemovePlace(t, "battle", "duelB", "duelBI")
    BY <2>1 DEF RemovePlace
  <2>2. CASE Unindex(t, "battle", "duelBI", "duelIns")
    BY <2>2 DEF Unindex
  <2>3. CASE InsertPlace(t, "battle", "duelIns", "duelIdx")
    BY <2>3 DEF InsertPlace
  <2>4. CASE /\ InsertIndex(t, "battle", "duelIdx")
             /\ Keep(who, t, SessionOf[t])
             /\ Goto(t, "battleGw")
             /\ UNCHANGED <<inst, duel>>
    <3>1. index' \in [Kinds -> [Insts -> SUBSET Sessions]]
      BY <2>4, IndexInserted DEF InsertIndex
    <3> QED BY <2>4, <3>1 DEF InsertIndex
  <2> QED BY <1>20, <2>1, <2>2, <2>3, <2>4 DEF BindChallenger
<1>21. ASSUME NEW t \in Tasks, NEW ok \in BOOLEAN, LeaveTownFor(t, ok)
       PROVE  TypeInv'
  BY <1>21 DEF LeaveTownFor
<1>22. ASSUME NEW t \in Tasks, NEW ok \in BOOLEAN, LeaveTown(t, "away", "awayU", "leave", ok)
       PROVE  TypeInv'
  BY <1>22 DEF LeaveTown
<1>23. ASSUME NEW t \in Tasks, UnbindTown(t, "awayU", "awayUI", "leave")
       PROVE  TypeInv'
  <2>1. CASE RemovePlace(t, "town", "awayU", "awayUI")
    BY <2>1 DEF RemovePlace
  <2>2. CASE Unindex(t, "town", "awayUI", "leave")
    BY <2>2 DEF Unindex
  <2> QED BY <1>23, <2>1, <2>2 DEF UnbindTown
<1>24. ASSUME NEW t \in Tasks, EndBattle(t)
       PROVE  TypeInv'
  BY <1>24 DEF EndBattle
<1>25. ASSUME NEW t \in Tasks, NEW a \in Accounts, Login(t, a)
       PROVE  TypeInv'
  <2>1. /\ frames' \in [Tasks -> [FrameTypes -> Nat]]
        /\ \A u \in Tasks, g \in FrameTypes : frames'[u][g] <= MaxFrames[u][g]
    BY <1>25, FrameCounted DEF Login, FrameTypes
  <2> HIDE DEF Ready
  <2>2. pc[t] = "idle" /\ ~stop[t]
    BY <1>25 DEF Login, Ready
  <2> QED BY <1>25, <2>1, <2>2 DEF Login
<1>26. ASSUME NEW t \in Tasks, NEW a \in Accounts, DuelInvite(t, a)
       PROVE  TypeInv'
  <2>1. /\ frames' \in [Tasks -> [FrameTypes -> Nat]]
        /\ \A u \in Tasks, g \in FrameTypes : frames'[u][g] <= MaxFrames[u][g]
    BY <1>26, FrameCounted DEF DuelInvite, FrameTypes
  <2> HIDE DEF Ready
  <2>2. pc[t] = "idle" /\ ~stop[t]
    BY <1>26 DEF DuelInvite, Ready
  <2> QED BY <1>26, <2>1, <2>2 DEF DuelInvite
<1>27. ASSUME NEW t \in Tasks, SelectCharacter(t)
       PROVE  TypeInv'
  <2>1. /\ frames' \in [Tasks -> [FrameTypes -> Nat]]
        /\ \A u \in Tasks, g \in FrameTypes : frames'[u][g] <= MaxFrames[u][g]
    BY <1>27, FrameCounted DEF SelectCharacter, FrameTypes
  <2> HIDE DEF Ready
  <2>2. pc[t] = "idle" /\ ~stop[t]
    BY <1>27 DEF SelectCharacter, Ready
  <2> QED BY <1>27, <2>1, <2>2 DEF SelectCharacter
<1>28. ASSUME NEW t \in Tasks, NEW i \in Insts, EnterScene(t, i)
       PROVE  TypeInv'
  <2>1. /\ frames' \in [Tasks -> [FrameTypes -> Nat]]
        /\ \A u \in Tasks, g \in FrameTypes : frames'[u][g] <= MaxFrames[u][g]
    BY <1>28, FrameCounted DEF EnterScene, FrameTypes
  <2> HIDE DEF Ready
  <2>2. pc[t] = "idle" /\ ~stop[t]
    BY <1>28 DEF EnterScene, Ready
  <2> QED BY <1>28, <2>1, <2>2 DEF EnterScene
<1>29. ASSUME NEW t \in Tasks, NEW i \in Insts, BattleJoin(t, i)
       PROVE  TypeInv'
  <2>1. /\ frames' \in [Tasks -> [FrameTypes -> Nat]]
        /\ \A u \in Tasks, g \in FrameTypes : frames'[u][g] <= MaxFrames[u][g]
    BY <1>29, FrameCounted DEF BattleJoin, FrameTypes
  <2> HIDE DEF Ready
  <2>2. pc[t] = "idle" /\ ~stop[t]
    BY <1>29 DEF BattleJoin, Ready
  <2> QED BY <1>29, <2>1, <2>2 DEF BattleJoin
<1>30. ASSUME NEW t \in Tasks, NEW c \in Sessions, DuelRespond(t, c)
       PROVE  TypeInv'
  <2>1. /\ frames' \in [Tasks -> [FrameTypes -> Nat]]
        /\ \A u \in Tasks, g \in FrameTypes : frames'[u][g] <= MaxFrames[u][g]
    BY <1>30, FrameCounted DEF DuelRespond, FrameTypes
  <2> HIDE DEF Ready
  <2>2. pc[t] = "idle" /\ ~stop[t]
    BY <1>30 DEF DuelRespond, Ready
  <2> QED BY <1>30, <2>1, <2>2 DEF DuelRespond
<1>31. ASSUME NEW j \in Kinds, OfflineDone(j)
       PROVE  TypeInv'
  BY <1>31 DEF OfflineDone
<1>32. ASSUME NEW j \in Kinds, NEW r \in Sessions, VisitSession(j, r)
       PROVE  TypeInv'
  BY <1>32 DEF VisitSession
<1>33. ASSUME WipeAccounts
       PROVE  TypeInv'
  BY <1>33 DEF WipeAccounts
<1>34. ASSUME WipePlace("battle", "wipeB", "wipeBI")
       PROVE  TypeInv'
  BY <1>34 DEF WipePlace
<1>35. ASSUME WipeIndex("battle", "wipeBI", "wipeT")
       PROVE  TypeInv'
  BY <1>35 DEF WipeIndex
<1>36. ASSUME WipePlace("town", "wipeT", "wipeTI")
       PROVE  TypeInv'
  BY <1>36 DEF WipePlace
<1>37. ASSUME WipeIndex("town", "wipeTI", "stop")
       PROVE  TypeInv'
  BY <1>37 DEF WipeIndex
<1>38. ASSUME StopAllSessions
       PROVE  TypeInv'
  BY <1>38 DEF StopAllSessions
<1>39. ASSUME NEW t \in Tasks, Spawn(t)
       PROVE  TypeInv'
  BY <1>39 DEF Spawn
<1>40. ASSUME NEW r \in Sessions, StopSession(r)
       PROVE  TypeInv'
  BY <1>40 DEF StopSession
<1>41. ASSUME NEW j \in Kinds, NEW i \in Insts, ServerOffline(j, i)
       PROVE  TypeInv'
  <2>1. visits' \in SUBSET Sessions /\ events' \in 0..MaxEvents /\ reader' \in ReaderPCs
    BY <1>41 DEF ServerOffline, OfflinePC
  <2>2. index' \in [Kinds -> [Insts -> SUBSET Sessions]]
    BY <1>41 DEF ServerOffline
  <2>3. gone' \in [Kinds -> SUBSET Insts]
    BY <1>41 DEF ServerOffline
  <2>4. UNCHANGED <<pc, task, held, old, accounts, place, duels, selected, marks>>
    BY <1>41 DEF ServerOffline
  <2> QED BY <2>1, <2>2, <2>3, <2>4
<1>42. ASSUME NEW j \in Kinds, NEW i \in Insts, ServerOnline(j, i)
       PROVE  TypeInv'
  BY <1>42 DEF ServerOnline
<1>43. ASSUME Disconnected
       PROVE  TypeInv'
  BY <1>43 DEF Disconnected
<1> HIDE DEF TypeInv, TypeOK, Reads, TaskPCs, ReaderPCs, task, held, tables,
       loop, marks, Goto, GotoOrReturn, Return, Keep, Ready, Kinds
<1> QED BY <1>1, <1>2, <1>3, <1>4, <1>5, <1>6, <1>7, <1>8, <1>9, <1>10, <1>11,
     <1>12, <1>13, <1>14, <1>15, <1>16, <1>17, <1>18, <1>19, <1>20, <1>21,
     <1>22, <1>23, <1>24, <1>25, <1>26, <1>27, <1>28, <1>29, <1>30, <1>31,
     <1>32, <1>33, <1>34, <1>35, <1>36, <1>37, <1>38, <1>39, <1>40, <1>41,
     <1>42, <1>43
     DEF Kinds, Next, TaskStep, ClientRequest, ReaderStep, GatewayInput

\* Whose session a step is about.
LEMMA WhoseStep ==
    ASSUME TypeInv, Whose, Next
    PROVE  Whose'
<1> USE GameAssumptions DEF TypeInv, TypeOK, Reads, Whose, Own, WipePCs,
       TownPCs, task, held, tables, loop, marks, Goto, GotoOrReturn, Return,
       Keep, Ready, Kinds
<1>1. ASSUME NEW t \in Tasks, WipePlaces(t)
       PROVE  Whose'
  <2>1. CASE RemovePlace(t, "battle", "wipeB", "wipeBI")
    BY <2>1 DEF RemovePlace
  <2>2. CASE Unindex(t, "battle", "wipeBI", "wipeT")
    BY <2>2 DEF Unindex
  <2>3. CASE RemovePlace(t, "town", "wipeT", "wipeTI")
    BY <2>3 DEF RemovePlace
  <2>4. CASE Unindex(t, "town", "wipeTI", "wipeD")
    BY <2>4 DEF Unindex
  <2> QED BY <1>1, <2>1, <2>2, <2>3, <2>4 DEF WipePlaces
<1>2. ASSUME NEW t \in Tasks, WipeDuels(t)
       PROVE  Whose'
  BY <1>2 DEF WipeDuels
<1>3. ASSUME NEW t \in Tasks, WipeCharacter(t)
       PROVE  Whose'
  BY <1>3 DEF WipeCharacter
<1>4. ASSUME NEW t \in Tasks, OnStop(t)
       PROVE  Whose'
  BY <1>4 DEF OnStop
<1>5. ASSUME NEW t \in Tasks, Logout(t)
       PROVE  Whose'
  BY <1>5 DEF Logout
<1>6. ASSUME NEW t \in Tasks, BindAccount(t)
       PROVE  Whose'
  BY <1>6 DEF BindAccount
<1>7. ASSUME NEW t \in Tasks, StillOwner(t)
       PROVE  Whose'
  BY <1>7 DEF StillOwner
<1>8. ASSUME NEW t \in Tasks, Kick(t)
       PROVE  Whose'
  BY <1>8 DEF Kick
<1>9. ASSUME NEW t \in Tasks, NEW ok \in BOOLEAN, TownGateway(t, ok)
       PROVE  Whose'
  BY <1>9 DEF TownGateway
<1>10. ASSUME NEW t \in Tasks, BindTown(t)
       PROVE  Whose'
  <2>1. CASE RemovePlace(t, "town", "townB", "townBI")
    BY <2>1 DEF RemovePlace
  <2>2. CASE Unindex(t, "town", "townBI", "townIns")
    BY <2>2 DEF Unindex
  <2>3. CASE InsertPlace(t, "town", "townIns", "townIdx")
    BY <2>3 DEF InsertPlace
  <2>4. CASE InsertIndex(t, "town", "townIdx") /\ Return(t)
    BY <2>4 DEF InsertIndex
  <2> QED BY <1>10, <2>1, <2>2, <2>3, <2>4 DEF BindTown
<1>11. ASSUME NEW t \in Tasks, NEW ok \in BOOLEAN, LeaveTown(t, "leave", "unbind", "end", ok)
       PROVE  Whose'
  BY <1>11 DEF LeaveTown
<1>12. ASSUME NEW t \in Tasks, UnbindTown(t, "unbind", "unbindI", "end")
       PROVE  Whose'
  <2>1. CASE RemovePlace(t, "town", "unbind", "unbindI")
    BY <2>1 DEF RemovePlace
  <2>2. CASE Unindex(t, "town", "unbindI", "end")
    BY <2>2 DEF Unindex
  <2> QED BY <1>12, <2>1, <2>2 DEF UnbindTown
<1>13. ASSUME NEW t \in Tasks, NEW ok \in BOOLEAN, BattleGateway(t, "battleGw", "battleB", ok)
       PROVE  Whose'
  BY <1>13 DEF BattleGateway
<1>14. ASSUME NEW t \in Tasks, BindBattle(t)
       PROVE  Whose'
  <2>1. CASE RemovePlace(t, "battle", "battleB", "battleBI")
    BY <2>1 DEF RemovePlace
  <2>2. CASE Unindex(t, "battle", "battleBI", "battleIns")
    BY <2>2 DEF Unindex
  <2>3. CASE InsertPlace(t, "battle", "battleIns", "battleIdx")
    BY <2>3 DEF InsertPlace
  <2>4. CASE /\ InsertIndex(t, "battle", "battleIdx")
             /\ Goto(t, IF duel[t] = None THEN "leave" ELSE "away")
             /\ UNCHANGED held
    BY <2>4 DEF InsertIndex
  <2> QED BY <1>14, <2>1, <2>2, <2>3, <2>4 DEF BindBattle
<1>15. ASSUME NEW t \in Tasks, AddPendingDuel(t)
       PROVE  Whose'
  BY <1>15 DEF AddPendingDuel
<1>16. ASSUME NEW t \in Tasks, NEW ok \in BOOLEAN, RemovePendingDuel(t, ok)
       PROVE  Whose'
  BY <1>16 DEF RemovePendingDuel
<1>17. ASSUME NEW t \in Tasks, NEW i \in Insts, CreateDuel(t, i)
       PROVE  Whose'
  BY <1>17 DEF CreateDuel
<1>18. ASSUME NEW t \in Tasks, CreateFails(t)
       PROVE  Whose'
  BY <1>18 DEF CreateFails
<1>19. ASSUME NEW t \in Tasks, NEW ok \in BOOLEAN, BattleGateway(t, "duelGw", "duelB", ok)
       PROVE  Whose'
  BY <1>19 DEF BattleGateway
<1>20. ASSUME NEW t \in Tasks, BindChallenger(t)
       PROVE  Whose'
  <2>1. CASE RemovePlace(t, "battle", "duelB", "duelBI")
    BY <2>1 DEF RemovePlace
  <2>2. CASE Unindex(t, "battle", "duelBI", "duelIns")
    BY <2>2 DEF Unindex
  <2>3. CASE InsertPlace(t, "battle", "duelIns", "duelIdx")
    BY <2>3 DEF InsertPlace
  <2>4. CASE /\ InsertIndex(t, "battle", "duelIdx")
             /\ Keep(who, t, SessionOf[t])
             /\ Goto(t, "battleGw")
             /\ UNCHANGED <<inst, duel>>
    BY <2>4 DEF InsertIndex
  <2> QED BY <1>20, <2>1, <2>2, <2>3, <2>4 DEF BindChallenger
<1>21. ASSUME NEW t \in Tasks, NEW ok \in BOOLEAN, LeaveTownFor(t, ok)
       PROVE  Whose'
  BY <1>21 DEF LeaveTownFor
<1>22. ASSUME NEW t \in Tasks, NEW ok \in BOOLEAN, LeaveTown(t, "away", "awayU", "leave", ok)
       PROVE  Whose'
  BY <1>22 DEF LeaveTown
<1>23. ASSUME NEW t \in Tasks, UnbindTown(t, "awayU", "awayUI", "leave")
       PROVE  Whose'
  <2>1. CASE RemovePlace(t, "town", "awayU", "awayUI")
    BY <2>1 DEF RemovePlace
  <2>2. CASE Unindex(t, "town", "awayUI", "leave")
    BY <2>2 DEF Unindex
  <2> QED BY <1>23, <2>1, <2>2 DEF UnbindTown
<1>24. ASSUME NEW t \in Tasks, EndBattle(t)
       PROVE  Whose'
  BY <1>24 DEF EndBattle
<1>25. ASSUME NEW t \in Tasks, NEW a \in Accounts, Login(t, a)
       PROVE  Whose'
  BY <1>25 DEF Login
<1>26. ASSUME NEW t \in Tasks, NEW a \in Accounts, DuelInvite(t, a)
       PROVE  Whose'
  BY <1>26 DEF DuelInvite
<1>27. ASSUME NEW t \in Tasks, SelectCharacter(t)
       PROVE  Whose'
  BY <1>27 DEF SelectCharacter
<1>28. ASSUME NEW t \in Tasks, NEW i \in Insts, EnterScene(t, i)
       PROVE  Whose'
  BY <1>28 DEF EnterScene
<1>29. ASSUME NEW t \in Tasks, NEW i \in Insts, BattleJoin(t, i)
       PROVE  Whose'
  BY <1>29 DEF BattleJoin
<1>30. ASSUME NEW t \in Tasks, NEW c \in Sessions, DuelRespond(t, c)
       PROVE  Whose'
  BY <1>30 DEF DuelRespond
<1>31. ASSUME NEW j \in Kinds, OfflineDone(j)
       PROVE  Whose'
  BY <1>31 DEF OfflineDone
<1>32. ASSUME NEW j \in Kinds, NEW r \in Sessions, VisitSession(j, r)
       PROVE  Whose'
  BY <1>32 DEF VisitSession
<1>33. ASSUME WipeAccounts
       PROVE  Whose'
  BY <1>33 DEF WipeAccounts
<1>34. ASSUME WipePlace("battle", "wipeB", "wipeBI")
       PROVE  Whose'
  BY <1>34 DEF WipePlace
<1>35. ASSUME WipeIndex("battle", "wipeBI", "wipeT")
       PROVE  Whose'
  BY <1>35 DEF WipeIndex
<1>36. ASSUME WipePlace("town", "wipeT", "wipeTI")
       PROVE  Whose'
  BY <1>36 DEF WipePlace
<1>37. ASSUME WipeIndex("town", "wipeTI", "stop")
       PROVE  Whose'
  BY <1>37 DEF WipeIndex
<1>38. ASSUME StopAllSessions
       PROVE  Whose'
  BY <1>38 DEF StopAllSessions
<1>39. ASSUME NEW t \in Tasks, Spawn(t)
       PROVE  Whose'
  BY <1>39 DEF Spawn
<1>40. ASSUME NEW r \in Sessions, StopSession(r)
       PROVE  Whose'
  BY <1>40 DEF StopSession
<1>41. ASSUME NEW j \in Kinds, NEW i \in Insts, ServerOffline(j, i)
       PROVE  Whose'
  BY <1>41 DEF ServerOffline
<1>42. ASSUME NEW j \in Kinds, NEW i \in Insts, ServerOnline(j, i)
       PROVE  Whose'
  BY <1>42 DEF ServerOnline
<1>43. ASSUME Disconnected
       PROVE  Whose'
  BY <1>43 DEF Disconnected
<1> HIDE DEF TypeInv, TypeOK, Reads, Whose, Own, WipePCs, TownPCs, task, held,
       tables, loop, marks, Goto, GotoOrReturn, Return, Keep, Ready, Kinds
<1> QED BY <1>1, <1>2, <1>3, <1>4, <1>5, <1>6, <1>7, <1>8, <1>9, <1>10, <1>11,
     <1>12, <1>13, <1>14, <1>15, <1>16, <1>17, <1>18, <1>19, <1>20, <1>21,
     <1>22, <1>23, <1>24, <1>25, <1>26, <1>27, <1>28, <1>29, <1>30, <1>31,
     <1>32, <1>33, <1>34, <1>35, <1>36, <1>37, <1>38, <1>39, <1>40, <1>41,
     <1>42, <1>43
     DEF Kinds, Next, TaskStep, ClientRequest, ReaderStep, GatewayInput

\* A task starts to run only when it is spawned, and logs in only then.
LEMMA AloneStep ==
    ASSUME TypeInv, Alone, Next
    PROVE  Alone'
<1> USE GameAssumptions DEF TypeInv, TypeOK, Alone, Runs, task, held, tables,
       loop, marks, Goto, GotoOrReturn, Return, Keep, Ready, Kinds
<1>1. ASSUME NEW t \in Tasks, WipePlaces(t)
       PROVE  Alone'
  <2>1. CASE RemovePlace(t, "battle", "wipeB", "wipeBI")
    BY <2>1 DEF RemovePlace
  <2>2. CASE Unindex(t, "battle", "wipeBI", "wipeT")
    BY <2>2 DEF Unindex
  <2>3. CASE RemovePlace(t, "town", "wipeT", "wipeTI")
    BY <2>3 DEF RemovePlace
  <2>4. CASE Unindex(t, "town", "wipeTI", "wipeD")
    BY <2>4 DEF Unindex
  <2> QED BY <1>1, <2>1, <2>2, <2>3, <2>4 DEF WipePlaces
<1>2. ASSUME NEW t \in Tasks, WipeDuels(t)
       PROVE  Alone'
  BY <1>2 DEF WipeDuels
<1>3. ASSUME NEW t \in Tasks, WipeCharacter(t)
       PROVE  Alone'
  BY <1>3 DEF WipeCharacter
<1>4. ASSUME NEW t \in Tasks, OnStop(t)
       PROVE  Alone'
  BY <1>4 DEF OnStop
<1>5. ASSUME NEW t \in Tasks, Logout(t)
       PROVE  Alone'
  BY <1>5 DEF Logout
<1>6. ASSUME NEW t \in Tasks, BindAccount(t)
       PROVE  Alone'
  BY <1>6 DEF BindAccount
<1>7. ASSUME NEW t \in Tasks, StillOwner(t)
       PROVE  Alone'
  BY <1>7 DEF StillOwner
<1>8. ASSUME NEW t \in Tasks, Kick(t)
       PROVE  Alone'
  BY <1>8 DEF Kick
<1>9. ASSUME NEW t \in Tasks, NEW ok \in BOOLEAN, TownGateway(t, ok)
       PROVE  Alone'
  BY <1>9 DEF TownGateway
<1>10. ASSUME NEW t \in Tasks, BindTown(t)
       PROVE  Alone'
  <2>1. CASE RemovePlace(t, "town", "townB", "townBI")
    BY <2>1 DEF RemovePlace
  <2>2. CASE Unindex(t, "town", "townBI", "townIns")
    BY <2>2 DEF Unindex
  <2>3. CASE InsertPlace(t, "town", "townIns", "townIdx")
    BY <2>3 DEF InsertPlace
  <2>4. CASE InsertIndex(t, "town", "townIdx") /\ Return(t)
    BY <2>4 DEF InsertIndex
  <2> QED BY <1>10, <2>1, <2>2, <2>3, <2>4 DEF BindTown
<1>11. ASSUME NEW t \in Tasks, NEW ok \in BOOLEAN, LeaveTown(t, "leave", "unbind", "end", ok)
       PROVE  Alone'
  BY <1>11 DEF LeaveTown
<1>12. ASSUME NEW t \in Tasks, UnbindTown(t, "unbind", "unbindI", "end")
       PROVE  Alone'
  <2>1. CASE RemovePlace(t, "town", "unbind", "unbindI")
    BY <2>1 DEF RemovePlace
  <2>2. CASE Unindex(t, "town", "unbindI", "end")
    BY <2>2 DEF Unindex
  <2> QED BY <1>12, <2>1, <2>2 DEF UnbindTown
<1>13. ASSUME NEW t \in Tasks, NEW ok \in BOOLEAN, BattleGateway(t, "battleGw", "battleB", ok)
       PROVE  Alone'
  BY <1>13 DEF BattleGateway
<1>14. ASSUME NEW t \in Tasks, BindBattle(t)
       PROVE  Alone'
  <2>1. CASE RemovePlace(t, "battle", "battleB", "battleBI")
    BY <2>1 DEF RemovePlace
  <2>2. CASE Unindex(t, "battle", "battleBI", "battleIns")
    BY <2>2 DEF Unindex
  <2>3. CASE InsertPlace(t, "battle", "battleIns", "battleIdx")
    BY <2>3 DEF InsertPlace
  <2>4. CASE /\ InsertIndex(t, "battle", "battleIdx")
             /\ Goto(t, IF duel[t] = None THEN "leave" ELSE "away")
             /\ UNCHANGED held
    BY <2>4 DEF InsertIndex
  <2> QED BY <1>14, <2>1, <2>2, <2>3, <2>4 DEF BindBattle
<1>15. ASSUME NEW t \in Tasks, AddPendingDuel(t)
       PROVE  Alone'
  BY <1>15 DEF AddPendingDuel
<1>16. ASSUME NEW t \in Tasks, NEW ok \in BOOLEAN, RemovePendingDuel(t, ok)
       PROVE  Alone'
  BY <1>16 DEF RemovePendingDuel
<1>17. ASSUME NEW t \in Tasks, NEW i \in Insts, CreateDuel(t, i)
       PROVE  Alone'
  BY <1>17 DEF CreateDuel
<1>18. ASSUME NEW t \in Tasks, CreateFails(t)
       PROVE  Alone'
  BY <1>18 DEF CreateFails
<1>19. ASSUME NEW t \in Tasks, NEW ok \in BOOLEAN, BattleGateway(t, "duelGw", "duelB", ok)
       PROVE  Alone'
  BY <1>19 DEF BattleGateway
<1>20. ASSUME NEW t \in Tasks, BindChallenger(t)
       PROVE  Alone'
  <2>1. CASE RemovePlace(t, "battle", "duelB", "duelBI")
    BY <2>1 DEF RemovePlace
  <2>2. CASE Unindex(t, "battle", "duelBI", "duelIns")
    BY <2>2 DEF Unindex
  <2>3. CASE InsertPlace(t, "battle", "duelIns", "duelIdx")
    BY <2>3 DEF InsertPlace
  <2>4. CASE /\ InsertIndex(t, "battle", "duelIdx")
             /\ Keep(who, t, SessionOf[t])
             /\ Goto(t, "battleGw")
             /\ UNCHANGED <<inst, duel>>
    BY <2>4 DEF InsertIndex
  <2> QED BY <1>20, <2>1, <2>2, <2>3, <2>4 DEF BindChallenger
<1>21. ASSUME NEW t \in Tasks, NEW ok \in BOOLEAN, LeaveTownFor(t, ok)
       PROVE  Alone'
  BY <1>21 DEF LeaveTownFor
<1>22. ASSUME NEW t \in Tasks, NEW ok \in BOOLEAN, LeaveTown(t, "away", "awayU", "leave", ok)
       PROVE  Alone'
  BY <1>22 DEF LeaveTown
<1>23. ASSUME NEW t \in Tasks, UnbindTown(t, "awayU", "awayUI", "leave")
       PROVE  Alone'
  <2>1. CASE RemovePlace(t, "town", "awayU", "awayUI")
    BY <2>1 DEF RemovePlace
  <2>2. CASE Unindex(t, "town", "awayUI", "leave")
    BY <2>2 DEF Unindex
  <2> QED BY <1>23, <2>1, <2>2 DEF UnbindTown
<1>24. ASSUME NEW t \in Tasks, EndBattle(t)
       PROVE  Alone'
  BY <1>24 DEF EndBattle
<1>25. ASSUME NEW t \in Tasks, NEW a \in Accounts, Login(t, a)
       PROVE  Alone'
  BY <1>25 DEF Login
<1>26. ASSUME NEW t \in Tasks, NEW a \in Accounts, DuelInvite(t, a)
       PROVE  Alone'
  BY <1>26 DEF DuelInvite
<1>27. ASSUME NEW t \in Tasks, SelectCharacter(t)
       PROVE  Alone'
  BY <1>27 DEF SelectCharacter
<1>28. ASSUME NEW t \in Tasks, NEW i \in Insts, EnterScene(t, i)
       PROVE  Alone'
  BY <1>28 DEF EnterScene
<1>29. ASSUME NEW t \in Tasks, NEW i \in Insts, BattleJoin(t, i)
       PROVE  Alone'
  BY <1>29 DEF BattleJoin
<1>30. ASSUME NEW t \in Tasks, NEW c \in Sessions, DuelRespond(t, c)
       PROVE  Alone'
  BY <1>30 DEF DuelRespond
<1>31. ASSUME NEW j \in Kinds, OfflineDone(j)
       PROVE  Alone'
  BY <1>31 DEF OfflineDone
<1>32. ASSUME NEW j \in Kinds, NEW r \in Sessions, VisitSession(j, r)
       PROVE  Alone'
  BY <1>32 DEF VisitSession
<1>33. ASSUME WipeAccounts
       PROVE  Alone'
  BY <1>33 DEF WipeAccounts
<1>34. ASSUME WipePlace("battle", "wipeB", "wipeBI")
       PROVE  Alone'
  BY <1>34 DEF WipePlace
<1>35. ASSUME WipeIndex("battle", "wipeBI", "wipeT")
       PROVE  Alone'
  BY <1>35 DEF WipeIndex
<1>36. ASSUME WipePlace("town", "wipeT", "wipeTI")
       PROVE  Alone'
  BY <1>36 DEF WipePlace
<1>37. ASSUME WipeIndex("town", "wipeTI", "stop")
       PROVE  Alone'
  BY <1>37 DEF WipeIndex
<1>38. ASSUME StopAllSessions
       PROVE  Alone'
  BY <1>38 DEF StopAllSessions
<1>39. ASSUME NEW t \in Tasks, Spawn(t)
       PROVE  Alone'
  BY <1>39 DEF Spawn
<1>40. ASSUME NEW r \in Sessions, StopSession(r)
       PROVE  Alone'
  BY <1>40 DEF StopSession
<1>41. ASSUME NEW j \in Kinds, NEW i \in Insts, ServerOffline(j, i)
       PROVE  Alone'
  BY <1>41 DEF ServerOffline
<1>42. ASSUME NEW j \in Kinds, NEW i \in Insts, ServerOnline(j, i)
       PROVE  Alone'
  BY <1>42 DEF ServerOnline
<1>43. ASSUME Disconnected
       PROVE  Alone'
  BY <1>43 DEF Disconnected
<1> HIDE DEF TypeInv, TypeOK, Alone, Runs, task, held, tables, loop, marks,
       Goto, GotoOrReturn, Return, Keep, Ready, Kinds
<1> QED BY <1>1, <1>2, <1>3, <1>4, <1>5, <1>6, <1>7, <1>8, <1>9, <1>10, <1>11,
     <1>12, <1>13, <1>14, <1>15, <1>16, <1>17, <1>18, <1>19, <1>20, <1>21,
     <1>22, <1>23, <1>24, <1>25, <1>26, <1>27, <1>28, <1>29, <1>30, <1>31,
     <1>32, <1>33, <1>34, <1>35, <1>36, <1>37, <1>38, <1>39, <1>40, <1>41,
     <1>42, <1>43
     DEF Kinds, Next, TaskStep, ClientRequest, ReaderStep, GatewayInput

\* What is put into a table is put there by the session's own task, before it
\* stops, or is late; on_stop takes it out before the task ends.
LEMMA LeftStep ==
    ASSUME TypeInv, Whose, LeftToTasks, Next
    PROVE  LeftToTasks'
<1> USE GameAssumptions DEF TypeInv, TypeOK, Reads, LeftToTasks, Whose, Own,
       Past, Ended, Attended, TownPCs, task, held, tables, loop, marks, Goto,
       GotoOrReturn, Return, Keep, Ready, Kinds
<1>1. ASSUME NEW t \in Tasks, WipePlaces(t)
       PROVE  LeftToTasks'
  <2>1. CASE RemovePlace(t, "battle", "wipeB", "wipeBI")
    BY <2>1 DEF RemovePlace
  <2>2. CASE Unindex(t, "battle", "wipeBI", "wipeT")
    BY <2>2 DEF Unindex
  <2>3. CASE RemovePlace(t, "town", "wipeT", "wipeTI")
    BY <2>3 DEF RemovePlace
  <2>4. CASE Unindex(t, "town", "wipeTI", "wipeD")
    BY <2>4 DEF Unindex
  <2> QED BY <1>1, <2>1, <2>2, <2>3, <2>4 DEF WipePlaces
<1>2. ASSUME NEW t \in Tasks, WipeDuels(t)
       PROVE  LeftToTasks'
  BY <1>2 DEF WipeDuels
<1>3. ASSUME NEW t \in Tasks, WipeCharacter(t)
       PROVE  LeftToTasks'
  <2>1. /\ who' = who /\ place' = place /\ duels' = duels /\ late' = late
        /\ selected' = selected \ {who[t]}
        /\ pc[t] = "wipeC"
        /\ \A u \in Tasks : u # t => pc'[u] = pc[u]
        /\ pc'[t] = IF Own(t) THEN "logout" ELSE "kick"
    BY <1>3 DEF WipeCharacter
  <2>2. ASSUME NEW u \in Tasks, NEW l, "wipeC" \in l, ~Past(u, l)
         PROVE  ~Past(u, l)'
    BY ONLY <2>1, <2>2, t \in Tasks DEF Past, Own, Ended
  <2>3. ASSUME NEW u \in Tasks, SessionOf[u] # who[t], ~Past(u, {})
         PROVE  ~Past(u, {})'
    BY ONLY <2>1, <2>3, t \in Tasks DEF Past, Own, Ended
  <2> HIDE DEF Past
  <2> QED BY <2>1, <2>2, <2>3
<1>4. ASSUME NEW t \in Tasks, OnStop(t)
       PROVE  LeftToTasks'
  BY <1>4 DEF OnStop
<1>5. ASSUME NEW t \in Tasks, Logout(t)
       PROVE  LeftToTasks'
  <2>1. /\ who' = who /\ place' = place /\ duels' = duels /\ late' = late
        /\ selected' = selected
        /\ pc[t] = "logout" /\ pc'[t] = "done"
        /\ \A u \in Tasks : u # t => pc'[u] = pc[u]
    BY <1>5 DEF Logout
  <2>2. ASSUME NEW u \in Tasks, NEW l, ~Past(u, l)
         PROVE  ~Past(u, l)'
    BY ONLY <2>1, <2>2, t \in Tasks DEF Past, Own, Ended
  <2> HIDE DEF Past
  <2> QED BY <2>1, <2>2
<1>6. ASSUME NEW t \in Tasks, BindAccount(t)
       PROVE  LeftToTasks'
  BY <1>6 DEF BindAccount
<1>7. ASSUME NEW t \in Tasks, StillOwner(t)
       PROVE  LeftToTasks'
  BY <1>7 DEF StillOwner
<1>8. ASSUME NEW t \in Tasks, Kick(t)
       PROVE  LeftToTasks'
  BY <1>8 DEF Kick
<1>9. ASSUME NEW t \in Tasks, NEW ok \in BOOLEAN, TownGateway(t, ok)
       PROVE  LeftToTasks'
  BY <1>9 DEF TownGateway
<1>10. ASSUME NEW t \in Tasks, BindTown(t)
       PROVE  LeftToTasks'
  <2>1. CASE RemovePlace(t, "town", "townB", "townBI")
    BY <2>1 DEF RemovePlace
  <2>2. CASE Unindex(t, "town", "townBI", "townIns")
    BY <2>2 DEF Unindex
  <2>3. CASE InsertPlace(t, "town", "townIns", "townIdx")
    BY <2>3 DEF InsertPlace
  <2>4. CASE InsertIndex(t, "town", "townIdx") /\ Return(t)
    BY <2>4 DEF InsertIndex
  <2> QED BY <1>10, <2>1, <2>2, <2>3, <2>4 DEF BindTown
<1>11. ASSUME NEW t \in Tasks, NEW ok \in BOOLEAN, LeaveTown(t, "leave", "unbind", "end", ok)
       PROVE  LeftToTasks'
  BY <1>11 DEF LeaveTown
<1>12. ASSUME NEW t \in Tasks, UnbindTown(t, "unbind", "unbindI", "end")
       PROVE  LeftToTasks'
  <2>1. CASE RemovePlace(t, "town", "unbind", "unbindI")
    BY <2>1 DEF RemovePlace
  <2>2. CASE Unindex(t, "town", "unbindI", "end")
    BY <2>2 DEF Unindex
  <2> QED BY <1>12, <2>1, <2>2 DEF UnbindTown
<1>13. ASSUME NEW t \in Tasks, NEW ok \in BOOLEAN, BattleGateway(t, "battleGw", "battleB", ok)
       PROVE  LeftToTasks'
  BY <1>13 DEF BattleGateway
<1>14. ASSUME NEW t \in Tasks, BindBattle(t)
       PROVE  LeftToTasks'
  <2>1. CASE RemovePlace(t, "battle", "battleB", "battleBI")
    BY <2>1 DEF RemovePlace
  <2>2. CASE Unindex(t, "battle", "battleBI", "battleIns")
    BY <2>2 DEF Unindex
  <2>3. CASE InsertPlace(t, "battle", "battleIns", "battleIdx")
    <3>1. /\ who' = who /\ duels' = duels /\ selected' = selected
          /\ place'["town"] = place["town"]
          /\ \A s \in Sessions : s # who[t] => place'["battle"][s] = place["battle"][s]
          /\ pc[t] \notin Ended \cup WipePCs
          /\ pc'[t] \notin Ended \cup WipePCs
          /\ \A u \in Tasks : u # t => pc'[u] = pc[u]
      BY <2>3 DEF InsertPlace, Ended, WipePCs
    <3>2. ASSUME NEW u \in Tasks, NEW l \in SUBSET WipePCs, ~Past(u, l)
           PROVE  ~Past(u, l)'
      BY ONLY <3>1, <3>2, t \in Tasks DEF Past, Own
    <3>3. who[t] \in late' \/ \E u \in Tasks : SessionOf[u] = who[t] /\ ~BattleCleared(u)
      BY <2>3 DEF InsertPlace
    <3>4. ASSUME NEW u \in Tasks, ~BattleCleared(u)
           PROVE  ~Past(u, {"wipeBI", "wipeT", "wipeTI", "wipeD", "wipeC"})
      BY ONLY <3>4 DEF BattleCleared, Past, Own, Ended
    <3>5. late \subseteq late'
      BY <2>3 DEF InsertPlace
    <3> HIDE DEF Past
    <3>6. ASSUME NEW s \in Sessions, NEW l \in SUBSET WipePCs, Attended(s, l)
           PROVE  Attended(s, l)'
      BY ONLY <3>2, <3>6 DEF Attended
    <3>7. ASSUME NEW s \in Sessions, place'["battle"][s] # None, s \notin late'
           PROVE  Attended(s, {"wipeBI", "wipeT", "wipeTI", "wipeD", "wipeC"})'
      <4>1. CASE s = who[t]
        <5>1. PICK u \in Tasks : SessionOf[u] = s /\ ~BattleCleared(u)
          BY <3>3, <3>7, <4>1
        <5>2. ~Past(u, {"wipeBI", "wipeT", "wipeTI", "wipeD", "wipeC"})'
          BY ONLY <3>2, <3>4, <5>1 DEF WipePCs
        <5> QED BY <5>1, <5>2
      <4>2. CASE s # who[t]
        BY <3>1, <3>2, <3>5, <3>7, <4>2 DEF WipePCs
      <4> QED BY <4>1, <4>2
    <3> HIDE DEF Attended
    <3> QED BY <3>1, <3>6, <3>7 DEF WipePCs
  <2>4. CASE /\ InsertIndex(t, "battle", "battleIdx")
             /\ Goto(t, IF duel[t] = None THEN "leave" ELSE "away")
             /\ UNCHANGED held
    BY <2>4 DEF InsertIndex
  <2> QED BY <1>14, <2>1, <2>2, <2>3, <2>4 DEF BindBattle
<1>15. ASSUME NEW t \in Tasks, AddPendingDuel(t)
       PROVE  LeftToTasks'
  BY <1>15 DEF AddPendingDuel
<1>16. ASSUME NEW t \in Tasks, NEW ok \in BOOLEAN, RemovePendingDuel(t, ok)
       PROVE  LeftToTasks'
  BY <1>16 DEF RemovePendingDuel
<1>17. ASSUME NEW t \in Tasks, NEW i \in Insts, CreateDuel(t, i)
       PROVE  LeftToTasks'
  BY <1>17 DEF CreateDuel
<1>18. ASSUME NEW t \in Tasks, CreateFails(t)
       PROVE  LeftToTasks'
  BY <1>18 DEF CreateFails
<1>19. ASSUME NEW t \in Tasks, NEW ok \in BOOLEAN, BattleGateway(t, "duelGw", "duelB", ok)
       PROVE  LeftToTasks'
  BY <1>19 DEF BattleGateway
<1>20. ASSUME NEW t \in Tasks, BindChallenger(t)
       PROVE  LeftToTasks'
  <2>1. CASE RemovePlace(t, "battle", "duelB", "duelBI")
    BY <2>1 DEF RemovePlace
  <2>2. CASE Unindex(t, "battle", "duelBI", "duelIns")
    BY <2>2 DEF Unindex
  <2>3. CASE InsertPlace(t, "battle", "duelIns", "duelIdx")
    <3>1. /\ who' = who /\ duels' = duels /\ selected' = selected
          /\ place'["town"] = place["town"]
          /\ \A s \in Sessions : s # who[t] => place'["battle"][s] = place["battle"][s]
          /\ pc[t] \notin Ended \cup WipePCs
          /\ pc'[t] \notin Ended \cup WipePCs
          /\ \A u \in Tasks : u # t => pc'[u] = pc[u]
      BY <2>3 DEF InsertPlace, Ended, WipePCs
    <3>2. ASSUME NEW u \in Tasks, NEW l \in SUBSET WipePCs, ~Past(u, l)
           PROVE  ~Past(u, l)'
      BY ONLY <3>1, <3>2, t \in Tasks DEF Past, Own
    <3>3. who[t] \in late' \/ \E u \in Tasks : SessionOf[u] = who[t] /\ ~BattleCleared(u)
      BY <2>3 DEF InsertPlace
    <3>4. ASSUME NEW u \in Tasks, ~BattleCleared(u)
           PROVE  ~Past(u, {"wipeBI", "wipeT", "wipeTI", "wipeD", "wipeC"})
      BY ONLY <3>4 DEF BattleCleared, Past, Own, Ended
    <3>5. late \subseteq late'
      BY <2>3 DEF InsertPlace
    <3> HIDE DEF Past
    <3>6. ASSUME NEW s \in Sessions, NEW l \in SUBSET WipePCs, Attended(s, l)
           PROVE  Attended(s, l)'
      BY ONLY <3>2, <3>6 DEF Attended
    <3>7. ASSUME NEW s \in Sessions, place'["battle"][s] # None, s \notin late'
           PROVE  Attended(s, {"wipeBI", "wipeT", "wipeTI", "wipeD", "wipeC"})'
      <4>1. CASE s = who[t]
        <5>1. PICK u \in Tasks : SessionOf[u] = s /\ ~BattleCleared(u)
          BY <3>3, <3>7, <4>1
        <5>2. ~Past(u, {"wipeBI", "wipeT", "wipeTI", "wipeD", "wipeC"})'
          BY ONLY <3>2, <3>4, <5>1 DEF WipePCs
        <5> QED BY <5>1, <5>2
      <4>2. CASE s # who[t]
        BY <3>1, <3>2, <3>5, <3>7, <4>2 DEF WipePCs
      <4> QED BY <4>1, <4>2
    <3> HIDE DEF Attended
    <3> QED BY <3>1, <3>6, <3>7 DEF WipePCs
  <2>4. CASE /\ InsertIndex(t, "battle", "duelIdx")
             /\ Keep(who, t, SessionOf[t])
             /\ Goto(t, "battleGw")
             /\ UNCHANGED <<inst, duel>>
    BY <2>4 DEF InsertIndex
  <2> QED BY <1>20, <2>1, <2>2, <2>3, <2>4 DEF BindChallenger
<1>21. ASSUME NEW t \in Tasks, NEW ok \in BOOLEAN, LeaveTownFor(t, ok)
       PROVE  LeftToTasks'
  BY <1>21 DEF LeaveTownFor
<1>22. ASSUME NEW t \in Tasks, NEW ok \in BOOLEAN, LeaveTown(t, "away", "awayU", "leave", ok)
       PROVE  LeftToTasks'
  BY <1>22 DEF LeaveTown
<1>23. ASSUME NEW t \in Tasks, UnbindTown(t, "awayU", "awayUI", "leave")
       PROVE  LeftToTasks'
  <2>1. CASE RemovePlace(t, "town", "awayU", "awayUI")
    BY <2>1 DEF RemovePlace
  <2>2. CASE Unindex(t, "town", "awayUI", "leave")
    BY <2>2 DEF Unindex
  <2> QED BY <1>23, <2>1, <2>2 DEF UnbindTown
<1>24. ASSUME NEW t \in Tasks, EndBattle(t)
       PROVE  LeftToTasks'
  BY <1>24 DEF EndBattle
<1>25. ASSUME NEW t \in Tasks, NEW a \in Accounts, Login(t, a)
       PROVE  LeftToTasks'
  BY <1>25 DEF Login
<1>26. ASSUME NEW t \in Tasks, NEW a \in Accounts, DuelInvite(t, a)
       PROVE  LeftToTasks'
  BY <1>26 DEF DuelInvite
<1>27. ASSUME NEW t \in Tasks, SelectCharacter(t)
       PROVE  LeftToTasks'
  BY <1>27 DEF SelectCharacter
<1>28. ASSUME NEW t \in Tasks, NEW i \in Insts, EnterScene(t, i)
       PROVE  LeftToTasks'
  BY <1>28 DEF EnterScene
<1>29. ASSUME NEW t \in Tasks, NEW i \in Insts, BattleJoin(t, i)
       PROVE  LeftToTasks'
  BY <1>29 DEF BattleJoin
<1>30. ASSUME NEW t \in Tasks, NEW c \in Sessions, DuelRespond(t, c)
       PROVE  LeftToTasks'
  BY <1>30 DEF DuelRespond
<1>31. ASSUME NEW j \in Kinds, OfflineDone(j)
       PROVE  LeftToTasks'
  BY <1>31 DEF OfflineDone
<1>32. ASSUME NEW j \in Kinds, NEW r \in Sessions, VisitSession(j, r)
       PROVE  LeftToTasks'
  BY <1>32 DEF VisitSession
<1>33. ASSUME WipeAccounts
       PROVE  LeftToTasks'
  BY <1>33 DEF WipeAccounts
<1>34. ASSUME WipePlace("battle", "wipeB", "wipeBI")
       PROVE  LeftToTasks'
  BY <1>34 DEF WipePlace
<1>35. ASSUME WipeIndex("battle", "wipeBI", "wipeT")
       PROVE  LeftToTasks'
  BY <1>35 DEF WipeIndex
<1>36. ASSUME WipePlace("town", "wipeT", "wipeTI")
       PROVE  LeftToTasks'
  BY <1>36 DEF WipePlace
<1>37. ASSUME WipeIndex("town", "wipeTI", "stop")
       PROVE  LeftToTasks'
  BY <1>37 DEF WipeIndex
<1>38. ASSUME StopAllSessions
       PROVE  LeftToTasks'
  BY <1>38 DEF StopAllSessions
<1>39. ASSUME NEW t \in Tasks, Spawn(t)
       PROVE  LeftToTasks'
  BY <1>39 DEF Spawn
<1>40. ASSUME NEW r \in Sessions, StopSession(r)
       PROVE  LeftToTasks'
  BY <1>40 DEF StopSession
<1>41. ASSUME NEW j \in Kinds, NEW i \in Insts, ServerOffline(j, i)
       PROVE  LeftToTasks'
  BY <1>41 DEF ServerOffline
<1>42. ASSUME NEW j \in Kinds, NEW i \in Insts, ServerOnline(j, i)
       PROVE  LeftToTasks'
  BY <1>42 DEF ServerOnline
<1>43. ASSUME Disconnected
       PROVE  LeftToTasks'
  BY <1>43 DEF Disconnected
<1> HIDE DEF TypeInv, TypeOK, Reads, LeftToTasks, Whose, Own, Past, Ended,
       Attended, TownPCs, task, held, tables, loop, marks, Goto, GotoOrReturn,
       Return, Keep, Ready, Kinds
<1> QED BY <1>1, <1>2, <1>3, <1>4, <1>5, <1>6, <1>7, <1>8, <1>9, <1>10, <1>11,
     <1>12, <1>13, <1>14, <1>15, <1>16, <1>17, <1>18, <1>19, <1>20, <1>21,
     <1>22, <1>23, <1>24, <1>25, <1>26, <1>27, <1>28, <1>29, <1>30, <1>31,
     <1>32, <1>33, <1>34, <1>35, <1>36, <1>37, <1>38, <1>39, <1>40, <1>41,
     <1>42, <1>43
     DEF Kinds, Next, TaskStep, ClientRequest, ReaderStep, GatewayInput

\* A login writes the owner and the account in one step; a logout takes away
\* the account of its own session only.
LEMMA OwnerStep ==
    ASSUME TypeInv, Alone, OwnerHolds, Next
    PROVE  OwnerHolds'
<1> USE GameAssumptions DEF TypeInv, TypeOK, Reads, OwnerHolds, Logged, Alone,
       Runs, task, held, tables, loop, marks, Goto, GotoOrReturn, Return,
       Keep, Ready, Kinds
<1>1. ASSUME NEW t \in Tasks, WipePlaces(t)
       PROVE  OwnerHolds'
  <2>1. CASE RemovePlace(t, "battle", "wipeB", "wipeBI")
    BY <2>1 DEF RemovePlace
  <2>2. CASE Unindex(t, "battle", "wipeBI", "wipeT")
    BY <2>2 DEF Unindex
  <2>3. CASE RemovePlace(t, "town", "wipeT", "wipeTI")
    BY <2>3 DEF RemovePlace
  <2>4. CASE Unindex(t, "town", "wipeTI", "wipeD")
    BY <2>4 DEF Unindex
  <2> QED BY <1>1, <2>1, <2>2, <2>3, <2>4 DEF WipePlaces
<1>2. ASSUME NEW t \in Tasks, WipeDuels(t)
       PROVE  OwnerHolds'
  BY <1>2 DEF WipeDuels
<1>3. ASSUME NEW t \in Tasks, WipeCharacter(t)
       PROVE  OwnerHolds'
  BY <1>3 DEF WipeCharacter
<1>4. ASSUME NEW t \in Tasks, OnStop(t)
       PROVE  OwnerHolds'
  BY <1>4 DEF OnStop
<1>5. ASSUME NEW t \in Tasks, Logout(t)
       PROVE  OwnerHolds'
  BY <1>5 DEF Logout
<1>6. ASSUME NEW t \in Tasks, BindAccount(t)
       PROVE  OwnerHolds'
  BY <1>6 DEF BindAccount
<1>7. ASSUME NEW t \in Tasks, StillOwner(t)
       PROVE  OwnerHolds'
  BY <1>7 DEF StillOwner
<1>8. ASSUME NEW t \in Tasks, Kick(t)
       PROVE  OwnerHolds'
  BY <1>8 DEF Kick
<1>9. ASSUME NEW t \in Tasks, NEW ok \in BOOLEAN, TownGateway(t, ok)
       PROVE  OwnerHolds'
  BY <1>9 DEF TownGateway
<1>10. ASSUME NEW t \in Tasks, BindTown(t)
       PROVE  OwnerHolds'
  <2>1. CASE RemovePlace(t, "town", "townB", "townBI")
    BY <2>1 DEF RemovePlace
  <2>2. CASE Unindex(t, "town", "townBI", "townIns")
    BY <2>2 DEF Unindex
  <2>3. CASE InsertPlace(t, "town", "townIns", "townIdx")
    BY <2>3 DEF InsertPlace
  <2>4. CASE InsertIndex(t, "town", "townIdx") /\ Return(t)
    BY <2>4 DEF InsertIndex
  <2> QED BY <1>10, <2>1, <2>2, <2>3, <2>4 DEF BindTown
<1>11. ASSUME NEW t \in Tasks, NEW ok \in BOOLEAN, LeaveTown(t, "leave", "unbind", "end", ok)
       PROVE  OwnerHolds'
  BY <1>11 DEF LeaveTown
<1>12. ASSUME NEW t \in Tasks, UnbindTown(t, "unbind", "unbindI", "end")
       PROVE  OwnerHolds'
  <2>1. CASE RemovePlace(t, "town", "unbind", "unbindI")
    BY <2>1 DEF RemovePlace
  <2>2. CASE Unindex(t, "town", "unbindI", "end")
    BY <2>2 DEF Unindex
  <2> QED BY <1>12, <2>1, <2>2 DEF UnbindTown
<1>13. ASSUME NEW t \in Tasks, NEW ok \in BOOLEAN, BattleGateway(t, "battleGw", "battleB", ok)
       PROVE  OwnerHolds'
  BY <1>13 DEF BattleGateway
<1>14. ASSUME NEW t \in Tasks, BindBattle(t)
       PROVE  OwnerHolds'
  <2>1. CASE RemovePlace(t, "battle", "battleB", "battleBI")
    BY <2>1 DEF RemovePlace
  <2>2. CASE Unindex(t, "battle", "battleBI", "battleIns")
    BY <2>2 DEF Unindex
  <2>3. CASE InsertPlace(t, "battle", "battleIns", "battleIdx")
    BY <2>3 DEF InsertPlace
  <2>4. CASE /\ InsertIndex(t, "battle", "battleIdx")
             /\ Goto(t, IF duel[t] = None THEN "leave" ELSE "away")
             /\ UNCHANGED held
    BY <2>4 DEF InsertIndex
  <2> QED BY <1>14, <2>1, <2>2, <2>3, <2>4 DEF BindBattle
<1>15. ASSUME NEW t \in Tasks, AddPendingDuel(t)
       PROVE  OwnerHolds'
  BY <1>15 DEF AddPendingDuel
<1>16. ASSUME NEW t \in Tasks, NEW ok \in BOOLEAN, RemovePendingDuel(t, ok)
       PROVE  OwnerHolds'
  BY <1>16 DEF RemovePendingDuel
<1>17. ASSUME NEW t \in Tasks, NEW i \in Insts, CreateDuel(t, i)
       PROVE  OwnerHolds'
  BY <1>17 DEF CreateDuel
<1>18. ASSUME NEW t \in Tasks, CreateFails(t)
       PROVE  OwnerHolds'
  BY <1>18 DEF CreateFails
<1>19. ASSUME NEW t \in Tasks, NEW ok \in BOOLEAN, BattleGateway(t, "duelGw", "duelB", ok)
       PROVE  OwnerHolds'
  BY <1>19 DEF BattleGateway
<1>20. ASSUME NEW t \in Tasks, BindChallenger(t)
       PROVE  OwnerHolds'
  <2>1. CASE RemovePlace(t, "battle", "duelB", "duelBI")
    BY <2>1 DEF RemovePlace
  <2>2. CASE Unindex(t, "battle", "duelBI", "duelIns")
    BY <2>2 DEF Unindex
  <2>3. CASE InsertPlace(t, "battle", "duelIns", "duelIdx")
    BY <2>3 DEF InsertPlace
  <2>4. CASE /\ InsertIndex(t, "battle", "duelIdx")
             /\ Keep(who, t, SessionOf[t])
             /\ Goto(t, "battleGw")
             /\ UNCHANGED <<inst, duel>>
    BY <2>4 DEF InsertIndex
  <2> QED BY <1>20, <2>1, <2>2, <2>3, <2>4 DEF BindChallenger
<1>21. ASSUME NEW t \in Tasks, NEW ok \in BOOLEAN, LeaveTownFor(t, ok)
       PROVE  OwnerHolds'
  BY <1>21 DEF LeaveTownFor
<1>22. ASSUME NEW t \in Tasks, NEW ok \in BOOLEAN, LeaveTown(t, "away", "awayU", "leave", ok)
       PROVE  OwnerHolds'
  BY <1>22 DEF LeaveTown
<1>23. ASSUME NEW t \in Tasks, UnbindTown(t, "awayU", "awayUI", "leave")
       PROVE  OwnerHolds'
  <2>1. CASE RemovePlace(t, "town", "awayU", "awayUI")
    BY <2>1 DEF RemovePlace
  <2>2. CASE Unindex(t, "town", "awayUI", "leave")
    BY <2>2 DEF Unindex
  <2> QED BY <1>23, <2>1, <2>2 DEF UnbindTown
<1>24. ASSUME NEW t \in Tasks, EndBattle(t)
       PROVE  OwnerHolds'
  BY <1>24 DEF EndBattle
<1>25. ASSUME NEW t \in Tasks, NEW a \in Accounts, Login(t, a)
       PROVE  OwnerHolds'
  BY <1>25 DEF Login
<1>26. ASSUME NEW t \in Tasks, NEW a \in Accounts, DuelInvite(t, a)
       PROVE  OwnerHolds'
  BY <1>26 DEF DuelInvite
<1>27. ASSUME NEW t \in Tasks, SelectCharacter(t)
       PROVE  OwnerHolds'
  BY <1>27 DEF SelectCharacter
<1>28. ASSUME NEW t \in Tasks, NEW i \in Insts, EnterScene(t, i)
       PROVE  OwnerHolds'
  BY <1>28 DEF EnterScene
<1>29. ASSUME NEW t \in Tasks, NEW i \in Insts, BattleJoin(t, i)
       PROVE  OwnerHolds'
  BY <1>29 DEF BattleJoin
<1>30. ASSUME NEW t \in Tasks, NEW c \in Sessions, DuelRespond(t, c)
       PROVE  OwnerHolds'
  BY <1>30 DEF DuelRespond
<1>31. ASSUME NEW j \in Kinds, OfflineDone(j)
       PROVE  OwnerHolds'
  BY <1>31 DEF OfflineDone
<1>32. ASSUME NEW j \in Kinds, NEW r \in Sessions, VisitSession(j, r)
       PROVE  OwnerHolds'
  BY <1>32 DEF VisitSession
<1>33. ASSUME WipeAccounts
       PROVE  OwnerHolds'
  BY <1>33 DEF WipeAccounts
<1>34. ASSUME WipePlace("battle", "wipeB", "wipeBI")
       PROVE  OwnerHolds'
  BY <1>34 DEF WipePlace
<1>35. ASSUME WipeIndex("battle", "wipeBI", "wipeT")
       PROVE  OwnerHolds'
  BY <1>35 DEF WipeIndex
<1>36. ASSUME WipePlace("town", "wipeT", "wipeTI")
       PROVE  OwnerHolds'
  BY <1>36 DEF WipePlace
<1>37. ASSUME WipeIndex("town", "wipeTI", "stop")
       PROVE  OwnerHolds'
  BY <1>37 DEF WipeIndex
<1>38. ASSUME StopAllSessions
       PROVE  OwnerHolds'
  BY <1>38 DEF StopAllSessions
<1>39. ASSUME NEW t \in Tasks, Spawn(t)
       PROVE  OwnerHolds'
  BY <1>39 DEF Spawn
<1>40. ASSUME NEW r \in Sessions, StopSession(r)
       PROVE  OwnerHolds'
  BY <1>40 DEF StopSession
<1>41. ASSUME NEW j \in Kinds, NEW i \in Insts, ServerOffline(j, i)
       PROVE  OwnerHolds'
  BY <1>41 DEF ServerOffline
<1>42. ASSUME NEW j \in Kinds, NEW i \in Insts, ServerOnline(j, i)
       PROVE  OwnerHolds'
  BY <1>42 DEF ServerOnline
<1>43. ASSUME Disconnected
       PROVE  OwnerHolds'
  BY <1>43 DEF Disconnected
<1> HIDE DEF TypeInv, TypeOK, Reads, OwnerHolds, Logged, Alone, Runs, task,
       held, tables, loop, marks, Goto, GotoOrReturn, Return, Keep, Ready,
       Kinds
<1> QED BY <1>1, <1>2, <1>3, <1>4, <1>5, <1>6, <1>7, <1>8, <1>9, <1>10, <1>11,
     <1>12, <1>13, <1>14, <1>15, <1>16, <1>17, <1>18, <1>19, <1>20, <1>21,
     <1>22, <1>23, <1>24, <1>25, <1>26, <1>27, <1>28, <1>29, <1>30, <1>31,
     <1>32, <1>33, <1>34, <1>35, <1>36, <1>37, <1>38, <1>39, <1>40, <1>41,
     <1>42, <1>43
     DEF Kinds, Next, TaskStep, ClientRequest, ReaderStep, GatewayInput

\* While a session's task takes it out of the town, nobody puts it back.
LEMMA OutStep ==
    ASSUME TypeInv, Whose, Alone, OutOfTown, Next
    PROVE  OutOfTown'
<1> USE GameAssumptions DEF TypeInv, TypeOK, Whose, Own, Alone, Runs,
       OutOfTown, TownPCs, task, held, tables, loop, marks, Goto,
       GotoOrReturn, Return, Keep, Ready, Kinds
<1>1. ASSUME NEW t \in Tasks, WipePlaces(t)
       PROVE  OutOfTown'
  <2>1. CASE RemovePlace(t, "battle", "wipeB", "wipeBI")
    BY <2>1 DEF RemovePlace
  <2>2. CASE Unindex(t, "battle", "wipeBI", "wipeT")
    BY <2>2 DEF Unindex
  <2>3. CASE RemovePlace(t, "town", "wipeT", "wipeTI")
    BY <2>3 DEF RemovePlace
  <2>4. CASE Unindex(t, "town", "wipeTI", "wipeD")
    BY <2>4 DEF Unindex
  <2> QED BY <1>1, <2>1, <2>2, <2>3, <2>4 DEF WipePlaces
<1>2. ASSUME NEW t \in Tasks, WipeDuels(t)
       PROVE  OutOfTown'
  BY <1>2 DEF WipeDuels
<1>3. ASSUME NEW t \in Tasks, WipeCharacter(t)
       PROVE  OutOfTown'
  BY <1>3 DEF WipeCharacter
<1>4. ASSUME NEW t \in Tasks, OnStop(t)
       PROVE  OutOfTown'
  BY <1>4 DEF OnStop
<1>5. ASSUME NEW t \in Tasks, Logout(t)
       PROVE  OutOfTown'
  BY <1>5 DEF Logout
<1>6. ASSUME NEW t \in Tasks, BindAccount(t)
       PROVE  OutOfTown'
  BY <1>6 DEF BindAccount
<1>7. ASSUME NEW t \in Tasks, StillOwner(t)
       PROVE  OutOfTown'
  BY <1>7 DEF StillOwner
<1>8. ASSUME NEW t \in Tasks, Kick(t)
       PROVE  OutOfTown'
  BY <1>8 DEF Kick
<1>9. ASSUME NEW t \in Tasks, NEW ok \in BOOLEAN, TownGateway(t, ok)
       PROVE  OutOfTown'
  BY <1>9 DEF TownGateway
<1>10. ASSUME NEW t \in Tasks, BindTown(t)
       PROVE  OutOfTown'
  <2>1. CASE RemovePlace(t, "town", "townB", "townBI")
    BY <2>1 DEF RemovePlace
  <2>2. CASE Unindex(t, "town", "townBI", "townIns")
    BY <2>2 DEF Unindex
  <2>3. CASE InsertPlace(t, "town", "townIns", "townIdx")
    BY <2>3 DEF InsertPlace
  <2>4. CASE InsertIndex(t, "town", "townIdx") /\ Return(t)
    BY <2>4 DEF InsertIndex
  <2> QED BY <1>10, <2>1, <2>2, <2>3, <2>4 DEF BindTown
<1>11. ASSUME NEW t \in Tasks, NEW ok \in BOOLEAN, LeaveTown(t, "leave", "unbind", "end", ok)
       PROVE  OutOfTown'
  BY <1>11 DEF LeaveTown
<1>12. ASSUME NEW t \in Tasks, UnbindTown(t, "unbind", "unbindI", "end")
       PROVE  OutOfTown'
  <2>1. CASE RemovePlace(t, "town", "unbind", "unbindI")
    BY <2>1 DEF RemovePlace
  <2>2. CASE Unindex(t, "town", "unbindI", "end")
    BY <2>2 DEF Unindex
  <2> QED BY <1>12, <2>1, <2>2 DEF UnbindTown
<1>13. ASSUME NEW t \in Tasks, NEW ok \in BOOLEAN, BattleGateway(t, "battleGw", "battleB", ok)
       PROVE  OutOfTown'
  BY <1>13 DEF BattleGateway
<1>14. ASSUME NEW t \in Tasks, BindBattle(t)
       PROVE  OutOfTown'
  <2>1. CASE RemovePlace(t, "battle", "battleB", "battleBI")
    BY <2>1 DEF RemovePlace
  <2>2. CASE Unindex(t, "battle", "battleBI", "battleIns")
    BY <2>2 DEF Unindex
  <2>3. CASE InsertPlace(t, "battle", "battleIns", "battleIdx")
    BY <2>3 DEF InsertPlace
  <2>4. CASE /\ InsertIndex(t, "battle", "battleIdx")
             /\ Goto(t, IF duel[t] = None THEN "leave" ELSE "away")
             /\ UNCHANGED held
    BY <2>4 DEF InsertIndex
  <2> QED BY <1>14, <2>1, <2>2, <2>3, <2>4 DEF BindBattle
<1>15. ASSUME NEW t \in Tasks, AddPendingDuel(t)
       PROVE  OutOfTown'
  BY <1>15 DEF AddPendingDuel
<1>16. ASSUME NEW t \in Tasks, NEW ok \in BOOLEAN, RemovePendingDuel(t, ok)
       PROVE  OutOfTown'
  BY <1>16 DEF RemovePendingDuel
<1>17. ASSUME NEW t \in Tasks, NEW i \in Insts, CreateDuel(t, i)
       PROVE  OutOfTown'
  BY <1>17 DEF CreateDuel
<1>18. ASSUME NEW t \in Tasks, CreateFails(t)
       PROVE  OutOfTown'
  BY <1>18 DEF CreateFails
<1>19. ASSUME NEW t \in Tasks, NEW ok \in BOOLEAN, BattleGateway(t, "duelGw", "duelB", ok)
       PROVE  OutOfTown'
  BY <1>19 DEF BattleGateway
<1>20. ASSUME NEW t \in Tasks, BindChallenger(t)
       PROVE  OutOfTown'
  <2>1. CASE RemovePlace(t, "battle", "duelB", "duelBI")
    BY <2>1 DEF RemovePlace
  <2>2. CASE Unindex(t, "battle", "duelBI", "duelIns")
    BY <2>2 DEF Unindex
  <2>3. CASE InsertPlace(t, "battle", "duelIns", "duelIdx")
    BY <2>3 DEF InsertPlace
  <2>4. CASE /\ InsertIndex(t, "battle", "duelIdx")
             /\ Keep(who, t, SessionOf[t])
             /\ Goto(t, "battleGw")
             /\ UNCHANGED <<inst, duel>>
    BY <2>4 DEF InsertIndex
  <2> QED BY <1>20, <2>1, <2>2, <2>3, <2>4 DEF BindChallenger
<1>21. ASSUME NEW t \in Tasks, NEW ok \in BOOLEAN, LeaveTownFor(t, ok)
       PROVE  OutOfTown'
  BY <1>21 DEF LeaveTownFor
<1>22. ASSUME NEW t \in Tasks, NEW ok \in BOOLEAN, LeaveTown(t, "away", "awayU", "leave", ok)
       PROVE  OutOfTown'
  BY <1>22 DEF LeaveTown
<1>23. ASSUME NEW t \in Tasks, UnbindTown(t, "awayU", "awayUI", "leave")
       PROVE  OutOfTown'
  <2>1. CASE RemovePlace(t, "town", "awayU", "awayUI")
    BY <2>1 DEF RemovePlace
  <2>2. CASE Unindex(t, "town", "awayUI", "leave")
    BY <2>2 DEF Unindex
  <2> QED BY <1>23, <2>1, <2>2 DEF UnbindTown
<1>24. ASSUME NEW t \in Tasks, EndBattle(t)
       PROVE  OutOfTown'
  BY <1>24 DEF EndBattle
<1>25. ASSUME NEW t \in Tasks, NEW a \in Accounts, Login(t, a)
       PROVE  OutOfTown'
  BY <1>25 DEF Login
<1>26. ASSUME NEW t \in Tasks, NEW a \in Accounts, DuelInvite(t, a)
       PROVE  OutOfTown'
  BY <1>26 DEF DuelInvite
<1>27. ASSUME NEW t \in Tasks, SelectCharacter(t)
       PROVE  OutOfTown'
  BY <1>27 DEF SelectCharacter
<1>28. ASSUME NEW t \in Tasks, NEW i \in Insts, EnterScene(t, i)
       PROVE  OutOfTown'
  BY <1>28 DEF EnterScene
<1>29. ASSUME NEW t \in Tasks, NEW i \in Insts, BattleJoin(t, i)
       PROVE  OutOfTown'
  BY <1>29 DEF BattleJoin
<1>30. ASSUME NEW t \in Tasks, NEW c \in Sessions, DuelRespond(t, c)
       PROVE  OutOfTown'
  BY <1>30 DEF DuelRespond
<1>31. ASSUME NEW j \in Kinds, OfflineDone(j)
       PROVE  OutOfTown'
  BY <1>31 DEF OfflineDone
<1>32. ASSUME NEW j \in Kinds, NEW r \in Sessions, VisitSession(j, r)
       PROVE  OutOfTown'
  BY <1>32 DEF VisitSession
<1>33. ASSUME WipeAccounts
       PROVE  OutOfTown'
  BY <1>33 DEF WipeAccounts
<1>34. ASSUME WipePlace("battle", "wipeB", "wipeBI")
       PROVE  OutOfTown'
  BY <1>34 DEF WipePlace
<1>35. ASSUME WipeIndex("battle", "wipeBI", "wipeT")
       PROVE  OutOfTown'
  BY <1>35 DEF WipeIndex
<1>36. ASSUME WipePlace("town", "wipeT", "wipeTI")
       PROVE  OutOfTown'
  BY <1>36 DEF WipePlace
<1>37. ASSUME WipeIndex("town", "wipeTI", "stop")
       PROVE  OutOfTown'
  BY <1>37 DEF WipeIndex
<1>38. ASSUME StopAllSessions
       PROVE  OutOfTown'
  BY <1>38 DEF StopAllSessions
<1>39. ASSUME NEW t \in Tasks, Spawn(t)
       PROVE  OutOfTown'
  BY <1>39 DEF Spawn
<1>40. ASSUME NEW r \in Sessions, StopSession(r)
       PROVE  OutOfTown'
  BY <1>40 DEF StopSession
<1>41. ASSUME NEW j \in Kinds, NEW i \in Insts, ServerOffline(j, i)
       PROVE  OutOfTown'
  BY <1>41 DEF ServerOffline
<1>42. ASSUME NEW j \in Kinds, NEW i \in Insts, ServerOnline(j, i)
       PROVE  OutOfTown'
  BY <1>42 DEF ServerOnline
<1>43. ASSUME Disconnected
       PROVE  OutOfTown'
  BY <1>43 DEF Disconnected
<1> HIDE DEF TypeInv, TypeOK, Whose, Own, Alone, Runs, OutOfTown, TownPCs,
       task, held, tables, loop, marks, Goto, GotoOrReturn, Return, Keep,
       Ready, Kinds
<1> QED BY <1>1, <1>2, <1>3, <1>4, <1>5, <1>6, <1>7, <1>8, <1>9, <1>10, <1>11,
     <1>12, <1>13, <1>14, <1>15, <1>16, <1>17, <1>18, <1>19, <1>20, <1>21,
     <1>22, <1>23, <1>24, <1>25, <1>26, <1>27, <1>28, <1>29, <1>30, <1>31,
     <1>32, <1>33, <1>34, <1>35, <1>36, <1>37, <1>38, <1>39, <1>40, <1>41,
     <1>42, <1>43
     DEF Kinds, Next, TaskStep, ClientRequest, ReaderStep, GatewayInput

\* A step that leaves the reasons for which s is found as they are.
KeepsReasons(s, k) ==
    /\ place'[k][s] = place[k][s]
    /\ s \in index[k][place[k][s]] => s \in index'[k][place[k][s]]
    /\ \A u \in Tasks :
          /\ SessionOf[u] = s /\ stop[u] /\ pc[u] # "done" =>
                stop'[u] /\ pc'[u] # "done"
          /\ who[u] = s /\ pc[u] \in InsPCs(k) => pc'[u] = pc[u] /\ who'[u] = s
          /\ who[u] = s /\ pc[u] \in IdxPCs(k) /\ inst[u] = place[k][s] =>
                pc'[u] = pc[u] /\ who'[u] = s /\ inst'[u] = inst[u]
          /\ who[u] = s /\ ~Own(u) /\ pc[u] \in WipePCs \cup {"kick"} =>
                who'[u] = s /\ pc'[u] \in WipePCs \cup {"kick"}
    /\ kicked \subseteq kicked'
    /\ reader = OfflinePC(k) /\ s \in visits => reader' = reader /\ s \in visits'
    /\ ConnectionLost => ConnectionLost'

\* Such a step loses no session.
LEMMA KeptFound ==
    ASSUME TypeInv, NEW s \in Sessions, NEW k \in Kinds, Found(s, k),
           KeepsReasons(s, k)
    PROVE  Found(s, k)'
<1>0. OfflinePC(k)' = OfflinePC(k) /\ InsPCs(k)' = InsPCs(k) /\ IdxPCs(k)' = IdxPCs(k)
  BY DEF OfflinePC, InsPCs, IdxPCs
<1>1. CASE s \in index[k][place[k][s]]
  BY <1>1 DEF KeepsReasons, Found
<1>2. CASE Binding(s, k)
  <2>1. Binding(s, k)'
    BY <1>0, <1>2 DEF KeepsReasons, Binding
  <2> QED BY <2>1 DEF Found
<1>3. CASE BeingKicked(s)
  <2>1. BeingKicked(s)'
    BY <1>0, <1>3 DEF KeepsReasons, BeingKicked, Own
  <2> QED BY <2>1 DEF Found
<1>4. CASE Stopping(s)
  <2>1. Stopping(s)'
    BY <1>4 DEF KeepsReasons, Stopping
  <2> QED BY <2>1 DEF Found
<1>5. CASE (reader = OfflinePC(k) /\ s \in visits) \/ ConnectionLost
  BY <1>0, <1>5 DEF KeepsReasons, Found, ConnectionLost
<1> QED BY <1>1, <1>2, <1>3, <1>4, <1>5 DEF Found

\* A session that has a place, not stored late, has a task that still runs: its
\* on_stop has not yet taken the place away.
LEMMA PlacedRuns ==
    ASSUME LeftToTasks, NEW s \in Sessions, NEW k \in Kinds,
           place[k][s] # None, s \notin late
    PROVE  \E t \in Tasks : SessionOf[t] = s /\ pc[t] \notin Ended
  BY DEF LeftToTasks, Attended, Past, Kinds

\* A step that takes a session out of the index, or gives it another place,
\* leaves a reason; every other step keeps the reasons there are.
LEMMA FindableStep ==
    ASSUME TypeInv, Whose, Alone, LeftToTasks, LeftToTasks',
           OutOfTown, Findable, Next
    PROVE  Findable'
<1> SUFFICES ASSUME NEW s \in Sessions, NEW k \in Kinds, place'[k][s] # None,
                    s \notin respawned' \cup late'
             PROVE  Found(s, k)'
  BY DEF Findable
<1>0. place[k][s] # None /\ s \notin respawned \cup late /\ KeepsReasons(s, k)
      => Found(s, k)'
  BY KeptFound DEF Findable
<1> USE GameAssumptions DEF TypeInv, TypeOK, Reads, Whose, Own, WipePCs,
       TownPCs, KeepsReasons, InsPCs, IdxPCs, OfflinePC, ConnectionLost, task,
       held, tables, loop, marks, Goto, GotoOrReturn, Return, Keep, Ready,
       Kinds
<1>1. ASSUME NEW t \in Tasks, WipePlaces(t)
       PROVE  Found(s, k)'
  <2>1. CASE RemovePlace(t, "battle", "wipeB", "wipeBI")
    BY <1>0, <2>1 DEF RemovePlace
  <2>2. CASE Unindex(t, "battle", "wipeBI", "wipeT")
    <3>1. CASE who[t] = s /\ Own(t)
      <4>1. stop[t] /\ stop' = stop /\ pc'[t] # "done"
        BY <2>2, <3>1 DEF Unindex
      <4>2. Stopping(s)'
        BY <3>1, <4>1 DEF Stopping
      <4> QED BY <4>2 DEF Found
    <3>2. CASE who[t] = s /\ ~Own(t)
      <4>1. pc'[t] = "wipeT" /\ who'[t] = s
        BY <2>2, <3>2 DEF Unindex
      <4>2. BeingKicked(s)'
        BY <3>2, <4>1 DEF BeingKicked
      <4> QED BY <4>2 DEF Found
    <3>3. CASE who[t] # s
      BY <1>0, <2>2, <3>3 DEF Unindex
    <3> QED BY <3>1, <3>2, <3>3
  <2>3. CASE RemovePlace(t, "town", "wipeT", "wipeTI")
    BY <1>0, <2>3 DEF RemovePlace
  <2>4. CASE Unindex(t, "town", "wipeTI", "wipeD")
    <3>1. CASE who[t] = s /\ Own(t)
      <4>1. stop[t] /\ stop' = stop /\ pc'[t] # "done"
        BY <2>4, <3>1 DEF Unindex
      <4>2. Stopping(s)'
        BY <3>1, <4>1 DEF Stopping
      <4> QED BY <4>2 DEF Found
    <3>2. CASE who[t] = s /\ ~Own(t)
      <4>1. pc'[t] = "wipeD" /\ who'[t] = s
        BY <2>4, <3>2 DEF Unindex
      <4>2. BeingKicked(s)'
        BY <3>2, <4>1 DEF BeingKicked
      <4> QED BY <4>2 DEF Found
    <3>3. CASE who[t] # s
      BY <1>0, <2>4, <3>3 DEF Unindex
    <3> QED BY <3>1, <3>2, <3>3
  <2> QED BY <1>1, <2>1, <2>2, <2>3, <2>4 DEF WipePlaces
<1>2. ASSUME NEW t \in Tasks, WipeDuels(t)
       PROVE  Found(s, k)'
  BY <1>0, <1>2 DEF WipeDuels
<1>3. ASSUME NEW t \in Tasks, WipeCharacter(t)
       PROVE  Found(s, k)'
  BY <1>0, <1>3 DEF WipeCharacter
<1>4. ASSUME NEW t \in Tasks, OnStop(t)
       PROVE  Found(s, k)'
  BY <1>0, <1>4 DEF OnStop
<1>5. ASSUME NEW t \in Tasks, Logout(t)
       PROVE  Found(s, k)'
  <2>1. CASE SessionOf[t] = s
    <3>1. place'[k][s] = place[k][s] /\ late' = late /\ respawned' = respawned
      BY <1>5 DEF Logout
    <3>2. PICK u \in Tasks : SessionOf[u] = s /\ pc'[u] \notin Ended
      <4>1. CASE k = "town"
        BY <3>1, <4>1 DEF LeftToTasks, Attended, Past
      <4>2. CASE k = "battle"
        BY <3>1, <4>2 DEF LeftToTasks, Attended, Past
      <4> QED BY <4>1, <4>2
    <3>3. u # t /\ Runs(u) /\ Runs(t)
      BY <1>5, <2>1, <3>2 DEF Logout, Ended, Runs
    <3>4. s \in respawned
      BY <2>1, <3>2, <3>3 DEF Alone
    <3> QED BY <3>1, <3>4
  <2>2. CASE SessionOf[t] # s
    BY <1>0, <1>5, <2>2 DEF Logout
  <2> QED BY <2>1, <2>2
<1>6. ASSUME NEW t \in Tasks, BindAccount(t)
       PROVE  Found(s, k)'
  BY <1>0, <1>6 DEF BindAccount
<1>7. ASSUME NEW t \in Tasks, StillOwner(t)
       PROVE  Found(s, k)'
  BY <1>0, <1>7 DEF StillOwner
<1>8. ASSUME NEW t \in Tasks, Kick(t)
       PROVE  Found(s, k)'
  <2>1. CASE who[t] = s
    BY <1>8, <2>1 DEF Kick, Found, BeingKicked
  <2>2. CASE who[t] # s
    BY <1>0, <1>8, <2>2 DEF Kick
  <2> QED BY <2>1, <2>2
<1>9. ASSUME NEW t \in Tasks, NEW ok \in BOOLEAN, TownGateway(t, ok)
       PROVE  Found(s, k)'
  BY <1>0, <1>9 DEF TownGateway
<1>10. ASSUME NEW t \in Tasks, BindTown(t)
       PROVE  Found(s, k)'
  <2>1. CASE RemovePlace(t, "town", "townB", "townBI")
    BY <1>0, <2>1 DEF RemovePlace
  <2>2. CASE Unindex(t, "town", "townBI", "townIns")
    <3>1. CASE who[t] = s /\ k = "town"
      <4>1. pc'[t] = "townIns" /\ who'[t] = s
        BY <2>2, <3>1 DEF Unindex
      <4>2. Binding(s, k)'
        BY <3>1, <4>1 DEF Binding
      <4> QED BY <4>2 DEF Found
    <3>2. CASE who[t] # s \/ k # "town"
      BY <1>0, <2>2, <3>2 DEF Unindex
    <3> QED BY <3>1, <3>2
  <2>3. CASE InsertPlace(t, "town", "townIns", "townIdx")
    <3>1. CASE who[t] = s /\ k = "town"
      <4>1. pc'[t] = "townIdx" /\ who'[t] = s /\ inst'[t] = place'[k][s]
        BY <2>3, <3>1 DEF InsertPlace
      <4>2. Binding(s, k)'
        BY <3>1, <4>1 DEF Binding
      <4> QED BY <4>2 DEF Found
    <3>2. CASE who[t] # s \/ k # "town"
      BY <1>0, <2>3, <3>2 DEF InsertPlace
    <3> QED BY <3>1, <3>2
  <2>4. CASE InsertIndex(t, "town", "townIdx") /\ Return(t)
    <3>1. CASE who[t] = s /\ k = "town" /\ inst[t] = place[k][s]
      <4>1. s \in index'[k][place'[k][s]]
        BY <2>4, <3>1 DEF InsertIndex
      <4> QED BY <4>1 DEF Found
    <3>2. CASE who[t] # s \/ k # "town" \/ inst[t] # place[k][s]
      BY <1>0, <2>4, <3>2 DEF InsertIndex
    <3> QED BY <3>1, <3>2
  <2> QED BY <1>10, <2>1, <2>2, <2>3, <2>4 DEF BindTown
<1>11. ASSUME NEW t \in Tasks, NEW ok \in BOOLEAN, LeaveTown(t, "leave", "unbind", "end", ok)
       PROVE  Found(s, k)'
  BY <1>0, <1>11 DEF LeaveTown
<1>12. ASSUME NEW t \in Tasks, UnbindTown(t, "unbind", "unbindI", "end")
       PROVE  Found(s, k)'
  <2>1. CASE RemovePlace(t, "town", "unbind", "unbindI")
    BY <1>0, <2>1 DEF RemovePlace
  <2>2. CASE Unindex(t, "town", "unbindI", "end")
    <3>1. CASE who[t] = s
      <4>1. place["town"][s] = None /\ place' = place /\ k = "battle"
        BY <2>2, <3>1 DEF Unindex, OutOfTown
      <4> QED BY <1>0, <2>2, <4>1 DEF Unindex
    <3>2. CASE who[t] # s
      BY <1>0, <2>2, <3>2 DEF Unindex
    <3> QED BY <3>1, <3>2
  <2> QED BY <1>12, <2>1, <2>2 DEF UnbindTown
<1>13. ASSUME NEW t \in Tasks, NEW ok \in BOOLEAN, BattleGateway(t, "battleGw", "battleB", ok)
       PROVE  Found(s, k)'
  BY <1>0, <1>13 DEF BattleGateway
<1>14. ASSUME NEW t \in Tasks, BindBattle(t)
       PROVE  Found(s, k)'
  <2>1. CASE RemovePlace(t, "battle", "battleB", "battleBI")
    BY <1>0, <2>1 DEF RemovePlace
  <2>2. CASE Unindex(t, "battle", "battleBI", "battleIns")
    <3>1. CASE who[t] = s /\ k = "battle"
      <4>1. pc'[t] = "battleIns" /\ who'[t] = s
        BY <2>2, <3>1 DEF Unindex
      <4>2. Binding(s, k)'
        BY <3>1, <4>1 DEF Binding
      <4> QED BY <4>2 DEF Found
    <3>2. CASE who[t] # s \/ k # "battle"
      BY <1>0, <2>2, <3>2 DEF Unindex
    <3> QED BY <3>1, <3>2
  <2>3. CASE InsertPlace(t, "battle", "battleIns", "battleIdx")
    <3>1. CASE who[t] = s /\ k = "battle"
      <4>1. pc'[t] = "battleIdx" /\ who'[t] = s /\ inst'[t] = place'[k][s]
        BY <2>3, <3>1 DEF InsertPlace
      <4>2. Binding(s, k)'
        BY <3>1, <4>1 DEF Binding
      <4> QED BY <4>2 DEF Found
    <3>2. CASE who[t] # s \/ k # "battle"
      BY <1>0, <2>3, <3>2 DEF InsertPlace
    <3> QED BY <3>1, <3>2
  <2>4. CASE /\ InsertIndex(t, "battle", "battleIdx")
             /\ Goto(t, IF duel[t] = None THEN "leave" ELSE "away")
             /\ UNCHANGED held
    <3>1. CASE who[t] = s /\ k = "battle" /\ inst[t] = place[k][s]
      <4>1. s \in index'[k][place'[k][s]]
        BY <2>4, <3>1 DEF InsertIndex
      <4> QED BY <4>1 DEF Found
    <3>2. CASE who[t] # s \/ k # "battle" \/ inst[t] # place[k][s]
      BY <1>0, <2>4, <3>2 DEF InsertIndex
    <3> QED BY <3>1, <3>2
  <2> QED BY <1>14, <2>1, <2>2, <2>3, <2>4 DEF BindBattle
<1>15. ASSUME NEW t \in Tasks, AddPendingDuel(t)
       PROVE  Found(s, k)'
  BY <1>0, <1>15 DEF AddPendingDuel
<1>16. ASSUME NEW t \in Tasks, NEW ok \in BOOLEAN, RemovePendingDuel(t, ok)
       PROVE  Found(s, k)'
  BY <1>0, <1>16 DEF RemovePendingDuel
<1>17. ASSUME NEW t \in Tasks, NEW i \in Insts, CreateDuel(t, i)
       PROVE  Found(s, k)'
  BY <1>0, <1>17 DEF CreateDuel
<1>18. ASSUME NEW t \in Tasks, CreateFails(t)
       PROVE  Found(s, k)'
  BY <1>0, <1>18 DEF CreateFails
<1>19. ASSUME NEW t \in Tasks, NEW ok \in BOOLEAN, BattleGateway(t, "duelGw", "duelB", ok)
       PROVE  Found(s, k)'
  BY <1>0, <1>19 DEF BattleGateway
<1>20. ASSUME NEW t \in Tasks, BindChallenger(t)
       PROVE  Found(s, k)'
  <2>1. CASE RemovePlace(t, "battle", "duelB", "duelBI")
    BY <1>0, <2>1 DEF RemovePlace
  <2>2. CASE Unindex(t, "battle", "duelBI", "duelIns")
    <3>1. CASE who[t] = s /\ k = "battle"
      <4>1. pc'[t] = "duelIns" /\ who'[t] = s
        BY <2>2, <3>1 DEF Unindex
      <4>2. Binding(s, k)'
        BY <3>1, <4>1 DEF Binding
      <4> QED BY <4>2 DEF Found
    <3>2. CASE who[t] # s \/ k # "battle"
      BY <1>0, <2>2, <3>2 DEF Unindex
    <3> QED BY <3>1, <3>2
  <2>3. CASE InsertPlace(t, "battle", "duelIns", "duelIdx")
    <3>1. CASE who[t] = s /\ k = "battle"
      <4>1. pc'[t] = "duelIdx" /\ who'[t] = s /\ inst'[t] = place'[k][s]
        BY <2>3, <3>1 DEF InsertPlace
      <4>2. Binding(s, k)'
        BY <3>1, <4>1 DEF Binding
      <4> QED BY <4>2 DEF Found
    <3>2. CASE who[t] # s \/ k # "battle"
      BY <1>0, <2>3, <3>2 DEF InsertPlace
    <3> QED BY <3>1, <3>2
  <2>4. CASE /\ InsertIndex(t, "battle", "duelIdx")
             /\ Keep(who, t, SessionOf[t])
             /\ Goto(t, "battleGw")
             /\ UNCHANGED <<inst, duel>>
    <3>1. CASE who[t] = s /\ k = "battle" /\ inst[t] = place[k][s]
      <4>1. s \in index'[k][place'[k][s]]
        BY <2>4, <3>1 DEF InsertIndex
      <4> QED BY <4>1 DEF Found
    <3>2. CASE who[t] # s \/ k # "battle" \/ inst[t] # place[k][s]
      BY <1>0, <2>4, <3>2 DEF InsertIndex
    <3> QED BY <3>1, <3>2
  <2> QED BY <1>20, <2>1, <2>2, <2>3, <2>4 DEF BindChallenger
<1>21. ASSUME NEW t \in Tasks, NEW ok \in BOOLEAN, LeaveTownFor(t, ok)
       PROVE  Found(s, k)'
  BY <1>0, <1>21 DEF LeaveTownFor
<1>22. ASSUME NEW t \in Tasks, NEW ok \in BOOLEAN, LeaveTown(t, "away", "awayU", "leave", ok)
       PROVE  Found(s, k)'
  BY <1>0, <1>22 DEF LeaveTown
<1>23. ASSUME NEW t \in Tasks, UnbindTown(t, "awayU", "awayUI", "leave")
       PROVE  Found(s, k)'
  <2>1. CASE RemovePlace(t, "town", "awayU", "awayUI")
    BY <1>0, <2>1 DEF RemovePlace
  <2>2. CASE Unindex(t, "town", "awayUI", "leave")
    <3>1. CASE who[t] = s
      <4>1. place["town"][s] = None /\ place' = place /\ k = "battle"
        BY <2>2, <3>1 DEF Unindex, OutOfTown
      <4> QED BY <1>0, <2>2, <4>1 DEF Unindex
    <3>2. CASE who[t] # s
      BY <1>0, <2>2, <3>2 DEF Unindex
    <3> QED BY <3>1, <3>2
  <2> QED BY <1>23, <2>1, <2>2 DEF UnbindTown
<1>24. ASSUME NEW t \in Tasks, EndBattle(t)
       PROVE  Found(s, k)'
  BY <1>0, <1>24 DEF EndBattle
<1>25. ASSUME NEW t \in Tasks, NEW a \in Accounts, Login(t, a)
       PROVE  Found(s, k)'
  BY <1>0, <1>25 DEF Login
<1>26. ASSUME NEW t \in Tasks, NEW a \in Accounts, DuelInvite(t, a)
       PROVE  Found(s, k)'
  BY <1>0, <1>26 DEF DuelInvite
<1>27. ASSUME NEW t \in Tasks, SelectCharacter(t)
       PROVE  Found(s, k)'
  BY <1>0, <1>27 DEF SelectCharacter
<1>28. ASSUME NEW t \in Tasks, NEW i \in Insts, EnterScene(t, i)
       PROVE  Found(s, k)'
  BY <1>0, <1>28 DEF EnterScene
<1>29. ASSUME NEW t \in Tasks, NEW i \in Insts, BattleJoin(t, i)
       PROVE  Found(s, k)'
  BY <1>0, <1>29 DEF BattleJoin
<1>30. ASSUME NEW t \in Tasks, NEW c \in Sessions, DuelRespond(t, c)
       PROVE  Found(s, k)'
  BY <1>0, <1>30 DEF DuelRespond
<1>31. ASSUME NEW j \in Kinds, OfflineDone(j)
       PROVE  Found(s, k)'
  BY <1>0, <1>31 DEF OfflineDone
<1>32. ASSUME NEW j \in Kinds, NEW r \in Sessions, VisitSession(j, r)
       PROVE  Found(s, k)'
  BY <1>0, <1>32 DEF VisitSession
<1>33. ASSUME WipeAccounts
       PROVE  Found(s, k)'
  BY <1>0, <1>33 DEF WipeAccounts
<1>34. ASSUME WipePlace("battle", "wipeB", "wipeBI")
       PROVE  Found(s, k)'
  BY <1>0, <1>34 DEF WipePlace
<1>35. ASSUME WipeIndex("battle", "wipeBI", "wipeT")
       PROVE  Found(s, k)'
  BY <1>35 DEF WipeIndex, Found
<1>36. ASSUME WipePlace("town", "wipeT", "wipeTI")
       PROVE  Found(s, k)'
  BY <1>0, <1>36 DEF WipePlace
<1>37. ASSUME WipeIndex("town", "wipeTI", "stop")
       PROVE  Found(s, k)'
  BY <1>37 DEF WipeIndex, Found
<1>38. ASSUME StopAllSessions
       PROVE  Found(s, k)'
  <2>1. /\ place[k][s] # None /\ s \notin late
        /\ stop' = [t \in Tasks |-> pc[t] # "none"] /\ pc' = pc
    BY <1>38 DEF StopAllSessions
  <2>2. PICK t \in Tasks : SessionOf[t] = s /\ pc[t] \notin Ended
    BY <2>1, PlacedRuns
  <2>3. Stopping(s)'
    BY <2>1, <2>2 DEF Stopping, Ended
  <2> QED BY <2>3 DEF Found
<1>39. ASSUME NEW t \in Tasks, Spawn(t)
       PROVE  Found(s, k)'
  BY <1>0, <1>39 DEF Spawn
<1>40. ASSUME NEW r \in Sessions, StopSession(r)
       PROVE  Found(s, k)'
  BY <1>0, <1>40 DEF StopSession
<1>41. ASSUME NEW j \in Kinds, NEW i \in Insts, ServerOffline(j, i)
       PROVE  Found(s, k)'
  <2>1. CASE j = k /\ i = place[k][s] /\ s \in index[k][i]
    BY <1>41, <2>1 DEF ServerOffline, Found
  <2>2. CASE ~(j = k /\ i = place[k][s] /\ s \in index[k][i])
    BY <1>0, <1>41, <2>2 DEF ServerOffline
  <2> QED BY <2>1, <2>2
<1>42. ASSUME NEW j \in Kinds, NEW i \in Insts, ServerOnline(j, i)
       PROVE  Found(s, k)'
  BY <1>0, <1>42 DEF ServerOnline
<1>43. ASSUME Disconnected
       PROVE  Found(s, k)'
  BY <1>43 DEF Disconnected, Found
<1> HIDE DEF TypeInv, TypeOK, Reads, Whose, Own, WipePCs, TownPCs,
       KeepsReasons, InsPCs, IdxPCs, OfflinePC, ConnectionLost, task, held,
       tables, loop, marks, Goto, GotoOrReturn, Return, Keep, Ready, Kinds
<1> QED BY <1>1, <1>2, <1>3, <1>4, <1>5, <1>6, <1>7, <1>8, <1>9, <1>10, <1>11,
     <1>12, <1>13, <1>14, <1>15, <1>16, <1>17, <1>18, <1>19, <1>20, <1>21,
     <1>22, <1>23, <1>24, <1>25, <1>26, <1>27, <1>28, <1>29, <1>30, <1>31,
     <1>32, <1>33, <1>34, <1>35, <1>36, <1>37, <1>38, <1>39, <1>40, <1>41,
     <1>42, <1>43
     DEF Kinds, Next, TaskStep, ClientRequest, ReaderStep, GatewayInput

----------------------------------------------------------------------------
(* The theorems *)

LEMMA GameInit == Init => GameInv
<1> SUFFICES ASSUME Init PROVE GameInv
  OBVIOUS
<1>1. TypeInv
  BY GameAssumptions DEF Init, TypeInv, TypeOK, Reads, TaskPCs, ReaderPCs, Kinds
<1>2. Whose
  BY DEF Init, Whose, Own, TownPCs, WipePCs
<1>3. LeftToTasks
  BY DEF Init, LeftToTasks, Kinds
<1>4. Alone /\ OwnerHolds /\ OutOfTown /\ Findable
  BY DEF Init, Alone, Runs, OwnerHolds, OutOfTown, Findable, Kinds
<1> QED BY <1>1, <1>2, <1>3, <1>4 DEF GameInv

LEMMA GameStep == GameInv /\ [Next]_vars => GameInv'
<1> SUFFICES ASSUME GameInv, [Next]_vars PROVE GameInv'
  OBVIOUS
<1>1. CASE Next
  BY <1>1, TypeStep, WhoseStep, AloneStep, LeftStep, OwnerStep, OutStep,
     FindableStep DEF GameInv
<1>2. CASE UNCHANGED vars
  <2> USE <1>2 DEF GameInv, vars, task, held, tables, loop, marks
  <2>1. TypeInv'
    BY DEF TypeInv, TypeOK, Reads
  <2>2. Whose'
    BY DEF Whose, Own
  <2>3. Alone'
    BY DEF Alone, Runs
  <2>4. LeftToTasks'
    BY DEF LeftToTasks, Attended, Past, Own
  <2>5. OwnerHolds'
    BY DEF OwnerHolds, Logged
  <2>6. OutOfTown'
    BY DEF OutOfTown
  <2>7. Findable'
    BY DEF Findable, Found, Binding, BeingKicked, Own, Stopping, ConnectionLost
  <2> QED BY <2>1, <2>2, <2>3, <2>4, <2>5, <2>6, <2>7
<1> QED BY <1>1, <1>2

\* The invariant of all the tasks, with any number of tasks of one session.
THEOREM GameInvariant == Spec => []GameInv
<1>1. Init => GameInv
  BY GameInit
<1>2. GameInv /\ [Next]_vars => GameInv'
  BY GameStep
<1> QED BY <1>1, <1>2, PTL DEF Spec

\* Every table and every task's progress keeps its type: the tables of places
\* and their indices (bind_battle_session, bind_town_session) hold sessions and
\* instances, and a handler never acts on a lookup that found nothing.
THEOREM GameTypeCorrect == Spec => []TypeOK
<1>1. GameInv => TypeOK
  BY DEF GameInv, TypeInv
<1> QED BY <1>1, GameInvariant, PTL

\* on_stop clears all that its session has in the tables of places, in
\* pending_duels, in selected_characters and in account_sessions: when its tasks
\* have ended, nothing came back, though other tasks and the read loop wrote the
\* same tables meanwhile.  Two entries may stay, as the code leaves them: a battle
\* that a duel stored after on_stop had cleared it, and an account that the session
\* had left for another.
THEOREM GameNothingLeft == Spec => []NothingLeftBehind
<1>1. GameInv => NothingLeftBehind
  <2> SUFFICES ASSUME GameInv, NEW s \in Sessions,
                      \A t \in Tasks : SessionOf[t] = s => pc[t] \in {"none", "done"}
               PROVE  /\ place["town"][s] = None
                      /\ place["battle"][s] = None \/ s \in late
                      /\ duels[s] = None
                      /\ s \notin selected
                      /\ \A a \in Accounts : accounts[a] = s =>
                            \E t \in Tasks : /\ SessionOf[t] = s
                                             /\ account[t] \notin {None, a}
    BY DEF NothingLeftBehind
  <2>1. \A l : ~Attended(s, l)
    BY DEF Attended, Past, Ended
  <2>2. /\ place["town"][s] = None
        /\ place["battle"][s] = None \/ s \in late
        /\ duels[s] = None
        /\ s \notin selected
    BY <2>1 DEF GameInv, LeftToTasks
  <2>3. ASSUME NEW a \in Accounts, accounts[a] = s
         PROVE  \E t \in Tasks : SessionOf[t] = s /\ account[t] \notin {None, a}
    <3>1. accounts[a] # None
      BY <2>3, GameAssumptions
    <3>2. PICK t \in Tasks : /\ SessionOf[t] = s
                             /\ \/ account[t] = a /\ pc[t] # "done"
                                \/ account[t] \notin {None, a}
      BY <2>3, <3>1 DEF GameInv, OwnerHolds, Logged
    <3>3. account[t] = a => pc[t] # "none"
      BY <3>2, GameAssumptions DEF GameInv, TypeInv, Reads
    <3> QED BY <3>2, <3>3
  <2> QED BY <2>2, <2>3
<1> QED BY <1>1, GameInvariant, PTL

\* The session that bind_account stored last for an account stays its owner until
\* its own task has ended: on_stop of a displaced session removes only an account
\* it still holds, and a kick removes none.
THEOREM GameLastLoginOwns == Spec => []LastLoginOwns
<1>1. GameInv => LastLoginOwns
  BY DEF GameInv, OwnerHolds, LastLoginOwns, HoldsLogin
<1> QED BY <1>1, GameInvariant, PTL

\* The offline push of an instance (handle_battle_server_offline and
\* handle_town_server_offline) goes through the index: every session at rest
\* that has the instance as its place is in it.
THEOREM GameOfflineWillFind == Spec => []OfflineWillFind
<1>1. GameInv => OfflineWillFind
  <2> SUFFICES ASSUME GameInv, NEW s \in Sessions, NEW k \in Kinds, AtRest(s, k),
                      s \notin kicked \cup respawned \cup late
               PROVE  s \in index[k][place[k][s]]
    BY DEF OfflineWillFind
  <2>1. Found(s, k)
    BY DEF GameInv, Findable, AtRest
  <2>2. ~Binding(s, k) /\ ~BeingKicked(s)
    BY DEF AtRest, Moving, Binding, BeingKicked, InsPCs, IdxPCs, WipePCs
  <2>3. ~Stopping(s)
    <3>1. PICK t \in Tasks : SessionOf[t] = s /\ pc[t] = "idle" /\ ~stop[t]
      BY DEF AtRest
    <3>2. ASSUME NEW u \in Tasks, SessionOf[u] = s, stop[u], pc[u] # "done"
           PROVE  FALSE
      <4>1. u # t /\ Runs(u) /\ Runs(t)
        BY <3>1, <3>2 DEF GameInv, Whose, Runs
      <4>2. s \in respawned
        BY <3>1, <3>2, <4>1 DEF GameInv, Alone
      <4> QED BY <4>2
    <3> QED BY <3>2 DEF Stopping
  <2>4. reader # OfflinePC(k) /\ ~ConnectionLost
    BY DEF AtRest, Moving, OfflinePC, ConnectionLost
  <2> QED BY <2>1, <2>2, <2>3, <2>4 DEF Found
<1> QED BY <1>1, GameInvariant, PTL

=============================================================================
