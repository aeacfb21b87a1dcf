-------------------------- MODULE BackendRpcProofs --------------------------
(***************************************************************************)
(* Proofs about BackendRpc, for any number of concurrent calls and any     *)
(* range of request ids.                                                   *)
(***************************************************************************)
EXTENDS BackendRpc, TLAPS

\* The callers between insert_pending and the end of the call.
Busy == {"send", "unsent", "wait", "expired"}

\* What the table holds is the open sender of a call under way, under its id.
TableHoldsCalls ==
    \A i \in Ids : pending[i] # None =>
        /\ pc[pending[i]] \in Busy
        /\ id[pending[i]] = i
        /\ chan[pending[i]] = "open"

\* Conversely an open channel of such a call has its sender in the table, so
\* whoever throws the entry away ends the wait.
CallsAreTabled ==
    \A r \in Requests :
        pc[r] \in Busy /\ chan[r] = "open" => pending[id[r]] = r

\* A call that has begun has an id, a call that was not sent is not answered.
CallsHaveIds ==
    /\ \A r \in Requests : pc[r] # "new" => id[r] \in Ids
    /\ \A r \in asked : pc[r] # "new"

\* A call without an entry yet has an open channel.
FreshCalls ==
    \A r \in Requests : pc[r] \in {"new", "insert"} => chan[r] = "open"

\* Slots that clear_pending has passed keep nobody waiting.
ClearedSlots ==
    /\ link = "clearing" => \A r \in Requests :
          pc[r] = "wait" /\ id[r] \notin todo => chan[r] # "open"
    /\ NoWaitAcrossDisconnect

\* Until the seed comes round, ids are distinct, and from 2 to the seed while
\* it has not passed MaxId yet.
DistinctIds ==
    ~wrapped =>
        /\ seed # 1 => \A r \in Requests : id[r] = 0 \/ id[r] \in 2..seed
        /\ \A r \in Requests, q \in Requests :
              id[r] = id[q] /\ id[r] # 0 => r = q

IInv ==
    /\ TypeOK
    /\ TableHoldsCalls
    /\ CallsAreTabled
    /\ CallsHaveIds
    /\ FreshCalls
    /\ ClearedSlots
    /\ DistinctIds
    /\ OwnAnswer

----------------------------------------------------------------------------
\* The initial state satisfies the invariant: nobody has called.
LEMMA InitIInv == Init => IInv
<1> SUFFICES ASSUME Init PROVE IInv
  OBVIOUS
<1>0. 1 \in Ids
  BY RpcAssumptions DEF Ids
<1>1. TypeOK
  <2>1. seed \in Ids /\ id \in [Requests -> Ids \cup {0}]
    BY <1>0 DEF Init
  <2>2. pending \in [Ids -> Requests \cup {None}]
    BY DEF Init
  <2>3. wrapped \in BOOLEAN /\ asked \in SUBSET Requests /\ todo \in SUBSET Ids
    BY DEF Init
  <2>4. /\ pc \in [Requests -> {"new", "insert", "send", "unsent", "wait",
                                "expired", "done"}]
        /\ chan \in [Requests -> {"open", "value", "dropped"}]
        /\ got \in [Requests -> Requests \cup {None}]
        /\ link \in {"up", "closed", "clearing", "down"}
    BY DEF Init
  <2> QED
    BY <2>1, <2>2, <2>3, <2>4 DEF TypeOK
<1>2. TableHoldsCalls /\ CallsAreTabled
  BY DEF Init, TableHoldsCalls, CallsAreTabled, Busy
<1>3. CallsHaveIds /\ FreshCalls /\ ClearedSlots
  BY DEF Init, CallsHaveIds, FreshCalls, ClearedSlots, NoWaitAcrossDisconnect
<1>4. DistinctIds
  BY DEF Init, DistinctIds
<1>5. OwnAnswer
  BY DEF Init, OwnAnswer
<1> QED
  BY <1>1, <1>2, <1>3, <1>4, <1>5 DEF IInv

\* next_request_id: the id is new unless the seed has come round.
LEMMA StepNextRequestId ==
  ASSUME IInv, NEW r \in Requests, NextRequestId(r)
  PROVE  IInv'
<1>1. TypeOK'
  BY RpcAssumptions DEF IInv, TypeOK, NextRequestId, Goto, Ids
<1>2. TableHoldsCalls'
  BY DEF IInv, TypeOK, TableHoldsCalls, Busy, NextRequestId, Goto, Ids
<1>3. CallsAreTabled'
  BY DEF IInv, TypeOK, CallsAreTabled, Busy, NextRequestId, Goto, Ids
<1>4. CallsHaveIds'
  BY RpcAssumptions DEF IInv, TypeOK, CallsHaveIds, NextRequestId, Goto, Ids
<1>5. ClearedSlots'
  BY DEF IInv, TypeOK, ClearedSlots, NoWaitAcrossDisconnect, NextRequestId,
         Goto, Ids
<1>6. DistinctIds'
  <2> SUFFICES ASSUME ~wrapped'
               PROVE  /\ seed' # 1 => \A q \in Requests :
                            id'[q] = 0 \/ id'[q] \in 2..seed'
                      /\ \A p \in Requests, q \in Requests :
                            id'[p] = id'[q] /\ id'[p] # 0 => p = q
    BY DEF DistinctIds
  <2>0. ~wrapped /\ ~(seed = 1 /\ \E q \in Requests : id[q] # 0)
    BY Zenon DEF NextRequestId
  <2>1. /\ ~wrapped /\ seed \in Nat /\ seed <= MaxId /\ MaxId \in Nat
        /\ id \in [Requests -> Nat]
        /\ seed = 1 => \A q \in Requests : id[q] = 0
        /\ seed # 1 => \A q \in Requests : id[q] = 0 \/ id[q] \in 2..seed
        /\ \A p \in Requests, q \in Requests :
              id[p] = id[q] /\ id[p] # 0 => p = q
    BY <2>0, RpcAssumptions DEF IInv, TypeOK, DistinctIds, Ids
  <2>2. /\ seed' = IF seed = MaxId THEN 1 ELSE seed + 1
        /\ id' = [id EXCEPT ![r] = seed']
    BY DEF NextRequestId
  <2>3. id'[r] = seed' /\ \A q \in Requests : q # r => id'[q] = id[q]
    BY <2>1, <2>2
  <2>4. \A q \in Requests : q # r => id'[q] # id'[r]
    BY <2>1, <2>2, <2>3, RpcAssumptions
  <2>5. seed' # 1 => \A q \in Requests : id'[q] = 0 \/ id'[q] \in 2..seed'
    BY <2>1, <2>2, <2>3, RpcAssumptions
  <2> QED
    BY <2>1, <2>3, <2>4, <2>5
<1>7. OwnAnswer'
  BY DEF IInv, TypeOK, OwnAnswer, NextRequestId, Goto
<1>8. FreshCalls'
  BY DEF IInv, TypeOK, FreshCalls, NextRequestId, Goto
<1> QED
  BY <1>1, <1>2, <1>3, <1>4, <1>5, <1>6, <1>7, <1>8 DEF IInv

\* insert_pending: a sender that it replaces is dropped.
LEMMA StepInsertPending ==
  ASSUME IInv, NEW r \in Requests, InsertPending(r)
  PROVE  IInv'
<1>0. id[r] \in Ids
  BY DEF IInv, CallsHaveIds, InsertPending
<1>1. TypeOK'
  BY <1>0, RpcAssumptions DEF IInv, TypeOK, InsertPending, DropSender, Goto
<1>2. TableHoldsCalls'
  <2> SUFFICES ASSUME NEW i \in Ids, pending'[i] # None
               PROVE  /\ pc'[pending'[i]] \in Busy
                      /\ id'[pending'[i]] = i
                      /\ chan'[pending'[i]] = "open"
    BY DEF TableHoldsCalls
  <2>1. CASE i = id[r]
    <3>1. pending'[i] = r /\ pc'[r] = "send" /\ id'[r] = i
      BY <2>1, <1>0 DEF IInv, TypeOK, InsertPending, Goto
    <3>2. pending[i] # r /\ chan[r] = "open"
      BY DEF IInv, TableHoldsCalls, Busy, FreshCalls, InsertPending
    <3>3. chan'[r] = "open"
      BY <2>1, <3>2 DEF IInv, TypeOK, InsertPending, DropSender
    <3> QED
      BY <3>1, <3>3 DEF Busy
  <2>2. CASE i # id[r]
    <3>1. /\ pending'[i] = pending[i]
          /\ pending[i] \in Requests
          /\ pc[pending[i]] \in Busy
          /\ id[pending[i]] = i
          /\ chan[pending[i]] = "open"
      BY <2>2, <1>0 DEF IInv, TypeOK, InsertPending, TableHoldsCalls
    <3>2. pending[i] # pending[id[r]]
      BY <2>2, <3>1, <1>0, RpcAssumptions DEF IInv, TypeOK, TableHoldsCalls
    <3>3. chan'[pending[i]] = "open"
      BY <3>1, <3>2 DEF IInv, TypeOK, InsertPending, DropSender
    <3> QED
      BY <3>1, <3>3 DEF IInv, TypeOK, Busy, InsertPending, Goto
  <2> QED
    BY <2>1, <2>2
<1>3. CallsAreTabled'
  BY <1>0, RpcAssumptions DEF IInv, TypeOK, TableHoldsCalls, CallsAreTabled,
      CallsHaveIds, Busy, InsertPending, DropSender, Goto
<1>4. CallsHaveIds'
  BY <1>0, RpcAssumptions DEF IInv, TypeOK, CallsHaveIds, InsertPending,
      DropSender, Goto
<1>5. ClearedSlots'
  BY <1>0, RpcAssumptions DEF IInv, TypeOK, ClearedSlots,
      NoWaitAcrossDisconnect, InsertPending, DropSender, Goto
<1>6. DistinctIds'
  BY <1>0, RpcAssumptions DEF IInv, TypeOK, DistinctIds, InsertPending,
      DropSender, Goto
<1>7. OwnAnswer'
  BY <1>0, RpcAssumptions DEF IInv, TypeOK, OwnAnswer, InsertPending,
      DropSender, Goto
<1>8. FreshCalls'
  BY <1>0 DEF IInv, TypeOK, FreshCalls, InsertPending, DropSender, Goto, TableHoldsCalls, Busy
<1> QED
  BY <1>1, <1>2, <1>3, <1>4, <1>5, <1>6, <1>7, <1>8 DEF IInv

\* A caller starts to wait only while the connection is up.
LEMMA StepSend ==
  ASSUME IInv, NEW r \in Requests, Send(r)
  PROVE  IInv'
<1>1. TypeOK'
  BY DEF IInv, TypeOK, Send, Goto
<1>2. TableHoldsCalls'
  BY DEF IInv, TypeOK, TableHoldsCalls, Busy, Send, Goto
<1>3. CallsAreTabled'
  BY DEF IInv, TypeOK, TableHoldsCalls, CallsAreTabled, CallsHaveIds, Busy,
      Send, Goto
<1>4. CallsHaveIds'
  BY DEF IInv, TypeOK, CallsHaveIds, Send, Goto
<1>5. ClearedSlots'
  BY DEF IInv, TypeOK, ClearedSlots, NoWaitAcrossDisconnect, Send, Goto
<1>6. DistinctIds'
  BY DEF IInv, TypeOK, DistinctIds, Send, Goto
<1>7. OwnAnswer'
  BY DEF IInv, TypeOK, OwnAnswer, Send, Goto
<1>8. FreshCalls'
  BY DEF IInv, TypeOK, FreshCalls, Send, Goto
<1> QED
  BY <1>1, <1>2, <1>3, <1>4, <1>5, <1>6, <1>7, <1>8 DEF IInv

\* remove_pending drops the sender it removes, whosoever it is.
LEMMA StepRemovePending ==
  ASSUME IInv, NEW r \in Requests, pc[r] \in {"unsent", "expired"}, RemovePending(r)
  PROVE  IInv'
<1>0. id[r] \in Ids
  BY DEF IInv, CallsHaveIds, RemovePending
<1>1. TypeOK'
  BY <1>0, RpcAssumptions DEF IInv, TypeOK, RemovePending, DropSender, Goto
<1>2. TableHoldsCalls'
  BY <1>0, RpcAssumptions DEF IInv, TypeOK, TableHoldsCalls, Busy,
      RemovePending, DropSender, Goto
<1>3. CallsAreTabled'
  BY <1>0, RpcAssumptions DEF IInv, TypeOK, TableHoldsCalls, CallsAreTabled,
      CallsHaveIds, Busy, RemovePending, DropSender, Goto
<1>4. CallsHaveIds'
  BY <1>0, RpcAssumptions DEF IInv, TypeOK, CallsHaveIds, RemovePending,
      DropSender, Goto
<1>5. ClearedSlots'
  BY <1>0, RpcAssumptions DEF IInv, TypeOK, ClearedSlots,
      NoWaitAcrossDisconnect, RemovePending, DropSender, Goto
<1>6. DistinctIds'
  BY <1>0, RpcAssumptions DEF IInv, TypeOK, DistinctIds, RemovePending,
      DropSender, Goto
<1>7. OwnAnswer'
  BY <1>0, RpcAssumptions DEF IInv, TypeOK, OwnAnswer, RemovePending,
      DropSender, Goto
<1>8. FreshCalls'
  BY <1>0 DEF IInv, TypeOK, FreshCalls, RemovePending, DropSender, Goto, TableHoldsCalls, Busy
<1> QED
  BY <1>1, <1>2, <1>3, <1>4, <1>5, <1>6, <1>7, <1>8 DEF IInv

\* A caller that wakes has no sender in the table.
LEMMA StepWake ==
  ASSUME IInv, NEW r \in Requests, Wake(r)
  PROVE  IInv'
<1>1. TypeOK'
  BY DEF IInv, TypeOK, Wake, Goto
<1>2. TableHoldsCalls'
  BY DEF IInv, TypeOK, TableHoldsCalls, Busy, Wake, Goto
<1>3. CallsAreTabled'
  BY DEF IInv, TypeOK, TableHoldsCalls, CallsAreTabled, CallsHaveIds, Busy,
      Wake, Goto
<1>4. CallsHaveIds'
  BY DEF IInv, TypeOK, CallsHaveIds, Wake, Goto
<1>5. ClearedSlots'
  BY DEF IInv, TypeOK, ClearedSlots, NoWaitAcrossDisconnect, Wake, Goto
<1>6. DistinctIds'
  BY DEF IInv, TypeOK, DistinctIds, Wake, Goto
<1>7. OwnAnswer'
  BY DEF IInv, TypeOK, OwnAnswer, Wake, Goto
<1>8. FreshCalls'
  BY DEF IInv, TypeOK, FreshCalls, Wake, Goto
<1> QED
  BY <1>1, <1>2, <1>3, <1>4, <1>5, <1>6, <1>7, <1>8 DEF IInv

\* The timer leaves the entry where it is.
LEMMA StepExpire ==
  ASSUME IInv, NEW r \in Requests, Expire(r)
  PROVE  IInv'
<1>1. TypeOK'
  BY DEF IInv, TypeOK, Expire, Goto
<1>2. TableHoldsCalls'
  BY DEF IInv, TypeOK, TableHoldsCalls, Busy, Expire, Goto
<1>3. CallsAreTabled'
  BY DEF IInv, TypeOK, TableHoldsCalls, CallsAreTabled, CallsHaveIds, Busy,
      Expire, Goto
<1>4. CallsHaveIds'
  BY DEF IInv, TypeOK, CallsHaveIds, Expire, Goto
<1>5. ClearedSlots'
  BY DEF IInv, TypeOK, ClearedSlots, NoWaitAcrossDisconnect, Expire, Goto
<1>6. DistinctIds'
  BY DEF IInv, TypeOK, DistinctIds, Expire, Goto
<1>7. OwnAnswer'
  BY DEF IInv, TypeOK, OwnAnswer, Expire, Goto
<1>8. FreshCalls'
  BY DEF IInv, TypeOK, FreshCalls, Expire, Goto
<1> QED
  BY <1>1, <1>2, <1>3, <1>4, <1>5, <1>6, <1>7, <1>8 DEF IInv

\* An answer goes to the call in the table under its id.
LEMMA StepResolve ==
  ASSUME IInv, NEW r \in Requests, Resolve(r)
  PROVE  IInv'
<1>0. id[r] \in Ids
  BY DEF IInv, CallsHaveIds, Resolve
<1>1. TypeOK'
  BY <1>0, RpcAssumptions DEF IInv, TypeOK, Resolve
<1>2. TableHoldsCalls'
  BY <1>0, RpcAssumptions DEF IInv, TypeOK, TableHoldsCalls, Busy, Resolve
<1>3. CallsAreTabled'
  BY <1>0, RpcAssumptions DEF IInv, TypeOK, TableHoldsCalls, CallsAreTabled,
      CallsHaveIds, Busy, Resolve
<1>4. CallsHaveIds'
  BY <1>0, RpcAssumptions DEF IInv, TypeOK, CallsHaveIds, Resolve
<1>5. ClearedSlots'
  BY <1>0, RpcAssumptions DEF IInv, TypeOK, ClearedSlots,
      NoWaitAcrossDisconnect, TableHoldsCalls, Resolve
<1>6. DistinctIds'
  BY <1>0, RpcAssumptions DEF IInv, TypeOK, DistinctIds, Resolve
<1>7. OwnAnswer'
  BY <1>0, RpcAssumptions DEF IInv, TypeOK, OwnAnswer, DistinctIds,
      TableHoldsCalls, Ids, Resolve
<1>8. FreshCalls'
  BY <1>0 DEF IInv, TypeOK, FreshCalls, Resolve, TableHoldsCalls, Busy
<1> QED
  BY <1>1, <1>2, <1>3, <1>4, <1>5, <1>6, <1>7, <1>8 DEF IInv

\* The connection is lost.
LEMMA StepDisconnect ==
  ASSUME IInv, Disconnect
  PROVE  IInv'
<1>1. TypeOK'
  BY DEF IInv, TypeOK, Disconnect
<1>2. TableHoldsCalls'
  BY DEF IInv, TypeOK, TableHoldsCalls, Busy, Disconnect
<1>3. CallsAreTabled'
  BY DEF IInv, TypeOK, TableHoldsCalls, CallsAreTabled, CallsHaveIds, Busy,
      Disconnect
<1>4. CallsHaveIds'
  BY DEF IInv, TypeOK, CallsHaveIds, Disconnect
<1>5. ClearedSlots'
  BY DEF IInv, TypeOK, ClearedSlots, NoWaitAcrossDisconnect, Disconnect
<1>6. DistinctIds'
  BY DEF IInv, TypeOK, DistinctIds, Disconnect
<1>7. OwnAnswer'
  BY DEF IInv, TypeOK, OwnAnswer, Disconnect
<1>8. FreshCalls'
  BY DEF IInv, TypeOK, FreshCalls, Disconnect
<1> QED
  BY <1>1, <1>2, <1>3, <1>4, <1>5, <1>6, <1>7, <1>8 DEF IInv

\* clear_gateway_tx takes the sender away.
LEMMA StepClearGatewayTx ==
  ASSUME IInv, ClearGatewayTx
  PROVE  IInv'
<1>1. TypeOK'
  BY DEF IInv, TypeOK, ClearGatewayTx
<1>2. TableHoldsCalls'
  BY DEF IInv, TypeOK, TableHoldsCalls, Busy, ClearGatewayTx
<1>3. CallsAreTabled'
  BY DEF IInv, TypeOK, TableHoldsCalls, CallsAreTabled, CallsHaveIds, Busy,
      ClearGatewayTx
<1>4. CallsHaveIds'
  BY DEF IInv, TypeOK, CallsHaveIds, ClearGatewayTx
<1>5. ClearedSlots'
  BY DEF IInv, TypeOK, ClearedSlots, NoWaitAcrossDisconnect, CallsHaveIds,
      ClearGatewayTx
<1>6. DistinctIds'
  BY DEF IInv, TypeOK, DistinctIds, ClearGatewayTx
<1>7. OwnAnswer'
  BY DEF IInv, TypeOK, OwnAnswer, ClearGatewayTx
<1>8. FreshCalls'
  BY DEF IInv, TypeOK, FreshCalls, ClearGatewayTx
<1> QED
  BY <1>1, <1>2, <1>3, <1>4, <1>5, <1>6, <1>7, <1>8 DEF IInv

\* clear_pending has visited every slot.
LEMMA StepCleared ==
  ASSUME IInv, Cleared
  PROVE  IInv'
<1>1. TypeOK'
  BY DEF IInv, TypeOK, Cleared
<1>2. TableHoldsCalls'
  BY DEF IInv, TypeOK, TableHoldsCalls, Busy, Cleared
<1>3. CallsAreTabled'
  BY DEF IInv, TypeOK, TableHoldsCalls, CallsAreTabled, CallsHaveIds, Busy,
      Cleared
<1>4. CallsHaveIds'
  BY DEF IInv, TypeOK, CallsHaveIds, Cleared
<1>5. ClearedSlots'
  BY DEF IInv, TypeOK, ClearedSlots, NoWaitAcrossDisconnect, Cleared
<1>6. DistinctIds'
  BY DEF IInv, TypeOK, DistinctIds, Cleared
<1>7. OwnAnswer'
  BY DEF IInv, TypeOK, OwnAnswer, Cleared
<1>8. FreshCalls'
  BY DEF IInv, TypeOK, FreshCalls, Cleared
<1> QED
  BY <1>1, <1>2, <1>3, <1>4, <1>5, <1>6, <1>7, <1>8 DEF IInv

\* A new connection is registered.
LEMMA StepReconnect ==
  ASSUME IInv, Reconnect
  PROVE  IInv'
<1>1. TypeOK'
  BY DEF IInv, TypeOK, Reconnect
<1>2. TableHoldsCalls'
  BY DEF IInv, TypeOK, TableHoldsCalls, Busy, Reconnect
<1>3. CallsAreTabled'
  BY DEF IInv, TypeOK, TableHoldsCalls, CallsAreTabled, CallsHaveIds, Busy,
      Reconnect
<1>4. CallsHaveIds'
  BY DEF IInv, TypeOK, CallsHaveIds, Reconnect
<1>5. ClearedSlots'
  BY DEF IInv, TypeOK, ClearedSlots, NoWaitAcrossDisconnect, Reconnect
<1>6. DistinctIds'
  BY DEF IInv, TypeOK, DistinctIds, Reconnect
<1>7. OwnAnswer'
  BY DEF IInv, TypeOK, OwnAnswer, Reconnect
<1>8. FreshCalls'
  BY DEF IInv, TypeOK, FreshCalls, Reconnect
<1> QED
  BY <1>1, <1>2, <1>3, <1>4, <1>5, <1>6, <1>7, <1>8 DEF IInv

\* clear_pending drops the sender of one slot.
LEMMA StepClearPending ==
  ASSUME IInv, NEW i \in Ids, ClearPending(i)
  PROVE  IInv'
<1>1. TypeOK'
  BY RpcAssumptions DEF IInv, TypeOK, ClearPending, DropSender
<1>2. TableHoldsCalls'
  BY RpcAssumptions DEF IInv, TypeOK, TableHoldsCalls, Busy, ClearPending,
      DropSender
<1>3. CallsAreTabled'
  BY RpcAssumptions DEF IInv, TypeOK, TableHoldsCalls, CallsAreTabled,
      CallsHaveIds, Busy, ClearPending, DropSender
<1>4. CallsHaveIds'
  BY RpcAssumptions DEF IInv, TypeOK, CallsHaveIds, ClearPending, DropSender
<1>5. ClearedSlots'
  BY RpcAssumptions DEF IInv, TypeOK, ClearedSlots, NoWaitAcrossDisconnect,
      TableHoldsCalls, CallsAreTabled, CallsHaveIds, Busy, ClearPending,
      DropSender
<1>6. DistinctIds'
  BY RpcAssumptions DEF IInv, TypeOK, DistinctIds, ClearPending, DropSender
<1>7. OwnAnswer'
  BY RpcAssumptions DEF IInv, TypeOK, OwnAnswer, ClearPending, DropSender
<1>8. FreshCalls'
  BY DEF IInv, TypeOK, FreshCalls, ClearPending, DropSender, TableHoldsCalls, Busy
<1> QED
  BY <1>1, <1>2, <1>3, <1>4, <1>5, <1>6, <1>7, <1>8 DEF IInv

\* Every step preserves the invariant.
LEMMA NextIInv == IInv /\ [Next]_vars => IInv'
<1> SUFFICES ASSUME IInv, [Next]_vars PROVE IInv'
  OBVIOUS
<1>1. ASSUME NEW r \in Requests, NextRequestId(r) PROVE IInv'
  BY <1>1, StepNextRequestId
<1>2. ASSUME NEW r \in Requests, CallerStep(r) PROVE IInv'
  BY <1>2, StepInsertPending, StepSend, StepRemovePending, StepWake, StepExpire
  DEF CallerStep, SendError, ExpireRemove
<1>3. ASSUME NEW r \in Requests, Resolve(r) PROVE IInv'
  BY <1>3, StepResolve
<1>4. CASE Disconnect \/ Reconnect
  BY <1>4, StepDisconnect, StepReconnect
<1>5. CASE LinkStep
  BY <1>5, StepClearGatewayTx, StepCleared, StepClearPending DEF LinkStep
<1>6. CASE UNCHANGED vars
  BY <1>6
  DEF vars, IInv, TypeOK, TableHoldsCalls, CallsAreTabled, CallsHaveIds,
      FreshCalls, ClearedSlots, NoWaitAcrossDisconnect, DistinctIds, OwnAnswer
<1> QED
  BY <1>1, <1>2, <1>3, <1>4, <1>5, <1>6 DEF Next

\* The invariant of RpcManager and of the calls that share it.
THEOREM RpcInvariant == Spec => []IInv
  BY InitIInv, NextIInv, PTL DEF Spec

\* Type correctness.
THEOREM RpcTypes == Spec => []TypeOK
<1>1. IInv => TypeOK
  BY DEF IInv
<1> QED
  BY <1>1, RpcInvariant, PTL

\* pending_requests holds no sender of a finished call, for any number of calls
\* and any range of ids, also after the ids have wrapped.
THEOREM RpcNoLeak == Spec => []NoLeakedEntry
<1>1. IInv => NoLeakedEntry
  BY DEF IInv, TableHoldsCalls, Busy, NoLeakedEntry
<1> QED
  BY <1>1, RpcInvariant, PTL

\* Until the ids wrap, a caller is given nobody else's answer.
THEOREM RpcOwnAnswer == Spec => []OwnAnswer
<1>1. IInv => OwnAnswer
  BY DEF IInv
<1> QED
  BY <1>1, RpcInvariant, PTL

\* After on_gateway_disconnected no caller waits for an answer of the lost
\* connection.
THEOREM RpcDisconnectWakes == Spec => []NoWaitAcrossDisconnect
<1>1. IInv => NoWaitAcrossDisconnect
  BY DEF IInv, ClearedSlots
<1> QED
  BY <1>1, RpcInvariant, PTL

=============================================================================
