----------------------------- MODULE BackendRpc -----------------------------
(***************************************************************************)
(* Remote calls of a backend (backend-framework): RpcManager's table of    *)
(* pending requests, shared by the tasks that call, the read loop that     *)
(* resolves answers, the timers of the callers and the gateway client that *)
(* clears the table when the connection is lost.                           *)
(*                                                                         *)
(* Each call is one request r.  Its oneshot channel is open while the      *)
(* sender half sits in the table, holds a value once it was answered, and  *)
(* is dropped when the sender was thrown away.                             *)
(***************************************************************************)
EXTENDS Naturals

CONSTANTS
    Requests,   \* the calls the tasks of the backend make
    MaxId,      \* i32::MAX, the largest request id
    None

ASSUME RpcAssumptions ==
    /\ MaxId \in Nat \ {0}
    /\ None \notin Requests

VARIABLES
    seed,       \* serial_seed
    wrapped,    \* history: the seed has come round to its first value with
                \* ids handed out, so the next ones are used a second time
    pc,         \* where the caller of each request is
    id,         \* its request id, 0 before it has one
    pending,    \* pending_requests: the request whose sender each id holds
    chan,       \* the oneshot channel of each request
    got,        \* the request whose answer it was given
    asked,      \* requests that were sent and are not answered yet
    link,       \* the gateway connection
    todo        \* slots that clear_pending has not visited yet

vars == <<seed, wrapped, pc, id, pending, chan, got, asked, link, todo>>

Ids == 1..MaxId

Init ==
    /\ seed = 1
    /\ wrapped = FALSE
    /\ pc = [r \in Requests |-> "new"]
    /\ id = [r \in Requests |-> 0]
    /\ pending = [i \in Ids |-> None]
    /\ chan = [r \in Requests |-> "open"]
    /\ got = [r \in Requests |-> None]
    /\ asked = {}
    /\ link = "up"
    /\ todo = {}

Goto(r, l) == pc' = [pc EXCEPT ![r] = l]

\* The sender that pending[i] holds is dropped, its receiver learns of it.
DropSender(i) ==
    chan' = IF pending[i] = None THEN chan
            ELSE [chan EXCEPT ![pending[i]] = "dropped"]

----------------------------------------------------------------------------
(* The caller: request_gateway_timeout and request_server_timeout *)

\* Mutant: the id is read and the seed not advanced, as without the CAS.
NextRequestId_NoCas(r) ==
    /\ pc[r] = "new"
    /\ id' = [id EXCEPT ![r] = IF seed = MaxId THEN 1 ELSE seed + 1]
    /\ Goto(r, "insert")
    /\ UNCHANGED <<seed, wrapped, pending, chan, got, asked, link, todo>>

\* next_request_id: the CAS that succeeds.
NextRequestId(r) ==
    /\ pc[r] = "new"
    /\ seed' = IF seed = MaxId THEN 1 ELSE seed + 1
    /\ wrapped' = (wrapped \/ (seed = 1 /\ \E q \in Requests : id[q] # 0))
    /\ id' = [id EXCEPT ![r] = seed']
    /\ Goto(r, "insert")
    /\ UNCHANGED <<pending, chan, got, asked, link, todo>>

\* insert_pending; an older sender under the same id is dropped.
InsertPending(r) ==
    /\ pc[r] = "insert"
    /\ DropSender(id[r])
    /\ pending' = [pending EXCEPT ![id[r]] = r]
    /\ Goto(r, "send")
    /\ UNCHANGED <<seed, wrapped, id, got, asked, link, todo>>

\* try_send_frame_msg fails without gateway_tx and once the channel is closed.
Send(r) ==
    /\ pc[r] = "send"
    /\ IF link = "up"
       THEN Goto(r, "wait") /\ asked' = asked \cup {r}
       ELSE Goto(r, "unsent") /\ UNCHANGED asked
    /\ UNCHANGED <<seed, wrapped, id, pending, chan, got, link, todo>>

\* Whatever the id holds is removed.
RemovePending(r) ==
    /\ DropSender(id[r])
    /\ pending' = [pending EXCEPT ![id[r]] = None]
    /\ Goto(r, "done")
    /\ UNCHANGED <<seed, wrapped, id, got, asked, link, todo>>

\* Mutant: the error returns without remove_pending.
SendError_Leaks(r) ==
    /\ pc[r] = "unsent"
    /\ Goto(r, "done")
    /\ UNCHANGED <<seed, wrapped, id, pending, chan, got, asked, link, todo>>

\* remove_pending after a send error.
SendError(r) == pc[r] = "unsent" /\ RemovePending(r)

\* The receiver has a value, or its sender is gone (RpcError::Cancelled).
Wake(r) ==
    /\ pc[r] = "wait"
    /\ chan[r] # "open"
    /\ Goto(r, "done")
    /\ UNCHANGED <<seed, wrapped, id, pending, chan, got, asked, link, todo>>

\* Mutant: the timeout never fires.
Expire_Never(r) == pc[r] = "wait" /\ FALSE /\ UNCHANGED vars

\* The timer of tokio::time::timeout ran out before the receiver had anything.
Expire(r) ==
    /\ pc[r] = "wait"
    /\ chan[r] = "open"
    /\ Goto(r, "expired")
    /\ UNCHANGED <<seed, wrapped, id, pending, chan, got, asked, link, todo>>

\* Only then the entry is removed: an answer may come in between.
ExpireRemove(r) == pc[r] = "expired" /\ RemovePending(r)

----------------------------------------------------------------------------
(* The read loop and the connection *)

\* resolve_pending_response: an answer to r arrives, also one that is late and
\* was asked for over an earlier connection (another server answers through
\* the gateway to whichever connection the instance has now).
Resolve(r) ==
    LET o == pending[id[r]]
    IN /\ link = "up"
       /\ r \in asked
       /\ asked' = asked \ {r}
       /\ pending' = [pending EXCEPT ![id[r]] = None]
       /\ IF o = None
          THEN UNCHANGED <<chan, got>>
          ELSE /\ chan' = [chan EXCEPT ![o] = "value"]
               /\ got' = [got EXCEPT ![o] = r]
       /\ UNCHANGED <<seed, wrapped, pc, id, link, todo>>

\* run_connection returns: the receiving half of the writer channel is gone.
Disconnect ==
    /\ link = "up"
    /\ link' = "closed"
    /\ UNCHANGED <<seed, wrapped, pc, id, pending, chan, got, asked, todo>>

\* Mutant: clear_gateway_tx drops the sender and leaves the table.
ClearGatewayTx_TableStays ==
    /\ link = "closed"
    /\ link' = "down"
    /\ UNCHANGED <<seed, wrapped, pc, id, pending, chan, got, asked, todo>>

\* clear_gateway_tx: first the sender, then the table.
ClearGatewayTx ==
    /\ link = "closed"
    /\ link' = "clearing"
    /\ todo' = Ids
    /\ UNCHANGED <<seed, wrapped, pc, id, pending, chan, got, asked>>

\* One slot of clear_pending.
ClearPending(i) ==
    /\ link = "clearing"
    /\ i \in todo
    /\ todo' = todo \ {i}
    /\ DropSender(i)
    /\ pending' = [pending EXCEPT ![i] = None]
    /\ UNCHANGED <<seed, wrapped, pc, id, got, asked, link>>

Cleared ==
    /\ link = "clearing"
    /\ todo = {}
    /\ link' = "down"
    /\ UNCHANGED <<seed, wrapped, pc, id, pending, chan, got, asked, todo>>

\* The next turn of GatewayClient::run registers again: set_gateway_tx.
Reconnect ==
    /\ link = "down"
    /\ link' = "up"
    /\ UNCHANGED <<seed, wrapped, pc, id, pending, chan, got, asked, todo>>

----------------------------------------------------------------------------
CallerStep(r) ==
    \/ InsertPending(r)
    \/ Send(r)
    \/ SendError(r)
    \/ Wake(r)
    \/ Expire(r)
    \/ ExpireRemove(r)

LinkStep == ClearGatewayTx \/ Cleared \/ (\E i \in Ids : ClearPending(i))

Next ==
    \/ \E r \in Requests : NextRequestId(r) \/ CallerStep(r) \/ Resolve(r)
    \/ Disconnect
    \/ LinkStep
    \/ Reconnect

Spec == Init /\ [][Next]_vars

\* Every caller's task is polled and its timer runs out.
Fairness == \A r \in Requests : WF_vars(CallerStep(r))

FairSpec == Spec /\ Fairness

----------------------------------------------------------------------------
(* Properties *)

\* The type invariant.
TypeOK ==
    /\ seed \in Ids
    /\ wrapped \in BOOLEAN
    /\ pc \in [Requests -> {"new", "insert", "send", "unsent", "wait",
                            "expired", "done"}]
    /\ id \in [Requests -> Ids \cup {0}]
    /\ pending \in [Ids -> Requests \cup {None}]
    /\ chan \in [Requests -> {"open", "value", "dropped"}]
    /\ got \in [Requests -> Requests \cup {None}]
    /\ asked \in SUBSET Requests
    /\ link \in {"up", "closed", "clearing", "down"}
    /\ todo \in SUBSET Ids

\* The pending table does not leak: no outcome of a call (answer, timeout,
\* send error, disconnect, in any interleaving, also when ids have wrapped and
\* collide) leaves the sender of a finished call behind in pending_requests.
NoLeakedEntry ==
    \A i \in Ids : pending[i] # None =>
        /\ pc[pending[i]] \in {"send", "unsent", "wait", "expired"}
        /\ id[pending[i]] = i

\* Until all MaxId ids have been handed out and the first is used again, a
\* caller is only ever given the answer to its own request: an answer that
\* comes after the timeout, or over a later connection, finds no entry of
\* another call.  (The comment on next_request_id states the exception.)
OwnAnswer == ~wrapped => \A r \in Requests : got[r] \in {None, r}

\* A lost connection is not waited out: once on_gateway_disconnected has run,
\* no caller is still waiting for an answer that it could only time out on,
\* though callers insert and send concurrently with the clearing.
NoWaitAcrossDisconnect ==
    link = "down" => \A r \in Requests : pc[r] = "wait" => chan[r] # "open"

\* Every call ends, whatever becomes of the answer and of the connection.
EveryCallEnds == \A r \in Requests : pc[r] = "insert" ~> pc[r] = "done"

=============================================================================
