----------------------------- MODULE Heartbeat -----------------------------
(***************************************************************************)
(* One connection between the gateway and a backend: the session loop that *)
(* every connection runs in (net_session.rs), the heartbeat task and the   *)
(* handling of pongs (internal_listener.rs), and the registration and read *)
(* loop at the other end (gateway_client.rs).                              *)
(*                                                                         *)
(* The unit of time is HEARTBEAT_INTERVAL.  A step of the clock may come   *)
(* at any time, so tasks may be late by any amount.  Frames are kept in    *)
(* the order they were sent; a read takes any number of them.              *)
(***************************************************************************)
EXTENDS Integers, Sequences

CONSTANTS
    Timeout,    \* HEARTBEAT_TIMEOUT in intervals
    MaxPings,   \* bound on the pings of a connection
    MaxPushes   \* bound on the other frames the gateway sends

ASSUME TimeoutAssumption == Timeout \in Nat \ {0}
ASSUME PingsAssumption == MaxPings \in Nat
ASSUME PushesAssumption == MaxPushes \in Nat

VARIABLES
    conn,       \* the session loop: "open", "closing" or "closed"
    queue,      \* the WriterMessages that poll_write has not taken yet
    buf,        \* frames in poll_write's BufWriter
    writer,     \* poll_write: "recv" or "flush"
    down, up,   \* the two directions of the socket
    hb,         \* where the heartbeat task is
    slept,      \* its sleep is over
    nonce,      \* its last nonce
    now,        \* age of the pending ping when the task woke up
    pending,    \* HeartbeatState.pending, 0 for None
    age,        \* time since pending was sent, at most Timeout
    phase,      \* where the backend is
    inbuf,      \* frames left over in its read buffer
    pushes,     \* frames sent by other tasks of the gateway
    regAt,      \* nonce when ServerRegResp was queued, -1 before (history)
    ponged,     \* nonces whose pong was handled (history)
    timedOut    \* the heartbeat asked for the close (history)

gatewayVars == <<conn, queue, buf, writer>>
heartbeatVars == <<hb, slept, nonce, now, pending, age>>
backendVars == <<phase, inbuf>>
historyVars == <<pushes, regAt, ponged, timedOut>>
vars == <<gatewayVars, down, up, heartbeatVars, backendVars, historyVars>>

Nonces == 1..MaxPings
Frame(t, n) == [type |-> t, nonce |-> n]
Messages == [type : {"ping", "resp", "refuse", "push", "close"}, nonce : 0..MaxPings]
Replies == [type : {"reg", "pong"}, nonce : 0..MaxPings]

Init ==
    /\ conn = "open" /\ queue = <<>> /\ buf = <<>> /\ writer = "recv"
    /\ down = <<>> /\ up = <<>>
    /\ hb = "sleep" /\ slept = FALSE /\ nonce = 0 /\ now = 0
    /\ pending = 0 /\ age = 0
    /\ phase = "connected" /\ inbuf = <<>>
    /\ pushes = 0 /\ regAt = -1 /\ ponged = {} /\ timedOut = FALSE

\* tx.send: fails once the session loop has dropped the receiver.
Queue(m) == queue' = IF conn = "open" THEN Append(queue, m) ELSE queue

----------------------------------------------------------------------------
(* The heartbeat task: start_heartbeat *)

\* Time passes.
Tick ==
    /\ slept' = (slept \/ hb = "sleep")
    /\ age' = IF pending # 0 /\ age < Timeout THEN age + 1 ELSE age
    /\ UNCHANGED <<gatewayVars, down, up, hb, nonce, now, pending,
                   backendVars, historyVars>>

\* The sleep ends and the time is read.
HbWake ==
    /\ hb = "sleep" /\ slept
    /\ hb' = "check"
    /\ now' = age
    /\ UNCHANGED <<gatewayVars, down, up, slept, nonce, pending, age,
                   backendVars, historyVars>>

\* Mutant: only the time counts, also when the ping was acknowledged.
TimedOut_Acknowledged == now >= Timeout

\* HeartbeatState::timed_out at the time that was read.
TimedOut == pending # 0 /\ now >= Timeout

Sleep == hb' = "sleep" /\ slept' = FALSE

\* Mutant: a ping that is out makes the task sleep on before it looks at the
\* time.
HbCheck_PendingFirst ==
    /\ hb = "check"
    /\ IF pending # 0 THEN Sleep ELSE hb' = "mark" /\ UNCHANGED slept
    /\ UNCHANGED <<gatewayVars, down, up, nonce, now, pending, age,
                   backendVars, historyVars>>

\* Under the lock: close a silent connection, wait for a ping that is out, or
\* go on to the next ping.
HbCheck ==
    /\ hb = "check"
    /\ \/ /\ TimedOut
          /\ Queue(Frame("close", 0))
          /\ timedOut' = TRUE
          /\ hb' = "ended" /\ UNCHANGED slept
       \/ /\ ~TimedOut /\ pending # 0
          /\ Sleep
          /\ UNCHANGED <<queue, timedOut>>
       \/ /\ pending = 0
          /\ hb' = "mark"
          /\ UNCHANGED <<queue, timedOut, slept>>
    /\ UNCHANGED <<conn, buf, writer, down, up, nonce, now, pending, age,
                   backendVars, pushes, regAt, ponged>>

\* mark_sent, before the ping is sent.
HbMark ==
    /\ hb = "mark" /\ nonce < MaxPings
    /\ nonce' = nonce + 1
    /\ pending' = nonce' /\ age' = 0
    /\ hb' = "send"
    /\ UNCHANGED <<gatewayVars, down, up, slept, now, backendVars, historyVars>>

\* The ping is queued; without a receiver the task ends.
HbSend ==
    /\ hb = "send"
    /\ Queue(Frame("ping", nonce))
    /\ IF conn = "open" THEN Sleep ELSE hb' = "ended" /\ UNCHANGED slept
    /\ UNCHANGED <<conn, buf, writer, down, up, nonce, now, pending, age,
                   backendVars, historyVars>>

\* The abort of on_session_close takes effect where the task awaits.
HbAborted ==
    /\ conn = "closed"
    /\ hb \in {"sleep", "check", "mark"}
    /\ hb' = "ended"
    /\ UNCHANGED <<gatewayVars, down, up, slept, nonce, now, pending, age,
                   backendVars, historyVars>>

----------------------------------------------------------------------------
(* The session loop: net_session::run *)

\* Mutant: a frame is written and not flushed.
WriteFrame_NoFlush ==
    /\ conn = "open" /\ writer = "recv" /\ queue # <<>>
    /\ Head(queue).type # "close"
    /\ buf' = Append(buf, Head(queue))
    /\ queue' = Tail(queue)
    /\ UNCHANGED <<conn, writer, down, up, heartbeatVars, backendVars, historyVars>>

\* poll_write takes a frame and writes it to the buffer; the gateway asks for
\* a flush with every frame.
WriteFrame ==
    /\ conn = "open" /\ writer = "recv" /\ queue # <<>>
    /\ Head(queue).type # "close"
    /\ buf' = Append(buf, Head(queue))
    /\ queue' = Tail(queue)
    /\ writer' = "flush"
    /\ UNCHANGED <<conn, down, up, heartbeatVars, backendVars, historyVars>>

\* The buffer reaches the socket.
Flush ==
    /\ conn = "open" /\ writer = "flush"
    /\ down' = down \o buf
    /\ buf' = <<>>
    /\ writer' = "recv"
    /\ UNCHANGED <<conn, queue, up, heartbeatVars, backendVars, historyVars>>

\* A write or a flush fails, poll_read meets the end of the stream, or the
\* server shuts down: the select ends and drops both loops.
Break ==
    /\ conn = "open"
    /\ conn' = "closing"
    /\ queue' = <<>> /\ buf' = <<>> /\ writer' = "recv"
    /\ UNCHANGED <<down, up, heartbeatVars, backendVars, historyVars>>

\* poll_write takes a Close, which waits behind the frames before it.
TakeClose ==
    /\ conn = "open" /\ writer = "recv" /\ queue # <<>>
    /\ Head(queue).type = "close"
    /\ conn' = "closing"
    /\ queue' = <<>> /\ buf' = <<>>
    /\ UNCHANGED <<writer, down, up, heartbeatVars, backendVars, historyVars>>

\* on_session_close aborts the heartbeat task (the rest is in Gateway).
OnSessionClose ==
    /\ conn = "closing"
    /\ conn' = "closed"
    /\ UNCHANGED <<queue, buf, writer, down, up, heartbeatVars, backendVars,
                   historyVars>>

\* Frames of other tasks: broadcasts, forwards, replies.
Push ==
    /\ conn = "open" /\ pushes < MaxPushes
    /\ Queue(Frame("push", 0))
    /\ pushes' = pushes + 1
    /\ UNCHANGED <<conn, buf, writer, down, up, heartbeatVars, backendVars,
                   regAt, ponged, timedOut>>

\* poll_read hands the next frame to the delegate.
Receive(t) ==
    /\ conn = "open" /\ up # <<>> /\ Head(up).type = t
    /\ up' = Tail(up)

\* A ServerRegReq is answered (what it does to the registry is in Gateway).
HandleReg ==
    /\ Receive("reg")
    /\ \/ Queue(Frame("resp", 0)) /\ regAt' = nonce
       \/ Queue(Frame("refuse", 0)) /\ UNCHANGED regAt
    /\ UNCHANGED <<conn, buf, writer, down, heartbeatVars, backendVars,
                   pushes, ponged, timedOut>>

\* A pong clears the ping with its nonce (HeartbeatState::acknowledge).
HandlePong ==
    /\ Receive("pong")
    /\ ponged' = ponged \cup {Head(up).nonce}
    /\ pending' = IF pending = Head(up).nonce THEN 0 ELSE pending
    /\ UNCHANGED <<gatewayVars, down, hb, slept, nonce, now, age, backendVars,
                   pushes, regAt, timedOut>>

----------------------------------------------------------------------------
(* The backend: GatewayClient *)

\* register_stream sends the request.
Register ==
    /\ phase = "connected"
    /\ phase' = "register"
    /\ up' = Append(up, Frame("reg", 0))
    /\ UNCHANGED <<gatewayVars, down, heartbeatVars, inbuf, historyVars>>

\* read_buf: the reader waits for data and is given what has arrived, or the
\* first part of it.
ReadBuf(from, to) ==
    /\ phase = from
    /\ phase' = to
    /\ \E k \in 1..Len(down) :
        /\ inbuf' = inbuf \o SubSeq(down, 1, k)
        /\ down' = SubSeq(down, k + 1, Len(down))
    /\ UNCHANGED <<gatewayVars, up, heartbeatVars, historyVars>>

\* register_stream looks at the frames it has read.  Those ahead of the answer
\* are ignored, those after it stay in the buffer.
Scan ==
    /\ phase = "scan" /\ inbuf # <<>>
    /\ inbuf' = Tail(inbuf)
    /\ phase' = CASE Head(inbuf).type = "resp" -> "run"
                [] Head(inbuf).type = "refuse" -> "gone"
                [] OTHER -> IF Tail(inbuf) = <<>> THEN "register" ELSE "scan"
    /\ UNCHANGED <<gatewayVars, down, up, heartbeatVars, historyVars>>

\* read_loop handles every frame it has read, a ping with a pong.
Dispatch ==
    /\ phase = "dispatch" /\ inbuf # <<>>
    /\ inbuf' = Tail(inbuf)
    /\ up' = IF Head(inbuf).type = "ping"
             THEN Append(up, Frame("pong", Head(inbuf).nonce)) ELSE up
    /\ phase' = IF Tail(inbuf) = <<>> THEN "run" ELSE "dispatch"
    /\ UNCHANGED <<gatewayVars, down, heartbeatVars, historyVars>>

\* register_stream waits for the answer; read_loop waits for more data, also
\* when frames are left over from the registration.
RegisterRead == ReadBuf("register", "scan")
Read == ReadBuf("run", "dispatch")

\* The backend drops the connection, or its registration times out.
Drop ==
    /\ phase # "gone"
    /\ phase' = "gone"
    /\ UNCHANGED <<gatewayVars, down, up, heartbeatVars, inbuf, historyVars>>

----------------------------------------------------------------------------
HeartbeatStep == HbWake \/ HbCheck \/ HbMark \/ HbSend \/ HbAborted
WriterStep == WriteFrame \/ Flush \/ TakeClose

Next ==
    \/ Tick \/ HeartbeatStep
    \/ WriterStep \/ Break \/ OnSessionClose
    \/ Push \/ HandleReg \/ HandlePong
    \/ Register \/ RegisterRead \/ Scan \/ Read \/ Dispatch \/ Drop

Spec == Init /\ [][Next]_vars

\* Time passes, the tasks of the gateway are polled and writes to the socket
\* end; nothing is assumed of the backend.
Fairness ==
    /\ WF_vars(Tick)
    /\ WF_vars(HeartbeatStep)
    /\ WF_vars(WriterStep)
    /\ WF_vars(OnSessionClose)

FairSpec == Spec /\ Fairness

----------------------------------------------------------------------------
(* Properties *)

\* The type invariant.
TypeOK ==
    /\ conn \in {"open", "closing", "closed"}
    /\ queue \in Seq(Messages) /\ buf \in Seq(Messages)
    /\ writer \in {"recv", "flush"}
    /\ down \in Seq(Messages) /\ up \in Seq(Replies)
    /\ hb \in {"sleep", "check", "mark", "send", "ended"}
    /\ slept \in BOOLEAN
    /\ nonce \in 0..MaxPings
    /\ now \in 0..Timeout
    /\ pending \in 0..nonce
    /\ age \in 0..Timeout
    /\ phase \in {"connected", "register", "scan", "run", "dispatch", "gone"}
    /\ inbuf \in Seq(Messages)
    /\ pushes \in 0..MaxPushes
    /\ regAt \in -1..nonce
    /\ ponged \subseteq 0..nonce
    /\ timedOut \in BOOLEAN

Has(s, m) == \E i \in 1..Len(s) : s[i] = m

\* A ping n, or the pong to it, is somewhere on its way.
Underway(n) ==
    \/ Has(queue, Frame("ping", n))
    \/ writer = "flush" /\ Has(buf, Frame("ping", n))
    \/ Has(down, Frame("ping", n)) \/ Has(inbuf, Frame("ping", n))
    \/ Has(up, Frame("pong", n))

\* While a ping is pending no other is sent, so a ping that got lost would
\* cost a healthy backend its connection.  None is lost that is sent after
\* the ServerRegResp: it, or its pong, is on its way until it is acknowledged.
\* (A ping ahead of the ServerRegResp is ignored by register_stream.)
PingUnderway ==
    /\ conn = "open" /\ phase # "gone"
    /\ regAt # -1 /\ pending > regAt /\ hb # "send"
    => Underway(pending)

\* The heartbeat closes a connection only over a ping whose pong has not been
\* handled, however the pong, the lock and the clock interleave.
AnsweredNotClosed == [][timedOut' # timedOut => nonce \notin ponged]_vars

\* A backend that does not answer loses its connection: every ping is
\* acknowledged or the session ends, also when frames wait ahead of the Close.
SilentPeerClosed == pending # 0 ~> (pending = 0 \/ conn = "closed")

============================================================================
