--------------------------- MODULE BattleProcess ---------------------------
(***************************************************************************)
(* The battle server as a process: main, BattleServer's start and stop,    *)
(* BackendClient's connection, and the yasio event loop below them.        *)
(*                                                                         *)
(* The main thread runs one loop: wait for the sockets, then transports,   *)
(* channels, timers, and last the events these queued (the callbacks).  So *)
(* what the client believes lags behind what the loop did.  A signal runs  *)
(* the handler, and with it BattleServer::shutdown, between any two steps  *)
(* of the main thread; the resolver, the network and the gateway act at    *)
(* any time.                                                               *)
(***************************************************************************)
EXTENDS Naturals, Sequences, SequencesExt

CONSTANTS
    MaxSignals,     \* signals the process is sent
    MaxWire         \* packets the gateway has sent and the loop has not delivered

ASSUME ProcessAssumptions == MaxSignals \in Nat /\ MaxWire \in Nat

VARIABLES
    pc,         \* where the main thread is
    caught,     \* signals handled
    first,      \* what the first signal interrupted: the start, the loop, the exit
    srv,        \* BattleServer::m_running
    present,    \* BattleServer::m_roomManager is not null
    cli,        \* BackendClient::m_running
    st,         \* BackendClient::m_state
    handle,     \* BackendClient::m_transport is not null
    answered,   \* the client has handled a ServerRegResp
    told,       \* the last open or close event the client has handled
    stop,       \* io_service::stop_flag_
    chan,       \* the one io_channel
    dns,        \* the gateway's address: "known", a "name", "asked" or "unknown"
    tr,         \* the io_transport: "none", "open", or "closing" (YOPM_CLOSE)
    reg,        \* the ServerRegReq: "unsent", "queued" or "sent"
    buf,        \* packets read into the transport's buffer and not delivered
    timers,     \* timer_queue_
    elapsed,    \* timers whose time has come
    due,        \* those of them at current_time_, taken as the iteration began
    ready,      \* what the last poll_io reported: "connect", "read"
    events,     \* events_, queued for dispatch
    sock,       \* the connection attempt, as the kernel sees it
    wire,       \* packets on their way from the gateway
    peer        \* the gateway's end of the connection: "up" or "closed"

client  == <<cli, st, handle, answered, told, present, srv>>
service == <<stop, chan, tr, reg, buf, timers, due, ready, events>>
world   == <<dns, elapsed, sock, wire, peer>>
vars    == <<pc, caught, first, client, service, world>>

Starting == {"init", "run", "opening", "starting"}
Looping  == {"poll", "transports", "channels", "timers", "dispatch"}
Timers   == {"tick", "rpc", "connect"}
Packets  == {"regok", "regbad", "gameoff", "frame"}

Init ==
    /\ pc = "init" /\ caught = 0 /\ first = "none"
    /\ srv = FALSE /\ present = TRUE /\ cli = FALSE
    /\ st = "Disconnected" /\ handle = FALSE /\ answered = FALSE /\ told = "none"
    /\ stop = FALSE
    /\ chan = [state |-> "CLOSED", op |-> {}, error |-> "none", queued |-> FALSE]
    /\ dns \in {"known", "name"}
    /\ tr = "none" /\ reg = "unsent" /\ buf = <<>>
    /\ timers = {} /\ elapsed = {} /\ due = {} /\ ready = {} /\ events = <<>>
    /\ sock = "none" /\ wire = <<>> /\ peer = "up"

----------------------------------------------------------------------------
(* io_service::stop and BattleServer::shutdown *)

\* The service is told to stop but the flag the loop looks at is not set.
ServiceStop_NoFlag ==
    /\ stop' = stop
    /\ chan' = chan

\* stop: nothing while the service is IDLE; otherwise the flag, and the channel
\* is closed if its socket is open.
ServiceStop ==
    IF pc \in Starting \/ stop
    THEN UNCHANGED <<stop, chan>>
    ELSE /\ stop' = TRUE
         /\ chan' = [chan EXCEPT
                !.op = IF chan.state \in {"CONNECTING", "OPENED"}
                       THEN {"close"} ELSE @ \ {"open"}]

\* closeTransport: the handle may be that of a transport the loop has closed
\* already, whose event is still queued; the mark it gets then has no effect.
CloseTransport ==
    /\ handle' = FALSE
    /\ tr' = IF handle /\ tr = "open" THEN "closing" ELSE tr

\* BackendClient::stop.
ClientStop ==
    IF cli
    THEN /\ cli' = FALSE
         /\ CloseTransport
         /\ ServiceStop
         /\ st' = "Disconnected"
    ELSE UNCHANGED <<cli, handle, tr, stop, chan, st>>

\* BattleServer::shutdown.
Shutdown == srv' = FALSE /\ ClientStop

\* handleConnectionFailure does not stop the loop.
HandleConnectionFailure_LoopGoesOn == cli' = FALSE /\ UNCHANGED <<stop, chan>>

\* handleConnectionFailure.
HandleConnectionFailure ==
    IF cli THEN cli' = FALSE /\ ServiceStop
           ELSE UNCHANGED <<cli, stop, chan>>

----------------------------------------------------------------------------
(* main, BattleServer::run, BackendClient::start *)

\* BattleServer::init fails: main returns.
InitFails ==
    /\ pc = "init"
    /\ pc' = "aborted"
    /\ UNCHANGED <<caught, first, client, service, world>>

\* BattleServer::run up to BackendClient::start.
Run ==
    /\ pc = "init"
    /\ pc' = "run"
    /\ srv' = TRUE
    /\ timers' = {"tick"}
    /\ UNCHANGED <<caught, first, cli, st, handle, answered, told, present, stop, chan,
                   tr, reg, buf, due, ready, events, world>>

\* BackendClient::start up to openConnection.
Start ==
    /\ pc = "run"
    /\ pc' = "opening"
    /\ cli' = TRUE
    /\ timers' = timers \cup {"rpc"}
    /\ UNCHANGED <<caught, first, srv, st, handle, answered, told, present, stop, chan,
                   tr, reg, buf, due, ready, events, world>>

\* openConnection, which a client that was stopped meanwhile skips.
OpenConnection ==
    /\ pc = "opening"
    /\ pc' = "starting"
    /\ IF cli
       THEN /\ st' = "Connecting"
            /\ chan' = [chan EXCEPT !.op = {"open"}, !.queued = TRUE]
       ELSE UNCHANGED <<st, chan>>
    /\ UNCHANGED <<caught, first, srv, cli, handle, answered, told, present, stop,
                   tr, reg, buf, timers, due, ready, events, world>>

\* io_service::start: the service is RUNNING from here on.
ServiceStart ==
    /\ pc = "starting"
    /\ pc' = "poll"
    /\ UNCHANGED <<caught, first, client, service, world>>

----------------------------------------------------------------------------
(* The event loop *)

\* The loop ends without waiting for the transport to be closed.
LoopTest_StopOnly == IF stop THEN "exiting" ELSE "poll"

\* while (!stop_flag_ || !transports_.empty())
LoopTest == IF ~stop \/ tr # "none" THEN "poll" ELSE "exiting"

Readable == (IF sock \in {"ok", "refused"} THEN {"connect"} ELSE {})
                \cup (IF wire # <<>> \/ peer = "closed" THEN {"read"} ELSE {})

\* current_time_ is taken; with a timer due (or packets left in the buffer) the
\* wait is zero, poll_io is not called, and what it last reported stands.
Poll ==
    /\ pc = "poll"
    /\ pc' = "transports"
    /\ due' = elapsed \cap timers
    /\ ready' = IF due' # {} \/ buf # <<>> THEN ready ELSE Readable
    /\ UNCHANGED <<caught, first, client, stop, chan, tr, reg, buf, timers, events, world>>

\* do_read: what the socket has (`n` packets of it) is added to the buffer, and
\* one packet is delivered.  The end of the stream discards the buffer.
Read(n) ==
    IF "read" \notin ready
    THEN [eof |-> FALSE, buf |-> buf, wire |-> wire]
    ELSE [eof |-> wire = <<>> /\ peer = "closed",
          buf |-> buf \o SubSeq(wire, 1, n), wire |-> SubSeq(wire, n + 1, Len(wire))]

\* Every packet of the buffer is delivered at once.
Unpack_All(b) == [events |-> events \o b, buf |-> <<>>]

\* unpack: at most one packet an iteration.
Unpack(b) ==
    IF b = <<>> THEN [events |-> events, buf |-> b]
                ELSE [events |-> Append(events, Head(b)), buf |-> Tail(b)]

\* handle_close queues no event for a connection that was told to close.
HandleClose_OnlyIfLost(ev) ==
    /\ events' = IF tr = "closing" THEN ev ELSE Append(ev, "close")
    /\ tr' = "none" /\ buf' = <<>> /\ wire' = <<>>
    /\ chan' = [chan EXCEPT !.state = "CLOSED", !.op = {}, !.error = "none"]

\* handle_close: the event is queued and the transport is destroyed at once.
HandleClose(ev) ==
    /\ events' = Append(ev, "close")
    /\ tr' = "none" /\ buf' = <<>> /\ wire' = <<>>
    /\ chan' = [chan EXCEPT !.state = "CLOSED", !.op = @ \ {"close"}, !.error = "none"]

\* process_transports: read, write one queued frame, then close if anyone asked
\* for it.  Writing to a connection the gateway has closed may fail.
Transports(n, broken) ==
    LET got == Read(n)
        out == Unpack(got.buf)
    IN /\ pc = "transports"
       /\ pc' = "channels"
       /\ IF tr = "none"
          THEN UNCHANGED <<tr, chan, buf, reg, events, wire>>
          ELSE IF got.eof
          THEN HandleClose(events) /\ UNCHANGED reg
          ELSE /\ reg' = IF reg = "queued" /\ ~broken THEN "sent" ELSE reg
               /\ IF broken \/ tr = "closing" \/ chan.op # {} \/ stop
                  THEN HandleClose(out.events)
                  ELSE /\ events' = out.events /\ buf' = out.buf /\ wire' = got.wire
                       /\ UNCHANGED <<tr, chan>>
       /\ UNCHANGED <<caught, first, client, stop, timers, due, ready, dns, elapsed,
                      sock, peer>>

\* handle_connect_succeed: the channel keeps a close it was asked for.
ConnectSucceeds(c) ==
    /\ chan' = [c EXCEPT !.state = "OPENED", !.error = "none", !.queued = FALSE]
    /\ tr' = "open"
    /\ events' = Append(events, "open")

\* handle_connect_failed.
ConnectFails(c) ==
    /\ chan' = [c EXCEPT !.state = "CLOSED", !.op = {}, !.error = "none",
                         !.queued = FALSE]
    /\ tr' = tr
    /\ events' = Append(events, "fail")

\* timer_.cancel() of the connect timer is left out.
CancelConnectTimer_Not == timers

\* timer_.cancel() of the connect timer: nothing if it has expired.
CancelConnectTimer == IF "connect" \in due THEN timers ELSE timers \ {"connect"}

\* do_resolve and do_connect of a channel that is to open.
Resolve(c) ==
    /\ c.state = "RESOLVING"
    /\ \/ /\ dns = "name"                         \* start_query
          /\ c.error = "none"
          /\ chan' = [c EXCEPT !.error = "progress"]
          /\ dns' = "asked"
          /\ UNCHANGED <<tr, events, timers, elapsed, sock>>
       \/ /\ dns = "asked" /\ c.error = "progress"
          /\ chan' = c
          /\ UNCHANGED <<dns, tr, events, timers, elapsed, sock>>
       \/ /\ c.error = "failed"                   \* the query failed
          /\ ConnectFails(c)
          /\ UNCHANGED <<dns, timers, elapsed, sock>>
       \/ /\ dns = "known"                        \* do_connect
          /\ \/ /\ chan' = [c EXCEPT !.state = "CONNECTING", !.error = "progress"]
                /\ timers' = timers \cup {"connect"}
                /\ elapsed' = elapsed \ {"connect"}
                /\ sock' = "pending"
                /\ UNCHANGED <<tr, events>>
             \/ /\ ConnectFails(c) \/ ConnectSucceeds(c)
                /\ UNCHANGED <<timers, elapsed, sock>>
          /\ dns' = dns

\* do_connect_completion.
ConnectCompletion ==
    /\ chan.state = "CONNECTING"
    /\ IF "connect" \in ready
       THEN /\ \/ sock = "ok" /\ ConnectSucceeds(chan)
               \/ sock = "refused" /\ ConnectFails(chan)
            /\ timers' = CancelConnectTimer
            /\ elapsed' = elapsed \cap timers'
            /\ sock' = "none"
       ELSE UNCHANGED <<chan, tr, events, timers, elapsed, sock>>
    /\ UNCHANGED dns

\* A channel that a timeout or a close left behind leaves channel_ops_.
ChannelIdle ==
    /\ chan.state \in {"CLOSED", "OPENED"} /\ "open" \notin chan.op
    /\ chan' = [chan EXCEPT !.queued = (chan.error = "progress")]
    /\ UNCHANGED <<dns, tr, events, timers, elapsed, sock>>

\* process_channels.
Channels ==
    /\ pc = "channels"
    /\ pc' = "timers"
    /\ IF ~chan.queued
       THEN UNCHANGED <<chan, dns, tr, events, timers, elapsed, sock>>
       ELSE \/ Resolve(IF "open" \in chan.op
                       THEN [chan EXCEPT !.op = @ \ {"open"}, !.state = "RESOLVING"]
                       ELSE chan)
            \/ "open" \notin chan.op /\ ConnectCompletion
            \/ ChannelIdle
    /\ UNCHANGED <<caught, first, client, stop, reg, buf, due, ready, wire, peer>>

\* process_timers: a callback that returns true is not scheduled again.
RunTimers ==
    LET expired == due \cap timers
        again   == {t \in expired : (t = "tick" /\ srv) \/ (t = "rpc" /\ cli)}
    IN /\ pc = "timers"
       /\ pc' = "dispatch"
       /\ timers' = (timers \ expired) \cup again
       /\ elapsed' = elapsed \ expired
       /\ IF "connect" \in expired /\ chan.state # "OPENED"
          THEN /\ chan' = [chan EXCEPT !.state = "CLOSED", !.op = {}, !.error = "none"]
               /\ events' = Append(events, "fail")
               /\ sock' = "none"
          ELSE UNCHANGED <<chan, events, sock>>
       /\ due' = {}
       /\ UNCHANGED <<caught, first, client, stop, tr, reg, buf, ready, dns, wire, peer>>

----------------------------------------------------------------------------
(* handleNetworkEvent *)

\* YEK_ON_OPEN, status 0: the registration request is queued.
OnOpen ==
    /\ handle' = TRUE
    /\ st' = "Connected"
    /\ told' = "open"
    /\ reg' = IF tr = "none" THEN reg ELSE "queued"
    /\ UNCHANGED <<srv, cli, present, answered, stop, chan, tr>>

\* YEK_ON_OPEN with an error.
OnOpenFailed ==
    /\ handle' = FALSE
    /\ st' = "Disconnected"
    /\ told' = "fail"
    /\ HandleConnectionFailure
    /\ UNCHANGED <<srv, present, answered, reg, tr>>

\* onDisconnected shuts down but keeps the rooms.
OnClose_KeepsRooms ==
    /\ handle' = FALSE
    /\ st' = "Disconnected"
    /\ told' = "close"
    /\ srv' = FALSE
    /\ HandleConnectionFailure
    /\ UNCHANGED <<present, answered, reg, tr>>

\* YEK_ON_CLOSE: onDisconnected drops the rooms and shuts down.
OnClose ==
    /\ handle' = FALSE
    /\ st' = "Disconnected"
    /\ told' = "close"
    /\ present' = FALSE
    /\ srv' = FALSE
    /\ HandleConnectionFailure
    /\ UNCHANGED <<answered, reg, tr>>

\* YEK_ON_PACKET before the registration: only a ServerRegResp counts.
OnPreRegistration(p) ==
    /\ st # "Registered"
    /\ \/ /\ p = "regok"
          /\ st' = "Registered"
          /\ answered' = TRUE
          /\ UNCHANGED <<cli, handle, tr, stop, chan>>
       \/ /\ p = "regbad"
          /\ st' = "Disconnected"
          /\ answered' = TRUE
          /\ CloseTransport
          /\ HandleConnectionFailure
       \/ /\ p \notin {"regok", "regbad"}
          /\ UNCHANGED <<st, answered, cli, handle, tr, stop, chan>>
    /\ UNCHANGED <<srv, present, told, reg>>

\* YEK_ON_PACKET after it.  Frames other than the game server's going offline
\* are module BattleRooms' business.
OnFrame(p) ==
    /\ st = "Registered"
    /\ IF p = "gameoff" THEN Shutdown
                        ELSE UNCHANGED <<srv, cli, handle, tr, stop, chan, st>>
    /\ UNCHANGED <<present, answered, told, reg>>

\* dispatch of one event, in the loop or in handle_stop after it.
Dispatch ==
    /\ pc \in {"dispatch", "exiting"}
    /\ events # <<>>
    /\ events' = Tail(events)
    /\ LET e == Head(events)
       IN \/ e = "open" /\ OnOpen
          \/ e = "fail" /\ OnOpenFailed
          \/ e = "close" /\ OnClose
          \/ e \in Packets /\ (OnPreRegistration(e) \/ OnFrame(e))
    /\ UNCHANGED <<pc, caught, first, buf, timers, due, ready, world>>

Dispatched ==
    /\ pc = "dispatch"
    /\ events = <<>>
    /\ pc' = LoopTest
    /\ UNCHANGED <<caught, first, client, service, world>>

\* handle_stop: transports and timers are cleared, start and run return.
Exit ==
    /\ pc = "exiting"
    /\ events = <<>>
    /\ pc' = "ended"
    /\ tr' = "none" /\ timers' = {}
    /\ UNCHANGED <<caught, first, client, stop, chan, reg, buf, due, ready, events, world>>

----------------------------------------------------------------------------
(* Signals, time, the resolver thread, the network and the gateway *)

\* signalHandler.  It may interrupt poll_io, and the iteration with it.
Signal ==
    /\ caught < MaxSignals
    /\ pc \notin {"ended", "aborted"}
    /\ caught' = caught + 1
    /\ first' = IF caught > 0 THEN first
                ELSE CASE pc \in Starting -> "start"
                       [] pc \in Looping -> "loop"
                       [] OTHER -> "exit"
    /\ Shutdown
    /\ \/ pc' = pc
       \/ pc = "poll" /\ pc' = IF ~stop' \/ tr' # "none" THEN "poll" ELSE "exiting"
    /\ UNCHANGED <<answered, told, present, reg, buf, timers, due, ready, events, world>>

Elapse(t) ==
    /\ t \in timers \ elapsed
    /\ elapsed' = elapsed \cup {t}
    /\ UNCHANGED <<pc, caught, first, client, service, dns, sock, wire, peer>>

\* The query thread, which writes the channel without a lock.
Resolved ==
    /\ dns = "asked"
    /\ \/ dns' = "known" /\ chan' = chan
       \/ dns' = "unknown" /\ chan' = [chan EXCEPT !.error = "failed"]
    /\ pc # "ended"
    /\ UNCHANGED <<pc, caught, first, client, stop, tr, reg, buf, timers, due, ready,
                   events, elapsed, sock, wire, peer>>

Network ==
    /\ sock = "pending"
    /\ sock' \in {"ok", "refused"}
    /\ UNCHANGED <<pc, caught, first, client, service, dns, elapsed, wire, peer>>

\* The gateway answers the registration once, and sends frames after that.
GatewaySends(p) ==
    /\ tr # "none" /\ reg = "sent" /\ peer = "up"
    /\ Len(wire \o buf) < MaxWire
    /\ p \in {"regok", "regbad"} <=>
         ~answered /\ \A q \in Range(wire \o buf \o events) : q \notin {"regok", "regbad"}
    /\ wire' = Append(wire, p)
    /\ UNCHANGED <<pc, caught, first, client, service, dns, elapsed, sock, peer>>

GatewayCloses ==
    /\ tr # "none" /\ peer = "up"
    /\ peer' = "closed"
    /\ UNCHANGED <<pc, caught, first, client, service, dns, elapsed, sock, wire>>

----------------------------------------------------------------------------
MainThread ==
    \/ InitFails \/ Run \/ Start \/ OpenConnection \/ ServiceStart
    \/ Poll
    \/ \E n \in 0 .. Len(wire), broken \in BOOLEAN :
            /\ n = 0 <=> wire = <<>>
            /\ broken => peer = "closed"
            /\ Transports(n, broken)
    \/ Channels \/ RunTimers
    \/ Dispatch \/ Dispatched \/ Exit

Next ==
    \/ MainThread
    \/ Signal
    \/ \E t \in Timers : Elapse(t)
    \/ Resolved \/ Network \/ GatewayCloses
    \/ \E p \in Packets : GatewaySends(p)

\* The main thread runs, time passes, and a query of a name returns.
Fairness ==
    /\ WF_vars(MainThread)
    /\ \A t \in Timers : WF_vars(Elapse(t))
    /\ WF_vars(Resolved)

Spec == Init /\ [][Next]_vars /\ Fairness

----------------------------------------------------------------------------
(* Properties *)

\* The type invariant.  An iteration queues at most two events, one of them a
\* packet, and dispatch empties the queue each time.
TypeOK ==
    /\ pc \in Starting \cup Looping \cup {"exiting", "ended", "aborted"}
    /\ caught \in 0 .. MaxSignals
    /\ srv \in BOOLEAN /\ present \in BOOLEAN /\ cli \in BOOLEAN
    /\ handle \in BOOLEAN /\ answered \in BOOLEAN /\ stop \in BOOLEAN
    /\ st \in {"Disconnected", "Connecting", "Connected", "Registered"}
    /\ told \in {"none", "open", "fail", "close"}
    /\ chan \in [state : {"CLOSED", "RESOLVING", "CONNECTING", "OPENED"},
                 op : SUBSET {"open", "close"},
                 error : {"none", "progress", "failed"}, queued : BOOLEAN]
    /\ dns \in {"known", "name", "asked", "unknown"}
    /\ tr \in {"none", "open", "closing"}
    /\ reg \in {"unsent", "queued", "sent"}
    /\ timers \in SUBSET Timers /\ elapsed \in SUBSET Timers /\ due \in SUBSET Timers
    /\ wire \in BoundedSeq(Packets, MaxWire)
    /\ Len(events) <= 2
    /\ pc \notin {"channels", "timers", "dispatch"} => events = <<>>

Pending(kind) == kind \in Range(events)

\* BackendClient tells connections apart by nothing but the order of events: it
\* handles one open (or one failure, and then nothing more), then packets, then
\* one close, though completion, timeout and close are found in three phases.
EventOrder ==
    /\ Pending("open") => told = "none" /\ ~Pending("fail")
    /\ Pending("fail") => told = "none" /\ tr = "none" /\ Len(events) = 1
    /\ Pending("close") => told = "open" /\ tr = "none" /\ Last(events) = "close"
    /\ \A p \in Packets : Pending(p) => told = "open"
    /\ told \in {"fail", "close"} => events = <<>> /\ tr = "none"

\* m_transport (sendFrame and closeTransport use it) is that of a transport the
\* loop has, or of one whose close event is queued and will clear it.
HandleNotStale == handle => tr # "none" \/ Pending("close")

\* The loop of a process that was connected does not end before onDisconnected
\* has run: no room outlives the connection, whoever closed it.
EndsAfterClose == pc = "ended" => told # "open"

\* A first signal that finds the event loop running ends the process, whatever
\* the connection is doing.
SignalWhileLooping == first = "loop" ~> pc = "ended"

\* A connection that is refused, times out or is lost ends the process, unless
\* a signal had already been handled before the loop ran.
LossEnds == (told \in {"fail", "close"} /\ first # "start") ~> pc = "ended"

\* main.cpp, signalHandler: "Received signal {}, shutting down".
SignalShutsDown == caught > 0 ~> pc \in {"ended", "aborted"}

\* What BattleRooms calls the link.
Link ==
    IF pc = "ended" \/ told \in {"fail", "close"} THEN "closed"
    ELSE IF told = "none" THEN IF stop THEN "stopping" ELSE "connecting"
    ELSE IF st = "Registered" THEN "registered"
    ELSE IF st = "Connected" THEN IF stop THEN "closing" ELSE "connected"
    ELSE IF answered THEN "closing" ELSE "leaving"

Rooms == INSTANCE BattleRooms WITH
    Sessions <- {}, Battles <- {0}, ZeroId <- 0, None <- 9,
    MaxRooms <- 1, MaxSessions <- 1, FrameMod <- 1,
    link <- Link, present <- present,
    running <- srv \/ pc \in {"init", "aborted"},
    client <- cli \/ pc \in {"init", "aborted", "run"},
    mgr <- [rooms |-> {}, slots |-> [b \in {0} |-> {}], routes |-> [s \in {} |-> 9]],
    online <- {}, acked <- [s \in {} |-> 9], frame <- [b \in {0} |-> 0], load <- TRUE,
    resp <- [code |-> 9, actor |-> 9, players |-> {}]

\* The connection half of BattleRooms is what this process does: the states of
\* the link, and the order in which the server is stopped and its rooms are
\* dropped, follow from the client and the event loop.
ImplementsBattleRooms == Rooms!Spec

============================================================================
