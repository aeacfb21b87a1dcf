---------------------------- MODULE FrameStream ----------------------------
(***************************************************************************)
(* Frames over a byte stream, one direction of a connection between the    *)
(* gateway and a backend.  The sender's queue is written a piece at a time *)
(* and TCP delivers pieces cut anywhere; three readers put the frames      *)
(* together again:                                                         *)
(*   "yasio"   the battle server's event loop, one packet per call of      *)
(*             do_read, from a receive buffer smaller than a packet;       *)
(*   "client"  the Rust backends' GatewayClient, which reads the answer to *)
(*             its registration with one loop and the rest with another;   *)
(*   "server"  the gateway's poll_read.                                    *)
(* A byte is its frame and its position in it.                             *)
(***************************************************************************)
EXTENDS Naturals, Sequences, FiniteSetsExt, SequencesExt

CONSTANTS
    LenSize,    \* bytes of the length field, which yasio strips (4)
    HeaderSize, \* bytes of the header, length field included (15)
    MaxLen,     \* the largest frame a reader takes (1 MiB)
    RdSize,     \* yasio's receive buffer (64 KiB)
    Lens,       \* lengths of the frames that are sent
    MaxFlight,  \* frames sent and not handed over, a ping not counted
    MaxWire,    \* bytes the kernels hold
    None

ASSUME StreamAssumptions ==
    /\ LenSize \in Nat /\ HeaderSize \in Nat /\ MaxLen \in Nat
    /\ RdSize \in Nat /\ MaxFlight \in Nat /\ MaxWire \in Nat \ {0}
    /\ 0 < LenSize /\ LenSize < HeaderSize /\ HeaderSize <= MaxLen
    /\ LenSize < RdSize
    /\ Lens \subseteq Nat \ {0}

VARIABLES
    reader,     \* which of the readers this is
    queue,      \* frames sent and neither handed over nor lost
    answer,     \* the gateway's ServerRegResp has been sent
    sendq, off, \* send_queue_, and how much of its head has been written
    wire,       \* bytes written and not read
    fin,        \* the sender has closed its end
    buf,        \* the receive buffer, up to offset_
    size, pkt,  \* expected_size_ (0 for its -1) and expected_packet_
    phase,      \* of a Rust reader: "register", "read", or "extract" (which loops)
    got,        \* the last frame handed over (its id)
    open        \* the receiver has not closed

sender   == <<answer, sendq, off, fin>>
receiver == <<buf, size, pkt, phase, got>>
vars     == <<reader, queue, sender, wire, receiver, open>>

Ids    == 1 .. MaxFlight + 2
Frames == [id : Ids, len : Lens \cup {HeaderSize}, kind : {"data", "resp", "ping"}]
Good   == {f \in Frames : HeaderSize <= f.len /\ f.len <= MaxLen}

\* encodeBackendFrame, encode_frame: the length comes first and counts itself.
\* (The field is there whatever length it states.)
Bytes(f) == [k \in 1 .. Max({f.len, LenSize}) |-> <<f, k>>]

Init ==
    /\ reader \in {"yasio", "client", "server"}
    /\ queue = <<>> /\ answer = FALSE
    /\ sendq = <<>> /\ off = 0 /\ wire = <<>> /\ fin = FALSE
    /\ buf = <<>> /\ size = 0 /\ pkt = <<>>
    /\ phase = IF reader = "client" THEN "register" ELSE "read"
    /\ got = None /\ open = TRUE

----------------------------------------------------------------------------
(* The sender *)

Send(len, kind) ==
    LET used == {queue[i].id : i \in DOMAIN queue} \cup {got}
        f    == [id |-> CHOOSE i \in Ids : i \notin used, len |-> len, kind |-> kind]
    IN /\ open /\ ~fin
       /\ queue' = Append(queue, f)
       /\ sendq' = Append(sendq, f)
       /\ UNCHANGED <<reader, off, wire, fin, receiver, open>>

SendData(len) ==
    /\ Len(queue) < MaxFlight
    /\ Send(len, "data")
    /\ UNCHANGED answer

\* The gateway may have sent frames to a registered backend before it answers
\* the registration itself.
SendAnswer ==
    /\ reader = "client" /\ ~answer
    /\ Len(queue) < MaxFlight
    /\ Send(HeaderSize, "resp")
    /\ answer' = TRUE

Pings == {i \in DOMAIN queue : queue[i].kind = "ping"}

\* The heartbeat task: a ping unless one is pending.  (To the other readers it
\* is a frame like any other.)
SendPing ==
    /\ reader = "client" /\ Pings = {}
    /\ Send(HeaderSize, "ping")
    /\ UNCHANGED answer

\* call_write: `n` more bytes of the head of the queue, which leaves it when
\* all are written.
CallWrite(n) ==
    /\ wire' = wire \o SubSeq(Bytes(Head(sendq)), off + 1, off + n)
    /\ IF off + n = Len(Bytes(Head(sendq)))
       THEN sendq' = Tail(sendq) /\ off' = 0
       ELSE sendq' = sendq /\ off' = off + n

Write ==
    /\ open /\ sendq # <<>>
    /\ Len(wire) < MaxWire
    /\ \E n \in 1 .. Min({MaxWire - Len(wire), Len(Bytes(Head(sendq))) - off}) : CallWrite(n)
    /\ UNCHANGED <<reader, queue, answer, fin, receiver, open>>

\* The sender closes: frames still queued are dropped, and bytes on their way
\* may be lost as well.
SenderCloses ==
    /\ open /\ ~fin
    /\ fin' = TRUE
    /\ sendq' = <<>> /\ off' = 0
    /\ wire' \in {wire, <<>>}
    /\ UNCHANGED <<reader, queue, answer, receiver, open>>

\* HEARTBEAT_TIMEOUT: a pending ping was not answered.
HeartbeatTimeout ==
    /\ reader = "client" /\ Pings # {}
    /\ SenderCloses

----------------------------------------------------------------------------
(* The readers *)

\* The length at the start of `b`; bytes that do not make up the length field
\* of one frame would be read as some other number.
Length(b) ==
    LET f == Head(b)[1]
    IN IF SubSeq(b, 1, LenSize) = SubSeq(Bytes(f), 1, LenSize) THEN f.len ELSE MaxLen + 1

\* The limit is not enforced.
DecodeLen_NoLimit(b) ==
    IF Len(b) < LenSize THEN [ok |-> TRUE, len |-> 0]
    ELSE [ok |-> TRUE, len |-> Length(b)]

\* The length field may not reach the limit.
DecodeLen_Below(b) ==
    IF Len(b) < LenSize THEN [ok |-> TRUE, len |-> 0]
    ELSE IF Length(b) >= MaxLen THEN [ok |-> FALSE, len |-> 0]
    ELSE [ok |-> TRUE, len |-> Length(b)]

\* __builtin_decode_len: 0 when the length field is not there yet.
DecodeLen(b) ==
    IF Len(b) < LenSize THEN [ok |-> TRUE, len |-> 0]
    ELSE IF Length(b) > MaxLen THEN [ok |-> FALSE, len |-> 0]
    ELSE [ok |-> TRUE, len |-> Length(b)]

Close ==
    /\ open' = FALSE
    /\ queue' = <<>> /\ wire' = <<>>
    /\ sendq' = <<>> /\ off' = 0
    /\ UNCHANGED <<reader, answer, fin, receiver>>

\* The frame whose body `b` is (its id), if it is one frame's.
FrameOf(b) ==
    LET f == Head(b)[1]
    IN IF b = SubSeq(Bytes(f), LenSize + 1, f.len) THEN f.id ELSE None

\* A body is measured against the header with its length field.
OnRecvFrame_WholeHeader(body) ==
    /\ queue' = Tail(queue)
    /\ got' = IF Len(body) < HeaderSize THEN got ELSE FrameOf(body)

\* onRecvFrame, decodeBackendFrameBody: a body too short is dropped.  The
\* frame that was at the head of the queue is no longer in flight.
OnRecvFrame(body) ==
    /\ queue' = Tail(queue)
    /\ got' = IF Len(body) < HeaderSize - LenSize THEN got ELSE FrameOf(body)

\* A packet that is complete is handed over with all that follows it.
Unpack_KeepsRest(b, length, want, strip) ==
    LET body == pkt \o SubSeq(b, strip + 1, Min({want, Len(b)}))
    IN IF Len(b) >= want
       THEN /\ OnRecvFrame(body)
            /\ buf' = IF Len(b) > want THEN b ELSE <<>>
            /\ size' = 0 /\ pkt' = <<>>
       ELSE /\ pkt' = body /\ buf' = <<>>
            /\ size' = length
            /\ UNCHANGED <<queue, got>>

\* unpack: `want` bytes of `b` go to the packet of `length` bytes, but for the
\* first `strip`; the bytes after them stay in the buffer.
Unpack(b, length, want, strip) ==
    LET body == pkt \o SubSeq(b, strip + 1, Min({want, Len(b)}))
    IN IF Len(b) >= want
       THEN /\ OnRecvFrame(body)
            /\ buf' = SubSeq(b, want + 1, Len(b))
            /\ size' = 0 /\ pkt' = <<>>
       ELSE /\ pkt' = body /\ buf' = <<>>
            /\ size' = length
            /\ UNCHANGED <<queue, got>>

\* io_service::do_read with `n` bytes from the socket.
DoRead(n) ==
    LET b == buf \o SubSeq(wire, 1, n)
        d == DecodeLen(b)
        Unpacked ==
            /\ wire' = SubSeq(wire, n + 1, Len(wire))
            /\ UNCHANGED <<reader, sender, phase, open>>
    IN \/ /\ size = 0 /\ d.ok /\ d.len = 0       \* header insufficient
          /\ buf' = b
          /\ UNCHANGED <<queue, got, size, pkt>>
          /\ Unpacked
       \/ /\ size = 0 /\ d.ok /\ d.len >= LenSize
          /\ Unpack(b, d.len, d.len, LenSize)
          /\ Unpacked
       \/ /\ size = 0                              \* invalid_packet
          /\ ~d.ok \/ d.len \in 1 .. LenSize - 1
          /\ Close
       \/ /\ size > 0                              \* an incomplete packet
          /\ Unpack(b, size, size - (Len(pkt) + LenSize), 0)
          /\ Unpacked

\* call_read: a socket that is not ready gives no bytes, and no bytes from one
\* that is mean the end of the stream, also when none were asked for.
YasioRead ==
    /\ reader = "yasio" /\ open
    /\ \/ \E n \in 0 .. Min({RdSize - Len(buf), Len(wire)}) : DoRead(n)
       \/ /\ IF wire = <<>> THEN fin ELSE Len(buf) = RdSize
          /\ Close

\* read_buf of read_loop, register_stream and poll_read.
RustRead ==
    /\ reader # "yasio" /\ open
    /\ phase \in {"register", "read"}
    /\ \/ /\ \E n \in 1 .. Len(wire) :
               /\ buf' = buf \o SubSeq(wire, 1, n)
               /\ wire' = SubSeq(wire, n + 1, Len(wire))
          /\ phase' = IF phase = "register" THEN "registering" ELSE "extract"
          /\ UNCHANGED <<reader, queue, sender, size, pkt, got, open>>
       \/ wire = <<>> /\ fin /\ Close

ReadAgain == IF phase = "registering" THEN "register" ELSE "read"

\* One frame is extracted per read.
AfterFrame_One(f) == "read"

\* The loop that reads the answer to the registration ends with it and leaves
\* what it has read beyond it in the buffer.
AfterFrame(f) == IF phase = "registering" /\ f.kind = "resp" THEN "read" ELSE phase

\* try_extract_frame, as its callers loop over it.
TryExtractFrame ==
    /\ reader # "yasio" /\ open
    /\ phase \in {"registering", "extract"}
    /\ \/ /\ Len(buf) < HeaderSize
          /\ phase' = ReadAgain
          /\ UNCHANGED <<reader, queue, sender, wire, buf, size, pkt, got, open>>
       \/ /\ Len(buf) >= HeaderSize
          /\ Length(buf) < HeaderSize \/ Length(buf) > MaxLen
          /\ Close
       \/ /\ Len(buf) >= HeaderSize
          /\ HeaderSize <= Length(buf) /\ Length(buf) <= MaxLen
          /\ IF Len(buf) < Length(buf)
             THEN phase' = ReadAgain /\ UNCHANGED <<queue, buf, got>>
             ELSE /\ got' = FrameOf(SubSeq(buf, LenSize + 1, Length(buf)))
                  /\ buf' = SubSeq(buf, Length(buf) + 1, Len(buf))
                  /\ queue' = Tail(queue)
                  /\ phase' = AfterFrame(Head(buf)[1])
          /\ UNCHANGED <<reader, sender, wire, size, pkt, open>>

----------------------------------------------------------------------------
Next ==
    \/ \E len \in Lens : SendData(len)
    \/ SendAnswer \/ SendPing \/ Write \/ SenderCloses \/ HeartbeatTimeout
    \/ YasioRead \/ RustRead \/ TryExtractFrame

\* Both ends run, and the gateway's heartbeat goes on.
Fairness ==
    /\ WF_vars(Write) /\ WF_vars(YasioRead)
    /\ WF_vars(RustRead) /\ WF_vars(TryExtractFrame)
    /\ WF_vars(SendPing) /\ WF_vars(HeartbeatTimeout)

Spec == Init /\ [][Next]_vars /\ Fairness

----------------------------------------------------------------------------
(* Properties *)

\* The type invariant.
TypeOK ==
    /\ reader \in {"yasio", "client", "server"}
    /\ Range(queue) \subseteq Frames /\ Len(queue) <= MaxFlight + 1
    /\ IsSuffix(sendq, queue)
    /\ off \in Nat
    /\ off # 0 => off < Len(Bytes(Head(sendq)))
    /\ phase \in {"register", "registering", "read", "extract"}
    /\ got \in Ids \cup {None}
    /\ size \in 0 .. MaxLen
    /\ answer \in BOOLEAN /\ fin \in BOOLEAN /\ open \in BOOLEAN

\* However the stream is cut, the readers hand over the frames that were sent,
\* whole and in order, and pass over or refuse none that is well formed.
Promise == INSTANCE FrameQueue
ImplementsFrameQueue == Promise!Spec

\* yasio takes a recv of no bytes for the end of the stream, so do_read must
\* never be called with a full buffer: leftovers, a length field that is cut in
\* two, and packets larger than the buffer leave room in it.
RoomToRead == reader = "yasio" => Len(buf) < RdSize

\* A reader closes at the end of the stream or at a frame that is not well
\* formed, and never at one that is.
ClosesForCause ==
    [][open /\ ~open' =>
        \/ fin /\ wire = <<>>
        \/ queue # <<>> /\ Head(queue) \notin Good]_vars

InFlight(i) == \E j \in DOMAIN queue : queue[j].id = i /\ queue[j] \in Good

\* No frame stays in a buffer for ever: frames read together with the answer to
\* the registration wait for the next bytes, which the next ping brings; and if
\* the ping is itself among them, the heartbeat's timeout ends the connection.
EveryFrameArrives == \A i \in Ids : InFlight(i) ~> ~InFlight(i)

============================================================================
