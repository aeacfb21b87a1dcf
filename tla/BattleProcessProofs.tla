------------------------ MODULE BattleProcessProofs ------------------------
(***************************************************************************)
(* Proofs about the battle server's process, for any number of signals and *)
(* of packets under way.                                                   *)
(*                                                                         *)
(* What the client believes lags behind what the event loop has done, so   *)
(* the invariant says, for each state of the channel and the transport,    *)
(* which events are still queued and what the client has been told.        *)
(***************************************************************************)
EXTENDS BattleProcess, SequenceTheorems, TLAPS

ChanType == [state : {"CLOSED", "RESOLVING", "CONNECTING", "OPENED"},
              op : SUBSET {"open", "close"},
              error : {"none", "progress", "failed"}, queued : BOOLEAN]

\* The type invariant in parts, with the buffer that TypeOK leaves out.
Flags ==
    /\ srv \in BOOLEAN /\ present \in BOOLEAN /\ cli \in BOOLEAN
    /\ handle \in BOOLEAN /\ answered \in BOOLEAN /\ stop \in BOOLEAN

States ==
    /\ pc \in Starting \cup Looping \cup {"exiting", "ended", "aborted"}
    /\ st \in {"Disconnected", "Connecting", "Connected", "Registered"}
    /\ told \in {"none", "open", "fail", "close"}
    /\ dns \in {"known", "name", "asked", "unknown"}
    /\ tr \in {"none", "open", "closing"}
    /\ reg \in {"unsent", "queued", "sent"}
    /\ timers \in SUBSET Timers /\ elapsed \in SUBSET Timers /\ due \in SUBSET Timers

Data ==
    /\ caught \in 0 .. MaxSignals
    /\ chan \in ChanType
    /\ wire \in BoundedSeq(Packets, MaxWire)
    /\ buf \in Seq(Packets)
    /\ pc \notin {"channels", "timers", "dispatch"} => events = <<>>

\* The channel has not come to a result: nothing to tell the client.
NotYet == told = "none" /\ events = <<>> /\ tr = "none"

\* The events the client has not handled, by what the channel came to.
Lag ==
    /\ chan.state \in {"RESOLVING", "CONNECTING"} \/ "open" \in chan.op =>
          NotYet
    /\ chan.state = "OPENED" <=> tr # "none"
    /\ tr # "none" =>
          \/ told = "none" /\ events = <<"open">> /\ tr = "open"
          \/ told = "open" /\ (events = <<>> \/ \E p \in Packets : events = <<p>>)
    /\ tr = "none" =>
          \/ told = "none" /\ events \in {<<>>, <<"fail">>}
          \/ told = "open" /\ (\/ events = <<"close">>
                               \/ \E p \in Packets : events = <<p, "close">>)
          \/ told \in {"fail", "close"} /\ events = <<>>

\* One connection attempt: its timer and its socket last as long as it does,
\* and what poll_io reported of it is used in the same iteration.
Attempt ==
    /\ "connect" \in timers \/ sock # "none" => chan.state = "CONNECTING"
    /\ chan.state = "CONNECTING" => chan.queued
    /\ "open" \in chan.op => chan.state = "CLOSED"
    /\ due \subseteq timers
    /\ due # {} => pc \in {"transports", "channels", "timers"}
    /\ chan.state = "RESOLVING" \/ "open" \in chan.op => "connect" \notin ready
    /\ chan.state = "CONNECTING" /\ "connect" \in ready =>
          pc \in {"transports", "channels"} /\ "connect" \notin due

\* Where the main thread is.
Place ==
    /\ pc \in Starting \cup {"aborted"} =>
          NotYet /\ ~stop /\ chan.state = "CLOSED" /\ ready = {}
    /\ pc \in {"exiting", "ended"} => stop /\ tr = "none"
    /\ pc = "ended" => told # "open"

\* What the client remembers of the connection.
Belief ==
    /\ stop => ~cli
    /\ handle => told = "open"
    /\ st \in {"Connected", "Registered"} => told = "open"
    /\ st = "Connecting" => told = "none"
    /\ told # "none" /\ st = "Disconnected" => ~cli
    /\ told = "none" => ~answered
    /\ st = "Connected" => ~answered
    /\ st = "Registered" => answered

\* What TypeOK, EventOrder, HandleNotStale and EndsAfterClose follow from.
Connection == Flags /\ States /\ Data /\ Lag /\ Attempt /\ Place /\ Belief

----------------------------------------------------------------------------
(* Packets *)

\* The packets on the wire are a sequence no longer than MaxWire.
LEMMA Bounded ==
    ASSUME NEW s
    PROVE  s \in BoundedSeq(Packets, MaxWire)
              <=> s \in Seq(Packets) /\ Len(s) <= MaxWire
<1>1. MaxWire \in Nat
  BY ProcessAssumptions
<1>2. ASSUME s \in BoundedSeq(Packets, MaxWire)
      PROVE  s \in Seq(Packets) /\ Len(s) <= MaxWire
  <2>1. PICK m \in 0 .. MaxWire : s \in [1 .. m -> Packets]
    BY <1>2 DEF BoundedSeq, SeqOf
  <2>2. s \in Seq(Packets)
    BY <2>1, SeqDef, <1>1
  <2>3. Len(s) = m
    BY <2>1, <2>2, LenProperties, <1>1
  <2> QED
    BY <2>1, <2>2, <2>3, <1>1
<1>3. ASSUME s \in Seq(Packets), Len(s) <= MaxWire
      PROVE  s \in BoundedSeq(Packets, MaxWire)
  <2>1. Len(s) \in 0 .. MaxWire /\ s \in [1 .. Len(s) -> Packets]
    BY <1>3, LenProperties, <1>1
  <2> QED
    BY <2>1 DEF BoundedSeq, SeqOf
<1> QED
  BY <1>2, <1>3

\* Two events in a row.
LEMMA AppendSecond ==
    ASSUME NEW p, NEW q
    PROVE  Append(<<p>>, q) = <<p, q>>
<1> DEFINE S == {p, q}
           a == Append(<<p>>, q)
           b == <<p, q>>
<1>1. <<p>> \in Seq(S) /\ b \in Seq(S) /\ q \in S
  OBVIOUS
<1>2. Len(<<p>>) = 1 /\ Len(b) = 2 /\ <<p>>[1] = p /\ b[1] = p /\ b[2] = q
  OBVIOUS
<1>3. /\ a \in Seq(S)
      /\ Len(a) = Len(<<p>>) + 1
      /\ \A i \in 1 .. Len(<<p>>) : a[i] = <<p>>[i]
      /\ a[Len(<<p>>) + 1] = q
  <2> HIDE DEF S
  <2> QED
    BY <1>1, AppendProperties
<1> HIDE DEF S, a, b
<1>4. Len(a) = 2 /\ a[1] = p /\ a[2] = q
  BY <1>2, <1>3
<1>5. \A i \in 1 .. Len(a) : a[i] = b[i]
  BY <1>2, <1>4
<1>6. a = b
  BY <1>1, <1>2, <1>3, <1>4, <1>5, SeqEqual
<1> QED
  BY <1>6 DEF a, b

\* do_read keeps to packets: what leaves the wire is in the buffer.
LEMMA ReadKeeps ==
    ASSUME buf \in Seq(Packets), wire \in BoundedSeq(Packets, MaxWire),
           NEW n \in 0 .. Len(wire)
    PROVE  /\ Read(n).buf \in Seq(Packets)
           /\ Read(n).wire \in BoundedSeq(Packets, MaxWire)
           /\ Read(n).buf \o Read(n).wire = buf \o wire
<1>1. wire \in Seq(Packets) /\ Len(wire) <= MaxWire
  BY Bounded
<1>2. Len(wire) \in Nat /\ \A i \in 1 .. Len(wire) : wire[i] \in Packets
  BY <1>1, LenProperties
<1> DEFINE front == SubSeq(wire, 1, n)
           rest == SubSeq(wire, n + 1, Len(wire))
<1>3. front \in Seq(Packets) /\ rest \in Seq(Packets) /\ Len(rest) = Len(wire) - n
  <2>1. front \in Seq(Packets)
    BY <1>2, SubSeqProperties
  <2>2. rest \in Seq(Packets) /\ Len(rest) = Len(wire) - n
    BY <1>2, SubSeqProperties
  <2> QED
    BY <2>1, <2>2
<1>4. buf \o wire \in Seq(Packets) /\ buf \o front \in Seq(Packets)
  BY <1>1, <1>2, <1>3, ConcatProperties
<1>5. rest \in BoundedSeq(Packets, MaxWire)
  <2> HIDE DEF rest
  <2>1. Len(rest) <= MaxWire
    BY <1>1, <1>2, <1>3, ProcessAssumptions
  <2> QED
    BY <2>1, <1>3, Bounded
<1>6. (buf \o front) \o rest = buf \o wire
  <2>1. /\ 1 \in 1 .. Len(wire) + 1 /\ n \in 1 - 1 .. Len(wire)
        /\ Len(wire) \in n .. Len(wire)
    BY <1>2
  <2>2. front \o rest = SubSeq(wire, 1, Len(wire))
    BY <1>1, <2>1, ConcatAdjacentSubSeq
  <2>3. front \o rest = wire
    BY <1>1, <2>2, SubSeqFull
  <2> HIDE DEF front, rest
  <2>4. (buf \o front) \o rest = buf \o (front \o rest)
    BY <1>3, ConcatAssociative
  <2> QED
    BY <2>3, <2>4
<1> QED
  BY <1>4, <1>5, <1>6 DEF Read

\* The first packet of the buffer is the next one, whatever follows on the wire.
LEMMA FirstOfConcat ==
    ASSUME NEW b \in Seq(Packets), NEW w \in Seq(Packets), b # <<>>
    PROVE  b \o w # <<>> /\ b[1] = (b \o w)[1]
<1>1. Len(b) \in Nat \ {0} /\ Len(w) \in Nat
  BY EmptySeq, LenProperties
<1>2. (b \o w)[1] = b[1]
  BY <1>1, ConcatProperties
<1>3. b \o w # <<>>
  BY ConcatEqualIffEmpty
<1> QED
  BY <1>2, <1>3

\* unpack moves at most the first packet.
LEMMA UnpackFirst ==
    ASSUME events = <<>>, NEW b \in Seq(Packets)
    PROVE  /\ Unpack(b).buf \in Seq(Packets)
           /\ \/ b = <<>> /\ Unpack(b).events = <<>>
              \/ \E p \in Packets : b # <<>> /\ p = b[1] /\ Unpack(b).events = <<p>>
           /\ Unpack(b).events \o Unpack(b).buf = b
<1>1. CASE b = <<>>
  BY <1>1, ConcatEmptySeq DEF Unpack
<1>2. CASE b # <<>>
  <2>1. Head(b) \in Packets /\ Head(b) = b[1] /\ Tail(b) \in Seq(Packets)
    BY <1>2, HeadTailProperties
  <2>2. Unpack(b) = [events |-> <<Head(b)>>, buf |-> Tail(b)]
    BY <1>2 DEF Unpack
  <2>3. Len(b) \in Nat \ {0}
    BY <1>2, EmptySeq
  <2>4. <<Head(b)>> \o Tail(b) = b
    <3>1. Tail(b) = SubSeq(b, 2, Len(b))
      BY <1>2, TailIsSubSeq
    <3>2. SubSeq(b, 1, Len(b)) = <<b[1]>> \o SubSeq(b, 1 + 1, Len(b))
      BY <2>3, SubSeqRecursiveFirst
    <3> QED
      BY <2>1, <3>1, <3>2, SubSeqFull
  <2> QED
    BY <1>2, <2>1, <2>2, <2>4
<1> QED
  BY <1>1, <1>2

----------------------------------------------------------------------------
(* Start and end *)

\* The process starts with nothing to tell the client.
LEMMA ConnectionInit == Init => Connection
<1> SUFFICES ASSUME Init PROVE Connection
  OBVIOUS
<1>0. wire \in BoundedSeq(Packets, MaxWire)
  BY ProcessAssumptions DEF Init, BoundedSeq, SeqOf
<1>1. Flags
  BY DEF Init, Flags
<1>2. States
  BY DEF Init, States, Starting
<1>a. Data
  BY <1>0, ProcessAssumptions DEF Init, Data, ChanType
<1>3. Lag
  BY DEF Init, Lag, NotYet
<1>4. Attempt
  BY DEF Init, Attempt
<1>5. Place
  BY DEF Init, Place, NotYet, Starting
<1>6. Belief
  BY DEF Init, Belief
<1> QED
  BY <1>1, <1>2, <1>a, <1>3, <1>4, <1>5, <1>6 DEF Connection

\* main up to the loop.
LEMMA ConnectionInitFails == ASSUME Connection, InitFails PROVE Connection'
<1> USE DEF Connection, client, service, world, InitFails
<1>1. Flags'
  BY DEF Flags
<1>2. States'
  BY DEF States, Starting, Looping, Timers
<1>3. Data'
  BY DEF Data, ChanType
<1>4. Lag'
  BY DEF Lag, Place, NotYet, Starting, Data, ChanType
<1>5. Attempt'
  BY DEF Attempt, Place, Starting, Data, ChanType
<1>6. Place'
  BY DEF Place, NotYet, Starting, Data, ChanType
<1>7. Belief'
  BY DEF Belief, Place, NotYet, Starting
<1> QED
  BY <1>1, <1>2, <1>3, <1>4, <1>5, <1>6, <1>7

LEMMA ConnectionRun == ASSUME Connection, Run PROVE Connection'
<1> USE DEF Connection, client, service, world, Run
<1>1. Flags'
  BY DEF Flags
<1>2. States'
  BY DEF States, Starting, Looping, Timers
<1>3. Data'
  BY DEF Data, ChanType
<1>4. Lag'
  BY DEF Lag, Place, NotYet, Starting, Data, ChanType
<1>5. Attempt'
  BY DEF Attempt, Place, Starting, Data, ChanType
<1>6. Place'
  BY DEF Place, NotYet, Starting, Data, ChanType
<1>7. Belief'
  BY DEF Belief, Place, NotYet, Starting
<1> QED
  BY <1>1, <1>2, <1>3, <1>4, <1>5, <1>6, <1>7

LEMMA ConnectionStart == ASSUME Connection, Start PROVE Connection'
<1> USE DEF Connection, client, service, world, Start
<1>1. Flags'
  BY DEF Flags
<1>2. States'
  BY DEF States, Starting, Looping, Timers
<1>3. Data'
  BY DEF Data, ChanType
<1>4. Lag'
  BY DEF Lag, Place, NotYet, Starting, Data, ChanType
<1>5. Attempt'
  BY DEF Attempt, Place, Starting, Data, ChanType
<1>6. Place'
  BY DEF Place, NotYet, Starting, Data, ChanType
<1>7. Belief'
  BY DEF Belief, Place, NotYet, Starting
<1> QED
  BY <1>1, <1>2, <1>3, <1>4, <1>5, <1>6, <1>7

LEMMA ConnectionOpenConnection == ASSUME Connection, OpenConnection PROVE Connection'
<1> USE DEF Connection, client, service, world, OpenConnection
<1>1. Flags'
  BY DEF Flags
<1>2. States'
  BY DEF States, Starting, Looping, Timers
<1>3. Data'
  BY DEF Data, ChanType
<1>4. Lag'
  BY DEF Lag, Place, NotYet, Starting, Data, ChanType
<1>5. Attempt'
  BY DEF Attempt, Place, Starting, Data, ChanType
<1>6. Place'
  BY DEF Place, NotYet, Starting, Data, ChanType
<1>7. Belief'
  BY DEF Belief, Place, NotYet, Starting
<1> QED
  BY <1>1, <1>2, <1>3, <1>4, <1>5, <1>6, <1>7

LEMMA ConnectionServiceStart == ASSUME Connection, ServiceStart PROVE Connection'
<1> USE DEF Connection, client, service, world, ServiceStart
<1>1. Flags'
  BY DEF Flags
<1>2. States'
  BY DEF States, Starting, Looping, Timers
<1>3. Data'
  BY DEF Data, ChanType
<1>4. Lag'
  BY DEF Lag, Place, NotYet, Starting, Data, ChanType
<1>5. Attempt'
  BY DEF Attempt, Place, Starting, Data, ChanType
<1>6. Place'
  BY DEF Place, NotYet, Starting, Data, ChanType
<1>7. Belief'
  BY DEF Belief, Place, NotYet, Starting
<1> QED
  BY <1>1, <1>2, <1>3, <1>4, <1>5, <1>6, <1>7

----------------------------------------------------------------------------
(* The event loop *)

LEMMA ConnectionPoll == ASSUME Connection, Poll PROVE Connection'
<1> USE DEF Connection, client, service, world, Poll
<1>1. Flags'
  BY DEF Flags
<1>2. States'
  BY DEF States, Starting, Looping, Timers
<1>3. Data'
  BY DEF Data, ChanType
<1>4. Lag'
  BY DEF Lag, NotYet
<1>5. Attempt'
  BY DEF Attempt, Lag, NotYet, Readable, States, Timers
<1>6. Place'
  BY DEF Place, NotYet, Starting
<1>7. Belief'
  BY DEF Belief
<1> QED
  BY <1>1, <1>2, <1>3, <1>4, <1>5, <1>6, <1>7

\* What process_transports can come to.
LEMMA TransportsOutcome ==
    ASSUME Connection, NEW n \in 0 .. Len(wire), NEW broken \in BOOLEAN,
           Transports(n, broken)
    PROVE  \/ UNCHANGED <<tr, chan, buf, reg, events, wire>> /\ tr = "none"
           \/ /\ tr # "none" /\ told = "open"
              /\ tr' = "none" /\ buf' = <<>> /\ wire' = <<>>
              /\ chan' = [chan EXCEPT !.state = "CLOSED", !.op = @ \ {"close"},
                                      !.error = "none"]
              /\ \/ events' = <<"close">>
                 \/ \E p \in Packets :
                       /\ events' = <<p, "close">>
                       /\ buf \o wire # <<>> /\ p = (buf \o wire)[1]
           \/ /\ tr # "none" /\ told = "open"
              /\ ~stop /\ UNCHANGED <<tr, chan>>
              /\ buf' \in Seq(Packets) /\ wire' \in BoundedSeq(Packets, MaxWire)
              /\ events' = <<>> \/ \E p \in Packets : events' = <<p>>
              /\ events' \o (buf' \o wire') = buf \o wire
<1> DEFINE got == Read(n)
           out == Unpack(got.buf)
<1>1. /\ events = <<>>
      /\ buf \in Seq(Packets) /\ wire \in BoundedSeq(Packets, MaxWire)
  BY DEF Connection, Data, Transports
<1>2. /\ got.buf \in Seq(Packets) /\ got.wire \in BoundedSeq(Packets, MaxWire)
      /\ got.buf \o got.wire = buf \o wire
  BY <1>1, ReadKeeps
<1>3. /\ out.buf \in Seq(Packets)
      /\ \/ got.buf = <<>> /\ out.events = <<>>
         \/ \E p \in Packets : /\ got.buf # <<>> /\ p = got.buf[1]
                             /\ out.events = <<p>>
      /\ out.events \o out.buf = got.buf
  BY <1>1, <1>2, UnpackFirst
<1>4. CASE tr = "none"
  BY <1>4 DEF Transports
<1>5. ASSUME tr # "none" PROVE told = "open"
  BY <1>1, <1>5 DEF Connection, Lag
<1>6. CASE tr # "none" /\ got.eof
  BY <1>1, <1>5, <1>6 DEF Transports, HandleClose
<1>7. CASE /\ tr # "none" /\ ~got.eof
           /\ broken \/ tr = "closing" \/ chan.op # {} \/ stop
  <2>1. HandleClose(out.events)
    BY <1>7 DEF Transports
  <2>2. got.wire \in Seq(Packets)
    BY <1>2, Bounded
  <2>3. CASE got.buf = <<>> /\ out.events = <<>>
    <3>1. events' = <<"close">>
      <4> HIDE DEF got, out
      <4> QED BY <2>1, <2>3 DEF HandleClose
    <3> QED
      BY <3>1, <1>5, <1>7, <2>1 DEF HandleClose
  <2>4. ASSUME NEW p \in Packets, got.buf # <<>>, p = got.buf[1], out.events = <<p>>
        PROVE  /\ events' = <<p, "close">>
               /\ buf \o wire # <<>> /\ p = (buf \o wire)[1]
    <3>1. events' = <<p, "close">>
      <4> HIDE DEF got, out
      <4>1. events' = Append(<<p>>, "close")
        BY <2>1, <2>4 DEF HandleClose
      <4> QED
        BY <4>1, AppendSecond
    <3>2. got.buf \o got.wire # <<>> /\ got.buf[1] = (got.buf \o got.wire)[1]
      BY <1>2, <2>2, <2>4, FirstOfConcat
    <3> QED
      BY <1>2, <2>4, <3>1, <3>2
  <2> HIDE DEF got, out
  <2> QED
    BY <1>3, <1>5, <1>7, <2>1, <2>3, <2>4 DEF HandleClose
<1>8. CASE /\ tr # "none" /\ ~got.eof
           /\ ~(broken \/ tr = "closing" \/ chan.op # {} \/ stop)
  <2>1. /\ events' = out.events /\ buf' = out.buf /\ wire' = got.wire
        /\ UNCHANGED <<tr, chan>>
    BY <1>8 DEF Transports
  <2>2. got.wire \in Seq(Packets)
    BY <1>2, Bounded
  <2>a. out.events \in Seq(Packets)
    <3> HIDE DEF got, out
    <3> QED BY <1>3
  <2>3. out.events \o (out.buf \o got.wire) = (out.events \o out.buf) \o got.wire
    <3>1. out.buf \in Seq(Packets)
      BY <1>3
    <3> HIDE DEF got, out
    <3>2. \A s, t, u \in Seq(Packets) : s \o (t \o u) = (s \o t) \o u
      BY ConcatAssociative
    <3> QED BY <3>1, <3>2, <2>2, <2>a
  <2>4. out.events = <<>> \/ \E p \in Packets : out.events = <<p>>
    BY <1>3
  <2> HIDE DEF got, out
  <2> QED
    BY <1>2, <1>3, <1>5, <1>8, <2>1, <2>3, <2>4
<1> QED
  BY <1>4, <1>6, <1>7, <1>8

\* process_transports.
LEMMA ConnectionTransports ==
    ASSUME Connection, NEW n \in 0 .. Len(wire), NEW broken \in BOOLEAN,
           Transports(n, broken)
    PROVE  Connection'
<1> DEFINE Closed == [chan EXCEPT !.state = "CLOSED", !.op = @ \ {"close"},
                                  !.error = "none"]
<1>1. /\ pc = "transports" /\ pc' = "channels"
      /\ UNCHANGED <<caught, first, client, stop, timers, due, ready, dns, elapsed,
                     sock, peer>>
      /\ reg' = reg \/ reg' = "sent"
  BY DEF Transports, HandleClose
<1> USE DEF Connection, client
<1>2. CASE UNCHANGED <<tr, chan, buf, reg, events, wire>> /\ tr = "none"
  <2>1. Flags' /\ States' /\ Data'
    BY <1>1, <1>2 DEF Flags, States, Data, Starting, Looping
  <2>2. Lag'
    BY <1>1, <1>2 DEF Lag, NotYet
  <2>3. Attempt' /\ Place' /\ Belief'
    BY <1>1, <1>2 DEF Attempt, Place, Belief, NotYet, Starting
  <2> QED
    BY <2>1, <2>2, <2>3
<1>3. CASE /\ tr # "none" /\ told = "open"
           /\ tr' = "none" /\ buf' = <<>> /\ wire' = <<>>
           /\ chan' = Closed
           /\ \/ events' = <<"close">>
              \/ \E p \in Packets : events' = <<p, "close">>
  <2>0. /\ chan' \in ChanType /\ chan'.state = "CLOSED"
        /\ chan'.op = chan.op \ {"close"}
        /\ chan.state = "OPENED"
    BY <1>3 DEF Data, ChanType, Lag
  <2>1. Flags' /\ States'
    BY <1>1, <1>3 DEF Flags, States, Starting, Looping
  <2>2. Data'
    <3>1. <<>> \in BoundedSeq(Packets, MaxWire)
      BY ProcessAssumptions DEF BoundedSeq, SeqOf
    <3> QED
      BY <1>1, <1>3, <2>0, <3>1 DEF Data
  <2>3. Lag'
    BY <1>1, <1>3, <2>0 DEF Lag, NotYet
  <2>4. Attempt'
    BY <1>1, <1>3, <2>0 DEF Attempt
  <2>5. Place' /\ Belief'
    BY <1>1, <1>3 DEF Place, Belief, NotYet, Starting
  <2> QED
    BY <2>1, <2>2, <2>3, <2>4, <2>5
<1>4. CASE /\ tr # "none" /\ told = "open"
           /\ UNCHANGED <<tr, chan>>
           /\ buf' \in Seq(Packets) /\ wire' \in BoundedSeq(Packets, MaxWire)
           /\ events' = <<>> \/ \E p \in Packets : events' = <<p>>
  <2>1. Flags' /\ States'
    BY <1>1, <1>4 DEF Flags, States, Starting, Looping
  <2>2. Data'
    BY <1>1, <1>4 DEF Data
  <2>3. Lag'
    BY <1>1, <1>4 DEF Lag, NotYet
  <2>4. Attempt'
    BY <1>1, <1>4 DEF Attempt
  <2>5. Place' /\ Belief'
    BY <1>1, <1>4 DEF Place, Belief, NotYet, Starting
  <2> QED
    BY <2>1, <2>2, <2>3, <2>4, <2>5
<1> QED
  BY <1>2, <1>3, <1>4, TransportsOutcome

\* What process_channels leaves alone, whatever the channel does.
ChannelsFrame ==
    /\ pc = "channels" /\ pc' = "timers"
    /\ UNCHANGED <<caught, first, client, stop, reg, buf, due, ready, wire, peer>>

\* The attempt is over, and with it its timer and its socket.
AttemptEnds ==
    /\ NotYet /\ "connect" \notin due
    /\ timers' = timers \ {"connect"} /\ elapsed' \subseteq elapsed
    /\ sock' = "none" /\ dns' = dns

LEMMA ConnectionFails ==
    ASSUME Connection, ChannelsFrame, AttemptEnds, NEW c \in ChanType, ConnectFails(c)
    PROVE  Connection'
<1> USE DEF Connection, client, ChannelsFrame, AttemptEnds, ConnectFails, NotYet
<1>1. chan' \in ChanType /\ chan'.state = "CLOSED" /\ chan'.op = {}
  BY DEF ChanType
<1>2. Flags'
  BY DEF Flags
<1>3. States'
  BY DEF States, Starting, Looping, Timers
<1>4. Data'
  BY <1>1 DEF Data
<1>5. Lag'
  <2>1. events' = <<"fail">>
    OBVIOUS
  <2> QED
    BY <1>1, <2>1 DEF Lag
<1>6. Attempt'
  BY <1>1 DEF Attempt
<1>7. Place' /\ Belief'
  BY DEF Place, Belief, Starting
<1> QED
  BY <1>2, <1>3, <1>4, <1>5, <1>6, <1>7

LEMMA ConnectionSucceeds ==
    ASSUME Connection, ChannelsFrame, AttemptEnds,
           NEW c \in ChanType, "open" \notin c.op, ConnectSucceeds(c)
    PROVE  Connection'
<1> USE DEF Connection, client, ChannelsFrame, AttemptEnds, ConnectSucceeds, NotYet
<1>1. chan' \in ChanType /\ chan'.state = "OPENED" /\ chan'.op = c.op
  BY DEF ChanType
<1>2. Flags'
  BY DEF Flags
<1>3. States'
  BY DEF States, Starting, Looping, Timers
<1>4. Data'
  BY <1>1 DEF Data
<1>5. Lag'
  <2>1. events' = <<"open">>
    OBVIOUS
  <2> QED
    BY <1>1, <2>1 DEF Lag
<1>6. Attempt'
  BY <1>1 DEF Attempt
<1>7. Place' /\ Belief'
  BY DEF Place, Belief, Starting
<1> QED
  BY <1>2, <1>3, <1>4, <1>5, <1>6, <1>7

\* A channel on its way to open, in do_resolve and do_connect.
LEMMA ConnectionResolve ==
    ASSUME Connection, ChannelsFrame, NotYet,
           NEW c \in ChanType, c.queued, "open" \notin c.op,
           chan.state = "RESOLVING" \/ "open" \in chan.op, Resolve(c)
    PROVE  Connection'
<1>1. /\ "connect" \notin timers /\ "connect" \notin due /\ "connect" \notin ready
      /\ sock = "none"
  BY DEF Connection, Attempt
<1>2. CASE /\ chan' = c \/ chan' = [c EXCEPT !.error = "progress"]
           /\ dns' \in {dns, "asked"} /\ c.state = "RESOLVING"
           /\ UNCHANGED <<tr, events, timers, elapsed, sock>>
  <2> USE DEF Connection, client, ChannelsFrame, NotYet
  <2>1. /\ chan' \in ChanType /\ chan'.state = "RESOLVING" /\ chan'.op = c.op
    BY <1>2 DEF ChanType
  <2>2. Flags'
    BY <1>2 DEF Flags
  <2>3. States'
    BY <1>2 DEF States, Starting, Looping
  <2>4. Data' /\ Lag'
    BY <1>2, <2>1 DEF Data, Lag
  <2>5. Attempt'
    BY <1>1, <1>2, <2>1 DEF Attempt
  <2>6. Place' /\ Belief'
    BY <1>2 DEF Place, Belief, Starting
  <2> QED
    BY <2>2, <2>3, <2>4, <2>5, <2>6
<1>3. CASE /\ ConnectFails(c) \/ ConnectSucceeds(c)
           /\ UNCHANGED <<dns, timers, elapsed, sock>>
  <2>1. AttemptEnds
    BY <1>1, <1>3 DEF AttemptEnds, Connection, States
  <2> QED
    BY <1>3, <2>1, ConnectionFails, ConnectionSucceeds
<1>4. CASE /\ chan' = [c EXCEPT !.state = "CONNECTING", !.error = "progress"]
           /\ timers' = timers \cup {"connect"}
           /\ elapsed' = elapsed \ {"connect"}
           /\ sock' = "pending"
           /\ UNCHANGED <<dns, tr, events>>
  <2> USE DEF Connection, client, ChannelsFrame, NotYet
  <2>1. /\ chan' \in ChanType /\ chan'.state = "CONNECTING" /\ chan'.op = c.op
        /\ chan'.queued
    BY <1>4 DEF ChanType
  <2>2. Flags'
    BY <1>4 DEF Flags
  <2>3. States'
    BY <1>4 DEF States, Starting, Looping, Timers
  <2>4. Data' /\ Lag'
    BY <1>4, <2>1 DEF Data, Lag
  <2>5. Attempt'
    BY <1>1, <1>4, <2>1 DEF Attempt
  <2>6. Place' /\ Belief'
    BY <1>4 DEF Place, Belief, Starting
  <2> QED
    BY <2>2, <2>3, <2>4, <2>5, <2>6
<1> QED
  BY <1>2, <1>3, <1>4 DEF Resolve

\* do_connect_completion.
LEMMA ConnectionCompletion ==
    ASSUME Connection, ChannelsFrame, "open" \notin chan.op, ConnectCompletion
    PROVE  Connection'
<1>1. NotYet /\ chan \in ChanType
  BY DEF ConnectCompletion, Connection, Data, Lag
<1>2. CASE "connect" \in ready
  <2>1. ConnectSucceeds(chan) \/ ConnectFails(chan)
    BY <1>2 DEF ConnectCompletion
  <2>2. "connect" \notin due
    BY <1>2 DEF ConnectCompletion, Connection, Attempt
  <2>3. AttemptEnds
    BY <1>1, <1>2, <2>2 DEF AttemptEnds, ConnectCompletion, CancelConnectTimer
  <2> QED
    BY <1>1, <2>1, <2>3, ConnectionFails, ConnectionSucceeds
<1>3. CASE "connect" \notin ready
  <2> USE DEF Connection, client, ChannelsFrame, NotYet
  <2>1. UNCHANGED <<chan, tr, events, timers, elapsed, sock, dns>>
    BY <1>3 DEF ConnectCompletion
  <2>2. Flags' /\ States'
    BY <2>1 DEF Flags, States, Starting, Looping
  <2>3. Data' /\ Lag'
    BY <2>1 DEF Data, Lag
  <2>4. Attempt' /\ Place' /\ Belief'
    BY <1>3, <2>1 DEF Attempt, Place, Belief, Starting
  <2> QED
    BY <2>2, <2>3, <2>4
<1> QED
  BY <1>2, <1>3

\* A channel with nothing to open, be it in channel_ops_ or not.
LEMMA ConnectionIdle ==
    ASSUME Connection, ChannelsFrame, ~chan.queued \/ ChannelIdle,
           chan' = chan \/ ChannelIdle,
           UNCHANGED <<dns, tr, events, timers, elapsed, sock>>
    PROVE  Connection'
<1> USE DEF Connection, client, ChannelsFrame
<1>1. /\ chan' \in ChanType /\ chan'.state = chan.state /\ chan'.op = chan.op
      /\ chan.state # "CONNECTING"
  BY DEF ChannelIdle, Data, ChanType, Attempt
<1>2. Flags' /\ States'
  BY DEF Flags, States, Starting, Looping
<1>3. Data' /\ Lag'
  BY <1>1 DEF Data, Lag, NotYet
<1>4. Attempt' /\ Place' /\ Belief'
  BY <1>1 DEF Attempt, Place, Belief, Starting
<1> QED
  BY <1>2, <1>3, <1>4

\* process_channels.
LEMMA ConnectionChannels == ASSUME Connection, Channels PROVE Connection'
<1>1. ChannelsFrame
  BY DEF Channels, ChannelsFrame
<1> DEFINE opened == [chan EXCEPT !.op = @ \ {"open"}, !.state = "RESOLVING"]
<1>2. CASE ~chan.queued
  <2>1. UNCHANGED <<chan, dns, tr, events, timers, elapsed, sock>>
    BY <1>2 DEF Channels
  <2> QED
    BY <1>1, <1>2, <2>1, ConnectionIdle
<1>3. CASE chan.queued /\ "open" \in chan.op /\ Resolve(opened)
  <2>1. NotYet
    BY <1>3 DEF Connection, Lag
  <2>2. opened \in ChanType /\ opened.queued /\ "open" \notin opened.op
    BY <1>3 DEF Connection, Data, ChanType
  <2> QED
    BY <1>1, <1>3, <2>1, <2>2, ConnectionResolve
<1>4. CASE chan.queued /\ "open" \notin chan.op /\ Resolve(chan)
  <2>1. chan \in ChanType /\ chan.state = "RESOLVING"
    BY <1>4 DEF Connection, Data, Resolve
  <2>2. NotYet
    BY <2>1 DEF Connection, Lag
  <2> QED
    BY <1>1, <1>4, <2>1, <2>2, ConnectionResolve
<1>5. CASE "open" \notin chan.op /\ ConnectCompletion
  BY <1>1, <1>5, ConnectionCompletion
<1>6. CASE ChannelIdle
  BY <1>1, <1>6, ConnectionIdle DEF ChannelIdle
<1> QED
  BY <1>2, <1>3, <1>4, <1>5, <1>6 DEF Channels

\* process_timers: the connect timer finds the attempt still under way.
LEMMA ConnectionTimers == ASSUME Connection, RunTimers PROVE Connection'
<1> USE DEF Connection, client
<1>1. /\ pc = "timers" /\ pc' = "dispatch" /\ due' = {}
      /\ UNCHANGED <<caught, first, client, stop, tr, reg, buf, ready, dns, wire, peer>>
      /\ timers' \subseteq timers /\ elapsed' \subseteq elapsed
      /\ "connect" \in due => "connect" \notin timers'
  BY DEF RunTimers
<1>2. Flags'
  BY <1>1 DEF Flags
<1>3. States'
  BY <1>1 DEF States, Starting, Looping
<1>4. Place' /\ Belief'
  BY <1>1 DEF Place, Belief, Starting
<1>5. CASE "connect" \in due \cap timers /\ chan.state # "OPENED"
  <2>1. /\ chan' = [chan EXCEPT !.state = "CLOSED", !.op = {}, !.error = "none"]
        /\ events' = Append(events, "fail") /\ sock' = "none"
    BY <1>5 DEF RunTimers
  <2>2. NotYet
    BY <1>5 DEF Attempt, Lag
  <2>3. events' = <<"fail">>
    BY <2>1, <2>2 DEF NotYet
  <2>4. chan' \in ChanType /\ chan'.state = "CLOSED" /\ chan'.op = {}
    BY <2>1 DEF Data, ChanType
  <2>5. Data' /\ Attempt'
    BY <1>1, <1>5, <2>1, <2>4 DEF Data, Attempt
  <2>6. Lag'
    BY <1>1, <2>2, <2>3, <2>4 DEF Lag, NotYet
  <2> QED
    BY <1>2, <1>3, <1>4, <2>5, <2>6
<1>6. CASE ~("connect" \in due \cap timers /\ chan.state # "OPENED")
  <2>1. UNCHANGED <<chan, events, sock>>
    BY <1>6 DEF RunTimers
  <2>2. Data' /\ Lag' /\ Attempt'
    BY <1>1, <1>6, <2>1 DEF Data, Lag, NotYet, Attempt
  <2> QED
    BY <1>2, <1>3, <1>4, <2>2
<1> QED
  BY <1>5, <1>6

----------------------------------------------------------------------------
(* handleNetworkEvent *)

\* io_service::stop neither opens nor closes the channel, and does nothing
\* before the loop runs.
Stopped ==
    /\ chan' \in ChanType /\ chan'.state = chan.state /\ chan'.queued = chan.queued
    /\ "open" \in chan'.op => "open" \in chan.op
    /\ stop' \in {stop, TRUE}
    /\ pc \in Starting => stop' = stop

LEMMA ServiceStops ==
    ASSUME chan \in ChanType, ServiceStop \/ UNCHANGED <<stop, chan>>
    PROVE  Stopped
<1>1. CASE UNCHANGED <<stop, chan>>
  BY <1>1 DEF Stopped
<1>2. CASE ~(pc \in Starting \/ stop) /\ ServiceStop
  <2> DEFINE op == IF chan.state \in {"CONNECTING", "OPENED"}
                   THEN {"close"} ELSE chan.op \ {"open"}
  <2>1. stop' = TRUE /\ chan' = [chan EXCEPT !.op = op]
    BY <1>2 DEF ServiceStop
  <2>2. op \in SUBSET {"open", "close"} /\ "open" \notin op
    BY DEF ChanType
  <2> HIDE DEF op
  <2> QED
    BY <1>2, <2>1, <2>2 DEF Stopped, ChanType
<1> QED
  BY <1>1, <1>2 DEF ServiceStop

\* handleConnectionFailure stops the client in any case.
LEMMA FailureStops ==
    ASSUME Connection, HandleConnectionFailure
    PROVE  Stopped /\ cli' = FALSE
<1>1. chan \in ChanType /\ cli \in BOOLEAN
  BY DEF Connection, Data, Flags
<1> QED
  BY <1>1, ServiceStops DEF HandleConnectionFailure

\* BattleServer::shutdown stops the client; only a client that ran loses its
\* transport, which it has only while it is connected.
LEMMA ShutdownStops ==
    ASSUME Connection, Shutdown
    PROVE  /\ Stopped /\ cli' = FALSE /\ srv' = FALSE
           /\ handle' \in BOOLEAN /\ (handle' => handle)
           /\ tr' = tr \/ (told = "open" /\ tr = "open" /\ tr' = "closing")
           /\ (cli /\ st' = "Disconnected") \/ (~cli /\ st' = st /\ stop' = stop)
<1>1. chan \in ChanType /\ cli \in BOOLEAN /\ handle \in BOOLEAN
      /\ (handle => told = "open")
  BY DEF Connection, Data, Flags, Belief
<1>2. CASE cli
  <2>1. ClientStop /\ srv' = FALSE
    BY DEF Shutdown
  <2>2. cli' = FALSE /\ CloseTransport /\ ServiceStop /\ st' = "Disconnected"
    BY <1>2, <2>1 DEF ClientStop
  <2> QED
    BY <1>1, <1>2, <2>1, <2>2, ServiceStops DEF CloseTransport
<1>3. CASE ~cli
  <2>1. srv' = FALSE /\ UNCHANGED <<cli, handle, tr, stop, chan, st>>
    BY <1>3 DEF Shutdown, ClientStop
  <2> QED
    BY <1>1, <1>3, <2>1, ServiceStops
<1> QED
  BY <1>2, <1>3

\* What no event changes, and the events that are left.
DispatchFrame ==
    /\ pc = "dispatch"
    /\ UNCHANGED <<pc, caught, first, buf, timers, due, ready, world>>

LEMMA ConnectionOnOpen ==
    ASSUME Connection, DispatchFrame, events = <<"open">>, events' = <<>>, OnOpen
    PROVE  Connection'
<1> USE DEF Connection, DispatchFrame, world, OnOpen
<1>1. told = "none" /\ tr = "open"
  BY DEF Lag, Packets
<1>2. Flags'
  BY DEF Flags
<1>3. States' /\ Data'
  BY <1>1 DEF States, Data
<1>4. Lag' /\ Attempt'
  BY <1>1 DEF Lag, NotYet, Attempt
<1>5. Place' /\ Belief'
  BY <1>1 DEF Place, Belief, Starting
<1> QED
  BY <1>2, <1>3, <1>4, <1>5

LEMMA ConnectionOnOpenFailed ==
    ASSUME Connection, DispatchFrame, events = <<"fail">>, events' = <<>>, OnOpenFailed
    PROVE  Connection'
<1> USE DEF Connection, DispatchFrame, world, OnOpenFailed
<1>1. told = "none" /\ tr = "none" /\ chan.state = "CLOSED"
      /\ "open" \notin chan.op
  BY DEF Lag, NotYet, Data, ChanType, Packets
<1>2. Stopped /\ cli' = FALSE
  BY FailureStops
<1>3. Flags'
  BY <1>2 DEF Flags, Stopped
<1>4. States' /\ Data'
  BY <1>1, <1>2 DEF States, Data, Stopped
<1>5. Lag' /\ Attempt'
  BY <1>1, <1>2 DEF Lag, NotYet, Attempt, Stopped
<1>6. Place' /\ Belief'
  BY <1>1, <1>2 DEF Place, Belief, Starting, Stopped
<1> QED
  BY <1>3, <1>4, <1>5, <1>6

LEMMA ConnectionOnClose ==
    ASSUME Connection, DispatchFrame, events = <<"close">>, events' = <<>>, OnClose
    PROVE  Connection'
<1> USE DEF Connection, DispatchFrame, world, OnClose
<1>1. told = "open" /\ tr = "none" /\ chan.state = "CLOSED"
      /\ "open" \notin chan.op
  BY DEF Lag, NotYet, Data, ChanType, Packets
<1>2. Stopped /\ cli' = FALSE
  BY FailureStops
<1>3. Flags'
  BY <1>2 DEF Flags, Stopped
<1>4. States' /\ Data'
  BY <1>1, <1>2 DEF States, Data, Stopped
<1>5. Lag' /\ Attempt'
  BY <1>1, <1>2 DEF Lag, NotYet, Attempt, Stopped
<1>6. Place' /\ Belief'
  BY <1>1, <1>2 DEF Place, Belief, Starting, Stopped
<1> QED
  BY <1>3, <1>4, <1>5, <1>6

\* A packet leaves the queue as it would be without it.
LEMMA ConnectionOnPacket ==
    ASSUME Connection, DispatchFrame, NEW p \in Packets,
           \/ events = <<p>> /\ events' = <<>> /\ tr # "none"
           \/ events = <<p, "close">> /\ events' = <<"close">> /\ tr = "none",
           OnPreRegistration(p) \/ OnFrame(p)
    PROVE  Connection'
<1> USE DEF Connection, DispatchFrame, world
<1>1. told = "open" /\ told' = told /\ reg' = reg /\ present' = present
  BY DEF Lag, Packets, OnPreRegistration, OnFrame
<1>2. /\ Stopped
      /\ handle' \in BOOLEAN
      /\ tr' = tr \/ (tr = "open" /\ tr' = "closing")
  <2>1. CASE OnPreRegistration(p)
    BY <2>1, FailureStops, ServiceStops
       DEF OnPreRegistration, CloseTransport, Data, Flags
  <2>2. CASE OnFrame(p)
    BY <2>2, ShutdownStops, ServiceStops DEF OnFrame, Data, Flags
  <2> QED
    BY <2>1, <2>2
<1>3. Flags' /\ States' /\ Belief'
  <2>1. CASE st # "Registered" /\ p = "regok" /\ OnPreRegistration(p)
    <3>1. /\ st' = "Registered" /\ answered' = TRUE
          /\ UNCHANGED <<cli, handle, tr, stop, srv>>
      BY <2>1 DEF OnPreRegistration
    <3> QED
      BY <1>1, <3>1 DEF Flags, States, Belief
  <2>2. CASE p = "regbad" /\ OnPreRegistration(p)
    <3>1. /\ st' = "Disconnected" /\ answered' = TRUE
          /\ handle' = FALSE /\ srv' = srv /\ cli' = FALSE
      BY <2>2, FailureStops DEF OnPreRegistration, CloseTransport
    <3>2. Flags'
      BY <1>1, <1>2, <3>1 DEF Flags, Stopped
    <3> QED
      BY <1>1, <1>2, <3>1, <3>2 DEF States, Belief
  <2>3. CASE /\ UNCHANGED <<st, answered, cli, handle, tr, stop, srv>>
    BY <1>1, <2>3 DEF Flags, States, Belief
  <2>4. CASE p = "gameoff" /\ OnFrame(p)
    <3>1. answered' = answered /\ st = "Registered" /\ Shutdown
      BY <2>4 DEF OnFrame
    <3>2. Flags'
      BY <1>1, <1>2, <3>1, ShutdownStops DEF Flags, Stopped
    <3>3. States' /\ Belief'
      BY <1>1, <1>2, <3>1, ShutdownStops DEF States, Belief
    <3> QED
      BY <3>2, <3>3
  <2> QED
    BY <2>1, <2>2, <2>3, <2>4 DEF OnPreRegistration, OnFrame
<1>4. Data' /\ Attempt'
  BY <1>1, <1>2 DEF Data, Attempt, Stopped
<1>5. Lag'
  BY <1>1, <1>2 DEF Lag, NotYet, Stopped
<1>6. Place'
  BY <1>1, <1>2 DEF Place, Starting
<1> QED
  BY <1>3, <1>4, <1>5, <1>6

\* The queue when an event is dispatched, and what is left of it.
LEMMA DispatchCases ==
    ASSUME Connection, Dispatch
    PROVE  /\ DispatchFrame
           /\ \/ events = <<"open">> /\ events' = <<>> /\ OnOpen
              \/ events = <<"fail">> /\ events' = <<>> /\ OnOpenFailed
              \/ events = <<"close">> /\ events' = <<>> /\ OnClose
              \/ \E p \in Packets :
                    /\ \/ events = <<p>> /\ events' = <<>> /\ tr # "none"
                       \/ events = <<p, "close">> /\ events' = <<"close">>
                             /\ tr = "none"
                    /\ OnPreRegistration(p) \/ OnFrame(p)
<1>1. DispatchFrame
  BY DEF Connection, Data, Dispatch, DispatchFrame
<1>2. /\ events # <<>> /\ events' = Tail(events)
      /\ \/ Head(events) = "open" /\ OnOpen
         \/ Head(events) = "fail" /\ OnOpenFailed
         \/ Head(events) = "close" /\ OnClose
         \/ Head(events) \in Packets
               /\ (OnPreRegistration(Head(events)) \/ OnFrame(Head(events)))
  BY DEF Dispatch
<1>3. \/ events \in {<<"open">>, <<"fail">>, <<"close">>}
      \/ \E p \in Packets : \/ events = <<p>> /\ tr # "none"
                            \/ events = <<p, "close">> /\ tr = "none"
  BY <1>2 DEF Connection, States, Lag
<1>4. "open" \notin Packets /\ "fail" \notin Packets /\ "close" \notin Packets
  BY DEF Packets
<1>5. CASE events \in {<<"open">>, <<"fail">>, <<"close">>}
  <2>1. events' = <<>>
    BY <1>2, <1>5
  <2>2. events = <<Head(events)>>
    BY <1>5
  <2> QED
    BY <1>1, <1>2, <1>4, <1>5, <2>1, <2>2
<1>6. ASSUME NEW p \in Packets, events = <<p>> /\ tr # "none"
      PROVE  events' = <<>> /\ (OnPreRegistration(p) \/ OnFrame(p))
  <2>1. Head(events) = p /\ Tail(events) = <<>>
    BY <1>6
  <2> QED
    BY <1>2, <1>4, <1>6, <2>1
<1>7. ASSUME NEW p \in Packets, events = <<p, "close">> /\ tr = "none"
      PROVE  events' = <<"close">> /\ (OnPreRegistration(p) \/ OnFrame(p))
  <2>1. Head(events) = p /\ Tail(events) = <<"close">>
    BY <1>7
  <2> QED
    BY <1>2, <1>4, <1>7, <2>1
<1> QED
  BY <1>1, <1>3, <1>5, <1>6, <1>7

LEMMA ConnectionDispatch == ASSUME Connection, Dispatch PROVE Connection'
BY DispatchCases, ConnectionOnOpen, ConnectionOnOpenFailed, ConnectionOnClose,
   ConnectionOnPacket

\* The loop goes on, or ends with the transport gone; then run returns.
LEMMA ConnectionLoop ==
    ASSUME Connection, Dispatched \/ Exit
    PROVE  Connection'
<1> USE DEF Connection, client, service, world
<1>1. CASE Dispatched
  <2>1. /\ pc = "dispatch" /\ events = <<>>
        /\ pc' = "poll" \/ (pc' = "exiting" /\ stop /\ tr = "none")
    BY <1>1 DEF Dispatched, LoopTest
  <2>2. Flags' /\ States'
    BY <1>1, <2>1 DEF Dispatched, Flags, States, Starting, Looping
  <2>3. Data' /\ Lag'
    BY <1>1, <2>1 DEF Dispatched, Data, Lag, NotYet
  <2>4. Attempt' /\ Place' /\ Belief'
    BY <1>1, <2>1 DEF Dispatched, Attempt, Place, Belief, Starting
  <2> QED
    BY <2>2, <2>3, <2>4
<1>2. CASE Exit
  <2>1. tr = "none" /\ tr' = tr /\ told # "open" /\ due = {}
    BY <1>2 DEF Exit, Place, Lag, Attempt
  <2>2. Flags' /\ States'
    BY <1>2, <2>1 DEF Exit, Flags, States
  <2>3. Data' /\ Lag'
    BY <1>2, <2>1 DEF Exit, Data, Lag, NotYet
  <2>4. Attempt' /\ Place' /\ Belief'
    BY <1>2, <2>1 DEF Exit, Attempt, Place, Belief, Starting
  <2> QED
    BY <2>2, <2>3, <2>4
<1> QED
  BY <1>1, <1>2

----------------------------------------------------------------------------
(* Signals, time, the resolver thread, the network and the gateway *)

LEMMA ConnectionSignal == ASSUME Connection, Signal PROVE Connection'
<1> USE DEF Connection, world
<1>1. Shutdown
  BY DEF Signal
<1>2. /\ Stopped /\ cli' = FALSE /\ srv' = FALSE
      /\ handle' \in BOOLEAN /\ (handle' => handle)
      /\ tr' = tr \/ (told = "open" /\ tr = "open" /\ tr' = "closing")
      /\ (cli /\ st' = "Disconnected") \/ (~cli /\ st' = st /\ stop' = stop)
  BY <1>1, ShutdownStops
<1>3. /\ caught' \in 0 .. MaxSignals
      /\ pc \notin {"ended", "aborted"}
      /\ pc' = pc \/ (pc = "poll" /\ (pc' = "poll" \/
                        (pc' = "exiting" /\ stop' /\ tr' = "none")))
      /\ UNCHANGED <<answered, told, present, reg, buf, timers, due, ready, events,
                     world>>
  BY ProcessAssumptions DEF Signal, Data
<1>4. Flags'
  BY <1>2, <1>3 DEF Flags, Stopped
<1>5. States'
  BY <1>2, <1>3 DEF States, Looping
<1>6. Data' /\ Lag'
  BY <1>2, <1>3 DEF Data, Lag, NotYet, Stopped
<1>7. Attempt'
  BY <1>2, <1>3 DEF Attempt, Stopped
<1>8. Place' /\ Belief'
  BY <1>2, <1>3 DEF Place, Belief, Stopped, Starting, NotYet
<1> QED
  BY <1>4, <1>5, <1>6, <1>7, <1>8

\* What happens outside the process touches the client in nothing.
LEMMA ConnectionWorld ==
    ASSUME Connection,
           \/ \E t \in Timers : Elapse(t)
           \/ Resolved \/ Network \/ GatewayCloses
           \/ \E p \in Packets : GatewaySends(p)
    PROVE  Connection'
<1> USE DEF Connection, client, service
<1>1. ASSUME NEW t \in Timers, Elapse(t) PROVE Connection'
  <2>1. Flags' /\ States' /\ Data'
    BY <1>1 DEF Elapse, Flags, States, Data
  <2>2. Lag' /\ Attempt' /\ Place' /\ Belief'
    BY <1>1 DEF Elapse, Lag, NotYet, Attempt, Place, Belief
  <2> QED
    BY <2>1, <2>2
<1>2. CASE Resolved
  <2>1. /\ chan' \in ChanType /\ chan'.state = chan.state /\ chan'.op = chan.op
        /\ chan'.queued = chan.queued
    BY <1>2 DEF Resolved, Data, ChanType
  <2>2. Flags' /\ States'
    BY <1>2 DEF Resolved, Flags, States
  <2>3. Data' /\ Lag'
    BY <1>2, <2>1 DEF Resolved, Data, Lag, NotYet
  <2>4. Attempt' /\ Place' /\ Belief'
    BY <1>2, <2>1 DEF Resolved, Attempt, Place, Belief, NotYet
  <2> QED
    BY <2>2, <2>3, <2>4
<1>3. CASE Network \/ GatewayCloses
  <2>1. Flags' /\ States' /\ Data'
    BY <1>3 DEF Network, GatewayCloses, Flags, States, Data
  <2>2. Lag' /\ Attempt' /\ Place' /\ Belief'
    BY <1>3 DEF Network, GatewayCloses, Lag, NotYet, Attempt, Place, Belief
  <2> QED
    BY <2>1, <2>2
<1>4. ASSUME NEW p \in Packets, GatewaySends(p) PROVE Connection'
  <2>1. wire \in Seq(Packets) /\ buf \in Seq(Packets)
    BY Bounded DEF Data
  <2>2. Len(wire) \in Nat /\ Len(buf) \in Nat /\ Len(wire \o buf) = Len(wire) + Len(buf)
    BY <2>1, LenProperties, ConcatProperties
  <2>3. wire' \in Seq(Packets) /\ Len(wire') = Len(wire) + 1
    BY <1>4, <2>1, AppendProperties DEF GatewaySends
  <2>4. wire' \in BoundedSeq(Packets, MaxWire)
    <3>1. Len(wire') <= MaxWire
      BY <1>4, <2>2, <2>3, ProcessAssumptions DEF GatewaySends
    <3> QED
      BY <2>3, <3>1, Bounded
  <2>5. Flags' /\ States' /\ Data'
    BY <1>4, <2>4 DEF GatewaySends, Flags, States, Data
  <2>6. Lag' /\ Attempt' /\ Place' /\ Belief'
    BY <1>4 DEF GatewaySends, Lag, NotYet, Attempt, Place, Belief
  <2> QED
    BY <2>5, <2>6
<1> QED
  BY <1>1, <1>2, <1>3, <1>4

----------------------------------------------------------------------------
(* What holds of every process *)

\* Connection holds in every reachable state.
THEOREM ConnectionInvariant == Spec => []Connection
<1>1. Connection /\ [Next]_vars => Connection'
  <2> SUFFICES ASSUME Connection, [Next]_vars PROVE Connection'
    OBVIOUS
  <2>1. CASE MainThread
    BY <2>1, ConnectionInitFails, ConnectionRun, ConnectionStart,
       ConnectionOpenConnection, ConnectionServiceStart, ConnectionPoll,
       ConnectionTransports, ConnectionChannels, ConnectionTimers,
       ConnectionDispatch, ConnectionLoop DEF MainThread
  <2>2. CASE Signal
    BY <2>2, ConnectionSignal
  <2>3. CASE \/ \E t \in Timers : Elapse(t)
             \/ Resolved \/ Network \/ GatewayCloses
             \/ \E p \in Packets : GatewaySends(p)
    BY <2>3, ConnectionWorld
  <2>4. CASE UNCHANGED vars
    BY <2>4 DEF vars, client, service, world, Connection, Flags, States, Data, Lag,
                NotYet, Attempt, Place, Belief
  <2> QED
    BY <2>1, <2>2, <2>3, <2>4 DEF Next
<1> QED
  BY <1>1, ConnectionInit, PTL DEF Spec

\* The type invariant: the queue never holds more than a packet and a close.
THEOREM ProcessTypeCorrect == Spec => []TypeOK
<1>1. ASSUME Connection PROVE TypeOK
  <2>1. Len(events) <= 2
    <3>1. \/ events \in {<<>>, <<"open">>, <<"fail">>, <<"close">>}
          \/ \E p \in Packets : events \in {<<p>>, <<p, "close">>}
      BY <1>1 DEF Connection, States, Lag
    <3>2. CASE events = <<>>
      <4>1. Len(events) = 0
        BY <3>2
      <4> QED
        BY <4>1
    <3>3. CASE events \in {<<"open">>, <<"fail">>, <<"close">>}
      <4>1. Len(events) = 1
        BY <3>3
      <4> QED
        BY <4>1
    <3>4. ASSUME NEW p \in Packets, events = <<p>> PROVE Len(events) <= 2
      <4>1. Len(events) = 1
        BY <3>4
      <4> QED
        BY <4>1
    <3>5. ASSUME NEW p \in Packets, events = <<p, "close">> PROVE Len(events) <= 2
      <4>1. Len(events) = 2
        BY <3>5
      <4> QED
        BY <4>1
    <3> QED
      BY <3>1, <3>2, <3>3, <3>4, <3>5
  <2> QED
    BY <1>1, <2>1 DEF Connection, Flags, States, Data, ChanType, TypeOK
<1> QED
  BY <1>1, ConnectionInvariant, PTL

\* What is pending in each of the queues the client can find.
LEMMA PendingIn ==
    /\ events = <<>> => \A k : ~Pending(k)
    /\ \A e : events = <<e>> => Last(events) = e /\ \A k : Pending(k) <=> k = e
    /\ \A p, e : events = <<p, e>> =>
          Last(events) = e /\ \A k : Pending(k) <=> k \in {p, e}
<1>1. ASSUME events = <<>> PROVE \A k : ~Pending(k)
  BY <1>1 DEF Pending, Range
<1>2. ASSUME NEW e, events = <<e>>
      PROVE  Last(events) = e /\ \A k : Pending(k) <=> k = e
  BY <1>2 DEF Pending, Range, Last
<1>3. ASSUME NEW p, NEW e, events = <<p, e>>
      PROVE  Last(events) = e /\ \A k : Pending(k) <=> k \in {p, e}
  BY <1>3 DEF Pending, Range, Last
<1> QED
  BY <1>1, <1>2, <1>3

\* BackendClient can tell its connections apart by the order of events alone:
\* one open or one failure, then packets, then one close and nothing more.
THEOREM EventsInOrder == Spec => []EventOrder
<1>1. ASSUME Connection PROVE EventOrder
  <2>1. "open" \notin Packets /\ "fail" \notin Packets /\ "close" \notin Packets
    BY DEF Packets
  <2>2. \/ events = <<>> /\ (told \in {"fail", "close"} => tr = "none")
        \/ events = <<"open">> /\ told = "none"
        \/ events = <<"fail">> /\ told = "none" /\ tr = "none"
        \/ events = <<"close">> /\ told = "open" /\ tr = "none"
        \/ \E p \in Packets : events = <<p>> /\ told = "open"
        \/ \E p \in Packets : events = <<p, "close">> /\ told = "open" /\ tr = "none"
    BY <1>1 DEF Connection, States, Lag
  <2>3. CASE events = <<>> /\ (told \in {"fail", "close"} => tr = "none")
    BY <2>3, PendingIn DEF EventOrder
  <2>4. CASE events = <<"open">> /\ told = "none"
    BY <2>1, <2>4, PendingIn DEF EventOrder
  <2>5. CASE events = <<"fail">> /\ told = "none" /\ tr = "none"
    BY <2>1, <2>5, PendingIn DEF EventOrder
  <2>6. CASE events = <<"close">> /\ told = "open" /\ tr = "none"
    BY <2>1, <2>6, PendingIn DEF EventOrder
  <2>7. ASSUME NEW p \in Packets, events = <<p>> /\ told = "open" PROVE EventOrder
    BY <2>1, <2>7, PendingIn DEF EventOrder
  <2>8. ASSUME NEW p \in Packets,
               events = <<p, "close">> /\ told = "open" /\ tr = "none"
        PROVE  EventOrder
    BY <2>1, <2>8, PendingIn DEF EventOrder
  <2> QED
    BY <2>2, <2>3, <2>4, <2>5, <2>6, <2>7, <2>8
<1> QED
  BY <1>1, ConnectionInvariant, PTL

\* sendFrame and closeTransport use a transport that the loop has, or one whose
\* close is queued.
THEOREM HandleAlwaysGood == Spec => []HandleNotStale
<1>1. ASSUME Connection PROVE HandleNotStale
  <2>1. ASSUME handle, tr = "none" PROVE Pending("close")
    <3>1. told = "open"
      BY <1>1, <2>1 DEF Connection, Belief
    <3>2. \/ events = <<"close">>
          \/ \E p \in Packets : events = <<p, "close">>
      BY <1>1, <2>1, <3>1 DEF Connection, Lag
    <3> QED
      BY <3>2, PendingIn
  <2> QED
    BY <2>1 DEF HandleNotStale
<1> QED
  BY <1>1, ConnectionInvariant, PTL

\* A process that was connected runs onDisconnected before its loop ends.
THEOREM LoopEndsAfterClose == Spec => []EndsAfterClose
<1>1. Connection => EndsAfterClose
  BY DEF Connection, Place, EndsAfterClose
<1> QED
  BY <1>1, ConnectionInvariant, PTL

----------------------------------------------------------------------------
(* The answer to the registration *)

Replies == {"regok", "regbad"}

NoReply(s) == \A i \in 1 .. Len(s) : s[i] \notin Replies

OneReply(s) ==
    \A i, j \in 1 .. Len(s) : s[i] \in Replies /\ s[j] \in Replies => i = j

\* The packet p waits to be dispatched, alone or before the close.
Queued(p) == events \in {<<p>>, <<p, "close">>}

\* The gateway answers once, and only a request that was sent; a client that
\* was stopped before it connected closes before an answer can come.
Answers ==
    /\ OneReply(buf \o wire)
    /\ answered \/ (\E p \in Replies : Queued(p)) => NoReply(buf \o wire)
    /\ answered => \A p \in Replies : ~Queued(p)
    /\ buf # <<>> \/ wire # <<>> => tr # "none" /\ reg = "sent"
    /\ \A p \in Packets : Queued(p) => reg = "sent"
    /\ told = "none" => reg = "unsent"
    /\ st = "Connected" /\ stop =>
          /\ reg = "sent" => tr = "none"
          /\ \A p \in Packets : ~Queued(p)

LEMMA RepliesArePackets == Replies \subseteq Packets
BY DEF Replies, Packets

\* Events that are not packets.
LEMMA NothingQueued ==
    ASSUME events \in {<<>>, <<"open">>, <<"fail">>, <<"close">>}
    PROVE  \A p \in Packets : ~Queued(p)
BY DEF Queued, Packets

LEMMA AnswersInit == Init => Answers
<1> SUFFICES ASSUME Init PROVE Answers
  OBVIOUS
<1>1. events = <<>> /\ buf = <<>> /\ wire = <<>>
  BY DEF Init
<1>2. buf \o wire = <<>> /\ Len(<<>>) = 0
  BY <1>1
<1>3. \A p \in Packets : ~Queued(p)
  BY <1>1, NothingQueued
<1>4. NoReply(<<>>) /\ OneReply(<<>>)
  BY <1>2 DEF NoReply, OneReply
<1> QED
  BY <1>1, <1>2, <1>3, <1>4, RepliesArePackets DEF Init, Answers

\* Steps that move no packet.
LEMMA AnswersKept ==
    ASSUME Answers, UNCHANGED <<buf, wire, reg, answered, told>>,
           events' = events \/ events' \in {<<"open">>, <<"fail">>},
           told = "none" \/ (tr' = "none" <=> tr = "none"),
           st' = "Connected" /\ stop' => st = "Connected" /\ stop
    PROVE  Answers'
<1>1. \A p \in Packets : Queued(p)' => Queued(p)
  BY DEF Queued, Packets
<1>2. \A p \in Replies : Queued(p)' => Queued(p)
  BY <1>1, RepliesArePackets
<1>3. buf' \o wire' = buf \o wire
  OBVIOUS
<1>4. told = "none" => reg = "unsent" /\ buf = <<>> /\ wire = <<>>
  BY DEF Answers
<1> QED
  BY <1>1, <1>2, <1>3, <1>4 DEF Answers, NoReply, OneReply

\* A reply that leaves the stream leaves none behind.
LEMMA DropFirst ==
    ASSUME NEW p \in Packets, NEW s \in Seq(Packets)
    PROVE  /\ NoReply(<<p>> \o s) => NoReply(s) /\ p \notin Replies
           /\ OneReply(<<p>> \o s) => OneReply(s) /\ (p \in Replies => NoReply(s))
<1> DEFINE t == <<p>> \o s
<1>1. Len(s) \in Nat /\ Len(<<p>>) = 1 /\ <<p>>[1] = p /\ <<p>> \in Seq(Packets)
  BY LenProperties
<1>2. Len(t) = Len(s) + 1 /\ t[1] = p /\ \A i \in 1 .. Len(s) : t[i + 1] = s[i]
  <2>1. /\ Len(t) = Len(<<p>>) + Len(s)
        /\ \A i \in 1 .. Len(<<p>>) + Len(s) :
              t[i] = IF i <= Len(<<p>>) THEN <<p>>[i] ELSE s[i - Len(<<p>>)]
    BY <1>1, ConcatProperties
  <2> HIDE DEF t
  <2> QED
    BY <1>1, <2>1
<1> HIDE DEF t
<1>3. \A i \in 1 .. Len(s) : i + 1 \in 1 .. Len(t)
  BY <1>1, <1>2
<1>4. 1 \in 1 .. Len(t)
  BY <1>1, <1>2
<1>5. ASSUME NoReply(t) PROVE NoReply(s) /\ p \notin Replies
  BY <1>2, <1>3, <1>4, <1>5 DEF NoReply
<1>6. ASSUME OneReply(t) PROVE OneReply(s) /\ (p \in Replies => NoReply(s))
  <2>1. OneReply(s)
    <3> SUFFICES ASSUME NEW i \in 1 .. Len(s), NEW j \in 1 .. Len(s),
                        s[i] \in Replies, s[j] \in Replies
                 PROVE  i = j
      BY DEF OneReply
    <3>1. i + 1 = j + 1
      BY <1>2, <1>3, <1>6 DEF OneReply
    <3> QED
      BY <3>1
  <2>2. ASSUME p \in Replies, NEW i \in 1 .. Len(s), s[i] \in Replies PROVE FALSE
    <3>1. i + 1 = 1
      BY <1>2, <1>3, <1>4, <1>6, <2>2 DEF OneReply
    <3> QED
      BY <3>1
  <2> QED
    BY <2>1, <2>2 DEF NoReply
<1> QED
  BY <1>5, <1>6 DEF t

\* process_transports keeps the order of the packets.
LEMMA AnswersTransports ==
    ASSUME Connection, Answers,
           NEW n \in 0 .. Len(wire), NEW broken \in BOOLEAN, Transports(n, broken)
    PROVE  Answers'
<1>1. /\ UNCHANGED <<answered, told, st, stop>>
      /\ reg' = reg \/ reg' = "sent"
      /\ events = <<>>
  BY DEF Transports, HandleClose, client, Connection, Data
<1>2. buf \in Seq(Packets) /\ wire \in Seq(Packets)
  BY Bounded DEF Connection, Data
<1>3. CASE UNCHANGED <<tr, chan, buf, reg, events, wire>> /\ tr = "none"
  BY <1>1, <1>3, AnswersKept
<1>4. CASE /\ tr # "none" /\ told = "open"
           /\ tr' = "none" /\ buf' = <<>> /\ wire' = <<>>
           /\ \/ events' = <<"close">>
              \/ \E p \in Packets :
                    /\ events' = <<p, "close">>
                    /\ buf \o wire # <<>> /\ p = (buf \o wire)[1]
  <2>1. buf' \o wire' = <<>> /\ Len(<<>>) = 0
    BY <1>4
  <2>2. NoReply(buf' \o wire') /\ OneReply(buf' \o wire')
    BY <2>1 DEF NoReply, OneReply
  <2>3. ASSUME NEW p \in Packets, Queued(p)'
        PROVE  reg = "sent" /\ reg' = "sent" /\ p = (buf \o wire)[1]
                  /\ buf \o wire # <<>>
    <3>1. buf \o wire # <<>> /\ p = (buf \o wire)[1]
      BY <1>4, <2>3 DEF Queued, Packets
    <3>2. buf # <<>> \/ wire # <<>>
      BY <3>1, ConcatEmptySeq
    <3> QED
      BY <1>1, <3>1, <3>2 DEF Answers
  <2>4. ASSUME answered, NEW p \in Replies, Queued(p)' PROVE FALSE
    <3>1. p = (buf \o wire)[1] /\ buf \o wire # <<>>
      BY <2>3, <2>4, RepliesArePackets
    <3>2. NoReply(buf \o wire)
      BY <2>4 DEF Answers
    <3>3. Len(buf \o wire) \in Nat \ {0}
      BY <1>2, <3>1, ConcatProperties, EmptySeq
    <3> QED
      BY <2>4, <3>1, <3>2, <3>3 DEF NoReply
  <2>5. ASSUME st = "Connected", stop, NEW p \in Packets, Queued(p)' PROVE FALSE
    BY <1>4, <2>3, <2>5 DEF Answers
  <2> QED
    BY <1>1, <1>4, <2>2, <2>3, <2>4, <2>5 DEF Answers
<1>5. CASE /\ tr # "none" /\ told = "open"
           /\ ~stop /\ UNCHANGED <<tr, chan>>
           /\ buf' \in Seq(Packets) /\ wire' \in BoundedSeq(Packets, MaxWire)
           /\ events' = <<>> \/ \E p \in Packets : events' = <<p>>
           /\ events' \o (buf' \o wire') = buf \o wire
  <2>1. wire' \in Seq(Packets) /\ buf' \o wire' \in Seq(Packets)
    BY <1>5, Bounded, ConcatProperties
  <2>2. CASE events' = <<>>
    <3>1. buf' \o wire' = buf \o wire
      BY <1>5, <2>1, <2>2, ConcatEmptySeq
    <3>2. \A p \in Packets : ~Queued(p)'
      BY <2>2 DEF Queued
    <3>3. (buf' # <<>> \/ wire' # <<>>) => (buf # <<>> \/ wire # <<>>)
      BY <1>2, <1>5, <2>1, <3>1, ConcatEqualIffEmpty
    <3> QED
      BY <1>1, <1>5, <3>1, <3>2, <3>3, RepliesArePackets
         DEF Answers, NoReply, OneReply
  <2>3. ASSUME NEW p \in Packets, events' = <<p>> PROVE Answers'
    <3>1. buf \o wire = <<p>> \o (buf' \o wire')
      BY <1>5, <2>3
    <3>2. /\ NoReply(buf \o wire) => NoReply(buf' \o wire') /\ p \notin Replies
          /\ OneReply(buf' \o wire')
          /\ p \in Replies => NoReply(buf' \o wire')
      <4>1. OneReply(buf \o wire)
        BY DEF Answers
      <4> QED
        BY <2>1, <3>1, <4>1, DropFirst
    <3>3. \A q \in Packets : Queued(q)' <=> q = p
      BY <2>3 DEF Queued
    <3>4. reg = "sent"
      <4>1. buf \o wire # <<>>
        BY <2>1, <3>1, ConcatEqualIffEmpty
      <4>2. buf # <<>> \/ wire # <<>>
        BY <4>1, ConcatEmptySeq
      <4> QED
        BY <4>2 DEF Answers
    <3>5. ASSUME answered PROVE NoReply(buf \o wire)
      BY <3>5 DEF Answers
    <3> QED
      BY <1>1, <1>5, <3>2, <3>3, <3>4, <3>5, RepliesArePackets DEF Answers
  <2> QED
    BY <1>5, <2>2, <2>3
<1> QED
  BY <1>3, <1>4, <1>5, TransportsOutcome

\* The gateway does not answer twice.
LEMMA AnswersSends ==
    ASSUME Connection, Answers, NEW p \in Packets, GatewaySends(p)
    PROVE  Answers'
<1>1. buf \in Seq(Packets) /\ wire \in Seq(Packets) /\ buf \o wire \in Seq(Packets)
  BY Bounded, ConcatProperties DEF Connection, Data
<1> DEFINE s == buf \o wire
           t == Append(s, p)
<1>2. buf' \o wire' = t
  <2>1. wire' = wire \o <<p>> /\ <<p>> \in Seq(Packets) /\ buf' = buf
    BY <1>1, AppendIsConcat DEF GatewaySends, service
  <2>2. buf \o (wire \o <<p>>) = (buf \o wire) \o <<p>>
    BY <1>1, <2>1, ConcatAssociative
  <2>3. t = s \o <<p>>
    BY <1>1, AppendIsConcat
  <2> QED
    BY <2>1, <2>2, <2>3
<1>3. /\ Len(s) \in Nat /\ Len(t) = Len(s) + 1 /\ t[Len(s) + 1] = p
      /\ \A i \in 1 .. Len(s) : t[i] = s[i]
  BY <1>1, LenProperties, AppendProperties
<1>4. ASSUME p \in Replies
      PROVE  ~answered /\ NoReply(s) /\ \A q \in Replies : ~Queued(q)
  <2>1. /\ ~answered
        /\ \A q \in Range(wire \o buf \o events) : q \notin Replies
    BY <1>4 DEF GatewaySends, Replies
  <2> DEFINE E == Packets \cup {"open", "fail", "close"}
  <2>2. events \in Seq(E)
    <3>1. \/ events \in {<<>>, <<"open">>, <<"fail">>, <<"close">>}
          \/ \E q \in Packets : events \in {<<q>>, <<q, "close">>}
      BY DEF Connection, States, Lag
    <3>2. <<>> \in Seq(E) /\ \A e \in E : <<e>> \in Seq(E)
      OBVIOUS
    <3>3. \A e, f \in E : <<e, f>> \in Seq(E)
      OBVIOUS
    <3>4. Packets \subseteq E /\ {"open", "fail", "close"} \subseteq E
      OBVIOUS
    <3> HIDE DEF E
    <3> QED
      BY <3>1, <3>2, <3>3, <3>4
  <2>3. wire \in Seq(E) /\ buf \in Seq(E)
    BY <1>1, SeqMonotonic
  <2> HIDE DEF E
  <2>4. wire \o buf \in Seq(E)
    BY <2>3, ConcatProperties
  <2>5. /\ Range(wire \o buf \o events) = Range(wire \o buf) \cup Range(events)
        /\ Range(wire \o buf) = Range(wire) \cup Range(buf)
        /\ Range(s) = Range(buf) \cup Range(wire)
    BY <2>2, <2>3, <2>4, RangeConcatenation
  <2>6. \A i \in 1 .. Len(s) : s[i] \in Range(s)
    BY <1>1, RangeEquality
  <2>7. ASSUME NEW q \in Replies, Queued(q) PROVE q \in Range(events)
    BY <2>7 DEF Queued, Range
  <2> QED
    BY <2>1, <2>5, <2>6, <2>7 DEF NoReply
<1>5. /\ UNCHANGED <<events, reg, tr, told, st, stop, answered>>
      /\ tr # "none" /\ reg = "sent"
  BY DEF GatewaySends, service, client
<1>6. \A q : Queued(q)' <=> Queued(q)
  BY <1>5 DEF Queued
<1> HIDE DEF s, t
<1>7. OneReply(s) /\ (answered \/ (\E q \in Replies : Queued(q)) => NoReply(s))
  BY DEF Answers, s
<1>8. OneReply(t)
  BY <1>3, <1>4, <1>7 DEF OneReply, NoReply
<1>9. p \notin Replies /\ NoReply(s) => NoReply(t)
  BY <1>3 DEF NoReply
<1> QED
  BY <1>2, <1>4, <1>5, <1>6, <1>7, <1>8, <1>9 DEF Answers

\* The events that are no packets.
LEMMA AnswersConnection ==
    ASSUME Connection, Answers, DispatchFrame, events' = <<>>,
           \/ events = <<"open">> /\ OnOpen
           \/ events = <<"fail">> /\ OnOpenFailed
           \/ events = <<"close">> /\ OnClose
    PROVE  Answers'
<1>1. \A p \in Packets : ~Queued(p)'
  BY DEF Queued
<1>2. \A p \in Replies : ~Queued(p)'
  BY <1>1, RepliesArePackets
<1>3. UNCHANGED <<buf, wire, answered, tr>>
  BY DEF DispatchFrame, world, OnOpen, OnOpenFailed, OnClose
<1>4. CASE events = <<"open">> /\ OnOpen
  <2>1. told = "none" /\ tr = "open"
    BY <1>4 DEF Connection, Lag, Packets
  <2>2. buf = <<>> /\ wire = <<>> /\ reg' = "queued" /\ told' = "open"
    BY <1>4, <2>1 DEF Answers, OnOpen
  <2> QED
    BY <1>1, <1>2, <1>3, <2>1, <2>2 DEF Answers, NoReply, OneReply
<1>5. CASE (events = <<"fail">> /\ OnOpenFailed) \/ (events = <<"close">> /\ OnClose)
  <2>1. reg' = reg /\ told' # "none" /\ st' = "Disconnected"
    BY <1>5 DEF OnOpenFailed, OnClose
  <2> QED
    BY <1>1, <1>2, <1>3, <2>1 DEF Answers, NoReply, OneReply
<1> QED
  BY <1>4, <1>5

\* A packet is dispatched.
LEMMA AnswersPacket ==
    ASSUME Connection, Answers, DispatchFrame, NEW p \in Packets,
           \/ events = <<p>> /\ events' = <<>> /\ tr # "none"
           \/ events = <<p, "close">> /\ events' = <<"close">> /\ tr = "none",
           OnPreRegistration(p) \/ OnFrame(p)
    PROVE  Answers'
<1>1. \A q \in Packets : ~Queued(q)'
  BY DEF Queued, Packets
<1>2. \A q \in Replies : ~Queued(q)'
  BY <1>1, RepliesArePackets
<1>3. Queued(p)
  BY DEF Queued
<1>4. UNCHANGED <<buf, wire, reg, told>>
  BY DEF DispatchFrame, world, OnPreRegistration, OnFrame
<1>5. tr' = "none" <=> tr = "none"
  <2>1. CASE OnPreRegistration(p)
    BY <2>1 DEF OnPreRegistration, CloseTransport
  <2>2. CASE OnFrame(p)
    BY <2>2, ShutdownStops DEF OnFrame
  <2> QED
    BY <2>1, <2>2
<1>6. told = "open"
  BY DEF Connection, Lag, Packets
<1>7. answered' => NoReply(buf \o wire)
  <2>1. CASE p \in Replies
    BY <1>3, <2>1 DEF Answers
  <2>2. CASE p \notin Replies
    <3>1. answered' = answered
      BY <2>2 DEF Replies, OnPreRegistration, OnFrame
    <3> QED
      BY <3>1 DEF Answers
  <2> QED
    BY <2>1, <2>2
<1>8. st' = "Connected" /\ stop' => st = "Connected" /\ stop
  <2>1. CASE OnPreRegistration(p)
    BY <2>1 DEF OnPreRegistration
  <2>2. CASE OnFrame(p)
    <3>1. st = "Registered" /\ st' \in {"Registered", "Disconnected"}
      BY <2>2, ShutdownStops DEF OnFrame
    <3> QED
      BY <3>1
  <2> QED
    BY <2>1, <2>2
<1> QED
  BY <1>1, <1>2, <1>4, <1>5, <1>6, <1>7, <1>8 DEF Answers, NoReply, OneReply

\* The steps that move no packet.
LEMMA AnswersOther ==
    ASSUME Connection, Answers,
           \/ InitFails \/ Run \/ Start \/ OpenConnection \/ ServiceStart
           \/ Poll \/ Channels \/ RunTimers \/ Dispatched \/ Exit \/ Signal
           \/ \E t \in Timers : Elapse(t)
           \/ Resolved \/ Network \/ GatewayCloses
    PROVE  Answers'
<1>1. CASE \/ InitFails \/ Run \/ Start \/ OpenConnection \/ ServiceStart
           \/ Poll \/ Dispatched \/ (\E t \in Timers : Elapse(t))
           \/ Resolved \/ Network \/ GatewayCloses
  <2>1. UNCHANGED <<buf, wire, reg, answered, told, events, tr, stop>>
    BY <1>1 DEF InitFails, Run, Start, OpenConnection, ServiceStart, Poll, Dispatched,
                Elapse, Resolved, Network, GatewayCloses, client, service, world
  <2>2. st' = st \/ st' = "Connecting"
    BY <1>1 DEF InitFails, Run, Start, OpenConnection, ServiceStart, Poll, Dispatched,
                Elapse, Resolved, Network, GatewayCloses, client, service, world
  <2> QED
    BY <2>1, <2>2, AnswersKept
<1>2. CASE Channels
  <2>1. UNCHANGED <<buf, wire, reg, answered, told, st, stop>>
    BY <1>2 DEF Channels, client
  <2>2. \/ UNCHANGED <<tr, events>>
        \/ \E c : ConnectFails(c) \/ ConnectSucceeds(c)
    BY <1>2 DEF Channels, Resolve, ConnectCompletion, ChannelIdle
  <2>3. ASSUME ~UNCHANGED <<tr, events>> PROVE NotYet
    BY <1>2, <2>3 DEF Channels, Resolve, ConnectCompletion, ChannelIdle, Connection, Lag
  <2>4. CASE UNCHANGED <<tr, events>>
    BY <2>1, <2>4, AnswersKept
  <2>5. ASSUME NotYet, NEW c, ConnectFails(c) \/ ConnectSucceeds(c) PROVE Answers'
    <3>1. told = "none" /\ events' \in {<<"open">>, <<"fail">>}
      BY <2>5 DEF NotYet, ConnectFails, ConnectSucceeds
    <3> QED
      BY <2>1, <3>1, AnswersKept
  <2> QED
    BY <2>2, <2>3, <2>4, <2>5
<1>3. CASE RunTimers
  <2>1. UNCHANGED <<buf, wire, reg, answered, told, st, stop, tr>>
    BY <1>3 DEF RunTimers, client
  <2>2. events' = events \/ events' = <<"fail">>
    <3>1. CASE "connect" \in due \cap timers /\ chan.state # "OPENED"
      <4>1. events = <<>> /\ events' = Append(events, "fail")
        BY <1>3, <3>1 DEF RunTimers, Connection, Attempt, Lag, NotYet
      <4> QED
        BY <4>1
    <3>2. CASE ~("connect" \in due \cap timers /\ chan.state # "OPENED")
      BY <1>3, <3>2 DEF RunTimers
    <3> QED
      BY <3>1, <3>2
  <2> QED
    BY <2>1, <2>2, AnswersKept
<1>4. CASE Exit
  <2>1. UNCHANGED <<buf, wire, reg, answered, told, st, stop, events>>
    BY <1>4 DEF Exit, client, world
  <2>2. tr = "none" /\ tr' = "none"
    BY <1>4 DEF Exit, Connection, Place
  <2> QED
    BY <2>1, <2>2, AnswersKept
<1>5. CASE Signal
  <2>1. UNCHANGED <<buf, wire, reg, answered, told, events>>
    BY <1>5 DEF Signal, world
  <2>2. /\ tr' = "none" <=> tr = "none"
        /\ st' = "Connected" /\ stop' => st = "Connected" /\ stop
    BY <1>5, ShutdownStops DEF Signal
  <2> QED
    BY <2>1, <2>2, AnswersKept
<1> QED
  BY <1>1, <1>2, <1>3, <1>4, <1>5

\* Answers holds in every reachable state: no answer comes twice, nor to a
\* client that has given up.
THEOREM AnswersInvariant == Spec => [](Connection /\ Answers)
<1>1. Connection /\ Answers /\ [Next]_vars => Answers'
  <2> SUFFICES ASSUME Connection, Answers, [Next]_vars PROVE Answers'
    OBVIOUS
  <2>1. ASSUME NEW n \in 0 .. Len(wire), NEW broken \in BOOLEAN, Transports(n, broken)
        PROVE  Answers'
    BY <2>1, AnswersTransports
  <2>2. ASSUME NEW p \in Packets, GatewaySends(p) PROVE Answers'
    BY <2>2, AnswersSends
  <2>3. CASE Dispatch
    BY <2>3, DispatchCases, AnswersConnection, AnswersPacket
  <2>4. CASE UNCHANGED vars
    BY <2>4, AnswersKept DEF vars, client, service, world
  <2>5. CASE MainThread
    BY <2>1, <2>3, <2>5, AnswersOther DEF MainThread
  <2> QED
    BY <2>2, <2>4, <2>5, AnswersOther DEF Next
<1> QED
  BY <1>1, AnswersInit, ConnectionInvariant, PTL DEF Spec

----------------------------------------------------------------------------
(* BattleProcess implements BattleRooms *)

\* What BattleRooms calls `running` and `client`: both are TRUE until run.
Running == srv \/ pc \in {"init", "aborted"}
Client == cli \/ pc \in {"init", "aborted", "run"}

\* A process without sessions has nothing to stop and nothing to drop.
LEMMA NothingToStop ==
    /\ Rooms!StopAllSessions
    /\ Rooms!NoRooms = [rooms |-> {}, slots |-> [b \in {0} |-> {}],
                        routes |-> [s \in {} |-> 9]]
<1>1. Rooms!NoRooms = [rooms |-> {}, slots |-> [b \in {0} |-> {}],
                      routes |-> [s \in {} |-> 9]]
  BY DEF Rooms!NoRooms
<1>2. Rooms!StopAllSessions
  BY DEF Rooms!StopAllSessions, Rooms!RemoveAll, Rooms!FramesLeft
<1> QED
  BY <1>1, <1>2

LEMMA RoomsInit == Init => Rooms!Init
BY DEF Init, Link, Rooms!Init, Rooms!NoRooms, Rooms!NoResp

\* A step that changes nothing BattleRooms knows of.
LEMMA RoomsStutter ==
    ASSUME UNCHANGED <<Link, Running, Client, present>>
    PROVE  UNCHANGED Rooms!vars
BY DEF Running, Client, Rooms!vars

\* The signal, told apart by what BattleRooms knows.
LEMMA RoomsSignal ==
    ASSUME Connection, Signal
    PROVE  [Rooms!Next]_Rooms!vars
<1>1. /\ srv' = FALSE /\ cli' = FALSE
      /\ (cli /\ st' = "Disconnected") \/ (~cli /\ st' = st /\ stop' = stop)
      /\ stop' \in {stop, TRUE} /\ (pc \in Starting => stop' = stop)
  BY ShutdownStops DEF Signal, Stopped
<1>2. cli /\ pc \notin Starting => ~stop /\ stop' = TRUE
  BY DEF Connection, Belief, Signal, Shutdown, ClientStop, ServiceStop
<1>3. /\ UNCHANGED <<told, answered, present>>
      /\ pc \notin {"ended", "aborted"}
      /\ pc' = pc \/ (pc = "poll" /\ pc' \in {"poll", "exiting"})
  BY DEF Signal
<1>4. /\ pc' \notin {"ended", "aborted"} /\ (pc' \in Starting <=> pc \in Starting)
      /\ pc' = "init" <=> pc = "init"
      /\ pc' = "run" <=> pc = "run"
  BY <1>3 DEF Starting
<1>5. pc \in Starting => told = "none" /\ ~stop
  BY DEF Connection, Place, NotYet
<1>6. /\ stop \in BOOLEAN /\ cli \in BOOLEAN /\ answered \in BOOLEAN
      /\ told \in {"none", "open", "fail", "close"}
      /\ st \in {"Disconnected", "Connecting", "Connected", "Registered"}
  BY DEF Connection, Flags, States
<1>7. CASE pc = "init"
  <2>1. Link' = Link /\ Running' = Running /\ Client' = Client
    BY <1>1, <1>3, <1>4, <1>5, <1>7 DEF Link, Running, Client, Starting
  <2> QED
    BY <1>3, <2>1, RoomsStutter
<1>8. CASE pc \in {"run", "opening", "starting"}
  <2>1. Link = "connecting" /\ Link' = "connecting" /\ ~Running'
        /\ Client' = (pc = "run")
    BY <1>1, <1>3, <1>4, <1>5, <1>8 DEF Link, Running, Client, Starting
  <2>2. pc = "run" => Client
    BY DEF Client
  <2>3. Rooms!SignalConnecting(IF pc = "run" THEN "before start" ELSE "before the loop")
    BY <1>3, <2>1, <2>2 DEF Rooms!SignalConnecting, Running, Client
  <2> QED
    BY <2>3 DEF Rooms!Next, Rooms!Stop
<1>9. CASE pc \notin Starting /\ told = "none"
  <2>1. ~Running' /\ ~Client' /\ (Client <=> cli)
    BY <1>1, <1>3, <1>4, <1>9 DEF Running, Client, Starting
  <2>2. CASE stop
    <3>1. Link = "stopping" /\ Link' = "stopping" /\ ~cli
      BY <1>1, <1>2, <1>3, <1>4, <1>9, <2>2 DEF Link
    <3>2. Rooms!SignalStopped
      BY <1>3, <2>1, <3>1 DEF Rooms!SignalStopped, Running, Client
    <3> QED
      BY <3>2 DEF Rooms!Next, Rooms!Stop
  <2>3. CASE ~stop
    <3>1. Link = "connecting" /\ Link' = IF cli THEN "stopping" ELSE "connecting"
      BY <1>1, <1>2, <1>3, <1>4, <1>6, <1>9, <2>3 DEF Link
    <3>2. Rooms!SignalConnecting("looping")
      BY <1>3, <2>1, <3>1 DEF Rooms!SignalConnecting, Running, Client
    <3> QED
      BY <3>2 DEF Rooms!Next, Rooms!Stop
  <2> QED
    BY <2>2, <2>3
<1>10. CASE told = "open"
  <2>1. ~Running' /\ ~Client' /\ (Client <=> cli) /\ pc \notin Starting
    BY <1>1, <1>3, <1>4, <1>5, <1>10 DEF Running, Client, Starting
  <2>2. st # "Connecting" /\ (st = "Disconnected" => ~cli)
    BY <1>10 DEF Connection, Belief
  <2>3. st = "Connected" => ~answered
    BY DEF Connection, Belief
  <2>4. st = "Registered" => answered
    BY DEF Connection, Belief
  <2>5. CASE cli
    <3>1. /\ Link = IF st = "Connected" THEN "connected" ELSE "registered"
          /\ Link' = IF st = "Connected" THEN "leaving" ELSE "closing"
      BY <1>1, <1>2, <1>3, <1>4, <1>6, <1>10, <2>1, <2>2, <2>3, <2>4, <2>5 DEF Link
    <3>2. Rooms!SignalConnected
      BY <1>3, <2>1, <2>5, <3>1, NothingToStop
         DEF Rooms!SignalConnected, Rooms!Shutdown, Running, Client
    <3> QED
      BY <3>2 DEF Rooms!Next, Rooms!Stop
  <2>6. CASE ~cli
    <3>1. Link' = Link /\ Link \in {"connected", "registered", "closing", "leaving"}
      BY <1>1, <1>3, <1>4, <1>10, <2>2, <2>6 DEF Link
    <3>2. CASE Link \in {"connected", "registered"}
      <4>1. Rooms!SignalConnected
        BY <1>3, <2>1, <2>6, <3>1, <3>2
           DEF Rooms!SignalConnected, Rooms!Shutdown, Running, Client
      <4> QED
        BY <4>1 DEF Rooms!Next, Rooms!Stop
    <3>3. CASE Link \in {"closing", "leaving"}
      <4>1. Rooms!SignalStopped
        BY <1>3, <2>1, <2>6, <3>1, <3>3 DEF Rooms!SignalStopped, Running, Client
      <4> QED
        BY <4>1 DEF Rooms!Next, Rooms!Stop
    <3> QED
      BY <3>1, <3>2, <3>3
  <2> QED
    BY <1>6, <2>5, <2>6
<1>11. CASE told \in {"fail", "close"}
  <2>1. ~cli
    BY <1>11, <1>6 DEF Connection, Belief
  <2>2. Link = "closed" /\ Link' = "closed"
    BY <1>3, <1>4, <1>11 DEF Link
  <2>3. ~Running' /\ ~Client' /\ ~Client
    BY <1>1, <1>3, <1>4, <1>5, <1>11, <2>1 DEF Running, Client, Starting
  <2>4. Rooms!SignalStopped
    BY <1>3, <2>2, <2>3 DEF Rooms!SignalStopped, Running, Client
  <2> QED
    BY <2>4 DEF Rooms!Next, Rooms!Stop
<1> QED
  BY <1>6, <1>7, <1>8, <1>9, <1>10, <1>11 DEF Starting

\* A connection that opens, fails or closes, as the client is told of it.
LEMMA RoomsConnection ==
    ASSUME Connection, DispatchFrame, events' = <<>>,
           \/ events = <<"open">> /\ OnOpen
           \/ events = <<"fail">> /\ OnOpenFailed
           \/ events = <<"close">> /\ OnClose
    PROVE  [Rooms!Next]_Rooms!vars
<1>1. pc = "dispatch" /\ pc' = pc
  BY DEF DispatchFrame
<1>2. CASE events = <<"open">> /\ OnOpen
  <2>1. told = "none" /\ told' = "open" /\ st' = "Connected" /\ stop' = stop
        /\ UNCHANGED <<srv, cli, present>>
    BY <1>2 DEF Connection, Lag, Packets, OnOpen
  <2>2. /\ Link = IF stop THEN "stopping" ELSE "connecting"
        /\ Link' = IF stop THEN "closing" ELSE "connected"
    BY <1>1, <2>1 DEF Link
  <2>3. Rooms!Opened
    BY <1>1, <2>1, <2>2 DEF Rooms!Opened, Rooms!ServerUnaware
  <2> QED
    BY <2>3 DEF Rooms!Next, Rooms!Connection
<1>3. CASE events = <<"fail">> /\ OnOpenFailed
  <2>1. told = "none" /\ told' = "fail" /\ UNCHANGED <<srv, present>> /\ cli' = FALSE
    BY <1>3, FailureStops DEF Connection, Lag, Packets, OnOpenFailed
  <2>2. Link \in {"stopping", "connecting"} /\ Link' = "closed"
    BY <1>1, <2>1 DEF Link
  <2>3. Rooms!OpenFailed
    BY <1>1, <2>1, <2>2 DEF Rooms!OpenFailed, Rooms!ServerUnaware
  <2> QED
    BY <2>3 DEF Rooms!Next, Rooms!Connection
<1>4. CASE events = <<"close">> /\ OnClose
  <2>1. /\ told = "open" /\ told' = "close" /\ cli' = FALSE /\ srv' = FALSE
        /\ present' = FALSE
    BY <1>4, FailureStops DEF Connection, Lag, Packets, OnClose
  <2>2. Link' = "closed" /\ Link \in {"connected", "registered", "leaving", "closing"}
    BY <1>1, <2>1 DEF Link
  <2>3. Rooms!Closed
    BY <1>1, <2>1, <2>2, NothingToStop DEF Rooms!Closed
  <2> QED
    BY <2>3 DEF Rooms!Next, Rooms!Connection
<1> QED
  BY <1>2, <1>3, <1>4

\* A packet: an answer to the registration finds a client that waits for it.
LEMMA RoomsPacket ==
    ASSUME Connection, Answers, DispatchFrame, NEW p \in Packets, Queued(p),
           OnPreRegistration(p) \/ OnFrame(p)
    PROVE  [Rooms!Next]_Rooms!vars
<1>1. pc = "dispatch" /\ pc' = pc /\ told = "open" /\ told' = told /\ present' = present
  BY DEF DispatchFrame, Connection, Lag, Packets, Queued, OnPreRegistration, OnFrame
<1>2. cli \in BOOLEAN
  BY DEF Connection, Flags
<1>3. /\ st \in {"Disconnected", "Connected", "Registered"}
      /\ st = "Registered" => answered
      /\ st = "Connected" => ~answered /\ ~stop
      /\ stop => ~cli
  BY <1>1 DEF Connection, States, Belief, Answers
<1>4. CASE p = "regok" /\ st # "Registered" /\ OnPreRegistration(p)
  <2>1. ~answered /\ st' = "Registered" /\ UNCHANGED <<srv, cli>>
    BY <1>4 DEF Answers, Replies, OnPreRegistration
  <2>2. Link \in {"connected", "leaving"} /\ Link' = "registered"
    BY <1>1, <1>3, <1>4, <2>1 DEF Link
  <2>3. Rooms!Registered
    BY <1>1, <2>1, <2>2 DEF Rooms!Registered, Rooms!ServerUnaware
  <2> QED
    BY <2>3 DEF Rooms!Next, Rooms!Connection
<1>5. CASE p = "regbad" /\ OnPreRegistration(p)
  <2>1. ~answered /\ st # "Registered"
    BY <1>5 DEF Answers, Replies, OnPreRegistration
  <2>2. st' = "Disconnected" /\ answered' /\ cli' = FALSE /\ srv' = srv
    BY <1>5, FailureStops DEF OnPreRegistration
  <2>3. Link \in {"connected", "leaving"} /\ Link' = "closing"
    BY <1>1, <1>3, <2>1, <2>2 DEF Link
  <2>4. Rooms!RegRefused
    BY <1>1, <2>2, <2>3 DEF Rooms!RegRefused, Rooms!ServerUnaware
  <2> QED
    BY <2>4 DEF Rooms!Next, Rooms!Connection
<1>6. CASE UNCHANGED <<st, answered, cli, stop, srv>>
  <2>1. UNCHANGED <<Link, Running, Client, present>>
    BY <1>1, <1>6 DEF Link, Running, Client
  <2> QED
    BY <2>1, RoomsStutter
<1>7. CASE p = "gameoff" /\ st = "Registered" /\ OnFrame(p)
  <2>1. /\ Shutdown /\ answered' = answered
    BY <1>7 DEF OnFrame
  <2>2. /\ srv' = FALSE /\ cli' = FALSE
        /\ (cli /\ st' = "Disconnected") \/ (~cli /\ st' = st /\ stop' = stop)
    BY <2>1, ShutdownStops
  <2>3. Link = "registered" /\ Link' = IF cli THEN "closing" ELSE "registered"
    BY <1>1, <1>2, <1>3, <1>7, <2>1, <2>2 DEF Link
  <2>4. Rooms!GameOffline
    BY <1>1, <2>2, <2>3, NothingToStop DEF Rooms!GameOffline, Rooms!Shutdown
  <2> QED
    BY <2>4 DEF Rooms!Next, Rooms!Stop
<1> QED
  BY <1>4, <1>5, <1>6, <1>7 DEF OnPreRegistration, OnFrame

\* The end of the loop is the end of a connection that never was.
LEMMA RoomsExit ==
    ASSUME Connection, Exit
    PROVE  [Rooms!Next]_Rooms!vars
<1>1. /\ pc = "exiting" /\ pc' = "ended" /\ stop /\ ~cli /\ told # "open"
      /\ told \in {"none", "open", "fail", "close"}
      /\ UNCHANGED <<told, srv, cli, present>>
  BY DEF Exit, client, Connection, States, Place, Lag, Belief
<1>2. Running' = Running /\ Client' = Client
  BY <1>1 DEF Running, Client
<1>3. Link' = "closed"
  BY <1>1 DEF Link
<1>4. CASE told \in {"fail", "close"}
  <2>1. Link = "closed"
    BY <1>1, <1>4 DEF Link
  <2> QED
    BY <1>1, <1>2, <1>3, <2>1, RoomsStutter
<1>5. CASE told = "none"
  <2>1. Link = "stopping"
    BY <1>1, <1>5 DEF Link
  <2>2. Rooms!OpenFailed
    BY <1>1, <1>3, <2>1 DEF Rooms!OpenFailed, Rooms!ServerUnaware
  <2> QED
    BY <2>2 DEF Rooms!Next, Rooms!Connection
<1> QED
  BY <1>1, <1>4, <1>5

\* Whatever else the process and its surroundings do, BattleRooms is not told.
LEMMA RoomsUntold ==
    ASSUME Connection,
           \/ InitFails \/ Run \/ Start \/ OpenConnection \/ ServiceStart
           \/ Poll \/ Channels \/ RunTimers \/ Dispatched
           \/ \E n \in 0 .. Len(wire), broken \in BOOLEAN : Transports(n, broken)
           \/ \E t \in Timers : Elapse(t)
           \/ Resolved \/ Network \/ GatewayCloses
           \/ \E p \in Packets : GatewaySends(p)
           \/ UNCHANGED vars
    PROVE  UNCHANGED Rooms!vars
<1>1. CASE InitFails
  <2>1. UNCHANGED <<Link, Running, Client, present>>
    BY <1>1 DEF InitFails, client, service, Link, Running, Client
  <2> QED
    BY <2>1, RoomsStutter
<1>2. CASE Run
  <2>1. UNCHANGED <<Link, Running, Client, present>>
    BY <1>2 DEF Run, Link, Running, Client
  <2> QED
    BY <2>1, RoomsStutter
<1>3. CASE Start
  <2>1. UNCHANGED <<Link, Running, Client, present>>
    BY <1>3 DEF Start, Link, Running, Client
  <2> QED
    BY <2>1, RoomsStutter
<1>4. CASE OpenConnection
  <2>1. told = "none"
    BY <1>4 DEF OpenConnection, Connection, Place, Starting, NotYet
  <2>2. UNCHANGED <<Link, Running, Client, present>>
    BY <1>4, <2>1 DEF OpenConnection, Link, Running, Client
  <2> QED
    BY <2>2, RoomsStutter
<1>5. CASE \/ ServiceStart \/ Poll \/ Channels \/ RunTimers \/ Dispatched
           \/ \E n \in 0 .. Len(wire), broken \in BOOLEAN : Transports(n, broken)
           \/ \E t \in Timers : Elapse(t)
           \/ Resolved \/ Network \/ GatewayCloses
           \/ \E p \in Packets : GatewaySends(p)
           \/ UNCHANGED vars
  <2>1. /\ UNCHANGED <<client, stop>>
        /\ pc' = pc \/ {pc, pc'} \cap {"init", "aborted", "run", "ended"} = {}
    BY <1>5 DEF ServiceStart, Poll, Channels, RunTimers, Dispatched, LoopTest, Transports,
                Elapse, Resolved, Network, GatewayCloses, GatewaySends, vars, service
  <2>2. UNCHANGED <<Link, Running, Client, present>>
    BY <2>1 DEF client, Link, Running, Client
  <2> QED
    BY <2>2, RoomsStutter
<1> QED
  BY <1>1, <1>2, <1>3, <1>4, <1>5

\* The connection half of BattleRooms is what the process does: each step is a
\* step of BattleRooms, or one that it does not see.
THEOREM ProcessImplementsRooms == Spec => ImplementsBattleRooms
<1>1. Connection /\ Answers /\ [Next]_vars => [Rooms!Next]_Rooms!vars
  <2> SUFFICES ASSUME Connection, Answers, [Next]_vars
               PROVE  [Rooms!Next]_Rooms!vars
    OBVIOUS
  <2>1. CASE Dispatch
    <3>1. ASSUME NEW p \in Packets, events \in {<<p>>, <<p, "close">>} PROVE Queued(p)
      BY <3>1 DEF Queued
    <3> QED
      BY <2>1, <3>1, DispatchCases, RoomsConnection, RoomsPacket
  <2>2. CASE MainThread
    BY <2>1, <2>2, RoomsExit, RoomsUntold DEF MainThread
  <2>3. CASE Signal
    BY <2>3, RoomsSignal
  <2> QED
    BY <2>2, <2>3, RoomsUntold DEF Next
<1> QED
  BY <1>1, RoomsInit, AnswersInvariant, PTL DEF Spec, ImplementsBattleRooms, Rooms!Spec

=============================================================================
