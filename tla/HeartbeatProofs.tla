-------------------------- MODULE HeartbeatProofs --------------------------
(***************************************************************************)
(* Proofs about Heartbeat, for any timeout and any number of pings and     *)
(* other frames.                                                           *)
(***************************************************************************)
EXTENDS Heartbeat, SequenceTheorems, TLAPS

\* Frames with a nonce that was given out by the time n was.
Sent(n) == [type : {"ping", "resp", "refuse", "push", "close"}, nonce : 0..n]
Back(n) == [type : {"reg", "pong"}, nonce : 0..n]

\* Nothing under way has a nonce that the heartbeat has not reached.
NoncesSent ==
    /\ queue \in Seq(Sent(nonce)) /\ buf \in Seq(Sent(nonce))
    /\ down \in Seq(Sent(nonce)) /\ inbuf \in Seq(Sent(nonce))
    /\ up \in Seq(Back(nonce))

\* The pending ping is the last one and its pong has not been handled.
PendingIsLast == pending # 0 => pending = nonce /\ nonce \notin ponged

IInv == TypeOK /\ NoncesSent /\ PendingIsLast

----------------------------------------------------------------------------
\* A larger nonce allows every frame that a smaller one does.
LEMMA SentGrows ==
  ASSUME NEW n \in Nat, NEW m \in Nat, n <= m
  PROVE  Seq(Sent(n)) \subseteq Seq(Sent(m)) /\ Seq(Back(n)) \subseteq Seq(Back(m))
<1>1. Sent(n) \subseteq Sent(m) /\ Back(n) \subseteq Back(m)
  BY DEF Sent, Back
<1> QED
  BY <1>1, SeqMonotonic

\* What the heartbeat has sent is of the type of the variables.
LEMMA SentTyped ==
  ASSUME NEW n \in 0..MaxPings
  PROVE  Seq(Sent(n)) \subseteq Seq(Messages) /\ Seq(Back(n)) \subseteq Seq(Replies)
<1>1. Sent(n) \subseteq Messages /\ Back(n) \subseteq Replies
  BY PingsAssumption DEF Sent, Back, Messages, Replies
<1> QED
  BY <1>1, SeqMonotonic

\* Both parts of a sequence that a read splits keep its elements.
LEMMA SplitTyped ==
  ASSUME NEW S, NEW s \in Seq(S), NEW k \in 1..Len(s)
  PROVE  SubSeq(s, 1, k) \in Seq(S) /\ SubSeq(s, k + 1, Len(s)) \in Seq(S)
<1>1. Len(s) \in Nat /\ \A i \in 1..Len(s) : s[i] \in S
  BY LenProperties, ElementOfSeq
<1>2. SubSeq(s, 1, k) \in Seq(S)
  BY <1>1, SubSeqProperties
<1>3. SubSeq(s, k + 1, Len(s)) \in Seq(S)
  BY <1>1, SubSeqProperties
<1> QED
  BY <1>2, <1>3

----------------------------------------------------------------------------
\* The initial state satisfies the invariant: no frame, no ping.
LEMMA InitIInv == Init => IInv
<1> SUFFICES ASSUME Init PROVE IInv
  OBVIOUS
<1>1. TypeOK
  <2>1. <<>> \in Seq(Messages) /\ <<>> \in Seq(Replies)
    BY EmptySeq
  <2>2. 0 \in 0..MaxPings /\ 0 \in 0..Timeout /\ 0 \in 0..MaxPushes
        /\ 0 \in 0..0 /\ -1 \in -1..0
    BY TimeoutAssumption, PingsAssumption, PushesAssumption
  <2> QED BY <2>1, <2>2 DEF Init, TypeOK
<1>2. NoncesSent /\ PendingIsLast
  BY EmptySeq DEF Init, NoncesSent, PendingIsLast
<1> QED
  BY <1>1, <1>2 DEF IInv

\* The frames of the sequences that a step leaves, or changes, keep the bound.
\* With it the types follow, so each action shows NoncesSent' first.
LEMMA FramesTyped ==
  ASSUME NoncesSent', nonce' \in 0..MaxPings
  PROVE  /\ queue' \in Seq(Messages) /\ buf' \in Seq(Messages)
         /\ down' \in Seq(Messages) /\ inbuf' \in Seq(Messages)
         /\ up' \in Seq(Replies)
<1> QED
  BY SentTyped DEF NoncesSent

\* Queueing a frame with a nonce in range keeps the bound on the queue.
LEMMA QueueTyped ==
  ASSUME NoncesSent, NEW t \in {"ping", "resp", "refuse", "push", "close"},
         nonce \in Nat, NEW n \in 0..nonce, Queue(Frame(t, n))
  PROVE  queue' \in Seq(Sent(nonce))
<1>1. Frame(t, n) \in Sent(nonce)
  BY DEF Frame, Sent
<1>2. Append(queue, Frame(t, n)) \in Seq(Sent(nonce))
  BY <1>1, AppendProperties DEF NoncesSent
<1> QED
  BY <1>2 DEF Queue, NoncesSent

----------------------------------------------------------------------------
\* The steps of the heartbeat task and of the clock keep the invariant.
LEMMA HeartbeatIInv ==
  ASSUME IInv, Tick \/ HeartbeatStep
  PROVE  IInv'
<1> USE DEF IInv, heartbeatVars, gatewayVars, backendVars, historyVars
<1>n. nonce \in Nat /\ 0 \in 0..nonce /\ nonce \in 0..nonce
  BY PingsAssumption DEF TypeOK
<1>1. CASE Tick
  <2>1. NoncesSent' /\ PendingIsLast'
    BY <1>1 DEF Tick, NoncesSent, PendingIsLast
  <2>2. TypeOK'
    BY <1>1, TimeoutAssumption DEF Tick, TypeOK
  <2> QED BY <2>1, <2>2
<1>2. CASE HbWake
  <2>1. NoncesSent' /\ PendingIsLast'
    BY <1>2 DEF HbWake, NoncesSent, PendingIsLast
  <2>2. TypeOK'
    BY <1>2 DEF HbWake, TypeOK
  <2> QED BY <2>1, <2>2
<1>3. CASE HbCheck
  <2>1. queue' \in Seq(Sent(nonce))
    <3>1. CASE Queue(Frame("close", 0))
      BY <3>1, <1>n, QueueTyped
    <3>2. CASE UNCHANGED queue
      BY <3>2 DEF NoncesSent
    <3> QED BY <1>3, <3>1, <3>2 DEF HbCheck
  <2>2. NoncesSent' /\ PendingIsLast'
    BY <1>3, <2>1 DEF HbCheck, NoncesSent, PendingIsLast
  <2>3. TypeOK'
    BY <1>3, <2>2, FramesTyped DEF HbCheck, TypeOK, Sleep
  <2> QED BY <2>2, <2>3
<1>4. CASE HbMark
  <2>1. nonce' = nonce + 1 /\ nonce' \in 0..MaxPings /\ nonce' \in Nat
    BY <1>4, PingsAssumption DEF HbMark, TypeOK
  <2>2. NoncesSent'
    BY <1>4, <2>1, <1>n, SentGrows DEF HbMark, NoncesSent
  <2>3. PendingIsLast'
    BY <1>4, <2>1 DEF HbMark, TypeOK, PendingIsLast
  <2>4. TypeOK'
    BY <1>4, <2>1, <2>2, FramesTyped, TimeoutAssumption DEF HbMark, TypeOK
  <2> QED BY <2>2, <2>3, <2>4
<1>5. CASE HbSend
  <2>1. queue' \in Seq(Sent(nonce))
    BY <1>5, <1>n, QueueTyped DEF HbSend
  <2>2. NoncesSent' /\ PendingIsLast'
    BY <1>5, <2>1 DEF HbSend, NoncesSent, PendingIsLast
  <2>3. TypeOK'
    BY <1>5, <2>2, FramesTyped DEF HbSend, TypeOK, Sleep
  <2> QED BY <2>2, <2>3
<1>6. CASE HbAborted
  <2>1. NoncesSent' /\ PendingIsLast'
    BY <1>6 DEF HbAborted, NoncesSent, PendingIsLast
  <2>2. TypeOK'
    BY <1>6 DEF HbAborted, TypeOK
  <2> QED BY <2>1, <2>2
<1> QED
  BY <1>1, <1>2, <1>3, <1>4, <1>5, <1>6 DEF HeartbeatStep

\* The steps of the session loop keep the invariant.
LEMMA SessionIInv ==
  ASSUME IInv, WriterStep \/ Break \/ OnSessionClose \/ Push
  PROVE  IInv'
<1> USE DEF IInv, heartbeatVars, gatewayVars, backendVars, historyVars
<1>n. nonce \in Nat /\ 0 \in 0..nonce /\ nonce \in 0..MaxPings
  BY PingsAssumption DEF TypeOK
<1>1. CASE WriteFrame
  <2>1. Head(queue) \in Sent(nonce) /\ Tail(queue) \in Seq(Sent(nonce))
    BY <1>1, HeadTailProperties DEF WriteFrame, NoncesSent
  <2>2. Append(buf, Head(queue)) \in Seq(Sent(nonce))
    BY <2>1, AppendProperties DEF NoncesSent
  <2>3. NoncesSent' /\ PendingIsLast'
    BY <1>1, <2>1, <2>2 DEF WriteFrame, NoncesSent, PendingIsLast
  <2>4. TypeOK'
    BY <1>1, <1>n, <2>3, FramesTyped DEF WriteFrame, TypeOK
  <2> QED BY <2>3, <2>4
<1>2. CASE Flush
  <2>1. down \o buf \in Seq(Sent(nonce))
    BY ConcatProperties DEF NoncesSent
  <2>2. NoncesSent' /\ PendingIsLast'
    BY <1>2, <2>1, EmptySeq DEF Flush, NoncesSent, PendingIsLast
  <2>3. TypeOK'
    BY <1>2, <1>n, <2>2, FramesTyped DEF Flush, TypeOK
  <2> QED BY <2>2, <2>3
<1>3. CASE TakeClose
  <2>1. NoncesSent' /\ PendingIsLast'
    BY <1>3, EmptySeq DEF TakeClose, NoncesSent, PendingIsLast
  <2>2. TypeOK'
    BY <1>3, <1>n, <2>1, FramesTyped DEF TakeClose, TypeOK
  <2> QED BY <2>1, <2>2
<1>4. CASE Break
  <2>1. NoncesSent' /\ PendingIsLast'
    BY <1>4, EmptySeq DEF Break, NoncesSent, PendingIsLast
  <2>2. TypeOK'
    BY <1>4, <1>n, <2>1, FramesTyped DEF Break, TypeOK
  <2> QED BY <2>1, <2>2
<1>5. CASE OnSessionClose
  <2>1. NoncesSent' /\ PendingIsLast'
    BY <1>5 DEF OnSessionClose, NoncesSent, PendingIsLast
  <2>2. TypeOK'
    BY <1>5 DEF OnSessionClose, TypeOK
  <2> QED BY <2>1, <2>2
<1>6. CASE Push
  <2>1. queue' \in Seq(Sent(nonce))
    BY <1>6, <1>n, QueueTyped DEF Push
  <2>2. NoncesSent' /\ PendingIsLast'
    BY <1>6, <2>1 DEF Push, NoncesSent, PendingIsLast
  <2>3. TypeOK'
    BY <1>6, <1>n, <2>2, FramesTyped, PushesAssumption DEF Push, TypeOK
  <2> QED BY <2>2, <2>3
<1> QED
  BY <1>1, <1>2, <1>3, <1>4, <1>5, <1>6 DEF WriterStep

\* The handling of the backend's frames keeps the invariant.  A pong for the
\* pending ping clears it; another one leaves it unanswered.
LEMMA ReadIInv ==
  ASSUME IInv, HandleReg \/ HandlePong
  PROVE  IInv'
<1> USE DEF IInv, heartbeatVars, gatewayVars, backendVars, historyVars
<1>n. nonce \in Nat /\ 0 \in 0..nonce /\ nonce \in 0..MaxPings
  BY PingsAssumption DEF TypeOK
<1>h. Head(up) \in Back(nonce) /\ Tail(up) \in Seq(Back(nonce))
  BY HeadTailProperties DEF HandleReg, HandlePong, Receive, NoncesSent
<1>1. CASE HandleReg
  <2>1. queue' \in Seq(Sent(nonce))
    BY <1>1, <1>n, QueueTyped DEF HandleReg, Receive
  <2>2. NoncesSent' /\ PendingIsLast'
    BY <1>1, <1>h, <2>1 DEF HandleReg, Receive, NoncesSent, PendingIsLast
  <2>3. nonce' = nonce /\ regAt' \in -1..nonce
    BY <1>1, <1>n DEF HandleReg, TypeOK
  <2>4. TypeOK'
    BY <1>1, <1>n, <2>2, <2>3, FramesTyped DEF HandleReg, Receive, TypeOK
  <2> QED BY <2>2, <2>4
<1>2. CASE HandlePong
  <2>1. Head(up).nonce \in 0..nonce
    BY <1>h DEF Back
  <2>2. NoncesSent'
    BY <1>2, <1>h DEF HandlePong, Receive, NoncesSent
  <2>3. PendingIsLast'
    BY <1>2 DEF HandlePong, Receive, PendingIsLast
  <2>4. TypeOK'
    BY <1>2, <1>n, <2>1, <2>2, FramesTyped DEF HandlePong, Receive, TypeOK
  <2> QED BY <2>2, <2>3, <2>4
<1> QED
  BY <1>1, <1>2

\* The steps of the backend keep the invariant: it answers only pings it got.
LEMMA BackendIInv ==
  ASSUME IInv, Register \/ RegisterRead \/ Scan \/ Read \/ Dispatch \/ Drop
  PROVE  IInv'
<1> USE DEF IInv, heartbeatVars, gatewayVars, backendVars, historyVars
<1>n. nonce \in Nat /\ 0 \in 0..nonce /\ nonce \in 0..MaxPings
  BY PingsAssumption DEF TypeOK
<1>h. inbuf # <<>> => /\ Head(inbuf) \in Sent(nonce)
                      /\ Tail(inbuf) \in Seq(Sent(nonce))
  BY HeadTailProperties DEF NoncesSent
<1>1. CASE Register
  <2>1. Frame("reg", 0) \in Back(nonce)
    BY <1>n DEF Frame, Back
  <2>2. Append(up, Frame("reg", 0)) \in Seq(Back(nonce))
    BY <2>1, AppendProperties DEF NoncesSent
  <2>3. NoncesSent' /\ PendingIsLast'
    BY <1>1, <2>2 DEF Register, NoncesSent, PendingIsLast
  <2>4. TypeOK'
    BY <1>1, <1>n, <2>3, FramesTyped DEF Register, TypeOK
  <2> QED BY <2>3, <2>4
<1>2. ASSUME NEW from, NEW to \in {"scan", "dispatch"}, ReadBuf(from, to)
      PROVE  IInv'
  <2>1. PICK k \in 1..Len(down) :
          /\ inbuf' = inbuf \o SubSeq(down, 1, k)
          /\ down' = SubSeq(down, k + 1, Len(down))
    BY <1>2 DEF ReadBuf
  <2>2. /\ SubSeq(down, 1, k) \in Seq(Sent(nonce))
        /\ SubSeq(down, k + 1, Len(down)) \in Seq(Sent(nonce))
    BY SplitTyped DEF NoncesSent
  <2>3. inbuf \o SubSeq(down, 1, k) \in Seq(Sent(nonce))
    BY <2>2, ConcatProperties DEF NoncesSent
  <2>4. NoncesSent' /\ PendingIsLast'
    BY <1>2, <2>1, <2>2, <2>3 DEF ReadBuf, NoncesSent, PendingIsLast
  <2>5. TypeOK'
    BY <1>2, <1>n, <2>4, FramesTyped DEF ReadBuf, TypeOK
  <2> QED BY <2>4, <2>5
<1>3. CASE Scan
  <2>1. NoncesSent' /\ PendingIsLast'
    BY <1>3, <1>h DEF Scan, NoncesSent, PendingIsLast
  <2>2. TypeOK'
    BY <1>3, <1>n, <2>1, FramesTyped DEF Scan, TypeOK
  <2> QED BY <2>1, <2>2
<1>4. CASE Dispatch
  <2>1. up' \in Seq(Back(nonce))
    <3>1. Frame("pong", Head(inbuf).nonce) \in Back(nonce)
      BY <1>4, <1>h DEF Dispatch, Frame, Sent, Back
    <3>2. Append(up, Frame("pong", Head(inbuf).nonce)) \in Seq(Back(nonce))
      BY <3>1, AppendProperties DEF NoncesSent
    <3> QED BY <1>4, <3>2 DEF Dispatch, NoncesSent
  <2>2. NoncesSent' /\ PendingIsLast'
    BY <1>4, <1>h, <2>1 DEF Dispatch, NoncesSent, PendingIsLast
  <2>3. TypeOK'
    BY <1>4, <1>n, <2>2, FramesTyped DEF Dispatch, TypeOK
  <2> QED BY <2>2, <2>3
<1>5. CASE Drop
  <2>1. NoncesSent' /\ PendingIsLast'
    BY <1>5 DEF Drop, NoncesSent, PendingIsLast
  <2>2. TypeOK'
    BY <1>5 DEF Drop, TypeOK
  <2> QED BY <2>1, <2>2
<1> QED
  BY <1>1, <1>2, <1>3, <1>4, <1>5 DEF RegisterRead, Read

\* A step that changes nothing keeps the invariant.
LEMMA StutterIInv ==
  ASSUME IInv, UNCHANGED vars
  PROVE  IInv'
<1> USE DEF vars, gatewayVars, heartbeatVars, backendVars, historyVars
<1>1. TypeOK'
  BY DEF IInv, TypeOK
<1>2. NoncesSent' /\ PendingIsLast'
  BY DEF IInv, NoncesSent, PendingIsLast
<1> QED
  BY <1>1, <1>2 DEF IInv

----------------------------------------------------------------------------
\* The inductive invariant: types, no frame from the future, and a pending
\* ping that is the last and unanswered.
THEOREM HeartbeatInvariant == Spec => []IInv
<1>1. IInv /\ [Next]_vars => IInv'
  BY HeartbeatIInv, SessionIInv, ReadIInv, BackendIInv, StutterIInv DEF Next
<1> QED
  BY InitIInv, <1>1, PTL DEF Spec

\* The variables keep their types.
THEOREM HeartbeatTypes == Spec => []TypeOK
<1>1. IInv => TypeOK
  BY DEF IInv
<1> QED
  BY <1>1, HeartbeatInvariant, PTL

\* The heartbeat never gives up a connection over a ping whose pong was handled.
THEOREM HeartbeatFair == Spec => AnsweredNotClosed
<1>1. IInv /\ [Next]_vars => [timedOut' # timedOut => nonce \notin ponged]_vars
  <2> SUFFICES ASSUME IInv, Next, timedOut' # timedOut
               PROVE  nonce \notin ponged
    BY DEF vars
  <2>1. HbCheck /\ TimedOut
    BY DEF Next, HeartbeatStep, WriterStep, Tick, HbWake, HbCheck, HbMark, HbSend,
           HbAborted, WriteFrame, Flush, TakeClose, Break, OnSessionClose, Push,
           HandleReg, HandlePong, Receive, Register, RegisterRead, Scan, Read, ReadBuf,
           Dispatch, Drop, historyVars
  <2> QED
    BY <2>1 DEF IInv, PendingIsLast, TimedOut
<1> QED
  BY <1>1, HeartbeatInvariant, PTL DEF Spec, AnsweredNotClosed

----------------------------------------------------------------------------
(* A ping sent after the answer is not lost *)

\* The frames on their way to the backend, the next one it looks at first.
Whole == inbuf \o (down \o (buf \o queue))

\* A ServerRegResp with no ping ahead of it that was sent after nonce n.
Answered(s, n) ==
    \E i \in 1..Len(s) :
        /\ s[i].type = "resp"
        /\ \A j \in 1..i : ~(s[j].type = "ping" /\ s[j].nonce > n)

\* Nothing is left unflushed while poll_write waits.
Flushed == writer = "recv" => buf = <<>>

\* The backend is answered after it has asked.
Unanswered == phase = "connected" => regAt = -1 /\ up = <<>>

\* Until the backend has read it, the answer is ahead of the pings that count.
AnswerFirst ==
    conn = "open" /\ phase \in {"register", "scan"} /\ regAt # -1
    => Answered(Whole, regAt)

\* The pending ping is among the frames, or its pong is.
Coming ==
    /\ conn = "open" /\ phase # "gone"
    /\ regAt # -1 /\ pending > regAt /\ hb # "send"
    => Has(Whole, Frame("ping", pending)) \/ Has(up, Frame("pong", pending))

Delivery == Flushed /\ Unanswered /\ AnswerFirst /\ Coming

\* A frame of two sequences is in one of them.
LEMMA HasConcat ==
  ASSUME NEW S, NEW s \in Seq(S), NEW t \in Seq(S), NEW m, Has(s \o t, m)
  PROVE  Has(s, m) \/ Has(t, m)
<1>1. PICK i \in 1..Len(s \o t) : (s \o t)[i] = m
  BY DEF Has
<1>2. Len(s) \in Nat /\ Len(t) \in Nat /\ Len(s \o t) = Len(s) + Len(t)
  BY LenProperties, ConcatProperties
<1>3. (s \o t)[i] = IF i <= Len(s) THEN s[i] ELSE t[i - Len(s)]
  BY <1>2, ConcatProperties
<1>4. CASE i <= Len(s)
  BY <1>1, <1>2, <1>3, <1>4 DEF Has
<1>5. CASE ~(i <= Len(s))
  <2>1. i - Len(s) \in 1..Len(t) /\ t[i - Len(s)] = m
    BY <1>1, <1>2, <1>3, <1>5
  <2> QED BY <2>1 DEF Has
<1> QED
  BY <1>4, <1>5

\* Frames stay when another is sent.
LEMMA HasAppend ==
  ASSUME NEW S, NEW s \in Seq(S), NEW e \in S
  PROVE  /\ Has(Append(s, e), e)
         /\ \A m : Has(s, m) => Has(Append(s, e), m)
<1>1. /\ Len(s) \in Nat /\ Len(Append(s, e)) = Len(s) + 1
      /\ \A i \in 1..Len(s) : Append(s, e)[i] = s[i]
      /\ Append(s, e)[Len(s) + 1] = e
  BY LenProperties, AppendProperties
<1> QED
  BY <1>1 DEF Has

\* Frames other than the one that is taken stay.
LEMMA HasTail ==
  ASSUME NEW S, NEW s \in Seq(S), NEW m, Has(s, m), Head(s) # m
  PROVE  Has(Tail(s), m)
<1>1. PICK i \in 1..Len(s) : s[i] = m
  BY DEF Has
<1>2. s # <<>> /\ Len(s) \in Nat
  BY LenProperties, EmptySeq
<1>3. /\ Head(s) = s[1] /\ Len(Tail(s)) = Len(s) - 1
      /\ \A k \in 1..Len(Tail(s)) : Tail(s)[k] = s[k + 1]
  BY <1>2, HeadTailProperties
<1>4. i - 1 \in 1..Len(Tail(s)) /\ Tail(s)[i - 1] = m
  BY <1>1, <1>2, <1>3
<1> QED
  BY <1>4 DEF Has

\* Sending another frame leaves the answer where it is.
LEMMA AnsweredAppend ==
  ASSUME NEW S, NEW s \in Seq(S), NEW e \in S, NEW n, Answered(s, n)
  PROVE  Answered(Append(s, e), n)
<1>1. /\ Len(s) \in Nat /\ Len(Append(s, e)) = Len(s) + 1
      /\ \A i \in 1..Len(s) : Append(s, e)[i] = s[i]
  BY LenProperties, AppendProperties
<1>2. PICK i \in 1..Len(s) :
        /\ s[i].type = "resp"
        /\ \A j \in 1..i : ~(s[j].type = "ping" /\ s[j].nonce > n)
  BY DEF Answered
<1>3. i \in 1..Len(Append(s, e)) /\ \A j \in 1..i : j \in 1..Len(s)
  BY <1>1
<1> QED
  BY <1>1, <1>2, <1>3 DEF Answered

\* The answer stays when a frame ahead of it is taken, which is no such ping.
LEMMA AnsweredTail ==
  ASSUME NEW S, NEW s \in Seq(S), NEW n, Answered(s, n)
  PROVE  /\ ~(Head(s).type = "ping" /\ Head(s).nonce > n)
         /\ Head(s).type # "resp" => Answered(Tail(s), n)
<1>1. PICK i \in 1..Len(s) :
        /\ s[i].type = "resp"
        /\ \A j \in 1..i : ~(s[j].type = "ping" /\ s[j].nonce > n)
  BY DEF Answered
<1>2. s # <<>> /\ Len(s) \in Nat
  BY LenProperties, EmptySeq
<1>3. /\ Head(s) = s[1] /\ Len(Tail(s)) = Len(s) - 1
      /\ \A k \in 1..Len(Tail(s)) : Tail(s)[k] = s[k + 1]
  BY <1>2, HeadTailProperties
<1>4. 1 \in 1..i
  BY <1>2
<1>5. ASSUME Head(s).type # "resp"
      PROVE  Answered(Tail(s), n)
  <2>1. i # 1
    BY <1>1, <1>3, <1>5
  <2>2. /\ i - 1 \in 1..Len(Tail(s))
        /\ \A j \in 1..(i - 1) : j \in 1..Len(Tail(s)) /\ j + 1 \in 1..i
    BY <1>2, <1>3, <2>1
  <2>3. Tail(s)[i - 1] = s[i]
    BY <1>2, <1>3, <2>2
  <2>4. \A j \in 1..(i - 1) : ~(Tail(s)[j].type = "ping" /\ Tail(s)[j].nonce > n)
    BY <1>1, <1>3, <2>2
  <2> QED BY <1>1, <2>2, <2>3, <2>4 DEF Answered
<1> QED
  BY <1>1, <1>3, <1>4, <1>5

\* When the answer is sent, no ping is under way that is later.
LEMMA AnsweredNow ==
  ASSUME NEW n \in Nat, NEW s \in Seq(Sent(n)), NEW e \in Sent(n), e.type = "resp"
  PROVE  Answered(Append(s, e), n)
<1>1. Append(s, e) \in Seq(Sent(n)) /\ Len(Append(s, e)) = Len(s) + 1
      /\ Append(s, e)[Len(s) + 1] = e /\ Len(s) \in Nat
  BY LenProperties, AppendProperties
<1>2. \A j \in 1..(Len(s) + 1) : Append(s, e)[j] \in Sent(n)
  BY <1>1, ElementOfSeq
<1>3. \A j \in 1..(Len(s) + 1) : ~(Append(s, e)[j].nonce > n)
  BY <1>2 DEF Sent
<1>4. Len(s) + 1 \in 1..Len(Append(s, e))
  BY <1>1
<1> QED
  BY <1>1, <1>3, <1>4 DEF Answered

----------------------------------------------------------------------------
\* A sequence that is not empty is its first element and the rest.
LEMMA HeadThenTail ==
  ASSUME NEW S, NEW s \in Seq(S), s # <<>>
  PROVE  <<Head(s)>> \in Seq(S) /\ s = <<Head(s)>> \o Tail(s)
<1>1. Len(s) \in Nat /\ Len(s) # 0
  BY LenProperties, EmptySeq
<1>2. 1 \in 1..Len(s) /\ Len(s) \in 1..Len(s)
  BY <1>1
<1>3. SubSeq(s, 1, Len(s)) = <<s[1]>> \o SubSeq(s, 2, Len(s))
  BY <1>2, SubSeqRecursiveFirst
<1>4. SubSeq(s, 1, Len(s)) = s /\ Tail(s) = SubSeq(s, 2, Len(s)) /\ Head(s) = s[1]
  BY SubSeqFull, TailIsSubSeq
<1>5. Head(s) \in S
  BY HeadTailProperties
<1> QED
  BY <1>3, <1>4, <1>5

\* The first element of two sequences is that of the first.
LEMMA HeadTailConcat ==
  ASSUME NEW S, NEW s \in Seq(S), NEW t \in Seq(S), s # <<>>
  PROVE  Head(s \o t) = Head(s) /\ Tail(s \o t) = Tail(s) \o t
<1>1. /\ s \o t \in Seq(S) /\ s \o t # <<>> /\ Len(s) \in Nat \ {0} /\ Len(t) \in Nat
      /\ Len(s \o t) = Len(s) + Len(t)
      /\ \A i \in 1..(Len(s) + Len(t)) :
           (s \o t)[i] = IF i <= Len(s) THEN s[i] ELSE t[i - Len(s)]
  BY LenProperties, EmptySeq, ConcatProperties, ConcatEqualIffEmpty
<1>2. Head(s \o t) = Head(s)
  BY <1>1
<1>3. <<Head(s)>> \in Seq(S) /\ Tail(s) \in Seq(S) /\ s = <<Head(s)>> \o Tail(s)
  BY HeadThenTail, HeadTailProperties
<1>4. Tail(s) \o t \in Seq(S)
  BY <1>3, ConcatProperties
<1>5. <<Head(s)>> \o (Tail(s) \o t) = s \o t
  BY <1>3, ConcatAssociative
<1>6. <<Head(s \o t)>> \in Seq(S) /\ Tail(s \o t) \in Seq(S)
      /\ s \o t = <<Head(s \o t)>> \o Tail(s \o t)
  BY <1>1, HeadThenTail, HeadTailProperties
<1>7. <<Head(s)>> \o Tail(s \o t) = <<Head(s)>> \o (Tail(s) \o t)
  BY <1>2, <1>5, <1>6
<1>8. Tail(s \o t) = Tail(s) \o t
  BY <1>3, <1>4, <1>6, <1>7, ConcatSimplifications, Zenon
<1> QED
  BY <1>2, <1>8

\* Sequences are the same however they are put together.
Grouped(a, b, c) == (a \o b) \o c = a \o (b \o c)
Regroups(a, b, c, d) == (a \o b) \o (c \o d) = a \o ((b \o c) \o d)

LEMMA ThreeParts ==
  ASSUME NEW S, NEW a \in Seq(S), NEW b \in Seq(S), NEW c \in Seq(S)
  PROVE  Grouped(a, b, c)
  BY ConcatAssociative DEF Grouped

LEMMA FourParts ==
  ASSUME NEW S, NEW a \in Seq(S), NEW b \in Seq(S), NEW c \in Seq(S), NEW d \in Seq(S)
  PROVE  Regroups(a, b, c, d)
<1>1. c \o d \in Seq(S)
  BY ConcatProperties
<1>2. Grouped(a, b, c \o d) /\ Grouped(b, c, d)
  BY <1>1, ThreeParts
<1> QED
  BY <1>2 DEF Grouped, Regroups

\* A frame that is queued is the last on its way.
LEMMA WholeQueued ==
  ASSUME NEW S, inbuf \in Seq(S), down \in Seq(S), buf \in Seq(S), queue \in Seq(S),
         NEW m \in S, queue' = Append(queue, m), UNCHANGED <<inbuf, down, buf>>
  PROVE  Whole' = Append(Whole, m)
<1>1. <<m>> \in Seq(S) /\ queue' = queue \o <<m>>
  BY AppendIsConcat
<1>2. buf \o queue \in Seq(S)
  BY ConcatProperties
<1>3. down \o (buf \o queue) \in Seq(S)
  BY <1>2, ConcatProperties
<1>4. inbuf \o (down \o (buf \o queue)) \in Seq(S)
  BY <1>3, ConcatProperties
<1>5. /\ Grouped(buf, queue, <<m>>) /\ Grouped(down, buf \o queue, <<m>>)
      /\ Grouped(inbuf, down \o (buf \o queue), <<m>>)
  BY <1>1, <1>2, <1>3, ThreeParts
<1>6. Whole \o <<m>> = Append(Whole, m)
  BY <1>4, AppendIsConcat DEF Whole
<1>7. Whole' = inbuf \o (down \o (buf \o (queue \o <<m>>)))
  BY <1>1 DEF Whole
<1> QED
  BY <1>5, <1>6, <1>7 DEF Grouped, Whole

\* The frames on their way are frames.
LEMMA WholeTyped ==
  ASSUME NEW S, inbuf \in Seq(S), down \in Seq(S), buf \in Seq(S), queue \in Seq(S)
  PROVE  Whole \in Seq(S)
<1>1. buf \o queue \in Seq(S)
  BY ConcatProperties
<1>2. down \o (buf \o queue) \in Seq(S)
  BY <1>1, ConcatProperties
<1> QED
  BY <1>2, ConcatProperties DEF Whole

\* The backend takes the first of them.
LEMMA WholeTaken ==
  ASSUME NEW S, inbuf \in Seq(S), down \in Seq(S), buf \in Seq(S), queue \in Seq(S),
         inbuf # <<>>, inbuf' = Tail(inbuf), UNCHANGED <<down, buf, queue>>
  PROVE  Head(Whole) = Head(inbuf) /\ Whole' = Tail(Whole)
<1> DEFINE rest == down \o (buf \o queue)
<1>1. buf \o queue \in Seq(S)
  BY ConcatProperties
<1>2. rest \in Seq(S)
  BY <1>1, ConcatProperties
<1> HIDE DEF rest
<1>3. Head(inbuf \o rest) = Head(inbuf) /\ Tail(inbuf \o rest) = Tail(inbuf) \o rest
  BY <1>2, HeadTailConcat
<1> QED
  BY <1>3 DEF Whole, rest

\* poll_write moves a frame on.
LEMMA WholeWritten ==
  ASSUME NEW S, inbuf \in Seq(S), down \in Seq(S), buf \in Seq(S), queue \in Seq(S),
         queue # <<>>, buf' = Append(buf, Head(queue)), queue' = Tail(queue),
         UNCHANGED <<inbuf, down>>
  PROVE  Whole' = Whole
<1>1. Head(queue) \in S /\ Tail(queue) \in Seq(S) /\ <<Head(queue)>> \in Seq(S)
      /\ queue = <<Head(queue)>> \o Tail(queue)
  BY HeadTailProperties, HeadThenTail
<1>2. buf' = buf \o <<Head(queue)>>
  BY <1>1, AppendIsConcat
<1>3. Grouped(buf, <<Head(queue)>>, Tail(queue))
  BY <1>1, ThreeParts
<1>4. buf' \o queue' = buf \o queue
  BY <1>1, <1>2, <1>3 DEF Grouped
<1> QED
  BY <1>4 DEF Whole

\* The flush hands the buffer to the socket.
LEMMA WholeFlushed ==
  ASSUME NEW S, inbuf \in Seq(S), down \in Seq(S), buf \in Seq(S), queue \in Seq(S),
         down' = down \o buf, buf' = <<>>, UNCHANGED <<inbuf, queue>>
  PROVE  Whole' = Whole
<1>1. <<>> \o queue = queue
  BY ConcatEmptySeq
<1>2. Grouped(down, buf, queue)
  BY ThreeParts
<1> QED
  BY <1>1, <1>2 DEF Grouped, Whole

\* What is moved from the socket to the buffer stays in its place.
Moved(x, y, r) ==
    /\ down = x \o y /\ r = buf \o queue
    /\ inbuf' = inbuf \o x /\ down' = y /\ UNCHANGED <<buf, queue>>

LEMMA WholeMoved ==
  ASSUME NEW S, inbuf \in Seq(S), NEW x \in Seq(S), NEW y \in Seq(S), NEW r \in Seq(S),
         Moved(x, y, r)
  PROVE  Whole' = Whole
<1>1. Regroups(inbuf, x, y, r)
  BY FourParts
<1> QED
  BY <1>1 DEF Whole, Moved, Regroups

\* A read moves the first part of what has arrived.
LEMMA WholeRead ==
  ASSUME NEW S, inbuf \in Seq(S), down \in Seq(S), buf \in Seq(S), queue \in Seq(S),
         NEW k \in 1..Len(down), inbuf' = inbuf \o SubSeq(down, 1, k),
         down' = SubSeq(down, k + 1, Len(down)), UNCHANGED <<buf, queue>>
  PROVE  Whole' = Whole
<1>1. SubSeq(down, 1, k) \in Seq(S) /\ SubSeq(down, k + 1, Len(down)) \in Seq(S)
  BY SplitTyped
<1>2. SubSeq(down, 1, k) \o SubSeq(down, k + 1, Len(down)) = down
  <2>1. /\ Len(down) \in Nat /\ 1 \in 1..(Len(down) + 1)
        /\ k \in (1 - 1)..Len(down) /\ Len(down) \in k..Len(down)
    BY LenProperties
  <2>2. SubSeq(down, 1, k) \o SubSeq(down, k + 1, Len(down)) = SubSeq(down, 1, Len(down))
    BY <2>1, ConcatAdjacentSubSeq
  <2> QED BY <2>2, SubSeqFull
<1>3. /\ buf \o queue \in Seq(S)
      /\ Moved(SubSeq(down, 1, k), SubSeq(down, k + 1, Len(down)), buf \o queue)
  BY <1>2, ConcatProperties DEF Moved
<1> QED
  BY <1>1, <1>3, WholeMoved

----------------------------------------------------------------------------
\* Before the connection has carried anything no ping is late.
LEMMA InitDelivery == Init => Delivery
  BY DEF Init, Delivery, Flushed, Unanswered, AnswerFirst, Coming

\* A closed session promises nothing.
LEMMA NotOpenDelivery ==
  ASSUME conn' # "open", Flushed', Unanswered'
  PROVE  Delivery'
  BY DEF Delivery, AnswerFirst, Coming

\* A step that leaves the frames on their way, and their order, keeps them
\* deliverable.
LEMMA SameDelivery ==
  ASSUME Delivery, Flushed', Whole' = Whole, UNCHANGED <<conn, up, regAt, pending>>,
         phase' \in {"register", "scan"} => phase \in {"register", "scan"},
         phase' = "connected" => phase = "connected",
         phase' # "gone" => phase # "gone",
         hb' # "send" => hb # "send"
  PROVE  Delivery'
<1>1. Unanswered'
  BY DEF Delivery, Unanswered
<1>2. AnswerFirst'
  BY DEF Delivery, AnswerFirst
<1>3. Coming'
  BY DEF Delivery, Coming
<1> QED
  BY <1>1, <1>2, <1>3 DEF Delivery

\* So does another frame behind them; a ping is on its way once it is queued.
LEMMA QueuedDelivery ==
  ASSUME TypeOK, Delivery, conn = "open", NEW m \in Messages, Queue(m),
         UNCHANGED <<conn, inbuf, down, buf, writer, up, phase, regAt, pending>>,
         hb' # "send" /\ pending # 0 => hb # "send" \/ m = Frame("ping", pending)
  PROVE  Delivery'
<1>1. Whole \in Seq(Messages) /\ Whole' = Append(Whole, m)
  <2>1. inbuf \in Seq(Messages) /\ down \in Seq(Messages)
        /\ buf \in Seq(Messages) /\ queue \in Seq(Messages)
    BY DEF TypeOK
  <2>2. queue' = Append(queue, m) /\ UNCHANGED <<inbuf, down, buf>>
    BY DEF Queue
  <2>3. Whole \in Seq(Messages)
    BY <2>1, WholeTyped
  <2>4. Whole' = Append(Whole, m)
    BY <2>1, <2>2, WholeQueued
  <2> QED BY <2>3, <2>4
<1>2. Flushed' /\ Unanswered'
  BY DEF Delivery, Flushed, Unanswered
<1>3. AnswerFirst'
  <2> SUFFICES ASSUME conn = "open", phase \in {"register", "scan"}, regAt # -1
               PROVE  Answered(Whole', regAt)
    BY DEF AnswerFirst
  <2>1. Answered(Whole, regAt)
    BY DEF Delivery, AnswerFirst
  <2> QED BY <1>1, <2>1, AnsweredAppend
<1>4. Coming'
  <2> SUFFICES ASSUME conn = "open", phase # "gone", regAt # -1, pending > regAt,
                      hb' # "send"
               PROVE  Has(Whole', Frame("ping", pending)) \/ Has(up, Frame("pong", pending))
    BY DEF Coming
  <2>1. pending # 0
    BY PingsAssumption DEF TypeOK
  <2>2. CASE m = Frame("ping", pending)
    <3>1. Has(Append(Whole, m), m)
      BY <1>1, HasAppend
    <3> QED BY <1>1, <2>2, <3>1
  <2>3. CASE hb # "send"
    <3>1. Has(Whole, Frame("ping", pending)) \/ Has(up, Frame("pong", pending))
      BY <2>3 DEF Delivery, Coming
    <3>2. Has(Whole, Frame("ping", pending)) => Has(Whole', Frame("ping", pending))
      BY <1>1, HasAppend
    <3> QED BY <3>1, <3>2
  <2> QED BY <2>1, <2>2, <2>3
<1> QED
  BY <1>2, <1>3, <1>4 DEF Delivery

----------------------------------------------------------------------------
\* The steps of the heartbeat task and of the clock keep it: a ping that is
\* marked is queued by the next step of the task.
LEMMA HeartbeatDelivery ==
  ASSUME TypeOK, PendingIsLast, Delivery, Tick \/ HeartbeatStep
  PROVE  Delivery'
<1> USE DEF heartbeatVars, gatewayVars, backendVars, historyVars
<1>1. CASE Tick
  BY <1>1, SameDelivery DEF Tick, Delivery, Flushed, Whole
<1>2. CASE HbWake
  BY <1>2, SameDelivery DEF HbWake, Delivery, Flushed, Whole
<1>3. CASE HbCheck
  <2>1. /\ hb = "check" /\ Flushed'
        /\ UNCHANGED <<conn, inbuf, down, buf, writer, up, phase, regAt, pending>>
    BY <1>3 DEF HbCheck, Delivery, Flushed
  <2>2. CASE conn = "open" /\ Queue(Frame("close", 0))
    <3>1. Frame("close", 0) \in Messages
      BY PingsAssumption DEF Frame, Messages
    <3> QED BY <2>1, <2>2, <3>1, QueuedDelivery
  <2>3. CASE conn # "open"
    BY <2>1, <2>3, NotOpenDelivery DEF Delivery, Unanswered
  <2>4. CASE UNCHANGED queue
    <3>1. Whole' = Whole
      BY <2>1, <2>4 DEF Whole
    <3> QED BY <2>1, <3>1, SameDelivery
  <2> QED BY <1>3, <2>2, <2>3, <2>4 DEF HbCheck
<1>4. CASE HbMark
  <2>1. Flushed' /\ Unanswered' /\ AnswerFirst'
    BY <1>4 DEF HbMark, Delivery, Flushed, Unanswered, AnswerFirst, Whole
  <2>2. Coming'
    BY <1>4 DEF HbMark, Coming
  <2> QED BY <2>1, <2>2 DEF Delivery
<1>5. CASE HbSend
  <2>1. /\ Queue(Frame("ping", nonce)) /\ Flushed'
        /\ UNCHANGED <<conn, inbuf, down, buf, writer, up, phase, regAt, pending>>
    BY <1>5 DEF HbSend, Delivery, Flushed
  <2>2. CASE conn = "open"
    <3>1. Frame("ping", nonce) \in Messages
      BY PingsAssumption DEF TypeOK, Frame, Messages
    <3>2. pending # 0 => Frame("ping", nonce) = Frame("ping", pending)
      BY DEF PendingIsLast
    <3> QED BY <2>1, <2>2, <3>1, <3>2, QueuedDelivery
  <2>3. CASE conn # "open"
    BY <2>1, <2>3, NotOpenDelivery DEF Delivery, Unanswered
  <2> QED BY <2>2, <2>3
<1>6. CASE HbAborted
  BY <1>6, NotOpenDelivery DEF HbAborted, Delivery, Flushed, Unanswered
<1> QED
  BY <1>1, <1>2, <1>3, <1>4, <1>5, <1>6 DEF HeartbeatStep

\* The steps of the session loop keep it: what it takes it writes, what it
\* writes it flushes, in order.
LEMMA SessionDelivery ==
  ASSUME TypeOK, Delivery, WriterStep \/ Break \/ OnSessionClose \/ Push
  PROVE  Delivery'
<1> USE DEF heartbeatVars, gatewayVars, backendVars, historyVars
<1>t. /\ inbuf \in Seq(Messages) /\ down \in Seq(Messages)
      /\ buf \in Seq(Messages) /\ queue \in Seq(Messages)
  BY DEF TypeOK
<1>1. CASE WriteFrame
  <2>1. Whole' = Whole
    BY <1>1, <1>t, WholeWritten DEF WriteFrame
  <2>2. Flushed'
    BY <1>1 DEF WriteFrame, Flushed
  <2> QED BY <1>1, <2>1, <2>2, SameDelivery DEF WriteFrame
<1>2. CASE Flush
  <2>1. Whole' = Whole
    BY <1>2, <1>t, WholeFlushed DEF Flush
  <2>2. Flushed'
    BY <1>2 DEF Flush, Flushed
  <2> QED BY <1>2, <2>1, <2>2, SameDelivery DEF Flush
<1>3. CASE TakeClose
  BY <1>3, NotOpenDelivery DEF TakeClose, Delivery, Flushed, Unanswered
<1>4. CASE Break
  BY <1>4, NotOpenDelivery DEF Break, Delivery, Flushed, Unanswered
<1>5. CASE OnSessionClose
  BY <1>5, NotOpenDelivery DEF OnSessionClose, Delivery, Flushed, Unanswered
<1>6. CASE Push
  <2>1. Frame("push", 0) \in Messages
    BY PingsAssumption DEF Frame, Messages
  <2> QED BY <1>6, <2>1, QueuedDelivery DEF Push
<1> QED
  BY <1>1, <1>2, <1>3, <1>4, <1>5, <1>6 DEF WriterStep

\* So does the handling of the backend's frames: the answer to the
\* registration is queued behind every ping that was sent before it, and a
\* pong that is taken off its way has cleared its ping.
LEMMA ReadDelivery ==
  ASSUME IInv, Delivery, HandleReg \/ HandlePong
  PROVE  Delivery'
<1> USE DEF heartbeatVars, gatewayVars, backendVars, historyVars
<1>t. TypeOK /\ NoncesSent /\ nonce \in Nat /\ 0 \in 0..nonce
  BY PingsAssumption DEF IInv, TypeOK
<1>u. up \in Seq(Replies) /\ up # <<>> /\ conn = "open" /\ up' = Tail(up)
  BY <1>t DEF HandleReg, HandlePong, Receive, TypeOK
<1>f. Flushed' /\ Unanswered'
  BY <1>u DEF HandleReg, HandlePong, Delivery, Flushed, Unanswered
<1>k. ASSUME NEW n, Has(up, Frame("pong", n)), Head(up) # Frame("pong", n)
      PROVE  Has(up', Frame("pong", n))
  BY <1>u, <1>k, HasTail
<1>1. CASE HandleReg
  <2>1. UNCHANGED <<inbuf, down, buf, conn, phase, hb, pending>> /\ Head(up).type = "reg"
    BY <1>1 DEF HandleReg, Receive
  <2>2. ASSUME Queue(Frame("resp", 0)), regAt' = nonce
        PROVE  Delivery'
    <3>1. /\ inbuf \in Seq(Sent(nonce)) /\ down \in Seq(Sent(nonce))
          /\ buf \in Seq(Sent(nonce)) /\ queue \in Seq(Sent(nonce))
      BY <1>t DEF NoncesSent
    <3>2. Frame("resp", 0) \in Sent(nonce) /\ Frame("resp", 0).type = "resp"
      BY <1>t DEF Frame, Sent
    <3>3. queue' = Append(queue, Frame("resp", 0))
      BY <1>u, <2>2 DEF Queue
    <3>4. Whole \in Seq(Sent(nonce))
      BY <3>1, WholeTyped
    <3>5. Whole' = Append(Whole, Frame("resp", 0))
      BY <2>1, <3>1, <3>2, <3>3, WholeQueued
    <3>6. Answered(Append(Whole, Frame("resp", 0)), nonce)
      BY <1>t, <3>2, <3>4, AnsweredNow
    <3>7. AnswerFirst'
      BY <2>2, <3>5, <3>6 DEF AnswerFirst
    <3>8. Coming'
      BY <1>t, <2>1, <2>2 DEF TypeOK, Coming
    <3> QED BY <1>f, <3>7, <3>8 DEF Delivery
  <2>3. ASSUME Queue(Frame("refuse", 0)), UNCHANGED regAt
        PROVE  Delivery'
    <3>1. /\ inbuf \in Seq(Messages) /\ down \in Seq(Messages)
          /\ buf \in Seq(Messages) /\ queue \in Seq(Messages)
      BY <1>t DEF TypeOK
    <3>2. Frame("refuse", 0) \in Messages
      BY PingsAssumption DEF Frame, Messages
    <3>3. queue' = Append(queue, Frame("refuse", 0))
      BY <1>u, <2>3 DEF Queue
    <3>4. Whole \in Seq(Messages)
      BY <3>1, WholeTyped
    <3>5. Whole' = Append(Whole, Frame("refuse", 0))
      BY <2>1, <3>1, <3>2, <3>3, WholeQueued
    <3>6. AnswerFirst'
      BY <2>1, <2>3, <3>2, <3>4, <3>5, AnsweredAppend DEF Delivery, AnswerFirst
    <3>7. Coming'
      <4>1. Head(up) # Frame("pong", pending)
        BY <2>1 DEF Frame
      <4>2. Has(Whole, Frame("ping", pending)) => Has(Whole', Frame("ping", pending))
        BY <3>2, <3>4, <3>5, HasAppend
      <4> QED BY <1>k, <2>1, <2>3, <4>1, <4>2 DEF Delivery, Coming
    <3> QED BY <1>f, <3>6, <3>7 DEF Delivery
  <2> QED BY <1>1, <2>2, <2>3 DEF HandleReg
<1>2. CASE HandlePong
  <2>1. /\ UNCHANGED <<conn, queue, buf, down, inbuf, phase, hb, regAt>>
        /\ pending' = IF pending = Head(up).nonce THEN 0 ELSE pending
    BY <1>2 DEF HandlePong
  <2>2. Whole' = Whole
    BY <2>1 DEF Whole
  <2>3. AnswerFirst'
    BY <2>1, <2>2 DEF Delivery, AnswerFirst
  <2>4. Coming'
    <3> SUFFICES ASSUME conn = "open", phase # "gone", regAt # -1, pending' > regAt,
                        hb # "send"
                 PROVE  \/ Has(Whole, Frame("ping", pending'))
                        \/ Has(up', Frame("pong", pending'))
      BY <2>1, <2>2 DEF Coming
    <3>1. regAt \in -1..nonce /\ 0 >= 0
      BY <1>t DEF TypeOK
    <3>2. pending' = pending /\ pending # Head(up).nonce
      BY <1>t, <2>1, <3>1
    <3>3. Head(up) # Frame("pong", pending)
      BY <3>2 DEF Frame
    <3>4. Has(Whole, Frame("ping", pending)) \/ Has(up, Frame("pong", pending))
      BY <3>2 DEF Delivery, Coming
    <3> QED BY <1>k, <3>2, <3>3, <3>4
  <2> QED BY <1>f, <2>3, <2>4 DEF Delivery
<1> QED
  BY <1>1, <1>2

\* So do the steps of the backend: what register_stream ignores ahead of the
\* answer is no ping that counts, and read_loop answers each that it takes.
LEMMA BackendDelivery ==
  ASSUME TypeOK, Delivery, Register \/ RegisterRead \/ Scan \/ Read \/ Dispatch \/ Drop
  PROVE  Delivery'
<1> USE DEF heartbeatVars, gatewayVars, backendVars, historyVars
<1>t. /\ inbuf \in Seq(Messages) /\ down \in Seq(Messages)
      /\ buf \in Seq(Messages) /\ queue \in Seq(Messages) /\ up \in Seq(Replies)
  BY DEF TypeOK
<1>w. Whole \in Seq(Messages)
  BY <1>t, WholeTyped
<1>f. Flushed'
  BY DEF Register, RegisterRead, Scan, Read, Dispatch, Drop, ReadBuf, Delivery, Flushed
<1>1. CASE Register
  BY <1>1, <1>f DEF Register, Delivery, Unanswered, AnswerFirst, Coming
<1>2. ASSUME NEW from \in {"register", "run"}, NEW to \in {"scan", "dispatch"},
             to = "scan" => from = "register", ReadBuf(from, to)
      PROVE  Delivery'
  <2>1. PICK k \in 1..Len(down) :
          /\ inbuf' = inbuf \o SubSeq(down, 1, k)
          /\ down' = SubSeq(down, k + 1, Len(down))
    BY <1>2 DEF ReadBuf
  <2>2. /\ phase = from /\ phase' = to
        /\ UNCHANGED <<conn, buf, queue, up, regAt, pending, hb>>
    BY <1>2 DEF ReadBuf
  <2>3. Whole' = Whole
    BY <1>t, <2>1, <2>2, WholeRead
  <2> QED BY <1>2, <1>f, <2>2, <2>3, SameDelivery
<1>3. CASE Scan
  <2>1. /\ inbuf # <<>> /\ inbuf' = Tail(inbuf) /\ phase = "scan"
        /\ UNCHANGED <<conn, down, buf, queue, up, hb, pending, regAt>>
    BY <1>3 DEF Scan
  <2>2. Head(Whole) = Head(inbuf) /\ Whole' = Tail(Whole)
    BY <1>t, <2>1, WholeTaken
  <2>3. Unanswered'
    BY <1>3 DEF Scan, Unanswered
  <2>4. ASSUME conn = "open", regAt # -1
        PROVE  /\ ~(Head(Whole).type = "ping" /\ Head(Whole).nonce > regAt)
               /\ Head(Whole).type # "resp" => Answered(Tail(Whole), regAt)
    <3>1. Answered(Whole, regAt)
      BY <2>1, <2>4 DEF Delivery, AnswerFirst
    <3> QED BY <1>w, <3>1, AnsweredTail
  <2>5. AnswerFirst'
    BY <1>3, <2>1, <2>2, <2>4 DEF Scan, AnswerFirst
  <2>6. Coming'
    <3> SUFFICES ASSUME conn = "open", phase' # "gone", regAt # -1, pending > regAt,
                        hb # "send"
                 PROVE  \/ Has(Tail(Whole), Frame("ping", pending))
                        \/ Has(up, Frame("pong", pending))
      BY <2>1, <2>2 DEF Coming
    <3>1. Has(Whole, Frame("ping", pending)) \/ Has(up, Frame("pong", pending))
      BY <2>1 DEF Delivery, Coming
    <3>2. Head(Whole) # Frame("ping", pending)
      BY <2>4 DEF Frame
    <3> QED BY <1>w, <3>1, <3>2, HasTail
  <2> QED BY <1>f, <2>3, <2>5, <2>6 DEF Delivery
<1>4. CASE Dispatch
  <2>1. /\ inbuf # <<>> /\ inbuf' = Tail(inbuf) /\ phase = "dispatch"
        /\ phase' \in {"run", "dispatch"}
        /\ UNCHANGED <<conn, down, buf, queue, hb, pending, regAt>>
    BY <1>4 DEF Dispatch
  <2>2. Head(Whole) = Head(inbuf) /\ Whole' = Tail(Whole)
    BY <1>t, <2>1, WholeTaken
  <2>3. Unanswered' /\ AnswerFirst'
    BY <2>1 DEF Unanswered, AnswerFirst
  <2>4. Coming'
    <3> SUFFICES ASSUME conn = "open", regAt # -1, pending > regAt, hb # "send"
                 PROVE  \/ Has(Tail(Whole), Frame("ping", pending))
                        \/ Has(up', Frame("pong", pending))
      BY <2>1, <2>2 DEF Coming
    <3>1. Has(Whole, Frame("ping", pending)) \/ Has(up, Frame("pong", pending))
      BY <2>1 DEF Delivery, Coming
    <3>2. Has(up, Frame("pong", pending)) => Has(up', Frame("pong", pending))
      <4>1. CASE Head(inbuf).type = "ping"
        <5>1. Head(inbuf) \in Messages
          BY <1>t, <2>1, HeadTailProperties
        <5>2. Frame("pong", Head(inbuf).nonce) \in Replies
          BY <5>1 DEF Messages, Replies, Frame
        <5>3. up' = Append(up, Frame("pong", Head(inbuf).nonce))
          BY <1>4, <4>1 DEF Dispatch
        <5> QED BY <1>t, <5>2, <5>3, HasAppend
      <4>2. CASE Head(inbuf).type # "ping"
        BY <1>4, <4>2 DEF Dispatch
      <4> QED BY <4>1, <4>2
    <3>3. CASE Head(Whole) = Frame("ping", pending)
      <4>1. Head(inbuf).type = "ping" /\ Head(inbuf).nonce = pending
        BY <2>2, <3>3 DEF Frame
      <4>2. up' = Append(up, Frame("pong", pending))
        BY <1>4, <4>1 DEF Dispatch
      <4>3. Frame("pong", pending) \in Replies
        <5>1. pending \in 0..MaxPings
          BY PingsAssumption DEF TypeOK
        <5> QED BY <5>1 DEF Frame, Replies
      <4> QED BY <1>t, <4>2, <4>3, HasAppend
    <3>4. CASE Head(Whole) # Frame("ping", pending)
      BY <1>w, <3>1, <3>2, <3>4, HasTail
    <3> QED BY <3>3, <3>4
  <2> QED BY <1>f, <2>3, <2>4 DEF Delivery
<1>5. CASE Drop
  BY <1>5, <1>f DEF Drop, Delivery, Unanswered, AnswerFirst, Coming
<1> QED
  BY <1>1, <1>2, <1>3, <1>4, <1>5 DEF RegisterRead, Read

\* A step that changes nothing keeps it.
LEMMA StutterDelivery ==
  ASSUME Delivery, UNCHANGED vars
  PROVE  Delivery'
<1> USE DEF vars, gatewayVars, heartbeatVars, backendVars, historyVars, Delivery
<1>1. Flushed' /\ Unanswered' /\ UNCHANGED Whole
  BY DEF Flushed, Unanswered, Whole
<1>2. AnswerFirst'
  BY <1>1 DEF AnswerFirst
<1>3. Coming'
  BY <1>1 DEF Coming
<1> QED
  BY <1>1, <1>2, <1>3

\* A ping on its way is in one of the places it passes.
LEMMA DeliveryUnderway ==
  ASSUME TypeOK, Delivery
  PROVE  PingUnderway
<1> SUFFICES ASSUME conn = "open", phase # "gone", regAt # -1, pending > regAt,
                    hb # "send"
             PROVE  Underway(pending)
  BY DEF PingUnderway
<1> DEFINE m == Frame("ping", pending)
<1>1. CASE Has(up, Frame("pong", pending))
  BY <1>1 DEF Underway
<1>2. CASE Has(Whole, m)
  <2>1. /\ inbuf \in Seq(Messages) /\ down \in Seq(Messages)
        /\ buf \in Seq(Messages) /\ queue \in Seq(Messages)
    BY DEF TypeOK
  <2>2. buf \o queue \in Seq(Messages) /\ down \o (buf \o queue) \in Seq(Messages)
    BY <2>1, ConcatProperties
  <2>3. Has(inbuf, m) \/ Has(down \o (buf \o queue), m)
    BY <1>2, <2>1, <2>2, HasConcat DEF Whole
  <2>4. Has(down \o (buf \o queue), m) => Has(down, m) \/ Has(buf \o queue, m)
    BY <2>1, <2>2, HasConcat
  <2>5. Has(buf \o queue, m) => Has(buf, m) \/ Has(queue, m)
    BY <2>1, HasConcat
  <2>6. Has(buf, m) => writer = "flush"
    <3>1. Len(<<>>) = 0 /\ 1..0 = {}
      BY EmptySeq
    <3>2. ~Has(<<>>, m)
      BY <3>1 DEF Has
    <3> QED BY <3>2 DEF Delivery, Flushed, TypeOK
  <2> QED BY <2>3, <2>4, <2>5, <2>6 DEF Underway
<1>3. Has(Whole, m) \/ Has(up, Frame("pong", pending))
  BY DEF Delivery, Coming
<1> QED
  BY <1>1, <1>2, <1>3

----------------------------------------------------------------------------
\* The order of the frames keeps every ping deliverable.
THEOREM DeliveryInvariant == Spec => [](IInv /\ Delivery)
<1>1. Init => IInv /\ Delivery
  BY InitIInv, InitDelivery
<1>2. IInv /\ Delivery /\ [Next]_vars => (IInv /\ Delivery)'
  <2> SUFFICES ASSUME IInv, Delivery, [Next]_vars
               PROVE  IInv' /\ Delivery'
    OBVIOUS
  <2>1. IInv'
    BY HeartbeatIInv, SessionIInv, ReadIInv, BackendIInv, StutterIInv DEF Next
  <2>2. TypeOK /\ PendingIsLast
    BY DEF IInv
  <2> QED
    BY <2>1, <2>2, HeartbeatDelivery, SessionDelivery, ReadDelivery, BackendDelivery,
       StutterDelivery DEF Next
<1> QED
  BY <1>1, <1>2, PTL DEF Spec

\* No ping that is sent after the registration was answered gets lost: it, or
\* the pong to it, is on its way until it is acknowledged.
THEOREM HeartbeatPingUnderway == Spec => []PingUnderway
<1>1. IInv /\ Delivery => PingUnderway
  BY DeliveryUnderway DEF IInv
<1> QED
  BY <1>1, DeliveryInvariant, PTL

============================================================================
