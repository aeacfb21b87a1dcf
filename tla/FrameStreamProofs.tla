------------------------- MODULE FrameStreamProofs --------------------------
(***************************************************************************)
(* Proofs about FrameStream: however the bytes are cut, whatever the       *)
(* lengths of the frames and the sizes of the buffers, the readers hand    *)
(* over the frames that were sent, whole and in order (FrameQueue), close  *)
(* only for cause, and always have room for the next recv.                 *)
(***************************************************************************)
EXTENDS FrameStream, SequenceTheorems, FiniteSetTheorems, TLAPS

\* The bytes that a frame takes in the stream.
FrameLen(f) == IF f.len >= LenSize THEN f.len ELSE LenSize

AllBytes == Frames \X Nat

Kinds == {"data", "resp", "ping"}

----------------------------------------------------------------------------
(* The inductive invariant *)

\* The bytes that the receiver has not yet made into frames, in b, are those of
\* the frames of q one after another: the frame q[j] begins at at[j].  Of the
\* first one `taken` bytes are not in b any more.
Layout(at, q, b, taken) ==
    /\ at \in [1 .. Len(q) + 1 -> Int]
    /\ at[1] = 1 - taken
    /\ \A j \in 1 .. Len(q) : at[j + 1] = at[j] + FrameLen(q[j])
    /\ \A i, j \in 1 .. Len(q) + 1 : i < j => at[i] < at[j]
    /\ Len(b) < at[Len(q) + 1]
    /\ \A j \in 1 .. Len(q), i \in 1 .. Len(b) :
          at[j] <= i /\ i < at[j + 1] => b[i] = <<q[j], i - at[j] + 1>>

\* The sender has still to write what comes after b: the last frames of q, but
\* for the first o bytes of the first of them.
Unwritten(at, q, b, s, o) ==
    LET n == Len(q) - Len(s)
    IN /\ n \in 0 .. Len(q)
       /\ \A j \in 1 .. Len(s) : s[j] = q[n + j]
       /\ Len(b) + 1 = at[n + 1] + o
       /\ o \in Nat
       /\ IF s = <<>> THEN o = 0 ELSE o < FrameLen(s[1])

\* The bytes of the frame at the head of the queue that were taken out of the
\* buffer into expected_packet_, and the length field.
Taken == IF size = 0 THEN 0 ELSE LenSize + Len(pkt)

Stream ==
    \E at \in [1 .. Len(queue) + 1 -> Int] :
        /\ Layout(at, queue, buf \o wire, Taken)
        /\ IF fin THEN sendq = <<>> /\ off = 0
                  ELSE Unwritten(at, queue, buf \o wire, sendq, off)

\* The packet that yasio is putting together is the frame at the head.
Packet ==
    \/ size = 0 /\ pkt = <<>>
    \/ /\ reader = "yasio"
       /\ queue # <<>>
       /\ size = queue[1].len
       /\ Taken < size
       /\ \A i \in 1 .. Len(pkt) : pkt[i] = <<queue[1], LenSize + i>>

Types ==
    /\ reader \in {"yasio", "client", "server"}
    /\ queue \in Seq(Frames)
    /\ sendq \in Seq(Frames)
    /\ off \in Nat
    /\ buf \in Seq(AllBytes)
    /\ wire \in Seq(AllBytes)
    /\ pkt \in Seq(AllBytes)
    /\ size \in 0 .. MaxLen
    /\ phase \in {"register", "registering", "read", "extract"}
    /\ got \in Ids \cup {None}
    /\ answer \in BOOLEAN
    /\ fin \in BOOLEAN
    /\ open \in BOOLEAN

\* A ping is sent beyond the bound, if there is none in flight.
Flight ==
    \/ Len(queue) <= MaxFlight
    \/ Len(queue) = MaxFlight + 1 /\ Pings # {}

StreamInv ==
    /\ Types
    /\ Flight
    /\ RoomToRead
    /\ IF open THEN Stream /\ Packet ELSE queue = <<>> /\ sendq = <<>> /\ off = 0

----------------------------------------------------------------------------
(* Numbers, bytes and sequences *)

LEMMA MaxTwo ==
    ASSUME NEW a \in Int, NEW b \in Int
    PROVE  Max({a, b}) = IF a >= b THEN a ELSE b
BY DEF Max

LEMMA MinTwo ==
    ASSUME NEW a \in Int, NEW b \in Int
    PROVE  Min({a, b}) = IF a <= b THEN a ELSE b
BY DEF Min

\* The bytes of a frame, one by one.
LEMMA BytesOf ==
    ASSUME NEW f \in Frames
    PROVE  /\ FrameLen(f) \in Nat \ {0}
           /\ Bytes(f) \in Seq(AllBytes)
           /\ Len(Bytes(f)) = FrameLen(f)
           /\ \A i \in 1 .. FrameLen(f) : Bytes(f)[i] = <<f, i>>
<1>1. f.len \in Nat
  BY StreamAssumptions DEF Frames
<1>2. Max({f.len, LenSize}) = FrameLen(f)
  BY <1>1, MaxTwo, StreamAssumptions DEF FrameLen
<1>3. FrameLen(f) \in Nat \ {0}
  BY <1>1, StreamAssumptions DEF FrameLen
<1>4. Bytes(f) = [k \in 1 .. FrameLen(f) |-> <<f, k>>]
  BY <1>2 DEF Bytes
<1>5. [k \in 1 .. FrameLen(f) |-> <<f, k>>] \in Seq(Frames \X Nat)
  BY <1>3
<1> QED BY <1>3, <1>4, <1>5 DEF AllBytes

\* A part of a sequence.
LEMMA PartOf ==
    ASSUME NEW S, NEW s \in Seq(S), NEW m \in Nat, NEW n \in 0 .. Len(s)
    PROVE  /\ SubSeq(s, m + 1, n) \in Seq(S)
           /\ Len(SubSeq(s, m + 1, n)) = IF m < n THEN n - m ELSE 0
           /\ \A i \in 1 .. n - m : SubSeq(s, m + 1, n)[i] = s[m + i]
<1>1. \A i \in m + 1 .. n : s[i] \in S
  BY ElementOfSeq
<1> QED BY <1>1, SubSeqProperties

\* A concatenation, byte by byte.
LEMMA JoinOf ==
    ASSUME NEW S, NEW s \in Seq(S), NEW t \in Seq(S)
    PROVE  /\ s \o t \in Seq(S)
           /\ Len(s \o t) = Len(s) + Len(t)
           /\ \A i \in 1 .. Len(s) : (s \o t)[i] = s[i]
           /\ \A i \in 1 .. Len(t) : (s \o t)[Len(s) + i] = t[i]
           /\ \A i \in 1 .. Len(s) + Len(t) :
                 (s \o t)[i] = IF i <= Len(s) THEN s[i] ELSE t[i - Len(s)]
  OBVIOUS

\* The first n bytes of r go to the end of b, which changes nothing of b \o r.
Moves(b, r, n) == (b \o SubSeq(r, 1, n)) \o SubSeq(r, n + 1, Len(r)) = b \o r

\* Reading n bytes takes them from the wire to the end of the buffer.
LEMMA ReadMoves ==
    ASSUME NEW S, NEW b \in Seq(S), NEW r \in Seq(S), NEW n \in 0 .. Len(r)
    PROVE  /\ Moves(b, r, n)
           /\ b \o SubSeq(r, 1, n) \in Seq(S)
           /\ Len(b \o SubSeq(r, 1, n)) = Len(b) + n
           /\ SubSeq(r, n + 1, Len(r)) \in Seq(S)
<1> DEFINE x == SubSeq(r, 1, n)
           y == SubSeq(r, n + 1, Len(r))
<1>1. x \in Seq(S)
  OBVIOUS
<1>2. Len(x) = n
  OBVIOUS
<1>3. y \in Seq(S)
  OBVIOUS
<1>4. x \o y = r
  <2>1. /\ 1 \in 1 .. Len(r) + 1
        /\ n \in 1 - 1 .. Len(r)
        /\ Len(r) \in n .. Len(r)
    OBVIOUS
  <2>2. SubSeq(r, 1, n) \o SubSeq(r, n + 1, Len(r)) = SubSeq(r, 1, Len(r))
    BY <2>1, ConcatAdjacentSubSeq
  <2> QED BY <2>2, SubSeqFull
<1> HIDE DEF x, y
<1>5. (b \o x) \o y = b \o (x \o y)
  BY <1>1, <1>3, ConcatAssociative, SMTT(30)
<1>6. b \o x \in Seq(S)
  BY <1>1
<1>7. Len(b \o x) = Len(b) + n
  BY <1>1, <1>2
<1>8. Moves(b, r, n)
  BY <1>4, <1>5 DEF x, y, Moves
<1> QED BY <1>3, <1>6, <1>7, <1>8 DEF x, y

\* Taking m bytes off the buffer takes them off the stream.
LEMMA TakeMoves ==
    ASSUME NEW S, NEW b \in Seq(S), NEW r \in Seq(S), NEW m \in 0 .. Len(b)
    PROVE  /\ SubSeq(b, m + 1, Len(b)) \o r = SubSeq(b \o r, m + 1, Len(b \o r))
           /\ SubSeq(b, m + 1, Len(b)) \in Seq(S)
           /\ Len(SubSeq(b, m + 1, Len(b))) = Len(b) - m
           /\ m \in 0 .. Len(b \o r)
<1> DEFINE x == SubSeq(b, m + 1, Len(b))
           w == b \o r
           y == SubSeq(w, m + 1, Len(w))
<1>0. Len(b) \in Nat /\ Len(r) \in Nat
  OBVIOUS
<1>1. w \in Seq(S) /\ Len(w) = Len(b) + Len(r)
  OBVIOUS
<1>2. \A i \in 1 .. Len(b) + Len(r) : w[i] = IF i <= Len(b) THEN b[i] ELSE r[i - Len(b)]
  OBVIOUS
<1>3. x \in Seq(S) /\ Len(x) = Len(b) - m
  OBVIOUS
<1>4. \A i \in 1 .. Len(b) - m : x[i] = b[m + i]
  OBVIOUS
<1> HIDE DEF w
<1>5. m \in 0 .. Len(w)
  BY <1>0, <1>1
<1>6. y \in Seq(S) /\ Len(y) = Len(w) - m
  BY <1>1, <1>5
<1>7. \A i \in 1 .. Len(w) - m : y[i] = w[m + i]
  BY <1>1, <1>5
<1> HIDE DEF x, y
<1>8. x \o r \in Seq(S) /\ Len(x \o r) = Len(x) + Len(r)
  BY <1>3, JoinOf
<1>9. ASSUME NEW i \in 1 .. Len(x \o r) PROVE (x \o r)[i] = y[i]
  <2>1. i \in 1 .. Len(x) + Len(r) /\ i \in 1 .. Len(w) - m
    BY <1>0, <1>1, <1>3, <1>8
  <2>2. (x \o r)[i] = IF i <= Len(x) THEN x[i] ELSE r[i - Len(x)]
    BY <1>3, <2>1, JoinOf, SMTT(20)
  <2>3. y[i] = w[m + i]
    BY <1>7, <2>1
  <2>4. w[m + i] = IF m + i <= Len(b) THEN b[m + i] ELSE r[m + i - Len(b)]
    <3>1. m + i \in 1 .. Len(b) + Len(r)
      BY <1>0, <1>1, <2>1
    <3> QED BY <1>2, <3>1
  <2>5. CASE i <= Len(x)
    BY <1>0, <1>3, <1>4, <2>2, <2>3, <2>4, <2>5
  <2>6. CASE i > Len(x)
    <3>1. m + i - Len(b) = i - Len(x) /\ ~(m + i <= Len(b)) /\ ~(i <= Len(x))
      BY <1>0, <1>3, <2>1, <2>6
    <3> QED BY <2>2, <2>3, <2>4, <3>1
  <2> QED BY <1>0, <1>3, <2>1, <2>5, <2>6
<1>10. Len(x \o r) = Len(y)
  BY <1>0, <1>1, <1>3, <1>6, <1>8
<1>11. x \o r = y
  BY <1>6, <1>8, <1>9, <1>10, SeqEqual
<1> QED BY <1>3, <1>5, <1>11 DEF x, y, w

----------------------------------------------------------------------------
(* The layout of the stream *)

\* What is read first belongs to the first frame.
LEMMA LayoutHead ==
    ASSUME NEW q \in Seq(Frames), NEW b \in Seq(AllBytes), NEW taken \in Nat,
           NEW at, Layout(at, q, b, taken),
           q # <<>> => taken < FrameLen(q[1]),
           Len(b) > 0
    PROVE  /\ q # <<>> /\ q[1] \in Frames
           /\ \A i \in 1 .. Len(b) :
                 taken + i <= FrameLen(q[1]) => b[i] = <<q[1], taken + i>>
<1>a. at \in [1 .. Len(q) + 1 -> Int]
  BY DEF Layout
<1>b. at[1] = 1 - taken
  BY DEF Layout
<1>c. \A j \in 1 .. Len(q) : at[j + 1] = at[j] + FrameLen(q[j])
  BY DEF Layout
<1>d. \A i, j \in 1 .. Len(q) + 1 : i < j => at[i] < at[j]
  BY DEF Layout
<1>e. Len(b) < at[Len(q) + 1]
  BY DEF Layout
<1>f. \A j \in 1 .. Len(q), i \in 1 .. Len(b) :
         at[j] <= i /\ i < at[j + 1] => b[i] = <<q[j], i - at[j] + 1>>
  BY DEF Layout
<1>1. q # <<>>
  BY <1>b, <1>e
<1>2. 1 \in 1 .. Len(q) /\ q[1] \in Frames
  BY <1>1
<1>3. FrameLen(q[1]) \in Nat
  BY <1>2, BytesOf
<1>4. at[1 + 1] = at[1] + FrameLen(q[1])
  BY <1>2, <1>c
<1>5. \A i \in 1 .. Len(b) :
         at[1] <= i /\ i < at[1 + 1] => b[i] = <<q[1], i - at[1] + 1>>
  BY <1>2, <1>f
<1>6. ASSUME NEW i \in 1 .. Len(b), taken + i <= FrameLen(q[1])
      PROVE  b[i] = <<q[1], taken + i>>
  <2>1. at[1] <= i /\ i < at[1 + 1] /\ i - at[1] + 1 = taken + i
    BY <1>3, <1>4, <1>6, <1>b
  <2> QED BY <1>5, <2>1
<1> QED BY <1>1, <1>2, <1>6

\* Bytes are taken off the front.
LEMMA LayoutTake ==
    ASSUME NEW q \in Seq(Frames), NEW b \in Seq(AllBytes), NEW taken \in Nat,
           NEW at, Layout(at, q, b, taken), NEW m \in 0 .. Len(b)
    PROVE  LET back == [j \in 1 .. Len(q) + 1 |-> at[j] - m]
               rest == SubSeq(b, m + 1, Len(b))
           IN  /\ Layout(back, q, rest, taken + m)
               /\ \A s, o : Unwritten(at, q, b, s, o) => Unwritten(back, q, rest, s, o)
<1> DEFINE back == [j \in 1 .. Len(q) + 1 |-> at[j] - m]
           rest == SubSeq(b, m + 1, Len(b))
<1>a. at \in [1 .. Len(q) + 1 -> Int]
  BY DEF Layout
<1>b. at[1] = 1 - taken
  BY DEF Layout
<1>c. \A j \in 1 .. Len(q) : at[j + 1] = at[j] + FrameLen(q[j])
  BY DEF Layout
<1>d. \A i, j \in 1 .. Len(q) + 1 : i < j => at[i] < at[j]
  BY DEF Layout
<1>e. Len(b) < at[Len(q) + 1]
  BY DEF Layout
<1>f. \A j \in 1 .. Len(q), i \in 1 .. Len(b) :
         at[j] <= i /\ i < at[j + 1] => b[i] = <<q[j], i - at[j] + 1>>
  BY DEF Layout
<1>1. Len(rest) = Len(b) - m /\ \A i \in 1 .. Len(b) - m : rest[i] = b[m + i]
  OBVIOUS
<1>2. \A j \in 1 .. Len(q) : FrameLen(q[j]) \in Nat
  BY BytesOf
<1>3. \A j \in 1 .. Len(q) + 1 : at[j] \in Int /\ back[j] = at[j] - m
  BY <1>a
<1>4. back \in [1 .. Len(q) + 1 -> Int]
  BY <1>3
<1> HIDE DEF back, rest
<1>5. Layout(back, q, rest, taken + m)
  <2>1. back[1] = 1 - (taken + m)
    <3>1. 1 \in 1 .. Len(q) + 1
      OBVIOUS
    <3>2. back[1] = at[1] - m
      BY <1>3, <3>1
    <3> QED BY <1>b, <3>2
  <2>2. Len(rest) < back[Len(q) + 1]
    BY <1>1, <1>3, <1>e
  <2>3. ASSUME NEW j \in 1 .. Len(q) PROVE back[j + 1] = back[j] + FrameLen(q[j])
    <3>1. j \in 1 .. Len(q) + 1 /\ j + 1 \in 1 .. Len(q) + 1
      OBVIOUS
    <3>2. at[j + 1] = at[j] + FrameLen(q[j])
      BY <1>c
    <3>6. at[j] \in Int /\ at[j + 1] \in Int
      BY <1>3, <3>1
    <3>7. FrameLen(q[j]) \in Int
      BY <1>2
    <3>3. PICK a \in Int, c \in Int, l \in Int : a = at[j] /\ c = at[j + 1] /\ l = FrameLen(q[j])
      BY <3>6, <3>7, Zenon
    <3>4. back[j] = a - m /\ back[j + 1] = c - m /\ c = a + l
      BY <1>3, <3>1, <3>2, <3>3
    <3>5. c - m = (a - m) + l
      BY <3>4
    <3> QED BY <3>3, <3>4, <3>5
  <2>4. ASSUME NEW i \in 1 .. Len(q) + 1, NEW j \in 1 .. Len(q) + 1, i < j
        PROVE  back[i] < back[j]
    <3>1. at[i] \in Int /\ at[j] \in Int /\ back[i] = at[i] - m /\ back[j] = at[j] - m
      BY <1>3
    <3>2. at[i] < at[j]
      BY <1>d, <2>4
    <3>3. PICK a \in Int, c \in Int : a = at[i] /\ c = at[j]
      BY <3>1, Zenon
    <3>4. a - m < c - m
      BY <3>2, <3>3
    <3> QED BY <3>1, <3>3, <3>4
  <2>5. ASSUME NEW j \in 1 .. Len(q), NEW i \in 1 .. Len(rest),
               back[j] <= i, i < back[j + 1]
        PROVE  rest[i] = <<q[j], i - back[j] + 1>>
    <3>1. j \in 1 .. Len(q) + 1 /\ j + 1 \in 1 .. Len(q) + 1
      OBVIOUS
    <3>2. /\ at[j] \in Int /\ back[j] = at[j] - m
          /\ at[j + 1] \in Int /\ back[j + 1] = at[j + 1] - m
      BY <1>3, <3>1
    <3>6. PICK a \in Int, c \in Int : a = at[j] /\ c = at[j + 1]
      BY <3>2, Zenon
    <3>7. a - m <= i /\ i < c - m
      BY <2>5, <3>2, <3>6
    <3>8. a <= m + i /\ m + i < c
      BY <3>7
    <3>9. m + i \in 1 .. Len(b)
      BY <1>1
    <3>3. m + i \in 1 .. Len(b) /\ at[j] <= m + i /\ m + i < at[j + 1]
      BY <3>6, <3>8, <3>9
    <3>4. b[m + i] = <<q[j], (m + i) - at[j] + 1>>
      BY <1>f, <3>3
    <3>5. (m + i) - at[j] + 1 = i - back[j] + 1 /\ rest[i] = b[m + i]
      BY <1>1, <3>2
    <3> QED BY <3>4, <3>5
  <2> QED BY <1>4, <2>1, <2>2, <2>3, <2>4, <2>5 DEF Layout
<1>6. ASSUME NEW s, NEW o, Unwritten(at, q, b, s, o)
      PROVE  Unwritten(back, q, rest, s, o)
  <2> DEFINE n == Len(q) - Len(s)
  <2>1. n \in 0 .. Len(q) /\ Len(b) + 1 = at[n + 1] + o /\ o \in Nat
    BY <1>6 DEF Unwritten
  <2> HIDE DEF n
  <2>2. n + 1 \in 1 .. Len(q) + 1
    BY <2>1
  <2>3. Len(rest) + 1 = back[n + 1] + o
    <3>1. at[n + 1] \in Int /\ back[n + 1] = at[n + 1] - m
      BY <1>3, <2>2
    <3>2. Len(rest) = Len(b) - m /\ Len(b) \in Int /\ m \in Int
      BY <1>1
    <3>3. Len(b) + 1 = at[n + 1] + o /\ o \in Int
      BY <2>1
    <3> QED BY <3>1, <3>2, <3>3
  <2> QED BY <1>6, <2>3 DEF Unwritten, n
<1> QED BY <1>5, <1>6 DEF back, rest

\* A frame that was taken off as a whole leaves the queue; it was all written.
LEMMA LayoutDrop ==
    ASSUME NEW q \in Seq(Frames), q # <<>>, NEW b \in Seq(AllBytes),
           NEW at, NEW taken, taken = FrameLen(q[1]), Layout(at, q, b, taken)
    PROVE  LET next == [j \in 1 .. Len(Tail(q)) + 1 |-> at[j + 1]]
           IN  /\ Layout(next, Tail(q), b, 0)
               /\ \A s, o : Unwritten(at, q, b, s, o) => Unwritten(next, Tail(q), b, s, o)
<1> DEFINE r == Tail(q)
           next == [j \in 1 .. Len(r) + 1 |-> at[j + 1]]
<1>a. at \in [1 .. Len(q) + 1 -> Int]
  BY DEF Layout
<1>b. at[1] = 1 - taken
  BY DEF Layout
<1>c. \A j \in 1 .. Len(q) : at[j + 1] = at[j] + FrameLen(q[j])
  BY DEF Layout
<1>d. \A i, j \in 1 .. Len(q) + 1 : i < j => at[i] < at[j]
  BY DEF Layout
<1>e. Len(b) < at[Len(q) + 1]
  BY DEF Layout
<1>f. \A j \in 1 .. Len(q), i \in 1 .. Len(b) :
         at[j] <= i /\ i < at[j + 1] => b[i] = <<q[j], i - at[j] + 1>>
  BY DEF Layout
<1>1. Len(r) = Len(q) - 1 /\ \A i \in 1 .. Len(r) : r[i] = q[i + 1]
  OBVIOUS
<1>2. \A j \in 1 .. Len(q) : FrameLen(q[j]) \in Nat
  BY BytesOf
<1>0. 1 \in 1 .. Len(q)
  OBVIOUS
<1> HIDE DEF r
<1>3. ASSUME NEW j \in 1 .. Len(r) + 1
      PROVE  j + 1 \in 1 .. Len(q) + 1 /\ at[j + 1] \in Int /\ next[j] = at[j + 1]
  <2>1. Len(r) = Len(q) - 1 /\ Len(q) \in Nat
    BY <1>1
  <2>2. j + 1 \in 1 .. Len(q) + 1
    BY <2>1
  <2> QED BY <1>a, <2>2
<1>4. next \in [1 .. Len(r) + 1 -> Int]
  BY <1>3
<1>5. at[1 + 1] = 1
  BY <1>0, <1>2, <1>b, <1>c
<1> HIDE DEF next
<1>6. Layout(next, r, b, 0)
  <2>1. next[1] = 1 - 0
    BY <1>1, <1>3, <1>5
  <2>2. Len(b) < next[Len(r) + 1]
    BY <1>1, <1>3, <1>e
  <2>3. ASSUME NEW j \in 1 .. Len(r) PROVE next[j + 1] = next[j] + FrameLen(r[j])
    <3>1. j + 1 \in 1 .. Len(q) /\ j \in 1 .. Len(r) + 1 /\ j + 1 \in 1 .. Len(r) + 1
      BY <1>1
    <3>2. at[j + 1 + 1] = at[j + 1] + FrameLen(q[j + 1])
      BY <1>c, <3>1
    <3> QED BY <1>1, <1>3, <3>1, <3>2
  <2>4. ASSUME NEW i \in 1 .. Len(r) + 1, NEW j \in 1 .. Len(r) + 1, i < j
        PROVE  next[i] < next[j]
    <3>1. /\ i + 1 \in 1 .. Len(q) + 1 /\ j + 1 \in 1 .. Len(q) + 1 /\ i + 1 < j + 1
          /\ next[i] = at[i + 1] /\ next[j] = at[j + 1]
      BY <1>3, <2>4
    <3> QED BY <1>d, <3>1
  <2>5. ASSUME NEW j \in 1 .. Len(r), NEW i \in 1 .. Len(b),
               next[j] <= i, i < next[j + 1]
        PROVE  b[i] = <<r[j], i - next[j] + 1>>
    <3>1. j + 1 \in 1 .. Len(q) /\ j \in 1 .. Len(r) + 1 /\ j + 1 \in 1 .. Len(r) + 1
      BY <1>1
    <3>2. at[j + 1] <= i /\ i < at[j + 1 + 1] /\ next[j] = at[j + 1]
      BY <1>3, <2>5, <3>1
    <3>3. b[i] = <<q[j + 1], i - at[j + 1] + 1>>
      BY <1>f, <3>1, <3>2
    <3> QED BY <1>1, <3>2, <3>3
  <2> QED BY <1>4, <2>1, <2>2, <2>3, <2>4, <2>5 DEF Layout
<1>7. ASSUME NEW s, NEW o, Unwritten(at, q, b, s, o)
      PROVE  Unwritten(next, r, b, s, o)
  <2> DEFINE n == Len(q) - Len(s)
  <2>1. /\ n \in 0 .. Len(q) /\ Len(b) + 1 = at[n + 1] + o /\ o \in Nat
        /\ \A j \in 1 .. Len(s) : s[j] = q[n + j]
        /\ IF s = <<>> THEN o = 0 ELSE o < FrameLen(s[1])
    BY <1>7 DEF Unwritten
  <2>0. Len(s) = Len(q) - n
    BY <2>1, SMT
  <2> HIDE DEF n
  <2>2. n # 0
    <3> SUFFICES ASSUME n = 0 PROVE FALSE
      OBVIOUS
    <3>1. s # <<>> /\ s[1] = q[1]
      BY <1>0, <2>0, <2>1
    <3>2. o < FrameLen(q[1])
      BY <2>1, <3>1
    <3>3. Len(b) + 1 = 1 - FrameLen(q[1]) + o
      BY <2>1, <1>b
    <3> QED BY <1>0, <1>2, <2>1, <3>2, <3>3
  <2>3. Len(r) - Len(s) = n - 1 /\ n - 1 \in 0 .. Len(r) /\ n \in 1 .. Len(r) + 1
    BY <1>1, <2>0, <2>1, <2>2
  <2>4. ASSUME NEW j \in 1 .. Len(s) PROVE s[j] = r[(Len(r) - Len(s)) + j]
    <3>1. s[j] = q[n + j] /\ (n - 1) + j \in 1 .. Len(r)
      BY <1>1, <2>0, <2>1, <2>2
    <3>2. r[(n - 1) + j] = q[(n - 1) + j + 1]
      BY <1>1, <3>1
    <3>3. (n - 1) + j + 1 = n + j
      BY <2>1
    <3> QED BY <2>3, <3>1, <3>2, <3>3
  <2>5. Len(b) + 1 = next[(Len(r) - Len(s)) + 1] + o
    <3>1. next[n] = at[n + 1] /\ (n - 1) + 1 = n
      BY <1>3, <2>1, <2>3
    <3> QED BY <2>1, <2>3, <3>1
  <2> QED BY <2>1, <2>3, <2>4, <2>5 DEF Unwritten
<1> QED BY <1>6, <1>7 DEF next, r

\* A frame is sent: its bytes come after all the others.
LEMMA LayoutSend ==
    ASSUME NEW q \in Seq(Frames), NEW b \in Seq(AllBytes), NEW taken \in Nat,
           NEW at, Layout(at, q, b, taken), NEW f \in Frames
    PROVE  LET longer == [j \in 1 .. Len(q) + 2 |->
                            IF j = Len(q) + 2 THEN at[Len(q) + 1] + FrameLen(f) ELSE at[j]]
           IN  /\ Layout(longer, Append(q, f), b, taken)
               /\ \A s \in Seq(Frames) : \A o : Unwritten(at, q, b, s, o) =>
                     Unwritten(longer, Append(q, f), b, Append(s, f), o)
<1> DEFINE r == Append(q, f)
           longer == [j \in 1 .. Len(q) + 2 |->
                        IF j = Len(q) + 2 THEN at[Len(q) + 1] + FrameLen(f) ELSE at[j]]
<1>a. at \in [1 .. Len(q) + 1 -> Int]
  BY DEF Layout
<1>b. at[1] = 1 - taken
  BY DEF Layout
<1>c. \A j \in 1 .. Len(q) : at[j + 1] = at[j] + FrameLen(q[j])
  BY DEF Layout
<1>d. \A i, j \in 1 .. Len(q) + 1 : i < j => at[i] < at[j]
  BY DEF Layout
<1>e. Len(b) < at[Len(q) + 1]
  BY DEF Layout
<1>f. \A j \in 1 .. Len(q), i \in 1 .. Len(b) :
         at[j] <= i /\ i < at[j + 1] => b[i] = <<q[j], i - at[j] + 1>>
  BY DEF Layout
<1>0. Len(q) \in Nat /\ Len(b) \in Nat
  OBVIOUS
<1>1. Len(r) = Len(q) + 1 /\ r[Len(q) + 1] = f
  OBVIOUS
<1>2. \A j \in 1 .. Len(q) : r[j] = q[j]
  OBVIOUS
<1>3. FrameLen(f) \in Nat \ {0}
  BY BytesOf
<1>4. at[Len(q) + 1] \in Int
  BY <1>0, <1>a
<1>5. longer[Len(q) + 2] = at[Len(q) + 1] + FrameLen(f)
  BY <1>0
<1>6. ASSUME NEW j \in 1 .. Len(q) + 1
      PROVE  longer[j] = at[j] /\ at[j] \in Int /\ j \in 1 .. Len(r)
  BY <1>0, <1>1, <1>a
<1>7. longer \in [1 .. Len(r) + 1 -> Int]
  BY <1>0, <1>1, <1>3, <1>4, <1>a
<1> HIDE DEF r, longer
<1>8. Layout(longer, r, b, taken)
  <2>1. longer[1] = 1 - taken
    <3>1. 1 \in 1 .. Len(q) + 1
      BY <1>0
    <3> QED BY <1>6, <1>b, <3>1
  <2>2. Len(b) < longer[Len(r) + 1]
    <3>1. Len(r) + 1 = Len(q) + 2
      BY <1>0, <1>1
    <3> QED BY <1>0, <1>3, <1>4, <1>5, <1>e, <3>1
  <2>3. ASSUME NEW j \in 1 .. Len(r) PROVE longer[j + 1] = longer[j] + FrameLen(r[j])
    <3>1. CASE j \in 1 .. Len(q)
      <4>1. j \in 1 .. Len(q) + 1 /\ j + 1 \in 1 .. Len(q) + 1
        BY <1>0, <3>1
      <4>2. longer[j] = at[j] /\ longer[j + 1] = at[j + 1]
        BY <1>6, <4>1
      <4>3. at[j + 1] = at[j] + FrameLen(q[j]) /\ r[j] = q[j]
        BY <1>2, <1>c, <3>1
      <4> QED BY <4>2, <4>3
    <3>2. CASE j = Len(q) + 1
      <4>1. j \in 1 .. Len(q) + 1 /\ j + 1 = Len(q) + 2
        BY <1>0, <3>2
      <4>2. longer[j] = at[Len(q) + 1] /\ r[j] = f
        BY <1>1, <1>6, <3>2, <4>1
      <4> QED BY <1>5, <4>1, <4>2
    <3> QED BY <1>0, <1>1, <3>1, <3>2
  <2>4. ASSUME NEW i \in 1 .. Len(r) + 1, NEW j \in 1 .. Len(r) + 1, i < j
        PROVE  longer[i] < longer[j]
    <3>1. i \in 1 .. Len(q) + 1
      BY <1>0, <1>1, <2>4
    <3>2. longer[i] = at[i] /\ at[i] \in Int
      BY <1>6, <3>1
    <3>3. CASE j \in 1 .. Len(q) + 1
      <4>1. longer[j] = at[j]
        BY <1>6, <3>3
      <4> QED BY <1>d, <2>4, <3>1, <3>2, <3>3, <4>1
    <3>4. CASE j = Len(q) + 2
      <4>1. i = Len(q) + 1 \/ i < Len(q) + 1
        BY <1>0, <3>1
      <4>2. Len(q) + 1 \in 1 .. Len(q) + 1
        BY <1>0
      <4>3. at[i] <= at[Len(q) + 1]
        BY <1>4, <1>d, <3>1, <3>2, <4>1, <4>2
      <4> QED BY <1>3, <1>4, <1>5, <3>2, <3>4, <4>3
    <3> QED BY <1>0, <1>1, <3>3, <3>4
  <2>5. ASSUME NEW j \in 1 .. Len(r), NEW i \in 1 .. Len(b),
               longer[j] <= i, i < longer[j + 1]
        PROVE  b[i] = <<r[j], i - longer[j] + 1>>
    <3>1. CASE j \in 1 .. Len(q)
      <4>1. j \in 1 .. Len(q) + 1 /\ j + 1 \in 1 .. Len(q) + 1
        BY <1>0, <3>1
      <4>2. longer[j] = at[j] /\ longer[j + 1] = at[j + 1] /\ r[j] = q[j]
        BY <1>2, <1>6, <3>1, <4>1
      <4>3. at[j] <= i /\ i < at[j + 1]
        BY <2>5, <4>2
      <4>4. b[i] = <<q[j], i - at[j] + 1>>
        BY <1>f, <3>1, <4>3
      <4> QED BY <4>2, <4>4
    <3>2. CASE j = Len(q) + 1
      <4>1. j \in 1 .. Len(q) + 1
        BY <1>0, <3>2
      <4>2. longer[j] = at[Len(q) + 1]
        BY <1>6, <3>2, <4>1
      <4> QED BY <1>0, <1>4, <1>e, <2>5, <4>2
    <3> QED BY <1>0, <1>1, <3>1, <3>2
  <2> QED BY <1>7, <2>1, <2>2, <2>3, <2>4, <2>5 DEF Layout
<1>9. ASSUME NEW s \in Seq(Frames), NEW o, Unwritten(at, q, b, s, o)
      PROVE  Unwritten(longer, r, b, Append(s, f), o)
  <2> DEFINE n == Len(q) - Len(s)
             z == Append(s, f)
  <2>1. /\ n \in 0 .. Len(q) /\ Len(b) + 1 = at[n + 1] + o /\ o \in Nat
        /\ \A j \in 1 .. Len(s) : s[j] = q[n + j]
        /\ IF s = <<>> THEN o = 0 ELSE o < FrameLen(s[1])
    BY <1>9 DEF Unwritten
  <2>2. Len(z) = Len(s) + 1 /\ z[Len(s) + 1] = f /\ z # <<>>
    OBVIOUS
  <2>3. \A j \in 1 .. Len(s) : z[j] = s[j]
    OBVIOUS
  <2>0. Len(s) \in Nat
    OBVIOUS
  <2> HIDE DEF z
  <2>4. Len(r) - Len(z) = n
    BY <1>0, <1>1, <2>0, <2>2
  <2>5. n \in 0 .. Len(r) /\ n + 1 \in 1 .. Len(q) + 1
    BY <1>0, <1>1, <2>1
  <2>10. Len(s) = Len(q) - n
    BY <1>0, <2>0
  <2> HIDE DEF n
  <2>6. ASSUME NEW j \in 1 .. Len(z) PROVE z[j] = r[n + j]
    <3>1. CASE j \in 1 .. Len(s)
      <4>1. n + j \in 1 .. Len(q)
        BY <1>0, <2>1, <2>10, <3>1
      <4> QED BY <1>2, <2>1, <2>3, <3>1, <4>1
    <3>2. CASE j = Len(s) + 1
      <4>1. n + j = Len(q) + 1
        BY <1>0, <2>1, <2>10, <3>2
      <4> QED BY <1>1, <2>2, <3>2, <4>1
    <3> QED BY <2>0, <2>2, <3>1, <3>2
  <2>7. Len(b) + 1 = longer[n + 1] + o
    BY <1>6, <2>1, <2>5
  <2>8. o < FrameLen(z[1])
    <3>1. CASE s = <<>>
      <4>1. z[1] = f /\ o = 0
        BY <2>1, <2>2, <3>1
      <4> QED BY <1>3, <4>1
    <3>2. CASE s # <<>>
      <4>1. 1 \in 1 .. Len(s)
        BY <3>2
      <4> QED BY <2>1, <2>3, <3>2, <4>1
    <3> QED BY <3>1, <3>2
  <2>9. IF z = <<>> THEN o = 0 ELSE o < FrameLen(z[1])
    BY <2>2, <2>8
  <2> HIDE DEF z
  <2>11. Unwritten(longer, r, b, z, o)
    BY <2>1, <2>4, <2>5, <2>6, <2>7, <2>9 DEF Unwritten
  <2> QED BY <2>11 DEF z
<1> QED BY <1>8, <1>9 DEF longer, r

\* A write in numbers: of nq frames the k-th one, l bytes long, is the first that
\* is not all written; it begins at p, o bytes of it are among the nb that were
\* written, and now n more are.
WriteNumbers(nq, k, nb, p, l, o, n) ==
    /\ nq \in Nat /\ k \in 1 .. nq /\ nb \in Nat
    /\ p \in Int /\ l \in Nat
    /\ o \in Nat /\ n \in Nat /\ n >= 1
    /\ nb + 1 = p + o /\ o + n <= l

Writes(q, at, b, w, nq, k, nb, p, l, o, n) ==
    /\ WriteNumbers(nq, k, nb, p, l, o, n)
    /\ Len(q) = nq /\ Len(b) = nb /\ Len(w) = nb + n
    /\ p = at[k] /\ l = FrameLen(q[k])
    /\ \A i \in 1 .. nb : w[i] = b[i]
    /\ \A i \in 1 .. n : w[nb + i] = <<q[k], o + i>>

FirstLeft(at, s, nq, k, p, l) ==
    /\ s # <<>> /\ k = nq - Len(s) + 1
    /\ l = FrameLen(s[1]) /\ at[k + 1] = p + l

\* The bytes that are written keep the layout.
LEMMA LayoutGrow ==
    ASSUME NEW q, NEW at, NEW b, NEW w,
           NEW nq, NEW k, NEW nb, NEW p, NEW l, NEW o, NEW n,
           Writes(q, at, b, w, nq, k, nb, p, l, o, n),
           NEW taken, Layout(at, q, b, taken)
    PROVE  Layout(at, q, w, taken)
<1>0. /\ nq \in Nat /\ k \in 1 .. nq /\ nb \in Nat
      /\ p \in Int /\ l \in Nat
      /\ o \in Nat /\ n \in Nat /\ n >= 1
      /\ nb + 1 = p + o /\ o + n <= l
  BY DEF Writes, WriteNumbers
<1>1. ASSUME NEW h \in 1 .. n
      PROVE  /\ p <= nb + h /\ nb + h < p + l
             /\ nb + h - p + 1 = o + h
  BY <1>0
<1>2. \A i \in 1 .. nb + n : i \notin 1 .. nb => \E h \in 1 .. n : i = nb + h
  <2>1. ASSUME NEW i \in 1 .. nb + n, i \notin 1 .. nb
        PROVE  i - nb \in 1 .. n /\ i = nb + (i - nb)
    BY <1>0, <2>1
  <2> QED BY <2>1
<1>3. nb + n < p + l
  BY <1>0
<1>4. ASSUME NEW j \in 1 .. nq
      PROVE  /\ j \in 1 .. nq + 1 /\ j + 1 \in 1 .. nq + 1
             /\ k < j \/ j + 1 <= k \/ j = k
  BY <1>0
<1>5. nq + 1 \in 1 .. nq + 1 /\ k < nq + 1 /\ k \in 1 .. nq + 1 /\ k + 1 \in 1 .. nq + 1
  BY <1>0
<1>6. \A j \in 1 .. nq + 1 : /\ k < j => j = k + 1 \/ k + 1 < j
                             /\ j <= k => j = k \/ j < k
  BY <1>0
<1>7. /\ Len(q) = nq /\ Len(b) = nb /\ Len(w) = nb + n
      /\ Layout(at, q, b, taken)
      /\ p = at[k] /\ l = FrameLen(q[k])
      /\ \A i \in 1 .. nb : w[i] = b[i]
      /\ \A i \in 1 .. n : w[nb + i] = <<q[k], o + i>>
  BY DEF Writes
<1>a. at \in [1 .. nq + 1 -> Int]
  BY <1>7 DEF Layout
<1>b. at[1] = 1 - taken
  BY <1>7 DEF Layout
<1>c. \A j \in 1 .. nq : at[j + 1] = at[j] + FrameLen(q[j])
  BY <1>7 DEF Layout
<1>d. \A i, j \in 1 .. nq + 1 : i < j => at[i] < at[j]
  BY <1>7 DEF Layout
<1>f. \A j \in 1 .. nq, i \in 1 .. nb :
         at[j] <= i /\ i < at[j + 1] => b[i] = <<q[j], i - at[j] + 1>>
  BY <1>7 DEF Layout
<1>8. at[k + 1] = p + l
  BY <1>0, <1>7, <1>c
<1>9. ASSUME NEW j \in 1 .. nq + 1 PROVE at[j] \in Int
  BY <1>a
<1>10. ASSUME NEW j \in 1 .. nq + 1, k < j PROVE p + l <= at[j]
  <2>1. j = k + 1 \/ at[k + 1] < at[j]
    BY <1>5, <1>6, <1>10, <1>d
  <2>2. PICK a \in Int : a = at[j]
    BY <1>9
  <2>3. a = p + l \/ p + l < a
    BY <1>8, <2>1, <2>2
  <2>4. p + l <= a
    BY <1>0, <2>3
  <2> QED BY <2>2, <2>4
<1>11. ASSUME NEW j \in 1 .. nq + 1, j <= k PROVE at[j] <= p
  <2>1. j = k \/ at[j] < at[k]
    BY <1>5, <1>6, <1>11, <1>d
  <2>2. PICK a \in Int : a = at[j]
    BY <1>9
  <2>3. a = p \/ a < p
    BY <1>7, <2>1, <2>2
  <2>4. a <= p
    BY <1>0, <2>3
  <2> QED BY <2>2, <2>4
<1>12. Len(w) < at[nq + 1]
  <2>1. PICK e \in Int : e = at[nq + 1]
    BY <1>5, <1>9
  <2>2. p + l <= e
    BY <1>5, <1>10, <2>1
  <2>3. nb + n < e
    BY <1>0, <1>3, <2>2
  <2> QED BY <1>7, <2>1, <2>3
<1>13. ASSUME NEW j \in 1 .. nq, NEW i \in 1 .. nb + n, at[j] <= i, i < at[j + 1]
       PROVE  w[i] = <<q[j], i - at[j] + 1>>
  <2>1. CASE i \in 1 .. nb
    <3>1. b[i] = <<q[j], i - at[j] + 1>>
      BY <1>13, <1>f, <2>1
    <3> QED BY <1>7, <2>1, <3>1
  <2>2. CASE i \notin 1 .. nb
    <3>1. PICK h \in 1 .. n : i = nb + h
      BY <1>2, <2>2
    <3>2. w[i] = <<q[k], o + h>>
      BY <1>7, <3>1
    <3>3. p <= i /\ i < p + l /\ i - p + 1 = o + h
      BY <1>0, <1>1, <3>1
    <3>5. at[j] \in Int /\ at[j + 1] \in Int
      BY <1>4, <1>9
    <3>6. ~(k < j)
      <4>1. k < j => p + l <= at[j]
        BY <1>4, <1>10
      <4>2. ~(p + l <= at[j])
        <5>1. PICK a \in Int : a = at[j]
          BY <3>5
        <5>2. a <= i /\ i < p + l
          BY <1>13, <3>3, <5>1
        <5>3. ~(p + l <= a)
          BY <1>0, <5>2
        <5> QED BY <5>1, <5>3
      <4> QED BY <4>1, <4>2
    <3>7. ~(j + 1 <= k)
      BY <1>0, <1>4, <1>11, <1>13, <3>3, <3>5
    <3>8. j = k
      BY <1>4, <3>6, <3>7
    <3> QED BY <1>7, <3>2, <3>3, <3>8
  <2> QED BY <2>1, <2>2
<1> QED BY <1>7, <1>12, <1>13, <1>a, <1>b, <1>c, <1>d DEF Layout

\* The same for what the sender has still to write: the frame is done with, or
\* more of it has been written.
LEMMA UnwrittenNext ==
    ASSUME NEW q, NEW at, NEW b, NEW w,
           NEW nq, NEW k, NEW nb, NEW p, NEW l, NEW o, NEW n,
           Writes(q, at, b, w, nq, k, nb, p, l, o, n),
           NEW s \in Seq(Frames), FirstLeft(at, s, nq, k, p, l),
           Unwritten(at, q, b, s, o)
    PROVE  IF o + n = l THEN Unwritten(at, q, w, Tail(s), 0)
                        ELSE Unwritten(at, q, w, s, o + n)
<1> DEFINE ns == Len(s)
<1>0. /\ nq \in Nat /\ k \in 1 .. nq /\ nb \in Nat
      /\ p \in Int /\ l \in Nat
      /\ o \in Nat /\ n \in Nat /\ n >= 1
      /\ nb + 1 = p + o /\ o + n <= l
  BY DEF Writes, WriteNumbers
<1>00. ns \in Nat /\ ns >= 1 /\ k = nq - ns + 1
  BY DEF FirstLeft
<1> HIDE DEF ns
<1>1. o + n = l => nb + n + 1 = p + l + 0
  BY <1>0
<1>2. o + n # l => o + n < l
  BY <1>0
<1>3. nb + n + 1 = p + (o + n) /\ o + n \in Nat
  BY <1>0
<1>4. nq - (ns - 1) = k
  BY <1>0, <1>00
<1>5. nq - ns \in 0 .. nq => k \in 0 .. nq
  BY <1>0, <1>00
<1>6. ASSUME NEW j \in 1 .. ns - 1
      PROVE  j + 1 \in 1 .. ns /\ nq - ns + (j + 1) = k + j
  BY <1>0, <1>00
<1>7. /\ s \in Seq(Frames)
      /\ Len(q) = nq /\ Len(s) = ns /\ Len(w) = nb + n
      /\ Unwritten(at, q, b, s, o)
      /\ at[k] = p /\ l = FrameLen(s[1]) /\ at[k + 1] = p + l
      /\ k = nq - ns + 1
  BY <1>00 DEF Writes, FirstLeft, ns
<1>8. nq - ns \in 0 .. nq
  BY <1>7 DEF Unwritten
<1>9. \A j \in 1 .. ns : s[j] = q[nq - ns + j]
  BY <1>7 DEF Unwritten
<1>10. s # <<>>
  BY DEF FirstLeft
<1>11. CASE o + n = l
  <2> DEFINE z == Tail(s)
  <2>1. z \in Seq(Frames) /\ Len(z) = Len(s) - 1 /\ \A j \in 1 .. Len(s) - 1 : z[j] = s[j + 1]
    BY <1>7, <1>10
  <2>2. z # <<>> => z[1] \in Frames
    BY <2>1
  <2> HIDE DEF z
  <2>3. z # <<>> => 0 < FrameLen(z[1])
    BY <2>2, BytesOf
  <2>4. Len(z) = ns - 1
    BY <1>7, <2>1
  <2>5. ASSUME NEW j \in 1 .. Len(z) PROVE z[j] = q[k + j]
    <3>0. j \in 1 .. ns - 1
      BY <2>4
    <3>1. z[j] = s[j + 1]
      BY <1>7, <2>1, <3>0
    <3>2. s[j + 1] = q[nq - ns + (j + 1)]
      BY <1>6, <1>9, <3>0
    <3> QED BY <1>6, <3>0, <3>1, <3>2
  <2>6. Len(w) + 1 = at[k + 1] + 0
    BY <1>1, <1>7, <1>11
  <2>7. Len(q) - Len(z) = k /\ k \in 0 .. Len(q)
    BY <1>4, <1>5, <1>7, <1>8, <2>4
  <2>8. Unwritten(at, q, w, z, 0)
    BY <2>3, <2>5, <2>6, <2>7 DEF Unwritten
  <2> QED BY <1>11, <2>8 DEF z
<1>12. CASE o + n # l
  <2>1. Len(w) + 1 = at[Len(q) - Len(s) + 1] + (o + n)
    BY <1>3, <1>7
  <2>2. o + n < FrameLen(s[1])
    BY <1>2, <1>7, <1>12
  <2>3. Unwritten(at, q, w, s, o + n)
    BY <1>3, <1>7, <1>8, <1>9, <1>10, <2>1, <2>2 DEF Unwritten
  <2> QED BY <1>12, <2>3
<1> QED BY <1>11, <1>12

\* The next bytes of the first unwritten frame are written.
LEMMA LayoutWrite ==
    ASSUME NEW q \in Seq(Frames), NEW b \in Seq(AllBytes), NEW taken \in Nat,
           NEW at, Layout(at, q, b, taken),
           NEW s \in Seq(Frames), s # <<>>, NEW f, f = s[1],
           NEW o \in Nat, Unwritten(at, q, b, s, o),
           NEW n \in Nat, n >= 1, o + n <= FrameLen(f)
    PROVE  LET w == b \o SubSeq(Bytes(f), o + 1, o + n)
           IN  /\ w \in Seq(AllBytes)
               /\ Layout(at, q, w, taken)
               /\ IF o + n = FrameLen(f) THEN Unwritten(at, q, w, Tail(s), 0)
                                         ELSE Unwritten(at, q, w, s, o + n)
<1> DEFINE more == SubSeq(Bytes(f), o + 1, o + n)
           w == b \o more
<1>0. f \in Frames
  OBVIOUS
<1>1. PICK nq \in Nat : Len(q) = nq
  OBVIOUS
<1>2. PICK nb \in Nat : Len(b) = nb
  OBVIOUS
<1>3. PICK ns \in Nat : Len(s) = ns /\ ns >= 1
  OBVIOUS
<1>4. PICK l \in Nat : l = FrameLen(f)
  BY <1>0, BytesOf
<1>5. /\ Bytes(f) \in Seq(AllBytes) /\ Len(Bytes(f)) = l
      /\ \A i \in 1 .. l : Bytes(f)[i] = <<f, i>>
  BY <1>0, <1>4, BytesOf
<1>6. o + n \in 0 .. Len(Bytes(f)) /\ o < o + n /\ (o + n) - o = n
  BY <1>4, <1>5
<1>7. more \in Seq(AllBytes) /\ Len(more) = n
  BY <1>5, <1>6, PartOf
<1>8. \A i \in 1 .. n : more[i] = Bytes(f)[o + i]
  BY <1>5, <1>6, PartOf
<1>9. ASSUME NEW i \in 1 .. n PROVE more[i] = <<f, o + i>>
  <2>1. o + i \in 1 .. l
    BY <1>4
  <2> QED BY <1>5, <1>8, <2>1
<1> HIDE DEF more
<1>10. /\ w \in Seq(AllBytes)
       /\ Len(w) = Len(b) + Len(more)
       /\ \A i \in 1 .. Len(b) : w[i] = b[i]
       /\ \A i \in 1 .. Len(more) : w[Len(b) + i] = more[i]
  BY <1>7, JoinOf
<1> HIDE DEF w
<1>11. Len(w) = nb + n /\ \A i \in 1 .. nb : w[i] = b[i]
  BY <1>2, <1>7, <1>10
<1>12. \A i \in 1 .. n : w[nb + i] = <<f, o + i>>
  BY <1>2, <1>7, <1>9, <1>10
<1>13. PICK k \in Int : k = nq - ns + 1
  OBVIOUS
<1>14. nq - ns \in 0 .. nq /\ s[1] = q[nq - ns + 1] /\ nb + 1 = at[nq - ns + 1] + o
  BY <1>1, <1>2, <1>3 DEF Unwritten
<1>15. k \in 1 .. nq /\ f = q[k] /\ nb + 1 = at[k] + o
  BY <1>3, <1>13, <1>14
<1>16. PICK p \in Int : p = at[k]
  BY <1>1, <1>15 DEF Layout
<1>17. at[k + 1] = p + l
  BY <1>1, <1>4, <1>15, <1>16 DEF Layout
<1>20. Writes(q, at, b, w, nq, k, nb, p, l, o, n)
  <2>1. nb + 1 = p + o /\ o + n <= l
    BY <1>4, <1>15, <1>16
  <2>2. WriteNumbers(nq, k, nb, p, l, o, n)
    BY <1>15, <2>1 DEF WriteNumbers
  <2> QED BY <1>1, <1>2, <1>4, <1>11, <1>12, <1>15, <1>16, <2>2 DEF Writes
<1>18. Layout(at, q, w, taken)
  BY <1>20, LayoutGrow
<1>19. IF o + n = l THEN Unwritten(at, q, w, Tail(s), 0)
                    ELSE Unwritten(at, q, w, s, o + n)
  <2>1. FirstLeft(at, s, nq, k, p, l)
    BY <1>3, <1>4, <1>13, <1>17 DEF FirstLeft
  <2> QED BY <1>20, <2>1, UnwrittenNext
<1> QED BY <1>4, <1>10, <1>18, <1>19 DEF w, more

\* What is lost at the end leaves the rest where it is.
LEMMA LayoutCut ==
    ASSUME NEW q \in Seq(Frames), NEW b \in Seq(AllBytes), NEW r \in Seq(AllBytes),
           NEW taken \in Nat, NEW at, Layout(at, q, b \o r, taken)
    PROVE  Layout(at, q, b \o <<>>, taken)
<1>1. b \o <<>> = b
  OBVIOUS
<1>2. Len(b \o r) = Len(b) + Len(r) /\ Len(b) \in Nat /\ Len(r) \in Nat
  OBVIOUS
<1>3. \A i \in 1 .. Len(b) : (b \o r)[i] = b[i]
  OBVIOUS
<1>4. /\ at \in [1 .. Len(q) + 1 -> Int]
      /\ Len(b \o r) < at[Len(q) + 1]
      /\ \A j \in 1 .. Len(q), i \in 1 .. Len(b \o r) :
            at[j] <= i /\ i < at[j + 1] => (b \o r)[i] = <<q[j], i - at[j] + 1>>
  BY DEF Layout
<1>5. Len(b) < at[Len(q) + 1]
  <2>1. at[Len(q) + 1] \in Int
    BY <1>4
  <2> QED BY <1>2, <1>4, <2>1
<1>6. ASSUME NEW j \in 1 .. Len(q), NEW i \in 1 .. Len(b), at[j] <= i, i < at[j + 1]
      PROVE  b[i] = <<q[j], i - at[j] + 1>>
  <2>1. i \in 1 .. Len(b \o r)
    BY <1>2
  <2> QED BY <1>3, <1>4, <1>6, <2>1
<1> QED BY <1>1, <1>5, <1>6 DEF Layout

----------------------------------------------------------------------------
(* What the readers take from the stream *)

\* The length field, when all of it is there.
LEMMA LengthIs ==
    ASSUME NEW f \in Frames, NEW b \in Seq(AllBytes), LenSize <= Len(b),
           \A i \in 1 .. LenSize : b[i] = <<f, i>>
    PROVE  Head(b)[1] = f /\ Length(b) = f.len
<1>0. LenSize \in Nat /\ 0 < LenSize
  BY StreamAssumptions
<1>1. Head(b)[1] = f
  <2>1. Head(b) = b[1] /\ b[1] = <<f, 1>>
    BY <1>0
  <2> QED BY <2>1
<1>6. f.len \in Nat
  BY StreamAssumptions DEF Frames
<1>2. LenSize <= FrameLen(f)
  BY <1>0, <1>6 DEF FrameLen
<1>3. /\ Bytes(f) \in Seq(AllBytes) /\ LenSize <= Len(Bytes(f))
      /\ \A i \in 1 .. LenSize : Bytes(f)[i] = <<f, i>>
  BY <1>0, <1>2, BytesOf
<1>4. SubSeq(b, 1, LenSize) = [i \in 1 .. LenSize |-> <<f, i>>]
  BY <1>0
<1>5. SubSeq(Bytes(f), 1, LenSize) = [i \in 1 .. LenSize |-> <<f, i>>]
  <2> DEFINE y == Bytes(f)
  <2>1. y \in Seq(AllBytes) /\ LenSize <= Len(y) /\ \A i \in 1 .. LenSize : y[i] = <<f, i>>
    BY <1>3
  <2> HIDE DEF y
  <2>2. SubSeq(y, 1, LenSize) = [i \in 1 .. LenSize |-> <<f, i>>]
    BY <1>0, <2>1
  <2> QED BY <2>2 DEF y
<1> QED BY <1>1, <1>4, <1>5 DEF Length

\* Of the frame f, p holds what has been put together; the next bytes are at the
\* start of b.
BodyParts(f, p, b, taken, strip, m) ==
    /\ p \in Seq(AllBytes) /\ b \in Seq(AllBytes)
    /\ taken \in Nat /\ strip \in Nat /\ m \in Nat
    /\ strip <= m /\ m <= Len(b) /\ taken + strip = LenSize + Len(p)
    /\ \A i \in 1 .. Len(p) : p[i] = <<f, LenSize + i>>
    /\ \A i \in 1 .. m : b[i] = <<f, taken + i>>

\* Bytes that follow the length field of f, in order.
BodyOf(f, x) == \A i \in 1 .. Len(x) : x[i] = <<f, LenSize + i>>

\* The bytes of one frame that are put together, in order.
LEMMA BodyIs ==
    ASSUME NEW f, NEW p, NEW b, NEW taken, NEW strip, NEW m,
           BodyParts(f, p, b, taken, strip, m)
    PROVE  LET body == p \o SubSeq(b, strip + 1, m)
           IN  /\ body \in Seq(AllBytes)
               /\ LenSize + Len(body) = taken + m
               /\ BodyOf(f, body)
<1> DEFINE x == SubSeq(b, strip + 1, m)
           body == p \o x
<1>12. /\ p \in Seq(AllBytes) /\ b \in Seq(AllBytes)
       /\ taken \in Nat /\ strip \in Nat /\ m \in Nat
       /\ strip <= m /\ m <= Len(b) /\ taken + strip = LenSize + Len(p)
  BY DEF BodyParts
<1>13. \A i \in 1 .. Len(p) : p[i] = <<f, LenSize + i>>
  BY DEF BodyParts
<1>14. \A i \in 1 .. m : b[i] = <<f, taken + i>>
  BY DEF BodyParts
<1>0. LenSize \in Nat
  BY StreamAssumptions
<1>1. m \in 0 .. Len(b)
  BY <1>12
<1>2. x \in Seq(AllBytes) /\ Len(x) = IF strip < m THEN m - strip ELSE 0
  BY <1>12, <1>1, PartOf
<1>3. \A i \in 1 .. m - strip : x[i] = b[strip + i]
  BY <1>12, <1>1, PartOf
<1>4. Len(x) = m - strip
  BY <1>12, <1>2
<1> HIDE DEF x
<1>11. x \in Seq(AllBytes)
  BY <1>12, <1>2
<1>5. /\ body \in Seq(AllBytes) /\ Len(body) = Len(p) + Len(x)
      /\ \A i \in 1 .. Len(p) + Len(x) : body[i] = IF i <= Len(p) THEN p[i] ELSE x[i - Len(p)]
  <2>1. p \o x \in Seq(AllBytes) /\ Len(p \o x) = Len(p) + Len(x)
    BY <1>12, <1>11, JoinOf
  <2>2. ASSUME NEW i \in 1 .. Len(p) + Len(x)
        PROVE  (p \o x)[i] = IF i <= Len(p) THEN p[i] ELSE x[i - Len(p)]
    BY <1>12, <1>11, JoinOf
  <2> QED BY <1>12, <2>1, <2>2
<1>6. PICK lp \in Nat : lp = Len(p)
  BY <1>12
<1>7. taken + strip = LenSize + lp
  BY <1>12, <1>6
<1>8. LenSize + (lp + (m - strip)) = taken + m
  BY <1>12, <1>0, <1>7
<1> HIDE DEF body
<1>9. Len(body) = lp + (m - strip)
  BY <1>12, <1>4, <1>5, <1>6
<1>10. ASSUME NEW i \in 1 .. lp + (m - strip) PROVE body[i] = <<f, LenSize + i>>
  <2>1. body[i] = IF i <= lp THEN p[i] ELSE x[i - lp]
    BY <1>12, <1>4, <1>5, <1>6
  <2>2. CASE i <= lp
    <3>1. i \in 1 .. lp
      BY <1>12, <2>2
    <3> QED BY <1>6, <1>13, <2>1, <2>2, <3>1
  <2>3. CASE ~(i <= lp)
    <3>1. i - lp \in 1 .. m - strip /\ strip + (i - lp) \in 1 .. m
      BY <1>12, <2>3
    <3>2. taken + (strip + (i - lp)) = LenSize + i
      BY <1>12, <1>0, <1>7
    <3>3. x[i - lp] = b[strip + (i - lp)]
      BY <1>12, <1>3, <3>1
    <3>4. b[strip + (i - lp)] = <<f, taken + (strip + (i - lp))>>
      BY <1>14, <3>1
    <3> QED BY <1>12, <2>1, <2>3, <3>2, <3>3, <3>4
  <2> QED BY <1>12, <2>2, <2>3
<1>15. BodyOf(f, body)
  BY <1>9, <1>10 DEF BodyOf
<1> QED BY <1>5, <1>8, <1>9, <1>15 DEF body, x

\* A whole body is taken for the frame that it belongs to.
LEMMA FrameOfIs ==
    ASSUME NEW f \in Good, NEW body \in Seq(AllBytes), LenSize + Len(body) = f.len,
           \A i \in 1 .. Len(body) : body[i] = <<f, LenSize + i>>
    PROVE  FrameOf(body) = f.id
<1>0. /\ LenSize \in Nat /\ 0 < LenSize /\ HeaderSize \in Nat /\ LenSize < HeaderSize
      /\ HeaderSize <= f.len /\ f \in Frames
  BY StreamAssumptions DEF Good
<1>1. f.len \in Nat
  BY <1>0, StreamAssumptions DEF Frames
<1>2. FrameLen(f) = f.len
  BY <1>0, <1>1 DEF FrameLen
<1>3. PICK n \in Nat : Len(body) = n
  OBVIOUS
<1>4. LenSize + n = f.len /\ n = f.len - LenSize /\ n >= 1
  BY <1>0, <1>1, <1>3
<1>5. Head(body)[1] = f
  <2>1. 1 \in 1 .. Len(body) /\ Head(body) = body[1]
    BY <1>3, <1>4
  <2>2. body[1] = <<f, LenSize + 1>>
    BY <2>1
  <2> QED BY <2>1, <2>2
<1> DEFINE z == [i \in 1 .. n |-> <<f, LenSize + i>>]
<1>8. z \in Seq(AllBytes) /\ Len(z) = n /\ \A i \in 1 .. n : z[i] = <<f, LenSize + i>>
  <2>1. \A i \in 1 .. n : LenSize + i \in Nat
    BY <1>0
  <2>2. \A i \in 1 .. n : <<f, LenSize + i>> \in AllBytes
    BY <1>0, <2>1 DEF AllBytes
  <2> QED BY <2>2
<1> HIDE DEF z
<1>6. body = z
  BY <1>3, <1>8, SeqEqual
<1>7. SubSeq(Bytes(f), LenSize + 1, f.len) = z
  <2> DEFINE y == Bytes(f)
             x == SubSeq(y, LenSize + 1, f.len)
  <2>1. y \in Seq(AllBytes) /\ Len(y) = f.len /\ \A i \in 1 .. f.len : y[i] = <<f, i>>
    BY <1>0, <1>2, BytesOf
  <2>2. f.len \in 0 .. Len(y) /\ LenSize < f.len
    BY <1>0, <1>1, <2>1
  <2> HIDE DEF y
  <2>3. x \in Seq(AllBytes) /\ Len(x) = f.len - LenSize
    BY <1>0, <2>1, <2>2, PartOf
  <2>4. \A i \in 1 .. f.len - LenSize : x[i] = y[LenSize + i]
    BY <1>0, <2>1, <2>2, PartOf
  <2> HIDE DEF x
  <2>5. ASSUME NEW i \in 1 .. n PROVE x[i] = <<f, LenSize + i>>
    <3>1. LenSize + i \in 1 .. f.len /\ i \in 1 .. f.len - LenSize
      BY <1>0, <1>1, <1>4
    <3> QED BY <2>1, <2>4, <3>1
  <2>6. Len(x) = n
    BY <1>4, <2>3
  <2>7. x = z
    BY <1>8, <2>3, <2>5, <2>6, SeqEqual
  <2> QED BY <2>7 DEF x, y
<1> QED BY <1>5, <1>6, <1>7 DEF FrameOf

\* What is left of a sequence at its end is a suffix of it.
LEMMA SuffixOf ==
    ASSUME NEW S, NEW q \in Seq(S), NEW s \in Seq(S),
           Len(q) - Len(s) \in 0 .. Len(q),
           \A j \in 1 .. Len(s) : s[j] = q[Len(q) - Len(s) + j]
    PROVE  IsSuffix(s, q)
<1>1. PICK n \in Nat, k \in Nat : Len(q) = n /\ Len(s) = k
  OBVIOUS
<1>2. k <= n /\ \A j \in 1 .. k : s[j] = q[n - k + j]
  BY <1>1
<1>3. Reverse(s) = [i \in 1 .. k |-> s[k - i + 1]]
  BY <1>1 DEF Reverse
<1>4. Reverse(q) = [i \in 1 .. n |-> q[n - i + 1]]
  BY <1>1 DEF Reverse
<1>5. ASSUME NEW i \in 1 .. k PROVE s[k - i + 1] = q[n - i + 1]
  <2>1. k - i + 1 \in 1 .. k /\ n - k + (k - i + 1) = n - i + 1
    OBVIOUS
  <2> QED BY <1>2, <2>1
<1>6. SubSeq(Reverse(s), 1, k) = [i \in 1 .. k |-> s[k - i + 1]]
  <2> DEFINE z == [i \in 1 .. k |-> s[k - i + 1]]
  <2>1. z \in Seq(S) /\ Len(z) = k
    BY <1>1
  <2>2. SubSeq(z, 1, k) = z
    BY <2>1
  <2> QED BY <1>3, <2>2
<1>7. SubSeq(Reverse(q), 1, k) = [i \in 1 .. k |-> q[n - i + 1]]
  <2> DEFINE z == [i \in 1 .. n |-> q[n - i + 1]]
  <2>1. z \in Seq(S) /\ Len(z) = n /\ \A i \in 1 .. n : z[i] = q[n - i + 1]
    BY <1>1
  <2> HIDE DEF z
  <2>2. SubSeq(z, 1, k) = [i \in 1 .. k |-> z[i]]
    BY <1>2, <2>1
  <2>3. \A i \in 1 .. k : z[i] = q[n - i + 1]
    BY <1>2, <2>1
  <2>4. SubSeq(z, 1, k) = [i \in 1 .. k |-> q[n - i + 1]]
    BY <2>2, <2>3
  <2> QED BY <1>4, <2>4 DEF z
<1>8. Len(Reverse(s)) = k /\ Len(Reverse(q)) = n
  BY <1>3, <1>4
<1> QED BY <1>2, <1>5, <1>6, <1>7, <1>8 DEF IsSuffix, IsPrefix

\* There are more numbers for frames than frames in flight.
LEMMA FreeId ==
    ASSUME NEW q \in Seq(Frames), Len(q) <= MaxFlight, NEW g
    PROVE  \E i \in Ids : i \notin {q[j].id : j \in DOMAIN q} \cup {g}
<1>0. MaxFlight \in Nat /\ Len(q) \in Nat
  BY StreamAssumptions
<1>7. DOMAIN q = 1 .. Len(q)
  OBVIOUS
<1> SUFFICES ASSUME \A i \in Ids : i = g \/ \E j \in 1 .. Len(q) : q[j].id = i
             PROVE  FALSE
  BY <1>7, Zenon
<1> DEFINE place == [i \in Ids |-> IF i = g THEN 0
                                   ELSE CHOOSE j \in 1 .. Len(q) : q[j].id = i]
<1>1. ASSUME NEW i \in Ids
      PROVE  \/ place[i] = 0 /\ i = g
             \/ place[i] \in 1 .. Len(q) /\ q[place[i]].id = i
  <2>1. CASE i = g
    <3>1. place[i] = 0
      BY <2>1, Zenon
    <3> HIDE DEF place
    <3> QED BY <2>1, <3>1
  <2>2. CASE i # g
    <3> DEFINE j == CHOOSE j \in 1 .. Len(q) : q[j].id = i
    <3>1. place[i] = j
      BY <2>2
    <3>2. j \in 1 .. Len(q) /\ q[j].id = i
      BY <2>2, Zenon
    <3> QED BY <3>1, <3>2, Zenon
  <2> QED BY <2>1, <2>2
<1>2. place \in [Ids -> 0 .. Len(q)]
  BY <1>0, <1>1
<1> HIDE DEF place
<1>3. IsFiniteSet(0 .. Len(q)) /\ Cardinality(0 .. Len(q)) = Len(q) - 0 + 1
  <2>1. 0 \in Int /\ Len(q) \in Int /\ ~(0 > Len(q))
    BY <1>0
  <2> QED BY <2>1, FS_Interval
<1>4. IsFiniteSet(Ids) /\ Cardinality(Ids) = MaxFlight + 2
  <2>1. 1 \in Int /\ MaxFlight + 2 \in Int /\ ~(1 > MaxFlight + 2)
    BY <1>0
  <2>2. /\ IsFiniteSet(1 .. MaxFlight + 2)
        /\ Cardinality(1 .. MaxFlight + 2) = (MaxFlight + 2) - 1 + 1
    BY <2>1, FS_Interval
  <2> QED BY <1>0, <2>2 DEF Ids
<1>5. Cardinality(0 .. Len(q)) < Cardinality(Ids)
  BY <1>0, <1>3, <1>4
<1>6. PICK x, y \in Ids : x # y /\ place[x] = place[y]
  BY <1>2, <1>3, <1>4, <1>5, FS_PigeonHole
<1> QED BY <1>1, <1>6

----------------------------------------------------------------------------
(* Each step *)

\* What a close is for (the action of ClosesForCause).
Cause ==
    open /\ ~open' =>
        \/ fin /\ wire = <<>>
        \/ queue # <<>> /\ Head(queue) \notin Good

\* A step of FrameQueue, or one that it does not see.
QueueStep == [Promise!Next]_<<queue, got, open>>

Kept == StreamInv' /\ Cause /\ QueueStep

\* The frame that Send puts into the queues.
NewFrame(len, kind) ==
    [id |-> CHOOSE i \in Ids : i \notin {queue[j].id : j \in DOMAIN queue} \cup {got},
     len |-> len, kind |-> kind]

LEMMA InitKeeps == Init => StreamInv
<1> SUFFICES ASSUME Init PROVE StreamInv
  OBVIOUS
<1> USE DEF Init
<1>1. Types
  <2>1. <<>> \in Seq(Frames) /\ <<>> \in Seq(AllBytes)
    OBVIOUS
  <2>2. size \in 0 .. MaxLen /\ off \in Nat
    BY StreamAssumptions
  <2>3. answer \in BOOLEAN /\ fin \in BOOLEAN /\ open \in BOOLEAN
    BY Zenon
  <2>4. phase \in {"register", "registering", "read", "extract"}
    OBVIOUS
  <2>5. /\ reader \in {"yasio", "client", "server"} /\ got \in Ids \cup {None}
        /\ queue \in Seq(Frames) /\ sendq \in Seq(Frames)
        /\ buf \in Seq(AllBytes) /\ wire \in Seq(AllBytes) /\ pkt \in Seq(AllBytes)
    BY <2>1
  <2> HIDE DEF Init
  <2> QED BY <2>2, <2>3, <2>4, <2>5 DEF Types
<1>2. Flight /\ RoomToRead /\ Packet
  BY StreamAssumptions DEF Flight, RoomToRead, Packet
<1>3. Stream
  <2> DEFINE at == [j \in 1 .. Len(queue) + 1 |-> 1]
  <2>1. Len(queue) = 0 /\ buf \o wire = <<>> /\ Taken = 0
    BY DEF Taken
  <2>2. at \in [1 .. Len(queue) + 1 -> Int]
    OBVIOUS
  <2>3. Layout(at, queue, <<>>, 0)
    BY <2>1 DEF Layout
  <2>4. Unwritten(at, queue, <<>>, <<>>, 0)
    BY <2>1 DEF Unwritten
  <2> QED BY <2>1, <2>2, <2>3, <2>4 DEF Stream
<1> QED BY <1>1, <1>2, <1>3 DEF StreamInv

\* Any frame that is sent.
LEMMA SendKeeps ==
    ASSUME StreamInv, Len(queue) <= MaxFlight,
           NEW len \in Lens \cup {HeaderSize}, NEW kind \in Kinds,
           Send(len, kind), answer' \in BOOLEAN
    PROVE  /\ Types' /\ RoomToRead'
           /\ open' /\ Stream' /\ Packet'
           /\ Cause /\ QueueStep
           /\ queue' = Append(queue, NewFrame(len, kind))
<1> DEFINE f == NewFrame(len, kind)
           w == buf \o wire
<1>0. /\ Types /\ RoomToRead /\ Stream /\ Packet
      /\ open /\ ~fin
  BY DEF StreamInv, Send
<1>1. /\ queue' = Append(queue, f) /\ sendq' = Append(sendq, f)
      /\ UNCHANGED <<reader, off, wire, fin, buf, size, pkt, phase, got, open>>
  BY DEF Send, NewFrame, receiver
<1>2. f \in Frames
  <2>1. \E i \in Ids : i \notin {queue[j].id : j \in DOMAIN queue} \cup {got}
    BY <1>0, FreeId DEF Types
  <2>2. (CHOOSE i \in Ids : i \notin {queue[j].id : j \in DOMAIN queue} \cup {got}) \in Ids
    BY <2>1
  <2> QED BY <2>2 DEF NewFrame, Frames, Kinds
<1>3. /\ queue \in Seq(Frames) /\ sendq \in Seq(Frames)
      /\ buf \in Seq(AllBytes) /\ wire \in Seq(AllBytes)
      /\ w \in Seq(AllBytes) /\ w' = w
  BY <1>0, <1>1 DEF Types
<1>4. Taken \in Nat /\ Taken' = Taken
  BY <1>0, <1>1, StreamAssumptions DEF Taken, Types
<1> HIDE DEF f
<1>5. Types'
  <2>1. queue' \in Seq(Frames) /\ sendq' \in Seq(Frames)
    BY <1>1, <1>2, <1>3
  <2> QED BY <1>0, <1>1, <2>1 DEF Types
<1>6. Packet'
  <2>1. queue # <<>> => queue' # <<>> /\ queue'[1] = queue[1]
    BY <1>1, <1>2, <1>3
  <2> QED BY <1>0, <1>1, <1>4, <2>1 DEF Packet
<1>7. Stream'
  <2> HIDE DEF w
  <2>1. PICK at \in [1 .. Len(queue) + 1 -> Int] :
           Layout(at, queue, w, Taken) /\ Unwritten(at, queue, w, sendq, off)
    BY <1>0 DEF Stream, w
  <2> DEFINE longer == [j \in 1 .. Len(queue) + 2 |->
                IF j = Len(queue) + 2 THEN at[Len(queue) + 1] + FrameLen(f) ELSE at[j]]
  <2>2. /\ Layout(longer, Append(queue, f), w, Taken)
        /\ Unwritten(longer, Append(queue, f), w, Append(sendq, f), off)
    BY <1>2, <1>3, <1>4, <2>1, LayoutSend
  <2> HIDE DEF longer
  <2>3. Layout(longer, queue', w', Taken') /\ Unwritten(longer, queue', w', sendq', off')
    BY <1>1, <1>3, <1>4, <2>2
  <2>4. longer \in [1 .. Len(queue') + 1 -> Int]
    BY <2>3 DEF Layout
  <2>5. \E x \in [1 .. Len(queue') + 1 -> Int] :
           /\ Layout(x, queue', w', Taken')
           /\ IF fin' THEN sendq' = <<>> /\ off' = 0
                      ELSE Unwritten(x, queue', w', sendq', off')
    BY <1>0, <1>1, <2>3, <2>4
  <2> QED BY <2>5 DEF Stream, w
<1>8. RoomToRead' /\ open' /\ Cause
  BY <1>0, <1>1 DEF RoomToRead, Cause
<1>9. QueueStep
  <2>1. Promise!Send(f)
    BY <1>0, <1>1 DEF Promise!Send
  <2> QED BY <1>2, <2>1 DEF QueueStep, Promise!Next
<1> QED BY <1>1, <1>5, <1>6, <1>7, <1>8, <1>9 DEF f

\* A frame, the answer to the registration, or a ping is sent.
LEMMA SendersKeep ==
    ASSUME StreamInv,
           (\E len \in Lens : SendData(len)) \/ SendAnswer \/ SendPing
    PROVE  Kept
<1>0. /\ Types /\ Flight /\ MaxFlight \in Nat /\ queue \in Seq(Frames)
      /\ answer \in BOOLEAN
  BY StreamAssumptions DEF StreamInv, Types
<1>1. ASSUME NEW len \in Lens, SendData(len) PROVE Kept
  <2>1. Len(queue) < MaxFlight /\ Send(len, "data") /\ answer' = answer
    BY <1>1 DEF SendData
  <2>2. Len(queue) <= MaxFlight /\ answer' \in BOOLEAN
    BY <1>0, <2>1
  <2>3. /\ Types' /\ RoomToRead' /\ open' /\ Stream' /\ Packet' /\ Cause /\ QueueStep
        /\ queue' = Append(queue, NewFrame(len, "data"))
    BY <2>1, <2>2, SendKeeps DEF Kinds
  <2>4. Flight'
    <3>1. Len(queue') <= MaxFlight
      BY <1>0, <2>1, <2>3
    <3> QED BY <3>1 DEF Flight
  <2> QED BY <2>3, <2>4 DEF Kept, StreamInv
<1>2. ASSUME SendAnswer PROVE Kept
  <2>1. Len(queue) < MaxFlight /\ Send(HeaderSize, "resp") /\ answer' = TRUE
    BY <1>2 DEF SendAnswer
  <2>2. Len(queue) <= MaxFlight /\ answer' \in BOOLEAN
    BY <1>0, <2>1
  <2>3. /\ Types' /\ RoomToRead' /\ open' /\ Stream' /\ Packet' /\ Cause /\ QueueStep
        /\ queue' = Append(queue, NewFrame(HeaderSize, "resp"))
    BY <2>1, <2>2, SendKeeps DEF Kinds
  <2>4. Flight'
    <3>1. Len(queue') <= MaxFlight
      BY <1>0, <2>1, <2>3
    <3> QED BY <3>1 DEF Flight
  <2> QED BY <2>3, <2>4 DEF Kept, StreamInv
<1>3. ASSUME SendPing PROVE Kept
  <2>1. Pings = {} /\ Send(HeaderSize, "ping") /\ answer' = answer
    BY <1>3 DEF SendPing
  <2>2. Len(queue) <= MaxFlight /\ answer' \in BOOLEAN
    BY <1>0, <2>1 DEF Flight
  <2>3. /\ Types' /\ RoomToRead' /\ open' /\ Stream' /\ Packet' /\ Cause /\ QueueStep
        /\ queue' = Append(queue, NewFrame(HeaderSize, "ping"))
    BY <2>1, <2>2, SendKeeps DEF Kinds
  <2>4. Flight'
    <3> DEFINE f == NewFrame(HeaderSize, "ping")
    <3>1. f.kind = "ping"
      BY DEF NewFrame
    <3> HIDE DEF f
    <3>2. /\ Len(queue') = Len(queue) + 1 /\ queue'[Len(queue) + 1] = f
          /\ Len(queue) + 1 \in DOMAIN queue'
      BY <1>0, <2>3 DEF f
    <3>3. Pings' # {}
      BY <3>1, <3>2 DEF Pings
    <3>4. Len(queue') <= MaxFlight \/ Len(queue') = MaxFlight + 1
      BY <1>0, <2>2, <3>2
    <3> QED BY <3>3, <3>4 DEF Flight
  <2> QED BY <2>3, <2>4 DEF Kept, StreamInv
<1> QED BY <1>1, <1>2, <1>3

\* More bytes of the queue are written.
LEMMA WriteKeeps ==
    ASSUME StreamInv, Write
    PROVE  Kept
<1> DEFINE w == buf \o wire
           f == Head(sendq)
<1>0. /\ Types /\ Flight /\ RoomToRead /\ Stream /\ Packet
      /\ open /\ sendq # <<>> /\ Len(wire) < MaxWire
      /\ UNCHANGED <<reader, queue, answer, fin, receiver, open>>
  BY DEF StreamInv, Write
<1>1. UNCHANGED <<reader, queue, answer, fin, buf, size, pkt, phase, got, open>>
  BY <1>0 DEF receiver
<1>2. /\ queue \in Seq(Frames) /\ sendq \in Seq(Frames)
      /\ buf \in Seq(AllBytes) /\ wire \in Seq(AllBytes) /\ w \in Seq(AllBytes)
      /\ off \in Nat
  BY <1>0 DEF Types
<1>3. f \in Frames /\ f = sendq[1]
  BY <1>0, <1>2
<1>4. FrameLen(f) \in Nat /\ Len(Bytes(f)) = FrameLen(f) /\ Bytes(f) \in Seq(AllBytes)
  BY <1>3, BytesOf
<1>5. Taken \in Nat /\ Taken' = Taken
  BY <1>0, <1>1, StreamAssumptions DEF Taken, Types
<1>6. PICK n \in Int :
         /\ n \in 1 .. Min({MaxWire - Len(wire), Len(Bytes(f)) - off})
         /\ CallWrite(n)
  BY DEF Write
<1>7. PICK at \in [1 .. Len(queue) + 1 -> Int] :
         Layout(at, queue, w, Taken) /\ Unwritten(at, queue, w, sendq, off)
  BY <1>0 DEF Stream
<1>8. n \in Nat /\ n >= 1 /\ off + n <= FrameLen(f)
  <2>1. MaxWire - Len(wire) \in Int /\ Len(Bytes(f)) - off \in Int
    BY <1>2, <1>4, StreamAssumptions
  <2>2. PICK a \in Int, c \in Int : a = MaxWire - Len(wire) /\ c = Len(Bytes(f)) - off
    BY <2>1
  <2>3. Min({a, c}) = IF a <= c THEN a ELSE c
    BY MinTwo
  <2>4. n >= 1 /\ n <= c
    BY <1>6, <2>2, <2>3
  <2>5. c = FrameLen(f) - off
    BY <1>4, <2>2
  <2> QED BY <1>2, <1>4, <2>4, <2>5
<1> DEFINE more == SubSeq(Bytes(f), off + 1, off + n)
<1>9. /\ wire' = wire \o more
      /\ IF off + n = FrameLen(f) THEN sendq' = Tail(sendq) /\ off' = 0
                                  ELSE sendq' = sendq /\ off' = off + n
  BY <1>4, <1>6 DEF CallWrite
<1>10. more \in Seq(AllBytes)
  <2>1. off + n \in 0 .. Len(Bytes(f))
    BY <1>2, <1>4, <1>8
  <2> QED BY <1>2, <1>4, <2>1, PartOf
<1>11. w' = w \o more
  <2> HIDE DEF more
  <2>1. w' = buf \o (wire \o more)
    BY <1>1, <1>9
  <2>2. (buf \o wire) \o more = buf \o (wire \o more)
    BY <1>2, <1>10, ConcatAssociative, SMTT(30)
  <2> QED BY <2>1, <2>2, Zenon
<1> HIDE DEF w, f
<1>12. /\ w \o more \in Seq(AllBytes)
       /\ Layout(at, queue, w \o more, Taken)
       /\ IF off + n = FrameLen(f) THEN Unwritten(at, queue, w \o more, Tail(sendq), 0)
                                   ELSE Unwritten(at, queue, w \o more, sendq, off + n)
  BY <1>0, <1>2, <1>3, <1>5, <1>7, <1>8, LayoutWrite
<1> HIDE DEF more
<1>13. Layout(at, queue', w', Taken') /\ Unwritten(at, queue', w', sendq', off')
  BY <1>1, <1>5, <1>9, <1>11, <1>12
<1>14. ~fin
  BY <1>0 DEF Stream
<1>15. Stream'
  <2>1. at \in [1 .. Len(queue') + 1 -> Int]
    BY <1>1, <1>7
  <2>2. \E x \in [1 .. Len(queue') + 1 -> Int] :
           /\ Layout(x, queue', w', Taken')
           /\ IF fin' THEN sendq' = <<>> /\ off' = 0
                      ELSE Unwritten(x, queue', w', sendq', off')
    BY <1>1, <1>13, <1>14, <2>1
  <2> QED BY <2>2 DEF Stream, w
<1>16. Types'
  <2>1. wire' \in Seq(AllBytes)
    BY <1>2, <1>9, <1>10
  <2>2. sendq' \in Seq(Frames) /\ off' \in Nat
    <3>1. Tail(sendq) \in Seq(Frames)
      BY <1>0, <1>2
    <3>2. off + n \in Nat
      BY <1>2, <1>8
    <3>5. 0 \in Nat
      OBVIOUS
    <3>3. CASE off + n = FrameLen(f)
      BY <1>9, <3>1, <3>3, <3>5, Zenon
    <3>4. CASE off + n # FrameLen(f)
      BY <1>2, <1>9, <3>2, <3>4
    <3> QED BY <3>3, <3>4
  <2> QED BY <1>0, <1>1, <2>1, <2>2 DEF Types
<1>17. Flight' /\ RoomToRead' /\ Packet'
  BY <1>0, <1>1, <1>5 DEF Flight, Pings, RoomToRead, Packet
<1>18. Cause /\ QueueStep
  BY <1>0, <1>1 DEF Cause, QueueStep
<1> QED BY <1>0, <1>1, <1>15, <1>16, <1>17, <1>18 DEF Kept, StreamInv

\* The sender closes its end; what it has not written will not come, and what
\* is on its way may not.
LEMMA SenderClosesKeeps ==
    ASSUME StreamInv, SenderCloses
    PROVE  Kept
<1>0. /\ Types /\ Flight /\ RoomToRead /\ Stream /\ Packet
      /\ open /\ fin' = TRUE /\ sendq' = <<>> /\ off' = 0
      /\ wire' \in {wire, <<>>}
      /\ UNCHANGED <<reader, queue, answer, receiver, open>>
  BY DEF StreamInv, SenderCloses
<1>1. UNCHANGED <<reader, queue, answer, buf, size, pkt, phase, got, open>>
  BY <1>0 DEF receiver
<1>2. /\ queue \in Seq(Frames) /\ buf \in Seq(AllBytes) /\ wire \in Seq(AllBytes)
      /\ <<>> \in Seq(AllBytes) /\ <<>> \in Seq(Frames)
  BY <1>0 DEF Types
<1>3. Taken \in Nat /\ Taken' = Taken
  BY <1>0, <1>1, StreamAssumptions DEF Taken, Types
<1>4. PICK at \in [1 .. Len(queue) + 1 -> Int] : Layout(at, queue, buf \o wire, Taken)
  BY <1>0 DEF Stream
<1>5. Layout(at, queue', buf' \o wire', Taken')
  <2>1. CASE wire' = wire
    BY <1>1, <1>3, <1>4, <2>1
  <2>2. CASE wire' = <<>>
    <3>1. Layout(at, queue, buf \o <<>>, Taken)
      BY <1>2, <1>3, <1>4, LayoutCut
    <3> QED BY <1>1, <1>3, <2>2, <3>1
  <2> QED BY <1>0, <2>1, <2>2
<1>6. Stream'
  <2>1. at \in [1 .. Len(queue') + 1 -> Int]
    BY <1>1, <1>4
  <2> QED BY <1>0, <1>5, <2>1 DEF Stream
<1>7. Types'
  BY <1>0, <1>1, <1>2 DEF Types
<1>8. Flight' /\ RoomToRead' /\ Packet'
  BY <1>0, <1>1, <1>3 DEF Flight, Pings, RoomToRead, Packet
<1>9. Cause /\ QueueStep
  BY <1>0, <1>1 DEF Cause, QueueStep
<1> QED BY <1>0, <1>1, <1>6, <1>7, <1>8, <1>9 DEF Kept, StreamInv

\* The receiver closes, if it has cause to.
LEMMA CloseKeeps ==
    ASSUME StreamInv, open, Close,
           \/ fin /\ wire = <<>>
           \/ queue # <<>> /\ Head(queue) \notin Good
    PROVE  Kept
<1>0. Types /\ RoomToRead /\ MaxFlight \in Nat
  BY StreamAssumptions DEF StreamInv
<1>1. /\ open' = FALSE /\ queue' = <<>> /\ wire' = <<>> /\ sendq' = <<>> /\ off' = 0
      /\ UNCHANGED <<reader, answer, fin, buf, size, pkt, phase, got>>
  BY DEF Close, receiver
<1>2. Types'
  <2>1. <<>> \in Seq(Frames) /\ <<>> \in Seq(AllBytes) /\ 0 \in Nat
    OBVIOUS
  <2>2. /\ queue' \in Seq(Frames) /\ sendq' \in Seq(Frames) /\ wire' \in Seq(AllBytes)
        /\ off' \in Nat /\ open' \in BOOLEAN
    BY <1>1, <2>1
  <2> QED BY <1>0, <1>1, <2>2 DEF Types
<1>3. Flight'
  <2>1. Len(queue') <= MaxFlight
    BY <1>0, <1>1
  <2> QED BY <2>1 DEF Flight
<1>4. RoomToRead'
  BY <1>0, <1>1 DEF RoomToRead
<1>5. Cause
  BY DEF Cause
<1>6. QueueStep
  <2>1. Promise!Close
    BY <1>1 DEF Promise!Close
  <2> QED BY <2>1 DEF QueueStep, Promise!Next
<1> QED BY <1>1, <1>2, <1>3, <1>4, <1>5, <1>6 DEF Kept, StreamInv

\* What the first bytes of the stream are, for a reader that has taken none of
\* them: the length field of the frame at the head of the queue.
LEMMA FieldIs ==
    ASSUME NEW q \in Seq(Frames), NEW at, NEW b \in Seq(AllBytes), NEW r \in Seq(AllBytes),
           Layout(at, q, b \o r, 0), LenSize <= Len(b)
    PROVE  /\ q # <<>> /\ q[1] \in Frames
           /\ Head(b)[1] = q[1] /\ Length(b) = q[1].len
           /\ q[1].len \in Nat /\ q[1].len >= 1
<1> DEFINE w == b \o r
<1>0. LenSize \in Nat /\ 0 < LenSize /\ HeaderSize \in Nat /\ LenSize < HeaderSize
  BY StreamAssumptions
<1>1. w \in Seq(AllBytes) /\ Len(w) = Len(b) + Len(r) /\ Len(b) \in Nat /\ Len(r) \in Nat
  BY JoinOf
<1>2. \A i \in 1 .. Len(b) : w[i] = b[i]
  BY JoinOf
<1>3. Layout(at, q, w, 0)
  OBVIOUS
<1> HIDE DEF w
<1>4. Len(w) > 0
  BY <1>0, <1>1
<1>5. q # <<>> => 0 < FrameLen(q[1])
  <2>1. q # <<>> => q[1] \in Frames
    OBVIOUS
  <2> QED BY <2>1, BytesOf
<1>6. /\ q # <<>> /\ q[1] \in Frames
      /\ \A i \in 1 .. Len(w) : 0 + i <= FrameLen(q[1]) => w[i] = <<q[1], 0 + i>>
  BY <1>1, <1>3, <1>4, <1>5, LayoutHead
<1> DEFINE f == q[1]
<1>7. f \in Frames /\ f.len \in Nat /\ f.len >= 1
  <2>1. f \in Frames /\ (f.len \in Lens \/ f.len = HeaderSize)
    BY <1>6 DEF Frames
  <2>2. f.len \in Lens => f.len \in Nat \ {0}
    BY StreamAssumptions
  <2>3. HeaderSize \in Nat \ {0}
    BY <1>0
  <2>4. f.len \in Nat \ {0}
    BY <2>1, <2>2, <2>3
  <2> HIDE DEF f
  <2> QED BY <2>1, <2>4
<1> HIDE DEF f
<1>8. LenSize <= FrameLen(f)
  BY <1>0, <1>7 DEF FrameLen
<1>9. ASSUME NEW i \in 1 .. LenSize PROVE b[i] = <<f, i>>
  <2>1. i \in 1 .. Len(b) /\ i \in 1 .. Len(w) /\ 0 + i = i
    BY <1>0, <1>1
  <2>2. i <= FrameLen(f)
    <3>1. FrameLen(f) \in Nat
      BY <1>7, BytesOf
    <3> QED BY <1>0, <1>8, <3>1
  <2>3. w[i] = <<f, i>>
    BY <1>6, <2>1, <2>2 DEF f
  <2> QED BY <1>2, <2>1, <2>3
<1>10. Head(b)[1] = f /\ Length(b) = f.len
  BY <1>7, <1>9, LengthIs
<1> QED BY <1>6, <1>7, <1>10 DEF f

\* The layout of the stream, and what has still to come after it.
Flow(q, w, taken, s, o, ended) ==
    \E at : /\ Layout(at, q, w, taken)
            /\ IF ended THEN s = <<>> /\ o = 0 ELSE Unwritten(at, q, w, s, o)

LEMMA StreamIsFlow ==
    /\ Stream <=> Flow(queue, buf \o wire, Taken, sendq, off, fin)
    /\ Stream' <=> Flow(queue', buf' \o wire', Taken', sendq', off', fin')
<1>1. Stream <=> Flow(queue, buf \o wire, Taken, sendq, off, fin)
  BY DEF Stream, Flow, Layout
<1>2. Stream' <=> Flow(queue', buf' \o wire', Taken', sendq', off', fin')
  BY DEF Stream, Flow, Layout
<1> QED BY <1>1, <1>2

\* Of the stream b \o r the first m bytes are to be taken.
Taking(q, b, r, taken, m, s, o, ended) ==
    /\ q \in Seq(Frames) /\ b \in Seq(AllBytes) /\ r \in Seq(AllBytes)
    /\ taken \in Nat /\ m \in 0 .. Len(b)
    /\ Flow(q, b \o r, taken, s, o, ended)

\* Bytes go from the stream into the frame at the head of the queue.
LEMMA FlowInto ==
    ASSUME NEW q, NEW b, NEW r, NEW taken, NEW m, NEW s, NEW o, NEW ended,
           Taking(q, b, r, taken, m, s, o, ended)
    PROVE  /\ SubSeq(b, m + 1, Len(b)) \in Seq(AllBytes)
           /\ Len(SubSeq(b, m + 1, Len(b))) = Len(b) - m
           /\ Flow(q, SubSeq(b, m + 1, Len(b)) \o r, taken + m, s, o, ended)
<1>0. /\ q \in Seq(Frames) /\ b \in Seq(AllBytes) /\ r \in Seq(AllBytes)
      /\ taken \in Nat /\ m \in 0 .. Len(b)
  BY DEF Taking
<1>1. b \o r \in Seq(AllBytes)
  BY <1>0, JoinOf
<1>2. /\ SubSeq(b, m + 1, Len(b)) \o r = SubSeq(b \o r, m + 1, Len(b \o r))
      /\ SubSeq(b, m + 1, Len(b)) \in Seq(AllBytes)
      /\ Len(SubSeq(b, m + 1, Len(b))) = Len(b) - m
      /\ m \in 0 .. Len(b \o r)
  BY <1>0, TakeMoves
<1>3. PICK at : /\ Layout(at, q, b \o r, taken)
                /\ IF ended THEN s = <<>> /\ o = 0 ELSE Unwritten(at, q, b \o r, s, o)
  BY DEF Flow, Taking
<1> DEFINE back == [j \in 1 .. Len(q) + 1 |-> at[j] - m]
           w == b \o r
<1>4. Layout(at, q, w, taken) /\ w \in Seq(AllBytes) /\ m \in 0 .. Len(w)
  BY <1>1, <1>2, <1>3
<1> HIDE DEF w
<1>5. /\ Layout(back, q, SubSeq(w, m + 1, Len(w)), taken + m)
      /\ \A x, y : Unwritten(at, q, w, x, y) => Unwritten(back, q, SubSeq(w, m + 1, Len(w)), x, y)
  BY <1>0, <1>4, LayoutTake
<1> HIDE DEF back
<1>6. Flow(q, SubSeq(w, m + 1, Len(w)), taken + m, s, o, ended)
  BY <1>3, <1>5 DEF Flow, w
<1> QED BY <1>2, <1>6 DEF w

\* A frame that has all its bytes leaves the queue.
LEMMA FlowDrop ==
    ASSUME NEW q \in Seq(Frames), q # <<>>, NEW w \in Seq(AllBytes),
           NEW taken, taken = FrameLen(q[1]), NEW s, NEW o, NEW ended,
           Flow(q, w, taken, s, o, ended)
    PROVE  Flow(Tail(q), w, 0, s, o, ended)
<1>1. PICK at : /\ Layout(at, q, w, taken)
                /\ IF ended THEN s = <<>> /\ o = 0 ELSE Unwritten(at, q, w, s, o)
  BY DEF Flow
<1> DEFINE next == [j \in 1 .. Len(Tail(q)) + 1 |-> at[j + 1]]
<1>2. /\ Layout(next, Tail(q), w, 0)
      /\ \A x, y : Unwritten(at, q, w, x, y) => Unwritten(next, Tail(q), w, x, y)
  <2>1. Layout(at, q, w, taken)
    BY <1>1
  <2> QED BY <2>1, LayoutDrop
<1> HIDE DEF next
<1> QED BY <1>1, <1>2 DEF Flow

\* What is left of the stream after a step that takes m bytes of b, which the
\* frame at the head of the queue still has coming; with them it is complete, or
\* it is not.
Remains(b, r, m, whole) ==
    /\ wire' = r
    /\ buf' = SubSeq(b, m + 1, Len(b))
    /\ queue' = IF whole THEN Tail(queue) ELSE queue
    /\ UNCHANGED <<sendq, off, fin>>
    /\ IF whole THEN queue # <<>> /\ Taken + m = FrameLen(queue[1]) /\ Taken' = 0
                ELSE Taken' = Taken + m

LEMMA RemainsKeeps ==
    ASSUME Types, Stream,
           NEW b \in Seq(AllBytes), NEW r \in Seq(AllBytes), b \o r = buf \o wire,
           NEW m \in 0 .. Len(b), NEW whole \in BOOLEAN, Remains(b, r, m, whole)
    PROVE  /\ Stream'
           /\ buf' \in Seq(AllBytes) /\ wire' \in Seq(AllBytes) /\ queue' \in Seq(Frames)
           /\ Len(buf') = Len(b) - m
<1> DEFINE left == SubSeq(b, m + 1, Len(b))
<1>9. queue \in Seq(Frames) /\ Taken \in Nat
  BY StreamAssumptions DEF Types, Taken
<1>1. PICK q \in Seq(Frames), t \in Nat : q = queue /\ t = Taken
  BY <1>9
<1>2. Taking(q, b, r, t, m, sendq, off, fin)
  BY <1>1, StreamIsFlow DEF Taking
<1>3. /\ left \in Seq(AllBytes) /\ Len(left) = Len(b) - m
      /\ Flow(q, left \o r, t + m, sendq, off, fin)
  BY <1>2, FlowInto
<1> HIDE DEF left
<1>4. left \o r \in Seq(AllBytes)
  BY <1>3, JoinOf
<1>5. /\ wire' = r /\ buf' = left
      /\ queue' = IF whole THEN Tail(q) ELSE q
      /\ UNCHANGED <<sendq, off, fin>>
      /\ IF whole THEN q # <<>> /\ t + m = FrameLen(q[1]) /\ Taken' = 0
                  ELSE Taken' = t + m
  BY <1>1 DEF Remains, left
<1>6. Stream' <=> Flow(queue', left \o r, Taken', sendq, off, fin)
  BY <1>5, StreamIsFlow
<1>7. CASE whole
  <2>1. q # <<>> /\ t + m = FrameLen(q[1]) /\ Taken' = 0 /\ queue' = Tail(q)
    BY <1>5, <1>7
  <2>2. Flow(Tail(q), left \o r, 0, sendq, off, fin)
    BY <1>3, <1>4, <2>1, FlowDrop
  <2>3. Stream'
    BY <1>6, <2>1, <2>2
  <2>4. queue' \in Seq(Frames)
    BY <2>1
  <2> QED BY <1>3, <1>5, <2>3, <2>4
<1>8. CASE ~whole
  <2>1. Taken' = t + m /\ queue' = q
    BY <1>5, <1>8
  <2>2. Stream'
    BY <1>3, <1>6, <2>1
  <2> QED BY <1>3, <1>5, <2>1, <2>2
<1> QED BY <1>7, <1>8

\* The bytes that are read are the next ones of the frame at the head.
LEMMA NextBytes ==
    ASSUME Types, Stream, queue # <<>> => Taken < FrameLen(queue[1]),
           NEW b \in Seq(AllBytes), NEW r \in Seq(AllBytes), b \o r = buf \o wire
    PROVE  \A i \in 1 .. Len(b) :
              Taken + i <= FrameLen(queue[1]) => b[i] = <<queue[1], Taken + i>>
<1>1. queue \in Seq(Frames) /\ Taken \in Nat
  BY StreamAssumptions DEF Types, Taken
<1>2. PICK at : Layout(at, queue, b \o r, Taken)
  BY DEF Stream
<1> DEFINE w == b \o r
<1>3. w \in Seq(AllBytes) /\ Len(w) = Len(b) + Len(r) /\ \A i \in 1 .. Len(b) : w[i] = b[i]
  <2>1. w \in Seq(AllBytes)
    BY JoinOf, ZenonT(30)
  <2>2. Len(w) = Len(b) + Len(r)
    BY JoinOf, ZenonT(30)
  <2>3. \A i \in 1 .. Len(b) : w[i] = b[i]
    BY JoinOf, ZenonT(30)
  <2> QED BY <2>1, <2>2, <2>3
<1>4. Len(b) \in Nat /\ Len(r) \in Nat
  OBVIOUS
<1>5. Layout(at, queue, w, Taken)
  BY <1>2
<1> HIDE DEF w
<1>6. ASSUME NEW i \in 1 .. Len(b), Taken + i <= FrameLen(queue[1])
      PROVE  b[i] = <<queue[1], Taken + i>>
  <2>1. Len(w) > 0 /\ i \in 1 .. Len(w)
    BY <1>3, <1>4
  <2>2. \A k \in 1 .. Len(w) : Taken + k <= FrameLen(queue[1]) => w[k] = <<queue[1], Taken + k>>
    BY <1>1, <1>3, <1>5, <2>1, LayoutHead
  <2>3. w[i] = <<queue[1], Taken + i>>
    BY <1>6, <2>1, <2>2
  <2> QED BY <1>3, <2>3
<1> QED BY <1>6

\* What a call of unpack is given: the frame f at the head of the queue, of which
\* `taken` bytes have been taken; `strip` is the length field, if it is still there.
UnpackNumbers(f, b, taken, want, strip) ==
    /\ queue # <<>> /\ f = queue[1]
    /\ LenSize <= f.len /\ f.len <= MaxLen
    /\ taken = Taken /\ taken < f.len
    /\ want = f.len - taken
    /\ strip \in Nat /\ strip <= want /\ strip <= Len(b)
    /\ taken + strip = LenSize + Len(pkt)

LEMMA UnpackKeeps ==
    ASSUME StreamInv, open, reader = "yasio",
           NEW b \in Seq(AllBytes), NEW r \in Seq(AllBytes), b \o r = buf \o wire,
           Len(b) <= RdSize,
           NEW f, NEW taken, NEW want, NEW strip, UnpackNumbers(f, b, taken, want, strip),
           Unpack(b, f.len, want, strip),
           wire' = r, UNCHANGED <<reader, sender, phase, open>>
    PROVE  Kept
<1>0. Types /\ Flight /\ Stream /\ Packet
  BY DEF StreamInv
<1>1. /\ queue # <<>> /\ f = queue[1]
      /\ LenSize <= f.len /\ f.len <= MaxLen
      /\ taken = Taken /\ taken < f.len
      /\ want = f.len - taken
      /\ strip \in Nat /\ strip <= want /\ strip <= Len(b)
      /\ taken + strip = LenSize + Len(pkt)
  BY DEF UnpackNumbers
<1>2. /\ queue \in Seq(Frames) /\ pkt \in Seq(AllBytes) /\ Len(queue) \in Nat
      /\ LenSize \in Nat /\ 0 < LenSize /\ HeaderSize \in Nat /\ LenSize < HeaderSize
      /\ RdSize \in Nat /\ MaxLen \in Nat /\ MaxFlight \in Nat /\ LenSize < RdSize
  BY <1>0, StreamAssumptions DEF Types
<1>3. f \in Frames /\ f.len \in Nat /\ f.id \in Ids
  <2>1. f \in Frames
    BY <1>1, <1>2
  <2> QED BY <2>1, StreamAssumptions DEF Frames
<1>4. FrameLen(f) = f.len /\ taken \in Nat /\ want \in Nat /\ want >= 1 /\ taken + want = f.len
  <2>1. FrameLen(f) = f.len
    BY <1>1, <1>2, <1>3 DEF FrameLen
  <2>2. taken \in Nat
    BY <1>0, <1>1, StreamAssumptions DEF Taken, Types
  <2>3. PICK k \in Nat : k = f.len
    BY <1>3, Zenon
  <2>4. taken < k /\ want = k - taken
    BY <1>1, <2>3
  <2>5. want \in Nat /\ want >= 1 /\ taken + want = k
    BY <2>2, <2>3, <2>4
  <2> QED BY <2>1, <2>2, <2>3, <2>5
<1>5. \A i \in 1 .. Len(b) : taken + i <= f.len => b[i] = <<f, taken + i>>
  <2>1. queue # <<>> => Taken < FrameLen(queue[1])
    BY <1>1, <1>4
  <2>2. \A i \in 1 .. Len(b) :
           Taken + i <= FrameLen(queue[1]) => b[i] = <<queue[1], Taken + i>>
    BY <1>0, <2>1, NextBytes
  <2> QED BY <1>1, <1>4, <2>2
<1>6. \A i \in 1 .. Len(pkt) : pkt[i] = <<f, LenSize + i>>
  BY <1>0, <1>1 DEF Packet
<1>7. PICK lb \in Nat : lb = Len(b)
  OBVIOUS
<1>8. Min({want, Len(b)}) = IF want <= lb THEN want ELSE lb
  <2>1. Min({want, lb}) = IF want <= lb THEN want ELSE lb
    BY <1>4, MinTwo
  <2> QED BY <1>7, <2>1
<1> DEFINE m == IF want <= lb THEN want ELSE lb
           body == pkt \o SubSeq(b, strip + 1, m)
<1>9. m \in Nat /\ strip <= m /\ m <= Len(b) /\ taken + m <= f.len /\ m \in 0 .. Len(b)
  <2>1. strip \in Nat /\ strip <= want /\ strip <= lb
    BY <1>1, <1>7
  <2>2. m \in Nat /\ strip <= m /\ m <= lb /\ m <= want
    BY <1>4, <2>1
  <2> HIDE DEF m
  <2>3. taken + m <= taken + want
    BY <1>4, <2>2
  <2>4. m \in 0 .. lb
    BY <2>2
  <2> QED BY <1>4, <1>7, <2>2, <2>3, <2>4
<1>10. IF Len(b) >= want
       THEN /\ OnRecvFrame(body)
            /\ buf' = SubSeq(b, want + 1, Len(b))
            /\ size' = 0 /\ pkt' = <<>>
       ELSE /\ pkt' = body /\ buf' = <<>>
            /\ size' = f.len
            /\ UNCHANGED <<queue, got>>
  BY <1>8 DEF Unpack
<1>11. \A i \in 1 .. m : b[i] = <<f, taken + i>>
  <2> HIDE DEF m
  <2>1. ASSUME NEW i \in 1 .. m PROVE i \in 1 .. Len(b) /\ taken + i <= f.len
    BY <1>3, <1>4, <1>9
  <2> QED BY <1>5, <2>1
<1>12. /\ body \in Seq(AllBytes)
       /\ LenSize + Len(body) = taken + m
       /\ \A i \in 1 .. Len(body) : body[i] = <<f, LenSize + i>>
  <2> HIDE DEF m
  <2>1. BodyParts(f, pkt, b, taken, strip, m)
    BY <1>1, <1>2, <1>4, <1>6, <1>9, <1>11 DEF BodyParts
  <2>2. body \in Seq(AllBytes)
    BY <2>1, BodyIs
  <2>3. LenSize + Len(body) = taken + m
    BY <2>1, BodyIs
  <2>5. BodyOf(f, body)
    BY <2>1, BodyIs
  <2>4. \A i \in 1 .. Len(body) : body[i] = <<f, LenSize + i>>
    <3> HIDE DEF body
    <3> QED BY <2>5 DEF BodyOf
  <2> QED BY <2>2, <2>3, <2>4
<1> HIDE DEF body
<1>13. UNCHANGED <<reader, answer, sendq, off, fin, phase, open>>
  BY DEF sender
<1>14. CASE want <= lb
  <2>1. m = want
    BY <1>14
  <2>2. /\ OnRecvFrame(body)
        /\ buf' = SubSeq(b, want + 1, Len(b))
        /\ size' = 0 /\ pkt' = <<>>
    BY <1>4, <1>7, <1>10, <1>14
  <2> HIDE DEF m
  <2>3. LenSize + Len(body) = f.len
    BY <1>4, <1>12, <2>1
  <2>4. Len(body) < HeaderSize - LenSize <=> f.len < HeaderSize
    BY <1>2, <1>3, <1>12, <2>3
  <2>5. f \in Good <=> ~(f.len < HeaderSize)
    BY <1>1, <1>2, <1>3 DEF Good
  <2>6. queue' = Tail(queue) /\ got' = IF f \in Good THEN f.id ELSE got
    <3>1. f \in Good => FrameOf(body) = f.id
      BY <1>12, <2>3, FrameOfIs
    <3> QED BY <2>2, <2>4, <2>5, <3>1 DEF OnRecvFrame
  <2>7. Remains(b, r, want, TRUE)
    <3>1. Taken' = 0
      BY <2>2 DEF Taken
    <3> QED BY <1>1, <1>4, <1>13, <2>2, <2>6, <3>1 DEF Remains
  <2>8. /\ Stream'
        /\ buf' \in Seq(AllBytes) /\ wire' \in Seq(AllBytes) /\ queue' \in Seq(Frames)
        /\ Len(buf') = Len(b) - want
    BY <1>0, <1>9, <2>1, <2>7, RemainsKeeps
  <2>9. RoomToRead'
    <3>1. Len(buf') < RdSize
      BY <1>2, <1>4, <1>7, <2>8
    <3> QED BY <3>1 DEF RoomToRead
  <2>10. Types'
    <3>1. got' \in Ids \cup {None}
      BY <1>0, <1>3, <2>6 DEF Types
    <3>2. size' \in 0 .. MaxLen
      BY <1>2, <2>2
    <3>3. sendq' \in Seq(Frames) /\ off' \in Nat /\ pkt' \in Seq(AllBytes)
      BY <1>0, <1>13, <2>2 DEF Types
    <3> QED BY <1>0, <1>13, <2>8, <3>1, <3>2, <3>3 DEF Types
  <2>11. Flight'
    <3>1. Len(queue) <= MaxFlight + 1 /\ Len(queue') = Len(queue) - 1
      BY <1>0, <1>1, <1>2, <2>6 DEF Flight
    <3>2. Len(queue') <= MaxFlight
      BY <1>2, <3>1
    <3> QED BY <3>2 DEF Flight
  <2>12. Packet'
    BY <2>2 DEF Packet
  <2>13. Cause
    BY <1>13 DEF Cause
  <2>14. QueueStep
    <3>1. Head(queue) = f
      BY <1>1, <1>2
    <3>2. Promise!Deliver \/ Promise!PassOver
      BY <1>1, <1>13, <2>6, <3>1 DEF Promise!Deliver, Promise!PassOver
    <3> QED BY <3>2 DEF QueueStep, Promise!Next
  <2> QED BY <1>13, <2>8, <2>9, <2>10, <2>11, <2>12, <2>13, <2>14 DEF Kept, StreamInv
<1>15. CASE ~(want <= lb)
  <2>1. m = lb
    BY <1>15
  <2>2. /\ pkt' = body /\ buf' = <<>>
        /\ size' = f.len
        /\ UNCHANGED <<queue, got>>
    BY <1>4, <1>7, <1>10, <1>15
  <2> HIDE DEF m
  <2>3. Taken' = taken + lb /\ taken + lb < f.len
    <3>1. size' # 0
      BY <1>1, <1>2, <1>3, <2>2
    <3>2. Taken' = LenSize + Len(body)
      BY <2>2, <3>1 DEF Taken
    <3>3. taken + lb < f.len
      BY <1>3, <1>4, <1>15
    <3> QED BY <1>12, <2>1, <3>2, <3>3
  <2>4. buf' = SubSeq(b, lb + 1, Len(b))
    BY <1>7, <2>2
  <2>5. Remains(b, r, lb, FALSE)
    BY <1>1, <1>13, <2>2, <2>3, <2>4 DEF Remains
  <2>6. /\ Stream'
        /\ buf' \in Seq(AllBytes) /\ wire' \in Seq(AllBytes) /\ queue' \in Seq(Frames)
    BY <1>0, <1>9, <2>1, <2>5, RemainsKeeps
  <2>7. RoomToRead'
    <3>1. Len(buf') < RdSize
      BY <1>2, <2>2
    <3> QED BY <3>1 DEF RoomToRead
  <2>8. Types'
    <3>2. size' \in 0 .. MaxLen
      BY <1>1, <1>2, <1>3, <2>2
    <3>3. sendq' \in Seq(Frames) /\ off' \in Nat /\ pkt' \in Seq(AllBytes)
      BY <1>0, <1>12, <1>13, <2>2 DEF Types
    <3> QED BY <1>0, <1>13, <2>2, <2>6, <3>2, <3>3 DEF Types
  <2>9. Flight'
    BY <1>0, <2>2 DEF Flight, Pings
  <2>10. Packet'
    <3>1. \A i \in 1 .. Len(pkt') : pkt'[i] = <<f, LenSize + i>>
      BY <1>12, <2>2
    <3> QED BY <1>1, <1>13, <2>2, <2>3, <3>1 DEF Packet
  <2>11. Cause /\ QueueStep
    BY <1>13, <2>2 DEF Cause, QueueStep
  <2> QED BY <1>13, <2>6, <2>7, <2>8, <2>9, <2>10, <2>11 DEF Kept, StreamInv
<1> QED BY <1>14, <1>15

\* What a reader that has taken nothing of the next frame reads of it.
LEMMA NextField ==
    ASSUME Types, Stream, size = 0,
           NEW b \in Seq(AllBytes), NEW r \in Seq(AllBytes), b \o r = buf \o wire,
           LenSize <= Len(b)
    PROVE  /\ queue # <<>> /\ queue[1] \in Frames
           /\ Head(b)[1] = queue[1] /\ Length(b) = queue[1].len
           /\ queue[1].len \in Nat /\ queue[1].len >= 1
<1>1. queue \in Seq(Frames) /\ Taken = 0
  BY DEF Types, Taken
<1>2. PICK at : Layout(at, queue, b \o r, 0)
  BY <1>1 DEF Stream
<1> QED BY <1>1, <1>2, FieldIs

LEMMA Decoded ==
    ASSUME Types, Stream, size = 0,
           NEW b \in Seq(AllBytes), NEW r \in Seq(AllBytes), b \o r = buf \o wire
    PROVE  /\ Len(b) < LenSize => DecodeLen(b) = [ok |-> TRUE, len |-> 0]
           /\ LenSize <= Len(b) =>
                /\ queue # <<>> /\ queue[1] \in Frames
                /\ queue[1].len \in Nat /\ queue[1].len >= 1
                /\ DecodeLen(b) = IF queue[1].len > MaxLen
                                  THEN [ok |-> FALSE, len |-> 0]
                                  ELSE [ok |-> TRUE, len |-> queue[1].len]
<1>1. Len(b) \in Nat /\ LenSize \in Nat
  BY StreamAssumptions
<1>2. ASSUME LenSize <= Len(b)
      PROVE  /\ queue # <<>> /\ queue[1] \in Frames
             /\ Length(b) = queue[1].len
             /\ queue[1].len \in Nat /\ queue[1].len >= 1
  BY <1>2, NextField
<1>3. ~(Len(b) < LenSize) <=> LenSize <= Len(b)
  BY <1>1
<1> QED BY <1>2, <1>3 DEF DecodeLen

\* yasio's do_read.
LEMMA DoReadKeeps ==
    ASSUME StreamInv, open, reader = "yasio",
           NEW n \in 0 .. Len(wire), Len(buf) + n <= RdSize, DoRead(n)
    PROVE  Kept
<1> DEFINE b == buf \o SubSeq(wire, 1, n)
           r == SubSeq(wire, n + 1, Len(wire))
           d == DecodeLen(b)
<1>0. Types /\ Flight /\ Stream /\ Packet
  BY DEF StreamInv
<1>1. /\ buf \in Seq(AllBytes) /\ wire \in Seq(AllBytes) /\ queue \in Seq(Frames)
      /\ pkt \in Seq(AllBytes) /\ size \in Nat
      /\ LenSize \in Nat /\ 0 < LenSize /\ HeaderSize \in Nat /\ LenSize < HeaderSize
      /\ RdSize \in Nat /\ MaxLen \in Nat /\ LenSize < RdSize
  BY <1>0, StreamAssumptions DEF Types
<1>2. /\ b \o r = buf \o wire
      /\ b \in Seq(AllBytes) /\ Len(b) = Len(buf) + n
      /\ r \in Seq(AllBytes)
  <2>0. buf \in Seq(AllBytes) /\ wire \in Seq(AllBytes)
    BY <1>1
  <2>1. b \o r = buf \o wire
    <3>1. Moves(buf, wire, n)
      BY <2>0, ReadMoves
    <3> QED BY <3>1, Zenon DEF Moves
  <2>2. b \in Seq(AllBytes)
    BY <2>0, ReadMoves
  <2>3. Len(b) = Len(buf) + n
    BY <2>0, ReadMoves
  <2>4. r \in Seq(AllBytes)
    BY <2>0, ReadMoves
  <2> QED BY <2>1, <2>2, <2>3, <2>4
<1>3. \/ /\ size = 0 /\ d.ok /\ d.len = 0
         /\ buf' = b
         /\ UNCHANGED <<queue, got, size, pkt>>
         /\ wire' = r /\ UNCHANGED <<reader, sender, phase, open>>
      \/ /\ size = 0 /\ d.ok /\ d.len >= LenSize
         /\ Unpack(b, d.len, d.len, LenSize)
         /\ wire' = r /\ UNCHANGED <<reader, sender, phase, open>>
      \/ /\ size = 0
         /\ ~d.ok \/ d.len \in 1 .. LenSize - 1
         /\ Close
      \/ /\ size > 0
         /\ Unpack(b, size, size - (Len(pkt) + LenSize), 0)
         /\ wire' = r /\ UNCHANGED <<reader, sender, phase, open>>
  BY DEF DoRead
<1> HIDE DEF b, r, d
<1>4. Len(b) \in Nat /\ Len(b) <= RdSize
  BY <1>2
<1>5. size = 0 => /\ Len(b) < LenSize => d = [ok |-> TRUE, len |-> 0]
                  /\ LenSize <= Len(b) =>
                       /\ queue # <<>> /\ queue[1] \in Frames
                       /\ queue[1].len \in Nat /\ queue[1].len >= 1
                       /\ d = IF queue[1].len > MaxLen
                              THEN [ok |-> FALSE, len |-> 0]
                              ELSE [ok |-> TRUE, len |-> queue[1].len]
  BY <1>0, <1>2, Decoded DEF d
<1>6. Len(b) < LenSize \/ LenSize <= Len(b)
  BY <1>1, <1>4
<1>7. CASE /\ size = 0 /\ d.ok /\ d.len = 0
           /\ buf' = b
           /\ UNCHANGED <<queue, got, size, pkt>>
           /\ wire' = r /\ UNCHANGED <<reader, sender, phase, open>>
  <2>1. UNCHANGED <<reader, queue, answer, sendq, off, fin, size, pkt, phase, got, open>>
    BY <1>7 DEF sender
  <2>2. Len(b) < LenSize
    BY <1>1, <1>5, <1>6, <1>7
  <2>3. Types'
    BY <1>0, <1>2, <1>7, <2>1 DEF Types
  <2>4. Flight' /\ Packet'
    BY <1>0, <2>1 DEF Flight, Pings, Packet, Taken
  <2>5. RoomToRead'
    <3>1. Len(b) < RdSize
      BY <1>1, <1>4, <2>2
    <3> QED BY <1>7, <3>1 DEF RoomToRead
  <2>6. Stream'
    <3>1. buf' \o wire' = buf \o wire
      BY <1>2, <1>7
    <3>2. Taken' = Taken
      BY <2>1 DEF Taken
    <3> QED BY <1>0, <2>1, <3>1, <3>2 DEF Stream
  <2>7. Cause /\ QueueStep
    BY <2>1 DEF Cause, QueueStep
  <2> QED BY <2>1, <2>3, <2>4, <2>5, <2>6, <2>7 DEF Kept, StreamInv
<1>8. CASE /\ size = 0 /\ d.ok /\ d.len >= LenSize
           /\ Unpack(b, d.len, d.len, LenSize)
           /\ wire' = r /\ UNCHANGED <<reader, sender, phase, open>>
  <2>1. LenSize <= Len(b)
    <3>1. Len(b) < LenSize => d.len = 0
      BY <1>5, <1>8
    <3> QED BY <1>1, <1>6, <1>8, <3>1
  <2>2. PICK f \in Frames : f = queue[1] /\ queue # <<>> /\ f.len \in Nat
    BY <1>5, <1>8, <2>1
  <2>3. d = IF f.len > MaxLen THEN [ok |-> FALSE, len |-> 0]
                              ELSE [ok |-> TRUE, len |-> f.len]
    BY <1>5, <1>8, <2>1, <2>2
  <2>4. d.len = f.len /\ f.len <= MaxLen
    BY <1>1, <1>8, <2>2, <2>3
  <2>5. Taken = 0 /\ Len(pkt) = 0
    BY <1>1, <1>8, <1>0 DEF Taken, Packet
  <2>6. UnpackNumbers(f, b, 0, f.len, LenSize)
    <3>1. LenSize <= f.len
      BY <1>8, <2>4
    <3> QED BY <1>1, <2>1, <2>2, <2>4, <2>5, <3>1 DEF UnpackNumbers
  <2>7. Unpack(b, f.len, f.len, LenSize)
    BY <1>8, <2>4
  <2> QED BY <1>2, <1>4, <1>8, <2>6, <2>7, UnpackKeeps
<1>9. CASE /\ size = 0
           /\ ~d.ok \/ d.len \in 1 .. LenSize - 1
           /\ Close
  <2>1. LenSize <= Len(b)
    BY <1>5, <1>6, <1>9
  <2>2. PICK f \in Frames : f = queue[1] /\ queue # <<>> /\ f.len \in Nat
    BY <1>5, <1>9, <2>1
  <2>3. d = IF f.len > MaxLen THEN [ok |-> FALSE, len |-> 0]
                              ELSE [ok |-> TRUE, len |-> f.len]
    BY <1>5, <1>9, <2>1, <2>2
  <2>4. f.len > MaxLen \/ f.len < HeaderSize
    BY <1>1, <1>9, <2>2, <2>3
  <2>5. Head(queue) \notin Good
    BY <1>1, <2>2, <2>4 DEF Good
  <2> QED BY <1>9, <2>2, <2>5, CloseKeeps
<1>10. CASE /\ size > 0
            /\ Unpack(b, size, size - (Len(pkt) + LenSize), 0)
            /\ wire' = r /\ UNCHANGED <<reader, sender, phase, open>>
  <2>1. size # 0
    BY <1>1, <1>10
  <2>2. /\ queue # <<>> /\ size = queue[1].len
        /\ Taken < size /\ Taken = LenSize + Len(pkt)
    BY <1>0, <2>1 DEF Packet, Taken
  <2>3. PICK f : f = queue[1]
    OBVIOUS
  <2>4. PICK k \in Nat : k = Len(pkt)
    BY <1>1
  <2>5. size - (k + LenSize) = size - (LenSize + k) /\ LenSize <= size /\ size <= MaxLen
    BY <1>0, <1>1, <2>2, <2>4 DEF Types
  <2>6. UnpackNumbers(f, b, LenSize + k, size - (k + LenSize), 0)
    <3>1. 0 <= size - (k + LenSize) /\ 0 <= Len(b) /\ LenSize + k + 0 = LenSize + k
      BY <1>1, <1>4, <2>2, <2>4
    <3> QED BY <2>2, <2>3, <2>4, <2>5, <3>1 DEF UnpackNumbers
  <2>7. Unpack(b, f.len, size - (k + LenSize), 0)
    BY <1>10, <2>2, <2>3, <2>4
  <2> QED BY <1>2, <1>4, <1>10, <2>6, <2>7, UnpackKeeps
<1> QED BY <1>3, <1>7, <1>8, <1>9, <1>10

LEMMA YasioKeeps ==
    ASSUME StreamInv, YasioRead
    PROVE  Kept
<1>0. Types /\ RoomToRead /\ open /\ reader = "yasio"
  BY DEF StreamInv, YasioRead
<1>1. /\ buf \in Seq(AllBytes) /\ wire \in Seq(AllBytes) /\ RdSize \in Nat
      /\ Len(buf) \in Nat /\ Len(wire) \in Nat
  BY <1>0, StreamAssumptions DEF Types
<1>2. ASSUME NEW n \in 0 .. Min({RdSize - Len(buf), Len(wire)}), DoRead(n)
      PROVE  Kept
  <2>1. Min({RdSize - Len(buf), Len(wire)})
          = IF RdSize - Len(buf) <= Len(wire) THEN RdSize - Len(buf) ELSE Len(wire)
    <3>1. RdSize - Len(buf) \in Int
      BY <1>1
    <3> QED BY <1>1, <3>1, MinTwo
  <2>2. n \in 0 .. Len(wire) /\ Len(buf) + n <= RdSize
    BY <1>1, <2>1
  <2> QED BY <1>0, <1>2, <2>2, DoReadKeeps
<1>3. ASSUME IF wire = <<>> THEN fin ELSE Len(buf) = RdSize, Close
      PROVE  Kept
  <2>1. wire = <<>> /\ fin
    BY <1>0, <1>1, <1>3 DEF RoomToRead
  <2> QED BY <1>0, <1>3, <2>1, CloseKeeps
<1> QED BY <1>2, <1>3 DEF YasioRead

\* A read of a Rust reader.
LEMMA RustReadKeeps ==
    ASSUME StreamInv, RustRead
    PROVE  Kept
<1>0. /\ Types /\ Flight /\ RoomToRead /\ Stream /\ Packet
      /\ open /\ reader # "yasio" /\ phase \in {"register", "read"}
  BY DEF StreamInv, RustRead
<1>1. buf \in Seq(AllBytes) /\ wire \in Seq(AllBytes)
  BY <1>0 DEF Types
<1>2. ASSUME NEW n \in 1 .. Len(wire),
             buf' = buf \o SubSeq(wire, 1, n),
             wire' = SubSeq(wire, n + 1, Len(wire)),
             phase' = IF phase = "register" THEN "registering" ELSE "extract",
             UNCHANGED <<reader, queue, sender, size, pkt, got, open>>
      PROVE  Kept
  <2>1. UNCHANGED <<reader, queue, answer, sendq, off, fin, size, pkt, got, open>>
    BY <1>2 DEF sender
  <2>0. n \in 0 .. Len(wire)
    OBVIOUS
  <2>2. buf' \o wire' = buf \o wire
    <3>1. Moves(buf, wire, n)
      BY <1>1, <2>0, ReadMoves
    <3> QED BY <1>2, <3>1, Zenon DEF Moves
  <2>3. buf' \in Seq(AllBytes)
    BY <1>1, <1>2, <2>0, ReadMoves
  <2>4. wire' \in Seq(AllBytes)
    BY <1>1, <1>2, <2>0, ReadMoves
  <2>5. Types'
    BY <1>0, <1>2, <2>1, <2>3, <2>4 DEF Types
  <2>6. Stream'
    <3>1. Taken' = Taken
      BY <2>1 DEF Taken
    <3> QED BY <1>0, <2>1, <2>2, <3>1 DEF Stream
  <2>7. Flight' /\ RoomToRead' /\ Packet'
    BY <1>0, <2>1 DEF Flight, Pings, RoomToRead, Packet, Taken
  <2>8. Cause /\ QueueStep
    BY <2>1 DEF Cause, QueueStep
  <2> QED BY <1>0, <2>1, <2>5, <2>6, <2>7, <2>8 DEF Kept, StreamInv
<1>3. ASSUME wire = <<>>, fin, Close PROVE Kept
  BY <1>0, <1>3, CloseKeeps
<1> QED BY <1>2, <1>3 DEF RustRead

\* A Rust reader takes the next frame out of its buffer, or waits for the rest.
LEMMA ExtractKeeps ==
    ASSUME StreamInv, TryExtractFrame
    PROVE  Kept
<1>0. /\ Types /\ Flight /\ RoomToRead /\ Stream /\ Packet
      /\ open /\ reader # "yasio" /\ phase \in {"registering", "extract"}
  BY DEF StreamInv, TryExtractFrame
<1>1. /\ buf \in Seq(AllBytes) /\ wire \in Seq(AllBytes) /\ queue \in Seq(Frames)
      /\ LenSize \in Nat /\ 0 < LenSize /\ HeaderSize \in Nat /\ LenSize < HeaderSize
      /\ MaxLen \in Nat /\ MaxFlight \in Nat
      /\ Len(buf) \in Nat /\ Len(queue) \in Nat
  BY <1>0, StreamAssumptions DEF Types
<1>2. size = 0 /\ pkt = <<>> /\ Taken = 0
  BY <1>0 DEF Packet, Taken
<1>3. LenSize <= Len(buf) =>
         /\ queue # <<>> /\ queue[1] \in Frames
         /\ Head(buf)[1] = queue[1] /\ Length(buf) = queue[1].len
         /\ queue[1].len \in Nat /\ queue[1].len >= 1
  BY <1>0, <1>1, <1>2, NextField
<1>4. ASSUME UNCHANGED <<reader, queue, sender, wire, buf, size, pkt, got, open>>,
             phase' \in {"register", "registering", "read", "extract"}
      PROVE  Kept
  <2>1. UNCHANGED <<reader, queue, answer, sendq, off, fin, wire, buf, size, pkt, got, open>>
    BY <1>4 DEF sender
  <2>2. Types'
    BY <1>0, <1>4, <2>1 DEF Types
  <2>3. Stream'
    <3>1. Taken' = Taken
      BY <2>1 DEF Taken
    <3> QED BY <1>0, <2>1, <3>1 DEF Stream
  <2>4. Flight' /\ RoomToRead' /\ Packet'
    BY <1>0, <2>1 DEF Flight, Pings, RoomToRead, Packet, Taken
  <2>5. Cause /\ QueueStep
    BY <2>1 DEF Cause, QueueStep
  <2> QED BY <1>0, <2>1, <2>2, <2>3, <2>4, <2>5 DEF Kept, StreamInv
<1>5. CASE /\ Len(buf) < HeaderSize
           /\ phase' = ReadAgain
           /\ UNCHANGED <<reader, queue, sender, wire, buf, size, pkt, got, open>>
  BY <1>4, <1>5 DEF ReadAgain
<1>6. CASE /\ Len(buf) >= HeaderSize
           /\ Length(buf) < HeaderSize \/ Length(buf) > MaxLen
           /\ Close
  <2>1. LenSize <= Len(buf)
    BY <1>1, <1>6
  <2>2. PICK f \in Frames : f = queue[1] /\ queue # <<>> /\ f.len \in Nat
    BY <1>3, <2>1
  <2>3. f.len < HeaderSize \/ f.len > MaxLen
    BY <1>3, <1>6, <2>1, <2>2
  <2>4. Head(queue) \notin Good
    BY <1>1, <2>2, <2>3 DEF Good
  <2> QED BY <1>0, <1>6, <2>2, <2>4, CloseKeeps
<1>7. CASE /\ Len(buf) >= HeaderSize
           /\ HeaderSize <= Length(buf) /\ Length(buf) <= MaxLen
           /\ IF Len(buf) < Length(buf)
              THEN phase' = ReadAgain /\ UNCHANGED <<queue, buf, got>>
              ELSE /\ got' = FrameOf(SubSeq(buf, LenSize + 1, Length(buf)))
                   /\ buf' = SubSeq(buf, Length(buf) + 1, Len(buf))
                   /\ queue' = Tail(queue)
                   /\ phase' = AfterFrame(Head(buf)[1])
           /\ UNCHANGED <<reader, sender, wire, size, pkt, open>>
  <2>1. LenSize <= Len(buf)
    BY <1>1, <1>7
  <2>2. PICK f \in Frames : f = queue[1] /\ queue # <<>> /\ f.len \in Nat
    BY <1>3, <2>1
  <2>3. Length(buf) = f.len /\ Head(buf)[1] = f
    BY <1>3, <2>1, <2>2
  <2>4. f \in Good /\ LenSize <= f.len /\ FrameLen(f) = f.len
    <3>1. HeaderSize <= f.len /\ f.len <= MaxLen
      BY <1>7, <2>3
    <3>2. LenSize <= f.len
      BY <1>1, <2>2, <3>1
    <3>3. f \in Good
      BY <3>1 DEF Good
    <3> QED BY <3>2, <3>3 DEF FrameLen
  <2>5. CASE Len(buf) < f.len
    <3>1. phase' = ReadAgain /\ UNCHANGED <<queue, buf, got>>
      BY <1>7, <2>3, <2>5
    <3>2. phase' \in {"register", "registering", "read", "extract"}
      BY <3>1 DEF ReadAgain
    <3> QED BY <1>4, <1>7, <3>1, <3>2
  <2>6. CASE ~(Len(buf) < f.len)
    <3> DEFINE body == SubSeq(buf, LenSize + 1, f.len)
    <3>1. /\ got' = FrameOf(body)
          /\ buf' = SubSeq(buf, f.len + 1, Len(buf))
          /\ queue' = Tail(queue)
          /\ phase' = AfterFrame(f)
      BY <1>7, <2>3, <2>6
    <3>2. UNCHANGED <<reader, answer, sendq, off, fin, wire, size, pkt, open>>
      BY <1>7 DEF sender
    <3>3. f.len <= Len(buf) /\ f.len \in 0 .. Len(buf)
      BY <1>1, <2>2, <2>6
    <3>4. \A i \in 1 .. f.len : buf[i] = <<f, 0 + i>>
      <4>1. queue # <<>> => Taken < FrameLen(queue[1])
        BY <1>1, <1>2, <2>2, <2>4
      <4>2. \A i \in 1 .. Len(buf) :
               Taken + i <= FrameLen(queue[1]) => buf[i] = <<queue[1], Taken + i>>
        BY <1>0, <1>1, <4>1, NextBytes
      <4>3. ASSUME NEW i \in 1 .. f.len PROVE i \in 1 .. Len(buf) /\ 0 + i <= f.len
        BY <1>1, <2>2, <3>3
      <4> QED BY <1>2, <2>2, <2>4, <4>2, <4>3
    <3>5. got' = f.id
      <4> DEFINE whole == <<>> \o SubSeq(buf, LenSize + 1, f.len)
      <4>1. BodyParts(f, <<>>, buf, 0, LenSize, f.len)
        <5>1. <<>> \in Seq(AllBytes) /\ Len(<<>>) = 0 /\ 0 + LenSize = LenSize + 0
          BY <1>1
        <5> QED BY <1>1, <2>2, <2>4, <3>3, <3>4, <5>1 DEF BodyParts
      <4>2. /\ whole \in Seq(AllBytes)
            /\ LenSize + Len(whole) = 0 + f.len
            /\ BodyOf(f, whole)
        <5>1. whole \in Seq(AllBytes)
          BY <4>1, BodyIs
        <5>2. LenSize + Len(whole) = 0 + f.len
          BY <4>1, BodyIs
        <5>3. BodyOf(f, whole)
          BY <4>1, BodyIs
        <5> QED BY <5>1, <5>2, <5>3
      <4>3. body \in Seq(AllBytes)
        BY <1>1, <2>2, <3>3, PartOf
      <4>4. whole = body
        <5> HIDE DEF body
        <5>1. <<>> \o body = body
          BY <4>3
        <5> QED BY <5>1 DEF body
      <4> HIDE DEF whole
      <4>5. FrameOf(whole) = f.id
        BY <2>2, <2>4, <4>2, FrameOfIs DEF BodyOf
      <4> QED BY <3>1, <4>4, <4>5
    <3> HIDE DEF body
    <3>6. Remains(buf, wire, f.len, TRUE)
      <4>1. Taken' = 0
        BY <1>2, <3>2 DEF Taken
      <4> QED BY <1>2, <2>2, <2>4, <3>1, <3>2, <4>1 DEF Remains
    <3>7. /\ Stream'
          /\ buf' \in Seq(AllBytes) /\ wire' \in Seq(AllBytes) /\ queue' \in Seq(Frames)
      BY <1>0, <1>1, <3>3, <3>6, RemainsKeeps
    <3>8. Types'
      <4>1. got' \in Ids \cup {None}
        BY <2>2, <3>5 DEF Frames
      <4>2. phase' \in {"register", "registering", "read", "extract"}
        BY <1>0, <3>1 DEF AfterFrame
      <4> QED BY <1>0, <3>2, <3>7, <4>1, <4>2 DEF Types
    <3>9. Flight'
      <4>1. Len(queue) <= MaxFlight + 1 /\ Len(queue') = Len(queue) - 1
        BY <1>0, <1>1, <2>2, <3>1 DEF Flight
      <4>2. Len(queue') <= MaxFlight
        BY <1>1, <4>1
      <4> QED BY <4>2 DEF Flight
    <3>10. RoomToRead' /\ Packet' /\ Cause
      BY <1>0, <1>2, <3>2 DEF RoomToRead, Packet, Cause
    <3>11. QueueStep
      <4>1. Head(queue) = f
        BY <1>1, <2>2
      <4>2. Promise!Deliver
        BY <1>0, <2>2, <2>4, <3>1, <3>2, <3>5, <4>1 DEF Promise!Deliver
      <4> QED BY <4>2 DEF QueueStep, Promise!Next
    <3> QED BY <1>0, <3>2, <3>7, <3>8, <3>9, <3>10, <3>11 DEF Kept, StreamInv
  <2> QED BY <2>5, <2>6
<1> QED BY <1>5, <1>6, <1>7 DEF TryExtractFrame

----------------------------------------------------------------------------
(* The theorems *)

LEMMA NextKeeps ==
    ASSUME StreamInv, [Next]_vars
    PROVE  Kept
<1>1. CASE Next
  <2>1. CASE (\E len \in Lens : SendData(len)) \/ SendAnswer \/ SendPing
    BY <2>1, SendersKeep
  <2>2. CASE Write
    BY <2>2, WriteKeeps
  <2>3. CASE SenderCloses \/ HeartbeatTimeout
    BY <2>3, SenderClosesKeeps DEF HeartbeatTimeout
  <2>4. CASE YasioRead
    BY <2>4, YasioKeeps
  <2>5. CASE RustRead
    BY <2>5, RustReadKeeps
  <2>6. CASE TryExtractFrame
    BY <2>6, ExtractKeeps
  <2> QED BY <1>1, <2>1, <2>2, <2>3, <2>4, <2>5, <2>6 DEF Next
<1>2. CASE UNCHANGED vars
  <2> USE <1>2 DEF vars, sender, receiver
  <2>1. Types'
    BY DEF StreamInv, Types
  <2>2. Taken' = Taken
    BY DEF Taken
  <2>3. Flight' /\ RoomToRead'
    BY DEF StreamInv, Flight, Pings, RoomToRead
  <2>4. IF open' THEN Stream' /\ Packet' ELSE queue' = <<>> /\ sendq' = <<>> /\ off' = 0
    BY <2>2 DEF StreamInv, Stream, Packet
  <2>5. Cause /\ QueueStep
    BY DEF Cause, QueueStep
  <2> QED BY <2>1, <2>3, <2>4, <2>5 DEF Kept, StreamInv
<1> QED BY <1>1, <1>2

\* The inductive invariant: at every moment the buffer and the wire hold the
\* bytes of the frames in flight, one after another, from where the packet that
\* is being put together ends to where the sender has got.
THEOREM StreamInvariant == Spec => []StreamInv
<1>1. StreamInv /\ [Next]_vars => StreamInv'
  BY NextKeeps DEF Kept
<1> QED BY <1>1, InitKeeps, PTL DEF Spec

\* The type invariant: there is always a number for the next frame, what is still
\* to be written is the end of what is in flight, and an offset is one within
\* the frame that is being written.
THEOREM FrameTypeCorrect == Spec => []TypeOK
<1>1. StreamInv => TypeOK
  <2> SUFFICES ASSUME StreamInv PROVE TypeOK
    OBVIOUS
  <2>1. Types /\ Flight /\ MaxFlight \in Nat
    BY StreamAssumptions DEF StreamInv
  <2>2. queue \in Seq(Frames) /\ sendq \in Seq(Frames) /\ off \in Nat
    BY <2>1 DEF Types
  <2>3. Range(queue) \subseteq Frames
    BY <2>2 DEF Range
  <2>4. Len(queue) <= MaxFlight + 1
    BY <2>1, <2>2 DEF Flight
  <2>5. CASE sendq = <<>> /\ off = 0
    <3>1. IsSuffix(sendq, queue)
      <4>1. Len(queue) - Len(sendq) \in 0 .. Len(queue)
        BY <2>2, <2>5
      <4>2. \A j \in 1 .. Len(sendq) : sendq[j] = queue[Len(queue) - Len(sendq) + j]
        BY <2>5
      <4> QED BY <2>2, <4>1, <4>2, SuffixOf
    <3> QED BY <2>1, <2>3, <2>4, <2>5, <3>1 DEF Types, TypeOK
  <2>6. CASE open /\ ~fin
    <3>1. PICK at : Unwritten(at, queue, buf \o wire, sendq, off)
      BY <2>6 DEF StreamInv, Stream
    <3>2. IsSuffix(sendq, queue)
      <4>1. Len(queue) - Len(sendq) \in 0 .. Len(queue)
        BY <3>1 DEF Unwritten
      <4>2. \A j \in 1 .. Len(sendq) : sendq[j] = queue[Len(queue) - Len(sendq) + j]
        BY <3>1 DEF Unwritten
      <4> QED BY <2>2, <4>1, <4>2, SuffixOf
    <3>3. off # 0 => off < Len(Bytes(Head(sendq)))
      <4>1. off # 0 => sendq # <<>> /\ off < FrameLen(sendq[1])
        BY <3>1 DEF Unwritten
      <4>2. sendq # <<>> => Head(sendq) = sendq[1] /\ sendq[1] \in Frames
        BY <2>2
      <4>3. sendq # <<>> => Len(Bytes(sendq[1])) = FrameLen(sendq[1])
        BY <4>2, BytesOf
      <4> QED BY <4>1, <4>2, <4>3
    <3> QED BY <2>1, <2>3, <2>4, <3>2, <3>3 DEF Types, TypeOK
  <2>7. \/ sendq = <<>> /\ off = 0
        \/ open /\ ~fin
    BY DEF StreamInv, Stream
  <2> QED BY <2>5, <2>6, <2>7
<1> QED BY <1>1, StreamInvariant, PTL

\* A yasio receive buffer is never full when do_read asks the socket for more,
\* whatever its size, if it holds more than a length field: leftovers and cut
\* length fields leave room, and a packet that is larger is moved out of it.
THEOREM FrameRoomToRead == Spec => []RoomToRead
<1>1. StreamInv => RoomToRead
  BY DEF StreamInv
<1> QED BY <1>1, StreamInvariant, PTL

\* A reader closes at the end of the stream or at a frame whose length is out of
\* bounds: bytes of another frame are never taken for a length field.
THEOREM FrameClosesForCause == Spec => ClosesForCause
<1>1. StreamInv /\ [Next]_vars =>
         [open /\ ~open' =>
             \/ fin /\ wire = <<>>
             \/ queue # <<>> /\ Head(queue) \notin Good]_vars
  BY NextKeeps DEF Kept, Cause
<1> QED BY <1>1, StreamInvariant, PTL DEF Spec, ClosesForCause

\* FrameQueue is implemented: however the bytes are cut on the way, the frames
\* are handed over one by one, whole and in the order in which they were sent.
THEOREM FramesImplementQueue == Spec => ImplementsFrameQueue
<1>1. Init => Promise!Init
  BY DEF Init, Promise!Init
<1>2. StreamInv /\ [Next]_vars => [Promise!Next]_<<queue, got, open>>
  BY NextKeeps DEF Kept, QueueStep
<1> QED BY <1>1, <1>2, StreamInvariant, PTL DEF Spec, ImplementsFrameQueue, Promise!Spec, Promise!vars

=============================================================================
