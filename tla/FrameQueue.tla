---------------------------- MODULE FrameQueue -----------------------------
(***************************************************************************)
(* What one direction of a connection between the gateway and a backend    *)
(* promises: frames are handed over one by one, whole and in the order in  *)
(* which they were sent, until the receiver closes, which may lose any     *)
(* number of the last ones.  A frame that is not well formed is passed     *)
(* over or ends the connection; it is never handed over.                   *)
(***************************************************************************)
EXTENDS Sequences

CONSTANTS Frames, Good, None

VARIABLES
    queue,      \* frames sent and neither handed over nor lost
    got,        \* the last frame handed over (its id)
    open        \* the receiver has not closed

vars == <<queue, got, open>>

Init == queue = <<>> /\ got = None /\ open = TRUE

Send(f) ==
    /\ open
    /\ queue' = Append(queue, f)
    /\ UNCHANGED <<got, open>>

Deliver ==
    /\ open /\ queue # <<>>
    /\ Head(queue) \in Good
    /\ got' = Head(queue).id
    /\ queue' = Tail(queue)
    /\ UNCHANGED open

PassOver ==
    /\ open /\ queue # <<>>
    /\ Head(queue) \notin Good
    /\ queue' = Tail(queue)
    /\ UNCHANGED <<got, open>>

Close ==
    /\ open
    /\ open' = FALSE
    /\ queue' = <<>>
    /\ UNCHANGED got

Next == (\E f \in Frames : Send(f)) \/ Deliver \/ PassOver \/ Close

Spec == Init /\ [][Next]_vars

============================================================================
