--------------------------- MODULE MCGameSessions ---------------------------
(***************************************************************************)
(* Instances of GameSessions for TLC.                                      *)
(***************************************************************************)
EXTENDS GameSessions, TLC

CONSTANTS s1, s2, s3, t1, t2, t3, a1, a2, i1, i2, i3

\* One task for each of two and of three sessions.
Pair == t1 :> s1 @@ t2 :> s2
Three == t1 :> s1 @@ t2 :> s2 @@ t3 :> s3

\* Two tasks of one session: the second replaces the first.
Respawned == t1 :> s1 @@ t2 :> s1

\* One town server and one battle server of the same id, or two battle servers.
OneEach == [k \in Kinds |-> {i1}]
TwoBattles == [k \in Kinds |-> IF k = "battle" THEN {i1, i2} ELSE {i3}]

\* The battle servers are interchangeable.
Battles == Permutations({i1, i2})

\* All clients know one account.
SameAccount == [t \in Tasks |-> {a1}]

\* The client of the one task knows the account of the other as well.
Stolen == t1 :> {a1} @@ t2 :> {a1, a2}
GoesOn == t1 :> {a1, a2} @@ t2 :> {a1}

\* The frames of a client.
Frames(logins, selects, enters, joins, invites, responds) ==
    "login" :> logins @@ "select" :> selects @@ "enter" :> enters @@
    "join" :> joins @@ "invite" :> invites @@ "respond" :> responds

\* One challenges the other, who may log in to the first one's account.
Duellists == t1 :> Frames(1, 1, 1, 1, 1, 0) @@ t2 :> Frames(1, 1, 1, 0, 0, 1)

\* One logs in twice and challenges itself; the other comes and goes.
AloneDuel == t1 :> Frames(2, 1, 1, 0, 1, 1) @@ t2 :> Frames(0, 0, 0, 0, 0, 0)

\* All log in, or they enter the town and join a battle as well.
AllLogin == [t \in Tasks |-> Frames(1, 0, 0, 0, 0, 0)]
AllJoin == [t \in Tasks |-> Frames(1, 1, 1, 1, 0, 0)]

=============================================================================
