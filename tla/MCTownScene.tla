---------------------------- MODULE MCTownScene ----------------------------
(***************************************************************************)
(* An instance of TownScene for TLC: two players, whose seats two sessions *)
(* compete for; one of them moves between two scenes.                      *)
(***************************************************************************)
EXTENDS TownScene

CONSTANTS s1, s2, t1, t2, p1, p2, k1, k2

\* p1 moves, p2 stays in a scene.
OneMoves == [p \in Players |-> IF p = p1 THEN {k1, k2} ELSE {k1}]
BothMove == [p \in Players |-> {k1, k2}]

\* t1 is a task of s1; t2 the one that replaces it, or one of s2.
TaskOwner == [t \in Tasks |-> s1]
TaskOfEach == [t \in Tasks |-> IF t = t1 THEN s1 ELSE s2]

============================================================================
