----------------------------- MODULE MCGateway -----------------------------
(***************************************************************************)
(* Instances of Gateway for TLC: service 0 is game (no binding required),  *)
(* service 1 is battle (binding required).                                 *)
(***************************************************************************)
EXTENDS Gateway, TLC

CONSTANTS s1, g, b, b2

Game == <<0, 1>>
Battle == <<1, 1>>

\* Every connection registers an endpoint of its own.
OwnEndpoint == [d \in Conns |-> IF d = g THEN {Game} ELSE {Battle}]

\* The backends of battle may also register as game: two connections compete
\* for one endpoint, or the second takes it over from the first.
Contested == [d \in Conns |-> IF d = g THEN {Game} ELSE {Battle, Game}]

\* A free backend and one that reports more than the maximal score.
TwoLoads == {[score |-> 0, accepting |-> TRUE], [score |-> 120, accepting |-> TRUE]}
OneLoad == {[score |-> 0, accepting |-> TRUE]}
============================================================================
