--------------------------- MODULE MCBattleRooms ---------------------------
(***************************************************************************)
(* Instances of BattleRooms for TLC.  Three sessions for two places and    *)
(* four battles for three rooms reach both limits, a duel whose second     *)
(* player finds no place, and a session asked into a second battle.        *)
(***************************************************************************)
EXTENDS BattleRooms, TLC

CONSTANTS s1, s2, s3, b0, b1, b2, b3, b4

\* Sessions, and battles other than id 0, are told apart only by equality.
SessionsAndBattles ==
    Permutations({s1, s2, s3}) \cup Permutations({b1, b2, b3, b4})

============================================================================
