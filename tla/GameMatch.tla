------------------------------ MODULE GameMatch -----------------------------
(* The engine implements the match of Match.tla.                             *)
EXTENDS Game

Lifecycle == INSTANCE Match WITH
    status  <- game_status,
    joined  <- Joined,
    alive   <- Alive,
    marks   <- [p \in Joined |-> player_map[p].mark],
    round   <- game_now_round,
    winners <- win_players_id

(* Every step of the engine is a step of the abstract match or changes       *)
(* nothing of it, and every round it starts is judged (Game::FlushTime,      *)
(* Game::IsGameOver).                                                        *)
ImplementsMatch == Lifecycle!Spec

=============================================================================
