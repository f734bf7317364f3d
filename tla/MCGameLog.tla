------------------------------ MODULE MCGameLog -----------------------------
(* The logging engine on the boards of MCGame.tla.                           *)
EXTENDS MCGame, GameLog

(* The hypothesis of the theorems about the log (GameLogProofs.tla).         *)
ASSUME BoardsAssumption == BirthsApart

BombSymmetry == Permutations(BombId)

=============================================================================
