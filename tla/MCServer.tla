------------------------------ MODULE MCServer ------------------------------
(* The marks for model checking the server.                                  *)
EXTENDS Server

(* Enough marks for a leader, a tie and a loser.                             *)
TwoMarks == {0, 1}

=============================================================================
