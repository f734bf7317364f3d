----------------------------- MODULE MCTerminal -----------------------------
(* The marks for model checking the terminal program.                        *)
EXTENDS Terminal

(* Enough marks for a leader, a tie and a loser.                             *)
TwoMarks == {0, 1}

=============================================================================
