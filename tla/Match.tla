-------------------------------- MODULE Match -------------------------------
(* What a match is to those who take part in it: players join until the      *)
(* match is full, rounds are played and judged, and the match ends with      *)
(* winners.  The map, the bombs and the potions are absent; the engine       *)
(* (Game.tla) implements this module, and whatever drives the engine relies  *)
(* on nothing else.                                                          *)
EXTENDS Integers, FiniteSets

CONSTANTS
    PlayerId,
    kPlayerDefaultNum,      \* players of a match
    kGameDefaultMaxRound    \* the last round that may be followed by another

VARIABLES
    status,   \* GameStatus of the engine
    joined,   \* the players of the match
    alive,    \* those who are alive
    marks,    \* the marks of each
    round,    \* rounds judged or being judged
    winners   \* the result, when the match is over

vars == <<status, joined, alive, marks, round, winners>>

Init ==
    /\ status = "UNINIT"
    /\ joined = {}
    /\ alive = {}
    /\ marks = << >>
    /\ round = 0
    /\ winners = {}

(* Game::Init.                                                               *)
Open ==
    /\ status = "UNINIT"
    /\ status' = "WAIT_PLAYER"
    /\ UNCHANGED <<joined, alive, marks, round, winners>>

(* Game::AddPlayer; the last player to join starts the match.                *)
Join(p) ==
    /\ status = "WAIT_PLAYER"
    /\ p \notin joined
    /\ joined' = joined \cup {p}
    /\ alive' = alive \cup {p}
    /\ marks' = [q \in joined' |-> IF q = p THEN 0 ELSE marks[q]]
    /\ status' = IF Cardinality(joined') = kPlayerDefaultNum
                 THEN "WAIT_ACTION" ELSE status
    /\ UNCHANGED <<round, winners>>

(* Marks change and players die, in their own actions and while a round is   *)
(* being judged; nobody comes back to life.                                  *)
Play ==
    /\ status \in {"WAIT_ACTION", "FLUSHING"}
    /\ alive' \subseteq alive
    /\ marks' \in [joined -> Int]
    /\ UNCHANGED <<status, joined, round, winners>>

(* Game::FlushTime starts a round.  A round beyond the last one is judged    *)
(* final, so none ever starts after it.                                      *)
Tick ==
    /\ status = "WAIT_ACTION"
    /\ round <= kGameDefaultMaxRound
    /\ status' = "FLUSHING"
    /\ round' = round + 1
    /\ UNCHANGED <<joined, alive, marks, winners>>

Leaders == {p \in joined : \A q \in joined : marks[q] <= marks[p]}

(* At least two players are alive and the round is not beyond the last.      *)
NextRound ==
    /\ status = "FLUSHING"
    /\ Cardinality(alive) >= 2
    /\ round <= kGameDefaultMaxRound
    /\ status' = "WAIT_ACTION"
    /\ UNCHANGED <<joined, alive, marks, round, winners>>

(* The only survivor wins, whatever his marks.                               *)
Survive ==
    /\ status = "FLUSHING"
    /\ Cardinality(alive) = 1
    /\ status' = "GAME_OVER"
    /\ winners' = alive
    /\ UNCHANGED <<joined, alive, marks, round>>

(* Nobody is left, or several are when the time is up: the marks decide, and *)
(* the dead are judged with the living.                                      *)
Decide ==
    /\ status = "FLUSHING"
    /\ \/ alive = {}
       \/ Cardinality(alive) >= 2 /\ round > kGameDefaultMaxRound
    /\ status' = "GAME_OVER"
    /\ winners' = Leaders
    /\ UNCHANGED <<joined, alive, marks, round>>

(* Game::Reset.                                                              *)
Close ==
    /\ status # "FLUSHING"
    /\ status' = "UNINIT"
    /\ joined' = {}
    /\ alive' = {}
    /\ marks' = << >>
    /\ round' = 0
    /\ winners' = {}

Next ==
    \/ Open
    \/ \E p \in PlayerId : Join(p)
    \/ Play
    \/ Tick
    \/ NextRound
    \/ Survive
    \/ Decide
    \/ Close

(* A round that has started is judged: FlushTime returns although blasts go  *)
(* on queueing bombs and a bomb may be queued more than once.                *)
Judged == status = "FLUSHING" ~> status # "FLUSHING"

Safety == Init /\ [][Next]_vars

Spec == Safety /\ Judged

=============================================================================
