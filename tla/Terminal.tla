------------------------------- MODULE Terminal -----------------------------
(* The game without a network (term_main.cpp): several players share one     *)
(* keyboard.  The program lets as many keys be pressed as there are players, *)
(* whoever they belong to, ends the round, and starts over when the match is *)
(* over.  The engine is the abstract match of Match.tla, as in Server.tla.   *)
(*                                                                           *)
(* The keys belong to three players.  In a match of two the third has no     *)
(* entry in player_ids: the code reads beyond the vector, and either the     *)
(* engine does not know what it finds there and the program crashes, or it   *)
(* is the identifier of a player, who acts.                                  *)
EXTENDS Integers, Sequences, FiniteSets, Functions

CONSTANTS
    PlayerId,
    kPlayerDefaultNum,
    kGameDefaultMaxRound,
    Mark                    \* the marks players may have, a bound

ASSUME TerminalAssumption ==
    /\ kPlayerDefaultNum \in 2 .. 4
    /\ kGameDefaultMaxRound \in Nat
    /\ 0 \in Mark /\ Mark \subseteq Int

VARIABLES
    status, joined, alive, marks, round, winners,  \* the engine
    player_ids,    \* the players by the order of the keyboard
    i,             \* keys read in this round
    at,            \* where the program is
    after_flush    \* where it goes on when FlushTime returns

engine == <<status, joined, alive, marks, round, winners>>
vars == <<engine, player_ids, i, at, after_flush>>

Engine == INSTANCE Match

Init ==
    /\ Engine!Init
    /\ player_ids = << >>
    /\ i = 0
    /\ at = "init"
    /\ after_flush = "init"

Goto(place) ==
    /\ at' = place
    /\ UNCHANGED after_flush

(* The identifiers of the last match stay in front.                          *)
IdsAtStart_Mutant == player_ids

(* The vector is made anew for every match.                                  *)
IdsAtStart == << >>

Open ==
    /\ at = "init"
    /\ Engine!Open
    /\ player_ids' = IdsAtStart
    /\ i' = 0
    /\ Goto("join")

(* Game::Init finds no valid map.                                            *)
OpenFails ==
    /\ at = "init"
    /\ Goto("exit")
    /\ UNCHANGED <<engine, player_ids, i>>

Join(p) ==
    /\ at = "join"
    /\ Engine!Join(p)
    /\ player_ids' = Append(player_ids, p)
    /\ i' = 0
    /\ Goto(IF Cardinality(joined') = kPlayerDefaultNum THEN "keys" ELSE "join")

-----------------------------------------------------------------------------
(* The keyboard.                                                             *)

AtKeys == at = "keys" /\ i < kPlayerDefaultNum

(* Whatever an action does; the engine refuses it when the match is over.    *)
Act ==
    \/ /\ alive' \in SUBSET alive
       /\ marks' \in [joined -> Mark]
       /\ Engine!Play
    \/ UNCHANGED engine

(* A key of one of the three players.                                        *)
PlayerKey(k) ==
    /\ AtKeys
    /\ k <= Len(player_ids)
    /\ Act
    /\ i' = i + 1
    /\ Goto("keys")
    /\ UNCHANGED player_ids

(* A key of a player who is not there.                                       *)
StrangerKey(k) ==
    /\ AtKeys
    /\ k > Len(player_ids)
    /\ \/ Goto("crash") /\ UNCHANGED engine
       \/ Goto("keys") /\ Act
    /\ i' = i + 1
    /\ UNCHANGED player_ids

(* What is no key is counted too.                                            *)
OtherKey ==
    /\ AtKeys
    /\ i' = i + 1
    /\ Goto("keys")
    /\ UNCHANGED <<engine, player_ids>>

QuitKey ==
    /\ AtKeys
    /\ Goto("exit")
    /\ UNCHANGED <<engine, player_ids, i>>

(* FlushTime, which judges no round when the match is over.                  *)
Flush(place) ==
    IF status = "WAIT_ACTION"
    THEN /\ Engine!Tick
         /\ at' = "flush"
         /\ after_flush' = place
    ELSE Goto(place) /\ UNCHANGED engine

FlushKey ==
    /\ AtKeys
    /\ i' = i + 1
    /\ Flush("keys")
    /\ UNCHANGED player_ids

(* The keys are read, and no round ends.                                     *)
RoundEnds_Mutant == Goto("loop") /\ UNCHANGED engine

RoundEnds == Flush("loop")

AllKeysRead ==
    /\ at = "keys"
    /\ i = kPlayerDefaultNum
    /\ i' = 0
    /\ RoundEnds
    /\ UNCHANGED player_ids

-----------------------------------------------------------------------------
(* The rounds and the match.                                                 *)

Burn ==
    /\ at = "flush"
    /\ alive' \in SUBSET alive
    /\ marks' \in [joined -> Mark]
    /\ Engine!Play
    /\ UNCHANGED <<player_ids, i, at, after_flush>>

(* FlushTime returns.                                                        *)
Judge ==
    /\ at = "flush"
    /\ Engine!NextRound \/ Engine!Survive \/ Engine!Decide
    /\ Goto(after_flush)
    /\ UNCHANGED <<player_ids, i>>

(* The loop asks for the status only here.                                   *)
NextPass ==
    /\ at = "loop"
    /\ status # "GAME_OVER"
    /\ Goto("keys")
    /\ UNCHANGED <<engine, player_ids, i>>

MatchOver ==
    /\ at = "loop"
    /\ status = "GAME_OVER"
    /\ Engine!Close
    /\ Goto("init")
    /\ UNCHANGED <<player_ids, i>>

Key ==
    \/ \E k \in 1 .. 3 : PlayerKey(k) \/ StrangerKey(k)
    \/ OtherKey \/ QuitKey \/ FlushKey

(* What the program does by itself.                                          *)
Run ==
    \/ Open
    \/ \E p \in PlayerId : Join(p)
    \/ AllKeysRead
    \/ Judge
    \/ NextPass
    \/ MatchOver

Next == Run \/ OpenFails \/ Key \/ Burn

Spec == Init /\ [][Next]_vars

(* The program goes on, FlushTime returns (Judged of Match.tla), and keys    *)
(* are pressed.                                                              *)
FairSpec == Spec /\ WF_vars(Run) /\ WF_vars(Key)

-----------------------------------------------------------------------------
(* Properties.                                                               *)

(* Every variable has its type, and the program is where the engine expects  *)
(* it: it asks players to join only while the engine waits for them and      *)
(* reads keys only in a match, which may be over before the keys are read.   *)
TerminalTypeOK ==
    /\ status \in {"UNINIT", "WAIT_PLAYER", "WAIT_ACTION", "FLUSHING", "GAME_OVER"}
    /\ alive \subseteq joined /\ joined \subseteq PlayerId /\ winners \subseteq joined
    /\ marks \in [joined -> Int]
    /\ round \in 0 .. kGameDefaultMaxRound + 1
    /\ player_ids \in Seq(PlayerId) /\ Len(player_ids) <= kPlayerDefaultNum
    /\ i \in 0 .. kPlayerDefaultNum
    /\ at \in {"init", "join", "keys", "flush", "loop", "exit", "crash"}
    /\ after_flush \in {"init", "keys", "loop"}
    /\ at = "init" => status = "UNINIT"
    /\ at = "join" => status = "WAIT_PLAYER"
    /\ at = "flush" <=> status = "FLUSHING"
    /\ at \in {"keys", "loop"} => status \in {"WAIT_ACTION", "GAME_OVER"}
    /\ at = "flush" => after_flush # "init"

(* While the match is played the keyboard speaks for its players and only    *)
(* for them, each under one entry: nothing of an earlier match is left in    *)
(* player_ids, and the identifiers AddPlayer was not asked about are right.  *)
KeyboardOfMatch ==
    at \in {"keys", "flush", "loop"} =>
        /\ Range(player_ids) = joined
        /\ Len(player_ids) = kPlayerDefaultNum
        /\ \A j, k \in 1 .. Len(player_ids) : player_ids[j] = player_ids[k] => j = k

(* A match that has started ends and makes room for the next one, whatever   *)
(* keys are pressed, the round key in the middle of a round included, unless *)
(* somebody quits or a key that belongs to nobody ends the program.          *)
MatchesFollow ==
    status = "WAIT_ACTION" ~> status = "UNINIT" \/ at \in {"exit", "crash"}

=============================================================================
