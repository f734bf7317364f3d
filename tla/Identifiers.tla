----------------------------- MODULE Identifiers ----------------------------
(* The identifiers of players and bombs.  They come from counters that are   *)
(* static, so no Reset rewinds them, and that start again at kIncrMaxID; the *)
(* tables of the engine are keyed by them, and one of these tables, the      *)
(* counts of actions, is never cleared.  Game.tla takes fresh identifiers    *)
(* for granted; here is what that rests on, over match after match.          *)
(*                                                                           *)
(* The map is left out: whom an action or a round kills, and which bombs a   *)
(* blast sets off, are left open, and so is whether a bomb may be placed.    *)
EXTENDS Integers, FiniteSets

CONSTANTS
    kIncrMaxID,             \* a multiple of four
    kPlayerDefaultNum,
    kPlayerDefaultSpeed,    \* the most actions a player may have in a round
    kBombDefaultNum,        \* the most bombs a player may have on the map
    kBombDefaultTime,
    kGameDefaultMaxRound

ASSUME IdentifiersAssumption ==
    /\ kIncrMaxID \in Nat \ {0}
    /\ kIncrMaxID % 4 = 0
    /\ kPlayerDefaultNum \in 2 .. 4
    /\ kPlayerDefaultSpeed \in Nat \ {0}
    /\ kBombDefaultNum \in Nat \ {0}
    /\ kBombDefaultTime \in Nat \ {0}
    /\ kGameDefaultMaxRound \in Nat

VARIABLES
    game_status,
    game_now_round,
    player_map,           \* the players of the match
    dead,                 \* those who are dead
    action_player_map,    \* actions by identifier, of this and earlier matches
    bomb_map,             \* the owner and the fuse of every bomb
    play_id,              \* the next identifiers
    bomb_id,
    wrapped,              \* history: play_id has started again
    acted                 \* history: actions of each player in this round

counters == <<play_id, bomb_id, wrapped>>
vars == <<game_status, game_now_round, player_map, dead, action_player_map,
          bomb_map, counters, acted>>

Init ==
    /\ game_status = "WAIT_PLAYER"
    /\ game_now_round = 0
    /\ player_map = {}
    /\ dead = {}
    /\ action_player_map = << >>
    /\ bomb_map = << >>
    /\ play_id = 0
    /\ bomb_id = 0
    /\ wrapped = FALSE
    /\ acted = << >>

(* The counter starts again one identifier late.                             *)
NextId_Mutant(id) == IF id > kIncrMaxID - 1 THEN 0 ELSE id + 1

NextId(id) == (id + 1) % kIncrMaxID

Spent(p) == IF p \in DOMAIN action_player_map THEN action_player_map[p] ELSE 0

Bombs == DOMAIN bomb_map
BombsOf(p) == {b \in Bombs : bomb_map[b].player_id = p}
Alive == player_map \ dead

(* CreatePlayer; the count of the identifier is what it was.                 *)
AddPlayer ==
    /\ game_status = "WAIT_PLAYER"
    /\ player_map' = player_map \cup {play_id}
    /\ play_id' = NextId(play_id)
    /\ wrapped' = (wrapped \/ NextId(play_id) = 0)
    /\ acted' = [p \in player_map' |-> IF p = play_id THEN 0 ELSE acted[p]]
    /\ game_status' = IF Cardinality(player_map') = kPlayerDefaultNum
                      THEN "WAIT_ACTION" ELSE game_status
    /\ UNCHANGED <<game_now_round, dead, action_player_map, bomb_map, bomb_id>>

(* A player starts with the configured speed and potions raise it; the       *)
(* constant stands for the greatest speed anybody reaches, and who stops     *)
(* short of it is slower.                                                    *)
CanAct(p) ==
    /\ game_status = "WAIT_ACTION"
    /\ p \in Alive
    /\ Spent(p) < kPlayerDefaultSpeed

SpendAction(p) ==
    /\ action_player_map' = [q \in DOMAIN action_player_map \cup {p} |->
                               IF q = p THEN Spent(p) + 1 ELSE action_player_map[q]]
    /\ acted' = [acted EXCEPT ![p] = @ + 1]

(* An action that places no bomb; he who moves may meet death or bring it.   *)
Act(p) ==
    /\ CanAct(p)
    /\ SpendAction(p)
    /\ \E killed \in SUBSET Alive : dead' = dead \cup killed
    /\ UNCHANGED <<game_status, game_now_round, player_map, bomb_map, counters>>

(* The identifier of a bomb is the number of bombs.                          *)
NewBombId_Mutant == Cardinality(Bombs)

NewBombId == bomb_id

(* CreateBomb writes the new bomb over one of the same identifier.           *)
PlaceBomb(p) ==
    /\ CanAct(p)
    /\ SpendAction(p)
    /\ Cardinality(BombsOf(p)) < kBombDefaultNum
    /\ bomb_map' = [b \in Bombs \cup {NewBombId} |->
                      IF b = NewBombId
                      THEN [player_id |-> p, time |-> kBombDefaultTime]
                      ELSE bomb_map[b]]
    /\ bomb_id' = NextId(bomb_id)
    /\ UNCHANGED <<game_status, game_now_round, player_map, dead, play_id, wrapped>>

Due == {b \in Bombs : bomb_map[b].time = 0}

(* Nobody's count is cleared.                                                *)
CountAfterFlush_Mutant(p) == Spent(p)

(* FlushPlayer clears the counts of the living.                              *)
CountAfterFlush(p) == IF p \in Alive' THEN 0 ELSE Spent(p)

(* The bombs that are due explode and set off any others, and kill anybody.  *)
FlushTime ==
    /\ game_status = "WAIT_ACTION"
    /\ game_now_round' = game_now_round + 1
    /\ UNCHANGED <<player_map, counters>>
    /\ \E hit \in (IF Due = {} THEN {{}} ELSE SUBSET (Bombs \ Due)) :
         bomb_map' = [b \in Bombs \ (Due \cup hit) |->
                        [bomb_map[b] EXCEPT !.time = @ - 1]]
    /\ \E killed \in (IF Due = {} THEN {{}} ELSE SUBSET Alive) :
         dead' = dead \cup killed
    /\ action_player_map' = [p \in DOMAIN action_player_map \cup Alive' |->
                               CountAfterFlush(p)]
    /\ acted' = [p \in player_map |-> IF p \in Alive' THEN 0 ELSE acted[p]]
    /\ game_status' = IF \/ Cardinality(Alive') <= 1
                         \/ game_now_round' > kGameDefaultMaxRound
                      THEN "GAME_OVER" ELSE game_status

(* Reset and the next Init.                                                  *)
Reset ==
    /\ game_status' = "WAIT_PLAYER"
    /\ game_now_round' = 0
    /\ player_map' = {}
    /\ dead' = {}
    /\ bomb_map' = << >>
    /\ acted' = << >>
    /\ UNCHANGED <<action_player_map, counters>>

Next ==
    \/ AddPlayer
    \/ \E p \in player_map : Act(p) \/ PlaceBomb(p)
    \/ FlushTime
    \/ Reset

Spec == Init /\ [][Next]_vars

-----------------------------------------------------------------------------
(* Properties.                                                               *)

(* Every variable has its type: identifiers are below kIncrMaxID, nobody is  *)
(* charged for more than he may do in a round, and every bomb has an owner   *)
(* in this match and at most the fuse it was laid with.                      *)
IdentifiersTypeOK ==
    /\ game_status \in {"WAIT_PLAYER", "WAIT_ACTION", "GAME_OVER"}
    /\ game_now_round \in Nat
    /\ play_id \in 0 .. kIncrMaxID - 1 /\ bomb_id \in 0 .. kIncrMaxID - 1
    /\ player_map \subseteq 0 .. kIncrMaxID - 1 /\ dead \subseteq player_map
    /\ DOMAIN action_player_map \subseteq 0 .. kIncrMaxID - 1
    /\ action_player_map \in [DOMAIN action_player_map -> 0 .. kPlayerDefaultSpeed]
    /\ Bombs \subseteq 0 .. kIncrMaxID - 1
    /\ bomb_map \in [Bombs -> [player_id : player_map, time : 0 .. kBombDefaultTime]]
    /\ wrapped \in BOOLEAN
    /\ acted \in [player_map -> 0 .. kPlayerDefaultSpeed]
    /\ game_status = "WAIT_PLAYER" => game_now_round = 0

(* The identifiers the counters yield next belong to nobody who is still     *)
(* there: no player takes another's record and no bomb replaces another,     *)
(* which would leave its cell closed for ever and its owner one bomb short.  *)
FreshIds ==
    /\ game_status = "WAIT_PLAYER" => play_id \notin player_map
    /\ NewBombId \notin Bombs

(* The players of a match are told apart by their identifier modulo four, by *)
(* the colours of the terminal (print.h) and by the replay (snapshot.h), and *)
(* stay so across the point where the counter starts again.                  *)
LabelsDistinct ==
    \A p, q \in player_map : p % 4 = q % 4 => p = q

(* A player is charged for his own actions of this round only: what an       *)
(* earlier match left under his identifier can count against him only after  *)
(* the counter has started again, and then only until the first round ends.  *)
ChargedForOwn ==
    \A p \in Alive :
        \/ Spent(p) = acted[p]
        \/ wrapped /\ game_now_round = 0 /\ Spent(p) > acted[p]

=============================================================================
