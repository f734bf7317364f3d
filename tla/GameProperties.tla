--------------------------- MODULE GameProperties ---------------------------
(* What the game engine of Game.tla promises: its invariants, the steps it   *)
(* may never take, and what must eventually happen.                          *)
EXTENDS Game

(* -------------------------------- Typing --------------------------------- *)

(* Every variable has its type.  A match that waits for players has a birth  *)
(* left for the next one (the assertion of AddPlayer).  The loop variables   *)
(* of a call are set only while that call runs: FLUSHING is the status of a  *)
(* running FlushTime, and a meeting happens only while actions are accepted. *)
TypeOK ==
    /\ game_status \in GameStatus
    /\ game_now_round \in Nat
    /\ player_birth \in [0 .. 3 -> Cell]
    /\ Joined \subseteq PlayerId
    /\ player_map \in [Joined -> PlayerRecord(Cell)]
    /\ Bombs \subseteq BombId
    /\ bomb_map \in [Bombs -> BombRecord]
    /\ action_player_map \in [Joined -> Nat]
    /\ players \in [Cell -> SUBSET Joined]
    /\ bomb_id \in [Cell -> BombId \cup {NoBomb}]
    /\ block \in [Cell -> Block]
    /\ potion_type \in [Cell -> PotionType]
    /\ bombed \subseteq Cell
    /\ win_players_id \subseteq Joined
    /\ phase \in Phase
    /\ mover \in PlayerId \cup {NoPlayer}
    /\ to_meet \subseteq Joined
    /\ to_move \subseteq Bombs
    /\ bomb_que \in Seq(BombId)
    /\ game_status = "UNINIT" => Joined = {}
    /\ game_status = "WAIT_PLAYER" => Cardinality(Joined) < kPlayerDefaultNum
    /\ phase = "meet" <=> mover # NoPlayer
    /\ phase = "meet" => game_status = "WAIT_ACTION" /\ mover \in Joined \ to_meet
    /\ phase \in {"bomb_move", "explode"} <=> game_status = "FLUSHING"
    /\ phase # "meet" => to_meet = {}
    /\ phase # "bomb_move" => to_move = {}
    /\ phase # "explode" => bomb_que = << >>

(* ----------------------------- Bombs and map ----------------------------- *)

(* The two registers of bombs agree: the map entry of a bomb and the bomb_id *)
(* of a cell point at each other, so no bomb is lost, doubled or left behind *)
(* by placing, gliding and exploding (Game::CleanBomb, FlushBombMove).       *)
BombRegistry ==
    /\ \A b \in Bombs : bomb_id[bomb_map[b].pos] = b
    /\ \A c \in Cell : bomb_id[c] # NoBomb =>
         bomb_id[c] \in Bombs /\ bomb_map[bomb_id[c]].pos = c

BombsOf(p) == {b \in Bombs : bomb_map[b].player_id = p}

(* Every bomb belongs to a player of this match, dead or alive (Explode      *)
(* dereferences him), and the counter that limits how many bombs a player    *)
(* may have counts exactly his bombs on the map and stays within the limit.  *)
BombAccounting ==
    /\ \A b \in Bombs : bomb_map[b].player_id \in Joined
    /\ \A p \in Joined : /\ player_map[p].bomb_now_num = Cardinality(BombsOf(p))
                         /\ player_map[p].bomb_now_num <= player_map[p].bomb_max_num

(* Nothing shares a cell with a block and a bomb never lies on a potion:     *)
(* this is why the blast may stop at a bomb before it looks at potions.      *)
(* Where a potion lies nobody stands, except one who has just walked in:     *)
(* this is why a player who dies in a meeting, and whose move nevertheless   *)
(* goes on to the pickup, never finds a potion there.                        *)
CellExclusive ==
    \A c \in Cell :
        /\ HasBlock(c) =>
             bomb_id[c] = NoBomb /\ players[c] = {} /\ potion_type[c] = NoPotion
        /\ potion_type[c] # NoPotion => bomb_id[c] = NoBomb /\ players[c] \subseteq {mover}

(* ---------------------------- Chain reactions ---------------------------- *)

(* While bombs explode, a bomb in a cell struck this round is waiting in the *)
(* queue, and no mud is left in a struck cell (bomb_call_back): when the     *)
(* queue is empty no bomb has survived being hit.                            *)
ChainPending ==
    phase = "explode" =>
        \A c \in bombed :
            /\ bomb_id[c] # NoBomb => bomb_id[c] \in ToSet(bomb_que)
            /\ block[c].block_type # "MUD"

(* -------------------------------- Players -------------------------------- *)

(* A living player is registered in exactly the cell he stands on; a dead    *)
(* one only until the call in which he died returns (CleanPlayer), so that   *)
(* no later blast or meeting sees him.                                       *)
PlayerPlacement ==
    /\ \A c \in Cell : \A p \in players[c] : player_map[p].pos = c
    /\ \A p \in Alive : p \in players[player_map[p].pos]
    /\ phase = "idle" => \A c \in Cell : players[c] \subseteq Alive

(* A player dies once: exactly the dead have no hit point left, nobody is    *)
(* driven below zero by hits after his death, and nobody pays kMarkDead      *)
(* twice - marks are only ever lost by dying.                                *)
DiesOnce ==
    \A p \in Joined :
        /\ IsDead(player_map[p]) <=> player_map[p].HP = 0
        /\ player_map[p].HP >= 0
        /\ player_map[p].mark >= IF IsDead(player_map[p]) THEN -kMarkDead ELSE 0

(* ---------------------------- Action properties -------------------------- *)

Marks == SumFunction([p \in Joined |-> player_map[p].mark])
MudCells == {c \in Cell : block[c].block_type = "MUD"}
Dead == Joined \ Alive

(* The step is the pickup at the end of a move.                              *)
PicksUp ==
    /\ phase = "meet" /\ phase' = "idle"
    /\ potion_type[player_map[mover].pos] # NoPotion

(* The owner of the exploding bomb is one of its victims.                    *)
SelfKill ==
    /\ phase = "explode" /\ bomb_que # << >> /\ Head(bomb_que) \in Bombs
    /\ bomb_map[Head(bomb_que)].player_id \in Dead' \ Dead

(* The marks of a match balance: in every step the sum of all marks changes  *)
(* by exactly what the deaths cost, what others earned by those deaths (a    *)
(* player who kills himself earns nothing), the mud that vanished and the    *)
(* potion that was picked up, whoever is credited and in whatever order.     *)
MarksBalance ==
    [][Joined # {} /\ Joined' = Joined =>
         Marks' - Marks =
            LET deaths == Cardinality(Dead' \ Dead) IN
            (kMarkKill * (IF SelfKill THEN deaths - 1 ELSE deaths))
              - (kMarkDead * deaths)
              + (kMarkBombMud * Cardinality(MudCells \ MudCells'))
              + (IF PicksUp THEN kMarkPick ELSE 0)]_vars

(* Within a match the board only erodes: a wall stays, no block appears, and *)
(* an open potion appears only where a block of mud has just vanished.       *)
BoardErodes ==
    [][game_status' # "UNINIT" /\ game_status # "UNINIT" =>
         \A c \in Cell :
            /\ block'[c] # block[c] =>
                 block[c].block_type = "MUD" /\ block'[c] = NoBlock
            /\ potion_type'[c] \notin {potion_type[c], NoPotion} =>
                 block'[c] # block[c]]_vars

(* Once the call in which a player died has returned, the dead player is     *)
(* frozen: he neither moves, nor heals, nor gains an ability; only the bombs *)
(* he left still change his marks and his bomb counter.                      *)
DeadFrozen ==
    [][\A p \in Dead :
         phase = "idle" \/ game_status = "FLUSHING" =>
           p \notin Joined' \/
           player_map'[p] = [player_map[p] EXCEPT
                               !.mark = player_map'[p].mark,
                               !.bomb_now_num = player_map'[p].bomb_now_num]]_vars

(* A player who died on the way in picks nothing up (DealMoveAction runs its *)
(* pickup without asking whether the mover is still alive).                  *)
DeadPickNothing == [][PicksUp => ~IsDead(player_map[mover])]_vars

(* A bomb that is set in motion moves away from a living player with gloves  *)
(* who stands on the opposite side and still has him as its neighbour: the   *)
(* two enumerations that DealMoveAction casts between agree.                 *)
PushedAway ==
    [][\A b \in Bombs \cap DOMAIN bomb_map' :
         /\ bomb_map[b].status = "BOMB_SILENT"
         /\ bomb_map'[b].status # "BOMB_SILENT"
         => \E p \in Alive :
              /\ player_map[p].has_gloves
              /\ Shift(player_map[p].pos, BombDelta(bomb_map'[b].status), 1)
                   = bomb_map[b].pos]_vars

(* ------------------------ What the documents promise --------------------- *)

(* server/README.md calls game_max_round the greatest number of rounds       *)
(* (IsGameOver compares with >).                                             *)
AtMostMaxRound == game_now_round <= kGameDefaultMaxRound

(* -------------------------------- Liveness ------------------------------- *)

(* A bomb whose fuse ends within the time of the match explodes, pushed or   *)
(* not, unless the players' deaths end the match before: a fuse of t needs   *)
(* t + 1 flushes (Bomb::FlushTime), and the flush of round                   *)
(* kGameDefaultMaxRound + 1 still happens.                                   *)
InTime(b) ==
    b \in Bombs /\ bomb_map[b].time + game_now_round <= kGameDefaultMaxRound

BombsExplode ==
    \A b \in BombId :
        phase = "idle" /\ InTime(b) ~>
            \/ b \notin Bombs
            \/ game_status = "GAME_OVER" /\ Cardinality(Alive) <= 1

(* A match that has started ends, by survivors or by rounds, unless it is    *)
(* reset.                                                                    *)
MatchEnds == game_status = "WAIT_ACTION" ~> game_status \in {"GAME_OVER", "UNINIT"}

=============================================================================
