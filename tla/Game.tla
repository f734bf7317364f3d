-------------------------------- MODULE Game --------------------------------
(* The game engine: class Game (game.cpp) with the classes it drives, Area,  *)
(* Bomb, BlockBase and Player.  A caller (the server, the terminal client, a *)
(* test) invokes Init, AddPlayer, AddAction, FlushTime and Reset from one    *)
(* thread, so two calls never overlap.  What is open inside a call is the    *)
(* order in which the loops over the unordered containers of the engine      *)
(* visit their elements, and this order decides who is credited with a kill, *)
(* which of two pushed bombs gets a cell and which bomb explodes first.      *)
(* Therefore a call that contains such a loop is a sequence of steps, one    *)
(* for every turn of the loop, driven by the variable phase: while phase is  *)
(* not "idle" the call has not returned and no other call can start.         *)
(*                                                                           *)
(* A call that is refused without changing anything (INVALUE_OPER,           *)
(* PLAYER_TOO_MUCH, PLAYER_DEAD, ACTION_TOO_MUCH, a second Init) is a        *)
(* stuttering step and has no action.                                        *)
EXTENDS Player, FiniteSets, Sequences, SequencesExt

CONSTANTS
    PlayerId,            \* the identifiers the player counter may yield
    BombId,              \* the identifiers the bomb counter may yield
    NoBomb,              \* the bomb_id of a cell without a bomb, -1
    NoPlayer,            \* no player is moving
    kMapDefaultSize,     \* the map is a square of this side
    kPlayerDefaultNum,   \* players of a match
    kBombDefaultTime,    \* rounds before a bomb explodes, at least
    kBombDefaultRandom,  \* and how many more it may take
    kGameDefaultMaxRound,
    Layouts              \* the maps Init may produce

Cell == (0 .. kMapDefaultSize - 1) \X (0 .. kMapDefaultSize - 1)

(* A cell holds no block, a wall, or mud with what is hidden under it.       *)
Block == [block_type : {"NONE", "WALL", "MUD"}, potion : PotionType]

NoBlock == [block_type |-> "NONE", potion |-> NoPotion]

(* What InitMap or InitCustomMap builds: the four births, the blocks and the *)
(* potions that lie open.                                                    *)
Layout == [birth : [0 .. 3 -> Cell], block : [Cell -> Block],
           potion : [Cell -> PotionType]]

(* A birth is a free cell (InitMap keeps the corners free, a custom map has  *)
(* one token per cell), and an open potion is not inside a block.            *)
Playable(l) ==
    /\ \A i \in 0 .. 3 : /\ l.block[l.birth[i]] = NoBlock
                         /\ l.potion[l.birth[i]] = NoPotion
    /\ \A c \in Cell : l.block[c] = NoBlock \/ l.potion[c] = NoPotion
    /\ \A c \in Cell : l.block[c].block_type = "NONE" => l.block[c] = NoBlock

ASSUME GameAssumption ==
    /\ IsFiniteSet(PlayerId)
    /\ IsFiniteSet(BombId)
    /\ NoBomb \notin BombId
    /\ NoPlayer \notin PlayerId
    /\ kMapDefaultSize \in Nat \ {0}
    /\ kPlayerDefaultNum \in 2 .. 4
    /\ kBombDefaultTime \in Nat \ {0}
    /\ kBombDefaultRandom \in Nat
    /\ kGameDefaultMaxRound \in Nat
    /\ \A l \in Layouts : l \in Layout /\ Playable(l)

VARIABLES
    game_status,        \* the lifecycle of the engine
    game_now_round,
    player_birth,       \* where the next players appear
    player_map,         \* a record for every player of the match
    bomb_map,           \* a record for every bomb on the map
    action_player_map,  \* actions each player has spent in this round
    players,            \* Area::players_, the players registered in a cell
    bomb_id,            \* Area::bomb_id_
    block,              \* Area::block_id_ and the block of that id
    potion_type,        \* Area::potion_type_
    bombed,             \* cells whose last_bomb_round_ is the current round
    win_players_id,     \* the winners FlushTime reports when the match is over
    phase,              \* which loop of the running call is executing
    mover,              \* the player of the running DealMoveAction
    to_meet,            \* players its meeting loop has not visited
    to_move,            \* moving bombs FlushBombMove has not visited
    bomb_que            \* the queue of FlushBombExplode

board == <<players, bomb_id, block, potion_type, bombed>>
meeting == <<mover, to_meet>>
flushing == <<to_move, bomb_que>>
match == <<game_status, game_now_round, player_birth, win_players_id>>
vars == <<match, player_map, bomb_map, action_player_map, board, phase,
          meeting, flushing>>

GameStatus == {"UNINIT", "WAIT_PLAYER", "WAIT_ACTION", "FLUSHING", "GAME_OVER"}

(* The types of a move.  ActionReq takes the number of a request as it is:   *)
(* one beyond the enumeration, "OTHER", is dealt with as a move too.         *)
Direction == {"MOVE_LEFT", "MOVE_RIGHT", "MOVE_UP", "MOVE_DOWN", "OTHER"}

BombStatus == {"BOMB_SILENT", "BOMB_MOVE_LEFT", "BOMB_MOVE_RIGHT",
               "BOMB_MOVE_UP", "BOMB_MOVE_DOWN", "BOMB_OTHER"}

BombRecord == [pos : Cell, range : Nat, time : Nat, player_id : PlayerId,
               status : BombStatus]

Phase == {"idle", "meet", "bomb_move", "explode"}

Joined == DOMAIN player_map
Alive == {p \in Joined : ~IsDead(player_map[p])}
Bombs == DOMAIN bomb_map

-----------------------------------------------------------------------------
(* The map.                                                                  *)

(* The displacement of a player for each direction: any other type of action *)
(* leads to his own cell.                                                    *)
MoveDelta(d) ==
    CASE d = "MOVE_DOWN"  -> <<1, 0>>
      [] d = "MOVE_UP"    -> <<-1, 0>>
      [] d = "MOVE_RIGHT" -> <<0, 1>>
      [] d = "MOVE_LEFT"  -> <<0, -1>>
      [] d = "OTHER"      -> <<0, 0>>

(* The two enumerations disagree on left and right.                          *)
CastStatus_Mutant(d) ==
    CASE d = "MOVE_LEFT"  -> "BOMB_MOVE_RIGHT"
      [] d = "MOVE_RIGHT" -> "BOMB_MOVE_LEFT"
      [] d = "MOVE_UP"    -> "BOMB_MOVE_UP"
      [] d = "MOVE_DOWN"  -> "BOMB_MOVE_DOWN"
      [] d = "OTHER"      -> "BOMB_OTHER"

(* BombStatus(action_type) casts between two enumerations of the same order, *)
(* and a number beyond the one is beyond the other.                          *)
CastStatus(d) ==
    CASE d = "MOVE_LEFT"  -> "BOMB_MOVE_LEFT"
      [] d = "MOVE_RIGHT" -> "BOMB_MOVE_RIGHT"
      [] d = "MOVE_UP"    -> "BOMB_MOVE_UP"
      [] d = "MOVE_DOWN"  -> "BOMB_MOVE_DOWN"
      [] d = "OTHER"      -> "BOMB_OTHER"

(* The displacement of a bomb for each status.                               *)
BombDelta(s) ==
    CASE s = "BOMB_MOVE_UP"    -> <<-1, 0>>
      [] s = "BOMB_MOVE_DOWN"  -> <<1, 0>>
      [] s = "BOMB_MOVE_RIGHT" -> <<0, 1>>
      [] s = "BOMB_MOVE_LEFT"  -> <<0, -1>>
      [] OTHER                 -> <<0, 0>>

(* The position k displacements away.                                        *)
Shift(c, delta, k) == <<c[1] + k * delta[1], c[2] + k * delta[2]>>

HasBlock(c) == block[c].block_type # "NONE"

(* Nobody can enter a cell with a block or a bomb.                           *)
Obstructed(c) == HasBlock(c) \/ bomb_id[c] # NoBomb

(* Nobody is taken off the map.                                              *)
CleanDead_Mutant(area, records) == area

(* CleanPlayer applied to every player: the dead leave their cell.           *)
CleanDead(area, records) ==
    [c \in Cell |->
        area[c] \ {p \in DOMAIN records : IsDead(records[p]) /\ records[p].pos = c}]

-----------------------------------------------------------------------------
(* Init, AddPlayer, Reset.                                                   *)

EmptyMap(value) == [c \in Cell |-> value]

Init ==
    /\ game_status = "UNINIT"
    /\ game_now_round = 0
    /\ player_birth = [i \in 0 .. 3 |-> <<0, 0>>]
    /\ player_map = << >>
    /\ bomb_map = << >>
    /\ action_player_map = << >>
    /\ players = EmptyMap({})
    /\ bomb_id = EmptyMap(NoBomb)
    /\ block = EmptyMap(NoBlock)
    /\ potion_type = EmptyMap(NoPotion)
    /\ bombed = {}
    /\ win_players_id = {}
    /\ phase = "idle"
    /\ mover = NoPlayer
    /\ to_meet = {}
    /\ to_move = {}
    /\ bomb_que = << >>

(* Game::Init with a map the generator or the configuration yields.          *)
InitGame(l) ==
    /\ phase = "idle"
    /\ game_status = "UNINIT"
    /\ game_status' = "WAIT_PLAYER"
    /\ player_birth' = l.birth
    /\ block' = l.block
    /\ potion_type' = l.potion
    /\ UNCHANGED <<game_now_round, win_players_id, player_map, bomb_map,
                   action_player_map, players, bomb_id, bombed, phase, meeting,
                   flushing>>

(* The identifier counter is static, so a player gets an identifier that no  *)
(* player of this or of an earlier match has; his action count starts at 0.  *)
AddPlayer(p) ==
    LET pos == player_birth[Cardinality(Joined)] IN
    /\ phase = "idle"
    /\ game_status = "WAIT_PLAYER"
    /\ p \notin Joined
    /\ player_map' = [q \in Joined \cup {p} |->
                        IF q = p THEN NewPlayer(pos) ELSE player_map[q]]
    /\ action_player_map' = [q \in Joined \cup {p} |->
                               IF q = p THEN 0 ELSE action_player_map[q]]
    /\ players' = [players EXCEPT ![pos] = @ \cup {p}]
    /\ game_status' = IF Cardinality(Joined) + 1 = kPlayerDefaultNum
                      THEN "WAIT_ACTION" ELSE game_status
    /\ UNCHANGED <<game_now_round, player_birth, win_players_id, bomb_map,
                   bomb_id, block, potion_type, bombed, phase, meeting,
                   flushing>>

(* Reset drops the map, the players and the bombs; the births stay until the *)
(* next Init writes them.  The counts of the dropped players stay too, under *)
(* identifiers that never return; here they are dropped with the players.    *)
Reset ==
    /\ phase = "idle"
    /\ game_status' = "UNINIT"
    /\ game_now_round' = 0
    /\ player_map' = << >>
    /\ bomb_map' = << >>
    /\ action_player_map' = << >>
    /\ players' = EmptyMap({})
    /\ bomb_id' = EmptyMap(NoBomb)
    /\ block' = EmptyMap(NoBlock)
    /\ potion_type' = EmptyMap(NoPotion)
    /\ bombed' = {}
    /\ win_players_id' = {}
    /\ UNCHANGED <<player_birth, phase, meeting, flushing>>

-----------------------------------------------------------------------------
(* AddAction: placing a bomb, standing still, moving.                        *)

(* The dead may act.                                                         *)
CanAct_Mutant(p) ==
    /\ phase = "idle"
    /\ game_status = "WAIT_ACTION"
    /\ p \in Joined
    /\ action_player_map[p] < player_map[p].speed

(* The three refusals of AddAction, and handle_action's check that the       *)
(* player exists.                                                            *)
CanAct(p) ==
    /\ phase = "idle"
    /\ game_status = "WAIT_ACTION"
    /\ p \in Joined
    /\ ~IsDead(player_map[p])
    /\ action_player_map[p] < player_map[p].speed

(* The action is counted before it is known whether it succeeds.             *)
SpendAction(p) == action_player_map' = [action_player_map EXCEPT ![p] = @ + 1]

(* The limit on the number of bombs is forgotten.                            *)
MayPlace_Mutant(p) == ~Obstructed(player_map[p].pos)

MayPlace(p) ==
    /\ player_map[p].bomb_now_num < player_map[p].bomb_max_num
    /\ ~Obstructed(player_map[p].pos)

PlaceBomb(p, b) ==
    LET pos == player_map[p].pos IN
    /\ CanAct(p)
    /\ SpendAction(p)
    /\ MayPlace(p)
    /\ b \in BombId \ Bombs
    /\ \E r \in 0 .. kBombDefaultRandom :
         bomb_map' = [i \in Bombs \cup {b} |->
            IF i = b
            THEN [pos |-> pos, range |-> player_map[p].bomb_range,
                  time |-> kBombDefaultTime + r, player_id |-> p,
                  status |-> "BOMB_SILENT"]
            ELSE bomb_map[i]]
    /\ bomb_id' = [bomb_id EXCEPT ![pos] = b]
    /\ player_map' = [player_map EXCEPT ![p].bomb_now_num = @ + 1]
    /\ players' = CleanDead(players, player_map)
    /\ UNCHANGED <<match, block, potion_type, bombed, phase, meeting, flushing>>

PlaceRefused(p) ==
    /\ CanAct(p)
    /\ SpendAction(p)
    /\ ~MayPlace(p)
    /\ UNCHANGED <<match, player_map, bomb_map, board, phase, meeting, flushing>>

StaySilent(p) ==
    /\ CanAct(p)
    /\ SpendAction(p)
    /\ players' = CleanDead(players, player_map)
    /\ UNCHANGED <<match, player_map, bomb_map, bomb_id, block, potion_type,
                   bombed, phase, meeting, flushing>>

Target(p, d) == Shift(player_map[p].pos, MoveDelta(d), 1)

Pushable(p, c) ==
    /\ player_map[p].has_gloves
    /\ bomb_id[c] # NoBomb
    /\ bomb_map[bomb_id[c]].status = "BOMB_SILENT"

(* With gloves, walking against a bomb that lies still sets it in motion; the *)
(* player stays where he is.                                                  *)
PushBomb(p, d) ==
    LET to == Target(p, d) IN
    /\ CanAct(p)
    /\ SpendAction(p)
    /\ to \in Cell
    /\ Pushable(p, to)
    /\ bomb_map' = [bomb_map EXCEPT ![bomb_id[to]].status = CastStatus(d)]
    /\ UNCHANGED <<match, player_map, board, phase, meeting, flushing>>

(* Out of the map, against a block, against a bomb without gloves, or        *)
(* against a bomb already in motion.                                         *)
MoveRefused(p, d) ==
    LET to == Target(p, d) IN
    /\ CanAct(p)
    /\ SpendAction(p)
    /\ to \in Cell => Obstructed(to) /\ ~Pushable(p, to)
    /\ UNCHANGED <<match, player_map, bomb_map, board, phase, meeting, flushing>>

(* The player changes cells, or enters his own once more; then he meets, one *)
(* at a time, everybody who is there.                                        *)
MoveTo(p, d) ==
    LET from == player_map[p].pos
        to   == Target(p, d)
    IN
    /\ CanAct(p)
    /\ SpendAction(p)
    /\ to \in Cell
    /\ ~Obstructed(to)
    /\ player_map' = [player_map EXCEPT ![p].pos = to]
    /\ players' = [players EXCEPT ![from] = @ \ {p}, ![to] = @ \cup {p}]
    /\ phase' = "meet"
    /\ mover' = p
    /\ to_meet' = players[to] \ {p}
    /\ UNCHANGED <<match, bomb_map, bomb_id, block, potion_type, bombed, flushing>>

MeetOther(o) ==
    LET met == Meet(player_map[mover], player_map[o]) IN
    /\ phase = "meet"
    /\ o \in to_meet
    /\ to_meet' = to_meet \ {o}
    /\ player_map' = [player_map EXCEPT ![mover] = met.self, ![o] = met.other]
    /\ UNCHANGED <<match, bomb_map, action_player_map, board, phase, mover,
                   flushing>>

(* The potion stays in the cell.                                             *)
TakePotion_Mutant(pos) == potion_type

TakePotion(pos) == [potion_type EXCEPT ![pos] = NoPotion]

(* Everybody is met: the mover picks up what lies in the cell, alive or not, *)
(* and then the dead are taken off the map.                                  *)
FinishMove ==
    LET pos == player_map[mover].pos
        records == [player_map EXCEPT ![mover] = PickUp(@, potion_type[pos])]
    IN
    /\ phase = "meet"
    /\ to_meet = {}
    /\ player_map' = records
    /\ potion_type' = TakePotion(pos)
    /\ players' = CleanDead(players, records)
    /\ phase' = "idle"
    /\ mover' = NoPlayer
    /\ UNCHANGED <<match, bomb_map, action_player_map, bomb_id, block, bombed,
                   to_meet, flushing>>

-----------------------------------------------------------------------------
(* FlushTime: bombs move, bombs explode, the round is judged.                *)

InMotion == {b \in Bombs : bomb_map[b].status # "BOMB_SILENT"}

(* The round counter stands still.                                           *)
NextRound_Mutant == game_now_round

NextRound == game_now_round + 1

(* A new round number: no cell has been struck in it yet.                    *)
FlushTime ==
    /\ phase = "idle"
    /\ game_status = "WAIT_ACTION"
    /\ game_status' = "FLUSHING"
    /\ game_now_round' = NextRound
    /\ bombed' = {}
    /\ phase' = "bomb_move"
    /\ to_move' = InMotion
    /\ UNCHANGED <<player_birth, win_players_id, player_map, bomb_map,
                   action_player_map, players, bomb_id, block, potion_type,
                   meeting, bomb_que>>

NextPos(b) == Shift(bomb_map[b].pos, BombDelta(bomb_map[b].status), 1)

(* A bomb glides onto another bomb.                                          *)
FreeForBomb_Bomb_Mutant(c) ==
    /\ ~HasBlock(c)
    /\ potion_type[c] = NoPotion
    /\ players[c] = {}

(* A bomb glides onto a potion.                                              *)
FreeForBomb_Potion_Mutant(c) ==
    /\ ~Obstructed(c)
    /\ players[c] = {}

(* A bomb glides only into a cell that is empty of everything.               *)
FreeForBomb(c) ==
    /\ ~Obstructed(c)
    /\ potion_type[c] = NoPotion
    /\ players[c] = {}

GlideBomb(b) ==
    LET to == NextPos(b) IN
    /\ phase = "bomb_move"
    /\ b \in to_move
    /\ to \in Cell
    /\ FreeForBomb(to)
    /\ bomb_id' = [bomb_id EXCEPT ![bomb_map[b].pos] = NoBomb, ![to] = b]
    /\ bomb_map' = [bomb_map EXCEPT ![b].pos = to]
    /\ to_move' = to_move \ {b}
    /\ UNCHANGED <<match, player_map, action_player_map, players, block,
                   potion_type, bombed, phase, meeting, bomb_que>>

StopBomb(b) ==
    LET to == NextPos(b) IN
    /\ phase = "bomb_move"
    /\ b \in to_move
    /\ ~(to \in Cell /\ FreeForBomb(to))
    /\ bomb_map' = [bomb_map EXCEPT ![b].status = "BOMB_SILENT"]
    /\ to_move' = to_move \ {b}
    /\ UNCHANGED <<match, player_map, action_player_map, board, phase, meeting,
                   bomb_que>>

Due == {b \in Bombs : bomb_map[b].time = 0}

(* Every bomb has moved: every fuse burns, and the bombs whose fuse had      *)
(* ended are queued in the order of the container, any order.                *)
BurnFuses ==
    /\ phase = "bomb_move"
    /\ to_move = {}
    /\ bomb_map' = [b \in Bombs |-> [bomb_map[b] EXCEPT !.time = CountDown(@)]]
    /\ bomb_que' \in SetToSeqs(Due)
    /\ phase' = "explode"
    /\ UNCHANGED <<match, player_map, action_player_map, board, meeting, to_move>>

(* The four arms of a blast, in the order the code visits them.              *)
Arm == <<<<1, 0>>, <<-1, 0>>, <<0, 1>>, <<0, -1>>>>

(* The cells one arm strikes: up to and including the first block or bomb.   *)
ArmCells(pos, i, range) ==
    {c \in Cell : \E k \in 1 .. range :
        /\ c = Shift(pos, Arm[i], k)
        /\ \A j \in 1 .. k - 1 : ~Obstructed(Shift(pos, Arm[i], j))}

(* The bomb's own cell is struck whatever stands in it.                      *)
BlastCells(pos, range) ==
    {pos} \cup UNION {ArmCells(pos, i, range) : i \in 1 .. 4}

(* A bomb that is hit does not explode.                                      *)
QueueHit_Mutant(que, pos, i, range) == que

(* An arm that ends in a bomb queues this bomb.                              *)
QueueHit(que, pos, i, range) ==
    LET hit == {c \in ArmCells(pos, i, range) : bomb_id[c] # NoBomb} IN
    IF hit = {} THEN que ELSE Append(que, bomb_id[CHOOSE c \in hit : TRUE])

(* The struck cells where the blast reaches potions and blocks: it stops at  *)
(* a bomb before it looks at them.                                           *)
Swept(pos, struck) == {c \in struck : c = pos \/ bomb_id[c] = NoBomb}

(* Walls can be destroyed.                                                   *)
IsBombAble_Mutant(c) == HasBlock(c)

IsBombAble(c) == block[c].block_type = "MUD"

(* The owner is credited with his own death.                                 *)
AfterBlast_Mutant(p, owner, hit, mud) ==
    LET r == IF p \in hit THEN Injured(player_map[p]) ELSE player_map[p]
        kills == {v \in hit : Killed(player_map[v])}
    IN
    IF p # owner THEN r
    ELSE IncrMark([r EXCEPT !.bomb_now_num = @ - 1],
                  kMarkKill * Cardinality(kills)
                    + kMarkBombMud * Cardinality(mud))

(* The record of player p after the bomb of player owner struck the players  *)
(* in hit and destroyed mud blocks: everybody hit is injured, the owner is   *)
(* credited with the others he kills and with the mud.                       *)
AfterBlast(p, owner, hit, mud) ==
    LET r == IF p \in hit THEN Injured(player_map[p]) ELSE player_map[p]
        kills == {v \in hit \ {owner} : Killed(player_map[v])}
    IN
    IF p # owner THEN r
    ELSE IncrMark([r EXCEPT !.bomb_now_num = @ - 1],
                  kMarkKill * Cardinality(kills)
                    + kMarkBombMud * Cardinality(mud))

Explode ==
    LET b      == Head(bomb_que)
        bomb   == bomb_map[b]
        pos    == bomb.pos
        struck == BlastCells(pos, bomb.range)
        swept  == Swept(pos, struck)
        mud    == {c \in swept : IsBombAble(c)}
        hit    == UNION {players[c] : c \in struck}
    IN
    /\ phase = "explode"
    /\ bomb_que # << >>
    /\ b \in Bombs
    /\ bomb_map' = [i \in Bombs \ {b} |-> bomb_map[i]]
    /\ bomb_id' = [bomb_id EXCEPT ![pos] = NoBomb]
    /\ bombed' = bombed \cup struck
    /\ player_map' = [p \in Joined |-> AfterBlast(p, bomb.player_id, hit, mud)]
    /\ potion_type' = [c \in Cell |->
         IF c \in mud THEN block[c].potion
         ELSE IF c \in swept THEN NoPotion
         ELSE potion_type[c]]
    /\ block' = [c \in Cell |-> IF c \in mud THEN NoBlock ELSE block[c]]
    /\ bomb_que' = QueueHit(QueueHit(QueueHit(QueueHit(Tail(bomb_que),
                     pos, 1, bomb.range), pos, 2, bomb.range),
                     pos, 3, bomb.range), pos, 4, bomb.range)
    /\ UNCHANGED <<match, action_player_map, players, phase, meeting, to_move>>

(* A bomb that two blasts have queued is already gone at its second turn.    *)
SkipExploded ==
    /\ phase = "explode"
    /\ bomb_que # << >>
    /\ Head(bomb_que) \notin Bombs
    /\ bomb_que' = Tail(bomb_que)
    /\ UNCHANGED <<match, player_map, bomb_map, action_player_map, board, phase,
                   meeting, to_move>>

MarkLeaders ==
    {p \in Joined : \A q \in Joined : player_map[q].mark <= player_map[p].mark}

(* The match goes on when nobody is left.                                    *)
GameOver_Mutant ==
    \/ Cardinality(Alive) = 1
    \/ game_now_round > kGameDefaultMaxRound

(* IsGameOver: one survivor, nobody, or the round beyond the last one.       *)
GameOver ==
    \/ Cardinality(Alive) <= 1
    \/ game_now_round > kGameDefaultMaxRound

Winners == IF Cardinality(Alive) = 1 THEN Alive ELSE MarkLeaders

(* FlushPlayer, then IsGameOver, which also takes the dead off the map.  The *)
(* list of winners is read by the caller only when the match is over.        *)
FinishFlush ==
    /\ phase = "explode"
    /\ bomb_que = << >>
    /\ player_map' = [p \in Joined |->
         IF p \in Alive THEN PlayerFlushTime(player_map[p]) ELSE player_map[p]]
    /\ action_player_map' = [p \in Joined |->
         IF p \in Alive THEN 0 ELSE action_player_map[p]]
    /\ players' = CleanDead(players, player_map)
    /\ game_status' = IF GameOver THEN "GAME_OVER" ELSE "WAIT_ACTION"
    /\ win_players_id' = IF GameOver THEN Winners ELSE {}
    /\ phase' = "idle"
    /\ UNCHANGED <<game_now_round, player_birth, bomb_map, bomb_id, block,
                   potion_type, bombed, meeting, flushing>>

-----------------------------------------------------------------------------

(* The calls of the engine.                                                  *)
Call ==
    \/ \E l \in Layouts : InitGame(l)
    \/ \E p \in PlayerId : AddPlayer(p)
    \/ \E p \in PlayerId, b \in BombId : PlaceBomb(p, b)
    \/ \E p \in PlayerId : PlaceRefused(p)
    \/ \E p \in PlayerId : StaySilent(p)
    \/ \E p \in PlayerId, d \in Direction : PushBomb(p, d)
    \/ \E p \in PlayerId, d \in Direction : MoveRefused(p, d)
    \/ \E p \in PlayerId, d \in Direction : MoveTo(p, d)
    \/ FlushTime
    \/ Reset

(* The steps of a call that is running.                                      *)
Continue ==
    \/ \E o \in PlayerId : MeetOther(o)
    \/ FinishMove
    \/ \E b \in BombId : GlideBomb(b)
    \/ \E b \in BombId : StopBomb(b)
    \/ BurnFuses
    \/ Explode
    \/ SkipExploded
    \/ FinishFlush

Next == Call \/ Continue

Spec == Init /\ [][Next]_vars

(* A call that has started runs to its end.                                  *)
RunningSpec == Spec /\ WF_vars(Continue)

(* The server's timer goes on calling FlushTime while a match is played.     *)
TimedSpec == RunningSpec /\ WF_vars(FlushTime)

=============================================================================
