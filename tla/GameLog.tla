------------------------------- MODULE GameLog ------------------------------
(* The engine writing its snapshot log: every action of Game.tla together    *)
(* with the entries (Replay.tla) that SnapshotString puts into the log while *)
(* the action runs.  The log itself would grow without end; what is kept of  *)
(* it is the screen a viewer has after replaying it forwards to its end, and *)
(* the entries of the last step.  Every match is a log of its own, because   *)
(* the map entry of a second match stops the viewer.                         *)
EXTENDS Game

(* Consecutive identifiers differ modulo four (Identifiers.tla).             *)
ASSUME GameLogAssumption ==
    /\ PlayerId \subseteq Nat
    /\ \A p, q \in PlayerId : p % 4 = q % 4 => p = q

VARIABLES
    screen,    \* what a viewer shows after the log so far
    logged,    \* the entries written by the last step
    old_pos,   \* where the moving player comes from, while there is one
    gone       \* history: the dead whose disappearance has been written

log_vars == <<screen, logged, old_pos, gone>>

INSTANCE Replay

ShownAs(p) == p % 4

(* What the engine's own Area shows of a cell (PrintMap).                    *)
EngineArea(c) ==
    [players |-> {ShownAs(p) : p \in players[c]}, bomb |-> bomb_id[c] # NoBomb,
     block |-> HasBlock(c), potion |-> potion_type[c]]

-----------------------------------------------------------------------------
(* The entries of each action.                                               *)

(* A screen after some entries.                                              *)
Replayed(entries, start) ==
    LET shown[n \in 0 .. Len(entries)] ==
          IF n = 0 THEN start ELSE Applied(entries[n], shown[n - 1])
    IN shown[Len(entries)]

Log(entries) ==
    /\ logged' = entries
    /\ screen' = Replayed(entries, screen)

At(type, c) == [type |-> type, pos |-> c]

PlayerAt(type, p, c) == [type |-> type, player |-> ShownAs(p), pos |-> c]

PotionAt(type, t, c) == [type |-> type, potion |-> t, pos |-> c]

(* The slip of the gloves, made once more.                                   *)
GetPotionType_Mutant(t) == IF t \in {"GLOVES", "SPEED"} THEN "INVINCIBLE" ELSE t

(* What a potion answers when it is asked for its type: GlovesPotion says    *)
(* that it is a potion of invincibility, every other one says what it is.    *)
GetPotionType(t) == IF t = "GLOVES" THEN "INVINCIBLE" ELSE t

(* The old position is a reference to the new one.                           *)
MoveEntries_Mutant(p, from, to) ==
    (IF potion_type[to] = NoPotion THEN << >>
     ELSE <<PotionAt("POTION_DISAPPEAR", GetPotionType(potion_type[to]), to)>>)
    \o <<PlayerAt("PLAYER_DISAPPEAR", p, to), PlayerAt("PLAYER_APPEAR", p, to)>>

(* A move is written when it is over, after what was met and picked up, and  *)
(* the potion by the type it says it has.                                    *)
MoveEntries(p, from, to) ==
    (IF potion_type[to] = NoPotion THEN << >>
     ELSE <<PotionAt("POTION_DISAPPEAR", GetPotionType(potion_type[to]), to)>>)
    \o <<PlayerAt("PLAYER_DISAPPEAR", p, from), PlayerAt("PLAYER_APPEAR", p, to)>>

(* The cell the bomb leaves is not written.                                  *)
GlideEntries_Mutant(from, to) == <<At("BOMB_APPEAR", to)>>

GlideEntries(from, to) == <<At("BOMB_DISAPPEAR", from), At("BOMB_APPEAR", to)>>

(* What lay under the mud is not written.                                    *)
SweepEntries_Mutant(c) ==
    (IF potion_type[c] = NoPotion THEN << >>
     ELSE <<PotionAt("POTION_DISAPPEAR", potion_type[c], c)>>)
    \o (IF ~IsBombAble(c) THEN << >> ELSE <<At("BLOCK_DISAPPEAR", c)>>)

(* A swept cell: the potion that lay there, then the mud and what was under  *)
(* it, be it no potion.                                                      *)
SweepEntries(c) ==
    (IF potion_type[c] = NoPotion THEN << >>
     ELSE <<PotionAt("POTION_DISAPPEAR", potion_type[c], c)>>)
    \o (IF ~IsBombAble(c) THEN << >>
        ELSE <<At("BLOCK_DISAPPEAR", c),
               PotionAt("POTION_APPEAR", block[c].potion, c)>>)

(* The cells are written one after the other; no two entries of different    *)
(* cells disturb each other.                                                 *)
ExplodeEntries(b) ==
    LET pos == bomb_map[b].pos
        swept == Swept(pos, BlastCells(pos, bomb_map[b].range))
    IN <<At("BOMB_DISAPPEAR", pos)>>
         \o FlattenSeq([i \in 1 .. Cardinality(swept) |->
                          SweepEntries(SetToSeq(swept)[i])])

(* Nobody is written off at the end of a round.                              *)
JudgeEntries_Mutant == <<At("FLUSH", <<0, 0>>)>>

(* IsGameOver writes off every dead player in every round, whenever he died. *)
JudgeEntries ==
    LET dead == SetToSeq(Joined \ Alive) IN
    Append([i \in 1 .. Len(dead) |->
              PlayerAt("PLAYER_DISAPPEAR", dead[i], player_map[dead[i]].pos)],
           At("FLUSH", <<0, 0>>))

(* The last player to join has the map written, with the players on it.      *)
LogMap ==
    LET map == [c \in Cell |-> CHOOSE o \in ObjectOf(EngineArea(c)') : TRUE] IN
    /\ logged' = <<[map |-> map]>>
    /\ screen' = ScreenOf(map)

-----------------------------------------------------------------------------
(* The actions of the engine with what they write.                           *)

Blank == [c \in Cell |-> AreaOf(MAP_OBJECT_EMPTY)]

Nowhere == <<0, 0>>

LogInit ==
    /\ Init
    /\ screen = Blank
    /\ logged = << >>
    /\ old_pos = Nowhere
    /\ gone = {}

(* What writes nothing.                                                      *)
Unlogged ==
    /\ \/ \E l \in Layouts : InitGame(l)
       \/ \E p \in PlayerId : PlaceRefused(p) \/ StaySilent(p)
       \/ \E p \in PlayerId, d \in Direction : PushBomb(p, d) \/ MoveRefused(p, d)
       \/ FlushTime
       \/ \E o \in PlayerId : MeetOther(o)
       \/ \E b \in BombId : StopBomb(b)
       \/ BurnFuses
       \/ SkipExploded
    /\ logged' = << >>
    /\ UNCHANGED <<screen, old_pos, gone>>

(* The counter of identifiers counts upwards.                                *)
LoggedAddPlayer(p) ==
    /\ \A q \in Joined : q < p
    /\ AddPlayer(p)
    /\ IF game_status' = "WAIT_ACTION" THEN LogMap ELSE Log(<< >>)
    /\ UNCHANGED <<old_pos, gone>>

LoggedPlaceBomb(p, b) ==
    /\ PlaceBomb(p, b)
    /\ Log(<<At("BOMB_APPEAR", player_map[p].pos)>>)
    /\ UNCHANGED <<old_pos, gone>>

LoggedMoveTo(p, d) ==
    /\ MoveTo(p, d)
    /\ old_pos' = player_map[p].pos
    /\ Log(<< >>)
    /\ UNCHANGED gone

LoggedFinishMove ==
    /\ FinishMove
    /\ Log(MoveEntries(mover, old_pos, player_map[mover].pos))
    /\ old_pos' = Nowhere
    /\ UNCHANGED gone

LoggedGlideBomb(b) ==
    /\ GlideBomb(b)
    /\ Log(GlideEntries(bomb_map[b].pos, NextPos(b)))
    /\ UNCHANGED <<old_pos, gone>>

LoggedExplode ==
    /\ Explode
    /\ Log(ExplodeEntries(Head(bomb_que)))
    /\ UNCHANGED <<old_pos, gone>>

LoggedFinishFlush ==
    /\ FinishFlush
    /\ Log(JudgeEntries)
    /\ gone' = Joined \ Alive
    /\ UNCHANGED old_pos

(* The match and its log are over.                                           *)
LoggedReset ==
    /\ Reset
    /\ screen' = Blank
    /\ logged' = << >>
    /\ gone' = {}
    /\ UNCHANGED old_pos

LogNext ==
    \/ Unlogged
    \/ LoggedReset
    \/ \E p \in PlayerId : LoggedAddPlayer(p)
    \/ \E p \in PlayerId, b \in BombId : LoggedPlaceBomb(p, b)
    \/ \E p \in PlayerId, d \in Direction : LoggedMoveTo(p, d)
    \/ LoggedFinishMove
    \/ \E b \in BombId : LoggedGlideBomb(b)
    \/ LoggedExplode
    \/ LoggedFinishFlush

LogSpec == LogInit /\ [][LogNext]_<<vars, log_vars>>

-----------------------------------------------------------------------------
(* Properties.                                                               *)

Recording == game_status \in {"WAIT_ACTION", "FLUSHING", "GAME_OVER"}

(* No two players of a match are born in the same cell: so it is on every    *)
(* map that is generated, and on a custom map that names enough births, each *)
(* once (MapProofs.tla).  The map entry shows one player of a cell.          *)
BirthsApart ==
    \A l \in Layouts : \A i, j \in 0 .. kPlayerDefaultNum - 1 :
        l.birth[i] = l.birth[j] => i = j

(* A potion that the map showed when the match began: the viewer knows only  *)
(* that there is something, and shows nothing.                               *)
OpenFromStart(c) == \E l \in Layouts : l.potion[c] # NoPotion

(* Who is shown in a cell: a player on the move where he comes from, and the *)
(* dead where they died until the round is judged.                           *)
ShownIn(c) ==
    {p \in Joined \ gone : c = IF p = mover THEN old_pos ELSE player_map[p].pos}

(* After every step of the engine the log tells the whole truth about the    *)
(* map: replayed from its beginning it shows exactly the bombs, the blocks,  *)
(* the potions and the players, each in its cell; the dead stay on the       *)
(* screen until the end of the round, because only IsGameOver writes them    *)
(* off, although DealMoveAction and the blasts kill earlier.                 *)
ReplayAgrees ==
    Recording =>
        \A c \in Cell :
            /\ screen[c].bomb = (bomb_id[c] # NoBomb)
            /\ screen[c].block = HasBlock(c)
            /\ \/ screen[c].potion = potion_type[c]
               \/ OpenFromStart(c) /\ screen[c].potion = NoPotion
            /\ screen[c].players = {ShownAs(p) : p \in ShownIn(c)}

(* The screen to which entry i of a step is applied.                         *)
ScreenBefore(entries, start, i) == Replayed(SubSeq(entries, 1, i - 1), start)

(* The entry says that gloves vanish, by the type they give themselves.      *)
GlovesVanish(e, shown) ==
    /\ e.type = "POTION_DISAPPEAR"
    /\ shown[e.pos].potion = "GLOVES" /\ e.potion = "INVINCIBLE"

(* Every entry agrees with the screen it will be applied to, which is what a *)
(* viewer needs to undo it (Snapshot.tla, BoardRestored), but for three: a   *)
(* dead player is written off again in every round after the first, an open  *)
(* potion of a custom map that is taken was never shown, and gloves that are *)
(* taken vanish as a potion of invincibility.                                *)
LogContract ==
    [][\A i \in 1 .. Len(logged') :
         LET e     == logged'[i]
             shown == ScreenBefore(logged', screen, i)
         IN
         \/ ~IsEvent(e)
         \/ Consistent(e, shown)
         \/ e.type = "PLAYER_DISAPPEAR" /\ e.player \in {ShownAs(p) : p \in gone}
         \/ e.type = "POTION_DISAPPEAR" /\ OpenFromStart(e.pos)
         \/ GlovesVanish(e, shown)]_<<vars, log_vars>>

(* snapshot_main.cpp says that 'w' goes to the last step: the opposite of an *)
(* entry brings back what was shown before it.  Gloves come back as another  *)
(* potion.                                                                   *)
StepBack ==
    [][\A i \in 1 .. Len(logged') :
         LET e     == logged'[i]
             shown == ScreenBefore(logged', screen, i)
             back  == Applied(Reversed(e), Applied(e, shown))
         IN IsEvent(e) => Picture(back[e.pos]) = Picture(shown[e.pos])
      ]_<<vars, log_vars>>

=============================================================================
