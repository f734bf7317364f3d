------------------------------- MODULE Replay -------------------------------
(* The language of the snapshot log, with which the engine tells the replay  *)
(* viewer what happens on the map: the map itself when the match starts, then *)
(* one entry for everything that appears or disappears, and a FLUSH at the   *)
(* end of every round.  The module has no variables: GameLog.tla writes the  *)
(* entries and Snapshot.tla reads them, and both use what is defined here.   *)
(*                                                                           *)
(* The text between the angle brackets of the log, its sscanf and the JSON   *)
(* of the map are abstracted: an entry is a record.  A screen cell keeps     *)
(* which players are shown and whether a bomb or a block is; their           *)
(* identifiers decide nothing that is shown but the colour of a block.       *)
EXTENDS Integers, Sequences

CONSTANTS
    Cell,         \* positions of the map
    PotionType,
    NoPotion      \* the potion_type of a cell without potion

ASSUME ReplayAssumption == NoPotion \in PotionType

(* Players are shown modulo four.                                            *)
Label == 0 .. 3

(* What the viewer keeps of an Area.                                         *)
Area == [players : SUBSET Label, bomb : BOOLEAN, block : BOOLEAN,
         potion : PotionType]

Screen == [Cell -> Area]

(* MapObjectType: 0 to 3 a player, and the four below.                       *)
MAP_OBJECT_EMPTY == 4
MAP_OBJECT_BLOCK == 5
MAP_OBJECT_BOMB == 6
MAP_OBJECT_UNKNOWN == 7

PlayerEvent == [type : {"PLAYER_APPEAR", "PLAYER_DISAPPEAR"}, player : Label,
                pos : Cell]

PotionEvent == [type : {"POTION_APPEAR", "POTION_DISAPPEAR"},
                potion : PotionType, pos : Cell]

ObjectEvent == [type : {"BOMB_APPEAR", "BOMB_DISAPPEAR", "BLOCK_APPEAR",
                        "BLOCK_DISAPPEAR", "FLUSH"}, pos : Cell]

Event == PlayerEvent \cup PotionEvent \cup ObjectEvent

MapEntry == [map : [Cell -> 0 .. 7]]

Entry == Event \cup MapEntry

(* The entry can be replayed: the map itself is no event.                    *)
IsEvent(e) == "type" \in DOMAIN e

IsFlush(e) == IsEvent(e) /\ e.type = "FLUSH"

-----------------------------------------------------------------------------
(* The map entry, written by GetFromatStringWithMap and read by Init.        *)

(* What may be written for a cell: of several players one, and neither the   *)
(* bomb nor the potion by its kind.                                          *)
ObjectOf(a) ==
    IF a.block THEN {MAP_OBJECT_BLOCK}
    ELSE IF a.players # {} THEN a.players
    ELSE IF ~a.bomb /\ a.potion = NoPotion THEN {MAP_OBJECT_EMPTY}
    ELSE {MAP_OBJECT_UNKNOWN}

(* How an object is read; what is unknown is read as nothing.                *)
AreaOf(o) == [players |-> {o} \cap Label, bomb |-> o = MAP_OBJECT_BOMB,
              block |-> o = MAP_OBJECT_BLOCK, potion |-> NoPotion]

ScreenOf(map) == [c \in Cell |-> AreaOf(map[c])]

-----------------------------------------------------------------------------
(* FlushStatusMachine.                                                       *)

(* The bomb that vanished is not put back.                                   *)
Opposite_Mutant(type) ==
    CASE type = "PLAYER_APPEAR"    -> "PLAYER_DISAPPEAR"
      [] type = "PLAYER_DISAPPEAR" -> "PLAYER_APPEAR"
      [] type = "BOMB_APPEAR"      -> "BOMB_DISAPPEAR"
      [] type = "POTION_APPEAR"    -> "POTION_DISAPPEAR"
      [] type = "POTION_DISAPPEAR" -> "POTION_APPEAR"
      [] type = "BLOCK_APPEAR"     -> "BLOCK_DISAPPEAR"
      [] type = "BLOCK_DISAPPEAR"  -> "BLOCK_APPEAR"
      [] OTHER                     -> type

(* What undoes an event.                                                     *)
Opposite(type) ==
    CASE type = "PLAYER_APPEAR"    -> "PLAYER_DISAPPEAR"
      [] type = "PLAYER_DISAPPEAR" -> "PLAYER_APPEAR"
      [] type = "BOMB_APPEAR"      -> "BOMB_DISAPPEAR"
      [] type = "BOMB_DISAPPEAR"   -> "BOMB_APPEAR"
      [] type = "POTION_APPEAR"    -> "POTION_DISAPPEAR"
      [] type = "POTION_DISAPPEAR" -> "POTION_APPEAR"
      [] type = "BLOCK_APPEAR"     -> "BLOCK_DISAPPEAR"
      [] type = "BLOCK_DISAPPEAR"  -> "BLOCK_APPEAR"
      [] OTHER                     -> type

Reversed(e) == [e EXCEPT !.type = Opposite(@)]

(* One cell after an event that happens in it.                               *)
Change(e, a) ==
    CASE e.type = "PLAYER_APPEAR"    -> [a EXCEPT !.players = @ \cup {e.player}]
      [] e.type = "PLAYER_DISAPPEAR" -> [a EXCEPT !.players = @ \ {e.player}]
      [] e.type = "BOMB_APPEAR"      -> [a EXCEPT !.bomb = TRUE]
      [] e.type = "BOMB_DISAPPEAR"   -> [a EXCEPT !.bomb = FALSE]
      [] e.type = "POTION_APPEAR"    -> [a EXCEPT !.potion = e.potion]
      [] e.type = "POTION_DISAPPEAR" -> [a EXCEPT !.potion = NoPotion]
      [] e.type = "BLOCK_APPEAR"     -> [a EXCEPT !.block = TRUE]
      [] e.type = "BLOCK_DISAPPEAR"  -> [a EXCEPT !.block = FALSE]
      [] OTHER                       -> a

Applied(e, screen) == [screen EXCEPT ![e.pos] = Change(e, @)]

(* The entry agrees with the screen: what appears was not there, and what    *)
(* disappears was.  Only such an event is undone by its opposite; any other  *)
(* leaves behind, on the way back, what was not there before it.             *)
Consistent(e, screen) ==
    /\ IsEvent(e)
    /\ LET a == screen[e.pos] IN
       CASE e.type = "PLAYER_APPEAR"    -> e.player \notin a.players
         [] e.type = "PLAYER_DISAPPEAR" -> e.player \in a.players
         [] e.type = "BOMB_APPEAR"      -> ~a.bomb
         [] e.type = "BOMB_DISAPPEAR"   -> a.bomb
         [] e.type = "POTION_APPEAR"    -> a.potion = NoPotion
         [] e.type = "POTION_DISAPPEAR" -> a.potion = e.potion
         [] e.type = "BLOCK_APPEAR"     -> ~a.block
         [] e.type = "BLOCK_DISAPPEAR"  -> a.block
         [] OTHER                       -> TRUE

(* What PrintSnapshot shows of a cell, one of the players if there are any.  *)
Picture(a) ==
    CASE a.players # {}       -> [icon |-> "player", who |-> a.players]
      [] a.players = {} /\ a.bomb -> [icon |-> "bomb"]
      [] a.players = {} /\ ~a.bomb /\ a.block -> [icon |-> "block"]
      [] OTHER                -> [icon |-> a.potion]

=============================================================================
