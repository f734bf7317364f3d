------------------------------- MODULE MCGame -------------------------------
(* Boards and players for model checking the engine.  A board is written as  *)
(* the custom_map of the configuration is, with the tokens of custom_map.h:  *)
(* "_" free, "9" wall, "6" mud, "0" to "3" the births, "a" to "g" potions.   *)
(* Where several players are born on neighbouring cells and the rest is wall *)
(* they meet early, and the state space stays small.                         *)
EXTENDS GameProperties, GameMatch

Symmetry == Permutations(PlayerId) \cup Permutations(BombId)

IsBirth(token) == token \in {"0", "1", "2", "3"}

BirthOf(token) ==
    CASE token = "0" -> 0 [] token = "1" -> 1 [] token = "2" -> 2 [] token = "3" -> 3

PotionOf(token) ==
    CASE token = "a" -> "BOMB_NUM"
      [] token = "b" -> "BOMB_RANGE"
      [] token = "c" -> "INVINCIBLE"
      [] token = "d" -> "REBIRTH"
      [] token = "e" -> "SHIELD"
      [] token = "f" -> "SPEED"
      [] token = "g" -> "GLOVES"
      [] OTHER -> NoPotion

(* The layout of a board whose mud hides the given potion: InitMap hides     *)
(* potions, a custom map hides none.                                         *)
LayoutOf(rows, hidden) ==
    LET token(c) == rows[c[1] + 1][c[2] + 1] IN
    [birth |-> [i \in 0 .. 3 |->
        IF \E c \in Cell : IsBirth(token(c)) /\ BirthOf(token(c)) = i
        THEN CHOOSE c \in Cell : IsBirth(token(c)) /\ BirthOf(token(c)) = i
        ELSE <<0, 0>>],
     block |-> [c \in Cell |->
        CASE token(c) = "9" -> [block_type |-> "WALL", potion |-> NoPotion]
          [] token(c) = "6" -> [block_type |-> "MUD", potion |-> hidden]
          [] OTHER -> NoBlock],
     potion |-> [c \in Cell |-> PotionOf(token(c))]]

Walls == <<"9", "9", "9", "9", "9">>

(* Two players in a corridor with mud between them: who lays a bomb cannot   *)
(* leave its reach.                                                          *)
CorridorRows == <<<<"0", "_", "6", "1", "9">>, Walls, Walls, Walls, Walls>>
CorridorLayouts ==
    {LayoutOf(CorridorRows, t) : t \in {"NO_POTION", "BOMB_NUM", "SHIELD", "REBIRTH"}}

(* Two players in a room where one can lay a bomb at the mud, turn a corner  *)
(* and come back for what the mud has hidden.                                *)
MudRows == <<<<"0", "6", "9", "9", "9">>,
             <<"_", "_", "1", "9", "9">>, Walls, Walls, Walls>>
MudLayouts ==
    {LayoutOf(MudRows, t) : t \in {"GLOVES", "SPEED", "REBIRTH"}}

(* The same room with nothing, or a potion of one kind, under the mud.       *)
BareMud == {LayoutOf(MudRows, "NO_POTION")}
GlovesUnderMud == {LayoutOf(MudRows, "GLOVES")}

(* Two pairs of gloves on the way to a cell both players can push a bomb to. *)
(* The potions lie where the room has walls: OpenFromStart (GameLog.tla)     *)
(* excuses nothing there.  <<0, 0>> is the birth of those the board does not *)
(* name, and must be free.                                                   *)
GloveRows == <<<<"_", "9", "9", "9", "9">>, Walls, Walls, Walls,
               <<"0", "g", "_", "g", "1">>>>
GloveLayouts == {LayoutOf(GloveRows, "NO_POTION")}

BombLayouts == MudLayouts \cup GloveLayouts

(* Three players in a corridor with two potions of invincibility between     *)
(* them: two may take one each and be met together by the third.  A bomb at  *)
(* one end reaches mud.                                                      *)
MeetRows == <<<<"0", "c", "1", "c", "2">>,
              <<"6", "9", "9", "9", "9">>, Walls, Walls, Walls>>
MeetLayouts == {LayoutOf(MeetRows, "NO_POTION")}

(* Two players in one room with two bombs each, a potion of range and gloves *)
(* to push the bombs with.                                                   *)
ChainRows == <<<<"0", "b", "1", "9", "9">>,
               <<"6", "g", "9", "9", "9">>, Walls, Walls, Walls>>
ChainLayouts == {LayoutOf(ChainRows, "NO_POTION")}

=============================================================================
