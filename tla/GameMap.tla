------------------------------- MODULE GameMap ------------------------------
(* Where the layouts of Game.tla come from: the constants const.h derives    *)
(* from the configuration, the generator (Game::InitMap, InitPlayerBirth)    *)
(* and the reader of custom maps (Game::InitCustomMap, custom_map.h), with   *)
(* what a refused map and a Reset leave behind in the engine.                *)
(*                                                                           *)
(* A draw below a probability is possible if the probability is positive and *)
(* certain if it is 100; the shuffles are any order.  A token of a custom    *)
(* map is one of Token, and everything else, like "x", is unknown.           *)
EXTENDS Integers, FiniteSets, Sequences

CONSTANTS
    PotionType,
    NoPotion,
    Configs,       \* the configurations the program may be started with
    CustomMaps,    \* the maps, sequences of rows of tokens, Init may be given
    MaxRefused     \* bound: maps refused between two calls of Reset

Config == [map_size : Int, wall_random : 0 .. 100, mud_random : 0 .. 100,
           potion_probability : 0 .. 100]

ASSUME MapAssumption ==
    /\ NoPotion \in PotionType
    /\ Configs \subseteq Config
    /\ MaxRefused \in Nat

-----------------------------------------------------------------------------
(* const.h.                                                                  *)

AtLeast(a, b) == IF a >= b THEN a ELSE b
AtMost(a, b) == IF a <= b THEN a ELSE b

(* An even size is kept.                                                     *)
MapSize_Mutant(map_size) == AtLeast(AtMost(21, map_size), 5)

(* The size of the map is odd, and within bounds.                            *)
MapSize(map_size) == AtLeast(AtMost(21, 2 * (map_size \div 2) + 1), 5)

-----------------------------------------------------------------------------
(* The generator, for a map of side n.                                       *)

CellsOf(n) == (0 .. n - 1) \X (0 .. n - 1)

NoBlock == [block_type |-> "NONE", potion |-> NoPotion]
Wall == [block_type |-> "WALL", potion |-> NoPotion]
Mud(p) == [block_type |-> "MUD", potion |-> p]

Block == {NoBlock, Wall} \cup {Mud(p) : p \in PotionType}

(* The walls no draw decides on.                                             *)
FixedWalls(n) == {c \in CellsOf(n) : c[1] % 2 # 0 /\ c[2] % 2 # 0}

(* Where a wall is drawn (IsCreateWall): inside the map between two fixed    *)
(* walls, and in the middle of each edge.                                    *)
RandomWalls(n) ==
    {c \in CellsOf(n) :
        \/ /\ (c[1] + c[2]) % 2 # 0
           /\ c[1] \in 1 .. n - 2
           /\ c[2] \in 1 .. n - 2
        \/ c[2] = n \div 2 /\ c[1] \in {0, n - 1}
        \/ c[1] = n \div 2 /\ c[2] \in {0, n - 1}}

(* Only the outermost cell of a corner is kept free.                         *)
NearEdge_Mutant(n, i) == i < 1 \/ n - i <= 1

NearEdge(n, i) == i <= 1 \/ n - i <= 2

BirthZone(n) == {c \in CellsOf(n) : NearEdge(n, c[1]) /\ NearEdge(n, c[2])}

(* The cells for which a draw may succeed.                                   *)
Draws(probability, cells) ==
    IF probability = 0 THEN {{}}
    ELSE IF probability = 100 THEN {cells}
    ELSE SUBSET cells

(* What may be hidden under mud.                                             *)
HiddenPotions(probability) ==
    (IF probability > 0 THEN PotionType \ {NoPotion} ELSE {})
      \cup (IF probability < 100 THEN {NoPotion} ELSE {})

(* The map InitMap makes of the drawn walls and mud.                         *)
MapOf(n, walls, hidden) ==
    [c \in CellsOf(n) |->
        [block  |-> IF c \in walls THEN Wall
                    ELSE IF c \in DOMAIN hidden THEN Mud(hidden[c]) ELSE NoBlock,
         potion |-> NoPotion]]

Corners(n) == {<<0, 0>>, <<n - 1, n - 1>>, <<n - 1, 0>>, <<0, n - 1>>}

(* The corners in any order.                                                 *)
BirthsOf(n) ==
    {b \in [0 .. 3 -> Corners(n)] : \A i, j \in 0 .. 3 : b[i] = b[j] => i = j}

-----------------------------------------------------------------------------
(* Custom maps.                                                              *)

BirthToken == {"0", "1", "2", "3"}

BirthIndex(token) ==
    CASE token = "0" -> 0 [] token = "1" -> 1 [] token = "2" -> 2 [] token = "3" -> 3

PotionToken == {"a", "b", "c", "d", "e", "f", "g"}

PotionByToken(token) ==
    CASE token = "a" -> "BOMB_NUM"   [] token = "b" -> "BOMB_RANGE"
      [] token = "c" -> "INVINCIBLE" [] token = "d" -> "REBIRTH"
      [] token = "e" -> "SHIELD"     [] token = "f" -> "SPEED"
      [] token = "g" -> "GLOVES"

Token == BirthToken \cup PotionToken \cup {"6", "9", "_"}

(* The Area of a token.                                                      *)
AreaOf(token) ==
    [block  |-> CASE token = "9" -> Wall
                  [] token = "6" -> Mud(NoPotion)
                  [] OTHER       -> NoBlock,
     potion |-> IF token \in PotionToken THEN PotionByToken(token) ELSE NoPotion]

ASSUME TokenAssumption ==
    CustomMaps # {} => \A t \in PotionToken : PotionByToken(t) \in PotionType

TokenAt(m, c) == m[c[1] + 1][c[2] + 1]

(* The order in which the cells are read.                                    *)
Order(n, c) == c[1] * n + c[2]

(* Where a map is found to be wrong: at once if it has not n rows, at the    *)
(* beginning of a row of another length, and at an unknown token.            *)
Refusals(n, m) ==
    IF Len(m) # n THEN {0}
    ELSE {Order(n, <<i, 0>>) : i \in {i \in 0 .. n - 1 : Len(m[i + 1]) # n}}
      \cup {Order(n, c) : c \in {c \in CellsOf(n) :
              Len(m[c[1] + 1]) = n /\ TokenAt(m, c) \notin Token}}

(* Only the number of rows is checked.                                       *)
Accepted_Mutant(n, m) == Len(m) = n

Accepted(n, m) == Refusals(n, m) = {}

(* The cells that are read before the map is found to be wrong.              *)
ReadCells(n, m) ==
    {c \in CellsOf(n) : \A r \in Refusals(n, m) : Order(n, c) < r}

(* The cell of the unknown token has its Area, which stays empty.            *)
RefusedCells(n, m) ==
    {c \in CellsOf(n) \ ReadCells(n, m) :
        /\ Len(m) = n
        /\ Len(m[c[1] + 1]) = n
        /\ \A r \in Refusals(n, m) : Order(n, c) <= r}

(* Of several births with the same number the last one counts.               *)
LastBirth(n, m, i) ==
    LET at == {c \in ReadCells(n, m) :
                 TokenAt(m, c) \in BirthToken /\ BirthIndex(TokenAt(m, c)) = i}
    IN {c \in at : \A d \in at : Order(n, d) <= Order(n, c)}

-----------------------------------------------------------------------------

VARIABLES
    config,         \* what config.json says
    game_status,
    map,            \* the cells that have an Area, and what is in it
    block_num,      \* blocks in block_map_, which PrintMap prints
    player_birth,   \* empty until the first Init
    source,         \* history: the custom map of the match, or none
    refused         \* history: the maps refused since the last Reset

vars == <<config, game_status, map, block_num, player_birth, source, refused>>

Size == MapSize(config.map_size)

NoMap == << >>

Blocks(areas) == {c \in DOMAIN areas : areas[c].block # NoBlock}

Init ==
    /\ config \in Configs
    /\ game_status = "UNINIT"
    /\ map = << >>
    /\ block_num = 0
    /\ player_birth = << >>
    /\ source = NoMap
    /\ refused = 0

(* Game::Init without a custom map.                                          *)
Generate ==
    /\ game_status = "UNINIT"
    /\ \E drawn \in Draws(config.wall_random, RandomWalls(Size)) :
         LET walls == FixedWalls(Size) \cup drawn
             rest  == CellsOf(Size) \ (walls \cup BirthZone(Size))
         IN \E mud \in Draws(config.mud_random, rest) :
              \E hidden \in [mud -> HiddenPotions(config.potion_probability)] :
                map' = MapOf(Size, walls, hidden)
    /\ block_num' = block_num + Cardinality(Blocks(map'))
    /\ player_birth' \in BirthsOf(Size)
    /\ game_status' = "WAIT_PLAYER"
    /\ source' = NoMap
    /\ UNCHANGED <<config, refused>>

(* A birth the map does not name keeps the place it had, at first <<0, 0>>.  *)
BirthBefore(i) == IF player_birth = << >> THEN <<0, 0>> ELSE player_birth[i]

(* A cell that has an Area already keeps it.                                 *)
NewArea_Mutant(m, c) ==
    IF c \in DOMAIN map THEN map[c]
    ELSE IF c \in ReadCells(Size, m) THEN AreaOf(TokenAt(m, c))
    ELSE AreaOf("_")

NewArea(m, c) ==
    IF c \in ReadCells(Size, m) THEN AreaOf(TokenAt(m, c)) ELSE AreaOf("_")

(* What was read of the map replaces what was there before, also when the    *)
(* map is refused in the end.                                                *)
ReadMap(m) ==
    LET read == ReadCells(Size, m)
        made == read \cup RefusedCells(Size, m)
    IN
    /\ map' = [c \in DOMAIN map \cup made |->
                 IF c \in made THEN NewArea(m, c) ELSE map[c]]
    /\ block_num' = block_num
         + Cardinality({c \in read : AreaOf(TokenAt(m, c)).block # NoBlock})
    /\ player_birth' = [i \in 0 .. 3 |->
         IF LastBirth(Size, m, i) = {} THEN BirthBefore(i)
         ELSE CHOOSE c \in LastBirth(Size, m, i) : TRUE]

(* Game::Init with a custom map.                                             *)
AcceptMap(m) ==
    /\ game_status = "UNINIT"
    /\ Accepted(Size, m)
    /\ ReadMap(m)
    /\ game_status' = "WAIT_PLAYER"
    /\ source' = m
    /\ UNCHANGED <<config, refused>>

RefuseMap(m) ==
    /\ game_status = "UNINIT"
    /\ ~Accepted(Size, m)
    /\ refused < MaxRefused
    /\ ReadMap(m)
    /\ refused' = refused + 1
    /\ UNCHANGED <<config, game_status, source>>

(* Reset clears block_map_.                                                  *)
BlocksKept == 0

(* The births stay.                                                          *)
Reset ==
    /\ game_status' = "UNINIT"
    /\ map' = << >>
    /\ block_num' = BlocksKept
    /\ source' = NoMap
    /\ refused' = 0
    /\ UNCHANGED <<config, player_birth>>

Next ==
    \/ Generate
    \/ \E m \in CustomMaps : AcceptMap(m) \/ RefuseMap(m)
    \/ Reset

Spec == Init /\ [][Next]_vars

-----------------------------------------------------------------------------
(* Properties.                                                               *)

Ready == game_status = "WAIT_PLAYER"

Names(m, i) == \E c \in CellsOf(Size) : TokenAt(m, c) \in BirthToken
                                        /\ BirthIndex(TokenAt(m, c)) = i

(* The map names every birth, or none had to be named.                       *)
BirthsNamed == source = NoMap \/ \A i \in 0 .. 3 : Names(source, i)

(* Every variable has its type, and a match that waits for players has an    *)
(* Area in every cell, none of which lies outside the map (AddPlayer, PrintMap *)
(* and the actions dereference it): a map that was read half way is never    *)
(* played on.                                                                *)
MapTypeOK ==
    /\ config \in Configs
    /\ game_status \in {"UNINIT", "WAIT_PLAYER"}
    /\ DOMAIN map \subseteq CellsOf(Size)
    /\ \A c \in DOMAIN map : map[c] \in [block : Block, potion : PotionType]
    /\ block_num \in Nat
    /\ player_birth = << >> \/ player_birth \in [0 .. 3 -> CellsOf(Size)]
    /\ refused \in 0 .. MaxRefused
    /\ Ready => DOMAIN map = CellsOf(Size) /\ player_birth # << >>

(* Nothing of an earlier map, be it refused or played, is left in the cells  *)
(* of the next one, and of an earlier birth only what the map is silent on.  *)
NoResidue ==
    Ready /\ source # NoMap =>
        /\ \A c \in CellsOf(Size) : map[c] = AreaOf(TokenAt(source, c))
        /\ \A i \in 0 .. 3 :
             Names(source, i) => BirthIndex(TokenAt(source, player_birth[i])) = i

(* What GameAssumption of Game.tla demands of a layout: nobody is born on a  *)
(* block or on a potion, nor two on the same cell.  It holds of every        *)
(* generated map and of every custom map that names the four births.         *)
LayoutPlayable ==
    Ready /\ BirthsNamed =>
        /\ \A i \in 0 .. 3 : map[player_birth[i]] = AreaOf("_")
        /\ \A i, j \in 0 .. 3 : player_birth[i] = player_birth[j] => i = j
        /\ \A c \in CellsOf(Size) :
             map[c].block = NoBlock \/ map[c].potion = NoPotion

Neighbours(c) ==
    {<<c[1] + 1, c[2]>>, <<c[1] - 1, c[2]>>, <<c[1], c[2] + 1>>, <<c[1], c[2] - 1>>}

(* Everybody born on a generated map has two free cells next to him, for his *)
(* first bomb and for getting away from it, however the walls are drawn.     *)
BirthsOpen ==
    Ready /\ source = NoMap =>
        \A i \in 0 .. 3 :
            \A c \in Neighbours(player_birth[i]) \cap CellsOf(Size) :
                map[c].block = NoBlock

(* The number of blocks PrintMap prints is the number of blocks on the map,  *)
(* as long as no map was refused since the last Reset (nothing removes the   *)
(* blocks of a refused map from block_map_).                                 *)
BlocksCounted == Ready /\ refused = 0 => block_num = Cardinality(Blocks(map))

=============================================================================
