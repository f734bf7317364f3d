------------------------------ MODULE MapProofs -----------------------------
(* Every layout the engine can be started on, for every configuration and    *)
(* every custom map.                                                         *)
EXTENDS GameMap, FiniteSetTheorems, WellFoundedInduction, TLAPS

-----------------------------------------------------------------------------
(* Sizes and cells.                                                          *)

(* const.h makes every size odd and at least five.                           *)
LEMMA SizeOdd ==
    ASSUME NEW s \in Int
    PROVE  /\ MapSize(s) \in Nat
           /\ MapSize(s) >= 5
           /\ \E k \in Nat : MapSize(s) = 2 * k + 1
<1>1. s \div 2 \in Int
  OBVIOUS
<1>2. CASE 2 * (s \div 2) + 1 <= 21 /\ 2 * (s \div 2) + 1 >= 5
  <2>1. MapSize(s) = 2 * (s \div 2) + 1 /\ s \div 2 \in Nat
    BY <1>1, <1>2 DEF MapSize, AtLeast, AtMost
  <2> QED
    BY <1>1, <1>2, <2>1
<1>3. CASE 2 * (s \div 2) + 1 > 21
  <2>1. MapSize(s) = 2 * 10 + 1
    BY <1>1, <1>3 DEF MapSize, AtLeast, AtMost
  <2> QED
    BY <2>1
<1>4. CASE 2 * (s \div 2) + 1 < 5
  <2>1. MapSize(s) = 2 * 2 + 1
    BY <1>1, <1>4 DEF MapSize, AtLeast, AtMost
  <2> QED
    BY <2>1
<1> QED
  BY <1>1, <1>2, <1>3, <1>4

LEMMA CellsFinite ==
    ASSUME NEW n \in Nat, NEW S \in SUBSET CellsOf(n)
    PROVE  IsFiniteSet(S) /\ Cardinality(S) \in Nat
<1>1. IsFiniteSet(0 .. n - 1)
  BY FS_Interval
<1>2. IsFiniteSet(CellsOf(n))
  BY <1>1, FS_Product DEF CellsOf
<1> QED
  BY <1>2, FS_Subset, FS_CardinalityType

(* A cell is a pair of coordinates.                                          *)
LEMMA CellIsPair ==
    ASSUME NEW n \in Nat, NEW c \in CellsOf(n)
    PROVE  c[1] \in 0 .. n - 1 /\ c[2] \in 0 .. n - 1 /\ c = <<c[1], c[2]>>
BY DEF CellsOf

(* The corners are kept free, they and the cells next to them are no walls.  *)
LEMMA CornerFree ==
    ASSUME NEW n \in Nat, n >= 5, NEW k \in Nat, n = 2 * k + 1,
           NEW c \in Corners(n)
    PROVE  /\ c \in CellsOf(n)
           /\ c \in BirthZone(n)
           /\ c \notin FixedWalls(n)
           /\ c \notin RandomWalls(n)
<1>1. c[1] \in {0, n - 1} /\ c[2] \in {0, n - 1} /\ c = <<c[1], c[2]>>
  BY DEF Corners
<1>2. c \in CellsOf(n)
  BY <1>1 DEF CellsOf
<1>3. c \in BirthZone(n)
  BY <1>1, <1>2 DEF BirthZone, NearEdge
<1>4. 0 % 2 = 0 /\ (n - 1) % 2 = 0
  OBVIOUS
<1>5. c \notin FixedWalls(n)
  BY <1>1, <1>4 DEF FixedWalls
<1>6. n \div 2 = k
  OBVIOUS
<1>7. c \notin RandomWalls(n)
  BY <1>1, <1>6 DEF RandomWalls
<1> QED
  BY <1>2, <1>3, <1>5, <1>7

LEMMA NextToCornerFree ==
    ASSUME NEW n \in Nat, n >= 5, NEW k \in Nat, n = 2 * k + 1,
           NEW c \in Corners(n), NEW d \in Neighbours(c) \cap CellsOf(n)
    PROVE  /\ d \in BirthZone(n)
           /\ d \notin FixedWalls(n)
           /\ d \notin RandomWalls(n)
<1>1. c[1] \in {0, n - 1} /\ c[2] \in {0, n - 1}
  BY DEF Corners
<1>2. d[1] \in 0 .. n - 1 /\ d[2] \in 0 .. n - 1
  BY CellIsPair
<1>3. \/ d[1] \in {0, n - 1} /\ d[2] \in {1, n - 2}
      \/ d[2] \in {0, n - 1} /\ d[1] \in {1, n - 2}
  BY <1>1, <1>2 DEF Neighbours
<1>4. d \in BirthZone(n)
  BY <1>2, <1>3 DEF BirthZone, NearEdge
<1>5. 0 % 2 = 0 /\ (n - 1) % 2 = 0
  OBVIOUS
<1>6. d \notin FixedWalls(n)
  BY <1>3, <1>5 DEF FixedWalls
<1>7. n \div 2 = k
  OBVIOUS
<1>8. d \notin RandomWalls(n)
  BY <1>3, <1>7 DEF RandomWalls
<1> QED
  BY <1>4, <1>6, <1>8

-----------------------------------------------------------------------------
(* The generator.                                                            *)

(* What InitMap has drawn: walls that are fixed or may be drawn, and mud in  *)
(* cells that are neither walls nor near a birth.                            *)
LEMMA Drawn ==
    ASSUME config \in Config, Generate
    PROVE  \E walls \in SUBSET CellsOf(Size), mud \in SUBSET CellsOf(Size) :
             /\ walls \subseteq FixedWalls(Size) \cup RandomWalls(Size)
             /\ mud \cap BirthZone(Size) = {}
             /\ \E hidden \in [mud -> PotionType] :
                  map' = MapOf(Size, walls, hidden)
<1>1. PICK drawn \in Draws(config.wall_random, RandomWalls(Size)) :
        LET walls == FixedWalls(Size) \cup drawn
            rest  == CellsOf(Size) \ (walls \cup BirthZone(Size))
        IN \E mud \in Draws(config.mud_random, rest) :
             \E hidden \in [mud -> HiddenPotions(config.potion_probability)] :
               map' = MapOf(Size, walls, hidden)
  BY DEF Generate
<1> DEFINE walls == FixedWalls(Size) \cup drawn
           rest == CellsOf(Size) \ (walls \cup BirthZone(Size))
<1>2. PICK mud \in Draws(config.mud_random, rest) :
        \E hidden \in [mud -> HiddenPotions(config.potion_probability)] :
          map' = MapOf(Size, walls, hidden)
  BY <1>1
<1>3. PICK hidden \in [mud -> HiddenPotions(config.potion_probability)] :
        map' = MapOf(Size, walls, hidden)
  BY <1>2
<1>4. drawn \subseteq RandomWalls(Size)
  BY DEF Draws
<1>5. mud \subseteq rest
  BY DEF Draws
<1>6. walls \in SUBSET CellsOf(Size) /\ mud \in SUBSET CellsOf(Size)
  BY <1>4, <1>5 DEF FixedWalls, RandomWalls
<1>7. hidden \in [mud -> PotionType]
  <2>1. HiddenPotions(config.potion_probability) \subseteq PotionType
    BY MapAssumption DEF HiddenPotions
  <2> QED
    BY <2>1
<1> QED
  BY <1>3, <1>4, <1>5, <1>6, <1>7

LEMMA MapOfType ==
    ASSUME NEW n, NEW walls \in SUBSET CellsOf(n), NEW mud \in SUBSET CellsOf(n),
           NEW hidden \in [mud -> PotionType]
    PROVE  MapOf(n, walls, hidden) \in
             [CellsOf(n) -> [block : Block, potion : PotionType]]
<1> SUFFICES ASSUME NEW c \in CellsOf(n)
             PROVE  (IF c \in walls THEN Wall
                     ELSE IF c \in DOMAIN hidden THEN Mud(hidden[c]) ELSE NoBlock)
                       \in Block
  BY MapAssumption DEF MapOf
<1> QED
  BY DEF Block

(* The births are the four corners, each once.                               *)
LEMMA BirthsAreCorners ==
    ASSUME Generate
    PROVE  /\ player_birth' \in [0 .. 3 -> Corners(Size)]
           /\ \A i, j \in 0 .. 3 : player_birth'[i] = player_birth'[j] => i = j
BY DEF Generate, BirthsOf

(* A cell near a birth that is no wall is empty.                             *)
LEMMA FreeCell ==
    ASSUME config \in Config, Generate, NEW c \in BirthZone(Size),
           c \notin FixedWalls(Size), c \notin RandomWalls(Size)
    PROVE  map'[c] = [block |-> NoBlock, potion |-> NoPotion]
<1>1. PICK walls \in SUBSET CellsOf(Size), mud \in SUBSET CellsOf(Size) :
             /\ walls \subseteq FixedWalls(Size) \cup RandomWalls(Size)
             /\ mud \cap BirthZone(Size) = {}
             /\ \E hidden \in [mud -> PotionType] :
                  map' = MapOf(Size, walls, hidden)
  BY Drawn
<1>2. PICK hidden \in [mud -> PotionType] : map' = MapOf(Size, walls, hidden)
  BY <1>1
<1>3. c \in CellsOf(Size) /\ c \notin walls /\ c \notin DOMAIN hidden
  BY <1>1, <1>2 DEF BirthZone
<1> QED
  BY <1>2, <1>3 DEF MapOf

(* No block of a generated map lies on an open potion.                       *)
LEMMA NoOpenPotion ==
    ASSUME config \in Config, Generate, NEW c \in CellsOf(Size)
    PROVE  map'[c].potion = NoPotion
BY Drawn DEF MapOf

-----------------------------------------------------------------------------
(* The reader of custom maps.                                                *)

LEMMA OrderIsNat ==
    ASSUME NEW n \in Nat \ {0}, NEW c \in CellsOf(n)
    PROVE  Order(n, c) \in 0 .. (n - 1) * n + (n - 1)
<1>1. c[1] \in 0 .. n - 1 /\ c[2] \in 0 .. n - 1
  BY CellIsPair
<1>2. ASSUME NEW a \in 0 .. n - 1 PROVE a * n \in 0 .. (n - 1) * n
  <2>1. a * n \in Nat /\ (n - 1 - a) * n \in Nat
    OBVIOUS
  <2>2. (n - 1 - a) * n = (n - 1) * n - a * n
    OBVIOUS
  <2> QED
    BY <2>1, <2>2
<1>3. c[1] * n \in 0 .. (n - 1) * n
  BY <1>1, <1>2
<1> QED
  BY <1>1, <1>3 DEF Order

(* A cell that is read before the map is found to be wrong has a token.      *)
LEMMA ReadIsToken ==
    ASSUME NEW n \in Nat \ {0}, NEW m, NEW c \in ReadCells(n, m)
    PROVE  c \in CellsOf(n) /\ TokenAt(m, c) \in Token
<1>1. c \in CellsOf(n) /\ \A r \in Refusals(n, m) : Order(n, c) < r
  BY DEF ReadCells
<1>2. c[1] \in 0 .. n - 1 /\ c[2] \in 0 .. n - 1 /\ Order(n, c) \in Nat
  BY <1>1, CellIsPair, OrderIsNat
<1>3. Len(m) = n
  BY <1>1, <1>2 DEF Refusals
<1>4. Len(m[c[1] + 1]) = n
  <2>1. SUFFICES ASSUME Len(m[c[1] + 1]) # n PROVE FALSE
    OBVIOUS
  <2>2. Order(n, <<c[1], 0>>) \in Refusals(n, m)
    BY <1>2, <1>3, <2>1 DEF Refusals
  <2>3. Order(n, c) = Order(n, <<c[1], 0>>) + c[2] /\ c[1] * n \in Nat
    BY <1>2 DEF Order
  <2> QED
    BY <1>1, <1>2, <2>2, <2>3 DEF Order
<1>5. TokenAt(m, c) \in Token
  <2>1. SUFFICES ASSUME TokenAt(m, c) \notin Token PROVE FALSE
    OBVIOUS
  <2>2. Order(n, c) \in Refusals(n, m)
    BY <1>1, <1>3, <1>4, <2>1 DEF Refusals
  <2> QED
    BY <1>1, <1>2, <2>2
<1> QED
  BY <1>1, <1>5

(* The Area of a token of a custom map.                                      *)
LEMMA AreaOfToken ==
    ASSUME CustomMaps # {}, NEW t \in Token
    PROVE  /\ AreaOf(t) \in [block : Block, potion : PotionType]
           /\ AreaOf(t).block = NoBlock \/ AreaOf(t).potion = NoPotion
<1>1. CASE t \in PotionToken
  <2>1. t \notin {"9", "6"}
    BY <1>1 DEF PotionToken
  <2>2. AreaOf(t) = [block |-> NoBlock, potion |-> PotionByToken(t)]
    BY <1>1, <2>1 DEF AreaOf
  <2> QED
    BY <1>1, <2>2, TokenAssumption DEF Block
<1>2. CASE t \notin PotionToken
  <2>1. AreaOf(t).potion = NoPotion
    BY <1>2 DEF AreaOf
  <2>2. AreaOf(t).block \in Block
    BY MapAssumption DEF AreaOf, Block
  <2>3. AreaOf(t) = [block |-> AreaOf(t).block, potion |-> AreaOf(t).potion]
    BY DEF AreaOf
  <2> QED
    BY <2>1, <2>2, <2>3, MapAssumption
<1> QED
  BY <1>1, <1>2

(* A cell with a birth is empty, as is one with no token at all.             *)
LEMMA BirthIsEmpty ==
    ASSUME NEW t \in BirthToken
    PROVE  AreaOf(t) = AreaOf("_") /\ BirthIndex(t) \in 0 .. 3
BY DEF BirthToken, AreaOf, PotionToken, BirthIndex

LEMMA EmptyArea ==
    /\ AreaOf("_") = [block |-> NoBlock, potion |-> NoPotion]
    /\ AreaOf("_") \in [block : Block, potion : PotionType]
BY MapAssumption DEF AreaOf, PotionToken, Block

LEMMA LeastNat ==
    ASSUME NEW T \in SUBSET Nat, T # {}
    PROVE  \E x \in T : \A y \in T : x <= y
<1>1. PICK x \in T : \A y \in T : ~ (<<y, x>> \in OpToRel(<,Nat))
  BY NatLessThanWellFounded, WFMin
<1>2. \A y \in T : ~ (y < x)
  BY <1>1 DEF OpToRel
<1> QED
  BY <1>2

(* A birth that is read somewhere is read somewhere last.                    *)
LEMMA LastBirthExists ==
    ASSUME NEW n \in Nat \ {0}, NEW m, NEW i, NEW b \in ReadCells(n, m),
           TokenAt(m, b) \in BirthToken, BirthIndex(TokenAt(m, b)) = i
    PROVE  LastBirth(n, m, i) # {}
<1> DEFINE at == {c \in ReadCells(n, m) :
                    TokenAt(m, c) \in BirthToken /\ BirthIndex(TokenAt(m, c)) = i}
           last == (n - 1) * n + (n - 1)
           T == {last - Order(n, c) : c \in at}
<1>1. last \in Nat
  OBVIOUS
<1>2. \A c \in at : Order(n, c) \in 0 .. last
  BY OrderIsNat DEF ReadCells
<1> HIDE DEF last
<1>3. T \in SUBSET Nat /\ T # {}
  BY <1>1, <1>2
<1>4. PICK x \in T : \A y \in T : x <= y
  BY <1>3, LeastNat
<1>5. PICK c \in at : x = last - Order(n, c)
  BY <1>4
<1>6. ASSUME NEW d \in at PROVE Order(n, d) <= Order(n, c)
  <2>1. last - Order(n, d) \in T
    OBVIOUS
  <2>2. last - Order(n, c) <= last - Order(n, d)
    BY <1>4, <1>5, <2>1
  <2>3. Order(n, c) \in Nat /\ Order(n, d) \in Nat
    BY <1>2
  <2> QED
    BY <1>1, <2>2, <2>3
<1> QED
  BY <1>5, <1>6 DEF LastBirth

-----------------------------------------------------------------------------
(* The inductive invariant.  What ReadMap writes rests on the births it      *)
(* found, and the count of the blocks on an engine that has none before the  *)
(* first map after a Reset.                                                  *)

Births == [0 .. 3 -> CellsOf(Size)]

MapInv ==
    /\ MapTypeOK
    /\ NoResidue
    /\ LayoutPlayable
    /\ BirthsOpen
    /\ BlocksCounted
    /\ ~Ready /\ refused = 0 => map = << >> /\ block_num = 0

LEMMA SizeIsOdd ==
    ASSUME config \in Configs
    PROVE  /\ config \in Config
           /\ Size \in Nat \ {0}
           /\ Size >= 5
           /\ \E k \in Nat : Size = 2 * k + 1
<1>1. config \in Config
  BY MapAssumption
<1>2. config.map_size \in Int
  BY <1>1 DEF Config
<1> QED
  BY <1>1, <1>2, SizeOdd DEF Size

LEMMA MapInvInit == Init => MapInv
<1> SUFFICES ASSUME Init PROVE MapInv
  OBVIOUS
<1>1. ~Ready
  BY DEF Init, Ready
<1>2. MapTypeOK
  BY <1>1, MapAssumption DEF Init, MapTypeOK
<1> QED
  BY <1>1, <1>2 DEF Init, MapInv, NoResidue, LayoutPlayable, BirthsOpen, BlocksCounted

LEMMA GenerateKeeps ==
    ASSUME MapInv, Generate
    PROVE  MapInv'
<1>1. /\ config \in Config
      /\ Size \in Nat \ {0}
      /\ Size >= 5
      /\ \E k \in Nat : Size = 2 * k + 1
  BY SizeIsOdd DEF MapInv, MapTypeOK
<1>2. /\ config' = config /\ refused' = refused /\ source' = NoMap
      /\ block_num' = block_num + Cardinality(Blocks(map'))
      /\ game_status = "UNINIT" /\ game_status' = "WAIT_PLAYER"
  BY DEF Generate
<1>3. Size' = Size /\ Ready' /\ ~Ready
  BY <1>2 DEF Size, Ready
<1>4. map' \in [CellsOf(Size) -> [block : Block, potion : PotionType]]
  BY <1>1, Drawn, MapOfType
<1>5. /\ player_birth' \in [0 .. 3 -> Corners(Size)]
      /\ \A i, j \in 0 .. 3 : player_birth'[i] = player_birth'[j] => i = j
  BY BirthsAreCorners
<1>6. Corners(Size) \subseteq CellsOf(Size)
  BY <1>1, CornerFree
<1>7. player_birth' \in Births
  BY <1>5, <1>6 DEF Births
<1>8. Blocks(map') \in SUBSET CellsOf(Size) /\ Cardinality(Blocks(map')) \in Nat
  <2>1. Blocks(map') \in SUBSET CellsOf(Size)
    BY <1>4 DEF Blocks
  <2> QED
    BY <1>1, <2>1, CellsFinite
<1>9. MapTypeOK'
  <2>1. player_birth' # << >>
    BY <1>7 DEF Births
  <2>2. DOMAIN map' = CellsOf(Size)
        /\ \A c \in DOMAIN map' : map'[c] \in [block : Block, potion : PotionType]
    BY <1>4
  <2> QED
    BY <1>2, <1>3, <1>7, <1>8, <2>1, <2>2 DEF MapInv, MapTypeOK, Births
<1>10. NoResidue'
  BY <1>2 DEF NoResidue
<1>11. LayoutPlayable'
  <2>1. \A i \in 0 .. 3 : map'[player_birth'[i]] = AreaOf("_")
    <3> TAKE i \in 0 .. 3
    <3>1. player_birth'[i] \in Corners(Size)
      BY <1>5
    <3> QED
      BY <1>1, <3>1, CornerFree, FreeCell, EmptyArea
  <2>2. \A c \in CellsOf(Size) : map'[c].potion = NoPotion
    BY <1>1, NoOpenPotion
  <2> QED
    BY <1>3, <1>5, <2>1, <2>2 DEF LayoutPlayable
<1>12. BirthsOpen'
  <2>1. SUFFICES ASSUME NEW i \in 0 .. 3,
                        NEW c \in Neighbours(player_birth'[i]) \cap CellsOf(Size)
                 PROVE  map'[c].block = NoBlock
    BY <1>3 DEF BirthsOpen
  <2>2. player_birth'[i] \in Corners(Size)
    BY <1>5
  <2>3. c \in BirthZone(Size) /\ c \notin FixedWalls(Size) /\ c \notin RandomWalls(Size)
    BY <1>1, <2>2, NextToCornerFree
  <2> QED
    BY <1>1, <2>3, FreeCell
<1>13. BlocksCounted'
  BY <1>2, <1>3, <1>8 DEF MapInv, BlocksCounted
<1> QED
  BY <1>3, <1>9, <1>10, <1>11, <1>12, <1>13 DEF MapInv

(* What a map, accepted or refused, leaves behind.                           *)
LEMMA ReadKeeps ==
    ASSUME MapTypeOK, CustomMaps # {}, NEW m, ReadMap(m)
    PROVE  /\ DOMAIN map' \subseteq CellsOf(Size)
           /\ \A c \in DOMAIN map' : map'[c] \in [block : Block, potion : PotionType]
           /\ block_num' \in Nat
           /\ player_birth' \in Births
<1> DEFINE read == ReadCells(Size, m)
           made == read \cup RefusedCells(Size, m)
<1>1. Size \in Nat \ {0} /\ Size >= 5
  BY SizeIsOdd DEF MapTypeOK
<1>2. read \subseteq CellsOf(Size) /\ made \subseteq CellsOf(Size)
  BY DEF ReadCells, RefusedCells
<1>3. map' = [c \in DOMAIN map \cup made |->
                IF c \in made THEN NewArea(m, c) ELSE map[c]]
  BY DEF ReadMap
<1>4. ASSUME NEW c \in made PROVE NewArea(m, c) \in [block : Block, potion : PotionType]
  <2>1. CASE c \in read
    <3>1. TokenAt(m, c) \in Token
      BY <1>1, <2>1, ReadIsToken
    <3> QED
      BY <2>1, <3>1, AreaOfToken DEF NewArea
  <2>2. CASE c \notin read
    BY <2>2, EmptyArea DEF NewArea
  <2> QED
    BY <2>1, <2>2
<1>5. block_num' \in Nat
  <2>1. {c \in read : AreaOf(TokenAt(m, c)).block # NoBlock} \in SUBSET CellsOf(Size)
    BY <1>2
  <2>2. Cardinality({c \in read : AreaOf(TokenAt(m, c)).block # NoBlock}) \in Nat
    BY <1>1, <2>1, CellsFinite
  <2> QED
    BY <2>2 DEF ReadMap, MapTypeOK
<1>6. player_birth' \in Births
  <2>1. ASSUME NEW i \in 0 .. 3, LastBirth(Size, m, i) = {}
        PROVE  BirthBefore(i) \in CellsOf(Size)
    BY <1>1 DEF MapTypeOK, BirthBefore, CellsOf
  <2>2. ASSUME NEW i \in 0 .. 3, LastBirth(Size, m, i) # {}
        PROVE  (CHOOSE c \in LastBirth(Size, m, i) : TRUE) \in CellsOf(Size)
    <3>1. LastBirth(Size, m, i) \subseteq CellsOf(Size)
      BY <1>2 DEF LastBirth
    <3> QED
      BY <2>2, <3>1
  <2> QED
    BY <2>1, <2>2 DEF ReadMap, Births
<1>7. DOMAIN map' \subseteq CellsOf(Size)
  BY <1>2, <1>3 DEF MapTypeOK
<1>8. \A c \in DOMAIN map' : map'[c] \in [block : Block, potion : PotionType]
  BY <1>3, <1>4 DEF MapTypeOK
<1> QED
  BY <1>5, <1>6, <1>7, <1>8

(* The births a map names are where it names them.                           *)
LEMMA NamedBirths ==
    ASSUME MapTypeOK, NEW m, ReadMap(m), ReadCells(Size, m) = CellsOf(Size),
           NEW i \in 0 .. 3, Names(m, i)
    PROVE  /\ TokenAt(m, player_birth'[i]) \in BirthToken
           /\ BirthIndex(TokenAt(m, player_birth'[i])) = i
<1>1. Size \in Nat \ {0}
  BY SizeIsOdd DEF MapTypeOK
<1>2. LastBirth(Size, m, i) # {}
  BY <1>1, LastBirthExists DEF Names
<1>3. player_birth'[i] \in LastBirth(Size, m, i)
  BY <1>2 DEF ReadMap
<1> QED
  BY <1>3 DEF LastBirth

LEMMA AcceptKeeps ==
    ASSUME MapInv, NEW m \in CustomMaps, AcceptMap(m)
    PROVE  MapInv'
<1>1. Size \in Nat \ {0} /\ Size >= 5
  BY SizeIsOdd DEF MapInv, MapTypeOK
<1>2. /\ config' = config /\ refused' = refused /\ source' = m
      /\ game_status = "UNINIT" /\ game_status' = "WAIT_PLAYER"
      /\ ReadMap(m) /\ Refusals(Size, m) = {}
  BY DEF AcceptMap, Accepted
<1>3. Size' = Size /\ Ready' /\ ~Ready
  BY <1>2 DEF Size, Ready
<1>4. ReadCells(Size, m) = CellsOf(Size)
  BY <1>2 DEF ReadCells
<1>5. m # NoMap
  BY <1>1, <1>2 DEF Refusals, NoMap
<1>6. /\ DOMAIN map' \subseteq CellsOf(Size)
      /\ \A c \in DOMAIN map' : map'[c] \in [block : Block, potion : PotionType]
      /\ block_num' \in Nat
      /\ player_birth' \in Births
  BY <1>2, ReadKeeps DEF MapInv
<1>7. DOMAIN map' = CellsOf(Size)
      /\ \A c \in CellsOf(Size) : map'[c] = AreaOf(TokenAt(m, c))
  <2>1. ReadCells(Size, m) \cup RefusedCells(Size, m) = CellsOf(Size)
    BY <1>4 DEF RefusedCells
  <2> QED
    BY <1>2, <1>4, <2>1 DEF ReadMap, NewArea, MapInv, MapTypeOK
<1>8. MapTypeOK'
  <2>1. player_birth' # << >>
    BY <1>6 DEF Births
  <2> QED
    BY <1>2, <1>3, <1>6, <1>7, <2>1 DEF MapInv, MapTypeOK, Births
<1>9. NoResidue'
  <2>1. ASSUME NEW i \in 0 .. 3, Names(m, i)'
        PROVE  BirthIndex(TokenAt(m, player_birth'[i])) = i
    <3>1. Names(m, i)
      BY <1>3, <2>1 DEF Names
    <3> QED
      BY <1>2, <1>4, <3>1, NamedBirths DEF MapInv
  <2> QED
    BY <1>2, <1>3, <1>7, <2>1 DEF NoResidue
<1>10. LayoutPlayable'
  <2>1. SUFFICES ASSUME BirthsNamed' PROVE LayoutPlayable'
    BY DEF LayoutPlayable
  <2>2. \A i \in 0 .. 3 : Names(m, i)
    BY <1>2, <1>3, <1>5, <2>1 DEF BirthsNamed, Names
  <2>3. \A i \in 0 .. 3 : /\ TokenAt(m, player_birth'[i]) \in BirthToken
                          /\ BirthIndex(TokenAt(m, player_birth'[i])) = i
    BY <1>2, <1>4, <2>2, NamedBirths DEF MapInv
  <2>4. \A i \in 0 .. 3 : map'[player_birth'[i]] = AreaOf("_")
    BY <1>6, <1>7, <2>3, BirthIsEmpty DEF Births
  <2>5. \A c \in CellsOf(Size) :
          map'[c].block = NoBlock \/ map'[c].potion = NoPotion
    BY <1>1, <1>4, <1>7, ReadIsToken, AreaOfToken
  <2>6. \A i, j \in 0 .. 3 : player_birth'[i] = player_birth'[j] => i = j
    BY <2>3
  <2> QED
    BY <1>3, <2>4, <2>5, <2>6 DEF LayoutPlayable
<1>11. BirthsOpen'
  BY <1>2, <1>5 DEF BirthsOpen
<1>12. BlocksCounted'
  <2>1. SUFFICES ASSUME refused = 0 PROVE block_num' = Cardinality(Blocks(map'))
    BY <1>2 DEF BlocksCounted
  <2>2. block_num = 0
    BY <1>3, <2>1 DEF MapInv
  <2> DEFINE read == {c \in ReadCells(Size, m) :
                       AreaOf(TokenAt(m, c)).block # NoBlock}
  <2>3. read = Blocks(map')
    BY <1>4, <1>7 DEF Blocks
  <2>4. Cardinality(Blocks(map')) \in Nat
    <3>1. Blocks(map') \in SUBSET CellsOf(Size)
      BY <1>7 DEF Blocks
    <3> QED
      BY <1>1, <3>1, CellsFinite
  <2>5. block_num' = block_num + Cardinality(read)
    BY <1>2 DEF ReadMap
  <2> HIDE DEF read
  <2> QED
    BY <2>2, <2>3, <2>4, <2>5
<1> QED
  BY <1>3, <1>8, <1>9, <1>10, <1>11, <1>12 DEF MapInv

LEMMA RefuseKeeps ==
    ASSUME MapInv, NEW m \in CustomMaps, RefuseMap(m)
    PROVE  MapInv'
<1>1. /\ config' = config /\ refused' = refused + 1 /\ refused < MaxRefused
      /\ game_status = "UNINIT" /\ game_status' = game_status /\ ReadMap(m)
  BY DEF RefuseMap
<1>2. Size' = Size /\ ~Ready'
  BY <1>1 DEF Size, Ready
<1>3. /\ DOMAIN map' \subseteq CellsOf(Size)
      /\ \A c \in DOMAIN map' : map'[c] \in [block : Block, potion : PotionType]
      /\ block_num' \in Nat
      /\ player_birth' \in Births
  BY <1>1, ReadKeeps DEF MapInv
<1>4. refused' \in 0 .. MaxRefused /\ refused' # 0
  BY <1>1, MapAssumption DEF MapInv, MapTypeOK
<1>5. MapTypeOK'
  BY <1>1, <1>2, <1>3, <1>4 DEF MapInv, MapTypeOK, Births
<1> QED
  BY <1>2, <1>4, <1>5
  DEF MapInv, NoResidue, LayoutPlayable, BirthsOpen, BlocksCounted

LEMMA ResetKeeps ==
    ASSUME MapInv, Reset
    PROVE  MapInv'
<1>1. Size' = Size /\ ~Ready'
  BY DEF Reset, Size, Ready
<1>2. MapTypeOK'
  BY <1>1, MapAssumption DEF Reset, MapInv, MapTypeOK, BlocksKept
<1> QED
  BY <1>1, <1>2
  DEF Reset, BlocksKept, MapInv, NoResidue, LayoutPlayable, BirthsOpen, BlocksCounted

LEMMA MapInvAlways == Spec => []MapInv
<1>1. MapInv /\ UNCHANGED vars => MapInv'
  BY DEF MapInv, MapTypeOK, NoResidue, LayoutPlayable, BirthsOpen, BlocksCounted,
         Ready, BirthsNamed, Names, Size, vars
<1>2. MapInv /\ [Next]_vars => MapInv'
  BY <1>1, GenerateKeeps, AcceptKeeps, RefuseKeeps, ResetKeeps DEF Next
<1> QED
  BY <1>2, MapInvInit, PTL DEF Spec

(* Game::Init, both of them, and Reset: a match that waits for players has   *)
(* an Area in every cell and four births on the map.                         *)
THEOREM MapTypeCorrect == Spec => []MapTypeOK
<1>1. MapInv => MapTypeOK
  BY DEF MapInv
<1> QED
  BY <1>1, MapInvAlways, PTL

(* Game::InitCustomMap: a custom map is played as it is written, whatever    *)
(* was played or refused before it.                                          *)
THEOREM NoResidueCorrect == Spec => []NoResidue
<1>1. MapInv => NoResidue
  BY DEF MapInv
<1> QED
  BY <1>1, MapInvAlways, PTL

(* Game::InitMap and InitCustomMap make what Game.tla assumes of a layout,   *)
(* for every size, number of players and probability in the configuration.   *)
THEOREM LayoutPlayableCorrect == Spec => []LayoutPlayable
<1>1. MapInv => LayoutPlayable
  BY DEF MapInv
<1> QED
  BY <1>1, MapInvAlways, PTL

(* Game::InitMap: nobody is born into a trap, whatever is drawn.             *)
THEOREM BirthsOpenCorrect == Spec => []BirthsOpen
<1>1. MapInv => BirthsOpen
  BY DEF MapInv
<1> QED
  BY <1>1, MapInvAlways, PTL

(* Game::CreateBlock and Reset: the blocks are counted right.                *)
THEOREM BlocksCountedCorrect == Spec => []BlocksCounted
<1>1. MapInv => BlocksCounted
  BY DEF MapInv
<1> QED
  BY <1>1, MapInvAlways, PTL

=============================================================================
