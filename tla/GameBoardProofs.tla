-------------------------- MODULE GameBoardProofs ---------------------------
(* The safety of the game engine, proved for every configuration: the        *)
(* registers of bombs agree and their counters count, the players are where  *)
(* the map says and each of them dies at most once, the match they play is a *)
(* match of Match.tla, nothing shares a cell that must not, a chain reaction *)
(* is complete when it ends, and the marks of a match balance.               *)
EXTENDS GameProofs, GameMatch

-----------------------------------------------------------------------------
(* The registers of bombs.                                                   *)

(* Where no bomb comes, goes or moves the registers stay in agreement.       *)
LEMMA RegistryFrame ==
    ASSUME TypeOK, BombRegistry,
           Bombs' = Bombs,
           \A b \in Bombs : bomb_map'[b].pos = bomb_map[b].pos,
           bomb_id' = bomb_id
    PROVE  BombRegistry'
BY DEF BombRegistry

(* Steps that leave bomb_map and bomb_id alone.                              *)
LEMMA RegistryUnchanged ==
    ASSUME TypeOK, BombRegistry, UNCHANGED <<bomb_map, bomb_id>>
    PROVE  BombRegistry'
BY DEF BombRegistry, Bombs

(* A pushed bomb stays in its cell until the next flush.                     *)
LEMMA RegistryPushBomb ==
    ASSUME TypeOK, BombRegistry, NEW p \in PlayerId, NEW d \in Direction,
           PushBomb(p, d)
    PROVE  BombRegistry'
<1>1. bomb_map' = [bomb_map EXCEPT ![bomb_id[Target(p, d)]].status = CastStatus(d)]
  BY DEF PushBomb
<1>2. Bombs' = Bombs /\ \A b \in Bombs : bomb_map'[b].pos = bomb_map[b].pos
  BY <1>1 DEF TypeOK, Bombs, BombRecord
<1>3. QED BY <1>2, RegistryFrame DEF PushBomb, board

(* A bomb that stops stays in its cell.                                      *)
LEMMA RegistryStopBomb ==
    ASSUME TypeOK, BombRegistry, NEW b \in BombId, StopBomb(b)
    PROVE  BombRegistry'
<1>1. bomb_map' = [bomb_map EXCEPT ![b].status = "BOMB_SILENT"]
  BY DEF StopBomb
<1>2. Bombs' = Bombs /\ \A i \in Bombs : bomb_map'[i].pos = bomb_map[i].pos
  BY <1>1 DEF TypeOK, Bombs, BombRecord
<1>3. QED BY <1>2, RegistryFrame DEF StopBomb, board

(* A burning fuse moves no bomb.                                             *)
LEMMA RegistryBurnFuses ==
    ASSUME TypeOK, BombRegistry, BurnFuses
    PROVE  BombRegistry'
<1>1. bomb_map' = [b \in Bombs |-> [bomb_map[b] EXCEPT !.time = CountDown(@)]]
  BY DEF BurnFuses
<1>2. Bombs' = Bombs /\ \A i \in Bombs : bomb_map'[i].pos = bomb_map[i].pos
  BY <1>1 DEF TypeOK, Bombs, BombRecord
<1>3. QED BY <1>2, RegistryFrame DEF BurnFuses, board

(* A bomb is placed in a cell that has none.                                 *)
LEMMA RegistryPlaceBomb ==
    ASSUME TypeOK, BombRegistry, NEW p \in PlayerId, NEW b \in BombId,
           PlaceBomb(p, b)
    PROVE  BombRegistry'
<1> DEFINE pos == player_map[p].pos
<1>1. pos \in Cell /\ bomb_id[pos] = NoBomb
  BY DEF TypeOK, PlaceBomb, CanAct, MayPlace, Obstructed, PlayerRecord
<1>2. b \notin Bombs /\ Bombs' = Bombs \cup {b}
  BY DEF PlaceBomb, Bombs
<1>3. bomb_map'[b].pos = pos /\ \A i \in Bombs : bomb_map'[i] = bomb_map[i]
  BY <1>2 DEF PlaceBomb
<1>4. bomb_id' = [bomb_id EXCEPT ![pos] = b]
  BY DEF PlaceBomb
<1>5. \A i \in Bombs : bomb_map[i].pos # pos
  BY <1>1, GameAssumption DEF BombRegistry, TypeOK
<1>6. \A i \in Bombs : bomb_map[i].pos \in Cell
  BY DEF TypeOK, BombRecord
<1> HIDE DEF pos
<1>7. QED BY <1>1, <1>2, <1>3, <1>4, <1>5, <1>6 DEF BombRegistry, TypeOK

(* A bomb glides into a cell that has none and leaves none behind.           *)
LEMMA RegistryGlideBomb ==
    ASSUME TypeOK, BombRegistry, NEW b \in BombId, GlideBomb(b)
    PROVE  BombRegistry'
<1> DEFINE from == bomb_map[b].pos
           to   == NextPos(b)
<1>1. b \in Bombs /\ from \in Cell /\ to \in Cell /\ bomb_id[to] = NoBomb
  BY DEF TypeOK, GlideBomb, FreeForBomb, Obstructed, BombRecord
<1>2. bomb_map' = [bomb_map EXCEPT ![b].pos = to]
  BY DEF GlideBomb
<1>3. Bombs' = Bombs
  BY <1>2 DEF Bombs
<1>4. /\ bomb_map'[b].pos = to
      /\ \A i \in Bombs \ {b} : bomb_map'[i] = bomb_map[i]
  BY <1>1, <1>2 DEF TypeOK, Bombs, BombRecord
<1>5. bomb_id' = [bomb_id EXCEPT ![from] = NoBomb, ![to] = b]
  BY DEF GlideBomb
<1>6. bomb_id[from] = b /\ from # to
  BY <1>1, GameAssumption DEF BombRegistry
<1>7. \A i \in Bombs : bomb_map[i].pos \in Cell /\ bomb_id[bomb_map[i].pos] = i
  BY DEF TypeOK, BombRecord, BombRegistry
<1>8. \A c \in Cell : bomb_id[c] # NoBomb =>
        bomb_id[c] \in Bombs /\ bomb_map[bomb_id[c]].pos = c
  BY DEF BombRegistry
<1> HIDE DEF from, to
<1>9. \A c \in Cell : bomb_id'[c] = IF c = to THEN b
                                    ELSE IF c = from THEN NoBomb ELSE bomb_id[c]
  BY <1>1, <1>5, <1>6 DEF TypeOK
<1>10. \A i \in Bombs \ {b} : bomb_map[i].pos # from /\ bomb_map[i].pos # to
  BY <1>1, <1>6, <1>7, GameAssumption DEF TypeOK
<1>11. \A i \in Bombs : bomb_id'[bomb_map'[i].pos] = i
  BY <1>1, <1>4, <1>7, <1>9, <1>10
<1>12. \A c \in Cell : bomb_id'[c] # NoBomb =>
         bomb_id'[c] \in Bombs /\ bomb_map'[bomb_id'[c]].pos = c
  <2> SUFFICES ASSUME NEW c \in Cell, bomb_id'[c] # NoBomb
               PROVE  bomb_id'[c] \in Bombs /\ bomb_map'[bomb_id'[c]].pos = c
    OBVIOUS
  <2>1. CASE c = to
    BY <1>1, <1>4, <1>9, <2>1
  <2>2. CASE c # to
    <3>1. c # from /\ bomb_id'[c] = bomb_id[c]
      BY <1>9, <2>2
    <3>2. bomb_id[c] # b
      BY <1>1, <1>8, <3>1 DEF from
    <3>3. QED BY <1>4, <1>8, <3>1, <3>2
  <2>3. QED BY <2>1, <2>2
<1>13. QED BY <1>3, <1>11, <1>12 DEF BombRegistry

(* An explosion takes a bomb out of both registers.                          *)
LEMMA RegistryExplode ==
    ASSUME TypeOK, BombRegistry, Explode
    PROVE  BombRegistry'
<1> DEFINE b   == Head(bomb_que)
           pos == bomb_map[b].pos
<1>1. b \in Bombs /\ pos \in Cell /\ bomb_id[pos] = b
  BY DEF TypeOK, Explode, BombRecord, BombRegistry
<1>2. bomb_map' = [i \in Bombs \ {b} |-> bomb_map[i]]
  BY DEF Explode
<1>3. Bombs' = Bombs \ {b} /\ \A i \in Bombs \ {b} : bomb_map'[i] = bomb_map[i]
  BY <1>2 DEF Bombs
<1>4. bomb_id' = [bomb_id EXCEPT ![pos] = NoBomb]
  BY DEF Explode
<1>5. \A i \in Bombs : bomb_map[i].pos \in Cell
  BY DEF TypeOK, BombRecord
<1>6. \A i \in Bombs \ {b} : bomb_map[i].pos # pos
  BY <1>1 DEF BombRegistry
<1>7. \A c \in Cell : c # pos => bomb_id[c] # b
  BY <1>1, GameAssumption DEF BombRegistry, TypeOK
<1> HIDE DEF b, pos
<1>8. QED BY <1>1, <1>3, <1>4, <1>5, <1>6, <1>7 DEF BombRegistry, TypeOK

(* Every step keeps the registers in agreement.                              *)
LEMMA RegistryNext == TypeOK /\ BombRegistry /\ [Next]_vars => BombRegistry'
<1> SUFFICES ASSUME TypeOK, BombRegistry, [Next]_vars
             PROVE  BombRegistry'
  OBVIOUS
<1>1. ASSUME NEW p \in PlayerId, NEW d \in Direction,
             \/ PlaceRefused(p) \/ StaySilent(p) \/ AddPlayer(p)
             \/ MoveRefused(p, d) \/ MoveTo(p, d) \/ MeetOther(p)
      PROVE  BombRegistry'
  BY <1>1, RegistryUnchanged
     DEF PlaceRefused, StaySilent, AddPlayer, MoveRefused, MoveTo, MeetOther, board
<1>2. CASE \/ \E l \in Layouts : InitGame(l)
           \/ FlushTime \/ FinishMove \/ SkipExploded \/ FinishFlush
           \/ UNCHANGED vars
  BY <1>2, RegistryUnchanged
     DEF InitGame, FlushTime, FinishMove, SkipExploded, FinishFlush, vars, board
<1>3. CASE Reset
  BY <1>3 DEF Reset, BombRegistry, Bombs, EmptyMap
<1>4. "MOVE_UP" \in Direction
  BY DEF Direction
<1>5. CASE Call
  BY <1>1, <1>2, <1>3, <1>4, <1>5, RegistryPlaceBomb, RegistryPushBomb DEF Call
<1>6. CASE Continue
  BY <1>1, <1>2, <1>4, <1>6, RegistryGlideBomb, RegistryStopBomb, RegistryBurnFuses,
     RegistryExplode DEF Continue
<1>7. QED BY <1>2, <1>5, <1>6 DEF Next

(* The map entry of a bomb and the bomb_id of a cell always point at each    *)
(* other, whatever is placed, pushed, blocked or blown up, and in whichever  *)
(* order.                                                                    *)
THEOREM BombsRegistered == Spec => []BombRegistry
<1>1. Init => BombRegistry
  BY DEF Init, BombRegistry, Bombs, EmptyMap
<1>2. TypeOK /\ BombRegistry /\ [Next]_vars => BombRegistry'
  BY RegistryNext
<1>3. QED BY <1>1, <1>2, TypeCorrect, PTL DEF Spec

-----------------------------------------------------------------------------
(* The counters of bombs.                                                    *)

(* No counter changes and no limit falls.                                    *)
CountsKept ==
    /\ Joined' = Joined
    /\ \A p \in Joined :
         /\ player_map'[p].bomb_now_num = player_map[p].bomb_now_num
         /\ player_map'[p].bomb_max_num \in Int
         /\ player_map'[p].bomb_max_num >= player_map[p].bomb_max_num

(* No bomb comes, goes or changes hands.                                     *)
OwnersKept ==
    /\ Bombs' = Bombs
    /\ \A b \in Bombs : bomb_map'[b].player_id = bomb_map[b].player_id

(* The bombs of a player are a finite set.                                   *)
LEMMA BombsOfFinite ==
    ASSUME TypeOK, NEW p
    PROVE  IsFiniteSet(BombsOf(p)) /\ Cardinality(BombsOf(p)) \in Nat
BY GameAssumption, FS_Subset, FS_CardinalityType DEF TypeOK, BombsOf

(* Where neither counters nor owners change the accounts stay balanced.      *)
LEMMA AccountsFrame ==
    ASSUME TypeOK, BombAccounting, CountsKept, OwnersKept
    PROVE  BombAccounting'
<1>1. \A p : BombsOf(p)' = BombsOf(p)
  BY DEF BombsOf, OwnersKept
<1>2. \A p \in Joined : /\ player_map[p].bomb_now_num \in Int
                        /\ player_map[p].bomb_max_num \in Int
                        /\ player_map'[p].bomb_max_num >= player_map[p].bomb_max_num
  BY DEF TypeOK, PlayerRecord, CountsKept
<1>3. \A p \in Joined : Cardinality(BombsOf(p))' = Cardinality(BombsOf(p))
  BY <1>1
<1>4. \A b \in Bombs' : bomb_map'[b].player_id \in Joined'
  BY DEF BombAccounting, CountsKept, OwnersKept
<1>5. ASSUME NEW p \in Joined'
      PROVE  /\ player_map'[p].bomb_now_num = Cardinality(BombsOf(p))'
             /\ player_map'[p].bomb_now_num <= player_map'[p].bomb_max_num
  <2>1. /\ p \in Joined
        /\ player_map'[p].bomb_now_num = player_map[p].bomb_now_num
        /\ player_map'[p].bomb_max_num >= player_map[p].bomb_max_num
        /\ player_map'[p].bomb_max_num \in Int
    BY <1>5 DEF CountsKept
  <2>2. QED BY <1>2, <1>3, <2>1 DEF BombAccounting
<1>6. QED BY <1>4, <1>5 DEF BombAccounting

(* Steps that leave the records alone.                                       *)
LEMMA CountsUnchanged ==
    ASSUME TypeOK, UNCHANGED player_map
    PROVE  CountsKept
BY DEF TypeOK, CountsKept, Joined, PlayerRecord

(* Steps that leave the bombs alone.                                         *)
LEMMA OwnersUnchanged ==
    ASSUME UNCHANGED bomb_map
    PROVE  OwnersKept
BY DEF OwnersKept, Bombs

(* An operation that keeps the body of a record keeps the counters.          *)
LEMMA CountsBody ==
    ASSUME TypeOK', Joined' = Joined,
           \A p \in Joined : SameBody(player_map'[p], player_map[p])
    PROVE  CountsKept
BY DEF TypeOK, CountsKept, SameBody, PlayerRecord

(* Doing nothing keeps the body.                                             *)
LEMMA SameBodyRefl ==
    ASSUME NEW p \in PlayerRecord(Cell) PROVE SameBody(p, p)
BY DEF SameBody, PlayerRecord

(* A move changes a position.                                                *)
LEMMA CountsMoveTo ==
    ASSUME TypeOK, NEW p \in PlayerId, NEW d \in Direction, MoveTo(p, d)
    PROVE  CountsKept
<1>1. player_map' = [player_map EXCEPT ![p].pos = Target(p, d)]
  BY DEF MoveTo
<1>2. QED BY <1>1 DEF TypeOK, CountsKept, Joined, PlayerRecord

(* A meeting leaves the counters of both alone.                              *)
LEMMA CountsMeetOther ==
    ASSUME TypeOK, TypeOK', NEW o \in PlayerId, MeetOther(o)
    PROVE  CountsKept
<1> DEFINE met == Meet(player_map[mover], player_map[o])
<1>1. mover \in Joined /\ o \in Joined /\ mover # o
  BY DEF TypeOK, MeetOther
<1>2. SameBody(met.self, player_map[mover]) /\ SameBody(met.other, player_map[o])
  BY <1>1, MeetType DEF TypeOK
<1>3. player_map' = [player_map EXCEPT ![mover] = met.self, ![o] = met.other]
  BY DEF MeetOther
<1> HIDE DEF met
<1>4. /\ player_map'[mover] = met.self /\ player_map'[o] = met.other
      /\ \A p \in Joined \ {mover, o} : player_map'[p] = player_map[p]
      /\ Joined' = Joined
  BY <1>1, <1>3 DEF TypeOK, Joined
<1>5. \A p \in Joined : SameBody(player_map'[p], player_map[p])
  BY <1>2, <1>4, SameBodyRefl DEF TypeOK
<1>6. QED BY <1>4, <1>5, CountsBody

(* A potion may raise the limit of the one who drinks it.                    *)
LEMMA CountsFinishMove ==
    ASSUME TypeOK, TypeOK', FinishMove
    PROVE  CountsKept
<1> DEFINE picked == PickUp(player_map[mover], potion_type[player_map[mover].pos])
<1>1. mover \in Joined /\ player_map[mover] \in PlayerRecord(Cell)
  BY DEF TypeOK, FinishMove
<1>2. potion_type[player_map[mover].pos] \in PotionType
  BY <1>1 DEF TypeOK, PlayerRecord
<1>3. SameBody(picked, player_map[mover])
  BY <1>1, <1>2, PickUpType
<1>4. player_map' = [player_map EXCEPT ![mover] = picked]
  BY DEF FinishMove
<1> HIDE DEF picked
<1>5. /\ Joined' = Joined
      /\ \A p \in Joined : player_map'[p] = IF p = mover THEN picked ELSE player_map[p]
  BY <1>4 DEF TypeOK, Joined
<1>6. \A p \in Joined : SameBody(player_map'[p], player_map[p])
  BY <1>3, <1>5, SameBodyRefl DEF TypeOK
<1>7. QED BY <1>5, <1>6, CountsBody

(* The end of a round leaves the counters alone.                             *)
LEMMA CountsFinishFlush ==
    ASSUME TypeOK, TypeOK', FinishFlush
    PROVE  CountsKept
<1>1. player_map' = [p \in Joined |->
        IF p \in Alive THEN PlayerFlushTime(player_map[p]) ELSE player_map[p]]
  BY DEF FinishFlush
<1>2. \A p \in Joined : SameBody(PlayerFlushTime(player_map[p]), player_map[p])
  BY PlayerFlushTimeType DEF TypeOK
<1>3. \A p \in Joined : SameBody(player_map'[p], player_map[p])
  BY <1>1, <1>2, SameBodyRefl DEF TypeOK
<1>4. QED BY <1>1, <1>3, CountsBody DEF Joined

(* A player who arrives has no bombs.                                        *)
LEMMA AccountsAddPlayer ==
    ASSUME TypeOK, BombAccounting, NEW p \in PlayerId, AddPlayer(p)
    PROVE  BombAccounting'
<1> DEFINE pos == player_birth[Cardinality(Joined)]
<1>1. /\ p \notin Joined /\ Joined' = Joined \cup {p}
      /\ player_map'[p] = NewPlayer(pos)
      /\ \A q \in Joined : player_map'[q] = player_map[q]
  BY DEF AddPlayer, Joined
<1>2. NewPlayer(pos).bomb_now_num = 0 /\ NewPlayer(pos).bomb_max_num >= 0
  BY NewPlayerType
<1>3. UNCHANGED bomb_map
  BY DEF AddPlayer
<1>4. \A q : BombsOf(q)' = BombsOf(q)
  BY <1>3 DEF BombsOf, Bombs
<1>5. BombsOf(p) = {}
  BY <1>1 DEF BombsOf, BombAccounting
<1>6. Cardinality(BombsOf(p))' = 0
  BY <1>4, <1>5, FS_EmptySet
<1> HIDE DEF pos
<1>7. \A b \in Bombs' : bomb_map'[b].player_id \in Joined'
  BY <1>1, <1>3 DEF BombAccounting, Bombs
<1>8. \A q \in Joined : Cardinality(BombsOf(q))' = Cardinality(BombsOf(q))
  BY <1>4
<1>9. QED BY <1>1, <1>2, <1>6, <1>7, <1>8 DEF BombAccounting

(* A bomb is placed below the limit, and counted.                            *)
LEMMA AccountsPlaceBomb ==
    ASSUME TypeOK, BombAccounting, NEW p \in PlayerId, NEW b \in BombId,
           PlaceBomb(p, b)
    PROVE  BombAccounting'
<1>1. /\ p \in Joined /\ b \notin Bombs
      /\ player_map[p].bomb_now_num < player_map[p].bomb_max_num
  BY DEF PlaceBomb, CanAct, MayPlace
<1>2. Bombs' = Bombs \cup {b}
  BY DEF PlaceBomb, Bombs
<1>3. bomb_map'[b].player_id = p /\ \A i \in Bombs : bomb_map'[i] = bomb_map[i]
  BY <1>1 DEF PlaceBomb
<1>4. player_map' = [player_map EXCEPT ![p].bomb_now_num = @ + 1]
  BY DEF PlaceBomb
<1>5. /\ Joined' = Joined
      /\ \A q \in Joined \ {p} : player_map'[q] = player_map[q]
      /\ player_map'[p].bomb_now_num = player_map[p].bomb_now_num + 1
      /\ player_map'[p].bomb_max_num = player_map[p].bomb_max_num
  BY <1>1, <1>4 DEF TypeOK, PlayerRecord, Joined
<1>6. player_map[p].bomb_now_num \in Int /\ player_map[p].bomb_max_num \in Int
  BY <1>1 DEF TypeOK, PlayerRecord
<1>7. BombsOf(p)' = BombsOf(p) \cup {b} /\ b \notin BombsOf(p)
  BY <1>1, <1>2, <1>3 DEF BombsOf
<1>8. Cardinality(BombsOf(p))' = Cardinality(BombsOf(p)) + 1
  BY <1>7, BombsOfFinite, FS_AddElement
<1>9. \A q \in Joined \ {p} : BombsOf(q)' = BombsOf(q)
  BY <1>2, <1>3 DEF BombsOf
<1>10. \A q \in Joined \ {p} : Cardinality(BombsOf(q))' = Cardinality(BombsOf(q))
  BY <1>9
<1>11. \A i \in Bombs' : bomb_map'[i].player_id \in Joined'
  BY <1>1, <1>2, <1>3, <1>5 DEF BombAccounting
<1>12. player_map'[p].bomb_now_num <= player_map'[p].bomb_max_num
  BY <1>1, <1>5, <1>6
<1>13. \A q \in Joined' :
         /\ player_map'[q].bomb_now_num = Cardinality(BombsOf(q))'
         /\ player_map'[q].bomb_now_num <= player_map'[q].bomb_max_num
  BY <1>1, <1>5, <1>8, <1>10, <1>12 DEF BombAccounting
<1>14. QED BY <1>11, <1>13 DEF BombAccounting

(* A blast takes one bomb off its owner's count, whatever else it does to    *)
(* him, and leaves the counts of the others alone.                           *)
LEMMA AfterBlastCounts ==
    ASSUME TypeOK, NEW p \in Joined, NEW owner, NEW hit \in SUBSET Joined,
           NEW mud \in SUBSET Cell
    PROVE  LET r == AfterBlast(p, owner, hit, mud) IN
           /\ r.bomb_now_num =
                player_map[p].bomb_now_num - (IF p = owner THEN 1 ELSE 0)
           /\ r.bomb_max_num >= player_map[p].bomb_max_num
<1> DEFINE r == IF p \in hit THEN Injured(player_map[p]) ELSE player_map[p]
           spent == [r EXCEPT !.bomb_now_num = @ - 1]
           kills == {v \in hit \ {owner} : Killed(player_map[v])}
           earned == kMarkKill * Cardinality(kills) + kMarkBombMud * Cardinality(mud)
<1>1. r \in PlayerRecord(Cell) /\ SameBody(r, player_map[p])
  BY InjuredType, SameBodyRefl DEF TypeOK
<1>2. player_map[p].bomb_now_num \in Int /\ player_map[p].bomb_max_num \in Int
  BY DEF TypeOK, PlayerRecord
<1> HIDE DEF r
<1>3. /\ spent.bomb_now_num = r.bomb_now_num - 1
      /\ spent.bomb_max_num = r.bomb_max_num
  BY <1>1 DEF PlayerRecord
<1>4. /\ IncrMark(spent, earned).bomb_now_num = spent.bomb_now_num
      /\ IncrMark(spent, earned).bomb_max_num = spent.bomb_max_num
  <2> HIDE DEF earned
  <2> QED BY <1>1 DEF IncrMark, PlayerRecord
<1>5. AfterBlast(p, owner, hit, mud) = IF p # owner THEN r ELSE IncrMark(spent, earned)
  BY DEF AfterBlast, r
<1> HIDE DEF spent, earned
<1>6. QED BY <1>1, <1>2, <1>3, <1>4, <1>5 DEF SameBody

(* An explosion takes one bomb off the map and off its owner's count.        *)
LEMMA AccountsExplode ==
    ASSUME TypeOK, BombAccounting, Explode
    PROVE  BombAccounting'
<1> DEFINE b      == Head(bomb_que)
           struck == BlastCells(bomb_map[b].pos, bomb_map[b].range)
           mud    == {c \in Swept(bomb_map[b].pos, struck) : IsBombAble(c)}
           hit    == UNION {players[c] : c \in struck}
<1>0. PICK owner \in Joined : owner = bomb_map[b].player_id
  BY DEF Explode, BombAccounting
<1>1. b \in Bombs /\ bomb_map[b].pos \in Cell
  BY DEF TypeOK, Explode, BombRecord
<1>2. struck \subseteq Cell
  BY <1>1 DEF BlastCells, ArmCells
<1>3. mud \in SUBSET Cell /\ hit \in SUBSET Joined
  BY <1>2 DEF TypeOK, Swept
<1>4. player_map' = [p \in Joined |-> AfterBlast(p, owner, hit, mud)]
  BY <1>0 DEF Explode
<1>5. Joined' = Joined
  BY <1>4 DEF Joined
<1>6. bomb_map' = [i \in Bombs \ {b} |-> bomb_map[i]]
  BY DEF Explode
<1>7. Bombs' = Bombs \ {b} /\ \A i \in Bombs \ {b} : bomb_map'[i] = bomb_map[i]
  BY <1>6 DEF Bombs
<1> HIDE DEF mud, hit, struck
<1>8. \A p \in Joined :
        /\ player_map'[p].bomb_now_num =
             player_map[p].bomb_now_num - (IF p = owner THEN 1 ELSE 0)
        /\ player_map'[p].bomb_max_num >= player_map[p].bomb_max_num
  BY <1>3, <1>4, AfterBlastCounts
<1>9. BombsOf(owner)' = BombsOf(owner) \ {b} /\ b \in BombsOf(owner)
  BY <1>0, <1>1, <1>7 DEF BombsOf
<1>10. \A p \in Joined \ {owner} : BombsOf(p)' = BombsOf(p)
  BY <1>0, <1>1, <1>7 DEF BombsOf
<1> HIDE DEF b
<1>11. Cardinality(BombsOf(owner))' = Cardinality(BombsOf(owner)) - 1
  BY <1>9, BombsOfFinite, FS_RemoveElement
<1>12. \A p \in Joined \ {owner} : Cardinality(BombsOf(p))' = Cardinality(BombsOf(p))
  BY <1>10
<1>13. ASSUME NEW p \in Joined
       PROVE  /\ player_map'[p].bomb_now_num = Cardinality(BombsOf(p))'
              /\ player_map'[p].bomb_now_num <= player_map'[p].bomb_max_num
  <2>1. /\ player_map[p].bomb_now_num = Cardinality(BombsOf(p))
        /\ player_map[p].bomb_now_num <= player_map[p].bomb_max_num
        /\ player_map[p].bomb_now_num \in Int
        /\ player_map[p].bomb_max_num \in Int
    BY DEF BombAccounting, TypeOK, PlayerRecord
  <2>2. player_map'[p].bomb_max_num \in Int
    <3>1. TypeOK'
      BY TypeExplode
    <3>2. QED BY <1>5, <3>1 DEF TypeOK, PlayerRecord
  <2>3. QED BY <1>8, <1>11, <1>12, <2>1, <2>2
<1>14. \A i \in Bombs' : bomb_map'[i].player_id \in Joined'
  BY <1>5, <1>7 DEF BombAccounting
<1>15. QED BY <1>5, <1>13, <1>14 DEF BombAccounting

(* Every step keeps the accounts balanced.                                   *)
LEMMA AccountsNext == TypeOK /\ BombAccounting /\ [Next]_vars => BombAccounting'
<1> SUFFICES ASSUME TypeOK, BombAccounting, [Next]_vars
             PROVE  BombAccounting'
  OBVIOUS
<1>0. TypeOK'
  BY TypeNext
<1>1. ASSUME CountsKept, UNCHANGED bomb_map
      PROVE  BombAccounting'
  BY <1>1, OwnersUnchanged, AccountsFrame
<1>2. ASSUME OwnersKept, UNCHANGED player_map
      PROVE  BombAccounting'
  BY <1>2, CountsUnchanged, AccountsFrame
<1>3. ASSUME UNCHANGED <<player_map, bomb_map>>
      PROVE  BombAccounting'
  BY <1>1, <1>3, CountsUnchanged
<1>4. ASSUME NEW p \in PlayerId, NEW d \in Direction, PushBomb(p, d)
      PROVE  BombAccounting'
  <2>1. bomb_map' = [bomb_map EXCEPT ![bomb_id[Target(p, d)]].status = CastStatus(d)]
    BY <1>4 DEF PushBomb
  <2>2. OwnersKept
    BY <2>1 DEF OwnersKept, TypeOK, Bombs, BombRecord
  <2>3. QED BY <1>2, <1>4, <2>2 DEF PushBomb
<1>5. ASSUME NEW b \in BombId, GlideBomb(b) \/ StopBomb(b)
      PROVE  BombAccounting'
  <2>1. ASSUME bomb_map' = [bomb_map EXCEPT ![b].pos = NextPos(b)]
        PROVE  OwnersKept
    BY <2>1 DEF OwnersKept, TypeOK, Bombs, BombRecord
  <2>2. ASSUME bomb_map' = [bomb_map EXCEPT ![b].status = "BOMB_SILENT"]
        PROVE  OwnersKept
    BY <2>2 DEF OwnersKept, TypeOK, Bombs, BombRecord
  <2>3. OwnersKept
    BY <1>5, <2>1, <2>2 DEF GlideBomb, StopBomb
  <2>4. QED BY <1>2, <1>5, <2>3 DEF GlideBomb, StopBomb
<1>6. CASE BurnFuses
  <2>1. bomb_map' = [b \in Bombs |-> [bomb_map[b] EXCEPT !.time = CountDown(@)]]
    BY <1>6 DEF BurnFuses
  <2>2. OwnersKept
    BY <2>1 DEF OwnersKept, TypeOK, Bombs, BombRecord
  <2>3. QED BY <1>2, <1>6, <2>2 DEF BurnFuses
<1>7. ASSUME NEW p \in PlayerId, NEW d \in Direction,
             PlaceRefused(p) \/ StaySilent(p) \/ MoveRefused(p, d)
      PROVE  BombAccounting'
  BY <1>3, <1>7 DEF PlaceRefused, StaySilent, MoveRefused, board
<1>8. ASSUME NEW p \in PlayerId, NEW d \in Direction, MoveTo(p, d)
      PROVE  BombAccounting'
  BY <1>1, <1>8, CountsMoveTo DEF MoveTo
<1>9. ASSUME NEW o \in PlayerId, MeetOther(o)
      PROVE  BombAccounting'
  BY <1>0, <1>1, <1>9, CountsMeetOther DEF MeetOther
<1>10. CASE FinishMove
  BY <1>0, <1>1, <1>10, CountsFinishMove DEF FinishMove
<1>11. CASE FinishFlush
  BY <1>0, <1>1, <1>11, CountsFinishFlush DEF FinishFlush
<1>12. CASE \/ \E l \in Layouts : InitGame(l)
            \/ FlushTime \/ SkipExploded \/ UNCHANGED vars
  BY <1>3, <1>12 DEF InitGame, FlushTime, SkipExploded, vars
<1>13. CASE Reset
  BY <1>13 DEF Reset, BombAccounting, Bombs, Joined
<1>14. "MOVE_UP" \in Direction
  BY DEF Direction
<1>15. CASE Call
  BY <1>4, <1>7, <1>8, <1>12, <1>13, <1>14, <1>15, AccountsAddPlayer,
     AccountsPlaceBomb DEF Call
<1>16. CASE Continue
  BY <1>5, <1>6, <1>9, <1>10, <1>11, <1>12, <1>16, AccountsExplode DEF Continue
<1>17. QED BY <1>12, <1>15, <1>16 DEF Next

(* The counter that limits a player's bombs counts exactly his bombs on the  *)
(* map and stays within the limit, over deaths, pushes, chains and resets;   *)
(* and the owner of every bomb is a player of the match.                     *)
THEOREM BombsAccounted == Spec => []BombAccounting
<1>1. Init => BombAccounting
  BY DEF Init, BombAccounting, Bombs, Joined
<1>2. TypeOK /\ BombAccounting /\ [Next]_vars => BombAccounting'
  BY AccountsNext
<1>3. QED BY <1>1, <1>2, TypeCorrect, PTL DEF Spec

-----------------------------------------------------------------------------
(* Pushed bombs.                                                             *)

(* No silent bomb is set in motion.                                          *)
NonePushed ==
    \A b \in Bombs \cap DOMAIN bomb_map' :
        \/ bomb_map'[b].status = bomb_map[b].status
        \/ bomb_map'[b].status = "BOMB_SILENT"

(* A player and the bomb he pushes displace in the same direction.           *)
LEMMA CastAgrees ==
    ASSUME NEW d \in Direction
    PROVE  BombDelta(CastStatus(d)) = MoveDelta(d)
BY DEF Direction, CastStatus, MoveDelta, BombDelta

(* The bomb that is pushed lies next to the one who pushes it, on the side   *)
(* he is pushing to.                                                         *)
LEMMA PushedBy ==
    ASSUME TypeOK, BombRegistry, NEW p \in PlayerId, NEW d \in Direction,
           PushBomb(p, d), NEW b \in Bombs,
           bomb_map'[b].status # bomb_map[b].status
    PROVE  /\ p \in Alive /\ player_map[p].has_gloves
           /\ Shift(player_map[p].pos, BombDelta(bomb_map'[b].status), 1)
                = bomb_map[b].pos
<1> DEFINE to == Target(p, d)
<1>1. /\ p \in Alive /\ player_map[p].has_gloves
      /\ to \in Cell /\ bomb_id[to] # NoBomb
  BY DEF PushBomb, CanAct, Pushable, Alive
<1>2. bomb_id[to] \in Bombs /\ bomb_map[bomb_id[to]].pos = to
  BY <1>1 DEF BombRegistry
<1>3. bomb_map' = [bomb_map EXCEPT ![bomb_id[to]].status = CastStatus(d)]
  BY DEF PushBomb
<1>4. to = Shift(player_map[p].pos, MoveDelta(d), 1)
  BY DEF Target
<1> HIDE DEF to
<1>5. b = bomb_id[to] /\ bomb_map'[b].status = CastStatus(d)
  BY <1>2, <1>3 DEF TypeOK, Bombs, BombRecord
<1>6. QED BY <1>1, <1>2, <1>4, <1>5, CastAgrees

(* Nothing else sets a bomb in motion.                                       *)
LEMMA OthersPushNone ==
    ASSUME TypeOK, [Next]_vars
    PROVE  NonePushed \/ \E p \in PlayerId, d \in Direction : PushBomb(p, d)
<1>1. ASSUME UNCHANGED bomb_map
      PROVE  NonePushed
  BY <1>1 DEF NonePushed
<1>2. ASSUME NEW p \in PlayerId, NEW b \in BombId, PlaceBomb(p, b)
      PROVE  NonePushed
  BY <1>2 DEF PlaceBomb, NonePushed
<1>3. ASSUME NEW b \in BombId, GlideBomb(b)
      PROVE  NonePushed
  <2>1. bomb_map' = [bomb_map EXCEPT ![b].pos = NextPos(b)]
    BY <1>3 DEF GlideBomb
  <2>2. QED BY <2>1 DEF NonePushed, TypeOK, Bombs, BombRecord
<1>4. ASSUME NEW b \in BombId, StopBomb(b)
      PROVE  NonePushed
  <2>1. bomb_map' = [bomb_map EXCEPT ![b].status = "BOMB_SILENT"]
    BY <1>4 DEF StopBomb
  <2>2. QED BY <2>1 DEF NonePushed, TypeOK, Bombs, BombRecord
<1>5. CASE BurnFuses
  <2>1. bomb_map' = [b \in Bombs |-> [bomb_map[b] EXCEPT !.time = CountDown(@)]]
    BY <1>5 DEF BurnFuses
  <2>2. QED BY <2>1 DEF NonePushed, TypeOK, Bombs, BombRecord
<1>6. CASE Explode
  BY <1>6 DEF Explode, NonePushed
<1>7. CASE Reset
  BY <1>7 DEF Reset, NonePushed
<1>8. ASSUME NEW p \in PlayerId, NEW d \in Direction,
             \/ AddPlayer(p) \/ PlaceRefused(p) \/ StaySilent(p)
             \/ MoveRefused(p, d) \/ MoveTo(p, d) \/ MeetOther(p)
      PROVE  NonePushed
  BY <1>1, <1>8
     DEF AddPlayer, PlaceRefused, StaySilent, MoveRefused, MoveTo, MeetOther
<1>9. CASE \/ \E l \in Layouts : InitGame(l)
           \/ FlushTime \/ FinishMove \/ SkipExploded \/ FinishFlush
           \/ UNCHANGED vars
  BY <1>1, <1>9
     DEF InitGame, FlushTime, FinishMove, SkipExploded, FinishFlush, vars
<1>10. "MOVE_UP" \in Direction
  BY DEF Direction
<1>11. CASE Call
  BY <1>2, <1>7, <1>8, <1>9, <1>10, <1>11 DEF Call
<1>12. CASE Continue
  BY <1>3, <1>4, <1>5, <1>6, <1>8, <1>9, <1>10, <1>12 DEF Continue
<1>13. QED BY <1>9, <1>11, <1>12 DEF Next

(* A bomb that is set in motion moves away from a living player with gloves  *)
(* on the opposite side: the two enumerations DealMoveAction casts between   *)
(* agree, and no other operation of the engine sets a bomb in motion.        *)
THEOREM BombsPushedAway == Spec => PushedAway
<1> DEFINE Away ==
      \A b \in Bombs \cap DOMAIN bomb_map' :
         /\ bomb_map[b].status = "BOMB_SILENT"
         /\ bomb_map'[b].status # "BOMB_SILENT"
         => \E p \in Alive :
              /\ player_map[p].has_gloves
              /\ Shift(player_map[p].pos, BombDelta(bomb_map'[b].status), 1)
                   = bomb_map[b].pos
<1>1. TypeOK /\ BombRegistry /\ [Next]_vars => [Away]_vars
  <2> SUFFICES ASSUME TypeOK, BombRegistry, [Next]_vars
               PROVE  Away
    OBVIOUS
  <2>1. CASE NonePushed
    BY <2>1 DEF NonePushed
  <2>2. CASE \E p \in PlayerId, d \in Direction : PushBomb(p, d)
    BY <2>2, PushedBy
  <2>3. QED BY <2>1, <2>2, OthersPushNone
<1>2. QED BY <1>1, TypeCorrect, BombsRegistered, PTL DEF Spec, PushedAway

-----------------------------------------------------------------------------
(* Almost every step leaves the players where they are and lets them age.    *)

Ageing ==
    /\ Joined' = Joined
    /\ \A p \in Joined : Aged(player_map'[p], player_map[p])

(* Nobody's place or life changes.                                           *)
Kept ==
    /\ Joined' = Joined
    /\ \A p \in Joined : /\ player_map'[p].pos = player_map[p].pos
                         /\ player_map'[p].status = player_map[p].status

(* Where the records stay, everybody ages.                                   *)
LEMMA AgeUnchanged ==
    ASSUME UNCHANGED player_map
    PROVE  Ageing /\ Kept
BY DEF Ageing, Kept, Aged, Joined

(* Placing a bomb changes only the counter of the one who places it.         *)
LEMMA AgePlaceBomb ==
    ASSUME TypeOK, NEW p \in PlayerId, NEW b \in BombId, PlaceBomb(p, b)
    PROVE  Ageing /\ Kept
<1>1. player_map' = [player_map EXCEPT ![p].bomb_now_num = @ + 1]
  BY DEF PlaceBomb
<1>2. Joined' = Joined
  BY <1>1 DEF Joined
<1>3. \A q \in Joined : /\ player_map'[q].pos = player_map[q].pos
                        /\ player_map'[q].status = player_map[q].status
                        /\ player_map'[q].HP = player_map[q].HP
                        /\ player_map'[q].mark = player_map[q].mark
  BY <1>1 DEF TypeOK, PlayerRecord, Joined
<1>4. QED BY <1>2, <1>3, AgedSame DEF Ageing, Kept

(* A meeting ages the two who meet.                                          *)
LEMMA AgeMeetOther ==
    ASSUME TypeOK, NEW o \in PlayerId, MeetOther(o)
    PROVE  Ageing
<1> DEFINE met == Meet(player_map[mover], player_map[o])
<1>1. mover \in Joined /\ o \in Joined /\ mover # o
  BY DEF TypeOK, MeetOther
<1>2. Aged(met.self, player_map[mover]) /\ Aged(met.other, player_map[o])
  BY <1>1, MeetAges DEF TypeOK
<1>3. player_map' = [player_map EXCEPT ![mover] = met.self, ![o] = met.other]
  BY DEF MeetOther
<1> HIDE DEF met
<1>4. Joined' = Joined
  BY <1>3 DEF Joined
<1>5. /\ player_map'[mover] = met.self /\ player_map'[o] = met.other
      /\ \A p \in Joined \ {mover, o} : player_map'[p] = player_map[p]
  BY <1>1, <1>3 DEF TypeOK, Joined
<1>6. \A p \in Joined : Aged(player_map[p], player_map[p])
  BY DEF Aged
<1>7. \A p \in Joined : Aged(player_map'[p], player_map[p])
  BY <1>2, <1>5, <1>6
<1>8. QED BY <1>4, <1>7 DEF Ageing

(* The pickup ages the mover.                                                *)
LEMMA AgeFinishMove ==
    ASSUME TypeOK, FinishMove
    PROVE  Ageing /\ Kept
<1> DEFINE picked == PickUp(player_map[mover], potion_type[player_map[mover].pos])
<1>1. mover \in Joined /\ player_map[mover] \in PlayerRecord(Cell)
  BY DEF TypeOK, FinishMove
<1>2. potion_type[player_map[mover].pos] \in PotionType
  BY <1>1 DEF TypeOK, PlayerRecord
<1>3. /\ Aged(picked, player_map[mover])
      /\ picked.pos = player_map[mover].pos
      /\ picked.status = player_map[mover].status
  BY <1>1, <1>2, PickUpAges, PickUpType DEF SameBody
<1>4. player_map' = [player_map EXCEPT ![mover] = picked]
  BY DEF FinishMove
<1> HIDE DEF picked
<1>5. Joined' = Joined
  BY <1>4 DEF Joined
<1>6. \A p \in Joined : player_map'[p] = IF p = mover THEN picked ELSE player_map[p]
  BY <1>4 DEF TypeOK, Joined
<1>7. \A p \in Joined : Aged(player_map[p], player_map[p])
  BY DEF Aged
<1>8. Ageing
  BY <1>3, <1>5, <1>6, <1>7 DEF Ageing
<1>9. Kept
  BY <1>3, <1>5, <1>6 DEF Kept
<1>10. QED BY <1>8, <1>9

(* A blast ages those it hits; its owner earns and never loses by it.        *)
LEMMA AfterBlastAges ==
    ASSUME TypeOK, NEW p \in Joined, NEW owner, NEW hit \in SUBSET Joined,
           NEW mud \in SUBSET Cell
    PROVE  Aged(AfterBlast(p, owner, hit, mud), player_map[p])
<1> DEFINE r == IF p \in hit THEN Injured(player_map[p]) ELSE player_map[p]
           spent == [r EXCEPT !.bomb_now_num = @ - 1]
           kills == {v \in hit \ {owner} : Killed(player_map[v])}
           earned == kMarkKill * Cardinality(kills) + kMarkBombMud * Cardinality(mud)
<1>1. r \in PlayerRecord(Cell) /\ Aged(r, player_map[p])
  BY InjuredType, InjuredAges DEF TypeOK, Aged
<1>2. spent \in PlayerRecord(Cell) /\ Aged(spent, r)
  <2> HIDE DEF r
  <2> QED BY <1>1, AgedSame DEF PlayerRecord
<1>3. earned \in Nat
  <2>1. Cardinality(kills) \in Nat
    BY JoinedFinite, FS_Subset, FS_CardinalityType DEF TypeOK
  <2>2. Cardinality(mud) \in Nat
    BY CellFinite, FS_Subset, FS_CardinalityType
  <2>3. kMarkKill \in Nat /\ kMarkBombMud \in Nat
    BY PlayerAssumption
  <2>4. \A m, n \in Nat : m * n \in Nat
    OBVIOUS
  <2>5. QED
    <3> HIDE DEF kills
    <3> QED BY <2>1, <2>2, <2>3, <2>4
<1>4. Aged(IncrMark(spent, earned), spent)
  <2> HIDE DEF spent, earned
  <2> QED BY <1>2, <1>3, IncrMarkAges
<1>5. Aged(IncrMark(spent, earned), player_map[p])
  <2> HIDE DEF r, spent, earned
  <2> QED BY <1>1, <1>2, <1>4, AgedTwice
<1>6. QED BY <1>1, <1>5 DEF AfterBlast

(* So an explosion ages everybody.                                           *)
LEMMA AgeExplode ==
    ASSUME TypeOK, Explode
    PROVE  Ageing
<1> DEFINE b      == Head(bomb_que)
           struck == BlastCells(bomb_map[b].pos, bomb_map[b].range)
           mud    == {c \in Swept(bomb_map[b].pos, struck) : IsBombAble(c)}
           hit    == UNION {players[c] : c \in struck}
           owner  == bomb_map[b].player_id
<1>1. b \in Bombs /\ bomb_map[b].pos \in Cell
  BY DEF TypeOK, Explode, BombRecord
<1>2. struck \subseteq Cell
  BY <1>1 DEF BlastCells, ArmCells
<1>3. mud \subseteq Cell
  BY <1>2 DEF Swept
<1>4. hit \subseteq Joined
  BY <1>2 DEF TypeOK
<1>5. player_map' = [p \in Joined |-> AfterBlast(p, owner, hit, mud)]
  BY DEF Explode
<1>6. \A p \in Joined : Aged(AfterBlast(p, owner, hit, mud), player_map[p])
  BY <1>3, <1>4, AfterBlastAges
<1> HIDE DEF hit, mud, owner
<1>7. QED BY <1>5, <1>6 DEF Ageing, Joined

(* The end of a round ages the living.                                       *)
LEMMA AgeFinishFlush ==
    ASSUME TypeOK, FinishFlush
    PROVE  Ageing /\ Kept
<1>1. player_map' = [p \in Joined |->
        IF p \in Alive THEN PlayerFlushTime(player_map[p]) ELSE player_map[p]]
  BY DEF FinishFlush
<1>2. Joined' = Joined
  BY <1>1 DEF Joined
<1>3. \A p \in Joined : /\ Aged(PlayerFlushTime(player_map[p]), player_map[p])
                        /\ Aged(player_map[p], player_map[p])
  BY PlayerFlushTimeAges DEF TypeOK, Aged
<1>4. \A p \in Joined :
        /\ PlayerFlushTime(player_map[p]).pos = player_map[p].pos
        /\ PlayerFlushTime(player_map[p]).status = player_map[p].status
  BY PlayerFlushTimeType DEF TypeOK, SameBody
<1>5. QED BY <1>1, <1>2, <1>3, <1>4 DEF Ageing, Kept

(* Every step but the arrival of a player, a move and the end of the match   *)
(* ages everybody.                                                           *)
LEMMA AgeNext ==
    ASSUME TypeOK, [Next]_vars
    PROVE  \/ Ageing
           \/ \E p \in PlayerId : AddPlayer(p)
           \/ \E p \in PlayerId, d \in Direction : MoveTo(p, d)
           \/ Reset
<1>1. ASSUME NEW p \in PlayerId, NEW d \in Direction,
             PlaceRefused(p) \/ StaySilent(p) \/ PushBomb(p, d) \/ MoveRefused(p, d)
      PROVE  Ageing
  BY <1>1, AgeUnchanged DEF PlaceRefused, StaySilent, PushBomb, MoveRefused
<1>2. ASSUME NEW b \in BombId, GlideBomb(b) \/ StopBomb(b)
      PROVE  Ageing
  BY <1>2, AgeUnchanged DEF GlideBomb, StopBomb
<1>3. CASE \/ \E l \in Layouts : InitGame(l)
           \/ FlushTime \/ BurnFuses \/ SkipExploded \/ UNCHANGED vars
  BY <1>3, AgeUnchanged DEF InitGame, FlushTime, BurnFuses, SkipExploded, vars
<1>4. "MOVE_UP" \in Direction
  BY DEF Direction
<1>5. CASE Call
  BY <1>1, <1>3, <1>4, <1>5, AgePlaceBomb DEF Call
<1>6. CASE Continue
  BY <1>2, <1>3, <1>6, AgeMeetOther, AgeFinishMove, AgeExplode, AgeFinishFlush
     DEF Continue
<1>7. QED BY <1>3, <1>5, <1>6 DEF Next

-----------------------------------------------------------------------------
(* Nobody dies twice.                                                        *)

(* A player who arrives is alive and owes nothing.                           *)
LEMMA OnceAddPlayer ==
    ASSUME TypeOK, \A q \in Joined : Once(player_map[q]),
           NEW p \in PlayerId, AddPlayer(p)
    PROVE  \A q \in Joined' : Once(player_map'[q])
<1> DEFINE pos == player_birth[Cardinality(Joined)]
<1>1. player_map' = [q \in Joined \cup {p} |->
                       IF q = p THEN NewPlayer(pos) ELSE player_map[q]]
  BY DEF AddPlayer
<1>2. Once(NewPlayer(pos))
  BY NewPlayerOnce
<1> HIDE DEF pos
<1>3. QED BY <1>1, <1>2 DEF Joined

(* Who moves stays as alive as he is.                                        *)
LEMMA OnceMoveTo ==
    ASSUME TypeOK, \A q \in Joined : Once(player_map[q]),
           NEW p \in PlayerId, NEW d \in Direction, MoveTo(p, d)
    PROVE  \A q \in Joined' : Once(player_map'[q])
<1>1. player_map' = [player_map EXCEPT ![p].pos = Target(p, d)]
  BY DEF MoveTo
<1>2. Joined' = Joined
  BY <1>1 DEF Joined
<1>3. \A q \in Joined : /\ player_map'[q].status = player_map[q].status
                        /\ player_map'[q].HP = player_map[q].HP
                        /\ player_map'[q].mark = player_map[q].mark
  BY <1>1 DEF TypeOK, PlayerRecord, Joined
<1>4. QED BY <1>2, <1>3 DEF Once, IsDead

(* Exactly the dead have no hit point left, nobody is hit after his death    *)
(* and marks are lost only by dying, once: a player may be struck by any     *)
(* number of bombs and met by any number of invincible players in one call.  *)
THEOREM DiesAtMostOnce == Spec => []DiesOnce
<1> DEFINE AllOnce == \A p \in Joined : Once(player_map[p])
<1>1. Init => AllOnce
  BY DEF Init, Joined
<1>2. TypeOK /\ AllOnce /\ [Next]_vars => AllOnce'
  <2> SUFFICES ASSUME TypeOK, AllOnce, [Next]_vars
               PROVE  \A p \in Joined' : Once(player_map'[p])
    BY DEF Once, IsDead
  <2>1. CASE Ageing
    BY <2>1 DEF Ageing, Aged
  <2>2. CASE \E p \in PlayerId : AddPlayer(p)
    BY <2>2, OnceAddPlayer
  <2>3. CASE \E p \in PlayerId, d \in Direction : MoveTo(p, d)
    BY <2>3, OnceMoveTo
  <2>4. CASE Reset
    BY <2>4 DEF Reset, Joined
  <2>5. QED BY <2>1, <2>2, <2>3, <2>4, AgeNext
<1>3. AllOnce => DiesOnce
  BY DEF Once, DiesOnce
<1> HIDE DEF AllOnce
<1>4. QED BY <1>1, <1>2, <1>3, TypeCorrect, PTL DEF Spec

-----------------------------------------------------------------------------
(* Players stand where the map says.                                         *)

(* A step that leaves the map of players alone may only kill.  A call that   *)
(* ends without cleaning the map has killed nobody.                          *)
LEMMA PlacementFrame ==
    ASSUME TypeOK, PlayerPlacement, Ageing, UNCHANGED players,
           phase' = "idle" => Kept /\ phase = "idle"
    PROVE  PlayerPlacement'
<1>1. \A p \in Joined : /\ player_map'[p].pos = player_map[p].pos
                        /\ IsDead(player_map[p]) => IsDead(player_map'[p])
  BY DEF Ageing, Aged
<1>2. Alive' \subseteq Alive
  BY <1>1 DEF Alive, Ageing
<1>3. \A c \in Cell : players[c] \subseteq Joined
  BY DEF TypeOK
<1>4. Kept => Alive' = Alive
  BY DEF Kept, Alive, IsDead
<1>5. \A p \in Alive : p \in players[player_map[p].pos]
  BY DEF PlayerPlacement
<1>6. \A p \in Alive' : p \in players'[player_map'[p].pos]
  BY <1>1, <1>2, <1>5 DEF Alive
<1>7. QED BY <1>1, <1>3, <1>4, <1>6 DEF PlayerPlacement

(* A call that ends with cleaning the map leaves exactly the living on it.   *)
LEMMA PlacementClean ==
    ASSUME TypeOK, PlayerPlacement, Kept, players' = CleanDead(players, player_map)
    PROVE  PlayerPlacement'
<1>1. \A c \in Cell : players'[c] =
        players[c] \ {p \in Joined : IsDead(player_map[p]) /\ player_map[p].pos = c}
  BY DEF CleanDead, Joined
<1>2. \A c \in Cell : players[c] \subseteq Joined
  BY DEF TypeOK
<1>3. Alive' = Alive
  BY DEF Kept, Alive, IsDead
<1>4. \A p \in Alive : p \in Joined /\ ~IsDead(player_map[p]) /\ player_map[p].pos \in Cell
  BY DEF Alive, TypeOK, PlayerRecord
<1>5. \A p \in Alive : p \in players'[player_map[p].pos]
  BY <1>1, <1>4 DEF PlayerPlacement
<1>6. \A c \in Cell : players'[c] \subseteq Alive
  BY <1>1, <1>2 DEF PlayerPlacement, Alive
<1>7. \A c \in Cell : \A p \in players'[c] : player_map[p].pos = c
  BY <1>1 DEF PlayerPlacement
<1>8. QED BY <1>3, <1>4, <1>5, <1>6, <1>7 DEF PlayerPlacement, Kept, Alive

(* A player who arrives is registered at his birth.                          *)
LEMMA PlacementAddPlayer ==
    ASSUME TypeOK, TypeOK', PlayerPlacement, NEW p \in PlayerId, AddPlayer(p)
    PROVE  PlayerPlacement'
<1> DEFINE pos == player_birth[Cardinality(Joined)]
<1>1. /\ p \notin Joined /\ Joined' = Joined \cup {p} /\ phase = "idle"
      /\ players' = [players EXCEPT ![pos] = @ \cup {p}]
  BY DEF AddPlayer, Joined
<1>2. player_map'[p] = NewPlayer(pos) /\ \A q \in Joined : player_map'[q] = player_map[q]
  BY DEF AddPlayer
<1>3. pos \in Cell
  <2>1. Cardinality(Joined) \in 0 .. 3
    BY GameAssumption, JoinedFinite DEF TypeOK, AddPlayer
  <2>2. QED BY <2>1 DEF TypeOK
<1>4. NewPlayer(pos).pos = pos /\ ~IsDead(NewPlayer(pos))
  BY <1>3, NewPlayerType
<1>5. \A c \in Cell : players[c] \subseteq Joined
  BY DEF TypeOK
<1> HIDE DEF pos
<1>6. \A c \in Cell : players'[c] = IF c = pos THEN players[c] \cup {p} ELSE players[c]
  BY <1>1, <1>3 DEF TypeOK
<1>7. Alive' = Alive \cup {p}
  BY <1>1, <1>2, <1>4 DEF Alive
<1>8. \A q \in Alive : q \in Joined /\ player_map[q].pos \in Cell
  BY DEF Alive, TypeOK, PlayerRecord
<1>9. \A c \in Cell : \A q \in players'[c] : player_map'[q].pos = c
  BY <1>1, <1>2, <1>4, <1>5, <1>6 DEF PlayerPlacement
<1>10. \A q \in Alive' : q \in players'[player_map'[q].pos]
  <2>1. \A q \in Alive : q \in players[player_map[q].pos]
    BY DEF PlayerPlacement
  <2>2. \A q \in Alive : q \in players'[player_map'[q].pos]
    BY <1>2, <1>6, <1>8, <2>1
  <2>3. p \in players'[player_map'[p].pos]
    BY <1>2, <1>3, <1>4, <1>6
  <2>4. QED BY <1>7, <2>2, <2>3
<1>11. \A c \in Cell : players'[c] \subseteq Alive'
  BY <1>1, <1>6, <1>7 DEF PlayerPlacement
<1>12. QED BY <1>9, <1>10, <1>11 DEF PlayerPlacement

(* The mover leaves one cell and is registered in the other.                 *)
LEMMA PlacementMoveTo ==
    ASSUME TypeOK, PlayerPlacement, NEW p \in PlayerId, NEW d \in Direction,
           MoveTo(p, d)
    PROVE  PlayerPlacement'
<1> DEFINE from == player_map[p].pos
           to   == Target(p, d)
<1>1. p \in Joined /\ from \in Cell /\ to \in Cell /\ phase' = "meet"
  BY DEF MoveTo, CanAct, TypeOK, PlayerRecord
<1>2. player_map' = [player_map EXCEPT ![p].pos = to]
  BY DEF MoveTo
<1>3. Joined' = Joined
  BY <1>2 DEF Joined
<1>4. /\ player_map'[p].pos = to
      /\ \A q \in Joined : player_map'[q].status = player_map[q].status
      /\ \A q \in Joined \ {p} : player_map'[q].pos = player_map[q].pos
  BY <1>1, <1>2 DEF TypeOK, PlayerRecord, Joined
<1>5. players' = [players EXCEPT ![from] = @ \ {p}, ![to] = @ \cup {p}]
  BY DEF MoveTo
<1>6. \A c \in Cell : \A q \in players[c] : q \in Joined /\ player_map[q].pos = c
  BY DEF TypeOK, PlayerPlacement
<1>7. \A q \in Alive : /\ q \in Joined /\ player_map[q].pos \in Cell
                       /\ q \in players[player_map[q].pos]
  BY DEF Alive, TypeOK, PlayerRecord, PlayerPlacement
<1>8. Alive' = Alive
  BY <1>3, <1>4 DEF Alive, IsDead
<1>9. \A q \in players[from] : q # p => player_map[q].pos = from
  BY <1>1, <1>6
<1>10. \A c \in Cell : p \in players[c] => c = from
  BY <1>6
<1> HIDE DEF from, to
<1>11. \A c \in Cell :
         /\ p \in players'[c] <=> c = to
         /\ \A q : q # p => (q \in players'[c] <=> q \in players[c])
  BY <1>1, <1>5, <1>10 DEF TypeOK
<1>12. \A c \in Cell : \A q \in players'[c] : player_map'[q].pos = c
  BY <1>4, <1>6, <1>11
<1>13. \A q \in Alive' : q \in players'[player_map'[q].pos]
  BY <1>1, <1>4, <1>7, <1>8, <1>11
<1>14. QED BY <1>1, <1>12, <1>13 DEF PlayerPlacement

(* Every step keeps the players in their places.                             *)
LEMMA PlacementNext == TypeOK /\ PlayerPlacement /\ [Next]_vars => PlayerPlacement'
<1> SUFFICES ASSUME TypeOK, PlayerPlacement, [Next]_vars
             PROVE  PlayerPlacement'
  OBVIOUS
<1>0. TypeOK'
  BY TypeNext
<1>1. ASSUME NEW p \in PlayerId, NEW d \in Direction,
             PlaceRefused(p) \/ PushBomb(p, d) \/ MoveRefused(p, d)
      PROVE  PlayerPlacement'
  BY <1>1, AgeUnchanged, PlacementFrame
     DEF PlaceRefused, PushBomb, MoveRefused, CanAct, board
<1>2. ASSUME NEW p \in PlayerId,
             StaySilent(p) \/ \E b \in BombId : PlaceBomb(p, b)
      PROVE  PlayerPlacement'
  BY <1>2, AgePlaceBomb, AgeUnchanged, PlacementClean DEF PlaceBomb, StaySilent
<1>3. ASSUME NEW b \in BombId, GlideBomb(b) \/ StopBomb(b)
      PROVE  PlayerPlacement'
  BY <1>3, AgeUnchanged, PlacementFrame DEF GlideBomb, StopBomb, board
<1>4. CASE \/ \E l \in Layouts : InitGame(l)
           \/ FlushTime \/ BurnFuses \/ SkipExploded \/ UNCHANGED vars
  BY <1>4, AgeUnchanged, PlacementFrame
     DEF InitGame, FlushTime, BurnFuses, SkipExploded, vars, board
<1>5. CASE Reset
  BY <1>5 DEF Reset, PlayerPlacement, Alive, Joined, EmptyMap
<1>6. ASSUME NEW o \in PlayerId, MeetOther(o)
      PROVE  PlayerPlacement'
  BY <1>6, AgeMeetOther, PlacementFrame DEF MeetOther, board
<1>7. CASE Explode
  BY <1>7, AgeExplode, PlacementFrame DEF Explode
<1>8. CASE FinishMove
  <2>1. Kept
    BY <1>8, AgeFinishMove
  <2>2. players' = CleanDead(players, player_map')
    BY <1>8 DEF FinishMove
  <2>3. players' = CleanDead(players, player_map)
    BY <2>1, <2>2 DEF CleanDead, Kept, Joined, IsDead
  <2>4. QED BY <2>1, <2>3, PlacementClean
<1>9. CASE FinishFlush
  BY <1>9, AgeFinishFlush, PlacementClean DEF FinishFlush
<1>10. "MOVE_UP" \in Direction
  BY DEF Direction
<1>11. CASE Call
  BY <1>0, <1>1, <1>2, <1>4, <1>5, <1>10, <1>11, PlacementAddPlayer, PlacementMoveTo
     DEF Call
<1>12. CASE Continue
  BY <1>3, <1>4, <1>6, <1>7, <1>8, <1>9, <1>12 DEF Continue
<1>13. QED BY <1>4, <1>11, <1>12 DEF Next

(* A living player is registered in the cell he stands on and nowhere else,  *)
(* and when a call has returned no dead player is registered anywhere.       *)
THEOREM PlayersPlaced == Spec => []PlayerPlacement
<1>1. Init => PlayerPlacement
  BY DEF Init, PlayerPlacement, Alive, Joined, EmptyMap
<1>2. TypeOK /\ PlayerPlacement /\ [Next]_vars => PlayerPlacement'
  BY PlacementNext
<1>3. QED BY <1>1, <1>2, TypeCorrect, PTL DEF Spec

-----------------------------------------------------------------------------
(* The dead are left in peace.                                               *)

(* Only marks and the number of bombs differ.                                *)
Frozen(r, p) ==
    r = [p EXCEPT !.mark = r.mark, !.bomb_now_num = r.bomb_now_num]

DeadStayFrozen ==
    \A p \in Dead : p \notin Joined' \/ Frozen(player_map'[p], player_map[p])

(* Who is left alone is frozen.                                              *)
LEMMA FrozenRefl ==
    ASSUME NEW p \in PlayerRecord(Cell) PROVE Frozen(p, p)
BY DEF Frozen, PlayerRecord

(* The blast of another bomb and the marks it earns leave a dead player      *)
(* frozen.                                                                   *)
LEMMA AfterBlastFrozen ==
    ASSUME TypeOK, NEW p \in Dead, NEW owner, NEW hit, NEW mud
    PROVE  Frozen(AfterBlast(p, owner, hit, mud), player_map[p])
<1> DEFINE kills == {v \in hit \ {owner} : Killed(player_map[v])}
           earned == kMarkKill * Cardinality(kills) + kMarkBombMud * Cardinality(mud)
           spent == [player_map[p] EXCEPT !.bomb_now_num = @ - 1]
<1>1. player_map[p] \in PlayerRecord(Cell) /\ IsDead(player_map[p])
  BY DEF Dead, Alive, TypeOK
<1>2. Injured(player_map[p]) = player_map[p]
  BY <1>1, InjuredDead
<1>3. AfterBlast(p, owner, hit, mud) =
        IF p # owner THEN player_map[p] ELSE IncrMark(spent, earned)
  BY <1>2 DEF AfterBlast
<1> HIDE DEF earned
<1>4. Frozen(IncrMark(spent, earned), player_map[p])
  BY <1>1 DEF Frozen, IncrMark, PlayerRecord
<1>5. QED BY <1>1, <1>3, <1>4, FrozenRefl

(* A dead player is frozen in every step but those of a move, in which he    *)
(* may have died.                                                            *)
LEMMA FrozenNext ==
    ASSUME TypeOK, [Next]_vars, phase = "idle" \/ game_status = "FLUSHING"
    PROVE  DeadStayFrozen
<1> USE DEF DeadStayFrozen
<1>1. \A p \in Dead : /\ player_map[p] \in PlayerRecord(Cell)
                      /\ p \in Joined /\ IsDead(player_map[p])
  BY DEF Dead, Alive, TypeOK
<1>2. ASSUME \A p \in Dead : player_map'[p] = player_map[p]
      PROVE  DeadStayFrozen
  BY <1>1, <1>2, FrozenRefl
<1>3. ASSUME UNCHANGED player_map
      PROVE  DeadStayFrozen
  BY <1>2, <1>3
<1>4. ASSUME NEW p \in PlayerId, AddPlayer(p)
      PROVE  DeadStayFrozen
  BY <1>1, <1>2, <1>4 DEF AddPlayer
<1>5. ASSUME NEW p \in PlayerId, NEW b \in BombId, PlaceBomb(p, b)
      PROVE  DeadStayFrozen
  <2>1. player_map' = [player_map EXCEPT ![p].bomb_now_num = @ + 1] /\ p \notin Dead
    BY <1>1, <1>5 DEF PlaceBomb, CanAct
  <2>2. QED BY <1>1, <1>2, <2>1 DEF TypeOK
<1>6. ASSUME NEW p \in PlayerId, NEW d \in Direction, MoveTo(p, d)
      PROVE  DeadStayFrozen
  <2>1. player_map' = [player_map EXCEPT ![p].pos = Target(p, d)] /\ p \notin Dead
    BY <1>1, <1>6 DEF MoveTo, CanAct
  <2>2. QED BY <1>1, <1>2, <2>1 DEF TypeOK
<1>7. CASE Reset
  BY <1>7 DEF Reset, Joined
<1>8. CASE Explode
  <2> DEFINE b      == Head(bomb_que)
             struck == BlastCells(bomb_map[b].pos, bomb_map[b].range)
             mud    == {c \in Swept(bomb_map[b].pos, struck) : IsBombAble(c)}
             hit    == UNION {players[c] : c \in struck}
             owner  == bomb_map[b].player_id
  <2>1. player_map' = [p \in Joined |-> AfterBlast(p, owner, hit, mud)]
    BY <1>8 DEF Explode
  <2> HIDE DEF owner, hit, mud
  <2>2. \A p \in Dead : Frozen(player_map'[p], player_map[p])
    BY <1>1, <2>1, AfterBlastFrozen
  <2>3. QED BY <2>2
<1>9. CASE FinishFlush
  BY <1>1, <1>2, <1>9 DEF FinishFlush, Dead
<1>10. ASSUME NEW p \in PlayerId, NEW d \in Direction,
              \/ PlaceRefused(p) \/ StaySilent(p)
              \/ PushBomb(p, d) \/ MoveRefused(p, d)
       PROVE  DeadStayFrozen
  BY <1>3, <1>10 DEF PlaceRefused, StaySilent, PushBomb, MoveRefused
<1>11. CASE \/ \E l \in Layouts : InitGame(l)
            \/ \E b \in BombId : GlideBomb(b) \/ StopBomb(b)
            \/ FlushTime \/ BurnFuses \/ SkipExploded \/ UNCHANGED vars
  BY <1>3, <1>11
     DEF InitGame, GlideBomb, StopBomb, FlushTime, BurnFuses, SkipExploded, vars
<1>12. ~FinishMove /\ \A o \in PlayerId : ~MeetOther(o)
  BY DEF TypeOK, FinishMove, MeetOther
<1>13. "MOVE_UP" \in Direction
  BY DEF Direction
<1>14. CASE Call
  BY <1>4, <1>5, <1>6, <1>7, <1>10, <1>11, <1>13, <1>14 DEF Call
<1>15. CASE Continue
  BY <1>8, <1>9, <1>11, <1>12, <1>15 DEF Continue
<1>16. QED BY <1>11, <1>14, <1>15 DEF Next

(* Once the call in which he died has returned a dead player neither moves   *)
(* nor heals nor gains an ability; his bombs go on to earn him marks.        *)
THEOREM TheDeadAreFrozen == Spec => DeadFrozen
<1>1. TypeOK /\ [Next]_vars =>
        [\A p \in Dead :
           phase = "idle" \/ game_status = "FLUSHING" =>
             p \notin Joined' \/
             player_map'[p] = [player_map[p] EXCEPT
                                 !.mark = player_map'[p].mark,
                                 !.bomb_now_num = player_map'[p].bomb_now_num]]_vars
  BY FrozenNext DEF DeadStayFrozen, Frozen
<1>2. QED BY <1>1, TypeCorrect, PTL DEF Spec, DeadFrozen

-----------------------------------------------------------------------------
(* The engine implements the match.                                          *)

(* The match counts as the engine does.                                      *)
LEMMA LifecycleCardinality ==
    ASSUME NEW S PROVE Lifecycle!Cardinality(S) = Cardinality(S)
BY DEF Lifecycle!Cardinality, Cardinality

(* No round starts after the last one, and winners are known only at the     *)
(* end.                                                                      *)
Bounded ==
    /\ win_players_id # {} => game_status = "GAME_OVER"
    /\ game_status \in {"UNINIT", "WAIT_PLAYER"} => game_now_round = 0
    /\ game_status = "WAIT_ACTION" => game_now_round <= kGameDefaultMaxRound

(* Every step keeps the bounds.                                              *)
LEMMA BoundedNext ==
    ASSUME TypeOK, Bounded, [Next]_vars
    PROVE  Bounded'
<1> USE DEF Bounded
<1>1. ASSUME UNCHANGED match
      PROVE  Bounded'
  BY <1>1 DEF match
<1>2. ASSUME NEW l \in Layouts, InitGame(l)
      PROVE  Bounded'
  BY <1>2 DEF InitGame
<1>3. ASSUME NEW p \in PlayerId, AddPlayer(p)
      PROVE  Bounded'
  BY <1>3, GameAssumption DEF AddPlayer
<1>4. CASE Reset
  BY <1>4 DEF Reset
<1>5. CASE FlushTime
  BY <1>5 DEF FlushTime
<1>6. CASE FinishFlush
  <2>1. /\ game_status' = IF GameOver THEN "GAME_OVER" ELSE "WAIT_ACTION"
        /\ win_players_id' = IF GameOver THEN Winners ELSE {}
        /\ game_now_round' = game_now_round
    BY <1>6 DEF FinishFlush
  <2>2. ~GameOver => game_now_round <= kGameDefaultMaxRound
    BY GameAssumption DEF GameOver, TypeOK
  <2>3. QED BY <2>1, <2>2
<1>7. ASSUME NEW p \in PlayerId, NEW d \in Direction,
             \/ \E b \in BombId : PlaceBomb(p, b)
             \/ PlaceRefused(p) \/ StaySilent(p) \/ MeetOther(p)
             \/ PushBomb(p, d) \/ MoveRefused(p, d) \/ MoveTo(p, d)
      PROVE  Bounded'
  BY <1>1, <1>7
     DEF PlaceBomb, PlaceRefused, StaySilent, MeetOther, PushBomb, MoveRefused,
         MoveTo
<1>8. CASE \/ \E b \in BombId : GlideBomb(b) \/ StopBomb(b)
           \/ FinishMove \/ BurnFuses \/ Explode \/ SkipExploded \/ UNCHANGED vars
  BY <1>1, <1>8
     DEF GlideBomb, StopBomb, FinishMove, BurnFuses, Explode, SkipExploded, vars
<1>9. "MOVE_UP" \in Direction
  BY DEF Direction
<1>10. CASE Call
  BY <1>2, <1>3, <1>4, <1>5, <1>7, <1>9, <1>10 DEF Call
<1>11. CASE Continue
  BY <1>6, <1>7, <1>8, <1>9, <1>11 DEF Continue
<1>12. QED BY <1>8, <1>10, <1>11 DEF Next

(* Init opens the match.                                                     *)
LEMMA StepInitGame ==
    ASSUME NEW l \in Layouts, InitGame(l)
    PROVE  Lifecycle!Open
BY DEF InitGame, Lifecycle!Open, Joined, Alive

(* A player joins it.                                                        *)
LEMMA StepAddPlayer ==
    ASSUME TypeOK, NEW p \in PlayerId, AddPlayer(p)
    PROVE  Lifecycle!Join(p)
<1> DEFINE pos == player_birth[Cardinality(Joined)]
<1>1. /\ p \notin Joined /\ Joined' = Joined \cup {p}
      /\ player_map'[p] = NewPlayer(pos)
      /\ \A q \in Joined : player_map'[q] = player_map[q]
  BY DEF AddPlayer, Joined
<1>2. ~IsDead(NewPlayer(pos)) /\ NewPlayer(pos).mark = 0
  BY DEF NewPlayer, IsDead
<1> HIDE DEF pos
<1>3. Alive' = Alive \cup {p}
  BY <1>1, <1>2 DEF Alive
<1>4. [q \in Joined |-> player_map[q].mark]' =
        [q \in Joined' |-> IF q = p THEN 0
                           ELSE [r \in Joined |-> player_map[r].mark][q]]
  BY <1>1, <1>2
<1>5. Cardinality(Joined') = Cardinality(Joined) + 1
  BY <1>1, JoinedFinite, FS_AddElement DEF TypeOK
<1>6. game_status' = IF Lifecycle!Cardinality(Joined') = kPlayerDefaultNum
                     THEN "WAIT_ACTION" ELSE game_status
  BY <1>5, LifecycleCardinality DEF AddPlayer
<1>7. QED BY <1>1, <1>3, <1>4, <1>6 DEF AddPlayer, Lifecycle!Join

(* What changes nothing but the players, and raises nobody, is play.         *)
LEMMA StepPlay ==
    ASSUME TypeOK', game_status \in {"WAIT_ACTION", "FLUSHING"},
           UNCHANGED match, Joined' = Joined, Alive' \subseteq Alive
    PROVE  Lifecycle!Play
<1>1. [p \in Joined |-> player_map[p].mark]' \in [Joined -> Int]
  BY DEF TypeOK, PlayerRecord
<1>2. QED BY <1>1 DEF Lifecycle!Play, match

(* Nobody who ages comes back to life.                                       *)
LEMMA AgeingRaisesNobody ==
    ASSUME Ageing PROVE Joined' = Joined /\ Alive' \subseteq Alive
BY DEF Ageing, Aged, Alive

(* Who moves does not either.                                                *)
LEMMA MoveRaisesNobody ==
    ASSUME TypeOK, NEW p \in PlayerId, NEW d \in Direction, MoveTo(p, d)
    PROVE  Joined' = Joined /\ Alive' \subseteq Alive
<1>1. player_map' = [player_map EXCEPT ![p].pos = Target(p, d)]
  BY DEF MoveTo
<1>2. QED BY <1>1 DEF TypeOK, PlayerRecord, Joined, Alive, IsDead

(* The end of FlushTime judges the round.                                    *)
LEMMA StepFinishFlush ==
    ASSUME TypeOK, Bounded, FinishFlush
    PROVE  Lifecycle!NextRound \/ Lifecycle!Survive \/ Lifecycle!Decide
<1>1. player_map' = [p \in Joined |->
        IF p \in Alive THEN PlayerFlushTime(player_map[p]) ELSE player_map[p]]
  BY DEF FinishFlush
<1>2. Joined' = Joined
  BY <1>1 DEF Joined
<1>3. \A p \in Joined : /\ player_map'[p].status = player_map[p].status
                        /\ player_map'[p].mark = player_map[p].mark
  BY <1>1, PlayerFlushTimeType DEF TypeOK
<1>4. Alive' = Alive
  BY <1>2, <1>3 DEF Alive, IsDead
<1>5. [p \in Joined |-> player_map[p].mark]' = [p \in Joined |-> player_map[p].mark]
  BY <1>2, <1>3
<1>6. /\ game_status = "FLUSHING" /\ game_now_round' = game_now_round
      /\ game_now_round \in Nat /\ win_players_id = {}
  BY DEF FinishFlush, TypeOK, Bounded
<1>7. IsFiniteSet(Alive) /\ Cardinality(Alive) \in Nat
  BY JoinedFinite, FS_Subset, FS_CardinalityType DEF TypeOK, Alive
<1>8. Cardinality(Alive) = 0 => Alive = {}
  BY <1>7, FS_EmptySet
<1>9. CASE ~GameOver
  <2>1. game_status' = "WAIT_ACTION" /\ win_players_id' = win_players_id
    BY <1>6, <1>9 DEF FinishFlush
  <2>2. Cardinality(Alive) >= 2 /\ game_now_round <= kGameDefaultMaxRound
    BY <1>6, <1>7, <1>9, GameAssumption DEF GameOver
  <2>3. QED
    BY <1>2, <1>4, <1>5, <1>6, <2>1, <2>2, LifecycleCardinality
       DEF Lifecycle!NextRound
<1>10. CASE GameOver /\ Cardinality(Alive) = 1
  <2>1. game_status' = "GAME_OVER" /\ win_players_id' = Alive
    BY <1>10 DEF FinishFlush, Winners
  <2>2. QED
    BY <1>2, <1>4, <1>5, <1>6, <1>10, <2>1, LifecycleCardinality
       DEF Lifecycle!Survive
<1>11. CASE GameOver /\ Cardinality(Alive) # 1
  <2>1. game_status' = "GAME_OVER" /\ win_players_id' = MarkLeaders
    BY <1>11 DEF FinishFlush, Winners
  <2>2. MarkLeaders = Lifecycle!Leaders
    BY DEF MarkLeaders, Lifecycle!Leaders
  <2>3. \/ Alive = {}
        \/ Cardinality(Alive) >= 2 /\ game_now_round > kGameDefaultMaxRound
    BY <1>7, <1>8, <1>11 DEF GameOver
  <2>4. QED
    BY <1>2, <1>4, <1>5, <1>6, <2>1, <2>2, <2>3, LifecycleCardinality
       DEF Lifecycle!Decide
<1>12. QED BY <1>9, <1>10, <1>11

(* Reset closes the match.                                                   *)
LEMMA StepReset ==
    ASSUME TypeOK, Reset
    PROVE  Lifecycle!Close
<1>1. game_status # "FLUSHING"
  BY DEF Reset, TypeOK
<1>2. Joined' = {}
  BY DEF Reset, Joined
<1>3. [p \in Joined |-> player_map[p].mark]' = << >> /\ Alive' = {}
  BY <1>2 DEF Alive
<1>4. QED BY <1>1, <1>2, <1>3 DEF Reset, Lifecycle!Close

(* Every step of the engine is a step of the match or none.                  *)
LEMMA StepNext ==
    ASSUME TypeOK, Bounded, [Next]_vars
    PROVE  [Lifecycle!Next]_(Lifecycle!vars)
<1>0. TypeOK'
  BY TypeNext
<1> USE DEF Lifecycle!Next
<1>1. ASSUME UNCHANGED <<match, player_map>>
      PROVE  UNCHANGED Lifecycle!vars
  BY <1>1 DEF match, Lifecycle!vars, Joined, Alive
<1>2. ASSUME NEW p \in PlayerId, NEW d \in Direction,
             \/ PlaceRefused(p) \/ StaySilent(p)
             \/ PushBomb(p, d) \/ MoveRefused(p, d)
      PROVE  UNCHANGED Lifecycle!vars
  BY <1>1, <1>2 DEF PlaceRefused, StaySilent, PushBomb, MoveRefused
<1>3. CASE \/ \E b \in BombId : GlideBomb(b) \/ StopBomb(b)
           \/ BurnFuses \/ SkipExploded \/ UNCHANGED vars
  BY <1>1, <1>3 DEF GlideBomb, StopBomb, BurnFuses, SkipExploded, vars
<1>4. CASE FlushTime
  <2>1. UNCHANGED player_map
    BY <1>4 DEF FlushTime
  <2>2. Lifecycle!Tick
    BY <1>4, <2>1 DEF FlushTime, NextRound, Lifecycle!Tick, Bounded, Joined, Alive
  <2>3. QED BY <2>2
<1>5. ASSUME NEW p \in PlayerId, NEW b \in BombId, PlaceBomb(p, b)
      PROVE  Lifecycle!Play
  BY <1>0, <1>5, AgePlaceBomb, AgeingRaisesNobody, StepPlay DEF PlaceBomb, CanAct
<1>6. ASSUME NEW p \in PlayerId, NEW d \in Direction, MoveTo(p, d)
      PROVE  Lifecycle!Play
  BY <1>0, <1>6, MoveRaisesNobody, StepPlay DEF MoveTo, CanAct
<1>7. ASSUME NEW o \in PlayerId, MeetOther(o)
      PROVE  Lifecycle!Play
  BY <1>0, <1>7, AgeMeetOther, AgeingRaisesNobody, StepPlay DEF MeetOther, TypeOK
<1>8. CASE FinishMove
  BY <1>0, <1>8, AgeFinishMove, AgeingRaisesNobody, StepPlay DEF FinishMove, TypeOK
<1>9. CASE Explode
  BY <1>0, <1>9, AgeExplode, AgeingRaisesNobody, StepPlay DEF Explode, TypeOK
<1>10. "MOVE_UP" \in Direction
  BY DEF Direction
<1>11. CASE Call
  BY <1>2, <1>4, <1>5, <1>6, <1>10, <1>11, StepInitGame, StepAddPlayer, StepReset
     DEF Call
<1>12. CASE Continue
  BY <1>3, <1>7, <1>8, <1>9, <1>12, StepFinishFlush DEF Continue
<1>13. QED BY <1>3, <1>11, <1>12 DEF Next

(* The engine implements the match, but for its one liveness promise: every  *)
(* step of the engine is a step of the match or changes nothing of it.       *)
THEOREM EngineIsAMatch == Spec => Lifecycle!Safety
<1>1. Init => Lifecycle!Init
  <2> SUFFICES ASSUME Init PROVE Lifecycle!Init
    OBVIOUS
  <2>1. Joined = {} /\ Alive = {}
    BY DEF Init, Joined, Alive
  <2>2. [p \in Joined |-> player_map[p].mark] = << >>
    BY <2>1
  <2>3. QED BY <2>1, <2>2 DEF Init, Lifecycle!Init
<1>2. Init => Bounded
  BY DEF Init, Bounded
<1>3. TypeOK /\ Bounded /\ [Next]_vars => Bounded'
  BY BoundedNext
<1>4. TypeOK /\ Bounded /\ [Next]_vars => [Lifecycle!Next]_(Lifecycle!vars)
  BY StepNext
<1>5. QED BY <1>1, <1>2, <1>3, <1>4, TypeCorrect, PTL DEF Spec, Lifecycle!Safety

-----------------------------------------------------------------------------
(* Cells are exclusive.                                                      *)

(* Until a match starts there is no bomb, and while players join the births  *)
(* are free.                                                                 *)
Setup ==
    /\ game_status \in {"UNINIT", "WAIT_PLAYER"} => Bombs = {}
    /\ game_status = "WAIT_PLAYER" => \A i \in 0 .. 3 :
         /\ ~HasBlock(player_birth[i])
         /\ potion_type[player_birth[i]] = NoPotion

(* What the exclusiveness of cells rests on.                                 *)
Grounds == TypeOK /\ BombRegistry /\ PlayerPlacement

(* Once the match has started the setup is past.                             *)
LEMMA SetupPast ==
    ASSUME game_status' \notin {"UNINIT", "WAIT_PLAYER"}
    PROVE  Setup'
BY DEF Setup

(* Every step respects the setup.                                            *)
LEMMA SetupNext ==
    ASSUME TypeOK, Setup, [Next]_vars
    PROVE  Setup'
<1>1. CASE UNCHANGED <<game_status, player_birth, bomb_map, block, potion_type>>
  BY <1>1 DEF Setup, Bombs, HasBlock
<1>2. ASSUME NEW l \in Layouts, InitGame(l)
      PROVE  Setup'
  <2>1. /\ game_status = "UNINIT" /\ bomb_map' = bomb_map
        /\ player_birth' = l.birth /\ block' = l.block /\ potion_type' = l.potion
    BY <1>2 DEF InitGame
  <2>2. Playable(l)
    BY GameAssumption
  <2>3. QED BY <2>1, <2>2 DEF Setup, Bombs, Playable, HasBlock, NoBlock
<1>3. ASSUME NEW p \in PlayerId, AddPlayer(p)
      PROVE  Setup'
  BY <1>3 DEF AddPlayer, Setup, Bombs, HasBlock
<1>4. CASE Reset
  BY <1>4 DEF Reset, Setup, Bombs
<1>5. ASSUME NEW p \in PlayerId, NEW d \in Direction,
             \/ \E b \in BombId : PlaceBomb(p, b)
             \/ PlaceRefused(p) \/ StaySilent(p)
             \/ PushBomb(p, d) \/ MoveRefused(p, d) \/ MoveTo(p, d)
      PROVE  Setup'
  BY <1>5, SetupPast
     DEF PlaceBomb, PlaceRefused, StaySilent, PushBomb, MoveRefused, MoveTo,
         CanAct, match
<1>6. CASE FlushTime
  BY <1>6, SetupPast DEF FlushTime
<1>7. CASE Continue
  <2>1. phase # "idle"
    BY <1>7 DEF Continue, MeetOther, FinishMove, GlideBomb, StopBomb, BurnFuses,
                Explode, SkipExploded, FinishFlush
  <2>2. game_status \in {"WAIT_ACTION", "FLUSHING"}
    BY <2>1 DEF TypeOK, Phase
  <2>3. game_status' \in {game_status, "GAME_OVER", "WAIT_ACTION"}
    BY <1>7 DEF Continue, MeetOther, FinishMove, GlideBomb, StopBomb, BurnFuses,
                Explode, SkipExploded, FinishFlush, match
  <2>4. QED BY <2>2, <2>3, SetupPast
<1>8. "MOVE_UP" \in Direction
  BY DEF Direction
<1>9. CASE Call
  BY <1>2, <1>3, <1>4, <1>5, <1>6, <1>8, <1>9 DEF Call
<1>10. QED BY <1>1, <1>7, <1>9 DEF Next, vars, match, board

(* Steps that put nothing into a cell.                                       *)
LEMMA ExclusiveFrame ==
    ASSUME CellExclusive, UNCHANGED <<block, bomb_id, potion_type, mover>>,
           \A c \in Cell : players'[c] \subseteq players[c]
    PROVE  CellExclusive'
BY DEF CellExclusive, HasBlock

(* Where the dead are taken off the map, nobody is put into a cell.          *)
LEMMA CleanDeadShrinks ==
    ASSUME NEW area, NEW records, NEW c \in Cell
    PROVE  CleanDead(area, records)[c] \subseteq area[c]
BY DEF CleanDead

(* While no player moves, nobody stands on a potion.                         *)
LEMMA NobodyOnPotion ==
    ASSUME TypeOK, CellExclusive, phase # "meet",
           NEW c \in Cell, potion_type[c] # NoPotion
    PROVE  players[c] = {}
<1>1. mover = NoPlayer
  BY DEF TypeOK
<1>2. players[c] \subseteq PlayerId
  BY DEF TypeOK
<1>3. QED BY <1>1, <1>2, GameAssumption DEF CellExclusive

(* Init puts blocks and potions into an empty map.                           *)
LEMMA ExclusiveInitGame ==
    ASSUME Grounds, Setup, NEW l \in Layouts, InitGame(l)
    PROVE  CellExclusive'
<1>1. /\ game_status = "UNINIT" /\ block' = l.block /\ potion_type' = l.potion
      /\ UNCHANGED <<bomb_id, players>>
  BY DEF InitGame
<1>2. \A c \in Cell : players[c] = {}
  BY <1>1 DEF Grounds, TypeOK
<1>3. \A c \in Cell : bomb_id[c] = NoBomb
  BY <1>1 DEF Grounds, Setup, BombRegistry
<1>4. \A c \in Cell : l.block[c] = NoBlock \/ l.potion[c] = NoPotion
  BY GameAssumption DEF Playable
<1>5. QED BY <1>1, <1>2, <1>3, <1>4 DEF CellExclusive, HasBlock, NoBlock

(* A player arrives in a free cell.                                          *)
LEMMA ExclusiveAddPlayer ==
    ASSUME Grounds, CellExclusive, Setup, NEW p \in PlayerId, AddPlayer(p)
    PROVE  CellExclusive'
<1> DEFINE pos == player_birth[Cardinality(Joined)]
<1>1. Cardinality(Joined) \in 0 .. 3
  BY GameAssumption, JoinedFinite DEF Grounds, TypeOK, AddPlayer
<1>2. pos \in Cell /\ ~HasBlock(pos) /\ potion_type[pos] = NoPotion
  BY <1>1 DEF Grounds, TypeOK, Setup, AddPlayer
<1>3. /\ players' = [players EXCEPT ![pos] = @ \cup {p}]
      /\ UNCHANGED <<block, bomb_id, potion_type, mover>>
  BY DEF AddPlayer, meeting
<1> HIDE DEF pos
<1>4. \A c \in Cell : c # pos => players'[c] = players[c]
  BY <1>2, <1>3 DEF Grounds, TypeOK
<1>5. QED BY <1>2, <1>3, <1>4 DEF CellExclusive, HasBlock

(* A bomb is placed by a player who stands in the cell, so no potion is      *)
(* there.                                                                    *)
LEMMA ExclusivePlaceBomb ==
    ASSUME Grounds, CellExclusive, NEW p \in PlayerId, NEW b \in BombId,
           PlaceBomb(p, b)
    PROVE  CellExclusive'
<1> DEFINE pos == player_map[p].pos
<1>1. p \in Alive /\ pos \in Cell /\ ~HasBlock(pos) /\ phase = "idle"
  BY DEF Grounds, TypeOK, PlayerRecord, PlaceBomb, CanAct, MayPlace, Obstructed, Alive
<1>2. p \in players[pos]
  BY <1>1 DEF Grounds, PlayerPlacement
<1>3. potion_type[pos] = NoPotion
  BY <1>1, <1>2, NobodyOnPotion DEF Grounds
<1>4. /\ bomb_id' = [bomb_id EXCEPT ![pos] = b]
      /\ UNCHANGED <<block, potion_type, mover>>
      /\ players' = CleanDead(players, player_map)
  BY DEF PlaceBomb, meeting
<1>5. \A c \in Cell : players'[c] \subseteq players[c]
  BY <1>4, CleanDeadShrinks
<1> HIDE DEF pos
<1>6. \A c \in Cell : c # pos => bomb_id'[c] = bomb_id[c]
  BY <1>1, <1>4 DEF Grounds, TypeOK
<1>7. QED BY <1>1, <1>3, <1>4, <1>5, <1>6 DEF CellExclusive, HasBlock

(* The mover is the only one in a cell with a potion.                        *)
LEMMA ExclusiveMoveTo ==
    ASSUME Grounds, CellExclusive, NEW p \in PlayerId, NEW d \in Direction,
           MoveTo(p, d)
    PROVE  CellExclusive'
<1> DEFINE from == player_map[p].pos
           to   == Target(p, d)
<1>1. /\ phase = "idle" /\ to \in Cell /\ ~HasBlock(to)
      /\ players' = [players EXCEPT ![from] = @ \ {p}, ![to] = @ \cup {p}]
      /\ mover' = p
      /\ UNCHANGED <<block, bomb_id, potion_type>>
  BY DEF MoveTo, CanAct, Obstructed
<1>2. from \in Cell
  BY DEF Grounds, TypeOK, MoveTo, CanAct, PlayerRecord
<1> HIDE DEF from, to
<1>3. \A c \in Cell : players'[c] \subseteq IF c = to THEN players[c] \cup {p} ELSE players[c]
  BY <1>1, <1>2 DEF Grounds, TypeOK
<1>4. \A c \in Cell : potion_type[c] # NoPotion => players[c] = {}
  BY <1>1, NobodyOnPotion DEF Grounds
<1>5. QED BY <1>1, <1>3, <1>4 DEF CellExclusive, HasBlock

(* When the move ends the potion is gone from the mover's cell, and he is in *)
(* no other.                                                                 *)
LEMMA ExclusiveFinishMove ==
    ASSUME Grounds, CellExclusive, FinishMove
    PROVE  CellExclusive'
<1> DEFINE pos == player_map[mover].pos
           records == [player_map EXCEPT ![mover] = PickUp(@, potion_type[pos])]
<1>1. /\ players' = CleanDead(players, records)
      /\ potion_type' = [potion_type EXCEPT ![pos] = NoPotion]
      /\ UNCHANGED <<block, bomb_id>>
  BY DEF FinishMove, TakePotion
<1>2. \A c \in Cell : players'[c] \subseteq players[c]
  BY <1>1, CleanDeadShrinks
<1>3. pos \in Cell
  BY DEF Grounds, TypeOK, FinishMove, PlayerRecord
<1>4. \A c \in Cell : mover \in players[c] => c = pos
  BY DEF Grounds, PlayerPlacement
<1> HIDE DEF pos
<1>5. \A c \in Cell : potion_type'[c] # NoPotion => c # pos /\ potion_type[c] # NoPotion
  BY <1>1, <1>3 DEF Grounds, TypeOK
<1>6. \A c \in Cell : potion_type[c] = NoPotion => potion_type'[c] = NoPotion
  BY <1>1, <1>3 DEF Grounds, TypeOK
<1>7. QED BY <1>1, <1>2, <1>4, <1>5, <1>6 DEF CellExclusive, HasBlock

(* A bomb glides into an empty cell.                                         *)
LEMMA ExclusiveGlideBomb ==
    ASSUME Grounds, CellExclusive, NEW b \in BombId, GlideBomb(b)
    PROVE  CellExclusive'
<1> DEFINE from == bomb_map[b].pos
           to   == NextPos(b)
<1>1. /\ to \in Cell /\ ~HasBlock(to) /\ potion_type[to] = NoPotion
      /\ bomb_id' = [bomb_id EXCEPT ![from] = NoBomb, ![to] = b]
      /\ UNCHANGED <<block, potion_type, players, mover>>
  BY DEF GlideBomb, FreeForBomb, Obstructed, meeting
<1>2. from \in Cell
  BY DEF Grounds, TypeOK, GlideBomb, BombRecord
<1> HIDE DEF from, to
<1>3. \A c \in Cell : c # to => bomb_id'[c] \in {bomb_id[c], NoBomb}
  BY <1>1, <1>2 DEF Grounds, TypeOK
<1>4. QED BY <1>1, <1>3 DEF CellExclusive, HasBlock

(* Where mud vanishes there was nothing but the mud.                         *)
LEMMA ExclusiveExplode ==
    ASSUME Grounds, CellExclusive, Explode
    PROVE  CellExclusive'
<1> DEFINE b      == Head(bomb_que)
           pos    == bomb_map[b].pos
           struck == BlastCells(pos, bomb_map[b].range)
           swept  == Swept(pos, struck)
           mud    == {c \in swept : IsBombAble(c)}
<1>1. /\ bomb_id' = [bomb_id EXCEPT ![pos] = NoBomb]
      /\ potion_type' = [c \in Cell |->
           IF c \in mud THEN block[c].potion
           ELSE IF c \in swept THEN NoPotion ELSE potion_type[c]]
      /\ block' = [c \in Cell |-> IF c \in mud THEN NoBlock ELSE block[c]]
      /\ UNCHANGED <<players, mover>>
  BY DEF Explode, meeting
<1>2. pos \in Cell
  BY DEF Grounds, TypeOK, Explode, BombRecord
<1>3. \A c \in mud : HasBlock(c)
  BY DEF IsBombAble, HasBlock
<1> HIDE DEF pos, mud, swept
<1>4. \A c \in Cell : bomb_id'[c] \in {bomb_id[c], NoBomb}
  BY <1>1, <1>2 DEF Grounds, TypeOK
<1>5. \A c \in Cell : HasBlock(c)' => c \notin mud /\ HasBlock(c)
  BY <1>1 DEF HasBlock, NoBlock
<1>6. \A c \in Cell : potion_type'[c] # NoPotion =>
        c \in mud \/ potion_type[c] # NoPotion
  BY <1>1
<1>7. \A c \in Cell : potion_type[c] = NoPotion /\ c \notin mud =>
        potion_type'[c] = NoPotion
  BY <1>1
<1>8. QED BY <1>1, <1>3, <1>4, <1>5, <1>6, <1>7 DEF CellExclusive

(* Every step keeps the cells exclusive.                                     *)
LEMMA ExclusiveNext ==
    ASSUME Grounds, Setup, CellExclusive, [Next]_vars
    PROVE  CellExclusive'
<1>1. ASSUME NEW p \in PlayerId, NEW d \in Direction,
             PlaceRefused(p) \/ PushBomb(p, d) \/ MoveRefused(p, d) \/ MeetOther(p)
      PROVE  CellExclusive'
  BY <1>1, ExclusiveFrame
     DEF PlaceRefused, PushBomb, MoveRefused, MeetOther, board, meeting
<1>2. ASSUME NEW p \in PlayerId, StaySilent(p)
      PROVE  CellExclusive'
  BY <1>2, ExclusiveFrame, CleanDeadShrinks DEF StaySilent, meeting
<1>3. ASSUME NEW b \in BombId, StopBomb(b)
      PROVE  CellExclusive'
  BY <1>3, ExclusiveFrame DEF StopBomb, board, meeting
<1>4. CASE FlushTime \/ BurnFuses \/ SkipExploded \/ UNCHANGED vars
  BY <1>4, ExclusiveFrame DEF FlushTime, BurnFuses, SkipExploded, vars, board, meeting
<1>5. CASE FinishFlush
  BY <1>5, ExclusiveFrame, CleanDeadShrinks DEF FinishFlush, meeting
<1>6. CASE Reset
  BY <1>6 DEF Reset, CellExclusive, EmptyMap, HasBlock, NoBlock
<1>7. "MOVE_UP" \in Direction
  BY DEF Direction
<1>8. CASE Call
  BY <1>1, <1>2, <1>4, <1>6, <1>7, <1>8, ExclusiveInitGame, ExclusiveAddPlayer,
     ExclusivePlaceBomb, ExclusiveMoveTo DEF Call
<1>9. CASE Continue
  BY <1>1, <1>3, <1>4, <1>5, <1>7, <1>9, ExclusiveFinishMove, ExclusiveGlideBomb,
     ExclusiveExplode DEF Continue
<1>10. QED BY <1>4, <1>8, <1>9 DEF Next

(* Nothing shares a cell with a block, a bomb never lies on a potion, and    *)
(* nobody stands on a potion but the player who is just walking in.          *)
THEOREM CellsExclusive == Spec => []CellExclusive
<1>1. Init => Setup /\ CellExclusive
  BY DEF Init, Setup, CellExclusive, Bombs, EmptyMap, HasBlock, NoBlock
<1>2. Grounds /\ Setup /\ CellExclusive /\ [Next]_vars => Setup' /\ CellExclusive'
  BY SetupNext, ExclusiveNext DEF Grounds
<1>3. TypeOK /\ BombRegistry /\ PlayerPlacement => Grounds
  BY DEF Grounds
<1>4. QED BY <1>1, <1>2, <1>3, TypeCorrect, BombsRegistered, PlayersPlaced, PTL DEF Spec

-----------------------------------------------------------------------------
(* The dead pick nothing up.                                                 *)

(* Who walks onto a potion meets nobody.                                     *)
MeetsNobody ==
    phase = "meet" /\ potion_type[player_map[mover].pos] # NoPotion =>
        to_meet = {} /\ mover \in Alive

(* Who moves is alive, and where a potion lies nobody stands.                *)
LEMMA AloneMoveTo ==
    ASSUME TypeOK, CellExclusive, NEW p \in PlayerId, NEW d \in Direction,
           MoveTo(p, d)
    PROVE  MeetsNobody'
<1> DEFINE to == Target(p, d)
<1>1. /\ phase = "idle" /\ to \in Cell /\ p \in Joined /\ ~IsDead(player_map[p])
      /\ mover' = p /\ to_meet' = players[to] \ {p}
      /\ potion_type' = potion_type
      /\ player_map' = [player_map EXCEPT ![p].pos = to]
  BY DEF MoveTo, CanAct
<1>2. potion_type[to] # NoPotion => players[to] = {}
  BY <1>1, NobodyOnPotion
<1> HIDE DEF to
<1>3. Joined' = Joined /\ player_map'[p].pos = to /\ ~IsDead(player_map'[p])
  BY <1>1 DEF TypeOK, PlayerRecord, Joined, IsDead
<1>4. QED BY <1>1, <1>2, <1>3 DEF MeetsNobody, Alive

(* Whatever happens during a move, on a potion nobody is met.                *)
LEMMA AloneNext ==
    ASSUME TypeOK, CellExclusive, MeetsNobody, [Next]_vars
    PROVE  MeetsNobody'
<1>1. ASSUME NEW o \in PlayerId, MeetOther(o)
      PROVE  MeetsNobody'
  <2>1. potion_type[player_map[mover].pos] = NoPotion /\ mover \in Joined
    BY <1>1 DEF MeetsNobody, MeetOther, TypeOK
  <2>2. UNCHANGED <<potion_type, mover>>
    BY <1>1 DEF MeetOther, board
  <2>3. player_map'[mover].pos = player_map[mover].pos
    BY <1>1, <2>1, AgeMeetOther DEF Ageing, Aged
  <2>4. QED BY <2>1, <2>2, <2>3 DEF MeetsNobody
<1>2. CASE UNCHANGED vars
  BY <1>2 DEF vars, board, meeting, MeetsNobody, Alive, Joined, IsDead
<1>3. CASE phase' # "meet"
  BY <1>3 DEF MeetsNobody
<1>4. \/ phase' # "meet" \/ UNCHANGED vars
      \/ \E p \in PlayerId, d \in Direction : MoveTo(p, d)
      \/ \E o \in PlayerId : MeetOther(o)
  BY DEF Next, Call, Continue, InitGame, AddPlayer, PlaceBomb, PlaceRefused,
         StaySilent, PushBomb, MoveRefused, FlushTime, Reset, CanAct, FinishMove,
         GlideBomb, StopBomb, BurnFuses, Explode, SkipExploded, FinishFlush
<1>5. QED BY <1>1, <1>2, <1>3, <1>4, AloneMoveTo

(* A player who died on the way in picks nothing up, although the code of    *)
(* the pickup does not ask: where a potion lies there is nobody who could    *)
(* have killed him.                                                          *)
THEOREM DeadPickUpNothing == Spec => DeadPickNothing
<1>1. Init => MeetsNobody
  BY DEF Init, MeetsNobody
<1>2. TypeOK /\ CellExclusive /\ MeetsNobody /\ [Next]_vars => MeetsNobody'
  BY AloneNext
<1>3. MeetsNobody => [PicksUp => ~IsDead(player_map[mover])]_vars
  BY DEF MeetsNobody, PicksUp, Alive
<1>4. QED BY <1>1, <1>2, <1>3, TypeCorrect, CellsExclusive, PTL DEF Spec, DeadPickNothing

-----------------------------------------------------------------------------
(* Chain reactions.                                                          *)

(* What is appended to a queue is in it, with all that was there.            *)
LEMMA ToSetAppend ==
    ASSUME NEW S, NEW que \in Seq(S), NEW e \in S
    PROVE  ToSet(Append(que, e)) = ToSet(que) \cup {e}
<1>1. /\ Len(Append(que, e)) = Len(que) + 1 /\ Len(que) \in Nat
      /\ DOMAIN que = 1 .. Len(que)
      /\ DOMAIN Append(que, e) = 1 .. Len(que) + 1
      /\ \A i \in 1 .. Len(que) : Append(que, e)[i] = que[i]
      /\ Append(que, e)[Len(que) + 1] = e
  OBVIOUS
<1>2. ToSet(que) \cup {e} \subseteq ToSet(Append(que, e))
  BY <1>1 DEF ToSet
<1>3. ToSet(Append(que, e)) \subseteq ToSet(que) \cup {e}
  BY <1>1 DEF ToSet
<1>4. QED BY <1>2, <1>3

(* What waits behind the head stays when the head leaves.                    *)
LEMMA ToSetTail ==
    ASSUME NEW S, NEW que \in Seq(S), que # << >>,
           NEW e \in ToSet(que), e # Head(que)
    PROVE  e \in ToSet(Tail(que))
<1>1. PICK i \in DOMAIN que : e = que[i]
  BY DEF ToSet
<1>2. i \in 2 .. Len(que)
  BY <1>1
<1>3. i - 1 \in DOMAIN Tail(que) /\ Tail(que)[i - 1] = que[i]
  BY <1>2
<1>4. QED BY <1>1, <1>3 DEF ToSet

(* An arm ends at the first bomb, so it strikes at most one.                 *)
LEMMA OneHit ==
    ASSUME NEW pos \in Cell, NEW i \in 1 .. 4, NEW range \in Nat,
           NEW c \in ArmCells(pos, i, range), NEW e \in ArmCells(pos, i, range),
           bomb_id[c] # NoBomb, bomb_id[e] # NoBomb
    PROVE  c = e
<1>1. PICK k \in 1 .. range : /\ c = Shift(pos, Arm[i], k)
                              /\ \A j \in 1 .. k - 1 : ~Obstructed(Shift(pos, Arm[i], j))
  BY DEF ArmCells
<1>2. PICK m \in 1 .. range : /\ e = Shift(pos, Arm[i], m)
                              /\ \A j \in 1 .. m - 1 : ~Obstructed(Shift(pos, Arm[i], j))
  BY DEF ArmCells
<1>3. Obstructed(c) /\ Obstructed(e)
  BY DEF Obstructed
<1>4. ~(k < m)
  BY <1>1, <1>2, <1>3
<1>5. ~(m < k)
  BY <1>1, <1>2, <1>3
<1>6. k = m
  BY <1>4, <1>5
<1>7. QED BY <1>1, <1>2, <1>6

(* QueueHit loses nothing, and a bomb the arm strikes is in the queue.       *)
LEMMA QueueHitAdds ==
    ASSUME TypeOK, NEW que \in Seq(BombId), NEW pos \in Cell, NEW i \in 1 .. 4,
           NEW range \in Nat
    PROVE  /\ ToSet(que) \subseteq ToSet(QueueHit(que, pos, i, range))
           /\ \A c \in ArmCells(pos, i, range) : bomb_id[c] # NoBomb =>
                bomb_id[c] \in ToSet(QueueHit(que, pos, i, range))
<1> DEFINE hit == {c \in ArmCells(pos, i, range) : bomb_id[c] # NoBomb}
<1>1. CASE hit = {}
  BY <1>1 DEF QueueHit
<1>2. CASE hit # {}
  <2> DEFINE first == CHOOSE c \in hit : TRUE
  <2>1. first \in hit
    BY <1>2
  <2>2. QueueHit(que, pos, i, range) = Append(que, bomb_id[first])
    BY <1>2 DEF QueueHit
  <2>3. first \in Cell /\ bomb_id[first] \in BombId
    BY <2>1 DEF ArmCells, TypeOK
  <2>4. \A c \in hit : c = first
    BY <2>1, OneHit
  <2> HIDE DEF first
  <2>5. ToSet(QueueHit(que, pos, i, range)) = ToSet(que) \cup {bomb_id[first]}
    BY <2>2, <2>3, ToSetAppend
  <2>6. QED BY <2>4, <2>5
<1>3. QED BY <1>1, <1>2

(* After a blast every bomb in a struck cell waits, and nobody who waited    *)
(* behind the exploding bomb has left.                                       *)
LEMMA BlastQueues ==
    ASSUME TypeOK, Explode,
           NEW pos \in Cell, pos = bomb_map[Head(bomb_que)].pos,
           NEW range \in Nat, range = bomb_map[Head(bomb_que)].range
    PROVE  /\ ToSet(Tail(bomb_que)) \subseteq ToSet(bomb_que')
           /\ \A c \in BlastCells(pos, range) \ {pos} : bomb_id[c] # NoBomb =>
                bomb_id[c] \in ToSet(bomb_que')
<1> DEFINE q0 == Tail(bomb_que)
           q1 == QueueHit(q0, pos, 1, range)
           q2 == QueueHit(q1, pos, 2, range)
           q3 == QueueHit(q2, pos, 3, range)
           q4 == QueueHit(q3, pos, 4, range)
<1>1. bomb_que' = q4
  BY DEF Explode
<1>2. q0 \in Seq(BombId)
  BY DEF TypeOK, Explode
<1>3. q1 \in Seq(BombId)
  BY <1>2, QueueHitType
<1>4. q2 \in Seq(BombId)
  BY <1>3, QueueHitType
<1>5. q3 \in Seq(BombId)
  BY <1>4, QueueHitType
<1> DEFINE Adds(q, r, i) ==
             /\ ToSet(q) \subseteq ToSet(r)
             /\ \A c \in ArmCells(pos, i, range) : bomb_id[c] # NoBomb =>
                  bomb_id[c] \in ToSet(r)
<1>a. \A q \in Seq(BombId) : \A i \in 1 .. 4 : Adds(q, QueueHit(q, pos, i, range), i)
  BY QueueHitAdds
<1> HIDE DEF q0, Adds
<1>6. Adds(q0, q1, 1)
  BY <1>2, <1>a
<1>7. Adds(q1, q2, 2)
  BY <1>3, <1>a
<1>8. Adds(q2, q3, 3)
  BY <1>4, <1>a
<1>9. Adds(q3, q4, 4)
  BY <1>5, <1>a
<1> USE DEF q0, Adds
<1> HIDE DEF q1, q2, q3, q4
<1>10. ToSet(q0) \subseteq ToSet(q4)
  BY <1>6, <1>7, <1>8, <1>9
<1>11. \A i \in 1 .. 4 : \A c \in ArmCells(pos, i, range) : bomb_id[c] # NoBomb =>
         bomb_id[c] \in ToSet(q4)
  BY <1>6, <1>7, <1>8, <1>9
<1>12. QED BY <1>1, <1>10, <1>11 DEF BlastCells

(* Before the bombs explode no cell has been struck in this round.           *)
Unstruck == phase = "bomb_move" => bombed = {}

(* A blast leaves no mud in the cells it strikes and forgets no bomb.        *)
LEMMA PendingExplode ==
    ASSUME Grounds, CellExclusive, ChainPending, Explode
    PROVE  ChainPending'
<1> DEFINE b      == Head(bomb_que)
           pos    == bomb_map[b].pos
           range  == bomb_map[b].range
           struck == BlastCells(pos, range)
           swept  == Swept(pos, struck)
           mud    == {c \in swept : IsBombAble(c)}
<1>1. /\ phase = "explode" /\ bomb_que # << >> /\ b \in Bombs
      /\ bomb_id' = [bomb_id EXCEPT ![pos] = NoBomb]
      /\ bombed' = bombed \cup struck
      /\ block' = [c \in Cell |-> IF c \in mud THEN NoBlock ELSE block[c]]
  BY DEF Explode
<1>2. pos \in Cell /\ range \in Nat
  BY <1>1 DEF Grounds, TypeOK, BombRecord
<1>3. struck \subseteq Cell /\ bombed \subseteq Cell /\ bomb_que \in Seq(BombId)
  BY <1>2 DEF BlastCells, ArmCells, Grounds, TypeOK
<1>4. /\ ToSet(Tail(bomb_que)) \subseteq ToSet(bomb_que')
      /\ \A c \in struck \ {pos} : bomb_id[c] # NoBomb => bomb_id[c] \in ToSet(bomb_que')
  BY <1>2, BlastQueues DEF Grounds
<1>5. \A c \in Cell : c # pos => bomb_id[c] # b
  BY <1>1, GameAssumption DEF Grounds, BombRegistry, TypeOK
<1>6. \A c \in bombed \ {pos} : bomb_id[c] # NoBomb => bomb_id[c] \in ToSet(bomb_que')
  <2> SUFFICES ASSUME NEW c \in bombed \ {pos}, bomb_id[c] # NoBomb
               PROVE  bomb_id[c] \in ToSet(bomb_que')
    OBVIOUS
  <2>1. bomb_id[c] \in ToSet(bomb_que) /\ bomb_id[c] # Head(bomb_que)
    BY <1>1, <1>3, <1>5 DEF ChainPending
  <2>2. bomb_id[c] \in ToSet(Tail(bomb_que))
    BY <1>1, <1>3, <2>1, ToSetTail
  <2>3. QED BY <1>4, <2>2
<1>7. \A c \in struck : block[c].block_type = "MUD" => c \in mud
  BY <1>3 DEF Swept, IsBombAble, CellExclusive, HasBlock
<1> HIDE DEF b, pos, struck, swept, mud
<1>8. \A c \in Cell : bomb_id'[c] # NoBomb => c # pos /\ bomb_id'[c] = bomb_id[c]
  BY <1>1, <1>2 DEF Grounds, TypeOK
<1>9. \A c \in bombed' : block'[c].block_type # "MUD"
  BY <1>1, <1>3, <1>7 DEF ChainPending, NoBlock
<1>10. \A c \in bombed' : bomb_id'[c] # NoBomb => bomb_id'[c] \in ToSet(bomb_que')
  BY <1>1, <1>3, <1>4, <1>6, <1>8
<1>11. QED BY <1>9, <1>10 DEF ChainPending

(* A bomb that is gone stands in no cell.                                    *)
LEMMA PendingSkipExploded ==
    ASSUME Grounds, ChainPending, SkipExploded
    PROVE  ChainPending'
<1>1. /\ phase = "explode" /\ bomb_que # << >> /\ Head(bomb_que) \notin Bombs
      /\ bomb_que' = Tail(bomb_que)
      /\ UNCHANGED <<phase, bomb_id, bombed, block>>
  BY DEF SkipExploded, board
<1>2. \A c \in bombed : bomb_id[c] # NoBomb => bomb_id[c] # Head(bomb_que)
  BY <1>1 DEF Grounds, TypeOK, BombRegistry
<1>3. bomb_que \in Seq(BombId)
  BY DEF Grounds, TypeOK
<1>4. \A c \in bombed : bomb_id[c] # NoBomb => bomb_id[c] \in ToSet(Tail(bomb_que))
  BY <1>1, <1>2, <1>3, ToSetTail DEF ChainPending
<1>5. QED BY <1>1, <1>4 DEF ChainPending

(* Every step keeps what is hit pending.                                     *)
LEMMA PendingNext ==
    ASSUME Grounds, CellExclusive, ChainPending, Unstruck, [Next]_vars
    PROVE  ChainPending' /\ Unstruck'
<1>1. CASE phase' \notin {"bomb_move", "explode"}
  BY <1>1 DEF ChainPending, Unstruck
<1>2. CASE UNCHANGED vars
  BY <1>2 DEF vars, board, flushing, ChainPending, Unstruck
<1>3. CASE FlushTime
  BY <1>3 DEF FlushTime, ChainPending, Unstruck
<1>4. ASSUME NEW b \in BombId, GlideBomb(b) \/ StopBomb(b)
      PROVE  ChainPending' /\ Unstruck'
  BY <1>4 DEF GlideBomb, StopBomb, board, ChainPending, Unstruck
<1>5. CASE BurnFuses
  BY <1>5 DEF BurnFuses, board, ChainPending, Unstruck
<1>6. CASE Explode
  BY <1>6, PendingExplode DEF Explode, Unstruck
<1>7. CASE SkipExploded
  BY <1>7, PendingSkipExploded DEF SkipExploded, Unstruck
<1>8. \/ phase' \notin {"bomb_move", "explode"} \/ UNCHANGED vars
      \/ FlushTime \/ (\E b \in BombId : GlideBomb(b) \/ StopBomb(b))
      \/ BurnFuses \/ Explode \/ SkipExploded
  BY DEF Next, Call, Continue, InitGame, AddPlayer, PlaceBomb, PlaceRefused,
         StaySilent, PushBomb, MoveRefused, MoveTo, Reset, CanAct, MeetOther,
         FinishMove, FinishFlush
<1>9. QED BY <1>1, <1>2, <1>3, <1>4, <1>5, <1>6, <1>7, <1>8

(* A bomb that is hit waits until it explodes, and mud that is hit is gone.  *)
THEOREM HitsPending == Spec => []ChainPending
<1>1. Init => ChainPending /\ Unstruck
  BY DEF Init, ChainPending, Unstruck
<1>2. Grounds /\ CellExclusive /\ ChainPending /\ Unstruck /\ [Next]_vars =>
        ChainPending' /\ Unstruck'
  BY PendingNext
<1>3. TypeOK /\ BombRegistry /\ PlayerPlacement => Grounds
  BY DEF Grounds
<1>4. QED
  BY <1>1, <1>2, <1>3, TypeCorrect, BombsRegistered, PlayersPlaced, CellsExclusive, PTL
     DEF Spec

-----------------------------------------------------------------------------
(* The board erodes.                                                         *)

(* The blocks and potions of a step that erodes the board.                   *)
Eroded ==
    \A c \in Cell :
        /\ block'[c] # block[c] =>
             block[c].block_type = "MUD" /\ block'[c] = NoBlock
        /\ potion_type'[c] \notin {potion_type[c], NoPotion} => block'[c] # block[c]

(* A blast clears the mud it sweeps and uncovers what was under it.          *)
LEMMA ErodedExplode ==
    ASSUME TypeOK, Explode
    PROVE  Eroded
<1> DEFINE b      == Head(bomb_que)
           struck == BlastCells(bomb_map[b].pos, bomb_map[b].range)
           swept  == Swept(bomb_map[b].pos, struck)
           mud    == {c \in swept : IsBombAble(c)}
<1>1. /\ block' = [c \in Cell |-> IF c \in mud THEN NoBlock ELSE block[c]]
      /\ potion_type' = [c \in Cell |->
           IF c \in mud THEN block[c].potion
           ELSE IF c \in swept THEN NoPotion ELSE potion_type[c]]
  BY DEF Explode
<1>2. \A c \in mud : block[c].block_type = "MUD" /\ block[c] # NoBlock
  BY DEF IsBombAble, NoBlock
<1> HIDE DEF swept, mud
<1>3. QED BY <1>1, <1>2 DEF Eroded

(* Between its opening and its end a match only erodes the board.            *)
LEMMA ErodedNext ==
    ASSUME TypeOK, [Next]_vars, game_status # "UNINIT", game_status' # "UNINIT"
    PROVE  Eroded
<1>1. ASSUME UNCHANGED <<block, potion_type>>
      PROVE  Eroded
  BY <1>1 DEF Eroded
<1>2. CASE FinishMove
  <2>1. /\ block' = block
        /\ potion_type' = [potion_type EXCEPT ![player_map[mover].pos] = NoPotion]
    BY <1>2 DEF FinishMove, TakePotion
  <2>2. QED BY <2>1 DEF Eroded, TypeOK
<1>3. ASSUME NEW p \in PlayerId, NEW d \in Direction,
             \/ AddPlayer(p)
             \/ \E b \in BombId : PlaceBomb(p, b)
             \/ PlaceRefused(p) \/ StaySilent(p) \/ MeetOther(p)
             \/ PushBomb(p, d) \/ MoveRefused(p, d) \/ MoveTo(p, d)
      PROVE  Eroded
  BY <1>1, <1>3
     DEF AddPlayer, PlaceBomb, PlaceRefused, StaySilent, MeetOther, PushBomb,
         MoveRefused, MoveTo, board
<1>4. CASE \/ \E b \in BombId : GlideBomb(b) \/ StopBomb(b)
           \/ FlushTime \/ BurnFuses \/ SkipExploded \/ FinishFlush
           \/ UNCHANGED vars
  BY <1>1, <1>4
     DEF GlideBomb, StopBomb, FlushTime, BurnFuses, SkipExploded, FinishFlush,
         vars, board
<1>5. ~Reset /\ \A l \in Layouts : ~InitGame(l)
  BY DEF Reset, InitGame
<1>6. "MOVE_UP" \in Direction
  BY DEF Direction
<1>7. CASE Call
  BY <1>3, <1>4, <1>5, <1>6, <1>7 DEF Call
<1>8. CASE Continue
  BY <1>2, <1>3, <1>4, <1>6, <1>8, ErodedExplode DEF Continue
<1>9. QED BY <1>4, <1>7, <1>8 DEF Next

(* Within a match a wall stays, no block appears, and a potion appears only  *)
(* where a block of mud has just vanished.                                   *)
THEOREM TheBoardErodes == Spec => BoardErodes
<1>1. TypeOK /\ [Next]_vars =>
        [game_status' # "UNINIT" /\ game_status # "UNINIT" =>
           \A c \in Cell :
              /\ block'[c] # block[c] =>
                   block[c].block_type = "MUD" /\ block'[c] = NoBlock
              /\ potion_type'[c] \notin {potion_type[c], NoPotion} =>
                   block'[c] # block[c]]_vars
  BY ErodedNext DEF Eroded
<1>2. QED BY <1>1, TypeCorrect, PTL DEF Spec, BoardErodes

-----------------------------------------------------------------------------
(* The marks of a match balance.                                             *)

(* The record r is that of p after he earned n; who dies pays for it.        *)
Settled(r, p, n) ==
    /\ IsDead(p) => IsDead(r)
    /\ r.mark = p.mark + n - (IF IsDead(r) /\ ~IsDead(p) THEN kMarkDead ELSE 0)

(* A hit costs nothing but the life, if it kills.                            *)
LEMMA InjuredSettles ==
    ASSUME NEW P, NEW p \in PlayerRecord(P)
    PROVE  /\ Settled(Injured(p), p, 0)
           /\ Killed(p) <=> IsDead(Injured(p)) /\ ~IsDead(p)
<1>1. Killed(p) <=> IsDead(Injured(p)) /\ ~IsDead(p)
  BY DEF Killed
<1>2. p.mark \in Int /\ kMarkDead \in Int
  BY PlayerAssumption DEF PlayerRecord
<1>3. CASE IsDead(p) \/ p.invincible_time > 0
  BY <1>1, <1>2, <1>3 DEF Injured, Settled, IsDead
<1>4. CASE ~(IsDead(p) \/ p.invincible_time > 0) /\ p.shield_time > 0
  <2>1. Injured(p) = [p EXCEPT !.shield_time = 0]
    BY <1>4 DEF Injured
  <2>2. Injured(p).mark = p.mark /\ Injured(p).status = p.status
    BY <2>1 DEF PlayerRecord
  <2>3. QED BY <1>2, <2>2 DEF Settled, IsDead, Killed
<1>5. CASE ~(IsDead(p) \/ p.invincible_time > 0) /\ ~(p.shield_time > 0)
  <2> DEFINE hurt == [p EXCEPT !.HP = @ - 1]
             dead == [hurt EXCEPT !.status = "DEAD"]
  <2>1. Injured(p) = IF hurt.HP <= 0 THEN DescMark(dead, kMarkDead)
                     ELSE [hurt EXCEPT !.shield_time = kShieldDefaultTime]
    BY <1>5 DEF Injured, DescHP
  <2>2. hurt \in PlayerRecord(P) /\ hurt.mark = p.mark /\ hurt.status = p.status
    BY DEF PlayerRecord
  <2> HIDE DEF hurt
  <2>3. dead \in PlayerRecord(P) /\ dead.mark = p.mark /\ dead.status = "DEAD"
    BY <2>2 DEF PlayerRecord, PlayStatus
  <2> HIDE DEF dead
  <2>4. /\ DescMark(dead, kMarkDead).mark = p.mark - kMarkDead
        /\ DescMark(dead, kMarkDead).status = "DEAD"
    BY <2>3 DEF DescMark, PlayerRecord
  <2>5. /\ [hurt EXCEPT !.shield_time = kShieldDefaultTime].mark = p.mark
        /\ [hurt EXCEPT !.shield_time = kShieldDefaultTime].status = p.status
    BY <2>2 DEF PlayerRecord
  <2>6. CASE hurt.HP <= 0
    BY <1>1, <1>2, <1>5, <2>1, <2>4, <2>6 DEF Settled, IsDead
  <2>7. CASE ~(hurt.HP <= 0)
    BY <1>1, <1>2, <2>1, <2>5, <2>7 DEF Settled, IsDead
  <2>8. QED BY <2>6, <2>7
<1>6. QED BY <1>1, <1>3, <1>4, <1>5

(* In a meeting at most one dies, and then the other one earns.              *)
LEMMA MeetSettles ==
    ASSUME NEW P, NEW p \in PlayerRecord(P), NEW o \in PlayerRecord(P)
    PROVE  LET met == Meet(p, o) IN
           \/ Settled(met.self, p, 0) /\ Settled(met.other, o, 0)
              /\ met.self.status = p.status /\ met.other.status = o.status
           \/ Settled(met.self, p, 0) /\ Settled(met.other, o, kMarkKill)
              /\ Killed(p) /\ IsDead(met.self) /\ met.other.status = o.status
           \/ Settled(met.self, p, kMarkKill) /\ Settled(met.other, o, 0)
              /\ Killed(o) /\ IsDead(met.other) /\ met.self.status = p.status
<1>1. ASSUME NEW q \in PlayerRecord(P)
      PROVE  /\ Settled(q, q, 0) /\ Settled(IncrMark(q, kMarkKill), q, kMarkKill)
             /\ Settled(IncrMark(q, 0), q, 0)
             /\ IncrMark(q, kMarkKill).status = q.status
             /\ IncrMark(q, 0).status = q.status
  <2>1. q.mark \in Int /\ kMarkDead \in Int /\ kMarkKill \in Int /\ 0 \in Int
    BY PlayerAssumption DEF PlayerRecord
  <2>2. /\ IncrMark(q, kMarkKill).status = q.status
        /\ IncrMark(q, kMarkKill).mark = q.mark + kMarkKill
        /\ IncrMark(q, 0).status = q.status
        /\ IncrMark(q, 0).mark = q.mark + 0
    BY <2>1, IncrMarkType
  <2>3. QED BY <2>1, <2>2 DEF Settled, IsDead
<1>2. ASSUME NEW q \in PlayerRecord(P), NEW r \in PlayerRecord(P)
      PROVE  \/ /\ Settled(Injured(q), q, 0) /\ Settled(IncrMark(r, InjuryMark(q)), r, 0)
                /\ Injured(q).status = q.status
                /\ IncrMark(r, InjuryMark(q)).status = r.status
             \/ /\ Settled(Injured(q), q, 0) /\ IsDead(Injured(q)) /\ Killed(q)
                /\ Settled(IncrMark(r, InjuryMark(q)), r, kMarkKill)
                /\ IncrMark(r, InjuryMark(q)).status = r.status
  <2>1. CASE Killed(q)
    BY <1>1, <2>1, InjuredSettles DEF InjuryMark
  <2>2. CASE ~Killed(q)
    <3>1. Injured(q).status = q.status
      <4>1. IsDead(Injured(q)) <=> IsDead(q)
        BY <2>2, InjuredSettles DEF Settled
      <4>2. QED BY <4>1, InjuredType DEF IsDead, PlayerRecord, PlayStatus
    <3>2. QED BY <1>1, <2>2, <3>1, InjuredSettles DEF InjuryMark
  <2>3. QED BY <2>1, <2>2
<1>3. CASE o.invincible_time > 0 /\ p.invincible_time = 0
  <2>1. Meet(p, o).self = Injured(p) /\ Meet(p, o).other = IncrMark(o, InjuryMark(p))
    BY <1>3 DEF Meet
  <2>2. QED BY <1>2, <2>1
<1>4. CASE p.invincible_time > 0 /\ o.invincible_time = 0
  <2>1. Meet(p, o).self = IncrMark(p, InjuryMark(o)) /\ Meet(p, o).other = Injured(o)
    BY <1>4 DEF Meet
  <2>2. QED BY <1>2, <2>1
<1>5. CASE /\ ~(o.invincible_time > 0 /\ p.invincible_time = 0)
           /\ ~(p.invincible_time > 0 /\ o.invincible_time = 0)
  <2>1. Meet(p, o).self = p /\ Meet(p, o).other = o
    BY <1>5 DEF Meet
  <2>2. QED BY <1>1, <2>1
<1>6. QED BY <1>3, <1>4, <1>5

(* A potion itself changes no marks.                                         *)
LEMMA PotionEffectMark ==
    ASSUME NEW P, NEW p \in PlayerRecord(P), NEW t \in PotionType
    PROVE  PotionEffect(p, t).mark = p.mark
<1>1. CASE t = "REBIRTH"
  BY <1>1 DEF PotionEffect, IncrHP, PlayerRecord
<1>2. CASE t # "REBIRTH"
  BY <1>2 DEF PotionEffect, PlayerRecord, PotionType, NoPotion
<1>3. QED BY <1>1, <1>2

(* A potion is worth kMarkPick, and nobody dies of it.                       *)
LEMMA PickUpSettles ==
    ASSUME NEW P, NEW p \in PlayerRecord(P), NEW t \in PotionType
    PROVE  Settled(PickUp(p, t), p, IF t = NoPotion THEN 0 ELSE kMarkPick)
<1>1. p.mark \in Int /\ kMarkPick \in Int /\ kMarkDead \in Int
  BY PlayerAssumption DEF PlayerRecord
<1>2. CASE t = NoPotion
  BY <1>1, <1>2 DEF PickUp, Settled
<1>3. CASE t # NoPotion
  <2>1. PICK q \in PlayerRecord(P) :
          q = PotionEffect(p, t) /\ q.status = p.status /\ q.mark = p.mark
    BY PotionEffectType, PotionEffectMark
  <2>2. PickUp(p, t) = IncrMark(q, kMarkPick)
    BY <1>3, <2>1 DEF PickUp
  <2>3. /\ IncrMark(q, kMarkPick).mark = q.mark + kMarkPick
        /\ IncrMark(q, kMarkPick).status = q.status
    BY <1>1, IncrMarkType
  <2>4. QED BY <1>1, <1>3, <2>1, <2>2, <2>3 DEF Settled, IsDead
<1>4. QED BY <1>2, <1>3

(* The marks of a step that MarksBalance is about balance.                   *)
Balanced ==
    Marks' - Marks =
       LET deaths == Cardinality(Dead' \ Dead) IN
       (kMarkKill * (IF SelfKill THEN deaths - 1 ELSE deaths))
         - (kMarkDead * deaths)
         + (kMarkBombMud * Cardinality(MudCells \ MudCells'))
         + (IF PicksUp THEN kMarkPick ELSE 0)

(* Where one player earns and the others at most die, the sum of the marks   *)
(* changes by what he earns and what the deaths cost.                        *)
LEMMA MarksSettled ==
    ASSUME TypeOK, TypeOK', Joined' = Joined, NEW o \in Joined, NEW e \in Int,
           \A p \in Joined :
             Settled(player_map'[p], player_map[p], IF p = o THEN e ELSE 0)
    PROVE  /\ Marks' - Marks = e - kMarkDead * Cardinality(Dead' \ Dead)
           /\ Cardinality(Dead' \ Dead) \in Nat
<1> DEFINE m == [p \in Joined |-> player_map[p].mark]
           k == [p \in Joined |-> player_map'[p].mark]
           D == Dead' \ Dead
<1>1. IsFiniteSet(Joined)
  BY JoinedFinite DEF TypeOK
<1>2. m \in [Joined -> Int] /\ k \in [Joined -> Int]
  BY DEF TypeOK, PlayerRecord
<1>3. D \in SUBSET Joined
  BY DEF Dead
<1>4. \A p \in Joined : p \in D <=> IsDead(player_map'[p]) /\ ~IsDead(player_map[p])
  BY DEF Dead, Alive
<1>5. kMarkDead \in Int
  BY PlayerAssumption
<1>6. \A p \in Joined : k[p] = m[p] - (IF p \in D THEN kMarkDead ELSE 0)
                                    + (IF p = o THEN e ELSE 0)
  <2>1. ASSUME NEW p \in Joined
        PROVE  k[p] = m[p] - (IF p \in D THEN kMarkDead ELSE 0)
                           + (IF p = o THEN e ELSE 0)
    <3>1. k[p] = player_map'[p].mark /\ m[p] = player_map[p].mark /\ m[p] \in Int
      BY <1>2
    <3>2. p \in D <=> IsDead(player_map'[p]) /\ ~IsDead(player_map[p])
      BY <1>4
    <3> HIDE DEF m, k, D
    <3>3. k[p] = m[p] + (IF p = o THEN e ELSE 0) - (IF p \in D THEN kMarkDead ELSE 0)
      BY <3>1, <3>2 DEF Settled
    <3>4. QED BY <1>5, <3>1, <3>3
  <2>2. QED BY <2>1
<1>7. Marks = SumFunction(m) /\ Marks' = SumFunction(k)
  BY DEF Marks
<1>8. Cardinality(D) \in Nat
  BY <1>1, <1>3, FS_Subset, FS_CardinalityType
<1> HIDE DEF m, k, D
<1>9. SumFunction(k) - SumFunction(m) = e - kMarkDead * Cardinality(D)
  <2>1. Moved(Joined, m, k, D, kMarkDead, o, e)
    BY <1>1, <1>2, <1>3, <1>5, <1>6 DEF Moved
  <2>2. QED BY <2>1, SumMoves
<1>10. QED BY <1>7, <1>8, <1>9 DEF D

(* A step in which nobody earns, nobody dies and no block changes balances.  *)
LEMMA QuietBalances ==
    ASSUME TypeOK, TypeOK', Joined' = Joined, Joined # {}, block' = block,
           phase' # "idle" \/ phase # "meet",
           \A p \in Joined : /\ player_map'[p].mark = player_map[p].mark
                             /\ player_map'[p].status = player_map[p].status
    PROVE  Balanced
<1>1. Dead' = Dead
  BY DEF Dead, Alive, IsDead
<1>2. ~SelfKill /\ ~PicksUp
  BY <1>1 DEF SelfKill, PicksUp
<1>3. Cardinality(Dead' \ Dead) = 0 /\ Cardinality(MudCells \ MudCells') = 0
  BY <1>1, FS_EmptySet DEF MudCells
<1>4. Marks' = Marks
  BY DEF Marks
<1>5. Marks \in Int
  <2> DEFINE m == [p \in Joined |-> player_map[p].mark]
  <2>1. m \in [Joined -> Int] /\ IsFiniteSet(Joined)
    BY JoinedFinite DEF TypeOK, PlayerRecord
  <2>2. SumFunction(m) \in Int
    <3> HIDE DEF m
    <3> QED BY <2>1, SumAdds
  <2>3. QED BY <2>2 DEF Marks
<1>6. kMarkKill * 0 = 0 /\ kMarkDead * 0 = 0 /\ kMarkBombMud * 0 = 0
  BY PlayerAssumption
<1>7. QED BY <1>2, <1>3, <1>4, <1>5, <1>6 DEF Balanced

(* A meeting: who kills earns what a kill is worth.                          *)
LEMMA MeetOtherBalances ==
    ASSUME TypeOK, TypeOK', NEW o \in PlayerId, MeetOther(o)
    PROVE  Balanced
<1> DEFINE met == Meet(player_map[mover], player_map[o])
<1>1. /\ mover \in Joined /\ o \in Joined /\ mover # o
      /\ player_map[mover] \in PlayerRecord(Cell)
      /\ player_map[o] \in PlayerRecord(Cell)
  BY DEF TypeOK, MeetOther
<1>2. player_map' = [player_map EXCEPT ![mover] = met.self, ![o] = met.other]
  BY DEF MeetOther
<1>3. \/ /\ Settled(met.self, player_map[mover], 0)
         /\ Settled(met.other, player_map[o], 0)
         /\ met.self.status = player_map[mover].status
         /\ met.other.status = player_map[o].status
      \/ /\ Settled(met.self, player_map[mover], 0)
         /\ Settled(met.other, player_map[o], kMarkKill)
         /\ Killed(player_map[mover]) /\ IsDead(met.self)
         /\ met.other.status = player_map[o].status
      \/ /\ Settled(met.self, player_map[mover], kMarkKill)
         /\ Settled(met.other, player_map[o], 0)
         /\ Killed(player_map[o]) /\ IsDead(met.other)
         /\ met.self.status = player_map[mover].status
  BY <1>1, MeetSettles
<1> HIDE DEF met
<1>4. Joined' = Joined
  BY <1>2 DEF Joined
<1>5. /\ player_map'[mover] = met.self /\ player_map'[o] = met.other
      /\ \A p \in Joined \ {mover, o} : player_map'[p] = player_map[p]
  BY <1>1, <1>2 DEF TypeOK, Joined
<1>6. ~SelfKill /\ ~PicksUp /\ MudCells' = MudCells
  BY DEF MeetOther, SelfKill, PicksUp, MudCells, board
<1>7. Cardinality(MudCells \ MudCells') = 0 /\ kMarkBombMud * 0 = 0
  BY <1>6, FS_EmptySet, PlayerAssumption
<1>8. \A p \in Joined : Settled(player_map[p], player_map[p], 0)
  BY PlayerAssumption DEF TypeOK, PlayerRecord, Settled, IsDead
<1>9. kMarkKill \in Int /\ kMarkDead \in Int /\ 0 \in Int
  BY PlayerAssumption
<1>10. \A p \in Joined : p \in Dead' \ Dead <=> IsDead(player_map'[p]) /\ ~IsDead(player_map[p])
  BY <1>4 DEF Dead, Alive
<1>11. Dead' \ Dead \subseteq {mover, o}
  BY <1>4, <1>5, <1>10 DEF Dead
<1>12. CASE /\ Settled(met.self, player_map[mover], 0)
             /\ Settled(met.other, player_map[o], 0)
             /\ met.self.status = player_map[mover].status
             /\ met.other.status = player_map[o].status
  <2>1. \A p \in Joined :
          Settled(player_map'[p], player_map[p], IF p = o THEN 0 ELSE 0)
    BY <1>1, <1>5, <1>8, <1>12
  <2>2. Dead' \ Dead = {}
    BY <1>1, <1>4, <1>5, <1>10, <1>12 DEF IsDead, Dead
  <2>3. Cardinality(Dead' \ Dead) = 0
    BY <2>2, FS_EmptySet
  <2>4. Marks' - Marks = 0 - kMarkDead * Cardinality(Dead' \ Dead)
    BY <1>1, <1>4, <1>9, <2>1, MarksSettled
  <2>5. kMarkKill * 0 = 0 /\ kMarkDead * 0 = 0
    BY <1>9
  <2>6. QED BY <1>6, <1>7, <2>3, <2>4, <2>5 DEF Balanced
<1>13. CASE /\ Settled(met.self, player_map[mover], 0)
             /\ Settled(met.other, player_map[o], kMarkKill)
             /\ Killed(player_map[mover]) /\ IsDead(met.self)
             /\ met.other.status = player_map[o].status
  <2>1. \A p \in Joined :
          Settled(player_map'[p], player_map[p], IF p = o THEN kMarkKill ELSE 0)
    BY <1>1, <1>5, <1>8, <1>13
  <2>2. Dead' \ Dead = {mover}
    BY <1>1, <1>4, <1>5, <1>10, <1>13 DEF IsDead, Dead, Killed
  <2>3. Cardinality(Dead' \ Dead) = 1
    BY <2>2, FS_Singleton
  <2>4. Marks' - Marks = kMarkKill - kMarkDead * Cardinality(Dead' \ Dead)
    BY <1>1, <1>4, <1>9, <2>1, MarksSettled
  <2>5. kMarkKill * 1 = kMarkKill /\ kMarkDead * 1 = kMarkDead
    BY <1>9
  <2>6. QED BY <1>6, <1>7, <1>9, <2>3, <2>4, <2>5 DEF Balanced
<1>14. CASE /\ Settled(met.self, player_map[mover], kMarkKill)
             /\ Settled(met.other, player_map[o], 0)
             /\ Killed(player_map[o]) /\ IsDead(met.other)
             /\ met.self.status = player_map[mover].status
  <2>1. \A p \in Joined :
          Settled(player_map'[p], player_map[p], IF p = mover THEN kMarkKill ELSE 0)
    BY <1>1, <1>5, <1>8, <1>14
  <2>2. Dead' \ Dead = {o}
    BY <1>1, <1>4, <1>5, <1>10, <1>14 DEF IsDead, Dead, Killed
  <2>3. Cardinality(Dead' \ Dead) = 1
    BY <2>2, FS_Singleton
  <2>4. Marks' - Marks = kMarkKill - kMarkDead * Cardinality(Dead' \ Dead)
    BY <1>1, <1>4, <1>9, <2>1, MarksSettled
  <2>5. kMarkKill * 1 = kMarkKill /\ kMarkDead * 1 = kMarkDead
    BY <1>9
  <2>6. QED BY <1>6, <1>7, <1>9, <2>3, <2>4, <2>5 DEF Balanced
<1>15. QED BY <1>3, <1>12, <1>13, <1>14

(* The pickup at the end of a move is worth kMarkPick.                       *)
LEMMA FinishMoveBalances ==
    ASSUME TypeOK, TypeOK', FinishMove
    PROVE  Balanced
<1> DEFINE t == potion_type[player_map[mover].pos]
           picked == PickUp(player_map[mover], t)
           e == IF t = NoPotion THEN 0 ELSE kMarkPick
<1>1. mover \in Joined /\ player_map[mover] \in PlayerRecord(Cell)
  BY DEF TypeOK, FinishMove
<1>2. t \in PotionType
  BY <1>1 DEF TypeOK, PlayerRecord
<1>3. picked.status = player_map[mover].status /\ Settled(picked, player_map[mover], e)
  BY <1>1, <1>2, PickUpType, PickUpSettles
<1>4. player_map' = [player_map EXCEPT ![mover] = picked]
  BY DEF FinishMove
<1>5. PicksUp <=> t # NoPotion
  BY DEF PicksUp, FinishMove
<1>6. e \in Int /\ 0 \in Int /\ kMarkKill \in Int /\ kMarkDead \in Int /\ kMarkPick \in Int
  BY PlayerAssumption
<1>7. e = IF PicksUp THEN kMarkPick ELSE 0
  BY <1>5
<1> HIDE DEF picked, e
<1>8. Joined' = Joined
  BY <1>4 DEF Joined
<1>9. \A p \in Joined : player_map'[p] = IF p = mover THEN picked ELSE player_map[p]
  BY <1>4 DEF TypeOK, Joined
<1>10. \A p \in Joined : Settled(player_map[p], player_map[p], 0)
  BY PlayerAssumption DEF TypeOK, PlayerRecord, Settled, IsDead
<1>11. \A p \in Joined :
         Settled(player_map'[p], player_map[p], IF p = mover THEN e ELSE 0)
  BY <1>3, <1>9, <1>10
<1>12. Marks' - Marks = e - kMarkDead * Cardinality(Dead' \ Dead)
  BY <1>1, <1>6, <1>8, <1>11, MarksSettled
<1>13. Dead' \ Dead = {}
  BY <1>3, <1>8, <1>9 DEF Dead, Alive, IsDead
<1>14. ~SelfKill /\ MudCells' = MudCells
  BY DEF SelfKill, FinishMove, MudCells
<1>15. Cardinality(Dead' \ Dead) = 0 /\ Cardinality(MudCells \ MudCells') = 0
  BY <1>13, <1>14, FS_EmptySet
<1>16. kMarkKill * 0 = 0 /\ kMarkDead * 0 = 0 /\ kMarkBombMud * 0 = 0
  BY PlayerAssumption
<1>17. QED BY <1>6, <1>7, <1>12, <1>14, <1>15, <1>16 DEF Balanced

(* What a blast is worth to the owner of the bomb.                           *)
Earned(owner, hit, mud) ==
    kMarkKill * Cardinality({v \in hit \ {owner} : Killed(player_map[v])})
      + kMarkBombMud * Cardinality(mud)

(* A blast: who is hit pays if he dies, and the owner earns.                 *)
LEMMA AfterBlastSettles ==
    ASSUME TypeOK, NEW p \in Joined, NEW owner, NEW hit \in SUBSET Joined,
           NEW mud \in SUBSET Cell
    PROVE  /\ Settled(AfterBlast(p, owner, hit, mud), player_map[p],
                      IF p = owner THEN Earned(owner, hit, mud) ELSE 0)
           /\ IsDead(AfterBlast(p, owner, hit, mud)) /\ ~IsDead(player_map[p])
                <=> p \in hit /\ Killed(player_map[p])
           /\ Earned(owner, hit, mud) \in Int
<1> DEFINE r == IF p \in hit THEN Injured(player_map[p]) ELSE player_map[p]
           spent == [r EXCEPT !.bomb_now_num = @ - 1]
           kills == {v \in hit \ {owner} : Killed(player_map[v])}
           earned == kMarkKill * Cardinality(kills) + kMarkBombMud * Cardinality(mud)
<1>1. player_map[p] \in PlayerRecord(Cell)
  BY DEF TypeOK
<1>2. r \in PlayerRecord(Cell)
  BY <1>1, InjuredType
<1>3. player_map[p].mark \in Int /\ kMarkDead \in Int
  BY <1>1, PlayerAssumption DEF PlayerRecord
<1>4. /\ Settled(r, player_map[p], 0)
      /\ IsDead(r) /\ ~IsDead(player_map[p]) <=> p \in hit /\ Killed(player_map[p])
  <2>1. CASE p \in hit
    BY <1>1, <2>1, InjuredSettles
  <2>2. CASE p \notin hit
    BY <1>3, <2>2 DEF Settled, IsDead
  <2>3. QED BY <2>1, <2>2
<1>5. earned \in Int
  <2>1. Cardinality(kills) \in Nat
    BY JoinedFinite, FS_Subset, FS_CardinalityType DEF TypeOK
  <2>2. Cardinality(mud) \in Nat
    BY CellFinite, FS_Subset, FS_CardinalityType
  <2>3. kMarkKill \in Int /\ kMarkBombMud \in Int
    BY PlayerAssumption
  <2>4. QED
    <3> HIDE DEF kills
    <3> QED BY <2>1, <2>2, <2>3
<1>6. /\ AfterBlast(p, owner, hit, mud) = IF p # owner THEN r ELSE IncrMark(spent, earned)
      /\ Earned(owner, hit, mud) = earned
  BY DEF AfterBlast, Earned
<1> HIDE DEF r, earned
<1>7. spent \in PlayerRecord(Cell) /\ spent.mark = r.mark /\ spent.status = r.status
  BY <1>2 DEF PlayerRecord
<1> HIDE DEF spent
<1>8. /\ IncrMark(spent, earned).mark = spent.mark + earned
      /\ IncrMark(spent, earned).status = spent.status
  BY <1>5, <1>7, IncrMarkType
<1>9. r.mark \in Int
  BY <1>2 DEF PlayerRecord
<1>10. CASE p # owner
  BY <1>4, <1>5, <1>6, <1>10
<1>11. CASE p = owner
  <2>1. AfterBlast(p, owner, hit, mud) = IncrMark(spent, earned)
    BY <1>6, <1>11
  <2>2. Settled(IncrMark(spent, earned), player_map[p], earned)
    BY <1>3, <1>4, <1>5, <1>7, <1>8, <1>9 DEF Settled, IsDead
  <2>3. IsDead(IncrMark(spent, earned)) <=> IsDead(r)
    BY <1>7, <1>8 DEF IsDead
  <2>4. QED BY <1>4, <1>5, <1>6, <1>11, <2>1, <2>2, <2>3
<1>12. QED BY <1>10, <1>11

(* An explosion: every death but the owner's own earns him a kill.           *)
LEMMA ExplodeBalances ==
    ASSUME TypeOK, TypeOK', BombAccounting, Explode
    PROVE  Balanced
<1> DEFINE b      == Head(bomb_que)
           struck == BlastCells(bomb_map[b].pos, bomb_map[b].range)
           mud    == {c \in Swept(bomb_map[b].pos, struck) : IsBombAble(c)}
           hit    == UNION {players[c] : c \in struck}
           owner  == bomb_map[b].player_id
           kills  == {v \in hit \ {owner} : Killed(player_map[v])}
           earned == Earned(owner, hit, mud)
           deaths == {v \in hit : Killed(player_map[v])}
<1>1. b \in Bombs /\ bomb_map[b].pos \in Cell
  BY DEF TypeOK, Explode, BombRecord
<1>2. owner \in Joined
  BY <1>1 DEF BombAccounting
<1>3. struck \subseteq Cell
  BY <1>1 DEF BlastCells, ArmCells
<1>4. mud \in SUBSET Cell
  BY <1>3 DEF Swept
<1>5. hit \in SUBSET Joined
  BY <1>3 DEF TypeOK
<1>6. player_map' = [p \in Joined |-> AfterBlast(p, owner, hit, mud)]
  BY DEF Explode
<1>7. \A p \in Joined :
        /\ Settled(AfterBlast(p, owner, hit, mud), player_map[p],
                   IF p = owner THEN earned ELSE 0)
        /\ IsDead(AfterBlast(p, owner, hit, mud)) /\ ~IsDead(player_map[p])
             <=> p \in hit /\ Killed(player_map[p])
        /\ earned \in Int
  BY <1>4, <1>5, AfterBlastSettles
<1>8. MudCells \ MudCells' = mud
  <2>1. block' = [c \in Cell |-> IF c \in mud THEN NoBlock ELSE block[c]]
    BY DEF Explode
  <2>2. \A c \in mud : c \in Cell /\ block[c].block_type = "MUD"
    BY <1>4 DEF IsBombAble
  <2> HIDE DEF mud
  <2>3. QED BY <2>1, <2>2 DEF MudCells, NoBlock
<1>9. phase = "explode" /\ bomb_que # << >>
  BY DEF Explode
<1>10. deaths \in SUBSET Joined /\ kills = deaths \ {owner}
  BY <1>5
<1>11. IsFiniteSet(deaths) /\ Cardinality(deaths) \in Nat
  BY <1>10, JoinedFinite, FS_Subset, FS_CardinalityType DEF TypeOK
<1>12. kMarkKill \in Int /\ kMarkDead \in Int /\ kMarkBombMud \in Int
  BY PlayerAssumption
<1>13. Cardinality(mud) \in Nat
  BY <1>4, CellFinite, FS_Subset, FS_CardinalityType
<1>14. SelfKill <=> owner \in Dead' \ Dead
  BY <1>1, <1>9 DEF SelfKill
<1>15. ~PicksUp
  BY <1>9 DEF PicksUp
<1> HIDE DEF b, mud, hit, owner, kills
<1>16. Joined' = Joined
  BY <1>6 DEF Joined
<1>17. Dead' \ Dead = deaths
  <2>1. \A p \in Joined : player_map'[p] = AfterBlast(p, owner, hit, mud)
    BY <1>6
  <2>2. \A p \in Joined : IsDead(player_map'[p]) /\ ~IsDead(player_map[p]) <=> p \in deaths
    BY <1>7, <2>1
  <2> HIDE DEF deaths
  <2>3. QED BY <1>10, <1>16, <2>2 DEF Dead, Alive
<1> HIDE DEF deaths, earned
<1>18. Marks' - Marks = earned - kMarkDead * Cardinality(deaths)
  <2>1. earned \in Int
    BY <1>2, <1>7
  <2>2. \A p \in Joined :
          Settled(player_map'[p], player_map[p], IF p = owner THEN earned ELSE 0)
    BY <1>6, <1>7
  <2>3. QED BY <1>2, <1>16, <1>17, <2>1, <2>2, MarksSettled
<1>19. Cardinality(kills) = IF SelfKill THEN Cardinality(deaths) - 1 ELSE Cardinality(deaths)
  <2>1. CASE owner \in deaths
    BY <1>10, <1>11, <1>14, <1>17, <2>1, FS_RemoveElement
  <2>2. CASE owner \notin deaths
    <3>1. kills = deaths
      BY <1>10, <2>2
    <3>2. QED BY <1>14, <1>17, <2>2, <3>1
  <2>3. QED BY <2>1, <2>2
<1>20. QED
  <2>1. PICK i, d, m \in Int :
          /\ i = kMarkKill * Cardinality(kills)
          /\ d = kMarkDead * Cardinality(deaths)
          /\ m = kMarkBombMud * Cardinality(mud)
    <3>1. Cardinality(kills) \in Int
      BY <1>11, <1>19
    <3>2. QED BY <1>11, <1>12, <1>13, <3>1
  <2>2. Marks' - Marks = (i + m) - d
    BY <1>18, <2>1 DEF earned, Earned, kills
  <2>3. Balanced <=> Marks' - Marks = i - d + m + 0
    BY <1>8, <1>15, <1>17, <1>19, <2>1 DEF Balanced
  <2>4. QED BY <2>1, <2>2, <2>3

(* Every step that MarksBalance is about.                                    *)
LEMMA BalanceNext ==
    ASSUME TypeOK, TypeOK', BombAccounting, [Next]_vars, Joined # {}, Joined' = Joined
    PROVE  Balanced
<1>1. ASSUME UNCHANGED <<player_map, block>>, phase' # "idle" \/ phase # "meet"
      PROVE  Balanced
  BY <1>1, QuietBalances
<1>2. CASE UNCHANGED vars
  <2>1. UNCHANGED <<player_map, block, phase>>
    BY <1>2 DEF vars, board
  <2>2. QED BY <1>1, <2>1
<1>3. ASSUME NEW p \in PlayerId, NEW d \in Direction,
             PlaceRefused(p) \/ StaySilent(p) \/ PushBomb(p, d) \/ MoveRefused(p, d)
      PROVE  Balanced
  BY <1>1, <1>3
     DEF PlaceRefused, StaySilent, PushBomb, MoveRefused, CanAct, board
<1>4. ASSUME NEW p \in PlayerId, NEW b \in BombId, PlaceBomb(p, b)
      PROVE  Balanced
  <2>1. player_map' = [player_map EXCEPT ![p].bomb_now_num = @ + 1]
    BY <1>4 DEF PlaceBomb
  <2>2. \A q \in Joined : /\ player_map'[q].mark = player_map[q].mark
                          /\ player_map'[q].status = player_map[q].status
    BY <2>1 DEF TypeOK, PlayerRecord, Joined
  <2>3. block' = block /\ phase # "meet"
    BY <1>4 DEF PlaceBomb, CanAct
  <2>4. QED BY <2>2, <2>3, QuietBalances
<1>5. ASSUME NEW p \in PlayerId, NEW d \in Direction, MoveTo(p, d)
      PROVE  Balanced
  <2>1. player_map' = [player_map EXCEPT ![p].pos = Target(p, d)]
    BY <1>5 DEF MoveTo
  <2>2. \A q \in Joined : /\ player_map'[q].mark = player_map[q].mark
                          /\ player_map'[q].status = player_map[q].status
    BY <2>1 DEF TypeOK, PlayerRecord, Joined
  <2>3. block' = block /\ phase # "meet"
    BY <1>5 DEF MoveTo, CanAct
  <2>4. QED BY <2>2, <2>3, QuietBalances
<1>6. ASSUME NEW b \in BombId, GlideBomb(b) \/ StopBomb(b)
      PROVE  Balanced
  BY <1>1, <1>6 DEF GlideBomb, StopBomb, board
<1>7. CASE FlushTime \/ BurnFuses \/ SkipExploded
  BY <1>1, <1>7 DEF FlushTime, BurnFuses, SkipExploded, board
<1>8. CASE FinishFlush
  <2>1. player_map' = [p \in Joined |->
          IF p \in Alive THEN PlayerFlushTime(player_map[p]) ELSE player_map[p]]
    BY <1>8 DEF FinishFlush
  <2>2. \A p \in Joined :
          /\ PlayerFlushTime(player_map[p]).mark = player_map[p].mark
          /\ PlayerFlushTime(player_map[p]).status = player_map[p].status
    BY PlayerFlushTimeType DEF TypeOK
  <2>3. \A p \in Joined : /\ player_map'[p].mark = player_map[p].mark
                          /\ player_map'[p].status = player_map[p].status
    BY <2>1, <2>2
  <2>4. block' = block /\ phase # "meet"
    BY <1>8 DEF FinishFlush
  <2>5. QED BY <2>3, <2>4, QuietBalances
<1>9. /\ ~Reset
      /\ \A l \in Layouts : ~InitGame(l)
      /\ \A p \in PlayerId : ~AddPlayer(p)
  <2>1. ~Reset
    BY DEF Reset, Joined
  <2>2. \A l \in Layouts : ~InitGame(l)
    BY DEF InitGame, TypeOK
  <2>3. ASSUME NEW p \in PlayerId, AddPlayer(p) PROVE FALSE
    <3>1. Joined' = Joined \cup {p} /\ p \notin Joined
      BY <2>3 DEF AddPlayer, Joined
    <3>2. QED BY <3>1
  <2>4. QED BY <2>1, <2>2, <2>3
<1>10. "MOVE_UP" \in Direction
  BY DEF Direction
<1>11. CASE Call
  BY <1>3, <1>4, <1>5, <1>7, <1>9, <1>10, <1>11 DEF Call
<1>12. CASE Continue
  BY <1>6, <1>7, <1>8, <1>12, MeetOtherBalances, FinishMoveBalances, ExplodeBalances
     DEF Continue
<1>13. QED BY <1>2, <1>11, <1>12 DEF Next

(* The marks of a match balance: they change in sum by what deaths cost and  *)
(* kills, mud and potions earn, whoever is credited and in whatever order    *)
(* FlushTime's queue and the meetings of a move are worked off.              *)
THEOREM MarksAlwaysBalance == Spec => MarksBalance
<1>1. TypeOK /\ TypeOK' /\ BombAccounting /\ [Next]_vars =>
        [Joined # {} /\ Joined' = Joined =>
           Marks' - Marks =
              LET deaths == Cardinality(Dead' \ Dead) IN
              (kMarkKill * (IF SelfKill THEN deaths - 1 ELSE deaths))
                - (kMarkDead * deaths)
                + (kMarkBombMud * Cardinality(MudCells \ MudCells'))
                + (IF PicksUp THEN kMarkPick ELSE 0)]_vars
  BY BalanceNext DEF Balanced
<1>2. QED BY <1>1, TypeCorrect, BombsAccounted, PTL DEF Spec, MarksBalance

=============================================================================
