--------------------------- MODULE IdentifiersProofs -------------------------
(* The counters of identifiers, for every kIncrMaxID and any number of       *)
(* matches: whoever they are given to, nobody loses his record, his colour,  *)
(* his bomb or his actions to somebody else.                                 *)
EXTENDS Identifiers, FiniteSetTheorems, TLAPS

-----------------------------------------------------------------------------
(* The counter.                                                              *)

(* The counter starts again at kIncrMaxID.                                   *)
LEMMA NextIdValue ==
    ASSUME NEW id \in 0 .. kIncrMaxID - 1
    PROVE  /\ NextId(id) \in 0 .. kIncrMaxID - 1
           /\ NextId(id) = IF id + 1 = kIncrMaxID THEN 0 ELSE id + 1
<1>1. kIncrMaxID \in Nat \ {0}
  BY IdentifiersAssumption
<1>2. CASE id + 1 = kIncrMaxID
  <2>1. kIncrMaxID % kIncrMaxID = 0
    BY <1>1
  <2>2. QED BY <1>1, <1>2, <2>1 DEF NextId
<1>3. CASE id + 1 < kIncrMaxID
  <2>1. (id + 1) % kIncrMaxID = id + 1
    BY <1>1, <1>3
  <2>2. QED BY <1>1, <1>3, <2>1 DEF NextId
<1>4. QED BY <1>1, <1>2, <1>3

(* Consecutive identifiers have consecutive labels, also where the counter   *)
(* starts again, because kIncrMaxID is a multiple of four.                   *)
LEMMA NextIdLabel ==
    ASSUME NEW id \in 0 .. kIncrMaxID - 1
    PROVE  NextId(id) % 4 = (id + 1) % 4
<1>1. kIncrMaxID \in Nat /\ kIncrMaxID % 4 = 0
  BY IdentifiersAssumption
<1>2. QED BY <1>1, NextIdValue

-----------------------------------------------------------------------------
(* Type correctness.                                                         *)

(* Before the first match.                                                   *)
LEMMA TypeInit == Init => IdentifiersTypeOK
<1> SUFFICES ASSUME Init PROVE IdentifiersTypeOK
  OBVIOUS
<1>1. /\ DOMAIN bomb_map = {} /\ bomb_map \in [{} -> [player_id : player_map, time : 0 .. kBombDefaultTime]]
      /\ DOMAIN action_player_map = {} /\ action_player_map \in [{} -> 0 .. kPlayerDefaultSpeed]
      /\ acted \in [{} -> 0 .. kPlayerDefaultSpeed]
  BY DEF Init
<1>2. 0 \in 0 .. kIncrMaxID - 1
  BY IdentifiersAssumption
<1>3. QED BY <1>1, <1>2 DEF Init, IdentifiersTypeOK, Bombs

(* A new player.                                                             *)
LEMMA TypeAddPlayer ==
    ASSUME IdentifiersTypeOK, AddPlayer
    PROVE  IdentifiersTypeOK'
<1>1. play_id \in 0 .. kIncrMaxID - 1 /\ NextId(play_id) \in 0 .. kIncrMaxID - 1
  BY NextIdValue DEF IdentifiersTypeOK
<1>2. player_map' \subseteq 0 .. kIncrMaxID - 1 /\ player_map \subseteq player_map'
  BY <1>1 DEF AddPlayer, IdentifiersTypeOK
<1>3. acted' \in [player_map' -> 0 .. kPlayerDefaultSpeed]
  BY IdentifiersAssumption DEF AddPlayer, IdentifiersTypeOK
<1>4. bomb_map' \in [Bombs' -> [player_id : player_map', time : 0 .. kBombDefaultTime]]
  BY <1>2 DEF AddPlayer, IdentifiersTypeOK, Bombs
<1>5. wrapped' \in BOOLEAN
  BY DEF AddPlayer, IdentifiersTypeOK
<1>6. QED BY <1>1, <1>2, <1>3, <1>4, <1>5 DEF AddPlayer, IdentifiersTypeOK, Bombs

(* An action is charged to a player who may still act.                       *)
LEMMA TypeSpend ==
    ASSUME IdentifiersTypeOK, NEW p \in player_map, CanAct(p),
           acted[p] <= Spent(p), SpendAction(p)
    PROVE  /\ DOMAIN action_player_map' = DOMAIN action_player_map \cup {p}
           /\ action_player_map' \in [DOMAIN action_player_map \cup {p} -> 0 .. kPlayerDefaultSpeed]
           /\ acted' \in [player_map -> 0 .. kPlayerDefaultSpeed]
           /\ acted' = [acted EXCEPT ![p] = acted[p] + 1]
           /\ acted[p] + 1 \in 1 .. kPlayerDefaultSpeed
           /\ \A q \in player_map : Spent(q)' = IF q = p THEN Spent(p) + 1 ELSE Spent(q)
<1>1. kPlayerDefaultSpeed \in Nat \ {0}
  BY IdentifiersAssumption
<1>2. Spent(p) \in 0 .. kPlayerDefaultSpeed /\ Spent(p) < kPlayerDefaultSpeed
  BY <1>1 DEF Spent, CanAct, IdentifiersTypeOK
<1>3. acted[p] \in 0 .. kPlayerDefaultSpeed
  BY DEF IdentifiersTypeOK
<1>4. Spent(p) + 1 \in 0 .. kPlayerDefaultSpeed /\ acted[p] + 1 \in 1 .. kPlayerDefaultSpeed
  BY <1>1, <1>2, <1>3
<1>5. action_player_map' = [q \in DOMAIN action_player_map \cup {p} |->
                              IF q = p THEN Spent(p) + 1 ELSE action_player_map[q]]
  BY DEF SpendAction
<1>6. action_player_map' \in [DOMAIN action_player_map \cup {p} -> 0 .. kPlayerDefaultSpeed]
  BY <1>4, <1>5 DEF IdentifiersTypeOK
<1>7. \A q \in player_map : Spent(q)' = IF q = p THEN Spent(p) + 1 ELSE Spent(q)
  <2>1. ASSUME NEW q \in player_map
        PROVE  Spent(q)' = IF q = p THEN Spent(p) + 1 ELSE Spent(q)
    <3>1. Spent(q)' = IF q \in DOMAIN action_player_map' THEN action_player_map'[q] ELSE 0
      BY DEF Spent
    <3>2. CASE q = p
      BY <1>5, <3>1, <3>2
    <3>3. CASE q # p
      BY <1>5, <3>1, <3>3 DEF Spent
    <3>4. QED BY <3>2, <3>3
  <2>2. QED BY <2>1
<1>8. acted' = [acted EXCEPT ![p] = acted[p] + 1]
  BY DEF SpendAction
<1>9. acted' \in [player_map -> 0 .. kPlayerDefaultSpeed]
  BY <1>4, <1>8 DEF IdentifiersTypeOK
<1>10. QED BY <1>4, <1>5, <1>6, <1>7, <1>8, <1>9

(* What an action leaves of the types.                                       *)
LEMMA TypeAct ==
    ASSUME IdentifiersTypeOK, NEW p \in player_map, Act(p), acted[p] <= Spent(p)
    PROVE  IdentifiersTypeOK'
<1>1. CanAct(p) /\ SpendAction(p)
  BY DEF Act
<1>2. dead' \subseteq player_map
  BY DEF Act, Alive, IdentifiersTypeOK
<1>3. /\ DOMAIN action_player_map' \subseteq 0 .. kIncrMaxID - 1
      /\ action_player_map' \in [DOMAIN action_player_map' -> 0 .. kPlayerDefaultSpeed]
      /\ acted' \in [player_map -> 0 .. kPlayerDefaultSpeed]
  BY <1>1, TypeSpend DEF IdentifiersTypeOK
<1>4. UNCHANGED <<game_status, game_now_round, player_map, bomb_map, play_id, bomb_id, wrapped>>
  BY DEF Act, counters
<1>5. QED BY <1>2, <1>3, <1>4 DEF IdentifiersTypeOK, Bombs

(* A bomb takes the next identifier.                                         *)
LEMMA TypePlaceBomb ==
    ASSUME IdentifiersTypeOK, NEW p \in player_map, PlaceBomb(p), acted[p] <= Spent(p)
    PROVE  IdentifiersTypeOK'
<1>1. CanAct(p) /\ SpendAction(p)
  BY DEF PlaceBomb
<1>2. bomb_id \in 0 .. kIncrMaxID - 1 /\ NextId(bomb_id) \in 0 .. kIncrMaxID - 1
  BY NextIdValue DEF IdentifiersTypeOK
<1>3. bomb_map' = [b \in Bombs \cup {bomb_id} |->
                     IF b = bomb_id THEN [player_id |-> p, time |-> kBombDefaultTime]
                     ELSE bomb_map[b]]
  BY DEF PlaceBomb, NewBombId
<1>4. kBombDefaultTime \in 0 .. kBombDefaultTime
  BY IdentifiersAssumption
<1>5. /\ Bombs' \subseteq 0 .. kIncrMaxID - 1
      /\ bomb_map' \in [Bombs' -> [player_id : player_map, time : 0 .. kBombDefaultTime]]
  BY <1>2, <1>3, <1>4 DEF Bombs, IdentifiersTypeOK
<1>6. /\ DOMAIN action_player_map' \subseteq 0 .. kIncrMaxID - 1
      /\ action_player_map' \in [DOMAIN action_player_map' -> 0 .. kPlayerDefaultSpeed]
      /\ acted' \in [player_map -> 0 .. kPlayerDefaultSpeed]
  BY <1>1, TypeSpend DEF IdentifiersTypeOK
<1>7. /\ UNCHANGED <<game_status, game_now_round, player_map, dead, play_id, wrapped>>
      /\ bomb_id' \in 0 .. kIncrMaxID - 1
  BY <1>2 DEF PlaceBomb
<1>8. QED BY <1>5, <1>6, <1>7 DEF IdentifiersTypeOK

(* A round ends.                                                             *)
LEMMA TypeFlushTime ==
    ASSUME IdentifiersTypeOK, FlushTime
    PROVE  IdentifiersTypeOK'
<1>1. PICK hit : bomb_map' = [b \in Bombs \ (Due \cup hit) |->
                                [bomb_map[b] EXCEPT !.time = @ - 1]]
  BY DEF FlushTime
<1>2. /\ Bombs' = Bombs \ (Due \cup hit)
      /\ bomb_map' \in [Bombs' -> [player_id : player_map, time : 0 .. kBombDefaultTime]]
  <2>1. Bombs' = Bombs \ (Due \cup hit)
    BY <1>1 DEF Bombs
  <2>2. ASSUME NEW b \in Bombs \ (Due \cup hit)
        PROVE  [bomb_map[b] EXCEPT !.time = @ - 1]
                 \in [player_id : player_map, time : 0 .. kBombDefaultTime]
    BY IdentifiersAssumption DEF Due, IdentifiersTypeOK
  <2>3. QED BY <1>1, <2>1, <2>2
<1>3. dead' \subseteq player_map /\ Alive' \subseteq player_map /\ player_map' = player_map
  BY DEF FlushTime, Alive, IdentifiersTypeOK
<1>4. /\ DOMAIN action_player_map' \subseteq 0 .. kIncrMaxID - 1
      /\ action_player_map' \in [DOMAIN action_player_map' -> 0 .. kPlayerDefaultSpeed]
  BY <1>3, IdentifiersAssumption DEF FlushTime, CountAfterFlush, Spent, IdentifiersTypeOK
<1>5. acted' \in [player_map -> 0 .. kPlayerDefaultSpeed]
  BY IdentifiersAssumption DEF FlushTime, IdentifiersTypeOK
<1>6. game_status = "WAIT_ACTION" /\ game_status' \in {game_status, "GAME_OVER"}
      /\ game_now_round' \in Nat
  BY DEF FlushTime, IdentifiersTypeOK
<1>7. UNCHANGED <<player_map, play_id, bomb_id, wrapped>>
  BY DEF FlushTime, counters
<1>8. QED BY <1>2, <1>3, <1>4, <1>5, <1>6, <1>7 DEF IdentifiersTypeOK

(* The next match.                                                           *)
LEMMA TypeReset ==
    ASSUME IdentifiersTypeOK, Reset
    PROVE  IdentifiersTypeOK'
BY DEF Reset, IdentifiersTypeOK, Bombs, counters

-----------------------------------------------------------------------------
(* The players of a match and their labels.                                  *)

(* The labels of the players are those before the label of the next player,  *)
(* as far back as there are players.                                         *)
LabelsBehind ==
    \A p \in player_map :
        \E a \in 1 .. Cardinality(player_map) : (p + a) % 4 = play_id % 4

(* What is true of the players of a match.                                   *)
PlayersInv ==
    /\ IsFiniteSet(player_map)
    /\ Cardinality(player_map) <= kPlayerDefaultNum
    /\ game_status = "WAIT_PLAYER" =>
         Cardinality(player_map) < kPlayerDefaultNum /\ Bombs = {}
    /\ LabelsBehind
    /\ LabelsDistinct

(* While players join the next label is nobody's, since there are only four  *)
(* labels and the last player has not joined.                                *)
LEMMA LabelFree ==
    ASSUME IdentifiersTypeOK, PlayersInv, game_status = "WAIT_PLAYER",
           NEW p \in player_map
    PROVE  p % 4 # play_id % 4
<1>1. PICK a \in 1 .. Cardinality(player_map) : (p + a) % 4 = play_id % 4
  BY DEF PlayersInv, LabelsBehind
<1>2. Cardinality(player_map) \in Nat /\ Cardinality(player_map) <= 3
  <2>1. Cardinality(player_map) \in Nat
    BY FS_CardinalityType DEF PlayersInv
  <2>2. QED BY <2>1, IdentifiersAssumption DEF PlayersInv
<1>3. a \in 1 .. 3
  BY <1>1, <1>2
<1>4. p \in Int
  BY IdentifiersAssumption DEF IdentifiersTypeOK
<1>5. (p + a) % 4 # p % 4
  BY <1>3, <1>4
<1>6. QED BY <1>1, <1>5

(* A new player.                                                             *)
LEMMA PlayersAddPlayer ==
    ASSUME IdentifiersTypeOK, PlayersInv, AddPlayer
    PROVE  PlayersInv'
<1>1. /\ game_status = "WAIT_PLAYER"
      /\ player_map' = player_map \cup {play_id}
      /\ play_id' = NextId(play_id)
      /\ bomb_map' = bomb_map
      /\ game_status' = IF Cardinality(player_map') = kPlayerDefaultNum
                        THEN "WAIT_ACTION" ELSE game_status
  BY DEF AddPlayer
<1>2. play_id \in Int /\ play_id' % 4 = (play_id + 1) % 4
  BY <1>1, NextIdLabel, IdentifiersAssumption DEF IdentifiersTypeOK
<1>3. \A p \in player_map : p \in Int /\ p % 4 # play_id % 4
  BY <1>1, LabelFree, IdentifiersAssumption DEF IdentifiersTypeOK
<1>4. /\ IsFiniteSet(player_map')
      /\ Cardinality(player_map') = Cardinality(player_map) + 1
      /\ Cardinality(player_map) \in Nat
      /\ Cardinality(player_map') <= kPlayerDefaultNum
  <2>1. play_id \notin player_map /\ IsFiniteSet(player_map)
    BY <1>3 DEF PlayersInv
  <2>2. /\ IsFiniteSet(player_map') /\ Cardinality(player_map) \in Nat
        /\ Cardinality(player_map') = Cardinality(player_map) + 1
    BY <1>1, <2>1, FS_AddElement, FS_CardinalityType
  <2>3. QED BY <1>1, <2>2, IdentifiersAssumption DEF PlayersInv
<1>5. LabelsBehind'
  <2>1. ASSUME NEW p \in player_map'
        PROVE  \E a \in 1 .. Cardinality(player_map') : (p + a) % 4 = play_id' % 4
    <3>1. CASE p = play_id
      BY <1>2, <1>4, <3>1
    <3>2. CASE p \in player_map
      <4>1. PICK a \in 1 .. Cardinality(player_map) : (p + a) % 4 = play_id % 4
        BY <3>2 DEF PlayersInv, LabelsBehind
      <4>2. (p + (a + 1)) % 4 = (play_id + 1) % 4
        BY <1>2, <1>3, <3>2, <4>1
      <4>3. a + 1 \in 1 .. Cardinality(player_map')
        BY <1>4, <4>1
      <4>4. QED BY <1>2, <4>2, <4>3
    <3>3. QED BY <1>1, <3>1, <3>2
  <2>2. QED BY <2>1 DEF LabelsBehind
<1>6. LabelsDistinct'
  BY <1>1, <1>3 DEF LabelsDistinct, PlayersInv
<1>7. game_status' = "WAIT_PLAYER" =>
        Cardinality(player_map') < kPlayerDefaultNum /\ Bombs' = {}
  <2>1. Bombs' = {}
    BY <1>1 DEF Bombs, PlayersInv
  <2>2. QED BY <1>1, <1>4, <2>1, IdentifiersAssumption
<1>8. QED BY <1>4, <1>5, <1>6, <1>7 DEF PlayersInv

(* Every step keeps the labels apart.                                        *)
LEMMA PlayersNext ==
    ASSUME IdentifiersTypeOK, PlayersInv, [Next]_vars
    PROVE  PlayersInv'
<1>1. ASSUME UNCHANGED <<player_map, play_id>>,
             game_status' # "WAIT_PLAYER" \/ UNCHANGED <<game_status, bomb_map>>
      PROVE  PlayersInv'
  BY <1>1 DEF PlayersInv, LabelsBehind, LabelsDistinct, Bombs
<1>2. CASE AddPlayer
  BY <1>2, PlayersAddPlayer
<1>3. ASSUME NEW p \in player_map, Act(p) \/ PlaceBomb(p)
      PROVE  PlayersInv'
  BY <1>1, <1>3 DEF Act, PlaceBomb, CanAct, counters
<1>4. CASE FlushTime
  BY <1>1, <1>4 DEF FlushTime, counters
<1>5. CASE Reset
  <2>1. player_map' = {} /\ Bombs' = {}
    BY <1>5 DEF Reset, Bombs
  <2>2. Cardinality(player_map') = 0 /\ IsFiniteSet(player_map')
    BY <2>1, FS_EmptySet
  <2>3. QED
    BY <2>1, <2>2, IdentifiersAssumption DEF PlayersInv, LabelsBehind, LabelsDistinct
<1>6. CASE UNCHANGED vars
  BY <1>1, <1>6 DEF vars, counters
<1>7. QED BY <1>2, <1>3, <1>4, <1>5, <1>6 DEF Next

(* Nobody has joined the first match.                                        *)
LEMMA PlayersInit == Init => PlayersInv
<1> SUFFICES ASSUME Init PROVE PlayersInv
  OBVIOUS
<1>1. player_map = {} /\ Bombs = {}
  BY DEF Init, Bombs
<1>2. IsFiniteSet(player_map) /\ Cardinality(player_map) = 0
  BY <1>1, FS_EmptySet
<1>3. QED BY <1>1, <1>2, IdentifiersAssumption DEF PlayersInv, LabelsBehind, LabelsDistinct

-----------------------------------------------------------------------------
(* The counts of actions.                                                    *)

(* Before the counter has started again, counts are kept only for            *)
(* identifiers that have been given out.                                     *)
ChargeInv ==
    /\ ~wrapped => DOMAIN action_player_map \cup player_map \subseteq 0 .. play_id - 1
    /\ ChargedForOwn

(* Nobody has done more than he is charged for.                              *)
LEMMA ChargedEnough ==
    ASSUME IdentifiersTypeOK, ChargeInv, NEW p \in Alive
    PROVE  acted[p] <= Spent(p)
<1>1. acted[p] \in Int /\ Spent(p) \in Int
  BY IdentifiersAssumption DEF IdentifiersTypeOK, Alive, Spent
<1>2. Spent(p) = acted[p] \/ Spent(p) > acted[p]
  BY DEF ChargeInv, ChargedForOwn
<1>3. QED BY <1>1, <1>2

(* A new player finds no count under his identifier before it has returned.  *)
LEMMA ChargeAddPlayer ==
    ASSUME IdentifiersTypeOK, ChargeInv, AddPlayer
    PROVE  ChargeInv'
<1>1. /\ game_now_round' = game_now_round /\ game_now_round = 0
      /\ player_map' = player_map \cup {play_id} /\ dead' = dead
      /\ play_id' = NextId(play_id)
      /\ wrapped' = (wrapped \/ NextId(play_id) = 0)
      /\ acted' = [p \in player_map' |-> IF p = play_id THEN 0 ELSE acted[p]]
      /\ action_player_map' = action_player_map
  BY DEF AddPlayer, IdentifiersTypeOK
<1>2. play_id \in 0 .. kIncrMaxID - 1 /\ kIncrMaxID \in Nat
  BY IdentifiersAssumption DEF IdentifiersTypeOK
<1>3. ~wrapped' => ~wrapped /\ play_id' = play_id + 1
  BY <1>1, <1>2, NextIdValue
<1>4. ~wrapped' => DOMAIN action_player_map' \cup player_map' \subseteq 0 .. play_id' - 1
  BY <1>1, <1>2, <1>3 DEF ChargeInv
<1>5. ASSUME NEW p \in Alive'
      PROVE  \/ Spent(p)' = acted'[p]
             \/ wrapped' /\ game_now_round' = 0 /\ Spent(p)' > acted'[p]
  <2>1. Spent(p)' = Spent(p)
    BY <1>1 DEF Spent
  <2>2. CASE p = play_id
    <3>1. acted'[p] = 0
      BY <1>1, <2>2
    <3>2. Spent(p) \in 0 .. kPlayerDefaultSpeed
      BY IdentifiersAssumption DEF Spent, IdentifiersTypeOK
    <3>3. CASE ~wrapped
      <4>1. p \notin DOMAIN action_player_map
        BY <1>2, <2>2, <3>3 DEF ChargeInv
      <4>2. QED BY <2>1, <3>1, <4>1 DEF Spent
    <3>4. CASE wrapped
      <4>1. wrapped' /\ game_now_round' = 0
        BY <1>1, <3>4
      <4>2. Spent(p) = 0 \/ Spent(p) > 0
        BY <3>2, IdentifiersAssumption
      <4>3. QED BY <2>1, <3>1, <4>1, <4>2
    <3>5. QED BY <3>3, <3>4
  <2>3. CASE p # play_id
    <3>1. p \in Alive /\ acted'[p] = acted[p]
      BY <1>1, <2>3 DEF Alive
    <3>2. QED BY <1>1, <2>1, <3>1 DEF ChargeInv, ChargedForOwn
  <2>4. QED BY <2>2, <2>3
<1>6. QED BY <1>4, <1>5 DEF ChargeInv, ChargedForOwn

(* An action is counted twice, once for the engine and once for the history. *)
LEMMA ChargeSpend ==
    ASSUME IdentifiersTypeOK, ChargeInv, NEW p \in player_map,
           CanAct(p), SpendAction(p), dead \subseteq dead',
           UNCHANGED <<game_now_round, player_map, play_id, wrapped>>
    PROVE  ChargeInv'
<1>1. p \in Alive /\ acted[p] <= Spent(p)
  BY ChargedEnough DEF CanAct
<1>2. /\ DOMAIN action_player_map' = DOMAIN action_player_map \cup {p}
      /\ acted' = [acted EXCEPT ![p] = acted[p] + 1]
      /\ \A q \in player_map : Spent(q)' = IF q = p THEN Spent(p) + 1 ELSE Spent(q)
  BY <1>1, TypeSpend
<1>3. ~wrapped' => DOMAIN action_player_map' \cup player_map' \subseteq 0 .. play_id' - 1
  BY <1>2 DEF ChargeInv
<1>4. ASSUME NEW q \in Alive'
      PROVE  \/ Spent(q)' = acted'[q]
             \/ wrapped' /\ game_now_round' = 0 /\ Spent(q)' > acted'[q]
  <2>1. q \in Alive /\ q \in player_map /\ q \in DOMAIN acted
    BY DEF Alive, IdentifiersTypeOK
  <2>2. \/ Spent(q) = acted[q]
        \/ wrapped /\ game_now_round = 0 /\ Spent(q) > acted[q]
    BY <2>1 DEF ChargeInv, ChargedForOwn
  <2>3. acted[q] \in Int /\ Spent(q) \in Int
    BY <2>1, IdentifiersAssumption DEF IdentifiersTypeOK, Spent
  <2>4. CASE q = p
    <3>1. acted'[q] = acted[q] + 1 /\ Spent(q)' = Spent(q) + 1
      BY <1>2, <2>1, <2>4
    <3>2. QED BY <2>2, <2>3, <3>1
  <2>5. CASE q # p
    <3>1. acted'[q] = acted[q] /\ Spent(q)' = Spent(q)
      BY <1>2, <2>1, <2>5
    <3>2. QED BY <2>2, <3>1
  <2>6. QED BY <2>4, <2>5
<1>5. QED BY <1>3, <1>4 DEF ChargeInv, ChargedForOwn

(* At the end of a round all who are alive are charged for nothing.          *)
LEMMA ChargeFlushTime ==
    ASSUME IdentifiersTypeOK, ChargeInv, FlushTime
    PROVE  ChargeInv'
<1>1. /\ UNCHANGED <<player_map, play_id, wrapped>>
      /\ action_player_map' = [p \in DOMAIN action_player_map \cup Alive' |->
                                 CountAfterFlush(p)]
      /\ acted' = [p \in player_map |-> IF p \in Alive' THEN 0 ELSE acted[p]]
      /\ Alive' \subseteq player_map
  BY DEF FlushTime, counters, Alive
<1>2. ~wrapped' => DOMAIN action_player_map' \cup player_map' \subseteq 0 .. play_id' - 1
  BY <1>1 DEF ChargeInv
<1>3. ASSUME NEW p \in Alive'
      PROVE  Spent(p)' = acted'[p]
  <2>1. acted'[p] = 0
    BY <1>1
  <2>2. p \in DOMAIN action_player_map' /\ action_player_map'[p] = 0
    BY <1>1 DEF CountAfterFlush
  <2>3. QED BY <2>1, <2>2 DEF Spent
<1>4. QED BY <1>2, <1>3 DEF ChargeInv, ChargedForOwn

-----------------------------------------------------------------------------
(* The invariant.                                                            *)

(* What is true of the counters, the players and the counts, for every       *)
(* kIncrMaxID.                                                               *)
IdentifiersInv == IdentifiersTypeOK /\ PlayersInv /\ ChargeInv

(* It is true at first.                                                      *)
LEMMA InvInit == Init => IdentifiersInv
<1>1. Init => ChargeInv
  BY DEF Init, ChargeInv, ChargedForOwn, Alive
<1>2. QED BY <1>1, TypeInit, PlayersInit DEF IdentifiersInv

(* Every step keeps it.                                                      *)
LEMMA InvNext ==
    ASSUME IdentifiersInv, [Next]_vars
    PROVE  IdentifiersInv'
<1>1. IdentifiersTypeOK /\ PlayersInv /\ ChargeInv
  BY DEF IdentifiersInv
<1>2. PlayersInv'
  BY <1>1, PlayersNext
<1>3. CASE AddPlayer
  BY <1>1, <1>2, <1>3, TypeAddPlayer, ChargeAddPlayer DEF IdentifiersInv
<1>4. ASSUME NEW p \in player_map, Act(p)
      PROVE  IdentifiersInv'
  <2>1. acted[p] <= Spent(p)
    BY <1>1, <1>4, ChargedEnough DEF Act, CanAct
  <2>2. ChargeInv'
    BY <1>1, <1>4, ChargeSpend DEF Act, counters
  <2>3. QED BY <1>1, <1>2, <1>4, <2>1, <2>2, TypeAct DEF IdentifiersInv
<1>5. ASSUME NEW p \in player_map, PlaceBomb(p)
      PROVE  IdentifiersInv'
  <2>1. acted[p] <= Spent(p)
    BY <1>1, <1>5, ChargedEnough DEF PlaceBomb, CanAct
  <2>2. ChargeInv'
    BY <1>1, <1>5, ChargeSpend DEF PlaceBomb
  <2>3. QED BY <1>1, <1>2, <1>5, <2>1, <2>2, TypePlaceBomb DEF IdentifiersInv
<1>6. CASE FlushTime
  BY <1>1, <1>2, <1>6, TypeFlushTime, ChargeFlushTime DEF IdentifiersInv
<1>7. CASE Reset
  <2>1. ChargeInv'
    BY <1>1, <1>7 DEF Reset, ChargeInv, ChargedForOwn, Alive, counters
  <2>2. QED BY <1>1, <1>2, <1>7, <2>1, TypeReset DEF IdentifiersInv
<1>8. CASE UNCHANGED vars
  BY <1>1, <1>2, <1>8
  DEF vars, counters, IdentifiersInv, IdentifiersTypeOK, ChargeInv, ChargedForOwn,
      Alive, Spent, Bombs
<1>9. QED BY <1>3, <1>4, <1>5, <1>6, <1>7, <1>8 DEF Next

(* The invariant holds of every behaviour.                                   *)
LEMMA InvCorrect == Spec => []IdentifiersInv
BY InvInit, InvNext, PTL DEF Spec

(* Every variable has its type in every match, however often the counters    *)
(* have started again: no player is charged for more than a round allows and *)
(* every bomb has an owner in the match.                                     *)
THEOREM IdentifiersTypeCorrect == Spec => []IdentifiersTypeOK
<1>1. IdentifiersInv => IdentifiersTypeOK
  BY DEF IdentifiersInv
<1>2. QED BY <1>1, InvCorrect, PTL

(* The players of a match differ modulo four, so that neither the terminal   *)
(* nor the replay takes one for another, for every kIncrMaxID that is a      *)
(* multiple of four.                                                         *)
THEOREM LabelsDistinctCorrect == Spec => []LabelsDistinct
<1>1. IdentifiersInv => LabelsDistinct
  BY DEF IdentifiersInv, PlayersInv
<1>2. QED BY <1>1, InvCorrect, PTL

(* What Reset leaves in action_player_map_ is charged to somebody else only  *)
(* after the counter has started again, and only until the round ends.       *)
THEOREM ChargedForOwnCorrect == Spec => []ChargedForOwn
<1>1. IdentifiersInv => ChargedForOwn
  BY DEF IdentifiersInv, ChargeInv
<1>2. QED BY <1>1, InvCorrect, PTL

-----------------------------------------------------------------------------
(* The identifiers of bombs.                                                 *)

(* All actions of a round, and a counter longer than the actions of all      *)
(* rounds that see the same bomb, at the greatest speed that potions may     *)
(* give a player: the ten million of the code are.                           *)
PerRound == kPlayerDefaultNum * kPlayerDefaultSpeed

EnoughIds == kIncrMaxID > (kBombDefaultTime + 1) * PerRound

(* The actions of this round, those of each player numbered.                 *)
RoundActions ==
    {a \in player_map \X (1 .. kPlayerDefaultSpeed) : a[2] <= acted[a[1]]}

(* Finitely many players act finitely often.                                 *)
LEMMA ActionsFinite ==
    ASSUME NEW m, IsFiniteSet(m), NEW f
    PROVE  LET A == {a \in m \X (1 .. kPlayerDefaultSpeed) : a[2] <= f[a[1]]}
           IN  IsFiniteSet(A) /\ Cardinality(A) \in Nat
<1> DEFINE Speeds == 1 .. kPlayerDefaultSpeed
           A == {a \in m \X Speeds : a[2] <= f[a[1]]}
<1>1. IsFiniteSet(Speeds)
  BY FS_Interval, IdentifiersAssumption
<1>2. IsFiniteSet(m \X Speeds)
  <2> HIDE DEF Speeds
  <2>1. QED BY <1>1, FS_Product
<1>3. IsFiniteSet(A)
  <2>1. A \subseteq m \X Speeds
    OBVIOUS
  <2> HIDE DEF Speeds, A
  <2>2. QED BY <1>2, <2>1, FS_Subset
<1>4. Cardinality(A) \in Nat
  <2> HIDE DEF A
  <2>1. QED BY <1>3, FS_CardinalityType
<1>5. QED BY <1>3, <1>4

(* As many bombs at most have been laid since b was, itself included.        *)
LaidSince(b) ==
    (kBombDefaultTime - bomb_map[b].time) * PerRound + Cardinality(RoundActions)

(* The counter is ahead of every bomb by what has been laid since.           *)
BombsBehind ==
    \A b \in Bombs : \E d \in 1 .. LaidSince(b) :
        bomb_id = b + d \/ bomb_id = b + d - kIncrMaxID

(* One more round.                                                           *)
LEMMA OneRoundMore ==
    ASSUME NEW x \in Int, NEW r \in Int
    PROVE  (x + 1) * r = x * r + r
OBVIOUS

(* Multiplication by a natural number is monotonic.                          *)
LEMMA TimesMonotonic ==
    ASSUME NEW x \in Int, NEW y \in Int, x <= y, NEW r \in Nat
    PROVE  x * r <= y * r
<1>1. (y - x) * r >= 0
  OBVIOUS
<1>2. (y - x) * r = y * r - x * r
  OBVIOUS
<1>3. x * r \in Int /\ y * r \in Int
  OBVIOUS
<1>4. QED BY <1>1, <1>2, <1>3

(* The number of actions in a round is bounded.                              *)
LEMMA PerRoundNat == PerRound \in Nat /\ kPlayerDefaultSpeed \in Nat /\ kBombDefaultTime \in Nat
BY IdentifiersAssumption DEF PerRound

(* In a round there are no more actions than players and speed allow.        *)
LEMMA RoundActionsFew ==
    ASSUME IdentifiersTypeOK, PlayersInv
    PROVE  /\ IsFiniteSet(RoundActions)
           /\ Cardinality(RoundActions) \in Nat
           /\ Cardinality(RoundActions) <= PerRound
<1> DEFINE Speeds == 1 .. kPlayerDefaultSpeed
<1>1. IsFiniteSet(Speeds) /\ Cardinality(Speeds) = kPlayerDefaultSpeed
  BY FS_Interval, IdentifiersAssumption
<1>2. IsFiniteSet(player_map) /\ Cardinality(player_map) <= kPlayerDefaultNum
  BY DEF PlayersInv
<1>3. /\ IsFiniteSet(player_map \X Speeds)
      /\ Cardinality(player_map \X Speeds) = Cardinality(player_map) * kPlayerDefaultSpeed
  <2> HIDE DEF Speeds
  <2>1. QED BY <1>1, <1>2, FS_Product
<1>4. RoundActions \subseteq player_map \X Speeds
  BY DEF RoundActions
<1>5. /\ IsFiniteSet(RoundActions)
      /\ Cardinality(RoundActions) <= Cardinality(player_map \X Speeds)
  <2> HIDE DEF Speeds
  <2>1. QED BY <1>3, <1>4, FS_Subset
<1>6. Cardinality(RoundActions) \in Nat /\ Cardinality(player_map) \in Nat
  BY <1>2, <1>5, FS_CardinalityType
<1>7. Cardinality(player_map) * kPlayerDefaultSpeed <= PerRound
  <2>1. kPlayerDefaultNum \in Int /\ kPlayerDefaultSpeed \in Nat
    BY IdentifiersAssumption
  <2>2. QED BY <1>2, <1>6, <2>1, TimesMonotonic DEF PerRound
<1>8. Cardinality(player_map) * kPlayerDefaultSpeed \in Int
  BY <1>6, IdentifiersAssumption
<1>9. QED
  <2> HIDE DEF Speeds
  <2>1. QED BY <1>3, <1>5, <1>6, <1>7, <1>8, PerRoundNat

(* An action is one more.                                                    *)
LEMMA RoundActionsAdd ==
    ASSUME IdentifiersTypeOK, PlayersInv, NEW p \in player_map,
           player_map' = player_map,
           acted' = [acted EXCEPT ![p] = acted[p] + 1],
           acted[p] + 1 \in 1 .. kPlayerDefaultSpeed
    PROVE  Cardinality(RoundActions') = Cardinality(RoundActions) + 1
<1> DEFINE act == <<p, acted[p] + 1>>
<1>1. act \notin RoundActions
  BY DEF RoundActions, IdentifiersTypeOK
<1>2. RoundActions' = RoundActions \cup {act}
  <2>1. ASSUME NEW a \in player_map \X (1 .. kPlayerDefaultSpeed)
        PROVE  a[2] <= acted'[a[1]] <=> a[2] <= acted[a[1]] \/ a = act
    <3>1. a = <<a[1], a[2]>> /\ a[1] \in player_map /\ a[2] \in Int
      OBVIOUS
    <3>2. CASE a[1] = p
      <4>1. acted'[a[1]] = acted[p] + 1 /\ acted[p] \in Int
        BY <3>2, IdentifiersAssumption DEF IdentifiersTypeOK
      <4>2. QED BY <3>1, <3>2, <4>1
    <3>3. CASE a[1] # p
      <4>1. acted'[a[1]] = acted[a[1]]
        BY <3>1, <3>3 DEF IdentifiersTypeOK
      <4>2. QED BY <3>1, <3>3, <4>1
    <3>4. QED BY <3>2, <3>3
  <2>2. act \in player_map \X (1 .. kPlayerDefaultSpeed)
    OBVIOUS
  <2> HIDE DEF act
  <2>3. QED BY <2>1, <2>2 DEF RoundActions
<1>3. QED
  <2> HIDE DEF act
  <2>1. QED BY <1>1, <1>2, RoundActionsFew, FS_AddElement

(* Fewer bombs are laid while a bomb lies there than there are identifiers.  *)
LEMMA LaidSinceFew ==
    ASSUME IdentifiersTypeOK, PlayersInv, EnoughIds, NEW b \in Bombs
    PROVE  LaidSince(b) \in Nat /\ LaidSince(b) < kIncrMaxID
<1>1. bomb_map[b].time \in 0 .. kBombDefaultTime
  BY DEF IdentifiersTypeOK
<1>2. PICK x \in Nat : x = kBombDefaultTime - bomb_map[b].time /\ x <= kBombDefaultTime
  BY <1>1, PerRoundNat
<1>3. PICK n \in Nat : n = Cardinality(RoundActions) /\ n <= PerRound
  BY RoundActionsFew
<1>4. PerRound \in Nat /\ kBombDefaultTime \in Nat
  BY PerRoundNat
<1>5. x * PerRound \in Nat /\ kBombDefaultTime * PerRound \in Nat
  BY <1>4
<1>6. x * PerRound <= kBombDefaultTime * PerRound
  BY <1>2, <1>4, TimesMonotonic
<1>7. (kBombDefaultTime + 1) * PerRound = kBombDefaultTime * PerRound + PerRound
  BY <1>4, OneRoundMore
<1>8. kIncrMaxID > kBombDefaultTime * PerRound + PerRound /\ kIncrMaxID \in Nat
  BY <1>7, IdentifiersAssumption DEF EnoughIds
<1>9. LaidSince(b) = x * PerRound + n
  BY <1>2, <1>3 DEF LaidSince
<1>10. QED
  <2> HIDE DEF PerRound
  <2>1. PICK u \in Nat, v \in Nat : u = x * PerRound /\ v = kBombDefaultTime * PerRound
    BY <1>5
  <2>2. QED BY <1>3, <1>4, <1>6, <1>8, <1>9, <2>1

(* A bomb is laid: it is one behind the counter, and every other bomb one    *)
(* further behind than it was.                                               *)
LEMMA BehindPlaceBomb ==
    ASSUME IdentifiersInv, EnoughIds, BombsBehind, NEW p \in player_map, PlaceBomb(p)
    PROVE  BombsBehind'
<1>1. /\ IdentifiersTypeOK /\ PlayersInv
      /\ acted[p] <= Spent(p) /\ CanAct(p) /\ SpendAction(p)
  BY ChargedEnough DEF IdentifiersInv, PlaceBomb, CanAct
<1>2. Cardinality(RoundActions') = Cardinality(RoundActions) + 1
  BY <1>1, TypeSpend, RoundActionsAdd DEF PlaceBomb
<1>3. PICK n \in Nat : n = Cardinality(RoundActions)
  BY <1>1, RoundActionsFew
<1>4. /\ bomb_map' = [b \in Bombs \cup {bomb_id} |->
                       IF b = bomb_id THEN [player_id |-> p, time |-> kBombDefaultTime]
                       ELSE bomb_map[b]]
      /\ bomb_id' = NextId(bomb_id)
  BY DEF PlaceBomb, NewBombId
<1>5. /\ bomb_id \in 0 .. kIncrMaxID - 1 /\ kIncrMaxID \in Nat
      /\ bomb_id' = IF bomb_id + 1 = kIncrMaxID THEN 0 ELSE bomb_id + 1
  BY <1>1, <1>4, NextIdValue, IdentifiersAssumption DEF IdentifiersTypeOK
<1>6. ASSUME NEW b \in Bombs'
      PROVE  \E d \in 1 .. LaidSince(b)' : bomb_id' = b + d \/ bomb_id' = b + d - kIncrMaxID
  <2>1. b \in Bombs \cup {bomb_id}
    BY <1>4 DEF Bombs
  <2>2. CASE b = bomb_id
    <3>1. bomb_map'[b].time = kBombDefaultTime
      BY <1>4, <2>1, <2>2
    <3>2. LaidSince(b)' = (kBombDefaultTime - kBombDefaultTime) * PerRound + (n + 1)
      BY <1>2, <1>3, <3>1 DEF LaidSince
    <3>3. LaidSince(b)' = n + 1
      BY <3>2, PerRoundNat
    <3>4. 1 \in 1 .. LaidSince(b)'
      BY <3>3
    <3>5. bomb_id' = b + 1 \/ bomb_id' = b + 1 - kIncrMaxID
      BY <1>5, <2>2
    <3>6. QED BY <3>4, <3>5
  <2>3. CASE b # bomb_id
    <3>1. b \in Bombs /\ bomb_map'[b] = bomb_map[b]
      BY <1>4, <2>1, <2>3
    <3>2. PICK w \in Nat : w = LaidSince(b) /\ w < kIncrMaxID
      BY <1>1, <3>1, LaidSinceFew
    <3>3. LaidSince(b)' = w + 1
      <4>1. PICK x \in Int : x = (kBombDefaultTime - bomb_map[b].time) * PerRound
        BY <1>1, <3>1, PerRoundNat DEF IdentifiersTypeOK
      <4>2. w = x + n /\ LaidSince(b)' = x + (n + 1)
        BY <1>2, <1>3, <3>1, <3>2, <4>1 DEF LaidSince
      <4>3. QED BY <4>1, <4>2
    <3>4. PICK d \in 1 .. w : bomb_id = b + d \/ bomb_id = b + d - kIncrMaxID
      BY <3>1, <3>2 DEF BombsBehind
    <3>5. b \in 0 .. kIncrMaxID - 1
      BY <1>1, <3>1 DEF IdentifiersTypeOK
    <3>6. bomb_id' = b + (d + 1) \/ bomb_id' = b + (d + 1) - kIncrMaxID
      BY <1>5, <3>2, <3>4, <3>5
    <3>7. d + 1 \in 1 .. LaidSince(b)'
      BY <3>3, <3>4
    <3>8. QED BY <3>6, <3>7
  <2>4. QED BY <2>2, <2>3
<1>7. QED BY <1>6 DEF BombsBehind

(* Any other action lays no bomb.                                            *)
LEMMA BehindAct ==
    ASSUME IdentifiersInv, BombsBehind, NEW p \in player_map, Act(p)
    PROVE  BombsBehind'
<1>1. /\ IdentifiersTypeOK /\ PlayersInv
      /\ acted[p] <= Spent(p) /\ CanAct(p) /\ SpendAction(p)
  BY ChargedEnough DEF IdentifiersInv, Act, CanAct
<1>2. Cardinality(RoundActions') = Cardinality(RoundActions) + 1
  BY <1>1, TypeSpend, RoundActionsAdd DEF Act
<1>3. UNCHANGED <<bomb_map, bomb_id>>
  BY DEF Act, counters
<1>4. ASSUME NEW b \in Bombs'
      PROVE  \E d \in 1 .. LaidSince(b)' : bomb_id' = b + d \/ bomb_id' = b + d - kIncrMaxID
  <2>1. b \in Bombs
    BY <1>3 DEF Bombs
  <2>2. PICK d \in 1 .. LaidSince(b) : bomb_id = b + d \/ bomb_id = b + d - kIncrMaxID
    BY <2>1 DEF BombsBehind
  <2>3. LaidSince(b) \in Int /\ LaidSince(b)' = LaidSince(b) + 1
    <3>1. PICK x \in Int : x = (kBombDefaultTime - bomb_map[b].time) * PerRound
      BY <1>1, <2>1, PerRoundNat DEF IdentifiersTypeOK
    <3>2. PICK n \in Nat : n = Cardinality(RoundActions)
      BY <1>1, RoundActionsFew
    <3>3. LaidSince(b) = x + n /\ LaidSince(b)' = x + (n + 1)
      BY <1>2, <1>3, <3>1, <3>2 DEF LaidSince
    <3>4. QED BY <3>1, <3>2, <3>3
  <2>4. d \in 1 .. LaidSince(b)'
    BY <2>2, <2>3
  <2>5. QED BY <1>3, <2>2, <2>4
<1>5. QED BY <1>4 DEF BombsBehind

(* A round ends: the bombs that are left have one round less to live, and no *)
(* more was laid than a round allows.                                        *)
LEMMA BehindFlushTime ==
    ASSUME IdentifiersInv, IdentifiersInv', BombsBehind, FlushTime
    PROVE  BombsBehind'
<1>1. IdentifiersTypeOK /\ PlayersInv /\ IdentifiersTypeOK' /\ PlayersInv'
  BY DEF IdentifiersInv
<1>2. PICK hit : bomb_map' = [b \in Bombs \ (Due \cup hit) |->
                                [bomb_map[b] EXCEPT !.time = @ - 1]]
  BY DEF FlushTime
<1>3. bomb_id' = bomb_id
  BY DEF FlushTime, counters
<1>4. PICK n \in Nat : n = Cardinality(RoundActions) /\ n <= PerRound
  BY <1>1, RoundActionsFew
<1>5. PICK m \in Nat : m = Cardinality(RoundActions')
  <2>1. IsFiniteSet(player_map')
    BY <1>1 DEF PlayersInv
  <2>2. PICK joined, f : joined = player_map' /\ f = acted'
    OBVIOUS
  <2>3. IsFiniteSet(joined)
    BY <2>1, <2>2
  <2>4. PICK acts : acts = {a \in joined \X (1 .. kPlayerDefaultSpeed) : a[2] <= f[a[1]]}
    OBVIOUS
  <2>5. Cardinality(acts) \in Nat
    BY <2>3, <2>4, ActionsFinite
  <2>6. RoundActions' = acts
    BY <2>2, <2>4 DEF RoundActions
  <2>7. QED BY <2>5, <2>6
<1>6. ASSUME NEW b \in Bombs'
      PROVE  \E d \in 1 .. LaidSince(b)' : bomb_id' = b + d \/ bomb_id' = b + d - kIncrMaxID
  <2>1. b \in Bombs /\ bomb_map'[b].time = bomb_map[b].time - 1
    BY <1>1, <1>2 DEF Bombs, IdentifiersTypeOK
  <2>2. PICK d \in 1 .. LaidSince(b) : bomb_id = b + d \/ bomb_id = b + d - kIncrMaxID
    BY <2>1 DEF BombsBehind
  <2>3. PICK x \in Int, r \in Nat : x = kBombDefaultTime - bomb_map[b].time /\ r = PerRound
    BY <1>1, <2>1, PerRoundNat DEF IdentifiersTypeOK
  <2>4. LaidSince(b) = x * r + n
    BY <1>4, <2>3 DEF LaidSince
  <2>5. kBombDefaultTime - bomb_map'[b].time = x + 1
    <3>1. bomb_map[b].time \in Int /\ kBombDefaultTime \in Int
      BY <1>1, <2>1, PerRoundNat DEF IdentifiersTypeOK
    <3>2. QED BY <2>1, <2>3, <3>1
  <2>6. LaidSince(b)' = x * r + r + m
    <3>1. LaidSince(b)' = (kBombDefaultTime - bomb_map'[b].time) * PerRound + m
      BY <1>5 DEF LaidSince
    <3>2. LaidSince(b)' = (x + 1) * r + m
      BY <2>3, <2>5, <3>1
    <3>3. QED BY <3>2, OneRoundMore
  <2>7. d \in 1 .. LaidSince(b)'
    <3>1. PICK y \in Int : y = x * r
      OBVIOUS
    <3>2. QED BY <1>4, <2>2, <2>3, <2>4, <2>6, <3>1
  <2>8. QED BY <1>3, <2>2, <2>7
<1>7. QED BY <1>6 DEF BombsBehind

(* Every step keeps the counter ahead of the bombs.                          *)
LEMMA BehindNext ==
    ASSUME IdentifiersInv, IdentifiersInv', EnoughIds, BombsBehind, [Next]_vars
    PROVE  BombsBehind'
<1>1. CASE AddPlayer
  <2>1. Bombs' = {}
    BY <1>1 DEF AddPlayer, IdentifiersInv, PlayersInv, Bombs
  <2>2. QED BY <2>1 DEF BombsBehind
<1>2. ASSUME NEW p \in player_map, Act(p) \/ PlaceBomb(p)
      PROVE  BombsBehind'
  BY <1>2, BehindAct, BehindPlaceBomb
<1>3. CASE FlushTime
  BY <1>3, BehindFlushTime
<1>4. CASE Reset
  <2>1. Bombs' = {}
    BY <1>4 DEF Reset, Bombs
  <2>2. QED BY <2>1 DEF BombsBehind
<1>5. CASE UNCHANGED vars
  BY <1>5 DEF vars, counters, BombsBehind, Bombs, LaidSince, RoundActions
<1>6. QED BY <1>1, <1>2, <1>3, <1>4, <1>5 DEF Next

(* Where the counter is ahead of every bomb by less than it takes to come    *)
(* round, its next identifier is free, and so is that of the next player.    *)
LEMMA BehindFresh ==
    ASSUME IdentifiersInv, EnoughIds, BombsBehind
    PROVE  FreshIds
<1>1. IdentifiersTypeOK /\ PlayersInv
  BY DEF IdentifiersInv
<1>2. game_status = "WAIT_PLAYER" => play_id \notin player_map
  BY <1>1, LabelFree
<1>3. ASSUME bomb_id \in Bombs
      PROVE  FALSE
  <2>1. PICK b : b = bomb_id
    OBVIOUS
  <2>2. b \in Bombs
    BY <1>3, <2>1
  <2>3. PICK d \in 1 .. LaidSince(b) : b = b + d \/ b = b + d - kIncrMaxID
    BY <2>1, <2>2 DEF BombsBehind
  <2>4. LaidSince(b) \in Nat /\ LaidSince(b) < kIncrMaxID
    BY <1>1, <2>2, LaidSinceFew
  <2>5. b \in Int /\ kIncrMaxID \in Int
    BY <1>1, <2>2, IdentifiersAssumption DEF IdentifiersTypeOK
  <2>6. QED BY <2>3, <2>4, <2>5
<1>4. QED BY <1>2, <1>3 DEF FreshIds, NewBombId

(* Nobody joins under the identifier of somebody who is there, and no bomb   *)
(* is laid over another of the same identifier, in any number of matches, if *)
(* the counter is longer than the actions of the rounds a bomb lives.        *)
THEOREM FreshIdsCorrect ==
    ASSUME EnoughIds
    PROVE  Spec => []FreshIds
<1>1. Init => BombsBehind
  BY DEF Init, BombsBehind, Bombs
<1>2. IdentifiersInv /\ IdentifiersInv' /\ BombsBehind /\ [Next]_vars => BombsBehind'
  BY BehindNext
<1>3. IdentifiersInv /\ BombsBehind => FreshIds
  BY BehindFresh
<1>4. QED BY <1>1, <1>2, <1>3, InvCorrect, PTL DEF Spec

=============================================================================
