------------------------------ MODULE GameProofs ----------------------------
(* Type correctness of the game engine, proved action by action for every    *)
(* map, every number of players and every configuration, and before it the   *)
(* operations on a player's record: each yields a record again and leaves    *)
(* alone what it has no business with.  Sums over the players of a match are *)
(* proved additive here.  The safety properties are in                       *)
(* GameBoardProofs, which builds on it.                                      *)
EXTENDS GameProperties, TLAPS, FiniteSetTheorems, WellFoundedInduction

-----------------------------------------------------------------------------
(* The record of a player.                                                   *)

(* What an operation that is no injury keeps: the place, the life and the    *)
(* bombs of a player.                                                        *)
SameBody(r, p) ==
    /\ r.pos = p.pos
    /\ r.bomb_now_num = p.bomb_now_num
    /\ r.bomb_max_num >= p.bomb_max_num

(* A new player has a well-formed record, stands on his birth, and lives.    *)
LEMMA NewPlayerType ==
    ASSUME NEW P, NEW pos \in P
    PROVE  /\ NewPlayer(pos) \in PlayerRecord(P)
           /\ NewPlayer(pos).pos = pos
           /\ ~IsDead(NewPlayer(pos))
           /\ NewPlayer(pos).bomb_now_num = 0
           /\ NewPlayer(pos).bomb_max_num >= 0
           /\ NewPlayer(pos).mark = 0
           /\ NewPlayer(pos).HP > 0
BY PlayerAssumption DEF NewPlayer, PlayerRecord, PlayStatus, IsDead

(* Marks do not touch the body.                                              *)
LEMMA IncrMarkType ==
    ASSUME NEW P, NEW p \in PlayerRecord(P), NEW n \in Int
    PROVE  /\ IncrMark(p, n) \in PlayerRecord(P)
           /\ SameBody(IncrMark(p, n), p)
           /\ IncrMark(p, n).status = p.status
           /\ IncrMark(p, n).HP = p.HP
           /\ IncrMark(p, n).mark = p.mark + n
BY DEF IncrMark, PlayerRecord, SameBody

(* Losing a hit point: the last one costs the life.                          *)
LEMMA DescHPType ==
    ASSUME NEW P, NEW p \in PlayerRecord(P)
    PROVE  /\ DescHP(p) \in PlayerRecord(P)
           /\ SameBody(DescHP(p), p)
<1> DEFINE hurt == [p EXCEPT !.HP = @ - 1]
           dead == [hurt EXCEPT !.status = "DEAD"]
<1>0. kShieldDefaultTime \in Nat /\ kMarkDead \in Int
  BY PlayerAssumption
<1>1. hurt \in PlayerRecord(P) /\ SameBody(hurt, p)
  BY DEF PlayerRecord, SameBody
<1>2. CASE hurt.HP <= 0
  <2>1. dead \in PlayerRecord(P) /\ SameBody(dead, hurt)
    <3> HIDE DEF hurt
    <3> QED BY <1>1 DEF PlayerRecord, PlayStatus, SameBody
  <2>2. DescMark(dead, kMarkDead) \in PlayerRecord(P) /\ SameBody(DescMark(dead, kMarkDead), dead)
    <3> HIDE DEF dead
    <3> QED BY <1>0, <2>1 DEF DescMark, PlayerRecord, SameBody
  <2>3. DescHP(p) = DescMark(dead, kMarkDead)
    BY <1>2 DEF DescHP
  <2>4. QED
    <3> HIDE DEF hurt, dead
    <3> QED BY <1>1, <2>1, <2>2, <2>3 DEF PlayerRecord, SameBody
<1>3. CASE ~(hurt.HP <= 0)
  <2>1. DescHP(p) = [hurt EXCEPT !.shield_time = kShieldDefaultTime]
    BY <1>3 DEF DescHP
  <2>2. QED
    <3> HIDE DEF hurt
    <3> QED BY <1>0, <1>1, <2>1 DEF PlayerRecord, SameBody
<1>4. QED BY <1>2, <1>3

(* A hit (Player::Injuries) yields a record on the same cell with the same   *)
(* bombs.                                                                    *)
LEMMA InjuredType ==
    ASSUME NEW P, NEW p \in PlayerRecord(P)
    PROVE  /\ Injured(p) \in PlayerRecord(P)
           /\ SameBody(Injured(p), p)
<1>1. CASE IsDead(p) \/ p.invincible_time > 0
  BY <1>1 DEF Injured, SameBody, PlayerRecord
<1>2. CASE ~(IsDead(p) \/ p.invincible_time > 0) /\ p.shield_time > 0
  BY <1>2 DEF Injured, SameBody, PlayerRecord
<1>3. CASE ~(IsDead(p) \/ p.invincible_time > 0) /\ ~(p.shield_time > 0)
  BY <1>3, DescHPType DEF Injured
<1>4. QED BY <1>1, <1>2, <1>3

(* The dead are not hit again.                                               *)
LEMMA InjuredDead ==
    ASSUME NEW P, NEW p \in PlayerRecord(P), IsDead(p)
    PROVE  Injured(p) = p
BY DEF Injured, IsDead

(* The reward of a hit is an integer.                                        *)
LEMMA InjuryMarkType ==
    ASSUME NEW p PROVE InjuryMark(p) \in Int
BY PlayerAssumption DEF InjuryMark

(* A meeting (Player::MeetOtherPlayer) moves nobody.                         *)
LEMMA MeetType ==
    ASSUME NEW P, NEW p \in PlayerRecord(P), NEW o \in PlayerRecord(P)
    PROVE  /\ Meet(p, o).self \in PlayerRecord(P)
           /\ Meet(p, o).other \in PlayerRecord(P)
           /\ SameBody(Meet(p, o).self, p)
           /\ SameBody(Meet(p, o).other, o)
<1>1. CASE o.invincible_time > 0 /\ p.invincible_time = 0
  BY <1>1, InjuredType, IncrMarkType, InjuryMarkType DEF Meet
<1>2. CASE p.invincible_time > 0 /\ o.invincible_time = 0
  BY <1>2, InjuredType, IncrMarkType, InjuryMarkType DEF Meet
<1>3. CASE /\ ~(o.invincible_time > 0 /\ p.invincible_time = 0)
           /\ ~(p.invincible_time > 0 /\ o.invincible_time = 0)
  BY <1>3 DEF Meet, SameBody, PlayerRecord
<1>4. QED BY <1>1, <1>2, <1>3

(* A potion moves nobody and never lowers the limit on bombs.                *)
LEMMA PotionEffectType ==
    ASSUME NEW P, NEW p \in PlayerRecord(P), NEW t \in PotionType
    PROVE  /\ PotionEffect(p, t) \in PlayerRecord(P)
           /\ SameBody(PotionEffect(p, t), p)
           /\ PotionEffect(p, t).status = p.status
<1>0. kShieldDefaultTime \in Nat /\ kInvisibleDefaultTime \in Nat
  BY PlayerAssumption
<1>1. CASE t = "BOMB_RANGE"
  BY <1>1 DEF PotionEffect, PlayerRecord, SameBody
<1>2. CASE t = "BOMB_NUM"
  BY <1>2 DEF PotionEffect, PlayerRecord, SameBody
<1>3. CASE t = "REBIRTH"
  BY <1>3 DEF PotionEffect, IncrHP, PlayerRecord, SameBody
<1>4. CASE t = "INVINCIBLE"
  BY <1>0, <1>4 DEF PotionEffect, PlayerRecord, SameBody
<1>5. CASE t = "SHIELD"
  BY <1>0, <1>5 DEF PotionEffect, PlayerRecord, SameBody
<1>6. CASE t = "SPEED"
  BY <1>6 DEF PotionEffect, PlayerRecord, SameBody
<1>7. CASE t = "GLOVES"
  <2>1. PotionEffect(p, t) = [p EXCEPT !.has_gloves = TRUE]
    BY <1>7 DEF PotionEffect
  <2>2. [p EXCEPT !.has_gloves = TRUE] \in PlayerRecord(P)
    BY DEF PlayerRecord
  <2>3. /\ SameBody([p EXCEPT !.has_gloves = TRUE], p)
        /\ [p EXCEPT !.has_gloves = TRUE].status = p.status
    BY DEF PlayerRecord, SameBody
  <2>4. QED BY <2>1, <2>2, <2>3
<1>8. CASE t = NoPotion
  BY <1>8 DEF PotionEffect, NoPotion, PlayerRecord, SameBody
<1>9. QED BY <1>1, <1>2, <1>3, <1>4, <1>5, <1>6, <1>7, <1>8 DEF PotionType

(* Neither does picking it up.                                               *)
LEMMA PickUpType ==
    ASSUME NEW P, NEW p \in PlayerRecord(P), NEW t \in PotionType
    PROVE  /\ PickUp(p, t) \in PlayerRecord(P)
           /\ SameBody(PickUp(p, t), p)
           /\ PickUp(p, t).status = p.status
<1>1. kMarkPick \in Int
  BY PlayerAssumption
<1>2. CASE t = NoPotion
  BY <1>2 DEF PickUp, SameBody, PlayerRecord
<1>3. CASE t # NoPotion
  <2>1. /\ PotionEffect(p, t) \in PlayerRecord(P)
        /\ SameBody(PotionEffect(p, t), p)
        /\ PotionEffect(p, t).status = p.status
    BY PotionEffectType
  <2>2. /\ IncrMark(PotionEffect(p, t), kMarkPick) \in PlayerRecord(P)
        /\ SameBody(IncrMark(PotionEffect(p, t), kMarkPick), PotionEffect(p, t))
        /\ IncrMark(PotionEffect(p, t), kMarkPick).status = PotionEffect(p, t).status
    BY <1>1, <2>1, IncrMarkType
  <2>3. QED BY <1>3, <2>1, <2>2 DEF PickUp, SameBody, PlayerRecord
<1>4. QED BY <1>2, <1>3

(* A round only shortens shields and invincibility.                          *)
LEMMA PlayerFlushTimeType ==
    ASSUME NEW P, NEW p \in PlayerRecord(P)
    PROVE  /\ PlayerFlushTime(p) \in PlayerRecord(P)
           /\ SameBody(PlayerFlushTime(p), p)
           /\ PlayerFlushTime(p).status = p.status
           /\ PlayerFlushTime(p).HP = p.HP
           /\ PlayerFlushTime(p).mark = p.mark
<1> DEFINE first == [p EXCEPT !.shield_time = CountDown(@)]
           second == [first EXCEPT !.invincible_time = CountDown(@)]
<1>1. first \in PlayerRecord(P) /\ SameBody(first, p)
  BY DEF CountDown, PlayerRecord, SameBody
<1>2. PlayerFlushTime(p) = second
  BY DEF PlayerFlushTime, PlayerRecord
<1>3. second \in PlayerRecord(P) /\ SameBody(second, first)
  <2> HIDE DEF first
  <2> QED BY <1>1 DEF CountDown, PlayerRecord, SameBody
<1>4. QED BY <1>1, <1>2, <1>3 DEF PlayerRecord, SameBody

-----------------------------------------------------------------------------
(* What time does to a player: he ages.                                      *)

(* Exactly the dead have no hit point, and marks are lost only by dying,     *)
(* once.                                                                     *)
Once(p) ==
    /\ IsDead(p) <=> p.HP = 0
    /\ p.HP >= 0
    /\ p.mark >= IF IsDead(p) THEN -kMarkDead ELSE 0

(* The record r is a later one of the same player, who has not moved: the    *)
(* dead stay dead, and nobody dies twice.                                    *)
Aged(r, p) ==
    /\ r.pos = p.pos
    /\ IsDead(p) => IsDead(r)
    /\ Once(p) => Once(r)

(* Ageing twice is ageing.                                                   *)
LEMMA AgedTwice ==
    ASSUME NEW r, NEW q, NEW p, Aged(r, q), Aged(q, p)
    PROVE  Aged(r, p)
BY DEF Aged

(* Who keeps his place, life and marks has aged.                             *)
LEMMA AgedSame ==
    ASSUME NEW r, NEW p, r.pos = p.pos, r.status = p.status, r.HP = p.HP,
           r.mark = p.mark
    PROVE  Aged(r, p)
BY DEF Aged, Once, IsDead

(* Marks that are earned make nobody die.                                    *)
LEMMA IncrMarkAges ==
    ASSUME NEW P, NEW p \in PlayerRecord(P), NEW n \in Nat
    PROVE  Aged(IncrMark(p, n), p)
<1> DEFINE r == IncrMark(p, n)
<1>1. r.pos = p.pos /\ r.status = p.status /\ r.HP = p.HP /\ r.mark = p.mark + n
  BY IncrMarkType DEF SameBody
<1>2. p.mark \in Int /\ kMarkDead \in Int
  BY PlayerAssumption DEF PlayerRecord
<1> SUFFICES Aged(r, p)
  OBVIOUS
<1> HIDE DEF r
<1>3. QED BY <1>1, <1>2 DEF Aged, Once, IsDead

(* A hit kills the living at most once.                                      *)
LEMMA InjuredAges ==
    ASSUME NEW P, NEW p \in PlayerRecord(P)
    PROVE  Aged(Injured(p), p)
<1>1. CASE IsDead(p) \/ p.invincible_time > 0
  BY <1>1 DEF Injured, Aged
<1>2. CASE ~(IsDead(p) \/ p.invincible_time > 0) /\ p.shield_time > 0
  BY <1>2, AgedSame DEF Injured, PlayerRecord
<1>3. CASE ~(IsDead(p) \/ p.invincible_time > 0) /\ ~(p.shield_time > 0)
  <2> DEFINE hurt == [p EXCEPT !.HP = @ - 1]
             dead == [hurt EXCEPT !.status = "DEAD"]
             paid == [dead EXCEPT !.mark = @ - kMarkDead]
             safe == [hurt EXCEPT !.shield_time = kShieldDefaultTime]
  <2>1. p.mark \in Int /\ p.HP \in Int /\ kMarkDead \in Nat
    BY PlayerAssumption DEF PlayerRecord
  <2>2. /\ hurt \in PlayerRecord(P)
        /\ hurt.pos = p.pos /\ hurt.status = p.status
        /\ hurt.HP = p.HP - 1 /\ hurt.mark = p.mark
    BY DEF PlayerRecord
  <2>3. Injured(p) = IF hurt.HP <= 0 THEN paid ELSE safe
    BY <1>3 DEF Injured, DescHP, DescMark
  <2> HIDE DEF hurt
  <2>4. /\ dead \in PlayerRecord(P)
        /\ dead.pos = hurt.pos /\ dead.status = "DEAD"
        /\ dead.HP = hurt.HP /\ dead.mark = hurt.mark
    BY <2>2 DEF PlayerRecord, PlayStatus
  <2>5. /\ safe.pos = hurt.pos /\ safe.status = hurt.status
        /\ safe.HP = hurt.HP /\ safe.mark = hurt.mark
    BY <2>2 DEF PlayerRecord
  <2> HIDE DEF dead, safe
  <2>6. /\ paid.pos = dead.pos /\ paid.status = dead.status
        /\ paid.HP = dead.HP /\ paid.mark = dead.mark - kMarkDead
    BY <2>4 DEF PlayerRecord
  <2> HIDE DEF paid
  <2>7. CASE hurt.HP <= 0
    BY <1>3, <2>1, <2>2, <2>3, <2>4, <2>6, <2>7 DEF Aged, Once, IsDead
  <2>8. CASE ~(hurt.HP <= 0)
    BY <1>3, <2>1, <2>2, <2>3, <2>5, <2>8 DEF Aged, Once, IsDead
  <2>9. QED BY <2>7, <2>8
<1>4. QED BY <1>1, <1>2, <1>3

(* The reward of a hit is no loss.                                           *)
LEMMA InjuryMarkNat ==
    ASSUME NEW p PROVE InjuryMark(p) \in Nat
BY PlayerAssumption DEF InjuryMark

(* A meeting ages both who meet.                                             *)
LEMMA MeetAges ==
    ASSUME NEW P, NEW p \in PlayerRecord(P), NEW o \in PlayerRecord(P)
    PROVE  Aged(Meet(p, o).self, p) /\ Aged(Meet(p, o).other, o)
<1>1. CASE o.invincible_time > 0 /\ p.invincible_time = 0
  BY <1>1, InjuredAges, IncrMarkAges, InjuryMarkNat DEF Meet
<1>2. CASE p.invincible_time > 0 /\ o.invincible_time = 0
  BY <1>2, InjuredAges, IncrMarkAges, InjuryMarkNat DEF Meet
<1>3. CASE /\ ~(o.invincible_time > 0 /\ p.invincible_time = 0)
           /\ ~(p.invincible_time > 0 /\ o.invincible_time = 0)
  BY <1>3 DEF Meet, Aged
<1>4. QED BY <1>1, <1>2, <1>3

(* A potion ages: a rebirth is no resurrection.                              *)
LEMMA PotionEffectAges ==
    ASSUME NEW P, NEW p \in PlayerRecord(P), NEW t \in PotionType
    PROVE  Aged(PotionEffect(p, t), p)
<1>1. CASE t = "REBIRTH"
  <2>1. p.HP \in Int
    BY DEF PlayerRecord
  <2>2. CASE ~IsDead(p) /\ p.HP + 1 <= kPlayerDefaultMaxHP
    <3> DEFINE r == [p EXCEPT !.HP = @ + 1]
    <3>1. PotionEffect(p, t) = r
      BY <1>1, <2>2 DEF PotionEffect, IncrHP
    <3>2. r.pos = p.pos /\ r.status = p.status /\ r.mark = p.mark /\ r.HP = p.HP + 1
      BY DEF PlayerRecord
    <3> HIDE DEF r
    <3>3. QED BY <2>1, <2>2, <3>1, <3>2 DEF Aged, Once, IsDead
  <2>3. CASE ~(~IsDead(p) /\ p.HP + 1 <= kPlayerDefaultMaxHP)
    BY <1>1, <2>3 DEF PotionEffect, IncrHP, Aged
  <2>4. QED BY <2>2, <2>3
<1>2. CASE t # "REBIRTH"
  <2> DEFINE r == PotionEffect(p, t)
  <2>1. r.pos = p.pos /\ r.status = p.status /\ r.HP = p.HP /\ r.mark = p.mark
    BY <1>2 DEF PotionEffect, PlayerRecord, PotionType, NoPotion
  <2>2. QED BY <2>1, AgedSame
<1>3. QED BY <1>1, <1>2

(* So does picking it up.                                                    *)
LEMMA PickUpAges ==
    ASSUME NEW P, NEW p \in PlayerRecord(P), NEW t \in PotionType
    PROVE  Aged(PickUp(p, t), p)
<1>1. CASE t = NoPotion
  BY <1>1 DEF PickUp, Aged
<1>2. CASE t # NoPotion
  <2>1. kMarkPick \in Nat
    BY PlayerAssumption
  <2>2. PotionEffect(p, t) \in PlayerRecord(P) /\ Aged(PotionEffect(p, t), p)
    BY PotionEffectType, PotionEffectAges
  <2>3. Aged(IncrMark(PotionEffect(p, t), kMarkPick), PotionEffect(p, t))
    BY <2>1, <2>2, IncrMarkAges
  <2>4. PickUp(p, t) = IncrMark(PotionEffect(p, t), kMarkPick)
    BY <1>2 DEF PickUp
  <2>5. QED BY <2>2, <2>3, <2>4, AgedTwice
<1>3. QED BY <1>1, <1>2

(* And so does a round.                                                      *)
LEMMA PlayerFlushTimeAges ==
    ASSUME NEW P, NEW p \in PlayerRecord(P)
    PROVE  Aged(PlayerFlushTime(p), p)
BY PlayerFlushTimeType, AgedSame DEF SameBody

(* A new player is alive and owes nothing.                                   *)
LEMMA NewPlayerOnce ==
    ASSUME NEW P, NEW pos \in P PROVE Once(NewPlayer(pos))
BY NewPlayerType, PlayerAssumption DEF Once, PlayerRecord

-----------------------------------------------------------------------------
(* Finite sets and the map.                                                  *)

(* The players of a match are finitely many.                                 *)
LEMMA JoinedFinite ==
    ASSUME Joined \subseteq PlayerId
    PROVE  IsFiniteSet(Joined) /\ Cardinality(Joined) \in Nat
BY GameAssumption, FS_Subset, FS_CardinalityType

(* The map is a finite set of cells.                                         *)
LEMMA CellFinite == IsFiniteSet(Cell)
<1>1. kMapDefaultSize - 1 \in Int
  BY GameAssumption
<1>2. IsFiniteSet(0 .. kMapDefaultSize - 1)
  BY <1>1, FS_Interval
<1>3. QED BY <1>2, FS_Product DEF Cell

-----------------------------------------------------------------------------
(* Induction up to a number.                                                 *)

(* What holds of 0 and is passed on from each number to the next holds of    *)
(* all numbers.                                                              *)
LEMMA UpTo ==
    ASSUME NEW n \in Nat, NEW S, 0 \in S,
           \A i \in 1 .. n : i - 1 \in S => i \in S
    PROVE  \A i \in 0 .. n : i \in S
<1> DEFINE T == (0 .. n) \ S
<1>1. SUFFICES ASSUME T # {} PROVE FALSE
  OBVIOUS
<1>2. T \in SUBSET Nat
  OBVIOUS
<1>3. PICK x \in T : \A y \in T : ~ (<<y, x>> \in OpToRel(<,Nat))
  <2> HIDE DEF T
  <2> QED BY <1>1, <1>2, NatLessThanWellFounded, WFMin
<1>4. \A y \in T : ~ (y < x)
  BY <1>2, <1>3 DEF OpToRel
<1>5. x \in 1 .. n
  OBVIOUS
<1>6. x - 1 \in 0 .. n /\ x - 1 < x
  BY <1>5
<1>7. x - 1 \in S
  BY <1>4, <1>6
<1>8. QED BY <1>5, <1>7

-----------------------------------------------------------------------------
(* Sums over a finite set.                                                   *)

(* The element a sum takes first, and what is left of it.                    *)
First(s) == CHOOSE x \in s : TRUE
Rest(s) == s \ {First(s)}

(* The partial sums of m over the sets of C.                                 *)
PartialSums(h, m, C) == \A s \in C : h[s] = IF s = {} THEN 0 ELSE m[First(s)] + h[Rest(s)]

(* The subsets of S that have at most n elements.                            *)
Small(S, n) == {s \in SUBSET S : Cardinality(s) <= n}

(* One element less.                                                         *)
LEMMA RestSmaller ==
    ASSUME NEW S, IsFiniteSet(S), NEW s \in SUBSET S, s # {}
    PROVE  /\ First(s) \in s /\ Rest(s) \in SUBSET S /\ First(s) \notin Rest(s)
           /\ s = Rest(s) \cup {First(s)}
           /\ Cardinality(Rest(s)) \in Nat
           /\ Cardinality(s) = Cardinality(Rest(s)) + 1
<1>1. First(s) \in s
  BY DEF First
<1>2. IsFiniteSet(s)
  BY FS_Subset
<1>3. Cardinality(Rest(s)) = Cardinality(s) - 1 /\ IsFiniteSet(Rest(s))
  BY <1>1, <1>2, FS_RemoveElement DEF Rest
<1>4. Cardinality(s) \in Nat /\ Cardinality(Rest(s)) \in Nat
  BY <1>2, <1>3, FS_CardinalityType
<1>5. QED BY <1>1, <1>3, <1>4 DEF Rest

(* Two that add up alike are alike, set by set.                              *)
LEMMA PartialSumsOnce ==
    ASSUME NEW S, IsFiniteSet(S), NEW m, NEW g, NEW h,
           PartialSums(g, m, SUBSET S), PartialSums(h, m, SUBSET S)
    PROVE  g[S] = h[S]
<1> DEFINE T == {i \in Nat : \A s \in SUBSET S : Cardinality(s) = i => g[s] = h[s]}
<1>1. Cardinality(S) \in Nat
  BY FS_CardinalityType
<1>2. 0 \in T
  <2>1. ASSUME NEW s \in SUBSET S, Cardinality(s) = 0 PROVE g[s] = h[s]
    <3>1. s = {}
      BY <2>1, FS_Subset, FS_EmptySet
    <3>2. QED BY <3>1 DEF PartialSums
  <2>2. QED BY <2>1
<1>3. ASSUME NEW i \in 1 .. Cardinality(S), i - 1 \in T PROVE i \in T
  <2>1. ASSUME NEW s \in SUBSET S, Cardinality(s) = i PROVE g[s] = h[s]
    <3>1. s # {}
      BY <2>1, FS_EmptySet
    <3>2. Rest(s) \in SUBSET S /\ Cardinality(Rest(s)) = i - 1
      BY <2>1, <3>1, RestSmaller
    <3>3. g[Rest(s)] = h[Rest(s)]
      BY <1>3, <3>2
    <3>4. QED BY <3>1, <3>3 DEF PartialSums
  <2>2. QED BY <2>1
<1>4. \A i \in 0 .. Cardinality(S) : i \in T
  <2> HIDE DEF T
  <2> QED BY <1>1, <1>2, <1>3, UpTo
<1>5. Cardinality(S) \in T
  <2> HIDE DEF T
  <2> QED BY <1>1, <1>4
<1>6. QED BY <1>5

(* Partial sums exist.                                                       *)
LEMMA PartialSumsExist ==
    ASSUME NEW S, IsFiniteSet(S), NEW m \in [S -> Int]
    PROVE  \E h \in [SUBSET S -> Int] : PartialSums(h, m, SUBSET S)
<1>1. Cardinality(S) \in Nat
  BY FS_CardinalityType
<1> DEFINE T == {i \in Nat : \E h \in [Small(S, i) -> Int] : PartialSums(h, m, Small(S, i))}
<1>2. \A s \in SUBSET S : Cardinality(s) \in Nat
  BY FS_Subset, FS_CardinalityType
<1>3. 0 \in T
  <2> DEFINE h == [s \in Small(S, 0) |-> 0]
  <2>1. \A s \in Small(S, 0) : s = {}
    BY <1>2, FS_Subset, FS_EmptySet DEF Small
  <2>2. h \in [Small(S, 0) -> Int]
    OBVIOUS
  <2>3. PartialSums(h, m, Small(S, 0))
    BY <2>1 DEF PartialSums
  <2> HIDE DEF h
  <2>4. QED BY <2>2, <2>3
<1>4. ASSUME NEW i \in 1 .. Cardinality(S), i - 1 \in T PROVE i \in T
  <2>1. PICK h \in [Small(S, i - 1) -> Int] : PartialSums(h, m, Small(S, i - 1))
    BY <1>4
  <2> DEFINE g == [s \in Small(S, i) |-> IF s = {} THEN 0 ELSE m[First(s)] + h[Rest(s)]]
  <2>2. ASSUME NEW s \in Small(S, i), s # {}
        PROVE  /\ First(s) \in S /\ Rest(s) \in Small(S, i - 1)
               /\ Rest(s) \in Small(S, i)
    <3>1. s \in SUBSET S /\ Cardinality(s) <= i /\ Cardinality(s) \in Nat
      BY <1>2 DEF Small
    <3>2. /\ First(s) \in s /\ Rest(s) \in SUBSET S
          /\ Cardinality(Rest(s)) \in Nat /\ Cardinality(s) = Cardinality(Rest(s)) + 1
      BY <2>2, <3>1, RestSmaller
    <3>3. Cardinality(Rest(s)) <= i - 1 /\ Cardinality(Rest(s)) <= i
      BY <3>1, <3>2
    <3>4. QED BY <3>1, <3>2, <3>3 DEF Small
  <2>3. g \in [Small(S, i) -> Int]
    <3>1. ASSUME NEW s \in Small(S, i), s # {} PROVE m[First(s)] + h[Rest(s)] \in Int
      <4>1. m[First(s)] \in Int /\ h[Rest(s)] \in Int
        BY <2>2, <3>1
      <4>2. QED BY <4>1
    <3>2. QED BY <3>1
  <2>4. \A s \in Small(S, i - 1) : s \in Small(S, i) /\ g[s] = h[s]
    <3>1. \A s \in Small(S, i - 1) : s \in Small(S, i)
      BY <1>2 DEF Small
    <3>2. QED BY <2>1, <3>1 DEF PartialSums
  <2>5. PartialSums(g, m, Small(S, i))
    <3>1. ASSUME NEW s \in Small(S, i), s # {} PROVE g[s] = m[First(s)] + g[Rest(s)]
      BY <2>2, <2>4, <3>1
    <3>2. QED BY <3>1 DEF PartialSums
  <2> HIDE DEF g
  <2>6. QED BY <2>3, <2>5
<1>5. Cardinality(S) \in T
  <2> HIDE DEF T
  <2>1. \A i \in 0 .. Cardinality(S) : i \in T
    BY <1>1, <1>3, <1>4, UpTo
  <2>2. QED BY <1>1, <2>1
<1>6. Small(S, Cardinality(S)) = SUBSET S
  <2>1. \A s \in SUBSET S : Cardinality(s) <= Cardinality(S)
    BY FS_Subset
  <2>2. QED BY <2>1 DEF Small
<1>7. QED BY <1>5, <1>6

(* A sum is what partial sums arrive at.                                     *)
LEMMA SumBy ==
    ASSUME NEW S, IsFiniteSet(S), NEW m \in [S -> Int], NEW h,
           PartialSums(h, m, SUBSET S)
    PROVE  SumFunction(m) = h[S]
<1> DEFINE Eq(f) == f = [s \in SUBSET DOMAIN m |->
                           IF s = {} THEN 0
                           ELSE m[CHOOSE x \in s : TRUE] + f[s \ {CHOOSE x \in s : TRUE}]]
           sums == CHOOSE f : Eq(f)
<1>1. SumFunction(m) = sums[DOMAIN m]
  BY DEF SumFunction, SumFunctionOnSet, FoldFunctionOnSet, MapThenFoldSet
<1>2. PICK g \in [SUBSET S -> Int] : PartialSums(g, m, SUBSET S)
  BY PartialSumsExist
<1>3. Eq(g)
  <2>1. \A s \in SUBSET S : g[s] = IF s = {} THEN 0
                                   ELSE m[CHOOSE x \in s : TRUE]
                                          + g[s \ {CHOOSE x \in s : TRUE}]
    BY <1>2 DEF PartialSums, First, Rest
  <2>2. DOMAIN m = S
    OBVIOUS
  <2>3. QED BY <2>1, <2>2
<1>4. Eq(sums)
  <2> HIDE DEF Eq
  <2>1. QED BY <1>3
<1>5. PartialSums(sums, m, SUBSET S)
  <2> HIDE DEF sums
  <2>1. QED BY <1>4 DEF PartialSums, First, Rest
<1>6. sums[S] = h[S]
  <2> HIDE DEF sums
  <2>1. QED BY <1>5, PartialSumsOnce
<1>7. QED BY <1>1, <1>6

(* A sum is an integer, and the sum of two functions is that of their sums.  *)
LEMMA SumAdds ==
    ASSUME NEW S, IsFiniteSet(S), NEW m \in [S -> Int], NEW k \in [S -> Int]
    PROVE  /\ SumFunction(m) \in Int /\ SumFunction(k) \in Int
           /\ SumFunction([x \in S |-> m[x] + k[x]]) = SumFunction(m) + SumFunction(k)
<1> DEFINE mk == [x \in S |-> m[x] + k[x]]
<1>1. PICK g \in [SUBSET S -> Int] : PartialSums(g, m, SUBSET S)
  BY PartialSumsExist
<1>2. PICK h \in [SUBSET S -> Int] : PartialSums(h, k, SUBSET S)
  BY PartialSumsExist
<1> DEFINE gh == [s \in SUBSET S |-> g[s] + h[s]]
<1>3. mk \in [S -> Int]
  OBVIOUS
<1>4. PartialSums(gh, mk, SUBSET S)
  <2>1. ASSUME NEW s \in SUBSET S, s = {} PROVE gh[s] = 0
    <3>1. g[s] = 0 /\ h[s] = 0
      BY <1>1, <1>2, <2>1 DEF PartialSums
    <3>2. QED BY <3>1
  <2>2. ASSUME NEW s \in SUBSET S, s # {} PROVE gh[s] = mk[First(s)] + gh[Rest(s)]
    <3>1. First(s) \in S /\ Rest(s) \in SUBSET S
      BY <2>2, RestSmaller
    <3>2. g[s] = m[First(s)] + g[Rest(s)] /\ h[s] = k[First(s)] + h[Rest(s)]
      BY <1>1, <1>2, <2>2 DEF PartialSums
    <3>3. PICK a \in S, r \in SUBSET S : a = First(s) /\ r = Rest(s)
      BY <3>1
    <3>4. m[a] \in Int /\ k[a] \in Int /\ g[r] \in Int /\ h[r] \in Int
      OBVIOUS
    <3>5. mk[a] = m[a] + k[a] /\ gh[r] = g[r] + h[r] /\ gh[s] = g[s] + h[s]
      OBVIOUS
    <3>6. gh[s] = mk[a] + gh[r]
      <4> HIDE DEF gh, mk
      <4> QED BY <3>2, <3>3, <3>4, <3>5
    <3>7. QED BY <3>3, <3>6
  <2> HIDE DEF gh, mk
  <2>3. QED BY <2>1, <2>2 DEF PartialSums
<1>5. S \in SUBSET S /\ g[S] \in Int /\ h[S] \in Int /\ gh[S] = g[S] + h[S]
  OBVIOUS
<1> HIDE DEF gh
<1>6. SumFunction(m) = g[S] /\ SumFunction(k) = h[S]
  BY <1>1, <1>2, SumBy
<1>7. SumFunction(mk) = gh[S]
  <2> HIDE DEF mk
  <2> QED BY <1>3, <1>4, SumBy
<1>8. QED BY <1>5, <1>6, <1>7

(* What is the same n for the elements of D and nothing for the others adds  *)
(* up to n for each element of D.                                            *)
LEMMA SumCounts ==
    ASSUME NEW S, IsFiniteSet(S), NEW D \in SUBSET S, NEW n \in Int
    PROVE  SumFunction([x \in S |-> IF x \in D THEN n ELSE 0]) = n * Cardinality(D)
<1> DEFINE m == [x \in S |-> IF x \in D THEN n ELSE 0]
           h == [s \in SUBSET S |-> n * Cardinality(s \cap D)]
<1>1. \A s \in SUBSET S : IsFiniteSet(s \cap D) /\ Cardinality(s \cap D) \in Nat
  BY FS_Subset, FS_CardinalityType
<1>2. ASSUME NEW s \in SUBSET S, s = {} PROVE h[s] = 0
  <2>1. Cardinality(s \cap D) = 0
    BY <1>2, FS_EmptySet
  <2>2. QED BY <2>1
<1>3. ASSUME NEW s \in SUBSET S, s # {} PROVE h[s] = m[First(s)] + h[Rest(s)]
  <2>1. PICK a, r : a = First(s) /\ r = Rest(s)
    OBVIOUS
  <2>2. a \in S /\ r \in SUBSET S /\ a \notin r /\ s = r \cup {a}
    BY <1>3, <2>1, RestSmaller
  <2>3. PICK i, j \in Nat : i = Cardinality(r \cap D) /\ j = Cardinality(s \cap D)
    BY <1>1, <2>2
  <2>4. h[s] = n * j /\ h[r] = n * i
    BY <2>2, <2>3
  <2>5. CASE a \in D
    <3>1. s \cap D = (r \cap D) \cup {a} /\ a \notin r \cap D
      BY <2>2, <2>5
    <3>2. j = i + 1
      BY <1>1, <2>2, <2>3, <3>1, FS_AddElement
    <3>3. m[a] = n
      BY <2>2, <2>5
    <3>4. n * (i + 1) = n + n * i
      OBVIOUS
    <3> HIDE DEF h, m
    <3>5. QED BY <2>1, <2>4, <3>2, <3>3, <3>4
  <2>6. CASE a \notin D
    <3>1. s \cap D = r \cap D
      BY <2>2, <2>6
    <3>2. j = i /\ m[a] = 0
      BY <2>2, <2>3, <2>6, <3>1
    <3>3. n * i \in Int
      OBVIOUS
    <3> HIDE DEF h, m
    <3>4. QED BY <2>1, <2>4, <3>2, <3>3
  <2>7. QED BY <2>5, <2>6
<1>4. PartialSums(h, m, SUBSET S)
  <2> HIDE DEF h, m
  <2> QED BY <1>2, <1>3 DEF PartialSums
<1>5. m \in [S -> Int]
  OBVIOUS
<1>6. h[S] = n * Cardinality(D)
  <2>1. S \in SUBSET S /\ S \cap D = D
    OBVIOUS
  <2>2. QED BY <2>1
<1>7. SumFunction(m) = h[S]
  <2> HIDE DEF h, m
  <2> QED BY <1>4, <1>5, SumBy
<1>8. QED BY <1>6, <1>7

(* From m to k each of D loses n and o earns e.                              *)
Moved(S, m, k, D, n, o, e) ==
    /\ IsFiniteSet(S)
    /\ m \in [S -> Int] /\ k \in [S -> Int]
    /\ D \in SUBSET S /\ n \in Int
    /\ o \in S /\ e \in Int
    /\ \A x \in S : k[x] = m[x] - (IF x \in D THEN n ELSE 0)
                                + (IF x = o THEN e ELSE 0)

(* So does the sum.                                                          *)
LEMMA SumMoves ==
    ASSUME NEW S, NEW m, NEW k, NEW D, NEW n, NEW o, NEW e,
           Moved(S, m, k, D, n, o, e)
    PROVE  SumFunction(k) - SumFunction(m) = e - n * Cardinality(D)
<1> USE DEF Moved
<1> DEFINE lost == [x \in S |-> IF x \in D THEN -n ELSE 0]
           won == [x \in S |-> IF x \in {o} THEN e ELSE 0]
           left == [x \in S |-> m[x] + lost[x]]
<1>1. lost \in [S -> Int] /\ won \in [S -> Int]
  OBVIOUS
<1>2. left \in [S -> Int]
  <2> HIDE DEF lost
  <2> QED BY <1>1
<1>3. \A x \in S : k[x] = left[x] + won[x]
  <2>1. ASSUME NEW x \in S PROVE k[x] = left[x] + won[x]
    <3>1. m[x] \in Int
      OBVIOUS
    <3>2. k[x] = m[x] - (IF x \in D THEN n ELSE 0) + (IF x = o THEN e ELSE 0)
      OBVIOUS
    <3>3. left[x] = m[x] + (IF x \in D THEN -n ELSE 0) /\ won[x] = IF x = o THEN e ELSE 0
      OBVIOUS
    <3>4. QED BY <3>1, <3>2, <3>3
  <2>2. QED BY <2>1
<1>4. k = [x \in S |-> left[x] + won[x]]
  <2> HIDE DEF left, won
  <2> QED BY <1>3
<1>5. Cardinality(D) \in Nat /\ Cardinality({o}) = 1
  BY FS_Subset, FS_CardinalityType, FS_Singleton
<1>6. SumFunction(lost) = (-n) * Cardinality(D) /\ SumFunction(won) = e * 1
  <2>1. PICK l, one : l = -n /\ one = {o} /\ l \in Int /\ one \in SUBSET S
    <3>1. -n \in Int /\ {o} \in SUBSET S
      OBVIOUS
    <3>2. QED BY <3>1
  <2>2. SumFunction([x \in S |-> IF x \in D THEN l ELSE 0]) = l * Cardinality(D)
    BY <2>1, SumCounts
  <2>3. SumFunction([x \in S |-> IF x \in one THEN e ELSE 0]) = e * Cardinality(one)
    BY <2>1, SumCounts
  <2>4. lost = [x \in S |-> IF x \in D THEN l ELSE 0]
    BY <2>1
  <2>5. won = [x \in S |-> IF x \in one THEN e ELSE 0]
    BY <2>1
  <2> HIDE DEF lost, won
  <2>6. QED BY <1>5, <2>1, <2>2, <2>3, <2>4, <2>5
<1> HIDE DEF lost, won
<1>7. SumFunction(left) = SumFunction(m) + SumFunction(lost) /\ SumFunction(m) \in Int
  BY <1>1, SumAdds
<1> HIDE DEF left
<1>8. SumFunction(k) = SumFunction(left) + SumFunction(won)
  BY <1>1, <1>2, <1>4, SumAdds
<1>9. PICK c \in Nat, t \in Int : c = Cardinality(D) /\ t = SumFunction(m)
  BY <1>5, <1>7
<1>10. PICK z \in Int : z = n * c
  OBVIOUS
<1>11. (-n) * c = -z /\ e * 1 = e
  BY <1>10
<1>12. SumFunction(lost) = -z /\ SumFunction(won) = e
  BY <1>6, <1>9, <1>11
<1>13. SumFunction(left) = t - z
  BY <1>7, <1>9, <1>12
<1>14. SumFunction(k) = t - z + e
  BY <1>8, <1>12, <1>13
<1>15. SumFunction(k) - SumFunction(m) = e - z
  BY <1>9, <1>14
<1>16. QED BY <1>9, <1>10, <1>15

-----------------------------------------------------------------------------
(* Type correctness, action by action.                                       *)

(* The initial state, before the first Init.                                 *)
LEMMA TypeInit == Init => TypeOK
BY GameAssumption, FS_EmptySet
   DEF Init, TypeOK, EmptyMap, Joined, Bombs, NoBlock, Block, NoPotion,
       PotionType, GameStatus, Phase, Cell

(* Init fills the empty map.                                                 *)
LEMMA TypeInitGame ==
    ASSUME TypeOK, NEW l \in Layouts, InitGame(l)
    PROVE  TypeOK'
BY GameAssumption, FS_EmptySet
   DEF TypeOK, InitGame, Joined, Bombs, Layout, GameStatus, meeting, flushing

(* Reset empties it.                                                         *)
LEMMA TypeReset ==
    ASSUME TypeOK, Reset
    PROVE  TypeOK'
BY GameAssumption, FS_EmptySet
   DEF TypeOK, Reset, EmptyMap, Joined, Bombs, NoBlock, Block, NoPotion,
       PotionType, GameStatus, meeting, flushing

(* A player who joins stands on a birth: there is one for him, because the   *)
(* match is not full.                                                        *)
LEMMA TypeAddPlayer ==
    ASSUME TypeOK, NEW p \in PlayerId, AddPlayer(p)
    PROVE  TypeOK'
<1>1. Cardinality(Joined) \in 0 .. 3 /\ IsFiniteSet(Joined)
  BY GameAssumption, JoinedFinite DEF TypeOK, AddPlayer
<1>2. player_birth[Cardinality(Joined)] \in Cell
  BY <1>1 DEF TypeOK
<1>3. NewPlayer(player_birth[Cardinality(Joined)]) \in PlayerRecord(Cell)
  BY <1>2, NewPlayerType
<1>4. Joined' = Joined \cup {p}
  BY DEF AddPlayer, Joined
<1>5. player_map' \in [Joined' -> PlayerRecord(Cell)]
  BY <1>3, <1>4 DEF TypeOK, AddPlayer, Joined
<1>6. action_player_map' \in [Joined' -> Nat]
  BY <1>4 DEF TypeOK, AddPlayer
<1>7. players' \in [Cell -> SUBSET Joined']
  BY <1>2, <1>4 DEF TypeOK, AddPlayer
<1>8. game_status' \in {"WAIT_PLAYER", "WAIT_ACTION"}
  BY DEF AddPlayer
<1>9. game_status' = "WAIT_PLAYER" => Cardinality(Joined') < kPlayerDefaultNum
  <2>1. Cardinality(Joined') = Cardinality(Joined) + 1
    BY <1>1, <1>4, FS_AddElement DEF AddPlayer
  <2>2. Cardinality(Joined) < kPlayerDefaultNum
    BY DEF TypeOK, AddPlayer
  <2>3. game_status' = "WAIT_PLAYER" => Cardinality(Joined) + 1 # kPlayerDefaultNum
    BY DEF AddPlayer
  <2>4. QED BY <1>1, <2>1, <2>2, <2>3, GameAssumption
<1>10. QED
  BY <1>4, <1>5, <1>6, <1>7, <1>8, <1>9
     DEF TypeOK, AddPlayer, Bombs, GameStatus, meeting, flushing

(* Counting an action keeps the type of the counts.                          *)
LEMMA SpendActionType ==
    ASSUME TypeOK, NEW p \in Joined, SpendAction(p)
    PROVE  action_player_map' \in [Joined -> Nat]
BY DEF TypeOK, SpendAction

(* Taking the dead off the map keeps the type of the register.               *)
LEMMA CleanDeadType ==
    ASSUME NEW J, NEW area \in [Cell -> SUBSET J], NEW records
    PROVE  CleanDead(area, records) \in [Cell -> SUBSET J]
BY DEF CleanDead

(* Placing adds one bomb.                                                    *)
LEMMA TypePlaceBomb ==
    ASSUME TypeOK, NEW p \in PlayerId, NEW b \in BombId, PlaceBomb(p, b)
    PROVE  TypeOK'
<1>1. p \in Joined /\ player_map[p] \in PlayerRecord(Cell)
  BY DEF TypeOK, PlaceBomb, CanAct
<1>2. player_map[p].pos \in Cell /\ player_map[p].bomb_range \in Nat
  BY <1>1 DEF PlayerRecord
<1>3. [player_map[p] EXCEPT !.bomb_now_num = @ + 1] \in PlayerRecord(Cell)
  BY <1>1 DEF PlayerRecord
<1>4. player_map' \in [Joined -> PlayerRecord(Cell)] /\ Joined' = Joined
  BY <1>1, <1>3 DEF TypeOK, PlaceBomb, Joined
<1>5. Bombs' = Bombs \cup {b}
  BY DEF PlaceBomb, Bombs
<1>6. bomb_map' \in [Bombs' -> BombRecord]
  <2>1. PICK r \in 0 .. kBombDefaultRandom :
          bomb_map' = [i \in Bombs \cup {b} |->
            IF i = b
            THEN [pos |-> player_map[p].pos, range |-> player_map[p].bomb_range,
                  time |-> kBombDefaultTime + r, player_id |-> p,
                  status |-> "BOMB_SILENT"]
            ELSE bomb_map[i]]
    BY DEF PlaceBomb
  <2>2. kBombDefaultTime + r \in Nat
    BY GameAssumption
  <2>3. [pos |-> player_map[p].pos, range |-> player_map[p].bomb_range,
         time |-> kBombDefaultTime + r, player_id |-> p,
         status |-> "BOMB_SILENT"] \in BombRecord
    BY <1>2, <2>2 DEF BombRecord, BombStatus
  <2>4. QED BY <1>5, <2>1, <2>3 DEF TypeOK, Bombs
<1>7. bomb_id' \in [Cell -> BombId \cup {NoBomb}]
  BY <1>2 DEF TypeOK, PlaceBomb
<1>8. players' \in [Cell -> SUBSET Joined]
  BY CleanDeadType DEF TypeOK, PlaceBomb
<1>9. action_player_map' \in [Joined -> Nat]
  BY <1>1, SpendActionType DEF PlaceBomb
<1>10. QED
  BY <1>4, <1>5, <1>6, <1>7, <1>8, <1>9
     DEF TypeOK, PlaceBomb, CanAct, match, meeting, flushing

(* A refused bomb changes only the count.                                    *)
LEMMA TypePlaceRefused ==
    ASSUME TypeOK, NEW p \in PlayerId, PlaceRefused(p)
    PROVE  TypeOK'
<1>1. action_player_map' \in [Joined -> Nat]
  BY SpendActionType DEF PlaceRefused, CanAct
<1>2. QED BY <1>1 DEF TypeOK, PlaceRefused, Joined, Bombs, match, board, meeting, flushing

(* Standing still is counted, and the dead leave.                            *)
LEMMA TypeStaySilent ==
    ASSUME TypeOK, NEW p \in PlayerId, StaySilent(p)
    PROVE  TypeOK'
<1>1. action_player_map' \in [Joined -> Nat]
  BY SpendActionType DEF StaySilent, CanAct
<1>2. players' \in [Cell -> SUBSET Joined]
  BY CleanDeadType DEF TypeOK, StaySilent
<1>3. QED BY <1>1, <1>2 DEF TypeOK, StaySilent, Joined, Bombs, match, meeting, flushing

(* A refused move changes only the count.                                    *)
LEMMA TypeMoveRefused ==
    ASSUME TypeOK, NEW p \in PlayerId, NEW d \in Direction, MoveRefused(p, d)
    PROVE  TypeOK'
<1>1. action_player_map' \in [Joined -> Nat]
  BY SpendActionType DEF MoveRefused, CanAct
<1>2. QED BY <1>1 DEF TypeOK, MoveRefused, Joined, Bombs, match, board, meeting, flushing

(* Pushing gives a bomb the status of the direction.                         *)
LEMMA TypePushBomb ==
    ASSUME TypeOK, NEW p \in PlayerId, NEW d \in Direction, PushBomb(p, d)
    PROVE  TypeOK'
<1>1. action_player_map' \in [Joined -> Nat]
  BY SpendActionType DEF PushBomb, CanAct
<1>2. CastStatus(d) \in BombStatus
  BY DEF CastStatus, Direction, BombStatus
<1>3. \A r \in BombRecord : [r EXCEPT !.status = CastStatus(d)] \in BombRecord
  BY <1>2 DEF BombRecord
<1>4. bomb_map' \in [Bombs -> BombRecord] /\ Bombs' = Bombs
  BY <1>3 DEF TypeOK, PushBomb, Bombs
<1>5. QED BY <1>1, <1>4 DEF TypeOK, PushBomb, Joined, match, board, meeting, flushing

(* Moving registers the mover in the cell he enters.                         *)
LEMMA TypeMoveTo ==
    ASSUME TypeOK, NEW p \in PlayerId, NEW d \in Direction, MoveTo(p, d)
    PROVE  TypeOK'
<1>1. p \in Joined /\ Target(p, d) \in Cell /\ player_map[p] \in PlayerRecord(Cell)
  BY DEF TypeOK, MoveTo, CanAct
<1>2. action_player_map' \in [Joined -> Nat]
  BY <1>1, SpendActionType DEF MoveTo
<1>3. [player_map[p] EXCEPT !.pos = Target(p, d)] \in PlayerRecord(Cell)
  BY <1>1 DEF PlayerRecord
<1>4. player_map' \in [Joined -> PlayerRecord(Cell)] /\ Joined' = Joined
  BY <1>1, <1>3 DEF TypeOK, MoveTo, Joined
<1>5. player_map[p].pos \in Cell
  BY <1>1 DEF PlayerRecord
<1>6. players' \in [Cell -> SUBSET Joined]
  BY <1>1, <1>5 DEF TypeOK, MoveTo
<1>7. to_meet' \subseteq Joined \ {p}
  BY <1>1 DEF TypeOK, MoveTo
<1>8. p # NoPlayer
  BY GameAssumption
<1>9. QED
  BY <1>1, <1>2, <1>4, <1>6, <1>7, <1>8
     DEF TypeOK, MoveTo, CanAct, Bombs, Phase, match, flushing

(* A meeting changes the records of the two who meet.                        *)
LEMMA TypeMeetOther ==
    ASSUME TypeOK, NEW o \in PlayerId, MeetOther(o)
    PROVE  TypeOK'
<1> DEFINE met == Meet(player_map[mover], player_map[o])
<1>1. mover \in Joined /\ o \in Joined
  BY DEF TypeOK, MeetOther
<1>2. met.self \in PlayerRecord(Cell) /\ met.other \in PlayerRecord(Cell)
  BY <1>1, MeetType DEF TypeOK
<1>3. player_map' = [player_map EXCEPT ![mover] = met.self, ![o] = met.other]
  BY DEF MeetOther
<1>4. player_map' \in [Joined -> PlayerRecord(Cell)] /\ Joined' = Joined
  <2> HIDE DEF met
  <2> QED BY <1>2, <1>3 DEF TypeOK, Joined
<1>5. QED BY <1>4 DEF TypeOK, MeetOther, Bombs, match, board, flushing

(* The pickup changes the record of the mover and the potion of his cell.    *)
LEMMA TypeFinishMove ==
    ASSUME TypeOK, FinishMove
    PROVE  TypeOK'
<1>1. mover \in Joined /\ player_map[mover] \in PlayerRecord(Cell)
  BY DEF TypeOK, FinishMove
<1>2. player_map[mover].pos \in Cell
  BY <1>1 DEF PlayerRecord
<1>3. potion_type[player_map[mover].pos] \in PotionType
  BY <1>2 DEF TypeOK
<1>4. PickUp(player_map[mover], potion_type[player_map[mover].pos]) \in PlayerRecord(Cell)
  BY <1>1, <1>3, PickUpType
<1>5. player_map' \in [Joined -> PlayerRecord(Cell)] /\ Joined' = Joined
  BY <1>4 DEF TypeOK, FinishMove, Joined
<1>6. players' \in [Cell -> SUBSET Joined]
  BY CleanDeadType DEF TypeOK, FinishMove
<1>7. potion_type' \in [Cell -> PotionType]
  BY <1>2 DEF TypeOK, FinishMove, TakePotion, NoPotion, PotionType
<1>8. QED
  BY <1>5, <1>6, <1>7 DEF TypeOK, FinishMove, Bombs, Phase, match, flushing

(* FlushTime starts with the bombs in motion.                                *)
LEMMA TypeFlushTime ==
    ASSUME TypeOK, FlushTime
    PROVE  TypeOK'
BY DEF TypeOK, FlushTime, NextRound, InMotion, Joined, Bombs, Phase, GameStatus, meeting

(* A bomb that glides lies on another cell.                                  *)
LEMMA TypeGlideBomb ==
    ASSUME TypeOK, NEW b \in BombId, GlideBomb(b)
    PROVE  TypeOK'
<1>1. b \in Bombs /\ bomb_map[b].pos \in Cell /\ NextPos(b) \in Cell
  BY DEF TypeOK, GlideBomb, BombRecord
<1>2. \A r \in BombRecord : [r EXCEPT !.pos = NextPos(b)] \in BombRecord
  BY <1>1 DEF BombRecord
<1>3. bomb_map' \in [Bombs -> BombRecord] /\ Bombs' = Bombs
  BY <1>1, <1>2 DEF TypeOK, GlideBomb, Bombs
<1>4. bomb_id' \in [Cell -> BombId \cup {NoBomb}]
  BY <1>1 DEF TypeOK, GlideBomb
<1>5. QED BY <1>3, <1>4 DEF TypeOK, GlideBomb, Joined, match, meeting

(* A bomb that stops lies still.                                             *)
LEMMA TypeStopBomb ==
    ASSUME TypeOK, NEW b \in BombId, StopBomb(b)
    PROVE  TypeOK'
<1>1. \A r \in BombRecord : [r EXCEPT !.status = "BOMB_SILENT"] \in BombRecord
  BY DEF BombRecord, BombStatus
<1>2. bomb_map' \in [Bombs -> BombRecord] /\ Bombs' = Bombs
  BY <1>1 DEF TypeOK, StopBomb, Bombs
<1>3. QED BY <1>2 DEF TypeOK, StopBomb, Joined, match, board, meeting

(* An ordering of a finite set of bombs is a queue of bombs.                 *)
LEMMA OrderingIsQueue ==
    ASSUME NEW S \in SUBSET BombId, NEW q \in SetToSeqs(S)
    PROVE  q \in Seq(BombId)
<1>1. Cardinality(S) \in Nat
  BY GameAssumption, FS_Subset, FS_CardinalityType
<1>2. q \in [1 .. Cardinality(S) -> BombId]
  BY DEF SetToSeqs
<1>3. QED BY <1>1, <1>2

(* Burning the fuses queues the bombs that are due.                          *)
LEMMA TypeBurnFuses ==
    ASSUME TypeOK, BurnFuses
    PROVE  TypeOK'
<1>1. \A r \in BombRecord : [r EXCEPT !.time = CountDown(@)] \in BombRecord
  BY DEF BombRecord, CountDown
<1>2. bomb_map' \in [Bombs -> BombRecord] /\ Bombs' = Bombs
  BY <1>1 DEF TypeOK, BurnFuses, Bombs
<1>3. bomb_que' \in Seq(BombId)
  BY OrderingIsQueue DEF TypeOK, BurnFuses, Due
<1>4. QED BY <1>2, <1>3 DEF TypeOK, BurnFuses, Joined, Phase, match, board, meeting

(* Queueing the bomb an arm hits keeps the queue a queue.                    *)
LEMMA QueueHitType ==
    ASSUME TypeOK, NEW que \in Seq(BombId), NEW pos, NEW i, NEW range
    PROVE  QueueHit(que, pos, i, range) \in Seq(BombId)
<1> DEFINE hit == {c \in ArmCells(pos, i, range) : bomb_id[c] # NoBomb}
<1>1. CASE hit = {}
  BY <1>1 DEF QueueHit
<1>2. CASE hit # {}
  <2>1. (CHOOSE c \in hit : TRUE) \in hit
    BY <1>2
  <2>2. hit \subseteq Cell
    BY DEF ArmCells
  <2>3. bomb_id[CHOOSE c \in hit : TRUE] \in BombId
    BY <2>1, <2>2 DEF TypeOK
  <2>4. QueueHit(que, pos, i, range) = Append(que, bomb_id[CHOOSE c \in hit : TRUE])
    BY <1>2 DEF QueueHit
  <2>5. QED BY <2>3, <2>4
<1>3. QED BY <1>1, <1>2

(* The blast leaves a record for every player.                               *)
LEMMA AfterBlastType ==
    ASSUME TypeOK, NEW p \in Joined, NEW owner, NEW hit \in SUBSET Joined,
           NEW mud \in SUBSET Cell
    PROVE  AfterBlast(p, owner, hit, mud) \in PlayerRecord(Cell)
<1> DEFINE r == IF p \in hit THEN Injured(player_map[p]) ELSE player_map[p]
           spent == [r EXCEPT !.bomb_now_num = @ - 1]
           kills == {v \in hit \ {owner} : Killed(player_map[v])}
           earned == kMarkKill * Cardinality(kills) + kMarkBombMud * Cardinality(mud)
<1>1. r \in PlayerRecord(Cell)
  BY InjuredType DEF TypeOK
<1>2. spent \in PlayerRecord(Cell)
  <2> HIDE DEF r
  <2> QED BY <1>1 DEF PlayerRecord
<1>3. earned \in Int
  <2>1. Cardinality(kills) \in Nat
    BY JoinedFinite, FS_Subset, FS_CardinalityType DEF TypeOK
  <2>2. Cardinality(mud) \in Nat
    BY CellFinite, FS_Subset, FS_CardinalityType
  <2>3. kMarkKill \in Int /\ kMarkBombMud \in Int
    BY PlayerAssumption
  <2>4. QED
    <3> HIDE DEF kills
    <3> QED BY <2>1, <2>2, <2>3
<1>4. IncrMark(spent, earned) \in PlayerRecord(Cell)
  <2> HIDE DEF spent, earned
  <2> QED BY <1>2, <1>3, IncrMarkType
<1>5. QED BY <1>1, <1>4 DEF AfterBlast

(* An explosion removes a bomb, injures players and sweeps the map.          *)
LEMMA TypeExplode ==
    ASSUME TypeOK, Explode
    PROVE  TypeOK'
<1> DEFINE b      == Head(bomb_que)
           pos    == bomb_map[b].pos
           range  == bomb_map[b].range
           struck == BlastCells(pos, range)
           swept  == Swept(pos, struck)
           mud    == {c \in swept : IsBombAble(c)}
           hit    == UNION {players[c] : c \in struck}
           owner  == bomb_map[b].player_id
<1>1. b \in Bombs /\ pos \in Cell
  BY DEF TypeOK, Explode, BombRecord
<1>2. struck \subseteq Cell
  BY <1>1 DEF BlastCells, ArmCells
<1>3. mud \subseteq Cell
  BY <1>2 DEF Swept
<1>4. hit \subseteq Joined
  BY <1>2 DEF TypeOK
<1>5. Joined' = Joined /\ player_map' \in [Joined -> PlayerRecord(Cell)]
  <2>1. player_map' = [p \in Joined |-> AfterBlast(p, owner, hit, mud)]
    BY DEF Explode
  <2>2. \A p \in Joined : AfterBlast(p, owner, hit, mud) \in PlayerRecord(Cell)
    BY <1>3, <1>4, AfterBlastType
  <2> HIDE DEF hit, mud, owner
  <2>3. QED BY <2>1, <2>2 DEF Joined
<1>6. Bombs' = Bombs \ {b} /\ bomb_map' \in [Bombs' -> BombRecord]
  BY DEF TypeOK, Explode, Bombs
<1>7. bomb_id' \in [Cell -> BombId \cup {NoBomb}]
  BY <1>1 DEF TypeOK, Explode
<1>8. potion_type' \in [Cell -> PotionType]
  <2>1. \A c \in Cell : block[c].potion \in PotionType
    BY DEF TypeOK, Block
  <2>2. NoPotion \in PotionType
    BY DEF NoPotion, PotionType
  <2>3. potion_type' = [c \in Cell |-> IF c \in mud THEN block[c].potion
                                      ELSE IF c \in swept THEN NoPotion
                                      ELSE potion_type[c]]
    BY DEF Explode
  <2> HIDE DEF mud, swept
  <2>4. QED BY <2>1, <2>2, <2>3 DEF TypeOK
<1>9. block' \in [Cell -> Block]
  <2>1. NoBlock \in Block
    BY DEF NoBlock, Block, NoPotion, PotionType
  <2>2. block' = [c \in Cell |-> IF c \in mud THEN NoBlock ELSE block[c]]
    BY DEF Explode
  <2> HIDE DEF mud
  <2>3. QED BY <2>1, <2>2 DEF TypeOK
<1>10. bomb_que' \in Seq(BombId)
  <2>1. Tail(bomb_que) \in Seq(BombId)
    BY DEF TypeOK, Explode
  <2>2. QueueHit(Tail(bomb_que), pos, 1, range) \in Seq(BombId)
    BY <2>1, QueueHitType
  <2>3. QueueHit(QueueHit(Tail(bomb_que), pos, 1, range), pos, 2, range) \in Seq(BombId)
    BY <2>2, QueueHitType
  <2>4. QueueHit(QueueHit(QueueHit(Tail(bomb_que), pos, 1, range), pos, 2, range),
                 pos, 3, range) \in Seq(BombId)
    BY <2>3, QueueHitType
  <2>5. QueueHit(QueueHit(QueueHit(QueueHit(Tail(bomb_que), pos, 1, range),
                 pos, 2, range), pos, 3, range), pos, 4, range) \in Seq(BombId)
    BY <2>4, QueueHitType
  <2>6. QED BY <2>5 DEF Explode
<1>11. bombed' \subseteq Cell
  <2>1. bombed' = bombed \cup struck
    BY DEF Explode
  <2> HIDE DEF struck
  <2>2. QED BY <1>2, <2>1 DEF TypeOK
<1>12. /\ UNCHANGED <<match, action_player_map, players, phase, meeting, to_move>>
       /\ phase = "explode"
  BY DEF Explode
<1>13. QED
  <2> HIDE DEF b
  <2> QED BY <1>5, <1>6, <1>7, <1>8, <1>9, <1>10, <1>11, <1>12 DEF TypeOK, match, meeting

(* A bomb that is gone only leaves the queue.                                *)
LEMMA TypeSkipExploded ==
    ASSUME TypeOK, SkipExploded
    PROVE  TypeOK'
<1>1. bomb_que' \in Seq(BombId)
  BY DEF TypeOK, SkipExploded
<1>2. QED
  BY <1>1 DEF TypeOK, SkipExploded, Joined, Bombs, match, board, meeting

(* The end of a round gives every record back and judges the match.          *)
LEMMA TypeFinishFlush ==
    ASSUME TypeOK, FinishFlush
    PROVE  TypeOK'
<1>1. \A p \in Joined : PlayerFlushTime(player_map[p]) \in PlayerRecord(Cell)
  BY PlayerFlushTimeType DEF TypeOK
<1>2. player_map' \in [Joined -> PlayerRecord(Cell)] /\ Joined' = Joined
  BY <1>1 DEF TypeOK, FinishFlush, Joined
<1>3. action_player_map' \in [Joined -> Nat]
  BY DEF TypeOK, FinishFlush
<1>4. players' \in [Cell -> SUBSET Joined]
  BY CleanDeadType DEF TypeOK, FinishFlush
<1>5. win_players_id' \subseteq Joined
  BY DEF TypeOK, FinishFlush, Winners, MarkLeaders, Alive
<1>6. game_status' \in {"GAME_OVER", "WAIT_ACTION"}
  BY DEF FinishFlush
<1>7. QED
  BY <1>2, <1>3, <1>4, <1>5, <1>6
     DEF TypeOK, FinishFlush, Bombs, GameStatus, Phase, meeting, flushing

(* Every step keeps the types.                                               *)
LEMMA TypeNext == TypeOK /\ [Next]_vars => TypeOK'
<1> SUFFICES ASSUME TypeOK, [Next]_vars
             PROVE  TypeOK'
  OBVIOUS
<1>1. CASE Call
  BY <1>1, TypeInitGame, TypeAddPlayer, TypePlaceBomb, TypePlaceRefused,
     TypeStaySilent, TypePushBomb, TypeMoveRefused, TypeMoveTo, TypeFlushTime,
     TypeReset DEF Call
<1>2. CASE Continue
  BY <1>2, TypeMeetOther, TypeFinishMove, TypeGlideBomb, TypeStopBomb,
     TypeBurnFuses, TypeExplode, TypeSkipExploded, TypeFinishFlush DEF Continue
<1>3. CASE UNCHANGED vars
  BY <1>3 DEF vars, match, board, meeting, flushing, TypeOK, Joined, Bombs
<1>4. QED BY <1>1, <1>2, <1>3 DEF Next

(* Every variable always has its type, and a waiting match always has a      *)
(* birth for the next player.                                                *)
THEOREM TypeCorrect == Spec => []TypeOK
<1>1. Init => TypeOK
  BY TypeInit
<1>2. TypeOK /\ [Next]_vars => TypeOK'
  BY TypeNext
<1>3. QED BY <1>1, <1>2, PTL DEF Spec

=============================================================================
