------------------------------- MODULE Player -------------------------------
(* One participant of a match, as a record, and the operations of class      *)
(* Player (player.h) and of the seven potions (potion/*.h) as functions from *)
(* a record to the next one.  The module has no variables: the game engine   *)
(* (Game.tla) keeps the records in player_map.                               *)
(*                                                                           *)
(* The name of a player is left out: no operation of the game reads it.      *)
EXTENDS Integers

CONSTANTS
    kPlayerDefaultHP,       \* hit points of a new player
    kPlayerDefaultMaxHP,    \* hit points above which a rebirth potion is void
    kPlayerDefaultSpeed,    \* actions per round of a new player
    kBombDefaultNum,        \* bombs a new player may have on the map
    kBombDefaultRange,      \* declared and printed, but used by no operation
    kShieldDefaultTime,     \* rounds a shield lasts
    kInvisibleDefaultTime,  \* rounds invincibility lasts
    kMarkKill,              \* marks for the one who kills
    kMarkDead,              \* marks lost by the one who dies
    kMarkPick,              \* marks for a potion
    kMarkBombMud            \* marks for a mud block

(* const.h clamps each of these to at least 1.                               *)
ASSUME PlayerAssumption ==
    /\ kPlayerDefaultHP \in Nat \ {0}
    /\ kPlayerDefaultMaxHP \in Nat \ {0}
    /\ kPlayerDefaultSpeed \in Nat \ {0}
    /\ kBombDefaultNum \in Nat \ {0}
    /\ kBombDefaultRange \in Nat \ {0}
    /\ kShieldDefaultTime \in Nat \ {0}
    /\ kInvisibleDefaultTime \in Nat \ {0}
    /\ kMarkKill \in Nat \ {0}
    /\ kMarkDead \in Nat \ {0}
    /\ kMarkPick \in Nat \ {0}
    /\ kMarkBombMud \in Nat \ {0}

PlayStatus == {"ALIVE", "DEAD"}

NoPotion == "NO_POTION"

PotionType ==
    {NoPotion, "BOMB_RANGE", "BOMB_NUM", "REBIRTH", "INVINCIBLE", "SHIELD",
     "SPEED", "GLOVES"}

(* Operators whose names end in _Mutant are faulty variants of the operator  *)
(* that follows; the specification does not use them.  They show that the    *)
(* properties notice the fault.                                              *)

(* The record of a player standing on one of the given positions.            *)
PlayerRecord(Position) ==
    [pos : Position, status : PlayStatus, HP : Int, shield_time : Nat,
     invincible_time : Nat, speed : Nat, mark : Int, bomb_range : Nat,
     bomb_max_num : Nat, bomb_now_num : Int, has_gloves : BOOLEAN]

(* The range of a new player's bombs is 1, whatever kBombDefaultRange is.    *)
NewPlayer(pos) ==
    [pos |-> pos, status |-> "ALIVE", HP |-> kPlayerDefaultHP,
     shield_time |-> 0, invincible_time |-> 0, speed |-> kPlayerDefaultSpeed,
     mark |-> 0, bomb_range |-> 1, bomb_max_num |-> kBombDefaultNum,
     bomb_now_num |-> 0, has_gloves |-> FALSE]

IsDead(p) == p.status = "DEAD"

IncrMark(p, n) == [p EXCEPT !.mark = @ + n]

DescMark(p, n) == [p EXCEPT !.mark = @ - n]

(* -------------------------------- Injuries ------------------------------- *)

(* Losing the last hit point is paid with kMarkDead; surviving a hit starts a *)
(* shield.                                                                    *)
DescHP(p) ==
    LET hurt == [p EXCEPT !.HP = @ - 1] IN
    IF hurt.HP <= 0
    THEN DescMark([hurt EXCEPT !.status = "DEAD"], kMarkDead)
    ELSE [hurt EXCEPT !.shield_time = kShieldDefaultTime]

(* The dead are hit like the living.                                         *)
Injured_Mutant(p) ==
    IF p.invincible_time > 0 THEN p
    ELSE IF p.shield_time > 0 THEN [p EXCEPT !.shield_time = 0]
    ELSE DescHP(p)

(* The player after Player::Injuries: the dead and the invincible ignore the *)
(* hit and a shield absorbs it.                                              *)
Injured(p) ==
    IF IsDead(p) \/ p.invincible_time > 0 THEN p
    ELSE IF p.shield_time > 0 THEN [p EXCEPT !.shield_time = 0]
    ELSE DescHP(p)

(* A hit on a dead player counts as another kill.                            *)
Killed_Mutant(p) == IsDead(Injured(p))

(* The hit is the one that kills.                                            *)
Killed(p) == ~IsDead(p) /\ IsDead(Injured(p))

(* The value Player::Injuries returns: what the one who hits has earned.     *)
InjuryMark(p) == IF Killed(p) THEN kMarkKill ELSE 0

(* ---------------------------- MeetOtherPlayer ---------------------------- *)

(* The two records after player p walks into player o: only an invincible one *)
(* injures, and only one who is not invincible.                               *)
Meet(p, o) ==
    IF o.invincible_time > 0 /\ p.invincible_time = 0
    THEN [self |-> Injured(p), other |-> IncrMark(o, InjuryMark(p))]
    ELSE IF p.invincible_time > 0 /\ o.invincible_time = 0
    THEN [self |-> IncrMark(p, InjuryMark(o)), other |-> Injured(o)]
    ELSE [self |-> p, other |-> o]

(* --------------------------------- Potions ------------------------------- *)

(* A rebirth potion never raises the dead, nor anybody above the maximum.    *)
IncrHP(p) ==
    IF ~IsDead(p) /\ p.HP + 1 <= kPlayerDefaultMaxHP
    THEN [p EXCEPT !.HP = @ + 1]
    ELSE p

(* What each potion does to the one who drinks it.                           *)
PotionEffect(p, potion) ==
    CASE potion = "BOMB_RANGE" -> [p EXCEPT !.bomb_range = @ + 1]
      [] potion = "BOMB_NUM"   -> [p EXCEPT !.bomb_max_num = @ + 1]
      [] potion = "REBIRTH"    -> IncrHP(p)
      [] potion = "INVINCIBLE" -> [p EXCEPT !.invincible_time = kInvisibleDefaultTime]
      [] potion = "SHIELD"     -> [p EXCEPT !.shield_time = kShieldDefaultTime]
      [] potion = "SPEED"      -> [p EXCEPT !.speed = @ + 1]
      [] potion = "GLOVES"     -> [p EXCEPT !.has_gloves = TRUE]
      [] OTHER                 -> p

(* Picking up what lies on the ground, if anything does.                     *)
PickUp(p, potion) ==
    IF potion = NoPotion THEN p
    ELSE IncrMark(PotionEffect(p, potion), kMarkPick)

(* ------------------------------- FlushTime ------------------------------- *)

(* The counter runs below zero.                                              *)
CountDown_BelowZero_Mutant(t) == t - 1

(* The counter stops at one.                                                 *)
CountDown_Stuck_Mutant(t) == IF t > 1 THEN t - 1 ELSE t

CountDown(t) == IF t > 0 THEN t - 1 ELSE t

(* One round passes for a player.                                            *)
PlayerFlushTime(p) ==
    [p EXCEPT !.shield_time = CountDown(@), !.invincible_time = CountDown(@)]

=============================================================================
