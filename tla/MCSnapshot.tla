----------------------------- MODULE MCSnapshot -----------------------------
(* Logs for model checking the replay viewer, on a map of two cells.         *)
EXTENDS Snapshot, SequencesExt

MCCell == {<<0, 0>>, <<0, 1>>}

MCPotionType == {"NO_POTION", "SPEED"}

MapOf(left, right) == [map |-> (<<0, 0>> :> left) @@ (<<0, 1>> :> right)]

At(type, pos) == [type |-> type, pos |-> pos]
PlayerAt(type, player, pos) == [type |-> type, player |-> player, pos |-> pos]
PotionAt(type, potion, pos) == [type |-> type, potion |-> potion, pos |-> pos]

Left == <<0, 0>>
Right == <<0, 1>>
Flush == At("FLUSH", Left)

(* A player stands left, a block right: he walks, a bomb comes and goes, the *)
(* block gives way to a potion; and a second match begins.                   *)
Alphabet ==
    {PlayerAt("PLAYER_DISAPPEAR", 0, Left), PlayerAt("PLAYER_APPEAR", 0, Right),
     At("BOMB_APPEAR", Left), At("BOMB_DISAPPEAR", Left),
     At("BLOCK_DISAPPEAR", Right), PotionAt("POTION_APPEAR", "SPEED", Right),
     PotionAt("POTION_DISAPPEAR", "SPEED", Right), Flush, MapOf(0, 5)}

(* Every log of up to three entries, in every order, after the map, those    *)
(* that cannot be undone among them; and the shortest logs without a map.    *)
AllLogs ==
    {<<MapOf(0, 5)>> \o s : s \in BoundedSeq(Alphabet, 3)}
        \cup BoundedSeq(Alphabet, 1)

(* Up to five entries, so that rounds with and without events follow each    *)
(* other in every order.                                                     *)
RoundLogs ==
    {<<MapOf(0, 5)>> \o s : s \in
        BoundedSeq({PlayerAt("PLAYER_DISAPPEAR", 0, Left),
                    PlayerAt("PLAYER_APPEAR", 0, Right), Flush}, 5)}

MCLogs == AllLogs \cup RoundLogs

(* What the engine writes (GameLog.tla) when a player is killed by a bomb    *)
(* that lies in the other cell, and the match goes on without him: his       *)
(* disappearance is written again at the end of every round.                 *)
DeathLog ==
    {<<MapOf(0, 1), At("BOMB_APPEAR", Right), Flush, Flush, Flush,
       At("BOMB_DISAPPEAR", Right), PlayerAt("PLAYER_DISAPPEAR", 0, Left), Flush,
       PlayerAt("PLAYER_DISAPPEAR", 0, Left), Flush,
       PlayerAt("PLAYER_DISAPPEAR", 0, Left), Flush>>}

=============================================================================
