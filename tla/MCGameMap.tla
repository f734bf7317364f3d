----------------------------- MODULE MCGameMap ------------------------------
(* Configurations and custom maps for model checking GameMap.tla.            *)
EXTENDS GameMap, SequencesExt

ConfigOf(size, walls, mud, potions) ==
    [map_size |-> size, wall_random |-> walls, mud_random |-> mud,
     potion_probability |-> potions]

MCPotionType == {PotionByToken(t) : t \in PotionToken} \cup {"NO_POTION"}

(* The smallest map: every draw of the walls, with mud everywhere else, and  *)
(* every draw of the mud that is left between all the walls and its potions. *)
DrawnConfigs ==
    {ConfigOf(5, 50, 100, 0), ConfigOf(5, 100, 50, 50), ConfigOf(5, 100, 100, 100)}

(* Sizes that the code rounds, keeps and bounds, with all walls or none.     *)
SizeConfigs ==
    {ConfigOf(size, walls, 100, 0) : size \in {0, 8, 13, 22}, walls \in {0, 100}}

MCConfigs == DrawnConfigs \cup SizeConfigs

Empty == <<"_", "_", "_", "_", "_">>
Tail4 == <<Empty, Empty, Empty>>

(* First rows and last rows of custom maps: whole, too short, with an        *)
(* unknown token, with births, potions, blocks and nothing.                  *)
FirstRows == {<<"0", "6", "1", "9", "a">>, <<"9", "9", "_", "0", "0">>,
              <<"6", "x", "_", "0", "1">>, <<"6", "9", "c", "0">>}
LastRows == {<<"2", "6", "3", "9", "g">>, <<"9", "_">>, Empty}

MCCustomMaps ==
    {<<f>> \o Tail4 \o <<l>> : f \in FirstRows, l \in LastRows}
        \cup {<<f>> \o Tail4 : f \in FirstRows} \cup {<< >>}

=============================================================================
