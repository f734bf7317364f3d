# A TLA+ model of the seedcup 2023 game

The repository is a bomb-laying game for two to four players: a game engine
(`src/src/server/game`), a TCP server that drives it on a timer
(`src/src/server/net`), a terminal client, and a viewer that replays the
snapshots the engine logs. This directory specifies the parts with behaviour
of their own, model-checks them with TLC and proves what matters most with
TLAPS. All paths below are relative to `src/src/server/`.

## 1. The system

| component | state | operations | talks to |
|---|---|---|---|
| game engine, `game/game.{h,cpp}`, `area.h`, `bomb.h` | lifecycle and round counter; the map of areas (players, bomb, block, potion, last blast); maps from id to player, bomb and block; actions spent per player | `Init`, `AddPlayer`, `AddAction`, `FlushTime`, `Reset` | called by server, terminal client and tests; writes events to the log |
| player and potions, `game/player.h`, `game/potion/*` | position, hit points, shield and invincibility time, speed, marks, bomb limit and counter, gloves | `Injuries`, `MeetOtherPlayer`, `PickUp`, `FlushTime`, `IncrHP`, ... | driven by the engine |
| blocks, `game/block/*` | kind, hidden potion | `IsBombAble`, `BombInjuries` | driven by the engine |
| map generation, `game/game.cpp:35-208`, `custom_map.h` | the births, which outlive matches; fills the map and the table of blocks | `InitMap`, `InitPlayerBirth`, `InitCustomMap` | called by `Init` |
| server, `net/server.{h,cpp}`, `net/api.{h,cpp}`, `main.cpp` | descriptor -> player, descriptor -> message to send, timer | accept, read, leave, timer tick, reset | cppnet (external), the engine |
| snapshot viewer, `game/snapshot.h`, `snapshot_main.cpp` | replayed map, step and round counters, list of entries, a status | `Init`, `NextStep`, `LastStep`, `NextRound`, `LastRound` | reads the log of the engine |
| terminal program and printing, `term_main.cpp`, `game/print.h` | the identifiers of the keyboard's players, keys read in this round | one key: an action, a round, or the end | the engine |
| configuration, logging, random numbers | constants | read at start | everybody |

The process has one thread. The server's event loop calls the engine from the
read handler (a player joins or acts) and from the timer handler (a round is
judged), so two calls never overlap.

### What is hard about it

* **The order of loops.** Players, bombs and the players of a cell live in
  unordered containers. The order in which a loop visits them is not fixed by
  the language, and it matters: it decides which of several meetings kills the
  mover, which of two pushed bombs gets a cell, which bomb explodes first and
  therefore who is credited with a kill.
* **Two registers of everything.** A bomb is in `bomb_map_` with a position and
  in the cell with its id; a player has a position and is in the cell's set.
  Every operation updates both halves by hand.
* **The dead linger.** A player who dies stays in his cell until the running
  call cleans up, and his bombs stay on the map and still earn him marks.
* **A queue that grows while it is emptied.** A blast queues the bombs it
  hits; a bomb may be queued several times, and may already be gone.
* **The end of a match.** One survivor, nobody, or the round limit; the rest
  of the process reads one status and one list of winners.
* **The server.** Descriptors are reused, spectators and players who left stay
  in one of the tables, messages may be sent twice, and a reset must leave
  nothing of the previous match behind.
* **What outlives a match.** The counters of identifiers are static and wrap,
  the counts of actions and the births are never cleared, and a custom map that
  is refused half way leaves its first half in the engine.
* **A log that is a program.** The engine writes an entry wherever it changes
  the map, not always when it does (deaths are written when the round is
  judged), and the viewer runs the entries forwards and, by turning each into
  its opposite, backwards.

### What makes each component correct

* *Engine.* The two registers agree at all times; a cell never holds two
  things that exclude each other; a chain reaction is complete when the round
  is judged; the bomb counter counts; every mark given out is accounted for; a
  player dies once, and the dead are passive; the match follows its lifecycle;
  every flush returns, every bomb explodes and every match ends.
* *Player.* Counters never run below zero, hit points never below zero.
* *Map generation.* Births are free and different, and have free cells next to
  them; nothing of an earlier or a refused map is left in a new one.
* *Server.* A descriptor speaks for one player of the running match and nobody
  else; every tick sends one fresh message to every player connected; after a
  reset a new match can begin.
* *Identifiers.* No identifier in use is given away; the players of a match
  stay different modulo four, which is how they are drawn and logged.
* *Snapshot.* The replayed map is the engine's map after every step; stepping
  back undoes stepping forward; the round shown is the number of rounds that
  have ended.
* *Terminal.* The keyboard addresses the players of the running match; matches
  follow one another.

The hazards, line by line, with the properties that watch them, are listed in
`PROJECT.json`.

## 2. The modules

| module | what it is |
|---|---|
| `Player` | the record of a player and class `Player`, the potions' effects included, as pure operators |
| `Game` | the engine: one action per public call or, for a call with a loop over an unordered container, one action per turn of the loop |
| `GameProperties` | the type invariant, the safety, action and liveness properties of `Game` |
| `Match` | the abstract specification of a match: joining, rounds, the verdict |
| `GameMatch` | the refinement mapping from `Game` to `Match` |
| `MCGame` | boards and symmetry for TLC |
| `Server` | the event loop, the tables of descriptors, the timer and the reset, driving `Match` in place of the engine; its properties |
| `MCServer` | marks for TLC |
| `Replay` | the entries of the log, the map entry, how an entry changes the screen and how it is undone: no state |
| `GameLog` | `Game` with the entries each action writes, and the screen a viewer would show |
| `MCGameLog` | `GameLog` on the boards of `MCGame` |
| `Snapshot` | the viewer: its keys, and its loops over a round turn by turn; its properties |
| `MCSnapshot` | logs for TLC |
| `GameMap` | the generator, the reader of custom maps, refusals and resets; its properties |
| `MCGameMap` | configurations and custom maps for TLC |
| `Identifiers` | the counters of players and bombs, and the tables keyed by them, over any number of matches; its properties |
| `Terminal` | `term_main.cpp`, driving `Match`; its properties |
| `MCTerminal` | marks for TLC |
| `GameProofs` | lemmas about the operators of `Player` and about sums; type correctness of `Game` |
| `GameBoardProofs` | proofs about bombs (registers, counters, pushes), players (deaths, placement, the match they play) and the board (exclusive cells, chain reactions, erosion), and the balance of marks |
| `GameLogProofs` | proofs about the log: it does not change the engine, the replay agrees with the map, the entries are news |
| `ServerProofs` | type correctness and safety of `Server` |
| `SnapshotProofs` | type correctness and safety of `Snapshot` |
| `MapProofs` | type correctness and safety of `GameMap` |
| `IdentifiersProofs` | type correctness and safety of `Identifiers` |
| `TerminalProofs` | type correctness and safety of `Terminal` |

### How `Game` corresponds to the code

Each variable has the name of the member it stands for, without the trailing
underscore. The members of `Area` are one function over cells each. Two
variables are the loops of a running call: `phase` says which loop is
executing, and `mover`, `to_meet`, `to_move` and `bomb_que` are its local
variables. While `phase # "idle"` no other call can start; this is the single
thread.

| code | actions |
|---|---|
| `Game::Init` | `InitGame` |
| `Game::AddPlayer` | `AddPlayer` |
| `Game::AddAction`, `DealPlaceAction` | `PlaceBomb`, `PlaceRefused` |
| `Game::AddAction`, `DealMoveAction` | `StaySilent`, `PushBomb`, `MoveRefused`, `MoveTo`, then `MeetOther` for each player met, then `FinishMove` |
| `Game::FlushTime` | `FlushTime` (the counter), `GlideBomb` or `StopBomb` for each bomb in motion, `BurnFuses`, `Explode` or `SkipExploded` for each entry of the queue, `FinishFlush` (`FlushPlayer`, `IsGameOver`) |
| `Game::Reset` | `Reset` |

Calls that are refused without any effect (a wrong status, a dead player, no
action left, a full match) are stuttering steps. The early returns of the move
and the place action are kept with what they skip: a refused action is counted,
and does not clean up the dead.

The number of an action is not checked (`api.cpp:66`). One beyond the
enumeration, `"OTHER"` here, takes the `default` of the switch: a move to the
player's own cell, in which he meets those who stand there once more; with
gloves on his own bomb he sets it in motion in no direction (`"BOMB_OTHER"`),
until the next flush stops it.

`Explode` is one step although it contains loops over the four arms and the
cells of an arm. Their order is fixed by the code, no player stands in two
cells and each cell is struck at most once by one bomb, so the order in which
the players of one cell are hit changes nothing: every one is injured once and
the owner's marks are a sum. The arms are appended to the queue in the code's
order.

### How `Server` corresponds to the code

`Server` declares the variables of `Match` and takes its actions with
`INSTANCE`: what the server sees of the engine is what `Match` promises, and
`Game` is shown to keep that promise. `conn` is the kernel's set of open
connections, `fd2PlayerId` and `fd2msg` are the two tables, `told` is what the
peer of a connection was last sent, and `handler` is the program counter of
`on_timer_tick`. `brought` and `lost` are history: the players each connection
has brought into the match, and the connections of which an error took one.

| code | actions |
|---|---|
| `main` | `Init`, then the first `Open` |
| `on_accept` | `Accept` |
| `on_read`, errors | `CloseOnRead` |
| `on_read`, `handle_request`, `handle_init` | `InitReq` |
| `on_read`, `handle_request`, `handle_action` | `ActionReq` |
| `on_leave`, for a leave or an error | `Leave`, `Error` |
| `on_timer_tick`, `handle_timer_intr` | `IdleTick` outside a match; else `Tick`, `Burn`, `Judge`, `Report` |
| `reset`, `game_reset` | `Reset`, `Open` |

cppnet and the kernel are external. A descriptor that is not in use may be
given to any later connection. `Socket::Close` is modelled as leaving the
number in the socket, because `on_read` erases the tables with `soc.fd()`
*after* `soc.Close()` and is right only then; the mutant of `OneVoice` shows
what happens otherwise. After an error the connection may go on, and its client
may ask to join again. Requests that
are refused, malformed, black-listed or come at another time change nothing and
are stutters; an array of actions is one step, because `Play` is transitive.

### How the log and the viewer correspond to the code

`Replay` holds what the engine and the viewer share: `Applied(e, screen)` is
`FlushStatusMachine` going forwards, `Reversed(e)` is what it makes of an entry
going backwards, `ObjectOf` and `AreaOf` are the writing and the reading of the
map entry, by which bombs and open potions are lost. `Consistent(e, screen)`
says that the entry is news; only such an entry is undone by its opposite.

`GameLog` extends `Game`: each action of `Game` that contains calls of
`SnapshotString` is conjoined with the entries it writes, in the code's order,
and all others with none. Not the log is kept but what replaying it shows
(`screen`) and the entries of the last step (`logged`). Every match is a log of
its own, because the viewer fails at the map entry of a second one. The entry of
a potion that is taken names the type the potion object gives itself
(`GetPotionType`), which for gloves is not the type of the cell.

| code | actions |
|---|---|
| `Snapshot::Init`, `main` | `OpenLog`, `OpenFails` |
| `'s'`, `NextStep` | `NextStep` (`Advance`) |
| `'w'`, `LastStep` | `LastStep` (`Retreat`) |
| `'d'` or `' '`, `NextRound` | `PressNextRound`, then `NextRoundTurn` for each turn of the loop, then `RoundWalked` |
| `'a'`, `LastRound` | `PressLastRound` (with `SkipFlush`), `LastRoundTurn`, `RoundWalked` |
| `'q'`, ctrl-c, refused commands | `Exit` |

The two modules meet in `Consistent`: `LogContract` shows which entries of the
engine are news, and `BoardRestored` what the viewer can undo if they are.

### How `GameMap` corresponds to the code

| code | actions |
|---|---|
| `Init`, `InitMap`, `InitPlayerBirth` | `Generate` |
| `Init`, `InitCustomMap` | `AcceptMap`, `RefuseMap`; what was read of the map, `ReadMap`, stays in both |
| `Reset` | `Reset` |

`map` is a function over the cells that have an `Area`, so that a map read half
way is a partial function. The draws are any draw their probability allows.
`LayoutPlayable` is the assumption `Game` makes of its `Layouts`, shown here of
what the code produces.

### How `Identifiers` and `Terminal` correspond to the code

`Identifiers` has the static counters of `Player` and `Bomb` and what is keyed
by them: `player_map_`, `bomb_map_`, `action_player_map_`. The map is left out,
so an action or a round may kill anybody and a blast may set off any bombs:
more than the engine does. Its `Reset` is the code's `Reset` and the next
`Init`.

`Terminal` takes the actions of `Match`, as `Server` does. `at` is the place in
`main`, `i` the keys read in this round. With two players the keys of a third
read beyond `player_ids`; whatever is found there, either the engine
dereferences a player it does not have (`at = "crash"`) or somebody acts.

### Abstractions

* A block's identifier is replaced by what it identifies, kind and hidden
  potion; blocks never move. `block_id_ != -1` is `HasBlock`.
* `last_bomb_round_` is kept as the set `bombed` of cells struck in the
  current round; the client gets the number, the engine never reads it.
* In `Game` identifiers of players and bombs come from `PlayerId` and `BombId`,
  any that is not in use; that the counters of the code yield such identifiers
  is the subject of `Identifiers`. For TLC a small `BombId` is also a bound on
  the bombs that are on the map together. In `GameLog` players join in the
  order of their identifiers.
* In `Game` the generator and the custom maps are the constant `Layouts`, a set
  of maps with the properties `Playable` names; `GameMap` is where they come
  from.
* An entry of the log is a record; its text, and the cutting of the log file
  into entries by a regular expression, are left out. The entries of several
  swept cells or dead players are written in one order of many; they are about
  different cells or players and do not disturb each other.
* Names, other log lines, the contents of the messages to the client beyond
  round and result, and the layout of the printing are left out.

## 3. What is checked

The runs of the engine use a map of side 5, the smallest the configuration
allows, most of it walls: a board of four or five free cells brings the players
together at once. Fuses are 3 rounds, the smallest the configuration allows.
The round limit is 3 to 5 instead of at least 100, which bounds the state
space. A bomb laid in the first round explodes in the fourth; 5 rounds leave
time to come back for what the mud has hidden and, once faster or armed with
gloves, to act again. In the room of `bombs` a corner lets a player lay a bomb
at the mud and survive, and each of the three potions is taken; `match` has
nothing under the mud and a round less, because it is checked under fairness
and without symmetry. Hit points, shield and invincibility are 1 to 3, so that
they are used up within a run: in `meet` two players stay invincible long
enough to be met together by the third, and in `chain` a player can be hit by
four bombs in one round, once for each of hit point, shield, hit point and
corpse. Only identifiers of bombs are symmetric where the engine writes a log,
and nothing is where liveness is checked.

| run | question | board and bounds |
|---|---|---|
| `bombs` | types, counters, registers and cells, what a blast may change, when players blow up mud, each other and themselves, take what was hidden, and push bombs; the log | two boards. A room: 2 players with one bomb each, 5 rounds, mud hiding gloves, speed or a rebirth. A corridor: the same with gloves for both in the open |
| `match` | the engine implements `Match`; every bomb explodes, every match ends | the room, nothing under the mud, 4 rounds, with fairness |
| `meet` | meetings of up to three players, two of whom may be invincible, in every order, with one bomb next to mud: marks, the dead, deaths in the log | 3 players, 1 bomb, 3 rounds |
| `chain` | chain reactions forget no bomb, and a player hit several times dies once | 2 players with 2 hit points and two bombs each, gloves for one, fuses of 3 or 4 rounds, range 1 or 2, 4 rounds |
| `server` | who speaks for whom and what is sent to whom, while descriptors are reused and Init may fail; after every match the next one opens | 3 descriptors, matches of 2 of 3 players, 2 rounds, any number of matches, with fairness |
| `snapshot` | the viewer on every log: screens, round numbers, where the commands stop | logs of up to 3 entries from an alphabet of 9, a second map included, and of up to 5 from an alphabet of 3; two cells; with fairness |
| `maps` | generated and custom maps in every order, with refusals and resets | sizes 5, 9, 13 and 21, every draw on side 5, 17 custom maps, 2 refusals between resets |
| `identifiers` | counters that wrap | 4 identifiers, 2 players of speed 2 with one bomb each, fuse 1, 2 rounds, any number of matches |
| `terminal` | any sequence of keys, over any number of matches | 2 of 3 players, 2 rounds, with fairness |
| `last_round` | *violation*: the round limit is exceeded by one | 2 players |
| `snapshot_ghost` | *violation*: stepping back shows a dead player | the log of one death |
| `gloves_taken` | *violation*: stepping back shows invincibility where gloves were | the room, gloves under the mud |

Properties:

* `BombRegistry`, `PlayerPlacement`, `CellExclusive`: the registers agree and
  cells are exclusive. `CellExclusive` is what makes two shortcuts of the code
  correct: the blast that stops at a bomb before looking at the potion, and
  the pickup at the end of a move that never asks whether the mover has just
  died (`DeadPickNothing`): a potion never lies where somebody stands.
* `BombAccounting`: the counter that limits a player's bombs equals the number
  of his bombs on the map, over deaths, chains and pushes.
* `ChainPending`: as long as bombs explode no mud is left in a struck cell, and
  a bomb that is hit waits in the queue, so that none is left when it is empty.
* `DiesOnce`, `MarksBalance`, `DeadFrozen`: nobody dies twice, the sum of all
  marks changes by exactly the deaths, kills, mud and potions of the step, and
  a dead player changes only through the bombs he left.
* `BoardErodes`, `PushedAway`: walls stay, potions appear only from mud, and a
  pushed bomb moves away from the one who pushed it.
* `ImplementsMatch`: every step of the engine is a step of `Match` or none, and
  every round that starts is judged.
* `BombsExplode`, `MatchEnds`: every match that is not reset ends, and a bomb
  whose fuse ends within its time explodes: a fuse of t needs t + 1 flushes,
  and one more flush happens than the limit says (see the findings).

* `OneVoice`: a descriptor in the table is open, speaks for a player of the
  running match, and no other does, which is what lets `handle_timer_intr`
  dereference without looking.
* `OwnPlayer`: an open connection speaks only for a player it has itself brought
  into the running match, never for one it found under its descriptor, and it
  brings no second one unless an error has taken the first from it (see below
  for what happens then).
* `MessagesFresh`, `ResultTold`: although `fd2msg_` is not cleared, no tick
  sends old news or to the wrong peer; before a reset closes a player's
  connection the player was sent the result.
* `NextMatchOpens`: matches follow one another, also when players have left and
  others are still connected, unless `Init` fails, which the code never retries.

* `ReplayAgrees`: after every step of the engine, in the middle of a round too,
  the log replayed from its beginning shows exactly the bombs, blocks, potions
  and players of the map, each in its cell; only the dead stay on the screen
  until the round is judged, a mover stands where he comes from until the move
  is over, and potions a custom map shows from the start are never seen.
* `LogContract`: every entry is news to the screen, but for the repeated
  disappearance of the dead, the taking of a potion that was never shown, and
  the taking of gloves, which vanish as a potion of invincibility.
* `BoardRestored`: if the entries read so far are news, the screen of a step is
  the same whenever the step is reached, forwards or backwards.
* `RoundCount`, `StopsAtFlush`, `CommandsReturn`: the round printed is the
  number of rounds that have ended, although `LastRound` moves step and round by
  hand and its loop counts as well; a command that walks a round returns, next
  to the end of a round.
* `NoResidue`, `LayoutPlayable`, `BirthsOpen`: nothing of an earlier map is
  left in a new one; births are free and different (for a custom map: if it
  names all four); next to the birth of a generated map all cells are free of
  blocks, whatever is drawn. `MapTypeOK` says in addition that a match never
  waits for players on a map that was read half way.
* `FreshIds`, `LabelsDistinct`: an identifier that is given out belongs to
  nobody, and players of a match differ modulo four, across the wrap as well.
  `LabelsDistinct` is the assumption of `GameLog`.
* `ChargedForOwn`: the counts of actions `Reset` keeps are charged to nobody
  else before the counter of players has wrapped, and then only until the first
  round ends.
* `KeyboardOfMatch`, `MatchesFollow`: while a match lasts the vector of the
  terminal holds exactly its players; a match that has started makes room for
  the next one, although the round key judges rounds in the middle of the loop
  that reads keys.

The bounds of the server run: three descriptors for matches of two leave one
for a spectator or a client who comes late, and all may be reused; with two
rounds a message can be stale by a round, and with any number of matches
(identifiers may return, which the counters of the code do only after ten
million) by a match.

The bounds of the others: three entries of nine kinds are enough for an entry
to be repeated, undone and met again from the other side, and five with two
kinds for rounds that are empty and not to follow each other in every order,
with the viewer on either side of each `FLUSH`. In `maps` two refusals let a
refused map follow another before a valid one. `identifiers` has as many
identifiers as two matches use and wraps every other match. A counter must have
more identifiers than bombs are laid while one bomb lives, which four are here,
where a player has one bomb at a time, and ten million are in the code; with
three players four would be too few, and `FreshIds` is then violated, as it
should be. The proof asks for more identifiers than actions in those rounds
(`EnoughIds`). `terminal` and `server` use two
marks: a leader, a tie and a loser.

Each property comes with a mutant, an operator whose name ends in `_Mutant`
and that is a plausible slip in the code; with it the run finds the property
violated. The mutants are not part of the specification.

### Findings

* `last_round`: `game.cpp:687` ends the match when the counter, already
  incremented, is *greater* than the limit. A configured `game_max_round`
  ("游戏最大回合数", `README.md:4`) of N gives N + 1 rounds.
* `gloves_taken`: `GlovesPotion::GetPotionType` returns `INVINCIBLE`
  (`gloves_potion.h:10`), so the entry that gloves are taken (`game.cpp:366`)
  names another potion. Going forwards this does no harm, because the kind of a
  potion that vanishes is not looked at; stepping back with 'w', announced as
  "to last step" (`snapshot_main.cpp:54`), shows a potion of invincibility where
  gloves were shown.
* `snapshot_ghost`: `snapshot_main.cpp:54` announces 'w' as "to last step". The
  engine writes the disappearance of a dead player again at the end of every
  round (`game.cpp:673`); stepping back over a repetition the viewer undoes it
  (`snapshot.h:296`) and shows the dead player on a step that was first shown
  without him.

Smaller disagreements, seen while modelling and visible in the definitions, have
no run of their own:

* On an error `on_leave` erases the player of the connection
  (`server.cpp:174-177`), which may stay open; the client's next `Init` request
  then finds no player and adds a second one to the same match. `api.cpp:49`
  says that a client can have only one ("由于本次游戏一个玩家只能有一名角色").
  The first stays in the match and is played by nobody (`Error`, `InitReq`; the
  exception in `OwnPlayer`).
* `InitCustomMap` means to refuse a map without births, "player birth area is
  empty" (`game.cpp:128`), but tests the size of a vector it has just resized
  to 4: such a map is accepted and the players are born where an earlier map
  put them, or everybody in one cell, 0,0 (`BirthBefore`).
* A new player's range is the literal 1 (`player.h:178`). `kBombDefaultRange` is
  printed with the other settings and read nowhere else, although `README.md:15`
  documents `bomb_range` as the range of bombs (`NewPlayer`).
* `LastRound` (`snapshot.h:188`) steps over the `FLUSH` behind the viewer,
  counts it, and goes on until the counter changes once more: right after a
  `NextRound` the key 'a' lowers the round that is printed by two (`SkipFlush`).
  The board is that of the last round.
* `LastStep` guards against leaving the log with `now_step_ - 1 < 0`
  (`snapshot.h:160`), which is never true: the first step is number 1, entry 0
  is the map, and stepping back from it ends in the status `ERROR` instead of
  the answer "now_step_ is out of range" (`Retreat`).
* `map_size` is clamped to 21 and `player_num` to at least 2 (`const.h:30-33`),
  where `README.md:8-9` documents 5 to 30 and 1 to 4.
* `server.h:128` calls `fd2msg_` "drained on each timer tick"; `on_timer_tick`
  only sends. It does no harm, as `MessagesFresh` shows.
* With two players the keys of the third read beyond `player_ids`
  (`term_main.cpp:87-106`): `StrangerKey`.

### Fairness

`RunningSpec` assumes weak fairness of the steps of a call that is running: the
engine's functions do not block, so a call that started takes its next step.
`TimedSpec` adds weak fairness of `FlushTime`: the server arms a periodic timer
whose handler calls it whenever the status is `WAIT_ACTION`. Nothing is assumed
of the players: they may never join or act. `FairSpec` of the server is the
same at its level: the handler of the timer runs to its end, where `FlushTime`
returns because `Game` implements `Judged` of `Match`, and the timer ticks;
clients may do anything at any time. `WalkSpec` of the viewer lets a command
that has started take its next turn; no key need ever be pressed. `FairSpec` of
the terminal assumes that the program goes on and that keys, any keys, are
pressed: the program has no timer, and without keys a round never ends.

## 4. What is proved

For every map, number of players, configuration and order of the loops, from
the assumptions `PlayerAssumption` and `GameAssumption` (the clamps of
`const.h`, finite sets of identifiers, playable layouts), for `Server` from
`ServerAssumption`, for `Snapshot` from `ReplayAssumption` and
`SnapshotAssumption`, and for `GameMap` from `MapAssumption` and
`TokenAssumption`, for `Identifiers` from `IdentifiersAssumption` and for
`Terminal` from `TerminalAssumption`:

* `TypeCorrect`: `Spec => []TypeOK`. `TypeOK` is inductive. Beyond types it
  states which loop variables are set in which phase, and that a match that
  waits for players is not full: without that a player could be given the
  birth of a fifth player.
* `BombsRegistered`: `Spec => []BombRegistry`. `BombRegistry` is inductive
  together with `TypeOK`. The one delicate step is `GlideBomb`, where the cell
  that is left and the cell that is entered are different because the latter
  held no bomb.

* `BombsAccounted`: `Spec => []BombAccounting`, inductive together with
  `TypeOK`: every operator of `Player` keeps the counter and lowers no limit
  (`SameBody`), so that most steps change nothing (`CountsKept`, `OwnersKept`),
  and placing and exploding add to and take from the set of a player's bombs and
  his counter one each.
* `BombsPushedAway`: `Spec => PushedAway`. Only `PushBomb` sets a silent bomb in
  motion (`OthersPushNone`), and it finds the bomb where the player pushes
  because of `BombRegistry`.

* `DiesAtMostOnce`: `Spec => []DiesOnce`. `GameProofs` shows of every
  operator of `Player` that it lets a player age: hit points, death and marks
  change together (`Aged`), so a step that only applies these operators keeps
  the invariant, however often and in whatever order they are applied.
* `PlayersPlaced`: `Spec => []PlayerPlacement`, by the same relation: a player
  who ages stays where he stands, and `CleanDead` removes exactly the dead.
* `TheDeadAreFrozen`: `Spec => DeadFrozen`. The steps in which somebody may have
  died in the running move are excluded by the phase; in the others the dead
  may not act, and the blast that hits a dead player leaves him alone
  (`AfterBlastFrozen`).
* `EngineIsAMatch`: `Spec => Lifecycle!Safety`, the safety part of
  `ImplementsMatch`. Each action is mapped to one of `Match` (`StepAddPlayer`,
  `StepFinishFlush`, ...), those of a running call to `Play`, because nobody who
  ages comes back to life, or to no step. The invariant it needs is `Bounded`:
  no round starts after the last one, and there are winners only at the end.
* `CellsExclusive`: `Spec => []CellExclusive`. Its induction needs `TypeOK`,
  `BombRegistry` and `PlayerPlacement` (together `Grounds`) and `Setup`: before
  a match has started there is no bomb, and a birth is free of blocks and
  potions. A pushed bomb respects it because `FreeForBomb` asks for all four
  contents of a cell; a blast respects it because a potion appears only in the
  cell of a block, where nobody stood.
* `DeadPickUpNothing`: `Spec => DeadPickNothing`, from `MeetsNobody`: who walks
  into a cell with a potion meets nobody there, hence does not die on the way.
* `HitsPending`: `Spec => []ChainPending`. An arm
  strikes at most one bomb (`OneHit`: the first obstacle ends it), therefore
  queueing one bomb per arm queues every bomb that is struck; nothing is struck
  before the first explosion of a round (`Unstruck`).
* `TheBoardErodes`: `Spec => BoardErodes`, from `TypeOK`: the mud a blast clears
  is not `NoBlock`, so a potion is uncovered only where the block changes.
* `MarksAlwaysBalance`: `Spec => MarksBalance`. That the sum over the players
  is additive (`SumAdds`) and counts what is the same for each element of a set
  (`SumCounts`) is proved of every finite set, from partial sums over its
  subsets, which exist and are unique (`PartialSumsExist`, `PartialSumsOnce`,
  by induction on the number of elements, `UpTo`). Of every operator of
  `Player` it is shown that it is settled: the marks change by what is earned,
  less the price of a death that came (`Settled`). In an explosion the set of
  those who died is the set of those the blast killed, and the owner, of whom
  `BombAccounting` says that he is in the match, is credited with one less if
  he is among them.
* `LoggedEngine`: `LogSpec => Spec`. All of the above therefore holds of
  `GameLog`; the runs under `LogSpec` see the behaviours of `Spec` in which the
  players join in the order of their identifiers.
* `ReplayCorrect`: `LogSpec => []ReplayAgrees`. The inductive invariant is
  `LogInv`: `ReplayAgrees` while a match is recorded (`Shown`), where the
  players stand before the map entry is written (`Waiting`), and which of the
  dead have been written off and where the mover comes from (`Written`). Its
  induction needs what is proved of the engine (`EngineInv`: types, registers,
  placement, exclusive cells). Each action is a lemma about the entries it
  writes. They rest on lemmas about the replay of any sequence of entries:
  `Replayed` is a function on the lengths of prefixes, so that one entry more
  is one step more (`ReplayedSteps`), the replay of a concatenation is the
  replay of the second part from the screen of the first (`ReplayedConcat`,
  from `EntriesConcat`), and a list with one entry for each element of a set,
  in an order nobody chose, ends in the same screen (`Enumerated`,
  `FlattenSteps`).
* `LogContractCorrect`: `LogSpec => LogContract`. An entry has to be news to
  the screen of its own place in the step, which the screens before and after
  the step do not show; `Fit` says it of a whole sequence and is carried
  through it one entry at a time (`FitStep`, `FitConcat`), for the three
  exceptions it names as well.

Both have the hypothesis `BirthsApart`, that no two births of a map share a
cell. Maps that are generated satisfy it, and custom maps that name enough
births, each once (`LayoutPlayable` of `GameMap`, proved as
`LayoutPlayableCorrect`); TLC evaluates it on the boards of the runs
of `GameLog`. Without it the map entry, which
shows one player of a cell, would hide the other, and the replay would differ
from the map.

* `ServerTypeCorrect`, `OneVoiceEach`, `MessagesAreFresh`, `ResultIsTold`,
  `PlayersAreOwn`: the server's type invariant, `OneVoice`, `MessagesFresh`,
  `ResultTold` and `OwnPlayer`, for any number of descriptors, players, rounds
  and matches. `OneVoice` is inductive with the types, because an identifier
  that joins is not that of a joined player; `MessagesFresh` needs that the
  table is empty when a match opens (`FreshOK`). `ResultTold` needs that a
  match that is over has been won (`MatchOK`): among the marks of at most four
  players there is a greatest (`LeaderExists`, one player at a time).
  `OwnPlayer` is inductive together with `OneVoice` and the types
  (`OwnPlayerStep`): the players a connection has brought are known from what
  it speaks for, until an error separates the two.

* `SnapshotTypeCorrect`, `RoundCountCorrect`, `BoardRestoredCorrect`,
  `StopsAtFlushCorrect`: the viewer, for every log and every sequence of keys.
  The invariant is in three layers: `ViewerInv` (the viewer is inside its log,
  and the rounds it has counted are the `FLUSH` entries behind it, by
  cardinality of a set that grows and shrinks by one), `HistoryInv` (the
  screens reached follow from each other by the entries, and the screen is one
  of them; the step back uses that `Reversed` undoes a consistent entry), and
  `WalkInv` (a loop over rounds that has not left its round has passed no
  `FLUSH`).
* `MapTypeCorrect`, `NoResidueCorrect`, `LayoutPlayableCorrect`,
  `BirthsOpenCorrect`, `BlocksCountedCorrect`: maps of every size and every set
  of custom maps. `MapInv` adds to the properties that an engine that was reset
  and has refused nothing has no cells and no blocks, without which the count
  of blocks would not start from zero. That the last of several births with a
  number exists (`LastBirthExists`) rests on the well-foundedness of the
  naturals; that corners and their neighbours are free (`CornerFree`,
  `NextToCornerFree`) on the size being odd and at least five (`SizeOdd`).

* `IdentifiersTypeCorrect`, `LabelsDistinctCorrect`, `ChargedForOwnCorrect`,
  `FreshIdsCorrect`: the counters, for every length they may have. The players
  of a match are the last ones `play_id` has given out, so fewer than four
  apart, and four divides the length of the counter (`LabelsBehind`): they stay
  distinct across the wrap. A count that `Reset` kept belongs to an identifier
  that the counter has passed. `FreshIdsCorrect` is the one theorem with a
  hypothesis of its own, `EnoughIds`: the counter is longer than all the
  actions `kPlayerDefaultNum` players have in the rounds a bomb lives, at the
  greatest speed potions may give a player, for which `kPlayerDefaultSpeed`
  stands in this module (ten million against some tens or hundreds for the
  documented values of `bomb_time` and `speed`, which the code clamps from
  below only; without it the property is false). Its invariant bounds the
  distance of every bomb's identifier from the counter by the actions taken
  since it was laid (`LaidSince`): its age in rounds times the actions of a
  round, and those of the running one.
* `TerminalTypeCorrect`, `KeyboardCorrect`: the terminal, for every number of
  players and every sequence of keys; the types of the abstract match are proved
  along with those of the program that drives it.

There is one lemma per action in each proof; the temporal theorem combines
them.

Only model-checked: liveness (`BombsExplode`, `MatchEnds`, `NextMatchOpens`,
`CommandsReturn`, `MatchesFollow`, and `Judged`, the liveness part of
`ImplementsMatch`), which is out of the prover's reach. `BlocksCounted` is
proved and has no run.

## 5. Plan

Done, in this order: `Player`, `Game`, `Match`, their properties, runs and
proofs; `Server` over `Match`; `Replay`, `Snapshot` and `GameLog`; `GameMap`;
`Identifiers`; `Terminal`; the proofs of all their invariants, of the action
properties and of the simulation of `Match`, so that every safety property a
run checks is a theorem. Left: to compose `GameLog` and `Snapshot`, so that from
`ReplayCorrect` and `BoardRestoredCorrect` follows what a viewer of the engine's
own log sees.

## 6. What is not modelled

* The JSON library, `util/json.hpp`, is vendored, third-party code: 24.6
  thousand of the 28.1 thousand lines of the sources, so that the definitions
  can stand for a small share of the lines only, whatever is modelled of the
  rest.
* cppnet is a submodule without sources here and an external part of `Server`.
  A read that blocks on half a message and a write to a peer that is gone
  depend on it and are not modelled.
* Of the printing only what is drawn in a cell is modelled; of the terminal not
  how it reads a key. The parsing of requests, the result file and the black
  list of the server, and the text and rotation of the log file are input and
  output.
* The configuration is read once; its clamps are the assumptions on constants,
  those of the map are operators of `GameMap`.
* The tests were read for the intended behaviour.
