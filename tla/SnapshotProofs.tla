---------------------------- MODULE SnapshotProofs --------------------------
(* The replay viewer, for every log: its types, the round it prints, and the *)
(* screens it comes back to.                                                 *)
EXTENDS Snapshot, FiniteSetTheorems, TLAPS

(* What undoes an event is an event.                                         *)
LEMMA ReversedIsEvent ==
    ASSUME NEW e \in Event
    PROVE  Reversed(e) \in Event
<1>1. CASE e \in PlayerEvent
  BY <1>1 DEF Event, PlayerEvent, Reversed, Opposite
<1>2. CASE e \in PotionEvent
  BY <1>2 DEF Event, PotionEvent, Reversed, Opposite
<1>3. CASE e \in ObjectEvent
  BY <1>3 DEF Event, ObjectEvent, Reversed, Opposite
<1> QED
  BY <1>1, <1>2, <1>3 DEF Event

(* An entry that can be replayed is an event, the map is not.                *)
LEMMA EventOrMap ==
    ASSUME NEW e \in Entry
    PROVE  IsEvent(e) <=> e \in Event
<1>1. ASSUME e \in MapEntry PROVE ~IsEvent(e)
  BY <1>1 DEF MapEntry, IsEvent
<1>2. ASSUME e \in Event PROVE IsEvent(e)
  BY <1>2 DEF Event, PlayerEvent, PotionEvent, ObjectEvent, IsEvent
<1> QED
  BY <1>1, <1>2 DEF Entry

(* An event changes a cell of the map into a cell of the map.                *)
LEMMA ChangeIsArea ==
    ASSUME NEW e \in Event, NEW a \in Area
    PROVE  Change(e, a) \in Area
<1>1. CASE e \in PlayerEvent
  BY <1>1 DEF PlayerEvent, Change, Area
<1>2. CASE e \in PotionEvent
  BY <1>2, ReplayAssumption DEF PotionEvent, Change, Area
<1>3. CASE e \in ObjectEvent
  BY <1>3 DEF ObjectEvent, Change, Area
<1> QED
  BY <1>1, <1>2, <1>3 DEF Event

LEMMA EventInCell ==
    ASSUME NEW e \in Event
    PROVE  e.pos \in Cell
BY DEF Event, PlayerEvent, PotionEvent, ObjectEvent

(* A screen stays a screen.                                                  *)
LEMMA AppliedIsScreen ==
    ASSUME NEW e \in Event, NEW screen \in Screen
    PROVE  Applied(e, screen) \in Screen
BY ChangeIsArea, EventInCell DEF Applied, Screen

(* The end of a round changes nothing on the screen.                         *)
LEMMA FlushShowsNothing ==
    ASSUME NEW e \in Event, IsFlush(e), NEW screen \in Screen
    PROVE  Applied(e, screen) = screen
<1>1. Change(e, screen[e.pos]) = screen[e.pos]
  BY DEF IsFlush, Change
<1> QED
  BY <1>1 DEF Applied, Screen

(* What agrees with a cell is undone by its opposite.                        *)
LEMMA ChangeUndone ==
    ASSUME NEW e \in Event, NEW screen \in Screen, Consistent(e, screen)
    PROVE  Change(Reversed(e), Change(e, screen[e.pos])) = screen[e.pos]
<1> DEFINE a == screen[e.pos]
<1>0. a \in Area
  BY EventInCell DEF Screen
<1>1. CASE e \in PlayerEvent
  <2>1. CASE e.type = "PLAYER_APPEAR"
    <3>1. Reversed(e).type = "PLAYER_DISAPPEAR" /\ Reversed(e).player = e.player
      BY <1>1, <2>1 DEF PlayerEvent, Reversed, Opposite
    <3>2. Change(e, a).players \ {e.player} = a.players
      BY <1>0, <1>1, <2>1 DEF PlayerEvent, Change, Consistent, Area
    <3> QED
      BY <1>0, <2>1, <3>1, <3>2 DEF Change, Area
  <2>2. CASE e.type = "PLAYER_DISAPPEAR"
    <3>1. Reversed(e).type = "PLAYER_APPEAR" /\ Reversed(e).player = e.player
      BY <1>1, <2>2 DEF PlayerEvent, Reversed, Opposite
    <3>2. Change(e, a).players \cup {e.player} = a.players
      BY <1>0, <1>1, <2>2 DEF PlayerEvent, Change, Consistent, Area
    <3> QED
      BY <1>0, <2>2, <3>1, <3>2 DEF Change, Area
  <2> QED
    BY <1>1, <2>1, <2>2 DEF PlayerEvent
<1>2. CASE e \in PotionEvent
  BY <1>0, <1>2 DEF PotionEvent, Change, Reversed, Opposite, Consistent, Area
<1>3. CASE e \in ObjectEvent
  BY <1>0, <1>3 DEF ObjectEvent, Change, Reversed, Opposite, Consistent, Area
<1> QED
  BY <1>1, <1>2, <1>3 DEF Event

(* What agrees with a screen is undone by its opposite.                      *)
LEMMA Undone ==
    ASSUME NEW e \in Event, NEW screen \in Screen, Consistent(e, screen)
    PROVE  Applied(Reversed(e), Applied(e, screen)) = screen
<1>1. Reversed(e).pos = e.pos
  BY DEF Event, PlayerEvent, PotionEvent, ObjectEvent, Reversed
<1>2. e.pos \in Cell
  BY EventInCell
<1>3. Change(Reversed(e), Change(e, screen[e.pos])) = screen[e.pos]
  BY ChangeUndone
<1> QED
  BY <1>1, <1>2, <1>3 DEF Applied, Screen

-----------------------------------------------------------------------------
(* Rounds.                                                                   *)

(* The rounds that have ended after n entries of a log.                      *)
Flushes(log, n) == {i \in 2 .. n : IsFlush(log[i])}

Rounds(log, n) == Cardinality(Flushes(log, n))

LEMMA RoundsAreNat ==
    ASSUME NEW log, NEW n \in Nat
    PROVE  IsFiniteSet(Flushes(log, n)) /\ Rounds(log, n) \in Nat
<1>1. IsFiniteSet(2 .. n)
  BY FS_Interval
<1>2. Flushes(log, n) \in SUBSET (2 .. n)
  BY DEF Flushes
<1>3. IsFiniteSet(Flushes(log, n))
  BY <1>1, <1>2, FS_Subset
<1> QED
  BY <1>3, FS_CardinalityType DEF Rounds

(* One entry more ends one round more if it is a FLUSH.                      *)
LEMMA RoundsGrow ==
    ASSUME NEW log, NEW n \in Nat \ {0}
    PROVE  Rounds(log, n + 1) =
             IF IsFlush(log[n + 1]) THEN Rounds(log, n) + 1 ELSE Rounds(log, n)
<1>1. CASE IsFlush(log[n + 1])
  <2>1. Flushes(log, n + 1) = Flushes(log, n) \cup {n + 1}
    BY <1>1 DEF Flushes
  <2>2. n + 1 \notin Flushes(log, n)
    BY DEF Flushes
  <2> QED
    BY <1>1, <2>1, <2>2, RoundsAreNat, FS_AddElement DEF Rounds
<1>2. CASE ~IsFlush(log[n + 1])
  <2>1. Flushes(log, n + 1) = Flushes(log, n)
    BY <1>2 DEF Flushes
  <2> QED
    BY <1>2, <2>1 DEF Rounds
<1> QED
  BY <1>1, <1>2

LEMMA RoundCountIsRounds == RoundCount <=> now_round = Rounds(log_arr, now_step)
BY DEF RoundCount, Rounds, Flushes

-----------------------------------------------------------------------------
(* The inductive invariant.  The types of the position rest on the count of  *)
(* the rounds, because undoing a FLUSH subtracts one, and on the map that is *)
(* the first entry of every log that was opened: it is no event, so no step  *)
(* goes back across it.                                                      *)

PositionOK ==
    /\ log_arr \in Seq(Entry)
    /\ status_machine_status \in StatusMachineStatus
    /\ now_step \in 0 .. Len(log_arr)
    /\ now_round \in Nat
    /\ seen \in Seq(Screen)
    /\ Len(seen) \in now_step .. Len(log_arr)
    /\ status_machine_status = "UNINIT" <=> now_step = 0
    /\ status_machine_status # "UNINIT" =>
         state_machine \in Screen /\ StartsWithMap(log_arr)
    /\ now_round = Rounds(log_arr, now_step)

CommandOK ==
    /\ old_round \in Nat
    /\ pressed \in Nat
    /\ call \in {"start", "prompt", "next_round", "last_round", "exit"}
    /\ call = "start" => now_step = 0 /\ seen = << >>

ViewerInv == PositionOK /\ CommandOK

LEMMA InvImplies == ViewerInv => SnapshotTypeOK /\ RoundCount
BY RoundCountIsRounds DEF ViewerInv, PositionOK, CommandOK, SnapshotTypeOK

LEMMA InvAtInit == Init => ViewerInv
<1> SUFFICES ASSUME Init PROVE ViewerInv
  OBVIOUS
<1>1. Flushes(log_arr, 0) = {}
  BY DEF Flushes
<1>2. Rounds(log_arr, 0) = 0
  BY <1>1, FS_EmptySet DEF Rounds
<1> QED
  BY <1>2 DEF Init, ViewerInv, PositionOK, CommandOK, StatusMachineStatus

LEMMA OpenKeeps ==
    ASSUME ViewerInv, NEW log \in Logs, OpenLog(log) \/ OpenFails(log)
    PROVE  ViewerInv'
<1>1. log \in Seq(Entry)
  BY SnapshotAssumption
<1>2. CASE OpenLog(log)
  <2>1. log # << >> /\ log[1] \in Entry /\ Len(log) \in Nat \ {0}
    BY <1>1, <1>2 DEF OpenLog, StartsWithMap
  <2>2. log[1] \in MapEntry
    BY <1>2, <2>1, EventOrMap DEF OpenLog, StartsWithMap, Entry
  <2>3. ScreenOf(log[1].map) \in Screen
    BY <2>2, ReplayAssumption DEF ScreenOf, AreaOf, Screen, Area, Label
  <2>4. Rounds(log, 1) = 0
    <3>1. Flushes(log, 1) = {}
      BY DEF Flushes
    <3> QED
      BY <3>1, FS_EmptySet DEF Rounds
  <2>5. now_round = 0
    <3>1. Flushes(log_arr, 0) = {}
      BY DEF Flushes
    <3> QED
      BY <1>2, <3>1, FS_EmptySet
      DEF ViewerInv, PositionOK, CommandOK, OpenLog, Rounds
  <2>6. seen' \in Seq(Screen) /\ Len(seen') = 1
    BY <1>2, <2>3 DEF OpenLog
  <2> QED
    BY <1>1, <1>2, <2>1, <2>3, <2>4, <2>5, <2>6
    DEF ViewerInv, PositionOK, CommandOK, OpenLog, StatusMachineStatus, command
<1>3. CASE OpenFails(log)
  <2>1. Flushes(log, 0) = {} /\ Flushes(log_arr, 0) = {}
    BY DEF Flushes
  <2>2. Len(log) \in Nat
    BY <1>1
  <2>3. Rounds(log, 0) = Rounds(log_arr, 0)
    BY <2>1 DEF Rounds
  <2>4. now_step = 0 /\ seen = << >> /\ status_machine_status = "UNINIT"
    BY <1>3 DEF ViewerInv, PositionOK, CommandOK, OpenFails
  <2>5. now_step' = 0 /\ seen' = << >> /\ status_machine_status' = "UNINIT"
        /\ now_round' = now_round /\ log_arr' = log /\ call' = "exit"
        /\ UNCHANGED command
    BY <1>3, <2>4 DEF OpenFails, position
  <2> QED
    BY <1>1, <2>2, <2>3, <2>4, <2>5
    DEF ViewerInv, PositionOK, CommandOK, command
<1> QED
  BY <1>2, <1>3

(* A step forwards keeps the position.                                       *)
LEMMA AdvanceKeeps ==
    ASSUME PositionOK, status_machine_status = "NORMAL", Ahead,
           log_arr' = log_arr, Advance
    PROVE  PositionOK' /\ now_step' # 0
<1> DEFINE e == log_arr[now_step + 1]
<1>1. now_step \in Nat \ {0} /\ Len(log_arr) \in Nat /\ now_step + 1 \in 1 .. Len(log_arr)
  BY DEF PositionOK, Ahead
<1>2. e \in Entry
  BY <1>1 DEF PositionOK
<1>3. CASE EntryFails(e)
  BY <1>1, <1>3 DEF PositionOK, EntryFails, position, StatusMachineStatus
<1>4. CASE ~EntryFails(e)
  <2>1. IsEvent(e) /\ state_machine' = Applied(e, state_machine)
        /\ now_round' = (IF IsFlush(e) THEN now_round + 1 ELSE now_round)
        /\ now_step' = now_step + 1
        /\ status_machine_status' \in {"END", status_machine_status}
        /\ seen' = IF now_step < Len(seen) THEN seen ELSE Append(seen, state_machine')
    BY <1>4 DEF Advance
  <2>2. e \in Event
    BY <1>2, <2>1, EventOrMap
  <2>3. state_machine' \in Screen
    BY <2>1, <2>2, AppliedIsScreen DEF PositionOK
  <2>4. now_round' = Rounds(log_arr, now_step')
    BY <1>1, <2>1, RoundsGrow DEF PositionOK
  <2>5. now_round' \in Nat
    BY <2>1 DEF PositionOK
  <2>6. seen' \in Seq(Screen) /\ Len(seen') \in now_step + 1 .. Len(log_arr)
    <3>1. CASE now_step < Len(seen)
      <4>1. seen' = seen
        BY <2>1, <3>1
      <4> QED
        BY <1>1, <3>1, <4>1 DEF PositionOK
    <3>2. CASE ~(now_step < Len(seen))
      <4>1. seen' = Append(seen, state_machine') /\ Len(seen) = now_step
        BY <1>1, <2>1, <3>2 DEF PositionOK
      <4>2. seen' \in Seq(Screen) /\ Len(seen') = Len(seen) + 1
        BY <2>3, <4>1 DEF PositionOK
      <4> QED
        BY <1>1, <4>1, <4>2
    <3> QED
      BY <3>1, <3>2
  <2> QED
    BY <1>1, <2>1, <2>3, <2>4, <2>5, <2>6 DEF PositionOK, StatusMachineStatus
<1> QED
  BY <1>3, <1>4

(* A step backwards keeps the position; it is not made at the first step.    *)
LEMMA RetreatKeeps ==
    ASSUME PositionOK, status_machine_status = "NORMAL", log_arr' = log_arr, Retreat
    PROVE  PositionOK' /\ now_step' # 0
<1> DEFINE e == log_arr[now_step]
<1>1. now_step \in 1 .. Len(log_arr) /\ Len(log_arr) \in Nat
  BY DEF PositionOK
<1>2. e \in Entry
  BY <1>1 DEF PositionOK
<1>3. CASE EntryFails(e)
  BY <1>1, <1>3 DEF PositionOK, EntryFails, position, StatusMachineStatus
<1>4. CASE ~EntryFails(e)
  <2>1. IsEvent(e) /\ state_machine' = Applied(Reversed(e), state_machine)
        /\ now_round' = (IF IsFlush(e) THEN now_round - 1 ELSE now_round)
        /\ now_step' = now_step - 1
        /\ UNCHANGED <<status_machine_status, seen>>
    BY <1>4 DEF Retreat, StepBehind
  <2>2. now_step # 1
    BY <2>1 DEF PositionOK, StartsWithMap
  <2>3. now_step - 1 \in Nat \ {0} /\ now_step - 1 + 1 = now_step
    BY <1>1, <2>2
  <2>4. Reversed(e) \in Event
    BY <1>2, <2>1, EventOrMap, ReversedIsEvent
  <2>5. state_machine' \in Screen
    BY <2>1, <2>4, AppliedIsScreen DEF PositionOK
  <2>6. Rounds(log_arr, now_step) =
          IF IsFlush(e) THEN Rounds(log_arr, now_step - 1) + 1
          ELSE Rounds(log_arr, now_step - 1)
    BY <2>3, RoundsGrow
  <2>7. Rounds(log_arr, now_step - 1) \in Nat
    BY <2>3, RoundsAreNat
  <2>8. now_round' = Rounds(log_arr, now_step') /\ now_round' \in Nat
    BY <2>1, <2>6, <2>7 DEF PositionOK
  <2> QED
    BY <1>1, <2>1, <2>3, <2>5, <2>8 DEF PositionOK
<1> QED
  BY <1>3, <1>4

(* LastRound's own step across a FLUSH keeps it too.                         *)
LEMMA SkipKeeps ==
    ASSUME PositionOK, status_machine_status = "NORMAL",
           log_arr' = log_arr, seen' = seen, state_machine' = state_machine,
           status_machine_status' = status_machine_status,
           now_step' = SkipFlush[1], now_round' = SkipFlush[2]
    PROVE  PositionOK' /\ now_step' # 0
<1>1. now_step \in 1 .. Len(log_arr) /\ Len(log_arr) \in Nat
  BY DEF PositionOK
<1>2. CASE now_round > 0 /\ IsFlush(log_arr[now_step])
  <2>1. now_step' = now_step - 1 /\ now_round' = now_round - 1
    BY <1>2 DEF SkipFlush
  <2>2. now_step # 1
    BY <1>2 DEF PositionOK, StartsWithMap, IsFlush
  <2>3. now_step - 1 \in Nat \ {0} /\ now_step - 1 + 1 = now_step
    BY <1>1, <2>2
  <2>4. Rounds(log_arr, now_step) = Rounds(log_arr, now_step - 1) + 1
    BY <1>2, <2>3, RoundsGrow
  <2>5. Rounds(log_arr, now_step - 1) \in Nat
    BY <2>3, RoundsAreNat
  <2>6. now_round' = Rounds(log_arr, now_step') /\ now_round' \in Nat
    BY <2>1, <2>4, <2>5 DEF PositionOK
  <2> QED
    BY <1>1, <2>1, <2>3, <2>6 DEF PositionOK
<1>3. CASE ~(now_round > 0 /\ IsFlush(log_arr[now_step]))
  BY <1>1, <1>3 DEF PositionOK, SkipFlush, position
<1> QED
  BY <1>2, <1>3

LEMMA InvStep ==
    ASSUME ViewerInv, [Next]_vars
    PROVE  ViewerInv'
<1>1. ASSUME NEW log \in Logs, OpenLog(log) \/ OpenFails(log) PROVE ViewerInv'
  BY <1>1, OpenKeeps
<1>2. CASE NextStep
  <2>1. PositionOK' /\ now_step' # 0
    BY <1>2, AdvanceKeeps DEF ViewerInv, NextStep, AtPrompt
  <2> QED
    BY <1>2, <2>1 DEF ViewerInv, CommandOK, NextStep, AtPrompt, command
<1>3. CASE LastStep
  <2>1. PositionOK' /\ now_step' # 0
    BY <1>3, RetreatKeeps DEF ViewerInv, LastStep, AtPrompt
  <2> QED
    BY <1>3, <2>1 DEF ViewerInv, CommandOK, LastStep, AtPrompt, command
<1>4. CASE PressNextRound
  BY <1>4 DEF ViewerInv, PositionOK, CommandOK, PressNextRound, position
<1>5. CASE PressLastRound
  <2>1. PositionOK' /\ now_step' # 0
    BY <1>5, SkipKeeps DEF ViewerInv, PressLastRound, AtPrompt
  <2>2. old_round' = now_round' /\ pressed' = now_round /\ call' = "last_round"
    BY <1>5 DEF PressLastRound
  <2> QED
    BY <2>1, <2>2 DEF ViewerInv, PositionOK, CommandOK
<1>6. CASE NextRoundTurn
  <2>1. PositionOK' /\ now_step' # 0
    BY <1>6, AdvanceKeeps DEF ViewerInv, NextRoundTurn, MoreToWalk
  <2> QED
    BY <1>6, <2>1 DEF ViewerInv, CommandOK, NextRoundTurn, command
<1>7. CASE LastRoundTurn
  <2>1. PositionOK' /\ now_step' # 0
    BY <1>7, RetreatKeeps DEF ViewerInv, LastRoundTurn, MoreToWalk
  <2> QED
    BY <1>7, <2>1 DEF ViewerInv, CommandOK, LastRoundTurn, command
<1>8. CASE RoundWalked \/ Exit
  BY <1>8 DEF ViewerInv, PositionOK, CommandOK, RoundWalked, Exit, position, command
<1>9. CASE UNCHANGED vars
  BY <1>9 DEF ViewerInv, PositionOK, CommandOK, vars, position, command
<1> QED
  BY <1>1, <1>2, <1>3, <1>4, <1>5, <1>6, <1>7, <1>8, <1>9 DEF Next, Walk

LEMMA InvAlways == Spec => []ViewerInv
<1>1. ViewerInv /\ [Next]_vars => ViewerInv'
  BY InvStep
<1> QED
  BY <1>1, InvAtInit, PTL DEF Spec

(* Snapshot: whatever log it is started on and whatever keys are pressed,    *)
(* every variable keeps its type and the step never leaves the log.          *)
THEOREM SnapshotTypeCorrect == Spec => []SnapshotTypeOK
<1>1. ViewerInv => SnapshotTypeOK
  BY InvImplies
<1> QED
  BY <1>1, InvAlways, PTL

(* Snapshot::NextStep, LastStep, NextRound and LastRound agree about the     *)
(* round: it is always the number of rounds the screen has seen end.         *)
THEOREM RoundCountCorrect == Spec => []RoundCount
<1>1. ViewerInv => RoundCount
  BY InvImplies
<1> QED
  BY <1>1, InvAlways, PTL

-----------------------------------------------------------------------------
(* The screens.  While every entry agrees with the screen it was first       *)
(* applied to, the history holds the screens of one replay from the          *)
(* beginning, and the viewer shows the one of its step.                      *)

Agreed == \A i \in 1 .. Len(seen) - 1 : Consistent(log_arr[i + 1], seen[i])

Replayed ==
    \A i \in 1 .. Len(seen) - 1 : seen[i + 1] = Applied(log_arr[i + 1], seen[i])

HistoryInv ==
    Agreed => Replayed /\ (now_step > 0 => state_machine = seen[now_step])

LEMMA HistoryAdvance ==
    ASSUME PositionOK, HistoryInv, status_machine_status = "NORMAL", Ahead,
           log_arr' = log_arr, Advance
    PROVE  HistoryInv'
<1> DEFINE e == log_arr[now_step + 1]
<1>1. now_step \in Nat \ {0} /\ Len(seen) \in Nat /\ now_step <= Len(seen)
      /\ seen \in Seq(Screen)
  BY DEF PositionOK
<1>2. CASE EntryFails(e)
  BY <1>2 DEF HistoryInv, Agreed, Replayed, EntryFails, position
<1>3. CASE ~EntryFails(e)
  <2>1. state_machine' = Applied(e, state_machine)
        /\ now_step' = now_step + 1
        /\ seen' = IF now_step < Len(seen) THEN seen ELSE Append(seen, state_machine')
    BY <1>3 DEF Advance
  <2>2. CASE now_step < Len(seen)
    <3>1. seen' = seen
      BY <2>1, <2>2
    <3>2. Agreed' => Agreed
      BY <3>1 DEF Agreed
    <3>3. Agreed => seen[now_step + 1] = Applied(e, state_machine)
      BY <1>1, <2>2 DEF HistoryInv, Replayed
    <3> QED
      BY <2>1, <3>1, <3>2, <3>3 DEF HistoryInv, Replayed
  <2>3. CASE now_step = Len(seen)
    <3>1. seen' = Append(seen, state_machine') /\ Len(seen') = Len(seen) + 1
      BY <1>1, <2>1, <2>3
    <3>2. /\ \A i \in 1 .. Len(seen) : seen'[i] = seen[i]
          /\ seen'[now_step + 1] = state_machine'
      BY <1>1, <2>3, <3>1
    <3>3. Agreed' => Agreed
      BY <1>1, <3>1, <3>2 DEF Agreed
    <3>4. Agreed => Replayed /\ state_machine = seen[now_step]
      BY <1>1 DEF HistoryInv
    <3>5. Agreed => Replayed'
      BY <1>1, <2>1, <2>3, <3>1, <3>2, <3>4 DEF Replayed
    <3> QED
      BY <2>1, <3>2, <3>3, <3>5 DEF HistoryInv
  <2> QED
    BY <1>1, <2>2, <2>3
<1> QED
  BY <1>2, <1>3

LEMMA HistoryRetreat ==
    ASSUME PositionOK, HistoryInv, status_machine_status = "NORMAL",
           log_arr' = log_arr, Retreat, now_step' # 0
    PROVE  HistoryInv'
<1> DEFINE e == log_arr[now_step]
<1>1. now_step \in 1 .. Len(log_arr) /\ Len(seen) \in Nat /\ now_step <= Len(seen)
      /\ seen \in Seq(Screen) /\ Len(log_arr) \in Nat
  BY DEF PositionOK
<1>2. CASE EntryFails(e)
  BY <1>2 DEF HistoryInv, Agreed, Replayed, EntryFails, position
<1>3. CASE ~EntryFails(e)
  <2>1. IsEvent(e) /\ state_machine' = Applied(Reversed(e), state_machine)
        /\ now_step' = now_step - 1 /\ seen' = seen
    BY <1>3 DEF Retreat, StepBehind
  <2>2. (Agreed' <=> Agreed) /\ (Replayed' <=> Replayed)
    BY <2>1 DEF Agreed, Replayed
  <2>3. now_step - 1 \in 1 .. Len(seen) - 1 /\ now_step - 1 + 1 = now_step
    BY <1>1, <2>1
  <2>4. e \in Event
    BY <1>1, <2>1, EventOrMap DEF PositionOK
  <2>5. ASSUME Agreed PROVE state_machine' = seen'[now_step']
    <3>1. Consistent(e, seen[now_step - 1])
      BY <2>3, <2>5 DEF Agreed
    <3>2. state_machine = Applied(e, seen[now_step - 1])
      BY <1>1, <2>3, <2>5 DEF HistoryInv, Replayed
    <3>3. seen[now_step - 1] \in Screen
      BY <1>1, <2>3
    <3>4. Applied(Reversed(e), Applied(e, seen[now_step - 1])) = seen[now_step - 1]
      BY <2>4, <3>1, <3>3, Undone
    <3> QED
      BY <2>1, <3>2, <3>4
  <2> QED
    BY <2>2, <2>5 DEF HistoryInv
<1> QED
  BY <1>2, <1>3

LEMMA HistorySkip ==
    ASSUME PositionOK, HistoryInv, status_machine_status = "NORMAL",
           log_arr' = log_arr, seen' = seen, state_machine' = state_machine,
           now_step' = SkipFlush[1], now_step' # 0
    PROVE  HistoryInv'
<1>1. now_step \in 1 .. Len(log_arr) /\ Len(seen) \in Nat /\ now_step <= Len(seen)
      /\ seen \in Seq(Screen) /\ Len(log_arr) \in Nat
  BY DEF PositionOK
<1>2. (Agreed' <=> Agreed) /\ (Replayed' <=> Replayed)
  BY DEF Agreed, Replayed
<1>3. CASE now_round > 0 /\ IsFlush(log_arr[now_step])
  <2>1. now_step' = now_step - 1
    BY <1>3 DEF SkipFlush
  <2>2. now_step - 1 \in 1 .. Len(seen) - 1 /\ now_step - 1 + 1 = now_step
    BY <1>1, <2>1
  <2>3. log_arr[now_step] \in Event
    BY <1>1, <1>3, EventOrMap DEF PositionOK, IsFlush
  <2>4. ASSUME Agreed PROVE state_machine' = seen'[now_step']
    <3>1. state_machine = Applied(log_arr[now_step], seen[now_step - 1])
      BY <1>1, <2>2, <2>4 DEF HistoryInv, Replayed
    <3>2. seen[now_step - 1] \in Screen
      BY <1>1, <2>2
    <3> QED
      BY <1>3, <2>1, <2>3, <3>1, <3>2, FlushShowsNothing
  <2> QED
    BY <1>2, <2>4 DEF HistoryInv
<1>4. CASE ~(now_round > 0 /\ IsFlush(log_arr[now_step]))
  <2>1. now_step' = now_step
    BY <1>4 DEF SkipFlush, position
  <2> QED
    BY <1>2, <2>1 DEF HistoryInv
<1> QED
  BY <1>3, <1>4

LEMMA HistoryStep ==
    ASSUME ViewerInv, HistoryInv, [Next]_vars
    PROVE  HistoryInv'
<1>1. ASSUME NEW log \in Logs, OpenLog(log) PROVE HistoryInv'
  <2>1. seen' = <<state_machine'>> /\ now_step' = 1
    BY <1>1 DEF OpenLog
  <2>2. Len(seen') = 1 /\ seen'[1] = state_machine'
    BY <2>1
  <2> QED
    BY <2>1, <2>2 DEF HistoryInv, Replayed
<1>2. ASSUME NEW log \in Logs, OpenFails(log) PROVE HistoryInv'
  <2>1. now_step = 0 /\ seen = << >>
    BY <1>2 DEF OpenFails, ViewerInv, CommandOK
  <2>2. now_step' = 0 /\ seen' = << >> /\ Len(seen') = 0
    BY <1>2, <2>1 DEF OpenFails, position
  <2> QED
    BY <2>2 DEF HistoryInv, Replayed
<1>3. CASE NextStep
  BY <1>3, HistoryAdvance DEF ViewerInv, NextStep, AtPrompt
<1>4. CASE LastStep
  <2>1. now_step' # 0
    BY <1>4, RetreatKeeps DEF ViewerInv, LastStep, AtPrompt
  <2> QED
    BY <1>4, <2>1, HistoryRetreat DEF ViewerInv, LastStep, AtPrompt
<1>5. CASE PressLastRound
  <2>1. now_step' # 0
    BY <1>5, SkipKeeps DEF ViewerInv, PressLastRound, AtPrompt
  <2> QED
    BY <1>5, <2>1, HistorySkip DEF ViewerInv, PressLastRound, AtPrompt
<1>6. CASE NextRoundTurn
  BY <1>6, HistoryAdvance DEF ViewerInv, NextRoundTurn, MoreToWalk
<1>7. CASE LastRoundTurn
  <2>1. now_step' # 0
    BY <1>7, RetreatKeeps DEF ViewerInv, LastRoundTurn, MoreToWalk
  <2> QED
    BY <1>7, <2>1, HistoryRetreat DEF ViewerInv, LastRoundTurn, MoreToWalk
<1>8. CASE PressNextRound \/ RoundWalked \/ Exit \/ UNCHANGED vars
  BY <1>8 DEF HistoryInv, Agreed, Replayed, PressNextRound, RoundWalked, Exit,
              position, vars
<1> QED
  BY <1>1, <1>2, <1>3, <1>4, <1>5, <1>6, <1>7, <1>8 DEF Next, Walk

(* Snapshot::FlushStatusMachine with is_reverse: for every log whose entries *)
(* agree with the screens they were first applied to, stepping back and      *)
(* forth, by steps and by rounds, shows at each step what it showed before.  *)
THEOREM BoardRestoredCorrect == Spec => []BoardRestored
<1>1. Init => HistoryInv
  BY DEF Init, HistoryInv, Replayed
<1>2. ViewerInv /\ HistoryInv /\ [Next]_vars => HistoryInv'
  BY HistoryStep
<1>3. HistoryInv => BoardRestored
  BY DEF HistoryInv, BoardRestored, Agreed
<1> QED
  BY <1>1, <1>2, <1>3, InvAlways, PTL DEF Spec

-----------------------------------------------------------------------------
(* Where the commands stop.  A loop that is still running has not seen the   *)
(* round change, or has just stepped across a FLUSH; and NextRound has       *)
(* something ahead of it, or has seen the end of the log.                    *)

WalkInv ==
    Walking =>
        /\ status_machine_status # "UNINIT"
        /\ \/ now_round = old_round
           \/ IsFlush(log_arr[now_step])
           \/ IsFlush(log_arr[now_step + 1])
        /\ call = "next_round" /\ status_machine_status = "NORMAL" => Ahead

LEMMA WalkAdvance ==
    ASSUME PositionOK, NextRoundTurn
    PROVE  WalkInv'
<1> DEFINE e == log_arr[now_step + 1]
<1>1. now_step \in Nat /\ Len(log_arr) \in Nat /\ call = "next_round"
      /\ now_round = old_round /\ status_machine_status = "NORMAL" /\ Ahead
      /\ log_arr' = log_arr /\ call' = call /\ old_round' = old_round
  BY DEF PositionOK, NextRoundTurn, MoreToWalk, command
<1>2. CASE EntryFails(e)
  BY <1>1, <1>2 DEF WalkInv, EntryFails, position
<1>3. CASE ~EntryFails(e)
  <2>1. /\ now_round' = (IF IsFlush(e) THEN now_round + 1 ELSE now_round)
        /\ now_step' = now_step + 1
        /\ status_machine_status' =
             IF now_step + 1 >= Len(log_arr) THEN "END" ELSE status_machine_status
    BY <1>3 DEF NextRoundTurn, Advance
  <2> QED
    BY <1>1, <2>1 DEF WalkInv, Ahead
<1> QED
  BY <1>2, <1>3

LEMMA WalkRetreat ==
    ASSUME PositionOK, LastRoundTurn
    PROVE  WalkInv'
<1> DEFINE e == log_arr[now_step]
<1>1. now_step \in Nat \ {0} /\ call = "last_round"
      /\ now_round = old_round /\ status_machine_status = "NORMAL"
      /\ log_arr' = log_arr /\ call' = call /\ old_round' = old_round
  BY DEF PositionOK, LastRoundTurn, MoreToWalk, command
<1>2. CASE EntryFails(e)
  BY <1>1, <1>2 DEF WalkInv, EntryFails, position
<1>3. CASE ~EntryFails(e)
  <2>1. /\ now_round' = (IF IsFlush(e) THEN now_round - 1 ELSE now_round)
        /\ now_step' = now_step - 1
        /\ status_machine_status' = status_machine_status
    BY <1>3 DEF LastRoundTurn, Retreat, StepBehind
  <2>2. now_step' + 1 = now_step
    BY <1>1, <2>1
  <2> QED
    BY <1>1, <2>1, <2>2 DEF WalkInv
<1> QED
  BY <1>2, <1>3

LEMMA WalkStep ==
    ASSUME ViewerInv, WalkInv, [Next]_vars
    PROVE  WalkInv'
<1>1. ASSUME NEW log \in Logs, OpenLog(log) \/ OpenFails(log) PROVE WalkInv'
  BY <1>1 DEF WalkInv, Walking, OpenLog, OpenFails
<1>2. CASE NextStep \/ LastStep
  BY <1>2 DEF WalkInv, Walking, NextStep, LastStep, AtPrompt
<1>3. CASE PressNextRound
  BY <1>3 DEF WalkInv, PressNextRound, AtPrompt, Ahead, position
<1>4. CASE PressLastRound
  BY <1>4 DEF WalkInv, PressLastRound, AtPrompt
<1>5. CASE NextRoundTurn
  BY <1>5, WalkAdvance DEF ViewerInv
<1>6. CASE LastRoundTurn
  BY <1>6, WalkRetreat DEF ViewerInv
<1>7. CASE RoundWalked \/ Exit
  BY <1>7 DEF WalkInv, Walking, RoundWalked, Exit
<1>8. CASE UNCHANGED vars
  BY <1>8 DEF WalkInv, Walking, Ahead, vars, position, command
<1> QED
  BY <1>1, <1>2, <1>3, <1>4, <1>5, <1>6, <1>7, <1>8 DEF Next, Walk

LEMMA WalkAlways == Spec => []WalkInv
<1>1. Init => WalkInv
  BY DEF Init, WalkInv, Walking
<1>2. ViewerInv /\ WalkInv /\ [Next]_vars => WalkInv'
  BY WalkStep
<1> QED
  BY <1>1, <1>2, InvAlways, PTL DEF Spec

(* A step that ends a command ends it where it should stop.                  *)
LEMMA WalkEnds ==
    ASSUME ViewerInv, WalkInv, [Next]_vars, Walking, call' = "prompt"
    PROVE  \/ status_machine_status \in {"END", "ERROR"}
           \/ IsFlush(log_arr[now_step])
           \/ IsFlush(log_arr[now_step + 1])
<1>1. RoundWalked
  BY DEF Walking, Next, Walk, OpenLog, OpenFails, NextStep, LastStep, AtPrompt,
         PressNextRound, PressLastRound, NextRoundTurn, LastRoundTurn, Exit, vars
<1>2. now_step # 0 /\ status_machine_status \in {"NORMAL", "END", "ERROR"}
  BY DEF ViewerInv, PositionOK, WalkInv, StatusMachineStatus
<1> QED
  BY <1>1, <1>2 DEF RoundWalked, MoreToWalk, WalkInv

(* Snapshot::NextRound and LastRound stop next to the end of a round, at the *)
(* end of the log or with an error, however long the rounds are.             *)
THEOREM StopsAtFlushCorrect == Spec => StopsAtFlush
<1>1. ViewerInv /\ WalkInv /\ [Next]_vars =>
        [Walking /\ call' = "prompt" =>
           \/ status_machine_status \in {"END", "ERROR"}
           \/ IsFlush(log_arr[now_step])
           \/ IsFlush(log_arr[now_step + 1])]_vars
  BY WalkEnds
<1> QED
  BY <1>1, InvAlways, WalkAlways, PTL DEF Spec, StopsAtFlush

=============================================================================
