------------------------------ MODULE Snapshot ------------------------------
(* The replay viewer: class Snapshot (snapshot.h) and the loop that drives   *)
(* it from the keyboard (snapshot_main.cpp).  The viewer opens one log and   *)
(* walks through it, a step or a round at a time, forwards and backwards;    *)
(* backwards it undoes the entries one by one.  The two commands that walk a *)
(* whole round are loops over the single steps, and here each turn of such a *)
(* loop is a step of the model: call tells which command is running.         *)
(*                                                                           *)
(* log_arr[1] is log_arr_[0] of the code; the entry ahead of the viewer is   *)
(* log_arr[now_step + 1], the one behind it log_arr[now_step].               *)
EXTENDS Replay, FiniteSets

CONSTANTS
    Logs          \* the logs the viewer may be started on

ASSUME SnapshotAssumption == Logs \subseteq Seq(Entry)

VARIABLES
    log_arr,                \* the entries of the log, without the actions
    state_machine,          \* the screen
    status_machine_status,
    now_step,               \* entries that have been read
    now_round,              \* rounds shown
    call,                   \* what the program is doing
    old_round,              \* the local variable of the running round command
    pressed,                \* history: the round when that command was pressed
    seen                    \* history: the screen after each number of steps,
                            \* as it was when it was first reached

position == <<now_step, now_round>>
command == <<old_round, pressed>>
vars == <<log_arr, state_machine, status_machine_status, position, call,
          command, seen>>

StatusMachineStatus == {"UNINIT", "NORMAL", "END", "ERROR"}

Init ==
    /\ log_arr = << >>
    /\ state_machine = << >>
    /\ status_machine_status = "UNINIT"
    /\ now_step = 0
    /\ now_round = 0
    /\ call = "start"
    /\ old_round = 0
    /\ pressed = 0
    /\ seen = << >>

StartsWithMap(log) == log # << >> /\ ~IsEvent(log[1])

(* Snapshot::Init on a log that begins with a map.                           *)
OpenLog(log) ==
    /\ call = "start"
    /\ StartsWithMap(log)
    /\ log_arr' = log
    /\ state_machine' = ScreenOf(log[1].map)
    /\ status_machine_status' = "NORMAL"
    /\ now_step' = 1
    /\ call' = "prompt"
    /\ seen' = <<state_machine'>>
    /\ UNCHANGED <<now_round, command>>

(* Any other log, as one the daily log file cuts in two is: the viewer says  *)
(* so and exits.                                                             *)
OpenFails(log) ==
    /\ call = "start"
    /\ ~StartsWithMap(log)
    /\ log_arr' = log
    /\ call' = "exit"
    /\ UNCHANGED <<state_machine, status_machine_status, position, command, seen>>

-----------------------------------------------------------------------------
(* The single steps.                                                         *)

(* The step counter stands still when the entry is undone.                   *)
StepBehind_Mutant == now_step

StepBehind == now_step - 1

(* A second map in the log, of the next match, is no event.                  *)
EntryFails(e) ==
    /\ ~IsEvent(e)
    /\ status_machine_status' = "ERROR"
    /\ UNCHANGED <<state_machine, position, seen>>

(* NextStep: the entry ahead is replayed.                                    *)
Advance ==
    LET e == log_arr[now_step + 1] IN
    \/ EntryFails(e)
    \/ /\ IsEvent(e)
       /\ state_machine' = Applied(e, state_machine)
       /\ now_round' = IF IsFlush(e) THEN now_round + 1 ELSE now_round
       /\ now_step' = now_step + 1
       /\ status_machine_status' =
            IF now_step + 1 >= Len(log_arr) THEN "END" ELSE status_machine_status
       /\ seen' = IF now_step < Len(seen) THEN seen
                  ELSE Append(seen, state_machine')

(* LastStep: the entry behind is undone.  The code means to refuse this at   *)
(* the first step, but its guard is never true: what is behind the first     *)
(* step is the map.                                                          *)
Retreat ==
    LET e == log_arr[now_step] IN
    \/ EntryFails(e)
    \/ /\ IsEvent(e)
       /\ state_machine' = Applied(Reversed(e), state_machine)
       /\ now_round' = IF IsFlush(e) THEN now_round - 1 ELSE now_round
       /\ now_step' = StepBehind
       /\ UNCHANGED <<status_machine_status, seen>>

-----------------------------------------------------------------------------
(* The keys.  At the prompt the program waits for one as long as the status  *)
(* is normal; when a command fails it exits.                                 *)

AtPrompt == call = "prompt" /\ status_machine_status = "NORMAL"

Ahead == now_step < Len(log_arr)

NextStep ==
    /\ AtPrompt
    /\ Ahead
    /\ Advance
    /\ UNCHANGED <<log_arr, call, command>>

LastStep ==
    /\ AtPrompt
    /\ Retreat
    /\ UNCHANGED <<log_arr, call, command>>

(* In a log of nothing but the map the other three commands are refused, and *)
(* the program exits, as it does when the user asks for it.                  *)
Exit ==
    /\ AtPrompt
    /\ call' = "exit"
    /\ UNCHANGED <<log_arr, state_machine, status_machine_status, position,
                   command, seen>>

PressNextRound ==
    /\ AtPrompt
    /\ Ahead
    /\ call' = "next_round"
    /\ old_round' = now_round
    /\ pressed' = now_round
    /\ UNCHANGED <<log_arr, state_machine, status_machine_status, position, seen>>

(* The FLUSH is stepped over, but the round is still counted.                *)
SkipFlush_Mutant ==
    IF now_round > 0 /\ IsFlush(log_arr[now_step])
    THEN <<now_step - 1, now_round>> ELSE position

(* A FLUSH just behind the viewer is stepped over first.  (IsRound answers   *)
(* yes to the map too, but behind a round that has been counted there is an  *)
(* event.)                                                                   *)
SkipFlush ==
    IF now_round > 0 /\ IsFlush(log_arr[now_step])
    THEN <<now_step - 1, now_round - 1>> ELSE position

PressLastRound ==
    /\ AtPrompt
    /\ Ahead
    /\ call' = "last_round"
    /\ now_step' = SkipFlush[1]
    /\ now_round' = SkipFlush[2]
    /\ old_round' = SkipFlush[2]
    /\ pressed' = now_round
    /\ UNCHANGED <<log_arr, state_machine, status_machine_status, seen>>

(* The loops end where they should go on.                                    *)
MoreToWalk_Mutant ==
    /\ now_round # old_round
    /\ status_machine_status = "NORMAL"
    /\ call = "next_round" => Ahead

(* The loops go on until the round counter changes, the log is used up, or   *)
(* an entry fails.                                                           *)
MoreToWalk ==
    /\ now_round = old_round
    /\ status_machine_status = "NORMAL"
    /\ call = "next_round" => Ahead

NextRoundTurn ==
    /\ call = "next_round"
    /\ MoreToWalk
    /\ Advance
    /\ UNCHANGED <<log_arr, call, command>>

LastRoundTurn ==
    /\ call = "last_round"
    /\ MoreToWalk
    /\ now_step > 0
    /\ Retreat
    /\ UNCHANGED <<log_arr, call, command>>

Walking == call \in {"next_round", "last_round"}

RoundWalked ==
    /\ Walking
    /\ ~MoreToWalk \/ now_step = 0
    /\ call' = "prompt"
    /\ UNCHANGED <<log_arr, state_machine, status_machine_status, position,
                   command, seen>>

-----------------------------------------------------------------------------

(* The steps of a command that walks a round.                                *)
Walk == NextRoundTurn \/ LastRoundTurn \/ RoundWalked

Next ==
    \/ \E log \in Logs : OpenLog(log) \/ OpenFails(log)
    \/ NextStep \/ LastStep
    \/ PressNextRound \/ PressLastRound
    \/ Walk
    \/ Exit

Spec == Init /\ [][Next]_vars

(* A command that has started runs to its end.                               *)
WalkSpec == Spec /\ WF_vars(Walk)

-----------------------------------------------------------------------------
(* Properties.                                                               *)

(* Every variable has its type; the step is inside the log, and every screen *)
(* reached so far is in the history.                                         *)
SnapshotTypeOK ==
    /\ log_arr \in Seq(Entry)
    /\ status_machine_status \in StatusMachineStatus
    /\ now_step \in 0 .. Len(log_arr)
    /\ now_round \in Nat
    /\ old_round \in Nat
    /\ pressed \in Nat
    /\ call \in {"start", "prompt", "next_round", "last_round", "exit"}
    /\ seen \in Seq(Screen)
    /\ Len(seen) \in now_step .. Len(log_arr)
    /\ status_machine_status = "UNINIT" <=> now_step = 0
    /\ status_machine_status # "UNINIT" => state_machine \in Screen

(* The round the viewer prints is the number of rounds the screen has seen   *)
(* end, however the user got there: LastRound moves the step and the round   *)
(* by hand before it starts to undo, and every step counts in its direction. *)
RoundCount ==
    now_round = Cardinality({i \in 2 .. now_step : IsFlush(log_arr[i])})

(* If every entry read so far agreed with the screen it was first applied    *)
(* to, then the screen is the one that was shown when this step was first    *)
(* reached, after any number of steps back and forth.  What GameLog.tla      *)
(* shows of the engine's log is this premise.                                *)
BoardRestored ==
    (\A i \in 1 .. Len(seen) - 1 : Consistent(log_arr[i + 1], seen[i]))
        => (now_step > 0 => state_machine = seen[now_step])

(* A command that walks a round stops where the screen is the one at the end *)
(* of a round, next to a FLUSH, or at the end of the log, or it fails.       *)
StopsAtFlush ==
    [][Walking /\ call' = "prompt" =>
         \/ status_machine_status \in {"END", "ERROR"}
         \/ IsFlush(log_arr[now_step])
         \/ IsFlush(log_arr[now_step + 1])]_vars

(* A command that walks a round returns.                                     *)
CommandsReturn == Walking ~> call = "prompt"

(* ------------------------ What the program promises ---------------------- *)

Shown(screen) == [c \in Cell |-> Picture(screen[c])]

(* snapshot_main.cpp announces 'w' as "to last step": what is printed at a   *)
(* step is what was printed when the step was first reached.                 *)
ShownAgain == now_step > 0 => Shown(state_machine) = Shown(seen[now_step])

=============================================================================
