----------------------------- MODULE ServerProofs ---------------------------
(* The server's tables speak for the players of the running match and for    *)
(* nobody else, whatever connects, leaves, fails or is reset.                *)
EXTENDS Server, FiniteSetTheorems, TLAPS

(* The part of the type invariant that is about the engine.                  *)
EngineOK ==
    /\ status \in {"UNINIT", "WAIT_PLAYER", "WAIT_ACTION", "FLUSHING", "GAME_OVER"}
    /\ alive \subseteq joined /\ joined \subseteq PlayerId /\ winners \subseteq joined
    /\ marks \in [joined -> Int]
    /\ round \in Nat

(* The part that is about the handler of the timer.                          *)
HandlerOK ==
    /\ handler \in Handler
    /\ handler = "flush" <=> status = "FLUSHING"
    /\ handler = "reset" => status = "GAME_OVER"
    /\ status = "GAME_OVER" => handler \in {"report", "reset"}
    /\ handler = "open" => status = "UNINIT"
    /\ handler = "report" => status \in {"WAIT_ACTION", "GAME_OVER"}

(* The part that is about the connections.                                   *)
TablesOK ==
    /\ conn \subseteq Fd
    /\ Speakers \subseteq Fd
    /\ fd2PlayerId \in [Speakers -> PlayerId]
    /\ DOMAIN fd2msg \subseteq Fd
    /\ \A fd \in DOMAIN fd2msg : fd2msg[fd] \in Message
    /\ DOMAIN told = conn
    /\ \A fd \in conn : told[fd] \in Message \cup {Nothing}

(* The part that is about what is remembered of the connections.             *)
HistoryOK ==
    /\ brought \in [conn -> SUBSET joined]
    /\ lost \subseteq conn

(* The four parts make up the type invariant.                                *)
LEMMA TypeParts == ServerTypeOK <=> EngineOK /\ HandlerOK /\ TablesOK /\ HistoryOK
BY DEF ServerTypeOK, EngineOK, HandlerOK, TablesOK, HistoryOK

-----------------------------------------------------------------------------

(* Every step of the engine keeps its types.                                 *)
LEMMA EngineStep ==
    ASSUME EngineOK, HandlerOK, TablesOK, [Next]_vars
    PROVE  EngineOK'
<1> USE DEF EngineOK
<1>1. ASSUME UNCHANGED engine
      PROVE  EngineOK'
  BY <1>1 DEF engine
<1>2. ASSUME NEW fd \in Fd, NEW p \in PlayerId, InitReq(fd, p)
      PROVE  EngineOK'
  BY <1>2 DEF InitReq, Engine!Join
<1>3. ASSUME Engine!Play
      PROVE  EngineOK'
  BY <1>3 DEF Engine!Play
<1>4. CASE Tick
  BY <1>4, ServerAssumption DEF Tick, Engine!Tick
<1>5. CASE Judge
  BY <1>5 DEF Judge, Engine!NextRound, Engine!Survive, Engine!Decide, Engine!Leaders
<1>6. CASE Reset
  BY <1>6 DEF Reset, Engine!Close
<1>7. CASE Open
  BY <1>7, <1>1 DEF Open, Engine!Open
<1>8. QED
  BY <1>1, <1>2, <1>3, <1>4, <1>5, <1>6, <1>7
  DEF Next, Continue, vars, Accept, CloseOnRead, Leave, Drop, Error, ActionReq,
      Burn, Play, IdleTick, Report

(* The stages of the handler follow the status of the engine.                *)
LEMMA HandlerStep ==
    ASSUME EngineOK, HandlerOK, [Next]_vars
    PROVE  HandlerOK'
<1> USE DEF HandlerOK, Handler
<1>1. ASSUME UNCHANGED <<status, handler>>
      PROVE  HandlerOK'
  BY <1>1
<1>2. ASSUME NEW fd \in Fd, NEW p \in PlayerId, InitReq(fd, p)
      PROVE  HandlerOK'
  BY <1>2 DEF InitReq, Engine!Join
<1>3. CASE Tick
  BY <1>3 DEF Tick, Engine!Tick
<1>4. CASE Judge
  BY <1>4 DEF Judge, Engine!NextRound, Engine!Survive, Engine!Decide
<1>5. CASE Report
  BY <1>5 DEF Report, MustReset, engine
<1>6. CASE Reset
  BY <1>6 DEF Reset, Engine!Close
<1>7. CASE Open
  BY <1>7 DEF Open, Engine!Open, engine
<1>8. QED
  BY <1>1, <1>2, <1>3, <1>4, <1>5, <1>6, <1>7
  DEF Next, Continue, vars, Accept, CloseOnRead, Leave, Drop, Error, ActionReq,
      Burn, Play, Engine!Play, IdleTick, engine

(* A connection that ends takes its entries along.                           *)
LEMMA TablesDrop ==
    ASSUME TablesOK, NEW fd \in Fd, Drop(fd, fd)
    PROVE  TablesOK'
BY DEF TablesOK, Drop, Erased, Restrict, Speakers

(* What is sent is a message for a player.                                   *)
LEMMA MessageType ==
    ASSUME EngineOK, TablesOK, NEW fd \in Speakers
    PROVE  MessageFor(fd) \in Message
BY DEF EngineOK, TablesOK, MessageFor, Message

(* Every step keeps the types of the tables.                                 *)
LEMMA TablesStep ==
    ASSUME EngineOK, HandlerOK, TablesOK, [Next]_vars
    PROVE  TablesOK'
<1>1. ASSUME UNCHANGED <<conn, tables, told>>
      PROVE  TablesOK'
  BY <1>1 DEF TablesOK, tables, Speakers
<1>2. ASSUME NEW fd \in Fd, Accept(fd)
      PROVE  TablesOK'
  BY <1>2 DEF TablesOK, Accept, tables, Speakers
<1>3. ASSUME NEW fd \in Fd, CloseOnRead(fd)
      PROVE  TablesOK'
  BY <1>3, TablesDrop DEF CloseOnRead, FdAfterClose
<1>4. ASSUME NEW fd \in Fd, Leave(fd)
      PROVE  TablesOK'
  BY <1>4, TablesDrop DEF Leave
<1>5. ASSUME NEW fd \in Fd, Error(fd)
      PROVE  TablesOK'
  BY <1>5 DEF TablesOK, Error, Erased, Restrict, Speakers
<1>6. ASSUME NEW fd \in Fd, NEW p \in PlayerId, InitReq(fd, p)
      PROVE  TablesOK'
  BY <1>6 DEF TablesOK, InitReq, Speakers
<1>7. CASE IdleTick
  BY <1>7 DEF TablesOK, IdleTick, Delivered, tables, Speakers
<1>8. CASE Report
  <2>1. /\ fd2msg' = Reports
        /\ told' = [f \in conn |-> IF f \in DOMAIN fd2msg' THEN fd2msg'[f] ELSE told[f]]
        /\ UNCHANGED <<conn, fd2PlayerId>>
    BY <1>8 DEF Report, Delivered
  <2>2. DOMAIN fd2msg' \subseteq Fd /\ \A f \in DOMAIN fd2msg' : fd2msg'[f] \in Message
    BY <2>1, MessageType DEF TablesOK, Reports
  <2>3. QED BY <2>1, <2>2 DEF TablesOK, Speakers
<1>9. CASE Reset
  BY <1>9 DEF TablesOK, Reset, Restrict, Speakers
<1>10. QED
  BY <1>1, <1>2, <1>3, <1>4, <1>5, <1>6, <1>7, <1>8, <1>9
  DEF Next, Continue, vars, ActionReq, Burn, Tick, Judge, Open

(* Every step keeps the types of the history.                                *)
LEMMA HistoryStep ==
    ASSUME HistoryOK, [Next]_vars
    PROVE  HistoryOK'
<1> USE DEF HistoryOK
<1>1. ASSUME UNCHANGED <<conn, joined, history>>
      PROVE  HistoryOK'
  BY <1>1 DEF history
<1>2. ASSUME NEW fd \in Fd, Accept(fd)
      PROVE  HistoryOK'
  BY <1>2 DEF Accept, engine
<1>3. ASSUME NEW fd \in Fd, Drop(fd, fd)
      PROVE  HistoryOK'
  BY <1>3 DEF Drop, Restrict, engine
<1>4. ASSUME NEW fd \in Fd, Error(fd)
      PROVE  HistoryOK'
  BY <1>4 DEF Error, engine
<1>5. ASSUME NEW fd \in Fd, NEW p \in PlayerId, InitReq(fd, p)
      PROVE  HistoryOK'
  BY <1>5 DEF InitReq, MayJoin, Engine!Join
<1>6. CASE Reset
  BY <1>6 DEF Reset, Engine!Close
<1>7. CASE Judge
  BY <1>7, <1>1 DEF Judge, Engine!NextRound, Engine!Survive, Engine!Decide
<1>8. CASE Open
  BY <1>8, <1>1 DEF Open, Engine!Open, engine
<1>9. CASE Tick
  BY <1>9, <1>1 DEF Tick, Engine!Tick
<1>10. QED
  BY <1>1, <1>2, <1>3, <1>4, <1>5, <1>6, <1>7, <1>8, <1>9
  DEF Next, Continue, vars, CloseOnRead, FdAfterClose, Leave, ActionReq, Burn,
      Play, Engine!Play, IdleTick, Report, engine

-----------------------------------------------------------------------------

(* Every step keeps one voice for each player.                               *)
LEMMA VoiceStep ==
    ASSUME EngineOK, HandlerOK, TablesOK, OneVoice, [Next]_vars
    PROVE  OneVoice'
<1> USE DEF OneVoice, Speakers
<1>1. ASSUME UNCHANGED <<conn, fd2PlayerId, joined>>
      PROVE  OneVoice'
  BY <1>1
<1>2. ASSUME NEW fd \in Fd, Accept(fd)
      PROVE  OneVoice'
  BY <1>2 DEF Accept, tables, engine
<1>3. ASSUME NEW fd \in Fd, Drop(fd, fd)
      PROVE  OneVoice'
  BY <1>3 DEF Drop, Erased, Restrict, engine
<1>4. ASSUME NEW fd \in Fd, Error(fd)
      PROVE  OneVoice'
  BY <1>4 DEF Error, Erased, Restrict, engine
<1>5. ASSUME NEW fd \in Fd, NEW p \in PlayerId, InitReq(fd, p)
      PROVE  OneVoice'
  BY <1>5 DEF InitReq, MayJoin, Engine!Join
<1>6. CASE Reset
  BY <1>6 DEF Reset
<1>7. CASE Judge
  BY <1>7, <1>1 DEF Judge, Engine!NextRound, Engine!Survive, Engine!Decide, tables
<1>8. CASE Open
  BY <1>8, <1>1 DEF Open, Engine!Open, tables, engine
<1>9. CASE Tick
  BY <1>9, <1>1 DEF Tick, Engine!Tick, tables
<1>10. QED
  BY <1>1, <1>2, <1>3, <1>4, <1>5, <1>6, <1>7, <1>8, <1>9
  DEF Next, Continue, vars, CloseOnRead, FdAfterClose, Leave, ActionReq, Burn,
      Play, Engine!Play, IdleTick, Report, tables, engine

(* Every variable of the server has its type in every reachable state.       *)
THEOREM ServerTypeCorrect == Spec => []ServerTypeOK
<1>1. Init => ServerTypeOK
  BY DEF Init, Engine!Init, ServerTypeOK, Handler, Speakers
<1>2. ServerTypeOK /\ [Next]_vars => ServerTypeOK'
  BY TypeParts, EngineStep, HandlerStep, TablesStep, HistoryStep
  DEF ServerTypeOK, EngineOK, HandlerOK, TablesOK, HistoryOK
<1>3. QED BY <1>1, <1>2, PTL DEF Spec

(* In every reachable state a descriptor of the table is open, speaks for a  *)
(* player of the running match, and is the only one that does.               *)
THEOREM OneVoiceEach == Spec => []OneVoice
<1>1. Init => OneVoice
  BY DEF Init, OneVoice, Speakers
<1>2. ServerTypeOK /\ OneVoice /\ [Next]_vars => OneVoice'
  BY TypeParts, VoiceStep
<1>3. QED BY <1>1, <1>2, ServerTypeCorrect, PTL DEF Spec

-----------------------------------------------------------------------------

(* Freshness, and the reset that empties the table of messages.              *)
FreshOK ==
    /\ MessagesFresh
    /\ handler = "open" => DOMAIN fd2msg = {}

(* Every step keeps the messages fresh.                                      *)
LEMMA FreshStep ==
    ASSUME EngineOK, HandlerOK, TablesOK, FreshOK, [Next]_vars
    PROVE  FreshOK'
<1> USE DEF FreshOK, MessagesFresh, MessageFor, Speakers
<1>1. CASE UNCHANGED vars
  BY <1>1 DEF vars, engine, tables
<1>2. ASSUME NEW fd \in Fd, Accept(fd)
      PROVE  FreshOK'
  BY <1>2 DEF Accept, tables, engine
<1>3. ASSUME NEW fd \in Fd, Drop(fd, fd)
      PROVE  FreshOK'
  BY <1>3 DEF Drop, Erased, Restrict, engine
<1>4. ASSUME NEW fd \in Fd, Error(fd)
      PROVE  FreshOK'
  BY <1>4 DEF Error, Erased, Restrict, engine
<1>5. ASSUME NEW fd \in Fd, NEW p \in PlayerId, InitReq(fd, p)
      PROVE  FreshOK'
  BY <1>5 DEF InitReq, MayJoin, Engine!Join
<1>6. ASSUME NEW fd \in Fd, ActionReq(fd)
      PROVE  FreshOK'
  BY <1>6 DEF ActionReq, Play, Engine!Play, tables
<1>7. CASE IdleTick
  BY <1>7 DEF IdleTick, tables, engine
<1>8. CASE Tick \/ Burn \/ Judge
  BY <1>8 DEF Tick, Burn, Judge, tables
<1>9. CASE Report
  BY <1>9 DEF Report, Reports, engine
<1>10. CASE Reset
  BY <1>10 DEF Reset
<1>11. CASE Open
  BY <1>11 DEF Open, tables
<1>12. QED
  BY <1>1, <1>2, <1>3, <1>4, <1>5, <1>6, <1>7, <1>8, <1>9, <1>10, <1>11
  DEF Next, Continue, CloseOnRead, FdAfterClose, Leave

(* A tick never sends the news of an earlier match, of an earlier round or   *)
(* of an earlier connection, although the table of messages is not cleared.  *)
THEOREM MessagesAreFresh == Spec => []MessagesFresh
<1>1. Init => FreshOK
  BY DEF Init, FreshOK, MessagesFresh
<1>2. ServerTypeOK /\ FreshOK /\ [Next]_vars => FreshOK'
  BY TypeParts, FreshStep
<1>3. FreshOK => MessagesFresh
  BY DEF FreshOK
<1>4. QED BY <1>1, <1>2, <1>3, ServerTypeCorrect, PTL DEF Spec

(* Every step keeps an open connection to the players it has brought itself. *)
LEMMA OwnPlayerStep ==
    ASSUME HistoryOK, OneVoice, OwnPlayer, [Next]_vars
    PROVE  OwnPlayer'
<1> USE DEF OwnPlayer, HistoryOK, Speakers
<1>1. ASSUME UNCHANGED <<conn, fd2PlayerId, history>>
      PROVE  OwnPlayer'
  BY <1>1 DEF history
<1>2. ASSUME NEW fd \in Fd, Accept(fd)
      PROVE  OwnPlayer'
  <2>1. /\ conn' = conn \cup {fd} /\ fd \notin conn /\ fd \notin Speakers
        /\ fd2PlayerId' = fd2PlayerId /\ lost' = lost
        /\ brought' = [f \in conn' |-> IF f = fd THEN {} ELSE brought[f]]
    BY <1>2 DEF Accept, tables, OneVoice
  <2>2. brought'[fd] = {} /\ \A f \in conn : brought'[f] = brought[f]
    BY <2>1
  <2>3. QED BY <2>1, <2>2
<1>3. ASSUME NEW fd \in Fd, Drop(fd, fd)
      PROVE  OwnPlayer'
  BY <1>3 DEF Drop, Erased, Restrict
<1>4. ASSUME NEW fd \in Fd, Error(fd)
      PROVE  OwnPlayer'
  BY <1>4 DEF Error, Erased, Restrict
<1>5. ASSUME NEW fd \in Fd, NEW p \in PlayerId, InitReq(fd, p)
      PROVE  OwnPlayer'
  <2>1. /\ fd \in conn /\ fd \notin Speakers /\ p \notin joined
        /\ Speakers' = Speakers \cup {fd}
        /\ fd2PlayerId' = [f \in Speakers \cup {fd} |->
                             IF f = fd THEN p ELSE fd2PlayerId[f]]
        /\ brought' = [brought EXCEPT ![fd] = @ \cup {p}]
        /\ UNCHANGED <<conn, lost>>
    BY <1>5 DEF InitReq, MayJoin, Engine!Join
  <2>2. /\ fd2PlayerId'[fd] = p
        /\ \A f \in Speakers : fd2PlayerId'[f] = fd2PlayerId[f]
    BY <2>1
  <2>3. /\ brought'[fd] = brought[fd] \cup {p}
        /\ \A f \in conn \ {fd} : brought'[f] = brought[f]
        /\ \A f \in conn : p \notin brought[f]
    BY <2>1
  <2>4. \A f \in conn' \cap Speakers' : fd2PlayerId'[f] \in brought'[f]
    BY <2>1, <2>2, <2>3
  <2>5. \A f \in conn' \ lost' :
          brought'[f] = IF f \in Speakers' THEN {fd2PlayerId'[f]} ELSE {}
    <3>1. \A f \in conn \ lost :
            brought[f] = IF f \in Speakers THEN {fd2PlayerId[f]} ELSE {}
      OBVIOUS
    <3>2. fd \notin lost => brought'[fd] = {fd2PlayerId'[fd]}
      BY <2>1, <2>2, <2>3, <3>1
    <3>3. \A f \in conn \ lost : f # fd =>
            brought'[f] = IF f \in Speakers THEN {fd2PlayerId'[f]} ELSE {}
      BY <2>2, <2>3, <3>1
    <3>4. QED BY <2>1, <3>2, <3>3
  <2>6. \A f, g \in conn' : brought'[f] \cap brought'[g] # {} => f = g
    BY <2>1, <2>3
  <2>7. QED BY <2>4, <2>5, <2>6
<1>6. CASE Reset
  BY <1>6 DEF Reset
<1>7. QED
  BY <1>1, <1>2, <1>3, <1>4, <1>5, <1>6
  DEF Next, Continue, vars, tables, CloseOnRead, FdAfterClose, Leave, ActionReq,
      IdleTick, Tick, Burn, Judge, Report, Open

(* In every reachable state an open connection speaks only for a player it   *)
(* has itself brought into the running match, no two connections have        *)
(* brought the same player, and one that no error has struck has brought at  *)
(* most one.                                                                 *)
THEOREM PlayersAreOwn == Spec => []OwnPlayer
<1>1. Init => OwnPlayer
  BY DEF Init, OwnPlayer, Speakers
<1>2. ServerTypeOK /\ OneVoice /\ OwnPlayer /\ [Next]_vars => OwnPlayer'
  BY TypeParts, OwnPlayerStep
<1>3. QED BY <1>1, <1>2, ServerTypeCorrect, OneVoiceEach, PTL DEF Spec

-----------------------------------------------------------------------------
(* There is always a leader.                                                 *)

(* Among any n players of the match one has the most marks.                  *)
Led(n) ==
    \A T \in SUBSET joined :
        Cardinality(T) = n /\ T # {} =>
            \E m \in T : \A q \in T : marks[q] <= marks[m]

(* One player more than can be led can be led.                               *)
LEMMA LedStep ==
    ASSUME IsFiniteSet(joined), marks \in [joined -> Int], NEW n \in Nat, Led(n)
    PROVE  Led(n + 1)
<1> SUFFICES ASSUME NEW T \in SUBSET joined, Cardinality(T) = n + 1, T # {}
             PROVE  \E m \in T : \A q \in T : marks[q] <= marks[m]
  BY DEF Led
<1>1. PICK x \in T : TRUE
  OBVIOUS
<1>2. IsFiniteSet(T)
  BY FS_Subset
<1>3. Cardinality(T \ {x}) = n
  <2>1. Cardinality(T \ {x}) = Cardinality(T) - 1
    BY <1>1, <1>2, FS_RemoveElement
  <2>2. QED BY <2>1
<1>4. \A q \in T : marks[q] \in Int
  OBVIOUS
<1>5. CASE T \ {x} = {}
  BY <1>1, <1>4, <1>5
<1>6. CASE T \ {x} # {}
  <2>1. PICK m \in T \ {x} : \A q \in T \ {x} : marks[q] <= marks[m]
    BY <1>3, <1>6 DEF Led
  <2>2. CASE marks[x] <= marks[m]
    BY <2>1, <2>2
  <2>3. CASE marks[m] <= marks[x]
    BY <1>1, <1>4, <2>1, <2>3
  <2>4. QED BY <1>1, <1>4, <2>1, <2>2, <2>3
<1>7. QED BY <1>5, <1>6

(* A match has at most four players, so four steps suffice.                  *)
LEMMA LeaderExists ==
    ASSUME IsFiniteSet(joined), marks \in [joined -> Int],
           Cardinality(joined) \in 1 .. 4
    PROVE  Engine!Leaders # {}
<1>1. Led(0)
  BY FS_Subset, FS_EmptySet DEF Led
<1>2. Led(1)
  BY <1>1, LedStep
<1>3. Led(2)
  BY <1>2, LedStep
<1>4. Led(3)
  BY <1>3, LedStep
<1>5. Led(4)
  BY <1>4, LedStep
<1>6. joined # {}
  BY FS_EmptySet
<1>7. \E m \in joined : \A q \in joined : marks[q] <= marks[m]
  BY <1>2, <1>3, <1>4, <1>5, <1>6 DEF Led
<1>8. QED BY <1>7 DEF Engine!Leaders

(* The match counts as the server does.                                      *)
LEMMA EngineCardinality ==
    ASSUME NEW S PROVE Engine!Cardinality(S) = Cardinality(S)
BY DEF Engine!Cardinality, Cardinality

(* How many have joined, and that a match that is over has been won.         *)
MatchOK ==
    /\ IsFiniteSet(joined)
    /\ status \in {"UNINIT", "WAIT_PLAYER"} => Cardinality(joined) < kPlayerDefaultNum
    /\ status \in {"WAIT_ACTION", "FLUSHING", "GAME_OVER"} =>
         Cardinality(joined) = kPlayerDefaultNum
    /\ status = "GAME_OVER" => winners # {}

(* Every step keeps that.                                                    *)
LEMMA MatchStep ==
    ASSUME EngineOK, MatchOK, [Next]_vars
    PROVE  MatchOK'
<1> USE DEF MatchOK
<1>1. ASSUME UNCHANGED <<status, joined, winners>>
      PROVE  MatchOK'
  BY <1>1
<1>2. ASSUME NEW fd \in Fd, NEW p \in PlayerId, InitReq(fd, p)
      PROVE  MatchOK'
  <2>1. /\ status = "WAIT_PLAYER" /\ p \notin joined /\ joined' = joined \cup {p}
        /\ status' = IF Cardinality(joined') = kPlayerDefaultNum
                     THEN "WAIT_ACTION" ELSE status
    BY <1>2, EngineCardinality DEF InitReq, Engine!Join
  <2>2. /\ IsFiniteSet(joined')
        /\ Cardinality(joined') = Cardinality(joined) + 1
    BY <2>1, FS_AddElement
  <2>3. Cardinality(joined) \in Nat
    BY FS_CardinalityType
  <2>4. QED BY <2>1, <2>2, <2>3, ServerAssumption
<1>3. CASE Judge
  <2>1. CASE Engine!NextRound
    BY <2>1 DEF Engine!NextRound
  <2>2. CASE Engine!Survive
    <3>1. Cardinality(alive) = 1
      BY <2>2, EngineCardinality DEF Engine!Survive
    <3>2. alive # {}
      BY <3>1, FS_EmptySet
    <3>3. QED BY <2>2, <3>2 DEF Engine!Survive
  <2>3. CASE Engine!Decide
    <3>1. Cardinality(joined) \in 1 .. 4
      BY <2>3, ServerAssumption DEF Engine!Decide
    <3>2. Engine!Leaders # {}
      BY <3>1, LeaderExists DEF EngineOK
    <3>3. QED BY <2>3, <3>2 DEF Engine!Decide
  <2>4. QED BY <1>3, <2>1, <2>2, <2>3 DEF Judge
<1>4. CASE Reset
  BY <1>4, FS_EmptySet, ServerAssumption DEF Reset, Engine!Close
<1>5. CASE Open
  BY <1>5 DEF Open, Engine!Open, engine
<1>6. CASE Tick
  BY <1>6 DEF Tick, Engine!Tick
<1>7. QED
  BY <1>1, <1>2, <1>3, <1>4, <1>5, <1>6
  DEF Next, Continue, vars, Accept, CloseOnRead, Leave, Drop, Error, ActionReq,
      Burn, Play, Engine!Play, IdleTick, Report, engine

(* Every step tells the players the result before it throws them out.        *)
LEMMA ToldStep ==
    ASSUME HandlerOK, OneVoice, MatchOK, ResultTold, [Next]_vars
    PROVE  ResultTold'
<1> USE DEF ResultTold
<1>1. CASE UNCHANGED vars
  BY <1>1 DEF vars, engine, tables, Speakers
<1>2. CASE Report
  <2>1. /\ fd2msg' = Reports
        /\ told' = [f \in conn |-> IF f \in DOMAIN fd2msg' THEN fd2msg'[f] ELSE told[f]]
        /\ UNCHANGED <<engine, fd2PlayerId>>
        /\ handler' = "reset" => status = "GAME_OVER"
    BY <1>2 DEF Report, Delivered, MustReset
  <2>2. Speakers' = Speakers /\ Speakers \subseteq conn
    BY <2>1 DEF Speakers, OneVoice
  <2>3. \A f \in Speakers : told'[f] = MessageFor(f)
    BY <2>1, <2>2 DEF Reports
  <2>4. QED BY <2>1, <2>2, <2>3 DEF MatchOK, MessageFor, engine
<1>3. CASE handler' # "reset"
  BY <1>3
<1>4. QED
  BY <1>1, <1>2, <1>3
  DEF Next, Continue, Accept, CloseOnRead, Leave, Drop, Error, InitReq, ActionReq,
      IdleTick, Tick, Burn, Judge, Reset, Open

(* Before the connection of a player is closed he has been sent the result   *)
(* of the match, and somebody has won.                                       *)
THEOREM ResultIsTold == Spec => []ResultTold
<1>1. Init => MatchOK /\ ResultTold
  BY FS_EmptySet, ServerAssumption DEF Init, Engine!Init, MatchOK, ResultTold
<1>2. /\ ServerTypeOK /\ OneVoice /\ MatchOK /\ ResultTold /\ [Next]_vars
      => MatchOK' /\ ResultTold'
  BY TypeParts, MatchStep, ToldStep
<1>3. QED BY <1>1, <1>2, ServerTypeCorrect, OneVoiceEach, PTL DEF Spec

=============================================================================
