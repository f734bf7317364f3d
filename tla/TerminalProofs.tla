---------------------------- MODULE TerminalProofs ---------------------------
(* The keyboard of the terminal program addresses the players of the running *)
(* match, for every number of players and whatever keys are pressed.         *)
EXTENDS Terminal, FiniteSetTheorems, TLAPS

(* Match.tla brings its own name for the cardinality of the library.         *)
LEMMA EngineCardinality ==
    ASSUME NEW S PROVE Engine!Cardinality(S) = Cardinality(S)
BY DEF Engine!Cardinality, Cardinality

-----------------------------------------------------------------------------
(* Type correctness.                                                         *)

(* The program starts before its first match.                                *)
LEMMA TypeInit == Init => TerminalTypeOK
BY TerminalAssumption DEF Init, Engine!Init, TerminalTypeOK

(* FlushTime, in a match or after it.                                        *)
LEMMA TypeFlush ==
    ASSUME TerminalTypeOK, NEW place \in {"keys", "loop"}, at = "keys",
           Flush(place),
           i' \in 0 .. kPlayerDefaultNum, UNCHANGED player_ids
    PROVE  TerminalTypeOK'
<1>1. CASE status = "WAIT_ACTION"
  BY <1>1, TerminalAssumption DEF TerminalTypeOK, Flush, Engine!Tick
<1>2. CASE status # "WAIT_ACTION"
  BY <1>2 DEF TerminalTypeOK, Flush, Goto, engine
<1>3. QED BY <1>1, <1>2

(* What an action may do to the engine.                                      *)
LEMMA TypeAct ==
    ASSUME TerminalTypeOK, Act, at = "keys",
           at' \in {"keys", "crash"}, UNCHANGED <<player_ids, after_flush>>,
           i' \in 0 .. kPlayerDefaultNum
    PROVE  TerminalTypeOK'
<1>1. CASE Engine!Play
  BY <1>1 DEF TerminalTypeOK, Engine!Play
<1>2. CASE UNCHANGED engine
  BY <1>2 DEF TerminalTypeOK, engine
<1>3. QED BY <1>1, <1>2 DEF Act

(* The keys.                                                                 *)
LEMMA TypeKey ==
    ASSUME TerminalTypeOK, Key
    PROVE  TerminalTypeOK'
<1>1. i \in 0 .. kPlayerDefaultNum
  BY DEF TerminalTypeOK
<1>2. AtKeys => i + 1 \in 0 .. kPlayerDefaultNum
  BY <1>1, TerminalAssumption DEF AtKeys
<1>3. ASSUME NEW k \in 1 .. 3, PlayerKey(k)
      PROVE  TerminalTypeOK'
  BY <1>2, <1>3, TypeAct DEF PlayerKey, AtKeys, Goto
<1>4. ASSUME NEW k \in 1 .. 3, StrangerKey(k)
      PROVE  TerminalTypeOK'
  <2>1. CASE Goto("crash") /\ UNCHANGED engine
    BY <1>2, <1>4, <2>1 DEF StrangerKey, AtKeys, Goto, engine, TerminalTypeOK
  <2>2. CASE Goto("keys") /\ Act
    BY <1>2, <1>4, <2>2, TypeAct DEF StrangerKey, AtKeys, Goto
  <2>3. QED BY <1>4, <2>1, <2>2 DEF StrangerKey
<1>5. CASE OtherKey
  BY <1>2, <1>5 DEF OtherKey, AtKeys, Goto, engine, TerminalTypeOK
<1>6. CASE QuitKey
  BY <1>6 DEF QuitKey, AtKeys, Goto, engine, TerminalTypeOK
<1>7. CASE FlushKey
  BY <1>2, <1>7, TypeFlush DEF FlushKey, AtKeys
<1>8. QED BY <1>3, <1>4, <1>5, <1>6, <1>7 DEF Key

-----------------------------------------------------------------------------
(* The keyboard and the players.                                             *)

(* No two entries are the same.                                              *)
OneEach(s) == \A j, k \in 1 .. Len(s) : s[j] = s[k] => j = k

(* Every player of the match has one entry, and nobody else has any.         *)
Listed == Range(player_ids) = joined /\ OneEach(player_ids)

(* What the keyboard rests on: while players join, one entry per player.     *)
KeyboardInv ==
    /\ IsFiniteSet(joined)
    /\ at = "init" => joined = {}
    /\ at = "join" =>
         /\ Listed
         /\ Len(player_ids) = Cardinality(joined)
         /\ Len(player_ids) < kPlayerDefaultNum
    /\ at \in {"keys", "flush", "loop"} => Listed /\ Len(player_ids) = kPlayerDefaultNum

(* The entry of a new player goes behind the others.                         *)
LEMMA EntryAppended ==
    ASSUME NEW S, NEW s \in Seq(S), NEW p \in S, p \notin Range(s), OneEach(s)
    PROVE  /\ Append(s, p) \in Seq(S)
           /\ Len(Append(s, p)) = Len(s) + 1
           /\ Range(Append(s, p)) = Range(s) \cup {p}
           /\ OneEach(Append(s, p))
<1> DEFINE t == Append(s, p)
<1>1. /\ t \in Seq(S) /\ Len(t) = Len(s) + 1 /\ Len(s) \in Nat
      /\ DOMAIN t = 1 .. Len(s) + 1 /\ DOMAIN s = 1 .. Len(s)
      /\ \A j \in 1 .. Len(s) : t[j] = s[j]
      /\ t[Len(s) + 1] = p
  OBVIOUS
<1> HIDE DEF t
<1>2. \A j \in 1 .. Len(s) : s[j] \in Range(s)
  BY <1>1 DEF Range
<1>3. Range(t) = Range(s) \cup {p}
  <2>1. ASSUME NEW x \in Range(t) PROVE x \in Range(s) \cup {p}
    <3>1. PICK j \in 1 .. Len(s) + 1 : x = t[j]
      BY <1>1 DEF Range
    <3>2. CASE j \in 1 .. Len(s)
      BY <1>1, <1>2, <3>1, <3>2
    <3>3. CASE j = Len(s) + 1
      BY <1>1, <3>1, <3>3
    <3>4. QED BY <1>1, <3>2, <3>3
  <2>2. ASSUME NEW x \in Range(s) PROVE x \in Range(t)
    <3>1. PICK j \in 1 .. Len(s) : x = s[j]
      BY <1>1 DEF Range
    <3>2. j \in 1 .. Len(s) + 1 /\ x = t[j]
      BY <1>1, <3>1
    <3>3. QED BY <1>1, <3>2 DEF Range
  <2>3. p \in Range(t)
    <3>1. Len(s) + 1 \in 1 .. Len(s) + 1
      BY <1>1
    <3>2. QED BY <1>1, <3>1 DEF Range
  <2>4. QED BY <2>1, <2>2, <2>3
<1>4. ASSUME NEW j \in 1 .. Len(s) + 1, NEW k \in 1 .. Len(s) + 1, t[j] = t[k]
      PROVE  j = k
  <2>1. CASE j \in 1 .. Len(s) /\ k \in 1 .. Len(s)
    BY <1>1, <1>4, <2>1 DEF OneEach
  <2>2. CASE j = Len(s) + 1 \/ k = Len(s) + 1
    BY <1>1, <1>2, <1>4, <2>2
  <2>3. QED BY <1>1, <2>1, <2>2
<1>5. OneEach(t)
  BY <1>1, <1>4 DEF OneEach
<1>6. QED BY <1>1, <1>3, <1>5 DEF t

(* A player who joins gets his entry, and the last one starts the keys.      *)
LEMMA KeyboardJoin ==
    ASSUME TerminalTypeOK, KeyboardInv, NEW p \in PlayerId, Join(p)
    PROVE  TerminalTypeOK' /\ KeyboardInv'
<1>1. /\ at = "join" /\ status = "WAIT_PLAYER" /\ p \notin joined
      /\ joined' = joined \cup {p}
      /\ player_ids' = Append(player_ids, p)
      /\ i' = 0 /\ after_flush' = after_flush
      /\ at' = IF Cardinality(joined') = kPlayerDefaultNum THEN "keys" ELSE "join"
      /\ status' = IF Cardinality(joined') = kPlayerDefaultNum
                   THEN "WAIT_ACTION" ELSE status
      /\ alive' = alive \cup {p} /\ round' = round /\ winners' = winners
      /\ marks' = [q \in joined' |-> IF q = p THEN 0 ELSE marks[q]]
  BY EngineCardinality DEF Join, Engine!Join, Goto
<1>2. /\ IsFiniteSet(joined) /\ Listed /\ player_ids \in Seq(PlayerId)
      /\ Len(player_ids) = Cardinality(joined) /\ Len(player_ids) < kPlayerDefaultNum
  BY <1>1 DEF KeyboardInv, TerminalTypeOK
<1>3. IsFiniteSet(joined') /\ Cardinality(joined') = Cardinality(joined) + 1
  BY <1>1, <1>2, FS_AddElement
<1>4. /\ player_ids' \in Seq(PlayerId) /\ Len(player_ids') = Len(player_ids) + 1
      /\ Listed'
  <2>1. p \notin Range(player_ids) /\ OneEach(player_ids)
    BY <1>1, <1>2 DEF Listed
  <2>2. PICK s : s = player_ids
    OBVIOUS
  <2>3. p \in PlayerId /\ s \in Seq(PlayerId) /\ p \notin Range(s) /\ OneEach(s)
    BY <1>2, <2>1, <2>2
  <2>4. /\ Append(s, p) \in Seq(PlayerId) /\ Len(Append(s, p)) = Len(s) + 1
        /\ Range(Append(s, p)) = Range(s) \cup {p} /\ OneEach(Append(s, p))
    BY <2>3, EntryAppended
  <2>5. QED BY <1>1, <1>2, <2>2, <2>4 DEF Listed
<1>5. Len(player_ids') \in Nat /\ Len(player_ids') <= kPlayerDefaultNum
  BY <1>2, <1>4, TerminalAssumption
<1>6. KeyboardInv'
  BY <1>1, <1>2, <1>3, <1>4, <1>5, TerminalAssumption DEF KeyboardInv
<1>7. TerminalTypeOK'
  BY <1>1, <1>4, <1>5, TerminalAssumption DEF TerminalTypeOK
<1>8. QED BY <1>6, <1>7

(* Between two matches the vector is emptied, before anybody joins.          *)
LEMMA KeyboardOpen ==
    ASSUME TerminalTypeOK, KeyboardInv, Open
    PROVE  TerminalTypeOK' /\ KeyboardInv'
<1>1. /\ at = "init" /\ status' = "WAIT_PLAYER" /\ joined' = joined /\ joined = {}
      /\ at' = "join" /\ player_ids' = << >> /\ i' = 0 /\ after_flush' = after_flush
      /\ UNCHANGED <<alive, marks, round, winners>>
  BY DEF Open, Engine!Open, Goto, IdsAtStart, KeyboardInv
<1>2. TerminalTypeOK'
  BY <1>1, TerminalAssumption DEF TerminalTypeOK
<1>3. Listed' /\ Len(player_ids') = 0
  BY <1>1 DEF Listed, OneEach, Range
<1>4. QED BY <1>1, <1>2, <1>3, FS_EmptySet, TerminalAssumption DEF KeyboardInv

(* A step within a match changes neither the players nor their entries.      *)
LEMMA KeyboardKept ==
    ASSUME KeyboardInv, UNCHANGED <<joined, player_ids>>,
           \/ at' = at
           \/ at' \in {"exit", "crash"}
           \/ at \in {"keys", "flush", "loop"} /\ at' \in {"keys", "flush", "loop"}
    PROVE  KeyboardInv'
BY DEF KeyboardInv, Listed

(* Every key is such a step.                                                 *)
LEMMA KeyboardKey ==
    ASSUME KeyboardInv, Key
    PROVE  KeyboardInv'
<1>1. at = "keys" /\ UNCHANGED <<joined, player_ids>>
  BY DEF Key, PlayerKey, StrangerKey, OtherKey, QuitKey, FlushKey, AtKeys, Act,
         Flush, Goto, engine, Engine!Play, Engine!Tick
<1>2. at' \in {"keys", "flush", "exit", "crash"}
  BY DEF Key, PlayerKey, StrangerKey, OtherKey, QuitKey, FlushKey, Flush, Goto
<1>3. QED BY <1>1, <1>2, KeyboardKept

(* Every step keeps the types and the keyboard.                              *)
LEMMA KeyboardNext ==
    ASSUME TerminalTypeOK, KeyboardInv, [Next]_vars
    PROVE  TerminalTypeOK' /\ KeyboardInv'
<1>1. CASE Open
  BY <1>1, KeyboardOpen
<1>2. ASSUME NEW p \in PlayerId, Join(p)
      PROVE  TerminalTypeOK' /\ KeyboardInv'
  BY <1>2, KeyboardJoin
<1>3. CASE AllKeysRead
  <2>1. TerminalTypeOK'
    BY <1>3, TypeFlush, TerminalAssumption DEF AllKeysRead, RoundEnds
  <2>2. at' \in {"flush", "loop"} /\ at = "keys" /\ UNCHANGED <<joined, player_ids>>
    BY <1>3 DEF AllKeysRead, RoundEnds, Flush, Goto, engine, Engine!Tick
  <2>3. QED BY <2>1, <2>2, KeyboardKept
<1>4. CASE Judge
  <2>1. /\ at = "flush" /\ at' = after_flush /\ status' \in {"WAIT_ACTION", "GAME_OVER"}
        /\ winners' \subseteq joined
        /\ UNCHANGED <<joined, alive, marks, round, player_ids, i, after_flush>>
    BY <1>4
    DEF Judge, Goto, Engine!NextRound, Engine!Survive, Engine!Decide,
        Engine!Leaders, TerminalTypeOK
  <2>2. TerminalTypeOK'
    BY <2>1 DEF TerminalTypeOK
  <2>3. at' \in {"keys", "loop"}
    BY <2>1 DEF TerminalTypeOK
  <2>4. QED BY <2>1, <2>2, <2>3, KeyboardKept
<1>5. CASE NextPass
  <2>1. TerminalTypeOK'
    BY <1>5 DEF NextPass, Goto, engine, TerminalTypeOK
  <2>2. QED BY <1>5, <2>1, KeyboardKept DEF NextPass, Goto, engine
<1>6. CASE MatchOver
  <2>1. /\ at' = "init" /\ joined' = {} /\ status' = "UNINIT"
        /\ alive' = {} /\ marks' = << >> /\ round' = 0 /\ winners' = {}
        /\ UNCHANGED <<player_ids, i, after_flush>>
    BY <1>6 DEF MatchOver, Engine!Close, Goto
  <2>2. TerminalTypeOK'
    BY <2>1, TerminalAssumption DEF TerminalTypeOK
  <2>3. QED BY <2>1, <2>2, FS_EmptySet DEF KeyboardInv
<1>7. CASE OpenFails
  <2>1. TerminalTypeOK'
    BY <1>7 DEF OpenFails, Goto, engine, TerminalTypeOK
  <2>2. QED BY <1>7, <2>1, KeyboardKept DEF OpenFails, Goto, engine
<1>8. CASE Key
  BY <1>8, TypeKey, KeyboardKey
<1>9. CASE Burn
  <2>1. TerminalTypeOK'
    BY <1>9 DEF Burn, Engine!Play, TerminalTypeOK
  <2>2. QED BY <1>9, <2>1, KeyboardKept DEF Burn, Engine!Play
<1>10. CASE UNCHANGED vars
  <2>1. TerminalTypeOK'
    BY <1>10 DEF vars, engine, TerminalTypeOK
  <2>2. QED BY <1>10, <2>1, KeyboardKept DEF vars, engine
<1>11. QED
  BY <1>1, <1>2, <1>3, <1>4, <1>5, <1>6, <1>7, <1>8, <1>9, <1>10 DEF Next, Run

(* The keyboard invariant holds from the start.                              *)
LEMMA KeyboardInit == Init => KeyboardInv
BY FS_EmptySet DEF Init, Engine!Init, KeyboardInv

(* The program is always where the engine expects it: it asks players to     *)
(* join only while the engine waits for them, and reads keys in a match.     *)
THEOREM TerminalTypeCorrect == Spec => []TerminalTypeOK
<1>1. TerminalTypeOK /\ KeyboardInv /\ [Next]_vars => TerminalTypeOK' /\ KeyboardInv'
  BY KeyboardNext
<1>2. QED BY <1>1, TypeInit, KeyboardInit, PTL DEF Spec

(* The keys of a match belong to its players, one entry for each: nothing of *)
(* an earlier match is left, for every number of matches and of players.     *)
THEOREM KeyboardCorrect == Spec => []KeyboardOfMatch
<1>1. TerminalTypeOK /\ KeyboardInv /\ [Next]_vars => TerminalTypeOK' /\ KeyboardInv'
  BY KeyboardNext
<1>2. KeyboardInv => KeyboardOfMatch
  BY DEF KeyboardInv, KeyboardOfMatch, Listed, OneEach
<1>3. QED BY <1>1, <1>2, TypeInit, KeyboardInit, PTL DEF Spec

=============================================================================
