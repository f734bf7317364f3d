--------------------------- MODULE GameLogProofs ----------------------------
(* The snapshot log of the engine, proved for every configuration: the log   *)
(* that is written is the log of the engine, replaying it shows the map, and *)
(* every entry agrees with what is on the screen when its turn comes.        *)
EXTENDS GameBoardProofs, GameLog, SequenceTheorems

-----------------------------------------------------------------------------
(* The engine that writes its log.                                           *)

(* Every step that writes a log is a step of the engine.                     *)
LEMMA LoggedNext ==
    ASSUME LogNext PROVE Next
<1>1. CASE Unlogged
  BY <1>1 DEF Unlogged, Next, Call, Continue
<1>2. CASE LoggedReset \/ LoggedFinishMove \/ LoggedExplode \/ LoggedFinishFlush
  BY <1>2 DEF LoggedReset, LoggedFinishMove, LoggedExplode, LoggedFinishFlush,
              Next, Call, Continue
<1>3. ASSUME NEW p \in PlayerId, LoggedAddPlayer(p)
      PROVE  Next
  BY <1>3 DEF LoggedAddPlayer, Next, Call
<1>4. ASSUME NEW p \in PlayerId, NEW b \in BombId, LoggedPlaceBomb(p, b)
      PROVE  Next
  BY <1>4 DEF LoggedPlaceBomb, Next, Call
<1>5. ASSUME NEW p \in PlayerId, NEW d \in Direction, LoggedMoveTo(p, d)
      PROVE  Next
  BY <1>5 DEF LoggedMoveTo, Next, Call
<1>6. ASSUME NEW b \in BombId, LoggedGlideBomb(b)
      PROVE  Next
  BY <1>6 DEF LoggedGlideBomb, Next, Continue
<1>7. QED BY <1>1, <1>2, <1>3, <1>4, <1>5, <1>6 DEF LogNext

(* The engine that writes its log is the engine: whatever holds of every     *)
(* behaviour of the one holds of the other.                                  *)
THEOREM LoggedEngine == LogSpec => Spec
<1>1. LogInit => Init
  BY DEF LogInit
<1>2. [LogNext]_<<vars, log_vars>> => [Next]_vars
  BY LoggedNext
<1>3. QED BY <1>1, <1>2, PTL DEF LogSpec, Spec

-----------------------------------------------------------------------------
(* Recursion over an interval.                                               *)

(* Steps from T to T, and what they make of t one after the other.           *)
Steps(n, T) == [1 .. n -> [T -> T]]
Runs(n, T, R, t) ==
    {f \in [0 .. n -> T] : f[0] = t /\ \A i \in 1 .. n : f[i] = R[i][f[i - 1]]}

(* A recursion over an interval has a solution.                              *)
LEMMA ChainExists ==
    ASSUME NEW T, NEW n \in Nat, NEW R \in Steps(n, T), NEW t \in T
    PROVE  Runs(n, T, R, t) # {}
<1> USE DEF Steps
<1> DEFINE Chain(f, m) == f[0] = t /\ \A i \in 1 .. m : f[i] = R[i][f[i - 1]]
           S == {m \in 0 .. n : \E f \in [0 .. m -> T] : Chain(f, m)}
<1>1. 0 \in S
  <2> DEFINE f == [i \in 0 .. 0 |-> t]
  <2>1. f \in [0 .. 0 -> T]
    OBVIOUS
  <2>2. Chain(f, 0)
    OBVIOUS
  <2> HIDE DEF Chain, f
  <2>3. QED BY <2>1, <2>2
<1>2. ASSUME NEW i \in 1 .. n, i - 1 \in S PROVE i \in S
  <2>1. PICK f \in [0 .. i - 1 -> T] : Chain(f, i - 1)
    <3> HIDE DEF Chain
    <3> QED BY <1>2
  <2> DEFINE g == [j \in 0 .. i |-> IF j = i THEN R[i][f[i - 1]] ELSE f[j]]
  <2>2. i - 1 \in 0 .. i - 1 /\ R[i] \in [T -> T]
    OBVIOUS
  <2>3. R[i][f[i - 1]] \in T
    BY <2>2
  <2>4. \A j \in 0 .. i : IF j = i THEN TRUE ELSE f[j] \in T
    OBVIOUS
  <2>5. g \in [0 .. i -> T]
    BY <2>3, <2>4
  <2>6. Chain(g, i)
    <3>1. g[0] = t
      BY <2>1
    <3>2. ASSUME NEW j \in 1 .. i PROVE g[j] = R[j][g[j - 1]]
      <4>1. j - 1 \in 0 .. i /\ j - 1 # i /\ g[j - 1] = f[j - 1]
        OBVIOUS
      <4>2. CASE j = i
        BY <4>1, <4>2
      <4>3. CASE j # i
        BY <2>1, <4>1, <4>3
      <4>4. QED BY <4>2, <4>3
    <3>3. QED BY <3>1, <3>2
  <2> HIDE DEF Chain, g
  <2>7. QED BY <2>5, <2>6
<1>3. n \in S
  <2> HIDE DEF S
  <2>1. \A i \in 0 .. n : i \in S
    BY <1>1, <1>2, UpTo
  <2>2. n \in 0 .. n
    OBVIOUS
  <2> QED BY <2>1, <2>2
<1>4. \E f \in [0 .. n -> T] : Chain(f, n)
  <2> HIDE DEF Chain
  <2> QED BY <1>3
<1>5. QED BY <1>4 DEF Runs

-----------------------------------------------------------------------------
(* Replaying entries.                                                        *)

(* An event happens in a cell.                                               *)
LEMMA EventPos ==
    ASSUME NEW e \in Event
    PROVE  e.pos \in Cell
BY DEF Event, PlayerEvent, PotionEvent, ObjectEvent

(* A cell remains one that can be shown.                                     *)
LEMMA ChangedArea ==
    ASSUME NEW e \in Event, NEW a \in Area
    PROVE  Change(e, a) \in Area
<1>1. CASE e \in PlayerEvent
  BY <1>1 DEF PlayerEvent, Change, Area
<1>2. CASE e \in PotionEvent
  BY <1>2 DEF PotionEvent, Change, Area, PotionType
<1>3. CASE e \in ObjectEvent
  BY <1>3 DEF ObjectEvent, Change, Area
<1>4. QED BY <1>1, <1>2, <1>3 DEF Event

(* The entry agrees with the screen it is applied to, or is one of the three *)
(* kinds that LogContract excepts.                                           *)
Fits(e, z) ==
    \/ ~IsEvent(e)
    \/ Consistent(e, z)
    \/ e.type = "PLAYER_DISAPPEAR" /\ e.player \in {ShownAs(p) : p \in gone}
    \/ e.type = "POTION_DISAPPEAR" /\ OpenFromStart(e.pos)
    \/ GlovesVanish(e, z)

(* Each of the entries does when its turn comes.                             *)
Fit(es, s) ==
    \A i \in 1 .. Len(es) : Fits(es[i], Replayed(SubSeq(es, 1, i - 1), s))

(* An event turns a screen into a screen.                                    *)
LEMMA AppliedScreen ==
    ASSUME NEW e \in Event, NEW s \in Screen
    PROVE  Applied(e, s) \in Screen
BY ChangedArea, EventPos DEF Applied, Screen

(* Replaying is applying the entries one after the other.                    *)
LEMMA ReplayedSteps ==
    ASSUME NEW es \in Seq(Event), NEW s \in Screen
    PROVE  \E f \in [0 .. Len(es) -> Screen] :
             /\ f[0] = s
             /\ \A i \in 1 .. Len(es) : f[i] = Applied(es[i], f[i - 1])
             /\ Replayed(es, s) = f[Len(es)]
<1>1. PICK n \in Nat : n = Len(es)
  OBVIOUS
<1> DEFINE R == [i \in 1 .. n |-> [z \in Screen |-> Applied(es[i], z)]]
           Eq(f) == f = [m \in 0 .. Len(es) |-> IF m = 0 THEN s ELSE Applied(es[m], f[m - 1])]
           shown == CHOOSE f : Eq(f)
<1>2. R \in Steps(n, Screen)
  <2>1. \A i \in 1 .. n : es[i] \in Event
    BY <1>1
  <2>2. \A i \in 1 .. n, z \in Screen : Applied(es[i], z) \in Screen
    BY <2>1, AppliedScreen
  <2>3. QED BY <2>2 DEF Steps
<1>3. PICK f \in [0 .. n -> Screen] : f[0] = s /\ \A i \in 1 .. n : f[i] = R[i][f[i - 1]]
  <2> HIDE DEF R
  <2>1. Runs(n, Screen, R, s) # {}
    BY <1>2, ChainExists
  <2>2. QED BY <2>1 DEF Runs
<1>4. \A i \in 1 .. n : f[i] = Applied(es[i], f[i - 1])
  <2>1. \A i \in 1 .. n : f[i - 1] \in Screen
    BY <1>3
  <2>2. QED BY <1>3, <2>1
<1>5. Eq(f)
  BY <1>1, <1>3, <1>4
<1>6. Eq(shown)
  <2> HIDE DEF Eq
  <2>1. QED BY <1>5
<1>7. Replayed(es, s) = shown[Len(es)]
  BY DEF Replayed
<1>8. shown[0] = s /\ \A i \in 1 .. n : shown[i] = Applied(es[i], shown[i - 1])
  <2> HIDE DEF shown
  <2>1. QED BY <1>1, <1>6
<1>9. \A i \in 0 .. n : f[i] = shown[i]
  <2> DEFINE S == {i \in 0 .. n : f[i] = shown[i]}
  <2> HIDE DEF shown
  <2>1. 0 \in S
    BY <1>3, <1>8
  <2>2. ASSUME NEW i \in 1 .. n, i - 1 \in S PROVE i \in S
    BY <1>4, <1>8, <2>2
  <2>3. \A i \in 0 .. n : i \in S
    <3> HIDE DEF S
    <3> QED BY <2>1, <2>2, UpTo
  <2>4. QED BY <2>3
<1>10. Replayed(es, s) = f[Len(es)]
  <2> HIDE DEF shown
  <2>1. QED BY <1>1, <1>7, <1>9
<1>11. QED BY <1>1, <1>3, <1>4, <1>10

(* Whatever screens follow from each other by the entries are those that     *)
(* replaying passes.                                                         *)
LEMMA ReplayedBy ==
    ASSUME NEW es \in Seq(Event), NEW s \in Screen, NEW f, f[0] = s,
           \A i \in 1 .. Len(es) : f[i] = Applied(es[i], f[i - 1])
    PROVE  Replayed(es, s) = f[Len(es)]
<1>1. PICK n \in Nat : n = Len(es)
  OBVIOUS
<1>2. PICK g : /\ g[0] = s
               /\ \A i \in 1 .. n : g[i] = Applied(es[i], g[i - 1])
               /\ Replayed(es, s) = g[n]
  BY <1>1, ReplayedSteps
<1> DEFINE S == {i \in 0 .. n : f[i] = g[i]}
<1>3. 0 \in S
  BY <1>2
<1>4. ASSUME NEW i \in 1 .. n, i - 1 \in S PROVE i \in S
  BY <1>1, <1>2, <1>4
<1>5. \A i \in 0 .. n : i \in S
  <2> HIDE DEF S
  <2>1. QED BY <1>3, <1>4, UpTo
<1>6. n \in 0 .. n
  OBVIOUS
<1>7. QED BY <1>1, <1>2, <1>5, <1>6

(* The first entries of a sequence.                                          *)
LEMMA Prefix ==
    ASSUME NEW T, NEW es \in Seq(T), NEW k \in 0 .. Len(es)
    PROVE  /\ SubSeq(es, 1, k) \in Seq(T)
           /\ Len(SubSeq(es, 1, k)) = k
           /\ \A j \in 1 .. k : SubSeq(es, 1, k)[j] = es[j]
OBVIOUS

(* The screens that replaying passes are those the entries are checked       *)
(* against.                                                                  *)
LEMMA FitBy ==
    ASSUME NEW es \in Seq(Event), NEW s \in Screen, NEW f, f[0] = s,
           \A i \in 1 .. Len(es) : f[i] = Applied(es[i], f[i - 1])
    PROVE  Fit(es, s) <=> \A i \in 1 .. Len(es) : Fits(es[i], f[i - 1])
<1>1. ASSUME NEW i \in 1 .. Len(es)
      PROVE  Replayed(SubSeq(es, 1, i - 1), s) = f[i - 1]
  <2>1. i - 1 \in 0 .. Len(es)
    OBVIOUS
  <2>2. PICK p \in Seq(Event) : /\ p = SubSeq(es, 1, i - 1)
                                /\ Len(p) = i - 1
                                /\ \A j \in 1 .. i - 1 : p[j] = es[j]
    <3>1. /\ SubSeq(es, 1, i - 1) \in Seq(Event)
          /\ Len(SubSeq(es, 1, i - 1)) = i - 1
          /\ \A j \in 1 .. i - 1 : SubSeq(es, 1, i - 1)[j] = es[j]
      BY <2>1, Prefix
    <3>2. QED BY <3>1
  <2>3. \A j \in 1 .. Len(p) : j \in 1 .. Len(es)
    BY <2>2
  <2>4. \A j \in 1 .. Len(p) : f[j] = Applied(p[j], f[j - 1])
    BY <2>2, <2>3
  <2>5. Replayed(p, s) = f[Len(p)]
    BY <2>4, ReplayedBy
  <2>6. QED BY <2>2, <2>5
<1>2. QED BY <1>1 DEF Fit

(* A screen remains a screen, and without entries the same one.              *)
LEMMA ReplayedScreen ==
    ASSUME NEW es \in Seq(Event), NEW s \in Screen
    PROVE  /\ Replayed(es, s) \in Screen
           /\ es = << >> => Replayed(es, s) = s /\ Fit(es, s)
<1>1. PICK f \in [0 .. Len(es) -> Screen] : f[0] = s /\ Replayed(es, s) = f[Len(es)]
  BY ReplayedSteps
<1>2. Len(es) \in 0 .. Len(es)
  OBVIOUS
<1>3. es = << >> => Fit(es, s)
  BY DEF Fit
<1>4. QED BY <1>1, <1>2, <1>3

(* One entry more.                                                           *)
LEMMA ReplayedOne ==
    ASSUME NEW e \in Event, NEW s \in Screen
    PROVE  /\ <<e>> \in Seq(Event) /\ Replayed(<<e>>, s) = Applied(e, s)
           /\ Fits(e, s) => Fit(<<e>>, s)
<1> DEFINE f == [i \in 0 .. 1 |-> IF i = 0 THEN s ELSE Applied(e, s)]
<1>1. <<e>> \in Seq(Event) /\ Len(<<e>>) = 1 /\ <<e>>[1] = e
  OBVIOUS
<1>2. f[0] = s /\ f[1] = Applied(e, s)
  OBVIOUS
<1>3. \A i \in 1 .. Len(<<e>>) : f[i] = Applied(<<e>>[i], f[i - 1])
  BY <1>1, <1>2
<1>4. Replayed(<<e>>, s) = f[Len(<<e>>)]
  <2> HIDE DEF f
  <2>1. QED BY <1>1, <1>2, <1>3, ReplayedBy
<1>5. Fits(e, s) => Fit(<<e>>, s)
  <2> HIDE DEF f
  <2>1. Fit(<<e>>, s) <=> \A i \in 1 .. Len(<<e>>) : Fits(<<e>>[i], f[i - 1])
    BY <1>1, <1>2, <1>3, FitBy
  <2>2. \A i \in 1 .. Len(<<e>>) : <<e>>[i] = e /\ f[i - 1] = s
    BY <1>1, <1>2
  <2>3. QED BY <2>1, <2>2
<1>6. QED BY <1>1, <1>2, <1>4, <1>5

(* Entries after entries, with what holds of them.                           *)
LEMMA EntriesConcat ==
    ASSUME NEW a \in Seq(Event), NEW b \in Seq(Event), NEW s \in Screen
    PROVE  /\ a \o b \in Seq(Event)
           /\ Replayed(a \o b, s) = Replayed(b, Replayed(a, s))
           /\ Fit(a, s) /\ Fit(b, Replayed(a, s)) => Fit(a \o b, s)
<1>1. PICK m \in Nat, n \in Nat : m = Len(a) /\ n = Len(b)
  OBVIOUS
<1>2. PICK f : /\ f[0] = s
               /\ \A i \in 1 .. m : f[i] = Applied(a[i], f[i - 1])
               /\ Replayed(a, s) = f[m]
  BY <1>1, ReplayedSteps
<1>3. PICK z \in Screen : z = Replayed(a, s)
  BY ReplayedScreen
<1>4. PICK g : /\ g[0] = z
               /\ \A i \in 1 .. n : g[i] = Applied(b[i], g[i - 1])
               /\ Replayed(b, z) = g[n]
  <2>1. PICK g \in [0 .. Len(b) -> Screen] :
          /\ g[0] = z
          /\ \A i \in 1 .. Len(b) : g[i] = Applied(b[i], g[i - 1])
          /\ Replayed(b, z) = g[Len(b)]
    BY ReplayedSteps
  <2>2. QED BY <1>1, <2>1
<1> DEFINE h == [i \in 0 .. m + n |-> IF i <= m THEN f[i] ELSE g[i - m]]
<1>5. /\ a \o b \in Seq(Event) /\ Len(a \o b) = m + n
      /\ \A i \in 1 .. m + n : (a \o b)[i] = IF i <= m THEN a[i] ELSE b[i - m]
  BY <1>1
<1>6. h[0] = s /\ h[m + n] = g[n]
  <2>1. CASE n = 0
    BY <1>2, <1>3, <1>4, <2>1
  <2>2. CASE n # 0
    BY <1>2, <1>4, <2>2
  <2>3. QED BY <2>1, <2>2
<1>7. ASSUME NEW i \in 1 .. m + n
      PROVE  h[i] = Applied((a \o b)[i], h[i - 1])
  <2>1. CASE i <= m
    <3>1. h[i] = f[i] /\ h[i - 1] = f[i - 1] /\ (a \o b)[i] = a[i]
      BY <1>5, <2>1
    <3>2. QED BY <1>2, <2>1, <3>1
  <2>2. CASE i = m + 1
    <3>1. 1 \in 1 .. n /\ i - m = 1 /\ i - 1 = m /\ m \in 0 .. m + n
      BY <2>2
    <3>2. h[i] = g[1] /\ h[m] = f[m]
      <4>1. h[m] = f[m]
        BY <3>1
      <4>2. i \in 0 .. m + n /\ ~(i <= m)
        BY <2>2
      <4>3. h[i] = g[i - m]
        BY <4>2
      <4>4. QED BY <3>1, <4>1, <4>3
    <3>5. (a \o b)[i] = b[1]
      BY <1>5, <2>2, <3>1
    <3>3. g[1] = Applied(b[1], g[0]) /\ g[0] = f[m]
      BY <1>2, <1>3, <1>4, <3>1
    <3>4. QED BY <3>1, <3>2, <3>3, <3>5
  <2>3. CASE i > m + 1
    <3>1. i - m \in 1 .. n /\ (i - 1) - m = (i - m) - 1
      BY <2>3
    <3>2. h[i] = g[i - m] /\ h[i - 1] = g[(i - m) - 1] /\ (a \o b)[i] = b[i - m]
      BY <1>5, <2>3, <3>1
    <3>3. QED BY <1>4, <3>1, <3>2
  <2>4. i <= m \/ i = m + 1 \/ i > m + 1
    OBVIOUS
  <2>5. QED BY <2>1, <2>2, <2>3, <2>4
<1>8. Replayed(a \o b, s) = h[m + n]
  <2> HIDE DEF h
  <2>1. PICK c \in Seq(Event) : c = a \o b
    BY <1>5
  <2>2. Len(c) = m + n /\ \A i \in 1 .. Len(c) : h[i] = Applied(c[i], h[i - 1])
    BY <1>5, <1>7, <2>1
  <2>3. Replayed(c, s) = h[Len(c)]
    BY <1>6, <2>2, ReplayedBy
  <2>4. QED BY <2>1, <2>2, <2>3
<1>9. ASSUME Fit(a, s), Fit(b, z) PROVE Fit(a \o b, s)
  <2>1. \A i \in 1 .. m : Fits(a[i], f[i - 1])
    BY <1>1, <1>2, <1>9, FitBy
  <2>2. \A i \in 1 .. n : Fits(b[i], g[i - 1])
    BY <1>1, <1>4, <1>9, FitBy
  <2>3. \A i \in 0 .. m + n : h[i] = IF i <= m THEN f[i] ELSE g[i - m]
    OBVIOUS
  <2>4. PICK c \in Seq(Event) : c = a \o b
    BY <1>5
  <2>5. Len(c) = m + n /\ \A i \in 1 .. m + n : c[i] = IF i <= m THEN a[i] ELSE b[i - m]
    BY <1>5, <2>4
  <2>6. \A i \in 1 .. m + n : h[i] = Applied(c[i], h[i - 1])
    BY <1>7, <2>4
  <2> HIDE DEF h
  <2>7. ASSUME NEW i \in 1 .. m + n PROVE Fits(c[i], h[i - 1])
    <3>1. i - 1 \in 0 .. m + n
      OBVIOUS
    <3>2. CASE i <= m
      <4>1. h[i - 1] = f[i - 1] /\ c[i] = a[i] /\ i \in 1 .. m
        BY <2>3, <2>5, <3>1, <3>2
      <4>2. QED BY <2>1, <4>1
    <3>3. CASE i > m
      <4>1. PICK j \in 1 .. n : j = i - m
        BY <3>3
      <4>2. c[i] = b[j]
        BY <2>5, <3>3, <4>1
      <4>3. h[i - 1] = g[j - 1]
        <5>1. CASE i = m + 1
          <6>1. i - 1 = m /\ j - 1 = 0 /\ h[m] = f[m]
            BY <2>3, <3>1, <4>1, <5>1
          <6>2. f[m] = g[0]
            BY <1>2, <1>3, <1>4
          <6>3. QED BY <6>1, <6>2
        <5>2. CASE i > m + 1
          <6>1. (i - 1) - m = j - 1 /\ ~(i - 1 <= m)
            BY <4>1, <5>2
          <6>2. QED BY <2>3, <3>1, <6>1
        <5>3. QED BY <3>3, <5>1, <5>2
      <4>4. Fits(b[j], g[j - 1])
        BY <2>2
      <4>5. QED BY <4>2, <4>3, <4>4
    <3>4. QED BY <3>2, <3>3
  <2>8. Fit(c, s)
    BY <1>6, <2>5, <2>6, <2>7, FitBy
  <2>9. QED BY <2>4, <2>8
<1>10. QED BY <1>3, <1>4, <1>5, <1>6, <1>8, <1>9

(* Entries after entries.                                                    *)
LEMMA ReplayedConcat ==
    ASSUME NEW a \in Seq(Event), NEW b \in Seq(Event), NEW s \in Screen
    PROVE  /\ a \o b \in Seq(Event)
           /\ Replayed(a \o b, s) = Replayed(b, Replayed(a, s))
BY EntriesConcat

(* Entries that fit the screen they are applied to, after others that do.    *)
LEMMA FitConcat ==
    ASSUME NEW a \in Seq(Event), NEW b \in Seq(Event), NEW s \in Screen,
           Fit(a, s), Fit(b, Replayed(a, s))
    PROVE  Fit(a \o b, s)
BY EntriesConcat

(* One entry after the other.                                                *)
LEMMA ReplayedTwo ==
    ASSUME NEW v \in Event, NEW w \in Event, NEW s \in Screen
    PROVE  /\ <<v, w>> \in Seq(Event)
           /\ Replayed(<<v, w>>, s) = Applied(w, Applied(v, s))
           /\ Applied(v, s) \in Screen
           /\ Replayed(<<v, w>>, s) \in Screen
           /\ Fits(v, s) /\ Fits(w, Applied(v, s)) => Fit(<<v, w>>, s)
<1> DEFINE f == [i \in 0 .. 2 |-> IF i = 0 THEN s ELSE IF i = 1 THEN Applied(v, s)
                                 ELSE Applied(w, Applied(v, s))]
<1>1. /\ <<v, w>> \in Seq(Event) /\ Len(<<v, w>>) = 2
      /\ <<v, w>>[1] = v /\ <<v, w>>[2] = w
  OBVIOUS
<1>2. f[0] = s /\ f[1] = Applied(v, s) /\ f[2] = Applied(w, Applied(v, s))
  OBVIOUS
<1>3. \A i \in 1 .. Len(<<v, w>>) : f[i] = Applied(<<v, w>>[i], f[i - 1])
  <2>1. \A i \in 1 .. Len(<<v, w>>) : i = 1 \/ i = 2
    BY <1>1
  <2>2. 1 - 1 = 0 /\ 2 - 1 = 1
    OBVIOUS
  <2> HIDE DEF f
  <2>3. QED BY <1>1, <1>2, <2>1, <2>2
<1>4. Replayed(<<v, w>>, s) = f[Len(<<v, w>>)]
  <2> HIDE DEF f
  <2>1. QED BY <1>1, <1>2, <1>3, ReplayedBy
<1>5. PICK z \in Screen : z = Applied(v, s)
  BY AppliedScreen
<1>6. Applied(w, z) \in Screen
  BY AppliedScreen
<1> HIDE DEF f
<1>7. Fits(v, s) /\ Fits(w, Applied(v, s)) => Fit(<<v, w>>, s)
  <2>1. Fit(<<v, w>>, s) <=> \A i \in 1 .. Len(<<v, w>>) : Fits(<<v, w>>[i], f[i - 1])
    BY <1>1, <1>2, <1>3, FitBy
  <2>2. \A i \in 1 .. Len(<<v, w>>) : i = 1 \/ i = 2
    BY <1>1
  <2>3. 1 - 1 = 0 /\ 2 - 1 = 1
    OBVIOUS
  <2>4. QED BY <1>1, <1>2, <2>1, <2>2, <2>3
<1>8. QED BY <1>1, <1>2, <1>4, <1>5, <1>6, <1>7

(* Flattening puts the parts one behind the other.                           *)
LEMMA FlattenSteps ==
    ASSUME NEW T, NEW parts \in Seq(Seq(T))
    PROVE  \E f \in [0 .. Len(parts) -> Seq(T)] :
             /\ f[0] = << >>
             /\ \A i \in 1 .. Len(parts) : f[i] = f[i - 1] \o parts[i]
             /\ FlattenSeq(parts) = f[Len(parts)]
<1>1. PICK n \in Nat : n = Len(parts)
  OBVIOUS
<1>2. PICK words : words = Seq(T)
  OBVIOUS
<1> DEFINE R == [i \in 1 .. n |-> [w \in words |-> w \o parts[i]]]
<1>3. \A i \in 1 .. n : parts[i] \in Seq(T)
  BY <1>1
<1>4. R \in Steps(n, words)
  <2>1. \A i \in 1 .. n, w \in words : w \o parts[i] \in words
    BY <1>2, <1>3
  <2>2. QED BY <2>1 DEF Steps
<1>5. << >> \in words
  BY <1>2
<1>6. PICK f \in [0 .. n -> words] : f[0] = << >> /\ \A i \in 1 .. n : f[i] = R[i][f[i - 1]]
  <2> HIDE DEF R
  <2>1. PICK e \in words : e = << >>
    BY <1>5
  <2>2. Runs(n, words, R, e) # {}
    BY <1>4, ChainExists
  <2>3. QED BY <2>1, <2>2 DEF Runs
<1>7. \A i \in 1 .. n : f[i] = f[i - 1] \o parts[i]
  <2>1. \A i \in 1 .. n : f[i - 1] \in words
    BY <1>6
  <2>2. QED BY <1>6, <2>1
<1>8. FlattenSeq(parts) = f[n]
  <2>1. CASE n = 0
    <3>1. parts = << >>
      BY <1>1, <2>1, EmptySeq
    <3>2. FlattenSeq(parts) = parts
      BY <1>1, <2>1 DEF FlattenSeq
    <3>3. QED BY <1>6, <2>1, <3>1, <3>2
  <2>2. CASE n # 0
    <3> DEFINE Eq(g) == g = [i \in 1 .. Len(parts) |->
                              IF i = 1 THEN parts[i] ELSE g[i - 1] \o parts[i]]
               flatten == CHOOSE g : Eq(g)
               h == [i \in 1 .. n |-> f[i]]
    <3>1. Eq(h)
      <4>1. f[1] = parts[1]
        <5>1. 1 \in 1 .. n /\ 1 - 1 = 0
          BY <2>2
        <5>2. f[1] = << >> \o parts[1] /\ parts[1] \in Seq(T)
          BY <1>3, <1>6, <1>7, <5>1
        <5>3. QED BY <5>2, ConcatEmptySeq
      <4>2. ASSUME NEW i \in 1 .. n, i # 1 PROVE h[i] = h[i - 1] \o parts[i]
        <5>1. i - 1 \in 1 .. n /\ i \in 1 .. n
          BY <4>2
        <5>2. QED BY <1>7, <5>1
      <4>3. \A i \in 1 .. n : h[i] = IF i = 1 THEN parts[i] ELSE h[i - 1] \o parts[i]
        BY <4>1, <4>2
      <4>4. h = [i \in 1 .. n |-> h[i]]
        OBVIOUS
      <4> HIDE DEF h
      <4>5. QED BY <1>1, <4>3, <4>4
    <3>2. Eq(flatten)
      <4> HIDE DEF Eq
      <4>1. QED BY <3>1
    <3>3. FlattenSeq(parts) = flatten[Len(parts)]
      BY <1>1, <2>2 DEF FlattenSeq
    <3>4. \A i \in 1 .. n : flatten[i] = IF i = 1 THEN parts[i] ELSE flatten[i - 1] \o parts[i]
      <4> HIDE DEF flatten
      <4>1. QED BY <1>1, <3>2
    <3>5. \A i \in 0 .. n : i \in {j \in 0 .. n : j # 0 => f[j] = flatten[j]}
      <4> DEFINE S == {j \in 0 .. n : j # 0 => f[j] = flatten[j]}
      <4> HIDE DEF flatten
      <4>1. 0 \in S
        OBVIOUS
      <4>2. ASSUME NEW i \in 1 .. n, i - 1 \in S PROVE i \in S
        <5>1. CASE i = 1
          <6>1. 1 \in 1 .. n /\ 1 - 1 = 0
            BY <5>1
          <6>2. f[1] = << >> \o parts[1] /\ parts[1] \in Seq(T)
            BY <1>3, <1>6, <1>7, <6>1
          <6>3. f[1] = parts[1] /\ flatten[1] = parts[1]
            BY <3>4, <6>1, <6>2, ConcatEmptySeq
          <6>4. QED BY <5>1, <6>1, <6>3
        <5>2. CASE i # 1
          <6>1. f[i - 1] = flatten[i - 1]
            BY <4>2, <5>2
          <6>2. f[i] = f[i - 1] \o parts[i] /\ flatten[i] = flatten[i - 1] \o parts[i]
            BY <1>7, <3>4, <5>2
          <6>3. f[i] = flatten[i]
            BY <6>1, <6>2
          <6>4. QED BY <6>3
        <5>3. QED BY <5>1, <5>2
      <4>3. \A i \in 0 .. n : i \in S
        <5> HIDE DEF S
        <5>1. QED BY <4>1, <4>2, UpTo
      <4>4. QED BY <4>3
    <3> HIDE DEF flatten
    <3>6. n \in 0 .. n
      OBVIOUS
    <3>7. QED BY <1>1, <2>2, <3>3, <3>5, <3>6
  <2>3. QED BY <2>1, <2>2
<1>9. QED BY <1>1, <1>2, <1>6, <1>7, <1>8

(* Flattened entries are replayed part by part.                              *)
LEMMA ReplayedFlat ==
    ASSUME NEW parts \in Seq(Seq(Event)), NEW s \in Screen, NEW g, g[0] = s,
           \A i \in 1 .. Len(parts) : g[i] = Replayed(parts[i], g[i - 1])
    PROVE  /\ FlattenSeq(parts) \in Seq(Event)
           /\ Replayed(FlattenSeq(parts), s) = g[Len(parts)]
           /\ (\A i \in 1 .. Len(parts) : Fit(parts[i], g[i - 1])) =>
                Fit(FlattenSeq(parts), s)
<1>1. PICK n \in Nat : n = Len(parts)
  OBVIOUS
<1>2. PICK f : /\ \A i \in 0 .. n : f[i] \in Seq(Event)
               /\ f[0] = << >>
               /\ \A i \in 1 .. n : f[i] = f[i - 1] \o parts[i]
               /\ FlattenSeq(parts) = f[n]
  <2>1. PICK f \in [0 .. Len(parts) -> Seq(Event)] :
             /\ f[0] = << >>
             /\ \A i \in 1 .. Len(parts) : f[i] = f[i - 1] \o parts[i]
             /\ FlattenSeq(parts) = f[Len(parts)]
    BY FlattenSteps
  <2>2. QED BY <1>1, <2>1
<1> DEFINE S == {i \in 0 .. n : Replayed(f[i], s) = g[i]}
<1>3. 0 \in S
  <2>1. PICK e \in Seq(Event) : e = << >>
    BY EmptySeq
  <2>2. Replayed(e, s) = s
    BY <2>1, ReplayedScreen
  <2>3. QED BY <1>2, <2>1, <2>2
<1>4. ASSUME NEW i \in 1 .. n, i - 1 \in S PROVE i \in S
  <2>1. PICK a \in Seq(Event), b \in Seq(Event) : a = f[i - 1] /\ b = parts[i]
    BY <1>1, <1>2
  <2>2. Replayed(a \o b, s) = Replayed(b, Replayed(a, s))
    BY ReplayedConcat
  <2>3. Replayed(a, s) = g[i - 1]
    BY <1>4, <2>1
  <2>4. f[i] = a \o b /\ g[i] = Replayed(b, g[i - 1])
    BY <1>1, <1>2, <2>1
  <2>5. Replayed(f[i], s) = g[i]
    BY <2>2, <2>3, <2>4
  <2>6. QED BY <2>5
<1>5. \A i \in 0 .. n : i \in S
  <2> HIDE DEF S
  <2>1. QED BY <1>3, <1>4, UpTo
<1>6. n \in 0 .. n
  OBVIOUS
<1>7. ASSUME \A i \in 1 .. n : Fit(parts[i], g[i - 1])
      PROVE  Fit(FlattenSeq(parts), s)
  <2> DEFINE U == {i \in 0 .. n : Fit(f[i], s)}
  <2>1. 0 \in U
    <3>1. PICK e \in Seq(Event) : e = << >>
      BY EmptySeq
    <3>2. Fit(e, s)
      BY <3>1, ReplayedScreen
    <3>3. QED BY <1>2, <3>1, <3>2
  <2>2. ASSUME NEW i \in 1 .. n, i - 1 \in U PROVE i \in U
    <3>1. PICK a \in Seq(Event), b \in Seq(Event) : a = f[i - 1] /\ b = parts[i]
      BY <1>1, <1>2
    <3>2. Fit(a, s) /\ Fit(b, Replayed(a, s)) => Fit(a \o b, s)
      BY FitConcat
    <3>3. Replayed(a, s) = g[i - 1]
      BY <1>5, <3>1
    <3>4. f[i] = a \o b
      BY <1>2, <3>1
    <3>5. Fit(a, s)
      BY <2>2, <3>1
    <3>6. Fit(b, Replayed(a, s))
      BY <1>7, <3>1, <3>3
    <3>7. Fit(f[i], s)
      BY <3>2, <3>4, <3>5, <3>6
    <3>8. QED BY <3>7
  <2>3. \A i \in 0 .. n : i \in U
    <3> HIDE DEF U
    <3>1. QED BY <2>1, <2>2, UpTo
  <2>4. QED BY <1>2, <1>6, <2>3
<1>8. QED BY <1>1, <1>2, <1>5, <1>6, <1>7

(* A finite set is enumerated without omission or repetition.                *)
LEMMA Enumerated ==
    ASSUME NEW S, IsFiniteSet(S)
    PROVE  /\ SetToSeq(S) \in Seq(S)
           /\ Len(SetToSeq(S)) = Cardinality(S)
           /\ \A x \in S : \E i \in 1 .. Cardinality(S) : SetToSeq(S)[i] = x
           /\ \A i, j \in 1 .. Cardinality(S) : SetToSeq(S)[i] = SetToSeq(S)[j] => i = j
<1>1. PICK n \in Nat : n = Cardinality(S) /\ ExistsBijection(1 .. n, S)
  BY FS_CardinalityType
<1>2. \E f \in [1 .. n -> S] : IsInjective(f)
  BY <1>1 DEF ExistsBijection, Bijection, Injection
<1>3. SetToSeq(S) \in [1 .. n -> S] /\ IsInjective(SetToSeq(S))
  BY <1>1, <1>2 DEF SetToSeq
<1>4. PICK q \in Injection(1 .. n, S) : q = SetToSeq(S)
  BY <1>3 DEF Injection
<1>5. IsFiniteSet(1 .. n) /\ Cardinality(1 .. n) = n
  BY FS_Interval
<1>6. q \in Surjection(1 .. n, S)
  BY <1>1, <1>5, FS_Injection
<1>7. q \in [1 .. n -> S] /\ DOMAIN q = 1 .. n
  BY <1>3, <1>4
<1>8. q \in Seq(S) /\ Len(q) = n
  BY <1>7
<1>9. \A x \in S : \E i \in 1 .. n : q[i] = x
  BY <1>6 DEF Surjection
<1>10. \A i, j \in 1 .. n : q[i] = q[j] => i = j
  BY <1>3, <1>4, <1>7 DEF IsInjective
<1>11. QED BY <1>1, <1>4, <1>8, <1>9, <1>10

-----------------------------------------------------------------------------
(* What the entries of the engine do to a screen.                            *)

(* An entry changes its own cell and no other.                               *)
LEMMA AppliedCell ==
    ASSUME NEW e \in Event, NEW s \in Screen, NEW c \in Cell
    PROVE  Applied(e, s)[c] = IF c = e.pos THEN Change(e, s[c]) ELSE s[c]
BY EventPos DEF Applied, Screen

(* A bomb appears.                                                           *)
LEMMA BombAppears ==
    ASSUME NEW pos \in Cell
    PROVE  /\ At("BOMB_APPEAR", pos) \in Event
           /\ \A s \in Screen, c \in Cell :
                Applied(At("BOMB_APPEAR", pos), s)[c] =
                  IF c = pos THEN [s[c] EXCEPT !.bomb = TRUE] ELSE s[c]
           /\ \A s \in Screen :
                ~s[pos].bomb => Fits(At("BOMB_APPEAR", pos), s)
<1>1. PICK e : e = At("BOMB_APPEAR", pos)
  OBVIOUS
<1>2. /\ e \in Event /\ IsEvent(e)
      /\ e.pos = pos /\ e.type = "BOMB_APPEAR"
  BY <1>1 DEF At, Event, ObjectEvent, IsEvent
<1>3. \A s \in Screen, c \in Cell :
        Applied(e, s)[c] = IF c = pos THEN Change(e, s[c]) ELSE s[c]
  BY <1>2, AppliedCell
<1>4. \A s \in Screen, c \in Cell : Change(e, s[c]) = [s[c] EXCEPT !.bomb = TRUE]
  BY <1>2 DEF Change
<1>5. \A s \in Screen : ~s[pos].bomb => Fits(e, s)
  BY <1>2 DEF Fits, Consistent
<1>6. QED BY <1>1, <1>2, <1>3, <1>4, <1>5

(* A bomb disappears.                                                        *)
LEMMA BombDisappears ==
    ASSUME NEW pos \in Cell
    PROVE  /\ At("BOMB_DISAPPEAR", pos) \in Event
           /\ \A s \in Screen, c \in Cell :
                Applied(At("BOMB_DISAPPEAR", pos), s)[c] =
                  IF c = pos THEN [s[c] EXCEPT !.bomb = FALSE] ELSE s[c]
           /\ \A s \in Screen :
                s[pos].bomb => Fits(At("BOMB_DISAPPEAR", pos), s)
<1>1. PICK e : e = At("BOMB_DISAPPEAR", pos)
  OBVIOUS
<1>2. /\ e \in Event /\ IsEvent(e)
      /\ e.pos = pos /\ e.type = "BOMB_DISAPPEAR"
  BY <1>1 DEF At, Event, ObjectEvent, IsEvent
<1>3. \A s \in Screen, c \in Cell :
        Applied(e, s)[c] = IF c = pos THEN Change(e, s[c]) ELSE s[c]
  BY <1>2, AppliedCell
<1>4. \A s \in Screen, c \in Cell : Change(e, s[c]) = [s[c] EXCEPT !.bomb = FALSE]
  BY <1>2 DEF Change
<1>5. \A s \in Screen : s[pos].bomb => Fits(e, s)
  BY <1>2 DEF Fits, Consistent
<1>6. QED BY <1>1, <1>2, <1>3, <1>4, <1>5

(* A block disappears.                                                       *)
LEMMA BlockDisappears ==
    ASSUME NEW pos \in Cell
    PROVE  /\ At("BLOCK_DISAPPEAR", pos) \in Event
           /\ \A s \in Screen, c \in Cell :
                Applied(At("BLOCK_DISAPPEAR", pos), s)[c] =
                  IF c = pos THEN [s[c] EXCEPT !.block = FALSE] ELSE s[c]
           /\ \A s \in Screen :
                s[pos].block => Fits(At("BLOCK_DISAPPEAR", pos), s)
<1>1. PICK e : e = At("BLOCK_DISAPPEAR", pos)
  OBVIOUS
<1>2. /\ e \in Event /\ IsEvent(e)
      /\ e.pos = pos /\ e.type = "BLOCK_DISAPPEAR"
  BY <1>1 DEF At, Event, ObjectEvent, IsEvent
<1>3. \A s \in Screen, c \in Cell :
        Applied(e, s)[c] = IF c = pos THEN Change(e, s[c]) ELSE s[c]
  BY <1>2, AppliedCell
<1>4. \A s \in Screen, c \in Cell : Change(e, s[c]) = [s[c] EXCEPT !.block = FALSE]
  BY <1>2 DEF Change
<1>5. \A s \in Screen : s[pos].block => Fits(e, s)
  BY <1>2 DEF Fits, Consistent
<1>6. QED BY <1>1, <1>2, <1>3, <1>4, <1>5

(* The end of a round shows nothing.                                         *)
LEMMA FlushShows ==
    ASSUME NEW pos \in Cell
    PROVE  /\ At("FLUSH", pos) \in Event
           /\ \A s \in Screen : Applied(At("FLUSH", pos), s) = s
           /\ \A s \in Screen : Fits(At("FLUSH", pos), s)
<1>1. PICK e : e = At("FLUSH", pos)
  OBVIOUS
<1>2. e \in Event /\ IsEvent(e) /\ e.pos = pos /\ e.type = "FLUSH"
  BY <1>1 DEF At, Event, ObjectEvent, IsEvent
<1>3. ASSUME NEW s \in Screen PROVE Applied(e, s) = s
  <2>1. Change(e, s[pos]) = s[pos]
    BY <1>2 DEF Change
  <2>2. QED BY <1>2, <2>1 DEF Applied, Screen
<1>4. \A s \in Screen : Fits(e, s)
  BY <1>2 DEF Fits, Consistent
<1>5. QED BY <1>1, <1>2, <1>3, <1>4

(* A potion appears.                                                         *)
LEMMA PotionAppears ==
    ASSUME NEW t \in PotionType, NEW pos \in Cell
    PROVE  /\ PotionAt("POTION_APPEAR", t, pos) \in Event
           /\ \A s \in Screen, c \in Cell :
                Applied(PotionAt("POTION_APPEAR", t, pos), s)[c] =
                  IF c = pos THEN [s[c] EXCEPT !.potion = t] ELSE s[c]
           /\ \A s \in Screen :
                s[pos].potion = NoPotion => Fits(PotionAt("POTION_APPEAR", t, pos), s)
<1>1. PICK e : e = PotionAt("POTION_APPEAR", t, pos)
  OBVIOUS
<1>2. /\ e \in Event /\ IsEvent(e)
      /\ e.pos = pos /\ e.type = "POTION_APPEAR" /\ e.potion = t
  BY <1>1 DEF PotionAt, Event, PotionEvent, IsEvent
<1>3. \A s \in Screen, c \in Cell :
        Applied(e, s)[c] = IF c = pos THEN Change(e, s[c]) ELSE s[c]
  BY <1>2, AppliedCell
<1>4. \A s \in Screen, c \in Cell : Change(e, s[c]) = [s[c] EXCEPT !.potion = t]
  BY <1>2 DEF Change
<1>5. \A s \in Screen : s[pos].potion = NoPotion => Fits(e, s)
  BY <1>2 DEF Fits, Consistent
<1>6. QED BY <1>1, <1>2, <1>3, <1>4, <1>5

(* A potion disappears.                                                      *)
LEMMA PotionDisappears ==
    ASSUME NEW t \in PotionType, NEW pos \in Cell
    PROVE  /\ PotionAt("POTION_DISAPPEAR", t, pos) \in Event
           /\ \A s \in Screen, c \in Cell :
                Applied(PotionAt("POTION_DISAPPEAR", t, pos), s)[c] =
                  IF c = pos THEN [s[c] EXCEPT !.potion = NoPotion] ELSE s[c]
           /\ \A s \in Screen :
                \/ s[pos].potion = t
                \/ s[pos].potion = "GLOVES" /\ t = "INVINCIBLE"
                \/ OpenFromStart(pos)
                => Fits(PotionAt("POTION_DISAPPEAR", t, pos), s)
<1>1. PICK e : e = PotionAt("POTION_DISAPPEAR", t, pos)
  OBVIOUS
<1>2. /\ e \in Event /\ IsEvent(e)
      /\ e.pos = pos /\ e.type = "POTION_DISAPPEAR" /\ e.potion = t
  BY <1>1 DEF PotionAt, Event, PotionEvent, IsEvent
<1>3. \A s \in Screen, c \in Cell :
        Applied(e, s)[c] = IF c = pos THEN Change(e, s[c]) ELSE s[c]
  BY <1>2, AppliedCell
<1>4. \A s \in Screen, c \in Cell : Change(e, s[c]) = [s[c] EXCEPT !.potion = NoPotion]
  BY <1>2 DEF Change
<1>5. \A s \in Screen :
        \/ s[pos].potion = t
        \/ s[pos].potion = "GLOVES" /\ t = "INVINCIBLE"
        \/ OpenFromStart(pos)
        => Fits(e, s)
  BY <1>2 DEF Fits, Consistent, GlovesVanish
<1>6. QED BY <1>1, <1>2, <1>3, <1>4, <1>5

(* What a potion says of itself is a potion.                                 *)
LEMMA SaidType ==
    ASSUME NEW t \in PotionType
    PROVE  GetPotionType(t) \in PotionType
BY DEF GetPotionType, PotionType

(* A player is shown by a label of his own.                                  *)
LEMMA Labelled ==
    ASSUME NEW p \in PlayerId
    PROVE  /\ ShownAs(p) \in Label
           /\ \A q \in PlayerId : ShownAs(q) = ShownAs(p) => q = p
<1>1. p \in Nat
  BY GameLogAssumption
<1>2. QED BY <1>1, GameLogAssumption DEF ShownAs, Label

(* A player appears.                                                         *)
LEMMA PlayerAppears ==
    ASSUME NEW p \in PlayerId, NEW pos \in Cell
    PROVE  /\ PlayerAt("PLAYER_APPEAR", p, pos) \in Event
           /\ \A s \in Screen, c \in Cell :
                Applied(PlayerAt("PLAYER_APPEAR", p, pos), s)[c] =
                  IF c = pos THEN [s[c] EXCEPT !.players = s[c].players \cup {ShownAs(p)}]
                  ELSE s[c]
           /\ \A s \in Screen :
                ShownAs(p) \notin s[pos].players =>
                  Fits(PlayerAt("PLAYER_APPEAR", p, pos), s)
<1>1. PICK e : e = PlayerAt("PLAYER_APPEAR", p, pos)
  OBVIOUS
<1>2. /\ e \in Event /\ IsEvent(e)
      /\ e.pos = pos /\ e.type = "PLAYER_APPEAR" /\ e.player = ShownAs(p)
  BY <1>1, Labelled DEF PlayerAt, Event, PlayerEvent, IsEvent
<1>3. \A s \in Screen, c \in Cell :
        Applied(e, s)[c] = IF c = pos THEN Change(e, s[c]) ELSE s[c]
  BY <1>2, AppliedCell
<1>4. \A s \in Screen, c \in Cell :
        Change(e, s[c]) = [s[c] EXCEPT !.players = s[c].players \cup {ShownAs(p)}]
  BY <1>2 DEF Change
<1>5. \A s \in Screen : ShownAs(p) \notin s[pos].players => Fits(e, s)
  BY <1>2 DEF Fits, Consistent
<1>6. QED BY <1>1, <1>2, <1>3, <1>4, <1>5

(* A player disappears.                                                      *)
LEMMA PlayerDisappears ==
    ASSUME NEW p \in PlayerId, NEW pos \in Cell
    PROVE  /\ PlayerAt("PLAYER_DISAPPEAR", p, pos) \in Event
           /\ \A s \in Screen, c \in Cell :
                Applied(PlayerAt("PLAYER_DISAPPEAR", p, pos), s)[c] =
                  IF c = pos THEN [s[c] EXCEPT !.players = s[c].players \ {ShownAs(p)}]
                  ELSE s[c]
           /\ \A s \in Screen :
                ShownAs(p) \in s[pos].players \/ p \in gone =>
                  Fits(PlayerAt("PLAYER_DISAPPEAR", p, pos), s)
<1>1. PICK e : e = PlayerAt("PLAYER_DISAPPEAR", p, pos)
  OBVIOUS
<1>2. /\ e \in Event /\ IsEvent(e)
      /\ e.pos = pos /\ e.type = "PLAYER_DISAPPEAR" /\ e.player = ShownAs(p)
  BY <1>1, Labelled DEF PlayerAt, Event, PlayerEvent, IsEvent
<1>3. \A s \in Screen, c \in Cell :
        Applied(e, s)[c] = IF c = pos THEN Change(e, s[c]) ELSE s[c]
  BY <1>2, AppliedCell
<1>4. \A s \in Screen, c \in Cell :
        Change(e, s[c]) = [s[c] EXCEPT !.players = s[c].players \ {ShownAs(p)}]
  BY <1>2 DEF Change
<1>5. \A s \in Screen : ShownAs(p) \in s[pos].players \/ p \in gone => Fits(e, s)
  BY <1>2 DEF Fits, Consistent
<1>6. QED BY <1>1, <1>2, <1>3, <1>4, <1>5

(* What becomes of a cell that is swept.                                     *)
SweptArea(c, a) ==
    IF IsBombAble(c) THEN [a EXCEPT !.block = FALSE, !.potion = block[c].potion]
    ELSE IF potion_type[c] # NoPotion THEN [a EXCEPT !.potion = NoPotion]
    ELSE a

(* The screen shows what the entries of a swept cell take from it.           *)
Sweepable(c, a) ==
    /\ potion_type[c] # NoPotion => a.potion = potion_type[c] \/ OpenFromStart(c)
    /\ IsBombAble(c) => a.block /\ (potion_type[c] = NoPotion => a.potion = NoPotion)

(* The entries of a swept cell.                                              *)
LEMMA SweepReplayed ==
    ASSUME TypeOK, NEW c \in Cell, NEW s \in Screen
    PROVE  /\ SweepEntries(c) \in Seq(Event)
           /\ Replayed(SweepEntries(c), s) \in Screen
           /\ \A d \in Cell : Replayed(SweepEntries(c), s)[d] =
                IF d = c THEN SweptArea(c, s[c]) ELSE s[d]
           /\ Sweepable(c, s[c]) => Fit(SweepEntries(c), s)
<1>1. PICK t \in PotionType, u \in PotionType : t = potion_type[c] /\ u = block[c].potion
  BY DEF TypeOK, Block
<1> DEFINE a == IF t = NoPotion THEN << >>
                ELSE <<PotionAt("POTION_DISAPPEAR", t, c)>>
           b == IF ~IsBombAble(c) THEN << >>
                ELSE <<At("BLOCK_DISAPPEAR", c), PotionAt("POTION_APPEAR", u, c)>>
           x == At("BLOCK_DISAPPEAR", c)
           y == PotionAt("POTION_APPEAR", u, c)
<1>2. SweepEntries(c) = a \o b
  BY <1>1 DEF SweepEntries
<1>3. a \in Seq(Event)
  BY PotionDisappears, ReplayedOne, EmptySeq
<1>4. PICK z \in Screen : z = Replayed(a, s)
  BY <1>3, ReplayedScreen
<1>5. \A d \in Cell : z[d] =
        IF d = c /\ t # NoPotion THEN [s[d] EXCEPT !.potion = NoPotion] ELSE s[d]
  <2>1. CASE t = NoPotion
    BY <1>3, <1>4, <2>1, ReplayedScreen
  <2>2. CASE t # NoPotion
    <3>1. PICK e \in Event : e = PotionAt("POTION_DISAPPEAR", t, c)
      BY PotionDisappears
    <3>2. z = Applied(e, s)
      BY <1>4, <2>2, <3>1, ReplayedOne
    <3>3. QED BY <2>2, <3>1, <3>2, PotionDisappears
  <2>3. QED BY <2>1, <2>2
<1>6. b \in Seq(Event) /\ Replayed(b, z) \in Screen
      /\ \A d \in Cell : Replayed(b, z)[d] =
           IF d = c /\ IsBombAble(c) THEN [z[d] EXCEPT !.block = FALSE, !.potion = u]
           ELSE z[d]
  <2>1. CASE ~IsBombAble(c)
    BY <2>1, ReplayedScreen, EmptySeq
  <2>2. CASE IsBombAble(c)
    <3>1. x \in Event /\ y \in Event
      BY BlockDisappears, PotionAppears
    <3>2. PICK v \in Event, w \in Event : v = x /\ w = y
      BY <3>1
    <3>3. b = <<v, w>>
      BY <2>2, <3>2
    <3>4. PICK m \in Screen : m = Applied(v, z)
      BY AppliedScreen
    <3>5. /\ <<v, w>> \in Seq(Event) /\ Replayed(<<v, w>>, z) \in Screen
          /\ Replayed(<<v, w>>, z) = Applied(w, m)
      BY <3>4, ReplayedTwo
    <3>6. \A d \in Cell : m[d] = IF d = c THEN [z[d] EXCEPT !.block = FALSE] ELSE z[d]
      BY <3>2, <3>4, BlockDisappears
    <3>7. \A d \in Cell : Applied(w, m)[d] =
            IF d = c THEN [m[d] EXCEPT !.potion = u] ELSE m[d]
      BY <3>2, PotionAppears
    <3>8. \A d \in Cell : Applied(w, m)[d] =
             IF d = c THEN [z[d] EXCEPT !.block = FALSE, !.potion = u] ELSE z[d]
      BY <3>6, <3>7
    <3>9. PICK k \in Seq(Event) : k = <<v, w>>
      BY <3>5
    <3>10. Replayed(k, z) \in Screen /\ \A d \in Cell : Replayed(k, z)[d] =
             IF d = c THEN [z[d] EXCEPT !.block = FALSE, !.potion = u] ELSE z[d]
      BY <3>5, <3>8, <3>9
    <3>11. b = k
      BY <3>3, <3>9
    <3> HIDE DEF b, x, y
    <3>12. QED BY <2>2, <3>10, <3>11
  <2>3. QED BY <2>1, <2>2
<1> HIDE DEF a, b
<1>7. /\ Replayed(a \o b, s) = Replayed(b, z) /\ a \o b \in Seq(Event)
      /\ Fit(a, s) /\ Fit(b, z) => Fit(a \o b, s)
  <2>1. PICK h \in Seq(Event), k \in Seq(Event) : h = a /\ k = b
    BY <1>3, <1>6
  <2>2. /\ Replayed(h \o k, s) = Replayed(k, z) /\ h \o k \in Seq(Event)
        /\ Fit(h, s) /\ Fit(k, z) => Fit(h \o k, s)
    BY <1>4, <2>1, ReplayedConcat, FitConcat
  <2>3. QED BY <2>1, <2>2
<1>8. \A d \in Cell : Replayed(b, z)[d] = IF d = c THEN SweptArea(c, s[c]) ELSE s[d]
  <2>1. \A d \in Cell : s[d] \in Area
    BY DEF Screen
  <2>2. QED BY <1>1, <1>5, <1>6, <2>1 DEF SweptArea, Area
<1>9. ASSUME Sweepable(c, s[c]) PROVE Fit(a \o b, s)
  <2>1. Fit(a, s)
    <3>1. CASE t = NoPotion
      BY <1>3, <3>1, ReplayedScreen DEF a
    <3>2. CASE t # NoPotion
      <4>1. PICK e \in Event : e = PotionAt("POTION_DISAPPEAR", t, c)
        BY PotionDisappears
      <4>2. Fits(e, s)
        BY <1>1, <1>9, <3>2, <4>1, PotionDisappears DEF Sweepable
      <4>3. Fit(<<e>>, s)
        BY <4>2, ReplayedOne
      <4>4. QED BY <3>2, <4>1, <4>3 DEF a
    <3>3. QED BY <3>1, <3>2
  <2>2. Fit(b, z)
    <3>1. CASE ~IsBombAble(c)
      BY <1>6, <3>1, ReplayedScreen DEF b
    <3>2. CASE IsBombAble(c)
      <4>1. PICK v \in Event, w \in Event : v = x /\ w = y
        BY BlockDisappears, PotionAppears
      <4>2. PICK m \in Screen : m = Applied(v, z)
        BY AppliedScreen
      <4>3. s[c] \in Area /\ z[c] \in Area /\ m[c] \in Area
        BY DEF Screen
      <4>4. m[c] = [z[c] EXCEPT !.block = FALSE]
        BY <4>1, <4>2, BlockDisappears
      <4>5. z[c].block /\ z[c].potion = NoPotion
        BY <1>1, <1>5, <1>9, <3>2, <4>3 DEF Sweepable, Area
      <4>6. m[c].potion = NoPotion
        BY <4>3, <4>4, <4>5 DEF Area
      <4>7. Fits(v, z)
        BY <4>1, <4>5, BlockDisappears
      <4>8. Fits(w, m)
        BY <4>1, <4>6, PotionAppears
      <4>9. Fit(<<v, w>>, z)
        BY <4>2, <4>7, <4>8, ReplayedTwo
      <4>10. b = <<v, w>>
        BY <3>2, <4>1 DEF b
      <4>11. QED BY <4>9, <4>10
    <3>3. QED BY <3>1, <3>2
  <2>3. QED BY <1>7, <2>1, <2>2
<1>10. QED BY <1>2, <1>6, <1>7, <1>8, <1>9

-----------------------------------------------------------------------------
(* The invariant of the log.                                                 *)

(* While players join, the potions are those of the map, and every player    *)
(* stands alone on a birth that was used before the next one.                *)
Waiting ==
    \E l \in Layouts :
        /\ potion_type = l.potion
        /\ player_birth = l.birth
        /\ \A p \in Joined : \E i \in 0 .. Cardinality(Joined) - 1 :
             player_map[p].pos = l.birth[i]
        /\ \A p, q \in Joined : player_map[p].pos = player_map[q].pos => p = q

(* Where a player is shown.                                                  *)
Place(p) == IF p = mover THEN old_pos ELSE player_map[p].pos

(* The parts of ReplayAgrees.                                                *)
BombsShown == \A c \in Cell : screen[c].bomb = (bomb_id[c] # NoBomb)
BlocksShown == \A c \in Cell : screen[c].block = HasBlock(c)
PotionsShown ==
    \A c \in Cell : \/ screen[c].potion = potion_type[c]
                    \/ OpenFromStart(c) /\ screen[c].potion = NoPotion
PlayersShown ==
    \A c \in Cell : screen[c].players = {ShownAs(p) : p \in ShownIn(c)}

Shown == BombsShown /\ BlocksShown /\ PotionsShown /\ PlayersShown

(* What the log has written off, where the mover comes from, and what is on  *)
(* the screen.                                                               *)
Written ==
    /\ screen \in Screen
    /\ gone \subseteq Dead
    /\ mover # NoPlayer => old_pos \in Cell /\ mover \notin gone

(* The inductive invariant of the log.                                       *)
LogInv ==
    /\ Written
    /\ game_status \in {"UNINIT", "WAIT_PLAYER"} => gone = {} /\ Alive = Joined
    /\ game_status = "WAIT_PLAYER" => Waiting
    /\ Recording => Shown

(* What is proved of the engine without its log.                             *)
EngineInv == Grounds /\ Setup /\ CellExclusive

(* The parts make the whole.                                                 *)
LEMMA ShownAgrees == (Recording => Shown) <=> ReplayAgrees
BY DEF Shown, BombsShown, BlocksShown, PotionsShown, PlayersShown, ReplayAgrees

(* Between the steps of a move everybody is shown where he stands.           *)
LEMMA NobodyMoves ==
    ASSUME TypeOK, phase # "meet"
    PROVE  mover = NoPlayer /\ \A p \in Joined : Place(p) = player_map[p].pos
<1>1. mover = NoPlayer /\ \A p \in Joined : p # NoPlayer
  BY GameAssumption DEF TypeOK
<1>2. QED BY <1>1 DEF Place

(* Nobody appears, disappears or changes his place on the screen.            *)
LEMMA PlayersFrame ==
    ASSUME PlayersShown, Joined' = Joined, gone' = gone,
           \A p \in Joined \ gone : Place(p)' = Place(p),
           \A c \in Cell : screen'[c].players = screen[c].players
    PROVE  PlayersShown'
<1>1. ASSUME NEW c \in Cell PROVE ShownIn(c)' = ShownIn(c)
  BY DEF ShownIn, Place
<1>2. QED BY <1>1 DEF PlayersShown, ShownAs

(* A step that changes neither the screen nor what it shows.                 *)
LEMMA ShownFrame ==
    ASSUME Shown, Joined' = Joined,
           UNCHANGED <<screen, gone, bomb_id, block, potion_type>>,
           \A p \in Joined : Place(p)' = Place(p)
    PROVE  Shown'
<1>1. PlayersShown'
  BY PlayersFrame DEF Shown
<1>2. BombsShown' /\ BlocksShown' /\ PotionsShown'
  BY DEF Shown, BombsShown, BlocksShown, PotionsShown, HasBlock, OpenFromStart
<1>3. QED BY <1>1, <1>2 DEF Shown

(* A step that writes nothing and in which nobody comes, goes or is revived. *)
LEMMA LogFrame ==
    ASSUME TypeOK, LogInv, Ageing, UNCHANGED <<screen, old_pos, gone, mover>>,
           UNCHANGED <<bomb_id, block, potion_type>>,
           Recording' => Recording,
           game_status' \notin {"UNINIT", "WAIT_PLAYER"}
    PROVE  LogInv'
<1>1. Joined' = Joined /\ UNCHANGED <<screen, gone, old_pos>>
  BY DEF Ageing
<1>2. \A p \in Joined : Place(p)' = Place(p)
  BY <1>1 DEF Ageing, Aged, Place
<1>3. Recording' => Shown'
  BY <1>1, <1>2, ShownFrame DEF LogInv
<1>4. Dead \subseteq Dead'
  BY DEF Ageing, Aged, Dead, Alive
<1>5. QED BY <1>1, <1>3, <1>4 DEF LogInv, Written

-----------------------------------------------------------------------------
(* What is not written.                                                      *)

(* Init opens the next match: nobody has joined.                             *)
LEMMA LogInitGame ==
    ASSUME TypeOK, LogInv, NEW l \in Layouts, InitGame(l),
           UNCHANGED <<screen, old_pos, gone>>
    PROVE  LogInv'
<1>1. /\ game_status = "UNINIT" /\ game_status' = "WAIT_PLAYER"
      /\ player_birth' = l.birth /\ potion_type' = l.potion
      /\ UNCHANGED <<player_map, mover, screen, gone, old_pos>>
  BY DEF InitGame, meeting
<1>2. Joined = {} /\ Joined' = {}
  BY <1>1 DEF TypeOK, Joined
<1>3. Waiting'
  BY <1>1, <1>2 DEF Waiting
<1>4. Written' /\ gone' = {} /\ Alive' = Joined'
  BY <1>1, <1>2 DEF LogInv, Written, Dead, Alive
<1>5. ~Recording'
  BY <1>1 DEF Recording
<1>6. QED BY <1>1, <1>3, <1>4, <1>5 DEF LogInv

(* What is written for no action leaves the log true.                        *)
LEMMA LogUnlogged ==
    ASSUME TypeOK, LogInv, Unlogged
    PROVE  LogInv'
<1>1. UNCHANGED <<screen, old_pos, gone>>
  BY DEF Unlogged
<1>2. ASSUME Ageing, UNCHANGED mover, UNCHANGED <<bomb_id, block, potion_type>>,
             game_status \in {"WAIT_ACTION", "FLUSHING"},
             game_status' \in {"WAIT_ACTION", "FLUSHING"}
      PROVE  LogInv'
  <2>1. Recording' => Recording
    BY <1>2 DEF Recording
  <2>2. QED BY <1>1, <1>2, <2>1, LogFrame
<1>3. ASSUME NEW p \in PlayerId, NEW d \in Direction,
             PlaceRefused(p) \/ StaySilent(p) \/ PushBomb(p, d) \/ MoveRefused(p, d)
      PROVE  LogInv'
  BY <1>2, <1>3, AgeUnchanged
     DEF PlaceRefused, StaySilent, PushBomb, MoveRefused, CanAct, match, board, meeting
<1>4. CASE FlushTime
  BY <1>2, <1>4, AgeUnchanged DEF FlushTime, meeting
<1>5. ASSUME NEW o \in PlayerId, MeetOther(o)
      PROVE  LogInv'
  BY <1>2, <1>5, AgeMeetOther DEF MeetOther, TypeOK, match, board
<1>6. CASE \/ \E b \in BombId : StopBomb(b)
           \/ BurnFuses \/ SkipExploded
  <2>1. /\ UNCHANGED <<player_map, mover, bomb_id, block, potion_type, game_status>>
        /\ phase \in {"bomb_move", "explode"}
    BY <1>6 DEF StopBomb, BurnFuses, SkipExploded, match, board, meeting
  <2>2. game_status = "FLUSHING"
    BY <2>1 DEF TypeOK
  <2>3. QED BY <1>2, <2>1, <2>2, AgeUnchanged
<1>7. ASSUME NEW l \in Layouts, InitGame(l)
      PROVE  LogInv'
  BY <1>1, <1>7, LogInitGame
<1>8. "MOVE_UP" \in Direction
  BY DEF Direction
<1>9. QED BY <1>3, <1>4, <1>5, <1>6, <1>7, <1>8 DEF Unlogged

(* A match that is over is forgotten.                                        *)
LEMMA LogReset ==
    ASSUME TypeOK, LogInv, LoggedReset
    PROVE  LogInv'
<1>1. /\ game_status' = "UNINIT" /\ player_map' = << >> /\ screen' = Blank
      /\ gone' = {} /\ phase = "idle" /\ mover' = mover
  BY DEF LoggedReset, Reset, meeting
<1>2. mover' = NoPlayer
  BY <1>1 DEF TypeOK
<1>3. Blank \in Screen
  BY ReplayAssumption DEF Blank, AreaOf, Screen, Area, Label, PotionType
<1>4. Joined' = {} /\ Alive' = {}
  BY <1>1 DEF Joined, Alive
<1>5. QED BY <1>1, <1>2, <1>3, <1>4 DEF LogInv, Written, Recording, Dead

-----------------------------------------------------------------------------
(* Bombs are placed and glide, players move.                                 *)

(* A bomb is shown where it has been placed.                                 *)
LEMMA LogPlaceBomb ==
    ASSUME TypeOK, LogInv, NEW p \in PlayerId, NEW b \in BombId, LoggedPlaceBomb(p, b)
    PROVE  LogInv'
<1> DEFINE pos == player_map[p].pos
           e == At("BOMB_APPEAR", pos)
<1>1. /\ game_status = "WAIT_ACTION" /\ UNCHANGED <<game_status, mover, gone, old_pos>>
      /\ bomb_id' = [bomb_id EXCEPT ![pos] = b]
      /\ UNCHANGED <<block, potion_type>>
      /\ screen' = Replayed(<<e>>, screen)
      /\ p \in Joined
  BY DEF LoggedPlaceBomb, PlaceBomb, CanAct, match, meeting, Log
<1>2. Ageing
  BY AgePlaceBomb DEF LoggedPlaceBomb
<1>3. pos \in Cell /\ screen \in Screen /\ Shown
  BY <1>1 DEF TypeOK, PlayerRecord, LogInv, Written, Recording
<1>4. e \in Event /\ screen' = Applied(e, screen) /\ screen' \in Screen
  <2>1. PICK v \in Event : v = e
    BY <1>3, BombAppears
  <2>2. Replayed(<<v>>, screen) = Applied(v, screen) /\ Applied(v, screen) \in Screen
    BY <1>3, ReplayedOne, AppliedScreen
  <2> HIDE DEF e
  <2>3. QED BY <1>1, <2>1, <2>2
<1>5. \A c \in Cell : screen'[c] =
        IF c = pos THEN [screen[c] EXCEPT !.bomb = TRUE] ELSE screen[c]
  BY <1>3, <1>4, BombAppears
<1>6. \A c \in Cell : screen[c] \in Area
  BY <1>3 DEF Screen
<1>7. \A c \in Cell : /\ screen'[c].players = screen[c].players
                      /\ screen'[c].block = screen[c].block
                      /\ screen'[c].potion = screen[c].potion
                      /\ screen'[c].bomb = IF c = pos THEN TRUE ELSE screen[c].bomb
  BY <1>5, <1>6 DEF Area
<1> HIDE DEF pos, e
<1>8. PlayersShown'
  <2>1. \A q \in Joined : Place(q)' = Place(q)
    BY <1>1, <1>2 DEF Ageing, Aged, Place
  <2>2. QED BY <1>1, <1>2, <1>3, <1>7, <2>1, PlayersFrame DEF Shown, Ageing
<1>9. BombsShown'
  <2>1. \A c \in Cell : bomb_id'[c] = IF c = pos THEN b ELSE bomb_id[c]
    BY <1>1, <1>3 DEF TypeOK
  <2>2. b # NoBomb
    BY GameAssumption
  <2>3. QED BY <1>3, <1>7, <2>1, <2>2 DEF Shown, BombsShown
<1>10. BlocksShown' /\ PotionsShown'
  BY <1>1, <1>3, <1>7 DEF Shown, BlocksShown, PotionsShown, HasBlock, OpenFromStart
<1>11. Dead \subseteq Dead'
  BY <1>2 DEF Ageing, Aged, Dead, Alive
<1>12. QED BY <1>1, <1>4, <1>8, <1>9, <1>10, <1>11 DEF LogInv, Written, Shown

(* A player on the move is still shown where he comes from.                  *)
LEMMA LogMoveTo ==
    ASSUME TypeOK, LogInv, NEW p \in PlayerId, NEW d \in Direction, LoggedMoveTo(p, d)
    PROVE  LogInv'
<1>1. /\ game_status = "WAIT_ACTION" /\ UNCHANGED <<game_status, gone>>
      /\ UNCHANGED <<bomb_id, block, potion_type>>
      /\ screen' = Replayed(<< >>, screen)
      /\ p \in Joined /\ ~IsDead(player_map[p]) /\ phase = "idle"
      /\ player_map' = [player_map EXCEPT ![p].pos = Target(p, d)]
      /\ mover' = p /\ old_pos' = player_map[p].pos
  BY DEF LoggedMoveTo, MoveTo, CanAct, match, Log
<1>2. screen \in Screen /\ Shown /\ player_map[p].pos \in Cell
  BY <1>1 DEF TypeOK, PlayerRecord, LogInv, Written, Recording
<1>3. screen' = screen
  BY <1>1, <1>2, ReplayedScreen, EmptySeq
<1>4. /\ Joined' = Joined
      /\ \A q \in Joined : q # p => player_map'[q] = player_map[q]
      /\ player_map'[p].status = player_map[p].status
  BY <1>1 DEF TypeOK, Joined, PlayerRecord
<1>5. \A q \in Joined : Place(q)' = Place(q)
  <2>1. \A q \in Joined : Place(q) = player_map[q].pos
    BY <1>1, NobodyMoves
  <2>2. QED BY <1>1, <1>4, <2>1 DEF Place
<1>6. Shown'
  BY <1>1, <1>2, <1>3, <1>4, <1>5, ShownFrame
<1>7. Dead' = Dead /\ p \notin Dead
  BY <1>1, <1>4 DEF Dead, Alive, IsDead
<1>8. QED BY <1>1, <1>2, <1>3, <1>6, <1>7 DEF LogInv, Written

(* A bomb that glides leaves one cell and appears in the next.               *)
LEMMA LogGlideBomb ==
    ASSUME TypeOK, BombRegistry, LogInv, NEW b \in BombId, LoggedGlideBomb(b)
    PROVE  LogInv'
<1> DEFINE from == bomb_map[b].pos
           to == NextPos(b)
           e == At("BOMB_DISAPPEAR", from)
           f == At("BOMB_APPEAR", to)
<1>1. /\ phase = "bomb_move" /\ b \in to_move /\ to \in Cell /\ FreeForBomb(to)
      /\ UNCHANGED <<game_status, mover, gone, old_pos, player_map>>
      /\ bomb_id' = [bomb_id EXCEPT ![from] = NoBomb, ![to] = b]
      /\ UNCHANGED <<block, potion_type>>
      /\ screen' = Replayed(<<e, f>>, screen)
  BY DEF LoggedGlideBomb, GlideBomb, match, meeting, Log, GlideEntries
<1>2. game_status = "FLUSHING" /\ from \in Cell
  BY <1>1 DEF TypeOK, BombRecord
<1>3. screen \in Screen /\ Shown
  BY <1>2 DEF LogInv, Written, Recording
<1>4. PICK v \in Event, w \in Event : v = e /\ w = f
  BY <1>1, <1>2, BombAppears, BombDisappears
<1>5. PICK z \in Screen : z = Applied(v, screen)
  BY <1>3, AppliedScreen
<1>6. screen' = Applied(w, z) /\ screen' \in Screen
  <2>1. Replayed(<<v, w>>, screen) = Applied(w, z) /\ Applied(w, z) \in Screen
    BY <1>3, <1>5, ReplayedTwo
  <2> HIDE DEF e, f
  <2>2. QED BY <1>1, <1>4, <2>1
<1>7. \A c \in Cell : z[c] =
        IF c = from THEN [screen[c] EXCEPT !.bomb = FALSE] ELSE screen[c]
  BY <1>2, <1>3, <1>4, <1>5, BombDisappears
<1>8. \A c \in Cell : screen'[c] =
        IF c = to THEN [z[c] EXCEPT !.bomb = TRUE] ELSE z[c]
  BY <1>1, <1>4, <1>6, BombAppears
<1>9. \A c \in Cell : screen[c] \in Area /\ z[c] \in Area
  BY <1>3, <1>5 DEF Screen
<1> HIDE DEF from, to, e, f
<1>10. \A c \in Cell : /\ screen'[c].players = screen[c].players
                       /\ screen'[c].block = screen[c].block
                       /\ screen'[c].potion = screen[c].potion
                       /\ screen'[c].bomb = IF c = to THEN TRUE
                                            ELSE IF c = from THEN FALSE
                                            ELSE screen[c].bomb
  <2>1. \A c \in Cell : /\ z[c].players = screen[c].players
                        /\ z[c].block = screen[c].block
                        /\ z[c].potion = screen[c].potion
                        /\ z[c].bomb = IF c = from THEN FALSE ELSE screen[c].bomb
    BY <1>7, <1>9 DEF Area
  <2>2. \A c \in Cell : /\ screen'[c].players = z[c].players
                        /\ screen'[c].block = z[c].block
                        /\ screen'[c].potion = z[c].potion
                        /\ screen'[c].bomb = IF c = to THEN TRUE ELSE z[c].bomb
    BY <1>8, <1>9 DEF Area
  <2>3. QED BY <2>1, <2>2
<1>11. Joined' = Joined /\ \A q \in Joined : Place(q)' = Place(q)
  BY <1>1 DEF Place, Joined
<1>12. PlayersShown'
  BY <1>1, <1>3, <1>10, <1>11, PlayersFrame DEF Shown
<1>13. BombsShown'
  <2>1. \A c \in Cell : bomb_id'[c] = IF c = to THEN b ELSE IF c = from THEN NoBomb
                                      ELSE bomb_id[c]
    BY <1>1, <1>2 DEF TypeOK
  <2>2. b # NoBomb
    BY GameAssumption
  <2>3. QED BY <1>3, <1>10, <2>1, <2>2 DEF Shown, BombsShown
<1>14. BlocksShown' /\ PotionsShown'
  BY <1>1, <1>3, <1>10 DEF Shown, BlocksShown, PotionsShown, HasBlock, OpenFromStart
<1>15. Written'
  <2>1. Dead' = Dead
    BY <1>1 DEF Dead, Alive, Joined
  <2>2. QED BY <1>1, <1>6, <2>1 DEF LogInv, Written
<1>16. game_status' = "FLUSHING" /\ Shown'
  BY <1>1, <1>2, <1>12, <1>13, <1>14 DEF Shown
<1>17. QED BY <1>15, <1>16 DEF LogInv

(* One player leaves a cell of the screen and appears in another.            *)
LEMMA PlayersMove ==
    ASSUME PlayersShown, Joined \subseteq PlayerId, Joined' = Joined, gone' = gone,
           NEW p \in Joined \ gone, NEW from, NEW to,
           Place(p) = from, Place(p)' = to,
           \A q \in Joined \ {p} : Place(q)' = Place(q),
           \A c \in Cell : screen'[c].players =
             (screen[c].players \ (IF c = from THEN {ShownAs(p)} ELSE {}))
               \cup (IF c = to THEN {ShownAs(p)} ELSE {})
    PROVE  PlayersShown'
<1>1. ASSUME NEW c \in Cell
      PROVE  screen'[c].players = {ShownAs(q) : q \in ShownIn(c)'}
  <2>1. screen[c].players = {ShownAs(q) : q \in ShownIn(c)}
    BY DEF PlayersShown
  <2>2. /\ \A q \in Joined \ {p} : q \in ShownIn(c)' <=> q \in ShownIn(c)
        /\ p \in ShownIn(c)' <=> c = to
        /\ p \in ShownIn(c) <=> c = from
        /\ ShownIn(c) \subseteq Joined /\ ShownIn(c)' \subseteq Joined
    BY DEF ShownIn, Place
  <2>3. \A q \in Joined : ShownAs(q) = ShownAs(p) => q = p
    BY Labelled
  <2> HIDE DEF ShownIn
  <2>4. ASSUME NEW x PROVE x \in screen'[c].players <=> x \in {ShownAs(q) : q \in ShownIn(c)'}
    BY <2>1, <2>2, <2>3
  <2>5. screen'[c].players = {x \in screen'[c].players : TRUE}
    BY <2>1
  <2>6. QED BY <2>4, <2>5
<1>2. QED BY <1>1 DEF PlayersShown, ShownAs

(* A move is written when it is over.                                        *)
LEMMA LogFinishMove ==
    ASSUME TypeOK, LogInv, LoggedFinishMove
    PROVE  LogInv'
<1> DEFINE to == player_map[mover].pos
           t == potion_type[to]
           u == PotionAt("POTION_DISAPPEAR", GetPotionType(t), to)
           v == PlayerAt("PLAYER_DISAPPEAR", mover, old_pos)
           w == PlayerAt("PLAYER_APPEAR", mover, to)
           a == IF t = NoPotion THEN << >> ELSE <<u>>
           b == <<v, w>>
<1>1. /\ phase = "meet" /\ mover' = NoPlayer /\ UNCHANGED <<game_status, gone>>
      /\ potion_type' = [potion_type EXCEPT ![to] = NoPotion]
      /\ UNCHANGED <<bomb_id, block>>
      /\ screen' = Replayed(a \o b, screen)
  BY DEF LoggedFinishMove, FinishMove, TakePotion, match, Log, MoveEntries
<1>2. game_status = "WAIT_ACTION" /\ mover \in Joined /\ mover \in PlayerId /\ mover # NoPlayer
  BY <1>1, GameAssumption DEF TypeOK
<1>3. /\ to \in Cell /\ t \in PotionType /\ screen \in Screen /\ Shown
      /\ old_pos \in Cell /\ mover \notin gone
  BY <1>2 DEF TypeOK, PlayerRecord, LogInv, Written, Recording
<1>4. Ageing /\ Kept
  BY AgeFinishMove DEF LoggedFinishMove
<1>5. PICK y \in Event, e \in Event, f \in Event : y = u /\ e = v /\ f = w
  <2>1. GetPotionType(t) \in PotionType
    BY <1>3, SaidType
  <2>2. u \in Event
    BY <1>3, <2>1, PotionDisappears
  <2>3. QED BY <1>2, <1>3, <2>2, PlayerDisappears, PlayerAppears
<1>6. a \in Seq(Event) /\ b \in Seq(Event)
  <2>1. <<y>> \in Seq(Event) /\ <<e, f>> \in Seq(Event)
    BY <1>3, ReplayedOne, ReplayedTwo
  <2> HIDE DEF u, v, w
  <2>2. QED BY <1>5, <2>1, EmptySeq
<1>7. PICK z \in Screen : z = Replayed(a, screen)
  BY <1>3, <1>6, ReplayedScreen
<1>8. \A c \in Cell : z[c] =
        IF c = to /\ t # NoPotion THEN [screen[c] EXCEPT !.potion = NoPotion]
        ELSE screen[c]
  <2>1. CASE t = NoPotion
    BY <1>3, <1>6, <1>7, <2>1, ReplayedScreen
  <2>2. CASE t # NoPotion
    <3>1. z = Applied(y, screen)
      BY <1>3, <1>5, <1>7, <2>2, ReplayedOne
    <3>2. PICK k \in PotionType : y = PotionAt("POTION_DISAPPEAR", k, to)
      BY <1>3, <1>5, SaidType
    <3> HIDE DEF t, to
    <3>3. \A c \in Cell : Applied(y, screen)[c] =
            IF c = to THEN [screen[c] EXCEPT !.potion = NoPotion] ELSE screen[c]
      BY <1>3, <3>2, PotionDisappears
    <3>4. QED BY <2>2, <3>1, <3>3
  <2>3. QED BY <2>1, <2>2
<1>9. PICK m \in Screen : m = Applied(e, z)
  BY AppliedScreen
<1> HIDE DEF u, v, w, t
<1>10. screen' = Applied(f, m) /\ screen' \in Screen
  <2>1. Replayed(<<e, f>>, z) = Applied(f, m) /\ Applied(f, m) \in Screen
    BY <1>9, ReplayedTwo
  <2>2. PICK h \in Seq(Event), k \in Seq(Event) : h = a /\ k = b
    BY <1>6
  <2> HIDE DEF a
  <2>3. Replayed(h \o k, screen) = Replayed(k, z)
    BY <1>3, <1>7, <2>2, ReplayedConcat
  <2>4. QED BY <1>1, <1>5, <2>1, <2>2, <2>3
<1> HIDE DEF a, b
<1>11. \A c \in Cell : m[c] =
         IF c = old_pos THEN [z[c] EXCEPT !.players = z[c].players \ {ShownAs(mover)}]
         ELSE z[c]
  <2>1. PICK p \in PlayerId, from \in Cell : p = mover /\ from = old_pos
    BY <1>2, <1>3
  <2>2. e = PlayerAt("PLAYER_DISAPPEAR", p, from)
    BY <1>5, <2>1 DEF v
  <2>3. \A c \in Cell : Applied(e, z)[c] =
          IF c = from THEN [z[c] EXCEPT !.players = z[c].players \ {ShownAs(p)}]
          ELSE z[c]
    BY <2>2, PlayerDisappears
  <2>4. QED BY <1>9, <2>1, <2>3
<1>12. \A c \in Cell : screen'[c] =
         IF c = to THEN [m[c] EXCEPT !.players = m[c].players \cup {ShownAs(mover)}]
         ELSE m[c]
  <2>1. PICK p \in PlayerId, pos \in Cell : p = mover /\ pos = to
    BY <1>2, <1>3
  <2>2. f = PlayerAt("PLAYER_APPEAR", p, pos)
    BY <1>5, <2>1 DEF w
  <2>3. \A c \in Cell : Applied(f, m)[c] =
          IF c = pos THEN [m[c] EXCEPT !.players = m[c].players \cup {ShownAs(p)}]
          ELSE m[c]
    BY <2>2, PlayerAppears
  <2> HIDE DEF to
  <2>4. QED BY <1>10, <2>1, <2>3
<1> HIDE DEF to
<1>13. \A c \in Cell : screen[c] \in Area /\ z[c] \in Area /\ m[c] \in Area
  BY <1>3, <1>7, <1>9 DEF Screen
<1>14. \A c \in Cell : /\ z[c].players = screen[c].players
                       /\ z[c].block = screen[c].block
                       /\ z[c].bomb = screen[c].bomb
                       /\ z[c].potion = IF c = to /\ t # NoPotion THEN NoPotion
                                        ELSE screen[c].potion
  BY <1>8, <1>13 DEF Area
<1>15. \A c \in Cell : /\ m[c].players = z[c].players \
                            (IF c = old_pos THEN {ShownAs(mover)} ELSE {})
                       /\ m[c].block = z[c].block
                       /\ m[c].bomb = z[c].bomb
                       /\ m[c].potion = z[c].potion
  BY <1>11, <1>13 DEF Area
<1>16. \A c \in Cell : /\ screen'[c].players = m[c].players \cup
                            (IF c = to THEN {ShownAs(mover)} ELSE {})
                       /\ screen'[c].block = m[c].block
                       /\ screen'[c].bomb = m[c].bomb
                       /\ screen'[c].potion = m[c].potion
  BY <1>12, <1>13 DEF Area
<1>17. PlayersShown'
  <2>1. PICK p \in Joined \ gone : p = mover
    BY <1>2, <1>3
  <2>2. /\ Joined' = Joined /\ gone' = gone /\ Joined \subseteq PlayerId
        /\ Place(p) = old_pos
    BY <1>1, <1>4, <2>1 DEF Ageing, Place, TypeOK
  <2>3. \A q \in Joined : q # NoPlayer /\ player_map'[q].pos = player_map[q].pos
    BY <1>4, <2>2, GameAssumption DEF Kept
  <2>4. \A q \in Joined : Place(q)' = player_map[q].pos
    BY <1>1, <2>3 DEF Place
  <2>5. Place(p)' = to /\ \A q \in Joined \ {p} : Place(q)' = Place(q)
    BY <2>1, <2>4 DEF Place, to
  <2>6. \A c \in Cell : screen'[c].players =
          (screen[c].players \ (IF c = old_pos THEN {ShownAs(p)} ELSE {}))
            \cup (IF c = to THEN {ShownAs(p)} ELSE {})
    BY <1>14, <1>15, <1>16, <2>1
  <2>7. QED BY <1>3, <2>5, <2>6, <2>2, PlayersMove DEF Shown
<1>18. PotionsShown'
  <2>1. \A c \in Cell : potion_type'[c] = IF c = to THEN NoPotion ELSE potion_type[c]
    BY <1>1, <1>3 DEF TypeOK, to
  <2>2. \A c \in Cell : screen'[c].potion = IF c = to /\ t # NoPotion THEN NoPotion
                                            ELSE screen[c].potion
    BY <1>14, <1>15, <1>16
  <2>3. t = potion_type[to]
    BY DEF t, to
  <2>4. QED BY <1>3, <2>1, <2>2, <2>3 DEF Shown, PotionsShown, OpenFromStart
<1>19. BombsShown' /\ BlocksShown'
  BY <1>1, <1>3, <1>14, <1>15, <1>16 DEF Shown, BlocksShown, BombsShown, HasBlock
<1>20. Written'
  <2>1. Dead \subseteq Dead'
    BY <1>4 DEF Ageing, Aged, Dead, Alive
  <2>2. QED BY <1>1, <1>10, <2>1 DEF LogInv, Written
<1>21. game_status' = "WAIT_ACTION" /\ Shown'
  BY <1>1, <1>2, <1>17, <1>18, <1>19 DEF Shown
<1>22. QED BY <1>20, <1>21 DEF LogInv

-----------------------------------------------------------------------------
(* The end of a round.                                                       *)

(* The labels of the players among the first i of q who stand in cell c.     *)
Off(q, i, c) == {ShownAs(q[j]) : j \in {k \in 1 .. i : player_map[q[k]].pos = c}}

(* The entries that write a sequence of players off.                         *)
WrittenOff(q) ==
    [i \in 1 .. Len(q) |-> PlayerAt("PLAYER_DISAPPEAR", q[i], player_map[q[i]].pos)]

(* Each of them is shown where he is written off, and once, or was written   *)
(* off before.                                                               *)
OffOnce(q, s) ==
    /\ \A i \in 1 .. Len(q) :
         q[i] \in gone \/ ShownAs(q[i]) \in s[player_map[q[i]].pos].players
    /\ \A i, j \in 1 .. Len(q) : q[i] = q[j] => i = j

(* One player more.                                                          *)
LEMMA OffOneMore ==
    ASSUME NEW q, NEW n \in Nat, NEW i \in 1 .. n, NEW c
    PROVE  Off(q, i, c) = Off(q, i - 1, c) \cup
             (IF player_map[q[i]].pos = c THEN {ShownAs(q[i])} ELSE {})
<1>1. \A j : j \in 1 .. i <=> j \in 1 .. i - 1 \/ j = i
  OBVIOUS
<1> HIDE DEF ShownAs
<1>2. QED BY <1>1 DEF Off

(* Everybody in the sequence disappears from the screen.                     *)
LEMMA WrittenOffReplayed ==
    ASSUME TypeOK, NEW q \in Seq(Joined), NEW s \in Screen
    PROVE  /\ WrittenOff(q) \in Seq(Event)
           /\ Replayed(WrittenOff(q), s) \in Screen
           /\ \A c \in Cell : Replayed(WrittenOff(q), s)[c] =
                [s[c] EXCEPT !.players = s[c].players \ Off(q, Len(q), c)]
           /\ OffOnce(q, s) => Fit(WrittenOff(q), s)
<1>1. PICK n \in Nat : n = Len(q)
  OBVIOUS
<1>2. \A i \in 1 .. n : /\ q[i] \in Joined /\ q[i] \in PlayerId
                        /\ player_map[q[i]].pos \in Cell
  <2>1. \A i \in 1 .. n : q[i] \in Joined
    BY <1>1
  <2>2. \A p \in Joined : p \in PlayerId /\ player_map[p].pos \in Cell
    BY DEF TypeOK, PlayerRecord
  <2>3. QED BY <2>1, <2>2
<1>3. \A i \in 1 .. n :
        PlayerAt("PLAYER_DISAPPEAR", q[i], player_map[q[i]].pos) \in Event
  BY <1>2, PlayerDisappears
<1>4. PICK d \in Seq(Event) : /\ d = WrittenOff(q)
                              /\ Len(d) = n
                              /\ \A i \in 1 .. n : d[i] =
                                   PlayerAt("PLAYER_DISAPPEAR", q[i], player_map[q[i]].pos)
  <2>1. WrittenOff(q) \in [1 .. n -> Event]
    BY <1>1, <1>3 DEF WrittenOff
  <2>2. WrittenOff(q) \in Seq(Event) /\ Len(WrittenOff(q)) = n
    BY <2>1
  <2>3. \A i \in 1 .. n : WrittenOff(q)[i] =
          PlayerAt("PLAYER_DISAPPEAR", q[i], player_map[q[i]].pos)
    BY <1>1 DEF WrittenOff
  <2>4. QED BY <2>2, <2>3
<1> DEFINE f == [i \in 0 .. n |-> [c \in Cell |->
                  [s[c] EXCEPT !.players = s[c].players \ Off(q, i, c)]]]
<1>5. \A i \in 0 .. n, c \in Cell :
        f[i][c] = [s[c] EXCEPT !.players = s[c].players \ Off(q, i, c)]
  OBVIOUS
<1>6. \A i \in 0 .. n : f[i] \in Screen
  <2>1. \A c \in Cell : s[c] \in Area
    BY DEF Screen
  <2>2. \A i \in 0 .. n, c \in Cell :
          [s[c] EXCEPT !.players = s[c].players \ Off(q, i, c)] \in Area
    BY <2>1 DEF Area
  <2>3. QED BY <2>2 DEF Screen
<1>7. f[0] = s
  <2>1. \A c \in Cell : Off(q, 0, c) = {}
    BY DEF Off
  <2>2. \A c \in Cell : s[c] \in Area
    BY DEF Screen
  <2>3. ASSUME NEW a \in Area PROVE [a EXCEPT !.players = a.players \ {}] = a
    <3>1. a = [players |-> a.players, bomb |-> a.bomb, block |-> a.block,
               potion |-> a.potion]
      BY DEF Area
    <3>2. [a EXCEPT !.players = a.players \ {}] =
            [players |-> a.players \ {}, bomb |-> a.bomb, block |-> a.block,
             potion |-> a.potion]
      BY DEF Area
    <3>3. a.players \ {} = a.players
      BY DEF Area
    <3>4. QED BY <3>1, <3>2, <3>3
  <2>4. ASSUME NEW c \in Cell PROVE f[0][c] = s[c]
    <3>1. PICK a \in Area : a = s[c]
      BY <2>2
    <3>2. f[0][c] = [a EXCEPT !.players = a.players \ {}]
      <4>1. 0 \in 0 .. n
        OBVIOUS
      <4> HIDE DEF f
      <4>2. f[0][c] = [s[c] EXCEPT !.players = s[c].players \ Off(q, 0, c)]
        BY <1>5, <4>1
      <4>3. QED BY <2>1, <3>1, <4>2
    <3>3. QED BY <2>3, <3>1, <3>2
  <2>5. f[0] \in Screen
    BY <1>6
  <2> HIDE DEF f
  <2>6. QED BY <2>4, <2>5 DEF Screen
<1> HIDE DEF f
<1>8. ASSUME NEW i \in 1 .. n
      PROVE  f[i] = Applied(d[i], f[i - 1])
  <2>1. PICK p \in PlayerId, pos \in Cell : p = q[i] /\ pos = player_map[q[i]].pos
    BY <1>2
  <2>2. PICK z \in Screen, y \in Screen : z = f[i - 1] /\ y = f[i]
    BY <1>6
  <2>3. PICK e \in Event : e = PlayerAt("PLAYER_DISAPPEAR", p, pos)
    BY PlayerDisappears
  <2>4. d[i] = e
    BY <1>4, <2>1, <2>3
  <2>5. \A c \in Cell : Applied(e, z)[c] =
          IF c = pos THEN [z[c] EXCEPT !.players = z[c].players \ {ShownAs(p)}] ELSE z[c]
    BY <2>3, PlayerDisappears
  <2>6. \A c \in Cell : s[c] \in Area /\ z[c] \in Area /\ y[c] \in Area
    BY DEF Screen
  <2>7. \A c \in Cell :
          /\ z[c] = [s[c] EXCEPT !.players = s[c].players \ Off(q, i - 1, c)]
          /\ y[c] = [s[c] EXCEPT !.players = s[c].players \ Off(q, i, c)]
    BY <1>5, <2>2
  <2>8. \A c \in Cell : Off(q, i, c) = Off(q, i - 1, c) \cup
          (IF pos = c THEN {ShownAs(p)} ELSE {})
    BY <2>1, OffOneMore
  <2>9. ASSUME NEW c \in Cell PROVE y[c] = Applied(e, z)[c]
    <3>1. CASE c = pos
      <4>1. s[c].players \ Off(q, i, c) = (s[c].players \ Off(q, i - 1, c)) \ {ShownAs(p)}
        BY <2>8, <3>1
      <4>2. z[c].players = s[c].players \ Off(q, i - 1, c)
        BY <2>6, <2>7 DEF Area
      <4>3. y[c] = [s[c] EXCEPT !.players = z[c].players \ {ShownAs(p)}]
        BY <2>7, <4>1, <4>2
      <4>4. y[c] = [z[c] EXCEPT !.players = z[c].players \ {ShownAs(p)}]
        BY <2>6, <2>7, <4>3 DEF Area
      <4>5. QED BY <2>5, <3>1, <4>4
    <3>2. CASE c # pos
      <4>1. Off(q, i, c) = Off(q, i - 1, c)
        BY <2>8, <3>2
      <4>2. QED BY <2>5, <2>7, <3>2, <4>1
    <3>3. QED BY <3>1, <3>2
  <2>10. Applied(e, z) \in Screen
    BY AppliedScreen
  <2>11. y = Applied(e, z)
    BY <2>9, <2>10 DEF Screen
  <2>12. QED BY <2>2, <2>4, <2>11
<1>9. Replayed(d, s) = f[n]
  BY <1>4, <1>7, <1>8, ReplayedBy
<1>10. ASSUME OffOnce(q, s) PROVE Fit(d, s)
  <2>1. ASSUME NEW i \in 1 .. n PROVE Fits(d[i], f[i - 1])
    <3>1. PICK p \in PlayerId, pos \in Cell : p = q[i] /\ pos = player_map[q[i]].pos
      BY <1>2
    <3>2. PICK z \in Screen : z = f[i - 1]
      BY <1>6
    <3>3. d[i] = PlayerAt("PLAYER_DISAPPEAR", p, pos)
      BY <1>4, <3>1
    <3>4. z[pos].players = s[pos].players \ Off(q, i - 1, pos)
      <4>1. /\ s[pos] \in Area
            /\ z[pos] = [s[pos] EXCEPT !.players = s[pos].players \ Off(q, i - 1, pos)]
        BY <1>5, <3>2 DEF Screen
      <4>2. QED BY <4>1 DEF Area
    <3>5. ShownAs(p) \notin Off(q, i - 1, pos)
      <4>1. ASSUME NEW j \in 1 .. i - 1 PROVE ShownAs(q[j]) # ShownAs(p)
        <5>1. j \in 1 .. n /\ j # i
          OBVIOUS
        <5>2. q[j] \in PlayerId /\ q[j] # p
          BY <1>1, <1>2, <1>10, <3>1, <5>1 DEF OffOnce
        <5>3. QED BY <5>2, Labelled
      <4> HIDE DEF ShownAs
      <4>2. QED BY <4>1 DEF Off
    <3>6. ShownAs(p) \in z[pos].players \/ p \in gone
      BY <1>1, <1>10, <3>1, <3>4, <3>5 DEF OffOnce
    <3>7. QED BY <3>2, <3>3, <3>6, PlayerDisappears
  <2>2. QED BY <1>4, <1>7, <1>8, <2>1, FitBy
<1>11. QED BY <1>1, <1>4, <1>5, <1>6, <1>9, <1>10

(* At the end of a round every dead player is off the screen.                *)
LEMMA LogFinishFlush ==
    ASSUME TypeOK, LogInv, LoggedFinishFlush
    PROVE  LogInv'
<1> DEFINE q == SetToSeq(Joined \ Alive)
           d == WrittenOff(q)
           x == At("FLUSH", <<0, 0>>)
<1>1. /\ phase = "explode" /\ mover' = mover /\ gone' = Joined \ Alive
      /\ game_status' \in {"GAME_OVER", "WAIT_ACTION"}
      /\ UNCHANGED <<bomb_id, block, potion_type, old_pos>>
      /\ screen' = Replayed(Append(d, x), screen)
  BY DEF LoggedFinishFlush, FinishFlush, meeting, Log, JudgeEntries, WrittenOff
<1>2. game_status = "FLUSHING" /\ Joined \subseteq PlayerId
  BY <1>1 DEF TypeOK
<1>3. screen \in Screen /\ Shown /\ gone \subseteq Dead
  BY <1>2 DEF LogInv, Written, Recording
<1>4. Ageing /\ Kept
  BY AgeFinishFlush DEF LoggedFinishFlush
<1>5. /\ q \in Seq(Joined)
      /\ \A p \in Dead : \E i \in 1 .. Len(q) : q[i] = p
      /\ \A i \in 1 .. Len(q) : q[i] \in Dead
  <2>1. PICK S : S = Joined \ Alive /\ IsFiniteSet(S) /\ S = Dead
    BY <1>2, GameAssumption, FS_Subset DEF Dead
  <2>2. /\ SetToSeq(S) \in Seq(S)
        /\ \A p \in S : \E i \in 1 .. Len(SetToSeq(S)) : SetToSeq(S)[i] = p
    BY <2>1, Enumerated
  <2>3. S \subseteq Joined
    BY <2>1
  <2>4. PICK r \in Seq(S) : r = SetToSeq(S)
    BY <2>2
  <2>5. r \in Seq(Joined) /\ \A i \in 1 .. Len(r) : r[i] \in S
    BY <2>3
  <2>6. r = q
    BY <2>1, <2>4
  <2> HIDE DEF q
  <2>7. QED BY <2>1, <2>2, <2>4, <2>5, <2>6
<1> HIDE DEF q
<1>6. /\ d \in Seq(Event)
      /\ Replayed(d, screen) \in Screen
      /\ \A c \in Cell : Replayed(d, screen)[c] =
           [screen[c] EXCEPT !.players = screen[c].players \ Off(q, Len(q), c)]
  BY <1>3, <1>5, WrittenOffReplayed
<1> HIDE DEF d
<1>7. PICK e \in Event : e = x
  <2>1. <<0, 0>> \in Cell
    BY GameAssumption DEF Cell
  <2>2. QED BY <2>1, FlushShows
<1>8. PICK z \in Screen : z = Replayed(d, screen) /\ Applied(e, z) = z
  <2>1. <<0, 0>> \in Cell
    BY GameAssumption DEF Cell
  <2>2. \A z \in Screen : Applied(x, z) = z
    BY <2>1, FlushShows
  <2> HIDE DEF x
  <2>3. QED BY <1>6, <1>7, <2>2
<1> HIDE DEF x
<1>9. screen' = z
  <2>1. PICK k \in Seq(Event) : k = <<e>> /\ Replayed(k, z) = z
    BY <1>8, ReplayedOne
  <2>2. Replayed(d \o k, screen) = Replayed(k, z)
    BY <1>3, <1>6, <1>8, ReplayedConcat
  <2>3. Append(d, e) = d \o <<e>>
    BY <1>6, AppendIsConcat
  <2>4. QED BY <1>1, <1>7, <2>1, <2>2, <2>3
<1>10. \A c \in Cell : screen[c] \in Area
  BY <1>3 DEF Screen
<1>11. \A c \in Cell : /\ screen'[c].players = screen[c].players \ Off(q, Len(q), c)
                       /\ screen'[c].bomb = screen[c].bomb
                       /\ screen'[c].block = screen[c].block
                       /\ screen'[c].potion = screen[c].potion
  BY <1>6, <1>8, <1>9, <1>10 DEF Area
<1>12. PlayersShown'
  <2>1. /\ mover = NoPlayer /\ Joined' = Joined
        /\ \A p \in Joined : p # NoPlayer /\ player_map'[p].pos = player_map[p].pos
    BY <1>1, <1>2, <1>4, GameAssumption, NobodyMoves DEF Kept
  <2>2. ASSUME NEW c \in Cell
        PROVE  screen'[c].players = {ShownAs(p) : p \in ShownIn(c)'}
    <3>1. ShownIn(c) = {p \in Joined \ gone : player_map[p].pos = c}
      BY <2>1 DEF ShownIn
    <3>2. ShownIn(c)' = {p \in Joined \ Dead : player_map[p].pos = c}
      BY <1>1, <2>1 DEF ShownIn, Dead
    <3>3. screen[c].players = {ShownAs(p) : p \in ShownIn(c)}
      BY <1>3 DEF Shown, PlayersShown
    <3>4. Off(q, Len(q), c) = {ShownAs(p) : p \in {r \in Dead : player_map[r].pos = c}}
      <4> HIDE DEF ShownAs
      <4>1. QED BY <1>5 DEF Off
    <3>5. \A p, r \in Joined : ShownAs(p) = ShownAs(r) => p = r
      BY <1>2, Labelled
    <3>6. Dead \subseteq Joined
      BY DEF Dead
    <3> HIDE DEF ShownIn, ShownAs, Off
    <3>7. ASSUME NEW y
          PROVE  y \in screen'[c].players <=> y \in {ShownAs(p) : p \in ShownIn(c)'}
      <4>1. y \in screen'[c].players <=>
              /\ \E p \in Joined \ gone : player_map[p].pos = c /\ y = ShownAs(p)
              /\ ~ \E p \in Dead : player_map[p].pos = c /\ y = ShownAs(p)
        BY <1>11, <3>1, <3>3, <3>4
      <4>2. y \in {ShownAs(p) : p \in ShownIn(c)'} <=>
              \E p \in Joined \ Dead : player_map[p].pos = c /\ y = ShownAs(p)
        BY <3>2
      <4>3. QED BY <1>3, <3>5, <3>6, <4>1, <4>2
    <3>8. screen'[c].players = {y \in screen'[c].players : TRUE}
      BY <1>11
    <3>9. QED BY <3>7, <3>8
  <2>3. QED BY <2>2 DEF PlayersShown, ShownAs
<1>13. BombsShown' /\ BlocksShown' /\ PotionsShown'
  BY <1>1, <1>3, <1>11
     DEF Shown, BombsShown, BlocksShown, PotionsShown, HasBlock, OpenFromStart
<1>14. Written'
  <2>1. Dead' = Dead
    BY <1>4 DEF Kept, Dead, Alive, IsDead
  <2>2. mover' = NoPlayer
    BY <1>1, NobodyMoves
  <2>3. screen' \in Screen
    BY <1>9
  <2>4. QED BY <1>1, <2>1, <2>2, <2>3 DEF Written, Dead
<1>15. game_status' \notin {"UNINIT", "WAIT_PLAYER"} /\ Shown'
  BY <1>1, <1>12, <1>13 DEF Shown
<1>16. QED BY <1>14, <1>15 DEF LogInv

-----------------------------------------------------------------------------
(* Explosions.                                                               *)

(* The entries of a set of cells that are swept.                             *)
SweptEntries(S) ==
    FlattenSeq([i \in 1 .. Cardinality(S) |-> SweepEntries(SetToSeq(S)[i])])

(* A swept cell is a cell.                                                   *)
LEMMA SweptAreaType ==
    ASSUME TypeOK, NEW c \in Cell, NEW a \in Area
    PROVE  SweptArea(c, a) \in Area
<1>1. PICK t \in PotionType : t = block[c].potion
  BY DEF TypeOK, Block
<1>2. [a EXCEPT !.block = FALSE, !.potion = t] \in Area
      /\ [a EXCEPT !.potion = NoPotion] \in Area
  BY DEF Area, PotionType
<1>3. QED BY <1>1, <1>2 DEF SweptArea

(* All of the cells are swept, in whatever order they are enumerated.        *)
LEMMA SweptReplayed ==
    ASSUME TypeOK, NEW S \in SUBSET Cell, NEW s \in Screen
    PROVE  /\ SweptEntries(S) \in Seq(Event)
           /\ \A c \in Cell : Replayed(SweptEntries(S), s)[c] =
                IF c \in S THEN SweptArea(c, s[c]) ELSE s[c]
           /\ (\A c \in S : Sweepable(c, s[c])) => Fit(SweptEntries(S), s)
<1>1. IsFiniteSet(S)
  BY CellFinite, FS_Subset
<1>2. PICK n \in Nat, q \in Seq(S) :
        /\ n = Cardinality(S) /\ q = SetToSeq(S) /\ Len(q) = n
        /\ \A x \in S : \E i \in 1 .. n : q[i] = x
        /\ \A i, j \in 1 .. n : q[i] = q[j] => i = j
  <2>1. Cardinality(S) \in Nat
    BY <1>1, FS_CardinalityType
  <2>2. QED BY <1>1, <2>1, Enumerated
<1>3. \A i \in 1 .. n : q[i] \in S /\ q[i] \in Cell
  BY <1>2
<1> DEFINE done(i) == {q[j] : j \in 1 .. i}
           g == [i \in 0 .. n |-> [c \in Cell |->
                  IF c \in done(i) THEN SweptArea(c, s[c]) ELSE s[c]]]
<1>4. PICK parts \in Seq(Seq(Event)) :
        /\ parts = [i \in 1 .. Cardinality(S) |-> SweepEntries(SetToSeq(S)[i])]
        /\ Len(parts) = n
        /\ \A i \in 1 .. n : parts[i] = SweepEntries(q[i])
  <2>1. \A i \in 1 .. n : SweepEntries(q[i]) \in Seq(Event)
    BY <1>3, SweepReplayed
  <2>2. PICK words : words = Seq(Event)
    OBVIOUS
  <2>3. [i \in 1 .. n |-> SweepEntries(q[i])] \in [1 .. n -> words]
    BY <2>1, <2>2
  <2>4. PICK p \in [1 .. n -> words] : p = [i \in 1 .. n |-> SweepEntries(q[i])]
    BY <2>3
  <2>5. p \in Seq(words) /\ Len(p) = n
    OBVIOUS
  <2>6. \A i \in 1 .. n : p[i] = SweepEntries(q[i])
    BY <2>4
  <2>7. p = [i \in 1 .. Cardinality(S) |-> SweepEntries(SetToSeq(S)[i])]
    BY <1>2, <2>4
  <2>8. QED BY <2>2, <2>5, <2>6, <2>7
<1>5. \A i \in 0 .. n, c \in Cell :
        g[i][c] = IF c \in done(i) THEN SweptArea(c, s[c]) ELSE s[c]
  OBVIOUS
<1>6. \A i \in 0 .. n : g[i] \in Screen
  <2>1. \A c \in Cell : s[c] \in Area /\ SweptArea(c, s[c]) \in Area
    BY SweptAreaType DEF Screen
  <2> HIDE DEF done
  <2>2. QED BY <2>1 DEF Screen
<1>7. g[0] = s
  <2>1. done(0) = {}
    OBVIOUS
  <2>2. 0 \in 0 .. n
    OBVIOUS
  <2> HIDE DEF g, done
  <2>3. \A c \in Cell : g[0][c] = s[c]
    BY <1>5, <2>1, <2>2
  <2>4. QED BY <1>6, <2>2, <2>3 DEF Screen
<1> HIDE DEF g
<1>8. ASSUME NEW i \in 1 .. n
      PROVE  /\ g[i] = Replayed(parts[i], g[i - 1])
             /\ Sweepable(q[i], s[q[i]]) => Fit(parts[i], g[i - 1])
  <2>1. PICK x \in Cell : x = q[i]
    BY <1>3
  <2>2. i - 1 \in 0 .. n /\ i \in 0 .. n
    OBVIOUS
  <2>3. PICK z \in Screen, y \in Screen : z = g[i - 1] /\ y = g[i]
    BY <1>6, <2>2
  <2>4. PICK w \in Screen : /\ w = Replayed(SweepEntries(x), z)
                            /\ \A d \in Cell : w[d] =
                                 IF d = x THEN SweptArea(x, z[x]) ELSE z[d]
                            /\ Sweepable(x, z[x]) => Fit(SweepEntries(x), z)
    BY SweepReplayed
  <2>5. \A j : j \in 1 .. i <=> j \in 1 .. i - 1 \/ j = i
    OBVIOUS
  <2>6. done(i) = done(i - 1) \cup {x} /\ x \notin done(i - 1)
    <3>1. \A j \in 1 .. i - 1 : j \in 1 .. n /\ j # i
      OBVIOUS
    <3>2. \A j \in 1 .. i - 1 : q[j] # x
      BY <1>2, <2>1, <3>1
    <3>3. x \notin done(i - 1)
      BY <3>2
    <3>4. done(i) = done(i - 1) \cup {x}
      BY <2>1, <2>5
    <3>5. QED BY <3>3, <3>4
  <2>7. \A d \in Cell : /\ z[d] = IF d \in done(i - 1) THEN SweptArea(d, s[d]) ELSE s[d]
                        /\ y[d] = IF d \in done(i) THEN SweptArea(d, s[d]) ELSE s[d]
    BY <1>5, <2>2, <2>3
  <2> HIDE DEF done
  <2>8. \A d \in Cell : y[d] = w[d]
    BY <2>4, <2>6, <2>7
  <2>9. y = w
    BY <2>8 DEF Screen
  <2>10. parts[i] = SweepEntries(x)
    BY <1>4, <2>1
  <2>11. z[x] = s[x]
    BY <2>6, <2>7
  <2>12. Sweepable(x, s[x]) => Fit(SweepEntries(x), z)
    BY <2>4, <2>11
  <2>13. QED BY <2>1, <2>3, <2>4, <2>9, <2>10, <2>12
<1>9. /\ FlattenSeq(parts) \in Seq(Event)
      /\ Replayed(FlattenSeq(parts), s) = g[n]
      /\ (\A c \in S : Sweepable(c, s[c])) => Fit(FlattenSeq(parts), s)
  <2>1. \A i \in 1 .. Len(parts) : g[i] = Replayed(parts[i], g[i - 1])
    BY <1>4, <1>8
  <2>2. (\A c \in S : Sweepable(c, s[c])) =>
          \A i \in 1 .. Len(parts) : Fit(parts[i], g[i - 1])
    BY <1>3, <1>4, <1>8
  <2>3. /\ FlattenSeq(parts) \in Seq(Event)
        /\ Replayed(FlattenSeq(parts), s) = g[Len(parts)]
        /\ (\A i \in 1 .. Len(parts) : Fit(parts[i], g[i - 1])) =>
             Fit(FlattenSeq(parts), s)
    BY <1>7, <2>1, ReplayedFlat
  <2>4. QED BY <1>4, <2>2, <2>3
<1>10. done(n) = S
  BY <1>2, <1>3
<1>11. n \in 0 .. n
  OBVIOUS
<1>12. SweptEntries(S) = FlattenSeq(parts)
  BY <1>4 DEF SweptEntries
<1> HIDE DEF done
<1>13. QED BY <1>5, <1>9, <1>10, <1>11, <1>12

(* A blast is shown with all it sweeps.                                      *)
LEMMA LogExplode ==
    ASSUME TypeOK, BombRegistry, LogInv, LoggedExplode
    PROVE  LogInv'
<1> DEFINE b      == Head(bomb_que)
           pos    == bomb_map[b].pos
           struck == BlastCells(pos, bomb_map[b].range)
           swept  == Swept(pos, struck)
           mud    == {c \in swept : IsBombAble(c)}
           x      == At("BOMB_DISAPPEAR", pos)
<1>1. /\ phase = "explode" /\ b \in Bombs
      /\ UNCHANGED <<mover, gone, old_pos, game_status>>
      /\ bomb_id' = [bomb_id EXCEPT ![pos] = NoBomb]
      /\ potion_type' = [c \in Cell |->
           IF c \in mud THEN block[c].potion
           ELSE IF c \in swept THEN NoPotion ELSE potion_type[c]]
      /\ block' = [c \in Cell |-> IF c \in mud THEN NoBlock ELSE block[c]]
  BY DEF LoggedExplode, Explode, match, meeting
<1>2. screen' = Replayed(<<x>> \o SweptEntries(swept), screen)
  BY DEF LoggedExplode, Log, ExplodeEntries, SweptEntries
<1>3. game_status = "FLUSHING" /\ pos \in Cell
  BY <1>1 DEF TypeOK, BombRecord
<1>4. screen \in Screen /\ Shown
  BY <1>3 DEF LogInv, Written, Recording
<1>5. Ageing
  BY AgeExplode DEF LoggedExplode
<1>6. struck \subseteq Cell /\ swept \subseteq Cell
  BY <1>3 DEF BlastCells, ArmCells, Swept
<1> HIDE DEF b, pos, struck, swept
<1>7. PICK e \in Event : e = x
  BY <1>3, BombDisappears
<1>8. PICK z \in Screen : z = Applied(e, screen)
  BY <1>4, AppliedScreen
<1>9. \A c \in Cell : z[c] =
        IF c = pos THEN [screen[c] EXCEPT !.bomb = FALSE] ELSE screen[c]
  BY <1>3, <1>4, <1>7, <1>8, BombDisappears
<1> HIDE DEF x
<1>10. PICK k \in Seq(Event) :
         /\ k = SweptEntries(swept)
         /\ \A c \in Cell : Replayed(k, z)[c] =
              IF c \in swept THEN SweptArea(c, z[c]) ELSE z[c]
  <2>1. PICK S \in SUBSET Cell : S = swept
    BY <1>6
  <2>2. /\ SweptEntries(S) \in Seq(Event)
        /\ \A c \in Cell : Replayed(SweptEntries(S), z)[c] =
             IF c \in S THEN SweptArea(c, z[c]) ELSE z[c]
    BY SweptReplayed
  <2>3. PICK k \in Seq(Event) : k = SweptEntries(S)
    BY <2>2
  <2>4. \A c \in Cell : Replayed(k, z)[c] =
          IF c \in swept THEN SweptArea(c, z[c]) ELSE z[c]
    BY <2>1, <2>2, <2>3
  <2>5. k = SweptEntries(swept)
    BY <2>1, <2>3
  <2>6. QED BY <2>4, <2>5
<1>11. screen' \in Screen /\ screen' = Replayed(k, z)
  <2>1. PICK j \in Seq(Event) : j = <<e>> /\ Replayed(j, screen) = z
    BY <1>4, <1>8, ReplayedOne
  <2>2. Replayed(j \o k, screen) = Replayed(k, z)
    BY <1>4, <2>1, ReplayedConcat
  <2>3. Replayed(k, z) \in Screen
    BY ReplayedScreen
  <2>4. QED BY <1>2, <1>7, <1>10, <2>1, <2>2, <2>3
<1>12. \A c \in Cell : screen'[c] = IF c \in swept THEN SweptArea(c, z[c]) ELSE z[c]
  BY <1>10, <1>11
<1>13. \A c \in Cell : screen[c] \in Area /\ z[c] \in Area
  BY <1>4, <1>8 DEF Screen
<1>14. \A c \in Cell : /\ z[c].players = screen[c].players
                       /\ z[c].block = screen[c].block
                       /\ z[c].potion = screen[c].potion
                       /\ z[c].bomb = IF c = pos THEN FALSE ELSE screen[c].bomb
  BY <1>9, <1>13 DEF Area
<1>15. ASSUME NEW c \in Cell
       PROVE  /\ screen'[c].players = z[c].players
              /\ screen'[c].bomb = z[c].bomb
              /\ screen'[c].block = IF c \in mud THEN FALSE ELSE z[c].block
              /\ screen'[c].potion = IF c \in mud THEN block[c].potion
                                     ELSE IF c \in swept /\ potion_type[c] # NoPotion
                                     THEN NoPotion
                                     ELSE z[c].potion
  BY <1>12, <1>13 DEF SweptArea, Area
<1>16. PlayersShown'
  <2>1. \A q \in Joined : Place(q)' = Place(q)
    BY <1>1, <1>5 DEF Ageing, Aged, Place
  <2>2. QED BY <1>1, <1>4, <1>5, <1>14, <1>15, <2>1, PlayersFrame DEF Shown, Ageing
<1>17. BombsShown'
  <2>1. \A c \in Cell : bomb_id'[c] = IF c = pos THEN NoBomb ELSE bomb_id[c]
    BY <1>1, <1>3 DEF TypeOK
  <2>2. \A c \in Cell : screen'[c].bomb = IF c = pos THEN FALSE ELSE screen[c].bomb
    BY <1>14, <1>15
  <2>3. QED BY <1>4, <2>1, <2>2 DEF Shown, BombsShown
<1>18. BlocksShown'
  <2>1. \A c \in Cell : HasBlock(c)' = IF c \in mud THEN FALSE ELSE HasBlock(c)
    BY <1>1 DEF HasBlock, NoBlock
  <2>2. \A c \in Cell : screen'[c].block = IF c \in mud THEN FALSE ELSE screen[c].block
    BY <1>14, <1>15
  <2>3. QED BY <1>4, <2>1, <2>2 DEF Shown, BlocksShown
<1>19. PotionsShown'
  <2> HIDE DEF mud
  <2>1. \A c \in Cell : potion_type'[c] = IF c \in mud THEN block[c].potion
                                          ELSE IF c \in swept THEN NoPotion
                                          ELSE potion_type[c]
    BY <1>1
  <2>2. \A c \in Cell : screen'[c].potion =
          IF c \in mud THEN block[c].potion
          ELSE IF c \in swept /\ potion_type[c] # NoPotion THEN NoPotion
          ELSE screen[c].potion
    BY <1>14, <1>15
  <2>3. QED BY <1>4, <2>1, <2>2 DEF Shown, PotionsShown, OpenFromStart
<1>20. Written'
  <2>1. Dead \subseteq Dead'
    BY <1>5 DEF Ageing, Aged, Dead, Alive
  <2>2. mover' = NoPlayer
    BY <1>1, NobodyMoves
  <2>3. QED BY <1>1, <1>11, <2>1, <2>2 DEF LogInv, Written
<1>21. game_status' = "FLUSHING" /\ Shown'
  BY <1>1, <1>3, <1>16, <1>17, <1>18, <1>19 DEF Shown
<1>22. QED BY <1>20, <1>21 DEF LogInv

-----------------------------------------------------------------------------
(* The map at the beginning.                                                 *)

(* Whoever joins gets a cell of his own.                                     *)
LEMMA WaitingAddPlayer ==
    ASSUME TypeOK, BirthsApart, Waiting, NEW p \in PlayerId, AddPlayer(p)
    PROVE  Waiting'
<1> DEFINE n == Cardinality(Joined)
<1>1. PICK l \in Layouts :
        /\ potion_type = l.potion
        /\ player_birth = l.birth
        /\ \A q \in Joined : \E i \in 0 .. n - 1 : player_map[q].pos = l.birth[i]
        /\ \A q, r \in Joined : player_map[q].pos = player_map[r].pos => q = r
  BY DEF Waiting
<1>2. /\ potion_type' = potion_type /\ player_birth' = player_birth
      /\ p \notin Joined
      /\ player_map' = [q \in Joined \cup {p} |->
                          IF q = p THEN NewPlayer(l.birth[n]) ELSE player_map[q]]
  BY <1>1 DEF AddPlayer
<1>3. n \in Nat /\ n < kPlayerDefaultNum /\ kPlayerDefaultNum \in Nat
  BY GameAssumption, JoinedFinite DEF TypeOK, AddPlayer
<1>4. Joined' = Joined \cup {p} /\ Cardinality(Joined') = n + 1
  <2>1. Joined' = Joined \cup {p}
    BY <1>2 DEF Joined
  <2>2. IsFiniteSet(Joined)
    BY JoinedFinite DEF TypeOK
  <2> HIDE DEF Joined
  <2>3. Cardinality(Joined \cup {p}) = n + 1
    BY <1>2, <2>2, FS_AddElement
  <2>4. QED BY <2>1, <2>3
<1>5. /\ player_map'[p].pos = l.birth[n]
      /\ \A q \in Joined : player_map'[q].pos = player_map[q].pos
  BY <1>2 DEF NewPlayer
<1> HIDE DEF n
<1>6. \A q \in Joined : player_map[q].pos # l.birth[n]
  BY <1>1, <1>3 DEF BirthsApart
<1>7. \A q \in Joined' : \E i \in 0 .. (n + 1) - 1 : player_map'[q].pos = l.birth[i]
  <2>1. n \in 0 .. (n + 1) - 1 /\ \A i \in 0 .. n - 1 : i \in 0 .. (n + 1) - 1
    BY <1>3
  <2>2. QED BY <1>1, <1>4, <1>5, <2>1
<1>8. \A q, r \in Joined' : player_map'[q].pos = player_map'[r].pos => q = r
  BY <1>1, <1>4, <1>5, <1>6
<1>9. potion_type' = l.potion /\ player_birth' = l.birth
  BY <1>1, <1>2
<1>10. \A q \in Joined' : \E i \in 0 .. Cardinality(Joined') - 1 :
         player_map'[q].pos = l.birth[i]
  BY <1>4, <1>7
<1> HIDE DEF Joined
<1>11. QED BY <1>8, <1>9, <1>10 DEF Waiting

(* The map is written when the last player has joined.                       *)
LEMMA LogTheMap ==
    ASSUME TypeOK, TypeOK', PlayerPlacement', CellExclusive', Waiting', LogMap,
           gone' = {}, Alive' = Joined', mover' = NoPlayer,
           \A c \in Cell : bomb_id'[c] = NoBomb
    PROVE  screen' \in Screen /\ Shown'
<1> DEFINE object(c) == CHOOSE o \in ObjectOf(EngineArea(c)') : TRUE
<1>1. screen' = [c \in Cell |-> AreaOf(object(c))]
  BY DEF LogMap, ScreenOf
<1>2. \A q \in Joined' : q \in PlayerId /\ q # NoPlayer /\ ShownAs(q) \in Label
  BY GameAssumption, Labelled DEF TypeOK
<1>3. ASSUME NEW c \in Cell
      PROVE  /\ AreaOf(object(c)) \in Area
             /\ AreaOf(object(c)).bomb = FALSE
             /\ AreaOf(object(c)).block = HasBlock(c)'
             /\ AreaOf(object(c)).potion = NoPotion
             /\ potion_type'[c] # NoPotion => OpenFromStart(c)
             /\ AreaOf(object(c)).players = {ShownAs(q) : q \in ShownIn(c)'}
  <2> DEFINE shown == {ShownAs(q) : q \in players'[c]}
             open == potion_type'[c]
             solid == HasBlock(c)'
  <2>1. ObjectOf(EngineArea(c)') =
          IF solid THEN {MAP_OBJECT_BLOCK}
          ELSE IF shown # {} THEN shown
          ELSE IF open = NoPotion THEN {MAP_OBJECT_EMPTY}
          ELSE {MAP_OBJECT_UNKNOWN}
    BY DEF EngineArea, ObjectOf, ShownAs
  <2>2. players'[c] \subseteq Joined'
    BY DEF TypeOK
  <2>3. ShownIn(c)' = players'[c]
    <3>1. ShownIn(c)' = {q \in Joined' : player_map'[q].pos = c}
      BY <1>2 DEF ShownIn
    <3>2. \A q \in players'[c] : player_map'[q].pos = c
      BY DEF PlayerPlacement
    <3>3. \A q \in Joined' : q \in players'[player_map'[q].pos]
      BY DEF PlayerPlacement
    <3>4. QED BY <2>2, <3>1, <3>2, <3>3
  <2>4. \A q, r \in players'[c] : q = r
    <3>1. \A q, r \in Joined' : player_map'[q].pos = player_map'[r].pos => q = r
      BY DEF Waiting
    <3>2. \A q \in players'[c] : player_map'[q].pos = c
      BY DEF PlayerPlacement
    <3>3. QED BY <2>2, <3>1, <3>2
  <2>5. shown \subseteq Label /\ \A x, y \in shown : x = y
    BY <1>2, <2>2, <2>4
  <2>6. solid => shown = {}
    BY DEF CellExclusive
  <2>7. open # NoPotion => OpenFromStart(c)
    <3>1. \E l \in Layouts : potion_type' = l.potion
      BY DEF Waiting
    <3>2. QED BY <3>1 DEF OpenFromStart
  <2>8. PICK o : o = object(c)
    OBVIOUS
  <2> HIDE DEF shown, open, solid
  <2>9. \/ solid /\ o = 5
        \/ ~solid /\ shown = {o}
        \/ ~solid /\ shown = {} /\ o \in {4, 7}
    <3>1. o \in ObjectOf(EngineArea(c)')
      BY <2>1, <2>8
    <3> HIDE DEF object
    <3>2. CASE solid
      BY <2>1, <3>1, <3>2 DEF MAP_OBJECT_BLOCK
    <3>3. CASE ~solid /\ shown # {}
      <4>1. o \in shown
        BY <2>1, <3>1, <3>3
      <4>2. QED BY <2>5, <3>3, <4>1
    <3>4. CASE ~solid /\ shown = {}
      BY <2>1, <3>1, <3>4 DEF MAP_OBJECT_EMPTY, MAP_OBJECT_UNKNOWN
    <3>5. QED BY <3>2, <3>3, <3>4
  <2> HIDE DEF object
  <2>10. /\ AreaOf(o).players = {o} \cap Label
         /\ AreaOf(o).bomb = (o = 6)
         /\ AreaOf(o).block = (o = 5)
         /\ AreaOf(o).potion = NoPotion
    BY DEF AreaOf, MAP_OBJECT_BOMB, MAP_OBJECT_BLOCK
  <2>11. AreaOf(o) \in Area
    <3>1. PICK pl \in SUBSET Label, bo \in BOOLEAN, bl \in BOOLEAN :
            pl = {o} \cap Label /\ bo = (o = 6) /\ bl = (o = 5)
      OBVIOUS
    <3>2. AreaOf(o) = [players |-> pl, bomb |-> bo, block |-> bl, potion |-> NoPotion]
      BY <3>1 DEF AreaOf, MAP_OBJECT_BOMB, MAP_OBJECT_BLOCK
    <3>3. NoPotion \in PotionType
      BY DEF PotionType
    <3>4. QED BY <3>2, <3>3 DEF Area
  <2>12. o # 6 /\ (o = 5 <=> solid) /\ {o} \cap Label = shown
    <3>1. CASE solid /\ o = 5
      BY <2>6, <3>1 DEF Label
    <3>2. CASE ~solid /\ shown = {o}
      <4>1. o \in Label
        BY <2>5, <3>2
      <4>2. o # 5 /\ o # 6
        BY <4>1 DEF Label
      <4>3. QED BY <3>2, <4>1, <4>2
    <3>3. CASE ~solid /\ shown = {} /\ o \in {4, 7}
      BY <3>3 DEF Label
    <3>4. QED BY <2>9, <3>1, <3>2, <3>3
  <2>13. shown = {ShownAs(q) : q \in ShownIn(c)'}
    BY <2>3 DEF shown
  <2>14. AreaOf(o).bomb = FALSE /\ AreaOf(o).block = solid
    BY <2>10, <2>12 DEF solid, HasBlock
  <2>15. QED BY <2>7, <2>8, <2>10, <2>11, <2>12, <2>13, <2>14 DEF open, solid
<1> HIDE DEF object
<1>4. screen' \in Screen
  BY <1>1, <1>3 DEF Screen
<1>5. \A c \in Cell : screen'[c] = AreaOf(object(c))
  BY <1>1
<1>6. PlayersShown'
  BY <1>3, <1>5 DEF PlayersShown, ShownAs
<1>7. BombsShown' /\ BlocksShown'
  BY <1>3, <1>5 DEF BombsShown, BlocksShown
<1>8. PotionsShown'
  BY <1>3, <1>5 DEF PotionsShown, OpenFromStart
<1>9. QED BY <1>4, <1>6, <1>7, <1>8 DEF Shown

(* While players join nothing is written, and then the map.                  *)
LEMMA LogAddPlayer ==
    ASSUME BirthsApart, TypeOK, TypeOK', PlayerPlacement', CellExclusive',
           BombRegistry, Setup, LogInv, NEW p \in PlayerId, LoggedAddPlayer(p)
    PROVE  LogInv'
<1>1. /\ AddPlayer(p) /\ game_status = "WAIT_PLAYER" /\ phase = "idle"
      /\ UNCHANGED <<mover, gone, old_pos, bomb_id>>
      /\ game_status' \in {"WAIT_ACTION", "WAIT_PLAYER"}
  BY DEF LoggedAddPlayer, AddPlayer, meeting
<1>2. mover' = NoPlayer /\ gone' = {} /\ Alive = Joined /\ screen \in Screen
  BY <1>1, NobodyMoves DEF LogInv, Written
<1>3. Waiting'
  BY <1>1, WaitingAddPlayer DEF LogInv
<1>4. Alive' = Joined'
  <2>1. /\ player_map' = [q \in Joined \cup {p} |->
              IF q = p THEN NewPlayer(player_birth[Cardinality(Joined)])
              ELSE player_map[q]]
    BY <1>1 DEF AddPlayer
  <2>2. ~IsDead(NewPlayer(player_birth[Cardinality(Joined)]))
    BY DEF NewPlayer, IsDead
  <2>3. \A q \in Joined : ~IsDead(player_map[q])
    BY <1>2 DEF Alive
  <2>4. Joined' = Joined \cup {p}
    BY <2>1 DEF Joined
  <2>5. \A q \in Joined' : ~IsDead(player_map'[q])
    BY <2>1, <2>2, <2>3, <2>4
  <2>6. QED BY <2>5 DEF Alive, IsDead
<1>5. CASE game_status' = "WAIT_ACTION"
  <2>1. \A c \in Cell : bomb_id'[c] = NoBomb
    BY <1>1 DEF Setup, BombRegistry
  <2>2. LogMap
    BY <1>5 DEF LoggedAddPlayer
  <2>3. screen' \in Screen /\ Shown'
    BY <1>2, <1>3, <1>4, <2>1, <2>2, LogTheMap
  <2>4. Written'
    BY <1>2, <2>3 DEF Written
  <2>5. QED BY <1>5, <2>3, <2>4 DEF LogInv
<1>6. CASE game_status' = "WAIT_PLAYER"
  <2>1. screen' = Replayed(<< >>, screen)
    BY <1>6 DEF LoggedAddPlayer, Log
  <2>2. screen' = screen
    BY <1>2, <2>1, ReplayedScreen, EmptySeq
  <2>3. Written'
    BY <1>2, <2>2 DEF Written
  <2>4. ~Recording'
    BY <1>6 DEF Recording
  <2>5. QED BY <1>2, <1>3, <1>4, <1>6, <2>3, <2>4 DEF LogInv
<1>7. QED BY <1>1, <1>5, <1>6

-----------------------------------------------------------------------------
(* The log agrees with the engine.                                           *)

(* No step changes the state of the engine and of its log.                   *)
LEMMA LogStutter ==
    ASSUME LogInv, UNCHANGED <<vars, log_vars>>
    PROVE  LogInv'
<1>1. UNCHANGED <<game_status, player_birth, player_map, players, bomb_id, block,
                  potion_type, mover, screen, old_pos, gone>>
  BY DEF vars, log_vars, match, board, meeting
<1>2. Joined' = Joined /\ Alive' = Alive /\ Dead' = Dead
  BY <1>1 DEF Joined, Alive, Dead
<1>3. Written' <=> Written
  BY <1>1, <1>2 DEF Written
<1>4. Waiting => Waiting'
  BY <1>1, <1>2 DEF Waiting
<1>5. Shown => Shown'
  <2>1. \A p \in Joined : Place(p)' = Place(p)
    BY <1>1 DEF Place
  <2>2. QED BY <1>1, <1>2, <2>1, ShownFrame
<1>6. QED BY <1>1, <1>2, <1>3, <1>4, <1>5 DEF LogInv, Recording

(* Every step leaves the log true.                                           *)
LEMMA LogStep ==
    ASSUME BirthsApart, EngineInv, EngineInv', LogInv, [LogNext]_<<vars, log_vars>>
    PROVE  LogInv'
<1>1. /\ TypeOK /\ BombRegistry /\ Setup
      /\ TypeOK' /\ PlayerPlacement' /\ CellExclusive'
  BY DEF EngineInv, Grounds
<1>2. CASE \/ Unlogged \/ LoggedReset \/ LoggedFinishMove
           \/ LoggedExplode \/ LoggedFinishFlush
  BY <1>1, <1>2, LogUnlogged, LogReset, LogFinishMove, LogExplode, LogFinishFlush
<1>3. ASSUME NEW p \in PlayerId, LoggedAddPlayer(p)
      PROVE  LogInv'
  BY <1>1, <1>3, LogAddPlayer
<1>4. ASSUME NEW p \in PlayerId, NEW b \in BombId, LoggedPlaceBomb(p, b)
      PROVE  LogInv'
  BY <1>1, <1>4, LogPlaceBomb
<1>5. ASSUME NEW p \in PlayerId, NEW d \in Direction, LoggedMoveTo(p, d)
      PROVE  LogInv'
  BY <1>1, <1>5, LogMoveTo
<1>6. ASSUME NEW b \in BombId, LoggedGlideBomb(b)
      PROVE  LogInv'
  BY <1>1, <1>6, LogGlideBomb
<1>7. QED BY <1>2, <1>3, <1>4, <1>5, <1>6, LogStutter DEF LogNext

(* The engine keeps what the log rests on.                                   *)
LEMMA EngineKeeps == Spec => []EngineInv
<1>1. Init => Setup
  BY DEF Init, Setup, Bombs
<1>2. TypeOK /\ Setup /\ [Next]_vars => Setup'
  BY SetupNext
<1>3. TypeOK /\ BombRegistry /\ PlayerPlacement /\ Setup /\ CellExclusive => EngineInv
  BY DEF EngineInv, Grounds
<1>4. QED
  BY <1>1, <1>2, <1>3, TypeCorrect, BombsRegistered, PlayersPlaced, CellsExclusive, PTL
     DEF Spec

(* The invariant holds from the first step on, provided that no two players  *)
(* start in the same cell, because the map that is written shows one player  *)
(* of a cell.                                                                *)
LEMMA LogAlways ==
    ASSUME BirthsApart
    PROVE  LogSpec => []LogInv
<1>1. LogInit => LogInv
  <2>1. ASSUME LogInit PROVE LogInv
    <3>1. /\ game_status = "UNINIT" /\ player_map = << >> /\ mover = NoPlayer
          /\ screen = Blank /\ gone = {}
      BY <2>1 DEF LogInit, Init
    <3>2. Joined = {} /\ Alive = {}
      BY <3>1 DEF Joined, Alive
    <3>3. Blank \in Screen
      BY ReplayAssumption DEF Blank, AreaOf, Screen, Area, Label, PotionType
    <3>4. QED BY <3>1, <3>2, <3>3 DEF LogInv, Written, Recording, Dead
  <2>2. QED BY <2>1
<1>2. EngineInv /\ EngineInv' /\ LogInv /\ [LogNext]_<<vars, log_vars>> => LogInv'
  BY LogStep
<1>3. QED BY <1>1, <1>2, LoggedEngine, EngineKeeps, PTL DEF LogSpec

(* The log tells the whole truth about the map after every step: replayed    *)
(* from its beginning it shows exactly the bombs, the blocks, the potions    *)
(* and the players, each in his cell.                                        *)
THEOREM ReplayCorrect ==
    ASSUME BirthsApart
    PROVE  LogSpec => []ReplayAgrees
<1>1. LogInv => ReplayAgrees
  BY ShownAgrees DEF LogInv
<1>2. QED BY <1>1, LogAlways, PTL

-----------------------------------------------------------------------------
(* The entries agree with the screen.                                        *)

(* Without entries there is nothing to agree with.                           *)
LEMMA FitNothing ==
    ASSUME NEW es, NEW s, es = << >> \/ \E m : es = <<[map |-> m]>>
    PROVE  Fit(es, s)
<1>1. CASE es = << >>
  BY <1>1 DEF Fit
<1>2. ASSUME NEW m, es = <<[map |-> m]>> PROVE Fit(es, s)
  <2>1. Len(es) = 1 /\ es[1] = [map |-> m]
    BY <1>2
  <2>2. ~IsEvent(es[1])
    BY <2>1 DEF IsEvent
  <2>3. QED BY <2>1, <2>2 DEF Fit, Fits
<1>3. QED BY <1>1, <1>2

(* A bomb is placed where none is shown.                                     *)
LEMMA FitPlaceBomb ==
    ASSUME TypeOK, LogInv, NEW p \in PlayerId, NEW b \in BombId, LoggedPlaceBomb(p, b)
    PROVE  Fit(logged', screen)
<1>1. PICK pos \in Cell : pos = player_map[p].pos
  BY DEF LoggedPlaceBomb, PlaceBomb, CanAct, TypeOK, PlayerRecord
<1>2. /\ game_status = "WAIT_ACTION" /\ bomb_id[pos] = NoBomb
      /\ logged' = <<At("BOMB_APPEAR", pos)>>
  BY <1>1 DEF LoggedPlaceBomb, PlaceBomb, CanAct, Log, MayPlace, Obstructed
<1>3. screen \in Screen /\ ~screen[pos].bomb
  BY <1>2 DEF LogInv, Written, Recording, Shown, BombsShown
<1>4. PICK e \in Event : e = At("BOMB_APPEAR", pos)
  BY BombAppears
<1>5. Fits(e, screen)
  BY <1>3, <1>4, BombAppears
<1>6. QED BY <1>2, <1>3, <1>4, <1>5, ReplayedOne

(* A bomb glides away from where it is shown, to where none is.              *)
LEMMA FitGlideBomb ==
    ASSUME TypeOK, BombRegistry, LogInv, NEW b \in BombId, LoggedGlideBomb(b)
    PROVE  Fit(logged', screen)
<1>1. phase = "bomb_move" /\ b \in Bombs /\ NextPos(b) \in Cell
  BY DEF LoggedGlideBomb, GlideBomb, TypeOK
<1>2. PICK from \in Cell, to \in Cell : from = bomb_map[b].pos /\ to = NextPos(b)
  BY <1>1 DEF TypeOK, BombRecord
<1>3. /\ game_status = "FLUSHING" /\ bomb_id[to] = NoBomb
      /\ logged' = <<At("BOMB_DISAPPEAR", from), At("BOMB_APPEAR", to)>>
  BY <1>1, <1>2
     DEF LoggedGlideBomb, GlideBomb, Log, GlideEntries, FreeForBomb, Obstructed, TypeOK
<1>4. bomb_id[from] # NoBomb
  BY <1>1, <1>2, GameAssumption DEF BombRegistry
<1>5. screen \in Screen /\ screen[from].bomb /\ ~screen[to].bomb
  BY <1>3, <1>4 DEF LogInv, Written, Recording, Shown, BombsShown
<1>6. PICK v \in Event, w \in Event :
        v = At("BOMB_DISAPPEAR", from) /\ w = At("BOMB_APPEAR", to)
  BY BombAppears, BombDisappears
<1>7. PICK z \in Screen : z = Applied(v, screen)
  BY <1>5, AppliedScreen
<1>8. z[to] = screen[to]
  <2>1. z[to] = IF to = from THEN [screen[to] EXCEPT !.bomb = FALSE] ELSE screen[to]
    BY <1>5, <1>6, <1>7, BombDisappears
  <2>2. QED BY <1>5, <2>1
<1>9. Fits(v, screen)
  BY <1>5, <1>6, BombDisappears
<1>10. Fits(w, z)
  BY <1>5, <1>6, <1>8, BombAppears
<1>11. Fit(<<v, w>>, screen)
  BY <1>5, <1>7, <1>9, <1>10, ReplayedTwo
<1>12. QED BY <1>3, <1>6, <1>11

(* What a blast takes away is shown when the bomb is gone.                   *)
LEMMA FitExplode ==
    ASSUME TypeOK, BombRegistry, LogInv, LoggedExplode
    PROVE  Fit(logged', screen)
<1>1. PICK b \in Bombs : b = Head(bomb_que)
  BY DEF LoggedExplode, Explode
<1>2. PICK pos \in Cell : pos = bomb_map[b].pos
  BY DEF TypeOK, BombRecord
<1>3. PICK S \in SUBSET Cell : S = Swept(pos, BlastCells(pos, bomb_map[b].range))
  BY DEF BlastCells, ArmCells, Swept
<1>4. logged' = <<At("BOMB_DISAPPEAR", pos)>> \o SweptEntries(S)
  BY <1>1, <1>2, <1>3 DEF LoggedExplode, Log, ExplodeEntries, SweptEntries
<1>5. game_status = "FLUSHING" /\ bomb_id[pos] # NoBomb
  BY <1>2, GameAssumption DEF LoggedExplode, Explode, TypeOK, BombRegistry
<1>6. screen \in Screen /\ Shown
  BY <1>5 DEF LogInv, Written, Recording
<1>7. PICK e \in Event : e = At("BOMB_DISAPPEAR", pos)
  BY BombDisappears
<1>8. PICK z \in Screen : z = Applied(e, screen)
  BY <1>6, AppliedScreen
<1>9. PICK j \in Seq(Event) : j = <<e>> /\ Replayed(j, screen) = z /\ Fit(j, screen)
  <2>1. Fits(e, screen)
    BY <1>5, <1>6, <1>7, BombDisappears DEF Shown, BombsShown
  <2>2. QED BY <1>6, <1>8, <2>1, ReplayedOne
<1>10. \A c \in Cell : z[c].block = screen[c].block /\ z[c].potion = screen[c].potion
  <2>1. \A c \in Cell : screen[c] \in Area
    BY <1>6 DEF Screen
  <2>2. \A c \in Cell : z[c] = IF c = pos THEN [screen[c] EXCEPT !.bomb = FALSE]
                               ELSE screen[c]
    BY <1>6, <1>7, <1>8, BombDisappears
  <2>3. QED BY <2>1, <2>2 DEF Area
<1>11. \A c \in S : Sweepable(c, z[c])
  <2>1. ASSUME NEW c \in Cell PROVE Sweepable(c, z[c])
    <3>1. screen[c].block = HasBlock(c)
      BY <1>6 DEF Shown, BlocksShown
    <3>2. \/ screen[c].potion = potion_type[c]
          \/ OpenFromStart(c) /\ screen[c].potion = NoPotion
      BY <1>6 DEF Shown, PotionsShown
    <3>3. IsBombAble(c) => HasBlock(c)
      BY DEF IsBombAble, HasBlock
    <3>4. QED BY <1>10, <3>1, <3>2, <3>3 DEF Sweepable
  <2>2. QED BY <2>1
<1>12. PICK k \in Seq(Event) : k = SweptEntries(S) /\ Fit(k, z)
  <2>1. SweptEntries(S) \in Seq(Event)
    BY SweptReplayed
  <2>2. Fit(SweptEntries(S), z)
    BY <1>11, SweptReplayed
  <2>3. QED BY <2>1, <2>2
<1>13. Fit(j \o k, screen)
  BY <1>6, <1>9, <1>12, FitConcat
<1>14. QED BY <1>4, <1>7, <1>9, <1>12, <1>13

(* A potion that is picked up was shown or known, and the mover is shown     *)
(* where he comes from and nowhere else.                                     *)
LEMMA FitFinishMove ==
    ASSUME TypeOK, LogInv, LoggedFinishMove
    PROVE  Fit(logged', screen)
<1>1. phase = "meet" /\ game_status = "WAIT_ACTION" /\ mover \in Joined /\ mover # NoPlayer
  BY GameAssumption DEF LoggedFinishMove, FinishMove, TypeOK
<1>2. /\ screen \in Screen /\ Shown
      /\ old_pos \in Cell /\ mover \notin gone
  BY <1>1 DEF LogInv, Written, Recording
<1>3. PICK p \in PlayerId, from \in Cell, to \in Cell, t \in PotionType :
        /\ p = mover /\ from = old_pos /\ to = player_map[mover].pos
        /\ t = potion_type[to]
  BY <1>1, <1>2 DEF TypeOK, PlayerRecord
<1>4. PICK k \in PotionType, y \in Event, v \in Event, w \in Event :
        /\ k = GetPotionType(t)
        /\ y = PotionAt("POTION_DISAPPEAR", k, to)
        /\ v = PlayerAt("PLAYER_DISAPPEAR", p, from)
        /\ w = PlayerAt("PLAYER_APPEAR", p, to)
  BY SaidType, PotionDisappears, PlayerDisappears, PlayerAppears
<1>5. logged' = (IF t = NoPotion THEN << >> ELSE <<y>>) \o <<v, w>>
  BY <1>3, <1>4 DEF LoggedFinishMove, Log, MoveEntries
<1>6. PICK a \in Seq(Event), z \in Screen :
        /\ a = IF t = NoPotion THEN << >> ELSE <<y>>
        /\ z = Replayed(a, screen)
        /\ Fit(a, screen)
        /\ \A c \in Cell : z[c].players = screen[c].players
  <2>1. CASE t = NoPotion
    <3>1. PICK a \in Seq(Event) : a = << >>
      BY EmptySeq
    <3>2. Replayed(a, screen) = screen /\ Fit(a, screen)
      BY <1>2, <3>1, ReplayedScreen
    <3>3. QED BY <1>2, <2>1, <3>1, <3>2
  <2>2. CASE t # NoPotion
    <3>1. PICK z \in Screen : z = Applied(y, screen)
      BY <1>2, AppliedScreen
    <3>2. Fits(y, screen)
      <4>1. screen[to].potion = t \/ OpenFromStart(to)
        BY <1>2, <1>3 DEF Shown, PotionsShown
      <4>2. k = t \/ (t = "GLOVES" /\ k = "INVINCIBLE")
        BY <1>4 DEF GetPotionType
      <4>3. QED BY <1>2, <1>4, <4>1, <4>2, PotionDisappears
    <3>3. PICK a \in Seq(Event) : a = <<y>> /\ Replayed(a, screen) = z /\ Fit(a, screen)
      BY <1>2, <3>1, <3>2, ReplayedOne
    <3>4. \A c \in Cell : z[c] = IF c = to THEN [screen[c] EXCEPT !.potion = NoPotion]
                                 ELSE screen[c]
      <4>1. y = PotionAt("POTION_DISAPPEAR", k, to)
        BY <1>4
      <4>2. QED BY <1>2, <3>1, <4>1, PotionDisappears
    <3>5. \A c \in Cell : screen[c] \in Area
      BY <1>2 DEF Screen
    <3>6. \A c \in Cell : z[c].players = screen[c].players
      BY <3>4, <3>5 DEF Area
    <3>7. QED BY <2>2, <3>3, <3>6
  <2>3. QED BY <2>1, <2>2
<1>7. /\ ShownAs(p) \in screen[from].players
      /\ to # from => ShownAs(p) \notin screen[to].players
  <2>1. ASSUME NEW c \in Cell
        PROVE  ShownAs(p) \in screen[c].players <=> c = from
    <3>1. screen[c].players = {ShownAs(q) : q \in ShownIn(c)}
      BY <1>2 DEF Shown, PlayersShown
    <3>2. p \in ShownIn(c) <=> c = from
      BY <1>1, <1>2, <1>3 DEF ShownIn
    <3>3. \A q \in ShownIn(c) : q \in PlayerId
      BY DEF ShownIn, TypeOK
    <3>4. \A q \in PlayerId : ShownAs(q) = ShownAs(p) => q = p
      BY Labelled
    <3> HIDE DEF ShownIn, ShownAs
    <3>5. QED BY <3>1, <3>2, <3>3, <3>4
  <2>2. QED BY <2>1
<1>8. PICK m \in Screen : m = Applied(v, z)
  BY AppliedScreen
<1>9. ShownAs(p) \notin m[to].players
  <2>1. m[to] = IF to = from THEN [z[to] EXCEPT !.players = z[to].players \ {ShownAs(p)}]
                ELSE z[to]
    BY <1>4, <1>8, PlayerDisappears
  <2>2. z[to] \in Area
    BY DEF Screen
  <2>3. QED BY <1>6, <1>7, <2>1, <2>2 DEF Area
<1>10. Fits(v, z)
  BY <1>4, <1>6, <1>7, PlayerDisappears
<1>11. Fits(w, m)
  BY <1>4, <1>9, PlayerAppears
<1>12. PICK b \in Seq(Event) : b = <<v, w>> /\ Fit(b, z)
  BY <1>8, <1>10, <1>11, ReplayedTwo
<1>13. Fit(a \o b, screen)
  BY <1>2, <1>6, <1>12, FitConcat
<1>14. QED BY <1>5, <1>6, <1>12, <1>13

(* Who is written off for the first time is shown where he died.             *)
LEMMA FitFinishFlush ==
    ASSUME TypeOK, LogInv, LoggedFinishFlush
    PROVE  Fit(logged', screen)
<1>1. PICK S : S = Joined \ Alive /\ S \subseteq Joined /\ IsFiniteSet(S)
  <2>1. Joined \subseteq PlayerId /\ Joined \ Alive \subseteq PlayerId
    BY DEF TypeOK
  <2>2. IsFiniteSet(Joined \ Alive)
    BY <2>1, GameAssumption, FS_Subset
  <2>3. QED BY <2>2
<1>2. PICK q \in Seq(Joined) :
        /\ q = SetToSeq(S)
        /\ \A i \in 1 .. Len(q) : q[i] \in S
        /\ \A i, j \in 1 .. Len(q) : q[i] = q[j] => i = j
  <2>1. /\ SetToSeq(S) \in Seq(S)
        /\ \A i, j \in 1 .. Len(SetToSeq(S)) : SetToSeq(S)[i] = SetToSeq(S)[j] => i = j
    BY <1>1, Enumerated
  <2>2. PICK r \in Seq(S) : r = SetToSeq(S)
    BY <2>1
  <2>3. r \in Seq(Joined) /\ \A i \in 1 .. Len(r) : r[i] \in S
    BY <1>1
  <2>4. QED BY <2>1, <2>2, <2>3
<1>3. phase = "explode" /\ game_status = "FLUSHING"
  BY DEF LoggedFinishFlush, FinishFlush, TypeOK
<1>4. logged' = Append(WrittenOff(q), At("FLUSH", <<0, 0>>))
  BY <1>1, <1>2 DEF LoggedFinishFlush, Log, JudgeEntries, WrittenOff
<1>5. screen \in Screen /\ Shown
  BY <1>3 DEF LogInv, Written, Recording
<1>6. OffOnce(q, screen)
  <2>1. ASSUME NEW i \in 1 .. Len(q), q[i] \notin gone
        PROVE  ShownAs(q[i]) \in screen[player_map[q[i]].pos].players
    <3>1. PICK p \in Joined : p = q[i]
      BY <1>1, <1>2
    <3>2. PICK c \in Cell : c = player_map[p].pos
      BY DEF TypeOK, PlayerRecord
    <3>3. p # mover
      BY <1>3, NobodyMoves, GameAssumption DEF TypeOK
    <3>4. p \in ShownIn(c)
      BY <2>1, <3>1, <3>2, <3>3 DEF ShownIn
    <3>5. screen[c].players = {ShownAs(r) : r \in ShownIn(c)}
      BY <1>5 DEF Shown, PlayersShown
    <3>6. ShownAs(p) \in screen[c].players
      BY <3>4, <3>5
    <3>7. QED BY <3>1, <3>2, <3>6
  <2>2. QED BY <1>2, <2>1 DEF OffOnce
<1>7. PICK d \in Seq(Event), z \in Screen :
        d = WrittenOff(q) /\ z = Replayed(d, screen) /\ Fit(d, screen)
  <2>1. WrittenOff(q) \in Seq(Event) /\ Replayed(WrittenOff(q), screen) \in Screen
    BY <1>5, WrittenOffReplayed
  <2>2. Fit(WrittenOff(q), screen)
    BY <1>5, <1>6, WrittenOffReplayed
  <2>3. QED BY <2>1, <2>2
<1>8. PICK e \in Event : e = At("FLUSH", <<0, 0>>) /\ Fits(e, z)
  <2>1. <<0, 0>> \in Cell
    BY GameAssumption DEF Cell
  <2>2. PICK pos \in Cell : pos = <<0, 0>>
    BY <2>1
  <2>3. At("FLUSH", pos) \in Event /\ Fits(At("FLUSH", pos), z)
    BY FlushShows
  <2>4. QED BY <2>2, <2>3
<1>9. PICK k \in Seq(Event) : k = <<e>> /\ Fit(k, z)
  BY <1>8, ReplayedOne
<1>10. Fit(d \o k, screen)
  BY <1>5, <1>7, <1>9, FitConcat
<1>11. Append(d, e) = d \o <<e>>
  BY AppendIsConcat
<1>12. QED BY <1>4, <1>7, <1>8, <1>9, <1>10, <1>11

(* Every entry fits the screen it will be applied to.                        *)
LEMMA FitStep ==
    ASSUME EngineInv, LogInv, LogNext
    PROVE  Fit(logged', screen)
<1>1. TypeOK /\ BombRegistry
  BY DEF EngineInv, Grounds
<1>2. CASE LoggedFinishMove \/ LoggedExplode \/ LoggedFinishFlush
  BY <1>1, <1>2, FitFinishMove, FitExplode, FitFinishFlush
<1>3. CASE Unlogged \/ LoggedReset
  <2>1. logged' = << >>
    BY <1>3 DEF Unlogged, LoggedReset
  <2>2. QED BY <2>1, FitNothing
<1>4. ASSUME NEW p \in PlayerId, LoggedAddPlayer(p)
      PROVE  Fit(logged', screen)
  <2>1. logged' = << >> \/ \E m : logged' = <<[map |-> m]>>
    BY <1>4 DEF LoggedAddPlayer, LogMap, Log
  <2>2. QED BY <2>1, FitNothing
<1>5. ASSUME NEW p \in PlayerId, NEW b \in BombId, LoggedPlaceBomb(p, b)
      PROVE  Fit(logged', screen)
  BY <1>1, <1>5, FitPlaceBomb
<1>6. ASSUME NEW p \in PlayerId, NEW d \in Direction, LoggedMoveTo(p, d)
      PROVE  Fit(logged', screen)
  <2>1. logged' = << >>
    BY <1>6 DEF LoggedMoveTo, Log
  <2>2. QED BY <2>1, FitNothing
<1>7. ASSUME NEW b \in BombId, LoggedGlideBomb(b)
      PROVE  Fit(logged', screen)
  BY <1>1, <1>7, FitGlideBomb
<1>8. QED BY <1>2, <1>3, <1>4, <1>5, <1>6, <1>7 DEF LogNext

(* Every entry agrees with the screen it will be applied to, but for the     *)
(* three kinds that the property names.                                      *)
THEOREM LogContractCorrect ==
    ASSUME BirthsApart
    PROVE  LogSpec => LogContract
<1>1. LogSpec => []LogInv
  BY LogAlways
<1>2. EngineInv /\ LogInv /\ [LogNext]_<<vars, log_vars>>
        => [Fit(logged', screen)]_<<vars, log_vars>>
  BY FitStep
<1>3. LogSpec => [][Fit(logged', screen)]_<<vars, log_vars>>
  BY <1>1, <1>2, LoggedEngine, EngineKeeps, PTL DEF LogSpec
<1>4. QED BY <1>3, PTL DEF LogContract, ScreenBefore, Fit, Fits

=============================================================================
