-------------------------------- MODULE Server ------------------------------
(* The game server: class EpollTcpServer (server.cpp) with the handlers of   *)
(* api.cpp that main.cpp registers with it.  One thread runs an event loop;  *)
(* a connection that becomes readable, a connection that ends and the timer  *)
(* of the rounds are its events, and each is handled to its end before the   *)
(* next one.  The timer's handler is the only long one: it calls the engine, *)
(* sends the outcome to the players and, when the match is over, throws      *)
(* everybody out and opens the next match.  It is a sequence of steps here,  *)
(* driven by the variable handler.                                           *)
(*                                                                           *)
(* The engine is the abstract match of Match.tla, which Game.tla implements. *)
(* The network library and the kernel are external: a descriptor that is not *)
(* in use may be given to the next connection, and a connection may end at   *)
(* any time between two events.                                              *)
EXTENDS Integers, FiniteSets, Functions

CONSTANTS
    Fd,                     \* descriptors the kernel may hand out
    NoFd,                   \* what is no descriptor, -1
    PlayerId,               \* the identifiers the player counter may yield
    kPlayerDefaultNum,
    kGameDefaultMaxRound,
    Mark                    \* the marks players may have, a bound

ASSUME ServerAssumption ==
    /\ NoFd \notin Fd
    /\ kPlayerDefaultNum \in 2 .. 4
    /\ kGameDefaultMaxRound \in Nat
    /\ 0 \in Mark /\ Mark \subseteq Int

VARIABLES
    status, joined, alive, marks, round, winners,  \* the engine
    conn,          \* descriptors of open connections
    fd2PlayerId,   \* the player a descriptor speaks for
    fd2msg,        \* the message of the last round for a descriptor
    told,          \* what the peer of a connection was last sent
    handler,       \* where the handler of the timer is
    brought,       \* history: the players each connection brought into the match
    lost           \* history: connections of which an error took a player

engine == <<status, joined, alive, marks, round, winners>>
tables == <<fd2PlayerId, fd2msg>>
history == <<brought, lost>>
vars == <<engine, conn, tables, told, handler, history>>

Engine == INSTANCE Match

(* "idle" is the event loop, the rest are the stages of on_timer_tick.       *)
Handler == {"idle", "flush", "report", "reset", "open"}

(* What handle_timer_intr sends: the map after a round to each player, under *)
(* his own identifier, or the result of the match to all.                    *)
Message == [type : {"Action"}, player_id : PlayerId, round : Nat]
             \cup [type : {"GameOver"}, winner_ids : SUBSET PlayerId]

Nothing == [type |-> "Nothing"]

Speakers == DOMAIN fd2PlayerId

(* main opens a first match before it enters the event loop.                 *)
Init ==
    /\ Engine!Init
    /\ conn = {}
    /\ fd2PlayerId = << >>
    /\ fd2msg = << >>
    /\ told = << >>
    /\ handler = "open"
    /\ brought = << >>
    /\ lost = {}

-----------------------------------------------------------------------------
(* Connections.                                                              *)

(* on_accept: the descriptor may have belonged to somebody else before.      *)
Accept(fd) ==
    /\ handler = "idle"
    /\ fd \in Fd \ conn
    /\ conn' = conn \cup {fd}
    /\ told' = [f \in conn' |-> IF f = fd THEN Nothing ELSE told[f]]
    /\ brought' = [f \in conn' |-> IF f = fd THEN {} ELSE brought[f]]
    /\ UNCHANGED <<engine, tables, handler, lost>>

(* The library forgets the number when it closes the descriptor.             *)
FdAfterClose_Mutant(fd) == NoFd

(* on_read erases the tables after soc.Close(), with soc.fd(): it relies on  *)
(* Close leaving the number in the socket.                                   *)
FdAfterClose(fd) == fd

(* A connection that ends stays in the table.                                *)
Erased_Mutant(table, fd) == table

Erased(table, fd) == Restrict(table, DOMAIN table \ {fd})

(* The connection of fd is gone, and the tables are erased at entry.         *)
Drop(fd, entry) ==
    /\ conn' = conn \ {fd}
    /\ told' = Restrict(told, conn')
    /\ fd2PlayerId' = Erased(fd2PlayerId, entry)
    /\ fd2msg' = Erased(fd2msg, entry)
    /\ brought' = Restrict(brought, conn')
    /\ lost' = lost \ {fd}
    /\ UNCHANGED <<engine, handler>>

(* on_read finds the peer gone, or a length or body it cannot read.          *)
CloseOnRead(fd) ==
    /\ handler = "idle"
    /\ fd \in conn
    /\ Drop(fd, FdAfterClose(fd))

(* on_leave: the library reports that the peer has left, or an error.        *)
Leave(fd) ==
    /\ handler = "idle"
    /\ fd \in conn
    /\ Drop(fd, fd)

(* An error that does not end the connection: its player is forgotten, and   *)
(* the peer may ask to join again, in the same match.                        *)
Error(fd) ==
    /\ handler = "idle"
    /\ fd \in conn
    /\ fd2PlayerId' = Erased(fd2PlayerId, fd)
    /\ fd2msg' = Erased(fd2msg, fd)
    /\ lost' = lost \cup ({fd} \cap Speakers)
    /\ UNCHANGED <<engine, conn, told, handler, brought>>

-----------------------------------------------------------------------------
(* Requests.  One that cannot be parsed, has another type, comes at another  *)
(* time or is refused by the engine changes nothing.                         *)

(* Whoever asks to join may, known or not.                                   *)
MayJoin_Mutant(fd) == fd \in conn

(* handle_init is reached only while the descriptor has no player.           *)
MayJoin(fd) == fd \in conn \ Speakers

(* Init request: the engine adds a player and the descriptor speaks for him. *)
InitReq(fd, p) ==
    /\ handler = "idle"
    /\ MayJoin(fd)
    /\ Engine!Join(p)
    /\ fd2PlayerId' = [f \in Speakers \cup {fd} |->
                         IF f = fd THEN p ELSE fd2PlayerId[f]]
    /\ brought' = [brought EXCEPT ![fd] = @ \cup {p}]
    /\ UNCHANGED <<conn, fd2msg, told, handler, lost>>

(* The marks and deaths a bounded step of the engine may produce.            *)
Play ==
    /\ alive' \in SUBSET alive
    /\ marks' \in [joined -> Mark]
    /\ Engine!Play

(* Action request, one action or an array of them, by a living player.       *)
ActionReq(fd) ==
    /\ handler = "idle"
    /\ status = "WAIT_ACTION"
    /\ fd \in conn \cap Speakers
    /\ fd2PlayerId[fd] \in alive
    /\ Play
    /\ UNCHANGED <<conn, tables, told, handler, history>>

-----------------------------------------------------------------------------
(* The timer.                                                                *)

(* Every message in the table is sent; a peer that has gone gets nothing.    *)
Delivered(msgs) ==
    [f \in conn |-> IF f \in DOMAIN msgs THEN msgs[f] ELSE told[f]]

(* No match is being played: handle_timer_intr returns at once, and what is  *)
(* left in the table is sent again.                                          *)
IdleTick ==
    /\ handler = "idle"
    /\ status # "WAIT_ACTION"
    /\ told' = Delivered(fd2msg)
    /\ UNCHANGED <<engine, conn, tables, handler, history>>

(* handle_timer_intr calls FlushTime.                                        *)
Tick ==
    /\ handler = "idle"
    /\ Engine!Tick
    /\ handler' = "flush"
    /\ UNCHANGED <<conn, tables, told, history>>

(* Bombs explode.                                                            *)
Burn ==
    /\ handler = "flush"
    /\ Play
    /\ UNCHANGED <<conn, tables, told, handler, history>>

(* FlushTime returns.                                                        *)
Judge ==
    /\ handler = "flush"
    /\ Engine!NextRound \/ Engine!Survive \/ Engine!Decide
    /\ handler' = "report"
    /\ UNCHANGED <<conn, tables, told, history>>

(* The message of this round, or of the end, for the player of fd.           *)
MessageFor(fd) ==
    IF status = "GAME_OVER"
    THEN [type |-> "GameOver", winner_ids |-> winners]
    ELSE [type |-> "Action", player_id |-> fd2PlayerId[fd], round |-> round]

(* A message is put into the table only where there is none.                 *)
Reports_Emplace_Mutant ==
    [f \in DOMAIN fd2msg \cup Speakers |->
        IF f \in DOMAIN fd2msg THEN fd2msg[f] ELSE MessageFor(f)]

(* The end of the match is returned before the messages are written.         *)
Reports_Return_Mutant ==
    IF status = "GAME_OVER" THEN fd2msg
    ELSE [f \in DOMAIN fd2msg \cup Speakers |->
             IF f \in Speakers THEN MessageFor(f) ELSE fd2msg[f]]

(* fd2msg_ after handle_timer_intr: entries of players are overwritten.      *)
Reports ==
    [f \in DOMAIN fd2msg \cup Speakers |->
        IF f \in Speakers THEN MessageFor(f) ELSE fd2msg[f]]

(* The end of a match is not noticed.                                        *)
MustReset_Mutant == FALSE

(* handle_timer_intr returns true after the last round only.                 *)
MustReset == status = "GAME_OVER"

(* handle_timer_intr fills the table and on_timer_tick sends it.             *)
Report ==
    /\ handler = "report"
    /\ fd2msg' = Reports
    /\ told' = Delivered(fd2msg')
    /\ handler' = IF MustReset THEN "reset" ELSE "idle"
    /\ UNCHANGED <<engine, conn, fd2PlayerId, history>>

(* reset: the connections of players are closed, those of others are not;    *)
(* then game_reset calls Game::Reset.                                        *)
Reset ==
    /\ handler = "reset"
    /\ conn' = conn \ Speakers
    /\ told' = Restrict(told, conn')
    /\ fd2PlayerId' = << >>
    /\ fd2msg' = << >>
    /\ Engine!Close
    /\ handler' = "open"
    /\ brought' = [f \in conn' |-> {}]
    /\ lost' = {}

(* Game::Init; should it find no valid map, nothing calls it again.          *)
Open ==
    /\ handler = "open"
    /\ Engine!Open \/ UNCHANGED engine
    /\ handler' = "idle"
    /\ UNCHANGED <<conn, tables, told, history>>

-----------------------------------------------------------------------------

(* The steps of the timer's handler once it runs.                            *)
Continue == Judge \/ Report \/ Reset \/ Open

Next ==
    \/ \E fd \in Fd : Accept(fd)
    \/ \E fd \in Fd : CloseOnRead(fd)
    \/ \E fd \in Fd : Leave(fd)
    \/ \E fd \in Fd : Error(fd)
    \/ \E fd \in Fd, p \in PlayerId : InitReq(fd, p)
    \/ \E fd \in Fd : ActionReq(fd)
    \/ IdleTick
    \/ Tick
    \/ Burn
    \/ Continue

Spec == Init /\ [][Next]_vars

(* The handler runs to its end, FlushTime included (Judged of Match.tla, an  *)
(* engine's promise that Game.tla keeps), and the timer goes on ticking.     *)
FairSpec == Spec /\ WF_vars(Continue) /\ WF_vars(Tick)

-----------------------------------------------------------------------------
(* What the server promises.                                                 *)

(* Every variable has its type.  The engine judges rounds only under the     *)
(* handler of the timer, and a match is over only until this handler has     *)
(* thrown everybody out.                                                     *)
ServerTypeOK ==
    /\ status \in {"UNINIT", "WAIT_PLAYER", "WAIT_ACTION", "FLUSHING", "GAME_OVER"}
    /\ alive \subseteq joined /\ joined \subseteq PlayerId /\ winners \subseteq joined
    /\ marks \in [joined -> Int]
    /\ round \in Nat
    /\ conn \subseteq Fd
    /\ Speakers \subseteq Fd
    /\ fd2PlayerId \in [Speakers -> PlayerId]
    /\ DOMAIN fd2msg \subseteq Fd
    /\ \A fd \in DOMAIN fd2msg : fd2msg[fd] \in Message
    /\ DOMAIN told = conn
    /\ \A fd \in conn : told[fd] \in Message \cup {Nothing}
    /\ handler \in Handler
    /\ handler = "flush" <=> status = "FLUSHING"
    /\ handler = "reset" => status = "GAME_OVER"
    /\ status = "GAME_OVER" => handler \in {"report", "reset"}
    /\ handler = "open" => status = "UNINIT"
    /\ handler = "report" => status \in {"WAIT_ACTION", "GAME_OVER"}
    /\ brought \in [conn -> SUBSET joined]
    /\ lost \subseteq conn

(* A descriptor in the table is open and speaks for a player of the running  *)
(* match, so that handle_timer_intr, which does not look, finds him; and no  *)
(* two descriptors speak for the same player.  Descriptors are reused, and   *)
(* matches follow one another.                                               *)
OneVoice ==
    /\ \A fd \in Speakers : fd \in conn /\ fd2PlayerId[fd] \in joined
    /\ \A f, g \in Speakers : fd2PlayerId[f] = fd2PlayerId[g] => f = g

(* fd2msg_ is never cleared while a match lasts; yet what a tick finds there *)
(* and sends is addressed to the player of the descriptor and is the news of *)
(* the last round, never that of an earlier match or of another connection.  *)
MessagesFresh ==
    \A fd \in DOMAIN fd2msg :
        /\ fd \in Speakers
        /\ handler \in {"idle", "reset"} => fd2msg[fd] = MessageFor(fd)

(* Before reset closes the connection of a player he has been sent the       *)
(* result of the match, and the result names a winner.                       *)
ResultTold ==
    handler = "reset" =>
        /\ winners # {}
        /\ \A fd \in Speakers :
             told[fd] = [type |-> "GameOver", winner_ids |-> winners]

(* An open connection speaks for a player only if this connection itself has *)
(* brought him into this match: it inherits nobody from an earlier           *)
(* connection with its descriptor, from another one or from another match.   *)
(* And it brings no second player as long as no error takes the first one    *)
(* from it (handle_request refuses a descriptor that has a player).  After   *)
(* an error it may, although api.cpp says that a client has only one: the    *)
(* connection goes on, and on_leave has erased its player.                   *)
OwnPlayer ==
    /\ \A fd \in conn \cap Speakers : fd2PlayerId[fd] \in brought[fd]
    /\ \A fd \in conn \ lost :
         brought[fd] = IF fd \in Speakers THEN {fd2PlayerId[fd]} ELSE {}
    /\ \A f, g \in conn : brought[f] \cap brought[g] # {} => f = g

(* After every match the next one opens, whoever has stayed, left or come,   *)
(* unless Init has failed, which nothing repairs.                            *)
NextMatchOpens ==
    status = "WAIT_ACTION" ~>
        status = "WAIT_PLAYER" \/ (status = "UNINIT" /\ handler = "idle")

=============================================================================
