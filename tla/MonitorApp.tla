------------------------------ MODULE MonitorApp ------------------------------
(***************************************************************************)
(* The monitor process that Arduino IDE drives: one goroutine reads the    *)
(* commands, and each open session has two bridge goroutines, one per      *)
(* direction.  Whoever ends a session first runs endSession's body under   *)
(* its sync.Once; everybody else who tries waits until it has run.         *)
(*                                                                         *)
(* The board connection of a session is the one of ReconnectingTCP, seen   *)
(* from outside: it is up, or unavailable for good ("down"), or closed.    *)
(* Of its inside only the dial of reconnect() is kept, because Close()     *)
(* does not stop it: the new connection is there for a while after the     *)
(* session has ended.                                                      *)
(* A command line is reduced to its command and whether its parameters are *)
(* acceptable.                                                             *)
(***************************************************************************)
EXTENDS Naturals, Sequences, FiniteSets

CONSTANTS
  MaxSessions,   \* bound: OPEN commands that get as far as dialling
  MaxCommands    \* bound: commands the IDE sends

ASSUME AppAssumption == MaxSessions \in Nat \ {0} /\ MaxCommands \in Nat

Session == 1..MaxSessions
None == 0                        \* a.active == nil
Dir == {"toIDE", "toBoard"}      \* the two bridges: by where they copy to

VARIABLES
  initialized,  \* a.initialized
  active,       \* a.active
  main,         \* the next step of the command loop
  opening,      \* the session the command is working on
  board, ide,   \* the two connections of each session
  bridge,       \* the two bridge goroutines of each session
  once,         \* the next step of endSession's body, per session
  reason,       \* the event it emits: port_closed, close, or none
  events,       \* what was written to the IDE, in order
  asked         \* history: commands read

command == <<initialized, main, opening, asked>>
vars == <<command, active, board, ide, bridge, once, reason, events>>

\* Wrong variants of some definitions stand just before the definition they
\* vary; nothing uses them, they document which slip each property detects.

\* jsonOutput.send: one event, under its mutex.
Send(type, ok, s) == events' = Append(events, [type |-> type, ok |-> ok, s |-> s])

\* When main() has returned the process is gone and nothing happens any more.
Running == main # "exit"

---------------------------------------------------------------------------
(* Commands that are answered at once *)

\* run() reads the next line.
Scan == main = "scan" /\ asked < MaxCommands /\ asked' = asked + 1

\* The command is answered and nothing else changes.  These answers concern no
\* session and are not told apart.
Answer == /\ Scan
          /\ Send("answer", FALSE, None)
          /\ UNCHANGED <<initialized, main, opening, active, board, ide, bridge, once, reason>>

\* Anything but HELLO and QUIT before HELLO, and unknown commands.
CommandError == Answer

Describe == initialized /\ Answer
Configure == initialized /\ Answer

HelloRefused == Answer    \* already called, malformed or too old
Hello ==
  /\ Scan /\ ~initialized
  /\ initialized' = TRUE
  /\ Send("hello", TRUE, None)
  /\ UNCHANGED <<main, opening, active, board, ide, bridge, once, reason>>

\* OPEN and CLOSE with bad parameters, OPEN while a session is active, CLOSE
\* while none is; QUIT with parameters.
OpenRefused == initialized /\ Answer
CloseRefused == initialized /\ Answer
QuitRefused == Answer

---------------------------------------------------------------------------
(* OPEN *)

NextSession(s) == board[s] = "none" /\ \A t \in Session : t < s => board[t] # "none"

OpenBegin(s) ==
  /\ Scan /\ initialized /\ active = None /\ NextSession(s)
  /\ main' = "dialBoard"
  /\ opening' = s
  /\ UNCHANGED <<initialized, active, board, ide, bridge, once, reason, events>>

\* dialESPNS
DialBoard ==
  /\ main = "dialBoard"
  /\ \/ /\ main' = "dialIDE"
        /\ board' = [board EXCEPT ![opening] = "up"]
        /\ UNCHANGED <<opening, events>>
     \/ /\ main' = "scan" /\ opening' = None
        /\ board' = [board EXCEPT ![opening] = "closed"]    \* nothing was opened
        /\ Send("open", FALSE, None)
  /\ UNCHANGED <<initialized, asked, active, ide, bridge, once, reason>>

IDERefusedKeepsBoard == /\ Send("open", FALSE, None)
                        /\ UNCHANGED board

\* The dial back to the IDE failed: close the board connection and say so.
IDERefused == /\ board' = [board EXCEPT ![opening] = "closed"]
              /\ Send("open", FALSE, None)

DialIDE ==
  /\ main = "dialIDE"
  /\ \/ /\ main' = "publish"
        /\ ide' = [ide EXCEPT ![opening] = "up"]
        /\ UNCHANGED <<opening, board, events>>
     \/ /\ main' = "scan" /\ opening' = None
        /\ IDERefused
        /\ UNCHANGED ide
  /\ UNCHANGED <<initialized, asked, active, bridge, once, reason>>

\* The second look at a.active, under the mutex that sets it.
Publish ==
  /\ main = "publish"
  /\ IF active = None
     THEN /\ main' = "opened" /\ active' = opening
          /\ UNCHANGED <<opening, board, ide, events>>
     ELSE /\ main' = "scan" /\ opening' = None
          /\ board' = [board EXCEPT ![opening] = "closed"]
          /\ ide' = [ide EXCEPT ![opening] = "closed"]
          /\ Send("open", FALSE, None)
          /\ UNCHANGED active
  /\ UNCHANGED <<initialized, asked, bridge, once, reason>>

OpenedBridgesFirst ==
  \/ /\ main = "opened"
     /\ main' = "sayOpen"
     /\ bridge' = [bridge EXCEPT ![opening] = [d \in Dir |-> "copying"]]
     /\ UNCHANGED <<initialized, asked, opening, active, board, ide, once, reason, events>>
  \/ /\ main = "sayOpen"
     /\ main' = "scan" /\ opening' = None
     /\ Send("open", TRUE, opening)
     /\ UNCHANGED <<initialized, asked, active, board, ide, bridge, once, reason>>

\* a.out.ok("open"), then the two go statements.
Opened ==
  /\ main = "opened"
  /\ main' = "scan" /\ opening' = None
  /\ Send("open", TRUE, opening)
  /\ bridge' = [bridge EXCEPT ![opening] = [d \in Dir |-> "copying"]]
  /\ UNCHANGED <<initialized, asked, active, board, ide, once, reason>>

---------------------------------------------------------------------------
(* endSession *)

\* The first caller runs the body, for the event it wants to be emitted.
Enter(s, event) == /\ once[s] = "unused"
                   /\ once' = [once EXCEPT ![s] = "closeBoard"]
                   /\ reason' = [reason EXCEPT ![s] = event]

EndCloseBoardForgets(s) ==
  /\ Running /\ once[s] = "closeBoard"
  /\ once' = [once EXCEPT ![s] = "closeIDE"]
  /\ UNCHANGED <<command, active, board, ide, bridge, reason, events>>

EndCloseBoard(s) ==
  /\ Running /\ once[s] = "closeBoard"
  /\ once' = [once EXCEPT ![s] = "closeIDE"]
  /\ board' = [board EXCEPT ![s] = "closed"]
  /\ UNCHANGED <<command, active, ide, bridge, reason, events>>

EndCloseIDE(s) ==
  /\ Running /\ once[s] = "closeIDE"
  /\ once' = [once EXCEPT ![s] = "clear"]
  /\ ide' = [ide EXCEPT ![s] = "closed"]
  /\ UNCHANGED <<command, active, board, bridge, reason, events>>

EndClear(s) ==
  /\ Running /\ once[s] = "clear"
  /\ once' = [once EXCEPT ![s] = "emit"]
  /\ active' = IF active = s THEN None ELSE active
  /\ UNCHANGED <<command, board, ide, bridge, reason, events>>

EndEmit(s) ==
  /\ Running /\ once[s] = "emit"
  /\ once' = [once EXCEPT ![s] = "done"]
  /\ IF reason[s] = "none" THEN UNCHANGED events ELSE Send(reason[s], reason[s] = "close", s)
  /\ UNCHANGED <<command, active, board, ide, bridge, reason>>

---------------------------------------------------------------------------
(* CLOSE, QUIT and the end of the input *)

\* closeCommand takes the active session and calls endSession.
CloseBegin ==
  /\ Scan /\ initialized /\ active # None
  /\ main' = "close" /\ opening' = active
  /\ UNCHANGED <<initialized, active, board, ide, bridge, once, reason, events>>

CloseEnter ==
  /\ main = "close" /\ Enter(opening, "close")
  /\ main' = "closeWait"
  /\ UNCHANGED <<initialized, opening, asked, active, board, ide, bridge, events>>

\* endSession returned true: the body has emitted the answer.
CloseDone ==
  /\ main = "closeWait" /\ once[opening] = "done"
  /\ main' = "scan" /\ opening' = None
  /\ UNCHANGED <<initialized, asked, active, board, ide, bridge, once, reason, events>>

CloseLateSilent ==
  /\ main = "close" /\ once[opening] = "done"
  /\ main' = "scan" /\ opening' = None
  /\ UNCHANGED <<initialized, asked, active, board, ide, bridge, once, reason, events>>

\* A bridge was first: once.Do returned after the other body, ended is false.
CloseLate ==
  /\ main = "close" /\ once[opening] = "done"
  /\ main' = "scan" /\ opening' = None
  /\ Send("close", FALSE, None)
  /\ UNCHANGED <<initialized, asked, active, board, ide, bridge, once, reason>>

Quit ==
  /\ Scan
  /\ main' = "quit"
  /\ Send("quit", TRUE, None)
  /\ UNCHANGED <<initialized, opening, active, board, ide, bridge, once, reason>>

\* The input ends.
EndOfInput ==
  /\ main = "scan"
  /\ main' = "quit"
  /\ UNCHANGED <<initialized, opening, asked, active, board, ide, bridge, once, reason, events>>

\* closeSilently: nothing to close, or endSession without an event.
QuitBegin ==
  /\ main = "quit"
  /\ main' = IF active = None THEN "exit" ELSE "silent"
  /\ opening' = active
  /\ UNCHANGED <<initialized, asked, active, board, ide, bridge, once, reason, events>>

QuitEnter ==
  /\ main = "silent" /\ Enter(opening, "none")
  /\ UNCHANGED <<command, active, board, ide, bridge, events>>

QuitDoneByItself ==
  /\ main = "silent" /\ once[opening] = "done" /\ reason[opening] = "none"
  /\ main' = "exit"
  /\ UNCHANGED <<initialized, opening, asked, active, board, ide, bridge, once, reason, events>>

\* run() returns and with it main().
QuitDone ==
  /\ main = "silent" /\ once[opening] = "done"
  /\ main' = "exit"
  /\ UNCHANGED <<initialized, opening, asked, active, board, ide, bridge, once, reason, events>>

---------------------------------------------------------------------------
(* The bridges *)

MoveBridge(s, d, from, to) == /\ Running /\ bridge[s][d] = from
                              /\ bridge' = [bridge EXCEPT ![s][d] = to]

\* io.Copy returns because this side closed the board connection, or because
\* the IDE has gone: its end of file, or a write to it that fails.
CopyEnds(s, d) ==
  /\ board[s] = "closed" \/ ide[s] # "up"
  /\ MoveBridge(s, d, "copying", "ended")
  /\ UNCHANGED <<command, active, board, ide, once, reason, events>>

\* reconnectMu: one goroutine of a session at a time is inside reconnect().
MayReconnect(s) == board[s] \in {"up", "down"} /\ \A d \in Dir : bridge[s][d] # "dialling"

\* The connection is lost and this bridge dials again.  From here on there may be
\* a new connection to the board.
ReconnectDials(s, d) ==
  /\ MayReconnect(s)
  /\ MoveBridge(s, d, "copying", "dialling")
  /\ UNCHANGED <<command, active, board, ide, once, reason, events>>

\* reconnect() comes back from dialESPNS: the session has its new connection or
\* goes on without one; if Close() came first, the new connection is closed and
\* io.Copy returns.
DialEnds(s, d) ==
  /\ MoveBridge(s, d, "dialling", IF board[s] = "closed" THEN "ended" ELSE "copying")
  /\ UNCHANGED <<command, active, board, ide, once, reason, events>>

\* The board stays unavailable for longer than the reconnect grace: the Read or
\* Write of this bridge fails and io.Copy returns.
GiveUp(s, d) ==
  /\ MayReconnect(s)
  /\ MoveBridge(s, d, "copying", "ended")
  /\ board' = [board EXCEPT ![s] = "down"]
  /\ UNCHANGED <<command, active, ide, once, reason, events>>

BridgeEnterOnError(s, d) ==
  /\ Running /\ bridge[s][d] = "ended"
  /\ Enter(s, IF d = "toIDE" THEN "port_closed" ELSE "none")
  /\ bridge' = [bridge EXCEPT ![s][d] = "ending"]
  /\ UNCHANGED <<command, active, board, ide, events>>

\* The label is "connection unavailable" or "connection closed"; either way the
\* event is port_closed, also when io.Copy saw a plain end of file.
BridgeEnter(s, d) ==
  /\ Running /\ bridge[s][d] = "ended" /\ Enter(s, "port_closed")
  /\ bridge' = [bridge EXCEPT ![s][d] = "ending"]
  /\ UNCHANGED <<command, active, board, ide, events>>

BridgeDone(s, d) ==
  /\ Running /\ bridge[s][d] \in {"ended", "ending"} /\ once[s] = "done"
  /\ bridge' = [bridge EXCEPT ![s][d] = "gone"]
  /\ UNCHANGED <<command, active, board, ide, once, reason, events>>

---------------------------------------------------------------------------
(* The IDE (external) *)

\* The IDE closes its connection.
IDECloses(s) ==
  /\ Running /\ ide[s] = "up"
  /\ ide' = [ide EXCEPT ![s] = "down"]
  /\ UNCHANGED <<command, active, board, bridge, once, reason, events>>

---------------------------------------------------------------------------

Init ==
  /\ initialized = FALSE /\ active = None /\ main = "scan" /\ opening = None
  /\ board = [s \in Session |-> "none"] /\ ide = [s \in Session |-> "none"]
  /\ bridge = [s \in Session |-> [d \in Dir |-> "none"]]
  /\ once = [s \in Session |-> "unused"] /\ reason = [s \in Session |-> "none"]
  /\ events = <<>> /\ asked = 0

\* What the command loop does by itself once a command has been read.
Continue == \/ DialBoard \/ DialIDE \/ Publish \/ Opened
            \/ CloseEnter \/ CloseDone \/ CloseLate
            \/ QuitBegin \/ QuitEnter \/ QuitDone

Commands == \/ Hello \/ HelloRefused \/ CommandError \/ Configure \/ Describe
            \/ OpenRefused \/ CloseRefused \/ QuitRefused
            \/ \E s \in Session : OpenBegin(s)
            \/ CloseBegin \/ Quit \/ EndOfInput

EndStep(s) == EndCloseBoard(s) \/ EndCloseIDE(s) \/ EndClear(s) \/ EndEmit(s)

Reconnect(s, d) == ReconnectDials(s, d) \/ DialEnds(s, d)

BridgeStep(s, d) == CopyEnds(s, d) \/ Reconnect(s, d) \/ BridgeEnter(s, d) \/ BridgeDone(s, d)

Next == \/ Commands \/ Continue
        \/ \E s \in Session : EndStep(s) \/ IDECloses(s)
        \/ \E s \in Session, d \in Dir : BridgeStep(s, d) \/ GiveUp(s, d)

Spec == Init /\ [][Next]_vars

\* Goroutines are scheduled and dials have timeouts.  A bridge is sure to end
\* only when this side has closed both connections: one that is blocked in a
\* Write to a board that reads nothing does not notice that the IDE has gone.
Fairness ==
  /\ WF_vars(Continue)
  /\ \A s \in Session :
       /\ WF_vars(EndStep(s))
       /\ \A d \in Dir : /\ WF_vars(board[s] = "closed" /\ ide[s] = "closed" /\ CopyEnds(s, d))
                         /\ WF_vars(DialEnds(s, d))
                         /\ WF_vars(BridgeEnter(s, d) \/ BridgeDone(s, d))

FairSpec == Spec /\ Fairness

---------------------------------------------------------------------------
(* The board connection of each session, as its bridges use it.  They are gone *)
(* when the process is, and never start if the session was not opened.        *)

Working(s) == {d \in Dir : \/ board[s] = "none"
                           \/ Running /\ bridge[s][d] \in {"copying", "dialling"}
                           \/ Running /\ bridge[s][d] = "none" /\ board[s] # "closed"}

Board(s) == INSTANCE BoardConnection WITH
              Users <- Dir, state <- board[s], working <- Working(s),
              ideGone <- ide[s] \in {"down", "closed"}

---------------------------------------------------------------------------
(* Properties *)

Event == [type : {"hello", "answer", "open", "close", "quit", "port_closed"},
          ok : BOOLEAN, s : Session \cup {None}]

\* The type invariant of the monitor process; a step that works on a session
\* has one.
TypeOK ==
  /\ initialized \in BOOLEAN /\ active \in Session \cup {None}
  /\ main \in {"scan", "dialBoard", "dialIDE", "publish", "opened", "close", "closeWait",
               "quit", "silent", "exit"}
  /\ opening \in Session \cup {None}
  /\ main \notin {"scan", "quit", "exit"} => opening # None
  /\ board \in [Session -> {"none", "up", "down", "closed"}]
  /\ ide \in [Session -> {"none", "up", "down", "closed"}]
  /\ bridge \in [Session -> [Dir -> {"none", "copying", "dialling", "ended", "ending", "gone"}]]
  /\ once \in [Session -> {"unused", "closeBoard", "closeIDE", "clear", "emit", "done"}]
  /\ reason \in [Session -> {"none", "port_closed", "close"}]
  /\ events \in Seq(Event) /\ asked \in Nat

Ends(s) == {i \in 1..Len(events) : events[i].s = s /\ events[i].type \in {"port_closed", "close"}}
Starts(s) == {i \in 1..Len(events) : events[i].s = s /\ events[i].type = "open"}

\* The IDE hears of each session's end at most once, and never before it was
\* told that the session is open, whoever of CLOSE, QUIT and the two bridges
\* ends it.
SessionEvents ==
  \A s \in Session : /\ Cardinality(Ends(s)) <= 1
                     /\ \A i \in Ends(s) : \E j \in Starts(s) : j < i

\* The command loop answers every command exactly once before it reads the
\* next, also a CLOSE that loses the race against a bridge.
EveryCommandAnswered ==
  main = "scan" => Cardinality({i \in 1..Len(events) : events[i].type # "port_closed"}) = asked

\* The sessions that may have a connection to the board: the one they use or the
\* one that reconnect() is making; and those whose Close() overtook such a dial.
Connected(s) == board[s] \in {"up", "down"} \/ \E d \in Dir : bridge[s][d] = "dialling"
Overtaken(s) == board[s] = "closed" /\ \E d \in Dir : bridge[s][d] = "dialling"

\* The board serves a single client: two sessions are connected to it at the same
\* time only while one of them has ended inside a dial of reconnect(), which goes
\* on after Close(), and has not closed that connection yet.
OneBoardConnection ==
  \A s, t \in Session : Connected(s) /\ Connected(t) /\ s # t => Overtaken(s) \/ Overtaken(t)

\* Connections are left open only by the active session and by the one OPEN is
\* working on: a session stays the active one until both of its are closed.  (The
\* connection of a dial that Close() overtook is its bridge's, which closes it.)
ConnectionsOwned ==
  \A s \in Session : board[s] \in {"up", "down"} \/ ide[s] \in {"up", "down"}
    => s = active \/ (s = opening /\ main \in {"dialIDE", "publish"})

\* When a bridge stops copying - the board stayed away, the IDE's end of file was
\* read or a write to it failed - the session ends and the IDE is told, unless the
\* process is told to quit.
SessionEndTold ==
  \A s \in Session : (board[s] = "down" \/ \E d \in Dir : bridge[s][d] = "ended")
                        ~> (Ends(s) # {} \/ main \in {"silent", "exit"})

\* QUIT and the end of the input end the process, also when a bridge is just
\* ending the session.
QuitEnds == main = "quit" ~> main = "exit"

\* The application uses the board connection of a session as it is meant to be
\* used, and expects no more of it than ReconnectingTCP provides: it closes what
\* it opened, before the process ends, and no bridge ends without a reason or
\* outlives the connection.
UsesBoardConnection ==
  /\ \A s \in Session : Board(s)!Init
  /\ [][\A s \in Session : Board(s)!Next \/ UNCHANGED Board(s)!vars]_vars
  /\ \A s \in Session : Board(s)!Fairness

=============================================================================
