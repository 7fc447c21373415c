----------------------------- MODULE StressClient -----------------------------
(***************************************************************************)
(* The stress test: stressModeWithOptions sends a payload per cycle, from a *)
(* goroutine of its own, to a board that runs the StressEcho sketch, reads  *)
(* the echo and compares.  With --stress-recover a broken cycle is          *)
(* started again on a fresh session.                                        *)
(*                                                                         *)
(* Sessions are seen from outside: a handshake is the lines that are       *)
(* exchanged, a connection the bytes under way in each direction, and each *)
(* end learns of a broken connection in its own time.                      *)
(***************************************************************************)
EXTENDS Naturals, Sequences, FiniteSets

CONSTANTS
  Cycles,     \* options.cycles
  Bytes,      \* options.payloadBytes
  Buffer,     \* bytes the sketch reads at once, and the network holds
  MaxConns    \* bound: connections ever dialled

ASSUME StressAssumption ==
  /\ Cycles \in Nat \ {0} /\ Bytes \in Nat \ {0}
  /\ Buffer \in Nat \ {0} /\ MaxConns \in Nat \ {0}

VARIABLES
  options,   \* recover, and whether the board has a key
  host,      \* the main goroutine
  payload,   \* the cycle whose bytes are in the payload buffer
  received,  \* the bytes in the receive buffer
  writer,    \* the goroutine that writes
  conns,     \* the connections
  board,     \* the sketch and its transport
  broken     \* history: a connection broke, or a cycle timed out

vars == <<options, host, payload, received, writer, conns, board, broken>>

Conns == 1..MaxConns
None == 0

\* A byte of the payload, and the connection it was sent on.
Byte(cycle, i, c) == [cycle |-> cycle, i |-> i, sent |-> c]

---------------------------------------------------------------------------
(* Connections *)

\* host and board: how each end sees it; line: the last line of the handshake.
NoConn == [host |-> "none", board |-> "none", line |-> "none", up |-> <<>>, down |-> <<>>]

Dialled == Cardinality({c \in Conns : conns[c].host # "none"})
Last == Dialled
Lost(c) == conns[c].host = "lost"
Set(c, field, value) == conns' = [conns EXCEPT ![c][field] = value]

\* The host closes it; what was under way is lost, or read by nobody.
CloseConn(c) == conns' = [conns EXCEPT ![c].host = "closed", ![c].down = <<>>]
BoardCloses(c) == conns' = [conns EXCEPT ![c].board = "closed", ![c].up = <<>>]

At(pc) == host.pc = pc
Goto(pc) == host' = [host EXCEPT !.pc = pc]
Return(result) == host' = [host EXCEPT !.pc = "returned", !.result = result]

\* Wrong variants of some definitions stand just before the definition they
\* vary; nothing uses them, they document which slip each property detects.

---------------------------------------------------------------------------
(* stressModeWithOptions: dial, or use the recovered session *)

FillPayload ==
  /\ At("cycle")
  /\ payload' = host.cycle
  /\ host' = [host EXCEPT !.pc = "dial", !.recovering = FALSE, !.late = FALSE]
  /\ UNCHANGED <<options, received, writer, conns, board, broken>>

\* dialESPNS, from the loop or from waitForStressRecovery
Dial ==
  /\ At("dial") /\ ~(host.recovering /\ host.late)
  /\ Dialled < MaxConns
  /\ conns' = [conns EXCEPT ![Dialled + 1] =
                 [NoConn EXCEPT !.host = "open", !.board = "waiting", !.line = "hello"]]
  /\ Goto("negotiate")
  /\ UNCHANGED <<options, payload, received, writer, board, broken>>

HostAuth ==
  /\ At("negotiate") /\ conns[Last].line = "challenge" /\ conns[Last].host = "open"
  /\ Set(Last, "line", "auth")
  /\ UNCHANGED <<options, host, payload, received, writer, board, broken>>

\* What a failed dial is followed by.
AfterFailedDial == IF options.recover THEN host' = [host EXCEPT !.pc = "dial", !.recovering = TRUE]
                   ELSE Return("error")

\* The board is out of reach, or does not answer in time.
DialFails ==
  /\ At("dial") /\ ~(host.recovering /\ host.late)
  /\ AfterFailedDial
  /\ UNCHANGED <<options, payload, received, writer, conns, board, broken>>

NegotiationFails ==
  /\ At("negotiate")
  /\ CloseConn(Last) /\ AfterFailedDial
  /\ UNCHANGED <<options, payload, received, writer, board, broken>>

\* waitForStressRecovery: the deadline passes, and the loop looks at it before
\* the next dial.
RecoveryDeadline ==
  /\ host.recovering /\ ~host.late /\ host.pc \in {"dial", "negotiate"}
  /\ host' = [host EXCEPT !.late = TRUE]
  /\ UNCHANGED <<options, payload, received, writer, conns, board, broken>>

GiveUp ==
  /\ At("dial") /\ host.recovering /\ host.late /\ Return("error")
  /\ UNCHANGED <<options, payload, received, writer, conns, board, broken>>

\* The session is there: clear(received), the deadline, and the writer.
StartTransfer ==
  /\ At("negotiate") /\ conns[Last].line = "ok" /\ conns[Last].host = "open"
  /\ host' = [host EXCEPT !.pc = "transfer", !.expired = FALSE, !.failed = FALSE,
                          !.recovering = FALSE, !.late = FALSE]
  /\ received' = <<>>
  /\ writer' = [st |-> "running", sent |-> 0, err |-> FALSE]
  /\ UNCHANGED <<options, payload, conns, board, broken>>

---------------------------------------------------------------------------
(* The transfer *)

ExpireNever == FALSE /\ UNCHANGED vars

\* The deadline of SetDeadline passes, for reads and writes.
Expire ==
  /\ host.pc \in {"transfer", "join"} /\ ~host.expired
  /\ host' = [host EXCEPT !.expired = TRUE] /\ broken' = TRUE
  /\ UNCHANGED <<options, payload, received, writer, conns, board>>

\* conn.Write(payload) hands the next byte to the network.
WriterSends ==
  /\ writer.st = "running" /\ writer.sent < Bytes
  /\ conns[Last].host = "open" /\ ~host.expired /\ Len(conns[Last].up) < Buffer
  /\ writer' = [writer EXCEPT !.sent = @ + 1,
                              !.st = IF writer.sent + 1 = Bytes THEN "done" ELSE @]
  /\ Set(Last, "up", Append(conns[Last].up, Byte(payload, writer.sent + 1, Last)))
  /\ UNCHANGED <<options, host, payload, received, board, broken>>

\* Write returns an error: the goroutine closes the connection and reports.
WriterFails ==
  /\ writer.st = "running" /\ (conns[Last].host # "open" \/ host.expired)
  /\ writer' = [writer EXCEPT !.st = "done", !.err = TRUE]
  /\ CloseConn(Last)
  /\ UNCHANGED <<options, host, payload, received, board, broken>>

Read ==
  /\ At("transfer") /\ conns[Last].host \in {"open", "lost"} /\ ~host.expired
  /\ \E n \in 1..Len(conns[Last].down) :
       /\ Len(received) + n <= Bytes
       /\ received' = received \o SubSeq(conns[Last].down, 1, n)
       /\ Set(Last, "down", SubSeq(conns[Last].down, n + 1, Len(conns[Last].down)))
       /\ IF Len(received) + n = Bytes THEN Goto("join") ELSE UNCHANGED host
  /\ UNCHANGED <<options, payload, writer, board, broken>>

\* Read returns an error: the connection is closed, which also ends the writer.
ReadFails ==
  /\ At("transfer") /\ (conns[Last].host # "open" \/ host.expired)
  /\ host' = [host EXCEPT !.pc = "join", !.failed = TRUE]
  /\ CloseConn(Last)
  /\ UNCHANGED <<options, payload, received, writer, board, broken>>

WriterJoinedAny == TRUE

\* werr := <-writeErr
WriterJoined == writer.st = "done"

Interrupted ==
  /\ At("join") /\ WriterJoined /\ (host.failed \/ writer.err)
  /\ CloseConn(Last)
  /\ IF options.recover THEN host' = [host EXCEPT !.pc = "dial", !.recovering = TRUE]
     ELSE Return("error")
  /\ UNCHANGED <<options, payload, received, writer, board, broken>>

\* bytes.Equal(received, payload)
Matches == \A i \in 1..Bytes : received[i].cycle = payload /\ received[i].i = i

MoreCycles == host.cycle < Cycles

Compare ==
  /\ At("join") /\ WriterJoined /\ ~host.failed /\ ~writer.err
  /\ CloseConn(Last)
  /\ CASE ~Matches -> Return("mismatch")
       [] Matches /\ MoreCycles -> host' = [host EXCEPT !.pc = "cycle", !.cycle = @ + 1]
       [] OTHER -> Return("pass")
  /\ UNCHANGED <<options, payload, received, writer, board, broken>>

---------------------------------------------------------------------------
(* The sketch: loop() calls handle(), read() and write(), which call handle() *)
(* again.  A call of handle() has stages; then names what follows it.        *)

Client == board.client
Ready == Client # None /\ conns[Client].line = "ok"
Alive(c) == c # None /\ conns[c].board = "live"
Stage(s) == board' = [board EXCEPT !.stage = s]
BoardAt(s) == board.stage = s
Backlog == {c \in Conns : conns[c].board = "waiting"}

BoardUnchanged == UNCHANGED <<options, host, payload, received, writer, broken>>

\* handle() begins: a dead client is closed.
Handle ==
  /\ BoardAt("handle")
  /\ IF Client # None /\ ~Alive(Client)
     THEN /\ board' = [board EXCEPT !.stage = "handshake", !.client = None]
          /\ BoardCloses(Client)
     ELSE Stage("handshake") /\ UNCHANGED conns
  /\ BoardUnchanged

\* A line of the handshake has arrived.
LineThere == Alive(Client) /\ conns[Client].line \in {"hello", "auth"}

Answer == /\ board.stage \in {"handshake", "accepted"} /\ LineThere
          /\ Set(Client, "line",
                 IF conns[Client].line = "hello" /\ options.secure THEN "challenge" ELSE "ok")
          /\ UNCHANGED board /\ BoardUnchanged

NoLine == /\ board.stage \in {"handshake", "accepted"} /\ ~LineThere
          /\ Stage(IF BoardAt("handshake") THEN "accept" ELSE board.then)
          /\ UNCHANGED conns /\ BoardUnchanged

\* The handshake takes too long.
TimesOut == /\ BoardAt("handshake") /\ Alive(Client) /\ ~Ready
            /\ board' = [board EXCEPT !.stage = "accept", !.client = None]
            /\ BoardCloses(Client)
            /\ BoardUnchanged

Accept ==
  /\ BoardAt("accept")
  /\ \/ Backlog = {} /\ Stage(board.then) /\ UNCHANGED conns
     \/ /\ Backlog # {}
        /\ LET c == CHOOSE x \in Backlog : \A y \in Backlog : x <= y
           IN IF Alive(Client)
              THEN BoardCloses(c) /\ Stage(board.then)
              ELSE /\ board' = [board EXCEPT !.stage = "accepted", !.client = c]
                   /\ conns' = [conns EXCEPT ![c].board = "live"]
  /\ BoardUnchanged

\* read(): it calls handle() before, more than once.
HandleAgain == /\ BoardAt("read") /\ Stage("handle") /\ UNCHANGED conns /\ BoardUnchanged

SketchReads ==
  /\ BoardAt("read") /\ Ready
  /\ \E n \in 1..Len(conns[Client].up) :
       /\ n <= Buffer
       /\ Set(Client, "up", SubSeq(conns[Client].up, n + 1, Len(conns[Client].up)))
       /\ board' = [board EXCEPT !.held = SubSeq(conns[Client].up, 1, n),
                                 !.stage = "handle", !.then = "write"]
  /\ BoardUnchanged

\* What the host may still read.
Reaches(c, bytes) == IF conns[c].host = "closed" THEN <<>> ELSE conns[c].down \o bytes

SketchWritesAgain ==
  /\ BoardAt("write")
  /\ \E n \in 0..Len(board.held) :
       /\ IF Ready /\ Alive(Client)
          THEN Set(Client, "down", Reaches(Client, SubSeq(board.held, 1, n)))
          ELSE n = 0 /\ UNCHANGED conns
       /\ board' = IF 0 < n /\ n < Len(board.held) THEN board
                   ELSE [board EXCEPT !.held = <<>>, !.stage = "handle", !.then = "read"]
  /\ BoardUnchanged

\* write(): what is not taken is dropped.
SketchWrites ==
  /\ BoardAt("write")
  /\ \E n \in 0..Len(board.held) :
       IF Ready /\ Alive(Client)
       THEN Set(Client, "down", Reaches(Client, SubSeq(board.held, 1, n)))
       ELSE n = 0 /\ UNCHANGED conns
  /\ board' = [board EXCEPT !.held = <<>>, !.stage = "handle", !.then = "read"]
  /\ BoardUnchanged

---------------------------------------------------------------------------
(* The network *)

HostLoses(c) ==
  /\ conns[c].host = "open" /\ Set(c, "host", "lost") /\ broken' = TRUE
  /\ UNCHANGED <<options, host, payload, received, writer, board>>

\* The board learns that the connection is gone: it broke, or the host closed
\* it and the board has read everything.
BoardLoses(c) ==
  /\ conns[c].board \in {"waiting", "live"} /\ Set(c, "board", "dead")
  /\ broken' = (broken \/ conns[c].host # "closed")
  /\ UNCHANGED <<options, host, payload, received, writer, board>>

---------------------------------------------------------------------------

Init ==
  /\ options \in [recover : BOOLEAN, secure : BOOLEAN]
  /\ host = [pc |-> "cycle", cycle |-> 1, recovering |-> FALSE, late |-> FALSE,
             expired |-> FALSE, failed |-> FALSE, result |-> "none"]
  /\ payload = 0 /\ received = <<>>
  /\ writer = [st |-> "none", sent |-> 0, err |-> FALSE]
  /\ conns = [c \in Conns |-> NoConn]
  /\ board = [client |-> None, stage |-> "handle", then |-> "read", held |-> <<>>]
  /\ broken = FALSE

HostStep == \/ FillPayload \/ Dial \/ HostAuth \/ DialFails \/ NegotiationFails
            \/ GiveUp \/ StartTransfer \/ Read \/ ReadFails \/ Interrupted \/ Compare

WriterStep == WriterSends \/ WriterFails

BoardStep == \/ Handle \/ Answer \/ NoLine \/ TimesOut \/ Accept
             \/ HandleAgain \/ SketchReads \/ SketchWrites

Next == \/ HostStep \/ WriterStep \/ BoardStep
        \/ RecoveryDeadline \/ Expire
        \/ \E c \in Conns : HostLoses(c) \/ BoardLoses(c)

Fairness ==
  /\ WF_vars(HostStep) /\ WF_vars(WriterStep)
  /\ WF_vars(RecoveryDeadline) /\ WF_vars(Expire)

Spec == Init /\ [][Next]_vars /\ Fairness

---------------------------------------------------------------------------
(* Properties *)

SentByte == [cycle : 0..Cycles, i : 1..Bytes, sent : Conns \cup {None}]
Conn == [host : {"none", "open", "lost", "closed"},
         board : {"none", "waiting", "live", "dead", "closed"},
         line : {"none", "hello", "challenge", "auth", "ok"},
         up : Seq(SentByte), down : Seq(SentByte)]
Host == [pc : {"cycle", "dial", "negotiate", "transfer", "join", "returned"}, cycle : 1..Cycles,
         recovering : BOOLEAN, late : BOOLEAN, expired : BOOLEAN, failed : BOOLEAN,
         result : {"none", "error", "mismatch", "pass"}]
Writer == [st : {"none", "running", "done"}, sent : 0..Bytes, err : BOOLEAN]
Board == [client : Conns \cup {None}, stage : {"handle", "handshake", "accept", "accepted", "read", "write"},
          then : {"read", "write"}, held : Seq(SentByte)]

\* The type invariant of the stress test.
TypeOK ==
  /\ options \in [recover : BOOLEAN, secure : BOOLEAN]
  /\ host \in Host /\ writer \in Writer /\ board \in Board
  /\ payload \in 0..Cycles /\ broken \in BOOLEAN
  /\ received \in Seq(SentByte) /\ Len(received) <= Bytes
  /\ conns \in [Conns -> Conn]

\* The payload buffer is filled for a cycle, and a second writer started, only
\* when the goroutine that read the buffer has ended.
WriterAlone == writer.st = "running" => host.pc \in {"transfer", "join"}

\* The test blames the data only after a connection broke or a cycle timed out:
\* over connections that work the echo is the payload, whatever is split,
\* dropped or delayed.
MismatchExplained == host.result = "mismatch" => broken

\* Every transfer ends, whatever the board and the network do: the deadline ends
\* the reads, and either goroutine that fails ends the other one.
TransferEnds == host.pc \in {"transfer", "join"} ~> host.pc \notin {"transfer", "join"}

\* "This mode deliberately treats bytes from the interrupted attempt as
\* uncommitted" (testing.md): what is read in an attempt was sent in it.
EchoOfThisAttempt ==
  host.pc \in {"transfer", "join"} => \A i \in DOMAIN received : received[i].sent = Last

=============================================================================
