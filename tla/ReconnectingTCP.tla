--------------------------- MODULE ReconnectingTCP ---------------------------
(***************************************************************************)
(* reconnectingTCP of the host monitor: the board connection of a session, *)
(* used by the two bridge goroutines at once (one reads, one writes) and   *)
(* closed by whoever ends the session.                                     *)
(*                                                                         *)
(* A process step is one critical section of stateMu, one operation on a   *)
(* socket, or one statement of reconnect(), which reconnectMu serialises.  *)
(* Time is counted in ticks of reconnectInterval; a deadline is kept as    *)
(* the ticks that are left, so that time needs no bound.                   *)
(***************************************************************************)
EXTENDS Naturals, FiniteSets

CONSTANTS
  Grace,      \* reconnectGrace, in ticks
  MaxConns,   \* bound: connections made, the first one included
  MaxBreaks,  \* bound: connections that break
  NoProc      \* nobody holds reconnectMu

ASSUME ReconnectAssumption ==
  /\ Grace \in Nat \ {0} /\ MaxConns \in Nat \ {0} /\ MaxBreaks \in Nat
  /\ NoProc \notin {"reader", "writer"}

Proc == {"reader", "writer"}
Conn == 1..MaxConns
NoConn == 0
Unset == Grace + 1     \* deadline.IsZero()

VARIABLES
  conn, closed,   \* r.conn and r.closed, guarded by stateMu
  mu,             \* the holder of reconnectMu
  pc,             \* the next step of each bridge goroutine
  held,           \* the connection it uses
  fresh,          \* the connection it has just dialled
  left,           \* its deadline in Read or Write
  result,         \* how its bridge ended
  closer,         \* the goroutine inside endSession: where it is
  closing,        \* the connection Close() took over
  sock,           \* every connection: up, broken, or shut by this side
  reachable,      \* whether the board answers a dial
  breaks,         \* history: how many connections broke
  outage          \* history: ticks without a working connection

bridge == <<pc, held, fresh, left, result>>
ending == <<closer, closing>>
env == <<reachable, breaks, outage>>
vars == <<conn, closed, mu, bridge, ending, sock, env>>

\* Wrong variants of some definitions stand just before the definition they
\* vary; nothing uses them, they document which slip each property detects.

\* current(): the connection, unless closed.
Usable == ~closed /\ conn # NoConn
Connected == Usable /\ sock[conn] = "up"

Goto(p, l) == pc' = [pc EXCEPT ![p] = l]
UseConn(p, c) == held' = [held EXCEPT ![p] = c] /\ Goto(p, "io")
Finish(p, r) == Goto(p, "done") /\ result' = [result EXCEPT ![p] = r]
Unlock == mu' = NoProc

---------------------------------------------------------------------------
(* Read and Write *)

CallWithDeadline(p) ==
  /\ pc[p] = "idle"
  /\ Goto(p, "connection")
  /\ left' = [left EXCEPT ![p] = Grace]
  /\ UNCHANGED <<conn, closed, mu, held, fresh, result, ending, sock, env>>

\* io.Copy calls Read, or Write with bytes from the IDE: var deadline time.Time
Call(p) ==
  /\ pc[p] = "idle"
  /\ Goto(p, "connection")
  /\ left' = [left EXCEPT ![p] = Unset]
  /\ UNCHANGED <<conn, closed, mu, held, fresh, result, ending, sock, env>>

\* connection(): the current one, or reconnect until the deadline, which is
\* set by the first loss of the call.
Connection(p) ==
  /\ pc[p] = "connection"
  /\ IF Usable
     THEN UseConn(p, conn) /\ UNCHANGED left
     ELSE /\ Goto(p, "lock") /\ UNCHANGED held
          /\ left' = [left EXCEPT ![p] = IF @ = Unset THEN Grace ELSE @]
  /\ UNCHANGED <<conn, closed, mu, fresh, result, ending, sock, env>>

\* conn.Read or conn.Write succeeds and the call returns.  What a broken
\* connection has buffered may still be read, and a write to it be taken.
IoDone(p) ==
  /\ pc[p] = "io" /\ sock[held[p]] # "shut"
  /\ Goto(p, "idle")
  /\ held' = [held EXCEPT ![p] = NoConn]
  /\ UNCHANGED <<conn, closed, mu, fresh, left, result, ending, sock, env>>

IoFails(p) ==
  /\ pc[p] = "io" /\ sock[held[p]] # "up"
  /\ Goto(p, "invalidate")
  /\ UNCHANGED <<conn, closed, mu, held, fresh, left, result, ending, sock, env>>

\* An error on a socket that works: the record layer refuses a record, or has
\* no sequence number left.  The connection is of no more use.
IoRefused(p) ==
  /\ pc[p] = "io" /\ sock[held[p]] = "up" /\ breaks < MaxBreaks
  /\ sock' = [sock EXCEPT ![held[p]] = "broken"]
  /\ breaks' = breaks + 1
  /\ Goto(p, "invalidate")
  /\ UNCHANGED <<conn, closed, mu, held, fresh, left, result, ending, reachable, outage>>

InvalidateAny(p) ==
  /\ pc[p] = "invalidate"
  /\ conn' = NoConn
  /\ Goto(p, "closeOld")
  /\ UNCHANGED <<closed, mu, held, fresh, left, result, ending, sock, env>>

\* invalidate(): forget the connection if it is still the current one ...
Invalidate(p) ==
  /\ pc[p] = "invalidate"
  /\ conn' = IF conn = held[p] THEN NoConn ELSE conn
  /\ Goto(p, "closeOld")
  /\ UNCHANGED <<closed, mu, held, fresh, left, result, ending, sock, env>>

CloseOldForgets(p) ==
  /\ pc[p] = "closeOld"
  /\ held' = [held EXCEPT ![p] = NoConn]
  /\ Goto(p, "connection")
  /\ UNCHANGED <<conn, closed, mu, fresh, left, result, ending, sock, env>>

\* ... and close it.  A Read that got some bytes returns them.
CloseOld(p) ==
  /\ pc[p] = "closeOld"
  /\ sock' = [sock EXCEPT ![held[p]] = "shut"]
  /\ held' = [held EXCEPT ![p] = NoConn]
  /\ \/ Goto(p, "connection")
     \/ p = "reader" /\ Goto(p, "idle")
  /\ UNCHANGED <<conn, closed, mu, fresh, left, result, ending, env>>

---------------------------------------------------------------------------
(* reconnect(deadline) *)

\* reconnectMu.Lock()
Lock(p) ==
  /\ pc[p] = "lock" /\ mu = NoProc
  /\ mu' = p
  /\ Goto(p, "recheck")
  /\ UNCHANGED <<conn, closed, held, fresh, left, result, ending, sock, env>>

\* Another goroutine may have reconnected, or the session may be closed.
Recheck(p) ==
  /\ pc[p] = "recheck"
  /\ IF Usable THEN UseConn(p, conn) /\ Unlock
               ELSE Goto(p, "loop") /\ UNCHANGED <<held, mu>>
  /\ UNCHANGED <<conn, closed, fresh, left, result, ending, sock, env>>

NeverExpired(p) == FALSE

\* remaining <= 0
Expired(p) == left[p] = 0

LoopNilIsClosed(p) ==
  /\ pc[p] = "loop"
  /\ \/ (closed \/ conn = NoConn) /\ Finish(p, "closed") /\ Unlock
     \/ Usable /\ Expired(p) /\ Finish(p, "timeout") /\ Unlock
     \/ Usable /\ ~Expired(p) /\ Goto(p, "dial") /\ UNCHANGED <<mu, result>>
  /\ UNCHANGED <<conn, closed, held, fresh, left, ending, sock, env>>

\* Closed, out of time, or another attempt.
Loop(p) ==
  /\ pc[p] = "loop"
  /\ \/ closed /\ Finish(p, "closed") /\ Unlock
     \/ ~closed /\ Expired(p) /\ Finish(p, "timeout") /\ Unlock
     \/ ~closed /\ ~Expired(p) /\ Goto(p, "dial") /\ UNCHANGED <<mu, result>>
  /\ UNCHANGED <<conn, closed, held, fresh, left, ending, sock, env>>

\* dialESPNS fails: no answer, or the handshake did.  time.Sleep(...)
DialFails(p) ==
  /\ pc[p] = "dial"
  /\ Goto(p, "sleep")
  /\ UNCHANGED <<conn, closed, mu, held, fresh, left, result, ending, sock, env>>

DialSucceeds(p, c) ==
  /\ pc[p] = "dial" /\ reachable
  /\ sock[c] = "none"
  /\ sock' = [sock EXCEPT ![c] = "up"]
  /\ fresh' = [fresh EXCEPT ![p] = c]
  /\ Goto(p, "install")
  /\ UNCHANGED <<conn, closed, mu, held, left, result, ending, env>>

MayInstallClosed == conn = NoConn

\* The new connection becomes the current one unless the session was closed
\* meanwhile or there is one already.
MayInstall == ~closed /\ conn = NoConn

Install(p) ==
  /\ pc[p] = "install"
  /\ IF MayInstall
     THEN /\ conn' = fresh[p] /\ outage' = 0
          /\ UseConn(p, fresh[p]) /\ Unlock
          /\ fresh' = [fresh EXCEPT ![p] = NoConn]
     ELSE /\ Goto(p, "dropFresh")
          /\ held' = [held EXCEPT ![p] = IF closed THEN NoConn ELSE conn]
          /\ UNCHANGED <<conn, mu, fresh, outage>>
  /\ UNCHANGED <<closed, left, result, ending, sock, reachable, breaks>>

\* Close the new connection and return net.ErrClosed or the existing one.
DropFresh(p) ==
  /\ pc[p] = "dropFresh"
  /\ sock' = [sock EXCEPT ![fresh[p]] = "shut"]
  /\ fresh' = [fresh EXCEPT ![p] = NoConn]
  /\ IF held[p] = NoConn THEN Finish(p, "closed") ELSE Goto(p, "io") /\ UNCHANGED result
  /\ Unlock
  /\ UNCHANGED <<conn, closed, held, left, ending, env>>

---------------------------------------------------------------------------
(* The end of the session *)

\* The IDE closes its side, or writing to it fails: the bridge ends.
IdeEnds(p) ==
  /\ pc[p] = "idle"
  /\ Finish(p, "ide")
  /\ UNCHANGED <<conn, closed, mu, held, fresh, left, ending, sock, env>>

\* endSession calls Close(): at any time for a CLOSE or QUIT command, and once
\* a bridge has ended.
CloseBegin ==
  /\ closer = "none"
  /\ closed' = TRUE
  /\ closing' = conn
  /\ conn' = NoConn
  /\ closer' = "closeConn"
  /\ UNCHANGED <<mu, bridge, sock, env>>

\* conn.Close() after stateMu is released, then s.client.Close().
CloseConn ==
  /\ closer = "closeConn"
  /\ sock' = [c \in Conn |-> IF c = closing THEN "shut" ELSE sock[c]]
  /\ closing' = NoConn
  /\ closer' = "done"
  /\ UNCHANGED <<conn, closed, mu, bridge, env>>

---------------------------------------------------------------------------
(* The board, the network and time (external) *)

Break(c) ==
  /\ sock[c] = "up" /\ breaks < MaxBreaks
  /\ sock' = [sock EXCEPT ![c] = "broken"]
  /\ breaks' = breaks + 1
  /\ UNCHANGED <<conn, closed, mu, bridge, ending, reachable, outage>>

Reachability ==
  /\ reachable' = ~reachable
  /\ UNCHANGED <<conn, closed, mu, bridge, ending, sock, breaks, outage>>

\* One reconnectInterval passes: deadlines come nearer, sleepers wake up.
Tick ==
  /\ left' = [p \in Proc |-> IF left[p] \in 1..Grace THEN left[p] - 1 ELSE left[p]]
  /\ pc' = [p \in Proc |-> IF pc[p] = "sleep" THEN "loop" ELSE pc[p]]
  /\ outage' = IF Connected THEN 0 ELSE IF outage < Grace THEN outage + 1 ELSE outage
  /\ UNCHANGED <<conn, closed, mu, held, fresh, result, ending, sock, reachable, breaks>>

---------------------------------------------------------------------------

\* open() has dialled the board and made connection 1 the current one.
Init ==
  /\ conn = 1 /\ closed = FALSE /\ mu = NoProc
  /\ pc = [p \in Proc |-> "idle"]
  /\ held = [p \in Proc |-> NoConn] /\ fresh = [p \in Proc |-> NoConn]
  /\ left = [p \in Proc |-> Unset] /\ result = [p \in Proc |-> "none"]
  /\ closer = "none" /\ closing = NoConn
  /\ sock = [c \in Conn |-> IF c = 1 THEN "up" ELSE "none"]
  /\ reachable = TRUE /\ breaks = 0 /\ outage = 0

\* The steps of goroutine p that wait neither for the board nor for the IDE.
Work(p) == \/ Connection(p) \/ IoFails(p) \/ Invalidate(p) \/ CloseOld(p)
           \/ Lock(p) \/ Recheck(p) \/ Loop(p)
           \/ DialFails(p) \/ (\E c \in Conn : DialSucceeds(p, c))
           \/ Install(p) \/ DropFresh(p)

Next == \/ \E p \in Proc : Call(p) \/ Work(p) \/ IoDone(p) \/ IoRefused(p) \/ IdeEnds(p)
        \/ CloseBegin \/ CloseConn
        \/ (\E c \in Conn : Break(c)) \/ Reachability \/ Tick

Spec == Init /\ [][Next]_vars

\* Goroutines are scheduled; a mutex that is released again and again is
\* obtained in the end (sync.Mutex prevents starvation); io.Copy reads from the
\* board again; a bridge whose IDE connection endSession closed ends; a bridge
\* that ended calls endSession; time passes.
Fairness == /\ \A p \in Proc : /\ WF_vars(Work(p)) /\ SF_vars(Lock(p))
                               /\ WF_vars(closer = "done" /\ IdeEnds(p))
            /\ WF_vars(Call("reader"))
            /\ WF_vars(CloseBegin /\ \E p \in Proc : pc[p] = "done")
            /\ WF_vars(CloseConn) /\ WF_vars(Tick)

FairSpec == Spec /\ Fairness

---------------------------------------------------------------------------
(* The connection its users see *)

State == IF closed THEN "closed"
         ELSE IF \E p \in Proc : result[p] = "timeout" THEN "down" ELSE "up"
IdeGone == \E p \in Proc : result[p] = "ide"
Working == {p \in Proc : pc[p] # "done"}

Board == INSTANCE BoardConnection WITH
           Users <- Proc, state <- State, ideGone <- IdeGone, working <- Working

---------------------------------------------------------------------------
(* Properties *)

\* The type invariant of the reconnecting connection; a goroutine that uses a
\* connection has one.
TypeOK ==
  /\ conn \in Conn \cup {NoConn} /\ closed \in BOOLEAN /\ mu \in Proc \cup {NoProc}
  /\ pc \in [Proc -> {"idle", "connection", "io", "invalidate", "closeOld", "lock",
                      "recheck", "loop", "dial", "sleep", "install", "dropFresh", "done"}]
  /\ held \in [Proc -> Conn \cup {NoConn}] /\ fresh \in [Proc -> Conn \cup {NoConn}]
  /\ left \in [Proc -> 0..Unset] /\ result \in [Proc -> {"none", "closed", "timeout", "ide"}]
  /\ closer \in {"none", "closeConn", "done"} /\ closing \in Conn \cup {NoConn}
  /\ sock \in [Conn -> {"none", "up", "broken", "shut"}]
  /\ reachable \in BOOLEAN /\ breaks \in Nat /\ outage \in 0..Grace
  /\ \A p \in Proc :
       /\ pc[p] \in {"io", "invalidate", "closeOld"} => held[p] # NoConn
       /\ pc[p] \in {"install", "dropFresh"} => fresh[p] # NoConn

\* Every connection this side has not closed is the current one or is about to
\* be installed or closed by the step of some goroutine: no path of Close(),
\* invalidate() or reconnect() forgets an open connection.
NoSocketLeak ==
  \A c \in Conn : sock[c] \in {"up", "broken"} =>
     \/ c = conn \/ c = closing
     \/ \E p \in Proc : c = fresh[p] \/ (c = held[p] /\ pc[p] = "closeOld")

\* After Close() no connection becomes current again, however a dial in
\* progress ends.
ClosedForGood == closed => conn = NoConn

\* reconnect() never finds another connection in place of the lost one: the
\* branch that returns the existing connection is not reached.
InstallsIntoEmpty == \A p \in Proc : pc[p] = "install" => conn = NoConn

\* A goroutine that reports a dead connection late never takes away the
\* working one that replaced it.
WorkingConnKept == [][conn # NoConn /\ conn' # conn => closed' \/ sock[conn] # "up"]_vars

\* monitor/README.md: the host retries "for up to 15 seconds" and gives up
\* "if the board is still unavailable after the grace period": a call reports
\* a timeout only after that long without a connection.
GraceHonoured ==
  [][\A p \in Proc : result'[p] = "timeout" /\ result[p] # "timeout" => outage >= Grace]_vars

\* What holds of it: the first outage is given the whole grace period.
FirstOutageGrace ==
  [][\A p \in Proc : result'[p] = "timeout" /\ result[p] # "timeout" /\ breaks <= 1
                       => outage >= Grace]_vars

\* A goroutine that has to reconnect is not kept waiting for ever: it gets a
\* connection or gives up, also when the other one holds reconnectMu.
ReconnectEnds ==
  \A p \in Proc : pc[p] = "lock" ~> pc[p] \in {"io", "done"}

\* Lost sockets, late reports and two goroutines dialling are not to be seen
\* from outside: a goroutine stops using the connection only after Close(),
\* after the grace period or because of the IDE, never because of a socket, and
\* it does stop after Close().
ImplementsBoardConnection == Board!Spec

=============================================================================
