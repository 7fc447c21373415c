------------------------ MODULE ReconnectingTCPProofs ------------------------
(***************************************************************************)
(* Safety of reconnectingTCP for every grace period and every number of    *)
(* connections and breaks: its properties hold in every behaviour of Spec. *)
(*                                                                         *)
(* NoSocketLeak and WorkingConnKept are not inductive: they need to know   *)
(* who holds reconnectMu, that the connection is gone while it is being    *)
(* replaced, and that a reported connection is really dead.                *)
(***************************************************************************)
EXTENDS ReconnectingTCP, TLAPS

Reconnecting == {"recheck", "loop", "dial", "sleep", "install", "dropFresh"}

\* reconnectMu is held by the goroutine inside reconnect(), and only by it.
MutexHeld == \A p \in Proc : pc[p] \in Reconnecting <=> mu = p

\* Past its first check reconnect() runs without a current connection.
NothingCurrent ==
  \A p \in Proc : pc[p] \in {"loop", "dial", "sleep", "install", "dropFresh"} => conn = NoConn

\* A dialled connection exists only between the dial and its installation; if
\* it cannot be installed there is no other to return.
FreshOnlyInside ==
  \A p \in Proc : /\ fresh[p] # NoConn => pc[p] \in {"install", "dropFresh"}
                  /\ pc[p] = "dropFresh" => held[p] = NoConn

\* Only connections that were made are current, used or about to be installed.
InUseWasDialled ==
  /\ conn # NoConn => sock[conn] # "none"
  /\ \A p \in Proc : /\ pc[p] = "io" => sock[held[p]] # "none"
                     /\ fresh[p] # NoConn => sock[fresh[p]] # "none"

\* A connection that a goroutine reports is dead.
ReportedIsDead ==
  \A p \in Proc : pc[p] \in {"invalidate", "closeOld"} => sock[held[p]] \in {"broken", "shut"}

\* Close() runs once: it has not begun while the session is open.
CloseOnce == /\ closer = "none" => closing = NoConn
             /\ closed <=> closer # "none"

Inv == /\ TypeOK /\ MutexHeld /\ NothingCurrent /\ FreshOnlyInside
       /\ InUseWasDialled /\ ReportedIsDead /\ CloseOnce /\ ClosedForGood /\ NoSocketLeak

USE DEF Proc, Conn, NoConn

---------------------------------------------------------------------------

\* newReconnectingTCP establishes the invariant.
LEMMA InitInv == Init => Inv
<1> SUFFICES ASSUME Init PROVE Inv
  OBVIOUS
<1> USE ReconnectAssumption DEF Init
<1>1. TypeOK
  <2>1. 1 \in Conn
    OBVIOUS
  <2>2. sock \in [Conn -> {"none", "up", "broken", "shut"}]
    OBVIOUS
  <2>3. left \in [Proc -> 0..Unset] /\ outage \in 0..Grace /\ breaks \in Nat
    BY DEF Unset
  <2>4. /\ pc \in [Proc -> {"idle"}] /\ result \in [Proc -> {"none"}]
        /\ held \in [Proc -> {NoConn}] /\ fresh \in [Proc -> {NoConn}]
    OBVIOUS
  <2>5. QED
    BY <2>1, <2>2, <2>3, <2>4 DEF TypeOK
<1>2. MutexHeld
  BY DEF MutexHeld, Reconnecting
<1>3. NothingCurrent /\ FreshOnlyInside /\ InUseWasDialled /\ ReportedIsDead
  BY DEF NothingCurrent, FreshOnlyInside, InUseWasDialled, ReportedIsDead
<1>4. CloseOnce /\ ClosedForGood /\ NoSocketLeak
  BY DEF CloseOnce, ClosedForGood, NoSocketLeak
<1>5. QED
  BY <1>1, <1>2, <1>3, <1>4 DEF Inv

\* Every step of Read, Write, reconnect(), Close() and the board keeps it.
LEMMA NextInv == Inv /\ [Next]_vars => Inv'
<1> SUFFICES ASSUME Inv, [Next]_vars PROVE Inv'
  OBVIOUS
<1> USE ReconnectAssumption
    DEF Inv, TypeOK, MutexHeld, NothingCurrent, FreshOnlyInside, InUseWasDialled, ReportedIsDead,
        CloseOnce, ClosedForGood, NoSocketLeak, Reconnecting, Unset, bridge, ending, env,
        Goto, UseConn, Finish, Unlock, Usable
<1>1. ASSUME NEW p \in Proc, Call(p) PROVE Inv'
  BY <1>1 DEF Call
<1>2. ASSUME NEW p \in Proc, Connection(p) PROVE Inv'
  BY <1>2 DEF Connection
<1>3. ASSUME NEW p \in Proc, IoDone(p) PROVE Inv'
  BY <1>3 DEF IoDone
<1>4. ASSUME NEW p \in Proc, IoFails(p) PROVE Inv'
  BY <1>4 DEF IoFails
<1>r. ASSUME NEW p \in Proc, IoRefused(p) PROVE Inv'
  BY <1>r DEF IoRefused
<1>5. ASSUME NEW p \in Proc, Invalidate(p) PROVE Inv'
  BY <1>5 DEF Invalidate
<1>6. ASSUME NEW p \in Proc, CloseOld(p) PROVE Inv'
  BY <1>6 DEF CloseOld
<1>7. ASSUME NEW p \in Proc, Lock(p) PROVE Inv'
  BY <1>7 DEF Lock
<1>8. ASSUME NEW p \in Proc, Recheck(p) PROVE Inv'
  BY <1>8 DEF Recheck
<1>9. ASSUME NEW p \in Proc, Loop(p) PROVE Inv'
  BY <1>9 DEF Loop, Expired
<1>10. ASSUME NEW p \in Proc, DialFails(p) PROVE Inv'
  BY <1>10 DEF DialFails
<1>11. ASSUME NEW p \in Proc, NEW c \in Conn, DialSucceeds(p, c) PROVE Inv'
  BY <1>11 DEF DialSucceeds
<1>12. ASSUME NEW p \in Proc, Install(p) PROVE Inv'
  BY <1>12 DEF Install, MayInstall
<1>13. ASSUME NEW p \in Proc, DropFresh(p) PROVE Inv'
  BY <1>13 DEF DropFresh
<1>14. ASSUME NEW p \in Proc, IdeEnds(p) PROVE Inv'
  BY <1>14 DEF IdeEnds
<1>15. CASE CloseBegin
  BY <1>15 DEF CloseBegin
<1>16. CASE CloseConn
  BY <1>16 DEF CloseConn
<1>17. ASSUME NEW c \in Conn, Break(c) PROVE Inv'
  BY <1>17 DEF Break
<1>18. CASE Reachability
  BY <1>18 DEF Reachability
<1>19. CASE Tick
  BY <1>19 DEF Tick, Connected
<1>20. CASE UNCHANGED vars
  BY <1>20 DEF vars
<1>21. QED
  BY <1>1, <1>2, <1>3, <1>4, <1>r, <1>5, <1>6, <1>7, <1>8, <1>9, <1>10, <1>11, <1>12, <1>13,
     <1>14, <1>15, <1>16, <1>17, <1>18, <1>19, <1>20 DEF Next, Work

\* The invariant holds in every reachable state.
LEMMA Invariance == Spec => []Inv
<1>1. Inv /\ [Next]_vars => Inv'
  BY NextInv
<1>2. QED
  BY InitInv, <1>1, PTL DEF Spec

---------------------------------------------------------------------------

\* Type correctness of reconnectingTCP, with the fact that Read and Write never
\* use a connection that is nil.
THEOREM TypeCorrect == Spec => []TypeOK
<1>1. Inv => TypeOK
  BY DEF Inv
<1>2. QED
  BY Invariance, <1>1, PTL

\* No interleaving of the two bridges, a late dial and Close() leaves an open
\* connection behind that nobody will close.
THEOREM NoLeak == Spec => []NoSocketLeak
<1>1. Inv => NoSocketLeak
  BY DEF Inv
<1>2. QED
  BY Invariance, <1>1, PTL

\* reconnectMu is held by the one goroutine that is inside reconnect() past
\* Lock(): whoever waits for it waits for one that never waits for it again
\* before it unlocks, on each of the ways out.
THEOREM OneReconnects == Spec => []MutexHeld
<1>1. Inv => MutexHeld
  BY DEF Inv
<1>2. QED
  BY <1>1, Invariance, PTL

\* The deadline of a Read or Write is set once: no lost connection, failed
\* attempt or wait for another goroutine's attempt moves it away again, until
\* the call has returned.
DeadlineNears(p) ==
  pc[p] \notin {"idle", "done"} /\ left[p] # Unset => left'[p] # Unset /\ left'[p] <= left[p]
THEOREM DeadlineSetOnce == Spec => [][\A p \in Proc : DeadlineNears(p)]_vars
<1>1. ASSUME Inv, [Next]_vars PROVE [\A p \in Proc : DeadlineNears(p)]_vars
  <2> SUFFICES ASSUME NEW q \in Proc, left[q] # Unset, pc[q] \notin {"idle", "done"}
               PROVE left'[q] # Unset /\ left'[q] <= left[q]
    BY DEF DeadlineNears
  <2>1. left \in [Proc -> 0..Unset] /\ left[q] \in 0..Grace
    BY <1>1, ReconnectAssumption DEF Inv, TypeOK, Unset
  <2>2. CASE UNCHANGED left
    BY <2>1, <2>2, ReconnectAssumption DEF Unset
  <2>3. ASSUME NEW p \in Proc, Call(p) \/ Connection(p) PROVE left'[q] = left[q]
    BY <2>1, <2>3, ReconnectAssumption DEF Call, Connection, UseConn, Goto
  <2>4. CASE Tick
    BY <2>1, <2>4, ReconnectAssumption DEF Tick, Unset
  <2>5. ASSUME NEW p \in Proc, Work(p) \/ IoDone(p) \/ IoRefused(p) \/ IdeEnds(p)
        PROVE UNCHANGED left \/ Connection(p)
    BY <2>5 DEF Work, IoDone, IdeEnds, IoFails, IoRefused, Invalidate, CloseOld, Lock,
                Recheck, Loop, DialFails, DialSucceeds, Install, DropFresh
  <2>6. CASE CloseBegin \/ CloseConn \/ (\E c \in Conn : Break(c)) \/ Reachability \/ UNCHANGED vars
    BY <2>2, <2>6 DEF CloseBegin, CloseConn, Break, Reachability, bridge, vars
  <2>7. QED
    BY <1>1, <2>1, <2>2, <2>3, <2>4, <2>5, <2>6, ReconnectAssumption DEF Next, Unset
<1>2. QED
  BY <1>1, Invariance, PTL DEF Spec

\* Once Close() has run, no dial in progress revives the session.
THEOREM StaysClosed == Spec => []ClosedForGood
<1>1. Inv => ClosedForGood
  BY DEF Inv
<1>2. QED
  BY Invariance, <1>1, PTL

\* The branch of reconnect() that gives back an existing connection is dead
\* code: reconnectMu keeps the place of the lost connection empty.
THEOREM PlaceStaysEmpty == Spec => []InstallsIntoEmpty
<1>1. Inv => InstallsIntoEmpty
  BY DEF Inv, NothingCurrent, InstallsIntoEmpty
<1>2. QED
  BY Invariance, <1>1, PTL

\* A step that takes the current connection away closes the session or removes
\* a dead connection; invalidate() never hits the replacement.
LEMMA StepKeepsWorkingConn ==
  Inv /\ [Next]_vars => (conn # NoConn /\ conn' # conn => closed' \/ sock[conn] # "up")
<1> SUFFICES ASSUME Inv, [Next]_vars, conn # NoConn, conn' # conn
             PROVE closed' \/ sock[conn] # "up"
  OBVIOUS
<1> USE DEF Inv, NothingCurrent, ReportedIsDead, CloseOnce
<1>1. ASSUME NEW p \in Proc, Invalidate(p) PROVE sock[conn] # "up"
  BY <1>1 DEF Invalidate
<1>2. ASSUME NEW p \in Proc, Install(p) PROVE FALSE
  BY <1>2 DEF Install
<1>3. CASE CloseBegin
  BY <1>3 DEF CloseBegin
<1>4. QED
  BY <1>1, <1>2, <1>3
  DEF Next, Work, Call, Connection, IoDone, IoFails, IoRefused, CloseOld, Lock, Recheck, Loop,
      DialFails, DialSucceeds, DropFresh, IdeEnds, CloseConn, Break, Reachability, Tick, vars

\* A goroutine that notices late that its connection is dead does not tear
\* down the one the other goroutine has made meanwhile.
THEOREM WorkingConnIsKept == Spec => WorkingConnKept
<1>1. Inv /\ [Next]_vars => [conn # NoConn /\ conn' # conn => closed' \/ sock[conn] # "up"]_vars
  BY StepKeepsWorkingConn
<1>2. QED
  BY Invariance, <1>1, PTL DEF Spec, WorkingConnKept

---------------------------------------------------------------------------
(* The grace period of the first outage *)

\* As long as at most one connection broke: before the break no call has a
\* deadline; after it the new connection works; while there is none, each
\* deadline leaves what is missing of the grace period.
GraceKept ==
  ~closed /\ breaks <= 1 =>
    /\ breaks = 0 => Connected /\ \A p \in Proc : left[p] = Unset
    /\ \A p \in Proc : fresh[p] # NoConn => sock[fresh[p]] = "up"
    /\ ~Connected => \A p \in Proc : left[p] # Unset => outage + left[p] >= Grace

\* Inside reconnect() a call has a deadline.
DeadlineSet == \A p \in Proc : pc[p] \in Reconnecting \cup {"lock"} => left[p] # Unset

GraceInv == GraceKept /\ DeadlineSet

\* The invariant of the grace period holds initially.
LEMMA InitGrace == Init => GraceInv
  BY ReconnectAssumption DEF Init, GraceInv, GraceKept, DeadlineSet, Connected, Usable, Unset,
     Reconnecting

\* Every step keeps it: deadlines and the outage are counted by the same clock.
LEMMA NextGrace == Inv /\ GraceInv /\ [Next]_vars => GraceInv'
<1> SUFFICES ASSUME Inv, GraceInv, [Next]_vars PROVE GraceInv'
  OBVIOUS
<1> USE ReconnectAssumption
    DEF Inv, TypeOK, MutexHeld, NothingCurrent, FreshOnlyInside, ReportedIsDead,
        CloseOnce, ClosedForGood, Reconnecting, Unset, bridge, ending, env,
        Goto, UseConn, Finish, Unlock, Usable, Connected, GraceInv, GraceKept, DeadlineSet
<1>1. ASSUME NEW p \in Proc, Call(p) PROVE GraceInv'
  BY <1>1 DEF Call
<1>2. ASSUME NEW p \in Proc, Connection(p) PROVE GraceInv'
  BY <1>2 DEF Connection
<1>3. ASSUME NEW p \in Proc, IoDone(p) \/ IoFails(p) \/ IoRefused(p) \/ IdeEnds(p) PROVE GraceInv'
  <2>1. CASE IoDone(p)
    BY <2>1 DEF IoDone
  <2>2. CASE IoFails(p)
    BY <2>2 DEF IoFails
  <2>3. CASE IoRefused(p)
    BY <2>3 DEF IoRefused
  <2>4. CASE IdeEnds(p)
    BY <2>4 DEF IdeEnds
  <2>5. QED
    BY <1>3, <2>1, <2>2, <2>3, <2>4
<1>4. ASSUME NEW p \in Proc, Invalidate(p) PROVE GraceInv'
  BY <1>4 DEF Invalidate
<1>5. ASSUME NEW p \in Proc, CloseOld(p) PROVE GraceInv'
  BY <1>5 DEF CloseOld
<1>6. ASSUME NEW p \in Proc, Lock(p) \/ Recheck(p) \/ DialFails(p) PROVE GraceInv'
  BY <1>6 DEF Lock, Recheck, DialFails
<1>7. ASSUME NEW p \in Proc, Loop(p) PROVE GraceInv'
  BY <1>7 DEF Loop, Expired
<1>8. ASSUME NEW p \in Proc, NEW c \in Conn, DialSucceeds(p, c) PROVE GraceInv'
  BY <1>8 DEF DialSucceeds
<1>9. ASSUME NEW p \in Proc, Install(p) PROVE GraceInv'
  BY <1>9 DEF Install, MayInstall
<1>10. ASSUME NEW p \in Proc, DropFresh(p) PROVE GraceInv'
  BY <1>10 DEF DropFresh
<1>11. CASE CloseBegin \/ CloseConn
  BY <1>11 DEF CloseBegin, CloseConn
<1>12. ASSUME NEW c \in Conn, Break(c) PROVE GraceInv'
  BY <1>12 DEF Break
<1>13. CASE Reachability
  BY <1>13 DEF Reachability
<1>14. CASE Tick
  BY <1>14 DEF Tick
<1>15. CASE UNCHANGED vars
  BY <1>15 DEF vars
<1>16. QED
  BY <1>1, <1>2, <1>3, <1>4, <1>5, <1>6, <1>7, <1>8, <1>9, <1>10, <1>11, <1>12, <1>13, <1>14,
     <1>15 DEF Next, Work

\* A call that gives up has waited for the whole grace period.
LEMMA StepHonoursGrace ==
  Inv /\ GraceInv /\ [Next]_vars =>
    \A p \in Proc : result'[p] = "timeout" /\ result[p] # "timeout" /\ breaks <= 1
                      => outage >= Grace
<1> SUFFICES ASSUME Inv, GraceInv, [Next]_vars, NEW p \in Proc,
                    result'[p] = "timeout", result[p] # "timeout", breaks <= 1
             PROVE outage >= Grace
  OBVIOUS
<1> USE DEF Inv, TypeOK, Finish
<1>1. ASSUME NEW q \in Proc, Loop(q) PROVE outage >= Grace
  BY <1>1, ReconnectAssumption
  DEF Loop, Expired, GraceInv, GraceKept, DeadlineSet, NothingCurrent, Connected, Usable, Unset,
      Reconnecting
<1>2. ASSUME NEW q \in Proc, DropFresh(q) PROVE FALSE
  BY <1>2 DEF DropFresh
<1>3. ASSUME NEW q \in Proc, IdeEnds(q) PROVE FALSE
  BY <1>3 DEF IdeEnds
<1>4. QED
  BY <1>1, <1>2, <1>3
  DEF Next, Work, Call, Connection, IoDone, IoFails, IoRefused, Invalidate, CloseOld, Lock, Recheck,
      DialFails, DialSucceeds, Install, CloseBegin, CloseConn, Break, Reachability, Tick, vars,
      bridge

\* monitor/README.md: the board is retried for the whole grace period before
\* the session is given up, in the first outage.
THEOREM GraceOfFirstOutage == Spec => FirstOutageGrace
<1>1. Inv /\ GraceInv /\ [Next]_vars =>
        [\A p \in Proc : result'[p] = "timeout" /\ result[p] # "timeout" /\ breaks <= 1
                           => outage >= Grace]_vars
  BY StepHonoursGrace
<1>2. Spec => []GraceInv
  BY InitGrace, NextGrace, Invariance, PTL DEF Spec
<1>3. QED
  BY Invariance, <1>1, <1>2, PTL DEF Spec, FirstOutageGrace

---------------------------------------------------------------------------
(* The abstract board connection *)

\* A goroutine has a result exactly when it has ended; a connection that was
\* dialled in vain is closed because the session is.
ResultAtEnd == \A p \in Proc : /\ pc[p] = "done" <=> result[p] # "none"
                               /\ pc[p] = "dropFresh" => closed

\* reconnectingTCP starts as a connection that is up and that both goroutines
\* use.
LEMMA InitImplements == Init => Board!Init /\ ResultAtEnd
  BY DEF Init, Board!Init, ResultAtEnd, State, IdeGone, Working

\* A goroutine ends once.
LEMMA NextResult == Inv /\ ResultAtEnd /\ [Next]_vars => ResultAtEnd'
<1> SUFFICES ASSUME Inv, ResultAtEnd, [Next]_vars PROVE ResultAtEnd'
  OBVIOUS
<1> USE DEF Inv, TypeOK, NothingCurrent, FreshOnlyInside, ResultAtEnd, Goto, UseConn, Finish, bridge
<1>1. ASSUME NEW p \in Proc, Call(p) \/ IoDone(p) \/ IdeEnds(p) PROVE ResultAtEnd'
  BY <1>1 DEF Call, IoDone, IdeEnds
<1>2. ASSUME NEW p \in Proc, Connection(p) \/ IoFails(p) \/ IoRefused(p) \/ Invalidate(p) \/ CloseOld(p)
      PROVE ResultAtEnd'
  BY <1>2 DEF Connection, IoFails, IoRefused, Invalidate, CloseOld
<1>3. ASSUME NEW p \in Proc, Lock(p) \/ Recheck(p) \/ Loop(p) \/ DialFails(p) PROVE ResultAtEnd'
  BY <1>3 DEF Lock, Recheck, Loop, DialFails
<1>4. ASSUME NEW p \in Proc, NEW c \in Conn, DialSucceeds(p, c) PROVE ResultAtEnd'
  BY <1>4 DEF DialSucceeds
<1>5. ASSUME NEW p \in Proc, Install(p) PROVE ResultAtEnd'
  BY <1>5 DEF Install, MayInstall
<1>6. ASSUME NEW p \in Proc, DropFresh(p) PROVE ResultAtEnd'
  BY <1>6 DEF DropFresh
<1>7. CASE CloseBegin \/ CloseConn \/ Reachability \/ (\E c \in Conn : Break(c)) \/ UNCHANGED vars
  BY <1>7 DEF CloseBegin, CloseConn, Reachability, Break, vars
<1>8. CASE Tick
  BY <1>8 DEF Tick
<1>9. QED
  BY <1>1, <1>2, <1>3, <1>4, <1>5, <1>6, <1>7, <1>8 DEF Next, Work

\* The steps that are to be seen from outside: a goroutine ends, or Close().
LEMMA StepImplements ==
  Inv /\ ResultAtEnd /\ [Next]_vars => [Board!Next]_(Board!vars)
<1> SUFFICES ASSUME Inv, ResultAtEnd, [Next]_vars PROVE [Board!Next]_(Board!vars)
  OBVIOUS
<1> USE DEF Inv, TypeOK, ResultAtEnd, State, IdeGone, Working, Goto, UseConn, Finish, bridge
<1>1. ASSUME NEW p \in Proc, Loop(p) PROVE [Board!Next]_(Board!vars)
  <2>1. CASE closed /\ Finish(p, "closed")
    <3>1. Board!UsersEnd
      BY <1>1, <2>1 DEF Loop, Board!UsersEnd, Board!Step
    <3>2. QED
      BY <3>1 DEF Board!Next
  <2>2. CASE ~closed /\ Finish(p, "timeout")
    <3>1. Board!Fail \/ Board!UsersEnd
      BY <1>1, <2>2 DEF Loop, Board!UsersEnd, Board!Fail, Board!Step
    <3>2. QED
      BY <3>1 DEF Board!Next
  <2>3. CASE Goto(p, "dial") /\ UNCHANGED result
    BY <1>1, <2>3 DEF Loop, Board!vars
  <2>4. QED
    BY <1>1, <2>1, <2>2, <2>3 DEF Loop
<1>2. ASSUME NEW p \in Proc, DropFresh(p) PROVE [Board!Next]_(Board!vars)
  <2>1. Board!UsersEnd
    BY <1>2 DEF DropFresh, FreshOnlyInside, Board!UsersEnd, Board!Step
  <2>2. QED
    BY <2>1 DEF Board!Next
<1>3. ASSUME NEW p \in Proc, IdeEnds(p) PROVE [Board!Next]_(Board!vars)
  <2>1. Board!IDEGoes \/ Board!UsersEnd
    BY <1>3 DEF IdeEnds, Board!IDEGoes, Board!UsersEnd, Board!Step
  <2>2. QED
    BY <2>1 DEF Board!Next
<1>4. CASE CloseBegin
  <2>1. Board!Close
    BY <1>4 DEF CloseBegin, CloseOnce, Board!Close, Board!Step
  <2>2. QED
    BY <2>1 DEF Board!Next
<1>5. ASSUME NEW p \in Proc, Call(p) \/ Connection(p) \/ IoDone(p) \/ IoFails(p) \/ IoRefused(p)
                             \/ Invalidate(p) \/ CloseOld(p) \/ Lock(p) \/ Recheck(p) \/ DialFails(p)
                             \/ (\E c \in Conn : DialSucceeds(p, c)) \/ Install(p)
      PROVE UNCHANGED Board!vars
  <2>1. UNCHANGED <<closed, result>> /\ pc' = [pc EXCEPT ![p] = pc'[p]]
        /\ pc[p] # "done" /\ pc'[p] # "done"
    BY <1>5 DEF Call, Connection, IoDone, IoFails, IoRefused, Invalidate, CloseOld, Lock, Recheck,
                DialFails, DialSucceeds, Install
  <2>2. QED
    BY <2>1 DEF Board!vars
<1>6. CASE CloseConn \/ Reachability \/ (\E c \in Conn : Break(c)) \/ UNCHANGED vars
  BY <1>6 DEF CloseConn, Reachability, Break, vars, Board!vars
<1>7. CASE Tick
  BY <1>7 DEF Tick, Board!vars
<1>8. QED
  BY <1>1, <1>2, <1>3, <1>4, <1>5, <1>6, <1>7 DEF Next, Work

\* Whatever happens to the sockets, from outside reconnectingTCP is the board
\* connection of BoardConnection: its users end only after Close(), after the
\* grace period or because of the IDE, and closed is for good.
THEOREM ImplementsBoardSafety == Spec => Board!Safety
<1>1. Spec => []ResultAtEnd
  BY InitImplements, NextResult, Invariance, PTL DEF Spec
<1>2. Init => Board!Init
  BY InitImplements
<1>3. QED
  BY <1>1, <1>2, StepImplements, Invariance, PTL DEF Spec, Board!Safety

=============================================================================
