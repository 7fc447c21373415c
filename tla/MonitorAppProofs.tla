-------------------------- MODULE MonitorAppProofs --------------------------
(***************************************************************************)
(* The monitor process, for any number of sessions and commands: who owns  *)
(* the connections, what the IDE is told and in which order, that each     *)
(* session uses its board connection as BoardConnection says, and that     *)
(* whoever waits for the end of a session waits for one that runs.         *)
(***************************************************************************)
EXTENDS MonitorApp, FiniteSetTheorems, TLAPS

---------------------------------------------------------------------------
(* The invariant *)

\* OPEN works on a session nobody else can reach: it has no bridges and nobody
\* ends it.  No other session is active meanwhile.
Fresh(s) == once[s] = "unused" /\ \A d \in Dir : bridge[s][d] = "none"
Opening ==
  /\ main \in {"dialBoard", "dialIDE", "publish"} => active = None /\ Fresh(opening)
  /\ main = "dialBoard" => board[opening] = "none" /\ ide[opening] = "none"
  /\ main = "dialIDE" => board[opening] \in {"up", "down"} /\ ide[opening] = "none"
  /\ main \in {"publish", "opened"} => board[opening] \in {"up", "down"} /\ ide[opening] \in {"up", "down"}
  /\ main = "opened" => active = opening /\ Fresh(opening)

\* A session that was not dialled has nothing; one with bridges was dialled.
Untouched ==
  \A s \in Session :
    /\ board[s] = "none" => ide[s] = "none" /\ Fresh(s)
    /\ ide[s] = "none" => Fresh(s)

\* endSession closes the connections in its order, and the session is the active
\* one until it clears a.active.
Ending ==
  \A s \in Session :
    /\ once[s] \in {"closeIDE", "clear", "emit", "done"} => board[s] = "closed"
    /\ once[s] \in {"clear", "emit", "done"} => ide[s] = "closed"
    /\ once[s] \in {"emit", "done"} => active # s

\* CLOSE and QUIT work on a session that is the active one until it has ended.
Closing == main \in {"close", "closeWait", "silent"} =>
             active \in {None, opening} /\ board[opening] # "none" /\ ide[opening] # "none"
ActiveDialled == active # None => board[active] # "none" /\ ide[active] # "none"

Owned == Opening /\ Untouched /\ Ending /\ Closing /\ ActiveDialled /\ ConnectionsOwned

\* A session whose end can begin has been announced, ...
Endable(s) == \/ active = s /\ main # "opened"
              \/ opening = s /\ main \in {"close", "closeWait", "silent"}
              \/ once[s] # "unused" \/ \E d \in Dir : bridge[s][d] # "none"
Announced == \A s \in Session : Endable(s) => Starts(s) # {}

\* ... and its end is announced in the last step of endSession, once.
EndAnnounced ==
  \A s \in Session :
    /\ once[s] # "done" => Ends(s) = {}
    /\ \A i, j \in Ends(s) : i = j
    /\ \A i \in Ends(s) : \E j \in Starts(s) : j < i

\* The events that answer commands, and whether one is still owed.  Only the
\* command loop waits for an end that answers.
Answers == {i \in 1..Len(events) : events[i].type # "port_closed"}
Owing == \/ main \in {"dialBoard", "dialIDE", "publish", "opened", "close"}
         \/ main = "closeWait" /\ once[opening] # "done"
Answering ==
  /\ Cardinality(Answers) + (IF Owing THEN 1 ELSE 0) = asked
  /\ main = "closeWait" => once[opening] # "unused" /\ reason[opening] = "close"
  /\ \A s \in Session : reason[s] = "close" /\ once[s] # "done" => main = "closeWait" /\ s = opening

Told == Announced /\ EndAnnounced /\ Answering
Inv == TypeOK /\ Owned /\ Told

---------------------------------------------------------------------------
(* Types *)

\* An event of a legal kind can be appended.
LEMMA SendTyped ==
  ASSUME events \in Seq(Event), NEW s \in Session \cup {None}, NEW ok \in BOOLEAN,
         NEW type \in {"hello", "answer", "open", "close", "quit", "port_closed"},
         Send(type, ok, s)
  PROVE  events' \in Seq(Event)
<1>1. [type |-> type, ok |-> ok, s |-> s] \in Event
  BY DEF Event
<1>2. QED
  BY <1>1 DEF Send

\* What a bridge changes: itself, perhaps the beginning of endSession, perhaps
\* that the board is given up.
LEMMA BridgeMoves ==
  ASSUME NEW s \in Session, NEW d \in Dir, BridgeStep(s, d) \/ GiveUp(s, d)
  PROVE  /\ UNCHANGED <<command, active, ide, events>> /\ bridge[s][d] # "none"
         /\ \E b \in {"copying", "dialling", "ended", "ending", "gone"} : bridge' = [bridge EXCEPT ![s][d] = b]
         /\ UNCHANGED <<once, reason>> \/ Enter(s, "port_closed")
         /\ UNCHANGED board \/ (board[s] \in {"up", "down"} /\ board' = [board EXCEPT ![s] = "down"])
<1>1. CASE CopyEnds(s, d) \/ ReconnectDials(s, d)
  BY <1>1 DEF CopyEnds, ReconnectDials, MoveBridge
<1>2. CASE DialEnds(s, d)
  BY <1>2 DEF DialEnds, MoveBridge
<1>3. CASE BridgeEnter(s, d) \/ BridgeDone(s, d)
  BY <1>3 DEF BridgeEnter, BridgeDone
<1>4. CASE GiveUp(s, d)
  BY <1>4 DEF GiveUp, MayReconnect, MoveBridge
<1>5. QED
  BY <1>1, <1>2, <1>3, <1>4 DEF BridgeStep, Reconnect

\* The type invariant is kept by every step.
LEMMA NextType == TypeOK /\ [Next]_vars => TypeOK'
<1> SUFFICES ASSUME TypeOK, [Next]_vars PROVE TypeOK'
  OBVIOUS
<1> USE AppAssumption DEF TypeOK, command, None
<1>n. None \in Session \cup {None}
  OBVIOUS
<1>a. ASSUME Answer PROVE TypeOK'
  <2>1. events' \in Seq(Event)
    BY <1>a, <1>n, SendTyped DEF Answer
  <2>2. QED
    BY <2>1, <1>a DEF Answer, Scan
<1>1. CASE Hello
  <2>1. events' \in Seq(Event)
    BY <1>1, <1>n, SendTyped DEF Hello
  <2>2. QED
    BY <2>1, <1>1 DEF Hello, Scan
<1>2. CASE HelloRefused \/ CommandError \/ Configure \/ Describe
           \/ OpenRefused \/ CloseRefused \/ QuitRefused
  BY <1>2, <1>a DEF HelloRefused, CommandError, Configure, Describe, OpenRefused, CloseRefused, QuitRefused
<1>3. CASE (\E s \in Session : OpenBegin(s)) \/ CloseBegin \/ EndOfInput
  BY <1>3 DEF OpenBegin, CloseBegin, EndOfInput, Scan, Session
<1>4. CASE Quit
  <2>1. events' \in Seq(Event)
    BY <1>4, <1>n, SendTyped DEF Quit
  <2>2. QED
    BY <2>1, <1>4 DEF Quit, Scan
<1>5. CASE DialBoard
  <2>1. events' \in Seq(Event)
    BY <1>5, <1>n, SendTyped DEF DialBoard
  <2>2. QED
    BY <2>1, <1>5 DEF DialBoard
<1>6. CASE DialIDE
  <2>1. events' \in Seq(Event)
    BY <1>6, <1>n, SendTyped DEF DialIDE, IDERefused
  <2>2. QED
    BY <2>1, <1>6 DEF DialIDE, IDERefused
<1>7. CASE Publish
  <2>1. events' \in Seq(Event)
    BY <1>7, <1>n, SendTyped DEF Publish
  <2>2. QED
    BY <2>1, <1>7 DEF Publish
<1>8. CASE Opened
  <2>1. events' \in Seq(Event)
    BY <1>8, <1>n, SendTyped DEF Opened
  <2>2. bridge' \in [Session -> [Dir -> {"none", "copying", "dialling", "ended", "ending", "gone"}]]
    BY <1>8 DEF Opened
  <2>3. QED
    BY <2>1, <2>2, <1>8 DEF Opened
<1>9. CASE CloseEnter \/ QuitEnter
  BY <1>9 DEF CloseEnter, QuitEnter, Enter
<1>10. CASE CloseDone \/ QuitBegin \/ QuitDone
  BY <1>10 DEF CloseDone, QuitBegin, QuitDone
<1>11. CASE CloseLate
  <2>1. events' \in Seq(Event)
    BY <1>11, <1>n, SendTyped DEF CloseLate
  <2>2. QED
    BY <2>1, <1>11 DEF CloseLate
<1>12. ASSUME NEW s \in Session, EndCloseBoard(s) \/ EndCloseIDE(s) \/ EndClear(s) \/ IDECloses(s)
       PROVE TypeOK'
  BY <1>12 DEF EndCloseBoard, EndCloseIDE, EndClear, IDECloses
<1>13. ASSUME NEW s \in Session, EndEmit(s) PROVE TypeOK'
  <2>1. events' \in Seq(Event)
    BY <1>13, SendTyped DEF EndEmit
  <2>2. QED
    BY <2>1, <1>13 DEF EndEmit
<1>14. ASSUME NEW s \in Session, NEW d \in Dir, BridgeStep(s, d) \/ GiveUp(s, d) PROVE TypeOK'
  <2>1. PICK b \in {"copying", "dialling", "ended", "ending", "gone"} : bridge' = [bridge EXCEPT ![s][d] = b]
    BY <1>14, BridgeMoves
  <2>b. bridge' \in [Session -> [Dir -> {"none", "copying", "dialling", "ended", "ending", "gone"}]]
    BY <2>1
  <2>2. once' \in [Session -> {"unused", "closeBoard", "closeIDE", "clear", "emit", "done"}]
        /\ reason' \in [Session -> {"none", "port_closed", "close"}]
    BY <1>14, BridgeMoves DEF Enter
  <2>3. board' \in [Session -> {"none", "up", "down", "closed"}]
    BY <1>14, BridgeMoves
  <2>4. UNCHANGED <<command, active, ide, events>>
    BY <1>14, BridgeMoves
  <2>5. QED
    BY <2>b, <2>2, <2>3, <2>4
<1>15. CASE UNCHANGED vars
  BY <1>15 DEF vars
<1>16. QED
  BY <1>1, <1>2, <1>3, <1>4, <1>5, <1>6, <1>7, <1>8, <1>9, <1>10, <1>11, <1>12, <1>13, <1>14, <1>15
     DEF Next, Commands, Continue, EndStep

---------------------------------------------------------------------------
(* Connections and their owners *)

\* At the start nothing is open and nothing was asked.
LEMMA InitInv == Init => Inv
<1> SUFFICES ASSUME Init PROVE Inv
  OBVIOUS
<1> USE AppAssumption DEF Init, None, Session
<1>1. TypeOK
  <2>1. events \in Seq(Event) /\ asked \in Nat
    OBVIOUS
  <2>2. QED
    BY <2>1 DEF TypeOK
<1>2. Owned
  BY DEF Owned, Opening, Fresh, Untouched, Ending, Closing, ActiveDialled, ConnectionsOwned
<1>3. Announced /\ EndAnnounced
  BY DEF Announced, Endable, EndAnnounced, Ends, Starts
<1>4. Answers = {}
  BY DEF Answers
<1>5. Answering
  BY <1>4, FS_EmptySet DEF Answering, Owing
<1>6. QED
  BY <1>1, <1>2, <1>3, <1>5 DEF Inv, Told

\* Every step keeps the connections owned.
LEMMA NextOwned == TypeOK /\ Owned /\ [Next]_vars => Owned'
<1> SUFFICES ASSUME TypeOK, Owned, [Next]_vars PROVE Owned'
  OBVIOUS
<1> USE DEF TypeOK, Owned, Opening, Fresh, Untouched, Ending, Closing, ActiveDialled, ConnectionsOwned,
            command
<1>n. None \notin Session
  BY DEF None, Session
<1>a. ASSUME main = "scan", main' \in {"scan", "quit"}, UNCHANGED <<opening, active, board, ide, bridge, once>>
      PROVE Owned'
  BY <1>a
<1>1. CASE Hello \/ HelloRefused \/ CommandError \/ Configure \/ Describe
           \/ OpenRefused \/ CloseRefused \/ QuitRefused \/ Quit \/ EndOfInput
  BY <1>1, <1>a DEF Hello, HelloRefused, CommandError, Configure, Describe, OpenRefused, CloseRefused,
                    QuitRefused, Quit, EndOfInput, Answer, Scan
<1>2. CASE (\E s \in Session : OpenBegin(s)) \/ CloseBegin
  BY <1>2, <1>n DEF OpenBegin, CloseBegin, Scan, NextSession
<1>3. CASE DialBoard
  <2> USE <1>3, <1>n DEF DialBoard
  <2>1. opening \in Session
    OBVIOUS
  <2>2. CASE main' = "dialIDE" /\ board' = [board EXCEPT ![opening] = "up"] /\ UNCHANGED opening
    BY <2>1, <2>2
  <2>3. CASE main' = "scan" /\ opening' = None /\ board' = [board EXCEPT ![opening] = "closed"]
    BY <2>1, <2>3
  <2>4. QED
    BY <2>2, <2>3
<1>4. CASE DialIDE
  <2> USE <1>4, <1>n DEF DialIDE, IDERefused
  <2>1. opening \in Session
    OBVIOUS
  <2>2. CASE main' = "publish" /\ ide' = [ide EXCEPT ![opening] = "up"] /\ UNCHANGED <<board, opening>>
    BY <2>1, <2>2
  <2>3. CASE main' = "scan" /\ opening' = None /\ board' = [board EXCEPT ![opening] = "closed"]
             /\ UNCHANGED ide
    BY <2>1, <2>3
  <2>4. QED
    BY <2>2, <2>3
<1>5. CASE Publish
  BY <1>5, <1>n DEF Publish
<1>6. CASE Opened
  BY <1>6, <1>n DEF Opened
<1>7. CASE CloseEnter
  BY <1>7, <1>n DEF CloseEnter, Enter
<1>q. CASE QuitEnter
  BY <1>q, <1>n DEF QuitEnter, Enter
<1>8. CASE CloseDone \/ QuitDone \/ CloseLate
  <2>1. UNCHANGED <<active, board, ide, bridge, once>> /\ main' \in {"scan", "exit"}
        /\ main \notin {"dialIDE", "publish"}
    BY <1>8 DEF CloseDone, QuitDone, CloseLate
  <2>2. QED
    BY <2>1
<1>b. CASE QuitBegin
  BY <1>b, <1>n DEF QuitBegin
<1>9. ASSUME NEW s \in Session, EndCloseBoard(s) \/ EndCloseIDE(s) PROVE Owned'
  BY <1>9, <1>n DEF EndCloseBoard, EndCloseIDE
<1>10. ASSUME NEW s \in Session, EndClear(s) \/ EndEmit(s) PROVE Owned'
  BY <1>10, <1>n DEF EndClear, EndEmit
<1>11. ASSUME NEW s \in Session, IDECloses(s) PROVE Owned'
  BY <1>11, <1>n DEF IDECloses
<1>12. ASSUME NEW s \in Session, NEW d \in Dir, BridgeStep(s, d) \/ GiveUp(s, d) PROVE Owned'
  <2>1. /\ bridge[s][d] # "none" /\ UNCHANGED <<command, active, ide>>
        /\ UNCHANGED board \/ (board[s] \in {"up", "down"} /\ board' = [board EXCEPT ![s] = "down"])
    BY <1>12, BridgeMoves
  <2>b. PICK b \in {"copying", "dialling", "ended", "ending", "gone"} : bridge' = [bridge EXCEPT ![s][d] = b]
    BY <1>12, BridgeMoves
  <2>c. b # "none" /\ bridge[s][d] # "none"
    BY <2>1
  <2>2. \A t \in Session, e \in Dir : bridge[t][e] = "none" => bridge'[t][e] = "none"
    BY <2>b, <2>c
  <2>3. \/ UNCHANGED once
        \/ once[s] = "unused" /\ once' = [once EXCEPT ![s] = "closeBoard"]
    BY <1>12, BridgeMoves DEF Enter
  <2>4. QED
    BY <2>1, <2>2, <2>3, <1>n
<1>13. CASE UNCHANGED vars
  BY <1>13 DEF vars
<1>14. QED
  BY <1>1, <1>2, <1>3, <1>4, <1>5, <1>6, <1>7, <1>q, <1>8, <1>b, <1>9, <1>10, <1>11, <1>12, <1>13
     DEF Next, Commands, Continue, EndStep

---------------------------------------------------------------------------
(* What the IDE is told *)

\* An event that is sent is the last one, and counts for what it says.
LEMMA SendCounts ==
  ASSUME events \in Seq(Event), NEW type, NEW ok, NEW r, Send(type, ok, r)
  PROVE  LET n == Len(events) + 1
         IN /\ n \in Nat
            /\ \A s : /\ Ends(s)' = Ends(s) \cup (IF r = s /\ type \in {"port_closed", "close"} THEN {n} ELSE {})
                      /\ Starts(s)' = Starts(s) \cup (IF r = s /\ type = "open" THEN {n} ELSE {})
                      /\ \A i \in Ends(s) \cup Starts(s) : i \in Nat /\ i < n
            /\ Answers' = Answers \cup (IF type # "port_closed" THEN {n} ELSE {})
            /\ n \notin Answers
<1> DEFINE n == Len(events) + 1
           e == [type |-> type, ok |-> ok, s |-> r]
<1>1. /\ n \in Nat /\ events' = Append(events, e) /\ Len(events') = n /\ events'[n] = e
      /\ \A i \in 1..Len(events) : events'[i] = events[i]
  BY DEF Send
<1>2. 1..n = (1..Len(events)) \cup {n} /\ n \notin 1..Len(events) /\ \A i \in 1..Len(events) : i \in Nat /\ i < n
  BY <1>1
<1>3. e.type = type /\ e.s = r
  OBVIOUS
<1> HIDE DEF n, e
<1>4. ASSUME NEW s
      PROVE  Ends(s)' = Ends(s) \cup (IF r = s /\ type \in {"port_closed", "close"} THEN {n} ELSE {})
  BY <1>1, <1>2, <1>3 DEF Ends
<1>5. ASSUME NEW s PROVE Starts(s)' = Starts(s) \cup (IF r = s /\ type = "open" THEN {n} ELSE {})
  BY <1>1, <1>2, <1>3 DEF Starts
<1>6. ASSUME NEW s PROVE \A i \in Ends(s) \cup Starts(s) : i \in Nat /\ i < n
  BY <1>2 DEF Ends, Starts
<1>7. /\ Answers' = Answers \cup (IF type # "port_closed" THEN {n} ELSE {})
      /\ n \notin Answers
  BY <1>1, <1>2, <1>3 DEF Answers
<1>8. QED
  BY <1>1, <1>4, <1>5, <1>6, <1>7 DEF n

\* There are finitely many answers; one more counts one more.
LEMMA AnswersCount ==
  ASSUME events \in Seq(Event)
  PROVE  /\ Cardinality(Answers) \in Nat
         /\ \A n : n \notin Answers => Cardinality(Answers \cup {n}) = Cardinality(Answers) + 1
<1>1. Answers \subseteq 1..Len(events) /\ 1 \in Int /\ Len(events) \in Int
  BY DEF Answers
<1>2. IsFiniteSet(Answers)
  BY <1>1, FS_Interval, FS_Subset
<1>3. QED
  BY <1>2, FS_AddElement, FS_CardinalityType

\* An event that is neither the start nor the end of a session.
LEMMA OtherEvent ==
  ASSUME events \in Seq(Event), NEW type, NEW ok, Send(type, ok, None) \/ UNCHANGED events
  PROVE  \A s \in Session : Ends(s)' = Ends(s) /\ Starts(s)' = Starts(s)
<1>1. None \notin Session
  BY DEF None, Session
<1>2. CASE UNCHANGED events
  BY <1>2 DEF Ends, Starts
<1>3. CASE Send(type, ok, None)
  <2>1. ASSUME NEW s \in Session PROVE Ends(s)' = Ends(s) /\ Starts(s)' = Starts(s)
    <3>1. None # s
      BY <1>1
    <3>2. Ends(s)' = Ends(s) \cup {} /\ Starts(s)' = Starts(s) \cup {}
      BY <1>3, <3>1, SendCounts
    <3>3. QED
      BY <3>2
  <2>2. QED
    BY <2>1
<1>4. QED
  BY <1>2, <1>3

\* What is left to show of a step that starts and ends no session.
LEMMA SameSessions ==
  ASSUME TypeOK, Announced, EndAnnounced,
         NEW type, NEW ok, Send(type, ok, None) \/ UNCHANGED events,
         \A s \in Session : Endable(s)' => Endable(s),
         \A s \in Session : once[s] = "done" => once'[s] = "done"
  PROVE  Announced' /\ EndAnnounced'
<1>1. \A s \in Session : Ends(s)' = Ends(s) /\ Starts(s)' = Starts(s)
  BY OtherEvent DEF TypeOK
<1>2. Announced'
  BY <1>1 DEF Announced
<1>3. EndAnnounced'
  BY <1>1 DEF EndAnnounced
<1>4. QED
  BY <1>2, <1>3

\* Every step keeps the order of a session's events.
LEMMA NextAnnounced == TypeOK /\ Owned /\ Announced /\ EndAnnounced /\ [Next]_vars => Announced' /\ EndAnnounced'
<1> SUFFICES ASSUME TypeOK, Owned, Announced, EndAnnounced, [Next]_vars PROVE Announced' /\ EndAnnounced'
  OBVIOUS
<1>n. None \notin Session
  BY DEF None, Session
<1>t. TypeOK
  OBVIOUS
<1> USE DEF command
<1>1. CASE Hello \/ HelloRefused \/ CommandError \/ Configure \/ Describe
           \/ OpenRefused \/ CloseRefused \/ QuitRefused \/ Quit \/ EndOfInput
  <2>1. /\ UNCHANGED <<opening, active, bridge, once>> /\ main = "scan" /\ main' \in {"scan", "quit"}
        /\ UNCHANGED events \/ \E type, ok : Send(type, ok, None)
    BY <1>1 DEF Hello, HelloRefused, CommandError, Configure, Describe, OpenRefused, CloseRefused,
                QuitRefused, Quit, EndOfInput, Answer, Scan
  <2>2. \A s \in Session : Endable(s)' => Endable(s)
    BY <2>1 DEF Endable
  <2>3. QED
    BY <2>1, <2>2, SameSessions
<1>2. CASE (\E s \in Session : OpenBegin(s)) \/ CloseBegin
  <2>1. /\ UNCHANGED <<active, bridge, once, events>> /\ main = "scan"
        /\ main' = "dialBoard" \/ (main' = "close" /\ opening' = active)
    BY <1>2 DEF OpenBegin, CloseBegin, Scan
  <2>2. \A s \in Session : Endable(s)' => Endable(s)
    BY <2>1 DEF Endable
  <2>3. QED
    BY <2>1, <2>2, SameSessions
<1>3. CASE DialBoard \/ DialIDE \/ Publish
  <2>1. /\ UNCHANGED <<bridge, once>> /\ main \in {"dialBoard", "dialIDE", "publish"} /\ active = None
        /\ \/ UNCHANGED active /\ main' \in {"scan", "dialIDE", "publish"}
           \/ active' = opening /\ main' = "opened"
        /\ UNCHANGED events \/ \E type, ok : Send(type, ok, None)
    BY <1>3 DEF DialBoard, DialIDE, IDERefused, Publish, Owned, Opening
  <2>2. \A s \in Session : Endable(s)' => Endable(s)
    BY <2>1, <1>n DEF Endable
  <2>3. QED
    BY <2>1, <2>2, SameSessions
<1>4. CASE Opened
  <2> DEFINE n == Len(events) + 1
  <2>0. /\ opening \in Session /\ active = opening /\ main = "opened" /\ UNCHANGED <<active, once>>
        /\ main' = "scan" /\ Send("open", TRUE, opening) /\ events \in Seq(Event)
        /\ bridge' = [bridge EXCEPT ![opening] = [d \in Dir |-> "copying"]]
    BY <1>4, <1>t DEF Opened, Owned, Opening, TypeOK
  <2>a. PICK type, ok : type = "open" /\ Send(type, ok, opening)
    BY <2>0
  <2>b. \A s : /\ Ends(s)' = Ends(s) \cup (IF opening = s /\ type \in {"port_closed", "close"} THEN {n} ELSE {})
               /\ Starts(s)' = Starts(s) \cup (IF opening = s /\ type = "open" THEN {n} ELSE {})
    <3>1. events \in Seq(Event) /\ Send(type, ok, opening)
      BY <2>0, <2>a
    <3>2. QED
      BY <3>1, SendCounts
  <2> HIDE DEF n
  <2>1. \A s \in Session : /\ Ends(s)' = Ends(s)
                           /\ Starts(s)' = Starts(s) \cup (IF opening = s THEN {n} ELSE {})
    BY <2>a, <2>b
  <2>2. \A s \in Session : s # opening /\ Endable(s)' => Endable(s)
    BY <2>0, <1>t DEF Endable, TypeOK
  <2>3. Announced'
    BY <2>1, <2>2 DEF Announced
  <2>4. EndAnnounced'
    BY <2>0, <2>1 DEF EndAnnounced
  <2>5. QED
    BY <2>3, <2>4
<1>5. CASE CloseEnter \/ QuitEnter
  <2>1. /\ UNCHANGED <<opening, active, bridge, events>> /\ main \in {"close", "silent"}
        /\ main' \in {"closeWait", "silent"} /\ once' = [once EXCEPT ![opening] = "closeBoard"]
        /\ once[opening] = "unused"
    BY <1>5 DEF CloseEnter, QuitEnter, Enter
  <2>2. \A s \in Session : Endable(s)' => Endable(s)
    BY <2>1, <1>t DEF Endable, TypeOK
  <2>3. \A s \in Session : once[s] = "done" => once'[s] = "done"
    BY <2>1, <1>t DEF TypeOK
  <2>4. QED
    BY <2>1, <2>2, <2>3, SameSessions
<1>6. CASE CloseDone \/ QuitBegin \/ QuitDone \/ CloseLate
  <2>1. /\ UNCHANGED <<active, bridge, once>> /\ main \in {"close", "closeWait", "silent", "quit"}
        /\ main' \in {"scan", "exit"} \/ (main' = "silent" /\ opening' = active)
        /\ UNCHANGED events \/ \E type, ok : Send(type, ok, None)
    BY <1>6 DEF CloseDone, QuitBegin, QuitDone, CloseLate
  <2>2. \A s \in Session : Endable(s)' => Endable(s)
    BY <2>1 DEF Endable
  <2>3. QED
    BY <2>1, <2>2, SameSessions
<1>7. ASSUME NEW s \in Session, EndCloseBoard(s) \/ EndCloseIDE(s) \/ EndClear(s)
      PROVE Announced' /\ EndAnnounced'
  <2>1. /\ UNCHANGED <<opening, main, bridge, events>> /\ active' \in {active, None}
        /\ once[s] \notin {"unused", "done"}
        /\ \E l \in {"closeIDE", "clear", "emit"} : once' = [once EXCEPT ![s] = l]
    BY <1>7 DEF EndCloseBoard, EndCloseIDE, EndClear
  <2>2. \A t \in Session : Endable(t)' => Endable(t)
    BY <2>1, <1>t, <1>n DEF Endable, TypeOK
  <2>3. \A t \in Session : once[t] = "done" => once'[t] = "done"
    BY <2>1, <1>t DEF TypeOK
  <2>4. QED
    BY <2>1, <2>2, <2>3, SameSessions
<1>8. ASSUME NEW s \in Session, EndEmit(s) PROVE Announced' /\ EndAnnounced'
  <2> DEFINE n == Len(events) + 1
  <2>0. /\ UNCHANGED <<opening, main, bridge, active>> /\ once[s] = "emit" /\ events \in Seq(Event)
        /\ once' = [once EXCEPT ![s] = "done"] /\ reason[s] \in {"none", "port_closed", "close"}
    BY <1>8, <1>t DEF EndEmit, TypeOK
  <2>1. \A t \in Session : Endable(t)' => Endable(t)
    BY <2>0, <1>t DEF Endable, TypeOK
  <2>2. \A t \in Session : once[t] = "done" => once'[t] = "done"
    BY <2>0, <1>t DEF TypeOK
  <2>3. CASE UNCHANGED events
    BY <2>1, <2>2, <2>3, SameSessions
  <2>4. CASE reason[s] # "none" /\ Send(reason[s], reason[s] = "close", s)
    <3>a. \A t : /\ Ends(t)' = Ends(t) \cup (IF s = t /\ reason[s] \in {"port_closed", "close"} THEN {n} ELSE {})
                 /\ Starts(t)' = Starts(t) \cup (IF s = t /\ reason[s] = "open" THEN {n} ELSE {})
                 /\ \A i \in Ends(t) \cup Starts(t) : i \in Nat /\ i < n
      BY <2>0, <2>4, SendCounts
    <3> HIDE DEF n
    <3>1. /\ \A t \in Session : /\ Ends(t)' = Ends(t) \cup (IF s = t THEN {n} ELSE {})
                                /\ Starts(t)' = Starts(t)
          /\ \A i \in Starts(s) : i < n
      BY <3>a, <2>0, <2>4
    <3>2. Ends(s) = {} /\ Starts(s) # {}
      BY <2>0 DEF Announced, Endable, EndAnnounced
    <3>3. Announced'
      BY <3>1, <2>1 DEF Announced
    <3>4. EndAnnounced'
      <4>1. ASSUME NEW t \in Session, t # s
            PROVE  Ends(t)' = Ends(t) /\ Starts(t)' = Starts(t) /\ once'[t] = once[t]
        BY <4>1, <3>1, <2>0, <1>t DEF TypeOK
      <4>2. Ends(s)' = {n} /\ Starts(s)' = Starts(s) /\ once'[s] = "done"
        BY <3>1, <3>2, <2>0, <1>t DEF TypeOK
      <4>3. QED
        BY <4>1, <4>2, <3>1, <3>2 DEF EndAnnounced
    <3>5. QED
      BY <3>3, <3>4
  <2>5. QED
    BY <2>3, <2>4, <1>8 DEF EndEmit
<1>9. ASSUME NEW s \in Session, IDECloses(s) PROVE Announced' /\ EndAnnounced'
  <2>1. UNCHANGED <<opening, active, main, bridge, once, events>>
    BY <1>9 DEF IDECloses
  <2>2. \A t \in Session : Endable(t)' => Endable(t)
    BY <2>1 DEF Endable
  <2>3. QED
    BY <2>1, <2>2, SameSessions
<1>10. ASSUME NEW s \in Session, NEW d \in Dir, BridgeStep(s, d) \/ GiveUp(s, d) PROVE Announced' /\ EndAnnounced'
  <2>a. /\ UNCHANGED <<opening, active, main, events>> /\ bridge[s][d] # "none"
        /\ \E b \in {"copying", "dialling", "ended", "ending", "gone"} : bridge' = [bridge EXCEPT ![s][d] = b]
    BY <1>10, BridgeMoves
  <2>b. \A t \in Session, e \in Dir : bridge[t][e] = "none" => bridge'[t][e] = "none"
    BY <2>a, <1>t DEF TypeOK
  <2>1. /\ UNCHANGED <<opening, active, main, events>> /\ bridge[s][d] # "none"
        /\ \A t \in Session, e \in Dir : bridge[t][e] = "none" => bridge'[t][e] = "none"
    BY <2>a, <2>b
  <2>2. /\ \A t \in Session : t # s => once'[t] = once[t]
        /\ once[s] = "done" => once'[s] = "done"
    BY <1>10, <1>t, BridgeMoves DEF Enter, TypeOK
  <2>3. \A t \in Session : Endable(t)' => Endable(t)
    BY <2>1, <2>2 DEF Endable
  <2>4. QED
    BY <2>1, <2>2, <2>3, SameSessions
<1>11. CASE UNCHANGED vars
  <2>1. UNCHANGED <<opening, active, main, bridge, once, events>>
    BY <1>11 DEF vars
  <2>2. \A t \in Session : Endable(t)' => Endable(t)
    BY <2>1 DEF Endable
  <2>3. QED
    BY <2>1, <2>2, SameSessions
<1>12. QED
  BY <1>1, <1>2, <1>3, <1>4, <1>5, <1>6, <1>7, <1>8, <1>9, <1>10, <1>11
     DEF Next, Commands, Continue, EndStep

\* A step that sends an answer counts one more, any other none.
LEMMA AnswerSent ==
  ASSUME events \in Seq(Event), NEW type, NEW ok, NEW r, Send(type, ok, r)
  PROVE  /\ Cardinality(Answers) \in Nat
         /\ type # "port_closed" => Cardinality(Answers') = Cardinality(Answers) + 1
         /\ type = "port_closed" => Cardinality(Answers') = Cardinality(Answers)
<1> DEFINE n == Len(events) + 1
<1>1. Answers' = Answers \cup (IF type # "port_closed" THEN {n} ELSE {}) /\ n \notin Answers
  BY SendCounts
<1> HIDE DEF n
<1>2. type # "port_closed" => Answers' = Answers \cup {n}
  BY <1>1
<1>3. type = "port_closed" => Answers' = Answers
  BY <1>1
<1>4. QED
  BY <1>1, <1>2, <1>3, AnswersCount

\* Every step keeps the count of answers.
LEMMA NextAnswering == TypeOK /\ Owned /\ Answering /\ [Next]_vars => Answering'
<1> SUFFICES ASSUME TypeOK, Owned, Answering, [Next]_vars PROVE Answering'
  OBVIOUS
<1> DEFINE C == Cardinality(Answers)
<1>n. None \notin Session
  BY DEF None, Session
<1>t. TypeOK /\ events \in Seq(Event) /\ C \in Nat /\ asked \in Nat
  BY AnswersCount DEF TypeOK
<1>u. UNCHANGED events => C' = C
  BY DEF Answers
<1>s. \A type, ok, r : Send(type, ok, r) /\ type # "port_closed" => C' = C + 1
  BY <1>t, AnswerSent
<1>e. \A ok, r : Send("port_closed", ok, r) => C' = C
  BY <1>t, AnswerSent
<1>i. /\ C + (IF Owing THEN 1 ELSE 0) = asked
      /\ main = "closeWait" => once[opening] # "unused" /\ reason[opening] = "close"
      /\ \A s \in Session : reason[s] = "close" /\ once[s] # "done" => main = "closeWait" /\ s = opening
  BY DEF Answering
<1> DEFINE Goal ==
        /\ C' + (IF Owing' THEN 1 ELSE 0) = asked'
        /\ main' = "closeWait" => once'[opening'] # "unused" /\ reason'[opening'] = "close"
        /\ \A s \in Session : reason'[s] = "close" /\ once'[s] # "done" => main' = "closeWait" /\ s = opening'
<1>g. Goal => Answering'
  BY DEF Answering
<1> HIDE DEF C
<1> USE DEF command
<1>a. ASSUME NEW type, NEW ok, Scan, Send(type, ok, None), type # "port_closed",
             main' \in {"scan", "quit"}, UNCHANGED <<once, reason>>
      PROVE Goal
  <2>1. C' = C + 1 /\ ~Owing /\ ~Owing' /\ asked' = asked + 1 /\ main = "scan"
    BY <1>a, <1>s DEF Owing, Scan
  <2>2. QED
    BY <2>1, <1>a, <1>i, <1>t
<1>b. ASSUME NEW type, NEW ok, NEW r, Send(type, ok, r), type # "port_closed", main' = "scan",
             main \in {"dialBoard", "dialIDE", "publish", "opened", "close"},
             UNCHANGED <<once, reason, asked>>
      PROVE Goal
  <2>1. C' = C + 1 /\ Owing /\ ~Owing'
    BY <1>b, <1>s DEF Owing
  <2>2. QED
    BY <2>1, <1>b, <1>i, <1>t
<1>c. ASSUME main' \in {"dialIDE", "publish", "opened"}, main \in {"dialBoard", "dialIDE", "publish"},
             UNCHANGED <<once, reason, asked, events>>
      PROVE Goal
  <2>1. C' = C /\ Owing /\ Owing'
    BY <1>c, <1>u DEF Owing
  <2>2. QED
    BY <2>1, <1>c, <1>i, <1>t
<1>1. ASSUME Hello \/ HelloRefused \/ CommandError \/ Configure \/ Describe
           \/ OpenRefused \/ CloseRefused \/ QuitRefused \/ Quit
      PROVE Goal
  <2>1. ASSUME Answer PROVE Goal
    BY <2>1, <1>a DEF Answer, Scan
  <2>2. ASSUME Hello PROVE Goal
    BY <2>2, <1>a DEF Hello, Scan
  <2>3. ASSUME Quit PROVE Goal
    BY <2>3, <1>a DEF Quit, Scan
  <2> HIDE DEF Goal
  <2>4. QED
    BY <2>1, <2>2, <2>3, <1>1 DEF HelloRefused, CommandError, Configure, Describe, OpenRefused, CloseRefused,
                QuitRefused
<1>2. ASSUME (\E s \in Session : OpenBegin(s)) \/ CloseBegin
      PROVE Goal
  <2>1. /\ UNCHANGED <<once, reason, events>> /\ main = "scan" /\ main' \in {"dialBoard", "close"}
        /\ asked' = asked + 1
    BY <1>2 DEF OpenBegin, CloseBegin, Scan
  <2>2. C' = C /\ ~Owing /\ Owing'
    BY <2>1, <1>u DEF Owing
  <2>3. QED
    BY <2>1, <2>2, <1>i, <1>t
<1>3. ASSUME DialBoard \/ DialIDE \/ Publish \/ Opened \/ CloseLate
      PROVE Goal
  <2> HIDE DEF Goal
  <2>1. ASSUME DialBoard PROVE Goal
    BY <2>1, <1>b, <1>c DEF DialBoard
  <2>2. ASSUME DialIDE PROVE Goal
    BY <2>2, <1>b, <1>c DEF DialIDE, IDERefused
  <2>3. ASSUME Publish PROVE Goal
    BY <2>3, <1>b, <1>c DEF Publish
  <2>4. ASSUME Opened \/ CloseLate PROVE Goal
    BY <2>4, <1>b DEF Opened, CloseLate
  <2>5. QED
    BY <1>3, <2>1, <2>2, <2>3, <2>4
<1>4. ASSUME CloseEnter
      PROVE Goal
  <2>1. /\ UNCHANGED <<events, asked, opening>> /\ main = "close" /\ main' = "closeWait" /\ opening \in Session
        /\ once'[opening] = "closeBoard" /\ reason'[opening] = "close"
        /\ \A s \in Session : s # opening => once'[s] = once[s] /\ reason'[s] = reason[s]
    BY <1>4, <1>t DEF CloseEnter, Enter, TypeOK
  <2>2. C' = C /\ Owing /\ Owing'
    BY <2>1, <1>u DEF Owing
  <2>3. QED
    BY <2>1, <2>2, <1>i, <1>t
<1>5. ASSUME QuitEnter
      PROVE Goal
  <2>1. /\ UNCHANGED <<events, asked, opening, main>> /\ main = "silent" /\ opening \in Session
        /\ reason'[opening] = "none"
        /\ \A s \in Session : s # opening => once'[s] = once[s] /\ reason'[s] = reason[s]
    BY <1>5, <1>t DEF QuitEnter, Enter, TypeOK
  <2>2. C' = C /\ ~Owing /\ ~Owing'
    BY <2>1, <1>u DEF Owing
  <2>3. QED
    BY <2>1, <2>2, <1>i, <1>t
<1>6. ASSUME CloseDone \/ EndOfInput \/ QuitBegin \/ QuitDone
      PROVE Goal
  <2>1. /\ UNCHANGED <<once, reason, events, asked>> /\ main' \in {"scan", "quit", "silent", "exit"}
        /\ main \in {"scan", "quit", "silent"} \/ (main = "closeWait" /\ once[opening] = "done")
    BY <1>6 DEF CloseDone, EndOfInput, QuitBegin, QuitDone
  <2>2. C' = C /\ ~Owing /\ ~Owing'
    BY <2>1, <1>u DEF Owing
  <2>3. QED
    BY <2>1, <2>2, <1>i, <1>t
<1>7. ASSUME NEW s \in Session, EndCloseBoard(s) \/ EndCloseIDE(s) \/ EndClear(s) PROVE Goal
  <2>1. /\ UNCHANGED <<opening, main, reason, events, asked>>
        /\ once[s] # "done" /\ once'[s] \notin {"unused", "done"}
        /\ \A t \in Session : t # s => once'[t] = once[t]
    BY <1>7, <1>t DEF EndCloseBoard, EndCloseIDE, EndClear, TypeOK
  <2>2. C' = C /\ (Owing <=> Owing')
    BY <2>1, <1>u, <1>t DEF Owing, TypeOK
  <2>3. QED
    BY <2>1, <2>2, <1>i, <1>t DEF TypeOK
<1>8. ASSUME NEW s \in Session, EndEmit(s) PROVE Goal
  <2>1. /\ UNCHANGED <<opening, main, reason, asked>>
        /\ once[s] = "emit" /\ once'[s] = "done" /\ reason[s] \in {"none", "port_closed", "close"}
        /\ \A t \in Session : t # s => once'[t] = once[t]
        /\ main = "closeWait" => opening \in Session
    BY <1>8, <1>t DEF EndEmit, TypeOK
  <2>2. ASSUME reason[s] = "close" PROVE Goal
    <3>1. main = "closeWait" /\ s = opening /\ Send("close", TRUE, s)
      BY <2>1, <2>2, <1>i, <1>8 DEF EndEmit
    <3>2. C' = C + 1 /\ Owing /\ ~Owing'
      BY <3>1, <2>1, <1>s DEF Owing
    <3>3. QED
      BY <2>1, <3>1, <3>2, <1>i, <1>t
  <2>3. ASSUME reason[s] # "close" PROVE Goal
    <3>1. C' = C
      BY <2>1, <2>3, <1>8, <1>u, <1>e DEF EndEmit
    <3>2. (main = "closeWait" => s # opening)
      BY <2>3, <1>i
    <3>3. Owing <=> Owing'
      BY <3>2, <2>1 DEF Owing
    <3>4. QED
      BY <2>1, <3>1, <3>2, <3>3, <1>i, <1>t
  <2>4. QED
    BY <2>2, <2>3
<1>9. ASSUME NEW s \in Session, IDECloses(s) PROVE Goal
  <2>1. UNCHANGED <<opening, main, reason, once, events, asked>>
    BY <1>9 DEF IDECloses
  <2>2. C' = C /\ (Owing <=> Owing')
    BY <2>1, <1>u DEF Owing
  <2>3. QED
    BY <2>1, <2>2, <1>i, <1>t
<1>10. ASSUME NEW s \in Session, NEW d \in Dir, BridgeStep(s, d) \/ GiveUp(s, d) PROVE Goal
  <2>1. /\ UNCHANGED <<opening, main, events, asked>>
        /\ \A t \in Session : t # s => once'[t] = once[t] /\ reason'[t] = reason[t]
        /\ \/ once'[s] = once[s] /\ reason'[s] = reason[s]
           \/ once[s] = "unused" /\ once'[s] = "closeBoard" /\ reason'[s] = "port_closed"
        /\ main = "closeWait" => opening \in Session
    BY <1>10, <1>t, BridgeMoves DEF Enter, TypeOK
  <2>2. main = "closeWait" => once'[opening] = once[opening] /\ reason'[opening] = reason[opening]
    BY <2>1, <1>i
  <2>3. C' = C /\ (Owing <=> Owing')
    BY <2>1, <2>2, <1>u DEF Owing
  <2>4. QED
    BY <2>1, <2>2, <2>3, <1>i, <1>t
<1>11. ASSUME UNCHANGED vars
      PROVE Goal
  <2>1. UNCHANGED <<opening, main, reason, once, events, asked>>
    BY <1>11 DEF vars
  <2>2. C' = C /\ (Owing <=> Owing')
    BY <2>1, <1>u DEF Owing
  <2>3. QED
    BY <2>1, <2>2, <1>i, <1>t
<1>12. QED
  BY <1>g, <1>1, <1>2, <1>3, <1>4, <1>5, <1>6, <1>7, <1>8, <1>9, <1>10, <1>11
     DEF Next, Commands, Continue, EndStep

---------------------------------------------------------------------------
(* Theorems *)

\* The invariant holds in every reachable state.
LEMMA AlwaysInv == Spec => []Inv
<1>1. Init => Inv
  BY InitInv
<1>2. Inv /\ [Next]_vars => Inv'
  BY NextType, NextOwned, NextAnnounced, NextAnswering DEF Inv, Told
<1>3. QED
  BY <1>1, <1>2, PTL DEF Spec

\* The type invariant of the monitor process.
THEOREM TypeCorrect == Spec => []TypeOK
<1>1. Inv => TypeOK
  BY DEF Inv
<1>2. QED
  BY <1>1, AlwaysInv, PTL

\* Only the active session and the one OPEN works on have open connections.
THEOREM EveryConnectionOwned == Spec => []ConnectionsOwned
<1>1. Inv => ConnectionsOwned
  BY DEF Inv, Owned
<1>2. QED
  BY <1>1, AlwaysInv, PTL

\* Two sessions are connected to the board only while one of them has ended
\* inside a dial that goes on.
THEOREM SingleBoardConnection == Spec => []OneBoardConnection
<1>1. ASSUME Inv PROVE OneBoardConnection
  <2>1. None \notin Session
    BY DEF None, Session
  <2>2. \A s \in Session : Connected(s) => board[s] \in {"up", "down"} \/ Overtaken(s)
    BY <1>1 DEF Inv, Owned, Untouched, Fresh, Connected, Overtaken, TypeOK
  <2>3. \A s, t \in Session : board[s] \in {"up", "down"} /\ board[t] \in {"up", "down"} => s = t
    BY <1>1, <2>1 DEF Inv, Owned, ConnectionsOwned, Opening
  <2>4. QED
    BY <2>2, <2>3 DEF OneBoardConnection
<1>2. QED
  BY <1>1, AlwaysInv, PTL

\* A set without two elements has at most one.
LEMMA AtMostOne == ASSUME NEW S, \A i, j \in S : i = j PROVE Cardinality(S) <= 1
<1>1. CASE S = {}
  BY <1>1, FS_EmptySet
<1>2. CASE S # {}
  <2>1. PICK i \in S : S = {i}
    BY <1>2
  <2>2. Cardinality({i}) = 1
    BY FS_Singleton
  <2>3. QED
    BY <2>1, <2>2
<1>3. QED
  BY <1>1, <1>2

\* The IDE is told once that a session has ended, after it was told that it is
\* open, whoever ends it.
THEOREM SessionsEndOnce == Spec => []SessionEvents
<1>1. Inv => SessionEvents
  BY AtMostOne DEF Inv, Told, EndAnnounced, SessionEvents
<1>2. QED
  BY <1>1, AlwaysInv, PTL

\* Every command read has had exactly one answer when the next is read.
THEOREM CommandsAnswered == Spec => []EveryCommandAnswered
<1>1. ASSUME Inv, main = "scan" PROVE Cardinality(Answers) = asked
  <2>1. ~Owing /\ Cardinality(Answers) \in Nat
    BY <1>1, AnswersCount DEF Owing, Inv, TypeOK
  <2>2. QED
    BY <1>1, <2>1 DEF Inv, Told, Answering
<1>2. Inv => EveryCommandAnswered
  BY <1>1 DEF EveryCommandAnswered, Answers
<1>3. QED
  BY <1>2, AlwaysInv, PTL

---------------------------------------------------------------------------
(* Who runs the end of a session *)

\* While the body of endSession runs, one goroutine is inside it, the one that
\* entered it for the event it emits; whoever has entered is there or done.
\* Everybody else who ends the session waits in once.Do for this one, and it
\* waits for nobody: its steps have no guard but their order.
Runs(s) == once[s] \notin {"unused", "done"}
Inside(s, d) == bridge[s][d] = "ending"
OneEnder ==
  /\ main = "closeWait" => once[opening] # "unused" /\ reason[opening] = "close"
  /\ \A s \in Session :
       /\ \A d \in Dir : Inside(s, d) => once[s] # "unused" /\ reason[s] = "port_closed"
       /\ Runs(s) => \/ reason[s] = "close" /\ main = "closeWait" /\ opening = s
                     \/ reason[s] = "none" /\ main = "silent" /\ opening = s
                     \/ reason[s] = "port_closed" /\ \E d \in Dir : \A e \in Dir : Inside(s, e) <=> e = d

\* No step makes a second goroutine enter, or leaves the body without one.
LEMMA NextOneEnder == TypeOK /\ Owned /\ OneEnder /\ [Next]_vars => OneEnder'
<1> SUFFICES ASSUME TypeOK, Owned, OneEnder, [Next]_vars PROVE OneEnder'
  OBVIOUS
<1> USE DEF TypeOK, OneEnder, Runs, Inside, command
<1>n. None \notin Session
  BY DEF None, Session
\* The command loop outside endSession.
<1>a. ASSUME main \notin {"closeWait", "silent"}, main' # "closeWait", UNCHANGED <<once, reason>>,
             \A s \in Session, d \in Dir : Inside(s, d)' <=> Inside(s, d)
      PROVE OneEnder'
  BY <1>a
<1>1. CASE Commands
  BY <1>1, <1>a DEF Commands, Hello, HelloRefused, CommandError, Configure, Describe, OpenRefused,
                    CloseRefused, QuitRefused, OpenBegin, CloseBegin, Quit, EndOfInput, Answer, Scan
<1>2. CASE DialBoard \/ DialIDE \/ Publish \/ CloseLate \/ QuitBegin
  BY <1>2, <1>a DEF DialBoard, DialIDE, Publish, CloseLate, QuitBegin
<1>3. CASE Opened
  <2>1. \A s \in Session, d \in Dir : Inside(s, d)' <=> Inside(s, d)
    <3>1. Dir # {} /\ opening \in Session
      BY <1>3 DEF Opened, Dir
    <3>2. \A d \in Dir : bridge[opening][d] # "ending" /\ bridge'[opening][d] # "ending"
      BY <1>3, <3>1 DEF Opened, Owned, Opening, Fresh
    <3>3. \A s \in Session : s # opening => bridge'[s] = bridge[s]
      BY <1>3 DEF Opened
    <3>4. QED
      BY <3>2, <3>3
  <2>2. QED
    BY <1>3, <1>a, <2>1 DEF Opened
<1>4. CASE CloseEnter \/ QuitEnter
  BY <1>4, <1>n DEF CloseEnter, QuitEnter, Enter
<1>5. CASE CloseDone \/ QuitDone
  BY <1>5, <1>n DEF CloseDone, QuitDone
<1>6. ASSUME NEW s \in Session, EndStep(s) PROVE OneEnder'
  <2>1. /\ Runs(s) /\ UNCHANGED <<main, opening, bridge, reason>>
        /\ \E x \in {"closeIDE", "clear", "emit", "done"} : once' = [once EXCEPT ![s] = x]
    BY <1>6 DEF EndStep, EndCloseBoard, EndCloseIDE, EndClear, EndEmit
  <2>2. \A t \in Session : (Runs(t)' => Runs(t)) /\ (once[t] # "unused" => once'[t] # "unused")
    BY <2>1
  <2>3. \A t \in Session, e \in Dir : Inside(t, e)' <=> Inside(t, e)
    BY <2>1
  <2>4. main = "closeWait" => opening \in Session
    BY <1>n
  <2> HIDE DEF Inside, Runs
  <2>5. QED
    BY <2>1, <2>2, <2>3, <2>4
<1>7. ASSUME NEW s \in Session, IDECloses(s) PROVE OneEnder'
  BY <1>7 DEF IDECloses
<1>8. ASSUME NEW s \in Session, NEW d \in Dir, CopyEnds(s, d) \/ Reconnect(s, d) \/ GiveUp(s, d)
      PROVE OneEnder'
  <2> DEFINE Copies == {"copying", "dialling", "ended"}
  <2>1. UNCHANGED <<main, opening, once, reason>>
    BY <1>8 DEF CopyEnds, Reconnect, ReconnectDials, DialEnds, GiveUp
  <2>2. bridge[s][d] \in Copies /\ \E b \in Copies : bridge' = [bridge EXCEPT ![s][d] = b]
    BY <1>8 DEF CopyEnds, Reconnect, ReconnectDials, DialEnds, GiveUp, MoveBridge
  <2>3. \A t \in Session, e \in Dir : Inside(t, e)' <=> Inside(t, e)
    BY <2>2
  <2> HIDE DEF Inside
  <2>4. QED
    BY <2>1, <2>3
<1>9. ASSUME NEW s \in Session, NEW d \in Dir, BridgeEnter(s, d) PROVE OneEnder'
  <2>1. /\ once[s] = "unused" /\ once' = [once EXCEPT ![s] = "closeBoard"]
        /\ reason' = [reason EXCEPT ![s] = "port_closed"] /\ UNCHANGED <<main, opening>>
    BY <1>9 DEF BridgeEnter, Enter
  <2>2. \A t \in Session : t # s => bridge'[t] = bridge[t] /\ once'[t] = once[t] /\ reason'[t] = reason[t]
    BY <1>9, <2>1 DEF BridgeEnter
  <2>3. once'[s] = "closeBoard" /\ reason'[s] = "port_closed"
    BY <2>1
  <2>4. \A e \in Dir : Inside(s, e)' <=> e = d
    <3>1. \A e \in Dir : bridge[s][e] # "ending"
      BY <2>1
    <3>2. \A e \in Dir : bridge'[s][e] = IF e = d THEN "ending" ELSE bridge[s][e]
      BY <1>9 DEF BridgeEnter
    <3>3. QED
      BY <3>1, <3>2
  <2>5. \A t \in Session : t # s => \A e \in Dir : Inside(t, e)' <=> Inside(t, e)
    BY <2>2
  <2>6. main = "closeWait" => opening # s
    BY <2>1
  <2>7. main' = "closeWait" => once'[opening'] # "unused" /\ reason'[opening'] = "close"
    BY <2>1, <2>2, <2>6
  <2>8. ASSUME NEW t \in Session
        PROVE /\ \A e \in Dir : Inside(t, e)' => once'[t] # "unused" /\ reason'[t] = "port_closed"
              /\ Runs(t)' => \/ reason'[t] = "close" /\ main' = "closeWait" /\ opening' = t
                             \/ reason'[t] = "none" /\ main' = "silent" /\ opening' = t
                             \/ reason'[t] = "port_closed"
                                  /\ \E a \in Dir : \A e \in Dir : Inside(t, e)' <=> e = a
    <3>1. CASE t = s
      BY <2>3, <2>4, <3>1
    <3>2. CASE t # s
      <4> HIDE DEF Inside
      <4>1. \A e \in Dir : Inside(t, e)' <=> Inside(t, e)
        BY <2>5, <3>2
      <4>2. once'[t] = once[t] /\ reason'[t] = reason[t] /\ UNCHANGED <<main, opening>>
        BY <2>1, <2>2, <3>2
      <4>3. QED
        BY <4>1, <4>2
    <3>3. QED
      BY <3>1, <3>2
  <2>9. QED
    BY <2>7, <2>8
<1>10. ASSUME NEW s \in Session, NEW d \in Dir, BridgeDone(s, d) PROVE OneEnder'
  <2>1. once[s] = "done" /\ UNCHANGED <<main, opening, once, reason>>
    BY <1>10 DEF BridgeDone
  <2>2. \A t \in Session : t # s => bridge'[t] = bridge[t]
    BY <1>10 DEF BridgeDone
  <2>3. \A e \in Dir : bridge'[s][e] = "ending" => bridge[s][e] = "ending"
    <3>1. \A e \in Dir : bridge'[s][e] = IF e = d THEN "gone" ELSE bridge[s][e]
      BY <1>10 DEF BridgeDone
    <3>2. QED
      BY <3>1
  <2>4. \A t \in Session, e \in Dir : t # s => (Inside(t, e)' <=> Inside(t, e))
    BY <2>2
  <2>5. \A e \in Dir : Inside(s, e)' => Inside(s, e)
    BY <2>3
  <2> HIDE DEF Inside
  <2>6. QED
    BY <2>1, <2>4, <2>5
<1>11. CASE UNCHANGED vars
  BY <1>11 DEF vars
<1>12. QED
  BY <1>1, <1>2, <1>3, <1>4, <1>5, <1>6, <1>7, <1>8, <1>9, <1>10, <1>11
     DEF Next, Continue, BridgeStep

\* Nobody who waits for the end of a session waits for somebody who waits for him.
THEOREM EndHasRunner == Spec => []OneEnder
<1>1. Init => OneEnder
  BY DEF Init, OneEnder, Runs, Inside
<1>2. Inv /\ OneEnder /\ [Next]_vars => OneEnder'
  BY NextOneEnder DEF Inv
<1>3. QED
  BY <1>1, <1>2, AlwaysInv, PTL DEF Spec

---------------------------------------------------------------------------
(* The board connection *)

\* Each session uses its board connection as BoardConnection allows: the part of
\* UsesBoardConnection without its fairness.
UsesBoardSafely ==
  /\ \A s \in Session : Board(s)!Init
  /\ [][\A s \in Session : Board(s)!Next \/ UNCHANGED Board(s)!vars]_vars

\* A session that was not opened yet is an unopened connection.
LEMMA BoardInit == Init => \A s \in Session : Board(s)!Init
<1> SUFFICES ASSUME Init, NEW s \in Session PROVE Board(s)!Init
  OBVIOUS
<1>1. board[s] = "none" /\ ide[s] = "none" /\ Working(s) = Dir
  BY DEF Init, Working
<1>2. QED
  BY <1>1 DEF Board!Init

\* What a step of the connection is, in terms of the session.
Gone(s) == ide[s] \in {"down", "closed"}
Moves(s) ==
  \/ board'[s] = board[s]
  \/ /\ Gone(s)' = Gone(s)
     /\ \/ board[s] = "none" /\ board'[s] = "up"
        \/ board[s] = "up" /\ board'[s] = "down"
        \/ board[s] # "closed" /\ board'[s] = "closed"

\* The bridges that go on are among those that did, and have gone on unless
\* there is a reason.
Leave(s) ==
  /\ Working(s)' \subseteq Working(s)
  /\ Working(s)' # Working(s) => board'[s] \in {"down", "closed"} \/ Gone(s)'

LEMMA ConnectionStep ==
  ASSUME NEW s \in Session, Moves(s), Leave(s), Gone(s) => Gone(s)'
  PROVE  Board(s)!Next
<1>1. CASE board'[s] = board[s] /\ Gone(s)' = Gone(s)
  <2>1. Board(s)!UsersEnd
    BY <1>1 DEF Leave, Gone, Board!UsersEnd, Board!Step
  <2>2. QED
    BY <2>1 DEF Board!Next
<1>2. CASE board'[s] = board[s] /\ Gone(s)' # Gone(s)
  <2>1. Board(s)!IDEGoes
    BY <1>2 DEF Leave, Gone, Board!IDEGoes, Board!Step
  <2>2. QED
    BY <2>1 DEF Board!Next
<1>3. CASE Gone(s)' = Gone(s) /\ board'[s] # board[s]
  <2>1. Board(s)!Open \/ Board(s)!Fail \/ Board(s)!Close
    BY <1>3 DEF Leave, Moves, Gone, Board!Open, Board!Fail, Board!Close, Board!Step
  <2>2. QED
    BY <2>1 DEF Board!Next
<1>4. QED
  BY <1>1, <1>2, <1>3 DEF Moves

\* A step that leaves a session's connections and bridges alone.
LEMMA OtherSession ==
  ASSUME NEW s \in Session, board'[s] = board[s], ide'[s] = ide[s], bridge'[s] = bridge[s],
         main = "exit" => main' = "exit",
         main' = "exit" => main = "exit" \/ board[s] \in {"none", "closed"}
  PROVE  Moves(s) /\ Leave(s) /\ (Gone(s) => Gone(s)')
  BY DEF Moves, Leave, Gone, Working, Running

\* Every step of the process is, for each session, one its board connection
\* allows.
LEMMA NextUses == Inv /\ [Next]_vars => \A s \in Session : Moves(s) /\ Leave(s) /\ (Gone(s) => Gone(s)')
<1> SUFFICES ASSUME Inv, [Next]_vars, NEW s \in Session
             PROVE  Moves(s) /\ Leave(s) /\ (Gone(s) => Gone(s)')
  OBVIOUS
<1> DEFINE Goal == Moves(s) /\ Leave(s) /\ (Gone(s) => Gone(s)')
<1>t. /\ TypeOK /\ Opening /\ Untouched /\ Ending /\ Closing /\ ActiveDialled /\ ConnectionsOwned
      /\ None \notin Session
  BY DEF Inv, Owned, None, Session
<1> HIDE DEF Goal
<1> USE DEF command
<1>1. ASSUME Hello \/ HelloRefused \/ CommandError \/ Configure \/ Describe
             \/ OpenRefused \/ CloseRefused \/ QuitRefused \/ Quit \/ EndOfInput \/ CloseBegin
             \/ (\E t \in Session : OpenBegin(t))
      PROVE Goal
  <2>1. UNCHANGED <<board, ide, bridge>> /\ main = "scan" /\ main' # "exit"
    BY <1>1 DEF Hello, HelloRefused, CommandError, Configure, Describe, OpenRefused, CloseRefused,
                QuitRefused, Quit, EndOfInput, CloseBegin, OpenBegin, Answer, Scan
  <2>2. QED
    BY <2>1, OtherSession DEF Goal
<1>2. ASSUME Publish \/ CloseEnter \/ CloseDone \/ CloseLate \/ QuitEnter PROVE Goal
  <2>1. UNCHANGED <<board, ide, bridge>> /\ main # "exit" /\ main' # "exit"
    BY <1>2, <1>t DEF Publish, CloseEnter, CloseDone, CloseLate, QuitEnter, Opening
  <2>2. QED
    BY <2>1, OtherSession DEF Goal
<1>3. ASSUME QuitBegin \/ QuitDone PROVE Goal
  <2>1. UNCHANGED <<board, ide, bridge>> /\ main \in {"quit", "silent"}
    BY <1>3 DEF QuitBegin, QuitDone
  <2>2. main' = "exit" => active = None
    BY <1>3, <1>t DEF QuitBegin, QuitDone, Closing, Ending, TypeOK
  <2>3. main' = "exit" => board[s] \in {"none", "closed"}
    BY <2>1, <2>2, <1>t DEF ConnectionsOwned, TypeOK
  <2>4. QED
    BY <2>1, <2>3, OtherSession DEF Goal
<1>4. ASSUME DialBoard PROVE Goal
  <2>1. CASE s = opening
    <3>1. /\ board[s] = "none" /\ ide[s] = "none" /\ main = "dialBoard"
          /\ \A d \in Dir : bridge[s][d] = "none"
      BY <1>4, <2>1, <1>t DEF DialBoard, Opening, Fresh
    <3>2. board'[s] \in {"up", "closed"} /\ UNCHANGED <<ide, bridge>> /\ main' # "exit"
      BY <1>4, <2>1, <1>t DEF DialBoard, TypeOK
    <3>3. Working(s) = Dir /\ (board'[s] = "up" => Working(s)' = Dir)
      BY <3>1, <3>2 DEF Working, Running
    <3>4. Working(s)' \subseteq Dir
      BY DEF Working
    <3>5. QED
      BY <3>1, <3>2, <3>3, <3>4 DEF Goal, Moves, Leave, Gone
  <2>2. CASE s # opening
    <3>1. board'[s] = board[s] /\ UNCHANGED <<ide, bridge>> /\ main = "dialBoard" /\ main' # "exit"
      BY <1>4, <2>2, <1>t DEF DialBoard, TypeOK
    <3>2. QED
      BY <3>1, OtherSession DEF Goal
  <2>3. QED
    BY <2>1, <2>2
<1>5. ASSUME DialIDE PROVE Goal
  <2>1. CASE s = opening
    <3>1. board[s] \in {"up", "down"} /\ ide[s] = "none" /\ main = "dialIDE"
      BY <1>5, <2>1, <1>t DEF DialIDE, Opening
    <3>2. /\ UNCHANGED bridge /\ main' \in {"scan", "publish"}
          /\ \/ ide'[s] = "up" /\ board'[s] = board[s]
             \/ ide'[s] = ide[s] /\ board'[s] = "closed"
      BY <1>5, <2>1, <1>t DEF DialIDE, IDERefused, TypeOK
    <3>3. QED
      BY <3>1, <3>2 DEF Goal, Moves, Leave, Gone, Working, Running
  <2>2. CASE s # opening
    <3>1. board'[s] = board[s] /\ ide'[s] = ide[s] /\ UNCHANGED bridge /\ main = "dialIDE" /\ main' # "exit"
      BY <1>5, <2>2, <1>t DEF DialIDE, IDERefused, TypeOK
    <3>2. QED
      BY <3>1, OtherSession DEF Goal
  <2>3. QED
    BY <2>1, <2>2
<1>6. ASSUME Opened PROVE Goal
  <2>1. CASE s = opening
    <3>1. board[s] \in {"up", "down"} /\ main = "opened" /\ \A d \in Dir : bridge[s][d] = "none"
      BY <1>6, <2>1, <1>t DEF Opened, Opening, Fresh
    <3>2. /\ UNCHANGED <<board, ide>> /\ main' = "scan"
          /\ \A d \in Dir : bridge'[s][d] = "copying"
      BY <1>6, <2>1, <1>t DEF Opened, TypeOK
    <3>3. Working(s) = Dir /\ Working(s)' = Dir
      BY <3>1, <3>2 DEF Working, Running
    <3>4. QED
      BY <3>2, <3>3 DEF Goal, Moves, Leave, Gone
  <2>2. CASE s # opening
    <3>1. bridge'[s] = bridge[s] /\ UNCHANGED <<board, ide>> /\ main = "opened" /\ main' # "exit"
      BY <1>6, <2>2, <1>t DEF Opened, TypeOK
    <3>2. QED
      BY <3>1, OtherSession DEF Goal
  <2>3. QED
    BY <2>1, <2>2
<1>7. ASSUME NEW t \in Session, EndStep(t) \/ IDECloses(t) PROVE Goal
  <2>1. UNCHANGED <<main, bridge>>
    BY <1>7 DEF EndStep, EndCloseBoard, EndCloseIDE, EndClear, EndEmit, IDECloses
  <2>2. CASE s # t
    <3>1. board'[s] = board[s] /\ ide'[s] = ide[s]
      BY <1>7, <2>2, <1>t DEF EndStep, EndCloseBoard, EndCloseIDE, EndClear, EndEmit, IDECloses, TypeOK
    <3>2. QED
      BY <2>1, <3>1, OtherSession DEF Goal
  <2>3. CASE s = t
    <3>1. \/ UNCHANGED <<board, ide>>
          \/ board'[s] = "closed" /\ UNCHANGED ide
          \/ ide'[s] \in {"down", "closed"} /\ UNCHANGED board
      BY <1>7, <2>3, <1>t DEF EndStep, EndCloseBoard, EndCloseIDE, EndClear, EndEmit, IDECloses, TypeOK
    <3>2. QED
      BY <2>1, <3>1 DEF Goal, Moves, Leave, Gone, Working, Running
  <2>4. QED
    BY <2>2, <2>3
<1>8. ASSUME NEW t \in Session, NEW d \in Dir, BridgeStep(t, d) \/ GiveUp(t, d) PROVE Goal
  <2>1. UNCHANGED <<main, ide>>
    BY <1>8, BridgeMoves
  <2>2. CASE s # t
    <3>1. bridge'[s] = bridge[s]
      BY <1>8, <2>2, <1>t, BridgeMoves DEF TypeOK
    <3>2. board'[s] = board[s]
      BY <1>8, <2>2, <1>t, BridgeMoves DEF TypeOK
    <3>3. QED
      BY <2>1, <3>1, <3>2, OtherSession DEF Goal
  <2>3. CASE s = t
    <3> DEFINE Copies == {"copying", "dialling"}
    <3>1. bridge[s][d] # "none" /\ \A e \in Dir : e # d => bridge'[s][e] = bridge[s][e]
      BY <1>8, <2>3, <1>t, BridgeMoves DEF TypeOK
    <3>2. board[s] # "none" /\ ide[s] # "none"
      BY <3>1, <1>t DEF Untouched, Fresh
    <3>3. CASE CopyEnds(t, d)
      <4>1. bridge[s][d] = "copying" /\ bridge'[s][d] = "ended" /\ UNCHANGED board
            /\ (board[s] = "closed" \/ Gone(s))
        BY <3>3, <3>2, <2>3, <1>t DEF CopyEnds, MoveBridge, Gone, TypeOK
      <4>2. QED
        BY <4>1, <2>1, <3>1, <3>2 DEF Goal, Moves, Leave, Gone, Working, Running
    <3>4. CASE Reconnect(t, d)
      <4>1. /\ bridge[s][d] \in Copies /\ UNCHANGED board
            /\ bridge'[s][d] \in Copies \/ (bridge'[s][d] = "ended" /\ board[s] = "closed")
        BY <3>4, <3>2, <2>3, <1>t DEF Reconnect, ReconnectDials, DialEnds, MoveBridge, TypeOK
      <4>2. QED
        BY <4>1, <2>1, <3>1, <3>2 DEF Goal, Moves, Leave, Gone, Working, Running
    <3>5. CASE GiveUp(t, d)
      <4>1. /\ bridge[s][d] = "copying" /\ bridge'[s][d] = "ended"
            /\ board[s] \in {"up", "down"} /\ board'[s] = "down"
        BY <3>5, <3>2, <2>3, <1>t DEF GiveUp, MayReconnect, MoveBridge, TypeOK
      <4>2. QED
        BY <4>1, <2>1, <3>1, <3>2 DEF Goal, Moves, Leave, Gone, Working, Running
    <3>6. CASE BridgeEnter(t, d) \/ BridgeDone(t, d)
      <4>1. /\ bridge[s][d] \in {"ended", "ending"} /\ bridge'[s][d] \in {"ending", "gone"}
            /\ UNCHANGED board
        BY <3>6, <3>2, <2>3, <1>t DEF BridgeEnter, BridgeDone, TypeOK
      <4>2. QED
        BY <4>1, <2>1, <3>1, <3>2 DEF Goal, Moves, Leave, Gone, Working, Running
    <3>7. QED
      BY <1>8, <2>3, <3>3, <3>4, <3>5, <3>6 DEF BridgeStep
  <2>4. QED
    BY <2>2, <2>3
<1>9. ASSUME UNCHANGED vars PROVE Goal
  BY <1>9, OtherSession DEF vars, Goal
<1>10. QED
  BY <1>1, <1>2, <1>3, <1>4, <1>5, <1>6, <1>7, <1>8, <1>9 DEF Next, Commands, Continue, Goal

\* The sessions of the application implement the safety part of BoardConnection:
\* UsesBoardConnection without its fairness.
THEOREM BoardUsedSafely == Spec => UsesBoardSafely
<1>1. Inv /\ [Next]_vars => [\A s \in Session : Board(s)!Next \/ UNCHANGED Board(s)!vars]_vars
  BY NextUses, ConnectionStep
<1>2. QED
  BY <1>1, BoardInit, AlwaysInv, PTL DEF Spec, UsesBoardSafely

=============================================================================
