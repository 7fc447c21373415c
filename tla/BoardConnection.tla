--------------------------- MODULE BoardConnection ---------------------------
(***************************************************************************)
(* What a session's connection to the board promises to the goroutines that *)
(* use it, whatever happens to the sockets underneath: it is not there yet, *)
(* up (outages are hidden), unavailable for good, or closed; its users go on *)
(* until it is unavailable or closed or the IDE has gone, and no longer      *)
(* once it is closed.  ReconnectingTCP implements it, and the sessions of    *)
(* MonitorApp behave like it.                                               *)
(***************************************************************************)
CONSTANT Users   \* the goroutines that use the connection

VARIABLES
  state,    \* "none", "up", "down" or "closed"
  ideGone,  \* the IDE has closed its side
  working   \* the users that go on

vars == <<state, ideGone, working>>

\* A step to a new state; users may end in the same step if there is a reason.
Step(new, gone) ==
  /\ state' = new /\ ideGone' = gone
  /\ working' \in SUBSET working
  /\ working' # working => new \in {"down", "closed"} \/ gone

Open == state = "none" /\ Step("up", ideGone)
Fail == state = "up" /\ Step("down", ideGone)
Close == state # "closed" /\ Step("closed", ideGone)
IDEGoes == ~ideGone /\ Step(state, TRUE)
UsersEnd == Step(state, ideGone)

Init == state \in {"none", "up"} /\ ideGone = FALSE /\ working = Users

Next == Open \/ Fail \/ Close \/ IDEGoes \/ UsersEnd

\* Closing the connection ends every user.
Ends(u) == state = "closed" /\ u \in working /\ UsersEnd /\ u \notin working'

Safety == Init /\ [][Next]_vars

Fairness == \A u \in Users : WF_vars(Ends(u))

Spec == Safety /\ Fairness

=============================================================================
