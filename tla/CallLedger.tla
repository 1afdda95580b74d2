----------------------------- MODULE CallLedger -----------------------------
(***************************************************************************)
(* What the direct_calls table promises about one ringing row: a row rings *)
(* once, is settled once, and a settled row is never touched again.  Only  *)
(* a ringing row can be answered, declined or missed.  DirectCall, the     *)
(* server's handlers together with the browser tabs, implements it.        *)
(***************************************************************************)
CONSTANT Calls          \* the ids of direct_calls rows

VARIABLE status         \* the status column of every row; "none" is no row yet

Terminal == {"declined", "missed", "ended"}
Statuses == {"none", "ringing", "active"} \union Terminal

Init == status = [c \in Calls |-> "none"]

Move(c, from, to) == /\ status[c] \in from
                     /\ status' = [status EXCEPT ![c] = to]

Ring(c)    == Move(c, {"none"}, "ringing")
Answer(c)  == Move(c, {"ringing"}, "active")
Decline(c) == Move(c, {"ringing"}, "declined")
Miss(c)    == Move(c, {"ringing"}, "missed")
HangUp(c)  == Move(c, {"ringing", "active"}, "ended")

Next == \E c \in Calls :
           Ring(c) \/ Answer(c) \/ Decline(c) \/ Miss(c) \/ HangUp(c)

Spec == Init /\ [][Next]_status
=============================================================================
