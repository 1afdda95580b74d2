----------------------------- MODULE Admission -----------------------------
(***************************************************************************)
(* What a waiting room promises: a knock is decided once, by a host, the   *)
(* guest or the clock, and a knocking guest enters only after the host has *)
(* admitted that knock.  Who does not knock, and asks to join without an   *)
(* account, enters unasked, on a ticket no knock ever has.  A restart may  *)
(* forget knocks, never invent them.  Lobby implements it.                 *)
(***************************************************************************)
CONSTANT Tickets        \* one per knock, or per guest who enters without one

VARIABLES decision,     \* what became of every knock; "none" is not used yet
          entered       \* the tickets on which a participant was recorded

Init == decision = [k \in Tickets |-> "none"] /\ entered = {}

Move(k, from, to) == decision[k] = from /\ decision' = [decision EXCEPT ![k] = to]

Knock(k) == Move(k, "none", "pending") /\ UNCHANGED entered

Decide(k) == /\ \E d \in {"admitted", "denied", "expired", "cancelled"} :
                   Move(k, "pending", d)
             /\ UNCHANGED entered

Enter(k) == /\ decision[k] = "admitted"
            /\ entered' = entered \union {k}
            /\ UNCHANGED decision

\* The waiting room is off.
WalkIn(k) == Move(k, "none", "walkin") /\ entered' = entered \union {k}

\* The waiting room, on or off, is passed by.
EnterUnasked(k) == Move(k, "none", "unasked") /\ entered' = entered \union {k}

Forget ==
    /\ decision' = [k \in Tickets |-> IF decision[k] \in {"none", "walkin", "unasked"}
                                      THEN decision[k] ELSE "gone"]
    /\ UNCHANGED entered

Next == \/ \E k \in Tickets : Knock(k) \/ Decide(k) \/ Enter(k) \/ WalkIn(k)
                             \/ EnterUnasked(k)
        \/ Forget

Spec == Init /\ [][Next]_<<decision, entered>>
=============================================================================
