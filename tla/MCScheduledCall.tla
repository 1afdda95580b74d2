-------------------------- MODULE MCScheduledCall --------------------------
(***************************************************************************)
(* Small instances of ScheduledCall: an app user, a phone number and the   *)
(* organizer, whose row is the last.                                       *)
(***************************************************************************)
EXTENDS ScheduledCall

Colleague == 1
Outsider  == 2
Organizer == 3

Roster == {Colleague, Outsider, Organizer}
Staff  == {Colleague, Organizer}
Texted == {Outsider}

=============================================================================
