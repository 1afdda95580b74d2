------------------------------ MODULE MCLobby ------------------------------
(***************************************************************************)
(* A small instance of Lobby: one guest, two members, two tickets.  A      *)
(* behaviour plays one of three scenes, so that not everything happens at  *)
(* once: a fault; two hosts who decide the one knock while the meeting is  *)
(* edited; polls that overtake each other and a second knock.              *)
(***************************************************************************)
EXTENDS Lobby

CONSTANTS hana, ivo, k1, k2

VARIABLE scene

Scenes == {"faults", "hosts", "polls"}

Unedited  == settings' = settings
Unended   == status' # "ended"
Faultless == faults' = 0
OneHost   == page'[ivo] = "idle"
OneTicket == knock'[k2] = "none"
AllKnock  == \A k \in Tickets : knock'[k] # "unasked"
OnePoll   == \A r \in reqs' : r.slot = 1

Keep ==
    /\ scene = "faults" => OneHost /\ Unedited /\ Unended /\ OnePoll
    /\ scene = "hosts"  => Faultless /\ AllKnock /\ OneTicket /\ OnePoll
    /\ scene = "polls"  => Faultless /\ AllKnock /\ Unedited /\ OneHost
    /\ UNCHANGED scene

SceneInit == Init /\ scene \in Scenes

SceneNext == Next /\ Keep

SceneSpec == SceneInit /\ [][SceneNext]_<<vars, scene>> /\ Fairness

=============================================================================
