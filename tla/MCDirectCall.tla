---------------------------- MODULE MCDirectCall ----------------------------
(***************************************************************************)
(* Small instances of DirectCall: who owns which tab, for two users of     *)
(* whom the second has two tabs, and for three users with one tab each.    *)
(***************************************************************************)
EXTENDS DirectCall, TLC

CONSTANTS ann, bob, cid, annTab, bobTab, bobPhone, cidTab

PairOwner == annTab :> ann @@ bobTab :> bob @@ bobPhone :> bob
TrioOwner == annTab :> ann @@ bobTab :> bob @@ cidTab :> cid
DuoOwner  == annTab :> ann @@ bobTab :> bob

CallIds == Permutations(Calls)

=============================================================================
