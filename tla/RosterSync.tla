------------------------------ MODULE RosterSync ------------------------------
(***************************************************************************)
(* The sync of chat's users with the roster of bulldog-auth                *)
(* (server/users-sync.ts), called by the five-minute timer and by the      *)
(* admins' requests, and the provisioning of a user at first sight         *)
(* (server/bulldog-sso.ts).  bulldog-auth answers with the roster of the   *)
(* moment it is asked; the answer is applied in one piece, when it comes.  *)
(***************************************************************************)
EXTENDS Naturals, FiniteSets

CONSTANTS
    Emails,          \* users by their e-mail
    NoCaller,        \* the timer's caller
    MaxSyncs,        \* syncs in flight at once
    MaxAuthChanges

ASSUME SyncAssumption ==
    /\ NoCaller \notin Emails /\ MaxSyncs \in Nat /\ MaxAuthChanges \in Nat

VARIABLES
    serving,   \* the server has started
    auth,      \* bulldog-auth: unknown, active, inactive or active without chat
    chat,      \* chat's users row: none, active, deactivated
    syncs,     \* [slot -> the caller, and the roster on its way or none]
    edits      \* changes of auth, its false answers and its refusals

syncVars == <<serving, auth, chat, syncs, edits>>

Standing == {"unknown", "active", "inactive", "no chat"}
SyncIds  == 1..MaxSyncs
Nobody   == [e \in Emails |-> "unknown"]
Quiet    == [on |-> FALSE, caller |-> NoCaller, roster |-> Nobody]

SyncInit ==
    /\ serving = FALSE
    /\ auth \in [Emails -> {"unknown", "active"}]
    /\ chat = [e \in Emails |-> "none"]
    /\ syncs = [s \in SyncIds |-> Quiet]
    /\ edits = 0

\* The first sync is the server's own, and starts the timer.
StartServer ==
    /\ ~serving /\ serving' = TRUE
    /\ UNCHANGED <<auth, chat, syncs, edits>>

EditAuth(e, standing) ==
    /\ edits < MaxAuthChanges /\ standing # auth[e]
    /\ serving
    /\ auth' = [auth EXCEPT ![e] = standing]
    /\ edits' = edits + 1
    /\ UNCHANGED <<serving, chat, syncs>>

\* The timer, or an admin who is active in chat, asks for the roster.  The admins
\* leave one slot to the timer.
Free == {s \in SyncIds : ~syncs[s].on}

AskRoster(s, caller) ==
    /\ serving /\ s \in Free
    /\ caller # NoCaller => chat[caller] = "active" /\ Free # {s}
    /\ syncs' = [syncs EXCEPT ![s] = [on |-> TRUE, caller |-> caller, roster |-> auth]]
    /\ UNCHANGED <<serving, auth, chat, edits>>

\* An answer without a users list is an empty roster.
EmptyRoster(s) ==
    /\ syncs[s].on /\ syncs[s].roster # Nobody /\ edits < MaxAuthChanges
    /\ edits' = edits + 1
    /\ syncs' = [syncs EXCEPT ![s].roster = Nobody]
    /\ UNCHANGED <<serving, auth, chat>>

\* Mutant of Reconciled: nobody is brought back.
OnlyOff(e, sync)    == IF sync.roster[e] = "active" THEN chat[e] ELSE "deactivated"

\* Step 1 of the reconciliation, for the users chat knows, but for the caller.
Reconciled(e, sync) == IF sync.roster[e] = "active" THEN "active" ELSE "deactivated"

\* Step 2 provisions whoever is active and not known.  (It tries the caller too,
\* whose row is there.)
Synced(sync) ==
    [e \in Emails |-> IF e = sync.caller THEN chat[e]
                      ELSE IF chat[e] # "none" THEN Reconciled(e, sync)
                      ELSE IF sync.roster[e] = "active" THEN "active" ELSE "none"]

RosterArrives(s) ==
    /\ syncs[s].on
    /\ chat' = Synced(syncs[s])
    /\ syncs' = [syncs EXCEPT ![s] = Quiet]
    /\ UNCHANGED <<serving, auth, edits>>

RosterRefused(s) ==
    /\ syncs[s].on /\ edits < MaxAuthChanges
    /\ edits' = edits + 1
    /\ syncs' = [syncs EXCEPT ![s] = Quiet]
    /\ UNCHANGED <<serving, auth, chat>>

\* bulldogSsoBridge at a user's first request with a token of bulldog-auth, which
\* may be older than the user's last change there.
FirstSight(e) ==
    /\ serving /\ auth[e] # "unknown" /\ chat[e] = "none"
    /\ chat' = [chat EXCEPT ![e] = "active"]
    /\ UNCHANGED <<serving, auth, syncs, edits>>

SyncNext ==
    \/ StartServer
    \/ \E e \in Emails : FirstSight(e) \/ \E standing \in Standing : EditAuth(e, standing)
    \/ \E s \in SyncIds :
          \/ \E caller \in Emails \union {NoCaller} : AskRoster(s, caller)
          \/ EmptyRoster(s) \/ RosterArrives(s) \/ RosterRefused(s)

-----------------------------------------------------------------------------
(* Properties *)

\* The type of the state: a user of chat is active or deactivated, whatever
\* bulldog-auth calls him.
SyncTypeOK ==
    /\ serving \in BOOLEAN /\ auth \in [Emails -> Standing]
    /\ chat \in [Emails -> {"none", "active", "deactivated"}]
    /\ syncs \in [SyncIds -> [on : BOOLEAN, caller : Emails \union {NoCaller},
                              roster : [Emails -> Standing]]]
    /\ edits \in 0..MaxAuthChanges

\* The timer goes on whatever else is under way, and its answers come at last.
SyncFairness ==
    /\ WF_syncVars(\E s \in SyncIds : AskRoster(s, NoCaller))
    /\ \A s \in SyncIds : WF_syncVars(RosterArrives(s) \/ RosterRefused(s))

\* Whatever answers were late, false or overtaken, and whoever called: once
\* bulldog-auth changes no more, the active users of chat are those of auth.
RosterSettles ==
    <>[](serving => \A e \in Emails : chat[e] = "active" <=> auth[e] = "active")

=============================================================================
