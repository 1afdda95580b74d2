---------------------------- MODULE MCBackground ----------------------------
(* What goes on by itself.  On the server: the meeting clerk, its roster,   *)
(* the Crelate poller, the call recording, the roster sync, the announcer   *)
(* of patch notes, the scorecard of a channel; on a page, the unread badge. *)
(* They share no state, so a behaviour follows one of them, the one in      *)
(* focus, and the others stay as they start.                                *)
EXTENDS MeetingClerk, ClerkRoster, CrelatePoller, Recording, RosterSync, Announcer,
        ScorecardLedger, UnreadBadge

CONSTANTS p1, p2, u1, u2, nobody, m1, m2

VARIABLE focus

Parts == {"clerk", "roster", "poller", "recording", "sync", "announcer", "ledger", "badge"}

vars == <<clerkVars, rosterVars, pollerVars, recVars, syncVars, annVars, ledgerVars, badgeVars,
          focus>>

\* What is not in focus stays as it is.
Still ==
    /\ focus # "clerk"     => UNCHANGED clerkVars
    /\ focus # "roster"    => UNCHANGED rosterVars
    /\ focus # "poller"    => UNCHANGED pollerVars
    /\ focus # "recording" => UNCHANGED recVars
    /\ focus # "sync"      => UNCHANGED syncVars
    /\ focus # "announcer" => UNCHANGED annVars
    /\ focus # "ledger"    => UNCHANGED ledgerVars
    /\ focus # "badge"     => UNCHANGED badgeVars
    /\ UNCHANGED focus

Init ==
    /\ ClerkInit /\ RosterInit /\ PollerInit /\ RecordingInit /\ SyncInit /\ AnnouncerInit
    /\ LedgerInit /\ BadgeInit
    /\ focus \in Parts
    /\ focus # "roster" => room = {}
    /\ focus # "poller" => remote = {}
    /\ focus # "announcer" => enrolled = {}
    /\ focus # "ledger" => actuals = <<>>
    /\ focus # "sync" => \A e \in Emails : auth[e] = "unknown"

Next ==
    \/ focus = "clerk"     /\ ClerkNext     /\ Still
    \/ focus = "roster"    /\ RosterNext    /\ Still
    \/ focus = "poller"    /\ PollerNext    /\ Still
    \/ focus = "recording" /\ RecordingNext /\ Still
    \/ focus = "sync"      /\ SyncNext      /\ Still
    \/ focus = "announcer" /\ AnnouncerNext /\ Still
    \/ focus = "ledger"    /\ LedgerNext    /\ Still
    \/ focus = "badge"     /\ BadgeNext     /\ Still

\* Nothing fair is enabled in a part that has not started, so that the parts that
\* are not in focus are treated fairly.
Fairness == PollerFairness /\ RecordingFairness /\ SyncFairness /\ BadgeFairness

Spec == Init /\ [][Next]_vars /\ Fairness

TwoPlacements == {p1, p2}
Two           == {u1, u2}
JustOne       == {u1}
TwoMonths     == {m1, m2}
OneFee        == {3}

\* The types of all eight.
BackgroundTypeOK ==
    /\ ClerkTypeOK /\ RosterTypeOK /\ PollerTypeOK
    /\ RecordingTypeOK /\ SyncTypeOK /\ AnnouncerTypeOK
    /\ LedgerTypeOK /\ BadgeTypeOK

=============================================================================
