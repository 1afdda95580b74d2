------------------------------ MODULE Presence ------------------------------
(***************************************************************************)
(* The presence of one user with several tabs (hooks/use-presence.tsx and  *)
(* POST /api/presence of server/routes.ts): each tab reports what it shows *)
(* when that changes, a page that is hidden for good reports offline, and  *)
(* the server keeps the last report to arrive.                             *)
(***************************************************************************)
EXTENDS Naturals, Sequences, SequencesExt

CONSTANTS
    Tabs,
    MaxReports,  \* requests in flight
    MaxDropped   \* requests that fail

ASSUME PresenceAssumption == MaxReports \in Nat /\ MaxDropped \in Nat

VARIABLES
    kept,      \* localStorage, of all tabs: the manual state last picked
    phase,     \* per tab: gone, shown, hidden (in the background) or parked
               \* (pagehide, kept for the back button)
    manual,    \* per tab, the state picked
    idle,      \* tabs that were idle for five minutes, and have had no input since
    reports,   \* POST /api/presence in flight, in the order they were sent
    presence,  \* users.presence
    dropped,
    unsaid     \* tabs whose last report was lost or overtaken, or that reported
               \* nothing since another report, or an offline of theirs, was sent

presVars == <<kept, phase, manual, idle, reports, presence, dropped, unsaid>>

Picks   == {"online", "busy", "offline"}
States  == Picks \union {"away"}
Reports == [tab : Tabs, state : States, late : BOOLEAN]

\* A page that runs, in front or not.
Open == {"shown", "hidden"}

PresenceInit ==
    /\ kept = "online"
    /\ phase = [t \in Tabs |-> "gone"]
    /\ manual = [t \in Tabs |-> "online"]
    /\ idle = {} /\ reports = <<>> /\ presence = "offline"
    /\ dropped = 0 /\ unsaid = Tabs

\* What a page says is sent after what every page said before.
Send(t, said) ==
    /\ Len(reports) + Len(said) <= MaxReports
    /\ reports' = reports \o [i \in DOMAIN said |->
                                 [tab |-> t, state |-> said[i], late |-> FALSE]]

\* The effect on [presence]: it runs when what the tab shows has changed.
Report(t, said) ==
    /\ Send(t, said)
    /\ unsaid' = Tabs \ {t}

\* Mutant of ShowsNow: the effect does not depend on what is shown.
SaysNothing(t, p) == UNCHANGED <<reports, unsaid>>

ShowsNow(t, p) ==
    IF p = manual[t] THEN UNCHANGED <<reports, unsaid>> ELSE Report(t, <<p>>)

\* A page is opened, or loaded anew; it reports what it starts with.  A manual
\* offline is not read back.
Remembered == IF kept = "busy" THEN "busy" ELSE "online"

OpenTab(t) ==
    /\ phase[t] = "gone"
    /\ phase' = [phase EXCEPT ![t] = "shown"]
    /\ manual' = [manual EXCEPT ![t] = Remembered]
    /\ Report(t, <<Remembered>>)
    /\ UNCHANGED <<kept, idle, presence, dropped>>

\* setManualPresence: away cannot be picked.
Sticky(p) == IF p = "away" THEN "online" ELSE p

Pick(t, p) ==
    /\ phase[t] = "shown"
    /\ kept' = Sticky(p)
    /\ manual' = [manual EXCEPT ![t] = Sticky(p)]
    /\ ShowsNow(t, Sticky(p))
    /\ idle' = idle \ {t}
    /\ UNCHANGED <<phase, presence, dropped>>

\* Five minutes without input, busy excepted.  The effect that runs because auto is
\* away calls bump, which ends away at once: away is reported, and after it what was
\* shown before.
GoAway(t) ==
    /\ phase[t] \in Open
    /\ manual[t] # "busy"
    /\ Report(t, <<"away", manual[t]>>)
    /\ idle' = idle \union {t}
    /\ UNCHANGED <<kept, phase, manual, presence, dropped>>

\* The user is back at the keyboard: bump finds nothing to end.
Stir(t) ==
    /\ phase[t] = "shown" /\ t \in idle
    /\ idle' = idle \ {t}
    /\ UNCHANGED <<kept, phase, manual, reports, presence, dropped, unsaid>>

HideTab(t) ==
    /\ phase[t] = "shown"
    /\ phase' = [phase EXCEPT ![t] = "hidden"]
    /\ UNCHANGED <<kept, manual, idle, reports, presence, dropped, unsaid>>

\* visibilitychange: lastSentRef is cleared, and nothing runs the effect that would
\* send again.
Resume(t) ==
    /\ phase[t] \in {"hidden", "parked"}
    /\ phase' = [phase EXCEPT ![t] = "shown"]
    /\ idle' = idle \ {t}
    /\ UNCHANGED <<kept, manual, reports, presence, dropped, unsaid>>

\* pagehide, the page kept or not: a beacon says offline, for the user and not for
\* the tab.
Leave(t, how) ==
    /\ phase[t] \in Open
    /\ phase' = [phase EXCEPT ![t] = how]
    /\ Send(t, <<"offline">>)
    /\ unsaid' = Tabs /\ idle' = idle \ {t}
    /\ UNCHANGED <<kept, manual, presence, dropped>>

-----------------------------------------------------------------------------
(* The server *)

\* Earlier reports that are still on their way will overwrite this one.
Rest(i) == [j \in 1..(Len(reports) - 1) |->
               IF j < i THEN [reports[j] EXCEPT !.late = TRUE] ELSE reports[j + 1]]

Saying(t, rest) == \E j \in DOMAIN rest : rest[j].tab = t /\ ~rest[j].late

ReportArrives(i) ==
    /\ presence' = reports[i].state
    /\ reports' = Rest(i)
    /\ unsaid' = IF reports[i].late THEN unsaid \union {t \in Tabs : ~Saying(t, Rest(i))}
                                    ELSE unsaid
    /\ UNCHANGED <<kept, phase, manual, idle, dropped>>

\* lastSentRef is cleared, "we'll retry on the next change".
ReportFails(i) ==
    /\ dropped < MaxDropped /\ dropped' = dropped + 1
    /\ reports' = RemoveAt(reports, i)
    /\ unsaid' = unsaid \union {reports[i].tab}
    /\ UNCHANGED <<kept, phase, manual, idle, presence>>

PresenceNext ==
    \/ \E t \in Tabs :
          \/ OpenTab(t) \/ GoAway(t) \/ Stir(t) \/ HideTab(t) \/ Resume(t)
          \/ \E p \in States : Pick(t, p)
          \/ \E how \in {"gone", "parked"} : Leave(t, how)
    \/ \E i \in DOMAIN reports : ReportArrives(i) \/ ReportFails(i)

PresenceSpec == PresenceInit /\ [][PresenceNext]_presVars

-----------------------------------------------------------------------------
(* Properties *)

\* The type of the state: no tab has away for its manual state, or keeps it.
PresenceTypeOK ==
    /\ kept \in Picks
    /\ phase \in [Tabs -> {"gone", "shown", "hidden", "parked"}]
    /\ manual \in [Tabs -> Picks] /\ idle \subseteq {t \in Tabs : phase[t] \in Open}
    /\ reports \in Seq(Reports) /\ Len(reports) <= MaxReports
    /\ presence \in States
    /\ dropped \in 0..MaxDropped /\ unsaid \subseteq Tabs

\* The user is not what an open tab has picked, or away while it is idle, only while its
\* report is on its way, or after it was lost or overtaken, or the tab has said nothing
\* since another did.
PresenceHasACause ==
    \A t \in Tabs : phase[t] \in Open =>
       \/ presence = manual[t] \/ (t \in idle /\ presence = "away")
       \/ Saying(t, reports) \/ t \in unsaid

\* "If there's been no keyboard/mouse/touch input for 5 minutes, we flip from 'online' to
\* 'away'": who is idle at an online tab is away, or about to be, but for the same causes.
IdleGoesAway ==
    \A t \in idle : manual[t] = "online" =>
       presence = "away" \/ Saying(t, reports) \/ t \in unsaid

=============================================================================
