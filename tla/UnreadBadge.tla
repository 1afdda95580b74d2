----------------------------- MODULE UnreadBadge -----------------------------
(***************************************************************************)
(* The badge of one company on a reader's rail: the counts the server      *)
(* keeps (GET /api/me/unread and the two read routes of server/routes.ts)  *)
(* and what the hook makes of them (hooks/use-unread.tsx): requests that   *)
(* are debounced, answered in any order, and made every five minutes.      *)
(***************************************************************************)
EXTENDS Naturals, Sequences, SequencesExt

CONSTANTS
    MaxArrivals,  \* messages and missed calls
    MaxRefetches, \* requests for the counts in flight
    MaxClears,    \* read requests that have not ended
    MaxMisses     \* requests that fail, of either kind

ASSUME BadgeAssumption ==
    MaxArrivals \in Nat /\ MaxRefetches \in Nat /\ MaxClears \in Nat /\ MaxMisses \in Nat

VARIABLES
    messages,  \* unread messages of the company's channels
    calls,     \* direct_calls of the last day with status missed
    arrived,   \* messages and missed calls there have been
    mounted,   \* the rail is on the screen
    hearing,   \* the event stream is up
    nudges,    \* message:new events on their way
    debounce,  \* a refetch is scheduled
    asking,    \* the requests for the counts, in the order they are answered
    clearing,  \* per scope, read requests on their way
    cleared,   \* read requests served or failed, their answer on its way
    badge,     \* what the rail shows
    misses,
    astray     \* the counts changed, or an answer was lost or overtaken, and no
               \* event or answer has made up for it

counts  == <<messages, calls, arrived>>
fetches == <<asking, clearing, cleared>>
rail    == <<mounted, hearing>>
badgeVars == <<counts, rail, nudges, debounce, fetches, badge, misses, astray>>

Scopes == {"channel", "company"}
Badges == [messages : 0..MaxArrivals, calls : 0..MaxArrivals]
Clear  == [messages |-> 0, calls |-> 0]
Count  == [messages |-> messages, calls |-> calls]
Asks   == [state : {"asked", "answered"}, got : Badges, late : BOOLEAN]

BadgeInit ==
    /\ messages = 0 /\ calls = 0 /\ arrived = 0
    /\ mounted = FALSE /\ hearing = FALSE /\ nudges = 0
    /\ debounce = FALSE /\ asking = <<>>
    /\ clearing = [s \in Scopes |-> 0] /\ cleared = 0
    /\ badge = Clear
    /\ misses = 0 /\ astray = FALSE

-----------------------------------------------------------------------------
(* What the server counts *)

MessageArrives ==
    /\ arrived < MaxArrivals
    /\ arrived' = arrived + 1 /\ messages' = messages + 1
    /\ IF hearing THEN nudges' = nudges + 1 /\ UNCHANGED astray
                  ELSE astray' = TRUE /\ UNCHANGED nudges
    /\ UNCHANGED <<calls, rail, debounce, fetches, badge, misses>>

\* Nothing sends unread:missed-call.
CallMissed ==
    /\ arrived < MaxArrivals
    /\ arrived' = arrived + 1 /\ calls' = calls + 1
    /\ astray' = TRUE
    /\ UNCHANGED <<messages, rail, nudges, debounce, fetches, badge, misses>>

\* A message is deleted, read on another device, or a missed call is a day old:
\* no event of these has the counts refetched.
CountShrinks ==
    /\ \/ messages > 0 /\ messages' = messages - 1 /\ UNCHANGED calls
       \/ calls > 0 /\ calls' = calls - 1 /\ UNCHANGED messages
    /\ astray' = TRUE
    /\ UNCHANGED <<arrived, rail, nudges, debounce, fetches, badge, misses>>

\* Every channel of the company is read up to its tip, and its missed calls are
\* rewritten to ended; one channel is one part of the messages.
CompanyCleared == messages' = 0 /\ calls' = 0
ChannelCleared == messages' \in 0..messages /\ UNCHANGED calls

ClearArrives(s) ==
    /\ clearing[s] > 0
    /\ clearing' = [clearing EXCEPT ![s] = @ - 1] /\ cleared' = cleared + 1
    /\ IF s = "company" THEN CompanyCleared ELSE ChannelCleared
    /\ UNCHANGED <<arrived, rail, nudges, debounce, asking, badge, misses, astray>>

ClearFails(s) ==
    /\ clearing[s] > 0 /\ misses < MaxMisses
    /\ misses' = misses + 1
    /\ clearing' = [clearing EXCEPT ![s] = @ - 1] /\ cleared' = cleared + 1
    /\ UNCHANGED <<counts, rail, nudges, debounce, asking, badge, astray>>

-----------------------------------------------------------------------------
(* The hook *)

\* scheduleRefetch (its mutant: nothing), 400 ms from now.
NoSchedule == UNCHANGED debounce
Schedule   == debounce' = TRUE

\* doFetch
Ask == /\ Len(asking) < MaxRefetches
       /\ asking' = Append(asking, [state |-> "asked", got |-> Clear, late |-> FALSE])

MountRail ==
    /\ ~mounted /\ mounted' = TRUE
    /\ Ask
    /\ UNCHANGED <<counts, hearing, nudges, debounce, clearing, cleared, badge, misses, astray>>

\* The stream comes and goes; what was on its way goes with it.
StreamChanges ==
    /\ mounted
    /\ hearing' = ~hearing
    /\ nudges' = 0
    /\ astray' = (astray \/ nudges > 0)
    /\ UNCHANGED <<counts, mounted, debounce, fetches, badge, misses>>

\* unread:refresh, from onMessageNew.
Nudged ==
    /\ nudges > 0 /\ nudges' = nudges - 1
    /\ Schedule
    /\ UNCHANGED <<counts, rail, fetches, badge, misses, astray>>

PageSeen ==
    /\ mounted
    /\ Schedule
    /\ UNCHANGED <<counts, rail, nudges, fetches, badge, misses, astray>>

RefetchBadge ==
    /\ debounce /\ debounce' = FALSE
    /\ Ask
    /\ UNCHANGED <<counts, rail, nudges, clearing, cleared, badge, misses, astray>>

\* The five-minute timer; its mutant never fires.
NoSafetyNet == FALSE
SafetyNet ==
    /\ mounted
    /\ Ask
    /\ UNCHANGED <<counts, rail, nudges, debounce, clearing, cleared, badge, misses, astray>>

\* The counts are read in one go.
CountsAnswered(i) ==
    /\ asking[i].state = "asked"
    /\ asking' = Append(RemoveAt(asking, i), [asking[i] EXCEPT !.state = "answered",
                                                              !.got = Count])
    /\ astray' = FALSE
    /\ UNCHANGED <<counts, rail, nudges, debounce, clearing, cleared, badge, misses>>

\* Older answers that are still on their way will be shown over this one.
Ended(i) == [j \in 1..(Len(asking) - 1) |->
                IF j < i THEN [asking[j] EXCEPT !.late = (@ \/ asking[j].state = "answered")]
                         ELSE asking[j + 1]]

BadgeShown(i) ==
    /\ asking[i].state = "answered"
    /\ badge' = asking[i].got
    /\ astray' = (astray \/ asking[i].late)
    /\ asking' = Ended(i)
    /\ UNCHANGED <<counts, rail, nudges, debounce, clearing, cleared, misses>>

CountsFail(i) ==
    /\ misses < MaxMisses /\ misses' = misses + 1
    /\ astray' = TRUE
    /\ asking' = RemoveAt(asking, i)
    /\ UNCHANGED <<counts, rail, nudges, debounce, clearing, cleared, badge>>

Clearing == clearing["channel"] + clearing["company"] + cleared

\* markChannelRead; the counts per channel it lowers at once are not on the rail.
ClearChannel ==
    /\ mounted /\ Clearing < MaxClears
    /\ clearing' = [clearing EXCEPT !["channel"] = @ + 1]
    /\ UNCHANGED <<counts, rail, nudges, debounce, asking, cleared, badge, misses, astray>>

\* markProjectRead empties the badge before the server has.
ClearCompany ==
    /\ mounted /\ Clearing < MaxClears
    /\ clearing' = [clearing EXCEPT !["company"] = @ + 1]
    /\ badge' = Clear
    /\ UNCHANGED <<counts, rail, nudges, debounce, asking, cleared, misses, astray>>

\* Read or not, "healed by refetch".
ClearEnds ==
    /\ cleared > 0 /\ cleared' = cleared - 1
    /\ Schedule
    /\ UNCHANGED <<counts, rail, nudges, asking, clearing, badge, misses, astray>>

BadgeNext ==
    \/ MessageArrives \/ CallMissed \/ CountShrinks
    \/ \E s \in Scopes : ClearArrives(s) \/ ClearFails(s)
    \/ MountRail \/ StreamChanges \/ Nudged \/ PageSeen \/ RefetchBadge \/ SafetyNet
    \/ \E i \in DOMAIN asking : CountsAnswered(i) \/ BadgeShown(i) \/ CountsFail(i)
    \/ ClearChannel \/ ClearCompany \/ ClearEnds

BadgeSpec == BadgeInit /\ [][BadgeNext]_badgeVars

\* Timers fire and requests end.  The event stream need not ever come up.
BadgeFairness ==
    /\ WF_badgeVars(SafetyNet)
    /\ WF_badgeVars(\E i \in DOMAIN asking : CountsAnswered(i))
    /\ WF_badgeVars(\E i \in DOMAIN asking : BadgeShown(i))
    /\ WF_badgeVars(\E s \in Scopes : ClearArrives(s))
    /\ WF_badgeVars(ClearEnds)

-----------------------------------------------------------------------------
(* Properties *)

\* The type of the state; the calls and messages counted are ones there have been.
BadgeTypeOK ==
    /\ messages \in Nat /\ calls \in Nat /\ arrived \in 0..MaxArrivals
    /\ messages + calls <= arrived
    /\ mounted \in BOOLEAN /\ hearing \in BOOLEAN
    /\ nudges \in 0..arrived /\ (nudges > 0 => hearing)
    /\ debounce \in BOOLEAN
    /\ asking \in Seq(Asks) /\ Len(asking) <= MaxRefetches
    /\ clearing \in [Scopes -> 0..MaxClears] /\ cleared \in Nat /\ Clearing <= MaxClears
    /\ badge \in Badges
    /\ misses \in 0..MaxMisses /\ astray \in BOOLEAN

\* A badge that is not what the server counts is about to be asked for again, or
\* the change was one nothing tells of, or an answer was lost or overtaken.
StaleBadgeHasACause ==
    mounted /\ badge # Count =>
       \/ nudges > 0 \/ debounce \/ cleared > 0 \/ astray
       \/ \E s \in Scopes : clearing[s] > 0
       \/ \E i \in DOMAIN asking : asking[i].state = "asked" \/ asking[i].got = Count

\* The badge comes to be what the server counts once nothing arrives any more.
BadgeSettles == <>[](mounted => badge = Count)

=============================================================================
