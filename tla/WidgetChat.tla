----------------------------- MODULE WidgetChat -----------------------------
(***************************************************************************)
(* The mini chat that sibling applications embed                           *)
(* (widget/src/BulldogChatWidget.tsx and its event stream,                 *)
(* hooks/useMiniChatSse.ts): one list of messages for whatever             *)
(* conversation is selected, filled by requests that nothing cancels and   *)
(* whose answers are not asked which conversation they are of.             *)
(***************************************************************************)
EXTENDS Naturals, Sequences, SequencesExt

CONSTANTS
    Convs,        \* direct messages and channels
    Long,         \* those with more messages than a page, and less than two
    Nowhere,      \* no conversation
    MaxRevs,      \* messages of a conversation, and changes of them
    MaxLoads,     \* requests for the newest page in flight
    MaxMishaps,   \* requests that fail
    MaxMoves      \* things the user does

ASSUME WidgetAssumption ==
    /\ Long \subseteq Convs /\ Nowhere \notin Convs
    /\ {MaxRevs, MaxLoads, MaxMishaps, MaxMoves} \subseteq Nat

VARIABLES
    revs,       \* per conversation, what has happened to its messages
    streaming,  \* the event stream is up
    reopened,   \* the page has been shown again since the stream was first opened
    told,       \* events on their way, by conversation and kind
    panel,      \* the panel is open
    active,     \* activeConversation
    list,       \* messages: whose, of when, and how it was put together
    more,       \* hasMoreRef
    loads,      \* loadMessages under way, in the order they are answered
    older,      \* loadOlderMessages under way
    sending,    \* handleSend or handleSendThreadReply, one in a behaviour
    mishaps,
    moves,
    missed,     \* an event or an answer was lost, and the list not asked for since
    tangled     \* requests for the list have overlapped, and none has had it for
                \* itself since

chatShows == <<panel, active>>
listVars  == <<list, more, loads, older, tangled>>
streamV   == <<streaming, reopened, told>>
widgetVars == <<revs, streamV, chatShows, listVars, sending, mishaps, moves, missed>>

Kinds == {"new", "changed"}
\* torn: pages of two conversations, or messages left out between two pages.
Lists      == [conv : Convs \union {Nowhere}, at : 0..MaxRevs, older : BOOLEAN, torn : BOOLEAN]
NoList     == [conv |-> Nowhere, at |-> 0, older |-> FALSE, torn |-> FALSE]
NoOlder    == [conv |-> Nowhere, base |-> NoList]
NotSending == [conv |-> Nowhere, stage |-> "idle"]

WidgetInit ==
    /\ revs = [c \in Convs |-> 0]
    /\ streaming = FALSE /\ reopened = FALSE /\ told = [c \in Convs |-> [k \in Kinds |-> 0]]
    /\ panel = FALSE /\ active = Nowhere
    /\ list = NoList /\ more = TRUE /\ loads = <<>> /\ older = NoOlder
    /\ sending = NotSending
    /\ mishaps = 0 /\ moves = 0 /\ missed = FALSE /\ tangled = FALSE

Mishap  == mishaps < MaxMishaps /\ mishaps' = mishaps + 1
Move    == moves < MaxMoves /\ moves' = moves + 1 /\ UNCHANGED mishaps
Nobodys == UNCHANGED <<mishaps, moves>>

-----------------------------------------------------------------------------
(* Requests for the list *)

\* Mutant of StartOver: the list before had no more history, so this one has none.
CarryOver == UNCHANGED more
StartOver == more' = TRUE

\* loadMessages up to its await, for c, with now the conversation selected then.
Load(c, now) ==
    LET alone == loads = <<>> /\ older = NoOlder /\ c = now
        loud  == [i \in DOMAIN loads |-> [loads[i] EXCEPT !.alone = FALSE]]
    IN /\ Len(loads) < MaxLoads
       /\ loads' = Append(loud, [conv |-> c, state |-> "asked", got |-> 0, alone |-> alone])
       /\ StartOver
       /\ tangled' = (tangled \/ ~alone)
       /\ UNCHANGED <<list, older>>

LoadAnswered(i) ==
    /\ loads[i].state = "asked"
    /\ loads' = Append(RemoveAt(loads, i), [loads[i] EXCEPT !.state = "answered",
                                                           !.got = revs[loads[i].conv]])
    /\ missed' = (missed /\ loads[i].conv # active)
    /\ Nobodys /\ UNCHANGED <<revs, streamV, chatShows, list, more, older, tangled, sending>>

LoadShown(i) ==
    /\ loads[i].state = "answered"
    /\ list' = [NoList EXCEPT !.conv = loads[i].conv, !.at = loads[i].got]
    /\ more' = (more /\ loads[i].conv \in Long)
    /\ tangled' = (tangled /\ ~loads[i].alone)
    /\ loads' = RemoveAt(loads, i)
    /\ Nobodys /\ UNCHANGED <<revs, streamV, chatShows, older, sending, missed>>

LoadFails(i) ==
    /\ Mishap
    /\ list' = NoList
    /\ missed' = TRUE
    /\ loads' = RemoveAt(loads, i)
    /\ UNCHANGED <<revs, streamV, chatShows, more, older, tangled, sending, moves>>

\* loadOlderMessages up to its await.  A reload clears the ref that keeps a second
\* from being asked for; one at a time is a bound here.
AskOlder ==
    /\ panel /\ active # Nowhere /\ more /\ list # NoList /\ older = NoOlder
    /\ older' = [conv |-> active, base |-> list]
    /\ loads' = [i \in DOMAIN loads |-> [loads[i] EXCEPT !.alone = FALSE]]
    /\ tangled' = (tangled \/ loads # <<>>)
    /\ Move /\ UNCHANGED <<revs, streamV, chatShows, list, more, sending, missed>>

\* A page that was asked for from the oldest message of another conversation brings
\* what of this one is older than that.
Brings(o) == IF o.base.conv = o.conv THEN {o.conv \in Long /\ ~o.base.older} ELSE BOOLEAN

\* Whatever the list is by now, the page is put before it: it may come next to messages
\* of another conversation, or without those that have left the first page since.
Prepended(o) == [list EXCEPT !.older = TRUE,
                             !.torn = @ \/ list.conv # o.conv \/ list.conv # o.base.conv
                                        \/ list.at # o.base.at]

OlderShown ==
    /\ older # NoOlder
    /\ \E brings \in Brings(older), full \in BOOLEAN :
          /\ full => brings /\ older.base.conv # older.conv
          /\ list' = IF brings THEN Prepended(older) ELSE list
          /\ more' = (more /\ full)
    /\ older' = NoOlder
    /\ Nobodys /\ UNCHANGED <<revs, streamV, chatShows, loads, tangled, sending, missed>>

OlderFails ==
    /\ older # NoOlder /\ Mishap
    /\ older' = NoOlder
    /\ UNCHANGED <<revs, streamV, chatShows, list, more, loads, tangled, sending, moves,
                  missed>>

-----------------------------------------------------------------------------
(* The event stream *)

Happens(c, kind) ==
    /\ revs' = [revs EXCEPT ![c] = @ + 1]
    /\ told' = IF streaming THEN [told EXCEPT ![c][kind] = @ + 1] ELSE told
    /\ missed' = (missed \/ ~streaming)

\* A message of somebody else, or of this user elsewhere; an edit, a deletion or a
\* reaction.
Somebody(c, kind) ==
    /\ revs[c] < MaxRevs
    /\ Happens(c, kind)
    /\ Nobodys /\ UNCHANGED <<streaming, reopened, chatShows, listVars, sending>>

\* onMessageNew asks whether the panel is open; onMessageUpdate, onMessageDelete and
\* onReactionChange do not.
Reloads(c, kind) == c = active /\ (kind = "new" => panel)

HearsOf(c, kind) ==
    /\ told[c][kind] > 0
    /\ told' = [told EXCEPT ![c][kind] = @ - 1]
    /\ IF Reloads(c, kind) THEN Load(c, active) ELSE UNCHANGED listVars
    /\ Nobodys /\ UNCHANGED <<revs, streaming, reopened, chatShows, sending, missed>>

Deaf == /\ streaming' = FALSE
        /\ told' = [c \in Convs |-> [k \in Kinds |-> 0]]
        /\ missed' = (missed \/ \E c \in Convs, k \in Kinds : told[c][k] > 0)

ConnectionDrops ==
    /\ streaming /\ Deaf
    /\ Nobodys /\ UNCHANGED <<revs, reopened, chatShows, listVars, sending>>

\* onVisibility closes the stream and opens another.
PageShown ==
    /\ Deaf /\ reopened' = TRUE
    /\ Nobodys /\ UNCHANGED <<revs, chatShows, listVars, sending>>

OnReopen == IF active = Nowhere THEN UNCHANGED listVars ELSE Load(active, active)

StreamUp ==
    /\ ~streaming /\ streaming' = TRUE
    /\ IF reopened THEN OnReopen ELSE UNCHANGED listVars
    /\ Nobodys /\ UNCHANGED <<revs, reopened, told, chatShows, sending, missed>>

-----------------------------------------------------------------------------
(* The user *)

\* Mutant of ShowNow: the effect runs when the panel opens, and not on a change of
\* conversation.
ShowOpened(c, shown) == IF shown /\ ~panel /\ c # Nowhere THEN Load(c, c)
                                                        ELSE UNCHANGED listVars

\* The effect on the conversation and the panel.
ShowNow(c, shown) == IF shown /\ c # Nowhere /\ (~panel \/ c # active) THEN Load(c, c)
                                                                  ELSE UNCHANGED listVars

OpenPanel ==
    /\ ~panel /\ panel' = TRUE
    /\ ShowNow(active, TRUE)
    /\ Move /\ UNCHANGED <<revs, streamV, active, sending, missed>>

\* Minimized, or closed, which also leaves the conversation; a channel that is deleted is
\* not among the inputs.
ShutPanel(c) ==
    /\ panel /\ panel' = FALSE
    /\ active' = c
    /\ Move /\ UNCHANGED <<revs, streamV, listVars, sending, missed>>

\* selectConversation, from the list or from a notification.
Select(c) ==
    /\ panel' = TRUE /\ active' = c
    /\ ShowNow(c, TRUE)
    /\ Move /\ UNCHANGED <<revs, streamV, sending, missed>>

\* Another tab has selected a conversation, the page has found that of a job, or the last
\* one is restored, with the panel open or not.
Jump(c) ==
    /\ c # active /\ active' = c
    /\ ShowNow(c, panel)
    /\ Move /\ UNCHANGED <<revs, streamV, panel, sending, missed>>

\* handleSend, and handleSendThreadReply, which differs in what it reloads besides.
SendMessage ==
    /\ panel /\ active # Nowhere /\ sending = NotSending
    /\ sending' = [conv |-> active, stage |-> "sent"]
    /\ Move /\ UNCHANGED <<revs, streamV, chatShows, listVars, missed>>

\* The stream tells of the user's own messages too.
SendArrives ==
    /\ sending.stage = "sent" /\ revs[sending.conv] < MaxRevs
    /\ sending' = [sending EXCEPT !.stage = "written"]
    /\ Happens(sending.conv, "new")
    /\ Nobodys /\ UNCHANGED <<streaming, reopened, chatShows, listVars>>

\* The conversation it was sent to is reloaded, whichever is selected by now.
SendAnswered ==
    /\ sending.stage = "written"
    /\ sending' = [conv |-> Nowhere, stage |-> "over"]
    /\ Load(sending.conv, active)
    /\ Nobodys /\ UNCHANGED <<revs, streamV, chatShows, missed>>

SendFails ==
    /\ sending.stage \in {"sent", "written"} /\ Mishap
    /\ sending' = [conv |-> Nowhere, stage |-> "over"]
    /\ UNCHANGED <<revs, streamV, chatShows, listVars, moves, missed>>

WidgetNext ==
    \/ \E i \in DOMAIN loads : LoadAnswered(i) \/ LoadShown(i) \/ LoadFails(i)
    \/ AskOlder \/ OlderShown \/ OlderFails
    \/ \E c \in Convs, kind \in Kinds : Somebody(c, kind) \/ HearsOf(c, kind)
    \/ ConnectionDrops \/ PageShown \/ StreamUp
    \/ OpenPanel \/ \E c \in {active, Nowhere} : ShutPanel(c)
    \/ \E c \in Convs : Select(c) \/ Jump(c)
    \/ SendMessage \/ SendArrives \/ SendAnswered \/ SendFails

WidgetSpec == WidgetInit /\ [][WidgetNext]_widgetVars

-----------------------------------------------------------------------------
(* Properties *)

\* The type of the state; nothing is asked about a conversation that is none.
WidgetTypeOK ==
    /\ revs \in [Convs -> 0..MaxRevs]
    /\ streaming \in BOOLEAN /\ reopened \in BOOLEAN
    /\ told \in [Convs -> [Kinds -> 0..MaxRevs]]
    /\ panel \in BOOLEAN /\ active \in Convs \union {Nowhere}
    /\ list \in Lists /\ more \in BOOLEAN
    /\ loads \in Seq([conv : Convs, state : {"asked", "answered"}, got : 0..MaxRevs,
                      alone : BOOLEAN])
    /\ Len(loads) <= MaxLoads
    /\ older = NoOlder \/ older \in [conv : Convs, base : Lists]
    /\ sending.stage \in {"idle", "sent", "written", "over"}
    /\ sending.conv = Nowhere <=> sending.stage \in {"idle", "over"}
    /\ mishaps \in 0..MaxMishaps /\ moves \in 0..MaxMoves
    /\ missed \in BOOLEAN /\ tangled \in BOOLEAN

\* What the panel shows is the conversation selected, as it is now, or it is about to
\* be: unless something was lost, or requests for the list have overlapped.
ListHasACause ==
    panel /\ active # Nowhere /\ ~(list.conv = active /\ list.at = revs[active]) =>
       \/ \E k \in Kinds : told[active][k] > 0
       \/ missed \/ tangled
       \/ \E i \in DOMAIN loads :
             loads[i].conv = active
             /\ (loads[i].state = "asked" \/ loads[i].got = revs[active])

\* All of the history can be scrolled to and nothing but it, without a gap, unless
\* requests for the list have overlapped.
HistoryIsReachable ==
    loads = <<>> /\ list.conv # Nowhere /\ ~tangled =>
       /\ ~list.torn
       /\ more <=> (list.conv \in Long /\ ~list.older)

=============================================================================
