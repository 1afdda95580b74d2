----------------------------- MODULE ChannelPage -----------------------------
(***************************************************************************)
(* One reader's home page and one channel (or DM): how its messages reach  *)
(* the screen (pages/Home.tsx, hooks/use-sse.ts, the query cache,          *)
(* server/events.ts) and how its read receipt advances (markChannelRead,   *)
(* the read routes of server/routes.ts).  Channels share nothing but the   *)
(* place on the screen, so one stands for each: it is open or another is.  *)
(* Messages are other people's: one's own are never marked.                *)
(***************************************************************************)
EXTENDS Naturals, Sequences

CONSTANTS
    MaxChanges,  \* messages, and edits, deletions and reactions
    MaxMarks,    \* read requests in flight
    MaxFailures  \* requests that fail

ASSUME PageAssumption ==
    MaxChanges \in Nat /\ MaxMarks \in Nat /\ MaxFailures \in Nat

VARIABLES
    tip,       \* the channel's last message
    edited,    \* changes of its messages
    receipt,   \* read_receipts.last_read_message_id
    stream,    \* the EventSource: up, down (it tries again) or dead
    healing,   \* useSSE's reconnected: an opened stream calls onReopen
    events,    \* message:new and message:update on their way
    visible,   \* document.visibilityState
    open,      \* the channel is the one on the screen
    fetch,     \* the request for its messages
    page,      \* its messages in the query cache
    loaded,    \* the query has data
    fresh,     \* no event has invalidated them since they came
    marks,     \* read requests on their way
    lost,      \* an event, or the answer of a fetch, was lost
    outrun,    \* an event came after the answer of a fetch that it did not cancel
    owed,      \* an event that was to mark it, or its read request, was lost, or
               \* it was opened without one; and no read was asked for since
    failures

server == <<tip, edited, receipt>>
wire   == <<stream, healing, events>>
cache  == <<fetch, page, loaded, fresh>>
screen == <<visible, open>>
causes == <<lost, outrun, owed, failures>>
pageVars == <<server, wire, cache, screen, marks, causes>>

Pages == [tip : 0..MaxChanges, edited : 0..MaxChanges]
Now   == [tip |-> tip, edited |-> edited]
Empty == [tip |-> 0, edited |-> 0]
None  == [state |-> "none", got |-> Empty]
Asked == [state |-> "asked", got |-> Empty]

PageInit ==
    /\ tip = 0 /\ edited = 0 /\ receipt = 0
    /\ stream = "down" /\ healing = FALSE /\ events = <<>>
    /\ visible = TRUE /\ open \in BOOLEAN
    /\ fetch = IF open THEN Asked ELSE None
    /\ page = Empty /\ loaded = FALSE /\ fresh = FALSE
    /\ marks = 0
    /\ lost = FALSE /\ outrun = FALSE /\ owed = FALSE /\ failures = 0

-----------------------------------------------------------------------------
(* The server *)

\* Mutant of Emit: events are kept for a stream that is down.
EmitAlways(kind) == events' = Append(events, kind) /\ UNCHANGED <<lost, owed>>

\* fanoutChannel writes to the streams that are open; nothing is kept for others.
Emit(kind) ==
    IF stream = "up"
    THEN events' = Append(events, kind) /\ UNCHANGED <<lost, owed>>
    ELSE /\ lost' = TRUE /\ owed' = (owed \/ (kind = "new" /\ open /\ visible))
         /\ UNCHANGED events

Post ==
    /\ tip + edited < MaxChanges
    /\ tip' = tip + 1
    /\ Emit("new")
    /\ UNCHANGED <<edited, receipt, stream, healing, cache, screen, marks, outrun, failures>>

Change ==
    /\ tip > 0 /\ tip + edited < MaxChanges
    /\ edited' = edited + 1
    /\ Emit("update")
    /\ UNCHANGED <<tip, receipt, stream, healing, cache, screen, marks, outrun, failures>>

\* Both read routes go up to the newest message there is.
ReadToTip ==
    /\ receipt' = IF tip > receipt THEN tip ELSE receipt
    /\ owed' = FALSE
    /\ UNCHANGED <<tip, edited, wire, cache, screen, lost, outrun, failures>>

ChannelRead == marks > 0 /\ marks' = marks - 1 /\ ReadToTip

\* POST /api/projects/:id/read marks every channel, whatever is on the screen.
CompanyRead == ReadToTip /\ UNCHANGED marks

ReadFails ==
    /\ marks > 0 /\ failures < MaxFailures
    /\ marks' = marks - 1 /\ failures' = failures + 1
    /\ owed' = TRUE
    /\ UNCHANGED <<server, wire, cache, screen, lost, outrun>>

-----------------------------------------------------------------------------
(* The event stream *)

\* The events that were on their way are lost with their stream.
LoseEvents == events' = <<>> /\ lost' = (lost \/ events # <<>>)

ToRead == open /\ visible /\ \E i \in DOMAIN events : events[i] = "new"

\* The connection breaks: EventSource tries again by itself, unless a proxy
\* answered with an error or the web view dropped it without a word.
StreamBreaks(how) ==
    /\ stream = "up" \/ (stream = "down" /\ how = "dead")
    /\ stream' = how
    /\ LoseEvents
    /\ owed' = (owed \/ ToRead)
    /\ UNCHANGED <<server, healing, cache, screen, marks, outrun, failures>>

\* Mutant of Invalidate: the query is marked, and run when the channel is opened.
InvalidateLater == fresh' = FALSE /\ UNCHANGED <<fetch, outrun>>

\* invalidateQueries: an open channel is fetched anew, and a fetch under way cancelled,
\* unless it is the first.  A fetch that is let go on makes what it brings count as
\* fresh, however old that is.
Invalidate ==
    /\ fresh' = FALSE
    /\ IF open /\ (loaded \/ fetch = None)
       THEN fetch' = Asked /\ UNCHANGED outrun
       ELSE outrun' = (outrun \/ fetch.state = "answered") /\ UNCHANGED fetch

\* onReopen is called only once the page has been brought to the front before.
StreamOpens ==
    /\ stream = "down"
    /\ stream' = "up"
    /\ IF healing /\ open THEN Invalidate ELSE UNCHANGED <<fetch, fresh, outrun>>
    /\ UNCHANGED <<server, healing, events, page, loaded, screen, marks, lost, owed, failures>>

\* markChannelRead; its mutant does not ask.
NoMark == UNCHANGED <<marks, owed>>
Mark   == marks < MaxMarks /\ marks' = marks + 1 /\ owed' = FALSE

\* onMessageNew.  Refs tell it which channel is open now.
MessageNew ==
    /\ events # <<>> /\ Head(events) = "new"
    /\ events' = Tail(events)
    /\ Invalidate
    /\ IF open /\ visible THEN Mark ELSE NoMark
    /\ UNCHANGED <<server, stream, healing, page, loaded, screen, lost, failures>>

\* message:update, message:delete, reaction:change.
MessageChanged ==
    /\ events # <<>> /\ Head(events) = "update"
    /\ events' = Tail(events)
    /\ Invalidate
    /\ UNCHANGED <<server, stream, healing, page, loaded, screen, marks, lost, owed, failures>>

-----------------------------------------------------------------------------
(* The page *)

MessagesAnswered ==
    /\ fetch = Asked
    /\ fetch' = [state |-> "answered", got |-> Now]
    /\ lost' = FALSE /\ outrun' = FALSE
    /\ UNCHANGED <<server, wire, page, loaded, fresh, screen, marks, owed, failures>>

MessagesShown ==
    /\ fetch.state = "answered"
    /\ page' = fetch.got /\ loaded' = TRUE
    /\ fetch' = None /\ fresh' = TRUE
    /\ UNCHANGED <<server, wire, screen, marks, causes>>

\* Queries are not retried.
MessagesFail ==
    /\ fetch # None /\ failures < MaxFailures
    /\ failures' = failures + 1
    /\ fetch' = None /\ lost' = TRUE
    /\ UNCHANGED <<server, wire, page, loaded, fresh, screen, marks, outrun, owed>>

\* A query that nobody has used for minutes is dropped.
Forget ==
    /\ ~open /\ fetch = None /\ loaded
    /\ page' = Empty /\ loaded' = FALSE /\ fresh' = FALSE
    /\ UNCHANGED <<server, wire, fetch, screen, marks, causes>>

\* A query that comes to be used runs, unless what it has came in the last seconds; if
\* it runs already, its answer is awaited.
Opens ==
    /\ ~open /\ open' = TRUE
    /\ \/ fetch = None /\ fetch' = Asked
       \/ (fetch # None \/ fresh) /\ UNCHANGED fetch

SelectChannel ==
    /\ Opens
    /\ Mark
    /\ UNCHANGED <<server, wire, visible, page, loaded, fresh, lost, outrun, failures>>

\* Home opens a channel by itself (the first one, the one remembered of a company,
\* the next when one is deleted): nothing is marked.
ShowChannel ==
    /\ Opens
    /\ owed' = TRUE
    /\ UNCHANGED <<server, wire, visible, page, loaded, fresh, marks, lost, outrun, failures>>

SelectAnother ==
    /\ open /\ open' = FALSE
    /\ UNCHANGED <<server, wire, visible, cache, marks, causes>>

HidePage ==
    /\ visible /\ visible' = FALSE
    /\ UNCHANGED <<server, wire, open, cache, marks, causes>>

\* Back in front: the stream is opened anew, the open channel is marked, and a
\* query that has grown stale is run (refetchOnWindowFocus).
ShowPage ==
    /\ ~visible /\ visible' = TRUE
    /\ stream' = "down" /\ healing' = TRUE
    /\ LoseEvents
    /\ IF open THEN Mark ELSE NoMark
    /\ UNCHANGED fetch \/ (open /\ fetch = None /\ fetch' = Asked)
    /\ UNCHANGED <<server, open, page, loaded, fresh, outrun, failures>>

PageNext ==
    \/ Post \/ Change \/ ChannelRead \/ CompanyRead \/ ReadFails
    \/ StreamBreaks("down") \/ StreamBreaks("dead") \/ StreamOpens
    \/ MessageNew \/ MessageChanged
    \/ MessagesAnswered \/ MessagesShown \/ MessagesFail \/ Forget
    \/ SelectChannel \/ ShowChannel \/ SelectAnother \/ HidePage \/ ShowPage

PageSpec == PageInit /\ [][PageNext]_pageVars

-----------------------------------------------------------------------------
(* Properties *)

\* The type of the state, a receipt never past the last message, and a stream
\* that delivers nothing while it is not up.
PageTypeOK ==
    /\ tip \in 0..MaxChanges /\ edited \in 0..MaxChanges
    /\ receipt \in 0..tip
    /\ stream \in {"up", "down", "dead"} /\ healing \in BOOLEAN
    /\ events \in Seq({"new", "update"}) /\ (stream # "up" => events = <<>>)
    /\ visible \in BOOLEAN /\ open \in BOOLEAN
    /\ fetch \in [state : {"none", "asked", "answered"}, got : Pages]
    /\ page \in Pages /\ loaded \in BOOLEAN /\ fresh \in BOOLEAN
    /\ marks \in 0..MaxMarks
    /\ lost \in BOOLEAN /\ outrun \in BOOLEAN /\ owed \in BOOLEAN /\ failures \in 0..MaxFailures

OnItsWay == fetch # None \/ events # <<>>

\* The open channel shows what there is, or will with nobody's help, unless an event or
\* an answer was lost, or an event came while the answer of a first load, or of a channel
\* not on the screen then, was on its way; and nothing has been asked for since.
StaleViewHasACause == open => page = Now \/ OnItsWay \/ lost \/ outrun

\* Messages of the channel on the screen stay unread only when its event or its
\* read request was lost, or Home opened the channel by itself.
UnreadOnScreenHasACause ==
    open /\ visible /\ receipt < tip =>
       \/ marks > 0 \/ owed
       \/ \E i \in DOMAIN events : events[i] = "new"

=============================================================================
