# Bulldog Chat in TLA+

Bulldog Chat is an Express server (one Node process over SQLite) with a React
client, an embeddable widget and a mobile shell.  People chat in channels, ring
each other, meet in LiveKit rooms behind a waiting room, and schedule calls whose
invitations and reminders go out by e-mail and SMS.  This directory specifies the
parts of it whose correctness depends on *order*: handlers that await in the
middle, timers, SSE streams, browser tabs that act on what they last heard, and
restarts.  The configurations are checked with TLC; the theorems with TLAPS (`tlasany`,
`tlc -config X.cfg MC….tla` and `tlapm ….tla`, inside this directory).

## Inventory

The server is one event loop.  A handler is atomic between two `await`s; SQLite
calls are synchronous.  Nothing but SQLite survives a restart: timers, the SSE
subscriber set, the waiting-room lobby, transcription sessions and running handlers
do not.

| Part | State it keeps | Operations | Hard because | What makes it correct | Module |
|---|---|---|---|---|---|
| Ringing calls, server (`server/routes.ts`, `server/storage.ts`) | `direct_calls` rows, auto-miss `setTimeout`s | calls/start, group-call/start, active/invite, accept, end, GET | every handler awaits a LiveKit token in the middle; timers race answers; restart loses timers | a row rings once, is settled once, stays settled; every ring stops | `DirectCall` |
| Ringing calls, tab (`client/src/lib/CallContext.tsx`) | incoming, outgoing and active slot | clicks, answers, `call:*` events | answers and events travel on different connections; several devices per user | nobody sits in a call that was not answered; no stale screens; one device answers | `DirectCall` |
| SSE fan-out (`server/events.ts`) | subscriber set, access snapshot | subscribe, emit, close | no replay; snapshot taken at connect | an event reaches the streams that are open | in its users: `DirectCall`, `ChannelPage`, `WidgetChat`, `WidgetCalls`, `UnreadBadge` |
| Meetings (`server/routes-meetings.ts`, `server/storage/meetings.ts`) | meetings, participants | create, join, leave, end | mint awaits; guest and member joins both activate | participants belong to joins | `Lobby` |
| Waiting room (`server/storage/lobby.ts`) | knocks in memory | knock, poll, cancel, admit, deny, sweep | poll awaits the mint; host decides meanwhile; restart | of those who knock only the admitted get in | `Lobby` |
| Scheduled calls (`server/scheduled-calls.ts`) | calls, invitees with send/retry/reminder marks | create, dispatch, retry, remind, RSVP, cancel, delete, auto start/end | overlapping 60 s ticks; sends awaited between check and mark; crash mid-dispatch | each invitee is told, and a closed call stays closed | `ScheduledCall` |
| Meeting clerk (`server/meeting-clerk*.ts`) | notes, sessions, chains, payload map | start, listen, stop, chain, send or skip the mail, delete | a stop starts a chain that awaits four services; the send awaits between check and mark; restart | a note at work has a worker; the mail is the summary | `MeetingClerk` |
| Clerk's roster (same file) | set of names in memory, list in the row | poll LiveKit every 10 s, gather, drop | LiveKit answers after the set was dropped | nobody seen is missing from the attendees | `ClerkRoster` |
| Recording (`server/recording.ts`, webhook in `routes-v2.ts`) | `recordings` rows; egress at LiveKit | start, stop, webhook | the row is written after the await; the webhook may be first | one recording at a time, and one that can be stopped | `Recording` |
| Crelate poller (`server/crelate-poller.ts`) | two caches, notified marks | seed, three-minute pass, notice | passes overlap; caching and telling are two steps | a placement is announced once | `CrelatePoller` |
| Roster sync (`server/users-sync.ts`) | users' `deactivated_at` | five-minute and admin syncs, SSO provisioning | answers overtake each other; a broken answer is an empty roster | chat's active users come to be auth's | `RosterSync` |
| Patch notes (`server/patch-notes-announcer.ts`) | marker in `system_state` | boot | deploy or crash between e-mails | nobody misses a note, repeats only after a cut | `Announcer` |
| Scorecard (`server/routes.ts`) | placements, aggregates | log, split, edit, delete, write by hand | four routes must keep one sum | the dashboard adds up | `ScorecardLedger` |
| Channel page (`client/src/pages/Home.tsx`, `use-sse.ts`, `queryClient.ts`) | stream, query cache, receipt | message, edit, open, hide, show, mark read | events, answers and breaks interleave | what is shown is what there is, and is read | `ChannelPage` |
| Unread badge (`client/src/hooks/use-unread.tsx`) | cached counts, debounce | nudge, refetch, clear, safety net | refetches overlap each other and a clear | the badge settles | `UnreadBadge` |
| Presence (`client/src/hooks/use-presence.tsx`) | status per user, picks per tab | pick, idle, hide, leave | tabs overtake each other, offline on pagehide | the user is what his tab shows | `Presence` |
| Media of a call (`client/src/lib/useLiveKitRoom.ts`) | switches, publications, operations | toggle, mute, connect, reconnect | an operation cannot be stopped | nobody is heard with the switch off | `CallMedia` |
| Widget, chat (`widget/src/BulldogChatWidget.tsx`) | one list, stream, older pages | select, load, send, scroll up | answers are not asked which conversation they are of | the list is the selected conversation | `WidgetChat` |
| Widget, calls (same file, `CallView.tsx`) | banner, call screen | accept, decline, start, hang up | each answer and event overwrites | screens show the calls that are on | `WidgetCalls` |

`PROJECT.json` lists every component with its status and, under `hazards`, each
thing that is hard to test, at its line.

## Plan

1. `CallLedger`, `DirectCall`, `MCDirectCall`, `DirectCallProofs`, `DeviceProofs`: ringing
   calls (done).
2. `Admission`, `Lobby`, `MCLobby`, `LobbyProofs`: meetings and the waiting room (done).
3. `ScheduledCall`, `MCScheduledCall`, `ScheduledCallProofs`: invitations, retries,
   reminders, the start notice, RSVP, cancel, delete, restart (done).
4. `MeetingClerk`, `ClerkRoster`, `CrelatePoller`, `Recording`, `RosterSync`, `Announcer`,
   `ScorecardLedger`, `UnreadBadge`, composed in `MCBackground`; `MeetingClerkProofs`,
   `BackgroundProofs` (done).
5. `ChannelPage`, `Presence`, `CallMedia`, `WidgetChat`, `WidgetCalls`, composed in `MCHome`;
   `ChannelPageProofs`, `HomeProofs` (done).

Left: no safety property of a run is without its theorem.  Candidates for more refinement:
an abstract specification of the invitations that `ScheduledCall` implements, as `CallLedger`
is of `DirectCall`.  Candidates for more modules: the mobile bridge's pushes, the widget's job
bus, the list of participants of a call.

### Runs

| Run | Shape | Properties |
|---|---|---|
| `DirectCallDevices` | one caller, a callee with two devices, one fault, fair | `OneDeviceAnswers`, `StaleScreenOnlyIfBlind`, `RingingResolves`, `ModalClosesWhenOver` |
| `DirectCallGroup` | three users, two starters, group calls and invites | `InCallOnlyIfAnswered`, `RingingIsTimed`, `ImplementsLedger` |
| `DirectCallOvertaken` | two users, no faults, fair | `CallerFollowsAccept`: **violated** |
| `Lobby` | a guest, two members, two tickets, three scenes, fair | `GuestInOnlyIfAdmitted`, `PresentMeansListed`, `ImplementsAdmission`, `WaitingEnds` |
| `LobbyTokenTwice` | a guest, one knock, two polls | `TokenIssuedOnce`: **violated** |
| `ScheduledInvites` | three invitees, two passes, fair | `NobodyForgotten`, `InviteesAreSettled` |
| `ScheduledReminders` | three invitees, all phases, a restart, fair | `MarkedMeansTold`, `ClosedForGood`, `CallsEnd` |
| `ScheduledInvitedTwice` | three invitees, two passes | `InvitedOnce`: **violated** |
| `Background` | the eight modules of `MCBackground`, fair | `BackgroundTypeOK`, `WorkHasAWorker`, `MailIsTheSummaryOnce`, `TranscriptLostToOrphan`, `AttendeesAreComplete`, `EachToldOnce`, `PlacementsAreTold`, `RecordingInHand`, `ProcessingEnds`, `RosterSettles`, `NotesAreToldOnce`, `LedgerAddsUp`, `StaleBadgeHasACause`, `BadgeSettles` |
| `SeedAnnounces` | the same composition | `SeedIsSilent`: **violated** |
| `Home` | the five modules of `MCHome` | `HomeTypeOK`, `StaleViewHasACause`, `UnreadOnScreenHasACause`, `PresenceHasACause`, `DevicesFollowSwitches`, `ListHasACause`, `HistoryIsReachable`, `CallScreensHaveACause` |
| `PresenceIdle` | the same composition | `IdleGoesAway`: **violated** |

The type invariants of `DirectCall`, `Lobby` and `ScheduledCall` are proved; no run repeats
them.  Every run takes minutes at most.

## Ringing calls

`DirectCall` composes three things: the rows of `direct_calls` with their timers,
the SSE stream of each tab, and the three call slots of each tab.

* A **request** is a record that moves from `sent` through the handler
  (`await` while it waits for a token, `loop` between two invitees of a group call)
  to `done`, the answer on its way back.  Requests of one tab may overtake each
  other and its SSE stream; events of one stream arrive in order.
* **Clicks** (`StartCall`, `StartGroupCall`, `InviteToActiveCall`,
  `JoinChannelCall`, `AcceptIncoming`, `DeclineIncoming`, `CancelOutgoing`,
  `EndActive`) are the callbacks of `CallContext.tsx`; each changes the tab's own
  slots and sends at most one request.  The slots are read through React refs, so
  a click sees the latest state.
* **Handlers** (`CreateRow`, `Announce`, `FinishGroup`, `AcceptRefused`,
  `AcceptCall`, `AnnounceAccept`, `EndAgain`, `EndCall`, `GetCall`, `AnswerGet`) are
  the pieces of the Express handlers between their awaits, in the order of the code:
  a row is created as ringing *before* the token is awaited and its timer armed
  after; accept claims the row *before* the token and announces after.
* **AutoMiss** is the `setTimeout` of a row.  No delay is modelled: a timer may fire
  at any moment after it is armed, which covers 60 s and 90 s alike.
* **Arrivals** are answers (`ShowOutgoing`, `ShowGroup`, `EnterAccepted`,
  `EnterAsCaller`) and events (`OnIncoming`, `OnAccepted`, `OnEnded`).
* **Faults** (`StreamDrops`, `RequestFails`, `Reload`, `Restart`) are enabled by
  `FaultKinds` and bounded by `MaxFaults`.
* The mid-meeting invite of `routes-meetings.ts` creates, rings and times rows in
  one synchronous step; it is the `invite` way without its await.

`blind` is a history variable: the pairs of tab and call for which the `call:ended`
event was lost to a broken stream, or was handled while an answer that can still put
the call on the screen was under way.  `untimed` is another: the rows that rang when a restart
took the timers.

`CallLedger` is the abstract specification: a row rings once, is answered, declined
or missed only while it rings, and once settled is never touched.

### Runs

| Run | Question | Bounds |
|---|---|---|
| `DirectCallDevices` | a callee with two devices, any one fault: who gets in, what stays on a screen, does every ring stop, does every modal close | 2 users, 3 tabs, 1 row, 1 fault, `FairSpec` |
| `DirectCallGroup` | two people ring at the same time; group ring, mid-call invite, joins | 3 users, 3 tabs, 2 starters, 2 rows, no faults, rows symmetric |
| `DirectCallOvertaken` | does the caller follow the accept: **violated** | 1 row, no faults |

Two rows are enough for glare, for a second ring that replaces the first in the
incoming slot, and for an accept whose answer clears the modal of the other row.
Two devices are the least that can compete for one row.  One fault of any kind (a broken
stream, a failed request, a reload, a restart) at any moment is what keeps liveness checkable
in minutes; the theorems about the two safety properties are for any number of them.  `MaxPending = 1`
lets a user click only when no request of the tab is in flight; the requests the
handlers send on their own (decline while in a call, GET after `call:accepted`) are
not limited.

The properties:

* `InCallOnlyIfAnswered`: nobody sits in a call the table calls missed, declined or
  ringing.
* `OneDeviceAnswers`: of all the callee's tabs one at most gets in, counting tokens
  under way.
* `StaleScreenOnlyIfBlind`: a call that is over stays on a screen only while its
  event is on the way or the tab is blind to it.  The last case is real: when
  `call:ended` overtakes the answer to accept or to GET, the tab enters a call that is
  over and nothing takes it out again.
* `RingingIsTimed`: a ringing row has a timer, or the handler that is about to arm it, across
  restarts; only the rows that rang when the process went down have lost theirs for good
  (`untimed`), which is the hazard at `routes.ts:3536`.
* `RingingResolves`, `ModalClosesWhenOver`: liveness, under `Fairness`, with the same exception
  and that of a tab that is blind.

Fairness is weak fairness of timers, of handlers and answers, of event delivery and
of EventSource's own reconnect.  The event loop runs what is ready, HTTP requests
are answered or fail, and browsers reconnect EventSource by themselves.  No click is
fair: nobody has to answer.

One comment of the code is refuted by a run of its own (`findings`): the caller does not
always follow the accept.  Two more disagreements have none: the
auto-miss timer does not survive a restart, so a row may ring for ever after one, and
nothing on the server ends the active row of a participant whose tab was closed.

### Proofs

`DirectCallProofs` proves for all users, tabs, calls and numbers of faults, from
`CallAssumption` alone:

* `TypeCorrect`, `InCallIsAnswered`, `RingingHasTimer`: the invariants `TypeOK`,
  `InCallOnlyIfAnswered`, `RingingIsTimed`;
* `LedgerIsImplemented`: `Spec => Ledger!Spec`.

The inductive invariant `IInv` adds two facts to the three invariants.  A tab enters
a call on a granted accept or on the answer to a GET; so `GoodReqs` says that an
admitted accept and every GET are about an answered row, and `AcceptedIsAnswered`
says the same of every `call:accepted` on a stream, because that is what sends the
GET.  Answered rows stay answered (`AnsweredStays`, from `StatusMoves`), so the
facts survive whatever happens to the row between two awaits.

`DeviceProofs` adds `OneDeviceAtMost`: `OneDeviceAnswers`, for every number of devices and
faults.  The property counts sets; `LoneDevice` says the same without counting (two granted
requests are one, two tabs inside are one, and there are not both), and only the last lemma
goes through cardinalities.  What makes it inductive is `CallersSide`: a tab gets in either by
an accept, which finds the row ringing and claims it in one step, or by a GET after
`call:accepted`, and only the caller's tabs have an outgoing call to send that GET for.  So
the second way never lets in a device of the callee, and `RowsKeepTheirParties` makes that
last.

`StaleScreenIsBlind` proves `StaleScreenOnlyIfBlind`.  The property needs to know where a
screen that shows a call comes from, and what its stream still holds.  `Due` collects whatever
in a tab will need the end of a call: a slot that shows it, or an answer on its way that will
put it into one.  `ScreenInv` says of these, and of the streams:

* `RowsComeFirst`, `OnlyPartiesHear`: a timer, a request, a screen and an event are of a row
  that is written, and events go to its two parties, so the event that ends the call goes to
  every tab that needs it;
* `UnknownBeforeRing`: a call whose handler still awaits its token is on no stream;
* `DueIsTold`: whatever needs the end of a call that is over has it on its stream, or is blind;
* `RingThenEnd`: a ring that no end follows on the stream is of a call that goes on, or the tab
  is blind.  Without it the property is not inductive: the tab that reads such a ring would
  show a call that has nothing left to end it.

A step that touches a stream is one of four (`StreamMoves`: an event, nothing, a cut, a tab
that reads), and a request that is there afterwards has one of three origins
(`RequestOrigins`); each conjunct is proved by these cases rather than action by action.

Only model-checked: the liveness properties, which are out of the prover's reach.

## Meetings and their waiting room

`Lobby` is one meeting: its row (`status`, `settings`), the knocks Map (`knock`, `issued`), the open
`meeting_participants` rows (`rows`, counted per identity; `entered` keeps the guests
that ever had one), the pages and their requests.

* A **ticket** stands for a knock id and for the `g_…` identity minted with it.
  Members come as `u_<id>`: one identity, however often they join.
* **Pages**: `Knock`, `Poll`, `CancelKnock`, `Join`, `Leave`, `RefreshPanel` are what
  people and intervals do in `Join.tsx` and `Room.tsx`.  A page polls whether or not
  earlier polls were answered, so up to `MaxPolls` are in flight.
* **Handlers** are split at the await of the token: `WalkIn`, `UseAdmit`, `TakeJoin` and
  `JoinAsGuest` change the status and record the participant, `MintToken` comes back and
  marks the knock as issued.  `TakeKnock`, `ReportKnock`, `CancelAtServer`, `CloseRow`, `Decide`,
  `EndMeeting`, `EditMeeting` are synchronous.  A member's click and its handler are one
  step, `Decide`; that the panel may be old by then is in `panel`.
* **Joining without an account** (`JoinAsGuest`): `POST join` makes a guest of whoever brings no
  session (`routes-meetings.ts:603-609`), without a knock and *whatever the waiting room says*.
  Here it is the page of a member whose session has lapsed that asks; the server cannot tell
  it from any other caller.  The new `g_…` identity is a ticket with the status `unasked`.
* **Answers**: `HearJoin`, `HearPoll`.  A page that stops waiting (`Unheard`) ignores
  polls it still has out, as the clean-up of the effect does; their handlers run all the
  same.
* **Faults**: `RequestFails`, `ClosePage`, `Restart`.  At a restart every request in
  flight fails and every knock is `gone`: the server answers 404 and the page, which
  takes that for a network error, polls on.

`Admission` is the abstract specification: a knock is decided once, by a host, the guest
or the clock; who knocks is recorded as a participant only on an admitted knock or where there
is no waiting room; a restart only forgets.  Who joins without an account enters unasked
(`EnterUnasked`): that is what the code does, and the specification promises of it only that the
ticket is one no knock has or ever gets.  So the waiting room holds back those who knock, and
no more than those.

### Runs

| Run | Question | Bounds |
|---|---|---|
| `Lobby` | two members with old panels; overlapping polls and a second knock; a fault: who gets in, who is listed, does all waiting end | 1 guest, 2 members, 2 tickets, 2 polls, 1 fault, in three scenes, fair |
| `LobbyTokenTwice` | one token per admit: **violated** | 1 guest, 1 member, 1 knock, 2 polls |

`MCLobby` plays one of three scenes, so that not everything happens at once.  *faults*: any one
fault, one member, two tickets (a second knock, or a join without an account), settings that stay.
*hosts*: two members who decide the same knock from old panels while the meeting is edited and
ended.  *polls*: two polls in flight and a second knock.  The theorems are about all of it
together.

Two polls are the least that overlap, two knocks the least for an answer to the first to
arrive in the second.  Two members are the least that disagree; guests interact only
through the meeting's row, so one is enough for what is checked.  The rate limit of five
knocks a minute is not reached by two knocks.  Deadlock is not checked: a meeting that has
ended and that everybody has left has nothing more to do.

* `GuestInOnlyIfAdmitted`: the page shows the room only for a knock that was let in,
  whichever answer arrives last.
* `PresentMeansListed`: whoever is in the room has an open participant row.  A leave
  may overtake the same person's rejoin and closes whichever row it finds; the property
  holds because it closes only one.
* `ImplementsAdmission`: the refinement above.
* `WaitingEnds`: liveness, faults included.  A page that waits does so for ever in two ways
  only, and both are the code's.  A restart forgot its knock.  Or its one token was lost
  (`TokenLost`): the admit is consumed when the token is minted (`routes-meetings.ts:661`), so a
  guest whose answer was lost is told "admitted" without a token, goes on polling
  (`Join.tsx:505`) and waits under "You'll join automatically once you're admitted"
  (`Join.tsx:878`).

Fairness is weak fairness of the sweeper (`setInterval`, 30 s), of each guest page's poll
interval, and of the handlers and answers of its polls.  Nobody has to decide a knock or
click anything, and no other request has to be answered for these properties.

A meeting starts with any settings: a member may turn the waiting room on or off, and the
meeting that mirrors a scheduled call has it off (`storage/meetings.ts:77`), although the comment
at `scheduled-calls.ts:164` says that it stays on by default.  The start notice that a member's first
join gives is part of `ScheduledCall`.

### Proofs

`LobbyProofs` proves, for all guests, members, knocks, polls in flight and faults, from
`LobbyAssumption` alone: `TypeCorrect` (`TypeOK`), `GuestInIsAdmitted`
(`GuestInOnlyIfAdmitted`), `InIsListed` (`PresentMeansListed`) and
`AdmissionIsImplemented` (`Spec => Admitted!Spec`).

The page shows the room when it hears a token, so `IInv` follows the token back.
`AllEntitled`: a token under way, or being minted, is for a recorded ticket.
`AllAwaited`: a request whose answer will be heard is one its page waits for, and a poll
asks for the ticket the page waits with; otherwise a late answer for an earlier knock
would open the room on the wrong ticket.  `EnteredWasAdmitted` is kept because every step is a step
of `Admission` (`StepRefines`).  `OneOfAKind` is needed where a join is answered: no
other heard request of that page remains.

`InIsListed` counts rows against the leaves that are still to close one.  `RowsSuffice`: an
identity has an open row for whoever is in with it, or about to be, and one more for the
leave of its page that is on its way (`OneLeave`: there is one at most).  So a leave that
overtakes the rejoin closes a row too many for nobody.  The count needs that an identity
belongs to one page (`OneOwner`) and that a ticket nobody was given has none
(`UnusedIsFree`).  Only model-checked: the liveness properties.

## Scheduled calls

`ScheduledCall` is one call of `scheduled-calls.ts`: its row (`status`, `announced` for
`reminder_sent_at`), the marks of its invitees (`sent`, `attempts`, `retry`, `declined`,
`reminded`), the meeting it is linked to (`meetingOn`: it has left `scheduled`), and the
two kinds of jobs that run over it.

* A **pass** is one call of `dispatchInvites`.  It reads all rows once (`BeginPass`), then
  for each unmarked one awaits the send (`Deliver`) and writes the mark (`Mark`,
  `MarkInviteSent`).  `todo` is what is left of the copy it read.  The first pass is
  started by the creation; `RetryTick` is the query of the minute's interval, which starts
  another one when anybody is due, while earlier ones may still be sending.  A `queued` pass
  waits for the same tick's passes over other calls.
* A **scan** is one call of `dispatchReminders`: it reads the clock and the rows
  (`RemindTick`), sends and marks what is owed (`Warn`, `MarkReminder`), sets the call's mark
  if the rows *as it read them* were all done (`MarkCall`), and then starts or ends the call
  by the clock of its beginning and the status of its end (`Settle`).
* **People**: `MemberJoins` gives the start notice (`StartNotice`), `GuestJoins` activates
  the meeting without one, `Rsvp`, `Cancel`, `Delete`.
* **Time** is a phase, the windows the code compares with: `Advance` moves it, and jobs may
  be slow or skip a window altogether.  A retry falls due at any moment after the failure.
* **Restart** ends passes and scans and keeps the rows.

`told`, `reached`, `excused` and `starter` are history variables: how many invitations the
providers took, who got an at-start reminder, SMS or notice, who ever declined, and whose
join gave the notice.

Abstractions: a send is accepted or refused, and both contact ways count as one; `reached`
counts a reminder as soon as it is handed to the provider, and one that consent forbids
counts as well; a send always comes back (the provider's client has its own timeout).  The
retry and the reminder halves of a tick are separate actions, since neither waits for the
other.  The creation posts a card before the first pass when there is a channel; the pass is
taken to begin with the creation.

### Runs

| Run | Question | Bounds |
|---|---|---|
| `ScheduledInvites` | two passes overlap and sends fail: is anybody forgotten, does it settle | 3 invitees, 3 attempts, 2 passes, no scans, `FairSpec` |
| `ScheduledReminders` | is the mark honest, does a closed call stay closed, does every call end | 3 invitees, 1 pass, 1 scan, all phases, 1 RSVP, 1 restart, `FairSpec` |
| `ScheduledInvitedTwice` | nobody is invited twice: **violated** | 3 invitees, 2 attempts, 2 passes |

The roster has one of each kind the code treats differently: a colleague, a phone number,
and the organizer, whose row is the last.  Three attempts are one first, one middle and one
last (the code has five); with fewer than two passes nothing overlaps.  The clock stands
still in the runs about invitations, which never look at it, except for what is due.
`ScheduledReminders` refuses no invitation, because reminders do not read those marks; one
scan at a time is the run's bound, the theorem holds for any number.  Deadlock is not
checked: a call that is over has nothing more to do.

* `NobodyForgotten`: whoever was not invited is on a pass's list, due for a retry, or out of
  attempts, as long as no restart lost a pass.  Two passes write marks and attempts of the
  same invitee in any order.
* `MarkedMeansTold`: `reminder_sent_at` silences the start notice, and both the reminders and
  the notice set it; it is never set while an app user still needs telling.
* `ClosedForGood`: a call that is cancelled, ended or deleted is not reopened by a scan that
  began before, or by a join.
* `InviteesAreSettled`, `CallsEnd`: liveness.  The interval ticks whatever happens
  (`RetryTick`, `RemindTick`), awaited sends return (`PassStep`, `ScanStep`), time passes
  (`Advance`).  No person does anything.

The finding: a slow first pass and the retry of one of its failures both invite those in
between, since the mark is tested on the copy read at the beginning.  A second one has no run:
a member who joins before the SMS reminders are due takes the call out of the scan's query
(`scheduled-calls.ts:1313`), so that a phone-only invitee hears of neither the reminder nor the
start, although the comment there says that those "got SMS/email reminders earlier".

### Proofs

`ScheduledCallProofs` proves, for every roster, number of attempts, overlapping passes and
scans, replies and restarts, from `CallAssumption` and `PhaseAssumption`: `TypeCorrect`
(`TypeOK`), `NobodyIsForgotten` (`NobodyForgotten`), `MarkIsHonest` (`MarkedMeansTold`) and
`ClosedStays` (`ClosedForGood`).

`NobodyForgotten` is inductive together with `TypeOK`: a pass takes an invitee off its list in
the step that marks it or counts its attempt, and a tick takes only a slot whose list is
empty.  `MarkedMeansTold` needs two facts about jobs in flight.  `MarkedIsSent`: a start
reminder is marked, or about to be, only after it went out.  `DoneIsTold`: a scan that read
all rows as done proves that every app user was told or declined, and remains right however
long its sends take, because `reached` and `excused` only grow.  The next invitee and the next
reminder are least elements; `FirstIsIn` and `FirstDutyIsIn` show that they exist, from the
well-foundedness of `<`.

`ClosedForGood` is an action property and follows from the guards of `Settle` and the joins,
which ask for the status again after every await (`ClosedStaysClosed`).

Only model-checked: the liveness properties.

## What goes on in the background

`MCBackground` puts eight modules under one configuration.  They share no state, so their
product would only multiply: a behaviour follows one of them, named by `focus`, and the
others stay in one fixed initial state in which nothing fair is enabled.  What is checked of
each module is therefore exactly what a run of its own would check.

* **`MeetingClerk`**, the AI clerk of one channel.  `StartClerk` and `StopClerk` are the routes
  up to their awaits; a *chain* is the part of `stopClerk` that goes on after the answer, one
  action per await (`SessionCloses`, `Summarized`, `Rendered`, `Uploaded`).  `payload` is the
  Map of mails to be decided, `sending` the sends whose mails are out and whose mark is not
  made.  A stop may come from several pages, since any of them shows the note active.
  - `WorkHasAWorker`: a note that says it is being worked on has a chain, or a restart took it.
  - `MailIsTheSummaryOnce`: a mail carries the summary the note shows, and goes out again only
    between a send and its mark, or after a restart between them.  Two chains of one note are
    excepted, and do break it: that is the hazard at `meeting-clerk.ts:679`.
  - `TranscriptLostToOrphan`: phrases are lost only to a chain that held no session.
* **`ClerkRoster`**, who was in the call: the polls of the LiveKit room, the set in memory, the
  list in the row.  `AttendeesAreComplete`: nobody who was listed is missing from the
  attendees, unless the set was dropped with a poll in flight.  A poll that LiveKit refuses
  counts as one that found nobody (`PollFails`, `livekit.ts:124-138`), and writes the list all
  the same.
* **`CrelatePoller`**: the seed pass, the three-minute passes, the two caches, the notice.  A
  slot is one call of `pollOnce`; the timer starts another whether or not one is at work.
  - `EachToldOnce`: nothing is told twice, because a placement is found and cached in one
    transaction; and what was signed after the seed is told, unless the process stops between
    caching and notice.  `PlacementsAreTold` is the same as liveness.
  - `SeedIsSilent`: of what a seed pass is the first to see (`seeded`), nothing is told.  The
    comments say so, and the code does not; `SeedAnnounces` refutes it.  The two properties above
    claim nothing of these placements, so they hold of the code as it is and of one that does
    what the comments say.
* **`Recording`**: the routes, LiveKit's egress and its webhook, each of which may come first.
  `RecordingInHand`: the channel records twice only after two starts overlapped, and an egress
  that runs can be stopped unless a named cause stands against it.  The catch of the start
  (`recording.ts:69-78`) takes two things for one: LiveKit did not begin (`RecordingRefused`), or
  began, and its answer was lost (`AnswerLost`).  The second leaves an egress that no row names:
  the start is then `adrift`, as one that a restart cut off.  `ProcessingEnds`: a
  stopped recording gets its file or fails.
* **`RosterSync`**: syncs in flight together, each applying the roster of the moment it asked.
  `RosterSettles`: once bulldog-auth changes no more, the active users are those of auth,
  whatever false or overtaken answers came before.  It rests on `SUITE_INTERNAL_SECRET` being
  set: without it the cookieless timer asks for nothing (`users-sync.ts:14-17`,
  `index.ts:181-184`), and only an admin's visit would bring the roster.
* **`Announcer`**: `NotesAreToldOnce`, over deploys, rollbacks and crashes between two e-mails:
  the marker passes a note when everybody the boot listed was told, and nobody hears of it
  again but where an announcement was cut short.
* **`ScorecardLedger`**: `LedgerAddsUp`, the aggregates against the placements they are made of
  and the two halves of a split against each other, over every route that writes either.
* **`UnreadBadge`**: the counts of one company and what the rail makes of them.
  `StaleBadgeHasACause` names what can make it wrong; `BadgeSettles` says it does not stay so.

The bounds, all of them in `Background.cfg`, are the least at which each case happens: two
notes (the next one is blocked by one at work), two stops (two chains), two mails (a repeat),
one phrase and one restart; two people of whom one is a member, two polls (one may be late),
two hang-ups; two placements, one change of the jobs, two passes (an overlap), one stop, one
refusal; two recordings (rivals), one restart; two e-mail addresses, two syncs, two changes;
two readers, two notes, four boots (first run, deploy, cut, repeat); two recruiters, two
months, fee 3 (odd, so that the halves of a split differ), three credits, batches of two, one
aggregate written by hand; two arrivals, two refetches, one read, one lost answer.

Fairness is stated per part.  `PollerFairness`: the interval fires, a request ends well or
badly, a pass goes on.  `SyncFairness`: the same of the five-minute timer and of answers.
`BadgeFairness`: the page's safety-net timer, and requests that end.  `RecordingFairness`:
LiveKit calls the webhook unless the call is lost.  All of these are timers set with
`setInterval` or I/O that Node and the browser bring to an end; no user acts.  Deadlock is not
checked, since all there was to do may be done.

### Proofs

`MeetingClerkProofs` is about the clerk and its roster:

* `WorkIsInHand` (`WorkHasAWorker`), from the shape of the state.
* `TranscriptIsLostToOrphans` (`TranscriptLostToOrphan`).  `TextInv` says where the phrases of a
  note can be: while the session is there, or a chain is closing it, it has heard all that is
  written (`HeardAll`); after that the chain that closed it knows all of it (`OwnKnowsAll`).  So
  only a chain that never held the session can write less than the row has.
* `MailsTheSummaryOnce` (`MailIsTheSummaryOnce`).  `NoteMail` is stated of one note; each of the
  clerk's steps does one of seven things to it (`Calm`, `Joined`, `Moved`, `Done`, `Mails`,
  `Settles`, `CutOff`), and each of the seven keeps it.  While a note is stopped once it has one
  chain, and a summary that can be mailed has none left.
* `ClerkTypeCorrect` (`ClerkTypeOK`).  The guards bound *sums* over the notes (stops, stops that
  are asked for, mails), so the bound of one note's counter needs facts about sums of any
  length.  They are proved without the library's induction theorems, by a least counterexample:
  a set of numbers that is not empty has a least element (`LeastExists`, since < is well
  founded), a recursive sum exists up to every bound (`UpTo`, `SumsExist`), and one more at
  one note is one more in the sum (`SumOneMore`).
* `NobodyIsMissing` (`AttendeesAreComplete`).  `RosterInv`: the set in memory has everybody
  listed as long as an answer can still come, and the row's list has them always, unless the set
  was dropped under a poll.

`BackgroundProofs` is about the others:

* `PollerTypeCorrect` (`PollerTypeOK`) and `PlacementsToldOnce` (`EachToldOnce`) for every number
  of placements, passes, refusals and stops.  The heart of `PollerInv` is `Assured`: no two
  passes have the same placement to announce (`Apart`), and what a pass has to announce has not
  been told, unless its push is the one under way (`TodoIsUntold`, `PushingIsTold`).
* `RecordingTypeCorrect` and `RecordingIsInHand` (`RecordingInHand`).  A start that waits counts
  as a recording (`RivalsOnly`), one that is adrift will never have a row that records,
  and a stop that LiveKit has answered left no egress behind, or did not stop it
  (`AskedIsOver`).
* `NotesToldOnce` (`NotesAreToldOnce`).  `AnnouncerInv` counts: of a note ahead of the marker a
  reader has at most one mail for each run that was cut short, and one more only if the run that
  goes on has reached them.
* `BadgeIsExplained` (`StaleBadgeHasACause`).  `OldAnswers`: an answer that waits and does not
  say what the server counts is out of date for a cause, or a later one corrects it.
* `LedgerIsExplained` (`LedgerAddsUp`), for every set of recruiters and months, every fee and
  every bound.  `Paired` says of a table that the rows of a split are exactly two that agree;
  a batch is a sequence of tables, and `Sound` holds of each of them (again by a least
  counterexample, `LoggedIsSound`), so no number is used twice and no pair is broken.  A
  reconciliation sets the aggregates it is about to the sums of their rows; the others keep
  both rows and aggregate, so their sums stay what they were (`SumsAreOfRows`).
* `LedgerTypeCorrect`, `AnnouncerTypeCorrect`, `BadgeTypeCorrect`, and the types of the roster
  sync.  `BackgroundIsEight`: a behaviour of `MCBackground` is a behaviour of each of its eight
  modules, so all of the above holds of it; `BackgroundIsTyped` (`BackgroundTypeOK`) follows.

Assumed are the modules' own assumptions and no more.  They say that bounds are numbers, that
model values which stand for "none" are no elements of the sets they are added to, and for the
scorecard that recruiters and months are finitely many.

## The pages of one user

`MCHome` does the same for five modules of the browser side.  They are checked for safety
only: the code gives no guarantee that a stream comes back or that a person does anything.
What the code *does* promise is that nothing is wrong without a cause, so each module names
its causes in history variables, and a property says that the screen is right, about to be
right, or one of the named causes has occurred and nothing has made up for it.

* **`ChannelPage`**: one channel (or direct conversation) and a reader's page: the event stream
  with its breaks, the query cache, the read receipt.  `fetch` is the request under way,
  `page` what the cache holds, `fresh` whether an event has invalidated it.
  `Invalidate` is TanStack Query's `invalidateQueries`, version 5: an open channel's fetch is
  cancelled and repeated, *unless it is the first* (`loaded` is false): then the fetch goes on,
  and its success makes what it brings count as fresh.  A channel opened while its query is
  being fetched waits for that answer (`Opens`), and a query nobody has used for minutes is
  dropped (`Forget`), after which its next load is a first one again.
  - `StaleViewHasACause`: the open channel shows what there is, or an event or answer was
    `lost`, or an event came after the answer to a load that it did not cancel (`outrun`):
    during a first load, or while the channel was off the screen.  A message posted just then
    stays missing until the next event or refetch.  A stream the browser reopens by itself
    refetches nothing.
  - `UnreadOnScreenHasACause`: what is on the screen is read, or its event or request was lost,
    or Home opened the channel by itself (`owed`).
* **`Presence`**: the tabs of one user, their reports in flight, and the beacon of a page that
  goes.  `PresenceHasACause`: the user is what an open tab has picked, or away while that tab is
  `idle`, or a report was lost, overtaken, or followed by another tab's (`unsaid`).  Away is
  allowed there, not promised.  `IdleGoesAway` promises it, in the words of
  `use-presence.tsx:7-9`, and the run `PresenceIdle` refutes it.
* **`CallMedia`**: one device of a call.  `DevicesFollowSwitches`: once nothing is under way the
  room has what the switch says, unless something changed under an operation (`hasty`).
* **`WidgetChat`**: the one list of the embedded chat.  `ListHasACause`: it is the selected
  conversation unless something was `missed` or requests `tangled`.  `HistoryIsReachable`:
  all of the history and nothing else can be scrolled to, unless requests overlapped.
* **`WidgetCalls`**: the banner and the call screen against the rows.
  `CallScreensHaveACause`: what is over leaves them, what is on stays on them.

The bounds of `Home.cfg`: two messages and two changes, two reads, one failure; two tabs,
three reports (one overtakes two), one dropped; three flips, two renderings, three operations,
two troubles; two conversations, of which one has more than a page of history, one event in
each, two loads (the least that overlap), one mishap, three moves; two calls that ring and one that is
placed, two at once, two slips.

### Proofs

`ChannelPageProofs` proves `PageTypeCorrect`, `ViewIsCurrent` (`StaleViewHasACause`) and
`ScreenIsRead` (`UnreadOnScreenHasACause`) for every number of messages, changes, requests and
failures.  The view is inductive with two facts more:
what the cache calls fresh is current although it is not on the screen (`FreshIsNow`), and
an answer on its way is current unless an event comes after it or has outrun it
(`AnswerIsNow`).

`HomeProofs` proves the other four modules, and what they are together:

* `PresenceIsExplained` (`PresenceHasACause`).  `Said`: the last word on its way is the pick of
  the tab (`LastWord`), or the server has it and whatever else is on its way is late
  (`Arrived`), or the tab is in `unsaid`.  Pages that are gone count too, since one may come back from the browser's cache.
* `DevicesFollow` (`DevicesFollowSwitches`).  `Sole`: an operation that has had the device for
  itself is the only one and does what the switch says; `Calm`: as long as nothing is `hasty`,
  every operation is such a one, or the mute button waits; `Kept`: a camera that is on is held.
* `ListIsExplained` and `HistoryIsWhole` (`ListHasACause`, `HistoryIsReachable`).  `Alone`: a
  request that nothing has overlapped is the only one and brings what is to be shown;
  `Untangled`: the list is of the conversation it is to be of, and the older page is asked for
  from where the list ends.
* `ScreensAreExplained` (`CallScreensHaveACause`).  Events were true when they were sent and a
  call's end comes after its ring (`MailTells`); how far a request has come shows in the row
  (`AsksTell`); so whatever an answer will show has its end on the stream (`EndsReach`), and a
  call that is on and on no screen has an answer coming that shows it (`InSight`).
* `HomeIsFive`: a behaviour of `MCHome` is a behaviour of each of the five; `HomeIsTyped`
  (`HomeTypeOK`) follows.

## Findings and known divergences

Five runs refute what a comment of the code says; `PROJECT.json` quotes the lines.

* `DirectCallOvertaken`: `call:accepted` overtakes the answer to calls/start, and the caller
  stays on the calling screen (`CallContext.tsx:416`, against `:479-480`).
* `LobbyTokenTwice`: two polls that meet at the await of the mint both get a token
  (`routes-meetings.ts:657`, against "One-shot" at `:655`).
* `ScheduledInvitedTwice`: a slow first pass and a retry invite the same people
  (`scheduled-calls.ts:574`).
* `SeedAnnounces`: a first start without a cache, or one after an outage, announces every
  placement it is the first to see (`crelate-poller.ts:377`), which the comments at `:376`, `:498`
  and `:601` say the seed pass does not.
* `PresenceIdle`: an idle user is shown away for a moment only, because the effect that depends
  on `auto` calls `bump` (`use-presence.tsx:76`, against `:7-9`).

Others met while modelling.  They are in the models, mostly as one of the named causes, and
have no run of their own.

* Calls: a restart leaves rows ringing (`routes.ts:3533`); a tab closed in a call leaves its row
  active (`CallContext.tsx:628`); a token failure at the start leaves a ringing row without a
  timer.
* Waiting room: the admit is consumed when the token is minted (`routes-meetings.ts:661`); a
  guest whose answer is lost polls on for ever.  A join without a session passes the waiting room
  by (`:603-609`); the comment above that route asks only that the meeting allows guests
  (`:527-528`).
* Scheduled calls: phone-only invitees hear nothing when a member joins early (`scheduled-calls.ts:1313`).
* Clerk: `awaiting_recipients` counts as active (`meeting-clerk.ts:143`), so a summary nobody
  decides about blocks the next one; the poll interval of a start that fails is never cleared
  (`:163`); a mail SendGrid refuses is marked as sent (`:509`).
* Channel page: what is posted between the server's read and the answer of a channel's first load
  may stay missing (`StaleViewHasACause`).  Recording: a start whose answer is lost leaves an
  egress no row names (`recording.ts:69-78`).
* Presence: a failed report is not sent again
  when the tab comes back (`:54-57`, `:101-107`).
* Unread: nothing dispatches `unread:missed-call` (`use-unread.tsx:15`).
* Scorecard: an aggregate from before placements were kept, with no note, is overwritten or
  deleted by the first reconciliation of its month (`routes.ts:1555`, against the comment that follows it); writing an
  aggregate by hand overwrites sums that `:1265` says never drift.
* Media: a microphone muted while it is being turned on stays live; a rendering during the
  mute can publish it again; a camera muted without its ref cannot be turned on.
* Widget: answers of loads are not asked which conversation they are of; a send reloads the
  conversation it was sent to, whichever is selected; older pages are put before a list that has
  been reloaded; the banner stays when the call is
  answered on another device; a join by address is refused unless the call still rings, although
  `BulldogChatWidget.tsx:261-263` expects a token of a call that was accepted already.

## What is only model-checked

Liveness (out of the prover's reach): `RingingResolves`, `ModalClosesWhenOver`, `WaitingEnds`,
 `InviteesAreSettled`, `CallsEnd`, `PlacementsAreTold`, `ProcessingEnds`,
`RosterSettles`, `BadgeSettles`.

Every safety property that a passing run checks, invariant or action property, is proved as
well.  The five properties that runs refute are in *Findings*.  What a proof does not show is
that the bounds in the guards are the only ones: a theorem is about every value of the bounds,
and each module still has them.

## What is not modelled, and why

The map covers between seven and eight per cent of the lines.  Most of the rest is not
protocol: markup and styling of pages, CRUD routes that are one synchronous SQL statement,
formatting of mails, SMS and PDFs, parsing, schema and seeds.  The parts by name:

* *Event access*: pure functions over the tenant tables.  On the stream they see a snapshot
  taken when it was opened (`routes.ts:4460`), which is old until the next connection.
* *Phone dial-out and SIP*, *SMS and e-mail providers*, *push*, *Synology backup*, *Teams
  bridge*, *suite integrations*: one or two awaited HTTP calls that leave nothing behind, or a
  status column whose last writer wins and that no modelled handler reads.
* *Bogey assistant chat*: a turn awaits the model and appends; a proposal is checked and decided
  in one synchronous handler.
* *Authentication*: stateless token checks.
* *Short links*, *scorecard e-mails*, *attachments*, *schema, migrations and seeds*: lookups,
  formatting, file I/O, data definition.
* *User interface*, *mobile shell*: rendering.

Left out of the modelled parts: threads, attachments, mentions and the sender's optimistic
insert; participants' lists; `.ics` files, cards in channels and the organizer's confirmation; the
iOS path and virtual backgrounds of a call; the widget's list of conversations, its unread count
shared by tabs, its sign-in and its job bus; the wording of everything.
