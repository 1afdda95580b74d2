----------------------------- MODULE DirectCall -----------------------------
(***************************************************************************)
(* Ringing calls, end to end: the Express handlers of server/routes.ts     *)
(* that own the direct_calls rows, the SSE fan-out of server/events.ts and *)
(* the call state every browser tab keeps (client CallContext.tsx).        *)
(*                                                                         *)
(* The server is one event loop: a handler is atomic between its awaits,   *)
(* so a handler that awaits a LiveKit token is two actions.  A request     *)
(* travels through the stages "sent" (on its way), "await" (the handler is *)
(* suspended), "loop" (back at the head of the invitee loop) and "done"    *)
(* (the answer is on its way back).  Requests of a tab are independent of  *)
(* each other and of its SSE stream, so they may overtake one another; the *)
(* events of one stream arrive in order.                                   *)
(***************************************************************************)
EXTENDS Naturals, Sequences, FiniteSets

CONSTANTS
    Users,       \* the chat users of one organisation
    Tabs,        \* open browser tabs
    Owner,       \* Owner[t] is the user signed in on tab t
    Calls,       \* the ids the direct_calls table can hand out
    None,        \* no call on this screen slot
    Group,       \* the callId 0 a tab uses for a group session
    Ways,        \* ways into a call: subset of {"start", "group", "invite", "join"}
    FaultKinds,  \* subset of {"drop", "fail", "reload", "restart"}
    Starters,    \* the tabs from which somebody starts or joins calls
    MaxPending,  \* a tab with so many requests in flight waits before clicking
    MaxFaults    \* how many faults a behaviour may contain

ASSUME CallAssumption ==
    /\ Owner \in [Tabs -> Users]
    /\ None \notin Calls /\ None \notin Tabs /\ None \notin Users
    /\ Group \notin Calls /\ Group # None
    /\ Ways \subseteq {"start", "group", "invite", "join"}
    /\ FaultKinds \subseteq {"drop", "fail", "reload", "restart"}
    /\ Starters \subseteq Tabs
    /\ MaxFaults \in Nat /\ MaxPending \in Nat

VARIABLES
    status,      \* [Calls -> CallLedger status]: direct_calls.status
    caller,      \* direct_calls.caller_id
    callee,      \* direct_calls.callee_id
    timer,       \* the calls whose auto-miss setTimeout is armed
    reqs,        \* HTTP requests between a tab and its answer
    stream,      \* per tab, the SSE events written and not yet handled
    connected,   \* the tabs whose EventSource is in the subscriber set
    incoming,    \* per tab, the call of the ringing modal
    outgoing,    \* per tab, the call of the "calling" modal
    active,      \* per tab, the call (or Group) of the call overlay
    blind,       \* history: pairs <<t, c>> where call:ended for c was lost to
                 \* t, or reached t while t still awaited an answer about c
    faults,      \* faults so far
    untimed      \* history: rings whose timer a restart took

db     == <<status, caller, callee>>
screen == <<incoming, outgoing, active>>
mishaps == <<faults, untimed>>
vars   == <<status, caller, callee, timer, reqs, stream, connected,
            incoming, outgoing, active, blind, faults, untimed>>

-----------------------------------------------------------------------------
(* Requests and events *)

Terminal == {"declined", "missed", "ended"}
Live     == {"ringing", "active"}
Ops      == {"start", "group", "invite", "join",
             "accept", "decline", "end", "get"}

\* todo holds the ringing rows a request still has to create, as pairs
\* <<call id, callee>>; call is the row the handler is working on.
Request(t, op, c, todo) ==
    [op |-> op, tab |-> t, user |-> Owner[t], call |-> c, todo |-> todo,
     stage |-> "sent", ok |-> FALSE]

RequestType ==
    [op : Ops, tab : Tabs \union {None}, user : Users,
     call : Calls \union {None}, todo : SUBSET (Calls \X Users),
     stage : {"sent", "loop", "await", "done"}, ok : BOOLEAN]

Event == [type : {"incoming", "accepted", "ended"}, call : Calls]

Replace(r, s) == reqs' = (reqs \ {r}) \union {s}

\* The answer to r leaves the server.  It stays on its way only if it changes
\* the screen of a page that still listens: clients ignore the answers to
\* decline, end and invite, and every error but that of accept.
Heard(r, ok) == r.tab # None /\ r.op \notin {"decline", "end", "invite"}
                /\ (ok \/ r.op = "accept")
Answer(r, ok) ==
    reqs' = (reqs \ {r}) \union
            (IF Heard(r, ok) THEN {[r EXCEPT !.stage = "done", !.ok = ok]} ELSE {})

\* emitToUser: written to every subscribed tab of the users, lost to the others.
EmitTo(users, type, c) ==
    /\ stream' = [t \in Tabs |->
                    IF t \in connected /\ Owner[t] \in users
                    THEN Append(stream[t], [type |-> type, call |-> c])
                    ELSE stream[t]]
    /\ blind' = IF type = "ended"
                THEN blind \union {<<t, c>> : t \in {u \in Tabs \ connected :
                                                       Owner[u] \in users}}
                ELSE blind

\* Mutant of Parties: only the caller is told.
CallerOnly(c) == {caller[c]}

Parties(c) == {caller[c], callee[c]}

Claimed == UNION {{p[1] : p \in r.todo} : r \in reqs}
Unused  == {c \in Calls : status[c] = "none"} \ Claimed

Init ==
    /\ status = [c \in Calls |-> "none"]
    /\ caller = [c \in Calls |-> None]
    /\ callee = [c \in Calls |-> None]
    /\ timer = {}
    /\ reqs = {}
    /\ stream = [t \in Tabs |-> <<>>]
    /\ connected = Tabs
    /\ incoming = [t \in Tabs |-> None]
    /\ outgoing = [t \in Tabs |-> None]
    /\ active = [t \in Tabs |-> None]
    /\ blind = {}
    /\ faults = 0 /\ untimed = {}

-----------------------------------------------------------------------------
(* Clicks.  A tab changes its own screen and sends at most one request. *)

\* MaxPending bounds what one tab may have in flight when its user clicks.
MayClick(t) == Cardinality({r \in reqs : r.tab = t}) < MaxPending

Send(t, op, c, todo) == reqs' = reqs \union {Request(t, op, c, todo)}

Idle(t) == outgoing[t] = None /\ active[t] = None

Others(t) == Users \ {Owner[t]}

StartCall(t) ==
    /\ "start" \in Ways /\ t \in Starters /\ Idle(t)
    /\ \E c \in Unused, u \in Others(t) : Send(t, "start", None, {<<c, u>>})
    /\ UNCHANGED <<db, timer, stream, connected, screen, blind, mishaps>>

\* One fresh row id per invitee; nobody is invited twice by one request.
Invitations(t) ==
    {I \in SUBSET (Unused \X Others(t)) :
        \A p, q \in I : p # q => p[1] # q[1] /\ p[2] # q[2]}

StartGroupCall(t) ==
    /\ "group" \in Ways /\ t \in Starters /\ Idle(t)
    /\ \E I \in Invitations(t) : Send(t, "group", None, I)
    /\ UNCHANGED <<db, timer, stream, connected, screen, blind, mishaps>>

InviteToActiveCall(t) ==
    /\ "invite" \in Ways /\ t \in Starters /\ active[t] # None
    /\ \E I \in Invitations(t) \ {{}} : Send(t, "invite", None, I)
    /\ UNCHANGED <<db, timer, stream, connected, screen, blind, mishaps>>

JoinChannelCall(t) ==
    /\ "join" \in Ways /\ t \in Starters /\ Idle(t)
    /\ Send(t, "join", None, {})
    /\ UNCHANGED <<db, timer, stream, connected, screen, blind, mishaps>>

AcceptIncoming(t) ==
    /\ incoming[t] # None
    /\ Send(t, "accept", incoming[t], {})
    /\ UNCHANGED <<db, timer, stream, connected, screen, blind, mishaps>>

DeclineIncoming(t) ==
    /\ incoming[t] # None
    /\ incoming' = [incoming EXCEPT ![t] = None]
    /\ Send(t, "decline", incoming[t], {})
    /\ UNCHANGED <<db, timer, stream, connected, outgoing, active, blind, mishaps>>

CancelOutgoing(t) ==
    /\ outgoing[t] # None
    /\ outgoing' = [outgoing EXCEPT ![t] = None]
    /\ Send(t, "end", outgoing[t], {})
    /\ UNCHANGED <<db, timer, stream, connected, incoming, active, blind, mishaps>>

\* A group session has no row of its own: hanging up is local to the tab.
EndActive(t) ==
    /\ active[t] # None
    /\ active' = [active EXCEPT ![t] = None]
    /\ IF active[t] = Group THEN UNCHANGED reqs
                            ELSE Send(t, "end", active[t], {})
    /\ UNCHANGED <<db, timer, stream, connected, incoming, outgoing, blind, mishaps>>

Click(t) == /\ MayClick(t)
            /\ \/ StartCall(t) \/ StartGroupCall(t) \/ InviteToActiveCall(t)
               \/ JoinChannelCall(t) \/ AcceptIncoming(t) \/ DeclineIncoming(t)
               \/ CancelOutgoing(t) \/ EndActive(t)

-----------------------------------------------------------------------------
(* Server handlers *)

SetStatus(c, s) == status' = [status EXCEPT ![c] = s]

\* The row is written as "ringing" before the handler awaits; nobody else
\* knows its id yet.
CreateRow(r) ==
    /\ r.stage \in {"sent", "loop"}
    /\ \E p \in r.todo :
          /\ status[p[1]] = "none"
          /\ SetStatus(p[1], "ringing")
          /\ caller' = [caller EXCEPT ![p[1]] = r.user]
          /\ callee' = [callee EXCEPT ![p[1]] = p[2]]
          /\ Replace(r, [r EXCEPT !.stage = "await", !.call = p[1],
                                  !.todo = @ \ {p}])
    /\ UNCHANGED <<timer, stream, connected, screen, blind, mishaps>>

\* Mutant of Announce: the auto-miss timer is forgotten.
AnnounceUntimed(r) ==
    /\ r.op \in {"start", "group", "invite"} /\ r.stage = "await"
    /\ EmitTo({callee[r.call]}, "incoming", r.call)
    /\ IF r.op = "start"
       THEN Answer(r, TRUE)
       ELSE Replace(r, [r EXCEPT !.stage = "loop", !.call = None])
    /\ UNCHANGED <<db, timer, connected, screen, mishaps>>

\* After the await: ring the callee's tabs and arm the auto-miss timer.  A
\* 1:1 call answers with its id; a group call goes on to the next invitee.
Announce(r) ==
    /\ r.op \in {"start", "group", "invite"} /\ r.stage = "await"
    /\ EmitTo({callee[r.call]}, "incoming", r.call)
    /\ timer' = timer \union {r.call}
    /\ IF r.op = "start"
       THEN Answer(r, TRUE)
       ELSE Replace(r, [r EXCEPT !.stage = "loop", !.call = None])
    /\ UNCHANGED <<db, connected, screen, mishaps>>

FinishGroup(r) ==
    /\ r.op \in {"group", "invite", "join"} /\ r.stage \in {"sent", "loop"}
    /\ r.todo = {}
    /\ Answer(r, TRUE)
    /\ UNCHANGED <<db, timer, stream, connected, screen, blind, mishaps>>

AcceptRefused(r) ==
    /\ r.op = "accept" /\ r.stage = "sent"
    /\ callee[r.call] # r.user \/ status[r.call] # "ringing"
    /\ Answer(r, FALSE)
    /\ UNCHANGED <<db, timer, stream, connected, screen, blind, mishaps>>

\* Mutant of AcceptCall: a second device of the callee is let in as well.
AcceptAgain(r) ==
    /\ r.op = "accept" /\ r.stage = "sent"
    /\ callee[r.call] = r.user /\ status[r.call] \in Live
    /\ SetStatus(r.call, "active")
    /\ Replace(r, [r EXCEPT !.stage = "await"])
    /\ UNCHANGED <<caller, callee, timer, stream, connected, screen, blind, mishaps>>

AcceptCall(r) ==
    /\ r.op = "accept" /\ r.stage = "sent"
    /\ callee[r.call] = r.user /\ status[r.call] = "ringing"
    /\ SetStatus(r.call, "active")
    /\ Replace(r, [r EXCEPT !.stage = "await"])
    /\ UNCHANGED <<caller, callee, timer, stream, connected, screen, blind, mishaps>>

\* The token is there: tell both sides, whatever happened to the row meanwhile.
AnnounceAccept(r) ==
    /\ r.op = "accept" /\ r.stage = "await"
    /\ EmitTo(Parties(r.call), "accepted", r.call)
    /\ Answer(r, TRUE)
    /\ UNCHANGED <<db, timer, connected, screen, mishaps>>

\* POST /end on a settled row only answers.
EndAgain(r) ==
    /\ r.op \in {"decline", "end"} /\ r.stage = "sent"
    /\ status[r.call] \in Terminal
    /\ Answer(r, TRUE)
    /\ UNCHANGED <<db, timer, stream, connected, screen, blind, mishaps>>

EndCall(r) ==
    /\ r.op \in {"decline", "end"} /\ r.stage = "sent"
    /\ r.user \in Parties(r.call) /\ status[r.call] \in Live
    /\ SetStatus(r.call, IF r.op = "decline" /\ status[r.call] = "ringing"
                         THEN "declined" ELSE "ended")
    /\ EmitTo(Parties(r.call), "ended", r.call)
    /\ Answer(r, TRUE)
    /\ UNCHANGED <<caller, callee, timer, connected, screen, mishaps>>

\* GET /api/calls/:id decides on the status before it awaits the token.
GetCall(r) ==
    /\ r.op = "get" /\ r.stage = "sent"
    /\ IF status[r.call] \in Live
       THEN Replace(r, [r EXCEPT !.stage = "await"])
       ELSE Answer(r, FALSE)
    /\ UNCHANGED <<db, timer, stream, connected, screen, blind, mishaps>>

AnswerGet(r) ==
    /\ r.op = "get" /\ r.stage = "await"
    /\ Answer(r, TRUE)
    /\ UNCHANGED <<db, timer, stream, connected, screen, blind, mishaps>>

Handle(r) == \/ CreateRow(r) \/ Announce(r) \/ FinishGroup(r)
             \/ AcceptRefused(r) \/ AcceptCall(r) \/ AnnounceAccept(r)
             \/ EndAgain(r) \/ EndCall(r) \/ GetCall(r) \/ AnswerGet(r)

\* Mutant of AutoMiss: the timer does not look at the row again.
AutoMissBlindly(c) ==
    /\ c \in timer
    /\ timer' = timer \ {c}
    /\ SetStatus(c, "missed") /\ EmitTo(Parties(c), "ended", c)
    /\ UNCHANGED <<caller, callee, reqs, connected, screen, mishaps>>

\* The setTimeout of a ringing row fires.
AutoMiss(c) ==
    /\ c \in timer
    /\ timer' = timer \ {c}
    /\ IF status[c] = "ringing"
       THEN SetStatus(c, "missed") /\ EmitTo(Parties(c), "ended", c)
       ELSE UNCHANGED <<status, stream, blind>>
    /\ UNCHANGED <<caller, callee, reqs, connected, screen, mishaps>>

-----------------------------------------------------------------------------
(* What arrives at a tab: answers to its requests, and its SSE stream *)

Arrives(r) == r.stage = "done" /\ reqs' = reqs \ {r}

ShowOutgoing(r) ==
    /\ Arrives(r) /\ r.op = "start"
    /\ outgoing' = [outgoing EXCEPT ![r.tab] = r.call]
    /\ UNCHANGED <<db, timer, stream, connected, incoming, active, blind, mishaps>>

\* A group call may be started for its link only (skipAutoJoin).
ShowGroup(r) ==
    /\ Arrives(r) /\ r.op \in {"group", "join"}
    /\ \/ active' = [active EXCEPT ![r.tab] = Group]
       \/ r.op = "group" /\ UNCHANGED active
    /\ UNCHANGED <<db, timer, stream, connected, incoming, outgoing, blind, mishaps>>

\* acceptIncoming: either way the ringing modal is cleared, whatever it shows.
EnterAccepted(r) ==
    /\ Arrives(r) /\ r.op = "accept"
    /\ incoming' = [incoming EXCEPT ![r.tab] = None]
    /\ active' = IF r.ok THEN [active EXCEPT ![r.tab] = r.call] ELSE active
    /\ UNCHANGED <<db, timer, stream, connected, outgoing, blind, mishaps>>

EnterAsCaller(r) ==
    /\ Arrives(r) /\ r.op = "get"
    /\ outgoing' = [outgoing EXCEPT ![r.tab] = None]
    /\ active' = [active EXCEPT ![r.tab] = r.call]
    /\ UNCHANGED <<db, timer, stream, connected, incoming, blind, mishaps>>

Reply(r) == \/ ShowOutgoing(r) \/ ShowGroup(r)
            \/ EnterAccepted(r) \/ EnterAsCaller(r)

Pop(t, type) == /\ stream[t] # <<>> /\ Head(stream[t]).type = type
                /\ stream' = [stream EXCEPT ![t] = Tail(@)]

\* A tab already in a call declines on its own; otherwise the modal shows the
\* newest ringing call, replacing the one it showed.
OnIncoming(t) ==
    /\ Pop(t, "incoming")
    /\ LET c == Head(stream[t]).call IN
       IF active[t] # None
       THEN Send(t, "decline", c, {}) /\ UNCHANGED incoming
       ELSE incoming' = [incoming EXCEPT ![t] = c] /\ UNCHANGED reqs
    /\ UNCHANGED <<db, timer, connected, outgoing, active, blind, mishaps>>

OnAccepted(t) ==
    /\ Pop(t, "accepted")
    /\ LET c == Head(stream[t]).call IN
       IF outgoing[t] = c THEN Send(t, "get", c, {}) ELSE UNCHANGED reqs
    /\ UNCHANGED <<db, timer, connected, screen, blind, mishaps>>

Clear(slot, t, c) == IF slot[t] = c THEN [slot EXCEPT ![t] = None] ELSE slot

\* The answers that can still put call c on the screen of tab t.
Pending(t, c) ==
    {r \in reqs : r.tab = t /\ r.call = c /\ r.op \in {"start", "accept", "get"}}

OnEnded(t) ==
    /\ Pop(t, "ended")
    /\ LET c == Head(stream[t]).call IN
       /\ incoming' = Clear(incoming, t, c)
       /\ outgoing' = Clear(outgoing, t, c)
       /\ active'   = Clear(active, t, c)
       /\ blind' = IF Pending(t, c) = {} THEN blind ELSE blind \union {<<t, c>>}
    /\ UNCHANGED <<db, timer, reqs, connected, mishaps>>

Deliver(t) == OnIncoming(t) \/ OnAccepted(t) \/ OnEnded(t)

-----------------------------------------------------------------------------
(* Faults, at most MaxFaults of the kinds in FaultKinds *)

Fault(kind) == /\ kind \in FaultKinds /\ faults < MaxFaults
               /\ faults' = faults + 1

EndedIn(t) == {stream[t][i].call : i \in {j \in 1..Len(stream[t]) :
                                            stream[t][j].type = "ended"}}

\* The streams of the tabs T break: what was written and not handled is gone.
Cut(T) ==
    /\ stream' = [t \in Tabs |-> IF t \in T THEN <<>> ELSE stream[t]]
    /\ connected' = connected \ T
    /\ blind' = blind \union UNION {{t} \X EndedIn(t) : t \in T}

StreamDrops(t) ==
    /\ Fault("drop") /\ Cut({t})
    /\ UNCHANGED <<db, timer, reqs, screen, untimed>>

\* EventSource reconnects by itself; the server replays nothing.
Reconnect(t) ==
    /\ t \notin connected
    /\ connected' = connected \union {t}
    /\ UNCHANGED <<db, timer, reqs, stream, screen, blind, mishaps>>

\* A request that never arrives, or an answer that does not.
RequestFails(r) ==
    /\ Fault("fail") /\ r.stage \in {"sent", "done"}
    /\ Answer(r, FALSE)
    /\ UNCHANGED <<db, timer, stream, connected, screen, blind, untimed>>

\* The tab is closed or reloaded: its screen is gone, nothing is posted.
Reload(t) ==
    /\ Fault("reload") /\ Cut({t})
    /\ incoming' = [incoming EXCEPT ![t] = None]
    /\ outgoing' = [outgoing EXCEPT ![t] = None]
    /\ active' = [active EXCEPT ![t] = None]
    /\ reqs' = {IF r.tab = t THEN [r EXCEPT !.tab = None] ELSE r :
                  r \in {q \in reqs : q.tab # t \/ q.stage # "done"}}
    /\ UNCHANGED <<db, timer, untimed>>

\* The process restarts: SQLite survives, timers, handlers and streams do not.
Restart ==
    /\ Fault("restart") /\ Cut(Tabs)
    /\ timer' = {} /\ untimed' = {c \in Calls : status[c] = "ringing"}
    /\ reqs' = {IF r.stage = "done" THEN r
                  ELSE [r EXCEPT !.stage = "done", !.ok = FALSE] :
                  r \in {q \in reqs : q.stage = "done" \/ Heard(q, FALSE)}}
    /\ UNCHANGED <<db, screen>>

-----------------------------------------------------------------------------

Next == \/ \E t \in Tabs : \/ Click(t) \/ Deliver(t)
                           \/ StreamDrops(t) \/ Reconnect(t) \/ Reload(t)
        \/ \E r \in reqs : Handle(r) \/ Reply(r) \/ RequestFails(r)
        \/ \E c \in Calls : AutoMiss(c)
        \/ Restart

Spec == Init /\ [][Next]_vars

-----------------------------------------------------------------------------
(* What the system promises *)

TypeOK ==
    /\ status \in [Calls -> {"none"} \union Live \union Terminal]
    /\ caller \in [Calls -> Users \union {None}]
    /\ callee \in [Calls -> Users \union {None}]
    /\ timer \subseteq Calls
    /\ reqs \subseteq RequestType
    /\ stream \in [Tabs -> Seq(Event)]
    /\ connected \subseteq Tabs
    /\ incoming \in [Tabs -> Calls \union {None}]
    /\ outgoing \in [Tabs -> Calls \union {None}]
    /\ active \in [Tabs -> Calls \union {None, Group}]
    /\ blind \subseteq Tabs \X Calls
    /\ faults \in Nat /\ untimed \subseteq Calls

\* The rows of direct_calls, whatever the handlers, timers, tabs and faults do
\* around them, move only as CallLedger allows: a late accept, a second hang-up
\* or a timer that fires late never reopens or resettles a call.
Ledger == INSTANCE CallLedger
ImplementsLedger == Ledger!Spec

\* Nobody sits in a call that the table calls missed or declined (or that still
\* rings): a tab enters only through an accept the row recorded, and an
\* answered row can end but not be missed.  The accept races the auto-miss
\* timer, the caller's cancel and the callee's other tabs.
InCallOnlyIfAnswered ==
    \A t \in Tabs : active[t] \in Calls => status[active[t]] \in {"active", "ended"}

Granted(c) == {r \in reqs : r.op = "accept" /\ r.call = c
                            /\ (r.stage = "await" \/ (r.stage = "done" /\ r.ok))}

\* Of all the callee's tabs, at most one gets into the call, counting the one
\* whose token is still on its way: accept checks and claims the row before it
\* awaits the token.
OneDeviceAnswers ==
    \A c \in Calls :
       Cardinality(Granted(c))
         + Cardinality({t \in Tabs : active[t] = c /\ Owner[t] = callee[c]}) <= 1

OnScreen(t, c) == c \in {incoming[t], outgoing[t], active[t]}

\* A call that is over stays on a screen only while its call:ended event is
\* still on the way, or because the tab is blind to it: the event was lost to a
\* broken stream, or overtook the answer that put the call on the screen
\* (nothing in the client re-checks the row then).
StaleScreenOnlyIfBlind ==
    \A t \in Tabs, c \in Calls :
       OnScreen(t, c) /\ status[c] \in Terminal
         => c \in EndedIn(t) \/ <<t, c>> \in blind

\* Every ringing row has either its auto-miss timer or the handler that is about to
\* arm it, but those that rang when the process restarted.
RingingIsTimed ==
    \A c \in Calls : status[c] = "ringing" =>
       \/ c \in timer \union untimed
       \/ \E r \in reqs : r.call = c /\ r.stage = "await"
                          /\ r.op \in {"start", "group", "invite"}

-----------------------------------------------------------------------------
(* Progress.  The server's event loop runs every handler and timer that is   *)
(* due, the network answers, and EventSource reconnects; nobody has to click. *)

Concerns(r, op, c) == r.op = op /\ r.call = c

Fairness ==
    /\ \A c \in Calls : WF_vars(AutoMiss(c))
    /\ \A t \in Tabs : WF_vars(Deliver(t)) /\ WF_vars(Reconnect(t))
    /\ \A op \in Ops, c \in Calls \union {None} :
          WF_vars(\E r \in reqs : Concerns(r, op, c) /\ (Handle(r) \/ Reply(r)))

FairSpec == Spec /\ Fairness

\* Every ring stops: answered, declined, cancelled, or missed when the timer
\* armed at the ring fires.  Only a restart may leave one ringing.
RingingResolves ==
    \A c \in Calls : status[c] = "ringing" ~> (status[c] # "ringing" \/ c \in untimed)

\* The callee is not left in the incoming modal of a call that is over, unless its
\* broken stream lost the call:ended event; a refused accept takes it down too.
ModalClosesWhenOver ==
    \A t \in Tabs, c \in Calls :
       (incoming[t] = c /\ status[c] \in Terminal)
          ~> (incoming[t] # c \/ <<t, c>> \in blind)

\* Once the callee has accepted, a caller still on the "calling" screen gets
\* into the call (or the call ends, or the caller leaves that screen).
CallerFollowsAccept ==
    \A t \in Tabs, c \in Calls :
       (outgoing[t] = c /\ status[c] = "active")
          ~> (outgoing[t] # c \/ status[c] # "active")

=============================================================================
