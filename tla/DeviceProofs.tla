----------------------------- MODULE DeviceProofs -----------------------------
(***************************************************************************)
(* What holds of DirectCall for every set of users, tabs and calls and any *)
(* number of faults, beyond DirectCallProofs: that of all the devices of   *)
(* the callee one at most gets into the call, and that a call that is over *)
(* stays on a screen only where its end is on the way or was lost.  The    *)
(* first rests on who is on the other side: only the caller's tabs get in  *)
(* by asking for the call after call:accepted.  The second rests on who    *)
(* hears of a call at all, and when: nobody before its row rings, only its *)
(* parties afterwards, and the end after the ring.                         *)
(***************************************************************************)
EXTENDS DirectCallProofs, FiniteSetTheorems

USE CallAssumption

Written(c) == c \in Calls /\ status[c] # "none"

\* A request is of its tab's user, invites others, and, where it is about a call of
\* the caller's, comes from the caller.
CallersReq(r) ==
    /\ r.tab # None => Owner[r.tab] = r.user
    /\ \A p \in r.todo : p[2] # r.user
    /\ r.op = "start" /\ r.stage \in {"await", "done"} =>
          Written(r.call) /\ caller[r.call] = r.user
    /\ r.op = "get" => Written(r.call) /\ caller[r.call] = r.user

CallersSide ==
    /\ \A c \in Calls : Written(c) => caller[c] # callee[c]
    /\ \A r \in reqs : CallersReq(r)
    /\ \A t \in Tabs : outgoing[t] # None =>
          Written(outgoing[t]) /\ caller[outgoing[t]] = Owner[t]

\* The callee's tabs that are in the call.
Inside(c) == {t \in Tabs : active[t] = c /\ Owner[t] = callee[c]}

\* OneDeviceAnswers without counting.
LoneDevice ==
    \A c \in Calls :
       /\ \A r, s \in Granted(c) : r = s
       /\ \A t, u \in Inside(c) : t = u
       /\ Granted(c) = {} \/ Inside(c) = {}

\* The inductive invariant.
DeviceInv == IInv /\ CallersSide /\ LoneDevice

-----------------------------------------------------------------------------
(* The parties of a row that is written stay *)

\* The rows that are written keep their parties.
PartiesStay ==
    \A c \in Calls : Written(c) =>
       Written(c)' /\ caller'[c] = caller[c] /\ callee'[c] = callee[c]

\* A row that is written keeps its caller and its callee.
LEMMA RowsKeepTheirParties ==
    ASSUME IInv, [Next]_vars
    PROVE  PartiesStay
<1>1. ASSUME NEW c \in Calls, Written(c)
      PROVE  Written(c)'
  BY <1>1, StatusMoves DEF IInv, TypeOK, Written, Ledger!Next, Ledger!Ring, Ledger!Answer,
     Ledger!Decline, Ledger!Miss, Ledger!HangUp, Ledger!Move
<1>2. ASSUME NEW c \in Calls, Written(c)
      PROVE  caller'[c] = caller[c] /\ callee'[c] = callee[c]
  <2>1. ASSUME NEW r \in reqs, CreateRow(r)
        PROVE  caller'[c] = caller[c] /\ callee'[c] = callee[c]
    BY <1>2, <2>1 DEF CreateRow, Written, IInv, TypeOK
  <2>2. ASSUME UNCHANGED <<caller, callee>>
        PROVE  caller'[c] = caller[c] /\ callee'[c] = callee[c]
    BY <2>2
  <2>3. ASSUME NEW t \in Tabs,
               Click(t) \/ Deliver(t) \/ StreamDrops(t) \/ Reconnect(t) \/ Reload(t)
        PROVE  UNCHANGED <<caller, callee>>
    BY <2>3 DEF Click, StartCall, StartGroupCall, InviteToActiveCall, JoinChannelCall,
       AcceptIncoming, DeclineIncoming, CancelOutgoing, EndActive, Deliver, OnIncoming,
       OnAccepted, OnEnded, StreamDrops, Reconnect, Reload, db
  <2>4. ASSUME NEW r \in reqs, Reply(r) \/ RequestFails(r)
        PROVE  UNCHANGED <<caller, callee>>
    BY <2>4 DEF Reply, ShowOutgoing, ShowGroup, EnterAccepted, EnterAsCaller,
       RequestFails, db
  <2>5. ASSUME NEW r \in reqs, Handle(r), ~CreateRow(r)
        PROVE  UNCHANGED <<caller, callee>>
    BY <2>5 DEF Handle, Announce, FinishGroup, AcceptRefused, AcceptCall,
       AnnounceAccept, EndAgain, EndCall, GetCall, AnswerGet, db
  <2>6. ASSUME (\E d \in Calls : AutoMiss(d)) \/ Restart \/ UNCHANGED vars
        PROVE  UNCHANGED <<caller, callee>>
    BY <2>6 DEF AutoMiss, Restart, vars, db
  <2>7. QED BY <2>1, <2>2, <2>3, <2>4, <2>5, <2>6 DEF Next
<1>3. QED BY <1>1, <1>2 DEF PartiesStay

-----------------------------------------------------------------------------
(* Requests stay on the caller's side *)

LEMMA OldRequestStays ==
    ASSUME TypeOK, PartiesStay, NEW r \in reqs, CallersReq(r)
    PROVE  CallersReq(r)'
BY DEF CallersReq, PartiesStay, Written

\* What a request becomes with the same user, op and call.
LEMMA SameSideStays ==
    ASSUME TypeOK, PartiesStay, NEW r \in reqs, CallersReq(r), NEW q,
           q.op = r.op, q.user = r.user, q.call = r.call, q.tab \in {r.tab, None},
           q.todo = r.todo,
           r.op = "start" /\ q.stage \in {"await", "done"} => r.stage \in {"await", "done"}
    PROVE  CallersReq(q)'
BY DEF CallersReq, PartiesStay, Written

\* An answer leaves the requests on the side of the caller.
LEMMA AnswerStaysOnSide ==
    ASSUME TypeOK, PartiesStay, \A r \in reqs : CallersReq(r),
           NEW r \in reqs, NEW ok \in BOOLEAN, Answer(r, ok),
           r.op = "start" /\ ok => r.stage \in {"await", "done"}
    PROVE  \A q \in reqs' : CallersReq(q)'
<1>1. \A q \in reqs : CallersReq(q)'
  BY OldRequestStays
<1>2. ASSUME Heard(r, ok)
      PROVE  CallersReq([r EXCEPT !.stage = "done", !.ok = ok])'
  <2> DEFINE q == [r EXCEPT !.stage = "done", !.ok = ok]
  <2>1. r \in RequestType
    BY DEF TypeOK
  <2>2. /\ q.op = r.op /\ q.user = r.user /\ q.call = r.call /\ q.tab = r.tab
        /\ q.todo = r.todo
    BY <2>1 DEF RequestType
  <2>3. r.op = "start" => r.stage \in {"await", "done"}
    BY <1>2 DEF Heard
  <2> HIDE DEF q
  <2>4. CallersReq(q)'
    BY <2>2, <2>3, SameSideStays
  <2>5. QED BY <2>4 DEF q
<1>3. QED BY <1>1, <1>2 DEF Answer

LEMMA ReplaceStaysOnSide ==
    ASSUME TypeOK, PartiesStay, \A r \in reqs : CallersReq(r),
           NEW r \in reqs, NEW q, Replace(r, q), CallersReq(q)'
    PROVE  \A s \in reqs' : CallersReq(s)'
BY OldRequestStays DEF Replace

\* So does a request that is sent for a call of the user.
LEMMA SendStaysOnSide ==
    ASSUME TypeOK, PartiesStay, \A r \in reqs : CallersReq(r),
           NEW t \in Tabs, NEW op \in Ops, NEW c, NEW todo,
           \A p \in todo : p[2] # Owner[t],
           op = "get" => Written(c) /\ caller[c] = Owner[t],
           Send(t, op, c, todo)
    PROVE  \A q \in reqs' : CallersReq(q)'
<1>1. CallersReq(Request(t, op, c, todo))'
  BY DEF CallersReq, Request, PartiesStay, Written
<1>2. QED BY <1>1, OldRequestStays DEF Send

\* A click sends what is of the tab's user, to others.
LEMMA ClickStaysOnSide ==
    ASSUME TypeOK, PartiesStay, \A r \in reqs : CallersReq(r), NEW t \in Tabs, Click(t)
    PROVE  \A q \in reqs' : CallersReq(q)'
<1>s. ASSUME NEW op \in Ops \ {"get"}, NEW c, NEW todo,
             \A p \in todo : p[2] # Owner[t], Send(t, op, c, todo)
      PROVE  \A q \in reqs' : CallersReq(q)'
  BY <1>s, SendStaysOnSide
<1> USE DEF Ops, Others
<1>1. CASE StartCall(t)
  <2>1. PICK c \in Unused, u \in Others(t) : Send(t, "start", None, {<<c, u>>})
    BY <1>1 DEF StartCall
  <2>2. QED BY <2>1, <1>s
<1>2. CASE StartGroupCall(t)
  <2>1. PICK I \in Invitations(t) : Send(t, "group", None, I)
    BY <1>2 DEF StartGroupCall
  <2>2. \A p \in I : p[2] # Owner[t]
    BY DEF Invitations
  <2>3. QED BY <2>1, <2>2, <1>s
<1>3. CASE InviteToActiveCall(t)
  <2>1. PICK I \in Invitations(t) : Send(t, "invite", None, I)
    BY <1>3 DEF InviteToActiveCall
  <2>2. \A p \in I : p[2] # Owner[t]
    BY DEF Invitations
  <2>3. QED BY <2>1, <2>2, <1>s
<1>4. CASE JoinChannelCall(t)
  BY <1>4, <1>s DEF JoinChannelCall
<1>5. CASE AcceptIncoming(t)
  BY <1>5, <1>s DEF AcceptIncoming
<1>6. CASE DeclineIncoming(t)
  BY <1>6, <1>s DEF DeclineIncoming
<1>7. CASE CancelOutgoing(t)
  BY <1>7, <1>s DEF CancelOutgoing
<1>8. CASE EndActive(t)
  BY <1>8, <1>s, OldRequestStays DEF EndActive
<1>9. QED
  BY <1>1, <1>2, <1>3, <1>4, <1>5, <1>6, <1>7, <1>8 DEF Click

\* So does a handler.
LEMMA HandleStaysOnSide ==
    ASSUME TypeOK, GoodReqs, PartiesStay, \A r \in reqs : CallersReq(r),
           NEW r \in reqs, Handle(r)
    PROVE  \A q \in reqs' : CallersReq(q)'
<1>0. r \in RequestType /\ GoodReq(r) /\ CallersReq(r)
  BY DEF TypeOK, GoodReqs
<1>r. /\ r.op \in Ops /\ r.user \in Users /\ r.call \in Calls \union {None}
      /\ r.todo \in SUBSET (Calls \X Users)
  BY <1>0, RequestFields
<1>m. ASSUME NEW s \in {"sent", "loop", "await", "done"}, NEW c \in Calls \union {None}
      PROVE  LET q == [r EXCEPT !.stage = s, !.call = c] IN
             /\ q.op = r.op /\ q.user = r.user /\ q.tab = r.tab /\ q.todo = r.todo
             /\ q.stage = s /\ q.call = c
  BY <1>0 DEF RequestType
<1>1. CASE CreateRow(r)
  <2>1. PICK p \in r.todo :
           /\ status[p[1]] = "none" /\ SetStatus(p[1], "ringing")
           /\ caller' = [caller EXCEPT ![p[1]] = r.user]
           /\ Replace(r, [r EXCEPT !.stage = "await", !.call = p[1], !.todo = @ \ {p}])
    BY <1>1 DEF CreateRow
  <2> DEFINE q == [r EXCEPT !.stage = "await", !.call = p[1], !.todo = @ \ {p}]
  <2>2. /\ q.op = r.op /\ q.user = r.user /\ q.tab = r.tab /\ q.call = p[1]
        /\ q.todo = r.todo \ {p}
    BY <1>0 DEF RequestType
  <2>3. p[1] \in Calls
    BY <1>r
  <2>4. Written(p[1])' /\ caller'[p[1]] = r.user
    BY <2>1, <2>3 DEF Written, SetStatus, TypeOK
  <2>5. r.op # "get"
    BY <1>0 DEF GoodReq, RowOps
  <2>6. CallersReq(q)'
    <3> HIDE DEF q
    <3>1. q.tab # None => Owner[q.tab] = q.user
      BY <1>0, <2>2 DEF CallersReq
    <3>2. \A x \in q.todo : x[2] # q.user
      BY <1>0, <2>2 DEF CallersReq
    <3>3. Written(q.call)' /\ caller'[q.call] = q.user
      BY <2>2, <2>4 DEF Written
    <3>4. QED BY <2>2, <2>5, <3>1, <3>2, <3>3 DEF CallersReq
  <2>7. QED BY <2>1, <2>6, ReplaceStaysOnSide
<1>2. CASE Announce(r)
  <2>1. CASE r.op = "start"
    BY <1>2, <2>1, AnswerStaysOnSide DEF Announce
  <2>2. CASE r.op # "start"
    <3> DEFINE q == [r EXCEPT !.stage = "loop", !.call = None]
    <3>1. /\ q.op = r.op /\ q.user = r.user /\ q.tab = r.tab /\ q.todo = r.todo
      BY <1>m
    <3>2. r.op \in {"group", "invite"}
      BY <1>2, <2>2 DEF Announce
    <3>3. Replace(r, q)
      BY <1>2, <2>2 DEF Announce
    <3>4. CallersReq(q)'
      <4> HIDE DEF q
      <4> QED BY <1>0, <3>1, <3>2 DEF CallersReq
    <3>5. QED BY <3>3, <3>4, ReplaceStaysOnSide
  <2>3. QED BY <2>1, <2>2
<1>3. CASE \/ FinishGroup(r) \/ AcceptRefused(r) \/ AnnounceAccept(r)
           \/ EndAgain(r) \/ EndCall(r) \/ AnswerGet(r)
  <2>1. \E ok \in BOOLEAN : Answer(r, ok) /\ r.op # "start"
    BY <1>3 DEF FinishGroup, AcceptRefused, AnnounceAccept, EndAgain, EndCall, AnswerGet
  <2>2. QED BY <2>1, AnswerStaysOnSide
<1>4. CASE AcceptCall(r) \/ GetCall(r)
  <2> DEFINE q == [r EXCEPT !.stage = "await"]
  <2>1. /\ q.op = r.op /\ q.user = r.user /\ q.tab = r.tab /\ q.todo = r.todo
        /\ q.call = r.call
    BY <1>0 DEF RequestType
  <2>2. r.op # "start"
    BY <1>4 DEF AcceptCall, GetCall
  <2>3. CallersReq(q)'
    <3> HIDE DEF q
    <3> QED BY <1>0, <2>1, <2>2, SameSideStays
  <2>4. Replace(r, q) \/ Answer(r, FALSE)
    BY <1>4 DEF AcceptCall, GetCall
  <2>5. CASE Replace(r, q)
    BY <2>3, <2>5, ReplaceStaysOnSide
  <2>6. CASE Answer(r, FALSE)
    BY <2>2, <2>6, AnswerStaysOnSide
  <2>7. QED BY <2>4, <2>5, <2>6
<1>5. QED
  BY <1>1, <1>2, <1>3, <1>4 DEF Handle

\* So do faults.
LEMMA FaultStaysOnSide ==
    ASSUME TypeOK, PartiesStay, \A r \in reqs : CallersReq(r),
           \/ \E t \in Tabs : StreamDrops(t) \/ Reconnect(t) \/ Reload(t)
           \/ \E r \in reqs : RequestFails(r)
           \/ Restart
    PROVE  \A q \in reqs' : CallersReq(q)'
<1>1. ASSUME NEW t \in Tabs, StreamDrops(t) \/ Reconnect(t)
      PROVE  \A q \in reqs' : CallersReq(q)'
  BY <1>1, OldRequestStays DEF StreamDrops, Reconnect
<1>2. ASSUME NEW t \in Tabs, Reload(t), NEW q \in reqs'
      PROVE  CallersReq(q)'
  <2>1. PICK r \in reqs : q = IF r.tab = t THEN [r EXCEPT !.tab = None] ELSE r
    BY <1>2 DEF Reload
  <2>2. /\ q.op = r.op /\ q.user = r.user /\ q.call = r.call /\ q.tab \in {r.tab, None}
        /\ q.todo = r.todo /\ q.stage = r.stage
    BY <2>1 DEF TypeOK, RequestType
  <2>3. QED BY <2>2, SameSideStays
<1>3. ASSUME NEW r \in reqs, RequestFails(r)
      PROVE  \A q \in reqs' : CallersReq(q)'
  BY <1>3, AnswerStaysOnSide DEF RequestFails
<1>4. ASSUME Restart, NEW q \in reqs'
      PROVE  CallersReq(q)'
  <2>1. PICK r \in reqs :
           /\ q = IF r.stage = "done" THEN r ELSE [r EXCEPT !.stage = "done", !.ok = FALSE]
           /\ r.stage = "done" \/ Heard(r, FALSE)
    BY <1>4 DEF Restart
  <2>2. r \in RequestType
    BY DEF TypeOK
  <2>3. CASE r.stage = "done"
    BY <2>1, <2>3, OldRequestStays
  <2>4. CASE r.stage # "done"
    <3>1. q = [r EXCEPT !.stage = "done", !.ok = FALSE] /\ r.op = "accept"
      BY <2>1, <2>4 DEF Heard
    <3>2. /\ q.op = r.op /\ q.user = r.user /\ q.call = r.call /\ q.tab = r.tab
          /\ q.todo = r.todo
      BY <2>2, <3>1 DEF RequestType
    <3>3. QED BY <3>1, <3>2, SameSideStays
  <2>5. QED BY <2>3, <2>4
<1>5. QED BY <1>1, <1>2, <1>3, <1>4

\* So does every step.
LEMMA RequestsStayOnSide ==
    ASSUME IInv, CallersSide, PartiesStay, [Next]_vars
    PROVE  \A q \in reqs' : CallersReq(q)'
<1>0. TypeOK /\ GoodReqs /\ \A r \in reqs : CallersReq(r)
  BY DEF IInv, CallersSide
<1>a. ASSUME reqs' \subseteq reqs PROVE \A q \in reqs' : CallersReq(q)'
  BY <1>0, <1>a, OldRequestStays
<1>1. ASSUME NEW r \in reqs, Reply(r) PROVE reqs' \subseteq reqs
  BY <1>1 DEF Reply, ShowOutgoing, ShowGroup, EnterAccepted, EnterAsCaller, Arrives
<1>2. ASSUME (\E c \in Calls : AutoMiss(c)) \/ UNCHANGED vars PROVE reqs' \subseteq reqs
  BY <1>2 DEF AutoMiss, vars
<1>3. ASSUME NEW t \in Tabs, Deliver(t) PROVE \A q \in reqs' : CallersReq(q)'
  <2> DEFINE c == Head(stream[t]).call
  <2>1. CASE OnIncoming(t)
    BY <1>0, <1>a, <2>1, SendStaysOnSide DEF OnIncoming, Ops
  <2>2. CASE OnAccepted(t)
    <3>1. CASE outgoing[t] = c
      <4>1. c \in Calls
        BY <1>0, <2>2, HeadIsTyped DEF OnAccepted, Pop
      <4>2. Written(c) /\ caller[c] = Owner[t]
        BY <3>1, <4>1 DEF CallersSide
      <4>3. Send(t, "get", c, {})
        BY <2>2, <3>1 DEF OnAccepted
      <4>4. QED BY <1>0, <4>2, <4>3, SendStaysOnSide DEF Ops
    <3>2. CASE outgoing[t] # c
      BY <1>a, <2>2, <3>2 DEF OnAccepted
    <3>3. QED BY <3>1, <3>2
  <2>3. CASE OnEnded(t)
    BY <1>a, <2>3 DEF OnEnded
  <2>4. QED BY <1>3, <2>1, <2>2, <2>3 DEF Deliver
<1>4. QED
  BY <1>0, <1>a, <1>1, <1>2, <1>3, ClickStaysOnSide, HandleStaysOnSide, FaultStaysOnSide
     DEF Next

\* The "calling" screen is filled only by the answer to the tab's own start.
LEMMA ScreensStayOnSide ==
    ASSUME IInv, CallersSide, PartiesStay, [Next]_vars, NEW t \in Tabs, outgoing'[t] # None
    PROVE  Written(outgoing[t])' /\ caller'[outgoing'[t]] = Owner[t]
<1>0. TypeOK
  BY DEF IInv
<1>a. ASSUME outgoing'[t] = outgoing[t]
      PROVE  Written(outgoing[t])' /\ caller'[outgoing'[t]] = Owner[t]
  BY <1>a DEF CallersSide, PartiesStay, Written
<1>1. ASSUME NEW u \in Tabs, Click(u) PROVE outgoing'[t] = outgoing[t]
  BY <1>0, <1>1 DEF Click, StartCall, StartGroupCall, InviteToActiveCall, JoinChannelCall,
     AcceptIncoming, DeclineIncoming, CancelOutgoing, EndActive, screen, TypeOK
<1>2. ASSUME NEW u \in Tabs, Deliver(u) \/ StreamDrops(u) \/ Reconnect(u) \/ Reload(u)
      PROVE  outgoing'[t] = outgoing[t]
  BY <1>0, <1>2 DEF Deliver, OnIncoming, OnAccepted, OnEnded, Clear, StreamDrops, Reconnect,
     Reload, screen, TypeOK
<1>3. ASSUME NEW r \in reqs, Handle(r) \/ RequestFails(r) PROVE outgoing'[t] = outgoing[t]
  BY <1>3 DEF Handle, CreateRow, Announce, FinishGroup, AcceptRefused, AcceptCall,
     AnnounceAccept, EndAgain, EndCall, GetCall, AnswerGet, RequestFails, screen
<1>4. ASSUME NEW c \in Calls, AutoMiss(c) PROVE outgoing'[t] = outgoing[t]
  BY <1>4 DEF AutoMiss, screen
<1>5. CASE Restart \/ UNCHANGED vars
  BY <1>a, <1>5 DEF Restart, vars, screen
<1>6. ASSUME NEW r \in reqs, Reply(r)
      PROVE  Written(outgoing[t])' /\ caller'[outgoing'[t]] = Owner[t]
  <2>1. CASE ShowOutgoing(r) /\ r.tab = t
    <3>1. outgoing'[t] = r.call /\ r.op = "start" /\ r.stage = "done"
      BY <1>0, <2>1 DEF ShowOutgoing, Arrives, TypeOK
    <3>2. CallersReq(r)
      BY DEF CallersSide
    <3>3. Written(r.call) /\ caller[r.call] = Owner[t]
      BY <2>1, <3>1, <3>2 DEF CallersReq
    <3>4. QED BY <3>1, <3>3 DEF PartiesStay, Written
  <2>2. CASE ~(ShowOutgoing(r) /\ r.tab = t)
    BY <1>0, <1>a, <1>6, <2>2 DEF Reply, ShowOutgoing, ShowGroup, EnterAccepted,
       EnterAsCaller, TypeOK
  <2>3. QED BY <2>1, <2>2
<1>7. QED BY <1>a, <1>1, <1>2, <1>3, <1>4, <1>5, <1>6 DEF Next

\* Nobody rings himself.
LEMMA RowsStayOnSide ==
    ASSUME IInv, CallersSide, PartiesStay, [Next]_vars, NEW c \in Calls, Written(c)'
    PROVE  caller'[c] # callee'[c]
<1>1. CASE Written(c)
  BY <1>1 DEF PartiesStay, CallersSide
<1>2. CASE ~Written(c)
  <2>0. TypeOK /\ GoodReqs /\ status[c] = "none" /\ status'[c] # "none"
    BY <1>2 DEF Written, IInv
  <2>1. PICK r \in reqs : CreateRow(r)
    <3>1. ASSUME NEW t \in Tabs,
                 Click(t) \/ Deliver(t) \/ StreamDrops(t) \/ Reconnect(t) \/ Reload(t)
          PROVE  UNCHANGED status
      BY <3>1 DEF Click, StartCall, StartGroupCall, InviteToActiveCall, JoinChannelCall,
         AcceptIncoming, DeclineIncoming, CancelOutgoing, EndActive, Deliver, OnIncoming,
         OnAccepted, OnEnded, StreamDrops, Reconnect, Reload, db
    <3>2. ASSUME NEW r \in reqs, Reply(r) \/ RequestFails(r) PROVE UNCHANGED status
      BY <3>2 DEF Reply, ShowOutgoing, ShowGroup, EnterAccepted, EnterAsCaller,
         RequestFails, db
    <3>3. ASSUME NEW r \in reqs, Handle(r), ~CreateRow(r) PROVE status'[c] = status[c]
      <4>1. GoodReq(r)
        BY <2>0 DEF GoodReqs
      <4>2. CASE AcceptCall(r) \/ EndCall(r)
        BY <2>0, <4>1, <4>2 DEF AcceptCall, EndCall, SetStatus, GoodReq, TypeOK, Live
      <4>3. CASE ~(AcceptCall(r) \/ EndCall(r))
        BY <3>3, <4>3 DEF Handle, Announce, FinishGroup, AcceptRefused, AnnounceAccept,
           EndAgain, GetCall, AnswerGet, db
      <4>4. QED BY <4>2, <4>3
    <3>4. ASSUME NEW d \in Calls, AutoMiss(d) PROVE status'[c] = status[c]
      BY <2>0, <3>4 DEF AutoMiss, SetStatus, TypeOK
    <3>5. ASSUME Restart \/ UNCHANGED vars PROVE UNCHANGED status
      BY <3>5 DEF Restart, vars, db
    <3>6. QED BY <2>0, <3>1, <3>2, <3>3, <3>4, <3>5 DEF Next
  <2>2. PICK p \in r.todo :
           /\ SetStatus(p[1], "ringing")
           /\ caller' = [caller EXCEPT ![p[1]] = r.user]
           /\ callee' = [callee EXCEPT ![p[1]] = p[2]]
    BY <2>1 DEF CreateRow
  <2>3. c = p[1]
    BY <2>0, <2>2 DEF SetStatus, TypeOK
  <2>4. p[2] # r.user
    BY DEF CallersSide, CallersReq
  <2>5. QED BY <2>0, <2>2, <2>3, <2>4 DEF TypeOK
<1>3. QED BY <1>1, <1>2

\* Callers and callees stay apart, in the rows, the requests and the tabs.
LEMMA SideIsKept ==
    ASSUME IInv, CallersSide, [Next]_vars
    PROVE  CallersSide' /\ PartiesStay
<1>1. PartiesStay
  BY RowsKeepTheirParties
<1>2. QED
  BY <1>1, RequestsStayOnSide, ScreensStayOnSide, RowsStayOnSide DEF CallersSide

-----------------------------------------------------------------------------
(* One device *)

\* No more tokens and no more tabs than before.
LEMMA FewerDevices ==
    ASSUME LoneDevice,
           \A c \in Calls : Granted(c)' \subseteq Granted(c) /\ Inside(c)' \subseteq Inside(c)
    PROVE  LoneDevice'
BY DEF LoneDevice

\* Tokens come and go with the accepts.
LEMMA FewerTokens ==
    ASSUME \A q \in reqs' : Admitted(q) => q \in reqs, NEW c \in Calls
    PROVE  Granted(c)' \subseteq Granted(c)
BY DEF Granted, Admitted

\* Nobody is in a call that has no row or is not answered yet.
LEMMA NobodyBeforeTheAnswer ==
    ASSUME IInv, NEW c \in Calls, ~Answered(c)
    PROVE  Granted(c) = {} /\ \A t \in Tabs : active[t] # c
<1>1. Granted(c) = {}
  BY DEF Granted, IInv, GoodReqs, GoodReq, Admitted
<1>2. \A t \in Tabs : active[t] # c
  BY DEF IInv, InCallOnlyIfAnswered, Answered
<1>3. QED BY <1>1, <1>2

\* Screens that leave a call or stay.
LEMMA FewerTabs ==
    ASSUME IInv, PartiesStay, \A t \in Tabs : active'[t] \in {active[t], None, Group},
           NEW c \in Calls
    PROVE  Inside(c)' \subseteq Inside(c)
<1>1. CASE Answered(c)
  <2>1. callee'[c] = callee[c]
    BY <1>1 DEF PartiesStay, Written, Answered
  <2>2. QED BY <2>1 DEF Inside
<1>2. CASE ~Answered(c)
  BY <1>2, NobodyBeforeTheAnswer DEF Inside
<1>3. QED BY <1>1, <1>2

\* An answer, even of an accept, grants nothing unless it is the token's.
LEMMA AnswerGrantsNothing ==
    ASSUME TypeOK, NEW r \in reqs, NEW ok \in BOOLEAN, Answer(r, ok),
           ~ok \/ r.op # "accept"
    PROVE  \A q \in reqs' : Admitted(q) => q \in reqs
<1> DEFINE s == [r EXCEPT !.stage = "done", !.ok = ok]
<1>1. r \in RequestType
  BY DEF TypeOK
<1>2. s.op = r.op /\ s.stage = "done" /\ s.ok = ok
  BY <1>1 DEF RequestType
<1>3. \A q \in reqs' : q \in reqs \/ q = s
  BY DEF Answer
<1> HIDE DEF s
<1>4. QED BY <1>2, <1>3 DEF Admitted

\* A request that is sent admits nobody.
LEMMA SendGrantsNothing ==
    ASSUME NEW t \in Tabs, NEW op, NEW c, NEW todo, Send(t, op, c, todo)
    PROVE  \A q \in reqs' : Admitted(q) => q \in reqs
BY DEF Send, Request, Admitted

\* The accept claims the row, which is ringing: nobody was there before.
LEMMA AcceptLetsOneIn ==
    ASSUME IInv, LoneDevice, PartiesStay, NEW r \in reqs, AcceptCall(r)
    PROVE  LoneDevice'
<1> DEFINE q == [r EXCEPT !.stage = "await"]
<1>0. TypeOK /\ r \in RequestType /\ r.call \in Calls
  BY DEF IInv, TypeOK, AcceptCall, GoodReqs, GoodReq
<1>1. q.call = r.call /\ reqs' = (reqs \ {r}) \union {q}
  BY <1>0 DEF RequestType, AcceptCall, Replace
<1>2. UNCHANGED <<active, callee>>
  BY DEF AcceptCall, screen
<1>3. Granted(r.call) = {} /\ \A t \in Tabs : active[t] # r.call
  BY <1>0, NobodyBeforeTheAnswer DEF AcceptCall, Answered
<1> HIDE DEF q
<1>4. ASSUME NEW c \in Calls, c # r.call
      PROVE  Granted(c)' \subseteq Granted(c) /\ Inside(c)' = Inside(c)
  BY <1>1, <1>2, <1>4 DEF Granted, Inside
<1>5. Granted(r.call)' \subseteq {q} /\ Inside(r.call)' = {}
  <2>1. Granted(r.call)' \subseteq Granted(r.call) \union {q}
    BY <1>1 DEF Granted
  <2>2. QED BY <1>2, <1>3, <2>1 DEF Inside
<1>6. ASSUME NEW c \in Calls
      PROVE  /\ \A x, y \in Granted(c)' : x = y
             /\ \A t, u \in Inside(c)' : t = u
             /\ Granted(c)' = {} \/ Inside(c)' = {}
  <2>1. CASE c = r.call
    BY <1>5, <2>1
  <2>2. CASE c # r.call
    BY <1>4, <2>2 DEF LoneDevice
  <2>3. QED BY <2>1, <2>2
<1>7. QED BY <1>6 DEF LoneDevice

\* The token comes back to the device that was let in.
LEMMA TokenComesBack ==
    ASSUME IInv, LoneDevice, PartiesStay, NEW r \in reqs, AnnounceAccept(r)
    PROVE  LoneDevice'
<1> DEFINE q == [r EXCEPT !.stage = "done", !.ok = TRUE]
<1>0. TypeOK /\ r \in RequestType /\ r.call \in Calls
  BY DEF IInv, TypeOK, AnnounceAccept, GoodReqs, GoodReq
<1>1. q.call = r.call /\ reqs' \subseteq (reqs \ {r}) \union {q}
  BY <1>0 DEF RequestType, AnnounceAccept, Answer
<1>2. UNCHANGED <<active, callee>>
  BY DEF AnnounceAccept, screen, db
<1>3. r \in Granted(r.call)
  BY DEF Granted, AnnounceAccept
<1> HIDE DEF q
<1>4. ASSUME NEW c \in Calls, c # r.call
      PROVE  Granted(c)' \subseteq Granted(c)
  BY <1>1, <1>4 DEF Granted
<1>5. Granted(r.call)' \subseteq {q}
  <2>1. Granted(r.call)' \subseteq (Granted(r.call) \ {r}) \union {q}
    BY <1>1 DEF Granted
  <2>2. Granted(r.call) \ {r} = {}
    BY <1>0, <1>3 DEF LoneDevice
  <2>3. QED BY <2>1, <2>2
<1>6. \A c \in Calls : Inside(c)' = Inside(c)
  BY <1>2 DEF Inside
<1>7. ASSUME NEW c \in Calls
      PROVE  /\ \A x, y \in Granted(c)' : x = y
             /\ \A t, u \in Inside(c)' : t = u
             /\ Granted(c)' = {} \/ Inside(c)' = {}
  <2>1. CASE c = r.call
    BY <1>0, <1>3, <1>5, <1>6, <2>1 DEF LoneDevice
  <2>2. CASE c # r.call
    BY <1>4, <1>6, <2>2 DEF LoneDevice
  <2>3. QED BY <2>1, <2>2
<1>8. QED BY <1>7 DEF LoneDevice

\* A tab gets in for the token it gives up.
LEMMA TokenIsUsedOnce ==
    ASSUME IInv, LoneDevice, NEW r \in reqs, EnterAccepted(r)
    PROVE  LoneDevice'
<1>0. TypeOK /\ r \in RequestType /\ r.ok \in BOOLEAN
  BY RequestFields DEF IInv, TypeOK
<1>1. reqs' = reqs \ {r} /\ r.op = "accept" /\ r.stage = "done" /\ UNCHANGED callee
  BY DEF EnterAccepted, Arrives, db
<1>2. \A c \in Calls : Granted(c)' \subseteq Granted(c) \ {r}
  BY <1>1 DEF Granted
<1>3. CASE ~r.ok \/ r.tab \notin Tabs
  <2>1. active' = active
    BY <1>0, <1>3 DEF EnterAccepted, TypeOK
  <2>2. \A c \in Calls : Inside(c)' = Inside(c)
    BY <1>1, <2>1 DEF Inside
  <2>3. QED BY <1>2, <2>2, FewerDevices
<1>4. CASE r.ok /\ r.tab \in Tabs
  <2>1. \A t \in Tabs : active'[t] = IF t = r.tab THEN r.call ELSE active[t]
    BY <1>0, <1>4 DEF EnterAccepted, TypeOK
  <2>2. ASSUME NEW c \in Calls
        PROVE  /\ \A x, y \in Granted(c)' : x = y
               /\ \A t, u \in Inside(c)' : t = u
               /\ Granted(c)' = {} \/ Inside(c)' = {}
    <3>1. CASE c = r.call
      <4>1. r \in Granted(c)
        BY <1>1, <1>4, <3>1 DEF Granted
      <4>2. Granted(c)' = {} /\ Inside(c) = {}
        BY <1>2, <4>1 DEF LoneDevice
      <4>3. Inside(c)' \subseteq {r.tab}
        BY <1>1, <2>1, <4>2 DEF Inside
      <4>4. QED BY <4>2, <4>3
    <3>2. CASE c # r.call
      <4>1. Inside(c)' \subseteq Inside(c)
        BY <1>1, <2>1, <3>2 DEF Inside
      <4>2. QED BY <1>2, <4>1 DEF LoneDevice
    <3>3. QED BY <3>1, <3>2
  <2>3. QED BY <2>2 DEF LoneDevice
<1>5. QED BY <1>3, <1>4

\* Who comes in by asking for the call is the caller.
LEMMA CallerIsNoDevice ==
    ASSUME IInv, CallersSide, LoneDevice, NEW r \in reqs, EnterAsCaller(r)
    PROVE  LoneDevice'
<1>0. TypeOK /\ CallersReq(r)
  BY DEF IInv, CallersSide
<1>1. reqs' \subseteq reqs /\ UNCHANGED callee /\ r.op = "get"
  BY DEF EnterAsCaller, Arrives, db
<1>2. \A c \in Calls : Granted(c)' \subseteq Granted(c)
  BY <1>1 DEF Granted
<1>3. ASSUME NEW c \in Calls, NEW t \in Inside(c)'
      PROVE  t \in Inside(c)
  <2>1. t \in Tabs /\ active'[t] = c /\ Owner[t] = callee[c]
    BY <1>1, <1>3 DEF Inside
  <2>2. CASE t = r.tab /\ c = r.call
    <3>1. caller[c] = Owner[t] /\ Written(c)
      BY <1>0, <1>1, <2>1, <2>2 DEF CallersReq
    <3>2. QED BY <2>1, <3>1 DEF CallersSide
  <2>3. CASE t = r.tab /\ c # r.call
    BY <1>0, <2>1, <2>3 DEF EnterAsCaller, TypeOK
  <2>4. CASE t # r.tab
    BY <1>0, <2>1, <2>4 DEF EnterAsCaller, TypeOK, Inside
  <2>5. QED BY <2>2, <2>3, <2>4
<1>4. QED BY <1>2, <1>3, FewerDevices

\* A token of a closed page stays one token.
LEMMA ReloadKeepsOne ==
    ASSUME IInv, LoneDevice, PartiesStay, NEW t \in Tabs, Reload(t)
    PROVE  LoneDevice'
<1>0. TypeOK
  BY DEF IInv
<1>1. \A c \in Calls : Inside(c)' \subseteq Inside(c)
  <2>1. \A u \in Tabs : active'[u] \in {active[u], None, Group}
    BY <1>0 DEF Reload, TypeOK
  <2>2. QED BY <2>1, FewerTabs
<1>2. ASSUME NEW c \in Calls, NEW q \in Granted(c)'
      PROVE  \E r \in Granted(c) : q = IF r.tab = t THEN [r EXCEPT !.tab = None] ELSE r
  <2>1. q \in reqs' /\ q.op = "accept" /\ q.call = c
        /\ (q.stage = "await" \/ (q.stage = "done" /\ q.ok))
    BY <1>2 DEF Granted
  <2>2. PICK r \in reqs : q = IF r.tab = t THEN [r EXCEPT !.tab = None] ELSE r
    BY <2>1 DEF Reload
  <2>3. q.op = r.op /\ q.call = r.call /\ q.stage = r.stage /\ q.ok = r.ok
    BY <1>0, <2>2 DEF TypeOK, RequestType
  <2>4. QED BY <2>1, <2>2, <2>3 DEF Granted
<1>3. QED BY <1>1, <1>2 DEF LoneDevice

\* Handlers under way at a restart end without a token.
LEMMA RestartGrantsNothing ==
    ASSUME TypeOK, Restart
    PROVE  \A q \in reqs' : Admitted(q) => q \in reqs
<1> SUFFICES ASSUME NEW q \in reqs', Admitted(q) PROVE q \in reqs
  OBVIOUS
<1>1. PICK r \in reqs :
         q = IF r.stage = "done" THEN r ELSE [r EXCEPT !.stage = "done", !.ok = FALSE]
  BY DEF Restart
<1>2. r \in RequestType
  BY DEF TypeOK
<1>3. CASE r.stage # "done"
  <2>1. q = [r EXCEPT !.stage = "done", !.ok = FALSE]
    BY <1>1, <1>3
  <2>2. q.stage = "done" /\ q.ok = FALSE
    BY <1>2, <2>1 DEF RequestType
  <2>3. QED BY <2>2 DEF Admitted
<1>4. QED BY <1>1, <1>3

\* Each step leaves at most one device of the callee in a call.
LEMMA DeviceStaysAlone ==
    ASSUME DeviceInv, [Next]_vars
    PROVE  LoneDevice'
<1>0. IInv /\ TypeOK /\ GoodReqs /\ CallersSide /\ LoneDevice /\ PartiesStay
  BY SideIsKept DEF DeviceInv, IInv
<1>a. ASSUME \A q \in reqs' : Admitted(q) => q \in reqs,
             \A t \in Tabs : active'[t] \in {active[t], None, Group}
      PROVE  LoneDevice'
  BY <1>0, <1>a, FewerTokens, FewerTabs, FewerDevices
<1>1. ASSUME NEW t \in Tabs, Click(t) PROVE LoneDevice'
  <2>1. \A q \in reqs' : Admitted(q) => q \in reqs
    BY <1>1, SendGrantsNothing DEF Click, StartCall, StartGroupCall, InviteToActiveCall,
       JoinChannelCall, AcceptIncoming, DeclineIncoming, CancelOutgoing, EndActive
  <2>2. \A u \in Tabs : active'[u] \in {active[u], None, Group}
    BY <1>0, <1>1 DEF Click, StartCall, StartGroupCall, InviteToActiveCall,
       JoinChannelCall, AcceptIncoming, DeclineIncoming, CancelOutgoing, EndActive,
       screen, TypeOK
  <2>3. QED BY <1>a, <2>1, <2>2
<1>2. ASSUME NEW t \in Tabs, Deliver(t) PROVE LoneDevice'
  <2>1. \A q \in reqs' : Admitted(q) => q \in reqs
    BY <1>2, SendGrantsNothing DEF Deliver, OnIncoming, OnAccepted, OnEnded
  <2>2. \A u \in Tabs : active'[u] \in {active[u], None, Group}
    BY <1>0, <1>2 DEF Deliver, OnIncoming, OnAccepted, OnEnded, Clear, screen, TypeOK
  <2>3. QED BY <1>a, <2>1, <2>2
<1>3. ASSUME NEW t \in Tabs, StreamDrops(t) \/ Reconnect(t) PROVE LoneDevice'
  BY <1>a, <1>3 DEF StreamDrops, Reconnect, screen
<1>4. ASSUME NEW t \in Tabs, Reload(t) PROVE LoneDevice'
  BY <1>0, <1>4, ReloadKeepsOne
<1>5. ASSUME NEW r \in reqs, RequestFails(r) PROVE LoneDevice'
  BY <1>0, <1>a, <1>5, AnswerGrantsNothing DEF RequestFails, screen
<1>6. CASE Restart
  BY <1>0, <1>a, <1>6, RestartGrantsNothing DEF Restart, screen
<1>7. ASSUME NEW c \in Calls, AutoMiss(c) PROVE LoneDevice'
  BY <1>a, <1>7 DEF AutoMiss, screen
<1>8. CASE UNCHANGED vars
  BY <1>a, <1>8 DEF vars
<1>9. ASSUME NEW r \in reqs, Handle(r) PROVE LoneDevice'
  <2>0. r \in RequestType /\ GoodReq(r)
    BY <1>0 DEF TypeOK, GoodReqs
  <2>1. UNCHANGED active
    BY <1>9 DEF Handle, CreateRow, Announce, FinishGroup, AcceptRefused, AcceptCall,
       AnnounceAccept, EndAgain, EndCall, GetCall, AnswerGet, screen
  <2>2. CASE AcceptCall(r)
    BY <1>0, <2>2, AcceptLetsOneIn
  <2>3. CASE AnnounceAccept(r)
    BY <1>0, <2>3, TokenComesBack
  <2>4. CASE CreateRow(r)
    <3>1. PICK p \in r.todo :
             Replace(r, [r EXCEPT !.stage = "await", !.call = p[1], !.todo = @ \ {p}])
      BY <2>4 DEF CreateRow
    <3> DEFINE q == [r EXCEPT !.stage = "await", !.call = p[1], !.todo = @ \ {p}]
    <3>2. q.op = r.op /\ r.op # "accept"
      BY <2>0 DEF RequestType, GoodReq, RowOps
    <3>3. reqs' = (reqs \ {r}) \union {q}
      BY <3>1 DEF Replace
    <3> HIDE DEF q
    <3>4. QED BY <1>a, <2>1, <3>2, <3>3 DEF Admitted
  <2>5. CASE Announce(r)
    <3>1. CASE r.op = "start"
      BY <1>0, <1>a, <2>1, <2>5, <3>1, AnswerGrantsNothing DEF Announce
    <3>2. CASE r.op # "start"
      <4> DEFINE q == [r EXCEPT !.stage = "loop", !.call = None]
      <4>1. q.op = r.op /\ r.op # "accept" /\ reqs' = (reqs \ {r}) \union {q}
        BY <2>0, <2>5, <3>2 DEF Announce, Replace, RequestType
      <4> HIDE DEF q
      <4>2. QED BY <1>a, <2>1, <4>1 DEF Admitted
    <3>3. QED BY <3>1, <3>2
  <2>6. CASE \/ FinishGroup(r) \/ AcceptRefused(r) \/ EndAgain(r) \/ EndCall(r)
             \/ AnswerGet(r)
    <3>1. \E ok \in BOOLEAN : Answer(r, ok) /\ (~ok \/ r.op # "accept")
      BY <2>6 DEF FinishGroup, AcceptRefused, EndAgain, EndCall, AnswerGet
    <3>2. QED BY <1>0, <1>a, <2>1, <3>1, AnswerGrantsNothing
  <2>7. CASE GetCall(r)
    <3>1. CASE status[r.call] \in Live
      <4> DEFINE q == [r EXCEPT !.stage = "await"]
      <4>1. q.op = r.op /\ r.op # "accept" /\ reqs' = (reqs \ {r}) \union {q}
        BY <2>0, <2>7, <3>1 DEF GetCall, Replace, RequestType
      <4> HIDE DEF q
      <4>2. QED BY <1>a, <2>1, <4>1 DEF Admitted
    <3>2. CASE status[r.call] \notin Live
      BY <1>0, <1>a, <2>1, <2>7, <3>2, AnswerGrantsNothing DEF GetCall
    <3>3. QED BY <3>1, <3>2
  <2>8. QED
    BY <1>9, <2>2, <2>3, <2>4, <2>5, <2>6, <2>7 DEF Handle
<1>10. ASSUME NEW r \in reqs, Reply(r) PROVE LoneDevice'
  <2>1. CASE EnterAccepted(r)
    BY <1>0, <2>1, TokenIsUsedOnce
  <2>2. CASE EnterAsCaller(r)
    BY <1>0, <2>2, CallerIsNoDevice
  <2>3. CASE ShowOutgoing(r) \/ ShowGroup(r)
    <3>1. reqs' \subseteq reqs
      BY <2>3 DEF ShowOutgoing, ShowGroup, Arrives
    <3>2. \A u \in Tabs : active'[u] \in {active[u], None, Group}
      BY <1>0, <2>3 DEF ShowOutgoing, ShowGroup, TypeOK
    <3>3. QED BY <1>a, <3>1, <3>2
  <2>4. QED BY <1>10, <2>1, <2>2, <2>3 DEF Reply
<1>11. QED
  BY <1>1, <1>2, <1>3, <1>4, <1>5, <1>6, <1>7, <1>8, <1>9, <1>10 DEF Next

-----------------------------------------------------------------------------
(* The theorems *)

\* Nobody is in a call.
LEMMA InitHasNoDevice == Init => DeviceInv
<1> SUFFICES ASSUME Init PROVE DeviceInv
  OBVIOUS
<1>1. IInv
  BY InitIsGood
<1>2. CallersSide
  BY DEF Init, CallersSide, Written
<1>3. LoneDevice
  BY DEF Init, LoneDevice, Granted, Inside
<1>4. QED BY <1>1, <1>2, <1>3 DEF DeviceInv

\* One element at most, in one of two sets, counts one at most.
LEMMA LoneCounts ==
    ASSUME NEW A, NEW B, \A x, y \in A : x = y, \A x, y \in B : x = y, A = {} \/ B = {}
    PROVE  Cardinality(A) + Cardinality(B) <= 1
<1>0. Cardinality({}) = 0
  BY FS_EmptySet
<1>1. ASSUME NEW S, \A x, y \in S : x = y
      PROVE  Cardinality(S) \in {0, 1}
  <2>1. CASE S = {}
    BY <1>0, <2>1
  <2>2. CASE S # {}
    <3>1. PICK x \in S : S = {x}
      BY <1>1, <2>2
    <3>2. QED BY <3>1, FS_Singleton
  <2>3. QED BY <2>1, <2>2
<1>2. Cardinality(A) \in {0, 1} /\ Cardinality(B) \in {0, 1}
  BY <1>1
<1>3. Cardinality(A) = 0 \/ Cardinality(B) = 0
  BY <1>0
<1>4. QED BY <1>2, <1>3

\* The invariant holds of every behaviour.
THEOREM DeviceInvariant == Spec => []DeviceInv
<1>1. DeviceInv /\ [Next]_vars => DeviceInv'
  <2>1. SUFFICES ASSUME DeviceInv, [Next]_vars PROVE DeviceInv'
    OBVIOUS
  <2>2. IInv' /\ CallersSide' /\ LoneDevice'
    BY <2>1, Inductive, SideIsKept, DeviceStaysAlone DEF DeviceInv
  <2>3. QED BY <2>2 DEF DeviceInv
<1>2. QED BY <1>1, InitHasNoDevice, PTL DEF Spec

\* accept checks and claims the row before it awaits the token, so however many devices
\* of the callee accept, reload or lose their answers, one at most gets into the call.
THEOREM OneDeviceAtMost == Spec => []OneDeviceAnswers
<1>1. DeviceInv => OneDeviceAnswers
  BY LoneCounts DEF DeviceInv, LoneDevice, OneDeviceAnswers, Inside
<1>2. QED BY <1>1, DeviceInvariant, PTL

-----------------------------------------------------------------------------
(* StaleScreenOnlyIfBlind: what a screen shows, and what a stream still brings *)

\* The calls the events of a stream are about, and the calls they end.
Talk(s) == {s[i].call : i \in 1..Len(s)}
\* The calls whose end is on a stream.
Ends(s) == {s[i].call : i \in {j \in 1..Len(s) : s[j].type = "ended"}}

\* A ring in the stream that no end follows.
Unended(s, c) ==
    \E i \in 1..Len(s) :
       /\ s[i] = [type |-> "incoming", call |-> c]
       /\ \A j \in 1..Len(s) : j > i => s[j] # [type |-> "ended", call |-> c]

\* Call c is on the screen of tab t, or an answer on its way puts it there.
Due(t, c) == OnScreen(t, c) \/ Pending(t, c) # {}

\* The handler between the row and its ring.
Opening(r) == r.op \in RowOps /\ r.stage = "await"

\* Whoever sees a call, or hears of it, is a party of a row that is written.
OnlyPartiesHear ==
    \A t \in Tabs, c \in Calls :
       Due(t, c) \/ c \in Talk(stream[t]) => Written(c) /\ Owner[t] \in Parties(c)

\* A timer and a request are of a row that is written.
RowsComeFirst ==
    /\ \A c \in timer : Written(c)
    /\ \A r \in reqs : r.call # None => Written(r.call)

\* Nobody but its handler knows a row before the ring.
Unknown(r) ==
    /\ status[r.call] = "ringing" /\ r.call \notin timer
    /\ \A s \in reqs : s.call = r.call => s = r
    /\ \A t \in Tabs : ~OnScreen(t, r.call) /\ r.call \notin Talk(stream[t])

\* The call of a request that still opens it is on no stream and no screen.
UnknownBeforeRing == \A r \in reqs : Opening(r) => Unknown(r)

\* A stream that is cut holds nothing.
CutIsEmpty == \A t \in Tabs \ connected : stream[t] = <<>>

\* What is due after the end is told about the end, or blind to it.
DueIsTold ==
    \A t \in Tabs, c \in Calls :
       Due(t, c) /\ status[c] \in Terminal => c \in Ends(stream[t]) \/ <<t, c>> \in blind

RingThenEnd ==
    \A t \in Tabs, c \in Calls :
       Unended(stream[t], c) /\ status[c] \in Terminal => <<t, c>> \in blind

\* What is kept of the screens.
ScreenInv == /\ OnlyPartiesHear /\ RowsComeFirst /\ UnknownBeforeRing
             /\ CutIsEmpty /\ DueIsTold /\ RingThenEnd

-----------------------------------------------------------------------------
(* Streams *)

\* What an event adds to a stream.
LEMMA AppendTalks ==
    ASSUME NEW s \in Seq(Event), NEW e \in Event
    PROVE  /\ Talk(Append(s, e)) = Talk(s) \union {e.call}
           /\ Ends(s) \subseteq Ends(Append(s, e))
           /\ e.type = "ended" => e.call \in Ends(Append(s, e))
           /\ \A c : Unended(Append(s, e), c) =>
                 \/ Unended(s, c) /\ e # [type |-> "ended", call |-> c]
                 \/ e = [type |-> "incoming", call |-> c]
<1> DEFINE a == Append(s, e)
<1>1. /\ Len(s) \in Nat /\ Len(a) = Len(s) + 1 /\ a[Len(s) + 1] = e
      /\ \A i \in 1..Len(s) : a[i] = s[i]
  OBVIOUS
<1> HIDE DEF a
<1>2. Talk(a) = Talk(s) \union {e.call}
  <2>1. ASSUME NEW c \in Talk(a) PROVE c \in Talk(s) \union {e.call}
    BY <1>1 DEF Talk
  <2>2. ASSUME NEW c \in Talk(s) PROVE c \in Talk(a)
    <3>1. PICK i \in 1..Len(s) : c = s[i].call
      BY DEF Talk
    <3>2. i \in 1..Len(a) /\ c = a[i].call
      BY <1>1, <3>1
    <3>3. QED BY <3>2 DEF Talk
  <2>3. e.call \in Talk(a)
    <3>1. Len(s) + 1 \in 1..Len(a) /\ e.call = a[Len(s) + 1].call
      BY <1>1
    <3>2. QED BY <3>1 DEF Talk
  <2>4. QED BY <2>1, <2>2, <2>3
<1>3. ASSUME NEW c \in Ends(s) PROVE c \in Ends(a)
  <2>1. PICK i \in 1..Len(s) : s[i].type = "ended" /\ c = s[i].call
    BY DEF Ends
  <2>2. i \in 1..Len(a) /\ a[i].type = "ended" /\ c = a[i].call
    BY <1>1, <2>1
  <2>3. QED BY <2>2 DEF Ends
<1>4. ASSUME e.type = "ended" PROVE e.call \in Ends(a)
  <2>1. /\ Len(s) + 1 \in 1..Len(a) /\ a[Len(s) + 1].type = "ended"
        /\ e.call = a[Len(s) + 1].call
    BY <1>1, <1>4
  <2>2. QED BY <2>1 DEF Ends
<1>5. ASSUME NEW c, Unended(a, c), e # [type |-> "incoming", call |-> c]
      PROVE  Unended(s, c) /\ e # [type |-> "ended", call |-> c]
  <2> DEFINE in == [type |-> "incoming", call |-> c]
             en == [type |-> "ended", call |-> c]
  <2>1. PICK i \in 1..Len(a) : a[i] = in /\ \A j \in 1..Len(a) : j > i => a[j] # en
    BY <1>5 DEF Unended
  <2> HIDE DEF in, en
  <2>2. i \in 1..Len(s)
    BY <1>1, <1>5, <2>1 DEF in
  <2>3. Len(s) + 1 \in 1..Len(a) /\ Len(s) + 1 > i
    BY <1>1, <2>2
  <2>4. e # en
    BY <1>1, <2>1, <2>3
  <2>5. \A j \in 1..Len(s) : j > i => s[j] # en
    BY <1>1, <2>1
  <2>6. s[i] = in
    BY <1>1, <2>1, <2>2
  <2>7. QED BY <2>2, <2>4, <2>5, <2>6 DEF Unended, in, en
<1>6. QED BY <1>2, <1>3, <1>4, <1>5 DEF a

\* What reading its first event takes from a stream.
LEMMA TailTalks ==
    ASSUME NEW s \in Seq(Event), s # <<>>
    PROVE  /\ Talk(Tail(s)) \subseteq Talk(s) /\ Head(s).call \in Talk(s)
           /\ \A c \in Ends(s) :
                 c \in Ends(Tail(s)) \/ (Head(s).type = "ended" /\ Head(s).call = c)
           /\ \A c : Unended(Tail(s), c) => Unended(s, c)
           /\ \A c : Head(s) = [type |-> "incoming", call |-> c] =>
                 Unended(s, c) \/ c \in Ends(Tail(s))
<1> DEFINE r == Tail(s)
<1>1. /\ Len(s) \in Nat /\ Len(s) >= 1 /\ Len(r) = Len(s) - 1 /\ Head(s) = s[1]
      /\ \A i \in 1..Len(r) : r[i] = s[i + 1]
  OBVIOUS
<1> HIDE DEF r
<1>0. ASSUME NEW i \in 1..Len(s), i # 1
      PROVE  i - 1 \in 1..Len(r) /\ r[i - 1] = s[i]
  BY <1>0, <1>1
<1>2. Talk(r) \subseteq Talk(s) /\ Head(s).call \in Talk(s)
  <2>1. ASSUME NEW i \in 1..Len(r) PROVE r[i].call \in Talk(s)
    <3>1. i + 1 \in 1..Len(s) /\ r[i].call = s[i + 1].call
      BY <1>1
    <3>2. QED BY <3>1 DEF Talk
  <2>2. 1 \in 1..Len(s)
    BY <1>1
  <2>3. QED BY <1>1, <2>1, <2>2 DEF Talk
<1>3. ASSUME NEW c \in Ends(s), ~(Head(s).type = "ended" /\ Head(s).call = c)
      PROVE  c \in Ends(r)
  <2>1. PICK i \in 1..Len(s) : s[i].type = "ended" /\ c = s[i].call
    BY DEF Ends
  <2>2. i # 1
    BY <1>1, <1>3, <2>1
  <2>3. i - 1 \in 1..Len(r) /\ r[i - 1].type = "ended" /\ c = r[i - 1].call
    BY <1>0, <2>1, <2>2
  <2>4. QED BY <2>3 DEF Ends
<1>4. ASSUME NEW c, Unended(r, c) PROVE Unended(s, c)
  <2> DEFINE in == [type |-> "incoming", call |-> c]
             en == [type |-> "ended", call |-> c]
  <2>1. PICK i \in 1..Len(r) : r[i] = in /\ \A j \in 1..Len(r) : j > i => r[j] # en
    BY <1>4 DEF Unended
  <2> HIDE DEF in, en
  <2>2. i + 1 \in 1..Len(s) /\ s[i + 1] = in
    BY <1>1, <2>1
  <2>3. ASSUME NEW j \in 1..Len(s), j > i + 1 PROVE s[j] # en
    <3>1. j # 1 /\ j - 1 > i
      BY <2>3
    <3>2. QED BY <1>0, <2>1, <3>1
  <2>4. QED BY <2>2, <2>3 DEF Unended, in, en
<1>5. ASSUME NEW c, Head(s) = [type |-> "incoming", call |-> c], c \notin Ends(r)
      PROVE  Unended(s, c)
  <2> DEFINE en == [type |-> "ended", call |-> c]
  <2>1. ASSUME NEW j \in 1..Len(s), j > 1, s[j] = en PROVE FALSE
    <3>1. j - 1 \in 1..Len(r) /\ r[j - 1] = en
      BY <1>0, <2>1
    <3>2. r[j - 1].type = "ended" /\ r[j - 1].call = c
      BY <3>1
    <3>3. QED BY <1>5, <3>1, <3>2 DEF Ends
  <2>2. 1 \in 1..Len(s) /\ s[1] = [type |-> "incoming", call |-> c]
    BY <1>1, <1>5
  <2>3. QED BY <2>1, <2>2 DEF Unended
<1>6. QED BY <1>2, <1>3, <1>4, <1>5 DEF r

\* The same of what a stream becomes.
LEMMA StreamGrows ==
    ASSUME NEW s \in Seq(Event), NEW e \in Event, NEW z, z = Append(s, e)
    PROVE  /\ Talk(z) = Talk(s) \union {e.call} /\ Ends(s) \subseteq Ends(z)
           /\ e.type = "ended" => e.call \in Ends(z)
           /\ \A c : Unended(z, c) =>
                 \/ Unended(s, c) /\ e # [type |-> "ended", call |-> c]
                 \/ e = [type |-> "incoming", call |-> c]
BY AppendTalks

\* An empty stream says nothing.
LEMMA EmptyIsSilent ==
    Talk(<<>>) = {} /\ Ends(<<>>) = {} /\ \A c : ~Unended(<<>>, c)
BY DEF Talk, Ends, Unended

-----------------------------------------------------------------------------
(* What a step does to the requests *)

\* A handler that writes the row of a fresh id.
Fresh(q) ==
    /\ Opening(q) /\ q.call \in Calls
    /\ status[q.call] = "none" /\ status'[q.call] = "ringing"
    /\ caller'[q.call] = q.user
    /\ UNCHANGED <<timer, stream, connected, screen, blind>>

\* Request r goes on as q, or not at all.
GoesOn(r, q) ==
    /\ reqs' \subseteq (reqs \ {r}) \union {q}
    /\ q.op = r.op /\ q.tab = r.tab /\ q.user = r.user
    /\ (q.call \in {r.call, None} /\ ~Opening(q)) \/ Fresh(q)

\* An answered request is the same request, later.
LEMMA AnswerGoesOn ==
    ASSUME TypeOK, NEW r \in reqs, NEW ok \in BOOLEAN, Answer(r, ok)
    PROVE  \E q : GoesOn(r, q)
<1> DEFINE q == [r EXCEPT !.stage = "done", !.ok = ok]
<1>1. r \in RequestType
  BY DEF TypeOK
<1>2. q.op = r.op /\ q.tab = r.tab /\ q.user = r.user /\ q.call = r.call /\ q.stage = "done"
  BY <1>1 DEF RequestType
<1>3. reqs' \subseteq (reqs \ {r}) \union {q}
  BY DEF Answer
<1> HIDE DEF q
<1>4. GoesOn(r, q)
  BY <1>2, <1>3 DEF GoesOn, Opening
<1>5. QED BY <1>4

\* So is one that a handler or a fault moves on.
LEMMA HandlerGoesOn ==
    ASSUME TypeOK, GoodReqs, NEW r \in reqs, Handle(r) \/ RequestFails(r)
    PROVE  \E q : GoesOn(r, q)
<1>0. r \in RequestType /\ GoodReq(r)
  BY DEF TypeOK, GoodReqs
<1>r. /\ r.op \in Ops /\ r.user \in Users /\ r.call \in Calls \union {None}
      /\ r.todo \in SUBSET (Calls \X Users)
  BY <1>0, RequestFields
<1>a. ASSUME NEW ok \in BOOLEAN, Answer(r, ok) PROVE \E q : GoesOn(r, q)
  BY <1>a, AnswerGoesOn
<1>1. CASE CreateRow(r)
  <2>1. PICK p \in r.todo :
           /\ status[p[1]] = "none" /\ SetStatus(p[1], "ringing")
           /\ caller' = [caller EXCEPT ![p[1]] = r.user]
           /\ Replace(r, [r EXCEPT !.stage = "await", !.call = p[1], !.todo = @ \ {p}])
    BY <1>1 DEF CreateRow
  <2> DEFINE q == [r EXCEPT !.stage = "await", !.call = p[1], !.todo = @ \ {p}]
  <2>2. /\ q.op = r.op /\ q.user = r.user /\ q.tab = r.tab /\ q.call = p[1]
        /\ q.stage = "await"
    BY <1>0 DEF RequestType
  <2>3. p[1] \in Calls /\ r.op \in RowOps
    BY <1>0, <1>r DEF GoodReq
  <2>4. reqs' \subseteq (reqs \ {r}) \union {q}
    BY <2>1 DEF Replace
  <2>5. status'[p[1]] = "ringing" /\ caller'[p[1]] = r.user
    BY <2>1, <2>3 DEF SetStatus, TypeOK
  <2>6. UNCHANGED <<timer, stream, connected, screen, blind>>
    BY <1>1 DEF CreateRow
  <2> HIDE DEF q
  <2>7. GoesOn(r, q)
    BY <2>1, <2>2, <2>3, <2>4, <2>5, <2>6 DEF GoesOn, Fresh, Opening
  <2>8. QED BY <2>7
<1>2. CASE Announce(r)
  <2>1. CASE r.op = "start"
    BY <1>2, <1>a, <2>1 DEF Announce
  <2>2. CASE r.op # "start"
    <3> DEFINE q == [r EXCEPT !.stage = "loop", !.call = None]
    <3>1. /\ q.op = r.op /\ q.tab = r.tab /\ q.user = r.user /\ q.call = None
          /\ q.stage = "loop"
      BY <1>0 DEF RequestType
    <3>2. reqs' \subseteq (reqs \ {r}) \union {q}
      BY <1>2, <2>2 DEF Announce, Replace
    <3> HIDE DEF q
    <3>3. GoesOn(r, q)
      BY <3>1, <3>2 DEF GoesOn, Opening
    <3>4. QED BY <3>3
  <2>3. QED BY <2>1, <2>2
<1>3. CASE \/ FinishGroup(r) \/ AcceptRefused(r) \/ AnnounceAccept(r)
           \/ EndAgain(r) \/ EndCall(r) \/ AnswerGet(r) \/ RequestFails(r)
  BY <1>3, <1>a DEF FinishGroup, AcceptRefused, AnnounceAccept, EndAgain, EndCall,
     AnswerGet, RequestFails
<1>4. CASE AcceptCall(r) \/ GetCall(r)
  <2> DEFINE q == [r EXCEPT !.stage = "await"]
  <2>1. /\ q.op = r.op /\ q.user = r.user /\ q.tab = r.tab /\ q.call = r.call
    BY <1>0 DEF RequestType
  <2>2. r.op \notin RowOps
    BY <1>4 DEF AcceptCall, GetCall, RowOps
  <2>3. CASE Answer(r, FALSE)
    BY <1>a, <2>3
  <2>4. CASE Replace(r, q)
    <3>1. reqs' \subseteq (reqs \ {r}) \union {q}
      BY <2>4 DEF Replace
    <3> HIDE DEF q
    <3>2. GoesOn(r, q)
      BY <2>1, <2>2, <3>1 DEF GoesOn, Opening
    <3>3. QED BY <3>2
  <2>5. QED BY <1>4, <2>3, <2>4 DEF AcceptCall, GetCall
<1>5. QED
  BY <1>1, <1>2, <1>3, <1>4 DEF Handle

\* A tab asks about what is on its screen, or declines what its stream rings.
Asks(t, q) ==
    /\ q.tab = t /\ q.stage = "sent"
    /\ \/ q.call = None
       \/ q.call \in Calls /\ OnScreen(t, q.call)
       \/ q.call \in Talk(stream[t]) /\ q.op = "decline"

\* A tab sends one request at a time, about what it shows or reads.
LEMMA TabAsks ==
    ASSUME TypeOK, NEW t \in Tabs, Click(t) \/ Deliver(t)
    PROVE  \E q : reqs' \subseteq reqs \union {q} /\ (q \in reqs \/ Asks(t, q))
<1>e. ASSUME reqs' = reqs
      PROVE  \E q : reqs' \subseteq reqs \union {q} /\ (q \in reqs \/ Asks(t, q))
  <2> DEFINE q == Request(t, "join", None, {})
  <2>1. q.tab = t /\ q.stage = "sent" /\ q.call = None
    BY DEF Request
  <2> HIDE DEF q
  <2>2. Asks(t, q)
    BY <2>1 DEF Asks
  <2>3. QED BY <1>e, <2>2
<1>s. ASSUME NEW op, NEW c, NEW todo, Send(t, op, c, todo),
             \/ c = None
             \/ c \in Calls /\ OnScreen(t, c)
             \/ c \in Talk(stream[t]) /\ op = "decline"
      PROVE  \E q : reqs' \subseteq reqs \union {q} /\ (q \in reqs \/ Asks(t, q))
  <2> DEFINE q == Request(t, op, c, todo)
  <2>1. q.tab = t /\ q.stage = "sent" /\ q.call = c /\ q.op = op
    BY DEF Request
  <2>2. reqs' \subseteq reqs \union {q}
    BY <1>s DEF Send
  <2> HIDE DEF q
  <2>3. QED BY <1>s, <2>1, <2>2 DEF Asks
<1>0. /\ incoming[t] \in Calls \union {None} /\ outgoing[t] \in Calls \union {None}
      /\ active[t] \in Calls \union {None, Group}
  BY DEF TypeOK
<1>1. CASE StartCall(t) \/ StartGroupCall(t) \/ InviteToActiveCall(t) \/ JoinChannelCall(t)
  BY <1>1, <1>s DEF StartCall, StartGroupCall, InviteToActiveCall, JoinChannelCall
<1>2. CASE AcceptIncoming(t) \/ DeclineIncoming(t) \/ CancelOutgoing(t)
  BY <1>0, <1>2, <1>s DEF AcceptIncoming, DeclineIncoming, CancelOutgoing, OnScreen
<1>3. CASE EndActive(t)
  BY <1>0, <1>3, <1>s, <1>e DEF EndActive, OnScreen
<1>4. CASE Deliver(t)
  <2> DEFINE c == Head(stream[t]).call
  <2>1. stream[t] # <<>> /\ stream[t] \in Seq(Event)
    BY <1>4 DEF Deliver, OnIncoming, OnAccepted, OnEnded, Pop, TypeOK
  <2>2. c \in Talk(stream[t]) /\ c \in Calls
    BY <2>1, TailTalks, HeadIsTyped
  <2> HIDE DEF c
  <2>3. CASE OnIncoming(t)
    BY <1>s, <1>e, <2>2, <2>3 DEF OnIncoming, c
  <2>4. CASE OnAccepted(t)
    BY <1>s, <1>e, <2>2, <2>4 DEF OnAccepted, c, OnScreen
  <2>5. CASE OnEnded(t)
    BY <1>e, <2>5 DEF OnEnded
  <2>6. QED BY <1>4, <2>3, <2>4, <2>5 DEF Deliver
<1>5. QED BY <1>1, <1>2, <1>3, <1>4 DEF Click

\* Faults of tabs and of the process forget requests, or whose they are.
LEMMA FaultsForget ==
    ASSUME TypeOK,
           (\E t \in Tabs : StreamDrops(t) \/ Reconnect(t) \/ Reload(t)) \/ Restart
    PROVE  /\ \A q \in reqs' : \E r \in reqs :
                /\ q.op = r.op /\ q.call = r.call /\ q.tab \in {r.tab, None}
                /\ Opening(q) => Opening(r)
           /\ \A q, s \in reqs' : Opening(q) /\ s.call = q.call /\ q # s =>
                \E r, p \in reqs : Opening(r) /\ p # r /\ p.call = r.call
<1>1. ASSUME NEW t \in Tabs, StreamDrops(t) \/ Reconnect(t)
      PROVE  reqs' = reqs
  BY <1>1 DEF StreamDrops, Reconnect
<1>m. ASSUME NEW r \in reqs
      PROVE  LET q == [r EXCEPT !.tab = None] IN
             /\ q.op = r.op /\ q.call = r.call /\ q.tab = None /\ q.stage = r.stage
  BY DEF TypeOK, RequestType
<1>2. ASSUME NEW t \in Tabs, Reload(t), NEW q \in reqs'
      PROVE  \E r \in reqs :
                /\ q = IF r.tab = t THEN [r EXCEPT !.tab = None] ELSE r
                /\ q.op = r.op /\ q.call = r.call /\ q.tab \in {r.tab, None}
                /\ q.stage = r.stage
  <2>1. PICK r \in reqs : q = IF r.tab = t THEN [r EXCEPT !.tab = None] ELSE r
    BY <1>2 DEF Reload
  <2>2. QED BY <1>m, <2>1
<1>3. ASSUME Restart, NEW q \in reqs'
      PROVE  /\ q.stage = "done"
             /\ \E r \in reqs : q.op = r.op /\ q.call = r.call /\ q.tab = r.tab
  <2>1. PICK r \in reqs :
           q = IF r.stage = "done" THEN r ELSE [r EXCEPT !.stage = "done", !.ok = FALSE]
    BY <1>3 DEF Restart
  <2>2. q.op = r.op /\ q.call = r.call /\ q.tab = r.tab /\ q.stage = "done"
    <3>1. r \in RequestType
      BY DEF TypeOK
    <3>2. CASE r.stage = "done"
      BY <2>1, <3>2
    <3>3. CASE r.stage # "done"
      <4>1. q = [r EXCEPT !.stage = "done", !.ok = FALSE]
        BY <2>1, <3>3
      <4>2. QED BY <3>1, <4>1 DEF RequestType
    <3>4. QED BY <3>2, <3>3
  <2>3. QED BY <2>2
<1>4. ASSUME NEW q \in reqs'
      PROVE  \E r \in reqs :
                /\ q.op = r.op /\ q.call = r.call /\ q.tab \in {r.tab, None}
                /\ Opening(q) => Opening(r)
  BY <1>1, <1>2, <1>3 DEF Opening
<1>5. ASSUME NEW q \in reqs', NEW s \in reqs', Opening(q), s.call = q.call, q # s
      PROVE  \E r, p \in reqs : Opening(r) /\ p # r /\ p.call = r.call
  <2>1. CASE reqs' = reqs
    BY <1>5, <2>1
  <2>2. CASE Restart
    BY <1>3, <1>5, <2>2 DEF Opening
  <2>3. ASSUME NEW t \in Tabs, Reload(t)
        PROVE  \E r, p \in reqs : Opening(r) /\ p # r /\ p.call = r.call
    <3>1. PICK r \in reqs : /\ q = IF r.tab = t THEN [r EXCEPT !.tab = None] ELSE r
                            /\ q.op = r.op /\ q.call = r.call /\ q.stage = r.stage
      BY <1>2, <2>3
    <3>2. PICK p \in reqs : /\ s = IF p.tab = t THEN [p EXCEPT !.tab = None] ELSE p
                            /\ s.call = p.call
      BY <1>2, <2>3
    <3>3. p # r
      BY <1>5, <3>1, <3>2
    <3>4. QED BY <1>5, <3>1, <3>2, <3>3 DEF Opening
  <2>4. QED BY <1>1, <2>1, <2>2, <2>3
<1>6. QED BY <1>4, <1>5

-----------------------------------------------------------------------------
(* What a step does to the screens and the streams *)

\* The tab reads that the call rings.
Rung(t, c) == OnIncoming(t) /\ Head(stream[t]).call = c

\* A call comes on a screen with an answer, or with a ring.
LEMMA WhatShows ==
    ASSUME TypeOK, [Next]_vars, NEW t \in Tabs, NEW c \in Calls, OnScreen(t, c)'
    PROVE  \/ OnScreen(t, c)
           \/ \E r \in Pending(t, c) : r.stage = "done"
           \/ Rung(t, c)
<1> USE DEF OnScreen
<1>t. c # None
  OBVIOUS
<1>u. ASSUME UNCHANGED screen PROVE OnScreen(t, c)
  BY <1>u DEF screen
<1>1. ASSUME NEW u \in Tabs, Click(u) PROVE OnScreen(t, c)
  BY <1>t, <1>u, <1>1 DEF Click, StartCall, StartGroupCall, InviteToActiveCall,
     JoinChannelCall, AcceptIncoming, DeclineIncoming, CancelOutgoing, EndActive, TypeOK
<1>2. ASSUME NEW u \in Tabs, Deliver(u) PROVE OnScreen(t, c) \/ Rung(t, c)
  <2>1. CASE OnIncoming(u)
    BY <1>t, <2>1 DEF OnIncoming, Rung, TypeOK
  <2>2. CASE OnAccepted(u)
    BY <1>u, <2>2 DEF OnAccepted
  <2>3. CASE OnEnded(u)
    BY <1>t, <2>3 DEF OnEnded, Clear, TypeOK
  <2>4. QED BY <1>2, <2>1, <2>2, <2>3 DEF Deliver
<1>3. ASSUME NEW u \in Tabs, StreamDrops(u) \/ Reconnect(u) PROVE OnScreen(t, c)
  BY <1>u, <1>3 DEF StreamDrops, Reconnect
<1>4. ASSUME NEW u \in Tabs, Reload(u) PROVE OnScreen(t, c)
  BY <1>t, <1>4 DEF Reload, TypeOK
<1>5. ASSUME NEW r \in reqs, Handle(r) \/ RequestFails(r) PROVE OnScreen(t, c)
  BY <1>u, <1>5 DEF Handle, CreateRow, Announce, FinishGroup, AcceptRefused, AcceptCall,
     AnnounceAccept, EndAgain, EndCall, GetCall, AnswerGet, RequestFails
<1>6. ASSUME NEW d \in Calls, AutoMiss(d) PROVE OnScreen(t, c)
  BY <1>u, <1>6 DEF AutoMiss
<1>7. CASE Restart \/ UNCHANGED vars
  BY <1>u, <1>7 DEF Restart, vars, screen
<1>8. ASSUME NEW r \in reqs, Reply(r)
      PROVE  OnScreen(t, c) \/ \E q \in Pending(t, c) : q.stage = "done"
  <2>0. r.stage = "done"
    BY <1>8 DEF Reply, ShowOutgoing, ShowGroup, EnterAccepted, EnterAsCaller, Arrives
  <2>1. CASE r \in Pending(t, c)
    BY <2>0, <2>1
  <2>2. CASE ShowGroup(r)
    BY <1>t, <2>2 DEF ShowGroup, TypeOK
  <2>3. CASE r \notin Pending(t, c) /\ ~ShowGroup(r)
    <3>1. r.op \in {"start", "accept", "get"}
      BY <1>8, <2>3 DEF Reply, ShowOutgoing, EnterAccepted, EnterAsCaller
    <3>2. r.tab # t \/ r.call # c
      BY <2>3, <3>1 DEF Pending
    <3>3. CASE r.tab # t
      BY <1>8, <2>3, <3>3 DEF Reply, ShowOutgoing, EnterAccepted, EnterAsCaller, TypeOK
    <3>4. CASE r.tab = t /\ r.call # c
      BY <1>t, <1>8, <2>3, <3>4 DEF Reply, ShowOutgoing, EnterAccepted, EnterAsCaller, TypeOK
    <3>5. QED BY <3>2, <3>3, <3>4
  <2>4. QED BY <2>1, <2>2, <2>3
<1>9. QED
  BY <1>1, <1>2, <1>3, <1>4, <1>5, <1>6, <1>7, <1>8 DEF Next

\* The server tells the callee of a row its handler is opening, and both
\* parties of an answer or an end.
Emits(c, type, us) ==
    /\ EmitTo(us, type, c) /\ UNCHANGED connected
    /\ Written(c) /\ \A d \in Calls : d # c => status'[d] = status[d]
    /\ us \subseteq Parties(c) /\ caller' = caller /\ callee' = callee
    /\ \/ type = "incoming" /\ UNCHANGED status
          /\ \E r \in reqs : Opening(r) /\ r.call = c /\ r.call \in timer'
       \/ type = "accepted" /\ UNCHANGED status
       \/ type = "ended" /\ us = Parties(c)

\* The events of a call.
EventTypes == {"incoming", "accepted", "ended"}

\* The streams stay, and no call ends.
Quiet ==
    /\ UNCHANGED <<stream, blind>>
    /\ connected \subseteq connected'
    /\ \A d \in Calls : status'[d] \in Terminal => status'[d] = status[d]

\* Streams are cut.
Breaks(T) == Cut(T) /\ UNCHANGED status

\* What a step does to the streams: an event, nothing, a cut, or a tab that reads.
LEMMA StreamMoves ==
    ASSUME TypeOK, GoodReqs, RowsComeFirst, [Next]_vars
    PROVE  \/ \E c \in Calls, type \in EventTypes : \E us : Emits(c, type, us)
           \/ Quiet
           \/ \E T \in SUBSET Tabs : Breaks(T)
           \/ \E t \in Tabs : Deliver(t)
<1> DEFINE P == \E c \in Calls, type \in EventTypes : \E us : Emits(c, type, us)
<1>u. ASSUME UNCHANGED <<stream, blind, connected, status>> PROVE Quiet
  BY <1>u DEF Quiet
<1>1. ASSUME NEW t \in Tabs, Click(t) PROVE Quiet
  BY <1>u, <1>1 DEF Click, StartCall, StartGroupCall, InviteToActiveCall, JoinChannelCall,
     AcceptIncoming, DeclineIncoming, CancelOutgoing, EndActive, db
<1>2. ASSUME NEW t \in Tabs, StreamDrops(t) \/ Reload(t) PROVE Breaks({t})
  BY <1>2 DEF StreamDrops, Reload, db, Breaks
<1>3. ASSUME NEW t \in Tabs, Reconnect(t) PROVE Quiet
  BY <1>3 DEF Reconnect, Quiet, db
<1>4. CASE Restart
  BY <1>4 DEF Restart, Breaks, db
<1>5. ASSUME NEW r \in reqs, Reply(r) \/ RequestFails(r) PROVE Quiet
  BY <1>u, <1>5 DEF Reply, ShowOutgoing, ShowGroup, EnterAccepted, EnterAsCaller,
     RequestFails, db
<1>6. CASE UNCHANGED vars
  BY <1>u, <1>6 DEF vars
<1>7. ASSUME NEW c \in Calls, AutoMiss(c) PROVE Quiet \/ P
  <2>1. CASE status[c] = "ringing"
    <3>1. Emits(c, "ended", Parties(c))
      <4>1. Written(c)
        BY <2>1 DEF Written
      <4>2. /\ EmitTo(Parties(c), "ended", c) /\ UNCHANGED <<connected, caller, callee>>
            /\ \A d \in Calls : d # c => status'[d] = status[d]
        BY <1>7, <2>1 DEF AutoMiss, SetStatus, TypeOK
      <4>3. QED BY <4>1, <4>2 DEF Emits
    <3>2. QED BY <3>1 DEF EventTypes
  <2>2. CASE status[c] # "ringing"
    BY <1>u, <1>7, <2>2 DEF AutoMiss
  <2>3. QED BY <2>1, <2>2
<1>8. ASSUME NEW r \in reqs, Handle(r) PROVE Quiet \/ P
  <2>0. r \in RequestType /\ GoodReq(r) /\ (r.call # None => Written(r.call))
    BY DEF TypeOK, GoodReqs, RowsComeFirst
  <2>1. CASE Announce(r)
    <3>1. r.call \in Calls /\ Opening(r) /\ Written(r.call)
      BY <2>0, <2>1 DEF Announce, GoodReq, RowOps, Opening
    <3>2. Emits(r.call, "incoming", {callee[r.call]})
      BY <2>1, <3>1 DEF Announce, Emits, Parties, db
    <3>3. QED BY <3>1, <3>2 DEF EventTypes
  <2>2. CASE AnnounceAccept(r)
    <3>1. r.call \in Calls /\ Written(r.call)
      BY <2>0, <2>2 DEF AnnounceAccept, GoodReq
    <3>2. Emits(r.call, "accepted", Parties(r.call))
      BY <2>2, <3>1 DEF AnnounceAccept, Emits, db
    <3>3. QED BY <3>1, <3>2 DEF EventTypes
  <2>3. CASE EndCall(r)
    <3>1. r.call \in Calls /\ Written(r.call)
      BY <2>0, <2>3 DEF EndCall, GoodReq
    <3>2. \A d \in Calls : d # r.call => status'[d] = status[d]
      BY <2>3, <3>1 DEF EndCall, SetStatus, TypeOK
    <3>3. Emits(r.call, "ended", Parties(r.call))
      BY <2>3, <3>1, <3>2 DEF EndCall, Emits
    <3>4. QED BY <3>1, <3>3 DEF EventTypes
  <2>4. CASE CreateRow(r)
    <3>1. PICK p \in r.todo : SetStatus(p[1], "ringing")
      BY <2>4 DEF CreateRow
    <3>2. \A d \in Calls : status'[d] \in Terminal => status'[d] = status[d]
      BY <3>1 DEF SetStatus, TypeOK, Terminal
    <3>3. QED BY <2>4, <3>2 DEF CreateRow, Quiet
  <2>5. CASE AcceptCall(r)
    <3>1. \A d \in Calls : status'[d] \in Terminal => status'[d] = status[d]
      BY <2>5 DEF AcceptCall, SetStatus, TypeOK, Terminal
    <3>2. QED BY <2>5, <3>1 DEF AcceptCall, Quiet
  <2>6. CASE \/ FinishGroup(r) \/ AcceptRefused(r) \/ EndAgain(r)
             \/ GetCall(r) \/ AnswerGet(r)
    BY <1>u, <2>6 DEF FinishGroup, AcceptRefused, EndAgain, GetCall, AnswerGet, db
  <2>7. QED BY <1>8, <2>1, <2>2, <2>3, <2>4, <2>5, <2>6 DEF Handle
<1>9. QED
  BY <1>1, <1>2, <1>3, <1>4, <1>5, <1>6, <1>7, <1>8 DEF Next

-----------------------------------------------------------------------------
(* Where requests, screens and events come from *)

\* Where a request comes from: one that was there, a handler of a new row, or a tab.
LEMMA RequestOrigins ==
    ASSUME TypeOK, GoodReqs, [Next]_vars, NEW q \in reqs'
    PROVE  \/ \E r \in reqs : q.op = r.op /\ q.call \in {r.call, None} /\ q.tab \in {r.tab, None}
           \/ Fresh(q)
           \/ \E t \in Tabs : Asks(t, q)
<1>1. ASSUME NEW r \in reqs, Handle(r) \/ RequestFails(r)
      PROVE  q \in reqs \/ Fresh(q)
                \/ (q.op = r.op /\ q.call \in {r.call, None} /\ q.tab = r.tab)
  <2>1. PICK p : GoesOn(r, p)
    BY <1>1, HandlerGoesOn
  <2>2. QED BY <2>1 DEF GoesOn
<1>2. ASSUME NEW t \in Tabs, Click(t) \/ Deliver(t) PROVE q \in reqs \/ Asks(t, q)
  BY <1>2, TabAsks
<1>3. ASSUME (\E t \in Tabs : StreamDrops(t) \/ Reconnect(t) \/ Reload(t)) \/ Restart
      PROVE  \E r \in reqs : q.op = r.op /\ q.call = r.call /\ q.tab \in {r.tab, None}
  BY <1>3, FaultsForget
<1>4. ASSUME NEW r \in reqs, Reply(r) PROVE q \in reqs
  BY <1>4 DEF Reply, ShowOutgoing, ShowGroup, EnterAccepted, EnterAsCaller, Arrives
<1>5. ASSUME (\E c \in Calls : AutoMiss(c)) \/ UNCHANGED vars PROVE q \in reqs
  BY <1>5 DEF AutoMiss, vars
<1>6. QED BY <1>1, <1>2, <1>3, <1>4, <1>5 DEF Next

\* Where a screen that needs an end comes from.
LEMMA WhatIsDue ==
    ASSUME TypeOK, GoodReqs, [Next]_vars, NEW t \in Tabs, NEW c \in Calls, Due(t, c)'
    PROVE  \/ Due(t, c)
           \/ \E q \in reqs' : Fresh(q) /\ q.call = c /\ q.tab = t
           \/ Rung(t, c)
<1>t. c # None /\ t # None
  OBVIOUS
<1>1. CASE OnScreen(t, c)'
  BY <1>1, WhatShows DEF Due
<1>2. CASE Pending(t, c)' # {}
  <2>1. PICK q \in reqs' : q.tab = t /\ q.call = c /\ q.op \in {"start", "accept", "get"}
    BY <1>2 DEF Pending
  <2>2. CASE \E r \in reqs : q.op = r.op /\ q.call \in {r.call, None}
                             /\ q.tab \in {r.tab, None}
    <3>1. PICK r \in reqs : q.op = r.op /\ q.call = r.call /\ q.tab = r.tab
      BY <1>t, <2>1, <2>2
    <3>2. r \in Pending(t, c)
      BY <2>1, <3>1 DEF Pending
    <3>3. QED BY <3>2 DEF Due
  <2>3. CASE \E u \in Tabs : Asks(u, q)
    BY <1>t, <2>1, <2>3 DEF Asks, Due
  <2>4. QED BY <2>1, <2>2, <2>3, RequestOrigins
<1>3. QED BY <1>1, <1>2 DEF Due

\* What the delivery of an event does to the streams.
LEMMA DeliveryPops ==
    ASSUME TypeOK, NEW t \in Tabs, Deliver(t)
    PROVE  /\ stream[t] # <<>> /\ stream[t] \in Seq(Event)
           /\ stream'[t] = Tail(stream[t])
           /\ \A u \in Tabs : u # t => stream'[u] = stream[u]
           /\ UNCHANGED <<status, timer, connected>> /\ blind \subseteq blind'
BY DEF TypeOK, Deliver, OnIncoming, OnAccepted, OnEnded, Pop, db

\* What an emission does to the streams.
LEMMA EmissionAppends ==
    ASSUME TypeOK, NEW c \in Calls, NEW type \in EventTypes, NEW us, Emits(c, type, us),
           NEW t \in Tabs
    PROVE  LET e == [type |-> type, call |-> c] IN
           /\ e \in Event /\ e.type = type /\ e.call = c /\ stream[t] \in Seq(Event)
           /\ blind \subseteq blind'
           /\ IF t \in connected /\ Owner[t] \in us
              THEN stream'[t] = Append(stream[t], e)
              ELSE stream'[t] = stream[t]
           /\ type = "ended" /\ Owner[t] \in us /\ t \notin connected => <<t, c>> \in blind'
<1>1. [type |-> type, call |-> c] \in Event
  BY DEF Event, EventTypes
<1>2. QED BY <1>1 DEF Emits, EmitTo, TypeOK

\* A cut empties the streams, and what was to end on them is known to be lost.
LEMMA CutLosesAll ==
    ASSUME TypeOK, NEW T \in SUBSET Tabs, Breaks(T), NEW t \in Tabs
    PROVE  /\ stream'[t] = IF t \in T THEN <<>> ELSE stream[t]
           /\ connected' = connected \ T /\ UNCHANGED status /\ blind \subseteq blind'
           /\ t \in T => \A c \in Ends(stream[t]) : <<t, c>> \in blind'
<1>1. Ends(stream[t]) = EndedIn(t)
  BY DEF Ends, EndedIn
<1>2. QED BY <1>1 DEF Breaks, Cut, TypeOK

-----------------------------------------------------------------------------
(* The parts of the invariant *)

\* Nothing is written to a stream that is cut.
LEMMA CutStaysEmpty ==
    ASSUME TypeOK, GoodReqs, RowsComeFirst, CutIsEmpty, [Next]_vars
    PROVE  CutIsEmpty'
<1> SUFFICES ASSUME NEW t \in Tabs, t \notin connected' PROVE stream'[t] = <<>>
  BY DEF CutIsEmpty
<1>0. t \notin connected => stream[t] = <<>>
  BY DEF CutIsEmpty
<1>1. ASSUME NEW c \in Calls, NEW type \in EventTypes, NEW us, Emits(c, type, us)
      PROVE  stream'[t] = <<>>
  BY <1>0, <1>1, EmissionAppends DEF Emits
<1>2. CASE Quiet
  BY <1>0, <1>2 DEF Quiet
<1>3. ASSUME NEW T \in SUBSET Tabs, Breaks(T) PROVE stream'[t] = <<>>
  BY <1>0, <1>3, CutLosesAll
<1>4. ASSUME NEW u \in Tabs, Deliver(u) PROVE stream'[t] = <<>>
  BY <1>0, <1>4, DeliveryPops
<1>5. QED BY <1>1, <1>2, <1>3, <1>4, StreamMoves

\* Rows are written before anything is about them.
LEMMA RowsStayFirst ==
    ASSUME TypeOK, GoodReqs, PartiesStay, RowsComeFirst, OnlyPartiesHear, [Next]_vars
    PROVE  RowsComeFirst'
<1>w. \A c \in Calls : Written(c) => Written(c)'
  BY DEF PartiesStay
<1>1. ASSUME NEW q \in reqs', q.call # None PROVE Written(q.call)'
  <2>1. CASE \E r \in reqs : q.call \in {r.call, None}
    BY <1>1, <1>w, <2>1 DEF RowsComeFirst, Written
  <2>2. CASE Fresh(q)
    BY <2>2 DEF Fresh, Written
  <2>3. CASE \E t \in Tabs : Asks(t, q)
    <3>1. PICK t \in Tabs : Asks(t, q)
      BY <2>3
    <3>2. q.call \in Calls
      <4>1. Talk(stream[t]) \subseteq Calls
        <5>1. \A i \in 1..Len(stream[t]) : stream[t][i] \in Event
          BY DEF TypeOK
        <5>2. QED BY <5>1 DEF Talk, Event
      <4>2. QED BY <1>1, <3>1, <4>1 DEF Asks
    <3>3. Written(q.call)
      BY <1>1, <3>1, <3>2 DEF Asks, OnlyPartiesHear, Due
    <3>4. QED BY <1>w, <3>2, <3>3
  <2>4. QED BY <2>1, <2>2, <2>3, RequestOrigins
<1>2. ASSUME NEW c \in timer' PROVE c \in timer \/ \E r \in reqs : r.call = c /\ c # None
  <2>1. ASSUME NEW t \in Tabs,
               Click(t) \/ Deliver(t) \/ StreamDrops(t) \/ Reconnect(t) \/ Reload(t)
        PROVE  timer' = timer
    BY <2>1 DEF Click, StartCall, StartGroupCall, InviteToActiveCall, JoinChannelCall,
       AcceptIncoming, DeclineIncoming, CancelOutgoing, EndActive, Deliver, OnIncoming,
       OnAccepted, OnEnded, StreamDrops, Reconnect, Reload
  <2>2. ASSUME NEW r \in reqs, Reply(r) \/ RequestFails(r) PROVE timer' = timer
    BY <2>2 DEF Reply, ShowOutgoing, ShowGroup, EnterAccepted, EnterAsCaller,
       RequestFails
  <2>3. ASSUME NEW r \in reqs, Handle(r)
        PROVE  c \in timer \/ (r.call = c /\ c # None)
    <3>1. CASE Announce(r)
      BY <3>1 DEF Announce, GoodReqs, GoodReq, RowOps
    <3>2. CASE ~Announce(r)
      BY <2>3, <3>2 DEF Handle, CreateRow, FinishGroup, AcceptRefused, AcceptCall,
         AnnounceAccept, EndAgain, EndCall, GetCall, AnswerGet
    <3>3. QED BY <3>1, <3>2
  <2>4. ASSUME (\E d \in Calls : AutoMiss(d)) \/ Restart \/ UNCHANGED vars
        PROVE  timer' \subseteq timer
    BY <2>4 DEF AutoMiss, Restart, vars
  <2>5. QED BY <2>1, <2>2, <2>3, <2>4 DEF Next
<1>3. \A c \in timer' : Written(c)'
  BY <1>w, <1>2 DEF RowsComeFirst, Written
<1>4. QED BY <1>1, <1>3 DEF RowsComeFirst

\* Events of a call go to its parties.
LEMMA OnlyPartiesStillHear ==
    ASSUME TypeOK, GoodReqs, PartiesStay, RowsComeFirst, OnlyPartiesHear, CallersSide',
           [Next]_vars
    PROVE  OnlyPartiesHear'
<1> SUFFICES ASSUME NEW t \in Tabs, NEW c \in Calls, Due(t, c)' \/ c \in Talk(stream'[t])
             PROVE  Written(c)' /\ Owner[t] \in Parties(c)'
  BY DEF OnlyPartiesHear
<1>0. Written(c) /\ Owner[t] \in Parties(c) => Written(c)' /\ Owner[t] \in Parties(c)'
  BY DEF PartiesStay, Parties
<1>i. Due(t, c) \/ c \in Talk(stream[t]) => Written(c) /\ Owner[t] \in Parties(c)
  BY DEF OnlyPartiesHear
<1>1. CASE Due(t, c)'
  <2>1. ASSUME NEW q \in reqs', Fresh(q), q.call = c, q.tab = t
        PROVE  Written(c)' /\ Owner[t] \in Parties(c)'
    <3>1. Owner[t] = q.user
      BY <2>1 DEF CallersSide, CallersReq
    <3>2. QED BY <2>1, <3>1 DEF Fresh, Written, Parties
  <2>2. CASE Rung(t, c)
    <3>1. Deliver(t)
      BY <2>2 DEF Rung, Deliver
    <3>2. c \in Talk(stream[t])
      BY <2>2, <3>1, DeliveryPops, TailTalks DEF Rung
    <3>3. QED BY <1>0, <1>i, <3>2
  <2>3. QED BY <1>0, <1>i, <1>1, <2>1, <2>2, WhatIsDue
<1>2. CASE c \in Talk(stream'[t])
  <2>1. ASSUME NEW d \in Calls, NEW type \in EventTypes, NEW us, Emits(d, type, us)
        PROVE  Written(c) /\ Owner[t] \in Parties(c)
    <3> DEFINE e == [type |-> type, call |-> d]
    <3>1. /\ e \in Event /\ e.call = d /\ e.type = type /\ stream[t] \in Seq(Event)
          /\ blind \subseteq blind'
          /\ IF t \in connected /\ Owner[t] \in us
             THEN stream'[t] = Append(stream[t], e) ELSE stream'[t] = stream[t]
          /\ type = "ended" /\ Owner[t] \in us /\ t \notin connected => <<t, d>> \in blind'
      BY <2>1, EmissionAppends
    <3>2. Written(d) /\ us \subseteq Parties(d)
      BY <2>1 DEF Emits
    <3> HIDE DEF e
    <3>3. QED BY <1>2, <1>i, <3>1, <3>2, StreamGrows
  <2>2. ASSUME Quiet PROVE Written(c) /\ Owner[t] \in Parties(c)
    BY <1>2, <1>i, <2>2 DEF Quiet
  <2>3. ASSUME NEW T \in SUBSET Tabs, Breaks(T) PROVE Written(c) /\ Owner[t] \in Parties(c)
    BY <1>2, <1>i, <2>3, CutLosesAll, EmptyIsSilent
  <2>4. ASSUME NEW u \in Tabs, Deliver(u) PROVE Written(c) /\ Owner[t] \in Parties(c)
    <3>1. CASE u = t
      BY <1>2, <1>i, <2>4, <3>1, DeliveryPops, TailTalks
    <3>2. CASE u # t
      BY <1>2, <1>i, <2>4, <3>2, DeliveryPops
    <3>3. QED BY <3>1, <3>2
  <2>5. QED BY <1>0, <2>1, <2>2, <2>3, <2>4, StreamMoves
<1>3. QED BY <1>1, <1>2

\* A screen that needs an end keeps it on its stream, or lost it to a cut.
LEMMA EndStaysTold ==
    ASSUME TypeOK, GoodReqs, RowsComeFirst, OnlyPartiesHear, DueIsTold, RingThenEnd,
           [Next]_vars
    PROVE  DueIsTold'
<1> SUFFICES ASSUME NEW t \in Tabs, NEW c \in Calls, Due(t, c)', status'[c] \in Terminal
             PROVE  c \in Ends(stream'[t]) \/ <<t, c>> \in blind'
  BY DEF DueIsTold
<1>1. CASE Rung(t, c)
  <2>1. Deliver(t) /\ blind' = blind
    BY <1>1 DEF Rung, Deliver, OnIncoming
  <2>2. Head(stream[t]) = [type |-> "incoming", call |-> c]
    <3>1. Head(stream[t]) \in Event /\ Head(stream[t]).type = "incoming"
          /\ Head(stream[t]).call = c
      BY <1>1, <2>1, DeliveryPops, HeadIsTyped DEF Rung, OnIncoming, Pop
    <3>2. QED BY <3>1 DEF Event
  <2>3. Unended(stream[t], c) \/ c \in Ends(stream'[t])
    BY <2>1, <2>2, DeliveryPops, TailTalks
  <2>4. QED BY <2>1, <2>3, DeliveryPops DEF RingThenEnd
<1>2. CASE ~Rung(t, c)
  <2>1. Due(t, c)
    <3>1. ASSUME NEW q \in reqs', Fresh(q), q.call = c PROVE FALSE
      BY <3>1 DEF Fresh, Terminal
    <3>2. QED BY <1>2, <3>1, WhatIsDue
  <2>2. status[c] \in Terminal => c \in Ends(stream[t]) \/ <<t, c>> \in blind
    BY <2>1 DEF DueIsTold
  <2>3. ASSUME NEW d \in Calls, NEW type \in EventTypes, NEW us, Emits(d, type, us)
        PROVE  c \in Ends(stream'[t]) \/ <<t, c>> \in blind'
    <3> DEFINE e == [type |-> type, call |-> d]
    <3>1. /\ e \in Event /\ e.call = d /\ e.type = type /\ stream[t] \in Seq(Event)
          /\ blind \subseteq blind'
          /\ IF t \in connected /\ Owner[t] \in us
             THEN stream'[t] = Append(stream[t], e) ELSE stream'[t] = stream[t]
          /\ type = "ended" /\ Owner[t] \in us /\ t \notin connected => <<t, d>> \in blind'
      BY <2>3, EmissionAppends
    <3> HIDE DEF e
    <3>2. Ends(stream[t]) \subseteq Ends(stream'[t])
      BY <3>1, StreamGrows
    <3>3. CASE c = d /\ type = "ended"
      <4>1. Owner[t] \in us
        BY <2>1, <2>3, <3>3 DEF Emits, OnlyPartiesHear
      <4>2. QED BY <3>1, <3>3, <4>1, StreamGrows
    <3>4. CASE c # d \/ type # "ended"
      <4>1. status'[c] = status[c]
        BY <2>3, <3>4 DEF Emits
      <4>2. QED BY <2>2, <3>1, <3>2, <4>1
    <3>5. QED BY <3>3, <3>4
  <2>4. CASE Quiet
    BY <2>2, <2>4 DEF Quiet
  <2>5. ASSUME NEW T \in SUBSET Tabs, Breaks(T)
        PROVE  c \in Ends(stream'[t]) \/ <<t, c>> \in blind'
    BY <2>2, <2>5, CutLosesAll
  <2>6. ASSUME NEW u \in Tabs, Deliver(u)
        PROVE  c \in Ends(stream'[t]) \/ <<t, c>> \in blind'
    <3>0. status'[c] = status[c] /\ blind \subseteq blind'
      BY <2>6, DeliveryPops
    <3>1. CASE u # t
      BY <2>2, <2>6, <3>0, <3>1, DeliveryPops
    <3>2. CASE u = t /\ Head(stream[t]).type = "ended" /\ Head(stream[t]).call = c
      <4>1. OnEnded(t)
        BY <2>6, <3>2 DEF Deliver, OnIncoming, OnAccepted, Pop
      <4>2. ~OnScreen(t, c)'
        BY <3>2, <4>1 DEF OnEnded, Clear, OnScreen, TypeOK
      <4>3. Pending(t, c) # {}
        BY <4>1, <4>2 DEF OnEnded, Due, Pending
      <4>4. QED BY <3>2, <4>1, <4>3 DEF OnEnded
    <3>3. CASE u = t /\ ~(Head(stream[t]).type = "ended" /\ Head(stream[t]).call = c)
      BY <2>2, <2>6, <3>0, <3>3, DeliveryPops, TailTalks
    <3>4. QED BY <3>1, <3>2, <3>3
  <2>7. QED BY <2>3, <2>4, <2>5, <2>6, StreamMoves
<1>3. QED BY <1>1, <1>2

\* A ring that nothing ends is not of a call that is over, or a cut lost the end.
LEMMA RingsStayBeforeEnds ==
    ASSUME TypeOK, GoodReqs, RowsComeFirst, OnlyPartiesHear, UnknownBeforeRing,
           RingThenEnd, [Next]_vars
    PROVE  RingThenEnd'
<1> SUFFICES ASSUME NEW t \in Tabs, NEW c \in Calls, Unended(stream'[t], c),
                    status'[c] \in Terminal
             PROVE  <<t, c>> \in blind'
  BY DEF RingThenEnd
<1>i. Unended(stream[t], c) /\ status[c] \in Terminal => <<t, c>> \in blind
  BY DEF RingThenEnd
<1>1. ASSUME NEW d \in Calls, NEW type \in EventTypes, NEW us, Emits(d, type, us)
      PROVE  <<t, c>> \in blind'
  <2> DEFINE e == [type |-> type, call |-> d]
             end == [type |-> "ended", call |-> c]
             ring == [type |-> "incoming", call |-> c]
  <2>1. /\ e \in Event /\ e.call = d /\ e.type = type /\ stream[t] \in Seq(Event)
        /\ blind \subseteq blind'
        /\ IF t \in connected /\ Owner[t] \in us
           THEN stream'[t] = Append(stream[t], e) ELSE stream'[t] = stream[t]
        /\ type = "ended" /\ Owner[t] \in us /\ t \notin connected => <<t, d>> \in blind'
    BY <1>1, EmissionAppends
  <2>2. (type = "ended" /\ d = c) => e = end
    OBVIOUS
  <2>3. e = ring => type = "incoming" /\ d = c
    OBVIOUS
  <2>4. type # "ended" \/ d # c => status'[c] = status[c]
    BY <1>1 DEF Emits
  <2> HIDE DEF e, end, ring
  <2>5. CASE t \in connected /\ Owner[t] \in us
    <3>1. (Unended(stream[t], c) /\ e # end) \/ e = ring
      BY <2>1, <2>5, StreamGrows DEF end, ring
    <3>2. CASE e = ring
      <4>1. PICK r \in reqs : Opening(r) /\ r.call = c
        BY <1>1, <2>3, <3>2 DEF Emits
      <4>2. status[c] = "ringing"
        BY <4>1 DEF UnknownBeforeRing, Unknown
      <4>3. QED BY <2>3, <2>4, <3>2, <4>2 DEF Terminal
    <3>3. CASE Unended(stream[t], c) /\ e # end
      BY <1>i, <2>1, <2>2, <2>4, <3>3
    <3>4. QED BY <3>1, <3>2, <3>3
  <2>6. CASE ~(t \in connected /\ Owner[t] \in us)
    <3>1. Unended(stream[t], c)
      BY <2>1, <2>6
    <3>2. CASE type = "ended" /\ d = c
      <4>1. c \in Talk(stream[t])
        BY <3>1 DEF Unended, Talk
      <4>2. Owner[t] \in us
        BY <1>1, <3>2, <4>1 DEF OnlyPartiesHear, Emits
      <4>3. QED BY <2>1, <2>6, <3>2, <4>2
    <3>3. CASE ~(type = "ended" /\ d = c)
      BY <1>i, <2>1, <2>4, <3>1, <3>3
    <3>4. QED BY <3>2, <3>3
  <2>7. QED BY <2>5, <2>6
<1>2. CASE Quiet
  BY <1>i, <1>2 DEF Quiet
<1>3. ASSUME NEW T \in SUBSET Tabs, Breaks(T) PROVE <<t, c>> \in blind'
  BY <1>i, <1>3, CutLosesAll, EmptyIsSilent
<1>4. ASSUME NEW u \in Tabs, Deliver(u) PROVE <<t, c>> \in blind'
  <2>1. status'[c] = status[c] /\ blind \subseteq blind'
    BY <1>4, DeliveryPops
  <2>2. Unended(stream[t], c)
    BY <1>4, DeliveryPops, TailTalks
  <2>3. QED BY <1>i, <2>1, <2>2
<1>5. QED BY <1>1, <1>2, <1>3, <1>4, StreamMoves

\* A handler touches no other row than its own, or a fresh one.
LEMMA HandlerMindsItsRow ==
    ASSUME TypeOK, GoodReqs, NEW r \in reqs, Handle(r) \/ RequestFails(r),
           NEW c \in Calls, c # r.call, status[c] # "none"
    PROVE  /\ status'[c] = status[c] /\ (c \in timer' => c \in timer)
           /\ UNCHANGED screen
           /\ \A t \in Tabs : c \in Talk(stream'[t]) => c \in Talk(stream[t])
<1>0. r \in RequestType /\ GoodReq(r)
  BY DEF TypeOK, GoodReqs
<1>1. UNCHANGED screen
  BY DEF Handle, CreateRow, Announce, FinishGroup, AcceptRefused, AcceptCall,
     AnnounceAccept, EndAgain, EndCall, GetCall, AnswerGet, RequestFails, screen
<1>2. c \in timer' => c \in timer
  BY DEF Handle, CreateRow, Announce, FinishGroup, AcceptRefused, AcceptCall,
     AnnounceAccept, EndAgain, EndCall, GetCall, AnswerGet, RequestFails
<1>3. status'[c] = status[c]
  <2>1. CASE CreateRow(r)
    BY <2>1 DEF CreateRow, SetStatus, TypeOK
  <2>2. CASE AcceptCall(r) \/ EndCall(r)
    BY <2>2 DEF AcceptCall, EndCall, SetStatus, TypeOK
  <2>3. CASE ~(CreateRow(r) \/ AcceptCall(r) \/ EndCall(r))
    BY <2>3 DEF Handle, Announce, FinishGroup, AcceptRefused,
       AnnounceAccept, EndAgain, GetCall, AnswerGet, RequestFails, db
  <2>4. QED BY <2>1, <2>2, <2>3
<1>4. ASSUME NEW t \in Tabs, c \in Talk(stream'[t]) PROVE c \in Talk(stream[t])
  <2>e. ASSUME NEW type \in EventTypes, NEW us, EmitTo(us, type, r.call), r.call \in Calls
        PROVE  c \in Talk(stream[t])
    <3> DEFINE e == [type |-> type, call |-> r.call]
    <3>1. e \in Event /\ e.call = r.call
      BY <2>e DEF Event, EventTypes
    <3>2. stream'[t] = Append(stream[t], e) \/ stream'[t] = stream[t]
      BY <2>e DEF EmitTo
    <3>3. stream[t] \in Seq(Event)
      BY DEF TypeOK
    <3> HIDE DEF e
    <3>4. QED BY <1>4, <3>1, <3>2, <3>3, StreamGrows
  <2>1. CASE Announce(r)
    BY <1>0, <2>1, <2>e DEF Announce, GoodReq, RowOps, EventTypes
  <2>2. CASE AnnounceAccept(r)
    BY <1>0, <2>2, <2>e DEF AnnounceAccept, GoodReq, EventTypes
  <2>3. CASE EndCall(r)
    BY <1>0, <2>3, <2>e DEF EndCall, GoodReq, EventTypes
  <2>4. CASE ~(Announce(r) \/ AnnounceAccept(r) \/ EndCall(r))
    BY <1>4, <2>4 DEF Handle, CreateRow, FinishGroup, AcceptRefused, AcceptCall,
       EndAgain, GetCall, AnswerGet, RequestFails
  <2>5. QED BY <2>1, <2>2, <2>3, <2>4
<1>5. QED BY <1>1, <1>2, <1>3, <1>4

\* Steps of the tabs, the timers and the faults know nothing of an unknown row.
LEMMA OthersKeepUnknown ==
    ASSUME TypeOK, GoodReqs, UnknownBeforeRing, [Next]_vars,
           NEW r \in reqs, Opening(r), r.call \in Calls, NEW q, q.call = r.call,
           \A s \in reqs' : s.call = r.call => s = q,
           status'[r.call] = status[r.call], r.call \in timer' => r.call \in timer,
           \A t \in Tabs : Talk(stream'[t]) \subseteq Talk(stream[t])
    PROVE  Unknown(q)'
<1>1. Unknown(r)
  BY DEF UnknownBeforeRing
<1>2. ASSUME NEW t \in Tabs PROVE ~OnScreen(t, r.call)'
  <2>1. ~OnScreen(t, r.call) /\ r.call \notin Talk(stream[t])
    BY <1>1 DEF Unknown
  <2>2. ASSUME NEW p \in Pending(t, r.call), p.stage = "done" PROVE FALSE
    BY <1>1, <2>2 DEF Pending, Unknown, Opening
  <2>3. ASSUME Rung(t, r.call) PROVE FALSE
    BY <2>1, <2>3, DeliveryPops, TailTalks DEF Rung, Deliver
  <2>4. QED BY <2>1, <2>2, <2>3, WhatShows
<1>3. QED BY <1>1, <1>2 DEF Unknown

\* A call that is being opened stays unknown.
LEMMA RowStaysUnknown ==
    ASSUME TypeOK, GoodReqs, GoodReqs', RowsComeFirst, OnlyPartiesHear, UnknownBeforeRing,
           [Next]_vars
    PROVE  UnknownBeforeRing'
<1> SUFFICES ASSUME NEW q \in reqs', Opening(q) PROVE Unknown(q)'
  BY DEF UnknownBeforeRing, Opening
<1>c. q.call \in Calls
  BY DEF Opening, GoodReqs, GoodReq
<1>s. ASSUME NEW r \in reqs, Opening(r) PROVE Unknown(r)
  BY <1>s DEF UnknownBeforeRing
<1>1. ASSUME NEW r \in reqs, Handle(r) \/ RequestFails(r) PROVE Unknown(q)'
  <2>1. PICK p : GoesOn(r, p)
    BY <1>1, HandlerGoesOn
  <2>2. CASE q \in reqs /\ q # r
    <3>1. Unknown(q) /\ r.call # q.call
      BY <1>s, <2>2 DEF Unknown
    <3>2. \A s \in reqs' : s.call = q.call => s = q
      BY <1>c, <2>1, <3>1 DEF GoesOn, Unknown, Fresh
    <3>3. /\ status'[q.call] = status[q.call] /\ (q.call \in timer' => q.call \in timer)
          /\ UNCHANGED screen
          /\ \A t \in Tabs : q.call \in Talk(stream'[t]) => q.call \in Talk(stream[t])
      BY <1>1, <1>c, <3>1, HandlerMindsItsRow DEF Unknown
    <3>4. QED BY <3>1, <3>2, <3>3 DEF Unknown, OnScreen, screen
  <2>3. CASE ~(q \in reqs /\ q # r)
    <3>1. q = p /\ Fresh(p)
      BY <2>1, <2>3 DEF GoesOn
    <3>2. ~Written(q.call)
      BY <3>1 DEF Fresh, Written
    <3>3. \A s \in reqs' : s.call = q.call => s = q
      BY <1>c, <2>1, <3>1, <3>2 DEF GoesOn, RowsComeFirst
    <3>4. q.call \notin timer /\ \A t \in Tabs : ~OnScreen(t, q.call)
                                    /\ q.call \notin Talk(stream[t])
      BY <1>c, <3>2 DEF RowsComeFirst, OnlyPartiesHear, Due
    <3>5. QED BY <3>1, <3>3, <3>4 DEF Fresh, Unknown, OnScreen, screen
  <2>4. QED BY <2>2, <2>3
<1>2. ASSUME NEW u \in Tabs, Click(u) \/ Deliver(u) PROVE Unknown(q)'
  <2>1. PICK p : reqs' \subseteq reqs \union {p} /\ (p \in reqs \/ Asks(u, p))
    BY <1>2, TabAsks
  <2>2. q \in reqs /\ Unknown(q)
    BY <1>s, <2>1 DEF Asks, Opening
  <2>3. \A s \in reqs' : s.call = q.call => s = q
    BY <1>c, <2>1, <2>2 DEF Asks, Unknown
  <2>4. UNCHANGED <<status, timer>>
    BY <1>2 DEF Click, StartCall, StartGroupCall, InviteToActiveCall, JoinChannelCall,
       AcceptIncoming, DeclineIncoming, CancelOutgoing, EndActive, Deliver, OnIncoming,
       OnAccepted, OnEnded, db
  <2>5. \A t \in Tabs : Talk(stream'[t]) \subseteq Talk(stream[t])
    <3>1. CASE Click(u)
      BY <3>1 DEF Click, StartCall, StartGroupCall, InviteToActiveCall, JoinChannelCall,
         AcceptIncoming, DeclineIncoming, CancelOutgoing, EndActive
    <3>2. CASE Deliver(u)
      BY <3>2, DeliveryPops, TailTalks
    <3>3. QED BY <1>2, <3>1, <3>2
  <2>6. QED BY <1>c, <2>2, <2>3, <2>4, <2>5, OthersKeepUnknown
<1>3. ASSUME (\E t \in Tabs : StreamDrops(t) \/ Reconnect(t) \/ Reload(t)) \/ Restart
      PROVE  Unknown(q)'
  <2>1. PICK r \in reqs : Opening(r) /\ q.call = r.call
    BY <1>3, FaultsForget
  <2>2. Unknown(r)
    BY <1>s, <2>1
  <2>3. ASSUME NEW s \in reqs', s.call = q.call, s # q PROVE FALSE
    <3>1. PICK o, p \in reqs : Opening(o) /\ p # o /\ p.call = o.call
      BY <1>3, <2>3, FaultsForget
    <3>2. QED BY <1>s, <3>1 DEF Unknown
  <2>4. UNCHANGED status /\ timer' \subseteq timer
    BY <1>3 DEF StreamDrops, Reconnect, Reload, Restart, db
  <2>5. \A t \in Tabs : stream'[t] \in {stream[t], <<>>}
    BY <1>3 DEF StreamDrops, Reconnect, Reload, Restart, Cut
  <2>6. \A t \in Tabs : Talk(stream'[t]) \subseteq Talk(stream[t])
    BY <2>5, EmptyIsSilent
  <2>7. QED BY <1>c, <2>1, <2>3, <2>4, <2>6, OthersKeepUnknown
<1>4. ASSUME NEW r \in reqs, Reply(r) PROVE Unknown(q)'
  <2>1. reqs' \subseteq reqs /\ UNCHANGED <<status, timer, stream>>
    BY <1>4 DEF Reply, ShowOutgoing, ShowGroup, EnterAccepted, EnterAsCaller, Arrives, db
  <2>2. q \in reqs /\ Unknown(q)
    BY <1>s, <2>1
  <2>3. \A s \in reqs' : s.call = q.call => s = q
    BY <2>1, <2>2 DEF Unknown
  <2>4. QED BY <1>c, <2>1, <2>2, <2>3, OthersKeepUnknown
<1>5. ASSUME NEW d \in Calls, AutoMiss(d) PROVE Unknown(q)'
  <2>1. q \in reqs /\ Unknown(q) /\ reqs' = reqs /\ d \in timer /\ timer' \subseteq timer
    BY <1>s, <1>5 DEF AutoMiss
  <2>2. d # q.call
    BY <2>1 DEF Unknown
  <2>3. status'[q.call] = status[q.call]
    BY <1>c, <1>5, <2>2 DEF AutoMiss, SetStatus, TypeOK
  <2>4. \A t \in Tabs : q.call \in Talk(stream'[t]) => q.call \in Talk(stream[t])
    <3>1. CASE UNCHANGED stream
      BY <3>1
    <3>2. CASE EmitTo(Parties(d), "ended", d)
      <4> DEFINE e == [type |-> "ended", call |-> d]
      <4>1. e \in Event /\ e.call = d
        BY DEF Event
      <4>2. \A t \in Tabs : /\ stream'[t] = Append(stream[t], e) \/ stream'[t] = stream[t]
                            /\ stream[t] \in Seq(Event)
        BY <3>2 DEF EmitTo, TypeOK
      <4> HIDE DEF e
      <4>3. ASSUME NEW t \in Tabs
            PROVE  Talk(stream'[t]) \subseteq Talk(stream[t]) \union {d}
        <5>1. CASE stream'[t] = stream[t]
          BY <5>1
        <5>2. CASE stream'[t] = Append(stream[t], e)
          <6>1. stream[t] \in Seq(Event)
            BY <4>2
          <6>2. Talk(Append(stream[t], e)) = Talk(stream[t]) \union {e.call}
            BY <4>1, <6>1, StreamGrows
          <6>3. QED BY <4>1, <5>2, <6>2
        <5>3. QED BY <4>2, <5>1, <5>2
      <4>4. QED BY <2>2, <4>3
    <3>3. QED BY <1>5, <3>1, <3>2 DEF AutoMiss
  <2>5. UNCHANGED screen
    BY <1>5 DEF AutoMiss
  <2>6. QED BY <2>1, <2>3, <2>4, <2>5 DEF Unknown, OnScreen, screen
<1>6. CASE UNCHANGED vars
  <2>1. q \in reqs /\ Unknown(q)
    BY <1>s, <1>6 DEF vars
  <2>2. QED BY <1>6, <2>1 DEF Unknown, OnScreen, vars
<1>7. QED BY <1>1, <1>2, <1>3, <1>4, <1>5, <1>6 DEF Next

-----------------------------------------------------------------------------
(* The theorems *)

\* What is kept of the tabs: the devices and the screens.
StaleInv == DeviceInv /\ ScreenInv

\* Each step keeps it.
LEMMA ScreensStayTold ==
    ASSUME StaleInv, [Next]_vars
    PROVE  StaleInv'
<1>1. DeviceInv' /\ PartiesStay
  BY Inductive, SideIsKept, DeviceStaysAlone DEF StaleInv, DeviceInv
<1>2. TypeOK /\ GoodReqs /\ GoodReqs' /\ CallersSide'
  BY <1>1 DEF StaleInv, DeviceInv, IInv
<1>3. ScreenInv
  BY DEF StaleInv
<1>4. OnlyPartiesHear' /\ RowsComeFirst'
  BY <1>1, <1>2, <1>3, OnlyPartiesStillHear, RowsStayFirst DEF ScreenInv
<1>5. UnknownBeforeRing'
  BY <1>2, <1>3, RowStaysUnknown DEF ScreenInv
<1>6. CutIsEmpty' /\ DueIsTold' /\ RingThenEnd'
  BY <1>2, <1>3, CutStaysEmpty, EndStaysTold, RingsStayBeforeEnds DEF ScreenInv
<1>7. QED BY <1>1, <1>4, <1>5, <1>6 DEF StaleInv, ScreenInv

\* Nothing was shown.
LEMMA InitIsTold == Init => StaleInv
<1> SUFFICES ASSUME Init PROVE StaleInv
  OBVIOUS
<1>1. DeviceInv
  BY InitHasNoDevice
<1>2. \A t \in Tabs : stream[t] = <<>> /\ \A c \in Calls : ~Due(t, c)
  BY DEF Init, Due, OnScreen, Pending
<1>3. OnlyPartiesHear /\ CutIsEmpty /\ DueIsTold /\ RingThenEnd
  <2>1. \A t \in Tabs, c \in Calls : c \notin Talk(stream[t]) /\ ~Unended(stream[t], c)
    BY <1>2, EmptyIsSilent
  <2>2. QED BY <1>2, <2>1 DEF OnlyPartiesHear, CutIsEmpty, DueIsTold, RingThenEnd
<1>4. RowsComeFirst /\ UnknownBeforeRing
  BY DEF Init, RowsComeFirst, UnknownBeforeRing
<1>5. QED BY <1>1, <1>3, <1>4 DEF StaleInv, ScreenInv

\* The invariant holds of every behaviour.
THEOREM ScreenInvariant == Spec => []StaleInv
<1>1. StaleInv /\ [Next]_vars => StaleInv'
  BY ScreensStayTold
<1>2. QED BY <1>1, InitIsTold, PTL DEF Spec

\* Whatever is lost, late or overtaken, a call that is over stays on a tab's screen
\* only while its call:ended is on the way to that tab, or because it was lost to a
\* broken stream or overtook the answer that showed the call.
THEOREM StaleScreenIsBlind == Spec => []StaleScreenOnlyIfBlind
<1>1. StaleInv => StaleScreenOnlyIfBlind
  <2>1. \A t \in Tabs : Ends(stream[t]) = EndedIn(t)
    BY DEF Ends, EndedIn
  <2>2. QED
    BY <2>1 DEF StaleInv, ScreenInv, DueIsTold, Due, StaleScreenOnlyIfBlind
<1>2. QED BY <1>1, ScreenInvariant, PTL

=============================================================================
