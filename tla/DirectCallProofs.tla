-------------------------- MODULE DirectCallProofs --------------------------
(***************************************************************************)
(* What holds of DirectCall for every set of users, tabs and calls, and    *)
(* any number of faults: type correctness, that nobody sits in a call that *)
(* was missed or declined, that a ringing row is timed while the process   *)
(* stays up, and that the rows implement CallLedger.                       *)
(***************************************************************************)
EXTENDS DirectCall, TLAPS

USE CallAssumption

Answered(c) == status[c] \in {"active", "ended"}

RowOps == {"start", "group", "invite"}

Admitted(r) == r.op = "accept" /\ (r.stage = "await" \/ (r.stage = "done" /\ r.ok))

\* A request is about a row where its handler expects one, and a token that is
\* granted or asked for is one for an answered call.
GoodReq(r) ==
    /\ r.op \in {"accept", "decline", "end", "get"} => r.call \in Calls
    /\ r.op \in RowOps /\ r.stage = "await" => r.call \in Calls
    /\ r.op \notin RowOps => r.todo = {}
    /\ r.op = "join" => r.stage # "await"
    /\ Admitted(r) => Answered(r.call)
    /\ r.op = "get" => Answered(r.call)

GoodReqs == \A r \in reqs : GoodReq(r)

AcceptedIsAnswered ==
    \A t \in Tabs : \A i \in 1..Len(stream[t]) :
       stream[t][i].type = "accepted" => Answered(stream[t][i].call)

\* The inductive invariant: a tab enters a call on a granted accept or on a
\* GET, a GET is sent on call:accepted, and all of them follow an answer.
IInv == /\ TypeOK
        /\ GoodReqs
        /\ AcceptedIsAnswered
        /\ InCallOnlyIfAnswered
        /\ RingingIsTimed

-----------------------------------------------------------------------------
(* Types of the pieces the actions are made of *)

LEMMA RequestIsTyped ==
    ASSUME NEW t \in Tabs, NEW op \in Ops, NEW c \in Calls \union {None},
           NEW todo \in SUBSET (Calls \X Users)
    PROVE  Request(t, op, c, todo) \in RequestType
BY DEF Request, RequestType

LEMMA RequestFields ==
    ASSUME NEW r \in RequestType
    PROVE  /\ r.op \in Ops /\ r.tab \in Tabs \union {None} /\ r.user \in Users
           /\ r.call \in Calls \union {None} /\ r.todo \in SUBSET (Calls \X Users)
           /\ r.stage \in {"sent", "loop", "await", "done"} /\ r.ok \in BOOLEAN
BY DEF RequestType

\* A request stays one when its handler moves it on.
LEMMA RequestUpdates ==
    ASSUME NEW r \in RequestType, NEW s \in {"sent", "loop", "await", "done"},
           NEW c \in Calls \union {None}, NEW T \in SUBSET (Calls \X Users),
           NEW ok \in BOOLEAN
    PROVE  /\ [r EXCEPT !.stage = s] \in RequestType
           /\ [r EXCEPT !.stage = s, !.call = c] \in RequestType
           /\ [r EXCEPT !.stage = s, !.call = c, !.todo = T] \in RequestType
           /\ [r EXCEPT !.stage = s, !.ok = ok] \in RequestType
           /\ [r EXCEPT !.tab = None] \in RequestType
BY DEF RequestType

LEMMA AnswerIsTyped ==
    ASSUME reqs \subseteq RequestType, NEW r \in reqs, NEW ok \in BOOLEAN,
           Answer(r, ok)
    PROVE  reqs' \subseteq RequestType
<1>1. r \in RequestType
  OBVIOUS
<1>2. [r EXCEPT !.stage = "done", !.ok = ok] \in RequestType
  BY <1>1 DEF RequestType
<1>3. QED BY <1>2 DEF Answer

LEMMA EventsAreTyped ==
    ASSUME NEW c \in Calls, NEW type \in {"incoming", "accepted", "ended"}
    PROVE  [type |-> type, call |-> c] \in Event
BY DEF Event

LEMMA EmitIsTyped ==
    ASSUME TypeOK, NEW c \in Calls, NEW type \in {"incoming", "accepted", "ended"},
           NEW us, EmitTo(us, type, c)
    PROVE  /\ stream' \in [Tabs -> Seq(Event)]
           /\ blind' \subseteq Tabs \X Calls
<1>1. stream' \in [Tabs -> Seq(Event)]
  <2> DEFINE e == [type |-> type, call |-> c]
  <2>0. e \in Event
    BY DEF Event
  <2>1. \A t \in Tabs : Append(stream[t], e) \in Seq(Event)
    <3> HIDE DEF e
    <3> QED BY <2>0 DEF TypeOK
  <2>2. QED BY <2>1 DEF EmitTo, TypeOK
<1>2. blind' \subseteq Tabs \X Calls
  BY DEF EmitTo, TypeOK
<1>3. QED BY <1>1, <1>2

LEMMA HeadIsTyped ==
    ASSUME TypeOK, NEW t \in Tabs, stream[t] # <<>>
    PROVE  /\ Head(stream[t]) \in Event
           /\ Head(stream[t]).call \in Calls
           /\ Tail(stream[t]) \in Seq(Event)
<1>1. stream[t] \in Seq(Event)
  BY DEF TypeOK
<1>2. Head(stream[t]) \in Event /\ Tail(stream[t]) \in Seq(Event)
  BY <1>1
<1>3. QED BY <1>2 DEF Event

LEMMA CutIsTyped ==
    ASSUME TypeOK, NEW T \in SUBSET Tabs, Cut(T)
    PROVE  /\ stream' \in [Tabs -> Seq(Event)]
           /\ blind' \subseteq Tabs \X Calls
           /\ connected' \subseteq Tabs
<1>1. \A t \in Tabs : EndedIn(t) \subseteq Calls
  <2>1. \A t \in Tabs : \A i \in 1..Len(stream[t]) : stream[t][i] \in Event
    BY DEF TypeOK
  <2>2. QED BY <2>1 DEF EndedIn, Event
<1>2. blind' \subseteq Tabs \X Calls
  BY <1>1 DEF Cut, TypeOK
<1>3. <<>> \in Seq(Event)
  OBVIOUS
<1>4. QED BY <1>2, <1>3 DEF Cut, TypeOK

LEMMA SendIsTyped ==
    ASSUME TypeOK, NEW t \in Tabs, NEW op \in Ops, NEW c \in Calls \union {None},
           NEW todo \in SUBSET (Calls \X Users), Send(t, op, c, todo)
    PROVE  reqs' \subseteq RequestType
BY RequestIsTyped DEF Send, TypeOK, mishaps

-----------------------------------------------------------------------------
(* TypeOK is inductive on its own *)

LEMMA ClickKeepsTypes ==
    ASSUME TypeOK, NEW t \in Tabs, Click(t)
    PROVE  TypeOK'
<1> USE DEF Ops
<1>0. Unused \subseteq Calls /\ Others(t) \subseteq Users
  BY DEF Unused, Others
<1>1. CASE StartCall(t)
  <2>1. reqs' \subseteq RequestType
    BY <1>0, <1>1, SendIsTyped DEF StartCall
  <2>2. QED BY <1>1, <2>1 DEF StartCall, TypeOK, mishaps, db, screen
<1>2. CASE StartGroupCall(t)
  <2>1. reqs' \subseteq RequestType
    BY <1>0, <1>2, SendIsTyped DEF StartGroupCall, Invitations
  <2>2. QED BY <1>2, <2>1 DEF StartGroupCall, TypeOK, mishaps, db, screen
<1>3. CASE InviteToActiveCall(t)
  <2>1. reqs' \subseteq RequestType
    BY <1>0, <1>3, SendIsTyped DEF InviteToActiveCall, Invitations
  <2>2. QED BY <1>3, <2>1 DEF InviteToActiveCall, TypeOK, mishaps, db, screen
<1>4. CASE JoinChannelCall(t)
  <2>1. reqs' \subseteq RequestType
    BY <1>4, SendIsTyped DEF JoinChannelCall
  <2>2. QED BY <1>4, <2>1 DEF JoinChannelCall, TypeOK, mishaps, db, screen
<1>5. CASE AcceptIncoming(t)
  <2>1. incoming[t] \in Calls \union {None}
    BY DEF TypeOK, mishaps
  <2>2. reqs' \subseteq RequestType
    BY <1>5, <2>1, SendIsTyped DEF AcceptIncoming
  <2>3. QED BY <1>5, <2>2 DEF AcceptIncoming, TypeOK, mishaps, db, screen
<1>6. CASE DeclineIncoming(t)
  <2>1. incoming[t] \in Calls \union {None}
    BY DEF TypeOK, mishaps
  <2>2. reqs' \subseteq RequestType
    BY <1>6, <2>1, SendIsTyped DEF DeclineIncoming
  <2>3. QED BY <1>6, <2>2 DEF DeclineIncoming, TypeOK, mishaps, db
<1>7. CASE CancelOutgoing(t)
  <2>1. outgoing[t] \in Calls \union {None}
    BY DEF TypeOK, mishaps
  <2>2. reqs' \subseteq RequestType
    BY <1>7, <2>1, SendIsTyped DEF CancelOutgoing
  <2>3. QED BY <1>7, <2>2 DEF CancelOutgoing, TypeOK, mishaps, db
<1>8. CASE EndActive(t)
  <2>1. active[t] \in Calls \union {None, Group}
    BY DEF TypeOK, mishaps
  <2>2. reqs' \subseteq RequestType
    <3>1. CASE active[t] = Group
      BY <1>8, <3>1 DEF EndActive, TypeOK, mishaps
    <3>2. CASE active[t] # Group
      BY <1>8, <2>1, <3>2, SendIsTyped DEF EndActive
    <3>3. QED BY <3>1, <3>2
  <2>3. QED BY <1>8, <2>2 DEF EndActive, TypeOK, mishaps, db
<1>9. QED
  BY <1>1, <1>2, <1>3, <1>4, <1>5, <1>6, <1>7, <1>8 DEF Click

LEMMA HandleKeepsTypes ==
    ASSUME TypeOK, NEW r \in reqs, GoodReq(r), Handle(r)
    PROVE  TypeOK'
<1>0. r \in RequestType
  BY DEF TypeOK, mishaps
<1>r. /\ r.op \in Ops /\ r.user \in Users /\ r.call \in Calls \union {None}
      /\ r.todo \in SUBSET (Calls \X Users)
  BY <1>0, RequestFields
<1>a. ASSUME NEW ok \in BOOLEAN, Answer(r, ok) PROVE reqs' \subseteq RequestType
  BY <1>a, AnswerIsTyped DEF TypeOK, mishaps
<1>b. ASSUME NEW s \in RequestType, Replace(r, s) PROVE reqs' \subseteq RequestType
  BY <1>b DEF Replace, TypeOK, mishaps
<1>1. CASE CreateRow(r)
  <2>1. PICK p \in r.todo :
           /\ SetStatus(p[1], "ringing")
           /\ caller' = [caller EXCEPT ![p[1]] = r.user]
           /\ callee' = [callee EXCEPT ![p[1]] = p[2]]
           /\ Replace(r, [r EXCEPT !.stage = "await", !.call = p[1],
                                   !.todo = @ \ {p}])
    BY <1>1 DEF CreateRow
  <2>2. p[1] \in Calls /\ p[2] \in Users
    BY <1>r
  <2>3. [r EXCEPT !.stage = "await", !.call = p[1], !.todo = @ \ {p}] \in RequestType
    BY <1>0, <2>2 DEF RequestType
  <2>4. reqs' \subseteq RequestType
    BY <2>1, <2>3, <1>b
  <2>5. QED
    BY <1>1, <1>r, <2>1, <2>2, <2>4 DEF CreateRow, SetStatus, TypeOK, mishaps, screen, Live
<1>2. CASE Announce(r)
  <2>1. r.call \in Calls
    BY <1>2 DEF Announce, GoodReq, RowOps
  <2>2. [r EXCEPT !.stage = "loop", !.call = None] \in RequestType
    BY <1>0 DEF RequestType
  <2>3. reqs' \subseteq RequestType
    BY <1>2, <1>a, <1>b, <2>2 DEF Announce
  <2>4. stream' \in [Tabs -> Seq(Event)] /\ blind' \subseteq Tabs \X Calls
    BY <1>2, <2>1, EmitIsTyped DEF Announce
  <2>5. QED
    BY <1>2, <2>1, <2>3, <2>4 DEF Announce, TypeOK, mishaps, db, screen
<1>3. CASE FinishGroup(r)
  <2>1. reqs' \subseteq RequestType
    BY <1>3, <1>a DEF FinishGroup
  <2>2. QED BY <1>3, <2>1 DEF FinishGroup, TypeOK, mishaps, db, screen
<1>4. CASE AcceptRefused(r)
  <2>1. reqs' \subseteq RequestType
    BY <1>4, <1>a DEF AcceptRefused
  <2>2. QED BY <1>4, <2>1 DEF AcceptRefused, TypeOK, mishaps, db, screen
<1>5. CASE AcceptCall(r)
  <2>1. r.call \in Calls
    BY <1>5 DEF AcceptCall, GoodReq
  <2>2. [r EXCEPT !.stage = "await"] \in RequestType
    BY <1>0 DEF RequestType
  <2>3. reqs' \subseteq RequestType
    BY <1>5, <1>b, <2>2 DEF AcceptCall
  <2>4. QED
    BY <1>5, <2>1, <2>3 DEF AcceptCall, SetStatus, TypeOK, mishaps, screen, Live
<1>6. CASE AnnounceAccept(r)
  <2>1. r.call \in Calls
    BY <1>6 DEF AnnounceAccept, GoodReq
  <2>2. reqs' \subseteq RequestType
    BY <1>6, <1>a DEF AnnounceAccept
  <2>3. stream' \in [Tabs -> Seq(Event)] /\ blind' \subseteq Tabs \X Calls
    BY <1>6, <2>1, EmitIsTyped DEF AnnounceAccept
  <2>4. QED
    BY <1>6, <2>2, <2>3 DEF AnnounceAccept, TypeOK, mishaps, db, screen
<1>7. CASE EndAgain(r)
  <2>1. reqs' \subseteq RequestType
    BY <1>7, <1>a DEF EndAgain
  <2>2. QED BY <1>7, <2>1 DEF EndAgain, TypeOK, mishaps, db, screen
<1>8. CASE EndCall(r)
  <2>1. r.call \in Calls
    BY <1>8 DEF EndCall, GoodReq
  <2>2. reqs' \subseteq RequestType
    BY <1>8, <1>a DEF EndCall
  <2>3. stream' \in [Tabs -> Seq(Event)] /\ blind' \subseteq Tabs \X Calls
    BY <1>8, <2>1, EmitIsTyped DEF EndCall
  <2>4. status' \in [Calls -> {"none"} \union Live \union Terminal]
    BY <1>8, <2>1 DEF EndCall, SetStatus, TypeOK, mishaps, Live, Terminal
  <2>5. QED
    BY <1>8, <2>2, <2>3, <2>4 DEF EndCall, TypeOK, mishaps, screen
<1>9. CASE GetCall(r)
  <2>1. [r EXCEPT !.stage = "await"] \in RequestType
    BY <1>0 DEF RequestType
  <2>2. reqs' \subseteq RequestType
    BY <1>9, <1>a, <1>b, <2>1 DEF GetCall
  <2>3. QED BY <1>9, <2>2 DEF GetCall, TypeOK, mishaps, db, screen
<1>10. CASE AnswerGet(r)
  <2>1. reqs' \subseteq RequestType
    BY <1>10, <1>a DEF AnswerGet
  <2>2. QED BY <1>10, <2>1 DEF AnswerGet, TypeOK, mishaps, db, screen
<1>11. QED
  BY <1>1, <1>2, <1>3, <1>4, <1>5, <1>6, <1>7, <1>8, <1>9, <1>10 DEF Handle

LEMMA ReplyKeepsTypes ==
    ASSUME TypeOK, NEW r \in reqs, Reply(r)
    PROVE  TypeOK'
<1>0. r.call \in Calls \union {None}
  BY RequestFields DEF TypeOK, mishaps
<1>1. reqs' \subseteq RequestType
  BY DEF Reply, ShowOutgoing, ShowGroup, EnterAccepted, EnterAsCaller, Arrives, TypeOK, mishaps
<1>2. CASE ShowOutgoing(r)
  BY <1>0, <1>1, <1>2 DEF ShowOutgoing, TypeOK, mishaps, db
<1>3. CASE ShowGroup(r)
  BY <1>1, <1>3 DEF ShowGroup, TypeOK, mishaps, db
<1>4. CASE EnterAccepted(r)
  BY <1>0, <1>1, <1>4 DEF EnterAccepted, TypeOK, mishaps, db
<1>5. CASE EnterAsCaller(r)
  BY <1>0, <1>1, <1>5 DEF EnterAsCaller, TypeOK, mishaps, db
<1>6. QED
  BY <1>2, <1>3, <1>4, <1>5 DEF Reply

LEMMA DeliverKeepsTypes ==
    ASSUME TypeOK, NEW t \in Tabs, Deliver(t)
    PROVE  TypeOK'
<1> DEFINE c == Head(stream[t]).call
<1>0. stream[t] # <<>>
  BY DEF Deliver, OnIncoming, OnAccepted, OnEnded, Pop
<1>1. c \in Calls /\ Tail(stream[t]) \in Seq(Event)
  BY <1>0, HeadIsTyped
<1>2. stream' \in [Tabs -> Seq(Event)]
  BY <1>1 DEF Deliver, OnIncoming, OnAccepted, OnEnded, Pop, TypeOK, mishaps
<1>s. ASSUME NEW op \in Ops, Send(t, op, c, {}) PROVE reqs' \subseteq RequestType
  BY <1>1, <1>s, SendIsTyped
<1>3. CASE OnIncoming(t)
  <2>1. reqs' \subseteq RequestType
    BY <1>3, <1>s DEF OnIncoming, Ops, TypeOK, mishaps
  <2>2. incoming' \in [Tabs -> Calls \union {None}]
    BY <1>1, <1>3 DEF OnIncoming, TypeOK, mishaps
  <2>3. QED BY <1>2, <1>3, <2>1, <2>2 DEF OnIncoming, TypeOK, mishaps, db
<1>4. CASE OnAccepted(t)
  <2>1. reqs' \subseteq RequestType
    BY <1>4, <1>s DEF OnAccepted, Ops, TypeOK, mishaps
  <2>2. QED BY <1>2, <1>4, <2>1 DEF OnAccepted, TypeOK, mishaps, db, screen
<1>5. CASE OnEnded(t)
  <2>1. /\ incoming' \in [Tabs -> Calls \union {None}]
        /\ outgoing' \in [Tabs -> Calls \union {None}]
        /\ active' \in [Tabs -> Calls \union {None, Group}]
    BY <1>5 DEF OnEnded, Clear, TypeOK, mishaps
  <2>2. blind' \subseteq Tabs \X Calls
    BY <1>1, <1>5 DEF OnEnded, TypeOK, mishaps
  <2>3. QED BY <1>2, <1>5, <2>1, <2>2 DEF OnEnded, TypeOK, mishaps, db
<1>6. QED
  BY <1>3, <1>4, <1>5 DEF Deliver

LEMMA FaultKeepsTypes ==
    ASSUME TypeOK,
           \/ \E t \in Tabs : StreamDrops(t) \/ Reconnect(t) \/ Reload(t)
           \/ \E r \in reqs : RequestFails(r)
           \/ Restart
    PROVE  TypeOK'
<1>1. ASSUME NEW t \in Tabs, StreamDrops(t) PROVE TypeOK'
  <2>1. Cut({t})
    BY <1>1 DEF StreamDrops
  <2>2. QED BY <1>1, <2>1, CutIsTyped DEF StreamDrops, Fault, TypeOK, mishaps, db, screen
<1>2. ASSUME NEW t \in Tabs, Reconnect(t) PROVE TypeOK'
  BY <1>2 DEF Reconnect, TypeOK, mishaps, db, screen
<1>3. ASSUME NEW t \in Tabs, Reload(t) PROVE TypeOK'
  <2>1. Cut({t})
    BY <1>3 DEF Reload
  <2>2. reqs' \subseteq RequestType
    <3>1. ASSUME NEW r \in reqs PROVE [r EXCEPT !.tab = None] \in RequestType
      <4>1. r \in RequestType
        BY DEF TypeOK, mishaps
      <4>2. QED BY <4>1 DEF RequestType
    <3>2. QED BY <1>3, <3>1 DEF Reload, TypeOK, mishaps
  <2>3. QED BY <1>3, <2>1, <2>2, CutIsTyped DEF Reload, Fault, TypeOK, mishaps, db
<1>4. ASSUME NEW r \in reqs, RequestFails(r) PROVE TypeOK'
  <2>1. reqs' \subseteq RequestType
    BY <1>4, AnswerIsTyped DEF RequestFails, TypeOK, mishaps
  <2>2. QED BY <1>4, <2>1 DEF RequestFails, Fault, TypeOK, mishaps, db, screen
<1>5. CASE Restart
  <2>1. Cut(Tabs)
    BY <1>5 DEF Restart
  <2>2. reqs' \subseteq RequestType
    <3>1. ASSUME NEW r \in reqs
          PROVE  [r EXCEPT !.stage = "done", !.ok = FALSE] \in RequestType
      <4>1. r \in RequestType
        BY DEF TypeOK, mishaps
      <4>2. QED BY <4>1 DEF RequestType
    <3>2. SUFFICES ASSUME NEW x \in reqs' PROVE x \in RequestType
      OBVIOUS
    <3>3. PICK r \in reqs :
             x = IF r.stage = "done" THEN r
                 ELSE [r EXCEPT !.stage = "done", !.ok = FALSE]
      BY <1>5 DEF Restart
    <3>4. QED BY <3>1, <3>3 DEF TypeOK, mishaps
  <2>3. /\ stream' \in [Tabs -> Seq(Event)]
        /\ blind' \subseteq Tabs \X Calls
        /\ connected' \subseteq Tabs
    BY <2>1, CutIsTyped
  <2>4. /\ timer' = {} /\ faults' = faults + 1 /\ UNCHANGED <<db, screen>>
        /\ untimed' \subseteq Calls
    BY <1>5 DEF Restart, Fault
  <2>5. QED BY <2>2, <2>3, <2>4 DEF TypeOK, mishaps, db, screen
<1>6. QED
  BY <1>1, <1>2, <1>3, <1>4, <1>5

LEMMA MissKeepsTypes ==
    ASSUME TypeOK, NEW c \in Calls, AutoMiss(c)
    PROVE  TypeOK'
<1>1. CASE status[c] = "ringing"
  <2>1. stream' \in [Tabs -> Seq(Event)] /\ blind' \subseteq Tabs \X Calls
    BY <1>1, EmitIsTyped DEF AutoMiss
  <2>2. QED BY <1>1, <2>1 DEF AutoMiss, SetStatus, TypeOK, mishaps, screen, Terminal
<1>2. CASE status[c] # "ringing"
  BY <1>2 DEF AutoMiss, TypeOK, mishaps, screen
<1>3. QED BY <1>1, <1>2

LEMMA StepKeepsTypes ==
    ASSUME TypeOK, GoodReqs, [Next]_vars
    PROVE  TypeOK'
<1>1. CASE UNCHANGED vars
  BY <1>1 DEF TypeOK, vars
<1>2. CASE Next
  BY <1>2, ClickKeepsTypes, HandleKeepsTypes, ReplyKeepsTypes, DeliverKeepsTypes,
     FaultKeepsTypes, MissKeepsTypes DEF Next, GoodReqs
<1>3. QED BY <1>1, <1>2

-----------------------------------------------------------------------------
(* Rows move as the ledger says, so an answer is never taken back *)

LEMMA StatusMoves ==
    ASSUME TypeOK, GoodReqs, [Next]_vars
    PROVE  [Ledger!Next]_status
<1> USE DEF Ledger!Next, Ledger!Ring, Ledger!Answer, Ledger!Decline,
        Ledger!Miss, Ledger!HangUp, Ledger!Move
<1>1. ASSUME NEW t \in Tabs,
             Click(t) \/ Deliver(t) \/ StreamDrops(t) \/ Reconnect(t) \/ Reload(t)
      PROVE  UNCHANGED status
  BY <1>1 DEF Click, StartCall, StartGroupCall, InviteToActiveCall, JoinChannelCall,
     AcceptIncoming, DeclineIncoming, CancelOutgoing, EndActive, Deliver, OnIncoming,
     OnAccepted, OnEnded, StreamDrops, Reconnect, Reload, db
<1>2. ASSUME NEW r \in reqs, Reply(r) \/ RequestFails(r)
      PROVE  UNCHANGED status
  BY <1>2 DEF Reply, ShowOutgoing, ShowGroup, EnterAccepted, EnterAsCaller,
     RequestFails, db
<1>3. ASSUME NEW r \in reqs, Handle(r)
      PROVE  [Ledger!Next]_status
  <2>r. r \in RequestType /\ GoodReq(r)
    BY DEF TypeOK, GoodReqs
  <2>1. CASE CreateRow(r)
    <3>1. PICK p \in r.todo : status[p[1]] = "none" /\ SetStatus(p[1], "ringing")
      BY <2>1 DEF CreateRow
    <3>2. p[1] \in Calls
      BY <2>r, RequestFields
    <3>3. Ledger!Ring(p[1])
      BY <3>1 DEF SetStatus
    <3>4. QED BY <3>2, <3>3
  <2>2. CASE AcceptCall(r)
    <3>1. r.call \in Calls
      BY <2>r, <2>2 DEF AcceptCall, GoodReq
    <3>2. Ledger!Answer(r.call)
      BY <2>2 DEF AcceptCall, SetStatus
    <3>3. QED BY <3>1, <3>2
  <2>3. CASE EndCall(r)
    <3>1. r.call \in Calls
      BY <2>r, <2>3 DEF EndCall, GoodReq
    <3>2. Ledger!Decline(r.call) \/ Ledger!HangUp(r.call)
      BY <2>3 DEF EndCall, SetStatus, Live
    <3>3. QED BY <3>1, <3>2
  <2>4. CASE \/ Announce(r) \/ FinishGroup(r) \/ AcceptRefused(r) \/ AnnounceAccept(r)
             \/ EndAgain(r) \/ GetCall(r) \/ AnswerGet(r)
    BY <2>4 DEF Announce, FinishGroup, AcceptRefused, AnnounceAccept, EndAgain,
       GetCall, AnswerGet, db
  <2>5. QED BY <1>3, <2>1, <2>2, <2>3, <2>4 DEF Handle
<1>4. ASSUME NEW c \in Calls, AutoMiss(c)
      PROVE  [Ledger!Next]_status
  <2>1. Ledger!Miss(c) \/ UNCHANGED status
    BY <1>4 DEF AutoMiss, SetStatus
  <2>2. QED BY <2>1
<1>5. CASE Restart
  BY <1>5 DEF Restart, db
<1>6. CASE UNCHANGED vars
  BY <1>6 DEF vars
<1>7. QED
  BY <1>1, <1>2, <1>3, <1>4, <1>5, <1>6 DEF Next

LEMMA AnsweredStays ==
    ASSUME TypeOK, GoodReqs, [Next]_vars
    PROVE  \A c \in Calls : Answered(c) => Answered(c)'
BY StatusMoves DEF Answered, TypeOK, Ledger!Next, Ledger!Ring, Ledger!Answer,
   Ledger!Decline, Ledger!Miss, Ledger!HangUp, Ledger!Move

-----------------------------------------------------------------------------
(* Every request stays good, and every new one is *)

Stays == \A c \in Calls : Answered(c) => Answered(c)'

LEMMA OldRequestStaysGood ==
    ASSUME TypeOK, Stays, NEW r \in reqs, GoodReq(r)
    PROVE  GoodReq(r)'
BY DEF GoodReq, Admitted, Stays

LEMMA AnswerKeepsGood ==
    ASSUME TypeOK, GoodReqs, Stays, NEW r \in reqs, NEW ok \in BOOLEAN,
           r.op = "accept" /\ ok => Answered(r.call),
           Answer(r, ok)
    PROVE  GoodReqs'
<1>1. \A q \in reqs : GoodReq(q)'
  BY OldRequestStaysGood DEF GoodReqs
<1>2. ASSUME NEW q, q = [r EXCEPT !.stage = "done", !.ok = ok]
      PROVE  GoodReq(q)'
  <2>1. /\ q.op = r.op /\ q.call = r.call /\ q.todo = r.todo
        /\ q.stage = "done" /\ q.ok = ok
    BY <1>2 DEF TypeOK, RequestType
  <2>2. GoodReq(r)
    BY DEF GoodReqs
  <2>3. QED BY <2>1, <2>2 DEF GoodReq, Admitted, Stays
<1>3. QED BY <1>1, <1>2 DEF GoodReqs, Answer

LEMMA ReplaceKeepsGood ==
    ASSUME TypeOK, GoodReqs, Stays, NEW r \in reqs, NEW q, GoodReq(q)', Replace(r, q)
    PROVE  GoodReqs'
BY OldRequestStaysGood DEF GoodReqs, Replace

LEMMA SendKeepsGood ==
    ASSUME TypeOK, GoodReqs, Stays, NEW t \in Tabs, NEW op \in Ops,
           NEW c \in Calls \union {None}, NEW todo,
           op \in {"accept", "decline", "end", "get"} => c \in Calls,
           op \notin RowOps => todo = {},
           op = "get" => Answered(c)',
           Send(t, op, c, todo)
    PROVE  GoodReqs'
<1>1. \A q \in reqs : GoodReq(q)'
  BY OldRequestStaysGood DEF GoodReqs
<1>2. GoodReq(Request(t, op, c, todo))'
  BY DEF GoodReq, Request, Admitted
<1>3. QED BY <1>1, <1>2 DEF GoodReqs, Send

LEMMA HandleKeepsGood ==
    ASSUME TypeOK, GoodReqs, Stays, NEW r \in reqs, Handle(r)
    PROVE  GoodReqs'
<1>0. r \in RequestType /\ GoodReq(r)
  BY DEF TypeOK, GoodReqs
<1>r. /\ r.op \in Ops /\ r.call \in Calls \union {None}
      /\ r.todo \in SUBSET (Calls \X Users)
  BY <1>0, RequestFields
<1>1. CASE CreateRow(r)
  <2>1. PICK p \in r.todo :
           Replace(r, [r EXCEPT !.stage = "await", !.call = p[1], !.todo = @ \ {p}])
    BY <1>1 DEF CreateRow
  <2> DEFINE q == [r EXCEPT !.stage = "await", !.call = p[1], !.todo = @ \ {p}]
  <2>2. /\ q.op = r.op /\ q.call = p[1] /\ q.stage = "await"
    BY <1>0 DEF RequestType
  <2>3. r.op \in RowOps /\ p[1] \in Calls
    BY <1>0, <1>r DEF GoodReq
  <2>4. GoodReq(q)'
    <3> HIDE DEF q
    <3> QED BY <2>2, <2>3 DEF GoodReq, Admitted, RowOps
  <2>5. QED BY <2>1, <2>4, ReplaceKeepsGood
<1>2. CASE Announce(r)
  <2>1. CASE r.op = "start"
    BY <1>2, <2>1, AnswerKeepsGood DEF Announce
  <2>2. CASE r.op # "start"
    <3> DEFINE q == [r EXCEPT !.stage = "loop", !.call = None]
    <3>1. q.op = r.op /\ q.stage = "loop" /\ r.op \in RowOps
      BY <1>0, <1>2 DEF Announce, RequestType, RowOps
    <3>2. Replace(r, q)
      BY <1>2, <2>2 DEF Announce
    <3>3. GoodReq(q)'
      <4> HIDE DEF q
      <4> QED BY <3>1 DEF GoodReq, Admitted, RowOps
    <3>4. QED BY <3>2, <3>3, ReplaceKeepsGood
  <2>3. QED BY <2>1, <2>2
<1>3. CASE FinishGroup(r)
  BY <1>3, AnswerKeepsGood DEF FinishGroup
<1>4. CASE AcceptRefused(r)
  BY <1>4, AnswerKeepsGood DEF AcceptRefused
<1>5. CASE AcceptCall(r)
  <2> DEFINE q == [r EXCEPT !.stage = "await"]
  <2>1. q.op = "accept" /\ q.stage = "await" /\ q.call = r.call /\ q.todo = {}
    BY <1>0, <1>5 DEF AcceptCall, RequestType, GoodReq, RowOps
  <2>2. r.call \in Calls
    BY <1>0, <1>5 DEF AcceptCall, GoodReq
  <2>3. Answered(r.call)'
    BY <1>5, <2>2 DEF AcceptCall, SetStatus, Answered, TypeOK
  <2>4. Replace(r, q)
    BY <1>5 DEF AcceptCall
  <2>5. GoodReq(q)'
    <3> HIDE DEF q
    <3> QED BY <2>1, <2>2, <2>3 DEF GoodReq, RowOps, Answered
  <2>6. QED BY <2>4, <2>5, ReplaceKeepsGood
<1>6. CASE AnnounceAccept(r)
  BY <1>0, <1>6, AnswerKeepsGood DEF AnnounceAccept, GoodReq, Admitted
<1>7. CASE EndAgain(r)
  BY <1>7, AnswerKeepsGood DEF EndAgain
<1>8. CASE EndCall(r)
  BY <1>8, AnswerKeepsGood DEF EndCall
<1>9. CASE GetCall(r)
  <2>1. CASE status[r.call] \in Live
    <3> DEFINE q == [r EXCEPT !.stage = "await"]
    <3>1. q.op = "get" /\ q.stage = "await" /\ q.call = r.call /\ q.todo = {}
      BY <1>0, <1>9 DEF GetCall, RequestType, GoodReq, RowOps
    <3>2. r.call \in Calls /\ Answered(r.call)'
      BY <1>0, <1>9 DEF GetCall, GoodReq, Stays
    <3>3. Replace(r, q)
      BY <1>9, <2>1 DEF GetCall
    <3>4. GoodReq(q)'
      <4> HIDE DEF q
      <4> QED BY <3>1, <3>2 DEF GoodReq, Admitted, RowOps, Answered
    <3>5. QED BY <3>3, <3>4, ReplaceKeepsGood
  <2>2. CASE status[r.call] \notin Live
    BY <1>9, <2>2, AnswerKeepsGood DEF GetCall
  <2>3. QED BY <2>1, <2>2
<1>10. CASE AnswerGet(r)
  BY <1>10, AnswerKeepsGood DEF AnswerGet
<1>11. QED
  BY <1>1, <1>2, <1>3, <1>4, <1>5, <1>6, <1>7, <1>8, <1>9, <1>10, Zenon DEF Handle

LEMMA ClickKeepsGood ==
    ASSUME TypeOK, GoodReqs, Stays, NEW t \in Tabs, Click(t)
    PROVE  GoodReqs'
<1>s. ASSUME NEW op \in Ops \ {"get"}, NEW c \in Calls \union {None}, NEW todo,
             op \in {"accept", "decline", "end"} => c \in Calls,
             op \notin RowOps => todo = {},
             Send(t, op, c, todo)
      PROVE  GoodReqs'
  BY <1>s, SendKeepsGood
<1> USE DEF Ops, RowOps
<1>1. CASE StartCall(t)
  BY <1>1, <1>s DEF StartCall
<1>2. CASE StartGroupCall(t)
  BY <1>2, <1>s DEF StartGroupCall
<1>3. CASE InviteToActiveCall(t)
  BY <1>3, <1>s DEF InviteToActiveCall
<1>4. CASE JoinChannelCall(t)
  BY <1>4, <1>s DEF JoinChannelCall
<1>5. CASE AcceptIncoming(t)
  BY <1>5, <1>s DEF AcceptIncoming, TypeOK
<1>6. CASE DeclineIncoming(t)
  BY <1>6, <1>s DEF DeclineIncoming, TypeOK
<1>7. CASE CancelOutgoing(t)
  BY <1>7, <1>s DEF CancelOutgoing, TypeOK
<1>8. CASE EndActive(t)
  <2>1. CASE active[t] = Group
    BY <1>8, <2>1, OldRequestStaysGood DEF EndActive, GoodReqs
  <2>2. CASE active[t] # Group
    BY <1>8, <2>2, <1>s DEF EndActive, TypeOK
  <2>3. QED BY <2>1, <2>2
<1>9. QED
  BY <1>1, <1>2, <1>3, <1>4, <1>5, <1>6, <1>7, <1>8 DEF Click

LEMMA DeliverKeepsGood ==
    ASSUME TypeOK, GoodReqs, AcceptedIsAnswered, Stays, NEW t \in Tabs, Deliver(t)
    PROVE  GoodReqs'
<1>0. stream[t] # <<>>
  BY DEF Deliver, OnIncoming, OnAccepted, OnEnded, Pop
<1>1. Head(stream[t]).call \in Calls
  BY <1>0, HeadIsTyped
<1>2. ASSUME UNCHANGED reqs PROVE GoodReqs'
  BY <1>2, OldRequestStaysGood DEF GoodReqs
<1>3. CASE OnIncoming(t)
  BY <1>1, <1>2, <1>3, SendKeepsGood DEF OnIncoming, Ops, RowOps
<1>4. CASE OnAccepted(t)
  <2>1. Head(stream[t]).type = "accepted"
    BY <1>4 DEF OnAccepted, Pop
  <2>2. Answered(Head(stream[t]).call)
    <3>1. stream[t] \in Seq(Event)
      BY DEF TypeOK
    <3>2. 1 \in 1..Len(stream[t]) /\ Head(stream[t]) = stream[t][1]
      BY <1>0, <3>1
    <3>3. QED BY <2>1, <3>2 DEF AcceptedIsAnswered
  <2>3. PICK c \in Calls : c = Head(stream[t]).call /\ Answered(c)
    BY <1>1, <2>2
  <2>4. Answered(c)'
    BY <2>3 DEF Stays
  <2>5. Send(t, "get", c, {}) \/ UNCHANGED reqs
    BY <1>4, <2>3 DEF OnAccepted
  <2>6. QED BY <1>2, <2>4, <2>5, SendKeepsGood DEF Ops, RowOps
<1>5. CASE OnEnded(t)
  BY <1>2, <1>5 DEF OnEnded
<1>6. QED BY <1>3, <1>4, <1>5 DEF Deliver

LEMMA FaultKeepsGood ==
    ASSUME TypeOK, GoodReqs, Stays,
           \/ \E t \in Tabs : StreamDrops(t) \/ Reconnect(t) \/ Reload(t)
           \/ \E r \in reqs : RequestFails(r)
           \/ Restart
    PROVE  GoodReqs'
<1>0. ASSUME NEW r \in reqs, NEW q, GoodReq(r)',
             q.op = r.op, q.call = r.call, q.todo = r.todo,
             \/ q.stage = r.stage /\ q.ok = r.ok
             \/ q.stage = "done" /\ q.ok = FALSE
      PROVE  GoodReq(q)'
  BY <1>0 DEF GoodReq, Admitted, Answered
<1>1. \A r \in reqs : GoodReq(r)'
  BY OldRequestStaysGood DEF GoodReqs
<1>2. ASSUME NEW t \in Tabs, StreamDrops(t) \/ Reconnect(t) PROVE GoodReqs'
  BY <1>1, <1>2 DEF StreamDrops, Reconnect, GoodReqs
<1>3. ASSUME NEW t \in Tabs, Reload(t) PROVE GoodReqs'
  <2> SUFFICES ASSUME NEW q \in reqs' PROVE GoodReq(q)'
    BY DEF GoodReqs
  <2>1. PICK r \in reqs : q = IF r.tab = t THEN [r EXCEPT !.tab = None] ELSE r
    BY <1>3 DEF Reload
  <2>2. /\ q.op = r.op /\ q.call = r.call /\ q.todo = r.todo
        /\ q.stage = r.stage /\ q.ok = r.ok
    BY <2>1 DEF TypeOK, RequestType
  <2>3. QED BY <1>0, <1>1, <2>2
<1>4. ASSUME NEW r \in reqs, RequestFails(r) PROVE GoodReqs'
  BY <1>4, AnswerKeepsGood DEF RequestFails
<1>5. CASE Restart
  <2> SUFFICES ASSUME NEW q \in reqs' PROVE GoodReq(q)'
    BY DEF GoodReqs
  <2>1. PICK r \in reqs :
           q = IF r.stage = "done" THEN r ELSE [r EXCEPT !.stage = "done", !.ok = FALSE]
    BY <1>5 DEF Restart
  <2>2. /\ q.op = r.op /\ q.call = r.call /\ q.todo = r.todo
        /\ \/ q.stage = r.stage /\ q.ok = r.ok
           \/ q.stage = "done" /\ q.ok = FALSE
    <3>0. r \in RequestType
      BY DEF TypeOK
    <3>1. CASE r.stage = "done"
      BY <2>1, <3>1
    <3>2. CASE r.stage # "done"
      <4>1. q = [r EXCEPT !.stage = "done", !.ok = FALSE]
        BY <2>1, <3>2
      <4>2. QED BY <3>0, <4>1 DEF RequestType
    <3>3. QED BY <3>1, <3>2
  <2>3. QED BY <1>0, <1>1, <2>2
<1>6. QED BY <1>2, <1>3, <1>4, <1>5

LEMMA StepKeepsGood ==
    ASSUME TypeOK, GoodReqs, AcceptedIsAnswered, [Next]_vars
    PROVE  GoodReqs'
<1>0. Stays
  BY AnsweredStays DEF Stays
<1>1. ASSUME reqs' \subseteq reqs PROVE GoodReqs'
  BY <1>0, <1>1, OldRequestStaysGood DEF GoodReqs
<1>2. CASE UNCHANGED vars
  BY <1>1, <1>2 DEF vars
<1>3. ASSUME NEW r \in reqs, Reply(r) PROVE GoodReqs'
  BY <1>1, <1>3 DEF Reply, ShowOutgoing, ShowGroup, EnterAccepted, EnterAsCaller, Arrives
<1>4. ASSUME NEW c \in Calls, AutoMiss(c) PROVE GoodReqs'
  BY <1>1, <1>4 DEF AutoMiss
<1>5. QED
  BY <1>0, <1>2, <1>3, <1>4, ClickKeepsGood, HandleKeepsGood, DeliverKeepsGood,
     FaultKeepsGood DEF Next

-----------------------------------------------------------------------------
(* call:accepted is only ever on its way for an answered call *)

LEMMA SameStreamsStayGood ==
    ASSUME TypeOK, AcceptedIsAnswered, Stays,
           \A t \in Tabs : stream'[t] \in {stream[t], <<>>}
    PROVE  AcceptedIsAnswered'
<1> SUFFICES ASSUME NEW t \in Tabs, NEW i \in 1..Len(stream'[t]),
                    stream'[t][i].type = "accepted"
             PROVE  Answered(stream[t][i].call)'
  BY DEF AcceptedIsAnswered
<1>1. stream'[t] = stream[t]
  OBVIOUS
<1>2. PICK e : e = stream[t][i]
  OBVIOUS
<1>3. e \in Event /\ Answered(e.call)
  BY <1>1, <1>2 DEF TypeOK, AcceptedIsAnswered
<1>4. Answered(e.call)'
  BY <1>3 DEF Stays, Event
<1>5. QED BY <1>1, <1>2, <1>4 DEF Answered

LEMMA TailShifts ==
    ASSUME NEW S, NEW s \in Seq(S), s # <<>>, NEW i \in 1..Len(Tail(s))
    PROVE  i + 1 \in 1..Len(s) /\ Tail(s)[i] = s[i + 1]
<1>1. Len(Tail(s)) = Len(s) - 1 /\ Len(s) \in Nat /\ Len(s) # 0
  OBVIOUS
<1>2. Tail(s)[i] = s[i + 1]
  OBVIOUS
<1>3. QED BY <1>1, <1>2

LEMMA PopKeepsAccepted ==
    ASSUME TypeOK, AcceptedIsAnswered, Stays, NEW t \in Tabs,
           stream[t] # <<>>, stream' = [stream EXCEPT ![t] = Tail(@)]
    PROVE  AcceptedIsAnswered'
<1> SUFFICES ASSUME NEW u \in Tabs, NEW i \in 1..Len(stream'[u]),
                    stream'[u][i].type = "accepted"
             PROVE  Answered(stream[u][i].call)'
  BY DEF AcceptedIsAnswered
<1>1. \E j \in 1..Len(stream[u]) : stream'[u][i] = stream[u][j]
  <2>0. stream[u] \in Seq(Event) /\ stream[t] \in Seq(Event)
    BY DEF TypeOK
  <2>1. CASE u = t
    <3>1. stream'[u] = Tail(stream[u])
      BY <2>1 DEF TypeOK
    <3>2. i + 1 \in 1..Len(stream[u]) /\ stream'[u][i] = stream[u][i + 1]
      <4>1. stream[u] # <<>> /\ i \in 1..Len(Tail(stream[u]))
        BY <2>1, <3>1
      <4>2. QED BY <2>0, <3>1, <4>1, TailShifts
    <3>3. QED BY <3>2
  <2>2. CASE u # t
    BY <2>2 DEF TypeOK
  <2>3. QED BY <2>1, <2>2
<1>2. PICK e : e = stream'[u][i]
  OBVIOUS
<1>3. e \in Event /\ Answered(e.call)
  BY <1>1, <1>2 DEF TypeOK, AcceptedIsAnswered
<1>4. Answered(e.call)'
  BY <1>3 DEF Stays, Event
<1>5. QED BY <1>2, <1>4 DEF Answered

LEMMA EmitKeepsAccepted ==
    ASSUME TypeOK, AcceptedIsAnswered, Stays, NEW c \in Calls,
           NEW type \in {"incoming", "accepted", "ended"}, NEW us,
           type = "accepted" => Answered(c), EmitTo(us, type, c)
    PROVE  AcceptedIsAnswered'
<1> SUFFICES ASSUME NEW u \in Tabs, NEW i \in 1..Len(stream'[u]),
                    stream'[u][i].type = "accepted"
             PROVE  Answered(stream[u][i].call)'
  BY DEF AcceptedIsAnswered
<1> DEFINE ev == [type |-> type, call |-> c]
<1>0. ev \in Event /\ ev.type = type /\ ev.call = c
  BY EventsAreTyped
<1>1. stream'[u] = Append(stream[u], ev) \/ stream'[u] = stream[u]
  BY DEF EmitTo
<1>2. stream[u] \in Seq(Event)
  BY DEF TypeOK
<1>3. stream'[u][i] = ev \/ (i \in 1..Len(stream[u]) /\ stream'[u][i] = stream[u][i])
  <2> HIDE DEF ev
  <2> QED BY <1>0, <1>1, <1>2
<1>4. PICK e : e = stream'[u][i]
  OBVIOUS
<1>5. e \in Event /\ Answered(e.call)
  <2> HIDE DEF ev
  <2> QED BY <1>0, <1>2, <1>3, <1>4 DEF AcceptedIsAnswered
<1>6. Answered(e.call)'
  BY <1>5 DEF Stays, Event
<1>7. QED BY <1>4, <1>6 DEF Answered

LEMMA StepKeepsAccepted ==
    ASSUME TypeOK, GoodReqs, AcceptedIsAnswered, [Next]_vars
    PROVE  AcceptedIsAnswered'
<1>0. Stays
  BY AnsweredStays DEF Stays
<1>a. ASSUME \A t \in Tabs : stream'[t] \in {stream[t], <<>>}
      PROVE  AcceptedIsAnswered'
  BY <1>0, <1>a, SameStreamsStayGood
<1>u. ASSUME UNCHANGED stream PROVE AcceptedIsAnswered'
  BY <1>a, <1>u
<1>1. ASSUME NEW t \in Tabs, Click(t) PROVE AcceptedIsAnswered'
  BY <1>u, <1>1 DEF Click, StartCall, StartGroupCall, InviteToActiveCall,
     JoinChannelCall, AcceptIncoming, DeclineIncoming, CancelOutgoing, EndActive
<1>2. ASSUME NEW t \in Tabs, Deliver(t) PROVE AcceptedIsAnswered'
  BY <1>0, <1>2, PopKeepsAccepted DEF Deliver, OnIncoming, OnAccepted, OnEnded, Pop
<1>3. ASSUME NEW t \in Tabs, StreamDrops(t) \/ Reload(t) PROVE AcceptedIsAnswered'
  BY <1>a, <1>3 DEF StreamDrops, Reload, Cut
<1>4. ASSUME NEW t \in Tabs, Reconnect(t) PROVE AcceptedIsAnswered'
  BY <1>u, <1>4 DEF Reconnect
<1>5. ASSUME NEW r \in reqs, Reply(r) \/ RequestFails(r) PROVE AcceptedIsAnswered'
  BY <1>u, <1>5 DEF Reply, ShowOutgoing, ShowGroup, EnterAccepted, EnterAsCaller,
     RequestFails
<1>6. ASSUME NEW r \in reqs, Handle(r) PROVE AcceptedIsAnswered'
  <2>0. r \in RequestType /\ GoodReq(r)
    BY DEF TypeOK, GoodReqs
  <2>1. CASE Announce(r)
    <3>1. r.call \in Calls
      BY <2>0, <2>1 DEF Announce, GoodReq, RowOps
    <3>2. QED BY <1>0, <2>1, <3>1, EmitKeepsAccepted DEF Announce
  <2>2. CASE AnnounceAccept(r)
    <3>1. r.call \in Calls /\ Answered(r.call)
      BY <2>0, <2>2 DEF AnnounceAccept, GoodReq, Admitted
    <3>2. QED BY <1>0, <2>2, <3>1, EmitKeepsAccepted DEF AnnounceAccept
  <2>3. CASE EndCall(r)
    <3>1. r.call \in Calls
      BY <2>0, <2>3 DEF EndCall, GoodReq
    <3>2. QED BY <1>0, <2>3, <3>1, EmitKeepsAccepted DEF EndCall
  <2>4. CASE \/ CreateRow(r) \/ FinishGroup(r) \/ AcceptRefused(r) \/ AcceptCall(r)
             \/ EndAgain(r) \/ GetCall(r) \/ AnswerGet(r)
    BY <1>u, <2>4 DEF CreateRow, FinishGroup, AcceptRefused, AcceptCall, EndAgain,
       GetCall, AnswerGet
  <2>5. QED BY <1>6, <2>1, <2>2, <2>3, <2>4 DEF Handle
<1>7. ASSUME NEW c \in Calls, AutoMiss(c) PROVE AcceptedIsAnswered'
  BY <1>0, <1>u, <1>7, EmitKeepsAccepted DEF AutoMiss
<1>8. CASE Restart
  BY <1>a, <1>8 DEF Restart, Cut
<1>9. CASE UNCHANGED vars
  BY <1>u, <1>9 DEF vars
<1>10. QED
  BY <1>1, <1>2, <1>3, <1>4, <1>5, <1>6, <1>7, <1>8, <1>9 DEF Next

-----------------------------------------------------------------------------
(* A tab enters a call only on an answer that was granted *)

LEMMA StepKeepsInCall ==
    ASSUME TypeOK, GoodReqs, InCallOnlyIfAnswered, [Next]_vars
    PROVE  InCallOnlyIfAnswered'
<1>0. Stays
  BY AnsweredStays DEF Stays
<1>a. ASSUME \A t \in Tabs : active'[t] \in {active[t], None, Group}
      PROVE  InCallOnlyIfAnswered'
  BY <1>0, <1>a DEF Stays, Answered, InCallOnlyIfAnswered
<1>b. ASSUME NEW u \in Tabs \union {None}, NEW c \in Calls, Answered(c),
             active' = [active EXCEPT ![u] = c]
      PROVE  InCallOnlyIfAnswered'
  BY <1>0, <1>b DEF Stays, Answered, InCallOnlyIfAnswered, TypeOK
<1>1. ASSUME NEW t \in Tabs, Click(t) PROVE InCallOnlyIfAnswered'
  BY <1>a, <1>1 DEF Click, StartCall, StartGroupCall, InviteToActiveCall,
     JoinChannelCall, AcceptIncoming, DeclineIncoming, CancelOutgoing, EndActive,
     screen, TypeOK
<1>2. ASSUME NEW t \in Tabs, Deliver(t) PROVE InCallOnlyIfAnswered'
  BY <1>a, <1>2 DEF Deliver, OnIncoming, OnAccepted, OnEnded, Clear, screen, TypeOK
<1>3. ASSUME NEW t \in Tabs, StreamDrops(t) \/ Reconnect(t) \/ Reload(t)
      PROVE  InCallOnlyIfAnswered'
  BY <1>a, <1>3 DEF StreamDrops, Reconnect, Reload, screen, TypeOK
<1>4. ASSUME NEW r \in reqs, Handle(r) PROVE InCallOnlyIfAnswered'
  <2>1. UNCHANGED active
    BY <1>4 DEF Handle, CreateRow, Announce, FinishGroup, AcceptRefused, AcceptCall,
       AnnounceAccept, EndAgain, EndCall, GetCall, AnswerGet, screen
  <2>2. QED BY <1>a, <2>1
<1>5. ASSUME NEW r \in reqs, Reply(r) PROVE InCallOnlyIfAnswered'
  <2>0. /\ r \in RequestType /\ GoodReq(r)
        /\ r.tab \in Tabs \union {None} /\ r.ok \in BOOLEAN
    BY RequestFields DEF TypeOK, GoodReqs
  <2>1. CASE ShowOutgoing(r)
    BY <1>a, <2>1 DEF ShowOutgoing
  <2>2. CASE ShowGroup(r)
    BY <1>a, <2>0, <2>2 DEF ShowGroup, TypeOK
  <2>3. CASE EnterAccepted(r)
    <3>1. CASE r.ok
      BY <1>b, <2>0, <2>3, <3>1 DEF EnterAccepted, Arrives, GoodReq, Admitted
    <3>2. CASE ~r.ok
      BY <1>a, <2>3, <3>2 DEF EnterAccepted
    <3>3. QED BY <3>1, <3>2
  <2>4. CASE EnterAsCaller(r)
    BY <1>b, <2>0, <2>4 DEF EnterAsCaller, GoodReq
  <2>5. QED BY <1>5, <2>1, <2>2, <2>3, <2>4 DEF Reply
<1>6. ASSUME NEW r \in reqs, RequestFails(r) PROVE InCallOnlyIfAnswered'
  BY <1>a, <1>6 DEF RequestFails, screen
<1>7. ASSUME NEW c \in Calls, AutoMiss(c) PROVE InCallOnlyIfAnswered'
  BY <1>a, <1>7 DEF AutoMiss, screen
<1>8. CASE Restart \/ UNCHANGED vars
  BY <1>a, <1>8 DEF Restart, vars, screen
<1>9. QED
  BY <1>1, <1>2, <1>3, <1>4, <1>5, <1>6, <1>7, <1>8 DEF Next

-----------------------------------------------------------------------------
(* The timer is armed by the handler that creates the ringing row *)

\* The handler between the row and its timer.
Arms(r, c) == r.call = c /\ r.stage = "await" /\ r.op \in RowOps

\* No step but a restart takes a timer from a ringing row.
LEMMA OnlyRestartsUntime ==
    ASSUME [Next]_vars, ~Restart
    PROVE  untimed' = untimed
<1>1. ASSUME NEW t \in Tabs, Click(t) \/ Deliver(t) PROVE untimed' = untimed
  BY <1>1 DEF Click, StartCall, StartGroupCall, InviteToActiveCall, JoinChannelCall,
     AcceptIncoming, DeclineIncoming, CancelOutgoing, EndActive, Deliver, OnIncoming,
     OnAccepted, OnEnded, mishaps
<1>2. ASSUME NEW t \in Tabs, StreamDrops(t) \/ Reconnect(t) \/ Reload(t)
      PROVE  untimed' = untimed
  BY <1>2 DEF StreamDrops, Reconnect, Reload, mishaps
<1>3. ASSUME NEW r \in reqs, Handle(r) PROVE untimed' = untimed
  BY <1>3 DEF Handle, CreateRow, Announce, FinishGroup, AcceptRefused, AnnounceAccept,
     EndAgain, GetCall, AnswerGet, AcceptCall, EndCall, mishaps
<1>4. ASSUME NEW r \in reqs, Reply(r) \/ RequestFails(r) PROVE untimed' = untimed
  BY <1>4 DEF Reply, ShowOutgoing, ShowGroup, EnterAccepted, EnterAsCaller, RequestFails,
     mishaps
<1>5. ASSUME NEW c \in Calls, AutoMiss(c) PROVE untimed' = untimed
  BY <1>5 DEF AutoMiss, mishaps
<1>6. CASE UNCHANGED vars
  BY <1>6 DEF vars
<1>7. QED BY <1>1, <1>2, <1>3, <1>4, <1>5, <1>6 DEF Next

\* A ringing row keeps its timer, or the handler about to arm it, but for a restart.
LEMMA StepKeepsTimed ==
    ASSUME TypeOK, GoodReqs, RingingIsTimed, [Next]_vars
    PROVE  RingingIsTimed'
<1>r. CASE Restart
  BY <1>r DEF Restart, RingingIsTimed, db
<1> SUFFICES ASSUME ~Restart, NEW c \in Calls, status'[c] = "ringing", c \notin untimed'
             PROVE  c \in timer' \/ \E q \in reqs' : Arms(q, c)
  BY <1>r DEF RingingIsTimed, Arms, RowOps
<1>u. c \notin untimed
  BY OnlyRestartsUntime
<1>i. ASSUME status[c] = "ringing", ~(c \in timer)
      PROVE  \E r \in reqs : Arms(r, c)
  BY <1>u, <1>i DEF RingingIsTimed, Arms, RowOps
<1>k. ASSUME status[c] = "ringing", timer \subseteq timer',
             \A r \in reqs : Arms(r, c) => r \in reqs'
      PROVE  c \in timer' \/ \E q \in reqs' : Arms(q, c)
  BY <1>i, <1>k
<1>n. ASSUME UNCHANGED status PROVE status[c] = "ringing"
  BY <1>n
<1>1. ASSUME NEW t \in Tabs, Click(t) PROVE c \in timer' \/ \E q \in reqs' : Arms(q, c)
  <2>1. UNCHANGED <<status, timer>> /\ reqs \subseteq reqs'
    BY <1>1 DEF Click, StartCall, StartGroupCall, InviteToActiveCall, JoinChannelCall,
       AcceptIncoming, DeclineIncoming, CancelOutgoing, EndActive, Send, db
  <2>2. QED BY <1>k, <1>n, <2>1
<1>2. ASSUME NEW t \in Tabs, Deliver(t) PROVE c \in timer' \/ \E q \in reqs' : Arms(q, c)
  <2>1. UNCHANGED <<status, timer>> /\ reqs \subseteq reqs'
    BY <1>2 DEF Deliver, OnIncoming, OnAccepted, OnEnded, Send, db
  <2>2. QED BY <1>k, <1>n, <2>1
<1>3. ASSUME NEW t \in Tabs, StreamDrops(t) \/ Reconnect(t)
      PROVE  c \in timer' \/ \E q \in reqs' : Arms(q, c)
  <2>1. UNCHANGED <<status, timer, reqs>>
    BY <1>3 DEF StreamDrops, Reconnect, db
  <2>2. QED BY <1>k, <1>n, <2>1
<1>4. ASSUME NEW t \in Tabs, Reload(t) PROVE c \in timer' \/ \E q \in reqs' : Arms(q, c)
  <2>1. status[c] = "ringing" /\ timer' = timer
    BY <1>4 DEF Reload, db
  <2>2. CASE c \notin timer
    <3>1. PICK r \in reqs : Arms(r, c)
      BY <1>i, <2>1, <2>2
    <3> DEFINE q == IF r.tab = t THEN [r EXCEPT !.tab = None] ELSE r
    <3>2. q \in reqs'
      BY <1>4, <3>1 DEF Reload, Arms
    <3>3. Arms(q, c)
      BY <3>1 DEF Arms, TypeOK, RequestType
    <3>4. QED BY <3>2, <3>3
  <2>3. QED BY <2>1, <2>2
<1>5. ASSUME NEW r \in reqs, Reply(r) PROVE c \in timer' \/ \E q \in reqs' : Arms(q, c)
  <2>1. UNCHANGED <<status, timer>> /\ \A q \in reqs : Arms(q, c) => q \in reqs'
    BY <1>5 DEF Reply, ShowOutgoing, ShowGroup, EnterAccepted, EnterAsCaller, Arrives,
       Arms, db
  <2>2. QED BY <1>k, <1>n, <2>1
<1>6. ASSUME NEW r \in reqs, RequestFails(r)
      PROVE  c \in timer' \/ \E q \in reqs' : Arms(q, c)
  <2>1. UNCHANGED <<status, timer>> /\ \A q \in reqs : Arms(q, c) => q \in reqs'
    BY <1>6 DEF RequestFails, Answer, Arms, db
  <2>2. QED BY <1>k, <1>n, <2>1
<1>7. ASSUME NEW r \in reqs, Handle(r) PROVE c \in timer' \/ \E q \in reqs' : Arms(q, c)
  <2>0. r \in RequestType /\ GoodReq(r)
    BY DEF TypeOK, GoodReqs
  <2>1. CASE CreateRow(r)
    <3>1. PICK p \in r.todo :
             /\ SetStatus(p[1], "ringing")
             /\ Replace(r, [r EXCEPT !.stage = "await", !.call = p[1], !.todo = @ \ {p}])
      BY <2>1 DEF CreateRow
    <3> DEFINE q == [r EXCEPT !.stage = "await", !.call = p[1], !.todo = @ \ {p}]
    <3>2. q \in reqs' /\ q.op = r.op /\ q.call = p[1] /\ q.stage = "await"
      BY <2>0, <3>1 DEF RequestType, Replace
    <3>3. r.op \in RowOps
      BY <2>0 DEF GoodReq
    <3>4. CASE c = p[1]
      <4> HIDE DEF q
      <4> QED BY <3>2, <3>3, <3>4 DEF Arms
    <3>5. CASE c # p[1]
      BY <1>k, <2>1, <3>1, <3>5 DEF CreateRow, SetStatus, Replace, Arms, TypeOK
    <3>6. QED BY <3>4, <3>5
  <2>2. CASE Announce(r)
    <3>1. CASE c = r.call
      BY <2>2, <3>1 DEF Announce
    <3>2. CASE c # r.call
      <4>1. status[c] = "ringing" /\ timer \subseteq timer'
        BY <2>2 DEF Announce, db
      <4>2. \A q \in reqs : Arms(q, c) => q \in reqs'
        BY <2>2, <3>2 DEF Announce, Answer, Replace, Arms
      <4>3. QED BY <1>k, <4>1, <4>2
    <3>3. QED BY <3>1, <3>2
  <2>3. CASE \/ FinishGroup(r) \/ AcceptRefused(r) \/ AnnounceAccept(r)
             \/ EndAgain(r) \/ GetCall(r) \/ AnswerGet(r)
    <3>1. UNCHANGED <<status, timer>>
      BY <2>3 DEF FinishGroup, AcceptRefused, AnnounceAccept, EndAgain, GetCall,
         AnswerGet, db
    <3>2. \A q \in reqs : Arms(q, c) => q \in reqs'
      BY <2>3 DEF FinishGroup, AcceptRefused, AnnounceAccept, EndAgain, GetCall,
         AnswerGet, Answer, Replace, Arms, RowOps
    <3>3. QED BY <1>k, <1>n, <3>1, <3>2
  <2>4. CASE AcceptCall(r) \/ EndCall(r)
    <3>1. status[c] = "ringing" /\ timer' = timer
      BY <2>0, <2>4 DEF AcceptCall, EndCall, SetStatus, TypeOK, GoodReq
    <3>2. \A q \in reqs : Arms(q, c) => q \in reqs'
      BY <2>4 DEF AcceptCall, EndCall, Answer, Replace, Arms, RowOps
    <3>3. QED BY <1>k, <3>1, <3>2
  <2>5. QED BY <1>7, <2>1, <2>2, <2>3, <2>4 DEF Handle
<1>8. ASSUME NEW d \in Calls, AutoMiss(d)
      PROVE  c \in timer' \/ \E q \in reqs' : Arms(q, c)
  <2>1. c # d /\ status[c] = "ringing"
    BY <1>8 DEF AutoMiss, SetStatus, TypeOK
  <2>2. CASE c \in timer
    BY <1>8, <2>1, <2>2 DEF AutoMiss
  <2>3. CASE c \notin timer
    BY <1>8, <1>i, <2>1, <2>3 DEF AutoMiss
  <2>4. QED BY <2>2, <2>3
<1>9. CASE UNCHANGED vars
  BY <1>k, <1>9 DEF vars
<1>10. QED
  BY <1>1, <1>2, <1>3, <1>4, <1>5, <1>6, <1>7, <1>8, <1>9 DEF Next

-----------------------------------------------------------------------------
(* The theorems *)

LEMMA InitIsGood == Init => IInv
BY DEF Init, IInv, TypeOK, GoodReqs, AcceptedIsAnswered, InCallOnlyIfAnswered,
   RingingIsTimed, RequestType

LEMMA Inductive ==
    ASSUME IInv, [Next]_vars
    PROVE  IInv'
BY StepKeepsTypes, StepKeepsGood, StepKeepsAccepted, StepKeepsInCall,
   StepKeepsTimed DEF IInv

\* Throughout every run of handlers, clicks, events, timers and faults, the rows,
\* requests, streams and screens satisfy the inductive invariant IInv.
THEOREM InductiveInvariant == Spec => []IInv
<1>1. Init => IInv
  BY InitIsGood
<1>2. IInv /\ [Next]_vars => IInv'
  BY Inductive
<1>3. QED BY <1>1, <1>2, PTL DEF Spec

\* Every handler, click, event and fault leaves rows, requests, streams and
\* screens of the right shape: routes.ts never indexes a row that is not there.
THEOREM TypeCorrect == Spec => []TypeOK
<1>1. IInv => TypeOK
  BY DEF IInv
<1>2. QED BY <1>1, InductiveInvariant, PTL

\* However accepts race the auto-miss timer, a cancel, the callee's other tabs,
\* lost events and restarts, no tab (CallContext.active) sits in a call whose
\* row says missed, declined or still ringing.
THEOREM InCallIsAnswered == Spec => []InCallOnlyIfAnswered
<1>1. IInv => InCallOnlyIfAnswered
  BY DEF IInv
<1>2. QED BY <1>1, InductiveInvariant, PTL

\* As long as the process is not restarted, a row that calls/start, group-call
\* or active/invite created as "ringing" has its auto-miss timer, or the handler
\* that is about to arm it.
THEOREM RingingHasTimer == Spec => []RingingIsTimed
<1>1. IInv => RingingIsTimed
  BY DEF IInv
<1>2. QED BY <1>1, InductiveInvariant, PTL

\* The direct_calls rows implement CallLedger: a row rings once, is settled once,
\* and no late accept, second hang-up or late timer changes a settled row.
THEOREM LedgerIsImplemented == Spec => ImplementsLedger
<1>1. Init => Ledger!Init
  BY DEF Init, Ledger!Init
<1>2. IInv /\ [Next]_vars => [Ledger!Next]_status
  BY StatusMoves DEF IInv
<1>3. QED
  BY <1>1, <1>2, InductiveInvariant, PTL DEF Spec, ImplementsLedger, Ledger!Spec

=============================================================================
