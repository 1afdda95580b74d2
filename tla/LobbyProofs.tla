---------------------------- MODULE LobbyProofs ----------------------------
(***************************************************************************)
(* What holds of Lobby for every number of guests, members, knocks, polls  *)
(* in flight and faults: type correctness, that a guest's page shows the   *)
(* room only on an admitted knock, that the server implements Admission,   *)
(* and that whoever is in the room is on the participants' list.           *)
(***************************************************************************)
EXTENDS Lobby, TLAPS

USE LobbyAssumption

\* What the fields of a request say of each other.
Shape(r) ==
    /\ r.op \in {"knock", "poll", "cancel"} => r.who \in Guests
    /\ r.op \in {"poll", "cancel"} => r.id \in Tickets
    /\ r.op = "knock" => r.id \in Tickets \union {None}
    /\ r.op = "knock" /\ r.answer = "pending" => r.id \in Tickets
    /\ r.op = "join" => r.who \in Members /\ r.id \in Identities
    /\ r.op = "join" /\ r.stage = "sent" => r.id \in Members
    /\ r.op = "leave" => r.id \in Identities
    /\ r.heard => r.op \in {"knock", "poll", "join"}
    /\ r.stage = "done" => r.heard
    /\ r.stage = "await" => r.op \in {"knock", "poll", "join"}
    /\ r.op # "poll" => r.slot = 1

\* The tickets recorded for a knock.
Invited == {k \in entered : knock[k] # "unasked"}

\* The token of one who knocked, granted or being minted, is for a recorded ticket.
Entitled(r) ==
    r.op \in {"knock", "poll"} /\ (r.stage = "await" \/ r.answer = "token")
       => r.id \in Invited

\* A request whose answer is heard is one its page is waiting for.
Awaited(r) ==
    /\ r.op \in {"knock", "join"} /\ r.heard => page[r.who] = "joining"
    /\ r.op = "poll" /\ r.heard => page[r.who] = "waiting" /\ r.id = ticket[r.who]

Shaped     == \A r \in reqs : Shape(r)
AllEntitled == \A r \in reqs : Entitled(r)
AllAwaited == \A r \in reqs : Awaited(r)

OneOfAKind ==
    \A q, r \in reqs : q.who = r.who /\ q.op = r.op /\ q.slot = r.slot => q = r

WaitingHasTicket == \A g \in Guests : page[g] = "waiting" => ticket[g] \in Tickets

GuestInIsEntered == \A g \in Guests : page[g] = "in" => ticket[g] \in Invited

InHasIdentity == \A p \in Pages : page[p] = "in" => ticket[p] \in Identities

EnteredWasAdmitted ==
    \A k \in entered : knock[k] \in {"admitted", "walkin", "unasked", "gone"}

\* The inductive invariant: a page shows the room on a token, a token belongs to
\* a recorded ticket, and a ticket is recorded when it is admitted; a page that
\* waits hears only the polls of the ticket it waits with.
IInv == /\ TypeOK
        /\ Shaped
        /\ AllEntitled
        /\ AllAwaited
        /\ OneOfAKind
        /\ WaitingHasTicket
        /\ GuestInIsEntered
        /\ InHasIdentity
        /\ EnteredWasAdmitted

-----------------------------------------------------------------------------
(* Requests *)

\* The fields of a request have their types.
LEMMA RequestFields ==
    ASSUME NEW r \in RequestType
    PROVE  /\ r.op \in Ops /\ r.who \in Pages /\ r.id \in Identities \union {None}
           /\ r.slot \in Nat /\ r.heard \in BOOLEAN
           /\ r.stage \in {"sent", "await", "done"}
           /\ r.answer \in {"none", "token", "refused"} \union KnockStatus
BY DEF RequestType

\* Handlers and pages keep a request a request.
LEMMA RequestUpdates ==
    ASSUME NEW r \in RequestType, NEW s \in {"sent", "await", "done"},
           NEW i \in Identities \union {None},
           NEW a \in {"none", "token", "refused"} \union KnockStatus
    PROVE  /\ [r EXCEPT !.stage = s, !.id = i, !.answer = a] \in RequestType
           /\ [r EXCEPT !.stage = s, !.answer = a] \in RequestType
           /\ [r EXCEPT !.stage = s, !.id = i] \in RequestType
           /\ [r EXCEPT !.heard = FALSE] \in RequestType
BY DEF RequestType

\* Answering keeps the set of requests typed.
LEMMA AnswerIsTyped ==
    ASSUME reqs \subseteq RequestType, NEW r \in reqs,
           NEW i \in Identities \union {None},
           NEW a \in {"none", "token", "refused"} \union KnockStatus,
           Answer(r, i, a)
    PROVE  reqs' \subseteq RequestType
<1>1. [r EXCEPT !.stage = "done", !.id = i, !.answer = a] \in RequestType
  BY RequestUpdates
<1>2. QED BY <1>1 DEF Answer

\* Suspending keeps the set of requests typed.
LEMMA SuspendIsTyped ==
    ASSUME reqs \subseteq RequestType, NEW r \in reqs,
           NEW i \in Identities, Suspend(r, i)
    PROVE  reqs' \subseteq RequestType
<1>1. [r EXCEPT !.stage = "await", !.id = i] \in RequestType
  BY RequestUpdates
<1>2. QED BY <1>1 DEF Suspend

\* Nothing but heard flags and heard answers goes when a page stops waiting.
LEMMA UnheardIsTyped ==
    ASSUME reqs \subseteq RequestType, NEW p \in Pages
    PROVE  Unheard(p) \subseteq RequestType
BY RequestUpdates DEF Unheard

\* Sending keeps the set of requests typed.
LEMMA SendIsTyped ==
    ASSUME NEW S \in SUBSET RequestType, NEW p \in Pages, NEW op \in Ops,
           NEW i \in Identities \union {None}, MaxPolls \in Nat, Send(p, op, i, S)
    PROVE  reqs' \subseteq RequestType
<1>1. PICK n \in 1..(IF op = "poll" THEN MaxPolls ELSE 1) :
         reqs' = S \union
             {[op |-> op, who |-> p, id |-> i, slot |-> n,
               heard |-> op \in {"knock", "poll", "join"},
               stage |-> "sent", answer |-> "none"]}
  BY DEF Send
<1>2. n \in Nat
  BY <1>1
<1>3. [op |-> op, who |-> p, id |-> i, slot |-> n,
       heard |-> op \in {"knock", "poll", "join"},
       stage |-> "sent", answer |-> "none"] \in RequestType
  BY <1>2 DEF RequestType
<1>4. QED BY <1>1, <1>3

-----------------------------------------------------------------------------
(* TypeOK is preserved, given the shape of requests *)

\* Clicks and polls.
LEMMA ClickKeepsTypes ==
    ASSUME IInv, NEW g \in Guests, Knock(g) \/ Poll(g) \/ CancelKnock(g)
    PROVE  TypeOK'
<1>0. /\ TypeOK /\ WaitingHasTicket /\ reqs \subseteq RequestType /\ g \in Pages
      /\ MaxPolls \in Nat
  BY DEF IInv, TypeOK, Pages
<1>1. CASE Knock(g)
  <2>1. reqs' \subseteq RequestType
    BY <1>0, <1>1, SendIsTyped DEF Knock, Ops
  <2>2. QED BY <1>0, <1>1, <2>1
        DEF Knock, Show, TypeOK, PageStates, meeting, lobby, people
<1>2. CASE Poll(g)
  <2>1. ticket[g] \in Identities
    BY <1>0, <1>2 DEF Poll, WaitingHasTicket, Identities
  <2>2. reqs' \subseteq RequestType
    BY <1>0, <1>2, <2>1, SendIsTyped DEF Poll, Ops
  <2>3. QED BY <1>0, <1>2, <2>2 DEF Poll, TypeOK, meeting, lobby, people, pages
<1>3. CASE CancelKnock(g)
  <2>1. ticket[g] \in Identities
    BY <1>0, <1>3 DEF CancelKnock, WaitingHasTicket, Identities
  <2>2. Unheard(g) \in SUBSET RequestType
    BY <1>0, UnheardIsTyped
  <2>3. reqs' \subseteq RequestType
    BY <1>0, <1>3, <2>1, <2>2, SendIsTyped DEF CancelKnock, Ops
  <2>4. QED BY <1>0, <1>3, <2>3
        DEF CancelKnock, Show, TypeOK, PageStates, meeting, lobby, people
<1>4. QED BY <1>1, <1>2, <1>3

\* What members do, in the room and before it.
LEMMA MemberKeepsTypes ==
    ASSUME IInv, NEW m \in Members,
           \/ Join(m) \/ RefreshPanel(m) \/ \E k \in Tickets : Decide(m, k)
    PROVE  TypeOK'
<1>0. /\ TypeOK /\ reqs \subseteq RequestType /\ m \in Pages /\ m \in Identities
      /\ MaxPolls \in Nat
  BY DEF IInv, TypeOK, Pages, Identities
<1>1. CASE Join(m)
  <2>1. reqs' \subseteq RequestType
    BY <1>0, <1>1, SendIsTyped DEF Join, Ops
  <2>2. QED BY <1>0, <1>1, <2>1
        DEF Join, Show, TypeOK, PageStates, meeting, lobby, people
<1>2. CASE RefreshPanel(m)
  BY <1>0, <1>2 DEF RefreshPanel, TypeOK, meeting, lobby, people
<1>3. ASSUME NEW k \in Tickets, Decide(m, k)
      PROVE  TypeOK'
  <2>1. knock' \in [Tickets -> KnockStatus]
    BY <1>0, <1>3 DEF Decide, SetKnock, TypeOK, KnockStatus
  <2>2. panel' \in [Members -> SUBSET Tickets]
    BY <1>0, <1>3 DEF Decide, TypeOK
  <2>3. QED BY <1>0, <1>3, <2>1, <2>2 DEF Decide, TypeOK, meeting, people
<1>4. QED BY <1>1, <1>2, <1>3

\* Leaving, and pages that are closed.
LEMMA PageKeepsTypes ==
    ASSUME IInv, NEW p \in Pages, Leave(p) \/ ClosePage(p)
    PROVE  TypeOK'
<1>0. TypeOK /\ InHasIdentity /\ reqs \subseteq RequestType /\ MaxPolls \in Nat
  BY DEF IInv, TypeOK
<1>1. CASE Leave(p)
  <2>1. ticket[p] \in Identities
    BY <1>0, <1>1 DEF Leave, InHasIdentity
  <2>2. reqs' \subseteq RequestType
    BY <1>0, <1>1, <2>1, SendIsTyped DEF Leave, Ops
  <2>3. panel' \in [Members -> SUBSET Tickets]
    BY <1>0, <1>1 DEF Leave, TypeOK
  <2>4. QED BY <1>0, <1>1, <2>2, <2>3
        DEF Leave, Show, TypeOK, PageStates, meeting, lobby, people
<1>2. CASE ClosePage(p)
  <2>1. reqs' \subseteq RequestType
    BY <1>0, <1>2, UnheardIsTyped DEF ClosePage
  <2>2. panel' \in [Members -> SUBSET Tickets]
    BY <1>0, <1>2 DEF ClosePage, TypeOK
  <2>3. QED BY <1>0, <1>2, <2>1, <2>2
        DEF ClosePage, Fault, Show, TypeOK, PageStates, meeting, lobby, people
<1>3. QED BY <1>1, <1>2

\* Every join that is taken records an identity.
LEMMA RecordIsTyped ==
    ASSUME TypeOK, NEW i \in Identities, Record(i)
    PROVE  /\ status' \in {"scheduled", "active", "ended"}
           /\ rows' \in [Identities -> Nat]
           /\ entered' \subseteq Tickets
BY DEF Record, TypeOK

\* The handlers.
LEMMA HandleKeepsTypes ==
    ASSUME IInv, NEW r \in reqs, Handle(r)
    PROVE  TypeOK'
<1>0. /\ TypeOK /\ reqs \subseteq RequestType /\ r \in RequestType /\ Shape(r)
      /\ None \in Identities \union {None}
      /\ \A k \in Tickets : k \in Identities
  BY DEF IInv, TypeOK, Shaped, Identities
<1>a. /\ "token" \in {"none", "token", "refused"} \union KnockStatus
      /\ "refused" \in {"none", "token", "refused"} \union KnockStatus
      /\ "none" \in {"none", "token", "refused"} \union KnockStatus
      /\ "pending" \in {"none", "token", "refused"} \union KnockStatus
  BY DEF KnockStatus
<1>b. r.id \in Identities \union {None}
  BY <1>0, RequestFields
<1>1. CASE KnockRefused(r)
  <2>1. reqs' \subseteq RequestType
    BY <1>0, <1>a, <1>1, AnswerIsTyped DEF KnockRefused
  <2>2. QED BY <1>0, <1>1, <2>1 DEF KnockRefused, TypeOK, meeting, lobby, people, pages
<1>2. CASE TakeKnock(r)
  <2>1. PICK k \in Tickets : knock[k] = "none" /\ SetKnock(k, "pending") /\ Answer(r, k, "pending")
    BY <1>2 DEF TakeKnock
  <2>2. reqs' \subseteq RequestType
    BY <1>0, <1>a, <2>1, AnswerIsTyped
  <2>3. knock' \in [Tickets -> KnockStatus]
    BY <1>0, <2>1 DEF SetKnock, TypeOK, KnockStatus
  <2>4. QED BY <1>0, <1>2, <2>2, <2>3 DEF TakeKnock, TypeOK, meeting, people, pages
<1>3. CASE WalkIn(r)
  <2>1. PICK k \in Tickets : /\ knock[k] = "none" /\ SetKnock(k, "walkin")
                             /\ Record(k) /\ Suspend(r, k)
    BY <1>3 DEF WalkIn
  <2>2. reqs' \subseteq RequestType
    BY <1>0, <2>1, SuspendIsTyped
  <2>3. knock' \in [Tickets -> KnockStatus]
    BY <1>0, <2>1 DEF SetKnock, TypeOK, KnockStatus
  <2>4. /\ status' \in {"scheduled", "active", "ended"}
        /\ rows' \in [Identities -> Nat] /\ entered' \subseteq Tickets
    BY <1>0, <2>1, RecordIsTyped
  <2>5. QED BY <1>0, <1>3, <2>2, <2>3, <2>4 DEF WalkIn, TypeOK, pages
<1>4. CASE ReportKnock(r)
  <2>1. r.id \in Tickets
    BY <1>0, <1>4 DEF ReportKnock, Shape
  <2>2. (IF knock[r.id] = "gone" THEN "refused" ELSE knock[r.id])
           \in {"none", "token", "refused"} \union KnockStatus
    BY <1>0, <2>1 DEF TypeOK
  <2>3. reqs' \subseteq RequestType
    BY <1>0, <1>b, <1>4, <2>2, AnswerIsTyped DEF ReportKnock
  <2>4. QED BY <1>0, <1>4, <2>3 DEF ReportKnock, TypeOK, meeting, lobby, people, pages
<1>5. CASE UseAdmit(r)
  <2>1. r.id \in Tickets
    BY <1>0, <1>5 DEF UseAdmit, Shape
  <2>2. reqs' \subseteq RequestType
    BY <1>0, <1>5, <2>1, SuspendIsTyped DEF UseAdmit
  <2>3. /\ status' \in {"scheduled", "active", "ended"}
        /\ rows' \in [Identities -> Nat] /\ entered' \subseteq Tickets
    BY <1>0, <1>5, <2>1, RecordIsTyped DEF UseAdmit
  <2>4. QED BY <1>0, <1>5, <2>2, <2>3 DEF UseAdmit, TypeOK, lobby, pages
<1>6. CASE MintToken(r)
  <2>1. reqs' \subseteq RequestType
    BY <1>0, <1>a, <1>b, <1>6, AnswerIsTyped DEF MintToken
  <2>2. issued' \subseteq Tickets
    BY <1>0, <1>6 DEF MintToken, Shape, TypeOK
  <2>3. QED BY <1>0, <1>6, <2>1, <2>2 DEF MintToken, TypeOK, meeting, people, pages
<1>7. CASE CancelAtServer(r)
  <2>1. reqs' \subseteq RequestType
    BY <1>0, <1>a, <1>b, <1>7, AnswerIsTyped DEF CancelAtServer
  <2>2. knock' \in [Tickets -> KnockStatus]
    BY <1>0, <1>7 DEF CancelAtServer, SetKnock, TypeOK, KnockStatus
  <2>3. QED BY <1>0, <1>7, <2>1, <2>2 DEF CancelAtServer, TypeOK, meeting, people, pages
<1>8. CASE JoinRefused(r)
  <2>1. reqs' \subseteq RequestType
    BY <1>0, <1>a, <1>b, <1>8, AnswerIsTyped DEF JoinRefused
  <2>2. QED BY <1>0, <1>8, <2>1 DEF JoinRefused, TypeOK, meeting, lobby, people, pages
<1>9. CASE TakeJoin(r)
  <2>1. r.id \in Identities
    BY <1>0, <1>9 DEF TakeJoin, Shape, Identities
  <2>2. reqs' \subseteq RequestType
    BY <1>0, <1>9, <2>1, SuspendIsTyped DEF TakeJoin
  <2>3. /\ status' \in {"scheduled", "active", "ended"}
        /\ rows' \in [Identities -> Nat] /\ entered' \subseteq Tickets
    BY <1>0, <1>9, <2>1, RecordIsTyped DEF TakeJoin
  <2>4. QED BY <1>0, <1>9, <2>2, <2>3 DEF TakeJoin, TypeOK, lobby, pages
<1>10. CASE CloseRow(r)
  <2>1. reqs' \subseteq RequestType
    BY <1>0, <1>a, <1>b, <1>10, AnswerIsTyped DEF CloseRow
  <2>2. rows' \in [Identities -> Nat]
    <3>1. r.id \in Identities /\ rows \in [Identities -> Nat] /\ rows[r.id] \in Nat
      BY <1>0, <1>10 DEF CloseRow, TypeOK, Shape
    <3>2. (IF rows[r.id] > 0 THEN rows[r.id] - 1 ELSE 0) \in Nat
      BY <3>1
    <3>3. QED BY <1>10, <3>1, <3>2 DEF CloseRow
  <2>3. QED BY <1>0, <1>10, <2>1, <2>2 DEF CloseRow, TypeOK, meeting, lobby, pages
<1>11. CASE JoinAsGuest(r)
  <2>1. PICK k \in Tickets : /\ knock[k] = "none" /\ SetKnock(k, "unasked")
                             /\ Record(k) /\ Suspend(r, k)
    BY <1>11 DEF JoinAsGuest
  <2>2. reqs' \subseteq RequestType
    BY <1>0, <2>1, SuspendIsTyped
  <2>3. knock' \in [Tickets -> KnockStatus]
    BY <1>0, <2>1 DEF SetKnock, TypeOK, KnockStatus
  <2>4. /\ status' \in {"scheduled", "active", "ended"}
        /\ rows' \in [Identities -> Nat] /\ entered' \subseteq Tickets
    BY <1>0, <2>1, RecordIsTyped
  <2>5. QED BY <1>0, <1>11, <2>2, <2>3, <2>4 DEF JoinAsGuest, TypeOK, pages
<1>12. QED
  BY <1>1, <1>2, <1>3, <1>4, <1>5, <1>6, <1>7, <1>8, <1>9, <1>10, <1>11 DEF Handle

\* Answers, faults and the rest.
LEMMA OtherKeepsTypes ==
    ASSUME IInv,
           \/ \E r \in reqs : Hear(r) \/ RequestFails(r)
           \/ \E k \in Tickets : Expire(k)
           \/ EndMeeting \/ EditMeeting \/ Restart \/ UNCHANGED vars
    PROVE  TypeOK'
<1>0. TypeOK /\ reqs \subseteq RequestType
  BY DEF IInv, TypeOK
<1>1. ASSUME NEW r \in reqs, HearJoin(r)
      PROVE  TypeOK'
  <2>1. r \in RequestType /\ Shape(r)
    BY <1>0 DEF IInv, Shaped
  <2>2. page' \in [Pages -> PageStates]
    BY <1>0, <1>1 DEF HearJoin, Show, TypeOK, PageStates
  <2>3. ticket' \in [Pages -> Identities \union {None}]
    BY <1>0, <1>1, <2>1, RequestFields DEF HearJoin, TypeOK
  <2>4. reqs' \subseteq RequestType
    BY <1>0, <1>1 DEF HearJoin, Arrives
  <2>5. QED BY <1>0, <1>1, <2>2, <2>3, <2>4 DEF HearJoin, TypeOK, meeting, lobby, people
<1>2. ASSUME NEW r \in reqs, HearPoll(r)
      PROVE  TypeOK'
  <2>1. r.who \in Pages
    BY <1>0, RequestFields
  <2>2. page' \in [Pages -> PageStates]
    BY <1>0, <1>2 DEF HearPoll, Show, Outcome, TypeOK, PageStates
  <2>3. reqs' \subseteq RequestType
    BY <1>0, <1>2, <2>1, UnheardIsTyped DEF HearPoll
  <2>4. QED BY <1>0, <1>2, <2>2, <2>3 DEF HearPoll, TypeOK, meeting, lobby, people
<1>3. ASSUME NEW r \in reqs, RequestFails(r)
      PROVE  TypeOK'
  <2>1. r.id \in Identities \union {None}
    BY <1>0, RequestFields
  <2>2. reqs' \subseteq RequestType
    BY <1>0, <1>3, <2>1, AnswerIsTyped DEF RequestFails
  <2>3. QED BY <1>0, <1>3, <2>2
        DEF RequestFails, Fault, TypeOK, meeting, lobby, people, pages
<1>4. ASSUME NEW k \in Tickets, Expire(k)
      PROVE  TypeOK'
  <2>1. knock' \in [Tickets -> KnockStatus]
    BY <1>0, <1>4 DEF Expire, SetKnock, TypeOK, KnockStatus
  <2>2. QED BY <1>0, <1>4, <2>1 DEF Expire, TypeOK, meeting, people, pages
<1>5. CASE EndMeeting
  BY <1>0, <1>5 DEF EndMeeting, TypeOK, lobby, people, pages
<1>6. CASE EditMeeting
  BY <1>0, <1>6 DEF EditMeeting, TypeOK, lobby, people, pages
<1>7. CASE Restart
  <2>1. \A r \in reqs : [r EXCEPT !.stage = "done", !.answer = "refused"] \in RequestType
    BY <1>0, RequestUpdates
  <2>2. reqs' \subseteq RequestType
    BY <1>0, <1>7, <2>1 DEF Restart
  <2>3. knock' \in [Tickets -> KnockStatus]
    BY <1>0, <1>7 DEF Restart, TypeOK, KnockStatus
  <2>4. issued' \subseteq Tickets /\ faults' \in Nat
    <3>1. issued' = {} /\ faults' = faults + 1
      BY <1>7, Zenon DEF Restart, Fault
    <3>2. QED BY <1>0, <3>1 DEF TypeOK
  <2>5. UNCHANGED <<meeting, people, pages>>
    BY <1>7 DEF Restart
  <2>6. QED BY <1>0, <2>2, <2>3, <2>4, <2>5
        DEF TypeOK, meeting, people, pages
<1>8. CASE UNCHANGED vars
  BY <1>0, <1>8 DEF TypeOK, vars
<1>9. QED BY <1>1, <1>2, <1>3, <1>4, <1>5, <1>6, <1>7, <1>8 DEF Hear

\* Every step of a meeting keeps every variable in its type.
LEMMA TypesArePreserved ==
    ASSUME IInv, [Next]_vars
    PROVE  TypeOK'
BY ClickKeepsTypes, MemberKeepsTypes, PageKeepsTypes, HandleKeepsTypes,
   OtherKeepsTypes DEF Next, Hear

-----------------------------------------------------------------------------
(* The server implements Admission *)

\* A handler decides a pending knock, records an admitted ticket, or neither.
LEMMA HandleRefines ==
    ASSUME IInv, NEW r \in reqs, Handle(r)
    PROVE  [Admitted!Next]_<<knock, entered>>
<1>0. TypeOK /\ Shape(r)
  BY DEF IInv, Shaped
<1>1. CASE KnockRefused(r)
  BY <1>1 DEF KnockRefused, lobby, people
<1>2. CASE TakeKnock(r)
  <2>1. \E k \in Tickets : Admitted!Knock(k)
    BY <1>2 DEF TakeKnock, SetKnock, people, Admitted!Knock, Admitted!Move
  <2>2. QED BY <2>1 DEF Admitted!Next
<1>3. CASE WalkIn(r)
  <2>1. PICK k \in Tickets : knock[k] = "none" /\ SetKnock(k, "walkin") /\ Record(k)
    BY <1>3 DEF WalkIn
  <2>2. {k} \intersect Tickets = {k}
    OBVIOUS
  <2>3. Admitted!WalkIn(k)
    BY <2>1, <2>2 DEF SetKnock, Record, Admitted!WalkIn, Admitted!Move
  <2>4. QED BY <2>3 DEF Admitted!Next
<1>4. CASE ReportKnock(r)
  BY <1>4 DEF ReportKnock, lobby, people
<1>5. CASE UseAdmit(r)
  <2>1. r.id \in Tickets /\ Admitted!Enter(r.id)
    BY <1>0, <1>5 DEF UseAdmit, Shape, Record, lobby, Admitted!Enter
  <2>2. QED BY <2>1 DEF Admitted!Next
<1>6. CASE MintToken(r)
  BY <1>6 DEF MintToken, people
<1>7. CASE CancelAtServer(r)
  <2>1. CASE knock[r.id] = "pending"
    <3>1. r.id \in Tickets /\ Admitted!Decide(r.id)
      BY <1>0, <1>7, <2>1
      DEF CancelAtServer, SetKnock, Shape, people, Admitted!Decide, Admitted!Move
    <3>2. QED BY <3>1 DEF Admitted!Next
  <2>2. CASE knock[r.id] # "pending"
    BY <1>7, <2>2 DEF CancelAtServer, people
  <2>3. QED BY <2>1, <2>2
<1>8. CASE JoinRefused(r)
  BY <1>8 DEF JoinRefused, lobby, people
<1>9. CASE TakeJoin(r)
  <2>1. r.id \in Members
    BY <1>0, <1>9 DEF TakeJoin, Shape
  <2>2. QED BY <1>9, <2>1 DEF TakeJoin, Record, lobby
<1>10. CASE CloseRow(r)
  BY <1>10 DEF CloseRow, lobby
<1>11. CASE JoinAsGuest(r)
  <2>1. PICK k \in Tickets : knock[k] = "none" /\ SetKnock(k, "unasked") /\ Record(k)
    BY <1>11 DEF JoinAsGuest
  <2>2. {k} \intersect Tickets = {k}
    OBVIOUS
  <2>3. Admitted!EnterUnasked(k)
    BY <2>1, <2>2 DEF SetKnock, Record, Admitted!EnterUnasked, Admitted!Move
  <2>4. QED BY <2>3 DEF Admitted!Next
<1>12. QED
  BY <1>1, <1>2, <1>3, <1>4, <1>5, <1>6, <1>7, <1>8, <1>9, <1>10, <1>11 DEF Handle

\* Every step of a meeting is a step of Admission or none.
LEMMA StepRefines ==
    ASSUME IInv, [Next]_vars
    PROVE  [Admitted!Next]_<<knock, entered>>
<1>1. ASSUME NEW g \in Guests, Knock(g) \/ Poll(g) \/ CancelKnock(g)
      PROVE  UNCHANGED <<knock, entered>>
  BY <1>1 DEF Knock, Poll, CancelKnock, lobby, people
<1>2. ASSUME NEW m \in Members, Join(m) \/ RefreshPanel(m)
      PROVE  UNCHANGED <<knock, entered>>
  BY <1>2 DEF Join, RefreshPanel, lobby, people
<1>3. ASSUME NEW m \in Members, NEW k \in Tickets, Decide(m, k)
      PROVE  [Admitted!Next]_<<knock, entered>>
  <2>1. Admitted!Decide(k) \/ UNCHANGED <<knock, entered>>
    BY <1>3 DEF Decide, SetKnock, people, Admitted!Decide, Admitted!Move
  <2>2. QED BY <2>1 DEF Admitted!Next
<1>4. ASSUME NEW p \in Pages, Leave(p) \/ ClosePage(p)
      PROVE  UNCHANGED <<knock, entered>>
  BY <1>4 DEF Leave, ClosePage, lobby, people
<1>5. ASSUME NEW r \in reqs, Hear(r) \/ RequestFails(r)
      PROVE  UNCHANGED <<knock, entered>>
  BY <1>5 DEF Hear, HearJoin, HearPoll, RequestFails, lobby, people
<1>6. ASSUME NEW k \in Tickets, Expire(k)
      PROVE  [Admitted!Next]_<<knock, entered>>
  <2>1. Admitted!Decide(k)
    BY <1>6 DEF Expire, SetKnock, people, Admitted!Decide, Admitted!Move
  <2>2. QED BY <2>1 DEF Admitted!Next
<1>7. CASE EndMeeting \/ EditMeeting \/ UNCHANGED vars
  BY <1>7 DEF EndMeeting, EditMeeting, lobby, people, vars
<1>8. CASE Restart
  BY <1>8 DEF Restart, people, Admitted!Forget, Admitted!Next
<1>9. QED
  BY <1>1, <1>2, <1>3, <1>4, <1>5, <1>6, <1>7, <1>8, HandleRefines DEF Next

\* Only an admitted knock, or none, is entered on, and it stays what it is or is
\* forgotten.
LEMMA EnteredStaysAdmitted ==
    ASSUME TypeOK, EnteredWasAdmitted, [Admitted!Next]_<<knock, entered>>
    PROVE  EnteredWasAdmitted'
<1>1. ASSUME NEW k \in Tickets, Admitted!Knock(k) \/ Admitted!Decide(k)
      PROVE  EnteredWasAdmitted'
  BY <1>1 DEF TypeOK, EnteredWasAdmitted, Admitted!Knock, Admitted!Decide, Admitted!Move
<1>2. ASSUME NEW k \in Tickets,
             Admitted!Enter(k) \/ Admitted!WalkIn(k) \/ Admitted!EnterUnasked(k)
      PROVE  EnteredWasAdmitted'
  BY <1>2 DEF TypeOK, EnteredWasAdmitted, Admitted!Enter, Admitted!WalkIn,
              Admitted!EnterUnasked, Admitted!Move
<1>3. CASE Admitted!Forget
  BY <1>3 DEF TypeOK, EnteredWasAdmitted, Admitted!Forget
<1>4. CASE UNCHANGED <<knock, entered>>
  BY <1>4 DEF EnteredWasAdmitted
<1>5. QED BY <1>1, <1>2, <1>3, <1>4 DEF Admitted!Next

\* What was recorded for a knock never becomes what was recorded without one.
LEMMA InvitedStays ==
    ASSUME IInv, [Next]_vars
    PROVE  Invited \subseteq Invited'
<1>0. TypeOK /\ EnteredWasAdmitted
  BY DEF IInv
<1>1. ASSUME NEW k \in Tickets, Admitted!Knock(k) \/ Admitted!Decide(k)
      PROVE  Invited \subseteq Invited'
  BY <1>0, <1>1
  DEF TypeOK, EnteredWasAdmitted, Invited, Admitted!Knock, Admitted!Decide, Admitted!Move
<1>2. ASSUME NEW k \in Tickets,
             Admitted!Enter(k) \/ Admitted!WalkIn(k) \/ Admitted!EnterUnasked(k)
      PROVE  Invited \subseteq Invited'
  BY <1>0, <1>2 DEF TypeOK, EnteredWasAdmitted, Invited, Admitted!Enter, Admitted!WalkIn,
                    Admitted!EnterUnasked, Admitted!Move
<1>3. CASE Admitted!Forget
  BY <1>0, <1>3 DEF TypeOK, Invited, Admitted!Forget
<1>4. CASE UNCHANGED <<knock, entered>>
  BY <1>4 DEF Invited
<1>5. QED BY <1>1, <1>2, <1>3, <1>4, StepRefines DEF Admitted!Next

-----------------------------------------------------------------------------
(* What requests say is preserved *)

ReqsGood == Shaped /\ AllEntitled /\ AllAwaited /\ OneOfAKind

\* Answering a request says nothing its page should not hear.
LEMMA AnswerIsGood ==
    ASSUME ReqsGood, NEW r \in reqs, NEW i, NEW a, Answer(r, i, a),
           reqs \subseteq RequestType,
           UNCHANGED <<page, ticket>>, Invited \subseteq Invited',
           r.op = "knock" => i \in Tickets \union {None},
           r.op = "knock" /\ a = "pending" => i \in Tickets,
           r.op # "knock" => i = r.id,
           r.op \in {"knock", "poll"} /\ a = "token" => i \in Invited'
    PROVE  ReqsGood'
<1> DEFINE q == [r EXCEPT !.stage = "done", !.id = i, !.answer = a]
<1>0. r \in RequestType /\ reqs' \subseteq (reqs \ {r}) \union {q}
  BY DEF Answer
<1>1. /\ q.op = r.op /\ q.who = r.who /\ q.slot = r.slot /\ q.heard = r.heard
      /\ q.stage = "done" /\ q.id = i /\ q.answer = a
  BY <1>0 DEF RequestType
<1>2. q \in reqs' /\ q \notin reqs \ {r} => r.heard
  BY DEF Answer
<1>3. Shape(r) /\ Awaited(r)
  BY DEF ReqsGood, Shaped, AllAwaited
<1> HIDE DEF q
<1>4. r.heard => Shape(q) /\ Entitled(q)' /\ Awaited(q)'
  BY <1>1, <1>3 DEF Shape, Entitled, Awaited
<1>5. \A x \in reqs : Shape(x) /\ Entitled(x)' /\ Awaited(x)'
  BY DEF ReqsGood, Shaped, AllEntitled, AllAwaited, Entitled, Awaited
<1>6. \A x \in reqs' : Shape(x) /\ Entitled(x)' /\ Awaited(x)'
  BY <1>0, <1>2, <1>4, <1>5
<1>7. OneOfAKind'
  BY <1>0, <1>1 DEF ReqsGood, OneOfAKind
<1>8. QED BY <1>6, <1>7 DEF ReqsGood, Shaped, AllEntitled, AllAwaited

\* A handler that awaits a token has recorded the ticket it is for.
LEMMA SuspendIsGood ==
    ASSUME ReqsGood, NEW r \in reqs, NEW i, Suspend(r, i),
           reqs \subseteq RequestType,
           UNCHANGED <<page, ticket>>, Invited \subseteq Invited',
           r.op \in {"knock", "poll", "join"},
           r.op = "knock" => i \in Tickets,
           r.op = "poll" => i = r.id,
           r.op = "join" => i \in Identities,
           r.op \in {"knock", "poll"} => i \in Invited'
    PROVE  ReqsGood'
<1> DEFINE q == [r EXCEPT !.stage = "await", !.id = i]
<1>0. r \in RequestType /\ reqs' = (reqs \ {r}) \union {q}
  BY DEF Suspend
<1>1. /\ q.op = r.op /\ q.who = r.who /\ q.slot = r.slot /\ q.heard = r.heard
      /\ q.stage = "await" /\ q.id = i /\ q.answer = r.answer
  BY <1>0 DEF RequestType
<1>3. Shape(r) /\ Awaited(r)
  BY DEF ReqsGood, Shaped, AllAwaited
<1> HIDE DEF q
<1>4. Shape(q) /\ Entitled(q)' /\ Awaited(q)'
  BY <1>1, <1>3 DEF Shape, Entitled, Awaited
<1>5. \A x \in reqs : Shape(x) /\ Entitled(x)' /\ Awaited(x)'
  BY DEF ReqsGood, Shaped, AllEntitled, AllAwaited, Entitled, Awaited
<1>6. \A x \in reqs' : Shape(x) /\ Entitled(x)' /\ Awaited(x)'
  BY <1>0, <1>4, <1>5
<1>7. OneOfAKind'
  BY <1>0, <1>1 DEF ReqsGood, OneOfAKind
<1>8. QED BY <1>6, <1>7 DEF ReqsGood, Shaped, AllEntitled, AllAwaited

\* A page that stopped waiting hears nothing of what it still has in flight.
LEMMA UnheardIsGood ==
    ASSUME ReqsGood, reqs \subseteq RequestType, NEW p
    PROVE  /\ \A q \in Unheard(p) :
                 /\ Shape(q) /\ Entitled(q)
                 /\ q.who = p => ~q.heard
                 /\ q.who # p => Awaited(q)
                 /\ \E r \in reqs : q.who = r.who /\ q.op = r.op /\ q.slot = r.slot
           /\ \A q, r \in Unheard(p) :
                 q.who = r.who /\ q.op = r.op /\ q.slot = r.slot => q = r
<1> DEFINE u(r) == IF r.who = p THEN [r EXCEPT !.heard = FALSE] ELSE r
<1>1. \A q \in Unheard(p) : \E r \in reqs : q = u(r) /\ (r.who = p => r.stage # "done")
  BY DEF Unheard
<1>2. \A r \in reqs : /\ u(r).op = r.op /\ u(r).who = r.who /\ u(r).slot = r.slot
                      /\ u(r).stage = r.stage /\ u(r).id = r.id /\ u(r).answer = r.answer
                      /\ r.who = p => ~u(r).heard
                      /\ r.who # p => u(r) = r
  BY DEF RequestType
<1> HIDE DEF u
<1>3. ASSUME NEW r \in reqs, r.who = p => r.stage # "done"
      PROVE  Shape(u(r)) /\ Entitled(u(r)) /\ (r.who # p => Awaited(u(r)))
  <2>1. Shape(r) /\ Entitled(r) /\ Awaited(r)
    BY DEF ReqsGood, Shaped, AllEntitled, AllAwaited
  <2>2. CASE r.who # p
    BY <1>2, <2>1, <2>2
  <2>3. CASE r.who = p
    BY <1>2, <1>3, <2>1, <2>3 DEF Shape, Entitled
  <2>4. QED BY <2>2, <2>3
<1>4. \A q \in Unheard(p) :
         /\ Shape(q) /\ Entitled(q)
         /\ q.who = p => ~q.heard
         /\ q.who # p => Awaited(q)
         /\ \E r \in reqs : q.who = r.who /\ q.op = r.op /\ q.slot = r.slot
  BY <1>1, <1>2, <1>3
<1>5. \A q, r \in Unheard(p) :
         q.who = r.who /\ q.op = r.op /\ q.slot = r.slot => q = r
  BY <1>1, <1>2 DEF ReqsGood, OneOfAKind
<1>6. QED BY <1>4, <1>5

\* Sending adds one request of its kind, which its page waits for.
LEMMA SendIsGood ==
    ASSUME NEW p, NEW op \in Ops, NEW i, NEW S,
           Send(p, op, i, S), ticket' = ticket, Invited \subseteq Invited',
           \A q \in S : /\ Shape(q) /\ Entitled(q) /\ Awaited(q)'
                        /\ \E r \in reqs : q.who = r.who /\ q.op = r.op /\ q.slot = r.slot,
           \A q, r \in S : q.who = r.who /\ q.op = r.op /\ q.slot = r.slot => q = r,
           op \in {"knock", "poll", "cancel"} => p \in Guests,
           op \in {"poll", "cancel"} => i \in Tickets,
           op = "knock" => i = None,
           op = "join" => p \in Members /\ i \in Members,
           op = "leave" => i \in Identities,
           op \in {"knock", "join"} => page'[p] = "joining",
           op = "poll" => page'[p] = "waiting" /\ i = ticket[p]
    PROVE  ReqsGood'
<1>1. PICK n \in 1..(IF op = "poll" THEN MaxPolls ELSE 1) :
         /\ Free(p, op, n)
         /\ reqs' = S \union
             {[op |-> op, who |-> p, id |-> i, slot |-> n,
               heard |-> op \in {"knock", "poll", "join"},
               stage |-> "sent", answer |-> "none"]}
  BY DEF Send
<1> DEFINE q == [op |-> op, who |-> p, id |-> i, slot |-> n,
                 heard |-> op \in {"knock", "poll", "join"},
                 stage |-> "sent", answer |-> "none"]
<1>2. /\ q.op = op /\ q.who = p /\ q.slot = n /\ q.id = i
      /\ q.heard = (op \in {"knock", "poll", "join"})
      /\ q.stage = "sent" /\ q.answer = "none"
  OBVIOUS
<1>3. reqs' = S \union {q}
  BY <1>1
<1>4. op # "poll" => n = 1
  BY <1>1
<1>5. \A r \in reqs : ~(r.who = p /\ r.op = op /\ r.slot = n)
  BY <1>1 DEF Free
<1> HIDE DEF q
<1>6. Shape(q) /\ Entitled(q)' /\ Awaited(q)'
  BY <1>2, <1>4 DEF Shape, Entitled, Awaited, Identities
<1>7. \A x \in reqs' : Shape(x) /\ Entitled(x)' /\ Awaited(x)'
  BY <1>3, <1>6 DEF Entitled
<1>8. \A x \in S : ~(x.who = q.who /\ x.op = q.op /\ x.slot = q.slot)
  BY <1>2, <1>5
<1>9. OneOfAKind'
  BY <1>3, <1>8 DEF OneOfAKind
<1>10. QED BY <1>7, <1>9 DEF ReqsGood, Shaped, AllEntitled, AllAwaited

\* A page in none of the two waiting states hears nothing.
LEMMA OnlyWaitersHear ==
    ASSUME ReqsGood, NEW p, page[p] \notin {"joining", "waiting"}
    PROVE  \A r \in reqs : r.who = p => ~r.heard
BY DEF ReqsGood, Shaped, AllAwaited, Shape, Awaited

\* The same of the requests of one page while another page changes.
LEMMA OthersStayAwaited ==
    ASSUME TypeOK, NEW p, NEW s, Show(p, s), ticket' = ticket,
           NEW q, q.who \in Pages, q.who # p, Awaited(q)
    PROVE  Awaited(q)'
BY DEF TypeOK, Show, Awaited

\* Of a page's requests none is awaited that is not heard.
LEMMA UnheardNeedsNothing ==
    ASSUME NEW q, ~q.heard
    PROVE  Awaited(q)'
BY DEF Awaited

\* What a guest's page shows agrees with the tickets.
PagesGood == WaitingHasTicket /\ GuestInIsEntered /\ InHasIdentity

\* Clicks and polls send requests the page waits for.
LEMMA SendersAreGood ==
    ASSUME IInv,
           \/ \E g \in Guests : Knock(g) \/ Poll(g) \/ CancelKnock(g)
           \/ \E m \in Members : Join(m)
           \/ \E p \in Pages : Leave(p)
    PROVE  ReqsGood' /\ PagesGood'
<1>0. /\ TypeOK /\ ReqsGood /\ WaitingHasTicket /\ GuestInIsEntered /\ InHasIdentity
      /\ reqs \subseteq RequestType
      /\ \A r \in reqs : Shape(r) /\ Entitled(r) /\ Awaited(r) /\ r.who \in Pages
      /\ \A q, r \in reqs : q.who = r.who /\ q.op = r.op /\ q.slot = r.slot => q = r
      /\ Guests \subseteq Pages /\ Members \subseteq Pages
      /\ Guests \intersect Members = {} /\ Members \subseteq Identities
  BY RequestFields
  DEF IInv, TypeOK, ReqsGood, Shaped, AllEntitled, AllAwaited, OneOfAKind, Pages,
      Identities
<1>i. Invited \subseteq Invited'
  BY InvitedStays DEF Next
<1>1. ASSUME NEW p \in Pages, NEW s, Show(p, s), ticket' = ticket,
             page[p] \notin {"joining", "waiting"}
      PROVE  \A q \in reqs : Awaited(q)'
  <2>1. ASSUME NEW q \in reqs
        PROVE  Awaited(q)'
    <3>1. CASE q.who = p
      BY <1>0, <1>1, <3>1, OnlyWaitersHear, UnheardNeedsNothing
    <3>2. CASE q.who # p
      BY <1>0, <1>1, <3>2, OthersStayAwaited
    <3>3. QED BY <3>1, <3>2
  <2>2. QED BY <2>1
<1>2. ASSUME NEW g \in Guests, Knock(g)
      PROVE  ReqsGood' /\ PagesGood'
  <2>1. /\ Show(g, "joining") /\ Send(g, "knock", None, reqs)
        /\ ticket' = ticket /\ Invited \subseteq Invited'
        /\ page[g] \notin {"joining", "waiting"} /\ page'[g] = "joining"
    BY <1>0, <1>i, <1>2 DEF Knock, Show, TypeOK
  <2>2. ReqsGood'
    <3>1. \A q \in reqs : Awaited(q)'
      BY <1>0, <1>1, <2>1
    <3>2. QED BY <1>0, <2>1, <3>1, SendIsGood DEF Ops
  <2>3. PagesGood'
    BY <1>0, <2>1 DEF Show, TypeOK, PagesGood, WaitingHasTicket, GuestInIsEntered, InHasIdentity
  <2>4. QED BY <2>2, <2>3
<1>3. ASSUME NEW g \in Guests, Poll(g)
      PROVE  ReqsGood' /\ PagesGood'
  <2>1. /\ Send(g, "poll", ticket[g], reqs) /\ page' = page
        /\ ticket' = ticket /\ Invited \subseteq Invited'
        /\ page[g] = "waiting" /\ ticket[g] \in Tickets
    BY <1>0, <1>i, <1>3 DEF Poll, pages, WaitingHasTicket
  <2>2. ReqsGood'
    <3>1. \A q \in reqs : Awaited(q)'
      BY <1>0, <2>1 DEF Awaited
    <3>2. /\ \A q \in reqs :
                /\ Shape(q) /\ Entitled(q) /\ Awaited(q)'
                /\ \E r \in reqs : q.who = r.who /\ q.op = r.op /\ q.slot = r.slot
          /\ \A q, r \in reqs :
                q.who = r.who /\ q.op = r.op /\ q.slot = r.slot => q = r
      BY <1>0, <3>1
    <3>3. /\ Send(g, "poll", ticket[g], reqs) /\ ticket[g] \in Tickets
          /\ ticket' = ticket /\ Invited \subseteq Invited' /\ page'[g] = "waiting"
      BY <2>1
    <3>4. "poll" \in Ops
      BY DEF Ops
    <3>5. QED BY <3>2, <3>3, <3>4, SendIsGood, SMTT(40)
  <2>3. PagesGood'
    BY <1>0, <2>1 DEF PagesGood, WaitingHasTicket, GuestInIsEntered, InHasIdentity
  <2>4. QED BY <2>2, <2>3
<1>4. ASSUME NEW g \in Guests, CancelKnock(g)
      PROVE  ReqsGood' /\ PagesGood'
  <2>1. /\ Show(g, "idle") /\ Send(g, "cancel", ticket[g], Unheard(g))
        /\ ticket' = ticket /\ Invited \subseteq Invited' /\ ticket[g] \in Tickets
    BY <1>0, <1>i, <1>4 DEF CancelKnock, WaitingHasTicket
  <2>2. ReqsGood'
    <3>1. \A q \in Unheard(g) : Awaited(q)'
      <4>1. ASSUME NEW q \in Unheard(g)
            PROVE  Awaited(q)'
        <5>1. q.who \in Pages
          BY <1>0, UnheardIsGood
        <5>2. CASE q.who = g
          BY <1>0, <5>2, UnheardIsGood, UnheardNeedsNothing
        <5>3. CASE q.who # g
          <6>1. Awaited(q)
            BY <1>0, <5>3, UnheardIsGood
          <6>2. QED BY <1>0, <2>1, <5>1, <5>3, <6>1, OthersStayAwaited
        <5>4. QED BY <5>2, <5>3
      <4>2. QED BY <4>1
    <3>2. /\ \A q \in Unheard(g) :
                /\ Shape(q) /\ Entitled(q)
                /\ \E r \in reqs : q.who = r.who /\ q.op = r.op /\ q.slot = r.slot
          /\ \A q, r \in Unheard(g) :
                q.who = r.who /\ q.op = r.op /\ q.slot = r.slot => q = r
      BY <1>0, UnheardIsGood
    <3>3. QED BY <1>0, <2>1, <3>1, <3>2, SendIsGood DEF Ops
  <2>3. PagesGood'
    BY <1>0, <2>1 DEF Show, TypeOK, PagesGood, WaitingHasTicket, GuestInIsEntered, InHasIdentity
  <2>4. QED BY <2>2, <2>3
<1>5. ASSUME NEW m \in Members, Join(m)
      PROVE  ReqsGood' /\ PagesGood'
  <2>1. /\ Show(m, "joining") /\ Send(m, "join", m, reqs)
        /\ ticket' = ticket /\ Invited \subseteq Invited'
        /\ page[m] \notin {"joining", "waiting"} /\ page'[m] = "joining"
    BY <1>0, <1>i, <1>5 DEF Join, Show, TypeOK
  <2>2. ReqsGood'
    <3>1. \A q \in reqs : Awaited(q)'
      BY <1>0, <1>1, <2>1
    <3>2. QED BY <1>0, <2>1, <3>1, SendIsGood DEF Ops
  <2>3. PagesGood'
    BY <1>0, <2>1 DEF Show, TypeOK, PagesGood, WaitingHasTicket, GuestInIsEntered, InHasIdentity
  <2>4. QED BY <2>2, <2>3
<1>6. ASSUME NEW p \in Pages, Leave(p)
      PROVE  ReqsGood' /\ PagesGood'
  <2>1. /\ Show(p, "idle")
        /\ Send(p, "leave", ticket[p], reqs)
        /\ ticket' = ticket /\ Invited \subseteq Invited' /\ page[p] = "in"
    BY <1>0, <1>i, <1>6 DEF Leave
  <2>2. ReqsGood'
    <3>1. \A q \in reqs : Awaited(q)'
      BY <1>0, <1>1, <2>1
    <3>2. ticket[p] \in Identities
      BY <1>0, <2>1 DEF InHasIdentity
    <3>3. QED BY <1>0, <2>1, <3>1, <3>2, SendIsGood DEF Ops
  <2>3. PagesGood'
    BY <1>0, <2>1 DEF Show, TypeOK, PagesGood, WaitingHasTicket, GuestInIsEntered, InHasIdentity
  <2>4. QED BY <2>2, <2>3
<1>7. QED BY <1>2, <1>3, <1>4, <1>5, <1>6

\* Handlers answer nothing their pages should not hear.
LEMMA HandlersAreGood ==
    ASSUME IInv, NEW r \in reqs, Handle(r) \/ RequestFails(r)
    PROVE  ReqsGood' /\ PagesGood'
<1>0. /\ TypeOK /\ ReqsGood /\ PagesGood /\ reqs \subseteq RequestType
      /\ Shape(r) /\ Entitled(r) /\ r \in RequestType
      /\ Tickets \subseteq Identities
  BY DEF IInv, TypeOK, ReqsGood, PagesGood, Shaped, AllEntitled, Identities
<1>1. UNCHANGED <<page, ticket>>
  BY DEF Handle, RequestFails, KnockRefused, TakeKnock, WalkIn, ReportKnock,
         UseAdmit, MintToken, CancelAtServer, JoinRefused, TakeJoin, JoinAsGuest,
         CloseRow, pages
<1>2. Invited \subseteq Invited'
  BY InvitedStays DEF Next
<1>3. PagesGood'
  BY <1>0, <1>1, <1>2 DEF PagesGood, WaitingHasTicket, GuestInIsEntered, InHasIdentity
<1>a. ASSUME NEW i, NEW a, Answer(r, i, a),
             r.op = "knock" => i \in Tickets \union {None},
             r.op = "knock" /\ a = "pending" => i \in Tickets,
             r.op # "knock" => i = r.id,
             r.op \in {"knock", "poll"} /\ a = "token" => i \in Invited'
      PROVE  ReqsGood' /\ PagesGood'
  BY <1>0, <1>1, <1>2, <1>3, <1>a, AnswerIsGood
<1>s. ASSUME NEW i, Suspend(r, i), r.op \in {"knock", "poll", "join"},
             r.op = "knock" => i \in Tickets,
             r.op = "poll" => i = r.id,
             r.op = "join" => i \in Identities,
             r.op \in {"knock", "poll"} => i \in Invited'
      PROVE  ReqsGood' /\ PagesGood'
  BY <1>0, <1>1, <1>2, <1>3, <1>s, SuspendIsGood
<1>4. CASE KnockRefused(r)
  BY <1>0, <1>4, <1>a DEF KnockRefused
<1>5. CASE TakeKnock(r)
  <2>1. PICK k \in Tickets : Answer(r, k, "pending") /\ r.op = "knock"
    BY <1>5 DEF TakeKnock
  <2>2. QED BY <1>0, <2>1, <1>a
<1>6. CASE WalkIn(r)
  <2>1. PICK k \in Tickets : /\ Record(k) /\ Suspend(r, k) /\ r.op = "knock"
                             /\ SetKnock(k, "walkin")
    BY <1>6 DEF WalkIn
  <2>2. k \in Invited'
    BY <1>0, <2>1 DEF Record, SetKnock, TypeOK, Invited
  <2>3. QED BY <1>0, <2>1, <2>2, <1>s
<1>7. CASE ReportKnock(r)
  <2>1. /\ r.op = "poll" /\ r.id \in Tickets
        /\ Answer(r, r.id, IF knock[r.id] = "gone" THEN "refused" ELSE knock[r.id])
    BY <1>0, <1>7 DEF ReportKnock, Shape
  <2>2. (IF knock[r.id] = "gone" THEN "refused" ELSE knock[r.id]) # "token"
    BY <1>0, <2>1 DEF TypeOK, KnockStatus
  <2>3. QED BY <1>0, <2>1, <2>2, <1>a
<1>8. CASE UseAdmit(r)
  <2>1. r.op = "poll" /\ r.id \in Tickets /\ Record(r.id) /\ Suspend(r, r.id)
    BY <1>0, <1>8 DEF UseAdmit, Shape
  <2>2. r.id \in Invited'
    BY <1>8, <2>1 DEF UseAdmit, Record, lobby, Invited
  <2>3. QED BY <1>0, <2>1, <2>2, <1>s
<1>9. CASE MintToken(r)
  <2>1. r.stage = "await" /\ Answer(r, r.id, "token")
    BY <1>9 DEF MintToken
  <2>2. r.op \in {"knock", "poll"} => r.id \in Invited'
    BY <1>0, <1>2, <2>1 DEF Entitled
  <2>3. r.op = "knock" => r.id \in Tickets \union {None}
    BY <1>0 DEF Shape
  <2>4. QED BY <1>0, <2>1, <2>2, <2>3, <1>a
<1>10. CASE CancelAtServer(r)
  BY <1>0, <1>10, <1>a DEF CancelAtServer
<1>11. CASE JoinRefused(r)
  BY <1>0, <1>11, <1>a DEF JoinRefused
<1>12. CASE TakeJoin(r)
  <2>1. r.op = "join" /\ Suspend(r, r.id) /\ r.id \in Identities
    BY <1>0, <1>12 DEF TakeJoin, Shape
  <2>2. QED BY <1>0, <2>1, <1>s
<1>13. CASE CloseRow(r)
  BY <1>0, <1>13, <1>a DEF CloseRow
<1>14. CASE RequestFails(r)
  <2>1. Answer(r, r.id, "refused")
    BY <1>14 DEF RequestFails
  <2>2. r.op = "knock" => r.id \in Tickets \union {None}
    BY <1>0 DEF Shape
  <2>3. QED BY <1>0, <2>1, <2>2, <1>a
<1>15. CASE JoinAsGuest(r)
  <2>1. PICK k \in Tickets : Suspend(r, k) /\ r.op = "join"
    BY <1>15 DEF JoinAsGuest
  <2>2. QED BY <1>0, <2>1, <1>s
<1>16. QED
  BY <1>4, <1>5, <1>6, <1>7, <1>8, <1>9, <1>10, <1>11, <1>12, <1>13, <1>14, <1>15
  DEF Handle

\* A page shows what an answer says only to the request it waits for.
LEMMA HearersAreGood ==
    ASSUME IInv, NEW r \in reqs, Hear(r)
    PROVE  ReqsGood' /\ PagesGood'
<1>0. /\ TypeOK /\ ReqsGood /\ WaitingHasTicket /\ GuestInIsEntered /\ InHasIdentity
      /\ reqs \subseteq RequestType
      /\ \A q \in reqs : Shape(q) /\ Entitled(q) /\ Awaited(q) /\ q.who \in Pages
      /\ \A q, x \in reqs : q.who = x.who /\ q.op = x.op /\ q.slot = x.slot => q = x
      /\ Guests \intersect Members = {}
  BY RequestFields
  DEF IInv, TypeOK, ReqsGood, Shaped, AllEntitled, AllAwaited, OneOfAKind
<1>i. Invited \subseteq Invited'
  BY InvitedStays DEF Next
<1>1. CASE HearJoin(r)
  <2> DEFINE s == CASE r.answer = "token" -> "in"
                    [] r.answer = "pending" -> "waiting"
                    [] OTHER -> "idle"
  <2>1. /\ r.stage = "done" /\ r.op \in {"join", "knock"} /\ r.heard
        /\ reqs' = reqs \ {r} /\ Show(r.who, s) /\ Invited \subseteq Invited'
        /\ ticket' = [ticket EXCEPT ![r.who] = r.id]
    BY <1>0, <1>i, <1>1 DEF HearJoin, Arrives, Shape
  <2>2. /\ s = "in" => r.answer = "token"
        /\ s = "waiting" => r.answer = "pending"
    OBVIOUS
  <2> HIDE DEF s
  <2>3. \A q \in reqs' : q.who = r.who => ~q.heard
    <3>1. ASSUME NEW q \in reqs', q.who = r.who, q.heard
          PROVE  FALSE
      <4>1. q \in reqs /\ q # r /\ page[q.who] = "joining"
        BY <1>0, <2>1, <3>1 DEF Awaited
      <4>2. q.op \in {"join", "knock"}
        BY <1>0, <3>1, <4>1 DEF Shape, Awaited
      <4>3. q.op = r.op /\ q.slot = r.slot
        BY <1>0, <2>1, <3>1, <4>1, <4>2 DEF Shape
      <4>4. QED BY <1>0, <3>1, <4>1, <4>3
    <3>2. QED BY <3>1
  <2>4. \A q \in reqs' : Awaited(q)'
    <3>1. ASSUME NEW q \in reqs', q.who # r.who
          PROVE  Awaited(q)'
      <4>1. q \in reqs /\ Awaited(q) /\ Shape(q) /\ q.who \in Pages
        BY <1>0, <2>1
      <4>2. page'[q.who] = page[q.who]
        BY <1>0, <2>1, <3>1, <4>1 DEF Show, TypeOK
      <4>3. q.who \in Guests => ticket'[q.who] = ticket[q.who]
        BY <1>0, <2>1, <3>1 DEF TypeOK
      <4>4. QED BY <4>1, <4>2, <4>3 DEF Awaited, Shape
    <3>2. QED BY <2>3, <3>1, UnheardNeedsNothing
  <2>5. ReqsGood'
    <3>1. Shaped' /\ AllEntitled' /\ OneOfAKind'
      BY <1>0, <2>1 DEF Shaped, AllEntitled, OneOfAKind, Entitled
    <3>2. QED BY <2>4, <3>1 DEF ReqsGood, AllAwaited
  <2>6. ASSUME NEW g \in Guests
        PROVE  /\ page'[g] = "waiting" => ticket'[g] \in Tickets
               /\ page'[g] = "in" => ticket'[g] \in Invited'
    <3>1. CASE g = r.who
      <4>1. r.op = "knock"
        BY <1>0, <2>1, <3>1 DEF Shape
      <4>2. page'[g] = s /\ ticket'[g] = r.id
        BY <1>0, <2>1, <3>1, <4>1 DEF Show, TypeOK
      <4>3. QED BY <1>0, <2>1, <2>2, <4>1, <4>2 DEF Shape, Entitled
    <3>2. CASE g # r.who
      <4>1. page'[g] = page[g] /\ ticket'[g] = ticket[g]
        BY <1>0, <2>1, <3>2 DEF Show, TypeOK, Pages
      <4>2. QED BY <1>0, <2>1, <4>1 DEF WaitingHasTicket, GuestInIsEntered, InHasIdentity
    <3>3. QED BY <3>1, <3>2
  <2>7. ASSUME NEW p \in Pages, page'[p] = "in"
        PROVE  ticket'[p] \in Identities
    <3>1. CASE p = r.who
      <4>1. r.answer = "token" /\ ticket'[p] = r.id
        BY <1>0, <2>1, <2>2, <2>7, <3>1 DEF Show, TypeOK
      <4>2. CASE r.op = "join"
        BY <1>0, <4>1, <4>2 DEF Shape
      <4>3. CASE r.op = "knock"
        BY <1>0, <4>1, <4>3 DEF Entitled, Invited, TypeOK, Identities
      <4>4. QED BY <2>1, <4>2, <4>3
    <3>2. CASE p # r.who
      BY <1>0, <2>1, <2>7, <3>2 DEF Show, TypeOK, InHasIdentity
    <3>3. QED BY <3>1, <3>2
  <2>8. PagesGood'
    BY <2>6, <2>7 DEF PagesGood, WaitingHasTicket, GuestInIsEntered, InHasIdentity
  <2>9. QED BY <2>5, <2>8
<1>2. CASE HearPoll(r)
  <2>1. /\ r.stage = "done" /\ r.op = "poll" /\ r.heard
        /\ Show(r.who, Outcome(r.answer)) /\ Invited \subseteq Invited' /\ ticket' = ticket
        /\ reqs' = (IF Outcome(r.answer) = "waiting" THEN reqs
                                                   ELSE Unheard(r.who)) \ {r}
        /\ page[r.who] = "waiting" /\ r.id = ticket[r.who] /\ r.who \in Guests
        /\ r.who \in Pages
    BY <1>0, <1>i, <1>2 DEF HearPoll, Shape, Awaited
  <2>2. ReqsGood'
    <3>1. CASE Outcome(r.answer) = "waiting"
      <4>1. page' = page /\ reqs' = reqs \ {r}
        BY <1>0, <2>1, <3>1 DEF Show, TypeOK
      <4>2. QED BY <1>0, <2>1, <4>1
            DEF ReqsGood, Shaped, AllEntitled, AllAwaited, OneOfAKind, Entitled, Awaited
    <3>2. CASE Outcome(r.answer) # "waiting"
      <4>1. reqs' = Unheard(r.who) \ {r}
        BY <2>1, <3>2
      <4>2. \A q \in reqs' : Awaited(q)'
        <5>1. ASSUME NEW q \in reqs'
              PROVE  Awaited(q)'
          <6>1. q.who \in Pages
            BY <1>0, <4>1, UnheardIsGood
          <6>2. CASE q.who = r.who
            BY <1>0, <4>1, <6>2, UnheardIsGood, UnheardNeedsNothing
          <6>3. CASE q.who # r.who
            <7>1. Awaited(q)
              BY <1>0, <4>1, <6>3, UnheardIsGood
            <7>2. QED BY <1>0, <2>1, <6>1, <6>3, <7>1, OthersStayAwaited
          <6>4. QED BY <6>2, <6>3
        <5>2. QED BY <5>1
      <4>3. /\ \A q \in reqs' : Shape(q) /\ Entitled(q)
            /\ \A q, x \in reqs' :
                  q.who = x.who /\ q.op = x.op /\ q.slot = x.slot => q = x
        BY <1>0, <4>1, UnheardIsGood
      <4>4. QED BY <2>1, <4>2, <4>3
            DEF ReqsGood, Shaped, AllEntitled, AllAwaited, OneOfAKind, Entitled
    <3>3. QED BY <3>1, <3>2
  <2>3. ASSUME NEW g \in Guests
        PROVE  /\ page'[g] = "waiting" => ticket'[g] \in Tickets
               /\ page'[g] = "in" => ticket'[g] \in Invited'
    <3>1. CASE g = r.who
      <4>1. page'[g] = Outcome(r.answer) /\ ticket'[g] = r.id
        BY <1>0, <2>1, <3>1 DEF Show, TypeOK
      <4>2. Outcome(r.answer) = "in" => r.answer = "token"
        BY DEF Outcome
      <4>3. QED BY <1>0, <2>1, <4>1, <4>2 DEF Shape, Entitled
    <3>2. CASE g # r.who
      <4>1. page'[g] = page[g] /\ ticket'[g] = ticket[g]
        BY <1>0, <2>1, <3>2 DEF Show, TypeOK, Pages
      <4>2. QED BY <1>0, <2>1, <4>1 DEF WaitingHasTicket, GuestInIsEntered, InHasIdentity
    <3>3. QED BY <3>1, <3>2
  <2>4. ASSUME NEW p \in Pages, page'[p] = "in"
        PROVE  ticket'[p] \in Identities
    BY <1>0, <2>1, <2>3, <2>4 DEF Show, TypeOK, InHasIdentity, WaitingHasTicket, Identities
  <2>5. PagesGood'
    BY <2>3, <2>4 DEF PagesGood, WaitingHasTicket, GuestInIsEntered, InHasIdentity
  <2>6. QED BY <2>2, <2>5
<1>3. QED BY <1>1, <1>2 DEF Hear

\* A page that is closed hears nothing; a restart answers everything at once.
LEMMA FaultsAreGood ==
    ASSUME IInv, (\E p \in Pages : ClosePage(p)) \/ Restart
    PROVE  ReqsGood' /\ PagesGood'
<1>0. /\ TypeOK /\ ReqsGood /\ WaitingHasTicket /\ GuestInIsEntered /\ InHasIdentity
      /\ reqs \subseteq RequestType
      /\ \A q \in reqs : Shape(q) /\ Entitled(q) /\ Awaited(q) /\ q.who \in Pages
      /\ \A q, x \in reqs : q.who = x.who /\ q.op = x.op /\ q.slot = x.slot => q = x
  BY RequestFields
  DEF IInv, TypeOK, ReqsGood, Shaped, AllEntitled, AllAwaited, OneOfAKind
<1>i. Invited \subseteq Invited'
  BY InvitedStays DEF Next
<1>1. ASSUME NEW p \in Pages, ClosePage(p)
      PROVE  ReqsGood' /\ PagesGood'
  <2>1. /\ Show(p, "idle") /\ reqs' = Unheard(p)
        /\ ticket' = ticket /\ Invited \subseteq Invited'
    BY <1>i, <1>1 DEF ClosePage
  <2>2. \A q \in reqs' : Awaited(q)'
    <3>1. ASSUME NEW q \in reqs'
          PROVE  Awaited(q)'
      <4>1. q.who \in Pages
        BY <1>0, <2>1, UnheardIsGood
      <4>2. CASE q.who = p
        BY <1>0, <2>1, <4>2, UnheardIsGood, UnheardNeedsNothing
      <4>3. CASE q.who # p
        <5>1. Awaited(q)
          BY <1>0, <2>1, <4>3, UnheardIsGood
        <5>2. QED BY <1>0, <2>1, <4>1, <4>3, <5>1, OthersStayAwaited
      <4>4. QED BY <4>2, <4>3
    <3>2. QED BY <3>1
  <2>3. /\ \A q \in reqs' : Shape(q) /\ Entitled(q)
        /\ \A q, x \in reqs' :
              q.who = x.who /\ q.op = x.op /\ q.slot = x.slot => q = x
    BY <1>0, <2>1, UnheardIsGood
  <2>4. ReqsGood'
    BY <2>1, <2>2, <2>3
    DEF ReqsGood, Shaped, AllEntitled, AllAwaited, OneOfAKind, Entitled
  <2>5. PagesGood'
    BY <1>0, <2>1 DEF Show, TypeOK, PagesGood, WaitingHasTicket, GuestInIsEntered, InHasIdentity
  <2>6. QED BY <2>4, <2>5
<1>2. CASE Restart
  <2> DEFINE a(r) == IF r.stage = "done" THEN r
                     ELSE [r EXCEPT !.stage = "done", !.answer = "refused"]
  <2>1. page' = page /\ ticket' = ticket /\ Invited \subseteq Invited'
    BY <1>i, <1>2 DEF Restart, pages
  <2>2. reqs' = {a(r) : r \in {q \in reqs : q.heard}}
    BY <1>2, Zenon DEF Restart
  <2>3. \A r \in reqs : /\ a(r).op = r.op /\ a(r).who = r.who /\ a(r).slot = r.slot
                        /\ a(r).heard = r.heard /\ a(r).id = r.id /\ a(r).stage = "done"
                        /\ a(r).answer = "refused" \/ a(r) = r
    BY <1>0 DEF RequestType
  <2> HIDE DEF a
  <2>4. ASSUME NEW r \in reqs, r.heard
        PROVE  Shape(a(r)) /\ Entitled(a(r)) /\ Awaited(a(r))
    <3>1. Shape(r) /\ Entitled(r) /\ Awaited(r)
      BY <1>0
    <3>2. CASE a(r) = r
      BY <3>1, <3>2
    <3>3. CASE a(r).answer = "refused"
      BY <2>3, <2>4, <3>1, <3>3 DEF Shape, Entitled, Awaited
    <3>4. QED BY <2>3, <3>2, <3>3
  <2>5. \A q \in reqs' : Shape(q) /\ Entitled(q) /\ Awaited(q)
    BY <2>2, <2>4
  <2>6. \A q, x \in reqs' :
           q.who = x.who /\ q.op = x.op /\ q.slot = x.slot => q = x
    BY <1>0, <2>2, <2>3
  <2>7. ReqsGood'
    BY <2>1, <2>5, <2>6
    DEF ReqsGood, Shaped, AllEntitled, AllAwaited, OneOfAKind, Entitled, Awaited
  <2>8. PagesGood'
    BY <1>0, <2>1 DEF PagesGood, WaitingHasTicket, GuestInIsEntered, InHasIdentity
  <2>9. QED BY <2>7, <2>8
<1>3. QED BY <1>1, <1>2

\* Steps that touch no request, page or ticket.
LEMMA OthersAreGood ==
    ASSUME IInv,
           \/ \E m \in Members : RefreshPanel(m) \/ \E k \in Tickets : Decide(m, k)
           \/ \E k \in Tickets : Expire(k)
           \/ EndMeeting \/ EditMeeting \/ UNCHANGED vars
    PROVE  ReqsGood' /\ PagesGood'
<1>1. UNCHANGED <<page, ticket, reqs>>
  BY DEF RefreshPanel, Decide, Expire, EndMeeting, EditMeeting, vars, pages
<1>i. Invited \subseteq Invited'
  BY InvitedStays DEF Next
<1>2. QED BY <1>1, <1>i
      DEF IInv, ReqsGood, PagesGood, Shaped, AllEntitled, AllAwaited, OneOfAKind,
          Entitled, Awaited, WaitingHasTicket, GuestInIsEntered, InHasIdentity

-----------------------------------------------------------------------------
(* The theorems *)

\* A new meeting has no requests and nobody on it.
LEMMA InitIsGood ==
    ASSUME Init
    PROVE  IInv
<1>1. TypeOK
  <2>1. settings \in [waitingRoom : BOOLEAN, allowGuests : BOOLEAN]
    BY DEF Init
  <2>2. /\ knock \in [Tickets -> KnockStatus] /\ rows \in [Identities -> Nat]
        /\ page \in [Pages -> PageStates] /\ ticket \in [Pages -> Identities \union {None}]
        /\ panel \in [Members -> SUBSET Tickets]
    BY DEF Init, KnockStatus, PageStates, Identities, Pages
  <2>3. /\ status \in {"scheduled", "active", "ended"} /\ issued \subseteq Tickets
        /\ entered \subseteq Tickets
        /\ reqs \subseteq RequestType /\ faults \in Nat
    BY DEF Init
  <2>4. QED BY <2>1, <2>2, <2>3 DEF TypeOK
<1>2. Shaped /\ AllEntitled /\ AllAwaited /\ OneOfAKind
  BY DEF Init, Shaped, AllEntitled, AllAwaited, OneOfAKind
<1>3. WaitingHasTicket /\ GuestInIsEntered /\ InHasIdentity /\ EnteredWasAdmitted
  BY DEF Init, WaitingHasTicket, GuestInIsEntered, InHasIdentity, EnteredWasAdmitted, Pages
<1>4. QED BY <1>1, <1>2, <1>3 DEF IInv

\* Every step keeps the invariant.
LEMMA StepKeepsInvariant ==
    ASSUME IInv, [Next]_vars
    PROVE  IInv'
<1>1. TypeOK'
  BY TypesArePreserved
<1>2. EnteredWasAdmitted'
  BY StepRefines, EnteredStaysAdmitted DEF IInv
<1>3. ReqsGood' /\ PagesGood'
  BY SendersAreGood, HandlersAreGood, HearersAreGood, FaultsAreGood, OthersAreGood
  DEF Next
<1>4. QED BY <1>1, <1>2, <1>3 DEF IInv, ReqsGood, PagesGood

\* In every reachable state requests, pages and tickets agree: a page shows the
\* room on a token, a token belongs to a recorded identity, and a ticket recorded
\* for a knock was admitted.
THEOREM InductiveInvariant == Spec => []IInv
<1>1. Init => IInv
  BY InitIsGood
<1>2. IInv /\ [Next]_vars => IInv'
  BY StepKeepsInvariant
<1>3. QED BY <1>1, <1>2, PTL DEF Spec

\* Every variable of the meeting, its lobby, its pages and their requests keeps
\* its type, for every number of guests, members, knocks, polls and faults.
THEOREM TypeCorrect == Spec => []TypeOK
<1>1. IInv => TypeOK
  BY DEF IInv
<1>2. QED BY <1>1, InductiveInvariant, PTL

\* A guest's page shows the room only for a knock that was let in, however many
\* polls it has in flight and in whatever order their answers arrive.
THEOREM GuestInIsAdmitted == Spec => []GuestInOnlyIfAdmitted
<1>1. IInv => GuestInOnlyIfAdmitted
  BY DEF IInv, GuestInIsEntered, EnteredWasAdmitted, GuestInOnlyIfAdmitted, Invited
<1>2. QED BY <1>1, InductiveInvariant, PTL

\* The server's knocks and participants behave as Admission says: one decision
\* per knock, entry only on an admitted one, and a restart only forgets.
THEOREM AdmissionIsImplemented == Spec => ImplementsAdmission
<1>1. Init => Admitted!Init
  BY DEF Init, Admitted!Init
<1>2. IInv /\ [Next]_vars => [Admitted!Next]_<<knock, entered>>
  BY StepRefines
<1>3. QED
  BY <1>1, <1>2, InductiveInvariant, PTL DEF Spec, ImplementsAdmission, Admitted!Spec

-----------------------------------------------------------------------------
(* Whoever is in the room is listed: rows are counted against leaves under way *)

\* A request that brings its page into the room.
Token(r) == r.heard /\ (r.stage = "await" \/ r.answer = "token")

\* Identity i is page p's: the page is known by it, it is the member's own, or a request
\* of the page is about it.
Claim(p, i) ==
    \/ ticket[p] = i
    \/ p = i /\ p \in Members
    \/ \E r \in reqs : r.who = p /\ r.id = i

\* Somebody is in the room as i, or about to be.
InRoom(i) ==
    \/ \E p \in Pages : page[p] = "in" /\ ticket[p] = i
    \/ \E r \in reqs : Token(r) /\ r.id = i

Leaving(i) == \E r \in reqs : r.op = "leave" /\ r.id = i

OneOwner == \A i \in Identities : \A p, q \in Pages : Claim(p, i) /\ Claim(q, i) => p = q

UnusedIsFree == \A k \in Tickets : knock[k] = "none" => \A p \in Pages : ~Claim(p, k)

\* An open row for who is in the room, and one for the leave that is on its way.
RowsSuffice ==
    \A i \in Identities :
       /\ InRoom(i) \/ Leaving(i) => rows[i] >= 1
       /\ InRoom(i) /\ Leaving(i) => rows[i] >= 2

\* The inductive invariant of the participants' list, with IInv.
ListInv == OneOwner /\ UnusedIsFree /\ RowsSuffice

\* What request q says was true already: whose its identity is, that it leaves, that it
\* brings somebody into the room.
Grounded(q) ==
    q.id # None =>
       /\ Claim(q.who, q.id)
       /\ q.op = "leave" => Leaving(q.id)
       /\ Token(q) => InRoom(q.id)

\* A ticket that is used stays used.
LEMMA UsedStaysUsed ==
    ASSUME IInv, [Next]_vars
    PROVE  \A k \in Tickets : knock'[k] = "none" => knock[k] = "none"
<1>1. ASSUME NEW k \in Tickets,
             \/ Admitted!Knock(k) \/ Admitted!Decide(k) \/ Admitted!Enter(k)
             \/ Admitted!WalkIn(k) \/ Admitted!EnterUnasked(k)
      PROVE  \A j \in Tickets : knock'[j] = "none" => knock[j] = "none"
  BY <1>1 DEF IInv, TypeOK, Admitted!Knock, Admitted!Decide, Admitted!Enter,
              Admitted!WalkIn, Admitted!EnterUnasked, Admitted!Move
<1>2. CASE Admitted!Forget
  BY <1>2 DEF Admitted!Forget
<1>3. CASE UNCHANGED <<knock, entered>>
  BY <1>3
<1>4. QED BY <1>1, <1>2, <1>3, StepRefines DEF Admitted!Next

\* A step after which requests and pages say only what was true already gives no
\* identity to anybody and brings nobody nearer to the room.
LEMMA NothingNew ==
    ASSUME OneOwner, UnusedIsFree,
           \A k \in Tickets : knock'[k] = "none" => knock[k] = "none",
           \A q \in reqs' : Grounded(q),
           \A p \in Pages : ticket'[p] \in Identities => Claim(p, ticket'[p]),
           \A p \in Pages : page'[p] = "in" => InRoom(ticket'[p])
    PROVE  /\ OneOwner' /\ UnusedIsFree'
           /\ \A i \in Identities : (InRoom(i)' => InRoom(i)) /\ (Leaving(i)' => Leaving(i))
<1>0. \A i \in Identities : i # None
  BY DEF Identities
<1>1. ASSUME NEW p \in Pages, NEW i \in Identities, Claim(p, i)'
      PROVE  Claim(p, i)
  <2>1. CASE ticket'[p] = i
    BY <2>1
  <2>2. CASE \E q \in reqs' : q.who = p /\ q.id = i
    BY <1>0, <2>2 DEF Grounded
  <2>3. QED BY <1>1, <2>1, <2>2 DEF Claim
<1>2. OneOwner'
  BY <1>1 DEF OneOwner
<1>3. UnusedIsFree'
  <2>1. Tickets \subseteq Identities
    BY DEF Identities
  <2>2. QED BY <1>1, <2>1 DEF UnusedIsFree
<1>4. ASSUME NEW i \in Identities, InRoom(i)'
      PROVE  InRoom(i)
  <2>1. CASE \E p \in Pages : page'[p] = "in" /\ ticket'[p] = i
    BY <2>1
  <2>2. CASE \E q \in reqs' : Token(q) /\ q.id = i
    BY <1>0, <2>2 DEF Grounded
  <2>3. QED BY <1>4, <2>1, <2>2 DEF InRoom
<1>5. ASSUME NEW i \in Identities, Leaving(i)'
      PROVE  Leaving(i)
  BY <1>0, <1>5 DEF Leaving, Grounded
<1>6. QED BY <1>2, <1>3, <1>4, <1>5

\* Such a step keeps the list if it leaves the rows alone.
LEMMA NothingNewIsListed ==
    ASSUME ListInv, rows' = rows, OneOwner', UnusedIsFree',
           \A i \in Identities : (InRoom(i)' => InRoom(i)) /\ (Leaving(i)' => Leaving(i))
    PROVE  ListInv'
BY DEF ListInv, RowsSuffice

\* A request of this state is grounded, and so is one that differs from it in nothing
\* that counts.
LEMMA SameIsGrounded ==
    ASSUME NEW x \in reqs, NEW q, q.who = x.who, q.op = x.op,
           q.id = x.id \/ q.id = None, Token(q) => Token(x)
    PROVE  Grounded(q)
BY DEF Grounded, Claim, Leaving, InRoom

\* The requests after an answer.
LEMMA AnswerIsGrounded ==
    ASSUME IInv, NEW r \in reqs, NEW i, NEW a, Answer(r, i, a), i = r.id \/ i = None,
           a = "token" => r.stage = "await"
    PROVE  \A q \in reqs' : Grounded(q)
<1> DEFINE d == [r EXCEPT !.stage = "done", !.id = i, !.answer = a]
<1>1. r \in RequestType
  BY DEF IInv, TypeOK
<1>2. /\ d.who = r.who /\ d.op = r.op /\ d.id = i /\ d.stage = "done" /\ d.answer = a
      /\ d.heard = r.heard
  BY <1>1 DEF RequestType
<1>3. reqs' \subseteq (reqs \ {r}) \union {d}
  BY DEF Answer
<1> HIDE DEF d
<1>4. Grounded(d)
  BY <1>2, SameIsGrounded DEF Token
<1>5. \A x \in reqs : Grounded(x)
  BY SameIsGrounded
<1>6. QED BY <1>3, <1>4, <1>5

\* The requests a page no longer hears.
LEMMA UnheardIsGrounded ==
    ASSUME IInv, NEW p
    PROVE  \A q \in Unheard(p) : Grounded(q)
<1> DEFINE u(r) == IF r.who = p THEN [r EXCEPT !.heard = FALSE] ELSE r
<1>1. \A q \in Unheard(p) : \E r \in reqs : q = u(r)
  BY DEF Unheard
<1>2. ASSUME NEW r \in reqs
      PROVE  /\ u(r).who = r.who /\ u(r).op = r.op /\ u(r).id = r.id
             /\ Token(u(r)) => Token(r)
  <2>1. r \in RequestType
    BY DEF IInv, TypeOK
  <2>2. QED BY <2>1 DEF Token, RequestType
<1> HIDE DEF u
<1>3. QED BY <1>1, <1>2, SameIsGrounded

\* The requests after a page sent one about its own identity, or about none; a leave is
\* not among them.
LEMMA SendIsGrounded ==
    ASSUME NEW p \in Pages, NEW op, NEW i, NEW S, Send(p, op, i, S),
           op # "leave", i \in {None, ticket[p]} \/ (i = p /\ p \in Members),
           \A q \in S : Grounded(q)
    PROVE  \A q \in reqs' : Grounded(q)
<1>1. PICK n : reqs' = S \union
             {[op |-> op, who |-> p, id |-> i, slot |-> n,
               heard |-> op \in {"knock", "poll", "join"},
               stage |-> "sent", answer |-> "none"]}
  BY DEF Send
<1> DEFINE d == [op |-> op, who |-> p, id |-> i, slot |-> n,
                 heard |-> op \in {"knock", "poll", "join"},
                 stage |-> "sent", answer |-> "none"]
<1>2. d.op = op /\ d.who = p /\ d.id = i /\ d.stage = "sent" /\ d.answer = "none"
  OBVIOUS
<1>3. reqs' = S \union {d}
  BY <1>1
<1> HIDE DEF d
<1>4. Grounded(d)
  BY <1>2 DEF Grounded, Claim, Token
<1>5. QED BY <1>3, <1>4

\* A ticket that is taken from the unused ones has one owner, the page that knocked.
LEMMA TakenIsOwned ==
    ASSUME IInv, OneOwner, UnusedIsFree, NEW r \in reqs, NEW k \in Tickets,
           knock[k] = "none", knock'[k] # "none",
           \A j \in Tickets : knock'[j] = "none" => knock[j] = "none",
           UNCHANGED <<page, ticket>>,
           \A q \in reqs' : q \in reqs \/ (q.who = r.who /\ q.id = k)
    PROVE  OneOwner' /\ UnusedIsFree'
<1>1. ASSUME NEW p \in Pages, NEW i \in Identities, Claim(p, i)'
      PROVE  Claim(p, i) \/ (p = r.who /\ i = k)
  BY <1>1 DEF Claim
<1>2. \A p \in Pages : ~Claim(p, k)
  BY DEF UnusedIsFree
<1>3. k \in Identities /\ Tickets \subseteq Identities
  BY DEF Identities
<1>4. OneOwner'
  <2>1. ASSUME NEW i \in Identities, NEW p \in Pages, NEW q \in Pages,
               Claim(p, i)', Claim(q, i)'
        PROVE  p = q
    BY <1>1, <1>2, <2>1 DEF OneOwner
  <2>2. QED BY <2>1 DEF OneOwner
<1>5. UnusedIsFree'
  <2>1. ASSUME NEW j \in Tickets, knock'[j] = "none", NEW p \in Pages, Claim(p, j)'
        PROVE  FALSE
    BY <1>1, <1>3, <2>1 DEF UnusedIsFree
  <2>2. QED BY <2>1 DEF UnusedIsFree
<1>6. QED BY <1>4, <1>5

\* A row more, and nobody else nearer to the room.
LEMMA RecordIsListed ==
    ASSUME IInv, RowsSuffice, NEW r \in reqs, NEW i \in Identities,
           rows' = [rows EXCEPT ![i] = @ + 1], UNCHANGED <<page, ticket>>,
           Suspend(r, i), r.op # "leave"
    PROVE  RowsSuffice'
<1> DEFINE d == [r EXCEPT !.stage = "await", !.id = i]
<1>1. r \in RequestType /\ rows \in [Identities -> Nat]
  BY DEF IInv, TypeOK
<1>2. d.op = r.op /\ d.id = i
  BY <1>1 DEF RequestType
<1>3. reqs' = (reqs \ {r}) \union {d}
  BY DEF Suspend
<1> HIDE DEF d
<1>4. ASSUME NEW j \in Identities
      PROVE  /\ Leaving(j)' => Leaving(j)
             /\ InRoom(j)' => InRoom(j) \/ j = i
  BY <1>2, <1>3 DEF Leaving, InRoom, Token
<1>5. rows[i] \in Nat /\ rows'[i] = rows[i] + 1 /\ \A j \in Identities : j # i => rows'[j] = rows[j]
  BY <1>1
<1>6. ASSUME NEW j \in Identities
      PROVE  /\ InRoom(j)' \/ Leaving(j)' => rows'[j] >= 1
             /\ InRoom(j)' /\ Leaving(j)' => rows'[j] >= 2
  <2>1. CASE j = i
    BY <1>4, <1>5, <2>1 DEF RowsSuffice
  <2>2. CASE j # i
    BY <1>4, <1>5, <2>2 DEF RowsSuffice
  <2>3. QED BY <2>1, <2>2
<1>7. QED BY <1>6 DEF RowsSuffice

\* Clicks other than leaving, polls, and the closing of a page.
LEMMA ClicksAreListed ==
    ASSUME IInv, ListInv, NEW p \in Pages,
           \/ p \in Guests /\ (Knock(p) \/ Poll(p) \/ CancelKnock(p))
           \/ p \in Members /\ Join(p)
           \/ ClosePage(p),
           \A k \in Tickets : knock'[k] = "none" => knock[k] = "none"
    PROVE  ListInv'
<1>0. page \in [Pages -> PageStates] /\ OneOwner /\ UnusedIsFree /\ ticket' = ticket /\ rows' = rows
  BY DEF IInv, TypeOK, ListInv, Knock, Poll, CancelKnock, Join, ClosePage, pages, people
<1>1. \A x \in Pages : page'[x] = "in" => page[x] = "in"
  BY <1>0 DEF Knock, Poll, CancelKnock, Join, ClosePage, pages, Show
<1>2. \A x \in Pages : ticket'[x] = ticket[x]
  BY <1>0
<1>3. \A q \in reqs' : Grounded(q)
  <2>1. \A q \in reqs : Grounded(q)
    BY SameIsGrounded
  <2>2. \A q \in Unheard(p) : Grounded(q)
    BY UnheardIsGrounded
  <2>3. CASE p \in Guests /\ Knock(p)
    BY <2>1, <2>3, SendIsGrounded DEF Knock
  <2>4. CASE p \in Guests /\ Poll(p)
    BY <2>1, <2>4, SendIsGrounded DEF Poll
  <2>5. CASE p \in Guests /\ CancelKnock(p)
    BY <2>2, <2>5, SendIsGrounded DEF CancelKnock
  <2>6. CASE p \in Members /\ Join(p)
    <3>1. Send(p, "join", p, reqs)
      BY <2>6 DEF Join
    <3>2. QED BY <2>1, <2>6, <3>1, SendIsGrounded
  <2>7. CASE ClosePage(p)
    BY <2>2, <2>7 DEF ClosePage
  <2>8. QED BY <2>3, <2>4, <2>5, <2>6, <2>7
<1>4. /\ \A x \in Pages : ticket'[x] \in Identities => Claim(x, ticket'[x])
      /\ \A x \in Pages : page'[x] = "in" => InRoom(ticket'[x])
  BY <1>1, <1>2 DEF Claim, InRoom
<1>5. QED BY <1>0, <1>3, <1>4, NothingNew, NothingNewIsListed

\* Leaving: the row that the page needed is the one the leave will close.
LEMMA LeaveIsListed ==
    ASSUME IInv, ListInv, NEW p \in Pages, Leave(p)
    PROVE  ListInv'
<1> DEFINE i == ticket[p]
<1>0. /\ page \in [Pages -> PageStates] /\ ReqsGood /\ OneOwner /\ UnusedIsFree
      /\ page[p] = "in" /\ ticket' = ticket /\ rows' = rows /\ knock' = knock
      /\ Send(p, "leave", i, reqs) /\ Show(p, "idle") /\ i \in Identities
  <2>1. i \in Identities
    BY DEF IInv, InHasIdentity, Leave
  <2>2. QED BY <2>1 DEF IInv, TypeOK, ListInv, ReqsGood, Leave, lobby, people
<1>1. PICK n \in 1..1 :
         /\ Free(p, "leave", n)
         /\ reqs' = reqs \union
             {[op |-> "leave", who |-> p, id |-> i, slot |-> n,
               heard |-> "leave" \in {"knock", "poll", "join"},
               stage |-> "sent", answer |-> "none"]}
  BY <1>0 DEF Send
<1> DEFINE d == [op |-> "leave", who |-> p, id |-> i, slot |-> n,
                 heard |-> "leave" \in {"knock", "poll", "join"},
                 stage |-> "sent", answer |-> "none"]
<1>2. d.op = "leave" /\ d.who = p /\ d.id = i /\ ~d.heard
  OBVIOUS
<1>3. reqs' = reqs \union {d}
  BY <1>1
<1>4. i \in Identities
  BY <1>0
<1>5. page'[p] = "idle" /\ \A x \in Pages : page'[x] = "in" => page[x] = "in" /\ x # p
  BY <1>0 DEF Show
<1>6. \A x \in Pages : ticket'[x] = ticket[x]
  BY <1>0
<1>7. \A x \in Pages, j \in Identities : Claim(x, j)' => Claim(x, j)
  <2> HIDE DEF d
  <2>1. Claim(p, i)
    BY DEF Claim
  <2>2. QED BY <1>2, <1>3, <1>6, <2>1 DEF Claim
<1>8. ~Leaving(i)
  <2>1. ASSUME NEW r \in reqs, r.op = "leave", r.id = i
        PROVE  FALSE
    <3>1. r.who \in Pages /\ Shape(r)
      BY RequestFields DEF IInv, TypeOK, Shaped
    <3>2. Claim(r.who, i) /\ Claim(p, i)
      BY <2>1 DEF Claim
    <3>3. r.who = p /\ r.slot = 1
      BY <1>0, <1>4, <2>1, <3>1, <3>2 DEF OneOwner, Shape
    <3>4. n = 1
      OBVIOUS
    <3>5. QED BY <1>1, <2>1, <3>3, <3>4 DEF Free
  <2>2. QED BY <2>1 DEF Leaving
<1>9. InRoom(i) /\ ~InRoom(i)'
  <2>1. InRoom(i)
    BY <1>0 DEF InRoom
  <2>2. ASSUME NEW x \in Pages, page'[x] = "in", ticket'[x] = i
        PROVE  FALSE
    <3>1. Claim(x, i) /\ Claim(p, i) /\ x # p
      BY <1>5, <1>6, <2>2 DEF Claim
    <3>2. QED BY <1>0, <1>4, <3>1 DEF OneOwner
  <2>3. ASSUME NEW q \in reqs', Token(q), q.id = i
        PROVE  FALSE
    <3> HIDE DEF d
    <3>1. q \in reqs /\ q.heard
      BY <1>2, <1>3, <2>3 DEF Token
    <3>2. q.who \in Pages
      BY <3>1, RequestFields DEF IInv, TypeOK
    <3>3. Claim(q.who, i) /\ Claim(p, i)
      BY <2>3, <3>1 DEF Claim
    <3>4. q.who = p
      BY <1>0, <1>4, <3>2, <3>3 DEF OneOwner
    <3>5. page[p] \notin {"joining", "waiting"}
      BY <1>0
    <3>6. QED BY <1>0, <3>1, <3>4, <3>5, OnlyWaitersHear
  <2>4. i' = i
    BY <1>6
  <2>5. ~InRoom(i)'
    BY <2>2, <2>3, <2>4 DEF InRoom
  <2>6. QED BY <2>1, <2>5
<1>10. ASSUME NEW j \in Identities, j # i
       PROVE  (InRoom(j)' => InRoom(j)) /\ (Leaving(j)' => Leaving(j))
  <2> HIDE DEF d
  <2>1. \A q \in reqs' : q.id = j => q \in reqs
    BY <1>2, <1>3, <1>10
  <2>2. QED BY <1>5, <1>6, <2>1 DEF InRoom, Leaving
<1>a. i' = i
  BY <1>6
<1> HIDE DEF i, d
<1>11. RowsSuffice'
  <2>1. ASSUME NEW j \in Identities
        PROVE  /\ InRoom(j)' \/ Leaving(j)' => rows'[j] >= 1
               /\ InRoom(j)' /\ Leaving(j)' => rows'[j] >= 2
    <3>1. CASE j = i
      <4>1. ~InRoom(j)' /\ InRoom(j)
        BY <1>9, <1>a, <3>1
      <4>2. QED BY <1>0, <2>1, <4>1 DEF ListInv, RowsSuffice
    <3>2. CASE j # i
      BY <1>0, <1>10, <2>1, <3>2 DEF ListInv, RowsSuffice
    <3>3. QED BY <3>1, <3>2
  <2>2. QED BY <2>1 DEF RowsSuffice
<1>12. OneOwner' /\ UnusedIsFree'
  <2>1. Tickets \subseteq Identities
    BY DEF Identities
  <2>2. QED BY <1>0, <1>7, <2>1 DEF OneOwner, UnusedIsFree
<1>13. QED BY <1>11, <1>12 DEF ListInv


\* The handlers that answer, and a request that fails.
LEMMA AnswersAreListed ==
    ASSUME IInv, ListInv, NEW r \in reqs,
           KnockRefused(r) \/ ReportKnock(r) \/ MintToken(r) \/ CancelAtServer(r)
              \/ JoinRefused(r) \/ RequestFails(r),
           \A k \in Tickets : knock'[k] = "none" => knock[k] = "none"
    PROVE  ListInv'
<1>0. /\ OneOwner /\ UnusedIsFree /\ rows' = rows /\ page' = page /\ ticket' = ticket
  BY DEF ListInv, KnockRefused, ReportKnock, MintToken, CancelAtServer, JoinRefused,
         RequestFails, people, pages
<1>1. \A q \in reqs' : Grounded(q)
  <2>1. CASE KnockRefused(r)
    BY <2>1, AnswerIsGrounded DEF KnockRefused
  <2>2. CASE ReportKnock(r)
    <3>1. r.id \in Tickets
      BY <2>2 DEF ReportKnock, IInv, Shaped, Shape
    <3>2. (IF knock[r.id] = "gone" THEN "refused" ELSE knock[r.id]) # "token"
      BY <3>1 DEF IInv, TypeOK, KnockStatus
    <3>3. QED BY <2>2, <3>2, AnswerIsGrounded DEF ReportKnock
  <2>3. CASE MintToken(r)
    BY <2>3, AnswerIsGrounded DEF MintToken
  <2>4. CASE CancelAtServer(r)
    BY <2>4, AnswerIsGrounded DEF CancelAtServer
  <2>5. CASE JoinRefused(r)
    BY <2>5, AnswerIsGrounded DEF JoinRefused
  <2>6. CASE RequestFails(r)
    BY <2>6, AnswerIsGrounded DEF RequestFails
  <2>7. QED BY <2>1, <2>2, <2>3, <2>4, <2>5, <2>6
<1>2. \A x \in Pages : ticket'[x] = ticket[x]
  BY <1>0
<1>3. /\ \A x \in Pages : ticket'[x] \in Identities => Claim(x, ticket'[x])
      /\ \A x \in Pages : page'[x] = "in" => InRoom(ticket'[x])
  BY <1>0, <1>2 DEF Claim, InRoom
<1>4. QED BY <1>0, <1>1, <1>3, NothingNew, NothingNewIsListed

\* The handlers that record a participant or give a ticket away.
LEMMA RecordersAreListed ==
    ASSUME IInv, ListInv, NEW r \in reqs,
           TakeKnock(r) \/ WalkIn(r) \/ UseAdmit(r) \/ TakeJoin(r) \/ JoinAsGuest(r),
           \A k \in Tickets : knock'[k] = "none" => knock[k] = "none"
    PROVE  ListInv'
<1>0. /\ OneOwner /\ UnusedIsFree /\ RowsSuffice /\ page' = page /\ ticket' = ticket
      /\ r \in RequestType /\ Shape(r) /\ knock \in [Tickets -> KnockStatus]
      /\ Tickets \subseteq Identities /\ Members \subseteq Identities
  BY DEF ListInv, IInv, TypeOK, Shaped, TakeKnock, WalkIn, UseAdmit, TakeJoin,
         JoinAsGuest, pages, Identities
<1>1. CASE TakeKnock(r)
  <2>1. PICK k \in Tickets : knock[k] = "none" /\ SetKnock(k, "pending") /\ Answer(r, k, "pending")
    BY <1>1 DEF TakeKnock
  <2> DEFINE d == [r EXCEPT !.stage = "done", !.id = k, !.answer = "pending"]
  <2>2. d.who = r.who /\ d.id = k /\ d.op = "knock" /\ d.stage = "done" /\ d.answer = "pending"
    BY <1>0, <1>1 DEF RequestType, TakeKnock
  <2>3. reqs' \subseteq (reqs \ {r}) \union {d}
    BY <2>1 DEF Answer
  <2> HIDE DEF d
  <2>4. knock'[k] # "none"
    BY <1>0, <2>1 DEF SetKnock
  <2>5. \A q \in reqs' : q \in reqs \/ (q.who = r.who /\ q.id = k)
    BY <2>2, <2>3
  <2>6. OneOwner' /\ UnusedIsFree'
    BY <1>0, <2>1, <2>4, <2>5, TakenIsOwned
  <2>7. \A i \in Identities : (InRoom(i)' => InRoom(i)) /\ (Leaving(i)' => Leaving(i))
    BY <1>0, <2>2, <2>3 DEF InRoom, Leaving, Token
  <2>8. rows' = rows
    BY <1>1 DEF TakeKnock, people
  <2>9. QED BY <2>6, <2>7, <2>8, NothingNewIsListed
<1>2. CASE WalkIn(r) \/ JoinAsGuest(r)
  <2>1. PICK k \in Tickets : /\ knock[k] = "none" /\ Record(k) /\ Suspend(r, k)
                             /\ SetKnock(k, "walkin") \/ SetKnock(k, "unasked")
    BY <1>2 DEF WalkIn, JoinAsGuest
  <2> DEFINE d == [r EXCEPT !.stage = "await", !.id = k]
  <2>2. d.who = r.who /\ d.id = k
    BY <1>0 DEF RequestType
  <2>3. reqs' = (reqs \ {r}) \union {d}
    BY <2>1 DEF Suspend
  <2> HIDE DEF d
  <2>4. knock'[k] # "none" /\ k \in Identities
    BY <1>0, <2>1 DEF SetKnock
  <2>5. \A q \in reqs' : q \in reqs \/ (q.who = r.who /\ q.id = k)
    BY <2>2, <2>3
  <2>6. OneOwner' /\ UnusedIsFree'
    BY <1>0, <2>1, <2>4, <2>5, TakenIsOwned
  <2>7. rows' = [rows EXCEPT ![k] = @ + 1] /\ r.op # "leave"
    BY <1>2, <2>1 DEF Record, WalkIn, JoinAsGuest
  <2>8. RowsSuffice'
    BY <1>0, <2>1, <2>4, <2>7, RecordIsListed
  <2>9. QED BY <2>6, <2>8 DEF ListInv
<1>3. CASE UseAdmit(r) \/ TakeJoin(r)
  <2>1. r.id \in Identities /\ Record(r.id) /\ Suspend(r, r.id) /\ r.op # "leave"
    BY <1>0, <1>3 DEF UseAdmit, TakeJoin, Shape
  <2>2. rows' = [rows EXCEPT ![r.id] = @ + 1]
    BY <2>1 DEF Record
  <2>3. RowsSuffice'
    BY <1>0, <2>1, <2>2, RecordIsListed
  <2> DEFINE d == [r EXCEPT !.stage = "await", !.id = r.id]
  <2>4. d.who = r.who /\ d.id = r.id
    BY <1>0 DEF RequestType
  <2>5. reqs' = (reqs \ {r}) \union {d}
    BY <2>1 DEF Suspend
  <2> HIDE DEF d
  <2>6. \A p \in Pages, i \in Identities : Claim(p, i)' => Claim(p, i)
    BY <1>0, <2>4, <2>5 DEF Claim
  <2>7. OneOwner' /\ UnusedIsFree'
    BY <1>0, <2>6 DEF OneOwner, UnusedIsFree
  <2>8. QED BY <2>3, <2>7 DEF ListInv
<1>4. QED BY <1>1, <1>2, <1>3

\* Only one leave of an identity is on its way.
LEMMA OneLeave ==
    ASSUME IInv, OneOwner, NEW r \in reqs, NEW q \in reqs,
           r.op = "leave", q.op = "leave", r.id = q.id
    PROVE  r = q
<1>1. /\ r.who \in Pages /\ q.who \in Pages /\ Shape(r) /\ Shape(q) /\ OneOfAKind
  BY RequestFields DEF IInv, TypeOK, Shaped
<1>2. r.id \in Identities /\ Claim(r.who, r.id) /\ Claim(q.who, r.id)
  BY <1>1 DEF Shape, Claim
<1>3. r.who = q.who
  BY <1>1, <1>2 DEF OneOwner
<1>4. QED BY <1>1, <1>3 DEF OneOfAKind, Shape

\* A leave closes one row: the one it was counted for.
LEMMA CloseIsListed ==
    ASSUME IInv, ListInv, NEW r \in reqs, CloseRow(r)
    PROVE  ListInv'
<1>0. /\ OneOwner /\ UnusedIsFree /\ RowsSuffice /\ page' = page /\ ticket' = ticket
      /\ knock' = knock /\ r \in RequestType /\ Shape(r) /\ r.op = "leave"
      /\ rows \in [Identities -> Nat] /\ r.id \in Identities /\ ~r.heard
  BY DEF ListInv, IInv, TypeOK, Shaped, Shape, CloseRow, lobby, pages
<1>1. reqs' = reqs \ {r}
  BY <1>0 DEF CloseRow, Answer
<1>2. ~Leaving(r.id)'
  BY <1>0, <1>1, OneLeave DEF Leaving
<1>3. \A i \in Identities : (InRoom(i)' => InRoom(i)) /\ (Leaving(i)' => Leaving(i))
  BY <1>0, <1>1 DEF InRoom, Leaving
<1>4. /\ rows'[r.id] = IF rows[r.id] > 0 THEN rows[r.id] - 1 ELSE 0
      /\ \A i \in Identities : i # r.id => rows'[i] = rows[i]
  BY <1>0 DEF CloseRow
<1>5. Leaving(r.id) /\ rows[r.id] \in Nat
  BY <1>0 DEF Leaving
<1>6. ASSUME NEW i \in Identities
      PROVE  /\ InRoom(i)' \/ Leaving(i)' => rows'[i] >= 1
             /\ InRoom(i)' /\ Leaving(i)' => rows'[i] >= 2
  <2>1. CASE i = r.id
    <3>1. InRoom(i) => rows[i] >= 2
      BY <1>0, <1>5, <2>1 DEF RowsSuffice
    <3>2. ~Leaving(i)'
      BY <1>2, <2>1
    <3>3. QED BY <1>3, <1>4, <1>5, <2>1, <3>1, <3>2
  <2>2. CASE i # r.id
    BY <1>0, <1>3, <1>4, <2>2 DEF RowsSuffice
  <2>3. QED BY <2>1, <2>2
<1>7. RowsSuffice'
  BY <1>6 DEF RowsSuffice
<1>8. OneOwner' /\ UnusedIsFree'
  BY <1>0, <1>1 DEF OneOwner, UnusedIsFree, Claim
<1>9. QED BY <1>7, <1>8 DEF ListInv


\* An answer brings its page into the room only with a token, and a guest's page takes
\* the ticket the answer is about.
LEMMA HearersAreListed ==
    ASSUME IInv, ListInv, NEW r \in reqs, Hear(r),
           \A k \in Tickets : knock'[k] = "none" => knock[k] = "none"
    PROVE  ListInv'
<1>0. /\ OneOwner /\ UnusedIsFree /\ rows' = rows /\ page \in [Pages -> PageStates]
      /\ ticket \in [Pages -> Identities \union {None}]
      /\ r \in RequestType /\ Shape(r) /\ Awaited(r) /\ r.who \in Pages /\ r.stage = "done"
      /\ r.heard
  BY RequestFields
  DEF ListInv, IInv, TypeOK, Shaped, AllAwaited, Shape, Hear, HearJoin, HearPoll, Arrives,
      people
<1>1. \A q \in reqs : Grounded(q)
  BY SameIsGrounded
<1>2. CASE HearJoin(r)
  <2> DEFINE s == CASE r.answer = "token" -> "in"
                    [] r.answer = "pending" -> "waiting"
                    [] OTHER -> "idle"
  <2>1. /\ r.op \in {"join", "knock"} /\ reqs' = reqs \ {r} /\ Show(r.who, s)
        /\ ticket' = [ticket EXCEPT ![r.who] = r.id]
    BY <1>2 DEF HearJoin, Arrives
  <2>2. s = "in" => r.answer = "token"
    OBVIOUS
  <2> HIDE DEF s
  <2>3. \A q \in reqs' : Grounded(q)
    BY <1>1, <2>1
  <2>4. page'[r.who] = s /\ \A p \in Pages : p # r.who => page'[p] = page[p]
    BY <1>0, <2>1 DEF Show
  <2>5. \A p \in Pages : p # r.who => ticket'[p] = ticket[p]
    BY <1>0, <2>1
  <2>6. ticket'[r.who] = r.id
    BY <1>0, <2>1
  <2>7. \A p \in Pages : ticket'[p] \in Identities => Claim(p, ticket'[p])
    BY <2>5, <2>6 DEF Claim
  <2>8. \A p \in Pages : page'[p] = "in" => InRoom(ticket'[p])
    <3>1. ASSUME NEW p \in Pages, page'[p] = "in"
          PROVE  InRoom(ticket'[p])
      <4>1. CASE p = r.who
        <5>1. Token(r)
          BY <1>0, <2>2, <2>4, <3>1, <4>1 DEF Token
        <5>2. QED BY <2>6, <4>1, <5>1 DEF InRoom
      <4>2. CASE p # r.who
        BY <2>4, <2>5, <3>1, <4>2 DEF InRoom
      <4>3. QED BY <4>1, <4>2
    <3>2. QED BY <3>1
  <2>9. QED BY <1>0, <2>3, <2>7, <2>8, NothingNew, NothingNewIsListed
<1>3. CASE HearPoll(r)
  <2>1. /\ r.op = "poll" /\ Show(r.who, Outcome(r.answer)) /\ ticket' = ticket
        /\ reqs' \subseteq reqs \union Unheard(r.who)
    BY <1>3 DEF HearPoll
  <2>2. \A q \in reqs' : Grounded(q)
    BY <1>1, <2>1, UnheardIsGrounded
  <2>3. r.who \in Guests /\ r.id = ticket[r.who]
    BY <1>0, <2>1 DEF Shape, Awaited
  <2>4. \A p \in Pages : ticket'[p] = ticket[p]
    BY <2>1
  <2>5. \A p \in Pages : page'[p] = "in" => InRoom(ticket'[p])
    <3>1. ASSUME NEW p \in Pages, page'[p] = "in"
          PROVE  InRoom(ticket'[p])
      <4>1. CASE p = r.who
        <5>1. Outcome(r.answer) = "in"
          BY <1>0, <2>1, <3>1, <4>1 DEF Show
        <5>2. r.answer = "token"
          BY <5>1 DEF Outcome
        <5>3. QED BY <1>0, <2>3, <2>4, <4>1, <5>2 DEF InRoom, Token
      <4>2. CASE p # r.who
        BY <1>0, <2>1, <2>4, <3>1, <4>2 DEF InRoom, Show
      <4>3. QED BY <4>1, <4>2
    <3>2. QED BY <3>1
  <2>6. \A p \in Pages : ticket'[p] \in Identities => Claim(p, ticket'[p])
    BY <2>4 DEF Claim
  <2>7. QED BY <1>0, <2>2, <2>5, <2>6, NothingNew, NothingNewIsListed
<1>4. QED BY <1>2, <1>3 DEF Hear

\* A restart fails what is in flight and forgets no row; the other steps touch neither
\* requests nor pages.
LEMMA OthersAreListed ==
    ASSUME IInv, ListInv,
           \/ \E m \in Members : RefreshPanel(m) \/ \E k \in Tickets : Decide(m, k)
           \/ \E k \in Tickets : Expire(k)
           \/ EndMeeting \/ EditMeeting \/ Restart \/ UNCHANGED vars,
           \A k \in Tickets : knock'[k] = "none" => knock[k] = "none"
    PROVE  ListInv'
<1>0. OneOwner /\ UnusedIsFree /\ page' = page /\ ticket' = ticket /\ rows' = rows
  BY DEF ListInv, RefreshPanel, Decide, Expire, EndMeeting, EditMeeting, Restart, vars,
         people, pages
<1>1. \A q \in reqs' : Grounded(q)
  <2>1. CASE Restart
    <3> DEFINE a(r) == IF r.stage = "done" THEN r
                       ELSE [r EXCEPT !.stage = "done", !.answer = "refused"]
    <3>1. reqs' = {a(r) : r \in {q \in reqs : q.heard}}
      BY <2>1, Zenon DEF Restart
    <3>2. ASSUME NEW r \in reqs
          PROVE  /\ a(r).who = r.who /\ a(r).op = r.op /\ a(r).id = r.id
                 /\ Token(a(r)) => Token(r)
      <4>1. r \in RequestType
        BY DEF IInv, TypeOK
      <4>2. QED BY <4>1 DEF Token, RequestType
    <3> HIDE DEF a
    <3>3. QED BY <3>1, <3>2, SameIsGrounded
  <2>2. CASE reqs' = reqs
    BY <2>2, SameIsGrounded
  <2>3. QED BY <2>1, <2>2 DEF RefreshPanel, Decide, Expire, EndMeeting, EditMeeting, vars,
            pages
<1>2. \A x \in Pages : ticket'[x] = ticket[x]
  BY <1>0
<1>3. /\ \A x \in Pages : ticket'[x] \in Identities => Claim(x, ticket'[x])
      /\ \A x \in Pages : page'[x] = "in" => InRoom(ticket'[x])
  BY <1>0, <1>2 DEF Claim, InRoom
<1>4. QED BY <1>0, <1>1, <1>3, NothingNew, NothingNewIsListed

\* Every step keeps the list.
LEMMA StepIsListed ==
    ASSUME IInv, ListInv, [Next]_vars
    PROVE  ListInv'
<1>1. \A k \in Tickets : knock'[k] = "none" => knock[k] = "none"
  BY UsedStaysUsed
<1>2. ASSUME NEW g \in Guests, Knock(g) \/ Poll(g) \/ CancelKnock(g)
      PROVE  ListInv'
  BY <1>1, <1>2, ClicksAreListed DEF Pages
<1>3. ASSUME NEW m \in Members, Join(m)
      PROVE  ListInv'
  BY <1>1, <1>3, ClicksAreListed DEF Pages
<1>4. ASSUME NEW p \in Pages, Leave(p) \/ ClosePage(p)
      PROVE  ListInv'
  BY <1>1, <1>4, ClicksAreListed, LeaveIsListed
<1>5. ASSUME NEW r \in reqs, Handle(r) \/ Hear(r) \/ RequestFails(r)
      PROVE  ListInv'
  BY <1>1, <1>5, AnswersAreListed, RecordersAreListed, CloseIsListed, HearersAreListed
  DEF Handle
<1>6. CASE \/ \E m \in Members : RefreshPanel(m) \/ \E k \in Tickets : Decide(m, k)
           \/ \E k \in Tickets : Expire(k)
           \/ EndMeeting \/ EditMeeting \/ Restart \/ UNCHANGED vars
  BY <1>1, <1>6, OthersAreListed
<1>7. QED BY <1>2, <1>3, <1>4, <1>5, <1>6 DEF Next

\* Nobody has joined a new meeting, and no ticket is anybody's.
LEMMA InitIsListed ==
    ASSUME Init
    PROVE  ListInv
<1>1. /\ reqs = {} /\ page = [p \in Pages |-> "idle"]
      /\ ticket = [p \in Pages |-> IF p \in Members THEN p ELSE None]
  BY DEF Init
<1>2. \A p \in Pages, i \in Identities : Claim(p, i) => p = i /\ p \in Members
  BY <1>1 DEF Claim, Identities, Pages
<1>3. OneOwner /\ UnusedIsFree
  <2>1. Tickets \subseteq Identities /\ Tickets \intersect Members = {}
    BY DEF Identities
  <2>2. QED BY <1>2, <2>1 DEF OneOwner, UnusedIsFree
<1>4. RowsSuffice
  BY <1>1 DEF RowsSuffice, InRoom, Leaving
<1>5. QED BY <1>3, <1>4 DEF ListInv

\* Leaves that overtake rejoins, rows that lost leaves left open, and restarts: whoever's
\* page shows the room has an open participant row, because there is one for it and one
\* more for the leave that is still to close one.
THEOREM InIsListed == Spec => []PresentMeansListed
<1>1. Init => IInv /\ ListInv
  BY InitIsGood, InitIsListed
<1>2. (IInv /\ ListInv) /\ [Next]_vars => (IInv /\ ListInv)'
  BY StepKeepsInvariant, StepIsListed
<1>3. IInv /\ ListInv => PresentMeansListed
  <2>1. ASSUME IInv, ListInv, NEW p \in Pages, page[p] = "in"
        PROVE  rows[ticket[p]] > 0
    <3>1. ticket[p] \in Identities /\ InRoom(ticket[p])
      BY <2>1 DEF IInv, InHasIdentity, InRoom
    <3>2. rows[ticket[p]] \in Nat /\ rows[ticket[p]] >= 1
      BY <2>1, <3>1 DEF ListInv, RowsSuffice, IInv, TypeOK
    <3>3. QED BY <3>2
  <2>2. QED BY <2>1 DEF PresentMeansListed
<1>4. QED BY <1>1, <1>2, <1>3, PTL DEF Spec
=============================================================================
