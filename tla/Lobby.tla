------------------------------- MODULE Lobby -------------------------------
(***************************************************************************)
(* One meeting behind its waiting room: the handlers of routes-meetings.ts *)
(* and storage/meetings.ts, the in-memory knocks of storage/lobby.ts, the  *)
(* pre-join page of a guest (Join.tsx) and the room page of an             *)
(* organisation member (Room.tsx).                                         *)
(*                                                                         *)
(* A handler is atomic between its awaits; minting a LiveKit token is an   *)
(* await.  Requests of one page travel independently of each other.  A     *)
(* guest's page polls its knock every two seconds whether or not earlier   *)
(* polls have been answered.                                               *)
(***************************************************************************)
EXTENDS Naturals, FiniteSets

CONSTANTS
    Guests,      \* pages of people without an account
    Members,     \* members of the meeting's organisation, one page each
    Tickets,     \* fresh knock ids; a ticket is also the guest's identity
    None,        \* no ticket
    Edits,       \* TRUE: the host may switch the waiting room and guests
    FaultKinds,  \* subset of {"fail", "close", "restart"}
    MaxFaults,   \* how many faults a behaviour may contain
    MaxPolls     \* the polls one page may have in flight

ASSUME LobbyAssumption ==
    /\ Guests \intersect Members = {} /\ Tickets \intersect Members = {}
    /\ None \notin Tickets \union Members
    /\ Edits \in BOOLEAN
    /\ FaultKinds \subseteq {"fail", "close", "restart"}
    /\ MaxFaults \in Nat /\ MaxPolls \in Nat

VARIABLES
    status,      \* meetings.status
    settings,    \* meetings.waiting_room and meetings.allow_guests
    knock,       \* the knocks Map: status per ticket
    issued,      \* the knocks with tokenIssued
    rows,        \* per identity, its meeting_participants rows with left_at null
    entered,     \* the tickets with any meeting_participants row
    page,        \* what every page shows
    ticket,      \* per page, the identity of its knock, or that it entered with
    panel,       \* per member, the pending knocks its room page lists
    reqs,        \* HTTP requests between a page and its answer
    faults       \* faults so far

meeting == <<status, settings>>
lobby   == <<knock, issued>>
people  == <<rows, entered>>
pages   == <<page, ticket, panel>>
vars    == <<status, settings, knock, issued, rows, entered,
             page, ticket, panel, reqs, faults>>

Pages      == Guests \union Members
Identities == Tickets \union Members
KnockStatus == {"none", "walkin", "unasked", "pending", "admitted", "denied",
                "expired", "cancelled", "gone"}

\* "joining" waits for the answer to join or knock, "waiting" is the waiting room.
PageStates == {"idle", "joining", "waiting", "denied", "expired", "in"}

Ops == {"knock", "poll", "cancel", "join", "leave"}

RequestType ==
    [op : Ops, who : Pages,
     id : Identities \union {None}, slot : Nat, heard : BOOLEAN,
     stage : {"sent", "await", "done"},
     answer : {"none", "token", "refused"} \union KnockStatus]

Init ==
    /\ status = "scheduled"
    /\ settings \in [waitingRoom : BOOLEAN, allowGuests : BOOLEAN]
    /\ knock = [k \in Tickets |-> "none"]
    /\ issued = {}
    /\ rows = [i \in Identities |-> 0]
    /\ entered = {}
    /\ page = [p \in Pages |-> "idle"]
    /\ ticket = [p \in Pages |-> IF p \in Members THEN p ELSE None]
    /\ panel = [m \in Members |-> {}]
    /\ reqs = {}
    /\ faults = 0

-----------------------------------------------------------------------------
(* Pages: what a person or a page's interval does *)

Show(p, s) == page' = [page EXCEPT ![p] = s]

\* Slots tell the polls of one page apart; of other requests one page has at most
\* one of a kind in flight.
Free(p, op, n) == \A r \in reqs : r.who = p /\ r.op = op => r.slot # n

\* The request p sends, in the first free slot, after the requests S.
Send(p, op, id, S) ==
    \E n \in 1..(IF op = "poll" THEN MaxPolls ELSE 1) :
       /\ Free(p, op, n) /\ \A m \in 1..(n - 1) : ~Free(p, op, m)
       /\ reqs' = S \union
             {[op |-> op, who |-> p, id |-> id, slot |-> n,
               heard |-> op \in {"knock", "poll", "join"},
               stage |-> "sent", answer |-> "none"]}

\* Page p no longer wants the answers it waits for.
Unheard(p) == {IF r.who = p THEN [r EXCEPT !.heard = FALSE] ELSE r :
                 r \in {q \in reqs : q.who # p \/ q.stage # "done"}}

\* "Join" on the pre-join page, also from the screens after a denial or expiry.
Knock(g) ==
    /\ page[g] \in {"idle", "denied", "expired"}
    /\ Show(g, "joining")
    /\ Send(g, "knock", None, reqs)
    /\ UNCHANGED <<meeting, lobby, people, ticket, panel, faults>>

Poll(g) ==
    /\ page[g] = "waiting"
    /\ Send(g, "poll", ticket[g], reqs)
    /\ UNCHANGED <<meeting, lobby, people, pages, faults>>

CancelKnock(g) ==
    /\ page[g] = "waiting"
    /\ Show(g, "idle")
    /\ Send(g, "cancel", ticket[g], Unheard(g))
    /\ UNCHANGED <<meeting, lobby, people, ticket, panel, faults>>

Join(m) ==
    /\ page[m] = "idle"
    /\ Show(m, "joining")
    /\ Send(m, "join", m, reqs)
    /\ UNCHANGED <<meeting, lobby, people, ticket, panel, faults>>

Leave(p) ==
    /\ page[p] = "in"
    /\ Show(p, "idle")
    /\ Send(p, "leave", ticket[p], reqs)
    /\ panel' = IF p \in Members THEN [panel EXCEPT ![p] = {}] ELSE panel
    /\ UNCHANGED <<meeting, lobby, people, ticket, faults>>

\* GET lobby: the room page of a member lists the pending knocks every 3 s.
RefreshPanel(m) ==
    /\ page[m] = "in"
    /\ panel' = [panel EXCEPT ![m] = {k \in Tickets : knock[k] = "pending"}]
    /\ UNCHANGED <<meeting, lobby, people, page, ticket, reqs, faults>>

-----------------------------------------------------------------------------
(* Handlers *)

\* The answer stays on its way as long as the page that asked will hear it.
Answer(r, id, a) ==
    reqs' = (reqs \ {r}) \union
            (IF r.heard
             THEN {[r EXCEPT !.stage = "done", !.id = id, !.answer = a]} ELSE {})

Suspend(r, id) ==
    reqs' = (reqs \ {r}) \union {[r EXCEPT !.stage = "await", !.id = id]}

SetKnock(k, s) == knock' = [knock EXCEPT ![k] = s]

\* The synchronous part of every join: the first to arrive starts the meeting,
\* and the participant is recorded before the token is minted.
Record(i) ==
    /\ status' = IF status = "scheduled" THEN "active" ELSE status
    /\ rows' = [rows EXCEPT ![i] = @ + 1]
    /\ entered' = entered \union ({i} \intersect Tickets)

KnockRefused(r) ==
    /\ r.op = "knock" /\ r.stage = "sent"
    /\ status = "ended" \/ ~settings.allowGuests
    /\ Answer(r, None, "refused")
    /\ UNCHANGED <<meeting, lobby, people, pages, faults>>

TakeKnock(r) ==
    /\ r.op = "knock" /\ r.stage = "sent"
    /\ status # "ended" /\ settings.allowGuests /\ settings.waitingRoom
    /\ \E k \in Tickets : /\ knock[k] = "none"
                          /\ SetKnock(k, "pending")
                          /\ Answer(r, k, "pending")
    /\ UNCHANGED <<meeting, issued, people, pages, faults>>

\* No waiting room: the knock is answered with a token at once.
WalkIn(r) ==
    /\ r.op = "knock" /\ r.stage = "sent"
    /\ status # "ended" /\ settings.allowGuests /\ ~settings.waitingRoom
    /\ \E k \in Tickets : /\ knock[k] = "none"
                          /\ SetKnock(k, "walkin")
                          /\ Record(k)
                          /\ Suspend(r, k)
    /\ UNCHANGED <<settings, issued, pages, faults>>

\* Anything but an admit that was not consumed yet is only reported.
ReportKnock(r) ==
    /\ r.op = "poll" /\ r.stage = "sent"
    /\ knock[r.id] # "admitted" \/ r.id \in issued
    /\ Answer(r, r.id, IF knock[r.id] = "gone" THEN "refused" ELSE knock[r.id])
    /\ UNCHANGED <<meeting, lobby, people, pages, faults>>

\* The admit is consumed only after the await, by MintToken.
UseAdmit(r) ==
    /\ r.op = "poll" /\ r.stage = "sent"
    /\ knock[r.id] = "admitted" /\ r.id \notin issued
    /\ Record(r.id)
    /\ Suspend(r, r.id)
    /\ UNCHANGED <<settings, lobby, pages, faults>>

MintToken(r) ==
    /\ r.stage = "await"
    /\ issued' = IF r.op = "poll" THEN issued \union {r.id} ELSE issued
    /\ Answer(r, r.id, "token")
    /\ UNCHANGED <<meeting, knock, people, pages, faults>>

CancelAtServer(r) ==
    /\ r.op = "cancel" /\ r.stage = "sent"
    /\ IF knock[r.id] = "pending" THEN SetKnock(r.id, "cancelled")
                                  ELSE UNCHANGED knock
    /\ Answer(r, r.id, "none")
    /\ UNCHANGED <<meeting, issued, people, pages, faults>>

\* Without a session, where guests are not allowed.
JoinRefused(r) ==
    /\ r.op = "join" /\ r.stage = "sent"
    /\ status = "ended" \/ ~settings.allowGuests
    /\ Answer(r, r.id, "refused")
    /\ UNCHANGED <<meeting, lobby, people, pages, faults>>

\* The member is recorded, then the handler awaits the eviction of older
\* connections and the token.  That a member's join which starts the meeting of a
\* scheduled call also tells its invitees is StartNotice of ScheduledCall.
TakeJoin(r) ==
    /\ r.op = "join" /\ r.stage = "sent" /\ status # "ended"
    /\ Record(r.id)
    /\ Suspend(r, r.id)
    /\ UNCHANGED <<settings, lobby, pages, faults>>

\* The page takes its user for signed in, and the session has lapsed: join makes
\* a guest of whoever has none, without a knock and whatever the waiting room says.
JoinAsGuest(r) ==
    /\ r.op = "join" /\ r.stage = "sent" /\ status # "ended"
    /\ settings.allowGuests
    /\ \E k \in Tickets : /\ knock[k] = "none"
                          /\ SetKnock(k, "unasked")
                          /\ Record(k)
                          /\ Suspend(r, k)
    /\ UNCHANGED <<settings, issued, pages, faults>>

\* Mutant of CloseRow: leaving closes every open row of the identity.
CloseRows(r) ==
    /\ r.op = "leave" /\ r.stage = "sent"
    /\ rows' = [rows EXCEPT ![r.id] = 0]
    /\ Answer(r, r.id, "none")
    /\ UNCHANGED <<meeting, lobby, entered, pages, faults>>

\* markParticipantLeft closes one open row of the identity, if there is one.
CloseRow(r) ==
    /\ r.op = "leave" /\ r.stage = "sent"
    /\ rows' = [rows EXCEPT ![r.id] = IF @ > 0 THEN @ - 1 ELSE 0]
    /\ Answer(r, r.id, "none")
    /\ UNCHANGED <<meeting, lobby, entered, pages, faults>>

\* A member admits or denies a knock its panel still lists; decideKnock turns
\* the request down if the knock is no longer pending.
Decide(m, k) ==
    /\ k \in panel[m]
    /\ panel' = [panel EXCEPT ![m] = @ \ {k}]
    /\ IF knock[k] = "pending"
       THEN \E d \in {"admitted", "denied"} : SetKnock(k, d)
       ELSE UNCHANGED knock
    /\ UNCHANGED <<meeting, issued, people, page, ticket, reqs, faults>>

\* Mutant of Expire: the sweeper looks only at the age of the knock.
ExpireDecided(k) ==
    /\ knock[k] \in {"pending", "admitted", "denied"}
    /\ SetKnock(k, "expired")
    /\ UNCHANGED <<meeting, issued, people, pages, reqs, faults>>

\* The sweeper finds the knock overdue.
Expire(k) ==
    /\ knock[k] = "pending"
    /\ SetKnock(k, "expired")
    /\ UNCHANGED <<meeting, issued, people, pages, reqs, faults>>

EndMeeting ==
    /\ status # "ended"
    /\ status' = "ended"
    /\ UNCHANGED <<settings, lobby, people, pages, reqs, faults>>

EditMeeting ==
    /\ Edits
    /\ settings' \in [waitingRoom : BOOLEAN, allowGuests : BOOLEAN]
    /\ settings' # settings
    /\ UNCHANGED <<status, lobby, people, pages, reqs, faults>>

-----------------------------------------------------------------------------
(* Answers *)

Arrives(r) == r.stage = "done" /\ reqs' = reqs \ {r}

\* The answer to join or knock: in, in the waiting room, or back where we were.
HearJoin(r) ==
    /\ Arrives(r) /\ r.op \in {"join", "knock"}
    /\ Show(r.who, CASE r.answer = "token" -> "in"
                     [] r.answer = "pending" -> "waiting"
                     [] OTHER -> "idle")
    /\ ticket' = [ticket EXCEPT ![r.who] = r.id]
    /\ UNCHANGED <<meeting, lobby, people, panel, faults>>

\* Mutant of Outcome: a page does not understand "expired".
OutcomeButExpiry(answer) ==
    CASE answer = "token" -> "in"
      [] answer = "denied" -> "denied"
      [] answer = "cancelled" -> "idle"
      [] OTHER -> "waiting"

\* "pending", "admitted" without a token, and errors keep the page waiting.
Outcome(answer) ==
    CASE answer = "token" -> "in"
      [] answer \in {"denied", "expired"} -> answer
      [] answer = "cancelled" -> "idle"
      [] OTHER -> "waiting"

\* A page that stops waiting ignores the polls it still has out.
HearPoll(r) ==
    /\ r.stage = "done" /\ r.op = "poll"
    /\ Show(r.who, Outcome(r.answer))
    /\ reqs' = (IF Outcome(r.answer) = "waiting" THEN reqs ELSE Unheard(r.who)) \ {r}
    /\ UNCHANGED <<meeting, lobby, people, ticket, panel, faults>>

-----------------------------------------------------------------------------
(* Faults, at most MaxFaults of the kinds in FaultKinds *)

Fault(kind) == /\ kind \in FaultKinds /\ faults < MaxFaults
               /\ faults' = faults + 1

\* A request that never arrives, or an answer that does not.
RequestFails(r) ==
    /\ Fault("fail") /\ r.stage \in {"sent", "done"}
    /\ Answer(r, r.id, "refused")
    /\ UNCHANGED <<meeting, lobby, people, pages>>

\* A page is closed or reloaded without leaving.
ClosePage(p) ==
    /\ Fault("close") /\ page[p] # "idle"
    /\ Show(p, "idle")
    /\ panel' = IF p \in Members THEN [panel EXCEPT ![p] = {}] ELSE panel
    /\ reqs' = Unheard(p)
    /\ UNCHANGED <<meeting, lobby, people, ticket>>

\* The process restarts: the knocks were only in memory.
Restart ==
    /\ Fault("restart")
    /\ knock' = [k \in Tickets |-> IF knock[k] \in {"none", "walkin", "unasked"}
                                   THEN knock[k] ELSE "gone"]
    /\ issued' = {}
    /\ reqs' = {IF r.stage = "done" THEN r
                  ELSE [r EXCEPT !.stage = "done", !.answer = "refused"] :
                  r \in {q \in reqs : q.heard}}
    /\ UNCHANGED <<meeting, people, pages>>

-----------------------------------------------------------------------------

Handle(r) == \/ KnockRefused(r) \/ TakeKnock(r) \/ WalkIn(r)
             \/ ReportKnock(r) \/ UseAdmit(r) \/ MintToken(r)
             \/ CancelAtServer(r) \/ JoinRefused(r) \/ TakeJoin(r)
             \/ JoinAsGuest(r) \/ CloseRow(r)

Hear(r) == HearJoin(r) \/ HearPoll(r)

Next == \/ \E g \in Guests : Knock(g) \/ Poll(g) \/ CancelKnock(g)
        \/ \E m \in Members : \/ Join(m) \/ RefreshPanel(m)
                              \/ \E k \in Tickets : Decide(m, k)
        \/ \E p \in Pages : Leave(p) \/ ClosePage(p)
        \/ \E r \in reqs : Handle(r) \/ Hear(r) \/ RequestFails(r)
        \/ \E k \in Tickets : Expire(k)
        \/ EndMeeting \/ EditMeeting \/ Restart

Spec == Init /\ [][Next]_vars

-----------------------------------------------------------------------------
(* What the meeting promises *)

TypeOK ==
    /\ status \in {"scheduled", "active", "ended"}
    /\ settings \in [waitingRoom : BOOLEAN, allowGuests : BOOLEAN]
    /\ knock \in [Tickets -> KnockStatus]
    /\ issued \subseteq Tickets
    /\ rows \in [Identities -> Nat]
    /\ entered \subseteq Tickets
    /\ page \in [Pages -> PageStates]
    /\ ticket \in [Pages -> Identities \union {None}]
    /\ panel \in [Members -> SUBSET Tickets]
    /\ reqs \subseteq RequestType
    /\ faults \in Nat

\* Polls that mint while hosts decide, guests cancel, the sweeper expires and
\* the process restarts: a knock is decided once, and whoever knocks is recorded
\* as a participant only on a ticket that was admitted before.
Admitted == INSTANCE Admission WITH decision <- knock
ImplementsAdmission == Admitted!Spec

\* A guest's page shows the room only for a knock some member let in (or that
\* met no waiting room), never for one denied, expired or cancelled, whichever
\* of its answers arrives last.
GuestInOnlyIfAdmitted ==
    \A g \in Guests :
       page[g] = "in" => /\ ticket[g] \in entered
                         /\ knock[ticket[g]] \in {"admitted", "walkin", "gone"}

\* Whoever is in the room is on the participants' list, although leaves and
\* joins of the same identity overtake each other and a leave closes whichever
\* open row it finds.
PresentMeansListed ==
    \A p \in Pages : page[p] = "in" => rows[ticket[p]] > 0

\* The admit of a knock is good for one token, counting those being minted.
TokenIssuedOnce ==
    \A k \in Tickets :
       Cardinality({r \in reqs : r.op = "poll" /\ r.id = k /\ r.stage = "await"})
         + (IF k \in issued THEN 1 ELSE 0) <= 1

-----------------------------------------------------------------------------
(* Progress.  The sweeper sweeps, intervals poll, and the event loop and the *)
(* network answer every poll; no person has to do anything, and nothing is   *)
(* assumed of the other requests.                                            *)

Fairness ==
    /\ \A k \in Tickets : WF_vars(Expire(k))
    /\ \A g \in Guests : WF_vars(Poll(g))
    /\ \A g \in Guests, n \in 1..MaxPolls :
          WF_vars(\E r \in reqs : /\ r.who = g /\ r.op = "poll" /\ r.slot = n
                                  /\ Handle(r) \/ Hear(r))

FairSpec == Spec /\ Fairness

\* The one token of page g's knock is issued, and no answer brings it any more.
TokenLost(g) ==
    /\ ticket[g] \in issued
    /\ ~ \E r \in reqs : r.id = ticket[g] /\ r.heard /\ r.answer = "token"

\* Nobody sits in the waiting room for ever, whatever fails, but who waits on a knock
\* that a restart forgot, or has lost the answer with the one token.
WaitingEnds ==
    \A g \in Guests :
       page[g] = "waiting"
          ~> (page[g] # "waiting" \/ knock[ticket[g]] = "gone" \/ TokenLost(g))

=============================================================================
