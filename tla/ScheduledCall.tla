---------------------------- MODULE ScheduledCall ----------------------------
(***************************************************************************)
(* One scheduled call of scheduled-calls.ts: its row, its invitees' rows,  *)
(* the passes of dispatchInvites over them, the scans of dispatchReminders *)
(* and the start notice a member's join gives (routes-meetings.ts).        *)
(*                                                                         *)
(* A pass and a scan read the rows once and then await one send after      *)
(* another; the interval starts the next ones every minute whether or not  *)
(* the last have come to their end.                                        *)
(***************************************************************************)
EXTENDS Naturals

CONSTANTS
    Invitees,    \* ids of the invitees' rows; the code reads them in this order
    AppUsers,    \* the invitees with an account, the organizer among them
    Phones,      \* the invitees known by a phone number; the rest by e-mail only
    Members,     \* members of the organisation, who may join the meeting
    MaxAttempts, \* INVITE_MAX_ATTEMPTS
    MayRefuse,   \* TRUE: the providers may refuse an invitation
    MaxPasses,   \* passes of dispatchInvites that may overlap
    MaxScans,    \* scans of dispatchReminders that may overlap
    LastPhase,   \* where the clock stops, see Phases
    MaxReplies,  \* RSVPs in a behaviour
    MaxRestarts  \* restarts of the process in a behaviour

ASSUME CallAssumption ==
    /\ Invitees \subseteq Nat /\ AppUsers \subseteq Invitees /\ AppUsers \subseteq Members
    /\ Phones \subseteq Invitees \ AppUsers
    /\ MaxAttempts \in Nat \ {0} /\ MayRefuse \in BOOLEAN
    /\ MaxPasses \in Nat \ {0} /\ MaxScans \in Nat
    /\ MaxReplies \in Nat /\ MaxRestarts \in Nat

\* The clock, in the steps the code tells apart: 0 long before, 1 at most a quarter
\* of an hour before the start, 2 at most 6 minutes, 3 in the last minute, 4 in the
\* first minute of the call, 5 after it, 6 an hour past the call's end.
Phases == 0..6

ASSUME PhaseAssumption == LastPhase \in Phases

VARIABLES
    status,      \* scheduled_calls.status; "deleted" when the rows are gone
    announced,   \* scheduled_calls.reminder_sent_at is set
    meetingOn,   \* the linked meeting has left "scheduled"
    phase,       \* the clock
    sent,        \* the invitees with invite_sent_at
    attempts,    \* invite_attempts
    retry,       \* the invitees with invite_next_retry_at
    declined,    \* the invitees whose response is "no"
    reminded,    \* the marks reminder_15_at, reminder_start_at, reminder_sent_at
    pass,        \* the passes of dispatchInvites: where each is
    scan,        \* the scans of dispatchReminders: where each is
    told,        \* history: invitations the providers took, per invitee
    reached,     \* history: who got an at-start reminder, SMS or start notice
    excused,     \* history: who ever said no
    starter,     \* history: the member whose join gave the start notice
    replies, restarts

row      == <<status, announced, meetingOn>>
invites  == <<sent, attempts, retry>>
answers  == <<declined, excused, replies>>
reminder == <<reminded, reached>>
vars == <<status, announced, meetingOn, phase, sent, attempts, retry, declined,
          reminded, pass, scan, told, reached, excused, starter, replies, restarts>>

Open   == {"scheduled", "started"}
Passes == 1..MaxPasses
Scans  == 1..MaxScans

\* A reminder owed to an invitee: a push 15 minutes before, a push (and SMS) at the
\* start, or the one SMS of an invitee without an account.
Quarter == 0
Start   == 1
Outside == 2
Duties  == Invitees \X {Quarter, Start, Outside}

First(S) == CHOOSE i \in S : \A j \in S : i <= j

\* The next reminder of a scan: invitees in the order of their rows.
Place(d)     == 3 * d[1] + d[2]
FirstDuty(D) == CHOOSE d \in D : \A e \in D : Place(d) <= Place(e)

PassType == [stage : {"idle", "queued", "loop", "accepted", "refused"},
             todo : SUBSET Invitees]
ScanType == [stage : {"idle", "loop", "sent", "swept"}, now : Phases,
             todo : SUBSET Duties, done : BOOLEAN]

IdlePass == [stage |-> "idle", todo |-> {}]
IdleScan == [stage |-> "idle", now |-> 0, todo |-> {}, done |-> FALSE]

\* The call is created at most a minute after its start, and its first pass over
\* the roster begins at once.
Init ==
    /\ status = "scheduled" /\ announced = FALSE /\ meetingOn = FALSE
    /\ phase \in 0..(IF LastPhase < 4 THEN LastPhase ELSE 4)
    /\ sent = {} /\ attempts = [i \in Invitees |-> 0] /\ retry = {}
    /\ declined = {} /\ reminded = {}
    /\ pass = [p \in Passes |-> IF p = 1 /\ Invitees # {}
                                THEN [stage |-> "loop", todo |-> Invitees]
                                ELSE IdlePass]
    /\ scan = [s \in Scans |-> IdleScan]
    /\ told = [i \in Invitees |-> 0] /\ reached = {} /\ excused = {} /\ starter = {}
    /\ replies = 0 /\ restarts = 0

-----------------------------------------------------------------------------
(* Invitations *)

Put(p, stage, todo) == pass' = [pass EXCEPT ![p] = [stage |-> stage, todo |-> todo]]

\* Passes and scans take the first free slot; which one has no meaning.
Free(f, n) == f[n].stage = "idle" /\ \A m \in 1..(n - 1) : f[m].stage # "idle"

\* Mutant of RetryTick: calls that have started are not looked at.
RetryTickEarly ==
    /\ status = "scheduled"
    /\ \E i \in retry \ sent : attempts[i] < MaxAttempts
    /\ \E p \in Passes : Free(pass, p) /\ Put(p, "queued", {})
    /\ UNCHANGED <<row, phase, invites, answers, reminder, scan, told, starter, restarts>>

\* The interval finds an invitee who is due; the pass over its call waits for those
\* over the calls before it.
RetryTick ==
    /\ status \in Open
    /\ \E i \in retry \ sent : attempts[i] < MaxAttempts
    /\ \E p \in Passes : Free(pass, p) /\ Put(p, "queued", {})
    /\ UNCHANGED <<row, phase, invites, answers, reminder, scan, told, starter, restarts>>

\* The pass over the call begins, if its row still exists: everybody not invited
\* yet, due or not, whatever the call's status is by now.
BeginPass(p) ==
    /\ pass[p].stage = "queued"
    /\ LET unsent == IF status = "deleted" THEN {} ELSE Invitees \ sent
       IN  Put(p, IF unsent = {} THEN "idle" ELSE "loop", unsent)
    /\ UNCHANGED <<row, phase, invites, answers, reminder, scan, told, starter, restarts>>

\* The e-mail or the SMS to the next invitee is accepted, or both are refused.
Deliver(p) ==
    /\ pass[p].stage = "loop"
    /\ \/ /\ Put(p, "accepted", pass[p].todo)
          /\ told' = [told EXCEPT ![First(pass[p].todo)] = @ + 1]
       \/ /\ MayRefuse
          /\ Put(p, "refused", pass[p].todo)
          /\ UNCHANGED told
    /\ UNCHANGED <<row, phase, invites, answers, reminder, scan, starter, restarts>>

\* Mutant of MarkInviteSent: the last retry is never scheduled.
MarkInviteSentShort(i, failed) ==
    IF status = "deleted" THEN UNCHANGED invites
    ELSE IF failed
    THEN /\ attempts' = [attempts EXCEPT ![i] = @ + 1]
         /\ retry' = IF attempts[i] + 2 >= MaxAttempts THEN retry \ {i} ELSE retry \union {i}
         /\ UNCHANGED sent
    ELSE /\ sent' = sent \union {i} /\ retry' = retry \ {i}
         /\ UNCHANGED attempts

\* markInviteSent, on a row that may be gone.
MarkInviteSent(i, failed) ==
    IF status = "deleted" THEN UNCHANGED invites
    ELSE IF failed
    THEN /\ attempts' = [attempts EXCEPT ![i] = @ + 1]
         /\ retry' = IF attempts[i] + 1 >= MaxAttempts THEN retry \ {i} ELSE retry \union {i}
         /\ UNCHANGED sent
    ELSE /\ sent' = sent \union {i} /\ retry' = retry \ {i}
         /\ UNCHANGED attempts

\* The pass marks the invitee and goes on to the next.
Mark(p) ==
    /\ pass[p].stage \in {"accepted", "refused"}
    /\ LET i == First(pass[p].todo)
           rest == pass[p].todo \ {i}
       IN  /\ MarkInviteSent(i, pass[p].stage = "refused")
           /\ Put(p, IF rest = {} THEN "idle" ELSE "loop", rest)
    /\ UNCHANGED <<row, phase, answers, reminder, scan, told, starter, restarts>>

-----------------------------------------------------------------------------
(* Reminders *)

\* What is owed to those who have not declined, by the marks on their rows.
Owed(now) ==
    {d \in Duties \ reminded :
       /\ d[1] \notin declined
       /\ IF d[1] \in AppUsers THEN d[2] # Outside /\ (d[2] = Start => now >= 3)
          ELSE d[2] = Outside /\ (d[1] \in Phones => now >= 2)}

LastDuty(i) == <<i, IF i \in AppUsers THEN Start ELSE Outside>>

\* Mutant of AllDone: any mark counts, the one of a quarter of an hour before, too.
AnyDone == \A i \in Invitees : i \in declined \/ \E d \in reminded : d[1] = i

AllDone == \A i \in Invitees : i \in declined \/ LastDuty(i) \in reminded

\* A scan looks at the clock and at every row before its first send.
RemindTick ==
    /\ \E s \in Scans :
          /\ Free(scan, s)
          /\ scan' = [scan EXCEPT ![s] =
                IF status = "scheduled" /\ phase \in 1..4
                THEN [stage |-> "loop", now |-> phase, todo |-> Owed(phase), done |-> AllDone]
                ELSE [stage |-> "swept", now |-> phase, todo |-> {}, done |-> FALSE]]
    /\ UNCHANGED <<row, phase, invites, answers, reminder, pass, told, starter, restarts>>

\* The next reminder goes out; an e-mail-only invitee's is not sent at all.
Warn(s) ==
    /\ scan[s].stage = "loop" /\ scan[s].todo # {}
    /\ LET d == FirstDuty(scan[s].todo)
       IN  reached' = IF d[2] = Start \/ d[1] \in Phones
                      THEN reached \union {d[1]} ELSE reached
    /\ scan' = [scan EXCEPT ![s].stage = "sent"]
    /\ UNCHANGED <<row, phase, invites, answers, reminded, pass, told, starter, restarts>>

MarkReminder(s) ==
    /\ scan[s].stage = "sent"
    /\ LET d == FirstDuty(scan[s].todo)
       IN  /\ reminded' = reminded \union (IF status = "deleted" THEN {} ELSE {d})
           /\ scan' = [scan EXCEPT ![s].stage = "loop", ![s].todo = @ \ {d}]
    /\ UNCHANGED <<row, phase, invites, answers, reached, pass, told, starter, restarts>>

\* The call itself is marked when the rows the scan read were all done.
MarkCall(s) ==
    /\ scan[s].stage = "loop" /\ scan[s].todo = {}
    /\ announced' = (announced \/ (scan[s].done /\ status # "deleted"))
    /\ scan' = [scan EXCEPT ![s].stage = "swept"]
    /\ UNCHANGED <<status, meetingOn, phase, invites, answers, reminder, pass, told, starter,
                   restarts>>

\* Mutant of Settle: the status is not read again.
SettleBlindly(s) ==
    /\ scan[s].stage = "swept"
    /\ status' = CASE scan[s].now = 6 -> "ended"
                   [] scan[s].now \in 4..5 -> "started"
                   [] OTHER -> status
    /\ scan' = [scan EXCEPT ![s] = IdleScan]
    /\ UNCHANGED <<announced, meetingOn, phase, invites, answers, reminder, pass, told,
                   starter, restarts>>

\* Mutant of Settle: only calls that never started are ended.
SettleUnstarted(s) ==
    /\ scan[s].stage = "swept"
    /\ status' = CASE status = "scheduled" /\ scan[s].now = 6 -> "ended"
                   [] status = "scheduled" /\ scan[s].now \in 4..5 -> "started"
                   [] OTHER -> status
    /\ scan' = [scan EXCEPT ![s] = IdleScan]
    /\ UNCHANGED <<announced, meetingOn, phase, invites, answers, reminder, pass, told,
                   starter, restarts>>

\* The end of a scan: calls whose start has passed are started, calls an hour past
\* their end are ended, by the clock of the scan's beginning and today's status.
Settle(s) ==
    /\ scan[s].stage = "swept"
    /\ status' = CASE status \in Open /\ scan[s].now = 6 -> "ended"
                   [] status = "scheduled" /\ scan[s].now \in 4..5 -> "started"
                   [] OTHER -> status
    /\ scan' = [scan EXCEPT ![s] = IdleScan]
    /\ UNCHANGED <<announced, meetingOn, phase, invites, answers, reminder, pass, told,
                   starter, restarts>>

-----------------------------------------------------------------------------
(* People, the clock, and the process *)

\* notifyInviteesMeetingStarted: the invitees with an account are told, unless the
\* call's reminder mark says that they were.
StartNotice(m) ==
    IF status \in Open /\ ~announced
    THEN /\ status' = "started" /\ announced' = TRUE
         /\ reached' = reached \union (AppUsers \ {m})
         /\ starter' = {m}
    ELSE UNCHANGED <<status, announced, reached, starter>>

\* The member's join that takes the meeting out of "scheduled" gives the notice.
MemberJoins(m) ==
    /\ ~meetingOn /\ meetingOn' = TRUE
    /\ StartNotice(m)
    /\ UNCHANGED <<phase, invites, answers, reminded, pass, scan, told, restarts>>

\* A guest's join activates the meeting, too, and tells nobody.
GuestJoins ==
    /\ ~meetingOn /\ meetingOn' = TRUE
    /\ UNCHANGED <<status, announced, phase, invites, answers, reminder, pass, scan, told,
                   starter, restarts>>

\* An answer in the app, by SMS or by a link, whatever the call's status.
Rsvp(i, no) ==
    /\ status # "deleted" /\ replies < MaxReplies
    /\ declined' = IF no THEN declined \union {i} ELSE declined \ {i}
    /\ excused' = excused \union declined'
    /\ replies' = replies + 1
    /\ UNCHANGED <<row, phase, invites, reminder, pass, scan, told, starter, restarts>>

\* The organizer or an admin cancels, even what has ended; passes go on.
Cancel ==
    /\ status # "deleted"
    /\ status' = "cancelled"
    /\ UNCHANGED <<announced, meetingOn, phase, invites, answers, reminder, pass, scan,
                   told, starter, restarts>>

Delete ==
    /\ status # "deleted"
    /\ status' = "deleted"
    /\ UNCHANGED <<announced, meetingOn, phase, invites, answers, reminder, pass, scan,
                   told, starter, restarts>>

Advance ==
    /\ phase < LastPhase
    /\ phase' = phase + 1
    /\ UNCHANGED <<row, invites, answers, reminder, pass, scan, told, starter, restarts>>

\* The rows survive; passes and scans do not.
Restart ==
    /\ restarts < MaxRestarts
    /\ pass' = [p \in Passes |-> IdlePass]
    /\ scan' = [s \in Scans |-> IdleScan]
    /\ restarts' = restarts + 1
    /\ UNCHANGED <<row, phase, invites, answers, reminder, told, starter>>

PassStep(p) == BeginPass(p) \/ Deliver(p) \/ Mark(p)
ScanStep(s) == Warn(s) \/ MarkReminder(s) \/ MarkCall(s) \/ Settle(s)

Next == \/ RetryTick \/ RemindTick
        \/ \E p \in Passes : PassStep(p)
        \/ \E s \in Scans : ScanStep(s)
        \/ \E m \in Members : MemberJoins(m)
        \/ GuestJoins
        \/ \E i \in Invitees, no \in BOOLEAN : Rsvp(i, no)
        \/ Cancel \/ Delete \/ Advance \/ Restart

Spec == Init /\ [][Next]_vars

-----------------------------------------------------------------------------
(* Properties *)

\* Types; a pass has somebody to do exactly while it is in its loop.
TypeOK ==
    /\ status \in Open \union {"ended", "cancelled", "deleted"}
    /\ announced \in BOOLEAN /\ meetingOn \in BOOLEAN /\ phase \in Phases
    /\ sent \subseteq Invitees /\ attempts \in [Invitees -> Nat] /\ retry \subseteq Invitees
    /\ declined \subseteq Invitees /\ reminded \subseteq Duties
    /\ pass \in [Passes -> PassType]
    /\ \A p \in Passes : pass[p].todo = {} <=> pass[p].stage \in {"idle", "queued"}
    /\ scan \in [Scans -> ScanType]
    /\ \A s \in Scans : scan[s].stage = "sent" => scan[s].todo # {}
    /\ told \in [Invitees -> Nat] /\ reached \subseteq Invitees
    /\ excused \subseteq Invitees /\ starter \subseteq Members
    /\ replies \in Nat /\ restarts \in Nat

\* While the process stays up no invitee is forgotten: whoever was not invited is
\* still on some pass's list, is due for a retry, or has had every attempt.
NobodyForgotten ==
    (restarts = 0 /\ status # "deleted") =>
       \A i \in Invitees \ sent :
          \/ i \in retry \/ attempts[i] >= MaxAttempts
          \/ \E p \in Passes : i \in pass[p].todo

\* The call's reminder mark suppresses the start notice, so it is set only when every
\* app user has had the notice or an at-start reminder, joined first, or said no.
MarkedMeansTold ==
    announced => AppUsers \subseteq reached \union excused \union starter

\* A call that is over is never opened again by a scan, a join or a late handler.
ClosedForGood == [][status \notin Open => status' \notin Open]_vars

\* Nobody is invited twice.
InvitedOnce == \A i \in Invitees : told[i] <= 1

-----------------------------------------------------------------------------
(* Progress.  The interval ticks, the providers answer, time passes; people  *)
(* do nothing they have to.                                                  *)

Fairness ==
    /\ WF_vars(RetryTick) /\ WF_vars(RemindTick) /\ WF_vars(Advance)
    /\ \A p \in Passes : WF_vars(PassStep(p))
    /\ \A s \in Scans : WF_vars(ScanStep(s))

FairSpec == Spec /\ Fairness

\* Every invitee of an open call is invited, or has had every attempt.
InviteesAreSettled ==
    \A i \in Invitees :
       (status \in Open /\ i \notin sent)
          ~> (i \in sent \/ attempts[i] >= MaxAttempts \/ status \notin Open)

\* Every call comes to its end, whoever starts it or never joins.
CallsEnd == <>(status \notin Open)

=============================================================================
