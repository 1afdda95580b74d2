------------------------- MODULE ScheduledCallProofs -------------------------
(***************************************************************************)
(* For every roster, number of attempts, of overlapping passes and scans,  *)
(* of replies and restarts: types, no invitee is forgotten while the       *)
(* process stays up, and the reminder mark of a call means that its app    *)
(* users were told.                                                        *)
(***************************************************************************)
EXTENDS ScheduledCall, TLAPS, WellFoundedInduction

\* A start reminder is marked, or about to be marked, only after it was sent.
MarkedIsSent ==
    /\ \A i \in AppUsers : <<i, Start>> \in reminded => i \in reached
    /\ \A s \in Scans : scan[s].stage = "sent" =>
          LET d == FirstDuty(scan[s].todo) IN d[2] = Start => d[1] \in reached

\* A scan that found all rows done found all app users told or declined.
DoneIsTold ==
    /\ declined \subseteq excused
    /\ \A s \in Scans : scan[s].done => AppUsers \subseteq reached \union excused

\* The inductive invariant.
IInv == TypeOK /\ NobodyForgotten /\ MarkedIsSent /\ DoneIsTold /\ MarkedMeansTold

-----------------------------------------------------------------------------
(* The next invitee, and the next reminder, exist *)

\* A set of naturals that has an element has a least one.
LEMMA LeastExists ==
    ASSUME NEW T, T \subseteq Nat, T # {}
    PROVE  \E x \in T : \A y \in T : x <= y
<1> DEFINE R == OpToRel(<, Nat)
<1>1. IsWellFoundedOn(R, Nat)
  BY NatLessThanWellFounded
<1>2. \A a, b \in Nat : a < b => <<a, b>> \in R
  BY DEF OpToRel
<1> HIDE DEF R
<1>3. PICK x \in T : \A y \in T : ~ (<<y, x>> \in R)
  BY <1>1, WFMin
<1>4. ASSUME NEW y \in T
      PROVE  x <= y
  <2>1. x \in Nat /\ y \in Nat
    OBVIOUS
  <2>2. ~(y < x)
    BY <1>2, <1>3, <2>1
  <2>3. QED BY <2>1, <2>2
<1>5. QED BY <1>4

\* A pass that has somebody to do does one of them next.
LEMMA FirstIsIn ==
    ASSUME NEW S, S \subseteq Invitees, S # {}
    PROVE  First(S) \in S
<1>1. \E i \in S : \A j \in S : i <= j
  BY LeastExists, CallAssumption
<1>2. QED BY <1>1 DEF First

\* A scan that has something to send sends one of its duties next.
LEMMA FirstDutyIsIn ==
    ASSUME NEW D, D \subseteq Duties, D # {}
    PROVE  FirstDuty(D) \in D
<1>1. ASSUME NEW d \in D
      PROVE  Place(d) \in Nat
  <2>1. PICK i \in Invitees, k \in {Quarter, Start, Outside} : d = <<i, k>>
    BY DEF Duties
  <2>2. i \in Nat
    BY CallAssumption
  <2>3. k \in Nat
    BY DEF Quarter, Start, Outside
  <2>4. QED BY <2>1, <2>2, <2>3 DEF Place
<1> DEFINE T == {Place(d) : d \in D}
<1>2. T \subseteq Nat /\ T # {}
  BY <1>1
<1>3. PICK x \in T : \A y \in T : x <= y
  BY <1>2, LeastExists
<1>4. PICK d \in D : x = Place(d)
  OBVIOUS
<1>5. \A e \in D : Place(d) <= Place(e)
  BY <1>3, <1>4
<1>6. QED BY <1>5 DEF FirstDuty

-----------------------------------------------------------------------------
(* Types *)

\* What a pass is set to has its type, if somebody is on its list exactly in its loop.
LEMMA PutIsTyped ==
    ASSUME TypeOK, NEW p \in Passes, NEW stage, NEW todo \in SUBSET Invitees,
           stage \in {"idle", "queued", "loop", "accepted", "refused"},
           todo = {} <=> stage \in {"idle", "queued"},
           Put(p, stage, todo)
    PROVE  /\ pass' \in [Passes -> PassType]
           /\ \A q \in Passes : pass'[q].todo = {} <=> pass'[q].stage \in {"idle", "queued"}
<1>1. pass \in [Passes -> PassType]
  BY DEF TypeOK
<1>2. [stage |-> stage, todo |-> todo] \in PassType
  BY DEF PassType
<1>3. pass' \in [Passes -> PassType]
  BY <1>1, <1>2 DEF Put
<1>4. \A q \in Passes : pass'[q] = IF q = p THEN [stage |-> stage, todo |-> todo] ELSE pass[q]
  BY <1>1 DEF Put
<1>5. ASSUME NEW q \in Passes
      PROVE  pass'[q].todo = {} <=> pass'[q].stage \in {"idle", "queued"}
  <2>1. CASE q = p
    BY <1>4, <2>1
  <2>2. CASE q # p
    BY <1>4, <2>2 DEF TypeOK
  <2>3. QED BY <2>1, <2>2
<1>6. QED BY <1>3, <1>5

\* The invitee a pass is about to mark, and the reminder a scan is about to.
LEMMA NextOfPass ==
    ASSUME TypeOK, NEW p \in Passes, pass[p].stage \in {"loop", "accepted", "refused"}
    PROVE  /\ pass[p] \in PassType /\ pass[p].todo # {}
           /\ First(pass[p].todo) \in pass[p].todo
           /\ First(pass[p].todo) \in Invitees
<1>1. pass[p] \in PassType /\ pass[p].todo # {}
  BY DEF TypeOK
<1>2. pass[p].todo \subseteq Invitees
  BY <1>1 DEF PassType
<1>3. QED BY <1>1, <1>2, FirstIsIn

LEMMA NextOfScan ==
    ASSUME TypeOK, NEW s \in Scans, scan[s].todo # {}
    PROVE  /\ scan[s] \in ScanType
           /\ FirstDuty(scan[s].todo) \in scan[s].todo
           /\ FirstDuty(scan[s].todo) \in Duties
<1>1. scan[s] \in ScanType
  BY DEF TypeOK
<1>2. scan[s].todo \subseteq Duties
  BY <1>1 DEF ScanType
<1>3. QED BY <1>1, <1>2, FirstDutyIsIn

\* The invitation passes.
LEMMA PassKeepsTypes ==
    ASSUME TypeOK, NEW p \in Passes, PassStep(p)
    PROVE  TypeOK'
<1>1. CASE BeginPass(p)
  <2> DEFINE unsent == IF status = "deleted" THEN {} ELSE Invitees \ sent
  <2>1. unsent \in SUBSET Invitees
    OBVIOUS
  <2>2. Put(p, IF unsent = {} THEN "idle" ELSE "loop", unsent)
    BY <1>1 DEF BeginPass
  <2>3. /\ pass' \in [Passes -> PassType]
        /\ \A q \in Passes : pass'[q].todo = {} <=> pass'[q].stage \in {"idle", "queued"}
    <3> HIDE DEF unsent
    <3>1. CASE unsent = {}
      BY <2>1, <2>2, <3>1, PutIsTyped
    <3>2. CASE unsent # {}
      BY <2>1, <2>2, <3>2, PutIsTyped
    <3>3. QED BY <3>1, <3>2
  <2>4. QED BY <1>1, <2>3 DEF BeginPass, TypeOK, row, invites, answers, reminder
<1>2. CASE Deliver(p)
  <2>1. /\ pass[p] \in PassType /\ pass[p].todo # {}
        /\ First(pass[p].todo) \in Invitees
    BY <1>2, NextOfPass DEF Deliver
  <2>2. pass[p].todo \in SUBSET Invitees
    BY <2>1 DEF PassType
  <2>3. PICK stage \in {"accepted", "refused"} : Put(p, stage, pass[p].todo)
    BY <1>2 DEF Deliver
  <2>4. /\ pass' \in [Passes -> PassType]
        /\ \A q \in Passes : pass'[q].todo = {} <=> pass'[q].stage \in {"idle", "queued"}
    BY <2>1, <2>2, <2>3, PutIsTyped
  <2>5. told' \in [Invitees -> Nat]
    <3>1. told \in [Invitees -> Nat]
      BY DEF TypeOK
    <3>2. \/ told' = told
          \/ told' = [told EXCEPT ![First(pass[p].todo)] = @ + 1]
      BY <1>2 DEF Deliver
    <3>3. told[First(pass[p].todo)] + 1 \in Nat
      BY <2>1, <3>1
    <3>4. QED BY <3>1, <3>2, <3>3
  <2>6. QED BY <1>2, <2>4, <2>5 DEF Deliver, TypeOK, row, invites, answers, reminder
<1>3. CASE Mark(p)
  <2> DEFINE i == First(pass[p].todo)
             rest == pass[p].todo \ {i}
  <2>1. pass[p] \in PassType /\ i \in Invitees
    BY <1>3, NextOfPass DEF Mark
  <2>2. rest \in SUBSET Invitees
    BY <2>1 DEF PassType
  <2>3. /\ Put(p, IF rest = {} THEN "idle" ELSE "loop", rest)
        /\ MarkInviteSent(i, pass[p].stage = "refused")
    BY <1>3 DEF Mark
  <2> HIDE DEF i, rest
  <2>4. /\ pass' \in [Passes -> PassType]
        /\ \A q \in Passes : pass'[q].todo = {} <=> pass'[q].stage \in {"idle", "queued"}
    <3>1. CASE rest = {}
      BY <2>2, <2>3, <3>1, PutIsTyped
    <3>2. CASE rest # {}
      BY <2>2, <2>3, <3>2, PutIsTyped
    <3>3. QED BY <3>1, <3>2
  <2>5. sent' \subseteq Invitees /\ retry' \subseteq Invitees
    BY <2>1, <2>3 DEF MarkInviteSent, TypeOK, invites
  <2>6. attempts' \in [Invitees -> Nat]
    <3>1. attempts \in [Invitees -> Nat] /\ attempts[i] + 1 \in Nat
      BY <2>1 DEF TypeOK
    <3>2. attempts' = attempts \/ attempts' = [attempts EXCEPT ![i] = @ + 1]
      BY <2>3 DEF MarkInviteSent, invites
    <3>3. QED BY <3>1, <3>2
  <2>7. QED BY <1>3, <2>4, <2>5, <2>6 DEF Mark, TypeOK, row, answers, reminder
<1>4. QED BY <1>1, <1>2, <1>3 DEF PassStep

\* A scan set to a value of its type.
LEMMA ScanIsTyped ==
    ASSUME TypeOK, NEW s \in Scans, NEW r \in ScanType,
           r.stage = "sent" => r.todo # {}, scan' = [scan EXCEPT ![s] = r]
    PROVE  /\ scan' \in [Scans -> ScanType]
           /\ \A z \in Scans : scan'[z].stage = "sent" => scan'[z].todo # {}
<1>1. scan \in [Scans -> ScanType]
  BY DEF TypeOK
<1>2. \A z \in Scans : scan'[z] = IF z = s THEN r ELSE scan[z]
  BY <1>1
<1>3. QED BY <1>1, <1>2 DEF TypeOK

\* The reminder scans.
LEMMA ScanKeepsTypes ==
    ASSUME TypeOK, NEW s \in Scans, ScanStep(s)
    PROVE  TypeOK'
<1>0. scan \in [Scans -> ScanType] /\ scan[s] \in ScanType
  BY DEF TypeOK
<1>1. CASE Warn(s)
  <2> DEFINE r == [scan[s] EXCEPT !.stage = "sent"]
             d == FirstDuty(scan[s].todo)
  <2>1. r \in ScanType /\ r.todo # {} /\ scan' = [scan EXCEPT ![s] = r]
    BY <1>0, <1>1 DEF Warn, ScanType
  <2>2. d \in Duties
    BY <1>1, NextOfScan DEF Warn
  <2>3. d[1] \in Invitees
    BY <2>2 DEF Duties
  <2>4. reached' \subseteq Invitees
    BY <1>1, <2>3 DEF Warn, TypeOK
  <2>5. QED BY <1>1, <2>1, <2>4, ScanIsTyped DEF Warn, TypeOK, row, invites, answers
<1>2. CASE MarkReminder(s)
  <2> DEFINE d == FirstDuty(scan[s].todo)
             r == [scan[s] EXCEPT !.stage = "loop", !.todo = scan[s].todo \ {d}]
  <2>1. r \in ScanType /\ r.stage # "sent"
    BY <1>0 DEF ScanType
  <2>2. scan' = [scan EXCEPT ![s] = r]
    BY <1>0, <1>2 DEF MarkReminder, ScanType
  <2>3. d \in Duties
    BY <1>2, NextOfScan DEF MarkReminder, TypeOK
  <2>4. reminded' \subseteq Duties
    BY <1>2, <2>3 DEF MarkReminder, TypeOK
  <2> HIDE DEF r
  <2>5. QED BY <1>2, <2>1, <2>2, <2>4, ScanIsTyped
            DEF MarkReminder, TypeOK, row, invites, answers
<1>3. CASE MarkCall(s)
  <2> DEFINE r == [scan[s] EXCEPT !.stage = "swept"]
  <2>1. r \in ScanType /\ r.stage # "sent" /\ scan' = [scan EXCEPT ![s] = r]
    BY <1>0, <1>3 DEF MarkCall, ScanType
  <2>2. announced' \in BOOLEAN
    BY <1>3 DEF MarkCall
  <2>3. QED BY <1>3, <2>1, <2>2, ScanIsTyped DEF MarkCall, TypeOK, invites, answers, reminder
<1>4. CASE Settle(s)
  <2>1. IdleScan \in ScanType /\ IdleScan.stage # "sent"
    BY DEF IdleScan, ScanType, Phases
  <2>2. status' \in Open \union {"ended", "cancelled", "deleted"}
    BY <1>4 DEF Settle, TypeOK, Open
  <2>3. QED BY <1>4, <2>1, <2>2, ScanIsTyped DEF Settle, TypeOK, invites, answers, reminder
<1>5. QED BY <1>1, <1>2, <1>3, <1>4 DEF ScanStep

\* The interval starts a pass or a scan.
LEMMA TickKeepsTypes ==
    ASSUME TypeOK, RetryTick \/ RemindTick
    PROVE  TypeOK'
<1>1. CASE RetryTick
  <2>1. PICK p \in Passes : Put(p, "queued", {})
    BY <1>1 DEF RetryTick
  <2>2. /\ pass' \in [Passes -> PassType]
        /\ \A q \in Passes : pass'[q].todo = {} <=> pass'[q].stage \in {"idle", "queued"}
    BY <2>1, PutIsTyped
  <2>3. QED BY <1>1, <2>2 DEF RetryTick, TypeOK, row, invites, answers, reminder
<1>2. CASE RemindTick
  <2> DEFINE r == IF status = "scheduled" /\ phase \in 1..4
                  THEN [stage |-> "loop", now |-> phase, todo |-> Owed(phase),
                        done |-> AllDone]
                  ELSE [stage |-> "swept", now |-> phase, todo |-> {}, done |-> FALSE]
  <2>1. phase \in Phases /\ Owed(phase) \subseteq Duties /\ AllDone \in BOOLEAN
    BY DEF TypeOK, Owed, AllDone
  <2>2. r \in ScanType /\ r.stage # "sent"
    BY <2>1 DEF ScanType
  <2>3. PICK s \in Scans : scan' = [scan EXCEPT ![s] = r]
    BY <1>2 DEF RemindTick
  <2> HIDE DEF r
  <2>4. /\ scan' \in [Scans -> ScanType]
        /\ \A z \in Scans : scan'[z].stage = "sent" => scan'[z].todo # {}
    BY <2>2, <2>3, ScanIsTyped
  <2>5. QED BY <1>2, <2>4 DEF RemindTick, TypeOK, row, invites, answers, reminder
<1>3. QED BY <1>1, <1>2

\* Joins, answers, cancel, delete, the clock, a restart.
PeopleStep == \/ \E m \in Members : MemberJoins(m)
              \/ GuestJoins
              \/ \E i \in Invitees, no \in BOOLEAN : Rsvp(i, no)
              \/ Cancel \/ Delete \/ Advance \/ Restart

LEMMA PeopleKeepTypes ==
    ASSUME TypeOK, PeopleStep
    PROVE  TypeOK'
<1>1. CASE \E m \in Members : MemberJoins(m)
  <2>1. PICK m \in Members : MemberJoins(m)
    BY <1>1
  <2>2. /\ status' \in Open \union {"ended", "cancelled", "deleted"}
        /\ announced' \in BOOLEAN /\ meetingOn' \in BOOLEAN
        /\ reached' \subseteq Invitees /\ starter' \subseteq Members
    BY <2>1, CallAssumption DEF MemberJoins, StartNotice, TypeOK, Open
  <2>3. QED BY <2>1, <2>2 DEF MemberJoins, TypeOK, invites, answers
<1>2. CASE GuestJoins
  BY <1>2 DEF GuestJoins, TypeOK, invites, answers, reminder
<1>3. CASE \E i \in Invitees, no \in BOOLEAN : Rsvp(i, no)
  BY <1>3 DEF Rsvp, TypeOK, row, invites, reminder
<1>4. CASE Cancel
  BY <1>4 DEF Cancel, TypeOK, invites, answers, reminder
<1>5. CASE Delete
  BY <1>5 DEF Delete, TypeOK, invites, answers, reminder
<1>6. CASE Advance
  <2>1. phase' \in Phases
    BY <1>6, PhaseAssumption DEF Advance, TypeOK, Phases
  <2>2. QED BY <1>6, <2>1 DEF Advance, TypeOK, row, invites, answers, reminder
<1>7. CASE Restart
  <2>1. /\ IdlePass \in PassType /\ IdlePass.todo = {} /\ IdlePass.stage = "idle"
        /\ IdleScan \in ScanType /\ IdleScan.stage # "sent"
    BY DEF IdlePass, PassType, IdleScan, ScanType, Phases
  <2>2. /\ pass' \in [Passes -> PassType]
        /\ \A q \in Passes : pass'[q].todo = {} <=> pass'[q].stage \in {"idle", "queued"}
        /\ scan' \in [Scans -> ScanType]
        /\ \A z \in Scans : scan'[z].stage = "sent" => scan'[z].todo # {}
    BY <1>7, <2>1 DEF Restart
  <2>3. QED BY <1>7, <2>2 DEF Restart, TypeOK, row, invites, answers, reminder
<1>8. QED BY <1>1, <1>2, <1>3, <1>4, <1>5, <1>6, <1>7 DEF PeopleStep

\* The steps of Next, by kind.
LEMMA NextIsAStep ==
    ASSUME Next
    PROVE  \/ RetryTick \/ RemindTick \/ PeopleStep
           \/ \E p \in Passes : PassStep(p)
           \/ \E s \in Scans : ScanStep(s)
BY DEF Next, PeopleStep

-----------------------------------------------------------------------------
(* Nobody is forgotten *)

\* A pass keeps on its list whoever it has not marked; a refusal that is not the
\* last leaves the invitee due.
LEMMA PassForgetsNobody ==
    ASSUME TypeOK, NobodyForgotten, NEW p \in Passes, PassStep(p)
    PROVE  NobodyForgotten'
<1>0. pass \in [Passes -> PassType]
  BY DEF TypeOK
<1> SUFFICES ASSUME restarts' = 0, status' # "deleted", NEW j \in Invitees \ sent'
             PROVE  \/ j \in retry' \/ attempts'[j] >= MaxAttempts
                    \/ \E q \in Passes : j \in pass'[q].todo
  BY DEF NobodyForgotten
<1>1. CASE BeginPass(p)
  <2>1. pass[p].todo = {} /\ j \notin sent /\ restarts = 0 /\ status # "deleted"
    BY <1>1 DEF BeginPass, TypeOK, row, invites
  <2>2. pass'[p].todo = Invitees \ sent
    BY <1>0, <1>1, <2>1 DEF BeginPass, Put
  <2>3. QED BY <2>1, <2>2
<1>2. CASE Deliver(p)
  <2>1. /\ j \notin sent /\ restarts = 0 /\ status # "deleted"
        /\ retry' = retry /\ attempts' = attempts
    BY <1>2 DEF Deliver, row, invites
  <2>2. \A q \in Passes : pass'[q].todo = pass[q].todo
    BY <1>0, <1>2 DEF Deliver, Put
  <2>3. QED BY <2>1, <2>2 DEF NobodyForgotten
<1>3. CASE Mark(p)
  <2> DEFINE i == First(pass[p].todo)
  <2>1. /\ MarkInviteSent(i, pass[p].stage = "refused")
        /\ restarts = 0 /\ status # "deleted" /\ i \in Invitees
    BY <1>3, NextOfPass DEF Mark, row
  <2>2. \A q \in Passes : pass[q].todo \ {i} \subseteq pass'[q].todo
    BY <1>0, <1>3 DEF Mark, Put
  <2> HIDE DEF i
  <2>3. attempts \in [Invitees -> Nat] /\ MaxAttempts \in Nat
    BY CallAssumption DEF TypeOK
  <2>4. j \notin sent
    BY <2>1 DEF MarkInviteSent
  <2>5. CASE j = i
    BY <2>1, <2>3, <2>5 DEF MarkInviteSent
  <2>6. CASE j # i
    <3>1. \/ j \in retry \/ attempts[j] >= MaxAttempts
          \/ \E q \in Passes : j \in pass[q].todo
      BY <2>1, <2>4 DEF NobodyForgotten
    <3>2. j \in retry => j \in retry'
      BY <2>1, <2>6 DEF MarkInviteSent
    <3>3. attempts'[j] = attempts[j]
      BY <2>1, <2>3, <2>6 DEF MarkInviteSent
    <3>4. QED BY <2>2, <2>6, <3>1, <3>2, <3>3
  <2>7. QED BY <2>5, <2>6
<1>4. QED BY <1>1, <1>2, <1>3 DEF PassStep

\* The interval starts a pass in a slot whose list is empty, or starts a scan.
LEMMA TickForgetsNobody ==
    ASSUME TypeOK, NobodyForgotten, RetryTick \/ RemindTick
    PROVE  NobodyForgotten'
<1>0. pass \in [Passes -> PassType]
  BY DEF TypeOK
<1>1. CASE RetryTick
  <2>1. PICK p \in Passes : Free(pass, p) /\ Put(p, "queued", {})
    BY <1>1 DEF RetryTick
  <2>2. pass[p].todo = {}
    BY <2>1 DEF Free, TypeOK
  <2>3. \A q \in Passes : pass'[q].todo = pass[q].todo
    BY <1>0, <2>1, <2>2 DEF Put
  <2>4. status' = status /\ restarts' = restarts /\ UNCHANGED invites
    BY <1>1 DEF RetryTick, row
  <2>5. QED BY <2>3, <2>4 DEF NobodyForgotten, invites
<1>2. CASE RemindTick
  BY <1>2 DEF RemindTick, NobodyForgotten, row, invites
<1>3. QED BY <1>1, <1>2

\* Scans leave invitations alone, and bring no deleted row back.
LEMMA ScanForgetsNobody ==
    ASSUME TypeOK, NobodyForgotten, NEW s \in Scans, ScanStep(s)
    PROVE  NobodyForgotten'
<1>1. UNCHANGED <<invites, pass, restarts>>
  BY DEF ScanStep, Warn, MarkReminder, MarkCall, Settle
<1>2. status' # "deleted" => status # "deleted"
  BY DEF ScanStep, Warn, MarkReminder, MarkCall, Settle, row, Open
<1>3. QED BY <1>1, <1>2 DEF NobodyForgotten, invites

\* People do, too; a restart is the exception that the invariant makes.
LEMMA PeopleForgetNobody ==
    ASSUME TypeOK, NobodyForgotten, PeopleStep
    PROVE  NobodyForgotten'
<1>1. CASE Restart
  <2>1. restarts' # 0
    BY <1>1 DEF Restart, TypeOK
  <2>2. QED BY <2>1 DEF NobodyForgotten
<1>2. CASE Delete
  BY <1>2 DEF Delete, NobodyForgotten
<1>3. CASE ~ Restart /\ ~ Delete
  <2>1. UNCHANGED <<invites, pass, restarts>>
    BY <1>3 DEF PeopleStep, MemberJoins, GuestJoins, Rsvp, Cancel, Advance
  <2>2. status' # "deleted" => status # "deleted"
    BY <1>3 DEF PeopleStep, MemberJoins, StartNotice, GuestJoins, Rsvp, Cancel, Advance,
                row, Open
  <2>3. QED BY <2>1, <2>2 DEF NobodyForgotten, invites
<1>4. QED BY <1>1, <1>2, <1>3

-----------------------------------------------------------------------------
(* The mark is honest *)

Honest == MarkedIsSent /\ DoneIsTold /\ MarkedMeansTold

\* What a scan sends it marks afterwards, and the call only when all was done.
LEMMA ScanIsHonest ==
    ASSUME TypeOK, Honest, NEW s \in Scans, ScanStep(s)
    PROVE  Honest'
<1>0. scan \in [Scans -> ScanType] /\ scan[s] \in ScanType
  BY DEF TypeOK
<1>1. CASE Warn(s)
  <2> DEFINE d == FirstDuty(scan[s].todo)
  <2>1. /\ scan' = [scan EXCEPT ![s].stage = "sent"]
        /\ reached \subseteq reached' /\ (d[2] = Start => d[1] \in reached')
    BY <1>1 DEF Warn
  <2>2. \A z \in Scans : /\ scan'[z].todo = scan[z].todo /\ scan'[z].done = scan[z].done
                         /\ z # s => scan'[z] = scan[z]
    BY <1>0, <2>1 DEF ScanType
  <2>3. UNCHANGED <<reminded, declined, excused, announced, starter>>
    BY <1>1 DEF Warn, row, answers
  <2>4. ASSUME NEW z \in Scans, scan'[z].stage = "sent", FirstDuty(scan'[z].todo)[2] = Start
        PROVE  FirstDuty(scan'[z].todo)[1] \in reached'
    <3>1. CASE z = s
      BY <2>1, <2>2, <2>4, <3>1
    <3>2. CASE z # s
      BY <2>1, <2>2, <2>4, <3>2 DEF Honest, MarkedIsSent
    <3>3. QED BY <3>1, <3>2
  <2>5. MarkedIsSent'
    BY <2>1, <2>3, <2>4 DEF Honest, MarkedIsSent
  <2>6. DoneIsTold' /\ MarkedMeansTold'
    BY <2>1, <2>2, <2>3 DEF Honest, DoneIsTold, MarkedMeansTold
  <2>7. QED BY <2>5, <2>6 DEF Honest
<1>2. CASE MarkReminder(s)
  <2> DEFINE d == FirstDuty(scan[s].todo)
  <2>1. /\ scan[s].stage = "sent"
        /\ scan' = [scan EXCEPT ![s].stage = "loop", ![s].todo = @ \ {d}]
        /\ reminded' \subseteq reminded \union {d}
    BY <1>2 DEF MarkReminder
  <2>2. \A z \in Scans : /\ scan'[z].done = scan[z].done
                         /\ z # s => scan'[z] = scan[z]
                         /\ z = s => scan'[z].stage = "loop"
    BY <1>0, <2>1 DEF ScanType
  <2>3. UNCHANGED <<reached, declined, excused, announced, starter>>
    BY <1>2 DEF MarkReminder, row, answers
  <2>4. d[2] = Start => d[1] \in reached
    BY <2>1 DEF Honest, MarkedIsSent
  <2>5. MarkedIsSent'
    <3>1. ASSUME NEW i \in AppUsers, <<i, Start>> \in reminded'
          PROVE  i \in reached'
      <4>1. <<i, Start>> \in reminded \/ <<i, Start>> = d
        BY <2>1, <3>1
      <4>2. QED BY <2>3, <2>4, <4>1 DEF Honest, MarkedIsSent
    <3>2. ASSUME NEW z \in Scans, scan'[z].stage = "sent"
          PROVE  scan'[z] = scan[z]
      BY <2>2, <3>2
    <3>3. QED BY <2>3, <3>1, <3>2 DEF Honest, MarkedIsSent
  <2>6. DoneIsTold' /\ MarkedMeansTold'
    BY <2>2, <2>3 DEF Honest, DoneIsTold, MarkedMeansTold
  <2>7. QED BY <2>5, <2>6 DEF Honest
<1>3. CASE MarkCall(s)
  <2>1. scan' = [scan EXCEPT ![s].stage = "swept"]
    BY <1>3 DEF MarkCall
  <2>2. \A z \in Scans : /\ scan'[z].done = scan[z].done
                         /\ z # s => scan'[z] = scan[z]
                         /\ z = s => scan'[z].stage = "swept"
    BY <1>0, <2>1 DEF ScanType
  <2>3. UNCHANGED <<reached, reminded, declined, excused, starter>>
    BY <1>3 DEF MarkCall, answers, reminder
  <2>4. announced' => announced \/ scan[s].done
    BY <1>3 DEF MarkCall
  <2>5. MarkedIsSent'
    BY <2>2, <2>3 DEF Honest, MarkedIsSent
  <2>6. DoneIsTold' /\ MarkedMeansTold'
    BY <2>2, <2>3, <2>4 DEF Honest, DoneIsTold, MarkedMeansTold
  <2>7. QED BY <2>5, <2>6 DEF Honest
<1>4. CASE Settle(s)
  <2>1. scan' = [scan EXCEPT ![s] = IdleScan]
    BY <1>4 DEF Settle
  <2>2. \A z \in Scans : /\ z # s => scan'[z] = scan[z]
                         /\ z = s => scan'[z].stage = "idle" /\ scan'[z].done = FALSE
    BY <1>0, <2>1 DEF IdleScan
  <2>3. UNCHANGED <<reached, reminded, declined, excused, announced, starter>>
    BY <1>4 DEF Settle, answers, reminder
  <2>4. MarkedIsSent'
    BY <2>2, <2>3 DEF Honest, MarkedIsSent
  <2>5. DoneIsTold' /\ MarkedMeansTold'
    BY <2>2, <2>3 DEF Honest, DoneIsTold, MarkedMeansTold
  <2>6. QED BY <2>4, <2>5 DEF Honest
<1>5. QED BY <1>1, <1>2, <1>3, <1>4 DEF ScanStep

\* A scan that finds all rows done has the marks or the refusals to show for it.
LEMMA TickIsHonest ==
    ASSUME TypeOK, Honest, RetryTick \/ RemindTick
    PROVE  Honest'
<1>0. scan \in [Scans -> ScanType]
  BY DEF TypeOK
<1>1. CASE RetryTick
  <2>1. UNCHANGED <<scan, reached, reminded, declined, excused, announced, starter>>
    BY <1>1 DEF RetryTick, row, answers, reminder
  <2>2. QED BY <2>1 DEF Honest, MarkedIsSent, DoneIsTold, MarkedMeansTold
<1>2. CASE RemindTick
  <2>1. AllDone => AppUsers \subseteq reached \union excused
    <3> SUFFICES ASSUME AllDone, NEW i \in AppUsers
                 PROVE  i \in reached \union excused
      OBVIOUS
    <3>1. i \in declined \/ <<i, Start>> \in reminded
      BY CallAssumption DEF AllDone, LastDuty
    <3>2. QED BY <3>1 DEF Honest, MarkedIsSent, DoneIsTold
  <2> DEFINE r == IF status = "scheduled" /\ phase \in 1..4
                  THEN [stage |-> "loop", now |-> phase, todo |-> Owed(phase),
                        done |-> AllDone]
                  ELSE [stage |-> "swept", now |-> phase, todo |-> {}, done |-> FALSE]
  <2>2. r.stage # "sent" /\ (r.done => AllDone)
    OBVIOUS
  <2>3. PICK s \in Scans : scan' = [scan EXCEPT ![s] = r]
    BY <1>2 DEF RemindTick
  <2> HIDE DEF r
  <2>4. \A z \in Scans : /\ z # s => scan'[z] = scan[z]
                         /\ z = s => scan'[z] = r
    BY <1>0, <2>3
  <2>5. UNCHANGED <<reached, reminded, declined, excused, announced, starter>>
    BY <1>2 DEF RemindTick, row, answers, reminder
  <2>6. MarkedIsSent'
    BY <2>2, <2>4, <2>5 DEF Honest, MarkedIsSent
  <2>7. DoneIsTold' /\ MarkedMeansTold'
    BY <2>1, <2>2, <2>4, <2>5 DEF Honest, DoneIsTold, MarkedMeansTold
  <2>8. QED BY <2>6, <2>7 DEF Honest
<1>3. QED BY <1>1, <1>2

\* A join tells every app user but its member, who is the starter then.
LEMMA PeopleAreHonest ==
    ASSUME TypeOK, Honest, PeopleStep
    PROVE  Honest'
<1>1. CASE \E m \in Members : MemberJoins(m)
  <2>1. PICK m \in Members : MemberJoins(m)
    BY <1>1
  <2>2. UNCHANGED <<scan, reminded, declined, excused>> /\ reached \subseteq reached'
    BY <2>1 DEF MemberJoins, StartNotice, answers
  <2>3. MarkedIsSent' /\ DoneIsTold'
    BY <2>2 DEF Honest, MarkedIsSent, DoneIsTold
  <2>4. CASE status \in Open /\ ~announced
    <3>1. AppUsers \subseteq reached' \union starter'
      BY <2>1, <2>4 DEF MemberJoins, StartNotice
    <3>2. QED BY <2>3, <3>1 DEF Honest, MarkedMeansTold
  <2>5. CASE ~ (status \in Open /\ ~announced)
    <3>1. UNCHANGED <<announced, reached, starter>>
      BY <2>1, <2>5 DEF MemberJoins, StartNotice
    <3>2. QED BY <2>2, <2>3, <3>1 DEF Honest, MarkedMeansTold
  <2>6. QED BY <2>4, <2>5
<1>2. CASE \E i \in Invitees, no \in BOOLEAN : Rsvp(i, no)
  <2>1. /\ UNCHANGED <<scan, reminded, reached, announced, starter>>
        /\ excused \subseteq excused' /\ declined' \subseteq excused'
    BY <1>2 DEF Rsvp, row, reminder
  <2>2. QED BY <2>1 DEF Honest, MarkedIsSent, DoneIsTold, MarkedMeansTold
<1>3. CASE Restart
  <2>1. \A z \in Scans : scan'[z].stage # "sent" /\ scan'[z].done = FALSE
    BY <1>3 DEF Restart, IdleScan
  <2>2. UNCHANGED <<reminded, reached, announced, starter, declined, excused>>
    BY <1>3 DEF Restart, row, answers, reminder
  <2>3. QED BY <2>1, <2>2 DEF Honest, MarkedIsSent, DoneIsTold, MarkedMeansTold
<1>4. CASE GuestJoins \/ Cancel \/ Delete \/ Advance
  <2>1. UNCHANGED <<scan, reminded, reached, announced, starter, declined, excused>>
    BY <1>4 DEF GuestJoins, Cancel, Delete, Advance, row, answers, reminder
  <2>2. QED BY <2>1 DEF Honest, MarkedIsSent, DoneIsTold, MarkedMeansTold
<1>5. QED BY <1>1, <1>2, <1>3, <1>4 DEF PeopleStep

-----------------------------------------------------------------------------
(* The theorems *)

\* The call as it is created.
LEMMA InitIsGood == Init => IInv
<1> SUFFICES ASSUME Init
             PROVE  IInv
  OBVIOUS
<1>1. TypeOK
  <2>1. IdlePass \in PassType /\ [stage |-> "loop", todo |-> Invitees] \in PassType
    BY DEF IdlePass, PassType
  <2>2. pass \in [Passes -> PassType]
    BY <2>1 DEF Init
  <2>3. \A p \in Passes : pass[p].todo = {} <=> pass[p].stage \in {"idle", "queued"}
    BY DEF Init, IdlePass
  <2>4. IdleScan \in ScanType /\ IdleScan.stage # "sent"
    BY DEF IdleScan, ScanType, Phases
  <2>5. scan \in [Scans -> ScanType] /\ \A s \in Scans : scan[s].stage # "sent"
    BY <2>4 DEF Init
  <2>6. phase \in Phases
    BY PhaseAssumption DEF Init, Phases
  <2>7. QED BY <2>2, <2>3, <2>5, <2>6 DEF Init, TypeOK, Open
<1>2. NobodyForgotten
  <2>1. 1 \in Passes
    BY CallAssumption DEF Passes
  <2>2. ASSUME NEW i \in Invitees
        PROVE  i \in pass[1].todo
    BY <2>1, <2>2 DEF Init
  <2>3. QED BY <2>1, <2>2 DEF NobodyForgotten
<1>3. \A s \in Scans : scan[s].stage = "idle" /\ scan[s].done = FALSE
  BY DEF Init, IdleScan
<1>4. MarkedIsSent /\ DoneIsTold /\ MarkedMeansTold
  BY <1>3 DEF Init, MarkedIsSent, DoneIsTold, MarkedMeansTold
<1>5. QED BY <1>1, <1>2, <1>4 DEF IInv

\* Every step keeps the invariant.
LEMMA StepIsGood == IInv /\ [Next]_vars => IInv'
<1> SUFFICES ASSUME IInv, [Next]_vars
             PROVE  IInv'
  OBVIOUS
<1>0. TypeOK /\ NobodyForgotten /\ Honest
  BY DEF IInv, Honest
<1> SUFFICES TypeOK' /\ NobodyForgotten' /\ Honest'
  BY DEF IInv, Honest
<1>1. CASE RetryTick \/ RemindTick
  BY <1>0, <1>1, TickKeepsTypes, TickForgetsNobody, TickIsHonest
<1>2. CASE PeopleStep
  BY <1>0, <1>2, PeopleKeepTypes, PeopleForgetNobody, PeopleAreHonest
<1>3. ASSUME NEW p \in Passes, PassStep(p)
      PROVE  TypeOK' /\ NobodyForgotten' /\ Honest'
  <2>1. UNCHANGED <<scan, reminded, reached, announced, starter, declined, excused>>
    BY <1>3 DEF PassStep, BeginPass, Deliver, Mark, row, answers, reminder
  <2>2. Honest'
    BY <1>0, <2>1 DEF Honest, MarkedIsSent, DoneIsTold, MarkedMeansTold
  <2>3. QED BY <1>0, <1>3, <2>2, PassKeepsTypes, PassForgetsNobody
<1>4. ASSUME NEW s \in Scans, ScanStep(s)
      PROVE  TypeOK' /\ NobodyForgotten' /\ Honest'
  BY <1>0, <1>4, ScanKeepsTypes, ScanForgetsNobody, ScanIsHonest
<1>5. CASE UNCHANGED vars
  <2>1. TypeOK'
    BY <1>0, <1>5 DEF vars, row, invites, answers, reminder, TypeOK
  <2>2. NobodyForgotten'
    BY <1>0, <1>5 DEF vars, row, invites, NobodyForgotten
  <2>3. Honest'
    BY <1>0, <1>5 DEF vars, row, answers, reminder, Honest, MarkedIsSent, DoneIsTold,
                      MarkedMeansTold
  <2>4. QED BY <2>1, <2>2, <2>3
<1>6. CASE Next
  BY <1>1, <1>2, <1>3, <1>4, <1>6, NextIsAStep
<1>7. QED BY <1>5, <1>6

\* The invariant holds of every behaviour.
THEOREM InductiveInvariant == Spec => []IInv
<1>1. Init => IInv
  BY InitIsGood
<1>2. IInv /\ [Next]_vars => IInv'
  BY StepIsGood
<1>3. QED BY <1>1, <1>2, PTL DEF Spec

\* Every variable keeps its type, and a pass has somebody to do exactly in its loop.
THEOREM TypeCorrect == Spec => []TypeOK
<1>1. IInv => TypeOK
  BY DEF IInv
<1>2. QED BY <1>1, InductiveInvariant, PTL

\* Whatever passes overlap, whoever was not invited is on a list, due for a retry or
\* out of attempts, as long as the process stays up: dispatchInvites with markInviteSent.
THEOREM NobodyIsForgotten == Spec => []NobodyForgotten
<1>1. IInv => NobodyForgotten
  BY DEF IInv
<1>2. QED BY <1>1, InductiveInvariant, PTL

\* However many reminder scans overlap with joins, answers and restarts, the mark that
\* suppresses the start notice is set only when the app users need no notice.
THEOREM MarkIsHonest == Spec => []MarkedMeansTold
<1>1. IInv => MarkedMeansTold
  BY DEF IInv
<1>2. QED BY <1>1, InductiveInvariant, PTL

\* A call that is cancelled, ended or deleted is never reopened: a scan settles by the
\* status of its end, and a join gives the notice of an open call only.
LEMMA ClosedStaysClosed ==
    ASSUME [Next]_vars, status \notin Open
    PROVE  status' \notin Open
<1>1. CASE UNCHANGED vars
  BY <1>1 DEF vars
<1>2. ASSUME NEW s \in Scans, ScanStep(s)
      PROVE  status' \notin Open
  <2>1. CASE Settle(s)
    BY <2>1 DEF Settle, Open
  <2>2. CASE Warn(s) \/ MarkReminder(s) \/ MarkCall(s)
    BY <2>2 DEF Warn, MarkReminder, MarkCall, row
  <2>3. QED BY <1>2, <2>1, <2>2 DEF ScanStep
<1>3. ASSUME NEW p \in Passes, PassStep(p)
      PROVE  status' \notin Open
  BY <1>3 DEF PassStep, BeginPass, Deliver, Mark, row
<1>4. CASE RetryTick \/ RemindTick
  BY <1>4 DEF RetryTick, RemindTick, row
<1>5. CASE PeopleStep
  <2>1. CASE \E m \in Members : MemberJoins(m)
    BY <2>1 DEF MemberJoins, StartNotice
  <2>2. CASE \E i \in Invitees, no \in BOOLEAN : Rsvp(i, no)
    BY <2>2 DEF Rsvp, row
  <2>3. CASE Cancel \/ Delete
    BY <2>3 DEF Cancel, Delete, Open
  <2>4. CASE GuestJoins \/ Advance \/ Restart
    BY <2>4 DEF GuestJoins, Advance, Restart, row
  <2>5. QED BY <1>5, <2>1, <2>2, <2>3, <2>4 DEF PeopleStep
<1>6. CASE Next
  BY <1>2, <1>3, <1>4, <1>5, <1>6, NextIsAStep
<1>7. QED BY <1>1, <1>6

\* Whatever scans, joins and passes are under way when a call is closed, it stays closed.
THEOREM ClosedStays == Spec => ClosedForGood
<1>1. [Next]_vars => [status \notin Open => status' \notin Open]_vars
  BY ClosedStaysClosed
<1>2. QED BY <1>1, PTL DEF Spec, ClosedForGood

=============================================================================
