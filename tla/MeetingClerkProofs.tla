-------------------------- MODULE MeetingClerkProofs --------------------------
(***************************************************************************)
(* The clerk of a channel, for any number of notes, phrases, stops, mails  *)
(* and restarts.  A note that says it is being worked on has a chain at    *)
(* work, or a restart took it away; phrases are lost only to a chain that  *)
(* was stopped before its session was there; with one stop, the summary    *)
(* that is mailed is the one the row shows, and is mailed again only       *)
(* before its mark or after a restart; the counters keep their bounds,     *)
(* which needs the sums of the guards, note by note.  And of its roster:   *)
(* who is listed is in the list the mail goes to.                          *)
(***************************************************************************)
EXTENDS MeetingClerk, ClerkRoster, TLAPS, WellFoundedInduction

NoteRow  == [status : NoteStatus, selection : {"null", "pending", "sent", "skipped"},
             text : Nat, summary : Nat]
Worker   == [id : Nat, note : Notes, own : BOOLEAN, text : Nat,
             stage : {"closing", "summarizing", "rendering", "uploading"}]
\* The session of a note.
Listener == [state : {"none", "open", "failed"}, heard : Nat]

\* The types, without the bounds of the counters.
ClerkShape ==
    /\ note \in [Notes -> NoteRow]
    /\ session \in [Notes -> Listener]
    /\ chains \subseteq Worker
    /\ stops \in [Notes -> Nat]
    /\ cut \subseteq Notes

\* The inductive invariant.
IInv == ClerkShape /\ WorkHasAWorker

-----------------------------------------------------------------------------
(* Rows and chains *)

\* updateNote writes one row, if it is there.
LEMMA PatchIsTyped ==
    ASSUME ClerkShape, NEW n \in Notes, NEW r \in NoteRow, Patch(n, r)
    PROVE  /\ note' \in [Notes -> NoteRow]
           /\ \A m \in Notes : note'[m] = IF m = n /\ Row(n) THEN r ELSE note[m]
BY DEF ClerkShape, Patch

\* A status alone.
LEMMA StatusIsTyped ==
    ASSUME ClerkShape, NEW n \in Notes, NEW s \in NoteStatus, SetStatus(n, s)
    PROVE  /\ note' \in [Notes -> NoteRow]
           /\ \A m \in Notes : note'[m].status = IF m = n /\ Row(n) THEN s ELSE note[m].status
<1> DEFINE r == [note[n] EXCEPT !.status = s]
<1>1. r \in NoteRow /\ r.status = s
  BY DEF ClerkShape, NoteRow
<1>2. Patch(n, r)
  BY DEF SetStatus
<1> HIDE DEF r
<1>3. QED BY <1>1, <1>2, PatchIsTyped

\* A note that is not there is not being worked on.
LEMMA NoRowNoWork ==
    ASSUME NEW n \in Notes, ~Row(n)
    PROVE  note[n].status \notin Processing
BY DEF Row, Processing

\* A step that sends no other note to work, and takes no other note's chain, keeps the
\* invariant if its own note has a chain or is not being worked on.
LEMMA OneNoteAtATime ==
    ASSUME IInv, ClerkShape', NEW n \in Notes, cut' = cut,
           \A m \in Notes \ {n} :
              note'[m].status \in Processing => note[m].status \in Processing,
           \A c \in chains : c.note # n => \E d \in chains' : d.note = c.note,
           note'[n].status \in Processing => n \in cut \/ \E c \in chains' : c.note = n
    PROVE  IInv'
BY DEF IInv, WorkHasAWorker

\* A step that takes no chain away and sends no note to work.
LEMMA NobodyStartsWork ==
    ASSUME IInv, ClerkShape', cut' = cut, chains' = chains,
           \A m \in Notes : note'[m].status \in Processing => note[m].status \in Processing
    PROVE  IInv'
BY DEF IInv, WorkHasAWorker

\* What a chain becomes is a chain of the same note.
LEMMA GatheredIsTyped ==
    ASSUME ClerkShape, NEW c \in Worker
    PROVE  Gathered(c) \in Worker /\ Gathered(c).note = c.note
<1>1. c.note \in Notes /\ session[c.note].heard \in Nat /\ note[c.note].text \in Nat
  BY DEF ClerkShape, Worker, Listener, NoteRow
<1>2. Transcript(c.note, c.own) \in Nat
  BY <1>1 DEF Transcript
<1> DEFINE t == Transcript(c.note, c.own)
<1> HIDE DEF t
<1>3. [c EXCEPT !.stage = "summarizing", !.text = t] \in Worker
  BY <1>2 DEF Worker, t
<1>4. [c EXCEPT !.stage = "summarizing", !.text = t].note = c.note
  BY DEF Worker
<1>5. QED BY <1>3, <1>4 DEF Gathered, t

\* A chain that goes on to a later stage is a chain of the same note.
LEMMA StagedIsTyped ==
    ASSUME NEW c \in Worker, NEW stage \in {"summarizing", "rendering", "uploading"}
    PROVE  /\ [c EXCEPT !.stage = stage] \in Worker
           /\ [c EXCEPT !.stage = stage].note = c.note
BY DEF Worker

-----------------------------------------------------------------------------
(* Starting, hearing, deciding: no chain moves *)

\* A note that begins, or whose session begins or fails, is not yet worked on.
LEMMA StartIsGood ==
    ASSUME IInv, NEW n \in Notes,
           StartClerk(n) \/ SessionStarts(n) \/ SessionFails(n)
    PROVE  IInv'
<1> USE DEF work, mail, past
<1>0. ClerkShape
  BY DEF IInv
<1>1. CASE StartClerk(n)
  <2>1. /\ note' = [note EXCEPT ![n] = [note[n] EXCEPT !.status = "recording"]]
        /\ UNCHANGED <<session, chains, stops, cut>>
    BY <1>1 DEF StartClerk
  <2>2. /\ [note[n] EXCEPT !.status = "recording"] \in NoteRow
        /\ [note[n] EXCEPT !.status = "recording"].status = "recording"
    BY <1>0 DEF ClerkShape, NoteRow, NoteStatus, Active
  <2>3. ClerkShape'
    BY <1>0, <2>1, <2>2 DEF ClerkShape
  <2>4. \A m \in Notes : note'[m].status \in Processing => note[m].status \in Processing
    BY <1>0, <2>1, <2>2 DEF ClerkShape, Processing
  <2>5. QED BY <2>1, <2>3, <2>4, NobodyStartsWork
<1>2. CASE SessionStarts(n)
  <2>1. /\ session' = [session EXCEPT ![n] = [session[n] EXCEPT !.state = "open"]]
        /\ UNCHANGED <<note, chains, stops, cut>>
    BY <1>2 DEF SessionStarts
  <2>2. [session[n] EXCEPT !.state = "open"] \in Listener
    BY <1>0 DEF ClerkShape, Listener
  <2>3. ClerkShape'
    BY <1>0, <2>1, <2>2 DEF ClerkShape
  <2>4. QED BY <2>1, <2>3, NobodyStartsWork
<1>3. CASE SessionFails(n)
  <2>1. /\ session' = [session EXCEPT ![n] = [session[n] EXCEPT !.state = "failed"]]
        /\ SetStatus(n, "failed")
        /\ UNCHANGED <<chains, stops, cut>>
    BY <1>3 DEF SessionFails
  <2>2. [session[n] EXCEPT !.state = "failed"] \in Listener
    BY <1>0 DEF ClerkShape, Listener
  <2>3. /\ note' \in [Notes -> NoteRow]
        /\ \A m \in Notes : note'[m].status =
              IF m = n /\ Row(n) THEN "failed" ELSE note[m].status
    BY <1>0, <2>1, StatusIsTyped DEF NoteStatus
  <2>4. ClerkShape'
    BY <1>0, <2>1, <2>2, <2>3 DEF ClerkShape
  <2>5. \A m \in Notes : note'[m].status \in Processing => note[m].status \in Processing
    BY <2>3 DEF Processing
  <2>6. QED BY <2>1, <2>4, <2>5, NobodyStartsWork
<1>4. QED BY <1>1, <1>2, <1>3

\* A phrase changes no status.
LEMMA HearIsGood ==
    ASSUME IInv, NEW n \in Notes, Hear(n)
    PROVE  IInv'
<1> DEFINE r == [note[n] EXCEPT !.text = @ + 1]
           h == [session[n] EXCEPT !.heard = @ + 1]
<1>0. ClerkShape
  BY DEF IInv
<1>1. r \in NoteRow /\ r.status = note[n].status
  BY <1>0 DEF ClerkShape, NoteRow
<1>2. h \in Listener
  BY <1>0 DEF ClerkShape, Listener
<1>3. /\ Patch(n, r) /\ session' = [session EXCEPT ![n] = h]
      /\ UNCHANGED <<chains, stops, cut>>
  BY DEF Hear, work, past
<1> HIDE DEF r, h
<1>4. /\ note' \in [Notes -> NoteRow]
      /\ \A m \in Notes : note'[m] = IF m = n /\ Row(n) THEN r ELSE note[m]
  BY <1>0, <1>1, <1>3, PatchIsTyped
<1>5. ClerkShape'
  BY <1>0, <1>2, <1>3, <1>4 DEF ClerkShape
<1>6. QED BY <1>1, <1>3, <1>4, <1>5, NobodyStartsWork

\* The host's decision: sent or skipped, the note is uploaded.
LEMMA DecisionIsGood ==
    ASSUME IInv, NEW n \in Notes, SummarySent(n) \/ SkipSummary(n)
    PROVE  IInv'
<1>0. ClerkShape
  BY DEF IInv
<1>1. PICK how \in {"sent", "skipped"} : Decided(n, how)
  BY DEF SummarySent, SkipSummary
<1> DEFINE r == [note[n] EXCEPT !.status = "uploaded", !.selection = how]
<1>2. r \in NoteRow /\ r.status = "uploaded"
  BY <1>0 DEF ClerkShape, NoteRow, NoteStatus
<1>3. Patch(n, r) /\ UNCHANGED <<session, chains, stops, cut>>
  BY <1>1 DEF Decided, SummarySent, SkipSummary, work, past
<1> HIDE DEF r
<1>4. /\ note' \in [Notes -> NoteRow]
      /\ \A m \in Notes : note'[m] = IF m = n /\ Row(n) THEN r ELSE note[m]
  BY <1>0, <1>2, <1>3, PatchIsTyped
<1>5. ClerkShape'
  BY <1>0, <1>3, <1>4 DEF ClerkShape
<1>6. \A m \in Notes : note'[m].status \in Processing => note[m].status \in Processing
  BY <1>2, <1>4 DEF Processing
<1>7. QED BY <1>3, <1>5, <1>6, NobodyStartsWork

\* A deleted note claims nothing; its chains work on.
LEMMA DeleteIsGood ==
    ASSUME IInv, NEW n \in Notes, DeleteNote(n)
    PROVE  IInv'
<1>0. ClerkShape
  BY DEF IInv
<1> DEFINE r == [note[n] EXCEPT !.status = "deleted"]
<1>1. r \in NoteRow /\ r.status = "deleted"
  BY <1>0 DEF ClerkShape, NoteRow, NoteStatus
<1>2. note' = [note EXCEPT ![n] = r] /\ UNCHANGED <<session, chains, stops, cut>>
  BY DEF DeleteNote, work, past
<1> HIDE DEF r
<1>3. ClerkShape'
  BY <1>0, <1>1, <1>2 DEF ClerkShape
<1>4. \A m \in Notes : note'[m].status \in Processing => note[m].status \in Processing
  BY <1>0, <1>1, <1>2 DEF ClerkShape, Processing
<1>5. QED BY <1>2, <1>3, <1>4, NobodyStartsWork

-----------------------------------------------------------------------------
(* Stopping, and the chain *)

\* A stop sets the note to work together with its chain.
LEMMA StopIsGood ==
    ASSUME IInv, NEW n \in Notes, StopClerk(n)
    PROVE  IInv'
<1>0. ClerkShape
  BY DEF IInv
<1> DEFINE own == session[n].state = "open"
           c   == [id |-> stops[n] + 1, note |-> n, own |-> own, text |-> 0,
                   stage |-> "closing"]
           d   == IF own THEN c ELSE Gathered(c)
           s   == IF own THEN "transcribing" ELSE "summarizing"
<1>1. c \in Worker /\ c.note = n
  BY <1>0 DEF ClerkShape, Worker
<1>2. d \in Worker /\ d.note = n
  BY <1>0, <1>1, GatheredIsTyped
<1>3. /\ chains' = chains \union {d} /\ SetStatus(n, s)
      /\ stops' = [stops EXCEPT ![n] = @ + 1] /\ UNCHANGED <<session, cut>>
  BY DEF StopClerk, past
<1>4. s \in NoteStatus
  BY DEF NoteStatus, Active, Processing
<1> HIDE DEF c, d, s
<1>5. /\ note' \in [Notes -> NoteRow]
      /\ \A m \in Notes : note'[m].status = IF m = n /\ Row(n) THEN s ELSE note[m].status
  BY <1>0, <1>3, <1>4, StatusIsTyped
<1>6. ClerkShape'
  <2>1. chains' \subseteq Worker
    BY <1>0, <1>2, <1>3 DEF ClerkShape
  <2>2. stops' \in [Notes -> Nat]
    BY <1>0, <1>3 DEF ClerkShape
  <2>3. QED BY <1>0, <1>3, <1>5, <2>1, <2>2 DEF ClerkShape
<1>7. /\ \A m \in Notes \ {n} : note'[m].status = note[m].status
      /\ chains \subseteq chains' /\ \E e \in chains' : e.note = n
  BY <1>2, <1>3, <1>5
<1>8. QED BY <1>3, <1>6, <1>7, OneNoteAtATime

\* A chain goes on to its next stage; the row says so.
LEMMA ChainGoesOn ==
    ASSUME IInv, NEW c \in chains, SessionCloses(c) \/ Summarized(c) \/ Rendered(c)
    PROVE  IInv'
<1>0. ClerkShape /\ c \in Worker /\ c.note \in Notes
  BY DEF IInv, ClerkShape, Worker
<1>1. \E d \in Worker : d.note = c.note /\ chains' = (chains \ {c}) \union {d}
  <2>1. CASE SessionCloses(c)
    BY <1>0, <2>1, GatheredIsTyped DEF SessionCloses
  <2>2. CASE Summarized(c)
    BY <1>0, <2>2, StagedIsTyped DEF Summarized, NextStage
  <2>3. CASE Rendered(c)
    BY <1>0, <2>3, StagedIsTyped DEF Rendered, NextStage
  <2>4. QED BY <2>1, <2>2, <2>3
<1>2. /\ note' \in [Notes -> NoteRow]
      /\ \A m \in Notes \ {c.note} : note'[m].status = note[m].status
  <2>1. CASE SessionCloses(c)
    BY <1>0, <2>1, StatusIsTyped DEF SessionCloses, NoteStatus, Active, Processing
  <2>2. CASE Rendered(c)
    BY <1>0, <2>2, StatusIsTyped DEF Rendered, NoteStatus, Active, Processing
  <2>3. CASE Summarized(c)
    <3> DEFINE r == [note[c.note] EXCEPT !.status = "rendering", !.text = c.text,
                                         !.summary = c.id]
    <3>0. note[c.note] \in NoteRow /\ c.text \in Nat /\ c.id \in Nat
      BY <1>0 DEF ClerkShape, Worker
    <3>1. r \in NoteRow
      BY <3>0 DEF NoteRow, NoteStatus, Active, Processing
    <3>2. Patch(c.note, r)
      BY <2>3 DEF Summarized
    <3> HIDE DEF r
    <3>3. QED BY <1>0, <3>1, <3>2, PatchIsTyped
  <2>4. QED BY <2>1, <2>2, <2>3
<1>3. session' \in [Notes -> Listener] /\ UNCHANGED <<stops, cut>>
  <2>1. CASE SessionCloses(c)
    <3> DEFINE h == IF \E b \in chains \ {c} : b.note = c.note /\ b.stage = "closing"
                    THEN session[c.note].heard ELSE 0
    <3>1. [state |-> "none", heard |-> h] \in Listener
      BY <1>0 DEF ClerkShape, Listener
    <3>2. session' = [session EXCEPT ![c.note] = [state |-> "none", heard |-> h]]
      BY <2>1 DEF SessionCloses
    <3>3. UNCHANGED <<stops, cut>>
      BY <2>1 DEF SessionCloses, past
    <3> HIDE DEF h
    <3>4. session \in [Notes -> Listener]
      BY <1>0 DEF ClerkShape
    <3>5. session' \in [Notes -> Listener]
      BY <1>0, <3>1, <3>2, <3>4
    <3>6. QED BY <3>3, <3>5
  <2>2. CASE Summarized(c) \/ Rendered(c)
    BY <1>0, <2>2 DEF Summarized, Rendered, past, ClerkShape
  <2>3. QED BY <2>1, <2>2
<1>4. ClerkShape'
  BY <1>0, <1>1, <1>2, <1>3 DEF ClerkShape
<1>5. QED BY <1>0, <1>1, <1>2, <1>3, <1>4, OneNoteAtATime

\* A chain is over when its note is no longer being worked on: the row awaits its
\* recipients, has failed, or is gone.
LEMMA ChainIsOver ==
    ASSUME IInv, NEW c \in chains, Uploaded(c) \/ ChainFails(c)
    PROVE  IInv'
<1>0. ClerkShape /\ c \in Worker /\ c.note \in Notes
  BY DEF IInv, ClerkShape, Worker
<1>1. /\ chains' = chains \ {c}
      /\ UNCHANGED <<session, stops, cut>>
  BY DEF Uploaded, ChainFails, Over, past
<1>2. PICK s \in {"awaiting_recipients", "failed"} :
        /\ note' \in [Notes -> NoteRow]
        /\ \A m \in Notes : note'[m].status =
              IF m = c.note /\ Row(c.note) THEN s ELSE note[m].status
  <2>1. CASE Uploaded(c)
    <3> DEFINE r == [note[c.note] EXCEPT !.status = "awaiting_recipients",
                                         !.selection = "pending"]
    <3>1. r \in NoteRow /\ r.status = "awaiting_recipients"
      BY <1>0 DEF ClerkShape, NoteRow, NoteStatus, Active
    <3>2. Patch(c.note, r)
      BY <2>1 DEF Uploaded
    <3> HIDE DEF r
    <3>3. QED BY <1>0, <3>1, <3>2, PatchIsTyped
  <2>2. CASE ChainFails(c)
    BY <1>0, <2>2, StatusIsTyped DEF ChainFails, MarkFailed, NoteStatus
  <2>3. QED BY <2>1, <2>2
<1>3. ClerkShape'
  BY <1>0, <1>1, <1>2 DEF ClerkShape
<1>4. note'[c.note].status \notin Processing
  BY <1>0, <1>2, NoRowNoWork DEF Processing
<1>5. QED BY <1>0, <1>1, <1>2, <1>3, <1>4, OneNoteAtATime

\* A restart takes the chains and says of which notes.
LEMMA RestartIsGood ==
    ASSUME IInv, RestartClerk
    PROVE  IInv'
<1>0. ClerkShape
  BY DEF IInv
<1>1. /\ UNCHANGED <<note, stops>> /\ chains' = {}
      /\ cut \subseteq cut' /\ {c.note : c \in chains} \subseteq cut'
  BY DEF RestartClerk
<1>2. cut' \subseteq Notes
  BY <1>0 DEF RestartClerk, ClerkShape, Worker
<1>3. session' \in [Notes -> Listener]
  BY <1>0 DEF RestartClerk, ClerkShape, Listener
<1>4. ClerkShape'
  BY <1>0, <1>1, <1>2, <1>3 DEF ClerkShape
<1>5. QED BY <1>1, <1>4 DEF IInv, WorkHasAWorker

-----------------------------------------------------------------------------
(* The theorems *)

\* No note is there.
LEMMA InitIsGood == ClerkInit => IInv
<1> SUFFICES ASSUME ClerkInit PROVE IInv
  OBVIOUS
<1>1. ClerkShape
  BY DEF ClerkInit, ClerkShape, NoteRow, NoteStatus, Listener
<1>2. WorkHasAWorker
  BY DEF ClerkInit, WorkHasAWorker, Processing
<1>3. QED BY <1>1, <1>2 DEF IInv

\* Each step keeps every note that claims work in hand.
LEMMA StepIsGood == IInv /\ [ClerkNext]_clerkVars => IInv'
<1> SUFFICES ASSUME IInv, [ClerkNext]_clerkVars
             PROVE  IInv'
  OBVIOUS
<1>1. ASSUME NEW n \in Notes,
             \/ StartClerk(n) \/ SessionStarts(n) \/ SessionFails(n) \/ Hear(n)
             \/ StopClerk(n) \/ SummarySent(n) \/ SkipSummary(n) \/ DeleteNote(n)
      PROVE  IInv'
  BY <1>1, StartIsGood, HearIsGood, StopIsGood, DecisionIsGood, DeleteIsGood
<1>2. ASSUME NEW n \in Notes, PressStop(n) \/ StopIgnored(n) \/ SendSummary(n)
      PROVE  IInv'
  <2>1. UNCHANGED <<note, session, chains, stops, cut>>
    BY <1>2 DEF PressStop, StopIgnored, SendSummary, work, past
  <2>2. QED BY <2>1 DEF IInv, ClerkShape, WorkHasAWorker
<1>3. ASSUME NEW c \in chains, ChainStep(c)
      PROVE  IInv'
  BY <1>3, ChainGoesOn, ChainIsOver DEF ChainStep
<1>4. CASE RestartClerk
  BY <1>4, RestartIsGood
<1>5. CASE UNCHANGED clerkVars
  BY <1>5 DEF clerkVars, work, past, IInv, ClerkShape, WorkHasAWorker
<1>6. CASE ClerkNext
  BY <1>1, <1>2, <1>3, <1>4, <1>6 DEF ClerkNext
<1>7. QED BY <1>5, <1>6

\* The invariant holds of every behaviour of the clerk.
THEOREM InductiveInvariant == ClerkSpec => []IInv
<1>1. QED BY InitIsGood, StepIsGood, PTL DEF ClerkSpec

\* stopClerk and its background chain: whatever stops, failures and deletions overlap, a
\* note whose status names a stage of the work has a chain at work, unless a restart took
\* it; the catch of the chain and the last update see to that.
THEOREM WorkIsInHand == ClerkSpec => []WorkHasAWorker
<1>1. IInv => WorkHasAWorker
  BY DEF IInv
<1>2. QED BY <1>1, InductiveInvariant, PTL

-----------------------------------------------------------------------------
(* The other variables *)

\* The types of what the mail needs.
MailShape ==
    /\ opening \subseteq Notes
    /\ payload \in [Notes -> Nat] /\ asked \in [Notes -> Nat]
    /\ sending \in [Notes -> Nat] /\ mailed \in [Notes -> Nat]

\* Each step keeps them.
LEMMA MailShapeStays ==
    ASSUME ClerkShape, MailShape, [ClerkNext]_clerkVars
    PROVE  MailShape'
<1> USE DEF MailShape, work, mail, requests, past
<1>1. ASSUME NEW n \in Notes, StartClerk(n) \/ SessionStarts(n) \/ SessionFails(n)
      PROVE  MailShape'
  BY <1>1 DEF StartClerk, SessionStarts, SessionFails
<1>2. ASSUME NEW n \in Notes, Hear(n) \/ DeleteNote(n) PROVE MailShape'
  BY <1>2 DEF Hear, DeleteNote
<1>3. ASSUME NEW n \in Notes, PressStop(n) \/ StopClerk(n) \/ StopIgnored(n)
      PROVE  MailShape'
  <2>1. asked[n] + 1 \in Nat /\ (asked[n] > 0 => asked[n] - 1 \in Nat)
    OBVIOUS
  <2>2. QED BY <1>3, <2>1 DEF PressStop, StopClerk, StopIgnored
<1>4. ASSUME NEW n \in Notes, SendSummary(n) \/ SummarySent(n) \/ SkipSummary(n)
      PROVE  MailShape'
  <2>1. /\ sending[n] + 1 \in Nat /\ mailed[n] + 1 \in Nat
        /\ sending[n] > 0 => sending[n] - 1 \in Nat
    OBVIOUS
  <2>2. QED BY <1>4, <2>1 DEF SendSummary, SummarySent, SkipSummary, Decided
<1>5. ASSUME NEW c \in chains, ChainStep(c) PROVE MailShape'
  <2>1. c.id \in Nat
    BY DEF ClerkShape, Worker
  <2>2. QED
    BY <1>5, <2>1 DEF ChainStep, SessionCloses, Summarized, Rendered, Uploaded, ChainFails
<1>6. CASE RestartClerk
  BY <1>6 DEF RestartClerk
<1>7. CASE UNCHANGED clerkVars
  BY <1>7 DEF clerkVars
<1>8. QED BY <1>1, <1>2, <1>3, <1>4, <1>5, <1>6, <1>7 DEF ClerkNext

-----------------------------------------------------------------------------
(* The transcript: who has heard what *)

\* The chains at work on a note.
Working(n) == {c \in chains : c.note = n}

\* No session.
Blank == [state |-> "none", heard |-> 0]

\* The session is there, or its phrases are kept for the chains that close it.
Holds(n) == session[n].state = "open" \/ \E c \in Working(n) : c.stage = "closing"

\* Nothing is heard before the session, which is opened once.
BlankBefore ==
    \A n \in Notes :
       /\ note[n].status = "none" => n \notin opening /\ session[n] = Blank
                                     /\ note[n].text = 0 /\ Working(n) = {}
       /\ n \in opening => session[n] = Blank /\ note[n].text = 0
                           /\ \A c \in Working(n) : ~c.own /\ c.text = 0

\* A chain that closes the session owns it and has not read the text.
ClosingHolds == \A c \in chains : c.stage = "closing" => c.own /\ c.text = 0

\* The session has heard all that is written, in the row or by a chain.
HeardAll ==
    \A n \in Notes : Holds(n) =>
       /\ note[n].text <= session[n].heard
       /\ \A c \in Working(n) : c.text <= session[n].heard

\* A chain that held the session knows all that is written.
OwnKnowsAll ==
    \A c \in chains : c.own /\ c.stage # "closing" =>
       /\ session[c.note].state # "open" /\ session[c.note].heard <= c.text
       /\ note[c.note].text <= c.text
       /\ \A d \in Working(c.note) : d.text <= c.text

\* Where the phrases of a note are: in its row, its session, or the chain that owns it.
TextInv == BlankBefore /\ ClosingHolds /\ HeardAll /\ OwnKnowsAll

\* A step after which a note has the same phrases, session and chains, or fewer of them.
LEMMA SameText ==
    ASSUME ClerkShape, TextInv, chains' \subseteq chains,
           \A n \in Notes :
              /\ note'[n].text = note[n].text /\ session'[n] = session[n]
              /\ note'[n].status = "none" => note[n].status = "none"
              /\ n \in opening' => n \in opening
    PROVE  TextInv'
<1>1. \A n \in Notes : Working(n)' \subseteq Working(n)
  BY DEF Working
<1>2. \A n \in Notes : Holds(n)' => Holds(n)
  BY <1>1 DEF Holds
<1>3. \A c \in chains : c.note \in Notes
  BY DEF ClerkShape, Worker
<1>4. BlankBefore' /\ ClosingHolds'
  BY <1>1 DEF TextInv, BlankBefore, ClosingHolds
<1>5. HeardAll' /\ OwnKnowsAll'
  BY <1>1, <1>2, <1>3 DEF TextInv, HeardAll, OwnKnowsAll
<1>6. QED BY <1>4, <1>5 DEF TextInv

\* A step about one note that may bring a chain of it.
LEMMA OneNotesText ==
    ASSUME ClerkShape, ClerkShape', TextInv, NEW n \in Notes, NEW d,
           d.note = n, chains' \subseteq chains \union {d},
           \A m \in Notes \ {n} :
              /\ note'[m].text = note[m].text /\ session'[m] = session[m]
              /\ note'[m].status = note[m].status /\ (m \in opening' <=> m \in opening),
           /\ note'[n].status = "none" => n \notin opening' /\ session'[n] = Blank
                                     /\ note'[n].text = 0 /\ Working(n)' = {}
           /\ n \in opening' => session'[n] = Blank /\ note'[n].text = 0
                           /\ \A c \in Working(n)' : ~c.own /\ c.text = 0,
           d \in chains' /\ d.stage = "closing" => d.own /\ d.text = 0,
           Holds(n)' => /\ note'[n].text <= session'[n].heard
                        /\ \A c \in Working(n)' : c.text <= session'[n].heard,
           \A c \in Working(n)' : c.own /\ c.stage # "closing" =>
              /\ session'[n].state # "open" /\ session'[n].heard <= c.text
              /\ note'[n].text <= c.text /\ \A e \in Working(n)' : e.text <= c.text
    PROVE  TextInv'
<1>1. \A m \in Notes \ {n} : Working(m)' \subseteq Working(m) /\ (Holds(m)' => Holds(m))
  BY DEF Working, Holds
<1>2. \A c \in chains' : c.note \in Notes
  BY DEF ClerkShape, Worker
<1>3. BlankBefore'
  BY <1>1 DEF TextInv, BlankBefore
<1>4. ClosingHolds'
  BY DEF TextInv, ClosingHolds
<1>5. HeardAll'
  BY <1>1 DEF TextInv, HeardAll
<1>6. OwnKnowsAll'
  <2> SUFFICES ASSUME NEW c \in chains', c.own, c.stage # "closing"
               PROVE  /\ session'[c.note].state # "open"
                      /\ session'[c.note].heard <= c.text
                      /\ note'[c.note].text <= c.text
                      /\ \A e \in Working(c.note)' : e.text <= c.text
    BY DEF OwnKnowsAll
  <2>1. CASE c.note = n
    BY <2>1 DEF Working
  <2>2. CASE c.note # n
    BY <1>1, <1>2, <2>2 DEF TextInv, OwnKnowsAll
  <2>3. QED BY <2>1, <2>2
<1>7. QED BY <1>3, <1>4, <1>5, <1>6 DEF TextInv

\* A status alone: the other fields stay.
LEMMA StatusKeepsRest ==
    ASSUME ClerkShape, NEW n \in Notes, NEW s \in NoteStatus \ {"none"}, SetStatus(n, s),
           NEW m \in Notes
    PROVE  /\ note'[m].text = note[m].text /\ note'[m].summary = note[m].summary
           /\ note'[m].selection = note[m].selection
           /\ note'[m].status = "none" <=> note[m].status = "none"
           /\ m # n => note'[m] = note[m]
<1> DEFINE r == [note[n] EXCEPT !.status = s]
<1>1. /\ r \in NoteRow /\ r.status = s /\ r.text = note[n].text
      /\ r.summary = note[n].summary /\ r.selection = note[n].selection
  BY DEF ClerkShape, NoteRow
<1>2. Patch(n, r)
  BY DEF SetStatus
<1> HIDE DEF r
<1>3. note'[m] = IF m = n /\ Row(n) THEN r ELSE note[m]
  BY <1>1, <1>2, PatchIsTyped
<1>4. QED BY <1>1, <1>3 DEF Row

\* A note that begins has no phrase; a session that fails hears none.
LEMMA StartKeepsText ==
    ASSUME ClerkShape, ClerkShape', TextInv, NEW n \in Notes,
           StartClerk(n) \/ SessionStarts(n) \/ SessionFails(n)
    PROVE  TextInv'
<1> USE DEF work, mail, past, requests
<1>1. CASE StartClerk(n)
  <2>1. /\ note' = [note EXCEPT ![n] = [note[n] EXCEPT !.status = "recording"]]
        /\ opening' = opening \union {n} /\ UNCHANGED <<session, chains>>
        /\ note[n].status = "none"
    BY <1>1 DEF StartClerk, Fresh
  <2>2. /\ [note[n] EXCEPT !.status = "recording"].text = note[n].text
        /\ [note[n] EXCEPT !.status = "recording"].status = "recording"
    BY DEF ClerkShape, NoteRow
  <2>3. /\ note'[n].text = note[n].text /\ note'[n].status = "recording"
        /\ \A m \in Notes \ {n} : note'[m] = note[m]
    BY <2>1, <2>2 DEF ClerkShape
  <2>4. /\ session[n] = Blank /\ note[n].text = 0 /\ Working(n) = {} /\ Working(n)' = {}
    BY <2>1 DEF TextInv, BlankBefore, Working
  <2>5. BlankBefore'
    <3>1. \A m \in Notes : Working(m)' = Working(m)
      BY <2>1 DEF Working
    <3>2. QED BY <2>1, <2>3, <2>4, <3>1 DEF TextInv, BlankBefore
  <2>6. \A m \in Notes : note'[m].text = note[m].text
    BY <2>3
  <2>7. ClosingHolds' /\ HeardAll' /\ OwnKnowsAll'
    <3>1. \A m \in Notes : Working(m)' = Working(m) /\ (Holds(m)' <=> Holds(m))
      BY <2>1 DEF Working, Holds
    <3>2. \A c \in chains : c.note \in Notes
      BY DEF ClerkShape, Worker
    <3>3. QED BY <2>1, <2>6, <3>1, <3>2 DEF TextInv, ClosingHolds, HeardAll, OwnKnowsAll
  <2>8. QED BY <2>5, <2>7 DEF TextInv
<1>2. CASE SessionStarts(n)
  <2>1. /\ session' = [session EXCEPT ![n] = [session[n] EXCEPT !.state = "open"]]
        /\ n \in opening /\ opening' = opening \ {n} /\ UNCHANGED <<note, chains>>
    BY <1>2 DEF SessionStarts
  <2>2. /\ session[n] = Blank /\ note[n].text = 0 /\ \A c \in Working(n) : ~c.own /\ c.text = 0
        /\ note[n].status # "none"
    BY <2>1 DEF TextInv, BlankBefore
  <2>3. /\ session'[n].heard = 0 /\ session'[n].state = "open"
        /\ \A m \in Notes \ {n} : session'[m] = session[m]
    BY <2>1, <2>2 DEF ClerkShape, Blank, Listener
  <2>4. \A m \in Notes : Working(m)' = Working(m)
    BY <2>1 DEF Working
  <2>5. \A m \in Notes \ {n} : Holds(m)' <=> Holds(m)
    BY <2>1, <2>3, <2>4 DEF Holds
  <2>6. BlankBefore' /\ ClosingHolds' /\ HeardAll'
    BY <2>1, <2>2, <2>3, <2>4, <2>5 DEF TextInv, BlankBefore, ClosingHolds, HeardAll
  <2>7. OwnKnowsAll'
    <3>1. \A c \in chains : c.note \in Notes /\ (c.own => c.note # n)
      BY <2>2 DEF ClerkShape, Worker, Working
    <3>2. QED BY <2>1, <2>3, <2>4, <3>1 DEF TextInv, OwnKnowsAll
  <2>8. QED BY <2>6, <2>7 DEF TextInv
<1>3. CASE SessionFails(n)
  <2>1. /\ session' = [session EXCEPT ![n] = [session[n] EXCEPT !.state = "failed"]]
        /\ n \in opening /\ opening' = opening \ {n} /\ UNCHANGED chains
        /\ SetStatus(n, "failed")
    BY <1>3 DEF SessionFails
  <2>2. /\ session[n] = Blank /\ note[n].text = 0 /\ \A c \in Working(n) : ~c.own /\ c.text = 0
        /\ note[n].status # "none"
    BY <2>1 DEF TextInv, BlankBefore
  <2>3. /\ session'[n].heard = 0 /\ session'[n].state = "failed"
        /\ \A m \in Notes \ {n} : session'[m] = session[m]
    BY <2>1, <2>2 DEF ClerkShape, Blank, Listener
  <2>4. \A m \in Notes : /\ note'[m].text = note[m].text
                         /\ note'[m].status = "none" <=> note[m].status = "none"
    BY <2>1, StatusKeepsRest DEF NoteStatus
  <2>5. \A m \in Notes : Working(m)' = Working(m)
    BY <2>1 DEF Working
  <2>6. \A m \in Notes : Holds(m)' => m # n /\ Holds(m)
    BY <2>1, <2>2, <2>3, <2>5 DEF Holds, TextInv, ClosingHolds, Working
  <2>7. BlankBefore' /\ ClosingHolds' /\ HeardAll'
    BY <2>1, <2>2, <2>3, <2>4, <2>5, <2>6 DEF TextInv, BlankBefore, ClosingHolds, HeardAll
  <2>8. OwnKnowsAll'
    <3>1. \A c \in chains : c.note \in Notes /\ (c.own => c.note # n)
      BY <2>2 DEF ClerkShape, Worker, Working
    <3>2. QED BY <2>1, <2>3, <2>4, <2>5, <3>1 DEF TextInv, OwnKnowsAll
  <2>9. QED BY <2>7, <2>8 DEF TextInv
<1>4. QED BY <1>1, <1>2, <1>3

\* A phrase is written and heard at once; no chain of the session knows the text yet.
LEMMA HearKeepsText ==
    ASSUME ClerkShape, ClerkShape', TextInv, NEW n \in Notes, Hear(n)
    PROVE  TextInv'
<1> USE DEF work, mail, past, requests
<1> DEFINE r == [note[n] EXCEPT !.text = @ + 1]
           h == [session[n] EXCEPT !.heard = @ + 1]
<1>1. r \in NoteRow /\ r.status = note[n].status /\ r.text = note[n].text + 1
  BY DEF ClerkShape, NoteRow
<1>2. h.heard = session[n].heard + 1 /\ h.state = session[n].state
  BY DEF ClerkShape, Listener
<1>3. /\ Patch(n, r) /\ session' = [session EXCEPT ![n] = h] /\ session[n].state = "open"
      /\ UNCHANGED <<chains, opening>>
  BY DEF Hear
<1> HIDE DEF r, h
<1>4. \A m \in Notes : note'[m] = IF m = n /\ Row(n) THEN r ELSE note[m]
  BY <1>1, <1>3, PatchIsTyped
<1>5. /\ session'[n].heard = session[n].heard + 1 /\ session'[n].state = "open"
      /\ \A m \in Notes \ {n} : session'[m] = session[m] /\ note'[m] = note[m]
  BY <1>2, <1>3, <1>4 DEF ClerkShape
<1>6. /\ note[n].text \in Nat /\ session[n].heard \in Nat
      /\ note'[n].text <= note[n].text + 1 /\ note'[n].status = note[n].status
  BY <1>1, <1>4 DEF ClerkShape, NoteRow, Listener
<1>7. \A m \in Notes : Working(m)' = Working(m) /\ (Holds(m)' <=> Holds(m))
  BY <1>3, <1>5 DEF Working, Holds
<1>8. Holds(n) /\ n \notin opening /\ note[n].status # "none"
  BY <1>3 DEF Holds, TextInv, BlankBefore, Blank
<1>w. \A c \in chains : c.note \in Notes /\ c.text \in Nat
  BY DEF ClerkShape, Worker
<1>9. BlankBefore' /\ ClosingHolds'
  BY <1>3, <1>5, <1>6, <1>7, <1>8 DEF TextInv, BlankBefore, ClosingHolds
<1>10. HeardAll'
  <2> SUFFICES ASSUME NEW m \in Notes, Holds(m)
               PROVE  /\ note'[m].text <= session'[m].heard
                      /\ \A c \in Working(m) : c.text <= session'[m].heard
    BY <1>7 DEF HeardAll
  <2>1. /\ note[m].text <= session[m].heard
        /\ \A c \in Working(m) : c.text <= session[m].heard
    BY DEF TextInv, HeardAll
  <2>2. CASE m = n
    <3>1. note'[n].text <= session'[n].heard
      <4>1. note'[n].text \in Nat
        BY DEF ClerkShape, NoteRow
      <4>2. QED BY <1>5, <1>6, <2>1, <2>2, <4>1
    <3>2. ASSUME NEW c \in Working(n) PROVE c.text <= session'[n].heard
      BY <1>5, <1>6, <1>w, <2>1, <2>2 DEF Working
    <3>3. QED BY <2>2, <3>1, <3>2
  <2>3. CASE m # n
    BY <1>5, <2>1, <2>3
  <2>4. QED BY <2>2, <2>3
<1>11. OwnKnowsAll'
  <2>1. \A c \in chains : c.own /\ c.stage # "closing" => c.note # n
    BY <1>3 DEF TextInv, OwnKnowsAll
  <2>2. QED BY <1>3, <1>5, <1>7, <1>w, <2>1 DEF TextInv, OwnKnowsAll
<1>12. QED BY <1>9, <1>10, <1>11 DEF TextInv

\* What a chain gathers is all that is written.
LEMMA StopKeepsText ==
    ASSUME ClerkShape, ClerkShape', TextInv, NEW n \in Notes, StopClerk(n)
    PROVE  TextInv'
<1> DEFINE own == session[n].state = "open"
           c   == [id |-> stops[n] + 1, note |-> n, own |-> own, text |-> 0,
                   stage |-> "closing"]
           d   == IF own THEN c ELSE Gathered(c)
           s   == IF own THEN "transcribing" ELSE "summarizing"
<1>1. c \in Worker /\ c.note = n /\ c.own = own /\ c.text = 0 /\ c.stage = "closing"
  BY DEF ClerkShape, Worker
<1>2. /\ d.note = n /\ d.own = own /\ d.text \in Nat
      /\ own => d.stage = "closing" /\ d.text = 0
      /\ ~own => d.stage = "summarizing" /\ d.text = IF Row(n) THEN note[n].text ELSE 0
  <2>1. CASE own
    BY <1>1, <2>1
  <2>2. CASE ~own
    <3> DEFINE t == IF Row(n) THEN note[n].text ELSE 0
    <3>1. d = [c EXCEPT !.stage = "summarizing", !.text = Transcript(c.note, c.own)]
      BY <2>2 DEF Gathered
    <3>2. Transcript(c.note, c.own) = t
      BY <1>1, <2>2 DEF Transcript
    <3>3. t \in Nat
      BY DEF ClerkShape, NoteRow
    <3> HIDE DEF t
    <3>4. /\ d.note = c.note /\ d.own = c.own /\ d.text = t /\ d.stage = "summarizing"
      BY <3>1, <3>2
    <3>5. QED BY <1>1, <2>2, <3>3, <3>4 DEF t
  <2>3. QED BY <2>1, <2>2
<1>3. /\ chains' = chains \union {d} /\ SetStatus(n, s) /\ UNCHANGED <<session, opening>>
  BY DEF StopClerk, mail, past
<1>4. s \in NoteStatus \ {"none"} /\ note[n].status # "none"
  BY DEF NoteStatus, Active, Processing, StopClerk, MayStop, Row
<1> HIDE DEF c, d, s
<1>5. \A m \in Notes : /\ note'[m].text = note[m].text
                       /\ note'[m].status = "none" <=> note[m].status = "none"
                       /\ m # n => note'[m] = note[m]
  BY <1>3, <1>4, StatusKeepsRest
<1>6. Working(n)' = Working(n) \union {d}
  BY <1>2, <1>3 DEF Working
<1>t. /\ note[n].text \in Nat /\ session[n].heard \in Nat
      /\ \A e \in Working(n) : e.text \in Nat /\ e \in chains
  BY DEF ClerkShape, NoteRow, Listener, Working, Worker
<1>7. ASSUME n \in opening
      PROVE  /\ session[n] = Blank /\ note[n].text = 0
             /\ \A e \in Working(n)' : ~e.own /\ e.text = 0
  <2>1. session[n] = Blank /\ note[n].text = 0 /\ \A e \in Working(n) : ~e.own /\ e.text = 0
    BY <1>7 DEF TextInv, BlankBefore
  <2>2. session[n].state # "open"
    BY <2>1 DEF Blank
  <2>3. ~d.own /\ d.text = 0
    BY <1>2, <2>1, <2>2
  <2>4. QED BY <1>6, <2>1, <2>3
<1>8. Holds(n)' => Holds(n)
  BY <1>2, <1>3, <1>6 DEF Holds
<1>9. Holds(n) => /\ note[n].text <= session[n].heard
                  /\ \A e \in Working(n)' : e.text <= session[n].heard
  BY <1>2, <1>6, <1>t DEF TextInv, HeardAll
<1>10. ASSUME NEW e \in Working(n)', e.own, e.stage # "closing"
       PROVE  /\ session[n].state # "open" /\ session[n].heard <= e.text
              /\ note[n].text <= e.text /\ \A f \in Working(n)' : f.text <= e.text
  <2>1. e \in Working(n)
    BY <1>2, <1>6, <1>10
  <2>2. /\ session[n].state # "open" /\ session[n].heard <= e.text
        /\ note[n].text <= e.text /\ \A f \in Working(n) : f.text <= e.text
    BY <1>10, <2>1 DEF TextInv, OwnKnowsAll, Working
  <2>3. d.text <= e.text
    BY <1>2, <1>t, <2>1, <2>2
  <2>4. QED BY <1>6, <2>2, <2>3
<1>11. d.stage = "closing" => d.own /\ d.text = 0
  BY <1>2
<1>12. QED
  BY <1>2, <1>3, <1>4, <1>5, <1>7, <1>8, <1>9, <1>10, <1>11, OneNotesText

\* A chain takes the session's phrases with it.
LEMMA CloseKeepsText ==
    ASSUME ClerkShape, ClerkShape', TextInv, NEW c \in chains, SessionCloses(c)
    PROVE  TextInv'
<1> DEFINE n == c.note
           d == Gathered(c)
           h == IF \E b \in chains \ {c} : b.note = c.note /\ b.stage = "closing"
                THEN session[c.note].heard ELSE 0
<1>0. n \in Notes /\ c \in Worker /\ c.own /\ c.stage = "closing" /\ c \in Working(n)
  BY DEF ClerkShape, Worker, TextInv, ClosingHolds, SessionCloses, Working
<1>1. /\ session' = [session EXCEPT ![n] = [state |-> "none", heard |-> h]]
      /\ chains' = (chains \ {c}) \union {d} /\ SetStatus(n, "summarizing")
      /\ UNCHANGED opening
  BY DEF SessionCloses, requests
<1>t. /\ note[n].text \in Nat /\ session[n].heard \in Nat
      /\ \A e \in Working(n) : e.text \in Nat /\ e \in chains
  BY <1>0 DEF ClerkShape, NoteRow, Listener, Working, Worker
<1>2. /\ note[n].text <= session[n].heard
      /\ \A e \in Working(n) : e.text <= session[n].heard
  BY <1>0 DEF TextInv, HeardAll, Holds
<1>3. /\ d.note = n /\ d.own /\ d.stage = "summarizing" /\ d.text = session[n].heard
  <2>1. Transcript(c.note, c.own) = session[n].heard
    <3>1. CASE session[n].heard > 0
      BY <1>0, <3>1 DEF Transcript
    <3>2. CASE ~(session[n].heard > 0)
      <4>1. session[n].heard = 0 /\ note[n].text = 0
        BY <1>2, <1>t, <3>2
      <4>2. QED BY <4>1 DEF Transcript
    <3>3. QED BY <3>1, <3>2
  <2> DEFINE t == Transcript(c.note, c.own)
  <2>2. d = [c EXCEPT !.stage = "summarizing", !.text = t]
    BY DEF Gathered
  <2> HIDE DEF t
  <2>3. d.note = c.note /\ d.own = c.own /\ d.stage = "summarizing" /\ d.text = t
    BY <1>0, <2>2 DEF Worker
  <2>4. QED BY <1>0, <2>1, <2>3 DEF t
<1>h. h = session[n].heard \/ h = 0
  OBVIOUS
<1> HIDE DEF d, h
<1>4. /\ session'[n].state = "none" /\ session'[n].heard = h
      /\ \A m \in Notes \ {n} : session'[m] = session[m]
  BY <1>0, <1>1 DEF ClerkShape
<1>5. \A m \in Notes : /\ note'[m].text = note[m].text
                       /\ note'[m].status = "none" <=> note[m].status = "none"
                       /\ m # n => note'[m] = note[m]
  BY <1>0, <1>1, StatusKeepsRest DEF NoteStatus, Active, Processing
<1>6. Working(n)' = (Working(n) \ {c}) \union {d}
  BY <1>0, <1>1, <1>3 DEF Working
<1>7. n \notin opening /\ note[n].status # "none"
  BY <1>0 DEF TextInv, BlankBefore
<1>8. Holds(n)' => h = session[n].heard
  <2>1. ASSUME NEW b \in Working(n)', b.stage = "closing"
        PROVE  b \in chains \ {c} /\ b.note = c.note
    BY <1>3, <1>6, <2>1 DEF Working
  <2>2. QED BY <1>4, <2>1 DEF Holds, h
<1>9. Holds(n)' => /\ note'[n].text <= session'[n].heard
                   /\ \A e \in Working(n)' : e.text <= session'[n].heard
  BY <1>0, <1>2, <1>3, <1>4, <1>5, <1>6, <1>8, <1>t
<1>10. ASSUME NEW e \in Working(n)', e.own, e.stage # "closing"
       PROVE  /\ session'[n].state # "open" /\ session'[n].heard <= e.text
              /\ note'[n].text <= e.text /\ \A f \in Working(n)' : f.text <= e.text
  <2>1. CASE e = d
    <3>1. h <= d.text
      BY <1>h, <1>3, <1>t
    <3>2. \A f \in Working(n)' : f.text <= d.text
      BY <1>2, <1>3, <1>6, <1>t
    <3>3. QED BY <1>0, <1>2, <1>3, <1>4, <1>5, <2>1, <3>1, <3>2
  <2>2. CASE e # d
    <3>1. e \in Working(n) /\ e \in chains /\ e.note = n
      BY <1>6, <2>2 DEF Working
    <3>2. /\ session[n].heard <= e.text /\ note[n].text <= e.text
          /\ \A f \in Working(n) : f.text <= e.text
      BY <1>10, <3>1 DEF TextInv, OwnKnowsAll
    <3>3. h <= e.text
      BY <1>h, <1>t, <3>1, <3>2
    <3>4. \A f \in Working(n)' : f.text <= e.text
      BY <1>3, <1>6, <3>2
    <3>5. QED BY <1>0, <1>4, <1>5, <3>2, <3>3, <3>4
  <2>3. QED BY <2>1, <2>2
<1>11. QED
  BY <1>0, <1>1, <1>3, <1>4, <1>5, <1>7, <1>9, <1>10, OneNotesText

\* The summary replaces the row's text by the chain's, which is no longer than a
\* session that is still there, or than a chain that held it.
LEMMA SummaryKeepsText ==
    ASSUME ClerkShape, ClerkShape', TextInv, NEW c \in chains, Summarized(c)
    PROVE  TextInv'
<1> DEFINE n == c.note
           d == [c EXCEPT !.stage = "rendering"]
           r == [note[n] EXCEPT !.status = "rendering", !.text = c.text, !.summary = c.id]
<1>0. n \in Notes /\ c \in Worker /\ c.stage = "summarizing" /\ c \in Working(n)
  BY DEF ClerkShape, Worker, Summarized, Working
<1>1. d.note = n /\ d.own = c.own /\ d.text = c.text /\ d.stage = "rendering"
  BY <1>0 DEF Worker
<1>2. r \in NoteRow /\ r.status = "rendering" /\ r.text = c.text
  <2>1. note[n] \in NoteRow /\ c.text \in Nat /\ c.id \in Nat /\ "rendering" \in NoteStatus
    BY <1>0 DEF ClerkShape, Worker, NoteStatus, Active, Processing
  <2>2. QED BY <2>1 DEF NoteRow
<1>3. Patch(n, r) /\ chains' = (chains \ {c}) \union {d} /\ UNCHANGED <<session, opening>>
  BY DEF Summarized, NextStage, requests
<1> HIDE DEF d, r
<1>4. \A m \in Notes : note'[m] = IF m = n /\ Row(n) THEN r ELSE note[m]
  BY <1>0, <1>2, <1>3, PatchIsTyped
<1>5. /\ note'[n].text = note[n].text \/ note'[n].text = c.text
      /\ note'[n].status = "none" <=> note[n].status = "none"
  BY <1>0, <1>2, <1>4 DEF Row
<1>6. Working(n)' = (Working(n) \ {c}) \union {d}
  BY <1>0, <1>1, <1>3 DEF Working
<1>7. note[n].status # "none"
  BY <1>0 DEF TextInv, BlankBefore
<1>8. ASSUME n \in opening
      PROVE  /\ session[n] = Blank /\ note'[n].text = 0
             /\ \A e \in Working(n)' : ~e.own /\ e.text = 0
  <2>1. session[n] = Blank /\ note[n].text = 0 /\ \A e \in Working(n) : ~e.own /\ e.text = 0
    BY <1>0, <1>8 DEF TextInv, BlankBefore
  <2>2. QED BY <1>0, <1>1, <1>5, <1>6, <2>1
<1>9. Holds(n)' => Holds(n)
  BY <1>1, <1>3, <1>6 DEF Holds
<1>10. Holds(n) => /\ note'[n].text <= session[n].heard
                   /\ \A e \in Working(n)' : e.text <= session[n].heard
  BY <1>0, <1>1, <1>5, <1>6 DEF TextInv, HeardAll
<1>11. ASSUME NEW e \in Working(n)', e.own, e.stage # "closing"
       PROVE  /\ session[n].state # "open" /\ session[n].heard <= e.text
              /\ note'[n].text <= e.text /\ \A f \in Working(n)' : f.text <= e.text
  <2>1. PICK b \in Working(n) : b.own /\ b.stage # "closing" /\ b.text = e.text
    BY <1>0, <1>1, <1>6, <1>11
  <2>2. /\ session[n].state # "open" /\ session[n].heard <= b.text
        /\ note[n].text <= b.text /\ \A f \in Working(n) : f.text <= b.text
    BY <2>1 DEF TextInv, OwnKnowsAll, Working
  <2>3. QED BY <1>0, <1>1, <1>5, <1>6, <2>1, <2>2
<1>12. QED
  BY <1>0, <1>1, <1>3, <1>4, <1>5, <1>7, <1>8, <1>9, <1>10, <1>11, OneNotesText

\* The rendering, the upload and its failure leave the text alone.
LEMMA LateStageKeepsText ==
    ASSUME ClerkShape, ClerkShape', TextInv, NEW c \in chains,
           Rendered(c) \/ Uploaded(c) \/ ChainFails(c)
    PROVE  TextInv'
<1> USE DEF work, mail, past, requests
<1>0. c.note \in Notes /\ c \in Worker /\ c.stage # "closing" /\ c \in Working(c.note)
  BY DEF ClerkShape, Worker, Rendered, Uploaded, ChainFails, Working
<1>1. CASE Rendered(c)
  <2> DEFINE n == c.note
             d == [c EXCEPT !.stage = "uploading"]
  <2>1. d.note = n /\ d.own = c.own /\ d.text = c.text /\ d.stage = "uploading"
    BY <1>0 DEF Worker
  <2>2. SetStatus(n, "uploading") /\ chains' = (chains \ {c}) \union {d}
        /\ UNCHANGED <<session, opening>>
    BY <1>1 DEF Rendered, NextStage
  <2> HIDE DEF d
  <2>3. \A m \in Notes : /\ note'[m].text = note[m].text
                         /\ note'[m].status = "none" <=> note[m].status = "none"
                         /\ m # n => note'[m] = note[m]
    BY <1>0, <2>2, StatusKeepsRest DEF NoteStatus, Active, Processing
  <2>4. Working(n)' = (Working(n) \ {c}) \union {d}
    BY <1>0, <2>1, <2>2 DEF Working
  <2>5. note[n].status # "none"
    BY <1>0 DEF TextInv, BlankBefore
  <2>6. n \in opening => session[n] = Blank /\ note[n].text = 0
                         /\ \A e \in Working(n)' : ~e.own /\ e.text = 0
    BY <1>0, <2>1, <2>4 DEF TextInv, BlankBefore
  <2>7. Holds(n)' => Holds(n)
    BY <2>1, <2>2, <2>4 DEF Holds
  <2>8. Holds(n) => /\ note[n].text <= session[n].heard
                    /\ \A e \in Working(n)' : e.text <= session[n].heard
    BY <1>0, <2>1, <2>4 DEF TextInv, HeardAll
  <2>9. ASSUME NEW e \in Working(n)', e.own, e.stage # "closing"
        PROVE  /\ session[n].state # "open" /\ session[n].heard <= e.text
               /\ note[n].text <= e.text /\ \A f \in Working(n)' : f.text <= e.text
    <3>1. PICK b \in Working(n) : b.own /\ b.stage # "closing" /\ b.text = e.text
      BY <1>0, <2>1, <2>4, <2>9
    <3>2. /\ session[n].state # "open" /\ session[n].heard <= b.text
          /\ note[n].text <= b.text /\ \A f \in Working(n) : f.text <= b.text
      BY <3>1 DEF TextInv, OwnKnowsAll, Working
    <3>3. QED BY <1>0, <2>1, <2>4, <3>1, <3>2
  <2>10. QED
    BY <1>0, <2>1, <2>2, <2>3, <2>4, <2>5, <2>6, <2>7, <2>8, <2>9, OneNotesText
<1>2. CASE Uploaded(c)
  <2> DEFINE n == c.note
             r == [note[n] EXCEPT !.status = "awaiting_recipients", !.selection = "pending"]
  <2>1. /\ r \in NoteRow /\ r.status = "awaiting_recipients" /\ r.text = note[n].text
        /\ Patch(n, r) /\ chains' = chains \ {c} /\ UNCHANGED <<session, opening>>
    <3>1. note[n] \in NoteRow /\ "awaiting_recipients" \in NoteStatus
      BY <1>0 DEF ClerkShape, NoteStatus, Active
    <3>2. r \in NoteRow /\ r.status = "awaiting_recipients" /\ r.text = note[n].text
      BY <3>1 DEF NoteRow
    <3>3. QED BY <1>2, <3>2 DEF Uploaded, Over
  <2> HIDE DEF r
  <2>2. \A m \in Notes : note'[m] = IF m = n /\ Row(n) THEN r ELSE note[m]
    BY <1>0, <2>1, PatchIsTyped
  <2>3. \A m \in Notes : note'[m].text = note[m].text
                         /\ (note'[m].status = "none" => note[m].status = "none")
    BY <2>1, <2>2
  <2>4. QED BY <2>1, <2>3, SameText
<1>3. CASE ChainFails(c)
  <2>1. SetStatus(c.note, "failed") /\ chains' = chains \ {c}
        /\ UNCHANGED <<session, opening>>
    BY <1>3 DEF ChainFails, MarkFailed, Over
  <2>2. \A m \in Notes : note'[m].text = note[m].text
                         /\ (note'[m].status = "none" => note[m].status = "none")
    BY <1>0, <2>1, StatusKeepsRest DEF NoteStatus
  <2>3. QED BY <2>1, <2>2, SameText
<1>4. QED BY <1>1, <1>2, <1>3

\* The pages, the mail and the deletion leave the text alone.
LEMMA RestKeepsText ==
    ASSUME ClerkShape, ClerkShape', TextInv, NEW n \in Notes,
           \/ PressStop(n) \/ StopIgnored(n) \/ SendSummary(n) \/ SummarySent(n)
           \/ SkipSummary(n) \/ DeleteNote(n)
    PROVE  TextInv'
<1> USE DEF work, mail, past, requests
<1>1. /\ chains' = chains /\ session' = session /\ opening' = opening
      /\ \/ note' = note \/ \E how \in {"sent", "skipped"} : Decided(n, how)
         \/ Row(n) /\ note' = [note EXCEPT ![n] = [note[n] EXCEPT !.status = "deleted"]]
  BY DEF PressStop, StopIgnored, SendSummary, SummarySent, SkipSummary, DeleteNote
<1>2. \A m \in Notes : note'[m].text = note[m].text
                       /\ (note'[m].status = "none" => note[m].status = "none")
  <2>1. ASSUME NEW how \in {"sent", "skipped"}, Decided(n, how), NEW m \in Notes
        PROVE  note'[m].text = note[m].text
               /\ (note'[m].status = "none" => note[m].status = "none")
    <3> DEFINE r == [note[n] EXCEPT !.status = "uploaded", !.selection = how]
    <3>1. r \in NoteRow /\ r.status = "uploaded" /\ r.text = note[n].text /\ Patch(n, r)
      BY <2>1 DEF Decided, ClerkShape, NoteRow, NoteStatus
    <3> HIDE DEF r
    <3>2. note'[m] = IF m = n /\ Row(n) THEN r ELSE note[m]
      BY <3>1, PatchIsTyped
    <3>3. QED BY <3>1, <3>2
  <2>2. [note[n] EXCEPT !.status = "deleted"].text = note[n].text
        /\ [note[n] EXCEPT !.status = "deleted"].status = "deleted"
    BY DEF ClerkShape, NoteRow
  <2>3. QED BY <1>1, <2>1, <2>2 DEF ClerkShape
<1>3. QED BY <1>1, <1>2, SameText

\* A restart takes the chains and what the sessions heard.
LEMMA RestartKeepsText ==
    ASSUME ClerkShape, ClerkShape', TextInv, RestartClerk
    PROVE  TextInv'
<1>1. /\ chains' = {} /\ opening' = {} /\ note' = note
      /\ \A n \in Notes : session'[n] = IF session[n].state = "failed" THEN session[n]
                                        ELSE Blank
  BY DEF RestartClerk, Blank
<1>2. \A n \in Notes : session'[n].state # "open"
  BY <1>1 DEF Blank
<1>3. \A n \in Notes : Working(n)' = {} /\ ~Holds(n)'
  BY <1>1, <1>2 DEF Working, Holds
<1>4. QED
  BY <1>1, <1>3 DEF TextInv, BlankBefore, ClosingHolds, HeardAll, OwnKnowsAll, Blank

\* Nothing was said.
LEMMA TextStarts == ClerkInit => TextInv
BY DEF ClerkInit, TextInv, BlankBefore, ClosingHolds, HeardAll, OwnKnowsAll, Working, Holds,
       Blank

\* Each step keeps every phrase where it can be found.
LEMMA TextStays ==
    ASSUME ClerkShape, ClerkShape', TextInv, [ClerkNext]_clerkVars
    PROVE  TextInv'
<1>1. ASSUME NEW n \in Notes, StartClerk(n) \/ SessionStarts(n) \/ SessionFails(n)
      PROVE  TextInv'
  BY <1>1, StartKeepsText
<1>2. ASSUME NEW n \in Notes, Hear(n) \/ StopClerk(n) PROVE TextInv'
  BY <1>2, HearKeepsText, StopKeepsText
<1>3. ASSUME NEW n \in Notes,
             \/ PressStop(n) \/ StopIgnored(n) \/ SendSummary(n) \/ SummarySent(n)
             \/ SkipSummary(n) \/ DeleteNote(n)
      PROVE  TextInv'
  BY <1>3, RestKeepsText
<1>4. ASSUME NEW c \in chains, ChainStep(c) PROVE TextInv'
  BY <1>4, CloseKeepsText, SummaryKeepsText, LateStageKeepsText DEF ChainStep
<1>5. CASE RestartClerk
  BY <1>5, RestartKeepsText
<1>6. CASE UNCHANGED clerkVars
  BY <1>6, SameText DEF clerkVars, work, requests
<1>7. QED BY <1>1, <1>2, <1>3, <1>4, <1>5, <1>6 DEF ClerkNext

\* What TranscriptLostToOrphan and the mail are proved from.
TranscriptInv == ClerkShape /\ TextInv

\* The types and where the phrases are, in every state.
LEMMA TranscriptInvStays == ClerkSpec => []TranscriptInv
<1>1. ClerkInit => TranscriptInv
  BY InitIsGood, TextStarts DEF IInv, TranscriptInv
<1>2. IInv /\ IInv' /\ TranscriptInv /\ [ClerkNext]_clerkVars => TranscriptInv'
  BY TextStays DEF IInv, TranscriptInv
<1>3. QED BY <1>1, <1>2, InductiveInvariant, PTL DEF ClerkSpec

\* The kept transcript loses phrases only where the stop came before the
\* session was there: no other chain writes less than the row has.
LEMMA OnlyOrphansLose ==
    ASSUME TranscriptInv, [ClerkNext]_clerkVars, NEW n \in Notes,
           note'[n].text < note[n].text
    PROVE  \E c \in chains : c.note = n /\ ~c.own /\ c.text < note[n].text
<1> USE DEF work, mail, past, requests
<1>t. ClerkShape /\ note[n].text \in Nat
  BY DEF TranscriptInv, ClerkShape, NoteRow
<1>1. ASSUME note'[n].text = note[n].text PROVE FALSE
  BY <1>1, <1>t
<1>2. ASSUME NEW m \in Notes, NEW s \in NoteStatus \ {"none"}, SetStatus(m, s) PROVE FALSE
  BY <1>1, <1>2, <1>t, StatusKeepsRest
<1>3. ASSUME NEW m \in Notes, StartClerk(m) \/ DeleteNote(m) PROVE FALSE
  <2>1. PICK s : note' = [note EXCEPT ![m] = [note[m] EXCEPT !.status = s]]
    BY <1>3 DEF StartClerk, DeleteNote
  <2>2. note[m] \in NoteRow
    BY <1>t DEF ClerkShape
  <2>3. [note[m] EXCEPT !.status = s].text = note[m].text
    BY <2>2 DEF NoteRow
  <2>4. QED BY <1>1, <1>t, <2>1, <2>3 DEF ClerkShape
<1>4. ASSUME NEW m \in Notes, SessionStarts(m) \/ SessionFails(m) PROVE FALSE
  BY <1>1, <1>2, <1>4 DEF SessionStarts, SessionFails, NoteStatus
<1>5. ASSUME NEW m \in Notes, Hear(m) PROVE FALSE
  <2> DEFINE r == [note[m] EXCEPT !.text = @ + 1]
  <2>1. r \in NoteRow /\ r.text = note[m].text + 1
    BY <1>t DEF ClerkShape, NoteRow
  <2>2. Patch(m, r)
    BY <1>5 DEF Hear
  <2> HIDE DEF r
  <2>3. note'[n] = IF n = m /\ Row(m) THEN r ELSE note[n]
    BY <1>t, <2>1, <2>2, PatchIsTyped
  <2>4. QED BY <1>t, <2>1, <2>3
<1>6. ASSUME NEW m \in Notes,
             PressStop(m) \/ StopClerk(m) \/ StopIgnored(m) \/ SendSummary(m)
      PROVE  FALSE
  BY <1>1, <1>2, <1>6
     DEF PressStop, StopClerk, StopIgnored, SendSummary, NoteStatus, Active, Processing
<1>7. ASSUME NEW m \in Notes, SummarySent(m) \/ SkipSummary(m) PROVE FALSE
  <2>1. PICK how \in {"sent", "skipped"} : Decided(m, how)
    BY <1>7 DEF SummarySent, SkipSummary
  <2> DEFINE r == [note[m] EXCEPT !.status = "uploaded", !.selection = how]
  <2>2. note[m] \in NoteRow /\ "uploaded" \in NoteStatus
    BY <1>t DEF ClerkShape, NoteStatus
  <2>3. r \in NoteRow /\ r.text = note[m].text
    BY <2>2 DEF NoteRow
  <2>4. Patch(m, r)
    BY <2>1 DEF Decided
  <2> HIDE DEF r
  <2>5. note'[n] = IF n = m /\ Row(m) THEN r ELSE note[n]
    BY <1>t, <2>3, <2>4, PatchIsTyped
  <2>6. QED BY <1>1, <2>3, <2>5
<1>8. ASSUME NEW c \in chains, SessionCloses(c) \/ Rendered(c) \/ ChainFails(c) PROVE FALSE
  <2>1. c.note \in Notes
    BY <1>t DEF ClerkShape, Worker
  <2>2. QED
    BY <1>2, <1>8, <2>1
       DEF SessionCloses, Rendered, ChainFails, MarkFailed, NoteStatus, Active, Processing
<1>9. ASSUME NEW c \in chains, Uploaded(c) PROVE FALSE
  <2> DEFINE r == [note[c.note] EXCEPT !.status = "awaiting_recipients",
                                       !.selection = "pending"]
  <2>1. c.note \in Notes /\ note[c.note] \in NoteRow /\ "awaiting_recipients" \in NoteStatus
    BY <1>t DEF ClerkShape, Worker, NoteStatus, Active
  <2>2. r \in NoteRow /\ r.text = note[c.note].text
    BY <2>1 DEF NoteRow
  <2>3. Patch(c.note, r)
    BY <1>9 DEF Uploaded
  <2> HIDE DEF r
  <2>4. note'[n] = IF n = c.note /\ Row(c.note) THEN r ELSE note[n]
    BY <1>t, <2>1, <2>2, <2>3, PatchIsTyped
  <2>5. QED BY <1>1, <2>2, <2>4
<1>10. ASSUME NEW c \in chains, Summarized(c)
       PROVE  \E b \in chains : b.note = n /\ ~b.own /\ b.text < note[n].text
  <2> DEFINE r == [note[c.note] EXCEPT !.status = "rendering", !.text = c.text,
                                       !.summary = c.id]
  <2>1. /\ c.note \in Notes /\ note[c.note] \in NoteRow /\ c \in Worker
        /\ "rendering" \in NoteStatus
    BY <1>t DEF ClerkShape, Worker, NoteStatus, Active, Processing
  <2>2. r \in NoteRow /\ r.text = c.text
    BY <2>1 DEF NoteRow, Worker
  <2>3. Patch(c.note, r) /\ c.stage = "summarizing"
    BY <1>10 DEF Summarized
  <2> HIDE DEF r
  <2>4. note'[n] = IF n = c.note /\ Row(c.note) THEN r ELSE note[n]
    BY <1>t, <2>1, <2>2, <2>3, PatchIsTyped
  <2>5. n = c.note /\ c.text < note[n].text
    BY <1>1, <2>2, <2>4
  <2>6. ~(note[c.note].text <= c.text)
    BY <1>t, <2>1, <2>5 DEF Worker
  <2>7. ~c.own
    BY <2>1, <2>3, <2>6 DEF TranscriptInv, TextInv, OwnKnowsAll
  <2>8. QED BY <2>5, <2>7
<1>11. ASSUME note' = note PROVE FALSE
  BY <1>1, <1>11
<1>12. QED
  BY <1>3, <1>4, <1>5, <1>6, <1>7, <1>8, <1>9, <1>10, <1>11
     DEF ClerkNext, ChainStep, clerkVars, RestartClerk

\* The transcript of a row shrinks only when a chain without a session writes it: its stop
\* came before the session was there.
THEOREM TranscriptIsLostToOrphans == ClerkSpec => TranscriptLostToOrphan
<1>1. TranscriptInv /\ [ClerkNext]_clerkVars =>
         [\A n \in Notes : note'[n].text < note[n].text =>
             \E c \in chains : c.note = n /\ ~c.own /\ c.text < note[n].text]_clerkVars
  BY OnlyOrphansLose
<1>2. QED BY <1>1, TranscriptInvStays, PTL DEF ClerkSpec, TranscriptLostToOrphan

-----------------------------------------------------------------------------
(* The summary mail *)

Late        == {"rendering", "uploading"}
Ready(n)    == note[n].status \in {"awaiting_recipients", "uploaded"}
Settled(n)  == note[n].selection \in {"sent", "skipped"}
\* A summary the host may mail, or has mailed.
Mailable(n) == Ready(n) \/ mailed[n] > 0

\* Of one note.  With one stop, there is one chain, and none once it can be mailed.
NoteMail(n) ==
    /\ note[n].status = "none" => stops[n] = 0
    /\ note[n].summary <= stops[n] /\ payload[n] <= stops[n]
    /\ \A c \in Working(n) : 1 <= c.id /\ c.id <= stops[n]
    /\ Row(n) /\ payload[n] > 0 => note[n].summary > 0
    /\ Row(n) => \A c \in Working(n) : c.stage \in Late => note[n].summary > 0
    /\ stops[n] <= 1 => \A c, d \in Working(n) : c = d
    /\ Mailable(n) => stops[n] > 0
    /\ Mailable(n) /\ stops[n] <= 1 => Working(n) = {}
    /\ sending[n] > 0 => mailed[n] > 0
    /\ mailed[n] > 0 /\ stops[n] <= 1 /\ Row(n) => Settled(n) \/ sending[n] > 0 \/ n \in cut

\* Of every note.
MailInv == \A n \in Notes : NoteMail(n)

\* What a step does to a note: nothing the mail depends on, except that chains may go.
MailSame(n) == /\ payload'[n] = payload[n] /\ sending'[n] = sending[n]
               /\ mailed'[n] = mailed[n] /\ cut' = cut
RowSame(n)  == /\ note'[n].summary = note[n].summary /\ note'[n].selection = note[n].selection
               /\ Row(n)' => Row(n) \/ note[n].status = "none"
               /\ note'[n].status = "none" => note[n].status = "none"

\* A step that leaves the mail of a note, and makes it no readier.
Calm(n) == /\ MailSame(n) /\ RowSame(n) /\ stops'[n] = stops[n]
           /\ Working(n)' \subseteq Working(n)
           /\ Ready(n)' => Ready(n)

\* A stop that adds a chain, with a number of its own.
Joined(n) == /\ MailSame(n) /\ RowSame(n) /\ Row(n) /\ ~Ready(n)' /\ stops'[n] = stops[n] + 1
             /\ \E d : /\ d.id = stops[n] + 1 /\ d.stage \notin Late
                       /\ Working(n)' = Working(n) \union {d}

\* A chain goes on, and may write its own summary into the row.
Moved(n) == /\ MailSame(n) /\ ~Ready(n)' /\ stops'[n] = stops[n]
            /\ (Row(n)' => Row(n)) /\ note'[n].status # "none"
            /\ note'[n].selection = note[n].selection
            /\ \E c \in Working(n) : \E d :
                  /\ d.id = c.id /\ Working(n)' = (Working(n) \ {c}) \union {d}
                  /\ d.stage \in Late => c.stage \in Late \/ (Row(n) => note'[n].summary = c.id)
                  /\ note'[n].summary \in {note[n].summary, c.id}

\* The last chain of a note finishes and hands its summary to the mail.
Done(n) == /\ note'[n].summary = note[n].summary /\ (Row(n)' => Row(n))
           /\ stops'[n] = stops[n] /\ note'[n].status # "none"
           /\ sending'[n] = sending[n] /\ mailed'[n] = mailed[n] /\ cut' = cut
           /\ \E c \in Working(n) : /\ c.stage \in Late /\ Working(n)' = Working(n) \ {c}
                                    /\ payload'[n] = c.id

\* The host mails the summary.
Mails(n) == /\ note' = note /\ Ready(n) /\ ~Settled(n) /\ stops'[n] = stops[n] /\ cut' = cut
            /\ payload'[n] = payload[n] /\ Working(n)' = Working(n)
            /\ sending'[n] = sending[n] + 1 /\ mailed'[n] = mailed[n] + 1

\* The mail is marked as sent, or skipped.
Settles(n) == /\ note'[n].summary = note[n].summary /\ (Row(n)' => Row(n))
              /\ (Row(n)' => Settled(n)') /\ Mailable(n) /\ note'[n].status # "none"
              /\ stops'[n] = stops[n] /\ cut' = cut /\ Working(n)' = Working(n)
              /\ payload'[n] = 0 /\ mailed'[n] = mailed[n]
              /\ sending'[n] > 0 => sending[n] > 0

\* A restart ends the chains of a note and cuts a mail off from its mark.
CutOff(n) == /\ note' = note /\ stops'[n] = stops[n] /\ Working(n)' = {} /\ payload'[n] = 0
             /\ sending'[n] = 0 /\ mailed'[n] = mailed[n]
             /\ cut \subseteq cut' /\ (sending[n] > 0 => n \in cut')

\* All the types.
MailShapes == ClerkShape /\ MailShape

\* A calm step keeps the mail of a note sound.
LEMMA CalmIsGood ==
    ASSUME MailShapes, MailShapes', NEW n \in Notes, NoteMail(n), Calm(n)
    PROVE  NoteMail(n)'
<1>1. /\ note[n].summary \in Nat /\ stops[n] \in Nat /\ payload[n] \in Nat
  BY DEF MailShapes, ClerkShape, MailShape, NoteRow
<1>2. note[n].status = "none" => Working(n) = {} /\ payload[n] = 0
  <2>1. ASSUME note[n].status = "none" PROVE stops[n] = 0 /\ payload[n] = 0
    BY <1>1, <2>1 DEF NoteMail
  <2>2. ASSUME NEW c \in Working(n), stops[n] = 0 PROVE FALSE
    <3>1. 1 <= c.id /\ c.id <= 0 /\ c.id \in Nat
      BY <2>2 DEF NoteMail, Working, MailShapes, ClerkShape, Worker
    <3>2. QED BY <3>1
  <2>3. QED BY <2>1, <2>2
<1>3. Mailable(n)' => Mailable(n)
  BY DEF Calm, MailSame, Mailable
<1>4. mailed[n] > 0 => note[n].status # "none"
  BY <1>1 DEF NoteMail, Mailable
<1>5. Settled(n)' <=> Settled(n)
  BY DEF Settled, Calm, RowSame
<1>6. QED BY <1>1, <1>2, <1>3, <1>4, <1>5 DEF NoteMail, Calm, MailSame, RowSame

\* So does a stop.
LEMMA JoinedIsGood ==
    ASSUME MailShapes, MailShapes', NEW n \in Notes, NoteMail(n), Joined(n)
    PROVE  NoteMail(n)'
<1>1. PICK d : d.id = stops[n] + 1 /\ d.stage \notin Late /\ Working(n)' = Working(n) \union {d}
  BY DEF Joined
<1>2. /\ note[n].summary \in Nat /\ stops[n] \in Nat /\ payload[n] \in Nat
      /\ \A c \in Working(n) : c.id \in Nat
  BY DEF MailShapes, ClerkShape, MailShape, NoteRow, Working, Worker
<1>3. stops[n] = 0 => Working(n) = {}
  BY <1>2 DEF NoteMail
<1>4. Mailable(n)' => mailed[n] > 0 /\ stops[n] > 0
  BY DEF Joined, MailSame, Mailable, NoteMail
<1>5. /\ stops'[n] = stops[n] + 1 /\ note'[n].summary = note[n].summary
      /\ payload'[n] = payload[n] /\ sending'[n] = sending[n] /\ mailed'[n] = mailed[n]
      /\ Row(n)  /\ note'[n].status # "none"
  BY DEF Joined, MailSame, RowSame, Row
<1>6. note'[n].summary <= stops'[n] /\ payload'[n] <= stops'[n]
  BY <1>2, <1>5 DEF NoteMail
<1>7. \A c \in Working(n)' : 1 <= c.id /\ c.id <= stops'[n]
  BY <1>1, <1>2, <1>5 DEF NoteMail
<1>8. \A c \in Working(n)' : c.stage \in Late => note'[n].summary > 0
  BY <1>1, <1>5 DEF NoteMail
<1>9. stops'[n] <= 1 => stops[n] = 0
  BY <1>2, <1>5
<1>10. stops'[n] <= 1 => \A c, e \in Working(n)' : c = e
  BY <1>1, <1>3, <1>9
<1>11. stops'[n] > 0
  BY <1>2, <1>5
<1>12. ~(Mailable(n)' /\ stops'[n] <= 1) /\ (stops'[n] <= 1 => ~(mailed[n] > 0))
  BY <1>4, <1>9 DEF NoteMail, Mailable
<1>13. QED
  BY <1>5, <1>6, <1>7, <1>8, <1>10, <1>11, <1>12 DEF NoteMail

\* So does a chain that goes on: with one stop there is no other chain.
LEMMA MovedIsGood ==
    ASSUME MailShapes, MailShapes', NEW n \in Notes, NoteMail(n), Moved(n)
    PROVE  NoteMail(n)'
<1>0. PICK c \in Working(n) : \E d :
         /\ d.id = c.id /\ Working(n)' = (Working(n) \ {c}) \union {d}
         /\ d.stage \in Late => c.stage \in Late \/ (Row(n) => note'[n].summary = c.id)
         /\ note'[n].summary \in {note[n].summary, c.id}
  BY DEF Moved
<1>1. PICK d :
         /\ d.id = c.id /\ Working(n)' = (Working(n) \ {c}) \union {d}
         /\ d.stage \in Late => c.stage \in Late \/ (Row(n) => note'[n].summary = c.id)
         /\ note'[n].summary \in {note[n].summary, c.id}
  BY <1>0
<1>2. /\ note[n].summary \in Nat /\ stops[n] \in Nat /\ payload[n] \in Nat
      /\ \A b \in Working(n) : b.id \in Nat
  BY DEF MailShapes, ClerkShape, MailShape, NoteRow, Working, Worker
<1>3. 1 <= c.id /\ c.id <= stops[n] /\ c.id \in Nat
  BY <1>2 DEF NoteMail
<1>4. Mailable(n)' => mailed[n] > 0 /\ ~(stops[n] <= 1)
  BY DEF Moved, MailSame, Mailable, NoteMail
<1>5. note[n].summary > 0 => note'[n].summary > 0
  BY <1>1, <1>2, <1>3
<1>6. \A b \in Working(n)' : 1 <= b.id /\ b.id <= stops[n]
  BY <1>1, <1>3 DEF NoteMail
<1>7. note'[n].summary <= stops[n]
  BY <1>1, <1>3 DEF NoteMail
<1>8. Row(n)' => \A b \in Working(n)' : b.stage \in Late => note'[n].summary > 0
  <2> SUFFICES ASSUME Row(n), NEW b \in Working(n)', b.stage \in Late
               PROVE  note'[n].summary > 0
    BY DEF Moved
  <2>1. CASE b \in Working(n)
    BY <1>5, <2>1 DEF NoteMail
  <2>2. CASE b \notin Working(n)
    <3>1. b = d
      BY <1>1, <2>2
    <3>2. c.stage \in Late \/ note'[n].summary = c.id
      BY <1>1, <3>1
    <3>3. CASE c.stage \in Late
      BY <1>5, <3>3 DEF NoteMail
    <3>4. CASE note'[n].summary = c.id
      BY <1>3, <3>4
    <3>5. QED BY <3>2, <3>3, <3>4
  <2>3. QED BY <2>1, <2>2
<1>9. stops[n] <= 1 => \A a, b \in Working(n)' : a = b
  BY <1>1 DEF NoteMail
<1>10. Row(n)' /\ payload[n] > 0 => note'[n].summary > 0
  BY <1>5 DEF NoteMail, Moved
<1>11. mailed[n] > 0 => ~(stops[n] <= 1)
  BY DEF NoteMail, Mailable
<1>s. mailed[n] > 0 => stops[n] > 0
  BY DEF NoteMail, Mailable
<1>12. QED
  BY <1>4, <1>6, <1>7, <1>8, <1>9, <1>10, <1>11, <1>s DEF NoteMail, Moved, MailSame

\* So does a chain that finishes: it hands over the summary the row shows.
LEMMA DoneIsGood ==
    ASSUME MailShapes, MailShapes', NEW n \in Notes, NoteMail(n), Done(n)
    PROVE  NoteMail(n)'
<1>1. PICK c \in Working(n) :
         c.stage \in Late /\ Working(n)' = Working(n) \ {c} /\ payload'[n] = c.id
  BY DEF Done
<1>2. /\ note[n].summary \in Nat /\ stops[n] \in Nat /\ payload[n] \in Nat /\ c.id \in Nat
  BY DEF MailShapes, ClerkShape, MailShape, NoteRow, Working, Worker
<1>3. 1 <= c.id /\ c.id <= stops[n] /\ stops[n] > 0
  BY <1>2 DEF NoteMail
<1>4. Row(n) => note[n].summary > 0
  BY <1>1 DEF NoteMail
<1>5. stops[n] <= 1 => Working(n)' = {} /\ ~(mailed[n] > 0)
  BY <1>1 DEF NoteMail, Mailable
<1>6. QED BY <1>1, <1>3, <1>4, <1>5 DEF NoteMail, Done

\* So does a mail.
LEMMA MailsIsGood ==
    ASSUME MailShapes, MailShapes', NEW n \in Notes, NoteMail(n), Mails(n)
    PROVE  NoteMail(n)'
<1>1. sending[n] \in Nat /\ mailed[n] \in Nat
  BY DEF MailShapes, MailShape
<1>2. sending'[n] > 0 /\ mailed'[n] > 0 /\ Mailable(n) /\ (Row(n)' <=> Row(n))
  BY <1>1 DEF Mails, Mailable, Row
<1>3. QED BY <1>2 DEF NoteMail, Mails

\* So does its mark.
LEMMA SettlesIsGood ==
    ASSUME MailShapes, MailShapes', NEW n \in Notes, NoteMail(n), Settles(n)
    PROVE  NoteMail(n)'
<1>1. stops[n] \in Nat
  BY DEF MailShapes, ClerkShape
<1>2. QED BY <1>1 DEF NoteMail, Settles

\* So does a restart, which is recorded.
LEMMA CutOffIsGood ==
    ASSUME MailShapes, MailShapes', NEW n \in Notes, NoteMail(n), CutOff(n)
    PROVE  NoteMail(n)'
<1>1. stops[n] \in Nat
  BY DEF MailShapes, ClerkShape
<1>2. (Mailable(n)' <=> Mailable(n)) /\ (Row(n)' <=> Row(n)) /\ (Settled(n)' <=> Settled(n))
  BY DEF CutOff, Mailable, Row, Settled, Ready
<1>3. QED BY <1>1, <1>2 DEF NoteMail, CutOff

\* A step that writes one row, or none, is calm for the others.
LEMMA OthersAreCalm ==
    ASSUME NEW n \in Notes, cut' = cut, note'[n] = note[n], stops'[n] = stops[n],
           payload'[n] = payload[n], sending'[n] = sending[n], mailed'[n] = mailed[n],
           Working(n)' \subseteq Working(n)
    PROVE  Calm(n)
BY DEF Calm, MailSame, RowSame, Row, Ready

\* A status alone, of a note that is not ready by it.
LEMMA StatusIsCalm ==
    ASSUME MailShapes, NEW n \in Notes, NEW m \in Notes,
           NEW s \in NoteStatus \ {"none", "awaiting_recipients", "uploaded"}, SetStatus(n, s)
    PROVE  RowSame(m) /\ (Ready(m)' => Ready(m))
           /\ (Row(m)' => Row(m)) /\ (m = n /\ Row(n) => ~Ready(m)')
<1> DEFINE r == [note[n] EXCEPT !.status = s]
<1>1. /\ r \in NoteRow /\ r.status = s /\ r.summary = note[n].summary
      /\ r.selection = note[n].selection
  BY DEF MailShapes, ClerkShape, NoteRow
<1>2. Patch(n, r) /\ ClerkShape
  BY DEF SetStatus, MailShapes
<1> HIDE DEF r
<1>3. note'[m] = IF m = n /\ Row(n) THEN r ELSE note[m]
  BY <1>1, <1>2, PatchIsTyped
<1>4. QED BY <1>1, <1>3 DEF RowSame, Ready, Row

\* The steps of one note's row and session.
LEMMA NoteStepsMail ==
    ASSUME MailShapes, TextInv, NEW m \in Notes, NEW n \in Notes,
           \/ StartClerk(m) \/ SessionStarts(m) \/ SessionFails(m) \/ Hear(m)
           \/ PressStop(m) \/ StopIgnored(m) \/ DeleteNote(m)
    PROVE  Calm(n)
<1> USE DEF work, mail, requests, past
<1>1. MailSame(n) /\ stops'[n] = stops[n] /\ Working(n)' \subseteq Working(n)
  BY DEF StartClerk, SessionStarts, SessionFails, Hear, PressStop, StopIgnored, DeleteNote,
         MailSame, Working
<1>r. note[m] \in NoteRow /\ ClerkShape
  BY DEF MailShapes, ClerkShape
<1>2. CASE StartClerk(m) \/ DeleteNote(m)
  <2>1. PICK s \in {"recording", "deleted"} :
           /\ note' = [note EXCEPT ![m] = [note[m] EXCEPT !.status = s]]
           /\ s = "recording" => note[m].status = "none"
           /\ s = "deleted" => Row(m)
    BY <1>2 DEF StartClerk, DeleteNote, Fresh
  <2> DEFINE r == [note[m] EXCEPT !.status = s]
  <2>2. r.status = s /\ r.summary = note[m].summary /\ r.selection = note[m].selection
    BY <1>r DEF NoteRow
  <2>3. note'[n] = IF n = m THEN r ELSE note[n]
    BY <1>r, <2>1 DEF ClerkShape
  <2> HIDE DEF r
  <2>4. QED BY <1>1, <2>1, <2>2, <2>3 DEF Calm, RowSame, Ready, Row
<1>3. CASE SessionFails(m)
  <2>1. SetStatus(m, "failed")
    BY <1>3 DEF SessionFails
  <2>2. QED BY <1>1, <2>1, StatusIsCalm DEF Calm, NoteStatus
<1>4. CASE Hear(m)
  <2> DEFINE r == [note[m] EXCEPT !.text = @ + 1]
  <2>1. /\ r \in NoteRow /\ r.status = note[m].status /\ r.summary = note[m].summary
        /\ r.selection = note[m].selection
    BY <1>r DEF NoteRow
  <2>2. Patch(m, r)
    BY <1>4 DEF Hear
  <2> HIDE DEF r
  <2>3. note'[n] = IF n = m /\ Row(m) THEN r ELSE note[n]
    BY <1>r, <2>1, <2>2, PatchIsTyped
  <2>4. QED BY <1>1, <2>1, <2>3 DEF Calm, RowSame, Ready, Row
<1>5. CASE SessionStarts(m) \/ PressStop(m) \/ StopIgnored(m)
  <2>1. note' = note
    BY <1>5 DEF SessionStarts, PressStop, StopIgnored
  <2>2. QED BY <1>1, <2>1 DEF Calm, RowSame, Ready, Row
<1>6. QED BY <1>2, <1>3, <1>4, <1>5

\* What a stop does to the mail of each note.
LEMMA StopMail ==
    ASSUME MailShapes, TextInv, NEW m \in Notes, NEW n \in Notes, StopClerk(m)
    PROVE  Calm(n) \/ Joined(n)
<1> USE DEF work, mail, requests, past
<1> DEFINE own == session[m].state = "open"
           c   == [id |-> stops[m] + 1, note |-> m, own |-> own, text |-> 0,
                   stage |-> "closing"]
           d   == IF own THEN c ELSE Gathered(c)
           s   == IF own THEN "transcribing" ELSE "summarizing"
<1>1. /\ chains' = chains \union {d} /\ SetStatus(m, s) /\ MailSame(n) /\ Row(m)
      /\ stops' = [stops EXCEPT ![m] = @ + 1]
  BY DEF StopClerk, MailSame, MayStop
<1>2. d.id = stops[m] + 1 /\ d.note = m /\ d.stage \in {"closing", "summarizing"}
  <2>1. CASE own
    BY <2>1
  <2>2. CASE ~own
    BY <2>2 DEF Gathered
  <2>3. QED BY <2>1, <2>2
<1>3. s \in NoteStatus \ {"none", "awaiting_recipients", "uploaded"}
  BY DEF NoteStatus, Active, Processing
<1> HIDE DEF d, s
<1>4. RowSame(n) /\ (Ready(n)' => Ready(n)) /\ (n = m => ~Ready(n)')
  BY <1>1, <1>3, StatusIsCalm
<1>5. CASE n = m
  <2>1. Working(n)' = Working(n) \union {d}
    BY <1>1, <1>2, <1>5 DEF Working
  <2>2. d.stage \notin Late
    BY <1>2 DEF Late
  <2>3. stops'[n] = stops[n] + 1
    BY <1>1, <1>5 DEF MailShapes, ClerkShape
  <2>4. QED BY <1>1, <1>2, <1>4, <1>5, <2>1, <2>2, <2>3 DEF Joined
<1>6. CASE n # m
  <2>1. Working(n)' \subseteq Working(n)
    BY <1>1, <1>2, <1>6 DEF Working
  <2>2. stops'[n] = stops[n]
    BY <1>1, <1>6 DEF MailShapes, ClerkShape
  <2>3. QED BY <1>1, <1>4, <2>1, <2>2 DEF Calm
<1>7. QED BY <1>5, <1>6

\* What a step of a chain does to it.
LEMMA ChainMail ==
    ASSUME MailShapes, TextInv, NEW c \in chains, NEW n \in Notes, ChainStep(c)
    PROVE  Calm(n) \/ Moved(n) \/ Done(n)
<1> USE DEF work, mail, requests, past
<1>0. /\ c \in Worker /\ c.note \in Notes /\ c \in Working(c.note) /\ ClerkShape
      /\ note[c.note].status # "none" /\ note[c.note] \in NoteRow
  BY DEF MailShapes, ClerkShape, Worker, Working, TextInv, BlankBefore
<1>1. stops' = stops /\ cut' = cut /\ sending' = sending /\ mailed' = mailed
  BY DEF ChainStep, SessionCloses, Summarized, Rendered, Uploaded, ChainFails
<1>2. ASSUME NEW d, NEW s \in {"summarizing", "uploading"}, d.id = c.id, d.note = c.note,
             chains' = (chains \ {c}) \union {d},
             SetStatus(c.note, s), payload' = payload, d.stage \in Late => c.stage \in Late
      PROVE  Calm(n) \/ Moved(n)
  <2>1. s \in NoteStatus \ {"none", "awaiting_recipients", "uploaded"}
    BY DEF NoteStatus, Active, Processing
  <2>2. /\ RowSame(n) /\ (Ready(n)' => Ready(n)) /\ (Row(n)' => Row(n))
        /\ n = c.note /\ Row(n) => ~Ready(n)'
    BY <1>0, <1>2, <2>1, StatusIsCalm
  <2>3. CASE n = c.note
    <3>1. Working(n)' = (Working(n) \ {c}) \union {d}
      BY <1>0, <1>2, <2>3 DEF Working
    <3>2. ~Ready(n)'
      BY <2>2, <2>3 DEF Row, Ready
    <3>3. QED
      BY <1>0, <1>1, <1>2, <2>2, <2>3, <3>1, <3>2 DEF Moved, MailSame, RowSame
  <2>4. CASE n # c.note
    <3>1. Working(n)' \subseteq Working(n)
      BY <1>2, <2>4 DEF Working
    <3>2. QED BY <1>1, <1>2, <2>2, <3>1 DEF Calm, MailSame
  <2>5. QED BY <2>3, <2>4
<1>3. CASE SessionCloses(c)
  <2> DEFINE d == Gathered(c)
  <2>1. d.id = c.id /\ d.note = c.note /\ d.stage = "summarizing"
    BY <1>0 DEF Gathered, Worker
  <2>2. /\ chains' = (chains \ {c}) \union {d} /\ SetStatus(c.note, "summarizing")
        /\ payload' = payload
    BY <1>3 DEF SessionCloses
  <2> HIDE DEF d
  <2>3. QED BY <1>2, <2>1, <2>2 DEF Late
<1>4. CASE Rendered(c)
  <2> DEFINE d == [c EXCEPT !.stage = "uploading"]
  <2>1. d.id = c.id /\ d.note = c.note /\ d.stage = "uploading"
    BY <1>0 DEF Worker
  <2>2. /\ chains' = (chains \ {c}) \union {d} /\ SetStatus(c.note, "uploading")
        /\ payload' = payload /\ c.stage = "rendering"
    BY <1>4 DEF Rendered, NextStage
  <2> HIDE DEF d
  <2>3. QED BY <1>2, <2>1, <2>2 DEF Late
<1>5. CASE Summarized(c)
  <2> DEFINE d == [c EXCEPT !.stage = "rendering"]
             r == [note[c.note] EXCEPT !.status = "rendering", !.text = c.text,
                                       !.summary = c.id]
  <2>1. d.id = c.id /\ d.note = c.note /\ d.stage = "rendering"
    BY <1>0 DEF Worker
  <2>2. "rendering" \in NoteStatus /\ c.text \in Nat /\ c.id \in Nat
    BY <1>0 DEF NoteStatus, Active, Processing, Worker
  <2>3. /\ r \in NoteRow /\ r.status = "rendering" /\ r.summary = c.id
        /\ r.selection = note[c.note].selection
    BY <1>0, <2>2 DEF NoteRow
  <2>4. chains' = (chains \ {c}) \union {d} /\ Patch(c.note, r) /\ payload' = payload
    BY <1>5 DEF Summarized, NextStage
  <2> HIDE DEF d, r
  <2>5. \A m \in Notes : note'[m] = IF m = c.note /\ Row(c.note) THEN r ELSE note[m]
    BY <1>0, <2>3, <2>4, PatchIsTyped
  <2>6. CASE n = c.note
    <3>1. Working(n)' = (Working(n) \ {c}) \union {d}
      BY <1>0, <2>1, <2>4, <2>6 DEF Working
    <3>2. /\ Row(n) => note'[n].summary = c.id
          /\ note'[n].summary \in {note[n].summary, c.id}
          /\ note'[n].selection = note[n].selection
          /\ ~Ready(n)' /\ (Row(n)' => Row(n)) /\ note'[n].status # "none"
      BY <1>0, <2>3, <2>5, <2>6 DEF Row, Ready
    <3>3. MailSame(n) /\ stops'[n] = stops[n]
      BY <1>1, <2>4 DEF MailSame
    <3>4. PICK e : e = d
      OBVIOUS
    <3>5. /\ e.id = c.id /\ Working(n)' = (Working(n) \ {c}) \union {e}
          /\ e.stage \in Late => c.stage \in Late \/ (Row(n) => note'[n].summary = c.id)
      BY <2>1, <3>1, <3>2, <3>4
    <3>6. c \in Working(n)
      BY <1>0, <2>6
    <3>7. QED BY <3>2, <3>3, <3>5, <3>6 DEF Moved
  <2>7. CASE n # c.note
    <3>1. Working(n)' \subseteq Working(n)
      BY <2>1, <2>4, <2>7 DEF Working
    <3>2. QED BY <1>1, <2>4, <2>5, <2>7, <3>1, OthersAreCalm
  <2>8. QED BY <2>6, <2>7
<1>6. CASE Uploaded(c)
  <2> DEFINE r == [note[c.note] EXCEPT !.status = "awaiting_recipients",
                                       !.selection = "pending"]
  <2>1. "awaiting_recipients" \in NoteStatus
    BY DEF NoteStatus, Active
  <2>2. r \in NoteRow /\ r.status = "awaiting_recipients" /\ r.summary = note[c.note].summary
    BY <1>0, <2>1 DEF NoteRow
  <2>3. /\ chains' = chains \ {c} /\ Patch(c.note, r) /\ c.stage = "uploading"
        /\ payload' = [payload EXCEPT ![c.note] = c.id]
    BY <1>6 DEF Uploaded, Over
  <2> HIDE DEF r
  <2>4. \A m \in Notes : note'[m] = IF m = c.note /\ Row(c.note) THEN r ELSE note[m]
    BY <1>0, <2>2, <2>3, PatchIsTyped
  <2>5. Working(n)' = Working(n) \ {c}
    BY <2>3 DEF Working
  <2>6. CASE n = c.note
    <3>1. payload'[n] = c.id
      BY <2>3, <2>6 DEF MailShapes, MailShape
    <3>2. /\ note'[n].summary = note[n].summary /\ (Row(n)' => Row(n))
          /\ note'[n].status # "none"
      BY <1>0, <2>2, <2>4, <2>6 DEF Row
    <3>3. c \in Working(n) /\ c.stage \in Late
      BY <1>0, <2>3, <2>6 DEF Late
    <3>4. QED BY <1>1, <2>5, <3>1, <3>2, <3>3 DEF Done
  <2>7. CASE n # c.note
    <3>1. payload'[n] = payload[n]
      BY <2>3, <2>7 DEF MailShapes, MailShape
    <3>2. QED BY <1>1, <2>4, <2>5, <2>7, <3>1, OthersAreCalm
  <2>8. QED BY <2>6, <2>7
<1>7. CASE ChainFails(c)
  <2>1. chains' = chains \ {c} /\ SetStatus(c.note, "failed") /\ payload' = payload
    BY <1>7 DEF ChainFails, MarkFailed, Over
  <2>2. RowSame(n) /\ (Ready(n)' => Ready(n))
    BY <1>0, <2>1, StatusIsCalm DEF NoteStatus
  <2>3. Working(n)' \subseteq Working(n)
    BY <2>1 DEF Working
  <2>4. QED BY <1>1, <2>1, <2>2, <2>3 DEF Calm, MailSame
<1>8. QED BY <1>3, <1>4, <1>5, <1>6, <1>7 DEF ChainStep

\* What the host does to it.
LEMMA HostMail ==
    ASSUME MailShapes, TextInv, NEW m \in Notes, NEW n \in Notes, NoteMail(n),
           SendSummary(m) \/ SummarySent(m) \/ SkipSummary(m)
    PROVE  Calm(n) \/ Mails(n) \/ Settles(n)
<1> USE DEF work, mail, requests, past
<1>0. /\ stops' = stops /\ cut' = cut /\ Working(n)' = Working(n) /\ ClerkShape
      /\ note[m] \in NoteRow
  BY DEF SendSummary, SummarySent, SkipSummary, Working, MailShapes, ClerkShape
<1>1. CASE SendSummary(m)
  <2>1. /\ note' = note /\ payload' = payload /\ Undecided(m)
        /\ sending' = [sending EXCEPT ![m] = @ + 1] /\ mailed' = [mailed EXCEPT ![m] = @ + 1]
    BY <1>1 DEF SendSummary
  <2>2. CASE n = m
    BY <1>0, <2>1, <2>2 DEF Mails, Undecided, Ready, Settled, MailShapes, MailShape
  <2>3. CASE n # m
    <3>1. sending'[n] = sending[n] /\ mailed'[n] = mailed[n]
      BY <2>1, <2>3 DEF MailShapes, MailShape
    <3>2. QED BY <1>0, <2>1, <3>1, OthersAreCalm
  <2>4. QED BY <2>2, <2>3
<1>2. CASE SummarySent(m) \/ SkipSummary(m)
  <2>1. PICK how \in {"sent", "skipped"} : Decided(m, how)
    BY <1>2 DEF SummarySent, SkipSummary
  <2> DEFINE r == [note[m] EXCEPT !.status = "uploaded", !.selection = how]
  <2>2. r \in NoteRow /\ r.status = "uploaded" /\ r.selection = how /\ r.summary = note[m].summary
    BY <1>0 DEF NoteRow, NoteStatus
  <2>3. Patch(m, r) /\ payload' = [payload EXCEPT ![m] = 0]
    BY <2>1 DEF Decided
  <2> HIDE DEF r
  <2>4. note'[n] = IF n = m /\ Row(m) THEN r ELSE note[n]
    BY <1>0, <2>2, <2>3, PatchIsTyped
  <2>5. /\ mailed' = mailed
        /\ sending' = sending \/ sending' = [sending EXCEPT ![m] = @ - 1]
    BY <1>2 DEF SummarySent, SkipSummary
  <2>6. CASE n = m
    <3>1. Mailable(n)
      BY <1>2, <2>6
         DEF SummarySent, SkipSummary, Undecided, Mailable, Ready, NoteMail
    <3>2. sending'[n] > 0 => sending[n] > 0
      <4>1. sending[n] \in Nat
        BY DEF MailShapes, MailShape
      <4>2. sending'[n] = sending[n] \/ sending'[n] = sending[n] - 1
        BY <2>5, <2>6 DEF MailShapes, MailShape
      <4>3. QED BY <4>1, <4>2
    <3>3. note[n].status # "none"
      <4>1. stops[n] > 0
        BY <3>1 DEF NoteMail
      <4>2. QED BY <4>1 DEF NoteMail
    <3>4. /\ note'[n].summary = note[n].summary /\ (Row(n)' => Row(n) /\ Settled(n)')
          /\ note'[n].status # "none"
      BY <2>2, <2>4, <2>6, <3>3 DEF Row, Settled
    <3>5. payload'[n] = 0
      BY <2>3, <2>6 DEF MailShapes, MailShape
    <3>6. QED BY <1>0, <2>5, <3>1, <3>2, <3>4, <3>5 DEF Settles
  <2>7. CASE n # m
    <3>1. sending'[n] = sending[n] /\ payload'[n] = payload[n]
      BY <2>3, <2>5, <2>7 DEF MailShapes, MailShape
    <3>2. QED BY <1>0, <2>4, <2>5, <2>7, <3>1, OthersAreCalm
  <2>8. QED BY <2>6, <2>7
<1>3. QED BY <1>1, <1>2

\* What a restart does to it.
LEMMA RestartMail ==
    ASSUME MailShapes, NEW n \in Notes, RestartClerk
    PROVE  CutOff(n)
BY DEF RestartClerk, CutOff, Working

\* The steps, of any note.
LEMMA MailSteps ==
    ASSUME MailShapes, TextInv, NEW n \in Notes, NoteMail(n), [ClerkNext]_clerkVars
    PROVE  \/ Calm(n) \/ Joined(n) \/ Moved(n) \/ Done(n) \/ Settles(n) \/ CutOff(n)
           \/ Mails(n)
<1>1. CASE UNCHANGED clerkVars
  BY <1>1, OthersAreCalm DEF clerkVars, work, mail, past, Working
<1>2. CASE ClerkNext
  BY <1>2, NoteStepsMail, StopMail, ChainMail, HostMail, RestartMail DEF ClerkNext
<1>3. QED BY <1>1, <1>2

\* What is kept of the clerk: the types, the phrases, the mails.
ClerkInv == MailShapes /\ TextInv /\ MailInv

\* It holds in every state.
LEMMA ClerkInvStays == ClerkSpec => []ClerkInv
<1>1. ClerkInit => ClerkInv
  <2>1. ClerkInit => MailShape /\ MailInv
    BY DEF ClerkInit, MailShape, MailInv, NoteMail, Working, Row, Ready, Settled, Mailable
  <2>2. QED BY <2>1, InitIsGood, TextStarts DEF IInv, ClerkInv, MailShapes
<1>2. IInv /\ IInv' /\ ClerkInv /\ [ClerkNext]_clerkVars => ClerkInv'
  <2> SUFFICES ASSUME IInv, IInv', ClerkInv, [ClerkNext]_clerkVars PROVE ClerkInv'
    OBVIOUS
  <2>1. MailShapes' /\ TextInv'
    BY MailShapeStays, TextStays DEF IInv, ClerkInv, MailShapes
  <2>2. ASSUME NEW n \in Notes PROVE NoteMail(n)'
    BY <2>1, MailSteps, CalmIsGood, JoinedIsGood, MovedIsGood, DoneIsGood, SettlesIsGood,
       CutOffIsGood, MailsIsGood DEF ClerkInv, MailInv
  <2>3. QED BY <2>1, <2>2 DEF ClerkInv, MailInv
<1>3. QED BY <1>1, <1>2, InductiveInvariant, PTL DEF ClerkSpec

\* What is mailed is the summary the row shows, for the only chain has saved it there.
LEMMA MailIsRight ==
    ASSUME ClerkInv, [ClerkNext]_clerkVars, NEW n \in Notes, mailed'[n] > mailed[n],
           stops[n] <= 1
    PROVE  /\ WhatToMail(n) = note[n].summary
           /\ mailed[n] > 0 => sending[n] > 0 \/ n \in cut
<1>1. MailShapes /\ TextInv /\ NoteMail(n)
  BY DEF ClerkInv, MailInv
<1>2. /\ mailed[n] \in Nat /\ stops[n] \in Nat /\ payload[n] \in Nat
      /\ note[n].summary \in Nat
  BY <1>1 DEF MailShapes, ClerkShape, MailShape, NoteRow
<1>3. Mails(n)
  <2>1. ~(mailed'[n] = mailed[n])
    BY <1>2
  <2>2. QED
    BY <1>1, <2>1, MailSteps DEF Calm, MailSame, Joined, Moved, Done, Settles, CutOff
<1>4. Row(n) /\ ~Settled(n)
  BY <1>3 DEF Mails, Ready, Row
<1>5. payload[n] # 0 => payload[n] = 1 /\ note[n].summary = 1
  BY <1>1, <1>2, <1>4 DEF NoteMail
<1>6. QED BY <1>1, <1>4, <1>5 DEF NoteMail, WhatToMail

\* With one stop, what the mail of a note carries is the summary its row shows, and it is
\* mailed again only while the mark is not set, or after a restart cut it off.
THEOREM MailsTheSummaryOnce == ClerkSpec => MailIsTheSummaryOnce
<1>1. ClerkInv /\ [ClerkNext]_clerkVars =>
         [\A n \in Notes : mailed'[n] > mailed[n] /\ stops[n] <= 1 =>
             /\ WhatToMail(n) = note[n].summary
             /\ mailed[n] > 0 => sending[n] > 0 \/ n \in cut]_clerkVars
  BY MailIsRight
<1>2. QED BY <1>1, ClerkInvStays, PTL DEF ClerkSpec, MailIsTheSummaryOnce

-----------------------------------------------------------------------------
(* The counters: what Total adds up *)

\* A set of naturals that has an element has a least one.
LEMMA LeastExists ==
    ASSUME NEW T, T \subseteq Nat, T # {}
    PROVE  \E x \in T : \A y \in T : x <= y
<1> DEFINE R == OpToRel(<, Nat)
<1>1. IsWellFoundedOn(R, Nat)
  BY NatLessThanWellFounded
<1>2. \A a, b \in Nat : a < b => <<a, b>> \in R
  BY DEF OpToRel
<1> HIDE DEF R
<1>3. PICK x \in T : \A y \in T : ~ (<<y, x>> \in R)
  BY <1>1, WFMin
<1>4. ASSUME NEW y \in T
      PROVE  x <= y
  <2>1. x \in Nat /\ y \in Nat
    OBVIOUS
  <2>2. ~(y < x)
    BY <1>2, <1>3, <2>1
  <2>3. QED BY <2>1, <2>2
<1>5. QED BY <1>4

\* A set of the numbers up to N that has 0, and with each the next, has them all.
LEMMA UpTo ==
    ASSUME NEW N \in Nat, NEW G, 0 \in G,
           \A n \in 1..N : n - 1 \in G => n \in G
    PROVE  \A n \in 0..N : n \in G
<1> DEFINE Bad == {n \in 0..N : n \notin G}
<1>1. SUFFICES ASSUME Bad # {}
               PROVE  FALSE
  OBVIOUS
<1>2. PICK m \in Bad : \A x \in Bad : m <= x
  <2>1. Bad \subseteq Nat
    OBVIOUS
  <2> HIDE DEF Bad
  <2>2. QED BY <1>1, <2>1, LeastExists
<1>3. m \in 1..N
  BY <1>2
<1>4. m - 1 \notin Bad /\ m - 1 \in 0..N
  BY <1>2, <1>3
<1>5. QED BY <1>2, <1>3, <1>4

\* What the sums of f up to each note have to be.
SumStep(f, s, n) == IF n = 0 THEN 0 ELSE s[n - 1] + f[n]
\* The sums of a function up to each note; Total is the last.
Sums(f) == CHOOSE s : s = [n \in 0..MaxNotes |-> IF n = 0 THEN 0 ELSE s[n - 1] + f[n]]

\* There are such sums, up to any note.
LEMMA SumsExist ==
    ASSUME NEW f, NEW N \in Nat
    PROVE  \E s : s = [n \in 0..N |-> SumStep(f, s, n)]
<1> DEFINE G == {m \in Nat : \E s : s = [n \in 0..m |-> SumStep(f, s, n)]}
<1>1. 0 \in G
  <2> DEFINE s == [n \in 0..0 |-> 0]
  <2>1. \A n \in 0..0 : SumStep(f, s, n) = 0
    BY DEF SumStep
  <2>2. s = [n \in 0..0 |-> SumStep(f, s, n)]
    <3> HIDE DEF s
    <3>1. [n \in 0..0 |-> SumStep(f, s, n)] = [n \in 0..0 |-> 0]
      BY <2>1
    <3>2. QED BY <3>1 DEF s
  <2>3. QED BY <2>2
<1>2. ASSUME NEW m \in 1..N, m - 1 \in G
      PROVE  m \in G
  <2>1. PICK s : s = [n \in 0..(m - 1) |-> SumStep(f, s, n)]
    BY <1>2
  <2> DEFINE t == [n \in 0..m |-> IF n = m THEN SumStep(f, s, m) ELSE s[n]]
  <2>2. \A n \in 0..(m - 1) : t[n] = s[n]
    OBVIOUS
  <2>3. \A n \in 0..(m - 1) : s[n] = SumStep(f, s, n)
    BY <2>1, Zenon
  <2>4. t[m] = SumStep(f, s, m)
    OBVIOUS
  <2>5. t = [n \in 0..m |-> t[n]]
    OBVIOUS
  <2> HIDE DEF t
  <2>6. ASSUME NEW n \in 0..m
        PROVE  t[n] = SumStep(f, t, n)
    <3>1. CASE n = 0
      BY <3>1, <2>2, <2>3 DEF SumStep
    <3>2. CASE n # 0
      <4>1. n - 1 \in 0..(m - 1) /\ t[n - 1] = s[n - 1]
        BY <3>2, <2>2
      <4>2. SumStep(f, t, n) = SumStep(f, s, n)
        BY <3>2, <4>1 DEF SumStep
      <4>3. t[n] = SumStep(f, s, n)
        <5>1. CASE n = m
          BY <5>1, <2>4
        <5>2. CASE n # m
          BY <5>2, <2>2, <2>3
        <5>3. QED BY <5>1, <5>2
      <4>4. QED BY <4>2, <4>3
    <3>3. QED BY <3>1, <3>2
  <2>7. t = [n \in 0..m |-> SumStep(f, t, n)]
    BY <2>5, <2>6
  <2>8. QED BY <2>7
<1> HIDE DEF G
<1>3. N \in G
  BY <1>1, <1>2, UpTo
<1>4. QED BY <1>3 DEF G

\* The sums, note by note.
LEMMA SumsAre ==
    ASSUME NEW f
    PROVE  /\ Total(f) = Sums(f)[MaxNotes]
           /\ \A n \in 0..MaxNotes : Sums(f)[n] = SumStep(f, Sums(f), n)
<1> DEFINE S == Sums(f)
<1>1. \E s : s = [n \in 0..MaxNotes |-> IF n = 0 THEN 0 ELSE s[n - 1] + f[n]]
  BY SumsExist, ClerkAssumption DEF SumStep
<1>2. S = [n \in 0..MaxNotes |-> IF n = 0 THEN 0 ELSE S[n - 1] + f[n]]
  BY <1>1, Zenon DEF Sums
<1>3. Total(f) = S[MaxNotes]
  BY DEF Total, Sums
<1> HIDE DEF S
<1>4. \A n \in 0..MaxNotes : S[n] = SumStep(f, S, n)
  BY <1>2, Zenon DEF SumStep
<1>5. QED BY <1>3, <1>4 DEF S

\* Each sum is the one before it and one more value.
LEMMA SumsGoOn ==
    ASSUME NEW f
    PROVE  /\ Sums(f)[0] = 0
           /\ \A n \in Notes : Sums(f)[n] = Sums(f)[n - 1] + f[n]
<1>1. MaxNotes \in Nat
  BY ClerkAssumption
<1>2. Sums(f)[0] = 0
  BY <1>1, SumsAre DEF SumStep
<1>3. ASSUME NEW n \in Notes
      PROVE  Sums(f)[n] = Sums(f)[n - 1] + f[n]
  <2>1. n \in 0..MaxNotes /\ n # 0
    BY <1>1 DEF Notes
  <2>2. Sums(f)[n] = SumStep(f, Sums(f), n)
    BY <2>1, SumsAre
  <2>3. QED BY <2>1, <2>2 DEF SumStep
<1>4. QED BY <1>2, <1>3

\* The sums of naturals are naturals.
LEMMA SumsAreNat ==
    ASSUME NEW f \in [Notes -> Nat]
    PROVE  Total(f) \in Nat /\ \A n \in 0..MaxNotes : Sums(f)[n] \in Nat
<1> DEFINE G == {n \in Nat : Sums(f)[n] \in Nat}
<1>0. MaxNotes \in Nat
  BY ClerkAssumption
<1>1. 0 \in G
  BY SumsGoOn
<1>2. ASSUME NEW n \in 1..MaxNotes, n - 1 \in G
      PROVE  n \in G
  <2>1. n \in Notes
    BY DEF Notes
  <2>2. Sums(f)[n] = Sums(f)[n - 1] + f[n]
    BY <2>1, SumsGoOn
  <2>3. Sums(f)[n - 1] \in Nat /\ f[n] \in Nat /\ n \in Nat
    BY <1>2, <2>1
  <2>4. QED BY <2>2, <2>3
<1> HIDE DEF G
<1>3. \A n \in 0..MaxNotes : n \in G
  BY <1>0, <1>1, <1>2, UpTo
<1>4. QED BY <1>0, <1>3, SumsAre DEF G

\* None of them is more than the sum.
LEMMA PartOfSum ==
    ASSUME NEW f \in [Notes -> Nat], NEW m \in Notes
    PROVE  f[m] <= Total(f)
<1> DEFINE G == {n \in Nat : n >= m => f[m] <= Sums(f)[n]}
<1>0. MaxNotes \in Nat /\ m \in 1..MaxNotes
  BY ClerkAssumption DEF Notes
<1>1. 0 \in G
  BY <1>0
<1>2. ASSUME NEW n \in 1..MaxNotes, n - 1 \in G
      PROVE  n \in G
  <2>1. Sums(f)[n] = Sums(f)[n - 1] + f[n] /\ Sums(f)[n - 1] \in Nat /\ f[n] \in Nat
    <3>1. n \in Notes /\ n - 1 \in 0..MaxNotes
      BY <1>0 DEF Notes
    <3>2. Sums(f)[n - 1] \in Nat
      BY <3>1, SumsAreNat
    <3>3. QED BY <3>1, <3>2, SumsGoOn
  <2>2. f[m] \in Nat
    OBVIOUS
  <2>3. QED BY <1>0, <1>2, <2>1, <2>2
<1> HIDE DEF G
<1>3. \A n \in 0..MaxNotes : n \in G
  BY <1>0, <1>1, <1>2, UpTo
<1>4. QED BY <1>0, <1>3, SumsAre DEF G

\* A sum changes with one of them by as much.
LEMMA SumsChange ==
    ASSUME NEW f \in [Notes -> Nat], NEW g \in [Notes -> Nat], NEW m \in Notes,
           \A n \in Notes \ {m} : g[n] = f[n]
    PROVE  Total(g) + f[m] = Total(f) + g[m]
<1> DEFINE G == {n \in Nat : /\ n >= m => Sums(g)[n] + f[m] = Sums(f)[n] + g[m]
                             /\ n < m => Sums(g)[n] = Sums(f)[n]}
<1>0. MaxNotes \in Nat /\ m \in 1..MaxNotes /\ f[m] \in Nat /\ g[m] \in Nat
  BY ClerkAssumption DEF Notes
<1>1. 0 \in G
  BY <1>0, SumsGoOn
<1>2. ASSUME NEW n \in 1..MaxNotes, n - 1 \in G
      PROVE  n \in G
  <2>1. Sums(f)[n] = Sums(f)[n - 1] + f[n] /\ Sums(f)[n - 1] \in Nat /\ f[n] \in Nat
    <3>1. n \in Notes /\ n - 1 \in 0..MaxNotes
      BY <1>0 DEF Notes
    <3>2. Sums(f)[n - 1] \in Nat
      BY <3>1, SumsAreNat
    <3>3. QED BY <3>1, <3>2, SumsGoOn
  <2>2. Sums(g)[n] = Sums(g)[n - 1] + g[n] /\ Sums(g)[n - 1] \in Nat /\ g[n] \in Nat
    <3>1. n \in Notes /\ n - 1 \in 0..MaxNotes
      BY <1>0 DEF Notes
    <3>2. Sums(g)[n - 1] \in Nat
      BY <3>1, SumsAreNat
    <3>3. QED BY <3>1, <3>2, SumsGoOn
  <2>3. n # m => g[n] = f[n]
    BY DEF Notes
  <2>4. QED BY <1>0, <1>2, <2>1, <2>2, <2>3
<1> HIDE DEF G
<1>3. \A n \in 0..MaxNotes : n \in G
  BY <1>0, <1>1, <1>2, UpTo
<1>4. QED BY <1>0, <1>3, SumsAre DEF G

\* None, or one more, or one less.
LEMMA SumOfNone ==
    ASSUME NEW f, f = [n \in Notes |-> 0]
    PROVE  Total(f) = 0
<1> DEFINE G == {n \in Nat : Sums(f)[n] = 0}
<1>0. MaxNotes \in Nat
  BY ClerkAssumption
<1>1. 0 \in G
  BY SumsGoOn
<1>2. ASSUME NEW n \in 1..MaxNotes, n - 1 \in G
      PROVE  n \in G
  BY <1>0, <1>2, SumsGoOn DEF Notes
<1> HIDE DEF G
<1>3. \A n \in 0..MaxNotes : n \in G
  BY <1>0, <1>1, <1>2, UpTo
<1>4. QED BY <1>0, <1>3, SumsAre DEF G

\* One more at one note makes the total one more.
LEMMA SumOneMore ==
    ASSUME NEW f \in [Notes -> Nat], NEW m \in Notes
    PROVE  Total([f EXCEPT ![m] = @ + 1]) = Total(f) + 1
<1> DEFINE g == [f EXCEPT ![m] = @ + 1]
<1>1. g \in [Notes -> Nat] /\ g[m] = f[m] + 1 /\ \A n \in Notes \ {m} : g[n] = f[n]
  OBVIOUS
<1> HIDE DEF g
<1>2. Total(g) + f[m] = Total(f) + g[m]
  BY <1>1, SumsChange
<1>3. Total(g) \in Nat /\ Total(f) \in Nat /\ f[m] \in Nat
  BY <1>1, SumsAreNat
<1>4. QED BY <1>1, <1>2, <1>3 DEF g

\* One less at one note makes the total one less.
LEMMA SumOneLess ==
    ASSUME NEW f \in [Notes -> Nat], NEW m \in Notes, f[m] > 0
    PROVE  Total([f EXCEPT ![m] = @ - 1]) = Total(f) - 1
<1> DEFINE g == [f EXCEPT ![m] = @ - 1]
<1>1. g \in [Notes -> Nat] /\ g[m] = f[m] - 1 /\ \A n \in Notes \ {m} : g[n] = f[n]
  OBVIOUS
<1> HIDE DEF g
<1>2. Total(g) + f[m] = Total(f) + g[m]
  BY <1>1, SumsChange
<1>3. Total(g) \in Nat /\ Total(f) \in Nat /\ f[m] \in Nat
  BY <1>1, SumsAreNat
<1>4. QED BY <1>1, <1>2, <1>3 DEF g

-----------------------------------------------------------------------------
(* The counters: what the guards bound *)

\* Requests, mails and restarts stay in their bounds, together over all notes.
CountInv ==
    /\ Total(stops) + Total(asked) <= MaxStops /\ Total(mailed) <= MaxMails
    /\ \A n \in Notes : sending[n] <= mailed[n]
    /\ restarts \in 0..MaxClerkRestarts

\* Nothing was counted.
LEMMA CountStarts == ClerkInit => CountInv
<1> SUFFICES ASSUME ClerkInit PROVE CountInv
  OBVIOUS
<1>1. Total(stops) = 0 /\ Total(asked) = 0 /\ Total(mailed) = 0
  BY SumOfNone DEF ClerkInit
<1>2. \A n \in Notes : sending[n] <= mailed[n]
  BY DEF ClerkInit
<1>3. restarts \in 0..MaxClerkRestarts /\ MaxStops \in Nat /\ MaxMails \in Nat
  BY ClerkAssumption DEF ClerkInit
<1>4. QED BY <1>1, <1>2, <1>3 DEF CountInv

\* The guards, which bound the totals, keep the counters in their bounds.
LEMMA CountStays ==
    ASSUME ClerkShape, MailShape, CountInv, [ClerkNext]_clerkVars
    PROVE  CountInv'
<1> USE DEF work, mail, requests, past
<1>0. /\ stops \in [Notes -> Nat] /\ asked \in [Notes -> Nat] /\ mailed \in [Notes -> Nat]
      /\ sending \in [Notes -> Nat]
      /\ Total(stops) \in Nat /\ Total(asked) \in Nat /\ Total(mailed) \in Nat
      /\ MaxStops \in Nat /\ MaxMails \in Nat /\ MaxClerkRestarts \in Nat
  BY SumsAreNat, ClerkAssumption DEF ClerkShape, MailShape
<1>1. ASSUME UNCHANGED <<stops, asked, mailed, restarts>>,
             \A n \in Notes : sending'[n] <= mailed[n]
      PROVE  CountInv'
  BY <1>1 DEF CountInv
<1>2. CASE UNCHANGED <<stops, asked, mailed, sending, restarts>>
  BY <1>1, <1>2 DEF CountInv
<1>3. ASSUME NEW n \in Notes, PressStop(n)
      PROVE  CountInv'
  <2>1. /\ asked' = [asked EXCEPT ![n] = @ + 1] /\ Total(stops) + Total(asked) < MaxStops
        /\ UNCHANGED <<stops, mailed, sending, restarts>>
    BY <1>3 DEF PressStop
  <2>2. Total(asked') = Total(asked) + 1
    BY <1>0, <2>1, SumOneMore
  <2>3. Total(stops) + Total(asked') <= MaxStops
    BY <1>0, <2>1, <2>2
  <2>4. QED BY <2>1, <2>3 DEF CountInv
<1>4. ASSUME NEW n \in Notes, StopClerk(n) \/ StopIgnored(n)
      PROVE  CountInv'
  <2>1. /\ asked' = [asked EXCEPT ![n] = @ - 1] /\ asked[n] > 0
        /\ stops' = [stops EXCEPT ![n] = @ + 1] \/ stops' = stops
        /\ UNCHANGED <<mailed, sending, restarts>>
    BY <1>4 DEF StopClerk, StopIgnored
  <2>2. Total(asked') = Total(asked) - 1
    BY <1>0, <2>1, SumOneLess
  <2>3. Total(stops') \in {Total(stops), Total(stops) + 1}
    BY <1>0, <2>1, SumOneMore
  <2>4. Total(stops') + Total(asked') <= MaxStops
    BY <1>0, <2>2, <2>3 DEF CountInv
  <2>5. QED BY <2>1, <2>4 DEF CountInv
<1>5. ASSUME NEW n \in Notes, SendSummary(n)
      PROVE  CountInv'
  <2>1. /\ mailed' = [mailed EXCEPT ![n] = @ + 1] /\ sending' = [sending EXCEPT ![n] = @ + 1]
        /\ Total(mailed) < MaxMails /\ UNCHANGED <<stops, asked, restarts>>
    BY <1>5 DEF SendSummary
  <2>2. Total(mailed') = Total(mailed) + 1
    BY <1>0, <2>1, SumOneMore
  <2>3. \A m \in Notes : sending'[m] <= mailed'[m]
    BY <1>0, <2>1 DEF CountInv
  <2>4. Total(mailed') <= MaxMails
    BY <1>0, <2>1, <2>2
  <2>5. QED BY <2>1, <2>3, <2>4 DEF CountInv
<1>6. ASSUME NEW n \in Notes, SummarySent(n)
      PROVE  CountInv'
  <2>1. /\ sending' = [sending EXCEPT ![n] = @ - 1] /\ sending[n] > 0
        /\ UNCHANGED <<stops, asked, mailed, restarts>>
    BY <1>6 DEF SummarySent
  <2>2. \A m \in Notes : sending'[m] <= mailed[m]
    BY <1>0, <2>1 DEF CountInv
  <2>3. QED BY <1>1, <2>1, <2>2
<1>7. CASE RestartClerk
  <2>1. /\ asked' = [n \in Notes |-> 0] /\ sending' = [n \in Notes |-> 0]
        /\ restarts < MaxClerkRestarts /\ restarts' = restarts + 1
        /\ UNCHANGED <<stops, mailed>>
    BY <1>7 DEF RestartClerk
  <2>2. Total(asked') = 0
    BY <2>1, SumOfNone
  <2>3. Total(stops) + Total(asked') <= MaxStops
    BY <1>0, <2>2 DEF CountInv
  <2>4. \A n \in Notes : sending'[n] <= mailed[n]
    BY <1>0, <2>1
  <2>5. restarts' \in 0..MaxClerkRestarts
    BY <1>0, <2>1 DEF CountInv
  <2>6. QED BY <2>1, <2>3, <2>4, <2>5 DEF CountInv
<1>8. ASSUME NEW n \in Notes,
             \/ StartClerk(n) \/ SessionStarts(n) \/ SessionFails(n) \/ Hear(n)
             \/ SkipSummary(n) \/ DeleteNote(n)
      PROVE  CountInv'
  BY <1>2, <1>8
     DEF StartClerk, SessionStarts, SessionFails, Hear, SkipSummary, DeleteNote
<1>9. ASSUME NEW c \in chains, ChainStep(c)
      PROVE  CountInv'
  BY <1>2, <1>9 DEF ChainStep, SessionCloses, Summarized, Rendered, Uploaded, ChainFails
<1>10. CASE UNCHANGED clerkVars
  BY <1>2, <1>10 DEF clerkVars
<1>11. QED
  BY <1>3, <1>4, <1>5, <1>6, <1>7, <1>8, <1>9, <1>10 DEF ClerkNext

\* No text is longer than a session may hear.
PhraseInv ==
    /\ \A n \in Notes : note[n].text <= MaxPhrases /\ session[n].heard <= MaxPhrases
    /\ \A c \in chains : c.text <= MaxPhrases

\* A length that is not new.
Heard(x) == \/ x = 0
            \/ \E n \in Notes : x = note[n].text \/ x = session[n].heard
            \/ \E c \in chains : x = c.text

\* A number of phrases that was heard is within the bound.
LEMMA KnownIsBounded ==
    ASSUME PhraseInv, NEW x, Heard(x)
    PROVE  x <= MaxPhrases
BY ClerkAssumption DEF PhraseInv, Heard

\* A step that only copies numbers that were heard keeps them all heard.
LEMMA OnlyCopies ==
    ASSUME PhraseInv,
           \A n \in Notes : Heard(note'[n].text) /\ Heard(session'[n].heard),
           \A c \in chains' : Heard(c.text)
    PROVE  PhraseInv'
<1>1. \A n \in Notes : note'[n].text <= MaxPhrases /\ session'[n].heard <= MaxPhrases
  BY KnownIsBounded
<1>2. \A c \in chains' : c.text <= MaxPhrases
  BY KnownIsBounded
<1>3. QED BY <1>1, <1>2 DEF PhraseInv

\* What was there is known, and so is what a chain gathers.
LEMMA OldIsKnown ==
    /\ \A n \in Notes : Heard(note[n].text) /\ Heard(session[n].heard)
    /\ \A c \in chains : Heard(c.text)
    /\ Heard(0)
BY DEF Heard

\* What a chain gathers was heard.
LEMMA GatheredIsKnown ==
    ASSUME ClerkShape, NEW c \in Worker
    PROVE  Heard(Gathered(c).text)
<1>1. c.note \in Notes
  BY DEF Worker
<1> DEFINE t == Transcript(c.note, c.own)
<1>2. t \in {session[c.note].heard, note[c.note].text, 0}
  BY DEF Transcript
<1>3. Heard(t)
  BY <1>1, <1>2, OldIsKnown
<1> HIDE DEF t
<1>4. [c EXCEPT !.stage = "summarizing", !.text = t].text = t
  BY DEF Worker
<1>5. QED BY <1>3, <1>4 DEF Gathered, t

\* A phrase more, where the session, which has heard all, is below the bound.
LEMMA HearIsBounded ==
    ASSUME ClerkShape, TextInv, PhraseInv, NEW n \in Notes, Hear(n)
    PROVE  PhraseInv'
<1> DEFINE r == [note[n] EXCEPT !.text = @ + 1]
           h == [session[n] EXCEPT !.heard = @ + 1]
<1>1. /\ note[n].text \in Nat /\ session[n].heard \in Nat /\ MaxPhrases \in Nat
      /\ r \in NoteRow /\ r.text = note[n].text + 1 /\ h.heard = session[n].heard + 1
  BY ClerkAssumption DEF ClerkShape, NoteRow, Listener
<1>2. /\ Patch(n, r) /\ session' = [session EXCEPT ![n] = h] /\ chains' = chains
      /\ session[n].state = "open" /\ session[n].heard < MaxPhrases
  BY DEF Hear, work
<1> HIDE DEF r, h
<1>3. note[n].text <= session[n].heard
  BY <1>2 DEF TextInv, HeardAll, Holds
<1>4. \A m \in Notes : note'[m] = IF m = n /\ Row(n) THEN r ELSE note[m]
  BY <1>1, <1>2, PatchIsTyped
<1>5. \A m \in Notes : session'[m] = IF m = n THEN h ELSE session[m]
  BY <1>2 DEF ClerkShape
<1>6. r.text <= MaxPhrases /\ h.heard <= MaxPhrases
  BY <1>1, <1>2, <1>3
<1>7. QED BY <1>2, <1>4, <1>5, <1>6 DEF PhraseInv

\* Each step hears one phrase more, within the bound, or copies.
LEMMA PhrasesStay ==
    ASSUME ClerkShape, TextInv, PhraseInv, [ClerkNext]_clerkVars
    PROVE  PhraseInv'
<1> USE DEF work, mail, past, requests
<1>0. /\ \A n \in Notes : Heard(note[n].text) /\ Heard(session[n].heard)
      /\ \A c \in chains : Heard(c.text)
      /\ Heard(0)
  BY OldIsKnown
<1>1. ASSUME NEW m \in Notes, NEW s \in NoteStatus \ {"none"}, SetStatus(m, s)
      PROVE  \A n \in Notes : Heard(note'[n].text)
  BY <1>0, <1>1, StatusKeepsRest
<1>2. ASSUME NEW m \in Notes, StartClerk(m) \/ DeleteNote(m) PROVE PhraseInv'
  <2>1. PICK s : note' = [note EXCEPT ![m] = [note[m] EXCEPT !.status = s]]
    BY <1>2 DEF StartClerk, DeleteNote
  <2>2. note[m] \in NoteRow
    BY DEF ClerkShape
  <2>3. [note[m] EXCEPT !.status = s].text = note[m].text
    BY <2>2 DEF NoteRow
  <2>4. \A n \in Notes : Heard(note'[n].text)
    BY <1>0, <2>1, <2>3 DEF ClerkShape
  <2>5. session' = session /\ chains' = chains
    BY <1>2 DEF StartClerk, DeleteNote
  <2>6. QED BY <1>0, <2>4, <2>5, OnlyCopies
<1>3. ASSUME NEW m \in Notes, SessionStarts(m) \/ SessionFails(m) PROVE PhraseInv'
  <2>1. PICK s : session' = [session EXCEPT ![m] = [session[m] EXCEPT !.state = s]]
    BY <1>3 DEF SessionStarts, SessionFails
  <2>2. session[m] \in Listener
    BY DEF ClerkShape
  <2>3. [session[m] EXCEPT !.state = s].heard = session[m].heard
    BY <2>2 DEF Listener
  <2>4. \A n \in Notes : Heard(session'[n].heard)
    BY <1>0, <2>1, <2>3 DEF ClerkShape
  <2>5. chains' = chains
    BY <1>3 DEF SessionStarts, SessionFails
  <2>6. \A n \in Notes : Heard(note'[n].text)
    BY <1>0, <1>1, <1>3 DEF SessionStarts, SessionFails, NoteStatus
  <2>7. QED BY <1>0, <2>4, <2>5, <2>6, OnlyCopies
<1>4. ASSUME UNCHANGED <<note, session, chains>> PROVE PhraseInv'
  BY <1>4 DEF PhraseInv
<1>5. ASSUME NEW m \in Notes, StopClerk(m) PROVE PhraseInv'
  <2> DEFINE own == session[m].state = "open"
             c   == [id |-> stops[m] + 1, note |-> m, own |-> own, text |-> 0,
                     stage |-> "closing"]
  <2>1. c \in Worker /\ c.text = 0
    BY DEF ClerkShape, Worker
  <2>2. /\ chains' = chains \union {IF own THEN c ELSE Gathered(c)}
        /\ SetStatus(m, IF own THEN "transcribing" ELSE "summarizing")
        /\ session' = session
    BY <1>5 DEF StopClerk
  <2>3. Heard(c.text) /\ Heard(Gathered(c).text)
    BY <1>0, <2>1, GatheredIsKnown
  <2> HIDE DEF c
  <2>4. \A b \in chains' : Heard(b.text)
    BY <1>0, <2>2, <2>3
  <2>5. \A n \in Notes : Heard(note'[n].text)
    BY <1>1, <2>2 DEF NoteStatus, Active, Processing
  <2>6. QED BY <1>0, <2>2, <2>4, <2>5, OnlyCopies
<1>6. ASSUME NEW m \in Notes, SummarySent(m) \/ SkipSummary(m) PROVE PhraseInv'
  <2>1. PICK how \in {"sent", "skipped"} : Decided(m, how)
    BY <1>6 DEF SummarySent, SkipSummary
  <2> DEFINE r == [note[m] EXCEPT !.status = "uploaded", !.selection = how]
  <2>2. note[m] \in NoteRow /\ "uploaded" \in NoteStatus
    BY DEF ClerkShape, NoteStatus
  <2>3. r \in NoteRow /\ r.text = note[m].text
    BY <2>2 DEF NoteRow
  <2>4. Patch(m, r) /\ session' = session /\ chains' = chains
    BY <1>6, <2>1 DEF Decided, SummarySent, SkipSummary
  <2> HIDE DEF r
  <2>5. \A n \in Notes : note'[n] = IF n = m /\ Row(m) THEN r ELSE note[n]
    BY <2>3, <2>4, PatchIsTyped
  <2>6. \A n \in Notes : Heard(note'[n].text)
    BY <1>0, <2>3, <2>5
  <2>7. QED BY <1>0, <2>4, <2>6, OnlyCopies
<1>7. ASSUME NEW c \in chains, SessionCloses(c) PROVE PhraseInv'
  <2>1. c.note \in Notes /\ c \in Worker
    BY DEF ClerkShape, Worker
  <2>2. PICK h \in {session[c.note].heard, 0} :
           session' = [session EXCEPT ![c.note] = [state |-> "none", heard |-> h]]
    BY <1>7 DEF SessionCloses
  <2>3. \A n \in Notes : Heard(session'[n].heard)
    BY <1>0, <2>1, <2>2 DEF ClerkShape
  <2>4. chains' = (chains \ {c}) \union {Gathered(c)} /\ SetStatus(c.note, "summarizing")
    BY <1>7 DEF SessionCloses
  <2>5. \A b \in chains' : Heard(b.text)
    BY <1>0, <2>1, <2>4, GatheredIsKnown
  <2>6. \A n \in Notes : Heard(note'[n].text)
    BY <1>1, <2>1, <2>4 DEF NoteStatus, Active, Processing
  <2>7. QED BY <2>3, <2>5, <2>6, OnlyCopies
<1>8. ASSUME NEW c \in chains, NEW stage, NextStage(c, stage)
      PROVE  \A b \in chains' : Heard(b.text)
  <2>1. c \in Worker
    BY DEF ClerkShape
  <2>2. [c EXCEPT !.stage = stage].text = c.text
    BY <2>1 DEF Worker
  <2>3. QED BY <1>0, <1>8, <2>2 DEF NextStage
<1>9. ASSUME NEW c \in chains, Summarized(c) PROVE PhraseInv'
  <2> DEFINE r == [note[c.note] EXCEPT !.status = "rendering", !.text = c.text,
                                       !.summary = c.id]
  <2>1. /\ c.note \in Notes /\ note[c.note] \in NoteRow /\ c \in Worker
        /\ "rendering" \in NoteStatus
    BY DEF ClerkShape, Worker, NoteStatus, Active, Processing
  <2>2. r \in NoteRow /\ r.text = c.text
    BY <2>1 DEF NoteRow, Worker
  <2>3. Patch(c.note, r) /\ NextStage(c, "rendering") /\ session' = session
    BY <1>9 DEF Summarized
  <2> HIDE DEF r
  <2>4. \A n \in Notes : note'[n] = IF n = c.note /\ Row(c.note) THEN r ELSE note[n]
    BY <2>1, <2>2, <2>3, PatchIsTyped
  <2>5. \A n \in Notes : Heard(note'[n].text)
    BY <1>0, <2>2, <2>4
  <2>6. QED BY <1>0, <1>8, <2>3, <2>5, OnlyCopies
<1>10. ASSUME NEW c \in chains, Rendered(c) \/ ChainFails(c) PROVE PhraseInv'
  <2>1. c.note \in Notes
    BY DEF ClerkShape, Worker
  <2>2. \A n \in Notes : Heard(note'[n].text)
    BY <1>1, <1>10, <2>1 DEF Rendered, ChainFails, MarkFailed, NoteStatus, Active, Processing
  <2>3. \A b \in chains' : Heard(b.text)
    BY <1>0, <1>8, <1>10 DEF Rendered, ChainFails, Over
  <2>4. session' = session
    BY <1>10 DEF Rendered, ChainFails
  <2>5. QED BY <1>0, <2>2, <2>3, <2>4, OnlyCopies
<1>11. ASSUME NEW c \in chains, Uploaded(c) PROVE PhraseInv'
  <2> DEFINE r == [note[c.note] EXCEPT !.status = "awaiting_recipients",
                                       !.selection = "pending"]
  <2>1. c.note \in Notes /\ note[c.note] \in NoteRow /\ "awaiting_recipients" \in NoteStatus
    BY DEF ClerkShape, Worker, NoteStatus, Active
  <2>2. r \in NoteRow /\ r.text = note[c.note].text
    BY <2>1 DEF NoteRow
  <2>3. Patch(c.note, r) /\ chains' \subseteq chains /\ session' = session
    BY <1>11 DEF Uploaded, Over
  <2> HIDE DEF r
  <2>4. \A n \in Notes : note'[n] = IF n = c.note /\ Row(c.note) THEN r ELSE note[n]
    BY <2>1, <2>2, <2>3, PatchIsTyped
  <2>5. \A n \in Notes : Heard(note'[n].text)
    BY <1>0, <2>1, <2>2, <2>4
  <2>6. QED BY <1>0, <2>3, <2>5, OnlyCopies
<1>12. CASE RestartClerk
  <2>1. /\ note' = note /\ chains' = {}
        /\ \A n \in Notes : session'[n].heard \in {session[n].heard, 0}
    BY <1>12 DEF RestartClerk
  <2>2. QED BY <1>0, <2>1, OnlyCopies
<1>13. QED
  BY <1>2, <1>3, <1>4, <1>5, <1>6, <1>7, <1>9, <1>10, <1>11, <1>12, HearIsBounded
     DEF ClerkNext, ChainStep, clerkVars, PressStop, StopIgnored, SendSummary

\* The types of the clerk, with the bounds of its counters.
THEOREM ClerkTypeCorrect == ClerkSpec => []ClerkTypeOK
<1>1. ClerkInit => CountInv /\ PhraseInv
  <2>1. ClerkInit => PhraseInv
    BY ClerkAssumption DEF ClerkInit, PhraseInv
  <2>2. QED BY <2>1, CountStarts
<1>2. ClerkInv /\ CountInv /\ PhraseInv /\ [ClerkNext]_clerkVars => CountInv' /\ PhraseInv'
  BY CountStays, PhrasesStay DEF ClerkInv, MailShapes
<1>3. ClerkSpec => [](CountInv /\ PhraseInv)
  BY <1>1, <1>2, ClerkInvStays, PTL DEF ClerkSpec
<1>4. ClerkInv /\ CountInv /\ PhraseInv => ClerkTypeOK
  <2> SUFFICES ASSUME ClerkInv, CountInv, PhraseInv PROVE ClerkTypeOK
    OBVIOUS
  <2>0. /\ ClerkShape /\ MailShape
        /\ MaxStops \in Nat /\ MaxMails \in Nat /\ MaxPhrases \in Nat /\ MaxClerkRestarts \in Nat
    BY ClerkAssumption DEF ClerkInv, MailShapes
  <2>1. ASSUME NEW n \in Notes
        PROVE  /\ stops[n] \in 0..MaxStops /\ asked[n] \in 0..MaxStops
               /\ mailed[n] \in 0..MaxMails /\ sending[n] \in 0..MaxMails
    <3>1. /\ stops[n] <= Total(stops) /\ asked[n] <= Total(asked) /\ mailed[n] <= Total(mailed)
          /\ Total(stops) \in Nat /\ Total(asked) \in Nat /\ Total(mailed) \in Nat
      BY <2>0, PartOfSum, SumsAreNat DEF ClerkShape, MailShape
    <3>2. /\ stops[n] \in Nat /\ asked[n] \in Nat /\ mailed[n] \in Nat /\ sending[n] \in Nat
      BY <2>0 DEF ClerkShape, MailShape
    <3>3. QED BY <2>0, <3>1, <3>2 DEF CountInv
  <2>2. ASSUME NEW n \in Notes
        PROVE  /\ note[n] \in [status : NoteStatus, text : 0..MaxPhrases,
                               summary : 0..MaxStops,
                               selection : {"null", "pending", "sent", "skipped"}]
               /\ session[n] \in [state : {"none", "open", "failed"}, heard : 0..MaxPhrases]
               /\ payload[n] \in 0..MaxStops
    <3>1. note[n] \in NoteRow /\ session[n] \in Listener /\ payload[n] \in Nat
      BY <2>0 DEF ClerkShape, MailShape
    <3>2. note[n].summary <= stops[n] /\ payload[n] <= stops[n]
      BY DEF ClerkInv, MailInv, NoteMail
    <3>3. note[n].text <= MaxPhrases /\ session[n].heard <= MaxPhrases
      BY DEF PhraseInv
    <3>4. note[n].text \in Nat /\ note[n].summary \in Nat /\ session[n].heard \in Nat
      BY <3>1 DEF NoteRow, Listener
    <3>5. /\ note[n].text \in 0..MaxPhrases /\ session[n].heard \in 0..MaxPhrases
          /\ note[n].summary \in 0..MaxStops /\ payload[n] \in 0..MaxStops
      BY <2>0, <2>1, <3>1, <3>2, <3>3, <3>4
    <3>6. QED BY <3>1, <3>5 DEF NoteRow, Listener
  <2>3. ASSUME NEW c \in chains
        PROVE  c \in Chain /\ c.id <= stops[c.note] /\ note[c.note].status # "none"
    <3>1. c \in Worker /\ c.note \in Notes /\ c.id \in Nat /\ c.text \in Nat
      BY <2>0 DEF ClerkShape, Worker
    <3>2. NoteMail(c.note) /\ c \in Working(c.note)
      BY <3>1 DEF ClerkInv, MailInv, Working
    <3>3. 1 <= c.id /\ c.id <= stops[c.note]
      BY <3>2 DEF NoteMail
    <3>4. stops[c.note] \in 0..MaxStops
      BY <2>1, <3>1
    <3>5. note[c.note].status # "none"
      BY <3>1, <3>2, <3>3 DEF NoteMail
    <3>6. c.id \in 1..MaxStops /\ c.text \in 0..MaxPhrases
      BY <2>0, <3>1, <3>3, <3>4 DEF PhraseInv
    <3>7. QED BY <3>1, <3>3, <3>5, <3>6 DEF Worker, Chain
  <2>4. /\ note \in [Notes -> [status : NoteStatus, text : 0..MaxPhrases, summary : 0..MaxStops,
                               selection : {"null", "pending", "sent", "skipped"}]]
        /\ session \in [Notes -> [state : {"none", "open", "failed"}, heard : 0..MaxPhrases]]
    BY <2>0, <2>2 DEF ClerkShape
  <2>5. /\ stops \in [Notes -> 0..MaxStops] /\ asked \in [Notes -> 0..MaxStops]
        /\ payload \in [Notes -> 0..MaxStops] /\ mailed \in [Notes -> 0..MaxMails]
        /\ sending \in [Notes -> 0..MaxMails]
    BY <2>0, <2>1, <2>2 DEF ClerkShape, MailShape
  <2>6. opening \subseteq Notes /\ cut \subseteq Notes /\ restarts \in 0..MaxClerkRestarts
    BY <2>0 DEF ClerkShape, MailShape, CountInv
  <2>7. QED BY <2>3, <2>4, <2>5, <2>6 DEF ClerkTypeOK
<1>5. QED BY <1>3, <1>4, ClerkInvStays, PTL

-----------------------------------------------------------------------------
(* The roster of the clerk *)

\* The row's list has everybody who was listed, and so has the set in memory for as
\* long as an answer can still come.
RosterInv ==
    /\ RosterTypeOK
    /\ gathering <= stopped
    /\ row = "none" => ~ticking /\ Flying = {} /\ listed = {} /\ gathering = 0
    /\ gathering > 0 => ~ticking
    /\ ~forgot /\ (ticking \/ Flying # {}) => seen # NoList /\ listed \subseteq seen
    /\ ~forgot /\ row # "deleted" /\ listed # {} => present # NoList /\ listed \subseteq present

\* A list that is there is a set of people.
LEMMA ListsAreSets ==
    ASSUME NEW S \in Lists, S # NoList
    PROVE  S \subseteq People
BY DEF Lists

\* A set of people is a list that is there.
LEMMA PeopleAreNoNull ==
    ASSUME NEW S \in SUBSET People
    PROVE  S # NoList /\ S \in Lists
BY RosterAssumption DEF NoList, Lists

\* Nobody was listed.
LEMMA RosterStarts == RosterInit => RosterInv
<1> SUFFICES ASSUME RosterInit PROVE RosterInv
  OBVIOUS
<1>1. \A s \in 1..MaxPolls : polls[s] = NoList
  BY DEF RosterInit
<1>2. RosterTypeOK
  <2>1. NoList \in Lists
    BY DEF Lists
  <2>2. polls \in [1..MaxPolls -> Lists]
    BY <2>1 DEF RosterInit
  <2>3. /\ room \subseteq People /\ listed = {} /\ row = "none" /\ ticking = FALSE
        /\ forgot = FALSE /\ seen = NoList /\ present = NoList /\ attendees = NoList
        /\ gathering = 0 /\ stopped = 0
    BY DEF RosterInit
  <2>4. 0 \in 0..MaxHangups
    BY RosterAssumption
  <2>5. QED BY <2>1, <2>2, <2>3, <2>4 DEF RosterTypeOK
<1>3. QED BY <1>1, <1>2, RosterAssumption DEF RosterInit, RosterInv, Flying

\* A slot that takes an answer, or loses it.
LEMMA FlyingSlots ==
    ASSUME RosterTypeOK, NEW s \in 1..MaxPolls, NEW list \in Lists,
           polls' = [polls EXCEPT ![s] = list]
    PROVE  /\ polls' \in [1..MaxPolls -> Lists]
           /\ Flying' \subseteq Flying \union {s}
           /\ list = NoList => Flying' = Flying \ {s}
BY DEF RosterTypeOK, Flying

\* Each step keeps everybody listed, in memory, in the row, or known to be forgotten.
LEMMA RosterStays == RosterInv /\ [RosterNext]_rosterVars => RosterInv'
<1> SUFFICES ASSUME RosterInv, [RosterNext]_rosterVars PROVE RosterInv'
  OBVIOUS
<1>t. /\ RosterTypeOK /\ gathering \in Nat /\ stopped \in Nat /\ MaxHangups \in Nat
      /\ Members \subseteq People /\ Starter \in People
  BY RosterAssumption DEF RosterInv, RosterTypeOK
<1>n. NoList \in Lists
  BY DEF Lists
<1>1. ASSUME NEW p \in People, ComeOrGo(p) PROVE RosterInv'
  BY <1>1 DEF ComeOrGo, RosterInv, RosterTypeOK, Flying
<1>2. CASE StartRoster
  <2>1. 1 \in 1..MaxPolls /\ room \in SUBSET People /\ {} \in SUBSET People
    BY <1>2, <1>t, RosterAssumption DEF StartRoster, RosterTypeOK
  <2>2. polls' \in [1..MaxPolls -> Lists] /\ {} \in Lists /\ {} # NoList
    BY <1>2, <1>t, <2>1, FlyingSlots, PeopleAreNoNull DEF StartRoster
  <2>3. RosterTypeOK'
    BY <1>2, <1>t, <2>2 DEF StartRoster, RosterTypeOK
  <2>4. listed = {} /\ gathering = 0
    BY <1>2 DEF StartRoster, RosterInv
  <2>5. QED BY <1>2, <1>t, <2>2, <2>3, <2>4 DEF StartRoster, RosterInv
<1>3. CASE StartFails
  BY <1>3 DEF StartFails, RosterInv, RosterTypeOK, Flying
<1>4. ASSUME NEW s \in 1..MaxPolls, AskRoom(s) PROVE RosterInv'
  <2>1. polls' \in [1..MaxPolls -> Lists]
    BY <1>4, <1>t, FlyingSlots, PeopleAreNoNull DEF AskRoom, RosterTypeOK
  <2>2. RosterTypeOK'
    BY <1>4, <1>t, <2>1 DEF AskRoom, RosterTypeOK
  <2>3. QED BY <1>4, <2>2 DEF AskRoom, RosterInv
<1>5. ASSUME NEW s \in 1..MaxPolls, NEW found \in SUBSET People, Collect(s, found)
      PROVE  RosterInv'
  <2>1. polls' \in [1..MaxPolls -> Lists] /\ Flying' = Flying \ {s}
    BY <1>5, <1>n, <1>t, FlyingSlots DEF Collect
  <2>2. s \in Flying
    BY <1>5, <1>t DEF Collect, Flying
  <2>3. seen' \in SUBSET People
    BY <1>5, <1>t, <2>2, ListsAreSets DEF Collect, Collected, RosterTypeOK
  <2>4. seen' \in Lists /\ seen' # NoList
    BY <2>3, PeopleAreNoNull
  <2>5. RosterTypeOK'
    BY <1>5, <1>t, <2>1, <2>3, <2>4 DEF Collect, RosterTypeOK
  <2>6. ~forgot => seen # NoList /\ listed \subseteq seen /\ seen \subseteq seen'
    <3>1. ~forgot => seen # NoList /\ listed \subseteq seen
      BY <2>2 DEF RosterInv
    <3>2. QED BY <1>5, <3>1 DEF Collect, Collected
  <2>7. row # "none"
    BY <2>2 DEF RosterInv
  <2>8. ~forgot => listed' \subseteq seen'
    BY <1>5, <2>6 DEF Collect
  <2>9. ~forgot /\ row # "deleted" => present' = seen'
    BY <1>5 DEF Collect
  <2>10. UNCHANGED <<row, ticking, gathering, stopped, forgot>>
    BY <1>5 DEF Collect
  <2>11. QED BY <2>4, <2>5, <2>7, <2>8, <2>9, <2>10 DEF RosterInv
<1>6. ASSUME NEW s \in 1..MaxPolls, RoomAnswered(s) \/ PollFails(s) PROVE RosterInv'
  <2>1. CASE RoomAnswered(s)
    <3>1. polls[s] \in SUBSET People
      BY <1>t, <2>1, ListsAreSets DEF RoomAnswered, Collect, RosterTypeOK
    <3>2. QED BY <1>5, <2>1, <3>1 DEF RoomAnswered
  <2>2. CASE PollFails(s)
    BY <1>5, <2>2 DEF PollFails
  <2>3. QED BY <1>6, <2>1, <2>2
<1>7. CASE HangUp
  <2>1. gathering + 1 <= stopped + 1 /\ stopped + 1 <= MaxHangups
    BY <1>7, <1>t DEF HangUp, RosterInv
  <2>2. gathering + 1 \in 0..MaxHangups /\ stopped + 1 \in 0..MaxHangups
    BY <1>t, <2>1
  <2>3. RosterTypeOK'
    BY <1>7, <1>t, <2>2 DEF HangUp, RosterTypeOK
  <2>4. Flying' = Flying
    BY <1>7 DEF HangUp, Flying
  <2>5. QED BY <1>7, <2>1, <2>3, <2>4 DEF HangUp, RosterInv
<1>8. CASE Gather
  <2>1. Attending \in Lists
    <3>1. Names(present) => present \union {Starter} \in SUBSET People
      BY <1>t, ListsAreSets DEF Names, RosterTypeOK
    <3>2. Names(seen) => seen \union {Starter} \in SUBSET People
      BY <1>t, ListsAreSets DEF Names, RosterTypeOK
    <3>3. QED BY <1>t, <3>1, <3>2, PeopleAreNoNull DEF Attending
  <2>2. gathering - 1 \in 0..MaxHangups /\ gathering - 1 <= stopped
    BY <1>8, <1>t DEF Gather, RosterTypeOK, RosterInv
  <2>3. RosterTypeOK'
    BY <1>8, <1>n, <1>t, <2>1, <2>2 DEF Gather, RosterTypeOK
  <2>4. ~ticking /\ row # "none"
    BY <1>8, <1>t DEF Gather, RosterInv
  <2>5. Flying' = Flying /\ (~forgot' => Flying = {} /\ ~forgot)
    BY <1>8, <1>t DEF Gather, Flying, RosterTypeOK
  <2>6. QED BY <1>8, <2>2, <2>3, <2>4, <2>5 DEF Gather, RosterInv
<1>9. CASE DeleteRow
  BY <1>9 DEF DeleteRow, RosterInv, RosterTypeOK, Flying
<1>10. CASE RestartRoster
  <2>1. polls' \in [1..MaxPolls -> Lists] /\ Flying' = {}
    BY <1>10, <1>n DEF RestartRoster, Flying
  <2>2. /\ UNCHANGED <<room, row, present, attendees, stopped, listed, forgot>>
        /\ ticking' = FALSE /\ seen' = NoList /\ gathering' = 0 /\ 0 \in 0..MaxHangups
    BY <1>10, <1>t DEF RestartRoster
  <2>3. RosterTypeOK'
    BY <1>n, <1>t, <2>1, <2>2 DEF RosterTypeOK
  <2>4. QED BY <1>10, <1>t, <2>1, <2>2, <2>3 DEF RosterInv, RestartRoster
<1>11. CASE UNCHANGED rosterVars
  BY <1>11 DEF rosterVars, RosterInv, RosterTypeOK, Flying
<1>12. QED
  BY <1>1, <1>2, <1>3, <1>4, <1>5, <1>6, <1>7, <1>8, <1>9, <1>10, <1>11 DEF RosterNext

\* So in every state.
LEMMA RosterInvariant == RosterSpec => []RosterInv
<1>1. QED BY RosterStarts, RosterStays, PTL DEF RosterSpec

\* stopClerk, its chain and the poll that feeds them: a stop that writes the attendees writes
\* everybody any poll has listed, unless an earlier stop dropped the set under a poll.
THEOREM NobodyIsMissing == RosterSpec => AttendeesAreComplete
<1>1. RosterInv /\ [RosterNext]_rosterVars =>
         [attendees' # attendees => listed \subseteq attendees' \/ forgot]_rosterVars
  <2> SUFFICES ASSUME RosterInv, RosterNext, attendees' # attendees, ~forgot
               PROVE  listed \subseteq attendees'
    BY DEF rosterVars
  <2>1. Gather /\ row # "deleted"
    BY DEF RosterNext, ComeOrGo, StartRoster, StartFails, AskRoom, RoomAnswered, PollFails, Collect,
           HangUp, Gather, DeleteRow, RestartRoster
  <2>2. CASE listed = {}
    BY <2>2
  <2>3. CASE listed # {}
    <3>1. present # NoList /\ listed \subseteq present
      BY <2>1, <2>3 DEF RosterInv
    <3>2. Names(present)
      BY <2>3, <3>1 DEF Names
    <3>3. QED BY <2>1, <3>1, <3>2 DEF Gather, Attending
  <2>4. QED BY <2>2, <2>3
<1>2. QED BY <1>1, RosterInvariant, PTL DEF RosterSpec, AttendeesAreComplete

=============================================================================
