---------------------------- MODULE MeetingClerk ----------------------------
(***************************************************************************)
(* The AI clerk of one channel: startClerk, stopClerk and its background   *)
(* chain, the host's decision about the summary mail (server/              *)
(* meeting-clerk.ts and its routes), the transcription session             *)
(* (meeting-clerk-transcription.ts), and the requests of the call page.    *)
(* Who was in the call is the subject of ClerkRoster.                      *)
(*                                                                         *)
(* meeting_notes rows survive a restart; sessions, chains and the payload  *)
(* map live in the process and do not.  A chain is the part of stopClerk   *)
(* that goes on after the answer; every await in it is a boundary between  *)
(* two actions.                                                            *)
(***************************************************************************)
EXTENDS Naturals, FiniteSets

CONSTANTS
    MaxNotes,    \* notes of the channel
    MaxPhrases,  \* final phrases one session hears
    MaxStops,    \* stop requests
    MaxMails,    \* summary mails
    MaxClerkRestarts

ASSUME ClerkAssumption ==
    /\ MaxNotes \in Nat /\ MaxPhrases \in Nat /\ MaxStops \in Nat
    /\ MaxMails \in Nat /\ MaxClerkRestarts \in Nat

VARIABLES
    note,      \* meeting_notes: status, selection, text (phrases kept), summary
    session,   \* the sessions map: its state and the phrases it heard
    chains,    \* background chains at work
    stops,     \* per note, how many chains were started
    payload,   \* pendingEmailPayloads: whose chain's summary, 0 for none
    sending,   \* per note, sends whose mails are out and whose mark is not made
    mailed,    \* per note, mails handed to SendGrid
    opening,   \* starts that wait for their transcription session
    asked,     \* per note, stop requests on their way
    cut,       \* notes whose chain or mail a restart cut off
    restarts

work      == <<chains, stops>>
mail      == <<payload, sending, mailed>>
requests  == <<opening, asked>>
past      == <<cut, restarts>>
clerkVars == <<note, session, work, mail, requests, past>>

Notes      == 1..MaxNotes
Processing == {"transcribing", "summarizing", "rendering", "uploading"}
Active     == Processing \union {"recording", "awaiting_recipients"}
NoteStatus == Active \union {"none", "uploaded", "failed", "deleted"}

Chain == [id : 1..MaxStops, note : Notes, own : BOOLEAN, text : 0..MaxPhrases,
          stage : {"closing", "summarizing", "rendering", "uploading"}]

ClerkInit ==
    /\ note = [n \in Notes |->
                 [status |-> "none", selection |-> "null", text |-> 0, summary |-> 0]]
    /\ session = [n \in Notes |-> [state |-> "none", heard |-> 0]]
    /\ chains = {} /\ opening = {} /\ cut = {}
    /\ stops = [n \in Notes |-> 0]
    /\ payload = [n \in Notes |-> 0]
    /\ sending = [n \in Notes |-> 0]
    /\ mailed = [n \in Notes |-> 0]
    /\ asked = [n \in Notes |-> 0]
    /\ restarts = 0

\* updateNote: an UPDATE of a deleted row changes nothing.
Row(n)          == note[n].status \notin {"none", "deleted"}
Patch(n, row)   == note' = [note EXCEPT ![n] = IF Row(n) THEN row ELSE @]
SetStatus(n, s) == Patch(n, [note[n] EXCEPT !.status = s])

-----------------------------------------------------------------------------
(* Starting *)

ActiveNotes == {n \in Notes : note[n].status \in Active}
Fresh       == {n \in Notes : note[n].status = "none"}

NothingActive == ActiveNotes = {}

\* startClerk up to its await.  With an active note, whatever its status, it hands
\* that one back and changes nothing.
StartClerk(n) ==
    /\ NothingActive
    /\ n \in Fresh /\ \A m \in Fresh : n <= m
    /\ note' = [note EXCEPT ![n].status = "recording"]
    /\ opening' = opening \union {n}
    /\ UNCHANGED <<session, work, mail, asked, past>>

\* startTranscriptionSession has returned.  A stub, or a socket that never opens, is a
\* session that hears nothing.
SessionStarts(n) ==
    /\ n \in opening
    /\ opening' = opening \ {n}
    /\ session' = [session EXCEPT ![n].state = "open"]
    /\ UNCHANGED <<note, work, mail, asked, past>>

\* It threw: the row is marked failed, whatever has become of it meanwhile.
SessionFails(n) ==
    /\ n \in opening
    /\ opening' = opening \ {n}
    /\ session' = [session EXCEPT ![n].state = "failed"]
    /\ SetStatus(n, "failed")
    /\ UNCHANGED <<work, mail, asked, past>>

\* A final phrase: onDelta appends it to the row, the session to its own text.
Hear(n) ==
    /\ session[n].state = "open" /\ session[n].heard < MaxPhrases
    /\ session' = [session EXCEPT ![n].heard = @ + 1]
    /\ Patch(n, [note[n] EXCEPT !.text = @ + 1])
    /\ UNCHANGED <<work, mail, requests, past>>

-----------------------------------------------------------------------------
(* Stopping *)

Total(f) == LET S[n \in 0..MaxNotes] == IF n = 0 THEN 0 ELSE S[n - 1] + f[n]
            IN  S[MaxNotes]

\* A page posts /stop of a note that its list, or the answer to its start, shows
\* active: the stop button, anybody's hang-up, a microphone that was refused.
PressStop(n) ==
    /\ note[n].status \in Active
    /\ Total(stops) + Total(asked) < MaxStops
    /\ asked' = [asked EXCEPT ![n] = @ + 1]
    /\ UNCHANGED <<note, session, work, mail, opening, past>>

\* stopClerk refuses only what is uploaded or failed.
MayStop(n) == Row(n) /\ note[n].status \notin {"uploaded", "failed"}

\* Mutant of Transcript: the row's text, emptied.
RowOnly(n, own) == 0

\* The transcript a chain works on: what the session it holds heard, or the row's.
Transcript(n, own) ==
    IF own /\ session[n].heard > 0 THEN session[n].heard
    ELSE IF Row(n) THEN note[n].text ELSE 0

\* What a chain does once the session is closed, up to its next await: it reads
\* the transcript and asks for the summary.
Gathered(c) == [c EXCEPT !.stage = "summarizing", !.text = Transcript(c.note, c.own)]

\* stopClerk and its chain up to the first await: the close of the session, or,
\* where the process has none, the summary.
StopClerk(n) ==
    /\ asked[n] > 0 /\ MayStop(n)
    /\ asked' = [asked EXCEPT ![n] = @ - 1]
    /\ stops' = [stops EXCEPT ![n] = @ + 1]
    /\ LET own == session[n].state = "open"
           c == [id |-> stops[n] + 1, note |-> n, own |-> own, text |-> 0,
                 stage |-> "closing"]
       IN  /\ chains' = chains \union {IF own THEN c ELSE Gathered(c)}
           /\ SetStatus(n, IF own THEN "transcribing" ELSE "summarizing")
    /\ UNCHANGED <<session, mail, opening, past>>

\* The note is gone, uploaded or failed: the answer changes nothing.
StopIgnored(n) ==
    /\ asked[n] > 0 /\ ~MayStop(n)
    /\ asked' = [asked EXCEPT ![n] = @ - 1]
    /\ UNCHANGED <<note, session, work, mail, opening, past>>

-----------------------------------------------------------------------------
(* The background chain *)

NextStage(c, stage) == chains' = (chains \ {c}) \union {[c EXCEPT !.stage = stage]}
Over(c)        == chains' = chains \ {c}

\* The session has had its 1.5 seconds and leaves the map; what it heard is kept
\* for as long as another chain holds it.
SessionCloses(c) ==
    /\ c.stage = "closing"
    /\ session' = [session EXCEPT ![c.note] =
                     [state |-> "none",
                      heard |-> IF \E b \in chains \ {c} : b.note = c.note /\ b.stage = "closing"
                                THEN @.heard ELSE 0]]
    /\ chains' = (chains \ {c}) \union {Gathered(c)}
    /\ SetStatus(c.note, "summarizing")
    /\ UNCHANGED <<stops, mail, requests, past>>

\* Mutant of Summarized: the summary is not saved in the row.
SummaryUnsaved(c) ==
    /\ c.stage = "summarizing"
    /\ SetStatus(c.note, "rendering")
    /\ NextStage(c, "rendering")
    /\ UNCHANGED <<session, stops, mail, requests, past>>

Summarized(c) ==
    /\ c.stage = "summarizing"
    /\ Patch(c.note, [note[c.note] EXCEPT !.status = "rendering", !.text = c.text,
                                          !.summary = c.id])
    /\ NextStage(c, "rendering")
    /\ UNCHANGED <<session, stops, mail, requests, past>>

Rendered(c) ==
    /\ c.stage = "rendering"
    /\ SetStatus(c.note, "uploading")
    /\ NextStage(c, "uploading")
    /\ UNCHANGED <<session, stops, mail, requests, past>>

\* The upload is over, well or badly: the host may choose who gets the mail.
Uploaded(c) ==
    /\ c.stage = "uploading"
    /\ Patch(c.note, [note[c.note] EXCEPT !.status = "awaiting_recipients",
                                          !.selection = "pending"])
    /\ payload' = [payload EXCEPT ![c.note] = c.id]
    /\ Over(c)
    /\ UNCHANGED <<session, stops, sending, mailed, requests, past>>

\* Mutant of MarkFailed: the catch only logs.
MarkNothing(n) == UNCHANGED note
MarkFailed(n) == SetStatus(n, "failed")

\* Rendering the PDF throws: the catch marks the row.
ChainFails(c) ==
    /\ c.stage = "rendering"
    /\ MarkFailed(c.note)
    /\ Over(c)
    /\ UNCHANGED <<session, stops, mail, requests, past>>

ChainStep(c) == SessionCloses(c) \/ Summarized(c) \/ Rendered(c) \/ Uploaded(c) \/ ChainFails(c)

-----------------------------------------------------------------------------
(* The summary mail *)

Undecided(n) == /\ note[n].status \in {"awaiting_recipients", "uploaded"}
                /\ note[n].selection \notin {"sent", "skipped"}

WhatToMail(n) == IF payload[n] # 0 THEN payload[n] ELSE note[n].summary

\* sendSummaryEmails up to its await: the mails are handed over, the row is not
\* marked yet.
SendSummary(n) ==
    /\ Undecided(n) /\ WhatToMail(n) # 0 /\ Total(mailed) < MaxMails
    /\ sending' = [sending EXCEPT ![n] = @ + 1]
    /\ mailed' = [mailed EXCEPT ![n] = @ + 1]
    /\ UNCHANGED <<note, session, work, payload, requests, past>>

Decided(n, how) ==
    /\ Patch(n, [note[n] EXCEPT !.status = "uploaded", !.selection = how])
    /\ payload' = [payload EXCEPT ![n] = 0]

\* The mails are out: the row is marked whatever it says by now.
SummarySent(n) ==
    /\ sending[n] > 0
    /\ Decided(n, "sent")
    /\ sending' = [sending EXCEPT ![n] = @ - 1]
    /\ UNCHANGED <<session, work, mailed, requests, past>>

SkipSummary(n) ==
    /\ Undecided(n)
    /\ Decided(n, "skipped")
    /\ UNCHANGED <<session, work, sending, mailed, requests, past>>

-----------------------------------------------------------------------------

\* The author or an admin deletes the row; its session and chain go on.
DeleteNote(n) ==
    /\ Row(n)
    /\ note' = [note EXCEPT ![n].status = "deleted"]
    /\ UNCHANGED <<session, work, mail, requests, past>>

\* The process restarts, and requests in flight are lost.  That a session failed
\* to start stays known (error_message).
RestartClerk ==
    /\ restarts < MaxClerkRestarts
    /\ restarts' = restarts + 1
    /\ session' = [n \in Notes |-> IF session[n].state = "failed" THEN session[n]
                                   ELSE [state |-> "none", heard |-> 0]]
    /\ chains' = {} /\ opening' = {}
    /\ payload' = [n \in Notes |-> 0]
    /\ sending' = [n \in Notes |-> 0]
    /\ asked' = [n \in Notes |-> 0]
    /\ cut' = cut \union {c.note : c \in chains}
                  \union {n \in Notes : sending[n] > 0}
    /\ UNCHANGED <<note, stops, mailed>>

ClerkNext ==
    \/ \E n \in Notes :
          \/ StartClerk(n) \/ SessionStarts(n) \/ SessionFails(n)
          \/ Hear(n) \/ PressStop(n) \/ StopClerk(n) \/ StopIgnored(n)
          \/ SendSummary(n) \/ SummarySent(n) \/ SkipSummary(n) \/ DeleteNote(n)
    \/ \E c \in chains : ChainStep(c)
    \/ RestartClerk

ClerkSpec == ClerkInit /\ [][ClerkNext]_clerkVars

-----------------------------------------------------------------------------
(* Properties *)

\* The variables keep their shape, and a chain works on a note that was started.
ClerkTypeOK ==
    /\ note \in [Notes -> [status : NoteStatus, text : 0..MaxPhrases, summary : 0..MaxStops,
                           selection : {"null", "pending", "sent", "skipped"}]]
    /\ session \in [Notes -> [state : {"none", "open", "failed"},
                              heard : 0..MaxPhrases]]
    /\ opening \subseteq Notes
    /\ chains \subseteq Chain
    /\ \A c \in chains : c.id <= stops[c.note] /\ note[c.note].status # "none"
    /\ stops \in [Notes -> 0..MaxStops] /\ asked \in [Notes -> 0..MaxStops]
    /\ payload \in [Notes -> 0..MaxStops] /\ mailed \in [Notes -> 0..MaxMails]
    /\ sending \in [Notes -> 0..MaxMails]
    /\ cut \subseteq Notes
    /\ restarts \in 0..MaxClerkRestarts

\* A note that says it is being worked on is being worked on, unless a restart
\* took its chain away (then nothing in the code takes it up again).
WorkHasAWorker ==
    \A n \in Notes : note[n].status \in Processing =>
       n \in cut \/ \E c \in chains : c.note = n

\* A mail carries the summary the note shows, whether it comes from the payload map
\* or, after a restart, from the row; and it goes out again only while an earlier one
\* has not been marked, or after a restart that cut the marking off.  Two chains of
\* one note, after a second stop, are the exception.
MailIsTheSummaryOnce ==
    [][\A n \in Notes : mailed'[n] > mailed[n] /\ stops[n] <= 1 =>
          /\ WhatToMail(n) = note[n].summary
          /\ mailed[n] > 0 => sending[n] > 0 \/ n \in cut]_clerkVars

\* The kept transcript loses phrases only where the stop came before the
\* session was there (a chain that does not hold it), which went on writing.
TranscriptLostToOrphan ==
    [][\A n \in Notes : note'[n].text < note[n].text =>
          \E c \in chains : c.note = n /\ ~c.own /\ c.text < note[n].text]_clerkVars

=============================================================================
