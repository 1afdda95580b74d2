------------------------------ MODULE Recording ------------------------------
(***************************************************************************)
(* Recording of one voice channel: the start and stop routes, the egress   *)
(* they ask LiveKit for, and its webhook (server/recording.ts,             *)
(* routes-v2.ts).  The row is written after the await of the start, and    *)
(* the stop overwrites it after its own.                                   *)
(***************************************************************************)
EXTENDS Naturals, FiniteSets

CONSTANTS
    MaxRows,      \* recordings of the channel
    MaxCuts       \* restarts of the server

ASSUME RecordingAssumption == MaxRows \in Nat /\ MaxCuts \in Nat

VARIABLES
    rec,       \* recordings rows: status
    egress,    \* LiveKit's egress of each row to be, by the same number
    begun,     \* starts whose answer from LiveKit is awaited
    adrift,    \* starts whose answer was lost, or that a restart cut off
    ending,    \* stops between their two steps: asked of LiveKit, then answered
    hooks,     \* egress_ended webhooks on their way
    tardy,     \* rows that were finalized while a stop of theirs was under way
    unheard,   \* egresses whose webhook was lost, or that no row names when it comes
    rivals,    \* rows whose start overlapped another
    unstopped, \* rows whose egress LiveKit did not stop when asked
    cuts

lkVars   == <<egress, hooks>>
recPast  == <<tardy, unheard, rivals, unstopped, cuts>>
recVars  == <<rec, lkVars, begun, adrift, ending, recPast>>

RecIds == 1..MaxRows
Final  == {"ready", "failed"}

RecordingInit ==
    /\ rec = [r \in RecIds |-> "none"]
    /\ egress = [r \in RecIds |-> "none"]
    /\ begun = {} /\ adrift = {} /\ ending = {} /\ hooks = {}
    /\ tardy = {} /\ unheard = {} /\ rivals = {} /\ unstopped = {} /\ cuts = 0

RecordingNow == {r \in RecIds : rec[r] = "recording"}

\* Mutant of ActiveRec: the egress that runs.
ByEgress(r) == egress[r] = "running"

\* getActiveRecordingForChannel: the newest.
ActiveRec(r) == r \in RecordingNow /\ \A q \in RecordingNow : q <= r

\* The number the next row will have.
Taken(r)  == rec[r] # "none" \/ egress[r] # "none" \/ r \in begun \union adrift
Unused(r) == ~Taken(r) /\ \A q \in RecIds : q < r => Taken(q)

\* Mutant of NothingRecording: a start that is under way is what counts.
NoStartUnderWay  == begun = {}
NothingRecording == RecordingNow = {}

\* startRoomRecording: none is active, and LiveKit is asked for an egress.
StartRecording(r) ==
    /\ NothingRecording /\ Unused(r)
    /\ begun' = begun \union {r}
    /\ rivals' = IF begun = {} THEN rivals ELSE rivals \union begun \union {r}
    /\ UNCHANGED <<rec, lkVars, adrift, ending, tardy, unheard, unstopped, cuts>>

\* LiveKit does as it was asked, whether or not somebody still waits for its answer.
EgressBegins(r) ==
    /\ r \in begun \union adrift /\ egress[r] = "none"
    /\ egress' = [egress EXCEPT ![r] = "running"]
    /\ UNCHANGED <<rec, begun, adrift, ending, hooks, recPast>>

\* LiveKit answers with the egress: the row is written.
RecordingStarted(r) ==
    /\ r \in begun /\ egress[r] # "none"
    /\ begun' = begun \ {r}
    /\ rec' = [rec EXCEPT ![r] = "recording"]
    /\ UNCHANGED <<lkVars, adrift, ending, recPast>>

\* The call throws: a row that names no egress, already failed.
FailedRow(r) ==
    /\ r \in begun
    /\ begun' = begun \ {r}
    /\ rec' = [rec EXCEPT ![r] = "failed"]

\* LiveKit refused, or was never reached.
RecordingRefused(r) ==
    /\ egress[r] = "none" /\ FailedRow(r)
    /\ UNCHANGED <<lkVars, adrift, ending, recPast>>

\* Its answer was lost or too late: the egress runs, or will, and no row names it.
AnswerLost(r) ==
    /\ FailedRow(r)
    /\ adrift' = adrift \union {r}
    /\ UNCHANGED <<lkVars, ending, recPast>>

\* The room empties, the file is full or the egress fails: LiveKit ends it.
EgressEnds(r) ==
    /\ egress[r] = "running"
    /\ egress' = [egress EXCEPT ![r] = "ended"]
    /\ hooks' = hooks \union {r}
    /\ UNCHANGED <<rec, begun, adrift, ending, recPast>>

\* The stop route and stopRecording up to its await.
StopRecording(r) ==
    /\ ActiveRec(r) /\ [rec |-> r, asked |-> FALSE] \notin ending
    /\ ending' = ending \union {[rec |-> r, asked |-> FALSE]}
    /\ UNCHANGED <<rec, lkVars, begun, adrift, recPast>>

\* LiveKit stops the egress, if it is still running; its webhook goes out.
EgressStopped(s) ==
    /\ ~s.asked
    /\ ending' = (ending \ {s}) \union {[s EXCEPT !.asked = TRUE]}
    /\ egress' = [egress EXCEPT ![s.rec] = "ended"]
    /\ hooks' = IF egress[s.rec] = "running" THEN hooks \union {s.rec} ELSE hooks
    /\ UNCHANGED <<rec, begun, adrift, recPast>>

\* stopEgress throws, which is logged and no more: the egress runs on.
EgressNotStopped(s) ==
    /\ ~s.asked
    /\ ending' = (ending \ {s}) \union {[s EXCEPT !.asked = TRUE]}
    /\ unstopped' = unstopped \union {s.rec}
    /\ UNCHANGED <<rec, lkVars, begun, adrift, tardy, unheard, rivals, cuts>>

\* The row is marked as processing, whatever it says by now.
StopAnswered(s) ==
    /\ s.asked
    /\ ending' = ending \ {s}
    /\ rec' = [rec EXCEPT ![s.rec] = "processing"]
    /\ UNCHANGED <<lkVars, begun, adrift, recPast>>

\* Mutant of HasRow: only a row that still records is finalized.
StillRecording(r) == rec[r] = "recording"
HasRow(r)         == rec[r] # "none" /\ r \notin adrift

\* The webhook finds the row by its egress, which a start that waits has not
\* written yet, and one that failed never writes.
HookArrives(r, status) ==
    /\ r \in hooks
    /\ hooks' = hooks \ {r}
    /\ rec' = IF HasRow(r) THEN [rec EXCEPT ![r] = status] ELSE rec
    /\ unheard' = IF rec[r] = "none" \/ r \in adrift THEN unheard \union {r} ELSE unheard
    /\ tardy' = IF \E s \in ending : s.rec = r THEN tardy \union {r} ELSE tardy
    /\ UNCHANGED <<egress, begun, adrift, ending, rivals, unstopped, cuts>>

HookLost(r) ==
    /\ r \in hooks
    /\ hooks' = hooks \ {r}
    /\ unheard' = unheard \union {r}
    /\ UNCHANGED <<rec, egress, begun, adrift, ending, tardy, rivals, unstopped, cuts>>

\* The server restarts: starts and stops under way are gone, and LiveKit goes on.
CutRecording ==
    /\ cuts < MaxCuts
    /\ cuts' = cuts + 1
    /\ adrift' = adrift \union begun
    /\ begun' = {} /\ ending' = {}
    /\ UNCHANGED <<rec, lkVars, tardy, unheard, rivals, unstopped>>

RecordingNext ==
    \/ \E r \in RecIds :
          \/ StartRecording(r) \/ EgressBegins(r) \/ RecordingStarted(r)
          \/ RecordingRefused(r) \/ AnswerLost(r) \/ EgressEnds(r) \/ StopRecording(r)
          \/ HookLost(r)
          \/ \E status \in Final : HookArrives(r, status)
    \/ \E s \in ending : EgressStopped(s) \/ EgressNotStopped(s) \/ StopAnswered(s)
    \/ CutRecording

RecordingSpec == RecordingInit /\ [][RecordingNext]_recVars

-----------------------------------------------------------------------------
(* Properties *)

\* The type of the state: a webhook is of an egress that has ended, and a stop of
\* a recording that has its row.
RecordingTypeOK ==
    /\ rec \in [RecIds -> {"none", "recording", "processing"} \union Final]
    /\ egress \in [RecIds -> {"none", "running", "ended"}]
    /\ begun \subseteq RecIds /\ adrift \subseteq RecIds
    /\ hooks \subseteq {r \in RecIds : egress[r] = "ended"}
    /\ ending \subseteq [rec : {r \in RecIds : rec[r] # "none"}, asked : BOOLEAN]
    /\ tardy \subseteq RecIds /\ unheard \subseteq RecIds /\ rivals \subseteq RecIds
    /\ unstopped \subseteq RecIds
    /\ cuts \in 0..MaxCuts

\* Two rows say that the channel is being recorded only after their starts overlapped.
OneRecordingUnlessRivals == \A q, r \in RecordingNow : q # r => {q, r} \subseteq rivals

\* An egress LiveKit runs has a row to stop it by, or will get one, unless the answer of
\* its start was lost or cut off by a restart, so that no row names it, or LiveKit failed
\* to stop it: the row then says it is processing, and no later stop reaches the egress.
EgressHasARow ==
    \A r \in RecIds : egress[r] = "running" =>
       rec[r] = "recording" \/ r \in begun \union adrift \union unstopped

\* Both: a channel has one row that records, and whatever records can be stopped, or there
\* is a cause.
RecordingInHand == OneRecordingUnlessRivals /\ EgressHasARow

\* LiveKit calls, if the call is not lost.
RecordingFairness ==
    \A r \in RecIds : WF_recVars(\E status \in Final : HookArrives(r, status))

\* A stopped recording gets its file or fails, unless LiveKit did not stop, or the
\* webhook was lost or came too early.
ProcessingEnds ==
    \A r \in RecIds :
       []<>(rec[r] # "processing" \/ r \in tardy \union unheard \union unstopped)

=============================================================================
