------------------------------ MODULE Announcer ------------------------------
(***************************************************************************)
(* The patch-notes announcer (server/patch-notes-announcer.ts), which runs *)
(* once at every boot: it compares the newest note of the build with the   *)
(* marker in system_state, tells every active user, and moves the marker   *)
(* when the last e-mail is out.  A deploy or a crash may come in between.  *)
(***************************************************************************)
EXTENDS Naturals, FiniteSets

CONSTANTS
    Readers,       \* users
    MaxNote,       \* number of the last note ever shipped
    MaxBoots

ASSUME AnnouncerAssumption == MaxNote \in Nat /\ MaxBoots \in Nat

VARIABLES
    shipped,   \* newest note of the build that runs
    marker,    \* patch_notes_last_notified, or no row
    enrolled,  \* users who are not deactivated
    run,       \* the announcer of this boot
    mails,     \* per user and note, e-mails handed over
    skipped,   \* notes a first run marked without announcing them
    boots,
    cutRuns    \* announcements a boot cut short

annVars == <<shipped, marker, enrolled, run, mails, skipped, boots, cutRuns>>

NoMarker == MaxNote + 1
PatchNotes == 1..MaxNote

Off == [on |-> FALSE, upTo |-> 0, audience |-> {}, todo |-> {}]

AnnouncerInit ==
    /\ shipped = 0 /\ marker = NoMarker
    /\ enrolled \in SUBSET Readers
    /\ run = Off
    /\ mails = [u \in Readers |-> [n \in PatchNotes |-> 0]]
    /\ skipped = {} /\ boots = 0 /\ cutRuns = 0

\* A user joins, or is deactivated.
Enrol(u) ==
    /\ boots > 0
    /\ enrolled' = IF u \in enrolled THEN enrolled \ {u} ELSE enrolled \union {u}
    /\ UNCHANGED <<shipped, marker, run, mails, skipped, boots, cutRuns>>

\* A crash, or a deploy of a build with notes up to n (a rollback has fewer),
\* starts the process anew and the announcer up to its first await.  The push is
\* not followed.
Boot(n) ==
    /\ boots < MaxBoots
    /\ boots' = boots + 1
    /\ cutRuns' = IF run.on THEN cutRuns + 1 ELSE cutRuns
    /\ shipped' = n
    /\ \/ /\ n > 0 /\ marker = NoMarker
          /\ marker' = n /\ skipped' = 1..n /\ run' = Off
       \/ /\ n > 0 /\ marker # NoMarker /\ n > marker /\ enrolled = {}
          /\ marker' = n /\ skipped' = skipped \union (marker + 1)..n /\ run' = Off
       \/ /\ n > 0 /\ marker # NoMarker /\ n > marker /\ enrolled # {}
          /\ run' = [on |-> TRUE, upTo |-> n, audience |-> enrolled, todo |-> enrolled]
          /\ UNCHANGED <<marker, skipped>>
       \/ /\ n = 0 \/ (marker # NoMarker /\ n <= marker)
          /\ run' = Off /\ UNCHANGED <<marker, skipped>>
    /\ UNCHANGED <<enrolled, mails>>

\* What an e-mail of the run tells of: every note above the marker.
News == {n \in PatchNotes : n > marker /\ n <= run.upTo}

\* sendEmail to one user of the audience, and its answer, good or bad.
MailReader(u) ==
    /\ run.on /\ u \in run.todo
    /\ mails' = [mails EXCEPT ![u] =
                   [n \in PatchNotes |-> @[n] + IF n \in News THEN 1 ELSE 0]]
    /\ run' = [run EXCEPT !.todo = @ \ {u}]
    /\ UNCHANGED <<shipped, marker, enrolled, skipped, boots, cutRuns>>

\* Mutant of Everybody: nobody is waited for.
Somebody == TRUE
Everybody == run.todo = {}

\* Everybody has been told: the marker moves.
MoveMarker ==
    /\ run.on /\ Everybody
    /\ marker' = run.upTo
    /\ run' = Off
    /\ UNCHANGED <<shipped, enrolled, mails, skipped, boots, cutRuns>>

AnnouncerNext ==
    \/ \E u \in Readers : Enrol(u) \/ MailReader(u)
    \/ \E n \in 0..MaxNote : Boot(n)
    \/ MoveMarker

AnnouncerSpec == AnnouncerInit /\ [][AnnouncerNext]_annVars

-----------------------------------------------------------------------------
(* Properties *)

\* The type of the state; the marker is the number of a note, and nobody is told
\* of a note more often than the server was started.
AnnouncerTypeOK ==
    /\ shipped \in 0..MaxNote /\ marker \in 1..NoMarker
    /\ enrolled \subseteq Readers /\ skipped \subseteq PatchNotes
    /\ run \in [on : BOOLEAN, upTo : 0..MaxNote, audience : SUBSET Readers,
               todo : SUBSET Readers]
    /\ mails \in [Readers -> [PatchNotes -> 0..MaxBoots]]
    /\ boots \in 0..MaxBoots /\ cutRuns \in 0..boots

\* The marker passes a note only when everybody the boot had listed has been told
\* of it: a run that was cut short is repeated, not forgotten.  And nobody hears of a
\* note again but where an announcement was cut short.
NotesAreToldOnce ==
    [][/\ \A n \in PatchNotes :
             run.on /\ marker < n /\ marker' >= n /\ n \notin skipped' =>
                \A u \in run.audience : mails[u][n] > 0
       /\ \A u \in Readers, n \in PatchNotes :
             mails'[u][n] > mails[u][n] => mails[u][n] <= cutRuns]_annVars

=============================================================================
