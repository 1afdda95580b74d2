----------------------------- MODULE ClerkRoster -----------------------------
(***************************************************************************)
(* Who was in the call: the polls of the LiveKit room that the clerk makes *)
(* for one note, the list it keeps in memory and in the row, and the       *)
(* attendees a stop draws from it (server/meeting-clerk.ts).  How the note *)
(* gets from the stop to its summary is the subject of MeetingClerk.       *)
(***************************************************************************)
EXTENDS Naturals, FiniteSets

CONSTANTS
    People,       \* users, by their LiveKit identities u_<id>
    Starter,      \* the user who started the clerk
    Members,      \* the channel's members
    MaxPolls,     \* polls in flight at once
    MaxHangups    \* stop requests

ASSUME RosterAssumption ==
    /\ Starter \in People /\ Members \subseteq People
    /\ "unknown" \notin People
    /\ MaxPolls \in Nat /\ MaxHangups \in Nat

VARIABLES
    room,      \* who is in the LiveKit room
    row,       \* the note's status; "stopping" is every status after a stop
    ticking,   \* the interval is set
    seen,      \* collectedUserIds: the set kept in memory, or none
    present,   \* participant_user_ids_json of the row
    attendees, \* attendees_json of the row
    polls,     \* answers of LiveKit on their way, [slot -> people or none]
    gathering, \* stops that wait for the session to close
    stopped,   \* stops so far
    listed,    \* everybody any poll has put into the row
    forgot     \* the set in memory was dropped while a poll was in flight

rosterVars == <<room, row, ticking, seen, present, attendees, polls,
                gathering, stopped, listed, forgot>>

NoList == {"unknown"}
Lists  == {NoList} \union SUBSET People

RosterInit ==
    /\ room \in SUBSET People
    /\ row = "none" /\ ticking = FALSE
    /\ seen = NoList /\ present = NoList /\ attendees = NoList
    /\ polls = [s \in 1..MaxPolls |-> NoList]
    /\ gathering = 0 /\ stopped = 0 /\ listed = {} /\ forgot = FALSE

Flying == {s \in 1..MaxPolls : polls[s] # NoList}

ComeOrGo(p) ==
    /\ row # "none"
    /\ room' = IF p \in room THEN room \ {p} ELSE room \union {p}
    /\ UNCHANGED <<row, ticking, seen, present, attendees, polls, gathering, stopped,
                   listed, forgot>>

\* startClerk with a room: the set is seeded and the interval set, then the first
\* poll is made.
StartRoster ==
    /\ row = "none" /\ MaxPolls > 0
    /\ row' = "recording" /\ ticking' = TRUE /\ seen' = {}
    /\ polls' = [polls EXCEPT ![1] = room]
    /\ UNCHANGED <<room, present, attendees, gathering, stopped, listed, forgot>>

\* The transcription did not start: the row fails and the interval goes on.
StartFails ==
    /\ row \in {"recording", "stopping"}
    /\ row' = "failed"
    /\ UNCHANGED <<room, ticking, seen, present, attendees, polls, gathering, stopped,
                   listed, forgot>>

\* The interval asks LiveKit, which answers with who is in the room.
AskRoom(s) ==
    /\ ticking /\ polls[s] = NoList
    /\ polls' = [polls EXCEPT ![s] = room]
    /\ UNCHANGED <<room, row, ticking, seen, present, attendees, gathering, stopped,
                   listed, forgot>>

\* Mutant of Collected: who has left is forgotten.
ListedOnly(set, found) == found

\* What the set becomes when an answer is added to it.
Collected(set, found)  == (IF set = NoList THEN {} ELSE set) \union found

\* collectParticipants goes on: the set grows by those found, and the row gets all of it.
Collect(s, found) ==
    /\ polls[s] # NoList
    /\ polls' = [polls EXCEPT ![s] = NoList]
    /\ seen' = Collected(seen, found)
    /\ present' = IF row = "deleted" THEN present ELSE seen'
    /\ listed' = IF row = "deleted" THEN listed ELSE listed \union seen'
    /\ UNCHANGED <<room, row, ticking, attendees, gathering, stopped, forgot>>

RoomAnswered(s) == Collect(s, polls[s])

\* LiveKit fails, which listRoomParticipantIdentities takes for an empty room.
PollFails(s) == Collect(s, {})

\* The attendees a chain writes: the row's list, else the set in memory, else
\* the whole channel; the starter always belongs to the first two.
Names(list) == list # NoList /\ list # {}

Attending ==
    IF row # "deleted" /\ Names(present) THEN present \union {Starter}
    ELSE IF Names(seen) THEN seen \union {Starter}
    ELSE Members

\* stopClerk: the interval is cleared; the chain waits for the session.
HangUp ==
    /\ row = "recording" \/ row = "stopping"
    /\ stopped < MaxHangups
    /\ stopped' = stopped + 1 /\ gathering' = gathering + 1
    /\ ticking' = FALSE /\ row' = "stopping"
    /\ UNCHANGED <<room, seen, present, attendees, polls, listed, forgot>>

\* The chain draws up the attendees and drops the set.
Gather ==
    /\ gathering > 0
    /\ gathering' = gathering - 1
    /\ attendees' = IF row = "deleted" THEN attendees ELSE Attending
    /\ seen' = NoList
    /\ forgot' = (forgot \/ Flying # {})
    /\ UNCHANGED <<room, row, ticking, present, polls, stopped, listed>>

DeleteRow ==
    /\ row \in {"recording", "stopping", "failed"}
    /\ row' = "deleted"
    /\ UNCHANGED <<room, ticking, seen, present, attendees, polls, gathering, stopped,
                   listed, forgot>>

\* The process restarts: the interval, the set, polls and chains are gone.
RestartRoster ==
    /\ row # "none" /\ (ticking \/ seen # NoList \/ Flying # {} \/ gathering > 0)
    /\ ticking' = FALSE /\ seen' = NoList /\ gathering' = 0
    /\ polls' = [s \in 1..MaxPolls |-> NoList]
    /\ UNCHANGED <<room, row, present, attendees, stopped, listed, forgot>>

RosterNext ==
    \/ \E p \in People : ComeOrGo(p)
    \/ \E s \in 1..MaxPolls : AskRoom(s) \/ RoomAnswered(s) \/ PollFails(s)
    \/ StartRoster \/ StartFails \/ HangUp \/ Gather \/ DeleteRow \/ RestartRoster

RosterSpec == RosterInit /\ [][RosterNext]_rosterVars

-----------------------------------------------------------------------------
(* Properties *)

\* The type of the state: a list in the row or in memory is of people, and the
\* attendees are.
RosterTypeOK ==
    /\ room \subseteq People /\ listed \subseteq People
    /\ row \in {"none", "recording", "failed", "stopping", "deleted"}
    /\ ticking \in BOOLEAN /\ forgot \in BOOLEAN
    /\ seen \in Lists /\ present \in Lists /\ attendees \in Lists
    /\ polls \in [1..MaxPolls -> Lists]
    /\ gathering \in 0..MaxHangups /\ stopped \in 0..MaxHangups

\* Nobody who was listed is missing from the attendees a stop writes, across
\* restarts and however late LiveKit answers, unless an earlier stop dropped the
\* set in memory while a poll was in flight: its answer starts a new set and
\* overwrites the row's list.
AttendeesAreComplete ==
    [][attendees' # attendees => listed \subseteq attendees' \/ forgot]_rosterVars

=============================================================================
