----------------------------- MODULE WidgetCalls -----------------------------
(***************************************************************************)
(* One-to-one calls in the mini chat (widget/src/BulldogChatWidget.tsx and *)
(* CallView.tsx) and the routes it uses: a banner for the call that rings, *)
(* a screen for the call that is on, each set by whatever event or answer  *)
(* comes last.  The spinner of a call being placed, which is all that an   *)
(* accepted event changes, is left out.                                    *)
(***************************************************************************)
EXTENDS Naturals, Sequences, FiniteSets

CONSTANTS
    Rung,        \* calls of others to this user
    Placed,      \* calls of this user
    NoCall,
    MaxCalls,    \* calls of a behaviour
    MaxSlips     \* requests, answers, rooms and streams lost

ASSUME WidgetCallsAssumption ==
    /\ NoCall \notin Rung \union Placed /\ Rung \cap Placed = {}
    /\ {MaxCalls, MaxSlips} \subseteq Nat

VARIABLES
    row,            \* status in direct_calls
    callStream,     \* the event stream is up
    mail,           \* events on their way, in order
    incomingCall,   \* the banner
    activeCall,     \* the screen
    ending,         \* the End button of the screen has been pressed
    asks,           \* requests under way
    slips,
    answered,       \* calls this widget was let into
    unheardEnds,    \* calls whose end it will not hear, or has heard before the answer
                    \* that shows them
    outOfSight      \* calls that are on, and an event, an answer or the room of which
                    \* was lost, or whose place another call has taken or cleared

callScreens == <<incomingCall, activeCall, ending>>
callCauses  == <<answered, unheardEnds, outOfSight>>
callVars    == <<row, callStream, mail, callScreens, asks, slips, callCauses>>

AllCalls == Rung \union Placed
Request(what, c, stage) == [what |-> what, call |-> c, stage |-> stage]
StillOn(calls) == {c \in calls \ {NoCall} : row[c] # "over"}
\* The requests whose answer puts their call on the screen.
Shows == {"accept", "join", "start"}
Under(what, c) == \E a \in asks : a.what = what /\ a.call = c
Posted(kind, c) == \E i \in DOMAIN mail : mail[i] = <<kind, c>>

\* ?joinCall in the address of the page asks for a call that is on, or rings.
CallsInit ==
    /\ \/ row = [c \in AllCalls |-> "none"] /\ asks = {}
       \/ \E c \in Rung, now \in {"ringing", "active"} :
             /\ row = [d \in AllCalls |-> IF d = c THEN now ELSE "none"]
             /\ asks = {Request("join", c, "asked")}
    /\ callStream = TRUE /\ mail = <<>>
    /\ incomingCall = NoCall /\ activeCall = NoCall /\ ending = FALSE
    /\ slips = 0 /\ answered = {} /\ unheardEnds = {}
    /\ outOfSight = {c \in AllCalls : row[c] # "none"}

Slip == slips < MaxSlips /\ slips' = slips + 1

Room == Cardinality({c \in AllCalls : row[c] # "none" \/ Under("start", c)}) < MaxCalls

-----------------------------------------------------------------------------
(* The server and the other end *)

PostCall(kind, c) == mail' = IF callStream THEN Append(mail, <<kind, c>>) ELSE mail

\* Another user calls.
Rings(c) ==
    /\ row[c] = "none" /\ Room /\ row' = [row EXCEPT ![c] = "ringing"]
    /\ PostCall("incoming", c)
    /\ outOfSight' = IF callStream THEN outOfSight ELSE outOfSight \union {c}
    /\ UNCHANGED <<callStream, callScreens, asks, slips, answered, unheardEnds>>

\* The other end is told of a call before the answer to who has placed it.
Reaches(c) == ~\E a \in asks : a = Request("start", c, "taken")

\* The callee answers, for a call to this user on another device.
AnsweredElsewhere(c) ==
    /\ row[c] = "ringing" /\ Reaches(c)
    /\ row' = [row EXCEPT ![c] = "active"]
    /\ UNCHANGED <<callStream, mail, callScreens, asks, slips, callCauses>>

Ends(c) ==
    /\ row' = [row EXCEPT ![c] = "over"]
    /\ PostCall("ended", c)
    /\ unheardEnds' = IF callStream THEN unheardEnds ELSE unheardEnds \union {c}
    /\ outOfSight' = outOfSight \ {c}

\* The other end hangs up or declines, or nobody has answered in time.
EndedElsewhere(c) ==
    /\ row[c] \in {"ringing", "active"} /\ Reaches(c)
    /\ Ends(c)
    /\ UNCHANGED <<callStream, callScreens, asks, slips, answered>>

Became(a, stage) == asks' = (asks \ {a}) \union {[a EXCEPT !.stage = stage]}

\* POST /api/calls/:id/accept up to its await, and after it.
AcceptTaken(a) ==
    /\ a.what \in {"accept", "join"} /\ a.stage = "asked"
    /\ IF row[a.call] = "ringing"
       THEN /\ row' = [row EXCEPT ![a.call] = "active"]
            /\ Became(a, "taken")
            /\ answered' = answered \union {a.call}
       ELSE UNCHANGED <<row, answered>> /\ Became(a, "refused")
    /\ UNCHANGED <<callStream, mail, callScreens, slips, unheardEnds, outOfSight>>

AcceptAnswered(a) ==
    /\ a.what \in {"accept", "join"} /\ a.stage = "taken"
    /\ Became(a, "answered")
    /\ UNCHANGED <<row, callStream, mail, callScreens, slips, callCauses>>

\* POST /api/calls/start up to its await, and after it.
StartTaken(a) ==
    /\ a.what = "start" /\ a.stage = "asked"
    /\ row' = [row EXCEPT ![a.call] = "ringing"] /\ Became(a, "taken")
    /\ UNCHANGED <<callStream, mail, callScreens, slips, callCauses>>

StartAnswered(a) ==
    /\ a.what = "start" /\ a.stage = "taken"
    /\ Became(a, "answered")
    /\ UNCHANGED <<row, callStream, mail, callScreens, slips, callCauses>>

\* POST /api/calls/:id/end
EndTaken(a) ==
    /\ a.what \in {"decline", "hangUp"} /\ a.stage = "asked"
    /\ Became(a, "answered")
    /\ IF row[a.call] = "over" THEN UNCHANGED <<row, mail, unheardEnds, outOfSight>>
                               ELSE Ends(a.call)
    /\ UNCHANGED <<callStream, callScreens, slips, answered>>

-----------------------------------------------------------------------------
(* The widget hears *)

Hears(kind) == mail # <<>> /\ Head(mail)[1] = kind /\ mail' = Tail(mail)

\* The call of a place that another takes.
Displaced(place, c) == StillOn({place} \ {c})

HearsIncoming ==
    /\ Hears("incoming")
    /\ LET c == Head(mail)[2]
       IN incomingCall' = c /\ outOfSight' = outOfSight \union Displaced(incomingCall, c)
    /\ UNCHANGED <<row, callStream, activeCall, ending, asks, slips, answered, unheardEnds>>

\* Mutant of Over: whatever is there goes.
AnyOver(c, place) == NoCall
Over(c, place)    == IF place = c THEN NoCall ELSE place

HearsEnded ==
    /\ Hears("ended")
    /\ LET c == Head(mail)[2]
       IN /\ activeCall' = Over(c, activeCall) /\ incomingCall' = Over(c, incomingCall)
          /\ ending' = (ending /\ activeCall' # NoCall)
          /\ unheardEnds' = unheardEnds \union
                               {a.call : a \in {b \in asks : b.call = c /\ b.what \in Shows}}
    /\ UNCHANGED <<row, callStream, asks, slips, answered, outOfSight>>

\* What the stream was to bring is not asked for again.
StreamGoes ==
    /\ callStream /\ Slip /\ callStream' = FALSE
    /\ mail' = <<>>
    /\ unheardEnds' = unheardEnds \union {c \in AllCalls : Posted("ended", c)}
    /\ outOfSight' = outOfSight \union StillOn({c \in AllCalls : Posted("incoming", c)})
    /\ UNCHANGED <<row, callScreens, asks, answered>>

StreamComes ==
    /\ ~callStream /\ callStream' = TRUE
    /\ UNCHANGED <<row, mail, callScreens, asks, slips, callCauses>>

-----------------------------------------------------------------------------
(* The user, and what the answers do *)

\* handleAcceptCall and handleDeclineCall; nothing keeps the user from both.
Press(what) ==
    /\ incomingCall # NoCall /\ ~Under(what, incomingCall)
    /\ asks' = asks \union {Request(what, incomingCall, "asked")}
    /\ UNCHANGED <<row, callStream, mail, callScreens, slips, callCauses>>

\* handleStartCall; the picker is there as long as no call is on the screen.
StartCall(c) ==
    /\ activeCall = NoCall /\ row[c] = "none" /\ ~Under("start", c) /\ Room
    /\ asks' = asks \union {Request("start", c, "asked")}
    /\ UNCHANGED <<row, callStream, mail, callScreens, slips, callCauses>>

\* handleEnd
HangUp ==
    /\ activeCall # NoCall /\ ~ending /\ ending' = TRUE
    /\ asks' = asks \union {Request("hangUp", activeCall, "asked")}
    /\ UNCHANGED <<row, callStream, mail, incomingCall, activeCall, slips, callCauses>>

\* onDisconnected: the network, the panel that was shut, the room.  /end is not asked.
Disconnected ==
    /\ activeCall # NoCall /\ Slip
    /\ outOfSight' = outOfSight \union Displaced(activeCall, NoCall)
    /\ activeCall' = NoCall /\ ending' = FALSE
    /\ UNCHANGED <<row, callStream, mail, incomingCall, asks, answered, unheardEnds>>

\* The answers of accept and start put their call on the screen whatever is there; that
\* of accept clears the banner whoever calls by now.
ShowCall(a) ==
    /\ a.what \in Shows
    /\ activeCall' = a.call
    /\ incomingCall' = IF a.what = "accept" THEN NoCall ELSE incomingCall
    /\ outOfSight' = outOfSight \union Displaced(activeCall, a.call)
               \union (IF a.what = "accept" THEN Displaced(incomingCall, a.call) ELSE {})
    /\ UNCHANGED ending

\* An end clears its place whatever came of it, and whatever is there by now.
Closed(a) ==
    \/ /\ a.what = "decline" /\ incomingCall' = NoCall /\ UNCHANGED <<activeCall, ending>>
       /\ outOfSight' = outOfSight \union Displaced(incomingCall, a.call)
    \/ /\ a.what = "hangUp" /\ activeCall' = NoCall /\ ending' = FALSE /\ UNCHANGED incomingCall
       /\ outOfSight' = outOfSight \union Displaced(activeCall, a.call)

Answered(a) ==
    /\ \/ a.stage = "refused"  /\ UNCHANGED <<callScreens, outOfSight>>
       \/ a.stage = "answered" /\ (ShowCall(a) \/ Closed(a))
    /\ asks' = asks \ {a}
    /\ UNCHANGED <<row, callStream, mail, slips, answered, unheardEnds>>

\* A request that does not arrive, a token that cannot be minted, an answer that is lost.
Fails(a) ==
    /\ Slip
    /\ asks' = asks \ {a}
    /\ \/ a.what = "decline" /\ incomingCall' = NoCall /\ UNCHANGED <<activeCall, ending>>
       \/ a.what = "hangUp" /\ activeCall' = NoCall /\ ending' = FALSE /\ UNCHANGED incomingCall
       \/ a.what \in Shows /\ UNCHANGED callScreens
    /\ outOfSight' = outOfSight \union StillOn({a.call})
                     \union Displaced(incomingCall, incomingCall')
                     \union Displaced(activeCall, activeCall')
    /\ UNCHANGED <<row, callStream, mail, answered, unheardEnds>>

CallsNext ==
    \/ \E c \in Rung : Rings(c)
    \/ \E c \in AllCalls : AnsweredElsewhere(c) \/ EndedElsewhere(c)
    \/ \E a \in asks :
          \/ AcceptTaken(a) \/ AcceptAnswered(a) \/ StartTaken(a) \/ StartAnswered(a)
          \/ EndTaken(a) \/ Answered(a) \/ Fails(a)
    \/ HearsIncoming \/ HearsEnded \/ StreamGoes \/ StreamComes
    \/ \E what \in {"accept", "decline"} : Press(what)
    \/ \E c \in Placed : StartCall(c)
    \/ HangUp \/ Disconnected

CallsSpec == CallsInit /\ [][CallsNext]_callVars

-----------------------------------------------------------------------------
(* Properties *)

\* The type of the state.
CallsTypeOK ==
    /\ row \in [AllCalls -> {"none", "ringing", "active", "over"}]
    /\ callStream \in BOOLEAN /\ ending \in BOOLEAN
    /\ mail \in Seq({"incoming", "ended"} \X AllCalls)
    /\ incomingCall \in Rung \union {NoCall} /\ activeCall \in AllCalls \union {NoCall}
    /\ ending => activeCall # NoCall
    /\ asks \subseteq [what : {"accept", "join", "decline", "start", "hangUp"},
                       call : AllCalls, stage : {"asked", "taken", "answered", "refused"}]
    /\ slips \in 0..MaxSlips
    /\ {answered, unheardEnds, outOfSight} \subseteq SUBSET AllCalls

\* A call that is over leaves the screen and the banner: unless its end was heard with an
\* answer on the way that shows it, or never.
EndedCallsLeave ==
    \A c \in AllCalls \ unheardEnds : row[c] = "over" /\ c \in {activeCall, incomingCall} =>
       Posted("ended", c)

\* A call that was answered or placed here is on the screen for as long as it is on, and
\* one that rings is on the banner, or about to be: unless another call has taken its
\* place, or its room, an answer or an event of it was lost.
CallsStayInSight ==
    \A c \in AllCalls \ outOfSight :
       /\ row[c] = "ringing" /\ c \in Rung => incomingCall = c \/ Posted("incoming", c)
       /\ row[c] = "active" /\ c \in Placed \union answered /\ activeCall # c =>
             \E a \in asks : a.call = c

\* Both: the banner and the screen show the calls that are on, and those alone, or there
\* is a cause.
CallScreensHaveACause == EndedCallsLeave /\ CallsStayInSight

=============================================================================
