------------------------------ MODULE CallMedia ------------------------------
(***************************************************************************)
(* The microphone, the camera and the shared screen of a call              *)
(* (client/src/lib/useLiveKitRoom.ts): an effect compares the switch with  *)
(* what is published in the LiveKit room and starts an operation when they *)
(* differ; nothing stops one that has begun.  The microphone is muted by   *)
(* its button, and the switch follows.  Each device has its own effect, so *)
(* a behaviour follows one of them.  Not here: the path of iOS and the     *)
(* virtual background.                                                     *)
(***************************************************************************)
EXTENDS Naturals, Sequences

CONSTANTS
    MaxFlips,     \* times the switch is thrown
    MaxRenders,   \* renderings in the middle of an operation
    MaxOps,       \* operations under way
    MaxTroubles   \* operations that fail, and connections lost

ASSUME MediaAssumption == {MaxFlips, MaxRenders, MaxOps, MaxTroubles} \subseteq Nat

VARIABLES
    device,
    steady,      \* onTrackError is the same in every rendering, as a voice channel's is
    status,      \* of the connection, as the hook has it
    switch,      \* the device is to be on
    published,   \* the publication in the room
    held,        \* the ref to the track that is published
    ops,         \* the operations under way
    muting,      \* toggleMic, on its way to off; one at a time
    flips, renders, troubles,
    hasty        \* the switch, the connection or the closure has changed under an
                 \* operation, or one has failed, since one last ran to its end alone
                 \* and left no muted camera behind

mediaVars == <<device, steady, status, switch, published, held, ops, muting, flips, renders,
               troubles, hasty>>

MediaInit ==
    /\ device \in {"mic", "camera", "screen"} /\ steady \in BOOLEAN
    /\ status = "connecting" /\ switch \in BOOLEAN
    /\ published = "none" /\ held = FALSE /\ ops = <<>> /\ muting = "no"
    /\ flips = 0 /\ renders = 0 /\ troubles = 0 /\ hasty = FALSE

Trouble == troubles < MaxTroubles /\ troubles' = troubles + 1

\* What the guard of the effect takes for on: a camera that is muted is still published.
CountsAsOn == published = "live" \/ (device # "mic" /\ published = "muted")

\* Mutant of Watched: a connection that comes up starts nothing.
OnlySwitch(now, next) == FALSE
Watched(now, next)    == now # next

\* The effect's cleanup, and its next run.
Cancelled == [i \in DOMAIN ops |-> [ops[i] EXCEPT !.cancelled = TRUE]]

Effect(sw, st) ==
    IF st = "connected" /\ sw # CountsAsOn
    THEN /\ Len(ops) < MaxOps
         /\ ops' = Append(Cancelled, [on |-> sw, cancelled |-> FALSE,
                                     alone |-> ops = <<>> /\ muting = "no"])
    ELSE ops' = Cancelled

Pressed == flips < MaxFlips /\ flips' = flips + 1

\* The buttons in the bar of the call: toggleCamera, the screen's, and toggleMic to on.
Flip ==
    /\ status = "connected" \/ (steady /\ device = "screen")
    /\ Pressed
    /\ device = "mic" => ~switch
    /\ switch' = ~switch
    /\ Effect(~switch, status)
    /\ hasty' = (hasty \/ ops # <<>>)
    /\ UNCHANGED <<device, steady, status, published, held, muting, renders, troubles>>

StatusBecomes(st) ==
    /\ status' = st
    /\ IF Watched(status, st) THEN Effect(switch, st) ELSE UNCHANGED ops
    /\ hasty' = (hasty \/ ops # <<>>)

Connects ==
    /\ status \in {"connecting", "reconnecting"}
    /\ StatusBecomes("connected")
    /\ UNCHANGED <<device, steady, switch, published, held, muting, flips, renders, troubles>>

Reconnecting ==
    /\ status = "connected" /\ Trouble
    /\ StatusBecomes("reconnecting")
    /\ UNCHANGED <<device, steady, switch, published, held, muting, flips, renders>>

\* The call, the channel or the token has changed: another room, and the refs are let go.
\* A call starts with its own switches.  The operations on the room before end in it; that
\* none of the button's is among them is a bound.
AnotherRoom ==
    /\ Trouble /\ muting = "no"
    /\ status' = "connecting" /\ published' = "none" /\ held' = FALSE /\ ops' = <<>>
    /\ switch' \in IF steady THEN {switch}
                   ELSE CASE device = "mic"    -> {TRUE}
                          [] device = "camera" -> BOOLEAN
                          [] device = "screen" -> {FALSE}
    /\ UNCHANGED <<device, steady, muting, flips, renders, hasty>>

\* A closure that is not steady makes every rendering run the effect.
Rerendered ==
    /\ ~steady
    /\ IF ops = <<>> THEN UNCHANGED renders ELSE renders < MaxRenders /\ renders' = renders + 1
    /\ Effect(switch, status)
    /\ ops' # ops
    /\ hasty' = (hasty \/ ops # <<>>)
    /\ UNCHANGED <<device, steady, status, switch, published, held, muting, flips, troubles>>

-----------------------------------------------------------------------------
(* The operations *)

\* The camera's wait for each other.
Turn(i) == device = "camera" => i = 1

Without(i) == SubSeq(ops, 1, i - 1) \o SubSeq(ops, i + 1, Len(ops))

\* A camera that is muted and not held cannot be turned on again.
Mislaid == device = "camera" /\ published = "muted"

OpEnds(i) ==
    /\ UNCHANGED <<device, steady, status, switch, muting, flips, renders, troubles>>
    /\ ops' = Without(i)
    /\ hasty' = (hasty /\ (~ops[i].alone \/ ops[i].cancelled \/ Mislaid'))

\* One that was cancelled while it waited.
Dropped(i) ==
    /\ device = "camera" /\ i = 1 /\ ops[i].cancelled /\ ~ops[i].alone
    /\ UNCHANGED <<published, held>>
    /\ OpEnds(i)

TurnedOn(i) ==
    /\ Turn(i) /\ ops[i].on
    /\ published' = "live"
    /\ held' = (held \/ (~ops[i].cancelled /\ device # "screen"))
    /\ OpEnds(i)

\* setMicrophoneEnabled and setCameraEnabled mute; what the ref holds is unpublished.
Silenced == IF published = "live" THEN "muted" ELSE published

TurnedOff(i) ==
    /\ Turn(i) /\ ~ops[i].on
    /\ LET lets == held /\ (device = "camera" => ~ops[i].cancelled)
       IN /\ published' = IF device = "screen" \/ lets THEN "none" ELSE Silenced
          /\ held' = (held /\ ~lets)
    /\ OpEnds(i)

\* onTrackError, for one that was not cancelled, or any of the screen's: the voice
\* channel tells; the call also puts the switch off, for all but the microphone.
OpFails(i) ==
    /\ Turn(i) /\ Trouble
    /\ LET flipped == ~steady /\ device # "mic" /\ switch
                      /\ (device = "screen" \/ ~ops[i].cancelled)
       IN switch' = (switch /\ ~flipped)
    /\ ops' = Without(i)
    /\ hasty' = TRUE
    /\ UNCHANGED <<device, steady, status, published, held, muting, flips, renders>>

-----------------------------------------------------------------------------
(* The button that mutes *)

\* toggleMic to off, up to its first await.
PressMute ==
    /\ device = "mic" /\ status = "connected" /\ switch /\ muting = "no" /\ Pressed
    /\ muting' = "pressed"
    /\ UNCHANGED <<device, steady, status, switch, published, held, ops, renders, troubles,
                  hasty>>

\* What the ref holds is unpublished.  The switch is still on, and a rendering that runs
\* the effect now publishes again.
LetGo ==
    /\ muting = "pressed" /\ muting' = "let go"
    /\ published' = (IF held THEN "none" ELSE published) /\ held' = FALSE
    /\ UNCHANGED <<device, steady, status, switch, ops, flips, renders, troubles, hasty>>

\* The switch follows, and finds nothing to do.
Muted ==
    /\ muting = "let go" /\ muting' = "no"
    /\ published' = Silenced /\ switch' = FALSE /\ ops' = Cancelled
    /\ hasty' = (ops # <<>>)
    /\ UNCHANGED <<device, steady, status, held, flips, renders, troubles>>

\* It follows a mute that has failed, too.
MuteFails ==
    /\ muting # "no" /\ Trouble /\ muting' = "no"
    /\ switch' = FALSE /\ Effect(FALSE, status) /\ hasty' = TRUE
    /\ UNCHANGED <<device, steady, status, published, held, flips, renders>>

MediaNext ==
    \/ PressMute \/ LetGo \/ Muted \/ MuteFails
    \/ Flip \/ Connects \/ Reconnecting \/ AnotherRoom \/ Rerendered
    \/ \E i \in DOMAIN ops : Dropped(i) \/ TurnedOn(i) \/ TurnedOff(i) \/ OpFails(i)

MediaSpec == MediaInit /\ [][MediaNext]_mediaVars

-----------------------------------------------------------------------------
(* Properties *)

\* The type of the state.
MediaTypeOK ==
    /\ device \in {"mic", "camera", "screen"}
    /\ {steady, switch, held, hasty} \subseteq BOOLEAN
    /\ status \in {"connecting", "connected", "reconnecting"}
    /\ published \in {"none", "live", "muted"} /\ muting \in {"no", "pressed", "let go"}
    /\ ops \in Seq([on : BOOLEAN, cancelled : BOOLEAN, alone : BOOLEAN]) /\ Len(ops) <= MaxOps
    /\ flips \in 0..MaxFlips /\ renders \in 0..MaxRenders /\ troubles \in 0..MaxTroubles

\* Nobody is heard or seen with the switch off, nor unheard or unseen with it on, once
\* the call is connected and nothing is under way: unless the switch, the connection or
\* the closure changed under an operation, or one has failed.
DevicesFollowSwitches ==
    status = "connected" /\ ops = <<>> /\ muting = "no" /\ ~hasty =>
       (published = "live") = switch

=============================================================================
