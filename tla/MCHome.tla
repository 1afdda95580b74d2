------------------------------- MODULE MCHome -------------------------------
(* The pages of one user.  In the application: a channel, the user's        *)
(* presence, a device of the call; in an application that embeds the        *)
(* widget: its chat and its calls.  They share no state that these modules  *)
(* keep, so a behaviour follows one of them, the one in focus, and the      *)
(* others stay as they start.                                               *)
EXTENDS ChannelPage, Presence, CallMedia, WidgetChat, WidgetCalls

CONSTANTS t1, t2, d1, d2, c1, c2, c3, none

VARIABLE focus

Parts == {"page", "presence", "media", "chat", "calls"}

vars == <<pageVars, presVars, mediaVars, widgetVars, callVars, focus>>

\* What is not in focus stays as it is.
Still ==
    /\ focus # "page"     => UNCHANGED pageVars
    /\ focus # "presence" => UNCHANGED presVars
    /\ focus # "media"    => UNCHANGED mediaVars
    /\ focus # "chat"     => UNCHANGED widgetVars
    /\ focus # "calls"    => UNCHANGED callVars
    /\ UNCHANGED focus

Init ==
    /\ PageInit /\ PresenceInit /\ MediaInit /\ WidgetInit /\ CallsInit
    /\ focus \in Parts
    /\ focus # "page"  => ~open
    /\ focus # "media" => device = "mic" /\ steady /\ switch
    /\ focus # "calls" => asks = {}

Next ==
    \/ focus = "page"     /\ PageNext     /\ Still
    \/ focus = "presence" /\ PresenceNext /\ Still
    \/ focus = "media"    /\ MediaNext    /\ Still
    \/ focus = "chat"     /\ WidgetNext   /\ Still
    \/ focus = "calls"    /\ CallsNext    /\ Still

Spec == Init /\ [][Next]_vars

MCTabs    == {t1, t2}
TwoConvs  == {d1, d2}
LongConv  == {d1}
TwoRung   == {c1, c2}
OnePlaced == {c3}

\* The types of all five.
HomeTypeOK ==
    /\ PageTypeOK /\ PresenceTypeOK
    /\ MediaTypeOK /\ WidgetTypeOK /\ CallsTypeOK

=============================================================================
