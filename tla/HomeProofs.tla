----------------------------- MODULE HomeProofs -----------------------------
(***************************************************************************)
(* What holds of the pages of a user for every number of tabs, renderings, *)
(* messages, requests and calls: the presence others see, the devices of a *)
(* call, the chat and the calls of the widget each have the inductive      *)
(* invariant that explains what they show.  The behaviours MCHome checks   *)
(* are behaviours of each of the five, which gives the types of them all.  *)
(***************************************************************************)
EXTENDS MCHome, ChannelPageProofs, SequenceTheorems

\* A sequence without one of its elements.
LEMMA Removed ==
    ASSUME NEW S, NEW s \in Seq(S), NEW i \in DOMAIN s
    PROVE  /\ RemoveAt(s, i) \in Seq(S) /\ Len(RemoveAt(s, i)) = Len(s) - 1
           /\ \A j \in 1..(Len(s) - 1) : RemoveAt(s, i)[j] = IF j < i THEN s[j] ELSE s[j + 1]
<1>1. /\ SubSeq(s, 1, i - 1) \in Seq(S) /\ SubSeq(s, i + 1, Len(s)) \in Seq(S)
      /\ Len(SubSeq(s, 1, i - 1)) = i - 1 /\ Len(SubSeq(s, i + 1, Len(s))) = Len(s) - i
      /\ \A j \in 1..(i - 1) : SubSeq(s, 1, i - 1)[j] = s[j]
      /\ \A j \in 1..(Len(s) - i) : SubSeq(s, i + 1, Len(s))[j] = s[i + j]
  OBVIOUS
<1> DEFINE a == SubSeq(s, 1, i - 1)
           b == SubSeq(s, i + 1, Len(s))
<1>2. RemoveAt(s, i) = a \o b
  BY DEF RemoveAt
<1> HIDE DEF a, b
<1>3. a \in Seq(S) /\ b \in Seq(S) /\ Len(a) = i - 1 /\ Len(b) = Len(s) - i
  BY <1>1 DEF a, b
<1>4. /\ a \o b \in Seq(S) /\ Len(a \o b) = Len(a) + Len(b)
      /\ \A j \in 1..(Len(a) + Len(b)) :
            (a \o b)[j] = IF j <= Len(a) THEN a[j] ELSE b[j - Len(a)]
  BY <1>3, ConcatProperties
<1>5. ASSUME NEW j \in 1..(Len(s) - 1)
      PROVE  (a \o b)[j] = IF j < i THEN s[j] ELSE s[j + 1]
  <2>1. CASE j < i
    <3>1. j \in 1..(i - 1)
      BY <2>1
    <3>2. QED BY <1>1, <1>3, <1>4, <2>1, <3>1 DEF a
  <2>2. CASE ~(j < i)
    <3>1. j - (i - 1) \in 1..(Len(s) - i) /\ i + (j - (i - 1)) = j + 1
      BY <2>2
    <3>2. b[j - (i - 1)] = s[i + (j - (i - 1))]
      BY <1>1, <3>1 DEF b
    <3>3. j \in 1..(Len(a) + Len(b)) /\ ~(j <= Len(a)) /\ j - Len(a) = j - (i - 1)
      BY <1>3, <2>2
    <3>4. (a \o b)[j] = b[j - (i - 1)]
      BY <1>4, <3>3
    <3>5. QED BY <2>2, <3>1, <3>2, <3>4
  <2>3. QED BY <2>1, <2>2
<1>6. QED BY <1>2, <1>3, <1>4, <1>5

-----------------------------------------------------------------------------
(* The presence of a user *)

\* The report sent last is this tab's, and says what the tab shows.
LastWord(t) ==
    /\ reports # <<>>
    /\ LET last == reports[Len(reports)]
       IN last.tab = t /\ ~last.late /\ last.state = manual[t]

\* It has arrived, and whatever else is on its way was sent before it.
Arrived(t) == presence = manual[t] /\ \A i \in DOMAIN reports : reports[i].late

\* Every tab has told the server its pick, still has to, or a word of it is on its way.
Said == \A t \in Tabs : t \in unsaid \/ LastWord(t) \/ Arrived(t)

\* What is kept of the presence of a user.
PresenceInv == PresenceTypeOK /\ Said

\* A presence that differs from what a tab picked has a word that explains it.
LEMMA SaidIsEnough == PresenceInv => PresenceHasACause
<1> SUFFICES ASSUME PresenceInv, NEW t \in Tabs, t \notin unsaid
             PROVE  presence = manual[t] \/ Saying(t, reports)
  BY DEF PresenceHasACause
<1>1. CASE LastWord(t)
  <2>1. Len(reports) \in DOMAIN reports
    BY <1>1 DEF LastWord, PresenceInv, PresenceTypeOK
  <2>2. QED BY <1>1, <2>1 DEF LastWord, Saying
<1>2. CASE Arrived(t)
  BY <1>2 DEF Arrived
<1>3. QED BY <1>1, <1>2 DEF PresenceInv, Said

\* No tab has picked, no word is on its way.
LEMMA PresenceStarts == PresenceInit => PresenceInv
<1>1. PresenceInit => reports \in Seq(Reports) /\ Len(reports) = 0
  BY DEF PresenceInit
<1>2. PresenceInit => PresenceTypeOK
  BY <1>1, PresenceAssumption DEF PresenceInit, PresenceTypeOK, Picks, States
<1>3. QED BY <1>2 DEF PresenceInit, PresenceInv, Said

\* What is sent comes after everything that was.
LEMMA SendIsTyped ==
    ASSUME PresenceTypeOK, NEW t \in Tabs, NEW said \in Seq(States), said # <<>>, Send(t, said)
    PROVE  /\ reports' \in Seq(Reports) /\ Len(reports') <= MaxReports /\ reports' # <<>>
           /\ LET last == reports'[Len(reports')]
              IN last.tab = t /\ ~last.late /\ last.state = said[Len(said)]
<1> DEFINE e(i) == [tab |-> t, state |-> said[i], late |-> FALSE]
           next == [i \in DOMAIN said |-> e(i)]
<1>1. Len(said) \in Nat /\ Len(said) > 0 /\ DOMAIN said = 1..Len(said)
  BY EmptySeq
<1>2. \A i \in 1..Len(said) : e(i) \in Reports
  BY <1>1 DEF Reports
<1>3. next \in Seq(Reports) /\ Len(next) = Len(said) /\ next[Len(said)] = e(Len(said))
  <2> HIDE DEF e
  <2>1. DOMAIN next = 1..Len(said) /\ \A i \in 1..Len(said) : next[i] = e(i)
    BY <1>1
  <2>2. next \in [1..Len(said) -> Reports]
    BY <1>1, <1>2
  <2>3. QED BY <1>1, <2>1, <2>2
<1>4. reports' = reports \o next /\ Len(reports) + Len(said) <= MaxReports
  BY DEF Send
<1>5. e(Len(said)).tab = t /\ ~e(Len(said)).late /\ e(Len(said)).state = said[Len(said)]
  OBVIOUS
<1> HIDE DEF next, e
<1>6. reports \in Seq(Reports) /\ Len(reports) \in Nat
  BY DEF PresenceTypeOK
<1>7. /\ reports' \in Seq(Reports) /\ Len(reports') = Len(reports) + Len(said)
      /\ reports'[Len(reports) + Len(said)] = next[Len(said)]
  <2>1. /\ reports \o next \in Seq(Reports) /\ Len(reports \o next) = Len(reports) + Len(next)
        /\ \A i \in 1..(Len(reports) + Len(next)) :
              (reports \o next)[i] = IF i <= Len(reports) THEN reports[i]
                                     ELSE next[i - Len(reports)]
    <3>1. reports \in Seq(Reports) /\ next \in Seq(Reports)
      BY <1>3, <1>6
    <3>2. QED BY <3>1, ConcatProperties, Zenon
  <2>2. /\ Len(reports) + Len(said) \in 1..(Len(reports) + Len(next))
        /\ ~(Len(reports) + Len(said) <= Len(reports))
        /\ Len(reports) + Len(said) - Len(reports) = Len(said)
    BY <1>1, <1>3, <1>6
  <2>3. QED BY <1>3, <1>4, <2>1, <2>2
<1>8. QED BY <1>1, <1>3, <1>4, <1>5, <1>6, <1>7

\* A report whose last word is the pick of the tab leaves every tab accounted for.
LEMMA ReportIsSaid ==
    ASSUME PresenceTypeOK, NEW t \in Tabs, NEW said \in Seq(States), said # <<>>,
           Report(t, said), said[Len(said)] = manual'[t], manual' \in [Tabs -> Picks]
    PROVE  /\ reports' \in Seq(Reports) /\ Len(reports') <= MaxReports
           /\ unsaid' \subseteq Tabs /\ Said'
<1>1. Send(t, said) /\ unsaid' = Tabs \ {t}
  BY DEF Report
<1>2. LastWord(t)'
  BY <1>1, SendIsTyped DEF LastWord
<1>3. QED BY <1>1, <1>2, SendIsTyped DEF Said

\* Each step leaves the words that explain the presence, or sends them.
LEMMA PresenceStays == PresenceInv /\ [PresenceNext]_presVars => PresenceInv'
<1> SUFFICES ASSUME PresenceInv, [PresenceNext]_presVars PROVE PresenceInv'
  OBVIOUS
<1>t. PresenceTypeOK /\ MaxReports \in Nat /\ MaxDropped \in Nat
  BY PresenceAssumption DEF PresenceInv
<1>s. Picks \subseteq States
  BY DEF States
<1>1. ASSUME NEW t \in Tabs, OpenTab(t) PROVE PresenceInv'
  <2>1. Remembered \in Picks
    BY DEF Remembered, Picks
  <2>2. <<Remembered>> \in Seq(States) /\ <<Remembered>> # <<>> /\ Len(<<Remembered>>) = 1
        /\ <<Remembered>>[1] = Remembered
    BY <1>s, <2>1
  <2>3. manual' \in [Tabs -> Picks] /\ manual'[t] = Remembered
    BY <1>1, <1>t, <2>1 DEF OpenTab, PresenceTypeOK
  <2>4. Report(t, <<Remembered>>)
    BY <1>1 DEF OpenTab
  <2>5. /\ reports' \in Seq(Reports) /\ Len(reports') <= MaxReports
        /\ unsaid' \subseteq Tabs /\ Said'
    BY <1>t, <2>2, <2>3, <2>4, ReportIsSaid
  <2>6. QED BY <1>1, <1>t, <2>3, <2>5 DEF OpenTab, Open, PresenceInv, PresenceTypeOK
<1>2. ASSUME NEW t \in Tabs, NEW q \in States, Pick(t, q) PROVE PresenceInv'
  <2> DEFINE p == Sticky(q)
  <2>1. p \in Picks
    BY DEF Sticky, States, Picks
  <2>2. /\ kept' = p /\ manual' = [manual EXCEPT ![t] = p] /\ ShowsNow(t, p)
        /\ idle' = idle \ {t} /\ UNCHANGED <<phase, presence, dropped>>
    BY <1>2 DEF Pick
  <2> HIDE DEF p
  <2>3. manual' \in [Tabs -> Picks] /\ manual'[t] = p
    BY <1>t, <2>1, <2>2 DEF PresenceTypeOK
  <2>4. CASE p = manual[t]
    <3>1. manual' = manual /\ UNCHANGED <<reports, unsaid>>
      BY <1>t, <2>2, <2>4 DEF ShowsNow, PresenceTypeOK
    <3>2. QED
      BY <1>t, <2>1, <2>2, <3>1 DEF PresenceInv, PresenceTypeOK, Said, LastWord, Arrived
  <2>5. CASE p # manual[t]
    <3>1. Report(t, <<p>>)
      BY <2>2, <2>5 DEF ShowsNow
    <3>2. <<p>> \in Seq(States) /\ <<p>> # <<>> /\ Len(<<p>>) = 1 /\ <<p>>[1] = p
      BY <1>s, <2>1
    <3>3. /\ reports' \in Seq(Reports) /\ Len(reports') <= MaxReports
          /\ unsaid' \subseteq Tabs /\ Said'
      BY <1>t, <2>3, <3>1, <3>2, ReportIsSaid
    <3>4. QED BY <1>t, <2>1, <2>2, <2>3, <3>3 DEF PresenceInv, PresenceTypeOK
  <2>6. QED BY <2>4, <2>5
<1>3. ASSUME NEW t \in Tabs, GoAway(t) PROVE PresenceInv'
  <2> DEFINE said == <<"away", manual[t]>>
  <2>1. said \in Seq(States) /\ said # <<>> /\ Len(said) = 2 /\ said[2] = manual[t]
    BY <1>t DEF PresenceTypeOK, States
  <2>2. /\ Report(t, said) /\ UNCHANGED <<kept, phase, manual, presence, dropped>>
        /\ idle' = idle \union {t} /\ phase[t] \in Open
    BY <1>3 DEF GoAway
  <2> HIDE DEF said
  <2>3. manual' \in [Tabs -> Picks] /\ said[Len(said)] = manual'[t]
    BY <1>t, <2>1, <2>2 DEF PresenceTypeOK
  <2>4. /\ reports' \in Seq(Reports) /\ Len(reports') <= MaxReports
        /\ unsaid' \subseteq Tabs /\ Said'
    BY <1>t, <2>1, <2>2, <2>3, ReportIsSaid
  <2>5. QED BY <1>t, <2>2, <2>4 DEF PresenceInv, PresenceTypeOK
<1>4. ASSUME NEW t \in Tabs, HideTab(t) \/ Resume(t) \/ Stir(t) PROVE PresenceInv'
  BY <1>4, <1>t
     DEF HideTab, Resume, Stir, Open, PresenceInv, PresenceTypeOK, Said, LastWord, Arrived
<1>5. ASSUME NEW t \in Tabs, NEW how \in {"gone", "parked"}, Leave(t, how) PROVE PresenceInv'
  <2>1. <<"offline">> \in Seq(States) /\ <<"offline">> # <<>>
    BY DEF States, Picks
  <2>2. Send(t, <<"offline">>) /\ unsaid' = Tabs /\ phase' = [phase EXCEPT ![t] = how]
        /\ idle' = idle \ {t} /\ UNCHANGED <<kept, manual, presence, dropped>>
    BY <1>5 DEF Leave
  <2>3. reports' \in Seq(Reports) /\ Len(reports') <= MaxReports
    BY <1>t, <2>1, <2>2, SendIsTyped
  <2>4. QED BY <1>t, <2>2, <2>3 DEF PresenceInv, PresenceTypeOK, Said
<1>6. ASSUME NEW i \in DOMAIN reports, ReportArrives(i) PROVE PresenceInv'
  <2> DEFINE e(j) == IF j < i THEN [reports[j] EXCEPT !.late = TRUE] ELSE reports[j + 1]
  <2>1. /\ reports \in Seq(Reports) /\ Len(reports) \in Nat /\ i \in 1..Len(reports)
        /\ reports[i] \in Reports
    BY <1>t DEF PresenceTypeOK
  <2>2. reports' = [j \in 1..(Len(reports) - 1) |-> e(j)] /\ Rest(i) = reports'
    BY <1>6 DEF ReportArrives, Rest
  <2>3. ASSUME NEW j \in 1..(Len(reports) - 1)
        PROVE  e(j) \in Reports /\ (j < i => e(j).late)
    <3>1. reports[j] \in Reports /\ reports[j + 1] \in Reports
      BY <2>1
    <3>2. QED BY <3>1 DEF Reports
  <2>4. /\ reports' \in Seq(Reports) /\ Len(reports') = Len(reports) - 1
        /\ \A j \in 1..(Len(reports) - 1) : reports'[j] = e(j)
    BY <2>1, <2>2, <2>3
  <2>5. presence' = reports[i].state /\ UNCHANGED <<kept, phase, manual, idle, dropped>>
        /\ unsaid' = IF reports[i].late
                     THEN unsaid \union {t \in Tabs : ~Saying(t, reports')} ELSE unsaid
    BY <1>6, <2>2 DEF ReportArrives
  <2>6. PresenceTypeOK'
    BY <1>t, <2>1, <2>4, <2>5 DEF PresenceTypeOK, Reports
  <2>7. ASSUME NEW t \in Tabs, t \notin unsaid' PROVE LastWord(t)' \/ Arrived(t)'
    <3>1. LastWord(t) \/ Arrived(t)
      BY <2>5, <2>7 DEF PresenceInv, Said
    <3>2. CASE LastWord(t) /\ i # Len(reports)
      <4>1. /\ Len(reports) - 1 \in 1..(Len(reports) - 1) /\ ~(Len(reports) - 1 < i)
            /\ (Len(reports) - 1) + 1 = Len(reports)
        BY <2>1, <3>2
      <4>2. reports'[Len(reports) - 1] = reports[Len(reports)] /\ reports' # <<>>
        <5>1. reports'[Len(reports) - 1] = e(Len(reports) - 1)
          BY <2>4, <4>1
        <5>2. e(Len(reports) - 1) = reports[Len(reports)]
          BY <4>1
        <5>3. Len(reports') >= 1
          BY <2>1, <2>4, <4>1
        <5>4. QED BY <5>1, <5>2, <5>3
      <4>3. QED BY <2>4, <2>5, <3>2, <4>2 DEF LastWord
    <3>3. CASE LastWord(t) /\ i = Len(reports)
      <4>1. \A j \in DOMAIN reports' : reports'[j].late
        BY <2>1, <2>2, <2>3, <2>4, <3>3
      <4>2. QED BY <2>5, <3>3, <4>1 DEF LastWord, Arrived
    <3>4. CASE Arrived(t)
      <4>1. reports[i].late
        BY <3>4 DEF Arrived
      <4>2. PICK j \in DOMAIN reports' : ~reports'[j].late
        BY <2>5, <2>7, <4>1 DEF Saying
      <4>3. j \in 1..(Len(reports) - 1) /\ reports'[j] = e(j) /\ ~(j < i)
        BY <2>2, <2>3, <2>4, <4>2
      <4>4. j + 1 \in DOMAIN reports /\ reports'[j] = reports[j + 1]
        BY <2>1, <4>3
      <4>5. QED BY <3>4, <4>2, <4>4 DEF Arrived
    <3>5. QED BY <3>1, <3>2, <3>3, <3>4
  <2>8. QED BY <2>6, <2>7 DEF PresenceInv, Said
<1>7. ASSUME NEW i \in DOMAIN reports, ReportFails(i) PROVE PresenceInv'
  <2>1. /\ reports \in Seq(Reports) /\ Len(reports) \in Nat /\ i \in 1..Len(reports)
        /\ reports[i] \in Reports
    BY <1>t DEF PresenceTypeOK
  <2>2. /\ reports' \in Seq(Reports) /\ Len(reports') = Len(reports) - 1
        /\ \A j \in 1..(Len(reports) - 1) : reports'[j] = IF j < i THEN reports[j]
                                                          ELSE reports[j + 1]
    BY <1>7, <2>1, Removed DEF ReportFails
  <2>3. /\ unsaid' = unsaid \union {reports[i].tab} /\ UNCHANGED <<kept, phase, manual>>
        /\ UNCHANGED <<idle, presence>>
        /\ dropped < MaxDropped /\ dropped' = dropped + 1
    BY <1>7 DEF ReportFails
  <2>4. PresenceTypeOK'
    BY <1>t, <2>1, <2>2, <2>3 DEF PresenceTypeOK, Reports
  <2>5. ASSUME NEW t \in Tabs, t \notin unsaid' PROVE LastWord(t)' \/ Arrived(t)'
    <3>1. LastWord(t) \/ Arrived(t)
      BY <2>3, <2>5 DEF PresenceInv, Said
    <3>2. CASE LastWord(t)
      <4>1. i # Len(reports)
        BY <2>3, <2>5, <3>2 DEF LastWord
      <4>2. /\ Len(reports) - 1 \in 1..(Len(reports) - 1) /\ ~(Len(reports) - 1 < i)
            /\ (Len(reports) - 1) + 1 = Len(reports)
        BY <2>1, <4>1
      <4>3. reports'[Len(reports) - 1] = reports[Len(reports)] /\ reports' # <<>>
        BY <2>2, <4>2
      <4>4. QED BY <2>2, <2>3, <3>2, <4>3 DEF LastWord
    <3>3. CASE Arrived(t)
      <4>1. ASSUME NEW j \in DOMAIN reports' PROVE reports'[j].late
        <5>1. j \in 1..(Len(reports) - 1)
          BY <2>2
        <5>2. reports[j].late /\ reports[j + 1].late
          BY <2>1, <3>3, <5>1 DEF Arrived
        <5>3. QED BY <2>2, <5>1, <5>2
      <4>2. QED BY <2>3, <3>3, <4>1 DEF Arrived
    <3>4. QED BY <3>1, <3>2, <3>3
  <2>6. QED BY <2>4, <2>5 DEF PresenceInv, Said
<1>8. CASE UNCHANGED presVars
  BY <1>8 DEF presVars, PresenceInv, PresenceTypeOK, Said, LastWord, Arrived
<1>9. QED BY <1>1, <1>2, <1>3, <1>4, <1>5, <1>6, <1>7, <1>8 DEF PresenceNext

\* The presence and the words on their way are always explained.
LEMMA PresenceInvariant == PresenceSpec => []PresenceInv
<1>1. QED BY PresenceStarts, PresenceStays, PTL DEF PresenceSpec

\* The presence the server keeps of a user is what each open tab has picked, or away of an
\* idle one, or the tab's report is on its way, was lost, or was followed by another tab's:
\* for every number of tabs and reports.
THEOREM PresenceIsExplained == PresenceSpec => []PresenceHasACause
<1>1. QED BY SaidIsEnough, PresenceInvariant, PTL

-----------------------------------------------------------------------------
(* The devices of a call *)

\* An operation on a device, as it waits.
Ops == [on : BOOLEAN, cancelled : BOOLEAN, alone : BOOLEAN]

\* An operation that has had the device for itself and still has is the only one, and does
\* what the switch says.
Sole ==
    \A i \in DOMAIN ops : ops[i].alone /\ ~ops[i].cancelled =>
       Len(ops) = 1 /\ ops[i].on = switch

\* The button mutes a microphone whose switch is on, and the switch waits for it.
MutingIsOn == muting # "no" => device = "mic" /\ switch

\* With nothing changed under it, an operation runs alone, or next to the button.
Calm ==
    ~hasty => /\ \A i \in DOMAIN ops : ~ops[i].cancelled
              /\ muting = "no" => \A i \in DOMAIN ops : ops[i].alone

\* A camera that is on is held, to be turned off; only a microphone stays muted.
Kept ==
    /\ device = "screen" => published # "muted"
    /\ device = "camera" /\ ~hasty => published # "muted" /\ (published = "live" => held)

\* What is kept of a device: an operation that works alone does what the switch says.
MediaInv == MediaTypeOK /\ Sole /\ MutingIsOn /\ Calm /\ Kept /\ DevicesFollowSwitches

\* The device is off and nothing waits.
LEMMA MediaStarts == MediaInit => MediaInv
<1>1. MediaInit => ops \in Seq(Ops) /\ Len(ops) = 0 /\ DOMAIN ops = {}
  BY DEF MediaInit
<1>2. MediaInit => MediaTypeOK
  <2>1. MediaInit => {steady, switch, held, hasty} \subseteq BOOLEAN
    BY DEF MediaInit
  <2>2. MediaInit => Len(ops) <= MaxOps
    BY <1>1, MediaAssumption
  <2>3. MediaInit => flips \in 0..MaxFlips /\ renders \in 0..MaxRenders
                     /\ troubles \in 0..MaxTroubles
    BY MediaAssumption DEF MediaInit
  <2>4. QED BY <1>1, <2>1, <2>2, <2>3 DEF MediaInit, MediaTypeOK, Ops
<1>3. MediaInit => Sole /\ MutingIsOn /\ Calm /\ Kept /\ DevicesFollowSwitches
  BY <1>1 DEF MediaInit, Sole, MutingIsOn, Calm, Kept, DevicesFollowSwitches
<1>4. QED BY <1>2, <1>3 DEF MediaInv

\* The cleanup of the effect cancels what runs.
LEMMA AllCancelled ==
    ASSUME ops \in Seq(Ops)
    PROVE  /\ Cancelled \in Seq(Ops) /\ Len(Cancelled) = Len(ops)
           /\ \A i \in DOMAIN Cancelled : Cancelled[i].cancelled
           /\ ops = <<>> => Cancelled = <<>>
<1>1. Len(ops) \in Nat /\ DOMAIN ops = 1..Len(ops)
  OBVIOUS
<1>2. ASSUME NEW i \in 1..Len(ops)
      PROVE  /\ [ops[i] EXCEPT !.cancelled = TRUE] \in Ops
             /\ [ops[i] EXCEPT !.cancelled = TRUE].cancelled
  <2>1. ops[i] \in Ops
    OBVIOUS
  <2>2. QED BY <2>1 DEF Ops
<1>3. Cancelled \in [1..Len(ops) -> Ops]
  BY <1>1, <1>2 DEF Cancelled
<1>4. Cancelled \in Seq(Ops) /\ Len(Cancelled) = Len(ops)
  BY <1>1, <1>3
<1>5. \A i \in DOMAIN Cancelled : Cancelled[i].cancelled
  BY <1>1, <1>2 DEF Cancelled
<1>6. ops = <<>> => Cancelled = <<>>
  BY <1>4, EmptySeq
<1>7. QED BY <1>4, <1>5, <1>6

\* The effect leaves at most one operation that it has not cancelled, the last.
LEMMA EffectStarts ==
    ASSUME ops \in Seq(Ops), Len(ops) <= MaxOps, NEW sw \in BOOLEAN, NEW st, Effect(sw, st)
    PROVE  /\ ops' \in Seq(Ops) /\ Len(ops') <= MaxOps
           /\ \A i \in DOMAIN ops' : ops'[i].alone /\ ~ops'[i].cancelled =>
                 Len(ops') = 1 /\ ops'[i].on = sw
           /\ ops = <<>> => \A i \in DOMAIN ops' :
                               ~ops'[i].cancelled /\ (muting = "no" => ops'[i].alone)
           /\ ops' = <<>> /\ st = "connected" => sw = CountsAsOn
<1>c. /\ Cancelled \in Seq(Ops) /\ Len(Cancelled) = Len(ops) /\ Len(ops) \in Nat
      /\ \A i \in DOMAIN Cancelled : Cancelled[i].cancelled
      /\ ops = <<>> => Cancelled = <<>>
  BY AllCancelled
<1> DEFINE e == [on |-> sw, cancelled |-> FALSE, alone |-> ops = <<>> /\ muting = "no"]
<1>e. e \in Ops /\ e.on = sw /\ ~e.cancelled /\ e.alone = (ops = <<>> /\ muting = "no")
  BY DEF Ops
<1>1. CASE st = "connected" /\ sw # CountsAsOn
  <2>1. ops' = Append(Cancelled, e) /\ Len(ops) < MaxOps
    BY <1>1 DEF Effect
  <2> HIDE DEF e
  <2>2. /\ ops' \in Seq(Ops) /\ Len(ops') = Len(ops) + 1 /\ DOMAIN ops' = 1..(Len(ops) + 1)
        /\ \A i \in 1..Len(ops) : ops'[i] = Cancelled[i]
        /\ ops'[Len(ops) + 1] = e
    BY <1>c, <1>e, <2>1
  <2>3. \A i \in 1..Len(ops) : ops'[i].cancelled
    BY <1>c, <2>2
  <2>4. ops = <<>> => Len(ops) = 0
    OBVIOUS
  <2>5. \A i \in DOMAIN ops' : i \in 1..Len(ops) \/ i = Len(ops) + 1
    BY <1>c, <2>2
  <2>6. ops' # <<>>
    BY <1>c, <2>2
  <2>7. Len(ops') <= MaxOps
    BY <1>c, <2>1, <2>2, MediaAssumption
  <2>8. ASSUME NEW i \in DOMAIN ops', ~ops'[i].cancelled
        PROVE  i = Len(ops) + 1 /\ ops'[i] = e
    BY <2>2, <2>3, <2>5, <2>8
  <2>9. ASSUME NEW i \in DOMAIN ops', ops'[i].alone, ~ops'[i].cancelled
        PROVE  Len(ops') = 1 /\ ops'[i].on = sw
    <3>1. ops'[i] = e
      BY <2>8, <2>9
    <3>2. ops = <<>>
      BY <1>e, <2>9, <3>1
    <3>3. Len(ops') = 1
      BY <2>2, <2>4, <3>2
    <3>4. QED BY <1>e, <3>1, <3>3
  <2>10. ASSUME ops = <<>>, NEW i \in DOMAIN ops'
         PROVE  ops'[i] = e
    BY <2>2, <2>4, <2>5, <2>10
  <2>11. QED BY <1>e, <2>2, <2>6, <2>7, <2>9, <2>10
<1>2. CASE ~(st = "connected" /\ sw # CountsAsOn)
  <2>1. ops' = Cancelled
    BY <1>2 DEF Effect
  <2>2. ops = <<>> => DOMAIN ops' = {}
    BY <1>c, <2>1
  <2>3. CountsAsOn \in BOOLEAN
    BY DEF CountsAsOn
  <2>4. QED BY <1>2, <1>c, <2>1, <2>2, <2>3
<1>3. QED BY <1>1, <1>2

\* What is left when one of the operations has ended.
LEMMA OneLess ==
    ASSUME ops \in Seq(Ops), NEW i \in DOMAIN ops, ops' = Without(i)
    PROVE  /\ ops' \in Seq(Ops) /\ Len(ops') = Len(ops) - 1
           /\ \A j \in DOMAIN ops' : \E k \in DOMAIN ops : ops'[j] = ops[k]
<1>1. ops' = RemoveAt(ops, i)
  BY DEF Without, RemoveAt
<1>2. /\ ops' \in Seq(Ops) /\ Len(ops') = Len(ops) - 1
      /\ \A j \in 1..(Len(ops) - 1) : ops'[j] = IF j < i THEN ops[j] ELSE ops[j + 1]
  BY <1>1, Removed
<1>3. \A j \in 1..(Len(ops) - 1) : j \in DOMAIN ops /\ j + 1 \in DOMAIN ops
  OBVIOUS
<1>4. QED BY <1>2, <1>3

\* An operation that ends.
LEMMA EndKeeps ==
    ASSUME MediaInv, NEW i \in DOMAIN ops, OpEnds(i), held' \in BOOLEAN,
           published' \in {"none", "live", "muted"},
           device = "screen" => published' # "muted",
           device = "camera" /\ ~hasty /\ ~ops[i].cancelled => published' # "muted",
           ops[i].alone /\ ~ops[i].cancelled =>
              /\ (published' = "live") = ops[i].on
              /\ device = "camera" => (published' = "live" => held')
    PROVE  MediaInv'
<1>1. MediaTypeOK /\ Sole /\ MutingIsOn /\ Calm /\ Kept /\ DevicesFollowSwitches
  BY DEF MediaInv
<1>2. ops \in Seq(Ops) /\ Len(ops) <= MaxOps /\ MaxOps \in Nat
  BY <1>1, MediaAssumption DEF MediaTypeOK, Ops
<1>3. /\ UNCHANGED <<device, steady, status, switch, muting, flips, renders, troubles>>
      /\ ops' = Without(i)
      /\ hasty' = (hasty /\ (~ops[i].alone \/ ops[i].cancelled \/ Mislaid'))
  BY DEF OpEnds
<1>4. /\ ops' \in Seq(Ops) /\ Len(ops') = Len(ops) - 1 /\ Len(ops) \in Nat
      /\ \A j \in DOMAIN ops' : \E k \in DOMAIN ops : ops'[j] = ops[k]
  BY <1>2, <1>3, OneLess
<1>5. hasty \in BOOLEAN /\ hasty' \in BOOLEAN
  BY <1>1, <1>3 DEF MediaTypeOK
<1>6. MediaTypeOK'
  <2>1. {steady', switch', held', hasty'} \subseteq BOOLEAN
    BY <1>1, <1>3, <1>5 DEF MediaTypeOK
  <2>2. Len(ops') <= MaxOps
    BY <1>2, <1>4
  <2>3. QED BY <1>1, <1>3, <1>4, <2>1, <2>2 DEF MediaTypeOK, Ops
\* The one that ran alone leaves nothing behind it.
<1>7. ASSUME ~hasty' PROVE \/ ops[i].alone /\ ~ops[i].cancelled /\ Len(ops) = 1
                           \/ ~hasty /\ ~ops[i].cancelled /\ muting # "no"
  BY <1>1, <1>3, <1>5, <1>7 DEF Sole, Calm
<1>8. Sole'
  <2> SUFFICES ASSUME NEW j \in DOMAIN ops', ops'[j].alone, ~ops'[j].cancelled
               PROVE  FALSE
    BY DEF Sole
  <2>1. PICK k \in DOMAIN ops : ops'[j] = ops[k]
    BY <1>4
  <2>2. Len(ops) = 1
    BY <1>1, <2>1 DEF Sole
  <2>3. Len(ops') = 0 /\ DOMAIN ops' = {}
    BY <1>4, <2>2
  <2>4. QED BY <2>3
<1>9. MutingIsOn'
  BY <1>1, <1>3 DEF MutingIsOn
<1>10. ASSUME Len(ops) = 1 PROVE DOMAIN ops' = {}
  BY <1>4, <1>10
<1>11. Calm'
  <2>1. ASSUME ~hasty', NEW j \in DOMAIN ops'
        PROVE  ~ops'[j].cancelled /\ muting' # "no"
    <3>1. PICK k \in DOMAIN ops : ops'[j] = ops[k]
      BY <1>4
    <3>2. ~hasty /\ muting # "no"
      BY <1>7, <1>10, <2>1
    <3>3. QED BY <1>1, <1>3, <3>1, <3>2 DEF Calm
  <2>2. QED BY <2>1 DEF Calm
<1>12. Kept'
  <2>1. ASSUME device = "camera", ~hasty'
        PROVE  published' # "muted" /\ (published' = "live" => held')
    <3>1. ops[i].alone /\ ~ops[i].cancelled /\ Len(ops) = 1
      BY <1>1, <1>7, <2>1 DEF MutingIsOn
    <3>2. (published' = "live") = ops[i].on /\ (published' = "live" => held')
      BY <2>1, <3>1
    <3>3. CASE hasty
      <4>1. ~Mislaid'
        BY <1>3, <2>1, <3>1, <3>3
      <4>2. QED BY <1>3, <2>1, <3>2, <4>1 DEF Mislaid
    <3>4. CASE ~hasty
      BY <2>1, <3>1, <3>2, <3>4
    <3>5. QED BY <3>3, <3>4, <1>5
  <2>2. QED BY <1>3, <2>1 DEF Kept
<1>13. DevicesFollowSwitches'
  <2> SUFFICES ASSUME muting' = "no", ~hasty' PROVE (published' = "live") = switch'
    BY DEF DevicesFollowSwitches
  <2>1. ops[i].alone /\ ~ops[i].cancelled
    BY <1>3, <1>7
  <2>2. ops[i].on = switch
    BY <1>1, <2>1 DEF Sole
  <2>3. QED BY <1>3, <2>1, <2>2
<1>14. QED BY <1>6, <1>8, <1>9, <1>11, <1>12, <1>13 DEF MediaInv

\* A step that runs the effect, or its cleanup alone.
LEMMA RunKeeps ==
    ASSUME MediaInv, UNCHANGED <<device, steady, published, held>>,
           switch' \in BOOLEAN, status' \in {"connecting", "connected", "reconnecting"},
           Effect(switch', status'),
           flips' \in 0..MaxFlips, renders' \in 0..MaxRenders, troubles' \in 0..MaxTroubles,
           muting' = muting, muting # "no" => switch' = switch,
           hasty' = (hasty \/ ops # <<>>)
    PROVE  MediaInv'
<1>1. MediaTypeOK /\ Sole /\ MutingIsOn /\ Calm /\ Kept
  BY DEF MediaInv
<1>2. ops \in Seq(Ops) /\ Len(ops) <= MaxOps
  BY <1>1 DEF MediaTypeOK, Ops
<1>3. /\ ops' \in Seq(Ops) /\ Len(ops') <= MaxOps
      /\ \A i \in DOMAIN ops' : ops'[i].alone /\ ~ops'[i].cancelled =>
            Len(ops') = 1 /\ ops'[i].on = switch'
      /\ ops = <<>> => \A i \in DOMAIN ops' :
                          ~ops'[i].cancelled /\ (muting = "no" => ops'[i].alone)
      /\ ops' = <<>> /\ status' = "connected" => switch' = CountsAsOn
  BY <1>2, EffectStarts
<1>4. hasty \in BOOLEAN /\ hasty' \in BOOLEAN
  BY <1>1 DEF MediaTypeOK
<1>5. MediaTypeOK'
  <2>1. {steady', switch', held', hasty'} \subseteq BOOLEAN
    BY <1>1, <1>4 DEF MediaTypeOK
  <2>2. QED BY <1>1, <1>3, <2>1 DEF MediaTypeOK, Ops
<1>6. Sole' /\ Calm'
  BY <1>3 DEF Sole, Calm
<1>7. MutingIsOn'
  BY <1>1 DEF MutingIsOn
<1>8. Kept'
  BY <1>1 DEF Kept
<1>9. DevicesFollowSwitches'
  <2> SUFFICES ASSUME status' = "connected", ops' = <<>>, ~hasty'
               PROVE  (published' = "live") = switch'
    BY DEF DevicesFollowSwitches
  <2>1. switch' = CountsAsOn
    BY <1>3
  <2>2. device # "mic" => published # "muted"
    BY <1>1 DEF Kept, MediaTypeOK
  <2>3. CountsAsOn = (published = "live")
    BY <2>2 DEF CountsAsOn
  <2>4. QED BY <2>1, <2>3
<1>10. QED BY <1>5, <1>6, <1>7, <1>8, <1>9 DEF MediaInv

\* Each step of a tab, its renderings or LiveKit keeps it.
LEMMA MediaStays == MediaInv /\ [MediaNext]_mediaVars => MediaInv'
<1> SUFFICES ASSUME MediaInv, [MediaNext]_mediaVars PROVE MediaInv'
  OBVIOUS
<1>t. MediaTypeOK /\ Sole /\ MutingIsOn /\ Calm /\ Kept /\ DevicesFollowSwitches
  BY DEF MediaInv
<1>f. /\ ops \in Seq(Ops) /\ Len(ops) <= MaxOps
      /\ flips \in 0..MaxFlips /\ renders \in 0..MaxRenders /\ troubles \in 0..MaxTroubles
      /\ {MaxFlips, MaxRenders, MaxTroubles} \subseteq Nat
      /\ device \in {"mic", "camera", "screen"}
      /\ steady \in BOOLEAN /\ switch \in BOOLEAN /\ held \in BOOLEAN /\ hasty \in BOOLEAN
      /\ status \in {"connecting", "connected", "reconnecting"}
      /\ published \in {"none", "live", "muted"}
  BY <1>t, MediaAssumption DEF MediaTypeOK, Ops
<1>1. CASE PressMute
  <2>1. /\ muting' = "pressed" /\ device = "mic" /\ switch
        /\ UNCHANGED <<device, steady, status, switch, published, held, ops, renders, troubles,
                       hasty>>
    BY <1>1 DEF PressMute
  <2>2. flips' \in 0..MaxFlips
    BY <1>1, <1>f DEF PressMute, Pressed
  <2>3. MediaTypeOK'
    BY <1>t, <2>1, <2>2 DEF MediaTypeOK
  <2>4. Sole' /\ MutingIsOn' /\ Calm' /\ Kept' /\ DevicesFollowSwitches'
    BY <1>t, <2>1 DEF Sole, MutingIsOn, Calm, Kept, DevicesFollowSwitches
  <2>5. QED BY <2>3, <2>4 DEF MediaInv
<1>2. CASE LetGo
  <2>1. /\ muting' = "let go" /\ device = "mic" /\ switch
        /\ published' \in {"none", "live", "muted"} /\ held' = FALSE
        /\ UNCHANGED <<device, steady, status, switch, ops, flips, renders, troubles, hasty>>
    BY <1>2, <1>t, <1>f DEF LetGo, MutingIsOn
  <2>2. MediaTypeOK'
    BY <1>t, <2>1 DEF MediaTypeOK
  <2>3. Sole' /\ MutingIsOn' /\ Calm' /\ Kept' /\ DevicesFollowSwitches'
    BY <1>t, <2>1 DEF Sole, MutingIsOn, Calm, Kept, DevicesFollowSwitches
  <2>4. QED BY <2>2, <2>3 DEF MediaInv
<1>3. CASE Muted
  <2>1. /\ muting' = "no" /\ device = "mic" /\ switch' = FALSE /\ ops' = Cancelled
        /\ published' \in {"none", "muted"} /\ hasty' = (ops # <<>>)
        /\ UNCHANGED <<device, steady, status, held, flips, renders, troubles>>
    BY <1>3, <1>t, <1>f DEF Muted, MutingIsOn, Silenced
  <2>2. /\ ops' \in Seq(Ops) /\ Len(ops') <= MaxOps
        /\ \A i \in DOMAIN ops' : ops'[i].cancelled
        /\ ops = <<>> => ops' = <<>>
    BY <1>f, <2>1, AllCancelled
  <2>3. MediaTypeOK'
    <3>1. {steady', switch', held', hasty'} \subseteq BOOLEAN
      BY <1>f, <2>1
    <3>2. QED BY <1>t, <2>1, <2>2, <3>1 DEF MediaTypeOK, Ops
  <2>4. Calm'
    <3>1. ASSUME ~hasty' PROVE ops' = <<>>
      BY <2>1, <2>2, <3>1
    <3>2. ops' = <<>> => Len(ops') = 0 /\ DOMAIN ops' = {}
      OBVIOUS
    <3>3. QED BY <3>1, <3>2 DEF Calm
  <2>5. Sole' /\ MutingIsOn' /\ Kept' /\ DevicesFollowSwitches'
    BY <2>1, <2>2 DEF Sole, MutingIsOn, Kept, DevicesFollowSwitches
  <2>6. QED BY <2>3, <2>4, <2>5 DEF MediaInv
<1>4. CASE MuteFails
  <2>1. /\ muting' = "no" /\ device = "mic" /\ switch' = FALSE /\ hasty'
        /\ Effect(FALSE, status) /\ hasty' = TRUE
        /\ UNCHANGED <<device, steady, status, published, held, flips, renders>>
    BY <1>4, <1>t DEF MuteFails, MutingIsOn
  <2>2. troubles' \in 0..MaxTroubles
    BY <1>4, <1>f DEF MuteFails, Trouble
  <2>3. /\ ops' \in Seq(Ops) /\ Len(ops') <= MaxOps
        /\ \A i \in DOMAIN ops' : ops'[i].alone /\ ~ops'[i].cancelled =>
              Len(ops') = 1 /\ ops'[i].on = FALSE
    BY <1>f, <2>1, EffectStarts
  <2>4. MediaTypeOK'
    <3>1. {steady', switch', held', hasty'} \subseteq BOOLEAN
      BY <1>f, <2>1
    <3>2. QED BY <1>t, <2>1, <2>2, <2>3, <3>1 DEF MediaTypeOK, Ops
  <2>5. Sole' /\ MutingIsOn' /\ Calm' /\ Kept' /\ DevicesFollowSwitches'
    BY <2>1, <2>3 DEF Sole, MutingIsOn, Calm, Kept, DevicesFollowSwitches
  <2>6. QED BY <2>4, <2>5 DEF MediaInv
<1>5. CASE Flip
  <2>1. /\ switch' = ~switch /\ (device = "mic" => ~switch) /\ Effect(~switch, status)
        /\ hasty' = (hasty \/ ops # <<>>)
        /\ UNCHANGED <<device, steady, status, published, held, muting, renders, troubles>>
    BY <1>5 DEF Flip
  <2>2. flips' \in 0..MaxFlips
    BY <1>5, <1>f DEF Flip, Pressed
  <2>3. muting = "no"
    BY <1>t, <2>1 DEF MutingIsOn
  <2>4. QED BY <1>f, <2>1, <2>2, <2>3, RunKeeps
<1>6. CASE Connects
  <2>1. /\ Effect(switch, "connected") /\ status' = "connected"
        /\ hasty' = (hasty \/ ops # <<>>)
        /\ UNCHANGED <<device, steady, switch, published, held, muting, flips, renders, troubles>>
    BY <1>6 DEF Connects, StatusBecomes, Watched
  <2>2. QED BY <1>f, <2>1, RunKeeps
<1>7. CASE Reconnecting
  <2>1. /\ Effect(switch, "reconnecting") /\ status' = "reconnecting"
        /\ hasty' = (hasty \/ ops # <<>>)
        /\ UNCHANGED <<device, steady, switch, published, held, muting, flips, renders>>
    BY <1>7 DEF Reconnecting, StatusBecomes, Watched
  <2>2. troubles' \in 0..MaxTroubles
    BY <1>7, <1>f DEF Reconnecting, Trouble
  <2>3. QED BY <1>f, <2>1, <2>2, RunKeeps
<1>8. CASE AnotherRoom
  <2>1. /\ muting = "no" /\ status' = "connecting" /\ published' = "none" /\ held' = FALSE
        /\ ops' = <<>> /\ UNCHANGED <<device, steady, muting, flips, renders, hasty>>
    BY <1>8 DEF AnotherRoom
  <2>2. troubles' \in 0..MaxTroubles
    BY <1>8, <1>f DEF AnotherRoom, Trouble
  <2>3. switch' \in BOOLEAN
    BY <1>8, <1>f DEF AnotherRoom
  <2>4. ops' \in Seq(Ops) /\ Len(ops') = 0 /\ DOMAIN ops' = {} /\ Len(ops') <= MaxOps
    BY <2>1, MediaAssumption
  <2>5. MediaTypeOK'
    <3>1. {steady', switch', held', hasty'} \subseteq BOOLEAN
      BY <1>f, <2>1, <2>3
    <3>2. QED BY <1>t, <2>1, <2>2, <2>4, <3>1 DEF MediaTypeOK, Ops
  <2>6. Sole' /\ MutingIsOn' /\ Calm' /\ Kept' /\ DevicesFollowSwitches'
    BY <2>1, <2>4 DEF Sole, MutingIsOn, Calm, Kept, DevicesFollowSwitches
  <2>7. QED BY <2>5, <2>6 DEF MediaInv
<1>9. CASE Rerendered
  <2>1. /\ Effect(switch, status) /\ hasty' = (hasty \/ ops # <<>>)
        /\ UNCHANGED <<device, steady, status, switch, published, held, muting, flips, troubles>>
    BY <1>9 DEF Rerendered
  <2>2. renders' \in 0..MaxRenders
    BY <1>9, <1>f DEF Rerendered
  <2>3. QED BY <1>f, <2>1, <2>2, RunKeeps
<1>10. ASSUME NEW i \in DOMAIN ops, Dropped(i) PROVE MediaInv'
  <2>1. OpEnds(i) /\ ops[i].cancelled /\ device = "camera" /\ UNCHANGED <<published, held>>
    BY <1>10 DEF Dropped
  <2>2. QED BY <1>f, <2>1, EndKeeps
<1>11. ASSUME NEW i \in DOMAIN ops, TurnedOn(i) PROVE MediaInv'
  <2>1. OpEnds(i) /\ ops[i].on /\ published' = "live"
        /\ held' = (held \/ (~ops[i].cancelled /\ device # "screen"))
    BY <1>11 DEF TurnedOn
  <2>2. ops[i] \in Ops
    BY <1>f
  <2>3. ops[i].on = TRUE /\ ops[i].cancelled \in BOOLEAN
    BY <2>1, <2>2 DEF Ops
  <2>4. held' \in BOOLEAN
    BY <1>f, <2>1, <2>3
  <2>5. QED BY <2>1, <2>3, <2>4, EndKeeps
<1>12. ASSUME NEW i \in DOMAIN ops, TurnedOff(i) PROVE MediaInv'
  <2> DEFINE lets == held /\ (device = "camera" => ~ops[i].cancelled)
  <2>1. /\ OpEnds(i) /\ ~ops[i].on
        /\ published' = (IF device = "screen" \/ lets THEN "none" ELSE Silenced)
        /\ held' = (held /\ ~lets)
    BY <1>12 DEF TurnedOff
  <2>2. ops[i] \in Ops
    BY <1>f
  <2>3. ops[i].on = FALSE
    BY <2>1, <2>2 DEF Ops
  <2>4. published' \in {"none", "muted"} /\ (device = "screen" => published' # "muted")
    BY <1>f, <2>1 DEF Silenced
  <2>5. device = "camera" /\ ~hasty /\ ~ops[i].cancelled => published' # "muted"
    <3>1. SUFFICES ASSUME device = "camera", ~hasty, ~ops[i].cancelled
                   PROVE  published' # "muted"
      OBVIOUS
    <3>2. published # "muted" /\ (published = "live" => held)
      BY <1>t, <3>1 DEF Kept
    <3>3. QED BY <1>f, <2>1, <3>1, <3>2 DEF Silenced
  <2>6. held' \in BOOLEAN
    BY <1>f, <2>1
  <2>7. QED BY <2>1, <2>3, <2>4, <2>5, <2>6, EndKeeps
<1>13. ASSUME NEW i \in DOMAIN ops, OpFails(i) PROVE MediaInv'
  <2>1. /\ ops' = Without(i) /\ hasty' = TRUE /\ (device = "mic" => switch' = switch)
        /\ UNCHANGED <<device, steady, status, published, held, muting, flips, renders>>
    BY <1>13, <1>f DEF OpFails
  <2>2. switch' \in BOOLEAN
    BY <1>13, <1>f DEF OpFails
  <2>3. troubles' \in 0..MaxTroubles
    BY <1>13, <1>f DEF OpFails, Trouble
  <2>4. /\ ops' \in Seq(Ops) /\ Len(ops') = Len(ops) - 1 /\ Len(ops) \in Nat /\ MaxOps \in Nat
        /\ \A j \in DOMAIN ops' : \E k \in DOMAIN ops : ops'[j] = ops[k]
    BY <1>f, <2>1, OneLess, MediaAssumption
  <2>5. MediaTypeOK'
    <3>1. {steady', switch', held', hasty'} \subseteq BOOLEAN
      BY <1>f, <2>1, <2>2
    <3>2. Len(ops') <= MaxOps
      BY <1>f, <2>4
    <3>3. QED BY <1>t, <2>1, <2>3, <2>4, <3>1, <3>2 DEF MediaTypeOK, Ops
  <2>6. Sole'
    <3> SUFFICES ASSUME NEW j \in DOMAIN ops', ops'[j].alone, ~ops'[j].cancelled
                 PROVE  FALSE
      BY DEF Sole
    <3>1. PICK k \in DOMAIN ops : ops'[j] = ops[k]
      BY <2>4
    <3>2. Len(ops) = 1
      BY <1>t, <3>1 DEF Sole
    <3>3. Len(ops') = 0 /\ DOMAIN ops' = {}
      BY <2>4, <3>2
    <3>4. QED BY <3>3
  <2>7. MutingIsOn' /\ Calm' /\ Kept' /\ DevicesFollowSwitches'
    BY <1>t, <2>1 DEF MutingIsOn, Calm, Kept, DevicesFollowSwitches
  <2>8. QED BY <2>5, <2>6, <2>7 DEF MediaInv
<1>14. CASE UNCHANGED mediaVars
  BY <1>t, <1>14 DEF mediaVars, MediaInv, MediaTypeOK, Sole, MutingIsOn, Calm, Kept,
     DevicesFollowSwitches
<1>15. QED
  BY <1>1, <1>2, <1>3, <1>4, <1>5, <1>6, <1>7, <1>8, <1>9, <1>10, <1>11, <1>12, <1>13, <1>14
     DEF MediaNext

\* The effects of useLiveKitRoom.ts and its mute button: a connected device with nothing
\* under way does what its switch says, unless something changed under an operation or one
\* failed.
THEOREM DevicesFollow == MediaSpec => []DevicesFollowSwitches
<1>1. MediaInv => DevicesFollowSwitches
  BY DEF MediaInv
<1>2. QED BY <1>1, MediaStarts, MediaStays, PTL DEF MediaSpec

-----------------------------------------------------------------------------
(* The chat of the widget *)

\* A request for the messages of a conversation, as it waits.
LoadRows == [conv : Convs, state : {"asked", "answered"}, got : 0..MaxRevs, alone : BOOLEAN]
\* The message that is being sent.
Sendings == [conv : Convs \union {Nowhere}, stage : {"idle", "sent", "written", "over"}]

\* No more is on its way than has happened.
ToldOfWhatHappened == \A c \in Convs : told[c]["new"] + told[c]["changed"] <= revs[c]

\* A request that nothing has overlapped is the only one, and brings what is to be shown: as
\* it is now, unless an event is on its way or lost.
Alone ==
    \A i \in DOMAIN loads : loads[i].alone =>
       /\ Len(loads) = 1 /\ older = NoOlder /\ more
       /\ panel /\ active # Nowhere =>
             /\ loads[i].conv = active
             /\ loads[i].state = "answered" =>
                   \/ loads[i].got = revs[active] \/ missed
                   \/ \E k \in Kinds : told[active][k] > 0

\* Untangled, the list is of the conversation it is to be of, and an older page is asked for
\* from where the list ends.
Untangled ==
    ~tangled =>
       /\ \A i \in DOMAIN loads : loads[i].alone
       /\ list.conv = Nowhere => list = NoList
       /\ loads = <<>> /\ panel /\ active # Nowhere => list.conv \in {Nowhere, active}
       /\ older # NoOlder => /\ loads = <<>> /\ older.base = list /\ older.conv = list.conv
                             /\ list.conv \in Long /\ ~list.older

\* What is kept of the chat: what was missed is told, and what is shown has a cause.
WidgetInv ==
    /\ WidgetTypeOK /\ sending \in Sendings
    /\ ToldOfWhatHappened /\ Alone /\ Untangled /\ ListHasACause /\ HistoryIsReachable

\* An event about the conversation that is shown is on its way, or something was lost.
Owed == missed \/ \E k \in Kinds : told[active][k] > 0

\* The types of the variables, each by itself.
LEMMA WidgetTypes ==
    ASSUME WidgetInv
    PROVE  /\ revs \in [Convs -> 0..MaxRevs] /\ told \in [Convs -> [Kinds -> 0..MaxRevs]]
           /\ streaming \in BOOLEAN /\ reopened \in BOOLEAN
           /\ panel \in BOOLEAN /\ active \in Convs \union {Nowhere}
           /\ list \in Lists /\ more \in BOOLEAN
           /\ loads \in Seq(LoadRows) /\ Len(loads) \in Nat /\ Len(loads) <= MaxLoads
           /\ DOMAIN loads = 1..Len(loads)
           /\ older = NoOlder \/ older \in [conv : Convs, base : Lists]
           /\ sending \in Sendings
           /\ sending.conv = Nowhere <=> sending.stage \in {"idle", "over"}
           /\ mishaps \in 0..MaxMishaps /\ moves \in 0..MaxMoves
           /\ missed \in BOOLEAN /\ tangled \in BOOLEAN
           /\ {MaxRevs, MaxLoads, MaxMishaps, MaxMoves} \subseteq Nat
           /\ Nowhere \notin Convs /\ Long \subseteq Convs
           /\ NoList \in Lists /\ NoList.conv = Nowhere /\ ~NoList.torn /\ ~NoList.older
           /\ Kinds = {"new", "changed"}
<1>1. loads \in Seq(LoadRows) /\ Len(loads) <= MaxLoads
  BY DEF WidgetInv, WidgetTypeOK, LoadRows
<1>2. Len(loads) \in Nat /\ DOMAIN loads = 1..Len(loads)
  BY <1>1
<1>3. NoList \in Lists /\ NoList.conv = Nowhere /\ ~NoList.torn /\ ~NoList.older
  BY WidgetAssumption DEF NoList, Lists
<1>4. QED BY <1>1, <1>2, <1>3, WidgetAssumption DEF WidgetInv, WidgetTypeOK, Kinds

\* A closed panel shows nothing.
LEMMA WidgetStarts == WidgetInit => WidgetInv
<1> SUFFICES ASSUME WidgetInit PROVE WidgetInv
  OBVIOUS
<1>1. loads \in Seq(LoadRows) /\ Len(loads) = 0 /\ DOMAIN loads = {}
  BY DEF WidgetInit
<1>2. NoList \in Lists /\ NoList.conv = Nowhere
  BY WidgetAssumption DEF NoList, Lists
<1>3. /\ revs \in [Convs -> 0..MaxRevs] /\ told \in [Convs -> [Kinds -> 0..MaxRevs]]
      /\ \A c \in Convs : told[c]["new"] = 0 /\ told[c]["changed"] = 0 /\ revs[c] = 0
  BY WidgetAssumption DEF WidgetInit, Kinds
<1>4. /\ sending \in Sendings /\ sending.conv = Nowhere /\ sending.stage = "idle"
  BY DEF WidgetInit, NotSending, Sendings
<1>5. Len(loads) <= MaxLoads /\ mishaps \in 0..MaxMishaps /\ moves \in 0..MaxMoves
  BY <1>1, WidgetAssumption DEF WidgetInit
<1>6. WidgetTypeOK
  BY <1>1, <1>2, <1>3, <1>4, <1>5 DEF WidgetInit, WidgetTypeOK, LoadRows
<1>7. ToldOfWhatHappened
  BY <1>3 DEF ToldOfWhatHappened
<1>8. Alone /\ Untangled /\ ListHasACause /\ HistoryIsReachable
  BY <1>1, <1>2 DEF WidgetInit, Alone, Untangled, ListHasACause, HistoryIsReachable
<1>9. QED BY <1>4, <1>6, <1>7, <1>8 DEF WidgetInv

\* The conjuncts of the invariant, to be shown one by one.
LEMMA WidgetParts ==
    ASSUME revs' \in [Convs -> 0..MaxRevs], told' \in [Convs -> [Kinds -> 0..MaxRevs]],
           streaming' \in BOOLEAN, reopened' \in BOOLEAN,
           panel' \in BOOLEAN, active' \in Convs \union {Nowhere},
           list' \in Lists, more' \in BOOLEAN,
           loads' \in Seq(LoadRows), Len(loads') <= MaxLoads,
           older' = NoOlder \/ older' \in [conv : Convs, base : Lists],
           sending' \in Sendings,
           sending'.conv = Nowhere <=> sending'.stage \in {"idle", "over"},
           mishaps' \in 0..MaxMishaps, moves' \in 0..MaxMoves,
           missed' \in BOOLEAN, tangled' \in BOOLEAN,
           ToldOfWhatHappened', Alone', Untangled', ListHasACause', HistoryIsReachable'
    PROVE  WidgetInv'
<1>1. sending'.stage \in {"idle", "sent", "written", "over"}
  BY DEF Sendings
<1>2. WidgetTypeOK'
  BY <1>1 DEF WidgetTypeOK, LoadRows
<1>3. QED BY <1>2 DEF WidgetInv

\* A message is told to a stream that is up, and lost otherwise.
LEMMA HappensOnce ==
    ASSUME WidgetInv, NEW c \in Convs, NEW kind \in Kinds, revs[c] < MaxRevs, Happens(c, kind)
    PROVE  /\ revs' \in [Convs -> 0..MaxRevs] /\ told' \in [Convs -> [Kinds -> 0..MaxRevs]]
           /\ missed' \in BOOLEAN /\ ToldOfWhatHappened'
           /\ \A d \in Convs : d # c => revs'[d] = revs[d] /\ told'[d] = told[d]
           /\ missed => missed'
           /\ missed' \/ \E k \in Kinds : told'[c][k] > 0
<1>1. /\ revs \in [Convs -> 0..MaxRevs] /\ told \in [Convs -> [Kinds -> 0..MaxRevs]]
      /\ streaming \in BOOLEAN /\ missed \in BOOLEAN /\ MaxRevs \in Nat
      /\ Kinds = {"new", "changed"}
      /\ \A d \in Convs : told[d]["new"] + told[d]["changed"] <= revs[d]
  BY WidgetTypes DEF WidgetInv, ToldOfWhatHappened
<1>2. /\ revs' = [revs EXCEPT ![c] = @ + 1]
      /\ told' = (IF streaming THEN [told EXCEPT ![c][kind] = @ + 1] ELSE told)
      /\ missed' = (missed \/ ~streaming)
  BY DEF Happens
<1>3. /\ revs' \in [Convs -> 0..MaxRevs] /\ revs'[c] = revs[c] + 1
      /\ \A d \in Convs : d # c => revs'[d] = revs[d]
  BY <1>1, <1>2
<1>4. missed' \in BOOLEAN /\ (missed => missed') /\ (~streaming => missed')
  BY <1>1, <1>2
<1>5. CASE ~streaming
  <2>1. told' = told
    BY <1>2, <1>5
  <2>2. ASSUME NEW d \in Convs PROVE told[d]["new"] + told[d]["changed"] <= revs'[d]
    <3>1. /\ told[d]["new"] \in Nat /\ told[d]["changed"] \in Nat /\ revs[d] \in Nat
          /\ told[d]["new"] + told[d]["changed"] <= revs[d]
      BY <1>1
    <3>2. revs'[d] = revs[d] \/ revs'[d] = revs[d] + 1
      BY <1>3
    <3>3. QED BY <3>1, <3>2
  <2>3. ToldOfWhatHappened'
    BY <2>1, <2>2 DEF ToldOfWhatHappened
  <2>4. QED BY <1>1, <1>3, <1>4, <1>5, <2>1, <2>3
<1>6. CASE streaming
  <2>1. /\ \A d \in Convs : d # c => told'[d] = told[d]
        /\ told'[c] = [told[c] EXCEPT ![kind] = @ + 1] /\ DOMAIN told' = Convs
        /\ told' = [told EXCEPT ![c] = [told[c] EXCEPT ![kind] = @ + 1]]
    BY <1>1, <1>2, <1>6
  <2>2. /\ told[c] \in [Kinds -> 0..MaxRevs] /\ told[c]["new"] \in Nat /\ told[c]["changed"] \in Nat
        /\ revs[c] \in Nat /\ told[c]["new"] + told[c]["changed"] <= revs[c]
    BY <1>1
  <2>3. /\ told'[c] \in [Kinds -> 0..MaxRevs]
        /\ told'[c][kind] > 0
        /\ told'[c]["new"] + told'[c]["changed"] <= revs[c] + 1
    <3>1. CASE kind = "new"
      <4>1. /\ told'[c]["new"] = told[c]["new"] + 1 /\ told'[c]["changed"] = told[c]["changed"]
            /\ DOMAIN told'[c] = Kinds /\ told'[c] = [k \in Kinds |-> told'[c][k]]
        BY <1>1, <2>1, <2>2, <3>1
      <4>2. told'[c]["new"] \in 0..MaxRevs /\ told'[c]["changed"] \in 0..MaxRevs
        BY <1>1, <2>2, <4>1
      <4>3. QED BY <1>1, <2>2, <3>1, <4>1, <4>2
    <3>2. CASE kind = "changed"
      <4>1. /\ told'[c]["changed"] = told[c]["changed"] + 1 /\ told'[c]["new"] = told[c]["new"]
            /\ DOMAIN told'[c] = Kinds /\ told'[c] = [k \in Kinds |-> told'[c][k]]
        BY <1>1, <2>1, <2>2, <3>2
      <4>2. told'[c]["new"] \in 0..MaxRevs /\ told'[c]["changed"] \in 0..MaxRevs
        BY <1>1, <2>2, <4>1
      <4>3. QED BY <1>1, <2>2, <3>2, <4>1, <4>2
    <3>3. QED BY <1>1, <3>1, <3>2
  <2>4. told' \in [Convs -> [Kinds -> 0..MaxRevs]]
    BY <1>1, <2>1, <2>3
  <2>5. ASSUME NEW d \in Convs PROVE told'[d]["new"] + told'[d]["changed"] <= revs'[d]
    BY <1>1, <1>3, <2>1, <2>3
  <2>6. QED BY <1>3, <1>4, <2>1, <2>3, <2>4, <2>5 DEF ToldOfWhatHappened
<1>7. QED BY <1>1, <1>5, <1>6

\* An event that is heard is on its way no more.
LEMMA HeardOnce ==
    ASSUME WidgetInv, NEW c \in Convs, NEW kind \in Kinds, told[c][kind] > 0,
           told' = [told EXCEPT ![c][kind] = @ - 1], revs' = revs
    PROVE  /\ told' \in [Convs -> [Kinds -> 0..MaxRevs]] /\ ToldOfWhatHappened'
           /\ \A d \in Convs : d # c => told'[d] = told[d]
<1>1. /\ revs \in [Convs -> 0..MaxRevs] /\ told \in [Convs -> [Kinds -> 0..MaxRevs]]
      /\ MaxRevs \in Nat /\ Kinds = {"new", "changed"}
      /\ \A d \in Convs : told[d]["new"] + told[d]["changed"] <= revs[d]
  BY WidgetTypes DEF WidgetInv, ToldOfWhatHappened
<1>2. /\ \A d \in Convs : d # c => told'[d] = told[d]
      /\ told'[c] = [told[c] EXCEPT ![kind] = @ - 1] /\ DOMAIN told' = Convs
      /\ told' = [told EXCEPT ![c] = [told[c] EXCEPT ![kind] = @ - 1]]
  BY <1>1
<1>3. /\ told[c] \in [Kinds -> 0..MaxRevs] /\ told[c]["new"] \in 0..MaxRevs
      /\ told[c]["changed"] \in 0..MaxRevs
      /\ revs[c] \in Nat /\ told[c]["new"] + told[c]["changed"] <= revs[c]
  BY <1>1
<1>4. /\ told'[c] \in [Kinds -> 0..MaxRevs]
      /\ told'[c]["new"] + told'[c]["changed"] <= revs[c]
  <2>1. CASE kind = "new"
    <3>1. /\ told'[c]["new"] = told[c]["new"] - 1 /\ told'[c]["changed"] = told[c]["changed"]
          /\ DOMAIN told'[c] = Kinds /\ told'[c] = [k \in Kinds |-> told'[c][k]]
      BY <1>1, <1>2, <1>3, <2>1
    <3>2. told'[c]["new"] \in 0..MaxRevs /\ told'[c]["changed"] \in 0..MaxRevs
      BY <1>1, <1>3, <2>1, <3>1
    <3>3. QED BY <1>1, <1>3, <3>1, <3>2
  <2>2. CASE kind = "changed"
    <3>1. /\ told'[c]["changed"] = told[c]["changed"] - 1 /\ told'[c]["new"] = told[c]["new"]
          /\ DOMAIN told'[c] = Kinds /\ told'[c] = [k \in Kinds |-> told'[c][k]]
      BY <1>1, <1>2, <1>3, <2>2
    <3>2. told'[c]["new"] \in 0..MaxRevs /\ told'[c]["changed"] \in 0..MaxRevs
      BY <1>1, <1>3, <2>2, <3>1
    <3>3. QED BY <1>1, <1>3, <3>1, <3>2
  <2>3. QED BY <1>1, <2>1, <2>2
<1>5. told' \in [Convs -> [Kinds -> 0..MaxRevs]]
  BY <1>1, <1>2, <1>4
<1>6. ASSUME NEW d \in Convs PROVE told'[d]["new"] + told'[d]["changed"] <= revs'[d]
  BY <1>1, <1>2, <1>4
<1>7. QED BY <1>2, <1>5, <1>6 DEF ToldOfWhatHappened

\* A stream that goes takes its events with it.
LEMMA DeafHearsNothing ==
    ASSUME WidgetInv, Deaf, revs' = revs
    PROVE  /\ streaming' = FALSE /\ told' \in [Convs -> [Kinds -> 0..MaxRevs]]
           /\ ToldOfWhatHappened' /\ missed' \in BOOLEAN
           /\ active \in Convs => (Owed => missed')
           /\ missed => missed'
<1>1. /\ revs \in [Convs -> 0..MaxRevs] /\ missed \in BOOLEAN /\ MaxRevs \in Nat
      /\ Kinds = {"new", "changed"}
  BY WidgetTypes
<1>2. /\ streaming' = FALSE /\ told' = [c \in Convs |-> [k \in Kinds |-> 0]]
      /\ missed' = (missed \/ \E c \in Convs, k \in Kinds : told[c][k] > 0)
  BY DEF Deaf
<1>3. told' \in [Convs -> [Kinds -> 0..MaxRevs]] /\ ToldOfWhatHappened'
  BY <1>1, <1>2 DEF ToldOfWhatHappened
<1>4. QED BY <1>1, <1>2, <1>3 DEF Owed

\* A request for the newest page comes after all those under way, none of which is alone
\* from now on.
LEMMA LoadIsLast ==
    ASSUME WidgetInv, NEW c \in Convs, NEW now, Load(c, now)
    PROVE  /\ loads' \in Seq(LoadRows) /\ Len(loads') <= MaxLoads /\ loads' # <<>>
           /\ \A i \in DOMAIN loads' : loads'[i].alone =>
                 /\ loads = <<>> /\ older = NoOlder /\ c = now /\ Len(loads') = 1
                 /\ loads'[i].conv = c /\ loads'[i].state = "asked"
           /\ ~tangled' => ~tangled /\ loads = <<>> /\ older = NoOlder
                           /\ \A i \in DOMAIN loads' : loads'[i].alone
           /\ \E i \in DOMAIN loads' : loads'[i].conv = c /\ loads'[i].state = "asked"
           /\ \A i \in DOMAIN loads : \E j \in DOMAIN loads' :
                 loads'[j].conv = loads[i].conv /\ loads'[j].state = loads[i].state
                 /\ loads'[j].got = loads[i].got
           /\ more' = TRUE /\ tangled' \in BOOLEAN /\ UNCHANGED <<list, older>>
<1>1. /\ loads \in Seq(LoadRows) /\ Len(loads) \in Nat /\ DOMAIN loads = 1..Len(loads)
      /\ MaxLoads \in Nat /\ MaxRevs \in Nat /\ tangled \in BOOLEAN
  BY WidgetTypes
<1> DEFINE alone == loads = <<>> /\ older = NoOlder /\ c = now
           loud  == [i \in DOMAIN loads |-> [loads[i] EXCEPT !.alone = FALSE]]
           e     == [conv |-> c, state |-> "asked", got |-> 0, alone |-> alone]
<1>2. /\ Len(loads) < MaxLoads /\ loads' = Append(loud, e) /\ more' = TRUE
      /\ tangled' = (tangled \/ ~alone) /\ UNCHANGED <<list, older>>
  BY DEF Load, StartOver
<1>3. e \in LoadRows /\ e.conv = c /\ e.state = "asked" /\ e.alone = alone
  BY <1>1 DEF LoadRows
<1>4. ASSUME NEW i \in 1..Len(loads)
      PROVE  /\ [loads[i] EXCEPT !.alone = FALSE] \in LoadRows
             /\ [loads[i] EXCEPT !.alone = FALSE].conv = loads[i].conv
             /\ [loads[i] EXCEPT !.alone = FALSE].state = loads[i].state
             /\ [loads[i] EXCEPT !.alone = FALSE].got = loads[i].got
             /\ ~[loads[i] EXCEPT !.alone = FALSE].alone
  <2>1. loads[i] \in LoadRows
    BY <1>1
  <2>2. QED BY <2>1 DEF LoadRows
<1>5. loud \in [1..Len(loads) -> LoadRows]
  BY <1>1, <1>4
<1>6. loud \in Seq(LoadRows) /\ Len(loud) = Len(loads)
  BY <1>1, <1>5
<1>7. \A i \in 1..Len(loads) : /\ loud[i].conv = loads[i].conv /\ loud[i].state = loads[i].state
                               /\ loud[i].got = loads[i].got /\ ~loud[i].alone
  BY <1>1, <1>4
<1> HIDE DEF loud, e
<1>8. /\ loads' \in Seq(LoadRows) /\ Len(loads') = Len(loads) + 1
      /\ DOMAIN loads' = 1..(Len(loads) + 1)
      /\ \A i \in 1..Len(loads) : loads'[i] = loud[i]
      /\ loads'[Len(loads) + 1] = e
  BY <1>1, <1>2, <1>3, <1>6
<1>9. /\ \A i \in DOMAIN loads' : i \in 1..Len(loads) \/ i = Len(loads) + 1
      /\ Len(loads) + 1 \in DOMAIN loads' /\ \A i \in 1..Len(loads) : i \in DOMAIN loads'
  BY <1>1, <1>8
<1>10. ASSUME NEW i \in DOMAIN loads', loads'[i].alone
       PROVE  alone /\ loads'[i].conv = c /\ loads'[i].state = "asked"
  BY <1>3, <1>7, <1>8, <1>9, <1>10
<1>11. loads = <<>> => Len(loads) = 0
  OBVIOUS
<1>12. loads = <<>> => Len(loads') = 1
  BY <1>8, <1>11
<1>13. ASSUME ~tangled', NEW i \in DOMAIN loads' PROVE loads'[i].alone
  <2>1. alone
    BY <1>2, <1>13
  <2>2. loads'[i] = e
    BY <1>8, <1>9, <1>11, <2>1
  <2>3. QED BY <1>3, <2>1, <2>2
<1>14. ~tangled' => ~tangled /\ alone
  BY <1>2
<1>15. tangled' \in BOOLEAN
  BY <1>1, <1>2
<1>16. Len(loads') <= MaxLoads
  BY <1>1, <1>2, <1>8
<1>17. loads' # <<>>
  BY <1>8, <1>9
<1>18. /\ \E i \in DOMAIN loads' : loads'[i].conv = c /\ loads'[i].state = "asked"
       /\ \A i \in DOMAIN loads : \E j \in DOMAIN loads' :
             loads'[j].conv = loads[i].conv /\ loads'[j].state = loads[i].state
             /\ loads'[j].got = loads[i].got
  BY <1>1, <1>3, <1>7, <1>8, <1>9
<1> HIDE DEF alone
<1>19. alone => loads = <<>> /\ older = NoOlder /\ c = now
  BY DEF alone
<1>20. QED BY <1>2, <1>8, <1>10, <1>12, <1>13, <1>14, <1>15, <1>16, <1>17, <1>18, <1>19

\* What is asked for is what is to be shown, or nothing else changes.
LEMMA LoadKeeps ==
    ASSUME WidgetInv, NEW c \in Convs, Load(c, active'),
           \/ c = active'
           \/ UNCHANGED <<revs, panel, active>> /\ (active \in Convs => (Owed => Owed'))
    PROVE  Alone' /\ Untangled' /\ ListHasACause' /\ HistoryIsReachable'
<1>1. /\ loads' # <<>>
      /\ \A i \in DOMAIN loads' : loads'[i].alone =>
            /\ loads = <<>> /\ older = NoOlder /\ c = active' /\ Len(loads') = 1
            /\ loads'[i].conv = c /\ loads'[i].state = "asked"
      /\ ~tangled' => ~tangled /\ loads = <<>> /\ older = NoOlder
                      /\ \A i \in DOMAIN loads' : loads'[i].alone
      /\ \E i \in DOMAIN loads' : loads'[i].conv = c /\ loads'[i].state = "asked"
      /\ \A i \in DOMAIN loads : \E j \in DOMAIN loads' :
            loads'[j].conv = loads[i].conv /\ loads'[j].state = loads[i].state
            /\ loads'[j].got = loads[i].got
      /\ more' = TRUE /\ UNCHANGED <<list, older>>
  BY LoadIsLast
<1>2. Alone'
  BY <1>1 DEF Alone
<1>3. Untangled'
  BY <1>1 DEF Untangled, WidgetInv
<1>4. HistoryIsReachable'
  BY <1>1 DEF HistoryIsReachable
<1>5. ListHasACause'
  <2>1. CASE c = active'
    BY <1>1, <2>1 DEF ListHasACause
  <2>2. CASE UNCHANGED <<revs, panel, active>> /\ (active \in Convs => (Owed => Owed'))
    <3> SUFFICES ASSUME panel', active' # Nowhere,
                        ~(list'.conv = active' /\ list'.at = revs'[active'])
                 PROVE  \/ \E k \in Kinds : told'[active'][k] > 0
                        \/ missed' \/ tangled'
                        \/ \E i \in DOMAIN loads' :
                              loads'[i].conv = active'
                              /\ (loads'[i].state = "asked" \/ loads'[i].got = revs'[active'])
      BY DEF ListHasACause
    <3>1. active \in Convs
      BY <2>2, WidgetTypes
    <3>2. \/ Owed \/ tangled
          \/ \E i \in DOMAIN loads :
                loads[i].conv = active
                /\ (loads[i].state = "asked" \/ loads[i].got = revs[active])
      BY <1>1, <2>2 DEF ListHasACause, WidgetInv, Owed
    <3>3. CASE Owed
      BY <2>2, <3>1, <3>3 DEF Owed
    <3>4. CASE tangled
      BY <1>1, <3>4
    <3>5. CASE \E i \in DOMAIN loads :
                  loads[i].conv = active
                  /\ (loads[i].state = "asked" \/ loads[i].got = revs[active])
      BY <1>1, <2>2, <3>5
    <3>6. QED BY <3>2, <3>3, <3>4, <3>5
  <2>3. QED BY <2>1, <2>2
<1>6. QED BY <1>2, <1>3, <1>4, <1>5

\* Nothing is asked for, and what is shown is not what it was only with a cause.
LEMMA QuietKeeps ==
    ASSUME WidgetInv, UNCHANGED listVars,
           panel' /\ active' # Nowhere =>
              panel /\ active' = active /\ (Owed' \/ (~Owed /\ revs'[active] = revs[active]))
    PROVE  Alone' /\ Untangled' /\ ListHasACause' /\ HistoryIsReachable'
<1>1. UNCHANGED <<list, more, loads, older, tangled>>
  BY DEF listVars
<1>2. Alone'
  BY <1>1 DEF Alone, WidgetInv, Owed
<1>3. Untangled'
  BY <1>1 DEF Untangled, WidgetInv
<1>4. HistoryIsReachable'
  BY <1>1 DEF HistoryIsReachable, WidgetInv
<1>5. ListHasACause'
  BY <1>1 DEF ListHasACause, WidgetInv, Owed
<1>6. QED BY <1>2, <1>3, <1>4, <1>5

\* The requests that are left when one is not.
LEMMA OthersStay ==
    ASSUME loads \in Seq(LoadRows), NEW i \in DOMAIN loads
    PROVE  LET rest == RemoveAt(loads, i)
           IN /\ rest \in Seq(LoadRows) /\ Len(rest) = Len(loads) - 1
              /\ DOMAIN rest = 1..(Len(loads) - 1)
              /\ \A j \in DOMAIN rest : \E k \in DOMAIN loads : k # i /\ rest[j] = loads[k]
              /\ \A k \in DOMAIN loads : k # i => \E j \in DOMAIN rest : rest[j] = loads[k]
<1> DEFINE rest == RemoveAt(loads, i)
<1>1. /\ rest \in Seq(LoadRows) /\ Len(rest) = Len(loads) - 1 /\ Len(loads) \in Nat
      /\ \A j \in 1..(Len(loads) - 1) : rest[j] = IF j < i THEN loads[j] ELSE loads[j + 1]
      /\ DOMAIN loads = 1..Len(loads)
  BY Removed
<1> HIDE DEF rest
<1>2. DOMAIN rest = 1..(Len(loads) - 1)
  BY <1>1
<1>3. ASSUME NEW j \in DOMAIN rest PROVE \E k \in DOMAIN loads : k # i /\ rest[j] = loads[k]
  <2>1. CASE j < i
    BY <1>1, <1>2, <2>1
  <2>2. CASE ~(j < i)
    <3>1. j + 1 \in DOMAIN loads /\ j + 1 # i /\ rest[j] = loads[j + 1]
      BY <1>1, <1>2, <2>2
    <3>2. QED BY <3>1
  <2>3. QED BY <2>1, <2>2
<1>4. ASSUME NEW k \in DOMAIN loads, k # i PROVE \E j \in DOMAIN rest : rest[j] = loads[k]
  <2>1. CASE k < i
    <3>1. k \in DOMAIN rest /\ rest[k] = loads[k]
      BY <1>1, <1>2, <2>1
    <3>2. QED BY <3>1
  <2>2. CASE ~(k < i)
    <3>1. k - 1 \in DOMAIN rest /\ ~(k - 1 < i) /\ (k - 1) + 1 = k
      BY <1>1, <1>2, <1>4, <2>2
    <3>2. rest[k - 1] = loads[k]
      BY <1>1, <1>2, <3>1
    <3>3. QED BY <3>1, <3>2
  <2>3. QED BY <2>1, <2>2
<1>5. QED BY <1>1, <1>2, <1>3, <1>4 DEF rest

\* Each step of the widget, the server or the stream keeps it.
LEMMA WidgetStays == WidgetInv /\ [WidgetNext]_widgetVars => WidgetInv'
<1> SUFFICES ASSUME WidgetInv, [WidgetNext]_widgetVars PROVE WidgetInv'
  OBVIOUS
<1>t. /\ revs \in [Convs -> 0..MaxRevs] /\ told \in [Convs -> [Kinds -> 0..MaxRevs]]
      /\ streaming \in BOOLEAN /\ reopened \in BOOLEAN
      /\ panel \in BOOLEAN /\ active \in Convs \union {Nowhere}
      /\ list \in Lists /\ more \in BOOLEAN
      /\ loads \in Seq(LoadRows) /\ Len(loads) \in Nat /\ Len(loads) <= MaxLoads
      /\ DOMAIN loads = 1..Len(loads)
      /\ older = NoOlder \/ older \in [conv : Convs, base : Lists]
      /\ sending \in Sendings
      /\ sending.conv = Nowhere <=> sending.stage \in {"idle", "over"}
      /\ mishaps \in 0..MaxMishaps /\ moves \in 0..MaxMoves
      /\ missed \in BOOLEAN /\ tangled \in BOOLEAN
      /\ {MaxRevs, MaxLoads, MaxMishaps, MaxMoves} \subseteq Nat
      /\ Nowhere \notin Convs /\ Long \subseteq Convs
      /\ NoList \in Lists /\ NoList.conv = Nowhere /\ ~NoList.torn /\ ~NoList.older
      /\ Kinds = {"new", "changed"}
  BY WidgetTypes
<1>i. ToldOfWhatHappened /\ Alone /\ Untangled /\ ListHasACause /\ HistoryIsReachable
  BY DEF WidgetInv
<1>m. /\ Mishap => mishaps' \in 0..MaxMishaps
      /\ Move => moves' \in 0..MaxMoves /\ mishaps' \in 0..MaxMishaps
      /\ Nobodys => moves' \in 0..MaxMoves /\ mishaps' \in 0..MaxMishaps
  BY <1>t DEF Mishap, Move, Nobodys
<1>w. ASSUME UNCHANGED <<revs, told>> PROVE ToldOfWhatHappened'
  BY <1>i, <1>w DEF ToldOfWhatHappened
\* A step that asks for nothing.
<1>a. ASSUME UNCHANGED listVars,
             panel' /\ active' # Nowhere =>
                panel /\ active' = active /\ (Owed' \/ (~Owed /\ revs'[active] = revs[active])),
             revs' \in [Convs -> 0..MaxRevs], told' \in [Convs -> [Kinds -> 0..MaxRevs]],
             ToldOfWhatHappened', streaming' \in BOOLEAN, reopened' \in BOOLEAN,
             panel' \in BOOLEAN, active' \in Convs \union {Nowhere}, missed' \in BOOLEAN,
             sending' \in Sendings, sending'.conv = Nowhere <=> sending'.stage \in {"idle", "over"},
             mishaps' \in 0..MaxMishaps, moves' \in 0..MaxMoves
      PROVE  WidgetInv'
  <2>1. Alone' /\ Untangled' /\ ListHasACause' /\ HistoryIsReachable'
    BY <1>a, QuietKeeps
  <2>2. UNCHANGED <<list, more, loads, older, tangled>>
    BY <1>a DEF listVars
  <2>3. QED BY <1>a, <1>t, <2>1, <2>2, WidgetParts
\* A step that asks for the newest page.
<1>b. ASSUME NEW c \in Convs, Load(c, active'),
             \/ c = active'
             \/ UNCHANGED <<revs, panel, active>> /\ (active \in Convs => (Owed => Owed')),
             revs' = revs, told' \in [Convs -> [Kinds -> 0..MaxRevs]],
             ToldOfWhatHappened', streaming' \in BOOLEAN, reopened' = reopened,
             panel' \in BOOLEAN, active' \in Convs \union {Nowhere}, missed' = missed,
             sending' \in Sendings, sending'.conv = Nowhere <=> sending'.stage \in {"idle", "over"},
             mishaps' \in 0..MaxMishaps, moves' \in 0..MaxMoves
      PROVE  WidgetInv'
  <2>1. Alone' /\ Untangled' /\ ListHasACause' /\ HistoryIsReachable'
    BY <1>b, LoadKeeps
  <2>2. /\ loads' \in Seq(LoadRows) /\ Len(loads') <= MaxLoads
        /\ more' = TRUE /\ tangled' \in BOOLEAN /\ UNCHANGED <<list, older>>
    BY <1>b, LoadIsLast
  <2>3. QED BY <1>b, <1>t, <2>1, <2>2, WidgetParts
<1>1. ASSUME NEW i \in DOMAIN loads, LoadAnswered(i) PROVE WidgetInv'
  <2> DEFINE rest == RemoveAt(loads, i)
             r == [loads[i] EXCEPT !.state = "answered", !.got = revs[loads[i].conv]]
  <2>1. /\ loads[i].state = "asked" /\ loads' = Append(rest, r)
        /\ missed' = (missed /\ loads[i].conv # active)
        /\ Nobodys
        /\ UNCHANGED <<revs, streaming, reopened, told, panel, active, list, more, older, tangled,
                       sending>>
    BY <1>1 DEF LoadAnswered, streamV, chatShows
  <2>2. loads[i] \in LoadRows
    BY <1>t
  <2>3. loads[i].conv \in Convs /\ revs[loads[i].conv] \in 0..MaxRevs
    BY <1>t, <2>2 DEF LoadRows
  <2>4. /\ r \in LoadRows /\ r.conv = loads[i].conv /\ r.state = "answered"
        /\ r.got = revs[loads[i].conv] /\ r.alone = loads[i].alone
    BY <2>2, <2>3 DEF LoadRows
  <2>5. /\ rest \in Seq(LoadRows) /\ Len(rest) = Len(loads) - 1 /\ DOMAIN rest = 1..(Len(loads) - 1)
        /\ \A j \in DOMAIN rest : \E k \in DOMAIN loads : k # i /\ rest[j] = loads[k]
        /\ \A k \in DOMAIN loads : k # i => \E j \in DOMAIN rest : rest[j] = loads[k]
    BY <1>t, OthersStay
  <2> HIDE DEF rest, r
  <2>n. Len(loads) \in Nat /\ Len(loads) - 1 + 1 = Len(loads)
    BY <1>t
  <2>6. /\ loads' \in Seq(LoadRows) /\ Len(loads') = Len(loads) /\ DOMAIN loads' = 1..Len(loads)
        /\ \A j \in 1..(Len(loads) - 1) : loads'[j] = rest[j]
        /\ loads'[Len(loads)] = r
    <3>1. /\ loads' \in Seq(LoadRows) /\ Len(loads') = Len(rest) + 1
          /\ \A j \in 1..Len(rest) : loads'[j] = rest[j]
          /\ loads'[Len(rest) + 1] = r
      BY <2>1, <2>4, <2>5
    <3>2. QED BY <2>n, <2>5, <3>1
  <2>7. /\ \A j \in DOMAIN loads' : loads'[j] = r
           \/ \E k \in DOMAIN loads : k # i /\ loads'[j] = loads[k]
        /\ \E j \in DOMAIN loads' : loads'[j] = r
        /\ \A k \in DOMAIN loads : k # i => \E j \in DOMAIN loads' : loads'[j] = loads[k]
    <3>1. ASSUME NEW j \in DOMAIN loads'
          PROVE  loads'[j] = r \/ \E k \in DOMAIN loads : k # i /\ loads'[j] = loads[k]
      <4>1. j = Len(loads) \/ j \in DOMAIN rest
        BY <2>n, <2>5, <2>6
      <4>2. QED BY <2>5, <2>6, <4>1
    <3>2. Len(loads) \in DOMAIN loads'
      BY <1>t, <2>n, <2>6
    <3>3. \A j \in DOMAIN rest : j \in DOMAIN loads' /\ loads'[j] = rest[j]
      BY <2>n, <2>5, <2>6
    <3>4. QED BY <2>5, <2>6, <3>1, <3>2, <3>3
  <2>8. loads # <<>> /\ loads' # <<>>
    <3>1. Len(loads) # 0
      BY <1>t
    <3>2. QED BY <2>6, <3>1
  <2>9. missed' \in BOOLEAN
    BY <1>t, <2>1
  <2>10. Alone'
    <3> SUFFICES ASSUME NEW j \in DOMAIN loads', loads'[j].alone
                 PROVE  /\ Len(loads') = 1 /\ older' = NoOlder /\ more'
                        /\ panel' /\ active' # Nowhere =>
                              /\ loads'[j].conv = active'
                              /\ loads'[j].state = "answered" =>
                                    \/ loads'[j].got = revs'[active'] \/ missed'
                                    \/ \E k \in Kinds : told'[active'][k] > 0
      BY DEF Alone
    <3>1. PICK k \in DOMAIN loads : loads[k].alone
      BY <2>4, <2>7
    <3>2. Len(loads) = 1 /\ older = NoOlder /\ more /\ k = i
      BY <1>i, <1>t, <3>1 DEF Alone
    <3>3. loads[i].alone /\ loads'[j] = r
      BY <1>t, <2>7, <3>1, <3>2
    <3>4. panel /\ active # Nowhere => loads[i].conv = active
      BY <1>i, <3>3 DEF Alone
    <3>5. QED BY <2>1, <2>4, <2>6, <3>2, <3>3, <3>4
  <2>11. Untangled'
    BY <1>i, <2>1, <2>4, <2>7, <2>8 DEF Untangled
  <2>12. ListHasACause'
    <3> SUFFICES ASSUME panel', active' # Nowhere,
                        ~(list'.conv = active' /\ list'.at = revs'[active'])
                 PROVE  \/ \E k \in Kinds : told'[active'][k] > 0
                        \/ missed' \/ tangled'
                        \/ \E j \in DOMAIN loads' :
                              loads'[j].conv = active'
                              /\ (loads'[j].state = "asked" \/ loads'[j].got = revs'[active'])
      BY DEF ListHasACause
    <3>1. CASE loads[i].conv = active
      BY <2>1, <2>4, <2>7, <3>1
    <3>2. CASE loads[i].conv # active
      <4>1. \/ \E k \in Kinds : told[active][k] > 0
            \/ missed \/ tangled
            \/ \E k \in DOMAIN loads :
                  loads[k].conv = active
                  /\ (loads[k].state = "asked" \/ loads[k].got = revs[active])
        BY <1>i, <2>1 DEF ListHasACause
      <4>2. CASE \E k \in DOMAIN loads :
                    loads[k].conv = active
                    /\ (loads[k].state = "asked" \/ loads[k].got = revs[active])
        <5>1. PICK k \in DOMAIN loads :
                    loads[k].conv = active
                    /\ (loads[k].state = "asked" \/ loads[k].got = revs[active])
          BY <4>2
        <5>2. PICK j \in DOMAIN loads' : loads'[j] = loads[k]
          BY <2>7, <3>2, <5>1
        <5>3. QED BY <2>1, <5>1, <5>2
      <4>3. missed => missed'
        BY <2>1, <3>2
      <4>4. QED BY <2>1, <4>1, <4>2, <4>3
    <3>3. QED BY <3>1, <3>2
  <2>13. HistoryIsReachable'
    BY <2>8 DEF HistoryIsReachable
  <2>14. ToldOfWhatHappened'
    BY <1>w, <2>1
  <2>15. QED BY <1>m, <1>t, <2>1, <2>6, <2>9, <2>10, <2>11, <2>12, <2>13, <2>14, WidgetParts
<1>2. ASSUME NEW i \in DOMAIN loads, LoadShown(i) PROVE WidgetInv'
  <2> DEFINE l == [NoList EXCEPT !.conv = loads[i].conv, !.at = loads[i].got]
  <2>1. /\ loads[i].state = "answered" /\ list' = l
        /\ more' = (more /\ loads[i].conv \in Long) /\ tangled' = (tangled /\ ~loads[i].alone)
        /\ loads' = RemoveAt(loads, i) /\ Nobodys
        /\ UNCHANGED <<revs, streaming, reopened, told, panel, active, older, sending, missed>>
    BY <1>2 DEF LoadShown, streamV, chatShows
  <2>2. loads[i] \in LoadRows
    BY <1>t
  <2>3. /\ loads[i].conv \in Convs /\ loads[i].conv # Nowhere /\ loads[i].got \in 0..MaxRevs
        /\ loads[i].alone \in BOOLEAN
    BY <1>t, <2>2 DEF LoadRows
  <2>4. /\ l \in Lists /\ l.conv = loads[i].conv /\ l.at = loads[i].got /\ ~l.older /\ ~l.torn
    BY <2>3 DEF Lists, NoList
  <2> HIDE DEF l
  <2>5. /\ loads' \in Seq(LoadRows) /\ Len(loads') = Len(loads) - 1
        /\ \A j \in DOMAIN loads' : \E k \in DOMAIN loads : k # i /\ loads'[j] = loads[k]
        /\ \A k \in DOMAIN loads : k # i => \E j \in DOMAIN loads' : loads'[j] = loads[k]
    <3>1. loads \in Seq(LoadRows)
      BY <1>t
    <3>2. loads' = RemoveAt(loads, i)
      BY <2>1
    <3>3. QED BY <3>1, <3>2, OthersStay
  <2>6. more' \in BOOLEAN /\ tangled' \in BOOLEAN /\ Len(loads') <= MaxLoads
    BY <1>t, <2>1, <2>5
  <2>7. CASE loads[i].alone
    <3>1. /\ Len(loads) = 1 /\ older = NoOlder /\ more
          /\ panel /\ active # Nowhere =>
                loads[i].conv = active /\ (loads[i].got = revs[active] \/ Owed)
      BY <1>i, <2>1, <2>7 DEF Alone, Owed
    <3>2. loads' = <<>> /\ DOMAIN loads' = {}
      <4>1. Len(loads') = 0
        BY <2>5, <3>1
      <4>2. QED BY <2>5, <4>1, EmptySeq
    <3>3. Alone' /\ Untangled'
      BY <2>1, <2>3, <2>4, <3>1, <3>2 DEF Alone, Untangled
    <3>4. ListHasACause'
      BY <2>1, <2>4, <3>1 DEF ListHasACause, Owed
    <3>5. HistoryIsReachable'
      BY <2>1, <2>4, <3>1 DEF HistoryIsReachable
    <3>6. ToldOfWhatHappened'
      BY <1>w, <2>1
    <3>7. QED BY <1>m, <1>t, <2>1, <2>4, <2>5, <2>6, <3>3, <3>4, <3>5, <3>6, WidgetParts
  \* It was asked for with others, and so were they: the list stays as it may be.
  <2>8. CASE ~loads[i].alone
    <3>1. tangled /\ tangled'
      BY <1>i, <2>1, <2>8 DEF Untangled
    <3>2. Alone'
      <4>1. \A j \in DOMAIN loads' : ~loads'[j].alone
        <5>1. ASSUME NEW k \in DOMAIN loads, loads[k].alone, k # i PROVE FALSE
          <6>1. Len(loads) = 1
            BY <1>i, <5>1 DEF Alone
          <6>2. QED BY <1>t, <5>1, <6>1
        <5>2. QED BY <2>5, <5>1
      <4>2. QED BY <4>1 DEF Alone
    <3>3. Untangled' /\ ListHasACause' /\ HistoryIsReachable'
      BY <3>1 DEF Untangled, ListHasACause, HistoryIsReachable
    <3>4. ToldOfWhatHappened'
      BY <1>w, <2>1
    <3>5. QED BY <1>m, <1>t, <2>1, <2>4, <2>5, <2>6, <3>2, <3>3, <3>4, WidgetParts
  <2>9. QED BY <2>7, <2>8
<1>3. ASSUME NEW i \in DOMAIN loads, LoadFails(i) PROVE WidgetInv'
  <2>1. /\ Mishap /\ list' = NoList /\ missed' = TRUE /\ loads' = RemoveAt(loads, i)
        /\ UNCHANGED <<revs, streaming, reopened, told, panel, active, more, older, tangled,
                       sending, moves>>
    BY <1>3 DEF LoadFails, streamV, chatShows
  <2>2. /\ loads' \in Seq(LoadRows) /\ Len(loads') = Len(loads) - 1
        /\ \A j \in DOMAIN loads' : \E k \in DOMAIN loads : k # i /\ loads'[j] = loads[k]
    <3>1. loads \in Seq(LoadRows)
      BY <1>t
    <3>2. loads' = RemoveAt(loads, i)
      BY <2>1
    <3>3. QED BY <3>1, <3>2, OthersStay
  <2>3. Len(loads') <= MaxLoads /\ MaxLoads \in Nat
    BY <1>t, <2>2
  <2>4. Alone'
    <3>1. \A j \in DOMAIN loads' : ~loads'[j].alone
      <4>1. ASSUME NEW k \in DOMAIN loads, loads[k].alone, k # i PROVE FALSE
        <5>1. Len(loads) = 1
          BY <1>i, <4>1 DEF Alone
        <5>2. QED BY <1>t, <4>1, <5>1
      <4>2. QED BY <2>2, <4>1
    <3>2. QED BY <3>1 DEF Alone
  <2>5. Untangled'
    <3>1. loads # <<>>
      BY <1>t
    <3>2. ASSUME ~tangled PROVE older = NoOlder /\ \A j \in DOMAIN loads' : loads'[j].alone
      BY <1>i, <2>2, <3>1, <3>2 DEF Untangled
    <3>3. QED BY <1>t, <2>1, <3>2 DEF Untangled
  <2>6. ListHasACause' /\ HistoryIsReachable'
    BY <1>t, <2>1 DEF ListHasACause, HistoryIsReachable
  <2>7. ToldOfWhatHappened'
    BY <1>w, <2>1
  <2>8. QED BY <1>m, <1>t, <2>1, <2>2, <2>3, <2>4, <2>5, <2>6, <2>7, WidgetParts
<1>4. CASE AskOlder
  <2> DEFINE o    == [conv |-> active, base |-> list]
             loud == [i \in DOMAIN loads |-> [loads[i] EXCEPT !.alone = FALSE]]
  <2>1. /\ panel /\ active # Nowhere /\ more /\ list # NoList /\ older = NoOlder
        /\ older' = o /\ loads' = loud /\ tangled' = (tangled \/ loads # <<>>)
        /\ Move
        /\ UNCHANGED <<revs, streaming, reopened, told, panel, active, list, more, sending, missed>>
    BY <1>4 DEF AskOlder, streamV, chatShows
  <2>2. o \in [conv : Convs, base : Lists] /\ o.conv = active /\ o.base = list
    BY <1>t, <2>1
  <2>3. ASSUME NEW i \in 1..Len(loads)
        PROVE  /\ [loads[i] EXCEPT !.alone = FALSE] \in LoadRows
               /\ [loads[i] EXCEPT !.alone = FALSE].conv = loads[i].conv
               /\ [loads[i] EXCEPT !.alone = FALSE].state = loads[i].state
               /\ [loads[i] EXCEPT !.alone = FALSE].got = loads[i].got
               /\ ~[loads[i] EXCEPT !.alone = FALSE].alone
    <3>1. loads[i] \in LoadRows
      BY <1>t
    <3>2. QED BY <3>1 DEF LoadRows
  <2>4. loud \in [1..Len(loads) -> LoadRows]
    BY <1>t, <2>3
  <2>5. loud \in Seq(LoadRows) /\ Len(loud) = Len(loads) /\ DOMAIN loud = DOMAIN loads
    BY <1>t, <2>4
  <2>6. \A i \in DOMAIN loads : /\ loud[i].conv = loads[i].conv /\ loud[i].state = loads[i].state
                                /\ loud[i].got = loads[i].got /\ ~loud[i].alone
    BY <1>t, <2>3
  <2> HIDE DEF o, loud
  <2>7. tangled' \in BOOLEAN
    BY <1>t, <2>1
  <2>8. Alone'
    BY <2>1, <2>5, <2>6 DEF Alone
  <2>9. Untangled'
    <3>1. SUFFICES ASSUME ~tangled' PROVE
             /\ \A i \in DOMAIN loads' : loads'[i].alone
             /\ list'.conv = Nowhere => list' = NoList
             /\ loads' = <<>> /\ panel' /\ active' # Nowhere => list'.conv \in {Nowhere, active'}
             /\ older' # NoOlder => /\ loads' = <<>> /\ older'.base = list'
                                    /\ older'.conv = list'.conv
                                    /\ list'.conv \in Long /\ ~list'.older
      BY DEF Untangled
    <3>2. ~tangled /\ loads = <<>> /\ loads' = <<>> /\ DOMAIN loads' = {}
      <4>1. ~tangled /\ loads = <<>>
        BY <2>1, <3>1
      <4>2. Len(loads) = 0
        BY <4>1
      <4>3. Len(loads') = 0
        BY <2>1, <2>5, <4>2
      <4>4. QED BY <2>1, <2>5, <4>1, <4>3, EmptySeq
    <3>3. list.conv = active
      BY <1>i, <2>1, <3>2 DEF Untangled
    <3>4. list.conv \in Long /\ ~list.older
      BY <1>i, <2>1, <3>2, <3>3 DEF HistoryIsReachable
    <3>5. QED BY <1>i, <2>1, <2>2, <3>2, <3>3, <3>4 DEF Untangled
  <2>10. ListHasACause'
    <3>1. ListHasACause /\ (tangled => tangled')
      BY <1>i, <2>1
    <3>2. QED BY <2>1, <2>5, <2>6, <3>1 DEF ListHasACause
  <2>11. HistoryIsReachable'
    <3>1. loads' = <<>> /\ ~tangled' => loads = <<>> /\ ~tangled
      BY <2>1
    <3>2. QED BY <1>i, <2>1, <3>1 DEF HistoryIsReachable
  <2>12. ToldOfWhatHappened'
    BY <1>w, <2>1
  <2>13. QED BY <1>m, <1>t, <2>1, <2>2, <2>5, <2>7, <2>8, <2>9, <2>10, <2>11, <2>12, WidgetParts
<1>5. CASE OlderShown
  <2>1. /\ older # NoOlder /\ older' = NoOlder /\ Nobodys
        /\ UNCHANGED <<revs, streaming, reopened, told, panel, active, loads, tangled, sending,
                       missed>>
    BY <1>5 DEF OlderShown, streamV, chatShows
  <2>2. PICK brings \in Brings(older), full \in BOOLEAN :
          /\ full => brings /\ older.base.conv # older.conv
          /\ list' = IF brings THEN Prepended(older) ELSE list
          /\ more' = (more /\ full)
    BY <1>5 DEF OlderShown
  <2>3. /\ Prepended(older) \in Lists /\ Prepended(older).conv = list.conv
        /\ Prepended(older).at = list.at /\ Prepended(older).older
        /\ Prepended(older).torn = (list.torn \/ list.conv # older.conv
                                       \/ list.conv # older.base.conv \/ list.at # older.base.at)
    BY <1>t DEF Prepended, Lists
  <2>4. list' \in Lists /\ list'.conv = list.conv /\ list'.at = list.at
    BY <1>t, <2>2, <2>3
  <2>5. more' \in BOOLEAN
    BY <1>t, <2>2
  <2>6. \A i \in DOMAIN loads : ~loads[i].alone
    BY <1>i, <2>1 DEF Alone
  <2>7. Alone'
    BY <2>1, <2>6 DEF Alone
  \* The page asked for is that which comes before the list, and there is no other.
  <2>8. ASSUME ~tangled
        PROVE  /\ list'.older /\ list'.torn = list.torn /\ ~more'
               /\ loads = <<>> /\ list.conv \in Long
    <3>1. /\ loads = <<>> /\ older.base = list /\ older.conv = list.conv
          /\ list.conv \in Long /\ ~list.older
      BY <1>i, <2>1, <2>8 DEF Untangled
    <3>2. brings = TRUE
      <4>1. brings = (older.conv \in Long /\ ~older.base.older)
        BY <3>1, <2>2 DEF Brings
      <4>2. QED BY <3>1, <4>1
    <3>3. list' = Prepended(older) /\ full = FALSE
      BY <2>2, <3>1, <3>2
    <3>4. list.torn \in BOOLEAN
      BY <1>t DEF Lists
    <3>5. QED BY <2>2, <2>3, <3>1, <3>3, <3>4
  <2>9. Untangled'
    BY <1>i, <1>t, <2>1, <2>4, <2>8 DEF Untangled
  <2>10. ListHasACause'
    BY <1>i, <2>1, <2>4 DEF ListHasACause
  <2>11. HistoryIsReachable'
    BY <1>i, <2>1, <2>4, <2>8 DEF HistoryIsReachable
  <2>12. ToldOfWhatHappened'
    BY <1>w, <2>1
  <2>13. QED BY <1>m, <1>t, <2>1, <2>4, <2>5, <2>7, <2>9, <2>10, <2>11, <2>12, WidgetParts
<1>6. CASE OlderFails
  <2>1. /\ older # NoOlder /\ older' = NoOlder /\ Mishap
        /\ UNCHANGED <<revs, streaming, reopened, told, panel, active, list, more, loads, tangled,
                       sending, moves, missed>>
    BY <1>6 DEF OlderFails, streamV, chatShows
  <2>2. Alone' /\ Untangled' /\ ListHasACause' /\ HistoryIsReachable'
    BY <1>i, <2>1 DEF Alone, Untangled, ListHasACause, HistoryIsReachable
  <2>3. ToldOfWhatHappened'
    BY <1>w, <2>1
  <2>4. QED BY <1>m, <1>t, <2>1, <2>2, <2>3, WidgetParts
<1>7. ASSUME NEW c \in Convs, NEW kind \in Kinds, revs[c] < MaxRevs, Happens(c, kind), Nobodys,
             UNCHANGED <<streaming, reopened, panel, active, listVars>>, sending' \in Sendings,
             sending'.conv = Nowhere <=> sending'.stage \in {"idle", "over"}
      PROVE  WidgetInv'
  <2>1. /\ revs' \in [Convs -> 0..MaxRevs] /\ told' \in [Convs -> [Kinds -> 0..MaxRevs]]
        /\ missed' \in BOOLEAN /\ ToldOfWhatHappened'
        /\ \A d \in Convs : d # c => revs'[d] = revs[d] /\ told'[d] = told[d]
        /\ missed => missed'
        /\ missed' \/ \E k \in Kinds : told'[c][k] > 0
    BY <1>7, HappensOnce
  <2>2. ASSUME active' # Nowhere PROVE Owed' \/ (~Owed /\ revs'[active] = revs[active])
    <3>1. active \in Convs
      BY <1>7, <1>t, <2>2
    <3>2. CASE active = c
      BY <1>7, <2>1, <3>2 DEF Owed
    <3>3. CASE active # c
      <4>1. revs'[active] = revs[active] /\ told'[active] = told[active]
        BY <2>1, <3>1, <3>3
      <4>2. Owed => Owed'
        BY <1>7, <2>1, <4>1 DEF Owed
      <4>3. QED BY <4>1, <4>2
    <3>4. QED BY <3>2, <3>3
  <2>3. panel' /\ active' # Nowhere =>
           panel /\ active' = active /\ (Owed' \/ (~Owed /\ revs'[active] = revs[active]))
    BY <1>7, <2>2
  <2>4. QED BY <1>7, <1>a, <1>m, <1>t, <2>1, <2>3
<1>8. ASSUME NEW c \in Convs, NEW kind \in Kinds, Somebody(c, kind) PROVE WidgetInv'
  <2>1. /\ revs[c] < MaxRevs /\ Happens(c, kind) /\ Nobodys
        /\ UNCHANGED <<streaming, reopened, panel, active, listVars, sending>>
    BY <1>8 DEF Somebody, chatShows
  <2>2. QED BY <1>7, <1>t, <2>1
<1>9. ASSUME NEW c \in Convs, NEW kind \in Kinds, HearsOf(c, kind) PROVE WidgetInv'
  <2>1. /\ told[c][kind] > 0 /\ told' = [told EXCEPT ![c][kind] = @ - 1] /\ Nobodys
        /\ UNCHANGED <<revs, streaming, reopened, panel, active, sending, missed>>
    BY <1>9 DEF HearsOf, chatShows
  <2>2. /\ told' \in [Convs -> [Kinds -> 0..MaxRevs]] /\ ToldOfWhatHappened'
        /\ \A d \in Convs : d # c => told'[d] = told[d]
    BY <2>1, HeardOnce
  <2>3. CASE Reloads(c, kind)
    <3>1. Load(c, active') /\ c = active'
      BY <1>9, <2>1, <2>3 DEF HearsOf, Reloads
    <3>2. QED BY <1>b, <1>m, <1>t, <2>1, <2>2, <3>1
  <2>4. CASE ~Reloads(c, kind)
    <3>1. UNCHANGED listVars /\ (c = active => ~panel)
      BY <1>9, <2>4 DEF HearsOf, Reloads
    <3>2. ASSUME panel', active' # Nowhere PROVE Owed' \/ (~Owed /\ revs'[active] = revs[active])
      <4>1. active \in Convs /\ active # c
        BY <1>t, <2>1, <3>1, <3>2
      <4>2. told'[active] = told[active]
        BY <2>2, <4>1
      <4>3. QED BY <2>1, <4>2 DEF Owed
    <3>3. QED BY <1>a, <1>m, <1>t, <2>1, <2>2, <3>1, <3>2
  <2>5. QED BY <2>3, <2>4
<1>10. CASE ConnectionDrops \/ PageShown
  <2>1. /\ Deaf /\ Nobodys /\ reopened' \in BOOLEAN
        /\ UNCHANGED <<revs, panel, active, listVars, sending>>
    BY <1>10, <1>t DEF ConnectionDrops, PageShown, chatShows
  <2>2. /\ streaming' = FALSE /\ told' \in [Convs -> [Kinds -> 0..MaxRevs]]
        /\ ToldOfWhatHappened' /\ missed' \in BOOLEAN
        /\ active \in Convs => (Owed => missed')
        /\ missed => missed'
    BY <2>1, DeafHearsNothing
  <2>3. panel' /\ active' # Nowhere =>
           panel /\ active' = active /\ (Owed' \/ (~Owed /\ revs'[active] = revs[active]))
    BY <1>t, <2>1, <2>2 DEF Owed
  <2>4. QED BY <1>a, <1>m, <1>t, <2>1, <2>2, <2>3
\* The user moves, or a stream comes, and the newest page is asked for or is not.
<1>11. ASSUME UNCHANGED <<revs, told, missed, sending, reopened>>, streaming' \in BOOLEAN,
              panel' \in BOOLEAN, active' \in Convs \union {Nowhere},
              mishaps' \in 0..MaxMishaps, moves' \in 0..MaxMoves,
              \/ active' # Nowhere /\ Load(active', active')
              \/ UNCHANGED listVars /\ (panel' /\ active' # Nowhere => panel /\ active' = active)
       PROVE  WidgetInv'
  <2>1. ToldOfWhatHappened'
    BY <1>w, <1>11
  <2>2. CASE active' # Nowhere /\ Load(active', active')
    <3>1. active' \in Convs
      BY <1>11, <2>2
    <3>2. PICK c \in Convs : c = active'
      BY <3>1
    <3>3. Load(c, active')
      BY <2>2, <3>2
    <3>4. QED BY <1>b, <1>t, <1>11, <2>1, <3>2, <3>3
  <2>3. CASE UNCHANGED listVars /\ (panel' /\ active' # Nowhere => panel /\ active' = active)
    <3>1. panel' /\ active' # Nowhere => Owed' = Owed
      BY <1>11, <2>3 DEF Owed
    <3>2. QED BY <1>a, <1>t, <1>11, <2>1, <2>3, <3>1
  <2>4. QED BY <1>11, <2>2, <2>3
<1>12. CASE StreamUp
  <2>1. /\ streaming' = TRUE /\ Nobodys /\ UNCHANGED <<revs, reopened, told, panel, active,
                                                       sending, missed>>
        /\ (UNCHANGED listVars \/ (active # Nowhere /\ Load(active, active)))
    BY <1>12 DEF StreamUp, OnReopen, chatShows
  <2>2. \/ active' # Nowhere /\ Load(active', active')
        \/ UNCHANGED listVars /\ (panel' /\ active' # Nowhere => panel /\ active' = active)
    <3>1. active' = active /\ panel' = panel
      BY <2>1
    <3>2. QED BY <2>1, <3>1
  <2>3. QED BY <1>11, <1>m, <1>t, <2>1, <2>2
<1>13. ASSUME NEW c, NEW shown, c = active', shown = panel', ShowNow(c, shown)
       PROVE  \/ active' # Nowhere /\ Load(active', active')
              \/ UNCHANGED listVars /\ (panel' /\ active' # Nowhere => panel /\ active' = active)
  <2>1. CASE shown /\ c # Nowhere /\ (~panel \/ c # active)
    <3>1. Load(c, c)
      BY <1>13, <2>1 DEF ShowNow
    <3>2. QED BY <1>13, <2>1, <3>1
  <2>2. CASE ~(shown /\ c # Nowhere /\ (~panel \/ c # active))
    <3>1. UNCHANGED listVars
      BY <1>13, <2>2 DEF ShowNow
    <3>2. QED BY <1>13, <2>2, <3>1
  <2>3. QED BY <2>1, <2>2
<1>14. CASE OpenPanel
  <2>1. /\ panel' = TRUE /\ active' = active /\ ShowNow(active, TRUE) /\ Move
        /\ UNCHANGED <<revs, streaming, reopened, told, sending, missed>>
    BY <1>14 DEF OpenPanel, streamV
  <2>2. \/ active' # Nowhere /\ Load(active', active')
        \/ UNCHANGED listVars /\ (panel' /\ active' # Nowhere => panel /\ active' = active)
    BY <1>13, <2>1
  <2>3. QED BY <1>11, <1>m, <1>t, <2>1, <2>2
<1>15. ASSUME NEW c \in {active, Nowhere}, ShutPanel(c) PROVE WidgetInv'
  <2>1. /\ panel' = FALSE /\ active' = c /\ Move
        /\ UNCHANGED <<revs, streaming, reopened, told, listVars, sending, missed>>
    BY <1>15 DEF ShutPanel, streamV
  <2>2. QED BY <1>11, <1>15, <1>m, <1>t, <2>1
<1>16. ASSUME NEW c \in Convs, Select(c) PROVE WidgetInv'
  <2>1. /\ panel' = TRUE /\ active' = c /\ ShowNow(c, TRUE) /\ Move
        /\ UNCHANGED <<revs, streaming, reopened, told, sending, missed>>
    BY <1>16 DEF Select, streamV
  <2>2. \/ active' # Nowhere /\ Load(active', active')
        \/ UNCHANGED listVars /\ (panel' /\ active' # Nowhere => panel /\ active' = active)
    BY <1>13, <2>1
  <2>3. QED BY <1>11, <1>m, <1>t, <2>1, <2>2
<1>17. ASSUME NEW c \in Convs, Jump(c) PROVE WidgetInv'
  <2>1. /\ active' = c /\ panel' = panel /\ ShowNow(c, panel) /\ Move
        /\ UNCHANGED <<revs, streaming, reopened, told, sending, missed>>
    BY <1>17 DEF Jump, streamV
  <2>2. \/ active' # Nowhere /\ Load(active', active')
        \/ UNCHANGED listVars /\ (panel' /\ active' # Nowhere => panel /\ active' = active)
    BY <1>13, <2>1
  <2>3. QED BY <1>11, <1>m, <1>t, <2>1, <2>2
\* A message is sent, and nothing else changes.
<1>18. ASSUME UNCHANGED <<revs, streaming, reopened, told, panel, active, listVars, missed>>,
              sending' \in Sendings,
              sending'.conv = Nowhere <=> sending'.stage \in {"idle", "over"},
              mishaps' \in 0..MaxMishaps, moves' \in 0..MaxMoves
       PROVE  WidgetInv'
  <2>1. ToldOfWhatHappened'
    BY <1>w, <1>18
  <2>2. Owed' = Owed
    BY <1>18 DEF Owed
  <2>3. QED BY <1>a, <1>t, <1>18, <2>1, <2>2
<1>19. CASE SendMessage
  <2>1. /\ active # Nowhere /\ sending' = [conv |-> active, stage |-> "sent"] /\ Move
        /\ UNCHANGED <<revs, streaming, reopened, told, panel, active, listVars, missed>>
    BY <1>19 DEF SendMessage, streamV, chatShows
  <2>2. sending' \in Sendings /\ sending'.conv = active /\ sending'.stage = "sent"
    BY <1>t, <2>1 DEF Sendings
  <2>3. QED BY <1>18, <1>m, <2>1, <2>2
<1>20. CASE SendArrives
  <2>1. /\ sending.stage = "sent" /\ revs[sending.conv] < MaxRevs
        /\ sending' = [sending EXCEPT !.stage = "written"] /\ Happens(sending.conv, "new")
           /\ Nobodys
        /\ UNCHANGED <<streaming, reopened, panel, active, listVars>>
    BY <1>20 DEF SendArrives, chatShows
  <2>2. sending.conv \in Convs
    BY <1>t, <2>1 DEF Sendings
  <2>3. sending' \in Sendings /\ sending'.conv = sending.conv /\ sending'.stage = "written"
    BY <1>t, <2>1 DEF Sendings
  <2>4. "new" \in Kinds /\ sending'.conv # Nowhere
    BY <1>t, <2>2, <2>3
  <2>5. QED BY <1>7, <2>1, <2>2, <2>3, <2>4
<1>21. ASSUME sending' = [conv |-> Nowhere, stage |-> "over"]
       PROVE  /\ sending' \in Sendings
              /\ sending'.conv = Nowhere <=> sending'.stage \in {"idle", "over"}
  BY <1>21 DEF Sendings
<1>22. CASE SendAnswered
  <2>1. /\ sending.stage = "written" /\ sending' = [conv |-> Nowhere, stage |-> "over"]
        /\ Load(sending.conv, active) /\ Nobodys
        /\ UNCHANGED <<revs, streaming, reopened, told, panel, active, missed>>
    BY <1>22 DEF SendAnswered, streamV, chatShows
  <2>2. PICK c \in Convs : c = sending.conv
    BY <1>t, <2>1 DEF Sendings
  <2>3. Load(c, active') /\ Owed' = Owed
    BY <2>1, <2>2 DEF Owed
  <2>4. ToldOfWhatHappened'
    BY <1>w, <2>1
  <2>5. QED BY <1>b, <1>m, <1>t, <1>21, <2>1, <2>3, <2>4
<1>23. CASE SendFails
  <2>1. /\ sending' = [conv |-> Nowhere, stage |-> "over"] /\ Mishap
        /\ UNCHANGED <<revs, streaming, reopened, told, panel, active, listVars, moves, missed>>
    BY <1>23 DEF SendFails, streamV, chatShows
  <2>2. QED BY <1>18, <1>21, <1>m, <1>t, <2>1
<1>24. CASE UNCHANGED widgetVars
  <2>1. UNCHANGED <<revs, streaming, reopened, told, panel, active, listVars, missed, sending,
                    mishaps, moves>>
    BY <1>24 DEF widgetVars, streamV, chatShows
  <2>2. QED BY <1>18, <1>t, <2>1
<1>25. QED
  BY <1>1, <1>2, <1>3, <1>4, <1>5, <1>6, <1>8, <1>9, <1>10, <1>12, <1>14, <1>15, <1>16, <1>17,
     <1>19, <1>20, <1>22, <1>23, <1>24 DEF WidgetNext

\* loadMessages, the stream and the sends of the widget: what the panel shows is the
\* conversation as it is, or is about to be, unless an event or an answer was lost or
\* requests overlapped.
THEOREM ListIsExplained == WidgetSpec => []ListHasACause
<1>1. WidgetInv => ListHasACause
  BY DEF WidgetInv
<1>2. QED BY <1>1, WidgetStarts, WidgetStays, PTL DEF WidgetSpec

\* With no request for it under way, the list of a conversation has no gap, and offers
\* older messages just where there are some, unless requests overlapped.
THEOREM HistoryIsWhole == WidgetSpec => []HistoryIsReachable
<1>1. WidgetInv => HistoryIsReachable
  BY DEF WidgetInv
<1>2. QED BY <1>1, WidgetStarts, WidgetStays, PTL DEF WidgetSpec

-----------------------------------------------------------------------------
(* The calls of the widget *)

\* A request about a call, as it waits.
Asks == [what : {"accept", "join", "decline", "start", "hangUp"},
         call : AllCalls, stage : {"asked", "taken", "answered", "refused"}]
\* An event on the stream of the widget.
Letters == {"incoming", "ended"} \X AllCalls
\* The states of the row of a call.
CallStates == {"none", "ringing", "active", "over"}

\* What is on its way was true: a call that has rung is somebody else's, one that has
\* ended is over; and the end of a call comes after its ringing.
MailTells ==
    \A i \in DOMAIN mail :
       LET c == mail[i][2]
       IN /\ row[c] # "none"
          /\ mail[i][1] = "ended" => row[c] = "over"
          /\ mail[i][1] = "incoming" =>
                /\ c \in Rung
                /\ row[c] = "over" /\ c \notin unheardEnds =>
                      \E j \in DOMAIN mail : j > i /\ mail[j] = <<"ended", c>>

\* How far a request has come shows in the row of its call.
AsksTell ==
    \A a \in asks :
       /\ a.what = "start" => a.call \in Placed
       /\ row[a.call] = "none" <=> a.what = "start" /\ a.stage = "asked"
       /\ a.what \in {"accept", "join"} /\ a.stage \in {"taken", "answered"} =>
             row[a.call] \in {"active", "over"}
       /\ a.what \in {"decline", "hangUp"} /\ a.stage # "asked" => row[a.call] = "over"

\* The screens show calls there are, and calls answered here are not ringing.
ScreensTell ==
    /\ \A c \in AllCalls : c \in {activeCall, incomingCall} => row[c] # "none"
    /\ \A c \in answered : row[c] \in {"active", "over"}

\* A call that an answer will show is on the screen as far as its end is concerned.
EndsReach ==
    \A c \in AllCalls \ unheardEnds :
       row[c] = "over" /\ (c \in {activeCall, incomingCall}
                           \/ \E a \in asks : a.call = c /\ a.what \in Shows) =>
          Posted("ended", c)

\* What keeps a call in sight that is not on the screen is an answer that will show it.
InSight ==
    \A c \in AllCalls \ outOfSight :
       /\ row[c] = "ringing" /\ c \in Rung => incomingCall = c \/ Posted("incoming", c)
       /\ row[c] \in {"ringing", "active"} /\ c \in Placed \union answered /\ activeCall # c =>
             \E a \in asks : a.call = c /\ a.what \in Shows /\ a.stage \in {"taken", "answered"}

\* What is kept of the calls of the widget: what is shown and asked matches the rows, or
\* an event that tells is on its way.
CallsInv == CallsTypeOK /\ MailTells /\ AsksTell /\ ScreensTell /\ EndsReach /\ InSight

\* No call is there.
LEMMA CallsStart == CallsInit => CallsInv
<1> SUFFICES ASSUME CallsInit PROVE CallsInv
  OBVIOUS
<1>1. /\ mail = <<>> /\ callStream = TRUE /\ ending = FALSE /\ slips = 0
      /\ incomingCall = NoCall /\ activeCall = NoCall /\ answered = {} /\ unheardEnds = {}
      /\ outOfSight = {c \in AllCalls : row[c] # "none"}
  BY DEF CallsInit
<1>2. mail \in Seq(Letters) /\ DOMAIN mail = {}
  BY <1>1
<1>3. /\ row \in [AllCalls -> CallStates] /\ asks \subseteq Asks
      /\ \A c \in AllCalls : row[c] # "over"
      /\ \A a \in asks : row[a.call] # "none" /\ a.what = "join" /\ a.stage = "asked"
  <2>1. CASE row = [c \in AllCalls |-> "none"] /\ asks = {}
    BY <2>1 DEF CallStates
  <2>2. ASSUME NEW c \in Rung, NEW now \in {"ringing", "active"},
               row = [d \in AllCalls |-> IF d = c THEN now ELSE "none"],
               asks = {Request("join", c, "asked")}
        PROVE  /\ row \in [AllCalls -> CallStates] /\ asks \subseteq Asks
               /\ \A d \in AllCalls : row[d] # "over"
               /\ \A a \in asks : row[a.call] # "none" /\ a.what = "join" /\ a.stage = "asked"
    BY <2>2 DEF CallStates, Asks, Request, AllCalls
  <2>3. QED BY <2>1, <2>2 DEF CallsInit
<1>4. CallsTypeOK
  <2>1. {answered, unheardEnds, outOfSight} \subseteq SUBSET AllCalls
    BY <1>1
  <2>2. slips \in 0..MaxSlips
    BY <1>1, WidgetCallsAssumption
  <2>3. QED BY <1>1, <1>2, <1>3, <2>1, <2>2 DEF CallsTypeOK, CallStates, Letters, Asks
<1>5. NoCall \notin AllCalls
  BY WidgetCallsAssumption DEF AllCalls
<1>6. MailTells /\ AsksTell /\ ScreensTell /\ EndsReach /\ InSight
  BY <1>1, <1>2, <1>3, <1>5 DEF MailTells, AsksTell, ScreensTell, EndsReach, InSight
<1>7. QED BY <1>4, <1>6 DEF CallsInv

\* What the type of the state says, in the words of this module.
LEMMA CallTypes ==
    ASSUME CallsTypeOK
    PROVE  /\ row \in [AllCalls -> CallStates] /\ mail \in Seq(Letters) /\ Len(mail) \in Nat
           /\ DOMAIN mail = 1..Len(mail)
           /\ asks \subseteq Asks /\ \A a \in asks : a.call \in AllCalls
           /\ callStream \in BOOLEAN /\ ending \in BOOLEAN
           /\ answered \subseteq AllCalls /\ unheardEnds \subseteq AllCalls
           /\ outOfSight \subseteq AllCalls
           /\ incomingCall \in Rung \union {NoCall} /\ activeCall \in AllCalls \union {NoCall}
           /\ slips \in 0..MaxSlips /\ MaxSlips \in Nat /\ NoCall \notin AllCalls
           /\ Rung \subseteq AllCalls /\ Placed \subseteq AllCalls /\ Rung \cap Placed = {}
<1>1. mail \in Seq(Letters) /\ row \in [AllCalls -> CallStates] /\ asks \subseteq Asks
  BY DEF CallsTypeOK, Letters, CallStates, Asks
<1>2. \A a \in asks : a.call \in AllCalls
  BY <1>1 DEF Asks
<1>3. NoCall \notin AllCalls /\ MaxSlips \in Nat /\ Rung \subseteq AllCalls
      /\ Placed \subseteq AllCalls /\ Rung \cap Placed = {}
  BY WidgetCallsAssumption DEF AllCalls
<1>4. Len(mail) \in Nat /\ DOMAIN mail = 1..Len(mail)
  BY <1>1
<1>5. QED BY <1>1, <1>2, <1>3, <1>4 DEF CallsTypeOK

\* The mail when a letter has been added to it, or taken from it.
LEMMA MailGrows ==
    ASSUME mail \in Seq(Letters), NEW kind \in {"incoming", "ended"}, NEW c \in AllCalls,
           PostCall(kind, c)
    PROVE  /\ mail' \in Seq(Letters)
           /\ \A k, d : Posted(k, d) => Posted(k, d)'
           /\ callStream => Posted(kind, c)'
           /\ \A i \in DOMAIN mail : i \in DOMAIN mail' /\ mail'[i] = mail[i]
           /\ callStream => /\ Len(mail) + 1 \in DOMAIN mail' /\ mail'[Len(mail) + 1] = <<kind, c>>
                            /\ \A i \in DOMAIN mail : Len(mail) + 1 > i
           /\ \A i \in DOMAIN mail' :
                 i \in DOMAIN mail \/ (callStream /\ i = Len(mail) + 1)
<1>1. CASE ~callStream
  BY <1>1 DEF PostCall, Posted
<1>2. CASE callStream
  <2>1. mail' = Append(mail, <<kind, c>>) /\ <<kind, c>> \in Letters
    BY <1>2 DEF PostCall, Letters
  <2>2. /\ mail' \in Seq(Letters) /\ DOMAIN mail' = 1..(Len(mail) + 1)
        /\ DOMAIN mail = 1..Len(mail) /\ Len(mail) \in Nat
        /\ \A i \in 1..Len(mail) : mail'[i] = mail[i]
        /\ mail'[Len(mail) + 1] = <<kind, c>>
    BY <2>1
  <2>3. \A i \in DOMAIN mail : i \in DOMAIN mail' /\ mail'[i] = mail[i] /\ Len(mail) + 1 > i
    BY <2>2
  <2>4. /\ Len(mail) + 1 \in DOMAIN mail'
        /\ \A i \in DOMAIN mail' : i \in DOMAIN mail \/ i = Len(mail) + 1
    BY <2>2
  <2>5. \A k, d : Posted(k, d) => Posted(k, d)'
    BY <2>3 DEF Posted
  <2>6. Posted(kind, c)'
    BY <2>2, <2>4 DEF Posted
  <2>7. QED BY <1>2, <2>2, <2>3, <2>4, <2>5, <2>6
<1>3. QED BY <1>1, <1>2

\* Reading the first event takes it, and keeps the others in their order.
LEMMA MailShrinks ==
    ASSUME mail \in Seq(Letters), mail # <<>>, mail' = Tail(mail)
    PROVE  /\ mail' \in Seq(Letters)
           /\ Head(mail) \in Letters /\ 1 \in DOMAIN mail /\ mail[1] = Head(mail)
           /\ \A k, d : Posted(k, d) => Posted(k, d)' \/ Head(mail) = <<k, d>>
           /\ \A k, d : Posted(k, d)' => Posted(k, d)
           /\ \A i \in DOMAIN mail' : i + 1 \in DOMAIN mail /\ mail'[i] = mail[i + 1]
           /\ \A j \in DOMAIN mail : j > 1 => j - 1 \in DOMAIN mail' /\ mail'[j - 1] = mail[j]
<1>1. /\ mail' \in Seq(Letters) /\ DOMAIN mail' = 1..(Len(mail) - 1)
      /\ DOMAIN mail = 1..Len(mail) /\ Len(mail) \in Nat /\ Len(mail) > 0
      /\ \A i \in 1..(Len(mail) - 1) : mail'[i] = mail[i + 1]
      /\ Head(mail) = mail[1]
  BY EmptySeq
<1>2. Head(mail) \in Letters /\ 1 \in DOMAIN mail
  BY <1>1
<1>3. \A i \in DOMAIN mail' : i + 1 \in DOMAIN mail /\ mail'[i] = mail[i + 1]
  BY <1>1
<1>4. ASSUME NEW j \in DOMAIN mail, j > 1
      PROVE  j - 1 \in DOMAIN mail' /\ mail'[j - 1] = mail[j]
  <2>1. j - 1 \in 1..(Len(mail) - 1) /\ (j - 1) + 1 = j
    BY <1>1, <1>4
  <2>2. QED BY <1>1, <2>1
<1>5. ASSUME NEW k, NEW d, Posted(k, d), Head(mail) # <<k, d>> PROVE Posted(k, d)'
  <2>1. PICK j \in DOMAIN mail : mail[j] = <<k, d>>
    BY <1>5 DEF Posted
  <2>2. j # 1
    BY <1>1, <1>5, <2>1
  <2>3. j > 1
    BY <1>1, <2>2
  <2>4. QED BY <1>4, <2>1, <2>3 DEF Posted
<1>6. \A k, d : Posted(k, d)' => Posted(k, d)
  BY <1>3 DEF Posted
<1>7. QED BY <1>1, <1>2, <1>3, <1>4, <1>5, <1>6

\* A request that has come one step further.
LEMMA OneFurther ==
    ASSUME asks \subseteq Asks, NEW a \in asks,
           NEW stage \in {"asked", "taken", "answered", "refused"}, Became(a, stage)
    PROVE  \E b \in Asks :
              /\ b.what = a.what /\ b.call = a.call /\ b.stage = stage
              /\ b \in asks' /\ asks' \subseteq Asks
              /\ \A d \in asks' : d \in asks \/ d = b
              /\ \A d \in asks : d = a \/ d \in asks'
              /\ \A d \in asks' : d = a => a = b
<1> DEFINE b == [a EXCEPT !.stage = stage]
<1>1. b \in Asks /\ b.what = a.what /\ b.call = a.call /\ b.stage = stage
  <2>1. a \in Asks
    OBVIOUS
  <2>2. QED BY <2>1 DEF Asks
<1>2. asks' = (asks \ {a}) \union {b}
  BY DEF Became
<1> HIDE DEF b
<1>3. QED BY <1>1, <1>2

\* Nothing new is on its way, and the calls that are over are those that were.
LEMMA MailWaits ==
    ASSUME CallsTypeOK, MailTells, mail' = mail, unheardEnds' = unheardEnds,
           \A c \in AllCalls : row[c] # "none" => row'[c] # "none",
           \A c \in AllCalls : row[c] = "over" <=> row'[c] = "over"
    PROVE  MailTells'
<1>1. \A i \in DOMAIN mail : mail[i][2] \in AllCalls
  BY CallTypes DEF Letters
<1>2. QED BY <1>1 DEF MailTells

\* The events that remain still tell of the rows.
LEMMA MailIsRead ==
    ASSUME CallsTypeOK, MailTells, mail # <<>>, mail' = Tail(mail), row' = row,
           unheardEnds \subseteq unheardEnds'
    PROVE  MailTells'
<1>1. /\ \A i \in DOMAIN mail' : i + 1 \in DOMAIN mail /\ mail'[i] = mail[i + 1]
      /\ \A j \in DOMAIN mail : j > 1 => j - 1 \in DOMAIN mail' /\ mail'[j - 1] = mail[j]
      /\ mail' \in Seq(Letters) /\ DOMAIN mail = 1..Len(mail) /\ Len(mail) \in Nat
  BY CallTypes, MailShrinks
<1>2. ASSUME NEW i \in DOMAIN mail', mail'[i][1] = "incoming", row[mail'[i][2]] = "over",
             mail'[i][2] \notin unheardEnds'
      PROVE  \E j \in DOMAIN mail' : j > i /\ mail'[j] = <<"ended", mail'[i][2]>>
  <2>1. i + 1 \in DOMAIN mail /\ mail'[i] = mail[i + 1]
    BY <1>1
  <2>2. PICK j \in DOMAIN mail : j > i + 1 /\ mail[j] = <<"ended", mail[i + 1][2]>>
    BY <1>2, <2>1 DEF MailTells
  <2>3. i \in Nat /\ i >= 1 /\ j \in Nat
    BY <1>1
  <2>4. j > 1 /\ j - 1 > i
    BY <2>2, <2>3
  <2>5. QED BY <1>1, <2>1, <2>2, <2>4
<1>3. ASSUME NEW i \in DOMAIN mail'
      PROVE  /\ row[mail'[i][2]] # "none"
             /\ mail'[i][1] = "ended" => row[mail'[i][2]] = "over"
             /\ mail'[i][1] = "incoming" => mail'[i][2] \in Rung
  BY <1>1 DEF MailTells
<1>4. QED BY <1>2, <1>3 DEF MailTells

\* A call ends, at the other end or by a request of this one.
LEMMA EndIsPosted ==
    ASSUME CallsInv, NEW c \in AllCalls, row[c] # "none", Ends(c)
    PROVE  /\ row' \in [AllCalls -> CallStates] /\ row'[c] = "over"
           /\ \A d \in AllCalls : d # c => row'[d] = row[d]
           /\ mail' \in Seq(Letters) /\ unheardEnds' \subseteq AllCalls
           /\ outOfSight' = outOfSight \ {c}
           /\ MailTells'
           /\ c \notin unheardEnds' => Posted("ended", c)'
           /\ \A k, d : Posted(k, d) => Posted(k, d)'
           /\ unheardEnds \subseteq unheardEnds'
<1>1. CallsTypeOK /\ MailTells
  BY DEF CallsInv
<1>2. row \in [AllCalls -> CallStates] /\ mail \in Seq(Letters) /\ unheardEnds \subseteq AllCalls
  BY <1>1, CallTypes
<1>3. /\ row' = [row EXCEPT ![c] = "over"] /\ PostCall("ended", c)
      /\ unheardEnds' = (IF callStream THEN unheardEnds ELSE unheardEnds \union {c})
      /\ outOfSight' = outOfSight \ {c}
  BY DEF Ends
<1>4. /\ row' \in [AllCalls -> CallStates] /\ row'[c] = "over"
      /\ \A d \in AllCalls : d # c => row'[d] = row[d]
  BY <1>2, <1>3 DEF CallStates
<1>5. /\ mail' \in Seq(Letters)
      /\ \A k, d : Posted(k, d) => Posted(k, d)'
      /\ callStream => Posted("ended", c)'
      /\ \A i \in DOMAIN mail : i \in DOMAIN mail' /\ mail'[i] = mail[i]
      /\ callStream => /\ Len(mail) + 1 \in DOMAIN mail' /\ mail'[Len(mail) + 1] = <<"ended", c>>
                       /\ \A i \in DOMAIN mail : Len(mail) + 1 > i
      /\ \A i \in DOMAIN mail' :
            i \in DOMAIN mail \/ (callStream /\ i = Len(mail) + 1)
  BY <1>2, <1>3, MailGrows
<1>6. unheardEnds' \subseteq AllCalls /\ unheardEnds \subseteq unheardEnds'
      /\ (c \notin unheardEnds' => callStream)
  BY <1>2, <1>3
<1>7. MailTells'
  <2>1. ASSUME NEW i \in DOMAIN mail PROVE mail[i][2] \in AllCalls
    BY <1>2 DEF Letters
  <2>2. ASSUME NEW i \in DOMAIN mail', i \in DOMAIN mail
        PROVE  /\ row'[mail'[i][2]] # "none"
               /\ mail'[i][1] = "ended" => row'[mail'[i][2]] = "over"
               /\ mail'[i][1] = "incoming" => mail'[i][2] \in Rung
    BY <1>1, <1>4, <1>5, <2>1, <2>2 DEF MailTells
  <2>3. ASSUME NEW i \in DOMAIN mail', i \in DOMAIN mail, mail'[i][1] = "incoming",
               row'[mail'[i][2]] = "over", mail'[i][2] \notin unheardEnds'
        PROVE  \E j \in DOMAIN mail' : j > i /\ mail'[j] = <<"ended", mail'[i][2]>>
    <3>1. mail'[i] = mail[i] /\ mail[i][2] \in AllCalls /\ mail[i][2] \notin unheardEnds
      BY <1>5, <1>6, <2>1, <2>3
    <3>2. CASE mail[i][2] = c
      <4>1. callStream
        BY <1>6, <2>3, <3>1, <3>2
      <4>2. QED BY <1>5, <2>3, <3>1, <3>2, <4>1
    <3>3. CASE mail[i][2] # c
      <4>1. row[mail[i][2]] = "over"
        BY <1>4, <2>3, <3>1, <3>3
      <4>2. PICK j \in DOMAIN mail : j > i /\ mail[j] = <<"ended", mail[i][2]>>
        BY <1>1, <2>3, <3>1, <4>1 DEF MailTells
      <4>3. QED BY <1>5, <3>1, <4>2
    <3>4. QED BY <3>2, <3>3
  <2>4. ASSUME NEW i \in DOMAIN mail', i \notin DOMAIN mail
        PROVE  mail'[i][1] = "ended" /\ mail'[i][2] = c
    BY <1>5, <2>4
  <2>5. QED BY <1>4, <2>2, <2>3, <2>4 DEF MailTells
<1>8. QED BY <1>3, <1>4, <1>5, <1>6, <1>7

\* Each step of the widget, the server or the stream keeps it.
LEMMA CallsStay == CallsInv /\ [CallsNext]_callVars => CallsInv'
<1> SUFFICES ASSUME CallsInv, [CallsNext]_callVars PROVE CallsInv'
  OBVIOUS
<1>i. CallsTypeOK /\ MailTells /\ AsksTell /\ ScreensTell /\ EndsReach /\ InSight
  BY DEF CallsInv
<1>t. /\ row \in [AllCalls -> CallStates] /\ mail \in Seq(Letters)
      /\ asks \subseteq Asks /\ \A a \in asks : a.call \in AllCalls
      /\ callStream \in BOOLEAN /\ ending \in BOOLEAN
      /\ answered \subseteq AllCalls /\ unheardEnds \subseteq AllCalls
      /\ outOfSight \subseteq AllCalls
      /\ incomingCall \in Rung \union {NoCall} /\ activeCall \in AllCalls \union {NoCall}
      /\ slips \in 0..MaxSlips /\ MaxSlips \in Nat /\ NoCall \notin AllCalls
      /\ Rung \subseteq AllCalls /\ Placed \subseteq AllCalls /\ Rung \cap Placed = {}
      /\ (ending => activeCall # NoCall)
  BY <1>i, CallTypes DEF CallsTypeOK
<1>y. ASSUME row' \in [AllCalls -> CallStates], callStream' \in BOOLEAN, ending' \in BOOLEAN,
             mail' \in Seq(Letters), incomingCall' \in Rung \union {NoCall},
             activeCall' \in AllCalls \union {NoCall}, ending' => activeCall' # NoCall,
             asks' \subseteq Asks, slips' \in 0..MaxSlips, answered' \subseteq AllCalls,
             unheardEnds' \subseteq AllCalls, outOfSight' \subseteq AllCalls
      PROVE  CallsTypeOK'
  <2>1. {answered', unheardEnds', outOfSight'} \subseteq SUBSET AllCalls
    BY <1>y
  <2>2. QED BY <1>y, <2>1 DEF CallsTypeOK, CallStates, Letters, Asks
<1>q. ASSUME CallsTypeOK', MailTells', AsksTell', ScreensTell', EndsReach', InSight'
      PROVE  CallsInv'
  BY <1>q DEF CallsInv
<1>1. ASSUME NEW c \in Rung, Rings(c) PROVE CallsInv'
  <2>1. /\ row[c] = "none" /\ row' = [row EXCEPT ![c] = "ringing"] /\ PostCall("incoming", c)
        /\ outOfSight' = (IF callStream THEN outOfSight ELSE outOfSight \union {c})
        /\ UNCHANGED <<callStream, callScreens, asks, slips, answered, unheardEnds>>
        /\ c \in AllCalls /\ c \notin Placed
    BY <1>1, <1>t DEF Rings
  <2>2. /\ row' \in [AllCalls -> CallStates] /\ row'[c] = "ringing"
        /\ \A d \in AllCalls : d # c => row'[d] = row[d]
    BY <1>t, <2>1 DEF CallStates
  <2>3. /\ mail' \in Seq(Letters)
        /\ \A k, d : Posted(k, d) => Posted(k, d)'
        /\ callStream => Posted("incoming", c)'
        /\ \A i \in DOMAIN mail : i \in DOMAIN mail' /\ mail'[i] = mail[i]
        /\ callStream => /\ Len(mail) + 1 \in DOMAIN mail'
                         /\ mail'[Len(mail) + 1] = <<"incoming", c>>
        /\ \A i \in DOMAIN mail' :
              i \in DOMAIN mail \/ (callStream /\ i = Len(mail) + 1)
    BY <1>t, <2>1, MailGrows
  <2>4. CallsTypeOK'
    BY <1>t, <1>y, <2>1, <2>2, <2>3 DEF callScreens
  <2>5. MailTells'
    <3>1. ASSUME NEW i \in DOMAIN mail', i \in DOMAIN mail
          PROVE  LET d == mail'[i][2]
                 IN /\ row'[d] # "none"
                    /\ mail'[i][1] = "ended" => row'[d] = "over"
                    /\ mail'[i][1] = "incoming" =>
                          /\ d \in Rung
                          /\ row'[d] = "over" /\ d \notin unheardEnds' =>
                                \E j \in DOMAIN mail' : j > i /\ mail'[j] = <<"ended", d>>
      <4>1. mail'[i] = mail[i] /\ mail[i][2] \in AllCalls /\ mail[i][2] # c
        BY <1>i, <1>t, <2>1, <2>3, <3>1 DEF Letters, MailTells
      <4>2. row'[mail[i][2]] = row[mail[i][2]]
        BY <2>2, <4>1
      <4>3. QED BY <1>i, <2>1, <2>3, <3>1, <4>1, <4>2 DEF MailTells
    <3>2. ASSUME NEW i \in DOMAIN mail', i \notin DOMAIN mail
          PROVE  mail'[i][1] = "incoming" /\ mail'[i][2] = c
      BY <2>3, <3>2
    <3>3. QED BY <2>2, <3>1, <3>2 DEF MailTells
  <2>6. AsksTell'
    <3>1. \A a \in asks : a.call = c => a.what = "start" /\ a.call \in Placed
      BY <1>i, <2>1 DEF AsksTell
    <3>2. \A a \in asks : a.call # c
      BY <2>1, <3>1
    <3>3. QED BY <1>i, <1>t, <2>1, <2>2, <3>2 DEF AsksTell
  <2>7. ScreensTell'
    BY <1>i, <1>t, <2>1, <2>2 DEF ScreensTell, callScreens
  <2>8. EndsReach'
    BY <1>i, <1>t, <2>1, <2>2, <2>3 DEF EndsReach, callScreens
  <2>9. InSight'
    <3> SUFFICES ASSUME NEW d \in AllCalls, d \notin outOfSight'
                 PROVE  /\ row'[d] = "ringing" /\ d \in Rung =>
                              incomingCall' = d \/ Posted("incoming", d)'
                        /\ row'[d] \in {"ringing", "active"} /\ d \in Placed \union answered'
                           /\ activeCall' # d =>
                              \E a \in asks' : a.call = d /\ a.what \in Shows
                                               /\ a.stage \in {"taken", "answered"}
      BY DEF InSight
    <3>1. CASE d = c
      <4>1. callStream
        BY <2>1, <3>1
      <4>2. c \notin answered
        BY <1>i, <2>1 DEF ScreensTell
      <4>3. QED BY <2>1, <2>3, <3>1, <4>1, <4>2
    <3>2. CASE d # c
      BY <1>i, <2>1, <2>2, <2>3, <3>2 DEF InSight, callScreens
    <3>3. QED BY <3>1, <3>2
  <2>10. QED BY <1>q, <2>4, <2>5, <2>6, <2>7, <2>8, <2>9
<1>2. ASSUME NEW c \in AllCalls, AnsweredElsewhere(c) PROVE CallsInv'
  <2>1. /\ row[c] = "ringing" /\ row' = [row EXCEPT ![c] = "active"]
        /\ UNCHANGED <<callStream, mail, callScreens, asks, slips, callCauses>>
    BY <1>2 DEF AnsweredElsewhere
  <2>2. /\ row' \in [AllCalls -> CallStates] /\ row'[c] = "active"
        /\ \A d \in AllCalls : d # c => row'[d] = row[d]
    BY <1>t, <2>1 DEF CallStates
  <2>3. CallsTypeOK'
    BY <1>t, <1>y, <2>1, <2>2 DEF callScreens, callCauses
  <2>4. MailTells'
    <3>1. \A d \in AllCalls : row[d] # "none" => row'[d] # "none"
      BY <2>1, <2>2
    <3>2. \A d \in AllCalls : row[d] = "over" <=> row'[d] = "over"
      BY <2>1, <2>2
    <3>3. QED BY <1>i, <2>1, <3>1, <3>2, MailWaits DEF callCauses
  <2>5. AsksTell'
    BY <1>i, <1>t, <2>1, <2>2 DEF AsksTell
  <2>6. ScreensTell'
    BY <1>i, <1>t, <2>1, <2>2 DEF ScreensTell, callScreens, callCauses
  <2>7. EndsReach'
    BY <1>i, <1>t, <2>1, <2>2 DEF EndsReach, callScreens, callCauses, Posted
  <2>8. InSight'
    BY <1>i, <1>t, <2>1, <2>2 DEF InSight, callScreens, callCauses, Posted
  <2>9. QED BY <1>q, <2>3, <2>4, <2>5, <2>6, <2>7, <2>8
<1>3. ASSUME NEW c \in AllCalls, row[c] # "none", Ends(c),
             UNCHANGED <<callStream, callScreens, slips, answered>>,
             asks' \subseteq Asks,
             \A a \in asks' : a \in asks \/
                (/\ a.what \in {"decline", "hangUp"} /\ a.call \in AllCalls
                 /\ row'[a.call] = "over"),
             \A a \in asks : a \in asks' \/ a.what \in {"decline", "hangUp"}
      PROVE  CallsInv'
  <2>1. /\ row' \in [AllCalls -> CallStates] /\ row'[c] = "over"
        /\ \A d \in AllCalls : d # c => row'[d] = row[d]
        /\ mail' \in Seq(Letters) /\ unheardEnds' \subseteq AllCalls
        /\ outOfSight' = outOfSight \ {c}
        /\ MailTells'
        /\ c \notin unheardEnds' => Posted("ended", c)'
        /\ \A k, d : Posted(k, d) => Posted(k, d)'
        /\ unheardEnds \subseteq unheardEnds'
    BY <1>3, EndIsPosted
  <2>2. CallsTypeOK'
    BY <1>3, <1>t, <1>y, <2>1 DEF callScreens
  <2>3. AsksTell'
    <3>1. ASSUME NEW a \in asks', a \in asks
          PROVE  /\ a.what = "start" => a.call \in Placed
                 /\ row'[a.call] = "none" <=> a.what = "start" /\ a.stage = "asked"
                 /\ a.what \in {"accept", "join"} /\ a.stage \in {"taken", "answered"} =>
                       row'[a.call] \in {"active", "over"}
                 /\ a.what \in {"decline", "hangUp"} /\ a.stage # "asked" => row'[a.call] = "over"
      BY <1>i, <1>t, <1>3, <2>1, <3>1 DEF AsksTell
    <3>2. ASSUME NEW a \in asks', a \notin asks
          PROVE  a.what \in {"decline", "hangUp"} /\ row'[a.call] = "over"
      BY <1>3, <3>2
    <3>3. QED BY <3>1, <3>2 DEF AsksTell
  <2>4. ScreensTell'
    BY <1>i, <1>t, <1>3, <2>1 DEF ScreensTell, callScreens
  <2>5. EndsReach'
    <3>1. \A a \in asks' : a.what \in Shows => a \in asks
      BY <1>3 DEF Shows
    <3>2. QED BY <1>i, <1>3, <2>1, <3>1 DEF EndsReach, callScreens
  <2>6. InSight'
    <3>1. \A a \in asks : a.what \in Shows => a \in asks'
      BY <1>3 DEF Shows
    <3>2. QED BY <1>i, <1>3, <2>1, <3>1 DEF InSight, callScreens
  <2>7. QED BY <1>q, <2>1, <2>2, <2>3, <2>4, <2>5, <2>6
<1>4. ASSUME NEW c \in AllCalls, EndedElsewhere(c) PROVE CallsInv'
  <2>1. /\ row[c] # "none" /\ Ends(c)
        /\ UNCHANGED <<callStream, callScreens, asks, slips, answered>>
    BY <1>4 DEF EndedElsewhere
  <2>2. QED BY <1>3, <1>t, <2>1
<1>5. ASSUME NEW a \in asks, AcceptTaken(a) PROVE CallsInv'
  <2>1. /\ a.what \in {"accept", "join"} /\ a.stage = "asked" /\ a.call \in AllCalls
        /\ UNCHANGED <<callStream, mail, callScreens, slips, unheardEnds, outOfSight>>
    BY <1>5, <1>t DEF AcceptTaken
  <2>2. CASE row[a.call] = "ringing"
    <3>1. /\ row' = [row EXCEPT ![a.call] = "active"] /\ Became(a, "taken")
          /\ answered' = answered \union {a.call}
      BY <1>5, <2>2 DEF AcceptTaken
    <3>2. /\ row' \in [AllCalls -> CallStates] /\ row'[a.call] = "active"
          /\ \A d \in AllCalls : d # a.call => row'[d] = row[d]
      BY <1>t, <2>1, <3>1 DEF CallStates
    <3>3. PICK b \in Asks :
              /\ b.what = a.what /\ b.call = a.call /\ b.stage = "taken"
              /\ b \in asks' /\ asks' \subseteq Asks
              /\ \A d \in asks' : d \in asks \/ d = b
              /\ \A d \in asks : d = a \/ d \in asks'
              /\ \A d \in asks' : d = a => a = b
      BY <1>t, <3>1, OneFurther
    <3>4. CallsTypeOK'
      BY <1>t, <1>y, <2>1, <3>1, <3>2, <3>3 DEF callScreens
    <3>5. MailTells'
      <4>1. \A d \in AllCalls : row[d] # "none" => row'[d] # "none"
        BY <3>2
      <4>2. \A d \in AllCalls : row[d] = "over" <=> row'[d] = "over"
        BY <2>2, <3>2
      <4>3. QED BY <1>i, <2>1, <4>1, <4>2, MailWaits
    <3>6. AsksTell'
      <4>1. ASSUME NEW d \in asks', d \in asks
            PROVE  /\ d.what = "start" => d.call \in Placed
                   /\ row'[d.call] = "none" <=> d.what = "start" /\ d.stage = "asked"
                   /\ d.what \in {"accept", "join"} /\ d.stage \in {"taken", "answered"} =>
                         row'[d.call] \in {"active", "over"}
                   /\ d.what \in {"decline", "hangUp"} /\ d.stage # "asked" => row'[d.call] = "over"
        BY <1>i, <1>t, <2>2, <3>2, <4>1 DEF AsksTell
      <4>2. QED BY <2>1, <3>2, <3>3, <4>1 DEF AsksTell
    <3>7. ScreensTell'
      BY <1>i, <1>t, <2>1, <3>1, <3>2 DEF ScreensTell, callScreens
    <3>8. EndsReach'
      <4>1. \A d \in AllCalls : row'[d] = "over" => row[d] = "over"
        BY <3>2
      <4>2. \A d \in asks' : \E e \in asks : e.call = d.call /\ e.what = d.what
        BY <3>3
      <4>3. \A d \in AllCalls : (\E e \in asks' : e.call = d /\ e.what \in Shows)
                                   => \E e \in asks : e.call = d /\ e.what \in Shows
        BY <4>2
      <4>4. QED BY <1>i, <2>1, <4>1, <4>3 DEF EndsReach, callScreens, Posted
    <3>9. InSight'
      <4> SUFFICES ASSUME NEW d \in AllCalls, d \notin outOfSight'
                   PROVE  /\ row'[d] = "ringing" /\ d \in Rung =>
                                incomingCall' = d \/ Posted("incoming", d)'
                          /\ row'[d] \in {"ringing", "active"} /\ d \in Placed \union answered'
                             /\ activeCall' # d =>
                                \E e \in asks' : e.call = d /\ e.what \in Shows
                                                 /\ e.stage \in {"taken", "answered"}
        BY DEF InSight
      <4>1. CASE d = a.call
        BY <2>1, <3>2, <3>3, <4>1 DEF Shows
      <4>2. CASE d # a.call
        BY <1>i, <2>1, <3>1, <3>2, <3>3, <4>2 DEF InSight, callScreens, Posted
      <4>3. QED BY <4>1, <4>2
    <3>10. QED BY <1>q, <3>4, <3>5, <3>6, <3>7, <3>8, <3>9
  <2>3. CASE row[a.call] # "ringing"
    <3>1. UNCHANGED <<row, answered>> /\ Became(a, "refused")
      BY <1>5, <2>3 DEF AcceptTaken
    <3>2. PICK b \in Asks :
              /\ b.what = a.what /\ b.call = a.call /\ b.stage = "refused"
              /\ b \in asks' /\ asks' \subseteq Asks
              /\ \A d \in asks' : d \in asks \/ d = b
              /\ \A d \in asks : d = a \/ d \in asks'
              /\ \A d \in asks' : d = a => a = b
      BY <1>t, <3>1, OneFurther
    <3>3. CallsTypeOK'
      BY <1>t, <1>y, <2>1, <3>1, <3>2 DEF callScreens
    <3>4. MailTells'
      BY <1>i, <2>1, <3>1, MailWaits
    <3>5. AsksTell'
      BY <1>i, <2>1, <3>1, <3>2 DEF AsksTell
    <3>6. ScreensTell'
      BY <1>i, <2>1, <3>1 DEF ScreensTell, callScreens
    <3>7. EndsReach'
      BY <1>i, <2>1, <3>1, <3>2 DEF EndsReach, callScreens, Posted
    <3>8. InSight'
      BY <1>i, <2>1, <3>1, <3>2 DEF InSight, callScreens, Posted
    <3>9. QED BY <1>q, <3>3, <3>4, <3>5, <3>6, <3>7, <3>8
  <2>4. QED BY <2>2, <2>3
<1>6. ASSUME NEW a \in asks, a.what \in Shows, a.stage = "taken", Became(a, "answered"),
             UNCHANGED <<row, callStream, mail, callScreens, slips, callCauses>>
      PROVE  CallsInv'
  <2>1. PICK b \in Asks :
            /\ b.what = a.what /\ b.call = a.call /\ b.stage = "answered"
            /\ b \in asks' /\ asks' \subseteq Asks
            /\ \A d \in asks' : d \in asks \/ d = b
            /\ \A d \in asks : d = a \/ d \in asks'
            /\ \A d \in asks' : d = a => a = b
    BY <1>t, <1>6, OneFurther
  <2>2. CallsTypeOK'
    BY <1>t, <1>y, <1>6, <2>1 DEF callScreens, callCauses
  <2>3. MailTells'
    BY <1>i, <1>6, MailWaits DEF callCauses
  <2>4. AsksTell'
    BY <1>i, <1>6, <2>1 DEF AsksTell, Shows
  <2>5. ScreensTell'
    BY <1>i, <1>6 DEF ScreensTell, callScreens, callCauses
  <2>6. EndsReach'
    BY <1>i, <1>6, <2>1 DEF EndsReach, callScreens, callCauses, Posted
  <2>7. InSight'
    BY <1>i, <1>6, <2>1 DEF InSight, callScreens, callCauses, Posted
  <2>8. QED BY <1>q, <2>2, <2>3, <2>4, <2>5, <2>6, <2>7
<1>7. ASSUME NEW a \in asks, AcceptAnswered(a) \/ StartAnswered(a) PROVE CallsInv'
  BY <1>6, <1>7 DEF AcceptAnswered, StartAnswered, Shows
<1>8. ASSUME NEW a \in asks, StartTaken(a) PROVE CallsInv'
  <2>1. /\ a.what = "start" /\ a.stage = "asked" /\ row' = [row EXCEPT ![a.call] = "ringing"]
        /\ Became(a, "taken")
        /\ UNCHANGED <<callStream, mail, callScreens, slips, callCauses>>
    BY <1>8 DEF StartTaken
  <2>2. row[a.call] = "none" /\ a.call \in AllCalls /\ a.call \in Placed /\ a.call \notin Rung
    BY <1>i, <1>t, <2>1 DEF AsksTell
  <2>3. /\ row' \in [AllCalls -> CallStates] /\ row'[a.call] = "ringing"
        /\ \A d \in AllCalls : d # a.call => row'[d] = row[d]
    BY <1>t, <2>1, <2>2 DEF CallStates
  <2>4. PICK b \in Asks :
            /\ b.what = a.what /\ b.call = a.call /\ b.stage = "taken"
            /\ b \in asks' /\ asks' \subseteq Asks
            /\ \A d \in asks' : d \in asks \/ d = b
            /\ \A d \in asks : d = a \/ d \in asks'
            /\ \A d \in asks' : d = a => a = b
    BY <1>t, <2>1, OneFurther
  <2>5. CallsTypeOK'
    BY <1>t, <1>y, <2>1, <2>3, <2>4 DEF callScreens, callCauses
  <2>6. MailTells'
    <3>1. \A d \in AllCalls : row[d] # "none" => row'[d] # "none"
      BY <2>3
    <3>2. \A d \in AllCalls : row[d] = "over" <=> row'[d] = "over"
      BY <2>2, <2>3
    <3>3. QED BY <1>i, <2>1, <3>1, <3>2, MailWaits DEF callCauses
  \* No other request has been made for it: it would be this one.
  <2>7. \A d \in asks : d.call = a.call => d = a
    <3>1. ASSUME NEW d \in asks, d.call = a.call PROVE d = a
      <4>1. d.what = "start" /\ d.stage = "asked"
        BY <1>i, <2>2, <3>1 DEF AsksTell
      <4>2. d \in Asks /\ a \in Asks
        BY <1>t
      <4>3. QED BY <2>1, <3>1, <4>1, <4>2 DEF Asks
    <3>2. QED BY <3>1
  <2>8. AsksTell'
    <3>1. \A d \in asks' : d = b \/ (d \in asks /\ d.call # a.call)
      BY <2>1, <2>4, <2>7
    <3>2. QED BY <1>i, <1>t, <2>1, <2>2, <2>3, <2>4, <3>1 DEF AsksTell
  <2>9. ScreensTell'
    BY <1>i, <1>t, <2>1, <2>2, <2>3 DEF ScreensTell, callScreens, callCauses
  <2>10. EndsReach'
    <3>1. \A d \in AllCalls : row'[d] = "over" => row[d] = "over"
      BY <2>3
    <3>2. \A d \in AllCalls : (\E e \in asks' : e.call = d /\ e.what \in Shows)
                                 => \E e \in asks : e.call = d /\ e.what \in Shows
      BY <2>4
    <3>3. QED BY <1>i, <2>1, <3>1, <3>2 DEF EndsReach, callScreens, callCauses, Posted
  <2>11. InSight'
    <3> SUFFICES ASSUME NEW d \in AllCalls, d \notin outOfSight'
                 PROVE  /\ row'[d] = "ringing" /\ d \in Rung =>
                              incomingCall' = d \/ Posted("incoming", d)'
                        /\ row'[d] \in {"ringing", "active"} /\ d \in Placed \union answered'
                           /\ activeCall' # d =>
                              \E e \in asks' : e.call = d /\ e.what \in Shows
                                               /\ e.stage \in {"taken", "answered"}
      BY DEF InSight
    <3>1. CASE d = a.call
      BY <2>1, <2>2, <2>4, <3>1 DEF Shows
    <3>2. CASE d # a.call
      BY <1>i, <2>1, <2>3, <2>4, <3>2 DEF InSight, callScreens, callCauses, Posted
    <3>3. QED BY <3>1, <3>2
  <2>12. QED BY <1>q, <2>5, <2>6, <2>8, <2>9, <2>10, <2>11
<1>9. ASSUME NEW a \in asks, EndTaken(a) PROVE CallsInv'
  <2>1. /\ a.what \in {"decline", "hangUp"} /\ a.stage = "asked" /\ a.call \in AllCalls
        /\ Became(a, "answered") /\ UNCHANGED <<callStream, callScreens, slips, answered>>
        /\ row[a.call] # "none"
    BY <1>9, <1>i, <1>t DEF EndTaken, AsksTell
  <2>2. PICK b \in Asks :
            /\ b.what = a.what /\ b.call = a.call /\ b.stage = "answered"
            /\ b \in asks' /\ asks' \subseteq Asks
            /\ \A d \in asks' : d \in asks \/ d = b
            /\ \A d \in asks : d = a \/ d \in asks'
            /\ \A d \in asks' : d = a => a = b
    BY <1>t, <2>1, OneFurther
  <2>3. CASE row[a.call] # "over"
    <3>1. Ends(a.call)
      BY <1>9, <2>3 DEF EndTaken
    <3>2. row'[a.call] = "over"
      BY <1>t, <2>1, <3>1 DEF Ends
    <3>3. \A d \in asks' : d \in asks \/
             (d.what \in {"decline", "hangUp"} /\ d.call \in AllCalls /\ row'[d.call] = "over")
      BY <2>1, <2>2, <3>2
    <3>4. QED BY <1>3, <2>1, <2>2, <3>1, <3>3
  <2>4. CASE row[a.call] = "over"
    <3>1. UNCHANGED <<row, mail, unheardEnds, outOfSight>>
      BY <1>9, <2>4 DEF EndTaken
    <3>2. CallsTypeOK'
      BY <1>t, <1>y, <2>1, <2>2, <3>1 DEF callScreens
    <3>3. MailTells'
      BY <1>i, <3>1, MailWaits
    <3>4. AsksTell'
      BY <1>i, <2>1, <2>2, <2>4, <3>1 DEF AsksTell
    <3>5. ScreensTell'
      BY <1>i, <2>1, <3>1 DEF ScreensTell, callScreens
    <3>6. EndsReach'
      BY <1>i, <2>1, <2>2, <3>1 DEF EndsReach, callScreens, Posted, Shows
    <3>7. InSight'
      BY <1>i, <2>1, <2>2, <3>1 DEF InSight, callScreens, Posted, Shows
    <3>8. QED BY <1>q, <3>2, <3>3, <3>4, <3>5, <3>6, <3>7
  <2>5. QED BY <2>3, <2>4
\* A request is over, and what its answer displaces is out of sight.
<1>10. ASSUME NEW a \in asks, asks' = asks \ {a},
              UNCHANGED <<row, callStream, mail, answered, unheardEnds>>,
              slips' \in 0..MaxSlips, ending' \in BOOLEAN,
              ending' => activeCall' # NoCall,
              incomingCall' \in {incomingCall, NoCall},
              activeCall' = activeCall \/ activeCall' = NoCall
                 \/ (activeCall' = a.call /\ a.what \in Shows /\ row[a.call] # "none"),
              outOfSight \subseteq outOfSight', outOfSight' \subseteq AllCalls,
              incomingCall' # incomingCall /\ incomingCall # NoCall
              /\ row[incomingCall] = "ringing" =>
                 incomingCall \in outOfSight',
              activeCall' # activeCall /\ activeCall # NoCall /\ row[activeCall] # "over" =>
                 activeCall \in outOfSight',
              a.what \in Shows /\ a.stage \in {"taken", "answered"} =>
                 row[a.call] = "over" \/ activeCall' = a.call \/ a.call \in outOfSight'
       PROVE  CallsInv'
  <2>1. CallsTypeOK'
    BY <1>t, <1>y, <1>10
  <2>2. MailTells'
    BY <1>i, <1>10, MailWaits
  <2>3. AsksTell'
    BY <1>i, <1>10 DEF AsksTell
  <2>4. ScreensTell'
    BY <1>i, <1>t, <1>10 DEF ScreensTell
  <2>5. EndsReach'
    BY <1>i, <1>t, <1>10 DEF EndsReach, Posted
  <2>6. InSight'
    <3>1. ASSUME NEW d \in AllCalls, d \notin outOfSight', row'[d] = "ringing", d \in Rung
          PROVE  incomingCall' = d \/ Posted("incoming", d)'
      <4>1. incomingCall = d \/ Posted("incoming", d)
        BY <1>i, <1>10, <3>1 DEF InSight
      <4>2. QED BY <1>t, <1>10, <3>1, <4>1 DEF Posted
    <3>2. ASSUME NEW d \in AllCalls, d \notin outOfSight', row'[d] \in {"ringing", "active"},
                 d \in Placed \union answered', activeCall' # d
          PROVE  \E e \in asks' : e.call = d /\ e.what \in Shows
                                  /\ e.stage \in {"taken", "answered"}
      <4>1. activeCall # d
        BY <1>t, <1>10, <3>2
      <4>2. PICK e \in asks : e.call = d /\ e.what \in Shows /\ e.stage \in {"taken", "answered"}
        BY <1>i, <1>10, <3>2, <4>1 DEF InSight
      <4>3. e # a
        BY <1>10, <3>2, <4>2
      <4>4. QED BY <1>10, <4>2, <4>3
    <3>3. QED BY <3>1, <3>2 DEF InSight
  <2>7. QED BY <1>q, <2>1, <2>2, <2>3, <2>4, <2>5, <2>6
<1>11. ASSUME NEW a \in asks, Answered(a) PROVE CallsInv'
  <2>1. asks' = asks \ {a} /\ UNCHANGED <<row, callStream, mail, slips, answered, unheardEnds>>
    BY <1>11 DEF Answered
  <2>2. /\ a \in Asks /\ a.call \in AllCalls
        /\ row[a.call] = "none" <=> a.what = "start" /\ a.stage = "asked"
        /\ a.what \in {"accept", "join"} /\ a.stage \in {"taken", "answered"} =>
              row[a.call] \in {"active", "over"}
        /\ a.what \in {"decline", "hangUp"} /\ a.stage # "asked" => row[a.call] = "over"
    BY <1>i, <1>t DEF AsksTell
  <2>3. CASE a.stage = "refused" /\ UNCHANGED <<callScreens, outOfSight>>
    BY <1>10, <1>t, <2>1, <2>3 DEF callScreens
  <2>4. CASE a.stage = "answered" /\ ShowCall(a)
    <3>1. /\ a.what \in Shows /\ activeCall' = a.call /\ UNCHANGED ending
          /\ incomingCall' = (IF a.what = "accept" THEN NoCall ELSE incomingCall)
          /\ outOfSight' = outOfSight \union StillOn({activeCall} \ {a.call})
               \union (IF a.what = "accept" THEN StillOn({incomingCall} \ {a.call}) ELSE {})
      BY <2>4 DEF ShowCall, Displaced
    <3>2. outOfSight \subseteq outOfSight' /\ outOfSight' \subseteq AllCalls
      BY <1>t, <3>1 DEF StillOn
    <3>3. incomingCall' # incomingCall /\ incomingCall # NoCall /\ row[incomingCall] = "ringing" =>
             incomingCall \in outOfSight'
      BY <2>2, <2>4, <3>1 DEF StillOn
    <3>4. activeCall' # activeCall /\ activeCall # NoCall /\ row[activeCall] # "over" =>
             activeCall \in outOfSight'
      BY <3>1 DEF StillOn
    <3>5. ending' \in BOOLEAN /\ (ending' => activeCall' # NoCall)
      BY <1>t, <2>2, <3>1
    <3>6. row[a.call] # "none"
      BY <2>2, <2>4
    <3>7. QED BY <1>10, <1>t, <2>1, <3>1, <3>2, <3>3, <3>4, <3>5, <3>6
  <2>5. CASE a.stage = "answered" /\ Closed(a)
    <3>1. a.what \notin Shows /\ row[a.call] = "over"
      BY <2>2, <2>5 DEF Closed, Shows
    <3>2. CASE a.what = "decline"
      <4>1. /\ incomingCall' = NoCall /\ UNCHANGED <<activeCall, ending>>
            /\ outOfSight' = outOfSight \union StillOn({incomingCall} \ {a.call})
        BY <2>5, <3>2 DEF Closed, Displaced
      <4>2. outOfSight \subseteq outOfSight' /\ outOfSight' \subseteq AllCalls
        BY <1>t, <4>1 DEF StillOn
      <4>3. incomingCall # NoCall /\ row[incomingCall] = "ringing" => incomingCall \in outOfSight'
        BY <3>1, <4>1 DEF StillOn
      <4>4. QED BY <1>10, <1>t, <2>1, <3>1, <4>1, <4>2, <4>3
    <3>3. CASE a.what # "decline"
      <4>1. /\ activeCall' = NoCall /\ ending' = FALSE /\ UNCHANGED incomingCall
            /\ outOfSight' = outOfSight \union StillOn({activeCall} \ {a.call})
        BY <2>5, <3>3 DEF Closed, Displaced
      <4>2. outOfSight \subseteq outOfSight' /\ outOfSight' \subseteq AllCalls
        BY <1>t, <4>1 DEF StillOn
      <4>3. activeCall # NoCall /\ row[activeCall] # "over" => activeCall \in outOfSight'
        BY <3>1, <4>1 DEF StillOn
      <4>4. QED BY <1>10, <1>t, <2>1, <3>1, <4>1, <4>2, <4>3
    <3>4. QED BY <3>2, <3>3
  <2>6. QED BY <1>11, <2>3, <2>4, <2>5 DEF Answered
<1>12. ASSUME NEW a \in asks, Fails(a) PROVE CallsInv'
  <2>1. /\ asks' = asks \ {a} /\ UNCHANGED <<row, callStream, mail, answered, unheardEnds>>
        /\ outOfSight' = outOfSight \union StillOn({a.call})
                         \union StillOn({incomingCall} \ {incomingCall'})
                         \union StillOn({activeCall} \ {activeCall'})
    BY <1>12 DEF Fails, Displaced
  <2>2. slips' \in 0..MaxSlips
    BY <1>12, <1>t DEF Fails, Slip
  <2>3. /\ incomingCall' \in {incomingCall, NoCall} /\ activeCall' \in {activeCall, NoCall}
        /\ ending' \in BOOLEAN /\ (ending' => activeCall' # NoCall)
    <3>1. CASE a.what = "decline" /\ incomingCall' = NoCall /\ UNCHANGED <<activeCall, ending>>
      BY <1>t, <3>1
    <3>2. CASE a.what = "hangUp" /\ activeCall' = NoCall /\ ending' = FALSE
               /\ UNCHANGED incomingCall
      BY <1>t, <3>2
    <3>3. CASE UNCHANGED callScreens
      BY <1>t, <3>3 DEF callScreens
    <3>4. QED BY <1>12, <3>1, <3>2, <3>3 DEF Fails
  <2>4. outOfSight \subseteq outOfSight' /\ outOfSight' \subseteq AllCalls
    BY <1>t, <2>1 DEF StillOn
  <2>5. /\ incomingCall' # incomingCall /\ incomingCall # NoCall /\ row[incomingCall] = "ringing" =>
              incomingCall \in outOfSight'
        /\ activeCall' # activeCall /\ activeCall # NoCall /\ row[activeCall] # "over" =>
              activeCall \in outOfSight'
        /\ row[a.call] = "over" \/ a.call \in outOfSight'
    <3>1. a.call \in AllCalls
      BY <1>t
    <3>2. QED BY <1>t, <2>1, <3>1 DEF StillOn
  <2>6. QED BY <1>10, <1>t, <2>1, <2>2, <2>3, <2>4, <2>5
<1>13. CASE HearsIncoming
  <2> DEFINE c == Head(mail)[2]
  <2>1. /\ mail # <<>> /\ Head(mail)[1] = "incoming" /\ mail' = Tail(mail)
        /\ incomingCall' = c /\ outOfSight' = outOfSight \union StillOn({incomingCall} \ {c})
        /\ UNCHANGED <<row, callStream, activeCall, ending, asks, slips, answered, unheardEnds>>
    BY <1>13 DEF HearsIncoming, Hears, Displaced
  <2>2. /\ mail' \in Seq(Letters)
        /\ Head(mail) \in Letters /\ 1 \in DOMAIN mail /\ mail[1] = Head(mail)
        /\ \A k, d : Posted(k, d) => Posted(k, d)' \/ Head(mail) = <<k, d>>
        /\ \A j \in DOMAIN mail : j > 1 => j - 1 \in DOMAIN mail' /\ mail'[j - 1] = mail[j]
    BY <1>t, <2>1, MailShrinks
  <2>3. c \in Rung /\ c \in AllCalls /\ row[c] # "none" /\ Head(mail) = <<"incoming", c>>
    BY <1>i, <1>t, <2>1, <2>2 DEF MailTells, Letters
  <2>4. row[c] = "over" /\ c \notin unheardEnds =>
           \E i \in DOMAIN mail' : mail'[i] = <<"ended", c>>
    <3>1. SUFFICES ASSUME row[c] = "over", c \notin unheardEnds
                   PROVE  \E i \in DOMAIN mail' : mail'[i] = <<"ended", c>>
      OBVIOUS
    <3>2. PICK j \in DOMAIN mail : j > 1 /\ mail[j] = <<"ended", c>>
      BY <1>i, <2>1, <2>2, <3>1 DEF MailTells
    <3>3. QED BY <2>2, <3>2
  <2> HIDE DEF c
  <2>5. CallsTypeOK'
    BY <1>t, <1>y, <2>1, <2>2, <2>3 DEF StillOn
  <2>6. MailTells'
    BY <1>i, <2>1, MailIsRead
  <2>7. AsksTell'
    BY <1>i, <2>1 DEF AsksTell
  <2>8. ScreensTell'
    BY <1>i, <2>1, <2>3 DEF ScreensTell
  <2>9. EndsReach'
    <3> SUFFICES ASSUME NEW d \in AllCalls, d \notin unheardEnds', row'[d] = "over",
                        d \in {activeCall', incomingCall'}
                        \/ \E a \in asks' : a.call = d /\ a.what \in Shows
                 PROVE  Posted("ended", d)'
      BY DEF EndsReach
    <3>1. CASE d = c
      BY <2>1, <2>4, <3>1 DEF Posted
    <3>2. CASE d # c
      <4>1. Posted("ended", d)
        BY <1>i, <2>1, <3>2 DEF EndsReach
      <4>2. QED BY <2>2, <2>3, <4>1
    <3>3. QED BY <3>1, <3>2
  <2>10. InSight'
    <3>1. ASSUME NEW d \in AllCalls, d \notin outOfSight', row'[d] = "ringing", d \in Rung
          PROVE  incomingCall' = d \/ Posted("incoming", d)'
      <4>1. incomingCall = d \/ Posted("incoming", d)
        BY <1>i, <2>1, <3>1 DEF InSight
      <4>2. CASE incomingCall = d
        BY <1>t, <2>1, <3>1, <4>2 DEF StillOn
      <4>3. CASE Posted("incoming", d)
        BY <2>1, <2>2, <2>3, <4>3
      <4>4. QED BY <4>1, <4>2, <4>3
    <3>2. ASSUME NEW d \in AllCalls, d \notin outOfSight', row'[d] \in {"ringing", "active"},
                 d \in Placed \union answered', activeCall' # d
          PROVE  \E e \in asks' : e.call = d /\ e.what \in Shows
                                  /\ e.stage \in {"taken", "answered"}
      BY <1>i, <2>1, <3>2 DEF InSight
    <3>3. QED BY <3>1, <3>2 DEF InSight
  <2>11. QED BY <1>q, <2>5, <2>6, <2>7, <2>8, <2>9, <2>10
<1>14. CASE HearsEnded
  <2> DEFINE c == Head(mail)[2]
  <2>1. /\ mail # <<>> /\ Head(mail)[1] = "ended" /\ mail' = Tail(mail)
        /\ activeCall' = (IF activeCall = c THEN NoCall ELSE activeCall)
        /\ incomingCall' = (IF incomingCall = c THEN NoCall ELSE incomingCall)
        /\ ending' = (ending /\ activeCall' # NoCall)
        /\ unheardEnds' = unheardEnds \union
                             {a.call : a \in {b \in asks : b.call = c /\ b.what \in Shows}}
        /\ UNCHANGED <<row, callStream, asks, slips, answered, outOfSight>>
    BY <1>14 DEF HearsEnded, Hears, Over
  <2>2. /\ mail' \in Seq(Letters)
        /\ Head(mail) \in Letters /\ 1 \in DOMAIN mail /\ mail[1] = Head(mail)
        /\ \A k, d : Posted(k, d) => Posted(k, d)' \/ Head(mail) = <<k, d>>
    BY <1>t, <2>1, MailShrinks
  <2>3. c \in AllCalls /\ row[c] = "over" /\ Head(mail) = <<"ended", c>>
    BY <1>i, <1>t, <2>1, <2>2 DEF MailTells, Letters
  <2> HIDE DEF c
  <2>4. unheardEnds \subseteq unheardEnds' /\ unheardEnds' \subseteq AllCalls
    BY <1>t, <2>1
  <2>5. CallsTypeOK'
    BY <1>t, <1>y, <2>1, <2>2, <2>4
  <2>6. MailTells'
    BY <1>i, <2>1, <2>4, MailIsRead
  <2>7. AsksTell'
    BY <1>i, <2>1 DEF AsksTell
  <2>8. ScreensTell'
    BY <1>i, <1>t, <2>1 DEF ScreensTell
  <2>9. EndsReach'
    <3> SUFFICES ASSUME NEW d \in AllCalls, d \notin unheardEnds', row'[d] = "over",
                        d \in {activeCall', incomingCall'}
                        \/ \E a \in asks' : a.call = d /\ a.what \in Shows
                 PROVE  Posted("ended", d)'
      BY DEF EndsReach
    <3>1. d # c
      BY <1>t, <2>1, <2>3
    <3>2. Posted("ended", d)
      BY <1>i, <1>t, <2>1, <2>4, <3>1 DEF EndsReach
    <3>3. QED BY <2>2, <2>3, <3>1, <3>2
  <2>10. InSight'
    <3>1. ASSUME NEW d \in AllCalls, d \notin outOfSight', row'[d] = "ringing", d \in Rung
          PROVE  incomingCall' = d \/ Posted("incoming", d)'
      <4>1. incomingCall = d \/ Posted("incoming", d)
        BY <1>i, <2>1, <3>1 DEF InSight
      <4>2. d # c
        BY <2>1, <2>3, <3>1
      <4>3. QED BY <2>1, <2>2, <2>3, <4>1, <4>2
    <3>2. ASSUME NEW d \in AllCalls, d \notin outOfSight', row'[d] \in {"ringing", "active"},
                 d \in Placed \union answered', activeCall' # d
          PROVE  \E e \in asks' : e.call = d /\ e.what \in Shows
                                  /\ e.stage \in {"taken", "answered"}
      <4>1. d # c
        BY <2>1, <2>3, <3>2
      <4>2. activeCall # d
        BY <2>1, <3>2, <4>1
      <4>3. QED BY <1>i, <2>1, <3>2, <4>2 DEF InSight
    <3>3. QED BY <3>1, <3>2 DEF InSight
  <2>11. QED BY <1>q, <2>5, <2>6, <2>7, <2>8, <2>9, <2>10
<1>15. CASE StreamGoes
  <2>1. /\ callStream' = FALSE /\ mail' = <<>>
        /\ unheardEnds' = unheardEnds \union {c \in AllCalls : Posted("ended", c)}
        /\ outOfSight' = outOfSight \union StillOn({c \in AllCalls : Posted("incoming", c)})
        /\ UNCHANGED <<row, callScreens, asks, answered>>
    BY <1>15 DEF StreamGoes
  <2>2. slips' \in 0..MaxSlips
    BY <1>15, <1>t DEF StreamGoes, Slip
  <2>3. mail' \in Seq(Letters) /\ DOMAIN mail' = {}
    BY <2>1
  <2>4. CallsTypeOK'
    BY <1>t, <1>y, <2>1, <2>2, <2>3 DEF callScreens, StillOn
  <2>5. MailTells'
    BY <2>3 DEF MailTells
  <2>6. AsksTell' /\ ScreensTell'
    BY <1>i, <2>1 DEF AsksTell, ScreensTell, callScreens
  <2>7. EndsReach'
    BY <1>i, <2>1 DEF EndsReach, callScreens
  <2>8. InSight'
    <3>1. ASSUME NEW d \in AllCalls, d \notin outOfSight', row'[d] = "ringing", d \in Rung
          PROVE  incomingCall' = d
      <4>1. incomingCall = d \/ Posted("incoming", d)
        BY <1>i, <2>1, <3>1 DEF InSight
      <4>2. ~Posted("incoming", d)
        BY <1>t, <2>1, <3>1 DEF StillOn
      <4>3. QED BY <2>1, <4>1, <4>2 DEF callScreens
    <3>2. ASSUME NEW d \in AllCalls, d \notin outOfSight', row'[d] \in {"ringing", "active"},
                 d \in Placed \union answered', activeCall' # d
          PROVE  \E e \in asks' : e.call = d /\ e.what \in Shows
                                  /\ e.stage \in {"taken", "answered"}
      BY <1>i, <2>1, <3>2 DEF InSight, callScreens
    <3>3. QED BY <3>1, <3>2 DEF InSight
  <2>9. QED BY <1>q, <2>4, <2>5, <2>6, <2>7, <2>8
<1>16. CASE StreamComes \/ UNCHANGED callVars
  <2>1. /\ callStream' \in BOOLEAN
        /\ UNCHANGED <<row, mail, incomingCall, activeCall, ending, asks, slips, answered,
                       unheardEnds, outOfSight>>
    BY <1>16, <1>t DEF StreamComes, callVars, callScreens, callCauses
  <2>2. CallsTypeOK'
    BY <1>t, <1>y, <2>1
  <2>3. MailTells' /\ AsksTell' /\ ScreensTell' /\ EndsReach' /\ InSight'
    BY <1>i, <2>1 DEF MailTells, AsksTell, ScreensTell, EndsReach, InSight, Posted
  <2>4. QED BY <1>q, <2>2, <2>3
\* A request is made.
<1>17. ASSUME NEW a \in Asks, asks' = asks \union {a}, a.stage = "asked",
              row[a.call] = "none" <=> a.what = "start", a.what = "start" => a.call \in Placed,
              a.what \in Shows /\ a.what # "start" => a.call = incomingCall,
              ending' \in BOOLEAN, ending' => activeCall # NoCall,
              UNCHANGED <<row, callStream, mail, incomingCall, activeCall, slips, callCauses>>
       PROVE  CallsInv'
  <2>1. CallsTypeOK'
    BY <1>t, <1>y, <1>17 DEF callCauses
  <2>2. MailTells'
    BY <1>i, <1>17, MailWaits DEF callCauses
  <2>3. AsksTell'
    BY <1>i, <1>17 DEF AsksTell
  <2>4. ScreensTell'
    BY <1>i, <1>17 DEF ScreensTell, callCauses
  <2>5. EndsReach'
    BY <1>i, <1>17 DEF EndsReach, Posted, callCauses
  <2>6. InSight'
    BY <1>i, <1>17 DEF InSight, Posted, callCauses
  <2>7. QED BY <1>q, <2>1, <2>2, <2>3, <2>4, <2>5, <2>6
<1>18. ASSUME NEW what \in {"accept", "decline", "start", "hangUp"}, NEW c \in AllCalls
       PROVE  /\ Request(what, c, "asked") \in Asks
              /\ Request(what, c, "asked").what = what /\ Request(what, c, "asked").call = c
              /\ Request(what, c, "asked").stage = "asked"
  BY DEF Request, Asks
<1>19. ASSUME NEW what \in {"accept", "decline"}, Press(what) PROVE CallsInv'
  <2>1. /\ incomingCall # NoCall /\ asks' = asks \union {Request(what, incomingCall, "asked")}
        /\ UNCHANGED <<row, callStream, mail, incomingCall, activeCall, ending, slips, callCauses>>
    BY <1>19 DEF Press, callScreens
  <2>2. incomingCall \in AllCalls /\ row[incomingCall] # "none"
    BY <1>i, <1>t, <2>1 DEF ScreensTell
  <2>3. QED BY <1>t, <1>17, <1>18, <2>1, <2>2
<1>20. ASSUME NEW c \in Placed, StartCall(c) PROVE CallsInv'
  <2>1. /\ row[c] = "none" /\ asks' = asks \union {Request("start", c, "asked")}
        /\ UNCHANGED <<row, callStream, mail, incomingCall, activeCall, ending, slips, callCauses>>
    BY <1>20 DEF StartCall, callScreens
  <2>2. QED BY <1>t, <1>17, <1>18, <2>1
<1>21. CASE HangUp
  <2>1. /\ activeCall # NoCall /\ asks' = asks \union {Request("hangUp", activeCall, "asked")}
        /\ ending' = TRUE
        /\ UNCHANGED <<row, callStream, mail, incomingCall, activeCall, slips, callCauses>>
    BY <1>21 DEF HangUp
  <2>2. activeCall \in AllCalls /\ row[activeCall] # "none"
    BY <1>i, <1>t, <2>1 DEF ScreensTell
  <2>3. QED BY <1>t, <1>17, <1>18, <2>1, <2>2 DEF Shows
<1>22. CASE Disconnected
  <2>1. /\ outOfSight' = outOfSight \union StillOn({activeCall} \ {NoCall})
        /\ activeCall' = NoCall /\ ending' = FALSE
        /\ UNCHANGED <<row, callStream, mail, incomingCall, asks, answered, unheardEnds>>
    BY <1>22 DEF Disconnected, Displaced
  <2>2. slips' \in 0..MaxSlips
    BY <1>22, <1>t DEF Disconnected, Slip
  <2>3. CallsTypeOK'
    BY <1>t, <1>y, <2>1, <2>2 DEF StillOn
  <2>4. MailTells'
    BY <1>i, <2>1, MailWaits
  <2>5. AsksTell' /\ ScreensTell'
    BY <1>i, <1>t, <2>1 DEF AsksTell, ScreensTell
  <2>6. EndsReach'
    BY <1>i, <1>t, <2>1 DEF EndsReach, Posted
  <2>7. InSight'
    <3>1. ASSUME NEW d \in AllCalls, d \notin outOfSight', row'[d] \in {"ringing", "active"}
          PROVE  d \notin outOfSight /\ activeCall # d
      BY <1>t, <2>1, <3>1 DEF StillOn
    <3>2. QED BY <1>i, <2>1, <3>1 DEF InSight, Posted
  <2>8. QED BY <1>q, <2>3, <2>4, <2>5, <2>6, <2>7
<1>23. QED
  BY <1>1, <1>2, <1>4, <1>5, <1>7, <1>8, <1>9, <1>11, <1>12, <1>13, <1>14, <1>15, <1>16, <1>19,
     <1>20, <1>21, <1>22 DEF CallsNext

\* The banner and the screen of the widget: they show the calls that are on and those
\* alone, or what corrects them is on its way, or was lost.
THEOREM ScreensAreExplained == CallsSpec => []CallScreensHaveACause
<1>1. CallsInv => CallScreensHaveACause
  <2>1. CallsInv => EndedCallsLeave
    BY DEF CallsInv, EndsReach, EndedCallsLeave
  <2>2. CallsInv => CallsStayInSight
    BY DEF CallsInv, InSight, CallsStayInSight
  <2>3. QED BY <2>1, <2>2 DEF CallScreensHaveACause
<1>2. QED BY <1>1, CallsStart, CallsStay, PTL DEF CallsSpec

-----------------------------------------------------------------------------
(* All of them *)

\* A behaviour that follows one of the five is a behaviour of each.
THEOREM HomeIsFive ==
    Spec => PageSpec /\ PresenceSpec /\ MediaSpec /\ WidgetSpec /\ CallsSpec
<1>1. Init => PageInit /\ PresenceInit /\ MediaInit /\ WidgetInit /\ CallsInit
  BY DEF Init
<1>2. [Next]_vars => /\ [PageNext]_pageVars /\ [PresenceNext]_presVars /\ [MediaNext]_mediaVars
                     /\ [WidgetNext]_widgetVars /\ [CallsNext]_callVars
  <2>1. Next => /\ PageNext \/ UNCHANGED pageVars
                /\ PresenceNext \/ UNCHANGED presVars
                /\ MediaNext \/ UNCHANGED mediaVars
                /\ WidgetNext \/ UNCHANGED widgetVars
                /\ CallsNext \/ UNCHANGED callVars
    BY DEF Next, Still
  <2>2. UNCHANGED vars => /\ UNCHANGED pageVars /\ UNCHANGED presVars /\ UNCHANGED mediaVars
                          /\ UNCHANGED widgetVars /\ UNCHANGED callVars
    BY DEF vars
  <2>3. QED BY <2>1, <2>2
<1>3. QED BY <1>1, <1>2, PTL DEF Spec, PageSpec, PresenceSpec, MediaSpec, WidgetSpec, CallsSpec

\* The types of the five, whatever the bounds.
THEOREM HomeIsTyped == Spec => []HomeTypeOK
<1>1. /\ PresenceInv => PresenceTypeOK
      /\ MediaInv => MediaTypeOK
      /\ WidgetInv => WidgetTypeOK
      /\ CallsInv => CallsTypeOK
  BY DEF PresenceInv, MediaInv, WidgetInv, CallsInv
<1>2. PageTypeOK /\ PresenceTypeOK /\ MediaTypeOK /\ WidgetTypeOK /\ CallsTypeOK => HomeTypeOK
  BY DEF HomeTypeOK
<1>3. MediaSpec => []MediaInv
  BY MediaStarts, MediaStays, PTL DEF MediaSpec
<1>4. WidgetSpec => []WidgetInv
  BY WidgetStarts, WidgetStays, PTL DEF WidgetSpec
<1>5. CallsSpec => []CallsInv
  BY CallsStart, CallsStay, PTL DEF CallsSpec
<1>6. QED
  BY <1>1, <1>2, <1>3, <1>4, <1>5, HomeIsFive, PageTypeCorrect, PresenceInvariant, PTL

=============================================================================
