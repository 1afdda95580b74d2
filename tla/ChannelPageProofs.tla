-------------------------- MODULE ChannelPageProofs --------------------------
(***************************************************************************)
(* What holds of ChannelPage however many messages, changes, read requests *)
(* and failures there are: type correctness, that a screen is stale only   *)
(* when something was lost or an event met the answer of a fetch it did    *)
(* not cancel, and that messages on the screen stay unread only when a     *)
(* request for them was lost.                                              *)
(***************************************************************************)
EXTENDS ChannelPage, TLAPS

USE PageAssumption

\* A fetch is one of the three there are.
FetchIsOne == fetch = None \/ fetch = Asked \/ fetch.state = "answered"

\* What counts as fresh, on the screen or not, is what there is, or will be.
FreshIsNow == open \/ fresh => page = Now \/ OnItsWay \/ lost \/ outrun

\* An answer that is on its way holds what there is, unless an event that is to
\* invalidate it is on its way, too, or came and did not, or one was lost.
AnswerIsNow ==
    fetch.state = "answered" => fetch.got = Now \/ events # <<>> \/ lost \/ outrun

\* The inductive invariant.  StaleViewHasACause speaks of the open channel only;
\* a channel that is opened shows what it has when that counts as fresh, and what
\* it has came with an answer.
IInv == /\ PageTypeOK
        /\ FetchIsOne
        /\ FreshIsNow
        /\ AnswerIsNow
        /\ UnreadOnScreenHasACause

-----------------------------------------------------------------------------
(* Types, part by part *)

NumbersOK ==
    /\ tip \in 0..MaxChanges /\ edited \in 0..MaxChanges
    /\ receipt \in 0..tip /\ marks \in 0..MaxMarks /\ failures \in 0..MaxFailures

StreamOK ==
    /\ stream \in {"up", "down", "dead"}
    /\ events \in Seq({"new", "update"}) /\ (stream # "up" => events = <<>>)

FlagsOK ==
    /\ healing \in BOOLEAN /\ visible \in BOOLEAN /\ open \in BOOLEAN
    /\ loaded \in BOOLEAN /\ fresh \in BOOLEAN
    /\ lost \in BOOLEAN /\ outrun \in BOOLEAN /\ owed \in BOOLEAN

FetchOK ==
    /\ fetch \in [state : {"none", "asked", "answered"}, got : Pages]
    /\ page \in Pages

\* The type invariant is its parts.
LEMMA TypeParts == PageTypeOK <=> NumbersOK /\ StreamOK /\ FlagsOK /\ FetchOK
  BY Zenon DEF PageTypeOK, NumbersOK, StreamOK, FlagsOK, FetchOK

\* Types are kept by what the server does.
LEMMA ServerTypes ==
    ASSUME PageTypeOK, Post \/ Change \/ ChannelRead \/ CompanyRead \/ ReadFails
    PROVE  PageTypeOK'
  <1> USE TypeParts DEF server, wire, cache, screen, causes
  <1>1. CASE Post
    <2>1. NumbersOK'
      BY <1>1 DEF Post, Emit, NumbersOK
    <2>2. StreamOK'
      BY <1>1 DEF Post, Emit, StreamOK
    <2>3. FlagsOK'
      BY <1>1 DEF Post, Emit, FlagsOK
    <2>4. FetchOK'
      BY <1>1 DEF Post, Emit, FetchOK, NumbersOK, Pages, Now, None, Asked, Empty
    <2> QED  BY <2>1, <2>2, <2>3, <2>4, Zenon DEF PageTypeOK, NumbersOK, StreamOK,
           FlagsOK, FetchOK
  <1>2. CASE Change
    <2>1. NumbersOK'
      BY <1>2 DEF Change, Emit, NumbersOK
    <2>2. StreamOK'
      BY <1>2 DEF Change, Emit, StreamOK
    <2>3. FlagsOK'
      BY <1>2 DEF Change, Emit, FlagsOK
    <2>4. FetchOK'
      BY <1>2 DEF Change, Emit, FetchOK, NumbersOK, Pages, Now, None, Asked, Empty
    <2> QED  BY <2>1, <2>2, <2>3, <2>4, Zenon DEF PageTypeOK, NumbersOK, StreamOK,
           FlagsOK, FetchOK
  <1>3. CASE ChannelRead
    <2>1. NumbersOK'
      BY <1>3 DEF ChannelRead, ReadToTip, NumbersOK
    <2>2. StreamOK'
      BY <1>3 DEF ChannelRead, ReadToTip, StreamOK
    <2>3. FlagsOK'
      BY <1>3 DEF ChannelRead, ReadToTip, FlagsOK
    <2>4. FetchOK'
      BY <1>3 DEF ChannelRead, ReadToTip, FetchOK, NumbersOK, Pages, Now, None,
             Asked, Empty
    <2> QED  BY <2>1, <2>2, <2>3, <2>4, Zenon DEF PageTypeOK, NumbersOK, StreamOK,
           FlagsOK, FetchOK
  <1>4. CASE CompanyRead
    <2>1. NumbersOK'
      BY <1>4 DEF CompanyRead, ReadToTip, NumbersOK
    <2>2. StreamOK'
      BY <1>4 DEF CompanyRead, ReadToTip, StreamOK
    <2>3. FlagsOK'
      BY <1>4 DEF CompanyRead, ReadToTip, FlagsOK
    <2>4. FetchOK'
      BY <1>4 DEF CompanyRead, ReadToTip, FetchOK, NumbersOK, Pages, Now, None,
             Asked, Empty
    <2> QED  BY <2>1, <2>2, <2>3, <2>4, Zenon DEF PageTypeOK, NumbersOK, StreamOK,
           FlagsOK, FetchOK
  <1>5. CASE ReadFails
    <2>1. NumbersOK'
      BY <1>5 DEF ReadFails, NumbersOK
    <2>2. StreamOK'
      BY <1>5 DEF ReadFails, StreamOK
    <2>3. FlagsOK'
      BY <1>5 DEF ReadFails, FlagsOK
    <2>4. FetchOK'
      BY <1>5 DEF ReadFails, FetchOK, NumbersOK, Pages, Now, None, Asked, Empty
    <2> QED  BY <2>1, <2>2, <2>3, <2>4, Zenon DEF PageTypeOK, NumbersOK, StreamOK,
           FlagsOK, FetchOK
  <1> QED  BY <1>1, <1>2, <1>3, <1>4, <1>5

\* Types are kept by what the stream brings.
LEMMA StreamTypes ==
    ASSUME PageTypeOK, StreamBreaks("down") \/ StreamBreaks("dead") \/
           StreamOpens \/ MessageNew \/ MessageChanged
    PROVE  PageTypeOK'
  <1> USE TypeParts DEF server, wire, cache, screen, causes
  <1>1. CASE StreamBreaks("down") \/ StreamBreaks("dead")
    <2>1. NumbersOK'
      BY <1>1 DEF StreamBreaks, LoseEvents, NumbersOK
    <2>2. StreamOK'
      <3>1. stream' \in {"down", "dead"} /\ events' = <<>>
        BY <1>1 DEF StreamBreaks, LoseEvents
      <3> QED  BY <3>1 DEF StreamOK
    <2>3. FlagsOK'
      BY <1>1 DEF StreamBreaks, LoseEvents, FlagsOK
    <2>4. FetchOK'
      BY <1>1 DEF StreamBreaks, LoseEvents, FetchOK, NumbersOK, Pages, Now, None,
             Asked, Empty
    <2> QED  BY <2>1, <2>2, <2>3, <2>4, Zenon DEF PageTypeOK, NumbersOK, StreamOK,
           FlagsOK, FetchOK
  <1>2. CASE StreamOpens
    <2>1. NumbersOK'
      BY <1>2 DEF StreamOpens, Invalidate, NumbersOK
    <2>2. StreamOK'
      BY <1>2 DEF StreamOpens, Invalidate, StreamOK
    <2>3. FlagsOK'
      BY <1>2 DEF StreamOpens, Invalidate, FlagsOK
    <2>4. FetchOK'
      BY <1>2 DEF StreamOpens, Invalidate, FetchOK, NumbersOK, Pages, Now, None,
             Asked, Empty
    <2> QED  BY <2>1, <2>2, <2>3, <2>4, Zenon DEF PageTypeOK, NumbersOK, StreamOK,
           FlagsOK, FetchOK
  <1>3. CASE MessageNew
    <2>1. NumbersOK'
      BY <1>3 DEF MessageNew, Invalidate, Mark, NoMark, NumbersOK
    <2>2. StreamOK'
      BY <1>3 DEF MessageNew, Invalidate, Mark, NoMark, StreamOK
    <2>3. FlagsOK'
      BY <1>3 DEF MessageNew, Invalidate, Mark, NoMark, FlagsOK
    <2>4. FetchOK'
      BY <1>3 DEF MessageNew, Invalidate, Mark, NoMark, FetchOK, NumbersOK, Pages,
             Now, None, Asked, Empty
    <2> QED  BY <2>1, <2>2, <2>3, <2>4, Zenon DEF PageTypeOK, NumbersOK, StreamOK,
           FlagsOK, FetchOK
  <1>4. CASE MessageChanged
    <2>1. NumbersOK'
      BY <1>4 DEF MessageChanged, Invalidate, NumbersOK
    <2>2. StreamOK'
      BY <1>4 DEF MessageChanged, Invalidate, StreamOK
    <2>3. FlagsOK'
      BY <1>4 DEF MessageChanged, Invalidate, FlagsOK
    <2>4. FetchOK'
      BY <1>4 DEF MessageChanged, Invalidate, FetchOK, NumbersOK, Pages, Now, None,
             Asked, Empty
    <2> QED  BY <2>1, <2>2, <2>3, <2>4, Zenon DEF PageTypeOK, NumbersOK, StreamOK,
           FlagsOK, FetchOK
  <1> QED  BY <1>1, <1>2, <1>3, <1>4

\* Types are kept by a fetch, answered or not.
LEMMA FetchTypes ==
    ASSUME PageTypeOK, MessagesAnswered \/ MessagesShown \/ MessagesFail \/ Forget
    PROVE  PageTypeOK'
  <1> USE TypeParts DEF server, wire, cache, screen, causes
  <1>1. CASE MessagesAnswered
    <2>1. NumbersOK'
      BY <1>1 DEF MessagesAnswered, NumbersOK
    <2>2. StreamOK'
      BY <1>1 DEF MessagesAnswered, StreamOK
    <2>3. FlagsOK'
      BY <1>1 DEF MessagesAnswered, FlagsOK
    <2>4. FetchOK'
      BY <1>1 DEF MessagesAnswered, FetchOK, NumbersOK, Pages, Now, None, Asked, Empty
    <2> QED  BY <2>1, <2>2, <2>3, <2>4, Zenon DEF PageTypeOK, NumbersOK, StreamOK,
           FlagsOK, FetchOK
  <1>2. CASE MessagesShown
    <2>1. NumbersOK'
      BY <1>2 DEF MessagesShown, NumbersOK
    <2>2. StreamOK'
      BY <1>2 DEF MessagesShown, StreamOK
    <2>3. FlagsOK'
      BY <1>2 DEF MessagesShown, FlagsOK
    <2>4. FetchOK'
      BY <1>2 DEF MessagesShown, FetchOK, NumbersOK, Pages, Now, None, Asked, Empty
    <2> QED  BY <2>1, <2>2, <2>3, <2>4, Zenon DEF PageTypeOK, NumbersOK, StreamOK,
           FlagsOK, FetchOK
  <1>3. CASE MessagesFail
    <2>1. NumbersOK'
      BY <1>3 DEF MessagesFail, NumbersOK
    <2>2. StreamOK'
      BY <1>3 DEF MessagesFail, StreamOK
    <2>3. FlagsOK'
      BY <1>3 DEF MessagesFail, FlagsOK
    <2>4. FetchOK'
      BY <1>3 DEF MessagesFail, FetchOK, NumbersOK, Pages, Now, None, Asked, Empty
    <2> QED  BY <2>1, <2>2, <2>3, <2>4, Zenon DEF PageTypeOK, NumbersOK, StreamOK,
           FlagsOK, FetchOK
  <1>4. CASE Forget
    <2>1. NumbersOK'
      BY <1>4 DEF Forget, NumbersOK
    <2>2. StreamOK'
      BY <1>4 DEF Forget, StreamOK
    <2>3. FlagsOK'
      BY <1>4 DEF Forget, FlagsOK
    <2>4. FetchOK'
      BY <1>4 DEF Forget, FetchOK, NumbersOK, Pages, Now, None, Asked, Empty
    <2> QED  BY <2>1, <2>2, <2>3, <2>4, Zenon DEF PageTypeOK, NumbersOK, StreamOK,
           FlagsOK, FetchOK
  <1> QED  BY <1>1, <1>2, <1>3, <1>4

\* Types are kept by what the reader does.
LEMMA ScreenTypes ==
    ASSUME PageTypeOK, SelectChannel \/ ShowChannel \/ SelectAnother \/
           HidePage \/ ShowPage
    PROVE  PageTypeOK'
  <1> USE TypeParts DEF server, wire, cache, screen, causes
  <1>1. CASE SelectChannel
    <2>1. NumbersOK'
      BY <1>1 DEF SelectChannel, Opens, Mark, NumbersOK
    <2>2. StreamOK'
      BY <1>1 DEF SelectChannel, Opens, Mark, StreamOK
    <2>3. FlagsOK'
      BY <1>1 DEF SelectChannel, Opens, Mark, FlagsOK
    <2>4. FetchOK'
      BY <1>1 DEF SelectChannel, Opens, Mark, FetchOK, NumbersOK, Pages, Now, None,
             Asked, Empty
    <2> QED  BY <2>1, <2>2, <2>3, <2>4, Zenon DEF PageTypeOK, NumbersOK, StreamOK,
           FlagsOK, FetchOK
  <1>2. CASE ShowChannel
    <2>1. NumbersOK'
      BY <1>2 DEF ShowChannel, Opens, NumbersOK
    <2>2. StreamOK'
      BY <1>2 DEF ShowChannel, Opens, StreamOK
    <2>3. FlagsOK'
      BY <1>2 DEF ShowChannel, Opens, FlagsOK
    <2>4. FetchOK'
      BY <1>2 DEF ShowChannel, Opens, FetchOK, NumbersOK, Pages, Now, None, Asked, Empty
    <2> QED  BY <2>1, <2>2, <2>3, <2>4, Zenon DEF PageTypeOK, NumbersOK, StreamOK,
           FlagsOK, FetchOK
  <1>3. CASE SelectAnother
    <2>1. NumbersOK'
      BY <1>3 DEF SelectAnother, NumbersOK
    <2>2. StreamOK'
      BY <1>3 DEF SelectAnother, StreamOK
    <2>3. FlagsOK'
      BY <1>3 DEF SelectAnother, FlagsOK
    <2>4. FetchOK'
      BY <1>3 DEF SelectAnother, FetchOK, NumbersOK, Pages, Now, None, Asked, Empty
    <2> QED  BY <2>1, <2>2, <2>3, <2>4, Zenon DEF PageTypeOK, NumbersOK, StreamOK,
           FlagsOK, FetchOK
  <1>4. CASE HidePage
    <2>1. NumbersOK'
      BY <1>4 DEF HidePage, NumbersOK
    <2>2. StreamOK'
      BY <1>4 DEF HidePage, StreamOK
    <2>3. FlagsOK'
      BY <1>4 DEF HidePage, FlagsOK
    <2>4. FetchOK'
      BY <1>4 DEF HidePage, FetchOK, NumbersOK, Pages, Now, None, Asked, Empty
    <2> QED  BY <2>1, <2>2, <2>3, <2>4, Zenon DEF PageTypeOK, NumbersOK, StreamOK,
           FlagsOK, FetchOK
  <1>5. CASE ShowPage
    <2>1. NumbersOK'
      BY <1>5 DEF ShowPage, LoseEvents, Mark, NoMark, NumbersOK
    <2>2. StreamOK'
      BY <1>5 DEF ShowPage, LoseEvents, Mark, NoMark, StreamOK
    <2>3. FlagsOK'
      BY <1>5 DEF ShowPage, LoseEvents, Mark, NoMark, FlagsOK
    <2>4. FetchOK'
      BY <1>5 DEF ShowPage, LoseEvents, Mark, NoMark, FetchOK, NumbersOK, Pages,
             Now, None, Asked, Empty
    <2> QED  BY <2>1, <2>2, <2>3, <2>4, Zenon DEF PageTypeOK, NumbersOK, StreamOK,
           FlagsOK, FetchOK
  <1> QED  BY <1>1, <1>2, <1>3, <1>4, <1>5

LEMMA TypeStep == PageTypeOK /\ PageNext => PageTypeOK'
  BY ServerTypes, StreamTypes, FetchTypes, ScreenTypes DEF PageNext

-----------------------------------------------------------------------------
(* What is fetched, and what is shown *)

ViewOK == FetchIsOne /\ FreshIsNow /\ AnswerIsNow

\* New messages and changes send an event, or are lost.
LEMMA ServerView ==
    ASSUME PageTypeOK, ViewOK, Post \/ Change \/ ChannelRead \/ CompanyRead \/ ReadFails
    PROVE  ViewOK'
  <1> USE TypeParts DEF ViewOK, server, wire, cache, screen, causes
  <1>1. CASE Post
    <2>1. FetchIsOne'
      BY <1>1 DEF Post, Emit, FetchIsOne, None, Asked
    <2>2. FreshIsNow'
      BY <1>1 DEF Post, Emit, FreshIsNow, FetchIsOne, AnswerIsNow, OnItsWay, Now,
             None, Asked, Empty, StreamOK, FlagsOK, NumbersOK
    <2>3. AnswerIsNow'
      BY <1>1 DEF Post, Emit, AnswerIsNow, FetchIsOne, Now, None, Asked, Empty,
             StreamOK, FlagsOK, NumbersOK
    <2> QED  BY <2>1, <2>2, <2>3
  <1>2. CASE Change
    <2>1. FetchIsOne'
      BY <1>2 DEF Change, Emit, FetchIsOne, None, Asked
    <2>2. FreshIsNow'
      BY <1>2 DEF Change, Emit, FreshIsNow, FetchIsOne, AnswerIsNow, OnItsWay, Now,
             None, Asked, Empty, StreamOK, FlagsOK, NumbersOK
    <2>3. AnswerIsNow'
      BY <1>2 DEF Change, Emit, AnswerIsNow, FetchIsOne, Now, None, Asked, Empty,
             StreamOK, FlagsOK, NumbersOK
    <2> QED  BY <2>1, <2>2, <2>3
  <1>3. CASE ChannelRead
    <2>1. FetchIsOne'
      BY <1>3 DEF ChannelRead, ReadToTip, FetchIsOne, None, Asked
    <2>2. FreshIsNow'
      BY <1>3 DEF ChannelRead, ReadToTip, FreshIsNow, FetchIsOne, AnswerIsNow,
             OnItsWay, Now, None, Asked, Empty, StreamOK, FlagsOK, NumbersOK
    <2>3. AnswerIsNow'
      BY <1>3 DEF ChannelRead, ReadToTip, AnswerIsNow, FetchIsOne, Now, None, Asked,
             Empty, StreamOK, FlagsOK, NumbersOK
    <2> QED  BY <2>1, <2>2, <2>3
  <1>4. CASE CompanyRead
    <2>1. FetchIsOne'
      BY <1>4 DEF CompanyRead, ReadToTip, FetchIsOne, None, Asked
    <2>2. FreshIsNow'
      BY <1>4 DEF CompanyRead, ReadToTip, FreshIsNow, FetchIsOne, AnswerIsNow,
             OnItsWay, Now, None, Asked, Empty, StreamOK, FlagsOK, NumbersOK
    <2>3. AnswerIsNow'
      BY <1>4 DEF CompanyRead, ReadToTip, AnswerIsNow, FetchIsOne, Now, None, Asked,
             Empty, StreamOK, FlagsOK, NumbersOK
    <2> QED  BY <2>1, <2>2, <2>3
  <1>5. CASE ReadFails
    <2>1. FetchIsOne'
      BY <1>5 DEF ReadFails, FetchIsOne, None, Asked
    <2>2. FreshIsNow'
      BY <1>5 DEF ReadFails, FreshIsNow, FetchIsOne, AnswerIsNow, OnItsWay, Now,
             None, Asked, Empty, StreamOK, FlagsOK, NumbersOK
    <2>3. AnswerIsNow'
      BY <1>5 DEF ReadFails, AnswerIsNow, FetchIsOne, Now, None, Asked, Empty,
             StreamOK, FlagsOK, NumbersOK
    <2> QED  BY <2>1, <2>2, <2>3
  <1> QED  BY <1>1, <1>2, <1>3, <1>4, <1>5

\* An event has the channel fetched, or the answer that it lets stand is outrun.
LEMMA LetStand == Invalidate => AnswerIsNow'
  <1>1. Invalidate => fetch' = Asked \/ (fetch.state = "answered" /\ fetch' = fetch => outrun')
    BY DEF Invalidate
  <1>2. Invalidate => fetch' = Asked \/ fetch' = fetch
    BY DEF Invalidate
  <1> QED  BY <1>1, <1>2 DEF AnswerIsNow, Asked

\* An event that is handled has the open channel fetched, but for its first load, and
\* an answer that is let stand is counted as outrun.
LEMMA StreamView ==
    ASSUME PageTypeOK, ViewOK, StreamBreaks("down") \/ StreamBreaks("dead") \/
           StreamOpens \/ MessageNew \/ MessageChanged
    PROVE  ViewOK'
  <1> USE TypeParts DEF ViewOK, server, wire, cache, screen, causes
  <1>1. CASE StreamBreaks("down") \/ StreamBreaks("dead")
    <2>1. FetchIsOne'
      BY <1>1 DEF StreamBreaks, LoseEvents, FetchIsOne, None, Asked
    <2>2. FreshIsNow'
      BY <1>1 DEF StreamBreaks, LoseEvents, FreshIsNow, FetchIsOne, AnswerIsNow,
             OnItsWay, Now, None, Asked, Empty, StreamOK, FlagsOK, NumbersOK
    <2>3. AnswerIsNow'
      BY <1>1 DEF StreamBreaks, LoseEvents, AnswerIsNow, FetchIsOne, Now, None,
             Asked, Empty, StreamOK, FlagsOK, NumbersOK
    <2> QED  BY <2>1, <2>2, <2>3
  <1>2. CASE StreamOpens
    <2>1. FetchIsOne'
      BY <1>2 DEF StreamOpens, Invalidate, FetchIsOne, None, Asked
    <2>2. FreshIsNow'
      BY <1>2 DEF StreamOpens, Invalidate, FreshIsNow, FetchIsOne, AnswerIsNow,
             OnItsWay, Now, None, Asked, Empty, StreamOK, FlagsOK, NumbersOK
    <2>3. AnswerIsNow'
      BY <1>2 DEF StreamOpens, Invalidate, AnswerIsNow, FetchIsOne, Now, None,
             Asked, Empty, StreamOK, FlagsOK, NumbersOK
    <2> QED  BY <2>1, <2>2, <2>3
  <1>3. CASE MessageNew
    <2>1. FetchIsOne'
      BY <1>3 DEF MessageNew, Invalidate, Mark, NoMark, FetchIsOne, None, Asked
    <2>2. FreshIsNow'
      BY <1>3 DEF MessageNew, Invalidate, Mark, NoMark, FreshIsNow, FetchIsOne,
             AnswerIsNow, OnItsWay, Now, None, Asked, Empty, StreamOK, FlagsOK, NumbersOK
    <2>3. AnswerIsNow'
      <3>1. Invalidate
        BY <1>3 DEF MessageNew
      <3> QED  BY <3>1, LetStand
    <2> QED  BY <2>1, <2>2, <2>3
  <1>4. CASE MessageChanged
    <2>1. FetchIsOne'
      BY <1>4 DEF MessageChanged, Invalidate, FetchIsOne, None, Asked
    <2>2. FreshIsNow'
      BY <1>4 DEF MessageChanged, Invalidate, FreshIsNow, FetchIsOne, AnswerIsNow,
             OnItsWay, Now, None, Asked, Empty, StreamOK, FlagsOK, NumbersOK
    <2>3. AnswerIsNow'
      <3>1. Invalidate
        BY <1>4 DEF MessageChanged
      <3> QED  BY <3>1, LetStand
    <2> QED  BY <2>1, <2>2, <2>3
  <1> QED  BY <1>1, <1>2, <1>3, <1>4

\* An answer holds what there is when it is given.
LEMMA FetchView ==
    ASSUME PageTypeOK, ViewOK, MessagesAnswered \/ MessagesShown \/ MessagesFail \/ Forget
    PROVE  ViewOK'
  <1> USE TypeParts DEF ViewOK, server, wire, cache, screen, causes
  <1>1. CASE MessagesAnswered
    <2>1. FetchIsOne'
      BY <1>1 DEF MessagesAnswered, FetchIsOne, None, Asked
    <2>2. FreshIsNow'
      BY <1>1 DEF MessagesAnswered, FreshIsNow, FetchIsOne, AnswerIsNow, OnItsWay,
             Now, None, Asked, Empty, StreamOK, FlagsOK, NumbersOK
    <2>3. AnswerIsNow'
      BY <1>1 DEF MessagesAnswered, AnswerIsNow, FetchIsOne, Now, None, Asked,
             Empty, StreamOK, FlagsOK, NumbersOK
    <2> QED  BY <2>1, <2>2, <2>3
  <1>2. CASE MessagesShown
    <2>1. FetchIsOne'
      BY <1>2 DEF MessagesShown, FetchIsOne, None, Asked
    <2>2. FreshIsNow'
      BY <1>2 DEF MessagesShown, FreshIsNow, FetchIsOne, AnswerIsNow, OnItsWay, Now,
             None, Asked, Empty, StreamOK, FlagsOK, NumbersOK
    <2>3. AnswerIsNow'
      BY <1>2 DEF MessagesShown, AnswerIsNow, FetchIsOne, Now, None, Asked, Empty,
             StreamOK, FlagsOK, NumbersOK
    <2> QED  BY <2>1, <2>2, <2>3
  <1>3. CASE MessagesFail
    <2>1. FetchIsOne'
      BY <1>3 DEF MessagesFail, FetchIsOne, None, Asked
    <2>2. FreshIsNow'
      BY <1>3 DEF MessagesFail, FreshIsNow, FetchIsOne, AnswerIsNow, OnItsWay, Now,
             None, Asked, Empty, StreamOK, FlagsOK, NumbersOK
    <2>3. AnswerIsNow'
      BY <1>3 DEF MessagesFail, AnswerIsNow, FetchIsOne, Now, None, Asked, Empty,
             StreamOK, FlagsOK, NumbersOK
    <2> QED  BY <2>1, <2>2, <2>3
  <1>4. CASE Forget
    BY <1>4 DEF Forget, FetchIsOne, FreshIsNow, AnswerIsNow, None, Asked, FlagsOK
  <1> QED  BY <1>1, <1>2, <1>3, <1>4

\* A channel that is opened is fetched or fresh.
LEMMA ScreenView ==
    ASSUME PageTypeOK, ViewOK, SelectChannel \/ ShowChannel \/ SelectAnother
           \/ HidePage \/ ShowPage
    PROVE  ViewOK'
  <1> USE TypeParts DEF ViewOK, server, wire, cache, screen, causes
  <1>1. CASE SelectChannel
    <2>1. FetchIsOne'
      BY <1>1 DEF SelectChannel, Opens, Mark, FetchIsOne, None, Asked
    <2>2. FreshIsNow'
      BY <1>1 DEF SelectChannel, Opens, Mark, FreshIsNow, FetchIsOne, AnswerIsNow,
             OnItsWay, Now, None, Asked, Empty, StreamOK, FlagsOK, NumbersOK
    <2>3. AnswerIsNow'
      BY <1>1 DEF SelectChannel, Opens, Mark, AnswerIsNow, FetchIsOne, Now, None,
             Asked, Empty, StreamOK, FlagsOK, NumbersOK
    <2> QED  BY <2>1, <2>2, <2>3
  <1>2. CASE ShowChannel
    <2>1. FetchIsOne'
      BY <1>2 DEF ShowChannel, Opens, FetchIsOne, None, Asked
    <2>2. FreshIsNow'
      BY <1>2 DEF ShowChannel, Opens, FreshIsNow, FetchIsOne, AnswerIsNow, OnItsWay,
             Now, None, Asked, Empty, StreamOK, FlagsOK, NumbersOK
    <2>3. AnswerIsNow'
      BY <1>2 DEF ShowChannel, Opens, AnswerIsNow, FetchIsOne, Now, None, Asked,
             Empty, StreamOK, FlagsOK, NumbersOK
    <2> QED  BY <2>1, <2>2, <2>3
  <1>3. CASE SelectAnother
    <2>1. FetchIsOne'
      BY <1>3 DEF SelectAnother, FetchIsOne, None, Asked
    <2>2. FreshIsNow'
      BY <1>3 DEF SelectAnother, FreshIsNow, FetchIsOne, AnswerIsNow, OnItsWay, Now,
             None, Asked, Empty, StreamOK, FlagsOK, NumbersOK
    <2>3. AnswerIsNow'
      BY <1>3 DEF SelectAnother, AnswerIsNow, FetchIsOne, Now, None, Asked, Empty,
             StreamOK, FlagsOK, NumbersOK
    <2> QED  BY <2>1, <2>2, <2>3
  <1>4. CASE HidePage
    <2>1. FetchIsOne'
      BY <1>4 DEF HidePage, FetchIsOne, None, Asked
    <2>2. FreshIsNow'
      BY <1>4 DEF HidePage, FreshIsNow, FetchIsOne, AnswerIsNow, OnItsWay, Now,
             None, Asked, Empty, StreamOK, FlagsOK, NumbersOK
    <2>3. AnswerIsNow'
      BY <1>4 DEF HidePage, AnswerIsNow, FetchIsOne, Now, None, Asked, Empty,
             StreamOK, FlagsOK, NumbersOK
    <2> QED  BY <2>1, <2>2, <2>3
  <1>5. CASE ShowPage
    <2>1. FetchIsOne'
      BY <1>5 DEF ShowPage, LoseEvents, Mark, NoMark, FetchIsOne, None, Asked
    <2>2. FreshIsNow'
      <3>1. /\ UNCHANGED <<open, page, fresh, tip, edited>>
            /\ fetch' = Asked \/ UNCHANGED fetch
            /\ lost' = (lost \/ events # <<>>) /\ UNCHANGED outrun
        BY <1>5 DEF ShowPage, LoseEvents
      <3> QED  BY <3>1 DEF FreshIsNow, OnItsWay, Now, None, Asked, FlagsOK
    <2>3. AnswerIsNow'
      <3>1. /\ UNCHANGED <<tip, edited>>
            /\ fetch' = Asked \/ UNCHANGED fetch
            /\ lost' = (lost \/ events # <<>>) /\ UNCHANGED outrun
        BY <1>5 DEF ShowPage, LoseEvents
      <3>2. CASE fetch' = Asked
        BY <3>2 DEF AnswerIsNow, Asked
      <3>3. CASE UNCHANGED fetch
        BY <3>1, <3>3 DEF AnswerIsNow, Now, FlagsOK
      <3> QED  BY <3>1, <3>2, <3>3
    <2> QED  BY <2>1, <2>2, <2>3
  <1> QED  BY <1>1, <1>2, <1>3, <1>4, <1>5

LEMMA ViewStep == PageTypeOK /\ ViewOK /\ PageNext => ViewOK'
  BY ServerView, StreamView, FetchView, ScreenView DEF PageNext

-----------------------------------------------------------------------------
(* What is read *)

\* The event that will mark a message stays until it is handled.
LEMMA NewStays ==
    ASSUME PageTypeOK, MessageChanged,
           NEW i \in DOMAIN events, events[i] = "new"
    PROVE  \E j \in DOMAIN events' : events'[j] = "new"
  <1>1. events \in Seq({"new", "update"}) /\ events # <<>> /\ events' = Tail(events)
    BY TypeParts DEF StreamOK, MessageChanged
  <1>2. i \in 2..Len(events)
    BY <1>1 DEF MessageChanged
  <1>3. i - 1 \in DOMAIN Tail(events) /\ Tail(events)[i - 1] = "new"
    BY <1>1, <1>2
  <1> QED  BY <1>1, <1>3

\* A message sends the event that marks it, or its reading is owed.
LEMMA ServerRead ==
    ASSUME PageTypeOK, UnreadOnScreenHasACause, Post \/ Change \/ ChannelRead
           \/ CompanyRead \/ ReadFails
    PROVE  UnreadOnScreenHasACause'
  <1> USE TypeParts DEF server, wire, cache, screen, causes, NumbersOK, StreamOK, FlagsOK
  <1>1. CASE Post
    <2>1. UNCHANGED <<marks, receipt, open, visible>>
      BY <1>1 DEF Post
    <2>2. CASE stream = "up"
      <3>1. events' = Append(events, "new")
        BY <1>1, <2>2 DEF Post, Emit
      <3>2. Len(events) + 1 \in DOMAIN events' /\ events'[Len(events) + 1] = "new"
        BY <3>1
      <3> QED  BY <3>2 DEF UnreadOnScreenHasACause
    <2>3. CASE stream # "up"
      <3>1. owed' = (owed \/ (open /\ visible))
        BY <1>1, <2>3 DEF Post, Emit
      <3> QED  BY <2>1, <3>1 DEF UnreadOnScreenHasACause
    <2> QED  BY <2>2, <2>3
  <1>2. CASE Change
    <2>1. UNCHANGED <<tip, marks, receipt, open, visible>>
      BY <1>2 DEF Change
    <2>2. CASE stream = "up"
      <3>1. events' = Append(events, "update") /\ UNCHANGED owed
        BY <1>2, <2>2 DEF Change, Emit
      <3>2. ASSUME NEW i \in DOMAIN events, events[i] = "new"
            PROVE  i \in DOMAIN events' /\ events'[i] = "new"
        BY <3>1, <3>2
      <3> QED  BY <2>1, <3>1, <3>2 DEF UnreadOnScreenHasACause
    <2>3. CASE stream # "up"
      <3>1. owed' = (owed \/ ("update" = "new" /\ open /\ visible)) /\ UNCHANGED events
        BY <1>2, <2>3 DEF Change, Emit
      <3> QED  BY <2>1, <3>1 DEF UnreadOnScreenHasACause
    <2> QED  BY <2>2, <2>3
  <1>3. CASE ChannelRead
    BY <1>3 DEF ChannelRead, ReadToTip, ToRead, UnreadOnScreenHasACause
  <1>4. CASE CompanyRead
    BY <1>4 DEF CompanyRead, ReadToTip, ToRead, UnreadOnScreenHasACause
  <1>5. CASE ReadFails
    BY <1>5 DEF ReadFails, ToRead, UnreadOnScreenHasACause
  <1> QED  BY <1>1, <1>2, <1>3, <1>4, <1>5

\* The event is handled, lost, or stays.
LEMMA StreamRead ==
    ASSUME PageTypeOK, UnreadOnScreenHasACause, StreamBreaks("down") \/
           StreamBreaks("dead") \/ StreamOpens \/ MessageNew \/ MessageChanged
    PROVE  UnreadOnScreenHasACause'
  <1> USE TypeParts DEF server, wire, cache, screen, causes, NumbersOK, StreamOK, FlagsOK
  <1>1. CASE StreamBreaks("down") \/ StreamBreaks("dead")
    BY <1>1 DEF StreamBreaks, LoseEvents, ToRead, UnreadOnScreenHasACause
  <1>2. CASE StreamOpens
    BY <1>2 DEF StreamOpens, Invalidate, ToRead, UnreadOnScreenHasACause
  <1>3. CASE MessageNew
    BY <1>3 DEF MessageNew, Invalidate, Mark, NoMark, ToRead, UnreadOnScreenHasACause
  <1>4. CASE MessageChanged
    <2>1. UNCHANGED <<open, visible, receipt, tip, marks, owed>>
      BY <1>4 DEF MessageChanged
    <2> QED  BY <1>4, <2>1, NewStays DEF UnreadOnScreenHasACause
  <1> QED  BY <1>1, <1>2, <1>3, <1>4

\* A fetch has no part in it.
LEMMA FetchRead ==
    ASSUME PageTypeOK, UnreadOnScreenHasACause, MessagesAnswered \/
           MessagesShown \/ MessagesFail \/ Forget
    PROVE  UnreadOnScreenHasACause'
  <1> USE TypeParts DEF server, wire, cache, screen, causes, NumbersOK, StreamOK, FlagsOK
  <1>1. CASE MessagesAnswered
    BY <1>1 DEF MessagesAnswered, ToRead, UnreadOnScreenHasACause
  <1>2. CASE MessagesShown
    BY <1>2 DEF MessagesShown, ToRead, UnreadOnScreenHasACause
  <1>3. CASE MessagesFail
    BY <1>3 DEF MessagesFail, ToRead, UnreadOnScreenHasACause
  <1>4. CASE Forget
    BY <1>4 DEF Forget, ToRead, UnreadOnScreenHasACause
  <1> QED  BY <1>1, <1>2, <1>3, <1>4

\* A channel that comes on the screen is marked, or owed.
LEMMA ScreenRead ==
    ASSUME PageTypeOK, UnreadOnScreenHasACause, SelectChannel \/ ShowChannel
           \/ SelectAnother \/ HidePage \/ ShowPage
    PROVE  UnreadOnScreenHasACause'
  <1> USE TypeParts DEF server, wire, cache, screen, causes, NumbersOK, StreamOK, FlagsOK
  <1>1. CASE SelectChannel
    BY <1>1 DEF SelectChannel, Opens, Mark, ToRead, UnreadOnScreenHasACause
  <1>2. CASE ShowChannel
    BY <1>2 DEF ShowChannel, Opens, ToRead, UnreadOnScreenHasACause
  <1>3. CASE SelectAnother
    BY <1>3 DEF SelectAnother, ToRead, UnreadOnScreenHasACause
  <1>4. CASE HidePage
    BY <1>4 DEF HidePage, ToRead, UnreadOnScreenHasACause
  <1>5. CASE ShowPage
    BY <1>5 DEF ShowPage, LoseEvents, Mark, NoMark, ToRead, UnreadOnScreenHasACause
  <1> QED  BY <1>1, <1>2, <1>3, <1>4, <1>5

LEMMA ReadStep == PageTypeOK /\ UnreadOnScreenHasACause /\ PageNext
                    => UnreadOnScreenHasACause'
  BY ServerRead, StreamRead, FetchRead, ScreenRead DEF PageNext

-----------------------------------------------------------------------------
(* The theorems *)

\* The page starts well: a channel that is open is being fetched.
LEMMA InitIInv == PageInit => IInv
  <1> SUFFICES ASSUME PageInit PROVE IInv
    OBVIOUS
  <1> USE DEF PageInit
  <1>1. NumbersOK
    BY DEF NumbersOK
  <1>5. StreamOK
    BY DEF StreamOK
  <1>6. FlagsOK
    BY DEF FlagsOK
  <1>2. FetchOK
    BY DEF FetchOK, Pages, None, Asked, Empty
  <1>3. FetchIsOne /\ FreshIsNow /\ AnswerIsNow
    BY DEF FetchIsOne, FreshIsNow, AnswerIsNow, OnItsWay, Empty, None, Asked, Now
  <1>4. UnreadOnScreenHasACause
    BY DEF UnreadOnScreenHasACause
  <1> QED  BY <1>1, <1>2, <1>3, <1>4, <1>5, <1>6, TypeParts DEF IInv

\* A stutter changes nothing.
LEMMA StutterIInv == IInv /\ UNCHANGED pageVars => IInv'
  BY DEF IInv, PageTypeOK, FetchIsOne, FreshIsNow, AnswerIsNow, OnItsWay,
         UnreadOnScreenHasACause, Pages, Empty, None, Asked, Now,
         pageVars, server, wire, cache, screen, causes

LEMMA NextIInv == IInv /\ [PageNext]_pageVars => IInv'
  <1>1. ASSUME IInv, PageNext PROVE IInv'
    BY <1>1, TypeStep, ViewStep, ReadStep DEF IInv, ViewOK
  <1> QED  BY <1>1, StutterIInv

\* The inductive invariant.
THEOREM InductiveInvariant == PageSpec => []IInv
  BY InitIInv, NextIInv, PTL DEF PageSpec

\* Types, for every bound; a receipt never passes the last message and a stream
\* that is down delivers nothing.
THEOREM PageTypeCorrect == PageSpec => []PageTypeOK
  <1>1. IInv => PageTypeOK
    BY DEF IInv
  <1> QED  BY <1>1, InductiveInvariant, PTL

\* The open channel is stale only while the remedy is on its way, or after an event or an
\* answer was lost, or after an event came that let an older answer stand (the first load
\* of a channel, a channel not on the screen), however they interleave.
THEOREM ViewIsCurrent == PageSpec => []StaleViewHasACause
  <1>1. IInv => StaleViewHasACause
    BY DEF IInv, FreshIsNow, StaleViewHasACause
  <1> QED  BY <1>1, InductiveInvariant, PTL

\* What is on the screen stays unread only for one of the causes named.
THEOREM ScreenIsRead == PageSpec => []UnreadOnScreenHasACause
  <1>1. IInv => UnreadOnScreenHasACause
    BY DEF IInv
  <1> QED  BY <1>1, InductiveInvariant, PTL

=============================================================================
