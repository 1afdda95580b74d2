-------------------------- MODULE BackgroundProofs --------------------------
(***************************************************************************)
(* What holds of the other work that goes on by itself, for any bounds.    *)
(* The poller announces no placement twice; a cached one was announced,    *)
(* will be, or was cut off by a stop.  A channel records twice only after  *)
(* two starts overlapped, and an egress that runs can be stopped.  A note  *)
(* is told once to a reader.  A count that stays wrong on a badge has a    *)
(* cause.  The credits of a month add up to what the dashboard shows, or   *)
(* something explains the difference.  The behaviours MCBackground checks  *)
(* are behaviours of each of the eight, which types them all.              *)
(***************************************************************************)
EXTENDS MCBackground, MeetingClerkProofs, SequenceTheorems, FiniteSetTheorems


-----------------------------------------------------------------------------
(* The Crelate poller *)

USE PollerAssumption

\* A pass has something to announce only while it announces, and pushes one of it.
Shape ==
    \A s \in Slots :
       /\ passes[s].stage \in {"idle", "jobs", "placements"} => passes[s].todo = {}
       /\ passes[s].stage = "pushing" =>
             \E p \in passes[s].todo : passes[s].found = {p}

\* No two passes announce the same placement.
Apart == \A s, t \in Slots : s # t => passes[s].todo \cap passes[t].todo = {}

\* The placement whose push pass s awaits.
Pushing(s) == IF passes[s].stage = "pushing" THEN passes[s].found ELSE {}

\* What a pass has still to announce has not been announced.
TodoIsUntold ==
    \A s \in Slots : \A p \in passes[s].todo \ Pushing(s) : told[p] = 0

\* What a pass pushes was announced once.
PushingIsTold == \A s \in Slots : \A p \in Pushing(s) : told[p] = 1

\* What is not cached is nobody's to announce and has not been announced.
UncachedIsUntold == \A p \in Placements \ cache : told[p] = 0

\* The two halves of EachToldOnce.
ToldOnce == \A p \in Placements : told[p] <= 1

\* What is cached was announced, will be, or was cut off.
CachedAreTold ==
    \A p \in cache : told[p] = 1 \/ p \in cutOff \/ \E s \in Slots : p \in passes[s].todo

\* A server that is down has no pass at work.
DownIsIdle == ~up => \A s \in Slots : passes[s] = Idle

\* What is kept of the announcements.
Assured == Apart /\ TodoIsUntold /\ PushingIsTold /\ UncachedIsUntold /\ ToldOnce /\ CachedAreTold

\* The inductive invariant: the transaction that caches a placement gives it to one
\* pass, which counts it as told when it posts it and lets go of it afterwards.
PollerInv == /\ PollerTypeOK
        /\ Shape
        /\ DownIsIdle
        /\ Assured

-----------------------------------------------------------------------------
(* Types, part by part *)

\* A pass, as it waits.
Passes == [stage : {"idle", "jobs", "placements", "notify", "pushing"},
           seed : BOOLEAN, got : 0..jobs,
           found : SUBSET remote, todo : SUBSET cache]

\* Every slot holds a pass.
PassTypes == passes \in [Slots -> Passes]

\* The types of the rest.
RestTypes ==
    /\ up \in BOOLEAN
    /\ remote \subseteq Placements /\ cache \subseteq remote
    /\ notified \subseteq cache /\ cutOff \subseteq cache /\ seeded \subseteq cache
    /\ jobs \in 1..(MaxJobChanges + 1) /\ jobsCache \in 0..jobs
    /\ told \in [Placements -> Nat] /\ downs \in 0..MaxPollerStops
    /\ refused \in 0..MaxRefusals

\* The type invariant is its parts.
LEMMA TypeParts == PollerTypeOK <=> PassTypes /\ RestTypes
  BY Zenon DEF PollerTypeOK, PassTypes, RestTypes, Passes

\* What the types of the passes rest on only grows.
LEMMA PassesGrow ==
    ASSUME RestTypes, RestTypes', remote \subseteq remote', cache \subseteq cache', jobs <= jobs'
    PROVE  Passes \subseteq Passes'
  <1>1. jobs \in Nat /\ jobs' \in Nat
    BY PollerAssumption DEF RestTypes
  <1>2. 0..jobs \subseteq 0..jobs'
    BY <1>1
  <1> QED  BY <1>2 DEF Passes

\* An idle pass is a pass, and one that asks is.
LEMMA IdleIsAPass == Idle.todo = {} /\ Idle.stage = "idle" /\ (RestTypes => Idle \in Passes)
  <1>1. RestTypes => 0 \in 0..jobs
    BY PollerAssumption DEF RestTypes
  <1> QED  BY <1>1 DEF Idle, Passes

\* A pass that begins to ask is a pass.
LEMMA AskingIsAPass ==
    ASSUME RestTypes, NEW b \in BOOLEAN
    PROVE  Asking(b) \in Passes /\ Asking(b).stage = "jobs" /\ Asking(b).todo = {}
  <1>1. jobs \in 0..jobs
    BY PollerAssumption DEF RestTypes
  <1>2. Idle \in Passes
    BY IdleIsAPass
  <1> QED  BY <1>1, <1>2, Zenon DEF Asking, Idle, Passes

-----------------------------------------------------------------------------
(* Steps that announce nothing *)

\* A step that leaves the notices, the cache and what each pass has to announce as
\* they are leaves everything settled.
LEMMA QuietStep ==
    ASSUME Assured, UNCHANGED <<told, cutOff, cache>>,
           \A x \in Slots : passes'[x].todo = passes[x].todo /\ Pushing(x)' = Pushing(x)
    PROVE  Assured'
  <1>1. Apart' /\ ToldOnce' /\ UncachedIsUntold'
    BY DEF Assured, Apart, ToldOnce, UncachedIsUntold
  <1>2. TodoIsUntold' /\ PushingIsTold'
    BY DEF Assured, TodoIsUntold, PushingIsTold
  <1>3. CachedAreTold'
    BY DEF Assured, CachedAreTold
  <1> QED  BY <1>1, <1>2, <1>3 DEF Assured

\* What an assignment to one slot does to the others.
LEMMA OneSlot ==
    ASSUME PassTypes, NEW s \in Slots, NEW r, passes' = [passes EXCEPT ![s] = r]
    PROVE  /\ passes'[s] = r
           /\ \A x \in Slots \ {s} : passes'[x] = passes[x] /\ Pushing(x)' = Pushing(x)
  BY DEF PassTypes, Pushing

\* A slot that takes up a pass which announces nothing, for one that announced
\* nothing.
LEMMA QuietSlot ==
    ASSUME PollerInv, NEW s \in Slots, NEW r \in Passes', passes' = [passes EXCEPT ![s] = r],
           passes[s].stage \in {"idle", "jobs", "placements"}, up',
           r.stage \in {"idle", "jobs", "placements"}, r.todo = {},
           UNCHANGED <<told, cutOff, cache, remote, jobs>>, RestTypes'
    PROVE  PollerInv'
  <1>1. PassTypes /\ RestTypes
    BY TypeParts DEF PollerInv
  <1>2. passes'[s] = r /\ \A x \in Slots \ {s} : passes'[x] = passes[x] /\ Pushing(x)' = Pushing(x)
    BY <1>1, OneSlot
  <1>0. Passes' = Passes
    BY DEF Passes
  <1>3. PassTypes'
    BY <1>0, <1>1 DEF PassTypes
  <1>4. Shape'
    BY <1>2 DEF PollerInv, Shape
  <1>5. \A x \in Slots : passes'[x].todo = passes[x].todo /\ Pushing(x)' = Pushing(x)
    <2>1. passes[s].todo = {} /\ Pushing(s) = {} /\ Pushing(s)' = {}
      BY <1>2 DEF PollerInv, Shape, Pushing
    <2> QED  BY <1>2, <2>1
  <1>6. Assured'
    BY <1>5, QuietStep DEF PollerInv
  <1>7. DownIsIdle'
    BY DEF DownIsIdle
  <1>8. PollerTypeOK'
    BY <1>3, Zenon DEF PollerTypeOK, PassTypes, RestTypes, Passes
  <1> QED  BY <1>4, <1>6, <1>7, <1>8 DEF PollerInv

-----------------------------------------------------------------------------
(* The actions *)

\* The poller starts settled: nothing is cached and nobody is at work.
LEMMA InitHolds == PollerInit => PollerInv
  <1> SUFFICES ASSUME PollerInit PROVE PollerInv
    OBVIOUS
  <1>1. PollerTypeOK
    <2>2. RestTypes
      <3>1. jobs \in 1..(MaxJobChanges + 1) /\ jobsCache \in 0..jobs
        BY PollerAssumption DEF PollerInit
      <3>2. downs \in 0..MaxPollerStops /\ refused \in 0..MaxRefusals
        BY PollerAssumption DEF PollerInit
      <3>3. told \in [Placements -> Nat]
        BY DEF PollerInit
      <3> QED  BY <3>1, <3>2, <3>3 DEF PollerInit, RestTypes
    <2>3. PassTypes
      BY <2>2, IdleIsAPass DEF PollerInit, PassTypes
    <2> QED  BY <2>2, <2>3, TypeParts
  <1>2. Shape /\ DownIsIdle
    BY IdleIsAPass DEF PollerInit, Shape, DownIsIdle
  <1>3. Assured
    BY IdleIsAPass DEF PollerInit, Assured, Apart, TodoIsUntold, PushingIsTold, UncachedIsUntold,
       ToldOnce, CachedAreTold, Pushing
  <1> QED  BY <1>1, <1>2, <1>3 DEF PollerInv

\* A step of a pass that changes neither what it has to announce nor whether it
\* pushes leaves the invariant, whatever becomes of the rest of the state.
LEMMA QuietWorld ==
    ASSUME PollerInv, up, UNCHANGED <<passes, told, cutOff, cache>>, RestTypes',
           remote \subseteq remote', jobs <= jobs', up'
    PROVE  PollerInv'
  <1>1. PassTypes /\ RestTypes
    BY TypeParts DEF PollerInv
  <1>2. PassTypes'
    BY <1>1, PassesGrow DEF PassTypes
  <1>3. PollerTypeOK'
    BY <1>2, Zenon DEF PollerTypeOK, PassTypes, RestTypes, Passes
  <1>4. Assured'
    BY QuietStep DEF PollerInv, Pushing
  <1>5. Shape' /\ DownIsIdle'
    BY DEF PollerInv, Shape, DownIsIdle
  <1> QED  BY <1>3, <1>4, <1>5 DEF PollerInv

\* A placement that is new in Crelate is cached by nobody yet.
LEMMA SignOfferKeeps == ASSUME PollerInv, NEW p \in Placements, SignOffer(p) PROVE PollerInv'
  <1>1. PassTypes /\ RestTypes
    BY TypeParts DEF PollerInv
  <1>2. RestTypes'
    BY <1>1 DEF RestTypes, SignOffer, caches, losses
  <1>3. remote \subseteq remote' /\ jobs <= jobs' /\ up /\ up'
    BY <1>1, PollerAssumption DEF RestTypes, SignOffer
  <1>4. UNCHANGED <<passes, told, cutOff, cache>>
    BY DEF SignOffer, caches, losses
  <1> QED  BY <1>2, <1>3, <1>4, QuietWorld

\* Requisitions that change in Crelate only make the cache old.
LEMMA ChangeJobsKeeps == ASSUME PollerInv, ChangeJobs PROVE PollerInv'
  <1>1. PassTypes /\ RestTypes
    BY TypeParts DEF PollerInv
  <1>2. RestTypes'
    BY <1>1, PollerAssumption DEF RestTypes, ChangeJobs, caches, losses
  <1>3. remote \subseteq remote' /\ jobs <= jobs' /\ up /\ up'
    BY <1>1, PollerAssumption DEF RestTypes, ChangeJobs
  <1>4. UNCHANGED <<passes, told, cutOff, cache>>
    BY DEF ChangeJobs, caches, losses
  <1> QED  BY <1>2, <1>3, <1>4, QuietWorld

\* A start finds every slot idle and takes up the seed pass.
LEMMA StartKeeps == ASSUME PollerInv, StartPoller PROVE PollerInv'
  <1>1. PassTypes /\ RestTypes /\ 1 \in Slots
    BY TypeParts, PollerAssumption DEF PollerInv, StartPoller, Slots
  <1>2. RestTypes' /\ Passes' = Passes
    BY <1>1 DEF RestTypes, StartPoller, caches, losses, crelate, Passes
  <1>3. Asking(TRUE) \in Passes' /\ Asking(TRUE).stage = "jobs" /\ Asking(TRUE).todo = {}
    BY <1>1, <1>2, AskingIsAPass
  <1>4. passes[1].stage = "idle"
    BY <1>1, IdleIsAPass DEF PollerInv, DownIsIdle, StartPoller
  <1>5. UNCHANGED <<told, cutOff, cache, remote>> /\ up'
    BY DEF StartPoller, caches, losses, crelate
  <1> QED  BY <1>1, <1>2, <1>3, <1>4, <1>5, QuietSlot DEF StartPoller, caches, losses, crelate

\* The timer takes up a pass whether or not another is at work.
LEMMA TickKeeps == ASSUME PollerInv, NEW s \in Slots, TickPoller(s) PROVE PollerInv'
  <1>1. PassTypes /\ RestTypes
    BY TypeParts DEF PollerInv
  <1>2. RestTypes' /\ Passes' = Passes
    BY <1>1 DEF RestTypes, TickPoller, caches, losses, crelate, Passes
  <1>3. Asking(FALSE) \in Passes' /\ Asking(FALSE).stage = "jobs" /\ Asking(FALSE).todo = {}
    BY <1>1, <1>2, AskingIsAPass
  <1> QED  BY <1>1, <1>2, <1>3, QuietSlot DEF TickPoller, caches, losses, crelate

\* Only a server that is up has passes at work.
LEMMA WorkingIsUp == ASSUME PollerInv, NEW s \in Slots, passes[s].stage # "idle" PROVE up
  BY IdleIsAPass DEF PollerInv, DownIsIdle

\* Whatever came of the requisitions, the pass asks for the placements.
LEMMA AnsweredJobsKeep ==
    ASSUME PollerInv, NEW s \in Slots, passes[s].stage = "jobs", AskPlacements(s),
           UNCHANGED <<up, remote, jobs, cache, told, cutOff>>, RestTypes'
    PROVE  PollerInv'
  <1>1. PassTypes /\ RestTypes /\ up
    BY TypeParts, WorkingIsUp DEF PollerInv
  <1> DEFINE r == [passes[s] EXCEPT !.stage = "placements", !.found = remote]
  <1>2. passes' = [passes EXCEPT ![s] = r]
    BY DEF AskPlacements
  <1>3. r \in Passes /\ r.stage = "placements" /\ r.todo = {}
    BY <1>1 DEF PassTypes, Passes, PollerInv, Shape
  <1>4. Passes' = Passes
    BY DEF Passes
  <1> HIDE DEF r
  <1> QED  BY <1>1, <1>2, <1>3, <1>4, QuietSlot

\* The requisitions are answered or refused.
LEMMA JobsKeep == ASSUME PollerInv, NEW s \in Slots, JobsAnswered(s) \/ JobsFail(s) PROVE PollerInv'
  <1>1. PassTypes /\ RestTypes
    BY TypeParts DEF PollerInv
  <1>2. CASE JobsAnswered(s)
    <2>1. jobsCache' \in 0..jobs
      BY <1>1, <1>2 DEF PassTypes, Passes, JobsAnswered
    <2>2. RestTypes'
      BY <1>1, <1>2, <2>1 DEF RestTypes, JobsAnswered, crelate, losses
    <2> QED  BY <2>2, <1>2, AnsweredJobsKeep DEF JobsAnswered, crelate, losses
  <1>3. CASE JobsFail(s)
    <2>1. refused' \in 0..MaxRefusals
      BY <1>1, <1>3, PollerAssumption DEF RestTypes, JobsFail, Refused
    <2>2. RestTypes'
      BY <1>1, <1>3, <2>1 DEF RestTypes, JobsFail, crelate, caches
    <2> QED  BY <2>2, <1>3, AnsweredJobsKeep DEF JobsFail, crelate, caches
  <1> QED  BY <1>2, <1>3

\* A pass whose placements are refused ends without announcing any.
LEMMA RefusedKeeps ==
    ASSUME PollerInv, NEW s \in Slots, PlacementsFail(s) PROVE PollerInv'
  <1>1. PassTypes /\ RestTypes /\ up
    BY TypeParts, WorkingIsUp DEF PollerInv, PlacementsFail
  <1>2. refused' \in 0..MaxRefusals
    BY <1>1, PollerAssumption DEF RestTypes, PlacementsFail, Refused
  <1>3. notified' \subseteq cache
    BY <1>1 DEF RestTypes, PlacementsFail, PassEnds
  <1>4. RestTypes' /\ Passes' = Passes
    BY <1>1, <1>2, <1>3 DEF RestTypes, PlacementsFail, crelate, Passes
  <1>5. Idle \in Passes' /\ passes' = [passes EXCEPT ![s] = Idle]
    BY <1>1, <1>4, IdleIsAPass DEF PlacementsFail, PassEnds
  <1>6. UNCHANGED <<told, cutOff, cache, remote, jobs>> /\ up'
    BY <1>1 DEF PlacementsFail, crelate
  <1> QED  BY <1>1, <1>4, <1>5, <1>6, IdleIsAPass, QuietSlot DEF PlacementsFail

\* What one slot does to the invariant when only it has something to announce that
\* it had not, and the others keep what they had.
LEMMA BusySlot ==
    ASSUME PollerInv, NEW s \in Slots, NEW r \in Passes', passes' = [passes EXCEPT ![s] = r],
           up', cache \subseteq cache', jobs' = jobs, remote' = remote, RestTypes',
           r.stage \in {"idle", "jobs", "placements"} => r.todo = {},
           r.stage = "pushing" => \E p \in r.todo : r.found = {p},
           Assured'
    PROVE  PollerInv'
  <1>1. PassTypes /\ RestTypes
    BY TypeParts DEF PollerInv
  <1>2. passes'[s] = r /\ \A x \in Slots \ {s} : passes'[x] = passes[x]
    BY <1>1, OneSlot
  <1>3. Passes \subseteq Passes'
    BY DEF Passes
  <1>4. PassTypes'
    BY <1>1, <1>3 DEF PassTypes
  <1>5. Shape'
    BY <1>2 DEF PollerInv, Shape
  <1>6. DownIsIdle'
    BY DEF DownIsIdle
  <1>7. PollerTypeOK'
    BY <1>4, Zenon DEF PollerTypeOK, PassTypes, RestTypes, Passes
  <1> QED  BY <1>5, <1>6, <1>7 DEF PollerInv

\* The transaction gives what it caches to one pass, and to no other.
LEMMA CachedKeeps ==
    ASSUME PollerInv, NEW s \in Slots, PlacementsAnswered(s) PROVE PollerInv'
  <1> DEFINE new == BrandNew(passes[s].found)
  <1>1. PassTypes /\ RestTypes /\ up
    BY TypeParts, WorkingIsUp DEF PollerInv, PlacementsAnswered
  <1>2. /\ passes[s].todo = {} /\ Pushing(s) = {} /\ passes[s].found \subseteq remote
        /\ \A x \in Slots : passes[x].todo \subseteq cache
    BY <1>1 DEF PollerInv, Shape, Pushing, PlacementsAnswered, PassTypes, Passes
  <1>3. /\ UNCHANGED <<up, remote, jobs, jobsCache, told, cutOff, downs, refused>>
        /\ cache' = cache \union passes[s].found
        /\ seeded' \subseteq seeded \union (cache' \ cache)
    BY DEF PlacementsAnswered, BrandNew, crelate, losses
  <1>4. CASE new = {}
    <2>1. cache' = cache /\ passes' = [passes EXCEPT ![s] = Idle] /\ notified' \subseteq cache
      BY <1>1, <1>3, <1>4 DEF PlacementsAnswered, PassEnds, BrandNew, RestTypes
    <2>2. RestTypes' /\ Passes' = Passes
      BY <1>1, <1>3, <2>1 DEF RestTypes, Passes
    <2>3. Idle \in Passes' /\ UNCHANGED <<told, cutOff, cache, remote, jobs>> /\ up'
      BY <1>1, <1>3, <2>1, <2>2, IdleIsAPass
    <2> QED  BY <1>1, <2>1, <2>2, <2>3, IdleIsAPass, QuietSlot DEF PlacementsAnswered
  <1>5. CASE new # {}
    <2> DEFINE r == [passes[s] EXCEPT !.stage = "notify", !.found = {}, !.todo = new]
    <2>1. passes' = [passes EXCEPT ![s] = r] /\ notified' = notified
      BY <1>5 DEF PlacementsAnswered
    <2>2. RestTypes'
      BY <1>1, <1>2, <1>3, <2>1 DEF RestTypes
    <2>3. new \subseteq cache' \ cache /\ cache' = cache \union new
      BY <1>3 DEF BrandNew
    <2>4. r \in Passes' /\ r.stage = "notify" /\ r.todo = new /\ r.found = {}
      BY <1>1, <1>2, <1>3, <2>3 DEF PassTypes, Passes
    <2> HIDE DEF r, new
    <2>5. /\ passes'[s].todo = new /\ Pushing(s)' = {}
          /\ \A x \in Slots \ {s} : passes'[x] = passes[x] /\ Pushing(x)' = Pushing(x)
      BY <1>1, <2>1, <2>4, OneSlot DEF Pushing
    <2>6. Apart'
      BY <1>2, <2>3, <2>5 DEF PollerInv, Assured, Apart
    <2>7. TodoIsUntold' /\ PushingIsTold' /\ UncachedIsUntold' /\ ToldOnce'
      <3>1. new \subseteq Placements
        BY <1>1, <2>2, <2>3 DEF RestTypes
      <3> QED  BY <1>2, <1>3, <2>3, <2>5, <3>1
               DEF PollerInv, Assured, TodoIsUntold, PushingIsTold, UncachedIsUntold, ToldOnce
    <2>8. CachedAreTold'
      BY <1>2, <1>3, <2>3, <2>5 DEF PollerInv, Assured, CachedAreTold
    <2> QED  BY <1>1, <1>3, <2>1, <2>2, <2>4, <2>6, <2>7, <2>8, BusySlot DEF Assured
  <1> QED  BY <1>4, <1>5

\* What is posted had not been told, because nobody else had it to announce.
LEMMA PostKeeps ==
    ASSUME PollerInv, NEW s \in Slots, NEW p \in Placements, PostNotice(s, p) PROVE PollerInv'
  <1> DEFINE r == [passes[s] EXCEPT !.stage = "pushing", !.found = {p}]
  <1>1. PassTypes /\ RestTypes /\ up
    BY TypeParts, WorkingIsUp DEF PollerInv, PostNotice
  <1>2. /\ UNCHANGED <<up, remote, jobs, jobsCache, cache, notified, seeded, cutOff, downs,
                       refused>>
        /\ passes' = [passes EXCEPT ![s] = r]
        /\ told' = [told EXCEPT ![p] = @ + 1] /\ p \in passes[s].todo /\ Pushing(s) = {}
    BY DEF PostNotice, crelate, caches, losses, Pushing
  <1>3. told[p] = 0 /\ told \in [Placements -> Nat] /\ p \in cache /\ p \in remote
    BY <1>1, <1>2 DEF PollerInv, Assured, TodoIsUntold, RestTypes, PassTypes, Passes
  <1>4. told'[p] = 1 /\ \A q \in Placements \ {p} : told'[q] = told[q]
    BY <1>2, <1>3
  <1>5. RestTypes'
    BY <1>1, <1>2 DEF RestTypes
  <1>6. r \in Passes' /\ r.stage = "pushing" /\ r.todo = passes[s].todo /\ r.found = {p}
    BY <1>1, <1>2, <1>3 DEF PassTypes, Passes
  <1> HIDE DEF r
  <1>7. /\ passes'[s].todo = passes[s].todo /\ Pushing(s)' = {p}
        /\ \A x \in Slots \ {s} : passes'[x] = passes[x] /\ Pushing(x)' = Pushing(x)
    BY <1>1, <1>2, <1>6, OneSlot DEF Pushing
  <1>8. \A x \in Slots \ {s} : p \notin passes[x].todo /\ Pushing(x) \subseteq passes[x].todo
    BY <1>2 DEF PollerInv, Assured, Apart, Shape, Pushing
  <1>9. \A x \in Slots : passes[x].todo \subseteq Placements
    BY <1>1 DEF PassTypes, Passes, RestTypes
  <1>10. Apart'
    BY <1>7 DEF PollerInv, Assured, Apart
  <1>11. TodoIsUntold' /\ PushingIsTold'
    BY <1>2, <1>4, <1>7, <1>8, <1>9 DEF PollerInv, Assured, TodoIsUntold, PushingIsTold
  <1>12. UncachedIsUntold' /\ ToldOnce'
    BY <1>2, <1>3, <1>4 DEF PollerInv, Assured, UncachedIsUntold, ToldOnce
  <1>13. CachedAreTold'
    BY <1>1, <1>2, <1>4, <1>7 DEF PollerInv, Assured, CachedAreTold, RestTypes
  <1> QED  BY <1>1, <1>2, <1>5, <1>6, <1>10, <1>11, <1>12, <1>13, BusySlot DEF Assured

\* A pass lets go of what it announced when that counts as told.
LEMMA PushedKeeps ==
    ASSUME PollerInv, NEW s \in Slots, PushOver(s) PROVE PollerInv'
  <1> DEFINE left == Remaining(passes[s].todo, passes[s].found)
             r == IF left = {} THEN Idle
                  ELSE [passes[s] EXCEPT !.stage = "notify", !.found = {}, !.todo = left]
  <1>1. PassTypes /\ RestTypes /\ up
    BY TypeParts, WorkingIsUp DEF PollerInv, PushOver
  <1>2. UNCHANGED <<up, remote, jobs, jobsCache, cache, told, seeded, cutOff, downs, refused>>
    BY DEF PushOver, crelate, losses
  <1>3. passes' = [passes EXCEPT ![s] = r]
    BY DEF PushOver, PassEnds
  <1>4. /\ Pushing(s) = passes[s].found /\ left = passes[s].todo \ Pushing(s)
        /\ passes[s].todo \subseteq cache /\ Pushing(s) \subseteq passes[s].todo
    BY <1>1 DEF PollerInv, Shape, PushOver, Pushing, Remaining, PassTypes, Passes
  <1>5. notified' \subseteq cache
    BY <1>1, <1>4 DEF RestTypes, PushOver, PassEnds
  <1>6. RestTypes' /\ Passes' = Passes
    BY <1>1, <1>2, <1>5 DEF RestTypes, Passes
  <1>7. r \in Passes /\ r.stage \in {"idle", "notify"} /\ r.todo = left
    <2>1. CASE left = {}
      BY <1>1, <2>1, IdleIsAPass
    <2>2. CASE left # {}
      BY <1>1, <1>4, <2>2 DEF PassTypes, Passes
    <2> QED  BY <2>1, <2>2
  <1>8. r.stage = "idle" => r.todo = {}
    <2>1. CASE left = {}
      BY <2>1, <1>7
    <2>2. CASE left # {}
      BY <2>2, <1>1 DEF PassTypes, Passes
    <2> QED  BY <2>1, <2>2
  <1> HIDE DEF r, left
  <1>9. /\ passes'[s].todo = left /\ Pushing(s)' = {}
        /\ \A x \in Slots \ {s} : passes'[x] = passes[x] /\ Pushing(x)' = Pushing(x)
    BY <1>1, <1>3, <1>7, OneSlot DEF Pushing
  <1>10. Apart' /\ TodoIsUntold' /\ PushingIsTold'
    BY <1>2, <1>4, <1>9 DEF PollerInv, Assured, Apart, TodoIsUntold, PushingIsTold
  <1>11. UncachedIsUntold' /\ ToldOnce'
    BY <1>2 DEF PollerInv, Assured, UncachedIsUntold, ToldOnce
  <1>12. CachedAreTold'
    BY <1>2, <1>4, <1>9 DEF PollerInv, Assured, PushingIsTold, CachedAreTold
  <1> QED  BY <1>1, <1>2, <1>3, <1>6, <1>7, <1>8, <1>10, <1>11, <1>12, BusySlot DEF Assured

\* A stop cuts off what the passes had still to announce.
LEMMA StopKeeps == ASSUME PollerInv, StopPoller PROVE PollerInv'
  <1>1. PassTypes /\ RestTypes
    BY TypeParts DEF PollerInv
  <1>2. /\ UNCHANGED <<remote, jobs, jobsCache, cache, notified, told, seeded, refused>>
        /\ passes' = [s \in Slots |-> Idle] /\ up' = FALSE
        /\ cutOff' = cutOff \union UNION {passes[s].todo : s \in Slots}
    BY DEF StopPoller, crelate, caches
  <1>3. \A s \in Slots : passes[s].todo \subseteq cache
    BY <1>1 DEF PassTypes, Passes
  <1>4. downs' \in 0..MaxPollerStops
    BY <1>1, PollerAssumption DEF RestTypes, StopPoller
  <1>5. RestTypes' /\ Passes' = Passes
    BY <1>1, <1>2, <1>3, <1>4 DEF RestTypes, Passes
  <1>6. PassTypes'
    BY <1>1, <1>2, <1>5, IdleIsAPass DEF PassTypes
  <1>7. \A s \in Slots : passes'[s] = Idle /\ Pushing(s)' = {}
    BY <1>2, IdleIsAPass DEF Pushing
  <1>8. Shape' /\ DownIsIdle'
    BY <1>7, IdleIsAPass DEF Shape, DownIsIdle
  <1>9. Assured'
    <2>1. Apart' /\ TodoIsUntold' /\ PushingIsTold'
      BY <1>7, IdleIsAPass DEF Apart, TodoIsUntold, PushingIsTold
    <2>2. UncachedIsUntold' /\ ToldOnce'
      BY <1>2 DEF PollerInv, Assured, UncachedIsUntold, ToldOnce
    <2>3. CachedAreTold'
      BY <1>2 DEF PollerInv, Assured, CachedAreTold
    <2> QED  BY <2>1, <2>2, <2>3 DEF Assured
  <1>10. PollerTypeOK'
    BY <1>5, <1>6, Zenon DEF PollerTypeOK, PassTypes, RestTypes, Passes
  <1> QED  BY <1>8, <1>9, <1>10 DEF PollerInv

\* Every step keeps the inductive invariant.
LEMMA StepKeeps == PollerInv /\ [PollerNext]_pollerVars => PollerInv'
  <1> SUFFICES ASSUME PollerInv, [PollerNext]_pollerVars PROVE PollerInv'
    OBVIOUS
  <1>1. CASE \E s \in Slots : TickPoller(s)
    BY <1>1, TickKeeps
  <1>2. CASE \E s \in Slots : JobsAnswered(s) \/ JobsFail(s)
    BY <1>2, JobsKeep
  <1>3. CASE \E s \in Slots : PlacementsAnswered(s)
    BY <1>3, CachedKeeps
  <1>4. CASE \E s \in Slots : PlacementsFail(s)
    BY <1>4, RefusedKeeps
  <1>5. CASE \E s \in Slots : PushOver(s)
    BY <1>5, PushedKeeps
  <1>6. CASE \E s \in Slots : \E p \in Placements : PostNotice(s, p)
    BY <1>6, PostKeeps
  <1>7. CASE \E p \in Placements : SignOffer(p)
    BY <1>7, SignOfferKeeps
  <1>8. CASE ChangeJobs \/ StartPoller \/ StopPoller
    BY <1>8, ChangeJobsKeeps, StartKeeps, StopKeeps
  <1>9. CASE UNCHANGED pollerVars
    <2>1. /\ UNCHANGED <<up, remote, jobs, jobsCache, cache, notified, passes>>
          /\ UNCHANGED <<told, seeded, cutOff, downs, refused>>
      BY <1>9 DEF pollerVars, crelate, caches, losses
    <2>2. PollerTypeOK'
      BY <2>1 DEF PollerInv, PollerTypeOK
    <2>3. Shape' /\ DownIsIdle'
      BY <2>1 DEF PollerInv, Shape, DownIsIdle
    <2>4. Assured'
      BY <2>1, QuietStep DEF PollerInv, Pushing
    <2> QED  BY <2>2, <2>3, <2>4 DEF PollerInv
  <1> QED
    BY <1>1, <1>2, <1>3, <1>4, <1>5, <1>6, <1>7, <1>8, <1>9
       DEF PollerNext, PassAnswered, PassFails, PassGoesOn

-----------------------------------------------------------------------------
(* The theorems *)

\* The inductive invariant of the poller: each placement that is cached belongs to
\* one pass until it has been told.
THEOREM PollerInvariant == PollerSpec => []PollerInv
  BY InitHolds, StepKeeps, PTL DEF PollerSpec

\* The state keeps its type: what is marked is cached and what is cached is in
\* Crelate, for every number of passes that overlap.
THEOREM PollerTypeCorrect == PollerSpec => []PollerTypeOK
  <1>1. PollerInv => PollerTypeOK
    BY DEF PollerInv
  <1> QED  BY <1>1, PollerInvariant, PTL

\* The channel hears of each placement at most once, and of a cached one it has heard
\* or will from the pass that cached it, unless the process stopped
\* (notifyNewPlacement, the transaction of pollOnce).
THEOREM PlacementsToldOnce == PollerSpec => []EachToldOnce
  <1>1. PollerInv => EachToldOnce
    BY DEF PollerInv, Assured, ToldOnce, CachedAreTold, EachToldOnce
  <1> QED  BY <1>1, PollerInvariant, PTL

HIDE PollerAssumption

-----------------------------------------------------------------------------
(* The recording of a channel *)

\* A start that waits for LiveKit counts as a recording: it will be one by the time
\* the next start asks.
Underway == RecordingNow \union begun

\* Two recordings of a channel come of starts that overlapped.
RivalsOnly == \A q, r \in Underway : q # r => {q, r} \subseteq rivals

\* A stop that LiveKit has answered left no egress behind, or is known not to have
\* stopped it; StopAnswered then takes the row out of "recording".
AskedIsOver ==
    \A s \in ending : s.asked => egress[s.rec] = "ended" \/ s.rec \in unstopped

\* The inductive invariant.
RecInv == RecordingTypeOK /\ RivalsOnly /\ EgressHasARow /\ AskedIsOver

-----------------------------------------------------------------------------
(* Starts *)

\* A start that finds another one has seen no row of it: the two overlapped.
LEMMA BeginIsGood ==
    ASSUME RecInv, NEW r \in RecIds, StartRecording(r)
    PROVE  RecInv'
<1> USE DEF RecInv, StartRecording, lkVars
<1>1. RecordingTypeOK'
  BY DEF RecordingTypeOK
<1>2. RivalsOnly'
  <2>1. RecordingNow' = {}
    BY DEF NothingRecording, RecordingNow
  <2>2. CASE begun = {}
    BY <2>1, <2>2 DEF RivalsOnly, Underway
  <2>3. CASE begun # {}
    BY <2>1, <2>3 DEF RivalsOnly, Underway
  <2>4. QED BY <2>2, <2>3
<1>3. EgressHasARow' /\ AskedIsOver'
  BY DEF EgressHasARow, AskedIsOver
<1>4. QED BY <1>1, <1>2, <1>3

\* The egress begins for a start that waits, so somebody will write its row.
LEMMA EgressBeginsIsGood ==
    ASSUME RecInv, NEW r \in RecIds, EgressBegins(r)
    PROVE  RecInv'
<1> USE DEF RecInv, EgressBegins, recPast
<1>0. egress \in [RecIds -> {"none", "running", "ended"}]
  BY DEF RecordingTypeOK
<1>1. RecordingTypeOK'
  BY <1>0 DEF RecordingTypeOK
<1>2. RivalsOnly'
  BY DEF RivalsOnly, Underway, RecordingNow
<1>3. EgressHasARow'
  BY <1>0 DEF EgressHasARow
<1>4. AskedIsOver'
  <2>1. ASSUME NEW s \in ending, s.asked
        PROVE  egress'[s.rec] = "ended" \/ s.rec \in unstopped
    <3>1. s.rec \in RecIds
      BY DEF RecordingTypeOK
    <3>2. egress[s.rec] = "ended" \/ s.rec \in unstopped
      BY <2>1 DEF AskedIsOver
    <3>3. s.rec # r \/ s.rec \in unstopped
      BY <3>2
    <3>4. QED BY <1>0, <3>1, <3>2, <3>3
  <2>2. QED BY <2>1 DEF AskedIsOver
<1>5. QED BY <1>1, <1>2, <1>3, <1>4

\* The row is written where the start waited, or fails where nothing runs or where
\* what runs is known to be adrift.
LEMMA StartAnsweredIsGood ==
    ASSUME RecInv, NEW r \in RecIds,
           RecordingStarted(r) \/ RecordingRefused(r) \/ AnswerLost(r)
    PROVE  RecInv'
<1> USE DEF RecInv, RecordingStarted, RecordingRefused, AnswerLost, FailedRow, lkVars, recPast
<1>0. /\ rec \in [RecIds -> {"none", "recording", "processing"} \union Final]
      /\ r \in begun /\ begun' = begun \ {r}
      /\ UNCHANGED <<egress, hooks, ending, rivals, unstopped, cuts>>
      /\ adrift \subseteq adrift' /\ adrift' \subseteq RecIds
  BY DEF RecordingTypeOK
<1>w. PICK word \in {"recording", "failed"} :
         /\ rec' = [rec EXCEPT ![r] = word]
         /\ word = "failed" => egress[r] = "none" \/ r \in adrift'
  OBVIOUS
<1>1. RecordingTypeOK'
  <2>1. rec' \in [RecIds -> {"none", "recording", "processing"} \union Final]
    BY <1>0, <1>w DEF Final
  <2>2. \A q \in RecIds : rec[q] # "none" => rec'[q] # "none"
    BY <1>0, <1>w
  <2>3. QED BY <1>0, <2>1, <2>2 DEF RecordingTypeOK
<1>2. RivalsOnly'
  <2>1. Underway' \subseteq Underway
    BY <1>0, <1>w DEF Underway, RecordingNow
  <2>2. QED BY <1>0, <2>1 DEF RivalsOnly
<1>3. EgressHasARow'
  BY <1>0, <1>w DEF EgressHasARow
<1>4. AskedIsOver'
  BY <1>0 DEF AskedIsOver
<1>5. QED BY <1>1, <1>2, <1>3, <1>4

-----------------------------------------------------------------------------
(* Ends *)

\* An egress that ends needs no row.
LEMMA EgressEndsIsGood ==
    ASSUME RecInv, NEW r \in RecIds, EgressEnds(r)
    PROVE  RecInv'
<1> USE DEF RecInv, EgressEnds, recPast
<1>0. egress \in [RecIds -> {"none", "running", "ended"}]
  BY DEF RecordingTypeOK
<1>1. RecordingTypeOK'
  BY <1>0 DEF RecordingTypeOK
<1>2. RivalsOnly'
  BY DEF RivalsOnly, Underway, RecordingNow
<1>3. EgressHasARow'
  BY <1>0 DEF EgressHasARow
<1>4. AskedIsOver'
  <2>1. ASSUME NEW s \in ending
        PROVE  s.rec \in RecIds
    BY DEF RecordingTypeOK
  <2>2. QED BY <1>0, <2>1 DEF AskedIsOver
<1>5. QED BY <1>1, <1>2, <1>3, <1>4

\* A stop asks for a row that is recording.
LEMMA CeaseIsGood ==
    ASSUME RecInv, NEW r \in RecIds, StopRecording(r)
    PROVE  RecInv'
<1> USE DEF RecInv, StopRecording, lkVars, recPast
<1>1. RecordingTypeOK'
  <2>1. rec[r] # "none"
    BY DEF ActiveRec, RecordingNow
  <2>2. [rec |-> r, asked |-> FALSE] \in [rec : {q \in RecIds : rec[q] # "none"}, asked : BOOLEAN]
    BY <2>1
  <2>3. QED BY <2>2 DEF RecordingTypeOK
<1>2. RivalsOnly'
  BY DEF RivalsOnly, Underway, RecordingNow
<1>3. EgressHasARow' /\ AskedIsOver'
  BY DEF EgressHasARow, AskedIsOver
<1>4. QED BY <1>1, <1>2, <1>3

\* A stop that has been answered is about a row of the same number.
LEMMA AnsweredIsTyped ==
    ASSUME RecordingTypeOK, NEW s \in ending
    PROVE  /\ s.rec \in RecIds /\ rec[s.rec] # "none"
           /\ [s EXCEPT !.asked = TRUE].rec = s.rec
           /\ [s EXCEPT !.asked = TRUE]
                 \in [rec : {r \in RecIds : rec[r] # "none"}, asked : BOOLEAN]
<1>1. s \in [rec : {r \in RecIds : rec[r] # "none"}, asked : BOOLEAN]
  BY DEF RecordingTypeOK
<1>2. QED BY <1>1

\* LiveKit stops the egress: it is over.
LEMMA EgressStoppedIsGood ==
    ASSUME RecInv, NEW s \in ending, EgressStopped(s)
    PROVE  RecInv'
<1> USE DEF RecInv, EgressStopped, recPast
<1> DEFINE t == [s EXCEPT !.asked = TRUE]
<1>0. /\ egress \in [RecIds -> {"none", "running", "ended"}]
      /\ s.rec \in RecIds /\ t.rec = s.rec
      /\ t \in [rec : {r \in RecIds : rec[r] # "none"}, asked : BOOLEAN]
  BY AnsweredIsTyped DEF RecordingTypeOK
<1>e. ending' = (ending \ {s}) \union {t}
  OBVIOUS
<1> HIDE DEF t
<1>g. \A r \in RecIds : egress'[r] = IF r = s.rec THEN "ended" ELSE egress[r]
  BY <1>0
<1>1. RecordingTypeOK'
  <2>1. egress' \in [RecIds -> {"none", "running", "ended"}]
    BY <1>0
  <2>2. hooks' \subseteq {r \in RecIds : egress'[r] = "ended"}
    BY <1>0, <1>g DEF RecordingTypeOK
  <2>3. ending' \subseteq [rec : {r \in RecIds : rec[r] # "none"}, asked : BOOLEAN]
    BY <1>0, <1>e DEF RecordingTypeOK
  <2>4. QED BY <2>1, <2>2, <2>3 DEF RecordingTypeOK
<1>2. RivalsOnly'
  BY DEF RivalsOnly, Underway, RecordingNow
<1>3. EgressHasARow'
  BY <1>g DEF EgressHasARow
<1>4. AskedIsOver'
  <2>1. ASSUME NEW z \in ending', z.asked
        PROVE  egress'[z.rec] = "ended" \/ z.rec \in unstopped
    <3>1. CASE z = t
      BY <1>0, <1>g, <3>1
    <3>2. CASE z \in ending
      <4>1. z.rec \in RecIds
        BY <3>2, AnsweredIsTyped
      <4>2. QED BY <1>g, <2>1, <3>2, <4>1 DEF AskedIsOver
    <3>3. QED BY <1>e, <3>1, <3>2
  <2>2. QED BY <2>1 DEF AskedIsOver
<1>5. QED BY <1>1, <1>2, <1>3, <1>4

\* LiveKit fails to stop it: the row is left as it is, or the egress is over.
LEMMA NotStoppedIsGood ==
    ASSUME RecInv, NEW s \in ending, EgressNotStopped(s)
    PROVE  RecInv'
<1> USE DEF RecInv, EgressNotStopped, lkVars
<1> DEFINE t == [s EXCEPT !.asked = TRUE]
<1>0. /\ s.rec \in RecIds /\ t.rec = s.rec
      /\ t \in [rec : {r \in RecIds : rec[r] # "none"}, asked : BOOLEAN]
  BY AnsweredIsTyped
<1>e. ending' = (ending \ {s}) \union {t}
  OBVIOUS
<1> HIDE DEF t
<1>1. RecordingTypeOK'
  BY <1>0, <1>e DEF RecordingTypeOK
<1>2. RivalsOnly'
  BY DEF RivalsOnly, Underway, RecordingNow
<1>3. EgressHasARow'
  BY DEF EgressHasARow
<1>4. AskedIsOver'
  BY <1>0, <1>e DEF AskedIsOver
<1>5. QED BY <1>1, <1>2, <1>3, <1>4

\* The row leaves "recording" for an egress that is over, or is known to run on.
LEMMA StopAnsweredIsGood ==
    ASSUME RecInv, NEW s \in ending, StopAnswered(s)
    PROVE  RecInv'
<1> USE DEF RecInv, StopAnswered, lkVars, recPast
<1>0. /\ rec \in [RecIds -> {"none", "recording", "processing"} \union Final]
      /\ s.rec \in RecIds
  BY AnsweredIsTyped DEF RecordingTypeOK
<1>g. \A r \in RecIds : rec'[r] = IF r = s.rec THEN "processing" ELSE rec[r]
  BY <1>0
<1>1. RecordingTypeOK'
  BY <1>0, <1>g DEF RecordingTypeOK
<1>2. RivalsOnly'
  <2>1. Underway' \subseteq Underway
    BY <1>g DEF Underway, RecordingNow
  <2>2. QED BY <2>1 DEF RivalsOnly
<1>3. EgressHasARow'
  <2>1. egress[s.rec] = "ended" \/ s.rec \in unstopped
    BY DEF AskedIsOver
  <2>2. QED BY <1>g, <2>1 DEF EgressHasARow
<1>4. AskedIsOver'
  BY DEF AskedIsOver
<1>5. QED BY <1>1, <1>2, <1>3, <1>4

\* A webhook is of an egress that is over, so it may overwrite any row.
LEMMA HookIsGood ==
    ASSUME RecInv, NEW r \in RecIds, NEW status \in Final, HookArrives(r, status)
    PROVE  RecInv'
<1> USE DEF RecInv, HookArrives
<1>0. /\ rec \in [RecIds -> {"none", "recording", "processing"} \union Final]
      /\ egress[r] = "ended"
  BY DEF RecordingTypeOK
<1>g. \A q \in RecIds : rec'[q] = IF q = r /\ HasRow(r) THEN status ELSE rec[q]
  BY <1>0
<1>1. RecordingTypeOK'
  <2>1. rec' \in [RecIds -> {"none", "recording", "processing"} \union Final]
    BY <1>0
  <2>2. \A q \in RecIds : rec[q] # "none" => rec'[q] # "none"
    BY <1>g DEF Final
  <2>3. QED BY <2>1, <2>2 DEF RecordingTypeOK
<1>2. RivalsOnly'
  <2>1. Underway' \subseteq Underway
    BY <1>g DEF Underway, RecordingNow, Final
  <2>2. QED BY <2>1 DEF RivalsOnly
<1>3. EgressHasARow'
  BY <1>0, <1>g DEF EgressHasARow
<1>4. AskedIsOver'
  BY DEF AskedIsOver
<1>5. QED BY <1>1, <1>2, <1>3, <1>4

-----------------------------------------------------------------------------
(* The theorems *)

\* Nothing records.
LEMMA RecStartsGood == RecordingInit => RecInv
<1> SUFFICES ASSUME RecordingInit PROVE RecInv
  OBVIOUS
<1>1. RecordingTypeOK
  BY RecordingAssumption DEF RecordingInit, RecordingTypeOK
<1>2. RivalsOnly
  BY DEF RecordingInit, RivalsOnly, Underway, RecordingNow
<1>3. EgressHasARow /\ AskedIsOver
  BY DEF RecordingInit, EgressHasARow, AskedIsOver
<1>4. QED BY <1>1, <1>2, <1>3 DEF RecInv

\* Each step keeps it.
LEMMA RecStaysGood == RecInv /\ [RecordingNext]_recVars => RecInv'
<1> SUFFICES ASSUME RecInv, [RecordingNext]_recVars
             PROVE  RecInv'
  OBVIOUS
<1>1. ASSUME NEW r \in RecIds,
             \/ StartRecording(r) \/ EgressBegins(r) \/ RecordingStarted(r)
             \/ RecordingRefused(r) \/ AnswerLost(r) \/ EgressEnds(r) \/ StopRecording(r)
      PROVE  RecInv'
  BY <1>1, BeginIsGood, EgressBeginsIsGood, StartAnsweredIsGood, EgressEndsIsGood, CeaseIsGood
<1>2. ASSUME NEW r \in RecIds, NEW status \in Final, HookArrives(r, status)
      PROVE  RecInv'
  BY <1>2, HookIsGood
<1>3. ASSUME NEW r \in RecIds, HookLost(r)
      PROVE  RecInv'
  BY <1>3 DEF HookLost, RecInv, RecordingTypeOK, RivalsOnly, Underway, RecordingNow,
              EgressHasARow, AskedIsOver
<1>4. ASSUME NEW s \in ending, EgressStopped(s) \/ EgressNotStopped(s) \/ StopAnswered(s)
      PROVE  RecInv'
  BY <1>4, EgressStoppedIsGood, NotStoppedIsGood, StopAnsweredIsGood
<1>5. CASE CutRecording
  <2>1. cuts' \in 0..MaxCuts
    BY <1>5, RecordingAssumption DEF CutRecording, RecInv, RecordingTypeOK
  <2>2. RecordingTypeOK' /\ RivalsOnly' /\ AskedIsOver'
    BY <1>5, <2>1 DEF CutRecording, lkVars, RecInv, RecordingTypeOK, RivalsOnly, Underway,
                      RecordingNow, AskedIsOver
  <2>3. EgressHasARow'
    BY <1>5 DEF CutRecording, lkVars, RecInv, EgressHasARow
  <2>4. QED BY <2>2, <2>3 DEF RecInv
<1>6. CASE UNCHANGED recVars
  BY <1>6 DEF recVars, lkVars, recPast, RecInv, RecordingTypeOK, RivalsOnly, Underway,
              RecordingNow, EgressHasARow, AskedIsOver
<1>7. QED BY <1>1, <1>2, <1>3, <1>4, <1>5, <1>6 DEF RecordingNext

\* The invariant holds of every behaviour of the recording.
THEOREM RecordingInvariant == RecordingSpec => []RecInv
<1>1. QED BY RecStartsGood, RecStaysGood, PTL DEF RecordingSpec

\* The rows, egresses, stops and webhooks keep their types: a webhook is of an egress
\* that is over, a stop is of a row that was written.
THEOREM RecordingTypeCorrect == RecordingSpec => []RecordingTypeOK
<1>1. RecInv => RecordingTypeOK
  BY DEF RecInv
<1>2. QED BY <1>1, RecordingInvariant, PTL

\* startRoomRecording, stopRecording and the egress_ended webhook: two rows record a
\* channel only where two starts overlapped, and an egress that runs has a row that a stop
\* finds, unless LiveKit failed to stop it or the answer of its start never came.
THEOREM RecordingIsInHand == RecordingSpec => []RecordingInHand
<1>1. RecInv => RecordingInHand
  BY DEF RecInv, RivalsOnly, Underway, RecordingInHand, OneRecordingUnlessRivals
<1>2. QED BY <1>1, RecordingInvariant, PTL

-----------------------------------------------------------------------------
(* The announcer of patch notes *)

\* Whom the current run has told of a note.
Told(u, n) == run.on /\ u \in run.audience \ run.todo /\ n \in News

\* What is kept of the notes: of a note the marker has not passed, a reader has at most one
\* mail from each run that was cut short, and one from the run that goes on.
AnnouncerInv ==
    /\ shipped \in 0..MaxNote /\ marker \in 1..NoMarker
    /\ enrolled \subseteq Readers /\ skipped \subseteq PatchNotes
    /\ run \in [on : BOOLEAN, upTo : 0..MaxNote, audience : SUBSET Readers,
               todo : SUBSET Readers]
    /\ mails \in [Readers -> [PatchNotes -> Nat]]
    /\ boots \in 0..MaxBoots /\ cutRuns \in 0..boots
    /\ run.on => marker # NoMarker /\ cutRuns < boots
    /\ run.todo \subseteq run.audience
    /\ run.on => marker < run.upTo
    /\ marker = NoMarker => \A u \in Readers, n \in PatchNotes : mails[u][n] = 0
    /\ \A u \in Readers, n \in PatchNotes :
          /\ mails[u][n] <= boots
          /\ n > marker => mails[u][n] <= cutRuns + (IF Told(u, n) THEN 1 ELSE 0)
          /\ Told(u, n) => mails[u][n] > 0

\* That includes the types.
LEMMA AnnouncerTyped == AnnouncerInv => AnnouncerTypeOK
<1> SUFFICES ASSUME AnnouncerInv PROVE AnnouncerTypeOK
  OBVIOUS
<1>1. ASSUME NEW u \in Readers, NEW n \in PatchNotes PROVE mails[u][n] \in 0..MaxBoots
  BY AnnouncerAssumption DEF AnnouncerInv
<1>2. ASSUME NEW u \in Readers PROVE mails[u] \in [PatchNotes -> 0..MaxBoots]
  BY <1>1 DEF AnnouncerInv
<1>3. mails \in [Readers -> [PatchNotes -> 0..MaxBoots]]
  BY <1>2 DEF AnnouncerInv
<1>4. QED BY <1>3 DEF AnnouncerInv, AnnouncerTypeOK

\* Nothing was mailed.
LEMMA AnnouncerStarts == AnnouncerInit => AnnouncerInv
<1> SUFFICES ASSUME AnnouncerInit PROVE AnnouncerInv
  OBVIOUS
<1>1. ~run.on /\ run \in [on : BOOLEAN, upTo : 0..MaxNote, audience : SUBSET Readers,
                          todo : SUBSET Readers]
  BY AnnouncerAssumption DEF AnnouncerInit, Off
<1>o. run.todo = {}
  BY DEF AnnouncerInit, Off
<1>2. mails \in [Readers -> [PatchNotes -> Nat]]
      /\ \A u \in Readers, n \in PatchNotes : mails[u][n] = 0
  BY DEF AnnouncerInit
<1>3. marker \in 1..NoMarker
  BY AnnouncerAssumption DEF AnnouncerInit, NoMarker
<1>4. QED
  BY <1>1, <1>2, <1>3, <1>o, AnnouncerAssumption DEF AnnouncerInit, AnnouncerInv, Told

\* A reader who enrols during a run is not in its audience.
LEMMA EnrolStays == ASSUME AnnouncerInv, NEW u \in Readers, Enrol(u) PROVE AnnouncerInv'
<1>1. enrolled' \subseteq Readers
  BY DEF Enrol, AnnouncerInv
<1>2. QED BY <1>1 DEF Enrol, AnnouncerInv, Told, News

\* A mail is to a reader the run had still to reach.
LEMMA MailStays == ASSUME AnnouncerInv, NEW v \in Readers, MailReader(v) PROVE AnnouncerInv'
<1> DEFINE add(n) == IF n \in News THEN 1 ELSE 0
<1>0. v \in run.todo /\ run.on
  BY DEF MailReader
<1>1. /\ run'.on = run.on /\ run'.upTo = run.upTo /\ run'.audience = run.audience
      /\ run'.todo = run.todo \ {v}
      /\ run' \in [on : BOOLEAN, upTo : 0..MaxNote, audience : SUBSET Readers,
                   todo : SUBSET Readers]
  BY DEF MailReader, AnnouncerInv
<1>2. /\ mails' \in [Readers -> [PatchNotes -> Nat]]
      /\ \A u \in Readers, n \in PatchNotes :
            mails'[u][n] = IF u = v THEN mails[v][n] + add(n) ELSE mails[u][n]
  <2> DEFINE line == [n \in PatchNotes |-> mails[v][n] + add(n)]
  <2>1. line \in [PatchNotes -> Nat]
    BY DEF AnnouncerInv
  <2>2. mails' = [mails EXCEPT ![v] = line]
    BY DEF MailReader
  <2>3. \A n \in PatchNotes : line[n] = mails[v][n] + add(n)
    OBVIOUS
  <2> HIDE DEF line
  <2>4. mails' \in [Readers -> [PatchNotes -> Nat]]
        /\ \A u \in Readers : mails'[u] = IF u = v THEN line ELSE mails[u]
    BY <2>1, <2>2 DEF AnnouncerInv
  <2>5. QED BY <2>3, <2>4
<1>3. News' = News /\ UNCHANGED <<shipped, marker, enrolled, skipped, boots, cutRuns>>
  BY <1>1 DEF MailReader, News
<1>4. ASSUME NEW u \in Readers, NEW n \in PatchNotes
      PROVE  /\ mails'[u][n] <= boots
             /\ n > marker => mails'[u][n] <= cutRuns + (IF Told(u, n)' THEN 1 ELSE 0)
             /\ Told(u, n)' => mails'[u][n] > 0
  <2>0. mails[u][n] \in Nat /\ boots \in Nat /\ cutRuns \in Nat /\ cutRuns < boots
    BY <1>0 DEF AnnouncerInv
  <2>1. CASE u # v
    <3>1. mails'[u][n] = mails[u][n] /\ (Told(u, n)' <=> Told(u, n))
      BY <1>1, <1>2, <1>3, <2>1 DEF Told
    <3>2. QED BY <3>1 DEF AnnouncerInv
  <2>2. CASE u = v /\ n \in News
    <3>1. ~Told(u, n) /\ mails[u][n] <= cutRuns
      <4>1. ~Told(u, n) /\ n > marker
        BY <1>0, <2>2 DEF Told, News
      <4>2. mails[u][n] <= cutRuns + 0
        BY <4>1 DEF AnnouncerInv
      <4>3. QED BY <2>0, <4>1, <4>2
    <3>2. mails'[u][n] = mails[u][n] + 1
      BY <1>2, <2>2
    <3>3. v \in run.audience => Told(u, n)'
      BY <1>0, <1>1, <1>3, <2>2 DEF Told
    <3>4. v \in run.audience
      BY <1>0 DEF AnnouncerInv
    <3>5. QED BY <2>0, <3>1, <3>2, <3>3, <3>4
  <2>3. CASE u = v /\ n \notin News
    <3>1. mails'[u][n] = mails[u][n] /\ ~Told(u, n) /\ ~Told(u, n)'
      BY <1>2, <1>3, <2>0, <2>3 DEF Told
    <3>2. QED BY <3>1 DEF AnnouncerInv
  <2>4. QED BY <2>1, <2>2, <2>3
<1>5. QED BY <1>0, <1>1, <1>2, <1>3, <1>4 DEF AnnouncerInv

\* A restart may cut a run short, and begins one.
LEMMA BootStays == ASSUME AnnouncerInv, NEW k \in 0..MaxNote, Boot(k) PROVE AnnouncerInv'
<1>a. /\ MaxNote \in Nat /\ MaxBoots \in Nat /\ boots \in Nat /\ cutRuns \in Nat
      /\ boots < MaxBoots /\ boots' = boots + 1 /\ k \in Nat /\ marker \in Nat
      /\ cutRuns' = IF run.on THEN cutRuns + 1 ELSE cutRuns
  BY AnnouncerAssumption DEF AnnouncerInv, Boot, NoMarker
<1>b. UNCHANGED <<enrolled, mails>> /\ shipped' = k
  BY DEF Boot
<1>c. cutRuns' \in Nat /\ cutRuns' <= boots
  BY <1>a DEF AnnouncerInv
<1>d. /\ marker' \in 1..NoMarker /\ skipped' \subseteq PatchNotes
      /\ marker' = marker \/ (marker' = k /\ k > 0 /\ (marker = NoMarker \/ k > marker))
      /\ run'.on => marker' = marker /\ marker # NoMarker /\ marker < run'.upTo
      /\ run'.todo = run'.audience
      /\ run' \in [on : BOOLEAN, upTo : 0..MaxNote, audience : SUBSET Readers,
                   todo : SUBSET Readers]
  <2>1. CASE k > 0 /\ marker = NoMarker /\ marker' = k /\ skipped' = 1..k /\ run' = Off
    BY <1>a, <2>1 DEF Off, NoMarker, PatchNotes
  <2>2. CASE /\ k > 0 /\ marker # NoMarker /\ k > marker /\ marker' = k
             /\ skipped' = skipped \union (marker + 1)..k /\ run' = Off
    <3>1. \A i \in (marker + 1)..k : i \in 1..MaxNote
      BY <1>a
    <3>2. skipped' \subseteq PatchNotes
      BY <2>2, <3>1 DEF AnnouncerInv, PatchNotes
    <3>3. QED BY <1>a, <2>2, <3>2 DEF Off, NoMarker
  <2>3. CASE /\ k > 0 /\ marker # NoMarker /\ k > marker /\ marker' = marker
             /\ run' = [on |-> TRUE, upTo |-> k, audience |-> enrolled, todo |-> enrolled]
             /\ skipped' = skipped
    BY <1>a, <2>3 DEF AnnouncerInv
  <2>4. CASE run' = Off /\ marker' = marker /\ skipped' = skipped
    BY <1>a, <2>4 DEF Off, AnnouncerInv
  <2>5. QED BY <2>1, <2>2, <2>3, <2>4 DEF Boot
<1>e. \A u, n : ~Told(u, n)'
  BY <1>d DEF Told
<1>f. ASSUME NEW u \in Readers, NEW n \in PatchNotes
      PROVE  /\ mails[u][n] <= boots' /\ (n > marker' => mails[u][n] <= cutRuns')
             /\ marker = NoMarker => mails[u][n] = 0
  <2>1. mails[u][n] \in Nat /\ n \in Nat /\ n <= MaxNote
    BY <1>a DEF AnnouncerInv, PatchNotes
  <2>2. marker = NoMarker => mails[u][n] = 0
    BY DEF AnnouncerInv
  <2>3. mails[u][n] <= boots
    BY DEF AnnouncerInv
  <2>4. n > marker => mails[u][n] <= cutRuns'
    <3>1. CASE run.on
      <4>1. n > marker => mails[u][n] <= cutRuns + (IF Told(u, n) THEN 1 ELSE 0)
        BY DEF AnnouncerInv
      <4>2. QED BY <1>a, <2>1, <3>1, <4>1
    <3>2. CASE ~run.on
      <4>1. ~Told(u, n)
        BY <3>2 DEF Told
      <4>2. n > marker => mails[u][n] <= cutRuns + 0
        BY <4>1 DEF AnnouncerInv
      <4>3. QED BY <1>a, <2>1, <3>2, <4>2
    <3>3. QED BY <3>1, <3>2
  <2>5. n > marker' => marker = NoMarker \/ n > marker
    BY <1>a, <1>d, <2>1
  <2>6. QED BY <1>a, <1>c, <2>1, <2>2, <2>3, <2>4, <2>5
<1>g. marker' = NoMarker => marker = NoMarker
  BY <1>a, <1>d DEF NoMarker
<1>h. /\ boots' \in 0..MaxBoots /\ cutRuns' \in 0..boots' /\ cutRuns' < boots'
  BY <1>a, <1>c
<1>i. \A u \in Readers, n \in PatchNotes :
         /\ mails'[u][n] <= boots'
         /\ n > marker' => mails'[u][n] <= cutRuns' + (IF Told(u, n)' THEN 1 ELSE 0)
         /\ Told(u, n)' => mails'[u][n] > 0
  BY <1>b, <1>c, <1>e, <1>f
<1>j. NoMarker' = NoMarker
  BY DEF NoMarker
<1>k. marker' = NoMarker => \A u \in Readers, n \in PatchNotes : mails'[u][n] = 0
  BY <1>b, <1>f, <1>g
<1>l. run'.on => marker' # NoMarker /\ marker' < run'.upTo
  BY <1>d
<1>m. run'.todo \subseteq run'.audience
  BY <1>d
<1>n. /\ shipped' \in 0..MaxNote /\ enrolled' \subseteq Readers
      /\ mails' \in [Readers -> [PatchNotes -> Nat]]
  BY <1>b DEF AnnouncerInv
<1>q. QED BY <1>d, <1>h, <1>i, <1>k, <1>l, <1>m, <1>n DEF AnnouncerInv

\* The marker moves once the run has reached everybody.
LEMMA MoveStays == ASSUME AnnouncerInv, MoveMarker PROVE AnnouncerInv'
<1>1. /\ marker' = run.upTo /\ run.on /\ ~run'.on /\ run'.todo = {}
      /\ run' \in [on : BOOLEAN, upTo : 0..MaxNote, audience : SUBSET Readers,
                   todo : SUBSET Readers]
      /\ UNCHANGED <<shipped, enrolled, mails, skipped, boots, cutRuns>>
  BY AnnouncerAssumption DEF MoveMarker, Off
<1>2. run.upTo \in 1..MaxNote /\ marker < run.upTo
  <2>1. marker >= 1 /\ marker \in Nat /\ marker < run.upTo /\ run.upTo \in 0..MaxNote
    BY <1>1, AnnouncerAssumption DEF AnnouncerInv, NoMarker
  <2>2. QED BY <2>1, AnnouncerAssumption
<1>3. MaxNote \in Nat /\ marker' # NoMarker /\ marker' \in 1..NoMarker
  BY <1>1, <1>2, AnnouncerAssumption DEF NoMarker
<1>4. ASSUME NEW u \in Readers, NEW n \in PatchNotes, n > marker'
      PROVE  mails[u][n] <= cutRuns + 0
  <2>1. n > marker /\ ~Told(u, n)
    <3>1. n \in Nat /\ marker \in Nat
      BY <1>3 DEF PatchNotes, AnnouncerInv, NoMarker
    <3>2. QED BY <1>1, <1>2, <1>4, <3>1 DEF Told, News
  <2>2. QED BY <2>1 DEF AnnouncerInv
<1>5. \A u, n : ~Told(u, n)'
  BY <1>1 DEF Told
<1>6. \A u \in Readers, n \in PatchNotes :
         /\ mails'[u][n] <= boots'
         /\ n > marker' => mails'[u][n] <= cutRuns' + (IF Told(u, n)' THEN 1 ELSE 0)
         /\ Told(u, n)' => mails'[u][n] > 0
  BY <1>1, <1>4, <1>5 DEF AnnouncerInv
<1>7. QED BY <1>1, <1>3, <1>6 DEF AnnouncerInv

\* Each step keeps it.
LEMMA AnnouncerStays == AnnouncerInv /\ [AnnouncerNext]_annVars => AnnouncerInv'
<1>1. AnnouncerInv /\ UNCHANGED annVars => AnnouncerInv'
  BY DEF AnnouncerInv, annVars, Told, News
<1>2. QED BY <1>1, EnrolStays, MailStays, BootStays, MoveStays DEF AnnouncerNext

\* So in every state.
LEMMA AnnouncerInvariant == AnnouncerSpec => []AnnouncerInv
<1>1. QED BY AnnouncerStarts, AnnouncerStays, PTL DEF AnnouncerSpec

\* The marker, the run and the mails stay in their types and bounds.
THEOREM AnnouncerTypeCorrect == AnnouncerSpec => []AnnouncerTypeOK
<1>1. QED BY AnnouncerTyped, AnnouncerInvariant, PTL

\* The marker passes a note only when all the readers of the run have its mail, and none
\* gets it again but where a run was cut short before it moved the marker.
THEOREM NotesToldOnce == AnnouncerSpec => NotesAreToldOnce
<1>1. ASSUME AnnouncerInv, AnnouncerNext, NEW n \in PatchNotes, run.on, marker < n, marker' >= n,
             n \notin skipped', NEW u \in run.audience
      PROVE  mails[u][n] > 0
  <2>1. marker \in Nat /\ n \in Nat /\ marker # NoMarker /\ run.audience \subseteq Readers
    BY <1>1, AnnouncerAssumption DEF AnnouncerInv, PatchNotes, NoMarker
  <2>2. ASSUME NEW k \in 0..MaxNote, Boot(k) PROVE FALSE
    <3>1. CASE /\ marker' = k /\ skipped' = skipped \union (marker + 1)..k
      <4>1. n \in (marker + 1)..k
        BY <1>1, <2>1, <3>1
      <4>2. QED BY <1>1, <3>1, <4>1
    <3>2. CASE marker' = marker
      BY <1>1, <2>1, <3>2
    <3>3. QED BY <2>1, <2>2, <3>1, <3>2 DEF Boot
  <2>3. ASSUME NEW v \in Readers, Enrol(v) \/ MailReader(v) PROVE FALSE
    BY <1>1, <2>1, <2>3 DEF Enrol, MailReader
  <2>4. CASE MoveMarker
    <3>1. Told(u, n)
      BY <1>1, <2>4 DEF MoveMarker, Everybody, Told, News
    <3>2. QED BY <1>1, <2>1, <3>1 DEF AnnouncerInv
  <2>5. QED BY <1>1, <2>2, <2>3, <2>4 DEF AnnouncerNext
<1>2. ASSUME AnnouncerInv, AnnouncerNext, NEW u \in Readers, NEW n \in PatchNotes,
             mails'[u][n] > mails[u][n]
      PROVE  mails[u][n] <= cutRuns
  <2>1. mails[u][n] \in Nat /\ cutRuns \in Nat
    BY <1>2 DEF AnnouncerInv
  <2>2. ~(mails' = mails)
    BY <1>2, <2>1
  <2>3. PICK v \in Readers : MailReader(v)
    BY <1>2, <2>2 DEF AnnouncerNext, Enrol, Boot, MoveMarker
  <2>4. n \in News /\ u = v
    BY <1>2, <2>1, <2>3 DEF MailReader, AnnouncerInv
  <2>5. ~Told(u, n) /\ n > marker
    BY <2>3, <2>4 DEF Told, MailReader, News
  <2>6. mails[u][n] <= cutRuns + 0
    BY <1>2, <2>5 DEF AnnouncerInv
  <2>7. QED BY <2>1, <2>6
<1>3. AnnouncerInv /\ [AnnouncerNext]_annVars =>
         [/\ \A n \in PatchNotes :
                run.on /\ marker < n /\ marker' >= n /\ n \notin skipped' =>
                   \A u \in run.audience : mails[u][n] > 0
          /\ \A u \in Readers, n \in PatchNotes :
                mails'[u][n] > mails[u][n] => mails[u][n] <= cutRuns]_annVars
  BY <1>1, <1>2
<1>4. QED BY <1>3, AnnouncerInvariant, PTL DEF AnnouncerSpec, NotesAreToldOnce

-----------------------------------------------------------------------------
(* The badge of a page *)

\* A sequence without one of its elements.
LEMMA Removed ==
    ASSUME NEW S, NEW s \in Seq(S), NEW i \in DOMAIN s
    PROVE  /\ RemoveAt(s, i) \in Seq(S) /\ Len(RemoveAt(s, i)) = Len(s) - 1
           /\ \A j \in 1..(Len(s) - 1) : RemoveAt(s, i)[j] = IF j < i THEN s[j] ELSE s[j + 1]
<1>1. /\ SubSeq(s, 1, i - 1) \in Seq(S) /\ SubSeq(s, i + 1, Len(s)) \in Seq(S)
      /\ Len(SubSeq(s, 1, i - 1)) = i - 1 /\ Len(SubSeq(s, i + 1, Len(s))) = Len(s) - i
      /\ \A j \in 1..(i - 1) : SubSeq(s, 1, i - 1)[j] = s[j]
      /\ \A j \in 1..(Len(s) - i) : SubSeq(s, i + 1, Len(s))[j] = s[i + j]
  OBVIOUS
<1> DEFINE a == SubSeq(s, 1, i - 1)
           b == SubSeq(s, i + 1, Len(s))
<1>2. RemoveAt(s, i) = a \o b
  BY DEF RemoveAt
<1> HIDE DEF a, b
<1>3. a \in Seq(S) /\ b \in Seq(S) /\ Len(a) = i - 1 /\ Len(b) = Len(s) - i
  BY <1>1 DEF a, b
<1>4. /\ a \o b \in Seq(S) /\ Len(a \o b) = Len(a) + Len(b)
      /\ \A j \in 1..(Len(a) + Len(b)) :
            (a \o b)[j] = IF j <= Len(a) THEN a[j] ELSE b[j - Len(a)]
  BY <1>3, ConcatProperties
<1>5. ASSUME NEW j \in 1..(Len(s) - 1)
      PROVE  (a \o b)[j] = IF j < i THEN s[j] ELSE s[j + 1]
  <2>1. CASE j < i
    <3>1. j \in 1..(i - 1)
      BY <2>1
    <3>2. QED BY <1>1, <1>3, <1>4, <2>1, <3>1 DEF a
  <2>2. CASE ~(j < i)
    <3>1. j - (i - 1) \in 1..(Len(s) - i) /\ i + (j - (i - 1)) = j + 1
      BY <2>2
    <3>2. b[j - (i - 1)] = s[i + (j - (i - 1))]
      BY <1>1, <3>1 DEF b
    <3>3. QED BY <1>3, <1>4, <2>2, <3>1, <3>2
  <2>3. QED BY <2>1, <2>2
<1>6. QED BY <1>2, <1>3, <1>4, <1>5

\* One element more.
LEMMA Appended ==
    ASSUME NEW S, NEW s \in Seq(S), NEW e \in S
    PROVE  /\ Append(s, e) \in Seq(S) /\ Len(Append(s, e)) = Len(s) + 1
           /\ \A j \in DOMAIN s : Append(s, e)[j] = s[j]
           /\ Append(s, e)[Len(s) + 1] = e
OBVIOUS

-----------------------------------------------------------------------------

\* The counts will be asked for, or something was lost.
Pending == nudges > 0 \/ debounce \/ cleared > 0 \/ astray \/ \E s \in Scopes : clearing[s] > 0
Due     == Pending \/ \E i \in DOMAIN asking : asking[i].state = "asked"

\* An answer on its way that is not what the server counts will be shown over a newer
\* one, or will have a newer one shown over it.
OldAnswers ==
    \A i \in DOMAIN asking : asking[i].state = "answered" /\ asking[i].got # Count =>
       \/ Due \/ asking[i].late
       \/ \E j \in DOMAIN asking : j > i /\ asking[j].got = Count

\* What is kept of the badge: what an old answer says is known to be old, or explained.
BadgeInv == BadgeTypeOK /\ OldAnswers /\ StaleBadgeHasACause

\* The property in terms of what is due.
LEMMA StaleIs ==
    StaleBadgeHasACause <=>
       (mounted /\ badge # Count => Due \/ \E i \in DOMAIN asking : asking[i].got = Count)
BY DEF StaleBadgeHasACause, Due, Pending

\* Whatever is shown is right, or its correction is due.
LEMMA DueIsACause == ASSUME Due PROVE OldAnswers /\ StaleBadgeHasACause
BY DEF OldAnswers, StaleBadgeHasACause, Due, Pending

\* The page has not asked for its count.
LEMMA BadgeStarts == BadgeInit => BadgeInv
<1> SUFFICES ASSUME BadgeInit PROVE BadgeInv
  OBVIOUS
<1>1. MaxArrivals \in Nat /\ MaxRefetches \in Nat /\ MaxClears \in Nat /\ MaxMisses \in Nat
  BY BadgeAssumption
<1>2. badge \in Badges
  BY <1>1 DEF Clear, Badges, BadgeInit
<1>3. asking \in Seq(Asks) /\ Len(asking) <= MaxRefetches
  BY <1>1 DEF BadgeInit
<1>4. Clearing <= MaxClears /\ cleared \in Nat /\ clearing \in [Scopes -> 0..MaxClears]
  BY <1>1 DEF Clearing, BadgeInit, Scopes
<1>5. BadgeTypeOK
  <2>1. /\ messages = 0 /\ calls = 0 /\ arrived = 0 /\ mounted = FALSE /\ hearing = FALSE
        /\ nudges = 0 /\ debounce = FALSE /\ misses = 0 /\ astray = FALSE
    BY DEF BadgeInit
  <2>2. 0 \in 0..MaxArrivals /\ 0 \in 0..MaxMisses /\ 0 \in 0..0 /\ 0 + 0 <= 0
    BY <1>1
  <2>3. /\ mounted \in BOOLEAN /\ hearing \in BOOLEAN /\ debounce \in BOOLEAN
        /\ astray \in BOOLEAN /\ misses \in 0..MaxMisses
    BY <2>1, <2>2
  <2>4. /\ messages \in Nat /\ calls \in Nat /\ arrived \in 0..MaxArrivals
        /\ messages + calls <= arrived /\ nudges \in 0..arrived /\ ~(nudges > 0)
    BY <2>1, <2>2
  <2>5. QED BY <1>2, <1>3, <1>4, <2>3, <2>4 DEF BadgeTypeOK
<1>6. OldAnswers
  BY DEF BadgeInit, OldAnswers
<1>7. QED BY <1>5, <1>6 DEF BadgeInit, BadgeInv, StaleBadgeHasACause

\* What the server counts is a badge, and an answer with it is one.
LEMMA CountIsABadge == ASSUME BadgeTypeOK PROVE Count \in Badges
BY BadgeAssumption DEF BadgeTypeOK, Count, Badges

\* An empty badge is a badge.
LEMMA ClearIsABadge == Clear \in Badges
BY BadgeAssumption DEF Clear, Badges

\* One read request fewer on its way, or one more.
LEMMA ClearingFewer ==
    ASSUME BadgeTypeOK, NEW s \in Scopes, clearing[s] > 0,
           clearing' = [clearing EXCEPT ![s] = @ - 1], cleared' = cleared + 1
    PROVE  /\ clearing' \in [Scopes -> 0..MaxClears] /\ cleared' \in Nat
           /\ Clearing' <= MaxClears /\ cleared' > 0
<1>1. MaxClears \in Nat /\ \A t \in Scopes : clearing[t] \in 0..MaxClears
  BY BadgeAssumption DEF BadgeTypeOK
<1>2. clearing[s] - 1 \in 0..MaxClears /\ cleared \in Nat
  BY <1>1 DEF BadgeTypeOK
<1>3. clearing' \in [Scopes -> 0..MaxClears]
  BY <1>2 DEF BadgeTypeOK
<1>4. /\ clearing'["channel"] = IF s = "channel" THEN clearing["channel"] - 1
                               ELSE clearing["channel"]
      /\ clearing'["company"] = IF s = "company" THEN clearing["company"] - 1
                               ELSE clearing["company"]
  BY DEF BadgeTypeOK, Scopes
<1>5. clearing["channel"] \in Nat /\ clearing["company"] \in Nat /\ Clearing <= MaxClears
  BY <1>1 DEF Scopes, BadgeTypeOK
<1>6. QED BY <1>1, <1>2, <1>3, <1>4, <1>5 DEF Clearing, Scopes

\* One more request to clear keeps the number of them in its bound.
LEMMA ClearingMore ==
    ASSUME BadgeTypeOK, NEW s \in Scopes, Clearing < MaxClears,
           clearing' = [clearing EXCEPT ![s] = @ + 1], cleared' = cleared
    PROVE  /\ clearing' \in [Scopes -> 0..MaxClears]
           /\ Clearing' <= MaxClears /\ clearing'[s] > 0
<1>1. MaxClears \in Nat /\ \A t \in Scopes : clearing[t] \in 0..MaxClears
  BY BadgeAssumption DEF BadgeTypeOK
<1>2. clearing["channel"] \in Nat /\ clearing["company"] \in Nat /\ cleared \in Nat
  BY <1>1 DEF Scopes, BadgeTypeOK
<1>3. clearing[s] + 1 \in 0..MaxClears
  BY <1>1, <1>2 DEF Clearing, Scopes
<1>4. clearing' \in [Scopes -> 0..MaxClears] /\ clearing'[s] = clearing[s] + 1
  BY <1>3 DEF BadgeTypeOK
<1>5. /\ clearing'["channel"] = IF s = "channel" THEN clearing["channel"] + 1
                               ELSE clearing["channel"]
      /\ clearing'["company"] = IF s = "company" THEN clearing["company"] + 1
                               ELSE clearing["company"]
  BY DEF BadgeTypeOK, Scopes
<1>6. QED BY <1>1, <1>2, <1>4, <1>5 DEF Clearing, Scopes

\* One request for the counts more; it will be answered.
LEMMA Asked ==
    ASSUME BadgeTypeOK, Ask
    PROVE  asking' \in Seq(Asks) /\ Len(asking') <= MaxRefetches /\ Due'
<1> DEFINE e == [state |-> "asked", got |-> Clear, late |-> FALSE]
<1>1. e \in Asks /\ e.state = "asked"
  BY ClearIsABadge DEF Asks
<1>2. /\ Len(asking) < MaxRefetches /\ asking' = Append(asking, e) /\ asking \in Seq(Asks)
      /\ MaxRefetches \in Nat
  BY BadgeAssumption DEF Ask, BadgeTypeOK
<1> HIDE DEF e
<1>3. /\ asking' \in Seq(Asks) /\ Len(asking') = Len(asking) + 1
      /\ asking'[Len(asking) + 1] = e
  BY <1>1, <1>2, Appended
<1>4. Len(asking) + 1 \in DOMAIN asking'
  BY <1>2, <1>3
<1>5. QED BY <1>1, <1>2, <1>3, <1>4 DEF Due

\* Each step keeps the counts on the badge explained.
LEMMA BadgeStays == BadgeInv /\ [BadgeNext]_badgeVars => BadgeInv'
<1> SUFFICES ASSUME BadgeInv, [BadgeNext]_badgeVars PROVE BadgeInv'
  OBVIOUS
<1> USE DEF counts, fetches, rail
<1>t. /\ BadgeTypeOK /\ MaxArrivals \in Nat /\ MaxRefetches \in Nat /\ MaxClears \in Nat
      /\ MaxMisses \in Nat /\ Count \in Badges /\ messages \in Nat /\ calls \in Nat
      /\ arrived \in Nat /\ messages + calls <= arrived /\ arrived <= MaxArrivals
      /\ nudges \in Nat /\ nudges <= arrived /\ cleared \in Nat
  BY BadgeAssumption, CountIsABadge DEF BadgeInv, BadgeTypeOK
<1>c. ASSUME Due' PROVE OldAnswers' /\ StaleBadgeHasACause'
  BY <1>c DEF OldAnswers, StaleBadgeHasACause, Due, Pending
<1>1. CASE MessageArrives
  <2>1. BadgeTypeOK'
    <3>1. arrived + 1 \in 0..MaxArrivals /\ messages + 1 + calls <= arrived + 1
          /\ nudges + 1 \in 0..(arrived + 1) /\ nudges \in 0..(arrived + 1)
      BY <1>1, <1>t DEF MessageArrives
    <3>2. Clearing' = Clearing /\ (nudges > 0 => hearing)
      BY <1>1, <1>t DEF MessageArrives, Clearing, BadgeTypeOK
    <3>3. /\ messages' \in Nat /\ arrived' \in 0..MaxArrivals /\ messages' + calls' <= arrived'
          /\ nudges' \in 0..arrived' /\ astray' \in BOOLEAN /\ (nudges' > 0 => hearing')
      <4>1. /\ messages' = messages + 1 /\ arrived' = arrived + 1
            /\ calls' = calls /\ hearing' = hearing
        BY <1>1 DEF MessageArrives
      <4>2. CASE hearing
        <5>1. nudges' = nudges + 1 /\ astray' = astray
          BY <1>1, <4>2 DEF MessageArrives
        <5>2. astray \in BOOLEAN
          BY <1>t DEF BadgeTypeOK
        <5>3. QED BY <1>t, <3>1, <4>1, <4>2, <5>1, <5>2
      <4>3. CASE ~hearing
        <5>1. nudges' = nudges /\ astray' = TRUE
          BY <1>1, <4>3 DEF MessageArrives
        <5>2. QED BY <1>t, <3>1, <3>2, <4>1, <5>1
      <4>4. QED BY <4>2, <4>3
    <3>4. UNCHANGED <<calls, rail, debounce, fetches, badge, misses>>
      BY <1>1 DEF MessageArrives
    <3>5. QED BY <1>t, <3>2, <3>3, <3>4 DEF BadgeTypeOK
  <2>2. Due'
    BY <1>1, <1>t DEF MessageArrives, Due, Pending
  <2>3. QED BY <1>c, <2>1, <2>2 DEF BadgeInv
<1>2. CASE CallMissed
  <2>1. BadgeTypeOK'
    <3>1. arrived + 1 \in 0..MaxArrivals /\ messages + (calls + 1) <= arrived + 1
          /\ nudges \in 0..(arrived + 1)
      BY <1>2, <1>t DEF CallMissed
    <3>2. QED BY <1>2, <1>t, <3>1 DEF CallMissed, BadgeTypeOK, Clearing
  <2>2. Due'
    BY <1>2 DEF CallMissed, Due, Pending
  <2>3. QED BY <1>c, <2>1, <2>2 DEF BadgeInv
<1>3. CASE CountShrinks
  <2>1. BadgeTypeOK'
    <3>1. /\ messages > 0 => messages - 1 \in Nat /\ messages - 1 + calls <= arrived
          /\ calls > 0 => calls - 1 \in Nat /\ messages + (calls - 1) <= arrived
      BY <1>t
    <3>2. QED BY <1>3, <1>t, <3>1 DEF CountShrinks, BadgeTypeOK, Clearing
  <2>2. Due'
    BY <1>3 DEF CountShrinks, Due, Pending
  <2>3. QED BY <1>c, <2>1, <2>2 DEF BadgeInv
<1>4. ASSUME NEW s \in Scopes, ClearArrives(s) \/ ClearFails(s) PROVE BadgeInv'
  <2>1. /\ clearing' \in [Scopes -> 0..MaxClears] /\ cleared' \in Nat
        /\ Clearing' <= MaxClears /\ cleared' > 0
    BY <1>4, <1>t, ClearingFewer DEF ClearArrives, ClearFails
  <2>2. /\ messages' \in Nat /\ calls' \in Nat /\ messages' + calls' <= arrived
        /\ misses' \in 0..MaxMisses
    <3>1. CASE ClearArrives(s)
      <4>1. (messages' = 0 /\ calls' = 0) \/ (messages' \in 0..messages /\ calls' = calls)
        BY <3>1 DEF ClearArrives, CompanyCleared, ChannelCleared
      <4>2. QED BY <1>t, <3>1, <4>1 DEF ClearArrives, BadgeTypeOK
    <3>2. CASE ClearFails(s)
      BY <1>t, <3>2 DEF ClearFails, BadgeTypeOK
    <3>3. QED BY <1>4, <3>1, <3>2
  <2>3. UNCHANGED <<arrived, rail, nudges, debounce, asking, badge, astray>>
    BY <1>4 DEF ClearArrives, ClearFails
  <2>4. BadgeTypeOK'
    BY <1>t, <2>1, <2>2, <2>3 DEF BadgeTypeOK
  <2>5. Due'
    BY <2>1 DEF Due, Pending
  <2>6. QED BY <1>c, <2>4, <2>5 DEF BadgeInv
<1>5. CASE MountRail \/ SafetyNet
  <2>1. asking' \in Seq(Asks) /\ Len(asking') <= MaxRefetches /\ Due'
    BY <1>5, <1>t, Asked DEF MountRail, SafetyNet
  <2>2. BadgeTypeOK'
    BY <1>5, <1>t, <2>1 DEF MountRail, SafetyNet, BadgeTypeOK, Clearing
  <2>3. QED BY <1>c, <2>1, <2>2 DEF BadgeInv
<1>6. CASE RefetchBadge
  <2>1. asking' \in Seq(Asks) /\ Len(asking') <= MaxRefetches /\ Due'
    BY <1>6, <1>t, Asked DEF RefetchBadge
  <2>2. BadgeTypeOK'
    BY <1>6, <1>t, <2>1 DEF RefetchBadge, BadgeTypeOK, Clearing
  <2>3. QED BY <1>c, <2>1, <2>2 DEF BadgeInv
<1>7. CASE StreamChanges
  <2>1. BadgeTypeOK'
    BY <1>7, <1>t DEF StreamChanges, BadgeTypeOK, Clearing
  <2>2. /\ Count' = Count /\ badge' = badge /\ mounted' = mounted /\ asking' = asking
        /\ Due => Due'
    BY <1>7, <1>t DEF StreamChanges, Count, Due, Pending
  <2>3. QED BY <2>1, <2>2, StaleIs DEF BadgeInv, OldAnswers, StaleBadgeHasACause, Due, Pending
<1>8. CASE Nudged \/ PageSeen \/ ClearEnds
  <2>1. BadgeTypeOK'
    <3>1. /\ nudges > 0 => nudges - 1 \in 0..arrived
          /\ cleared > 0 => cleared - 1 \in Nat /\ Clearing - 1 <= MaxClears
      <4>1. Clearing <= MaxClears /\ Clearing \in Int
        BY <1>t DEF BadgeTypeOK, Clearing, Scopes
      <4>2. QED BY <1>t, <4>1
    <3>2. cleared' = cleared - 1 /\ clearing' = clearing => Clearing' = Clearing - 1
      BY <1>t DEF Clearing, BadgeTypeOK, Scopes
    <3>3. CASE ClearEnds
      BY <1>t, <3>1, <3>2, <3>3 DEF ClearEnds, Schedule, BadgeTypeOK
    <3>4. CASE Nudged \/ PageSeen
      BY <1>t, <3>1, <3>4 DEF Nudged, PageSeen, Schedule, BadgeTypeOK, Clearing
    <3>5. QED BY <1>8, <3>3, <3>4
  <2>2. Due'
    BY <1>8 DEF Nudged, PageSeen, ClearEnds, Schedule, Due, Pending
  <2>3. QED BY <1>c, <2>1, <2>2 DEF BadgeInv
<1>9. ASSUME NEW i \in DOMAIN asking, CountsAnswered(i) PROVE BadgeInv'
  <2> DEFINE e == [asking[i] EXCEPT !.state = "answered", !.got = Count]
  <2>1. asking[i] \in Asks /\ asking \in Seq(Asks)
    BY <1>t DEF BadgeTypeOK
  <2>2. e \in Asks /\ e.got = Count
    BY <1>t, <2>1 DEF Asks
  <2>3. asking' = Append(RemoveAt(asking, i), e)
    BY <1>9 DEF CountsAnswered
  <2> HIDE DEF e
  <2>4. RemoveAt(asking, i) \in Seq(Asks) /\ Len(RemoveAt(asking, i)) = Len(asking) - 1
    BY <2>1, Removed
  <2>5. /\ asking' \in Seq(Asks) /\ Len(asking') = Len(asking)
        /\ asking'[Len(asking)] = e
    BY <2>1, <2>2, <2>3, <2>4, Appended
  <2>6. Len(asking) \in DOMAIN asking'
    BY <2>1, <2>5
  <2>7. Count' = Count
    BY <1>9 DEF CountsAnswered, Count
  <2>8. ASSUME NEW k \in DOMAIN asking', asking'[k].got # Count'
        PROVE  \E j \in DOMAIN asking' : j > k /\ asking'[j].got = Count'
    <3>1. k # Len(asking) /\ k \in 1..Len(asking)
      BY <2>1, <2>2, <2>5, <2>7, <2>8
    <3>2. Len(asking) > k
      BY <2>1, <3>1
    <3>3. QED BY <2>2, <2>5, <2>6, <2>7, <3>2
  <2>9. OldAnswers' /\ StaleBadgeHasACause'
    BY <2>2, <2>5, <2>6, <2>7, <2>8 DEF OldAnswers, StaleBadgeHasACause
  <2>10. BadgeTypeOK'
    BY <1>9, <1>t, <2>5 DEF CountsAnswered, BadgeTypeOK, Clearing
  <2>11. QED BY <2>9, <2>10 DEF BadgeInv
<1>10. ASSUME NEW i \in DOMAIN asking, BadgeShown(i) PROVE BadgeInv'
  <2>1. asking[i] \in Asks /\ asking \in Seq(Asks) /\ Len(asking) \in Nat /\ i \in 1..Len(asking)
    BY <1>t DEF BadgeTypeOK
  <2> DEFINE e(j) == IF j < i THEN [asking[j] EXCEPT !.late = (@ \/ asking[j].state = "answered")]
                     ELSE asking[j + 1]
  <2>2. asking' = [j \in 1..(Len(asking) - 1) |-> e(j)]
    BY <1>10 DEF BadgeShown, Ended
  <2>3. ASSUME NEW j \in 1..(Len(asking) - 1)
        PROVE  e(j) \in Asks
    <3>1. asking[j] \in Asks /\ asking[j + 1] \in Asks
      BY <2>1
    <3>2. QED BY <3>1 DEF Asks
  <2>4. asking' \in Seq(Asks) /\ Len(asking') = Len(asking) - 1
    BY <2>1, <2>2, <2>3
  <2>5. Count' = Count /\ badge' = asking[i].got /\ asking[i].got \in Badges
    BY <1>10, <2>1 DEF BadgeShown, Count, Asks
  <2>6. BadgeTypeOK'
    BY <1>10, <1>t, <2>1, <2>4, <2>5 DEF BadgeShown, BadgeTypeOK, Clearing
  <2>7. /\ asking[i].state = "answered" /\ (Pending => Pending') /\ mounted' = mounted
        /\ astray' = (astray \/ asking[i].late)
    BY <1>10 DEF BadgeShown, Pending
  <2>8. ASSUME NEW j \in DOMAIN asking, j < i
        PROVE  /\ j \in DOMAIN asking' /\ asking'[j].state = asking[j].state
               /\ asking'[j].got = asking[j].got
               /\ asking'[j].late <=> asking[j].late \/ asking[j].state = "answered"
    <3>1. j \in 1..(Len(asking) - 1) /\ asking'[j] = e(j) /\ asking[j] \in Asks
      BY <2>1, <2>2, <2>8
    <3>2. QED BY <2>2, <2>8, <3>1 DEF Asks
  <2>9. ASSUME NEW j \in DOMAIN asking, j > i
        PROVE  j - 1 \in DOMAIN asking' /\ asking'[j - 1] = asking[j]
    <3>1. j - 1 \in 1..(Len(asking) - 1) /\ ~(j - 1 < i) /\ (j - 1) + 1 = j
      BY <2>1, <2>9
    <3>2. QED BY <2>2, <3>1
  <2>10. Due => Due'
    <3>1. ASSUME NEW j \in DOMAIN asking, asking[j].state = "asked" PROVE Due'
      <4>1. j < i \/ j > i
        BY <2>1, <2>7, <3>1
      <4>2. QED BY <2>8, <2>9, <3>1, <4>1 DEF Due
    <3>2. QED BY <2>7, <3>1 DEF Due
  <2>11. StaleBadgeHasACause'
    <3>1. CASE asking[i].got = Count
      BY <2>5, <3>1 DEF StaleBadgeHasACause
    <3>2. CASE Due \/ asking[i].late
      BY <1>c, <2>7, <2>10, <3>2 DEF Due, Pending
    <3>3. CASE \E j \in DOMAIN asking : j > i /\ asking[j].got = Count
      BY <2>5, <2>9, <3>3 DEF StaleBadgeHasACause
    <3>4. QED BY <2>7, <3>1, <3>2, <3>3 DEF BadgeInv, OldAnswers
  <2>12. OldAnswers'
    <3> SUFFICES ASSUME NEW k \in DOMAIN asking', asking'[k].state = "answered",
                        asking'[k].got # Count', ~Due', ~asking'[k].late
                 PROVE  \E m \in DOMAIN asking' : m > k /\ asking'[m].got = Count'
      BY DEF OldAnswers
    <3>1. k \in 1..(Len(asking) - 1)
      BY <2>2
    <3>2. ~(k < i)
      <4>1. ASSUME k < i PROVE FALSE
        <5>1. k \in DOMAIN asking
          BY <2>1, <3>1
        <5>2. QED BY <2>8, <4>1, <5>1
      <4>2. QED BY <4>1
    <3>3. /\ k + 1 \in DOMAIN asking /\ k + 1 > i /\ (k + 1) - 1 = k /\ asking'[k] = asking[k + 1]
      BY <2>1, <2>2, <3>1, <3>2
    <3>4. PICK j \in DOMAIN asking : j > k + 1 /\ asking[j].got = Count
      BY <2>5, <2>10, <3>3 DEF BadgeInv, OldAnswers
    <3>5. j > i /\ j - 1 > k
      BY <2>1, <3>1, <3>3, <3>4
    <3>6. QED BY <2>5, <2>9, <3>4, <3>5
  <2>13. QED BY <2>6, <2>11, <2>12 DEF BadgeInv
<1>11. ASSUME NEW i \in DOMAIN asking, CountsFail(i) PROVE BadgeInv'
  <2>1. asking \in Seq(Asks) /\ RemoveAt(asking, i) \in Seq(Asks)
        /\ Len(RemoveAt(asking, i)) = Len(asking) - 1
    BY <1>t, Removed DEF BadgeTypeOK
  <2>2. BadgeTypeOK'
    BY <1>11, <1>t, <2>1 DEF CountsFail, BadgeTypeOK, Clearing
  <2>3. Due'
    BY <1>11 DEF CountsFail, Due, Pending
  <2>4. QED BY <1>c, <2>2, <2>3 DEF BadgeInv
<1>12. CASE ClearChannel \/ ClearCompany
  <2>1. PICK s \in Scopes : clearing' = [clearing EXCEPT ![s] = @ + 1]
    BY <1>12 DEF ClearChannel, ClearCompany, Scopes
  <2>2. /\ clearing' \in [Scopes -> 0..MaxClears]
        /\ Clearing' <= MaxClears /\ clearing'[s] > 0
    BY <1>12, <1>t, <2>1, ClearingMore DEF ClearChannel, ClearCompany
  <2>3. BadgeTypeOK'
    BY <1>12, <1>t, <2>2, ClearIsABadge DEF ClearChannel, ClearCompany, BadgeTypeOK
  <2>4. Due'
    BY <2>2 DEF Due, Pending
  <2>5. QED BY <1>c, <2>3, <2>4 DEF BadgeInv
<1>13. CASE UNCHANGED badgeVars
  BY <1>13 DEF badgeVars, BadgeInv, BadgeTypeOK, StaleBadgeHasACause, Count, Clearing,
               OldAnswers, Due, Pending
<1>14. QED
  BY <1>1, <1>2, <1>3, <1>4, <1>5, <1>6, <1>7, <1>8, <1>9, <1>10, <1>11, <1>12, <1>13
     DEF BadgeNext

\* So in every state.
LEMMA BadgeInvariant == BadgeSpec => []BadgeInv
<1>1. QED BY BadgeStarts, BadgeStays, PTL DEF BadgeSpec

\* The counts, the requests and the events stay in their types and bounds.
THEOREM BadgeTypeCorrect == BadgeSpec => []BadgeTypeOK
<1>1. BadgeInv => BadgeTypeOK
  BY DEF BadgeInv
<1>2. QED BY <1>1, BadgeInvariant, PTL

\* A badge that differs from the count of the server will be set by a request, a timer or
\* an event on its way, or the change was one nothing tells of, or an answer was lost or
\* overtaken.
THEOREM BadgeIsExplained == BadgeSpec => []StaleBadgeHasACause
<1>1. BadgeInv => StaleBadgeHasACause
  BY DEF BadgeInv
<1>2. QED BY <1>1, BadgeInvariant, PTL

-----------------------------------------------------------------------------
(* The ledger of a channel *)

(* The numbers of the rows *)

\* The rows of a table have positive numbers, up to a greatest.
Numbered(t) ==
    /\ DOMAIN t \subseteq Nat \ {0}
    /\ \E b \in Nat : \A i \in DOMAIN t : i <= b

\* The next number is after all of them.
LEMMA NextIsAfterAll ==
    ASSUME NEW t, Numbered(t)
    PROVE  NextId(t) \in Nat \ {0} /\ \A i \in DOMAIN t : i < NextId(t)
<1> DEFINE S == DOMAIN t \union {0}
           U == {u \in Nat : \A i \in S : i <= u}
<1>1. S \subseteq Nat /\ 0 \in S
  BY DEF Numbered
<1>2. U # {}
  BY DEF Numbered
<1>3. PICK m \in U : \A u \in U : m <= u
  BY <1>2, LeastExists
<1>4. m \in S
  <2>1. SUFFICES ASSUME m \notin S
                 PROVE  FALSE
    OBVIOUS
  <2>2. m \in Nat /\ \A i \in S : i <= m
    BY <1>3
  <2>3. m > 0 /\ m - 1 \in Nat
    BY <2>1, <2>2, <1>1
  <2>4. \A i \in S : i <= m - 1
    BY <2>1, <2>2, <1>1
  <2>5. m - 1 \in U
    BY <2>3, <2>4
  <2>6. QED BY <2>5, <2>2, <1>3
<1>5. \A y \in S : m >= y
  BY <1>3, <1>1
<1> HIDE DEF U
<1>6. Max(S) \in S /\ \A y \in S : Max(S) >= y
  <2> HIDE DEF S
  <2>1. QED BY <1>4, <1>5 DEF Max
<1>7. NextId(t) = Max(S) + 1
  BY DEF NextId
<1> DEFINE top == Max(S)
<1>8. top \in Nat /\ (\A i \in S : i <= top) /\ NextId(t) = top + 1
  BY <1>1, <1>6, <1>7
<1> HIDE DEF top
<1>9. QED BY <1>1, <1>8

-----------------------------------------------------------------------------
(* Pairs *)

\* Rows g and j of a table are the two credits of split g.
PairAt(t, g, j) ==
    /\ g \in DOMAIN t /\ j \in DOMAIN t /\ j # g
    /\ \A k \in DOMAIN t : t[k].group = g <=> k = g \/ k = j
    /\ t[j].who # t[g].who /\ t[j].month = t[g].month
    /\ t[g].fee - t[j].fee \in {0, 1}

\* The splits of a table are pairs.
Paired(t) == \A i \in DOMAIN t : t[i].group # Solo => \E j : PairAt(t, t[i].group, j)

\* That is what the property says of the placements.
LEMMA PairedIsTheProperty == SplitsStayPaired <=> Paired(credits)
<1>1. ASSUME Paired(credits)
      PROVE  SplitsStayPaired
  <2> SUFFICES ASSUME NEW i \in DOMAIN credits, credits[i].group # Solo
               PROVE  \E j \in {k \in DOMAIN credits : credits[k].group = credits[i].group}
                                 \ {credits[i].group} :
                         /\ {k \in DOMAIN credits : credits[k].group = credits[i].group}
                               = {credits[i].group, j}
                         /\ credits[j].who # credits[credits[i].group].who
                         /\ credits[j].month = credits[credits[i].group].month
                         /\ credits[credits[i].group].fee - credits[j].fee \in {0, 1}
    BY DEF SplitsStayPaired
  <2>1. PICK j : PairAt(credits, credits[i].group, j)
    BY <1>1 DEF Paired
  <2> DEFINE g == credits[i].group
  <2>2. PairAt(credits, g, j)
    BY <2>1
  <2> HIDE DEF g
  <2>3. {k \in DOMAIN credits : credits[k].group = g} = {g, j}
    BY <2>2 DEF PairAt
  <2>4. j \in {k \in DOMAIN credits : credits[k].group = g} \ {g}
    BY <2>2 DEF PairAt
  <2>5. /\ credits[j].who # credits[g].who /\ credits[j].month = credits[g].month
        /\ credits[g].fee - credits[j].fee \in {0, 1}
    BY <2>2 DEF PairAt
  <2>6. QED BY <2>3, <2>4, <2>5 DEF g
<1>2. ASSUME SplitsStayPaired
      PROVE  Paired(credits)
  <2> SUFFICES ASSUME NEW i \in DOMAIN credits, credits[i].group # Solo
               PROVE  \E j : PairAt(credits, credits[i].group, j)
    BY DEF Paired
  <2> DEFINE g == credits[i].group
             pair == {k \in DOMAIN credits : credits[k].group = g}
  <2>1. PICK j \in pair \ {g} :
             /\ pair = {g, j}
             /\ credits[j].who # credits[g].who /\ credits[j].month = credits[g].month
             /\ credits[g].fee - credits[j].fee \in {0, 1}
    BY <1>2 DEF SplitsStayPaired
  <2>2. \A k \in DOMAIN credits : credits[k].group = g <=> k \in {g, j}
    BY <2>1
  <2>3. g \in DOMAIN credits /\ j \in DOMAIN credits /\ j # g
    BY <2>1
  <2>4. PairAt(credits, g, j)
    <3> HIDE DEF g
    <3>1. QED BY <2>1, <2>2, <2>3 DEF PairAt
  <2>5. QED BY <2>4
<1>3. QED BY <1>1, <1>2

\* A pair stays one in a table that keeps both its rows, and gives no other its number.
LEMMA PairStays ==
    ASSUME NEW t, NEW s, NEW g, NEW j, PairAt(t, g, j),
           g \in DOMAIN s, s[g] = t[g], j \in DOMAIN s, s[j] = t[j],
           \A k \in DOMAIN s : s[k].group = g => k \in DOMAIN t /\ s[k].group = t[k].group
    PROVE  PairAt(s, g, j)
BY DEF PairAt

\* A row, whatever its number.
Placed == [who : Recruiters, month : Months, fee : Nat, group : Nat]

\* The rows of a placement: one credit, or the two of a split.
LEMMA RowsAreASplit ==
    ASSUME NEW p \in Inputs, NEW id \in Nat \ {0}
    PROVE  /\ id \in DOMAIN Rows(p, id) /\ DOMAIN Rows(p, id) \subseteq {id, id + 1}
           /\ \A i \in DOMAIN Rows(p, id) : Rows(p, id)[i] \in Placed
           /\ \A i \in DOMAIN Rows(p, id) : Rows(p, id)[i].group # Solo =>
                 Rows(p, id)[i].group = id /\ PairAt(Rows(p, id), id, id + 1)
<1> DEFINE r == Rows(p, id)
           credit(who, fee, group) == [who |-> who, month |-> p.month, fee |-> fee, group |-> group]
<1>0. /\ p.who \in Recruiters /\ p.manager \in Recruiters \union {NoManager}
      /\ p.month \in Months /\ p.fee \in Nat /\ p.who # p.manager
  BY LedgerAssumption DEF Inputs
<1>1. CASE p.manager = NoManager
  <2>1. r = [i \in {id} |-> credit(p.who, p.fee, Solo)]
    BY <1>1 DEF Rows
  <2>2. DOMAIN r = {id} /\ r[id].group = Solo
    BY <2>1
  <2>3. r[id] \in Placed
    BY <1>0, <2>1 DEF Placed, Solo
  <2> HIDE DEF r
  <2>4. QED BY <2>2, <2>3 DEF r
<1>2. CASE p.manager # NoManager
  <2>1. r = [i \in {id, id + 1} |-> IF i = id THEN credit(p.who, p.fee - p.fee \div 2, id)
                                    ELSE credit(p.manager, p.fee \div 2, id)]
    BY <1>2 DEF Rows
  <2>2. id + 1 # id
    OBVIOUS
  <2>3. DOMAIN r = {id, id + 1}
    BY <2>1
  <2>4. r[id] = credit(p.who, p.fee - p.fee \div 2, id)
    BY <2>1
  <2>5. r[id + 1] = credit(p.manager, p.fee \div 2, id)
    BY <2>1, <2>2
  <2>6. p.who # p.manager /\ p.fee \in Nat
    BY <1>0
  <2> HIDE DEF r
  <2>7. /\ r[id].who = p.who /\ r[id].month = p.month /\ r[id].group = id
        /\ r[id].fee = p.fee - p.fee \div 2
    BY <2>4
  <2>8. /\ r[id + 1].who = p.manager /\ r[id + 1].month = p.month /\ r[id + 1].group = id
        /\ r[id + 1].fee = p.fee \div 2
    BY <2>5
  <2>9. (p.fee - p.fee \div 2) - (p.fee \div 2) \in {0, 1}
    <3> DEFINE f == p.fee
    <3>1. f \in Nat
      BY <2>6
    <3> HIDE DEF f
    <3>2. (f - f \div 2) - (f \div 2) \in {0, 1}
      BY <3>1
    <3>3. QED BY <3>2 DEF f
  <2>10. r[id].fee - r[id + 1].fee \in {0, 1}
    BY <2>7, <2>8, <2>9
  <2>11. PairAt(r, id, id + 1)
    BY <2>2, <2>3, <2>6, <2>7, <2>8, <2>10 DEF PairAt
  <2>12. \A i \in DOMAIN r : r[i].group = id
    BY <2>3, <2>7, <2>8
  <2>13. r[id] \in Placed /\ r[id + 1] \in Placed
    <3> DEFINE f == p.fee
    <3>1. f \in Nat
      BY <1>0
    <3> HIDE DEF f
    <3>2. f - f \div 2 \in Nat /\ f \div 2 \in Nat
      BY <3>1
    <3>3. p.manager \in Recruiters
      BY <1>0, <1>2
    <3>4. QED BY <1>0, <2>4, <2>5, <3>2, <3>3 DEF Placed, f
  <2>14. QED BY <2>3, <2>11, <2>12, <2>13 DEF r
<1>3. QED BY <1>1, <1>2

-----------------------------------------------------------------------------
(* A batch *)

\* A table made of the placements and of what a batch adds to them.
Sound(t) ==
    /\ Numbered(t) /\ Paired(t)
    /\ \A i \in DOMAIN t : t[i] \in Placed
    /\ DOMAIN credits \subseteq DOMAIN t
    /\ \A i \in DOMAIN credits : t[i] = credits[i]

\* One placement more.
LEMMA OneMoreIsSound ==
    ASSUME NEW t, Sound(t), NEW p \in Inputs
    PROVE  Sound(Inserted(t, Rows(p, NextId(t))))
<1> DEFINE id == NextId(t)
           r == Rows(p, id)
           s == Inserted(t, r)
<1>1. id \in Nat \ {0} /\ \A i \in DOMAIN t : i < id
  BY NextIsAfterAll DEF Sound
<1>2. DOMAIN t \subseteq Nat \ {0}
  BY DEF Sound, Numbered
<1> HIDE DEF id
<1>3. /\ id \in DOMAIN r /\ DOMAIN r \subseteq {id, id + 1}
      /\ \A i \in DOMAIN r : r[i] \in Placed
      /\ \A i \in DOMAIN r : r[i].group # Solo => r[i].group = id /\ PairAt(r, id, id + 1)
  BY <1>1, RowsAreASplit
<1> HIDE DEF r
<1>4. /\ DOMAIN s = DOMAIN t \union DOMAIN r
      /\ \A x \in DOMAIN t : s[x] = t[x]
      /\ \A x \in DOMAIN r \ DOMAIN t : s[x] = r[x]
  BY DEF Inserted
<1> HIDE DEF s
<1>5. DOMAIN r \cap DOMAIN t = {}
  BY <1>1, <1>2, <1>3
<1>6. Numbered(s)
  <2>1. DOMAIN s \subseteq Nat \ {0}
    BY <1>1, <1>2, <1>3, <1>4
  <2>2. \A i \in DOMAIN s : i <= id + 1
    BY <1>1, <1>2, <1>3, <1>4
  <2>3. id + 1 \in Nat
    BY <1>1
  <2>4. QED BY <2>1, <2>2, <2>3 DEF Numbered
<1>7. Paired(s)
  <2> SUFFICES ASSUME NEW i \in DOMAIN s, s[i].group # Solo
               PROVE  \E j : PairAt(s, s[i].group, j)
    BY DEF Paired
  <2>1. CASE i \in DOMAIN t
    <3>1. s[i] = t[i]
      BY <2>1, <1>4
    <3>2. PICK j : PairAt(t, t[i].group, j)
      BY <2>1, <3>1 DEF Sound, Paired
    <3> DEFINE g == t[i].group
    <3>3. PairAt(t, g, j)
      BY <3>2
    <3> HIDE DEF g
    <3>4. g \in DOMAIN t /\ j \in DOMAIN t
      BY <3>3 DEF PairAt
    <3>5. ASSUME NEW k \in DOMAIN s, s[k].group = g
          PROVE  k \in DOMAIN t /\ s[k].group = t[k].group
      <4>1. k \in DOMAIN t
        <5>1. SUFFICES ASSUME k \notin DOMAIN t
                       PROVE  FALSE
          OBVIOUS
        <5>2. k \in DOMAIN r /\ s[k] = r[k]
          BY <5>1, <1>4
        <5>3. g # Solo
          BY <3>4, <1>2 DEF Solo
        <5>4. g = id
          BY <5>2, <5>3, <3>5, <1>3
        <5>5. QED BY <5>4, <3>4, <1>1, <1>2
      <4>2. QED BY <4>1, <1>4
    <3>6. g \in DOMAIN s /\ s[g] = t[g] /\ j \in DOMAIN s /\ s[j] = t[j]
      BY <3>4, <1>4
    <3>7. PairAt(s, g, j)
      BY <3>3, <3>5, <3>6, PairStays
    <3>8. QED BY <3>1, <3>7 DEF g
  <2>2. CASE i \notin DOMAIN t
    <3>1. i \in DOMAIN r /\ s[i] = r[i]
      BY <2>2, <1>4
    <3>2. r[i].group = id /\ PairAt(r, id, id + 1)
      BY <3>1, <1>3
    <3>3. id \in DOMAIN r /\ id + 1 \in DOMAIN r
      BY <3>2 DEF PairAt
    <3>4. id \in DOMAIN s /\ s[id] = r[id] /\ id + 1 \in DOMAIN s /\ s[id + 1] = r[id + 1]
      BY <3>3, <1>4, <1>5
    <3>5. ASSUME NEW k \in DOMAIN s, s[k].group = id
          PROVE  k \in DOMAIN r /\ s[k].group = r[k].group
      <4>1. k \notin DOMAIN t
        <5>1. SUFFICES ASSUME k \in DOMAIN t
                       PROVE  FALSE
          OBVIOUS
        <5>2. t[k].group = id /\ id # Solo
          BY <5>1, <3>5, <1>1, <1>4 DEF Solo
        <5>3. PICK j : PairAt(t, id, j)
          BY <5>1, <5>2 DEF Sound, Paired
        <5>4. id \in DOMAIN t
          BY <5>3 DEF PairAt
        <5>5. QED BY <5>4, <1>1, <1>2
      <4>2. QED BY <4>1, <1>4
    <3>6. PairAt(s, id, id + 1)
      BY <3>2, <3>4, <3>5, PairStays
    <3>7. QED BY <3>1, <3>2, <3>6
  <2>3. QED BY <2>1, <2>2
<1>8. /\ DOMAIN credits \subseteq DOMAIN s
      /\ \A i \in DOMAIN credits : s[i] = credits[i]
      /\ \A i \in DOMAIN s : s[i] \in Placed
  BY <1>3, <1>4 DEF Sound
<1>9. Sound(s)
  BY <1>6, <1>7, <1>8 DEF Sound
<1>10. QED BY <1>9 DEF s, r, id

\* What the tables of a batch have to be.
Step(batch, f, n) ==
    IF n = 0 THEN credits
                     ELSE Inserted(f[n - 1], Rows(batch[n], NextId(f[n - 1])))

\* There are such tables, up to any length.
LEMMA TablesExist ==
    ASSUME NEW batch, NEW N \in Nat
    PROVE  \E f : f = [n \in 0..N |-> Step(batch, f, n)]
<1> DEFINE Missing == {m \in Nat : ~ \E f : f = [n \in 0..m |-> Step(batch, f, n)]}
<1>1. SUFFICES ASSUME Missing # {}
               PROVE  FALSE
  OBVIOUS
<1>2. PICK m \in Missing : \A x \in Missing : m <= x
  BY <1>1, LeastExists
<1>3. m # 0
  <2> DEFINE f == [n \in 0..0 |-> credits]
  <2>1. f = [n \in 0..0 |-> Step(batch, f, n)]
    <3>1. \A n \in 0..0 : Step(batch, f, n) = credits
      BY DEF Step
    <3> HIDE DEF f
    <3>2. [n \in 0..0 |-> Step(batch, f, n)] = [n \in 0..0 |-> credits]
      BY <3>1
    <3>3. QED BY <3>2 DEF f
  <2>2. QED BY <2>1, <1>2
<1>4. m - 1 \in Nat /\ m - 1 \notin Missing
  BY <1>2, <1>3
<1>5. PICK f : f = [n \in 0..(m - 1) |-> Step(batch, f, n)]
  BY <1>4
<1> DEFINE g == [n \in 0..m |-> IF n = m THEN Step(batch, f, m) ELSE f[n]]
<1>6. \A n \in 0..(m - 1) : g[n] = f[n]
  BY <1>4
<1>7. \A n \in 0..(m - 1) : f[n] = Step(batch, f, n)
  BY <1>5, Zenon
<1>8. g[m] = Step(batch, f, m)
  BY <1>4
<1>9. g = [n \in 0..m |-> g[n]]
  OBVIOUS
<1> HIDE DEF g
<1>10. ASSUME NEW n \in 0..m
       PROVE  g[n] = Step(batch, g, n)
  <2>1. CASE n = 0
    <3>1. g[0] = credits
      BY <1>3, <1>4, <1>6, <1>7 DEF Step
    <3>2. QED BY <3>1, <2>1 DEF Step
  <2>2. CASE n # 0
    <3>1. n - 1 \in 0..(m - 1)
      BY <2>2, <1>4
    <3>2. g[n - 1] = f[n - 1]
      BY <3>1, <1>6
    <3>3. Step(batch, g, n) = Step(batch, f, n)
      BY <2>2, <3>2 DEF Step
    <3>4. g[n] = Step(batch, f, n)
      <4>1. CASE n = m
        BY <4>1, <1>8
      <4>2. CASE n # m
        BY <4>2, <1>4, <1>6, <1>7
      <4>3. QED BY <4>1, <4>2
    <3>5. QED BY <3>3, <3>4
  <2>3. QED BY <2>1, <2>2
<1>11. g = [n \in 0..m |-> Step(batch, g, n)]
  BY <1>9, <1>10
<1>12. QED BY <1>2, <1>11

\* The tables of a batch, one by one.
LEMMA TablesAre ==
    ASSUME NEW batch, Len(batch) \in Nat
    PROVE  \A n \in 0..Len(batch) : Tables(batch)[n] = Step(batch, Tables(batch), n)
<1> DEFINE F == Tables(batch)
<1>1. \E f : f = [n \in 0..Len(batch) |->
                     IF n = 0 THEN credits
                     ELSE Inserted(f[n - 1], Rows(batch[n], NextId(f[n - 1])))]
  BY TablesExist DEF Step
<1>2. F = CHOOSE f : f = [n \in 0..Len(batch) |->
                     IF n = 0 THEN credits
                     ELSE Inserted(f[n - 1], Rows(batch[n], NextId(f[n - 1])))]
  BY DEF Tables
<1>3. F = [n \in 0..Len(batch) |->
                     IF n = 0 THEN credits
                     ELSE Inserted(F[n - 1], Rows(batch[n], NextId(F[n - 1])))]
  <2> HIDE DEF F
  <2>1. QED BY <1>1, <1>2, Zenon
<1> HIDE DEF F
<1>4. \A n \in 0..Len(batch) : F[n] = Step(batch, F, n)
  BY <1>3, Zenon DEF Step
<1>5. QED BY <1>4 DEF F

\* What a batch leaves is made of the placements and of splits that are pairs.
LEMMA LoggedIsSound ==
    ASSUME NEW len \in Nat, NEW batch \in [1..len -> Inputs], Sound(credits)
    PROVE  Sound(Logged(batch))
<1> DEFINE F == Tables(batch)
           Bad == {m \in Nat : m <= len /\ ~ Sound(F[m])}
<1>1. Len(batch) = len
  OBVIOUS
<1>2. \A n \in 0..len : F[n] = Step(batch, F, n)
  BY <1>1, TablesAre
<1> HIDE DEF F
<1>3. SUFFICES ASSUME Bad # {}
               PROVE  FALSE
  BY <1>1 DEF Logged, F
<1>4. PICK m \in Bad : \A x \in Bad : m <= x
  BY <1>3, LeastExists
<1>5. m \in 0..len /\ ~ Sound(F[m])
  BY <1>4
<1>6. m # 0
  BY <1>2, <1>5 DEF Step
<1>7. m - 1 \in Nat /\ m - 1 <= len /\ m - 1 \notin Bad
  BY <1>4, <1>5, <1>6
<1>8. Sound(F[m - 1])
  BY <1>7
<1>9. batch[m] \in Inputs
  BY <1>5, <1>6
<1>10. F[m] = Inserted(F[m - 1], Rows(batch[m], NextId(F[m - 1])))
  BY <1>2, <1>5, <1>6 DEF Step
<1>11. Sound(F[m])
  BY <1>8, <1>9, <1>10, OneMoreIsSound
<1>12. QED BY <1>5, <1>11

-----------------------------------------------------------------------------
(* What a step keeps *)

\* The inductive invariant: with the property, that the rows have their types, and
\* numbers of the bound.
LedgerInv ==
    /\ DOMAIN credits \subseteq Ids /\ \A i \in DOMAIN credits : credits[i] \in Placed
    /\ DriftHasACause /\ Paired(credits)

\* Aggregates of cells a write does not touch are of the same rows, with the same fees.
LEMMA SumsAreOfRows ==
    ASSUME NEW t, NEW s, NEW c, NEW n, In(t, c) = In(s, c),
           \A i \in In(s, c) : t[i].fee = s[i].fee
    PROVE  SumOf(t, c, n) = SumOf(s, c, n)
<1>1. [i \in Ids |-> IF i \in In(t, c) THEN t[i].fee ELSE 0]
      = [i \in Ids |-> IF i \in In(s, c) THEN s[i].fee ELSE 0]
  OBVIOUS
<1>2. QED BY <1>1 DEF SumOf

\* A write that touches the cells of the rows it adds, takes or changes keeps the
\* aggregates what their placements add up to.
LEMMA ReconcileKeeps ==
    ASSUME DriftHasACause, NEW t, NEW touched, Write(t, touched),
           \A c \in Cells \ touched : In(t, c) = In(credits, c)
                                      /\ \A i \in In(credits, c) : t[i].fee = credits[i].fee
    PROVE  DriftHasACause'
<1> DEFINE Backed == {c \in touched : In(t, c) # {}}
           Kept   == {c \in DOMAIN actuals : c \notin touched \/ Noted(c)}
           New    == [c \in Backed \union Kept |->
                         IF c \in Backed THEN SumOf(t, c, Noted(c)) ELSE actuals[c]]
<1>1. credits' = t /\ byHand' = byHand \ touched /\ actuals' = New
  BY DEF Write, Reconcile
<1>2. SUFFICES ASSUME NEW c \in Cells, c \notin byHand \ touched
               PROVE  /\ In(t, c) # {} =>
                            c \in DOMAIN New /\ New[c] = SumOf(t, c, New[c].noted)
                      /\ In(t, c) = {} => (c \in DOMAIN New => New[c].noted)
  <2> HIDE DEF New
  <2>1. QED BY <1>1, <1>2 DEF DriftHasACause, Cells
<1>3. DOMAIN New = Backed \union Kept
  OBVIOUS
<1>4. CASE c \in touched
  <2>1. CASE In(t, c) # {}
    <3>1. c \in Backed
      BY <2>1, <1>4
    <3>2. New[c] = SumOf(t, c, Noted(c))
      BY <3>1
    <3>3. SumOf(t, c, Noted(c)).noted = Noted(c)
      BY DEF SumOf
    <3> HIDE DEF New, Backed, Kept
    <3>4. New[c].noted = Noted(c)
      BY <3>2, <3>3
    <3>5. New[c] = SumOf(t, c, New[c].noted)
      BY <3>2, <3>4
    <3>6. QED BY <2>1, <3>1, <3>5, <1>3
  <2>2. CASE In(t, c) = {}
    <3>1. c \notin Backed
      BY <2>2
    <3>2. ASSUME c \in DOMAIN New
          PROVE  New[c].noted
      <4>1. c \in Kept
        BY <3>1, <3>2, <1>3
      <4>2. c \in DOMAIN actuals /\ actuals[c].noted
        BY <4>1, <1>4 DEF Noted
      <4>3. New[c] = actuals[c]
        BY <3>1, <4>1
      <4> HIDE DEF New, Backed, Kept
      <4>4. QED BY <4>2, <4>3
    <3> HIDE DEF New, Backed, Kept
    <3>3. QED BY <2>2, <3>2
  <2>3. QED BY <2>1, <2>2
<1>5. CASE c \notin touched
  <2>1. c \notin byHand /\ c \notin Backed
    BY <1>2, <1>5
  <2>2. In(t, c) = In(credits, c) /\ \A i \in In(credits, c) : t[i].fee = credits[i].fee
    BY <1>5
  <2>3. c \in DOMAIN New <=> c \in DOMAIN actuals
    BY <1>3, <1>5, <2>1
  <2>4. c \in DOMAIN New => New[c] = actuals[c]
    BY <2>1
  <2> HIDE DEF New, Backed, Kept
  <2>5. CASE In(t, c) # {}
    <3>1. c \in DOMAIN actuals /\ actuals[c] = SumOf(credits, c, actuals[c].noted)
      BY <2>1, <2>2, <2>5 DEF DriftHasACause
    <3>2. New[c] = actuals[c] /\ c \in DOMAIN New
      BY <2>3, <2>4, <3>1
    <3>3. SumOf(t, c, actuals[c].noted) = SumOf(credits, c, actuals[c].noted)
      BY <2>2, SumsAreOfRows
    <3>4. QED BY <2>5, <3>1, <3>2, <3>3
  <2>6. CASE In(t, c) = {}
    <3>1. c \in DOMAIN actuals => actuals[c].noted
      BY <2>1, <2>2, <2>6 DEF DriftHasACause
    <3>2. QED BY <2>3, <2>4, <2>6, <3>1
  <2>7. QED BY <2>5, <2>6
<1>6. QED BY <1>4, <1>5

\* Placements with numbers of the bound are where a batch starts.
LEMMA PlacementsAreSound ==
    ASSUME LedgerInv
    PROVE  Sound(credits)
<1>1. Numbered(credits)
  <2>1. DOMAIN credits \subseteq Nat \ {0} /\ \A i \in DOMAIN credits : i <= MaxCredits
    BY LedgerAssumption DEF LedgerInv, Ids
  <2>2. MaxCredits \in Nat
    BY LedgerAssumption
  <2>3. QED BY <2>1, <2>2 DEF Numbered
<1>2. QED BY <1>1 DEF Sound, LedgerInv

\* Logging a batch of placements.
LEMMA LogKeeps ==
    ASSUME LedgerInv, NEW len \in Nat, NEW batch \in [1..len -> Inputs], LogPlacements(batch)
    PROVE  LedgerInv'
<1> DEFINE t == Logged(batch)
           fresh == DOMAIN t \ DOMAIN credits
           touched == {<<t[i].who, t[i].month>> : i \in fresh}
<1>1. Sound(t)
  BY PlacementsAreSound, LoggedIsSound
<1>2. DOMAIN t \subseteq Ids /\ Write(t, touched)
  BY DEF LogPlacements
<1> HIDE DEF t
<1>3. /\ Paired(t) /\ DOMAIN credits \subseteq DOMAIN t
      /\ \A i \in DOMAIN credits : t[i] = credits[i]
      /\ \A i \in DOMAIN t : t[i] \in Placed
  BY <1>1 DEF Sound
<1>4. ASSUME NEW c \in Cells \ touched
      PROVE  In(t, c) = In(credits, c) /\ \A i \in In(credits, c) : t[i].fee = credits[i].fee
  <2>1. c = <<c[1], c[2]>>
    BY DEF Cells
  <2>2. \A i \in fresh : <<t[i].who, t[i].month>> # c
    OBVIOUS
  <2>3. \A i \in fresh : i \notin In(t, c)
    BY <2>1, <2>2 DEF In
  <2>4. QED BY <2>3, <1>3 DEF In
<1>5. DriftHasACause'
  <2> HIDE DEF touched
  <2>1. QED BY <1>2, <1>4, ReconcileKeeps DEF LedgerInv
<1>6. credits' = t
  BY <1>2 DEF Write
<1>7. Paired(credits')
  BY <1>6, <1>3
<1>8. QED BY <1>2, <1>3, <1>5, <1>6, <1>7 DEF LedgerInv, Ids, Paired, PairAt, Placed

\* Deleting a placement, and with it the other half of a split.
LEMMA DeleteKeeps ==
    ASSUME LedgerInv, NEW id \in DOMAIN credits, DeletePlacement(id)
    PROVE  LedgerInv'
<1> DEFINE t == [i \in DOMAIN credits \ Siblings(id) |-> credits[i]]
           touched == {<<credits[i].who, credits[i].month>> : i \in Siblings(id)}
<1>1. Write(t, touched)
  BY DEF DeletePlacement
<1>2. /\ DOMAIN t = DOMAIN credits \ Siblings(id)
      /\ \A i \in DOMAIN t : t[i] = credits[i]
  OBVIOUS
<1> HIDE DEF t
<1>3. Siblings(id) \subseteq DOMAIN credits
  BY DEF Siblings
<1>4. ASSUME NEW c \in Cells \ touched
      PROVE  In(t, c) = In(credits, c) /\ \A i \in In(credits, c) : t[i].fee = credits[i].fee
  <2>1. c = <<c[1], c[2]>>
    BY DEF Cells
  <2>2. \A i \in Siblings(id) : <<credits[i].who, credits[i].month>> # c
    OBVIOUS
  <2>3. \A i \in Siblings(id) : i \notin In(credits, c)
    BY <2>1, <2>2 DEF In
  <2>4. QED BY <2>3, <1>2 DEF In
<1>5. DriftHasACause'
  <2> HIDE DEF touched
  <2>1. QED BY <1>1, <1>4, ReconcileKeeps DEF LedgerInv
<1>6. credits' = t
  BY <1>1 DEF Write
<1>7. Paired(t)
  <2> SUFFICES ASSUME NEW i \in DOMAIN t, t[i].group # Solo
               PROVE  \E j : PairAt(t, t[i].group, j)
    BY DEF Paired
  <2> DEFINE g == t[i].group
  <2>1. i \in DOMAIN credits /\ t[i] = credits[i] /\ i \notin Siblings(id)
    BY <1>2
  <2>2. PICK j : PairAt(credits, g, j)
    BY <2>1 DEF LedgerInv, Paired
  <2>3. credits[i].group = g /\ g # Solo
    BY <2>1
  <2> HIDE DEF g
  <2>4. /\ g \in DOMAIN credits /\ j \in DOMAIN credits
        /\ credits[g].group = g /\ credits[j].group = g
    BY <2>2 DEF PairAt
  <2>5. credits[id].group # g
    <3>1. SUFFICES ASSUME credits[id].group = g
                   PROVE  FALSE
      OBVIOUS
    <3>2. i \in Siblings(id)
      BY <2>1, <2>3, <3>1 DEF Siblings
    <3>3. QED BY <3>2, <2>1
  <2>6. g \notin Siblings(id) /\ j \notin Siblings(id)
    BY <2>4, <2>5 DEF Siblings
  <2>7. g \in DOMAIN t /\ j \in DOMAIN t /\ t[g] = credits[g] /\ t[j] = credits[j]
    BY <2>4, <2>6, <1>2
  <2>8. \A k \in DOMAIN t : t[k].group = g => k \in DOMAIN credits /\ t[k].group = credits[k].group
    BY <1>2
  <2>9. PairAt(t, g, j)
    BY <2>2, <2>7, <2>8, PairStays
  <2>10. QED BY <2>9 DEF g
<1>8. DOMAIN t \subseteq Ids /\ \A i \in DOMAIN t : t[i] \in Placed
  BY <1>2 DEF LedgerInv
<1>9. Paired(credits')
  BY <1>6, <1>7
<1>10. QED BY <1>5, <1>6, <1>8, <1>9 DEF LedgerInv, Ids, Paired, PairAt, Placed

\* Editing a placement that is no half of a split.
LEMMA EditKeeps ==
    ASSUME LedgerInv, NEW id \in DOMAIN credits, NEW month \in Months, NEW fee \in Fees,
           EditPlacement(id, month, fee)
    PROVE  LedgerInv'
<1> DEFINE t == [credits EXCEPT ![id].month = month, ![id].fee = fee]
           touched == EditTouches(id, month)
<1>1. credits[id].group = Solo /\ Write(t, touched)
  BY DEF EditPlacement
<1>2. /\ DOMAIN t = DOMAIN credits
      /\ \A i \in DOMAIN credits \ {id} : t[i] = credits[i]
  OBVIOUS
<1>3. t[id] = [[credits[id] EXCEPT !.month = month] EXCEPT !.fee = fee]
  OBVIOUS
<1>4. t[id].who = credits[id].who /\ t[id].group = credits[id].group
  <2> HIDE DEF t
  <2>1. QED BY <1>3
<1>5. t[id].month \in {month, credits[id].month}
  <2> HIDE DEF t
  <2>1. QED BY <1>3
<1> HIDE DEF t
<1>6. ASSUME NEW c \in Cells \ touched
      PROVE  In(t, c) = In(credits, c) /\ \A i \in In(credits, c) : t[i].fee = credits[i].fee
  <2>1. c = <<c[1], c[2]>>
    BY DEF Cells
  <2>2. /\ <<credits[id].who, month>> # c /\ <<credits[id].who, credits[id].month>> # c
    BY DEF EditTouches
  <2>3. id \notin In(credits, c) /\ id \notin In(t, c)
    BY <2>1, <2>2, <1>4, <1>5 DEF In
  <2>4. QED BY <2>3, <1>2 DEF In
<1>7. DriftHasACause'
  <2> HIDE DEF touched
  <2>1. QED BY <1>1, <1>6, ReconcileKeeps DEF LedgerInv
<1>8. credits' = t
  BY <1>1 DEF Write
<1>9. Paired(t)
  <2> SUFFICES ASSUME NEW i \in DOMAIN t, t[i].group # Solo
               PROVE  \E j : PairAt(t, t[i].group, j)
    BY DEF Paired
  <2> DEFINE g == t[i].group
  <2>1. i # id
    BY <1>1, <1>4
  <2>2. i \in DOMAIN credits /\ t[i] = credits[i]
    BY <2>1, <1>2
  <2>3. PICK j : PairAt(credits, g, j)
    BY <2>2 DEF LedgerInv, Paired
  <2>4. g # Solo
    OBVIOUS
  <2> HIDE DEF g
  <2>5. /\ g \in DOMAIN credits /\ j \in DOMAIN credits
        /\ credits[g].group = g /\ credits[j].group = g
    BY <2>3 DEF PairAt
  <2>6. g # id /\ j # id
    BY <2>4, <2>5, <1>1
  <2>7. g \in DOMAIN t /\ j \in DOMAIN t /\ t[g] = credits[g] /\ t[j] = credits[j]
    BY <2>5, <2>6, <1>2
  <2>8. \A k \in DOMAIN t : t[k].group = g => k \in DOMAIN credits /\ t[k].group = credits[k].group
    BY <1>2, <1>4
  <2>9. PairAt(t, g, j)
    BY <2>3, <2>7, <2>8, PairStays
  <2>10. QED BY <2>9 DEF g
<1>10. DOMAIN t \subseteq Ids /\ \A i \in DOMAIN t : t[i] \in Placed
  <2>1. credits[id] \in Placed /\ fee \in Nat
    BY LedgerAssumption DEF LedgerInv
  <2>2. t[id] \in Placed
    BY <1>3, <2>1 DEF Placed
  <2>3. QED BY <1>2, <2>2 DEF LedgerInv
<1>11. Paired(credits')
  BY <1>8, <1>9
<1>12. QED BY <1>7, <1>8, <1>10, <1>11 DEF LedgerInv, Ids, Paired, PairAt, Placed

\* An aggregate written by hand, or removed where nothing is placed.
LEMMA HandsKeep ==
    ASSUME LedgerInv, NEW c \in Cells,
           DeleteLegacy(c) \/ \E actual : WriteActual(c, actual)
    PROVE  LedgerInv'
<1>1. credits' = credits
  BY DEF DeleteLegacy, WriteActual
<1>2. DriftHasACause'
  <2>1. ASSUME NEW d \in Cells \ byHand', d # c
        PROVE  /\ d \notin byHand
               /\ d \in DOMAIN actuals' <=> d \in DOMAIN actuals
               /\ d \in DOMAIN actuals => actuals'[d] = actuals[d]
    <3>1. CASE DeleteLegacy(c)
      BY <3>1, <2>1 DEF DeleteLegacy
    <3>2. CASE \E actual : WriteActual(c, actual)
      BY <3>2, <2>1 DEF WriteActual
    <3>3. QED BY <3>1, <3>2
  <2>2. c \notin byHand' => In(credits, c) = {} /\ c \notin DOMAIN actuals'
    <3>1. CASE DeleteLegacy(c)
      BY <3>1 DEF DeleteLegacy
    <3>2. CASE \E actual : WriteActual(c, actual)
      BY <3>2 DEF WriteActual
    <3>3. QED BY <3>1, <3>2
  <2> SUFFICES ASSUME NEW d \in Cells \ byHand'
               PROVE  /\ In(credits, d) # {} =>
                            d \in DOMAIN actuals'
                            /\ actuals'[d] = SumOf(credits, d, actuals'[d].noted)
                      /\ In(credits, d) = {} => (d \in DOMAIN actuals' => actuals'[d].noted)
    BY <1>1 DEF DriftHasACause, Cells
  <2>3. CASE d = c
    BY <2>2, <2>3
  <2>4. CASE d # c
    <3>1. d \notin byHand /\ (d \in DOMAIN actuals' <=> d \in DOMAIN actuals)
      BY <2>1, <2>4
    <3>2. d \in DOMAIN actuals => actuals'[d] = actuals[d]
      BY <2>1, <2>4
    <3>3. /\ In(credits, d) # {} =>
                d \in DOMAIN actuals /\ actuals[d] = SumOf(credits, d, actuals[d].noted)
          /\ In(credits, d) = {} => (d \in DOMAIN actuals => actuals[d].noted)
      BY <3>1 DEF DriftHasACause, LedgerInv
    <3>4. QED BY <3>1, <3>2, <3>3
  <2>5. QED BY <2>3, <2>4
<1>3. QED BY <1>1, <1>2 DEF LedgerInv, Ids, Paired, PairAt, Placed

\* Nothing of it depends on the recruiters of the config.
LEMMA SameLedger ==
    ASSUME LedgerInv, UNCHANGED <<credits, actuals, byHand>>
    PROVE  LedgerInv'
<1>1. DriftHasACause'
  BY DEF LedgerInv, DriftHasACause, Cells
<1>2. QED BY <1>1 DEF LedgerInv, Ids, Paired, PairAt, Placed

\* It holds of a channel before its first placement.
LEMMA LedgerStarts == LedgerInit => LedgerInv
<1> SUFFICES ASSUME LedgerInit
             PROVE  LedgerInv
  OBVIOUS
<1>1. DOMAIN credits = {}
  BY DEF LedgerInit
<1>2. byHand = DOMAIN actuals
  BY DEF LedgerInit
<1>3. DriftHasACause
  <2>1. \A c \in Cells : In(credits, c) = {}
    BY <1>1 DEF In
  <2>2. QED BY <2>1, <1>2 DEF DriftHasACause
<1>4. QED BY <1>1, <1>3 DEF LedgerInv, Paired

\* Every route keeps it.
LEMMA LedgerStays == LedgerInv /\ [LedgerNext]_ledgerVars => LedgerInv'
<1> SUFFICES ASSUME LedgerInv, [LedgerNext]_ledgerVars
             PROVE  LedgerInv'
  OBVIOUS
<1>1. CASE UNCHANGED ledgerVars
  BY <1>1, SameLedger DEF ledgerVars
<1>2. ASSUME NEW recruiters \in SUBSET Recruiters, SetRoster(recruiters)
      PROVE  LedgerInv'
  BY <1>2, SameLedger DEF SetRoster
<1>3. ASSUME NEW n \in 1..MaxBatch, NEW batch \in [1..n -> {p \in Inputs : Known(p)}],
             LogPlacements(batch)
      PROVE  LedgerInv'
  <2>1. n \in Nat /\ batch \in [1..n -> Inputs]
    BY LedgerAssumption
  <2>2. QED BY <1>3, <2>1, LogKeeps
<1>4. ASSUME NEW id \in DOMAIN credits, DeletePlacement(id)
      PROVE  LedgerInv'
  BY <1>4, DeleteKeeps
<1>5. ASSUME NEW id \in DOMAIN credits, NEW month \in Months, NEW fee \in Fees,
             EditPlacement(id, month, fee)
      PROVE  LedgerInv'
  BY <1>5, EditKeeps
<1>6. ASSUME NEW c \in Cells, DeleteLegacy(c) \/ \E actual : WriteActual(c, actual)
      PROVE  LedgerInv'
  BY <1>6, HandsKeep
<1>7. CASE LedgerNext
  BY <1>2, <1>3, <1>4, <1>5, <1>6, <1>7 DEF LedgerNext
<1>8. QED BY <1>1, <1>7

\* The aggregates the dashboard reads agree with the placements, and the splits are
\* pairs, whatever the routes do in whatever order.
THEOREM LedgerIsExplained == LedgerSpec => []LedgerAddsUp
<1>1. LedgerInv => LedgerAddsUp
  BY PairedIsTheProperty DEF LedgerInv, LedgerAddsUp
<1>2. QED BY LedgerStarts, LedgerStays, <1>1, PTL DEF LedgerSpec

-----------------------------------------------------------------------------
(* The types of the scorecard *)

\* Fees that are naturals come to a natural.
LEMMA AddedIsNat ==
    ASSUME NEW f \in [Ids -> Nat]
    PROVE  Added(f) \in Nat
<1> DEFINE S == CHOOSE s : s = [n \in 0..MaxCredits |-> IF n = 0 THEN 0 ELSE s[n - 1] + f[n]]
           G == {n \in Nat : S[n] \in Nat}
<1>0. MaxCredits \in Nat
  BY LedgerAssumption
<1>1. \E s : s = [n \in 0..MaxCredits |-> IF n = 0 THEN 0 ELSE s[n - 1] + f[n]]
  BY <1>0, SumsExist DEF SumStep
<1>2. S = [n \in 0..MaxCredits |-> IF n = 0 THEN 0 ELSE S[n - 1] + f[n]]
  BY <1>1, Zenon
<1>3. Added(f) = S[MaxCredits]
  BY DEF Added
<1> HIDE DEF S
<1>4. \A n \in 0..MaxCredits : S[n] = IF n = 0 THEN 0 ELSE S[n - 1] + f[n]
  BY <1>2, Zenon
<1>5. 0 \in G
  BY <1>0, <1>4
<1>6. ASSUME NEW n \in 1..MaxCredits, n - 1 \in G
      PROVE  n \in G
  <2>1. S[n] = S[n - 1] + f[n] /\ n \in Nat
    BY <1>0, <1>4
  <2>2. S[n - 1] \in Nat /\ f[n] \in Nat
    BY <1>6 DEF Ids
  <2>3. QED BY <2>1, <2>2
<1> HIDE DEF G
<1>7. \A n \in 0..MaxCredits : n \in G
  BY <1>0, <1>5, <1>6, UpTo
<1>8. QED BY <1>0, <1>3, <1>7 DEF G

\* What placements add up to is an aggregate.
LEMMA SumIsTyped ==
    ASSUME NEW t, DOMAIN t \subseteq Ids, \A i \in DOMAIN t : t[i] \in Placed,
           NEW c, NEW noted \in BOOLEAN
    PROVE  SumOf(t, c, noted) \in Actual
<1>1. In(t, c) \subseteq Ids
  BY DEF In
<1>2. IsFiniteSet(Ids)
  BY LedgerAssumption, FS_Interval DEF Ids
<1>3. Cardinality(In(t, c)) \in Nat
  BY <1>1, <1>2, FS_Subset, FS_CardinalityType
<1> DEFINE f == [i \in Ids |-> IF i \in In(t, c) THEN t[i].fee ELSE 0]
<1>4. f \in [Ids -> Nat]
  BY DEF In, Placed
<1>5. SumOf(t, c, noted) = [count |-> Cardinality(In(t, c)), fee |-> Added(f), noted |-> noted]
  BY DEF SumOf
<1> HIDE DEF f
<1>6. Added(f) \in Nat
  BY <1>4, AddedIsNat
<1>7. QED BY <1>3, <1>5, <1>6 DEF Actual

\* The types of all but the placements.
DashboardTyped ==
    /\ roster \subseteq Recruiters
    /\ DOMAIN actuals \subseteq Cells /\ \A c \in DOMAIN actuals : actuals[c] \in Actual
    /\ byHand \subseteq DOMAIN actuals
    /\ hands \in 0..MaxByHand

\* The dashboard is empty.
LEMMA DashboardStarts == LedgerInit => DashboardTyped
<1> SUFFICES ASSUME LedgerInit PROVE DashboardTyped
  OBVIOUS
<1>1. PICK legacy \in SUBSET Cells, noted \in BOOLEAN, fee \in Fees :
         /\ Cardinality(legacy) <= MaxByHand
         /\ actuals = [c \in legacy |-> [count |-> 1, fee |-> fee, noted |-> noted]]
  BY DEF LedgerInit
<1>2. DOMAIN actuals = legacy /\ byHand = legacy /\ hands = Cardinality(legacy) /\ roster = {}
  BY <1>1 DEF LedgerInit
<1>3. \A c \in legacy : actuals[c] \in Actual
  BY <1>1, LedgerAssumption DEF Actual
<1>4. IsFiniteSet(Cells)
  BY LedgerAssumption, FS_Product DEF Cells
<1>5. Cardinality(legacy) \in Nat
  BY <1>4, FS_Subset, FS_CardinalityType
<1>6. hands \in 0..MaxByHand
  BY <1>1, <1>2, <1>5, LedgerAssumption
<1>7. QED BY <1>2, <1>3, <1>6 DEF DashboardTyped

\* A transaction writes aggregates of cells, and takes none a hand has written since.
LEMMA WriteIsTyped ==
    ASSUME DashboardTyped, NEW t, NEW touched \in SUBSET Cells, Write(t, touched),
           DOMAIN t \subseteq Ids, \A i \in DOMAIN t : t[i] \in Placed
    PROVE  DashboardTyped'
<1> DEFINE Backed == {c \in touched : In(t, c) # {}}
           Kept   == {c \in DOMAIN actuals : c \notin touched \/ Noted(c)}
           New    == [c \in Backed \union Kept |->
                         IF c \in Backed THEN SumOf(t, c, Noted(c)) ELSE actuals[c]]
<1>1. byHand' = byHand \ touched /\ actuals' = New /\ roster' = roster /\ hands' = hands
  BY DEF Write, Reconcile
<1>2. DOMAIN New = Backed \union Kept
  OBVIOUS
<1>3. Backed \union Kept \subseteq Cells /\ byHand \ touched \subseteq Kept
  BY DEF DashboardTyped
<1>4. ASSUME NEW c \in Backed \union Kept
      PROVE  New[c] \in Actual
  <2>1. CASE c \in Backed
    <3>1. Noted(c) \in BOOLEAN
      BY DEF Noted
    <3>2. SumOf(t, c, Noted(c)) \in Actual
      <4> DEFINE noted == Noted(c)
      <4>1. noted \in BOOLEAN
        BY <3>1
      <4> HIDE DEF noted
      <4>2. SumOf(t, c, noted) \in Actual
        BY <4>1, SumIsTyped
      <4>3. QED BY <4>2 DEF noted
    <3>3. QED BY <2>1, <3>2
  <2>2. CASE c \notin Backed
    BY <2>2 DEF DashboardTyped
  <2>3. QED BY <2>1, <2>2
<1> HIDE DEF New, Backed, Kept
<1>5. QED BY <1>1, <1>2, <1>3, <1>4 DEF DashboardTyped, Cells, Actual

\* Logging, deleting and editing.
LEMMA PlacementsAreTyped ==
    ASSUME LedgerInv, LedgerInv', DashboardTyped,
           \/ \E n \in 1..MaxBatch : \E batch \in [1..n -> {p \in Inputs : Known(p)}] :
                 LogPlacements(batch)
           \/ \E id \in DOMAIN credits :
                 \/ DeletePlacement(id)
                 \/ \E month \in Months, fee \in Fees : EditPlacement(id, month, fee)
    PROVE  DashboardTyped'
<1>1. SUFFICES \E touched \in SUBSET Cells : Write(credits', touched)
  BY WriteIsTyped DEF LedgerInv, Ids, Placed
<1>2. \A i \in DOMAIN credits : <<credits[i].who, credits[i].month>> \in Cells
  BY DEF LedgerInv, Placed, Cells
<1>3. \A i \in DOMAIN credits' : <<credits'[i].who, credits'[i].month>> \in Cells
  BY DEF LedgerInv, Placed, Cells
<1>4. ASSUME NEW batch, LogPlacements(batch)
      PROVE  \E touched \in SUBSET Cells : Write(credits', touched)
  <2> DEFINE t == Logged(batch)
             fresh == DOMAIN t \ DOMAIN credits
             touched == {<<t[i].who, t[i].month>> : i \in fresh}
  <2>1. Write(t, touched)
    BY <1>4 DEF LogPlacements
  <2> HIDE DEF t
  <2>2. credits' = t
    BY <2>1 DEF Write
  <2>3. touched \subseteq Cells
    BY <1>3, <2>2
  <2> HIDE DEF touched
  <2>4. QED BY <2>1, <2>2, <2>3
<1>5. ASSUME NEW id \in DOMAIN credits, DeletePlacement(id)
      PROVE  \E touched \in SUBSET Cells : Write(credits', touched)
  <2> DEFINE t == [i \in DOMAIN credits \ Siblings(id) |-> credits[i]]
             touched == {<<credits[i].who, credits[i].month>> : i \in Siblings(id)}
  <2>1. Write(t, touched)
    BY <1>5 DEF DeletePlacement
  <2>2. Siblings(id) \subseteq DOMAIN credits
    BY DEF Siblings
  <2>3. touched \subseteq Cells
    BY <1>2, <2>2
  <2> HIDE DEF t, touched
  <2>4. credits' = t
    BY <2>1 DEF Write
  <2>5. QED BY <2>1, <2>3, <2>4
<1>6. ASSUME NEW id \in DOMAIN credits, NEW month \in Months, NEW fee \in Fees,
             EditPlacement(id, month, fee)
      PROVE  \E touched \in SUBSET Cells : Write(credits', touched)
  <2> DEFINE t == [credits EXCEPT ![id].month = month, ![id].fee = fee]
             touched == EditTouches(id, month)
  <2>1. Write(t, touched)
    BY <1>6 DEF EditPlacement
  <2>2. <<credits[id].who, month>> \in Cells
    BY DEF LedgerInv, Placed, Cells
  <2>3. touched \subseteq Cells
    BY <1>2, <2>2 DEF EditTouches
  <2> HIDE DEF t, touched
  <2>4. credits' = t
    BY <2>1 DEF Write
  <2>5. QED BY <2>1, <2>3, <2>4
<1>7. QED BY <1>4, <1>5, <1>6

\* Every route writes what has its type.
LEMMA DashboardStays ==
    LedgerInv /\ LedgerInv' /\ DashboardTyped /\ [LedgerNext]_ledgerVars => DashboardTyped'
<1> SUFFICES ASSUME LedgerInv, LedgerInv', DashboardTyped, [LedgerNext]_ledgerVars
             PROVE  DashboardTyped'
  OBVIOUS
<1>1. CASE UNCHANGED ledgerVars
  BY <1>1 DEF ledgerVars, DashboardTyped, Cells, Actual
<1>2. ASSUME NEW recruiters \in SUBSET Recruiters, SetRoster(recruiters)
      PROVE  DashboardTyped'
  BY <1>2 DEF SetRoster, DashboardTyped, Cells, Actual
<1>3. ASSUME NEW c \in Cells, DeleteLegacy(c)
      PROVE  DashboardTyped'
  <2>1. /\ DOMAIN actuals' = DOMAIN actuals \ {c} /\ byHand' = byHand \ {c}
        /\ \A d \in DOMAIN actuals' : actuals'[d] = actuals[d]
        /\ roster' = roster /\ hands' = hands
    BY <1>3 DEF DeleteLegacy
  <2>2. QED BY <2>1 DEF DashboardTyped, Cells, Actual
<1>4. ASSUME NEW c \in Cells, NEW fee \in Fees, NEW noted \in BOOLEAN,
             WriteActual(c, [count |-> 1, fee |-> fee, noted |-> noted])
      PROVE  DashboardTyped'
  <2> DEFINE actual == [count |-> 1, fee |-> fee, noted |-> noted]
  <2>1. actual \in Actual
    BY LedgerAssumption DEF Actual
  <2> HIDE DEF actual
  <2>2. WriteActual(c, actual)
    BY <1>4 DEF actual
  <2>3. /\ DOMAIN actuals' = DOMAIN actuals \union {c} /\ byHand' = byHand \union {c}
        /\ \A d \in DOMAIN actuals' : actuals'[d] = IF d = c THEN actual ELSE actuals[d]
        /\ roster' = roster
    BY <2>2 DEF WriteActual
  <2>4. hands' \in 0..MaxByHand
    BY <2>2, LedgerAssumption DEF WriteActual, DashboardTyped
  <2>5. \A d \in DOMAIN actuals' : actuals'[d] \in Actual
    BY <2>1, <2>3 DEF DashboardTyped
  <2>6. QED BY <2>3, <2>4, <2>5 DEF DashboardTyped, Cells, Actual
<1>5. CASE LedgerNext
  BY <1>2, <1>3, <1>4, <1>5, PlacementsAreTyped DEF LedgerNext
<1>6. QED BY <1>1, <1>5

\* The types of the scorecard; that the rows of a split have a row's number comes of
\* their being pairs.
THEOREM LedgerTypeCorrect == LedgerSpec => []LedgerTypeOK
<1>1. LedgerInv /\ DashboardTyped => LedgerTypeOK
  <2> SUFFICES ASSUME LedgerInv, DashboardTyped PROVE LedgerTypeOK
    OBVIOUS
  <2>1. ASSUME NEW i \in DOMAIN credits
        PROVE  credits[i] \in Credit
    <3>1. credits[i] \in Placed
      BY DEF LedgerInv
    <3>2. credits[i].group # Solo => credits[i].group \in Ids
      <4>1. SUFFICES ASSUME credits[i].group # Solo
                     PROVE  credits[i].group \in DOMAIN credits
        BY DEF LedgerInv
      <4>2. PICK j : PairAt(credits, credits[i].group, j)
        BY <4>1 DEF LedgerInv, Paired
      <4>3. QED BY <4>2 DEF PairAt
    <3>3. QED BY <3>1, <3>2 DEF Placed, Credit
  <2>2. QED BY <2>1 DEF LedgerTypeOK, LedgerInv, DashboardTyped
<1>2. LedgerSpec => []LedgerInv
  BY LedgerStarts, LedgerStays, PTL DEF LedgerSpec
<1>3. LedgerSpec => []DashboardTyped
  BY <1>2, DashboardStarts, DashboardStays, PTL DEF LedgerSpec
<1>4. QED BY <1>1, <1>2, <1>3, PTL

-----------------------------------------------------------------------------
(* The types of the roster sync *)

\* The users and the directory start in their types.
LEMMA SyncStarts == SyncInit => SyncTypeOK
<1> SUFFICES ASSUME SyncInit PROVE SyncTypeOK
  OBVIOUS
<1>1. Quiet \in [on : BOOLEAN, caller : Emails \union {NoCaller}, roster : [Emails -> Standing]]
  BY DEF Quiet, Nobody, Standing
<1>2. syncs \in [SyncIds -> [on : BOOLEAN, caller : Emails \union {NoCaller},
                             roster : [Emails -> Standing]]]
  BY <1>1 DEF SyncInit
<1>3. auth \in [Emails -> Standing]
  BY DEF SyncInit, Standing
<1>4. serving \in BOOLEAN /\ chat \in [Emails -> {"none", "active", "deactivated"}]
  BY DEF SyncInit
<1>5. edits \in 0..MaxAuthChanges
  BY SyncAssumption DEF SyncInit
<1>6. QED BY <1>2, <1>3, <1>4, <1>5 DEF SyncTypeOK

\* Each step of the sync keeps them.
LEMMA SyncStays == SyncTypeOK /\ [SyncNext]_syncVars => SyncTypeOK'
<1> SUFFICES ASSUME SyncTypeOK, [SyncNext]_syncVars PROVE SyncTypeOK'
  OBVIOUS
<1> DEFINE Sync == [on : BOOLEAN, caller : Emails \union {NoCaller}, roster : [Emails -> Standing]]
<1>0. Quiet \in Sync /\ Nobody \in [Emails -> Standing]
  BY DEF Quiet, Nobody, Standing
<1>1. CASE UNCHANGED syncVars
  BY <1>1 DEF syncVars, SyncTypeOK
<1>2. CASE StartServer
  BY <1>2 DEF StartServer, SyncTypeOK
<1>3. ASSUME NEW e \in Emails, FirstSight(e)
      PROVE  SyncTypeOK'
  BY <1>3 DEF FirstSight, SyncTypeOK
<1>4. ASSUME NEW e \in Emails, NEW standing \in Standing, EditAuth(e, standing)
      PROVE  SyncTypeOK'
  BY <1>4, SyncAssumption DEF EditAuth, SyncTypeOK
<1>5. ASSUME NEW s \in SyncIds, NEW caller \in Emails \union {NoCaller}, AskRoster(s, caller)
      PROVE  SyncTypeOK'
  <2>1. [on |-> TRUE, caller |-> caller, roster |-> auth] \in Sync
    BY DEF SyncTypeOK
  <2>2. syncs' = [syncs EXCEPT ![s] = [on |-> TRUE, caller |-> caller, roster |-> auth]]
        /\ UNCHANGED <<serving, auth, chat, edits>>
    BY <1>5 DEF AskRoster
  <2>3. syncs' \in [SyncIds -> Sync]
    BY <2>1, <2>2 DEF SyncTypeOK
  <2>4. QED BY <2>2, <2>3 DEF SyncTypeOK
<1>6. ASSUME NEW s \in SyncIds, EmptyRoster(s)
      PROVE  SyncTypeOK'
  <2>1. [syncs[s] EXCEPT !.roster = Nobody] \in Sync
    BY <1>0 DEF SyncTypeOK
  <2>2. syncs' = [syncs EXCEPT ![s] = [syncs[s] EXCEPT !.roster = Nobody]]
        /\ edits < MaxAuthChanges /\ edits' = edits + 1 /\ UNCHANGED <<serving, auth, chat>>
    BY <1>6 DEF EmptyRoster
  <2>3. syncs' \in [SyncIds -> Sync]
    BY <2>1, <2>2 DEF SyncTypeOK
  <2>4. edits' \in 0..MaxAuthChanges
    BY <2>2, SyncAssumption DEF SyncTypeOK
  <2>5. QED BY <2>2, <2>3, <2>4 DEF SyncTypeOK
<1>7. ASSUME NEW s \in SyncIds, RosterArrives(s)
      PROVE  SyncTypeOK'
  <2>1. syncs' = [syncs EXCEPT ![s] = Quiet] /\ chat' = Synced(syncs[s])
        /\ UNCHANGED <<serving, auth, edits>>
    BY <1>7 DEF RosterArrives
  <2>2. chat' \in [Emails -> {"none", "active", "deactivated"}]
    BY <2>1 DEF Synced, Reconciled, SyncTypeOK
  <2>3. syncs' \in [SyncIds -> Sync]
    BY <1>0, <2>1 DEF SyncTypeOK
  <2>4. QED BY <2>1, <2>2, <2>3 DEF SyncTypeOK
<1>8. ASSUME NEW s \in SyncIds, RosterRefused(s)
      PROVE  SyncTypeOK'
  <2>1. syncs' = [syncs EXCEPT ![s] = Quiet] /\ edits < MaxAuthChanges /\ edits' = edits + 1
        /\ UNCHANGED <<serving, auth, chat>>
    BY <1>8 DEF RosterRefused
  <2>2. syncs' \in [SyncIds -> Sync]
    BY <1>0, <2>1 DEF SyncTypeOK
  <2>3. edits' \in 0..MaxAuthChanges
    BY <2>1, SyncAssumption DEF SyncTypeOK
  <2>4. QED BY <2>1, <2>2, <2>3 DEF SyncTypeOK
<1>9. QED BY <1>1, <1>2, <1>3, <1>4, <1>5, <1>6, <1>7, <1>8 DEF SyncNext

-----------------------------------------------------------------------------
(* All of them *)

\* A behaviour that follows one of the eight is a behaviour of each.
THEOREM BackgroundIsEight ==
    Spec => /\ ClerkSpec /\ RosterSpec /\ PollerSpec /\ RecordingSpec
            /\ SyncInit /\ [][SyncNext]_syncVars
            /\ AnnouncerSpec /\ LedgerSpec /\ BadgeSpec
<1>1. Init => /\ ClerkInit /\ RosterInit /\ PollerInit /\ RecordingInit /\ SyncInit
              /\ AnnouncerInit /\ LedgerInit /\ BadgeInit
  BY DEF Init
<1>2. [Next]_vars => /\ [ClerkNext]_clerkVars /\ [RosterNext]_rosterVars
                     /\ [PollerNext]_pollerVars /\ [RecordingNext]_recVars
                     /\ [SyncNext]_syncVars /\ [AnnouncerNext]_annVars
                     /\ [LedgerNext]_ledgerVars /\ [BadgeNext]_badgeVars
  <2>1. Next => /\ ClerkNext \/ UNCHANGED clerkVars
                /\ RosterNext \/ UNCHANGED rosterVars
                /\ PollerNext \/ UNCHANGED pollerVars
                /\ RecordingNext \/ UNCHANGED recVars
                /\ SyncNext \/ UNCHANGED syncVars
                /\ AnnouncerNext \/ UNCHANGED annVars
                /\ LedgerNext \/ UNCHANGED ledgerVars
                /\ BadgeNext \/ UNCHANGED badgeVars
    BY DEF Next, Still
  <2>2. UNCHANGED vars =>
            /\ UNCHANGED clerkVars /\ UNCHANGED rosterVars /\ UNCHANGED pollerVars
            /\ UNCHANGED recVars /\ UNCHANGED syncVars /\ UNCHANGED annVars
            /\ UNCHANGED ledgerVars /\ UNCHANGED badgeVars
    BY DEF vars
  <2>3. QED BY <2>1, <2>2
<1>3. QED
  BY <1>1, <1>2, PTL
  DEF Spec, ClerkSpec, RosterSpec, PollerSpec, RecordingSpec, AnnouncerSpec, LedgerSpec,
      BadgeSpec

\* The types of the eight, whatever the bounds.
THEOREM BackgroundIsTyped == Spec => []BackgroundTypeOK
<1>1. /\ RosterInv => RosterTypeOK
      /\ RecInv => RecordingTypeOK
  BY DEF RosterInv, RecInv
<1>2. /\ ClerkTypeOK /\ RosterTypeOK /\ PollerTypeOK /\ RecordingTypeOK /\ SyncTypeOK
      /\ AnnouncerTypeOK /\ LedgerTypeOK /\ BadgeTypeOK
      => BackgroundTypeOK
  BY DEF BackgroundTypeOK
<1>3. RosterSpec => []RosterInv
  BY RosterStarts, RosterStays, PTL DEF RosterSpec
<1>4. SyncInit /\ [][SyncNext]_syncVars => []SyncTypeOK
  BY SyncStarts, SyncStays, PTL
<1>5. QED
  BY <1>1, <1>2, <1>3, <1>4, BackgroundIsEight, ClerkTypeCorrect, PollerTypeCorrect,
     RecordingTypeCorrect, AnnouncerTypeCorrect, LedgerTypeCorrect, BadgeTypeCorrect, PTL

=============================================================================
