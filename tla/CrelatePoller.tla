---------------------------- MODULE CrelatePoller ----------------------------
(***************************************************************************)
(* The Crelate poller for the one scorecard channel (server/               *)
(* crelate-poller.ts): the seed pass of a start, the three-minute passes,  *)
(* which may overlap, the two caches, and the notice of each placement.    *)
(* Crelate answers a request with what it knows when it is asked.          *)
(***************************************************************************)
EXTENDS Naturals, FiniteSets

CONSTANTS
    Placements,
    MaxJobChanges,   \* changes of the open requisitions in Crelate
    MaxPasses,       \* passes at work at once
    MaxPollerStops,
    MaxRefusals      \* requests that Crelate does not answer

ASSUME PollerAssumption ==
    /\ MaxJobChanges \in Nat /\ MaxPasses \in Nat
    /\ MaxPollerStops \in Nat /\ MaxRefusals \in Nat

VARIABLES
    up,         \* the poller is initialized
    remote,     \* placements in Crelate
    jobs,       \* version of the open requisitions in Crelate
    jobsCache,  \* version in crelate_open_reqs_cache
    cache,      \* rows of crelate_placements_cache
    notified,   \* rows with notified_at
    passes,     \* [slot -> pass]
    told,       \* per placement, notices posted to the channel
    seeded,     \* placements that a seed pass was the first to see
    cutOff,     \* placements whose notice a stop of the process prevented
    downs,      \* stops of the process
    refused

crelate    == <<remote, jobs>>
caches     == <<jobsCache, cache, notified>>
losses     == <<cutOff, downs, refused>>
pollerVars == <<up, crelate, caches, passes, told, seeded, losses>>

Slots == 1..MaxPasses
\* got is the version of the jobs answered, found the placements answered, todo
\* those that are brand new and not notified yet.
Idle == [stage |-> "idle", seed |-> FALSE, got |-> 0, found |-> {}, todo |-> {}]

PollerInit ==
    /\ up = FALSE
    /\ remote \in SUBSET Placements
    /\ jobs = 1 /\ jobsCache = 0
    /\ cache = {} /\ notified = {} /\ cutOff = {} /\ seeded = {}
    /\ passes = [s \in Slots |-> Idle]
    /\ told = [p \in Placements |-> 0]
    /\ downs = 0 /\ refused = 0

SignOffer(p) ==
    /\ up /\ p \notin remote
    /\ remote' = remote \union {p}
    /\ UNCHANGED <<up, jobs, caches, passes, told, seeded, losses>>

ChangeJobs ==
    /\ up /\ jobs <= MaxJobChanges
    /\ jobs' = jobs + 1
    /\ UNCHANGED <<up, remote, caches, passes, told, seeded, losses>>

\* pollOnce up to its first await.
Asking(seed) == [Idle EXCEPT !.stage = "jobs", !.seed = seed, !.got = jobs]

\* initializeCrelatePoller: the seed pass starts, and the timer.
StartPoller ==
    /\ ~up /\ MaxPasses > 0
    /\ up' = TRUE
    /\ passes' = [passes EXCEPT ![1] = Asking(TRUE)]
    /\ UNCHANGED <<crelate, caches, told, seeded, losses>>

\* The timer asks for no leave of the pass before.
TickPoller(s) ==
    /\ up /\ passes[s].stage = "idle"
    /\ passes' = [passes EXCEPT ![s] = Asking(FALSE)]
    /\ UNCHANGED <<up, crelate, caches, told, seeded, losses>>

\* Then the placements are asked for.
AskPlacements(s) ==
    passes' = [passes EXCEPT ![s].stage = "placements", ![s].found = remote]

\* The cache of the requisitions is wiped and rewritten.
JobsAnswered(s) ==
    /\ passes[s].stage = "jobs"
    /\ jobsCache' = passes[s].got
    /\ AskPlacements(s)
    /\ UNCHANGED <<up, crelate, cache, notified, told, seeded, losses>>

Refused == refused < MaxRefusals /\ refused' = refused + 1

\* fetchCrelate gives up: the pass goes on with the old cache.
JobsFail(s) ==
    /\ passes[s].stage = "jobs"
    /\ Refused
    /\ AskPlacements(s)
    /\ UNCHANGED <<up, crelate, caches, told, seeded, cutOff, downs>>

\* Mutant of BrandNew: what has not been marked is new.
Unnotified(found) == found \ notified

\* Placements the transaction did not find in the cache.
BrandNew(found)   == found \ cache

\* The pass is over, having marked what it announced last; the seed then marks
\* every row there is.
PassEnds(s, rows, marked) ==
    /\ passes' = [passes EXCEPT ![s] = Idle]
    /\ notified' = IF passes[s].seed THEN rows ELSE notified \union marked

PlacementsAnswered(s) ==
    /\ passes[s].stage = "placements"
    /\ LET new == BrandNew(passes[s].found)
       IN  /\ cache' = cache \union passes[s].found
           /\ seeded' = IF passes[s].seed THEN seeded \union new ELSE seeded
           /\ IF new = {}
              THEN PassEnds(s, cache', {})
              ELSE /\ passes' = [passes EXCEPT ![s].stage = "notify", ![s].found = {},
                                               ![s].todo = new]
                   /\ UNCHANGED notified
    /\ UNCHANGED <<up, crelate, jobsCache, told, losses>>

PlacementsFail(s) ==
    /\ passes[s].stage = "placements"
    /\ Refused
    /\ PassEnds(s, cache, {})
    /\ UNCHANGED <<up, crelate, jobsCache, cache, told, seeded, cutOff, downs>>

\* notifyNewPlacement posts to the channel and awaits the push.
PostNotice(s, p) ==
    /\ passes[s].stage = "notify" /\ p \in passes[s].todo
    /\ told' = [told EXCEPT ![p] = @ + 1]
    /\ passes' = [passes EXCEPT ![s].stage = "pushing", ![s].found = {p}]
    /\ UNCHANGED <<up, crelate, caches, seeded, losses>>

\* Mutant of Remaining: the pass ends with its first notice.
NothingLeft(todo, done) == {}

\* What is left to notify once one placement has been.
Remaining(todo, done)   == todo \ done

\* The push is over, well or badly: the row is marked and the next one follows.
PushOver(s) ==
    /\ passes[s].stage = "pushing"
    /\ LET left == Remaining(passes[s].todo, passes[s].found)
       IN  IF left = {}
           THEN PassEnds(s, cache, passes[s].found)
           ELSE /\ passes' = [passes EXCEPT ![s].stage = "notify", ![s].found = {},
                                            ![s].todo = left]
                /\ notified' = notified \union passes[s].found
    /\ UNCHANGED <<up, crelate, jobsCache, cache, told, seeded, losses>>

\* The process stops: its passes are gone, the caches stay.
StopPoller ==
    /\ up /\ downs < MaxPollerStops
    /\ up' = FALSE /\ downs' = downs + 1
    /\ cutOff' = cutOff \union UNION {passes[s].todo : s \in Slots}
    /\ passes' = [s \in Slots |-> Idle]
    /\ UNCHANGED <<crelate, caches, told, seeded, refused>>

PassAnswered(s) == JobsAnswered(s) \/ PlacementsAnswered(s)
PassFails(s)    == JobsFail(s) \/ PlacementsFail(s)
PassGoesOn(s)   == PushOver(s) \/ \E p \in Placements : PostNotice(s, p)

PollerNext ==
    \/ \E s \in Slots : TickPoller(s) \/ PassAnswered(s) \/ PassGoesOn(s) \/ PassFails(s)
    \/ \E p \in Placements : SignOffer(p)
    \/ ChangeJobs \/ StartPoller \/ StopPoller

PollerSpec == PollerInit /\ [][PollerNext]_pollerVars

-----------------------------------------------------------------------------
(* Properties *)

\* The type of the state: what is marked is cached, what is cached is or was in
\* Crelate, and no pass has more to announce than is cached,
\* or newer requisitions than there are.
PollerTypeOK ==
    /\ up \in BOOLEAN
    /\ remote \subseteq Placements /\ cache \subseteq remote
    /\ notified \subseteq cache /\ cutOff \subseteq cache /\ seeded \subseteq cache
    /\ jobs \in 1..(MaxJobChanges + 1) /\ jobsCache \in 0..jobs
    /\ passes \in [Slots -> [stage : {"idle", "jobs", "placements", "notify", "pushing"},
                             seed : BOOLEAN, got : 0..jobs,
                             found : SUBSET remote, todo : SUBSET cache]]
    /\ told \in [Placements -> Nat] /\ downs \in 0..MaxPollerStops
    /\ refused \in 0..MaxRefusals

\* However passes overlap and the process stops, the channel hears of a placement at
\* most once; and of a cached one that was signed after the seed it has heard, or the
\* pass that cached it will tell it, or died before it could.
EachToldOnce ==
    /\ \A p \in Placements : told[p] <= 1
    /\ \A p \in cache \ seeded :
          told[p] = 1 \/ p \in cutOff \/ \E s \in Slots : p \in passes[s].todo

\* "Seed pass - populate caches without firing 100 push notifications for every existing
\* placement in Crelate": of what a seed pass is the first to see, nothing is told.
SeedIsSilent == \A p \in seeded : told[p] = 0

\* The timer of a poller that is up fires, requests end, and a pass goes on.
PollerFairness ==
    \A s \in Slots :
       /\ WF_pollerVars(TickPoller(s))
       /\ WF_pollerVars(PassAnswered(s) \/ PassFails(s))
       /\ WF_pollerVars(PassGoesOn(s))

\* Every placement that is signed in Crelate and that no seed pass was the first to see
\* is announced, unless the process stops between the caching and the notice.
PlacementsAreTold ==
    \A p \in Placements :
       []<>(up /\ p \in remote => told[p] = 1 \/ p \in cutOff \union seeded)

=============================================================================
