----------------------------- MODULE ScrapeQueue -----------------------------
(***************************************************************************)
(* The scrape-site queue and the workers that serve it, for one source     *)
(* URL.  Every Lua script of jobs/queue/sites touches only the keys of the *)
(* URL it is given (payload, schedule, lease, its member of the sorted     *)
(* set) and the index of shard heads, so the sources do not interact: the  *)
(* URL is fixed and the index is left out.  The Lua scripts are atomic;    *)
(* AddToQueue and RemoveFromQueue are plain pipelines, whose commands      *)
(* interleave with everyone else's and are therefore one action each.      *)
(*                                                                         *)
(* A workspace subscribes to the URL with a fetch mode (table              *)
(* user_scrape_site); a worker claims the URL under a lease, looks the     *)
(* subscriptions up, fetches once per requested mode, hands the HTML to    *)
(* the post-processing pool and commits the schedule.                      *)
(***************************************************************************)
EXTENDS Integers, FiniteSets, FiniteSetsExt

CONSTANTS
    Fetcher,            \* scraper workers, of all instances
    Subscriber,         \* workspaces
    Absent,             \* no subscription, no sorted-set member, no schedule
    ScrapeLease,        \* processingLease
    ScrapeInterval,     \* effective scrape interval
    BrowserRetryDelay,  \* min(browserRetryDelay, interval)
    RetryAfters,        \* delays a provider may ask for
    ScrapeHorizon,      \* bound on the clock
    MaxScrapeEvents     \* bound on the claim sequence and the requests, together

\* What the code guarantees of the constants.
ScrapeConstants ==
    /\ ScrapeLease \in Nat \ {0} /\ ScrapeInterval \in Nat \ {0}
    /\ BrowserRetryDelay \in 1..ScrapeInterval
    /\ RetryAfters \subseteq Nat \ {0}
    /\ ScrapeHorizon \in Nat /\ MaxScrapeEvents \in Nat

VARIABLES
    clock,      \* time.Now and Redis' clock
    site,       \* Redis keys of the URL
    fetcher,    \* what each worker is doing and the job it holds
    subs,       \* user_scrape_site: workspace -> fetch mode, or Absent
    request,    \* where each workspace's request is
    htmlJobs,   \* postProcessQueue and the jobs its workers hold
    result,     \* last_scraped_at of each subscription, Absent when NULL
    asked,      \* requests served so far (bound)
    deadline,   \* history: the latest provider deadline ever committed
    lastCommit  \* history: the claim that last replaced the mode progress

scrapeVars == <<clock, site, fetcher, subs, request, htmlJobs, result, asked,
                deadline, lastCommit>>

FetchMode == {"http", "browser"}

CanHappen == site.seq + asked < MaxScrapeEvents
-----------------------------------------------------------------------------
(* Schedules.  A mode that is not in the map is Absent.                    *)

EmptySchedule == [modes |-> [m \in FetchMode |-> Absent], retry |-> 0, deferred |-> 0]

ModesOf(sched) == {m \in FetchMode : sched.modes[m] # Absent}

\* The earliest mode, but neither before a deferral nor before Retry-After.
nextDue(sched) ==
    LET earliest == IF ModesOf(sched) = {} THEN 0
                    ELSE Min({sched.modes[m] : m \in ModesOf(sched)})
    IN  Max({earliest, sched.deferred, sched.retry})

\* The lease key has a TTL: an expired claim reads as no claim (0).
ActiveClaim == IF site.leaseUntil > clock THEN site.claim ELSE 0

IdleFetcher == [pc |-> "idle", claim |-> 0, sched |-> EmptySchedule,
                subs |-> [w \in Subscriber |-> Absent], lost |-> FALSE,
                owed |-> 0]
-----------------------------------------------------------------------------
(* The scripts.                                                            *)

\* pop.lua, a due member without a payload.
DropDangling ==
    /\ site.score # Absent /\ site.score =< clock /\ ~site.payload
    /\ site' = [site EXCEPT !.score = Absent]
    /\ UNCHANGED <<clock, fetcher, subs, request, htmlJobs, result, asked, deadline, lastCommit>>

\* pop.lua, a due member: take the lease and defer the member to its end.
PopSite ==
    /\ site.score # Absent /\ site.score =< clock /\ site.payload
    /\ site' = [site EXCEPT !.seq = @ + 1, !.claim = site.seq + 1,
                            !.leaseUntil = clock + ScrapeLease,
                            !.score = clock + ScrapeLease]

\* GetNextScrapeSiteContext, a poll that finds a due site: the job carries the
\* claim and the schedule as it is now.  Polls that find nothing only wait.
GetNextScrapeSite(f) ==
    /\ fetcher[f].pc = "idle" /\ CanHappen
    /\ PopSite
    /\ fetcher' = [fetcher EXCEPT ![f] =
           [IdleFetcher EXCEPT !.pc = "claimed", !.claim = site.seq + 1,
                               !.sched = site.sched, !.owed = deadline]]
    /\ UNCHANGED <<clock, subs, request, htmlJobs, result, asked, deadline, lastCommit>>

\* renew.lua accepts the renewal of this claim.
Renewable(f) ==
    ActiveClaim = fetcher[f].claim /\ site.score # Absent /\ site.payload

\* MaintainScrapeSiteLease: a tick of the renewal loop.  An error of the call
\* or a lost lease cancels the work and ends the loop.
RenewLease(f) ==
    /\ fetcher[f].pc \in {"claimed", "http", "browser"} /\ ~fetcher[f].lost
    /\ \/ /\ Renewable(f)
          /\ site' = [site EXCEPT !.leaseUntil = clock + ScrapeLease,
                                  !.score = clock + ScrapeLease]
          /\ UNCHANGED fetcher
       \/ /\ fetcher' = [fetcher EXCEPT ![f].lost = TRUE]
          /\ UNCHANGED site
    /\ UNCHANGED <<clock, subs, request, htmlJobs, result, asked, deadline, lastCommit>>

\* Fault: a completion that does not compare the claim.
CompleteSiteUnfenced(old, claim, sched) ==
    LET retry == Max({old.sched.retry, sched.retry})
    IN  IF ~old.payload \/ old.score = Absent THEN old
        ELSE [old EXCEPT !.sched = [sched EXCEPT !.retry = retry], !.leaseUntil = 0,
                         !.score = Max({nextDue(sched), clock, retry})]

\* complete.lua.  The owner of the claim saves its progress and releases the
\* lease; a stale claim only raises the provider deadline, and moves the member
\* behind it when nobody holds the URL.
CompleteSite(old, claim, sched) ==
    LET active == IF old.leaseUntil > clock THEN old.claim ELSE 0
        retry == Max({old.sched.retry, sched.retry})
    IN  CASE ~old.payload -> old
          [] old.payload /\ (old.score = Absent \/ active # claim) ->
               [old EXCEPT !.sched.retry = retry,
                           !.score = IF @ # Absent /\ active = 0 /\ retry > @
                                     THEN retry ELSE @]
          [] OTHER ->
               [old EXCEPT !.sched = [sched EXCEPT !.retry = retry], !.leaseUntil = 0,
                           !.score = Max({nextDue(sched), clock, retry})]

\* force.lua.  An active claim already stands for the request; otherwise the
\* mode progress is reset and the provider deadline kept.
ForceSite(old, withPayload) ==
    IF (old.leaseUntil > clock) \/ (~withPayload /\ old.score = Absent) THEN old
    ELSE [old EXCEPT !.payload = @ \/ withPayload,
                     !.sched = [EmptySchedule EXCEPT !.retry = old.sched.retry],
                     !.leaseUntil = 0,
                     !.score = Max({clock, old.sched.retry})]
-----------------------------------------------------------------------------
(* The worker: scrapeSite and processScrapeSiteJob.                        *)

Proceed(f, job) ==
    /\ fetcher' = [fetcher EXCEPT ![f] = job]
    /\ UNCHANGED <<clock, site, subs, request, asked, deadline, lastCommit>>

\* The provider deadline stands, or the subscriptions cannot be read: straight
\* to the completion, deferred in the second case.
SkipScrape(f) ==
    LET job == fetcher[f] IN
    /\ job.pc = "claimed"
    /\ \/ /\ job.sched.retry > clock
          /\ Proceed(f, [job EXCEPT !.pc = "commit"])
       \/ /\ job.sched.retry =< clock
          /\ Proceed(f, [job EXCEPT !.pc = "commit",
                                    !.sched.deferred = clock + BrowserRetryDelay])
    /\ UNCHANGED <<htmlJobs, result>>

\* Nobody subscribes any more: the worker takes the URL out of the queue,
\* whatever happened since it looked.  (A blocked website ends the same way;
\* the website block list is not part of this module.)
LookupUnused(f) ==
    LET job == fetcher[f] IN
    /\ job.pc = "claimed" /\ job.sched.retry =< clock
    /\ \A w \in Subscriber : subs[w] = Absent
    /\ Proceed(f, [job EXCEPT !.pc = "remove1"])
    /\ UNCHANGED <<htmlJobs, result>>

\* Progress of modes nobody requests is dropped, a deferral is over.
LookupSubscriptions(f) ==
    LET job == fetcher[f]
        wanted == {subs[w] : w \in Subscriber} \ {Absent}
    IN  /\ job.pc = "claimed" /\ job.sched.retry =< clock /\ wanted # {}
        /\ Proceed(f, [job EXCEPT !.pc = "http", !.subs = subs, !.sched.deferred = 0,
                          !.sched.modes = [m \in FetchMode |->
                              IF m \in wanted THEN job.sched.modes[m] ELSE Absent]])
        /\ UNCHANGED <<htmlJobs, result>>

\* ScraperRequestContext ends in HTML, in an error that may carry a provider
\* deadline (parseScrapeRetryAfter; 0 without one), or, for the browser only, in
\* a deferral; robots.txt counts as an error without a deadline.
RetryDeadline(job, delay) ==
    IF delay = 0 THEN job.sched.retry ELSE Max({job.sched.retry, clock + delay})

\* The loop over the modes, HTTP first; afterwards requested modes that did not
\* run stay pending (a zero schedule).
AfterMode(m) == IF m = "http" THEN "browser" ELSE "commit"

Group(job, m) == {w \in Subscriber : job.subs[w] = m}

Finish(job, next) ==
    IF next # "commit" THEN [job EXCEPT !.pc = next]
    ELSE [job EXCEPT !.pc = "commit",
                     !.sched.modes = [m \in FetchMode |->
                         IF Group(job, m) # {} /\ job.sched.modes[m] = Absent
                         THEN 0 ELSE job.sched.modes[m]]]

Due(job, m) == /\ Group(job, m) # {}
               /\ job.sched.modes[m] # Absent => job.sched.modes[m] =< clock

\* Not due yet, or nobody asked for this mode.
SkipMode(f) ==
    LET job == fetcher[f] IN
    /\ job.pc \in FetchMode /\ ~Due(job, job.pc)
    /\ Proceed(f, Finish(job, AfterMode(job.pc)))
    /\ UNCHANGED <<htmlJobs, result>>

\* RecordScrapeResult: only subscriptions still in this mode, and only when the
\* stored attempt is not newer.
RecordScrapeResult(ws, m, at) ==
    result' = [w \in Subscriber |->
                  IF w \in ws /\ subs[w] = m /\ (result[w] = Absent \/ result[w] =< at)
                  THEN at ELSE result[w]]

\* The fetch succeeded: the HTML is handed to the post-processing pool, unless
\* the work was cancelled while the pool was full.
FetchSucceeds(f) ==
    LET job == fetcher[f]
        m == job.pc
    IN  /\ m \in FetchMode /\ Due(job, m)
        /\ \/ /\ htmlJobs' = htmlJobs \cup {[ws |-> Group(job, m), mode |-> m, at |-> clock]}
              /\ Proceed(f, Finish([job EXCEPT !.sched.modes[m] = clock + ScrapeInterval],
                                   AfterMode(m)))
           \/ /\ job.lost
              /\ Proceed(f, Finish(job, "commit"))
              /\ UNCHANGED htmlJobs
        /\ UNCHANGED result

\* The fetch failed or robots.txt forbids it.  A Retry-After ends the loop:
\* both modes fetch the same URL.
FetchFails(f) ==
    LET job == fetcher[f]
        m == job.pc
    IN  /\ m \in FetchMode /\ Due(job, m)
        /\ \E delay \in RetryAfters \cup {0} :
             LET retry == RetryDeadline(job, delay)
                 failed == [job EXCEPT !.sched.retry = retry,
                                       !.sched.modes[m] = clock + ScrapeInterval]
             IN  \/ /\ RecordScrapeResult(Group(job, m), m, clock)
                    /\ Proceed(f, Finish(failed, IF retry > clock THEN "commit"
                                                 ELSE AfterMode(m)))
                 \/ /\ job.lost   \* cancelled: keep the deadline, not the progress
                    /\ Proceed(f, Finish([job EXCEPT !.sched.retry = retry], "commit"))
                    /\ UNCHANGED result
        /\ UNCHANGED htmlJobs

\* No browser slot: the mode is deferred for a short while and nothing recorded.
FetchDeferred(f) ==
    LET job == fetcher[f] IN
    /\ job.pc = "browser" /\ Due(job, "browser")
    /\ Proceed(f, Finish([job EXCEPT !.sched.modes["browser"] = clock + BrowserRetryDelay],
                         "commit"))
    /\ UNCHANGED <<htmlJobs, result>>

\* processScrapeSiteJob, renewal stopped: CompleteScrapeSite.
Complete(f) ==
    LET job == fetcher[f]
        owner == site.payload /\ site.score # Absent /\ ActiveClaim = job.claim
    IN  /\ job.pc = "commit"
        /\ site' = CompleteSite(site, job.claim, job.sched)
        /\ deadline' = IF site.payload THEN Max({deadline, job.sched.retry}) ELSE deadline
        /\ lastCommit' = IF site'.sched.modes # site.sched.modes \/ owner
                         THEN job.claim ELSE lastCommit
        /\ fetcher' = [fetcher EXCEPT ![f] = IdleFetcher]
        /\ UNCHANGED <<clock, subs, request, htmlJobs, result, asked>>

\* The instance stops between any two steps; the lease runs out by itself.
FetcherCrash(f) ==
    /\ fetcher[f].pc # "idle"
    /\ fetcher' = [fetcher EXCEPT ![f] = IdleFetcher]
    /\ UNCHANGED <<clock, site, subs, request, htmlJobs, result, asked, deadline, lastCommit>>

\* processScrapedHTMLJob: filter by the subscriptions as they are now, then
\* record the attempt for the rest.  A failed lookup records for all.
ProcessScrapedHTML(job) ==
    /\ htmlJobs' = htmlJobs \ {job}
    /\ RecordScrapeResult(job.ws, job.mode, job.at)
    /\ UNCHANGED <<clock, site, fetcher, subs, request, asked, deadline, lastCommit>>
-----------------------------------------------------------------------------
(* Pipelines.  RemoveFromQueue: DEL payload, DEL schedule, DEL lease, ZREM; *)
(* AddToQueue: SET payload, ZADD NX.                                        *)

RemoveCommand(pc) ==
    CASE pc = "remove1" -> [site EXCEPT !.payload = FALSE]
      [] pc = "remove2" -> [site EXCEPT !.sched = EmptySchedule]
      [] pc = "remove3" -> [site EXCEPT !.leaseUntil = 0]
      [] pc = "remove4" -> [site EXCEPT !.score = Absent]

Removing == {"remove1", "remove2", "remove3", "remove4"}

AfterRemove(pc) == CASE pc = "remove1" -> "remove2" [] pc = "remove2" -> "remove3"
                     [] pc = "remove3" -> "remove4" [] pc = "remove4" -> "idle"

AddCommand(pc) ==
    IF pc = "add1" THEN [site EXCEPT !.payload = TRUE]
    ELSE [site EXCEPT !.score = IF @ = Absent THEN clock ELSE @]

\* The removal that ends a source also ends what its provider asked for.
ForgetDeadline(pc) ==
    IF pc = "remove2" THEN deadline' = 0 ELSE UNCHANGED deadline

FetcherRemoves(f) ==
    /\ fetcher[f].pc \in Removing
    /\ site' = RemoveCommand(fetcher[f].pc)
    /\ ForgetDeadline(fetcher[f].pc)
    /\ fetcher' = [fetcher EXCEPT ![f] =
           IF fetcher[f].pc = "remove4" THEN IdleFetcher
           ELSE [fetcher[f] EXCEPT !.pc = AfterRemove(fetcher[f].pc)]]
    /\ UNCHANGED <<clock, subs, request, htmlJobs, result, asked, lastCommit>>
-----------------------------------------------------------------------------
(* Requests of the workspaces.                                             *)

Begin(w, pc) ==
    /\ request[w] = "idle" /\ CanHappen
    /\ asked' = asked + 1
    /\ request' = [request EXCEPT ![w] = pc]

\* SaveScrapingSourcesWithSettings, one transaction; an existing association is
\* left alone and nothing is enqueued for it.
SaveScrapingSources(w, m) ==
    /\ subs[w] = Absent
    /\ subs' = [subs EXCEPT ![w] = m]
    /\ result' = [result EXCEPT ![w] = Absent]

SaveSource(w, m) ==
    /\ Begin(w, "add1")
    /\ SaveScrapingSources(w, m)
    /\ UNCHANGED <<clock, site, fetcher, htmlJobs, deadline, lastCommit>>

EnqueueSource(w) ==
    /\ request[w] \in {"add1", "add2"}
    /\ site' = AddCommand(request[w])
    /\ request' = [request EXCEPT ![w] = IF @ = "add1" THEN "add2" ELSE "idle"]
    /\ UNCHANGED <<clock, fetcher, subs, htmlJobs, result, asked, deadline, lastCommit>>

\* DeleteScrapeSiteRelation: the row goes first, the orphans are read later.
DeleteRelation(w) ==
    /\ subs' = [subs EXCEPT ![w] = Absent]
    /\ result' = [result EXCEPT ![w] = Absent]

DeleteSource(w) ==
    /\ subs[w] # Absent
    /\ Begin(w, "orphans")
    /\ DeleteRelation(w)
    /\ UNCHANGED <<clock, site, fetcher, htmlJobs, deadline, lastCommit>>

\* enqueueScrapeSitesOrRollback: the pipeline failed at one of its commands.
EnqueueFails(w) ==
    /\ request[w] \in {"add1", "add2"}
    /\ request' = [request EXCEPT ![w] = "orphans"]
    /\ DeleteRelation(w)
    /\ UNCHANGED <<clock, site, fetcher, htmlJobs, asked, deadline, lastCommit>>

\* collectOrphanScrapeSiteIDs: remove the URL only if nobody subscribes.
CollectOrphans(w) ==
    /\ request[w] = "orphans"
    /\ request' = [request EXCEPT ![w] =
           IF \A v \in Subscriber : subs[v] = Absent THEN "remove1" ELSE "idle"]
    /\ UNCHANGED <<clock, site, fetcher, subs, htmlJobs, result, asked, deadline, lastCommit>>

RequestRemoves(w) ==
    /\ request[w] \in Removing
    /\ site' = RemoveCommand(request[w])
    /\ ForgetDeadline(request[w])
    /\ request' = [request EXCEPT ![w] = AfterRemove(@)]
    /\ UNCHANGED <<clock, fetcher, subs, htmlJobs, result, asked, lastCommit>>

\* requeueScrapeSource reads the detail of the workspace's source, then forces.
RequeueSource(w) ==
    /\ subs[w] # Absent
    /\ Begin(w, "force")
    /\ UNCHANGED <<clock, site, fetcher, subs, htmlJobs, result, deadline, lastCommit>>

ForceRequested(w) ==
    /\ request[w] = "force"
    /\ site' = ForceSite(site, TRUE)
    /\ request' = [request EXCEPT ![w] = "idle"]
    /\ UNCHANGED <<clock, fetcher, subs, htmlJobs, result, asked, deadline, lastCommit>>

\* UpdateScrapeSourceSettings with another fetch mode: the status
\* starts over.
UpdateScrapeSourceSettings(w, m) ==
    /\ subs[w] \notin {Absent, m}
    /\ subs' = [subs EXCEPT ![w] = m]
    /\ result' = [result EXCEPT ![w] = Absent]

UpdateFetchMode(w, m) ==
    /\ Begin(w, "idle")
    /\ UpdateScrapeSourceSettings(w, m)
    /\ UNCHANGED <<clock, site, fetcher, htmlJobs, deadline, lastCommit>>

\* RequeueAll (an administrator): every member listed is forced; the payload is
\* not rewritten.  One URL has offset 0.
RequeueAll ==
    /\ CanHappen
    /\ asked' = asked + 1
    /\ site' = ForceSite(site, FALSE)
    /\ UNCHANGED <<clock, fetcher, subs, request, htmlJobs, result, deadline, lastCommit>>

ScrapeTick ==
    /\ clock < ScrapeHorizon
    /\ clock' = clock + 1
    /\ UNCHANGED <<site, fetcher, subs, request, htmlJobs, result, asked, deadline, lastCommit>>
-----------------------------------------------------------------------------
ScrapeInit ==
    /\ clock = 1
    /\ site = [payload |-> FALSE, score |-> Absent, seq |-> 0, claim |-> 0,
               leaseUntil |-> 0, sched |-> EmptySchedule]
    /\ fetcher = [f \in Fetcher |-> IdleFetcher]
    /\ subs = [w \in Subscriber |-> Absent]
    /\ request = [w \in Subscriber |-> "idle"]
    /\ htmlJobs = {} /\ result = [w \in Subscriber |-> Absent]
    /\ asked = 0 /\ deadline = 0 /\ lastCommit = 0

ScrapeNext ==
    \/ ScrapeTick \/ DropDangling \/ RequeueAll
    \/ \E f \in Fetcher :
          \/ GetNextScrapeSite(f) \/ RenewLease(f) \/ SkipScrape(f) \/ LookupUnused(f)
          \/ LookupSubscriptions(f) \/ SkipMode(f) \/ FetchSucceeds(f)
          \/ FetchFails(f) \/ FetchDeferred(f) \/ Complete(f) \/ FetcherCrash(f)
          \/ FetcherRemoves(f)
    \/ \E job \in htmlJobs : ProcessScrapedHTML(job)
    \/ \E w \in Subscriber :
          \/ \E m \in FetchMode : SaveSource(w, m) \/ UpdateFetchMode(w, m)
          \/ EnqueueSource(w) \/ EnqueueFails(w) \/ DeleteSource(w)
          \/ CollectOrphans(w) \/ RequestRemoves(w) \/ RequeueSource(w)
          \/ ForceRequested(w)

ScrapeSpec == ScrapeInit /\ [][ScrapeNext]_scrapeVars
-----------------------------------------------------------------------------
ScrapeTime == 0..(ScrapeHorizon + ScrapeLease + ScrapeInterval + Max(RetryAfters \cup {0}))

Schedules == [modes : [FetchMode -> ScrapeTime \cup {Absent}],
              retry : ScrapeTime, deferred : ScrapeTime]

ScrapeTypeOK ==
    /\ clock \in 1..ScrapeHorizon
    /\ site \in [payload : BOOLEAN, score : ScrapeTime \cup {Absent}, seq : 0..MaxScrapeEvents,
                 claim : 0..MaxScrapeEvents, leaseUntil : ScrapeTime, sched : Schedules]
    /\ fetcher \in [Fetcher -> [pc : {"idle", "claimed", "commit"} \cup FetchMode \cup Removing,
                                claim : 0..MaxScrapeEvents, sched : Schedules,
                                subs : [Subscriber -> FetchMode \cup {Absent}],
                                lost : BOOLEAN, owed : ScrapeTime]]
    /\ subs \in [Subscriber -> FetchMode \cup {Absent}]
    /\ request \in [Subscriber -> {"idle", "add1", "add2", "orphans", "force"} \cup Removing]
    /\ htmlJobs \subseteq [ws : SUBSET Subscriber, mode : FetchMode, at : ScrapeTime]
    /\ result \in [Subscriber -> ScrapeTime \cup {Absent}]
    /\ asked \in 0..MaxScrapeEvents
    /\ deadline \in ScrapeTime /\ lastCommit \in 0..MaxScrapeEvents

(***************************************************************************)
(* A provider that answered with Retry-After is not contacted again before *)
(* that deadline by any claim taken after the answer was committed: neither*)
(* a stale completion, nor a forced requeue, nor a newer claim's commit    *)
(* that started from an older schedule shortens it (complete.lua,          *)
(* force.lua).  Only removing the source forgets it.                       *)
(***************************************************************************)
DeadlineHonoured ==
    \A f \in Fetcher : fetcher[f].pc \in FetchMode => fetcher[f].owed =< clock

(***************************************************************************)
(* Mode progress in Redis is only ever replaced by a claim at least as new *)
(* as the one that wrote it: a worker whose lease expired and whose URL    *)
(* was claimed again cannot overwrite its successor's schedule, whatever   *)
(* removals, forced requeues and crashes happen in between.                *)
(***************************************************************************)
CommitsInClaimOrder == lastCommit' >= lastCommit

(***************************************************************************)
(* Together: a provider's Retry-After holds for every later claim, and the *)
(* progress of a URL is replaced in the order of the claims.               *)
(***************************************************************************)
RetriesAndProgress == []DeadlineHonoured /\ [][CommitsInClaimOrder]_scrapeVars
=============================================================================
