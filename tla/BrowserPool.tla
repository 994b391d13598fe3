----------------------------- MODULE BrowserPool -----------------------------
(***************************************************************************)
(* The Chromium process the scraper workers of one instance share          *)
(* (browserManager): a page needs a slot and the current browser, the      *)
(* first page that finds none launches one in the background, a broken     *)
(* browser is invalidated by whoever notices, and shutdown closes what is  *)
(* left.  m.mu protects single steps, never a whole fetch: a page may hold *)
(* a browser of an older generation than the current one.                  *)
(***************************************************************************)
EXTENDS Integers, FiniteSets

CONSTANTS
    Page,          \* scraper workers that fetch in browser mode
    PageSlots,     \* SCRAPER_PAGE_POOL_MAX_CAPACITY
    MaxBrowsers,   \* bound on launches
    MaxFetches     \* bound on fetches

\* What the code guarantees of the constants.
BrowserConstants ==
    PageSlots \in Nat \ {0} /\ MaxBrowsers \in Nat /\ MaxFetches \in Nat

VARIABLES
    manager,   \* current generation (0: nil), starting, retryAfter in the future, generations launched
    page,      \* what each worker does and the generation it holds
    live,      \* Chromium processes that have not been stopped
    fetches,   \* bound
    shutdown   \* "no", then the steps of ThreadDispatcher's deferred close

browserVars == <<manager, page, live, fetches, shutdown>>

NoPage == [pc |-> "idle", gen |-> 0]

SlotsUsed == Cardinality({p \in Page : page[p].pc # "idle"})

SetPage(p, pc, gen) == page' = [page EXCEPT ![p] = [pc |-> pc, gen |-> gen]]
-----------------------------------------------------------------------------
\* acquire: a slot without waiting.  (No slot: errBrowserBusy, nothing changes.)
AcquireSlot(p) ==
    /\ shutdown = "no" /\ fetches < MaxFetches
    /\ page[p].pc = "idle" /\ SlotsUsed < PageSlots
    /\ fetches' = fetches + 1
    /\ SetPage(p, "get", 0)
    /\ UNCHANGED <<manager, live, shutdown>>

\* get: the current browser; during the back-off after a failed launch an error
\* (the slot is released); otherwise start a launch or join the one under way.
GetBrowser(p) ==
    /\ page[p].pc = "get"
    /\ \/ /\ manager.current # 0
          /\ SetPage(p, "use", manager.current)
          /\ UNCHANGED manager
       \/ /\ manager.current = 0 /\ manager.backoff
          /\ SetPage(p, "idle", 0)
          /\ UNCHANGED manager
       \/ /\ manager.current = 0 /\ ~manager.backoff
          /\ manager' = [manager EXCEPT !.starting = TRUE]
          /\ SetPage(p, "wait", 0)
    /\ UNCHANGED <<live, fetches, shutdown>>

\* The fetch's context ends while it waits for the launch.
GiveUpWaiting(p) ==
    /\ page[p].pc = "wait"
    /\ SetPage(p, "idle", 0)
    /\ UNCHANGED <<manager, live, fetches, shutdown>>

\* close(ready): every waiter looks again.
WakeWaiters == page' = [p \in Page |-> IF page[p].pc = "wait"
                                       THEN [page[p] EXCEPT !.pc = "get"] ELSE page[p]]

\* start after launchScraperBrowser succeeded.
LaunchSucceeds ==
    /\ manager.starting /\ manager.launched < MaxBrowsers
    /\ manager' = [manager EXCEPT !.starting = FALSE, !.backoff = FALSE,
                                  !.launched = @ + 1, !.current = manager.launched + 1]
    /\ live' = live \cup {manager.launched + 1}
    /\ WakeWaiters
    /\ UNCHANGED <<fetches, shutdown>>

\* start after it failed: the process, if any, was killed by the launcher.
LaunchFails ==
    /\ manager.starting
    /\ manager' = [manager EXCEPT !.starting = FALSE, !.backoff = TRUE]
    /\ WakeWaiters
    /\ UNCHANGED <<live, fetches, shutdown>>

\* retryAfter passes.
BackoffEnds ==
    /\ manager.backoff
    /\ manager' = [manager EXCEPT !.backoff = FALSE]
    /\ UNCHANGED <<page, live, fetches, shutdown>>

\* fetchBrowser ends without a DevTools error: only the slot is released.
PageDone(p) ==
    /\ page[p].pc = "use"
    /\ SetPage(p, "idle", 0)
    /\ UNCHANGED <<manager, live, fetches, shutdown>>

\* Fault: whatever browser is current is dropped.
ForgetBrowserAny(gen) == manager' = [manager EXCEPT !.current = 0]

\* invalidate, under m.mu: only the generation that failed is forgotten.
ForgetBrowser(gen) ==
    manager' = [manager EXCEPT !.current = IF @ = gen THEN 0 ELSE @]

\* fetchBrowser cannot create or dispose its context, or loses the connection.
PageBreaks(p) ==
    /\ page[p].pc = "use"
    /\ ForgetBrowser(page[p].gen)
    /\ SetPage(p, "stop", page[p].gen)
    /\ UNCHANGED <<live, fetches, shutdown>>

\* invalidate, after m.mu was released: b.close(), once per browser; then the
\* slot is released.
StopBroken(p) ==
    /\ page[p].pc = "stop"
    /\ live' = live \ {page[p].gen}
    /\ SetPage(p, "idle", 0)
    /\ UNCHANGED <<manager, fetches, shutdown>>

\* ThreadDispatcher has joined its workers and calls close.
BeginShutdown ==
    /\ shutdown = "no" /\ \A p \in Page : page[p].pc = "idle"
    /\ shutdown' = "close"
    /\ UNCHANGED <<manager, page, live, fetches>>

\* close: wait for a launch under way, then stop the current browser.
CloseManager ==
    /\ shutdown = "close" /\ ~manager.starting
    /\ manager' = [manager EXCEPT !.current = 0]
    /\ live' = live \ {manager.current}
    /\ shutdown' = "done"
    /\ UNCHANGED <<page, fetches>>
-----------------------------------------------------------------------------
BrowserInit ==
    /\ manager = [current |-> 0, starting |-> FALSE, backoff |-> FALSE, launched |-> 0]
    /\ page = [p \in Page |-> NoPage]
    /\ live = {} /\ fetches = 0 /\ shutdown = "no"

BrowserNext ==
    \/ LaunchSucceeds \/ LaunchFails \/ BackoffEnds \/ BeginShutdown \/ CloseManager
    \/ \E p \in Page : \/ AcquireSlot(p) \/ GetBrowser(p) \/ GiveUpWaiting(p)
                       \/ PageDone(p) \/ PageBreaks(p) \/ StopBroken(p)

BrowserSpec == BrowserInit /\ [][BrowserNext]_browserVars
-----------------------------------------------------------------------------
BrowserTypeOK ==
    /\ manager \in [current : 0..MaxBrowsers, starting : BOOLEAN, backoff : BOOLEAN,
                    launched : 0..MaxBrowsers]
    /\ page \in [Page -> [pc : {"idle", "get", "wait", "use", "stop"}, gen : 0..MaxBrowsers]]
    /\ live \subseteq 1..MaxBrowsers
    /\ fetches \in 0..MaxFetches /\ shutdown \in {"no", "close", "done"}

(***************************************************************************)
(* No Chromium process is leaked: a running browser is the manager's       *)
(* current one, or some page that noticed its failure is about to stop it. *)
(* In particular an error from an old generation never drops a browser     *)
(* that has recovered since (invalidate), and after shutdown none is left. *)
(***************************************************************************)
NoLeakedBrowser ==
    \A b \in live : \/ b = manager.current
                    \/ \E p \in Page : page[p] = [pc |-> "stop", gen |-> b]
=============================================================================
