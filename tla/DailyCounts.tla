----------------------------- MODULE DailyCounts -----------------------------
(***************************************************************************)
(* The counters behind the dashboard's number of checks                    *)
(* (internal/database/database_proxy_daily_checks.go).                     *)
(*                                                                         *)
(* Every result is a row and, in the same transaction, one more in the     *)
(* counter of its day.  A backfill raises the counters of a route to what  *)
(* the rows say, once; compaction folds old days into a lifetime total;    *)
(* retention deletes rows.  The dashboard adds the total, the past days'   *)
(* counters and the rows of today.  Routes do not share any of this, so    *)
(* the module is about one.  A transaction that writes a counter blocks    *)
(* the others that write it: reading and writing are separate steps only   *)
(* where a statement reads rows under its snapshot first.                  *)
(***************************************************************************)
EXTENDS Naturals, FiniteSetsExt

CONSTANTS LastDay,         \* days that pass
          KeepCounters,    \* PROXY_DAILY_CHECK_RETENTION_DAYS
          KeepRows,        \* PROXY_STATISTICS_RETENTION_DAYS
          MaxDayChecks,    \* results of one day
          Legacy           \* rows older than the counters

\* What the code guarantees of the retentions, and what the bounds are.
CountsConstants ==
  /\ KeepCounters \in Nat \ {0} /\ KeepRows \in Nat \ {0}
  /\ LastDay \in Nat \ {0} /\ MaxDayChecks \in Nat /\ Legacy \in 0..MaxDayChecks

VARIABLES today,
          checked,     \* history: results of each day
          inherited,   \* history: rows older than the counters
          rows,        \* per day: rows of proxy_statistics
          counter,     \* per day: proxy_daily_checks
          total,       \* proxy_check_totals.checks_count
          foldedTo,    \* proxy_check_totals.compacted_before
          backfilled,  \* the route's marker
          countJob     \* [step, saw]: the transaction under the advisory lock and the rows it read

countVars == <<today, checked, inherited, rows, counter, total, foldedTo, backfilled, countJob>>

Day == 1..LastDay
Past == {d \in Day : d < today}
\* SUM(f) over some days: as many as there are numbered checks of them.
Numbered(f, S) == UNION {{d} \X (1..f[d]) : d \in S}
SumOver(f, S) == Cardinality(Numbered(f, S))
Zero == [d \in Day |-> 0]
NoPass == [step |-> "idle", saw |-> Zero]

CountsInit ==
  /\ today = 1
  /\ rows \in [Day -> 0..Legacy] /\ \A d \in Day : d > 1 => rows[d] = 0
  /\ checked = rows /\ inherited = rows[1]
  /\ counter = Zero /\ total = 0 /\ foldedTo = 0
  /\ backfilled = FALSE /\ countJob = NoPass

\* A result of today, or a late one: the row and incrementProxyDailyChecks.
InsertStatistic(d) ==
  /\ d =< today /\ checked[d] < MaxDayChecks
  /\ rows' = [rows EXCEPT ![d] = @ + 1]
  /\ counter' = [counter EXCEPT ![d] = @ + 1]
  /\ checked' = [checked EXCEPT ![d] = @ + 1]
  /\ UNCHANGED <<today, inherited, total, foldedTo, backfilled, countJob>>
DayPasses ==
  /\ today < LastDay /\ today' = today + 1
  /\ UNCHANGED <<checked, inherited, rows, counter, total, foldedTo, backfilled, countJob>>
\* DeleteOldProxyStatistics in batches, or a whole partition.  The cutoff is an
\* instant of the day KeepRows days ago, whose earlier rows go too.
DeleteRows(d, n) ==
  /\ d + KeepRows =< today /\ n \in 1..rows[d]
  /\ rows' = [rows EXCEPT ![d] = @ - n]
  /\ UNCHANGED <<today, checked, inherited, counter, total, foldedTo, backfilled, countJob>>

-----------------------------------------------------------------------------
(* Backfill and compaction, one transaction at a time.                     *)

\* The rows a backfill counts: of past days that were not folded.
CountedRows == [d \in Day |-> IF d < today /\ d >= foldedTo THEN rows[d] ELSE 0]
\* ON CONFLICT: the greater of the counter and the rows.
RaisedBySum(d) == counter[d] + countJob.saw[d]
Raised(d) == IF countJob.saw[d] > counter[d] THEN countJob.saw[d] ELSE counter[d]
RaisedCounters == [d \in Day |-> Raised(d)]
Foldable(c) == {d \in Day : d + KeepCounters < today /\ c[d] > 0}

BackfillReads ==
  /\ countJob.step = "idle" /\ ~backfilled
  /\ countJob' = [step |-> "backfill", saw |-> CountedRows]
  /\ UNCHANGED <<today, checked, inherited, rows, counter, total, foldedTo, backfilled>>
BackfillCommits ==
  /\ countJob.step = "backfill"
  /\ counter' = RaisedCounters
  /\ backfilled' = TRUE
  /\ countJob' = NoPass
  /\ UNCHANGED <<today, checked, inherited, rows, total, foldedTo>>

\* CompactProxyDailyChecks backfills the route first when it has not been.
CompactReads ==
  /\ countJob.step = "idle" /\ Foldable(counter) # {}
  /\ countJob' = [step |-> "compact", saw |-> IF backfilled THEN Zero ELSE CountedRows]
  /\ UNCHANGED <<today, checked, inherited, rows, counter, total, foldedTo, backfilled>>
\* The removed days move into the total in one statement; days locked by a
\* writer, and those beyond the limit, are left for a later pass.
CompactCommits(folded) ==
  LET raised == RaisedCounters IN
  /\ countJob.step = "compact"
  /\ folded \subseteq Foldable(raised)
  /\ counter' = [d \in Day |-> IF d \in folded THEN 0 ELSE raised[d]]
  /\ total' = total + SumOver(raised, folded)
  /\ foldedTo' = IF folded = {} THEN foldedTo
                 ELSE IF Max(folded) + 1 > foldedTo THEN Max(folded) + 1 ELSE foldedTo
  /\ backfilled' = TRUE
  /\ countJob' = NoPass
  /\ UNCHANGED <<today, checked, inherited, rows>>
JobRollsBack ==
  /\ countJob.step # "idle"
  /\ countJob' = NoPass
  /\ UNCHANGED <<today, checked, inherited, rows, counter, total, foldedTo, backfilled>>

CountsNext ==
  \/ DayPasses \/ BackfillReads \/ BackfillCommits \/ CompactReads \/ JobRollsBack
  \/ \E d \in Day : InsertStatistic(d) \/ \E n \in 1..MaxDayChecks : DeleteRows(d, n)
  \/ \E folded \in SUBSET Day : CompactCommits(folded)

CountsSpec == CountsInit /\ [][CountsNext]_countVars

-----------------------------------------------------------------------------
CountsTypeOK ==
  /\ today \in Day /\ checked \in [Day -> 0..MaxDayChecks] /\ rows \in [Day -> 0..MaxDayChecks]
  /\ DOMAIN counter = Day /\ total \in Nat /\ foldedTo \in 0..LastDay /\ backfilled \in BOOLEAN

\* queryDashboardCheckCountsFromDaily
DashboardChecks == total + SumOver(counter, Past) + SumOver(rows, Day \ Past)
AllChecks == SumOver(checked, Day)

\* The dashboard counts no result twice and none of those recorded since there
\* are counters is missing from it, whichever of backfill, compaction, late
\* results, midnight and row retention come between.  Of the rows that are
\* older than the counters some may be: a late result that commits between a
\* backfill's reading and its writing hides one.
ChecksCountedOnce ==
  /\ DashboardChecks =< AllChecks
  /\ AllChecks =< DashboardChecks + inherited
=============================================================================
