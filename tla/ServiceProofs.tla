---------------------------- MODULE ServiceProofs ----------------------------
(***************************************************************************)
(* Theorems about the alerts, about what a shutdown leaves behind, and     *)
(* about the scrape sites.                                                 *)
(*                                                                         *)
(* For every number of passes, senders, edits and messages and every       *)
(* choice of the durations, a rule has at most one open incident, which is *)
(* its own and of its revision, and the messages of an incident are sent   *)
(* in order (Alerts).  For every number of workers and results, a shutdown *)
(* keeps what the statistics queue had accepted (StatisticsAdmission) and  *)
(* no browser of the scraper is left running (BrowserPool).  For every     *)
(* number of fetchers and workspaces, a fetch keeps the retry time that a  *)
(* site asked for, and only the newest claim commits (ScrapeQueue).        *)
(***************************************************************************)
EXTENDS Alerts, StatisticsAdmission, BrowserPool, ScrapeQueue, FiniteSetTheorems, SequenceTheorems,
        WellFoundedInduction, TLAPS

-----------------------------------------------------------------------------
(* Alerts: the rows.                                                       *)

MaybeTime == Nat \cup {Never}

RuleRow ==
    [exists : BOOLEAN, enabled : BOOLEAN, rev : Nat, lastEval : MaybeTime, lastAttempt : MaybeTime,
     breach : MaybeTime, recovery : MaybeTime, incident : Nat \cup {Never}]

IncidentRow ==
    [rev : Nat, reason : {Open, "recovered", "configuration_changed", "gone"}, closed : MaybeTime]

DeliveryRow ==
    [inc : Nat, event : {"opened", "recovered"},
     status : Unfinished \cup {"sent", "failed", "canceled", "gone"},
     attempts : Nat, next : Nat, token : Nat, last : MaybeTime]

Pass ==
    [pc : {"idle", "loaded", "observed"}, rev : Nat, gen : Nat, now : Nat, seen : Observation]

-----------------------------------------------------------------------------
(* The inductive invariant.                                                *)

RowsTyped ==
    /\ rule \in RuleRow /\ incidents \in Seq(IncidentRow) /\ deliveries \in Seq(DeliveryRow)

PassesTyped ==
    /\ atime \in Nat /\ generation \in Nat /\ tokens \in Nat
    /\ evaluator \in [Evaluator -> Pass]

AlertInv == RowsTyped /\ PassesTyped /\ OneOpenIncident /\ EventsInOrder

-----------------------------------------------------------------------------
(* Messages.                                                               *)

LEMMA RowsOf ==
    ASSUME NEW S, NEW n \in Nat, NEW f \in [1..n -> S]
    PROVE  f \in Seq(S) /\ DOMAIN f = 1..n
BY IsASeq

\* A change of the messages that adds none keeps them in order when a message
\* that becomes unfinished has no successor, and one that is being sent or was
\* sent has no unfinished predecessor.
LEMMA MessagesKeep ==
    ASSUME RowsTyped, EventsInOrder, NEW f \in [DOMAIN deliveries -> DeliveryRow], deliveries' = f,
           \A d \in DOMAIN deliveries : f[d].inc = deliveries[d].inc,
           \A d \in DOMAIN deliveries : f[d].status \in Unfinished =>
               \/ deliveries[d].status \in Unfinished
               \/ \A n \in DOMAIN deliveries : n > d => deliveries[n].inc # deliveries[d].inc,
           \A d \in DOMAIN deliveries : f[d].status \in {"processing", "sent"} =>
               \/ deliveries[d].status \in {"processing", "sent"}
               \/ \A o \in 1..(d - 1) : deliveries[o].inc = deliveries[d].inc => f[o].status \notin Unfinished
    PROVE  deliveries' \in Seq(DeliveryRow) /\ EventsInOrder'
<1>1. Len(deliveries) \in Nat /\ DOMAIN deliveries = 1..Len(deliveries)
  BY LenProperties DEF RowsTyped
<1>2. deliveries' \in Seq(DeliveryRow) /\ DOMAIN deliveries' = DOMAIN deliveries
  BY <1>1, RowsOf
<1>3. ASSUME NEW d \in DOMAIN deliveries, NEW o \in 1..(d - 1),
             f[o].inc = f[d].inc, f[d].status \in {"processing", "sent"}
      PROVE  f[o].status \notin Unfinished
  <2>1. o \in DOMAIN deliveries /\ d > o /\ d \in Nat /\ o \in Nat
    BY <1>1
  <2>2. deliveries[o].inc = deliveries[d].inc
    BY <1>3, <2>1
  <2>3. CASE deliveries[d].status \in {"processing", "sent"}
    <3>1. deliveries[o].status \notin Unfinished
      BY <1>3, <2>2, <2>3 DEF EventsInOrder
    <3>2. QED
      BY <1>3, <2>1, <2>2, <3>1
  <2>4. CASE deliveries[d].status \notin {"processing", "sent"}
    BY <1>3, <2>2, <2>4
  <2>5. QED
    BY <2>3, <2>4
<1>4. QED
  BY <1>2, <1>3 DEF EventsInOrder

\* Cancelling messages, or dropping them from the history, disturbs no order.
LEMMA SettlingKeeps ==
    ASSUME RowsTyped, EventsInOrder, NEW f \in [DOMAIN deliveries -> DeliveryRow], deliveries' = f,
           \A d \in DOMAIN deliveries : /\ f[d].inc = deliveries[d].inc
                                        /\ f[d].status \in {deliveries[d].status, "failed", "canceled", "gone"}
    PROVE  deliveries' \in Seq(DeliveryRow) /\ EventsInOrder'
<1>1. \A d \in DOMAIN deliveries :
        /\ f[d].status \in Unfinished => deliveries[d].status \in Unfinished
        /\ f[d].status \in {"processing", "sent"} => deliveries[d].status \in {"processing", "sent"}
  BY DEF Unfinished
<1>2. QED
  BY <1>1, MessagesKeep

\* cancelAlertDestinationDeliveries.
LEMMA CancelKeeps ==
    ASSUME RowsTyped, EventsInOrder, CancelDeliveries
    PROVE  deliveries' \in Seq(DeliveryRow) /\ EventsInOrder'
<1> DEFINE f == [d \in DOMAIN deliveries |->
        IF deliveries[d].status \in Unfinished
        THEN [deliveries[d] EXCEPT !.status = "canceled", !.token = 0] ELSE deliveries[d]]
<1>1. \A d \in DOMAIN deliveries : deliveries[d] \in DeliveryRow
  BY LenProperties DEF RowsTyped
<1>2. ASSUME NEW d \in DOMAIN deliveries
      PROVE  f[d] \in DeliveryRow /\ f[d].inc = deliveries[d].inc /\ f[d].status \in {deliveries[d].status, "canceled"}
  BY <1>1 DEF DeliveryRow
<1>3. f \in [DOMAIN deliveries -> DeliveryRow] /\ deliveries' = f
  BY <1>2 DEF CancelDeliveries
<1> HIDE DEF f
<1>4. QED
  BY <1>2, <1>3, SettlingKeeps

\* A message at the end, still to be sent, is behind all others.
LEMMA AnnounceKeeps ==
    ASSUME RowsTyped, EventsInOrder, NEW inc \in Nat, NEW event \in {"opened", "recovered"}, NEW now \in Nat,
           deliveries' = deliveries \o Announce(inc, event, now)
    PROVE  deliveries' \in Seq(DeliveryRow) /\ EventsInOrder'
<1>1. deliveries \in Seq(DeliveryRow)
  BY DEF RowsTyped
<1>2. CASE target # "enabled"
  <2>1. deliveries' = deliveries
    BY <1>1, <1>2, ConcatEmptySeq DEF Announce
  <2>2. QED
    BY <1>1, <2>1 DEF EventsInOrder
<1>3. CASE target = "enabled"
  <2> DEFINE m == [inc |-> inc, event |-> event, status |-> "pending", attempts |-> 0,
                   next |-> now, token |-> 0, last |-> Never]
  <2>1. m \in DeliveryRow /\ m.status = "pending"
    BY DEF DeliveryRow, MaybeTime, Unfinished
  <2>2. deliveries' = deliveries \o <<m>>
    BY <1>3 DEF Announce
  <2> HIDE DEF m
  <2>3. /\ deliveries' \in Seq(DeliveryRow) /\ Len(deliveries) \in Nat
        /\ DOMAIN deliveries = 1..Len(deliveries) /\ DOMAIN deliveries' = 1..(Len(deliveries) + 1)
        /\ deliveries'[Len(deliveries) + 1] = m
        /\ \A i \in 1..Len(deliveries) : deliveries'[i] = deliveries[i]
    BY <1>1, <2>1, <2>2
  <2>4. ASSUME NEW d \in DOMAIN deliveries', NEW o \in 1..(d - 1),
               deliveries'[o].inc = deliveries'[d].inc, deliveries'[d].status \in {"processing", "sent"}
        PROVE  deliveries'[o].status \notin Unfinished
    <3>1. d # Len(deliveries) + 1
      BY <2>1, <2>3, <2>4
    <3>2. d \in DOMAIN deliveries /\ o \in 1..Len(deliveries)
      BY <2>3, <2>4, <3>1
    <3>3. deliveries'[d] = deliveries[d] /\ deliveries'[o] = deliveries[o]
      BY <2>3, <3>2
    <3>4. QED
      BY <2>4, <3>2, <3>3 DEF EventsInOrder
  <2>5. QED
    BY <2>3, <2>4 DEF EventsInOrder
<1>4. QED
  BY <1>2, <1>3

-----------------------------------------------------------------------------
(* Incidents.                                                              *)

\* closeAlertForConfiguration closes the only incident that is open.
LEMMA CloseKeeps ==
    ASSUME RowsTyped, OneOpenIncident, EventsInOrder, NEW now \in Nat, CloseForConfiguration(now),
           rule' \in RuleRow, rule'.incident = Never
    PROVE  RowsTyped' /\ OneOpenIncident' /\ EventsInOrder'
<1>1. deliveries' \in Seq(DeliveryRow) /\ EventsInOrder'
  BY CancelKeeps DEF CloseForConfiguration, CancelDeliveries
<1>2. /\ incidents \in Seq(IncidentRow) /\ Len(incidents) \in Nat /\ DOMAIN incidents = 1..Len(incidents)
      /\ \A i \in DOMAIN incidents : incidents[i] \in IncidentRow
  BY LenProperties DEF RowsTyped
<1>3. CASE rule.incident = Never
  <2>1. incidents' = incidents
    BY <1>3 DEF CloseForConfiguration
  <2>2. QED
    BY <1>1, <1>2, <1>3, <2>1 DEF RowsTyped, OneOpenIncident
<1>4. CASE rule.incident # Never
  <2> DEFINE k == rule.incident
             r == [incidents[k] EXCEPT !.reason = "configuration_changed", !.closed = now]
  <2>1. k \in DOMAIN incidents /\ \A i \in DOMAIN incidents : incidents[i].reason = Open => i = k
    BY <1>4 DEF OneOpenIncident
  <2>2. incidents' = [incidents EXCEPT ![k] = r]
    BY <1>4, <2>1 DEF CloseForConfiguration
  <2>3. r \in IncidentRow /\ r.reason # Open
    BY <1>2, <2>1 DEF IncidentRow, MaybeTime, Open
  <2> HIDE DEF k, r
  <2>4. incidents' \in [1..Len(incidents) -> IncidentRow]
    BY <1>2, <2>2, <2>3
  <2>5. incidents' \in Seq(IncidentRow) /\ DOMAIN incidents' = DOMAIN incidents
    BY <1>2, <2>4, RowsOf
  <2>6. \A i \in DOMAIN incidents' : incidents'[i].reason # Open
    BY <1>2, <2>1, <2>2, <2>3, <2>5
  <2>7. QED
    BY <1>1, <2>5, <2>6 DEF RowsTyped, OneOpenIncident
<1>5. QED
  BY <1>3, <1>4

\* Steps that leave rule and incidents alone.
LEMMA MessagesOnly ==
    ASSUME RowsTyped, OneOpenIncident, UNCHANGED <<rule, incidents>>,
           deliveries' \in Seq(DeliveryRow) /\ EventsInOrder'
    PROVE  RowsTyped' /\ OneOpenIncident' /\ EventsInOrder'
BY DEF RowsTyped, OneOpenIncident

\* An observation moves the timers of a rule and nothing else.
LEMMA ObserveKeeps ==
    ASSUME NEW r \in RuleRow, NEW seen \in {"unknown", "breach", "healthy"}, NEW now \in Nat
    PROVE  /\ Observe(r, seen, now) \in RuleRow
           /\ Observe(r, seen, now).incident = r.incident
           /\ Observe(r, seen, now).rev = r.rev
<1> DEFINE silent == r.lastEval # Never /\ now - r.lastEval > MaxGap
           since(t) == IF silent \/ t = Never THEN now ELSE t
           base == [r EXCEPT !.lastEval = now]
<1>1. base \in RuleRow /\ base.incident = r.incident /\ base.rev = r.rev
  BY DEF RuleRow, MaybeTime
<1>2. since(base.breach) \in MaybeTime /\ since(base.recovery) \in MaybeTime /\ Never \in MaybeTime
  BY <1>1 DEF RuleRow, MaybeTime
<1>3. base.breach \in MaybeTime
  BY <1>1 DEF RuleRow
<1>4. CASE seen = "unknown"
  <2>1. Observe(r, seen, now) = [base EXCEPT !.breach = Never, !.recovery = Never]
    BY <1>4 DEF Observe
  <2> HIDE DEF base
  <2>2. QED
    BY <1>1, <1>2, <2>1 DEF RuleRow
<1>5. CASE seen = "breach"
  <2> DEFINE b == IF r.incident = Never THEN since(base.breach)
                  ELSE IF silent THEN Never ELSE base.breach
  <2>1. Observe(r, seen, now) = [base EXCEPT !.recovery = Never, !.breach = b]
    BY <1>5 DEF Observe
  <2>2. b \in MaybeTime
    BY <1>2, <1>3
  <2> HIDE DEF base, b
  <2>3. QED
    BY <1>1, <1>2, <2>1, <2>2 DEF RuleRow
<1>6. CASE seen = "healthy"
  <2> DEFINE b == IF r.incident # Never THEN since(base.recovery) ELSE Never
  <2>1. Observe(r, seen, now) = [base EXCEPT !.breach = Never, !.recovery = b]
    BY <1>6 DEF Observe
  <2>2. b \in MaybeTime
    BY <1>2
  <2> HIDE DEF base, b
  <2>3. QED
    BY <1>1, <1>2, <2>1, <2>2 DEF RuleRow
<1>7. QED
  BY <1>4, <1>5, <1>6

\* A breach that lasted opens the one incident, and a recovery closes it.
LEMMA TransitKeeps ==
    ASSUME AlertConstants, RowsTyped, OneOpenIncident, EventsInOrder,
           NEW pass \in Pass, pass.seen # "missing", TransitRule(pass)
    PROVE  RowsTyped' /\ OneOpenIncident' /\ EventsInOrder'
<1> DEFINE seen == IF generation # pass.gen THEN "unknown" ELSE pass.seen
           now == pass.now
           r == Observe(rule, seen, now)
           new == Len(incidents) + 1
<1>1. seen \in {"unknown", "breach", "healthy"} /\ now \in Nat /\ rule \in RuleRow
  BY DEF Pass, Observation, RowsTyped
<1>2. r \in RuleRow /\ r.incident = rule.incident /\ r.rev = rule.rev
  BY <1>1, ObserveKeeps
<1>3. /\ incidents \in Seq(IncidentRow) /\ Len(incidents) \in Nat /\ DOMAIN incidents = 1..Len(incidents)
      /\ \A i \in DOMAIN incidents : incidents[i] \in IncidentRow
  BY LenProperties DEF RowsTyped
<1>4. \/ /\ Opens(r, seen, now)
         /\ incidents' = Append(incidents, [rev |-> rule.rev, reason |-> Open, closed |-> Never])
         /\ deliveries' = deliveries \o Announce(new, "opened", now)
         /\ rule' = [r EXCEPT !.incident = new, !.breach = Never]
      \/ /\ Recovers(r, seen, now)
         /\ incidents' = [incidents EXCEPT ![r.incident].reason = "recovered", ![r.incident].closed = now]
         /\ deliveries' = deliveries \o Announce(r.incident, "recovered", now)
         /\ rule' = [r EXCEPT !.incident = Never, !.recovery = Never]
      \/ rule' = r /\ UNCHANGED <<incidents, deliveries>>
  BY DEF TransitRule
<1> HIDE DEF r, seen, now
<1>5. CASE /\ Opens(r, seen, now)
           /\ incidents' = Append(incidents, [rev |-> rule.rev, reason |-> Open, closed |-> Never])
           /\ deliveries' = deliveries \o Announce(new, "opened", now)
           /\ rule' = [r EXCEPT !.incident = new, !.breach = Never]
  <2> DEFINE inc == [rev |-> rule.rev, reason |-> Open, closed |-> Never]
  <2>1. rule.incident = Never
    BY <1>2, <1>5 DEF Opens
  <2>2. inc \in IncidentRow /\ inc.reason = Open /\ inc.rev = rule.rev
    BY <1>1 DEF IncidentRow, RuleRow, MaybeTime
  <2>3. incidents' = Append(incidents, inc)
    BY <1>5
  <2> HIDE DEF inc
  <2>4. /\ incidents' \in Seq(IncidentRow) /\ DOMAIN incidents' = 1..new /\ incidents'[new] = inc
        /\ \A i \in 1..Len(incidents) : incidents'[i] = incidents[i]
    BY <1>3, <2>2, <2>3, AppendProperties, LenProperties
  <2>5. new \in Nat /\ new \in 1..new /\ new \notin DOMAIN incidents /\ 1..new = DOMAIN incidents \cup {new}
    BY <1>3
  <2> HIDE DEF new
  <2>6. rule' \in RuleRow /\ rule'.incident = new /\ rule'.rev = rule.rev
    BY <1>2, <1>5, <2>5 DEF RuleRow, MaybeTime
  <2>7. \A i \in DOMAIN incidents : incidents[i].reason # Open
    BY <2>1 DEF OneOpenIncident
  <2>8. {i \in DOMAIN incidents' : incidents'[i].reason = Open} = {new}
    BY <1>3, <2>2, <2>4, <2>5, <2>7
  <2>9. new # Never
    BY <2>5 DEF AlertConstants
  <2>10. OneOpenIncident'
    BY <2>2, <2>4, <2>6, <2>8, <2>9 DEF OneOpenIncident
  <2>11. deliveries' \in Seq(DeliveryRow) /\ EventsInOrder'
    BY <1>1, <1>5, <2>5, AnnounceKeeps
  <2>12. QED
    BY <2>4, <2>6, <2>10, <2>11 DEF RowsTyped
<1>6. CASE /\ Recovers(r, seen, now)
           /\ incidents' = [incidents EXCEPT ![r.incident].reason = "recovered", ![r.incident].closed = now]
           /\ deliveries' = deliveries \o Announce(r.incident, "recovered", now)
           /\ rule' = [r EXCEPT !.incident = Never, !.recovery = Never]
  <2> DEFINE k == rule.incident
             inc == [incidents[k] EXCEPT !.reason = "recovered", !.closed = now]
  <2>1. rule.incident # Never
    BY <1>2, <1>6 DEF Recovers
  <2>2. /\ k \in DOMAIN incidents /\ k \in Nat
        /\ \A i \in DOMAIN incidents : incidents[i].reason = Open => i = k
    BY <1>3, <2>1 DEF OneOpenIncident
  <2>3. incidents' = [incidents EXCEPT ![k] = inc]
    BY <1>2, <1>6, <2>2
  <2>4. inc \in IncidentRow /\ inc.reason # Open
    BY <1>1, <1>3, <2>2 DEF IncidentRow, MaybeTime, Open
  <2>5. deliveries' = deliveries \o Announce(k, "recovered", now)
    BY <1>2, <1>6
  <2> HIDE DEF k, inc
  <2>6. incidents' \in [1..Len(incidents) -> IncidentRow]
    BY <1>3, <2>3, <2>4
  <2>7. incidents' \in Seq(IncidentRow) /\ DOMAIN incidents' = DOMAIN incidents
    BY <1>3, <2>6, RowsOf
  <2>8. \A i \in DOMAIN incidents' : incidents'[i].reason # Open
    BY <1>3, <2>2, <2>3, <2>4, <2>7
  <2>9. rule' \in RuleRow /\ rule'.incident = Never
    BY <1>2, <1>6 DEF RuleRow, MaybeTime
  <2>10. deliveries' \in Seq(DeliveryRow) /\ EventsInOrder'
    BY <1>1, <2>2, <2>5, AnnounceKeeps
  <2>11. QED
    BY <2>7, <2>8, <2>9, <2>10 DEF RowsTyped, OneOpenIncident
<1>7. CASE rule' = r /\ UNCHANGED <<incidents, deliveries>>
  BY <1>2, <1>7 DEF RowsTyped, OneOpenIncident, EventsInOrder
<1>8. QED
  BY <1>4, <1>5, <1>6, <1>7

-----------------------------------------------------------------------------
(* The passes.                                                             *)

\* A step of a pass that leaves the rows alone, but for the rule's last attempt.
LEMMA PassKeeps ==
    ASSUME AlertInv, NEW e \in Evaluator, NEW pass \in Pass,
           evaluator' = [evaluator EXCEPT ![e] = pass],
           UNCHANGED <<atime, generation, incidents, deliveries, tokens>>,
           rule' \in RuleRow, rule'.incident = rule.incident, rule'.rev = rule.rev
    PROVE  AlertInv'
<1>1. PassesTyped'
  BY DEF AlertInv, PassesTyped
<1>2. RowsTyped' /\ OneOpenIncident' /\ EventsInOrder'
  BY DEF AlertInv, RowsTyped, OneOpenIncident, EventsInOrder
<1>3. QED
  BY <1>1, <1>2 DEF AlertInv

LEMMA PassStepKeeps ==
    ASSUME AlertInv, NEW e \in Evaluator, LoadRules(e) \/ StartBatch(e) \/ AbandonPass(e)
    PROVE  AlertInv'
<1>1. rule \in RuleRow /\ evaluator[e] \in Pass /\ atime \in Nat /\ generation \in Nat /\ rule.rev \in Nat
  BY DEF AlertInv, RowsTyped, PassesTyped, RuleRow
<1>2. IdlePass \in Pass /\ "unknown" \in Observation
  BY DEF IdlePass, Pass, Observation
<1>3. CASE LoadRules(e)
  <2> DEFINE pass == [pc |-> "loaded", rev |-> rule.rev, gen |-> generation, now |-> atime, seen |-> "unknown"]
  <2>1. pass \in Pass
    BY <1>1, <1>2 DEF Pass
  <2>2. /\ evaluator' = [evaluator EXCEPT ![e] = pass]
        /\ UNCHANGED <<atime, generation, incidents, deliveries, tokens, rule>>
    BY <1>3 DEF LoadRules
  <2> HIDE DEF pass
  <2>3. QED
    BY <1>1, <2>1, <2>2, PassKeeps
<1>4. ASSUME NEW seen \in Observation,
             evaluator' = [evaluator EXCEPT ![e].pc = "observed", ![e].seen = seen],
             rule' = [rule EXCEPT !.lastAttempt = evaluator[e].now],
             UNCHANGED <<atime, generation, incidents, deliveries, tokens>>
      PROVE  AlertInv'
  <2> DEFINE pass == [evaluator[e] EXCEPT !.pc = "observed", !.seen = seen]
  <2>1. pass \in Pass
    BY <1>1 DEF Pass
  <2>2. evaluator' = [evaluator EXCEPT ![e] = pass]
    BY <1>4 DEF AlertInv, PassesTyped
  <2>3. rule' \in RuleRow /\ rule'.incident = rule.incident /\ rule'.rev = rule.rev
    BY <1>1, <1>4 DEF RuleRow, Pass, MaybeTime
  <2> HIDE DEF pass
  <2>4. QED
    BY <1>4, <2>1, <2>2, <2>3, PassKeeps
<1>5. ASSUME evaluator' = [evaluator EXCEPT ![e] = IdlePass],
             UNCHANGED <<atime, generation, incidents, deliveries, tokens, rule>>
      PROVE  AlertInv'
  BY <1>1, <1>2, <1>5, PassKeeps
<1>6. CASE StartBatch(e)
  BY <1>4, <1>5, <1>6 DEF StartBatch
<1>7. CASE AbandonPass(e)
  BY <1>5, <1>7 DEF AbandonPass
<1>8. QED
  BY <1>3, <1>6, <1>7

LEMMA ApplyKeeps ==
    ASSUME AlertConstants, AlertInv, NEW e \in Evaluator, ApplyObservations(e)
    PROVE  AlertInv'
<1> DEFINE pass == evaluator[e]
<1>1. /\ pass \in Pass /\ pass.now \in Nat /\ IdlePass \in Pass
      /\ rule \in RuleRow
  BY DEF AlertInv, RowsTyped, PassesTyped, Pass, IdlePass, Observation
<1>2. /\ evaluator' = [evaluator EXCEPT ![e] = IdlePass]
      /\ UNCHANGED <<atime, generation, tokens>>
      /\ \/ UNCHANGED <<rule, incidents, deliveries>>
         \/ DisableRule(pass)
         \/ pass.seen # "missing" /\ TransitRule(pass)
  BY DEF ApplyObservations
<1>3. PassesTyped'
  BY <1>1, <1>2 DEF AlertInv, PassesTyped
<1> HIDE DEF pass
<1>4. CASE UNCHANGED <<rule, incidents, deliveries>>
  BY <1>3, <1>4 DEF AlertInv, RowsTyped, OneOpenIncident, EventsInOrder
<1>5. CASE DisableRule(pass)
  <2>1. CloseForConfiguration(pass.now)
    BY <1>5 DEF DisableRule
  <2>2. rule' \in RuleRow /\ rule'.incident = Never
    <3> DEFINE n == rule.rev + 1
    <3>1. n \in Nat
      BY <1>1 DEF RuleRow
    <3>2. rule' = [rule EXCEPT !.enabled = FALSE, !.rev = n, !.incident = Never,
                               !.breach = Never, !.recovery = Never]
      BY <1>5 DEF DisableRule
    <3> HIDE DEF n
    <3>3. QED
      BY <1>1, <3>1, <3>2 DEF RuleRow, MaybeTime
  <2>3. QED
    BY <1>1, <1>3, <2>1, <2>2, CloseKeeps DEF AlertInv
<1>6. CASE pass.seen # "missing" /\ TransitRule(pass)
  BY <1>1, <1>3, <1>6, TransitKeeps DEF AlertInv
<1>7. QED
  BY <1>2, <1>4, <1>5, <1>6

\* Only closed incidents leave the history, and all their messages with them.
LEMMA CleanupKeeps ==
    ASSUME AlertInv, NEW k \in DOMAIN incidents, CleanupAlertHistory(k)
    PROVE  AlertInv'
<1> DEFINE f == [d \in DOMAIN deliveries |->
        IF deliveries[d].inc = k THEN [deliveries[d] EXCEPT !.status = "gone", !.token = 0]
        ELSE deliveries[d]]
           inc == [incidents[k] EXCEPT !.reason = "gone"]
<1>1. /\ incidents \in Seq(IncidentRow) /\ Len(incidents) \in Nat /\ DOMAIN incidents = 1..Len(incidents)
      /\ \A i \in DOMAIN incidents : incidents[i] \in IncidentRow
      /\ \A d \in DOMAIN deliveries : deliveries[d] \in DeliveryRow
  BY LenProperties DEF AlertInv, RowsTyped
<1>2. ASSUME NEW d \in DOMAIN deliveries
      PROVE  f[d] \in DeliveryRow /\ f[d].inc = deliveries[d].inc /\ f[d].status \in {deliveries[d].status, "gone"}
  BY <1>1 DEF DeliveryRow
<1>3. f \in [DOMAIN deliveries -> DeliveryRow] /\ deliveries' = f
  BY <1>2 DEF CleanupAlertHistory
<1>4. inc \in IncidentRow /\ inc.reason # Open /\ incidents' = [incidents EXCEPT ![k] = inc] /\ inc.rev = incidents[k].rev
  BY <1>1 DEF IncidentRow, Open, CleanupAlertHistory
<1>5. incidents[k].reason # Open /\ UNCHANGED <<atime, rule, generation, evaluator, tokens>>
  BY DEF CleanupAlertHistory
<1> HIDE DEF f, inc
<1>6. deliveries' \in Seq(DeliveryRow) /\ EventsInOrder'
  BY <1>2, <1>3, SettlingKeeps DEF AlertInv
<1>7. incidents' \in [1..Len(incidents) -> IncidentRow]
  BY <1>1, <1>4
<1>8. incidents' \in Seq(IncidentRow) /\ DOMAIN incidents' = DOMAIN incidents
  BY <1>1, <1>7, RowsOf
<1>9. \A i \in DOMAIN incidents : /\ (incidents'[i].reason = Open) <=> (incidents[i].reason = Open)
                                  /\ incidents'[i].rev = incidents[i].rev
  BY <1>1, <1>4, <1>5
<1>10. {i \in DOMAIN incidents' : incidents'[i].reason = Open}
         = {i \in DOMAIN incidents : incidents[i].reason = Open}
  BY <1>8, <1>9
<1>11. OneOpenIncident'
  <2>1. rule.incident # Never => rule.incident \in DOMAIN incidents
    BY DEF AlertInv, OneOpenIncident
  <2>2. QED
    BY <1>5, <1>9, <1>10, <2>1 DEF AlertInv, OneOpenIncident
<1>12. QED
  BY <1>5, <1>6, <1>8, <1>11 DEF AlertInv, RowsTyped, PassesTyped

-----------------------------------------------------------------------------
(* Configuration.                                                          *)

LEMMA EditKeeps ==
    ASSUME AlertInv,
           \/ DeleteAlertRule \/ \E enabled \in BOOLEAN : SaveAlertRule(enabled)
    PROVE  AlertInv'
<1>1. rule \in RuleRow /\ atime \in Nat /\ CloseForConfiguration(atime)
  BY DEF AlertInv, RowsTyped, PassesTyped, DeleteAlertRule, SaveAlertRule
<1>2. rule' \in RuleRow /\ rule'.incident = Never
  <2>1. CASE DeleteAlertRule
    BY <1>1, <2>1 DEF DeleteAlertRule, RuleRow, MaybeTime
  <2>2. ASSUME NEW enabled \in BOOLEAN, SaveAlertRule(enabled) PROVE rule' \in RuleRow /\ rule'.incident = Never
    <3> DEFINE n == rule.rev + 1
    <3>1. n \in Nat
      BY <1>1 DEF RuleRow
    <3>2. rule' = [rule EXCEPT !.rev = n, !.enabled = enabled, !.lastEval = Never, !.lastAttempt = Never,
                               !.breach = Never, !.recovery = Never, !.incident = Never]
      BY <2>2 DEF SaveAlertRule
    <3> HIDE DEF n
    <3>3. QED
      BY <1>1, <2>2, <3>1, <3>2 DEF RuleRow, MaybeTime
  <2>3. QED
    BY <2>1, <2>2
<1>3. UNCHANGED <<atime, generation, evaluator, tokens>>
  BY DEF DeleteAlertRule, SaveAlertRule
<1>4. QED
  BY <1>1, <1>2, <1>3, CloseKeeps DEF AlertInv, PassesTyped

LEMMA DestinationKeeps ==
    ASSUME AlertInv, DeleteAlertDestination \/ \E state \in {"enabled", "disabled"} : SaveAlertDestination(state)
    PROVE  AlertInv'
<1>1. CancelDeliveries /\ UNCHANGED <<atime, rule, generation, incidents, evaluator, tokens>>
  BY DEF DeleteAlertDestination, SaveAlertDestination
<1>2. deliveries' \in Seq(DeliveryRow) /\ EventsInOrder'
  BY <1>1, CancelKeeps DEF AlertInv
<1>3. QED
  BY <1>1, <1>2, MessagesOnly DEF AlertInv, PassesTyped

\* What is shown to leave AlertInv to the messages alone.
LEMMA DeliveryKeeps ==
    ASSUME AlertInv, UNCHANGED <<atime, rule, generation, incidents, evaluator>>, tokens' \in Nat,
           deliveries' \in Seq(DeliveryRow) /\ EventsInOrder'
    PROVE  AlertInv'
BY MessagesOnly DEF AlertInv, PassesTyped

\* A message retried by hand is the last of its incident.
LEMMA RetryKeeps ==
    ASSUME AlertInv, NEW k \in DOMAIN deliveries, RetryAlertDelivery(k)
    PROVE  AlertInv'
<1> DEFINE m == [deliveries[k] EXCEPT !.status = "pending", !.attempts = 0, !.next = atime, !.token = 0]
           f == [deliveries EXCEPT ![k] = m]
<1>1. \A d \in DOMAIN deliveries : deliveries[d] \in DeliveryRow
  BY LenProperties DEF AlertInv, RowsTyped
<1>2. m \in DeliveryRow /\ m.inc = deliveries[k].inc /\ m.status = "pending"
  BY <1>1 DEF DeliveryRow, Unfinished, AlertInv, PassesTyped
<1>3. deliveries' = f
  BY DEF RetryAlertDelivery
<1>4. /\ UNCHANGED <<atime, rule, generation, incidents, evaluator, tokens>>
      /\ \A n \in DOMAIN deliveries : n > k => deliveries[n].inc # deliveries[k].inc
  BY DEF RetryAlertDelivery, Retryable
<1> HIDE DEF m
<1>5. deliveries = [d \in DOMAIN deliveries |-> deliveries[d]]
  BY LenProperties DEF AlertInv, RowsTyped
<1>6. f \in [DOMAIN deliveries -> DeliveryRow]
  BY <1>1, <1>2, <1>5
<1>7. \A d \in DOMAIN deliveries : f[d] = IF d = k THEN m ELSE deliveries[d]
  BY <1>5
<1> HIDE DEF f
<1>8. \A d \in DOMAIN deliveries : f[d].inc = deliveries[d].inc
  BY <1>2, <1>7
<1>9. \A d \in DOMAIN deliveries : f[d].status \in Unfinished =>
        \/ deliveries[d].status \in Unfinished
        \/ \A n \in DOMAIN deliveries : n > d => deliveries[n].inc # deliveries[d].inc
  BY <1>4, <1>7
<1>10. \A d \in DOMAIN deliveries : f[d].status \in {"processing", "sent"} =>
         deliveries[d].status \in {"processing", "sent"}
  BY <1>2, <1>7
<1>11. deliveries' \in Seq(DeliveryRow) /\ EventsInOrder'
  BY <1>3, <1>6, <1>8, <1>9, <1>10, MessagesKeep DEF AlertInv
<1>12. QED
  BY <1>4, <1>11, DeliveryKeeps DEF AlertInv, PassesTyped

-----------------------------------------------------------------------------
(* Delivery.                                                               *)

\* A claim that went stale is waiting again, or has failed.
LEMMA RecoverStaleKeeps ==
    ASSUME AlertInv
    PROVE  /\ RecoverStale \in [DOMAIN deliveries -> DeliveryRow]
           /\ \A d \in DOMAIN deliveries :
                /\ RecoverStale[d].inc = deliveries[d].inc
                /\ \/ RecoverStale[d].status = deliveries[d].status
                   \/ deliveries[d].status = "processing" /\ RecoverStale[d].status \in {"pending", "failed"}
<1>1. \A d \in DOMAIN deliveries : deliveries[d] \in DeliveryRow
  BY LenProperties DEF AlertInv, RowsTyped
<1>2. ASSUME NEW d \in DOMAIN deliveries
      PROVE  /\ RecoverStale[d] \in DeliveryRow
             /\ RecoverStale[d].inc = deliveries[d].inc
             /\ \/ RecoverStale[d].status = deliveries[d].status
                \/ deliveries[d].status = "processing" /\ RecoverStale[d].status \in {"pending", "failed"}
  <2>1. \/ RecoverStale[d] = deliveries[d]
        \/ /\ deliveries[d].status = "processing"
           /\ \E st \in {"pending", "failed"} :
                RecoverStale[d] = [deliveries[d] EXCEPT !.token = 0, !.status = st]
    BY DEF RecoverStale
  <2>2. CASE RecoverStale[d] = deliveries[d]
    BY <1>1, <2>2
  <2>3. ASSUME NEW st \in {"pending", "failed"}, deliveries[d].status = "processing",
               RecoverStale[d] = [deliveries[d] EXCEPT !.token = 0, !.status = st]
        PROVE  /\ RecoverStale[d] \in DeliveryRow /\ RecoverStale[d].inc = deliveries[d].inc
               /\ RecoverStale[d].status = st
    <3> DEFINE m == deliveries[d]
    <3>1. m \in DeliveryRow
      BY <1>1
    <3> HIDE DEF m
    <3>2. [m EXCEPT !.token = 0, !.status = st] \in DeliveryRow
      BY <3>1, <2>3 DEF DeliveryRow, Unfinished
    <3>3. /\ [m EXCEPT !.token = 0, !.status = st].inc = m.inc
          /\ [m EXCEPT !.token = 0, !.status = st].status = st
      BY <3>1 DEF DeliveryRow
    <3>4. RecoverStale[d] = [m EXCEPT !.token = 0, !.status = st]
      BY <2>3 DEF m
    <3>5. QED
      BY <3>2, <3>3, <3>4 DEF m
  <2>4. QED
    BY <2>1, <2>2, <2>3
<1>3. RecoverStale = [d \in DOMAIN deliveries |-> RecoverStale[d]]
  BY DEF RecoverStale
<1>4. QED
  BY <1>2, <1>3

\* A claimed message was waiting, and its predecessors are finished.
LEMMA ClaimKeeps ==
    ASSUME AlertInv, NEW s \in Sender, ClaimAlertDeliveries(s)
    PROVE  AlertInv'
<1> DEFINE recovered == RecoverStale
           claimable == {d \in DOMAIN recovered : Claimable(recovered, d)}
           first == CHOOSE d \in claimable : \A o \in claimable : d =< o
<1>1. /\ recovered \in [DOMAIN deliveries -> DeliveryRow]
      /\ \A d \in DOMAIN deliveries :
           /\ recovered[d].inc = deliveries[d].inc
           /\ \/ recovered[d].status = deliveries[d].status
              \/ deliveries[d].status = "processing" /\ recovered[d].status \in {"pending", "failed"}
  BY RecoverStaleKeeps
<1>2. /\ atime \in Nat /\ tokens \in Nat /\ RowsTyped /\ EventsInOrder
      /\ Len(deliveries) \in Nat /\ DOMAIN deliveries = 1..Len(deliveries)
  BY LenProperties DEF AlertInv, PassesTyped, RowsTyped
<1>3. UNCHANGED <<atime, rule, generation, incidents, evaluator>>
  BY DEF ClaimAlertDeliveries
<1>4. \/ /\ claimable # {} /\ tokens' = tokens + 1
         /\ deliveries' = [recovered EXCEPT ![first].status = "processing",
                ![first].token = tokens + 1, ![first].attempts = @ + 1, ![first].last = atime]
      \/ tokens' = tokens /\ deliveries' = recovered
  BY DEF ClaimAlertDeliveries
<1>5. \A d \in DOMAIN deliveries :
        /\ recovered[d].status \in Unfinished => deliveries[d].status \in Unfinished
        /\ recovered[d].status \in {"processing", "sent"} => deliveries[d].status \in {"processing", "sent"}
  BY <1>1 DEF Unfinished
<1> HIDE DEF recovered, claimable, first
<1>6. CASE tokens' = tokens /\ deliveries' = recovered
  <2>1. deliveries' \in Seq(DeliveryRow) /\ EventsInOrder'
    BY <1>1, <1>2, <1>5, <1>6, MessagesKeep
  <2>2. QED
    BY <1>2, <1>3, <1>6, <2>1, DeliveryKeeps
<1>7. CASE /\ claimable # {} /\ tokens' = tokens + 1
           /\ deliveries' = [recovered EXCEPT ![first].status = "processing",
                  ![first].token = tokens + 1, ![first].attempts = @ + 1, ![first].last = atime]
  <2> DEFINE k == first
             m == [recovered[k] EXCEPT !.status = "processing", !.token = tokens + 1,
                                       !.attempts = recovered[k].attempts + 1, !.last = atime]
             f == [recovered EXCEPT ![k] = m]
  <2>1. claimable \in SUBSET DOMAIN deliveries /\ claimable \in SUBSET Nat
    BY <1>1, <1>2 DEF claimable
  <2>2. k \in claimable
    <3>1. \E d \in claimable : \A o \in claimable : d =< o
      <4>1. PICK d \in claimable : \A o \in claimable : ~(<<o, d>> \in OpToRel(<, Nat))
        BY <1>7, <2>1, NatLessThanWellFounded, WFMin
      <4>2. ASSUME NEW o \in claimable PROVE d =< o
        <5>1. <<o, d>> \notin OpToRel(<, Nat)
          BY <4>1
        <5>2. ~(o < d)
          BY <2>1, <5>1 DEF OpToRel
        <5>3. QED
          BY <2>1, <5>2
      <4>3. QED
        BY <4>2
    <3>2. QED
      BY <3>1 DEF first
  <2>3. k \in DOMAIN deliveries /\ Claimable(recovered, k)
    BY <1>1, <2>1, <2>2 DEF claimable
  <2>4. deliveries' = f
    BY <1>7
  <2> HIDE DEF k
  <2>5. recovered[k] \in DeliveryRow
    BY <1>1, <2>3
  <2>6. m \in DeliveryRow /\ m.inc = recovered[k].inc /\ m.status = "processing"
    <3> DEFINE a == recovered[k].attempts + 1
               t == tokens + 1
    <3>1. a \in Nat /\ t \in Nat
      BY <1>2, <2>5 DEF DeliveryRow
    <3>2. m = [recovered[k] EXCEPT !.status = "processing", !.token = t, !.attempts = a, !.last = atime]
      OBVIOUS
    <3> HIDE DEF a, t, m
    <3>3. QED
      BY <1>2, <2>5, <3>1, <3>2 DEF DeliveryRow, Unfinished, MaybeTime
  <2> HIDE DEF m
  <2>7. f \in [DOMAIN deliveries -> DeliveryRow]
    BY <1>1, <2>3, <2>6
  <2>8. \A d \in DOMAIN deliveries : f[d] = IF d = k THEN m ELSE recovered[d]
    BY <1>1
  <2>9. /\ recovered[k].status = "pending"
        /\ \A o \in 1..(k - 1) : recovered[o].inc = recovered[k].inc => recovered[o].status \notin Unfinished
    BY <2>3 DEF Claimable
  <2> HIDE DEF f
  <2>10. \A d \in DOMAIN deliveries : f[d].inc = deliveries[d].inc
    BY <1>1, <2>6, <2>8
  <2>11. \A d \in DOMAIN deliveries : f[d].status \in Unfinished => deliveries[d].status \in Unfinished
    BY <1>5, <2>3, <2>8, <2>9 DEF Unfinished
  <2>12. ASSUME NEW o \in 1..(k - 1), deliveries[o].inc = deliveries[k].inc PROVE f[o].status \notin Unfinished
    <3>1. o \in DOMAIN deliveries /\ o # k
      BY <1>2, <2>3
    <3>2. recovered[o].inc = recovered[k].inc
      BY <1>1, <2>3, <2>12, <3>1
    <3>3. QED
      BY <2>8, <2>9, <3>1, <3>2
  <2>13. \A d \in DOMAIN deliveries : f[d].status \in {"processing", "sent"} =>
           \/ deliveries[d].status \in {"processing", "sent"}
           \/ \A o \in 1..(d - 1) : deliveries[o].inc = deliveries[d].inc => f[o].status \notin Unfinished
    BY <1>5, <2>8, <2>12
  <2>14. deliveries' \in Seq(DeliveryRow) /\ EventsInOrder'
    BY <1>2, <2>4, <2>7, <2>10, <2>11, <2>13, MessagesKeep
  <2>15. tokens' \in Nat
    BY <1>2, <1>7
  <2>16. QED
    BY <1>3, <2>14, <2>15, DeliveryKeeps
<1>8. QED
  BY <1>4, <1>6, <1>7

\* An outcome is written only to a message that is being sent.
LEMMA FinishKeeps ==
    ASSUME AlertInv, NEW msg, NEW status \in {"sent", "pending", "failed", "canceled"}, NEW delay \in {0, 1},
           FinishDelivery(msg, status, delay)
    PROVE  deliveries' \in Seq(DeliveryRow) /\ EventsInOrder'
<1>1. /\ deliveries \in Seq(DeliveryRow) /\ EventsInOrder /\ RowsTyped /\ atime \in Nat
      /\ \A d \in DOMAIN deliveries : deliveries[d] \in DeliveryRow
      /\ deliveries = [d \in DOMAIN deliveries |-> deliveries[d]]
  BY LenProperties DEF AlertInv, RowsTyped, PassesTyped
<1> DEFINE k == msg.id
           t == atime + delay
           m == [deliveries[k] EXCEPT !.status = status, !.next = t, !.token = 0]
           f == [deliveries EXCEPT ![k] = m]
<1>2. CASE deliveries' = deliveries
  BY <1>1, <1>2 DEF EventsInOrder
<1>3. CASE Owns(msg) /\ k \in DOMAIN deliveries
  <2>1. deliveries[k].status = "processing"
    BY <1>3 DEF Owns
  <2>2. deliveries' = f
    BY <1>3 DEF FinishDelivery
  <2>3. t \in Nat
    BY <1>1
  <2> HIDE DEF k, t
  <2>4. m \in DeliveryRow /\ m.inc = deliveries[k].inc /\ m.status = status
    BY <1>1, <1>3, <2>3 DEF DeliveryRow, Unfinished
  <2> HIDE DEF m
  <2>5. f \in [DOMAIN deliveries -> DeliveryRow]
    BY <1>1, <1>3, <2>4
  <2>6. \A d \in DOMAIN deliveries : f[d] = IF d = k THEN m ELSE deliveries[d]
    BY <1>1
  <2> HIDE DEF f
  <2>7. \A d \in DOMAIN deliveries :
          /\ f[d].inc = deliveries[d].inc
          /\ f[d].status \in Unfinished => deliveries[d].status \in Unfinished
          /\ f[d].status \in {"processing", "sent"} => deliveries[d].status \in {"processing", "sent"}
    BY <2>1, <2>4, <2>6 DEF Unfinished
  <2>8. QED
    BY <1>1, <2>2, <2>5, <2>7, MessagesKeep
<1>4. k \notin DOMAIN deliveries => deliveries' = deliveries
  BY <1>1 DEF FinishDelivery
<1>5. ~Owns(msg) => deliveries' = deliveries
  BY DEF FinishDelivery
<1>6. QED
  BY <1>2, <1>3, <1>4, <1>5

LEMMA SenderStepKeeps ==
    ASSUME AlertInv, NEW s \in Sender, RecheckDestination(s) \/ SendMessage(s) \/ SenderStops(s)
    PROVE  AlertInv'
<1>1. UNCHANGED <<atime, rule, generation, incidents, evaluator, tokens>>
  BY DEF RecheckDestination, SendMessage, SenderStops
<1>2. \/ deliveries' = deliveries
      \/ \E status \in {"sent", "pending", "failed", "canceled"}, delay \in {0, 1} :
           FinishDelivery(sender[s], status, delay)
  <2>1. CASE RecheckDestination(s)
    <3>1. \/ deliveries' = deliveries
          \/ FinishDelivery(sender[s], "canceled", 0)
      BY <2>1 DEF RecheckDestination
    <3>2. QED
      BY <3>1
  <2>2. CASE SendMessage(s)
    <3>1. \/ FinishDelivery(sender[s], "sent", 0) \/ FinishDelivery(sender[s], "pending", 1)
          \/ FinishDelivery(sender[s], "failed", 0)
      BY <2>2 DEF SendMessage
    <3>2. QED
      BY <3>1
  <2>3. CASE SenderStops(s)
    BY <2>3 DEF SenderStops
  <2>4. QED
    BY <2>1, <2>2, <2>3
<1>3. deliveries' \in Seq(DeliveryRow) /\ EventsInOrder'
  <2>1. CASE deliveries' = deliveries
    BY <2>1 DEF AlertInv, RowsTyped, EventsInOrder
  <2>2. ASSUME NEW status \in {"sent", "pending", "failed", "canceled"}, NEW delay \in {0, 1},
               FinishDelivery(sender[s], status, delay)
        PROVE  deliveries' \in Seq(DeliveryRow) /\ EventsInOrder'
    BY <2>2, FinishKeeps
  <2>3. QED
    BY <1>2, <2>1, <2>2
<1>4. QED
  BY <1>1, <1>3, DeliveryKeeps DEF AlertInv, PassesTyped

-----------------------------------------------------------------------------
LEMMA AlertInvInit == ASSUME AlertInit PROVE AlertInv
<1>1. rule \in RuleRow /\ rule.incident = Never
  BY DEF AlertInit, RuleRow, MaybeTime
<1>2. incidents \in Seq(IncidentRow) /\ deliveries \in Seq(DeliveryRow)
      /\ DOMAIN incidents = {} /\ DOMAIN deliveries = {}
  BY DEF AlertInit
<1>3. PassesTyped
  BY DEF AlertInit, PassesTyped, Pass, IdlePass, Observation
<1>4. QED
  BY <1>1, <1>2, <1>3 DEF AlertInv, RowsTyped, OneOpenIncident, EventsInOrder

LEMMA AlertInvStep == ASSUME AlertConstants, AlertInv, [AlertNext]_alertVars PROVE AlertInv'
<1>1. CASE UNCHANGED alertVars
  BY <1>1 DEF alertVars, AlertInv, RowsTyped, PassesTyped, OneOpenIncident, EventsInOrder
<1>2. CASE AlertTick \/ ChangeChecker
  <2>1. /\ UNCHANGED <<rule, incidents, deliveries, evaluator, tokens>>
        /\ atime' \in {atime, atime + 1} /\ generation' \in {generation, generation + 1}
    BY <1>2 DEF AlertTick, ChangeChecker
  <2>2. PassesTyped'
    BY <2>1 DEF AlertInv, PassesTyped
  <2>3. QED
    BY <2>1, <2>2 DEF AlertInv, RowsTyped, OneOpenIncident, EventsInOrder
<1>3. CASE \/ DeleteAlertRule \/ DeleteAlertDestination
           \/ \E enabled \in BOOLEAN : SaveAlertRule(enabled)
           \/ \E state \in {"enabled", "disabled"} : SaveAlertDestination(state)
  BY <1>3, EditKeeps, DestinationKeeps
<1>4. CASE \E i \in DOMAIN incidents : CleanupAlertHistory(i)
  BY <1>4, CleanupKeeps
<1>5. CASE \E d \in DOMAIN deliveries : RetryAlertDelivery(d)
  BY <1>5, RetryKeeps
<1>6. CASE \E e \in Evaluator : LoadRules(e) \/ StartBatch(e) \/ AbandonPass(e) \/ ApplyObservations(e)
  BY <1>6, PassStepKeeps, ApplyKeeps
<1>7. CASE \E s \in Sender : \/ ClaimAlertDeliveries(s) \/ RecheckDestination(s)
                             \/ SendMessage(s) \/ SenderStops(s)
  BY <1>7, ClaimKeeps, SenderStepKeeps
<1>8. QED
  BY <1>1, <1>2, <1>3, <1>4, <1>5, <1>6, <1>7 DEF AlertNext

\* For every number of overlapping passes, senders and edits, every duration
\* and every number of attempts: the open incidents are exactly the rule's
\* active one, of its current revision, and while or after a message is sent no
\* earlier one of its incident is waiting (alert_transitions.go,
\* applyAlertObservations; alert_deliveries.go, ClaimAlertDeliveries).
THEOREM IncidentsAnnouncedInOrder == ASSUME AlertConstants PROVE AlertSpec => []IncidentsInOrder
<1>1. AlertInit => AlertInv
  BY AlertInvInit
<1>2. AlertInv /\ [AlertNext]_alertVars => AlertInv'
  BY AlertInvStep
<1>3. AlertInv => IncidentsInOrder
  BY DEF AlertInv, IncidentsInOrder
<1>4. QED
  BY <1>1, <1>2, <1>3, PTL DEF AlertSpec

-----------------------------------------------------------------------------
(* Statistics admission: the inductive invariant.                          *)

OverloadPolicies == {"block", "drop_new", "evict_oldest"}
Work == [step : {"free", "measure", "append", "again", "memory"},
         result : Result \cup {NoResult}, policy : OverloadPolicies]

ProducersTyped ==
    /\ producer \in [Checker -> Work]
    /\ \A c \in Checker : producer[c].step # "free" => producer[c].result \in Result

ResultsTyped ==
    /\ streamed \in Seq(Result) /\ queued \in Seq(Result) /\ Len(queued) =< QueueCap
    /\ held \in [Writer -> SUBSET Result]
    /\ stored \subseteq Result /\ dropped \subseteq Result /\ evicted \subseteq Result
    /\ unchecked \in Nat

StagesTyped ==
    /\ writer \in [Writer -> {"running", "draining", "over"}]
    /\ stage \in {"up", "producers", "consumers", "exited"} /\ orderly \in BOOLEAN

\* Workers of the memory queue end one stage after the producers, with empty
\* buffers; while the shutdown is orderly nobody is left who could fill them
\* or the queue again.
Drained ==
    /\ \A w \in Writer : writer[w] # "running" => ConsumersCancelled
    /\ \A w \in Writer : writer[w] = "over" => held[w] = {}
    /\ orderly /\ ConsumersCancelled => AllFree
    /\ orderly => \A w \in Writer : writer[w] = "over" => queued = <<>>
    /\ stage = "exited" /\ orderly => \A w \in Writer : writer[w] = "over"

\* Producers between the length check and the append have their place already.
Appending == {c \in Checker : producer[c].step = "append"}
RoomKept ==
    Len(streamed) + Cardinality(Appending) =< StreamCap + Cardinality(Checker) - 1 + unchecked

AdmissionInv == ProducersTyped /\ ResultsTyped /\ StagesTyped /\ Drained /\ RoomKept

-----------------------------------------------------------------------------
(* Lemmas.                                                                 *)

LEMMA CheckersCounted ==
    ASSUME AdmissionConstants
    PROVE  /\ Cardinality(Checker) \in Nat
           /\ \A S \in SUBSET Checker :
                 IsFiniteSet(S) /\ Cardinality(S) \in Nat /\ Cardinality(S) =< Cardinality(Checker)
<1>1. Cardinality(Checker) \in Nat
  BY FS_CardinalityType DEF AdmissionConstants
<1>2. ASSUME NEW S \in SUBSET Checker
      PROVE  IsFiniteSet(S) /\ Cardinality(S) \in Nat /\ Cardinality(S) =< Cardinality(Checker)
  <2>1. IsFiniteSet(S) /\ Cardinality(S) =< Cardinality(Checker)
    BY FS_Subset DEF AdmissionConstants
  <2>2. QED
    BY <2>1, FS_CardinalityType
<1>3. QED
  BY <1>1, <1>2

\* The strictest of some policies is one of them.
LEMMA StrictestPolicy ==
    ASSUME AdmissionConstants, NEW ps \in SUBSET Policies, ps # {}
    PROVE  Strictest(ps) \in OverloadPolicies
<1>1. Priority("block") = 3 /\ Priority("drop_new") = 1 /\ Priority("evict_oldest") = 0
  BY DEF Priority
<1>2. ps \subseteq OverloadPolicies
  BY DEF AdmissionConstants, OverloadPolicies
<1>3. \E p \in ps : \A q \in ps : Priority(q) =< Priority(p)
  <2>1. CASE "block" \in ps
    BY <1>1, <1>2, <2>1 DEF OverloadPolicies
  <2>2. CASE "block" \notin ps /\ "drop_new" \in ps
    BY <1>1, <1>2, <2>2 DEF OverloadPolicies
  <2>3. CASE "block" \notin ps /\ "drop_new" \notin ps
    <3>1. ps = {"evict_oldest"}
      BY <1>2, <2>3 DEF OverloadPolicies
    <3>2. QED
      BY <1>1, <3>1
  <2>4. QED
    BY <2>1, <2>2, <2>3
<1>4. Strictest(ps) \in ps
  BY <1>3 DEF Strictest
<1>5. QED
  BY <1>2, <1>4

\* One producer moves to w.
LEMMA OneProducer ==
    ASSUME ProducersTyped, NEW c \in Checker, NEW w \in Work, w.step # "free" => w.result \in Result,
           producer' = [producer EXCEPT ![c] = w]
    PROVE  ProducersTyped'
<1>1. producer' \in [Checker -> Work]
  BY DEF ProducersTyped
<1>2. ASSUME NEW k \in Checker, producer'[k].step # "free" PROVE producer'[k].result \in Result
  BY <1>2 DEF ProducersTyped
<1>3. QED
  BY <1>1, <1>2 DEF ProducersTyped

LEMMA AppendingStays ==
    ASSUME ProducersTyped, NEW c \in Checker, NEW w, w.step # "append", ~ProducerAt(c, "append"),
           producer' = [producer EXCEPT ![c] = w]
    PROVE  Appending' = Appending
BY DEF ProducersTyped, ProducerAt, Appending

LEMMA AppendingJoins ==
    ASSUME AdmissionConstants, ProducersTyped, NEW c \in Checker, NEW w, w.step = "append",
           ~ProducerAt(c, "append"), producer' = [producer EXCEPT ![c] = w]
    PROVE  Cardinality(Appending') = Cardinality(Appending) + 1 /\ Appending' \in SUBSET Checker
<1>1. Appending' = Appending \cup {c} /\ c \notin Appending /\ Appending \in SUBSET Checker
  BY DEF ProducersTyped, ProducerAt, Appending
<1>2. IsFiniteSet(Appending)
  BY <1>1, CheckersCounted
<1>3. Cardinality(Appending \cup {c}) = Cardinality(Appending) + 1
  BY <1>1, <1>2, FS_AddElement
<1>4. QED
  BY <1>1, <1>3

LEMMA AppendingLeaves ==
    ASSUME AdmissionConstants, ProducersTyped, NEW c \in Checker, NEW w, w.step # "append",
           ProducerAt(c, "append"), producer' = [producer EXCEPT ![c] = w]
    PROVE  Cardinality(Appending') = Cardinality(Appending) - 1
<1>1. Appending' = Appending \ {c} /\ c \in Appending /\ Appending \in SUBSET Checker
  BY DEF ProducersTyped, ProducerAt, Appending
<1>2. IsFiniteSet(Appending)
  BY <1>1, CheckersCounted
<1>3. Cardinality(Appending \ {c}) = Cardinality(Appending) - 1
  BY <1>1, <1>2, FS_RemoveElement
<1>4. QED
  BY <1>1, <1>3

\* Nothing of the shutdown is at stake while the producers still run.
LEMMA BeforeTheDrain ==
    ASSUME StagesTyped, Drained, ~(orderly /\ ConsumersCancelled), UNCHANGED <<held, writer, stage, orderly>>
    PROVE  Drained' /\ StagesTyped'
<1>1. StagesTyped' /\ (ConsumersCancelled <=> ConsumersCancelled')
  BY DEF StagesTyped, ConsumersCancelled
<1>2. /\ \A w \in Writer : writer'[w] # "running" => ConsumersCancelled'
      /\ \A w \in Writer : writer'[w] = "over" => held'[w] = {}
  BY <1>1 DEF Drained
<1>3. orderly' => \A w \in Writer : writer'[w] # "over"
  BY DEF Drained
<1>4. stage' = "exited" /\ orderly' => \A w \in Writer : writer'[w] = "over"
  BY DEF Drained
<1>5. QED
  BY <1>1, <1>2, <1>3, <1>4 DEF Drained

\* A producer that is at work shows that they do.
LEMMA ProducersRun ==
    ASSUME Drained, NEW c \in Checker, ~ProducerAt(c, "free")
    PROVE  ~(orderly /\ ConsumersCancelled)
BY DEF Drained, AllFree

-----------------------------------------------------------------------------
(* The steps of a producer.                                                *)

\* A step of a producer that neither joins nor leaves those about to append.
LEMMA ProducerElsewhere ==
    ASSUME AdmissionConstants, AdmissionInv, NEW c \in Checker, NEW w \in Work,
           producer' = [producer EXCEPT ![c] = w], w.step # "free" => w.result \in Result,
           ~ProducerAt(c, "append"), w.step # "append", ~(orderly /\ ConsumersCancelled),
           UNCHANGED <<streamed, held, writer, unchecked, stage, orderly>>, ResultsTyped'
    PROVE  AdmissionInv'
<1>1. ProducersTyped' /\ Appending' = Appending
  BY OneProducer, AppendingStays DEF AdmissionInv
<1>2. RoomKept'
  BY <1>1 DEF AdmissionInv, RoomKept
<1>3. StagesTyped' /\ Drained'
  BY BeforeTheDrain DEF AdmissionInv
<1>4. QED
  BY <1>1, <1>2, <1>3 DEF AdmissionInv

\* A producer gets its place: the stream was not full, or the append counts as
\* unchecked.
LEMMA ProducerJoins ==
    ASSUME AdmissionConstants, AdmissionInv, NEW c \in Checker, NEW w \in Work,
           producer' = [producer EXCEPT ![c] = w], w.result \in Result, w.step = "append",
           ~ProducerAt(c, "append"), ~ProducerAt(c, "free"),
           UNCHANGED <<streamed, queued, held, writer, stored, dropped, evicted, stage, orderly>>,
           \/ ~Full /\ unchecked' = unchecked
           \/ unchecked' = unchecked + 1
    PROVE  AdmissionInv'
<1>1. /\ ProducersTyped' /\ Cardinality(Appending') = Cardinality(Appending) + 1
      /\ Appending' \in SUBSET Checker
  BY OneProducer, AppendingJoins DEF AdmissionInv
<1>2. Appending \in SUBSET Checker
  BY DEF Appending
<1>3. /\ Cardinality(Appending') \in Nat /\ Cardinality(Appending') =< Cardinality(Checker)
      /\ Cardinality(Checker) \in Nat /\ Cardinality(Appending) \in Nat
  BY <1>1, <1>2, CheckersCounted
<1>4. StreamCap \in Nat /\ unchecked \in Nat /\ Len(streamed) \in Nat
  BY LenProperties DEF AdmissionConstants, AdmissionInv, ResultsTyped
<1>5. RoomKept'
  <2>1. Len(streamed) + Cardinality(Appending) =< StreamCap + Cardinality(Checker) - 1 + unchecked
    BY DEF AdmissionInv, RoomKept
  <2>2. CASE ~Full /\ unchecked' = unchecked
    <3>1. Len(streamed) < StreamCap
      BY <1>4, <2>2 DEF Full
    <3>2. Len(streamed') + Cardinality(Appending') =< StreamCap + Cardinality(Checker) - 1 + unchecked'
      BY <1>3, <1>4, <2>2, <3>1
    <3>3. QED
      BY <3>2 DEF RoomKept
  <2>3. CASE unchecked' = unchecked + 1
    <3>1. Len(streamed') + Cardinality(Appending') =< StreamCap + Cardinality(Checker) - 1 + unchecked'
      BY <1>1, <1>3, <1>4, <2>1, <2>3
    <3>2. QED
      BY <3>1 DEF RoomKept
  <2>4. QED
    BY <2>2, <2>3
<1>6. ResultsTyped'
  BY <1>4 DEF AdmissionInv, ResultsTyped
<1>7. StagesTyped' /\ Drained'
  BY ProducersRun, BeforeTheDrain DEF AdmissionInv
<1>8. QED
  BY <1>1, <1>5, <1>6, <1>7 DEF AdmissionInv

\* States of a producer.
LEMMA ProducerStates ==
    ASSUME ProducersTyped, NEW c \in Checker,
           NEW step \in {"free", "measure", "append", "again", "memory"}
    PROVE  LET w == [producer[c] EXCEPT !.step = step]
           IN  /\ w \in Work /\ w.step = step /\ w.result = producer[c].result
               /\ ProducerTo(c, step) => producer' = [producer EXCEPT ![c] = w]
BY DEF ProducersTyped, Work, ProducerTo

LEMMA NoWorkState == NoWork \in Work /\ NoWork.step = "free"
BY DEF NoWork, Work, OverloadPolicies

LEMMA ProduceKeeps ==
    ASSUME AdmissionConstants, AdmissionInv, NEW c \in Checker, NEW r \in Result,
           NEW ps \in SUBSET Policies, ps # {}, Produce(c, r, ps), stage # "exited"
    PROVE  AdmissionInv'
<1> DEFINE step == IF streamReady THEN "measure" ELSE "memory"
           w == [step |-> step, result |-> r, policy |-> Strictest(ps)]
<1>1. step \in {"measure", "memory"}
  OBVIOUS
<1>2. /\ producer' = [producer EXCEPT ![c] = w] /\ ProducerAt(c, "free")
      /\ stage \in {"up", "producers"} \/ ~orderly
      /\ UNCHANGED <<streamed, queued, held, writer, stored, dropped, evicted, unchecked, stage, orderly>>
  BY DEF Produce
<1> HIDE DEF step
<1>3. w \in Work /\ w.step = step /\ w.result = r
  BY <1>1, StrictestPolicy DEF Work
<1> HIDE DEF w
<1>4. ~(orderly /\ ConsumersCancelled) /\ ~ProducerAt(c, "append")
  BY <1>2 DEF ConsumersCancelled, ProducerAt
<1>5. ResultsTyped'
  BY <1>2 DEF AdmissionInv, ResultsTyped
<1>6. QED
  BY <1>1, <1>2, <1>3, <1>4, <1>5, ProducerElsewhere

LEMMA MeasureKeeps ==
    ASSUME AdmissionConstants, AdmissionInv, NEW c \in Checker, Measure(c)
    PROVE  AdmissionInv'
<1>1. /\ ProducerAt(c, "measure") /\ ProducersTyped
      /\ UNCHANGED <<streamed, queued, held, writer, stored, evicted, stage, orderly>>
  BY DEF Measure, AdmissionInv
<1>2. ~ProducerAt(c, "append") /\ ~ProducerAt(c, "free") /\ producer[c].result \in Result
  BY <1>1 DEF ProducerAt, ProducersTyped
<1>3. ~(orderly /\ ConsumersCancelled)
  BY <1>2, ProducersRun DEF AdmissionInv
<1>4. CASE /\ ProducerTo(c, "append") /\ dropped' = dropped
           /\ \/ ~Full /\ unchecked' = unchecked
              \/ unchecked' = unchecked + 1
  <2> DEFINE w == [producer[c] EXCEPT !.step = "append"]
  <2>1. w \in Work /\ w.step = "append" /\ w.result = producer[c].result /\ producer' = [producer EXCEPT ![c] = w]
    BY <1>1, <1>4, ProducerStates
  <2> HIDE DEF w
  <2>2. QED
    BY <1>1, <1>2, <1>4, <2>1, ProducerJoins
<1>5. CASE dropped' = dropped \cup {producer[c].result} /\ Released(c) /\ unchecked' = unchecked
  <2>1. ResultsTyped'
    BY <1>1, <1>2, <1>5 DEF AdmissionInv, ResultsTyped
  <2>2. producer' = [producer EXCEPT ![c] = NoWork]
    BY <1>5 DEF Released
  <2>3. QED
    BY <1>1, <1>2, <1>3, <1>5, <2>1, <2>2, NoWorkState, ProducerElsewhere
<1>6. CASE ProducerTo(c, "again") /\ dropped' = dropped /\ unchecked' = unchecked
  <2> DEFINE w == [producer[c] EXCEPT !.step = "again"]
  <2>1. w \in Work /\ w.step = "again" /\ w.result = producer[c].result /\ producer' = [producer EXCEPT ![c] = w]
    BY <1>1, <1>6, ProducerStates
  <2> HIDE DEF w
  <2>2. ResultsTyped'
    BY <1>1, <1>6 DEF AdmissionInv, ResultsTyped
  <2>3. QED
    BY <1>1, <1>2, <1>3, <1>6, <2>1, <2>2, ProducerElsewhere
<1>7. QED
  BY <1>4, <1>5, <1>6 DEF Measure

\* XADD lengthens the stream by one entry at most.
LEMMA ExtendLength ==
    ASSUME AdmissionConstants, ResultsTyped, NEW c \in Checker, NEW trim \in BOOLEAN,
           producer[c].result \in Result, Extend(c, trim)
    PROVE  streamed' \in Seq(Result) /\ Len(streamed') =< Len(streamed) + 1 /\ evicted' \subseteq Result
<1> DEFINE all == Append(streamed, producer[c].result)
           excess == IF producer[c].policy = "evict_oldest" /\ trim /\ Len(all) > StreamCap
                     THEN Len(all) - StreamCap ELSE 0
           rest == SubSeq(all, excess + 1, Len(all))
           cut == {all[i] : i \in 1..excess}
<1>1. streamed' = rest /\ evicted' = evicted \cup cut
  BY DEF Extend, Kept
<1>2. all \in Seq(Result) /\ Len(all) = Len(streamed) + 1 /\ Len(streamed) \in Nat
  BY AppendProperties, LenProperties DEF ResultsTyped
<1> HIDE DEF all
<1>3. Len(all) \in Nat /\ StreamCap \in Nat
  BY <1>2 DEF AdmissionConstants
<1>4. excess \in 0..Len(all)
  <2>1. CASE producer[c].policy = "evict_oldest" /\ trim /\ Len(all) > StreamCap
    BY <1>3, <2>1
  <2>2. CASE ~(producer[c].policy = "evict_oldest" /\ trim /\ Len(all) > StreamCap)
    BY <1>3, <2>2
  <2>3. QED
    BY <2>1, <2>2
<1> HIDE DEF excess
<1>5. rest \in Seq(Result) /\ Len(rest) =< Len(all)
  <2>1. excess + 1 \in 1..Len(all) + 1 /\ Len(all) \in excess..Len(all)
    BY <1>3, <1>4
  <2>2. \A i \in (excess + 1)..Len(all) : all[i] \in Result
    BY <1>2, <1>4, ElementOfSeq
  <2>3. rest \in Seq(Result) /\ Len(rest) = IF excess + 1 =< Len(all) THEN Len(all) - (excess + 1) + 1 ELSE 0
    BY <1>2, <1>3, <1>4, <2>2, SubSeqProperties
  <2>4. QED
    BY <1>3, <1>4, <2>3
<1>6. cut \subseteq Result
  BY <1>2, <1>3, <1>4, ElementOfSeq
<1> HIDE DEF rest, cut
<1>7. QED
  BY <1>1, <1>2, <1>5, <1>6 DEF ResultsTyped

\* A producer gives up its place, with or without an entry in the stream.
LEMMA ProducerLeaves ==
    ASSUME AdmissionConstants, AdmissionInv, NEW c \in Checker, NEW w \in Work,
           producer' = [producer EXCEPT ![c] = w], w.step # "free" => w.result \in Result,
           ProducerAt(c, "append"), w.step # "append",
           UNCHANGED <<queued, held, writer, stored, dropped, unchecked, stage, orderly>>,
           \/ UNCHANGED <<streamed, evicted>>
           \/ \E trim \in BOOLEAN : Extend(c, trim)
    PROVE  AdmissionInv'
<1>1. ProducersTyped' /\ Cardinality(Appending') = Cardinality(Appending) - 1
  BY OneProducer, AppendingLeaves DEF AdmissionInv
<1>2. /\ ResultsTyped /\ producer[c].result \in Result /\ ~ProducerAt(c, "free")
      /\ Len(streamed) \in Nat
  BY LenProperties DEF AdmissionInv, ProducersTyped, ProducerAt, ResultsTyped
<1>3. streamed' \in Seq(Result) /\ Len(streamed') =< Len(streamed) + 1 /\ evicted' \subseteq Result
  <2>1. CASE UNCHANGED <<streamed, evicted>>
    BY <1>2, <2>1 DEF ResultsTyped
  <2>2. CASE \E trim \in BOOLEAN : Extend(c, trim)
    BY <1>2, <2>2, ExtendLength
  <2>3. QED
    BY <2>1, <2>2
<1>4. RoomKept'
  <2>1. Appending \in SUBSET Checker
    BY DEF Appending
  <2>2. /\ Cardinality(Appending) \in Nat /\ Cardinality(Checker) \in Nat
        /\ StreamCap \in Nat /\ unchecked \in Nat /\ Len(streamed') \in Nat
    BY <1>2, <1>3, <2>1, CheckersCounted, LenProperties DEF ResultsTyped, AdmissionConstants
  <2>3. Len(streamed) + Cardinality(Appending) =< StreamCap + Cardinality(Checker) - 1 + unchecked
    BY DEF AdmissionInv, RoomKept
  <2>4. Len(streamed') + Cardinality(Appending') =< StreamCap + Cardinality(Checker) - 1 + unchecked'
    BY <1>1, <1>2, <1>3, <2>2, <2>3
  <2>5. QED
    BY <2>4 DEF RoomKept
<1>5. ResultsTyped'
  BY <1>2, <1>3 DEF ResultsTyped
<1>6. StagesTyped' /\ Drained'
  BY <1>2, ProducersRun, BeforeTheDrain DEF AdmissionInv
<1>7. QED
  BY <1>1, <1>4, <1>5, <1>6 DEF AdmissionInv

LEMMA XAddKeeps ==
    ASSUME AdmissionConstants, AdmissionInv, NEW c \in Checker, XAdd(c)
    PROVE  AdmissionInv'
<1>1. /\ ProducerAt(c, "append") /\ producer' = [producer EXCEPT ![c] = NoWork]
      /\ UNCHANGED <<queued, held, writer, stored, dropped, unchecked, stage, orderly>>
      /\ \E trim \in BOOLEAN : Extend(c, trim)
  BY DEF XAdd, Released
<1>2. QED
  BY <1>1, NoWorkState, ProducerLeaves

LEMMA XAddFailsKeeps ==
    ASSUME AdmissionConstants, AdmissionInv, NEW c \in Checker, XAddFails(c)
    PROVE  AdmissionInv'
<1> DEFINE step == IF producer[c].policy = "block" THEN "again" ELSE "memory"
           w == [producer[c] EXCEPT !.step = step]
<1>1. /\ ProducerAt(c, "append") /\ ProducerTo(c, step)
      /\ UNCHANGED <<queued, held, writer, stored, dropped, unchecked, stage, orderly>>
      /\ UNCHANGED <<streamed, evicted>> \/ \E trim \in BOOLEAN : Extend(c, trim)
  BY DEF XAddFails
<1>2. step \in {"again", "memory"} /\ step \in {"free", "measure", "append", "again", "memory"}
  OBVIOUS
<1> HIDE DEF step
<1>3. ProducersTyped /\ producer[c].result \in Result
  BY <1>1 DEF AdmissionInv, ProducersTyped, ProducerAt
<1>4. w \in Work /\ w.step = step /\ w.result = producer[c].result /\ producer' = [producer EXCEPT ![c] = w]
  BY <1>1, <1>2, <1>3, ProducerStates
<1> HIDE DEF w
<1>5. QED
  BY <1>1, <1>2, <1>3, <1>4, ProducerLeaves

\* The rest of a producer's steps.
LEMMA FallbackKeeps ==
    ASSUME AdmissionConstants, AdmissionInv, NEW c \in Checker,
           TryAgain(c) \/ Enqueue(c) \/ DropNew(c)
    PROVE  AdmissionInv'
<1>1. /\ producer[c].step \in {"again", "memory"} /\ ProducersTyped
      /\ UNCHANGED <<streamed, held, writer, stored, evicted, unchecked, stage, orderly>>
  BY DEF TryAgain, Enqueue, DropNew, ProducerAt, AdmissionInv
<1>2. ~ProducerAt(c, "append") /\ ~ProducerAt(c, "free") /\ producer[c].result \in Result
  BY <1>1 DEF ProducerAt, ProducersTyped
<1>3. ~(orderly /\ ConsumersCancelled)
  BY <1>2, ProducersRun DEF AdmissionInv
<1>4. CASE TryAgain(c)
  <2>1. PICK step \in {"measure", "memory"} : ProducerTo(c, step)
    BY <1>4 DEF TryAgain
  <2> DEFINE w == [producer[c] EXCEPT !.step = step]
  <2>s. step \in {"free", "measure", "append", "again", "memory"}
    OBVIOUS
  <2>2. w \in Work /\ w.step = step /\ w.result = producer[c].result /\ producer' = [producer EXCEPT ![c] = w]
    BY <1>1, <2>1, <2>s, ProducerStates
  <2> HIDE DEF w
  <2>3. ResultsTyped'
    BY <1>4 DEF TryAgain, AdmissionInv, ResultsTyped
  <2>4. QED
    BY <1>1, <1>2, <1>3, <2>2, <2>3, ProducerElsewhere
<1>5. CASE Enqueue(c) \/ DropNew(c)
  <2>1. producer' = [producer EXCEPT ![c] = NoWork]
    BY <1>5 DEF Enqueue, DropNew, Released
  <2>2. ResultsTyped'
    <3>1. CASE Enqueue(c)
      <4>1. queued' = Append(queued, producer[c].result) /\ Len(queued) < QueueCap /\ dropped' = dropped
        BY <3>1 DEF Enqueue
      <4>2. queued \in Seq(Result) /\ QueueCap \in Nat /\ Len(queued) \in Nat
        BY LenProperties DEF AdmissionInv, ResultsTyped, AdmissionConstants
      <4>3. queued' \in Seq(Result) /\ Len(queued') = Len(queued) + 1
        BY <1>2, <4>1, <4>2, AppendProperties
      <4>4. Len(queued') =< QueueCap
        BY <4>1, <4>2, <4>3
      <4>5. QED
        BY <1>1, <4>1, <4>3, <4>4 DEF AdmissionInv, ResultsTyped
    <3>2. CASE DropNew(c)
      BY <1>1, <1>2, <3>2 DEF DropNew, AdmissionInv, ResultsTyped
    <3>3. QED
      BY <1>5, <3>1, <3>2
  <2>3. QED
    BY <1>1, <1>2, <1>3, <2>1, <2>2, NoWorkState, ProducerElsewhere
<1>6. QED
  BY <1>4, <1>5

-----------------------------------------------------------------------------
(* The stream, the workers of the memory queue and the shutdown.           *)

LEMMA StreamStepKeeps ==
    ASSUME AdmissionConstants, AdmissionInv, StreamBecomesReady \/ StreamConsumed
    PROVE  AdmissionInv'
<1>1. UNCHANGED <<queued, held, writer, dropped, evicted, producer, unchecked, stage, orderly>>
  BY DEF StreamBecomesReady, StreamConsumed
<1>2. ProducersTyped' /\ StagesTyped' /\ Drained' /\ Appending' = Appending
  BY <1>1 DEF AdmissionInv, ProducersTyped, StagesTyped, Drained, AllFree, ProducerAt, ConsumersCancelled, Appending
<1>3. Len(streamed) \in Nat /\ streamed \in Seq(Result)
  BY LenProperties DEF AdmissionInv, ResultsTyped
<1>4. /\ streamed' \in Seq(Result) /\ Len(streamed') \in Nat /\ Len(streamed') =< Len(streamed)
      /\ stored' \subseteq Result
  <2>1. CASE StreamBecomesReady
    BY <1>3, <2>1 DEF StreamBecomesReady, AdmissionInv, ResultsTyped
  <2>2. CASE StreamConsumed
    <3>1. Head(streamed) \in Result /\ Tail(streamed) \in Seq(Result) /\ Len(Tail(streamed)) = Len(streamed) - 1
      BY <1>3, <2>2, HeadTailProperties DEF StreamConsumed
    <3>2. Len(Tail(streamed)) \in Nat
      BY <3>1, LenProperties
    <3>3. QED
      BY <1>3, <2>2, <3>1, <3>2 DEF StreamConsumed, AdmissionInv, ResultsTyped
  <2>3. QED
    BY <2>1, <2>2
<1>5. ResultsTyped'
  BY <1>1, <1>4 DEF AdmissionInv, ResultsTyped
<1>6. RoomKept'
  <2>1. Appending \in SUBSET Checker
    BY DEF Appending
  <2>2. Cardinality(Appending) \in Nat /\ Cardinality(Checker) \in Nat /\ StreamCap \in Nat /\ unchecked \in Nat
    BY <2>1, CheckersCounted DEF AdmissionInv, ResultsTyped, AdmissionConstants
  <2>3. Len(streamed) + Cardinality(Appending) =< StreamCap + Cardinality(Checker) - 1 + unchecked
    BY DEF AdmissionInv, RoomKept
  <2>4. Len(streamed') + Cardinality(Appending') =< StreamCap + Cardinality(Checker) - 1 + unchecked'
    BY <1>1, <1>2, <1>3, <1>4, <2>2, <2>3
  <2>5. QED
    BY <2>4 DEF RoomKept
<1>7. QED
  BY <1>2, <1>5, <1>6 DEF AdmissionInv

\* Steps that leave the producers and the stream alone.
LEMMA BesideProducers ==
    ASSUME AdmissionInv, UNCHANGED <<streamed, producer, unchecked>>
    PROVE  ProducersTyped' /\ RoomKept' /\ (AllFree' <=> AllFree)
BY DEF AdmissionInv, ProducersTyped, RoomKept, Appending, AllFree, ProducerAt

LEMMA ReceiveKeeps ==
    ASSUME AdmissionConstants, AdmissionInv, NEW w \in Writer, Receive(w)
    PROVE  AdmissionInv'
<1>1. /\ writer[w] # "over" /\ queued # <<>> /\ queued' = Tail(queued)
      /\ held' = [held EXCEPT ![w] = @ \cup {Head(queued)}]
      /\ UNCHANGED <<streamed, writer, stored, dropped, evicted, producer, unchecked, stage, orderly>>
  BY DEF Receive
<1>2. queued \in Seq(Result) /\ Len(queued) \in Nat /\ Len(queued) =< QueueCap /\ QueueCap \in Nat
  BY LenProperties DEF AdmissionInv, ResultsTyped, AdmissionConstants
<1>3. /\ Head(queued) \in Result /\ queued' \in Seq(Result) /\ Len(queued') = Len(queued) - 1
  BY <1>1, <1>2, HeadTailProperties
<1>4. Len(queued') =< QueueCap
  BY <1>2, <1>3
<1>5. ResultsTyped' /\ StagesTyped'
  BY <1>1, <1>3, <1>4 DEF AdmissionInv, ResultsTyped, StagesTyped
<1>6. ProducersTyped' /\ RoomKept' /\ (AllFree' <=> AllFree)
  BY <1>1, BesideProducers
<1>7. Drained'
  <2>1. \A v \in Writer : writer[v] = "over" => held'[v] = {}
    BY <1>1 DEF AdmissionInv, Drained, ResultsTyped
  <2>2. orderly => \A v \in Writer : writer[v] # "over"
    BY <1>1 DEF AdmissionInv, Drained
  <2>3. QED
    BY <1>1, <1>6, <2>1, <2>2 DEF AdmissionInv, Drained, ConsumersCancelled
<1>8. QED
  BY <1>5, <1>6, <1>7 DEF AdmissionInv

LEMMA FlushKeeps ==
    ASSUME AdmissionConstants, AdmissionInv, NEW w \in Writer, FlushHeld(w) \/ FlushHeldFails(w)
    PROVE  AdmissionInv'
<1>1. /\ UNCHANGED <<streamed, queued, writer, dropped, evicted, producer, unchecked, stage, orderly>>
      /\ stored' \in {stored, stored \cup held[w]} /\ held' \in {held, [held EXCEPT ![w] = {}]}
  BY DEF FlushHeld, FlushHeldFails
<1>2. ResultsTyped' /\ StagesTyped'
  BY <1>1 DEF AdmissionInv, ResultsTyped, StagesTyped
<1>3. ProducersTyped' /\ RoomKept' /\ (AllFree' <=> AllFree)
  BY <1>1, BesideProducers
<1>4. \A v \in Writer : held[v] = {} => held'[v] = {}
  BY <1>1 DEF AdmissionInv, ResultsTyped
<1>5. Drained'
  BY <1>1, <1>3, <1>4 DEF AdmissionInv, Drained, ConsumersCancelled
<1>6. QED
  BY <1>2, <1>3, <1>5 DEF AdmissionInv

LEMMA WriterEndsKeeps ==
    ASSUME AdmissionConstants, AdmissionInv, NEW w \in Writer, WriterCancelled(w) \/ WriterDrained(w)
    PROVE  AdmissionInv'
<1>1. UNCHANGED <<streamed, queued, held, stored, dropped, evicted, producer, unchecked, stage, orderly>>
  BY DEF WriterCancelled, WriterDrained
<1>2. ResultsTyped'
  BY <1>1 DEF AdmissionInv, ResultsTyped
<1>3. ProducersTyped' /\ RoomKept' /\ (AllFree' <=> AllFree)
  BY <1>1, BesideProducers
<1>4. StagesTyped' /\ \A v \in Writer \ {w} : writer'[v] = writer[v]
  BY <1>1 DEF WriterCancelled, WriterDrained, AdmissionInv, StagesTyped
<1>5. ConsumersCancelled /\ (ConsumersCancelled' <=> ConsumersCancelled)
  BY <1>1 DEF WriterCancelled, WriterDrained, AdmissionInv, Drained, ConsumersCancelled
<1>6. CASE WriterCancelled(w)
  <2>1. writer[w] = "running" /\ writer'[w] = "draining"
    BY <1>6 DEF WriterCancelled, AdmissionInv, StagesTyped
  <2>2. Drained'
    BY <1>1, <1>3, <1>4, <1>5, <2>1 DEF AdmissionInv, Drained
  <2>3. QED
    BY <1>2, <1>3, <1>4, <2>2 DEF AdmissionInv
<1>7. CASE WriterDrained(w)
  <2>1. writer'[w] = "over" /\ held[w] = {} /\ queued = <<>>
    BY <1>7 DEF WriterDrained, AdmissionInv, StagesTyped
  <2>2. Drained'
    BY <1>1, <1>3, <1>4, <1>5, <2>1 DEF AdmissionInv, Drained
  <2>3. QED
    BY <1>2, <1>3, <1>4, <2>2 DEF AdmissionInv
<1>8. QED
  BY <1>6, <1>7

\* Runtime.Shutdown.
LEMMA ShutdownKeeps ==
    ASSUME AdmissionConstants, AdmissionInv, stage # "exited", StopProducers \/ StopConsumers \/ Exit
    PROVE  AdmissionInv'
<1>1. UNCHANGED <<streamed, queued, held, writer, stored, dropped, evicted, producer, unchecked>>
  BY DEF StopProducers, StopConsumers, Exit
<1>2. ResultsTyped'
  BY <1>1 DEF AdmissionInv, ResultsTyped
<1>3. ProducersTyped' /\ RoomKept' /\ (AllFree' <=> AllFree)
  BY <1>1, BesideProducers
<1>4. StagesTyped'
  BY <1>1 DEF StopProducers, StopConsumers, Exit, AdmissionInv, StagesTyped
<1>5. ASSUME stage \in {"up", "producers"}, NEW w \in Writer PROVE writer[w] = "running"
  BY <1>5 DEF AdmissionInv, Drained, ConsumersCancelled
<1>6. CASE StopProducers
  <2>1. Drained'
    BY <1>1, <1>5, <1>6 DEF StopProducers, Drained, ConsumersCancelled
  <2>2. QED
    BY <1>2, <1>3, <1>4, <2>1 DEF AdmissionInv
<1>7. CASE StopConsumers
  <2>1. stage = "producers" /\ stage' = "consumers" /\ (orderly' => AllFree)
    BY <1>7 DEF StopConsumers
  <2>2. Drained'
    BY <1>1, <1>3, <1>5, <2>1 DEF Drained, ConsumersCancelled
  <2>3. QED
    BY <1>2, <1>3, <1>4, <2>2 DEF AdmissionInv
<1>8. CASE Exit
  <2>1. /\ stage = "consumers" /\ stage' = "exited"
        /\ orderly' => orderly /\ \A w \in Writer : writer[w] = "over"
    BY <1>8 DEF Exit
  <2>2. Drained'
    BY <1>1, <1>3, <2>1 DEF AdmissionInv, Drained, ConsumersCancelled
  <2>3. QED
    BY <1>2, <1>3, <1>4, <2>2 DEF AdmissionInv
<1>9. QED
  BY <1>6, <1>7, <1>8

-----------------------------------------------------------------------------
LEMMA AdmissionInvInit ==
    ASSUME AdmissionConstants, AdmissionInit
    PROVE  AdmissionInv
<1>1. ProducersTyped /\ StagesTyped /\ Drained
  BY NoWorkState DEF AdmissionInit, ProducersTyped, StagesTyped, Drained, ConsumersCancelled
<1>2. ResultsTyped
  BY EmptySeq DEF AdmissionInit, ResultsTyped, AdmissionConstants
<1>3. RoomKept
  <2>1. Appending = {}
    BY NoWorkState DEF AdmissionInit, Appending
  <2>2. Cardinality(Appending) = 0 /\ Len(streamed) = 0 /\ unchecked = 0
    BY <2>1, FS_EmptySet, EmptySeq DEF AdmissionInit
  <2>3. Cardinality(Checker) \in Nat /\ StreamCap \in Nat \ {0}
    BY CheckersCounted DEF AdmissionConstants
  <2>4. QED
    BY <2>2, <2>3 DEF RoomKept
<1>4. QED
  BY <1>1, <1>2, <1>3 DEF AdmissionInv

LEMMA AdmissionInvStep ==
    ASSUME AdmissionConstants, AdmissionInv, [AdmissionNext]_admissionVars
    PROVE  AdmissionInv'
<1>1. CASE UNCHANGED admissionVars
  BY <1>1 DEF admissionVars, AdmissionInv, ProducersTyped, ResultsTyped, StagesTyped, Drained, RoomKept,
     Appending, AllFree, ProducerAt, ConsumersCancelled
<1>2. CASE AdmissionNext
  <2>1. ASSUME NEW c \in Checker, NEW r \in Result, NEW ps \in SUBSET Policies, ps # {}, Produce(c, r, ps)
        PROVE  AdmissionInv'
    BY <1>2, <2>1, ProduceKeeps DEF AdmissionNext
  <2>2. ASSUME NEW c \in Checker,
               Measure(c) \/ XAdd(c) \/ XAddFails(c) \/ TryAgain(c) \/ Enqueue(c) \/ DropNew(c)
        PROVE  AdmissionInv'
    BY <2>2, MeasureKeeps, XAddKeeps, XAddFailsKeeps, FallbackKeeps
  <2>3. CASE StreamBecomesReady \/ StreamConsumed
    BY <2>3, StreamStepKeeps
  <2>4. ASSUME NEW w \in Writer,
               Receive(w) \/ FlushHeld(w) \/ FlushHeldFails(w) \/ WriterCancelled(w) \/ WriterDrained(w)
        PROVE  AdmissionInv'
    BY <2>4, ReceiveKeeps, FlushKeeps, WriterEndsKeeps
  <2>5. CASE StopProducers \/ StopConsumers \/ Exit
    BY <1>2, <2>5, ShutdownKeeps DEF AdmissionNext
  <2>6. QED
    BY <1>2, <2>1, <2>2, <2>3, <2>4, <2>5 DEF AdmissionNext
<1>3. QED
  BY <1>1, <1>2

\* For every number of producers, workers and results: when no stage of the
\* shutdown ran into its deadline, memory holds no accepted result at the exit
\* (OrderlyExitLosesNothing), and the stream never exceeds its cap by more than
\* the producers that had checked it and the appends that no check preceded
\* (StreamNearCap).  proxy_statistics.go, lifecycle.go.
THEOREM AdmittedResultsKept ==
    ASSUME AdmissionConstants PROVE AdmissionSpec => []AdmissionBounded
<1>1. AdmissionInit => AdmissionInv
  BY AdmissionInvInit
<1>2. AdmissionInv /\ [AdmissionNext]_admissionVars => AdmissionInv'
  BY AdmissionInvStep
<1>3. AdmissionInv => OrderlyExitLosesNothing
  <2>1. SUFFICES ASSUME AdmissionInv, stage = "exited", orderly
                 PROVE  queued = <<>> /\ AllFree /\ \A w \in Writer : held[w] = {}
    BY DEF OrderlyExitLosesNothing
  <2>2. AllFree /\ \A w \in Writer : writer[w] = "over"
    BY <2>1 DEF AdmissionInv, Drained, ConsumersCancelled
  <2>3. \A w \in Writer : held[w] = {} /\ queued = <<>>
    BY <2>1, <2>2 DEF AdmissionInv, Drained
  <2>4. queued = <<>>
    BY <2>3 DEF AdmissionConstants
  <2>5. QED
    BY <2>2, <2>3, <2>4
<1>4. AdmissionInv => StreamNearCap
  <2>1. SUFFICES ASSUME AdmissionInv PROVE StreamNearCap
    OBVIOUS
  <2>2. Appending \in SUBSET Checker
    BY DEF Appending
  <2>3. /\ Cardinality(Appending) \in Nat /\ Cardinality(Checker) \in Nat
        /\ StreamCap \in Nat /\ unchecked \in Nat /\ Len(streamed) \in Nat
    BY <2>1, <2>2, CheckersCounted, LenProperties DEF AdmissionInv, ResultsTyped, AdmissionConstants
  <2>4. Len(streamed) + Cardinality(Appending) =< StreamCap + Cardinality(Checker) - 1 + unchecked
    BY <2>1 DEF AdmissionInv, RoomKept
  <2>5. Len(streamed) =< StreamCap + Cardinality(Checker) - 1 + unchecked
    BY <2>3, <2>4
  <2>6. QED
    BY <2>5 DEF StreamNearCap
<1>5. QED
  BY <1>1, <1>2, <1>3, <1>4, PTL DEF AdmissionSpec, AdmissionBounded

-----------------------------------------------------------------------------
(* Browsers: the state of the manager and of a worker.                     *)

Manager ==
    [current : 0..MaxBrowsers, starting : BOOLEAN, backoff : BOOLEAN, launched : 0..MaxBrowsers]

Fetch == [pc : {"idle", "get", "wait", "use", "stop"}, gen : 0..MaxBrowsers]

-----------------------------------------------------------------------------
(* Browsers: the inductive invariant.                                      *)

\* A launch is under way only while there is no browser it could displace.
LaunchDisplacesNone == manager.starting => manager.current = 0

\* Shutdown begins when the workers are gone, and after it there is no browser
\* and no launch.
ShutdownQuiet ==
    /\ shutdown # "no" => \A p \in Page : page[p].pc = "idle"
    /\ shutdown = "done" => manager.current = 0 /\ ~manager.starting

BrowserInv == BrowserTypeOK /\ LaunchDisplacesNone /\ ShutdownQuiet /\ NoLeakedBrowser

\* What a step of one worker leaves to show when no browser is stopped: the
\* browser that the manager drops, if any, is the one the worker will stop.
LEMMA OnePage ==
    ASSUME BrowserInv, NEW p \in Page, NEW m \in Manager, NEW f \in Fetch,
           page' = [page EXCEPT ![p] = f], page[p].pc # "stop",
           manager' = m, live' = live, shutdown' = shutdown, fetches' \in 0..MaxFetches,
           m.starting => m.current = 0,
           shutdown # "no" => f.pc = "idle" /\ m = manager,
           m.current # manager.current => m.current = 0 /\ f = [pc |-> "stop", gen |-> manager.current]
    PROVE  BrowserInv'
<1>t. page \in [Page -> Fetch] /\ manager \in Manager /\ live \subseteq 1..MaxBrowsers
  BY DEF BrowserInv, BrowserTypeOK, Manager, Fetch
<1>1. \A q \in Page : page'[q] = IF q = p THEN f ELSE page[q]
  BY <1>t
<1>2. BrowserTypeOK'
  <2>1. page' \in [Page -> Fetch] /\ manager' \in Manager
    BY <1>t
  <2>2. QED
    BY <2>1 DEF BrowserInv, BrowserTypeOK, Manager, Fetch
<1>3. LaunchDisplacesNone' /\ ShutdownQuiet'
  BY <1>1 DEF BrowserInv, LaunchDisplacesNone, ShutdownQuiet
<1>4. ASSUME NEW b \in live', b # manager'.current
      PROVE  \E q \in Page : page'[q] = [pc |-> "stop", gen |-> b]
  <2>1. CASE b = manager.current
    BY <1>1, <1>4, <2>1
  <2>2. CASE b # manager.current
    <3>1. PICK q \in Page : page[q] = [pc |-> "stop", gen |-> b]
      BY <1>4, <2>2 DEF BrowserInv, NoLeakedBrowser
    <3>2. q # p
      BY <3>1
    <3>3. QED
      BY <1>1, <3>1, <3>2
  <2>3. QED
    BY <2>1, <2>2
<1>5. QED
  BY <1>2, <1>3, <1>4 DEF BrowserInv, NoLeakedBrowser

\* A finished launch wakes the waiting workers; workers that are about to stop a
\* browser are not among them.
LEMMA WakeKeepsStops ==
    ASSUME BrowserInv, WakeWaiters
    PROVE  /\ page' \in [Page -> Fetch]
           /\ \A q \in Page : page[q].pc \in {"stop", "idle"} => page'[q] = page[q]
<1>1. page \in [Page -> Fetch]
  BY DEF BrowserInv, BrowserTypeOK, Fetch
<1>2. \A q \in Page : /\ page'[q] \in Fetch
                      /\ page[q].pc \in {"stop", "idle"} => page'[q] = page[q]
  BY <1>1 DEF WakeWaiters, Fetch
<1>3. QED
  BY <1>2 DEF WakeWaiters

-----------------------------------------------------------------------------
(* The actions.                                                            *)

LEMMA BrowserInvStep ==
    ASSUME BrowserConstants, BrowserInv, [BrowserNext]_browserVars
    PROVE  BrowserInv'
<1>c. MaxBrowsers \in Nat /\ MaxFetches \in Nat
  BY DEF BrowserConstants
<1>t. /\ page \in [Page -> Fetch] /\ manager \in Manager /\ live \subseteq 1..MaxBrowsers
      /\ fetches \in 0..MaxFetches /\ shutdown \in {"no", "close", "done"}
  BY DEF BrowserInv, BrowserTypeOK, Manager, Fetch
<1>z. 0 \in 0..MaxBrowsers
  BY <1>c
<1>l. manager.starting => manager.current = 0
  BY DEF BrowserInv, LaunchDisplacesNone
<1>1. ASSUME NEW p \in Page, AcquireSlot(p) PROVE BrowserInv'
  <2> DEFINE f == [pc |-> "get", gen |-> 0]
  <2>1. f \in Fetch
    BY <1>z DEF Fetch
  <2>2. /\ page' = [page EXCEPT ![p] = f] /\ page[p].pc = "idle" /\ shutdown = "no"
        /\ manager' = manager /\ live' = live /\ shutdown' = shutdown
    BY <1>1 DEF AcquireSlot, SetPage
  <2>3. fetches' \in 0..MaxFetches
    BY <1>1, <1>c, <1>t DEF AcquireSlot
  <2> HIDE DEF f
  <2>4. QED
    BY <1>l, <1>t, <2>1, <2>2, <2>3, OnePage
<1>2. ASSUME NEW p \in Page, GetBrowser(p) PROVE BrowserInv'
  <2>1. /\ page[p].pc = "get" /\ live' = live /\ shutdown' = shutdown /\ fetches' = fetches
    BY <1>2 DEF GetBrowser
  <2>2. shutdown = "no"
    BY <1>t, <2>1 DEF BrowserInv, ShutdownQuiet
  <2>3. CASE manager.current # 0
    <3> DEFINE f == [pc |-> "use", gen |-> manager.current]
    <3>1. f \in Fetch
      BY <1>t DEF Fetch, Manager
    <3>2. page' = [page EXCEPT ![p] = f] /\ manager' = manager
      BY <1>2, <2>3 DEF GetBrowser, SetPage
    <3> HIDE DEF f
    <3>3. QED
      BY <1>l, <1>t, <2>1, <2>2, <3>1, <3>2, OnePage
  <2>4. CASE manager.current = 0 /\ manager.backoff
    <3> DEFINE f == [pc |-> "idle", gen |-> 0]
    <3>1. f \in Fetch
      BY <1>z DEF Fetch
    <3>2. page' = [page EXCEPT ![p] = f] /\ manager' = manager
      BY <1>2, <2>4 DEF GetBrowser, SetPage
    <3> HIDE DEF f
    <3>3. QED
      BY <1>l, <1>t, <2>1, <2>2, <3>1, <3>2, OnePage
  <2>5. CASE manager.current = 0 /\ ~manager.backoff
    <3> DEFINE f == [pc |-> "wait", gen |-> 0]
               m == [manager EXCEPT !.starting = TRUE]
    <3>1. f \in Fetch
      BY <1>z DEF Fetch
    <3>2. m \in Manager /\ m.current = manager.current
      BY <1>t DEF Manager
    <3>3. page' = [page EXCEPT ![p] = f] /\ manager' = m
      BY <1>2, <2>5 DEF GetBrowser, SetPage
    <3> HIDE DEF f, m
    <3>4. QED
      BY <1>t, <2>1, <2>2, <2>5, <3>1, <3>2, <3>3, OnePage
  <2>6. QED
    BY <2>3, <2>4, <2>5
<1>3. ASSUME NEW p \in Page, GiveUpWaiting(p) \/ PageDone(p) PROVE BrowserInv'
  <2> DEFINE f == [pc |-> "idle", gen |-> 0]
  <2>1. f \in Fetch /\ f.pc = "idle"
    BY <1>z DEF Fetch
  <2>2. /\ page' = [page EXCEPT ![p] = f] /\ page[p].pc # "stop"
        /\ manager' = manager /\ live' = live /\ shutdown' = shutdown /\ fetches' = fetches
    BY <1>3 DEF GiveUpWaiting, PageDone, SetPage
  <2> HIDE DEF f
  <2>3. QED
    BY <1>l, <1>t, <2>1, <2>2, OnePage
<1>4. ASSUME NEW p \in Page, PageBreaks(p) PROVE BrowserInv'
  <2> DEFINE f == [pc |-> "stop", gen |-> page[p].gen]
             m == [manager EXCEPT !.current = IF @ = page[p].gen THEN 0 ELSE @]
  <2>1. f \in Fetch
    BY <1>t DEF Fetch
  <2>2. /\ m \in Manager /\ m.starting = manager.starting
        /\ m.current = IF manager.current = page[p].gen THEN 0 ELSE manager.current
    BY <1>t, <1>z DEF Manager
  <2>3. /\ page' = [page EXCEPT ![p] = f] /\ page[p].pc = "use" /\ manager' = m
        /\ live' = live /\ shutdown' = shutdown /\ fetches' = fetches
    BY <1>4 DEF PageBreaks, ForgetBrowser, SetPage
  <2>4. shutdown = "no"
    BY <1>t, <2>3 DEF BrowserInv, ShutdownQuiet
  <2>5. m.current # manager.current => m.current = 0 /\ f = [pc |-> "stop", gen |-> manager.current]
    BY <2>2
  <2> HIDE DEF f, m
  <2>6. QED
    BY <1>l, <1>t, <2>1, <2>2, <2>3, <2>4, <2>5, OnePage
<1>5. ASSUME NEW p \in Page, StopBroken(p) PROVE BrowserInv'
  <2>1. /\ page[p].pc = "stop" /\ live' = live \ {page[p].gen}
        /\ page' = [page EXCEPT ![p] = [pc |-> "idle", gen |-> 0]]
        /\ manager' = manager /\ shutdown' = shutdown /\ fetches' = fetches
    BY <1>5 DEF StopBroken, SetPage
  <2>2. \A q \in Page : page'[q] = IF q = p THEN [pc |-> "idle", gen |-> 0] ELSE page[q]
    BY <1>t, <2>1
  <2>3. BrowserTypeOK'
    <3>1. page' \in [Page -> Fetch]
      BY <1>t, <1>z, <2>1 DEF Fetch
    <3>2. QED
      BY <1>t, <2>1, <3>1 DEF BrowserTypeOK, Manager, Fetch
  <2>4. LaunchDisplacesNone' /\ ShutdownQuiet'
    BY <2>1, <2>2 DEF BrowserInv, LaunchDisplacesNone, ShutdownQuiet
  <2>5. ASSUME NEW b \in live', b # manager'.current
        PROVE  \E q \in Page : page'[q] = [pc |-> "stop", gen |-> b]
    <3>1. PICK q \in Page : page[q] = [pc |-> "stop", gen |-> b]
      BY <2>1, <2>5 DEF BrowserInv, NoLeakedBrowser
    <3>2. q # p
      BY <2>1, <2>5, <3>1
    <3>3. QED
      BY <2>2, <3>1, <3>2
  <2>6. QED
    BY <2>3, <2>4, <2>5 DEF BrowserInv, NoLeakedBrowser
<1>6. CASE LaunchSucceeds
  <2>1. /\ manager.starting /\ manager.launched < MaxBrowsers /\ manager.current = 0
        /\ manager' = [manager EXCEPT !.starting = FALSE, !.backoff = FALSE,
                                      !.launched = @ + 1, !.current = manager.launched + 1]
        /\ live' = live \cup {manager.launched + 1} /\ WakeWaiters
        /\ shutdown' = shutdown /\ fetches' = fetches
    BY <1>6, <1>l DEF LaunchSucceeds
  <2>2. manager.launched + 1 \in 1..MaxBrowsers
    BY <1>c, <1>t, <2>1 DEF Manager
  <2>3. manager' \in Manager /\ manager'.current = manager.launched + 1 /\ ~manager'.starting
    <3> DEFINE k == manager.launched + 1
    <3>1. k \in 0..MaxBrowsers
      BY <2>2
    <3>2. manager' = [manager EXCEPT !.starting = FALSE, !.backoff = FALSE, !.launched = k, !.current = k]
      BY <1>t, <2>1 DEF Manager
    <3> HIDE DEF k
    <3>3. manager' \in Manager /\ manager'.current = k /\ ~manager'.starting
      BY <1>t, <3>1, <3>2 DEF Manager
    <3>4. QED
      BY <3>3 DEF k
  <2>4. /\ page' \in [Page -> Fetch]
        /\ \A q \in Page : page[q].pc \in {"stop", "idle"} => page'[q] = page[q]
    BY <2>1, WakeKeepsStops
  <2>5. BrowserTypeOK'
    BY <1>t, <2>1, <2>2, <2>3, <2>4 DEF BrowserTypeOK, Manager, Fetch
  <2>6. LaunchDisplacesNone' /\ ShutdownQuiet'
    BY <2>1, <2>3, <2>4 DEF BrowserInv, LaunchDisplacesNone, ShutdownQuiet
  <2>7. ASSUME NEW b \in live', b # manager'.current
        PROVE  \E q \in Page : page'[q] = [pc |-> "stop", gen |-> b]
    <3>1. b \in live /\ b # manager.current
      BY <1>t, <2>1, <2>3, <2>7
    <3>2. PICK q \in Page : page[q] = [pc |-> "stop", gen |-> b]
      BY <3>1 DEF BrowserInv, NoLeakedBrowser
    <3>3. QED
      BY <2>4, <3>2
  <2>8. QED
    BY <2>5, <2>6, <2>7 DEF BrowserInv, NoLeakedBrowser
<1>7. CASE LaunchFails
  <2>1. /\ manager' = [manager EXCEPT !.starting = FALSE, !.backoff = TRUE] /\ WakeWaiters
        /\ manager.starting /\ live' = live /\ shutdown' = shutdown /\ fetches' = fetches
    BY <1>7 DEF LaunchFails
  <2>2. manager' \in Manager /\ manager'.current = manager.current /\ ~manager'.starting
    BY <1>t, <2>1 DEF Manager
  <2>3. /\ page' \in [Page -> Fetch]
        /\ \A q \in Page : page[q].pc \in {"stop", "idle"} => page'[q] = page[q]
    BY <2>1, WakeKeepsStops
  <2>4. BrowserTypeOK'
    BY <1>t, <2>1, <2>2, <2>3 DEF BrowserTypeOK, Manager, Fetch
  <2>5. LaunchDisplacesNone' /\ ShutdownQuiet'
    BY <2>1, <2>2, <2>3 DEF BrowserInv, LaunchDisplacesNone, ShutdownQuiet
  <2>6. ASSUME NEW b \in live', b # manager'.current
        PROVE  \E q \in Page : page'[q] = [pc |-> "stop", gen |-> b]
    <3>1. PICK q \in Page : page[q] = [pc |-> "stop", gen |-> b]
      BY <2>1, <2>2, <2>6 DEF BrowserInv, NoLeakedBrowser
    <3>2. QED
      BY <2>3, <3>1
  <2>7. QED
    BY <2>4, <2>5, <2>6 DEF BrowserInv, NoLeakedBrowser
<1>8. CASE BackoffEnds
  <2>1. /\ manager' = [manager EXCEPT !.backoff = FALSE] /\ UNCHANGED <<page, live, fetches, shutdown>>
    BY <1>8 DEF BackoffEnds
  <2>2. /\ manager' \in Manager /\ manager'.current = manager.current
        /\ manager'.starting = manager.starting
    BY <1>t, <2>1 DEF Manager
  <2>3. QED
    BY <1>t, <2>1, <2>2 DEF BrowserInv, BrowserTypeOK, Manager, Fetch, LaunchDisplacesNone,
                            ShutdownQuiet, NoLeakedBrowser
<1>9. CASE BeginShutdown
  BY <1>9 DEF BeginShutdown, BrowserInv, BrowserTypeOK, LaunchDisplacesNone, ShutdownQuiet,
              NoLeakedBrowser
<1>10. CASE CloseManager
  <2>1. /\ manager' = [manager EXCEPT !.current = 0] /\ live' = live \ {manager.current}
        /\ shutdown = "close" /\ shutdown' = "done" /\ ~manager.starting
        /\ page' = page /\ fetches' = fetches
    BY <1>10 DEF CloseManager
  <2>2. manager' \in Manager /\ manager'.current = 0 /\ ~manager'.starting
    BY <1>t, <1>z, <2>1 DEF Manager
  <2>3. BrowserTypeOK'
    BY <1>t, <2>1, <2>2 DEF BrowserTypeOK, Manager, Fetch
  <2>4. LaunchDisplacesNone' /\ ShutdownQuiet'
    BY <2>1, <2>2 DEF BrowserInv, LaunchDisplacesNone, ShutdownQuiet
  <2>5. NoLeakedBrowser'
    BY <2>1 DEF BrowserInv, NoLeakedBrowser
  <2>6. QED
    BY <2>3, <2>4, <2>5 DEF BrowserInv
<1>11. CASE UNCHANGED browserVars
  BY <1>11 DEF browserVars, BrowserInv, BrowserTypeOK, LaunchDisplacesNone, ShutdownQuiet,
               NoLeakedBrowser
<1>12. QED
  BY <1>1, <1>2, <1>3, <1>4, <1>5, <1>6, <1>7, <1>8, <1>9, <1>10, <1>11 DEF BrowserNext

\* The invariant holds in every state.
LEMMA BrowserInvHolds ==
    ASSUME BrowserConstants
    PROVE  BrowserSpec => []BrowserInv
<1>1. BrowserInit => BrowserInv
  <2> SUFFICES ASSUME BrowserInit PROVE BrowserInv
    OBVIOUS
  <2>1. BrowserTypeOK
    BY DEF BrowserInit, BrowserTypeOK, BrowserConstants, NoPage
  <2>2. LaunchDisplacesNone /\ ShutdownQuiet /\ NoLeakedBrowser
    BY DEF BrowserInit, LaunchDisplacesNone, ShutdownQuiet, NoLeakedBrowser
  <2>3. QED
    BY <2>1, <2>2 DEF BrowserInv
<1>2. BrowserInv /\ [BrowserNext]_browserVars => BrowserInv'
  BY BrowserInvStep
<1>3. QED
  BY <1>1, <1>2, PTL DEF BrowserSpec

\* A running Chromium process is the manager's current one or is about to be
\* stopped by the worker that noticed its failure, whatever generations pages
\* hold while browsers break and are launched (browserManager.get, start,
\* invalidate, close).
THEOREM NoBrowserLeaks ==
    ASSUME BrowserConstants
    PROVE  BrowserSpec => []NoLeakedBrowser
<1>1. BrowserInv => NoLeakedBrowser
  BY DEF BrowserInv
<1>2. QED
  BY <1>1, BrowserInvHolds, PTL

\* After ThreadDispatcher's deferred close no Chromium process is left.
NoneAfterShutdown == shutdown = "done" => live = {}

\* close waits for a launch under way and stops what it finds, and no worker is
\* left to start another one (ThreadDispatcher, browserManager.close).
THEOREM ShutdownStopsBrowsers ==
    ASSUME BrowserConstants
    PROVE  BrowserSpec => []NoneAfterShutdown
<1>1. BrowserInv => NoneAfterShutdown
  <2> SUFFICES ASSUME BrowserInv, shutdown = "done", NEW b \in live PROVE FALSE
    BY DEF NoneAfterShutdown
  <2>1. manager.current = 0 /\ \A p \in Page : page[p].pc = "idle"
    BY DEF BrowserInv, ShutdownQuiet
  <2>2. b # 0
    BY DEF BrowserInv, BrowserTypeOK
  <2>3. PICK p \in Page : page[p] = [pc |-> "stop", gen |-> b]
    BY <2>1, <2>2 DEF BrowserInv, NoLeakedBrowser
  <2>4. QED
    BY <2>1, <2>3
<1>2. QED
  BY <1>1, BrowserInvHolds, PTL

-----------------------------------------------------------------------------
(* The scrape-site queue.                                                  *)

ModeTimes == [FetchMode -> Nat \cup {Absent}]
ScheduleRecord == [modes : ModeTimes, retry : Nat, deferred : Nat]
SiteRecord == [payload : BOOLEAN, score : Nat \cup {Absent}, seq : Nat, claim : Nat,
               leaseUntil : Nat, sched : ScheduleRecord]
Subscriptions == [Subscriber -> FetchMode \cup {Absent}]
FetcherSteps == {"idle", "claimed", "commit"} \cup FetchMode \cup Removing
FetcherRecord == [pc : FetcherSteps, claim : Nat, sched : ScheduleRecord,
                  subs : Subscriptions, lost : BOOLEAN, owed : Nat]

\* The URL's keys keep every deadline that was committed, and no claim is newer
\* than the one they have.
GoodSite(s, due, last) ==
    /\ s \in SiteRecord /\ s.claim = s.seq
    /\ due =< s.sched.retry /\ last =< s.claim

\* What a worker owes is part of the schedule it carries, and has passed when it
\* fetches.
GoodJob(j, now) ==
    /\ j \in FetcherRecord
    /\ j.owed =< j.sched.retry
    /\ j.pc \in FetchMode => j.owed =< now
    /\ j.pc # "idle" => j.claim > 0

ScrapeInv ==
    /\ clock \in Nat /\ deadline \in Nat /\ lastCommit \in Nat
    /\ GoodSite(site, deadline, lastCommit)
    /\ subs \in Subscriptions
    /\ DOMAIN fetcher = Fetcher /\ fetcher = [f \in Fetcher |-> fetcher[f]]
    /\ \A f \in Fetcher : GoodJob(fetcher[f], clock)

-----------------------------------------------------------------------------
(* Numbers and schedules.                                                  *)

LEMMA MaxOfTwo ==
    ASSUME NEW a \in Nat, NEW b \in Nat
    PROVE  Max({a, b}) \in Nat /\ a =< Max({a, b}) /\ b =< Max({a, b})
<1>1. \E x \in {a, b} : \A y \in {a, b} : x >= y
  <2>1. CASE a >= b
    BY <2>1
  <2>2. CASE ~(a >= b)
    BY <2>2
  <2>3. QED
    BY <2>1, <2>2
<1>2. Max({a, b}) \in {a, b} /\ \A y \in {a, b} : Max({a, b}) >= y
  BY <1>1, Zenon DEF Max
<1> QED
  BY <1>2

LEMMA MaxOfThree ==
    ASSUME NEW a \in Nat, NEW b \in Nat, NEW c \in Nat
    PROVE  Max({a, b, c}) \in Nat
<1>1. PICK x \in {a, b, c} : \A y \in {a, b, c} : x >= y
  <2>1. CASE a >= b /\ a >= c
    BY <2>1
  <2>2. CASE b >= a /\ b >= c
    BY <2>2
  <2>3. CASE c >= a /\ c >= b
    BY <2>3
  <2>4. QED
    BY <2>1, <2>2, <2>3
<1>2. Max({a, b, c}) \in {a, b, c}
  BY <1>1, Zenon DEF Max
<1> QED
  BY <1>2

LEMMA EarliestIsNat ==
    ASSUME NEW S \in SUBSET Nat, S # {}
    PROVE  Min(S) \in Nat
<1>1. PICK x \in S : \A y \in S : <<y, x>> \notin OpToRel(<, Nat)
  BY NatLessThanWellFounded, WFMin
<1>2. ASSUME NEW y \in S PROVE x =< y
  <2>1. ~(y < x)
    BY <1>1 DEF OpToRel
  <2>2. QED
    BY <2>1
<1>3. Min(S) \in S
  BY <1>2, Zenon DEF Min
<1> QED
  BY <1>3

LEMMA NextDueIsNat ==
    ASSUME NEW s \in ScheduleRecord
    PROVE  nextDue(s) \in Nat
<1> DEFINE E == IF ModesOf(s) = {} THEN 0 ELSE Min({s.modes[m] : m \in ModesOf(s)})
<1>1. E \in Nat
  <2> DEFINE S == {s.modes[m] : m \in ModesOf(s)}
  <2>1. S \in SUBSET Nat
    BY DEF ModesOf, ScheduleRecord, ModeTimes
  <2>2. CASE ModesOf(s) # {}
    <3>1. S # {}
      BY <2>2
    <3>2. Min(S) \in Nat
      BY <2>1, <3>1, EarliestIsNat
    <3>3. QED
      BY <2>2, <3>2
  <2>3. QED
    BY <2>2
<1> HIDE DEF E
<1>2. s.deferred \in Nat /\ s.retry \in Nat
  BY DEF ScheduleRecord
<1>3. Max({E, s.deferred, s.retry}) \in Nat
  BY <1>1, <1>2, MaxOfThree
<1>4. nextDue(s) = Max({E, s.deferred, s.retry})
  BY Zenon DEF nextDue, E
<1> QED
  BY <1>3, <1>4

LEMMA WithRetry ==
    ASSUME NEW s \in ScheduleRecord, NEW n \in Nat
    PROVE  /\ [s EXCEPT !.retry = n] \in ScheduleRecord
           /\ [s EXCEPT !.retry = n].retry = n /\ [s EXCEPT !.retry = n].modes = s.modes
BY DEF ScheduleRecord

LEMMA EmptyIsSchedule ==
    /\ EmptySchedule \in ScheduleRecord /\ EmptySchedule.retry = 0
    /\ IdleFetcher \in FetcherRecord /\ IdleFetcher.pc = "idle" /\ IdleFetcher.owed = 0
    /\ IdleFetcher.sched = EmptySchedule
<1>1. EmptySchedule \in ScheduleRecord /\ EmptySchedule.retry = 0
  BY DEF EmptySchedule, ScheduleRecord, ModeTimes
<1>2. [w \in Subscriber |-> Absent] \in Subscriptions
  BY DEF Subscriptions
<1>3. "idle" \in FetcherSteps
  BY DEF FetcherSteps
<1> QED
  BY <1>1, <1>2, <1>3 DEF IdleFetcher, FetcherRecord

-----------------------------------------------------------------------------
(* The scripts and the commands of the pipelines.                          *)

OwnsSite(s, claim) ==
    s.payload /\ s.score # Absent /\ (IF s.leaseUntil > clock THEN s.claim ELSE 0) = claim
DueAfter(s, due, sched) == IF s.payload THEN Max({due, sched.retry}) ELSE due
CompletedFrom(t, s, due, last, claim, sched) ==
    /\ GoodSite(t, DueAfter(s, due, sched), last) /\ t.claim = s.claim
    /\ (t.sched.modes # s.sched.modes \/ OwnsSite(s, claim)) => s.claim = claim

LEMMA CompleteSiteGood ==
    ASSUME clock \in Nat, NEW due \in Nat, NEW last \in Nat, NEW s, GoodSite(s, due, last),
           NEW claim \in Nat \ {0}, NEW sched \in ScheduleRecord
    PROVE  CompletedFrom(CompleteSite(s, claim, sched), s, due, last, claim, sched)
<1> USE DEF CompletedFrom, OwnsSite, DueAfter
<1> DEFINE active == IF s.leaseUntil > clock THEN s.claim ELSE 0
           retry == Max({s.sched.retry, sched.retry})
           owner == s.payload /\ s.score # Absent /\ active = claim
<1>1. /\ s \in SiteRecord /\ s.sched \in ScheduleRecord /\ s.sched.retry \in Nat
      /\ sched.retry \in Nat /\ s.claim \in Nat /\ s.claim = s.seq
      /\ due =< s.sched.retry /\ last =< s.claim /\ s.payload \in BOOLEAN
  BY DEF GoodSite, SiteRecord, ScheduleRecord
<1>2. retry \in Nat /\ s.sched.retry =< retry /\ sched.retry =< retry
  BY <1>1, MaxOfTwo
<1>3. PICK d \in Nat : d = Max({due, sched.retry}) /\ d =< retry
  <2>1. Max({due, sched.retry}) \in {due, sched.retry}
    <3>1. Max({due, sched.retry}) \in Nat /\ due =< Max({due, sched.retry})
                                         /\ sched.retry =< Max({due, sched.retry})
      BY <1>1, MaxOfTwo
    <3>2. \E x \in {due, sched.retry} : \A y \in {due, sched.retry} : x >= y
      <4>1. CASE due >= sched.retry
        BY <4>1
      <4>2. CASE ~(due >= sched.retry)
        BY <1>1, <4>2
      <4>3. QED
        BY <4>1, <4>2
    <3>3. QED
      BY <3>2, Zenon DEF Max
  <2>2. QED
    BY <1>1, <1>2, <2>1
<1> HIDE DEF retry
<1>4. CASE ~s.payload
  <2>1. CompleteSite(s, claim, sched) = s
    BY <1>4 DEF CompleteSite
  <2>2. QED
    BY <1>1, <1>4, <2>1 DEF GoodSite
<1>5. CASE s.payload /\ ~owner
  <2>1. PICK t : t = CompleteSite(s, claim, sched)
    OBVIOUS
  <2>2. t = [s EXCEPT !.sched.retry = retry,
                      !.score = IF @ # Absent /\ active = 0 /\ retry > @ THEN retry ELSE @]
    BY <1>5, <2>1 DEF CompleteSite, retry
  <2>3. PICK sc : sc = [s.sched EXCEPT !.retry = retry]
    OBVIOUS
  <2>4. sc \in ScheduleRecord /\ sc.retry = retry /\ sc.modes = s.sched.modes
    BY <1>1, <1>2, <2>3, WithRetry
  <2>5. PICK score : score = IF s.score # Absent /\ active = 0 /\ retry > s.score
                             THEN retry ELSE s.score
    OBVIOUS
  <2>6. score \in Nat \cup {Absent}
    BY <1>1, <1>2, <2>5 DEF SiteRecord
  <2>7. t = [[s EXCEPT !.sched = sc] EXCEPT !.score = score]
    BY <1>1, <2>2, <2>3, <2>5 DEF SiteRecord
  <2>8. /\ t \in SiteRecord /\ t.sched = sc /\ t.claim = s.claim /\ t.seq = s.seq
    BY <1>1, <2>4, <2>6, <2>7 DEF SiteRecord
  <2>9. d =< t.sched.retry /\ last =< t.claim /\ t.sched.modes = s.sched.modes
    BY <1>1, <1>3, <2>4, <2>8
  <2>10. GoodSite(t, d, last)
    BY <1>1, <2>8, <2>9 DEF GoodSite
  <2>11. QED
    BY <1>3, <1>5, <2>1, <2>8, <2>9, <2>10
<1>6. CASE s.payload /\ owner
  <2>1. PICK t : t = CompleteSite(s, claim, sched)
    OBVIOUS
  <2>2. t = [s EXCEPT !.sched = [sched EXCEPT !.retry = retry], !.leaseUntil = 0,
                      !.score = Max({nextDue(sched), clock, retry})]
    BY <1>6, <2>1 DEF CompleteSite, retry
  <2>3. PICK sc : sc = [sched EXCEPT !.retry = retry]
    OBVIOUS
  <2>4. sc \in ScheduleRecord /\ sc.retry = retry
    BY <1>2, <2>3, WithRetry
  <2>5. PICK score \in Nat : score = Max({nextDue(sched), clock, retry})
    BY <1>2, NextDueIsNat, MaxOfThree
  <2>6. t = [s EXCEPT !.sched = sc, !.leaseUntil = 0, !.score = score]
    BY <2>2, <2>3, <2>5
  <2>7. /\ t \in SiteRecord /\ t.sched = sc /\ t.claim = s.claim /\ t.seq = s.seq
    BY <1>1, <2>4, <2>6 DEF SiteRecord
  <2>8. GoodSite(t, d, last)
    BY <1>1, <1>3, <2>4, <2>7 DEF GoodSite
  <2>9. s.claim = claim
    BY <1>6
  <2>10. QED
    BY <1>3, <1>6, <2>1, <2>7, <2>8, <2>9
<1> QED
  BY <1>1, <1>4, <1>5, <1>6

LEMMA ForceSiteGood ==
    ASSUME clock \in Nat, NEW due \in Nat, NEW last \in Nat, NEW s, GoodSite(s, due, last),
           NEW b \in BOOLEAN
    PROVE  GoodSite(ForceSite(s, b), due, last)
<1>1. CASE (s.leaseUntil > clock) \/ (~b /\ s.score = Absent)
  BY <1>1 DEF ForceSite
<1>2. CASE ~((s.leaseUntil > clock) \/ (~b /\ s.score = Absent))
  <2>1. /\ s \in SiteRecord /\ s.sched \in ScheduleRecord /\ s.sched.retry \in Nat
        /\ s.payload \in BOOLEAN /\ s.claim = s.seq /\ due =< s.sched.retry /\ last =< s.claim
    BY DEF GoodSite, SiteRecord, ScheduleRecord
  <2>2. PICK sc : sc = [EmptySchedule EXCEPT !.retry = s.sched.retry]
    OBVIOUS
  <2>3. sc \in ScheduleRecord /\ sc.retry = s.sched.retry
    BY <2>1, <2>2, EmptyIsSchedule, WithRetry
  <2>4. PICK score \in Nat : score = Max({clock, s.sched.retry})
    BY <2>1, MaxOfTwo
  <2>5. PICK p \in BOOLEAN : p = (s.payload \/ b)
    BY <2>1
  <2>6. PICK t : t = ForceSite(s, b)
    OBVIOUS
  <2>7. t = [s EXCEPT !.payload = p, !.sched = sc, !.leaseUntil = 0, !.score = score]
    BY <1>2, <2>2, <2>4, <2>5, <2>6 DEF ForceSite
  <2>8. t \in SiteRecord /\ t.sched = sc /\ t.claim = s.claim /\ t.seq = s.seq
    BY <2>1, <2>3, <2>7 DEF SiteRecord
  <2>9. QED
    BY <2>1, <2>3, <2>6, <2>8 DEF GoodSite
<1> QED
  BY <1>1, <1>2

LEMMA AddCommandGood ==
    ASSUME clock \in Nat, NEW due \in Nat, NEW last \in Nat, GoodSite(site, due, last), NEW pc
    PROVE  GoodSite(AddCommand(pc), due, last)
<1>1. CASE pc = "add1"
  BY <1>1 DEF AddCommand, GoodSite, SiteRecord
<1>2. CASE pc # "add1"
  BY <1>2 DEF AddCommand, GoodSite, SiteRecord
<1> QED
  BY <1>1, <1>2

LEMMA RemoveCommandGood ==
    ASSUME NEW due \in Nat, NEW last \in Nat, GoodSite(site, due, last), NEW pc \in Removing
    PROVE  GoodSite(RemoveCommand(pc), IF pc = "remove2" THEN 0 ELSE due, last)
<1>1. CASE pc = "remove1"
  BY <1>1 DEF RemoveCommand, GoodSite, SiteRecord
<1>2. CASE pc = "remove2"
  <2>1. RemoveCommand(pc) = [site EXCEPT !.sched = EmptySchedule]
    BY <1>2 DEF RemoveCommand
  <2>2. QED
    BY <1>2, <2>1, EmptyIsSchedule DEF GoodSite, SiteRecord
<1>3. CASE pc = "remove3"
  BY <1>3 DEF RemoveCommand, GoodSite, SiteRecord
<1>4. CASE pc = "remove4"
  BY <1>4 DEF RemoveCommand, GoodSite, SiteRecord
<1> QED
  BY <1>1, <1>2, <1>3, <1>4 DEF Removing

-----------------------------------------------------------------------------
(* Jobs.                                                                   *)

LEMMA FetcherMoves ==
    ASSUME ScrapeInv, NEW f \in Fetcher, NEW j, GoodJob(j, clock),
           fetcher' = [fetcher EXCEPT ![f] = j], clock' = clock,
           deadline' \in Nat, lastCommit' \in Nat, GoodSite(site', deadline', lastCommit'),
           subs' \in Subscriptions
    PROVE  ScrapeInv'
BY DEF ScrapeInv, GoodJob

LEMMA SiteMoves ==
    ASSUME ScrapeInv, fetcher' = fetcher, clock' = clock,
           deadline' \in Nat, lastCommit' \in Nat, GoodSite(site', deadline', lastCommit'),
           subs' \in Subscriptions
    PROVE  ScrapeInv'
BY DEF ScrapeInv, GoodJob

\* A worker moves on with its job, and leaves the tables alone.
LEMMA ProceedKeeps ==
    ASSUME ScrapeInv, NEW f \in Fetcher, NEW j, GoodJob(j, clock), Proceed(f, j)
    PROVE  ScrapeInv'
<1>1. /\ fetcher' = [fetcher EXCEPT ![f] = j]
      /\ UNCHANGED <<clock, site, subs, deadline, lastCommit>>
  BY DEF Proceed
<1>2. /\ deadline' \in Nat /\ lastCommit' \in Nat /\ GoodSite(site', deadline', lastCommit')
      /\ subs' \in Subscriptions
  BY <1>1 DEF ScrapeInv
<1> QED
  BY <1>1, <1>2, FetcherMoves

Carries(k, j) == k.claim = j.claim /\ k.owed = j.owed /\ k.sched.retry = j.sched.retry
                   /\ k.lost = j.lost

LEMMA WithStep ==
    ASSUME NEW j \in FetcherRecord, NEW pc \in FetcherSteps
    PROVE  /\ [j EXCEPT !.pc = pc] \in FetcherRecord /\ [j EXCEPT !.pc = pc].pc = pc
           /\ Carries([j EXCEPT !.pc = pc], j)
BY DEF FetcherRecord, Carries

LEMMA WithSchedule ==
    ASSUME NEW j \in FetcherRecord, NEW sc \in ScheduleRecord, NEW pc \in FetcherSteps,
           NEW ss \in Subscriptions,
           NEW k, k = [j EXCEPT !.pc = pc, !.sched = sc, !.subs = ss]
    PROVE  /\ k \in FetcherRecord /\ k.pc = pc /\ k.claim = j.claim /\ k.owed = j.owed
           /\ k.sched = sc /\ k.lost = j.lost
BY DEF FetcherRecord

LEMMA FetcherFields ==
    ASSUME NEW j \in FetcherRecord
    PROVE  /\ j = [pc |-> j.pc, claim |-> j.claim, sched |-> j.sched, subs |-> j.subs,
                   lost |-> j.lost, owed |-> j.owed]
           /\ j.sched = [modes |-> j.sched.modes, retry |-> j.sched.retry,
                         deferred |-> j.sched.deferred]
           /\ j.pc \in FetcherSteps /\ j.claim \in Nat /\ j.sched \in ScheduleRecord
           /\ j.subs \in Subscriptions /\ j.lost \in BOOLEAN /\ j.owed \in Nat
           /\ j.sched.modes \in ModeTimes /\ j.sched.retry \in Nat /\ j.sched.deferred \in Nat
BY DEF FetcherRecord, ScheduleRecord

LEMMA FinishIs ==
    ASSUME NEW j \in FetcherRecord, NEW next \in {"browser", "commit"}
    PROVE  /\ Finish(j, next) \in FetcherRecord /\ Finish(j, next).pc = next
           /\ Carries(Finish(j, next), j)
<1>1. next \in FetcherSteps
  BY DEF FetcherSteps, FetchMode
<1>2. CASE next # "commit"
  BY <1>1, <1>2, WithStep DEF Finish
<1>3. CASE next = "commit"
  <2>1. PICK ms : ms = [m \in FetchMode |-> IF Group(j, m) # {} /\ j.sched.modes[m] = Absent
                                           THEN 0 ELSE j.sched.modes[m]]
    OBVIOUS
  <2>2. ms \in ModeTimes
    BY <2>1, FetcherFields DEF ModeTimes
  <2>3. Finish(j, next) = [j EXCEPT !.pc = next, !.sched.modes = ms]
    BY <1>3, <2>1 DEF Finish
  <2>4. [j.sched EXCEPT !.modes = ms] \in ScheduleRecord
        /\ [j.sched EXCEPT !.modes = ms].retry = j.sched.retry
    BY <2>2, FetcherFields DEF ScheduleRecord
  <2>5. PICK sc \in ScheduleRecord : sc = [j.sched EXCEPT !.modes = ms]
                                      /\ sc.retry = j.sched.retry
    BY <2>4
  <2>6. Finish(j, next) = [j EXCEPT !.pc = next, !.sched = sc]
    BY <2>3, <2>5
  <2>7. QED
    BY <1>1, <2>5, <2>6 DEF FetcherRecord, Carries
<1> QED
  BY <1>2, <1>3

\* A job that has made progress, or learnt of a later deadline, is still good.
LEMMA ModeDone ==
    ASSUME NEW j \in FetcherRecord, NEW m \in FetchMode, NEW at \in Nat
    PROVE  /\ [j EXCEPT !.sched.modes[m] = at] \in FetcherRecord
           /\ Carries([j EXCEPT !.sched.modes[m] = at], j)
<1>1. PICK ms \in ModeTimes : ms = [j.sched.modes EXCEPT ![m] = at]
  BY FetcherFields DEF ModeTimes
<1>2. [j.sched EXCEPT !.modes = ms] \in ScheduleRecord
      /\ [j.sched EXCEPT !.modes = ms].retry = j.sched.retry
  BY FetcherFields DEF ScheduleRecord
<1>3. PICK sc \in ScheduleRecord : sc = [j.sched EXCEPT !.modes = ms]
                                    /\ sc.retry = j.sched.retry
  BY <1>2
<1>4. [j EXCEPT !.sched.modes[m] = at] = [j EXCEPT !.sched = sc]
  BY <1>1, <1>3
<1> QED
  BY <1>3, <1>4 DEF FetcherRecord, Carries

LEMMA DeadlineLearnt ==
    ASSUME NEW j \in FetcherRecord, NEW n \in Nat
    PROVE  /\ [j EXCEPT !.sched.retry = n] \in FetcherRecord
           /\ [j EXCEPT !.sched.retry = n].sched.retry = n
           /\ [j EXCEPT !.sched.retry = n].claim = j.claim
           /\ [j EXCEPT !.sched.retry = n].owed = j.owed
<1>1. PICK sc \in ScheduleRecord : sc = [j.sched EXCEPT !.retry = n] /\ sc.retry = n
  BY FetcherFields, WithRetry
<1>2. [j EXCEPT !.sched.retry = n] = [j EXCEPT !.sched = sc]
  BY <1>1
<1> QED
  BY <1>1, <1>2 DEF FetcherRecord

-----------------------------------------------------------------------------
(* The workers' steps.                                                     *)

\* The step after a mode, of a job that is fetching.
LEMMA FinishGood ==
    ASSUME clock \in Nat, NEW j, GoodJob(j, clock), j.pc \in FetchMode,
           NEW k \in FetcherRecord, k.claim = j.claim, k.owed = j.owed,
           k.owed =< k.sched.retry, NEW next \in {"browser", "commit"}
    PROVE  GoodJob(Finish(k, next), clock)
<1>1. j.owed =< clock /\ j.claim > 0
  BY DEF GoodJob, FetchMode
<1>2. /\ Finish(k, next) \in FetcherRecord /\ Finish(k, next).pc = next
      /\ Carries(Finish(k, next), k)
  BY FinishIs
<1> QED
  BY <1>1, <1>2 DEF GoodJob, Carries

LEMMA AfterModeIs == ASSUME NEW m \in FetchMode PROVE AfterMode(m) \in {"browser", "commit"}
BY DEF AfterMode, FetchMode

LEMMA LookupsKeep ==
    ASSUME ScrapeConstants, ScrapeInv, NEW f \in Fetcher,
           SkipScrape(f) \/ LookupUnused(f) \/ LookupSubscriptions(f)
    PROVE  ScrapeInv'
<1>1. PICK j : j = fetcher[f]
  OBVIOUS
<1>2. /\ j \in FetcherRecord /\ j.owed =< j.sched.retry /\ j.claim > 0 /\ j.pc = "claimed"
      /\ clock \in Nat /\ subs \in Subscriptions /\ j.owed \in Nat /\ j.sched.retry \in Nat
  BY <1>1, FetcherFields DEF ScrapeInv, GoodJob, SkipScrape, LookupUnused, LookupSubscriptions
<1>3. BrowserRetryDelay \in Nat
  BY DEF ScrapeConstants
<1>4. {"commit", "remove1", "http"} \subseteq FetcherSteps /\ {"commit", "remove1"} \cap FetchMode = {}
  BY DEF FetcherSteps, Removing, FetchMode
<1>5. ASSUME NEW pc \in {"commit", "remove1"}, Proceed(f, [j EXCEPT !.pc = pc])
      PROVE  ScrapeInv'
  <2>1. /\ [j EXCEPT !.pc = pc] \in FetcherRecord /\ [j EXCEPT !.pc = pc].pc = pc
        /\ Carries([j EXCEPT !.pc = pc], j)
    BY <1>2, <1>4, WithStep
  <2>2. GoodJob([j EXCEPT !.pc = pc], clock)
    BY <1>2, <1>4, <2>1 DEF GoodJob, Carries
  <2>3. QED
    BY <1>5, <2>2, ProceedKeeps
<1>6. CASE SkipScrape(f)
  <2>1. CASE Proceed(f, [j EXCEPT !.pc = "commit"])
    BY <1>5, <2>1
  <2>2. CASE Proceed(f, [j EXCEPT !.pc = "commit", !.sched.deferred = clock + BrowserRetryDelay])
    <3>1. PICK k : k = [j EXCEPT !.pc = "commit", !.sched.deferred = clock + BrowserRetryDelay]
      OBVIOUS
    <3>2. PICK sc : sc = [j.sched EXCEPT !.deferred = clock + BrowserRetryDelay]
      OBVIOUS
    <3>3. sc \in ScheduleRecord /\ sc.retry = j.sched.retry
      BY <1>2, <1>3, <3>2 DEF FetcherRecord, ScheduleRecord
    <3>4. k = [j EXCEPT !.pc = "commit", !.sched = sc]
      BY <3>1, <3>2
    <3>5. k \in FetcherRecord /\ k.pc = "commit" /\ k.claim = j.claim /\ k.owed = j.owed
          /\ k.sched = sc
      BY <1>2, <1>4, <3>3, <3>4 DEF FetcherRecord
    <3>6. GoodJob(k, clock)
      BY <1>2, <1>4, <3>3, <3>5 DEF GoodJob
    <3>7. QED
      BY <2>2, <3>1, <3>6, ProceedKeeps
  <2>3. QED
    BY <1>1, <1>6, <2>1, <2>2 DEF SkipScrape
<1>7. CASE LookupUnused(f)
  BY <1>1, <1>5, <1>7 DEF LookupUnused
<1>8. CASE LookupSubscriptions(f)
  <2>1. PICK wanted : wanted = {subs[w] : w \in Subscriber} \ {Absent}
    OBVIOUS
  <2>2. PICK ms : ms = [m \in FetchMode |-> IF m \in wanted THEN j.sched.modes[m] ELSE Absent]
    OBVIOUS
  <2>3. ms \in ModeTimes
    BY <1>2, <2>2, FetcherFields DEF ModeTimes
  <2>4. PICK k : k = [j EXCEPT !.pc = "http", !.subs = subs, !.sched.deferred = 0,
                               !.sched.modes = ms]
    OBVIOUS
  <2>5. Proceed(f, k) /\ j.sched.retry =< clock
    BY <1>1, <1>8, <2>1, <2>2, <2>4 DEF LookupSubscriptions
  <2>6. PICK sc : sc = [j.sched EXCEPT !.deferred = 0, !.modes = ms]
    OBVIOUS
  <2>7. sc \in ScheduleRecord /\ sc.retry = j.sched.retry
    BY <1>2, <2>3, <2>6 DEF FetcherRecord, ScheduleRecord
  <2>8. k = [j EXCEPT !.pc = "http", !.subs = subs, !.sched = sc]
    BY <2>4, <2>6
  <2>9. k \in FetcherRecord /\ k.pc = "http" /\ k.claim = j.claim /\ k.owed = j.owed
        /\ k.sched = sc
    BY <1>2, <1>4, <2>7, <2>8 DEF FetcherRecord
  <2>10. GoodJob(k, clock)
    BY <1>2, <2>5, <2>7, <2>9 DEF GoodJob
  <2>11. QED
    BY <2>5, <2>10, ProceedKeeps
<1> QED
  BY <1>6, <1>7, <1>8

LEMMA ModesKeep ==
    ASSUME ScrapeConstants, ScrapeInv, NEW f \in Fetcher,
           SkipMode(f) \/ FetchSucceeds(f) \/ FetchFails(f) \/ FetchDeferred(f)
    PROVE  ScrapeInv'
<1>1. PICK j : j = fetcher[f]
  OBVIOUS
<1>2. PICK m \in FetchMode : m = j.pc
  BY <1>1 DEF SkipMode, FetchSucceeds, FetchFails, FetchDeferred, FetchMode
<1>3. /\ j \in FetcherRecord /\ GoodJob(j, clock) /\ j.pc \in FetchMode /\ clock \in Nat
      /\ j.owed =< j.sched.retry /\ j.owed \in Nat /\ j.sched.retry \in Nat
      /\ AfterMode(m) \in {"browser", "commit"}
  BY <1>1, <1>2, FetcherFields, AfterModeIs DEF ScrapeInv, GoodJob
<1>4. ASSUME NEW k \in FetcherRecord, Carries(k, j), NEW next \in {"browser", "commit"},
             Proceed(f, Finish(k, next))
      PROVE  ScrapeInv'
  <2>1. GoodJob(Finish(k, next), clock)
    BY <1>3, <1>4, FinishGood DEF Carries
  <2>2. QED
    BY <1>4, <2>1, ProceedKeeps
<1>5. Carries(j, j)
  BY DEF Carries
<1>6. clock + ScrapeInterval \in Nat /\ clock + BrowserRetryDelay \in Nat
  BY <1>3 DEF ScrapeConstants
<1>7. CASE SkipMode(f)
  BY <1>1, <1>2, <1>3, <1>4, <1>5, <1>7 DEF SkipMode
<1>8. CASE FetchSucceeds(f)
  <2>1. CASE Proceed(f, Finish([j EXCEPT !.sched.modes[m] = clock + ScrapeInterval], AfterMode(m)))
    BY <1>3, <1>4, <1>6, <2>1, ModeDone
  <2>2. CASE Proceed(f, Finish(j, "commit"))
    BY <1>3, <1>4, <1>5, <2>2
  <2>3. QED
    BY <1>1, <1>2, <1>8, <2>1, <2>2 DEF FetchSucceeds
<1>9. CASE FetchFails(f)
  <2>1. PICK delay \in RetryAfters \cup {0} :
          \E retry :
             /\ retry = RetryDeadline(j, delay)
             /\ \/ Proceed(f, Finish([j EXCEPT !.sched.retry = retry,
                                              !.sched.modes[m] = clock + ScrapeInterval],
                                    IF retry > clock THEN "commit" ELSE AfterMode(m)))
                \/ Proceed(f, Finish([j EXCEPT !.sched.retry = retry], "commit"))
    BY <1>1, <1>2, <1>9 DEF FetchFails
  <2>2. PICK retry :
          /\ retry = RetryDeadline(j, delay)
          /\ \/ Proceed(f, Finish([j EXCEPT !.sched.retry = retry,
                                           !.sched.modes[m] = clock + ScrapeInterval],
                                 IF retry > clock THEN "commit" ELSE AfterMode(m)))
             \/ Proceed(f, Finish([j EXCEPT !.sched.retry = retry], "commit"))
    BY <2>1
  <2>3. retry \in Nat /\ j.sched.retry =< retry
    <3>1. clock + delay \in Nat
      BY <1>3 DEF ScrapeConstants
    <3>2. CASE delay = 0
      BY <1>3, <2>1, <2>2, <3>2 DEF RetryDeadline
    <3>3. CASE delay # 0
      BY <1>3, <2>1, <2>2, <3>1, <3>3, MaxOfTwo DEF RetryDeadline
    <3>4. QED
      BY <3>2, <3>3
  <2>4. PICK k \in FetcherRecord : /\ k = [j EXCEPT !.sched.retry = retry]
                                   /\ k.sched.retry = retry
                                   /\ k.claim = j.claim /\ k.owed = j.owed
    BY <1>3, <2>3, DeadlineLearnt
  <2>5. PICK l \in FetcherRecord :
          /\ l = [k EXCEPT !.sched.modes[m] = clock + ScrapeInterval] /\ Carries(l, k)
    BY <1>6, ModeDone
  <2>6. l = [j EXCEPT !.sched.retry = retry, !.sched.modes[m] = clock + ScrapeInterval]
    BY <2>4, <2>5
  <2>7. PICK next \in {"browser", "commit"} :
          next = IF retry > clock THEN "commit" ELSE AfterMode(m)
    BY <1>3
  <2>8. CASE Proceed(f, Finish(l, next))
    <3>1. l.claim = j.claim /\ l.owed = j.owed /\ l.owed =< l.sched.retry
      BY <1>3, <2>3, <2>4, <2>5 DEF Carries
    <3>2. GoodJob(Finish(l, next), clock)
      BY <1>3, <3>1, FinishGood
    <3>3. QED
      BY <2>8, <3>2, ProceedKeeps
  <2>9. CASE Proceed(f, Finish(k, "commit"))
    <3>1. k.owed =< k.sched.retry
      BY <1>3, <2>3, <2>4
    <3>2. GoodJob(Finish(k, "commit"), clock)
      BY <1>3, <2>4, <3>1, FinishGood
    <3>3. QED
      BY <2>9, <3>2, ProceedKeeps
  <2>10. QED
    BY <2>2, <2>4, <2>6, <2>7, <2>8, <2>9
<1>10. CASE FetchDeferred(f)
  <2>1. "browser" \in FetchMode
    BY DEF FetchMode
  <2>2. QED
    BY <1>1, <1>3, <1>4, <1>6, <1>10, <2>1, ModeDone DEF FetchDeferred
<1> QED
  BY <1>7, <1>8, <1>9, <1>10

LEMMA ClaimsKeep ==
    ASSUME ScrapeConstants, ScrapeInv, NEW f \in Fetcher,
           GetNextScrapeSite(f) \/ RenewLease(f) \/ FetcherCrash(f) \/ FetcherRemoves(f)
    PROVE  ScrapeInv'
<1>1. PICK j : j = fetcher[f]
  OBVIOUS
<1>2. /\ j \in FetcherRecord /\ GoodJob(j, clock) /\ clock \in Nat /\ subs \in Subscriptions
      /\ deadline \in Nat /\ lastCommit \in Nat /\ GoodSite(site, deadline, lastCommit)
  BY <1>1 DEF ScrapeInv, GoodJob
<1>3. /\ site \in SiteRecord /\ site.sched \in ScheduleRecord /\ site.sched.retry \in Nat
      /\ site.claim = site.seq /\ site.seq \in Nat /\ deadline =< site.sched.retry
      /\ lastCommit =< site.claim
  BY <1>2 DEF GoodSite, SiteRecord, ScheduleRecord
<1>4. clock + ScrapeLease \in Nat
  BY <1>2 DEF ScrapeConstants
<1>5. GoodJob(IdleFetcher, clock)
  BY <1>2, EmptyIsSchedule DEF GoodJob, FetchMode
<1>6. CASE GetNextScrapeSite(f)
  <2>1. site' = [site EXCEPT !.seq = site.seq + 1, !.claim = site.seq + 1,
                             !.leaseUntil = clock + ScrapeLease, !.score = clock + ScrapeLease]
    BY <1>6 DEF GetNextScrapeSite, PopSite
  <2>2. GoodSite(site', deadline, lastCommit)
    <3>1. PICK n \in Nat : n = site.seq + 1
      BY <1>3
    <3>2. /\ site' \in SiteRecord /\ site'.seq = n /\ site'.claim = n
          /\ site'.sched = site.sched
      BY <1>3, <1>4, <2>1, <3>1 DEF SiteRecord
    <3>3. lastCommit =< n
      BY <1>2, <1>3, <3>1
    <3>4. QED
      BY <1>3, <3>2, <3>3 DEF GoodSite
  <2>3. PICK k : k = [IdleFetcher EXCEPT !.pc = "claimed", !.claim = site.seq + 1,
                                         !.sched = site.sched, !.owed = deadline]
    OBVIOUS
  <2>4. "claimed" \in FetcherSteps /\ "claimed" \notin FetchMode /\ site.seq + 1 \in Nat
    BY <1>3 DEF FetcherSteps, FetchMode
  <2>5. k \in FetcherRecord /\ k.pc = "claimed" /\ k.claim = site.seq + 1
        /\ k.sched = site.sched /\ k.owed = deadline
    BY <1>2, <1>3, <2>3, <2>4, EmptyIsSchedule DEF FetcherRecord
  <2>6. GoodJob(k, clock)
    BY <1>3, <2>4, <2>5 DEF GoodJob
  <2>7. /\ fetcher' = [fetcher EXCEPT ![f] = k]
        /\ UNCHANGED <<clock, subs, deadline, lastCommit>>
    BY <1>6, <2>3 DEF GetNextScrapeSite
  <2>8. QED
    BY <1>2, <2>2, <2>6, <2>7, FetcherMoves
<1>7. CASE RenewLease(f)
  <2>0. UNCHANGED <<clock, subs, deadline, lastCommit>>
    BY <1>7 DEF RenewLease
  <2>1. CASE /\ site' = [site EXCEPT !.leaseUntil = clock + ScrapeLease,
                                      !.score = clock + ScrapeLease]
             /\ fetcher' = fetcher
    <3>1. GoodSite(site', deadline, lastCommit)
      BY <1>3, <1>4, <2>1 DEF GoodSite, SiteRecord
    <3>2. QED
      BY <1>2, <2>0, <2>1, <3>1, SiteMoves
  <2>2. CASE fetcher' = [fetcher EXCEPT ![f].lost = TRUE] /\ site' = site
    <3>1. PICK k : k = [j EXCEPT !.lost = TRUE]
      OBVIOUS
    <3>2. fetcher' = [fetcher EXCEPT ![f] = k]
      BY <1>1, <2>2, <3>1
    <3>3. GoodJob(k, clock)
      BY <1>2, <3>1 DEF GoodJob, FetcherRecord
    <3>4. QED
      BY <1>2, <2>0, <2>2, <3>2, <3>3, FetcherMoves
  <2>3. QED
    BY <1>7, <2>1, <2>2 DEF RenewLease
<1>8. CASE FetcherCrash(f)
  <2>1. /\ fetcher' = [fetcher EXCEPT ![f] = IdleFetcher]
        /\ UNCHANGED <<clock, site, subs, deadline, lastCommit>>
    BY <1>8 DEF FetcherCrash
  <2>2. QED
    BY <1>2, <1>5, <2>1, FetcherMoves
<1>9. CASE FetcherRemoves(f)
  <2>1. PICK pc \in Removing : pc = j.pc
    BY <1>1, <1>9 DEF FetcherRemoves
  <2>2. /\ site' = RemoveCommand(pc) /\ UNCHANGED <<clock, subs, lastCommit>>
        /\ deadline' = IF pc = "remove2" THEN 0 ELSE deadline
        /\ fetcher' = [fetcher EXCEPT ![f] =
               IF pc = "remove4" THEN IdleFetcher ELSE [j EXCEPT !.pc = AfterRemove(pc)]]
    <3>1. site' = RemoveCommand(pc) /\ UNCHANGED <<clock, subs, lastCommit>>
      BY <1>1, <1>9, <2>1 DEF FetcherRemoves
    <3>2. deadline' = IF pc = "remove2" THEN 0 ELSE deadline
      BY <1>1, <1>9, <2>1 DEF FetcherRemoves, ForgetDeadline
    <3>3. fetcher' = [fetcher EXCEPT ![f] =
               IF j.pc = "remove4" THEN IdleFetcher ELSE [j EXCEPT !.pc = AfterRemove(j.pc)]]
      <4>1. fetcher' = [fetcher EXCEPT ![f] =
               IF fetcher[f].pc = "remove4" THEN IdleFetcher
               ELSE [fetcher[f] EXCEPT !.pc = AfterRemove(fetcher[f].pc)]]
        BY <1>9 DEF FetcherRemoves
      <4>2. QED
        BY <1>1, <4>1
    <3>4. QED
      BY <2>1, <3>1, <3>2, <3>3
  <2>3. GoodSite(site', deadline', lastCommit') /\ deadline' \in Nat
    BY <1>2, <2>2, RemoveCommandGood
  <2>4. CASE pc = "remove4"
    BY <1>2, <1>5, <2>2, <2>3, <2>4, FetcherMoves
  <2>5. CASE pc # "remove4"
    <3>1. PICK next \in {"remove2", "remove3", "remove4"} : next = AfterRemove(pc)
      BY <2>1, <2>5 DEF AfterRemove, Removing
    <3>2. next \in FetcherSteps /\ next \notin FetchMode /\ pc # "idle"
      BY <2>1 DEF FetcherSteps, Removing, FetchMode
    <3>3. PICK k : k = [j EXCEPT !.pc = next]
      OBVIOUS
    <3>4. k \in FetcherRecord /\ k.pc = next /\ Carries(k, j)
      BY <1>2, <3>2, <3>3, WithStep
    <3>5. GoodJob(k, clock)
      BY <1>2, <2>1, <3>2, <3>4 DEF GoodJob, Carries
    <3>6. fetcher' = [fetcher EXCEPT ![f] = k]
      BY <2>2, <2>5, <3>1, <3>3
    <3>7. QED
      BY <1>2, <2>2, <2>3, <3>5, <3>6, FetcherMoves
  <2>6. QED
    BY <2>4, <2>5
<1> QED
  BY <1>6, <1>7, <1>8, <1>9

\* A completion changes the progress only for the newest claim.
LEMMA CompleteKeeps ==
    ASSUME ScrapeConstants, ScrapeInv, NEW f \in Fetcher, Complete(f)
    PROVE  ScrapeInv' /\ lastCommit' >= lastCommit
<1>1. PICK j : j = fetcher[f]
  OBVIOUS
<1>2. /\ j \in FetcherRecord /\ j.claim \in Nat \ {0} /\ j.sched \in ScheduleRecord
      /\ j.sched.retry \in Nat /\ clock \in Nat /\ subs \in Subscriptions
      /\ deadline \in Nat /\ lastCommit \in Nat /\ GoodSite(site, deadline, lastCommit)
      /\ site.claim \in Nat /\ lastCommit =< site.claim
  <2>1. GoodJob(j, clock) /\ j.pc = "commit"
    BY <1>1 DEF Complete, ScrapeInv
  <2>2. j \in FetcherRecord /\ j.claim > 0
    BY <2>1 DEF GoodJob
  <2>3. j.claim \in Nat /\ j.sched \in ScheduleRecord /\ j.sched.retry \in Nat
    BY <2>2, FetcherFields
  <2>4. GoodSite(site, deadline, lastCommit)
    BY DEF ScrapeInv
  <2>5. site.claim \in Nat /\ lastCommit =< site.claim
    BY <2>4 DEF GoodSite, SiteRecord
  <2>6. QED
    BY <2>2, <2>3, <2>4, <2>5 DEF ScrapeInv
<1>3. PICK t, due : /\ t = CompleteSite(site, j.claim, j.sched)
                    /\ due = DueAfter(site, deadline, j.sched)
  OBVIOUS
<1> DEFINE owner == OwnsSite(site, j.claim)
<1>4. /\ GoodSite(t, due, lastCommit) /\ t.claim = site.claim
      /\ t.sched.modes # site.sched.modes \/ owner => site.claim = j.claim
  <2>1. CompletedFrom(CompleteSite(site, j.claim, j.sched), site, deadline, lastCommit,
                      j.claim, j.sched)
    BY <1>2, CompleteSiteGood
  <2>2. CompletedFrom(t, site, deadline, lastCommit, j.claim, j.sched)
    BY <1>3, <2>1
  <2>3. QED
    BY <1>3, <2>2 DEF CompletedFrom
<1>5. /\ site' = t /\ deadline' = due
      /\ lastCommit' = IF t.sched.modes # site.sched.modes \/ owner THEN j.claim ELSE lastCommit
      /\ fetcher' = [fetcher EXCEPT ![f] = IdleFetcher] /\ UNCHANGED <<clock, subs>>
  BY <1>1, <1>3 DEF Complete, ActiveClaim, OwnsSite, DueAfter
<1>6. /\ lastCommit' \in Nat /\ lastCommit' >= lastCommit /\ lastCommit' =< t.claim
  BY <1>2, <1>4, <1>5
<1>7. due \in Nat
  BY <1>2, <1>3, MaxOfTwo DEF DueAfter
<1>8. GoodSite(site', deadline', lastCommit')
  BY <1>4, <1>5, <1>6 DEF GoodSite
<1>9. GoodJob(IdleFetcher, clock)
  BY <1>2, EmptyIsSchedule DEF GoodJob, FetchMode
<1>10. ScrapeInv'
  BY <1>2, <1>5, <1>6, <1>7, <1>8, <1>9, FetcherMoves
<1> QED
  BY <1>6, <1>10

-----------------------------------------------------------------------------
(* The requests.                                                           *)

LEMMA RequestsKeep ==
    ASSUME ScrapeConstants, ScrapeInv, NEW w \in Subscriber,
           \/ \E m \in FetchMode : SaveSource(w, m) \/ UpdateFetchMode(w, m)
           \/ EnqueueSource(w) \/ EnqueueFails(w) \/ DeleteSource(w)
           \/ CollectOrphans(w) \/ RequestRemoves(w) \/ RequeueSource(w)
           \/ ForceRequested(w)
    PROVE  ScrapeInv'
<1>1. /\ clock \in Nat /\ subs \in Subscriptions /\ deadline \in Nat /\ lastCommit \in Nat
      /\ GoodSite(site, deadline, lastCommit)
  BY DEF ScrapeInv
<1>2. UNCHANGED <<clock, fetcher, lastCommit>>
  BY DEF SaveSource, UpdateFetchMode, EnqueueSource, EnqueueFails, DeleteSource, CollectOrphans,
         RequestRemoves, RequeueSource, ForceRequested
<1>3. subs' \in Subscriptions
  <2>1. CASE subs' = subs
    BY <1>1, <2>1
  <2>2. ASSUME NEW v \in FetchMode \cup {Absent}, subs' = [subs EXCEPT ![w] = v]
        PROVE  subs' \in Subscriptions
    BY <1>1, <2>2 DEF Subscriptions
  <2>3. subs' = subs \/ \E v \in FetchMode \cup {Absent} : subs' = [subs EXCEPT ![w] = v]
    BY DEF SaveSource, SaveScrapingSources, UpdateFetchMode, UpdateScrapeSourceSettings,
           EnqueueSource, EnqueueFails, DeleteSource, DeleteRelation, CollectOrphans,
           RequestRemoves, RequeueSource, ForceRequested
  <2>4. QED
    BY <2>1, <2>2, <2>3
<1>4. CASE EnqueueSource(w)
  <2>1. PICK pc : pc = request[w]
    OBVIOUS
  <2>2. site' = AddCommand(pc) /\ deadline' = deadline
    BY <1>4, <2>1 DEF EnqueueSource
  <2>3. GoodSite(site', deadline, lastCommit)
    BY <1>1, <2>2, AddCommandGood
  <2>4. QED
    BY <1>1, <1>2, <1>3, <2>2, <2>3, SiteMoves
<1>5. CASE RequestRemoves(w)
  <2>1. PICK pc \in Removing : pc = request[w]
    BY <1>5 DEF RequestRemoves
  <2>2. site' = RemoveCommand(pc) /\ deadline' = IF pc = "remove2" THEN 0 ELSE deadline
    BY <1>5, <2>1 DEF RequestRemoves, ForgetDeadline
  <2>3. GoodSite(site', deadline', lastCommit) /\ deadline' \in Nat
    BY <1>1, <2>2, RemoveCommandGood
  <2>4. QED
    BY <1>1, <1>2, <1>3, <2>3, SiteMoves
<1>6. CASE ForceRequested(w)
  <2>1. site' = ForceSite(site, TRUE) /\ deadline' = deadline
    BY <1>6 DEF ForceRequested
  <2>2. GoodSite(site', deadline, lastCommit)
    BY <1>1, <2>1, ForceSiteGood
  <2>3. QED
    BY <1>1, <1>2, <1>3, <2>1, <2>2, SiteMoves
<1>7. CASE UNCHANGED <<site, deadline>>
  BY <1>1, <1>2, <1>3, <1>7, SiteMoves
<1> QED
  BY <1>4, <1>5, <1>6, <1>7 DEF SaveSource, UpdateFetchMode, EnqueueFails, DeleteSource,
     CollectOrphans, RequeueSource

LEMMA TableStepsKeep ==
    ASSUME ScrapeConstants, ScrapeInv,
           ScrapeTick \/ DropDangling \/ RequeueAll \/ \E j \in htmlJobs : ProcessScrapedHTML(j)
    PROVE  ScrapeInv' /\ lastCommit' = lastCommit
<1>1. /\ clock \in Nat /\ subs \in Subscriptions /\ deadline \in Nat /\ lastCommit \in Nat
      /\ GoodSite(site, deadline, lastCommit)
  BY DEF ScrapeInv
<1>2. UNCHANGED <<fetcher, subs, deadline, lastCommit>>
  BY DEF ScrapeTick, DropDangling, RequeueAll, ProcessScrapedHTML
<1>3. CASE ScrapeTick
  <2>1. clock' = clock + 1 /\ site' = site
    BY <1>3 DEF ScrapeTick
  <2>2. clock' \in Nat
    BY <1>1, <2>1
  <2>3. ASSUME NEW f \in Fetcher PROVE GoodJob(fetcher[f], clock')
    <3>1. GoodJob(fetcher[f], clock)
      BY DEF ScrapeInv
    <3>2. fetcher[f].owed \in Nat
      BY <3>1, FetcherFields DEF GoodJob
    <3>3. QED
      BY <1>1, <2>1, <3>1, <3>2 DEF GoodJob
  <2>4. QED
    BY <1>1, <1>2, <2>1, <2>2, <2>3 DEF ScrapeInv
<1>4. CASE DropDangling
  <2>1. site' = [site EXCEPT !.score = Absent] /\ clock' = clock
    BY <1>4 DEF DropDangling
  <2>2. GoodSite(site', deadline, lastCommit)
    BY <1>1, <2>1 DEF GoodSite, SiteRecord
  <2>3. QED
    BY <1>1, <1>2, <2>1, <2>2, SiteMoves
<1>5. CASE RequeueAll
  <2>1. site' = ForceSite(site, FALSE) /\ clock' = clock
    BY <1>5 DEF RequeueAll
  <2>2. GoodSite(site', deadline, lastCommit)
    BY <1>1, <2>1, ForceSiteGood
  <2>3. QED
    BY <1>1, <1>2, <2>1, <2>2, SiteMoves
<1>6. CASE \E j \in htmlJobs : ProcessScrapedHTML(j)
  BY <1>1, <1>2, <1>6, SiteMoves DEF ProcessScrapedHTML
<1> QED
  BY <1>2, <1>3, <1>4, <1>5, <1>6

LEMMA ScrapeStarts == ASSUME ScrapeInit PROVE ScrapeInv
<1>1. GoodSite(site, 0, 0)
  BY EmptyIsSchedule DEF ScrapeInit, GoodSite, SiteRecord
<1>2. GoodJob(IdleFetcher, clock)
  BY EmptyIsSchedule DEF ScrapeInit, GoodJob, FetchMode
<1> QED
  BY <1>1, <1>2 DEF ScrapeInit, ScrapeInv, Subscriptions

LEMMA ScrapeStepKeeps ==
    ASSUME ScrapeConstants, ScrapeInv, [ScrapeNext]_scrapeVars
    PROVE  ScrapeInv' /\ lastCommit' >= lastCommit
<1>1. lastCommit \in Nat
  BY DEF ScrapeInv
<1>2. ASSUME ScrapeTick \/ DropDangling \/ RequeueAll \/ \E j \in htmlJobs : ProcessScrapedHTML(j)
      PROVE  ScrapeInv' /\ lastCommit' >= lastCommit
  BY <1>1, <1>2, TableStepsKeep
<1>3. ASSUME NEW f \in Fetcher, SkipScrape(f) \/ LookupUnused(f) \/ LookupSubscriptions(f)
      PROVE  ScrapeInv' /\ lastCommit' >= lastCommit
  <2>1. lastCommit' = lastCommit
    BY <1>3 DEF SkipScrape, LookupUnused, LookupSubscriptions, Proceed
  <2>2. QED
    BY <1>1, <1>3, <2>1, LookupsKeep
<1>4. ASSUME NEW f \in Fetcher,
             SkipMode(f) \/ FetchSucceeds(f) \/ FetchFails(f) \/ FetchDeferred(f)
      PROVE  ScrapeInv' /\ lastCommit' >= lastCommit
  <2>1. lastCommit' = lastCommit
    BY <1>4 DEF SkipMode, FetchSucceeds, FetchFails, FetchDeferred, Proceed
  <2>2. QED
    BY <1>1, <1>4, <2>1, ModesKeep
<1>5. ASSUME NEW f \in Fetcher,
             GetNextScrapeSite(f) \/ RenewLease(f) \/ FetcherCrash(f) \/ FetcherRemoves(f)
      PROVE  ScrapeInv' /\ lastCommit' >= lastCommit
  <2>1. lastCommit' = lastCommit
    BY <1>5 DEF GetNextScrapeSite, RenewLease, FetcherCrash, FetcherRemoves
  <2>2. QED
    BY <1>1, <1>5, <2>1, ClaimsKeep
<1>6. ASSUME NEW f \in Fetcher, Complete(f)
      PROVE  ScrapeInv' /\ lastCommit' >= lastCommit
  BY <1>6, CompleteKeeps
<1>7. ASSUME NEW w \in Subscriber,
             \/ \E m \in FetchMode : SaveSource(w, m) \/ UpdateFetchMode(w, m)
             \/ EnqueueSource(w) \/ EnqueueFails(w) \/ DeleteSource(w)
             \/ CollectOrphans(w) \/ RequestRemoves(w) \/ RequeueSource(w)
             \/ ForceRequested(w)
      PROVE  ScrapeInv' /\ lastCommit' >= lastCommit
  <2>1. lastCommit' = lastCommit
    BY <1>7 DEF SaveSource, UpdateFetchMode, EnqueueSource, EnqueueFails, DeleteSource,
       CollectOrphans, RequestRemoves, RequeueSource, ForceRequested
  <2>2. QED
    BY <1>1, <1>7, <2>1, RequestsKeep
<1>8. ASSUME UNCHANGED scrapeVars PROVE ScrapeInv' /\ lastCommit' >= lastCommit
  BY <1>1, <1>8, SiteMoves DEF scrapeVars, ScrapeInv
<1> QED
  BY <1>2, <1>3, <1>4, <1>5, <1>6, <1>7, <1>8, Zenon DEF ScrapeNext

\* For every number of workers and workspaces and every lease, interval and
\* Retry-After: a provider's deadline holds for every later claim until the
\* source is removed (complete.lua, force.lua), and the progress of a URL is
\* replaced in the order of the claims, whatever expires, crashes or is forced.
THEOREM RetriesHonoured == ASSUME ScrapeConstants PROVE ScrapeSpec => RetriesAndProgress
<1>1. ScrapeInit => ScrapeInv
  BY ScrapeStarts
<1>2. ScrapeInv /\ [ScrapeNext]_scrapeVars => ScrapeInv'
  BY ScrapeStepKeeps
<1>3. ScrapeInv => DeadlineHonoured
  BY DEF ScrapeInv, GoodJob, DeadlineHonoured
<1>4. ScrapeInv /\ [ScrapeNext]_scrapeVars => [CommitsInClaimOrder]_scrapeVars
  BY ScrapeStepKeeps DEF CommitsInClaimOrder
<1> QED
  BY <1>1, <1>2, <1>3, <1>4, PTL DEF ScrapeSpec, RetriesAndProgress
=============================================================================
