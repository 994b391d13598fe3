-------------------------------- MODULE Alerts --------------------------------
(***************************************************************************)
(* Alert rules, their incidents and the deliveries that announce them, for *)
(* one rule with one destination (rules share nothing but the workspace    *)
(* row lock).  Evaluators are passes of the leader routine; leadership can *)
(* change hands while an old pass still runs, so there may be several.     *)
(* Senders are delivery slots of all instances.  Every transaction of      *)
(* applyAlertObservations and of the configuration handlers locks the      *)
(* workspace row and is one action; claiming and finishing a delivery do   *)
(* not take that lock.  One unit of time is one evaluation interval.       *)
(***************************************************************************)
EXTENDS Integers, Sequences

CONSTANTS
    Evaluator, Sender,
    Never,           \* NULL timestamp or id
    Sustain,         \* AlertSustainDuration
    MaxGap,          \* 90 seconds: a longer silence forgets a pending breach
    StaleAfter,      \* five minutes: a claim that old is given up
    MaxDeliveryAttempts,  \* AlertMaximumDeliveryAttempts
    HistoryKept,     \* 90 days
    AlertHorizon,    \* bound on the clock
    MaxEdits,        \* bound on configuration changes
    MaxClaimTokens   \* bound on claims

\* What the code guarantees of the constants.
AlertConstants ==
    /\ Never \notin Nat   \* NULL
    /\ Sustain \in Nat /\ MaxGap \in Nat /\ StaleAfter \in Nat /\ HistoryKept \in Nat
    /\ MaxDeliveryAttempts \in Nat \ {0}
    /\ AlertHorizon \in Nat /\ MaxEdits \in Nat /\ MaxClaimTokens \in Nat

VARIABLES
    atime,       \* clock
    rule,        \* the alert_rules row
    generation,  \* checker generation of the workspace
    incidents,   \* alert_incidents, in order of ID
    deliveries,  \* alert_deliveries, in order of ID
    target,      \* the destination: "enabled", "disabled" or "deleted"
    evaluator,   \* passes under way
    sender,      \* claimed messages being sent
    tokens,      \* claim tokens handed out
    edits        \* bound

alertVars == <<atime, rule, generation, incidents, deliveries, target, evaluator,
               sender, tokens, edits>>

Open == "open"   \* close_reason of an incident that is not closed

IdlePass == [pc |-> "idle", rev |-> 0, gen |-> 0, now |-> 0, seen |-> "unknown"]
IdleSender == [pc |-> "idle", id |-> 0, token |-> 0]
Unfinished == {"pending", "processing"}
-----------------------------------------------------------------------------
(* Evaluation.                                                             *)

\* evaluateAlerts: the snapshot of the enabled rules and of the workspace.
LoadRules(e) ==
    /\ evaluator[e].pc = "idle" /\ rule.enabled
    /\ evaluator' = [evaluator EXCEPT ![e] =
           [pc |-> "loaded", rev |-> rule.rev, gen |-> generation, now |-> atime, seen |-> "unknown"]]
    /\ UNCHANGED <<atime, rule, generation, incidents, deliveries, target, sender, tokens, edits>>

\* recordAlertEvaluationAttempts: the batch is started unless a pass of this or
\* a later time was, or its rule changed.
MayStart(pass) == rule.enabled /\ rule.rev = pass.rev
                  /\ (rule.lastAttempt # Never => rule.lastAttempt < pass.now)

\* What the measurements may say of the rule: no value (too few samples, a
\* time-out, dirty checker settings), a value on either side of the threshold,
\* or that its rotator is gone.
Observation == {"unknown", "breach", "healthy", "missing"}

\* evaluateWorkspace up to the observation.
StartBatch(e) ==
    /\ evaluator[e].pc = "loaded"
    /\ \/ /\ MayStart(evaluator[e])
          /\ rule' = [rule EXCEPT !.lastAttempt = evaluator[e].now]
          /\ \E seen \in Observation :
               evaluator' = [evaluator EXCEPT ![e].pc = "observed", ![e].seen = seen]
       \/ /\ ~MayStart(evaluator[e])
          /\ evaluator' = [evaluator EXCEPT ![e] = IdlePass]
          /\ UNCHANGED rule
    /\ UNCHANGED <<atime, generation, incidents, deliveries, target, sender, tokens, edits>>

\* The pass times out or loses leadership.
AbandonPass(e) ==
    /\ evaluator[e].pc # "idle"
    /\ evaluator' = [evaluator EXCEPT ![e] = IdlePass]
    /\ UNCHANGED <<atime, rule, generation, incidents, deliveries, target, sender, tokens, edits>>

\* The rule row after an observation at time now: which timer runs.  A long
\* silence since the last evaluation forgets both timers.
Observe(r, seen, now) ==
    LET silent == r.lastEval # Never /\ now - r.lastEval > MaxGap
        since(t) == IF silent \/ t = Never THEN now ELSE t
        base == [r EXCEPT !.lastEval = now]
    IN  CASE seen = "unknown" -> [base EXCEPT !.breach = Never, !.recovery = Never]
          [] seen = "breach" ->
               [base EXCEPT !.recovery = Never,
                            !.breach = IF r.incident = Never THEN since(@)
                                       ELSE IF silent THEN Never ELSE @]
          [] seen = "healthy" ->
               [base EXCEPT !.breach = Never,
                            !.recovery = IF r.incident # Never THEN since(@) ELSE Never]

Opens(r, seen, now) ==
    seen = "breach" /\ r.incident = Never /\ now - r.breach >= Sustain
Recovers(r, seen, now) ==
    seen = "healthy" /\ r.incident # Never /\ now - r.recovery >= Sustain

\* queueAlertTransitions: one message if the destination is enabled.
Announce(inc, event, now) ==
    IF target # "enabled" THEN <<>>
    ELSE <<[inc |-> inc, event |-> event, status |-> "pending", attempts |-> 0,
            next |-> now, token |-> 0, last |-> Never]>>

\* Fault: an edit leaves the incident of the old revision open.
CloseForConfigurationForgets(now) ==
    /\ UNCHANGED incidents
    /\ deliveries' = [d \in DOMAIN deliveries |->
           IF deliveries[d].status \in Unfinished
           THEN [deliveries[d] EXCEPT !.status = "canceled", !.token = 0] ELSE deliveries[d]]

\* closeAlertForConfiguration: close the active incident and cancel whatever is
\* not finished yet for the rule, claimed messages included.
CloseForConfiguration(now) ==
    /\ incidents' = IF rule.incident = Never THEN incidents
                    ELSE [incidents EXCEPT ![rule.incident].reason = "configuration_changed",
                                           ![rule.incident].closed = now]
    /\ deliveries' = [d \in DOMAIN deliveries |->
           IF deliveries[d].status \in Unfinished
           THEN [deliveries[d] EXCEPT !.status = "canceled", !.token = 0] ELSE deliveries[d]]

\* applyAlertObservations skips a rule that changed, or was evaluated later.
Outdated(pass) == \/ ~rule.enabled \/ rule.rev # pass.rev
                  \/ pass.seen # "missing" /\ rule.lastEval # Never /\ pass.now =< rule.lastEval

\* applyAlertObservations for a rule whose rotator is gone: disable it.
DisableRule(pass) ==
    /\ CloseForConfiguration(pass.now)
    /\ rule' = [rule EXCEPT !.enabled = FALSE, !.rev = @ + 1, !.incident = Never,
                            !.breach = Never, !.recovery = Never]

\* applyAlertObservations for a measured rule: state, incident and outbox in
\* one transaction.  A checker change since the snapshot voids the value.
TransitRule(pass) ==
    LET seen == IF generation # pass.gen THEN "unknown" ELSE pass.seen
        r == Observe(rule, seen, pass.now)
        new == Len(incidents) + 1
    IN  CASE Opens(r, seen, pass.now) ->
               /\ incidents' = Append(incidents, [rev |-> rule.rev, reason |-> Open, closed |-> Never])
               /\ deliveries' = deliveries \o Announce(new, "opened", pass.now)
               /\ rule' = [r EXCEPT !.incident = new, !.breach = Never]
          [] Recovers(r, seen, pass.now) ->
               /\ incidents' = [incidents EXCEPT ![r.incident].reason = "recovered",
                                                 ![r.incident].closed = pass.now]
               /\ deliveries' = deliveries \o Announce(r.incident, "recovered", pass.now)
               /\ rule' = [r EXCEPT !.incident = Never, !.recovery = Never]
          [] OTHER -> rule' = r /\ UNCHANGED <<incidents, deliveries>>

ApplyObservations(e) ==
    LET pass == evaluator[e] IN
    /\ pass.pc = "observed"
    /\ \/ Outdated(pass) /\ UNCHANGED <<rule, incidents, deliveries>>
       \/ ~Outdated(pass) /\ pass.seen = "missing" /\ DisableRule(pass)
       \/ ~Outdated(pass) /\ pass.seen # "missing" /\ TransitRule(pass)
    /\ evaluator' = [evaluator EXCEPT ![e] = IdlePass]
    /\ UNCHANGED <<atime, generation, target, sender, tokens, edits>>

\* CleanupAlertHistory: closed incidents go after a while, with their messages.
CleanupAlertHistory(i) ==
    /\ incidents[i].reason \notin {Open, "gone"} /\ incidents[i].closed + HistoryKept < atime
    /\ incidents' = [incidents EXCEPT ![i].reason = "gone"]
    /\ deliveries' = [d \in DOMAIN deliveries |->
           IF deliveries[d].inc = i THEN [deliveries[d] EXCEPT !.status = "gone", !.token = 0]
           ELSE deliveries[d]]
    /\ UNCHANGED <<atime, rule, generation, target, evaluator, sender, tokens, edits>>
-----------------------------------------------------------------------------
(* Configuration.                                                          *)

Edit == edits < MaxEdits /\ edits' = edits + 1

\* SaveAlertRule on an existing rule: every edit starts a new revision.
SaveAlertRule(enabled) ==
    /\ Edit /\ rule.exists
    /\ CloseForConfiguration(atime)
    /\ rule' = [rule EXCEPT !.rev = @ + 1, !.enabled = enabled, !.lastEval = Never,
                            !.lastAttempt = Never, !.breach = Never, !.recovery = Never,
                            !.incident = Never]
    /\ UNCHANGED <<atime, generation, target, evaluator, sender, tokens>>

DeleteAlertRule ==
    /\ Edit /\ rule.exists
    /\ CloseForConfiguration(atime)
    /\ rule' = [rule EXCEPT !.exists = FALSE, !.enabled = FALSE, !.incident = Never]
    /\ UNCHANGED <<atime, generation, target, evaluator, sender, tokens>>

\* cancelAlertDestinationDeliveries.
CancelDeliveries ==
    deliveries' = [d \in DOMAIN deliveries |->
        IF deliveries[d].status \in Unfinished
        THEN [deliveries[d] EXCEPT !.status = "canceled", !.token = 0] ELSE deliveries[d]]

SaveAlertDestination(state) ==
    /\ Edit /\ target # "deleted"
    /\ CancelDeliveries
    /\ target' = state
    /\ UNCHANGED <<atime, rule, generation, incidents, evaluator, sender, tokens>>

\* DeleteAlertDestination: what was announced to it stays in the history.
DeleteAlertDestination ==
    /\ Edit /\ target # "deleted"
    /\ CancelDeliveries
    /\ target' = "deleted"
    /\ UNCHANGED <<atime, rule, generation, incidents, evaluator, sender, tokens>>

\* The workspace's checker settings change.
ChangeChecker ==
    /\ Edit
    /\ generation' = generation + 1
    /\ UNCHANGED <<atime, rule, incidents, deliveries, target, evaluator, sender, tokens>>

\* RetryAlertDelivery: only the latest message of its incident, and only while
\* rule and destination are the ones it was written for.
Retryable(d) ==
    /\ deliveries[d].status = "failed" /\ target = "enabled"
    /\ \A n \in DOMAIN deliveries : n > d => deliveries[n].inc # deliveries[d].inc
    /\ incidents[deliveries[d].inc].reason # "configuration_changed"
    /\ rule.exists /\ incidents[deliveries[d].inc].rev = rule.rev

RetryAlertDelivery(d) ==
    /\ Edit /\ Retryable(d)
    /\ deliveries' = [deliveries EXCEPT ![d].status = "pending", ![d].attempts = 0,
                                        ![d].next = atime, ![d].token = 0]
    /\ UNCHANGED <<atime, rule, generation, incidents, target, evaluator, sender, tokens>>
-----------------------------------------------------------------------------
(* Delivery.                                                               *)

\* ClaimAlertDeliveries first gives up claims older than five minutes ...
RecoverStale ==
    [d \in DOMAIN deliveries |->
        IF deliveries[d].status = "processing" /\ deliveries[d].last + StaleAfter < atime
        THEN [deliveries[d] EXCEPT !.token = 0,
                 !.status = IF @ = "processing" /\ deliveries[d].attempts >= MaxDeliveryAttempts
                            THEN "failed" ELSE "pending"]
        ELSE deliveries[d]]

\* ... then claims what is due and has no unfinished predecessor of its incident.
Claimable(ds, d) ==
    /\ ds[d].status = "pending" /\ ds[d].next =< atime
    /\ \A o \in 1..(d - 1) : ds[o].inc = ds[d].inc => ds[o].status \notin Unfinished

ClaimAlertDeliveries(s) ==
    LET recovered == RecoverStale
        claimable == {d \in DOMAIN recovered : Claimable(recovered, d)}
        first == CHOOSE d \in claimable : \A o \in claimable : d =< o
    IN  /\ sender[s].pc = "idle" /\ tokens < MaxClaimTokens
        /\ \/ /\ claimable # {}
              /\ tokens' = tokens + 1
              /\ deliveries' = [recovered EXCEPT ![first].status = "processing",
                     ![first].token = tokens + 1, ![first].attempts = @ + 1, ![first].last = atime]
              /\ sender' = [sender EXCEPT ![s] = [pc |-> "claimed", id |-> first, token |-> tokens + 1]]
           \/ /\ claimable = {} /\ deliveries # recovered
              /\ deliveries' = recovered
              /\ UNCHANGED <<tokens, sender>>
        /\ UNCHANGED <<atime, rule, generation, incidents, target, evaluator, edits>>

Owns(msg) == deliveries[msg.id].status = "processing" /\ deliveries[msg.id].token = msg.token

\* FinishAlertDelivery: only the holder of the claim writes the outcome.
FinishDelivery(msg, status, delay) ==
    deliveries' = IF Owns(msg)
                  THEN [deliveries EXCEPT ![msg.id].status = status,
                                          ![msg.id].next = atime + delay, ![msg.id].token = 0]
                  ELSE deliveries

\* deliverAlertMessage: GetAlertDeliveryDestination rechecks claim and
\* destination; a database error leaves the message to the stale claim timeout.
RecheckDestination(s) ==
    LET msg == sender[s] IN
    /\ msg.pc = "claimed"
    /\ \/ /\ Owns(msg) /\ target = "enabled"
          /\ sender' = [sender EXCEPT ![s].pc = "send"]
          /\ UNCHANGED deliveries
       \/ /\ ~(Owns(msg) /\ target = "enabled")
          /\ FinishDelivery(msg, "canceled", 0)
          /\ sender' = [sender EXCEPT ![s] = IdleSender]
    /\ UNCHANGED <<atime, rule, generation, incidents, target, evaluator, tokens, edits>>

\* ... and the outcome: sent, retried later, or failed for good.
SendMessage(s) ==
    LET msg == sender[s]
        exhausted == deliveries[msg.id].attempts >= MaxDeliveryAttempts
    IN  /\ msg.pc = "send"
        /\ \/ FinishDelivery(msg, "sent", 0)
           \/ ~exhausted /\ FinishDelivery(msg, "pending", 1)
           \/ FinishDelivery(msg, "failed", 0)   \* permanent error, or exhausted
        /\ sender' = [sender EXCEPT ![s] = IdleSender]
        /\ UNCHANGED <<atime, rule, generation, incidents, target, evaluator, tokens, edits>>

\* The process stops, or its status update fails.
SenderStops(s) ==
    /\ sender[s].pc # "idle"
    /\ sender' = [sender EXCEPT ![s] = IdleSender]
    /\ UNCHANGED <<atime, rule, generation, incidents, deliveries, target, evaluator, tokens, edits>>

AlertTick ==
    /\ atime < AlertHorizon
    /\ atime' = atime + 1
    /\ UNCHANGED <<rule, generation, incidents, deliveries, target, evaluator, sender, tokens, edits>>
-----------------------------------------------------------------------------
AlertInit ==
    /\ atime = 1 /\ generation = 0 /\ incidents = <<>> /\ deliveries = <<>>
    /\ rule = [exists |-> TRUE, enabled |-> TRUE, rev |-> 1, lastEval |-> Never,
               lastAttempt |-> Never, breach |-> Never, recovery |-> Never, incident |-> Never]
    /\ target = "enabled"
    /\ evaluator = [e \in Evaluator |-> IdlePass]
    /\ sender = [s \in Sender |-> IdleSender]
    /\ tokens = 0 /\ edits = 0

AlertNext ==
    \/ AlertTick \/ DeleteAlertRule \/ DeleteAlertDestination \/ ChangeChecker
    \/ \E enabled \in BOOLEAN : SaveAlertRule(enabled)
    \/ \E state \in {"enabled", "disabled"} : SaveAlertDestination(state)
    \/ \E i \in DOMAIN incidents : CleanupAlertHistory(i)
    \/ \E d \in DOMAIN deliveries : RetryAlertDelivery(d)
    \/ \E e \in Evaluator : \/ LoadRules(e) \/ StartBatch(e) \/ AbandonPass(e)
                            \/ ApplyObservations(e)
    \/ \E s \in Sender : \/ ClaimAlertDeliveries(s) \/ RecheckDestination(s)
                         \/ SendMessage(s) \/ SenderStops(s)

AlertSpec == AlertInit /\ [][AlertNext]_alertVars
-----------------------------------------------------------------------------
AlertTimes == 0..(AlertHorizon + 1)

AlertTypeOK ==
    /\ atime \in 1..AlertHorizon /\ generation \in 0..MaxEdits
    /\ rule \in [exists : BOOLEAN, enabled : BOOLEAN, rev : 1..(1 + MaxEdits + AlertHorizon),
                 lastEval : AlertTimes \cup {Never}, lastAttempt : AlertTimes \cup {Never},
                 breach : AlertTimes \cup {Never}, recovery : AlertTimes \cup {Never},
                 incident : (DOMAIN incidents) \cup {Never}]
    /\ \A i \in DOMAIN incidents :
          incidents[i].reason \in {Open, "recovered", "configuration_changed", "gone"}
    /\ \A d \in DOMAIN deliveries :
          /\ deliveries[d].inc \in DOMAIN incidents
          /\ deliveries[d].event \in {"opened", "recovered"}
          /\ deliveries[d].status \in Unfinished \cup {"sent", "failed", "canceled", "gone"}
          /\ deliveries[d].attempts \in 0..MaxDeliveryAttempts
    /\ target \in {"enabled", "disabled", "deleted"}
    /\ \A e \in Evaluator : evaluator[e].seen \in Observation
    /\ \A s \in Sender : sender[s].pc # "idle" => sender[s].id \in DOMAIN deliveries
    /\ tokens \in 0..MaxClaimTokens /\ edits \in 0..MaxEdits

(***************************************************************************)
(* The open incidents are exactly the rule's active one, and it belongs to *)
(* the rule's current revision: overlapping passes, edits and deletions    *)
(* neither leave an incident open for ever nor open a second one.          *)
(* (applyAlertObservations fails for good on a mismatch.)                  *)
(***************************************************************************)
OneOpenIncident ==
    /\ {i \in DOMAIN incidents : incidents[i].reason = Open}
         = (IF rule.incident = Never THEN {} ELSE {rule.incident})
    /\ rule.incident # Never => incidents[rule.incident].rev = rule.rev

(***************************************************************************)
(* Recipients hear of an incident in order: while or after its recovery is *)
(* being sent, no earlier message of the incident is waiting to be sent,   *)
(* whatever claims went stale, failed and were retried by hand.            *)
(***************************************************************************)
EventsInOrder ==
    \A d \in DOMAIN deliveries : \A o \in 1..(d - 1) :
        (deliveries[o].inc = deliveries[d].inc /\ deliveries[d].status \in {"processing", "sent"})
            => deliveries[o].status \notin Unfinished

\* What the workspace may rely on: one open incident at most, which is the
\* rule's, and its messages in order.
IncidentsInOrder == OneOpenIncident /\ EventsInOrder
=============================================================================
