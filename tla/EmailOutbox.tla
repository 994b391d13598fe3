----------------------------- MODULE EmailOutbox -----------------------------
(***************************************************************************)
(* The e-mail outbox: messages queued with the change they announce        *)
(* (invitations, password resets), claimed in batches by the delivery loop *)
(* of every instance, sent over SMTP, and marked.  The maintenance leader  *)
(* puts claims that are too old back and deletes old settled rows.         *)
(* Marks carry no claim: a courier that was slower than the processing     *)
(* timeout still writes its outcome.  Times are abstract: a retry is due   *)
(* or not, a claim may outlive its timeout (bounded by MaxSlow) or its     *)
(* courier (bounded by MaxCourierCrashes).                                 *)
(***************************************************************************)
EXTENDS Integers, FiniteSets

CONSTANTS
    Mail,              \* messages
    Courier,           \* delivery goroutines, of all instances
    MaxMailAttempts,   \* max_attempts of a message
    MaxSlow, MaxCourierCrashes

ASSUME MailAssumption ==
    MaxMailAttempts \in Nat \ {0} /\ MaxSlow \in Nat /\ MaxCourierCrashes \in Nat

VARIABLES
    outbox,     \* email_outboxes
    courier,    \* message, claimed attempt and step of each goroutine
    delivered,  \* messages the SMTP server accepted
    slow, courierCrashes

mailVars == <<outbox, courier, delivered, slow, courierCrashes>>

NoRow == [status |-> "none", attempts |-> 0, due |-> FALSE]
NoDuty == [pc |-> "idle", mail |-> {}, attempts |-> 0]
SettledMail == {"sent", "abandoned", "deleted"}

Carried(m) == {c \in Courier : courier[c].mail = {m}}
-----------------------------------------------------------------------------
\* EnqueueEmailOutbox.
EnqueueEmail(m) ==
    /\ outbox[m].status = "none"
    /\ outbox' = [outbox EXCEPT ![m] = [status |-> "pending", attempts |-> 0, due |-> TRUE]]
    /\ UNCHANGED <<courier, delivered, slow, courierCrashes>>

\* next_attempt_at passes.
BecomesDue(m) ==
    /\ outbox[m].status = "pending" /\ ~outbox[m].due
    /\ outbox' = [outbox EXCEPT ![m].due = TRUE]
    /\ UNCHANGED <<courier, delivered, slow, courierCrashes>>

\* Fault: the attempt is only counted when its failure is recorded.
ClaimRowUncounted(row) == [row EXCEPT !.status = "processing"]

\* ClaimPendingEmailOutbox on one row: SKIP LOCKED makes claims exclusive, the
\* attempt is counted with the claim.
ClaimRow(row) == [row EXCEPT !.status = "processing", !.attempts = @ + 1]

\* runEmailDeliveryPass hands each claimed message to a goroutine, with the row
\* as it was claimed.
ClaimPendingEmail(c, m) ==
    /\ courier[c].pc = "idle" /\ outbox[m].status = "pending" /\ outbox[m].due
    /\ outbox' = [outbox EXCEPT ![m] = ClaimRow(@)]
    /\ courier' = [courier EXCEPT ![c] =
           [pc |-> "send", mail |-> {m}, attempts |-> ClaimRow(outbox[m]).attempts]]
    /\ UNCHANGED <<delivered, slow, courierCrashes>>

\* deliverEmailOutboxMessage: SendEmail.
SendEmail(c) ==
    /\ courier[c].pc = "send"
    /\ \/ /\ delivered' = delivered \cup courier[c].mail
          /\ courier' = [courier EXCEPT ![c].pc = "mark"]
       \/ /\ courier' = [courier EXCEPT ![c].pc = "retry"]
          /\ UNCHANGED delivered
    /\ UNCHANGED <<outbox, slow, courierCrashes>>

\* The three marks: by ID alone, and lost when the row is gone.
Mark(c, status, due) ==
    /\ outbox' = [m \in Mail |->
           IF courier[c].mail = {m} /\ outbox[m].status # "deleted"
           THEN [outbox[m] EXCEPT !.status = status, !.due = due] ELSE outbox[m]]
    /\ courier' = [courier EXCEPT ![c] = NoDuty]
    /\ UNCHANGED <<delivered, slow, courierCrashes>>

MarkEmailSent(c) == courier[c].pc = "mark" /\ Mark(c, "sent", FALSE)

\* scheduleEmailRetry: again after a delay, or abandoned after the last attempt.
ScheduleEmailRetry(c) ==
    /\ courier[c].pc = "retry"
    /\ Mark(c, IF courier[c].attempts >= MaxMailAttempts THEN "abandoned" ELSE "pending", FALSE)

\* The process stops, or the mark fails.
CourierCrash(c) ==
    /\ courier[c].pc # "idle" /\ courierCrashes < MaxCourierCrashes
    /\ courierCrashes' = courierCrashes + 1
    /\ courier' = [courier EXCEPT ![c] = NoDuty]
    /\ UNCHANGED <<outbox, delivered, slow>>

\* RequeueStaleEmailOutboxMessages: a claim older than the processing timeout,
\* of a courier that is gone or only slow.
RequeueStaleEmail(m) ==
    /\ outbox[m].status = "processing"
    /\ \/ Carried(m) = {} /\ UNCHANGED slow
       \/ Carried(m) # {} /\ slow < MaxSlow /\ slow' = slow + 1
    /\ outbox' = [outbox EXCEPT ![m].status = "pending", ![m].due = TRUE]
    /\ UNCHANGED <<courier, delivered, courierCrashes>>

\* DeleteSentEmailOutbox after the retention.
DeleteSettledEmail(m) ==
    /\ outbox[m].status \in {"sent", "abandoned"}
    /\ outbox' = [outbox EXCEPT ![m].status = "deleted"]
    /\ UNCHANGED <<courier, delivered, slow, courierCrashes>>
-----------------------------------------------------------------------------
MailInit ==
    /\ outbox = [m \in Mail |-> NoRow] /\ courier = [c \in Courier |-> NoDuty]
    /\ delivered = {} /\ slow = 0 /\ courierCrashes = 0

MailNext ==
    \/ \E m \in Mail : \/ EnqueueEmail(m) \/ BecomesDue(m) \/ RequeueStaleEmail(m)
                       \/ DeleteSettledEmail(m)
    \/ \E c \in Courier : \/ \E m \in Mail : ClaimPendingEmail(c, m)
                          \/ SendEmail(c) \/ MarkEmailSent(c) \/ ScheduleEmailRetry(c)
                          \/ CourierCrash(c)

\* Every instance polls, SMTP calls end (they have timeouts), and some instance
\* holds the maintenance lock again and again.
MailFairness ==
    /\ \A m \in Mail :
          /\ WF_mailVars(BecomesDue(m))
          /\ WF_mailVars(RequeueStaleEmail(m) /\ Carried(m) = {})
          /\ SF_mailVars(\E c \in Courier : ClaimPendingEmail(c, m))
    /\ \A c \in Courier : WF_mailVars(SendEmail(c) \/ MarkEmailSent(c) \/ ScheduleEmailRetry(c))

MailSpec == MailInit /\ [][MailNext]_mailVars /\ MailFairness
-----------------------------------------------------------------------------
MailTypeOK ==
    /\ outbox \in [Mail -> [status : {"none", "pending", "processing"} \cup SettledMail,
                            attempts : Nat, due : BOOLEAN]]
    /\ \A c \in Courier : /\ courier[c].pc \in {"idle", "send", "mark", "retry"}
                          /\ courier[c].mail \subseteq Mail /\ courier[c].attempts \in Nat
    /\ delivered \subseteq Mail /\ slow \in 0..MaxSlow
    /\ courierCrashes \in 0..MaxCourierCrashes

(***************************************************************************)
(* Every queued message is settled for good in the end, although a crash   *)
(* leaves it claimed by nobody and late marks bring settled messages back. *)
(***************************************************************************)
MailSettles ==
    \A m \in Mail : (outbox[m].status # "none") ~> [](outbox[m].status \in SettledMail)
=============================================================================
