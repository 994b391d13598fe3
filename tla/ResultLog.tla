----------------------------- MODULE ResultLog -----------------------------
(***************************************************************************)
(* What statistics ingestion promises of check results, without streams,   *)
(* consumers, ledgers or floors: a result that was accepted is kept until  *)
(* it is settled, that is, counted once or excluded for a documented       *)
(* reason, and what has been counted stays counted.                        *)
(***************************************************************************)
EXTENDS Naturals

CONSTANTS Result

VARIABLES
    accepted,   \* results handed to the stream
    kept,       \* results that can still be delivered
    count,      \* how often history and counters received each
    excluded    \* results that need not be counted

logVars == <<accepted, kept, count, excluded>>

Settled(e) == count[e] > 0 \/ e \in excluded

LogInit ==
    /\ accepted = {} /\ kept = {} /\ excluded = {}
    /\ count = [e \in Result |-> 0]

\* A result is accepted; to make room, others may be given up.
Accept(e) ==
    /\ e \notin accepted
    /\ accepted' = accepted \cup {e}
    /\ kept' \subseteq kept \cup {e}
    /\ excluded \subseteq excluded' /\ excluded' \subseteq excluded \cup kept \cup {e}
    /\ (kept \cup {e}) \ kept' \subseteq excluded'
    /\ UNCHANGED count

\* One transaction: results are counted for the first time, others excluded.
Settle ==
    /\ \A e \in Result :
          count'[e] # count[e] => e \in accepted /\ count[e] = 0 /\ count'[e] = 1
    /\ excluded \subseteq excluded' /\ excluded' \subseteq accepted
    /\ UNCHANGED <<accepted, kept>>

\* Settled results are thrown away; a result that cannot be read is settled by it.
Forget ==
    /\ excluded \subseteq excluded' /\ excluded' \subseteq accepted
    /\ kept' \subseteq kept
    /\ \A e \in kept \ kept' : count[e] > 0 \/ e \in excluded'
    /\ UNCHANGED <<accepted, count>>

\* Redis comes back with an older state: what it lost is excluded, and what
\* had been thrown away is back.
Restore ==
    /\ kept' \subseteq accepted
    /\ excluded' = excluded \cup (kept \ kept')
    /\ UNCHANGED <<accepted, count>>

LogNext == (\E e \in Result : Accept(e)) \/ Settle \/ Forget \/ Restore

LogSpec == LogInit /\ [][LogNext]_logVars
=============================================================================
