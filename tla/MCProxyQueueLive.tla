-------------------------- MODULE MCProxyQueueLive --------------------------
(* One route, possibly still in the legacy queue, and two workers.          *)
EXTENDS ProxyQueue

MCMember == {"a"}
MCShard == {"legacy", "s0"}
MCConfig == {"one"}
MCPopKeys == [c \in MCConfig |-> MCShard]
MCTarget == [c \in MCConfig |-> [m \in MCMember |-> "s0"]]
MCCanonical == [m \in MCMember |-> m]
=============================================================================
