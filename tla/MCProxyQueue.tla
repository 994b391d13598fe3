---------------------------- MODULE MCProxyQueue ----------------------------
(* A current route "a" and "x", a member of an earlier release that decodes *)
(* to the same route.                                                       *)
EXTENDS ProxyQueue, TLC

MCMember == {"a", "x"}
MCShard == {"legacy", "s0"}
MCConfig == {"one"}
MCPopKeys == [c \in MCConfig |-> MCShard]
MCTarget == [c \in MCConfig |-> [m \in MCMember |-> "s0"]]
MCCanonical == [m \in MCMember |-> "a"]

MCSymmetry == Permutations(Worker)
=============================================================================
