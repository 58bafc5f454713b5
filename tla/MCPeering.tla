----------------------------- MODULE MCPeering ------------------------------
(***************************************************************************)
(* Two servers whose operators agree to link, for TLC: by exchanging       *)
(* tokens ("exchange"), or by one, the host, offering the other a login    *)
(* ("dial").  Both begin with the same registration list.                  *)
(***************************************************************************)
EXTENDS Peering, TLC

VARIABLES part, host

Init == /\ part \in {"exchange", "dial"} /\ host \in Servers
        /\ PeeringInit
        /\ \A s, t \in Servers : registry[s] = registry[t]
        /\ part = "exchange" => \A s \in Servers : registry[s].mode = "none"

Next == /\ \/ part = "exchange" /\ (Exchanging \/ Keeping)
           \/ part = "dial" /\ (Dialling \/ Keeping)
        /\ \A s \in Servers \ {host} : asked'[s] = asked[s]
        /\ UNCHANGED <<part, host>>

Spec == Init /\ [][Next]_<<part, host, peeringVars>>

Alike == Permutations(Secrets) \cup Permutations(Servers) \cup Permutations(Admins)
=============================================================================
