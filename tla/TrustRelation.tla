--------------------------- MODULE TrustRelation ---------------------------
(***************************************************************************)
(* What a trust list promises, whatever the requests that edit it: two     *)
(* users trust each other only after one has asked the other, trust is     *)
(* mutual, and trust that was withdrawn does not come back by itself.      *)
(***************************************************************************)
CONSTANT Users

VARIABLES asked,     (* the pairs <<a, b>> where a has asked b             *)
          trust      (* the state of each pair of users                    *)

Pair(a, b) == {a, b}
Asks == {k \in Users \X Users : k[1] # k[2]}
Pairs == {Pair(k[1], k[2]) : k \in Asks}

Init ==
  /\ asked \in SUBSET Asks
  /\ trust = [p \in Pairs |-> "none"]

Ask(k) ==
  /\ asked' = asked \union {k}
  /\ UNCHANGED trust

(* A request that both asks and answers commits as one step, and may make  *)
(* or break the trust of several pairs.                                    *)
Settle ==
  /\ asked' \in {asked \union s : s \in SUBSET Asks}
  /\ trust' \in [Pairs -> {"none", "active", "revoked"}]
  /\ \A p \in Pairs :
       \/ trust'[p] = trust[p]
       \/ /\ trust[p] = "none" /\ trust'[p] = "active"
          /\ \E k \in asked : p = Pair(k[1], k[2])
       \/ trust[p] = "active" /\ trust'[p] = "revoked"

Next == (\E k \in Asks : Ask(k)) \/ Settle

Spec == Init /\ [][Next]_<<asked, trust>>

=============================================================================
