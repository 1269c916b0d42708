------------------------------ MODULE ItemLife ------------------------------
(***************************************************************************)
(* What the enrichment queue promises of its items, whatever the sessions, *)
(* locks and rollbacks by which it keeps the promise: an item is asked for *)
(* while nobody is to work or at work on it, taken by one handler that has *)
(* no other, tried no more than MaxTries times before it is settled, and   *)
(* moved on by nobody but the handler that has it.  A handler that stops   *)
(* lets its item go as it is; nobody takes it up again.                    *)
(***************************************************************************)
EXTENDS Naturals

CONSTANTS Items, Handlers, Nobody, MaxTries

VARIABLES status, tries, holding

lifeVars == <<status, tries, holding>>

Busy == {"pending", "in_progress"}
Outcomes == {"complete", "failed", "deferred"}

Init ==
  /\ status \in [Items -> {"none"} \union Outcomes] /\ tries \in [Items -> 0..MaxTries]
  /\ \A i \in Items : status[i] = "deferred" => tries[i] < MaxTries
  /\ holding = [h \in Handlers |-> Nobody]

(* Items are asked for together; one that was put off goes on counting.    *)
Ask(wanted) ==
  /\ \A i \in wanted : status[i] \notin Busy
  /\ status' = [i \in Items |-> IF i \in wanted THEN "pending" ELSE status[i]]
  /\ tries' = [i \in Items |-> IF i \in wanted /\ status[i] # "deferred" THEN 0 ELSE tries[i]]
  /\ UNCHANGED holding

Take(h, i) ==
  /\ holding[h] = Nobody /\ \A g \in Handlers : holding[g] # i
  /\ status[i] = "pending" /\ tries[i] < MaxTries
  /\ status' = [status EXCEPT ![i] = "in_progress"]
  /\ tries' = [tries EXCEPT ![i] = @ + 1]
  /\ holding' = [holding EXCEPT ![h] = i]

Return(h, outcome) ==
  /\ holding[h] # Nobody /\ status[holding[h]] = "in_progress"
  /\ outcome = "deferred" => tries[holding[h]] < MaxTries
  /\ status' = [status EXCEPT ![holding[h]] = outcome]
  /\ holding' = [holding EXCEPT ![h] = Nobody]
  /\ UNCHANGED tries

LetGo(stopped) ==
  /\ holding' = [h \in Handlers |-> IF h \in stopped THEN Nobody ELSE holding[h]]
  /\ UNCHANGED <<status, tries>>

Next ==
  \/ \E wanted \in SUBSET Items : Ask(wanted)
  \/ \E h \in Handlers : \/ \E i \in Items : Take(h, i)
                         \/ \E outcome \in Outcomes : Return(h, outcome)
  \/ \E stopped \in SUBSET Handlers : LetGo(stopped)

Spec == Init /\ [][Next]_lifeVars

=============================================================================
