----------------------------- MODULE NextSteps ------------------------------
(***************************************************************************)
(* What the user is asked to do next: the steps of setting up, derived     *)
(* each time they are shown, and the tasks to reach out about postings     *)
(* that interest the user, kept in rows that every look at the list brings *)
(* up to date.                                                             *)
(***************************************************************************)
EXTENDS JobBoard

CONSTANTS Looks,      (* the requests that bring a list up to date         *)
          Pursued,    (* the postings a user has an opinion of             *)
          Setups,     (* what is set up, as the user proceeds              *)
          Markable    (* the steps that a user marks as done, or skips     *)

Parts == {"phone", "linkedin", "profile", "companies", "preferences"}
Onboarding == {"upload_phone", "upload_linkedin", "upload_profile", "set_job_criteria", "review_jobs"}
ASSUME StepsAssumption ==
  Setups \subseteq SUBSET Parts /\ Markable \subseteq Onboarding /\ Pursued \subseteq Postings

VARIABLES interest,   (* per user and posting                              *)
          task,       (* the row of the task to reach out about a posting  *)
          setup, overrides,
          reach,      (* per user and company: the best way there          *)
          opinion,    (* the requests that set an interest, between what   *)
                      (* they read and their commit                        *)
          look        (* those that bring the tasks up to date, likewise   *)

stepsVars == <<interest, task, setup, overrides, reach, opinion, look>>

Ways == {"direct", "bridge", "nobody"}
NoOutreach == [status |-> "none", way |-> "nobody"]
NoLook == [user |-> None, wanted |-> {}, seen |-> <<>>]
NoOpinion == [user |-> None, posting |-> None, said |-> "none", found |-> "none", open |-> FALSE]

StepsInit ==
  /\ interest = [u \in Seekers |-> [j \in Postings |-> "none"]]
  /\ task = [u \in Seekers |-> [j \in Postings |-> NoOutreach]]
  /\ setup \in [Seekers -> Setups] /\ overrides = [u \in Seekers |-> {}]
  /\ reach = [u \in Seekers |-> [o \in Firms |-> "nobody"]]
  /\ opinion = [l \in Looks |-> NoOpinion] /\ look = [l \in Looks |-> NoLook]

-----------------------------------------------------------------------------
(* The list that is shown.                                                 *)

Unreviewed(u) ==
  IF ~monitor[u].on THEN {}
  ELSE {j \in Postings : OrgOf[j] \in List(u) /\ posting[j] = "open" /\ match[u][j].level # "irrelevant"
                           /\ interest[u][j] = "none"}

GraphReady(u) == {"phone", "linkedin"} \subseteq setup[u]
CriteriaComplete(u) == {"companies", "preferences"} \subseteq setup[u] /\ monitor[u].on
OnboardingSteps(u) ==
  {k \in Onboarding \ overrides[u] :
     \/ k = "upload_phone" /\ "phone" \notin setup[u]
     \/ k = "upload_linkedin" /\ "linkedin" \notin setup[u]
     \/ k = "upload_profile" /\ GraphReady(u) /\ "profile" \notin setup[u]
     \/ k = "set_job_criteria" /\ GraphReady(u) /\ ~CriteriaComplete(u)
     \/ k = "review_jobs" /\ CriteriaComplete(u) /\ "profile" \in setup[u] /\ Unreviewed(u) # {}}
OutreachSteps(u) == {j \in Postings : task[u][j].status = "open"}

-----------------------------------------------------------------------------
(* Bringing the tasks up to date: a request reads what interests the user  *)
(* and the rows of tasks, looks for contacts of each company, and commits. *)

Reads(u, now) == [user |-> u, wanted |-> {j \in Postings : now[j] = "interested" /\ posting[j] = "open"},
                  seen |-> [j \in Postings |-> task[u][j].status]]
Idle(l) == look[l] = NoLook /\ opinion[l] = NoOpinion
GetNextSteps(l, u) ==
  /\ Idle(l) /\ look' = [look EXCEPT ![l] = Reads(u, interest[u])]
  /\ UNCHANGED <<interest, task, setup, overrides, reach, opinion>>

(* Tasks are added and open ones renewed, those done or skipped left.  One *)
(* that another request has added meanwhile makes the whole commit fail.   *)
Added(l) == {j \in look[l].wanted : look[l].seen[j] = "none"}
Renewed(l) == {j \in look[l].wanted : look[l].seen[j] = "open"}
(* A plausible slip: the row is written as it would be added.              *)
Rewritten(t, way) == [status |-> "open", way |-> way]
WithWay(t, way) == [t EXCEPT !.way = way]
Reconciled(l) ==
  LET u == look[l].user IN
  [task EXCEPT ![u] = [j \in Postings |->
     CASE j \in Added(l) -> [status |-> "open", way |-> reach[u][OrgOf[j]]]
       [] j \in Renewed(l) -> WithWay(@[j], reach[u][OrgOf[j]])
       [] OTHER -> @[j]]]
Conflict(l) == \E j \in Added(l) : task[look[l].user][j].status # "none"

Reconcile(l) ==
  /\ look[l] # NoLook /\ look' = [look EXCEPT ![l] = NoLook]
  /\ IF Conflict(l) THEN UNCHANGED task ELSE task' = Reconciled(l)
  /\ UNCHANGED <<interest, setup, overrides, reach, opinion>>
LookFails(l) ==
  /\ ~Idle(l) /\ look' = [look EXCEPT ![l] = NoLook] /\ opinion' = [opinion EXCEPT ![l] = NoOpinion]
  /\ UNCHANGED <<interest, task, setup, overrides, reach>>

-----------------------------------------------------------------------------
(* What the user says.                                                     *)

(* The interest as it is and the row of the task are read; the interest of *)
(* a posting to be dismissed is written with the second read, and others   *)
(* who write it wait.                                                      *)
Dismissing(u, j) ==
  \E l \in Looks : opinion[l].user = u /\ opinion[l].posting = j /\ opinion[l].said = "dismissed"
SetJobInterest(l, u, j) ==
  /\ Idle(l) /\ posting[j] # "unknown"
  /\ \E i \in {"interested", "dismissed"} :
       /\ i = "dismissed" => ~Dismissing(u, j)
       /\ opinion' = [opinion EXCEPT ![l] = [user |-> u, posting |-> j, said |-> i, found |-> interest[u][j],
                                            open |-> i = "dismissed" /\ task[u][j].status = "open"]]
  /\ UNCHANGED <<interest, task, setup, overrides, reach, look>>

(* A task that was open when it was read is skipped.  After the commit a   *)
(* request of the other kind begins.  The second to add an interest fails. *)
InterestSet(l) ==
  LET o == opinion[l] IN
  /\ o # NoOpinion /\ (o.said = "interested" => ~Dismissing(o.user, o.posting))
  /\ o.found = "none" => interest[o.user][o.posting] = "none"
  /\ opinion' = [opinion EXCEPT ![l] = NoOpinion]
  /\ interest' = [interest EXCEPT ![o.user][o.posting] = o.said]
  /\ task' = IF o.open THEN [task EXCEPT ![o.user][o.posting].status = "skipped"] ELSE task
  /\ look' = [look EXCEPT ![l] =
       [Reads(o.user, interest'[o.user]) EXCEPT !.seen = [j \in Postings |-> task'[o.user][j].status]]]
  /\ UNCHANGED <<setup, overrides, reach>>

(* A step is marked whatever the list shows; a row that does not exist yet *)
(* is added, and one marked once is not derived again.                     *)
UpdateTaskStatus(u) ==
  /\ \/ \E j \in Pursued, s \in {"done", "skipped"} :
          task' = [task EXCEPT ![u][j].status = s] /\ UNCHANGED overrides
     \/ \E k \in Markable : overrides' = [overrides EXCEPT ![u] = @ \union {k}] /\ UNCHANGED task
  /\ UNCHANGED <<interest, setup, reach, opinion, look>>

(* Sources, profiles and contacts change.                                  *)
SetupMoves(u) ==
  /\ setup' \in {[setup EXCEPT ![u] = s] : s \in Setups}
  /\ UNCHANGED <<interest, task, overrides, reach, opinion, look>>
ReachMoves(u, o) ==
  /\ reach' \in {[reach EXCEPT ![u][o] = w] : w \in Ways}
  /\ UNCHANGED <<interest, task, setup, overrides, opinion, look>>

StepsNext ==
  \/ \E l \in Looks : Reconcile(l) \/ InterestSet(l) \/ LookFails(l) \/ \E u \in Seekers : GetNextSteps(l, u)
  \/ \E l \in Looks, u \in Seekers, j \in Pursued : SetJobInterest(l, u, j)
  \/ \E u \in Seekers : UpdateTaskStatus(u) \/ SetupMoves(u) \/ \E o \in Firms : ReachMoves(u, o)

(* The steps of the user beside those of the postings.                     *)
StepsSpec ==
  /\ BoardInit /\ StepsInit
  /\ [][(StepsNext /\ UNCHANGED boardVars) \/ (BoardNext /\ UNCHANGED stepsVars)]_<<boardVars, stepsVars>>

-----------------------------------------------------------------------------
(* Properties.                                                             *)

StepsTypeOK ==
  /\ interest \in [Seekers -> [Postings -> {"none", "interested", "dismissed"}]]
  /\ task \in [Seekers -> [Postings -> [status : {"none", "open", "done", "skipped"}, way : Ways]]]
  /\ setup \in [Seekers -> SUBSET Parts] /\ overrides \in [Seekers -> SUBSET Onboarding]

(* A task that was done or skipped is never asked for again, whatever the  *)
(* requests under way had read of it when the user marked it, and in       *)
(* whatever order they write.                                              *)
SettledStays ==
  [][\A u \in Seekers, j \in Postings :
       task[u][j].status \in {"done", "skipped"} => task'[u][j].status \in {"done", "skipped"}]_stepsVars

=============================================================================
